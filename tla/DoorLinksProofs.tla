---------------------------- MODULE DoorLinksProofs ----------------------------
(***************************************************************************)
(* Proofs about DeviceSync and DoorLinks: what the listeners of a device   *)
(* poll do to the registries, that devices are found, shown and linked,    *)
(* and that the links' titles follow.                                      *)
(***************************************************************************)
EXTENDS DoorLinks, SequenceTheorems, TLAPS

-----------------------------------------------------------------------------
(* What the integration and the registries hold                            *)

LEMMA SomeType ==
    ASSUME NEW f, NEW S
    PROVE  OfSome(f, S) <=> DOMAIN f \subseteq Devices /\ f \in [DOMAIN f -> S]
  BY DEF OfSome

Registration == [firmware : Nat, via : Connects \cup {None}]

\* The type of `home`, field by field.
Fields == {"connects", "activity", "added", "clash", "registry", "registered", "entities"}

HasFields(h) == DOMAIN h = Fields /\ h = [field \in Fields |-> h[field]]

HomeIs(h) ==
    /\ HasFields(h)
    /\ h.connects \subseteq Connects /\ h.activity \subseteq Devices
    /\ OfSome(h.added, SUBSET Kinds) /\ h.clash \in BOOLEAN
    /\ OfSome(h.registry, Registration)
    /\ h.registered \in [Devices -> SUBSET Kinds] /\ h.entities \in [Devices -> SUBSET Kinds]

LEMMA HomeType == ASSUME NEW h PROVE IsHome(h) <=> HomeIs(h)
<1>1. ASSUME IsHome(h) PROVE HomeIs(h)
  BY <1>1 DEF IsHome, HomeIs, HasFields, OfSome, Registration, Fields
<1>2. ASSUME HomeIs(h) PROVE IsHome(h)
  <2>1. PICK added \in SUBSET Devices : h.added \in [added -> SUBSET Kinds]
    BY <1>2 DEF HomeIs, OfSome
  <2>2. PICK known \in SUBSET Devices : h.registry \in [known -> Registration]
    BY <1>2 DEF HomeIs, OfSome
  <2>3. h = [connects |-> h.connects, activity |-> h.activity, added |-> h.added,
             clash |-> h.clash, registry |-> h.registry, registered |-> h.registered,
             entities |-> h.entities]
    BY <1>2, Zenon DEF HomeIs, HasFields, Fields
  <2> QED BY <1>2, <2>1, <2>2, <2>3 DEF IsHome, HomeIs, Registration
<1> QED BY <1>1, <1>2

LEMMA FreshIs ==
    ASSUME NEW h, IsHome(h)
    PROVE  LET f == Fresh(h)
           IN  /\ IsHome(f)
               /\ f.added = NoData /\ f.entities = [d \in Devices |-> {}]
               /\ f.clash = h.clash /\ f.registry = h.registry /\ f.registered = h.registered
<1>1. HomeIs(h)
  BY HomeType
<1>2. LET f == Fresh(h)
      IN  /\ HasFields(f)
          /\ f.connects = {} /\ f.activity = {} /\ f.added = NoData /\ f.clash = h.clash
          /\ f.registry = h.registry /\ f.registered = h.registered
          /\ f.entities = [d \in Devices |-> {}]
  BY <1>1 DEF HomeIs, HasFields, Fresh, Fields
<1>3. OfSome(NoData, SUBSET Kinds)
  BY DEF OfSome, NoData
<1> QED BY <1>1, <1>2, <1>3, HomeType DEF HomeIs

LEMMA WantedType == \A d, p : Wanted(d, p) \subseteq Kinds /\ "firmware" \in Wanted(d, p)
  BY DEF Wanted, LockEntities, ButtonEntities, EventEntities, SelectEntities, SensorEntities,
         BinarySensorEntities, UpdateEntities, Kinds

\* What registering some devices makes of a registry.
Registered(r, registry, devices, new, via) ==
    /\ OfSome(r, Registration)
    /\ DOMAIN r = DOMAIN registry \cup new
    /\ \A d \in DOMAIN registry \ new : r[d] = registry[d]
    /\ \A d \in new : /\ r[d].firmware = devices[d].firmware
                      /\ via[d] # None => r[d].via = via[d]

LEMMA RegisterIs ==
    ASSUME NEW registry, OfSome(registry, Registration),
           NEW devices, OfSome(devices, Profile),
           NEW new \in SUBSET DOMAIN devices,
           NEW via \in [new -> Connects \cup {None}]
    PROVE  Registered(Register(registry, new, devices, via), registry, devices, new, via)
<1> USE SomeType
<1>1. \A d \in new : devices[d].firmware \in Nat
  BY DEF Profile
<1>2. \A d \in DOMAIN registry : registry[d] \in Registration
  OBVIOUS
<1> QED BY <1>1, <1>2 DEF Register, Registration, Registered

\* What is left of something for some devices once others are removed.
Among(f, devices) == [d \in Devices |-> IF d \in devices THEN f[d] ELSE {}]

LEMMA AmongType ==
    ASSUME NEW f \in [Devices -> SUBSET Kinds], NEW devices
    PROVE  Among(f, devices) \in [Devices -> SUBSET Kinds]
  BY DEF Among

\* Home Assistant's part of removing devices.
LEMMA KeepIs ==
    ASSUME NEW h, HasFields(h), OfSome(h.registry, Registration), NEW devices
    PROVE  LET k == Keep(h, devices)
           IN  /\ HasFields(k)
               /\ k.connects = h.connects /\ k.activity = h.activity
               /\ k.added = h.added /\ k.clash = h.clash
               /\ k.registered = Among(h.registered, devices)
               /\ k.entities = Among(h.entities, devices)
               /\ OfSome(k.registry, Registration)
               /\ DOMAIN k.registry = DOMAIN h.registry \cap devices
<1> DEFINE left == [d \in DOMAIN h.registry \cap devices |->
                       IF h.registry[d].via \in devices THEN h.registry[d]
                       ELSE [h.registry[d] EXCEPT !.via = None]]
<1>1. LET k == Keep(h, devices)
      IN  /\ HasFields(k)
          /\ k.connects = h.connects /\ k.activity = h.activity
          /\ k.added = h.added /\ k.clash = h.clash /\ k.registry = left
          /\ k.registered = Among(h.registered, devices)
          /\ k.entities = Among(h.entities, devices)
  BY DEF HasFields, Keep, Fields, Among
<1>2. \A d \in DOMAIN h.registry : h.registry[d] \in Registration
  BY SomeType
<1>3. OfSome(left, Registration)
  BY <1>2, SomeType DEF Registration
<1> HIDE DEF left
<1>4. DOMAIN left = DOMAIN h.registry \cap devices
  BY DEF left
<1> QED BY <1>1, <1>3, <1>4

\* _async_sync_devices, as far as the properties need it.
LEMMA SyncIs ==
    ASSUME NEW h, IsHome(h), NEW devices, OfSome(devices, Profile)
    PROVE  LET s == Sync(h, devices)
           IN  /\ IsHome(s)
               /\ s.added = h.added /\ s.clash = h.clash
               /\ s.activity = {d \in DOMAIN devices : HasActivity(d, devices[d])}
               /\ {d \in DOMAIN devices : IsGateway(d)} \subseteq s.connects
               /\ DOMAIN s.registry \subseteq DOMAIN devices
               /\ DOMAIN h.registry \cap DOMAIN devices \subseteq DOMAIN s.registry
               /\ \A d \in DOMAIN s.registry : s.registry[d].firmware = devices[d].firmware
               /\ s.entities = Among(h.entities, DOMAIN devices)
               /\ s.registered = Among(h.registered, DOMAIN devices)
<1> DEFINE new == {d \in DOMAIN devices : IsGateway(d) /\ d \notin h.connects}
           activity == {d \in DOMAIN devices : HasActivity(d, devices[d])}
           none == [d \in new |-> None]
           all == Register(h.registry, new, devices, none)
           connected == [h EXCEPT !.connects = @ \cup new,
                                  !.registry = Register(@, new, devices, none),
                                  !.activity = activity]
           kept == Keep(connected, DOMAIN devices)
           s == Sync(h, devices)
<1>1. HomeIs(h)
  BY HomeType
<1>2. /\ HasFields(connected)
      /\ connected.connects = h.connects \cup new /\ connected.activity = activity
      /\ connected.added = h.added /\ connected.clash = h.clash /\ connected.registry = all
      /\ connected.registered = h.registered /\ connected.entities = h.entities
  <2> HIDE DEF new, activity, none
  <2> QED BY <1>1 DEF HomeIs, HasFields, Fields
<1>3. /\ OfSome(all, Registration)
      /\ DOMAIN all = DOMAIN h.registry \cup new
  <2>1. none \in [new -> Connects \cup {None}] /\ new \in SUBSET DOMAIN devices
    OBVIOUS
  <2>2. OfSome(h.registry, Registration)
    BY <1>1 DEF HomeIs
  <2> HIDE DEF new, none
  <2> QED BY <2>1, <2>2, RegisterIs DEF Registered
<1>4. /\ HasFields(kept)
      /\ kept.connects = h.connects \cup new /\ kept.activity = activity
      /\ kept.added = h.added /\ kept.clash = h.clash
      /\ kept.registered = Among(h.registered, DOMAIN devices)
      /\ kept.entities = Among(h.entities, DOMAIN devices)
      /\ OfSome(kept.registry, Registration)
      /\ DOMAIN kept.registry = DOMAIN all \cap DOMAIN devices
  <2> HIDE DEF connected, all, new, activity, none
  <2> QED BY <1>2, <1>3, KeepIs
<1>5. s = [kept EXCEPT !.connects = @ \ (DOMAIN connected.registry \ DOMAIN devices),
                       !.registry = [d \in DOMAIN @ |-> [@[d] EXCEPT !.firmware = devices[d].firmware]]]
  BY DEF Sync
<1> DEFINE registry == [d \in DOMAIN kept.registry |->
                           [kept.registry[d] EXCEPT !.firmware = devices[d].firmware]]
<1>6. /\ HasFields(s)
      /\ s.connects = (h.connects \cup new) \ (DOMAIN all \ DOMAIN devices)
      /\ s.activity = activity /\ s.added = h.added /\ s.clash = h.clash
      /\ s.registry = registry
      /\ s.registered = Among(h.registered, DOMAIN devices)
      /\ s.entities = Among(h.entities, DOMAIN devices)
  <2> HIDE DEF s, kept, connected, all, new, activity
  <2> QED BY <1>2, <1>4, <1>5 DEF HasFields, Fields
<1>7. /\ OfSome(registry, Registration)
      /\ DOMAIN registry = DOMAIN all \cap DOMAIN devices
      /\ \A d \in DOMAIN registry : registry[d].firmware = devices[d].firmware
  <2> HIDE DEF kept, all
  <2>1. \A d \in DOMAIN kept.registry :
            kept.registry[d] \in Registration /\ devices[d].firmware \in Nat
    BY <1>4, SomeType DEF Profile
  <2>2. \A d \in DOMAIN kept.registry :
            registry[d] \in Registration /\ registry[d].firmware = devices[d].firmware
    BY <2>1 DEF Registration
  <2>3. DOMAIN registry = DOMAIN kept.registry
    OBVIOUS
  <2> HIDE DEF registry
  <2>4. registry \in [DOMAIN registry -> Registration]
    BY <2>2, <2>3, <1>6, Zenon DEF registry
  <2> QED BY <2>2, <2>3, <2>4, <1>4, <1>3, SomeType
<1>8. /\ s.connects \subseteq Connects
      /\ {d \in DOMAIN devices : IsGateway(d)} \subseteq s.connects
      /\ activity \subseteq Devices
  <2> HIDE DEF s, all
  <2> QED BY <1>1, <1>3, <1>6, SomeType DEF HomeIs, IsGateway
<1>9. /\ s.registered \in [Devices -> SUBSET Kinds] /\ s.entities \in [Devices -> SUBSET Kinds]
  <2> HIDE DEF s, activity, registry
  <2> QED BY <1>1, <1>6, AmongType DEF HomeIs
<1>10. IsHome(s)
  <2> HIDE DEF s, registry, activity
  <2> QED BY <1>1, <1>6, <1>7, <1>8, <1>9, HomeType DEF HomeIs
<1> HIDE DEF s, registry, all, new
<1> QED BY <1>3, <1>6, <1>7, <1>8, <1>10 DEF s, new

\* The entities a device had before, as far as they are known.
Before(h, devices, d) == IF d \in DOMAIN h.added \cap DOMAIN devices THEN h.added[d] ELSE {}

Gaining(h, devices) ==
    {d \in DOMAIN devices : Wanted(d, devices[d]) \ Before(h, devices, d) # {}}

\* async_add_device_entities.
LEMMA AddIs ==
    ASSUME NEW h, IsHome(h), NEW devices, OfSome(devices, Profile)
    PROVE  LET a == AddNewEntities(h, devices)
           IN  /\ IsHome(a)
               /\ a.connects = h.connects /\ a.activity = h.activity
               /\ DOMAIN a.added = DOMAIN devices
               /\ \A d \in DOMAIN devices :
                      a.added[d] = Before(h, devices, d) \cup Wanted(d, devices[d])
               /\ a.clash => \/ h.clash
                             \/ \E d \in DOMAIN devices :
                                    (Wanted(d, devices[d]) \ Before(h, devices, d))
                                        \cap h.entities[d] # {}
               /\ \A d \in Devices :
                      a.entities[d] = IF d \in DOMAIN devices
                                      THEN h.entities[d] \cup (Wanted(d, devices[d]) \ Before(h, devices, d))
                                      ELSE h.entities[d]
               /\ DOMAIN a.registry = DOMAIN h.registry \cup Gaining(h, devices)
               /\ \A d \in Gaining(h, devices) :
                      LET via == Via(h, d, devices[d])
                      IN  /\ a.registry[d].firmware = devices[d].firmware
                          /\ via # None => a.registry[d].via = via
               /\ \A d \in DOMAIN h.registry \ Gaining(h, devices) :
                      a.registry[d] = h.registry[d]
<1> DEFINE known == Forgotten(h.added, devices)
           before(d) == IF d \in DOMAIN known THEN known[d] ELSE {}
           new == [d \in DOMAIN devices |-> Wanted(d, devices[d]) \ before(d)]
           gaining == {d \in DOMAIN devices : new[d] # {}}
           with(f) == [d \in Devices |-> IF d \in gaining THEN f[d] \cup new[d] ELSE f[d]]
           added == [d \in DOMAIN known \cup DOMAIN devices |->
                        IF d \in gaining THEN before(d) \cup new[d] ELSE before(d)]
           clash == h.clash \/ \E d \in gaining : new[d] \cap h.entities[d] # {}
           vias == [d \in gaining |-> Via(h, d, devices[d])]
           registry == Register(h.registry, gaining, devices, vias)
           a == AddNewEntities(h, devices)
<1>1. HomeIs(h)
  BY HomeType
<1>2. /\ HasFields(a)
      /\ a.connects = h.connects /\ a.activity = h.activity
      /\ a.added = added /\ a.clash = clash
      /\ a.entities = with(h.entities) /\ a.registered = with(h.registered)
      /\ a.registry = registry
  <2>1. a = [h EXCEPT !.added = added,
                      !.clash = @ \/ \E d \in gaining : new[d] \cap h.entities[d] # {},
                      !.entities = with(@), !.registered = with(@),
                      !.registry = Register(@, gaining, devices, vias)]
    BY DEF AddNewEntities
  <2> DEFINE entities == with(h.entities)
             registered == with(h.registered)
             met == \E d \in gaining : new[d] \cap h.entities[d] # {}
  <2>2. a = [h EXCEPT !.added = added, !.clash = h.clash \/ met,
                      !.entities = entities, !.registered = registered,
                      !.registry = registry]
    BY <2>1
  <2>3. clash <=> h.clash \/ met
    OBVIOUS
  <2> HIDE DEF a, added, entities, registered, registry, met, clash
  <2>4. clash = (h.clash \/ met)
    BY <2>3 DEF clash, met
  <2>5. /\ HasFields(a)
        /\ a.connects = h.connects /\ a.activity = h.activity
        /\ a.added = added /\ a.clash = (h.clash \/ met)
        /\ a.entities = entities /\ a.registered = registered
        /\ a.registry = registry
    BY <1>1, <2>2 DEF HomeIs, HasFields, Fields
  <2> QED BY <2>4, <2>5 DEF entities, registered
<1>3. /\ DOMAIN known = DOMAIN h.added \cap DOMAIN devices
      /\ \A d \in DOMAIN devices : before(d) = Before(h, devices, d) /\ before(d) \in SUBSET Kinds
  <2>1. h.added \in [DOMAIN h.added -> SUBSET Kinds]
    BY <1>1, SomeType DEF HomeIs
  <2> QED BY <2>1 DEF Forgotten, Restrict, Before
<1> HIDE DEF known, before
<1>4. \A d \in DOMAIN devices : /\ new[d] = Wanted(d, devices[d]) \ Before(h, devices, d)
                                /\ new[d] \in SUBSET Kinds
  BY <1>3, WantedType
<1>5. gaining = Gaining(h, devices)
  BY <1>4 DEF Gaining
<1>6. /\ OfSome(added, SUBSET Kinds)
      /\ DOMAIN added = DOMAIN devices
      /\ \A d \in DOMAIN devices : added[d] = Before(h, devices, d) \cup Wanted(d, devices[d])
  <2>1. DOMAIN added = DOMAIN devices
    BY <1>3
  <2>2. \A d \in DOMAIN devices : /\ added[d] = Before(h, devices, d) \cup Wanted(d, devices[d])
                                  /\ added[d] \in SUBSET Kinds
    <3> SUFFICES ASSUME NEW d \in DOMAIN devices
                 PROVE  /\ added[d] = Before(h, devices, d) \cup Wanted(d, devices[d])
                        /\ added[d] \in SUBSET Kinds
      OBVIOUS
    <3>1. added[d] = IF d \in gaining THEN before(d) \cup new[d] ELSE before(d)
      OBVIOUS
    <3> HIDE DEF added, new
    <3> QED BY <3>1, <1>3, <1>4, WantedType
  <2>3. added \in [DOMAIN devices -> SUBSET Kinds]
    <3>1. added = [d \in DOMAIN devices |-> added[d]]
      BY <2>1
    <3> HIDE DEF added
    <3> QED BY <3>1, <2>2
  <2> HIDE DEF added
  <2> QED BY <2>1, <2>2, <2>3, SomeType
<1>7. clash \in BOOLEAN
  OBVIOUS
<1>8. \A f \in [Devices -> SUBSET Kinds] :
          /\ with(f) \in [Devices -> SUBSET Kinds]
          /\ \A d \in Devices : with(f)[d] = IF d \in DOMAIN devices
                                             THEN f[d] \cup (Wanted(d, devices[d]) \ Before(h, devices, d))
                                             ELSE f[d]
  <2> HIDE DEF new
  <2> QED BY <1>4
<1>9. vias \in [gaining -> Connects \cup {None}] /\ gaining \in SUBSET DOMAIN devices
  <2>1. \A d \in gaining : Via(h, d, devices[d]) \in Connects \cup {None}
    BY <1>1 DEF Via, HomeIs
  <2> QED BY <2>1
<1>10. /\ OfSome(registry, Registration)
       /\ DOMAIN registry = DOMAIN h.registry \cup gaining
       /\ \A d \in DOMAIN h.registry \ gaining : registry[d] = h.registry[d]
       /\ \A d \in gaining : /\ registry[d].firmware = devices[d].firmware
                             /\ vias[d] # None => registry[d].via = vias[d]
  <2>1. OfSome(h.registry, Registration)
    BY <1>1 DEF HomeIs
  <2> HIDE DEF new, gaining, vias, added, clash, a, with
  <2>2. Registered(Register(h.registry, gaining, devices, vias), h.registry, devices, gaining, vias)
    BY <1>9, <2>1, RegisterIs
  <2>3. registry = Register(h.registry, gaining, devices, vias)
    BY DEF registry
  <2> HIDE DEF registry
  <2> QED BY <2>2, <2>3 DEF Registered
<1>11. \A d \in gaining : vias[d] = Via(h, d, devices[d])
  OBVIOUS
<1> HIDE DEF a, added, clash, new, gaining, vias, registry, with
<1>12. IsHome(a)
  <2>1. a.entities \in [Devices -> SUBSET Kinds] /\ a.registered \in [Devices -> SUBSET Kinds]
    BY <1>1, <1>2, <1>8, Zenon DEF HomeIs
  <2> QED BY <1>1, <1>2, <1>6, <1>7, <1>10, <2>1, HomeType DEF HomeIs
<1>13. clash => \/ h.clash
                \/ \E d \in DOMAIN devices :
                       (Wanted(d, devices[d]) \ Before(h, devices, d)) \cap h.entities[d] # {}
  BY <1>4, <1>9 DEF clash
<1>14. \A d \in Devices :
          a.entities[d] = IF d \in DOMAIN devices
                          THEN h.entities[d] \cup (Wanted(d, devices[d]) \ Before(h, devices, d))
                          ELSE h.entities[d]
  BY <1>1, <1>2, <1>8 DEF HomeIs
<1> QED BY <1>2, <1>5, <1>6, <1>10, <1>11, <1>12, <1>13, <1>14 DEF a

-----------------------------------------------------------------------------
(* The account's list of devices                                           *)

\* A device that joins moves down those from its place on.
LEMMA InsertIs ==
    ASSUME NEW s \in Seq(Devices), IsInjective(s),
           NEW d \in Devices \ ToSet(s), NEW place \in 1..Len(s) + 1
    PROVE  LET t == InsertAt(s, place, d)
           IN  /\ t \in Seq(Devices) /\ IsInjective(t)
               /\ ToSet(t) = ToSet(s) \cup {d}
               /\ Len(t) = Len(s) + 1
               /\ t[place] = d
               /\ \A i \in 1..place - 1 : t[i] = s[i]
               /\ \A i \in place + 1..Len(s) + 1 : t[i] = s[i - 1]
<1> DEFINE t == InsertAt(s, place, d)
           was(k) == IF k < place THEN k ELSE k - 1
<1>1. PICK len \in Nat : len = Len(s)
  OBVIOUS
<1>2. DOMAIN s = 1..len /\ place \in 1..len + 1
  BY <1>1
<1>3. /\ t \in Seq(Devices) /\ Len(t) = len + 1 /\ t[place] = d
      /\ \A i \in 1..place - 1 : t[i] = s[i]
      /\ \A i \in place + 1..len + 1 : t[i] = s[i - 1]
  <2> DEFINE before == SubSeq(s, 1, place - 1)
             after == SubSeq(s, place, len)
  <2>1. /\ before \in Seq(Devices) /\ Len(before) = place - 1
        /\ \A i \in 1..place - 1 : before[i] = s[i]
    BY <1>1, <1>2
  <2>2. /\ after \in Seq(Devices) /\ Len(after) = len + 1 - place
        /\ \A i \in 1..len + 1 - place : after[i] = s[place + i - 1]
    BY <1>1, <1>2
  <2>3. t = (before \o <<d>>) \o after
    BY <1>1 DEF InsertAt
  <2> HIDE DEF before, after, t
  <2> DEFINE upto == before \o <<d>>
  <2>4. /\ upto \in Seq(Devices) /\ Len(upto) = place /\ upto[place] = d
        /\ \A i \in 1..place - 1 : upto[i] = s[i]
    BY <1>2, <2>1
  <2>5. t = upto \o after
    BY <2>3
  <2> HIDE DEF upto
  <2>6. /\ t \in Seq(Devices) /\ Len(t) = Len(upto) + Len(after)
        /\ \A i \in 1..Len(upto) + Len(after) :
               t[i] = IF i <= Len(upto) THEN upto[i] ELSE after[i - Len(upto)]
    BY <2>2, <2>4, <2>5, ConcatProperties
  <2>7. Len(upto) + Len(after) = len + 1
    BY <1>2, <2>2, <2>4
  <2>8. \A i \in 1..place : t[i] = upto[i]
    BY <1>2, <2>4, <2>6, <2>7
  <2>9. ASSUME NEW i \in place + 1..len + 1 PROVE t[i] = s[i - 1]
    <3>1. i - place \in 1..len + 1 - place /\ place + (i - place) - 1 = i - 1
      BY <1>2
    <3>2. t[i] = after[i - place]
      BY <1>2, <2>4, <2>6, <2>7
    <3> QED BY <2>2, <3>1, <3>2
  <2> QED BY <1>2, <2>4, <2>6, <2>7, <2>8, <2>9
<1> HIDE DEF t
<1>4. DOMAIN t = 1..len + 1
  BY <1>3
<1>5. \A k \in DOMAIN t \ {place} : was(k) \in DOMAIN s /\ t[k] = s[was(k)]
  BY <1>2, <1>3, <1>4
<1>6. \A k \in DOMAIN s : \E m \in DOMAIN t : t[m] = s[k]
  <2> SUFFICES ASSUME NEW k \in DOMAIN s PROVE \E m \in DOMAIN t : t[m] = s[k]
    OBVIOUS
  <2>1. CASE k < place
    BY <1>2, <1>3, <1>4, <2>1
  <2>2. CASE k >= place
    <3>1. k + 1 \in DOMAIN t /\ t[k + 1] = s[k]
      BY <1>2, <1>3, <1>4, <2>2
    <3> QED BY <3>1
  <2> QED BY <1>2, <2>1, <2>2
<1>7. ToSet(t) = ToSet(s) \cup {d}
  <2> HIDE DEF was
  <2>1. place \in DOMAIN t
    BY <1>2, <1>4
  <2> QED BY <1>3, <1>5, <1>6, <2>1 DEF ToSet
<1>8. IsInjective(t)
  <2> SUFFICES ASSUME NEW i \in DOMAIN t, NEW j \in DOMAIN t, t[i] = t[j] PROVE i = j
    BY DEF IsInjective
  <2>1. \A k \in DOMAIN s : s[k] # d
    BY DEF ToSet
  <2>2. \A k, m \in DOMAIN s : s[k] = s[m] => k = m
    BY DEF IsInjective
  <2>3. CASE i # place /\ j # place
    <3>1. was(i) = was(j)
      <4> HIDE DEF was
      <4> QED BY <1>5, <2>2, <2>3
    <3> QED BY <1>2, <1>4, <2>3, <3>1
  <2> HIDE DEF was
  <2> QED BY <1>3, <1>5, <2>1, <2>3
<1> QED BY <1>1, <1>3, <1>7, <1>8 DEF t

\* One that leaves moves up those after it.
LEMMA RemoveIs ==
    ASSUME NEW s \in Seq(Devices), IsInjective(s), NEW place \in DOMAIN s
    PROVE  LET t == RemoveAt(s, place)
           IN  /\ t \in Seq(Devices) /\ IsInjective(t)
               /\ ToSet(t) = ToSet(s) \ {s[place]}
<1> DEFINE t == RemoveAt(s, place)
           was(k) == IF k < place THEN k ELSE k + 1
<1>1. PICK len \in Nat : len = Len(s)
  OBVIOUS
<1>2. DOMAIN s = 1..len /\ place \in 1..len
  BY <1>1
<1>3. /\ t \in Seq(Devices) /\ DOMAIN t = 1..len - 1
      /\ \A k \in DOMAIN t : was(k) \in DOMAIN s /\ t[k] = s[was(k)]
  <2> DEFINE before == SubSeq(s, 1, place - 1)
             after == SubSeq(s, place + 1, len)
  <2>1. /\ before \in Seq(Devices) /\ Len(before) = place - 1
        /\ \A i \in 1..place - 1 : before[i] = s[i]
    BY <1>1, <1>2
  <2>2. /\ after \in Seq(Devices) /\ Len(after) = len - place
        /\ \A i \in 1..len - place : after[i] = s[place + i]
    BY <1>1, <1>2
  <2>3. t = before \o after
    BY <1>1 DEF RemoveAt
  <2> HIDE DEF before, after, t
  <2>4. /\ t \in Seq(Devices) /\ Len(t) = Len(before) + Len(after)
        /\ \A i \in 1..Len(before) + Len(after) :
               t[i] = IF i <= Len(before) THEN before[i] ELSE after[i - Len(before)]
    BY <2>1, <2>2, <2>3, ConcatProperties
  <2>5. Len(before) + Len(after) = len - 1
    BY <1>2, <2>1, <2>2
  <2>6. DOMAIN t = 1..len - 1
    BY <2>4, <2>5
  <2>7. ASSUME NEW k \in DOMAIN t PROVE was(k) \in DOMAIN s /\ t[k] = s[was(k)]
    <3>1. CASE k < place
      BY <1>2, <2>1, <2>4, <2>5, <2>6, <3>1
    <3>2. CASE k >= place
      <4>1. k + 1 - place \in 1..len - place /\ place + (k + 1 - place) = k + 1
        BY <1>2, <2>6, <3>2
      <4>2. t[k] = after[k + 1 - place]
        <5>1. k \in 1..Len(before) + Len(after) /\ ~ (k <= Len(before)) /\ k - Len(before) = k + 1 - place
          BY <1>2, <2>1, <2>5, <2>6, <3>2
        <5> QED BY <2>4, <5>1
      <4>3. was(k) = k + 1 /\ k + 1 \in DOMAIN s
        BY <1>2, <2>6, <3>2
      <4> QED BY <2>2, <4>1, <4>2, <4>3
    <3> QED BY <1>2, <2>6, <3>1, <3>2
  <2> QED BY <2>4, <2>6, <2>7
<1> HIDE DEF t
<1>4. \A k \in DOMAIN s \ {place} : \E m \in DOMAIN t : was(m) = k
  <2> SUFFICES ASSUME NEW k \in DOMAIN s \ {place} PROVE \E m \in DOMAIN t : was(m) = k
    OBVIOUS
  <2>1. CASE k < place
    <3>1. k \in DOMAIN t /\ was(k) = k
      BY <1>2, <1>3, <2>1
    <3> QED BY <3>1
  <2>2. CASE k > place
    <3>1. k - 1 \in DOMAIN t /\ was(k - 1) = k
      BY <1>2, <1>3, <2>2
    <3> QED BY <3>1
  <2> QED BY <1>2, <2>1, <2>2
<1>5. \A k \in DOMAIN t : was(k) # place
  BY <1>2, <1>3
<1>6. \A k, m \in DOMAIN t : was(k) = was(m) => k = m
  BY <1>2, <1>3
<1>7. \A k, m \in DOMAIN s : s[k] = s[m] => k = m
  BY DEF IsInjective
<1> HIDE DEF was
<1>8. ToSet(t) = ToSet(s) \ {s[place]}
  BY <1>3, <1>4, <1>5, <1>7 DEF ToSet
<1>9. IsInjective(t)
  BY <1>3, <1>6, <1>7 DEF IsInjective
<1> QED BY <1>3, <1>8, <1>9 DEF t

\* The library's minimum, of two.
LEMMA MinIs == ASSUME NEW a \in Int, NEW b \in Int PROVE Min({a, b}) = IF a <= b THEN a ELSE b
<1>1. CASE a <= b
  <2>1. \A x : x \in {a, b} /\ (\A y \in {a, b} : x <= y) <=> x = a
    BY <1>1
  <2> QED BY <1>1, <2>1 DEF Min
<1>2. CASE b < a
  <2>1. \A x : x \in {a, b} /\ (\A y \in {a, b} : x <= y) <=> x = b
    BY <1>2
  <2> QED BY <1>2, <2>1 DEF Min
<1> QED BY <1>1, <1>2

\* A page has what is at its places, and only the last is not full.
LEMMA PageOf ==
    ASSUME NEW s \in Seq(Devices), NEW offset \in Nat, NEW size \in Nat \ {0}
    PROVE  LET page == SubSeq(s, offset + 1, Min({offset + size, Len(s)}))
           IN  /\ page \in Seq(Devices)
               /\ \A place \in DOMAIN s :
                      offset < place /\ place <= offset + size => s[place] \in ToSet(page)
               /\ Len(page) < size => Len(s) < offset + size
               /\ ToSet(page) \subseteq ToSet(s)
<1>0. PICK len \in Nat : len = Len(s)
  OBVIOUS
<1> DEFINE end == IF offset + size <= len THEN offset + size ELSE len
           first == offset + 1
           page == SubSeq(s, first, end)
<1>1. DOMAIN s = 1..len /\ \A i \in 1..len : s[i] \in Devices
  BY <1>0
<1>2. Min({offset + size, Len(s)}) = end
  BY <1>0, MinIs
<1>3. /\ end \in Nat /\ end <= len /\ end <= offset + size
      /\ end = len \/ end = offset + size
  OBVIOUS
<1>4. first \in Nat /\ first >= 1 /\ first = offset + 1
  OBVIOUS
<1> HIDE DEF end, first
<1>5. /\ page \in Seq(Devices)
      /\ Len(page) = IF first <= end THEN end - first + 1 ELSE 0
      /\ \A i \in 1..Len(page) : page[i] = s[first + i - 1]
  BY <1>1, <1>3, <1>4
<1> HIDE DEF page
<1>6. /\ DOMAIN page = 1..Len(page)
      /\ Len(page) = IF offset < end THEN end - offset ELSE 0
      /\ \A i \in 1..Len(page) : page[i] = s[offset + i]
  <2>1. \A i \in 1..Len(page) : first + i - 1 = offset + i
    BY <1>4, <1>5, <1>3
  <2> QED BY <1>3, <1>4, <1>5, <2>1
<1>7. ASSUME NEW place \in DOMAIN s, offset < place, place <= offset + size
      PROVE  s[place] \in ToSet(page)
  <2>1. place - offset \in DOMAIN page /\ offset + (place - offset) = place
    BY <1>1, <1>3, <1>6, <1>7
  <2>2. page[place - offset] = s[place]
    BY <1>6, <2>1
  <2> QED BY <2>1, <2>2 DEF ToSet
<1>8. Len(page) < size => Len(s) < offset + size
  BY <1>0, <1>1, <1>3, <1>6
<1>9. ToSet(page) \subseteq ToSet(s)
  <2>1. \A i \in DOMAIN page : offset + i \in DOMAIN s /\ page[i] = s[offset + i]
    BY <1>1, <1>3, <1>6
  <2> QED BY <2>1 DEF ToSet
<1>10. page = SubSeq(s, offset + 1, Min({offset + size, Len(s)}))
  BY <1>2, <1>4 DEF page
<1> QED BY <1>5, <1>7, <1>8, <1>9, <1>10

LEMMA PageIs ==
    ASSUME TypeOK, poll # None
    PROVE  /\ Page \in Seq(Devices)
           /\ \A place \in DOMAIN listed :
                  poll.offset < place /\ place <= poll.offset + PageSize => listed[place] \in ToSet(Page)
           /\ IsLast(Page) => Len(listed) < poll.offset + PageSize
           /\ ToSet(Page) \subseteq InAccount
<1>1. /\ poll.offset \in Nat /\ PageSize \in Nat \ {0} /\ listed \in Seq(Devices)
  BY PagesHoldDevices DEF TypeOK, DevicesTypeOK, IsPoll
<1> QED BY <1>1, PageOf DEF Page, IsLast, InAccount

-----------------------------------------------------------------------------
(* The variables' types                                                    *)

\* The type of a poll, field by field.
PollIs(p) ==
    /\ p = [offset |-> p.offset, got |-> p.got, stayed |-> p.stayed, shrunk |-> p.shrunk]
    /\ p.offset \in Nat /\ OfSome(p.got, Profile)
    /\ p.stayed \subseteq Devices /\ p.shrunk \in BOOLEAN

LEMMA PollType == ASSUME NEW p PROVE IsPoll(p) <=> PollIs(p)
<1>1. ASSUME IsPoll(p) PROVE PollIs(p)
  BY <1>1 DEF IsPoll, PollIs, OfSome
<1>2. ASSUME PollIs(p) PROVE IsPoll(p)
  <2>1. PICK got \in SUBSET Devices : p.got \in [got -> Profile]
    BY <1>2 DEF PollIs, OfSome
  <2>2. p \in [offset : Nat, got : [got -> Profile], stayed : SUBSET Devices, shrunk : BOOLEAN]
    BY <1>2, <2>1 DEF PollIs
  <2> QED BY <2>2 DEF IsPoll
<1> QED BY <1>1, <1>2

LEMMA NoDataIs == \A S : OfSome(NoData, S) /\ OfLocks(NoData, S) /\ DOMAIN NoData = {}
<1>1. DOMAIN NoData = {} /\ \A S : NoData \in [{} -> S]
  BY DEF NoData
<1> QED BY <1>1 DEF OfSome, OfLocks

LEMMA SettingIs ==
    ASSUME NEW s \in Settings
    PROVE  /\ \A d \in Devices : s.profiles[d] \subseteq Profile
           /\ s.first \in Seq(Devices) /\ IsInjective(s.first) /\ s.changes \in Nat
<1>1. s \in Setting
  BY SettingsAreSettings
<1>2. s.profiles \in [Devices -> SUBSET Profile] /\ s.first \in Seq(Devices) /\ s.changes \in Nat
  BY <1>1 DEF Setting
<1> QED BY <1>2, SettingsAreSettings

LEMMA InitDevices == DevicesInit => DevicesTypeOK
<1> SUFFICES ASSUME DevicesInit PROVE DevicesTypeOK
  OBVIOUS
<1>1. setting \in Settings /\ changes = 0 /\ listed = setting.first
  BY DEF DevicesInit
<1>2. listed \in Seq(Devices) /\ IsInjective(listed) /\ InAccount \subseteq Devices
  <2>1. listed \in Seq(Devices) /\ IsInjective(listed)
    BY <1>1, SettingIs
  <2> QED BY <2>1 DEF InAccount, ToSet
<1>3. profile \in [InAccount -> Profile]
  <2>1. /\ profile \in [InAccount -> UNION Range(setting.profiles)]
        /\ \A d \in InAccount : profile[d] \in setting.profiles[d]
    BY DEF DevicesInit
  <2>2. \A d \in InAccount : profile[d] \in Profile
    BY <1>1, <1>2, <2>1, SettingIs
  <2> QED BY <2>1, <2>2
<1>4. IsHome(home)
  <2>1. home = [connects |-> {}, activity |-> {}, added |-> NoData, clash |-> FALSE,
               registry |-> NoData, registered |-> [d \in Devices |-> {}],
               entities |-> [d \in Devices |-> {}]]
    BY DEF DevicesInit
  <2>2. HasFields(home)
    BY <2>1 DEF HasFields, Fields
  <2> QED BY <2>1, <2>2, NoDataIs, HomeType DEF HomeIs
<1>5. entry = "down" /\ poll = None /\ data = NoData /\ success = TRUE
  BY DEF DevicesInit
<1> QED BY <1>1, <1>2, <1>3, <1>4, <1>5, NoDataIs DEF DevicesTypeOK

\* A poll under way, of which some devices leave the account.
LEMMA NotedType ==
    ASSUME NEW p, p = None \/ IsPoll(p), NEW left
    PROVE  LET n == Noted(p, left) IN n = None \/ IsPoll(n)
<1> SUFFICES ASSUME p # None PROVE IsPoll(Noted(p, left))
  BY DEF Noted
<1>1. PollIs(p)
  BY PollType
<1> DEFINE stayed == p.stayed \ left
           shrunk == p.shrunk \/ left # {}
           n == [offset |-> p.offset, got |-> p.got, stayed |-> stayed, shrunk |-> shrunk]
<1>2. Noted(p, left) = n
  <2>1. Noted(p, left) = [p EXCEPT !.stayed = stayed, !.shrunk = shrunk]
    BY DEF Noted
  <2> HIDE DEF stayed, shrunk
  <2> QED BY <1>1, <2>1 DEF PollIs
<1>3. PollIs(n)
  <2>1. stayed \subseteq Devices /\ shrunk \in BOOLEAN
    BY <1>1 DEF PollIs
  <2> HIDE DEF stayed, shrunk
  <2> QED BY <1>1, <2>1 DEF PollIs
<1> QED BY <1>2, <1>3, PollType

LEMMA JoinsType == ASSUME TypeOK, Joins, setting' = setting PROVE DevicesTypeOK'
<1>1. PICK d \in Devices \ InAccount :
          /\ Happens
          /\ \E place \in 1..Len(listed) + 1 : listed' = InsertAt(listed, place, d)
          /\ \E p \in setting.profiles[d] :
                 profile' = [e \in DOMAIN profile \cup {d} |-> IF e = d THEN p ELSE profile[e]]
          /\ UNCHANGED sync
  BY DEF Joins
<1>2. PICK place \in 1..Len(listed) + 1 : listed' = InsertAt(listed, place, d)
  BY <1>1
<1>3. PICK p \in setting.profiles[d] :
          profile' = [e \in DOMAIN profile \cup {d} |-> IF e = d THEN p ELSE profile[e]]
  BY <1>1
<1>4. listed' \in Seq(Devices) /\ IsInjective(listed') /\ ToSet(listed') = InAccount \cup {d}
  <2>1. listed \in Seq(Devices) /\ IsInjective(listed) /\ d \in Devices \ ToSet(listed)
    BY DEF TypeOK, DevicesTypeOK, InAccount
  <2> QED BY <1>2, <2>1, InsertIs DEF InAccount
<1>5. profile' \in [InAccount' -> Profile]
  <2>1. p \in Profile /\ profile \in [InAccount -> Profile]
    BY SettingIs DEF TypeOK, DevicesTypeOK
  <2>2. profile' \in [InAccount \cup {d} -> Profile]
    BY <1>3, <2>1
  <2> QED BY <1>4, <2>2 DEF InAccount
<1>6. changes' \in Nat
  BY <1>1 DEF Happens, TypeOK, DevicesTypeOK
<1> QED BY <1>1, <1>4, <1>5, <1>6 DEF sync, TypeOK, DevicesTypeOK

LEMMA LeavesType == ASSUME TypeOK, Leaves, setting' = setting PROVE DevicesTypeOK'
<1>1. PICK place \in DOMAIN listed :
          /\ Happens
          /\ listed' = RemoveAt(listed, place)
          /\ profile' = Restrict(profile, DOMAIN profile \ {listed[place]})
          /\ poll' = Noted(poll, {listed[place]})
          /\ UNCHANGED <<entry, data, success, home>>
  BY DEF Leaves
<1>2. /\ listed' \in Seq(Devices) /\ IsInjective(listed')
      /\ ToSet(listed') = InAccount \ {listed[place]}
  <2>1. listed \in Seq(Devices) /\ IsInjective(listed)
    BY DEF TypeOK, DevicesTypeOK
  <2> QED BY <1>1, <2>1, RemoveIs DEF InAccount
<1>3. profile' \in [InAccount' -> Profile]
  <2>1. profile' \in [InAccount \ {listed[place]} -> Profile]
    BY <1>1 DEF Restrict, TypeOK, DevicesTypeOK
  <2> QED BY <1>2, <2>1 DEF InAccount
<1>4. poll' = None \/ IsPoll(poll')
  BY <1>1, NotedType DEF TypeOK, DevicesTypeOK
<1>5. changes' \in Nat
  BY <1>1 DEF Happens, TypeOK, DevicesTypeOK
<1> QED BY <1>1, <1>2, <1>3, <1>4, <1>5 DEF TypeOK, DevicesTypeOK

LEMMA DeviceChangesType == ASSUME TypeOK, DeviceChanges, setting' = setting PROVE DevicesTypeOK'
<1>1. PICK d \in InAccount : \E p \in setting.profiles[d] \ {profile[d]} :
          /\ Happens
          /\ profile' = [profile EXCEPT ![d] = p]
          /\ UNCHANGED <<listed, sync>>
  BY DEF DeviceChanges
<1>2. PICK p \in setting.profiles[d] :
          Happens /\ profile' = [profile EXCEPT ![d] = p] /\ UNCHANGED <<listed, sync>>
  BY <1>1
<1>3. InAccount \subseteq Devices
  BY DEF InAccount, ToSet, TypeOK, DevicesTypeOK
<1>4. profile' \in [InAccount -> Profile]
  BY <1>2, <1>3, SettingIs DEF TypeOK, DevicesTypeOK
<1>5. InAccount' = InAccount
  BY <1>2 DEF InAccount
<1>6. changes' \in Nat
  BY <1>2 DEF Happens, TypeOK, DevicesTypeOK
<1> QED BY <1>2, <1>4, <1>5, <1>6 DEF sync, TypeOK, DevicesTypeOK

LEMMA PollingType == ASSUME TypeOK PROVE IsPoll(Polling)
<1>1. InAccount \subseteq Devices
  BY DEF InAccount, ToSet, TypeOK, DevicesTypeOK
<1>2. PollIs(Polling)
  BY <1>1, NoDataIs DEF Polling, PollIs
<1> QED BY <1>2, PollType

LEMMA WithPageIs ==
    ASSUME TypeOK, poll # None
    PROVE  LET got == WithPage(poll.got, Page)
           IN  /\ OfSome(got, Profile)
               /\ DOMAIN got = DOMAIN poll.got \cup ToSet(Page)
<1> DEFINE old == poll.got
           on == ToSet(Page)
           got == WithPage(old, Page)
<1>1. OfSome(old, Profile) /\ on \subseteq InAccount /\ on \subseteq Devices
  <2>1. OfSome(old, Profile)
    BY PollType DEF PollIs, TypeOK, DevicesTypeOK
  <2>2. on \subseteq InAccount
    BY PageIs
  <2>3. InAccount \subseteq Devices
    BY DEF InAccount, ToSet, TypeOK, DevicesTypeOK
  <2> QED BY <2>1, <2>2, <2>3
<1>2. got = [d \in DOMAIN old \cup on |-> IF d \in on THEN profile[d] ELSE old[d]]
  BY DEF WithPage
<1>3. profile \in [InAccount -> Profile]
  BY DEF TypeOK, DevicesTypeOK
<1> HIDE DEF old, on, got
<1>4. DOMAIN got = DOMAIN old \cup on /\ \A d \in DOMAIN got : got[d] \in Profile
  BY <1>1, <1>2, <1>3, SomeType
<1>5. OfSome(got, Profile)
  BY <1>1, <1>2, <1>4, SomeType
<1> QED BY <1>4, <1>5 DEF old, on, got

\* What a poll that succeeds makes of what was there.
LEMMA SucceedsIs ==
    ASSUME TypeOK, PollSucceeds
    PROVE  /\ OfSome(data', Profile) /\ IsHome(Sync(home, data')) /\ IsHome(home')
           /\ DOMAIN data' = DOMAIN poll.got \cup ToSet(Page)
<1>1. OfSome(data', Profile) /\ DOMAIN data' = DOMAIN poll.got \cup ToSet(Page)
  BY WithPageIs DEF PollSucceeds
<1>2. IsHome(home)
  BY DEF TypeOK, DevicesTypeOK
<1>3. IsHome(Sync(home, data'))
  BY <1>1, <1>2, SyncIs
<1>4. IsHome(AddNewEntities(Sync(home, data'), data'))
  <2> DEFINE synced == Sync(home, data')
             new == data'
  <2>1. IsHome(synced) /\ OfSome(new, Profile)
    BY <1>1, <1>3
  <2> HIDE DEF synced, new
  <2>2. IsHome(AddNewEntities(synced, new))
    BY <2>1, AddIs
  <2> QED BY <2>2 DEF synced, new
<1>5. IsHome(home')
  BY <1>3, <1>4 DEF PollSucceeds
<1> QED BY <1>1, <1>3, <1>5

\* Any step of a poll or of the setup.
LEMMA PollStepType ==
    ASSUME TypeOK, setting' = setting, changes' \in Nat,
           \/ SetupStarts \/ PollStarts \/ PageArrives \/ PollSucceeds \/ PollFails
           \/ EntitiesAdded \/ SetupEnds \/ SetupFails \/ Unloads
    PROVE  DevicesTypeOK'
<1> USE DEF TypeOK, DevicesTypeOK
<1>1. UNCHANGED bold => InAccount' = InAccount
  BY DEF bold, InAccount
<1>2. IsHome(Fresh(home)) /\ IsHome(AddNewEntities(home, data))
  BY FreshIs, AddIs
<1>3. IsPoll(Polling)
  BY PollingType
<1>4. CASE SetupStarts
  BY <1>1, <1>2, <1>3, <1>4, NoDataIs DEF SetupStarts, bold
<1>5. CASE PollStarts
  BY <1>1, <1>3, <1>5 DEF PollStarts, bold
<1>6. CASE PageArrives
  <2>1. poll # None /\ poll' = [poll EXCEPT !.offset = @ + PageSize, !.got = WithPage(@, Page)]
    BY <1>6 DEF PageArrives
  <2> DEFINE offset == poll.offset + PageSize
             got == WithPage(poll.got, Page)
             p == [offset |-> offset, got |-> got, stayed |-> poll.stayed, shrunk |-> poll.shrunk]
  <2>2. PollIs(poll) /\ offset \in Nat /\ OfSome(got, Profile)
    <3>1. PollIs(poll)
      BY <2>1, PollType
    <3>2. OfSome(got, Profile)
      BY <2>1, WithPageIs
    <3> QED BY <3>1, <3>2, PagesHoldDevices DEF PollIs
  <2>3. poll' = p
    <3>1. poll' = [poll EXCEPT !.offset = offset, !.got = got]
      BY <2>1
    <3> HIDE DEF offset, got
    <3> QED BY <2>2, <3>1 DEF PollIs
  <2>4. PollIs(p)
    <3> HIDE DEF offset, got
    <3> QED BY <2>2 DEF PollIs
  <2>5. IsPoll(poll')
    BY <2>3, <2>4, PollType
  <2> QED BY <1>1, <1>6, <2>5 DEF PageArrives, bold
<1>7. CASE PollSucceeds
  <2>1. OfSome(data', Profile) /\ IsHome(home')
    BY <1>7, SucceedsIs
  <2> QED BY <1>1, <1>7, <2>1 DEF PollSucceeds, bold
<1>8. CASE PollFails
  BY <1>1, <1>2, <1>8 DEF PollFails, bold
<1>9. CASE EntitiesAdded
  BY <1>1, <1>2, <1>9 DEF EntitiesAdded, bold
<1>12. CASE SetupEnds
  BY <1>1, <1>12 DEF SetupEnds, bold
<1>10. CASE SetupFails
  BY <1>1, <1>10 DEF SetupFails, bold
<1>11. CASE Unloads
  BY <1>1, <1>2, <1>11 DEF Unloads, bold
<1> QED BY <1>4, <1>5, <1>6, <1>7, <1>8, <1>9, <1>10, <1>11, <1>12

-----------------------------------------------------------------------------
(* The links                                                               *)

\* Whether a link of a lock is given the names there are.
Titled(l, links_followed, shown, sensors) ==
    /\ l \in DOMAIN links_followed \cap shown
    /\ sensors[links_followed[l].sensor].status = "ok"
    /\ sensors[links_followed[l].sensor].id = links_followed[l].id

FollowedLink == [sensor : Sensors, id : Nat]

LEMMA RetitledIs ==
    ASSUME NEW ls, OfLocks(ls, Link), NEW fs, OfLocks(fs, FollowedLink), NEW shown,
           NEW sensors \in [Sensors -> Sensor], NEW names \in [Locks -> Names]
    PROVE  LET r == Retitled(ls, fs, shown, sensors, names)
           IN  /\ OfLocks(r, Link)
               /\ DOMAIN r = DOMAIN ls
               /\ \A l \in DOMAIN ls :
                      /\ r[l].sensor = ls[l].sensor
                      /\ r[l].title = IF Titled(l, fs, shown, sensors)
                                      THEN [lock |-> names[l], door |-> sensors[fs[l].sensor].name]
                                      ELSE ls[l].title
<1> DEFINE r == Retitled(ls, fs, shown, sensors, names)
<1>1. r = [l \in DOMAIN ls |->
             IF Titled(l, fs, shown, sensors)
             THEN [ls[l] EXCEPT !.title = [lock |-> names[l], door |-> sensors[fs[l].sensor].name]]
             ELSE ls[l]]
  BY DEF Retitled, Titled
<1>2. DOMAIN ls \subseteq Locks /\ \A l \in DOMAIN ls : ls[l] \in Link
  BY DEF OfLocks
<1>3. \A l \in DOMAIN fs : fs[l] \in FollowedLink
  BY DEF OfLocks
<1> HIDE DEF r
<1>4. DOMAIN r = DOMAIN ls
  BY <1>1
<1>5. ASSUME NEW l \in DOMAIN ls
      PROVE  /\ r[l] \in Link
             /\ r[l].sensor = ls[l].sensor
             /\ r[l].title = IF Titled(l, fs, shown, sensors)
                             THEN [lock |-> names[l], door |-> sensors[fs[l].sensor].name]
                             ELSE ls[l].title
  <2>1. CASE Titled(l, fs, shown, sensors)
    <3> DEFINE title == [lock |-> names[l], door |-> sensors[fs[l].sensor].name]
    <3>1. r[l] = [ls[l] EXCEPT !.title = title]
      BY <1>1, <2>1
    <3>2. title \in [lock : Names \cup {None}, door : Names]
      <4>1. fs[l].sensor \in Sensors
        BY <1>3, <2>1 DEF Titled, FollowedLink
      <4> QED BY <1>2, <4>1 DEF Sensor
    <3> HIDE DEF title
    <3>3. ls[l] \in Link
      BY <1>2
    <3>4. r[l] \in Link /\ r[l].sensor = ls[l].sensor /\ r[l].title = title
      BY <3>1, <3>2, <3>3 DEF Link
    <3> QED BY <2>1, <3>4 DEF title
  <2>2. CASE ~ Titled(l, fs, shown, sensors)
    BY <1>1, <1>2, <2>2
  <2> QED BY <2>1, <2>2
<1>6. OfLocks(r, Link)
  <2>1. r \in [DOMAIN ls -> Link]
    BY <1>1, <1>5
  <2> QED BY <1>2, <2>1 DEF OfLocks
<1> QED BY <1>4, <1>5, <1>6 DEF r

LEMMA ResolveType ==
    ASSUME TypeOK
    PROVE  \A s \in Sensors : Resolve(s) \in Nat \cup {None} /\ (Resolve(s) # None => Resolve(s) = sensor[s].id)
  BY DEF TypeOK, Sensor, Resolve

LEMMA ListenType ==
    ASSUME TypeOK, Listen PROVE listening' \in [Locks -> Nat \cup {None}]
<1>1. \A l \in Locks : Door(l) \in Nat \cup {None}
  <2>1. \A l \in DOMAIN inForce : inForce[l] \in Sensors
    BY DEF TypeOK, OfLocks
  <2> QED BY <2>1, ResolveType DEF Door
<1>2. \A l \in Locks : listening[l] \in Nat \cup {None}
  BY DEF TypeOK
<1> QED BY <1>1, <1>2 DEF Listen

LEMMA DoorSensorsType ==
    ASSUME NEW ls, OfLocks(ls, Link) PROVE OfLocks(DoorSensors(ls), Sensors)
<1>1. DOMAIN ls \subseteq Locks /\ \A l \in DOMAIN ls : ls[l].sensor \in Sensors
  BY DEF OfLocks, Link
<1> QED BY <1>1 DEF OfLocks, DoorSensors

\* The links that are followed, by what their sensors are at first.
LEMMA FoundIs ==
    ASSUME TypeOK, NEW h
    PROVE  /\ OfLocks(Found(h), FollowedLink)
           /\ \A l \in DOMAIN Found(h) :
                  /\ l \in DOMAIN links /\ Found(h)[l].sensor = links[l].sensor
                  /\ Found(h)[l].id = sensor[Found(h)[l].sensor].id
                  /\ "lock" \in h.registered[l]
<1>1. DOMAIN links \subseteq Locks /\ \A l \in DOMAIN links : links[l].sensor \in Sensors
  BY DEF TypeOK, OfLocks, Link
<1>2. \A l \in DOMAIN Found(h) :
          /\ l \in DOMAIN links /\ "lock" \in h.registered[l]
          /\ Resolve(links[l].sensor) # None
          /\ Found(h)[l] = [sensor |-> links[l].sensor, id |-> Resolve(links[l].sensor)]
  BY DEF Found
<1>3. \A l \in DOMAIN Found(h) : Found(h)[l] \in FollowedLink
  BY <1>1, <1>2, ResolveType DEF FollowedLink
<1>4. OfLocks(Found(h), FollowedLink)
  <2>1. Found(h) \in [DOMAIN Found(h) -> FollowedLink]
    <3>1. Found(h) = [l \in DOMAIN Found(h) |-> Found(h)[l]]
      BY DEF Found
    <3> QED BY <1>3, <3>1
  <2> QED BY <1>1, <1>2, <2>1 DEF OfLocks
<1> QED BY <1>1, <1>2, <1>4, ResolveType

\* The links change, to others of locks.
LEMMA UpdateType ==
    ASSUME TypeOK, NEW ls, OfLocks(ls, Link), Update(ls)
    PROVE  OfLocks(links', Link) /\ reloadDue' \in BOOLEAN
  BY DEF Update, TypeOK

\* Names, as the registries have them, and links that are retitled by them.
LEMMA StateChangesType ==
    ASSUME TypeOK, NEW locks, NEW sensors \in [Sensors -> Sensor],
           NEW names \in [Locks -> Names], StateChanges(locks, sensors, names)
    PROVE  TypeOK'
<1>1. OfLocks(Retitled(links, followed, locks \cap WithState(home), sensors, names), Link)
  BY RetitledIs DEF TypeOK, FollowedLink
<1>2. OfLocks(links', Link) /\ reloadDue' \in BOOLEAN
  BY <1>1, UpdateType DEF StateChanges
<1>3. DevicesTypeOK' /\ sensor' = sensors /\ lockName' = names /\ UNCHANGED runtime
  BY DEF StateChanges, Happens, bold, sync, TypeOK, DevicesTypeOK, InAccount
<1> QED BY <1>2, <1>3 DEF runtime, TypeOK

LEMMA TypeStep == TypeOK /\ [Next]_vars => TypeOK'
<1> SUFFICES ASSUME TypeOK, [Next]_vars PROVE TypeOK'
  OBVIOUS
<1>1. ASSUME UNCHANGED <<bold, sync>>, setting' = setting, changes' \in Nat PROVE DevicesTypeOK'
  BY <1>1 DEF bold, sync, TypeOK, DevicesTypeOK, InAccount
<1>2. /\ OfLocks(links, Link) /\ OfLocks(followed, FollowedLink)
      /\ sensor \in [Sensors -> Sensor] /\ lockName \in [Locks -> Names]
      /\ changes \in Nat
  BY DEF TypeOK, FollowedLink, DevicesTypeOK
<1>3. CASE BoldChanges
  <2>1. DevicesTypeOK'
    BY <1>3, JoinsType, LeavesType, DeviceChangesType DEF BoldChanges
  <2> QED BY <1>3, <2>1 DEF BoldChanges, door, registries, runtime, TypeOK
<1>4. CASE SetupBegins
  BY <1>2, <1>4, PollStepType DEF SetupBegins, door, registries, runtime, TypeOK
<1>5. CASE PollBegins
  BY <1>2, <1>5, PollStepType DEF PollBegins, door, registries, runtime, TypeOK
<1>6. CASE PageFollows
  BY <1>2, <1>6, PollStepType DEF PageFollows, door, registries, runtime, TypeOK
<1>7. CASE DevicesArrive
  <2>1. DevicesTypeOK'
    BY <1>2, <1>7, PollStepType DEF DevicesArrive
  <2>2. OfLocks(links', Link) /\ reloadDue' \in BOOLEAN
    <3>1. OfLocks(Retitled(links, followed, WithState(home') \ WithState(home), sensor, lockName), Link)
      BY <1>2, RetitledIs
    <3> QED BY <1>7, <3>1, UpdateType DEF DevicesArrive
  <2>3. OfLocks(inForce', Sensors)
    BY <1>2, <1>7, DoorSensorsType DEF DevicesArrive, TypeOK
  <2>4. listening' \in [Locks -> Nat \cup {None}]
    BY <1>7, ListenType DEF DevicesArrive
  <2> QED BY <1>7, <2>1, <2>2, <2>3, <2>4 DEF DevicesArrive, registries, TypeOK
<1>8. CASE RequestFails
  <2>1. DevicesTypeOK'
    <3>1. setting' = setting /\ (PollFails \/ SetupFails)
      BY <1>8 DEF RequestFails
    <3>2. changes' \in Nat
      BY <1>2, <3>1 DEF PollFails, SetupFails, Happens
    <3> QED BY <3>1, <3>2, PollStepType
  <2>2. listening' \in [Locks -> Nat \cup {None}]
    BY <1>8, ListenType DEF RequestFails
  <2> QED BY <1>8, <2>1, <2>2 DEF RequestFails, registries, TypeOK
<1>26. CASE AddEntities
  <2>1. DevicesTypeOK'
    BY <1>2, <1>26, PollStepType DEF AddEntities
  <2>2. listening' \in [Locks -> Nat \cup {None}]
    BY <1>26, ListenType DEF AddEntities
  <2> QED BY <1>26, <2>1, <2>2 DEF AddEntities, registries, TypeOK
<1>9. CASE SetUp
  <2>1. DevicesTypeOK'
    BY <1>2, <1>9, PollStepType DEF SetUp
  <2>2. OfLocks(followed', FollowedLink)
    BY <1>9, FoundIs DEF SetUp
  <2>3. OfLocks(links', Link)
    BY <1>2, <1>9, <2>2, RetitledIs DEF SetUp
  <2>5. reloadDue' \in BOOLEAN
    BY <1>9 DEF SetUp
  <2> QED BY <1>9, <2>1, <2>2, <2>3, <2>5 DEF SetUp, registries, FollowedLink, TypeOK
<1>10. CASE Unload /\ changes' \in Nat
  <2>1. DevicesTypeOK'
    BY <1>10, PollStepType DEF Unload
  <2> QED BY <1>10, <2>1, NoDataIs DEF Unload, registries, TypeOK
<1>11. CASE Reload
  BY <1>2, <1>10, <1>11 DEF Reload
<1>12. CASE UserReloads
  BY <1>2, <1>10, <1>12 DEF UserReloads, Happens
<1>13. CASE TokensRefreshed
  <2>1. DevicesTypeOK'
    BY <1>1, <1>2, <1>13 DEF TokensRefreshed
  <2> QED BY <1>13, <2>1 DEF TokensRefreshed, registries, runtime, TypeOK
<1>14. CASE OtherAccountPolls
  <2>1. DevicesTypeOK'
    BY <1>1, <1>2, <1>14 DEF OtherAccountPolls
  <2> QED BY <1>14, <2>1 DEF OtherAccountPolls, registries, runtime, TypeOK
<1>15. ASSUME UserLinks, NEW ls, OfLocks(ls, Link), Update(ls) PROVE TypeOK'
  <2>1. DevicesTypeOK'
    BY <1>1, <1>2, <1>15 DEF UserLinks, Happens
  <2>2. OfLocks(links', Link) /\ reloadDue' \in BOOLEAN
    BY <1>15, UpdateType
  <2> QED BY <1>15, <2>1, <2>2 DEF UserLinks, registries, runtime, TypeOK
<1>16. \A s \in Sensors : sensor[s] \in Sensor
  BY <1>2
<1>17. \A l \in DOMAIN links : l \in Locks /\ links[l] \in Link
  BY <1>2 DEF OfLocks
<1>18. CASE LinkLock
  <2>1. PICK l \in (Locks \cap DOMAIN data) \ DOMAIN links, s \in Sensors :
            Update([k \in DOMAIN links \cup {l} |->
                       IF k # l THEN links[k]
                       ELSE [sensor |-> s, title |-> [lock |-> LockName(l, None), door |-> sensor[s].name]]])
    BY <1>18 DEF LinkLock
  <2> DEFINE link == [sensor |-> s, title |-> [lock |-> LockName(l, None), door |-> sensor[s].name]]
             ls == [k \in DOMAIN links \cup {l} |-> IF k # l THEN links[k] ELSE link]
  <2>2. link \in Link
    BY <1>2, <1>16 DEF Link, LockName, Sensor
  <2>3. OfLocks(ls, Link)
    <3> HIDE DEF link
    <3>1. ls \in [DOMAIN links \cup {l} -> Link]
      BY <1>17, <2>2
    <3> QED BY <1>17, <3>1 DEF OfLocks
  <2> QED BY <1>15, <1>18, <2>1, <2>3 DEF LinkLock
<1>19. CASE Relink
  <2>1. PICK l \in DOMAIN links, s \in Sensors :
            Update([links EXCEPT ![l] = [sensor |-> s,
                                         title |-> [lock |-> LockName(l, @.title.lock), door |-> sensor[s].name]]])
    BY <1>19 DEF Relink
  <2> DEFINE link == [sensor |-> s, title |-> [lock |-> LockName(l, links[l].title.lock), door |-> sensor[s].name]]
             ls == [links EXCEPT ![l] = link]
  <2>2. link \in Link
    BY <1>2, <1>16, <1>17 DEF Link, LockName, Sensor
  <2>3. OfLocks(ls, Link)
    <3> HIDE DEF link
    <3> QED BY <1>2, <2>2 DEF OfLocks
  <2> QED BY <1>15, <1>19, <2>1, <2>3 DEF Relink
<1>20. CASE Unlink
  <2>1. PICK l \in DOMAIN links : Update(Restrict(links, DOMAIN links \ {l}))
    BY <1>20 DEF Unlink
  <2>2. OfLocks(Restrict(links, DOMAIN links \ {l}), Link)
    <3>1. Restrict(links, DOMAIN links \ {l}) \in [DOMAIN links \ {l} -> Link]
      BY <1>17 DEF Restrict
    <3> QED BY <1>17, <3>1 DEF OfLocks
  <2> QED BY <1>15, <1>20, <2>1, <2>2 DEF Unlink
<1>21. CASE SensorRenamed
  <2>1. PICK s \in Sensors, n \in Names : StateChanges(Of(s), [sensor EXCEPT ![s].name = n], lockName)
    BY <1>21 DEF SensorRenamed
  <2>2. [sensor EXCEPT ![s].name = n] \in [Sensors -> Sensor]
    BY <1>2, <1>16 DEF Sensor
  <2> QED BY <1>2, <2>1, <2>2, StateChangesType
<1>22. CASE LockRenamed
  <2>1. PICK l \in Locks, n \in Names : StateChanges({l}, sensor, [lockName EXCEPT ![l] = n])
    BY <1>22 DEF LockRenamed, WithState
  <2>2. [lockName EXCEPT ![l] = n] \in [Locks -> Names]
    BY <1>2
  <2> QED BY <1>2, <2>1, <2>2, StateChangesType
<1>23. CASE SensorStatus
  <2>1. PICK s \in Sensors, status \in {"ok", "disabled", "deleted"} :
            StateChanges(Of(s), [sensor EXCEPT ![s].status = status], lockName)
    BY <1>23 DEF SensorStatus
  <2>2. [sensor EXCEPT ![s].status = status] \in [Sensors -> Sensor]
    BY <1>2, <1>16 DEF Sensor
  <2> QED BY <1>2, <2>1, <2>2, StateChangesType
<1>24. CASE SensorMoved
  <2>1. PICK s \in Sensors : /\ sensor' = [sensor EXCEPT ![s].id = @ + 1]
                             /\ reloadDue' = (reloadDue \/ EntityIdChanged(s))
    BY <1>24 DEF SensorMoved
  <2>2. sensor' \in [Sensors -> Sensor]
    BY <1>2, <1>16, <2>1 DEF Sensor
  <2>3. DevicesTypeOK'
    BY <1>1, <1>2, <1>24 DEF SensorMoved, Happens
  <2>4. reloadDue' \in BOOLEAN
    BY <2>1
  <2>5. outrun' \subseteq Locks
    <3>1. DOMAIN inForce \subseteq Locks
      BY DEF TypeOK, OfLocks
    <3> QED BY <1>24, <3>1 DEF SensorMoved, TypeOK
  <2> QED BY <1>24, <2>2, <2>3, <2>4, <2>5 DEF SensorMoved, TypeOK
<1>25. CASE UNCHANGED vars
  BY <1>1, <1>2, <1>25 DEF vars, door, registries, runtime, TypeOK
<1> QED BY <1>3, <1>4, <1>5, <1>6, <1>7, <1>8, <1>9, <1>11, <1>12, <1>13, <1>14, <1>18, <1>19,
           <1>20, <1>21, <1>22, <1>23, <1>24, <1>25, <1>26 DEF Next

\* Every variable keeps its type.
THEOREM EntryTypeCorrect == Spec => []TypeOK
<1>1. Init => TypeOK
  <2> SUFFICES ASSUME Init PROVE TypeOK
    OBVIOUS
  <2>1. DevicesTypeOK
    BY InitDevices DEF Init
  <2>2. (CHOOSE n \in Names : TRUE) \in Names
    BY ThingsHaveNames
  <2>3. sensor \in [Sensors -> Sensor] /\ lockName \in [Locks -> Names]
    BY <2>2 DEF Init, Sensor
  <2> QED BY <2>1, <2>3, NoDataIs DEF Init, TypeOK
<1> QED BY <1>1, TypeStep, PTL DEF Spec

-----------------------------------------------------------------------------
(* The devices that are shown                                              *)

\* A device has the entities that were added for it.
Known(h) == \A d \in Devices : h.entities[d] = IF d \in DOMAIN h.added THEN h.added[d] ELSE {}

Shows(h, devices) ==
    /\ DOMAIN h.registry = DOMAIN devices
    /\ \A d \in DOMAIN devices : /\ h.registry[d].firmware = devices[d].firmware
                                 /\ Wanted(d, devices[d]) \subseteq h.entities[d]
    /\ h.activity = {d \in DOMAIN devices : HasActivity(d, devices[d])}

\* The registries are such that adding entities is all that is left to be done.
Synced(h, devices) ==
    /\ \A d \in Devices :
           h.entities[d] = IF d \in DOMAIN h.added \cap DOMAIN devices THEN h.added[d] ELSE {}
    /\ ~ h.clash
    /\ DOMAIN h.registry \subseteq DOMAIN devices
    /\ \A d \in DOMAIN devices :
           IF d \in DOMAIN h.registry THEN h.registry[d].firmware = devices[d].firmware
           ELSE d \notin DOMAIN h.added
    /\ h.activity = {d \in DOMAIN devices : HasActivity(d, devices[d])}

\* Every device is shown once its entities are added, and none of them was there.
LEMMA AddShows ==
    ASSUME NEW h, IsHome(h), NEW devices, OfSome(devices, Profile), Synced(h, devices)
    PROVE  LET a == AddNewEntities(h, devices)
           IN  Shows(a, devices) /\ Known(a) /\ ~ a.clash /\ DOMAIN a.added = DOMAIN devices
<1> DEFINE a == AddNewEntities(h, devices)
           wanted(d) == Wanted(d, devices[d])
           before(d) == Before(h, devices, d)
<1>1. DOMAIN devices \subseteq Devices
  BY SomeType
<1>2. /\ a.activity = h.activity
      /\ DOMAIN a.added = DOMAIN devices
      /\ \A d \in DOMAIN devices : a.added[d] = before(d) \cup wanted(d)
      /\ \A d \in Devices :
             a.entities[d] = IF d \in DOMAIN devices THEN h.entities[d] \cup (wanted(d) \ before(d))
                             ELSE h.entities[d]
  <2>1. a.activity = h.activity /\ DOMAIN a.added = DOMAIN devices
    BY AddIs
  <2>2. \A d \in DOMAIN devices : a.added[d] = before(d) \cup wanted(d)
    BY AddIs
  <2>3. \A d \in Devices :
             a.entities[d] = IF d \in DOMAIN devices THEN h.entities[d] \cup (wanted(d) \ before(d))
                             ELSE h.entities[d]
    BY AddIs
  <2> QED BY <2>1, <2>2, <2>3
<1>3. a.clash => h.clash \/ \E d \in DOMAIN devices : (wanted(d) \ before(d)) \cap h.entities[d] # {}
  BY AddIs
<1>4. /\ DOMAIN a.registry = DOMAIN h.registry \cup Gaining(h, devices)
      /\ \A d \in Gaining(h, devices) : a.registry[d].firmware = devices[d].firmware
      /\ \A d \in DOMAIN h.registry \ Gaining(h, devices) : a.registry[d] = h.registry[d]
  BY AddIs
<1>5. \A d \in DOMAIN devices : h.entities[d] = before(d)
  BY <1>1 DEF Synced, Before
<1>6. \A d \in DOMAIN devices \ DOMAIN h.registry : d \in Gaining(h, devices)
  <2>1. \A d \in DOMAIN devices \ DOMAIN h.registry : before(d) = {}
    BY DEF Synced, Before
  <2> QED BY <2>1, WantedType DEF Gaining
<1>7. Gaining(h, devices) \subseteq DOMAIN devices
  BY DEF Gaining
<1> HIDE DEF a, before, wanted
<1>8. \A d \in DOMAIN devices : a.entities[d] = a.added[d]
  BY <1>1, <1>2, <1>5
<1>9. ~ a.clash
  BY <1>3, <1>5 DEF Synced
<1>10. Known(a)
  BY <1>2, <1>8 DEF Known, Synced
<1>11. DOMAIN a.registry = DOMAIN devices
  BY <1>4, <1>6, <1>7 DEF Synced
<1>12. \A d \in DOMAIN devices : a.registry[d].firmware = devices[d].firmware
  BY <1>4, <1>6, <1>7 DEF Synced
<1>13. \A d \in DOMAIN devices : wanted(d) \subseteq a.entities[d]
  BY <1>2, <1>8
<1> QED BY <1>2, <1>9, <1>10, <1>11, <1>12, <1>13 DEF Shows, Synced, a, wanted

\* Synchronizing what was shown, or what a new setup has, makes it ready.
LEMMA SyncReadies ==
    ASSUME NEW h, IsHome(h), NEW devices, OfSome(devices, Profile),
           Known(h), ~ h.clash, DOMAIN h.added \subseteq DOMAIN h.registry
    PROVE  Synced(Sync(h, devices), devices)
<1> DEFINE s == Sync(h, devices)
<1>1. /\ s.added = h.added /\ s.clash = h.clash
      /\ s.activity = {d \in DOMAIN devices : HasActivity(d, devices[d])}
      /\ DOMAIN s.registry \subseteq DOMAIN devices
      /\ DOMAIN h.registry \cap DOMAIN devices \subseteq DOMAIN s.registry
      /\ \A d \in DOMAIN s.registry : s.registry[d].firmware = devices[d].firmware
      /\ s.entities = Among(h.entities, DOMAIN devices)
  BY SyncIs
<1> HIDE DEF s
<1>2. \A d \in Devices : s.entities[d] = IF d \in DOMAIN devices THEN h.entities[d] ELSE {}
  BY <1>1 DEF Among
<1> QED BY <1>1, <1>2 DEF Synced, Known, s

LEMMA ShownInit == Init => DevicesInvariant
  BY DEF Init, DevicesInit, DevicesInvariant, DevicesShown, AddedOnce, EntitiesAreKnown,
         SyncedFirst, PollsWhileUp, NoData, Added

LEMMA SettingKept == [Next]_vars => setting' = setting
  BY DEF Next, vars, BoldChanges, SetupBegins, PollBegins, PageFollows, DevicesArrive, RequestFails,
         AddEntities, SetUp, Reload, UserReloads, Unload, TokensRefreshed, OtherAccountPolls, LinkLock, Relink, Unlink,
         UserLinks, SensorRenamed, LockRenamed, SensorStatus, StateChanges, SensorMoved

\* What a device is wanted to have is a matter of the setting.
LEMMA WantedNext ==
    ASSUME setting' = setting
    PROVE  \A d, p : Wanted(d, p)' = Wanted(d, p)
  BY DEF Wanted, LockEntities, ButtonEntities, EventEntities, SelectEntities, SensorEntities,
         BinarySensorEntities, UpdateEntities, Bluetooth

\* What the invariant says of the next state, by the operators above.
LEMMA ShownNext ==
    ASSUME setting' = setting,
           Added' => Shows(home', data'),
           entry' = "starting" => Synced(home', data') /\ {d \in DOMAIN data' : IsGateway(d)} \subseteq home'.connects,
           Known(home'), ~ home'.clash,
           DOMAIN home'.added = IF Added' THEN DOMAIN data' ELSE {},
           poll' # None => entry' \in {"setup", "loaded"}
    PROVE  DevicesInvariant'
<1>1. DevicesShown'
  <2>1. DevicesShown' <=> (Added' => Shows(home', data'))
    BY WantedNext DEF DevicesShown, Shows
  <2> QED BY <2>1
<1>2. EntitiesAreKnown'
  BY DEF EntitiesAreKnown, Known
<1>3. SyncedFirst'
  BY DEF SyncedFirst, Synced
<1> QED BY <1>1, <1>2, <1>3 DEF DevicesInvariant, AddedOnce, PollsWhileUp

LEMMA PollSucceedsShows ==
    ASSUME TypeOK, DevicesInvariant, PollSucceeds, setting' = setting PROVE DevicesInvariant'
<1>1. /\ IsHome(home) /\ OfSome(data', Profile) /\ IsHome(Sync(home, data'))
      /\ entry \in {"setup", "loaded"} /\ poll' = None
  BY SucceedsIs DEF TypeOK, DevicesTypeOK, PollSucceeds, DevicesInvariant, PollsWhileUp
<1> USE DEF Added
<1>2. Known(home) /\ ~ home.clash /\ DOMAIN home.added \subseteq DOMAIN home.registry
  BY <1>1 DEF DevicesInvariant, EntitiesAreKnown, AddedOnce, DevicesShown, Known
<1>3. Synced(Sync(home, data'), data')
  BY <1>1, <1>2, SyncReadies
<1>4. CASE entry = "setup"
  <2>1. entry' = "starting" /\ home' = Sync(home, data')
    BY <1>4 DEF PollSucceeds
  <2>2. DOMAIN home.added = {}
    BY <1>4 DEF DevicesInvariant, EntitiesAreKnown
  <2>3. /\ home'.added = home.added
        /\ {d \in DOMAIN data' : IsGateway(d)} \subseteq home'.connects
    BY <1>1, <2>1, SyncIs
  <2>4. Synced(home', data')
    BY <1>3, <2>1
  <2>6. Known(home') /\ ~ home'.clash /\ DOMAIN home'.added = {}
    BY <2>2, <2>3, <2>4 DEF Synced, Known
  <2> QED BY <1>1, <2>1, <2>3, <2>4, <2>6, ShownNext
<1>5. CASE entry = "loaded"
  <2>1. entry' = "loaded" /\ home' = AddNewEntities(Sync(home, data'), data')
    BY <1>5 DEF PollSucceeds
  <2>2. Shows(home', data') /\ Known(home') /\ ~ home'.clash /\ DOMAIN home'.added = DOMAIN data'
    <3> DEFINE synced == Sync(home, data')
               new == data'
    <3>1. IsHome(synced) /\ OfSome(new, Profile) /\ Synced(synced, new)
      BY <1>1, <1>3
    <3>2. home' = AddNewEntities(synced, new)
      BY <2>1
    <3> HIDE DEF synced
    <3> QED BY <3>1, <3>2, AddShows
  <2> QED BY <1>1, <2>1, <2>2, ShownNext
<1> QED BY <1>1, <1>4, <1>5

\* What was shown, or what a setup synchronized, is ready: adding its entities
\* (once more) shows it.
LEMMA AddKeepsShown ==
    ASSUME TypeOK, DevicesInvariant, entry = "starting" \/ Added
    PROVE  LET a == AddNewEntities(home, data)
           IN  Shows(a, data) /\ Known(a) /\ ~ a.clash /\ DOMAIN a.added = DOMAIN data
<1>1. IsHome(home) /\ OfSome(data, Profile) /\ DOMAIN data \subseteq Devices
  BY SomeType DEF TypeOK, DevicesTypeOK
<1>2. Synced(home, data)
  BY DEF Synced, DevicesInvariant, DevicesShown, EntitiesAreKnown, SyncedFirst, AddedOnce
<1> QED BY <1>1, <1>2, AddShows

LEMMA ShownStep == TypeOK /\ DevicesInvariant /\ [Next]_vars => DevicesInvariant'
<1> SUFFICES ASSUME TypeOK, DevicesInvariant, [Next]_vars PROVE DevicesInvariant'
  OBVIOUS
<1> USE DEF DevicesInvariant, DevicesShown, AddedOnce, EntitiesAreKnown, SyncedFirst, PollsWhileUp,
            Added
<1>0. Known(home) /\ ~ home.clash /\ setting' = setting
  BY SettingKept DEF Known
<1>1. ASSUME UNCHANGED <<entry, data, home>>, poll = None => poll' = None PROVE DevicesInvariant'
  BY <1>0, <1>1, WantedNext
<1>2. ASSUME UNCHANGED sync PROVE DevicesInvariant'
  BY <1>2, <1>1 DEF sync
<1>3. CASE BoldChanges
  <2>1. CASE Leaves
    BY <2>1, <1>1 DEF Leaves, Noted
  <2>2. CASE Joins \/ DeviceChanges
    BY <2>2, <1>2 DEF Joins, DeviceChanges
  <2> QED BY <1>3, <2>1, <2>2 DEF BoldChanges
<1>4. ASSUME UNCHANGED data, home' = Fresh(home), entry' \in {"down", "setup"}, entry' = "setup" \/ poll' = None
      PROVE  DevicesInvariant'
  <2>1. LET f == Fresh(home)
        IN  f.added = NoData /\ f.entities = [d \in Devices |-> {}] /\ f.clash = home.clash
    BY FreshIs DEF TypeOK, DevicesTypeOK
  <2>2. Known(home')
    BY <1>4, <2>1, NoDataIs DEF Known
  <2> QED BY <1>4, <2>1, <2>2, NoDataIs, ShownNext, <1>0
<1>5. CASE SetupBegins
  <2>1. LET f == Fresh(home)
        IN  f.added = NoData /\ f.entities = [d \in Devices |-> {}] /\ f.clash = home.clash
    BY FreshIs DEF TypeOK, DevicesTypeOK
  <2>2. home' = Fresh(home) /\ entry' = "setup"
    BY <1>5 DEF SetupBegins, SetupStarts
  <2>3. Known(home')
    BY <2>1, <2>2, NoDataIs DEF Known
  <2> QED BY <2>1, <2>2, <2>3, NoDataIs, ShownNext, <1>0
<1>6. CASE PollBegins
  <2>1. UNCHANGED <<entry, data, home>> /\ entry = "loaded"
    BY <1>6 DEF PollBegins, PollStarts
  <2> QED BY <1>0, <2>1, WantedNext
<1>7. CASE PageFollows
  BY <1>7, <1>1 DEF PageFollows, PageArrives
<1>8. CASE DevicesArrive
  BY <1>0, <1>8, PollSucceedsShows DEF DevicesArrive
<1>15. CASE SetUp
  BY <1>0, <1>15, WantedNext DEF SetUp, SetupEnds
<1>9. CASE AddEntities
  <2>1. entry = "starting" /\ entry' = "added" /\ home' = AddNewEntities(home, data) /\ data' = data
    BY <1>9 DEF AddEntities, EntitiesAdded
  <2>2. Shows(home', data) /\ Known(home') /\ ~ home'.clash /\ DOMAIN home'.added = DOMAIN data
    BY <2>1, AddKeepsShown
  <2>3. poll = None
    BY <2>1
  <2>4. poll' = None
    BY <1>9, <2>3 DEF AddEntities, EntitiesAdded
  <2> QED BY <2>1, <2>2, <2>4, ShownNext, <1>0
<1>10. CASE RequestFails
  <2>1. CASE SetupFails
    BY <1>0, <2>1, ShownNext DEF SetupFails
  <2>2. CASE PollFails /\ entry = "setup"
    BY <1>0, <2>2, ShownNext DEF PollFails
  <2>3. CASE PollFails /\ entry # "setup"
    <3>1. entry = "loaded" /\ entry' = "loaded" /\ data' = data /\ poll' = None
      BY <2>3 DEF PollFails
    <3>2. CASE home' = home
      BY <1>0, <3>1, <3>2, WantedNext
    <3>3. CASE home' = AddNewEntities(home, data)
      <4>1. Shows(home', data) /\ Known(home') /\ ~ home'.clash /\ DOMAIN home'.added = DOMAIN data
        BY <3>1, <3>3, AddKeepsShown
      <4> QED BY <3>1, <4>1, ShownNext, <1>0
    <3> QED BY <2>3, <3>2, <3>3 DEF PollFails
  <2> QED BY <1>10, <2>1, <2>2, <2>3 DEF RequestFails
<1>11. CASE Unload
  BY <1>4, <1>11 DEF Unload, Unloads
<1>12. CASE Reload \/ UserReloads
  BY <1>11, <1>12 DEF Reload, UserReloads
<1>13. CASE TokensRefreshed \/ OtherAccountPolls \/ LinkLock \/ Relink \/ Unlink \/ SensorMoved \/ UNCHANGED vars
  BY <1>2, <1>13 DEF TokensRefreshed, OtherAccountPolls, LinkLock, Relink, Unlink, UserLinks, SensorMoved, vars
<1>14. CASE SensorRenamed \/ LockRenamed \/ SensorStatus
  BY <1>2, <1>14 DEF SensorRenamed, LockRenamed, SensorStatus, StateChanges
<1> QED BY <1>3, <1>5, <1>6, <1>7, <1>8, <1>9, <1>10, <1>12, <1>13, <1>14,
           <1>15 DEF Next

\* What every step keeps of the devices.
LEMMA DevicesKept == Spec => []DevicesInvariant
  BY ShownInit, ShownStep, EntryTypeCorrect, PTL DEF Spec

\* The registries have the devices of the last good poll, with all their
\* entities, whatever came, went or failed.
THEOREM DevicesAreShown == Spec => []DevicesShown
<1>1. DevicesInvariant => DevicesShown
  BY DEF DevicesInvariant
<1> QED BY <1>1, DevicesKept, PTL

\* No entity is added that Home Assistant still has.
THEOREM EntitiesAddedOnce == Spec => []AddedOnce
<1>1. DevicesInvariant => AddedOnce
  BY DEF DevicesInvariant
<1> QED BY <1>1, DevicesKept, PTL

-----------------------------------------------------------------------------
(* The pages of a poll                                                     *)

LEMMA NotedIs ==
    ASSUME NEW p, IsPoll(p), NEW left
    PROVE  LET n == Noted(p, left)
           IN  /\ n # None
               /\ n.offset = p.offset /\ n.got = p.got /\ n.stayed = p.stayed \ left
               /\ n.shrunk <=> p.shrunk \/ left # {}
<1>1. PollIs(p) /\ p # None
  BY PollType, NoneIsNoPoll
<1> DEFINE stayed == p.stayed \ left
           n == Noted(p, left)
<1>2. n = [p EXCEPT !.stayed = stayed, !.shrunk = p.shrunk \/ left # {}]
  BY <1>1 DEF Noted
<1>3. n = [offset |-> p.offset, got |-> p.got, stayed |-> stayed, shrunk |-> p.shrunk \/ left # {}]
  <2> HIDE DEF n, stayed
  <2> QED BY <1>1, <1>2 DEF PollIs
<1>4. n # None
  <2>1. n = None \/ IsPoll(n)
    BY NotedType
  <2> HIDE DEF n
  <2>2. n.offset = p.offset
    BY <1>3
  <2>3. PollIs(n)
    <3>1. (p.shrunk \/ left # {}) \in BOOLEAN /\ stayed \subseteq Devices
      BY <1>1 DEF PollIs
    <3> HIDE DEF stayed
    <3> QED BY <1>1, <1>3, <3>1 DEF PollIs
  <2> QED BY <2>3, PollType, NoneIsNoPoll
<1> HIDE DEF n, stayed
<1>5. /\ n.offset = p.offset /\ n.got = p.got /\ n.stayed = stayed
      /\ n.shrunk <=> p.shrunk \/ left # {}
  BY <1>3
<1> QED BY <1>4, <1>5 DEF n, stayed

LEMMA PagesStep == TypeOK /\ PagesInvariant /\ [Next]_vars => PagesInvariant'
<1> SUFFICES ASSUME TypeOK, PagesInvariant, [Next]_vars PROVE PagesInvariant'
  OBVIOUS
<1>1. ASSUME UNCHANGED poll, UNCHANGED listed PROVE PagesInvariant'
  BY <1>1 DEF PagesInvariant, InAccount
<1>2. ASSUME poll' = None PROVE PagesInvariant'
  BY <1>2 DEF PagesInvariant
<1>3. ASSUME poll' = Polling, UNCHANGED listed PROVE PagesInvariant'
  <2>1. poll'.offset = 0 /\ poll'.stayed = InAccount /\ InAccount' = InAccount
    BY <1>3 DEF Polling, InAccount
  <2>2. \A place \in DOMAIN listed' : ~ (place <= poll'.offset)
    <3>1. \A place \in DOMAIN listed : ~ (place <= 0)
      BY DEF TypeOK, DevicesTypeOK
    <3> QED BY <1>3, <2>1, <3>1
  <2> QED BY <2>1, <2>2 DEF PagesInvariant
<1>4. listed \in Seq(Devices) /\ IsInjective(listed)
  BY DEF TypeOK, DevicesTypeOK
<1>5. poll # None => IsPoll(poll) /\ PollIs(poll)
  BY PollType DEF TypeOK, DevicesTypeOK
<1>6. CASE Joins
  <2>1. PICK d \in Devices \ InAccount :
            (\E place \in 1..Len(listed) + 1 : listed' = InsertAt(listed, place, d)) /\ UNCHANGED sync
    BY <1>6 DEF Joins
  <2>2. PICK place \in 1..Len(listed) + 1 : listed' = InsertAt(listed, place, d)
    BY <2>1
  <2>3. /\ listed' \in Seq(Devices) /\ ToSet(listed') = InAccount \cup {d}
        /\ Len(listed') = Len(listed) + 1 /\ listed'[place] = d
        /\ \A i \in 1..place - 1 : listed'[i] = listed[i]
        /\ \A i \in place + 1..Len(listed) + 1 : listed'[i] = listed[i - 1]
    <3>1. d \in Devices \ ToSet(listed)
      BY DEF InAccount
    <3> QED BY <1>4, <2>2, <3>1, InsertIs DEF InAccount
  <2>4. poll' = poll
    BY <2>1 DEF sync
  <2> SUFFICES ASSUME poll # None
               PROVE  /\ poll.stayed \subseteq InAccount'
                      /\ ~ poll.shrunk =>
                             \A p \in DOMAIN listed' :
                                 p <= poll.offset /\ listed'[p] \in poll.stayed
                                     => listed'[p] \in DOMAIN poll.got
    BY <2>4 DEF PagesInvariant
  <2>5. poll.stayed \subseteq InAccount /\ InAccount' = InAccount \cup {d}
    BY <2>3 DEF PagesInvariant, InAccount
  <2>6. ASSUME ~ poll.shrunk, NEW p \in DOMAIN listed', p <= poll.offset, listed'[p] \in poll.stayed
        PROVE  listed'[p] \in DOMAIN poll.got
    <3>1. PICK offset \in Nat : offset = poll.offset
      BY <1>5 DEF PollIs
    <3>2. PICK len \in Nat : len = Len(listed)
      BY <1>4
    <3>3. p \in 1..len + 1 /\ DOMAIN listed = 1..len /\ place \in 1..len + 1 /\ p <= offset
      BY <1>4, <2>3, <2>6, <3>1, <3>2
    <3>4. \A i \in DOMAIN listed : i <= offset /\ listed[i] \in poll.stayed => listed[i] \in DOMAIN poll.got
      BY <2>6, <3>1 DEF PagesInvariant
    <3>5. p # place
      BY <2>1, <2>3, <2>5, <2>6
    <3>6. CASE p < place
      <4>1. listed'[p] = listed[p] /\ p \in DOMAIN listed
        BY <2>3, <3>3, <3>6
      <4> QED BY <2>6, <3>3, <3>4, <4>1
    <3>7. CASE p > place
      <4>1. listed'[p] = listed[p - 1] /\ p - 1 \in DOMAIN listed /\ p - 1 <= offset
        BY <2>3, <3>2, <3>3, <3>7
      <4> QED BY <2>6, <3>4, <4>1
    <3> QED BY <3>3, <3>5, <3>6, <3>7
  <2> QED BY <2>5, <2>6
<1>7. CASE Leaves
  <2>1. PICK place \in DOMAIN listed : listed' = RemoveAt(listed, place) /\ poll' = Noted(poll, {listed[place]})
    BY <1>7 DEF Leaves
  <2>2. ToSet(listed') = InAccount \ {listed[place]}
    BY <1>4, <2>1, RemoveIs DEF InAccount
  <2>3. CASE poll = None
    BY <1>2, <2>1, <2>3 DEF Noted
  <2>4. CASE poll # None
    <3>1. poll'.stayed = poll.stayed \ {listed[place]} /\ poll'.shrunk
      BY <1>5, <2>1, <2>4, NotedIs
    <3> QED BY <2>2, <2>4, <3>1 DEF PagesInvariant, InAccount
  <2> QED BY <2>3, <2>4
<1>8. CASE DeviceChanges
  BY <1>1, <1>8 DEF DeviceChanges, sync
<1>9. CASE SetupBegins \/ PollBegins
  BY <1>3, <1>9 DEF SetupBegins, SetupStarts, PollBegins, PollStarts, bold
<1>10. CASE PageFollows
  <2> DEFINE got == WithPage(poll.got, Page)
             end == poll.offset + PageSize
  <2>1. poll # None /\ poll' = [poll EXCEPT !.offset = end, !.got = got] /\ listed' = listed
    BY <1>10 DEF PageFollows, PageArrives, bold
  <2>2. DOMAIN got = DOMAIN poll.got \cup ToSet(Page)
    BY <2>1, WithPageIs
  <2>3. \A p \in DOMAIN listed : poll.offset < p /\ p <= end => listed[p] \in ToSet(Page)
    BY <2>1, PageIs
  <2> HIDE DEF got
  <2>4. /\ poll'.offset = end /\ poll'.got = got
        /\ poll'.stayed = poll.stayed /\ poll'.shrunk = poll.shrunk
    <3> HIDE DEF end
    <3> QED BY <1>5, <2>1 DEF PollIs
  <2>5. \A p \in DOMAIN listed : p <= poll.offset \/ poll.offset < p
    <3>1. poll.offset \in Nat /\ DOMAIN listed = 1..Len(listed)
      BY <1>4, <1>5, <2>1 DEF PollIs
    <3> QED BY <3>1
  <2>6. InAccount' = InAccount
    BY <2>1 DEF InAccount
  <2> HIDE DEF end
  <2> QED BY <2>1, <2>2, <2>3, <2>4, <2>5, <2>6 DEF PagesInvariant
<1>11. CASE DevicesArrive \/ Unload
  BY <1>2, <1>11 DEF DevicesArrive, PollSucceeds, Unload, Unloads
<1>12. CASE RequestFails
  <2>1. CASE PollFails
    BY <1>2, <2>1 DEF PollFails
  <2>2. CASE SetupFails
    BY <1>1, <2>2 DEF SetupFails, bold
  <2> QED BY <1>12, <2>1, <2>2 DEF RequestFails
<1>13. CASE AddEntities \/ SetUp
  BY <1>1, <1>13 DEF AddEntities, EntitiesAdded, SetUp, SetupEnds, bold
<1>14. CASE \/ TokensRefreshed \/ OtherAccountPolls \/ LinkLock \/ Relink \/ Unlink \/ SensorMoved
            \/ UNCHANGED vars
  BY <1>1, <1>14 DEF TokensRefreshed, OtherAccountPolls, LinkLock, Relink, Unlink, UserLinks, SensorMoved,
                     vars, bold, sync
<1>15. CASE SensorRenamed \/ LockRenamed \/ SensorStatus
  BY <1>1, <1>15 DEF SensorRenamed, LockRenamed, SensorStatus, StateChanges, bold, sync
<1> QED BY <1>6, <1>7, <1>8, <1>9, <1>10, <1>11, <1>12, <1>13, <1>14, <1>15
        DEF Next, BoldChanges, Reload, UserReloads

LEMMA PagesKept == Spec => []PagesInvariant
<1>1. Init => PagesInvariant
  BY DEF Init, DevicesInit, PagesInvariant
<1> QED BY <1>1, PagesStep, EntryTypeCorrect, PTL DEF Spec

\* A poll that succeeds found every device that stayed, if none left meanwhile.
LEMMA LastPageFinds ==
    ASSUME TypeOK, PagesInvariant, PollSucceeds, ~ poll.shrunk
    PROVE  poll.stayed \subseteq DOMAIN data'
<1>1. poll # None /\ IsLast(Page)
  BY DEF PollSucceeds
<1>2. DOMAIN data' = DOMAIN poll.got \cup ToSet(Page)
  BY SucceedsIs
<1> SUFFICES ASSUME NEW d \in poll.stayed PROVE d \in DOMAIN poll.got \cup ToSet(Page)
  BY <1>2
<1>3. PICK p \in DOMAIN listed : listed[p] = d
  BY <1>1 DEF PagesInvariant, InAccount, ToSet
<1>4. PICK offset \in Nat : offset = poll.offset
  BY <1>1, PollType DEF PollIs, TypeOK, DevicesTypeOK
<1>5. PICK len \in Nat : len = Len(listed) /\ DOMAIN listed = 1..len
  BY DEF TypeOK, DevicesTypeOK
<1>6. len < offset + PageSize /\ PageSize \in Nat
  BY <1>1, <1>4, <1>5, PageIs, PagesHoldDevices
<1>7. CASE p <= offset
  BY <1>1, <1>3, <1>4, <1>7 DEF PagesInvariant
<1>8. CASE p > offset
  <2>1. p <= offset + PageSize /\ offset < p
    BY <1>5, <1>6, <1>8
  <2>2. listed[p] \in ToSet(Page)
    BY <1>1, <1>4, <2>1, PageIs
  <2> QED BY <1>3, <2>2
<1> QED BY <1>5, <1>7, <1>8

\* A device that stayed in the account all through a poll is found by it, unless
\* one left.
THEOREM PollsFindAll == Spec => FoundThroughout
<1>1. TypeOK /\ PagesInvariant /\ DevicesInvariant /\ [Next]_vars
          => (Succeeds /\ ~ poll.shrunk => poll.stayed \subseteq DOMAIN data')
  <2> SUFFICES ASSUME TypeOK, PagesInvariant, DevicesInvariant, [Next]_vars, Succeeds, ~ poll.shrunk
               PROVE  poll.stayed \subseteq DOMAIN data'
    OBVIOUS
  <2>1. /\ poll # None /\ poll' = None /\ entry' # "down" /\ success'
        /\ IsPoll(poll) /\ (entry = "setup" \/ entry = "loaded")
    BY DEF Succeeds, DevicesInvariant, PollsWhileUp, TypeOK, DevicesTypeOK
  <2>2. CASE PollSucceeds
    BY <2>2, LastPageFinds
  <2>3. ~ Joins /\ ~ Leaves /\ ~ DeviceChanges
    <3>1. ~ Leaves
      BY <2>1, NotedIs DEF Leaves
    <3> QED BY <2>1, <3>1 DEF Joins, DeviceChanges, sync
  <2>4. /\ ~ SetupStarts /\ ~ PollStarts /\ ~ EntitiesAdded /\ ~ SetupEnds /\ ~ SetupFails
        /\ ~ PollFails /\ ~ Unloads
    BY <2>1 DEF SetupStarts, PollStarts, EntitiesAdded, SetupEnds, SetupFails, PollFails, Unloads
  <2>5. ~ PageArrives
    <3> SUFFICES ASSUME PageArrives PROVE FALSE
      OBVIOUS
    <3>1. TypeOK'
      BY TypeStep
    <3> DEFINE offset == poll.offset + PageSize
               got == WithPage(poll.got, Page)
    <3>2. poll' = [poll EXCEPT !.offset = offset, !.got = got]
      BY DEF PageArrives
    <3>3. PollIs(poll) /\ offset \in Nat /\ OfSome(got, Profile)
      BY <2>1, PollType, WithPageIs, PagesHoldDevices DEF PollIs
    <3> HIDE DEF offset, got
    <3>4. /\ poll' = [offset |-> offset, got |-> got, stayed |-> poll.stayed, shrunk |-> poll.shrunk]
      BY <3>2, <3>3 DEF PollIs
    <3>5. PollIs(poll')
      BY <3>3, <3>4 DEF PollIs
    <3> QED BY <2>1, <3>5, PollType, NoneIsNoPoll
  <2>6. UNCHANGED poll => FALSE
    BY <2>1
  <2>7. ~ TokensRefreshed /\ ~ OtherAccountPolls /\ ~ LinkLock /\ ~ Relink /\ ~ Unlink /\ ~ SensorMoved /\ ~ UNCHANGED vars
    BY <2>6 DEF TokensRefreshed, OtherAccountPolls, LinkLock, Relink, Unlink, UserLinks, SensorMoved, vars, sync
  <2>8. ~ SensorRenamed /\ ~ LockRenamed /\ ~ SensorStatus
    BY <2>6 DEF SensorRenamed, LockRenamed, SensorStatus, StateChanges, sync
  <2> QED BY <2>2, <2>3, <2>4, <2>5, <2>7, <2>8
          DEF Next, BoldChanges, SetupBegins, PollBegins, PageFollows, DevicesArrive, RequestFails,
              AddEntities, SetUp, Reload, UserReloads, Unload
<1>2. [Next]_vars => [Next]_vars
  OBVIOUS
<1> QED BY <1>1, EntryTypeCorrect, PagesKept, DevicesKept, PTL DEF Spec, FoundThroughout

-----------------------------------------------------------------------------
(* The Connect of a lock                                                   *)

\* A lock that gets its entities is one of the data's.
LEMMA AddLinks ==
    ASSUME NEW h, IsHome(h), NEW devices, OfSome(devices, Profile),
           {d \in DOMAIN devices : IsGateway(d)} \subseteq h.connects,
           NEW l \in Locks, h.entities[l] = {}, AddNewEntities(h, devices).entities[l] # {},
           devices[l].gateway \in DOMAIN devices
    PROVE  AddNewEntities(h, devices).registry[l].via = devices[l].gateway
<1> DEFINE a == AddNewEntities(h, devices)
           new == Wanted(l, devices[l]) \ Before(h, devices, l)
<1>1. a.entities[l] = IF l \in DOMAIN devices THEN h.entities[l] \cup new ELSE h.entities[l]
  <2>1. l \in Devices
    BY DEF Devices
  <2> QED BY <2>1, AddIs
<1> HIDE DEF new
<1>2. l \in DOMAIN devices /\ new # {}
  <2>1. a.entities[l] # {} /\ h.entities[l] = {}
    OBVIOUS
  <2> HIDE DEF a
  <2> QED BY <1>1, <2>1
<1>3. l \in Gaining(h, devices)
  BY <1>2 DEF Gaining, new
<1>4. devices[l] \in Profile /\ DOMAIN devices \subseteq Devices
  BY <1>2, SomeType
<1>5. /\ devices[l].gateway \in Connects /\ devices[l].gateway # l
      /\ devices[l].gateway \in h.connects
  <2>1. devices[l].gateway \in Connects
    BY <1>4, NoneIsNoDevice DEF Profile, Devices
  <2> QED BY <2>1, LocksAreNoConnects DEF IsGateway
<1>6. Via(h, l, devices[l]) = devices[l].gateway /\ devices[l].gateway # None
  BY <1>5, NoneIsNoDevice DEF Via, Devices
<1> QED BY <1>3, <1>6, AddIs

\* A poll that fails, and lets the platforms look at the same data once more,
\* adds nothing.
LEMMA AddsNothing ==
    ASSUME TypeOK, DevicesInvariant, entry = "loaded"
    PROVE  AddNewEntities(home, data).entities = home.entities
<1> DEFINE a == AddNewEntities(home, data)
           wanted(d) == Wanted(d, data[d])
           before(d) == Before(home, data, d)
<1>1. IsHome(home) /\ OfSome(data, Profile) /\ IsHome(a)
  BY AddIs DEF TypeOK, DevicesTypeOK
<1>2. \A d \in Devices :
          a.entities[d] = IF d \in DOMAIN data THEN home.entities[d] \cup (wanted(d) \ before(d))
                          ELSE home.entities[d]
  BY <1>1, AddIs
<1>3. \A d \in DOMAIN data : wanted(d) \subseteq home.entities[d]
  BY DEF DevicesInvariant, DevicesShown, Added
<1> HIDE DEF a, wanted, before
<1>4. \A d \in Devices : a.entities[d] = home.entities[d]
  BY <1>2, <1>3
<1>5. a.entities \in [Devices -> SUBSET Kinds] /\ home.entities \in [Devices -> SUBSET Kinds]
  BY <1>1, HomeType DEF HomeIs
<1>6. a.entities = home.entities
  BY <1>4, <1>5
<1> QED BY <1>6 DEF a

\* A lock that gets its entities is linked to its Connect, though both may be
\* new in the same poll.
THEOREM LocksAreLinked == Spec => LinkedToConnect
<1>1. ASSUME TypeOK, DevicesInvariant, [Next]_vars, NEW l \in Locks,
             home.entities[l] = {}, home'.entities[l] # {}, data'[l].gateway \in DOMAIN data'
      PROVE  home'.registry[l].via = data'[l].gateway
  <2>1. IsHome(home) /\ OfSome(data, Profile) /\ l \in Devices
    BY <1>1 DEF TypeOK, DevicesTypeOK, Devices
  <2>2. home' # home
    BY <1>1
  <2>3. home' # Fresh(home)
    <3>1. home'.entities # [d \in Devices |-> {}]
      BY <1>1, <2>1
    <3> QED BY <2>1, <3>1, FreshIs
  <2>4. CASE PollSucceeds
    <3> DEFINE synced == Sync(home, data')
               new == data'
    <3>1. /\ OfSome(new, Profile) /\ IsHome(synced)
          /\ {d \in DOMAIN new : IsGateway(d)} \subseteq synced.connects
          /\ synced.entities = Among(home.entities, DOMAIN new)
      BY <1>1, <2>1, <2>4, SucceedsIs, SyncIs
    <3> HIDE DEF synced
    <3>2. synced.entities[l] = {}
      BY <1>1, <2>1, <3>1 DEF Among
    <3>3. home' = AddNewEntities(synced, new)
      BY <1>1, <2>4, <3>2 DEF PollSucceeds, synced
    <3> HIDE DEF new
    <3>4. new[l].gateway \in DOMAIN new
      BY <1>1 DEF new
    <3>5. home'.registry[l].via = new[l].gateway
      BY <1>1, <3>1, <3>2, <3>3, <3>4, AddLinks
    <3> QED BY <3>5 DEF new
  <2>5. CASE EntitiesAdded
    <3>1. home' = AddNewEntities(home, data) /\ data' = data /\ entry = "starting"
      BY <2>5 DEF EntitiesAdded
    <3>2. {d \in DOMAIN data : IsGateway(d)} \subseteq home.connects
      BY <1>1, <3>1 DEF DevicesInvariant, SyncedFirst
    <3> QED BY <1>1, <2>1, <3>1, <3>2, AddLinks
  <2>6. CASE PollFails
    <3>1. entry = "loaded" /\ home' = AddNewEntities(home, data)
      BY <1>1, <2>2, <2>6 DEF PollFails, DevicesInvariant, PollsWhileUp
    <3> QED BY <1>1, <3>1, AddsNothing
  <2>7. ~ Joins /\ ~ Leaves /\ ~ DeviceChanges
    BY <2>2 DEF Joins, Leaves, DeviceChanges, sync
  <2>8. ~ SetupStarts /\ ~ PollStarts /\ ~ PageArrives /\ ~ SetupEnds /\ ~ SetupFails /\ ~ Unloads
    BY <2>2, <2>3 DEF SetupStarts, PollStarts, PageArrives, SetupEnds, SetupFails, Unloads
  <2>9. /\ ~ TokensRefreshed /\ ~ OtherAccountPolls /\ ~ LinkLock /\ ~ Relink /\ ~ Unlink /\ ~ SensorMoved
        /\ ~ UNCHANGED vars
    BY <2>2 DEF TokensRefreshed, OtherAccountPolls, LinkLock, Relink, Unlink, UserLinks, SensorMoved, vars, sync
  <2>10. ~ SensorRenamed /\ ~ LockRenamed /\ ~ SensorStatus
    BY <2>2 DEF SensorRenamed, LockRenamed, SensorStatus, StateChanges, sync
  <2> QED BY <1>1, <2>4, <2>5, <2>6, <2>7, <2>8, <2>9, <2>10
          DEF Next, BoldChanges, SetupBegins, PollBegins, PageFollows, DevicesArrive, RequestFails,
              AddEntities, SetUp, Reload, UserReloads, Unload
<1>2. TypeOK /\ DevicesInvariant /\ [Next]_vars =>
        \A l \in Locks :
            /\ home.entities[l] = {} /\ home'.entities[l] # {}
            /\ data'[l].gateway \in DOMAIN data'
            => home'.registry[l].via = data'[l].gateway
  BY <1>1
<1> QED BY <1>2, EntryTypeCorrect, DevicesKept, PTL DEF Spec, LinkedToConnect

-----------------------------------------------------------------------------
(* The links' titles                                                       *)

\* The links with the names there are, by the entity IDs they are followed by.
LEMMA TitlesStep == TypeOK /\ DevicesInvariant /\ TitlesInvariant /\ [Next]_vars => TitlesInvariant'
<1> SUFFICES ASSUME TypeOK, DevicesInvariant, TitlesInvariant, [Next]_vars PROVE TitlesInvariant'
  OBVIOUS
<1> USE DEF TitlesInvariant, TitlesFollow, FollowedByItsId, Followed
<1>1. ASSUME entry' # "loaded" PROVE TitlesInvariant'
  BY <1>1
<1>2. /\ OfLocks(links, Link) /\ OfLocks(followed, FollowedLink)
      /\ sensor \in [Sensors -> Sensor] /\ lockName \in [Locks -> Names]
  BY DEF TypeOK, FollowedLink
<1>3. /\ DOMAIN links \subseteq Locks /\ DOMAIN followed \subseteq Locks
      /\ \A l \in DOMAIN links : links[l].sensor \in Sensors
      /\ \A l \in DOMAIN followed : followed[l].sensor \in Sensors
  BY <1>2 DEF OfLocks, Link, FollowedLink
\* The same entities, sensors, names and links.
<1>4. ASSUME UNCHANGED <<entry, links, followed, registries>>, WithState(home') = WithState(home),
             ~ reloadDue' => ~ reloadDue
      PROVE  TitlesInvariant'
  BY <1>4 DEF registries, HasState
<1>5. ASSUME UNCHANGED <<sync, links, followed, registries>>, ~ reloadDue' => ~ reloadDue
      PROVE  TitlesInvariant'
  BY <1>4, <1>5 DEF sync
<1>6. CASE BoldChanges
  <2>1. UNCHANGED <<entry, home>>
    BY <1>6 DEF BoldChanges, Joins, Leaves, DeviceChanges, sync
  <2> QED BY <1>4, <1>6, <2>1 DEF BoldChanges, door, runtime
<1>7. CASE SetupBegins
  BY <1>1, <1>7 DEF SetupBegins, SetupStarts
<1>8. CASE PollBegins \/ PageFollows
  BY <1>4, <1>8 DEF PollBegins, PollStarts, PageFollows, PageArrives, door, runtime
<1>9. CASE Unload
  BY <1>1, <1>9 DEF Unload, Unloads
<1>10. CASE TokensRefreshed \/ OtherAccountPolls
  BY <1>5, <1>10 DEF TokensRefreshed, OtherAccountPolls, runtime
<1>11. CASE UNCHANGED vars
  BY <1>5, <1>11 DEF vars, door, runtime
<1>12. CASE RequestFails
  <2>1. CASE SetupFails \/ entry = "setup"
    BY <1>1, <1>12, <2>1 DEF RequestFails, SetupFails, PollFails
  <2>2. CASE PollFails /\ entry # "setup"
    <3>1. entry = "loaded" /\ entry' = entry
      BY <2>2 DEF PollFails, DevicesInvariant, PollsWhileUp
    <3>2. home' = home \/ home' = AddNewEntities(home, data)
      BY <2>2 DEF PollFails
    <3>3. home'.entities = home.entities
      BY <3>1, <3>2, AddsNothing
    <3> QED BY <1>4, <1>12, <3>1, <3>3 DEF RequestFails, WithState
  <2> QED BY <1>12, <2>1, <2>2 DEF RequestFails
<1>13. CASE DevicesArrive
  <2> DEFINE shown == WithState(home') \ WithState(home)
             ls == Retitled(links, followed, shown, sensor, lockName)
  <2>1. /\ UNCHANGED <<followed, registries>> /\ links' = ls
        /\ ~ reloadDue' => ~ reloadDue
    BY <1>13 DEF DevicesArrive, Update
  <2>2. SUFFICES ASSUME entry' = "loaded", ~ reloadDue' PROVE TitlesInvariant'
    BY <1>1
  <2>3. entry = "loaded"
    BY <1>13, <2>2 DEF DevicesArrive, PollSucceeds
  <2>4. /\ DOMAIN ls = DOMAIN links
        /\ \A l \in DOMAIN links :
               /\ ls[l].sensor = links[l].sensor
               /\ ls[l].title = IF Titled(l, followed, shown, sensor)
                                THEN [lock |-> lockName[l], door |-> sensor[followed[l].sensor].name]
                                ELSE links[l].title
    BY <1>2, RetitledIs
  <2> HIDE DEF ls
  <2>5. \A l \in Followed' : l \in Followed /\ HasState(l)' /\ sensor[links[l].sensor].status = "ok"
            => links'[l].title = [lock |-> lockName[l], door |-> sensor[links[l].sensor].name]
    <3> SUFFICES ASSUME NEW l \in Followed, HasState(l)', sensor[links[l].sensor].status = "ok"
                 PROVE  ls[l].title = [lock |-> lockName[l], door |-> sensor[links[l].sensor].name]
      BY <2>1
    <3>1. CASE HasState(l)
      BY <2>1, <2>2, <2>3, <2>4, <3>1 DEF Titled, HasState
    <3>2. CASE ~ HasState(l)
      <4>1. Titled(l, followed, shown, sensor)
        BY <2>1, <2>2, <2>3, <3>2 DEF Titled, HasState
      <4> QED BY <2>4, <4>1
    <3> QED BY <3>1, <3>2
  <2>6. Followed' = Followed
    BY <2>1, <2>4
  <2> QED BY <2>1, <2>2, <2>3, <2>4, <2>5, <2>6 DEF registries
<1>24. CASE AddEntities
  BY <1>1, <1>24 DEF AddEntities, EntitiesAdded
<1>14. CASE SetUp
  <2>1. /\ UNCHANGED <<registries, home>> /\ followed' = Found(home')
        /\ links' = Retitled(links, followed', WithState(home'), sensor, lockName)
    BY <1>14 DEF SetUp, SetupEnds
  <2> DEFINE found == followed'
  <2>2. /\ OfLocks(found, FollowedLink)
        /\ \A l \in DOMAIN found : found[l].id = sensor[found[l].sensor].id
    BY <2>1, FoundIs
  <2>3. /\ DOMAIN links' = DOMAIN links
        /\ \A l \in DOMAIN links :
               /\ links'[l].sensor = links[l].sensor
               /\ links'[l].title = IF Titled(l, found, WithState(home'), sensor)
                                    THEN [lock |-> lockName[l], door |-> sensor[found[l].sensor].name]
                                    ELSE links[l].title
    <3> HIDE DEF found
    <3>1. links' = Retitled(links, found, WithState(home'), sensor, lockName)
      BY <2>1 DEF found
    <3> QED BY <1>2, <2>2, <3>1, RetitledIs
  <2>4. FollowedByItsId'
    BY <2>1, <2>2 DEF registries
  <2>5. TitlesFollow'
    BY <2>1, <2>2, <2>3 DEF registries, Titled, HasState
  <2> QED BY <2>4, <2>5
\* A link is made or changed with the names there are, or removed.
<1>15. ASSUME UserLinks, NEW ls, Update(ls),
              \A l \in DOMAIN ls :
                  \/ l \in DOMAIN links /\ ls[l] = links[l]
                  \/ HasState(l) => ls[l].title = [lock |-> lockName[l], door |-> sensor[ls[l].sensor].name]
       PROVE  TitlesInvariant'
  <2>1. UNCHANGED <<sync, followed, registries>> /\ links' = ls /\ (~ reloadDue' => ~ reloadDue)
    BY <1>15 DEF UserLinks, runtime, Update
  <2> QED BY <1>15, <2>1 DEF registries, sync, HasState
<1>16. CASE LinkLock
  <2>1. PICK l \in (Locks \cap DOMAIN data) \ DOMAIN links, s \in Sensors :
            Update([k \in DOMAIN links \cup {l} |->
                       IF k # l THEN links[k]
                       ELSE [sensor |-> s, title |-> [lock |-> LockName(l, None), door |-> sensor[s].name]]])
    BY <1>16 DEF LinkLock
  <2> QED BY <1>15, <1>16, <2>1 DEF LinkLock, LockName
<1>17. CASE Relink
  <2>1. PICK l \in DOMAIN links, s \in Sensors :
            Update([links EXCEPT ![l] = [sensor |-> s,
                                         title |-> [lock |-> LockName(l, @.title.lock), door |-> sensor[s].name]]])
    BY <1>17 DEF Relink
  <2> QED BY <1>15, <1>17, <2>1 DEF Relink, LockName
<1>18. CASE Unlink
  <2>1. PICK l \in DOMAIN links : Update(Restrict(links, DOMAIN links \ {l}))
    BY <1>18 DEF Unlink
  <2> QED BY <1>15, <1>18, <2>1 DEF Unlink, Restrict
\* The links of a lock or a sensor whose state changes are given the new names.
<1>19. ASSUME NEW locks, NEW sensors \in [Sensors -> Sensor], NEW names \in [Locks -> Names],
              StateChanges(locks, sensors, names),
              \A s \in Sensors : sensors[s].id = sensor[s].id,
              \A l \in DOMAIN followed \ locks :
                  sensors[followed[l].sensor] = sensor[followed[l].sensor] /\ names[l] = lockName[l]
       PROVE  TitlesInvariant'
  <2> DEFINE shown == locks \cap WithState(home)
             ls == Retitled(links, followed, shown, sensors, names)
  <2>1. /\ UNCHANGED <<sync, followed>> /\ sensor' = sensors /\ lockName' = names /\ links' = ls
        /\ ~ reloadDue' => ~ reloadDue
    BY <1>19 DEF StateChanges, Update, runtime
  <2>2. UNCHANGED <<entry, home>>
    BY <2>1 DEF sync
  <2>3. /\ DOMAIN ls = DOMAIN links
        /\ \A l \in DOMAIN links :
               /\ ls[l].sensor = links[l].sensor
               /\ ls[l].title = IF Titled(l, followed, shown, sensors)
                                THEN [lock |-> names[l], door |-> sensors[followed[l].sensor].name]
                                ELSE links[l].title
    <3>1. OfLocks(links, Link) /\ OfLocks(followed, FollowedLink)
      BY <1>2
    <3> HIDE DEF shown
    <3> QED BY <3>1, RetitledIs
  <2> HIDE DEF ls
  <2>4. FollowedByItsId'
    BY <1>3, <1>19, <2>1, <2>2
  <2>5. TitlesFollow'
    <3> SUFFICES ASSUME entry = "loaded", ~ reloadDue, NEW l \in Followed, HasState(l),
                        sensors[links[l].sensor].status = "ok"
                 PROVE  ls[l].title = [lock |-> names[l], door |-> sensors[links[l].sensor].name]
      BY <2>1, <2>2, <2>3 DEF HasState
    <3>1. CASE l \in locks
      <4>1. Titled(l, followed, shown, sensors)
        BY <1>3, <1>19, <3>1 DEF Titled, HasState
      <4> QED BY <2>3, <4>1
    <3>2. CASE l \notin locks
      <4>1. ~ Titled(l, followed, shown, sensors)
        BY <3>2 DEF Titled
      <4> QED BY <1>19, <2>3, <3>2, <4>1
    <3> QED BY <3>1, <3>2
  <2> QED BY <2>4, <2>5
<1> HIDE DEF TitlesInvariant, TitlesFollow, FollowedByItsId, Followed
<1>20. CASE SensorRenamed
  <2>1. PICK s \in Sensors, n \in Names : StateChanges(Of(s), [sensor EXCEPT ![s].name = n], lockName)
    BY <1>20 DEF SensorRenamed
  <2> DEFINE sensors == [sensor EXCEPT ![s].name = n]
  <2>2. /\ sensors \in [Sensors -> Sensor] /\ \A t \in Sensors : sensors[t].id = sensor[t].id
        /\ \A t \in Sensors \ {s} : sensors[t] = sensor[t]
    BY <1>2 DEF Sensor
  <2> HIDE DEF sensors
  <2>3. StateChanges(Of(s), sensors, lockName)
    BY <2>1 DEF sensors
  <2>4. \A l \in DOMAIN followed \ Of(s) : sensors[followed[l].sensor] = sensor[followed[l].sensor]
    BY <1>3, <2>2 DEF Of
  <2> QED BY <1>2, <1>19, <2>2, <2>3, <2>4
<1>21. CASE LockRenamed
  <2>1. PICK l \in WithState(home), n \in Names : StateChanges({l}, sensor, [lockName EXCEPT ![l] = n])
    BY <1>21 DEF LockRenamed
  <2>2. [lockName EXCEPT ![l] = n] \in [Locks -> Names] /\ \A k \in Locks \ {l} : [lockName EXCEPT ![l] = n][k] = lockName[k]
    BY <1>2
  <2> QED BY <1>2, <1>3, <1>19, <2>1, <2>2
<1>22. CASE SensorStatus
  <2>1. PICK s \in Sensors, status \in {"ok", "disabled", "deleted"} :
            StateChanges(Of(s), [sensor EXCEPT ![s].status = status], lockName)
    BY <1>22 DEF SensorStatus
  <2> DEFINE sensors == [sensor EXCEPT ![s].status = status]
  <2>2. /\ sensors \in [Sensors -> Sensor] /\ \A t \in Sensors : sensors[t].id = sensor[t].id
        /\ \A t \in Sensors \ {s} : sensors[t] = sensor[t]
    BY <1>2 DEF Sensor
  <2> HIDE DEF sensors
  <2>3. StateChanges(Of(s), sensors, lockName)
    BY <2>1 DEF sensors
  <2>4. \A l \in DOMAIN followed \ Of(s) : sensors[followed[l].sensor] = sensor[followed[l].sensor]
    BY <1>3, <2>2 DEF Of
  <2> QED BY <1>2, <1>19, <2>2, <2>3, <2>4
<1>23. CASE SensorMoved
  <2>1. PICK s \in Sensors : sensor' = [sensor EXCEPT ![s].id = @ + 1] /\ reloadDue' = (reloadDue \/ Of(s) # {})
    BY <1>23 DEF SensorMoved, EntityIdChanged
  <2>2. /\ \A t \in Sensors \ {s} : sensor'[t] = sensor[t]
        /\ \A t \in Sensors : sensor'[t].name = sensor[t].name /\ sensor'[t].status = sensor[t].status
    BY <1>2, <2>1 DEF Sensor
  <2>3. UNCHANGED <<entry, home, links, followed, lockName>>
    BY <1>23 DEF SensorMoved, sync, runtime
  <2>4. ~ reloadDue' => ~ reloadDue /\ \A l \in DOMAIN followed : followed[l].sensor # s
    BY <2>1 DEF Of
  <2>5. FollowedByItsId'
    BY <1>3, <2>2, <2>3, <2>4 DEF TitlesInvariant, FollowedByItsId
  <2>6. TitlesFollow'
    BY <1>3, <2>2, <2>3, <2>4 DEF TitlesInvariant, TitlesFollow, Followed, HasState
  <2> QED BY <2>5, <2>6 DEF TitlesInvariant
<1> QED BY <1>6, <1>7, <1>8, <1>9, <1>10, <1>11, <1>12, <1>13, <1>14, <1>16, <1>17, <1>18, <1>20, <1>21,
           <1>22, <1>23, <1>24 DEF Next, Reload, UserReloads

\* A link that is followed has the names its lock and its sensor have now.
THEOREM LinksAreTitled == Spec => []TitlesFollow
<1>1. Init => TitlesInvariant
  BY DEF Init, DevicesInit, TitlesInvariant, TitlesFollow, FollowedByItsId
<1>2. TitlesInvariant => TitlesFollow
  BY DEF TitlesInvariant
<1> QED BY <1>1, <1>2, TitlesStep, EntryTypeCorrect, DevicesKept, PTL DEF Spec
=============================================================================
