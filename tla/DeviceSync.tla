------------------------------ MODULE DeviceSync ------------------------------
(***************************************************************************)
(* The devices of a Bold account, from Bold's paged list of them to Home   *)
(* Assistant's registries: BoldClient.get_devices, BoldDeviceCoordinator,  *)
(* _async_sync_devices and async_add_device_entities, which the platforms  *)
(* call with what each device wants.  Devices join, leave and change at    *)
(* any time, also between two pages of a poll.                             *)
(*                                                                         *)
(* What the integration and the registries hold is one record, `home`,     *)
(* that the two listeners of the device coordinator change one after the   *)
(* other.  Adding an entity is atomic here, and one that is disabled counts *)
(* as added.  DoorLinks goes on from here: it has the links of locks to    *)
(* door sensors, the repair issues, and the next-state relation.           *)
(***************************************************************************)
EXTENDS Integers, FiniteSets, Functions, SequencesExt

CONSTANTS
    Locks, Connects,    \* the account's devices, now or later
    PageSize,           \* how many Bold lists at a time
    Settings,           \* the accounts and hazards to explore: see Setting
    None

Devices == Locks \cup Connects

\* BoldDevice: a Bold Connect is its own gateway.
Profile == [gateway : Connects \cup {None}, remote : BOOLEAN, activatable : BOOLEAN,
            eventLog : BOOLEAN, reportsBolt : BOOLEAN, firmware : Nat, offline : BOOLEAN]

\* What else may happen; each setting says which of it does.
Hazards == {"fails",            \* requests to Bold fail
            "reload",           \* the user reloads the entry
            "links",            \* the user links locks to door sensors
            "rename",           \* and renames both, as they are shown
            "sensors",          \* sensors are given other entity IDs, disabled, deleted
            "otherAccount"}     \* another account is set up, too

\* A setting: what each device can be (nothing, for one that is not there);
\* those in the account at first; whether Home Assistant has Bluetooth; and, as
\* a bound, the number of things that happen.
Setting == [profiles : [Devices -> SUBSET Profile], first : Seq(Devices),
            bluetooth : BOOLEAN, hazards : SUBSET Hazards, changes : Nat]

ASSUME PagesHoldDevices == PageSize \in Nat \ {0}

ASSUME SettingsAreSettings ==
    Settings \subseteq Setting /\ \A s \in Settings : IsInjective(s.first)

ASSUME NoneIsNoDevice == None \notin Devices
ASSUME LocksAreNoConnects == Locks \cap Connects = {}

-----------------------------------------------------------------------------
VARIABLES
    setting,
    changes,        \* how much happened
    (* Bold *)
    listed,         \* the account's devices, as Bold lists them
    profile,        \* what each of them is
    (* Home Assistant *)
    entry,          \* the config entry: "down", in "setup", "starting", "added" or "loaded"
    poll,           \* the device poll under way
    data,           \* the device coordinator's data
    success,        \* whether its last poll succeeded
    home            \* the integration's data, and the registries

bold == <<listed, profile>>
sync == <<entry, poll, data, success, home>>

Bluetooth == setting.bluetooth
Environment == setting.hazards

\* Something happens, of what is bounded.
Happens == changes < setting.changes /\ changes' = changes + 1

NoData == [d \in {} |-> None]

-----------------------------------------------------------------------------
(* What the platforms create for a device                                  *)

IsLock(d) == d \in Locks
IsGateway(d) == d \in Connects
IsDoorConnect(d, p) == IsGateway(d) /\ p.activatable
HasActivity(d, p) == (IsLock(d) \/ IsDoorConnect(d, p)) /\ p.eventLog

LockEntities(d, p) ==
    IF (IsLock(d) /\ (p.remote \/ Bluetooth)) \/ IsDoorConnect(d, p) THEN {"lock"} ELSE {}

ButtonEntities(d, p) == IF IsDoorConnect(d, p) THEN {"activate"} ELSE {}

EventEntities(d, p) == IF HasActivity(d, p) THEN {"activity"} ELSE {}

SelectEntities(d, p) ==
    IF IsLock(d) /\ Bluetooth /\ p.remote /\ p.gateway # None THEN {"unlock_method"} ELSE {}

SensorEntities(d, p) ==
    IF IsLock(d)
    THEN {"battery_level"}
         \cup (IF Bluetooth THEN {"bluetooth_signal"} ELSE {})
         \cup (IF p.eventLog THEN {"battery_voltage"} ELSE {})
         \cup (IF p.gateway # None THEN {"connect_signal"} ELSE {})
    ELSE {"last_seen"}

BinarySensorEntities(d) == IF IsLock(d) THEN {"battery"} ELSE {"online"}

UpdateEntities == {"firmware"}

\* One listener for each platform, all of the same data, come to one.
Wanted(d, p) ==
    UNION {LockEntities(d, p), ButtonEntities(d, p), EventEntities(d, p), SelectEntities(d, p),
           SensorEntities(d, p), BinarySensorEntities(d), UpdateEntities}

Kinds == {"lock", "activate", "activity", "unlock_method", "battery_level", "bluetooth_signal",
          "battery_voltage", "connect_signal", "last_seen", "battery", "online", "firmware"}

-----------------------------------------------------------------------------
(* The listeners of the device coordinator, as changes of `home`           *)

\* Runtime data of a new setup, beside the registries as they were.
Fresh(h) ==
    [h EXCEPT !.connects = {}, !.activity = {}, !.added = NoData,
              !.entities = [d \in Devices |-> {}]]

\* async_get_or_create, of each of some devices, with what device_info says of it.
Register(registry, new, devices, via) ==
    [d \in DOMAIN registry \cup new |->
        IF d \notin new THEN registry[d]
        ELSE [firmware |-> devices[d].firmware,
              via |-> IF via[d] = None /\ d \in DOMAIN registry THEN registry[d].via
                      ELSE via[d]]]

\* Home Assistant removes a device's entities with it, and links to it.
Keep(h, devices) ==
    [h EXCEPT !.registry = [d \in DOMAIN @ \cap devices |->
                               IF @[d].via \in devices THEN @[d] ELSE [@[d] EXCEPT !.via = None]],
              !.registered = [d \in Devices |-> IF d \in devices THEN @[d] ELSE {}],
              !.entities = [d \in Devices |-> IF d \in devices THEN @[d] ELSE {}]]

MutatedSync(h, devices) ==
    [h EXCEPT !.activity = {d \in DOMAIN devices : HasActivity(d, devices[d])}]

MutatedSyncLater(h, devices) ==
    LET kept == Keep(h, DOMAIN devices)
    IN  [kept EXCEPT !.connects = {d \in DOMAIN kept.registry : IsGateway(d)},
                     !.activity = {d \in DOMAIN devices : HasActivity(d, devices[d])},
                     !.registry = [d \in DOMAIN @ |->
                                      [@[d] EXCEPT !.firmware = devices[d].firmware]]]

\* _async_sync_devices: Connects are registered first, so locks can be linked
\* to them; what left is removed, and firmware that was updated, noted.
Sync(h, devices) ==
    LET new == {d \in DOMAIN devices : IsGateway(d) /\ d \notin h.connects}
        connected == [h EXCEPT !.connects = @ \cup new,
                               !.registry = Register(@, new, devices, [d \in new |-> None]),
                               !.activity = {d \in DOMAIN devices : HasActivity(d, devices[d])}]
        kept == Keep(connected, DOMAIN devices)
    IN  [kept EXCEPT !.connects = @ \ (DOMAIN connected.registry \ DOMAIN devices),
                     !.registry = [d \in DOMAIN @ |->
                                      [@[d] EXCEPT !.firmware = devices[d].firmware]]]

\* The Connect an entity's device info links its lock to.
Via(h, d, p) == IF p.gateway # d /\ p.gateway \in h.connects THEN p.gateway ELSE None

MutatedForgotten(added, devices) == added

\* Removed devices are forgotten, so they get entities again if they return.
Forgotten(added, devices) == Restrict(added, DOMAIN added \cap DOMAIN devices)

\* add_new_entities: `clash` remembers if one was added that was still there.
AddNewEntities(h, devices) ==
    LET known == Forgotten(h.added, devices)
        before(d) == IF d \in DOMAIN known THEN known[d] ELSE {}
        new == [d \in DOMAIN devices |-> Wanted(d, devices[d]) \ before(d)]
        gaining == {d \in DOMAIN devices : new[d] # {}}
        with(f) == [d \in Devices |-> IF d \in gaining THEN f[d] \cup new[d] ELSE f[d]]
    IN  [h EXCEPT
            !.added = [d \in DOMAIN known \cup DOMAIN devices |->
                          IF d \in gaining THEN before(d) \cup new[d] ELSE before(d)],
            !.clash = @ \/ \E d \in gaining : new[d] \cap h.entities[d] # {},
            !.entities = with(@),
            !.registered = with(@),
            !.registry = Register(@, gaining, devices,
                                  [d \in gaining |-> Via(h, d, devices[d])])]

-----------------------------------------------------------------------------
(* The account                                                             *)

InAccount == ToSet(listed)

\* What a poll under way is told of it, for the properties.
Noted(p, left) ==
    IF p = None THEN None
    ELSE [p EXCEPT !.stayed = @ \ left, !.shrunk = @ \/ left # {}]

Joins ==
    \E d \in Devices \ InAccount :
        /\ Happens
        /\ \E place \in 1..Len(listed) + 1 : listed' = InsertAt(listed, place, d)
        /\ \E p \in setting.profiles[d] :
               profile' = [e \in DOMAIN profile \cup {d} |-> IF e = d THEN p ELSE profile[e]]
        /\ UNCHANGED sync

Leaves ==
    \E place \in DOMAIN listed :
        /\ Happens
        /\ listed' = RemoveAt(listed, place)
        /\ profile' = Restrict(profile, DOMAIN profile \ {listed[place]})
        /\ poll' = Noted(poll, {listed[place]})
        /\ UNCHANGED <<entry, data, success, home>>

\* Its features, settings, Connect or firmware change.
DeviceChanges ==
    \E d \in InAccount : \E p \in setting.profiles[d] \ {profile[d]} :
        /\ Happens
        /\ profile' = [profile EXCEPT ![d] = p]
        /\ UNCHANGED <<listed, sync>>

-----------------------------------------------------------------------------
(* Polls                                                                   *)

Polling == [offset |-> 0, got |-> NoData, stayed |-> InAccount, shrunk |-> FALSE]

\* async_setup_entry, up to the first refresh.
SetupStarts ==
    /\ entry = "down"
    /\ entry' = "setup"
    /\ poll' = Polling
    /\ data' = NoData
    /\ success' = TRUE
    /\ home' = Fresh(home)
    /\ UNCHANGED bold

PollStarts ==
    /\ entry = "loaded"
    /\ poll = None
    /\ poll' = Polling
    /\ UNCHANGED <<bold, entry, data, success, home>>

\* A page of the devices, as the account is now.
Page == SubSeq(listed, poll.offset + 1, Min({poll.offset + PageSize, Len(listed)}))

\* Devices by ID: of one that is listed twice, what came last.
WithPage(got, page) ==
    [d \in DOMAIN got \cup ToSet(page) |-> IF d \in ToSet(page) THEN profile[d] ELSE got[d]]

MutatedIsLast(page) == Len(page) <= PageSize

IsLast(page) == Len(page) < PageSize

PageArrives ==
    /\ poll # None
    /\ ~ IsLast(Page)
    /\ poll' = [poll EXCEPT !.offset = @ + PageSize, !.got = WithPage(@, Page)]
    /\ UNCHANGED <<bold, entry, data, success, home>>

\* The last page does, too: the listeners are called, of which the one that
\* adds entities is there once the platforms are set up.
PollSucceeds ==
    /\ poll # None
    /\ IsLast(Page)
    /\ poll' = None
    /\ data' = WithPage(poll.got, Page)
    /\ success' = TRUE
    /\ IF entry = "setup"
       THEN entry' = "starting" /\ home' = Sync(home, data')
       ELSE entry' = entry /\ home' = AddNewEntities(Sync(home, data'), data')
    /\ UNCHANGED bold

\* A page does not: a poll is without effect, and a setup is tried again.
\* Entities look at the same data once more.
PollFails ==
    /\ "fails" \in Environment
    /\ Happens
    /\ poll # None
    /\ poll' = None
    /\ success' = FALSE
    /\ IF entry = "setup"
       THEN entry' = "down" /\ home' = home
       ELSE entry' = entry /\ home' = IF success THEN AddNewEntities(home, data) ELSE home
    /\ UNCHANGED <<bold, data>>

\* The first event poll is answered: the platforms are set up, which is awaited.
EntitiesAdded ==
    /\ entry = "starting"
    /\ entry' = "added"
    /\ home' = AddNewEntities(home, data)
    /\ UNCHANGED <<bold, poll, data, success>>

SetupEnds ==
    /\ entry = "added"
    /\ entry' = "loaded"
    /\ UNCHANGED <<bold, poll, data, success, home>>

\* The event poll is not answered: the setup is tried again.
SetupFails ==
    /\ "fails" \in Environment
    /\ Happens
    /\ entry = "starting"
    /\ entry' = "down"
    /\ UNCHANGED <<bold, poll, data, success, home>>

\* async_unload_entry
Unloads ==
    /\ entry = "loaded"
    /\ entry' = "down"
    /\ poll' = None
    /\ home' = Fresh(home)
    /\ UNCHANGED <<bold, data, success>>

-----------------------------------------------------------------------------
DevicesInit ==
    /\ setting \in Settings
    /\ changes = 0
    /\ listed = setting.first
    /\ profile \in {f \in [InAccount -> UNION Range(setting.profiles)] :
                       \A d \in InAccount : f[d] \in setting.profiles[d]}
    /\ entry = "down"
    /\ poll = None
    /\ data = NoData
    /\ success = TRUE
    /\ home = [connects |-> {}, activity |-> {}, added |-> NoData, clash |-> FALSE,
               registry |-> NoData, registered |-> [d \in Devices |-> {}],
               entities |-> [d \in Devices |-> {}]]

-----------------------------------------------------------------------------
(* Properties                                                              *)

\* Something for each of some devices.
OfSome(f, S) == \E some \in SUBSET Devices : f \in [some -> S]

IsHome(h) ==
    \E added, known \in SUBSET Devices :
        h \in [connects : SUBSET Connects, activity : SUBSET Devices,
              added : [added -> SUBSET Kinds], clash : BOOLEAN,
              registry : [known -> [firmware : Nat, via : Connects \cup {None}]],
              registered : [Devices -> SUBSET Kinds], entities : [Devices -> SUBSET Kinds]]

IsPoll(p) ==
    \E got \in SUBSET Devices :
        p \in [offset : Nat, got : [got -> Profile], stayed : SUBSET Devices, shrunk : BOOLEAN]

ASSUME NoneIsNoPoll == ~ IsPoll(None)

\* Every variable has its type, and the account's devices their profiles.
DevicesTypeOK ==
    /\ setting \in Settings /\ changes \in Nat
    /\ listed \in Seq(Devices) /\ IsInjective(listed)
    /\ profile \in [InAccount -> Profile]
    /\ entry \in {"down", "setup", "starting", "added", "loaded"}
    /\ poll = None \/ IsPoll(poll)
    /\ OfSome(data, Profile) /\ success \in BOOLEAN /\ IsHome(home)

\* The platforms are set up.
Added == entry \in {"added", "loaded"}

\* Whatever came, went, returned or changed, and whichever polls failed: the
\* device registry has the devices of the last good poll, with their firmware,
\* and each has every entity its features call for ("Locks and Bold Connects
\* you add to your Bold account appear automatically, and ones you remove
\* disappear").
DevicesShown ==
    Added =>
        /\ DOMAIN home.registry = DOMAIN data
        /\ \A d \in DOMAIN data : /\ home.registry[d].firmware = data[d].firmware
                                  /\ Wanted(d, data[d]) \subseteq home.entities[d]
        /\ home.activity = {d \in DOMAIN data : HasActivity(d, data[d])}

\* No entity is added while Home Assistant still has it, though devices that
\* left are forgotten by one listener and removed by the other.
AddedOnce == ~ home.clash

(* What every step keeps, and those follow from.                           *)

\* A device has the entities that were added for it, of those of the last poll.
EntitiesAreKnown ==
    /\ DOMAIN home.added = IF Added THEN DOMAIN data ELSE {}
    /\ \A d \in Devices :
           home.entities[d] = IF d \in DOMAIN home.added THEN home.added[d] ELSE {}

\* Before that, a setup synchronized what the first poll found.
SyncedFirst ==
    entry = "starting" =>
        /\ DOMAIN home.registry \subseteq DOMAIN data
        /\ \A d \in DOMAIN home.registry : home.registry[d].firmware = data[d].firmware
        /\ home.activity = {d \in DOMAIN data : HasActivity(d, data[d])}
        /\ {d \in DOMAIN data : IsGateway(d)} \subseteq home.connects

\* Only a setup and a loaded entry poll.
PollsWhileUp == poll # None => entry \in {"setup", "loaded"}

DevicesInvariant ==
    /\ DevicesShown /\ AddedOnce
    /\ EntitiesAreKnown /\ SyncedFirst /\ PollsWhileUp

\* Of the devices that stayed, a poll has those on the pages it read, as long as
\* none left: one that joins only moves others down.
PagesInvariant ==
    poll # None =>
        /\ poll.stayed \subseteq InAccount
        /\ ~ poll.shrunk =>
               \A place \in DOMAIN listed :
                   place <= poll.offset /\ listed[place] \in poll.stayed
                       => listed[place] \in DOMAIN poll.got
=============================================================================
