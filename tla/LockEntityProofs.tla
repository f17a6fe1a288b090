--------------------------- MODULE LockEntityProofs ---------------------------
(***************************************************************************)
(* What is proved of LockEntity.                                           *)
(***************************************************************************)
EXTENDS LockEntity, WellFoundedInduction, TLAPS

-----------------------------------------------------------------------------
(* The entity's methods                                                    *)

LEMMA LaterIs ==
    ASSUME NEW a \in Int, NEW b \in Times
    PROVE  /\ Later(a, b) \in Int
           /\ Later(a, b) >= a
           /\ Later(a, b) \in {a, b}
BY NoneIsNoTime DEF Later, Times

LEMMA UpdateBoltIs ==
    ASSUME NEW l \in LockType, NEW position \in Bolts \cup {"unknown"}, NEW changed \in Times,
           NEW n, n = UpdateBolt(l, position, changed)
    PROVE  /\ n \in LockType
           /\ n.since = l.since /\ n.until = l.until /\ n.expiry = l.expiry
           /\ n.opened = l.opened
<1> USE DEF LockType
<1>1. CASE n = l
  BY <1>1
<1>2. CASE n = [l EXCEPT !.bolt = position, !.changed = IF changed = None THEN @ ELSE changed]
  <2>1. PICK c \in Times : n = [l EXCEPT !.bolt = position, !.changed = c]
    BY <1>2
  <2> QED BY <2>1
<1> QED BY <1>1, <1>2 DEF UpdateBolt

\* An activation, if it is shown, has the timer set.
Expires(l) == IsActive(l) => l.expiry = l.until

LEMMA SetActiveIs ==
    ASSUME NEW l \in LockType, NEW start \in Times, NEW until \in Times,
           NEW n, n = SetActive(l, start, until)
    PROVE  /\ n \in LockType
           /\ Expires(n)
           /\ n.since = start /\ n.until = until
           /\ n.bolt = l.bolt /\ n.changed = l.changed /\ n.opened = l.opened
<1>1. Bolt(l) \in Bolts \cup {"unknown"}
  BY DEF Bolt, LockType, Bolts
<1>2. PICK s \in Bolts \cup {"unknown"} :
          n = ScheduleExpiry([l EXCEPT !.startBolt = s, !.since = start, !.until = until])
  BY <1>1 DEF SetActive, LockType
<1> DEFINE m == [l EXCEPT !.startBolt = s, !.since = start, !.until = until]
<1>3. /\ m \in LockType
      /\ m.since = start /\ m.until = until
      /\ m.bolt = l.bolt /\ m.changed = l.changed /\ m.opened = l.opened
  BY DEF LockType
<1> HIDE DEF m
<1>4. PICK x \in Times : n = [m EXCEPT !.expiry = x] /\ (IsActive(m) => x = m.until)
  <2> None \in Times
    BY DEF Times
  <2> QED BY <1>2, <1>3 DEF ScheduleExpiry, m
<1>5. n \in LockType /\ n.expiry = x
      /\ n.since = m.since /\ n.until = m.until
      /\ n.bolt = m.bolt /\ n.changed = m.changed /\ n.opened = m.opened
  BY <1>3, <1>4 DEF LockType
<1>6. Expires(n)
  BY <1>4, <1>5 DEF Expires, IsActive
<1> QED BY <1>3, <1>5, <1>6

LEMMA SetInactiveIs ==
    ASSUME NEW l \in LockType, NEW at \in Int, at <= now, now \in Nat,
           NEW n, n = SetInactive(l, at)
    PROVE  /\ n \in LockType
           /\ Expires(n)
           /\ n.since = l.since /\ n.until = at
           /\ n.bolt = l.bolt /\ n.changed = l.changed /\ n.opened = l.opened
<1>1. /\ n \in LockType
      /\ n.since = l.since /\ n.until = at
      /\ n.bolt = l.bolt /\ n.changed = l.changed /\ n.opened = l.opened
  BY DEF SetInactive, LockType, Times
<1>2. Expires(n)
  BY <1>1 DEF Expires, IsActive
<1> QED BY <1>1, <1>2

LEMMA UpdateFromDeviceIs ==
    ASSUME NEW l \in LockType, NEW report \in Report, now \in Nat,
           NEW n, n = UpdateFromDevice(l, report)
    PROVE  /\ n \in LockType
           /\ Expires(l) => Expires(n)
           /\ n.opened = l.opened
           /\ LET known == UpdateBolt(l, report.bolt, report.changed)
              IN  n.bolt = known.bolt /\ n.changed = known.changed
           /\ \/ n.since = l.since /\ n.until = l.until
              \/ n.since = now /\ n.until = report.until /\ report.until # None
                 /\ report.until > now
<1> DEFINE known == UpdateBolt(l, report.bolt, report.changed)
<1>1. report.bolt \in Bolts \cup {"unknown"} /\ report.changed \in Times /\ report.until \in Times
  BY DEF Report
<1>2. /\ known \in LockType
      /\ known.since = l.since /\ known.until = l.until /\ known.expiry = l.expiry
      /\ known.opened = l.opened
  <2>1. known = UpdateBolt(l, report.bolt, report.changed)
    OBVIOUS
  <2> HIDE DEF known
  <2> QED BY <1>1, <2>1, UpdateBoltIs
<1> HIDE DEF known
<1>3. CASE n = known
  BY <1>2, <1>3 DEF Expires, IsActive, known
<1>4. CASE /\ n = SetActive(known, now, report.until)
           /\ report.until # None /\ report.until > now
  <2>1. now \in Times
    BY DEF Times
  <2>2. /\ n \in LockType
        /\ Expires(n)
        /\ n.since = now /\ n.until = report.until
        /\ n.bolt = known.bolt /\ n.changed = known.changed /\ n.opened = known.opened
    <3>1. PICK until \in Times : until = report.until
      BY <1>1
    <3>2. known \in LockType /\ n = SetActive(known, now, until)
      BY <1>2, <1>4, <3>1
    <3> QED BY <2>1, <3>1, <3>2, SetActiveIs
  <2> QED BY <1>2, <1>4, <2>2 DEF known
<1> QED BY <1>3, <1>4 DEF UpdateFromDevice, known

LEMMA TimeNoLaterThanNowIs ==
    ASSUME NEW event \in Event, now \in Nat
    PROVE  /\ TimeNoLaterThanNow(event) \in Int
           /\ TimeNoLaterThanNow(event) <= now
           /\ event.time <= now => TimeNoLaterThanNow(event) = event.time
BY DEF TimeNoLaterThanNow, Event

\* An event of the bolt says where it is, one of an activation when it was or
\* until when it is: what each comes to.
LEMMA ApplyEventIs ==
    ASSUME NEW l \in LockType, NEW event \in Event, now \in Nat,
           NEW n, n = ApplyEvent(l, event)
    PROVE  LET time == TimeNoLaterThanNow(event)
           IN  /\ n \in LockType
               /\ Expires(l) => Expires(n)
               /\ n.opened = l.opened
               /\ event.kind \in BoltReports =>
                      /\ n = UpdateBolt(l, event.kind, time)
                      /\ n.since = l.since /\ n.until = l.until
               /\ event.kind \notin BoltReports => n.bolt = l.bolt /\ n.changed = l.changed
               /\ event.kind = "activation" =>
                      \/ n = l
                      \/ n.since = time /\ n.until = Later(time + Duration, event.keep)
               /\ event.kind = "deactivation" =>
                      \/ n = l /\ l.since # None /\ time < l.since
                      \/ n.since = l.since /\ n.until = time
<1> DEFINE time == TimeNoLaterThanNow(event)
           until == Later(time + Duration, event.keep)
<1>1. /\ event.kind \in BoltReports \cup {"activation", "deactivation"}
      /\ event.keep \in Times /\ time \in Int /\ time <= now /\ Duration \in Int
  BY TimeNoLaterThanNowIs, TimesAreNaturals DEF Event
<1>2. time \in Times /\ until \in Times
  <2>1. time + Duration \in Int
    BY <1>1
  <2> QED BY <1>1, <2>1, LaterIs DEF Times
<1>3. n = CASE event.kind \in BoltReports -> UpdateBolt(l, event.kind, time)
            [] event.kind = "activation" ->
                   IF l.until = None \/ until > l.until THEN SetActive(l, time, until) ELSE l
            [] event.kind = "deactivation" ->
                   IF l.since = None \/ time >= l.since THEN SetInactive(l, time) ELSE l
  BY DEF ApplyEvent
<1> HIDE DEF time, until
<1>4. l.since \in Times
  BY DEF LockType
<1>5. CASE event.kind \in BoltReports
  <2>1. event.kind \in Bolts \cup {"unknown"} /\ n = UpdateBolt(l, event.kind, time)
    BY <1>3, <1>5 DEF BoltReports, Bolts
  <2>2. /\ n \in LockType
        /\ n.since = l.since /\ n.until = l.until /\ n.expiry = l.expiry
        /\ n.opened = l.opened
    <3>1. PICK kind \in Bolts \cup {"unknown"} : kind = event.kind
      BY <2>1
    <3>2. n = UpdateBolt(l, kind, time) /\ time \in Times
      BY <1>2, <2>1, <3>1
    <3> QED BY <3>2, UpdateBoltIs
  <2>3. Expires(l) => Expires(n)
    BY <2>2 DEF Expires, IsActive
  <2> QED BY <1>5, <2>1, <2>2, <2>3 DEF BoltReports, Bolts, time
<1>6. CASE event.kind = "activation"
  <2>1. n = l \/ n = SetActive(l, time, until)
    BY <1>3, <1>6 DEF BoltReports, Bolts
  <2>2. CASE n = l
    BY <1>6, <2>2 DEF BoltReports, Bolts
  <2>3. CASE n = SetActive(l, time, until)
    <3>1. /\ n \in LockType
          /\ Expires(n)
          /\ n.since = time /\ n.until = until
          /\ n.bolt = l.bolt /\ n.changed = l.changed /\ n.opened = l.opened
      BY <1>2, <2>3, SetActiveIs
    <3> QED BY <1>6, <3>1 DEF BoltReports, Bolts, time, until
  <2> QED BY <2>1, <2>2, <2>3
<1>7. CASE event.kind = "deactivation"
  <2>1. \/ n = l /\ l.since # None /\ time < l.since
        \/ n = SetInactive(l, time)
    BY <1>1, <1>3, <1>4, <1>7 DEF BoltReports, Bolts, Times
  <2>2. CASE n = l /\ l.since # None /\ time < l.since
    BY <1>7, <2>2 DEF BoltReports, Bolts, time
  <2>3. CASE n = SetInactive(l, time)
    <3>1. /\ n \in LockType
          /\ Expires(n)
          /\ n.since = l.since /\ n.until = time
          /\ n.bolt = l.bolt /\ n.changed = l.changed /\ n.opened = l.opened
      BY <1>1, <2>3, SetInactiveIs
    <3> QED BY <1>7, <3>1 DEF BoltReports, Bolts, time
  <2> QED BY <2>1, <2>2, <2>3
<1> QED BY <1>1, <1>5, <1>6, <1>7

-----------------------------------------------------------------------------
(* Events are applied one after the other                                  *)

LEMMA Least ==
    ASSUME NEW S, S \subseteq Nat, S # {}
    PROVE  \E x \in S : \A y \in S : x <= y
<1> DEFINE R == {pair \in Nat \X Nat : pair[1] < pair[2]}
<1>1. IsWellFoundedOn(OpToRel(<, Nat), Nat)
  BY NatLessThanWellFounded, Zenon
<1>2. OpToRel(<, Nat) = R
  BY Zenon DEF OpToRel
<1>3. IsWellFoundedOn(R, Nat)
  BY <1>1, <1>2
<1>4. \E x \in S : \A y \in S : <<y, x>> \notin R
  <2> HIDE DEF R
  <2> QED BY <1>3, WFMin
<1>5. \A x, y \in S : <<y, x>> \notin R => x <= y
  OBVIOUS
<1> QED BY <1>4, <1>5

\* What holds at first, and of each number if it does of the one before, always does.
LEMMA OneAfterTheOther ==
    ASSUME NEW last \in Nat, NEW holds \in [0..last -> BOOLEAN],
           holds[0],
           \A n \in 1..last : holds[n - 1] => holds[n]
    PROVE  \A n \in 0..last : holds[n]
<1> DEFINE Failing == {n \in 0..last : ~ holds[n]}
<1> SUFFICES ASSUME Failing # {} PROVE FALSE
  OBVIOUS
<1>1. PICK n \in Failing : \A m \in Failing : n <= m
  <2>1. Failing \subseteq Nat
    OBVIOUS
  <2> HIDE DEF Failing
  <2> QED BY <2>1, Least
<1>2. n \in 1..last /\ n - 1 \in 0..last /\ n - 1 \notin Failing
  BY <1>1
<1> QED BY <1>1, <1>2

Step(batch, l, n) ==
    IF InOrder(batch, n) = {} THEN l
    ELSE ApplyEvent(l, CHOOSE event \in InOrder(batch, n) : TRUE)

LEMMA AfterIs ==
    ASSUME NEW batch, logged \in Nat
    PROVE  /\ After(batch)[0] = lock
           /\ \A n \in 1..logged : After(batch)[n] = Step(batch, After(batch)[n - 1], n)
<1> DEFINE IsAfter(f, k) ==
               f = [n \in 0..k |-> IF n = 0 THEN lock ELSE Step(batch, f[n - 1], n)]
           defined == [k \in 0..logged |-> \E f : IsAfter(f, k)]
<1>1. \E f : IsAfter(f, 0)
  <2> DEFINE f == [n \in 0..0 |-> lock]
  <2>1. f = [n \in 0..0 |-> IF n = 0 THEN lock ELSE Step(batch, f[n - 1], n)]
    OBVIOUS
  <2> HIDE DEF f
  <2> QED BY <2>1
<1>2. ASSUME NEW k \in 1..logged, \E f : IsAfter(f, k - 1) PROVE \E f : IsAfter(f, k)
  <2>1. PICK f : IsAfter(f, k - 1)
    BY <1>2
  <2> DEFINE g == [n \in 0..k |-> IF n = k THEN Step(batch, f[k - 1], k) ELSE f[n]]
  <2>2. \A n \in 0..k : g[n] = IF n = 0 THEN lock ELSE Step(batch, g[n - 1], n)
    <3> SUFFICES ASSUME NEW n \in 0..k
                 PROVE  g[n] = IF n = 0 THEN lock ELSE Step(batch, g[n - 1], n)
      OBVIOUS
    <3>1. CASE n = k
      <4>1. k - 1 \in 0..k /\ k - 1 # k /\ k # 0
        OBVIOUS
      <4> QED BY <3>1, <4>1
    <3>2. CASE n # k
      <4>1. n \in 0..(k - 1)
        BY <3>2
      <4>2. g[n] = f[n]
        BY <3>2
      <4>3. f[n] = IF n = 0 THEN lock ELSE Step(batch, f[n - 1], n)
        BY <2>1, <4>1
      <4>4. n # 0 => g[n - 1] = f[n - 1]
        BY <4>1
      <4> QED BY <4>2, <4>3, <4>4
    <3> QED BY <3>1, <3>2
  <2>3. IsAfter(g, k)
    BY <2>2
  <2> QED BY <2>3
<1>3. \A k \in 0..logged : defined[k]
  <2>1. defined \in [0..logged -> BOOLEAN]
    OBVIOUS
  <2>2. defined[0]
    BY <1>1
  <2>3. ASSUME NEW k \in 1..logged, defined[k - 1] PROVE defined[k]
    <3>1. k - 1 \in 0..logged
      OBVIOUS
    <3>2. \E f : IsAfter(f, k - 1)
      BY <2>3, <3>1
    <3>3. \E f : IsAfter(f, k)
      BY <1>2, <3>2
    <3> QED BY <3>3
  <2> HIDE DEF defined
  <2> QED BY <2>1, <2>2, <2>3, OneAfterTheOther
<1>4. \E f : IsAfter(f, logged)
  BY <1>3
<1>5. After(batch) = CHOOSE f : IsAfter(f, logged)
  BY DEF After, Step
<1>6. IsAfter(After(batch), logged)
  <2> HIDE DEF IsAfter
  <2> QED BY <1>4, <1>5
<1> HIDE DEF defined
<1> QED BY <1>6

LEMMA AfterNext ==
    ASSUME NEW batch, logged \in Nat, NEW n \in 1..logged
    PROVE  \/ /\ \A event \in batch : event.id # n
              /\ After(batch)[n] = After(batch)[n - 1]
           \/ \E event \in batch :
                  event.id = n /\ After(batch)[n] = ApplyEvent(After(batch)[n - 1], event)
<1>1. After(batch)[n] = Step(batch, After(batch)[n - 1], n)
  BY AfterIs
<1>2. CASE InOrder(batch, n) = {}
  <2>1. \A event \in batch : event.id # n
    BY <1>2 DEF InOrder
  <2> QED BY <1>1, <1>2, <2>1 DEF Step
<1>3. CASE InOrder(batch, n) # {}
  <2>1. PICK event : event = CHOOSE e \in InOrder(batch, n) : TRUE
    OBVIOUS
  <2>2. event \in InOrder(batch, n)
    BY <1>3, <2>1
  <2>3. event \in batch /\ event.id = n
    BY <2>2 DEF InOrder
  <2>4. After(batch)[n] = ApplyEvent(After(batch)[n - 1], event)
    BY <1>1, <1>3, <2>1 DEF Step
  <2> QED BY <2>3, <2>4
<1> QED BY <1>2, <1>3

\* The lock after some events: what of it they leave alone, or keep.
Remains(l) ==
    /\ l \in LockType
    /\ ActiveExpires => Expires(l)
    /\ l.opened = lock.opened

LEMMA AfterRemains ==
    ASSUME NEW batch, batch \subseteq Event, logged \in Nat, now \in Nat, lock \in LockType
    PROVE  \A n \in 0..logged : Remains(After(batch)[n])
<1> DEFINE holds == [n \in 0..logged |-> Remains(After(batch)[n])]
<1>1. holds \in [0..logged -> BOOLEAN]
  BY DEF Remains
<1>2. holds[0]
  BY AfterIs DEF Remains, ActiveExpires, Expires
<1>3. ASSUME NEW n \in 1..logged, holds[n - 1] PROVE holds[n]
  <2>1. PICK l : l = After(batch)[n - 1]
    OBVIOUS
  <2>2. n - 1 \in 0..logged /\ Remains(l)
    BY <1>3, <2>1
  <2>3. CASE After(batch)[n] = After(batch)[n - 1]
    BY <2>1, <2>2, <2>3
  <2>4. ASSUME NEW event \in batch, After(batch)[n] = ApplyEvent(After(batch)[n - 1], event)
        PROVE  Remains(After(batch)[n])
    <3>1. PICK m : m = ApplyEvent(l, event)
      OBVIOUS
    <3>2. l \in LockType /\ event \in Event
      BY <2>2 DEF Remains
    <3>3. m \in LockType /\ (Expires(l) => Expires(m)) /\ m.opened = l.opened
      BY <3>1, <3>2, ApplyEventIs
    <3>4. Remains(m)
      BY <2>2, <3>3 DEF Remains
    <3> QED BY <2>1, <2>4, <3>1, <3>4
  <2>5. Remains(After(batch)[n])
    BY <2>3, <2>4, AfterNext
  <2> QED BY <2>5
<1> HIDE DEF holds
<1>4. \A n \in 0..logged : holds[n]
  BY <1>1, <1>2, <1>3, OneAfterTheOther
<1> QED BY <1>4 DEF holds

-----------------------------------------------------------------------------
(* Every variable has its type, and the timer is set                       *)

LEMMA SettingIs ==
    ASSUME setting \in Settings
    PROVE  /\ setting \in Setting
           /\ ReportsBolt \in BOOLEAN /\ Skew \in Int /\ Environment \subseteq Hazards
           /\ MaxTime \in Nat /\ MaxEvents \in Nat
BY SettingsAreSettings DEF Setting, ReportsBolt, Skew, Environment, MaxTime, MaxEvents

LEMMA StateIs == ASSUME NEW l PROVE State(l) \in States
BY DEF State, States

LEMMA NewLockIs ==
    ASSUME NEW opened \in Times, NEW n, n = NewLock(opened)
    PROVE  /\ n \in LockType
           /\ n.since = None /\ n.until = None /\ n.opened = opened
           /\ n.bolt = "unknown" /\ n.changed = None
           /\ Expires(n)
BY DEF NewLock, LockType, Times, Bolts, Expires, IsActive

\* A poll arrives, or fails and arrives again.
LEMMA DeviceRemains ==
    ASSUME TypeOK, NEW report \in Report, lock' = UpdateFromDevice(lock, report)
    PROVE  Remains(lock')
<1>1. PICK n : n = lock'
  OBVIOUS
<1>2. n = UpdateFromDevice(lock, report) /\ lock \in LockType /\ now \in Nat
  BY <1>1 DEF TypeOK
<1>3. n \in LockType /\ (Expires(lock) => Expires(n)) /\ n.opened = lock.opened
  BY <1>2, UpdateFromDeviceIs
<1> QED BY <1>1, <1>3 DEF Remains, ActiveExpires, Expires

\* Events arrive.
LEMMA EventsRemain ==
    ASSUME TypeOK, NEW batch, batch \subseteq Event, ApplyEvents(batch)
    PROVE  Remains(lock')
<1>1. logged \in 0..logged /\ logged \in Nat /\ now \in Nat /\ lock \in LockType
  BY DEF TypeOK
<1>2. Remains(After(batch)[logged])
  BY <1>1, AfterRemains
<1> QED BY <1>2 DEF ApplyEvents

\* What a step makes of the lock, at the time it begins.
LEMMA LockRemains ==
    ASSUME TypeOK, Next
    PROVE  /\ lock' \in LockType
           /\ ActiveExpires => Expires(lock')
<1> lock \in LockType /\ now \in Nat /\ None \in Times
  BY DEF TypeOK, Times
<1>1. CASE UNCHANGED lock
  BY <1>1 DEF ActiveExpires, Expires, IsActive
<1>2. CASE DoorOpens
  <2>1. lock' = [lock EXCEPT !.opened = now]
    BY <1>2 DEF DoorOpens
  <2> QED BY <2>1 DEF LockType, Times, ActiveExpires, Expires, IsActive
<1>3. ASSUME NEW p \in {"none", "locking", "unlocking"}, lock' = [lock EXCEPT !.progress = p]
      PROVE  /\ lock' \in LockType
             /\ ActiveExpires => Expires(lock')
  BY <1>3 DEF LockType, ActiveExpires, Expires, IsActive
<1>4. CASE ReadEvents
  <2>1. PICK batch \in SUBSET unread : ApplyEvents(batch)
    BY <1>4 DEF ReadEvents
  <2>2. batch \subseteq Event
    BY DEF TypeOK
  <2> QED BY <2>1, <2>2, EventsRemain DEF Remains
<1>5. CASE EventPollFails
  <2>1. events \subseteq Event /\ ApplyEvents(events)
    BY <1>5 DEF EventPollFails, TypeOK
  <2> QED BY <2>1, EventsRemain DEF Remains
<1>6. CASE DevicePollArrives
  <2>1. reading \in Report /\ lock' = UpdateFromDevice(lock, reading)
    BY <1>6 DEF DevicePollArrives, TypeOK
  <2> QED BY <2>1, DeviceRemains DEF Remains
<1>7. CASE DevicePollFails
  <2>1. device \in Report /\ lock' = UpdateFromDevice(lock, device)
    BY <1>7 DEF DevicePollFails, TypeOK
  <2> QED BY <2>1, DeviceRemains DEF Remains
<1>8. CASE Unlock \/ Lock
  <2>1. PICK p \in {"none", "locking", "unlocking"} : lock' = [lock EXCEPT !.progress = p]
    BY <1>8 DEF Unlock, Lock, Send
  <2> QED BY <2>1, <1>3
<1>9. CASE CommandSucceeds
  <2> DEFINE idle == [lock EXCEPT !.progress = "none"]
  <2>1. idle \in LockType
    BY DEF LockType
  <2>2. lock' = SetActive(idle, now, now + Duration) \/ lock' = SetInactive(idle, now)
    BY <1>9 DEF CommandSucceeds
  <2>3. now \in Times /\ now + Duration \in Times /\ now \in Int /\ now <= now
    BY TimesAreNaturals DEF Times
  <2> HIDE DEF idle
  <2>4. CASE lock' = SetActive(idle, now, now + Duration)
    <3>1. PICK until \in Times : until = now + Duration
      BY <2>3
    <3>2. lock' = SetActive(idle, now, until)
      BY <2>4, <3>1
    <3> QED BY <2>1, <2>3, <3>2, SetActiveIs
  <2>5. CASE lock' = SetInactive(idle, now)
    BY <2>1, <2>3, <2>5, SetInactiveIs
  <2> QED BY <2>2, <2>4, <2>5
<1>10. CASE CommandFails \/ CommandCrashes
  <2>1. lock' = [lock EXCEPT !.progress = "none"]
    BY <1>10 DEF CommandFails, CommandCrashes
  <2> QED BY <2>1, <1>3
<1>11. CASE Expired
  <2>1. /\ lock' = [lock EXCEPT !.expiry = None]
        /\ lock.expiry # None /\ lock.expiry <= now
    BY <1>11 DEF Expired
  <2>2. lock' \in LockType /\ lock'.until = lock.until
    BY <2>1 DEF LockType
  <2>3. ActiveExpires => ~ (lock.until # None /\ now < lock.until)
    <3>1. lock.until \in Times /\ lock.expiry \in Times
      BY DEF LockType
    <3> QED BY <2>1, <3>1 DEF ActiveExpires, IsActive, Times
  <2> QED BY <2>2, <2>3 DEF Expires, IsActive
<1>12. CASE Restart
  <2>1. PICK new : new = NewLock(lock.opened)
    OBVIOUS
  <2>2. new \in LockType /\ Expires(new)
    <3> lock.opened \in Times
      BY DEF LockType
    <3> QED BY <2>1, NewLockIs
  <2> QED BY <1>12, <2>1, <2>2 DEF Restart
<1>14. CASE SetUp
  <2>1. device \in Report /\ lock' = UpdateFromDevice(lock, device)
    BY <1>14 DEF SetUp, TypeOK
  <2> QED BY <2>1, DeviceRemains DEF Remains
<1>13. CASE TurnNoticed \/ TurnMissed \/ SomeoneActs \/ DevicePollAnswered \/ CommandExecutes
            \/ Tick \/ Ended
  BY <1>1, <1>13
     DEF TurnNoticed, TurnMissed, Turn, SomeoneActs, DevicePollAnswered, CommandExecutes, Tick,
         Ended, entity, vars
<1> QED BY <1>2, <1>4, <1>5, <1>6, <1>7, <1>8, <1>9, <1>10, <1>11, <1>12, <1>13, <1>14
        DEF Next

LEMMA InitTypes == Init => TypeOK /\ ActiveExpires
<1> SUFFICES ASSUME Init PROVE TypeOK /\ ActiveExpires
  OBVIOUS
<1>1. setting \in Settings /\ Skew \in Int /\ ReportsBolt \in BOOLEAN
  BY SettingIs DEF Init
<1>2. /\ now \in Nat /\ bolt \in Bolts /\ turnedAt \in Int /\ missed \in BOOLEAN /\ endsAt \in Int
      /\ unread \subseteq Event /\ logged \in Nat /\ lost \subseteq {"turn", "end"}
      /\ events \subseteq Event /\ reading = None /\ starting \in BOOLEAN
      /\ command \in [kind : {"none", "activate", "deactivate"}, began : Nat,
                      executed : BOOLEAN]
  <2>1. now = 0 /\ bolt \in Bolts /\ turnedAt = -1 /\ missed = FALSE /\ endsAt = 0
    BY DEF Init
  <2>2. /\ unread = {} /\ logged = 0 /\ events = {} /\ reading = None /\ command = NoCommand
        /\ lost = {} /\ starting = FALSE
    BY DEF Init
  <2>3. NoCommand \in [kind : {"none", "activate", "deactivate"}, began : Nat,
                       executed : BOOLEAN]
    BY DEF NoCommand
  <2>4. now \in Nat /\ endsAt \in Int /\ logged \in Nat
    BY <2>1, <2>2
  <2>5. turnedAt \in Int
    BY <2>1
  <2>6. unread \subseteq Event /\ events \subseteq Event
    BY <2>2
  <2> QED BY <2>1, <2>2, <2>3, <2>4, <2>5, <2>6
<1>3. server \in Report /\ device = server
  <2>1. turnedAt + Skew \in Int
    BY <1>1, <1>2
  <2>2. server = [bolt |-> IF ReportsBolt THEN bolt ELSE "unknown",
                  changed |-> IF ReportsBolt THEN turnedAt + Skew ELSE None, until |-> None]
    BY DEF Init
  <2> QED BY <1>2, <2>1, <2>2 DEF Report, Times, Init
<1>4. lock \in LockType /\ Expires(lock)
  <2>1. PICK new : new = NewLock(None)
    OBVIOUS
  <2>2. None \in Times
    BY DEF Times
  <2>3. new \in LockType /\ Expires(new)
    BY <2>1, <2>2, NewLockIs
  <2>4. lock = UpdateFromDevice(new, device)
    BY <2>1 DEF Init
  <2> QED BY <1>2, <1>3, <2>3, <2>4, UpdateFromDeviceIs
<1>5. shown \in States
  BY StateIs DEF Init
<1> QED BY <1>1, <1>2, <1>3, <1>4, <1>5 DEF TypeOK, ActiveExpires, Expires

LEMMA ShownRemains == ASSUME TypeOK, Next PROVE shown' \in States
<1>1. CASE UNCHANGED shown
  BY <1>1 DEF TypeOK
<1>2. CASE Write
  BY <1>2, StateIs DEF Write
<1>3. \/ UNCHANGED shown
      \/ Write
  BY DEF Next, TurnNoticed, TurnMissed, Turn, DoorOpens, SomeoneActs, ReadEvents, ApplyEvents,
         EventPollFails, DevicePollAnswered, DevicePollArrives, DevicePollFails, Unlock, Lock,
         Send, CommandExecutes, CommandSucceeds, CommandFails, CommandCrashes, Expired, Restart,
         SetUp, Tick, Ended, entity, vars
<1> QED BY <1>1, <1>2, <1>3

LEMMA ReportsIs ==
    ASSUME TypeOK, endsAt' \in Int, NEW kind \in BoltReports \cup {"activation", "deactivation"},
           NEW keep \in Times, Reports(kind, keep)
    PROVE  /\ server' \in Report /\ unread' \subseteq Event /\ logged' \in Nat
           /\ lost' \subseteq {"turn", "end"}
<1>1. Stamp \in Int /\ endsAt' \in Times /\ None \in Times /\ Stamp \in Times
  <2> now \in Int /\ Skew \in Int
    BY SettingIs DEF TypeOK
  <2> QED BY DEF Stamp, Times
<1>2. logged' \in Nat
  BY DEF Reports, TypeOK
<1>3. unread' \subseteq Event
  <2>1. PICK event : event = [id |-> logged', kind |-> kind, time |-> Stamp, keep |-> keep]
    OBVIOUS
  <2>2. event \in Event
    BY <1>1, <1>2, <2>1 DEF Event
  <2> QED BY <2>1, <2>2 DEF Reports, TypeOK
<1>4. server' \in Report
  <2>1. \/ kind \in Bolts /\ server' = [server EXCEPT !.bolt = kind, !.changed = Stamp]
        \/ server' = [server EXCEPT !.until = endsAt']
        \/ server' = [server EXCEPT !.until = None]
    BY DEF Reports, BoltReports
  <2>2. server \in Report
    BY DEF TypeOK
  <2> QED BY <1>1, <2>1, <2>2 DEF Report
<1>5. lost' \subseteq {"turn", "end"}
  BY DEF Reports, TypeOK
<1> QED BY <1>2, <1>3, <1>4, <1>5

LEMMA ActivateIs ==
    ASSUME TypeOK, NEW keep \in BOOLEAN, Activate(keep)
    PROVE  /\ endsAt' \in Int /\ server' \in Report /\ unread' \subseteq Event /\ logged' \in Nat
           /\ lost' \subseteq {"turn", "end"}
<1>1. endsAt' \in Int
  BY TimesAreNaturals DEF Activate, TypeOK
<1>2. PICK until \in Times : until = IF keep THEN endsAt' ELSE None
  BY <1>1 DEF Times
<1>3. Reports("activation", until)
  BY <1>2 DEF Activate
<1> QED BY <1>1, <1>3, ReportsIs

LEMMA DeactivateIs ==
    ASSUME TypeOK, Deactivate
    PROVE  /\ endsAt' \in Int /\ server' \in Report /\ unread' \subseteq Event /\ logged' \in Nat
           /\ lost' \subseteq {"turn", "end"}
<1>1. endsAt' \in Int /\ Reports("deactivation", None) /\ None \in Times
  BY DEF Deactivate, TypeOK, Times
<1> QED BY <1>1, ReportsIs

LEMMA TurnIs ==
    ASSUME TypeOK, NEW noticed \in BOOLEAN, Turn(noticed)
    PROVE  TypeOK'
<1>1. /\ bolt' \in Bolts /\ turnedAt' \in Int /\ missed' \in BOOLEAN
  BY DEF TypeOK, Turn, Opposite, Bolts
<1>2. UNCHANGED <<setting, now, endsAt, polls, command, entity>>
  BY DEF Turn
<1>3. /\ server' \in Report /\ unread' \subseteq Event /\ logged' \in Nat
      /\ lost' \subseteq {"turn", "end"}
  <2>1. CASE noticed
    <3>1. bolt' \in BoltReports /\ Reports(bolt', None) /\ endsAt' \in Int
      BY <1>1, <1>2, <2>1 DEF Turn, BoltReports, TypeOK
    <3>2. PICK kind \in BoltReports : kind = bolt'
      BY <3>1
    <3>3. Reports(kind, None) /\ None \in Times
      BY <3>1, <3>2 DEF Times
    <3> QED BY <3>1, <3>3, ReportsIs
  <2>2. CASE ~ noticed
    BY <2>2 DEF Turn, bold, TypeOK
  <2> QED BY <2>1, <2>2
<1> QED BY <1>1, <1>2, <1>3 DEF TypeOK, polls, entity

LEMMA NextTypes == TypeOK /\ [Next]_vars => TypeOK'
<1> SUFFICES ASSUME TypeOK, [Next]_vars PROVE TypeOK'
  OBVIOUS
<1>1. CASE UNCHANGED vars
  BY <1>1 DEF TypeOK, vars, world, bold, polls, entity
<1> SUFFICES ASSUME Next PROVE TypeOK'
  BY <1>1
<1>2. lock' \in LockType /\ shown' \in States
  BY LockRemains, ShownRemains
<1>3. CASE TurnNoticed \/ TurnMissed
  BY <1>3, TurnIs DEF TurnNoticed, TurnMissed
<1>4. CASE DoorOpens
  BY <1>2, <1>4 DEF DoorOpens, TypeOK, bold, polls
<1>5. CASE SomeoneActs
  <2>1. UNCHANGED <<setting, now, bolt, turnedAt, missed, polls, command, entity>>
    BY <1>5 DEF SomeoneActs
  <2>2. /\ endsAt' \in Int /\ server' \in Report /\ unread' \subseteq Event /\ logged' \in Nat
        /\ lost' \subseteq {"turn", "end"}
    BY <1>5, ActivateIs, DeactivateIs DEF SomeoneActs
  <2> QED BY <2>1, <2>2 DEF TypeOK, polls, entity
<1>6. CASE ReadEvents
  <2>1. PICK batch \in SUBSET unread :
            /\ unread' = unread \ batch
            /\ events' \in {batch, {}}
            /\ UNCHANGED <<setting, now, world, server, logged, lost, device, reading,
                           starting, command>>
    BY <1>6 DEF ReadEvents
  <2> QED BY <1>2, <2>1 DEF TypeOK, world
<1>7. CASE EventPollFails
  BY <1>2, <1>7 DEF EventPollFails, TypeOK, world, bold, polls
<1>8. CASE DevicePollAnswered
  BY <1>8 DEF DevicePollAnswered, TypeOK, world, bold, entity
<1>9. CASE DevicePollArrives
  BY <1>2, <1>9 DEF DevicePollArrives, TypeOK, world, bold
<1>10. CASE DevicePollFails
  BY <1>2, <1>10 DEF DevicePollFails, TypeOK, world, bold
<1>11. CASE Unlock \/ Lock
  <2>1. PICK kind \in {"activate", "deactivate"} : Send(kind)
    BY <1>11 DEF Unlock, Lock
  <2> QED BY <1>2, <2>1 DEF Send, TypeOK, world, bold, polls
<1>12. CASE CommandExecutes
  <2>1. /\ command' = [command EXCEPT !.executed = TRUE]
        /\ UNCHANGED <<setting, now, bolt, turnedAt, missed, polls, entity>>
    BY <1>12 DEF CommandExecutes
  <2>2. command' \in [kind : {"none", "activate", "deactivate"}, began : Nat,
                      executed : BOOLEAN]
    BY <2>1 DEF TypeOK
  <2>3. /\ endsAt' \in Int /\ server' \in Report /\ unread' \subseteq Event /\ logged' \in Nat
        /\ lost' \subseteq {"turn", "end"}
    <3>1. Activate(FALSE) \/ Deactivate \/ UNCHANGED <<endsAt, bold>>
      BY <1>12 DEF CommandExecutes
    <3>2. CASE UNCHANGED <<endsAt, bold>>
      BY <3>2 DEF TypeOK, bold
    <3> QED BY <3>1, <3>2, ActivateIs, DeactivateIs
  <2> QED BY <2>1, <2>2, <2>3 DEF TypeOK, polls, entity
<1>13. CASE CommandSucceeds \/ CommandFails \/ CommandCrashes
  <2>1. command' = NoCommand /\ UNCHANGED <<setting, now, world, bold, polls>>
    BY <1>13 DEF CommandSucceeds, CommandFails, CommandCrashes
  <2> QED BY <1>2, <2>1 DEF TypeOK, NoCommand, world, bold, polls
<1>14. CASE Expired
  BY <1>2, <1>14 DEF Expired, TypeOK, world, bold, polls
<1>15. CASE Restart
  BY <1>2, <1>15 DEF Restart, TypeOK, world, bold, NoCommand
<1>18. CASE SetUp
  BY <1>2, <1>18 DEF SetUp, TypeOK, world
<1>16. CASE Tick
  BY <1>16 DEF Tick, TypeOK, world, bold, polls, entity
<1>17. CASE Ended
  BY <1>1, <1>17 DEF Ended
<1> QED BY <1>3, <1>4, <1>5, <1>6, <1>7, <1>8, <1>9, <1>10, <1>11, <1>12, <1>13, <1>14, <1>15,
           <1>16, <1>17, <1>18 DEF Next

\* Every variable has its type.
THEOREM LockTypeCorrect == Spec => []TypeOK
<1>1. Init => TypeOK
  BY InitTypes
<1> QED BY <1>1, NextTypes, PTL DEF Spec

LEMMA NextExpires == TypeOK /\ ActiveExpires /\ [Next]_vars => ActiveExpires'
<1> SUFFICES ASSUME TypeOK, ActiveExpires, [Next]_vars PROVE ActiveExpires'
  OBVIOUS
<1>1. CASE UNCHANGED vars
  BY <1>1 DEF ActiveExpires, IsActive, vars, entity
<1>2. CASE Tick
  <2>1. now \in Nat /\ now' = now + 1 /\ lock' = lock
    BY <1>2 DEF Tick, TypeOK, entity
  <2>2. lock.until \in Times
    BY DEF TypeOK, LockType
  <2> QED BY <2>1, <2>2 DEF ActiveExpires, IsActive, Times
<1>3. ASSUME Next, now' = now PROVE ActiveExpires'
  BY <1>3, LockRemains DEF ActiveExpires, Expires, IsActive
<1>4. Next => Tick \/ now' = now
  BY DEF Next, TurnNoticed, TurnMissed, Turn, DoorOpens, SomeoneActs, ReadEvents, EventPollFails,
         DevicePollAnswered, DevicePollArrives, DevicePollFails, Unlock, Lock, Send,
         CommandExecutes, CommandSucceeds, CommandFails, CommandCrashes, Expired, Restart,
         SetUp, Ended, vars
<1> QED BY <1>1, <1>2, <1>3, <1>4

LEMMA TimerIsSet == Spec => []ActiveExpires
<1>1. Init => ActiveExpires
  BY InitTypes
<1> QED BY <1>1, NextExpires, LockTypeCorrect, PTL DEF Spec

-----------------------------------------------------------------------------
(* What is shown is current                                                *)

\* Nothing of the state changes but by the entity, or by an activation's end.
LEMMA StateRemains ==
    ASSUME setting' = setting, lock' = lock, IsActive(lock)' <=> IsActive(lock)
    PROVE  State(lock)' = State(lock)
<1>1. (KnowsBolt(lock)' <=> KnowsBolt(lock)) /\ Bolt(lock)' = Bolt(lock)
  BY DEF KnowsBolt, ReportsBolt, Bolt
<1>2. \A from \in Bolts : WaitingToTurn(lock, from)' <=> WaitingToTurn(lock, from)
  BY <1>1 DEF WaitingToTurn
<1>3. IsLocked(lock)' <=> IsLocked(lock)
  BY <1>1 DEF IsLocked
<1>4. "locked" \in Bolts /\ "unlocked" \in Bolts
  BY DEF Bolts
<1> HIDE DEF Bolts
<1> QED BY <1>2, <1>3, <1>4 DEF State

LEMMA WriteShows ==
    ASSUME setting' = setting, now' = now, Write
    PROVE  shown' = State(lock)'
BY DEF Write, State, WaitingToTurn, IsLocked, KnowsBolt, ReportsBolt, IsActive, Bolt

LEMMA NextShows ==
    TypeOK /\ ActiveExpires /\ ShownIsCurrent /\ [Next]_vars => ShownIsCurrent'
<1> SUFFICES ASSUME TypeOK, ActiveExpires, ShownIsCurrent, [Next]_vars
             PROVE  ShownIsCurrent'
  OBVIOUS
<1>1. setting' = setting
  BY DEF Next, TurnNoticed, TurnMissed, Turn, DoorOpens, SomeoneActs, ReadEvents, EventPollFails,
         DevicePollAnswered, DevicePollArrives, DevicePollFails, Unlock, Lock, Send,
         CommandExecutes, CommandSucceeds, CommandFails, CommandCrashes, Expired, Restart,
         SetUp, Tick, Ended, vars
<1>2. CASE "commandCrashes" \in Environment
  BY <1>1, <1>2 DEF ShownIsCurrent, Environment
<1> SUFFICES ASSUME "commandCrashes" \notin Environment, ShowsWhatItKnows
             PROVE  ShowsWhatItKnows'
  BY <1>2 DEF ShownIsCurrent
<1>3. CASE /\ UNCHANGED entity /\ now' = now
  <2>1. IsActive(lock)' <=> IsActive(lock)
    BY <1>3 DEF IsActive, entity
  <2>2. State(lock)' = State(lock)
    BY <1>1, <1>3, <2>1, StateRemains DEF entity
  <2> QED BY <1>3, <2>2 DEF ShowsWhatItKnows, entity
<1>4. CASE Write /\ now' = now
  BY <1>1, <1>4, WriteShows DEF ShowsWhatItKnows
<1>5. CASE Tick
  <2>1. now \in Nat /\ now' = now + 1 /\ lock' = lock /\ shown' = shown
    BY <1>5 DEF Tick, TypeOK, entity
  <2>2. lock.until \in Times /\ lock.expiry \in Times
    BY DEF TypeOK, LockType
  <2>3. lock.expiry # None => now < lock.expiry
    BY <1>5 DEF Tick
  <2>4. shown = State(lock)
    BY <2>1, <2>2, <2>3 DEF ShowsWhatItKnows, Times
  <2>5. CASE IsActive(lock)' <=> IsActive(lock)
    BY <1>1, <2>1, <2>4, <2>5, StateRemains DEF ShowsWhatItKnows
  <2>6. CASE IsActive(lock) /\ ~ IsActive(lock)'
    <3>1. lock.until # None /\ lock.until <= now + 1 /\ lock.expiry = lock.until
      BY <2>1, <2>2, <2>6 DEF IsActive, ActiveExpires, Times
    <3> QED BY <2>1, <3>1 DEF ShowsWhatItKnows
  <2>7. IsActive(lock)' => IsActive(lock)
    BY <2>1, <2>2 DEF IsActive, Times
  <2> QED BY <2>5, <2>6, <2>7
<1>6. [Next]_vars => \/ UNCHANGED entity /\ now' = now
                     \/ Write /\ now' = now
                     \/ Tick
                     \/ CommandCrashes
  BY DEF Next, TurnNoticed, TurnMissed, Turn, DoorOpens, SomeoneActs, ReadEvents, ApplyEvents,
         EventPollFails, DevicePollAnswered, DevicePollArrives, DevicePollFails, Unlock, Lock,
         Send, CommandExecutes, CommandSucceeds, CommandFails, Expired, Restart,
         SetUp, Ended, entity, vars
<1> QED BY <1>3, <1>4, <1>5, <1>6 DEF CommandCrashes

\* What the entity shows is what it would show now, but for the moment its
\* timer takes to fire, unless a command raises what is no HomeAssistantError.
THEOREM ShownStaysCurrent == Spec => []ShownIsCurrent
<1>1. Init => ShownIsCurrent
  BY DEF Init, ShownIsCurrent, ShowsWhatItKnows
<1> QED BY <1>1, NextShows, LockTypeCorrect, TimerIsSet, PTL DEF Spec

-----------------------------------------------------------------------------
(* What there is to hear of the lock                                       *)

\* The steps that report something,
Speaks ==
    \/ TurnNoticed
    \/ /\ \/ \E keep \in BOOLEAN :
                 /\ Activate(keep)
                 /\ keep => "keepActive" \in Environment
          \/ Deactivate
       /\ SomeoneActs \/ CommandExecutes
       /\ UNCHANGED <<setting, now, bolt, turnedAt, missed, polls, entity>>

\* and all the others, which say nothing that was not said before.
Silent ==
    /\ UNCHANGED <<endsAt, server, logged>>
    /\ unread' \subseteq unread
    /\ Read' \subseteq Read
    /\ Readings' \subseteq Readings

LEMMA SpeaksOrSilent == ASSUME TypeOK, [Next]_vars PROVE Speaks \/ Silent
<1> USE DEF Silent, Read, Readings
<1>1. CASE UNCHANGED <<endsAt, server, unread, logged, polls>>
  BY <1>1 DEF polls
<1>2. CASE TurnMissed
  BY <1>1, <1>2 DEF TurnMissed, Turn, bold
<1>3. CASE SomeoneActs
  BY <1>3 DEF Speaks, SomeoneActs
<1>4. CASE CommandExecutes
  <2>1. Activate(FALSE) \/ Deactivate \/ UNCHANGED <<endsAt, bold>>
    BY <1>4 DEF CommandExecutes
  <2>2. UNCHANGED <<setting, now, bolt, turnedAt, missed, polls, entity>>
    BY <1>4 DEF CommandExecutes
  <2> QED BY <1>1, <1>4, <2>1, <2>2 DEF Speaks, bold
<1>5. CASE ReadEvents
  <2>1. PICK batch \in SUBSET unread :
            /\ unread' = unread \ batch
            /\ events' \in {batch, {}}
            /\ UNCHANGED <<world, server, logged, device, reading>>
    BY <1>5 DEF ReadEvents
  <2> QED BY <2>1 DEF world
<1>6. CASE DevicePollAnswered
  BY <1>6 DEF DevicePollAnswered, world, bold
<1>7. CASE DevicePollArrives
  BY <1>7 DEF DevicePollArrives, world, bold
<1>8. CASE DevicePollFails
  BY <1>8 DEF DevicePollFails, world, bold
<1>9. CASE Restart
  BY <1>9 DEF Restart, world, bold
<1>11. CASE SetUp
  BY <1>11 DEF SetUp, world
<1>10. CASE DoorOpens \/ EventPollFails \/ Unlock \/ Lock \/ CommandSucceeds \/ CommandFails
            \/ CommandCrashes \/ Expired \/ Tick \/ Ended \/ UNCHANGED vars
  <2>1. UNCHANGED <<endsAt, server, unread, logged, polls>>
    BY <1>10 DEF bold, DoorOpens, EventPollFails, Unlock, Lock, Send, CommandSucceeds, CommandFails,
                 CommandCrashes, Expired, Tick, Ended, vars, world
  <2> QED BY <1>1, <2>1
<1> QED BY <1>2, <1>3, <1>4, <1>5, <1>6, <1>7, <1>8, <1>9, <1>10, <1>11
        DEF Next, Speaks

LEMMA ReportsAre ==
    ASSUME NEW kind, NEW keep, Reports(kind, keep), UNCHANGED polls, logged \in Nat
    PROVE  LET new == [id |-> logged + 1, kind |-> kind, time |-> Stamp, keep |-> keep]
           IN  /\ logged' = logged + 1
               /\ unread' = unread \cup {new}
               /\ Read' = Read \cup {new}
               /\ Readings' \subseteq Readings \cup {server'}
BY DEF Reports, Read, Readings, polls

-----------------------------------------------------------------------------
(* No activation is shown for longer than there are                        *)

\* An activation that ends by then.
Within(until) == until # None => until <= now + KeepDuration

LEMMA NextLasts == TypeOK /\ NothingLastsLonger /\ [Next]_vars => NothingLastsLonger'
<1> SUFFICES ASSUME TypeOK, NothingLastsLonger, [Next]_vars PROVE NothingLastsLonger'
  OBVIOUS
<1>1. /\ now \in Nat /\ endsAt \in Int /\ logged \in Nat
      /\ Duration \in Nat /\ KeepDuration \in Nat /\ Duration <= KeepDuration
  BY TimesAreNaturals DEF TypeOK
<1>2. /\ \A report \in Readings : report.until \in Times
      /\ \A event \in Read : event.keep \in Times
  BY DEF TypeOK, Readings, Read, Report, Event
<1>3. CASE Silent
  <2>1. now' = now \/ now' = now + 1
    BY DEF Next, TurnNoticed, TurnMissed, Turn, DoorOpens, SomeoneActs, ReadEvents,
           EventPollFails, DevicePollAnswered, DevicePollArrives, DevicePollFails, Unlock, Lock,
           Send, CommandExecutes, CommandSucceeds, CommandFails, CommandCrashes, Expired,
           Restart, SetUp, Tick, Ended, vars
  <2>2. \A t \in Times \ {None} : t <= now + KeepDuration => t <= now' + KeepDuration
    BY <1>1, <2>1 DEF Times
  <2>3. endsAt' <= now' + KeepDuration
    BY <1>1, <1>3, <2>1 DEF Silent, NothingLastsLonger
  <2>4. \A report \in Readings' : report.until # None => report.until <= now' + KeepDuration
    BY <1>2, <1>3, <2>2 DEF Silent, NothingLastsLonger
  <2>5. \A event \in Read' : event.keep # None => event.keep <= now' + KeepDuration
    BY <1>2, <1>3, <2>2 DEF Silent, NothingLastsLonger
  <2> QED BY <2>3, <2>4, <2>5 DEF NothingLastsLonger
<1>4. CASE TurnNoticed
  <2>1. Reports(bolt', None) /\ UNCHANGED <<now, endsAt, polls>> /\ bolt' \in BoltReports
    BY <1>4 DEF TurnNoticed, Turn, Opposite, BoltReports, Bolts
  <2>2. \A event \in Read' : event.keep # None => event.keep <= now + KeepDuration
    <3> DEFINE new == [id |-> logged + 1, kind |-> bolt', time |-> Stamp, keep |-> None]
    <3>1. Read' = Read \cup {new} /\ new.keep = None
      BY <1>1, <2>1, ReportsAre
    <3> HIDE DEF new
    <3> QED BY <3>1 DEF NothingLastsLonger
  <2>3. \A report \in Readings' : report.until # None => report.until <= now + KeepDuration
    <3>1. Readings' \subseteq Readings \cup {server'}
      BY <1>1, <2>1, ReportsAre
    <3>2. server' = [server EXCEPT !.bolt = bolt', !.changed = Stamp] /\ server \in Report
      BY <2>1 DEF Reports, TypeOK, BoltReports, Bolts
    <3>3. server'.until = server.until /\ server \in Readings
      BY <3>2 DEF Report, Readings
    <3> QED BY <3>1, <3>3 DEF NothingLastsLonger
  <2> QED BY <2>1, <2>2, <2>3 DEF NothingLastsLonger
<1>5. ASSUME NEW kind \in {"activation", "deactivation"}, NEW keep \in {None, endsAt'},
             Reports(kind, keep), UNCHANGED <<now, polls>>,
             endsAt' \in Int, endsAt' <= now + KeepDuration
      PROVE  NothingLastsLonger'
  <2>1. \A event \in Read' : event.keep # None => event.keep <= now + KeepDuration
    <3> DEFINE new == [id |-> logged + 1, kind |-> kind, time |-> Stamp, keep |-> keep]
    <3>1. Read' = Read \cup {new} /\ new.keep \in {None, endsAt'}
      BY <1>1, <1>5, ReportsAre
    <3> HIDE DEF new
    <3> QED BY <1>5, <3>1 DEF NothingLastsLonger
  <2>2. \A report \in Readings' : report.until # None => report.until <= now + KeepDuration
    <3>1. Readings' \subseteq Readings \cup {server'}
      BY <1>1, <1>5, ReportsAre
    <3>2. server'.until \in {None, endsAt'}
      BY <1>5 DEF Reports, TypeOK, Report, BoltReports, Bolts
    <3> QED BY <1>5, <3>1, <3>2 DEF NothingLastsLonger
  <2> QED BY <1>5, <2>1, <2>2 DEF NothingLastsLonger
<1>6. CASE Speaks
  <2>1. CASE Deactivate /\ UNCHANGED <<now, polls>>
    <3>1. Reports("deactivation", None) /\ endsAt' = now
      BY <2>1 DEF Deactivate
    <3> QED BY <1>1, <1>5, <2>1, <3>1
  <2>2. ASSUME NEW keep \in BOOLEAN, Activate(keep), UNCHANGED <<now, polls>>
        PROVE  NothingLastsLonger'
    <3>1. endsAt' = now + (IF keep THEN KeepDuration ELSE Duration)
      BY <2>2 DEF Activate
    <3>2. endsAt' \in Int /\ endsAt' <= now + KeepDuration
      BY <1>1, <3>1
    <3>3. PICK until \in {None, endsAt'} : Reports("activation", until)
      BY <2>2 DEF Activate
    <3> QED BY <1>5, <2>2, <3>2, <3>3
  <2> QED BY <1>4, <1>6, <2>1, <2>2 DEF Speaks
<1> QED BY <1>3, <1>6, SpeaksOrSilent

LEMMA AfterWithin ==
    ASSUME TypeOK, NothingLastsLonger, Within(lock.until),
           NEW batch, batch \subseteq Read
    PROVE  \A n \in 0..logged : Within(After(batch)[n].until)
<1> DEFINE holds == [n \in 0..logged |-> Within(After(batch)[n].until)]
<1>1. /\ now \in Nat /\ logged \in Nat /\ lock \in LockType /\ batch \subseteq Event
      /\ Duration \in Nat /\ KeepDuration \in Nat /\ Duration <= KeepDuration
  BY TimesAreNaturals DEF TypeOK, Read
<1>2. \A n \in 0..logged : After(batch)[n] \in LockType
  BY <1>1, AfterRemains DEF Remains
<1>3. holds \in [0..logged -> BOOLEAN]
  BY DEF Within
<1>4. holds[0]
  <2>1. 0 \in 0..logged /\ After(batch)[0] = lock
    BY <1>1, AfterIs
  <2> QED BY <2>1
<1>5. ASSUME NEW n \in 1..logged, holds[n - 1] PROVE holds[n]
  <2>1. PICK l : l = After(batch)[n - 1]
    OBVIOUS
  <2>2. n - 1 \in 0..logged /\ l \in LockType /\ Within(l.until)
    <3>1. n - 1 \in 0..logged
      BY <1>1
    <3> QED BY <1>2, <1>5, <2>1, <3>1
  <2>3. CASE After(batch)[n] = After(batch)[n - 1]
    BY <2>1, <2>2, <2>3
  <2>4. ASSUME NEW event \in batch, After(batch)[n] = ApplyEvent(After(batch)[n - 1], event)
        PROVE  Within(After(batch)[n].until)
    <3>1. PICK m : m = ApplyEvent(l, event)
      OBVIOUS
    <3>2. event \in Event /\ event.kind \in BoltReports \cup {"activation", "deactivation"}
      BY <1>1 DEF Event
    <3>3. PICK time \in Int : time = TimeNoLaterThanNow(event) /\ time <= now
      BY <1>1, <3>2, TimeNoLaterThanNowIs
    <3>4. \/ m.until = l.until
          \/ m.until = Later(time + Duration, event.keep)
          \/ m.until = time
      BY <1>1, <2>2, <3>1, <3>2, <3>3, ApplyEventIs
    <3>5. /\ Later(time + Duration, event.keep) \in Int
          /\ Later(time + Duration, event.keep) <= now + KeepDuration
      <4>1. PICK until \in Int : until = time + Duration
        BY <1>1
      <4>2. PICK keep \in Times : keep = event.keep
        BY <3>2 DEF Event
      <4>3. keep # None => keep <= now + KeepDuration
        BY <4>2 DEF NothingLastsLonger
      <4>4. Later(until, keep) \in Int /\ Later(until, keep) \in {until, keep}
        BY LaterIs
      <4> QED BY <1>1, <3>3, <4>1, <4>2, <4>3, <4>4, NoneIsNoTime
    <3>6. Within(m.until)
      BY <1>1, <2>2, <3>3, <3>4, <3>5 DEF Within
    <3> QED BY <2>1, <2>4, <3>1, <3>6
  <2>5. Within(After(batch)[n].until)
    BY <1>1, <2>3, <2>4, AfterNext
  <2> QED BY <2>5
<1> HIDE DEF holds
<1>6. \A n \in 0..logged : holds[n]
  BY <1>1, <1>3, <1>4, <1>5, OneAfterTheOther
<1> QED BY <1>6 DEF holds

LEMMA DeviceWithin ==
    ASSUME TypeOK, NothingLastsLonger, NEW l \in LockType, Within(l.until),
           NEW report \in Readings, lock' = UpdateFromDevice(l, report)
    PROVE  Within(lock'.until)
<1>1. report \in Report /\ now \in Nat
  BY DEF TypeOK, Readings
<1>2. PICK n : n = lock'
  OBVIOUS
<1>3. n.until = l.until \/ n.until = report.until
  BY <1>1, <1>2, UpdateFromDeviceIs
<1> QED BY <1>2, <1>3 DEF NothingLastsLonger, Within

LEMMA NextNoLonger ==
    TypeOK /\ NothingLastsLonger /\ NoLongerThanAnActivation /\ [Next]_vars
        => NoLongerThanAnActivation'
<1> SUFFICES ASSUME TypeOK, NothingLastsLonger, NoLongerThanAnActivation, [Next]_vars
             PROVE  NoLongerThanAnActivation'
  OBVIOUS
<1> USE DEF NoLongerThanAnActivation
<1>1. /\ now \in Nat /\ lock.until \in Times
      /\ Duration \in Nat /\ KeepDuration \in Nat /\ Duration <= KeepDuration
      /\ Within(lock.until) /\ lock \in LockType /\ logged \in 0..logged
  BY TimesAreNaturals DEF TypeOK, LockType, Within
<1>2. CASE lock'.until = lock.until /\ now' \in {now, now + 1}
  BY <1>1, <1>2 DEF Times
<1>3. CASE Within(lock'.until) /\ now' = now
  BY <1>3 DEF Within
<1>4. CASE ReadEvents
  <2>1. PICK batch \in SUBSET unread : ApplyEvents(batch)
    BY <1>4 DEF ReadEvents
  <2>2. lock' = After(batch)[logged] /\ batch \subseteq Read
    BY <2>1 DEF ApplyEvents, Read
  <2>3. Within(lock'.until)
    BY <1>1, <2>2, AfterWithin
  <2> QED BY <1>3, <1>4, <2>3 DEF ReadEvents
<1>5. CASE EventPollFails
  <2>1. lock' = After(events)[logged] /\ events \subseteq Read
    BY <1>5 DEF EventPollFails, ApplyEvents, Read
  <2>2. Within(lock'.until)
    BY <1>1, <2>1, AfterWithin
  <2> QED BY <1>3, <1>5, <2>2 DEF EventPollFails
<1>6. CASE DevicePollArrives
  <2>1. reading \in Readings /\ lock' = UpdateFromDevice(lock, reading) /\ now' = now
    BY <1>6 DEF DevicePollArrives, Readings
  <2> QED BY <1>1, <1>3, <2>1, DeviceWithin
<1>7. CASE DevicePollFails
  <2>1. device \in Readings /\ lock' = UpdateFromDevice(lock, device) /\ now' = now
    BY <1>7 DEF DevicePollFails, Readings
  <2> QED BY <1>1, <1>3, <2>1, DeviceWithin
<1>8. CASE Restart
  <2>1. PICK new : new = NewLock(lock.opened)
    OBVIOUS
  <2>2. new \in LockType /\ new.until = None
    <3> lock.opened \in Times
      BY <1>1 DEF LockType
    <3> QED BY <2>1, NewLockIs
  <2> QED BY <1>3, <1>8, <2>1, <2>2 DEF Restart, Within
<1>12. CASE SetUp
  <2>1. device \in Readings /\ lock' = UpdateFromDevice(lock, device) /\ now' = now
    BY <1>12 DEF SetUp, Readings
  <2> QED BY <1>1, <1>3, <2>1, DeviceWithin
<1>9. CASE CommandSucceeds
  <2> DEFINE idle == [lock EXCEPT !.progress = "none"]
  <2>1. idle \in LockType
    BY <1>1 DEF LockType
  <2>2. /\ lock' = SetActive(idle, now, now + Duration) \/ lock' = SetInactive(idle, now)
        /\ now' = now
    BY <1>9 DEF CommandSucceeds
  <2> HIDE DEF idle
  <2>3. CASE lock' = SetActive(idle, now, now + Duration)
    <3>1. PICK until \in Times : until = now + Duration
      BY <1>1 DEF Times
    <3>2. now \in Times /\ lock' = SetActive(idle, now, until)
      BY <1>1, <2>3, <3>1 DEF Times
    <3>3. lock'.until = until
      BY <2>1, <3>2, SetActiveIs
    <3>4. Within(lock'.until)
      BY <1>1, <3>1, <3>3 DEF Within
    <3> QED BY <1>3, <2>2, <3>4
  <2>4. CASE lock' = SetInactive(idle, now)
    <3>1. lock'.until = now
      BY <1>1, <2>1, <2>4, SetInactiveIs
    <3>2. Within(lock'.until)
      BY <1>1, <3>1 DEF Within
    <3> QED BY <1>3, <2>2, <3>2
  <2> QED BY <2>2, <2>3, <2>4
<1>10. CASE Tick
  BY <1>2, <1>10 DEF Tick, entity
<1>11. CASE TurnNoticed \/ TurnMissed \/ DoorOpens \/ SomeoneActs \/ DevicePollAnswered
            \/ Unlock \/ Lock \/ CommandExecutes \/ CommandFails \/ CommandCrashes \/ Expired
            \/ Ended \/ UNCHANGED vars
  <2>1. /\ now' = now
        /\ \/ lock' = lock
           \/ lock' = [lock EXCEPT !.opened = now]
           \/ lock' = [lock EXCEPT !.expiry = None]
           \/ \E p \in {"none", "locking", "unlocking"} : lock' = [lock EXCEPT !.progress = p]
    BY <1>11 DEF TurnNoticed, TurnMissed, Turn, DoorOpens, SomeoneActs, DevicePollAnswered,
         Unlock, Lock, Send, CommandExecutes, CommandFails, CommandCrashes, Expired,
         Ended, vars, entity
  <2>2. lock'.until = lock.until
    BY <1>1, <2>1 DEF LockType
  <2> QED BY <1>2, <2>1, <2>2
<1> QED BY <1>4, <1>5, <1>6, <1>7, <1>8, <1>9, <1>10, <1>11, <1>12 DEF Next

LEMMA InitLasts == Init => NothingLastsLonger /\ NoLongerThanAnActivation
<1> SUFFICES ASSUME Init PROVE NothingLastsLonger /\ NoLongerThanAnActivation
  OBVIOUS
<1>1. /\ now = 0 /\ endsAt = 0 /\ unread = {} /\ events = {} /\ reading = None
      /\ device = server /\ server.until = None
  BY DEF Init
<1>2. NothingLastsLonger
  BY <1>1, TimesAreNaturals DEF NothingLastsLonger, Read, Readings
<1>3. lock.until = None
  <2>1. PICK new : new = NewLock(None)
    OBVIOUS
  <2>2. new \in LockType /\ new.until = None
    BY <2>1, NewLockIs DEF Times
  <2>3. lock = UpdateFromDevice(new, device) /\ device \in Report /\ now \in Nat
    BY <2>1, InitTypes DEF Init, TypeOK
  <2> QED BY <1>1, <2>2, <2>3, UpdateFromDeviceIs
<1> QED BY <1>2, <1>3 DEF NoLongerThanAnActivation

LEMMA NothingEverLastsLonger == Spec => []NothingLastsLonger
BY InitLasts, NextLasts, LockTypeCorrect, PTL DEF Spec

\* No activation, of whatever clock and whoever, is shown to have more left of
\* it than the longest there are.
THEOREM NoneShownForLonger == Spec => []NoLongerThanAnActivation
BY InitLasts, NextNoLonger, LockTypeCorrect, NothingEverLastsLonger, PTL DEF Spec

-----------------------------------------------------------------------------
(* The bolt is known                                                       *)

LEMMA TimesPass ==
    ASSUME TypeOK, [Next]_vars
    PROVE  /\ setting' = setting
           /\ now' = now \/ now' = now + 1
BY DEF Next, TurnNoticed, TurnMissed, Turn, DoorOpens, SomeoneActs, ReadEvents, EventPollFails,
       DevicePollAnswered, DevicePollArrives, DevicePollFails, Unlock, Lock, Send,
       CommandExecutes, CommandSucceeds, CommandFails, CommandCrashes, Expired, Restart, SetUp,
       Tick, Ended, vars

LEMMA NextNumbers == TypeOK /\ EventsAreNumbered /\ [Next]_vars => EventsAreNumbered'
<1> SUFFICES ASSUME TypeOK, EventsAreNumbered, [Next]_vars PROVE EventsAreNumbered'
  OBVIOUS
<1>1. CASE Silent
  BY <1>1 DEF Silent, EventsAreNumbered
<1>2. ASSUME NEW kind, NEW keep, Reports(kind, keep), UNCHANGED polls
      PROVE  EventsAreNumbered'
  <2> DEFINE new == [id |-> logged + 1, kind |-> kind, time |-> Stamp, keep |-> keep]
  <2>1. Read' = Read \cup {new} /\ logged' = logged + 1 /\ new.id = logged + 1 /\ logged \in Nat
    BY <1>2, ReportsAre DEF TypeOK
  <2> HIDE DEF new
  <2>2. \A event \in Read : event.id \in 1..logged /\ event.id # logged + 1
    BY <2>1 DEF EventsAreNumbered
  <2>3. \A event \in Read' : event.id \in 1..logged'
    BY <2>1, <2>2
  <2>4. \A e, f \in Read' : e.id = f.id => e = f
    BY <2>1, <2>2 DEF EventsAreNumbered
  <2> QED BY <2>3, <2>4 DEF EventsAreNumbered
<1>3. CASE Speaks
  <2>1. \E kind, keep : Reports(kind, keep) /\ UNCHANGED polls
    BY <1>3 DEF Speaks, TurnNoticed, Turn, Activate, Deactivate
  <2> QED BY <1>2, <2>1
<1> QED BY <1>1, <1>3, SpeaksOrSilent

LEMMA EventsStayNumbered == Spec => []EventsAreNumbered
<1>1. Init => EventsAreNumbered
  BY DEF Init, EventsAreNumbered, Read
<1> QED BY <1>1, NextNumbers, LockTypeCorrect, PTL DEF Spec

\* Of a report of the bolt and what is known of it, the newer counts.
LEMMA UpdateBoltTakes ==
    ASSUME NEW l \in LockType, turnedAt \in Int,
           NEW position \in Bolts, NEW changed \in Times, IsOfBolt(position, changed),
           l.changed = None \/ IsOfBolt(l.bolt, l.changed),
           NEW n, n = UpdateBolt(l, position, changed)
    PROVE  /\ IsOfBolt(n.bolt, n.changed)
           /\ n.changed \in Int /\ n.changed >= changed
           /\ l.changed # None => n.changed >= l.changed
<1>1. /\ changed \in Int /\ changed <= turnedAt /\ changed # None /\ l.changed \in Times
      /\ position # "unknown" /\ position \in Bolts \cup {"unknown"}
  BY DEF IsOfBolt, Times, LockType, Bolts
<1>2. CASE n = l /\ l.changed # None /\ changed < l.changed
  BY <1>1, <1>2 DEF Times
<1>3. CASE /\ n = [l EXCEPT !.bolt = position, !.changed = changed]
           /\ l.changed = None \/ ~ (changed < l.changed)
  <2>1. n.bolt = position /\ n.changed = changed
    BY <1>3 DEF LockType
  <2> QED BY <1>1, <1>3, <2>1 DEF Times
<1> QED BY <1>1, <1>2, <1>3 DEF UpdateBolt

\* What is known of the bolt, after the first n events.
Knows(l, batch, n) ==
    /\ IsOfBolt(l.bolt, l.changed)
    /\ l.changed \in Int /\ l.changed >= lock.changed
    /\ \A event \in batch :
           event.kind \in BoltReports /\ event.id <= n => l.changed >= event.time

LEMMA AfterKnows ==
    ASSUME TypeOK, EventsAreNumbered, TurnsAreReported, BoltWasReported, ~ starting,
           NEW batch, batch \subseteq Read
    PROVE  \A n \in 0..logged : Knows(After(batch)[n], batch, n)
<1> DEFINE holds == [n \in 0..logged |-> Knows(After(batch)[n], batch, n)]
<1>1. /\ now \in Nat /\ logged \in Nat /\ lock \in LockType /\ batch \subseteq Event
      /\ turnedAt \in Int
  BY DEF TypeOK, Read
<1>2. \A n \in 0..logged : After(batch)[n] \in LockType
  BY <1>1, AfterRemains DEF Remains
<1>3. holds \in [0..logged -> BOOLEAN]
  BY DEF Knows
<1>4. holds[0]
  <2>1. 0 \in 0..logged /\ After(batch)[0] = lock
    BY <1>1, AfterIs
  <2>2. lock.changed \in Int /\ IsOfBolt(lock.bolt, lock.changed)
    BY <1>1 DEF BoltWasReported, IsOfBolt, LockType, Times
  <2>3. \A event \in batch : ~ (event.id <= 0)
    BY <1>1 DEF EventsAreNumbered
  <2>4. Knows(lock, batch, 0)
    BY <2>2, <2>3 DEF Knows
  <2> QED BY <2>1, <2>4
<1>5. ASSUME NEW n \in 1..logged, holds[n - 1] PROVE holds[n]
  <2>1. PICK l : l = After(batch)[n - 1]
    OBVIOUS
  <2>2. n - 1 \in 0..logged /\ l \in LockType /\ Knows(l, batch, n - 1)
    <3>1. n - 1 \in 0..logged
      BY <1>1
    <3> QED BY <1>2, <1>5, <2>1, <3>1
  <2>3. CASE /\ \A event \in batch : event.id # n
             /\ After(batch)[n] = After(batch)[n - 1]
    <3>1. \A event \in batch : event.id <= n => event.id <= n - 1
      BY <1>1, <2>3 DEF EventsAreNumbered
    <3>2. Knows(l, batch, n)
      BY <2>2, <3>1 DEF Knows
    <3> QED BY <2>1, <2>3, <3>2
  <2>4. ASSUME NEW event \in batch, event.id = n,
               After(batch)[n] = ApplyEvent(After(batch)[n - 1], event)
        PROVE  Knows(After(batch)[n], batch, n)
    <3>1. PICK m : m = ApplyEvent(l, event)
      OBVIOUS
    <3>2. event \in Event /\ event \in Read
      BY <1>1
    <3>3. \A other \in batch : other.id <= n => other.id <= n - 1 \/ other = event
      <4>1. \A other \in batch : other.id \in 1..logged
        BY DEF EventsAreNumbered
      <4>2. \A other \in batch : other.id = n => other = event
        BY <2>4 DEF EventsAreNumbered
      <4> QED BY <4>1, <4>2
    <3>4. PICK old \in Int : old = l.changed /\ old >= lock.changed
      BY <2>2 DEF Knows
    <3>5. CASE event.kind \in BoltReports
      <4>1. PICK kind \in Bolts : kind = event.kind
        BY <3>5 DEF BoltReports
      <4>2. PICK time \in Int : time = event.time /\ IsOfBolt(kind, time)
        BY <3>2, <3>5, <4>1 DEF Event, TurnsAreReported
      <4>3. TimeNoLaterThanNow(event) = time
        BY <1>1, <3>2, <4>2, TimeNoLaterThanNowIs DEF IsOfBolt, TurnsAreReported
      <4>4. m = UpdateBolt(l, kind, time)
        BY <1>1, <2>2, <3>1, <3>2, <3>5, <4>1, <4>3, ApplyEventIs
      <4>5. time \in Times /\ IsOfBolt(l.bolt, l.changed) /\ l.changed # None
        BY <2>2, NoneIsNoTime DEF Times, Knows
      <4>6. /\ IsOfBolt(m.bolt, m.changed)
            /\ m.changed \in Int /\ m.changed >= time
            /\ m.changed >= l.changed
        BY <1>1, <2>2, <4>2, <4>4, <4>5, UpdateBoltTakes
      <4>7. PICK new \in Int : new = m.changed
        BY <4>6
      <4>8. lock.changed \in Int
        BY <1>1 DEF BoltWasReported, IsOfBolt, LockType, Times
      <4>9. new >= lock.changed
        BY <3>4, <4>6, <4>7, <4>8
      <4>10. \A other \in batch :
                 other.kind \in BoltReports /\ other.id <= n => m.changed >= other.time
        <5> SUFFICES ASSUME NEW other \in batch, other.kind \in BoltReports, other.id <= n
                     PROVE  new >= other.time
          BY <4>7
        <5>1. CASE other = event
          BY <4>2, <4>6, <4>7, <5>1
        <5>2. CASE other.id <= n - 1
          <6>1. old >= other.time /\ other.time \in Int
            BY <1>1, <2>2, <3>4, <5>2 DEF Knows, Event
          <6> QED BY <3>4, <4>6, <4>7, <6>1
        <5> QED BY <3>3, <5>1, <5>2
      <4>11. Knows(m, batch, n)
        BY <4>6, <4>7, <4>9, <4>10 DEF Knows
      <4> QED BY <2>1, <2>4, <3>1, <4>11
    <3>6. CASE event.kind \notin BoltReports
      <4>1. m.bolt = l.bolt /\ m.changed = l.changed
        BY <1>1, <2>2, <3>1, <3>2, <3>6, ApplyEventIs
      <4>2. Knows(m, batch, n)
        BY <2>2, <3>3, <3>6, <4>1 DEF Knows
      <4> QED BY <2>1, <2>4, <3>1, <4>2
    <3> QED BY <3>5, <3>6
  <2>5. Knows(After(batch)[n], batch, n)
    BY <1>1, <2>3, <2>4, AfterNext
  <2> QED BY <2>5
<1> HIDE DEF holds
<1>6. \A n \in 0..logged : holds[n]
  BY <1>1, <1>3, <1>4, <1>5, OneAfterTheOther
<1> QED BY <1>6 DEF holds

\* A step that says nothing new leaves what is said right,
LEMMA SilenceReports ==
    ASSUME TypeOK, [Next]_vars, TurnsAreReported, Silent, UNCHANGED <<bolt, turnedAt>>
    PROVE  TurnsAreReported'
<1>1. turnedAt' <= now'
  BY TimesPass DEF TurnsAreReported, TypeOK
<1>2. \A report \in Readings' : IsOfBolt(report.bolt, report.changed)'
  BY DEF Silent, TurnsAreReported, IsOfBolt
<1>3. \A event \in Read' : event.kind \in BoltReports => IsOfBolt(event.kind, event.time)'
  BY DEF Silent, TurnsAreReported, IsOfBolt
<1> QED BY <1>1, <1>2, <1>3 DEF TurnsAreReported

\* and what was said the entity hears, will, or has lost.
Hears ==
    /\ IF starting' THEN lock'.changed = None ELSE IsOfBolt(lock'.bolt, lock'.changed)
    /\ lock'.opened = lock.opened
    /\ \/ starting'
       \/ "turn" \in lost'
       \/ lock'.changed \in Int /\ lock'.changed >= server.changed
       \/ /\ ~ starting /\ "turn" \notin lost
          /\ lock.changed = turnedAt => lock'.changed = turnedAt
          /\ \A event \in unread : event.kind \in BoltReports /\ event.time = turnedAt =>
                 lock'.changed = turnedAt \/ event \in unread'

LEMMA HearingKnows ==
    ASSUME TypeOK, [Next]_vars, TurnsAreReported, BoltWasReported, LastTurnArrives,
           Silent, UNCHANGED <<bolt, turnedAt, missed>>, Hears
    PROVE  TurnsAreReported' /\ BoltWasReported' /\ LastTurnArrives'
<1>1. TurnsAreReported'
  BY SilenceReports
<1>2. BoltWasReported'
  <2>1. (IF starting THEN lock.changed = None ELSE IsOfBolt(lock.bolt, lock.changed))'
    BY DEF Hears, IsOfBolt
  <2>2. now \in Nat /\ lock.opened \in Times
    BY DEF TypeOK, LockType
  <2>3. lock'.opened # None =>
            lock'.opened <= now' /\ (bolt' = "locked" => lock'.opened <= turnedAt')
    BY <2>2, TimesPass DEF Hears, BoltWasReported, Times
  <2> QED BY <2>1, <2>3 DEF BoltWasReported
<1>3. LastTurnArrives'
  <2>1. CASE missed
    BY <2>1 DEF LastTurnArrives
  <2>2. CASE DoorShows
    BY <2>2 DEF LastTurnArrives, DoorShows, Hears
  <2>3. CASE ~ missed /\ ~ DoorShows
    <3>1. /\ server'.changed = turnedAt'
          /\ \/ starting
             \/ "turn" \in lost
             \/ lock.changed = turnedAt
             \/ \E event \in unread : event.kind \in BoltReports /\ event.time = turnedAt
      BY <2>3 DEF LastTurnArrives, Silent
    <3>2. turnedAt \in Int
      BY DEF TypeOK
    <3>3. ~ starting' /\ lock'.changed \in Int /\ lock'.changed >= server.changed
              => lock'.changed = turnedAt
      BY <3>1, <3>2 DEF Hears, IsOfBolt, Silent
    <3>4. \/ starting'
          \/ "turn" \in lost'
          \/ lock'.changed = turnedAt'
          \/ \E event \in unread' : event.kind \in BoltReports /\ event.time = turnedAt'
      BY <3>1, <3>3 DEF Hears
    <3> QED BY <3>1, <3>4 DEF LastTurnArrives
  <2> QED BY <2>1, <2>2, <2>3
<1> QED BY <1>1, <1>2, <1>3

LEMMA EventsAreHeard ==
    ASSUME TypeOK, EventsAreNumbered, TurnsAreReported, BoltWasReported,
           NEW batch, batch \subseteq Read, ApplyEvents(batch), unread \ batch \subseteq unread',
           ~ starting, UNCHANGED <<starting, lost>>
    PROVE  Hears
<1>1. logged \in 0..logged /\ logged \in Nat /\ lock' = After(batch)[logged]
  BY DEF TypeOK, ApplyEvents
<1>2. Knows(After(batch)[logged], batch, logged)
  BY <1>1, AfterKnows
<1>3. PICK l : l = lock'
  OBVIOUS
<1>4. Knows(l, batch, logged)
  BY <1>1, <1>2, <1>3
<1>5. /\ IsOfBolt(l.bolt, l.changed) /\ l.changed \in Int /\ l.changed <= turnedAt
      /\ turnedAt \in Int
  BY <1>4 DEF Knows, IsOfBolt, TypeOK
<1>6. lock.changed = turnedAt => l.changed = turnedAt
  BY <1>4, <1>5 DEF Knows
<1>7. ASSUME NEW event \in unread, event.kind \in BoltReports, event.time = turnedAt,
             event \notin unread'
      PROVE  l.changed = turnedAt
  <2>1. event \in batch /\ event.id <= logged
    BY <1>7 DEF EventsAreNumbered
  <2>2. l.changed >= event.time
    BY <1>4, <1>7, <2>1 DEF Knows
  <2> QED BY <1>5, <1>7, <2>2
<1>8. lock'.opened = lock.opened
  BY EventsRemain DEF Remains, TypeOK, Read
<1> QED BY <1>3, <1>5, <1>6, <1>7, <1>8 DEF Hears

LEMMA DeviceIsHeard ==
    ASSUME TypeOK, TurnsAreReported, NEW report \in Readings,
           NEW l \in LockType, l.changed = None \/ IsOfBolt(l.bolt, l.changed),
           NEW n, n = UpdateFromDevice(l, report)
    PROVE  /\ IsOfBolt(n.bolt, n.changed)
           /\ n.opened = l.opened
           /\ n.changed \in Int /\ n.changed >= report.changed
           /\ l.changed # None => n.changed >= l.changed
<1>1. report \in Report /\ now \in Nat /\ turnedAt \in Int
  BY DEF TypeOK, Readings
<1>2. PICK known : known = UpdateBolt(l, report.bolt, report.changed)
  OBVIOUS
<1>3. n.bolt = known.bolt /\ n.changed = known.changed /\ n.opened = l.opened
  BY <1>1, <1>2, UpdateFromDeviceIs
<1>4. PICK position \in Bolts : position = report.bolt
  BY DEF TurnsAreReported, IsOfBolt
<1>5. PICK changed \in Times : changed = report.changed /\ IsOfBolt(position, changed)
  BY <1>1, <1>4 DEF TurnsAreReported, Report
<1>6. known = UpdateBolt(l, position, changed)
  BY <1>2, <1>4, <1>5
<1>7. /\ IsOfBolt(known.bolt, known.changed)
      /\ known.changed \in Int /\ known.changed >= changed
      /\ l.changed # None => known.changed >= l.changed
  BY <1>1, <1>5, <1>6, UpdateBoltTakes
<1> QED BY <1>3, <1>5, <1>7

LEMMA DevicePollIsHeard ==
    ASSUME TypeOK, TurnsAreReported, BoltWasReported, NEW report \in Readings,
           lock' = UpdateFromDevice(lock, report), ~ starting, UNCHANGED <<unread, starting>>,
           "turn" \notin lost \/ "turn" \in lost' \/ report.changed = server.changed
    PROVE  Hears
<1>1. PICK n : n = lock'
  OBVIOUS
<1>2. /\ lock \in LockType /\ turnedAt \in Int /\ lock.changed # None
      /\ IsOfBolt(lock.bolt, lock.changed)
  BY DEF TypeOK, BoltWasReported, IsOfBolt
<1>3. /\ IsOfBolt(n.bolt, n.changed)
      /\ n.opened = lock.opened
      /\ n.changed \in Int /\ n.changed >= lock.changed /\ n.changed >= report.changed
  BY <1>1, <1>2, DeviceIsHeard
<1>4. n.changed <= turnedAt
  BY <1>3 DEF IsOfBolt
<1>5. lock.changed = turnedAt => n.changed = turnedAt
  BY <1>2, <1>3, <1>4
<1> QED BY <1>1, <1>3, <1>5 DEF Hears

\* Of setup, the devices' poll says nothing yet, and then what it did.
LEMMA RestartIsHeard == ASSUME TypeOK, Restart PROVE Hears
<1>1. lock.opened \in Times /\ lock' = NewLock(lock.opened) /\ starting'
  BY DEF TypeOK, LockType, Restart
<1>2. PICK opened, new : opened \in Times /\ opened = lock.opened /\ new = NewLock(opened)
  BY <1>1
<1> QED BY <1>1, <1>2, NewLockIs DEF Hears

LEMMA SetUpIsHeard ==
    ASSUME TypeOK, TurnsAreReported, BoltWasReported, SetUp
    PROVE  Hears
<1>1. PICK n : n = lock'
  OBVIOUS
<1>2. /\ lock \in LockType /\ lock.changed = None /\ ~ starting' /\ device \in Readings
      /\ n = UpdateFromDevice(lock, device)
  BY <1>1 DEF TypeOK, BoltWasReported, SetUp, Readings
<1>3. /\ IsOfBolt(n.bolt, n.changed)
      /\ n.opened = lock.opened
      /\ n.changed \in Int /\ n.changed >= device.changed
  BY <1>2, DeviceIsHeard
<1>4. device.changed = server.changed \/ "turn" \in lost'
  BY DEF SetUp
<1> QED BY <1>1, <1>2, <1>3, <1>4 DEF Hears

LEMMA CommandSucceedsIs ==
    ASSUME TypeOK, CommandSucceeds
    PROVE  /\ \/ /\ command.kind = "activate"
                 /\ lock'.since = now /\ lock'.until = now + Duration
              \/ /\ command.kind # "activate"
                 /\ lock'.since = lock.since /\ lock'.until = now
           /\ lock'.bolt = lock.bolt /\ lock'.changed = lock.changed
           /\ lock'.opened = lock.opened
<1> DEFINE idle == [lock EXCEPT !.progress = "none"]
<1>1. /\ idle \in LockType /\ idle.bolt = lock.bolt /\ idle.changed = lock.changed
      /\ idle.opened = lock.opened /\ idle.since = lock.since
  BY DEF TypeOK, LockType
<1>2. \/ command.kind = "activate" /\ lock' = SetActive(idle, now, now + Duration)
      \/ command.kind # "activate" /\ lock' = SetInactive(idle, now)
  BY DEF CommandSucceeds
<1>3. now \in Nat /\ now \in Times /\ now + Duration \in Times
  BY TimesAreNaturals DEF TypeOK, Times
<1> HIDE DEF idle
<1>4. CASE command.kind = "activate" /\ lock' = SetActive(idle, now, now + Duration)
  <2>1. PICK until \in Times : until = now + Duration
    BY <1>3
  <2>2. lock' = SetActive(idle, now, until)
    BY <1>4, <2>1
  <2>3. /\ lock'.since = now /\ lock'.until = until
        /\ lock'.bolt = idle.bolt /\ lock'.changed = idle.changed /\ lock'.opened = idle.opened
    BY <1>1, <1>3, <2>2, SetActiveIs
  <2> QED BY <1>1, <1>4, <2>1, <2>3
<1>5. CASE command.kind # "activate" /\ lock' = SetInactive(idle, now)
  <2>1. /\ lock'.since = idle.since /\ lock'.until = now
        /\ lock'.bolt = idle.bolt /\ lock'.changed = idle.changed /\ lock'.opened = idle.opened
    BY <1>1, <1>3, <1>5, SetInactiveIs
  <2> QED BY <1>1, <1>5, <2>1
<1> QED BY <1>2, <1>4, <1>5

LEMMA TurnKnows ==
    ASSUME TypeOK, Skew = 0, TurnsAreReported, BoltWasReported,
           NEW noticed \in BOOLEAN, Turn(noticed)
    PROVE  TurnsAreReported' /\ BoltWasReported' /\ LastTurnArrives'
<1>1. /\ turnedAt < now /\ turnedAt' = now /\ now' = now /\ now \in Nat /\ turnedAt \in Int
      /\ bolt' \in Bolts /\ lock' = lock /\ missed' = ~ noticed /\ Stamp = now
  BY DEF Turn, TypeOK, Opposite, Bolts, entity, Stamp
<1>2. ASSUME NEW position, NEW at, IsOfBolt(position, at), at \in Times
      PROVE  IsOfBolt(position, at)'
  BY <1>1, <1>2 DEF IsOfBolt, Times
<1>3. /\ server \in Report /\ reading \in Report \cup {None} /\ device \in Report
      /\ \A report \in Readings : report.changed \in Times
      /\ \A event \in Read : event.time \in Times
      /\ logged \in Nat
  BY DEF TypeOK, Readings, Read, Report, Event, Times
<1>4. ASSUME NEW position, NEW at, position = bolt', at = now
      PROVE  IsOfBolt(position, at)'
  BY <1>1, <1>4, NoneIsNoTime DEF IsOfBolt
<1>5. TurnsAreReported' /\ (missed' \/ LastTurnArrives')
  <2>1. CASE noticed
    <3> DEFINE new == [id |-> logged + 1, kind |-> bolt', time |-> Stamp, keep |-> None]
    <3>1. Reports(bolt', None) /\ UNCHANGED polls
      BY <2>1 DEF Turn
    <3>2. /\ unread' = unread \cup {new} /\ Read' = Read \cup {new}
          /\ Readings' \subseteq Readings \cup {server'}
          /\ new.kind = bolt' /\ new.time = now
      BY <1>1, <1>3, <3>1, ReportsAre
    <3> HIDE DEF new
    <3>3. server' = [server EXCEPT !.bolt = bolt', !.changed = Stamp]
      BY <1>1, <3>1 DEF Reports, BoltReports, Bolts
    <3>4. server'.bolt = bolt' /\ server'.changed = now
      BY <1>1, <1>3, <3>3 DEF Report
    <3>5. \A report \in Readings' : IsOfBolt(report.bolt, report.changed)'
      <4> SUFFICES ASSUME NEW report \in Readings'
                   PROVE  IsOfBolt(report.bolt, report.changed)'
        OBVIOUS
      <4>1. CASE report = server'
        BY <1>4, <3>4, <4>1
      <4>2. CASE report \in Readings
        BY <1>2, <1>3, <4>2 DEF TurnsAreReported
      <4> QED BY <3>2, <4>1, <4>2
    <3>6. \A event \in Read' :
              event.kind \in BoltReports => IsOfBolt(event.kind, event.time)'
      <4> SUFFICES ASSUME NEW event \in Read', event.kind \in BoltReports
                   PROVE  IsOfBolt(event.kind, event.time)'
        OBVIOUS
      <4>1. CASE event = new
        BY <1>4, <3>2, <4>1
      <4>2. CASE event \in Read
        BY <1>2, <1>3, <4>2 DEF TurnsAreReported
      <4> QED BY <3>2, <4>1, <4>2
    <3>7. turnedAt' <= now'
      BY <1>1
    <3>8. LastTurnArrives'
      BY <1>1, <3>2, <3>4 DEF LastTurnArrives, BoltReports
    <3> QED BY <3>5, <3>6, <3>7, <3>8 DEF TurnsAreReported
  <2>2. CASE ~ noticed
    <3>1. UNCHANGED <<server, unread, events, device, reading>>
      BY <2>2 DEF Turn, bold, polls
    <3>2. Read' = Read /\ Readings' = Readings
      BY <3>1 DEF Read, Readings
    <3>3. \A report \in Readings' : IsOfBolt(report.bolt, report.changed)'
      BY <1>2, <1>3, <3>2 DEF TurnsAreReported
    <3>4. \A event \in Read' :
              event.kind \in BoltReports => IsOfBolt(event.kind, event.time)'
      BY <1>2, <1>3, <3>2 DEF TurnsAreReported
    <3>5. turnedAt' <= now'
      BY <1>1
    <3> QED BY <1>1, <2>2, <3>3, <3>4, <3>5 DEF TurnsAreReported
  <2> QED BY <2>1, <2>2
<1>6. BoltWasReported'
  <2>1. lock.changed \in Times /\ lock.opened \in Times
    BY DEF TypeOK, LockType
  <2>2. (IF starting THEN lock.changed = None ELSE IsOfBolt(lock.bolt, lock.changed))'
    <3>1. IF starting THEN lock.changed = None ELSE IsOfBolt(lock.bolt, lock.changed)
      BY DEF BoltWasReported
    <3>2. starting' = starting
      BY DEF Turn, polls
    <3> QED BY <1>1, <1>2, <2>1, <3>1, <3>2
  <2>3. lock'.opened # None =>
            lock'.opened <= now' /\ (bolt' = "locked" => lock'.opened <= turnedAt')
    BY <1>1, <2>1 DEF BoltWasReported, Times
  <2> QED BY <2>2, <2>3 DEF BoltWasReported
<1> QED BY <1>5, <1>6 DEF LastTurnArrives

LEMMA DoorKnows ==
    ASSUME TypeOK, TurnsAreReported, BoltWasReported, DoorOpens
    PROVE  TurnsAreReported' /\ BoltWasReported' /\ LastTurnArrives'
<1>1. /\ lock' = [lock EXCEPT !.opened = now] /\ bolt = "unlocked" /\ bolt' = bolt
      /\ UNCHANGED <<now, turnedAt, server, unread, polls>> /\ ~ starting
  BY DEF DoorOpens
<1>2. /\ lock'.bolt = lock.bolt /\ lock'.changed = lock.changed /\ lock'.opened = now
      /\ now # None /\ now \in Nat /\ turnedAt \in Int
  BY <1>1, NoneIsNoTime DEF TypeOK, LockType
<1>3. TurnsAreReported'
  BY <1>1 DEF TurnsAreReported, Readings, Read, polls, IsOfBolt
<1>4. BoltWasReported'
  BY <1>1, <1>2 DEF BoltWasReported, IsOfBolt, polls
<1>5. DoorShows'
  BY <1>1, <1>2 DEF DoorShows, TurnsAreReported
<1> QED BY <1>3, <1>4, <1>5 DEF LastTurnArrives

\* An activation's reports say nothing of the bolt.
LEMMA ActivationKnows ==
    ASSUME TypeOK, TurnsAreReported, BoltWasReported, LastTurnArrives,
           NEW kind \in {"activation", "deactivation"}, NEW keep, Reports(kind, keep),
           UNCHANGED <<now, bolt, turnedAt, missed, polls, entity>>
    PROVE  TurnsAreReported' /\ BoltWasReported' /\ LastTurnArrives'
<1> DEFINE new == [id |-> logged + 1, kind |-> kind, time |-> Stamp, keep |-> keep]
<1>1. /\ unread' = unread \cup {new} /\ Read' = Read \cup {new}
      /\ Readings' \subseteq Readings \cup {server'}
      /\ new.kind \notin BoltReports
  BY ReportsAre DEF TypeOK, BoltReports, Bolts
<1> HIDE DEF new
<1>2. server'.bolt = server.bolt /\ server'.changed = server.changed /\ server \in Readings
  BY DEF Reports, TypeOK, Report, BoltReports, Bolts, Readings
<1>3. \A report \in Readings' : IsOfBolt(report.bolt, report.changed)'
  BY <1>1, <1>2 DEF TurnsAreReported, IsOfBolt
<1>4. \A event \in Read' : event.kind \in BoltReports => IsOfBolt(event.kind, event.time)'
  BY <1>1 DEF TurnsAreReported, IsOfBolt
<1>5. TurnsAreReported'
  BY <1>3, <1>4 DEF TurnsAreReported
<1>6. BoltWasReported'
  BY DEF BoltWasReported, IsOfBolt, entity, polls
<1>7. LastTurnArrives'
  <2>1. "turn" \in lost => "turn" \in lost'
    BY DEF Reports, BoltReports, Bolts
  <2> QED BY <1>1, <1>2, <2>1 DEF LastTurnArrives, DoorShows, entity, polls
<1> QED BY <1>5, <1>6, <1>7

\* What was lost of the bolt, every step leaves for the next device poll.
LEMMA NextLost == TypeOK /\ LostTurnIsRead /\ [Next]_vars => LostTurnIsRead'
<1> SUFFICES ASSUME TypeOK, LostTurnIsRead, [Next]_vars PROVE LostTurnIsRead'
  OBVIOUS
<1> USE DEF LostTurnIsRead
<1>1. CASE UNCHANGED <<reading, starting>>
  <2>1. CASE "turn" \in lost' => "turn" \in lost /\ server'.changed = server.changed
    BY <1>1, <2>1
  <2>2. CASE SetUp
    BY <1>1, <2>2 DEF SetUp
  <2>3. CASE \E kind \in BoltReports \cup {"activation", "deactivation"} :
                \E keep : Reports(kind, keep)
    BY <1>1, <2>3 DEF Reports, TypeOK, Report, BoltReports, Bolts
  <2>4. CASE TurnNoticed
    BY <2>3, <2>4 DEF TurnNoticed, Turn, Opposite, BoltReports, Bolts
  <2>5. CASE SomeoneActs \/ CommandExecutes
    BY <2>1, <2>3, <2>5 DEF SomeoneActs, CommandExecutes, Activate, Deactivate, bold
  <2> QED BY <2>1, <2>2, <2>4, <2>5
          DEF Next, TurnMissed, Turn, DoorOpens, ReadEvents, EventPollFails, DevicePollAnswered,
              DevicePollArrives, DevicePollFails, Unlock, Lock, Send, CommandSucceeds,
              CommandFails, CommandCrashes, Expired, Restart, Tick, Ended, vars, bold
<1>2. CASE DevicePollAnswered
  BY <1>2 DEF DevicePollAnswered, bold
<1>3. CASE DevicePollArrives \/ DevicePollFails \/ Restart
  BY <1>3 DEF DevicePollArrives, DevicePollFails, Restart, bold
<1>4. CASE SetUp
  BY <1>4 DEF SetUp
<1> QED BY <1>1, <1>2, <1>3, <1>4
        DEF Next, TurnNoticed, TurnMissed, Turn, DoorOpens, SomeoneActs, ReadEvents,
            EventPollFails, Unlock, Lock, Send, CommandExecutes, CommandSucceeds, CommandFails,
            CommandCrashes, Expired, Tick, Ended, vars, polls

LEMMA NextBolt ==
    TypeOK /\ EventsAreNumbered /\ BoltInvariant /\ [Next]_vars => BoltInvariant'
<1> SUFFICES ASSUME TypeOK, EventsAreNumbered, BoltInvariant, [Next]_vars,
                    Skew = 0, ReportsBolt
             PROVE  TurnsAreReported' /\ BoltWasReported' /\ LastTurnArrives'
  BY TimesPass, NextLost DEF BoltInvariant, Skew, ReportsBolt
<1>1. TurnsAreReported /\ BoltWasReported /\ LastTurnArrives /\ LostTurnIsRead
  BY DEF BoltInvariant
<1>2. CASE TurnNoticed \/ TurnMissed
  BY <1>1, <1>2, TurnKnows DEF TurnNoticed, TurnMissed
<1>3. CASE DoorOpens
  BY <1>1, <1>3, DoorKnows
<1>4. CASE Speaks /\ ~ TurnNoticed
  <2>1. PICK kind \in {"activation", "deactivation"} : \E keep : Reports(kind, keep)
    BY <1>4 DEF Speaks, Activate, Deactivate
  <2> QED BY <1>1, <1>4, <2>1, ActivationKnows DEF Speaks
<1>5. ASSUME Silent, UNCHANGED <<bolt, turnedAt, missed>>, Hears
      PROVE  TurnsAreReported' /\ BoltWasReported' /\ LastTurnArrives'
  BY <1>1, <1>5, HearingKnows
<1>6. ASSUME lock'.bolt = lock.bolt, lock'.changed = lock.changed, lock'.opened = lock.opened,
             unread' = unread, starting' = starting, "turn" \in lost => "turn" \in lost'
      PROVE  Hears
  BY <1>1, <1>6 DEF Hears, BoltWasReported
<1>7. CASE ReadEvents /\ Silent
  <2>1. PICK batch \in SUBSET unread :
            /\ unread' = unread \ batch /\ ApplyEvents(batch)
            /\ ~ starting /\ UNCHANGED <<starting, lost>>
    BY <1>7 DEF ReadEvents
  <2>2. Hears
    BY <1>1, <2>1, EventsAreHeard DEF Read
  <2> QED BY <1>5, <1>7, <2>2 DEF ReadEvents, world
<1>8. CASE EventPollFails /\ Silent
  <2>1. Hears
    BY <1>1, <1>8, EventsAreHeard DEF EventPollFails, Read, bold, polls
  <2> QED BY <1>5, <1>8, <2>1 DEF EventPollFails, world
<1>9. CASE DevicePollArrives /\ Silent
  <2>1. /\ reading \in Readings /\ lock' = UpdateFromDevice(lock, reading)
        /\ ~ starting /\ UNCHANGED <<unread, starting>>
        /\ "turn" \in lost => reading.changed = server.changed
    BY <1>1, <1>9 DEF DevicePollArrives, Readings, LostTurnIsRead
  <2>2. Hears
    BY <1>1, <2>1, DevicePollIsHeard
  <2> QED BY <1>5, <1>9, <2>2 DEF DevicePollArrives, world
<1>10. CASE DevicePollFails /\ Silent
  <2>1. /\ device \in Readings /\ lock' = UpdateFromDevice(lock, device)
        /\ ~ starting /\ UNCHANGED <<unread, starting, lost>>
    BY <1>10 DEF DevicePollFails, Readings, bold
  <2>2. Hears
    BY <1>1, <2>1, DevicePollIsHeard
  <2> QED BY <1>5, <1>10, <2>2 DEF DevicePollFails, world
<1>11. CASE Restart /\ Silent
  BY <1>5, <1>11, RestartIsHeard DEF Restart, world
<1>14. CASE SetUp /\ Silent
  BY <1>1, <1>5, <1>14, SetUpIsHeard DEF SetUp, world
<1>12. CASE CommandSucceeds /\ Silent
  <2>1. Hears
    BY <1>6, <1>12, CommandSucceedsIs DEF CommandSucceeds, bold, polls
  <2> QED BY <1>5, <1>12, <2>1 DEF CommandSucceeds, world
<1>13. CASE /\ \/ SomeoneActs \/ DevicePollAnswered \/ Unlock \/ Lock \/ CommandExecutes
               \/ CommandFails \/ CommandCrashes \/ Expired \/ Tick \/ Ended \/ UNCHANGED vars
            /\ Silent
  <2>1. /\ UNCHANGED <<bolt, turnedAt, missed>>
        /\ \/ lock' = lock
           \/ lock' = [lock EXCEPT !.expiry = None]
           \/ \E p \in {"none", "locking", "unlocking"} : lock' = [lock EXCEPT !.progress = p]
    BY <1>13 DEF SomeoneActs, DevicePollAnswered, Unlock, Lock, Send, CommandExecutes,
                 CommandFails, CommandCrashes, Expired, Tick, Ended, vars, entity, world
  <2>2. lock'.bolt = lock.bolt /\ lock'.changed = lock.changed /\ lock'.opened = lock.opened
    BY <2>1 DEF TypeOK, LockType
  <2>3. unread \subseteq unread'
    BY <1>13 DEF SomeoneActs, Activate, Deactivate, Reports, DevicePollAnswered, Unlock, Lock,
                 Send, CommandExecutes, CommandFails, CommandCrashes, Expired, Tick, Ended,
                 vars, bold
  <2>5. starting' = starting /\ ("turn" \in lost => "turn" \in lost')
    BY <1>13 DEF SomeoneActs, Activate, Deactivate, Reports, BoltReports, Bolts,
                 DevicePollAnswered, Unlock, Lock, Send, CommandExecutes, CommandFails,
                 CommandCrashes, Expired, Tick, Ended, vars, bold, polls
  <2>4. Hears
    BY <1>6, <1>13, <2>2, <2>3, <2>5 DEF Silent
  <2> QED BY <1>5, <1>13, <2>1, <2>4
<1> QED BY <1>2, <1>3, <1>4, <1>7, <1>8, <1>9, <1>10, <1>11, <1>12, <1>13, <1>14,
           SpeaksOrSilent DEF Next

LEMMA InitBolt == Init => BoltInvariant
<1> SUFFICES ASSUME Init, Skew = 0, ReportsBolt
             PROVE  TurnsAreReported /\ BoltWasReported /\ LastTurnArrives /\ LostTurnIsRead
  BY DEF BoltInvariant
<1>1. /\ TypeOK /\ now = 0 /\ turnedAt = -1 /\ bolt \in Bolts
      /\ unread = {} /\ events = {} /\ reading = None /\ device = server
      /\ starting = FALSE /\ lost = {}
  BY InitTypes DEF Init
<1>2. server.bolt = bolt /\ server.changed = turnedAt /\ turnedAt \in Int
  BY <1>1 DEF Init
<1>3. TurnsAreReported
  BY <1>1, <1>2, NoneIsNoTime DEF TurnsAreReported, Readings, Read, IsOfBolt
<1>4. PICK new : new = NewLock(None)
  OBVIOUS
<1>5. new \in LockType /\ new.changed = None /\ new.opened = None
  BY <1>4, NewLockIs DEF Times
<1>6. lock = UpdateFromDevice(new, server) /\ server \in Readings
  BY <1>1, <1>4 DEF Init, Readings
<1>7. IsOfBolt(lock.bolt, lock.changed) /\ lock.opened = None
  BY <1>1, <1>3, <1>5, <1>6, DeviceIsHeard
<1>8. lock.changed \in Int /\ lock.changed >= server.changed
  BY <1>1, <1>3, <1>5, <1>6, DeviceIsHeard
<1>9. lock.changed = turnedAt
  BY <1>2, <1>7, <1>8 DEF IsOfBolt
<1> QED BY <1>1, <1>2, <1>3, <1>7, <1>9 DEF BoltWasReported, LastTurnArrives, LostTurnIsRead

LEMMA BoltIsRight == ASSUME TypeOK, BoltInvariant PROVE BoltSettles
<1> SUFFICES ASSUME Skew = 0, ReportsBolt, ~ missed, ~ starting, "turn" \notin lost,
                    \A event \in unread : event.kind \notin BoltReports
             PROVE  Bolt(lock) = bolt
  BY DEF BoltSettles, BoltIsKnown
<1>1. BoltWasReported /\ LastTurnArrives
  BY DEF BoltInvariant
<1>2. /\ lock.bolt \in Bolts /\ lock.changed \in Int /\ lock.changed <= turnedAt
      /\ lock.changed = turnedAt => lock.bolt = bolt
      /\ lock.opened \in Times /\ turnedAt \in Int /\ bolt \in Bolts /\ lock.changed # None
  BY <1>1 DEF BoltWasReported, IsOfBolt, TypeOK, LockType, Times
<1>3. CASE DoorShows
  BY <1>2, <1>3 DEF DoorShows, Bolt, Bolts, Times
<1>4. CASE ~ DoorShows
  <2>1. lock.changed = turnedAt
    BY <1>1, <1>4 DEF LastTurnArrives
  <2>2. bolt = "locked" => lock.opened = None \/ lock.opened <= turnedAt
    BY <1>1 DEF BoltWasReported
  <2> QED BY <1>2, <2>1, <2>2 DEF Bolt, Bolts, Times
<1> QED BY <1>3, <1>4

\* Of a lock whose clock is right, the entity knows the bolt once every report
\* of a turn arrived, by event or poll and in any order, twice or late.  Excepted
\* are a turn the lock missed, until the door shows it, and one reported between
\* the two first polls of setup, until the next device poll.
THEOREM BoltEndsKnown == Spec => []BoltSettles
<1>1. TypeOK /\ BoltInvariant => BoltSettles
  BY BoltIsRight
<1> QED BY <1>1, InitBolt, NextBolt, LockTypeCorrect, EventsStayNumbered, PTL DEF Spec

-----------------------------------------------------------------------------
(* An activation that was ended stays ended                                *)

InTime(l) ==
    /\ l.since # None => l.since <= now
    /\ l.until # None => l.until <= now + Duration

\* What an event makes of an activation, if it comes in time.
LEMMA ApplyInTime ==
    ASSUME TypeOK, ReportsInTime, NEW l \in LockType, InTime(l), NEW event \in Read,
           NEW m, m = ApplyEvent(l, event)
    PROVE  /\ m \in LockType /\ InTime(m)
           /\ event.time \in Int /\ event.time <= now
           /\ event.kind \in BoltReports => m.since = l.since /\ m.until = l.until
           /\ event.kind = "activation" =>
                  \/ m.since = l.since /\ m.until = l.until
                  \/ m.since = event.time /\ m.until = event.time + Duration
           /\ event.kind = "deactivation" =>
                  \/ m.since = l.since /\ m.until = event.time
                  \/ m = l /\ l.since # None /\ event.time < l.since
<1>1. now \in Nat /\ event \in Event /\ Duration \in Nat
  BY TimesAreNaturals DEF TypeOK, Read
<1>2. PICK time \in Int : time = event.time /\ time <= now
  BY <1>1 DEF Event, ReportsInTime
<1>3. TimeNoLaterThanNow(event) = time
  BY <1>1, <1>2, TimeNoLaterThanNowIs
<1>4. event.keep = None /\ Later(time + Duration, event.keep) = time + Duration
  BY DEF ReportsInTime, Later
<1>5. event.kind \in BoltReports \cup {"activation", "deactivation"}
  BY <1>1 DEF Event
<1>6. m \in LockType
  BY <1>1, ApplyEventIs
<1>7. event.kind \in BoltReports => m.since = l.since /\ m.until = l.until
  BY <1>1, ApplyEventIs
<1>8. event.kind = "activation" => m = l \/ (m.since = time /\ m.until = time + Duration)
  BY <1>1, <1>3, <1>4, ApplyEventIs
<1>9. event.kind = "deactivation" =>
          \/ m = l /\ l.since # None /\ time < l.since
          \/ m.since = l.since /\ m.until = time
  BY <1>1, <1>3, ApplyEventIs
<1>10. \/ m.since = l.since /\ m.until = l.until
       \/ m.since = time /\ m.until = time + Duration
       \/ m.since = l.since /\ m.until = time
  BY <1>5, <1>7, <1>8, <1>9
<1>11. InTime(m)
  BY <1>1, <1>2, <1>10 DEF InTime
<1> QED BY <1>2, <1>6, <1>7, <1>8, <1>9, <1>11

\* The lock after the first n events, where the k-th ended what there was: if
\* k is 0, that had ended before; if k is beyond them all, it is still to come.
Ends(l, n, k) ==
    /\ l \in LockType /\ InTime(l)
    /\ l.since # None => l.since <= endsAt
    /\ k <= n => IsOver(l)

\* All activations came before it.
LEMMA AfterEnds ==
    ASSUME TypeOK, EventsAreNumbered, ReportsInTime, LockInTime, EndArrives, Deactivated,
           NEW batch, batch \subseteq Read, NEW k \in Nat,
           \A event \in batch : event.kind = "activation" => event.id < k,
           \/ k = 0 /\ IsOver(lock)
           \/ \E event \in batch : event.id = k /\ IsEnd(event)
           \/ k > logged,
           "end" \notin lost
    PROVE  \A n \in 0..logged : Ends(After(batch)[n], n, k)
<1> DEFINE holds == [n \in 0..logged |-> Ends(After(batch)[n], n, k)]
<1>1. /\ now \in Nat /\ logged \in Nat /\ lock \in LockType /\ endsAt \in Int /\ endsAt <= now
      /\ Duration \in Nat /\ Latency \in Nat
  BY TimesAreNaturals DEF TypeOK, EndArrives
<1>2. holds \in [0..logged -> BOOLEAN]
  BY DEF Ends
<1>3. holds[0]
  <2>1. 0 \in 0..logged /\ After(batch)[0] = lock
    BY <1>1, AfterIs
  <2>2. k = 0 => IsOver(lock)
    BY <1>1 DEF EventsAreNumbered
  <2>3. InTime(lock) /\ (lock.since # None => lock.since <= endsAt)
    BY DEF LockInTime, InTime, EndArrives
  <2>4. Ends(lock, 0, k)
    BY <1>1, <2>2, <2>3 DEF Ends
  <2> QED BY <2>1, <2>4
<1>4. ASSUME NEW n \in 1..logged, holds[n - 1] PROVE holds[n]
  <2>1. PICK l : l = After(batch)[n - 1]
    OBVIOUS
  <2>2. n - 1 \in 0..logged /\ Ends(l, n - 1, k)
    <3>1. n - 1 \in 0..logged
      BY <1>1
    <3> QED BY <1>4, <2>1, <3>1
  <2>3. /\ l \in LockType /\ InTime(l) /\ (l.since # None => l.since <= endsAt)
        /\ k <= n - 1 => IsOver(l)
    BY <2>2 DEF Ends
  <2>4. CASE /\ \A event \in batch : event.id # n
             /\ After(batch)[n] = After(batch)[n - 1]
    <3>1. k # n
      BY <1>1, <2>4
    <3>2. k <= n => k <= n - 1
      BY <1>1, <3>1
    <3>3. Ends(l, n, k)
      BY <2>3, <3>2 DEF Ends
    <3> QED BY <2>1, <2>4, <3>3
  <2>5. ASSUME NEW event \in batch, event.id = n,
               After(batch)[n] = ApplyEvent(After(batch)[n - 1], event)
        PROVE  Ends(After(batch)[n], n, k)
    <3>1. PICK m : m = ApplyEvent(l, event)
      OBVIOUS
    <3>2. m \in LockType /\ InTime(m) /\ event.time \in Int /\ event.time <= now
      BY <2>3, <3>1, ApplyInTime
    <3>3. PICK time \in Int : time = event.time /\ time <= now
      BY <3>2
    <3>4. event.kind \in BoltReports \cup {"activation", "deactivation"}
      BY DEF TypeOK, Read, Event
    <3>5. CASE event.kind \in BoltReports
      <4>1. m.since = l.since /\ m.until = l.until
        BY <2>3, <3>1, <3>5, ApplyInTime
      <4>2. k # n
        <5>1. SUFFICES ASSUME k = n PROVE FALSE
          OBVIOUS
        <5>2. PICK end \in batch : end.id = k /\ IsEnd(end)
          BY <1>1, <5>1
        <5>3. end = event
          BY <2>5, <5>1, <5>2 DEF EventsAreNumbered
        <5> QED BY <3>5, <5>2, <5>3 DEF IsEnd, BoltReports, Bolts
      <4>3. k <= n => IsOver(m)
        BY <2>3, <4>1, <4>2 DEF IsOver
      <4>4. Ends(m, n, k)
        BY <2>3, <3>2, <4>1, <4>3 DEF Ends
      <4> QED BY <2>1, <2>5, <3>1, <4>4
    <3>6. CASE event.kind = "activation"
      <4>1. \/ m.since = l.since
            \/ m.since = time
        BY <2>3, <3>1, <3>3, <3>6, ApplyInTime
      <4>2. time <= endsAt
        BY <3>3, <3>6 DEF EndArrives
      <4>3. ~ (k <= n)
        BY <2>5, <3>6
      <4>4. Ends(m, n, k)
        BY <2>3, <3>2, <4>1, <4>2, <4>3 DEF Ends
      <4> QED BY <2>1, <2>5, <3>1, <4>4
    <3>7. CASE event.kind = "deactivation"
      <4>1. CASE m.since = l.since /\ m.until = time
        <5>1. IsOver(m)
          BY <3>3, <4>1 DEF IsOver
        <5>2. Ends(m, n, k)
          BY <2>3, <3>2, <4>1, <5>1 DEF Ends
        <5> QED BY <2>1, <2>5, <3>1, <5>2
      <4>2. CASE m = l /\ l.since # None /\ time < l.since
        <5>1. time # endsAt
          BY <1>1, <2>3, <3>3, <4>2 DEF LockType, Times
        <5>2. k # n
          <6>1. SUFFICES ASSUME k = n PROVE FALSE
            OBVIOUS
          <6>2. PICK end \in batch : end.id = k /\ IsEnd(end)
            BY <1>1, <6>1
          <6>3. end = event
            BY <2>5, <6>1, <6>2 DEF EventsAreNumbered
          <6> QED BY <3>3, <5>1, <6>2, <6>3 DEF IsEnd
        <5>3. k <= n => k <= n - 1
          BY <1>1, <5>2
        <5>4. Ends(m, n, k)
          BY <2>3, <4>2, <5>3 DEF Ends
        <5> QED BY <2>1, <2>5, <3>1, <5>4
      <4> QED BY <2>3, <3>1, <3>3, <3>7, <4>1, <4>2, ApplyInTime
    <3> QED BY <3>4, <3>5, <3>6, <3>7
  <2>6. Ends(After(batch)[n], n, k)
    BY <1>1, <2>4, <2>5, AfterNext
  <2> QED BY <2>6
<1> HIDE DEF holds
<1>5. \A n \in 0..logged : holds[n]
  BY <1>1, <1>2, <1>3, <1>4, OneAfterTheOther
<1> QED BY <1>5 DEF holds

\* The lock while its activation lasts, if it does.
Lasts(l) == l \in LockType /\ InTime(l) /\ (~ Deactivated => IsOver(l))

LEMMA AfterLasts ==
    ASSUME TypeOK, ReportsInTime, LockInTime, ActivationLasts,
           NEW batch, batch \subseteq Read
    PROVE  \A n \in 0..logged : Lasts(After(batch)[n])
<1> DEFINE holds == [n \in 0..logged |-> Lasts(After(batch)[n])]
<1>1. /\ now \in Nat /\ logged \in Nat /\ lock \in LockType /\ endsAt \in Int
      /\ Duration \in Nat /\ Latency \in Nat
  BY TimesAreNaturals DEF TypeOK
<1>2. holds \in [0..logged -> BOOLEAN]
  BY DEF Lasts
<1>3. holds[0]
  <2>1. 0 \in 0..logged /\ After(batch)[0] = lock
    BY <1>1, AfterIs
  <2>2. Lasts(lock)
    BY <1>1 DEF Lasts, LockInTime, InTime, ActivationLasts
  <2> QED BY <2>1, <2>2
<1>4. ASSUME NEW n \in 1..logged, holds[n - 1] PROVE holds[n]
  <2>1. PICK l : l = After(batch)[n - 1]
    OBVIOUS
  <2>2. l \in LockType /\ InTime(l) /\ (~ Deactivated => IsOver(l))
    <3>1. n - 1 \in 0..logged
      BY <1>1
    <3>2. Lasts(l)
      BY <1>4, <2>1, <3>1
    <3> QED BY <3>2 DEF Lasts
  <2>3. CASE After(batch)[n] = After(batch)[n - 1]
    <3>1. Lasts(l)
      BY <2>2 DEF Lasts
    <3> QED BY <2>1, <2>3, <3>1
  <2>4. ASSUME NEW event \in batch, After(batch)[n] = ApplyEvent(After(batch)[n - 1], event)
        PROVE  Lasts(After(batch)[n])
    <3>1. PICK m : m = ApplyEvent(l, event)
      OBVIOUS
    <3>2. m \in LockType /\ InTime(m) /\ event.time \in Int /\ event.time <= now
      BY <2>2, <3>1, ApplyInTime
    <3>3. PICK time \in Int : time = event.time /\ time <= now
      BY <3>2
    <3>4. event.kind \in BoltReports \cup {"activation", "deactivation"}
      BY DEF TypeOK, Read, Event
    <3>5. \/ m.until = l.until
          \/ m.until = time + Duration /\ (~ Deactivated => time + Duration <= endsAt)
          \/ m.until = time
      <4>1. event.kind = "activation" /\ ~ Deactivated => time + Duration <= endsAt
        BY <3>3 DEF ActivationLasts
      <4>2. event.kind \in BoltReports => m.until = l.until
        BY <2>2, <3>1, ApplyInTime
      <4>3. event.kind = "activation" => m.until = l.until \/ m.until = time + Duration
        BY <2>2, <3>1, <3>3, ApplyInTime
      <4>4. event.kind = "deactivation" => m.until = l.until \/ m.until = time
        BY <2>2, <3>1, <3>3, ApplyInTime
      <4> QED BY <3>4, <4>1, <4>2, <4>3, <4>4
    <3>6. ~ Deactivated => IsOver(m)
      BY <1>1, <2>2, <3>3, <3>5 DEF IsOver
    <3>7. Lasts(m)
      BY <3>2, <3>6 DEF Lasts
    <3> QED BY <2>1, <2>4, <3>1, <3>7
  <2>5. Lasts(After(batch)[n])
    BY <1>1, <2>3, <2>4, AfterNext
  <2> QED BY <2>5
<1> HIDE DEF holds
<1>5. \A n \in 0..logged : holds[n]
  BY <1>1, <1>2, <1>3, <1>4, OneAfterTheOther
<1> QED BY <1>5 DEF holds

\* That a step leaves an end to be heard, if there is one that is not lost.
StaysEnded ==
    /\ InTime(lock')
    /\ Deactivated =>
           /\ lock'.since = None \/ lock'.since <= endsAt \/ "end" \in lost'
           /\ IsOver(lock') \/ "end" \in lost' \/ \E e \in unread' : IsEnd(e)
           /\ (\E e \in Read' : e.kind = "activation") => \E e \in Read' : IsEnd(e)
    /\ ~ Deactivated => IsOver(lock')

Parts == ReportsInTime /\ LockInTime /\ EndArrives /\ ActivationLasts

LEMMA SilenceEnds ==
    ASSUME TypeOK, Parts, Silent, now' = now, StaysEnded, reading' \in {None, server},
           device' \in {device, server},
           \A e \in events', f \in unread' : e.id < f.id
    PROVE  Parts'
<1>1. UNCHANGED <<endsAt, server, now>> /\ Read' \subseteq Read
  BY DEF Silent
<1>2. ReportsInTime'
  <2>1. endsAt \in Int /\ now \in Nat /\ Duration \in Nat
    BY TimesAreNaturals DEF TypeOK
  <2>2. device'.until # None =>
            device'.until <= now + Duration /\ (~ Deactivated => device'.until <= endsAt)
    <3>1. CASE device' = device
      BY <3>1 DEF Parts, ReportsInTime
    <3>2. CASE device' = server
      BY <2>1, <3>2 DEF Parts, ReportsInTime
    <3> QED BY <3>1, <3>2
  <2> QED BY <1>1, <2>2 DEF Parts, ReportsInTime, Deactivated
<1>3. LockInTime'
  BY <1>1 DEF StaysEnded, InTime, LockInTime
<1>4. Deactivated' <=> Deactivated
  BY <1>1 DEF Deactivated
<1>5. \A e : IsEnd(e) => IsEnd(e)'
  BY <1>1 DEF IsEnd
<1>6. IsOver(lock') => IsOver(lock)'
  BY <1>1 DEF IsOver
<1>7. EndArrives'
  <2> SUFFICES ASSUME Deactivated
               PROVE  /\ endsAt' <= now'
                      /\ lock'.since = None \/ lock'.since <= endsAt' \/ "end" \in lost'
                      /\ \A e \in Read' : e.kind = "activation" => e.time <= endsAt'
                      /\ (\E e \in Read' : e.kind = "activation") => \E e \in Read' : IsEnd(e)'
                      /\ IsOver(lock)' \/ "end" \in lost' \/ \E e \in unread' : IsEnd(e)'
    BY <1>4 DEF EndArrives
  <2>1. endsAt' <= now' /\ \A e \in Read' : e.kind = "activation" => e.time <= endsAt'
    BY <1>1 DEF Parts, EndArrives
  <2>2. lock'.since = None \/ lock'.since <= endsAt' \/ "end" \in lost'
    BY <1>1 DEF StaysEnded
  <2>3. (\E e \in Read' : e.kind = "activation") => \E e \in Read' : IsEnd(e)'
    BY <1>5 DEF StaysEnded
  <2>4. IsOver(lock)' \/ "end" \in lost' \/ \E e \in unread' : IsEnd(e)'
    BY <1>5, <1>6 DEF StaysEnded
  <2> QED BY <2>1, <2>2, <2>3, <2>4
<1>8. ActivationLasts'
  BY <1>1, <1>4, <1>6 DEF Parts, ActivationLasts, StaysEnded
<1> QED BY <1>2, <1>3, <1>7, <1>8 DEF Parts

\* All that was heard came before all that is to be.
LEMMA EndIsToBeRead ==
    ASSUME TypeOK, EventsAreNumbered, Parts, Deactivated,
           NEW a \in unread, a.kind = "activation"
    PROVE  \E e \in unread : IsEnd(e)
<1>1. PICK end \in Read : IsEnd(end)
  BY DEF Parts, EndArrives, Read
<1>2. a \in Read /\ a.id \in Nat /\ end.id \in Nat
  BY DEF TypeOK, Event, Read
<1>3. a.id < end.id
  BY <1>1, <1>2 DEF IsEnd
<1>4. ~ (end.id < a.id)
  BY <1>2, <1>3
<1>5. end \notin events
  BY <1>4 DEF Parts, ReportsInTime
<1> QED BY <1>1, <1>5 DEF Read

LEMMA AllEventsEnd ==
    ASSUME TypeOK, EventsAreNumbered, Parts, Deactivated, "end" \notin lost,
           NEW batch, batch \subseteq Read, ApplyEvents(batch)
    PROVE  /\ InTime(lock')
           /\ lock'.since # None => lock'.since <= endsAt
           /\ /\ \A e \in batch : e.kind = "activation" => \E f \in batch : IsEnd(f)
              /\ IsOver(lock) \/ \E e \in batch : IsEnd(e)
              => IsOver(lock')
<1>1. logged \in 0..logged /\ logged \in Nat /\ lock' = After(batch)[logged]
  BY DEF TypeOK, ApplyEvents
<1>2. PICK l : l = lock'
  OBVIOUS
<1>3. ASSUME NEW k \in Nat,
             \A event \in batch : event.kind = "activation" => event.id < k,
             \/ k = 0 /\ IsOver(lock)
             \/ \E event \in batch : event.id = k /\ IsEnd(event)
             \/ k > logged
      PROVE  Ends(l, logged, k)
  BY <1>1, <1>2, <1>3, AfterEnds DEF Parts
<1>4. \A event \in batch : event.id \in Nat /\ event.id <= logged
  BY <1>1 DEF EventsAreNumbered
<1>5. InTime(l) /\ (l.since # None => l.since <= endsAt)
  <2>1. Ends(l, logged, logged + 1)
    BY <1>1, <1>3, <1>4
  <2> QED BY <2>1 DEF Ends
<1>6. ASSUME NEW end \in batch, IsEnd(end) PROVE IsOver(l)
  <2>1. PICK k \in Nat : k = end.id /\ k <= logged
    BY <1>4
  <2>2. \A event \in batch : event.kind = "activation" => event.id < k
    BY <1>6, <2>1 DEF IsEnd
  <2>3. Ends(l, logged, k)
    BY <1>3, <1>6, <2>1, <2>2
  <2> QED BY <2>1, <2>3 DEF Ends
<1>7. ASSUME IsOver(lock), \A e \in batch : e.kind # "activation" PROVE IsOver(l)
  <2>1. Ends(l, logged, 0)
    BY <1>3, <1>7
  <2> QED BY <1>1, <2>1 DEF Ends
<1> QED BY <1>2, <1>5, <1>6, <1>7

LEMMA AllEventsLast ==
    ASSUME TypeOK, Parts, NEW batch, batch \subseteq Read, ApplyEvents(batch)
    PROVE  InTime(lock') /\ (~ Deactivated => IsOver(lock'))
<1>1. logged \in 0..logged /\ lock' = After(batch)[logged]
  BY DEF TypeOK, ApplyEvents
<1>2. Lasts(After(batch)[logged])
  BY <1>1, AfterLasts DEF Parts
<1> QED BY <1>1, <1>2 DEF Lasts

LEMMA ReadingEnds ==
    ASSUME TypeOK, EventsAreNumbered, Parts, Silent, ReadEvents, "reorder" \notin Environment
    PROVE  Parts'
<1>1. /\ ApplyEvents(unread) /\ unread' = {} /\ events' \in {unread, {}}
      /\ UNCHANGED <<now, server, reading, device, lost>> /\ unread \subseteq Read
  BY DEF ReadEvents, Read
<1>4. InTime(lock')
  BY <1>1, AllEventsLast
<1>2. CASE Deactivated
  <2>1. \A e \in unread : e.kind = "activation" => \E f \in unread : IsEnd(f)
    BY <1>2, EndIsToBeRead
  <2>2. "end" \notin lost =>
            /\ lock'.since # None => lock'.since <= endsAt
            /\ IsOver(lock) \/ (\E e \in unread : IsEnd(e)) => IsOver(lock')
    BY <1>1, <1>2, <2>1, AllEventsEnd
  <2>3. IsOver(lock') \/ "end" \in lost'
    BY <1>1, <1>2, <2>2 DEF Parts, EndArrives
  <2>4. (\E e \in Read' : e.kind = "activation") => \E e \in Read' : IsEnd(e)
    BY <1>1, <2>1 DEF Read
  <2>5. StaysEnded
    BY <1>1, <1>2, <1>4, <2>2, <2>3, <2>4 DEF StaysEnded
  <2> QED BY <1>1, <2>5, SilenceEnds DEF Parts, ReportsInTime
<1>3. CASE ~ Deactivated
  <2>1. StaysEnded
    BY <1>1, <1>3, AllEventsLast DEF StaysEnded
  <2> QED BY <1>1, <2>1, SilenceEnds DEF Parts, ReportsInTime
<1> QED BY <1>2, <1>3

LEMMA RereadingEnds ==
    ASSUME TypeOK, EventsAreNumbered, Parts, Silent, EventPollFails
    PROVE  Parts'
<1>1. /\ ApplyEvents(events) /\ events \subseteq Read
      /\ UNCHANGED <<now, server, reading, device, unread, lost, events, endsAt>>
  BY DEF EventPollFails, Read, world, bold, polls
<1>5. InTime(lock')
  BY <1>1, AllEventsLast
<1>2. \A e \in events', f \in unread' : e.id < f.id
  BY <1>1 DEF Parts, ReportsInTime
<1>3. CASE Deactivated
  <2>1. (\E e \in Read' : e.kind = "activation") => \E e \in Read' : IsEnd(e)
    BY <1>1, <1>3 DEF Read, Parts, EndArrives
  <2>4. CASE "end" \in lost
    <3>1. StaysEnded
      BY <1>1, <1>3, <1>5, <2>1, <2>4 DEF StaysEnded
    <3> QED BY <1>1, <1>2, <3>1, SilenceEnds DEF Parts, ReportsInTime
  <2>2. CASE "end" \notin lost /\ \E e \in unread : IsEnd(e)
    <3>1. InTime(lock') /\ (lock'.since # None => lock'.since <= endsAt)
      BY <1>1, <1>3, <2>2, AllEventsEnd
    <3>2. StaysEnded
      BY <1>1, <1>3, <2>1, <2>2, <3>1 DEF StaysEnded
    <3> QED BY <1>1, <1>2, <3>2, SilenceEnds DEF Parts, ReportsInTime
  <2>3. CASE "end" \notin lost /\ ~ \E e \in unread : IsEnd(e)
    <3>1. IsOver(lock)
      BY <1>3, <2>3 DEF Parts, EndArrives
    <3>2. \A e \in events : e.kind = "activation" => \E f \in events : IsEnd(f)
      BY <1>3, <2>3 DEF Parts, EndArrives, Read
    <3>3. InTime(lock') /\ (lock'.since # None => lock'.since <= endsAt) /\ IsOver(lock')
      BY <1>1, <1>3, <2>3, <3>1, <3>2, AllEventsEnd
    <3>4. StaysEnded
      BY <1>3, <2>1, <3>3 DEF StaysEnded
    <3> QED BY <1>1, <1>2, <3>4, SilenceEnds DEF Parts, ReportsInTime
  <2> QED BY <2>2, <2>3, <2>4
<1>4. CASE ~ Deactivated
  <2>1. StaysEnded
    BY <1>1, <1>4, AllEventsLast DEF StaysEnded
  <2> QED BY <1>1, <1>2, <2>1, SilenceEnds DEF Parts, ReportsInTime
<1> QED BY <1>3, <1>4

\* A step that hears nothing and changes no activation.
LEMMA IdleEnds ==
    ASSUME TypeOK, Parts, UNCHANGED <<now, endsAt, server, unread, events, device>>,
           "end" \in lost => "end" \in lost', reading' \in {reading, server},
           Silent, lock'.since = lock.since, lock'.until = lock.until
    PROVE  Parts'
<1>1. UNCHANGED unread /\ Read' = Read
  BY DEF Read
<1>2. StaysEnded
  BY <1>1 DEF StaysEnded, InTime, Parts, LockInTime, EndArrives, ActivationLasts, IsOver
<1>3. reading' \in {None, server} /\ \A e \in events', f \in unread' : e.id < f.id
  BY <1>1 DEF Parts, ReportsInTime
<1> QED BY <1>2, <1>3, SilenceEnds

LEMMA PollEnds ==
    ASSUME TypeOK, Parts, Silent, DevicePollArrives
    PROVE  Parts'
<1>1. /\ lock' = UpdateFromDevice(lock, reading) /\ reading = server /\ server \in Report
      /\ UNCHANGED <<now, endsAt, unread, events, server>> /\ reading' = None
      /\ device' = server /\ ("end" \in lost => "end" \in lost')
      /\ lock \in LockType /\ now \in Nat
  BY DEF DevicePollArrives, Parts, ReportsInTime, TypeOK, world, bold
<1>2. PICK n : n = lock'
  OBVIOUS
<1>3. n = UpdateFromDevice(lock, server)
  BY <1>1, <1>2
<1>4. \/ n.since = lock.since /\ n.until = lock.until
      \/ n.since = now /\ n.until = server.until /\ server.until # None
  BY <1>1, <1>3, UpdateFromDeviceIs
<1>5. Read' = Read
  BY <1>1 DEF Read
<1>6. CASE n.since = lock.since /\ n.until = lock.until
  <2>1. StaysEnded
    BY <1>1, <1>2, <1>5, <1>6
       DEF StaysEnded, InTime, Parts, LockInTime, EndArrives, ActivationLasts, IsOver
  <2> QED BY <1>1, <2>1, SilenceEnds DEF Parts, ReportsInTime
<1>7. CASE n.since = now /\ n.until = server.until /\ server.until # None
  <2>1. ~ Deactivated /\ n.until = endsAt /\ endsAt \in Int /\ endsAt <= now + Duration
    BY <1>7 DEF Deactivated, Parts, ReportsInTime, TypeOK
  <2>2. IsOver(n) /\ InTime(n)
    BY <1>1, <1>7, <2>1, TimesAreNaturals DEF IsOver, InTime
  <2>3. StaysEnded
    BY <1>2, <2>1, <2>2 DEF StaysEnded
  <2> QED BY <1>1, <2>3, SilenceEnds DEF Parts, ReportsInTime
<1> QED BY <1>4, <1>6, <1>7

LEMMA RestartEnds ==
    ASSUME TypeOK, Parts, Silent, Restart
    PROVE  Parts'
<1>1. lock'.since = None /\ lock'.until = None
  BY DEF Restart, NewLock
<1>2. /\ UNCHANGED <<now, endsAt, server, unread, events, lost>>
      /\ reading' = None /\ device' = server /\ Read' = Read
  BY DEF Restart, world, bold, Read
<1>3. StaysEnded
  BY <1>1, <1>2 DEF StaysEnded, InTime, IsOver, Parts, EndArrives
<1> QED BY <1>2, <1>3, SilenceEnds DEF Parts, ReportsInTime

\* An activation that was ended since the devices were polled is lost.
LEMMA SetUpEnds ==
    ASSUME TypeOK, Parts, Silent, SetUpIsQuiet, SetUp
    PROVE  Parts'
<1>1. PICK n : n = lock'
  OBVIOUS
<1>2. /\ n = UpdateFromDevice(lock, device) /\ device \in Report /\ lock \in LockType
      /\ lock.since = None /\ lock.until = None /\ now \in Nat /\ endsAt \in Int
      /\ UNCHANGED <<now, endsAt, server, device, reading>> /\ unread' = {} /\ events' = {}
      /\ (device.until # None /\ Deactivated => "end" \in lost')
  BY <1>1 DEF SetUp, SetUpIsQuiet, TypeOK, world, Deactivated
<1>3. \/ n.since = None /\ n.until = None
      \/ n.since = now /\ n.until = device.until /\ device.until # None
  BY <1>2, UpdateFromDeviceIs
<1>4. Read' = {}
  BY <1>2 DEF Read
<1>5. CASE n.since = None /\ n.until = None
  <2>1. StaysEnded
    BY <1>1, <1>4, <1>5 DEF StaysEnded, InTime, IsOver
  <2> QED BY <1>2, <2>1, SilenceEnds DEF Parts, ReportsInTime
<1>6. CASE n.since = now /\ n.until = device.until /\ device.until # None
  <2>1. /\ n.until <= now + Duration /\ (~ Deactivated => n.until <= endsAt)
        /\ n.until \in Int
    BY <1>2, <1>6 DEF Parts, ReportsInTime, Report, Times
  <2>2. InTime(n) /\ (~ Deactivated => IsOver(n))
    BY <1>2, <1>6, <2>1, TimesAreNaturals DEF IsOver, InTime
  <2>3. Deactivated => "end" \in lost'
    BY <1>2, <1>6
  <2>4. StaysEnded
    BY <1>1, <1>4, <2>2, <2>3 DEF StaysEnded
  <2> QED BY <1>2, <2>4, SilenceEnds DEF Parts, ReportsInTime
<1> QED BY <1>3, <1>5, <1>6

\* The result of an activation dates it at most as much too late as it took.
LEMMA ResultEnds ==
    ASSUME TypeOK, Parts, Silent, CommandInTime, CommandSucceeds
    PROVE  Parts'
<1>1. /\ UNCHANGED <<now, endsAt, lost, events, reading, device, unread, server>>
      /\ command.executed /\ now \in Nat /\ endsAt \in Int
      /\ Duration \in Nat /\ Latency \in Nat
  BY TimesAreNaturals DEF CommandSucceeds, world, bold, polls, TypeOK
<1>2. Read' = Read
  BY <1>1 DEF Read
<1>3. CASE /\ command.kind = "activate"
           /\ lock'.since = now /\ lock'.until = now + Duration
  <2>1. command # NoCommand
    BY <1>3 DEF NoCommand
  <2>2. PICK began \in Nat : began = command.began
    BY DEF TypeOK
  <2>3. ~ Deactivated /\ began + Duration <= endsAt /\ now <= began + Latency
    BY <1>1, <1>3, <2>1, <2>2 DEF CommandInTime
  <2>4. IsOver(lock') /\ InTime(lock')
    BY <1>1, <1>3, <2>2, <2>3 DEF IsOver, InTime
  <2>5. StaysEnded
    BY <2>3, <2>4 DEF StaysEnded
  <2> QED BY <1>1, <2>5, SilenceEnds DEF Parts, ReportsInTime
<1>4. CASE /\ lock'.since = lock.since /\ lock'.until = now
  <2>1. IsOver(lock')
    BY <1>1, <1>4 DEF IsOver
  <2>2. InTime(lock')
    BY <1>1, <1>4 DEF InTime, Parts, LockInTime
  <2>3. StaysEnded
    BY <1>1, <1>2, <1>4, <2>1, <2>2 DEF StaysEnded, Parts, EndArrives
  <2> QED BY <1>1, <2>3, SilenceEnds DEF Parts, ReportsInTime
<1> QED BY <1>3, <1>4, CommandSucceedsIs

LEMMA TickEnds ==
    ASSUME TypeOK, Parts, Tick
    PROVE  Parts'
<1>1. /\ now \in Nat /\ now' = now + 1 /\ endsAt \in Int /\ Duration \in Nat /\ Latency \in Nat
      /\ UNCHANGED <<endsAt, server, unread, lost, events, reading, device, lock>>
      /\ lock.since \in Times /\ lock.until \in Times /\ device.until \in Times
  BY TimesAreNaturals DEF Tick, TypeOK, LockType, Report, world, bold, polls, entity
<1>2. \A e \in Read : e.time \in Int
  BY DEF Read, TypeOK, Event
<1>3. Read' = Read /\ (Deactivated' <=> Deactivated)
  BY <1>1 DEF Read, Deactivated
<1>4. ReportsInTime'
  <2>1. device'.until # None =>
            device'.until <= now' + Duration /\ (~ Deactivated' => device'.until <= endsAt')
    BY <1>1, <1>3 DEF Parts, ReportsInTime, Times
  <2>2. \A e \in Read' : e.time <= now' /\ e.keep = None
    BY <1>1, <1>2, <1>3 DEF Parts, ReportsInTime
  <2> QED BY <1>1, <2>1, <2>2 DEF Parts, ReportsInTime
<1>5. LockInTime'
  BY <1>1 DEF Parts, LockInTime, Times
<1>6. \A e : IsEnd(e) => IsEnd(e)'
  BY <1>1, <1>3 DEF IsEnd
<1>7. IsOver(lock) => IsOver(lock)'
  BY <1>1 DEF IsOver, Times
<1>8. EndArrives'
  BY <1>1, <1>3, <1>6, <1>7 DEF Parts, EndArrives
<1>9. ActivationLasts'
  BY <1>1, <1>3, <1>7 DEF Parts, ActivationLasts
<1> QED BY <1>4, <1>5, <1>8, <1>9 DEF Parts

\* What a report adds, of the lock's last event.
LEMMA ReportEnds ==
    ASSUME TypeOK, EventsAreNumbered, Skew = 0, NEW kind, NEW keep, Reports(kind, keep),
           UNCHANGED <<now, polls>>
    PROVE  \E new :
               /\ new = [id |-> logged + 1, kind |-> kind, time |-> now, keep |-> keep]
               /\ unread' = unread \cup {new} /\ Read' = Read \cup {new}
               /\ \A e \in Read : e.id < new.id
<1> DEFINE new == [id |-> logged + 1, kind |-> kind, time |-> Stamp, keep |-> keep]
<1>1. logged \in Nat /\ Stamp = now
  BY DEF TypeOK, Stamp
<1>2. unread' = unread \cup {new} /\ Read' = Read \cup {new}
  BY <1>1, ReportsAre
<1>3. \A e \in Read : e.id < new.id
  BY <1>1 DEF EventsAreNumbered
<1> QED BY <1>1, <1>2, <1>3

LEMMA CalmReads ==
    ASSUME Calm, "stale" \notin Environment, UNCHANGED polls
    PROVE  reading' = None
BY DEF Calm, polls

LEMMA TurnEnds ==
    ASSUME TypeOK, EventsAreNumbered, Skew = 0, "stale" \notin Environment, Parts, TurnNoticed
    PROVE  Parts'
<1>1. /\ Reports(bolt', None) /\ UNCHANGED <<now, endsAt, device, lock, events>> /\ now \in Nat
      /\ bolt' \in BoltReports /\ reading' = None /\ UNCHANGED polls
  BY CalmReads DEF TurnNoticed, Turn, Opposite, BoltReports, Bolts, TypeOK, polls, entity
<1>2. PICK new : /\ new = [id |-> logged + 1, kind |-> bolt', time |-> now, keep |-> None]
                 /\ unread' = unread \cup {new} /\ Read' = Read \cup {new}
                 /\ \A e \in Read : e.id < new.id
  BY <1>1, ReportEnds
<1>3. /\ new.kind \notin {"activation", "deactivation"} /\ new.time = now /\ new.keep = None
  BY <1>1, <1>2 DEF BoltReports, Bolts
<1>4. server'.until = server.until
  BY <1>1 DEF Reports, TypeOK, Report, BoltReports, Bolts
<1>12. "end" \in lost => "end" \in lost'
  BY <1>1 DEF Reports
<1>5. Deactivated' <=> Deactivated
  BY <1>4 DEF Deactivated
<1>6. ReportsInTime'
  BY <1>1, <1>2, <1>3, <1>4, <1>5 DEF Parts, ReportsInTime, Read
<1>7. LockInTime'
  BY <1>1 DEF Parts, LockInTime
<1>8. \A e : IsEnd(e) => IsEnd(e)'
  BY <1>1, <1>2, <1>3 DEF IsEnd
<1>9. IsOver(lock) => IsOver(lock)'
  BY <1>1 DEF IsOver
<1>10. EndArrives'
  BY <1>1, <1>2, <1>3, <1>5, <1>8, <1>9, <1>12 DEF Parts, EndArrives
<1>11. ActivationLasts'
  BY <1>1, <1>2, <1>3, <1>5, <1>9 DEF Parts, ActivationLasts
<1> QED BY <1>6, <1>7, <1>10, <1>11 DEF Parts

LEMMA ActivationEnds ==
    ASSUME TypeOK, EventsAreNumbered, Skew = 0, "stale" \notin Environment, Parts,
           Activate(FALSE), UNCHANGED <<now, polls, entity>>
    PROVE  Parts' /\ ~ Deactivated' /\ endsAt' = now + Duration
<1>1. /\ Reports("activation", None) /\ UNCHANGED <<lock, events, device>> /\ now \in Nat
      /\ endsAt' = now + Duration /\ reading' = None /\ Duration \in Nat /\ Latency \in Nat
  BY CalmReads, TimesAreNaturals DEF Activate, TypeOK, polls, entity
<1>2. PICK new : /\ new = [id |-> logged + 1, kind |-> "activation", time |-> now, keep |-> None]
                 /\ unread' = unread \cup {new} /\ Read' = Read \cup {new}
                 /\ \A e \in Read : e.id < new.id
  BY <1>1, ReportEnds
<1>3. new.time = now /\ new.keep = None
  BY <1>2
<1>4. server'.until = endsAt' /\ ~ Deactivated'
  <2>1. server' = [server EXCEPT !.until = endsAt']
    BY <1>1 DEF Reports, BoltReports, Bolts
  <2>2. server'.until = endsAt' /\ endsAt' # None
    BY <1>1, <2>1, NoneIsNoTime DEF TypeOK, Report
  <2> QED BY <2>2 DEF Deactivated
<1>5. ReportsInTime'
  BY <1>1, <1>2, <1>3, <1>4 DEF Parts, ReportsInTime, Read
<1>6. LockInTime'
  BY <1>1 DEF Parts, LockInTime
<1>7. \A e \in Read' : e.time \in Int /\ e.time <= now
  BY <1>1, <1>2, <1>3 DEF Parts, ReportsInTime, Read, TypeOK, Event
<1>8. IsOver(lock)'
  <2>1. lock.until # None => lock.until <= now + Duration
    BY DEF Parts, LockInTime
  <2>2. lock.until \in Times
    BY DEF TypeOK, LockType
  <2> QED BY <1>1, <2>1, <2>2 DEF IsOver, Times
<1>9. EndArrives' /\ ActivationLasts'
  BY <1>1, <1>4, <1>7, <1>8 DEF EndArrives, ActivationLasts
<1> QED BY <1>1, <1>4, <1>5, <1>6, <1>9 DEF Parts

LEMMA DeactivationEnds ==
    ASSUME TypeOK, EventsAreNumbered, Skew = 0, "stale" \notin Environment, Parts,
           Deactivate, UNCHANGED <<now, polls, entity>>
    PROVE  Parts'
<1>1. /\ Reports("deactivation", None) /\ UNCHANGED <<lock, events, device>> /\ now \in Nat
      /\ endsAt' = now /\ reading' = None /\ Duration \in Nat
  BY CalmReads, TimesAreNaturals DEF Deactivate, TypeOK, polls, entity
<1>2. PICK new : /\ new = [id |-> logged + 1, kind |-> "deactivation", time |-> now,
                           keep |-> None]
                 /\ unread' = unread \cup {new} /\ Read' = Read \cup {new}
                 /\ \A e \in Read : e.id < new.id
  BY <1>1, ReportEnds
<1>3. new.time = now /\ new.keep = None /\ new.kind = "deactivation"
  BY <1>2
<1>4. server'.until = None /\ Deactivated'
  <2>1. server' = [server EXCEPT !.until = None]
    BY <1>1 DEF Reports, BoltReports, Bolts
  <2> QED BY <2>1 DEF TypeOK, Report, Deactivated
<1>5. ReportsInTime'
  BY <1>1, <1>2, <1>3, <1>4 DEF Parts, ReportsInTime, Read
<1>6. LockInTime'
  BY <1>1 DEF Parts, LockInTime
<1>7. IsEnd(new)'
  BY <1>1, <1>2, <1>3 DEF IsEnd
<1>8. \A e \in Read' : e.time <= endsAt'
  BY <1>1, <1>2, <1>3 DEF Parts, ReportsInTime
<1>9. lock'.since # None => lock'.since <= endsAt'
  BY <1>1 DEF Parts, LockInTime
<1>10. EndArrives'
  BY <1>1, <1>2, <1>7, <1>8, <1>9 DEF EndArrives
<1>11. ActivationLasts'
  BY <1>4 DEF ActivationLasts
<1> QED BY <1>5, <1>6, <1>10, <1>11 DEF Parts

LEMMA NoCommandInTime == ASSUME command' = NoCommand PROVE CommandInTime'
BY DEF NoCommand, CommandInTime

LEMMA OrderlySettings ==
    ASSUME Orderly
    PROVE  /\ Skew = 0
           /\ "reorder" \notin Environment /\ "overlap" \notin Environment
           /\ "stale" \notin Environment /\ "pollFails" \notin Environment
           /\ "keepActive" \notin Environment
BY DEF Orderly, Revives

\* Without "keepActive", all that speaks of an activation does so for as long as usual.
LEMMA ActsAre ==
    ASSUME "keepActive" \notin Environment, Speaks, ~ TurnNoticed
    PROVE  /\ Activate(FALSE) \/ Deactivate
           /\ SomeoneActs \/ CommandExecutes
           /\ UNCHANGED <<now, polls, entity>>
BY DEF Speaks

LEMMA NextCommand ==
    ASSUME TypeOK, EventsAreNumbered, Orderly, CommandInTime, Parts, [Next]_vars
    PROVE  CommandInTime'
<1>1. now \in Nat /\ Duration \in Nat /\ Latency \in Nat /\ command.began \in Nat
  BY TimesAreNaturals DEF TypeOK
<1>2. CASE UNCHANGED <<now, command, endsAt, server>>
  BY <1>2 DEF CommandInTime, Deactivated
<1>3. CASE command' = NoCommand
  BY <1>3, NoCommandInTime
<1>4. CASE Unlock \/ Lock
  <2>1. PICK kind : Send(kind)
    BY <1>4 DEF Unlock, Lock
  <2>2. command'.began = now /\ command'.executed = FALSE /\ now' = now
    BY <2>1 DEF Send
  <2> QED BY <1>1, <2>2 DEF CommandInTime
<1>5. CASE SomeoneActs
  <2>1. command = NoCommand /\ command' = command
    BY <1>5, OrderlySettings DEF SomeoneActs
  <2> QED BY <1>3, <2>1
<1>6. CASE CommandExecutes
  <2>1. /\ command # NoCommand /\ command' = [command EXCEPT !.executed = TRUE]
        /\ UNCHANGED <<now, polls, entity>>
        /\ \/ command.kind = "activate" /\ Activate(FALSE)
           \/ command.kind = "deactivate"
    BY <1>6 DEF CommandExecutes
  <2>2. command'.kind = command.kind /\ command'.began = command.began
    BY <2>1 DEF TypeOK
  <2>3. command'.began <= now' /\ now' <= command'.began + Latency
    BY <2>1, <2>2 DEF CommandInTime
  <2>4. CASE command.kind = "activate" /\ Activate(FALSE)
    <3>1. ~ Deactivated' /\ endsAt' = now + Duration
      BY <2>1, <2>4, ActivationEnds, OrderlySettings
    <3>2. command'.began + Duration <= endsAt'
      BY <1>1, <2>1, <2>2, <2>3, <3>1
    <3> QED BY <2>3, <3>1, <3>2 DEF CommandInTime
  <2>5. CASE command.kind = "deactivate"
    BY <2>2, <2>3, <2>5 DEF CommandInTime
  <2> QED BY <2>1, <2>4, <2>5
<1>7. CASE Tick
  <2>1. /\ UNCHANGED <<command, endsAt, server>> /\ now' = now + 1
        /\ command # NoCommand => now < command.began + Latency
    BY <1>7 DEF Tick, world, bold
  <2> QED BY <1>1, <2>1 DEF CommandInTime, Deactivated
<1>8. CASE TurnNoticed \/ TurnMissed
  <2>1. /\ UNCHANGED <<now, command, endsAt>>
        /\ UNCHANGED server \/ (bolt' \in Bolts /\ Reports(bolt', None))
    BY <1>8 DEF TurnNoticed, TurnMissed, Turn, bold, Opposite, Bolts
  <2>2. server'.until = server.until
    BY <2>1 DEF Reports, TypeOK, Report, BoltReports, Bolts
  <2> QED BY <2>1, <2>2 DEF CommandInTime, Deactivated
<1>9. CASE CommandSucceeds \/ CommandFails \/ CommandCrashes \/ Restart
  BY <1>3, <1>9 DEF CommandSucceeds, CommandFails, CommandCrashes, Restart
<1>10. CASE DoorOpens \/ ReadEvents \/ EventPollFails \/ DevicePollAnswered \/ DevicePollArrives
            \/ DevicePollFails \/ Expired \/ SetUp \/ Ended \/ UNCHANGED vars
  BY <1>2, <1>10 DEF DoorOpens, SetUp, ReadEvents, EventPollFails, DevicePollAnswered,
         DevicePollArrives, DevicePollFails, Expired, Ended, vars, world, bold
<1> QED BY <1>4, <1>5, <1>6, <1>7, <1>8, <1>9, <1>10 DEF Next

LEMMA NextParts ==
    ASSUME TypeOK, EventsAreNumbered, SetUpIsQuiet, Orderly, CommandInTime, Parts, [Next]_vars
    PROVE  Parts'
<1> USE OrderlySettings
<1>1. CASE Speaks /\ TurnNoticed
  BY <1>1, TurnEnds
<1>2. CASE Speaks /\ ~ TurnNoticed
  BY <1>2, ActsAre, ActivationEnds, DeactivationEnds
<1>3. CASE ReadEvents /\ Silent
  BY <1>3, ReadingEnds
<1>4. CASE EventPollFails /\ Silent
  BY <1>4, RereadingEnds
<1>5. CASE DevicePollArrives /\ Silent
  BY <1>5, PollEnds
<1>6. CASE DevicePollFails /\ Silent
  BY <1>6 DEF DevicePollFails
<1>7. CASE Restart /\ Silent
  BY <1>7, RestartEnds
<1>12. CASE SetUp /\ Silent
  BY <1>12, SetUpEnds
<1>8. CASE CommandSucceeds /\ Silent
  BY <1>8, ResultEnds
<1>9. CASE Tick
  BY <1>9, TickEnds
<1>10. CASE TurnNoticed /\ Silent
  BY <1>10, TurnEnds
<1>11. CASE /\ \/ TurnMissed \/ DoorOpens \/ SomeoneActs \/ DevicePollAnswered \/ Unlock \/ Lock
               \/ CommandExecutes \/ CommandFails \/ CommandCrashes \/ Expired \/ Ended
               \/ UNCHANGED vars
            /\ Silent /\ ~ Speaks
  <2>1. /\ UNCHANGED <<now, endsAt, server, unread, events, device>>
        /\ reading' \in {reading, server} /\ ("end" \in lost => "end" \in lost')
        /\ \/ lock' = lock
           \/ lock' = [lock EXCEPT !.opened = now]
           \/ lock' = [lock EXCEPT !.expiry = None]
           \/ \E p \in {"none", "locking", "unlocking"} : lock' = [lock EXCEPT !.progress = p]
    <3>1. CASE TurnMissed \/ DoorOpens \/ DevicePollAnswered \/ Unlock \/ Lock
               \/ CommandFails \/ CommandCrashes \/ Expired \/ Ended \/ UNCHANGED vars
      BY <3>1 DEF TurnMissed, Turn, DoorOpens, DevicePollAnswered, Unlock, Lock, Send,
                  CommandFails, CommandCrashes, Expired, Ended, vars, world, bold, polls, entity
    <3>2. ~ SomeoneActs
      BY <1>11 DEF Speaks, SomeoneActs
    <3>3. CASE CommandExecutes
      <4>1. UNCHANGED <<now, polls, entity, endsAt, bold>>
        BY <1>11, <3>3 DEF Speaks, CommandExecutes
      <4> QED BY <4>1 DEF polls, entity, bold
    <3> QED BY <1>11, <3>1, <3>2, <3>3
  <2>2. lock'.since = lock.since /\ lock'.until = lock.until
    BY <2>1 DEF TypeOK, LockType
  <2> QED BY <1>11, <2>1, <2>2, IdleEnds
<1> QED BY <1>1, <1>2, <1>3, <1>4, <1>5, <1>6, <1>7, <1>8, <1>9, <1>10, <1>11, <1>12,
           SpeaksOrSilent DEF Next

LEMMA NextQuiet == TypeOK /\ SetUpIsQuiet /\ [Next]_vars => SetUpIsQuiet'
<1> SUFFICES ASSUME TypeOK, SetUpIsQuiet, [Next]_vars, starting'
             PROVE  /\ reading' = None /\ command' = NoCommand
                    /\ lock'.since = None /\ lock'.until = None
  BY DEF SetUpIsQuiet
<1>1. CASE Restart
  BY <1>1 DEF Restart, NewLock
<1>2. CASE ~ Restart
  <2>1. starting
    BY <1>2 DEF Next, TurnNoticed, TurnMissed, Turn, DoorOpens, SomeoneActs, ReadEvents,
           EventPollFails, DevicePollAnswered, DevicePollArrives, DevicePollFails, Unlock, Lock,
           Send, CommandExecutes, CommandSucceeds, CommandFails, CommandCrashes, Expired, SetUp,
           Tick, Ended, vars, polls
  <2>2. /\ reading = None /\ command = NoCommand /\ ~ command.executed
        /\ lock.since = None /\ lock.until = None /\ lock \in LockType
    BY <2>1 DEF SetUpIsQuiet, NoCommand, TypeOK
  <2>3. /\ UNCHANGED <<reading, command>>
        /\ lock' = lock \/ lock' = [lock EXCEPT !.expiry = None]
    BY <1>2, <2>1, <2>2 DEF Next, TurnNoticed, TurnMissed, Turn, DoorOpens, SomeoneActs,
           ReadEvents, EventPollFails, DevicePollAnswered, DevicePollArrives, DevicePollFails,
           Unlock, Lock, MayCommand, CommandExecutes, CommandSucceeds, CommandFails,
           CommandCrashes, Expired, SetUp, Tick, Ended, vars, polls, entity
  <2> QED BY <2>2, <2>3 DEF LockType
<1> QED BY <1>1, <1>2

LEMMA SetUpStaysQuiet == Spec => []SetUpIsQuiet
<1>1. Init => SetUpIsQuiet
  BY DEF Init, SetUpIsQuiet
<1> QED BY <1>1, NextQuiet, LockTypeCorrect, PTL DEF Spec

LEMMA NextActivation ==
    /\ TypeOK /\ EventsAreNumbered /\ SetUpIsQuiet
    /\ ActivationInvariant /\ [Next]_vars
    => ActivationInvariant'
<1> SUFFICES ASSUME TypeOK, EventsAreNumbered, SetUpIsQuiet, ActivationInvariant, [Next]_vars,
                    Orderly
             PROVE  CommandInTime' /\ Parts'
  BY TimesPass DEF ActivationInvariant, Orderly, Skew, Environment, Parts
<1>1. CommandInTime /\ Parts
  BY DEF ActivationInvariant, Parts
<1> QED BY <1>1, NextCommand, NextParts

LEMMA InitActivation == Init => ActivationInvariant
<1> SUFFICES ASSUME Init PROVE CommandInTime /\ Parts
  BY DEF ActivationInvariant, Parts
<1>1. /\ now = 0 /\ endsAt = 0 /\ unread = {} /\ events = {} /\ reading = None
      /\ device = server /\ server.until = None /\ command = NoCommand
  BY DEF Init
<1>2. CommandInTime
  BY <1>1 DEF CommandInTime, NoCommand
<1>3. ReportsInTime
  BY <1>1, TimesAreNaturals DEF ReportsInTime, Read
<1>4. lock.since = None /\ lock.until = None
  <2>1. PICK new : new = NewLock(None)
    OBVIOUS
  <2>2. new \in LockType /\ new.since = None /\ new.until = None
    BY <2>1, NewLockIs DEF Times
  <2>3. lock = UpdateFromDevice(new, device) /\ device \in Report /\ now \in Nat
    BY <2>1, InitTypes DEF Init, TypeOK
  <2> QED BY <1>1, <2>2, <2>3, UpdateFromDeviceIs
<1>5. LockInTime
  BY <1>4 DEF LockInTime
<1>6. EndArrives
  BY <1>1, <1>4 DEF EndArrives, IsOver, Read
<1>7. ActivationLasts
  BY <1>1 DEF ActivationLasts, Deactivated
<1> QED BY <1>2, <1>3, <1>5, <1>6, <1>7 DEF Parts

LEMMA ActivationIsOver ==
    ASSUME TypeOK, ActivationInvariant
    PROVE  "keepActive" \in Environment \/ ActivationSettles
<1> SUFFICES ASSUME Orderly, unread = {}, "end" \notin lost, IsActive(lock)
             PROVE  now < endsAt + Latency
  BY DEF ActivationSettles, ActivationIsKnown, Orderly
<1>1. IsOver(lock)
  BY DEF ActivationInvariant, EndArrives, ActivationLasts
<1>2. lock.until \in Times /\ endsAt \in Int /\ now \in Nat /\ Latency \in Nat
  BY TimesAreNaturals DEF TypeOK, LockType
<1> QED BY <1>1, <1>2 DEF IsOver, IsActive, Times

\* Of a lock whose clock is right, an activation that was ended early is not shown
\* once all that happened arrived.  Excepted are: activations kept for longer than
\* usual; events that come out of order; people who act while a command of Home
\* Assistant is under way; device polls that fail, or that the lock acts during;
\* and an end reported between the two first polls of setup.
THEOREM ActivationEndsKnown == Spec => []("keepActive" \in Environment \/ ActivationSettles)
<1>1. TypeOK /\ ActivationInvariant => "keepActive" \in Environment \/ ActivationSettles
  BY ActivationIsOver
<1> QED BY <1>1, InitActivation, NextActivation, LockTypeCorrect, EventsStayNumbered,
           SetUpStaysQuiet, PTL DEF Spec
=============================================================================
