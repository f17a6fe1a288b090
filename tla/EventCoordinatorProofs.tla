------------------------ MODULE EventCoordinatorProofs ------------------------
(***************************************************************************)
(* What EventCoordinator promises for any devices, intervals, look-backs,  *)
(* latencies and event logs, proved.                                       *)
(***************************************************************************)
EXTENDS EventCoordinator, TLAPS

\* An event has a key; so do the events of a log.
LEMMA KeysAreKeys ==
    ASSUME NEW events \in SUBSET Event
    PROVE  Keys(events) \subseteq AllKeys
BY DEF Keys, Key, Event, AllKeys

\* Accepting events leaves the cursor a time and the seen keys keys.
LEMMA AcceptType ==
    ASSUME TypeOK, NEW events \in SUBSET Event, NEW at \in Int, Accept(events, at)
    PROVE  cursor' \in Int /\ seen' \subseteq AllKeys
<1>1. NewEvents(events) \subseteq events
  BY DEF NewEvents
<1>2. Keys(NewEvents(events)) \subseteq AllKeys
  BY <1>1, KeysAreKeys
<1>3. \A event \in NewEvents(events) : event.time \in Int
  BY <1>1 DEF Event
<1>4. (IF cursor = None THEN at ELSE cursor) \in Int
  BY DEF TypeOK
<1>5. cursor' \in Int
  BY <1>3, <1>4 DEF Accept
<1>6. seen' \subseteq seen \cup Keys(NewEvents(events))
  BY DEF Accept
<1> QED BY <1>2, <1>5, <1>6 DEF TypeOK

\* So does reporting them, and firing them.
LEMMA DeliverType ==
    ASSUME TypeOK, NEW events \in SUBSET Event, Deliver(events)
    PROVE  delivered' \subseteq AllKeys /\ redelivered' \subseteq AllKeys
BY KeysAreKeys DEF Deliver, TypeOK

\* Firing events keeps what was fired keys.
LEMMA FireType ==
    ASSUME TypeOK, NEW events \in SUBSET Event, Fire(events) \/ FireNothing
    PROVE  fired' \subseteq AllKeys /\ refired' \subseteq AllKeys
BY KeysAreKeys DEF Fire, FireNothing, ghosts, TypeOK

\* What is new, and what is reported of it, is some of the events.
LEMMA ReportedType ==
    ASSUME NEW events \in SUBSET Event
    PROVE  Reported(events) \in SUBSET Event
BY DEF Reported, NewEvents

\* A poll's successful end leaves the framework's state well typed.
LEMMA SucceedType ==
    ASSUME TypeOK, NEW events \in SUBSET Event, NEW wait \in Nat \cup {None},
           NEW previous, NEW wasOk, Succeed(events, wait, previous, wasOk)
    PROVE  /\ data' \subseteq Event
           /\ ok' \in BOOLEAN
           /\ due' \in Int \cup {None}
           /\ fired' \subseteq AllKeys /\ refired' \subseteq AllKeys
<1>1. Fire(events) \/ FireNothing
  BY DEF Succeed
<1>2. fired' \subseteq AllKeys /\ refired' \subseteq AllKeys
  BY <1>1, FireType
<1>3. due' \in Int \cup {None}
  BY DEF Succeed, TypeOK
<1> QED BY <1>2, <1>3 DEF Succeed

\* Finishing setup keeps the entry's state well typed.
LEMMA FinishSetupType ==
    ASSUME TypeOK, FinishSetup
    PROVE  loaded' \in BOOLEAN /\ registering' \in BOOLEAN
<1>1. registering \in BOOLEAN /\ ("register" \in Environment) \in BOOLEAN
  BY DEF TypeOK
<1> QED BY <1>1 DEF FinishSetup

\* The intervals are lengths of time.
LEMMA IntervalType ==
    ASSUME NEW wait \in {ScanInterval, PushScanInterval, None}
    PROVE  wait \in Nat \cup {None}
BY TimesAreNaturals

\* The poll that is not under way is a poll.
LEMMA NoPollType == NoPoll \in PollType
BY DEF NoPoll, PollType

\* The model's type invariant holds of every step.
LEMMA TypeStep == TypeOK /\ [Next]_vars => TypeOK'
<1> SUFFICES ASSUME TypeOK, [Next]_vars PROVE TypeOK'
  OBVIOUS
<1> USE DEF world, coordinator, mode, framework, entry, handed, ghosts, first
<1>1. CASE StartPoll
  <2>1. poll' \in PollType
    <3>1. (IF cursor = None THEN now ELSE cursor) \in Int
      BY DEF TypeOK
    <3>2. \A from \in Int : CatchUpReach(from, now) \in Int /\ Reach(from) \in Int
      BY TimesAreNaturals DEF CatchUpReach, Reach, Lesser, TypeOK
    <3>3. NeedsCatchUp \in BOOLEAN
      BY DEF NeedsCatchUp
    <3> QED BY <1>1, <3>1, <3>2, <3>3 DEF StartPoll, PollType, TypeOK
  <2> QED BY <1>1, <2>1 DEF StartPoll, TypeOK
<1>2. CASE PollNothing
  <2>1. interval \in Nat \cup {None}
    BY IntervalType DEF TypeOK
  <2>2. /\ data' \subseteq Event /\ ok' \in BOOLEAN /\ due' \in Int \cup {None}
        /\ fired' \subseteq AllKeys /\ refired' \subseteq AllKeys
    BY <1>2, <2>1, SucceedType DEF PollNothing
  <2>3. loaded' \in BOOLEAN /\ registering' \in BOOLEAN
    BY <1>2, FinishSetupType DEF PollNothing
  <2> QED BY <1>2, <2>2, <2>3 DEF PollNothing, TypeOK
<1>3. CASE ServerAnswers
  <2>1. poll' \in PollType
    BY <1>3 DEF ServerAnswers, PollType, TypeOK
  <2>2. history' \subseteq AllKeys
    <3>1. Keys({event \in log : event.dev \in poll.ids \ listed}) \subseteq AllKeys
      BY KeysAreKeys DEF TypeOK
    <3> QED BY <1>3, <3>1 DEF ServerAnswers, TypeOK
  <2> QED BY <1>3, <2>1, <2>2 DEF ServerAnswers, TypeOK
<1>4. CASE PollSucceeds
  <2>1. poll.answer \in SUBSET Event /\ poll.began \in Int /\ poll.ids \subseteq Devices
    BY DEF TypeOK, PollType
  <2>2. cursor' \in Int /\ seen' \subseteq AllKeys
    BY <1>4, <2>1, AcceptType DEF PollSucceeds
  <2>3. Reported(poll.answer) \in SUBSET Event
    BY <2>1, ReportedType
  <2>4. delivered' \subseteq AllKeys /\ redelivered' \subseteq AllKeys
    BY <1>4, <2>3, DeliverType DEF PollSucceeds
  <2>5. pushActive' \in BOOLEAN /\ interval' \in {ScanInterval, PushScanInterval, None}
    BY <1>4 DEF PollSucceeds, SetPushActive, TypeOK
  <2>6. interval' \in Nat \cup {None}
    BY <2>5, IntervalType
  <2>7. /\ data' \subseteq Event /\ ok' \in BOOLEAN /\ due' \in Int \cup {None}
        /\ fired' \subseteq AllKeys /\ refired' \subseteq AllKeys
    BY <1>4, <2>3, <2>6, SucceedType DEF PollSucceeds
  <2>8. NoPoll \in PollType
    BY NoPollType
  <2>9. loaded' \in BOOLEAN /\ registering' \in BOOLEAN
    BY <1>4, FinishSetupType DEF PollSucceeds
  <2> QED BY <1>4, <2>1, <2>2, <2>4, <2>5, <2>7, <2>8, <2>9 DEF PollSucceeds, TypeOK
<1>5. CASE PollForbidden
  <2>1. /\ data' \subseteq Event /\ ok' \in BOOLEAN /\ due' \in Int \cup {None}
        /\ fired' \subseteq AllKeys /\ refired' \subseteq AllKeys
    BY <1>5, SucceedType DEF PollForbidden
  <2>2. NoPoll \in PollType
    BY NoPollType
  <2>3. loaded' \in BOOLEAN /\ registering' \in BOOLEAN
    BY <1>5, FinishSetupType DEF PollForbidden
  <2> QED BY <1>5, <2>1, <2>2, <2>3 DEF PollForbidden, TypeOK
<1>6. ASSUME NEW wait \in Nat \cup {None}, Fail(wait)
      PROVE  TypeOK'
  <2>1. fired' \subseteq AllKeys /\ refired' \subseteq AllKeys
    BY <1>6, FireType DEF Fail, TypeOK
  <2>2. NoPoll \in PollType
    BY NoPollType
  <2>3. due' \in Int \cup {None}
    BY <1>6 DEF Fail, TypeOK
  <2>4. ok' \in BOOLEAN
    BY <1>6 DEF Fail
  <2> QED BY <1>6, <2>1, <2>2, <2>3, <2>4 DEF Fail, TypeOK
<1>7. CASE PollFails
  <2>1. (IF loaded THEN interval ELSE ScanInterval) \in Nat \cup {None}
    BY IntervalType DEF TypeOK
  <2> QED BY <1>6, <1>7, <2>1 DEF PollFails
<1>8. CASE PollAuthFails
  BY <1>6, <1>8 DEF PollAuthFails
<1>9. CASE HandlePush
  <2>1. PICK events \in (SUBSET Pushable) \ {{}} :
           /\ Accept(events, now)
           /\ Deliver(Reported(events))
           /\ IF pushActive THEN UNCHANGED mode ELSE SetPushActive(TRUE)
           /\ IF Reported(events) = {} THEN UNCHANGED <<framework, ghosts>>
              ELSE /\ data' = Reported(events)
                   /\ ok' = TRUE
                   /\ due' = IF interval' = None THEN None ELSE now + interval'
                   /\ Fire(Reported(events))
    BY <1>9 DEF HandlePush
  <2>2. events \in SUBSET Event /\ now \in Int
    BY DEF Pushable, TypeOK
  <2>3. cursor' \in Int /\ seen' \subseteq AllKeys
    BY <2>1, <2>2, AcceptType
  <2>4. Reported(events) \in SUBSET Event
    BY <2>2, ReportedType
  <2>5. delivered' \subseteq AllKeys /\ redelivered' \subseteq AllKeys
    BY <2>1, <2>4, DeliverType
  <2>6. pushActive' \in BOOLEAN /\ interval' \in {ScanInterval, PushScanInterval, None}
    BY <2>1 DEF SetPushActive, TypeOK
  <2>7. interval' \in Nat \cup {None}
    BY <2>6, IntervalType
  <2>8. fired' \subseteq AllKeys /\ refired' \subseteq AllKeys
    BY <2>1, <2>4, FireType DEF TypeOK
  <2>9. data' \subseteq Event /\ ok' \in BOOLEAN /\ due' \in Int \cup {None}
    <3>1. CASE Reported(events) = {}
      BY <2>1, <3>1 DEF TypeOK
    <3>2. CASE Reported(events) # {}
      <4>1. data' = Reported(events)
        BY <2>1, <3>2
      <4>2. ok' = TRUE
        BY <2>1, <3>2
      <4>3. due' = IF interval' = None THEN None ELSE now + interval'
        BY <2>1, <3>2
      <4>4. due' \in Int \cup {None}
        BY <2>2, <2>7, <4>3
      <4> QED BY <2>4, <4>1, <4>2, <4>4
    <3> QED BY <3>1, <3>2
  <2> QED BY <1>9, <2>3, <2>5, <2>6, <2>8, <2>9 DEF HandlePush, TypeOK
<1>10. CASE RegisterPush
  BY <1>10 DEF RegisterPush, SetPushActive, TypeOK
<1>11. CASE RegisterPushFails
  BY <1>11 DEF RegisterPushFails, TypeOK
<1>12. CASE SyncDevices
  BY <1>12 DEF SyncDevices, TypeOK
<1>13. CASE Reload
  <2>1. UNCHANGED <<now, log, deviceIds, delivered, redelivered, fired, refired, history>>
    BY <1>13 DEF Reload
  <2>2. cursor' = None /\ lastCatchUp' = None /\ due' = now
    BY <1>13 DEF Reload, Fresh
  <2>3. seen' = {} /\ primed' = {} /\ data' = {} /\ listed' = {}
    BY <1>13 DEF Reload, Fresh
  <2>4. /\ pushActive' \in BOOLEAN /\ ok' \in BOOLEAN
        /\ loaded' \in BOOLEAN /\ registering' \in BOOLEAN
    BY <1>13 DEF Reload, Fresh
  <2>5. interval' = ScanInterval /\ poll' \in PollType
    BY <1>13, NoPollType DEF Reload, Fresh
  <2> QED BY <2>1, <2>2, <2>3, <2>4, <2>5 DEF TypeOK
<1>14. CASE Upload
  <2>1. log' \subseteq Event
    BY <1>14, TimesAreNaturals DEF Upload, Event, TypeOK
  <2> QED BY <1>14, <2>1 DEF Upload, TypeOK
<1>15. CASE Tick
  BY <1>15 DEF Tick, TypeOK
<1>16. CASE Ended \/ UNCHANGED vars
  BY <1>16 DEF Ended, vars, TypeOK
<1> QED BY <1>1, <1>2, <1>3, <1>4, <1>5, <1>7, <1>8, <1>9, <1>10, <1>11, <1>12,
           <1>13, <1>14, <1>15, <1>16 DEF Next

\* The type invariant holds in every behaviour of the coordinator.
THEOREM TypeCorrect == Spec => []TypeOK
<1>1. Init => TypeOK
  <2> SUFFICES ASSUME Init PROVE TypeOK
    OBVIOUS
  <2>1. /\ now \in Nat /\ log \subseteq Event /\ deviceIds \subseteq Devices
    BY DEF Init
  <2>2. cursor = None /\ lastCatchUp = None /\ due = 0
    BY DEF Init
  <2>3. /\ seen = {} /\ primed = {} /\ data = {} /\ listed = {} /\ history = {}
        /\ delivered = {} /\ redelivered = {} /\ fired = {} /\ refired = {}
    BY DEF Init
  <2>4. /\ pushActive \in BOOLEAN /\ ok \in BOOLEAN
        /\ loaded \in BOOLEAN /\ registering \in BOOLEAN
    BY DEF Init
  <2>5. interval = ScanInterval /\ poll \in PollType
    BY NoPollType DEF Init
  <2> QED BY <2>1, <2>2, <2>3, <2>4, <2>5 DEF TypeOK
<1> QED BY <1>1, TypeStep, PTL DEF Spec

-----------------------------------------------------------------------------
\* How far back polls look only moves forward, with the clock and the cursor.
LEMMA ReachIsTime ==
    ASSUME NEW from \in Int, NEW at \in Int
    PROVE  /\ Reach(from) \in Int /\ CatchUpReach(from, at) \in Int /\ Horizon(from, at) \in Int
           /\ CatchUpReach(from, at) <= Reach(from)
           /\ Horizon(from, at) <= CatchUpReach(from, at)
BY TimesAreNaturals DEF Reach, CatchUpReach, Horizon, Lesser

\* A later clock and cursor never look back further.
LEMMA ReachGrows ==
    ASSUME NEW from \in Int, NEW later \in Int, NEW at \in Int, NEW after \in Int,
           from <= later, at <= after
    PROVE  CatchUpReach(from, at) <= CatchUpReach(later, after)
BY TimesAreNaturals DEF Reach, CatchUpReach, Lesser

\* Accepting moves the cursor forward, and keeps every key, old or new, that a
\* poll which starts from here on can return.
LEMMA AcceptKeeps ==
    ASSUME TypeOK, NEW events \in SUBSET Event, NEW at \in Int, at <= now, Accept(events, at)
    PROVE  /\ cursor' \in Int
           /\ cursor # None => cursor <= cursor'
           /\ cursor = None => at <= cursor'
           /\ \A k \in AllKeys :
                  /\ k \in seen \cup Keys(events)
                  /\ k.time >= CatchUpReach(cursor', now)
                  => k \in seen'
<1>1. cursor' \in Int
  BY AcceptType
<1>2. /\ cursor # None => cursor <= cursor'
      /\ cursor = None => at <= cursor'
  BY DEF Accept
<1>3. ASSUME NEW k \in AllKeys, k \in seen \cup Keys(events),
             k.time >= CatchUpReach(cursor', now)
      PROVE  k \in seen'
  <2>1. k \in seen \cup Keys(NewEvents(events))
    BY <1>3 DEF Keys, NewEvents
  <2>2. now \in Int
    BY DEF TypeOK
  <2>3. Horizon(cursor', at) <= CatchUpReach(cursor', at)
    BY <1>1, ReachIsTime
  <2>4. CatchUpReach(cursor', at) <= CatchUpReach(cursor', now)
    BY <1>1, <2>2, ReachGrows
  <2>5. /\ Horizon(cursor', at) \in Int /\ CatchUpReach(cursor', at) \in Int
        /\ CatchUpReach(cursor', now) \in Int
    BY <1>1, <2>2, ReachIsTime
  <2>6. k.time \in Int
    BY DEF AllKeys
  <2>7. k.time >= Horizon(cursor', at)
    BY <1>3, <2>3, <2>4, <2>5, <2>6
  <2> QED BY <2>1, <2>7 DEF Accept
<1> QED BY <1>1, <1>2, <1>3

\* A report never repeats what was reported, if what was reported is still known.
LEMMA DeliverOnce ==
    ASSUME TypeOK, DeliveredOnce, NEW events \in SUBSET Event, Deliver(Reported(events)),
           \A event \in events :
               event.dev \in primed /\ Key(event) \in delivered => Key(event) \in seen
    PROVE  /\ DeliveredOnce'
           /\ delivered' = delivered \cup Keys(Reported(events))
           /\ Keys(Reported(events)) \subseteq Keys(events)
<1>1. delivered \cap Keys(Reported(events)) = {}
  BY DEF Keys, Reported, NewEvents
<1>2. Keys(Reported(events)) \subseteq Keys(events)
  BY DEF Keys, Reported, NewEvents
<1> QED BY <1>1, <1>2 DEF Deliver, DeliveredOnce

\* A poll that succeeds keeps known what was, and comes to know its answer.
LEMMA PollKeepsKnown ==
    ASSUME TypeOK, OnceInvariant, PollSucceeds,
           NEW keys \in SUBSET AllKeys, Known(keys), PollKnows(keys)
    PROVE  \A k \in keys \cup Keys(poll.answer) :
               /\ k.dev \in poll.ids
               /\ k.time >= CatchUpReach(cursor', now)
               => k \in seen'
<1> USE DEF world, first
<1>1. /\ poll.answer \in SUBSET Event
      /\ poll.began \in Int /\ poll.began <= now /\ now \in Int
      /\ poll.since \in Int
      /\ poll.catchUp => poll.since = CatchUpReach(IF cursor = None THEN poll.began ELSE cursor,
                                                  poll.began)
  BY DEF TypeOK, PollType, OnceInvariant, PollIsSafe, Polling, PollSucceeds
<1>2. Accept(poll.answer, poll.began)
  BY DEF PollSucceeds
<1>3. /\ cursor' \in Int
      /\ cursor # None => cursor <= cursor'
      /\ cursor = None => poll.began <= cursor'
      /\ \A k \in AllKeys :
             /\ k \in seen \cup Keys(poll.answer)
             /\ k.time >= CatchUpReach(cursor', now)
             => k \in seen'
  BY <1>1, <1>2, AcceptKeeps
<1> SUFFICES ASSUME NEW k \in keys \cup Keys(poll.answer), k.dev \in poll.ids,
                    k.time >= CatchUpReach(cursor', now)
             PROVE  k \in seen'
  OBVIOUS
<1>4. k \in AllKeys /\ k.time \in Int
  BY <1>1, KeysAreKeys DEF AllKeys
<1>5. CatchUpReach(cursor', now) \in Int
  BY <1>1, <1>3, ReachIsTime
<1>6. CASE k \in Keys(poll.answer)
  BY <1>3, <1>4, <1>6
<1>7. CASE k \in keys /\ poll.catchUp
  <2>1. poll.since <= CatchUpReach(cursor', now)
    <3>1. CASE cursor = None
      BY <1>1, <1>3, <1>7, <3>1, ReachGrows
    <3>2. CASE cursor # None
      BY <1>1, <1>3, <1>7, <3>2, ReachGrows DEF TypeOK
    <3> QED BY <3>1, <3>2
  <2>2. k.time >= poll.since
    BY <1>1, <1>4, <1>5, <2>1
  <2>3. k \in Keys(poll.answer)
    BY <1>7, <2>2 DEF PollKnows, PollSucceeds
  <2> QED BY <1>3, <1>4, <2>3
<1>8. CASE k \in keys /\ ~ poll.catchUp
  <2>1. k.dev \in primed
    BY <1>8 DEF OnceInvariant, PollIsSafe, Polling, PollSucceeds
  <2>2. cursor \in Int
    BY <2>1 DEF OnceInvariant, CursorComesFirst, TypeOK
  <2>3. CatchUpReach(cursor, now) <= CatchUpReach(cursor', now)
    BY <1>1, <1>3, <2>2, ReachGrows, NoneIsNoInterval
  <2>4. k.time >= CatchUpReach(cursor, now)
    <3>1. CatchUpReach(cursor, now) \in Int
      BY <1>1, <2>2, ReachIsTime
    <3> QED BY <1>4, <1>5, <2>3, <3>1
  <2>5. k \in seen
    BY <1>8, <2>1, <2>4 DEF Known
  <2> QED BY <1>3, <1>4, <2>5
<1> QED BY <1>6, <1>7, <1>8

\* What a push has, and what was known, is known once it is handled.
LEMMA PushKeepsKnown ==
    ASSUME TypeOK, OnceInvariant, NEW events \in SUBSET Event, Accept(events, now),
           NEW keys \in SUBSET AllKeys, Known(keys)
    PROVE  \A k \in keys \cup Keys(events) :
               /\ k.dev \in primed
               /\ k.time >= CatchUpReach(cursor', now)
               => k \in seen'
<1>1. now \in Int
  BY DEF TypeOK
<1>2. /\ cursor' \in Int
      /\ cursor # None => cursor <= cursor'
      /\ \A k \in AllKeys :
             /\ k \in seen \cup Keys(events)
             /\ k.time >= CatchUpReach(cursor', now)
             => k \in seen'
  BY <1>1, AcceptKeeps
<1> SUFFICES ASSUME NEW k \in keys \cup Keys(events), k.dev \in primed,
                    k.time >= CatchUpReach(cursor', now)
             PROVE  k \in seen'
  OBVIOUS
<1>3. k \in AllKeys /\ k.time \in Int
  BY KeysAreKeys DEF AllKeys
<1>4. CASE k \in Keys(events)
  BY <1>2, <1>3, <1>4
<1>5. CASE k \in keys
  <2>1. cursor \in Int
    BY DEF OnceInvariant, CursorComesFirst, TypeOK
  <2>2. CatchUpReach(cursor, now) <= CatchUpReach(cursor', now)
    BY <1>1, <1>2, <2>1, ReachGrows, NoneIsNoInterval
  <2>3. CatchUpReach(cursor, now) \in Int /\ CatchUpReach(cursor', now) \in Int
    BY <1>1, <1>2, <2>1, ReachIsTime
  <2>4. k.time >= CatchUpReach(cursor, now)
    BY <1>3, <2>2, <2>3
  <2>5. k \in seen
    BY <1>5, <2>4 DEF Known
  <2> QED BY <1>2, <1>3, <2>5
<1> QED BY <1>4, <1>5

\* A push has no event of a primed device that a poll would not look back to.
LEMMA PushIsKnown ==
    ASSUME TypeOK, OnceInvariant, NEW events \in SUBSET Pushable, NEW keys, Known(keys)
    PROVE  \A event \in events :
               event.dev \in primed /\ Key(event) \in keys => Key(event) \in seen
<1> SUFFICES ASSUME NEW event \in events, event.dev \in primed, Key(event) \in keys
             PROVE  Key(event) \in seen
  OBVIOUS
<1>1. cursor \in Int /\ now \in Int
  BY DEF OnceInvariant, CursorComesFirst, TypeOK
<1>2. event.time \in Int /\ event.time >= now - MaxPushAge
  BY <1>1, TimesAreNaturals DEF Pushable, Event, TypeOK
<1>3. event.time >= CatchUpReach(cursor, now)
  BY <1>1, <1>2, TimesAreNaturals, PushesAreRecent DEF CatchUpReach, Lesser, Reach
<1> QED BY <1>3 DEF Key, Known

\* What is known is known as far back as a poll that starts looks.
LEMMA StartKeepsKnown ==
    ASSUME TypeOK, OnceInvariant, StartPoll, NEW keys \in SUBSET AllKeys, Known(keys)
    PROVE  \A k \in keys : k.dev \in primed /\ k.time >= poll'.since => k \in seen
<1> SUFFICES ASSUME NEW k \in keys, k.dev \in primed, k.time >= poll'.since
             PROVE  k \in seen
  OBVIOUS
<1>1. cursor \in Int /\ now \in Int /\ k.time \in Int
  BY DEF OnceInvariant, CursorComesFirst, TypeOK, AllKeys
<1>2. poll'.since = CatchUpReach(cursor, now) \/ poll'.since = Reach(cursor)
  BY <1>1, NoneIsNoInterval DEF StartPoll
<1>3. /\ CatchUpReach(cursor, now) <= Reach(cursor)
      /\ CatchUpReach(cursor, now) \in Int /\ Reach(cursor) \in Int
  BY <1>1, ReachIsTime
<1>4. k.time >= CatchUpReach(cursor, now)
  BY <1>1, <1>2, <1>3
<1> QED BY <1>4 DEF Known

\* As time passes, polls look back less far.
LEMMA TickKeepsKnown ==
    ASSUME TypeOK, OnceInvariant, Tick, NEW keys \in SUBSET AllKeys, Known(keys)
    PROVE  \A k \in keys : k.dev \in primed /\ k.time >= CatchUpReach(cursor, now') => k \in seen
<1> SUFFICES ASSUME NEW k \in keys, k.dev \in primed, k.time >= CatchUpReach(cursor, now')
             PROVE  k \in seen
  OBVIOUS
<1>1. cursor \in Int /\ k.time \in Int /\ now \in Int /\ now' = now + 1
  BY DEF OnceInvariant, CursorComesFirst, TypeOK, AllKeys, Tick
<1>2. CatchUpReach(cursor, now) <= CatchUpReach(cursor, now')
  BY <1>1, ReachGrows
<1>3. CatchUpReach(cursor, now) \in Int /\ CatchUpReach(cursor, now') \in Int
  BY <1>1, ReachIsTime
<1>4. k.time >= CatchUpReach(cursor, now)
  BY <1>1, <1>2, <1>3
<1> QED BY <1>4 DEF Known

\* The step in which a poll succeeds.
LEMMA PollSucceedsOnce ==
    ASSUME TypeOK, OnceInvariant, PollSucceeds
    PROVE  OnceInvariant'
<1> USE DEF world, first
<1>1. /\ poll.answer \in SUBSET Event /\ poll.answer \subseteq log
      /\ poll.began \in Int /\ poll.began <= now /\ now \in Int
      /\ poll.since \in Int
      /\ poll.catchUp => poll.since = CatchUpReach(IF cursor = None THEN poll.began ELSE cursor,
                                                  poll.began)
  BY DEF TypeOK, PollType, OnceInvariant, PollIsSafe, Polling, PollSucceeds
<1>2. /\ Accept(poll.answer, poll.began) /\ Deliver(Reported(poll.answer))
      /\ primed' = poll.ids /\ poll' = NoPoll /\ now' = now /\ log' = log
  BY DEF PollSucceeds
<1>3. cursor' \in Int
  BY <1>1, <1>2, AcceptType
<1>4. \A event \in poll.answer :
          event.dev \in primed /\ Key(event) \in delivered => Key(event) \in seen
  <2>1. \A event \in poll.answer : event.time >= poll.since
    BY DEF OnceInvariant, PollIsSafe, Polling, PollSucceeds
  <2>2. \A k \in delivered : k.dev \in primed /\ k.time >= poll.since => k \in seen
    BY DEF OnceInvariant, PollIsSafe, PollKnows, Polling, PollSucceeds
  <2> QED BY <2>1, <2>2 DEF Key
<1>5. /\ DeliveredOnce'
      /\ delivered' = delivered \cup Keys(Reported(poll.answer))
      /\ Keys(Reported(poll.answer)) \subseteq Keys(poll.answer)
  BY <1>1, <1>2, <1>4, DeliverOnce DEF OnceInvariant
<1>6. ReportedIsLogged'
  BY <1>1, <1>2, <1>5 DEF OnceInvariant, ReportedIsLogged, Keys
<1>7. Remembers'
  <2>1. \A k \in delivered \cup Keys(poll.answer) :
            k.dev \in poll.ids /\ k.time >= CatchUpReach(cursor', now) => k \in seen'
    <3>1. delivered \in SUBSET AllKeys /\ Known(delivered) /\ PollKnows(delivered)
      BY DEF TypeOK, OnceInvariant, Remembers, PollIsSafe, Polling, PollSucceeds
    <3> QED BY <3>1, PollKeepsKnown
  <2> QED BY <1>2, <1>5, <2>1 DEF Remembers, Known
<1>8. CursorComesFirst' /\ PollIsSafe'
  BY <1>2, <1>3, NoneIsNoInterval DEF CursorComesFirst, PollIsSafe, Polling, NoPoll
<1> QED BY <1>5, <1>6, <1>7, <1>8 DEF OnceInvariant

\* The step in which a push is handled, while no poll waits.
LEMMA HandlePushOnce ==
    ASSUME TypeOK, OnceInvariant, HandlePush, "pushDuringPoll" \notin Environment
    PROVE  OnceInvariant'
<1> USE DEF world
<1>1. PICK events \in SUBSET Pushable : Accept(events, now) /\ Deliver(Reported(events))
  BY DEF HandlePush
<1>2. /\ now \in Int /\ now' = now /\ log' = log /\ primed' = primed /\ poll' = poll
      /\ ~ Polling
  BY DEF HandlePush, TypeOK
<1>3. events \in SUBSET Event /\ events \subseteq log
  BY DEF Pushable, TypeOK
<1>4. cursor' \in Int
  BY <1>1, <1>2, <1>3, AcceptType
<1>5. \A event \in events :
          event.dev \in primed /\ Key(event) \in delivered => Key(event) \in seen
  BY PushIsKnown DEF OnceInvariant, Remembers
<1>6. /\ DeliveredOnce'
      /\ delivered' = delivered \cup Keys(Reported(events))
      /\ Keys(Reported(events)) \subseteq Keys(events)
  BY <1>1, <1>3, <1>5, DeliverOnce DEF OnceInvariant
<1>7. ReportedIsLogged'
  BY <1>2, <1>3, <1>6 DEF OnceInvariant, ReportedIsLogged, Keys
<1>8. Remembers'
  <2>1. \A k \in delivered \cup Keys(events) :
            k.dev \in primed /\ k.time >= CatchUpReach(cursor', now) => k \in seen'
    BY <1>1, <1>3, PushKeepsKnown DEF TypeOK, OnceInvariant, Remembers
  <2> QED BY <1>2, <1>6, <2>1 DEF Remembers, Known
<1>9. CursorComesFirst' /\ PollIsSafe'
  BY <1>2, <1>4, NoneIsNoInterval DEF CursorComesFirst, PollIsSafe, Polling
<1> QED BY <1>6, <1>7, <1>8, <1>9 DEF OnceInvariant

\* Every other step leaves the coordinator alone, starts or ends a poll, or
\* starts afresh.
LEMMA OnceStep ==
    ASSUME "pushDuringPoll" \notin Environment
    PROVE  TypeOK /\ OnceInvariant /\ [Next]_vars => OnceInvariant'
<1> SUFFICES ASSUME TypeOK, OnceInvariant, [Next]_vars PROVE OnceInvariant'
  OBVIOUS
<1> USE DEF world, coordinator, handed
<1>1. ASSUME now' = now, log' = log, UNCHANGED coordinator, UNCHANGED handed,
             poll' \in {poll, NoPoll}
      PROVE  OnceInvariant'
  BY <1>1 DEF OnceInvariant, DeliveredOnce, ReportedIsLogged, CursorComesFirst,
              Remembers, Known, PollIsSafe, PollKnows, Polling, NoPoll
<1>2. CASE StartPoll
  <2>1. /\ now' = now /\ log' = log /\ UNCHANGED coordinator /\ UNCHANGED handed
        /\ now \in Int
    BY <1>2 DEF StartPoll, TypeOK
  <2>2. /\ poll'.began = now /\ poll'.ids = deviceIds /\ poll'.status = "asked"
        /\ poll'.catchUp = NeedsCatchUp
        /\ LET from == IF cursor = None THEN now ELSE cursor
           IN  IF NeedsCatchUp THEN poll'.since = CatchUpReach(from, now)
               ELSE poll'.since = Reach(from)
    BY <1>2 DEF StartPoll
  <2>3. ~ NeedsCatchUp => deviceIds \subseteq primed
    BY DEF NeedsCatchUp
  <2>4. \A k \in delivered : k.dev \in primed /\ k.time >= poll'.since => k \in seen
    BY <1>2, StartKeepsKnown DEF TypeOK, OnceInvariant, Remembers
  <2>5. PollIsSafe'
    BY <2>1, <2>2, <2>3, <2>4 DEF PollIsSafe, PollKnows
  <2> QED BY <2>1, <2>5 DEF OnceInvariant, DeliveredOnce, ReportedIsLogged,
                            CursorComesFirst, Remembers, Known
<1>3. CASE PollNothing
  <2>1. CASE cursor = None
    <3>1. primed' = {}
      BY <1>3, <2>1 DEF PollNothing, OnceInvariant, CursorComesFirst
    <3> QED BY <1>3, <3>1 DEF PollNothing, OnceInvariant, DeliveredOnce, ReportedIsLogged,
                              CursorComesFirst, Remembers, Known, PollIsSafe, PollKnows, Polling
  <2>2. CASE cursor # None
    BY <1>1, <1>3, <2>2 DEF PollNothing
  <2> QED BY <2>1, <2>2
<1>4. CASE ServerAnswers
  <2>1. /\ now' = now /\ log' = log /\ UNCHANGED coordinator /\ UNCHANGED handed
    BY <1>4 DEF ServerAnswers
  <2>2. /\ poll'.began = poll.began /\ poll'.since = poll.since
        /\ poll'.catchUp = poll.catchUp /\ poll'.ids = poll.ids
        /\ poll'.answer = {event \in log : event.dev \in poll.ids /\ event.time >= poll.since}
    BY <1>4 DEF ServerAnswers, TypeOK, PollType
  <2>3. ASSUME NEW k \in delivered, k.dev \in poll.ids, k.time >= poll.since
        PROVE  k \in Keys(poll'.answer)
    BY <2>2, <2>3 DEF OnceInvariant, ReportedIsLogged, Keys, Key
  <2>4. PollIsSafe'
    BY <1>4, <2>1, <2>2, <2>3 DEF ServerAnswers, OnceInvariant, PollIsSafe, PollKnows, Polling
  <2> QED BY <2>1, <2>4 DEF OnceInvariant, DeliveredOnce, ReportedIsLogged,
                            CursorComesFirst, Remembers, Known
<1>5. CASE PollSucceeds
  BY <1>5, PollSucceedsOnce
<1>6. CASE PollForbidden \/ PollFails \/ PollAuthFails
  BY <1>1, <1>6 DEF PollForbidden, PollFails, PollAuthFails, Fail
<1>7. CASE HandlePush
  BY <1>7, HandlePushOnce
<1>8. CASE RegisterPush \/ RegisterPushFails \/ SyncDevices
  BY <1>1, <1>8 DEF RegisterPush, RegisterPushFails, SyncDevices
<1>9. CASE Reload
  BY <1>9 DEF Reload, Fresh, NoPoll, OnceInvariant, DeliveredOnce, ReportedIsLogged,
              CursorComesFirst, Remembers, Known, PollIsSafe, PollKnows, Polling
<1>10. CASE Upload
  <2>1. log \subseteq log' /\ now' = now /\ poll' = poll
    BY <1>10 DEF Upload
  <2>2. Keys(log) \subseteq Keys(log')
    BY <2>1 DEF Keys
  <2>3. UNCHANGED coordinator /\ UNCHANGED handed
    BY <1>10 DEF Upload
  <2> QED BY <2>1, <2>2, <2>3 DEF OnceInvariant, DeliveredOnce, ReportedIsLogged,
              CursorComesFirst, Remembers, Known, PollIsSafe, PollKnows, Polling
<1>11. CASE Tick
  <2>1. /\ now' = now + 1 /\ now \in Int /\ log' = log /\ poll' = poll
        /\ UNCHANGED coordinator /\ UNCHANGED handed
    BY <1>11 DEF Tick, TypeOK
  <2>2. Remembers'
    <3>1. \A k \in delivered :
              k.dev \in primed /\ k.time >= CatchUpReach(cursor, now') => k \in seen
      BY <1>11, TickKeepsKnown DEF TypeOK, OnceInvariant, Remembers
    <3> QED BY <2>1, <3>1 DEF Remembers, Known
  <2>3. PollIsSafe'
    BY <2>1 DEF OnceInvariant, PollIsSafe, PollKnows, Polling, TypeOK, PollType
  <2> QED BY <2>1, <2>2, <2>3 DEF OnceInvariant, DeliveredOnce, ReportedIsLogged,
                                  CursorComesFirst
<1>12. CASE Ended \/ UNCHANGED vars
  BY <1>1, <1>12 DEF Ended, vars
<1> QED BY <1>2, <1>3, <1>4, <1>5, <1>6, <1>7, <1>8, <1>9, <1>10, <1>11, <1>12 DEF Next

\* The coordinator reports no event twice - however often it is pushed, polled
\* or asked for again, across restarts, failures and devices that come and go -
\* if no push is handled while a poll waits for its answer.
THEOREM ReportedOnce ==
    ASSUME "pushDuringPoll" \notin Environment
    PROVE  Spec => []DeliveredOnce
<1>1. Init => OnceInvariant
  BY DEF Init, NoPoll, OnceInvariant, DeliveredOnce, ReportedIsLogged, CursorComesFirst,
         Remembers, Known, PollIsSafe, PollKnows, Polling
<1>2. TypeOK /\ OnceInvariant /\ [Next]_vars => OnceInvariant'
  BY OnceStep
<1>3. OnceInvariant => DeliveredOnce
  BY DEF OnceInvariant
<1> QED BY <1>1, <1>2, <1>3, TypeCorrect, PTL DEF Spec
-----------------------------------------------------------------------------
(* History                                                                 *)

LEMMA OnceInvariantHolds ==
    ASSUME "pushDuringPoll" \notin Environment
    PROVE  Spec => [](TypeOK /\ OnceInvariant)
<1>1. Init => OnceInvariant
  BY DEF Init, NoPoll, OnceInvariant, DeliveredOnce, ReportedIsLogged, CursorComesFirst,
         Remembers, Known, PollIsSafe, PollKnows, Polling
<1>2. TypeOK /\ OnceInvariant /\ [Next]_vars => OnceInvariant'
  BY OnceStep
<1> QED BY <1>1, <1>2, TypeCorrect, PTL DEF Spec

\* What is in the history is known, in the way of what was reported.
LEMMA HistoryStep ==
    ASSUME "pushDuringPoll" \notin Environment, "noDevices" \notin Environment
    PROVE  TypeOK /\ OnceInvariant /\ HistoryInvariant /\ [Next]_vars => HistoryInvariant'
<1> SUFFICES ASSUME TypeOK, OnceInvariant, HistoryInvariant, [Next]_vars
             PROVE  HistoryInvariant'
  OBVIOUS
<1> USE DEF world, coordinator, first
<1>0. history \in SUBSET AllKeys /\ Known(history)
  BY DEF TypeOK, HistoryInvariant
<1>1. ASSUME now' = now, log' = log, deviceIds' = deviceIds, UNCHANGED coordinator,
             UNCHANGED first, poll' \in {poll, NoPoll}
      PROVE  HistoryInvariant'
  BY <1>1 DEF HistoryInvariant, Known, PollKnows, Polling, NoPoll
<1>2. CASE StartPoll
  <2>1. \A k \in history : k.dev \in primed /\ k.time >= poll'.since => k \in seen
    BY <1>0, <1>2, StartKeepsKnown
  <2>2. poll'.status = "asked"
    BY <1>2 DEF StartPoll
  <2>3. now' = now /\ log' = log /\ deviceIds' = deviceIds /\ UNCHANGED coordinator /\ UNCHANGED first
    BY <1>2 DEF StartPoll
  <2> QED BY <2>1, <2>2, <2>3 DEF HistoryInvariant, Known, PollKnows
<1>3. CASE PollNothing
  BY <1>3 DEF PollNothing, HistoryInvariant
<1>4. CASE ServerAnswers
  <2>1. /\ now' = now /\ log' = log /\ deviceIds' = deviceIds /\ UNCHANGED coordinator
        /\ listed' = listed
        /\ history' = history \cup Keys({event \in log : event.dev \in poll.ids \ listed})
    BY <1>4 DEF ServerAnswers
  <2>2. /\ poll'.since = poll.since /\ poll'.ids = poll.ids
        /\ poll'.answer = {event \in log : event.dev \in poll.ids /\ event.time >= poll.since}
    BY <1>4 DEF ServerAnswers, TypeOK, PollType
  <2>3. history' \subseteq Keys(log)
    BY <2>1 DEF HistoryInvariant, Keys
  <2>4. \A k \in history' \ history : k.dev \notin primed
    BY <2>1 DEF HistoryInvariant, Keys, Key
  <2>5. \A k \in history' :
            k.dev \in poll.ids /\ k.time >= poll.since => k \in Keys(poll'.answer)
    BY <2>2, <2>3 DEF Keys, Key
  <2>6. \A k \in history : k.dev \in primed /\ k.time >= poll.since => k \in seen
    BY <1>4 DEF ServerAnswers, HistoryInvariant, PollKnows, Polling
  <2>7. Known(history)'
    BY <1>0, <2>1, <2>4 DEF Known
  <2>8. PollKnows(history)'
    BY <2>1, <2>2, <2>4, <2>5, <2>6 DEF PollKnows
  <2> QED BY <2>1, <2>3, <2>7, <2>8 DEF HistoryInvariant
<1>5. CASE PollSucceeds
  <2>1. PollKnows(history)
    BY <1>5 DEF PollSucceeds, HistoryInvariant, Polling
  <2>2. \A k \in history \cup Keys(poll.answer) :
            k.dev \in poll.ids /\ k.time >= CatchUpReach(cursor', now) => k \in seen'
    BY <1>0, <1>5, <2>1, PollKeepsKnown
  <2>3. /\ now' = now /\ log' = log /\ deviceIds' = deviceIds /\ history' = history
        /\ primed' = poll.ids /\ listed' = poll.ids /\ poll' = NoPoll
    BY <1>5 DEF PollSucceeds
  <2> QED BY <2>2, <2>3 DEF HistoryInvariant, Known, Polling, NoPoll
<1>6. CASE PollForbidden \/ PollFails \/ PollAuthFails
  BY <1>1, <1>6 DEF PollForbidden, PollFails, PollAuthFails, Fail
<1>7. CASE HandlePush
  <2>1. PICK events \in SUBSET Pushable : Accept(events, now)
    BY <1>7 DEF HandlePush
  <2>2. events \in SUBSET Event
    BY DEF Pushable, TypeOK
  <2>3. \A k \in history \cup Keys(events) :
            k.dev \in primed /\ k.time >= CatchUpReach(cursor', now) => k \in seen'
    BY <1>0, <2>1, <2>2, PushKeepsKnown
  <2>4. /\ now' = now /\ log' = log /\ deviceIds' = deviceIds /\ primed' = primed
        /\ UNCHANGED first /\ poll' = poll /\ ~ Polling
    BY <1>7 DEF HandlePush
  <2> QED BY <2>3, <2>4 DEF HistoryInvariant, Known, Polling
<1>8. CASE RegisterPush \/ RegisterPushFails
  BY <1>1, <1>8 DEF RegisterPush, RegisterPushFails
<1>9. CASE SyncDevices
  BY <1>9 DEF SyncDevices, HistoryInvariant, Known, PollKnows, Polling
<1>10. CASE Reload
  BY <1>10 DEF Reload, Fresh, NoPoll, HistoryInvariant, Known, Polling
<1>11. CASE Upload
  <2>1. log \subseteq log' /\ now' = now /\ poll' = poll /\ deviceIds' = deviceIds
    BY <1>11 DEF Upload
  <2>2. Keys(log) \subseteq Keys(log')
    BY <2>1 DEF Keys
  <2>3. UNCHANGED coordinator /\ UNCHANGED first
    BY <1>11 DEF Upload
  <2> QED BY <2>1, <2>2, <2>3 DEF HistoryInvariant, Known, PollKnows, Polling
<1>12. CASE Tick
  <2>1. \A k \in history :
            k.dev \in primed /\ k.time >= CatchUpReach(cursor, now') => k \in seen
    BY <1>0, <1>12, TickKeepsKnown
  <2>2. /\ log' = log /\ deviceIds' = deviceIds /\ UNCHANGED coordinator /\ UNCHANGED first
        /\ poll' = poll
    BY <1>12 DEF Tick
  <2> QED BY <2>1, <2>2 DEF HistoryInvariant, Known, PollKnows, Polling
<1>13. CASE Ended \/ UNCHANGED vars
  BY <1>1, <1>13 DEF Ended, vars
<1> QED BY <1>2, <1>3, <1>4, <1>5, <1>6, <1>7, <1>8, <1>9, <1>10, <1>11, <1>12, <1>13 DEF Next

LEMMA HistoryInvariantHolds ==
    ASSUME "pushDuringPoll" \notin Environment, "noDevices" \notin Environment
    PROVE  Spec => [](TypeOK /\ OnceInvariant /\ HistoryInvariant)
<1>1. Init => HistoryInvariant
  BY DEF Init, NoPoll, HistoryInvariant, Known, Polling
<1> QED BY <1>1, OnceInvariantHolds, HistoryStep, PTL DEF Spec

\* What is reported is in the log, was not reported before, and is no history.
LEMMA ReportIsNew ==
    ASSUME "pushDuringPoll" \notin Environment, TypeOK, OnceInvariant, HistoryInvariant,
           PollSucceeds \/ HandlePush
    PROVE  /\ log' = log /\ history' = history
           /\ \E reports \in SUBSET log :
                  /\ Deliver(reports)
                  /\ Keys(reports) \cap (delivered \cup history) = {}
<1> USE DEF world, first
<1>1. ASSUME NEW events \in SUBSET log, Deliver(Reported(events)),
             \A event \in events :
                 event.dev \in primed /\ Key(event) \in delivered \cup history
                     => Key(event) \in seen
      PROVE  \E reports \in SUBSET log :
                 /\ Deliver(reports)
                 /\ Keys(reports) \cap (delivered \cup history) = {}
  <2>1. Reported(events) \in SUBSET log
    BY DEF Reported, NewEvents
  <2>2. Keys(Reported(events)) \cap (delivered \cup history) = {}
    BY <1>1 DEF Reported, NewEvents, Keys
  <2> QED BY <1>1, <2>1, <2>2
<1>2. CASE PollSucceeds
  <2>1. poll.answer \in SUBSET log /\ \A event \in poll.answer : event.time >= poll.since
    BY <1>2 DEF PollSucceeds, OnceInvariant, PollIsSafe, Polling
  <2>2. PollKnows(delivered) /\ PollKnows(history)
    BY <1>2 DEF PollSucceeds, OnceInvariant, PollIsSafe, HistoryInvariant, Polling
  <2>3. \A event \in poll.answer :
            event.dev \in primed /\ Key(event) \in delivered \cup history => Key(event) \in seen
    BY <2>1, <2>2 DEF PollKnows, Key
  <2> QED BY <1>1, <1>2, <2>1, <2>3 DEF PollSucceeds
<1>3. CASE HandlePush
  <2>1. PICK events \in SUBSET Pushable : Deliver(Reported(events))
    BY <1>3 DEF HandlePush
  <2>2. events \in SUBSET log
    BY DEF Pushable
  <2>3. Known(delivered) /\ Known(history)
    BY DEF OnceInvariant, Remembers, HistoryInvariant
  <2>4. \A event \in events :
            event.dev \in primed /\ Key(event) \in delivered \cup history => Key(event) \in seen
    BY <2>3, PushIsKnown
  <2> QED BY <1>1, <1>3, <2>1, <2>2, <2>4 DEF HandlePush
<1> QED BY <1>2, <1>3

\* Every other step reports nothing.
LEMMA OthersReportNothing ==
    ASSUME [Next]_vars, ~ PollSucceeds, ~ HandlePush
    PROVE  UNCHANGED handed
BY DEF Next, StartPoll, PollNothing, ServerAnswers, PollForbidden, PollFails, PollAuthFails,
       Fail, RegisterPush, RegisterPushFails, SyncDevices, Reload, Upload, Tick, Ended, vars

\* History is never reported: nothing that was in the log when its device was
\* first polled since the last restart, or before it - if the account is never
\* without locks, and no push is handled while a poll waits.
THEOREM HistoryNeverReplayed ==
    ASSUME "pushDuringPoll" \notin Environment, "noDevices" \notin Environment
    PROVE  Spec => HistoryNotReplayed
<1>1. ASSUME TypeOK, OnceInvariant, HistoryInvariant, [Next]_vars
      PROVE  (delivered' \ delivered) \cap history = {}
  <2>1. CASE PollSucceeds \/ HandlePush
    BY <1>1, <2>1, ReportIsNew DEF Deliver
  <2>2. CASE ~ (PollSucceeds \/ HandlePush)
    BY <1>1, <2>2, OthersReportNothing DEF handed
  <2> QED BY <2>1, <2>2
<1>2. TypeOK /\ OnceInvariant /\ HistoryInvariant /\ [Next]_vars
          => [(delivered' \ delivered) \cap history = {}]_vars
  BY <1>1
<1> QED BY <1>2, HistoryInvariantHolds, PTL DEF Spec, HistoryNotReplayed

-----------------------------------------------------------------------------
(* What is fired                                                           *)

\* The end of a poll fires what it reports, or nothing.
LEMMA SucceedFires ==
    ASSUME NEW events, NEW wait, NEW previous, NEW wasOk,
           Succeed(events, wait, previous, wasOk)
    PROVE  UNCHANGED ghosts \/ Fire(events)
BY DEF Succeed, FireNothing

\* As long as no poll fails, the listeners fire only what is being reported.
LEMMA FiredStep ==
    ASSUME "fail" \notin Environment, "auth" \notin Environment
    PROVE  DeliveredOnce' /\ FiredInvariant /\ [Next]_vars => FiredInvariant'
<1> SUFFICES ASSUME DeliveredOnce', FiredInvariant, [Next]_vars PROVE FiredInvariant'
  OBVIOUS
<1> USE DEF handed, ghosts
<1>1. ASSUME UNCHANGED handed, UNCHANGED ghosts \/ Fire({})
      PROVE  FiredInvariant'
  BY <1>1 DEF FiredInvariant, FiredOnce, Fire, Keys
<1>2. ASSUME NEW events, Deliver(events), UNCHANGED ghosts \/ Fire(events)
      PROVE  FiredInvariant'
  <2>1. delivered \cap Keys(events) = {}
    BY <1>2 DEF Deliver, DeliveredOnce
  <2> QED BY <1>2, <2>1 DEF FiredInvariant, FiredOnce, Fire, Deliver
<1>3. CASE PollNothing
  BY <1>1, <1>3, SucceedFires DEF PollNothing
<1>4. CASE PollForbidden
  BY <1>1, <1>4, SucceedFires DEF PollForbidden
<1>5. CASE PollSucceeds
  <2>1. Deliver(Reported(poll.answer))
    BY <1>5 DEF PollSucceeds
  <2>2. UNCHANGED ghosts \/ Fire(Reported(poll.answer))
    BY <1>5, SucceedFires DEF PollSucceeds
  <2> QED BY <1>2, <2>1, <2>2
<1>6. CASE HandlePush
  <2>1. PICK events \in (SUBSET Pushable) \ {{}} :
            /\ Deliver(Reported(events))
            /\ UNCHANGED ghosts \/ Fire(Reported(events))
    BY <1>6 DEF HandlePush
  <2> QED BY <1>2, <2>1
<1>7. CASE StartPoll \/ ServerAnswers \/ RegisterPush \/ RegisterPushFails \/ SyncDevices
  BY <1>1, <1>7 DEF StartPoll, ServerAnswers, RegisterPush, RegisterPushFails, SyncDevices
<1>8. CASE Reload \/ Upload \/ Tick \/ Ended \/ UNCHANGED vars
  BY <1>1, <1>8 DEF Reload, Upload, Tick, Ended, vars
<1> QED BY <1>3, <1>4, <1>5, <1>6, <1>7, <1>8 DEF Next, PollFails, PollAuthFails

\* Home Assistant fires each event once: on top of ReportedOnce, if no poll
\* fails, as a listener fires whatever data it is told of (event.py).
THEOREM AlwaysFiredOnce ==
    ASSUME "pushDuringPoll" \notin Environment,
           "fail" \notin Environment, "auth" \notin Environment
    PROVE  Spec => []FiredOnce
<1>1. Init => FiredInvariant
  BY DEF Init, FiredInvariant, FiredOnce
<1>2. FiredInvariant => FiredOnce
  BY DEF FiredInvariant
<1> QED BY <1>1, <1>2, FiredStep, ReportedOnce, PTL DEF Spec

-----------------------------------------------------------------------------
(* The coordinator implements EventFeed                                    *)

LEMMA TimeIsBounded == Spec => [](now <= MaxTime)
<1>1. Init => now <= MaxTime
  BY TimesAreNaturals DEF Init
<1>2. TypeOK /\ now <= MaxTime /\ [Next]_vars => (now <= MaxTime)'
  <2> SUFFICES ASSUME TypeOK, now <= MaxTime, [Next]_vars PROVE now' <= MaxTime
    OBVIOUS
  <2> USE DEF world
  <2>1. CASE Tick
    BY <2>1, TimesAreNaturals DEF Tick, TypeOK
  <2>2. CASE ~ Tick
    <3>1. now' = now
      BY <2>2 DEF Next, StartPoll, PollNothing, ServerAnswers, PollSucceeds, PollForbidden,
                  PollFails, PollAuthFails, Fail, HandlePush, RegisterPush, RegisterPushFails,
                  SyncDevices, Reload, Upload, Ended, vars
    <3> QED BY <3>1
  <2> QED BY <2>1, <2>2
<1> QED BY <1>1, <1>2, TypeCorrect, PTL DEF Spec

\* What became of an event, as nothing is reported twice.
LEMMA StandingIs ==
    ASSUME DeliveredOnce, NEW k
    PROVE  Standing(k) = IF k \in delivered THEN "reported"
                         ELSE IF k \in history THEN "old" ELSE "new"
BY DEF Standing, DeliveredOnce

LEMMA StandingBecomes ==
    ASSUME DeliveredOnce', NEW k
    PROVE  Standing(k)' = IF k \in delivered' THEN "reported"
                          ELSE IF k \in history' THEN "old" ELSE "new"
BY DEF Standing, DeliveredOnce

\* Each step is one of EventFeed, or leaves what became of the events.
LEMMA FeedStep ==
    ASSUME "pushDuringPoll" \notin Environment, "noDevices" \notin Environment,
           TypeOK, OnceInvariant, HistoryInvariant, now <= MaxTime, OnceInvariant',
           [Next]_vars
    PROVE  [Feed!Next]_FeedState
<1>1. DeliveredOnce /\ DeliveredOnce' /\ delivered \subseteq Keys(log) /\ history \subseteq Keys(log)
  BY DEF OnceInvariant, ReportedIsLogged, HistoryInvariant
<1>2. \A k : Standing(k) = IF k \in delivered THEN "reported"
                           ELSE IF k \in history THEN "old" ELSE "new"
  BY <1>1, StandingIs
<1>3. \A k : Standing(k)' = IF k \in delivered' THEN "reported"
                            ELSE IF k \in history' THEN "old" ELSE "new"
  BY <1>1, StandingBecomes
<1>4. FeedState = [k \in Keys(log) |-> Standing(k)]
  BY DEF FeedState
<1>5. FeedState' = [k \in Keys(log)' |-> Standing(k)']
  BY DEF FeedState
<1>6. ASSUME Keys(log)' = Keys(log), delivered' = delivered, history' = history
      PROVE  FeedState' = FeedState
  BY <1>2, <1>3, <1>4, <1>5, <1>6
<1>7. CASE Upload
  <2>1. PICK type \in Types, dev \in Devices, time \in now - MaxDelay .. now + MaxAhead :
            LET event == [type |-> type, dev |-> dev, time |-> time, uploaded |-> now]
            IN  Key(event) \notin Keys(log) /\ log' = log \cup {event}
    BY <1>7 DEF Upload
  <2> DEFINE event == [type |-> type, dev |-> dev, time |-> time, uploaded |-> now]
             k == [type |-> type, dev |-> dev, time |-> time]
  <2>2. k \notin Keys(log) /\ Keys(log)' = Keys(log) \cup {k}
    <3>1. Key(event) = k
      BY DEF Key
    <3> HIDE DEF event, k
    <3>2. k \notin Keys(log) /\ log' = log \cup {event}
      BY <2>1, <3>1 DEF event
    <3> QED BY <3>1, <3>2 DEF Keys
  <2>3. k \in BoundedKeys
    <3>1. time \in -MaxDelay .. MaxTime + MaxAhead
      BY TimesAreNaturals DEF TypeOK
    <3> QED BY <3>1 DEF BoundedKeys
  <2>4. delivered' = delivered /\ history' = history
    BY <1>7 DEF Upload, handed, first
  <2> HIDE DEF k
  <2>5. k \in BoundedKeys \ DOMAIN FeedState
    BY <1>4, <2>2, <2>3
  <2>6. FeedState' = [j \in DOMAIN FeedState \cup {k} |->
                          IF j = k THEN "new" ELSE FeedState[j]]
    BY <1>1, <1>2, <1>3, <1>4, <1>5, <2>2, <2>4
  <2>7. FeedState' # FeedState
    BY <1>4, <1>5, <2>2
  <2> QED BY <2>5, <2>6, <2>7 DEF Feed!Next, Feed!Log
<1>8. ASSUME NEW events, NEW standing,
             events \subseteq {k \in DOMAIN FeedState : FeedState[k] = "new"},
             FeedState' = [k \in DOMAIN FeedState |->
                               IF k \in events THEN standing ELSE FeedState[k]]
      PROVE  FeedState' = FeedState \/ Feed!Become(standing)
  <2>1. CASE events = {}
    BY <1>4, <1>8, <2>1
  <2>2. CASE events # {}
    <3>1. events \in (SUBSET {k \in DOMAIN FeedState : FeedState[k] = "new"}) \ {{}}
      BY <1>8, <2>2
    <3> QED BY <1>8, <3>1 DEF Feed!Become
  <2> QED BY <2>1, <2>2
<1>9. CASE ServerAnswers
  <2>1. log' = log /\ delivered' = delivered /\ history \subseteq history'
    BY <1>9 DEF ServerAnswers, world, handed
  <2>2. Keys(log)' = Keys(log)
    BY <2>1 DEF Keys
  <2> DEFINE events == {k \in DOMAIN FeedState : FeedState[k] = "new" /\ k \in history'}
  <2>3. FeedState' = [k \in DOMAIN FeedState |-> IF k \in events THEN "old" ELSE FeedState[k]]
    BY <1>2, <1>3, <1>4, <1>5, <2>1, <2>2
  <2>4. FeedState' = FeedState \/ Feed!Become("old")
    BY <1>8, <2>3
  <2> QED BY <2>4 DEF Feed!Next, Feed!Follow
<1>10. CASE PollSucceeds \/ HandlePush
  <2>1. log' = log /\ history' = history
    BY <1>10, ReportIsNew
  <2>2. PICK reports \in SUBSET log :
            Deliver(reports) /\ Keys(reports) \cap (delivered \cup history) = {}
    BY <1>10, ReportIsNew
  <2>3. Keys(log)' = Keys(log) /\ Keys(reports) \subseteq Keys(log)
    BY <2>1, <2>2 DEF Keys
  <2>4. delivered' = delivered \cup Keys(reports)
    BY <2>2 DEF Deliver
  <2>5. Keys(reports) \subseteq {k \in DOMAIN FeedState : FeedState[k] = "new"}
    BY <1>2, <1>4, <2>2, <2>3
  <2>6. FeedState' = [k \in DOMAIN FeedState |->
                          IF k \in Keys(reports) THEN "reported" ELSE FeedState[k]]
    BY <1>2, <1>3, <1>4, <1>5, <2>1, <2>3, <2>4
  <2>7. FeedState' = FeedState \/ Feed!Become("reported")
    BY <1>8, <2>5, <2>6
  <2> QED BY <2>7 DEF Feed!Next, Feed!Report
<1>11. CASE ~ (Upload \/ ServerAnswers \/ PollSucceeds \/ HandlePush)
  <2>1. log' = log /\ delivered' = delivered /\ history' = history
    BY <1>11 DEF Next, StartPoll, PollNothing, PollForbidden, PollFails, PollAuthFails,
                 Fail, RegisterPush, RegisterPushFails, SyncDevices, Reload, Tick, Ended,
                 vars, world, handed, first
  <2> QED BY <1>6, <2>1
<1> QED BY <1>7, <1>9, <1>10, <1>11

\* What the listeners are given is an EventFeed: each event is reported once or,
\* if it was there when its device was first polled, never.
THEOREM CoordinatorIsFeed ==
    ASSUME "pushDuringPoll" \notin Environment, "noDevices" \notin Environment
    PROVE  Spec => FeedImplemented
<1>1. Init => Feed!Init
  <2> SUFFICES ASSUME Init PROVE FeedState = [k \in {} |-> "new"]
    BY DEF Feed!Init
  <2>1. Keys(log) = {}
    BY DEF Init, Keys
  <2> QED BY <2>1 DEF FeedState
<1>2. /\ TypeOK /\ OnceInvariant /\ HistoryInvariant /\ now <= MaxTime
      /\ (TypeOK /\ OnceInvariant /\ HistoryInvariant)'
      /\ [Next]_vars
      => [Feed!Next]_FeedState
  BY FeedStep
<1> QED BY <1>1, <1>2, HistoryInvariantHolds, TimeIsBounded, PTL
        DEF Spec, FeedImplemented, Feed!Spec
-----------------------------------------------------------------------------
(* Nothing waits for long                                                  *)

\* The gaps between polls are times, and no interval is longer.
LEMMA Gaps ==
    /\ PollGap \in Nat /\ CatchUpGap \in Nat /\ PollGap - Latency \in Nat
    /\ Latency \in Nat /\ CatchUpInterval \in Nat /\ CatchUpInterval >= 1
    /\ CatchUpGap = CatchUpInterval + PollGap - 1
    /\ ScanInterval \in Nat /\ PushScanInterval \in Nat
    /\ ScanInterval <= PollGap - Latency
    /\ "register" \in Environment => PushScanInterval <= PollGap - Latency
<1>1. /\ Latency \in Nat /\ {CatchUpInterval, ScanInterval, PushScanInterval} \subseteq Nat \ {0}
      /\ ScanInterval <= PushScanInterval
  BY TimesAreNaturals, PushesReplacePolls
<1> QED BY <1>1 DEF PollGap, CatchUpGap

\* Waiting for an interval is waiting for no longer than the gap without latency.
LEMMA WaitsAreShort ==
    ASSUME NEW at \in Int, NEW wait \in Nat, NEW gap \in Int, NEW latency \in Int,
           wait <= gap - latency
    PROVE  at <= at + wait /\ at + wait <= at + gap - latency
OBVIOUS

\* What the times of a poll, and of the events, are.
LEMMA TimesAreTimes ==
    ASSUME TypeOK
    PROVE  /\ now \in Int /\ LastCatchUp \in Int
           /\ due # None => due \in Int
           /\ cursor # None => cursor \in Int
           /\ poll.began \in Int /\ poll.since \in Int
           /\ poll.status \in {"idle", "asked", "answered"} /\ poll.catchUp \in BOOLEAN
           /\ \A event \in log : event.time \in Int /\ event.uploaded \in Int
           /\ \A event \in poll.answer : event.time \in Int
BY DEF TypeOK, PollType, Event, LastCatchUp

\* With polls that work, no pushes, and the same devices, these are the steps.
LEMMA QuietSteps ==
    ASSUME Environment \subseteq {"register"}, PollsKeepComing, [Next]_vars
    PROVE  \/ StartPoll \/ ServerAnswers \/ PollSucceeds \/ RegisterPush \/ RegisterPushFails
           \/ Upload \/ Tick \/ UNCHANGED vars
BY DEF Next, PollsKeepComing, PollNothing, PollForbidden, PollFails, PollAuthFails,
       HandlePush, SyncDevices, Reload, Ended

\* A poll that starts takes down the time, the devices and the data there was.
LEMMA StartIs ==
    ASSUME StartPoll
    PROVE  /\ poll'.status = "asked" /\ poll'.began = now /\ poll'.ids = deviceIds
           /\ poll'.catchUp = NeedsCatchUp /\ poll'.previous = data /\ poll'.answer = {}
           /\ ~ Polling /\ Polling'
           /\ due # None /\ due <= now /\ due' = None
           /\ UNCHANGED <<now, log, deviceIds, cursor, seen, primed, lastCatchUp, interval,
                          registering, data, fired, history, listed>>
BY DEF StartPoll, Polling, world, coordinator, mode, entry, ghosts, first

\* An answer has what was asked for.
LEMMA AnswerIs ==
    ASSUME TypeOK, ServerAnswers
    PROVE  /\ poll.status = "asked" /\ poll'.status = "answered" /\ Polling /\ Polling'
           /\ poll'.answer = {event \in log : event.dev \in poll.ids /\ event.time >= poll.since}
           /\ poll'.began = poll.began /\ poll'.ids = poll.ids
           /\ poll'.catchUp = poll.catchUp /\ poll'.previous = poll.previous
           /\ history' = history \cup Keys({event \in log : event.dev \in poll.ids \ listed})
           /\ UNCHANGED <<now, log, deviceIds, cursor, seen, primed, lastCatchUp, interval,
                          registering, data, due, fired, listed>>
BY DEF ServerAnswers, Polling, TypeOK, PollType, world, coordinator, mode, framework, entry,
       ghosts, first

\* A poll that succeeds leaves no poll under way.
LEMMA SuccessIs ==
    ASSUME PollSucceeds
    PROVE  /\ poll.status = "answered" /\ Polling /\ ~ Polling' /\ poll' = NoPoll
           /\ lastCatchUp' = IF poll.catchUp THEN poll.began ELSE lastCatchUp
           /\ primed' = poll.ids /\ listed' = poll.ids
           /\ data' = Reported(poll.answer) /\ fired \subseteq fired'
           /\ due' = IF interval' = None THEN None ELSE now + interval'
           /\ interval' \in {interval, ScanInterval}
           /\ (registering' => registering \/ "register" \in Environment)
           /\ UNCHANGED <<now, log, deviceIds, history>>
<1>1. /\ poll.status = "answered" /\ poll' = NoPoll /\ ~ Polling' /\ Polling
      /\ lastCatchUp' = IF poll.catchUp THEN poll.began ELSE lastCatchUp
      /\ primed' = poll.ids /\ listed' = poll.ids
      /\ UNCHANGED <<now, log, deviceIds, history>>
  BY DEF PollSucceeds, world, Polling, NoPoll
<1>2. Succeed(Reported(poll.answer), interval', poll.previous, poll.wasOk)
  BY DEF PollSucceeds
<1>3. /\ data' = Reported(poll.answer) /\ fired \subseteq fired'
      /\ due' = IF interval' = None THEN None ELSE now + interval'
  BY <1>2 DEF Succeed, Fire, FireNothing, ghosts
<1>4. interval' \in {interval, ScanInterval}
  BY DEF PollSucceeds, SetPushActive, mode
<1>5. (registering' => registering \/ "register" \in Environment)
  BY DEF PollSucceeds, FinishSetup
<1> QED BY <1>1, <1>3, <1>4, <1>5

\* The push's registration changes how often polls come, and nothing else.
LEMMA RegisterIs ==
    ASSUME RegisterPush \/ RegisterPushFails
    PROVE  /\ registering /\ registering' = FALSE
           /\ interval' \in {interval, PushScanInterval}
           /\ (Polling' <=> Polling)
           /\ UNCHANGED <<now, log, deviceIds, cursor, seen, primed, lastCatchUp, poll, data, due,
                          fired, history, listed>>
BY DEF RegisterPush, RegisterPushFails, SetPushActive, Polling, world, coordinator, mode,
       framework, ghosts, first

\* An upload adds to the log.
LEMMA UploadIs ==
    ASSUME TypeOK, Upload
    PROVE  /\ \E event \in Event : /\ log' = log \cup {event}
                                   /\ event.uploaded = now /\ event.time <= now + MaxAhead
           /\ (Polling' <=> Polling)
           /\ UNCHANGED <<now, deviceIds, cursor, seen, primed, lastCatchUp, interval, registering,
                          poll, data, due, fired, history, listed>>
<1>1. \E event \in Event : /\ log' = log \cup {event}
                           /\ event.uploaded = now /\ event.time <= now + MaxAhead
  <2>1. PICK type \in Types, dev \in Devices, time \in now - MaxDelay .. now + MaxAhead :
            log' = log \cup {[type |-> type, dev |-> dev, time |-> time, uploaded |-> now]}
    BY DEF Upload
  <2>2. time \in Int /\ time <= now + MaxAhead /\ now \in Int
    BY TimesAreNaturals DEF TypeOK
  <2>3. [type |-> type, dev |-> dev, time |-> time, uploaded |-> now] \in Event
    BY <2>2 DEF Event
  <2> QED BY <2>1, <2>2, <2>3
<1> QED BY <1>1 DEF Upload, Polling, coordinator, mode, framework, entry, ghosts, first

LEMMA TickIs ==
    ASSUME TypeOK, Tick
    PROVE  /\ now' = now + 1
           /\ Polling => now < poll.began + Latency
           /\ ~ Polling /\ due # None => now < due
           /\ (Polling' <=> Polling)
           /\ UNCHANGED <<log, deviceIds, cursor, seen, primed, lastCatchUp, interval, registering,
                          poll, data, due, fired, history, listed>>
BY DEF Tick, Polling, coordinator, mode, framework, entry, ghosts, first

LEMMA StutterIs ==
    ASSUME UNCHANGED vars
    PROVE  /\ (Polling' <=> Polling)
           /\ UNCHANGED <<now, log, deviceIds, cursor, seen, primed, lastCatchUp, interval,
                          registering, poll, data, due, fired, history, listed>>
BY DEF vars, Polling, world, coordinator, mode, framework, entry, ghosts, first

\* Polls keep coming.
LEMMA NextPolls ==
    ASSUME Environment \subseteq {"register"}, TypeOK, TypeOK', PollsKeepComing, [Next]_vars
    PROVE  PollsKeepComing'
<1>0. Latency \in Nat /\ PollGap \in Nat /\ PollGap - Latency \in Nat
  BY Gaps
<1>1. /\ now \in Int /\ poll.began \in Int /\ now' \in Int /\ poll'.began \in Int
      /\ due # None => due \in Int
  BY TimesAreTimes DEF TypeOK, PollType
<1>2. interval' # None /\ interval' \in Nat /\ interval' <= PollGap - Latency
  <2>1. interval' \in {interval, ScanInterval, PushScanInterval}
    BY QuietSteps, StartIs, AnswerIs, SuccessIs, RegisterIs, UploadIs, TickIs, StutterIs
  <2>2. interval' = PushScanInterval => interval = PushScanInterval \/ "register" \in Environment
                                        \/ PushScanInterval = ScanInterval
    <3>1. CASE RegisterPush \/ RegisterPushFails
      BY <3>1, RegisterIs DEF PollsKeepComing
    <3>2. CASE ~ (RegisterPush \/ RegisterPushFails)
      BY <3>2, QuietSteps, StartIs, AnswerIs, SuccessIs, UploadIs, TickIs, StutterIs
    <3> QED BY <3>1, <3>2
  <2> QED BY <2>1, <2>2, Gaps, NoneIsNoInterval DEF PollsKeepComing, TypeOK
<1>3. /\ deviceIds' # {} /\ primed' = listed'
      /\ registering' => "register" \in Environment
  <2>1. deviceIds' = deviceIds
    BY QuietSteps, StartIs, AnswerIs, SuccessIs, RegisterIs, UploadIs, TickIs, StutterIs
  <2>3. registering' => registering \/ "register" \in Environment
    <3>1. CASE PollSucceeds
      BY <3>1, SuccessIs
    <3>2. CASE RegisterPush \/ RegisterPushFails
      BY <3>2, RegisterIs
    <3>3. CASE ~ (PollSucceeds \/ RegisterPush \/ RegisterPushFails)
      <4>1. registering' = registering
        BY <3>3, QuietSteps, StartIs, AnswerIs, UploadIs, TickIs, StutterIs
      <4> QED BY <4>1
    <3> QED BY <3>1, <3>2, <3>3
  <2>2. primed' = listed'
    BY QuietSteps, StartIs, AnswerIs, SuccessIs, RegisterIs, UploadIs, TickIs, StutterIs
       DEF PollsKeepComing
  <2> QED BY <2>1, <2>2, <2>3 DEF PollsKeepComing
<1>4. /\ ~ Polling' => due' # None /\ now' <= due' /\ due' <= now' + PollGap - Latency
      /\ Polling' => /\ poll'.ids = deviceIds'
                     /\ poll'.began <= now' /\ now' <= poll'.began + Latency
  <2>1. CASE StartPoll
    BY <1>0, <1>1, <2>1, StartIs
  <2>2. CASE ServerAnswers
    BY <1>0, <1>1, <2>2, AnswerIs DEF PollsKeepComing
  <2>3. CASE PollSucceeds
    <3>1. due' = now + interval' /\ now' = now /\ ~ Polling'
      BY <1>2, <2>3, SuccessIs
    <3>2. due' # None
      BY <1>1, <1>2, <3>1, NoneIsNoInterval
    <3>3. PICK wait \in {ScanInterval, PushScanInterval} : wait = interval'
      BY <1>2 DEF TypeOK
    <3>4. wait \in Nat /\ wait <= PollGap - Latency
      BY <1>2, <3>3
    <3>5. due' = now + wait /\ now' = now
      BY <3>1, <3>3
    <3>6. now <= now + wait /\ now + wait <= now + PollGap - Latency
      BY <1>0, <1>1, <3>4, WaitsAreShort
    <3> QED BY <3>1, <3>2, <3>5, <3>6
  <2>4. CASE RegisterPush \/ RegisterPushFails
    BY <1>0, <1>1, <2>4, RegisterIs DEF PollsKeepComing
  <2>5. CASE Upload
    BY <1>0, <1>1, <2>5, UploadIs DEF PollsKeepComing
  <2>6. CASE Tick
    <3>1. /\ now' = now + 1 /\ (Polling' <=> Polling) /\ poll' = poll /\ due' = due
          /\ deviceIds' = deviceIds
          /\ Polling => now < poll.began + Latency
          /\ ~ Polling /\ due # None => now < due
      BY <2>6, TickIs
    <3> QED BY <1>0, <1>1, <3>1 DEF PollsKeepComing
  <2>7. CASE UNCHANGED vars
    BY <1>0, <1>1, <2>7, StutterIs DEF PollsKeepComing
  <2> QED BY <2>1, <2>2, <2>3, <2>4, <2>5, <2>6, <2>7, QuietSteps
<1> QED BY <1>2, <1>3, <1>4 DEF PollsKeepComing

\* Catch-ups are started in time.
LEMMA NextCatchUps ==
    ASSUME Environment \subseteq {"register"}, TypeOK, TypeOK', PollsKeepComing, PollsKeepComing',
           CatchUpsAreDue, [Next]_vars
    PROVE  CatchUpsAreDue'
<1>0. /\ CatchUpGap \in Int /\ CatchUpInterval \in Int /\ PollGap \in Int /\ Latency \in Int
      /\ CatchUpInterval >= 1 /\ CatchUpGap = CatchUpInterval + PollGap - 1
  BY Gaps
<1>1. now \in Int /\ LastCatchUp \in Int /\ poll.began \in Int /\ poll.catchUp \in BOOLEAN
  BY TimesAreTimes
<1>2. lastCatchUp' = lastCatchUp => LastCatchUp' = LastCatchUp
  BY DEF LastCatchUp
<1>3. CASE StartPoll
  <2>1. /\ LastCatchUp' = LastCatchUp /\ now' = now /\ ~ Polling /\ Polling'
        /\ poll'.began = now /\ poll'.catchUp = NeedsCatchUp /\ due <= now
    BY <1>2, <1>3, StartIs
  <2>2. PICK when \in Int : when = due
    BY <2>1 DEF PollsKeepComing, TypeOK
  <2>3. now = when
    BY <1>1, <2>1, <2>2 DEF PollsKeepComing
  <2>4. now <= LastCatchUp + CatchUpGap
    BY <2>1, <2>2, <2>3 DEF CatchUpsAreDue
  <2>5. ~ NeedsCatchUp => now <= LastCatchUp + (CatchUpInterval - 1)
    <3> SUFFICES ASSUME ~ NeedsCatchUp PROVE now <= LastCatchUp + (CatchUpInterval - 1)
      OBVIOUS
    <3>1. LastCatchUp = lastCatchUp /\ ~ (now - LastCatchUp >= CatchUpInterval)
      BY DEF NeedsCatchUp, LastCatchUp
    <3> QED BY <1>0, <1>1, <3>1
  <2> QED BY <2>1, <2>4, <2>5 DEF CatchUpsAreDue
<1>4. CASE PollSucceeds
  <2>1. /\ ~ Polling' /\ Polling /\ now' = now
        /\ lastCatchUp' = IF poll.catchUp THEN poll.began ELSE lastCatchUp
    BY <1>4, SuccessIs
  <2>2. PICK when \in Int : when = due' /\ when <= now + PollGap - Latency
    BY <2>1 DEF PollsKeepComing, TypeOK
  <2>3. /\ poll.began <= now /\ now <= poll.began + Latency /\ LastCatchUp <= now
        /\ poll.began <= LastCatchUp
               + (IF poll.catchUp THEN CatchUpGap ELSE CatchUpInterval - 1)
    BY <2>1 DEF PollsKeepComing, CatchUpsAreDue
  <2>4. when <= poll.began + PollGap
    BY <1>0, <1>1, <2>2, <2>3
  <2>5. CASE poll.catchUp
    <3>1. LastCatchUp' = poll.began
      BY <1>1, <2>1, <2>5, NoneIsNoInterval DEF LastCatchUp
    <3>2. when <= poll.began + CatchUpGap
      BY <1>0, <1>1, <2>4
    <3> QED BY <2>1, <2>2, <2>3, <3>1, <3>2 DEF CatchUpsAreDue
  <2>6. CASE ~ poll.catchUp
    <3>1. LastCatchUp' = LastCatchUp
      BY <1>2, <2>1, <2>6
    <3>2. poll.began <= LastCatchUp + (CatchUpInterval - 1)
      BY <2>3, <2>6
    <3>3. when <= LastCatchUp + CatchUpGap
      BY <1>0, <1>1, <2>4, <3>2
    <3> QED BY <2>1, <2>2, <2>3, <3>1, <3>3 DEF CatchUpsAreDue
  <2> QED BY <2>5, <2>6
<1>5. CASE Tick
  <2>1. /\ now' = now + 1 /\ LastCatchUp' = LastCatchUp /\ poll' = poll /\ due' = due
        /\ (Polling' <=> Polling)
    BY <1>2, <1>5, TickIs
  <2>2. LastCatchUp <= now'
    BY <1>1, <2>1 DEF CatchUpsAreDue
  <2> QED BY <2>1, <2>2 DEF CatchUpsAreDue
<1>6. CASE ServerAnswers
  BY <1>2, <1>6, AnswerIs DEF CatchUpsAreDue
<1>7. CASE RegisterPush \/ RegisterPushFails
  BY <1>2, <1>7, RegisterIs DEF CatchUpsAreDue
<1>8. CASE Upload
  BY <1>2, <1>8, UploadIs DEF CatchUpsAreDue
<1>9. CASE UNCHANGED vars
  BY <1>2, <1>9, StutterIs DEF CatchUpsAreDue
<1> QED BY <1>3, <1>4, <1>5, <1>6, <1>7, <1>8, <1>9, QuietSteps

\* What a poll returned is fired, or history, once it succeeded.
LEMMA AnswerIsTold ==
    ASSUME AllIsTold, PollSucceeds
    PROVE  /\ Keys(Reported(poll.answer)) \subseteq fired'
           /\ \A event \in poll.answer : Key(event) \in fired' \cup history'
<1>1. /\ poll.status = "answered" /\ Polling
      /\ fired \subseteq fired' /\ history' = history
  BY SuccessIs
<1>2. Keys(Reported(poll.answer)) \subseteq fired'
  <2>1. Succeed(Reported(poll.answer), interval', poll.previous, poll.wasOk)
    BY DEF PollSucceeds
  <2>2. poll.previous = Reported(poll.answer) \/ Fire(Reported(poll.answer))
    BY <2>1 DEF Succeed
  <2> QED BY <1>1, <2>2 DEF Fire, AllIsTold
<1>3. \A event \in poll.answer : Key(event) \in fired' \cup history'
  BY <1>1, <1>2 DEF AllIsTold, Reported, NewEvents, Keys
<1> QED BY <1>2, <1>3

\* Nothing else is known, and nothing else is data.
LEMMA NextTold ==
    ASSUME Environment \subseteq {"register"}, TypeOK, PollsKeepComing, AllIsTold, [Next]_vars
    PROVE  AllIsTold'
<1>1. CASE StartPoll
  BY <1>1, StartIs DEF AllIsTold
<1>2. CASE ServerAnswers
  <2>1. \A event \in poll'.answer : event.dev \in primed' \/ Key(event) \in history'
    BY <1>2, AnswerIs DEF PollsKeepComing, Keys
  <2>2. history \subseteq history'
    BY <1>2, AnswerIs
  <2> QED BY <1>2, <2>1, <2>2, AnswerIs DEF AllIsTold
<1>3. CASE PollSucceeds
  <2>1. /\ poll.status = "answered" /\ Polling /\ ~ Polling' /\ poll' = NoPoll
        /\ data' = Reported(poll.answer) /\ fired \subseteq fired' /\ history' = history
    BY <1>3, SuccessIs
  <2>2. Keys(Reported(poll.answer)) \subseteq fired'
    BY <1>3, AnswerIsTold
  <2>3. \A event \in poll.answer : Key(event) \in fired' \cup history'
    BY <1>3, AnswerIsTold
  <2>4. seen' \subseteq seen \cup Keys(NewEvents(poll.answer))
    BY <1>3 DEF PollSucceeds, Accept
  <2>5. seen' \subseteq fired' \cup history'
    BY <2>1, <2>3, <2>4 DEF AllIsTold, NewEvents, Keys
  <2> QED BY <2>1, <2>2, <2>5 DEF AllIsTold, NoPoll
<1>4. CASE RegisterPush \/ RegisterPushFails
  BY <1>4, RegisterIs DEF AllIsTold
<1>5. CASE Upload
  BY <1>5, UploadIs DEF AllIsTold
<1>6. CASE Tick
  BY <1>6, TickIs DEF AllIsTold
<1>7. CASE UNCHANGED vars
  BY <1>7, StutterIs DEF AllIsTold
<1> QED BY <1>1, <1>2, <1>3, <1>4, <1>5, <1>6, <1>7, QuietSteps

\* The cursor goes no further than what the poll knew, and returned.
LEMMA CursorIsBounded ==
    ASSUME TypeOK, PollSucceeds, NEW limit \in Int,
           cursor # None => cursor <= limit,
           cursor = None => poll.began <= limit,
           \A event \in poll.answer : event.time <= limit
    PROVE  cursor' <= limit
<1>1. Accept(poll.answer, poll.began)
  BY DEF PollSucceeds
<1>2. cursor' \in {IF cursor = None THEN poll.began ELSE cursor}
                     \cup {event.time : event \in NewEvents(poll.answer)}
  BY <1>1 DEF Accept
<1>3. NewEvents(poll.answer) \subseteq poll.answer
  BY DEF NewEvents
<1> QED BY <1>2, <1>3

\* No clock runs ahead further than MaxAhead.
LEMMA NextAhead ==
    ASSUME Environment \subseteq {"register"}, TypeOK, TypeOK', OnceInvariant, PollsKeepComing,
           NotAhead, [Next]_vars
    PROVE  NotAhead'
<1>0. MaxAhead \in Nat
  BY TimesAreNaturals
<1>1. /\ now \in Nat /\ poll.began \in Int
      /\ \A event \in log : event.time \in Int /\ event.uploaded \in Int
      /\ cursor # None => cursor \in Int
  BY TimesAreTimes DEF TypeOK
<1>2. ASSUME log' = log, cursor' = cursor, now' = now PROVE NotAhead'
  BY <1>2 DEF NotAhead
<1>3. CASE PollSucceeds
  <2>1. now' = now /\ log' = log /\ poll.answer \subseteq log /\ poll.began <= now
    BY <1>3, SuccessIs DEF PollsKeepComing, OnceInvariant, PollIsSafe
  <2>2. \A event \in poll.answer : event.time <= now + MaxAhead
    <3> SUFFICES ASSUME NEW event \in poll.answer PROVE event.time <= now + MaxAhead
      OBVIOUS
    <3>1. event.uploaded <= now /\ event.time <= event.uploaded + MaxAhead
      BY <2>1 DEF NotAhead
    <3>2. event.time \in Int /\ event.uploaded \in Int
      BY <1>1, <2>1
    <3> QED BY <1>0, <1>1, <3>1, <3>2
  <2>3. now + MaxAhead \in Int /\ poll.began <= now + MaxAhead
    BY <1>0, <1>1, <2>1
  <2>4. cursor' <= now + MaxAhead
    BY <1>3, <2>2, <2>3, CursorIsBounded DEF NotAhead
  <2> QED BY <2>1, <2>4 DEF NotAhead
<1>4. CASE Upload
  <2>1. PICK event \in Event : /\ log' = log \cup {event}
                               /\ event.uploaded = now /\ event.time <= now + MaxAhead
    BY <1>4, UploadIs
  <2>2. now' = now /\ cursor' = cursor
    BY <1>4, UploadIs
  <2>3. 0 <= event.uploaded /\ event.uploaded <= now
        /\ event.time <= event.uploaded + MaxAhead
    BY <1>1, <2>1
  <2> QED BY <2>1, <2>2, <2>3 DEF NotAhead
<1>5. CASE Tick
  <2>1. now' = now + 1 /\ log' = log /\ cursor' = cursor
    BY <1>5, TickIs
  <2>2. \A event \in log : event.uploaded <= now'
    BY <1>1, <2>1 DEF NotAhead
  <2>3. cursor # None => cursor <= now' + MaxAhead
    <3> SUFFICES ASSUME cursor # None PROVE cursor <= now' + MaxAhead
      OBVIOUS
    <3>1. PICK at \in Int : at = cursor
      BY <1>1
    <3>2. at <= now + MaxAhead
      BY <3>1 DEF NotAhead
    <3>3. at <= now' + MaxAhead
      BY <1>0, <1>1, <2>1, <3>2
    <3> QED BY <3>1, <3>3
  <2> QED BY <2>1, <2>2, <2>3 DEF NotAhead
<1>6. CASE StartPoll
  BY <1>2, <1>6, StartIs
<1>7. CASE ServerAnswers
  BY <1>2, <1>7, AnswerIs
<1>8. CASE RegisterPush \/ RegisterPushFails
  BY <1>2, <1>8, RegisterIs
<1>9. CASE UNCHANGED vars
  BY <1>2, <1>9, StutterIs
<1> QED BY <1>3, <1>4, <1>5, <1>6, <1>7, <1>8, <1>9, QuietSteps

\* No event starts to wait but one that is uploaded.
LEMMA NextWaiting ==
    ASSUME Environment \subseteq {"register"}, TypeOK, PollsKeepComing, [Next]_vars
    PROVE  /\ ~ Upload => Waiting' \subseteq Waiting
           /\ \A event \in Waiting' : event \in Waiting \/ event \in log' \ log
<1>1. /\ fired \subseteq fired' /\ history \subseteq history' /\ deviceIds' = deviceIds
      /\ ~ Upload => log' = log
  BY QuietSteps, StartIs, AnswerIs, SuccessIs, RegisterIs, UploadIs, TickIs, StutterIs
<1> QED BY <1>1 DEF Waiting

\* How far back a catch-up looks, at least.
LEMMA CatchUpsReach ==
    ASSUME NEW from \in Int, NEW at \in Int
    PROVE  CatchUpReach(from, at) <= at - Lookback
BY TimesAreNaturals DEF CatchUpReach, Reach, Lesser

\* What waits in the log as Bold answers is in the answer, if the poll's cursor
\* is not too far ahead of it, or the poll catches up.
LEMMA WaitingIsAnswered ==
    ASSUME TypeOK, OnceInvariant, PollsKeepComing, CatchUpsAreDue, ServerAnswers,
           NEW event \in Waiting, Key(event) \notin history',
           \/ cursor # None => event.time >= cursor - Overlap
           \/ poll.catchUp /\ event.time >= LastCatchUp + CatchUpGap - Lookback
    PROVE  event \in poll'.answer
<1>1. /\ poll.status = "asked" /\ Polling
      /\ poll'.answer = {e \in log : e.dev \in poll.ids /\ e.time >= poll.since}
      /\ history' = history \cup Keys({e \in log : e.dev \in poll.ids \ listed})
  BY AnswerIs
<1>2. event \in log /\ event.dev \in poll.ids /\ event.dev \in primed
  BY <1>1 DEF Waiting, PollsKeepComing, Keys
<1>3. /\ cursor \in Int /\ poll.began \in Int /\ poll.since \in Int /\ LastCatchUp \in Int
      /\ event.time \in Int
  BY <1>2, TimesAreTimes DEF OnceInvariant, CursorComesFirst
<1>4. /\ Reach(cursor) \in Int /\ CatchUpReach(cursor, poll.began) \in Int
      /\ CatchUpReach(cursor, poll.began) <= Reach(cursor)
      /\ CatchUpReach(cursor, poll.began) <= poll.began - Lookback
  BY <1>3, ReachIsTime, CatchUpsReach
<1>5. /\ poll.catchUp => poll.since = CatchUpReach(cursor, poll.began)
      /\ ~ poll.catchUp => poll.since = Reach(cursor)
  BY <1>1, <1>3, NoneIsNoInterval DEF OnceInvariant, PollIsSafe
<1>6. event.time >= poll.since
  <2>1. CASE cursor # None => event.time >= cursor - Overlap
    <3>1. event.time >= Reach(cursor)
      BY <1>3, <2>1, NoneIsNoInterval DEF Reach
    <3> QED BY <1>3, <1>4, <1>5, <3>1
  <2>2. CASE poll.catchUp /\ event.time >= LastCatchUp + CatchUpGap - Lookback
    <3>1. poll.began <= LastCatchUp + CatchUpGap
      BY <1>1, <2>2 DEF CatchUpsAreDue
    <3>2. CatchUpGap \in Int /\ Lookback \in Int
      BY Gaps, TimesAreNaturals
    <3> QED BY <1>3, <1>4, <1>5, <2>2, <3>1, <3>2
  <2> QED BY <2>1, <2>2
<1> QED BY <1>1, <1>2, <1>6

\* A timely event waits for the next poll.
LEMMA NextTimely ==
    ASSUME Environment \subseteq {"register"}, TypeOK, TypeOK', OnceInvariant, TimedInvariant,
           PollsKeepComing', [Next]_vars
    PROVE  TimelyWait'
<1> SUFFICES ASSUME NEW event \in Waiting',
                    event.time >= event.uploaded + MaxAhead - Overlap
             PROVE  /\ cursor' # None => cursor' <= event.uploaded + MaxAhead
                    /\ ~ Polling' => due' <= event.uploaded + PollGap
                    /\ Polling' => poll'.began <= event.uploaded + PollGap
                    /\ poll'.status = "answered" /\ event \notin poll'.answer =>
                           /\ poll'.began <= event.uploaded
                           /\ \A other \in poll'.answer :
                                  other.time <= event.uploaded + MaxAhead
  BY DEF TimelyWait
<1>0. /\ MaxAhead \in Nat /\ Overlap \in Nat /\ PollGap \in Nat /\ Latency \in Nat
      /\ PollGap - Latency \in Nat
  BY TimesAreNaturals, Gaps
<1>1. /\ now \in Int /\ poll.began \in Int
      /\ cursor # None => cursor \in Int
      /\ due # None => due \in Int
  BY TimesAreTimes
<1>2. PollsKeepComing /\ CatchUpsAreDue /\ AllIsTold /\ NotAhead /\ TimelyWait
  BY DEF TimedInvariant
<1>3. event.time \in Int /\ event.uploaded \in Int
  BY DEF TypeOK, Waiting, Event
<1>4. event \in Waiting =>
          /\ cursor # None => cursor <= event.uploaded + MaxAhead
          /\ ~ Polling => due <= event.uploaded + PollGap
          /\ Polling => poll.began <= event.uploaded + PollGap
          /\ poll.status = "answered" /\ event \notin poll.answer =>
                 /\ poll.began <= event.uploaded
                 /\ \A other \in poll.answer : other.time <= event.uploaded + MaxAhead
  BY <1>2 DEF TimelyWait
<1>5. CASE StartPoll
  <2>1. /\ ~ Polling /\ Polling' /\ poll'.status = "asked" /\ poll'.began = now
        /\ cursor' = cursor
    BY <1>5, StartIs
  <2>2. event \in Waiting
    BY <1>2, <1>5, NextWaiting, StartIs DEF Waiting
  <2>3. PICK when \in Int : when = due
    BY <1>1, <1>2, <2>1 DEF PollsKeepComing
  <2>4. now <= when /\ when <= event.uploaded + PollGap
    BY <1>2, <1>4, <2>1, <2>2, <2>3 DEF PollsKeepComing
  <2>5. now <= event.uploaded + PollGap
    BY <1>0, <1>1, <1>3, <2>4
  <2> QED BY <1>4, <2>1, <2>2, <2>5
<1>6. CASE ServerAnswers
  <2>1. /\ Polling /\ Polling' /\ poll'.began = poll.began /\ cursor' = cursor
    BY <1>6, AnswerIs
  <2>2. event \in Waiting
    BY <1>2, <1>6, NextWaiting, AnswerIs DEF Waiting
  <2>3. cursor # None => event.time >= cursor - Overlap
    <3> SUFFICES ASSUME cursor # None PROVE event.time >= cursor - Overlap
      OBVIOUS
    <3>1. PICK at \in Int : at = cursor
      BY <1>1
    <3>2. at <= event.uploaded + MaxAhead
      BY <1>4, <2>2, <3>1
    <3>3. event.time >= at - Overlap
      BY <1>0, <1>3, <3>2
    <3> QED BY <3>1, <3>3
  <2>4. Key(event) \notin history'
    BY DEF Waiting
  <2>5. event \in poll'.answer
    BY <1>2, <1>6, <2>2, <2>3, <2>4, WaitingIsAnswered
  <2> QED BY <1>4, <2>1, <2>2, <2>5
<1>7. CASE PollSucceeds
  <2>1. /\ poll.status = "answered" /\ Polling /\ ~ Polling' /\ poll' = NoPoll /\ now' = now
        /\ log' = log
    BY <1>7, SuccessIs
  <2>2. event \in Waiting
    BY <1>2, <2>1, NextWaiting DEF Waiting
  <2>3. event \notin poll.answer
    BY <1>2, <1>7, AnswerIsTold DEF Waiting
  <2>4. /\ poll.began <= event.uploaded
        /\ \A other \in poll.answer : other.time <= event.uploaded + MaxAhead
    BY <1>4, <2>1, <2>2, <2>3
  <2>5. cursor' <= event.uploaded + MaxAhead
    <3>1. event.uploaded + MaxAhead \in Int /\ poll.began <= event.uploaded + MaxAhead
      BY <1>0, <1>1, <1>3, <2>4
    <3> QED BY <1>4, <1>7, <2>2, <2>4, <3>1, CursorIsBounded
  <2>6. due' <= event.uploaded + PollGap
    <3>1. PICK when \in Int : when = due' /\ when <= now + PollGap - Latency
      BY <2>1 DEF PollsKeepComing, TypeOK
    <3>2. now <= poll.began + Latency
      BY <1>2, <2>1 DEF PollsKeepComing
    <3>3. when <= event.uploaded + PollGap
      BY <1>0, <1>1, <1>3, <2>4, <3>1, <3>2
    <3> QED BY <3>1, <3>3
  <2> QED BY <2>1, <2>5, <2>6 DEF NoPoll
<1>8. CASE Upload
  <2>1. /\ (Polling' <=> Polling) /\ poll' = poll /\ cursor' = cursor /\ due' = due
    BY <1>8, UploadIs
  <2>2. CASE event \in Waiting
    BY <1>4, <2>1, <2>2
  <2>3. CASE event \notin Waiting
    <3>1. event.uploaded = now
      <4>1. event \in log' \ log
        BY <1>2, <2>3, NextWaiting
      <4> QED BY <1>8, <4>1, UploadIs
    <3>2. cursor # None => cursor <= event.uploaded + MaxAhead
      BY <1>2, <3>1 DEF NotAhead
    <3>3. ~ Polling => due <= event.uploaded + PollGap
      <4> SUFFICES ASSUME ~ Polling PROVE due <= now + PollGap
        BY <3>1
      <4>1. PICK when \in Int : when = due /\ when <= now + PollGap - Latency
        BY <1>1, <1>2 DEF PollsKeepComing
      <4>2. when <= now + PollGap
        BY <1>0, <1>1, <4>1
      <4> QED BY <4>1, <4>2
    <3>4. Polling => poll.began <= event.uploaded /\ poll.began <= event.uploaded + PollGap
      <4>1. Polling => poll.began <= now
        BY <1>2 DEF PollsKeepComing
      <4> QED BY <1>0, <1>1, <3>1, <4>1
    <3>5. Polling /\ poll.status = "answered" =>
              \A other \in poll.answer : other.time <= event.uploaded + MaxAhead
      <4> SUFFICES ASSUME Polling, poll.status = "answered", NEW other \in poll.answer
                   PROVE  other.time <= now + MaxAhead
        BY <3>1
      <4>1. other \in log
        BY DEF OnceInvariant, PollIsSafe
      <4>2. other.uploaded <= now /\ other.time <= other.uploaded + MaxAhead
        BY <1>2, <4>1 DEF NotAhead
      <4>3. other.time \in Int /\ other.uploaded \in Int
        BY <4>1, TimesAreTimes
      <4> QED BY <1>0, <1>1, <4>2, <4>3
    <3>6. poll.status = "answered" => Polling
      BY DEF Polling
    <3> QED BY <2>1, <3>2, <3>3, <3>4, <3>5, <3>6
  <2> QED BY <2>2, <2>3
<1>9. CASE RegisterPush \/ RegisterPushFails
  <2>1. event \in Waiting
    BY <1>2, <1>9, NextWaiting, RegisterIs DEF Waiting
  <2> QED BY <1>4, <1>9, <2>1, RegisterIs
<1>10. CASE Tick
  <2>1. event \in Waiting
    BY <1>2, <1>10, NextWaiting, TickIs DEF Waiting
  <2> QED BY <1>4, <1>10, <2>1, TickIs
<1>11. CASE UNCHANGED vars
  <2>1. event \in Waiting
    BY <1>2, <1>11, NextWaiting, StutterIs DEF Waiting
  <2> QED BY <1>4, <1>11, <2>1, StutterIs
<1> QED BY <1>2, <1>5, <1>6, <1>7, <1>8, <1>9, <1>10, <1>11, QuietSteps

\* A late one waits for the next catch-up.
LEMMA NextLate ==
    ASSUME Environment \subseteq {"register"}, TypeOK, TypeOK', OnceInvariant, TimedInvariant,
           [Next]_vars
    PROVE  LateWait'
<1> SUFFICES ASSUME NEW event \in Waiting',
                    event.time >= event.uploaded + CatchUpGap - Lookback
             PROVE  /\ LastCatchUp' <= event.uploaded
                    /\ poll'.status = "answered" /\ poll'.catchUp /\ event \notin poll'.answer =>
                           poll'.began <= event.uploaded
  BY DEF LateWait
<1>0. CatchUpGap \in Nat /\ Lookback \in Nat
  BY TimesAreNaturals, Gaps
<1>1. now \in Int /\ LastCatchUp \in Int
  BY TimesAreTimes
<1>2. PollsKeepComing /\ CatchUpsAreDue /\ AllIsTold /\ LateWait
  BY DEF TimedInvariant
<1>3. event.time \in Int /\ event.uploaded \in Int
  BY DEF TypeOK, Waiting, Event
<1>4. event \in Waiting =>
          /\ LastCatchUp <= event.uploaded
          /\ poll.status = "answered" /\ poll.catchUp /\ event \notin poll.answer =>
                 poll.began <= event.uploaded
  BY <1>2 DEF LateWait
<1>5. lastCatchUp' = lastCatchUp => LastCatchUp' = LastCatchUp
  BY DEF LastCatchUp
<1>6. CASE StartPoll
  <2>1. event \in Waiting
    BY <1>2, <1>6, NextWaiting, StartIs DEF Waiting
  <2> QED BY <1>4, <1>5, <1>6, <2>1, StartIs
<1>7. CASE ServerAnswers
  <2>1. event \in Waiting
    BY <1>2, <1>7, NextWaiting, AnswerIs DEF Waiting
  <2>2. lastCatchUp' = lastCatchUp /\ poll'.catchUp = poll.catchUp
    BY <1>7, AnswerIs
  <2>3. ASSUME poll.catchUp PROVE event \in poll'.answer
    <3>1. event.time >= LastCatchUp + CatchUpGap - Lookback
      BY <1>0, <1>1, <1>3, <1>4, <2>1
    <3>2. Key(event) \notin history'
      BY DEF Waiting
    <3> QED BY <1>2, <1>7, <2>1, <2>3, <3>1, <3>2, WaitingIsAnswered
  <2> QED BY <1>4, <1>5, <2>1, <2>2, <2>3
<1>8. CASE PollSucceeds
  <2>1. /\ poll.status = "answered" /\ poll' = NoPoll /\ log' = log
        /\ lastCatchUp' = IF poll.catchUp THEN poll.began ELSE lastCatchUp
    BY <1>8, SuccessIs
  <2>2. event \in Waiting
    BY <1>2, <2>1, NextWaiting DEF Waiting
  <2>3. event \notin poll.answer
    BY <1>2, <1>8, AnswerIsTold DEF Waiting
  <2>4. LastCatchUp' <= event.uploaded
    <3>1. CASE poll.catchUp
      <4>1. LastCatchUp' = poll.began
        BY <2>1, <3>1, TimesAreTimes, NoneIsNoInterval DEF LastCatchUp
      <4> QED BY <1>4, <2>1, <2>2, <2>3, <3>1, <4>1
    <3>2. CASE ~ poll.catchUp
      BY <1>4, <1>5, <2>1, <2>2, <3>2
    <3> QED BY <3>1, <3>2
  <2> QED BY <2>1, <2>4 DEF NoPoll
<1>9. CASE Upload
  <2>1. (Polling' <=> Polling) /\ poll' = poll /\ LastCatchUp' = LastCatchUp
    BY <1>5, <1>9, UploadIs
  <2>2. CASE event \in Waiting
    BY <1>4, <2>1, <2>2
  <2>3. CASE event \notin Waiting
    <3>1. event.uploaded = now
      <4>1. event \in log' \ log
        BY <1>2, <2>3, NextWaiting
      <4> QED BY <1>9, <4>1, UploadIs
    <3>2. LastCatchUp <= now /\ (poll.status = "answered" => poll.began <= now)
      BY <1>2 DEF CatchUpsAreDue, PollsKeepComing, Polling
    <3> QED BY <2>1, <3>1, <3>2
  <2> QED BY <2>2, <2>3
<1>10. CASE RegisterPush \/ RegisterPushFails
  <2>1. event \in Waiting
    BY <1>2, <1>10, NextWaiting, RegisterIs DEF Waiting
  <2> QED BY <1>4, <1>5, <1>10, <2>1, RegisterIs
<1>11. CASE Tick
  <2>1. event \in Waiting
    BY <1>2, <1>11, NextWaiting, TickIs DEF Waiting
  <2> QED BY <1>4, <1>5, <1>11, <2>1, TickIs
<1>12. CASE UNCHANGED vars
  <2>1. event \in Waiting
    BY <1>2, <1>12, NextWaiting, StutterIs DEF Waiting
  <2> QED BY <1>4, <1>5, <1>12, <2>1, StutterIs
<1> QED BY <1>2, <1>6, <1>7, <1>8, <1>9, <1>10, <1>11, <1>12, QuietSteps

LEMMA TimedInvariantHolds ==
    ASSUME Environment \subseteq {"register"}
    PROVE  Spec => [](TypeOK /\ TimedInvariant)
<1>1. Init => TimedInvariant
  <2> SUFFICES ASSUME Init PROVE TimedInvariant
    OBVIOUS
  <2>1. /\ now = 0 /\ log = {} /\ deviceIds # {} /\ cursor = None /\ seen = {} /\ primed = {}
        /\ lastCatchUp = None /\ interval = ScanInterval /\ data = {} /\ due = 0
        /\ ~ registering /\ fired = {} /\ listed = {} /\ history = {} /\ poll = NoPoll
    BY DEF Init
  <2>2. ~ Polling /\ poll.status = "idle"
    BY <2>1 DEF Polling, NoPoll
  <2>3. PollsKeepComing
    BY <2>1, <2>2, Gaps, NoneIsNoInterval DEF PollsKeepComing
  <2>4. CatchUpsAreDue
    BY <2>1, <2>2, Gaps DEF CatchUpsAreDue, LastCatchUp
  <2>5. AllIsTold /\ NotAhead /\ TimelyWait /\ LateWait
    BY <2>1, <2>2 DEF AllIsTold, NotAhead, TimelyWait, LateWait, Waiting, Keys
  <2> QED BY <2>3, <2>4, <2>5 DEF TimedInvariant
<1>2. /\ TypeOK /\ OnceInvariant /\ TimedInvariant /\ TypeOK' /\ [Next]_vars
      => TimedInvariant'
  BY NextPolls, NextCatchUps, NextTold, NextAhead, NextTimely, NextLate DEF TimedInvariant
<1>3. "pushDuringPoll" \notin Environment
  OBVIOUS
<1> QED BY <1>1, <1>2, <1>3, OnceInvariantHolds, PTL DEF Spec

\* How long something waits at most, by when the poll began or will.
LEMMA PollsEnd ==
    ASSUME TypeOK, PollsKeepComing, NEW limit \in Int,
           ~ Polling => due <= limit,
           Polling => poll.began <= limit
    PROVE  now <= limit + Latency
<1>1. now \in Int /\ poll.began \in Int /\ Latency \in Nat
  BY TimesAreTimes, Gaps
<1>2. CASE Polling
  BY <1>1, <1>2 DEF PollsKeepComing
<1>3. CASE ~ Polling
  <2>1. PICK when \in Int : when = due
    BY <1>3, TimesAreTimes DEF PollsKeepComing
  <2>2. now <= when /\ when <= limit
    BY <1>3, <2>1 DEF PollsKeepComing
  <2> QED BY <1>1, <2>2
<1> QED BY <1>2, <1>3

\* While polls succeed and nothing is pushed, every event uploaded about as it
\* happens is fired by the end of the next poll, also while the push's
\* registration slows polls down, and whatever the clocks of locks.
THEOREM TimelyUploadsAlwaysFire ==
    ASSUME Environment \subseteq {"register"}
    PROVE  Spec => []TimelyUploadsFire
<1>1. TypeOK /\ TimedInvariant => TimelyUploadsFire
  <2> SUFFICES ASSUME TypeOK, TimedInvariant, NEW event \in log, event.dev \in deviceIds,
                      event.time >= event.uploaded + MaxAhead - Overlap,
                      Key(event) \notin fired \cup history
               PROVE  ~ (now > event.uploaded + PollGap + Latency)
    BY DEF TimelyUploadsFire
  <2>1. event \in Waiting
    BY DEF Waiting
  <2>2. /\ event.uploaded \in Int /\ PollGap \in Int /\ Latency \in Int /\ now \in Int
        /\ event.uploaded + PollGap \in Int
    BY TimesAreTimes, Gaps
  <2>3. now <= (event.uploaded + PollGap) + Latency
    BY <2>1, <2>2, PollsEnd DEF TimedInvariant, TimelyWait
  <2> QED BY <2>2, <2>3
<1> QED BY <1>1, TimedInvariantHolds, PTL

\* While polls succeed and nothing is pushed, a catch-up is never long ago.
LEMMA CatchUpsAreRecent ==
    ASSUME TypeOK, TimedInvariant
    PROVE  now <= LastCatchUp + CatchUpGap + Latency
<1>1. /\ LastCatchUp \in Int /\ CatchUpGap \in Int /\ Latency \in Int /\ now \in Int
      /\ LastCatchUp + CatchUpGap \in Int /\ CatchUpInterval \in Int
      /\ CatchUpInterval - 1 <= CatchUpGap /\ poll.began \in Int
  <2>1. CatchUpInterval - 1 <= CatchUpGap
    BY Gaps
  <2> QED BY <2>1, TimesAreTimes, Gaps
<1>2. ~ Polling => due <= LastCatchUp + CatchUpGap
  BY DEF TimedInvariant, CatchUpsAreDue
<1>3. Polling => poll.began <= LastCatchUp + CatchUpGap
  BY <1>1 DEF TimedInvariant, CatchUpsAreDue
<1> QED BY <1>1, <1>2, <1>3, PollsEnd DEF TimedInvariant

\* "Every 10 minutes a check looks back an hour": while polls succeed and
\* nothing is pushed, catch-ups keep coming, as polls do.
THEOREM CatchUpsAlwaysKeepComing ==
    ASSUME Environment \subseteq {"register"}
    PROVE  Spec => []CatchUpsKeepComing
<1>1. TypeOK /\ TimedInvariant => CatchUpsKeepComing
  <2> SUFFICES ASSUME TypeOK, TimedInvariant, lastCatchUp # None
               PROVE  now - LastCatchUp <= CatchUpGap + Latency
    BY DEF CatchUpsKeepComing, LastCatchUp
  <2> QED BY CatchUpsAreRecent, TimesAreTimes, Gaps
<1> QED BY <1>1, TimedInvariantHolds, PTL

\* An event uploaded later is fired by the end of the next catch-up, if that
\* looks back to it.
THEOREM LateUploadsAlwaysFire ==
    ASSUME Environment \subseteq {"register"}
    PROVE  Spec => []LateUploadsFire
<1>1. TypeOK /\ TimedInvariant => LateUploadsFire
  <2> SUFFICES ASSUME TypeOK, TimedInvariant, NEW event \in log, event.dev \in deviceIds,
                      event.time >= event.uploaded + CatchUpGap - Lookback,
                      Key(event) \notin fired \cup history
               PROVE  ~ (now > event.uploaded + CatchUpGap + Latency)
    BY DEF LateUploadsFire
  <2>1. LastCatchUp <= event.uploaded
    BY DEF Waiting, TimedInvariant, LateWait
  <2>2. /\ event.uploaded \in Int /\ CatchUpGap \in Int /\ Latency \in Int /\ now \in Int
        /\ LastCatchUp \in Int
    BY TimesAreTimes, Gaps
  <2> QED BY <2>1, <2>2, CatchUpsAreRecent
<1> QED BY <1>1, TimedInvariantHolds, PTL
=============================================================================
