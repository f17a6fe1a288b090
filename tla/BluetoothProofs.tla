--------------------------- MODULE BluetoothProofs ---------------------------
(***************************************************************************)
(* What BluetoothTracker promises of a lock with any addresses, however    *)
(* long it goes on, and BleSession of a conversation with it, whatever the *)
(* keys, the block of the cipher and the bytes that come at a time, proved.*)
(***************************************************************************)
EXTENDS BluetoothTracker, BleSession, SequenceTheorems, WellFoundedInduction, TLAPS

-----------------------------------------------------------------------------
(* BluetoothTracker                                                        *)

Shown == [lock : BOOLEAN, signal : BOOLEAN, keys : BOOLEAN]

LEMMA Constants ==
    /\ Stale \in Nat /\ IssueAfter \in Nat /\ ScanInterval \in Nat
    /\ Stale <= IssueAfter /\ None \notin Int /\ None \notin Addresses
BY TimesAreNaturals, StaleBeforeIssue, NoneIsNoTime

-----------------------------------------------------------------------------
(* Types                                                                   *)

\* What the entities of the lock are written with.
LEMMA StatesType == TypeOK => States \in Shown
<1>1. ASSUME NEW valid \in BOOLEAN PROVE Available(valid) \in BOOLEAN
  BY DEF Available
<1> QED BY <1>1 DEF States, Shown, TypeOK

LEMMA WrittenType ==
    ASSUME TypeOK, reachable' \in BOOLEAN, keys' \in BOOLEAN,
           BothWritten \/ LockWritten \/ Notify \/ UNCHANGED shown
    PROVE  shown' \in Shown
<1>1. shown \in Shown
  BY DEF TypeOK, Shown
<1>2. States' \in Shown
  BY DEF States, Available, Shown
<1>3. [States' EXCEPT !.signal = shown.signal] \in Shown
  BY <1>1, <1>2 DEF Shown
<1> QED BY <1>1, <1>2, <1>3 DEF BothWritten, LockWritten, Notify

LEMMA InitType == Init => TypeOK
<1> SUFFICES ASSUME Init PROVE TypeOK
  OBVIOUS
<1>1. method \in Methods
  BY DEF Init, Methods
<1>2. States \in Shown
  BY DEF Init, States, Available, Shown
<1>3. None \in Times
  BY DEF Times
<1> QED BY <1>1, <1>2, <1>3, Constants DEF Init, TypeOK, Shown

\* What a device poll, or a reload, takes of the lock.
LEMMA PolledType ==
    ASSUME TypeOK, Read(remote'), chosen' \in Methods, NEW before \in BOOLEAN, NEW else \in Methods,
           AddSelect(before, else)
    PROVE  remote' \in BOOLEAN /\ select' \in BOOLEAN /\ method' \in Methods
BY DEF Read, AddSelect, TypeOK

LEMMA NextType == TypeOK /\ [Next]_vars => TypeOK'
<1> SUFFICES ASSUME TypeOK, [Next]_vars PROVE TypeOK'
  OBVIOUS
<1> USE DEF world, stack, tracker, route, repairs
<1>0. /\ now \in Nat /\ now \in Times /\ None \in Times /\ shown \in Shown
      /\ address \in Addresses /\ heard \in [Addresses -> Times]
  BY DEF TypeOK, Times, Shown
<1>1. CASE Advertise
  <2>1. /\ lastSeen' \in Times /\ known' \in Addresses \cup {None}
        /\ followed' \subseteq Addresses /\ reachable' \in BOOLEAN
    BY <1>0, <1>1 DEF Advertise, ProcessAdvertisement, Follow, TypeOK
  <2>2. heard' \in [Addresses -> Times] /\ lastHeard' \in Times
    BY <1>0, <1>1 DEF Advertise
  <2>3. UNCHANGED <<world, started, route, repairs>> /\ Notify
    BY <1>1 DEF Advertise
  <2>4. shown' \in Shown
    BY <2>1, <2>3, WrittenType DEF TypeOK
  <2> QED BY <2>1, <2>2, <2>3, <2>4 DEF TypeOK, Shown
<1>2. ASSUME NEW a \in Addresses, Unavailable(a)
      PROVE  TypeOK'
  <2>1. /\ UNCHANGED <<world, lastHeard, started, known, followed, lastSeen, route, repairs>>
        /\ Notify
    BY <1>2 DEF Unavailable
  <2>2. heard' \in [Addresses -> Times] /\ reachable' \in BOOLEAN
    BY <1>0, <1>2 DEF Unavailable
  <2>3. shown' \in Shown
    BY <2>1, <2>2, WrittenType DEF TypeOK
  <2> QED BY <2>1, <2>2, <2>3 DEF TypeOK, Shown
<1>3. CASE DevicePoll
  <2>1. /\ UNCHANGED <<world, stack, tracker, keys, saving, chosen>> /\ BothWritten
        /\ due' = now + ScanInterval /\ polled' = TRUE
    BY <1>3 DEF DevicePoll
  <2>2. issue' \in BOOLEAN
    BY <1>3 DEF DevicePoll, OutOfRange
  <2>3. remote' \in BOOLEAN /\ select' \in BOOLEAN /\ method' \in Methods
    BY <1>3, <2>1, PolledType DEF DevicePoll, TypeOK
  <2>4. shown' \in Shown
    BY <2>1, WrittenType DEF TypeOK
  <2>5. due' \in Nat
    BY <1>0, <2>1, Constants
  <2> QED BY <2>1, <2>2, <2>3, <2>4, <2>5 DEF TypeOK, Shown
<1>4. CASE DevicePollFails
  <2>1. /\ UNCHANGED <<world, stack, tracker, remote, keys, saving, select, chosen, method, issue>>
        /\ BothWritten \/ UNCHANGED shown
        /\ due' = now + ScanInterval /\ polled' = FALSE
    BY <1>4 DEF DevicePollFails
  <2>2. shown' \in Shown
    BY <2>1, WrittenType DEF TypeOK
  <2>3. due' \in Nat
    BY <1>0, <2>1, Constants
  <2> QED BY <2>1, <2>2, <2>3 DEF TypeOK, Shown
<1>5. CASE Reload
  <2>1. /\ UNCHANGED <<world, stack>> /\ BothWritten
        /\ due' = now + ScanInterval /\ polled' = TRUE /\ started' = now
        /\ issue' = FALSE /\ saving' = FALSE
    BY <1>5 DEF Reload
  <2>0. chosen' \in Methods
    BY <1>5 DEF Reload, TypeOK, Methods
  <2>2. /\ followed' \subseteq Addresses /\ reachable' \in BOOLEAN
        /\ known' \in Addresses \cup {None} /\ lastSeen' \in Times
    BY <1>0, <1>5 DEF Reload, Discovered
  <2>3. keys' \in BOOLEAN
    BY <1>5 DEF Reload, TypeOK
  <2>4. remote' \in BOOLEAN /\ select' \in BOOLEAN /\ method' \in Methods
    BY <1>5, <2>0, PolledType DEF Reload, Methods
  <2>5. shown' \in Shown
    BY <2>1, <2>2, <2>3, WrittenType
  <2>6. due' \in Nat
    BY <1>0, <2>1, Constants
  <2> QED BY <1>0, <2>0, <2>1, <2>2, <2>3, <2>4, <2>5, <2>6 DEF TypeOK, Shown
<1>6. CASE SelectOption
  <2>1. /\ UNCHANGED <<world, stack, tracker, remote, polled, keys, saving, select, repairs>>
        /\ LockWritten /\ chosen' \in Methods /\ method' \in Methods
    BY <1>6 DEF SelectOption
  <2>2. shown' \in Shown
    BY <2>1, WrittenType DEF TypeOK
  <2> QED BY <2>1, <2>2 DEF TypeOK, Shown
<1>7. CASE KeysRefreshed
  BY <1>7 DEF KeysRefreshed, TypeOK
<1>8. CASE KeysSaved
  <2>1. /\ UNCHANGED <<world, stack, tracker, remote, polled, keys, select, chosen, method, repairs>>
        /\ LockWritten /\ saving' = FALSE
    BY <1>8 DEF KeysSaved
  <2>2. shown' \in Shown
    BY <2>1, WrittenType DEF TypeOK
  <2> QED BY <2>1, <2>2 DEF TypeOK, Shown
<1>9. CASE KeysExpire
  BY <1>9 DEF KeysExpire, TypeOK
<1>10. CASE Moves
  BY <1>10 DEF Moves, TypeOK
<1>11. CASE Tick
  BY <1>0, <1>11 DEF Tick, TypeOK
<1>12. CASE UNCHANGED vars
  BY <1>12 DEF vars, TypeOK
<1> QED BY <1>1, <1>2, <1>3, <1>4, <1>5, <1>6, <1>7, <1>8, <1>9, <1>10, <1>11, <1>12 DEF Next

\* Every variable keeps its type.
THEOREM TrackerTypeCorrect == Spec => []TypeOK
<1> QED BY InitType, NextType, PTL DEF Spec

-----------------------------------------------------------------------------
(* The invariant                                                           *)

\* The times that are compared.
LEMMA Timed ==
    ASSUME TypeOK
    PROVE  /\ now \in Nat /\ started \in Nat
           /\ lastHeard # None => lastHeard \in Nat
           /\ lastSeen # None => lastSeen \in Nat
           /\ UnreachableSince \in Nat
           /\ \A a \in Addresses : heard[a] # None => heard[a] \in Nat
BY DEF TypeOK, Times, UnreachableSince

LEMMA InitInvariant == Init => TrackerInvariant
BY Constants DEF Init, TrackerInvariant, HeardInTime, FollowsTheLock, SeenWhenHeard, Fresh,
                 UnreachableSince

LEMMA NextInvariant == TypeOK /\ TrackerInvariant /\ [Next]_vars => TrackerInvariant'
<1> SUFFICES ASSUME TypeOK, TrackerInvariant, [Next]_vars PROVE TrackerInvariant'
  OBVIOUS
<1> USE DEF world, stack, tracker, route, repairs
<1>0. /\ HeardInTime /\ FollowsTheLock /\ SeenWhenHeard
      /\ address \in Addresses /\ followed \subseteq Addresses
      /\ known \in Addresses \cup {None} /\ heard \in [Addresses -> Times]
  BY DEF TrackerInvariant, TypeOK
<1>1. CASE Advertise
  <2>1. /\ heard' = [heard EXCEPT ![address] = now] /\ lastHeard' = now /\ lastSeen' = now
        /\ known' = address /\ reachable' = TRUE
        /\ followed' = IF known = address THEN followed ELSE followed \cup {address}
        /\ UNCHANGED <<now, started, issue>>
    BY <1>1 DEF Advertise, ProcessAdvertisement, Follow
  <2>2. now # None
    BY Timed, Constants
  <2>3. heard'[address] = now /\ \A a \in Addresses \ {address} : heard'[a] = heard[a]
    BY <1>0, <2>1
  <2>4. address \in followed'
    BY <1>0, <2>1, Constants DEF FollowsTheLock
  <2>5. HeardInTime'
    BY <1>0, <2>1, <2>2, <2>3, Timed, Constants DEF HeardInTime
  <2>6. FollowsTheLock'
    <3>1. known' # None /\ known' \in followed' /\ heard'[known'] # None
      BY <1>0, <2>1, <2>2, <2>3, <2>4, Constants
    <3>2. \E a \in followed' : heard'[a] = lastHeard' /\ reachable'
      BY <2>1, <2>3, <2>4
    <3> QED BY <3>1, <3>2 DEF FollowsTheLock
  <2>7. UnreachableSince' = now
    BY <2>1, <2>2 DEF UnreachableSince
  <2>8. SeenWhenHeard'
    BY <1>0, <2>1, <2>7, Timed DEF SeenWhenHeard
  <2> QED BY <2>5, <2>6, <2>8 DEF TrackerInvariant
<1>2. ASSUME NEW from \in Addresses, Unavailable(from)
      PROVE  TrackerInvariant'
  <2>1. /\ heard[from] # None /\ now - heard[from] >= Stale
        /\ heard' = [heard EXCEPT ![from] = None]
        /\ reachable' = (reachable /\ from \notin followed)
        /\ UNCHANGED <<now, lastHeard, started, known, followed, lastSeen, issue>>
    BY <1>2 DEF Unavailable
  <2>2. heard'[from] = None /\ \A a \in Addresses \ {from} : heard'[a] = heard[a]
    BY <1>0, <2>1
  <2>3. HeardInTime'
    BY <1>0, <2>1, <2>2 DEF HeardInTime
  <2>4. known' # None => known' \in followed'
    BY <1>0, <2>1 DEF FollowsTheLock
  <2>5. reachable' => known' # None /\ heard'[known'] # None
    <3>1. SUFFICES ASSUME reachable /\ from \notin followed
                   PROVE  known # None /\ heard'[known] # None
      BY <2>1
    <3>2. known # None /\ heard[known] # None /\ known \in followed
      BY <1>0, <3>1 DEF FollowsTheLock
    <3>3. known \in Addresses /\ known # from
      BY <1>0, <3>1, <3>2
    <3> QED BY <2>2, <3>2, <3>3
  <2>6. ASSUME Fresh
        PROVE  \E a \in followed : /\ heard'[a] = lastHeard
                                   /\ reachable' \/ \E b \in followed : b # a
    <3>1. PICK a \in followed : /\ heard[a] = lastHeard
                                /\ reachable \/ \E b \in followed : b # a
      BY <1>0, <2>6 DEF FollowsTheLock
    <3>2. a # from
      BY <2>1, <2>6, <3>1, Timed, Constants DEF Fresh
    <3>3. heard'[a] = lastHeard
      BY <1>0, <2>2, <3>1, <3>2
    <3>4. reachable' \/ \E b \in followed : b # a
      BY <2>1, <3>1, <3>2
    <3> QED BY <3>3, <3>4
  <2>7. FollowsTheLock'
    BY <2>1, <2>4, <2>5, <2>6 DEF FollowsTheLock, Fresh
  <2>8. SeenWhenHeard'
    BY <1>0, <2>1 DEF SeenWhenHeard, UnreachableSince
  <2> QED BY <2>3, <2>7, <2>8 DEF TrackerInvariant
<1>3. CASE DevicePoll
  <2>1. UNCHANGED <<now, stack, tracker>> /\ issue' = OutOfRange(remote', method)
    BY <1>3 DEF DevicePoll
  <2>2. HeardInTime' /\ FollowsTheLock'
    BY <1>0, <2>1 DEF HeardInTime, FollowsTheLock, Fresh
  <2>3. issue' => now - UnreachableSince > IssueAfter
    BY <2>1 DEF OutOfRange
  <2>4. started <= UnreachableSince
    BY <1>0, Timed DEF SeenWhenHeard, UnreachableSince
  <2>5. issue' => now - started > IssueAfter
    BY <2>3, <2>4, Timed, Constants
  <2>6. SeenWhenHeard'
    BY <1>0, <2>1, <2>5 DEF SeenWhenHeard, UnreachableSince
  <2> QED BY <2>2, <2>6 DEF TrackerInvariant
<1>4. CASE Reload
  <2>1. /\ UNCHANGED <<now, stack>> /\ issue' = FALSE /\ started' = now
        /\ followed' = Discovered /\ reachable' = (Discovered # {})
    BY <1>4 DEF Reload
  <2>2. IF Discovered = {} THEN known' = None /\ lastSeen' = None
        ELSE known' \in Discovered /\ lastSeen' = now
    BY <1>4 DEF Reload
  <2>3. HeardInTime'
    BY <1>0, <2>1 DEF HeardInTime
  <2>4. known' # None => known' \in followed'
    BY <2>1, <2>2
  <2>5. reachable' => known' # None /\ heard'[known'] # None
    BY <2>1, <2>2, Constants DEF Discovered
  <2>6. ASSUME Fresh
        PROVE  \E a \in followed' : heard[a] = lastHeard /\ reachable'
    <3>1. PICK a \in followed : heard[a] = lastHeard
      BY <1>0, <2>6 DEF FollowsTheLock
    <3>2. a \in Discovered
      BY <1>0, <2>6, <3>1 DEF Fresh, Discovered
    <3> QED BY <2>1, <3>1, <3>2
  <2>7. FollowsTheLock'
    BY <2>1, <2>4, <2>5, <2>6 DEF FollowsTheLock, Fresh
  <2>8. UnreachableSince' = now
    BY <2>1, <2>2 DEF UnreachableSince
  <2>9. SeenWhenHeard'
    BY <1>0, <2>1, <2>2, <2>8, Timed DEF SeenWhenHeard, HeardInTime
  <2> QED BY <2>3, <2>7, <2>9 DEF TrackerInvariant
<1>5. CASE UNCHANGED <<now, stack, tracker, issue>>
  BY <1>0, <1>5
     DEF TrackerInvariant, HeardInTime, FollowsTheLock, Fresh, SeenWhenHeard, UnreachableSince
<1>6. CASE Tick
  <2>1. /\ now' = now + 1 /\ UNCHANGED <<stack, tracker, issue>>
        /\ \A a \in Addresses : heard[a] # None => now - heard[a] < Stale
    BY <1>6 DEF Tick
  <2>2. HeardInTime'
    BY <1>0, <2>1, Timed, Constants DEF HeardInTime
  <2>3. Fresh' => Fresh
    BY <2>1, Timed, Constants DEF Fresh
  <2>4. FollowsTheLock'
    BY <1>0, <2>1, <2>3 DEF FollowsTheLock
  <2>5. SeenWhenHeard'
    BY <1>0, <2>1, Timed, Constants DEF SeenWhenHeard, UnreachableSince
  <2> QED BY <2>2, <2>4, <2>5 DEF TrackerInvariant
<1>7. CASE DevicePollFails \/ SelectOption \/ KeysRefreshed \/ KeysSaved \/ KeysExpire \/ Moves
           \/ UNCHANGED vars
  BY <1>5, <1>7
     DEF DevicePollFails, SelectOption, KeysRefreshed, KeysSaved, KeysExpire, Moves, vars
<1> QED BY <1>1, <1>2, <1>3, <1>4, <1>6, <1>7 DEF Next

LEMMA TrackerInvariantHolds == Spec => [](TypeOK /\ TrackerInvariant)
<1> QED BY InitType, NextType, InitInvariant, NextInvariant, PTL DEF Spec

-----------------------------------------------------------------------------
(* Whether the lock is reachable                                           *)

LEMMA ReachableIsHeard ==
    ASSUME TypeOK, TrackerInvariant, reachable
    PROVE  lastHeard # None /\ now - lastHeard <= Stale
<1>1. known \in Addresses /\ heard[known] # None
  BY DEF TrackerInvariant, FollowsTheLock, TypeOK
<1>2. /\ lastHeard # None /\ heard[known] <= lastHeard
      /\ now - heard[known] <= Stale
  BY <1>1 DEF TrackerInvariant, HeardInTime
<1> QED BY <1>1, <1>2, Timed, Constants

\* A lock that was not heard for Stale is unreachable, whichever addresses it
\* was heard from before and whenever the tracker started.
THEOREM SilentIsAlwaysUnreachable == Spec => []SilentIsUnreachable
<1>1. TypeOK /\ TrackerInvariant => SilentIsUnreachable
  BY ReachableIsHeard DEF SilentIsUnreachable
<1> QED BY <1>1, TrackerInvariantHolds, PTL

\* A lock that was heard within Stale, and is followed at no other address, is
\* reachable: no word of the stack's comes too early.
THEOREM HeardIsAlwaysReachable == Spec => []HeardIsReachable
<1>1. TypeOK /\ TrackerInvariant => HeardIsReachable
  <2> SUFFICES ASSUME TrackerInvariant, Fresh, followed \subseteq {address} PROVE reachable
    BY DEF HeardIsReachable, Fresh
  <2> QED BY DEF TrackerInvariant, FollowsTheLock
<1> QED BY <1>1, TrackerInvariantHolds, PTL

-----------------------------------------------------------------------------
(* The issue                                                               *)

\* A device poll tells of a lock that nobody heard for IssueAfter since the
\* entry was set up, if Bluetooth is the only way to unlock it.
THEOREM AlwaysToldWhenPolled == Spec => ToldWhenPolled
<1>1. ASSUME TypeOK, TrackerInvariant, DevicePoll, Only(remote', method), keys,
             now - (IF lastHeard = None \/ lastHeard < started THEN started ELSE lastHeard)
                 > IssueAfter
      PROVE  issue'
  <2>1. ~ reachable
    BY <1>1, ReachableIsHeard, Timed, Constants
  <2>2. UnreachableSince <= IF lastHeard = None \/ lastHeard < started THEN started ELSE lastHeard
    BY <1>1, Timed DEF TrackerInvariant, SeenWhenHeard, UnreachableSince
  <2>3. now - UnreachableSince > IssueAfter
    BY <1>1, <2>2, Timed, Constants
  <2> QED BY <1>1, <2>1, <2>3 DEF DevicePoll, OutOfRange
<1>2. TypeOK /\ TrackerInvariant /\ [Next]_vars =>
          [LET since == IF lastHeard = None \/ lastHeard < started THEN started ELSE lastHeard
           IN  DevicePoll /\ Only(remote', method) /\ keys /\ now - since > IssueAfter
                   => issue']_vars
  BY <1>1
<1> QED BY <1>2, TrackerInvariantHolds, PTL DEF Spec, ToldWhenPolled

\* The issue is raised only of a lock that was not heard for IssueAfter, and
\* cleared only when it was, or the issue matters no more, or at a reload.
THEOREM AlwaysToldWhileSilent == Spec => ToldWhileSilent
<1> USE DEF world, stack, tracker, route, repairs
<1>1. ASSUME TypeOK, TrackerInvariant, DevicePoll, issue', lastHeard # None
      PROVE  now - lastHeard > IssueAfter
  <2>1. now - UnreachableSince > IssueAfter
    BY <1>1 DEF DevicePoll, OutOfRange
  <2>2. lastHeard <= UnreachableSince
    BY <1>1 DEF TrackerInvariant, SeenWhenHeard
  <2> QED BY <1>1, <2>1, <2>2, Timed, Constants
<1>2. ASSUME TypeOK, TrackerInvariant, DevicePoll, issue, ~ issue', Only(remote', method), keys
      PROVE  lastHeard # None /\ now - lastHeard <= IssueAfter
  <2>1. reachable \/ ~ (now - UnreachableSince > IssueAfter)
    BY <1>2 DEF DevicePoll, OutOfRange
  <2>2. CASE reachable
    BY <1>2, <2>2, ReachableIsHeard, Timed, Constants
  <2>3. CASE ~ (now - UnreachableSince > IssueAfter)
    <3>1. now - started > IssueAfter
      BY <1>2 DEF TrackerInvariant, SeenWhenHeard
    <3>2. started < UnreachableSince
      BY <1>2, <2>3, <3>1, Timed, Constants
    <3>3. lastSeen # None /\ UnreachableSince = lastSeen
      BY <1>2, <3>2, Timed DEF UnreachableSince
    <3>4. lastHeard # None /\ lastSeen <= lastHeard
      BY <1>2, <3>2, <3>3, Timed DEF TrackerInvariant, SeenWhenHeard
    <3> QED BY <1>2, <2>3, <3>3, <3>4, Timed, Constants
  <2> QED BY <2>1, <2>2, <2>3
<1>3. ASSUME [Next]_vars, issue' # issue
      PROVE  DevicePoll \/ Reload
  BY <1>3 DEF Next, Advertise, Unavailable, DevicePollFails, SelectOption, KeysRefreshed,
              KeysSaved, KeysExpire, Moves, Tick, vars
<1>4. Reload => ~ issue'
  BY DEF Reload
<1>5. TypeOK /\ TrackerInvariant /\ [Next]_vars =>
          [/\ ~ issue /\ issue' => lastHeard = None \/ now - lastHeard > IssueAfter
           /\ issue /\ ~ issue' =>
                  \/ lastHeard # None /\ now - lastHeard <= IssueAfter
                  \/ ~ Only(remote', method) \/ ~ keys
                  \/ Reload]_vars
  BY <1>1, <1>2, <1>3, <1>4
<1> QED BY <1>5, TrackerInvariantHolds, PTL DEF Spec, ToldWhileSilent

-----------------------------------------------------------------------------
(* What the entities show                                                  *)

LEMMA InitShown == Init => ShownAsAvailable
<1> SUFFICES ASSUME Init PROVE ShownAsAvailable
  OBVIOUS
<1>1. shown = States
  BY DEF Init
<1>2. shown.lock = Available(keys) /\ shown.signal = reachable /\ shown.keys = keys
  BY <1>1, Zenon DEF States
<1>3. shown.lock = Available(shown.keys)
  BY <1>2
<1> QED BY <1>2, <1>3 DEF ShownAsAvailable

\* Both entities are written, the lock's only, or neither, although no way to
\* the lock was opened or closed.
LEMMA WrittenIsShown ==
    ASSUME TypeOK, BothWritten
    PROVE  ShownAsAvailable'
<1>1. shown' = [lock |-> Available(keys)', signal |-> reachable', keys |-> keys']
  BY DEF BothWritten, States
<1>2. /\ shown'.lock = Available(keys)' /\ shown'.signal = reachable' /\ shown'.keys = keys'
  BY <1>1
<1>3. shown'.lock = Available(shown.keys)'
  BY <1>2 DEF Available
<1> QED BY <1>2, <1>3 DEF ShownAsAvailable

LEMMA LockWrittenIsShown ==
    ASSUME TypeOK, ShownAsAvailable, LockWritten, reachable' = reachable
    PROVE  ShownAsAvailable'
<1>1. shown' = [[lock |-> Available(keys)', signal |-> reachable', keys |-> keys']
                    EXCEPT !.signal = shown.signal]
  BY DEF LockWritten, States
<1>2. shown'.lock = Available(keys)' /\ shown'.signal = shown.signal /\ shown'.keys = keys'
  BY <1>1
<1>3. shown'.lock = Available(shown.keys)'
  BY <1>2 DEF Available
<1> QED BY <1>2, <1>3 DEF ShownAsAvailable

LEMMA StillShown ==
    ASSUME TypeOK, ShownAsAvailable, UNCHANGED <<shown, method, polled, remote, reachable>>,
           keys' => (keys /\ saving' = saving) \/ saving'
    PROVE  ShownAsAvailable'
<1>1. shown'.lock = Available(shown.keys)'
  BY DEF ShownAsAvailable, Available
<1>2. keys' => shown'.keys \/ saving'
  BY DEF ShownAsAvailable
<1>3. shown'.signal = reachable'
  BY DEF ShownAsAvailable
<1> QED BY <1>1, <1>2, <1>3 DEF ShownAsAvailable

LEMMA NextShown == TypeOK /\ ShownAsAvailable /\ [Next]_vars => ShownAsAvailable'
<1> SUFFICES ASSUME TypeOK, ShownAsAvailable, [Next]_vars PROVE ShownAsAvailable'
  OBVIOUS
<1> USE DEF world, stack, tracker, route, repairs
<1>1. ASSUME Notify, UNCHANGED route
      PROVE  ShownAsAvailable'
  BY <1>1, WrittenIsShown, StillShown DEF Notify
<1>2. CASE Advertise
  BY <1>1, <1>2 DEF Advertise
<1>3. CASE \E a \in Addresses : Unavailable(a)
  BY <1>1, <1>3 DEF Unavailable
<1>4. CASE DevicePoll
  BY <1>4, WrittenIsShown DEF DevicePoll
<1>5. CASE DevicePollFails
  <2>1. CASE polled
    BY <1>5, <2>1, WrittenIsShown DEF DevicePollFails
  <2>2. CASE ~ polled
    BY <1>5, <2>2, StillShown DEF DevicePollFails, TypeOK
  <2> QED BY <2>1, <2>2
<1>6. CASE Reload
  BY <1>6, WrittenIsShown DEF Reload
<1>7. CASE SelectOption
  BY <1>7, LockWrittenIsShown DEF SelectOption
<1>8. CASE KeysRefreshed
  BY <1>8, StillShown DEF KeysRefreshed
<1>9. CASE KeysSaved
  BY <1>9, LockWrittenIsShown DEF KeysSaved
<1>10. CASE KeysExpire
  BY <1>10, StillShown DEF KeysExpire
<1>11. CASE Moves
  BY <1>11, StillShown DEF Moves
<1>12. CASE Tick
  BY <1>12, StillShown DEF Tick
<1>13. CASE UNCHANGED vars
  BY <1>13, StillShown DEF vars
<1> QED BY <1>2, <1>3, <1>4, <1>5, <1>6, <1>7, <1>8, <1>9, <1>10, <1>11, <1>12, <1>13 DEF Next

\* The lock is shown as available exactly while there is a way to it: every
\* step that opens or closes one has the lock's state written, but for keys
\* that expire, or are being saved; and its signal while it is reachable.
THEOREM AlwaysShownAsAvailable == Spec => []ShownAsAvailable
<1> QED BY InitType, NextType, InitShown, NextShown, PTL DEF Spec

-----------------------------------------------------------------------------
(* BleSession: sets and sequences                                          *)

\* A set of naturals has a least, ...
LEMMA Least ==
    ASSUME NEW S, S \subseteq Nat, S # {}
    PROVE  \E x \in S : \A y \in S : x <= y
<1> DEFINE R == {pair \in Nat \X Nat : pair[1] < pair[2]}
<1>1. IsWellFoundedOn(OpToRel(<, Nat), Nat)
  BY NatLessThanWellFounded, Zenon
<1>2. OpToRel(<, Nat) = R
  BY Zenon DEF OpToRel
<1>3. IsWellFoundedOn(R, Nat)
  BY <1>1, <1>2
<1>4. \E x \in S : \A y \in S : <<y, x>> \notin R
  <2> HIDE DEF R
  <2> QED BY <1>3, WFMin
<1>5. \A x, y \in S : <<y, x>> \notin R => x <= y
  OBVIOUS
<1> QED BY <1>4, <1>5

\* so what holds of a sequence if it does of all shorter ones, holds of all,
LEMMA ByLength ==
    ASSUME NEW S, NEW Good,
           \A s \in Seq(S) : (\A t \in Seq(S) : Len(t) < Len(s) => t \in Good) => s \in Good
    PROVE  \A s \in Seq(S) : s \in Good
<1> DEFINE Lengths == {Len(s) : s \in {t \in Seq(S) : t \notin Good}}
<1> SUFFICES ASSUME NEW bad \in Seq(S), bad \notin Good PROVE FALSE
  OBVIOUS
<1>1. Lengths \subseteq Nat
  BY LenProperties
<1>2. PICK n \in Lengths : \A m \in Lengths : n <= m
  <2>1. Len(bad) \in Lengths
    OBVIOUS
  <2> HIDE DEF Lengths
  <2> QED BY <1>1, <2>1, Least
<1>3. PICK s \in Seq(S) : s \notin Good /\ Len(s) = n
  BY <1>2
<1>4. ASSUME NEW t \in Seq(S), Len(t) < Len(s) PROVE t \in Good
  <2>1. Len(t) \in Nat /\ n \in Nat
    BY <1>1, <1>2, LenProperties
  <2>2. Len(t) \notin Lengths
    <3> HIDE DEF Lengths
    <3> QED BY <1>2, <1>3, <1>4, <2>1
  <2> QED BY <2>2
<1> QED BY <1>3, <1>4

\* and what holds of a number if it does of all greater ones, of all up to the last.
LEMMA Downward ==
    ASSUME NEW first \in Int, NEW last \in Int, NEW Good,
           \A i \in first..last : (\A j \in i + 1..last : j \in Good) => i \in Good
    PROVE  \A i \in first..last : i \in Good
<1> DEFINE Failing == {last - i : i \in {j \in first..last : j \notin Good}}
<1> SUFFICES ASSUME Failing # {} PROVE FALSE
  OBVIOUS
<1>1. Failing \subseteq Nat
  OBVIOUS
<1>2. PICK n \in Failing : \A m \in Failing : n <= m
  <2> HIDE DEF Failing
  <2> QED BY <1>1, Least
<1>3. PICK i \in first..last : i \notin Good /\ n = last - i
  BY <1>2
<1>4. ASSUME NEW j \in i + 1..last PROVE j \in Good
  <2>1. j \in first..last /\ last - j < n
    BY <1>3
  <2>2. last - j \in Int /\ n \in Int
    BY <1>3
  <2>3. last - j \notin Failing
    <3> HIDE DEF Failing
    <3> QED BY <1>2, <2>1, <2>2
  <2> QED BY <2>1, <2>3
<1> QED BY <1>3, <1>4

-----------------------------------------------------------------------------
(* What is received                                                        *)

\* What Parsed is at a byte, given what it is at those after it.
Size(bytes, i) == bytes[i + 1].of + 256 * bytes[i + 2].of

Then(type, packet, after) ==
    [packets |-> (IF IsReply(type) THEN <<packet>> ELSE <<>>) \o after.packets,
     rest |-> after.rest]

Step(bytes, f, i) ==
    IF i <= Len(bytes) /\ IsError(bytes[i].of)
    THEN Then(bytes[i].of, Packet(bytes[i].of, <<>>), f[i + 1])
    ELSE IF i + 2 <= Len(bytes) /\ IsWhole(bytes, i, Size(bytes, i))
    THEN Then(bytes[i].of,
              Packet(bytes[i].of, SubSeq(bytes, i + 3, i + 2 + Size(bytes, i))),
              f[i + 3 + Size(bytes, i)])
    ELSE [packets |-> <<>>, rest |-> SubSeq(bytes, i, Len(bytes))]

LEMMA StepDepends ==
    ASSUME NEW bytes, Len(bytes) \in Nat, NEW i \in 1..Len(bytes) + 1, NEW f, NEW g,
           \A j \in i + 1..Len(bytes) + 1 : f[j] = g[j]
    PROVE  Step(bytes, f, i) = Step(bytes, g, i)
<1>1. CASE i <= Len(bytes) /\ IsError(bytes[i].of)
  <2>1. f[i + 1] = g[i + 1]
    BY <1>1
  <2> QED BY <1>1, <2>1 DEF Step
<1>2. CASE /\ ~ (i <= Len(bytes) /\ IsError(bytes[i].of))
           /\ i + 2 <= Len(bytes) /\ IsWhole(bytes, i, Size(bytes, i))
  <2>1. PICK size \in 0..Len(bytes) - i - 2 : size = Size(bytes, i)
    BY <1>2 DEF IsWhole
  <2>2. f[i + 3 + size] = g[i + 3 + size]
    BY <2>1
  <2> QED BY <1>2, <2>1, <2>2 DEF Step
<1>3. CASE /\ ~ (i <= Len(bytes) /\ IsError(bytes[i].of))
           /\ ~ (i + 2 <= Len(bytes) /\ IsWhole(bytes, i, Size(bytes, i)))
  BY <1>3 DEF Step
<1> QED BY <1>1, <1>2, <1>3

LEMMA ParsedIs ==
    ASSUME NEW bytes, Len(bytes) \in Nat
    PROVE  \A i \in 1..Len(bytes) + 1 : Parsed(bytes)[i] = Step(bytes, Parsed(bytes), i)
<1> DEFINE end == Len(bytes) + 1
           IsFrom(f, first) == f = [i \in first..end |-> Step(bytes, f, i)]
           Defined == {first \in 1..end : \E f : IsFrom(f, first)}
<1>1. ASSUME NEW first \in 1..end,
             \A j \in first + 1..end : j \in Defined
      PROVE  first \in Defined
  <2>1. \E f : f = [i \in first + 1..end |-> Step(bytes, f, i)]
    <3>1. CASE first = end
      <4> DEFINE f == [i \in first + 1..end |-> 0]
      <4>1. f = [i \in first + 1..end |-> Step(bytes, f, i)]
        BY <3>1
      <4> HIDE DEF f
      <4> QED BY <4>1
    <3>2. CASE first # end
      <4>1. first + 1 \in Defined
        BY <1>1, <3>2
      <4> QED BY <4>1
    <3> QED BY <3>1, <3>2
  <2>2. PICK f : f = [i \in first + 1..end |-> Step(bytes, f, i)]
    BY <2>1
  <2> DEFINE g == [i \in first..end |-> Step(bytes, f, i)]
  <2>3. \A j \in first + 1..end : g[j] = f[j]
    <3>1. \A j \in first + 1..end : j \in first..end
      OBVIOUS
    <3> HIDE DEF end
    <3> QED BY <2>2, <3>1
  <2>4. \A i \in first..end : Step(bytes, f, i) = Step(bytes, g, i)
    <3> HIDE DEF g
    <3> SUFFICES ASSUME NEW i \in first..end PROVE Step(bytes, f, i) = Step(bytes, g, i)
      OBVIOUS
    <3>1. \A j \in i + 1..Len(bytes) + 1 : f[j] = g[j]
      BY <2>3
    <3> QED BY <3>1, StepDepends
  <2>5. g = [i \in first..end |-> Step(bytes, g, i)]
    <3> DEFINE h == [i \in first..end |-> Step(bytes, g, i)]
    <3>1. g = h
      BY <2>4
    <3> QED BY <3>1
  <2>6. IsFrom(g, first)
    BY <2>5
  <2> HIDE DEF g, IsFrom
  <2> QED BY <2>6
<1>2. \A i \in 1..end : i \in Defined
  <2>1. 1 \in Int /\ end \in Int
    OBVIOUS
  <2> HIDE DEF Defined, end
  <2> QED BY <1>1, <2>1, Downward
<1>3. \E f : IsFrom(f, 1)
  <2>1. 1 \in Defined
    BY <1>2
  <2> QED BY <2>1
<1>4. Parsed(bytes) = CHOOSE f : IsFrom(f, 1)
  BY DEF Parsed, Step, Then, Size
<1>5. IsFrom(Parsed(bytes), 1)
  <2> HIDE DEF IsFrom
  <2> QED BY <1>3, <1>4
<1> QED BY <1>5

\* Bytes from one on.
From(bytes, i) == SubSeq(bytes, i, Len(bytes))

LEMMA FromIs ==
    ASSUME NEW S, NEW bytes \in Seq(S), NEW i \in 1..Len(bytes) + 1
    PROVE  /\ From(bytes, i) \in Seq(S)
           /\ Len(From(bytes, i)) = Len(bytes) - i + 1
           /\ \A k \in 1..Len(bytes) - i + 1 : From(bytes, i)[k] = bytes[i + k - 1]
<1>1. Len(bytes) \in Nat
  BY LenProperties
<1>2. \A k \in i..Len(bytes) : bytes[k] \in S
  BY <1>1, ElementOfSeq
<1>3. i \in Int /\ Len(bytes) \in Int
  BY <1>1
<1> QED BY <1>1, <1>2, <1>3, SubSeqProperties, Z3 DEF From

LEMMA SubSeqOfFrom ==
    ASSUME NEW S, NEW bytes \in Seq(S), NEW i \in 1..Len(bytes) + 1,
           NEW m \in 1..Len(bytes) - i + 2, NEW n \in m - 1..Len(bytes) - i + 1
    PROVE  SubSeq(From(bytes, i), m, n) = SubSeq(bytes, i + m - 1, i + n - 1)
<1>1. Len(bytes) \in Nat /\ From(bytes, i) \in Seq(S) /\ Len(From(bytes, i)) = Len(bytes) - i + 1
  BY FromIs, LenProperties
<1>2. PICK s : s = SubSeq(From(bytes, i), m, n)
  OBVIOUS
<1>3. PICK t : t = SubSeq(bytes, i + m - 1, i + n - 1)
  OBVIOUS
<1>4. /\ s \in Seq(S) /\ Len(s) = IF m <= n THEN n - m + 1 ELSE 0
      /\ \A k \in 1..n - m + 1 : s[k] = From(bytes, i)[m + k - 1]
  <2>1. \A k \in m..n : From(bytes, i)[k] \in S
    BY <1>1, ElementOfSeq
  <2>2. m \in Int /\ n \in Int
    BY <1>1
  <2> HIDE DEF From
  <2> QED BY <1>2, <2>1, <2>2, SubSeqProperties
<1>5. /\ t \in Seq(S) /\ Len(t) = IF m <= n THEN n - m + 1 ELSE 0
      /\ \A k \in 1..n - m + 1 : t[k] = bytes[i + m - 1 + k - 1]
  <2>1. \A k \in i + m - 1..i + n - 1 : bytes[k] \in S
    BY <1>1, ElementOfSeq
  <2>2. i + m - 1 \in Int /\ i + n - 1 \in Int
    BY <1>1
  <2>3. /\ t \in Seq(S)
        /\ Len(t) = IF i + m - 1 <= i + n - 1 THEN (i + n - 1) - (i + m - 1) + 1 ELSE 0
        /\ \A k \in 1..(i + n - 1) - (i + m - 1) + 1 : t[k] = bytes[i + m - 1 + k - 1]
    BY <1>3, <2>1, <2>2, SubSeqProperties
  <2>4. /\ (i + n - 1) - (i + m - 1) + 1 = n - m + 1
        /\ i + m - 1 <= i + n - 1 <=> m <= n
    BY <1>1
  <2> QED BY <2>3, <2>4
<1>6. \A k \in 1..n - m + 1 : s[k] = t[k]
  <2> SUFFICES ASSUME NEW k \in 1..n - m + 1 PROVE s[k] = t[k]
    OBVIOUS
  <2>1. m + k - 1 \in 1..Len(bytes) - i + 1
    BY <1>1
  <2>2. From(bytes, i)[m + k - 1] = bytes[i + (m + k - 1) - 1]
    BY <2>1, FromIs
  <2>3. i + (m + k - 1) - 1 = i + m - 1 + k - 1
    BY <1>1
  <2> QED BY <1>4, <1>5, <2>2, <2>3
<1>7. Len(s) = Len(t) /\ \A k \in 1..Len(s) : s[k] = t[k]
  BY <1>1, <1>4, <1>5, <1>6
<1>8. s = t
  BY <1>4, <1>5, <1>7, SeqEqual
<1> QED BY <1>2, <1>3, <1>8

\* What bytes are parsed to from one on, is what they would be alone.
LEMMA ParsedFrom ==
    ASSUME NEW S, NEW bytes \in Seq(S), NEW i \in 1..Len(bytes) + 1
    PROVE  Parsed(bytes)[i] = Received(From(bytes, i))
<1>1. PICK tail : tail = From(bytes, i)
  OBVIOUS
<1>2. PICK f : f = Parsed(bytes)
  OBVIOUS
<1>3. PICK g : g = Parsed(tail)
  OBVIOUS
<1>4. /\ Len(bytes) \in Nat /\ Len(tail) = Len(bytes) - i + 1 /\ Len(tail) \in Nat
      /\ \A k \in 1..Len(tail) : tail[k] = bytes[i + k - 1]
  BY <1>1, FromIs, LenProperties
<1> DEFINE Good == {k \in 1..Len(tail) + 1 : g[k] = f[i + k - 1]}
<1>5. ASSUME NEW k \in 1..Len(tail) + 1, \A j \in k + 1..Len(tail) + 1 : j \in Good
      PROVE  k \in Good
  <2>1. g[k] = Step(tail, g, k)
    BY <1>3, <1>4, ParsedIs
  <2>2. f[i + k - 1] = Step(bytes, f, i + k - 1)
    <3>1. i + k - 1 \in 1..Len(bytes) + 1
      BY <1>4
    <3> QED BY <1>2, <1>4, <3>1, ParsedIs
  <2>3. \A j \in k + 1..Len(tail) + 1 : g[j] = f[i + j - 1]
    BY <1>5
  <2>4. k <= Len(tail) <=> i + k - 1 <= Len(bytes)
    BY <1>4
  <2>5. k <= Len(tail) => tail[k] = bytes[i + k - 1]
    BY <1>4
  <2>6. CASE k <= Len(tail) /\ IsError(tail[k].of)
    <3>1. g[k + 1] = f[(i + k - 1) + 1]
      <4>1. k + 1 \in k + 1..Len(tail) + 1 /\ i + (k + 1) - 1 = (i + k - 1) + 1
        BY <1>4, <2>6
      <4> QED BY <2>3, <4>1
    <3> QED BY <2>1, <2>2, <2>4, <2>5, <2>6, <3>1 DEF Step
  <2>7. CASE /\ ~ (k <= Len(tail) /\ IsError(tail[k].of))
             /\ k + 2 <= Len(tail) /\ IsWhole(tail, k, Size(tail, k))
    <3>1. PICK size \in 0..Len(tail) - k - 2 : size = Size(tail, k)
      BY <2>7 DEF IsWhole
    <3>2. Size(bytes, i + k - 1) = size
      <4>1. k + 1 \in 1..Len(tail) /\ k + 2 \in 1..Len(tail)
        BY <1>4, <2>7
      <4>2. tail[k + 1] = bytes[(i + k - 1) + 1] /\ tail[k + 2] = bytes[(i + k - 1) + 2]
        <5>1. i + (k + 1) - 1 = (i + k - 1) + 1 /\ i + (k + 2) - 1 = (i + k - 1) + 2
          BY <1>4
        <5> QED BY <1>4, <4>1, <5>1
      <4> QED BY <3>1, <4>2 DEF Size
    <3>3. i + k - 1 + 2 <= Len(bytes) /\ IsWhole(bytes, i + k - 1, size)
      <4>1. /\ i + k - 1 + 2 <= Len(bytes)
            /\ Len(tail) - k - 2 = Len(bytes) - (i + k - 1) - 2
        BY <1>4, <2>7
      <4> QED BY <3>1, <4>1 DEF IsWhole
    <3>4. g[k + 3 + size] = f[(i + k - 1) + 3 + size]
      <4>1. PICK j : j = k + 3 + size /\ j \in k + 1..Len(tail) + 1
                     /\ i + j - 1 = (i + k - 1) + 3 + size
        BY <1>4, <3>1
      <4>2. g[j] = f[i + j - 1]
        BY <2>3, <4>1
      <4> QED BY <4>1, <4>2
    <3>5. SubSeq(tail, k + 3, k + 2 + size)
            = SubSeq(bytes, (i + k - 1) + 3, (i + k - 1) + 2 + size)
      <4>1. PICK m, n : m = k + 3 /\ n = k + 2 + size
        OBVIOUS
      <4>2. /\ m \in 1..Len(bytes) - i + 2
            /\ n \in m - 1..Len(bytes) - i + 1
            /\ i + m - 1 = (i + k - 1) + 3
            /\ i + n - 1 = (i + k - 1) + 2 + size
        <5>1. Len(bytes) \in Nat /\ Len(tail) = Len(bytes) - i + 1 /\ k + 2 <= Len(tail)
          BY <1>4, <2>7
        <5> QED BY <4>1, <5>1
      <4>3. SubSeq(From(bytes, i), m, n) = SubSeq(bytes, i + m - 1, i + n - 1)
        BY <4>2, SubSeqOfFrom
      <4> QED BY <1>1, <4>1, <4>2, <4>3
    <3>6. tail[k].of = bytes[i + k - 1].of /\ k <= Len(tail)
      <4>1. k <= Len(tail)
        BY <1>4, <2>7
      <4> QED BY <2>5, <4>1
    <3> QED BY <2>1, <2>2, <2>4, <2>7, <3>1, <3>2, <3>3, <3>4, <3>5, <3>6 DEF Step
  <2>8. CASE /\ ~ (k <= Len(tail) /\ IsError(tail[k].of))
             /\ ~ (k + 2 <= Len(tail) /\ IsWhole(tail, k, Size(tail, k)))
    <3>1. ~ (i + k - 1 <= Len(bytes) /\ IsError(bytes[i + k - 1].of))
      BY <2>4, <2>5, <2>8
    <3>2. ~ (i + k - 1 + 2 <= Len(bytes) /\ IsWhole(bytes, i + k - 1, Size(bytes, i + k - 1)))
      <4> SUFFICES ASSUME i + k - 1 + 2 <= Len(bytes) /\ IsWhole(bytes, i + k - 1, Size(bytes, i + k - 1))
                   PROVE  FALSE
        OBVIOUS
      <4>1. k + 1 \in 1..Len(tail) /\ k + 2 \in 1..Len(tail)
        BY <1>4
      <4>2. tail[k + 1] = bytes[(i + k - 1) + 1] /\ tail[k + 2] = bytes[(i + k - 1) + 2]
        <5>1. i + (k + 1) - 1 = (i + k - 1) + 1 /\ i + (k + 2) - 1 = (i + k - 1) + 2
          BY <1>4
        <5> QED BY <1>4, <4>1, <5>1
      <4>3. Size(bytes, i + k - 1) = Size(tail, k)
        BY <4>2 DEF Size
      <4> QED BY <1>4, <2>8, <4>1, <4>3 DEF IsWhole
    <3>3. SubSeq(tail, k, Len(tail)) = SubSeq(bytes, i + k - 1, Len(bytes))
      <4>1. PICK n : n = Len(tail)
        OBVIOUS
      <4>2. /\ k \in 1..Len(bytes) - i + 2 /\ n \in k - 1..Len(bytes) - i + 1
            /\ i + n - 1 = Len(bytes)
        BY <1>4, <4>1
      <4>3. SubSeq(From(bytes, i), k, n) = SubSeq(bytes, i + k - 1, i + n - 1)
        BY <4>2, SubSeqOfFrom
      <4> QED BY <1>1, <4>1, <4>2, <4>3
    <3> QED BY <2>1, <2>2, <2>8, <3>1, <3>2, <3>3 DEF Step
  <2> QED BY <2>6, <2>7, <2>8
<1>6. \A k \in 1..Len(tail) + 1 : k \in Good
  <2>1. 1 \in Int /\ Len(tail) + 1 \in Int
    BY <1>4
  <2> HIDE DEF Good
  <2> QED BY <1>5, <2>1, Downward
<1>7. 1 \in Good /\ i + 1 - 1 = i
  BY <1>4, <1>6
<1> QED BY <1>1, <1>2, <1>3, <1>7 DEF Received

\* The packet that bytes start with.
StartsWithError(bytes) == 1 <= Len(bytes) /\ IsError(bytes[1].of)
StartsWithPacket(bytes) == 3 <= Len(bytes) /\ IsWhole(bytes, 1, Size(bytes, 1))
Starts(bytes) == StartsWithError(bytes) \/ StartsWithPacket(bytes)

FirstLength(bytes) == IF StartsWithError(bytes) THEN 1 ELSE 3 + Size(bytes, 1)

First(bytes) ==
    Packet(bytes[1].of,
           IF StartsWithError(bytes) THEN <<>> ELSE SubSeq(bytes, 4, 3 + Size(bytes, 1)))

FirstReply(bytes) == IF IsReply(bytes[1].of) THEN <<First(bytes)>> ELSE <<>>

RestOf(bytes) == From(bytes, FirstLength(bytes) + 1)

\* What is received is the first packet, if it is a reply, and what is received
\* of the rest.
LEMMA ReceivedIs ==
    ASSUME NEW S, NEW bytes \in Seq(S)
    PROVE  /\ Starts(bytes) =>
                /\ FirstLength(bytes) \in 1..Len(bytes)
                /\ Received(bytes) =
                       [packets |-> FirstReply(bytes) \o Received(RestOf(bytes)).packets,
                        rest |-> Received(RestOf(bytes)).rest]
           /\ ~ Starts(bytes) => Received(bytes) = [packets |-> <<>>, rest |-> bytes]
<1>1. Len(bytes) \in Nat /\ 1 \in 1..Len(bytes) + 1
  BY LenProperties
<1>2. Received(bytes) = Step(bytes, Parsed(bytes), 1)
  BY <1>1, ParsedIs DEF Received
<1>3. CASE StartsWithError(bytes)
  <2>1. FirstLength(bytes) = 1 /\ 1 \in 1..Len(bytes) /\ 2 \in 1..Len(bytes) + 1
    BY <1>1, <1>3 DEF FirstLength, StartsWithError
  <2>2. Parsed(bytes)[2] = Received(RestOf(bytes))
    BY <2>1, ParsedFrom DEF RestOf
  <2>3. Received(bytes) = Then(bytes[1].of, Packet(bytes[1].of, <<>>), Parsed(bytes)[2])
    BY <1>2, <1>3 DEF Step, StartsWithError
  <2> QED BY <1>3, <2>1, <2>2, <2>3 DEF Then, First, FirstReply, Starts
<1>4. CASE ~ StartsWithError(bytes) /\ StartsWithPacket(bytes)
  <2>1. PICK size \in 0..Len(bytes) - 1 - 2 : size = Size(bytes, 1)
    BY <1>4 DEF StartsWithPacket, IsWhole
  <2>2. FirstLength(bytes) = 3 + size /\ 3 + size \in 1..Len(bytes) /\ 4 + size \in 1..Len(bytes) + 1
    BY <1>1, <1>4, <2>1 DEF FirstLength
  <2>3. Parsed(bytes)[4 + size] = Received(RestOf(bytes))
    <3>1. FirstLength(bytes) + 1 = 4 + size
      BY <2>1, <2>2
    <3> QED BY <2>2, <3>1, ParsedFrom DEF RestOf
  <2>4. Received(bytes) = Then(bytes[1].of, Packet(bytes[1].of, SubSeq(bytes, 4, 3 + size)),
                               Parsed(bytes)[4 + size])
    <3>1. ~ (1 <= Len(bytes) /\ IsError(bytes[1].of)) /\ 1 + 2 <= Len(bytes) /\ IsWhole(bytes, 1, Size(bytes, 1))
      BY <1>4 DEF StartsWithError, StartsWithPacket
    <3>2. 1 + 3 = 4 /\ 1 + 2 + size = 3 + size /\ 1 + 3 + size = 4 + size
      OBVIOUS
    <3>3. Received(bytes) = Then(bytes[1].of, Packet(bytes[1].of, SubSeq(bytes, 1 + 3, 1 + 2 + size)),
                                 Parsed(bytes)[1 + 3 + size])
      BY <1>2, <2>1, <3>1 DEF Step
    <3> QED BY <3>2, <3>3
  <2> QED BY <1>4, <2>1, <2>2, <2>3, <2>4 DEF Then, First, FirstReply, Starts
<1>5. CASE ~ Starts(bytes)
  <2>1. ~ (1 <= Len(bytes) /\ IsError(bytes[1].of)) /\ ~ (1 + 2 <= Len(bytes) /\ IsWhole(bytes, 1, Size(bytes, 1)))
    BY <1>5 DEF Starts, StartsWithError, StartsWithPacket
  <2>2. Received(bytes) = [packets |-> <<>>, rest |-> SubSeq(bytes, 1, Len(bytes))]
    BY <1>2, <2>1 DEF Step
  <2> QED BY <1>5, <2>2, SubSeqFull
<1> QED BY <1>3, <1>4, <1>5 DEF Starts

\* The packets that bytes can be.
Wired(S) == {Packet(byte.of, payload) : byte \in S, payload \in Seq(S)}
RepliesOf(S) == {packet \in Wired(S) : IsReply(packet.type)}

LEMMA FirstType ==
    ASSUME NEW S, NEW bytes \in Seq(S), Starts(bytes)
    PROVE  /\ FirstLength(bytes) \in 1..Len(bytes)
           /\ FirstReply(bytes) \in Seq(RepliesOf(S))
           /\ RestOf(bytes) \in Seq(S)
           /\ Len(RestOf(bytes)) = Len(bytes) - FirstLength(bytes)
           /\ Len(RestOf(bytes)) < Len(bytes)
<1>1. Len(bytes) \in Nat /\ FirstLength(bytes) \in 1..Len(bytes)
  BY ReceivedIs, LenProperties
<1>2. RestOf(bytes) \in Seq(S) /\ Len(RestOf(bytes)) = Len(bytes) - FirstLength(bytes)
  <2>1. PICK n \in 1..Len(bytes) + 1 : n = FirstLength(bytes) + 1
    BY <1>1
  <2>2. From(bytes, n) \in Seq(S) /\ Len(From(bytes, n)) = Len(bytes) - n + 1
    BY FromIs
  <2> QED BY <1>1, <2>1, <2>2 DEF RestOf
<1>3. First(bytes) \in Wired(S) /\ First(bytes).type = bytes[1].of
  <2>1. bytes[1] \in S
    <3>1. 1 \in 1..Len(bytes)
      BY <1>1
    <3> QED BY <3>1, ElementOfSeq
  <2>4. ASSUME NEW payload \in Seq(S), First(bytes) = Packet(bytes[1].of, payload)
        PROVE  First(bytes) \in Wired(S) /\ First(bytes).type = bytes[1].of
    <3>1. Packet(bytes[1].of, payload) \in Wired(S)
      BY <2>1 DEF Wired
    <3>2. Packet(bytes[1].of, payload).type = bytes[1].of
      BY DEF Packet
    <3> QED BY <2>4, <3>1, <3>2
  <2>2. CASE StartsWithError(bytes)
    <3>1. <<>> \in Seq(S)
      OBVIOUS
    <3>2. First(bytes) = Packet(bytes[1].of, <<>>)
      BY <2>2 DEF First
    <3> QED BY <2>4, <3>1, <3>2
  <2>3. CASE ~ StartsWithError(bytes)
    <3>1. PICK size \in 0..Len(bytes) - 1 - 2 : size = Size(bytes, 1)
      BY <2>3 DEF Starts, StartsWithPacket, IsWhole
    <3>2. SubSeq(bytes, 4, 3 + size) \in Seq(S)
      <4>1. \A k \in 4..3 + size : bytes[k] \in S
        BY <1>1, <3>1, ElementOfSeq
      <4>2. 4 \in Int /\ 3 + size \in Int
        BY <3>1
      <4> QED BY <4>1, <4>2, SubSeqProperties
    <3>3. First(bytes) = Packet(bytes[1].of, SubSeq(bytes, 4, 3 + size))
      BY <2>3, <3>1 DEF First
    <3> QED BY <2>4, <3>2, <3>3
  <2> QED BY <2>2, <2>3
<1>4. FirstReply(bytes) \in Seq(RepliesOf(S))
  <2>1. CASE IsReply(bytes[1].of)
    <3>1. First(bytes) \in RepliesOf(S)
      BY <1>3, <2>1 DEF RepliesOf
    <3> QED BY <2>1, <3>1 DEF FirstReply
  <2>2. CASE ~ IsReply(bytes[1].of)
    <3>1. <<>> \in Seq(RepliesOf(S))
      OBVIOUS
    <3> QED BY <2>2, <3>1 DEF FirstReply
  <2> QED BY <2>1, <2>2
<1> QED BY <1>1, <1>2, <1>4

\* No event is among the packets received, and no packet among the bytes left.
LEMMA ReceivedType ==
    ASSUME NEW S
    PROVE  \A bytes \in Seq(S) :
               /\ Received(bytes).packets \in Seq(RepliesOf(S))
               /\ Received(bytes).rest \in Seq(S)
               /\ ~ Starts(Received(bytes).rest)
               /\ Received(bytes) = [packets |-> Received(bytes).packets,
                                     rest |-> Received(bytes).rest]
<1> DEFINE Typed(received) ==
               /\ received.packets \in Seq(RepliesOf(S))
               /\ received.rest \in Seq(S)
               /\ ~ Starts(received.rest)
               /\ received = [packets |-> received.packets, rest |-> received.rest]
           Good == {bytes \in Seq(S) : Typed(Received(bytes))}
<1>1. ASSUME NEW bytes \in Seq(S), \A t \in Seq(S) : Len(t) < Len(bytes) => t \in Good
      PROVE  bytes \in Good
  <2>1. CASE Starts(bytes)
    <3>1. PICK rest : rest = Received(RestOf(bytes))
      OBVIOUS
    <3>2. Typed(rest)
      BY <1>1, <2>1, <3>1, FirstType
    <3>3. FirstReply(bytes) \o rest.packets \in Seq(RepliesOf(S))
      BY <2>1, <3>2, FirstType, ConcatProperties
    <3>4. Received(bytes) = [packets |-> FirstReply(bytes) \o rest.packets, rest |-> rest.rest]
      BY <2>1, <3>1, ReceivedIs
    <3>5. Typed(Received(bytes))
      BY <3>2, <3>3, <3>4
    <3> QED BY <3>5
  <2>2. CASE ~ Starts(bytes)
    <3>1. Received(bytes) = [packets |-> <<>>, rest |-> bytes] /\ <<>> \in Seq(RepliesOf(S))
      BY <2>2, ReceivedIs
    <3>2. Typed(Received(bytes))
      BY <2>2, <3>1
    <3> QED BY <3>2
  <2> QED BY <2>1, <2>2
<1>2. \A bytes \in Seq(S) : bytes \in Good
  <2> HIDE DEF Good
  <2> QED BY <1>1, ByLength
<1> QED BY <1>2

\* Bytes that go on start with the same packet.
LEMMA StartsWithMore ==
    ASSUME NEW S, NEW a \in Seq(S), NEW b \in Seq(S), Starts(a)
    PROVE  /\ Starts(a \o b)
           /\ FirstReply(a \o b) = FirstReply(a)
           /\ RestOf(a \o b) = RestOf(a) \o b
<1>1. PICK all : all = a \o b
  OBVIOUS
<1>2. /\ all \in Seq(S) /\ Len(all) = Len(a) + Len(b) /\ Len(a) \in Nat /\ Len(b) \in Nat
      /\ \A k \in 1..Len(a) : all[k] = a[k]
      /\ \A k \in 1..Len(b) : all[Len(a) + k] = b[k]
  <2>1. Len(a) \in Nat /\ Len(b) \in Nat
    BY LenProperties
  <2> QED BY <1>1, <2>1, ConcatProperties
<1>3. PICK n \in 1..Len(a) : n = FirstLength(a)
  BY FirstType
<1>4. all[1] = a[1] /\ 1 <= Len(all) /\ 1 <= Len(a)
  BY <1>2, <1>3
<1>5. StartsWithError(all) <=> StartsWithError(a)
  BY <1>4 DEF StartsWithError
<1>6. /\ FirstLength(all) = n /\ Starts(all)
      /\ First(all) = First(a)
  <2>1. CASE StartsWithError(a)
    BY <1>3, <1>4, <1>5, <2>1 DEF FirstLength, Starts, First
  <2>2. CASE ~ StartsWithError(a)
    <3>1. 3 <= Len(a) /\ IsWhole(a, 1, Size(a, 1))
      BY <2>2 DEF Starts, StartsWithPacket
    <3>2. PICK size \in 0..Len(a) - 1 - 2 : size = Size(a, 1)
      BY <3>1 DEF IsWhole
    <3>3. all[1 + 1] = a[1 + 1] /\ all[1 + 2] = a[1 + 2]
      BY <1>2, <3>1
    <3>4. Size(all, 1) = size
      BY <3>2, <3>3 DEF Size
    <3>5. StartsWithPacket(all)
      BY <1>2, <3>1, <3>2, <3>4 DEF StartsWithPacket, IsWhole
    <3>6. SubSeq(all, 4, 3 + size) = SubSeq(a, 4, 3 + size)
      <4>1. CASE size = 0
        <5>1. 3 + size < 4 /\ 4 \in Int /\ 3 + size \in Int
          BY <4>1
        <5> QED BY <5>1, SubSeqEmpty
      <4>2. CASE size # 0
        <5>1. 4 \in 1..Len(a) /\ 3 + size \in 1..Len(a)
          BY <1>2, <3>2, <4>2
        <5> QED BY <1>1, <5>1, SubSeqOfConcat1
      <4> QED BY <4>1, <4>2
    <3> QED BY <1>3, <1>4, <1>5, <2>2, <3>2, <3>4, <3>5, <3>6 DEF FirstLength, Starts, First
  <2> QED BY <2>1, <2>2
<1>7. From(all, n + 1) = From(a, n + 1) \o b
  <2>1. PICK s : s = From(all, n + 1)
    OBVIOUS
  <2>2. PICK t : t = From(a, n + 1)
    OBVIOUS
  <2>3. n + 1 \in 1..Len(a) + 1 /\ n + 1 \in 1..Len(all) + 1
    BY <1>2
  <2>4. s \in Seq(S) /\ Len(s) = Len(all) - (n + 1) + 1
        /\ \A k \in 1..Len(all) - (n + 1) + 1 : s[k] = all[(n + 1) + k - 1]
    BY <1>2, <2>1, <2>3, FromIs
  <2>5. t \in Seq(S) /\ Len(t) = Len(a) - (n + 1) + 1
        /\ \A k \in 1..Len(a) - (n + 1) + 1 : t[k] = a[(n + 1) + k - 1]
    BY <2>2, <2>3, FromIs
  <2>6. t \o b \in Seq(S) /\ Len(t \o b) = Len(t) + Len(b)
        /\ \A k \in 1..Len(t) + Len(b) : (t \o b)[k] = IF k <= Len(t) THEN t[k] ELSE b[k - Len(t)]
    BY <2>5, ConcatProperties
  <2>7. Len(s) = Len(a) + Len(b) - n /\ Len(t) = Len(a) - n /\ Len(t \o b) = Len(s)
    BY <1>2, <2>4, <2>5, <2>6
  <2>8. ASSUME NEW k \in 1..Len(s) PROVE s[k] = (t \o b)[k]
    <3>1. s[k] = all[n + k]
      BY <1>2, <2>4, <2>7
    <3>2. CASE k <= Len(t)
      <4>1. n + k \in 1..Len(a) /\ k \in 1..Len(a) - (n + 1) + 1 /\ (n + 1) + k - 1 = n + k
        BY <1>2, <2>7, <3>2
      <4>2. t[k] = a[n + k] /\ all[n + k] = a[n + k]
        BY <1>2, <2>5, <4>1
      <4>3. k \in 1..Len(t) + Len(b)
        BY <2>6, <2>7
      <4> QED BY <2>6, <3>1, <3>2, <4>2, <4>3
    <3>3. CASE ~ (k <= Len(t))
      <4>1. k - Len(t) \in 1..Len(b) /\ Len(a) + (k - Len(t)) = n + k /\ k \in 1..Len(t) + Len(b)
        BY <1>2, <2>7, <3>3
      <4>2. all[n + k] = b[k - Len(t)]
        BY <1>2, <4>1
      <4> QED BY <2>6, <3>1, <3>3, <4>1, <4>2
    <3> QED BY <3>2, <3>3
  <2>9. s = t \o b
    BY <2>4, <2>6, <2>7, <2>8, SeqEqual
  <2> QED BY <2>1, <2>2, <2>9
<1> QED BY <1>1, <1>3, <1>4, <1>6, <1>7 DEF RestOf, FirstReply

\* Bytes that come in two parts are received as if they came at once.
LEMMA ReceivedInParts ==
    ASSUME NEW S, NEW b \in Seq(S)
    PROVE  \A a \in Seq(S) :
               /\ Received(a \o b).packets
                    = Received(a).packets \o Received(Received(a).rest \o b).packets
               /\ Received(a \o b).rest = Received(Received(a).rest \o b).rest
<1> DEFINE InParts(a) ==
               /\ Received(a \o b).packets
                    = Received(a).packets \o Received(Received(a).rest \o b).packets
               /\ Received(a \o b).rest = Received(Received(a).rest \o b).rest
           Good == {a \in Seq(S) : InParts(a)}
<1>1. ASSUME NEW a \in Seq(S), \A t \in Seq(S) : Len(t) < Len(a) => t \in Good
      PROVE  a \in Good
  <2>1. CASE Starts(a)
    <3>1. PICK tail : tail = RestOf(a)
      OBVIOUS
    <3>2. tail \in Seq(S) /\ InParts(tail)
      BY <1>1, <2>1, <3>1, FirstType
    <3>3. Received(a) = [packets |-> FirstReply(a) \o Received(tail).packets, rest |-> Received(tail).rest]
      BY <2>1, <3>1, ReceivedIs
    <3>4. Received(a \o b) = [packets |-> FirstReply(a) \o Received(tail \o b).packets,
                              rest |-> Received(tail \o b).rest]
      <4>1. a \o b \in Seq(S)
        BY ConcatProperties
      <4> QED BY <2>1, <3>1, <4>1, ReceivedIs, StartsWithMore
    <3>5. PICK p, q, r : /\ p = FirstReply(a) /\ q = Received(tail).packets
                         /\ r = Received(Received(tail).rest \o b).packets
      OBVIOUS
    <3>6. p \in Seq(RepliesOf(S)) /\ q \in Seq(RepliesOf(S)) /\ r \in Seq(RepliesOf(S))
      <4>1. Received(tail).rest \o b \in Seq(S)
        BY <3>2, ReceivedType, ConcatProperties
      <4> QED BY <2>1, <3>2, <3>5, <4>1, FirstType, ReceivedType
    <3>7. p \o (q \o r) = (p \o q) \o r
      BY <3>6, ConcatAssociative
    <3>8. Received(a \o b).packets = p \o (q \o r) /\ Received(a).packets = p \o q
      <4>1. Received(tail \o b).packets = q \o r
        BY <3>2, <3>5
      <4>2. Received(a \o b).packets = FirstReply(a) \o Received(tail \o b).packets
        BY <3>4
      <4>3. Received(a).packets = FirstReply(a) \o Received(tail).packets
        BY <3>3
      <4> QED BY <3>5, <4>1, <4>2, <4>3
    <3>9. Received(a).rest = Received(tail).rest
      BY <3>3
    <3>10. Received(a \o b).rest = Received(Received(a).rest \o b).rest
      BY <3>2, <3>4, <3>9
    <3>11. InParts(a)
      BY <3>5, <3>7, <3>8, <3>9, <3>10
    <3> QED BY <3>11
  <2>2. CASE ~ Starts(a)
    <3>1. Received(a).packets = <<>> /\ Received(a).rest = a
      BY <2>2, ReceivedIs
    <3>2. Received(a \o b).packets \in Seq(RepliesOf(S))
      BY ConcatProperties, ReceivedType
    <3>3. <<>> \o Received(a \o b).packets = Received(a \o b).packets
      BY <3>2, ConcatEmptySeq
    <3>4. InParts(a)
      BY <3>1, <3>3
    <3> QED BY <3>4
  <2> QED BY <2>1, <2>2
<1>2. \A a \in Seq(S) : a \in Good
  <2> HIDE DEF Good
  <2> QED BY <1>1, ByLength
<1> QED BY <1>2

IsList(s) == \E S : s \in Seq(S)

LEMMA Common ==
    ASSUME NEW s, NEW t, IsList(s), IsList(t)
    PROVE  \E S : s \in Seq(S) /\ t \in Seq(S)
<1>1. PICK S : s \in Seq(S)
  BY DEF IsList
<1>2. PICK T : t \in Seq(T)
  BY DEF IsList
<1>3. S \subseteq S \cup T /\ T \subseteq S \cup T
  OBVIOUS
<1> QED BY <1>1, <1>2, <1>3, SeqMonotonic

LEMMA ListsJoined ==
    ASSUME NEW s, NEW t, IsList(s), IsList(t)
    PROVE  IsList(s \o t)
BY Common, ConcatProperties DEF IsList

LEMMA ListsAssociate ==
    ASSUME NEW s, NEW t, NEW u, IsList(s), IsList(t), IsList(u)
    PROVE  (s \o t) \o u = s \o (t \o u)
<1>1. PICK S : s \in Seq(S) /\ t \in Seq(S)
  BY Common
<1>2. PICK T : u \in Seq(T)
  BY DEF IsList
<1>3. S \subseteq S \cup T /\ T \subseteq S \cup T
  OBVIOUS
<1>4. PICK U : s \in Seq(U) /\ t \in Seq(U) /\ u \in Seq(U)
  BY <1>1, <1>2, <1>3, SeqMonotonic
<1> QED BY <1>4, ConcatAssociative

\* What was encoded is received.
LEMMA ReceivedEncoded ==
    ASSUME NEW type \in Nat, NEW payload, IsList(payload), IsError(type) => payload = <<>>
    PROVE  /\ IsList(Encode(Packet(type, payload)))
           /\ Received(Encode(Packet(type, payload))) =
                  [packets |-> IF IsReply(type) THEN <<Packet(type, payload)>> ELSE <<>>,
                   rest |-> <<>>]
<1>1. PICK S : payload \in Seq(S)
  BY DEF IsList
<1>2. PICK bytes : bytes = Encode(Packet(type, payload))
  OBVIOUS
<1>3. PICK size \in Nat : size = Len(payload)
  BY <1>1, LenProperties
<1>4. PICK low, high \in Nat : /\ low = size % 256 /\ high = size \div 256
                               /\ size = low + 256 * high
  OBVIOUS
<1> DEFINE head == <<Plain(type), Plain(low), Plain(high)>>
           T == S \cup {Plain(type), Plain(low), Plain(high)}
<1>5. Packet(type, payload).type = type /\ Packet(type, payload).payload = payload
  BY DEF Packet
<1>6. Received(<<>>) = [packets |-> <<>>, rest |-> <<>>]
  <2>1. <<>> \in Seq({}) /\ Len(<<>>) = 0
    OBVIOUS
  <2>2. ~ Starts(<<>>)
    BY <2>1 DEF Starts, StartsWithError, StartsWithPacket
  <2> QED BY <2>1, <2>2, ReceivedIs
<1>7. ASSUME bytes \in Seq(T), Starts(bytes), FirstLength(bytes) = Len(bytes),
             First(bytes) = Packet(type, payload), bytes[1].of = type
      PROVE  /\ IsList(bytes)
             /\ Received(bytes) = [packets |-> IF IsReply(type) THEN <<Packet(type, payload)>> ELSE <<>>,
                                   rest |-> <<>>]
  <2>1. RestOf(bytes) = <<>>
    <3>1. Len(bytes) \in Nat
      BY <1>7, LenProperties
    <3>2. Len(bytes) + 1 \in Int /\ Len(bytes) \in Int /\ Len(bytes) < Len(bytes) + 1
      BY <3>1
    <3> QED BY <1>7, <3>2, SubSeqEmpty DEF RestOf, From
  <2>2. FirstReply(bytes) \in {<<>>, <<Packet(type, payload)>>}
        /\ FirstReply(bytes) = IF IsReply(type) THEN <<Packet(type, payload)>> ELSE <<>>
    BY <1>7 DEF FirstReply
  <2>3. FirstReply(bytes) \o <<>> = FirstReply(bytes)
    <3>1. FirstReply(bytes) \in Seq({Packet(type, payload)})
      BY <2>2
    <3> QED BY <3>1, ConcatEmptySeq
  <2>4. Received(bytes) = [packets |-> FirstReply(bytes) \o Received(<<>>).packets,
                           rest |-> Received(<<>>).rest]
    BY <1>7, <2>1, ReceivedIs
  <2>5. Received(bytes) = [packets |-> FirstReply(bytes), rest |-> <<>>]
    <3>1. Received(<<>>).packets = <<>> /\ Received(<<>>).rest = <<>>
      BY <1>6
    <3> QED BY <2>3, <2>4, <3>1
  <2>6. IsList(bytes)
    BY <1>7 DEF IsList
  <2> QED BY <2>2, <2>5, <2>6
<1>8. CASE IsError(type)
  <2>1. bytes = <<Plain(type)>> /\ payload = <<>>
    BY <1>2, <1>5, <1>8 DEF Encode
  <2>2. Len(bytes) = 1 /\ bytes[1].of = type /\ bytes \in Seq(T)
    BY <2>1 DEF Plain
  <2>3. StartsWithError(bytes)
    BY <1>8, <2>2 DEF StartsWithError
  <2>4. Starts(bytes) /\ FirstLength(bytes) = 1 /\ First(bytes) = Packet(type, payload)
    BY <2>1, <2>2, <2>3 DEF Starts, FirstLength, First
  <2> HIDE DEF T
  <2> QED BY <1>2, <1>7, <2>2, <2>4
<1>9. CASE ~ IsError(type)
  <2>1. bytes = head \o payload
    BY <1>2, <1>3, <1>4, <1>5, <1>9 DEF Encode
  <2>2. head \in Seq(T) /\ Len(head) = 3 /\ payload \in Seq(T)
    <3>1. S \subseteq T
      OBVIOUS
    <3>2. payload \in Seq(T)
      <4> HIDE DEF T
      <4> QED BY <1>1, <3>1, SeqMonotonic
    <3> QED BY <3>2
  <2>3. /\ bytes \in Seq(T) /\ Len(bytes) = 3 + size
        /\ \A k \in 1..3 : bytes[k] = head[k]
        /\ \A k \in 1..size : bytes[3 + k] = payload[k]
    <3> HIDE DEF T, head
    <3>1. /\ bytes \in Seq(T) /\ Len(bytes) = 3 + size
          /\ \A k \in 1..3 + size : bytes[k] = IF k <= 3 THEN head[k] ELSE payload[k - 3]
      <4>1. PICK h : h = head
        OBVIOUS
      <4>2. h \in Seq(T) /\ Len(h) = 3 /\ payload \in Seq(T) /\ bytes = h \o payload
        BY <2>1, <2>2, <4>1
      <4>3. /\ h \o payload \in Seq(T) /\ Len(h \o payload) = Len(h) + Len(payload)
            /\ \A k \in 1..Len(h) + Len(payload) :
                   (h \o payload)[k] = IF k <= Len(h) THEN h[k] ELSE payload[k - Len(h)]
        BY <4>2, ConcatProperties
      <4> QED BY <1>3, <4>1, <4>2, <4>3
    <3>2. ASSUME NEW k \in 1..size PROVE bytes[3 + k] = payload[k]
      <4>1. 3 + k \in 1..3 + size /\ ~ (3 + k <= 3) /\ (3 + k) - 3 = k
        BY <1>3
      <4> QED BY <3>1, <4>1
    <3>3. \A k \in 1..3 : k \in 1..3 + size /\ k <= 3
      BY <1>3
    <3> QED BY <3>1, <3>2, <3>3
  <2>4. bytes[1] = Plain(type) /\ bytes[1 + 1] = Plain(low) /\ bytes[1 + 2] = Plain(high)
    BY <2>3
  <2>5. bytes[1].of = type /\ Size(bytes, 1) = size
    BY <1>4, <2>4 DEF Plain, Size
  <2>6. ~ StartsWithError(bytes) /\ Starts(bytes) /\ FirstLength(bytes) = 3 + size
    <3>1. ~ StartsWithError(bytes)
      BY <1>9, <2>5 DEF StartsWithError
    <3>2. 3 <= Len(bytes) /\ size \in 0..Len(bytes) - 1 - 2
      BY <2>3
    <3> QED BY <2>5, <3>1, <3>2 DEF Starts, StartsWithPacket, IsWhole, FirstLength
  <2>7. SubSeq(bytes, 4, 3 + size) = payload
    <3>1. PICK s : s = SubSeq(bytes, 4, 3 + size)
      OBVIOUS
    <3>2. \A k \in 4..3 + size : bytes[k] \in T
      <4> HIDE DEF T
      <4>1. \A k \in 4..3 + size : k \in 1..Len(bytes)
        BY <2>3
      <4> QED BY <2>3, <4>1, ElementOfSeq
    <3>3. s \in Seq(T) /\ Len(s) = (IF 4 <= 3 + size THEN (3 + size) - 4 + 1 ELSE 0)
          /\ \A k \in 1..(3 + size) - 4 + 1 : s[k] = bytes[4 + k - 1]
      <4> HIDE DEF T
      <4>1. 4 \in Int /\ 3 + size \in Int
        OBVIOUS
      <4> QED BY <3>1, <3>2, <4>1, SubSeqProperties
    <3>4. Len(s) = size /\ \A k \in 1..size : s[k] = payload[k]
      <4>1. Len(s) = size /\ (3 + size) - 4 + 1 = size
        BY <3>3
      <4>2. ASSUME NEW k \in 1..size PROVE s[k] = payload[k]
        <5>1. 4 + k - 1 = 3 + k
          OBVIOUS
        <5> QED BY <2>3, <3>3, <4>1, <5>1
      <4> QED BY <4>1, <4>2
    <3>5. s = payload
      <4> HIDE DEF T
      <4> QED BY <1>3, <2>2, <3>3, <3>4, SeqEqual
    <3> QED BY <3>1, <3>5
  <2>8. First(bytes) = Packet(type, payload)
    BY <2>5, <2>6, <2>7 DEF First
  <2> HIDE DEF T
  <2> QED BY <1>2, <1>7, <2>3, <2>5, <2>6, <2>8
<1> QED BY <1>8, <1>9

\* Bytes that end with a whole packet.
LEMMA ReceivedOneMore ==
    ASSUME NEW stream, IsList(stream), Received(stream).rest = <<>>,
           NEW type \in Nat, NEW payload, IsList(payload), IsError(type) => payload = <<>>
    PROVE  /\ Received(stream \o Encode(Packet(type, payload))).rest = <<>>
           /\ Received(stream \o Encode(Packet(type, payload))).packets
                = Received(stream).packets \o (IF IsReply(type) THEN <<Packet(type, payload)>> ELSE <<>>)
<1>1. PICK more : more = Encode(Packet(type, payload))
  OBVIOUS
<1>2. IsList(more) /\ Received(more) =
                  [packets |-> IF IsReply(type) THEN <<Packet(type, payload)>> ELSE <<>>,
                   rest |-> <<>>]
  BY <1>1, ReceivedEncoded
<1>3. PICK S : stream \in Seq(S) /\ more \in Seq(S)
  BY <1>2, Common
<1>4. <<>> \o more = more
  BY <1>3, ConcatEmptySeq
<1>5. /\ Received(stream \o more).packets
           = Received(stream).packets \o Received(Received(stream).rest \o more).packets
      /\ Received(stream \o more).rest = Received(Received(stream).rest \o more).rest
  BY <1>3, ReceivedInParts
<1>6. PICK last : last = IF IsReply(type) THEN <<Packet(type, payload)>> ELSE <<>>
  OBVIOUS
<1>7. Received(more).packets = last /\ Received(more).rest = <<>>
  BY <1>2, <1>6
<1>8. /\ Received(stream \o more).packets = Received(stream).packets \o last
      /\ Received(stream \o more).rest = <<>>
  BY <1>4, <1>5, <1>7
<1> QED BY <1>1, <1>6, <1>8

-----------------------------------------------------------------------------
(* What is on its way                                                      *)

Lists ==
    /\ IsList(buffer) /\ IsList(notified)
    /\ IsList(packets) /\ IsList(taken) /\ IsList(sent)

Coming == Received(buffer \o notified)

LEMMA OfSent ==
    ASSUME Lists, RestIsComing
    PROVE  \E S : /\ taken \in Seq(S) /\ packets \in Seq(S) /\ Coming.packets \in Seq(S)
                  /\ sent \in Seq(S) /\ taken \o packets \in Seq(S)
                  /\ sent = (taken \o packets) \o Coming.packets
<1>1. IsList(buffer \o notified)
  BY ListsJoined DEF Lists
<1>2. IsList(Coming.packets)
  BY <1>1, ReceivedType DEF Coming, IsList
<1>3. IsList(taken \o packets)
  BY ListsJoined DEF Lists
<1>4. PICK S : Coming.packets \in Seq(S)
  BY <1>2 DEF IsList
<1>5. PICK T : taken \in Seq(T) /\ packets \in Seq(T)
  BY Common DEF Lists
<1>6. S \subseteq S \cup T /\ T \subseteq S \cup T
  OBVIOUS
<1>7. /\ taken \in Seq(S \cup T) /\ packets \in Seq(S \cup T) /\ Coming.packets \in Seq(S \cup T)
      /\ taken \o packets \in Seq(S \cup T)
  BY <1>4, <1>5, <1>6, SeqMonotonic, ConcatProperties
<1>8. sent = (taken \o packets) \o Coming.packets
  BY DEF RestIsComing, Coming
<1>9. sent \in Seq(S \cup T)
  BY <1>7, <1>8, ConcatProperties
<1> QED BY <1>7, <1>8, <1>9

\* The lock sends a packet.
LEMMA SendsStep ==
    ASSUME Lists, RestIsComing, NEW type \in Nat, NEW payload, IsList(payload),
           IsError(type) => payload = <<>>,
           Sends(Packet(type, payload))
    PROVE  Lists' /\ RestIsComing'
<1>1. PICK packet : packet = Packet(type, payload) /\ packet.type = type
  BY DEF Packet
<1>2. /\ notified' = notified \o Encode(packet)
      /\ sent' = IF type = EventPacket THEN sent ELSE Append(sent, packet)
      /\ UNCHANGED <<buffer, packets, taken>>
  BY <1>1 DEF Sends, session
<1>3. PICK stream : stream = buffer \o notified /\ IsList(stream)
  BY ListsJoined DEF Lists
<1>4. Received(stream).rest = <<>>
  BY <1>3 DEF RestIsComing
<1>5. PICK last : last = IF IsReply(type) THEN <<packet>> ELSE <<>>
  OBVIOUS
<1>6. /\ Received(stream \o Encode(packet)).rest = <<>>
      /\ Received(stream \o Encode(packet)).packets = Received(stream).packets \o last
  BY <1>1, <1>3, <1>4, <1>5, ReceivedOneMore
<1>7. buffer' \o notified' = stream \o Encode(packet)
  <2>1. IsList(Encode(packet))
    BY <1>1, ReceivedEncoded
  <2>2. PICK S : buffer \in Seq(S) /\ notified \in Seq(S)
    BY Common DEF Lists
  <2>3. PICK T : Encode(packet) \in Seq(T)
    BY <2>1 DEF IsList
  <2>4. S \subseteq S \cup T /\ T \subseteq S \cup T
    OBVIOUS
  <2>5. buffer \in Seq(S \cup T) /\ notified \in Seq(S \cup T) /\ Encode(packet) \in Seq(S \cup T)
    BY <2>2, <2>3, <2>4, SeqMonotonic
  <2> QED BY <1>2, <1>3, <2>5, ConcatAssociative
<1>8. PICK S : /\ taken \in Seq(S) /\ packets \in Seq(S) /\ Coming.packets \in Seq(S)
               /\ sent \in Seq(S) /\ taken \o packets \in Seq(S)
               /\ sent = (taken \o packets) \o Coming.packets
  BY OfSent
<1> DEFINE T == S \cup {packet}
<1>9. /\ taken \o packets \in Seq(T) /\ Coming.packets \in Seq(T) /\ sent \in Seq(T)
      /\ packet \in T
  <2>1. S \subseteq T /\ packet \in T
    OBVIOUS
  <2> HIDE DEF T
  <2> QED BY <1>8, <2>1, SeqMonotonic
<1>10. sent' = sent \o last /\ last \in Seq(T)
  <2>1. IsReply(type) <=> type # EventPacket
    BY DEF IsReply
  <2>2. CASE IsReply(type)
    <3>1. Append(sent, packet) = sent \o <<packet>>
      <4> HIDE DEF T
      <4> QED BY <1>9, AppendIsConcat
    <3> QED BY <1>2, <1>5, <2>1, <2>2, <3>1
  <2>3. CASE ~ IsReply(type)
    <3>1. sent \o <<>> = sent
      BY <1>8, ConcatEmptySeq
    <3>2. sent' = sent /\ last = <<>>
      BY <1>2, <1>5, <2>1, <2>3
    <3> QED BY <3>1, <3>2
  <2> QED BY <2>2, <2>3
<1>11. sent' = (taken \o packets) \o (Coming.packets \o last)
  <2> HIDE DEF T
  <2>1. ((taken \o packets) \o Coming.packets) \o last = (taken \o packets) \o (Coming.packets \o last)
    <3>1. IsList(taken \o packets) /\ IsList(Coming.packets) /\ IsList(last)
      BY <1>9, <1>10 DEF IsList
    <3>2. PICK front, coming : front = taken \o packets /\ coming = Coming.packets
      OBVIOUS
    <3>3. IsList(front) /\ IsList(coming) /\ IsList(last)
      BY <3>1, <3>2
    <3>4. (front \o coming) \o last = front \o (coming \o last)
      BY <3>3, ListsAssociate
    <3> QED BY <3>2, <3>4
  <2> QED BY <1>8, <1>10, <2>1
<1>12. RestIsComing'
  <2>1. Received(buffer' \o notified').rest = <<>>
    BY <1>6, <1>7
  <2>2. Received(buffer' \o notified').packets = Coming.packets \o last
    BY <1>3, <1>6, <1>7 DEF Coming
  <2> QED BY <1>2, <1>11, <2>1, <2>2 DEF RestIsComing
<1>13. Lists'
  <2>1. IsList(notified')
    BY <1>1, <1>2, ReceivedEncoded, ListsJoined DEF Lists
  <2>2. IsList(sent')
    <3> HIDE DEF T
    <3> QED BY <1>9, <1>10, ConcatProperties DEF IsList
  <2> QED BY <1>2, <2>1, <2>2 DEF Lists
<1> QED BY <1>12, <1>13

\* The client receives some of the bytes.
LEMMA ReceivesStep ==
    ASSUME Lists, RestIsComing, DataReceived
    PROVE  /\ Lists' /\ RestIsComing'
           /\ Received(buffer') = [packets |-> <<>>, rest |-> buffer']
<1>1. PICK n \in 1..Len(notified) :
          LET received == Received(buffer \o SubSeq(notified, 1, n))
          IN  /\ buffer' = received.rest
              /\ packets' = packets \o received.packets
              /\ notified' = SubSeq(notified, n + 1, Len(notified))
  BY DEF DataReceived
<1>2. UNCHANGED <<taken, sent>>
  BY DEF DataReceived
<1>3. PICK S : buffer \in Seq(S) /\ notified \in Seq(S)
  BY Common DEF Lists
<1>4. PICK came, rest : came = SubSeq(notified, 1, n) /\ rest = notified'
  OBVIOUS
<1>5. came \in Seq(S) /\ rest \in Seq(S) /\ came \o rest = notified
  <2>1. Len(notified) \in Nat /\ \A k \in 1..Len(notified) : notified[k] \in S
    BY <1>3, LenProperties, ElementOfSeq
  <2>2. came \in Seq(S)
    <3>1. (\A k \in 1..n : notified[k] \in S) /\ 1 \in Int /\ n \in Int
      BY <2>1
    <3> QED BY <1>4, <3>1, SubSeqProperties
  <2>3. rest \in Seq(S)
    <3>1. (\A k \in n + 1..Len(notified) : notified[k] \in S) /\ n + 1 \in Int /\ Len(notified) \in Int
      BY <2>1
    <3> QED BY <1>1, <1>4, <3>1, SubSeqProperties
  <2>4. 1 \in 1..Len(notified) + 1 /\ n \in 1 - 1..Len(notified) /\ Len(notified) \in n..Len(notified)
    BY <2>1
  <2>5. came \o rest = SubSeq(notified, 1, Len(notified))
    BY <1>1, <1>3, <1>4, <2>4, ConcatAdjacentSubSeq
  <2> QED BY <1>3, <2>2, <2>3, <2>5, SubSeqFull
<1>6. PICK a : a = buffer \o came /\ a \in Seq(S)
  BY <1>3, <1>5, ConcatProperties
<1>7. buffer' = Received(a).rest /\ packets' = packets \o Received(a).packets
  BY <1>1, <1>4, <1>6
<1>8. a \o rest = buffer \o notified
  <2>1. (buffer \o came) \o rest = buffer \o (came \o rest)
    <3>1. IsList(buffer) /\ IsList(came) /\ IsList(rest)
      BY <1>3, <1>5 DEF IsList
    <3> QED BY <3>1, ListsAssociate
  <2> QED BY <1>5, <1>6, <2>1
<1>9. /\ Received(a).packets \in Seq(RepliesOf(S)) /\ buffer' \in Seq(S) /\ ~ Starts(buffer')
  BY <1>6, <1>7, ReceivedType
<1>10. /\ Coming.packets = Received(a).packets \o Received(buffer' \o rest).packets
       /\ Coming.rest = Received(buffer' \o rest).rest
  BY <1>5, <1>6, <1>7, <1>8, ReceivedInParts DEF Coming
<1>11. buffer' \o rest \in Seq(S)
  BY <1>5, <1>9, ConcatProperties
<1>12. PICK q : q = Received(buffer' \o rest).packets /\ q \in Seq(RepliesOf(S))
  BY <1>11, ReceivedType
<1>13. sent = (taken \o (packets \o Received(a).packets)) \o q
  <2>1. PICK p : p = Received(a).packets
    OBVIOUS
  <2>2. IsList(taken) /\ IsList(packets) /\ IsList(p) /\ IsList(q) /\ IsList(taken \o packets)
    BY <1>9, <1>12, <2>1, ListsJoined DEF Lists, IsList
  <2>3. sent = (taken \o packets) \o (p \o q)
    BY <1>10, <1>12, <2>1 DEF RestIsComing, Coming
  <2>4. ((taken \o packets) \o p) \o q = (taken \o packets) \o (p \o q)
    <3>1. PICK front : front = taken \o packets /\ IsList(front)
      BY <2>2
    <3>2. IsList(front) /\ IsList(p) /\ IsList(q)
      BY <2>2, <3>1
    <3>3. (front \o p) \o q = front \o (p \o q)
      BY <3>2, ListsAssociate
    <3> QED BY <3>1, <3>3
  <2>5. (taken \o packets) \o p = taken \o (packets \o p)
    BY <2>2, ListsAssociate
  <2> QED BY <2>1, <2>3, <2>4, <2>5
<1>14. RestIsComing'
  <2>1. Received(buffer' \o notified').rest = <<>>
    BY <1>4, <1>10 DEF RestIsComing, Coming
  <2>2. sent' = (taken' \o packets') \o Received(buffer' \o notified').packets
    BY <1>2, <1>4, <1>7, <1>12, <1>13
  <2> QED BY <2>1, <2>2 DEF RestIsComing
<1>15. Lists'
  <2>1. IsList(packets')
    <3>1. IsList(Received(a).packets)
      BY <1>9 DEF IsList
    <3> QED BY <1>7, <3>1, ListsJoined DEF Lists
  <2>2. IsList(buffer') /\ IsList(notified')
    BY <1>4, <1>5, <1>9 DEF IsList
  <2> QED BY <1>2, <2>1, <2>2 DEF Lists
<1>16. Received(buffer') = [packets |-> <<>>, rest |-> buffer']
  BY <1>9, ReceivedIs
<1> QED BY <1>14, <1>15, <1>16

\* The client takes the next packet for a reply.
LEMMA TakesStep ==
    ASSUME Lists, RestIsComing,
           packets # <<>>, packets' = Tail(packets), taken' = Append(taken, Head(packets)),
           UNCHANGED <<buffer, notified, sent>>
    PROVE  Lists' /\ RestIsComing'
<1>1. PICK S : /\ taken \in Seq(S) /\ packets \in Seq(S) /\ Coming.packets \in Seq(S)
               /\ sent = (taken \o packets) \o Coming.packets
  BY OfSent
<1>2. /\ Head(packets) \in S /\ Tail(packets) \in Seq(S)
      /\ packets = <<Head(packets)>> \o Tail(packets)
      /\ <<Head(packets)>> \in Seq(S)
  <2>1. Head(packets) \in S /\ Tail(packets) \in Seq(S) /\ Len(Tail(packets)) = Len(packets) - 1
        /\ Len(packets) \in Nat
        /\ \A i \in 1..Len(Tail(packets)) : Tail(packets)[i] = packets[i + 1]
    BY <1>1, HeadTailProperties, LenProperties
  <2>2. PICK s : s = <<Head(packets)>> \o Tail(packets)
    OBVIOUS
  <2>3. <<Head(packets)>> \in Seq(S) /\ Len(<<Head(packets)>>) = 1 /\ <<Head(packets)>>[1] = Head(packets)
    BY <2>1
  <2>4. s \in Seq(S) /\ Len(s) = Len(packets)
        /\ \A i \in 1..Len(packets) : s[i] = IF i <= 1 THEN <<Head(packets)>>[i] ELSE Tail(packets)[i - 1]
    <3>1. 1 + (Len(packets) - 1) = Len(packets)
      BY <2>1
    <3> QED BY <2>1, <2>2, <2>3, <3>1, ConcatProperties
  <2>5. Head(packets) = packets[1]
    BY <1>1
  <2>6. ASSUME NEW i \in 1..Len(packets) PROVE s[i] = packets[i]
    <3>1. CASE i = 1
      BY <2>3, <2>4, <2>5, <3>1
    <3>2. CASE i # 1
      <4>1. i - 1 \in 1..Len(Tail(packets)) /\ (i - 1) + 1 = i /\ ~ (i <= 1)
        BY <2>1, <3>2
      <4> QED BY <2>1, <2>4, <4>1
    <3> QED BY <3>1, <3>2
  <2>7. s = packets
    BY <1>1, <2>4, <2>6, SeqEqual
  <2> QED BY <2>1, <2>2, <2>3, <2>7
<1>3. taken' = taken \o <<Head(packets)>>
  BY <1>1, <1>2, AppendIsConcat
<1>4. taken' \o packets' = taken \o packets
  <2>1. (taken \o <<Head(packets)>>) \o Tail(packets) = taken \o (<<Head(packets)>> \o Tail(packets))
    BY <1>1, <1>2, ConcatAssociative
  <2> QED BY <1>2, <1>3, <2>1
<1>5. RestIsComing'
  BY <1>4 DEF RestIsComing
<1>6. Lists'
  BY <1>1, <1>2, <1>3, ConcatProperties DEF Lists, IsList
<1> QED BY <1>5, <1>6

\* The packet that is next was sent after those taken.
LEMMA NextReply ==
    ASSUME Lists, RestIsComing, packets # <<>>
    PROVE  /\ Len(taken) \in Nat /\ Len(sent) \in Nat /\ Len(taken) + 1 \in 1..Len(sent)
           /\ Head(packets) = sent[Len(taken) + 1]
           /\ Len(Append(taken, Head(packets))) = Len(taken) + 1
<1>1. PICK S : /\ taken \in Seq(S) /\ packets \in Seq(S) /\ Coming.packets \in Seq(S)
               /\ sent \in Seq(S) /\ taken \o packets \in Seq(S)
               /\ sent = (taken \o packets) \o Coming.packets
  BY OfSent
<1>2. PICK front, coming : front = taken \o packets /\ coming = Coming.packets
  OBVIOUS
<1>3. Len(taken) \in Nat /\ Len(packets) \in Nat /\ Len(packets) >= 1 /\ Len(coming) \in Nat /\ Len(sent) \in Nat
  <2>1. Len(taken) \in Nat /\ Len(packets) \in Nat /\ Len(coming) \in Nat /\ Len(sent) \in Nat
    BY <1>1, <1>2, LenProperties
  <2>2. Len(packets) # 0
    BY <1>1, EmptySeq
  <2> QED BY <2>1, <2>2
<1>4. Len(front) = Len(taken) + Len(packets) /\ front[Len(taken) + 1] = packets[1]
  <2>1. Len(taken) + 1 \in 1..Len(taken) + Len(packets) /\ ~ (Len(taken) + 1 <= Len(taken))
        /\ (Len(taken) + 1) - Len(taken) = 1
    BY <1>3
  <2> QED BY <1>1, <1>2, <2>1, ConcatProperties
<1>5. Len(sent) = Len(front) + Len(coming) /\ sent[Len(taken) + 1] = front[Len(taken) + 1]
  <2>1. Len(taken) + 1 \in 1..Len(front) + Len(coming) /\ Len(taken) + 1 <= Len(front)
    BY <1>3, <1>4
  <2>2. front \in Seq(S) /\ coming \in Seq(S) /\ sent = front \o coming
    BY <1>1, <1>2
  <2> QED BY <2>1, <2>2, ConcatProperties
<1>6. Head(packets) = packets[1] /\ Head(packets) \in S
  BY <1>1, HeadTailProperties
<1>7. Len(Append(taken, Head(packets))) = Len(taken) + 1
  BY <1>1, <1>6, AppendProperties
<1> QED BY <1>3, <1>4, <1>5, <1>6, <1>7

\* One more packet sent.
LEMMA OneMoreSent ==
    ASSUME Lists, NEW packet, sent' = Append(sent, packet)
    PROVE  /\ Len(sent) \in Nat /\ Len(sent') = Len(sent) + 1
           /\ \A i \in 1..Len(sent) : sent'[i] = sent[i]
           /\ sent'[Len(sent) + 1] = packet /\ Last(sent') = packet
<1>1. PICK S : sent \in Seq(S)
  BY DEF Lists, IsList
<1>2. PICK T : T = S \cup {packet}
  OBVIOUS
<1>3. sent \in Seq(T) /\ packet \in T
  BY <1>1, <1>2, SeqMonotonic
<1> QED BY <1>3, AppendProperties, LenProperties DEF Last

LEMMA TakenOfSent ==
    ASSUME Lists, RestIsComing
    PROVE  Len(taken) \in Nat /\ Len(sent) \in Nat /\ Len(taken) <= Len(sent)
           /\ (sent = <<>> => taken = <<>> /\ packets = <<>>)
<1>1. PICK S : /\ taken \in Seq(S) /\ packets \in Seq(S) /\ Coming.packets \in Seq(S)
               /\ sent \in Seq(S) /\ taken \o packets \in Seq(S)
               /\ sent = (taken \o packets) \o Coming.packets
  BY OfSent
<1>2. PICK front, coming : front = taken \o packets /\ coming = Coming.packets
  OBVIOUS
<1>3. Len(taken) \in Nat /\ Len(packets) \in Nat /\ Len(coming) \in Nat /\ Len(sent) \in Nat
  BY <1>1, <1>2, LenProperties
<1>4. Len(front) = Len(taken) + Len(packets) /\ Len(sent) = Len(front) + Len(coming)
  <2>1. front \in Seq(S) /\ coming \in Seq(S) /\ sent = front \o coming
    BY <1>1, <1>2
  <2> QED BY <1>1, <1>2, <2>1, ConcatProperties
<1>5. sent = <<>> => Len(taken) = 0 /\ Len(packets) = 0
  BY <1>3, <1>4
<1> QED BY <1>1, <1>3, <1>4, <1>5, EmptySeq

-----------------------------------------------------------------------------
(* Ciphers                                                                 *)

IsByte(byte) == byte = [of |-> byte.of, by |-> byte.by]

LEMMA PlainIsByte == ASSUME NEW value PROVE IsByte(Plain(value))
BY DEF IsByte, Plain

LEMMA XorIs ==
    ASSUME NEW byte, IsByte(byte), NEW stream
    PROVE  /\ IsByte(Xor(byte, stream))
           /\ Xor(byte, stream).of = byte.of
           /\ \A s : s # stream => (s \in Xor(byte, stream).by <=> s \in byte.by)
           /\ stream \in Xor(byte, stream).by <=> stream \notin byte.by
<1>1. Xor(byte, stream) =
        [of |-> byte.of, by |-> IF stream \in byte.by THEN byte.by \ {stream} ELSE byte.by \cup {stream}]
  BY DEF Xor, IsByte
<1> QED BY <1>1 DEF IsByte

LEMMA XorTwice ==
    ASSUME NEW byte, IsByte(byte), NEW stream
    PROVE  Xor(Xor(byte, stream), stream) = byte
<1>1. PICK once, twice : once = Xor(byte, stream) /\ twice = Xor(once, stream)
  OBVIOUS
<1>2. IsByte(once) /\ IsByte(twice) /\ twice.of = byte.of
  BY <1>1, XorIs
<1>3. ASSUME NEW s PROVE s \in twice.by <=> s \in byte.by
  BY <1>1, <1>2, XorIs
<1>4. twice.by = byte.by
  <2>1. once.by = IF stream \in byte.by THEN byte.by \ {stream} ELSE byte.by \cup {stream}
    BY <1>1 DEF Xor, IsByte
  <2>2. twice.by = IF stream \in once.by THEN once.by \ {stream} ELSE once.by \cup {stream}
    BY <1>1, <1>2 DEF Xor, IsByte
  <2> QED BY <2>1, <2>2
<1> QED BY <1>1, <1>2, <1>4 DEF IsByte

Stream(c, i) == <<c.key, (c.counter % 256) * BlockSize + i>>

\* Encrypted, bytes are as many bytes,
LEMMA ProcessIs ==
    ASSUME NEW c, NEW S, NEW bytes \in Seq(S), \A i \in 1..Len(bytes) : IsByte(bytes[i])
    PROVE  /\ IsList(Process(c, bytes)) /\ Len(Process(c, bytes)) = Len(bytes)
           /\ \A i \in 1..Len(bytes) :
                  /\ Process(c, bytes)[i] = Xor(bytes[i], Stream(c, i))
                  /\ IsByte(Process(c, bytes)[i])
<1>1. Len(bytes) \in Nat
  BY LenProperties
<1>2. PICK f : f = Process(c, bytes)
  OBVIOUS
<1>3. f = [i \in 1..Len(bytes) |-> Xor(bytes[i], Stream(c, i))]
  BY <1>2 DEF Process, Stream
<1>4. PICK T : T = {Xor(bytes[i], Stream(c, i)) : i \in 1..Len(bytes)}
  OBVIOUS
<1>5. f \in [1..Len(bytes) -> T]
  BY <1>3, <1>4
<1>6. f \in Seq(T) /\ Len(f) = Len(bytes)
  BY <1>1, <1>5
<1>7. \A i \in 1..Len(bytes) : f[i] = Xor(bytes[i], Stream(c, i)) /\ IsByte(f[i])
  BY <1>3, XorIs
<1> QED BY <1>2, <1>6, <1>7 DEF IsList

\* and encrypted twice, what they were.
LEMMA ProcessTwice ==
    ASSUME NEW c, NEW S, NEW bytes \in Seq(S), \A i \in 1..Len(bytes) : IsByte(bytes[i])
    PROVE  Process(c, Process(c, bytes)) = bytes
<1>1. PICK once : once = Process(c, bytes)
  OBVIOUS
<1>2. /\ IsList(once) /\ Len(once) = Len(bytes) /\ Len(bytes) \in Nat
      /\ \A i \in 1..Len(bytes) : once[i] = Xor(bytes[i], Stream(c, i)) /\ IsByte(once[i])
  BY <1>1, ProcessIs, LenProperties
<1>3. PICK T : once \in Seq(T)
  BY <1>2 DEF IsList
<1>4. PICK twice : twice = Process(c, once)
  OBVIOUS
<1>5. /\ IsList(twice) /\ Len(twice) = Len(bytes)
      /\ \A i \in 1..Len(bytes) : twice[i] = Xor(once[i], Stream(c, i))
  BY <1>2, <1>3, <1>4, ProcessIs
<1>6. \A i \in 1..Len(bytes) : twice[i] = bytes[i]
  BY <1>2, <1>5, XorTwice
<1>7. PICK U : twice \in Seq(U) /\ bytes \in Seq(U)
  <2>1. IsList(bytes)
    BY DEF IsList
  <2> QED BY <1>5, <2>1, Common
<1>8. twice = bytes
  BY <1>5, <1>6, <1>7, SeqEqual
<1> QED BY <1>1, <1>4, <1>8

LEMMA LessTimes ==
    ASSUME NEW m \in Int, NEW n \in Int, NEW b \in Nat, m <= n
    PROVE  m * b <= n * b
<1>1. PICK d \in Nat : n = m + d
  BY n - m \in Nat
<1>2. n * b = m * b + d * b /\ d * b \in Nat
  BY <1>1
<1>3. m * b \in Int /\ n * b \in Int
  OBVIOUS
<1> QED BY <1>2, <1>3

\* As many blocks as bytes take, and no fewer.
LEMMA BlocksAreEnough ==
    ASSUME NEW length \in Nat
    PROVE  /\ Blocks(length) \in 0..length
           /\ Blocks(length) * BlockSize >= length
           /\ (Blocks(length) - 1) * BlockSize < length \/ length = 0
<1>1. BlockSize \in Nat /\ BlockSize >= 1
  BY BlockSizeIsPositive
<1>2. PICK n \in Nat : n = length + BlockSize - 1
  BY <1>1
<1>3. PICK q, r : q = n \div BlockSize /\ r = n % BlockSize
  OBVIOUS
<1>4. q \in Nat /\ r \in 0..BlockSize - 1 /\ n = q * BlockSize + r
  BY <1>1, <1>3
<1>5. Blocks(length) = q
  BY <1>2, <1>3 DEF Blocks
<1>6. PICK p \in Int : p = q * BlockSize
  BY <1>1, <1>4
<1>7. p >= length
  BY <1>1, <1>2, <1>4, <1>6
<1>8. (q - 1) * BlockSize = p - BlockSize
  BY <1>1, <1>4, <1>6
<1>9. p - BlockSize < length
  BY <1>1, <1>2, <1>4, <1>6
<1>10. q <= length
  <2> SUFFICES ASSUME q >= length + 1 PROVE FALSE
    BY <1>4
  <2>1. (length + 1) * BlockSize <= q * BlockSize
    BY <1>1, <1>4, LessTimes
  <2>2. 1 * length <= BlockSize * length
    BY <1>1, LessTimes
  <2>3. (length + 1) * BlockSize = BlockSize * length + BlockSize /\ 1 * length = length
    BY <1>1
  <2>4. PICK k \in Int : k = BlockSize * length
    BY <1>1
  <2> QED BY <1>1, <1>6, <1>9, <2>1, <2>2, <2>3, <2>4
<1> QED BY <1>4, <1>5, <1>6, <1>7, <1>8, <1>9, <1>10

\* So both sides' ciphers go on at the same block.
LEMMA CiphersAgree ==
    ASSUME NEW c, NEW bytes, Len(bytes) \in Nat, c.counter \in Nat
    PROVE  LockAfter(c, bytes) = After(c, bytes)
<1>1. PICK first, length, b \in Nat : first = c.counter /\ length = Len(bytes) /\ b = BlockSize
  BY BlockSizeIsPositive
<1>2. PICK q \in 0..length : q = Blocks(length) /\ q * b >= length /\ ((q - 1) * b < length \/ length = 0)
  BY <1>1, BlocksAreEnough
<1>3. PICK all : all = {n \in first..first + length : n * b >= first * b + length}
  OBVIOUS
<1>4. first + q \in all
  <2>1. (first + q) * b = first * b + q * b
    BY <1>1, <1>2
  <2>2. first * b \in Nat /\ q * b \in Nat
    BY <1>1, <1>2
  <2>3. (first + q) * b >= first * b + length
    BY <1>1, <1>2, <2>1, <2>2
  <2>4. first + q \in first..first + length
    BY <1>1, <1>2
  <2> QED BY <1>3, <2>3, <2>4
<1>5. ASSUME NEW n \in all PROVE first + q <= n
  <2>1. n \in first..first + length /\ n * b >= first * b + length
    BY <1>3
  <2>2. CASE length = 0
    BY <1>1, <1>2, <2>1, <2>2
  <2>3. CASE length # 0
    <3> SUFFICES ASSUME n <= first + (q - 1) PROVE FALSE
      BY <1>1, <1>2, <2>1
    <3>1. n \in Int /\ first + (q - 1) \in Int
      BY <1>1, <1>2, <2>1
    <3>2. n * b <= (first + (q - 1)) * b
      BY <1>1, <3>1, LessTimes
    <3>3. (first + (q - 1)) * b = first * b + (q - 1) * b
      <4>1. PICK p \in Int : p = q - 1
        BY <1>2
      <4>2. (first + p) * b = first * b + p * b
        BY <1>1
      <4> QED BY <4>1, <4>2
    <3>4. PICK x, y, z \in Int : x = n * b /\ y = first * b /\ z = (q - 1) * b
      BY <1>1, <1>2, <3>1
    <3>5. x >= y + length /\ x <= y + z /\ z < length
      BY <1>2, <2>1, <2>3, <3>2, <3>3, <3>4
    <3> QED BY <1>1, <3>4, <3>5
  <2> QED BY <2>2, <2>3
<1>6. \A n \in all : n \in Int
  BY <1>3
<1>7. Min(all) = first + q
  <2>1. Min(all) \in all /\ \A n \in all : Min(all) <= n
    BY <1>4, <1>5 DEF Min
  <2> QED BY <1>4, <1>5, <1>6, <2>1
<1>8. LockAfter(c, bytes) = [c EXCEPT !.counter = Min(all)]
  BY <1>1, <1>3 DEF LockAfter
<1>9. After(c, bytes) = [c EXCEPT !.counter = first + q]
  BY <1>1, <1>2 DEF After
<1> QED BY <1>7, <1>8, <1>9

-----------------------------------------------------------------------------
(* What the two sides say                                                  *)

IsBytes(bytes) == IsList(bytes) /\ \A i \in 1..Len(bytes) : IsByte(bytes[i])

LEMMA ProcessBytes ==
    ASSUME NEW c, NEW bytes, IsBytes(bytes)
    PROVE  /\ IsBytes(Process(c, bytes))
           /\ Len(Process(c, bytes)) = Len(bytes) /\ Len(bytes) \in Nat
           /\ Process(c, Process(c, bytes)) = bytes
<1>1. PICK S : bytes \in Seq(S)
  BY DEF IsBytes, IsList
<1>2. \A i \in 1..Len(bytes) : IsByte(bytes[i])
  BY DEF IsBytes
<1>3. PICK once : once = Process(c, bytes)
  OBVIOUS
<1>4. /\ IsList(once) /\ Len(once) = Len(bytes)
      /\ \A i \in 1..Len(bytes) : IsByte(once[i])
  BY <1>1, <1>2, <1>3, ProcessIs
<1>5. Process(c, once) = bytes
  BY <1>1, <1>2, <1>3, ProcessTwice
<1>6. Len(bytes) \in Nat
  BY <1>1, LenProperties
<1> QED BY <1>3, <1>4, <1>5, <1>6 DEF IsBytes

\* Plain bytes, and those that a byte of a cipher is put before.
LEMMA ShortBytes ==
    /\ IsBytes(<<>>)
    /\ \A a : IsByte(a) => IsBytes(<<a>>)
    /\ \A a, b : IsByte(a) /\ IsByte(b) => IsBytes(<<a, b>>)
    /\ \A a, b, c : IsByte(a) /\ IsByte(b) /\ IsByte(c) => IsBytes(<<a, b, c>>)
    /\ \A a, b, c, d : IsByte(a) /\ IsByte(b) /\ IsByte(c) /\ IsByte(d) => IsBytes(<<a, b, c, d>>)
<1>1. IsBytes(<<>>)
  <2>1. <<>> \in Seq({}) /\ Len(<<>>) = 0
    OBVIOUS
  <2> QED BY <2>1 DEF IsBytes, IsList
<1>2. ASSUME NEW a, IsByte(a) PROVE IsBytes(<<a>>)
  <2>1. <<a>> \in Seq({a}) /\ Len(<<a>>) = 1 /\ <<a>>[1] = a
    OBVIOUS
  <2>2. \A i \in 1..1 : i = 1
    OBVIOUS
  <2> QED BY <1>2, <2>1, <2>2 DEF IsBytes, IsList
<1>3. ASSUME NEW a, NEW b, IsByte(a), IsByte(b) PROVE IsBytes(<<a, b>>)
  <2>1. <<a, b>> \in Seq({a, b}) /\ Len(<<a, b>>) = 2 /\ <<a, b>>[1] = a /\ <<a, b>>[2] = b
    OBVIOUS
  <2>2. \A i \in 1..2 : i = 1 \/ i = 2
    OBVIOUS
  <2> QED BY <1>3, <2>1, <2>2 DEF IsBytes, IsList
<1>4. ASSUME NEW a, NEW b, NEW c, IsByte(a), IsByte(b), IsByte(c) PROVE IsBytes(<<a, b, c>>)
  <2>1. /\ <<a, b, c>> \in Seq({a, b, c}) /\ Len(<<a, b, c>>) = 3
        /\ <<a, b, c>>[1] = a /\ <<a, b, c>>[2] = b /\ <<a, b, c>>[3] = c
    OBVIOUS
  <2>2. \A i \in 1..3 : i = 1 \/ i = 2 \/ i = 3
    OBVIOUS
  <2> QED BY <1>4, <2>1, <2>2 DEF IsBytes, IsList
<1>5. ASSUME NEW a, NEW b, NEW c, NEW d, IsByte(a), IsByte(b), IsByte(c), IsByte(d)
      PROVE  IsBytes(<<a, b, c, d>>)
  <2>1. /\ <<a, b, c, d>> \in Seq({a, b, c, d}) /\ Len(<<a, b, c, d>>) = 4
        /\ <<a, b, c, d>>[1] = a /\ <<a, b, c, d>>[2] = b
        /\ <<a, b, c, d>>[3] = c /\ <<a, b, c, d>>[4] = d
    OBVIOUS
  <2>2. \A i \in 1..4 : i = 1 \/ i = 2 \/ i = 3 \/ i = 4
    OBVIOUS
  <2> QED BY <1>5, <2>1, <2>2 DEF IsBytes, IsList
<1> QED BY <1>1, <1>2, <1>3, <1>4, <1>5

LEMMA ConfirmationIs ==
    /\ IsBytes(Confirmation) /\ Len(Confirmation) = 2 /\ IsBytes(TheCommand) /\ Len(TheCommand) = 3
BY PlainIsByte, ShortBytes DEF Confirmation, TheCommand

\* A byte is in the first block; a cipher's counter counts.
LEMMA OneBlock == Blocks(1) = 1
<1>1. Blocks(1) \in 0..1 /\ Blocks(1) * BlockSize >= 1
  BY BlocksAreEnough
<1>2. 0 * BlockSize = 0
  BY BlockSizeIsPositive
<1> QED BY <1>1, <1>2

LEMMA AfterIs ==
    ASSUME NEW c, c = [key |-> c.key, counter |-> c.counter], c.counter \in Nat,
           NEW bytes, Len(bytes) \in Nat
    PROVE  /\ LockAfter(c, bytes) = After(c, bytes)
           /\ After(c, bytes) = [key |-> c.key, counter |-> c.counter + Blocks(Len(bytes))]
           /\ After(c, bytes).counter \in Nat
<1>1. PICK length \in Nat : length = Len(bytes)
  OBVIOUS
<1>2. Blocks(length) \in Nat
  BY BlocksAreEnough
<1>3. After(c, bytes) = [key |-> c.key, counter |-> c.counter + Blocks(length)]
  BY <1>1 DEF After
<1>4. LockAfter(c, bytes) = After(c, bytes)
  BY CiphersAgree
<1> QED BY <1>1, <1>2, <1>3, <1>4

LEMMA CryptorIs ==
    ASSUME NEW k
    PROVE  /\ Cryptor(k) = [key |-> Cryptor(k).key, counter |-> Cryptor(k).counter]
           /\ Cryptor(k).key = k /\ Cryptor(k).counter = 0
           /\ Stream(Cryptor(k), 1) = <<k, 1>>
           /\ \A bytes : Len(bytes) = 1 =>
                  /\ LockAfter(Cryptor(k), bytes) = [key |-> k, counter |-> 1]
                  /\ After(Cryptor(k), bytes) = [key |-> k, counter |-> 1]
<1>1. Cryptor(k) = [key |-> k, counter |-> 0]
  BY DEF Cryptor
<1>2. Stream(Cryptor(k), 1) = <<k, 1>>
  <2>1. (0 % 256) * BlockSize + 1 = 1
    <3>1. 0 % 256 = 0 /\ 0 * BlockSize = 0
      BY BlockSizeIsPositive
    <3> QED BY <3>1
  <2> QED BY <1>1, <2>1 DEF Stream
<1>3. ASSUME NEW bytes, Len(bytes) = 1
      PROVE  /\ LockAfter(Cryptor(k), bytes) = [key |-> k, counter |-> 1]
             /\ After(Cryptor(k), bytes) = [key |-> k, counter |-> 1]
  <2>1. PICK c : c = Cryptor(k)
    OBVIOUS
  <2>2. c = [key |-> c.key, counter |-> c.counter] /\ c.key = k /\ c.counter = 0 /\ c.counter \in Nat
    BY <1>1, <2>1
  <2>3. Len(bytes) \in Nat /\ Blocks(Len(bytes)) = 1
    BY <1>3, OneBlock
  <2>4. /\ LockAfter(c, bytes) = After(c, bytes)
        /\ After(c, bytes) = [key |-> c.key, counter |-> c.counter + Blocks(Len(bytes))]
    BY <2>2, <2>3, AfterIs
  <2>5. c.counter + Blocks(Len(bytes)) = 1
    BY <2>2, <2>3
  <2> QED BY <2>1, <2>2, <2>4, <2>5
<1> QED BY <1>1, <1>2, <1>3

Later(k) == [key |-> k, counter |-> 1]

LEMMA LaterIs ==
    ASSUME NEW k
    PROVE  Stream(Later(k), 1) = <<k, BlockSize + 1>>
<1>1. (1 % 256) * BlockSize + 1 = BlockSize + 1
  <2>1. 1 % 256 = 1 /\ 1 * BlockSize = BlockSize
    BY BlockSizeIsPositive
  <2> QED BY <2>1
<1> QED BY <1>1 DEF Later, Stream

\* The client's answer to the lock's challenge.
LEMMA ResponseIs ==
    /\ IsBytes(Response) /\ Len(Response) = 2
    /\ Response[1] = Xor(Plain(Challenge), <<key, 1>>) /\ Response[2] = Plain(OurChallenge)
    /\ Says["finished"] = Packet(HandshakeClientResponse, Process(Later(key), Response))
<1>1. PICK ours : ours = Process(Cryptor(key), <<Plain(Challenge)>>)
  OBVIOUS
<1>2. PICK T : <<Plain(Challenge)>> \in Seq(T)
  BY ShortBytes, PlainIsByte DEF IsBytes, IsList
<1>3. /\ IsList(ours) /\ Len(ours) = 1 /\ ours[1] = Xor(Plain(Challenge), <<key, 1>>)
      /\ IsByte(ours[1])
  <2>1. Len(<<Plain(Challenge)>>) = 1 /\ <<Plain(Challenge)>>[1] = Plain(Challenge)
    OBVIOUS
  <2>2. \A i \in 1..1 : i = 1
    OBVIOUS
  <2>3. Stream(Cryptor(key), 1) = <<key, 1>>
    BY CryptorIs
  <2>4. PICK c, bytes : c = Cryptor(key) /\ bytes = <<Plain(Challenge)>>
    OBVIOUS
  <2>5. \A i \in 1..Len(bytes) : IsByte(bytes[i])
    BY <2>1, <2>2, <2>4, PlainIsByte
  <2>6. bytes \in Seq(T) /\ ours = Process(c, bytes) /\ Len(bytes) = 1 /\ 1 \in 1..Len(bytes)
    BY <1>1, <1>2, <2>1, <2>4
  <2>7. IsList(ours) /\ Len(ours) = 1 /\ ours[1] = Xor(bytes[1], Stream(c, 1)) /\ IsByte(ours[1])
    BY <2>5, <2>6, ProcessIs
  <2> QED BY <2>1, <2>3, <2>4, <2>7
<1>4. PICK S : ours \in Seq(S)
  BY <1>3 DEF IsList
<1>5. PICK U : U = S \cup {Plain(OurChallenge)}
  OBVIOUS
<1>6. ours \in Seq(U) /\ Plain(OurChallenge) \in U
  BY <1>4, <1>5, SeqMonotonic
<1>7. Response = Append(ours, Plain(OurChallenge))
  BY <1>1, <1>6, AppendIsConcat DEF Response
<1>8. /\ Response \in Seq(U) /\ Len(Response) = 2 /\ Response[1] = ours[1]
      /\ Response[2] = Plain(OurChallenge)
  <2>1. 1 \in 1..Len(ours) /\ Len(ours) + 1 = 2
    BY <1>3
  <2> QED BY <1>6, <1>7, <2>1, AppendProperties
<1>9. IsBytes(Response)
  <2>1. \A i \in 1..2 : i = 1 \/ i = 2
    OBVIOUS
  <2> QED BY <1>3, <1>8, <2>1, PlainIsByte DEF IsBytes, IsList
<1>10. Says["finished"] = Packet(HandshakeClientResponse, Process(Later(key), Response))
  <2>1. Says["finished"] = Packet(HandshakeClientResponse,
                                  Process(After(Cryptor(key), <<Plain(Challenge)>>), Response))
    BY DEF Says
  <2>2. After(Cryptor(key), <<Plain(Challenge)>>) = Later(key)
    BY CryptorIs DEF Later
  <2> QED BY <2>1, <2>2
<1> QED BY <1>3, <1>8, <1>9, <1>10

\* Both sides' ciphers, by the time of the command and of its acknowledgement.
LEMMA CommandCiphers ==
    /\ LockAfter(Cryptor(Response), Confirmation) = ForCommand
    /\ \A bytes : Len(bytes) = 3 => /\ LockAfter(ForCommand, bytes) = After(ForCommand, TheCommand)
                                    /\ LockAfter(ForCommand, bytes) = LockAfter(ForCommand, TheCommand)
    /\ After(ForCommand, TheCommand).counter # 0
    /\ \A bytes : Len(bytes) = 2 => After(Cryptor(Response), bytes) = ForCommand
<1>1. PICK c : c = Cryptor(Response)
  OBVIOUS
<1>2. c = [key |-> c.key, counter |-> c.counter] /\ c.counter = 0
  BY <1>1, CryptorIs
<1>3. Blocks(2) \in Nat /\ Blocks(3) \in Nat /\ Blocks(3) # 0
  <2>1. Blocks(2) \in 0..2 /\ Blocks(3) \in 0..3 /\ Blocks(3) * BlockSize >= 3
    BY BlocksAreEnough
  <2>2. 0 * BlockSize = 0
    BY BlockSizeIsPositive
  <2> QED BY <2>1, <2>2
<1>4. ASSUME NEW bytes, Len(bytes) = 2
      PROVE  /\ LockAfter(c, bytes) = After(c, bytes)
             /\ After(c, bytes) = [key |-> c.key, counter |-> Blocks(2)]
  <2>1. c.counter + Blocks(2) = Blocks(2) /\ c.counter \in Nat
    BY <1>2, <1>3
  <2>2. Len(bytes) \in Nat /\ Blocks(Len(bytes)) = Blocks(2)
    BY <1>4
  <2>3. /\ LockAfter(c, bytes) = After(c, bytes)
        /\ After(c, bytes) = [key |-> c.key, counter |-> c.counter + Blocks(Len(bytes))]
    BY <1>2, <2>1, <2>2, AfterIs
  <2> QED BY <2>1, <2>2, <2>3
<1>5. ForCommand = [key |-> c.key, counter |-> Blocks(2)] /\ LockAfter(c, Confirmation) = ForCommand
  BY <1>1, <1>4, ConfirmationIs DEF ForCommand
<1>6. ASSUME NEW bytes, Len(bytes) = 3
      PROVE  /\ LockAfter(ForCommand, bytes) = [key |-> c.key, counter |-> Blocks(2) + Blocks(3)]
             /\ After(ForCommand, bytes) = [key |-> c.key, counter |-> Blocks(2) + Blocks(3)]
  <2>1. /\ ForCommand = [key |-> ForCommand.key, counter |-> ForCommand.counter]
        /\ ForCommand.key = c.key /\ ForCommand.counter = Blocks(2)
    BY <1>5
  <2>2. PICK f : f = ForCommand
    OBVIOUS
  <2>3. f = [key |-> f.key, counter |-> f.counter] /\ f.key = c.key /\ f.counter = Blocks(2)
        /\ f.counter \in Nat
    BY <1>3, <2>1, <2>2
  <2>4. Len(bytes) \in Nat /\ Blocks(Len(bytes)) = Blocks(3)
    BY <1>6
  <2>5. /\ LockAfter(f, bytes) = After(f, bytes)
        /\ After(f, bytes) = [key |-> f.key, counter |-> f.counter + Blocks(Len(bytes))]
    BY <2>3, <2>4, AfterIs
  <2> QED BY <2>2, <2>3, <2>4, <2>5
<1>7. Blocks(2) + Blocks(3) # 0
  BY <1>3
<1> QED BY <1>1, <1>4, <1>5, <1>6, <1>7, ConfirmationIs

\* What the lock acknowledges with.
LEMMA AcksAre ==
    ASSUME NEW ack \in Acks
    PROVE  /\ IsBytes(ack) /\ ack # <<>> /\ ack[1].by = {}
           /\ Granted(ack) => Activation(ack) \in Nat
<1>1. PICK result : \/ ack = <<Plain(0)>>
                    \/ ack = <<Plain(0), Plain(ActivationTime), Plain(0)>>
                    \/ ack = <<Plain(0), Plain(ActivationTime), Plain(0), Plain(7)>>
                    \/ ack = <<Plain(result), Plain(ActivationTime), Plain(0)>>
  BY DEF Acks
<1>2. IsBytes(ack)
  BY <1>1, PlainIsByte, ShortBytes
<1>3. ack # <<>> /\ ack[1].by = {}
  BY <1>1 DEF Plain
<1>4. Activation(ack) \in Nat
  BY <1>1 DEF Activation, Plain, ActivationTime
<1> QED BY <1>2, <1>3, <1>4

\* A packet of the lock, as it is to be encoded.
LEMMA SaidIs ==
    ASSUME NEW packet, packet \in Empty \/ LockSays(packet)
    PROVE  /\ packet = Packet(packet.type, packet.payload)
           /\ packet.type \in {HandshakeResponse, HandshakeFinished, CommandAck,
                               ClientBlocked, HandshakeExpired, EncryptionError}
           /\ IsBytes(packet.payload)
           /\ IsError(packet.type) => packet.payload = <<>>
<1>1. CASE packet \in Empty
  BY <1>1, ShortBytes DEF Empty, Packet
<1>2. CASE packet = Packet(HandshakeResponse, <<Plain(Nonce), Plain(Challenge)>>)
  BY <1>2, ShortBytes, PlainIsByte DEF Packet, IsError, HandshakeResponse
<1>3. CASE packet = Packet(HandshakeFinished, Process(Cryptor(Response), Confirmation))
  <2>1. IsBytes(Process(Cryptor(Response), Confirmation))
    BY ConfirmationIs, ProcessBytes
  <2> QED BY <1>3, <2>1 DEF Packet, IsError, HandshakeFinished
<1>4. ASSUME NEW ack \in Acks,
             packet = Packet(CommandAck, Process(LockAfter(lockCryptor, TheCommand), ack))
      PROVE  /\ packet = Packet(packet.type, packet.payload)
             /\ packet.type = CommandAck /\ ~ IsError(packet.type)
             /\ IsBytes(packet.payload)
  <2>1. IsBytes(Process(LockAfter(lockCryptor, TheCommand), ack))
    BY AcksAre, ProcessBytes
  <2> QED BY <1>4, <2>1 DEF Packet, IsError, CommandAck
<1> QED BY <1>1, <1>2, <1>3, <1>4 DEF LockSays

\* What the client makes of them: only with the lock's key does it finish the
\* handshake,
LEMMA FinishedRead ==
    ASSUME ClientInStep, waits = "finished",
           NEW packet, packet \in Empty \/ LockSays(packet), packet.type = HandshakeFinished
    PROVE  /\ Process(Cryptor(clientResponse), packet.payload) = Confirmation
                => ReadyForCommand /\ Len(packet.payload) = 2
           /\ LockSays(packet) => Process(Cryptor(clientResponse), packet.payload) = Confirmation
<1>1. clientResponse = Response
  BY DEF ClientInStep
<1>2. PICK c : c = Cryptor(Response)
  OBVIOUS
<1>3. CASE LockSays(packet)
  <2>1. packet = Packet(HandshakeFinished, Process(c, Confirmation)) /\ ReadyForCommand
    BY <1>2, <1>3 DEF LockSays, Packet, HandshakeResponse, HandshakeFinished, CommandAck
  <2>2. packet.payload = Process(c, Confirmation)
    BY <2>1 DEF Packet
  <2>3. Process(c, Process(c, Confirmation)) = Confirmation /\ Len(Process(c, Confirmation)) = 2
    BY ConfirmationIs, ProcessBytes
  <2> QED BY <1>1, <1>2, <2>1, <2>2, <2>3
<1>4. CASE packet \in Empty /\ ~ LockSays(packet)
  <2>1. packet.payload = <<>>
    BY <1>4 DEF Empty, Packet
  <2>2. Len(Process(c, <<>>)) = 0
    BY ShortBytes, ProcessBytes
  <2>3. Process(c, <<>>) # Confirmation
    BY <2>2, ConfirmationIs
  <2> QED BY <1>1, <1>2, <1>4, <2>1, <2>3
<1> QED BY <1>3, <1>4

\* and it reads what the lock acknowledged.
LEMMA AckRead ==
    ASSUME ClientInStep, waits = "ack",
           NEW packet, packet \in Empty \/ LockSays(packet), packet.type = CommandAck
    PROVE  \/ Process(cryptor, packet.payload) = <<>> /\ ~ LockSays(packet)
           \/ /\ Process(cryptor, packet.payload) \in Acks
              /\ Granted(Process(cryptor, packet.payload))
                    => granted = Activation(Process(cryptor, packet.payload))
              /\ Len(packet.payload) \in Nat
<1>1. cryptor = After(ForCommand, TheCommand)
  BY DEF ClientInStep
<1>2. CASE LockSays(packet)
  <2>1. PICK ack \in Acks :
            /\ packet = Packet(CommandAck, Process(LockAfter(lockCryptor, TheCommand), ack))
            /\ Granted(ack) => granted = Activation(ack)
            /\ ReadyForCommand
    BY <1>2 DEF LockSays, Packet, HandshakeResponse, HandshakeFinished, CommandAck
  <2>2. lockCryptor = ForCommand
    BY <2>1, CommandCiphers DEF ReadyForCommand
  <2>3. LockAfter(lockCryptor, TheCommand) = cryptor
    <3>1. Len(TheCommand) = 3
      BY ConfirmationIs
    <3> QED BY <1>1, <2>2, <3>1, CommandCiphers
  <2>4. packet.payload = Process(cryptor, ack)
    BY <2>1, <2>3 DEF Packet
  <2>5. Process(cryptor, Process(cryptor, ack)) = ack /\ Len(Process(cryptor, ack)) \in Nat
    BY AcksAre, ProcessBytes
  <2> QED BY <2>1, <2>4, <2>5
<1>3. CASE packet \in Empty /\ ~ LockSays(packet)
  <2>1. packet.payload = <<>>
    BY <1>3 DEF Empty, Packet
  <2>2. Process(cryptor, <<>>) = <<>>
    <3>1. IsBytes(Process(cryptor, <<>>)) /\ Len(Process(cryptor, <<>>)) = 0
      BY ShortBytes, ProcessBytes
    <3>2. PICK s, S : s = Process(cryptor, <<>>) /\ s \in Seq(S) /\ Len(s) = 0
      BY <3>1 DEF IsBytes, IsList
    <3> QED BY <3>2, EmptySeq
  <2> QED BY <1>3, <2>1, <2>2
<1> QED BY <1>2, <1>3

-----------------------------------------------------------------------------
(* The inductive invariant                                                 *)

SessionInductive == Lists /\ SessionTypeOK /\ SessionInvariant

\* No event is among the replies.
LEMMA NoEventTaken ==
    ASSUME Lists, RestIsComing, \A i \in 1..Len(sent) : sent[i].type # EventPacket
    PROVE  EventPacket \notin {packets[i].type : i \in DOMAIN packets}
<1>1. PICK S : /\ taken \in Seq(S) /\ packets \in Seq(S) /\ Coming.packets \in Seq(S)
               /\ sent \in Seq(S) /\ taken \o packets \in Seq(S)
               /\ sent = (taken \o packets) \o Coming.packets
  BY OfSent
<1>2. PICK front, coming : front = taken \o packets /\ coming = Coming.packets
  OBVIOUS
<1>3. Len(taken) \in Nat /\ Len(packets) \in Nat /\ Len(coming) \in Nat /\ DOMAIN packets = 1..Len(packets)
  BY <1>1, <1>2, LenProperties
<1> SUFFICES ASSUME NEW i \in 1..Len(packets) PROVE packets[i].type # EventPacket
  BY <1>3
<1>4. Len(front) = Len(taken) + Len(packets) /\ front[Len(taken) + i] = packets[i]
  <2>1. Len(taken) + i \in 1..Len(taken) + Len(packets) /\ ~ (Len(taken) + i <= Len(taken))
        /\ (Len(taken) + i) - Len(taken) = i
    BY <1>3
  <2> QED BY <1>1, <1>2, <2>1, ConcatProperties
<1>5. Len(sent) = Len(front) + Len(coming) /\ sent[Len(taken) + i] = front[Len(taken) + i]
  <2>1. Len(taken) + i \in 1..Len(front) + Len(coming) /\ Len(taken) + i <= Len(front)
    BY <1>3, <1>4
  <2>2. front \in Seq(S) /\ coming \in Seq(S) /\ sent = front \o coming
    BY <1>1, <1>2
  <2> QED BY <2>1, <2>2, ConcatProperties
<1>6. Len(taken) + i \in 1..Len(sent)
  BY <1>3, <1>4, <1>5
<1> QED BY <1>4, <1>5, <1>6

LEMMA NoEvent ==
    Lists /\ RestIsComing /\ (\A i \in 1..Len(sent) : sent[i].type # EventPacket)
        => EventPacket \notin {packets[i].type : i \in DOMAIN packets}
BY NoEventTaken

\* Neither is it so after a step.
LEMMA NoEventThen ==
    ASSUME Lists', RestIsComing', LockInStep'
    PROVE  EventPacket \notin {packets'[i].type : i \in DOMAIN packets'}
<1>1. (Lists /\ RestIsComing /\ (\A i \in 1..Len(sent) : sent[i].type # EventPacket)
        => EventPacket \notin {packets[i].type : i \in DOMAIN packets})'
  BY NoEvent, PTL
<1>2. ASSUME NEW packet, (packet \in Empty \/ LockSays(packet))' PROVE packet.type # EventPacket
  BY <1>2 DEF Empty, LockSays, Packet, EventPacket, HandshakeResponse, HandshakeFinished,
              CommandAck, ClientBlocked, HandshakeExpired, EncryptionError
<1>3. \A i \in 1..Len(sent') : sent'[i].type # EventPacket
  BY <1>2 DEF LockInStep
<1> QED BY <1>1, <1>3

\* What belongs to the key stays, as the key does.
LEMMA KeyStays ==
    ASSUME key' = key
    PROVE  Response' = Response /\ ForCommand' = ForCommand /\ Says' = Says
<1>1. Response' = Response
  BY DEF Response
<1>2. ForCommand' = ForCommand
  BY <1>1 DEF ForCommand
<1> QED BY <1>1, <1>2 DEF Says

\* What the lock said stays right, while what it depends on does.
LEMMA SaysStays ==
    ASSUME key' = key, ReadyForCommand => lockCryptor' = lockCryptor,
           CommandAnswered => CommandAnswered' /\ granted' = granted
    PROVE  /\ ReadyForCommand => ReadyForCommand'
           /\ \A packet : LockSays(packet) => LockSays(packet)'
<1>1. Response' = Response
  BY KeyStays
<1>2. ReadyForCommand => ReadyForCommand'
  BY <1>1 DEF ReadyForCommand
<1>3. ASSUME NEW packet, LockSays(packet) PROVE LockSays(packet)'
  <2>1. CASE packet = Packet(HandshakeResponse, <<Plain(Nonce), Plain(Challenge)>>)
    BY <2>1 DEF LockSays
  <2>2. CASE /\ packet = Packet(HandshakeFinished, Process(Cryptor(Response), Confirmation))
             /\ ReadyForCommand
    <3>1. ReadyForCommand' /\ packet = Packet(HandshakeFinished, Process(Cryptor(Response'), Confirmation))
      BY <1>1, <1>2, <2>2
    <3> QED BY <3>1 DEF LockSays
  <2>3. ASSUME ReadyForCommand, CommandAnswered,
               NEW ack \in Acks,
               packet = Packet(CommandAck, Process(LockAfter(lockCryptor, TheCommand), ack)),
               Granted(ack) => granted = Activation(ack)
        PROVE  LockSays(packet)'
    <3>1. /\ ReadyForCommand' /\ CommandAnswered'
          /\ packet = Packet(CommandAck, Process(LockAfter(lockCryptor', TheCommand), ack))
          /\ Granted(ack) => granted' = Activation(ack)
      BY <1>2, <2>3
    <3> QED BY <3>1 DEF LockSays
  <2> QED BY <1>3, <2>1, <2>2, <2>3 DEF LockSays
<1> QED BY <1>2, <1>3

LEMMA SentThen ==
    ASSUME NEW said, NEW i, said = sent'[i], said \in Empty \/ LockSays(said)'
    PROVE  (sent[i] \in Empty \/ LockSays(sent[i]))'
BY DEF LockSays

LEMMA LastThen ==
    ASSUME NEW said, said = Last(sent'), LockSays(said)'
    PROVE  LockSays(Last(sent))'
BY DEF LockSays

LEMMA MoreSaid ==
    ASSUME Lists, LockInStep, \A said : LockSays(said) => LockSays(said)',
           NEW packet, sent' = Append(sent, packet), packet \in Empty \/ LockSays(packet)'
    PROVE  \A i \in 1..Len(sent') : (sent[i] \in Empty \/ LockSays(sent[i]))'
<1> SUFFICES ASSUME NEW i \in 1..Len(sent')
             PROVE  (sent[i] \in Empty \/ LockSays(sent[i]))'
  OBVIOUS
<1>1. /\ Len(sent) \in Nat /\ Len(sent') = Len(sent) + 1
      /\ \A j \in 1..Len(sent) : sent'[j] = sent[j]
      /\ sent'[Len(sent) + 1] = packet
  BY OneMoreSent
<1>2. CASE i = Len(sent) + 1
  BY <1>1, <1>2, SentThen
<1>3. CASE i # Len(sent) + 1
  <2>1. i \in 1..Len(sent)
    BY <1>1, <1>3
  <2>2. PICK said : said = sent[i] /\ said = sent'[i]
    BY <1>1, <2>1
  <2>3. said \in Empty \/ LockSays(said)'
    BY <2>1, <2>2 DEF LockInStep
  <2> QED BY <2>2, <2>3, SentThen
<1> QED BY <1>2, <1>3

LEMMA StillSaid ==
    ASSUME LockInStep, \A said : LockSays(said) => LockSays(said)', UNCHANGED sent
    PROVE  \A i \in 1..Len(sent') : (sent[i] \in Empty \/ LockSays(sent[i]))'
<1> SUFFICES ASSUME NEW i \in 1..Len(sent')
             PROVE  (sent[i] \in Empty \/ LockSays(sent[i]))'
  OBVIOUS
<1>1. PICK said : said = sent[i] /\ said = sent'[i]
  OBVIOUS
<1>2. said \in Empty \/ LockSays(said)'
  BY <1>1 DEF LockInStep
<1> QED BY <1>1, <1>2, SentThen

-----------------------------------------------------------------------------
(* The lock's steps                                                        *)

LEMMA LockStep ==
    ASSUME SessionInductive,
           NEW type \in Nat, NEW payload, IsList(payload), IsError(type) => payload = <<>>,
           Sends(Packet(type, payload)), written' \in {written, NoPacket},
           odd' \in BOOLEAN, odd => odd', events' \in 0..MaxEvents,
           granted' \in Nat \cup {NotGranted}, waits = "ended" => granted' = granted,
           LockInStep', OneReplyEach'
    PROVE  SessionInductive'
<1>1. /\ linked = TRUE
      /\ UNCHANGED <<waits, outcome, seconds, error, timedOut, key, buffer, packets,
                     clientResponse, cryptor, taken, linked, oldLink, disconnecting>>
  BY DEF Sends, session, ending, connection, SessionInductive, SessionTypeOK
<1>2. Lists' /\ RestIsComing'
  BY SendsStep DEF SessionInductive, SessionInvariant
<1>3. ClientInStep'
  <2>1. Says' = Says /\ Response' = Response /\ ForCommand' = ForCommand
    BY <1>1, KeyStays
  <2>2. written' # NoPacket => Talking /\ written' = Says[waits]
    BY DEF SessionInductive, SessionInvariant, ClientInStep
  <2>3. Talking' <=> Talking
    BY <1>1 DEF Talking
  <2>4. /\ waits \in {"finished", "ack"} => clientResponse = Response
        /\ waits = "ack" => cryptor = After(ForCommand, TheCommand)
    BY DEF SessionInductive, SessionInvariant, ClientInStep
  <2> QED BY <1>1, <2>1, <2>2, <2>3, <2>4 DEF ClientInStep
<1>4. OneLink'
  <2>1. OneLink
    BY DEF SessionInductive, SessionInvariant
  <2> QED BY <1>1, <2>1 DEF OneLink
<1>5. Understood' /\ ResultIsReal'
  BY <1>1 DEF SessionInductive, SessionInvariant, SessionTypeOK, Understood, ResultIsReal
<1>6. SessionTypeOK'
  <2>1. EventPacket \notin {packets'[i].type : i \in DOMAIN packets'}
    BY <1>2, NoEventThen
  <2>2. Received(buffer') = [packets |-> <<>>, rest |-> buffer']
    BY <1>1 DEF SessionInductive, SessionTypeOK
  <2> QED BY <1>1, <2>1, <2>2 DEF SessionInductive, SessionTypeOK
<1> QED BY <1>2, <1>3, <1>4, <1>5, <1>6 DEF SessionInductive, SessionInvariant

\* A reply to what the client says.
LEMMA ReplyStep ==
    ASSUME SessionInductive, NEW type, NEW payload, Replies(Packet(type, payload)),
           odd' \in BOOLEAN, odd => odd', UNCHANGED events,
           ReadyForCommand => lockCryptor' = lockCryptor,
           granted' \in Nat \cup {NotGranted}, granted' # NotGranted => waits = "ack",
           Packet(type, payload) \in Empty \/ LockSays(Packet(type, payload))',
           key = RightKey /\ ~ odd' =>
               \/ type \in {ClientBlocked, HandshakeExpired}
               \/ type = Expected[waits] /\ LockSays(Packet(type, payload))'
    PROVE  SessionInductive'
<1>1. PICK packet : packet = Packet(type, payload) /\ packet.type = type /\ packet.payload = payload
  BY DEF Packet
<1>2. /\ written # NoPacket /\ written' = NoPacket /\ Sends(packet)
      /\ UNCHANGED <<waits, key, taken>>
  BY <1>1 DEF Replies, Sends, session
<1>3. Talking /\ waits # "ended" /\ ~ CommandAnswered
  BY <1>2 DEF SessionInductive, SessionInvariant, ClientInStep, CommandAnswered, Talking, Expected
<1>4. packet \in Empty \/ LockSays(packet)'
  BY <1>1
<1>5. /\ packet.type \in Nat /\ packet.type # EventPacket /\ IsList(packet.payload)
      /\ IsError(packet.type) => packet.payload = <<>>
      /\ packet = Packet(packet.type, packet.payload)
  <2>1. (packet \in Empty \/ LockSays(packet) =>
           /\ packet = Packet(packet.type, packet.payload)
           /\ packet.type \in {HandshakeResponse, HandshakeFinished, CommandAck,
                               ClientBlocked, HandshakeExpired, EncryptionError}
           /\ IsBytes(packet.payload)
           /\ IsError(packet.type) => packet.payload = <<>>)'
    BY SaidIs, PTL
  <2> QED BY <1>4, <2>1 DEF IsBytes, EventPacket, HandshakeResponse, HandshakeFinished,
              CommandAck, ClientBlocked, HandshakeExpired, EncryptionError
<1>6. /\ sent' = Append(sent, packet)
      /\ Len(sent) \in Nat /\ Len(sent') = Len(sent) + 1
      /\ \A i \in 1..Len(sent) : sent'[i] = sent[i]
      /\ sent'[Len(sent) + 1] = packet /\ Last(sent') = packet
  <2>1. sent' = Append(sent, packet)
    BY <1>2, <1>5 DEF Sends
  <2> QED BY <2>1, OneMoreSent DEF SessionInductive
<1>7. LockInStep'
  <2>1. \A i \in 1..Len(sent') : (sent[i] \in Empty \/ LockSays(sent[i]))'
    <3>1. \A said : LockSays(said) => LockSays(said)'
      BY <1>2, <1>3, SaysStays
    <3> QED BY <1>4, <1>6, <3>1, MoreSaid DEF SessionInductive, SessionInvariant
  <2>2. waits' = "ack" => ReadyForCommand'
    BY <1>2, <1>3, SaysStays DEF SessionInductive, SessionInvariant, LockInStep
  <2>3. granted' # NotGranted => CommandAnswered'
    BY <1>2 DEF CommandAnswered
  <2> QED BY <2>1, <2>2, <2>3 DEF LockInStep
<1>8. OneReplyEach'
  <2>1. ASSUME ~ odd' PROVE Len(sent) = Len(taken)
    <3>1. Len(sent) = Len(taken) + 0
      BY <1>2, <1>3, <2>1 DEF SessionInductive, SessionInvariant, OneReplyEach
    <3>2. Len(taken) \in Nat
      BY TakenOfSent DEF SessionInductive, SessionInvariant
    <3> QED BY <3>1, <3>2
  <2>2. ASSUME ~ odd' PROVE Len(sent') = Len(taken') + 1
    BY <1>2, <1>6, <2>1, <2>2
  <2>3. ASSUME ~ odd', key' = RightKey
        PROVE  \/ Last(sent').type \in {ClientBlocked, HandshakeExpired}
               \/ Last(sent').type = Expected[waits'] /\ LockSays(Last(sent))'
    <3>1. \/ packet.type \in {ClientBlocked, HandshakeExpired}
          \/ packet.type = Expected[waits] /\ LockSays(packet)'
      BY <1>1, <1>2, <2>3
    <3> QED BY <1>2, <1>6, <3>1, LastThen
  <2> QED BY <1>2, <2>2, <2>3 DEF OneReplyEach
<1> QED BY <1>2, <1>3, <1>5, <1>7, <1>8, LockStep DEF SessionInductive, SessionTypeOK

\* What the lock is to answer.
LEMMA WrittenIs ==
    ASSUME SessionInductive, written # NoPacket
    PROVE  /\ ~ CommandAnswered /\ granted = NotGranted
           /\ written.type = StartHandshake => waits = "response"
           /\ written.type = HandshakeClientResponse =>
                  waits = "finished" /\ written.payload = Process(Later(key), Response)
           /\ written.type = Command =>
                  /\ waits = "ack" /\ ReadyForCommand /\ lockCryptor = ForCommand
                  /\ written.payload = Process(ForCommand, TheCommand)
<1>1. Talking /\ written = Says[waits] /\ waits \in {"response", "finished", "ack"}
  BY DEF SessionInductive, SessionInvariant, ClientInStep, Talking, Expected
<1>2. ~ CommandAnswered /\ granted = NotGranted
  BY DEF CommandAnswered, SessionInductive, SessionInvariant, LockInStep
<1>3. CASE waits = "response"
  BY <1>1, <1>2, <1>3 DEF Says, Packet, StartHandshake, HandshakeClientResponse, Command
<1>4. CASE waits = "finished"
  <2>1. written = Packet(HandshakeClientResponse, Process(Later(key), Response))
    BY <1>1, <1>4, ResponseIs
  <2> QED BY <1>2, <1>4, <2>1 DEF Packet, StartHandshake, HandshakeClientResponse, Command
<1>5. CASE waits = "ack"
  <2>1. written = Packet(Command, Process(ForCommand, TheCommand))
    BY <1>1, <1>5 DEF Says
  <2>2. ReadyForCommand
    BY <1>5 DEF SessionInductive, SessionInvariant, LockInStep
  <2>3. lockCryptor = ForCommand
    BY <2>2, CommandCiphers DEF ReadyForCommand
  <2> QED BY <1>2, <1>5, <2>1, <2>2, <2>3 DEF Packet, StartHandshake, HandshakeClientResponse, Command
<1> QED BY <1>1, <1>3, <1>4, <1>5

LEMMA StartsStep == SessionInductive /\ LockStarts => SessionInductive'
<1> SUFFICES ASSUME SessionInductive, LockStarts PROVE SessionInductive'
  OBVIOUS
<1>1. /\ written # NoPacket /\ written.type = StartHandshake
      /\ Replies(Packet(HandshakeResponse, <<Plain(Nonce), Plain(Challenge)>>))
      /\ UNCHANGED <<lockCryptor, granted, events, odd>>
  BY DEF LockStarts, Replies
<1>2. waits = "response" /\ Expected[waits] = HandshakeResponse
  BY <1>1, WrittenIs DEF Expected
<1>3. LockSays(Packet(HandshakeResponse, <<Plain(Nonce), Plain(Challenge)>>))'
  BY DEF LockSays
<1>4. granted = NotGranted /\ odd \in BOOLEAN
  BY <1>1, WrittenIs DEF SessionInductive, SessionTypeOK
<1> QED BY <1>1, <1>2, <1>3, <1>4, ReplyStep

LEMMA FirstProcessed ==
    ASSUME NEW c, NEW bytes, Len(bytes) \in Nat, Len(bytes) >= 1
    PROVE  Process(c, bytes)[1] = Xor(bytes[1], Stream(c, 1))
<1>1. 1 \in 1..Len(bytes)
  OBVIOUS
<1> QED BY <1>1 DEF Process, Stream

\* The lock reads its challenge in what a client with its key answers, and in
\* no other.
LEMMA ResponseRead ==
    ASSUME NEW ours, ours = Process(Cryptor(RightKey), <<Plain(Challenge)>>),
           NEW response,
           response = Process(LockAfter(Cryptor(RightKey), ours), Process(Later(key), Response))
    PROVE  /\ key = RightKey => response = Response /\ SubSeq(response, 1, 1) = ours
           /\ key # RightKey => SubSeq(response, 1, 1) # ours
<1>1. IsBytes(<<Plain(Challenge)>>) /\ Len(<<Plain(Challenge)>>) = 1
      /\ <<Plain(Challenge)>>[1] = Plain(Challenge)
  BY ShortBytes, PlainIsByte
<1>2. /\ IsBytes(ours) /\ Len(ours) = 1
      /\ ours[1] = Xor(Plain(Challenge), <<RightKey, 1>>)
  <2>1. IsBytes(ours) /\ Len(ours) = 1
    BY <1>1, ProcessBytes
  <2>2. ours[1] = Xor(Plain(Challenge), Stream(Cryptor(RightKey), 1))
    BY <1>1, FirstProcessed
  <2> QED BY <2>1, <2>2, CryptorIs
<1>3. LockAfter(Cryptor(RightKey), ours) = Later(RightKey)
  BY <1>2, CryptorIs DEF Later
<1>4. PICK sentBytes : sentBytes = Process(Later(key), Response)
  OBVIOUS
<1>5. IsBytes(sentBytes) /\ Len(sentBytes) = 2 /\ sentBytes[1] = Xor(Response[1], Stream(Later(key), 1))
  <2>1. IsBytes(sentBytes) /\ Len(sentBytes) = 2
    BY <1>4, ResponseIs, ProcessBytes
  <2>2. sentBytes[1] = Xor(Response[1], Stream(Later(key), 1))
    BY <1>4, ResponseIs, FirstProcessed
  <2> QED BY <2>1, <2>2
<1>6. /\ response = Process(Later(RightKey), sentBytes)
      /\ IsBytes(response) /\ Len(response) = 2
      /\ response[1] = Xor(sentBytes[1], Stream(Later(RightKey), 1))
  <2>1. response = Process(Later(RightKey), sentBytes)
    BY <1>3, <1>4
  <2>2. IsBytes(response) /\ Len(response) = 2
    BY <1>5, <2>1, ProcessBytes
  <2>3. response[1] = Xor(sentBytes[1], Stream(Later(RightKey), 1))
    BY <1>5, <2>1, FirstProcessed
  <2> QED BY <2>1, <2>2, <2>3
<1>7. PICK S, T : response \in Seq(S) /\ ours \in Seq(T)
  BY <1>2, <1>6 DEF IsBytes, IsList
<1>8. SubSeq(response, 1, 1) = ours <=> response[1] = ours[1]
  <2>1. PICK s : s = SubSeq(response, 1, 1)
    OBVIOUS
  <2>2. s \in Seq(S) /\ Len(s) = 1 /\ s[1] = response[1]
    BY <1>6, <1>7, <2>1
  <2>3. S \subseteq S \cup T /\ T \subseteq S \cup T
    OBVIOUS
  <2>4. s \in Seq(S \cup T) /\ ours \in Seq(S \cup T)
    BY <1>7, <2>2, <2>3, SeqMonotonic
  <2>5. s[1] = ours[1] => \A i \in 1..Len(s) : s[i] = ours[i]
    BY <2>2
  <2>6. s[1] = ours[1] => s = ours
    BY <1>2, <2>2, <2>4, <2>5, SeqEqual
  <2> QED BY <2>1, <2>2, <2>6
<1>9. CASE key = RightKey
  <2>1. response = Response
    BY <1>4, <1>6, <1>9, ResponseIs, ProcessBytes
  <2>2. response[1] = ours[1]
    BY <1>2, <1>9, <2>1, ResponseIs
  <2> QED BY <1>8, <1>9, <2>1, <2>2
<1>10. CASE key # RightKey
  <2>1. PICK first, later, lockLater : /\ first = <<key, 1>> /\ later = <<key, BlockSize + 1>>
                                       /\ lockLater = <<RightKey, BlockSize + 1>>
    OBVIOUS
  <2>2. first # later /\ first # lockLater /\ first # <<RightKey, 1>>
    <3>1. BlockSize + 1 # 1
      BY BlockSizeIsPositive
    <3> QED BY <1>10, <2>1, <3>1
  <2>3. PICK a : a = Plain(Challenge) /\ IsByte(a) /\ first \notin a.by
    BY PlainIsByte DEF Plain
  <2>4. PICK b : b = Xor(a, first) /\ IsByte(b) /\ first \in b.by
    BY <2>3, XorIs
  <2>5. PICK c : c = Xor(b, later) /\ IsByte(c) /\ first \in c.by
    BY <2>2, <2>4, XorIs
  <2>6. PICK d : d = Xor(c, lockLater) /\ IsByte(d) /\ first \in d.by
    BY <2>2, <2>5, XorIs
  <2>7. response[1] = d
    <3>1. Response[1] = b
      BY <2>1, <2>3, <2>4, ResponseIs
    <3>2. sentBytes[1] = c
      BY <1>5, <2>1, <2>5, <3>1, LaterIs
    <3> QED BY <1>6, <2>1, <2>6, <3>2, LaterIs
  <2>8. first \notin ours[1].by
    BY <1>2, <2>2, <2>3, XorIs
  <2> QED BY <1>8, <1>10, <2>6, <2>7, <2>8
<1> QED BY <1>9, <1>10

LEMMA FinishesStep == SessionInductive /\ LockFinishes => SessionInductive'
<1> SUFFICES ASSUME SessionInductive, LockFinishes PROVE SessionInductive'
  OBVIOUS
<1>1. PICK ours, response :
          /\ ours = Process(Cryptor(RightKey), <<Plain(Challenge)>>)
          /\ response = Process(LockAfter(Cryptor(RightKey), ours), written.payload)
          /\ IF SubSeq(response, 1, 1) = ours
             THEN /\ lockCryptor' = LockAfter(Cryptor(response), <<Plain(0), response[2]>>)
                  /\ Replies(Packet(HandshakeFinished,
                                    Process(Cryptor(response), <<Plain(0), response[2]>>)))
             ELSE Replies(Packet(EncryptionError, <<>>)) /\ UNCHANGED lockCryptor
  BY DEF LockFinishes
<1>2. /\ written # NoPacket /\ written.type = HandshakeClientResponse /\ UNCHANGED key
      /\ UNCHANGED <<granted, events, odd>>
  BY DEF LockFinishes, Replies, Sends
<1>3. waits = "finished" /\ Expected[waits] = HandshakeFinished /\ granted = NotGranted
      /\ written.payload = Process(Later(key), Response)
  BY <1>2, WrittenIs DEF Expected
<1>4. odd \in BOOLEAN
  BY DEF SessionInductive, SessionTypeOK
<1>5. CASE key = RightKey
  <2>1. response = Response /\ SubSeq(response, 1, 1) = ours
    BY <1>1, <1>3, <1>5, ResponseRead
  <2>2. <<Plain(0), response[2]>> = Confirmation
    BY <2>1, ResponseIs DEF Confirmation
  <2>3. PICK packet : packet = Packet(HandshakeFinished, Process(Cryptor(Response), Confirmation))
    OBVIOUS
  <2>4. lockCryptor' = LockAfter(Cryptor(Response), Confirmation) /\ Replies(packet)
    BY <1>1, <2>1, <2>2, <2>3
  <2>5. Response' = Response
    BY <1>2, KeyStays
  <2>6. ReadyForCommand'
    BY <1>2, <1>5, <2>4, <2>5 DEF ReadyForCommand
  <2>7. packet = Packet(HandshakeFinished, Process(Cryptor(Response'), Confirmation))
    BY <2>3, <2>5
  <2>8. LockSays(packet)'
    BY <2>6, <2>7 DEF LockSays
  <2>9. PICK payload : packet = Packet(HandshakeFinished, payload)
    BY <2>3
  <2>10. LockSays(Packet(HandshakeFinished, payload))' /\ Replies(Packet(HandshakeFinished, payload))
    BY <2>4, <2>8, <2>9
  <2>11. ReadyForCommand => lockCryptor' = lockCryptor
    BY <2>4 DEF ReadyForCommand
  <2> QED BY <1>2, <1>3, <1>4, <2>10, <2>11, ReplyStep
<1>6. CASE key # RightKey
  <2>1. Replies(Packet(EncryptionError, <<>>)) /\ UNCHANGED lockCryptor
    BY <1>1, <1>3, <1>6, ResponseRead
  <2>2. Packet(EncryptionError, <<>>) \in Empty
    BY DEF Empty
  <2> QED BY <1>2, <1>3, <1>4, <1>6, <2>1, <2>2, ReplyStep
<1> QED BY <1>5, <1>6

\* What acknowledges the command.
LEMMA Acknowledged ==
    ASSUME SessionInductive, written # NoPacket, written.type = Command,
           NEW ack \in Acks, Acknowledges(ack),
           granted' \in Nat \cup {NotGranted}, Granted(ack) => granted' = Activation(ack),
           UNCHANGED <<lockCryptor, events, odd>>
    PROVE  SessionInductive'
<1>1. /\ waits = "ack" /\ ReadyForCommand /\ lockCryptor = ForCommand
      /\ written.payload = Process(ForCommand, TheCommand)
  BY WrittenIs
<1>2. Len(written.payload) = 3
  BY <1>1, ConfirmationIs, ProcessBytes
<1>3. LockAfter(lockCryptor, written.payload) = LockAfter(lockCryptor, TheCommand)
  BY <1>1, <1>2, CommandCiphers
<1>4. PICK payload : payload = Process(LockAfter(lockCryptor, TheCommand), ack)
  OBVIOUS
<1>5. PICK packet : packet = Packet(CommandAck, payload)
  OBVIOUS
<1>6. Replies(packet)
  BY <1>3, <1>4, <1>5 DEF Acknowledges
<1>7. UNCHANGED <<key, waits>> /\ written' = NoPacket
  BY <1>6 DEF Replies, Sends
<1>8. ReadyForCommand' /\ CommandAnswered'
  <2>1. Response' = Response
    BY <1>7, KeyStays
  <2> QED BY <1>1, <1>7, <2>1 DEF ReadyForCommand, CommandAnswered
<1>9. packet = Packet(CommandAck, Process(LockAfter(lockCryptor', TheCommand), ack))
  BY <1>4, <1>5
<1>10. LockSays(packet)'
  BY <1>8, <1>9 DEF LockSays
<1>11. LockSays(Packet(CommandAck, payload))' /\ Replies(Packet(CommandAck, payload))
  BY <1>5, <1>6, <1>10
<1>12. Expected[waits] = CommandAck /\ odd \in BOOLEAN
  BY <1>1 DEF Expected, SessionInductive, SessionTypeOK
<1> QED BY <1>1, <1>11, <1>12, ReplyStep

LEMMA ExecutesStep == SessionInductive /\ LockExecutes => SessionInductive'
<1> SUFFICES ASSUME SessionInductive, LockExecutes PROVE SessionInductive'
  OBVIOUS
<1>1. /\ written # NoPacket /\ written.type = Command
      /\ UNCHANGED <<lockCryptor, events, odd>>
  BY DEF LockExecutes, Acknowledges, Replies
<1>2. lockCryptor = ForCommand /\ written.payload = Process(ForCommand, TheCommand)
  BY <1>1, WrittenIs
<1>3. Reads = TheCommand
  BY <1>2, ConfirmationIs, ProcessBytes DEF Reads
<1>4. PICK ack \in {<<0>>, <<0, ActivationTime, 0>>, <<0, ActivationTime, 0, 7>>} :
          /\ granted' = IF Len(ack) = 1 THEN 0 ELSE ActivationTime
          /\ Acknowledges([i \in 1..Len(ack) |-> Plain(ack[i])])
  BY <1>3 DEF LockExecutes
<1>5. PICK bytes : bytes = [i \in 1..Len(ack) |-> Plain(ack[i])]
  OBVIOUS
<1>6. CASE ack = <<0>>
  <2>1. bytes = <<Plain(0)>> /\ granted' = 0
    BY <1>4, <1>5, <1>6
  <2>2. bytes \in Acks /\ Activation(bytes) = 0
    BY <2>1 DEF Acks, Activation
  <2> QED BY <1>1, <1>4, <1>5, <2>1, <2>2, Acknowledged
<1>7. CASE ack = <<0, ActivationTime, 0>>
  <2>1. bytes = <<Plain(0), Plain(ActivationTime), Plain(0)>> /\ granted' = ActivationTime
    BY <1>4, <1>5, <1>7
  <2>2. bytes \in Acks /\ Activation(bytes) = 15
    BY <2>1 DEF Acks, Activation, Plain, ActivationTime
  <2> QED BY <1>1, <1>4, <1>5, <2>1, <2>2, Acknowledged DEF ActivationTime
<1>8. CASE ack = <<0, ActivationTime, 0, 7>>
  <2>1. bytes = <<Plain(0), Plain(ActivationTime), Plain(0), Plain(7)>> /\ granted' = ActivationTime
    BY <1>4, <1>5, <1>8
  <2>2. bytes \in Acks /\ Activation(bytes) = 15
    BY <2>1 DEF Acks, Activation, Plain, ActivationTime
  <2> QED BY <1>1, <1>4, <1>5, <2>1, <2>2, Acknowledged DEF ActivationTime
<1> QED BY <1>4, <1>6, <1>7, <1>8

LEMMA RefusesStep == SessionInductive /\ LockRefuses => SessionInductive'
<1> SUFFICES ASSUME SessionInductive, LockRefuses PROVE SessionInductive'
  OBVIOUS
<1>1. UNCHANGED <<lockCryptor, granted, events, odd>> /\ odd \in BOOLEAN
      /\ granted \in Nat \cup {NotGranted} /\ written # NoPacket
  BY DEF LockRefuses, Acknowledges, Replies, SessionInductive, SessionTypeOK
<1>2. granted = NotGranted
  BY <1>1, WrittenIs
<1>3. ASSUME NEW type \in {ClientBlocked, HandshakeExpired}, Replies(Packet(type, <<>>))
      PROVE  SessionInductive'
  <2>1. Packet(type, <<>>) \in Empty
    BY DEF Empty
  <2> QED BY <1>1, <1>2, <1>3, <2>1, ReplyStep
<1>4. ASSUME written.type = Command, NEW result \in {240, 1},
             Acknowledges(<<Plain(result), Plain(ActivationTime), Plain(0)>>)
      PROVE  SessionInductive'
  <2>1. PICK ack : ack = <<Plain(result), Plain(ActivationTime), Plain(0)>>
    OBVIOUS
  <2>2. ack \in Acks
    BY <2>1 DEF Acks
  <2>3. ~ Granted(ack)
    BY <2>1 DEF Granted, Plain
  <2> QED BY <1>1, <1>4, <2>1, <2>2, <2>3, Acknowledged
<1> QED BY <1>3, <1>4 DEF LockRefuses

LEMMA StillOneReply ==
    ASSUME OneReplyEach, \A said : LockSays(said) => LockSays(said)',
           UNCHANGED <<odd, waits, sent, taken, written, key>>
    PROVE  OneReplyEach'
<1>1. PICK said : said = Last(sent) /\ said = Last(sent')
  OBVIOUS
<1>2. LockSays(Last(sent)) => LockSays(Last(sent))'
  BY <1>1, LastThen
<1> QED BY <1>2 DEF OneReplyEach, Talking

\* While the lock goes on as it is.
LEMMA AllStays ==
    ASSUME UNCHANGED <<key, lockCryptor, granted>>, CommandAnswered => CommandAnswered'
    PROVE  /\ ReadyForCommand => ReadyForCommand'
           /\ \A said : LockSays(said) => LockSays(said)'
BY SaysStays

LEMMA IsOddStep == SessionInductive /\ LockIsOdd => SessionInductive'
<1> SUFFICES ASSUME SessionInductive, LockIsOdd PROVE SessionInductive'
  OBVIOUS
<1>1. UNCHANGED <<lockCryptor, granted, events>> /\ odd' = TRUE /\ granted \in Nat \cup {NotGranted}
      /\ events \in 0..MaxEvents
  BY DEF LockIsOdd, SessionInductive, SessionTypeOK
<1>2. ASSUME NEW type \in {HandshakeResponse, HandshakeFinished, CommandAck},
             Replies(Packet(type, <<>>))
      PROVE  SessionInductive'
  <2>1. Packet(type, <<>>) \in Empty
    BY DEF Empty
  <2>2. granted = NotGranted
    BY <1>2, WrittenIs DEF Replies
  <2> QED BY <1>1, <1>2, <2>1, <2>2, ReplyStep
<1>3. ASSUME sent # <<>>, Sends(Last(sent)), UNCHANGED written
      PROVE  SessionInductive'
  <2>1. PICK packet : packet = Last(sent) /\ (packet \in Empty \/ LockSays(packet))
    <3>1. PICK S : sent \in Seq(S)
      BY DEF SessionInductive, Lists, IsList
    <3>2. Len(sent) \in Nat /\ Len(sent) # 0
      BY <1>3, <3>1, LenProperties, EmptySeq
    <3>3. Len(sent) \in 1..Len(sent)
      BY <3>2
    <3> QED BY <3>3 DEF SessionInductive, SessionInvariant, LockInStep, Last
  <2>2. /\ packet = Packet(packet.type, packet.payload) /\ IsList(packet.payload)
        /\ packet.type \in Nat /\ packet.type # EventPacket
        /\ IsError(packet.type) => packet.payload = <<>>
    BY <2>1, SaidIs DEF IsBytes, EventPacket, HandshakeResponse, HandshakeFinished,
              CommandAck, ClientBlocked, HandshakeExpired, EncryptionError
  <2>3. Sends(packet) /\ sent' = Append(sent, packet) /\ UNCHANGED <<waits, key>>
    BY <1>3, <2>1, <2>2 DEF Sends
  <2>4. /\ ReadyForCommand => ReadyForCommand'
        /\ \A said : LockSays(said) => LockSays(said)'
        /\ CommandAnswered => CommandAnswered'
    BY <1>1, <1>3, <2>3, AllStays DEF CommandAnswered
  <2>5. LockInStep'
    <3>1. packet \in Empty \/ LockSays(packet)'
      BY <2>1, <2>4
    <3>2. \A i \in 1..Len(sent') : (sent[i] \in Empty \/ LockSays(sent[i]))'
      BY <2>3, <2>4, <3>1, MoreSaid DEF SessionInductive, SessionInvariant
    <3>3. /\ waits' = "ack" => ReadyForCommand'
          /\ granted' # NotGranted => CommandAnswered'
      BY <1>1, <2>3, <2>4 DEF SessionInductive, SessionInvariant, LockInStep
    <3> QED BY <3>2, <3>3 DEF LockInStep
  <2>6. OneReplyEach'
    BY <1>1 DEF OneReplyEach
  <2>7. Sends(Packet(packet.type, packet.payload))
    BY <2>2, <2>3
  <2> QED BY <1>1, <1>3, <2>2, <2>5, <2>6, <2>7, LockStep
<1> QED BY <1>2, <1>3 DEF LockIsOdd

LEMMA EventStep == SessionInductive /\ LockEvent => SessionInductive'
<1> SUFFICES ASSUME SessionInductive, LockEvent PROVE SessionInductive'
  OBVIOUS
<1>1. PICK payload : /\ payload = <<Plain(255), Plain(CommandAck)>> /\ IsList(payload)
                     /\ Sends(Packet(EventPacket, payload))
  <2>1. IsBytes(<<Plain(255), Plain(CommandAck)>>)
    BY PlainIsByte, ShortBytes
  <2> QED BY <2>1 DEF LockEvent, IsBytes
<1>2. /\ events' \in 0..MaxEvents /\ granted \in Nat \cup {NotGranted} /\ odd \in BOOLEAN
      /\ UNCHANGED <<written, lockCryptor, granted, odd>>
  BY EventsAreBounded DEF LockEvent, SessionInductive, SessionTypeOK
<1>3. UNCHANGED <<waits, key, sent, taken>>
  BY <1>1 DEF Sends, Packet, session
<1>4. /\ ReadyForCommand => ReadyForCommand'
      /\ \A said : LockSays(said) => LockSays(said)'
      /\ CommandAnswered => CommandAnswered'
  BY <1>2, <1>3, AllStays DEF CommandAnswered
<1>5. LockInStep'
  <2>1. \A i \in 1..Len(sent') : (sent[i] \in Empty \/ LockSays(sent[i]))'
    BY <1>3, <1>4, StillSaid DEF SessionInductive, SessionInvariant
  <2>2. /\ waits' = "ack" => ReadyForCommand'
        /\ granted' # NotGranted => CommandAnswered'
    BY <1>2, <1>3, <1>4 DEF SessionInductive, SessionInvariant, LockInStep
  <2> QED BY <2>1, <2>2 DEF LockInStep
<1>6. OneReplyEach'
  BY <1>2, <1>3, <1>4, StillOneReply DEF SessionInductive, SessionInvariant
<1>7. EventPacket \in Nat /\ ~ IsError(EventPacket)
  BY DEF EventPacket, IsError
<1> QED BY <1>1, <1>2, <1>5, <1>6, <1>7, LockStep

-----------------------------------------------------------------------------
(* The client's steps                                                      *)

\* The lock is in step with whatever the client does, but the command.
LEMMA LockStays ==
    ASSUME SessionInductive, UNCHANGED <<key, lockCryptor, granted, sent>>,
           waits' = "ack" => ReadyForCommand, CommandAnswered => CommandAnswered'
    PROVE  LockInStep' /\ \A said : LockSays(said) => LockSays(said)'
<1>1. /\ ReadyForCommand => ReadyForCommand'
      /\ \A said : LockSays(said) => LockSays(said)'
  BY AllStays
<1>2. \A i \in 1..Len(sent') : (sent[i] \in Empty \/ LockSays(sent[i]))'
  BY <1>1, StillSaid DEF SessionInductive, SessionInvariant
<1>3. /\ waits' = "ack" => ReadyForCommand'
      /\ granted' # NotGranted => CommandAnswered'
  BY <1>1 DEF SessionInductive, SessionInvariant, LockInStep
<1> QED BY <1>1, <1>2, <1>3 DEF LockInStep

\* The packet that is next is one of the lock's, and while it is not odd, its
\* reply to what the client said last.
LEMMA NextIs ==
    ASSUME SessionInductive, packets # <<>>
    PROVE  /\ Head(packets) \in Empty \/ LockSays(Head(packets))
           /\ Talking /\ ~ odd =>
                  /\ written = NoPacket /\ Len(sent) = Len(taken) + 1
                  /\ key = RightKey =>
                        \/ Head(packets).type \in {ClientBlocked, HandshakeExpired}
                        \/ Head(packets).type = Expected[waits] /\ LockSays(Head(packets))
<1>1. /\ Len(taken) \in Nat /\ Len(sent) \in Nat /\ Len(taken) + 1 \in 1..Len(sent)
      /\ Head(packets) = sent[Len(taken) + 1]
  BY NextReply DEF SessionInductive, SessionInvariant
<1>2. Head(packets) \in Empty \/ LockSays(Head(packets))
  BY <1>1 DEF SessionInductive, SessionInvariant, LockInStep
<1>3. ASSUME Talking, ~ odd
      PROVE  /\ written = NoPacket /\ Len(sent) = Len(taken) + 1
             /\ key = RightKey =>
                   \/ Head(packets).type \in {ClientBlocked, HandshakeExpired}
                   \/ Head(packets).type = Expected[waits] /\ LockSays(Head(packets))
  <2>1. Len(sent) = Len(taken) + IF written = NoPacket THEN 1 ELSE 0
    BY <1>3 DEF SessionInductive, SessionInvariant, OneReplyEach
  <2>2. written = NoPacket /\ Len(sent) = Len(taken) + 1
    BY <1>1, <2>1
  <2>3. Last(sent) = Head(packets)
    BY <1>1, <2>2 DEF Last
  <2> QED BY <1>3, <2>2, <2>3 DEF SessionInductive, SessionInvariant, OneReplyEach
<1> QED BY <1>2, <1>3

LEMMA HangUpStep ==
    ASSUME SessionInductive, Talking, NEW what \in {"refused", "unexpected", "failed"},
           HangUp(what), timedOut' \in BOOLEAN, UNCHANGED <<key, buffer, connection, lock>>,
           Lists', RestIsComing', what = "unexpected" => odd \/ key # RightKey
    PROVE  SessionInductive'
<1>1. /\ waits' = "hangUp" /\ error' = what /\ written' = NoPacket
      /\ UNCHANGED <<outcome, seconds, clientResponse, cryptor, key, buffer,
                     linked, oldLink, disconnecting, lockCryptor, granted, events, sent, odd>>
  BY DEF HangUp, connection, lock
<1>2. waits \in {"response", "finished", "ack"}
  BY DEF Talking, Expected
<1>3. LockInStep'
  BY <1>1, LockStays DEF CommandAnswered
<1>4. ClientInStep' /\ OneReplyEach'
  BY <1>1 DEF ClientInStep, OneReplyEach, Talking, Expected
<1>5. OneLink'
  BY <1>1, <1>2 DEF OneLink, SessionInductive, SessionInvariant
<1>6. outcome = "none"
  BY <1>2 DEF SessionInductive, SessionTypeOK
<1>7. Understood' /\ ResultIsReal'
  BY <1>1, <1>6 DEF Understood, ResultIsReal
<1>8. SessionTypeOK'
  <2>1. EventPacket \notin {packets'[i].type : i \in DOMAIN packets'}
    BY <1>3, NoEventThen
  <2>2. Received(buffer') = [packets |-> <<>>, rest |-> buffer']
    BY <1>1 DEF SessionInductive, SessionTypeOK
  <2> QED BY <1>1, <1>6, <2>1, <2>2 DEF SessionInductive, SessionTypeOK
<1> QED BY <1>3, <1>4, <1>5, <1>7, <1>8 DEF SessionInductive, SessionInvariant

LEMMA ConnectsStep == SessionInductive /\ Connects => SessionInductive'
<1> SUFFICES ASSUME SessionInductive, Connects PROVE SessionInductive'
  OBVIOUS
<1>1. /\ waits = "connecting" /\ waits' = "response" /\ linked' = TRUE
      /\ written' = Packet(StartHandshake, <<Plain(Payload)>>)
      /\ UNCHANGED <<outcome, seconds, error, timedOut, key, buffer, packets, clientResponse,
                     cryptor, taken, oldLink, disconnecting, notified, lockCryptor,
                     granted, events, sent, odd>>
  BY DEF Connects, Call, ending, session, lock
<1>2. Lists' /\ RestIsComing'
  <2>1. Lists /\ RestIsComing
    BY DEF SessionInductive, SessionInvariant
  <2> QED BY <1>1, <2>1 DEF Lists, RestIsComing
<1>3. LockInStep'
  BY <1>1, LockStays DEF CommandAnswered
<1>4. ClientInStep'
  BY <1>1 DEF ClientInStep, Talking, Expected, Says
<1>5. OneLink'
  BY <1>1 DEF OneLink, SessionInductive, SessionInvariant
<1>6. written' # NoPacket
  BY <1>1 DEF NoPacket, Packet, StartHandshake
<1>7. OneReplyEach'
  <2>1. sent = <<>>
    BY <1>1 DEF SessionInductive, SessionInvariant, OneLink
  <2>2. taken = <<>> /\ Len(taken) \in Nat
    BY <2>1, TakenOfSent DEF SessionInductive, SessionInvariant
  <2>3. Len(sent') = Len(taken') + 0
    BY <1>1, <2>1, <2>2
  <2> QED BY <1>6, <2>3 DEF OneReplyEach
<1>8. outcome = "none"
  BY <1>1 DEF SessionInductive, SessionTypeOK
<1>9. Understood' /\ ResultIsReal'
  BY <1>1, <1>8 DEF Understood, ResultIsReal, SessionInductive, SessionInvariant
<1>10. SessionTypeOK'
  <2>1. EventPacket \notin {packets'[i].type : i \in DOMAIN packets'}
    BY <1>2, <1>3, NoEventThen
  <2>2. Received(buffer') = [packets |-> <<>>, rest |-> buffer']
    BY <1>1 DEF SessionInductive, SessionTypeOK
  <2> QED BY <1>1, <1>8, <2>1, <2>2 DEF SessionInductive, SessionTypeOK, Expected
<1> QED BY <1>2, <1>3, <1>4, <1>5, <1>7, <1>9, <1>10 DEF SessionInductive, SessionInvariant

\* While it only receives.
LEMMA ReceivedStep == SessionInductive /\ DataReceived => SessionInductive'
<1> SUFFICES ASSUME SessionInductive, DataReceived PROVE SessionInductive'
  OBVIOUS
<1>1. UNCHANGED <<waits, outcome, seconds, error, timedOut, key, clientResponse, cryptor, taken,
                  linked, oldLink, disconnecting, written, lockCryptor, granted, events, sent, odd>>
  BY DEF DataReceived, ending, connection
<1>2. Lists' /\ RestIsComing' /\ Received(buffer') = [packets |-> <<>>, rest |-> buffer']
  BY ReceivesStep DEF SessionInductive, SessionInvariant
<1>3. LockInStep' /\ \A said : LockSays(said) => LockSays(said)'
  <2>1. waits' = "ack" => ReadyForCommand
    BY <1>1 DEF SessionInductive, SessionInvariant, LockInStep
  <2> QED BY <1>1, <2>1, LockStays DEF CommandAnswered
<1>4. OneReplyEach'
  BY <1>1, <1>3, StillOneReply DEF SessionInductive, SessionInvariant
<1>5. ClientInStep'
  <2>1. ClientInStep /\ Says' = Says /\ Response' = Response /\ ForCommand' = ForCommand
    BY <1>1, KeyStays DEF SessionInductive, SessionInvariant
  <2> QED BY <1>1, <2>1 DEF ClientInStep, Talking
<1>6. OneLink' /\ Understood' /\ ResultIsReal'
  BY <1>1 DEF OneLink, Understood, ResultIsReal, SessionInductive, SessionInvariant
<1>7. SessionTypeOK'
  <2>1. EventPacket \notin {packets'[i].type : i \in DOMAIN packets'}
    BY <1>2, <1>3, NoEventThen
  <2> QED BY <1>1, <1>2, <2>1 DEF SessionInductive, SessionTypeOK
<1> QED BY <1>2, <1>3, <1>4, <1>5, <1>6, <1>7 DEF SessionInductive, SessionInvariant

\* A packet is taken.
LEMMA ReplyTaken ==
    ASSUME SessionInductive, NEW call \in DOMAIN Expected, Reply(call)
    PROVE  /\ Talking /\ waits = call /\ packets # <<>>
           /\ Lists' /\ RestIsComing'
           /\ UNCHANGED <<timedOut, key, buffer, connection, lock>>
           /\ taken' = Append(taken, Head(packets))
           /\ timedOut' \in BOOLEAN
<1>1. /\ waits = call /\ packets # <<>>
      /\ packets' = Tail(packets) /\ taken' = Append(taken, Head(packets))
      /\ UNCHANGED <<timedOut, key, buffer, connection, lock>>
  BY DEF Reply
<1>2. UNCHANGED <<buffer, notified, sent>>
  BY <1>1 DEF lock
<1>3. Lists' /\ RestIsComing'
  BY <1>1, <1>2, TakesStep DEF SessionInductive, SessionInvariant
<1> QED BY <1>1, <1>3 DEF Talking, SessionInductive, SessionTypeOK

LEMMA UnexpectedStep == SessionInductive /\ UnexpectedReply => SessionInductive'
<1> SUFFICES ASSUME SessionInductive, NEW call \in DOMAIN Expected, Reply(call),
                    Head(packets).type # Expected[call],
                    NEW what, what = (IF Head(packets).type \in {ClientBlocked, HandshakeExpired}
                                      THEN "refused" ELSE "unexpected"),
                    HangUp(what)
             PROVE  SessionInductive'
  BY DEF UnexpectedReply
<1>1. /\ Talking /\ waits = call /\ packets # <<>> /\ Lists' /\ RestIsComing'
      /\ timedOut' \in BOOLEAN /\ UNCHANGED <<key, buffer, connection, lock>>
  BY ReplyTaken
<1>2. what = "unexpected" => odd \/ key # RightKey
  BY <1>1, NextIs
<1>3. what \in {"refused", "unexpected", "failed"}
  OBVIOUS
<1> QED BY <1>1, <1>2, <1>3, HangUpStep

\* The conversation goes on.
LEMMA CallStep ==
    ASSUME SessionInductive, NEW call \in {"response", "finished"}, Reply(call),
           NEW type \in {HandshakeClientResponse, Command}, NEW payload,
           NEW next \in {"finished", "ack"}, Call(type, payload, next),
           Packet(type, payload) = Says[next], next = "ack" => ReadyForCommand,
           clientResponse' = Response, next = "ack" => cryptor' = After(ForCommand, TheCommand)
    PROVE  SessionInductive'
<1>1. /\ Talking /\ waits = call /\ packets # <<>> /\ Lists' /\ RestIsComing'
      /\ taken' = Append(taken, Head(packets))
      /\ UNCHANGED <<timedOut, key, buffer, linked, oldLink, disconnecting,
                     notified, lockCryptor, granted, events, sent, odd>>
  <2>1. call \in DOMAIN Expected
    BY DEF Expected
  <2> QED BY <2>1, ReplyTaken DEF connection, lock
<1>2. /\ waits' = next /\ written' = Packet(type, payload)
      /\ UNCHANGED <<outcome, seconds, error>>
  BY DEF Call, ending
<1>3. waits \in {"response", "finished", "ack"}
  BY <1>1 DEF Expected
<1>4. LockInStep'
  <2>1. ~ CommandAnswered
    BY <1>1 DEF CommandAnswered
  <2> QED BY <1>1, <1>2, <2>1, LockStays
<1>5. Says' = Says /\ Response' = Response /\ ForCommand' = ForCommand
  BY <1>1, KeyStays
<1>6. ClientInStep'
  BY <1>2, <1>5 DEF ClientInStep, Talking, Expected
<1>7. OneLink'
  BY <1>1, <1>2, <1>3 DEF OneLink, SessionInductive, SessionInvariant
<1>8. written' # NoPacket
  BY <1>2 DEF NoPacket, Packet, HandshakeClientResponse, Command
<1>9. OneReplyEach'
  <2>1. ASSUME ~ odd PROVE Len(sent') = Len(taken') + 0
    <3>1. Len(sent) = Len(taken) + 1
      BY <1>1, <2>1, NextIs
    <3>2. Len(taken') = Len(taken) + 1 /\ Len(taken) \in Nat
      BY <1>1, NextReply DEF SessionInductive, SessionInvariant
    <3> QED BY <1>1, <3>1, <3>2
  <2> QED BY <1>1, <1>8, <2>1 DEF OneReplyEach
<1>10. outcome = "none"
  BY <1>3 DEF SessionInductive, SessionTypeOK
<1>11. Understood' /\ ResultIsReal'
  BY <1>1, <1>2, <1>10 DEF Understood, ResultIsReal, SessionInductive, SessionInvariant
<1>12. SessionTypeOK'
  <2>1. EventPacket \notin {packets'[i].type : i \in DOMAIN packets'}
    BY <1>1, <1>4, NoEventThen
  <2>2. Received(buffer') = [packets |-> <<>>, rest |-> buffer']
    BY <1>1 DEF SessionInductive, SessionTypeOK
  <2>3. waits' = "ack" => cryptor' # NoCryptor
    <3>1. NoCryptor.counter = 0
      BY CryptorIs DEF NoCryptor
    <3>2. After(ForCommand, TheCommand).counter # 0
      BY CommandCiphers
    <3> QED BY <1>2, <3>1, <3>2
  <2>4. linked = TRUE
    BY <1>3 DEF SessionInductive, SessionInvariant, SessionTypeOK, OneLink
  <2> QED BY <1>1, <1>2, <1>10, <2>1, <2>2, <2>3, <2>4 DEF SessionInductive, SessionTypeOK, Expected
<1> QED BY <1>1, <1>4, <1>6, <1>7, <1>9, <1>11, <1>12 DEF SessionInductive, SessionInvariant

LEMMA OneOf ==
    ASSUME NEW S, NEW s \in Seq(S), NEW i \in 1..Len(s)
    PROVE  SubSeq(s, i, i) = <<s[i]>>
<1>1. PICK t : t = SubSeq(s, i, i)
  OBVIOUS
<1>2. s[i] \in S /\ i \in Int
  BY ElementOfSeq, LenProperties
<1>3. t \in Seq(S) /\ Len(t) = 1 /\ t[1] = s[i]
  <2>1. \A k \in i..i : s[k] \in S
    BY <1>2
  <2>2. i - i + 1 = 1 /\ i + 1 - 1 = i /\ i <= i
    BY <1>2
  <2> QED BY <1>1, <1>2, <2>1, <2>2, SubSeqProperties
<1>4. <<s[i]>> \in Seq(S) /\ Len(<<s[i]>>) = 1 /\ <<s[i]>>[1] = s[i]
  BY <1>2
<1>5. \A k \in 1..Len(t) : t[k] = <<s[i]>>[k]
  BY <1>3, <1>4
<1> QED BY <1>1, <1>3, <1>4, <1>5, SeqEqual

LEMMA RespondsStep == SessionInductive /\ HandshakeResponds => SessionInductive'
<1> SUFFICES ASSUME SessionInductive, HandshakeResponds PROVE SessionInductive'
  OBVIOUS
<1>1. Reply("response") /\ Head(packets).type = HandshakeResponse /\ "response" \in DOMAIN Expected
  BY DEF HandshakeResponds, Answered, Expected
<1>2. /\ Talking /\ waits = "response" /\ packets # <<>> /\ Lists' /\ RestIsComing'
      /\ timedOut' \in BOOLEAN /\ UNCHANGED <<key, buffer, connection, lock>>
  BY <1>1, ReplyTaken
<1>3. PICK packet : packet = Head(packets) /\ (packet \in Empty \/ LockSays(packet))
                    /\ packet.type = HandshakeResponse /\ packet.payload = Answer
  BY <1>1, <1>2, NextIs DEF Answer
<1>4. \/ Answer = <<>> /\ ~ LockSays(packet)
      \/ Answer = <<Plain(Nonce), Plain(Challenge)>>
  BY <1>3 DEF Empty, LockSays, Packet, HandshakeResponse, HandshakeFinished, CommandAck
<1>5. CASE Len(Answer) < 2
  <2>1. Answer = <<>> /\ ~ LockSays(packet)
    BY <1>4, <1>5
  <2>2. odd \/ key # RightKey
    BY <1>2, <1>3, <2>1, NextIs DEF ClientBlocked, HandshakeExpired, HandshakeResponse
  <2>3. HangUp("unexpected")
    BY <1>5 DEF HandshakeResponds
  <2> QED BY <1>2, <2>2, <2>3, HangUpStep
<1>6. CASE ~ (Len(Answer) < 2)
  <2>1. Answer = <<Plain(Nonce), Plain(Challenge)>>
    BY <1>4, <1>6
  <2>2. SubSeq(Answer, 2, 2) = <<Plain(Challenge)>>
    <3>1. PICK s, S : s = <<Plain(Nonce), Plain(Challenge)>> /\ S = {Plain(Nonce), Plain(Challenge)}
      OBVIOUS
    <3>2. s \in Seq(S) /\ Len(s) = 2 /\ s[2] = Plain(Challenge)
      BY <3>1
    <3>3. SubSeq(s, 2, 2) = <<s[2]>>
      <4>1. 2 \in 1..Len(s)
        BY <3>2
      <4> QED BY <3>2, <4>1, OneOf
    <3> QED BY <2>1, <3>1, <3>2, <3>3
  <2>3. Process(Cryptor(key), SubSeq(Answer, 2, 2)) \o <<Plain(OurChallenge)>> = Response
    BY <2>2 DEF Response
  <2>4. PICK payload : payload = Process(After(Cryptor(key), <<Plain(Challenge)>>), Response)
    OBVIOUS
  <2>5. clientResponse' = Response /\ Call(HandshakeClientResponse, payload, "finished")
    BY <1>6, <2>2, <2>3, <2>4 DEF HandshakeResponds
  <2>6. Packet(HandshakeClientResponse, payload) = Says["finished"]
    BY <2>4 DEF Says
  <2> QED BY <1>1, <2>5, <2>6, CallStep
<1> QED BY <1>5, <1>6

LEMMA FinishStep == SessionInductive /\ HandshakeFinishes => SessionInductive'
<1> SUFFICES ASSUME SessionInductive, HandshakeFinishes PROVE SessionInductive'
  OBVIOUS
<1>1. Reply("finished") /\ Head(packets).type = HandshakeFinished /\ "finished" \in DOMAIN Expected
  BY DEF HandshakeFinishes, Answered, Expected
<1>2. /\ Talking /\ waits = "finished" /\ packets # <<>> /\ Lists' /\ RestIsComing'
      /\ timedOut' \in BOOLEAN /\ UNCHANGED <<key, buffer, connection, lock>>
  BY <1>1, ReplyTaken
<1>3. PICK packet : packet = Head(packets) /\ (packet \in Empty \/ LockSays(packet))
                    /\ packet.type = HandshakeFinished /\ packet.payload = Answer
  BY <1>1, <1>2, NextIs DEF Answer
<1>4. PICK c : c = Cryptor(clientResponse)
  OBVIOUS
<1>5. /\ Process(c, Answer) = Confirmation => ReadyForCommand /\ Len(Answer) = 2
      /\ LockSays(packet) => Process(c, Answer) = Confirmation
  BY <1>2, <1>3, <1>4, FinishedRead DEF SessionInductive, SessionInvariant
<1>6. CASE Process(c, Answer) # Confirmation
  <2>1. HangUp("unexpected")
    BY <1>4, <1>6 DEF HandshakeFinishes, Confirmation
  <2>2. odd \/ key # RightKey
    BY <1>2, <1>3, <1>5, <1>6, NextIs DEF ClientBlocked, HandshakeExpired, HandshakeFinished
  <2> QED BY <1>2, <2>1, <2>2, HangUpStep
<1>7. CASE Process(c, Answer) = Confirmation
  <2>1. ReadyForCommand /\ Len(Answer) = 2 /\ clientResponse = Response
    BY <1>2, <1>5, <1>7 DEF SessionInductive, SessionInvariant, ClientInStep
  <2>2. After(c, Answer) = ForCommand
    BY <1>4, <2>1, CommandCiphers
  <2>3. PICK payload : payload = Process(ForCommand, TheCommand)
    OBVIOUS
  <2>4. /\ cryptor' = After(ForCommand, TheCommand) /\ Call(Command, payload, "ack")
        /\ clientResponse' = Response
    BY <1>4, <1>7, <2>1, <2>2, <2>3 DEF HandshakeFinishes, Confirmation
  <2>5. Packet(Command, payload) = Says["ack"]
    BY <2>3 DEF Says
  <2> QED BY <1>1, <2>1, <2>4, <2>5, CallStep
<1> QED BY <1>6, <1>7

LEMMA AcknowledgedStep == SessionInductive /\ CommandAcknowledged => SessionInductive'
<1> SUFFICES ASSUME SessionInductive, CommandAcknowledged PROVE SessionInductive'
  OBVIOUS
<1>1. /\ waits = "ack" /\ packets # <<>> /\ Head(packets).type = CommandAck
      /\ Talking /\ "ack" \in DOMAIN Expected
  BY DEF CommandAcknowledged, Talking, Expected
<1>2. PICK packet : packet = Head(packets) /\ (packet \in Empty \/ LockSays(packet))
                    /\ packet.type = CommandAck /\ packet.payload = Answer
  BY <1>1, NextIs DEF Answer
<1>3. PICK ack : ack = Process(cryptor, Answer)
  OBVIOUS
<1>4. \/ ack = <<>> /\ ~ LockSays(packet)
      \/ ack \in Acks /\ (Granted(ack) => granted = Activation(ack))
  BY <1>1, <1>2, <1>3, AckRead DEF SessionInductive, SessionInvariant
<1>5. CASE Granted(ack)
  <2>1. ack \in Acks /\ granted = Activation(ack) /\ granted \in Nat
    BY <1>4, <1>5, AcksAre DEF Granted
  <2>2. granted # NotGranted
    BY <2>1 DEF NotGranted
  <2>3. written = NoPacket
    BY <2>2 DEF SessionInductive, SessionInvariant, LockInStep, CommandAnswered
  <2>4. /\ waits' = "ended" /\ outcome' = "ok" /\ seconds' = granted
        /\ packets' = Tail(packets) /\ taken' = Append(taken, Head(packets))
        /\ linked' = FALSE /\ oldLink' = TRUE /\ disconnecting' = "running"
        /\ UNCHANGED <<error, timedOut, key, buffer, clientResponse, written, notified,
                       lockCryptor, granted, events, sent, odd>>
    BY <1>3, <1>5, <2>1 DEF CommandAcknowledged, lock
  <2>5. Lists' /\ RestIsComing'
    BY <1>1, <2>4, TakesStep DEF SessionInductive, SessionInvariant
  <2>6. LockInStep'
    BY <2>3, <2>4, LockStays DEF CommandAnswered
  <2>7. ClientInStep' /\ OneReplyEach' /\ OneLink'
    BY <2>3, <2>4 DEF ClientInStep, OneReplyEach, OneLink, Talking, Expected, NoPacket
  <2>8. Understood' /\ ResultIsReal'
    BY <2>4 DEF Understood, ResultIsReal, SessionInductive, SessionInvariant
  <2>9. SessionTypeOK'
    <3>1. EventPacket \notin {packets'[i].type : i \in DOMAIN packets'}
      BY <2>5, <2>6, NoEventThen
    <3>2. Received(buffer') = [packets |-> <<>>, rest |-> buffer']
      BY <2>4 DEF SessionInductive, SessionTypeOK
    <3>3. written' = NoPacket'
      BY <2>3, <2>4 DEF NoPacket
    <3> QED BY <2>1, <2>4, <3>1, <3>2, <3>3 DEF SessionInductive, SessionTypeOK
  <2> QED BY <2>5, <2>6, <2>7, <2>8, <2>9 DEF SessionInductive, SessionInvariant
<1>6. CASE ~ Granted(ack)
  <2>1. PICK what : /\ what = IF ack # <<>> /\ ack[1].by = {} THEN "refused" ELSE "unexpected"
                    /\ HangUp(what)
    BY <1>3, <1>6 DEF CommandAcknowledged
  <2>2. Reply("ack")
    BY <1>3, <1>6 DEF CommandAcknowledged
  <2>3. /\ Lists' /\ RestIsComing'
        /\ timedOut' \in BOOLEAN /\ UNCHANGED <<key, buffer, connection, lock>>
    BY <1>1, <2>2, ReplyTaken
  <2>4. what = "unexpected" => odd \/ key # RightKey
    <3>1. SUFFICES ASSUME what = "unexpected", ~ odd, key = RightKey PROVE FALSE
      OBVIOUS
    <3>2. ~ (ack \in Acks)
      BY <2>1, <3>1, AcksAre
    <3>3. ~ LockSays(packet)
      BY <1>4, <3>2
    <3> QED BY <1>1, <1>2, <3>1, <3>3, NextIs DEF ClientBlocked, HandshakeExpired, CommandAck
  <2>5. what \in {"refused", "unexpected", "failed"}
    BY <2>1
  <2> QED BY <1>1, <2>1, <2>3, <2>4, <2>5, HangUpStep
<1> QED BY <1>5, <1>6

\* The conversation is over.
LEMMA EndsStep ==
    ASSUME SessionInductive, waits \in {"connecting", "hangUp"}, waits' = "ended",
           outcome' \in {"error", "raised"}, error' \in {error, "failed"}, timedOut' \in BOOLEAN,
           linked' \in BOOLEAN, oldLink' \in BOOLEAN,
           UNCHANGED <<seconds, key, buffer, packets, clientResponse, cryptor, taken,
                       disconnecting, written, lock>>
    PROVE  SessionInductive'
<1>1. UNCHANGED <<notified, lockCryptor, granted, events, sent, odd>>
  BY DEF lock
<1>2. Lists' /\ RestIsComing'
  <2>1. Lists /\ RestIsComing
    BY DEF SessionInductive, SessionInvariant
  <2> QED BY <1>1, <2>1 DEF Lists, RestIsComing
<1>3. ~ Talking /\ written = NoPacket
  BY DEF Talking, Expected, SessionInductive, SessionInvariant, ClientInStep
<1>4. LockInStep'
  BY <1>1, <1>3, LockStays DEF CommandAnswered
<1>5. ClientInStep' /\ OneReplyEach' /\ OneLink'
  BY <1>3 DEF ClientInStep, OneReplyEach, OneLink, Talking, Expected, NoPacket
<1>6. Understood' /\ ResultIsReal'
  BY <1>1 DEF Understood, ResultIsReal, SessionInductive, SessionInvariant
<1>7. SessionTypeOK'
  <2>1. EventPacket \notin {packets'[i].type : i \in DOMAIN packets'}
    BY <1>2, <1>4, NoEventThen
  <2>2. Received(buffer') = [packets |-> <<>>, rest |-> buffer']
    BY DEF SessionInductive, SessionTypeOK
  <2>3. written' = NoPacket'
    BY <1>3 DEF NoPacket
  <2> QED BY <1>1, <2>1, <2>2, <2>3 DEF SessionInductive, SessionTypeOK
<1> QED BY <1>2, <1>4, <1>5, <1>6, <1>7 DEF SessionInductive, SessionInvariant

LEMMA FailsStep == SessionInductive /\ Fails => SessionInductive'
<1> SUFFICES ASSUME SessionInductive, Fails PROVE SessionInductive'
  OBVIOUS
<1>1. timedOut' \in BOOLEAN /\ UNCHANGED <<key, buffer, packets, taken, connection, lock>>
  BY DEF Fails
<1>2. CASE waits = "connecting"
  <2>1. /\ waits' = "ended" /\ outcome' = "error" /\ error' = "failed"
        /\ UNCHANGED <<seconds, clientResponse, cryptor, written>>
    BY <1>2 DEF Fails, Talking, Expected
  <2>2. linked' \in BOOLEAN /\ oldLink' \in BOOLEAN /\ UNCHANGED disconnecting
    BY <1>1 DEF connection, SessionInductive, SessionTypeOK
  <2> QED BY <1>1, <1>2, <2>1, <2>2, EndsStep
<1>3. CASE waits # "connecting"
  <2>1. Talking /\ HangUp("failed")
    BY <1>3 DEF Fails
  <2>2. UNCHANGED <<buffer, packets, taken, notified, sent>>
    BY <1>1 DEF lock
  <2>3. Lists' /\ RestIsComing'
    <3>1. Lists /\ RestIsComing
      BY DEF SessionInductive, SessionInvariant
    <3> QED BY <2>2, <3>1 DEF Lists, RestIsComing
  <2> QED BY <1>1, <2>1, <2>3, HangUpStep
<1> QED BY <1>2, <1>3

LEMMA HangsUpStep == SessionInductive /\ HangsUp => SessionInductive'
<1> SUFFICES ASSUME SessionInductive, HangsUp PROVE SessionInductive'
  OBVIOUS
<1>1. /\ waits = "hangUp" /\ waits' = "ended" /\ linked' = FALSE
      /\ outcome' \in {"error", "raised"} /\ oldLink' \in {oldLink, TRUE}
      /\ UNCHANGED <<seconds, error, timedOut, key, buffer, packets, clientResponse, cryptor,
                     taken, disconnecting, written, lock>>
  BY DEF HangsUp, session
<1>2. oldLink' \in BOOLEAN /\ timedOut' \in BOOLEAN
  BY <1>1 DEF SessionInductive, SessionTypeOK
<1> QED BY <1>1, <1>2, EndsStep

\* Only the connection changes, once the conversation is over; or nothing.
LEMMA RestStays ==
    ASSUME SessionInductive,
           UNCHANGED <<waits, ending, key, session, linked, written, lock>>,
           \/ UNCHANGED <<oldLink, disconnecting>>
           \/ /\ disconnecting = "running"
              /\ oldLink' = FALSE /\ disconnecting' \in {"done", "raised"}
    PROVE  SessionInductive'
<1>1. UNCHANGED <<waits, outcome, seconds, error, timedOut, key, buffer, packets,
                  clientResponse, cryptor, taken, linked, written, notified, lockCryptor,
                  granted, events, sent, odd>>
  BY DEF ending, session, lock
<1>2. Lists' /\ RestIsComing'
  <2>1. Lists /\ RestIsComing
    BY DEF SessionInductive, SessionInvariant
  <2> QED BY <1>1, <2>1 DEF Lists, RestIsComing
<1>3. LockInStep' /\ \A said : LockSays(said) => LockSays(said)'
  <2>1. waits' = "ack" => ReadyForCommand
    BY <1>1 DEF SessionInductive, SessionInvariant, LockInStep
  <2> QED BY <1>1, <2>1, LockStays DEF CommandAnswered
<1>4. OneReplyEach'
  BY <1>1, <1>3, StillOneReply DEF SessionInductive, SessionInvariant
<1>5. ClientInStep'
  <2>1. ClientInStep /\ Says' = Says /\ Response' = Response /\ ForCommand' = ForCommand
    BY <1>1, KeyStays DEF SessionInductive, SessionInvariant
  <2> QED BY <1>1, <2>1 DEF ClientInStep, Talking
<1>6. OneLink' /\ Understood' /\ ResultIsReal'
  BY <1>1 DEF OneLink, Understood, ResultIsReal, SessionInductive, SessionInvariant
<1>7. SessionTypeOK'
  <2>1. EventPacket \notin {packets'[i].type : i \in DOMAIN packets'}
    BY <1>2, <1>3, NoEventThen
  <2>2. Received(buffer') = [packets |-> <<>>, rest |-> buffer']
    BY <1>1 DEF SessionInductive, SessionTypeOK
  <2>3. oldLink' \in BOOLEAN /\ disconnecting' \in {"none", "running", "done", "raised"}
    <3>1. oldLink \in BOOLEAN /\ disconnecting \in {"none", "running", "done", "raised"}
      BY DEF SessionInductive, SessionTypeOK
    <3>2. \/ oldLink' = oldLink /\ disconnecting' = disconnecting
          \/ oldLink' = FALSE /\ disconnecting' \in {"done", "raised"}
      OBVIOUS
    <3> QED BY <3>1, <3>2
  <2> QED BY <1>1, <2>1, <2>2, <2>3 DEF SessionInductive, SessionTypeOK
<1> QED BY <1>2, <1>3, <1>4, <1>5, <1>6, <1>7 DEF SessionInductive, SessionInvariant

LEMMA SessionStep == SessionInductive /\ [SessionNext]_sessionVars => SessionInductive'
<1>1. ASSUME SessionInductive, DisconnectEnds PROVE SessionInductive'
  BY <1>1, RestStays DEF DisconnectEnds
<1>2. ASSUME SessionInductive, UNCHANGED sessionVars PROVE SessionInductive'
  BY <1>2, RestStays DEF sessionVars, connection
<1>3. Over => UNCHANGED sessionVars
  BY DEF Over
<1> QED
  BY <1>1, <1>2, <1>3, StartsStep, FinishesStep, ExecutesStep, RefusesStep, IsOddStep, EventStep,
     ConnectsStep, ReceivedStep, UnexpectedStep, RespondsStep, FinishStep, AcknowledgedStep,
     FailsStep, HangsUpStep DEF SessionNext

LEMMA SessionStart == SessionInit => SessionInductive
<1> SUFFICES ASSUME SessionInit PROVE SessionInductive
  OBVIOUS
<1>1. /\ waits = "connecting" /\ outcome = "none" /\ seconds = 0 /\ error = "none" /\ timedOut = FALSE
      /\ key \in {RightKey, OldKey}
      /\ buffer = <<>> /\ packets = <<>> /\ notified = <<>> /\ sent = <<>> /\ taken = <<>>
      /\ linked = FALSE /\ oldLink = FALSE /\ disconnecting = "none"
      /\ written = NoPacket /\ granted = NotGranted /\ events = 0 /\ odd = FALSE
  BY DEF SessionInit
<1>2. PICK none : none = <<>> /\ none \in Seq({}) /\ Len(none) = 0 /\ none \o none = none
  <2>1. <<>> \in Seq({}) /\ Len(<<>>) = 0
    OBVIOUS
  <2> QED BY <2>1, ConcatEmptySeq
<1>3. Received(none) = [packets |-> <<>>, rest |-> none]
  <2>1. ~ Starts(none)
    BY <1>2 DEF Starts, StartsWithError, StartsWithPacket
  <2> QED BY <1>2, <2>1, ReceivedIs
<1>4. Lists
  BY <1>1, <1>2 DEF Lists, IsList
<1>5. RestIsComing
  <2>1. buffer = none /\ notified = none /\ sent = none /\ taken = none /\ packets = none
    BY <1>1, <1>2
  <2>2. Received(buffer \o notified) = [packets |-> none, rest |-> none]
    BY <1>2, <1>3, <2>1
  <2>3. sent = taken \o packets \o none
    BY <1>2, <2>1
  <2> QED BY <1>2, <2>2, <2>3 DEF RestIsComing
<1>6. ClientInStep /\ OneReplyEach /\ OneLink /\ Understood /\ ResultIsReal
  BY <1>1 DEF ClientInStep, OneReplyEach, OneLink, Understood, ResultIsReal, Talking, Expected
<1>7. LockInStep
  <2>1. Len(sent) = 0
    BY <1>1, <1>2
  <2> QED BY <1>1, <2>1 DEF LockInStep
<1>8. SessionTypeOK
  <2>1. EventPacket \notin {packets[i].type : i \in DOMAIN packets}
    <3>1. \A i \in 1..Len(sent) : sent[i].type # EventPacket
      <4>1. Len(sent) = 0
        BY <1>1, <1>2
      <4> QED BY <4>1
    <3> QED BY <1>4, <1>5, <3>1, NoEvent
  <2>2. Received(buffer) = [packets |-> <<>>, rest |-> buffer]
    BY <1>1, <1>2, <1>3
  <2>3. 0 \in 0..MaxEvents /\ 0 \in Nat /\ NotGranted \in Nat \cup {NotGranted}
    BY EventsAreBounded
  <2> QED BY <1>1, <2>1, <2>2, <2>3 DEF SessionTypeOK
<1> QED BY <1>4, <1>5, <1>6, <1>7, <1>8 DEF SessionInductive, SessionInvariant

LEMMA SessionAlwaysInductive == SessionSpec => []SessionInductive
BY SessionStart, SessionStep, PTL DEF SessionSpec

-----------------------------------------------------------------------------
(* What BleSession promises                                                *)

\* Every variable of a conversation keeps its type: data_received never takes an
\* event for a reply, nor leaves a whole packet in its buffer.
THEOREM SessionTypeCorrect == SessionSpec => []SessionTypeOK
<1>1. SessionInductive => SessionTypeOK
  BY DEF SessionInductive
<1> QED BY <1>1, SessionAlwaysInductive, PTL

\* With the lock's key, and a lock that answers as it should, the client never
\* finds a reply unexpected: BoldCryptor's counter and the lock's stay in step.
THEOREM AlwaysUnderstood == SessionSpec => []Understood
<1>1. SessionInductive => Understood
  BY DEF SessionInductive, SessionInvariant
<1> QED BY <1>1, SessionAlwaysInductive, PTL

\* async_send_command returns the activation time of a command the lock carried
\* out, even if the lock repeats itself or sends what nobody asked for.
THEOREM EveryResultIsReal == SessionSpec => []ResultIsReal
<1>1. SessionInductive => ResultIsReal
  BY DEF SessionInductive, SessionInvariant
<1> QED BY <1>1, SessionAlwaysInductive, PTL

\* The bytes yet to come hold the rest.
LEMMA InductiveReassembled == SessionInductive => Reassembled
<1> SUFFICES ASSUME SessionInductive PROVE Reassembled
  OBVIOUS
<1>1. PICK S : /\ taken \in Seq(S) /\ packets \in Seq(S) /\ Coming.packets \in Seq(S)
               /\ sent \in Seq(S) /\ taken \o packets \in Seq(S)
               /\ sent = (taken \o packets) \o Coming.packets
  BY OfSent DEF SessionInductive, SessionInvariant
<1>2. PICK front, coming : front = taken \o packets /\ coming = Coming.packets
  OBVIOUS
<1>3. front \in Seq(S) /\ coming \in Seq(S) /\ sent = front \o coming
  BY <1>1, <1>2
<1>4. /\ Len(sent) = Len(front) + Len(coming) /\ Len(front) \in Nat /\ Len(coming) \in Nat
      /\ \A i \in 1..Len(front) + Len(coming) :
             sent[i] = IF i <= Len(front) THEN front[i] ELSE coming[i - Len(front)]
  BY <1>1, <1>3, ConcatProperties, LenProperties
<1>5. IsPrefix(front, sent)
  <2>1. PICK n \in Nat : n = Len(front) /\ n <= Len(sent)
    BY <1>4
  <2>2. PICK a, b : a = SubSeq(front, 1, n) /\ b = SubSeq(sent, 1, n)
    OBVIOUS
  <2>3. /\ \A i \in 1..n : front[i] \in S /\ sent[i] \in S /\ front[i] = sent[i]
        /\ 1 \in Int /\ n \in Int
    <3>1. \A i \in 1..n : i \in 1..Len(front) /\ i \in 1..Len(sent) /\ i \in 1..Len(front) + Len(coming)
      BY <1>4, <2>1
    <3> QED BY <1>1, <1>3, <1>4, <2>1, <3>1, ElementOfSeq
  <2>4. a \in Seq(S) /\ b \in Seq(S) /\ Len(a) = Len(b) /\ \A i \in 1..Len(a) : a[i] = b[i]
    <3>1. n - 1 + 1 = n /\ \A i \in 1..n : 1 + i - 1 = i
      OBVIOUS
    <3>2. a \in Seq(S) /\ Len(a) = (IF 1 <= n THEN n - 1 + 1 ELSE 0)
          /\ \A i \in 1..n - 1 + 1 : a[i] = front[1 + i - 1]
      BY <2>2, <2>3, SubSeqProperties
    <3>3. b \in Seq(S) /\ Len(b) = (IF 1 <= n THEN n - 1 + 1 ELSE 0)
          /\ \A i \in 1..n - 1 + 1 : b[i] = sent[1 + i - 1]
      BY <2>2, <2>3, SubSeqProperties
    <3>4. Len(a) \in 0..n /\ Len(a) = Len(b)
      BY <3>1, <3>2, <3>3
    <3> QED BY <2>3, <3>1, <3>2, <3>3, <3>4
  <2>5. a = b
    BY <2>4, SeqEqual
  <2> QED BY <2>1, <2>2, <2>5 DEF IsPrefix
<1>6. ASSUME notified = <<>> PROVE front = sent /\ buffer = <<>>
  <2>1. PICK T : buffer \in Seq(T)
    BY DEF SessionInductive, Lists, IsList
  <2>2. buffer \o notified = buffer
    BY <1>6, <2>1, ConcatEmptySeq
  <2>3. Coming = [packets |-> <<>>, rest |-> buffer] /\ Coming.rest = <<>>
    BY <2>2 DEF Coming, SessionInductive, SessionTypeOK, SessionInvariant, RestIsComing
  <2>4. coming = <<>> /\ buffer = <<>>
    BY <1>2, <2>3
  <2> QED BY <1>3, <2>4, ConcatEmptySeq
<1> QED BY <1>2, <1>5, <1>6 DEF Reassembled

\* However the bytes that the lock notifies are split and joined, and whatever
\* events are among them, data_received makes of them the packets it sent.
THEOREM AlwaysReassembled == SessionSpec => []Reassembled
BY InductiveReassembled, SessionAlwaysInductive, PTL

Followed == [Conversation!Proceeds(0) \/ Conversation!DisconnectEnds(0)]_(Conversation!vars)

\* A change to the function of the one entity.
LEMMA OneEntity ==
    ASSUME NEW a, NEW b
    PROVE  OfOne(a)[0] = a /\ OfOne(b) = [OfOne(a) EXCEPT ![0] = b]
<1>1. 0 \in 0 .. 0 /\ \A e \in 0 .. 0 : e = 0
  OBVIOUS
<1>2. OfOne(a)[0] = a
  BY <1>1 DEF OfOne
<1>3. OfOne(b) = [OfOne(a) EXCEPT ![0] = b]
  BY <1>1 DEF OfOne
<1> QED BY <1>2, <1>3

LEMMA StepChanges ==
    ASSUME NEW a, NEW b, CommandStep = a, CommandStep' = b
    PROVE  /\ OfOne(CommandStep)[0] = a
           /\ OfOne(CommandStep)' = [OfOne(CommandStep) EXCEPT ![0] = b]
<1>1. OfOne(CommandStep)' = OfOne(b) /\ OfOne(CommandStep) = OfOne(a)
  BY DEF OfOne
<1> QED BY <1>1, OneEntity

LEMMA OutcomeChanges ==
    ASSUME NEW b, outcome' = b
    PROVE  OfOne(outcome)' = [OfOne(outcome) EXCEPT ![0] = b]
<1>1. OfOne(outcome)' = OfOne(b)
  BY DEF OfOne
<1> QED BY <1>1, OneEntity

LEMMA LinkedChanges ==
    ASSUME NEW b, linked' = b
    PROVE  OfOne(linked)' = [OfOne(linked) EXCEPT ![0] = b]
<1>1. OfOne(linked)' = OfOne(b)
  BY DEF OfOne
<1> QED BY <1>1, OneEntity

LEMMA TaskChanges ==
    ASSUME NEW b, disconnecting' = b
    PROVE  /\ OfOne(disconnecting)[0] = disconnecting
           /\ OfOne(disconnecting)' = [OfOne(disconnecting) EXCEPT ![0] = b]
           /\ OfOne(disconnecting = "running")'
                = [OfOne(disconnecting = "running") EXCEPT ![0] = (b = "running")]
<1>1. OfOne(disconnecting)' = OfOne(b)
  BY DEF OfOne
<1>2. OfOne(disconnecting = "running")' = OfOne(b = "running")
  BY DEF OfOne
<1> QED BY <1>1, <1>2, OneEntity

LEMMA ExecutedChanges ==
    ASSUME granted' # NotGranted
    PROVE  OfOne(granted # NotGranted)' = [OfOne(granted # NotGranted) EXCEPT ![0] = TRUE]
<1>1. OfOne(granted # NotGranted)' = OfOne(TRUE)
  BY DEF OfOne
<1> QED BY <1>1, OneEntity

\* What is a step of LockCommand's is left as it is.
LEMMA NoStep ==
    ASSUME UNCHANGED <<granted, outcome, linked, oldLink, disconnecting>>,
           \/ UNCHANGED waits
           \/ waits = "response" /\ waits' = "finished"
    PROVE  Followed
BY DEF OfOne, CommandStep, Followed, Conversation!vars, Conversation!reach, Conversation!command, Conversation!links

LEMMA LockFollowed ==
    ASSUME SessionInductive, NEW packet, Sends(packet), UNCHANGED granted
    PROVE  Followed
BY NoStep DEF Sends, ending, connection

LEMMA ExecutesFollowed ==
    ASSUME SessionInductive, LockExecutes
    PROVE  Followed
<1>1. /\ written # NoPacket /\ written.type = Command
      /\ UNCHANGED <<waits, outcome, linked, oldLink, disconnecting>>
  BY DEF LockExecutes, Acknowledges, Replies, Sends, ending, connection
<1>2. waits = "ack" /\ granted = NotGranted
  BY <1>1, WrittenIs
<1>3. CASE granted' = granted
  BY <1>1, <1>3, NoStep
<1>4. CASE granted' # granted
  <2>1. granted' # NotGranted
    BY <1>2, <1>4
  <2>2. Conversation!LockExecutes(0)
    <3>1. CommandStep = "command" /\ CommandStep' = "executed"
      BY <1>1, <1>2, <2>1 DEF CommandStep
    <3>2. UNCHANGED <<OfOne(outcome), OfOne(linked), OfOne(disconnecting),
                      OfOne(disconnecting = "running"), oldLink, disconnecting>>
      BY <1>1 DEF OfOne
    <3>3. UNCHANGED <<OfOne(<<"bluetooth">>), OfOne({"bluetooth"})>>
      BY DEF OfOne
    <3> QED
      BY <2>1, <3>1, <3>2, <3>3, StepChanges, ExecutedChanges
      DEF Conversation!LockExecutes, Conversation!Await, Conversation!reach, Conversation!links
  <2> QED BY <2>2 DEF Followed, Conversation!Proceeds
<1> QED BY <1>3, <1>4

LEMMA ConnectsFollowed ==
    ASSUME SessionInductive, Connects
    PROVE  Followed
<1>1. /\ waits = "connecting" /\ waits' = "response" /\ linked' = TRUE
      /\ UNCHANGED <<outcome, oldLink, disconnecting, granted>>
  BY DEF Connects, Call, ending, lock
<1>2. Conversation!Connects(0)
  <2>1. CommandStep = "connecting" /\ CommandStep' = "handshake"
    BY <1>1 DEF CommandStep
  <2>2. UNCHANGED <<OfOne(outcome), OfOne(disconnecting), OfOne(granted # NotGranted),
                    OfOne(disconnecting = "running"), oldLink, disconnecting>>
    BY <1>1 DEF OfOne
  <2>3. UNCHANGED <<OfOne(<<"bluetooth">>), OfOne({"bluetooth"})>>
    BY DEF OfOne
  <2>4. OfOne(linked)' = [OfOne(linked) EXCEPT ![0] = TRUE]
    BY <1>1, LinkedChanges
  <2>5. /\ OfOne(CommandStep)[0] = "connecting"
        /\ OfOne(CommandStep)' = [OfOne(CommandStep) EXCEPT ![0] = "handshake"]
    BY <2>1, StepChanges
  <2> QED
    BY <1>1, <2>2, <2>3, <2>4, <2>5
    DEF Conversation!Connects, Conversation!Await, Conversation!reach
<1> QED BY <1>2 DEF Followed, Conversation!Proceeds

LEMMA HangUpFollowed ==
    ASSUME SessionInductive, Talking, NEW what, HangUp(what), UNCHANGED <<connection, lock>>
    PROVE  Followed
<1>1. /\ waits \in {"response", "finished", "ack"} /\ waits' = "hangUp"
      /\ UNCHANGED <<outcome, linked, oldLink, disconnecting, granted>>
  BY DEF HangUp, Talking, Expected, connection, lock
<1>2. Conversation!BluetoothFails(0)
  BY <1>1 DEF OfOne, CommandStep, Conversation!BluetoothFails, Conversation!Await, Conversation!reach, Conversation!links
<1> QED BY <1>2 DEF Followed, Conversation!Proceeds

LEMMA RespondsFollowed ==
    ASSUME SessionInductive, HandshakeResponds
    PROVE  Followed
<1>1. /\ Talking /\ waits = "response" /\ UNCHANGED <<connection, lock>>
  BY DEF HandshakeResponds, Answered, Reply, Talking, Expected
<1>2. CASE waits' = "hangUp"
  <2>1. HangUp("unexpected")
    BY <1>2 DEF HandshakeResponds, Call
  <2> QED BY <1>1, <2>1, HangUpFollowed
<1>3. CASE waits' # "hangUp"
  <2>1. waits' = "finished" /\ UNCHANGED outcome
    BY <1>3 DEF HandshakeResponds, Call, HangUp, ending
  <2> QED BY <1>1, <2>1, NoStep DEF connection, lock
<1> QED BY <1>2, <1>3

LEMMA FinishFollowed ==
    ASSUME SessionInductive, HandshakeFinishes
    PROVE  Followed
<1>1. /\ Talking /\ waits = "finished" /\ UNCHANGED <<connection, lock>>
  BY DEF HandshakeFinishes, Answered, Reply, Talking, Expected
<1>2. CASE waits' = "hangUp"
  <2>1. HangUp("unexpected")
    BY <1>2 DEF HandshakeFinishes, Call
  <2> QED BY <1>1, <2>1, HangUpFollowed
<1>3. CASE waits' # "hangUp"
  <2>1. waits' = "ack" /\ UNCHANGED outcome
    BY <1>3 DEF HandshakeFinishes, Call, HangUp, ending
  <2>2. granted = NotGranted
    BY <1>1 DEF SessionInductive, SessionInvariant, LockInStep, CommandAnswered
  <2>3. Conversation!Handshake(0)
    BY <1>1, <2>1, <2>2 DEF OfOne, CommandStep, Conversation!Handshake, Conversation!Await, Conversation!reach,
       Conversation!links, connection, lock
  <2> QED BY <2>3 DEF Followed, Conversation!Proceeds
<1> QED BY <1>2, <1>3

LEMMA UnexpectedFollowed ==
    ASSUME SessionInductive, UnexpectedReply
    PROVE  Followed
<1>1. PICK call \in DOMAIN Expected :
          /\ Reply(call)
          /\ HangUp(IF Head(packets).type \in {ClientBlocked, HandshakeExpired}
                    THEN "refused" ELSE "unexpected")
  BY DEF UnexpectedReply
<1>2. Talking /\ UNCHANGED <<connection, lock>>
  BY <1>1 DEF Reply, Talking
<1> QED BY <1>1, <1>2, HangUpFollowed

LEMMA AcknowledgedFollowed ==
    ASSUME SessionInductive, SessionInductive', CommandAcknowledged
    PROVE  Followed
<1>1. waits = "ack" /\ Talking
  BY DEF CommandAcknowledged, Talking, Expected
<1>2. CASE waits' = "ended"
  <2>1. /\ outcome' = "ok" /\ linked' = FALSE /\ oldLink' = TRUE /\ disconnecting' = "running"
        /\ UNCHANGED granted /\ seconds' \in Nat
    BY <1>2 DEF CommandAcknowledged, HangUp, lock, SessionInductive, SessionTypeOK
  <2>2. granted # NotGranted
    BY <2>1 DEF SessionInductive, SessionInvariant, ResultIsReal, NotGranted
  <2>3. ~ oldLink /\ disconnecting = "none"
    BY <1>1 DEF SessionInductive, SessionInvariant, OneLink
  <2>4. Conversation!LockAnswers(0)
    <3>1. CommandStep = "executed" /\ CommandStep' = "idle"
      BY <1>1, <1>2, <2>2 DEF CommandStep, Talking, Expected
    <3>2. UNCHANGED <<OfOne(granted # NotGranted), OfOne(<<"bluetooth">>), OfOne({"bluetooth"})>>
      BY <2>1 DEF OfOne
    <3>3. Conversation!End(0, "ok")
      BY <2>1, <3>1, <3>2, StepChanges, OutcomeChanges DEF Conversation!End
    <3>4. Conversation!DisconnectLater(0)
      BY <2>1, <2>3, LinkedChanges, TaskChanges DEF Conversation!DisconnectLater
    <3> QED BY <3>1, <3>2, <3>3, <3>4, StepChanges
            DEF Conversation!LockAnswers, Conversation!Granted, Conversation!reach
  <2> QED BY <2>4 DEF Followed, Conversation!Proceeds
<1>3. CASE waits' # "ended"
  <2>1. Reply("ack") /\ \E what : HangUp(what)
    BY <1>3 DEF CommandAcknowledged
  <2> QED BY <1>1, <2>1, HangUpFollowed DEF Reply
<1> QED BY <1>2, <1>3

LEMMA FailsFollowed ==
    ASSUME SessionInductive, Fails
    PROVE  Followed
<1>1. UNCHANGED <<connection, lock>>
  BY DEF Fails
<1>2. CASE waits = "connecting"
  <2>1. waits' = "ended" /\ outcome' = "error"
    BY <1>2 DEF Fails, Talking, Expected
  <2>2. Conversation!BluetoothFails(0)
    <3>1. CommandStep = "connecting" /\ CommandStep' = "idle"
      BY <1>2, <2>1 DEF CommandStep
    <3>2. UNCHANGED <<linked, disconnecting, oldLink, granted>>
      BY <1>1 DEF connection, lock
    <3>3. UNCHANGED <<OfOne(granted # NotGranted), OfOne(<<"bluetooth">>), OfOne({"bluetooth"}),
                      OfOne(linked), OfOne(disconnecting), OfOne(disconnecting = "running")>>
      BY <3>2 DEF OfOne
    <3>4. Conversation!NextRoute(0)
      BY <2>1, <3>1, <3>3, StepChanges, OutcomeChanges, OneEntity
      DEF Conversation!NextRoute, Conversation!End
    <3> QED BY <3>1, <3>2, <3>3, <3>4, StepChanges
            DEF Conversation!BluetoothFails, Conversation!reach, Conversation!links
  <2> QED BY <2>2 DEF Followed, Conversation!Proceeds
<1>3. CASE waits # "connecting"
  BY <1>1, <1>3, HangUpFollowed DEF Fails
<1> QED BY <1>2, <1>3

LEMMA HangsUpFollowed ==
    ASSUME SessionInductive, HangsUp
    PROVE  Followed
<1>1. /\ waits = "hangUp" /\ waits' = "ended" /\ linked' = FALSE
      /\ UNCHANGED <<disconnecting, granted>>
      /\ \/ outcome' = "error" /\ oldLink' = oldLink
         \/ outcome' = "raised" /\ oldLink' = oldLink
         \/ outcome' = "error" /\ oldLink' = TRUE
  BY DEF HangsUp, lock
<1>2. ~ oldLink /\ disconnecting = "none"
  BY <1>1 DEF SessionInductive, SessionInvariant, OneLink
<1>3. Conversation!HangsUp(0)
  <2>1. CommandStep = "hangUp" /\ CommandStep' = "idle"
    BY <1>1 DEF CommandStep
  <2>2. UNCHANGED <<OfOne(granted # NotGranted), OfOne(<<"bluetooth">>), OfOne({"bluetooth"}),
                    OfOne(disconnecting), OfOne(disconnecting = "running")>>
    BY <1>1 DEF OfOne
  <2>3. CASE outcome' = "error"
    <3>1. Conversation!NextRoute(0)
      BY <2>1, <2>2, <2>3, StepChanges, OutcomeChanges, OneEntity
      DEF Conversation!NextRoute, Conversation!End
    <3>2. \/ UNCHANGED (oldLink /\ disconnecting = "none")
          \/ (oldLink /\ disconnecting = "none")' = TRUE
      BY <1>1, <1>2
    <3> QED BY <1>1, <2>1, <2>2, <3>1, <3>2, StepChanges, LinkedChanges
            DEF Conversation!HangsUp, Conversation!reach
  <2>4. CASE outcome' = "raised" /\ oldLink' = oldLink
    <3>1. Conversation!End(0, "raised")
      BY <2>1, <2>2, <2>4, StepChanges, OutcomeChanges DEF Conversation!End
    <3> QED BY <1>1, <2>1, <2>2, <2>4, <3>1, StepChanges, LinkedChanges
            DEF Conversation!HangsUp, Conversation!reach
  <2> QED BY <1>1, <2>3, <2>4
<1> QED BY <1>3 DEF Followed, Conversation!Proceeds

LEMMA DisconnectFollowed ==
    ASSUME SessionInductive, DisconnectEnds
    PROVE  Followed
<1>1. /\ disconnecting = "running" /\ oldLink' = FALSE /\ disconnecting' \in {"done", "raised"}
      /\ UNCHANGED <<waits, outcome, linked, granted>>
  BY DEF DisconnectEnds, ending, lock
<1>2. Conversation!DisconnectEnds(0)
  <2>1. UNCHANGED <<CommandStep, OfOne(CommandStep), OfOne(outcome), OfOne(linked),
                    OfOne(granted # NotGranted), OfOne(<<"bluetooth">>), OfOne({"bluetooth"})>>
    BY <1>1 DEF OfOne, CommandStep
  <2>2. (oldLink /\ disconnecting = "none")' = (oldLink /\ disconnecting = "none")
    BY <1>1
  <2> QED BY <1>1, <2>1, <2>2, TaskChanges
          DEF Conversation!DisconnectEnds, Conversation!reach, Conversation!command
<1> QED BY <1>2 DEF Followed

LEMMA SessionFollowed ==
    SessionInductive /\ SessionInductive' /\ [SessionNext]_sessionVars => Followed
<1> SUFFICES ASSUME SessionInductive, SessionInductive', [SessionNext]_sessionVars PROVE Followed
  OBVIOUS
<1>1. LockStarts \/ LockFinishes \/ LockRefuses \/ LockIsOdd \/ LockEvent
        => UNCHANGED granted /\ \E packet : Sends(packet)
  BY DEF LockStarts, LockFinishes, LockRefuses, LockIsOdd, LockEvent, Acknowledges, Replies
<1>2. DataReceived => UNCHANGED <<waits, granted, outcome, linked, oldLink, disconnecting>>
  BY DEF DataReceived, ending, connection
<1>3. Over \/ UNCHANGED sessionVars => UNCHANGED <<waits, granted, outcome, linked, oldLink, disconnecting>>
  BY DEF Over, sessionVars, ending, connection, lock
<1> QED
  BY <1>1, <1>2, <1>3, NoStep, LockFollowed, ExecutesFollowed, ConnectsFollowed, RespondsFollowed,
     FinishFollowed, UnexpectedFollowed, AcknowledgedFollowed, FailsFollowed, HangsUpFollowed,
     DisconnectFollowed DEF SessionNext

\* Every step of a conversation is one of LockCommand's over Bluetooth, or none
\* to it.
THEOREM ConversationAlwaysFollowed == SessionSpec => ConversationFollowed
BY SessionFollowed, SessionAlwaysInductive, PTL DEF SessionSpec, ConversationFollowed, Followed
=============================================================================
