--------------------------- MODULE DoorSensorProofs ---------------------------
(***************************************************************************)
(* What DoorSensor promises of the time a door last opened, however long   *)
(* it goes on and whatever happens to the sensor and Home Assistant,       *)
(* proved.                                                                 *)
(***************************************************************************)
EXTENDS DoorSensor, TLAPS

SensorStates == Readings \cup {"unavailable", "unknown", "absent"}

\* Of two times the later, if both are known.
LEMMA OpenedType ==
    ASSUME NEW known \in Times, NEW at \in Int
    PROVE  /\ Opened(known, at) \in Int /\ at <= Opened(known, at)
           /\ known # None => known <= Opened(known, at)
           /\ Opened(known, at) = at \/ Opened(known, at) = known
BY NoneIsNothing DEF Opened, Times

\* The states of the sensor, one by one, as the lock takes them.
LEMMA SeenIs ==
    ASSUME NEW state \in SensorStates, NEW known \in Times, NEW was \in Booleans,
           NEW at \in Int, Seen(state, known, was, at)
    PROVE  /\ opened_at' \in Times /\ was_open' \in Booleans
           /\ known # None => opened_at' # None /\ known <= opened_at'
           /\ state \notin Readings => opened_at' = known /\ was_open' = was
           /\ state = "off" => opened_at' = known /\ was_open' = FALSE
           /\ state = "on" => /\ was_open' = TRUE
                              /\ was = TRUE => opened_at' = known
                              /\ was # TRUE => opened_at' = Opened(known, at)
<1>1. known # None => known \in Int /\ known <= known
  BY DEF Times
<1>2. CASE state \notin Readings
  <2>1. opened_at' = known /\ was_open' = was
    BY <1>2 DEF Seen
  <2>2. state # "on" /\ state # "off"
    BY <1>2 DEF Readings
  <2> QED BY <1>1, <1>2, <2>1, <2>2
<1>3. CASE state = "off"
  <2>1. state \in Readings /\ state # "on"
    BY <1>3 DEF Readings
  <2>2. opened_at' = known
    BY <2>1 DEF Seen
  <2>3. was_open' = FALSE
    BY <2>1, Zenon DEF Seen
  <2>4. FALSE \in Booleans
    BY DEF Booleans
  <2> QED BY <1>1, <2>1, <2>2, <2>3, <2>4
<1>4. CASE state = "on"
  <2>1. state \in Readings /\ state # "off"
    BY <1>4 DEF Readings
  <2>2. was_open' = TRUE
    BY <1>4, <2>1, Zenon DEF Seen
  <2>3. TRUE \in Booleans
    BY DEF Booleans
  <2>4. was = TRUE => opened_at' = known
    BY <1>4, <2>1 DEF Seen
  <2>5. was # TRUE => opened_at' = Opened(known, at)
    BY <1>4, <2>1 DEF Seen
  <2>6. /\ Opened(known, at) \in Times /\ Opened(known, at) # None
        /\ known # None => known <= Opened(known, at)
    BY OpenedType, NoneIsNothing DEF Times
  <2>7. CASE was = TRUE
    BY <1>1, <1>4, <2>1, <2>2, <2>3, <2>4, <2>7
  <2>8. CASE was # TRUE
    BY <1>4, <2>1, <2>2, <2>3, <2>5, <2>6, <2>8
  <2> QED BY <2>7, <2>8
<1> QED BY <1>2, <1>3, <1>4 DEF Readings

\* What is said of the times at which a sensor went.
LEMMA UnseenSinceIs ==
    ASSUME TypeOK
    PROVE  /\ UnseenSince \in Int
           /\ Ready \/ sensor.state = "absent" => UnseenSince = now
           /\ ~ Ready /\ sensor.state # "absent" => UnseenSince = sensor.changed
BY DEF UnseenSince, TypeOK, Ready, Readings

\* A report, to the lock that follows the sensor or to nobody.
LEMMA ReportIs ==
    ASSUME TypeOK, NEW state \in SensorStates, Report(state)
    PROVE  /\ sensor' = [state |-> state, changed |-> now]
           /\ opened_at' \in Times /\ was_open' \in Booleans
           /\ ~ watching => opened_at' = opened_at /\ was_open' = was_open
           /\ watching =>
                /\ opened_at # None => opened_at' # None /\ opened_at <= opened_at'
                /\ state \notin Readings => opened_at' = opened_at /\ was_open' = was_open
                /\ state = "off" => opened_at' = opened_at /\ was_open' = FALSE
                /\ state = "on" => /\ was_open' = TRUE
                                   /\ was_open = TRUE => opened_at' = opened_at
                                   /\ was_open # TRUE => opened_at' = Opened(opened_at, UnseenSince)
<1>1. sensor' = [state |-> state, changed |-> now]
  BY DEF Report, SensorIs
<1>2. CASE watching
  <2>1. Seen(state, opened_at, was_open, UnseenSince)
    BY <1>2 DEF Report
  <2>2. opened_at \in Times /\ was_open \in Booleans /\ UnseenSince \in Int
    BY UnseenSinceIs DEF TypeOK
  <2> QED BY <1>1, <1>2, <2>1, <2>2, SeenIs
<1>3. CASE ~ watching
  BY <1>1, <1>3 DEF Report, TypeOK
<1> QED BY <1>2, <1>3 DEF TypeOK

\* What is stored of the lock.
LEMMA DataType ==
    ASSUME TypeOK
    PROVE  /\ AsDict \in Data
           /\ \A data \in {file, stored} \ {None} : data \in Data
           /\ Restored \in Times
           /\ Latest \in ExtraData
<1>1. AsDict \in Data
  BY DEF AsDict, TypeOK, Data
<1>2. \A data \in {file, stored} \ {None} : data \in Data
  BY DEF TypeOK, ExtraData, Data
<1>3. Restored \in Times
  BY <1>2 DEF Restored, Data, Times
<1>4. Latest \in ExtraData
  BY <1>1 DEF Latest, TypeOK, ExtraData, Data
<1> QED BY <1>1, <1>2, <1>3, <1>4

-----------------------------------------------------------------------------
(* Types                                                                   *)

LEMMA InitType == Init => TypeOK
<1> SUFFICES ASSUME Init PROVE TypeOK
  OBVIOUS
<1>1. sensor \in [state : Readings \cup {"unavailable", "unknown", "absent"}, changed : Int]
  BY DEF Init, Reading, Readings
<1>2. file \in ExtraData /\ stored \in ExtraData /\ opened_at \in Times /\ sawClosed \in Times
  BY DEF Init, ExtraData, Times
<1>3. was_open \in Booleans
  BY DEF Init, Booleans
<1> QED BY <1>1, <1>2, <1>3 DEF Init, TypeOK

\* What is told for the properties.
LEMMA WatchType ==
    ASSUME TypeOK, now' \in Nat, Watch
    PROVE  sawClosed' \in Times /\ doubts' \subseteq {"unseen", "crash"}
<1>1. sawClosed' \in Times
  BY DEF Watch, TypeOK, Times
<1>2. doubts' \subseteq {"unseen", "crash"}
  BY DEF Watch, TypeOK
<1> QED BY <1>1, <1>2

LEMMA NextType == TypeOK /\ [Next]_vars => TypeOK'
<1> SUFFICES ASSUME TypeOK, [Next]_vars PROVE TypeOK'
  OBVIOUS
<1> USE DEF storage, follower, ghosts
<1> DEFINE Plain == /\ now' \in Nat /\ open' \in BOOLEAN /\ up' \in BOOLEAN
                    /\ sensor' \in [state : SensorStates, changed : Int]
                    /\ file' \in ExtraData /\ stored' \in ExtraData
                    /\ watching' \in BOOLEAN /\ opened_at' \in Times
                    /\ was_open' \in Booleans
<1>0. /\ now \in Nat /\ open \in BOOLEAN /\ up \in BOOLEAN
      /\ sensor \in [state : SensorStates, changed : Int]
      /\ file \in ExtraData /\ stored \in ExtraData
      /\ watching \in BOOLEAN /\ opened_at \in Times
      /\ was_open \in Booleans /\ None \in Times /\ None \in Booleans /\ None \in ExtraData
      /\ Reading \in SensorStates /\ now \in Int
  BY DEF TypeOK, SensorStates, Times, Booleans, ExtraData, Reading, Readings
<1>1. CASE Load
  <2>1. opened_at' \in Times /\ was_open' \in Booleans
    <3>1. CASE SameLink
      <4>1. /\ Seen(sensor.state, Restored, stored.open, stored.seen)
            /\ stored.open \in Booleans /\ stored.seen \in Int
        BY <1>1, <3>1, DataType DEF Load, SameLink, Data
      <4> QED BY <1>0, <4>1, SeenIs, DataType
    <3>2. CASE ~ SameLink
      <4>1. Seen(sensor.state, Restored, None, sensor.changed)
        BY <1>1, <3>2 DEF Load
      <4> QED BY <1>0, <4>1, SeenIs, DataType
    <3> QED BY <3>1, <3>2
  <2>2. sawClosed' \in Times
    BY <1>0, <1>1 DEF Load, TypeOK, Times
  <2>3. doubts' \subseteq {"unseen", "crash"}
    BY <1>1 DEF Load, TypeOK
  <2> QED BY <1>1, <2>1, <2>2, <2>3 DEF Load, TypeOK
<1>2. ASSUME Plain, Watch PROVE TypeOK'
  BY <1>2, WatchType DEF TypeOK, SensorStates
<1>3. ASSUME NEW state \in SensorStates, Report(state)
      PROVE  /\ sensor' \in [state : SensorStates, changed : Int]
             /\ opened_at' \in Times /\ was_open' \in Booleans
  <2>1. sensor' = [state |-> state, changed |-> now]
    BY <1>3 DEF Report, SensorIs
  <2>2. sensor' \in [state : SensorStates, changed : Int]
    BY <1>0, <2>1
  <2> QED BY <1>3, <2>2, ReportIs
<1>4. ASSUME DoorMoves PROVE Plain
  <2>1. CASE up /\ Ready
    <3>1. PICK state \in SensorStates : Report(state)
      BY <1>4, <2>1 DEF DoorMoves, Reading, SensorStates, Readings
    <3> QED BY <1>0, <1>3, <1>4, <2>1, <3>1 DEF DoorMoves
  <2>2. CASE ~ (up /\ Ready)
    BY <1>0, <1>4, <2>2 DEF DoorMoves
  <2> QED BY <2>1, <2>2
<1>5. ASSUME SensorLost PROVE Plain
  <2>1. PICK state \in SensorStates : Report(state)
    BY <1>5 DEF SensorLost, SensorStates
  <2> QED BY <1>0, <1>3, <1>5, <2>1 DEF SensorLost
<1>6. ASSUME SensorBack PROVE Plain
  <2>1. PICK state \in SensorStates : Report(state)
    BY <1>6 DEF SensorBack, SensorStates, Reading, Readings
  <2> QED BY <1>0, <1>3, <1>6, <2>1 DEF SensorBack
<1>7. ASSUME Dump PROVE Plain
  BY <1>0, <1>7, DataType DEF Dump
<1>8. ASSUME Unload PROVE Plain
  <2>1. stored' \in ExtraData
    BY <1>8, DataType DEF Unload, ExtraData, Data
  <2> QED BY <1>0, <1>8, <2>1 DEF Unload, Forget
<1>9. ASSUME Relinked PROVE Plain
  <2>1. PICK at \in {stored.opened, Opened(stored.opened, now)}, other \in BOOLEAN :
            stored' = [link |-> FALSE, opened |-> at, open |-> other, seen |-> now]
    BY <1>9 DEF Relinked
  <2>2. stored.opened \in Times
    BY <1>9, DataType DEF Relinked, Data
  <2>3. at \in Times
    BY <1>0, <2>2, OpenedType DEF Times
  <2>4. stored' \in ExtraData
    BY <1>0, <2>1, <2>3 DEF ExtraData, Data, Booleans
  <2> QED BY <1>0, <1>9, <2>4 DEF Relinked
<1>10. ASSUME Stop \/ Crash PROVE Plain
  BY <1>0, <1>10, DataType DEF Stop, Crash, Down, Forget
<1>11. ASSUME Start PROVE Plain
  <2>1. sensor' \in [state : SensorStates, changed : Int]
    BY <1>0, <1>11 DEF Start, SensorIs, SensorStates
  <2> QED BY <1>0, <1>11, <2>1 DEF Start
<1>12. ASSUME Tick PROVE Plain
  BY <1>0, <1>12 DEF Tick
<1>13. CASE UNCHANGED vars
  BY <1>13 DEF vars, TypeOK
<1> QED BY <1>1, <1>2, <1>4, <1>5, <1>6, <1>7, <1>8, <1>9, <1>10, <1>11, <1>12, <1>13
        DEF Next

\* Every variable keeps its type.
THEOREM DoorTypeCorrect == Spec => []TypeOK
<1> QED BY InitType, NextType, PTL DEF Spec

-----------------------------------------------------------------------------
(* The steps, as far as the invariant tells them apart                     *)

\* The sensor reports to Home Assistant; to be unavailable it was known.
Reports ==
    \E state \in SensorStates :
        /\ up /\ Report(state)
        /\ state = "unavailable" => Ready
        /\ UNCHANGED <<now, up, storage, watching>>

\* The door moves unnoticed, or time passes.
Passes == now' \in {now, now + 1} /\ UNCHANGED <<up, sensor, storage, follower>>

LEMMA ReportsOrPasses ==
    ASSUME TypeOK, DoorMoves \/ SensorLost \/ SensorBack \/ Tick
    PROVE  Reports \/ Passes
<1> USE DEF storage, follower
<1>1. CASE DoorMoves /\ up /\ Ready
  <2>1. PICK state \in Readings : Report(state)
    BY <1>1 DEF DoorMoves, Reading, Readings
  <2> QED BY <1>1, <2>1 DEF DoorMoves, Reports, SensorStates, Readings
<1>2. CASE DoorMoves /\ ~ (up /\ Ready)
  BY <1>2 DEF DoorMoves, Passes
<1>3. CASE SensorLost
  BY <1>3 DEF SensorLost, Reports, SensorStates
<1>4. CASE SensorBack
  <2>1. PICK state \in Readings \cup {"unknown"} : Report(state)
    BY <1>4 DEF SensorBack, Reading, Readings
  <2> QED BY <1>4, <2>1 DEF SensorBack, Reports, SensorStates, Readings
<1>5. CASE Tick
  BY <1>5 DEF Tick, Passes
<1> QED BY <1>1, <1>2, <1>3, <1>4, <1>5

\* What every step but Load tells.
LEMMA WatchIs ==
    ASSUME Watch
    PROVE  /\ watching' /\ sensor'.state = "off" => sawClosed' = now' /\ doubts' = {}
           /\ ~ (watching' /\ sensor'.state = "off") =>
                  /\ sawClosed' = sawClosed /\ doubts \subseteq doubts'
                  /\ Unseen => "unseen" \in doubts'
                  /\ Crash => "crash" \in doubts'
BY DEF Watch

\* The times that are compared.
LEMMA Timed ==
    ASSUME TypeOK
    PROVE  /\ now \in Int /\ sensor.changed \in Int
           /\ opened_at # None => opened_at \in Int
           /\ sawClosed # None => sawClosed \in Int
           /\ \A data \in {file, stored} \ {None} :
                  data.seen \in Int /\ (data.opened # None => data.opened \in Int)
<1>1. \A data \in {file, stored} \ {None} : data.seen \in Int /\ data.opened \in Times
  BY DataType DEF Data
<1> QED BY <1>1 DEF TypeOK, Times

\* An entity that is set up takes the state of the sensor.
LEMMA LoadIs ==
    ASSUME TypeOK, Load
    PROVE  LET was == IF SameLink THEN stored.open ELSE None
               at == IF SameLink THEN stored.seen ELSE sensor.changed
           IN  /\ at \in Int /\ Restored \in Times /\ was \in Booleans
               /\ sensor.state \notin Readings => opened_at' = Restored /\ was_open' = was
               /\ sensor.state = "off" => opened_at' = Restored /\ was_open' = FALSE
               /\ sensor.state = "on" =>
                      /\ was_open' = TRUE
                      /\ was = TRUE => opened_at' = Restored
                      /\ was # TRUE => opened_at' = Opened(Restored, at)
               /\ Restored # None => opened_at' # None /\ Restored <= opened_at'
<1>1. sensor.state \in SensorStates /\ Restored \in Times /\ sensor.changed \in Int
  BY DataType DEF TypeOK, SensorStates
<1>2. CASE SameLink
  <2>1. stored.open \in Booleans /\ stored.seen \in Int
    BY <1>2, DataType DEF SameLink, Data
  <2>2. Seen(sensor.state, Restored, stored.open, stored.seen)
    BY <1>2 DEF Load
  <2> QED BY <1>1, <1>2, <2>1, <2>2, SeenIs
<1>3. CASE ~ SameLink
  <2>1. None \in Booleans
    BY DEF Booleans
  <2>2. Seen(sensor.state, Restored, None, sensor.changed)
    BY <1>3 DEF Load
  <2> QED BY <1>1, <1>3, <2>1, <2>2, SeenIs
<1> QED BY <1>2, <1>3

-----------------------------------------------------------------------------
(* The invariant                                                           *)

LEMMA InitInvariant == Init => DoorInvariant
<1> SUFFICES ASSUME Init PROVE DoorInvariant
  OBVIOUS
<1>1. sensor.state \in Readings /\ sensor.changed = -1 /\ now = 0
  BY DEF Init, Reading, Readings
<1>2. opened_at = None /\ sawClosed = None /\ file = None /\ stored = None /\ ~ watching /\ up
  BY DEF Init
<1>3. sensor.state # "unknown" /\ sensor.state # "absent"
  BY <1>1 DEF Readings
<1> QED BY <1>1, <1>2, <1>3
        DEF DoorInvariant, NothingAhead, SeenAsIs, DatedInTime, CountedSince

LEMMA NextSeen ==
    ASSUME TypeOK, DoorInvariant, [Next]_vars
    PROVE  SeenAsIs'
<1> USE DEF storage, follower, ghosts
<1>0. SeenAsIs
  BY DEF DoorInvariant
<1>1. CASE Load
  <2>1. up /\ up' /\ watching' /\ sensor' = sensor /\ now' = now
    BY <1>1 DEF Load
  <2>2. Ready => was_open' = (sensor.state = "on")
    BY <1>1, LoadIs DEF Ready, Readings
  <2>3. sensor.state = "off" => sawClosed' = now /\ doubts' = {}
    BY <1>1 DEF Load
  <2>4. sensor.state \in {"unknown", "absent"} => "unseen" \in doubts'
    BY <1>1 DEF Load, Ready, Readings
  <2> QED BY <2>1, <2>2, <2>3, <2>4 DEF SeenAsIs, Ready
<1>2. ASSUME Watch
      PROVE  /\ watching' /\ sensor'.state = "off" => sawClosed' = now' /\ doubts' = {}
             /\ sensor'.state \in {"unknown", "absent"} => "unseen" \in doubts'
  BY <1>2, WatchIs DEF Unseen
<1>3. CASE Reports /\ Watch
  <2>1. PICK state \in SensorStates :
            up /\ Report(state) /\ UNCHANGED <<now, up, storage, watching>>
    BY <1>3 DEF Reports
  <2>2. sensor'.state = state
    BY <2>1 DEF Report, SensorIs
  <2>3. watching /\ state \in Readings => was_open' = (state = "on")
    BY <2>1, ReportIs DEF Readings
  <2> QED BY <1>0, <1>2, <1>3, <2>1, <2>2, <2>3 DEF SeenAsIs, Ready
<1>4. CASE Passes /\ Watch
  BY <1>0, <1>2, <1>4 DEF Passes, SeenAsIs, Ready
<1>5. CASE Dump /\ Watch
  BY <1>0, <1>2, <1>5 DEF Dump, SeenAsIs, Ready
<1>6. CASE Unload /\ Watch
  BY <1>0, <1>2, <1>6 DEF Unload, Forget, SeenAsIs
<1>7. CASE Relinked /\ Watch
  BY <1>0, <1>2, <1>7 DEF Relinked, SeenAsIs
<1>8. CASE (Stop \/ Crash) /\ Watch
  BY <1>0, <1>2, <1>8 DEF Stop, Crash, Down, Forget, SeenAsIs
<1>9. CASE Start /\ Watch
  BY <1>0, <1>2, <1>9 DEF Start, SeenAsIs
<1>10. CASE UNCHANGED vars
  BY <1>0, <1>10 DEF vars, SeenAsIs, Ready
<1> QED BY <1>1, <1>3, <1>4, <1>5, <1>6, <1>7, <1>8, <1>9, <1>10, ReportsOrPasses DEF Next

LEMMA NextAhead ==
    ASSUME TypeOK, DoorInvariant, [Next]_vars
    PROVE  NothingAhead'
<1> USE DEF storage, follower, ghosts
<1>0. /\ now \in Int /\ sensor.changed \in Int /\ sensor.changed <= now
      /\ opened_at # None => opened_at \in Int /\ opened_at <= now
      /\ sawClosed # None => sawClosed \in Int /\ sawClosed <= now
      /\ \A data \in {file, stored} \ {None} :
             /\ data.seen \in Int /\ data.seen <= now
             /\ data.opened # None => data.opened \in Int /\ data.opened <= now
  BY Timed DEF DoorInvariant, NothingAhead
<1>1. Restored # None => Restored \in Int /\ Restored <= now
  BY <1>0 DEF Restored
<1>2. CASE Load
  <2>1. UNCHANGED <<now, sensor, file, stored>>
    BY <1>2 DEF Load
  <2>2. sawClosed' # None => sawClosed' <= now
    BY <1>0, <1>2 DEF Load
  <2> DEFINE at == IF SameLink THEN stored.seen ELSE sensor.changed
  <2>3. at \in Int /\ at <= now
    BY <1>0 DEF SameLink
  <2>4. opened_at' = Restored \/ opened_at' = Opened(Restored, at)
    BY <1>2, LoadIs DEF Readings
  <2>5. Opened(Restored, at) = at \/ Opened(Restored, at) = Restored
    BY DEF Opened
  <2>6. opened_at' # None => opened_at' <= now
    BY <1>1, <2>3, <2>4, <2>5
  <2> QED BY <1>0, <2>1, <2>2, <2>6 DEF NothingAhead
<1>3. ASSUME Watch, now' \in {now, now + 1}
      PROVE  sawClosed' # None => sawClosed' <= now'
  BY <1>0, <1>3, WatchIs
<1>4. CASE Reports /\ Watch
  <2>1. PICK state \in SensorStates :
            up /\ Report(state) /\ UNCHANGED <<now, up, storage, watching>>
    BY <1>4 DEF Reports
  <2>2. sensor'.changed = now
    BY <2>1 DEF Report, SensorIs
  <2>3. opened_at' = opened_at \/ opened_at' = Opened(opened_at, UnseenSince)
    <3>1. CASE watching
      BY <2>1, <3>1, ReportIs DEF Readings
    <3>2. CASE ~ watching
      BY <2>1, <3>2, ReportIs
    <3> QED BY <3>1, <3>2
  <2>4. UnseenSince \in Int /\ UnseenSince <= now
    BY <1>0, UnseenSinceIs
  <2>5. opened_at' # None => opened_at' <= now
    BY <1>0, <2>3, <2>4 DEF Opened
  <2> QED BY <1>0, <1>3, <1>4, <2>1, <2>2, <2>5 DEF NothingAhead
<1>5. CASE Passes /\ Watch
  <2>1. /\ now' \in Int /\ now <= now' /\ now' \in {now, now + 1}
        /\ UNCHANGED <<sensor, file, stored, opened_at>>
    BY <1>0, <1>5 DEF Passes
  <2> QED BY <1>0, <1>3, <1>5, <2>1 DEF NothingAhead
<1>6. AsDict.seen = now /\ AsDict.opened = opened_at
  BY DEF AsDict
<1>7. \A data \in {Latest} \ {None} :
          /\ data.seen \in Int /\ data.seen <= now
          /\ data.opened # None => data.opened \in Int /\ data.opened <= now
  BY <1>0, <1>6 DEF Latest
<1>8. CASE Dump /\ Watch
  <2>1. file' = Latest /\ UNCHANGED <<now, sensor, stored, opened_at>>
    BY <1>8 DEF Dump
  <2> QED BY <1>0, <1>3, <1>7, <1>8, <2>1 DEF NothingAhead
<1>9. CASE Unload /\ Watch
  <2>1. /\ stored' = AsDict /\ opened_at' = None /\ UNCHANGED <<now, sensor, file>>
    BY <1>9 DEF Unload, Forget
  <2> QED BY <1>0, <1>3, <1>6, <1>9, <2>1 DEF NothingAhead
<1>10. CASE Relinked /\ Watch
  <2>1. PICK at \in {stored.opened, Opened(stored.opened, now)}, other \in BOOLEAN :
            stored' = [link |-> FALSE, opened |-> at, open |-> other, seen |-> now]
    BY <1>10 DEF Relinked
  <2>2. stored # None /\ UNCHANGED <<now, sensor, file, opened_at>>
    BY <1>10 DEF Relinked
  <2>3. at # None => at \in Int /\ at <= now
    BY <1>0, <2>2 DEF Opened
  <2>4. stored'.seen = now /\ stored'.opened = at
    BY <2>1
  <2> QED BY <1>0, <1>3, <1>10, <2>2, <2>3, <2>4 DEF NothingAhead
<1>11. CASE (Stop \/ Crash) /\ Watch
  <2>1. /\ file' \in {file, Latest} /\ stored' = None /\ opened_at' = None
        /\ UNCHANGED <<now, sensor>>
    BY <1>11 DEF Stop, Crash, Down, Forget
  <2> QED BY <1>0, <1>3, <1>7, <1>11, <2>1 DEF NothingAhead
<1>12. CASE Start /\ Watch
  <2>1. /\ stored' = file /\ sensor'.changed = now /\ UNCHANGED <<now, file, opened_at>>
    BY <1>12 DEF Start, SensorIs
  <2> QED BY <1>0, <1>3, <1>12, <2>1 DEF NothingAhead
<1>13. CASE UNCHANGED vars
  BY <1>13 DEF vars, DoorInvariant, NothingAhead
<1> QED BY <1>2, <1>4, <1>5, <1>8, <1>9, <1>10, <1>11, <1>12, <1>13, ReportsOrPasses DEF Next

\* The part of the invariant that is about what the lock follows, and that
\* about what is stored of it, now.
DatedFollower ==
    watching => /\ opened_at # None => opened_at <= sawClosed
                /\ ~ Ready /\ was_open # TRUE => sensor.changed <= sawClosed
InTime(data, closed) ==
    data # None /\ data.link => /\ data.opened # None => data.opened <= closed
                                /\ data.open # TRUE => data.seen <= closed
Doubtless == sawClosed # None /\ "unseen" \notin doubts

LEMMA DatedIs ==
    DatedInTime <=> (Doubtless => DatedFollower /\ InTime(file, sawClosed) /\ InTime(stored, sawClosed))
BY DEF DatedInTime, Doubtless, DatedFollower, InTime

\* Closed now, nothing can have been dated later.
LEMMA ClosedNow ==
    ASSUME TypeOK', NothingAhead', SeenAsIs', watching', sensor'.state = "off"
    PROVE  (DatedFollower /\ InTime(file, sawClosed) /\ InTime(stored, sawClosed))'
<1>1. sawClosed' = now' /\ sawClosed' # None /\ Ready'
  BY NoneIsNothing DEF SeenAsIs, TypeOK, Ready, Readings
<1> QED BY <1>1 DEF DatedFollower, InTime, NothingAhead

\* What is saved of a lock that follows a known sensor is in time.
LEMMA SavedInTime ==
    ASSUME TypeOK, DoorInvariant, Doubtless, watching, Ready
    PROVE  InTime(AsDict, sawClosed)
<1>1. DatedFollower
  BY DatedIs DEF DoorInvariant
<1>2. AsDict.opened = opened_at /\ AsDict.open = was_open /\ AsDict.seen = now
  BY DEF AsDict
<1>3. was_open # TRUE => sawClosed = now
  BY DEF DoorInvariant, SeenAsIs, Ready, Readings
<1>4. opened_at # None => opened_at <= sawClosed
  BY <1>1 DEF DatedFollower
<1>5. AsDict.opened # None => AsDict.opened <= sawClosed
  BY <1>2, <1>4
<1>6. AsDict.open # TRUE => AsDict.seen <= sawClosed
  BY <1>2, <1>3, Timed
<1> QED BY <1>5, <1>6 DEF InTime

LEMMA NextDated ==
    ASSUME TypeOK, DoorInvariant, [Next]_vars, TypeOK', NothingAhead', SeenAsIs'
    PROVE  DatedInTime'
<1> USE DEF storage, follower, ghosts
<1>0. Doubtless => DatedFollower /\ InTime(file, sawClosed) /\ InTime(stored, sawClosed)
  BY DatedIs DEF DoorInvariant
<1>1. SUFFICES ASSUME Doubtless', ~ (watching' /\ sensor'.state = "off")
               PROVE  (DatedFollower /\ InTime(file, sawClosed) /\ InTime(stored, sawClosed))'
  BY ClosedNow DEF DatedInTime, Doubtless, DatedFollower, InTime
<1>2. CASE Load
  <2>1. Ready /\ UNCHANGED <<sensor, file, stored>> /\ watching' /\ sensor.state = "on"
    BY <1>1, <1>2 DEF Load, Doubtless, Ready, Readings
  <2>2. SameLink /\ sawClosed' = sawClosed /\ doubts' = doubts
    BY <1>1, <1>2, <2>1 DEF Load, Doubtless
  <2>3. Doubtless /\ InTime(stored, sawClosed) /\ InTime(file, sawClosed)
    BY <1>0, <1>1, <2>2 DEF Doubtless
  <2>4. /\ stored.opened # None => stored.opened <= sawClosed
        /\ stored.open # TRUE => stored.seen <= sawClosed
        /\ Restored = stored.opened
    BY <2>2, <2>3 DEF SameLink, InTime, Restored
  <2>5. /\ stored.open = TRUE => opened_at' = Restored
        /\ stored.open # TRUE => opened_at' = Opened(Restored, stored.seen)
        /\ Restored \in Times
    BY <1>2, <2>1, <2>2, LoadIs
  <2>6. opened_at' # None => opened_at' <= sawClosed'
    BY <2>2, <2>4, <2>5 DEF Opened
  <2>7. Ready'
    BY <2>1 DEF Ready
  <2> QED BY <2>1, <2>2, <2>3, <2>6, <2>7 DEF DatedFollower, InTime
<1>3. ASSUME Watch
      PROVE  /\ sawClosed' = sawClosed /\ doubts \subseteq doubts' /\ Doubtless /\ ~ Unseen
             /\ DatedFollower /\ InTime(file, sawClosed) /\ InTime(stored, sawClosed)
  BY <1>0, <1>1, <1>3, WatchIs DEF Doubtless
<1>4. CASE Reports /\ Watch
  <2>1. PICK state \in SensorStates :
            /\ up /\ Report(state) /\ UNCHANGED <<now, up, storage, watching>>
            /\ state = "unavailable" => Ready
    BY <1>4 DEF Reports
  <2>2. sensor'.state = state /\ sensor'.changed = now
    BY <2>1 DEF Report, SensorIs
  <2>3. CASE watching
    <3>1. state \in {"on", "unavailable"}
      BY <1>1, <1>3, <1>4, <2>1, <2>2, <2>3 DEF Unseen, SensorStates, Readings
    <3>2. sensor.state # "absent" /\ sensor.state # "unknown"
      BY <1>3, <1>4 DEF DoorInvariant, SeenAsIs, Doubtless
    <3>3. CASE state = "unavailable"
      <4>1. Ready /\ ~ Ready' /\ opened_at' = opened_at /\ was_open' = was_open
        BY <2>1, <2>2, <2>3, <3>3, ReportIs DEF Ready, Readings
      <4>2. was_open # TRUE => sawClosed = now
        BY <2>3, <4>1 DEF DoorInvariant, SeenAsIs, Ready, Readings
      <4>3. was_open' # TRUE => sensor'.changed <= sawClosed'
        BY <1>3, <1>4, <2>2, <4>1, <4>2, Timed
      <4> QED BY <1>3, <1>4, <2>1, <2>3, <4>1, <4>3 DEF DatedFollower, InTime
    <3>4. CASE state = "on"
      <4>1. was_open # TRUE => UnseenSince <= sawClosed
        <5>1. CASE Ready
          <6>1. was_open # TRUE => sawClosed = now
            BY <2>3, <5>1 DEF DoorInvariant, SeenAsIs, Ready, Readings
          <6> QED BY <5>1, <6>1, UnseenSinceIs, Timed
        <5>2. CASE ~ Ready
          BY <1>3, <1>4, <2>3, <3>2, <5>2, UnseenSinceIs DEF DatedFollower
        <5> QED BY <5>1, <5>2
      <4>2. /\ was_open = TRUE => opened_at' = opened_at
            /\ was_open # TRUE => opened_at' = Opened(opened_at, UnseenSince)
        BY <2>1, <2>3, <3>4, ReportIs
      <4>3. opened_at # None => opened_at <= sawClosed
        BY <1>3, <1>4, <2>3 DEF DatedFollower
      <4>4. opened_at' # None => opened_at' <= sawClosed'
        BY <1>3, <1>4, <4>1, <4>2, <4>3 DEF Opened
      <4>5. Ready'
        BY <2>2, <3>4 DEF Ready, Readings
      <4> QED BY <1>3, <1>4, <2>1, <4>4, <4>5 DEF DatedFollower, InTime
    <3> QED BY <3>1, <3>3, <3>4
  <2>4. CASE ~ watching
    BY <1>3, <1>4, <2>1, <2>4 DEF DatedFollower, InTime
  <2> QED BY <2>3, <2>4
<1>5. CASE Passes /\ Watch
  BY <1>3, <1>5 DEF Passes, DatedFollower, InTime, Ready
<1>6. ASSUME watching, Ready, Watch
      PROVE  InTime(AsDict, sawClosed)
  BY <1>3, <1>6, SavedInTime
<1>7. CASE Dump /\ Watch
  <2>1. file' = Latest /\ UNCHANGED <<sensor, stored, watching, opened_at, was_open>>
    BY <1>7 DEF Dump
  <2>2. DatedFollower' /\ InTime(stored, sawClosed)'
    BY <1>3, <1>7, <2>1 DEF DatedFollower, InTime, Ready
  <2>3. CASE watching /\ file' # file
    <3>1. Ready /\ file' = AsDict
      BY <1>3, <1>7, <2>1, <2>3 DEF Unseen, Latest
    <3>2. InTime(file, sawClosed)'
      BY <1>3, <1>6, <1>7, <2>3, <3>1 DEF InTime
    <3> QED BY <2>2, <3>2
  <2>4. CASE ~ watching \/ file' = file
    <3>1. file' \in {file, stored}
      BY <2>1, <2>4 DEF Latest
    <3> QED BY <1>3, <1>7, <2>2, <3>1 DEF InTime
  <2> QED BY <2>3, <2>4
<1>8. CASE Unload /\ Watch
  <2>1. watching /\ ~ watching' /\ stored' = AsDict /\ file' = file /\ up' = up
    BY <1>8 DEF Unload, Forget
  <2>2. Ready
    BY <1>3, <1>8, <2>1 DEF Unseen, DoorInvariant, SeenAsIs
  <2>3. InTime(stored, sawClosed)'
    BY <1>3, <1>6, <1>8, <2>1, <2>2 DEF InTime
  <2> QED BY <1>3, <1>8, <2>1, <2>3 DEF DatedFollower, InTime
<1>9. CASE Relinked /\ Watch
  <2>1. stored'.link = FALSE /\ file' = file /\ ~ watching'
    BY <1>9 DEF Relinked
  <2> QED BY <1>3, <1>9, <2>1 DEF DatedFollower, InTime
<1>10. CASE (Stop \/ Crash) /\ Watch
  <2>1. ~ watching' /\ stored' = None /\ file' \in {file, Latest}
    BY <1>10 DEF Stop, Crash, Down, Forget
  <2>2. CASE file' = file \/ ~ watching
    <3>1. file' \in {file, stored}
      BY <2>1, <2>2 DEF Latest
    <3> QED BY <1>3, <1>10, <2>1, <3>1 DEF DatedFollower, InTime
  <2>3. CASE file' # file /\ watching
    <3>1. Ready /\ file' = AsDict
      BY <1>3, <1>10, <2>1, <2>3 DEF Unseen, Latest
    <3>2. InTime(file, sawClosed)'
      BY <1>3, <1>6, <1>10, <2>3, <3>1 DEF InTime
    <3> QED BY <2>1, <3>2 DEF DatedFollower, InTime
  <2> QED BY <2>2, <2>3
<1>11. CASE Start /\ Watch
  <2>1. stored' = file /\ file' = file /\ ~ watching'
    BY <1>11 DEF Start, DoorInvariant, SeenAsIs
  <2> QED BY <1>3, <1>11, <2>1 DEF DatedFollower, InTime
<1>12. CASE UNCHANGED vars
  BY <1>0, <1>1, <1>12 DEF vars, Doubtless, DatedFollower, InTime, Ready
<1> QED BY <1>2, <1>4, <1>5, <1>7, <1>8, <1>9, <1>10, <1>11, <1>12, ReportsOrPasses DEF Next

\* Likewise for the other bound.
NoCrash == sawClosed # None /\ "crash" \notin doubts
Kept == IF up THEN stored ELSE file
CountedFollower == watching /\ was_open = TRUE => opened_at # None /\ sawClosed <= opened_at
Since(data, closed) ==
    data # None /\ data.link =>
        /\ closed <= data.seen
        /\ data.open = TRUE => (data.opened # None /\ closed <= data.opened)

LEMMA CountedIs ==
    CountedSince <=>
        /\ sawClosed # None /\ ~ Ready => sawClosed <= sensor.changed
        /\ NoCrash => CountedFollower /\ (~ watching => Since(Kept, sawClosed))
BY DEF CountedSince, NoCrash, CountedFollower, Since, Kept

\* A sensor that isn't known became so after the door was last seen closed.
LEMMA NextUnknown ==
    ASSUME TypeOK, DoorInvariant, [Next]_vars, sawClosed' # None, ~ Ready'
    PROVE  sawClosed' <= sensor'.changed
<1> USE DEF storage, follower, ghosts
<1>0. /\ sawClosed # None /\ ~ Ready => sawClosed <= sensor.changed
      /\ sawClosed # None => sawClosed <= now
  BY CountedIs DEF DoorInvariant, NothingAhead
<1>1. sensor'.state # "off"
  BY DEF Ready, Readings
<1>2. sawClosed' = sawClosed
  <2>1. CASE Load
    BY <1>1, <2>1 DEF Load
  <2>2. CASE Watch
    BY <1>1, <2>2, WatchIs
  <2>3. CASE UNCHANGED vars
    BY <2>3 DEF vars
  <2> QED BY <2>1, <2>2, <2>3 DEF Next
<1>3. CASE sensor' = sensor
  BY <1>0, <1>2, <1>3 DEF Ready
<1>4. CASE sensor'.changed = now
  BY <1>0, <1>2, <1>4
<1>5. sensor' = sensor \/ sensor'.changed = now
  BY DEF Next, Load, DoorMoves, SensorLost, SensorBack, Dump, Unload, Relinked, Stop, Crash,
         Down, Start, Tick, Report, SensorIs, vars
<1> QED BY <1>3, <1>4, <1>5

\* What is saved of a lock is no earlier.
LEMMA SavedSince ==
    ASSUME TypeOK, DoorInvariant, NoCrash, watching
    PROVE  Since(AsDict, sawClosed)
<1>1. CountedFollower
  BY CountedIs DEF DoorInvariant
<1>2. AsDict.opened = opened_at /\ AsDict.open = was_open /\ AsDict.seen = now
  BY DEF AsDict
<1>3. sawClosed <= now
  BY DEF DoorInvariant, NothingAhead, NoCrash
<1> QED BY <1>1, <1>2, <1>3 DEF Since, CountedFollower

LEMMA NextCounted ==
    ASSUME TypeOK, DoorInvariant, [Next]_vars, TypeOK', SeenAsIs'
    PROVE  CountedSince'
<1> USE DEF storage, follower, ghosts
<1>0. /\ NoCrash => CountedFollower /\ (~ watching => Since(Kept, sawClosed))
      /\ sawClosed # None => sawClosed \in Int /\ now \in Int /\ sawClosed <= now
  BY CountedIs, Timed DEF DoorInvariant, NothingAhead
<1>1. SUFFICES ASSUME NoCrash', ~ (watching' /\ sensor'.state = "off")
               PROVE  CountedFollower' /\ (~ watching' => Since(Kept', sawClosed'))
  <2>1. sawClosed' # None /\ ~ Ready' => sawClosed' <= sensor'.changed
    BY NextUnknown
  <2>2. CASE watching' /\ sensor'.state = "off"
    <3>1. was_open' = FALSE
      BY <2>2 DEF SeenAsIs, Ready, Readings
    <3> QED BY <2>1, <2>2, <3>1 DEF CountedSince, NoCrash, Kept
  <2>3. CASE ~ (watching' /\ sensor'.state = "off")
    <3>1. NoCrash' => CountedFollower' /\ (~ watching' => Since(Kept', sawClosed'))
      BY <1>1, <2>3
    <3> QED BY <2>1, <3>1 DEF CountedSince, NoCrash, CountedFollower, Since, Kept
  <2> QED BY <2>2, <2>3
<1>2. CASE Load
  <2>1. watching' /\ ~ watching /\ up /\ sensor.state # "off" /\ sensor' = sensor
    BY <1>1, <1>2 DEF Load
  <2>2. SameLink /\ sawClosed' = sawClosed /\ NoCrash
    BY <1>1, <1>2, <2>1 DEF Load, NoCrash
  <2>3. Since(stored, sawClosed)
    BY <1>0, <2>1, <2>2 DEF Kept
  <2>4. /\ sawClosed <= stored.seen /\ stored.seen \in Int
        /\ stored.open = TRUE => (stored.opened # None /\ sawClosed <= stored.opened)
        /\ Restored = stored.opened /\ Restored \in Times
    BY <2>2, <2>3, Timed, DataType DEF SameLink, Since, Restored
  <2>5. CASE sensor.state = "on"
    <3>1. /\ stored.open = TRUE => opened_at' = Restored
          /\ stored.open # TRUE => opened_at' = Opened(Restored, stored.seen)
      BY <1>2, <2>2, <2>5, LoadIs
    <3>2. /\ Opened(Restored, stored.seen) \in Int
          /\ stored.seen <= Opened(Restored, stored.seen)
      BY <2>4, OpenedType
    <3>3. opened_at' # None /\ sawClosed <= opened_at'
      <4>1. CASE stored.open = TRUE
        BY <2>4, <3>1, <4>1
      <4>2. CASE stored.open # TRUE
        BY <1>0, <2>2, <2>4, <3>1, <3>2, <4>2, NoneIsNothing DEF NoCrash
      <4> QED BY <4>1, <4>2
    <3> QED BY <2>1, <2>2, <3>3 DEF CountedFollower
  <2>6. CASE sensor.state # "on"
    <3>1. opened_at' = stored.opened /\ was_open' = stored.open
      BY <1>2, <2>1, <2>2, <2>4, <2>6, LoadIs DEF Readings
    <3> QED BY <2>1, <2>2, <2>4, <3>1 DEF CountedFollower
  <2> QED BY <2>5, <2>6
<1>3. ASSUME Watch
      PROVE  /\ sawClosed' = sawClosed /\ NoCrash /\ ~ Crash
             /\ CountedFollower /\ (~ watching => Since(Kept, sawClosed))
  BY <1>0, <1>1, <1>3, WatchIs DEF NoCrash
<1>4. CASE Reports /\ Watch
  <2>1. PICK state \in SensorStates :
            up /\ Report(state) /\ UNCHANGED <<now, up, storage, watching>>
    BY <1>4 DEF Reports
  <2>2. sensor'.state = state
    BY <2>1 DEF Report, SensorIs
  <2>3. CASE ~ watching
    BY <1>3, <1>4, <2>1, <2>3 DEF CountedFollower, Kept
  <2>4. CASE watching /\ state = "on"
    <3>1. /\ was_open = TRUE => opened_at' = opened_at
          /\ was_open # TRUE => opened_at' = Opened(opened_at, UnseenSince)
      BY <2>1, <2>4, ReportIs
    <3>2. sawClosed <= UnseenSince /\ UnseenSince \in Int
      <4>1. CASE Ready \/ sensor.state = "absent"
        BY <1>0, <1>3, <1>4, <4>1, UnseenSinceIs DEF NoCrash
      <4>2. CASE ~ Ready /\ sensor.state # "absent"
        BY <1>3, <1>4, <4>2, UnseenSinceIs, CountedIs DEF NoCrash, DoorInvariant
      <4> QED BY <4>1, <4>2
    <3>3. /\ Opened(opened_at, UnseenSince) \in Int
          /\ UnseenSince <= Opened(opened_at, UnseenSince)
      BY <3>2, OpenedType DEF TypeOK
    <3>4. opened_at' # None /\ sawClosed <= opened_at'
      <4>1. CASE was_open = TRUE
        BY <1>3, <1>4, <2>4, <3>1, <4>1 DEF CountedFollower
      <4>2. CASE was_open # TRUE
        BY <1>0, <1>3, <1>4, <3>1, <3>2, <3>3, <4>2, NoneIsNothing DEF NoCrash
      <4> QED BY <4>1, <4>2
    <3> QED BY <1>3, <1>4, <2>1, <2>4, <3>4 DEF CountedFollower
  <2>5. CASE watching /\ state # "on"
    <3>1. state \notin Readings
      BY <1>1, <2>1, <2>2, <2>5 DEF Readings
    <3>2. opened_at' = opened_at /\ was_open' = was_open
      BY <2>1, <2>5, <3>1, ReportIs
    <3> QED BY <1>3, <1>4, <2>1, <2>5, <3>2 DEF CountedFollower
  <2> QED BY <2>3, <2>4, <2>5
<1>5. CASE Passes /\ Watch
  BY <1>3, <1>5 DEF Passes, CountedFollower, Kept
<1>6. CASE Dump /\ Watch
  BY <1>3, <1>6 DEF Dump, CountedFollower, Kept
<1>7. CASE Unload /\ Watch
  <2>1. watching /\ ~ watching' /\ stored' = AsDict /\ up' /\ up
    BY <1>7 DEF Unload, Forget, DoorInvariant, SeenAsIs
  <2>2. Since(AsDict, sawClosed)
    BY <1>3, <1>7, <2>1, SavedSince
  <2> QED BY <1>3, <1>7, <2>1, <2>2 DEF CountedFollower, Kept
<1>8. CASE Relinked /\ Watch
  <2>1. stored'.link = FALSE /\ up' /\ ~ watching'
    BY <1>8 DEF Relinked
  <2> QED BY <2>1 DEF CountedFollower, Kept, Since
<1>9. CASE Stop /\ Watch
  <2>1. ~ watching' /\ ~ up' /\ up /\ file' = Latest
    BY <1>9 DEF Stop, Down, Forget
  <2>2. CASE watching
    BY <1>3, <1>9, <2>1, <2>2, SavedSince DEF CountedFollower, Kept, Latest
  <2>3. CASE ~ watching
    BY <1>3, <1>9, <2>1, <2>3 DEF CountedFollower, Kept, Latest
  <2> QED BY <2>2, <2>3
<1>10. CASE Crash /\ Watch
  BY <1>3, <1>10
<1>11. CASE Start /\ Watch
  <2>1. ~ up /\ up' /\ stored' = file /\ ~ watching' /\ ~ watching
    BY <1>11 DEF Start, DoorInvariant, SeenAsIs
  <2> QED BY <1>3, <1>11, <2>1 DEF CountedFollower, Kept
<1>12. CASE UNCHANGED vars
  BY <1>0, <1>1, <1>12 DEF vars, NoCrash, CountedFollower, Kept
<1> QED BY <1>2, <1>4, <1>5, <1>6, <1>7, <1>8, <1>9, <1>10, <1>11, <1>12, ReportsOrPasses
        DEF Next

LEMMA NextInvariant == TypeOK /\ DoorInvariant /\ [Next]_vars => DoorInvariant'
<1> SUFFICES ASSUME TypeOK, DoorInvariant, [Next]_vars PROVE DoorInvariant'
  OBVIOUS
<1>1. TypeOK' /\ NothingAhead' /\ SeenAsIs'
  BY NextType, NextAhead, NextSeen
<1> QED BY <1>1, NextDated, NextCounted DEF DoorInvariant

LEMMA DoorInvariantHolds == Spec => [](TypeOK /\ DoorInvariant)
<1> QED BY InitType, NextType, InitInvariant, NextInvariant, PTL DEF Spec

\* The time a lock says its door opened is never later than when the door was
\* last seen closed before it, unless the sensor was not known as that was
\* stored or set up: so _opened never has a lock that reported locked shown
\* unlocked by an opening from before.
THEOREM AlwaysDatedWhenLastClosed == Spec => []DatedWhenLastClosed
<1>1. DoorInvariant => DatedWhenLastClosed
  BY DEF DoorInvariant, DatedInTime, DatedWhenLastClosed
<1> QED BY <1>1, DoorInvariantHolds, PTL

\* A door that is open opened since it was last seen closed, whatever the
\* sensor, the link and Home Assistant did in between, short of a crash.
THEOREM OpeningsAlwaysCount == Spec => []OpeningCounts
<1>1. ASSUME TypeOK, DoorInvariant, watching, sensor.state = "on", sawClosed # None,
             "crash" \notin doubts
      PROVE  opened_at # None /\ opened_at >= sawClosed
  <2>1. was_open = TRUE
    BY <1>1, Zenon DEF DoorInvariant, SeenAsIs, Ready, Readings
  <2>2. opened_at # None /\ sawClosed <= opened_at
    BY <1>1, <2>1, CountedIs DEF DoorInvariant, NoCrash, CountedFollower
  <2> QED BY <1>1, <2>2, Timed
<1>2. TypeOK /\ DoorInvariant => OpeningCounts
  BY <1>1 DEF OpeningCounts
<1> QED BY <1>2, DoorInvariantHolds, PTL

-----------------------------------------------------------------------------
(* What is known of the last opening is not forgotten                      *)

\* Where that is kept.
LEMMA RememberedIs ==
    ASSUME TypeOK
    PROVE  /\ watching => Remembered = opened_at
           /\ ~ watching /\ up => Remembered = Restored
           /\ ~ watching /\ ~ up => Remembered = IF file = None THEN None ELSE file.opened
           /\ Remembered \in Times
<1>1. /\ watching => Remembered = opened_at
      /\ ~ watching /\ up => Remembered = Restored
      /\ ~ watching /\ ~ up => Remembered = IF file = None THEN None ELSE file.opened
  BY DEF Remembered, Restored, TypeOK
<1>2. file # None => file.opened \in Times
  BY DataType DEF Data
<1> QED BY <1>1, <1>2, DataType DEF TypeOK, Times

LEMMA RememberedNext ==
    ASSUME TypeOK'
    PROVE  Remembered' \in Times
<1>1. /\ file' # None => file'.opened \in Times
      /\ stored' # None => stored'.opened \in Times
      /\ opened_at' \in Times /\ None \in Times /\ watching' \in BOOLEAN /\ up' \in BOOLEAN
  BY DEF TypeOK, ExtraData, Data, Times
<1> QED BY <1>1 DEF Remembered

LEMMA NextRemembers ==
    ASSUME TypeOK, TypeOK', DoorInvariant, [Next]_vars, Remembered # None, ~ Crash
    PROVE  Remembered' # None /\ Remembered <= Remembered'
<1> USE DEF storage, follower, ghosts
<1>1. Remembered \in Int /\ Remembered <= Remembered
  BY RememberedIs DEF Times
<1>2. /\ watching => Remembered = opened_at
      /\ ~ watching /\ up => Remembered = Restored
      /\ ~ watching /\ ~ up => Remembered = IF file = None THEN None ELSE file.opened
      /\ watching => up
  BY RememberedIs DEF DoorInvariant, SeenAsIs
<1>3. /\ watching' => Remembered' = opened_at'
      /\ ~ watching' /\ up' => Remembered' = IF stored' = None THEN None ELSE stored'.opened
      /\ ~ watching' /\ ~ up' => Remembered' = IF file' = None THEN None ELSE file'.opened
  BY DEF Remembered, TypeOK
<1>4. CASE Load
  <2>1. watching' /\ ~ watching /\ up
    BY <1>4 DEF Load
  <2> QED BY <1>2, <1>3, <1>4, <2>1, LoadIs
<1>5. CASE Reports
  <2>1. PICK state \in SensorStates :
            up /\ Report(state) /\ UNCHANGED <<now, up, storage, watching>>
    BY <1>5 DEF Reports
  <2>2. CASE watching
    BY <1>2, <1>3, <2>1, <2>2, ReportIs
  <2>3. CASE ~ watching
    BY <1>1, <1>2, <1>3, <2>1, <2>3 DEF Restored
  <2> QED BY <2>2, <2>3
<1>6. CASE Passes
  BY <1>1, <1>2, <1>3, <1>6 DEF Passes, Restored
<1>7. CASE Dump
  BY <1>1, <1>2, <1>3, <1>7 DEF Dump, Restored
<1>8. AsDict # None /\ AsDict.opened = opened_at
  BY NoneIsNothing, DataType DEF AsDict, Data
<1>9. CASE Unload
  <2>1. watching /\ ~ watching' /\ stored' = AsDict /\ up'
    BY <1>2, <1>9 DEF Unload, Forget
  <2> QED BY <1>1, <1>2, <1>3, <1>8, <2>1
<1>10. CASE Relinked
  <2>1. PICK at \in {stored.opened, Opened(stored.opened, now)}, other \in BOOLEAN :
            stored' = [link |-> FALSE, opened |-> at, open |-> other, seen |-> now]
    BY <1>10 DEF Relinked
  <2>2. up /\ up' /\ ~ watching /\ ~ watching' /\ stored # None
    BY <1>10 DEF Relinked
  <2>3. Remembered = stored.opened
    BY <1>2, <2>2 DEF Restored
  <2>4. at \in Int /\ stored.opened <= at
    <3>1. stored.opened \in Int /\ stored.opened \in Times /\ stored.opened # None
      BY <1>1, <2>3, NoneIsNothing DEF Times
    <3>2. /\ Opened(stored.opened, now) \in Int
          /\ stored.opened <= Opened(stored.opened, now)
      BY <3>1, OpenedType, Timed
    <3> QED BY <2>1, <3>1, <3>2
  <2>5. stored'.opened = at /\ stored' # None
    <3>1. stored' \in Data
      BY <2>1, <2>4, Timed DEF Data, Times, Booleans
    <3> QED BY <2>1, <3>1, NoneIsNothing DEF Data
  <2> QED BY <1>3, <2>2, <2>3, <2>4, <2>5, NoneIsNothing
<1>11. CASE Stop
  <2>1. ~ watching' /\ ~ up' /\ up /\ file' = Latest
    BY <1>11 DEF Stop, Down, Forget
  <2>2. CASE watching
    BY <1>1, <1>2, <1>3, <1>8, <2>1, <2>2 DEF Latest
  <2>3. CASE ~ watching
    BY <1>1, <1>2, <1>3, <2>1, <2>3 DEF Latest, Restored
  <2> QED BY <2>2, <2>3
<1>12. CASE Start
  <2>1. ~ up /\ up' /\ stored' = file /\ ~ watching' /\ ~ watching
    BY <1>12 DEF Start, DoorInvariant, SeenAsIs
  <2> QED BY <1>1, <1>2, <1>3, <2>1
<1>13. CASE UNCHANGED vars
  BY <1>1, <1>2, <1>3, <1>13 DEF vars, Restored
<1> QED BY <1>4, <1>5, <1>6, <1>7, <1>9, <1>10, <1>11, <1>12, <1>13, ReportsOrPasses DEF Next

\* No step but a crash loses the time the door last opened, or replaces it by
\* an earlier one: reports of the sensor, the entity's being added, saved,
\* removed and restored, and the link changing sensor.
THEOREM NeverForgotten == Spec => NotForgotten
<1>1. ASSUME TypeOK, TypeOK', DoorInvariant, [Next]_vars
      PROVE  [Remembered # None =>
                  \/ Remembered' # None /\ Remembered' >= Remembered
                  \/ Crash]_vars
  <2>1. ASSUME Remembered # None, ~ Crash
        PROVE  Remembered' # None /\ Remembered' >= Remembered
    <3>1. Remembered' # None /\ Remembered <= Remembered'
      BY <1>1, <2>1, NextRemembers
    <3>2. Remembered \in Times
      BY <1>1, RememberedIs
    <3>3. Remembered' \in Times
      BY <1>1, RememberedNext
    <3> QED BY <2>1, <3>1, <3>2, <3>3 DEF Times
  <2> QED BY <2>1
<1> QED BY <1>1, DoorInvariantHolds, PTL DEF Spec, NotForgotten
=============================================================================
