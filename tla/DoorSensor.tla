------------------------------ MODULE DoorSensor ------------------------------
(***************************************************************************)
(* How a lock's entity follows the contact sensor of its door (DoorSensor, *)
(* and the part of BoldLock that starts, stores and restores it), so as to *)
(* tell when the door last opened: past the sensor being unavailable, Home *)
(* Assistant restarting or crashing, and the link changing sensor.         *)
(*                                                                         *)
(* The sensor and Home Assistant's restore state are not the integration's *)
(* own: they are modelled from how it uses them.                           *)
(***************************************************************************)
EXTENDS Integers

CONSTANTS
    MaxTime,            \* bound: the last moment explored
    Environment,        \* which of Hazards happen
    None

\* What else may happen; each run says which of it does.
Hazards == {"stop",         \* Home Assistant restarts
            "crash",        \* Home Assistant crashes, and loses what it had not saved
            "reload",       \* the integration reloads, and saves the lock's entity
            "relink",       \* in between, the lock was linked to another door's sensor
            "slowSensor",   \* at a start, the lock is set up before the sensor
            "unseenSave",   \* the lock is saved while the sensor is unavailable
            "unknown",      \* back from unavailable, the sensor doesn't know at first
            "removed"}      \* the sensor is removed, and added again

ASSUME MaxTimeIsNatural == MaxTime \in Nat
ASSUME EnvironmentIsHazards == Environment \subseteq Hazards

Times == Int \cup {None}
Booleans == BOOLEAN \cup {None}
Data == [link : BOOLEAN, opened : Times, open : Booleans, seen : Int]

ASSUME NoneIsNothing == None \notin Int \cup Data

VARIABLES
    now,
    (* the door *)
    open,
    (* Home Assistant *)
    up,                 \* it runs
    sensor,             \* the sensor's state, and since when it has that
    file,               \* the lock's extra data, as saved to disk,
    stored,             \* and as restored by the next async_added_to_hass
    (* the door sensor of the lock's entity *)
    watching,           \* async_start was called, and not yet undone
    opened_at, was_open,
    (* for the properties *)
    sawClosed,          \* when the door was last seen closed, as far as that was stored
    doubts              \* what happened since that makes it uncertain

storage == <<file, stored>>
follower == <<watching, opened_at, was_open>>
ghosts == <<sawClosed, doubts>>
vars == <<now, open, up, sensor, storage, follower, ghosts>>

Readings == {"on", "off"}
Reading == IF open THEN "on" ELSE "off"
SensorIs(state) == [state |-> state, changed |-> now]

Ready == sensor.state \in Readings

-----------------------------------------------------------------------------
(* DoorSensor                                                              *)

\* _opened
Opened(known, at) == IF known = None \/ at > known THEN at ELSE known

MutatedSeen(state, known, was, at) ==
    /\ opened_at' = IF state = "on" /\ was # TRUE THEN Opened(known, at) ELSE known
    /\ was_open' = (state = "on")

\* _seen: the door's state, if the sensor knows it; an opening is dated `at`.
Seen(state, known, was, at) ==
    IF state \in Readings
    THEN /\ opened_at' = IF state = "on" /\ was # TRUE THEN Opened(known, at) ELSE known
         /\ was_open' = (state = "on")
    ELSE opened_at' = known /\ was_open' = was

MutatedUnseenSince == IF sensor.state # "absent" THEN sensor.changed ELSE now

\* Back from unavailable: opened, at the earliest, when it went.
UnseenSince == IF sensor.state \notin Readings \cup {"absent"} THEN sensor.changed ELSE now

\* The sensor gets this state; who follows it hears of that.
Report(state) ==
    /\ sensor' = SensorIs(state)
    /\ IF watching THEN Seen(state, opened_at, was_open, UnseenSince)
       ELSE UNCHANGED <<opened_at, was_open>>

\* What to remember: whether it is of this link, when the door last opened,
\* whether it was open, and the time of saving it.
AsDict == [link |-> TRUE, opened |-> opened_at, open |-> was_open, seen |-> now]

MutatedRestored == IF stored # None /\ stored.link THEN stored.opened ELSE None

\* When the door last opened is kept when the link changes sensor.
Restored == IF stored = None THEN None ELSE stored.opened

SameLink == stored # None /\ stored.link

\* async_start: how another sensor's door was is not taken for this one's.
Load ==
    /\ up
    /\ ~ watching
    /\ Ready \/ "slowSensor" \in Environment
    /\ watching' = TRUE
    /\ IF SameLink THEN Seen(sensor.state, Restored, stored.open, stored.seen)
       ELSE Seen(sensor.state, Restored, None, sensor.changed)
    /\ sawClosed' = IF sensor.state = "off" THEN now ELSE IF SameLink THEN sawClosed ELSE None
    /\ doubts' = IF sensor.state = "off" THEN {}
                 ELSE doubts \cup (IF Ready THEN {} ELSE {"unseen"})
    /\ UNCHANGED <<now, open, up, sensor, storage>>

-----------------------------------------------------------------------------
(* The door and its sensor                                                 *)

DoorMoves ==
    /\ open' = ~ open
    /\ IF up /\ Ready THEN Report(Reading') ELSE UNCHANGED <<sensor, opened_at, was_open>>
    /\ UNCHANGED <<now, up, storage, watching>>

SensorLost ==
    /\ up
    /\ \/ Ready /\ Report("unavailable")
       \/ "removed" \in Environment /\ sensor.state # "absent" /\ Report("absent")
    /\ UNCHANGED <<now, open, up, storage, watching>>

SensorBack ==
    /\ up
    /\ ~ Ready
    /\ \/ Report(Reading)
       \/ "unknown" \in Environment /\ sensor.state # "unknown" /\ Report("unknown")
    /\ UNCHANGED <<now, open, up, storage, watching>>

-----------------------------------------------------------------------------
(* Home Assistant                                                          *)

MaySave == watching => Ready \/ "unseenSave" \in Environment
Latest == IF watching THEN AsDict ELSE stored

\* Every so often, extra data is saved to disk.
Dump ==
    /\ up
    /\ MaySave
    /\ file' = Latest
    /\ UNCHANGED <<now, open, up, sensor, stored, follower>>

\* The entity, and its DoorSensor with it, is gone.
Forget == watching' = FALSE /\ opened_at' = None /\ was_open' = None

\* A removed entity's extra data is kept for when it's added again.
Unload ==
    /\ "reload" \in Environment
    /\ watching
    /\ MaySave
    /\ stored' = AsDict
    /\ Forget
    /\ UNCHANGED <<now, open, up, sensor, file>>

\* Meanwhile the lock followed another door, which may have opened.
Relinked ==
    /\ "relink" \in Environment
    /\ up /\ ~ watching
    /\ stored # None
    /\ \E at \in {stored.opened, Opened(stored.opened, now)}, other \in BOOLEAN :
           stored' = [link |-> FALSE, opened |-> at, open |-> other, seen |-> now]
    /\ UNCHANGED <<now, open, up, sensor, file, follower>>

Down ==
    /\ up
    /\ up' = FALSE
    /\ stored' = None
    /\ Forget
    /\ UNCHANGED <<now, open, sensor>>

Stop == "stop" \in Environment /\ MaySave /\ Down /\ file' = Latest

Crash == "crash" \in Environment /\ Down /\ UNCHANGED file

\* The sensor starts out unavailable, until it is set up, or known.
Start ==
    /\ ~ up
    /\ up' = TRUE
    /\ stored' = file
    /\ sensor' \in {SensorIs("unavailable"), SensorIs(Reading)}
    /\ UNCHANGED <<now, open, file, follower>>

Tick ==
    /\ now < MaxTime
    /\ now' = now + 1
    /\ UNCHANGED <<open, up, sensor, storage, follower>>

\* The sensor was not known as the lock was saved, or became unknown or was
\* removed instead of just being unavailable.
Unseen ==
    \/ watching /\ ~ Ready /\ (file' # file \/ (up' /\ ~ watching'))
    \/ sensor'.state \in {"unknown", "absent"}

Watch ==
    LET closed == watching' /\ sensor'.state = "off"
    IN  /\ sawClosed' = IF closed THEN now' ELSE sawClosed
        /\ doubts' = IF closed THEN {}
                     ELSE doubts \cup (IF Unseen THEN {"unseen"} ELSE {})
                                 \cup (IF Crash THEN {"crash"} ELSE {})

-----------------------------------------------------------------------------
Init ==
    /\ now = 0
    /\ open \in BOOLEAN
    /\ up = TRUE
    /\ sensor = [state |-> Reading, changed |-> -1]
    /\ file = None /\ stored = None
    /\ watching = FALSE /\ opened_at = None /\ was_open = None
    /\ sawClosed = None /\ doubts = {}

Next ==
    \/ Load
    \/ /\ \/ DoorMoves \/ SensorLost \/ SensorBack
          \/ Dump \/ Unload \/ Relinked \/ Stop \/ Crash \/ Start \/ Tick
       /\ Watch

Spec == Init /\ [][Next]_vars

-----------------------------------------------------------------------------
(* Properties                                                              *)

ExtraData == Data \cup {None}

\* Every variable has its type.
TypeOK ==
    /\ now \in Nat
    /\ open \in BOOLEAN
    /\ up \in BOOLEAN
    /\ sensor \in [state : Readings \cup {"unavailable", "unknown", "absent"}, changed : Int]
    /\ file \in ExtraData /\ stored \in ExtraData
    /\ watching \in BOOLEAN /\ opened_at \in Times /\ was_open \in Booleans
    /\ sawClosed \in Times /\ doubts \subseteq {"unseen", "crash"}

\* An opening is dated no later than when the door was last seen closed, before
\* it: one that may be from before the lock reported locked never shows it
\* unlocked ("Opened while Home Assistant wasn't watching: at the earliest, when
\* it last saw the door closed"; "Back from unavailable: opened, at the
\* earliest, when it went").  The code keeps to that as long as the sensor is
\* known whenever the lock is saved or set up, and in between is unavailable
\* without becoming unknown or being removed.
DatedWhenLastClosed ==
    watching /\ opened_at # None /\ sawClosed # None /\ "unseen" \notin doubts
        => opened_at <= sawClosed

\* A door seen closed, and open now, opened since: whatever the sensor or Home
\* Assistant did in between, but for a crash ("If the door was closed before it went unavailable
\* and is open when it's back, that counts as an opening").
OpeningCounts ==
    watching /\ sensor.state = "on" /\ sawClosed # None /\ "crash" \notin doubts
        => opened_at # None /\ opened_at >= sawClosed

\* When the door last opened, wherever that is kept at the moment.
Remembered == CASE watching                -> opened_at
                [] ~ watching /\ up        -> IF stored = None THEN None ELSE stored.opened
                [] OTHER                   -> IF file = None THEN None ELSE file.opened

\* What is known of the last opening is never lost or replaced by something
\* earlier ("Restarts don't lose track"), short of a crash, which loses what
\* was not saved.
NotForgotten ==
    [][Remembered # None =>
           \/ Remembered' # None /\ Remembered' >= Remembered
           \/ Crash]_vars

(* What every step keeps, and those follow from.                           *)

\* Nothing is dated later than now.
NothingAhead ==
    /\ sensor.changed <= now
    /\ opened_at # None => opened_at <= now
    /\ sawClosed # None => sawClosed <= now
    /\ \A data \in {file, stored} \ {None} :
           /\ data.seen <= now
           /\ data.opened # None => data.opened <= now

\* Who follows a sensor that is known has taken its state.
SeenAsIs ==
    /\ watching => up
    /\ ~ up => stored = None
    /\ watching /\ Ready => was_open = (sensor.state = "on")
    /\ watching /\ sensor.state = "off" => sawClosed = now /\ doubts = {}
    /\ sensor.state \in {"unknown", "absent"} => "unseen" \in doubts

\* Closed when last seen, the door has not opened, nor is what is kept for
\* dating its opening, later than that.
DatedInTime ==
    sawClosed # None /\ "unseen" \notin doubts =>
        /\ watching =>
               /\ opened_at # None => opened_at <= sawClosed
               /\ ~ Ready /\ was_open # TRUE => sensor.changed <= sawClosed
        /\ \A data \in {file, stored} \ {None} :
               data.link => /\ data.opened # None => data.opened <= sawClosed
                            /\ data.open # TRUE => data.seen <= sawClosed

\* Open when last seen, it opened since it was closed; and what is kept for
\* dating an opening is no earlier.
CountedSince ==
    sawClosed # None =>
        /\ ~ Ready => sawClosed <= sensor.changed
        /\ "crash" \notin doubts =>
               /\ watching /\ was_open = TRUE => opened_at # None /\ sawClosed <= opened_at
               /\ \A data \in {IF up THEN stored ELSE file} \ {None} :
                      ~ watching /\ data.link =>
                          /\ sawClosed <= data.seen
                          /\ data.open = TRUE => data.opened # None /\ sawClosed <= data.opened

DoorInvariant == NothingAhead /\ SeenAsIs /\ DatedInTime /\ CountedSince
=============================================================================
