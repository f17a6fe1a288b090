---------------------------- MODULE MCLockEntity ----------------------------
(* Instances of LockEntity for TLC.                                        *)
EXTENDS LockEntity

\* A lock with locked status whose clock is ahead, and everything but the
\* commands' crashes and what only matters to a bolt nobody reports.
ClockAhead ==
    [reportsBolt |-> TRUE, skew |-> 2, maxTime |-> 3, maxEvents |-> 2,
     hazards |-> {"commands", "others", "overlap", "door", "commandFails", "restart",
                  "reorder", "keepActive", "refire"}]

\* A lock whose bolt is turned by hand only, its reports coming in any order.
BoltTurned ==
    [reportsBolt |-> TRUE, skew |-> 0, maxTime |-> 4, maxEvents |-> 3,
     hazards |-> {"door", "miss", "restart", "stale", "reorder", "pollFails", "refire"}]

\* A lock without locked status, activated by everyone, its reports in order.
Activated ==
    [reportsBolt |-> FALSE, skew |-> 0, maxTime |-> 5, maxEvents |-> 3,
     hazards |-> {"commands", "others", "commandFails", "commandCrashes", "refire", "restart"}]

Settling == {ClockAhead, BoltTurned, Activated}

\* The single hazards the README tells of: each cfg of one of them checks what
\* the passing run checks without it.
Crash ==
    {[reportsBolt |-> TRUE, skew |-> 0, maxTime |-> 4, maxEvents |-> 3,
      hazards |-> {"commands", "commandCrashes"}]}
Ahead ==
    {[reportsBolt |-> TRUE, skew |-> 2, maxTime |-> 4, maxEvents |-> 3, hazards |-> {}]}
Behind ==
    {[reportsBolt |-> TRUE, skew |-> -2, maxTime |-> 4, maxEvents |-> 3,
      hazards |-> {"door", "miss"}]}

ActivatedWith(hazards) ==
    {[reportsBolt |-> FALSE, skew |-> 0, maxTime |-> 5, maxEvents |-> 3, hazards |-> hazards]}

Reordered == ActivatedWith({"commands", "reorder"})
Overlapping == ActivatedWith({"commands", "others", "overlap"})
FailedPolls == ActivatedWith({"others", "pollFails"})
=============================================================================
