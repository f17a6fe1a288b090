----------------------------- MODULE MCDoorLinks -----------------------------
(* Instances of DoorLinks for TLC.                                         *)
EXTENDS DoorLinks, TLC

CONSTANTS lock1, lock2, connect

Plain == [gateway |-> None, remote |-> FALSE, activatable |-> FALSE, eventLog |-> FALSE,
          reportsBolt |-> FALSE, firmware |-> 1, offline |-> FALSE]

\* A lock as bought; with a Connect, updated, and all its features; and a Connect.
Bought == Plain
Connected == [Plain EXCEPT !.gateway = connect, !.remote = TRUE, !.eventLog = TRUE,
                           !.reportsBolt = TRUE, !.firmware = 2]
Upgraded == [Connected EXCEPT !.firmware = 1, !.gateway = None]
AConnect == [Plain EXCEPT !.gateway = connect, !.remote = TRUE]
Offline == [AConnect EXCEPT !.offline = TRUE]
Opener == [AConnect EXCEPT !.activatable = TRUE, !.eventLog = TRUE]

Account(one, two, three, first, bluetooth, hazards, bound) ==
    [profiles |-> lock1 :> one @@ lock2 :> two @@ connect :> three, first |-> first,
     bluetooth |-> bluetooth, hazards |-> hazards, changes |-> bound]

\* Two locks and their Connect come, go and change, over pages of two.
Changing ==
    Account({Bought, Connected}, {Connected}, {AConnect, Opener, Offline},
            <<lock1, connect>>, TRUE, {"fails", "reload"}, 4)

\* A lock without Bluetooth comes and goes, linked to either of two sensors.
Linked ==
    Account({Upgraded, Connected}, {}, {AConnect}, <<lock1>>, FALSE,
            {"fails", "links", "rename", "sensors"}, 4)

\* An account beside another one.
Beside ==
    Account({Bought, Connected}, {}, {AConnect, Offline}, <<lock1, connect>>, FALSE,
            {"otherAccount"}, 3)

Lives == {Changing, Linked, Beside}

\* What the README tells of: each cfg of one of these checks what the passing
\* run checks without it.
Besides == {Beside}
Paged == {Changing}
Away == {Linked}
=============================================================================
