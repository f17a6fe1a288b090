------------------------------ MODULE LockCommand ------------------------------
(***************************************************************************)
(* How a command of BoldLock gets to the lock: through its Bold Connect,   *)
(* by Bold's cloud, or over Bluetooth, by a connection of our own; one     *)
(* after the other if the first fails.  LockEntity models what a command   *)
(* comes to for the entity.                                                *)
(*                                                                         *)
(* A reload replaces the entity.  A command that is under way goes on, but *)
(* knows nothing of those of the new entity, nor these of it: each entity  *)
(* has its own task to disconnect, and its own lock around a conversation. *)
(* Home Assistant runs one command of an entity at a time, so that lock is *)
(* never waited for.  BleSession has the packets of a conversation and     *)
(* their encryption: what they get wrong is, here, that a step fails.      *)
(***************************************************************************)
EXTENDS Integers, Sequences

CONSTANTS
    MaxCommands,        \* bound: commands given
    MaxReloads,         \* bound: reloads
    Environment         \* which of Hazards happen

Hazards == {"change",           \* what is usable changes, also during a command
            "refuse",           \* the lock or Bold refuses, without carrying it out
            "fail",             \* a step fails, or its answer is lost: a BoldError
            "cloudRaises",      \* a request raises something else (TimeoutError, ValueError)
            "disconnectRaises", \* and so does disconnecting (neither BleakError nor TimeoutError)
            "cutOff",           \* the conversation's time runs out while disconnecting
            "reload"}           \* the integration reloads

ASSUME BoundsAreNatural == MaxCommands \in Nat /\ MaxReloads \in Nat
ASSUME EnvironmentIsHazards == Environment \subseteq Hazards

VARIABLES
    method,             \* the lock's unlock method
    connect,            \* _connect_usable
    signal,             \* how well the lock is heard over Bluetooth, if it is
    keys,               \* there is a valid handshake and command
    entity,             \* the lock's entity, of Entities
    (* of each entity *)
    step,               \* what its command under way waits for
    routes,             \* the routes it has left, the current one first
    usable, tried,      \* those it had, and those it tried
    executed,           \* the lock carried it out
    outcome,            \* how the last command ended
    linked,             \* its Bluetooth connection to the lock is up
    oldLink,            \* that of an earlier command still is
    disconnecting,      \* the task that ends that, _disconnecting
    (* of all *)
    abandoned,          \* a connection is up that nobody ends
    commands

\* The entity there was at first, and those of each reload.
Entities == 0 .. MaxReloads

reach == <<method, connect, signal, keys>>
command == <<step, routes, usable, tried, executed, outcome, commands>>
links == <<linked, oldLink, abandoned, disconnecting>>
vars == <<reach, entity, command, links>>

Methods == {"prefer_bluetooth", "prefer_connect", "bluetooth_only", "connect_only"}
Steps == {"idle", "choose", "cloud",
          "disconnect", "connecting", "handshake", "command", "executed", "hangUp"}

\* ROUTES
InOrder == [prefer_bluetooth |-> <<"bluetooth", "connect">>,
            prefer_connect   |-> <<"connect", "bluetooth">>,
            bluetooth_only   |-> <<"bluetooth">>,
            connect_only     |-> <<"connect">>]

\* Bluetooth is only tried ahead of a usable Connect with a strong signal.
BluetoothUsable ==
    /\ keys
    /\ signal # "none"
    /\ connect /\ method = "prefer_bluetooth" => signal = "strong"

IsUsable(route) == IF route = "connect" THEN connect ELSE BluetoothUsable
IfUsable(route) == IF IsUsable(route) THEN <<route>> ELSE <<>>

\* _routes: at most two.
Routes ==
    LET order == InOrder[method]
    IN  IfUsable(order[1]) \o (IF Len(order) = 2 THEN IfUsable(order[2]) ELSE <<>>)

SetOf(sequence) == {sequence[i] : i \in 1 .. Len(sequence)}

-----------------------------------------------------------------------------
(* The command                                                             *)

\* It ends: with a result, a HomeAssistantError, or something else raised.
End(e, how) ==
    /\ step' = [step EXCEPT ![e] = "idle"]
    /\ outcome' = [outcome EXCEPT ![e] = how]
    /\ UNCHANGED <<routes, usable, commands>>

\* _async_send begins.
Send(e) ==
    /\ e = entity
    /\ step[e] = "idle"
    /\ commands < MaxCommands
    /\ commands' = commands + 1
    /\ routes' = [routes EXCEPT ![e] = Routes]
    /\ usable' = [usable EXCEPT ![e] = SetOf(Routes)]
    /\ tried' = [tried EXCEPT ![e] = {}]
    /\ executed' = [executed EXCEPT ![e] = FALSE]
    /\ step' = [step EXCEPT ![e] = IF Routes = <<>> THEN "idle" ELSE "choose"]
    /\ outcome' = [outcome EXCEPT ![e] = IF Routes = <<>> THEN "error" ELSE "none"]
    /\ UNCHANGED <<reach, entity, links>>

\* An await of it ends, and the next begins.
Await(e, next) ==
    /\ step' = [step EXCEPT ![e] = next]
    /\ UNCHANGED <<routes, usable, outcome, commands>>

MutatedNextRoute(e) == End(e, "error")
MutatedNextRouteAgain(e) == Await(e, "choose")

\* A BoldError: the next route is tried, if there is one.
NextRoute(e) ==
    IF Len(routes[e]) > 1
    THEN /\ routes' = [routes EXCEPT ![e] = Tail(@)]
         /\ step' = [step EXCEPT ![e] = "choose"]
         /\ UNCHANGED <<usable, outcome, commands>>
    ELSE End(e, "error")

Try(e, route) ==
    /\ step[e] = "choose"
    /\ Head(routes[e]) = route
    /\ tried' = [tried EXCEPT ![e] = @ \cup {route}]

-----------------------------------------------------------------------------
(* Through the Bold Connect                                                *)

TryConnect(e) ==
    /\ Try(e, "connect")
    /\ Await(e, "cloud")
    /\ UNCHANGED <<reach, entity, executed, links>>

\* Bold has the lock carry it out, and answers; the answer may be lost.
CloudAnswers(e) ==
    /\ step[e] = "cloud"
    /\ executed' = [executed EXCEPT ![e] = TRUE]
    /\ \/ End(e, "ok")
       \/ "fail" \in Environment /\ NextRoute(e)
       \/ "cloudRaises" \in Environment /\ End(e, "raised")
    /\ UNCHANGED <<reach, entity, tried, links>>

\* Bold can't be reached, or refuses.
CloudFails(e) ==
    /\ step[e] = "cloud"
    /\ \/ {"fail", "refuse"} \cap Environment # {} /\ NextRoute(e)
       \/ "cloudRaises" \in Environment /\ End(e, "raised")
    /\ UNCHANGED <<reach, entity, tried, executed, links>>

-----------------------------------------------------------------------------
(* Over Bluetooth                                                          *)

MutatedFirst(e) == "connecting"

\* A connection is not made while still disconnecting from the last command.
First(e) == IF disconnecting[e] = "none" THEN "connecting" ELSE "disconnect"

TryBluetooth(e) ==
    /\ Try(e, "bluetooth")
    /\ IF keys /\ signal # "none" THEN Await(e, First(e)) ELSE NextRoute(e)
    /\ UNCHANGED <<reach, entity, executed, links>>

\* What the task raised, or that it was cancelled, awaiting it raises, each time.
Disconnected(e) ==
    /\ step[e] = "disconnect"
    /\ \/ /\ disconnecting[e] = "done"
          /\ disconnecting' = [disconnecting EXCEPT ![e] = "none"]
          /\ Await(e, "connecting")
       \/ /\ disconnecting[e] \in {"raised", "cancelled"}
          /\ UNCHANGED disconnecting
          /\ End(e, "raised")
    /\ UNCHANGED <<reach, entity, tried, executed, linked, oldLink, abandoned>>

Connects(e) ==
    /\ step[e] = "connecting"
    /\ linked' = [linked EXCEPT ![e] = TRUE]
    /\ Await(e, "handshake")
    /\ UNCHANGED <<reach, entity, tried, executed, oldLink, abandoned, disconnecting>>

\* Both rounds of the handshake succeed.
Handshake(e) ==
    /\ step[e] = "handshake"
    /\ Await(e, "command")
    /\ UNCHANGED <<reach, entity, tried, executed, links>>

LockExecutes(e) ==
    /\ step[e] = "command"
    /\ executed' = [executed EXCEPT ![e] = TRUE]
    /\ Await(e, "executed")
    /\ UNCHANGED <<reach, entity, tried, links>>

MutatedGranted(result) == result # "denied"

Granted(result) == result = "ok"

\* It succeeded: the connection is left to a task that ends it in the background.
DisconnectLater(e) ==
    /\ linked' = [linked EXCEPT ![e] = FALSE]
    /\ oldLink' = [oldLink EXCEPT ![e] = TRUE]
    /\ disconnecting' = [disconnecting EXCEPT ![e] = "running"]
    /\ UNCHANGED abandoned

\* The lock acknowledges the command, or answers why it didn't carry it out.
LockAnswers(e) ==
    /\ step[e] \in {"command", "executed"}
    /\ \E result \in IF step[e] = "executed" THEN {"ok"} ELSE {"denied", "other"} :
           /\ result = "ok" \/ "refuse" \in Environment
           /\ IF Granted(result) THEN End(e, "ok") /\ DisconnectLater(e)
              ELSE Await(e, "hangUp") /\ UNCHANGED links
    /\ UNCHANGED <<reach, entity, tried, executed>>

\* Anything else in the conversation fails or times out.
BluetoothFails(e) ==
    /\ "fail" \in Environment
    /\ \/ step[e] = "connecting" /\ NextRoute(e)
       \/ step[e] \in {"handshake", "command", "executed"} /\ Await(e, "hangUp")
    /\ UNCHANGED <<reach, entity, tried, executed, links>>

\* On errors, the lock is disconnected before they are raised - unless it takes
\* longer than the conversation may, and the connection is left as it is.
HangsUp(e) ==
    /\ step[e] = "hangUp"
    /\ linked' = [linked EXCEPT ![e] = FALSE]
    /\ \/ NextRoute(e) /\ UNCHANGED abandoned
       \/ "disconnectRaises" \in Environment /\ End(e, "raised") /\ UNCHANGED abandoned
       \/ "cutOff" \in Environment /\ NextRoute(e) /\ abandoned' = TRUE
    /\ UNCHANGED <<reach, entity, tried, executed, oldLink, disconnecting>>

\* _async_disconnect, in the background
DisconnectEnds(e) ==
    /\ disconnecting[e] = "running"
    /\ oldLink' = [oldLink EXCEPT ![e] = FALSE]
    /\ \E how \in {"done", "raised"} :
           /\ how = "done" \/ "disconnectRaises" \in Environment
           /\ disconnecting' = [disconnecting EXCEPT ![e] = how]
    /\ UNCHANGED <<reach, entity, command, linked, abandoned>>

-----------------------------------------------------------------------------
(* The world                                                               *)

Changes ==
    /\ "change" \in Environment
    /\ \/ method' \in Methods \ {method} /\ UNCHANGED <<connect, signal, keys>>
       \/ connect' = ~ connect /\ UNCHANGED <<method, signal, keys>>
       \/ signal' \in {"none", "weak", "strong"} \ {signal} /\ UNCHANGED <<method, connect, keys>>
       \/ keys' = ~ keys /\ UNCHANGED <<method, connect, signal>>
    /\ UNCHANGED <<entity, command, links>>

\* A new entity.  The tasks that disconnect are the config entry's, and so are
\* cancelled, of whichever entity: that leaves the connection to Home
\* Assistant's Bluetooth stack.  Commands are not, and go on.
Reload ==
    LET cancelled == {e \in Entities : disconnecting[e] = "running"}
    IN  /\ "reload" \in Environment
        /\ entity < MaxReloads
        /\ entity' = entity + 1
        /\ disconnecting' = [e \in Entities |->
                                IF e \in cancelled THEN "cancelled" ELSE disconnecting[e]]
        /\ oldLink' = [e \in Entities |-> oldLink[e] /\ e \notin cancelled]
        /\ abandoned' = (abandoned \/ cancelled # {})
        /\ UNCHANGED <<reach, command, linked>>

\* The Bluetooth stack, or the lock, ends an abandoned connection.
Drops ==
    /\ abandoned
    /\ abandoned' = FALSE
    /\ UNCHANGED <<reach, entity, command, linked, oldLink, disconnecting>>

Ended ==
    /\ commands = MaxCommands
    /\ \A e \in Entities : step[e] = "idle"
    /\ UNCHANGED vars

-----------------------------------------------------------------------------
Init ==
    /\ method \in Methods
    /\ connect \in BOOLEAN /\ signal \in {"none", "weak", "strong"} /\ keys \in BOOLEAN
    /\ entity = 0
    /\ step = [e \in Entities |-> "idle"]
    /\ routes = [e \in Entities |-> <<>>]
    /\ usable = [e \in Entities |-> {}] /\ tried = [e \in Entities |-> {}]
    /\ executed = [e \in Entities |-> FALSE] /\ outcome = [e \in Entities |-> "none"]
    /\ linked = [e \in Entities |-> FALSE] /\ oldLink = [e \in Entities |-> FALSE]
    /\ disconnecting = [e \in Entities |-> "none"]
    /\ abandoned = FALSE
    /\ commands = 0

Proceeds(e) ==
    \/ TryConnect(e) \/ CloudAnswers(e) \/ CloudFails(e)
    \/ TryBluetooth(e) \/ Disconnected(e) \/ Connects(e) \/ Handshake(e)
    \/ LockExecutes(e) \/ LockAnswers(e) \/ BluetoothFails(e) \/ HangsUp(e)

Next ==
    \/ \E e \in Entities : Send(e) \/ Proceeds(e) \/ DisconnectEnds(e)
    \/ Changes \/ Reload \/ Drops \/ Ended

Spec == Init /\ [][Next]_vars

\* Requests, conversations and disconnecting time out.
FairSpec ==
    Spec /\ \A e \in Entities : WF_vars(Proceeds(e)) /\ WF_vars(DisconnectEnds(e))

-----------------------------------------------------------------------------
(* Properties                                                              *)

RouteLists == {<<>>, <<"connect">>, <<"bluetooth">>} \cup {InOrder[m] : m \in Methods}

\* Every variable has its type; a command under way has a route, and has and
\* tried only those that were usable; entities to come have none.
TypeOK ==
    /\ method \in Methods /\ connect \in BOOLEAN /\ keys \in BOOLEAN
    /\ signal \in {"none", "weak", "strong"}
    /\ entity \in Entities
    /\ step \in [Entities -> Steps]
    /\ routes \in [Entities -> RouteLists]
    /\ {usable, tried} \subseteq [Entities -> SUBSET {"connect", "bluetooth"}]
    /\ executed \in [Entities -> BOOLEAN]
    /\ outcome \in [Entities -> {"none", "ok", "error", "raised"}]
    /\ {linked, oldLink} \subseteq [Entities -> BOOLEAN] /\ abandoned \in BOOLEAN
    /\ disconnecting \in [Entities -> {"none", "running", "done", "raised", "cancelled"}]
    /\ commands \in Nat
    /\ \A e \in Entities :
           /\ step[e] # "idle" => routes[e] # <<>>
           /\ tried[e] \subseteq usable[e] /\ SetOf(routes[e]) \subseteq usable[e]

Conversing(e) == step[e] \in {"connecting", "handshake", "command", "executed", "hangUp"}

\* An entity never has two connections to the lock: one is not made, not even
\* tried, while that of an earlier command is up ("Don't connect while still
\* disconnecting from the last command") - unless that one was cut off, or is
\* of before a reload, and nobody ends it.
OneConnection == \A e \in Entities : Conversing(e) => ~ oldLink[e]

\* The same of the lock, without exception.
OneConnectionEver ==
    \A e \in Entities :
        Conversing(e) => ~ abandoned /\ \A f \in Entities : ~ oldLink[f] /\ (linked[f] => f = e)

\* A command that failed with an error of its own, as a user gets to see, was
\* tried over every route that was usable.
OtherWayTried == \A e \in Entities : outcome[e] = "error" => usable[e] \subseteq tried[e]

\* So was one that failed in any way ("With a preference, the other way is tried
\* if the first fails").
EveryWayTried ==
    \A e \in Entities : outcome[e] \in {"error", "raised"} => usable[e] \subseteq tried[e]

\* A command that succeeded was carried out by the lock.
SuccessIsReal == \A e \in Entities : outcome[e] = "ok" => executed[e]

\* Every command ends, however its routes fail, although the entity is reloaded.
EveryCommandEnds == \A e \in Entities : step[e] # "idle" ~> step[e] = "idle"

\* The three invariants are inductive together with these:

\* a connection of an earlier command is up only while a task ends it, and none
\* is left to end once a conversation begins,
TaskEndsOldLink ==
    \A e \in Entities :
        /\ oldLink[e] => disconnecting[e] = "running"
        /\ Conversing(e) => disconnecting[e] = "none"

\* the routes a command has neither tried nor left are all that it has not tried,
\* the first of which is being tried,
RoutesAreLeft ==
    \A e \in Entities :
        step[e] # "idle" =>
            /\ outcome[e] = "none"
            /\ usable[e] \subseteq tried[e] \cup SetOf(routes[e])
            /\ step[e] # "choose" => Head(routes[e]) \in tried[e]

\* and the lock is only waited for to confirm what it carried out.
ConfirmsWhatItDid == \A e \in Entities : step[e] = "executed" => executed[e]

CommandInvariant ==
    /\ OneConnection /\ OtherWayTried /\ SuccessIsReal
    /\ TaskEndsOldLink /\ RoutesAreLeft /\ ConfirmsWhatItDid
=============================================================================
