--------------------------- MODULE LockCommandProofs ---------------------------
(***************************************************************************)
(* What LockCommand promises of any number of commands and reloads,        *)
(* whatever the environment does, proved.                                  *)
(***************************************************************************)
EXTENDS LockCommand, SequenceTheorems, TLAPS

\* The lists of routes, one by one.
LEMMA RouteListsAre ==
    RouteLists = {<<>>, <<"connect">>, <<"bluetooth">>,
                  <<"bluetooth", "connect">>, <<"connect", "bluetooth">>}
BY DEF RouteLists, Methods, InOrder

\* Joining lists of one route.
LEMMA Joined ==
    ASSUME NEW r, NEW s
    PROVE  <<r>> \o <<s>> = <<r, s>>
<1>1. <<r>> \in Seq({r, s}) /\ <<s>> \in Seq({r, s}) /\ <<r, s>> \in Seq({r, s})
  OBVIOUS
<1>2. <<r>> \o <<s>> \in Seq({r, s}) /\ Len(<<r>> \o <<s>>) = 2
  BY <1>1, ConcatProperties
<1>3. \A i \in 1..2 : (<<r>> \o <<s>>)[i] = <<r, s>>[i]
  BY <1>1, ConcatProperties
<1> QED BY <1>1, <1>2, <1>3, SeqEqual

\* Joining lists of at most one route.
LEMMA JoinedLists ==
    ASSUME NEW r, NEW s, NEW p \in {<<>>, <<r>>}, NEW q \in {<<>>, <<s>>}
    PROVE  p \o q \in {<<>>, <<r>>, <<s>>, <<r, s>>}
<1>1. CASE p = <<>>
  BY <1>1
<1>2. CASE p = <<r>> /\ q = <<>>
  BY <1>2
<1>3. CASE p = <<r>> /\ q = <<s>>
  BY <1>3, Joined
<1> QED BY <1>1, <1>2, <1>3

\* The routes of a command are such a list.
LEMMA RoutesType ==
    ASSUME TypeOK
    PROVE  Routes \in RouteLists
<1>1. /\ IfUsable("connect") \in {<<>>, <<"connect">>}
      /\ IfUsable("bluetooth") \in {<<>>, <<"bluetooth">>}
  BY DEF IfUsable
<1>2. /\ IfUsable("connect") \o IfUsable("bluetooth") \in RouteLists
      /\ IfUsable("bluetooth") \o IfUsable("connect") \in RouteLists
  <2>1. IfUsable("connect") \o IfUsable("bluetooth")
            \in {<<>>, <<"connect">>, <<"bluetooth">>, <<"connect", "bluetooth">>}
    BY <1>1, JoinedLists
  <2>2. IfUsable("bluetooth") \o IfUsable("connect")
            \in {<<>>, <<"bluetooth">>, <<"connect">>, <<"bluetooth", "connect">>}
    BY <1>1, JoinedLists
  <2> QED BY <2>1, <2>2, RouteListsAre
<1>3. CASE method = "bluetooth_only"
  <2>1. Routes = IfUsable("bluetooth") \o <<>>
    BY <1>3 DEF Routes, InOrder
  <2> QED BY <1>1, <2>1, RouteListsAre
<1>4. CASE method = "connect_only"
  <2>1. Routes = IfUsable("connect") \o <<>>
    BY <1>4 DEF Routes, InOrder
  <2> QED BY <1>1, <2>1, RouteListsAre
<1>5. CASE method = "prefer_bluetooth"
  <2>1. Routes = IfUsable("bluetooth") \o IfUsable("connect")
    BY <1>5 DEF Routes, InOrder
  <2> QED BY <1>2, <2>1
<1>6. CASE method = "prefer_connect"
  <2>1. Routes = IfUsable("connect") \o IfUsable("bluetooth")
    BY <1>6 DEF Routes, InOrder
  <2> QED BY <1>2, <2>1
<1> QED BY <1>3, <1>4, <1>5, <1>6 DEF TypeOK, Methods

\* What a list of routes has is its head and what its tail has.
LEMMA HeadAndTail ==
    ASSUME NEW list \in RouteLists, list # <<>>
    PROVE  /\ Tail(list) \in RouteLists
           /\ Head(list) \in {"connect", "bluetooth"}
           /\ SetOf(list) = {Head(list)} \cup SetOf(Tail(list))
           /\ SetOf(list) \subseteq {"connect", "bluetooth"}
           /\ Len(list) > 1 <=> Tail(list) # <<>>
<1>1. ASSUME NEW r \in {"connect", "bluetooth"}, list = <<r>>
      PROVE  /\ Tail(list) = <<>> /\ Head(list) = r /\ Len(list) = 1
             /\ SetOf(list) = {r} /\ SetOf(<<>>) = {}
  BY <1>1 DEF SetOf
<1>2. ASSUME NEW r \in {"connect", "bluetooth"}, NEW s \in {"connect", "bluetooth"},
             list = <<r, s>>
      PROVE  /\ Tail(list) = <<s>> /\ Head(list) = r /\ Len(list) = 2
             /\ SetOf(list) = {r, s} /\ SetOf(<<s>>) = {s}
  BY <1>2 DEF SetOf
<1>3. ASSUME NEW r \in {"connect", "bluetooth"}
      PROVE  <<r>> \in RouteLists /\ <<>> \in RouteLists
  BY RouteListsAre
<1>4. CASE \E r \in {"connect", "bluetooth"} : list = <<r>>
  BY <1>1, <1>3, <1>4
<1>5. CASE \E r, s \in {"connect", "bluetooth"} : list = <<r, s>>
  BY <1>2, <1>3, <1>5
<1> QED BY <1>4, <1>5, RouteListsAre

\* All of a list's routes are routes.
LEMMA SetOfType ==
    ASSUME NEW list \in RouteLists
    PROVE  SetOf(list) \subseteq {"connect", "bluetooth"}
<1>1. SetOf(<<>>) = {}
  BY DEF SetOf
<1> QED BY <1>1, HeadAndTail

-----------------------------------------------------------------------------
\* However a route fails, the command ends with an error, its routes as they
\* were, or goes on to the next of them.
LEMMA NextRouteIsNext ==
    ASSUME TypeOK, NEW e \in Entities, step[e] # "idle", NextRoute(e)
    PROVE  /\ UNCHANGED <<usable, commands>>
           /\ \/ /\ step' = [step EXCEPT ![e] = "idle"]
                 /\ outcome' = [outcome EXCEPT ![e] = "error"]
                 /\ routes' = routes
                 /\ SetOf(routes[e]) = {Head(routes[e])}
              \/ /\ step' = [step EXCEPT ![e] = "choose"]
                 /\ outcome' = outcome
                 /\ routes' = [routes EXCEPT ![e] = Tail(routes[e])]
                 /\ Tail(routes[e]) # <<>> /\ Tail(routes[e]) \in RouteLists
<1>1. routes[e] \in RouteLists /\ routes[e] # <<>> /\ routes \in [Entities -> RouteLists]
  BY DEF TypeOK
<1>2. CASE Len(routes[e]) > 1
  BY <1>1, <1>2, HeadAndTail DEF NextRoute
<1>3. CASE ~ (Len(routes[e]) > 1)
  <2>1. Tail(routes[e]) = <<>> /\ SetOf(<<>>) = {}
    BY <1>1, <1>3, HeadAndTail DEF SetOf
  <2> QED BY <1>1, <1>3, <2>1, HeadAndTail DEF NextRoute, End
<1> QED BY <1>2, <1>3

Outcomes == {"none", "ok", "error", "raised"}

\* A step, outcome and routes a command goes on with.
Moves(e, n, o, r) ==
    /\ step' = [step EXCEPT ![e] = n]
    /\ outcome' = [outcome EXCEPT ![e] = o]
    /\ routes' = [routes EXCEPT ![e] = r]
    /\ n # "idle" => r # <<>> /\ o = outcome[e]
    /\ n = "choose" => SetOf(routes[e]) = {Head(routes[e])} \cup SetOf(r)
    /\ n # "choose" => r = routes[e]
    /\ o = "error" /\ outcome[e] # "error" => SetOf(routes[e]) = {Head(routes[e])}
    /\ SetOf(r) \subseteq SetOf(routes[e])

\* What a step of a command does to it, and to nothing of other entities.
LEMMA CommandStep ==
    ASSUME TypeOK, NEW e \in Entities, step[e] # "idle",
           NEW next \in Steps \ {"idle", "choose"}, NEW how \in {"ok", "raised"},
           NextRoute(e) \/ Await(e, next) \/ End(e, how)
    PROVE  /\ usable' = usable /\ commands' = commands
           /\ \E n \in Steps, o \in Outcomes, r \in RouteLists : Moves(e, n, o, r)
<1>1. /\ routes[e] \in RouteLists /\ routes[e] # <<>> /\ step[e] \in Steps
      /\ outcome[e] \in Outcomes
      /\ routes = [routes EXCEPT ![e] = routes[e]]
      /\ outcome = [outcome EXCEPT ![e] = outcome[e]]
  BY DEF TypeOK, Outcomes
<1>2. SetOf(routes[e]) = {Head(routes[e])} \cup SetOf(Tail(routes[e]))
  BY <1>1, HeadAndTail
<1>3. CASE NextRoute(e)
  <2>1. CASE /\ step' = [step EXCEPT ![e] = "idle"]
             /\ outcome' = [outcome EXCEPT ![e] = "error"]
             /\ routes' = routes /\ SetOf(routes[e]) = {Head(routes[e])}
    <3>1. Moves(e, "idle", "error", routes[e])
      BY <1>1, <2>1 DEF Moves
    <3> QED BY <1>1, <1>3, <3>1, NextRouteIsNext DEF Steps, Outcomes
  <2>2. CASE /\ step' = [step EXCEPT ![e] = "choose"] /\ outcome' = outcome
             /\ routes' = [routes EXCEPT ![e] = Tail(routes[e])]
             /\ Tail(routes[e]) # <<>> /\ Tail(routes[e]) \in RouteLists
    <3>1. Moves(e, "choose", outcome[e], Tail(routes[e]))
      BY <1>1, <1>2, <2>2 DEF Moves
    <3> QED BY <1>1, <1>3, <2>2, <3>1, NextRouteIsNext DEF Steps
  <2> QED BY <1>3, <2>1, <2>2, NextRouteIsNext
<1>4. CASE Await(e, next)
  <2>1. Moves(e, next, outcome[e], routes[e])
    BY <1>1, <1>4 DEF Await, Moves
  <2> QED BY <1>1, <1>4, <2>1 DEF Await
<1>5. CASE End(e, how)
  <2>1. Moves(e, "idle", how, routes[e])
    BY <1>1, <1>5 DEF End, Moves
  <2> QED BY <1>1, <1>5, <2>1 DEF End, Steps, Outcomes
<1> QED BY <1>3, <1>4, <1>5

\* Every step keeps the types.
LEMMA TypeStep == TypeOK /\ [Next]_vars => TypeOK'
<1> SUFFICES ASSUME TypeOK, [Next]_vars PROVE TypeOK'
  OBVIOUS
<1> USE DEF reach, command, links
<1>0. /\ step \in [Entities -> Steps] /\ routes \in [Entities -> RouteLists]
      /\ usable \in [Entities -> SUBSET {"connect", "bluetooth"}]
      /\ tried \in [Entities -> SUBSET {"connect", "bluetooth"}]
      /\ executed \in [Entities -> BOOLEAN]
      /\ linked \in [Entities -> BOOLEAN] /\ oldLink \in [Entities -> BOOLEAN]
      /\ disconnecting \in [Entities -> {"none", "running", "done", "raised", "cancelled"}]
      /\ entity \in Nat
  BY DEF TypeOK, Entities
<1>1. ASSUME NEW e \in Entities, step[e] # "idle",
             NEW next \in Steps \ {"idle", "choose"}, NEW how \in {"ok", "raised"},
             NextRoute(e) \/ Await(e, next) \/ End(e, how),
             UNCHANGED <<reach, entity>>,
             NEW t \in SUBSET usable[e], tried' = [tried EXCEPT ![e] = t],
             executed' \in [Entities -> BOOLEAN],
             linked' \in [Entities -> BOOLEAN], oldLink' \in [Entities -> BOOLEAN],
             abandoned' \in BOOLEAN,
             disconnecting' \in [Entities -> {"none", "running", "done", "raised", "cancelled"}]
      PROVE  TypeOK'
  <2>1. PICK n \in Steps, o \in Outcomes, r \in RouteLists : Moves(e, n, o, r)
    BY <1>1, CommandStep
  <2>2. usable' = usable /\ commands' = commands
    BY <1>1, CommandStep
  <2>3. t \in SUBSET {"connect", "bluetooth"}
    BY <1>0
  <2>4. ASSUME NEW f \in Entities
        PROVE  /\ step'[f] # "idle" => routes'[f] # <<>>
               /\ tried'[f] \subseteq usable'[f] /\ SetOf(routes'[f]) \subseteq usable'[f]
    <3>1. CASE f = e
      <4>1. step'[f] = n /\ routes'[f] = r /\ tried'[f] = t /\ usable'[f] = usable[e]
        BY <1>0, <1>1, <2>1, <2>2, <3>1 DEF Moves
      <4>2. SetOf(routes[e]) \subseteq usable[e]
        BY DEF TypeOK
      <4> QED BY <2>1, <4>1, <4>2 DEF Moves
    <3>2. CASE f # e
      BY <1>0, <1>1, <2>1, <2>2, <3>2 DEF TypeOK, Moves
    <3> QED BY <3>1, <3>2
  <2>5. /\ step' \in [Entities -> Steps] /\ routes' \in [Entities -> RouteLists]
        /\ outcome' \in [Entities -> {"none", "ok", "error", "raised"}]
        /\ usable' \in [Entities -> SUBSET {"connect", "bluetooth"}]
        /\ tried' \in [Entities -> SUBSET {"connect", "bluetooth"}]
    BY <1>0, <1>1, <2>1, <2>2, <2>3 DEF TypeOK, Moves, Outcomes
  <2> QED BY <1>1, <2>2, <2>4, <2>5 DEF TypeOK
<1>2. ASSUME NEW e \in Entities, Send(e)
      PROVE  TypeOK'
  <2>1. Routes \in RouteLists /\ SetOf(Routes) \subseteq {"connect", "bluetooth"}
    BY RoutesType, SetOfType
  <2>2. PICK n \in Steps, o \in {"error", "none"} :
            /\ step' = [step EXCEPT ![e] = n] /\ outcome' = [outcome EXCEPT ![e] = o]
            /\ n # "idle" => Routes # <<>>
    BY <1>2 DEF Send, Steps
  <2>3. /\ routes' = [routes EXCEPT ![e] = Routes] /\ usable' = [usable EXCEPT ![e] = SetOf(Routes)]
        /\ tried' = [tried EXCEPT ![e] = {}] /\ executed' = [executed EXCEPT ![e] = FALSE]
        /\ commands' \in Nat /\ UNCHANGED <<reach, entity, links>>
    BY <1>2 DEF Send, TypeOK
  <2>4. ASSUME NEW f \in Entities
        PROVE  /\ step'[f] # "idle" => routes'[f] # <<>>
               /\ tried'[f] \subseteq usable'[f] /\ SetOf(routes'[f]) \subseteq usable'[f]
    <3>1. CASE f = e
      BY <1>0, <2>2, <2>3, <3>1
    <3>2. CASE f # e
      BY <1>0, <2>2, <2>3, <3>2 DEF TypeOK
    <3> QED BY <3>1, <3>2
  <2> QED BY <1>0, <2>1, <2>2, <2>3, <2>4 DEF TypeOK
<1>3. ASSUME NEW e \in Entities, TryConnect(e) \/ TryBluetooth(e)
      PROVE  TypeOK'
  <2>1. step[e] = "choose" /\ tried' = [tried EXCEPT ![e] = @ \cup {Head(routes[e])}]
    BY <1>3 DEF TryConnect, TryBluetooth, Try
  <2>2. tried[e] \cup {Head(routes[e])} \in SUBSET usable[e]
    BY <1>0, <2>1, HeadAndTail DEF TypeOK
  <2>3. UNCHANGED <<reach, entity, executed, links>>
    BY <1>3 DEF TryConnect, TryBluetooth
  <2>4. \E next \in Steps \ {"idle", "choose"} : Await(e, next) \/ NextRoute(e)
    BY <1>3 DEF TryConnect, TryBluetooth, First, Steps
  <2> QED BY <1>0, <1>1, <2>1, <2>2, <2>3, <2>4 DEF TypeOK
<1>4. ASSUME NEW e \in Entities, step[e] # "idle",
             NEW next \in Steps \ {"idle", "choose"}, NEW how \in {"ok", "raised"},
             NextRoute(e) \/ Await(e, next) \/ End(e, how),
             UNCHANGED <<reach, entity, tried>>, executed' \in [Entities -> BOOLEAN],
             linked' \in [Entities -> BOOLEAN], oldLink' \in [Entities -> BOOLEAN],
             abandoned' \in BOOLEAN,
             disconnecting' \in [Entities -> {"none", "running", "done", "raised", "cancelled"}]
      PROVE  TypeOK'
  <2>1. tried' = [tried EXCEPT ![e] = tried[e]] /\ tried[e] \in SUBSET usable[e]
    BY <1>0, <1>4 DEF TypeOK
  <2> QED BY <1>1, <1>4, <2>1
<1>5. ASSUME NEW e \in Entities, CloudAnswers(e) \/ CloudFails(e)
      PROVE  TypeOK'
  <2>1. step[e] = "cloud" /\ UNCHANGED <<reach, entity, tried, links>>
    BY <1>5 DEF CloudAnswers, CloudFails
  <2>2. End(e, "ok") \/ End(e, "raised") \/ NextRoute(e)
    BY <1>5 DEF CloudAnswers, CloudFails
  <2>3. executed' \in [Entities -> BOOLEAN]
    BY <1>0, <1>5 DEF CloudAnswers, CloudFails
  <2> QED BY <1>0, <1>4, <2>1, <2>2, <2>3 DEF Steps, TypeOK
<1>6. ASSUME NEW e \in Entities, Disconnected(e) \/ Connects(e) \/ Handshake(e) \/ LockExecutes(e)
      PROVE  TypeOK'
  <2>1. step[e] # "idle" /\ UNCHANGED <<reach, entity, tried>>
    BY <1>6 DEF Disconnected, Connects, Handshake, LockExecutes
  <2>2. (\E next \in Steps \ {"idle", "choose"} : Await(e, next)) \/ End(e, "raised")
    BY <1>6 DEF Disconnected, Connects, Handshake, LockExecutes, Steps
  <2>3. /\ executed' \in [Entities -> BOOLEAN]
        /\ linked' \in [Entities -> BOOLEAN] /\ oldLink' \in [Entities -> BOOLEAN]
        /\ abandoned' \in BOOLEAN
        /\ disconnecting' \in [Entities -> {"none", "running", "done", "raised", "cancelled"}]
    <3>1. abandoned \in BOOLEAN
      BY DEF TypeOK
    <3> QED BY <1>0, <1>6, <3>1 DEF Disconnected, Connects, Handshake, LockExecutes
  <2>4. ASSUME NEW next \in Steps \ {"idle", "choose"}, Await(e, next)
        PROVE  TypeOK'
    BY <1>4, <2>1, <2>3, <2>4
  <2>5. "connecting" \in Steps \ {"idle", "choose"} /\ "raised" \in {"ok", "raised"}
    BY DEF Steps
  <2>6. CASE End(e, "raised")
    BY <1>4, <2>1, <2>3, <2>5, <2>6
  <2> QED BY <2>2, <2>4, <2>6
<1>7. ASSUME NEW e \in Entities, LockAnswers(e) \/ BluetoothFails(e) \/ HangsUp(e)
      PROVE  TypeOK'
  <2>1. step[e] # "idle" /\ UNCHANGED <<reach, entity, tried, executed>>
    BY <1>7 DEF LockAnswers, BluetoothFails, HangsUp
  <2>2. End(e, "ok") \/ End(e, "raised") \/ Await(e, "hangUp") \/ NextRoute(e)
    BY <1>7 DEF LockAnswers, BluetoothFails, HangsUp
  <2>3. /\ linked' \in [Entities -> BOOLEAN] /\ oldLink' \in [Entities -> BOOLEAN]
        /\ abandoned' \in BOOLEAN
        /\ disconnecting' \in [Entities -> {"none", "running", "done", "raised", "cancelled"}]
    <3>1. abandoned \in BOOLEAN
      BY DEF TypeOK
    <3>2. CASE LockAnswers(e)
      BY <1>0, <3>1, <3>2 DEF LockAnswers, DisconnectLater
    <3>3. CASE BluetoothFails(e) \/ HangsUp(e)
      BY <1>0, <3>1, <3>3 DEF BluetoothFails, HangsUp
    <3> QED BY <1>7, <3>2, <3>3
  <2>4. "hangUp" \in Steps \ {"idle", "choose"}
    BY DEF Steps
  <2>5. executed' \in [Entities -> BOOLEAN]
    BY <1>0, <2>1
  <2>6. ASSUME NEW how \in {"ok", "raised"}, End(e, how) \/ Await(e, "hangUp") \/ NextRoute(e)
        PROVE  TypeOK'
    BY <1>4, <2>1, <2>3, <2>4, <2>5, <2>6
  <2> QED BY <2>2, <2>6
<1>8. CASE Changes
  <2>1. /\ method' \in Methods /\ connect' \in BOOLEAN /\ keys' \in BOOLEAN
        /\ signal' \in {"none", "weak", "strong"}
        /\ UNCHANGED <<entity, command, links>>
    BY <1>8 DEF Changes, TypeOK
  <2> QED BY <2>1 DEF TypeOK
<1>9. ASSUME \/ \E e \in Entities : DisconnectEnds(e)
             \/ Reload \/ Drops \/ Ended \/ UNCHANGED vars
      PROVE  TypeOK'
  <2>1. UNCHANGED <<reach, command, linked>>
    BY <1>9 DEF DisconnectEnds, Reload, Drops, Ended, vars
  <2>2. /\ disconnecting' \in [Entities -> {"none", "running", "done", "raised", "cancelled"}]
        /\ oldLink' \in [Entities -> BOOLEAN]
    BY <1>0, <1>9 DEF DisconnectEnds, Reload, Drops, Ended, vars
  <2>3. entity' \in Entities /\ abandoned' \in BOOLEAN
    <3>1. CASE Reload
      BY <1>0, <3>1, BoundsAreNatural DEF Reload, TypeOK, Entities
    <3>2. CASE ~ Reload
      BY <1>9, <3>2 DEF DisconnectEnds, Drops, Ended, vars, TypeOK
    <3> QED BY <3>1, <3>2
  <2> QED BY <2>1, <2>2, <2>3 DEF TypeOK
<1> QED BY <1>2, <1>3, <1>5, <1>6, <1>7, <1>8, <1>9 DEF Next, Proceeds

\* The type invariant holds in every behaviour of the commands.
THEOREM CommandTypeCorrect == Spec => []TypeOK
<1>1. Init => TypeOK
  <2> SUFFICES ASSUME Init PROVE TypeOK
    OBVIOUS
  <2>1. SetOf(<<>>) = {} /\ <<>> \in RouteLists
    BY RouteListsAre DEF SetOf
  <2>2. /\ entity \in Entities /\ commands \in Nat /\ abandoned \in BOOLEAN
        /\ method \in Methods /\ connect \in BOOLEAN /\ keys \in BOOLEAN
        /\ signal \in {"none", "weak", "strong"}
    <3>1. entity = 0
      BY DEF Init
    <3>2. entity \in Entities
      BY <3>1, BoundsAreNatural DEF Entities
    <3> QED BY <3>2 DEF Init
  <2>3. /\ step \in [Entities -> Steps] /\ routes \in [Entities -> RouteLists]
        /\ usable \in [Entities -> SUBSET {"connect", "bluetooth"}]
        /\ tried \in [Entities -> SUBSET {"connect", "bluetooth"}]
    BY <2>1 DEF Init, Steps
  <2>4. /\ executed \in [Entities -> BOOLEAN]
        /\ outcome \in [Entities -> {"none", "ok", "error", "raised"}]
        /\ linked \in [Entities -> BOOLEAN] /\ oldLink \in [Entities -> BOOLEAN]
        /\ disconnecting \in [Entities -> {"none", "running", "done", "raised", "cancelled"}]
    BY DEF Init
  <2>5. \A e \in Entities : step[e] = "idle" /\ tried[e] = {} /\ usable[e] = {} /\ routes[e] = <<>>
    BY DEF Init
  <2> QED BY <2>1, <2>2, <2>3, <2>4, <2>5 DEF TypeOK
<1> QED BY <1>1, TypeStep, PTL DEF Spec

-----------------------------------------------------------------------------
\* The functions of the entities are such, for changes of one to be of its own.
LEMMA OfEntities ==
    ASSUME TypeOK
    PROVE  /\ step \in [Entities -> Steps] /\ routes \in [Entities -> RouteLists]
           /\ usable \in [Entities -> SUBSET {"connect", "bluetooth"}]
           /\ tried \in [Entities -> SUBSET {"connect", "bluetooth"}]
           /\ executed \in [Entities -> BOOLEAN]
           /\ outcome \in [Entities -> {"none", "ok", "error", "raised"}]
           /\ oldLink \in [Entities -> BOOLEAN]
           /\ disconnecting \in [Entities -> {"none", "running", "done", "raised", "cancelled"}]
BY DEF TypeOK

LinkEnds(e) ==
    /\ oldLink[e] => disconnecting[e] = "running"
    /\ Conversing(e) => disconnecting[e] = "none"

\* A connection is made only once that of an earlier command was ended.
LEMMA LinkStep ==
    ASSUME TypeOK, CommandInvariant, [Next]_vars
    PROVE  OneConnection' /\ TaskEndsOldLink'
<1> SUFFICES ASSUME NEW f \in Entities PROVE LinkEnds(f)'
  BY DEF OneConnection, TaskEndsOldLink, LinkEnds
<1> USE DEF links, command
<1>1. LinkEnds(f) /\ \A e \in Entities : LinkEnds(e)
  BY DEF CommandInvariant, TaskEndsOldLink, LinkEnds
<1>2. ASSUME UNCHANGED <<oldLink[f], disconnecting[f]>>, Conversing(f)' => Conversing(f)
      PROVE  LinkEnds(f)'
  BY <1>1, <1>2 DEF LinkEnds
<1>3. ASSUME NEW e \in Entities, NEW n, step' = [step EXCEPT ![e] = n],
             n \in {"idle", "choose", "cloud", "disconnect"} \/ Conversing(e),
             UNCHANGED <<oldLink, disconnecting>>
      PROVE  LinkEnds(f)'
  BY <1>2, <1>3, OfEntities DEF Conversing
<1>4. ASSUME NEW e \in Entities, step[e] # "idle", NextRoute(e)
      PROVE  \E n \in {"idle", "choose"} : step' = [step EXCEPT ![e] = n]
  BY <1>4, NextRouteIsNext
<1>5. ASSUME NEW e \in Entities,
             Send(e) \/ TryConnect(e) \/ CloudAnswers(e) \/ CloudFails(e)
      PROVE  LinkEnds(f)'
  BY <1>3, <1>4, <1>5 DEF Send, TryConnect, CloudAnswers, CloudFails, Await, End, Try
<1>6. ASSUME NEW e \in Entities, TryBluetooth(e)
      PROVE  LinkEnds(f)'
  <2>1. step[e] = "choose" /\ UNCHANGED <<oldLink, disconnecting>>
    BY <1>6 DEF TryBluetooth, Try
  <2>2. CASE step' = [step EXCEPT ![e] = "connecting"] /\ disconnecting[e] = "none"
    <3>1. CASE f = e
      BY <1>1, <2>1, <2>2, <3>1, OfEntities DEF LinkEnds
    <3>2. CASE f # e
      BY <1>2, <2>1, <2>2, <3>2, OfEntities DEF Conversing
    <3> QED BY <3>1, <3>2
  <2>3. CASE ~ (step' = [step EXCEPT ![e] = "connecting"] /\ disconnecting[e] = "none")
    <3>1. \E n \in {"idle", "choose", "disconnect"} : step' = [step EXCEPT ![e] = n]
      BY <1>4, <1>6, <2>1, <2>3 DEF TryBluetooth, First, Await
    <3> QED BY <1>3, <2>1, <3>1
  <2> QED BY <2>2, <2>3
<1>7. ASSUME NEW e \in Entities, Disconnected(e)
      PROVE  LinkEnds(f)'
  <2>1. CASE f = e
    BY <1>1, <1>7, <2>1, OfEntities DEF Disconnected, Await, End, Conversing, LinkEnds
  <2>2. CASE f # e
    BY <1>2, <1>7, <2>2, OfEntities DEF Disconnected, Await, End, Conversing
  <2> QED BY <2>1, <2>2
<1>8. ASSUME NEW e \in Entities, Connects(e) \/ Handshake(e) \/ LockExecutes(e)
      PROVE  LinkEnds(f)'
  BY <1>3, <1>8 DEF Connects, Handshake, LockExecutes, Await, Conversing
<1>9. ASSUME NEW e \in Entities, LockAnswers(e)
      PROVE  LinkEnds(f)'
  <2>1. CASE End(e, "ok") /\ DisconnectLater(e)
    <3>1. CASE f = e
      BY <2>1, <3>1, OfEntities DEF End, DisconnectLater, Conversing, LinkEnds
    <3>2. CASE f # e
      BY <1>2, <2>1, <3>2, OfEntities DEF End, DisconnectLater, Conversing
    <3> QED BY <3>1, <3>2
  <2>2. CASE Await(e, "hangUp") /\ UNCHANGED links
    BY <1>3, <1>9, <2>2 DEF LockAnswers, Await, Conversing
  <2> QED BY <1>9, <2>1, <2>2 DEF LockAnswers
<1>10. ASSUME NEW e \in Entities, BluetoothFails(e) \/ HangsUp(e)
      PROVE  LinkEnds(f)'
  BY <1>3, <1>4, <1>10 DEF BluetoothFails, HangsUp, Await, End, Conversing
<1>11. ASSUME NEW e \in Entities, DisconnectEnds(e)
      PROVE  LinkEnds(f)'
  <2>1. CASE f = e
    BY <1>1, <1>11, <2>1, OfEntities DEF DisconnectEnds, Conversing, LinkEnds
  <2>2. CASE f # e
    BY <1>2, <1>11, <2>2, OfEntities DEF DisconnectEnds, Conversing
  <2> QED BY <2>1, <2>2
<1>12. CASE Reload
  BY <1>1, <1>12, OfEntities DEF Reload, Conversing, LinkEnds
<1>13. CASE Changes \/ Drops \/ Ended \/ UNCHANGED vars
  BY <1>2, <1>13 DEF Changes, Drops, Ended, vars, Conversing
<1> QED BY <1>5, <1>6, <1>7, <1>8, <1>9, <1>10, <1>11, <1>12, <1>13 DEF Next, Proceeds

WayTried(e) ==
    /\ outcome[e] = "error" => usable[e] \subseteq tried[e]
    /\ step[e] # "idle" =>
           /\ outcome[e] = "none"
           /\ usable[e] \subseteq tried[e] \cup SetOf(routes[e])
           /\ step[e] # "choose" => Head(routes[e]) \in tried[e]

\* A command that fails has tried all routes it had.
LEMMA RouteStep ==
    ASSUME TypeOK, CommandInvariant, [Next]_vars
    PROVE  OtherWayTried' /\ RoutesAreLeft'
<1> SUFFICES ASSUME NEW f \in Entities PROVE WayTried(f)'
  BY DEF OtherWayTried, RoutesAreLeft, WayTried
<1> USE DEF links, command
<1>1. \A e \in Entities : WayTried(e)
  BY DEF CommandInvariant, OtherWayTried, RoutesAreLeft, WayTried
<1>2. ASSUME UNCHANGED <<step[f], routes[f], usable[f], tried[f], outcome[f]>>
      PROVE  WayTried(f)'
  BY <1>1, <1>2 DEF WayTried
<1>3. ASSUME NEW e \in Entities, step[e] # "idle",
             NEW next \in Steps \ {"idle", "choose"}, NEW how \in {"ok", "raised"},
             NextRoute(e) \/ Await(e, next) \/ End(e, how),
             tried' = IF step[e] = "choose" THEN [tried EXCEPT ![e] = @ \cup {Head(routes[e])}]
                      ELSE tried
      PROVE  WayTried(f)'
  <2>1. PICK n \in Steps, o \in Outcomes, r \in RouteLists : Moves(e, n, o, r)
    BY <1>3, CommandStep
  <2>2. usable' = usable
    BY <1>3, CommandStep
  <2>3. CASE f # e
    BY <1>2, <1>3, <2>1, <2>2, <2>3, OfEntities DEF Moves
  <2>4. CASE f = e
    <3>1. /\ outcome[e] = "none" /\ usable[e] \subseteq tried[e] \cup SetOf(routes[e])
          /\ Head(routes[e]) \in tried'[e] /\ tried[e] \subseteq tried'[e]
      BY <1>1, <1>3, OfEntities DEF WayTried
    <3>2. step'[e] = n /\ outcome'[e] = o /\ routes'[e] = r /\ usable'[e] = usable[e]
      BY <2>1, <2>2, OfEntities DEF Moves
    <3>3. outcome'[e] = "error" => usable'[e] \subseteq tried'[e]
      BY <2>1, <3>1, <3>2 DEF Moves
    <3>4. ASSUME n # "idle"
          PROVE  /\ o = "none" /\ usable[e] \subseteq tried'[e] \cup SetOf(r)
                 /\ n # "choose" => Head(r) \in tried'[e]
      <4>1. CASE n = "choose"
        BY <2>1, <3>1, <3>4, <4>1 DEF Moves
      <4>2. CASE n # "choose"
        BY <2>1, <3>1, <3>4, <4>2 DEF Moves
      <4> QED BY <4>1, <4>2
    <3> QED BY <2>4, <3>2, <3>3, <3>4 DEF WayTried
  <2> QED BY <2>3, <2>4
<1>4. ASSUME NEW e \in Entities, Send(e)
      PROVE  WayTried(f)'
  <2>1. CASE f # e
    BY <1>2, <1>4, <2>1, OfEntities DEF Send
  <2>2. CASE f = e
    <3>1. SetOf(<<>>) = {}
      BY DEF SetOf
    <3>2. usable'[e] = SetOf(Routes) /\ tried'[e] = {} /\ routes'[e] = Routes
      BY <1>4, OfEntities DEF Send
    <3>3. /\ step'[e] = IF Routes = <<>> THEN "idle" ELSE "choose"
          /\ outcome'[e] = IF Routes = <<>> THEN "error" ELSE "none"
      BY <1>4, OfEntities DEF Send
    <3> QED BY <2>2, <3>1, <3>2, <3>3 DEF WayTried
  <2> QED BY <2>1, <2>2
<1>5. ASSUME NEW e \in Entities, TryConnect(e) \/ TryBluetooth(e)
      PROVE  WayTried(f)'
  <2>1. step[e] = "choose" /\ tried' = [tried EXCEPT ![e] = @ \cup {Head(routes[e])}]
    BY <1>5 DEF TryConnect, TryBluetooth, Try
  <2>2. NextRoute(e) \/ \E next \in Steps \ {"idle", "choose"} : Await(e, next)
    BY <1>5 DEF TryConnect, TryBluetooth, First, Steps
  <2>3. "cloud" \in Steps \ {"idle", "choose"}
    BY DEF Steps
  <2> QED BY <1>3, <2>1, <2>2, <2>3
<1>6. ASSUME NEW e \in Entities, CloudAnswers(e) \/ CloudFails(e)
      PROVE  WayTried(f)'
  <2>1. step[e] = "cloud" /\ tried' = tried /\ (End(e, "ok") \/ End(e, "raised") \/ NextRoute(e))
    BY <1>6 DEF CloudAnswers, CloudFails
  <2> QED BY <1>3, <2>1 DEF Steps
<1>7. ASSUME NEW e \in Entities, Disconnected(e) \/ Connects(e) \/ Handshake(e) \/ LockExecutes(e)
      PROVE  WayTried(f)'
  <2>1. step[e] \notin {"idle", "choose"} /\ tried' = tried
    BY <1>7 DEF Disconnected, Connects, Handshake, LockExecutes
  <2>2. (\E next \in Steps \ {"idle", "choose"} : Await(e, next)) \/ End(e, "raised")
    BY <1>7 DEF Disconnected, Connects, Handshake, LockExecutes, Steps
  <2>3. "cloud" \in Steps \ {"idle", "choose"}
    BY DEF Steps
  <2> QED BY <1>3, <2>1, <2>2, <2>3
<1>8. ASSUME NEW e \in Entities, LockAnswers(e) \/ BluetoothFails(e) \/ HangsUp(e)
      PROVE  WayTried(f)'
  <2>1. step[e] \notin {"idle", "choose"} /\ tried' = tried
    BY <1>8 DEF LockAnswers, BluetoothFails, HangsUp
  <2>2. End(e, "ok") \/ End(e, "raised") \/ Await(e, "hangUp") \/ NextRoute(e)
    BY <1>8 DEF LockAnswers, BluetoothFails, HangsUp
  <2> QED BY <1>3, <2>1, <2>2 DEF Steps
<1>9. ASSUME \/ \E e \in Entities : DisconnectEnds(e)
             \/ Changes \/ Reload \/ Drops \/ Ended \/ UNCHANGED vars
      PROVE  WayTried(f)'
  BY <1>2, <1>9 DEF DisconnectEnds, Changes, Reload, Drops, Ended, vars
<1> QED BY <1>4, <1>5, <1>6, <1>7, <1>8, <1>9 DEF Next, Proceeds

ResultReal(e) ==
    /\ outcome[e] = "ok" => executed[e]
    /\ step[e] = "executed" => executed[e]

\* A command succeeds only by the confirmation of a lock that carried it out.
LEMMA ResultStep ==
    ASSUME TypeOK, CommandInvariant, [Next]_vars
    PROVE  SuccessIsReal' /\ ConfirmsWhatItDid'
<1> SUFFICES ASSUME NEW f \in Entities PROVE ResultReal(f)'
  BY DEF SuccessIsReal, ConfirmsWhatItDid, ResultReal
<1> USE DEF links, command
<1>1. \A e \in Entities : ResultReal(e) /\ (step[e] # "idle" => outcome[e] = "none")
  BY DEF CommandInvariant, SuccessIsReal, ConfirmsWhatItDid, RoutesAreLeft, ResultReal
<1>2. ASSUME UNCHANGED <<step[f], executed[f], outcome[f]>>
      PROVE  ResultReal(f)'
  BY <1>1, <1>2 DEF ResultReal
<1>3. ASSUME NEW e \in Entities, step[e] # "idle",
             NEW next \in Steps \ {"idle", "choose"}, NEW how \in {"ok", "raised"},
             NextRoute(e) \/ Await(e, next) \/ End(e, how),
             NEW x \in BOOLEAN, executed' = [executed EXCEPT ![e] = x],
             x \/ (next # "executed" /\ how # "ok")
      PROVE  ResultReal(f)'
  <2>1. \/ step' = [step EXCEPT ![e] = "idle"] /\ outcome' = [outcome EXCEPT ![e] = "error"]
        \/ step' = [step EXCEPT ![e] = "choose"] /\ outcome' = outcome
        \/ step' = [step EXCEPT ![e] = next] /\ outcome' = outcome
        \/ step' = [step EXCEPT ![e] = "idle"] /\ outcome' = [outcome EXCEPT ![e] = how]
    BY <1>3, NextRouteIsNext DEF Await, End
  <2>2. CASE f # e
    BY <1>2, <1>3, <2>1, <2>2, OfEntities
  <2>3. CASE f = e
    <3>1. outcome[e] = "none" /\ executed'[e] = x
      BY <1>1, <1>3, OfEntities
    <3> QED BY <1>3, <2>1, <2>3, <3>1, OfEntities DEF ResultReal
  <2> QED BY <2>2, <2>3
<1>4. ASSUME NEW e \in Entities, step[e] # "idle", executed' = executed,
             NEW next \in Steps \ {"idle", "choose"}, NEW how \in {"ok", "raised"},
             NextRoute(e) \/ Await(e, next) \/ End(e, how),
             executed[e] \/ (next # "executed" /\ how # "ok")
      PROVE  ResultReal(f)'
  <2>1. executed' = [executed EXCEPT ![e] = executed[e]] /\ executed[e] \in BOOLEAN
    BY <1>4, OfEntities
  <2> QED BY <1>3, <1>4, <2>1
<1>5. ASSUME NEW e \in Entities, Send(e)
      PROVE  ResultReal(f)'
  <2>1. CASE f # e
    BY <1>2, <1>5, <2>1, OfEntities DEF Send
  <2>2. CASE f = e
    BY <1>5, <2>2, OfEntities DEF Send, ResultReal
  <2> QED BY <2>1, <2>2
<1>6. ASSUME NEW e \in Entities, TryConnect(e) \/ TryBluetooth(e)
      PROVE  ResultReal(f)'
  <2>1. step[e] = "choose" /\ executed' = executed
    BY <1>6 DEF TryConnect, TryBluetooth, Try
  <2>2. NextRoute(e) \/ Await(e, "cloud") \/ Await(e, "connecting") \/ Await(e, "disconnect")
    BY <1>6 DEF TryConnect, TryBluetooth, First
  <2> QED BY <1>4, <2>1, <2>2 DEF Steps
<1>7. ASSUME NEW e \in Entities, CloudAnswers(e)
      PROVE  ResultReal(f)'
  BY <1>3, <1>7 DEF CloudAnswers, Steps
<1>8. ASSUME NEW e \in Entities, CloudFails(e)
      PROVE  ResultReal(f)'
  BY <1>4, <1>8 DEF CloudFails, Steps
<1>9. ASSUME NEW e \in Entities, Disconnected(e) \/ Connects(e) \/ Handshake(e)
      PROVE  ResultReal(f)'
  <2>1. step[e] # "idle" /\ executed' = executed
    BY <1>9 DEF Disconnected, Connects, Handshake
  <2>2. Await(e, "connecting") \/ Await(e, "handshake") \/ Await(e, "command") \/ End(e, "raised")
    BY <1>9 DEF Disconnected, Connects, Handshake
  <2> QED BY <1>4, <2>1, <2>2 DEF Steps
<1>10. ASSUME NEW e \in Entities, LockExecutes(e)
      PROVE  ResultReal(f)'
  BY <1>3, <1>10 DEF LockExecutes, Steps
<1>11. ASSUME NEW e \in Entities, LockAnswers(e)
      PROVE  ResultReal(f)'
  <2>1. executed' = executed /\ step[e] # "idle"
    BY <1>11 DEF LockAnswers
  <2>2. CASE step[e] = "executed" /\ End(e, "ok")
    <3>1. executed[e]
      BY <1>1, <2>2 DEF ResultReal
    <3> QED BY <1>4, <2>1, <2>2, <3>1 DEF Steps
  <2>3. CASE Await(e, "hangUp")
    BY <1>4, <2>1, <2>3 DEF Steps
  <2> QED BY <1>11, <2>2, <2>3 DEF LockAnswers, Granted
<1>12. ASSUME NEW e \in Entities, BluetoothFails(e) \/ HangsUp(e)
      PROVE  ResultReal(f)'
  <2>1. step[e] # "idle" /\ executed' = executed
    BY <1>12 DEF BluetoothFails, HangsUp
  <2>2. End(e, "raised") \/ Await(e, "hangUp") \/ NextRoute(e)
    BY <1>12 DEF BluetoothFails, HangsUp
  <2> QED BY <1>4, <2>1, <2>2 DEF Steps
<1>13. ASSUME \/ \E e \in Entities : DisconnectEnds(e)
              \/ Changes \/ Reload \/ Drops \/ Ended \/ UNCHANGED vars
       PROVE  ResultReal(f)'
  BY <1>2, <1>13 DEF DisconnectEnds, Changes, Reload, Drops, Ended, vars
<1> QED BY <1>5, <1>6, <1>7, <1>8, <1>9, <1>10, <1>11, <1>12, <1>13 DEF Next, Proceeds

\* The three invariants, with what makes them inductive, hold in every behaviour.
LEMMA CommandInvariantHolds == Spec => []CommandInvariant
<1>1. Init => CommandInvariant
  BY DEF Init, CommandInvariant, OneConnection, OtherWayTried, SuccessIsReal, TaskEndsOldLink,
         RoutesAreLeft, ConfirmsWhatItDid, Conversing
<1>2. TypeOK /\ CommandInvariant /\ [Next]_vars => CommandInvariant'
  BY LinkStep, RouteStep, ResultStep DEF CommandInvariant
<1> QED BY <1>1, <1>2, CommandTypeCorrect, PTL DEF Spec

\* No entity connects to a lock while the connection of an earlier command of
\* its is being ended, whatever fails, and whenever the entity is replaced.
THEOREM OneConnectionAtATime == Spec => []OneConnection
<1>1. CommandInvariant => OneConnection
  BY DEF CommandInvariant
<1> QED BY <1>1, CommandInvariantHolds, PTL

\* A command fails with an error only once every route that was usable was tried.
THEOREM OtherWayAlwaysTried == Spec => []OtherWayTried
<1>1. CommandInvariant => OtherWayTried
  BY DEF CommandInvariant
<1> QED BY <1>1, CommandInvariantHolds, PTL

\* A command that succeeds was carried out by the lock.
THEOREM SuccessIsAlwaysReal == Spec => []SuccessIsReal
<1>1. CommandInvariant => SuccessIsReal
  BY DEF CommandInvariant
<1> QED BY <1>1, CommandInvariantHolds, PTL
===============================================================================
