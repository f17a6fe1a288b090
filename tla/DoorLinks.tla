------------------------------- MODULE DoorLinks -------------------------------
(***************************************************************************)
(* The life of a config entry: the devices of DeviceSync, the links of     *)
(* locks to their doors' sensors (DoorSensorSubentryFlow, _LinkFollower and *)
(* _async_entry_updated), and the repair issues of both.                   *)
(*                                                                         *)
(* A link is stored with the sensor's entity registry ID, and followed by  *)
(* its entity ID.  A setup takes the links once the devices are known, the *)
(* entity IDs for the locks as it adds these, and both once more for the   *)
(* follower.  That stays so until the next setup, while the links, the     *)
(* sensors and the devices go on changing, also during it.  Changing a     *)
(* lock's own entity ID, which reloads as a sensor's does, is left out.    *)
(***************************************************************************)
EXTENDS DeviceSync

CONSTANTS
    Sensors,        \* contact sensors, by entity registry ID
    Names           \* what locks and sensors are called

ASSUME ThingsHaveNames == Names # {}

VARIABLES
    (* Home Assistant *)
    sensor,         \* the contact sensors: their entity ID, name and status
    lockName,       \* the locks' names
    (* the config entry *)
    links,          \* each linked lock's sensor, and the link's title
    reloadDue,      \* a reload is scheduled
    inForce,        \* the locks' sensors, as set up
    followed,       \* the links that are followed, by the entity IDs they had
    listening,      \* the entity ID each lock's entity follows
    outrun,         \* for the properties: see SensorMoved
    issues

registries == <<sensor, lockName>>
runtime == <<inForce, followed, listening, outrun>>
door == <<registries, links, reloadDue, runtime, issues>>
vars == <<setting, changes, bold, sync, door>>

-----------------------------------------------------------------------------
(* Reading the registries and states                                       *)

\* async_resolve_entity_id
Resolve(s) == IF sensor[s].status = "deleted" THEN None ELSE sensor[s].id

WithState(h) == {l \in Locks : "lock" \in h.entities[l]}
HasState(l) == l \in WithState(home)

\* door_sensors: each linked lock's sensor.
DoorSensors(ls) == [l \in DOMAIN ls |-> ls[l].sensor]

\* lock_name
LockName(l, fallback) == IF HasState(l) THEN lockName[l] ELSE fallback

\* What async_added_to_hass of a lock's entity follows.
Door(l) == IF l \in DOMAIN inForce THEN Resolve(inForce[l]) ELSE None

\* Locks whose entities stay go on following what they did.
Listen ==
    listening' = [l \in Locks |->
                     IF l \notin WithState(home') THEN None
                     ELSE IF HasState(l) THEN listening[l] ELSE Door(l)]

\* The links async_follow_links finds both entities of.
Found(h) ==
    [l \in {l \in DOMAIN links : "lock" \in h.registered[l] /\ Resolve(links[l].sensor) # None} |->
        [sensor |-> links[l].sensor, id |-> Resolve(links[l].sensor)]]

MutatedRetitled(ls, links_followed, shown, sensors, names) ==
    [l \in DOMAIN ls |->
        IF l \in DOMAIN links_followed \cap shown
        THEN [ls[l] EXCEPT !.title.lock = names[l]]
        ELSE ls[l]]

\* _update_title, of the links followed of some locks: only with both names
\* known, which are those of the entity IDs that are followed.
Retitled(ls, links_followed, shown, sensors, names) ==
    [l \in DOMAIN ls |->
        IF /\ l \in DOMAIN links_followed \cap shown
           /\ LET s == sensors[links_followed[l].sensor]
              IN  s.status = "ok" /\ s.id = links_followed[l].id
        THEN [ls[l] EXCEPT !.title = [lock |-> names[l],
                                      door |-> sensors[links_followed[l].sensor].name]]
        ELSE ls[l]]

\* _async_entry_updated, once the entry is set up: a changed title, as changed
\* tokens, needs no reload.
Reloads(ls, running) == running = "loaded" /\ DoorSensors(ls) # inForce

\* The links change; while the entry is loaded, that may reload it.
Update(ls) ==
    /\ links' = ls
    /\ reloadDue' = (reloadDue \/ (ls # links /\ Reloads(ls, entry)))

-----------------------------------------------------------------------------
(* Repair issues, as async_check_issues finds them                         *)

ConnectIssues(d) ==
    {<<"connect_offline", c>> : c \in
        {c \in DOMAIN d : IsGateway(c) /\ d[c].offline
                          /\ \E l \in DOMAIN d : IsLock(l) /\ d[l].gateway = c}}

\* Without Bluetooth.  BluetoothTracker has the locks that are out of range.
LockIssues(d) ==
    {<<"lock_no_route", l>> : l \in
        {l \in DOMAIN d : IsLock(l) /\ ~ (d[l].gateway # None /\ d[l].remote) /\ ~ Bluetooth}}

SensorMissing(s) == sensor[s].status # "ok"

LinkIssues(d) ==
    {<<"door_sensor_missing", l>> : l \in {l \in DOMAIN links : SensorMissing(links[l].sensor)}}
    \cup {<<"door_sensor_no_locked_status", l>> : l \in
            {l \in DOMAIN links \cap DOMAIN d :
                ~ SensorMissing(links[l].sensor) /\ ~ d[l].reportsBolt}}

Problems(d) == ConnectIssues(d) \cup LockIssues(d) \cup LinkIssues(d)

MutatedCheckIssues(d) == issues \cup Problems(d)

\* Those there are now are raised, and all others of the integration cleared,
\* whichever entry raised them.
CheckIssues(d) == (issues \cup Problems(d)) \ {issue \in issues : issue \notin Problems(d)}

-----------------------------------------------------------------------------
(* The entry's life                                                        *)

BoldChanges ==
    /\ Joins \/ Leaves \/ DeviceChanges
    /\ UNCHANGED <<setting, door>>

SetupBegins == SetupStarts /\ UNCHANGED <<setting, changes, door>>

PollBegins == PollStarts /\ UNCHANGED <<setting, changes, door>>

PageFollows == PageArrives /\ UNCHANGED <<setting, changes, door>>

\* A setup takes the links as they are once the devices are known.
DevicesArrive ==
    /\ PollSucceeds
    /\ issues' = CheckIssues(data')
    /\ inForce' = IF entry = "setup" THEN DoorSensors(links) ELSE inForce
    /\ Listen
    /\ UNCHANGED <<followed, outrun>>
    /\ Update(Retitled(links, followed, WithState(home') \ WithState(home), sensor, lockName))
    /\ UNCHANGED <<setting, changes, registries>>

RequestFails ==
    /\ PollFails \/ SetupFails
    /\ Listen
    /\ UNCHANGED <<setting, registries, links, reloadDue, inForce, followed, outrun, issues>>

\* The platforms add the locks' entities, which find their sensors,
AddEntities ==
    /\ EntitiesAdded
    /\ Listen
    /\ UNCHANGED <<setting, changes, registries, links, reloadDue, inForce, followed, outrun, issues>>

\* and then the links are followed.
SetUp ==
    /\ SetupEnds
    /\ followed' = Found(home)
    /\ links' = Retitled(links, followed', WithState(home), sensor, lockName)
    /\ reloadDue' = (links' # links /\ Reloads(links', entry'))
    /\ UNCHANGED <<setting, changes, registries, inForce, listening, outrun, issues>>

Unload ==
    /\ Unloads
    /\ reloadDue' = FALSE
    /\ followed' = NoData
    /\ listening' = [l \in Locks |-> None]
    /\ outrun' = {}
    /\ UNCHANGED <<setting, registries, links, inForce, issues>>

Reload == reloadDue /\ Unload /\ changes' = changes

UserReloads == "reload" \in Environment /\ Happens /\ Unload

\* A request finds the access token expired, and the entry is given another.
TokensRefreshed ==
    /\ entry = "loaded"
    /\ reloadDue' = (reloadDue \/ Reloads(links, entry))
    /\ UNCHANGED <<setting, changes, bold, sync, registries, links, runtime, issues>>

\* The device poll of another account's entry clears what it does not know of.
OtherAccountPolls ==
    /\ "otherAccount" \in Environment
    /\ issues' = {}
    /\ UNCHANGED <<setting, changes, bold, sync, registries, links, reloadDue, runtime>>

-----------------------------------------------------------------------------
(* The user                                                                *)

UserLinks == "links" \in Environment /\ Happens /\ UNCHANGED <<setting, bold, sync, registries, runtime, issues>>

\* async_step_user, as its form is submitted: it looks at the locks once more.
LinkLock ==
    /\ UserLinks
    /\ entry = "loaded"
    /\ \E l \in (Locks \cap DOMAIN data) \ DOMAIN links, s \in Sensors :
        /\ data[l].reportsBolt
        /\ sensor[s].status = "ok"
        /\ Update([k \in DOMAIN links \cup {l} |->
                     IF k # l THEN links[k]
                     ELSE [sensor |-> s, title |-> [lock |-> LockName(l, None), door |-> sensor[s].name]]])

\* async_step_reconfigure, which also a setup can meet.
Relink ==
    /\ UserLinks
    /\ \E l \in DOMAIN links, s \in Sensors :
        /\ sensor[s].status = "ok"
        /\ Update([links EXCEPT ![l] = [sensor |-> s,
                                        title |-> [lock |-> LockName(l, @.title.lock), door |-> sensor[s].name]]])

\* Home Assistant deletes a link.
Unlink ==
    /\ UserLinks
    /\ \E l \in DOMAIN links : Update(Restrict(links, DOMAIN links \ {l}))

\* The locks whose followed link is of a sensor.
Of(s) == {l \in DOMAIN followed : followed[l].sensor = s}

\* _state_changed, of either, with what the names are then.
StateChanges(locks, sensors, names) ==
    /\ Happens
    /\ sensor' = sensors
    /\ lockName' = names
    /\ Update(Retitled(links, followed, locks \cap WithState(home), sensors, names))
    /\ UNCHANGED <<setting, bold, sync, runtime, issues>>

SensorRenamed ==
    /\ "rename" \in Environment
    /\ \E s \in Sensors : \E n \in Names \ {sensor[s].name} :
        /\ sensor[s].status = "ok"
        /\ StateChanges(Of(s), [sensor EXCEPT ![s].name = n], lockName)

LockRenamed ==
    /\ "rename" \in Environment
    /\ \E l \in WithState(home) : \E n \in Names \ {lockName[l]} :
        StateChanges({l}, sensor, [lockName EXCEPT ![l] = n])

\* A sensor is disabled, deleted or, if it was disabled, enabled again.
SensorStatus ==
    /\ "sensors" \in Environment
    /\ \E s \in Sensors, status \in {"ok", "disabled", "deleted"} :
        /\ sensor[s].status \notin {"deleted", status}
        /\ StateChanges(Of(s), [sensor EXCEPT ![s].status = status], lockName)

MutatedEntityIdChanged(s) == \E l \in Of(s) : followed[l].id = sensor'[s].id

\* _entity_id_changed: whether a sensor is one of those that are followed.
EntityIdChanged(s) == Of(s) # {}

\* A sensor is given another entity ID.  If its lock has been added, and the links
\* are yet to be followed, then nothing tells the lock.
SensorMoved ==
    /\ "sensors" \in Environment
    /\ Happens
    /\ \E s \in Sensors :
        /\ sensor[s].status # "deleted"
        /\ sensor' = [sensor EXCEPT ![s].id = @ + 1]
        /\ reloadDue' = (reloadDue \/ EntityIdChanged(s))
        /\ outrun' = outrun \cup {l \in DOMAIN inForce : /\ entry = "added" /\ inForce[l] = s
                                                        /\ listening[l] # None}
    /\ UNCHANGED <<setting, bold, sync, lockName, links, inForce, followed, listening, issues>>

-----------------------------------------------------------------------------
Init ==
    /\ DevicesInit
    /\ sensor = [s \in Sensors |-> [id |-> 0, name |-> CHOOSE n \in Names : TRUE, status |-> "ok"]]
    /\ lockName = [l \in Locks |-> CHOOSE n \in Names : TRUE]
    /\ links = NoData
    /\ reloadDue = FALSE
    /\ inForce = NoData
    /\ followed = NoData
    /\ listening = [l \in Locks |-> None]
    /\ outrun = {}
    /\ issues = {}

Next ==
    \/ BoldChanges
    \/ SetupBegins \/ PollBegins \/ PageFollows \/ DevicesArrive \/ RequestFails
    \/ AddEntities \/ SetUp
    \/ Reload \/ UserReloads \/ TokensRefreshed \/ OtherAccountPolls
    \/ LinkLock \/ Relink \/ Unlink
    \/ SensorRenamed \/ LockRenamed \/ SensorStatus \/ SensorMoved

\* A poll ends with its answer, page by page.
Answered == poll # None /\ poll' = None /\ success' = TRUE

\* Setups and polls begin, and are answered; setups end; scheduled reloads
\* happen; and tokens expire.
Fairness ==
    /\ WF_vars(AddEntities) /\ WF_vars(SetUp)
    /\ WF_vars(SetupBegins) /\ WF_vars(PollBegins)
    /\ WF_<<poll, success>>(Answered)
    /\ WF_vars(Reload)
    /\ WF_vars(TokensRefreshed)

Spec == Init /\ [][Next]_vars /\ Fairness

-----------------------------------------------------------------------------
(* Properties                                                              *)

\* Something for each of some locks.
OfLocks(f, S) == \E some \in SUBSET Locks : f \in [some -> S]

Sensor == [id : Nat, name : Names, status : {"ok", "disabled", "deleted"}]

Link == [sensor : Sensors, title : [lock : Names \cup {None}, door : Names]]

\* Every variable has its type.
TypeOK ==
    /\ DevicesTypeOK
    /\ sensor \in [Sensors -> Sensor] /\ lockName \in [Locks -> Names]
    /\ OfLocks(links, Link)
    /\ reloadDue \in BOOLEAN
    /\ OfLocks(inForce, Sensors) /\ OfLocks(followed, [sensor : Sensors, id : Nat])
    /\ listening \in [Locks -> Nat \cup {None}] /\ outrun \subseteq Locks

Succeeds == poll # None /\ poll' = None /\ entry' # "down" /\ success'

\* A device that was in the account all through a poll is found by it, on
\* whatever page, as long as none left meanwhile.
FoundThroughout ==
    [][Succeeds /\ ~ poll.shrunk => poll.stayed \subseteq DOMAIN data']_vars

\* Or although one did: which moves up what is on the pages to come.
FoundAlways == [][Succeeds => poll.stayed \subseteq DOMAIN data']_vars

\* A lock that gets its entities is linked to its Connect, though both may be
\* new in the same poll ("Register Bold Connects first, so locks can be linked
\* to them").
LinkedToConnect ==
    [][\A l \in Locks :
        /\ home.entities[l] = {} /\ home'.entities[l] # {}
        /\ data'[l].gateway \in DOMAIN data'
        => home'.registry[l].via = data'[l].gateway]_vars

\* The links whose sensor is the one that is followed for them.
Followed ==
    {l \in DOMAIN links \cap DOMAIN followed : followed[l].sensor = links[l].sensor}

\* A link that is followed is titled with the names its lock and its sensor
\* have now ("which it follows as they're renamed"), unless a reload is due.
TitlesFollow ==
    entry = "loaded" /\ ~ reloadDue =>
        \A l \in Followed :
            /\ HasState(l)
            /\ sensor[links[l].sensor].status = "ok"
            => links[l].title = [lock |-> lockName[l], door |-> sensor[links[l].sensor].name]

\* That takes that the links are followed by the entity IDs their sensors have.
FollowedByItsId ==
    entry = "loaded" /\ ~ reloadDue =>
        \A l \in DOMAIN followed : followed[l].id = sensor[followed[l].sensor].id

TitlesInvariant == TitlesFollow /\ FollowedByItsId

\* The locks of some links follow their sensors, by the entity IDs they have.
InEffect(ls) ==
    entry = "loaded" /\ ~ reloadDue =>
        \A l \in ls : HasState(l) /\ Door(l) # None => listening[l] = Door(l)

\* Once the user is done, the links in force are those there are, and each lock
\* follows its link's sensor by the entity ID it has now, although a setup may
\* have taken an older link ("Changing the sensor's entity ID keeps the link") -
\* of the links that are followed, but for a sensor that was given another ID
\* after a setup added its lock and before it followed the links.
LinksTakeEffect ==
    <>[]((entry = "loaded" => inForce = DoorSensors(links)) /\ InEffect(Followed \ outrun))

\* Or also for such a sensor.
MovedLinksTakeEffect == <>[]InEffect(Followed)

\* Or of all links, which a setup may not have found.
AllLinksTakeEffect == <>[]InEffect(DOMAIN links \ outrun)

\* In the end, the repair issues are those of the problems there are ("Repairs
\* clear themselves once the problem is gone"), with one account set up.
IssuesSettle == <>[]("otherAccount" \in Environment \/ issues = Problems(profile))

\* Or with any.
AllIssuesSettle == <>[](issues = Problems(profile))
=============================================================================
