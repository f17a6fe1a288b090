--------------------------- MODULE EventCoordinator ---------------------------
(***************************************************************************)
(* How the integration follows the event log of the account's devices:     *)
(* BoldEventCoordinator polls the log, Bold pushes some of the same events *)
(* to a webhook, and what is new reaches the listeners, which fire a Home  *)
(* Assistant event for each (BoldActivityEvent) or apply it (BoldLock).    *)
(*                                                                         *)
(* Everything runs on one event loop, so an action is what happens between *)
(* two awaits.  A poll awaits once, for the log: it is StartPoll, then     *)
(* ServerAnswers (where Bold reads its log), then one of the poll's ends.  *)
(* Times are integers: one unit is the ScanInterval of the configurations. *)
(*                                                                         *)
(* Left out: recent_events, last_push and status_history, which only       *)
(* diagnostics and the voltage sensor's first reading show.                *)
(***************************************************************************)
EXTENDS Integers, FiniteSets

CONSTANTS
    Devices,            \* devices that have activity
    Types,              \* event types; a bolt's position is part of the type
    PushedTypes,        \* those the webhook is subscribed to
    Overlap,            \* EVENT_POLL_OVERLAP
    Lookback,           \* EVENT_CATCH_UP_LOOKBACK
    CatchUpInterval,    \* EVENT_CATCH_UP_INTERVAL
    ScanInterval,       \* EVENT_SCAN_INTERVAL
    PushScanInterval,   \* EVENT_PUSH_SCAN_INTERVAL
    Latency,            \* the longest a poll waits for its answer
    MaxDelay,           \* how late a lock uploads an event, at most
    MaxAhead,           \* how far a lock's clock runs ahead, at most
    MaxPushAge,         \* how old an event Bold (re)delivers to the webhook
    MaxTime,            \* bound: the last moment explored
    MaxEvents,          \* bound: events in the log
    Environment,        \* which of Hazards happen
    None

\* What the environment may do; each run says which of it happens.
Hazards == {"register", "push", "pushDuringPoll", "fail", "forbid", "auth",
            "deviceChange", "noDevices", "reload"}

ASSUME TimesAreNaturals ==
    /\ {Overlap, Lookback, Latency, MaxDelay, MaxAhead, MaxPushAge, MaxTime, MaxEvents}
           \subseteq Nat
    /\ {CatchUpInterval, ScanInterval, PushScanInterval} \subseteq Nat \ {0}

\* An ordinary poll looks back less far than a catch-up.
ASSUME CatchUpLooksFurther == Overlap <= Lookback

\* Bold doesn't push an event again once catch-ups no longer look back to it.
ASSUME PushesAreRecent == MaxPushAge <= Lookback

\* A poll that a push rescheduled while it waits ends before it is due again.
ASSUME PollsEndInTime == Latency < PushScanInterval

\* Pushes let polls be rarer.
ASSUME PushesReplacePolls == ScanInterval <= PushScanInterval

ASSUME PushedTypesAreTypes == PushedTypes \subseteq Types
ASSUME EnvironmentIsHazards == Environment \subseteq Hazards
ASSUME NoneIsNoInterval == None \notin Int

-----------------------------------------------------------------------------
VARIABLES
    now,            \* the clock, of Home Assistant and of Bold alike
    log,            \* the events in Bold's event log
    (* BoldEventCoordinator *)
    deviceIds,      \* device_ids
    cursor,         \* _cursor
    seen,           \* _seen: the keys of the events seen
    primed,         \* _primed
    lastCatchUp,    \* _last_catch_up
    pushActive,     \* push_active
    interval,       \* update_interval
    (* its DataUpdateCoordinator, and the config entry *)
    data,           \* data: the events the listeners were last given
    ok,             \* last_update_success
    due,            \* when the next poll is scheduled
    poll,           \* the poll waiting for its answer
    loaded,         \* the entry's state is LOADED
    registering,    \* the webhook's registration with Bold is under way
    (* what happened, for the properties *)
    delivered,      \* keys the coordinator reported as new
    redelivered,    \* those of them it reported again, later
    fired,          \* keys the listeners fired an event for
    refired,        \* those of them they fired again, later
    listed,         \* the devices of the last completed poll
    history         \* keys in the log when their device was first polled

world == <<now, log>>
coordinator == <<cursor, seen, primed, lastCatchUp>>
mode == <<pushActive, interval>>
framework == <<data, ok, due>>
entry == <<loaded, registering>>
handed == <<delivered, redelivered>>
ghosts == <<fired, refired>>
first == <<listed, history>>
vars == <<world, deviceIds, coordinator, mode, framework, poll, entry, handed, ghosts, first>>

Lesser(a, b) == IF a <= b THEN a ELSE b

\* Events are recognised by type, device and time, whether polled or pushed.
Key(event) == [type |-> event.type, dev |-> event.dev, time |-> event.time]
Keys(events) == {Key(event) : event \in events}

AllKeys == [type : Types, dev : Devices, time : Int]
Event == [type : Types, dev : Devices, time : Int, uploaded : Int]

(* A definition named Mutated... is what a plausible bug would make of the  *)
(* one after it; the runs of PROJECT.json show that a property notices.     *)

MutatedReach(from) == from

\* How far back an ordinary poll looks, with the cursor at `from`.
Reach(from) == from - Overlap

MutatedCatchUpReach(from, at) == Reach(from)

\* How far back a catch-up poll looks at time `at`: no poll looks further.
CatchUpReach(from, at) == Lesser(Reach(from), at - Lookback)

MutatedHorizon(from, at) == Reach(from)

\* The horizon: keys of older events are forgotten.
Horizon(from, at) == CatchUpReach(from, at) - Overlap

-----------------------------------------------------------------------------
(* The coordinator's data, and who is told of it                           *)

\* The listeners fire each event of the list they are given.
Fire(events) ==
    /\ fired' = fired \cup Keys(events)
    /\ refired' = refired \cup (fired \cap Keys(events))

FireNothing == UNCHANGED ghosts

\* The coordinator reports these events, as new ones.
Deliver(events) ==
    /\ delivered' = delivered \cup Keys(events)
    /\ redelivered' = redelivered \cup (delivered \cap Keys(events))

MutatedNewEvents(events) == events

NewEvents(events) == {event \in events : Key(event) \notin seen}

MutatedReported(events) == {event \in NewEvents(events) : event.dev \in primed \cup poll.ids}

\* Those of devices that were polled before are reported.
Reported(events) == {event \in NewEvents(events) : event.dev \in primed}

\* The cursor moves to the latest event; keys older than the horizon are forgotten.
Accept(events, at) ==
    LET new == NewEvents(events)
        known == IF cursor = None THEN at ELSE cursor
    IN  \E latest \in {known} \cup {event.time : event \in new} :
            /\ known <= latest
            /\ \A event \in new : event.time <= latest
            /\ cursor' = latest
            /\ seen' = {k \in seen \cup Keys(new) : k.time >= Horizon(latest, at)}

\* The end of a poll that did not raise: always_update is off, so listeners
\* only hear of data that differs from what it was when the poll began.
Succeed(events, wait, previous, wasOk) ==
    /\ data' = events
    /\ ok' = TRUE
    /\ IF wasOk /\ previous = events THEN FireNothing ELSE Fire(events)
    /\ due' = IF wait = None THEN None ELSE now + wait

\* The first successful refresh lets setup finish: the platforms are set up
\* and the webhook's registration starts.  (A push that arrives while setup
\* still awaits is ignored, which to us is a push that was lost.)
FinishSetup ==
    /\ loaded' = TRUE
    /\ registering' = IF loaded THEN registering ELSE "register" \in Environment

MutatedSetPushActive(active) ==
    /\ pushActive' = active
    /\ interval' = IF active THEN ScanInterval + PushScanInterval ELSE ScanInterval

SetPushActive(active) ==
    /\ pushActive' = active
    /\ interval' = IF active THEN PushScanInterval ELSE ScanInterval

-----------------------------------------------------------------------------
(* Polls                                                                   *)

NoPoll == [status |-> "idle", ids |-> {}, since |-> 0, began |-> 0, catchUp |-> FALSE,
           previous |-> {}, wasOk |-> TRUE, answer |-> {}]

Polling == poll.status # "idle"

MutatedNeedsCatchUp == lastCatchUp = None \/ ~ deviceIds \subseteq primed

\* A catch-up is due, or needed because a device is polled for the first time.
NeedsCatchUp ==
    \/ lastCatchUp = None
    \/ now - lastCatchUp >= CatchUpInterval
    \/ ~ deviceIds \subseteq primed

StartPoll ==
    /\ ~ Polling
    /\ due # None
    /\ due <= now
    /\ deviceIds # {}
    /\ LET from == IF cursor = None THEN now ELSE cursor
       IN  poll' = [status |-> "asked", ids |-> deviceIds,
                    since |-> IF NeedsCatchUp THEN CatchUpReach(from, now) ELSE Reach(from),
                    began |-> now, catchUp |-> NeedsCatchUp,
                    previous |-> data, wasOk |-> ok, answer |-> {}]
    /\ due' = None
    /\ UNCHANGED <<world, deviceIds, coordinator, mode, data, ok, entry, handed, ghosts, first>>

\* Without devices there is nothing to ask Bold.
PollNothing ==
    /\ ~ Polling
    /\ due # None
    /\ due <= now
    /\ deviceIds = {}
    /\ cursor' = IF cursor = None THEN now ELSE cursor
    /\ Succeed({}, interval, data, ok)
    /\ FinishSetup
    /\ listed' = {}
    /\ UNCHANGED <<world, deviceIds, seen, primed, lastCatchUp, mode, poll, handed, history>>

\* Bold reads its log: the events of the devices asked for, since the time asked.
ServerAnswers ==
    /\ poll.status = "asked"
    /\ LET asked == {event \in log : event.dev \in poll.ids /\ event.time >= poll.since}
       IN  poll' = [poll EXCEPT !.status = "answered", !.answer = asked]
    /\ history' = history \cup Keys({event \in log : event.dev \in poll.ids \ listed})
    /\ UNCHANGED <<world, deviceIds, coordinator, mode, framework, entry, handed, ghosts, listed>>

\* The rest of _async_update_data.  Accepting uses the time the poll began.
PollSucceeds ==
    /\ poll.status = "answered"
    /\ Accept(poll.answer, poll.began)
    /\ lastCatchUp' = IF poll.catchUp THEN poll.began ELSE lastCatchUp
    /\ primed' = poll.ids
    /\ LET new == Reported(poll.answer)
           missed == pushActive /\ \E event \in new : event.type \in PushedTypes
       IN  /\ Deliver(new)
           /\ IF missed THEN SetPushActive(FALSE) ELSE UNCHANGED mode
           /\ Succeed(new, interval', poll.previous, poll.wasOk)
    /\ FinishSetup
    /\ poll' = NoPoll
    /\ listed' = poll.ids
    /\ UNCHANGED <<world, deviceIds, history>>

\* 403: the account may not read the log.  Polling stops, as if nothing is new.
PollForbidden ==
    /\ "forbid" \in Environment
    /\ Polling
    /\ interval' = None
    /\ Succeed({}, None, poll.previous, poll.wasOk)
    /\ FinishSetup
    /\ poll' = NoPoll
    /\ UNCHANGED <<world, deviceIds, coordinator, pushActive, handed, first>>

\* A failed refresh keeps the data, and tells the listeners when the previous
\* one had succeeded.  A first refresh that fails has setup tried again later,
\* with a new coordinator.
Fail(wait) ==
    /\ ok' = ~ loaded
    /\ IF poll.wasOk THEN Fire(data) ELSE FireNothing
    /\ due' = IF wait = None THEN None ELSE now + wait
    /\ poll' = NoPoll
    /\ UNCHANGED <<world, deviceIds, coordinator, mode, data, entry, handed, first>>

PollFails ==
    /\ "fail" \in Environment
    /\ Polling
    /\ Fail(IF loaded THEN interval ELSE ScanInterval)

\* The token is rejected: the user has to sign in again, which reloads the entry.
PollAuthFails ==
    /\ "auth" \in Environment
    /\ Polling
    /\ Fail(None)

-----------------------------------------------------------------------------
(* Pushes                                                                  *)

\* Bold pushes some recent events, for the first time or again.  It may also
\* never push an event: then no step of this action has it.
Pushable == {event \in log : event.type \in PushedTypes /\ now - event.time <= MaxPushAge}

\* async_handle_push.  Its async_set_updated_data starts the interval anew.
HandlePush ==
    /\ "push" \in Environment
    /\ loaded
    /\ Polling => "pushDuringPoll" \in Environment
    /\ \E events \in (SUBSET Pushable) \ {{}} :
           LET new == Reported(events)
           IN  /\ IF pushActive THEN UNCHANGED mode ELSE SetPushActive(TRUE)
               /\ Accept(events, now)
               /\ Deliver(new)
               /\ IF new = {} THEN UNCHANGED <<framework, ghosts>>
                  ELSE /\ data' = new
                       /\ ok' = TRUE
                       /\ due' = IF interval' = None THEN None ELSE now + interval'
                       /\ Fire(new)
    /\ UNCHANGED <<world, deviceIds, primed, lastCatchUp, poll, entry, first>>

\* _async_register_with_bold ends: the webhook is registered, or it is not.
RegisterPush ==
    /\ registering
    /\ registering' = FALSE
    /\ SetPushActive(TRUE)
    /\ UNCHANGED <<world, deviceIds, coordinator, framework, poll, loaded, handed, ghosts, first>>

RegisterPushFails ==
    /\ registering
    /\ registering' = FALSE
    /\ UNCHANGED <<world, deviceIds, coordinator, mode, framework, poll, loaded, handed, ghosts, first>>

-----------------------------------------------------------------------------
(* The account, the entry and the world                                    *)

\* _async_sync_devices, after the device poll: locks were added or removed.
SyncDevices ==
    /\ "deviceChange" \in Environment
    /\ loaded
    /\ \E ids \in SUBSET Devices :
           /\ ids # {} \/ "noDevices" \in Environment
           /\ ids # deviceIds
           /\ deviceIds' = ids
    /\ UNCHANGED <<world, coordinator, mode, framework, poll, entry, handed, ghosts, first>>

\* The entry is set up anew, as at a restart: a new coordinator.
Fresh ==
    /\ cursor' = None
    /\ seen' = {}
    /\ primed' = {}
    /\ lastCatchUp' = None
    /\ pushActive' = FALSE
    /\ interval' = ScanInterval
    /\ data' = {}
    /\ ok' = TRUE
    /\ due' = now
    /\ poll' = NoPoll
    /\ loaded' = FALSE
    /\ registering' = FALSE
    /\ listed' = {}

Reload ==
    /\ "reload" \in Environment
    /\ loaded \/ due = None
    /\ Fresh
    /\ UNCHANGED <<world, deviceIds, handed, ghosts, history>>

\* A lock uploads an event, late or with a clock that runs ahead.
Upload ==
    /\ Cardinality(log) < MaxEvents
    /\ \E type \in Types, dev \in Devices, time \in now - MaxDelay .. now + MaxAhead :
           LET event == [type |-> type, dev |-> dev, time |-> time, uploaded |-> now]
           IN  /\ Key(event) \notin Keys(log)
               /\ log' = log \cup {event}
    /\ UNCHANGED <<now, deviceIds, coordinator, mode, framework, poll, entry, handed, ghosts, first>>

\* Time does not pass a poll that is due, nor one that waits for the longest time.
Tick ==
    /\ now < MaxTime
    /\ Polling => now < poll.began + Latency
    /\ ~ Polling /\ due # None => now < due
    /\ now' = now + 1
    /\ UNCHANGED <<log, deviceIds, coordinator, mode, framework, poll, entry, handed, ghosts, first>>

\* The exploration ends at MaxTime, once nothing is left to do.
Ended ==
    /\ now = MaxTime
    /\ ~ Polling
    /\ UNCHANGED vars

-----------------------------------------------------------------------------
Init ==
    /\ now = 0
    /\ log = {}
    /\ deviceIds \in SUBSET Devices
    /\ deviceIds # {} \/ "noDevices" \in Environment
    /\ cursor = None
    /\ seen = {}
    /\ primed = {}
    /\ lastCatchUp = None
    /\ pushActive = FALSE
    /\ interval = ScanInterval
    /\ data = {}
    /\ ok = TRUE
    /\ due = 0
    /\ poll = NoPoll
    /\ loaded = FALSE
    /\ registering = FALSE
    /\ delivered = {} /\ redelivered = {}
    /\ fired = {} /\ refired = {}
    /\ listed = {} /\ history = {}

Next ==
    \/ StartPoll \/ PollNothing \/ ServerAnswers \/ PollSucceeds
    \/ PollForbidden \/ PollFails \/ PollAuthFails
    \/ HandlePush \/ RegisterPush \/ RegisterPushFails
    \/ SyncDevices \/ Reload
    \/ Upload \/ Tick \/ Ended

Spec == Init /\ [][Next]_vars

-----------------------------------------------------------------------------
(* Properties                                                              *)

PollType == [status : {"idle", "asked", "answered"}, ids : SUBSET Devices, since : Int,
             began : Nat, catchUp : BOOLEAN, previous : SUBSET Event, wasOk : BOOLEAN,
             answer : SUBSET Event]

\* Every variable has its type; the polls run at one of the two intervals, or
\* not at all.
TypeOK ==
    /\ now \in Nat
    /\ log \subseteq Event
    /\ deviceIds \subseteq Devices
    /\ cursor \in Int \cup {None}
    /\ seen \subseteq AllKeys
    /\ primed \subseteq Devices
    /\ lastCatchUp \in Int \cup {None}
    /\ pushActive \in BOOLEAN
    /\ interval \in {ScanInterval, PushScanInterval, None}
    /\ data \subseteq Event
    /\ ok \in BOOLEAN
    /\ due \in Int \cup {None}
    /\ poll \in PollType
    /\ loaded \in BOOLEAN
    /\ registering \in BOOLEAN
    /\ delivered \subseteq AllKeys /\ redelivered \subseteq AllKeys
    /\ fired \subseteq AllKeys /\ refired \subseteq AllKeys
    /\ listed \subseteq Devices /\ history \subseteq AllKeys

\* An event is reported as new once: not again when it is pushed again or
\* polled later, when the integration restarts, or when its device leaves the
\* account and returns ("Forget events older than any poll can return again").
DeliveredOnce == redelivered = {}

\* DeliveredOnce is inductive together with the next four, as long as no push
\* comes in while a poll waits:

\* what was reported is in the log,
ReportedIsLogged == delivered \subseteq Keys(log)

\* no device is primed before there is a cursor,
CursorComesFirst == cursor = None => primed = {}

\* what was reported is still known, for as far back as any later poll looks,
Known(keys) ==
    \A k \in keys :
        /\ k.dev \in primed
        /\ k.time >= CatchUpReach(cursor, now)
        => k \in seen

Remembers == Known(delivered)

\* and so is what the poll under way can return, which returns all of it.
PollKnows(keys) ==
    /\ \A k \in keys : k.dev \in primed /\ k.time >= poll.since => k \in seen
    /\ poll.status = "answered" =>
           \A k \in keys : k.dev \in poll.ids /\ k.time >= poll.since => k \in Keys(poll.answer)

PollIsSafe ==
    Polling =>
        /\ poll.began <= now
        /\ LET from == IF cursor = None THEN poll.began ELSE cursor
           IN  IF poll.catchUp THEN poll.since = CatchUpReach(from, poll.began)
               ELSE poll.since = Reach(from) /\ poll.ids \subseteq primed
        /\ poll.status = "answered" =>
               /\ poll.answer \subseteq log
               /\ \A event \in poll.answer : event.time >= poll.since
        /\ PollKnows(delivered)

\* Together they are the inductive invariant.
OnceInvariant ==
    /\ DeliveredOnce
    /\ ReportedIsLogged
    /\ CursorComesFirst
    /\ Remembers
    /\ PollIsSafe

\* Home Assistant fires one event for each event of a lock.
FiredOnce == refired = {}

\* What was in a device's log when it was first polled is never reported as
\* new, so history is not replayed at a start or when a lock is added.
HistoryNotReplayed == [][(delivered' \ delivered) \cap history = {}]_vars

\* That takes the same of what was there, which is known like what was reported,
\* as long as the account is never without locks.
HistoryInvariant ==
    /\ deviceIds # {}
    /\ primed = listed
    /\ history \subseteq Keys(log)
    /\ Known(history)
    /\ Polling => PollKnows(history)

\* An event is fired only as it is reported, when no poll fails.
FiredInvariant ==
    /\ FiredOnce
    /\ fired \subseteq delivered

\* What became of each event in the log.
Standing(k) ==
    CASE k \in redelivered -> "repeated"
      [] k \in delivered \ redelivered -> "reported"
      [] k \in history \ delivered -> "old"
      [] OTHER -> "new"

\* The keys there can be until MaxTime.
BoundedKeys == [type : Types, dev : Devices, time : -MaxDelay .. MaxTime + MaxAhead]

FeedState == [k \in Keys(log) |-> Standing(k)]

Feed == INSTANCE EventFeed WITH EventKeys <- BoundedKeys, feed <- FeedState

\* The coordinator keeps the promise of EventFeed: every event goes from the
\* log to the listeners once, or not at all if it is history when its device
\* is first polled - whatever is pushed, polled, fails or restarts.
FeedImplemented == Feed!Spec

\* The longest from the start of one poll to that of the next, without pushes
\* and failures: it waits for its answer, then the interval passes.
PollGap ==
    Latency + (IF "register" \in Environment THEN PushScanInterval ELSE ScanInterval)

\* Likewise from one catch-up to the next: a poll can start just before it is time.
CatchUpGap == CatchUpInterval + PollGap - 1

\* An event a lock uploads about as it happens fires by the end of the next
\* poll, however far ahead the clocks of the locks that moved the cursor run.
TimelyUploadsFire ==
    \A event \in log :
        /\ event.dev \in deviceIds
        /\ event.time >= event.uploaded + MaxAhead - Overlap
        /\ now > event.uploaded + PollGap + Latency
        => Key(event) \in fired \cup history

\* An event uploaded later than that fires by the end of the next catch-up, if
\* it is not so late that the catch-up no longer looks back to it.
LateUploadsFire ==
    \A event \in log :
        /\ event.dev \in deviceIds
        /\ event.time >= event.uploaded + CatchUpGap - Lookback
        /\ now > event.uploaded + CatchUpGap + Latency
        => Key(event) \in fired \cup history

\* While polling works a catch-up is never long ago ("every 10 minutes a check
\* looks back an hour for anything that arrived late").
CatchUpsKeepComing ==
    lastCatchUp # None => now - lastCatchUp <= CatchUpGap + Latency

(* While polling works and nothing is pushed, the three follow from these.  *)

\* Polls keep coming,
PollsKeepComing ==
    /\ deviceIds # {} /\ primed = listed
    /\ interval # None /\ interval <= PollGap - Latency
    /\ registering => "register" \in Environment
    /\ ~ Polling => due # None /\ now <= due /\ due <= now + PollGap - Latency
    /\ Polling => /\ poll.ids = deviceIds
                  /\ poll.began <= now /\ now <= poll.began + Latency

\* and those that catch up, counted from the first;
LastCatchUp == IF lastCatchUp = None THEN 0 ELSE lastCatchUp

CatchUpsAreDue ==
    /\ LastCatchUp <= now
    /\ ~ Polling => due <= LastCatchUp + CatchUpGap
    /\ Polling =>
           poll.began <= LastCatchUp + (IF poll.catchUp THEN CatchUpGap ELSE CatchUpInterval - 1)

\* what a poll returned is fired, or history;
AllIsTold ==
    /\ seen \subseteq fired \cup history
    /\ Keys(data) \subseteq fired
    /\ Polling => Keys(poll.previous) \subseteq fired
    /\ poll.status = "answered" =>
           \A event \in poll.answer : event.dev \in primed \/ Key(event) \in history

\* clocks are MaxAhead at most, and so is the cursor that follows them;
NotAhead ==
    /\ \A event \in log : /\ 0 <= event.uploaded /\ event.uploaded <= now
                          /\ event.time <= event.uploaded + MaxAhead
    /\ cursor # None => cursor <= now + MaxAhead

\* and an event that was neither fired nor history was not in the log when the
\* last poll was answered that looked back to it.
Waiting == {event \in log : event.dev \in deviceIds /\ Key(event) \notin fired \cup history}

TimelyWait ==
    \A event \in Waiting :
        event.time >= event.uploaded + MaxAhead - Overlap =>
            /\ cursor # None => cursor <= event.uploaded + MaxAhead
            /\ ~ Polling => due <= event.uploaded + PollGap
            /\ Polling => poll.began <= event.uploaded + PollGap
            /\ poll.status = "answered" /\ event \notin poll.answer =>
                   /\ poll.began <= event.uploaded
                   /\ \A other \in poll.answer : other.time <= event.uploaded + MaxAhead

LateWait ==
    \A event \in Waiting :
        event.time >= event.uploaded + CatchUpGap - Lookback =>
            /\ LastCatchUp <= event.uploaded
            /\ poll.status = "answered" /\ poll.catchUp /\ event \notin poll.answer =>
                   poll.began <= event.uploaded

TimedInvariant ==
    /\ PollsKeepComing
    /\ CatchUpsAreDue
    /\ AllIsTold
    /\ NotAhead
    /\ TimelyWait
    /\ LateWait
=============================================================================
