------------------------------ MODULE LockEntity ------------------------------
(***************************************************************************)
(* What a lock's entity shows (BoldLock, with the door sensor it may be    *)
(* linked to), against what happens at the lock.  The entity hears of it   *)
(* from three sides that are not in step: the events the event coordinator *)
(* hands on, the device coordinator's polls, and the results of its own    *)
(* commands.  The lock stamps its reports with its own clock.              *)
(*                                                                         *)
(* The entity's attributes are one record, `lock`, and its methods are     *)
(* operators on it.  Home Assistant runs one command of a lock at a time   *)
(* (PARALLEL_UPDATES); how a command finds a route to the lock is left     *)
(* out, and so are availability, changed_by and the refresh that follows   *)
(* a first bolt report.                                                    *)
(***************************************************************************)
EXTENDS Integers, FiniteSets

CONSTANTS
    Settings,           \* the locks, clocks and hazards to explore: see Setting
    Duration,           \* how long an activation lasts
    KeepDuration,       \* how long one that is kept active lasts
    Latency,            \* the longest a command takes
    None

\* What else may happen; each setting says which of it does.
Hazards == {"keepActive",   \* activations that last longer than usual
            "miss",         \* the lock misses being turned
            "door",         \* the door has a linked sensor
            "commands",     \* Home Assistant commands the lock
            "others",       \* so do people, by app or button
            "overlap",      \* also while a command of Home Assistant is under way
            "reorder",      \* events come in any order, as when a push is lost
            "stale",        \* the lock acts while a device poll is under way
            "pollFails", "refire", "commandFails", "commandCrashes", "restart"}

\* A setting: whether the lock has locked status, and it is turned on; how far
\* its clock runs ahead of the others; and, as bounds, the last moment explored
\* and the number of its events.
Setting == [reportsBolt : BOOLEAN, skew : Int, hazards : SUBSET Hazards,
            maxTime : Nat, maxEvents : Nat]

ASSUME SettingsAreSettings == Settings \subseteq Setting

ASSUME TimesAreNaturals ==
    /\ Latency \in Nat
    /\ {Duration, KeepDuration} \subseteq Nat \ {0}
    /\ Duration <= KeepDuration

ASSUME NoneIsNoTime == None \notin Int

-----------------------------------------------------------------------------
VARIABLES
    setting,
    now,
    (* the lock *)
    bolt,           \* where the bolt is
    turnedAt,       \* when it was last turned
    missed,         \* it was turned unnoticed: neither reported, nor seen by the door
    endsAt,         \* when its activation ends, or ended
    (* Bold *)
    server,         \* what Bold last heard of the lock, for the device poll
    unread,         \* events in its log that Home Assistant has not had
    logged,         \* how many there were
    lost,           \* of the last turn and end, which Home Assistant took for known
    (* Home Assistant *)
    device,         \* the lock in the device coordinator's data
    reading,        \* what a device poll under way is going to return
    events,         \* the event coordinator's data
    starting,       \* the entry is being set up: devices were polled, events are yet to be
    command,        \* the command under way
    lock,           \* the entity
    shown           \* its state, as last written

world == <<bolt, turnedAt, missed, endsAt>>
bold == <<server, unread, logged, lost>>
polls == <<device, reading, events, starting>>
entity == <<lock, shown>>
vars == <<setting, now, world, bold, polls, command, entity>>

ReportsBolt == setting.reportsBolt
Skew == setting.skew
Environment == setting.hazards
MaxTime == setting.maxTime
MaxEvents == setting.maxEvents

Bolts == {"locked", "unlocked"}
Times == Int \cup {None}

Report == [bolt : Bolts \cup {"unknown"}, changed : Times, until : Times]

BoltReports == Bolts
Event == [id : Nat, kind : BoltReports \cup {"activation", "deactivation"}, time : Int,
          keep : Times]

NoCommand == [kind |-> "none", began |-> 0, executed |-> FALSE]

-----------------------------------------------------------------------------
(* The entity's attributes, and what they come to                          *)

NewLock(opened) ==
    [bolt |-> "unknown", changed |-> None,            \* _bolt_locked, _bolt_changed
     since |-> None, until |-> None,                  \* _activated_at, _active_until
     startBolt |-> "unknown",                         \* _activation_bolt
     progress |-> "none",                             \* _attr_is_unlocking, _attr_is_locking
     expiry |-> None,                                 \* _unsub_expiry
     opened |-> opened]                               \* _door.opened_at

IsActive(l) == l.until # None /\ now < l.until

\* The bolt as last reported, unless the door opened since it was locked.
Bolt(l) ==
    IF /\ l.bolt = "locked"
       /\ l.opened # None
       /\ l.changed = None \/ l.opened > l.changed
    THEN "unlocked" ELSE l.bolt

KnowsBolt(l) == ReportsBolt /\ l.bolt # "unknown"

WaitingToTurn(l, from) ==
    KnowsBolt(l) /\ IsActive(l) /\ l.startBolt = from /\ Bolt(l) = from

IsLocked(l) == IF KnowsBolt(l) THEN Bolt(l) = "locked" ELSE ~ IsActive(l)

\* The state Home Assistant derives from is_locking, is_unlocking and is_locked.
State(l) ==
    CASE l.progress = "locking" \/ WaitingToTurn(l, "unlocked") -> "locking"
      [] l.progress = "unlocking" \/ WaitingToTurn(l, "locked") -> "unlocking"
      [] IsLocked(l) -> "locked"
      [] OTHER -> "unlocked"

\* async_write_ha_state
Write == shown' = State(lock')

MutatedScheduleExpiry(l) == l

ScheduleExpiry(l) == [l EXCEPT !.expiry = IF IsActive(l) THEN l.until ELSE None]

SetActive(l, start, until) ==
    ScheduleExpiry([l EXCEPT !.startBolt = IF IsActive(l) THEN @ ELSE Bolt(l),
                             !.since = start, !.until = until])

SetInactive(l, at) == [l EXCEPT !.until = at, !.expiry = None]

MutatedUpdateBolt(l, position, changed) ==
    IF position = "unknown" THEN l ELSE [l EXCEPT !.bolt = position, !.changed = changed]

\* A bolt position, unless the one known is newer.
UpdateBolt(l, position, changed) ==
    IF \/ position = "unknown"
       \/ changed # None /\ l.changed # None /\ changed < l.changed
    THEN l
    ELSE [l EXCEPT !.bolt = position, !.changed = IF changed = None THEN @ ELSE changed]

\* _update_from_device: what the device poll says of the bolt and an activation.
UpdateFromDevice(l, report) ==
    LET known == UpdateBolt(l, report.bolt, report.changed)
    IN  IF /\ report.until # None
           /\ report.until > now
           /\ known.until = None \/ report.until > known.until
        THEN SetActive(known, now, report.until)
        ELSE known

Later(a, b) == IF b = None \/ a >= b THEN a ELSE b

MutatedTimeNoLaterThanNow(event) == event.time

\* A report can't be from later than it arrived.
TimeNoLaterThanNow(event) == IF event.time <= now THEN event.time ELSE now

ApplyEvent(l, event) ==
    LET time == TimeNoLaterThanNow(event)
        until == Later(time + Duration, event.keep)
    IN  CASE event.kind \in BoltReports -> UpdateBolt(l, event.kind, time)
          [] event.kind = "activation" ->
                 IF l.until = None \/ until > l.until THEN SetActive(l, time, until) ELSE l
          [] event.kind = "deactivation" ->
                 IF l.since = None \/ time >= l.since THEN SetInactive(l, time) ELSE l

MutatedInOrder(batch, n) == {event \in batch : event.id = logged + 1 - n}

\* The coordinator hands on events oldest first: the n-th there was comes n-th.
InOrder(batch, n) == {event \in batch : event.id = n}

\* The lock after the first n events, of those that are handed on.
After(batch) ==
    LET after[n \in 0..logged] ==
            IF n = 0 THEN lock
            ELSE IF InOrder(batch, n) = {} THEN after[n - 1]
            ELSE ApplyEvent(after[n - 1], CHOOSE event \in InOrder(batch, n) : TRUE)
    IN  after

\* _handle_events_update: every event applied changes what is shown.
ApplyEvents(batch) ==
    /\ lock' = After(batch)[logged]
    /\ Write

-----------------------------------------------------------------------------
(* What happens at the lock.  It reports it to Bold, with its own time.    *)

Stamp == now + Skew

Reports(kind, keep) ==
    /\ logged < MaxEvents
    /\ logged' = logged + 1
    /\ unread' = unread \cup {[id |-> logged', kind |-> kind, time |-> Stamp, keep |-> keep]}
    /\ lost' = lost \ {IF kind \in BoltReports THEN "turn" ELSE "end"}
    /\ server' = CASE kind \in BoltReports -> [server EXCEPT !.bolt = kind, !.changed = Stamp]
                   [] kind = "activation" -> [server EXCEPT !.until = endsAt']
                   [] kind = "deactivation" -> [server EXCEPT !.until = None]

\* Without "stale", nothing happens between the answer to a device poll and its arrival.
Calm == reading = None \/ "stale" \in Environment

Opposite(position) == IF position = "locked" THEN "unlocked" ELSE "locked"

\* Someone turns the bolt; the lock times that to the second.
Turn(noticed) ==
    /\ Calm
    /\ ReportsBolt
    /\ turnedAt < now
    /\ bolt' = Opposite(bolt)
    /\ turnedAt' = now
    /\ missed' = ~ noticed
    /\ IF noticed THEN Reports(bolt', None) ELSE UNCHANGED bold
    /\ UNCHANGED <<setting, now, endsAt, polls, command, entity>>

TurnNoticed == Turn(TRUE)

TurnMissed ==
    /\ "miss" \in Environment
    /\ Turn(FALSE)

\* The door can't open with the bolt thrown.  Its sensor shows that at once, to
\* an entity that there is.
DoorOpens ==
    /\ "door" \in Environment
    /\ ~ starting
    /\ bolt = "unlocked"
    /\ lock.opened # now
    /\ missed' = FALSE
    /\ lost' = lost \ {"turn"}
    /\ lock' = [lock EXCEPT !.opened = now]
    /\ Write
    /\ UNCHANGED <<setting, now, bolt, turnedAt, endsAt, server, unread, logged, polls, command>>

\* The lock is activated, or an activation of it is ended.  One that is kept
\* active says until when, in Bold's time.
Activate(keep) ==
    /\ Calm
    /\ endsAt' = now + (IF keep THEN KeepDuration ELSE Duration)
    /\ Reports("activation", IF keep THEN endsAt' ELSE None)

Deactivate ==
    /\ Calm
    /\ now < endsAt
    /\ endsAt' = now
    /\ Reports("deactivation", None)

SomeoneActs ==
    /\ "others" \in Environment
    /\ command = NoCommand \/ "overlap" \in Environment
    /\ \/ Activate(FALSE)
       \/ "keepActive" \in Environment /\ Activate(TRUE)
       \/ Deactivate
    /\ UNCHANGED <<setting, now, bolt, turnedAt, missed, polls, command, entity>>

-----------------------------------------------------------------------------
(* Polls and pushes                                                        *)

\* The event coordinator hands on new events, of a poll or a push.
ReadEvents ==
    /\ ~ starting
    /\ \E batch \in (SUBSET unread) \ {{}} :
           /\ batch = unread \/ "reorder" \in Environment
           /\ unread' = unread \ batch
           /\ events' = IF "refire" \in Environment THEN batch ELSE {}
           /\ ApplyEvents(batch)
    /\ UNCHANGED <<setting, now, world, server, logged, lost, device, reading, starting, command>>

\* An event poll fails: its listeners are handed the same events again.
EventPollFails ==
    /\ "refire" \in Environment
    /\ ~ starting
    /\ events # {}
    /\ ApplyEvents(events)
    /\ UNCHANGED <<setting, now, world, bold, polls, command>>

\* Bold answers a device poll,
DevicePollAnswered ==
    /\ ~ starting
    /\ reading = None
    /\ reading' = server
    /\ UNCHANGED <<setting, now, world, bold, device, events, starting, command, entity>>

\* and later the answer arrives.
DevicePollArrives ==
    /\ reading # None
    /\ device' = reading
    /\ reading' = None
    /\ lost' = lost \ {"turn"}
    /\ lock' = UpdateFromDevice(lock, device')
    /\ Write
    /\ UNCHANGED <<setting, now, world, server, unread, logged, events, starting, command>>

\* A failed poll has the entity look at what it had once more.
DevicePollFails ==
    /\ "pollFails" \in Environment
    /\ ~ starting
    /\ reading' = None
    /\ lock' = UpdateFromDevice(lock, device)
    /\ Write
    /\ UNCHANGED <<setting, now, world, bold, device, events, starting, command>>

-----------------------------------------------------------------------------
(* Commands                                                                *)

\* _async_send_showing_progress begins: activating an unlocked bolt is locking it.
Send(kind) ==
    /\ command' = [kind |-> kind, began |-> now, executed |-> FALSE]
    /\ lock' = [lock EXCEPT !.progress =
                   IF kind = "activate" /\ ~ (KnowsBolt(lock) /\ Bolt(lock) = "unlocked")
                   THEN "unlocking" ELSE "locking"]
    /\ Write
    /\ UNCHANGED <<setting, now, world, bold, polls>>

MayCommand == "commands" \in Environment /\ ~ starting /\ command = NoCommand

\* async_unlock
Unlock == MayCommand /\ Send("activate")

\* async_lock: an unlocked bolt is readied to be turned, if it is not already;
\* an activation of another lock is ended.  Otherwise there is nothing to do.
Lock ==
    /\ MayCommand
    /\ \/ KnowsBolt(lock) /\ Bolt(lock) = "unlocked" /\ ~ IsActive(lock) /\ Send("activate")
       \/ ~ (KnowsBolt(lock) /\ Bolt(lock) = "unlocked") /\ IsActive(lock) /\ Send("deactivate")

\* The command reaches the lock.
CommandExecutes ==
    /\ command # NoCommand /\ ~ command.executed
    /\ command' = [command EXCEPT !.executed = TRUE]
    /\ \/ command.kind = "activate" /\ Activate(FALSE)
       \/ command.kind = "deactivate" /\ Deactivate
       \/ command.kind = "deactivate" /\ now >= endsAt /\ UNCHANGED <<endsAt, bold>>
    /\ UNCHANGED <<setting, now, bolt, turnedAt, missed, polls, entity>>

\* Its result arrives.
CommandSucceeds ==
    /\ command.executed
    /\ command' = NoCommand
    /\ LET idle == [lock EXCEPT !.progress = "none"]
       IN  lock' = IF command.kind = "activate" THEN SetActive(idle, now, now + Duration)
                   ELSE SetInactive(idle, now)
    /\ Write
    /\ UNCHANGED <<setting, now, world, bold, polls>>

\* It fails, before or after it reached the lock: a HomeAssistantError.
CommandFails ==
    /\ "commandFails" \in Environment
    /\ command # NoCommand
    /\ command' = NoCommand
    /\ lock' = [lock EXCEPT !.progress = "none"]
    /\ Write
    /\ UNCHANGED <<setting, now, world, bold, polls>>

\* It raises something else, such as a timeout of the connection to Bold:
\* only the finally clause runs, which writes no state.
CommandCrashes ==
    /\ "commandCrashes" \in Environment
    /\ command # NoCommand
    /\ command' = NoCommand
    /\ lock' = [lock EXCEPT !.progress = "none"]
    /\ UNCHANGED <<setting, now, world, bold, polls, shown>>

-----------------------------------------------------------------------------
(* Time and restarts                                                       *)

\* _expired: the activation ends.
Expired ==
    /\ lock.expiry # None
    /\ lock.expiry <= now
    /\ lock' = [lock EXCEPT !.expiry = None]
    /\ Write
    /\ UNCHANGED <<setting, now, world, bold, polls, command>>

\* Home Assistant restarts, or tries again.  Setup polls the devices first.  Of
\* the entity there was, when the door last opened is stored.
Restart ==
    /\ "restart" \in Environment
    /\ device' = server
    /\ reading' = None
    /\ starting' = TRUE
    /\ command' = NoCommand
    /\ lock' = NewLock(lock.opened)
    /\ Write
    /\ UNCHANGED <<setting, now, world, bold, events>>

\* Then it polls the events, takes those that there are as known, and adds the
\* entity.  What was reported between the two polls is in neither.
SetUp ==
    /\ starting
    /\ starting' = FALSE
    /\ unread' = {}
    /\ events' = {}
    /\ lost' = {what \in {"turn"} : device.changed # server.changed}
                \cup {what \in {"end"} : device.until # None /\ server.until = None}
    /\ lock' = UpdateFromDevice(lock, device)
    /\ Write
    /\ UNCHANGED <<setting, now, world, server, logged, device, reading, command>>

Tick ==
    /\ now < MaxTime
    /\ lock.expiry # None => now < lock.expiry
    /\ command # NoCommand => now < command.began + Latency
    /\ now' = now + 1
    /\ UNCHANGED <<setting, world, bold, polls, command, entity>>

\* The exploration ends at MaxTime, once every command has ended.
Ended ==
    /\ now = MaxTime
    /\ command = NoCommand
    /\ UNCHANGED vars

-----------------------------------------------------------------------------
Init ==
    /\ setting \in Settings
    /\ now = 0
    /\ bolt \in Bolts
    /\ turnedAt = -1
    /\ missed = FALSE
    /\ endsAt = 0
    /\ server = [bolt |-> IF ReportsBolt THEN bolt ELSE "unknown",
                 changed |-> IF ReportsBolt THEN turnedAt + Skew ELSE None, until |-> None]
    /\ unread = {}
    /\ logged = 0
    /\ lost = {}
    /\ device = server
    /\ reading = None
    /\ events = {}
    /\ starting = FALSE
    /\ command = NoCommand
    /\ lock = UpdateFromDevice(NewLock(None), device)
    /\ shown = State(lock)

Next ==
    \/ TurnNoticed \/ TurnMissed \/ DoorOpens \/ SomeoneActs
    \/ ReadEvents \/ EventPollFails
    \/ DevicePollAnswered \/ DevicePollArrives \/ DevicePollFails
    \/ Unlock \/ Lock
    \/ CommandExecutes \/ CommandSucceeds \/ CommandFails \/ CommandCrashes
    \/ Expired \/ Restart \/ SetUp \/ Tick \/ Ended

Spec == Init /\ [][Next]_vars

-----------------------------------------------------------------------------
(* Properties                                                              *)

States == {"locked", "unlocked", "locking", "unlocking"}

LockType == [bolt : Bolts \cup {"unknown"}, changed : Times, since : Times, until : Times,
             startBolt : Bolts \cup {"unknown"}, progress : {"none", "locking", "unlocking"},
             expiry : Times, opened : Times]

\* Every variable has its type.
TypeOK ==
    /\ setting \in Settings
    /\ now \in Nat
    /\ bolt \in Bolts /\ turnedAt \in Int /\ missed \in BOOLEAN /\ endsAt \in Int
    /\ server \in Report /\ unread \subseteq Event /\ logged \in Nat
    /\ lost \subseteq {"turn", "end"}
    /\ device \in Report /\ reading \in Report \cup {None} /\ events \subseteq Event
    /\ starting \in BOOLEAN
    /\ command \in [kind : {"none", "activate", "deactivate"}, began : Nat, executed : BOOLEAN]
    /\ lock \in LockType
    /\ shown \in States

\* What is shown is what the entity would show now: nothing it shows changes
\* without being written, except as its timer is just about to fire.
ShowsWhatItKnows ==
    \/ shown = State(lock)
    \/ lock.expiry # None /\ lock.expiry <= now

\* So it is, whatever happens, unless a command raises what is no
\* HomeAssistantError (see CommandCrashes).
ShownIsCurrent == "commandCrashes" \in Environment \/ ShowsWhatItKnows

\* Once every report of a turn arrived, by event or device poll and in any
\* order, the entity knows the bolt: unless the lock missed being turned, and
\* the door has not opened since to show that ("Take a bolt position, unless
\* an already known one is newer").  A turn reported between the two first polls
\* of setup arrives by the next device poll only.
BoltIsKnown ==
    /\ ReportsBolt
    /\ ~ starting
    /\ ~ missed
    /\ "turn" \notin lost
    /\ \A event \in unread : event.kind \notin BoltReports
    => Bolt(lock) = bolt

\* So it does, whatever the order in which all that arrives, if the lock's clock
\* is right.
BoltSettles == Skew # 0 \/ BoltIsKnown

\* No activation, of whatever clock, is shown to have more left of it than the
\* longest there are ("Locks whose clock runs ahead no longer show as unlocked
\* for longer than an activation lasts"), nor when people act while a command
\* of Home Assistant is under way.
NoLongerThanAnActivation == lock.until # None => lock.until <= now + KeepDuration

\* When all that happened arrived, the lock is shown activated only while it
\* is: what was ended early stays ended.  (A result that took a while to arrive
\* dates its activation that much too late.)  That it was ended never arrives if
\* it was reported between the two first polls of setup.
ActivationIsKnown ==
    /\ unread = {}
    /\ command = NoCommand
    /\ "end" \notin lost
    /\ IsActive(lock)
    => now < endsAt + Latency

\* What can bring an activation back that was ended: see the README.
Revives == {"reorder", "overlap", "stale", "pollFails"}

\* So it is, if the lock's clock is right, events come in order, nobody else acts
\* while a command is under way, and no device poll fails or arrives late.
ActivationSettles == Skew # 0 \/ Environment \cap Revives # {} \/ ActivationIsKnown

(* What every step keeps, and those follow from.                           *)

\* The timer is set for as long as an activation is shown.
ActiveExpires == IsActive(lock) => lock.expiry = lock.until

Read == unread \cup events

\* The events Home Assistant has or will have, by their IDs.
EventsAreNumbered ==
    /\ \A event \in Read : event.id \in 1..logged
    /\ \A e, f \in Read : e.id = f.id => e = f

\* What the device poll says or is going to say.
Readings == {server, device} \cup ({reading} \ {None})

\* Nobody says of an activation that it has more left of it than the longest.
NothingLastsLonger ==
    /\ endsAt <= now + KeepDuration
    /\ \A report \in Readings : report.until # None => report.until <= now + KeepDuration
    /\ \A event \in Read : event.keep # None => event.keep <= now + KeepDuration

\* A report of the bolt: of the last turn, it is right, and none is from later.
IsOfBolt(position, at) ==
    position \in Bolts /\ at # None /\ at <= turnedAt /\ (at = turnedAt => position = bolt)

\* The door has opened since the bolt was turned.
DoorShows == bolt = "unlocked" /\ lock.opened # None /\ lock.opened >= turnedAt

\* What is said of the bolt, and is still to be heard.
TurnsAreReported ==
    /\ turnedAt <= now
    /\ \A report \in Readings : IsOfBolt(report.bolt, report.changed)
    /\ \A event \in Read : event.kind \in BoltReports => IsOfBolt(event.kind, event.time)

\* What the entity heard of it; a locked door did not open.
BoltWasReported ==
    /\ IF starting THEN lock.changed = None ELSE IsOfBolt(lock.bolt, lock.changed)
    /\ lock.opened # None => lock.opened <= now /\ (bolt = "locked" => lock.opened <= turnedAt)

LastTurnArrives ==
    \/ missed
    \/ DoorShows
    \/ /\ server.changed = turnedAt
       /\ \/ starting
          \/ "turn" \in lost
          \/ lock.changed = turnedAt
          \/ \E event \in unread : event.kind \in BoltReports /\ event.time = turnedAt

\* A turn that was lost is what the next device poll says.
LostTurnIsRead ==
    /\ starting => reading = None
    /\ "turn" \in lost => reading = None \/ reading.changed = server.changed

BoltInvariant ==
    Skew = 0 /\ ReportsBolt =>
        TurnsAreReported /\ BoltWasReported /\ LastTurnArrives /\ LostTurnIsRead

\* The last activation was ended, or there was none.
Deactivated == server.until = None

\* What ended it is later than all activations.
IsEnd(event) ==
    /\ event.kind = "deactivation" /\ event.time = endsAt
    /\ \A e \in Read : e.kind = "activation" => e.id < event.id

\* The lock is not shown activated for longer than it is.
IsOver(l) == l.until = None \/ l.until <= now \/ l.until <= endsAt + Latency

\* A command is answered in time; one that activated the lock was not ended since.
CommandInTime ==
    /\ command # NoCommand => command.began <= now /\ now <= command.began + Latency
    /\ command.kind = "activate" /\ command.executed =>
           ~ Deactivated /\ command.began + Duration <= endsAt

\* Nothing that is said is from later, or older than what was heard.
ReportsInTime ==
    /\ endsAt <= now + Duration /\ server.until \in {None, endsAt} /\ reading \in {None, server}
    /\ device.until # None =>
           device.until <= now + Duration /\ (~ Deactivated => device.until <= endsAt)
    /\ \A e \in Read : e.time <= now /\ e.keep = None
    /\ \A e \in events, f \in unread : e.id < f.id

\* While the entry is set up, nothing is under way and no activation is shown.
SetUpIsQuiet ==
    starting => reading = None /\ command = NoCommand /\ lock.since = None /\ lock.until = None

LockInTime ==
    /\ lock.since # None => lock.since <= now
    /\ lock.until # None => lock.until <= now + Duration

\* That the last activation was ended is known, still to be heard, or lost.
EndArrives ==
    Deactivated =>
        /\ endsAt <= now
        /\ lock.since = None \/ lock.since <= endsAt \/ "end" \in lost
        /\ \A e \in Read : e.kind = "activation" => e.time <= endsAt
        /\ (\E e \in Read : e.kind = "activation") => \E e \in Read : IsEnd(e)
        /\ IsOver(lock) \/ "end" \in lost \/ \E e \in unread : IsEnd(e)

\* Until it is ended, it lasts longer than whatever was said.
ActivationLasts ==
    ~ Deactivated =>
        /\ \A e \in Read : e.kind = "activation" => e.time + Duration <= endsAt
        /\ IsOver(lock)

\* What no setting that revives an activation, nor one that keeps it longer, has.
Orderly == Skew = 0 /\ Environment \cap (Revives \cup {"keepActive"}) = {}

ActivationInvariant ==
    Orderly =>
        CommandInTime /\ ReportsInTime /\ LockInTime /\ EndArrives /\ ActivationLasts
=============================================================================
