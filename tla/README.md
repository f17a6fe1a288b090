# A verification of ha-bold

ha-bold is a Home Assistant integration for Bold smart locks. It learns what
happens at a lock from several sides that are not in step - polls of Bold's
event log, events that Bold pushes, polls of the device list, results of its own
commands, Bluetooth advertisements, a contact sensor on the door - and it sends
commands over three routes. This directory models the parts where that is hard
in TLA+, checks them with TLC on small instances, and proves with TLAPS, for
every value of the constants, what they promise, but for liveness.

Paths below are relative to `src/custom_components/bold/`.

    tlc -workers 2 -config EventsOnce.cfg MCEventCoordinator    # a run
    tlapm EventCoordinatorProofs.tla                            # its proofs

## The system

Everything runs on Home Assistant's event loop: code is atomic from one `await`
to the next, and whatever else is scheduled may run at each. So an action of the
models is what happens between two awaits (or one callback), and what an
operation knows across an await is a variable.

| component | state | operations | talks to | hard about it | correct if |
|---|---|---|---|---|---|
| Event coordinator and listeners (`coordinator.py`, `event.py`) | `_cursor`, `_seen`, `_primed`, `_last_catch_up`, `push_active`, `update_interval`, `data` | poll, catch-up, push, set push active | Bold's log; event entities and locks as listeners; device sync | a push during a poll; duplicates by two ways; late uploads; clocks; failed polls announced; devices that come and go | every event is reported and fired once; history never; late events are found |
| Lock entity (`lock.py`) | `_bolt_locked`, `_bolt_changed`, `_activated_at`, `_active_until`, `_activation_bolt`, in-progress flags, timer | apply events and device polls, lock, unlock, expire, restart | both coordinators, its own commands, the door sensor | three sources out of step; stale answers; two clocks; the timer | it shows what is so once everything arrived, and always what it would show now |
| Door sensor (`door.py`) | `opened_at`, `_was_open`, stored extra data | start, sensor changes, save, restore | the sensor's state, restore state | unavailable and unknown sensors; restarts, crashes; relinking | an opening counts, is dated safely, and is not forgotten |
| Push registration (`push.py`) | webhooks at Bold; stored IDs | register, cancel, remove | Bold's API; the event coordinator | a task of many awaits cancelled or failing anywhere; lost answers; changed URLs | one webhook per organization, no others touched |
| Command routes (`lock.py`, `unlock.py`, `boldsmartlock/ble.py`) | `_bluetooth_lock`, `_disconnecting` | send by Connect or Bluetooth, fall back, disconnect later | Bold's API, the Bluetooth stack | what is usable changes; errors of any kind; a connection still closing | no two connections; the other way is tried; commands end |
| Bluetooth tracker (`tracker.py`) | addresses, callbacks, reachable, last seen | advertisement, unavailable, reload | Bluetooth stack; routes; issues; entities | callbacks of old addresses; every way to the lock has to be announced | heard means reachable, silent means not; shown as available if there is a way |
| Repair issues (`issues.py`) | issue registry | check at each device poll | all of the above | "for an hour" across polls and reloads | told of when it applies, and cleared when fixed, also for missing sensors and links without effect |
| Bluetooth keys (`keys.py`) | `_keys`, store | refresh, load | Bold's API, storage | partial failures; a refresh cut between memory and store | valid keys are never lost |
| Device coordinator and device sync (`coordinator.py`, `__init__.py`, `boldsmartlock/client.py`) | device list, `connect_device_ids`, device registry | paged poll, sync, setup and its retries, unload | everything | devices that change between pages; the order of its listeners | registry follows the account; a device is found; locks are linked to their Connect |
| Entity creation (`entity.py` and the platforms) | unique IDs added for each device | add new entities at each poll | device sync | one listener removes what another forgets and adds again | each device has what its features call for, added once |
| Links (`links.py`, `config_flow.py`) | `door_sensors` as set up, entity IDs followed, titles | link, relink, unlink, rename, reload | registries, locks' entities, config entry | links and entity IDs that change while the entry is set up or not running | links take effect; titles follow |
| Bluetooth session (`boldsmartlock/ble.py`) | buffer, reply queue, cipher and its counter | packets in and out, handshake, command, disconnect | the lock | split packets, events in between, odd replies, ciphers in step, time that runs out | replies are what was sent; results are real; it disconnects |
| Sensors, other entities, config flow, diagnostics, payloads | little or none | | | see "Not modelled" | |

## The modules

Each component has a module (`X.tla`), an `MCX.tla` that instantiates it for
TLC where that takes more than a configuration gives, and what is proved of it in
`XProofs.tla`. All are parameterised by `Environment`, a subset of the module's named
`Hazards`: what the environment may do (fail, reload, reorder...). A run names
its hazards, so a property that needs one left out says so in its configuration,
and the theorem in its assumption. `Mutated...` operators are plausible bugs of
the definition that follows them; each property of a run is known to fail when
one of them takes its definition's place.

**EventCoordinator.** `log` is Bold's log; an event is its device, type and
time, as `BoldEvent.key` has it, and when it was uploaded. A poll is `StartPoll`
(up to the await: which devices, since when, whether it is a catch-up),
`ServerAnswers` (Bold reads its log) and one of `PollSucceeds`, `PollForbidden`,
`PollFails`, `PollAuthFails`; `PollNothing` is a poll without devices.
`HandlePush` is the webhook. `Accept` is `_accept`: new keys, the cursor, the
horizon at which keys are forgotten. `Fail`, `Succeed` and `due` are Home
Assistant's DataUpdateCoordinator as the code uses it: its schedule, and that it
announces its data again when it starts to fail or recovers. `Reload` makes a
fresh coordinator. `FireNothing` and `Fire` are the event entities. Ghosts record what was reported and fired, and what was in a
device's log when it was first polled.

**EventFeed.** What the coordinator promises, without how: an event is logged as
new, and becomes old (its device is followed, and it was there before) or
reported, once. EventCoordinator implements it: `Feed` is EventFeed with `feed`
as each logged key's `Standing`, and `FeedImplemented` is its specification as a
property. A history replayed, a second report or a first report of something
already known is a step EventFeed does not have.

**LockEntity.** The entity's attributes are the record `lock`, its methods are
operators on it with the names of the code (`UpdateBolt`, `UpdateFromDevice`,
`ApplyEvent`, `SetActive`...), and `shown` is the state last written. Around it
are the lock itself (`bolt`, `endsAt`), what Bold last heard of it (`server`),
events on their way (`unread`), a device poll under way (`reading`), and a command
under way. The lock's clock is `Skew` ahead of everyone else's. A `Setting` is
chosen at the start: the kind of lock, the clock, the hazards and the bounds; so
one run explores several combinations, each small. Events have their number as
ID, and a batch of them is applied in that order (`After`), as the code sorts it.
A restart is two steps, as its two first polls are two awaits: `Restart` polls the
devices, `SetUp` the events, which it takes for history, and adds the entity. A
turn or an end that is reported in between is in neither poll; `lost` says so
until it is heard of otherwise.

**DoorSensor.** `async_start` is `Load`, its callback is `Report`, `as_dict` is
`AsDict`. Home Assistant saves it now and then (`Dump`), when it stops and when
the entity is removed (`Unload`); a `Crash` saves nothing. The sensor is on, off,
unavailable, unknown or absent, each since some time.

**PushRegistration.** The task of `_async_register_with_bold`, a request at a
time: list, delete duplicates, update or create, then store. What it asks for
next is `Asked`, what Bold does of it `CarriesOut`. A request fails before or
after Bold carried it out, or the task is cancelled (`Unloaded`) while it waits
for the answer. What was asked for and given up is then in `late` (`GivesUp`), and
Bold may carry it out at any later time, also while the next task runs
(`LateArrives`): `disturbed` has the organizations it changed after that task had
listed their webhooks.

**LockCommand.** `_async_send` and the routes: the request to Bold, and the
steps of the Bluetooth conversation up to the confirmation, the disconnect that
goes on in the background, and the next command that awaits it. All of it is of
an entity (`Entities`), of which a reload adds one, at any step: the command of the
old one goes on, beside those of the new one, which has a lock and a
`_disconnecting` of its own; and the background disconnect, a task of the config
entry's, is cancelled, which leaves the connection `abandoned` to the Bluetooth
stack. What `LockEntity` sees of this is that a command executes or not, and succeeds, fails
or raises.

**BleSession.** The Bluetooth conversation in detail, both sides of it:
`data_received` over notifications cut anywhere, events among the replies, the
queue from which `_call` takes whatever comes next, the handshake and the
command. A byte carries the key stream it is encrypted by, a set that a second
exclusive or empties, so two ciphers that are out of step are seen to be. The
lock may refuse, repeat itself or answer with something else. `Conversation` is
LockCommand with `step`, `executed`, the links and the background disconnect
defined from this module's variables, and ConversationFollowed says that every
step of BleSession is one of LockCommand's or none to it. `SessionSpec` is its
specification (`SessionInit`, `SessionNext`, `SessionTypeOK`), so that its proofs
share a module with BluetoothTracker's.

**DeviceSync.** The account's devices, the pages of a poll (`PageArrives`,
`PollSucceeds`), `Sync` (`_async_sync_devices`) and `AddNewEntities`
(`async_add_device_entities`) with `Wanted`, what each platform creates for a
device's `Profile`. It has no next-state relation of its own.

**DoorLinks** extends DeviceSync, in the manner of layers of one specification:
links as subentries of the entry, `Found` (`async_follow_links`), titles
(`Retitled`), the entry's update listener (`Reloads`), what each lock's entity
follows (`Listen`), and all repair issues but the one of the range
(`CheckIssues`). Its actions conjoin those of DeviceSync with what the same code
does to the links: `SetupBegins` and `DevicesArrive` are `async_setup_entry` up to its
first polls, `AddEntities` the platforms, with which each lock's entity looks up
its sensor's entity ID, and `SetUp` what follows, in which the follower looks it
up again; `DevicesArrive` is also a poll's listeners in their order. `outrun` has
the locks whose sensor was given another ID between those two.

**BluetoothTracker.** A lock's advertisements from changing addresses, the
stack's word that an address is gone, and the issue `lock_out_of_range`. `shown`
is the availability last written, of the lock and of its signal sensor; what
writes it is what the code's listeners hear of: the tracker, the keys once
saved, the method, a device poll. The select restores the method that was chosen,
unless a failed poll had left it unavailable as the entry was reloaded.

**BluetoothKeys.** `async_refresh` with its two requests and its save, and
`async_load`. A key is when it expires.

Modules are composed by what they assume of each other: the webhook
registration of PushRegistration is `RegisterPush` in EventCoordinator; the
batches that EventCoordinator reports are `ReadEvents` in LockEntity, with its
failed polls as `EventPollFails`; the outcome of LockCommand is
`CommandSucceeds`, `CommandFails` or `CommandCrashes`; what DoorSensor dates is
`lock.opened`; what BluetoothTracker and BluetoothKeys come to is `signal` and
`keys` in LockCommand; the devices of DeviceSync with activity are `deviceIds` in
EventCoordinator, and a link that takes effect in DoorLinks is `Relinked` in
DoorSensor.

## The runs

Time is in units small enough for intervals of one or two, keeping the order of
the real constants (overlap < look-back, scan < catch-up, and so on).

| run | properties | what it shows |
|---|---|---|
| EventsOnce | FiredOnce, HistoryNotReplayed, FeedImplemented | Two locks that join and leave, pushes, registration of push: each event is fired once, history is never reported, and the coordinator implements EventFeed. |
| EventsFailing | TypeOK, DeliveredOnce | One lock, and everything that may go wrong - failed, forbidden and unauthorized polls, reloads, an account without locks: no event is reported twice. |
| EventsCaught | TimelyUploadsFire, LateUploadsFire, CatchUpsKeepComing | Locks that upload late or whose clocks run ahead: every event fires by the poll, or the catch-up, that looks back to it. |
| LockSettles | ShownIsCurrent, NoLongerThanAnActivation, BoltSettles, ActivationSettles | Three settings: a bolt that reports, a clock ahead, commands that fail or raise or overlap with other people's; a bolt turned, with a linked door, stale and failed polls, events in any order and restarts; activations by commands and others, with restarts. What is shown is current, bounded, and right once all that arrives arrived. |
| DoorFollowed | DatedWhenLastClosed, OpeningCounts, NotForgotten | All hazards of the sensor and Home Assistant at once. |
| PushRegistered | OneWebhookEach, OthersLeftAlone | Two organizations and webhooks of others, with a cloudhook or without; failures, lost answers, reloads, requests carried out at any time after they were given up, changed external URLs, removal. |
| CommandRoutes | OneConnection, OtherWayTried, SuccessIsReal, EveryCommandEnds | Two commands, every method, anything usable changing in between, errors of any kind, time that runs out, a reload at any step. |
| SessionTalks | SessionTypeOK, Reassembled, Understood, ResultIsReal, ConversationFollowed | Every way to cut the notifications; two events; a wrong key, refusals, one odd reply, failures at any point, a disconnect that raises or is cut off. |
| RangeFollowed | SilentIsUnreachable, HeardIsReachable, ShownAsAvailable, ToldWhileSilent, ToldWhenPolled | Two addresses, reloads, also after failed polls, changed methods, keys and Connects. |
| EntryFollowed | DevicesShown, AddedOnce, TitlesFollow, FoundThroughout, LinkedToConnect, LinksTakeEffect, IssuesSettle | Three settings: two locks and a Connect that come, go and change over pages of two, with failures and reloads; a lock linked to either of two sensors, renamed, moved, also during a setup, disabled and deleted; an account beside another. |
| KeysLast | StoreAgrees, KeysOutlastFailures | Two locks; failed and partial answers, restarts that cut a refresh anywhere. |
| EventsRefired | FiredOnce, violated | A poll that fails after one that succeeded: see below. |

The type invariants of the modules that are not in the table are proved (see
below).

Bounds. `MaxTime`, `MaxEvents`, `MaxCommands`, `MaxReloads`, `MaxWebhooks`,
`MaxLate`, `MaxFailures` and `setting.changes` are the only bounds, each a guard of `Tick` or of the action it
bounds; `Ended` or `Over` is the stutter at the end, so that deadlock is checked
everywhere. They are enough for the cases the properties are about:

* EventsOnce, EventsFailing: `MaxTime` 4 and 5 with a look-back of 2 are more
  than two catch-ups, so keys are forgotten while older events may still be
  pushed (`MaxPushAge` 2). Two events are one that moves the cursor, and one that
  is looked at through it.
* EventsCaught: `MaxTime` 8 is one whole catch-up gap, with its latency, beyond
  the longest delay.
* LockSettles: activations last two units, and three more
  pass than a report takes. Two or three events are an activation, its end, and
  another; or two turns and a third.
* DoorFollowed: three units are closed, opened unseen, saved, and seen again.
* PushRegistered: three webhooks are one for each of two organizations, and a
  duplicate. One request that was given up is enough to create that, and to be
  carried out before, while or after another task lists it.
* CommandRoutes: the second command meets what the first left, of its own entity or
  of the one before the reload.
* SessionTalks: a block of the cipher is two bytes, and the messages are of one,
  two, three and four, so some end in the middle of a block; two events come
  before, within and after a reply.
* EntryFollowed: four changes are a device that leaves, returns and changes in a
  failed or half-read poll; or a link made, a sensor moved, a setup that fails,
  and the link changed. Three devices over pages of two are two pages.
* RangeFollowed: an hour is three units, a device poll one; nine are an hour out of range twice over, at two addresses.
* KeysLast: nine units are five refreshes and the expiry of the first keys.

Symmetry is used for devices, organizations and locks, which are
interchangeable in the modules; never with liveness.

### Fairness and timing

Liveness needs fairness in two modules. In LockCommand, `FairSpec` has weak
fairness of the command's own steps (`Proceeds`) and of the background
disconnect. The code justifies it: HTTP requests have the client session's
timeout, a Bluetooth conversation runs under `asyncio.timeout`
(`boldsmartlock/ble.py:250`), and Home Assistant's Bluetooth stack times out a
disconnect.

In DoorLinks, whose LinksTakeEffect and IssuesSettle are of the form "once the
user is done, always", `Fairness` has: a setup begins and its platforms are set
up (Home Assistant retries one that is not ready), device polls begin (every
`DEVICE_SCAN_INTERVAL`) and are in the end answered, a reload that was scheduled
happens, and the access token is refreshed now and then, which the code meets
whenever it expires. A poll that is answered is weak fairness of
`poll # None /\ poll' = None /\ success'`: failures are bounded, and pages go on.

Nothing is assumed of the environment, nor that commands or changes are ever
made.

Elsewhere "eventually" is stated with a deadline, as the code's own timers have
it: `Tick` does not pass the moment a timer is due or the `Latency` of a request
ends, and properties such as LateUploadsFire say by when.

## What is proved

A proof is for all constants that meet the module's ASSUMEs: any devices, locks,
organizations, addresses, intervals and latencies, and every bound (`MaxTime`,
`MaxCommands`...), however large. `Environment` is any set of hazards unless
the theorem has a hypothesis about it. The last column is a configuration with
that hazard in which TLC finds the property violated; they are described under
"Where code and documentation disagree".

| module | theorem | states | hypothesis | needed, as shown by |
|---|---|---|---|---|
| EventCoordinatorProofs | TypeCorrect | TypeOK | | |
| | ReportedOnce | DeliveredOnce | no `pushDuringPoll` | EventsPolledTwice |
| | HistoryNeverReplayed | HistoryNotReplayed | no `pushDuringPoll`, `noDevices` | EventsReplayed for `noDevices` |
| | CoordinatorIsFeed | FeedImplemented | no `pushDuringPoll`, `noDevices` | EventsPolledTwice, EventsReplayed |
| | AlwaysFiredOnce | FiredOnce | no `pushDuringPoll`, `fail`, `auth` | EventsRefired for `fail`, and the same with `auth` |
| | TimelyUploadsAlwaysFire, LateUploadsAlwaysFire | TimelyUploadsFire, LateUploadsFire | none but `register` | |
| | CatchUpsAlwaysKeepComing | CatchUpsKeepComing | none but `register` | EventsStarved for `push` |
| PushRegistrationProofs | PushTypeCorrect, OthersAlwaysLeftAlone | TypeOK, OthersLeftAlone | | |
| | AlwaysOneWebhookEach | OneWebhookEach | no `cloud` | PushCloud |
| DoorSensorProofs | DoorTypeCorrect, AlwaysDatedWhenLastClosed, OpeningsAlwaysCount, NeverForgotten | TypeOK, DatedWhenLastClosed, OpeningCounts, NotForgotten | | |
| LockCommandProofs | CommandTypeCorrect, OneConnectionAtATime, OtherWayAlwaysTried, SuccessIsAlwaysReal | TypeOK, OneConnection, OtherWayTried, SuccessIsReal | | |
| BluetoothProofs | TrackerTypeCorrect, SilentIsAlwaysUnreachable, HeardIsAlwaysReachable, AlwaysToldWhenPolled, AlwaysToldWhileSilent, AlwaysShownAsAvailable | TypeOK, SilentIsUnreachable, HeardIsReachable, ToldWhenPolled, ToldWhileSilent, ShownAsAvailable | | |
| | SessionTypeCorrect, AlwaysReassembled, AlwaysUnderstood, EveryResultIsReal, ConversationAlwaysFollowed | SessionTypeOK, Reassembled, Understood, ResultIsReal, ConversationFollowed | | |
| BluetoothKeysProofs | KeysTypeCorrect, StoreAlwaysAgrees, KeysAlwaysOutlastFailures | TypeOK, StoreAgrees, KeysOutlastFailures | | |
| DoorLinksProofs | EntryTypeCorrect, DevicesAreShown, EntitiesAddedOnce, PollsFindAll, LocksAreLinked, LinksAreTitled | TypeOK, DevicesShown, AddedOnce, FoundThroughout, LinkedToConnect, TitlesFollow | | |
| LockEntityProofs | LockTypeCorrect, ShownStaysCurrent, NoneShownForLonger, BoltEndsKnown | TypeOK, ShownIsCurrent, NoLongerThanAnActivation, BoltSettles | | |
| | ActivationEndsKnown | ActivationSettles | no `keepActive` | see below |

So every property of the runs EventsOnce, EventsFailing, EventsCaught,
LockSettles, DoorFollowed, PushRegistered, SessionTalks, RangeFollowed and
KeysLast is proved, and all of CommandRoutes and EntryFollowed but their
liveness. The hypotheses on `fail`, `pushDuringPoll` and
`push` are those under which the runs have the property; the theorems of
EventsCaught's properties are for its hazards and no others, since a failing
poll, or pushes, do keep events waiting.

Few of these properties are inductive. The definitions that they need besides,
each named and commented, are with the properties in the component's module; TLC
checked them on the run's instances before they were proved.

**The event coordinator.** The assumptions are those that EventCoordinator
names: times are naturals; `CatchUpLooksFurther` (overlap <= look-back: 2
minutes, an hour); `PushesAreRecent` (Bold does not push again what is older
than a look-back); `PollsEndInTime` (a poll's answer comes before the next poll
would start); `PushesReplacePolls` (the interval is not shorter with pushes than
without: 5 minutes, 30 seconds, `const.py:18` and `const.py:30`); push is for a
subset of the types.

That an event is not reported again rests on its key still being in `_seen`
whenever some poll can return it. `OnceInvariant` therefore adds to
DeliveredOnce

* `ReportedIsLogged`: what was reported is in the log, so a poll that looks back
  to it returns it;
* `CursorComesFirst`: no device is primed before there is a cursor, so there is a
  horizon to compare with;
* `Remembers`: the key of any reported event of a primed device is still seen,
  as far back as a catch-up starting now would look;
* `PollIsSafe`: the same for the poll under way, with the look-back it began
  with, and that its answer has every such event.

The steps that matter are `PollSucceeds` and `HandlePush`. `AcceptKeeps` shows
that forgetting at the horizon keeps every key at or after the later of the
reaches (`ReachIsTime`, `ReachGrows`: a reach never moves back as the cursor and
time go on). A successful poll forgets what its own answer does not have, and
`PollIsSafe` says nothing reported is missing from it. A push moves the cursor
and with it the horizon, which only an idle poll is sure to survive - hence the
hypothesis, and the disagreement below.

`HistoryInvariant` says the same of what was in a device's log when it was first
polled, which is seen from that poll on; it takes that `_primed` is always what
Home Assistant polls (`primed = listed`), which an account that has no locks for
a while breaks. `FiredInvariant` says that only what was reported was fired. The
refinement CoordinatorIsFeed goes action by action: an event that joins the log
is `Log` of EventFeed, those that are accepted are `Report`, those of a device's
first poll `Follow`, and every other step stutters. That the reported were new
is `OnceInvariant` and `HistoryInvariant`.

`TimedInvariant` is about when. `PollsKeepComing` bounds the next poll,
`CatchUpsAreDue` the next catch-up, counted from the start until there was one;
`AllIsTold` says that all that was seen is fired or history; and `TimelyWait`
and `LateWait` say of an event that still waits that no poll that looks back to
it was answered since its upload. For that the cursor, which follows the locks'
clocks, must not have moved past it (`NotAhead`).

**Push registration.** `TaskInvariant` says that what the task holds on to
across its requests, and what was asked for and given up, is ours: so none of it
deletes or changes a webhook of others. Of an organization the task is done with,
`WebhookInvariant` says that it has the one webhook that was registered; of the
one in work, that its webhooks are exactly those the task found - in both cases
unless a late request disturbed it. A late request that arrives before an
organization is listed does no harm, as what it leaves is among what is listed;
one for a webhook that is gone is refused, and IDs are not used again
(`IdsDiffer`). `UrlsStay` is where the hypothesis on the cloudhook comes in: every
webhook of ours is recognized by its URL, at home or the cloudhook's in use. `OtherUrlIsOther` and
`NoneIsNothing` say that the stand-ins for another app's URL and for None are
none of the values.

**Door sensor.** The two bounds on `opened_at` meet in the middle:
`DatedInTime` bounds from above what is kept for dating an opening (`opened_at`,
the sensor's last change, and what is saved), and `CountedSince` from below. They
hold also of what was saved, of a link that was changed and of a sensor that is
not known, so that any order of saves, restarts and changes can follow.

**Command routes.** `TaskEndsOldLink`: a connection of an entity is left up only
to a task that ends it, which a conversation of that entity has awaited; one whose
task was cancelled is no longer the entity's but abandoned. OneConnectionAtATime is
about that only: CommandReloaded shows what it does not say. `RoutesAreLeft`: what is usable
was tried or is still to be; NextRouteIsNext shows that a route that fails is
the head of that list. `ConfirmsWhatItDid` is about the lock's reply.

**Bluetooth tracker.** `FollowsTheLock` is the core: the stack's word is awaited
on the address that is known, and a lock that was just heard is unreachable only
if some other address is followed too. `HeardInTime` says when the stack's word
comes, `SeenWhenHeard` relates `last_seen` to when the lock was heard.
AlwaysShownAsAvailable goes by what each step writes (`WrittenIsShown`,
`LockWrittenIsShown`, `StillShown`).

**Bluetooth keys.** `Lasting` says of memory and store alike that keys outlast
the failures that are left to survive, measured from the refresh under way or
else the next (`Attempt`). `JustGiven` is that of the answers held across the
two requests, and `MemoryAgrees` of the time between memory and store.
`KeysLastThatLong` assumes that Bold gives keys for longer than `MaxFailures`
refreshes and one more: how many failures that is for the real lives of keys,
the source does not say, and the theorem leaves it open.

**Device sync and links.** What the listeners of a device poll do is proved one
by one, and then of all of them in their order: Sync removes the devices that
left, with their entities, which the other listener only then forgets.
`DevicesInvariant` adds to DevicesShown and AddedOnce that a device has exactly
the entities that were added for it, of the devices of the last poll
(`EntitiesAreKnown`), and what a setup has done before its platforms are there
(`SyncedFirst`). `PagesInvariant` says of a poll under way that it has, of the
devices that stayed, those on the pages it read, as long as none left; one that
joins only moves others down. A title follows names by the entity ID that is
followed, so `TitlesInvariant` says besides that this is the sensor's
(`FollowedByItsId`), unless a reload is due. Assumed are the shape of a setting
(`SettingsAreSettings`), that no lock is a Connect (`LocksAreNoConnects`), that
None is no poll (`NoneIsNoPoll`) and that every lock and sensor starts with a
name (`ThingsHaveNames`).

**Lock entity.** Events are applied by a recursive function over their numbers.
What it comes to is shown by the least number for which it does not hold
(`Least`, `OneAfterTheOther`), and each method of the entity has a lemma saying
what of the lock it keeps and changes. `ActiveExpires` gives ShownIsCurrent: the
state changes unwritten only when an activation ends, and then its timer is due.
`NothingLastsLonger` bounds all that is said of an activation, by server, polls
and events alike. `BoltInvariant` says that what is said of the bolt is of the
last turn or older (`TurnsAreReported`), that the entity knows a report
(`BoltWasReported`), and that the last turn's is known, on its way or shown by
the door (`LastTurnArrives`), or was lost between the two first polls of a setup,
and then is in the next device poll (`LostTurnIsRead`); so `AfterKnows`, that after the first n events the
entity knows none older than those, is enough for any order of arrival.
`ActivationInvariant` is for settings in which reports come in order. Of an
activation that ended, either the entity knows (`IsOver`) or the event that
ended it is unread, and comes after every event of an activation
(`EndArrives`), or is lost; while the entry is set up no activation is shown
(`SetUpIsQuiet`); of one that lasts, nothing known reaches beyond it
(`ActivationLasts`). A result may date its activation late by as much as the
command took (`CommandInTime`), which is the `Latency` in ActivationSettles.
ActivationSettles itself is for settings with a right clock and without `reorder`,
`overlap`, `stale` and `pollFails` (`Revives`): events in order, nobody who acts
while a command is under way, device polls that are answered, and not late. Each
of the four does bring an ended activation back: LockReordered, LockOverlap,
LockPollFails, and the last of these with `stale` in place of `pollFails`. The
hypothesis of the theorem on `keepActive` is needed since the model lets a usual activation shorten one that is
kept for longer, while the entity goes on to show the longer one
(`lock.py:429`): with a KeepDuration of 5, a Duration of 2 and the hazards
`others` and `keepActive` TLC finds ActivationSettles violated. The source does
not say what a lock does then. Assumed are the shape of a setting
(`SettingsAreSettings`), that times are naturals (`TimesAreNaturals`, with
Duration <= KeepDuration) and that None is no time (`NoneIsNoTime`).

**Bluetooth session.** `SessionInvariant` relates the two sides of the
conversation, as they are at any moment.

* `RestIsComing`: the packets the lock sent are those that were taken, those that
  wait in the queue, and those that the bytes in the buffer and on their way would
  be parsed to, with nothing left over. Reassembled follows once no byte is on
  its way. `ReceivedInParts` is the lemma it needs: to parse some bytes, and then
  what they left together with those that come, is to parse them all at once, and
  so a notification may end anywhere. `ReceivedEncoded` says that an encoded
  packet is parsed to itself.
* `ClientInStep` and `LockInStep`: what the client writes, and which stream its
  cipher is at when it awaits the reply; and that each reply of the lock is
  empty or is what answers that, by the lock's own cipher.
  With the lock's key the two ciphers are the same after each reply, and so the
  client reads what the lock wrote (`ProcessTwice`: the same stream twice leaves
  the plain bytes). That is ResultIsReal.
* `OneReplyEach`: of a lock that is not odd, as many packets were sent as taken,
  and one more once the call was answered. So the next in the queue is the reply
  to this call and not one to an earlier, which is Understood.
* `OneLink`: there is one connection, from the first call to the end.

ConversationAlwaysFollowed goes action by action as CoordinatorIsFeed does; its
steps are LockCommand's since a success is confirmed only after the lock carried
it out, and since a disconnect that goes on is of the connection left behind.

`Parsed` is a recursive function on the byte strings. That it has the value its
definition says, and that ReceivedInParts holds of strings of every length, is
proved by the length of the string being well-founded: the library's theorems
about that are applied to sets, never to operators. Assumed are a block of at
least one byte (`BlockSizeIsPositive`) and a natural bound on events. The keys,
nonces and challenges are any values.

Only model-checked are EveryCommandEnds, LinksTakeEffect and IssuesSettle:
liveness under fairness needs ENABLED, which is beyond the prover. TLC checks
them on the instances of CommandRoutes and EntryFollowed.

## Where code and documentation disagree

EventsRefired is a run: `event.py:75` fires every event of `coordinator.data`
whenever its listener is called, and that happens also when a poll fails, with
the data of the one before. An event that was fired is fired again.

The configurations below are not among the runs of the table. Each checks one
property and TLC finds it violated; the hazard it takes is one the passing runs
leave out.

| configuration | property | what happens |
|---|---|---|
| EventsPolledTwice | DeliveredOnce | A push during a poll moves the cursor, `_accept` forgets an event that the poll's answer has (`coordinator.py:236`), and it is reported again. |
| EventsStarved | CatchUpsKeepComing | Each push restarts the poll's interval (`coordinator.py:254`); "every 10 minutes a check looks back an hour" (`docs/how-it-works.md:21`) does not hold while pushes keep coming. |
| EventsReplayed | HistoryNotReplayed | Without devices `_async_update_data` returns early and `_primed` keeps a lock that left (`coordinator.py:178`); when it returns, its history is new. |
| LockCrash | ShowsWhatItKnows | A command that raises something else than HomeAssistantError resets the flag in `finally` without writing the state (`lock.py:301`). |
| LockBoltAhead, LockBoltBehind | BoltIsKnown | The bolt's time is the lock's in a device poll (`lock.py:388`) and clamped in an event; and is compared with the door's in Home Assistant's clock (`lock.py:163`). |
| LockReordered | ActivationIsKnown | An activation handed on after its end is applied (`lock.py:429`). |
| LockOverlap | ActivationIsKnown | Someone ends the activation before the command's result arrives, and the result sets it again (`lock.py:266`). |
| LockPollFails | ActivationIsKnown | A failed device poll applies the old poll's activation again (`lock.py:389`). |
| PushRemoved | NothingLeftBehind | Removing the entry during its registration leaves webhooks whose IDs were not stored (`push.py:198`). |
| PushCloud | OneWebhookEach | A webhook at a cloudhook's URL is not recognized once that URL changed, if its ID was not stored (`push.py:178`). |
| PushLate | OneWebhookEver | A task cancelled while it creates a webhook (`push.py:159`) is followed by one that lists none (`push.py:145`) and creates another; then Bold carries out the first request too. "Existing webhooks are reused and updated, so restarts don't add more" (`push.py:124`) does not hold until the next registration. |
| CommandRaises | EveryWayTried | Errors that are no BoldError (a TimeoutError of a request, or, as with only "disconnectRaises" in its Environment, an unexpected one of the disconnect) end the command without trying the other way (`lock.py:324`, `lock.py:356`). |
| SessionCutOff | DisconnectedOnErrors | "On errors, the lock is disconnected before raising" (`boldsmartlock/ble.py:243`): but the conversation's time also runs out while it disconnects (`boldsmartlock/ble.py:270`), and then the error is raised with the connection as it is. |
| CommandCutOff | OneConnectionEver | Nobody waits for, nor ends, a connection that was cut off so; the next command connects beside it. |
| CommandReloaded | OneConnectionEver | "Don't connect while still disconnecting from the last command" (`lock.py:355`) is the entity's own memory (`lock.py:97`): after a reload, which cancels the disconnect (`lock.py:371`), or beside a command that goes on through it, the new entity connects at once. |
| RangeKeysExpire | ShownAsIs | Keys expire by themselves (`keys.py:59`), and nobody is told; the lock is shown as available until something else has its state written. |
| EntryPaged | FoundAlways | A device that leaves between two pages moves the later ones up (`boldsmartlock/client.py:109`): one is on no page, and is removed with its entities and history until the next poll. |
| EntryLinkAway | AllLinksTakeEffect | A link whose sensor is not found at setup, or made after the entry looked for links, is not followed (`links.py:60`): when its sensor gets another entity ID, the lock goes on with the old one. |
| EntryLinkMoved | MovedLinksTakeEffect | A sensor that gets another entity ID after its lock was added (`lock.py:135`) and before the links are followed (`links.py:60`): the follower starts with the new ID, the lock has the old one, and nothing reloads, though "a changed entity ID reloads, so the lock follows its door sensor" (`links.py:52`). |
| EntryOtherAccount | AllIssuesSettle | A device poll clears all the integration's issues it did not find, those of another account too (`issues.py:158`), until that is polled. |

In DoorSensor and BluetoothTracker such exceptions are part of the properties:
DatedWhenLastClosed excepts a sensor that was not known when the lock was saved
or set up, or that became unknown or was removed, since `as_dict` and `_seen`
then date the door's last closing too late (`door.py:68`, `door.py:78`,
`door.py:94`); NotForgotten and OpeningCounts except a crash; HeardIsReachable
excepts a lock that is still followed at an old address (`tracker.py:97`), and
ToldWhileSilent a reload, which starts the hour anew (`issues.py:157`). And so in
LockEntity: BoltIsKnown and ActivationIsKnown except what is reported between the
two first polls of a setup (`__init__.py:58`, `__init__.py:79`), since the device
data is older and the events are taken for history (`coordinator.py:207`): a turn
until the next device poll, an end for as long as the activation would have lasted.

One more was found by reading only: `_accept` looks for new events before it
records any, so an event that Bold lists twice in one answer - as offset paging
may, when events are added between two pages (`boldsmartlock/client.py:127`) - is
reported twice (`coordinator.py:225`). The model's answers are sets, without
pages.

Known and stated by no property, as nothing in the repository says what should
be: a 403 turns polling off until a reload (`coordinator.py:198`); two events with
the same device, type and second have one key (`coordinator.py:225`); an
organization joined after setup gets no webhook until a reload (`push.py:133`); a
fallback may activate a lock twice (`lock.py:315`).

## Not modelled

* Paging of the event log, and the status history: the order in which Bold lists
  events is not in the source.
* The sensors' readings, the other binary sensors, the button, the updates: views
  of a device's last data or one-line commands, without state of their own. The
  voltage sensors keep a reading over restarts, replaced by whatever comes next.
* Signing in, discovery and reauthentication (`config_flow.py`), diagnostics:
  forms and OAuth of Home Assistant's own, and formatting.
* Parsing (`payloads.py`, the `from_api` of `models.py`): without state. What
  matters of it - what a device is, an event's key and order, times that are
  clamped - is part of the modules.
* Of the links: sensors that are not in the entity registry, whose entity ID
  is all that is stored of them. Of the issues: the hour a Connect is silent
  (the profile says whether it is offline), and clearing them when the entry is
  removed.
* Home Assistant and Bold: external, modelled from how this code uses them.

## Plan

Order of work; all are done but 8 and 9.

1. EventCoordinator with its runs, and the proofs of TypeCorrect and ReportedOnce.
2. LockEntity, DoorSensor.
3. PushRegistration, LockCommand.
4. BluetoothTracker with its issue, BluetoothKeys.
5. EventFeed, which EventCoordinator implements, checked and proved.
6. DeviceSync with entity creation, and DoorLinks with the repair issues.
7. BleSession, which takes LockCommand's steps.
8. LockAndDoor: LockEntity with DoorSensor in place of `lock.opened`.
9. EventPages: the paging of `get_events` against a log that grows.
10. Proofs: those of every module with a next-state relation.
