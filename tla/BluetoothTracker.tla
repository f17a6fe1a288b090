--------------------------- MODULE BluetoothTracker ---------------------------
(***************************************************************************)
(* Whether a lock is in Bluetooth range (BoldBluetoothTracker), whether it *)
(* is shown as available, for that or another way to reach it, and the     *)
(* repair issue that tells it has been out of range for a while            *)
(* (async_check_issues after a device poll).                               *)
(*                                                                         *)
(* Home Assistant's Bluetooth stack passes on each advertisement, and says *)
(* of an address, once, that nothing was heard from it for Stale.  A lock  *)
(* may come to advertise from another address.                             *)
(*                                                                         *)
(* One lock is modelled, in a Home Assistant that has Bluetooth.  Left out *)
(* are the signal's strength, which no lock's availability depends on, and *)
(* the other issues, which DoorLinks has.                                  *)
(***************************************************************************)
EXTENDS Integers

CONSTANTS
    Addresses,      \* addresses the lock advertises from
    Stale,          \* how long an address is silent before the stack says so
    IssueAfter,     \* ISSUE_AFTER
    ScanInterval,   \* DEVICE_SCAN_INTERVAL
    MaxTime,        \* bound: the last moment explored
    Environment,    \* which of Hazards happen
    None

Hazards == {"moves",    \* the lock's address changes
            "method",   \* its Connect, unlock method or keys change
            "expire",   \* its keys expire
            "fail",     \* device polls fail
            "reload"}

ASSUME TimesAreNaturals == {Stale, IssueAfter, ScanInterval, MaxTime} \subseteq Nat
ASSUME StaleBeforeIssue == Stale <= IssueAfter /\ ScanInterval > 0
ASSUME EnvironmentIsHazards == Environment \subseteq Hazards
ASSUME NoneIsNoTime == None \notin Int /\ None \notin Addresses

VARIABLES
    now,
    address,        \* where the lock advertises from
    heard,          \* when the stack last heard an address, until it says it is gone
    lastHeard,      \* when the lock was last heard
    (* BoldBluetoothTracker *)
    started,        \* _started
    known,          \* _addresses
    followed,       \* addresses with an unavailable callback, in _unsubscribes
    reachable,      \* _reachable
    lastSeen,       \* _last_seen
    (* the issue *)
    due,            \* when the next device poll is
    issue,          \* the issue is raised
    (* the ways to the lock *)
    remote,         \* it has a Connect and remote access, by the last good poll
    polled,         \* that was the last one, last_update_success
    keys,           \* there are keys for it
    saving,         \* they were refreshed, and are being saved
    select,         \* the select of its unlock method was added
    chosen,         \* the method selected, or by default, which the select restores
    method,         \* the one that counts
    shown           \* whether it, and its Bluetooth signal, are shown as available,
                    \* and whether there were keys when that was looked at

world == <<now, address>>
stack == <<heard, lastHeard>>
tracker == <<started, known, followed, reachable, lastSeen>>
route == <<remote, polled, keys, saving, select, chosen, method>>
repairs == <<due, issue>>
vars == <<world, stack, tracker, route, repairs, shown>>

\* UnlockMethod, but for which way is preferred.
Methods == {"any", "bluetooth_only", "connect_only"}

-----------------------------------------------------------------------------
(* The entities of the lock                                                *)

\* available of BoldLock: whether there is a route, with keys or without.
Available(key) ==
    \/ method # "bluetooth_only" /\ polled /\ remote
    \/ method # "connect_only" /\ reachable /\ key

States == [lock |-> Available(keys), signal |-> reachable, keys |-> keys]

LockWritten == shown' = [States' EXCEPT !.signal = shown.signal]

BothWritten == shown' = States'

MutatedNotify == IF reachable' /\ ~ reachable THEN BothWritten ELSE UNCHANGED shown

\* _async_notify, of a lock that comes into or goes out of range
Notify == IF reachable' # reachable THEN BothWritten ELSE UNCHANGED shown

-----------------------------------------------------------------------------
(* BoldBluetoothTracker                                                    *)

MutatedFollow(from) == followed

\* _async_track_unavailable
Follow(from) == followed \cup {from}

\* async_process_advertisement
ProcessAdvertisement(from) ==
    /\ lastSeen' = now
    /\ known' = from
    /\ followed' = IF known = from THEN followed ELSE Follow(from)
    /\ reachable' = TRUE

Advertise ==
    /\ heard' = [heard EXCEPT ![address] = now]
    /\ lastHeard' = now
    /\ ProcessAdvertisement(address)
    /\ UNCHANGED <<world, started, route, repairs>>
    /\ Notify

\* The stack says an address is gone; if it was the lock's, the lock is unreachable.
Unavailable(from) ==
    /\ heard[from] # None
    /\ now - heard[from] >= Stale
    /\ heard' = [heard EXCEPT ![from] = None]
    /\ reachable' = (reachable /\ from \notin followed)
    /\ UNCHANGED <<world, lastHeard, started, known, followed, lastSeen, route, repairs>>
    /\ Notify

\* unreachable_since, of a lock that is not reachable
UnreachableSince == IF lastSeen = None THEN started ELSE lastSeen

-----------------------------------------------------------------------------
(* The issue                                                               *)

\* Whether Bluetooth is the only way to unlock the lock.
Only(connect, how) == ~ (connect /\ how # "bluetooth_only")

MutatedOutOfRange(connect, how) ==
    /\ Only(connect, how) /\ keys /\ ~ reachable
    /\ lastSeen # None /\ now - lastSeen > IssueAfter

MutatedOutOfRangeAnew(connect, how) ==
    ~ issue /\ Only(connect, how) /\ keys /\ ~ reachable /\ now - UnreachableSince > IssueAfter

\* _lock_issues
OutOfRange(connect, how) ==
    Only(connect, how) /\ keys /\ ~ reachable /\ now - UnreachableSince > IssueAfter

\* What Bold says of the lock.
Read(connect) == connect \in IF "method" \in Environment THEN BOOLEAN ELSE {remote}

\* The select is added with the lock's Connect, and restores the method.
AddSelect(before, else) ==
    /\ select' = (before \/ remote')
    /\ method' = IF select' /\ ~ before THEN chosen' ELSE else

\* A device poll succeeds: the issue is raised or cleared first, and then the
\* entities follow.
DevicePoll ==
    /\ due <= now
    /\ due' = now + ScanInterval
    /\ Read(remote')
    /\ polled' = TRUE
    /\ issue' = OutOfRange(remote', method)
    /\ UNCHANGED <<world, stack, tracker, keys, saving, chosen>>
    /\ AddSelect(select, method)
    /\ BothWritten

\* It fails: of which the entities are only told the first time.
DevicePollFails ==
    /\ "fail" \in Environment
    /\ due <= now
    /\ due' = now + ScanInterval
    /\ polled' = FALSE
    /\ UNCHANGED <<world, stack, tracker, remote, keys, saving, select, chosen, method, issue>>
    /\ IF polled THEN BothWritten ELSE UNCHANGED shown

MutatedDiscovered == {}

\* The addresses the stack has heard and not given up.
Discovered == {a \in Addresses : heard[a] # None}

\* The entry is reloaded.  Devices are polled first and the issues checked
\* with a tracker that has heard nothing; then the entities are added, and the
\* tracker starts, with what the stack has heard, in whatever order.
\* Keys are those that were saved.  Of a select that a failed poll had made
\* unavailable, there is no method to restore.
Reload ==
    /\ "reload" \in Environment
    /\ due' = now + ScanInterval
    /\ issue' = FALSE
    /\ started' = now
    /\ followed' = Discovered
    /\ reachable' = (Discovered # {})
    /\ IF Discovered = {} THEN known' = None /\ lastSeen' = None
       ELSE known' \in Discovered /\ lastSeen' = now
    /\ Read(remote')
    /\ polled' = TRUE
    /\ chosen' = IF select /\ ~ polled THEN "any" ELSE chosen
    /\ AddSelect(FALSE, "any")
    /\ saving' = FALSE
    /\ keys' \in IF saving THEN BOOLEAN ELSE {keys}
    /\ UNCHANGED <<world, stack>>
    /\ BothWritten

-----------------------------------------------------------------------------
(* The lock, its settings, and time                                        *)

Moves ==
    /\ "moves" \in Environment
    /\ address' \in Addresses \ {address}
    /\ UNCHANGED <<now, stack, tracker, route, repairs, shown>>

\* async_select_option, which a failed poll makes unavailable
SelectOption ==
    /\ "method" \in Environment
    /\ select /\ polled
    /\ chosen' \in Methods /\ method' = chosen'
    /\ UNCHANGED <<world, stack, tracker, remote, polled, keys, saving, select, repairs>>
    /\ LockWritten

\* async_refresh: keys are refreshed, with or without some for the lock,
KeysRefreshed ==
    /\ "method" \in Environment
    /\ ~ saving
    /\ saving' = TRUE
    /\ keys' \in BOOLEAN
    /\ UNCHANGED <<world, stack, tracker, remote, polled, select, chosen, method, repairs, shown>>

\* and saved, before the lock is told.
KeysSaved ==
    /\ saving
    /\ saving' = FALSE
    /\ UNCHANGED <<world, stack, tracker, remote, polled, keys, select, chosen, method, repairs>>
    /\ LockWritten

\* Nobody is told when they expire.
KeysExpire ==
    /\ "expire" \in Environment
    /\ keys' = FALSE
    /\ UNCHANGED <<world, stack, tracker, remote, polled, saving, select, chosen, method, repairs, shown>>

Tick ==
    /\ now < MaxTime
    /\ now < due
    /\ \A a \in Addresses : heard[a] # None => now - heard[a] < Stale
    /\ now' = now + 1
    /\ UNCHANGED <<address, stack, tracker, route, repairs, shown>>

Init ==
    /\ now = 0
    /\ address \in Addresses
    /\ heard = [a \in Addresses |-> None]
    /\ lastHeard = None
    /\ started = 0
    /\ known = None
    /\ followed = {}
    /\ reachable = FALSE
    /\ lastSeen = None
    /\ due = ScanInterval
    /\ issue = FALSE
    /\ remote \in BOOLEAN
    /\ polled = TRUE
    /\ keys \in BOOLEAN /\ saving = FALSE
    /\ select = remote
    /\ chosen \in Methods
    /\ method = IF select THEN chosen ELSE "any"
    /\ shown = States

Next ==
    \/ Advertise \/ (\E a \in Addresses : Unavailable(a))
    \/ DevicePoll \/ DevicePollFails \/ Reload
    \/ SelectOption \/ KeysRefreshed \/ KeysSaved \/ KeysExpire
    \/ Moves \/ Tick

Spec == Init /\ [][Next]_vars

-----------------------------------------------------------------------------
(* Properties                                                              *)

Times == Nat \cup {None}

\* Every variable has its type.
TypeOK ==
    /\ now \in Nat /\ started \in Nat /\ due \in Nat
    /\ address \in Addresses
    /\ heard \in [Addresses -> Times]
    /\ lastHeard \in Times /\ lastSeen \in Times
    /\ known \in Addresses \cup {None}
    /\ followed \subseteq Addresses
    /\ {reachable, issue, remote, polled, keys, saving, select} \subseteq BOOLEAN
    /\ {chosen, method} \subseteq Methods
    /\ shown \in [lock : BOOLEAN, signal : BOOLEAN, keys : BOOLEAN]

\* A lock that was heard a moment ago, and is followed at no address but its
\* own, is reachable, so that Bluetooth is tried to unlock it ("Handle a device
\* that stopped advertising").
HeardIsReachable ==
    lastHeard # None /\ now - lastHeard < Stale /\ followed \subseteq {address} => reachable

\* A lock that has not been heard for long is not: whichever addresses it was
\* heard from, the stack's word on one of them comes in time.
SilentIsUnreachable == reachable => now - lastHeard <= Stale

\* Whatever opens a way to the lock, or closes one - it is heard, or not any
\* more, keys come or go, another method is selected or restored, its Connect is
\* added or removed, a device poll fails - the lock is shown as available if
\* there is one ("A lock is unavailable. Home Assistant has no way to reach it"),
\* and its Bluetooth signal if it is heard - but for keys that expired since, or
\* are being saved.
ShownAsAvailable ==
    /\ shown.lock = Available(shown.keys)
    /\ keys => shown.keys \/ saving
    /\ shown.signal = reachable

\* Or although they did.
ShownAsIs == saving \/ shown = States

\* A lock that has been out of range for an hour of this start is told of by a
\* device poll.
ToldWhenPolled ==
    [][LET since == IF lastHeard = None \/ lastHeard < started THEN started ELSE lastHeard
       IN  DevicePoll /\ Only(remote', method) /\ keys /\ now - since > IssueAfter => issue']_vars

\* It is not told of a lock that was heard within the hour, and the issue stays
\* until the lock is heard, or matters no more ("Repairs clear themselves once
\* the problem is gone"); or a reload counts anew.
ToldWhileSilent ==
    [][/\ ~ issue /\ issue' => lastHeard = None \/ now - lastHeard > IssueAfter
       /\ issue /\ ~ issue' =>
              \/ lastHeard # None /\ now - lastHeard <= IssueAfter
              \/ ~ Only(remote', method) \/ ~ keys
              \/ Reload]_vars

(* What every step keeps, and those follow from.                           *)

\* The stack's word on an address comes in time.
HeardInTime ==
    /\ lastHeard # None => lastHeard <= now
    /\ \A a \in Addresses : heard[a] # None =>
           /\ lastHeard # None /\ heard[a] <= lastHeard
           /\ now - heard[a] <= Stale

Fresh == lastHeard # None /\ now - lastHeard < Stale

\* The stack's word is awaited on the address that is known, and on that of a
\* lock heard a moment ago; only its word on another makes that unreachable.
FollowsTheLock ==
    /\ known # None => known \in followed
    /\ reachable => known # None /\ heard[known] # None
    /\ Fresh => \E a \in followed :
                    /\ heard[a] = lastHeard
                    /\ reachable \/ \E b \in followed : b # a

\* When the lock was last seen is when it was last heard, of this start.
SeenWhenHeard ==
    /\ started <= now
    /\ lastSeen # None =>
           /\ started <= lastSeen
           /\ lastSeen <= started \/ (lastHeard # None /\ lastSeen <= lastHeard)
    /\ lastHeard # None => lastHeard <= UnreachableSince
    /\ issue => now - started > IssueAfter

TrackerInvariant == HeardInTime /\ FollowsTheLock /\ SeenWhenHeard
=============================================================================
