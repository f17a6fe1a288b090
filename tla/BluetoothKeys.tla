---------------------------- MODULE BluetoothKeys ----------------------------
(***************************************************************************)
(* The keys for unlocking locks over Bluetooth (BoldBluetoothKeys): Bold   *)
(* issues them for a while, and they are fetched at every start and each   *)
(* Interval, kept in memory and stored, so that locks can still be         *)
(* unlocked while Bold's cloud is out of reach.                            *)
(*                                                                         *)
(* A refresh is a background task that awaits the handshakes, the commands *)
(* and the store in turn; anything else may happen at each.  It is         *)
(* cancelled when the entry is unloaded.  A key is modelled by when it     *)
(* expires, and a lock's two commands by the one that expires first.  A    *)
(* restart takes no time here: the device poll that setup needs succeeds.  *)
(***************************************************************************)
EXTENDS Integers

CONSTANTS
    Locks,
    Interval,       \* BLUETOOTH_KEYS_REFRESH_INTERVAL
    Latency,        \* the longest a refresh takes
    Handshake,      \* how long Bold's handshakes are valid, at least
    Command,        \* likewise its commands
    MaxFailures,    \* refreshes that give a lock nothing, in a row, it survives
    MaxTime,        \* bound: the last moment explored
    Environment,    \* which of Hazards happen
    None

Hazards == {"fail",     \* requests to Bold fail
            "partial",  \* what Bold says of a lock is missing or malformed
            "noCommand",    \* its commands are, though not its handshake
            "devices",  \* locks join or leave the account
            "restart"}  \* the entry is set up again, also while it refreshes

ASSUME TimesAreNaturals ==
    /\ {Interval, Latency, Handshake, Command, MaxFailures, MaxTime} \subseteq Nat
    /\ 0 < Interval /\ Latency < Interval
\* Keys outlast the refreshes in a row that they are to survive.
ASSUME KeysLastThatLong ==
    \A lasting \in {Handshake, Command} : lasting > (MaxFailures + 1) * Interval + Latency
ASSUME EnvironmentIsHazards == Environment \subseteq Hazards
ASSUME NoneIsNoTime == None \notin Int

\* A lock's keys: when its handshake and its commands expire.
Keys == [handshake : Int, command : Int \cup {None}]

VARIABLES
    now,
    locks,          \* the locks of the account
    keys,           \* _keys, of some of the locks
    file,           \* what the store has
    refresh,        \* the refresh under way: what it waits for and what it has
    due,            \* when the next refresh is
    (* what happened, for the properties *)
    supplied,       \* locks of the account that Bold last gave both, stored since
    failures        \* how many refreshes in a row then gave a lock nothing

account == <<now, locks>>
ghosts == <<supplied, failures>>
vars == <<account, keys, file, refresh, due, ghosts>>

NoKeys == [l \in {} |-> None]

-----------------------------------------------------------------------------
(* Handing out keys                                                        *)

\* BoldLockKeys.command: both the lock's handshake and its command are valid.
Usable(l) ==
    /\ l \in DOMAIN keys
    /\ keys[l].command # None
    /\ now < keys[l].command
    /\ now < keys[l].handshake

-----------------------------------------------------------------------------
(* async_refresh                                                           *)

Idle == [step |-> "idle", ids |-> {}, began |-> 0, handshakes |-> NoKeys,
         given |-> {}, answer |-> NoKeys]

\* The refresh gave these locks keys, and the others of those it was for none.
Counted(given) ==
    /\ supplied' = supplied \cup (given \cap locks)
    /\ failures' = [l \in Locks |-> IF l \in given THEN 0
                                    ELSE IF l \in refresh.ids /\ failures[l] <= MaxFailures
                                    THEN failures[l] + 1 ELSE failures[l]]

StartRefresh ==
    /\ due <= now
    /\ refresh.step = "idle"
    /\ due' = now + Interval
    /\ refresh' = IF locks = {} THEN Idle
                  ELSE [Idle EXCEPT !.step = "handshakes", !.ids = locks, !.began = now]
    /\ UNCHANGED <<account, keys, file, ghosts>>

\* The locks Bold says something sound of.
Answered(ids) == IF "partial" \in Environment THEN SUBSET ids ELSE {ids}

HandshakesArrive ==
    /\ refresh.step = "handshakes"
    /\ \E sound \in Answered(refresh.ids) :
           refresh' = [refresh EXCEPT !.step = "commands",
                                      !.handshakes = [l \in sound |-> now + Handshake]]
    /\ UNCHANGED <<account, keys, file, due, ghosts>>

MutatedTaken(answer) == answer

\* What is kept of an answer: a lock Bold did not answer for keeps its keys.
Taken(answer) ==
    [l \in DOMAIN answer \cup DOMAIN keys |->
         IF l \in DOMAIN answer THEN answer[l] ELSE keys[l]]

MutatedStored(answer) == keys

\* What is stored is what is kept.
Stored(answer) == Taken(answer)

\* The commands arrive too.  parse_keys drops what is malformed: a command, or
\* a lock without a handshake.  The result goes to memory at once.
CommandsArrive ==
    /\ refresh.step = "commands"
    /\ \E sound \in {DOMAIN refresh.handshakes}
            \cup (IF "noCommand" \in Environment THEN SUBSET DOMAIN refresh.handshakes ELSE {}) :
           LET answer == [l \in DOMAIN refresh.handshakes |->
                              [handshake |-> refresh.handshakes[l],
                               command |-> IF l \in sound THEN now + Command ELSE None]]
           IN  /\ keys' = Taken(answer)
               /\ refresh' = [refresh EXCEPT !.step = "save", !.given = sound,
                                            !.answer = Stored(answer)]
               /\ supplied' = supplied \ (DOMAIN answer \ sound)
    /\ UNCHANGED <<account, file, due, failures>>

\* The store has written them: they outlast Home Assistant.
Saved ==
    /\ refresh.step = "save"
    /\ file' = refresh.answer
    /\ refresh' = Idle
    /\ Counted(refresh.given)
    /\ UNCHANGED <<account, keys, due>>

\* Either request fails: what was known is kept.
RefreshFails ==
    /\ "fail" \in Environment
    /\ refresh.step \in {"handshakes", "commands"}
    /\ refresh' = Idle
    /\ Counted({})
    /\ UNCHANGED <<account, keys, file, due>>

-----------------------------------------------------------------------------
(* Starts, the account and time                                            *)

\* Home Assistant stops, or the entry is reloaded: a refresh under way is
\* cancelled, maybe once the store has written, and what is stored is loaded.
\* A start refreshes at once.
Restart ==
    /\ "restart" \in Environment
    /\ \E written \in {file} \cup (IF refresh.step = "save" THEN {refresh.answer} ELSE {}) :
           file' = written /\ keys' = written
    /\ refresh' = Idle
    /\ due' = now
    /\ Counted({})
    /\ UNCHANGED account

DevicesChange ==
    /\ "devices" \in Environment
    /\ locks' \in (SUBSET Locks) \ {locks}
    /\ supplied' = supplied \cap locks'
    /\ UNCHANGED <<now, keys, file, refresh, due, failures>>

Tick ==
    /\ now < MaxTime
    /\ now < due
    /\ refresh.step # "idle" => now < refresh.began + Latency
    /\ now' = now + 1
    /\ UNCHANGED <<locks, keys, file, refresh, due, ghosts>>

Ended ==
    /\ now = MaxTime /\ refresh.step = "idle" /\ now < due
    /\ UNCHANGED vars

Init ==
    /\ now = 0
    /\ locks \in SUBSET Locks
    /\ keys = NoKeys /\ file = NoKeys
    /\ refresh = Idle
    /\ due = 0
    /\ supplied = {}
    /\ failures = [l \in Locks |-> 0]

Next ==
    \/ StartRefresh \/ HandshakesArrive \/ CommandsArrive \/ Saved \/ RefreshFails
    \/ Restart \/ DevicesChange \/ Tick \/ Ended

Spec == Init /\ [][Next]_vars

-----------------------------------------------------------------------------
(* Properties                                                              *)

Steps == {"idle", "handshakes", "commands", "save"}

\* Something for some of the locks.
OfSome(f, S) == \E some \in SUBSET Locks : f \in [some -> S]

IsRefresh(r) ==
    \E answered, kept \in SUBSET Locks :
        r \in [step : Steps, ids : SUBSET Locks, began : Nat,
              handshakes : [answered -> Int], given : SUBSET Locks,
              answer : [kept -> Keys]]

\* Every variable has its type.
TypeOK ==
    /\ now \in Nat /\ due \in Nat
    /\ locks \subseteq Locks /\ supplied \subseteq Locks
    /\ OfSome(keys, Keys) /\ OfSome(file, Keys) /\ IsRefresh(refresh)
    /\ failures \in [Locks -> 0 .. MaxFailures + 1]

\* Locks can be unlocked over Bluetooth for as long as the documentation says
\* ("for several days without internet"): neither refreshes that fail, or that
\* Bold answers for some locks only, nor restarts take away keys that are valid,
\* and the next keys come before those expire.  (When Bold answers a lock's
\* handshake without its command, the keys there were are given up.)
KeysOutlastFailures == \A l \in supplied : failures[l] <= MaxFailures => Usable(l)

\* All of the keys come back after a restart: while nothing is being refreshed
\* the store has what is in memory.
StoreAgrees == refresh.step = "idle" => file = keys

(* What every step keeps, and those follow from.                           *)

\* A refresh is for every lock that has keys to lose, and takes Latency at most.
OnTime ==
    /\ now <= due
    /\ supplied \subseteq locks
    /\ refresh.step = "idle" => refresh.ids = {}
    /\ refresh.step # "idle" => /\ supplied \subseteq refresh.ids
                               /\ due = refresh.began + Interval
                               /\ refresh.began <= now /\ now <= refresh.began + Latency

\* Memory has what the store has, or is about to.
MemoryAgrees == keys = IF refresh.step = "save" THEN refresh.answer ELSE file

\* What Bold gave during this refresh lasts from when it began.
JustGiven ==
    /\ refresh.step = "commands" =>
           \A l \in DOMAIN refresh.handshakes :
               refresh.handshakes[l] >= refresh.began + Handshake
    /\ refresh.step = "save" =>
           \A l \in refresh.given :
               /\ l \in DOMAIN keys /\ keys[l].command # None
               /\ keys[l].handshake >= refresh.began + Handshake
               /\ keys[l].command >= refresh.began + Command

\* The time that n failures leave for more.
Slack(n) == (MaxFailures - n) * Interval

\* The refresh that is under way, or else the next one.
Attempt == IF refresh.step = "idle" THEN due ELSE refresh.began

\* The keys of these last as long as the failures that are left to survive.
Lasting(f) ==
    \A l \in supplied : failures[l] <= MaxFailures =>
        /\ l \in DOMAIN f /\ f[l].command # None
        /\ f[l].handshake > Attempt + Slack(failures[l]) + Latency
        /\ f[l].command > Attempt + Slack(failures[l]) + Latency

KeysInvariant == OnTime /\ MemoryAgrees /\ JustGiven /\ Lasting(keys) /\ Lasting(file)
=============================================================================
