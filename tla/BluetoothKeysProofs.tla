-------------------------- MODULE BluetoothKeysProofs --------------------------
(***************************************************************************)
(* What BluetoothKeys promises of any locks, whatever fails and however    *)
(* often Home Assistant restarts, proved.                                  *)
(***************************************************************************)
EXTENDS BluetoothKeys, TLAPS

LEMMA Constants ==
    /\ Interval \in Nat /\ Latency \in Nat /\ Handshake \in Nat /\ Command \in Nat
    /\ MaxFailures \in Nat /\ MaxTime \in Nat
    /\ 0 < Interval /\ Latency < Interval
    /\ None \notin Int
BY TimesAreNaturals, NoneIsNoTime

-----------------------------------------------------------------------------
(* Functions of some of the locks                                          *)

Partial(S) == UNION {[some -> S] : some \in SUBSET Locks}

Refreshes == [step : Steps, ids : SUBSET Locks, began : Nat,
              handshakes : Partial(Int), given : SUBSET Locks,
              answer : Partial(Keys)]

\* Such a function has its values in S.
LEMMA PartialType ==
    ASSUME NEW S
    PROVE  /\ \A f \in Partial(S) : /\ DOMAIN f \subseteq Locks
                                  /\ \A l \in DOMAIN f : f[l] \in S
           /\ \A some \in SUBSET Locks : \A f \in [some -> S] : f \in Partial(S)
           /\ NoKeys \in Partial(S) /\ DOMAIN NoKeys = {}
BY DEF Partial, NoKeys

\* Keys that have a command say when both expire.
LEMMA KeyType ==
    ASSUME NEW f \in Partial(Keys), NEW l \in DOMAIN f, f[l].command # None
    PROVE  f[l].handshake \in Int /\ f[l].command \in Int
<1>1. f[l] \in Keys
  BY PartialType
<1> QED BY <1>1 DEF Keys

\* The type invariant in terms of them.
Types ==
    /\ now \in Nat /\ due \in Nat
    /\ locks \subseteq Locks /\ supplied \subseteq Locks
    /\ keys \in Partial(Keys) /\ file \in Partial(Keys)
    /\ refresh \in Refreshes
    /\ failures \in [Locks -> 0 .. MaxFailures + 1]

LEMMA TypeIs == TypeOK <=> Types
<1>1. ASSUME NEW f, NEW S
      PROVE  OfSome(f, S) <=> f \in Partial(S)
  BY DEF OfSome, Partial
<1>2. IsRefresh(refresh) => refresh \in Refreshes
  BY DEF IsRefresh, Refreshes, Partial
<1>3. ASSUME refresh \in Refreshes
      PROVE  IsRefresh(refresh)
  <2>1. PICK answered \in SUBSET Locks : refresh.handshakes \in [answered -> Int]
    BY <1>3 DEF Refreshes, Partial
  <2>2. PICK kept \in SUBSET Locks : refresh.answer \in [kept -> Keys]
    BY <1>3 DEF Refreshes, Partial
  <2> QED BY <1>3, <2>1, <2>2 DEF IsRefresh, Refreshes
<1> QED BY <1>1, <1>2, <1>3 DEF TypeOK, Types

-----------------------------------------------------------------------------
(* Times                                                                   *)

\* What a failure more leaves is an Interval less, and nothing leaves more
\* than no failure.
LEMMA SlackFacts ==
    /\ \A n \in 0 .. MaxFailures : Slack(n) \in Nat /\ Slack(n) <= Slack(0)
    /\ \A n \in Nat : n < MaxFailures => Slack(n + 1) + Interval = Slack(n)
    /\ Slack(0) + Interval + Latency < Handshake
    /\ Slack(0) + Interval + Latency < Command
<1> USE Constants
<1>1. ASSUME NEW n \in 0 .. MaxFailures
      PROVE  Slack(n) \in Nat /\ Slack(n) <= Slack(0)
  <2>1. MaxFailures - n \in Nat /\ n \in Nat
    OBVIOUS
  <2>2. /\ (MaxFailures - n) * Interval \in Nat
        /\ n * Interval \in Nat
        /\ (MaxFailures - 0) * Interval = (MaxFailures - n) * Interval + n * Interval
    BY <2>1
  <2> QED BY <2>2 DEF Slack
<1>2. ASSUME NEW n \in Nat
      PROVE  Slack(n + 1) + Interval = Slack(n)
  BY DEF Slack
<1>3. Slack(0) + Interval = (MaxFailures + 1) * Interval /\ Slack(0) \in Nat
  BY DEF Slack
<1> QED BY <1>1, <1>2, <1>3, KeysLastThatLong

-----------------------------------------------------------------------------
(* Types                                                                   *)

LEMMA InitType == Init => Types
BY PartialType, Constants DEF Init, Idle, Steps, Types, Refreshes

\* Counting what a refresh gave keeps the types.
LEMMA CountedType ==
    ASSUME Types, NEW given \in SUBSET Locks, Counted(given)
    PROVE  /\ supplied' \subseteq Locks
           /\ failures' \in [Locks -> 0 .. MaxFailures + 1]
<1>1. supplied' \subseteq Locks
  BY DEF Counted, Types, Refreshes
<1>2. ASSUME NEW l \in Locks
      PROVE  (IF l \in given THEN 0
              ELSE IF l \in refresh.ids /\ failures[l] <= MaxFailures
              THEN failures[l] + 1 ELSE failures[l]) \in 0 .. MaxFailures + 1
  BY Constants DEF Types, Refreshes
<1> QED BY <1>1, <1>2 DEF Counted

\* What is kept of an answer is keys.
LEMMA TakenType ==
    ASSUME Types, NEW answer \in Partial(Keys)
    PROVE  /\ Taken(answer) \in Partial(Keys)
           /\ DOMAIN Taken(answer) = DOMAIN answer \cup DOMAIN keys
           /\ \A l \in DOMAIN answer : Taken(answer)[l] = answer[l]
           /\ \A l \in DOMAIN keys \ DOMAIN answer : Taken(answer)[l] = keys[l]
<1>1. DOMAIN answer \cup DOMAIN keys \in SUBSET Locks
  BY PartialType DEF Types, Refreshes
<1>2. Taken(answer) \in [DOMAIN answer \cup DOMAIN keys -> Keys]
  BY PartialType DEF Taken, Types, Refreshes
<1> QED BY <1>1, <1>2, PartialType DEF Taken

\* What the commands' arrival does, sound being the locks whose command came.
LEMMA AnswerTaken ==
    ASSUME Types, CommandsArrive
    PROVE  \E sound \in SUBSET DOMAIN refresh.handshakes, answer \in Partial(Keys) :
               /\ DOMAIN answer = DOMAIN refresh.handshakes
               /\ \A l \in sound : /\ answer[l].handshake = refresh.handshakes[l]
                                   /\ answer[l].command = now + Command
               /\ keys' = Taken(answer)
               /\ refresh' = [refresh EXCEPT !.step = "save", !.given = sound,
                                            !.answer = keys']
               /\ supplied' = supplied \ (DOMAIN answer \ sound)
<1> DEFINE Answer(sound) ==
        [l \in DOMAIN refresh.handshakes |->
             [handshake |-> refresh.handshakes[l],
              command |-> IF l \in sound THEN now + Command ELSE None]]
<1>1. PICK sound \in SUBSET DOMAIN refresh.handshakes :
          /\ keys' = Taken(Answer(sound))
          /\ refresh' = [refresh EXCEPT !.step = "save", !.given = sound,
                                       !.answer = Stored(Answer(sound))]
          /\ supplied' = supplied \ (DOMAIN Answer(sound) \ sound)
  BY DEF CommandsArrive
<1>2. refresh.handshakes \in Partial(Int) /\ now \in Nat
  BY DEF Types, Refreshes
<1>3. /\ DOMAIN refresh.handshakes \in SUBSET Locks
      /\ \A l \in DOMAIN refresh.handshakes : refresh.handshakes[l] \in Int
  BY <1>2, PartialType
<1>4. Answer(sound) \in [DOMAIN refresh.handshakes -> Keys]
  BY <1>2, <1>3, Constants DEF Keys
<1>5. Answer(sound) \in Partial(Keys)
  BY <1>3, <1>4, PartialType
<1>6. \A l \in sound : /\ Answer(sound)[l].handshake = refresh.handshakes[l]
                       /\ Answer(sound)[l].command = now + Command
  OBVIOUS
<1> QED BY <1>1, <1>5, <1>6 DEF Stored

LEMMA NextType == Types /\ [Next]_vars => Types'
<1> SUFFICES ASSUME Types, [Next]_vars PROVE Types'
  OBVIOUS
<1> USE DEF account, ghosts
<1>0. Idle \in Refreshes
  BY PartialType DEF Refreshes, Idle, Steps
<1>1. CASE StartRefresh
  <2>1. refresh' \in Refreshes
    <3>1. [Idle EXCEPT !.step = "handshakes", !.ids = locks, !.began = now] \in Refreshes
      BY <1>0 DEF Refreshes, Steps, Types
    <3> QED BY <1>0, <1>1, <3>1 DEF StartRefresh
  <2>2. due' \in Nat
    BY <1>1, Constants DEF StartRefresh, Types, Refreshes
  <2> QED BY <1>1, <2>1, <2>2 DEF StartRefresh, Types, Refreshes
<1>2. CASE HandshakesArrive
  <2>1. PICK sound \in Answered(refresh.ids) :
            refresh' = [refresh EXCEPT !.step = "commands",
                                      !.handshakes = [l \in sound |-> now + Handshake]]
    BY <1>2 DEF HandshakesArrive
  <2>2. sound \in SUBSET Locks
    BY DEF Answered, Types, Refreshes
  <2>3. [l \in sound |-> now + Handshake] \in [sound -> Int]
    BY Constants DEF Types, Refreshes
  <2>4. [l \in sound |-> now + Handshake] \in Partial(Int)
    BY <2>2, <2>3, PartialType
  <2>5. refresh' \in Refreshes
    BY <2>1, <2>4 DEF Refreshes, Steps, Types
  <2> QED BY <1>2, <2>5 DEF HandshakesArrive, Types, Refreshes
<1>3. CASE CommandsArrive
  <2>1. PICK sound \in SUBSET DOMAIN refresh.handshakes, answer \in Partial(Keys) :
            /\ keys' = Taken(answer)
            /\ refresh' = [refresh EXCEPT !.step = "save", !.given = sound, !.answer = keys']
            /\ supplied' = supplied \ (DOMAIN answer \ sound)
    BY <1>3, AnswerTaken
  <2>2. keys' \in Partial(Keys)
    BY <2>1, TakenType
  <2>3. refresh' \in Refreshes
    BY <2>1, <2>2, PartialType DEF Refreshes, Steps, Types
  <2> QED BY <1>3, <2>1, <2>2, <2>3 DEF CommandsArrive, Types, Refreshes
<1>4. CASE Saved
  <2>1. refresh.given \in SUBSET Locks /\ refresh.answer \in Partial(Keys)
    BY DEF Types, Refreshes
  <2>2. /\ supplied' \subseteq Locks
        /\ failures' \in [Locks -> 0 .. MaxFailures + 1]
    BY <1>4, <2>1, CountedType DEF Saved
  <2> QED BY <1>0, <1>4, <2>1, <2>2 DEF Saved, Types, Refreshes
<1>5. CASE RefreshFails
  <2>1. /\ supplied' \subseteq Locks
        /\ failures' \in [Locks -> 0 .. MaxFailures + 1]
    BY <1>5, CountedType DEF RefreshFails
  <2> QED BY <1>0, <1>5, <2>1 DEF RefreshFails, Types, Refreshes
<1>6. CASE Restart
  <2>1. /\ supplied' \subseteq Locks
        /\ failures' \in [Locks -> 0 .. MaxFailures + 1]
    BY <1>6, CountedType DEF Restart
  <2>2. file' \in Partial(Keys) /\ keys' \in Partial(Keys)
    BY <1>6 DEF Restart, Types, Refreshes
  <2> QED BY <1>0, <1>6, <2>1, <2>2 DEF Restart, Types, Refreshes
<1>7. CASE DevicesChange
  BY <1>7 DEF DevicesChange, Types, Refreshes
<1>8. CASE Tick
  BY <1>8 DEF Tick, Types, Refreshes
<1>9. CASE UNCHANGED vars
  BY <1>9 DEF vars, Types, Refreshes
<1> QED BY <1>1, <1>2, <1>3, <1>4, <1>5, <1>6, <1>7, <1>8, <1>9 DEF Next, Ended

\* Every variable keeps its type.
THEOREM KeysTypeCorrect == Spec => []TypeOK
<1> QED BY InitType, NextType, TypeIs, PTL DEF Spec

-----------------------------------------------------------------------------
(* The keys outlast the failures                                           *)

LEMMA InitInvariant == Init => KeysInvariant
BY DEF Init, KeysInvariant, OnTime, MemoryAgrees, JustGiven, Lasting, Idle

\* A refresh that ends before the next one is due, or is cancelled, leaves
\* every lock's keys long enough: those just given, and those it gave nothing,
\* of which one failure more is counted.
LEMMA EndOfRefresh ==
    ASSUME Types, KeysInvariant, NEW given \in SUBSET Locks, Counted(given),
           refresh' = Idle, UNCHANGED <<now, locks>>,
           due' = due \/ due' = now,
           refresh.step # "idle" \/ given = {},
           NEW f \in Partial(Keys), Lasting(f),
           \A l \in given : /\ l \in DOMAIN f /\ f[l].command # None
                            /\ f[l].handshake >= refresh.began + Handshake
                            /\ f[l].command >= refresh.began + Command
    PROVE  /\ OnTime'
           /\ \A l \in supplied' : failures'[l] <= MaxFailures =>
                  /\ l \in DOMAIN f /\ f[l].command # None
                  /\ f[l].handshake > due' + Slack(failures'[l]) + Latency
                  /\ f[l].command > due' + Slack(failures'[l]) + Latency
<1>1. /\ now \in Nat /\ due \in Nat /\ refresh.began \in Nat /\ due' \in Nat
      /\ failures \in [Locks -> 0 .. MaxFailures + 1]
      /\ supplied \subseteq locks /\ locks \subseteq Locks
  BY DEF Types, Refreshes, KeysInvariant, OnTime
<1>2. refresh'.step = "idle" /\ refresh'.ids = {}
  BY DEF Idle
<1>3. OnTime'
  BY <1>1, <1>2 DEF Counted, KeysInvariant, OnTime
<1>4. IF refresh.step = "idle" THEN due' <= Attempt ELSE due' <= Attempt + Interval
  BY <1>1, Constants DEF KeysInvariant, OnTime, Attempt
<1>5. Attempt \in Nat /\ (refresh.step # "idle" => Attempt = refresh.began)
  BY <1>1 DEF Attempt
<1>6. ASSUME NEW l \in supplied', failures'[l] <= MaxFailures
      PROVE  /\ l \in DOMAIN f /\ f[l].command # None
             /\ f[l].handshake > due' + Slack(failures'[l]) + Latency
             /\ f[l].command > due' + Slack(failures'[l]) + Latency
  <2>0. l \in Locks
    BY <1>1 DEF Counted
  <2>1. CASE l \in given
    <3>1. failures'[l] = 0
      BY <2>0, <2>1 DEF Counted
    <3>2. l \in DOMAIN f /\ f[l].command # None /\ f[l].handshake \in Int /\ f[l].command \in Int
      BY <2>1, KeyType
    <3>3. Slack(0) \in Nat
      BY Constants, SlackFacts
    <3> QED BY <1>1, <1>4, <1>5, <2>1, <3>1, <3>2, <3>3, Constants, SlackFacts
  <2>2. CASE l \notin given
    <3>1. l \in supplied
      BY <1>6, <2>2 DEF Counted
    <3>2. CASE refresh.step = "idle"
      <4>1. refresh.ids = {}
        BY <3>2 DEF KeysInvariant, OnTime
      <4>2. failures'[l] = failures[l]
        BY <2>0, <2>2, <4>1 DEF Counted
      <4>3. /\ l \in DOMAIN f /\ f[l].command # None
            /\ f[l].handshake > Attempt + Slack(failures[l]) + Latency
            /\ f[l].command > Attempt + Slack(failures[l]) + Latency
        BY <1>6, <3>1, <4>2 DEF Lasting
      <4>4. f[l].handshake \in Int /\ f[l].command \in Int
        BY <4>3, KeyType
      <4>5. failures[l] \in 0 .. MaxFailures
        BY <1>1, <1>6, <2>0, <4>2, Constants
      <4>6. Slack(failures[l]) \in Nat
        BY <4>5, SlackFacts
      <4> QED BY <1>1, <1>4, <1>5, <3>2, <4>2, <4>3, <4>4, <4>6, Constants
    <3>3. CASE refresh.step # "idle"
      <4>1. l \in refresh.ids
        BY <3>1, <3>3 DEF KeysInvariant, OnTime
      <4>2. failures'[l] = failures[l] + 1 /\ failures[l] <= MaxFailures
        BY <1>1, <1>6, <2>0, <2>2, <4>1, Constants DEF Counted
      <4>3. /\ l \in DOMAIN f /\ f[l].command # None
            /\ f[l].handshake > Attempt + Slack(failures[l]) + Latency
            /\ f[l].command > Attempt + Slack(failures[l]) + Latency
        BY <3>1, <4>2 DEF Lasting
      <4>4. f[l].handshake \in Int /\ f[l].command \in Int
        BY <4>3, KeyType
      <4>5. failures[l] \in Nat /\ failures[l] < MaxFailures
        BY <1>1, <1>6, <2>0, <4>2, Constants
      <4>6. /\ Slack(failures[l]) \in Nat
            /\ Slack(failures'[l]) \in Nat
            /\ Slack(failures'[l]) + Interval = Slack(failures[l])
        BY <4>2, <4>5, SlackFacts, Constants
      <4> QED BY <1>1, <1>4, <1>5, <3>3, <4>3, <4>4, <4>6, Constants
    <3> QED BY <3>2, <3>3
  <2> QED BY <2>1, <2>2
<1> QED BY <1>3, <1>6

\* The same, said of the invariant's parts.
LEMMA EndKeepsInvariant ==
    ASSUME Types, KeysInvariant, NEW given \in SUBSET Locks, Counted(given),
           refresh' = Idle, UNCHANGED <<now, locks>>,
           due' = due \/ due' = now,
           refresh.step # "idle" \/ given = {},
           keys' \in Partial(Keys), Lasting(keys'), file' = keys',
           \A l \in given : /\ l \in DOMAIN keys' /\ keys'[l].command # None
                            /\ keys'[l].handshake >= refresh.began + Handshake
                            /\ keys'[l].command >= refresh.began + Command
    PROVE  KeysInvariant'
<1>1. refresh'.step = "idle"
  BY DEF Idle
<1>2. Attempt' = due'
  BY <1>1 DEF Attempt
<1>3. OnTime' /\ Lasting(keys)'
  BY <1>2, EndOfRefresh DEF Lasting
<1>4. MemoryAgrees' /\ JustGiven'
  BY <1>1 DEF MemoryAgrees, JustGiven
<1> QED BY <1>3, <1>4 DEF KeysInvariant, Lasting

LEMMA NextInvariant == Types /\ KeysInvariant /\ [Next]_vars => KeysInvariant'
<1> SUFFICES ASSUME Types, KeysInvariant, [Next]_vars PROVE KeysInvariant'
  OBVIOUS
<1> USE DEF account, ghosts
<1>0. /\ now \in Nat /\ due \in Nat /\ refresh.began \in Nat
      /\ supplied \subseteq locks /\ locks \subseteq Locks
      /\ failures \in [Locks -> 0 .. MaxFailures + 1]
      /\ keys \in Partial(Keys) /\ file \in Partial(Keys)
      /\ refresh.answer \in Partial(Keys) /\ refresh.given \in SUBSET Locks
  BY DEF Types, Refreshes, KeysInvariant, OnTime
<1>1. CASE StartRefresh
  <2>1. CASE locks = {}
    <3>1. supplied = {} /\ refresh' = Idle /\ due' = now + Interval
      BY <1>0, <1>1, <2>1 DEF StartRefresh
    <3>2. OnTime'
      BY <1>0, <1>1, <3>1, Constants DEF StartRefresh, OnTime, Idle
    <3>3. MemoryAgrees' /\ JustGiven'
      BY <1>1, <3>1 DEF StartRefresh, KeysInvariant, MemoryAgrees, JustGiven, Idle
    <3>4. Lasting(keys)' /\ Lasting(file)'
      BY <1>1, <3>1 DEF StartRefresh, Lasting
    <3> QED BY <3>2, <3>3, <3>4 DEF KeysInvariant
  <2>2. CASE locks # {}
    <3>1. /\ refresh'.step = "handshakes" /\ refresh'.ids = locks /\ refresh'.began = now
          /\ due' = now + Interval /\ refresh.step = "idle" /\ due <= now
          /\ UNCHANGED <<account, keys, file, ghosts>>
      BY <1>1, <2>2 DEF StartRefresh, Idle
    <3>2. OnTime'
      BY <1>0, <3>1, Constants DEF OnTime
    <3>3. MemoryAgrees' /\ JustGiven'
      BY <3>1 DEF KeysInvariant, MemoryAgrees, JustGiven
    <3>4. Attempt' = Attempt
      BY <1>0, <3>1 DEF Attempt, KeysInvariant, OnTime
    <3>5. Lasting(keys)' /\ Lasting(file)'
      BY <3>1, <3>4 DEF KeysInvariant, Lasting
    <3> QED BY <3>2, <3>3, <3>5 DEF KeysInvariant
  <2> QED BY <2>1, <2>2
<1>2. CASE HandshakesArrive
  <2>1. PICK sound \in Answered(refresh.ids) :
            refresh' = [refresh EXCEPT !.step = "commands",
                                      !.handshakes = [l \in sound |-> now + Handshake]]
    BY <1>2 DEF HandshakesArrive
  <2>2. /\ refresh'.step = "commands" /\ refresh'.ids = refresh.ids
        /\ refresh'.began = refresh.began
        /\ refresh'.handshakes = [l \in sound |-> now + Handshake]
        /\ refresh.step = "handshakes"
        /\ UNCHANGED <<account, keys, file, due, ghosts>>
    BY <1>2, <2>1 DEF HandshakesArrive, Types, Refreshes
  <2>3. OnTime' /\ MemoryAgrees' /\ Attempt' = Attempt
    BY <2>2 DEF KeysInvariant, OnTime, MemoryAgrees, Attempt
  <2>4. JustGiven'
    BY <1>0, <2>2, Constants DEF KeysInvariant, OnTime, JustGiven
  <2>5. Lasting(keys)' /\ Lasting(file)'
    BY <2>2, <2>3 DEF KeysInvariant, Lasting
  <2> QED BY <2>3, <2>4, <2>5 DEF KeysInvariant
<1>3. CASE CommandsArrive
  <2>1. PICK sound \in SUBSET DOMAIN refresh.handshakes, answer \in Partial(Keys) :
            /\ DOMAIN answer = DOMAIN refresh.handshakes
            /\ \A l \in sound : /\ answer[l].handshake = refresh.handshakes[l]
                                /\ answer[l].command = now + Command
            /\ keys' = Taken(answer)
            /\ refresh' = [refresh EXCEPT !.step = "save", !.given = sound, !.answer = keys']
            /\ supplied' = supplied \ (DOMAIN answer \ sound)
    BY <1>3, AnswerTaken
  <2>2. /\ refresh'.step = "save" /\ refresh'.ids = refresh.ids
        /\ refresh'.began = refresh.began /\ refresh'.given = sound
        /\ refresh'.answer = keys' /\ refresh.step = "commands"
        /\ UNCHANGED <<account, file, due, failures>>
    BY <1>3, <2>1 DEF CommandsArrive, Types, Refreshes
  <2>3. OnTime' /\ MemoryAgrees' /\ Attempt' = Attempt
    BY <2>1, <2>2 DEF KeysInvariant, OnTime, MemoryAgrees, Attempt
  <2>4. ASSUME NEW l \in sound
        PROVE  /\ l \in DOMAIN keys' /\ keys'[l].command # None
               /\ keys'[l].handshake \in Int /\ keys'[l].command \in Int
               /\ keys'[l].handshake >= refresh.began + Handshake
               /\ keys'[l].command >= refresh.began + Command
    <3>1. l \in DOMAIN keys' /\ keys'[l] = answer[l]
      BY <2>1, TakenType
    <3>2. keys'[l].handshake = refresh.handshakes[l] /\ keys'[l].command = now + Command
      BY <2>1, <3>1
    <3>3. refresh.handshakes[l] >= refresh.began + Handshake /\ refresh.handshakes[l] \in Int
      BY <2>1, <2>2, PartialType DEF KeysInvariant, JustGiven, Types, Refreshes
    <3> QED BY <1>0, <2>2, <3>1, <3>2, <3>3, Constants DEF KeysInvariant, OnTime
  <2>5. JustGiven'
    BY <2>2, <2>4 DEF JustGiven
  <2>6. ASSUME NEW l \in supplied', failures'[l] <= MaxFailures
        PROVE  /\ l \in DOMAIN keys' /\ keys'[l].command # None
               /\ keys'[l].handshake > Attempt + Slack(failures[l]) + Latency
               /\ keys'[l].command > Attempt + Slack(failures[l]) + Latency
    <3>1. l \in supplied /\ l \in Locks /\ failures[l] \in 0 .. MaxFailures
      BY <1>0, <2>1, <2>2, <2>6, Constants
    <3>2. CASE l \in sound
      <4>1. Attempt = refresh.began
        BY <2>2 DEF Attempt
      <4>2. /\ Slack(failures[l]) \in Nat /\ Slack(failures[l]) <= Slack(0)
            /\ Slack(0) \in Nat
        BY <3>1, SlackFacts, Constants
      <4> QED BY <1>0, <2>4, <3>2, <4>1, <4>2, SlackFacts, Constants
    <3>3. CASE l \notin sound
      <4>1. l \notin DOMAIN answer
        BY <2>1, <2>6, <3>3
      <4>2. /\ l \in DOMAIN keys /\ keys[l].command # None
            /\ keys[l].handshake > Attempt + Slack(failures[l]) + Latency
            /\ keys[l].command > Attempt + Slack(failures[l]) + Latency
        BY <2>2, <2>6, <3>1 DEF KeysInvariant, Lasting
      <4>3. l \in DOMAIN keys' /\ keys'[l] = keys[l]
        BY <2>1, <4>1, <4>2, TakenType
      <4> QED BY <4>2, <4>3
    <3> QED BY <3>2, <3>3
  <2>7. Lasting(keys)'
    BY <2>2, <2>3, <2>6 DEF Lasting
  <2>8. Lasting(file)'
    BY <2>1, <2>2, <2>3 DEF KeysInvariant, Lasting
  <2> QED BY <2>3, <2>5, <2>7, <2>8 DEF KeysInvariant
<1>4. CASE Saved
  <2>1. keys' = keys /\ file' = keys
    BY <1>4 DEF Saved, KeysInvariant, MemoryAgrees
  <2>2. /\ Counted(refresh.given) /\ refresh' = Idle /\ UNCHANGED <<now, locks>>
        /\ due' = due /\ refresh.step = "save"
    BY <1>4 DEF Saved
  <2>3. \A l \in refresh.given :
            /\ l \in DOMAIN keys' /\ keys'[l].command # None
            /\ keys'[l].handshake >= refresh.began + Handshake
            /\ keys'[l].command >= refresh.began + Command
    BY <2>1, <2>2 DEF KeysInvariant, JustGiven
  <2>4. Lasting(keys')
    BY <2>1 DEF KeysInvariant
  <2> QED BY <1>0, <2>1, <2>2, <2>3, <2>4, EndKeepsInvariant
<1>5. CASE RefreshFails
  <2>1. keys' = keys /\ file' = keys
    BY <1>5 DEF RefreshFails, KeysInvariant, MemoryAgrees
  <2>2. /\ Counted({}) /\ refresh' = Idle /\ UNCHANGED <<now, locks>> /\ due' = due
    BY <1>5 DEF RefreshFails
  <2>3. Lasting(keys')
    BY <2>1 DEF KeysInvariant
  <2> QED BY <1>0, <2>1, <2>2, <2>3, EndKeepsInvariant
<1>6. CASE Restart
  <2>1. file' = keys' /\ (keys' = file \/ keys' = keys)
    BY <1>6 DEF Restart, KeysInvariant, MemoryAgrees
  <2>2. /\ Counted({}) /\ refresh' = Idle /\ UNCHANGED <<now, locks>> /\ due' = now
    BY <1>6 DEF Restart
  <2>3. Lasting(keys') /\ keys' \in Partial(Keys)
    BY <1>0, <2>1 DEF KeysInvariant
  <2> QED BY <1>0, <2>1, <2>2, <2>3, EndKeepsInvariant
<1>7. CASE DevicesChange
  <2>1. /\ UNCHANGED <<now, keys, file, refresh, due, failures>>
        /\ supplied' \subseteq supplied /\ supplied' \subseteq locks'
    BY <1>7 DEF DevicesChange
  <2>2. OnTime' /\ MemoryAgrees' /\ JustGiven' /\ Attempt' = Attempt
    BY <2>1 DEF KeysInvariant, OnTime, MemoryAgrees, JustGiven, Attempt
  <2>3. Lasting(keys)' /\ Lasting(file)'
    BY <2>1, <2>2 DEF KeysInvariant, Lasting
  <2> QED BY <2>2, <2>3 DEF KeysInvariant
<1>8. CASE Tick
  <2>1. OnTime'
    BY <1>0, <1>8, Constants DEF Tick, KeysInvariant, OnTime
  <2>2. MemoryAgrees' /\ JustGiven' /\ Attempt' = Attempt
    BY <1>8 DEF Tick, KeysInvariant, MemoryAgrees, JustGiven, Attempt
  <2>3. Lasting(keys)' /\ Lasting(file)'
    BY <1>8, <2>2 DEF Tick, KeysInvariant, Lasting
  <2> QED BY <2>1, <2>2, <2>3 DEF KeysInvariant
<1>9. CASE UNCHANGED vars
  BY <1>9 DEF vars, KeysInvariant, OnTime, MemoryAgrees, JustGiven, Lasting, Attempt
<1> QED BY <1>1, <1>2, <1>3, <1>4, <1>5, <1>6, <1>7, <1>8, <1>9 DEF Next, Ended

LEMMA KeysInvariantHolds == Spec => [](Types /\ KeysInvariant)
<1> QED BY InitType, NextType, InitInvariant, NextInvariant, PTL DEF Spec

-----------------------------------------------------------------------------
\* Keys that have failures left to survive have not expired.
LEMMA LastingKeysAreUsable == Types /\ KeysInvariant => KeysOutlastFailures
<1> SUFFICES ASSUME Types, KeysInvariant, NEW l \in supplied, failures[l] <= MaxFailures
             PROVE  Usable(l)
  BY DEF KeysOutlastFailures
<1>1. /\ now \in Nat /\ due \in Nat /\ refresh.began \in Nat /\ l \in Locks
      /\ failures \in [Locks -> 0 .. MaxFailures + 1] /\ keys \in Partial(Keys)
  BY DEF Types, Refreshes
<1>2. Attempt \in Nat /\ now <= Attempt + Latency
  BY <1>1, Constants DEF KeysInvariant, OnTime, Attempt
<1>3. /\ l \in DOMAIN keys /\ keys[l].command # None
      /\ keys[l].handshake > Attempt + Slack(failures[l]) + Latency
      /\ keys[l].command > Attempt + Slack(failures[l]) + Latency
  BY DEF KeysInvariant, Lasting
<1>4. keys[l].handshake \in Int /\ keys[l].command \in Int
  BY <1>1, <1>3, KeyType
<1>5. Slack(failures[l]) \in Nat
  BY <1>1, SlackFacts, Constants
<1> QED BY <1>1, <1>2, <1>3, <1>4, <1>5, Constants DEF Usable

\* A lock whose keys Bold gave can be unlocked over Bluetooth at any moment
\* until more than MaxFailures refreshes in a row gave it nothing: requests
\* that fail, answers that leave the lock out, restarts at any step of a
\* refresh, and locks that come and go.  (async_refresh keeps what it had,
\* the store is written whole, and async_load takes it back.)
THEOREM KeysAlwaysOutlastFailures == Spec => []KeysOutlastFailures
<1> QED BY KeysInvariantHolds, LastingKeysAreUsable, PTL

\* While nothing is being refreshed, the store has all of the keys in memory.
THEOREM StoreAlwaysAgrees == Spec => []StoreAgrees
<1>1. KeysInvariant => StoreAgrees
  BY DEF KeysInvariant, MemoryAgrees, StoreAgrees
<1> QED BY <1>1, KeysInvariantHolds, PTL
=============================================================================
