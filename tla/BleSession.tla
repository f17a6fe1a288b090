------------------------------ MODULE BleSession ------------------------------
(***************************************************************************)
(* A conversation with a lock over Bluetooth: async_send_command and its   *)
(* BoldBleSession, from connecting to the lock's confirmation.  It takes   *)
(* the steps of LockCommand that are Bluetooth's.                          *)
(*                                                                         *)
(* The lock notifies bytes, however many at a time.  A byte is what it is  *)
(* of and the key stream it is encrypted by: AES-CTR combines them by an   *)
(* exclusive or, so a second time decrypts.  The nonce is the session's    *)
(* own and left out of the key.  A challenge is one byte, a command three, *)
(* and a block of the cipher BlockSize, so that lengths are in blocks what *)
(* they are in the code.                                                   *)
(***************************************************************************)
EXTENDS Integers, SequencesExt

CONSTANTS
    BlockSize,          \* of the cipher
    MaxEvents,          \* bound: events the lock sends
    SessionEnvironment, \* which of SessionHazards happen
    RightKey, OldKey,   \* handshake keys: the one the lock has, and an older one
    Nonce, Challenge,   \* the lock's
    OurChallenge,
    Payload,            \* of the handshake
    Activate            \* a byte of the command's

SessionHazards ==
    {"oldKey",          \* the handshake key is not the lock's (any more)
     "refuse",          \* the lock refuses, with an error or a result
     "odd",             \* it repeats itself, or answers nothing one would expect
     "fail",            \* the Bluetooth stack fails, or the time is up
     "disconnectRaises",\* disconnecting raises neither BleakError nor TimeoutError
     "cutOff"}          \* the time is up while disconnecting

ASSUME BlockSizeIsPositive == BlockSize \in Nat \ {0}
ASSUME EventsAreBounded == MaxEvents \in Nat
ASSUME SessionEnvironmentIsHazards == SessionEnvironment \subseteq SessionHazards

VARIABLES
    (* the client *)
    waits,              \* what async_send_command waits for
    outcome, seconds,   \* how it ended
    error,              \* and what went wrong
    timedOut,           \* its time is up
    key,                \* the handshake key it has
    buffer, packets,    \* _buffer, _packets
    clientResponse,     \* of the handshake
    cryptor,            \* _cryptor
    linked,             \* connected
    oldLink,            \* the conversation is over, and the connection still there
    disconnecting,      \* the task that ends it
    (* the lock *)
    written,            \* the packet it is to answer
    notified,           \* bytes on their way from it
    lockCryptor,
    granted,            \* once it carried the command out, the activation time
    events,
    (* history *)
    sent, taken,        \* packets the lock sent, and those taken for replies
    odd                 \* the lock was

session == <<buffer, packets, clientResponse, cryptor, taken>>
ending == <<outcome, seconds, error, timedOut>>
connection == <<linked, oldLink, disconnecting>>
lock == <<notified, lockCryptor, granted, events, sent, odd>>
sessionVars == <<waits, ending, key, session, connection, written, lock>>

-----------------------------------------------------------------------------
(* Bytes and packets                                                       *)

StartHandshake == 160
HandshakeResponse == 161
HandshakeClientResponse == 162
HandshakeFinished == 163
Command == 164
CommandAck == 165
EventPacket == 208
ClientBlocked == 253
HandshakeExpired == 254
EncryptionError == 255

IsError(type) == type >= 240

Plain(value) == [of |-> value, by |-> {}]

Packet(type, payload) == [type |-> type, payload |-> payload]

NoPacket == Packet(0, <<>>)

\* encode_packet, and the error packets of a lock.
Encode(packet) ==
    LET size == Len(packet.payload)
    IN  IF IsError(packet.type) THEN <<Plain(packet.type)>>
        ELSE <<Plain(packet.type), Plain(size % 256), Plain(size \div 256)>> \o packet.payload

MutatedIsWhole(bytes, first, size) == size \in 0..Len(bytes) - first - 3

IsWhole(bytes, first, size) == size \in 0..Len(bytes) - first - 2

MutatedIsReply(type) == TRUE

\* Events can arrive in the middle of a conversation.
IsReply(type) == type # EventPacket

\* The loop of data_received: the packets in some bytes from each on, and the
\* bytes left.
Parsed(bytes) ==
    LET from[i \in 1..Len(bytes) + 1] ==
            LET type == bytes[i].of
                size == bytes[i + 1].of + 256 * bytes[i + 2].of
                then(packet, next) ==
                    [packets |-> (IF IsReply(type) THEN <<packet>> ELSE <<>>) \o from[next].packets,
                     rest |-> from[next].rest]
            IN  IF i <= Len(bytes) /\ IsError(type)
                THEN then(Packet(type, <<>>), i + 1)
                ELSE IF i + 2 <= Len(bytes) /\ IsWhole(bytes, i, size)
                THEN then(Packet(type, SubSeq(bytes, i + 3, i + 2 + size)), i + 3 + size)
                ELSE [packets |-> <<>>, rest |-> SubSeq(bytes, i, Len(bytes))]
    IN  from

Received(bytes) == Parsed(bytes)[1]

-----------------------------------------------------------------------------
(* BoldCryptor                                                             *)

Cryptor(k) == [key |-> k, counter |-> 0]

NoCryptor == Cryptor(<<>>)

Xor(byte, stream) ==
    [byte EXCEPT !.by = IF stream \in @ THEN @ \ {stream} ELSE @ \cup {stream}]

Process(c, bytes) ==
    [i \in 1..Len(bytes) |-> Xor(bytes[i], <<c.key, (c.counter % 256) * BlockSize + i>>)]

MutatedBlocks(length) == 1

\* Blocks that were begun.
Blocks(length) == (length + BlockSize - 1) \div BlockSize

\* The cryptor once it has processed some bytes.
After(c, bytes) == [c EXCEPT !.counter = @ + Blocks(Len(bytes))]

-----------------------------------------------------------------------------
(* The lock, once it is connected to                                       *)

ActivationTime == 15
NotGranted == -1

\* Its own cipher starts each message at the next block no other was in.
LockAfter(c, bytes) ==
    [c EXCEPT !.counter = Min({n \in @..@ + Len(bytes) : n * BlockSize >= @ * BlockSize + Len(bytes)})]

\* What it sends; only a reply answers what was written.
Sends(packet) ==
    /\ linked
    /\ notified' = notified \o Encode(packet)
    /\ sent' = IF packet.type = EventPacket THEN sent ELSE Append(sent, packet)
    /\ UNCHANGED <<waits, ending, key, session, connection>>

Replies(packet) == written # NoPacket /\ written' = NoPacket /\ Sends(packet)

LockStarts ==
    /\ written.type = StartHandshake
    /\ Replies(Packet(HandshakeResponse, <<Plain(Nonce), Plain(Challenge)>>))
    /\ UNCHANGED <<lockCryptor, granted, events, odd>>

\* It checks its challenge, and returns the client's.
LockFinishes ==
    /\ written.type = HandshakeClientResponse
    /\ LET ours == Process(Cryptor(RightKey), <<Plain(Challenge)>>)
           response == Process(LockAfter(Cryptor(RightKey), ours), written.payload)
           finished == <<Plain(0), response[2]>>
       IN  IF SubSeq(response, 1, 1) = ours
           THEN /\ lockCryptor' = LockAfter(Cryptor(response), finished)
                /\ Replies(Packet(HandshakeFinished, Process(Cryptor(response), finished)))
           ELSE /\ Replies(Packet(EncryptionError, <<>>))
                /\ UNCHANGED lockCryptor
    /\ UNCHANGED <<granted, events, odd>>

TheCommand == <<Plain(Activate), Plain(Activate), Plain(Activate)>>

\* The command it reads, and how it acknowledges it.
Reads == Process(lockCryptor, written.payload)
Acknowledges(ack) ==
    Replies(Packet(CommandAck, Process(LockAfter(lockCryptor, written.payload), ack)))

LockExecutes ==
    /\ written.type = Command
    /\ IF Reads = TheCommand
       THEN /\ \E ack \in {<<0>>, <<0, ActivationTime, 0>>, <<0, ActivationTime, 0, 7>>} :
                   /\ granted' = IF Len(ack) = 1 THEN 0 ELSE ActivationTime
                   /\ Acknowledges([i \in 1..Len(ack) |-> Plain(ack[i])])
       ELSE /\ Replies(Packet(EncryptionError, <<>>))
            /\ UNCHANGED granted
    /\ UNCHANGED <<lockCryptor, events, odd>>

LockRefuses ==
    /\ "refuse" \in SessionEnvironment
    /\ \/ \E type \in {ClientBlocked, HandshakeExpired} : Replies(Packet(type, <<>>))
       \/ /\ written.type = Command
          /\ \E result \in {240, 1} : Acknowledges(<<Plain(result), Plain(ActivationTime), Plain(0)>>)
    /\ UNCHANGED <<lockCryptor, granted, events, odd>>

\* Another reply, one with nothing in it, or the last one once more.
LockIsOdd ==
    /\ "odd" \in SessionEnvironment
    /\ ~ odd /\ odd' = TRUE
    /\ \/ \E type \in {HandshakeResponse, HandshakeFinished, CommandAck} :
              Replies(Packet(type, <<>>))
       \/ sent # <<>> /\ Sends(Last(sent)) /\ UNCHANGED written
    /\ UNCHANGED <<lockCryptor, granted, events>>

\* An event may hold bytes like those of an error.
LockEvent ==
    /\ events < MaxEvents
    /\ events' = events + 1
    /\ Sends(Packet(EventPacket, <<Plain(255), Plain(CommandAck)>>))
    /\ UNCHANGED <<written, lockCryptor, granted, odd>>

-----------------------------------------------------------------------------
(* The conversation                                                        *)

\* The reply each call of _call waits for.
Expected == [response |-> HandshakeResponse, finished |-> HandshakeFinished, ack |-> CommandAck]

Talking == waits \in DOMAIN Expected

\* data_received
DataReceived ==
    /\ linked
    /\ \E n \in 1..Len(notified) :
        LET received == Received(buffer \o SubSeq(notified, 1, n))
        IN  /\ buffer' = received.rest
            /\ packets' = packets \o received.packets
            /\ notified' = SubSeq(notified, n + 1, Len(notified))
    /\ UNCHANGED <<waits, ending, key, clientResponse, cryptor, taken, connection, written,
                   lockCryptor, granted, events, sent, odd>>

MutatedHangUp(what) ==
    /\ waits' = "ended"
    /\ error' = what /\ outcome' = "error"
    /\ written' = NoPacket
    /\ UNCHANGED <<seconds, clientResponse, cryptor>>

\* An error in the conversation: the client disconnects.  What it had written
\* the lock has answered by now, or never does.
HangUp(what) ==
    /\ waits' = "hangUp"
    /\ error' = what
    /\ written' = NoPacket
    /\ UNCHANGED <<outcome, seconds, clientResponse, cryptor>>

\* The first part of _call: sends a packet, for the reply to be waited for.
Call(type, payload, next) ==
    /\ written' = Packet(type, payload)
    /\ waits' = next
    /\ UNCHANGED ending

\* establish_connection and start_notify; then the handshake starts.
Connects ==
    /\ waits = "connecting"
    /\ linked' = TRUE
    /\ Call(StartHandshake, <<Plain(Payload)>>, "response")
    /\ UNCHANGED <<key, session, oldLink, disconnecting, lock>>

\* The second part of _call: whatever packet is next is taken for the reply.
Reply(call) ==
    /\ waits = call
    /\ packets # <<>>
    /\ packets' = Tail(packets)
    /\ taken' = Append(taken, Head(packets))
    /\ UNCHANGED <<timedOut, key, buffer, connection, lock>>

\* It is not.
UnexpectedReply ==
    \E call \in DOMAIN Expected :
        /\ Reply(call)
        /\ Head(packets).type # Expected[call]
        /\ HangUp(IF Head(packets).type \in {ClientBlocked, HandshakeExpired}
                  THEN "refused" ELSE "unexpected")

\* It is: how the conversation goes on with its payload.
Answered(call) == Reply(call) /\ Head(packets).type = Expected[call]

Answer == Head(packets).payload

HandshakeResponds ==
    /\ Answered("response")
    /\ IF Len(Answer) < 2
       THEN HangUp("unexpected")
       ELSE LET challenge == SubSeq(Answer, 2, 2)
                response == Process(Cryptor(key), challenge) \o <<Plain(OurChallenge)>>
            IN  /\ clientResponse' = response
                /\ Call(HandshakeClientResponse,
                        Process(After(Cryptor(key), challenge), response), "finished")
                /\ UNCHANGED cryptor

HandshakeFinishes ==
    /\ Answered("finished")
    /\ LET c == Cryptor(clientResponse)
       IN  IF Process(c, Answer) # <<Plain(0), Plain(OurChallenge)>>
           THEN HangUp("unexpected")
           ELSE /\ cryptor' = After(After(c, Answer), TheCommand)
                /\ Call(Command, Process(After(c, Answer), TheCommand), "ack")
                /\ UNCHANGED clientResponse

\* The activation time: 0 says none was given.
Activation(ack) == IF Len(ack) >= 3 THEN ack[2].of + 256 * ack[3].of ELSE 0

MutatedGranted(ack) == ack # <<>> /\ ack[1] # Plain(240)

Granted(ack) == ack # <<>> /\ ack[1] = Plain(0)

\* Once the lock confirms the command, disconnecting is left to a task.
CommandAcknowledged ==
    /\ waits = "ack" /\ packets # <<>> /\ Head(packets).type = CommandAck
    /\ LET ack == Process(cryptor, Answer)
       IN  IF Granted(ack)
           THEN /\ waits' = "ended"
                /\ outcome' = "ok"
                /\ seconds' = Activation(ack)
                /\ packets' = Tail(packets) /\ taken' = Append(taken, Head(packets))
                /\ linked' = FALSE /\ oldLink' = TRUE /\ disconnecting' = "running"
                /\ cryptor' = After(cryptor, Answer)
                /\ UNCHANGED <<error, timedOut, key, buffer, clientResponse, written, lock>>
           ELSE /\ Reply("ack")
                /\ HangUp(IF ack # <<>> /\ ack[1].by = {} THEN "refused" ELSE "unexpected")

\* A BleakError, or asyncio.timeout.
Fails ==
    /\ "fail" \in SessionEnvironment
    /\ timedOut' \in BOOLEAN
    /\ \/ /\ waits = "connecting"
          /\ waits' = "ended" /\ outcome' = "error" /\ error' = "failed"
          /\ UNCHANGED <<seconds, clientResponse, cryptor, written>>
       \/ Talking /\ HangUp("failed")
    /\ UNCHANGED <<key, buffer, packets, taken, connection, lock>>

\* Disconnecting, before an error is raised: the time for it all is up once,
\* so only an error that came before can be cut off.
HangsUp ==
    /\ waits = "hangUp"
    /\ waits' = "ended"
    /\ linked' = FALSE
    /\ \/ outcome' = "error" /\ oldLink' = oldLink
       \/ "disconnectRaises" \in SessionEnvironment /\ outcome' = "raised" /\ oldLink' = oldLink
       \/ "cutOff" \in SessionEnvironment /\ ~ timedOut /\ outcome' = "error" /\ oldLink' = TRUE
    /\ UNCHANGED <<seconds, error, timedOut, key, session, disconnecting, written, lock>>

\* _async_disconnect
DisconnectEnds ==
    /\ disconnecting = "running"
    /\ oldLink' = FALSE
    /\ \/ disconnecting' = "done"
       \/ "disconnectRaises" \in SessionEnvironment /\ disconnecting' = "raised"
    /\ UNCHANGED <<waits, ending, key, session, linked, written, lock>>

Over ==
    /\ waits = "ended" /\ disconnecting # "running"
    /\ UNCHANGED sessionVars

-----------------------------------------------------------------------------
SessionInit ==
    /\ waits = "connecting" /\ outcome = "none" /\ seconds = 0 /\ error = "none" /\ timedOut = FALSE
    /\ key \in {RightKey} \cup IF "oldKey" \in SessionEnvironment THEN {OldKey} ELSE {}
    /\ buffer = <<>> /\ packets = <<>> /\ clientResponse = <<>> /\ cryptor = NoCryptor
    /\ linked = FALSE /\ oldLink = FALSE /\ disconnecting = "none"
    /\ written = NoPacket /\ notified = <<>> /\ lockCryptor = NoCryptor
    /\ granted = NotGranted /\ events = 0
    /\ sent = <<>> /\ taken = <<>> /\ odd = FALSE

SessionNext ==
    \/ LockStarts \/ LockFinishes \/ LockExecutes \/ LockRefuses \/ LockIsOdd \/ LockEvent
    \/ Connects \/ DataReceived \/ UnexpectedReply
    \/ HandshakeResponds \/ HandshakeFinishes \/ CommandAcknowledged
    \/ Fails \/ HangsUp \/ DisconnectEnds \/ Over

SessionSpec == SessionInit /\ [][SessionNext]_sessionVars

-----------------------------------------------------------------------------
(* Properties                                                              *)

\* Every variable has its type: no event is among the replies, and no whole
\* packet waits in the buffer.
SessionTypeOK ==
    /\ waits \in {"connecting", "hangUp", "ended"} \cup DOMAIN Expected
    /\ outcome \in {"none", "ok", "error", "raised"} /\ seconds \in Nat
    /\ outcome # "none" <=> waits = "ended"
    /\ error \in {"none", "refused", "unexpected", "failed"} /\ timedOut \in BOOLEAN
    /\ key \in {RightKey, OldKey}
    /\ EventPacket \notin {packets[i].type : i \in DOMAIN packets}
    /\ Received(buffer) = [packets |-> <<>>, rest |-> buffer]
    /\ waits = "ack" => cryptor # NoCryptor
    /\ linked \in BOOLEAN /\ oldLink \in BOOLEAN
    /\ disconnecting \in {"none", "running", "done", "raised"}
    /\ written # NoPacket => linked
    /\ granted \in Nat \cup {NotGranted} /\ events \in 0..MaxEvents /\ odd \in BOOLEAN

\* However notifications split and join what the lock sent, and whatever events
\* come in between, the replies are the packets it sent, in order, and once all
\* bytes came, all of them ("which may split or join packets").
Reassembled ==
    linked =>
        /\ IsPrefix(taken \o packets, sent)
        /\ notified = <<>> => taken \o packets = sent /\ buffer = <<>>

\* With the lock's key, the two sides understand each other, whatever the
\* lengths of what they say: their ciphers stay in step, so that the lock never
\* reports an encryption error nor seems to fail the handshake.
Understood == error = "unexpected" => odd \/ key # RightKey

\* A result is that of a command the lock carried out, with the activation time
\* it gave ("Returns the activation time in seconds"): no refusal is taken for
\* one, nor a reply that was to something else.
ResultIsReal == outcome = "ok" => seconds = granted

\* The invariants are inductive together with these:

\* what the client has yet to receive are whole packets, the rest of those sent,
RestIsComing ==
    LET coming == Received(buffer \o notified)
    IN  coming.rest = <<>> /\ sent = taken \o packets \o coming.packets

Response == Process(Cryptor(key), <<Plain(Challenge)>>) \o <<Plain(OurChallenge)>>
Confirmation == <<Plain(0), Plain(OurChallenge)>>
ForCommand == After(Cryptor(Response), Confirmation)

Says == [response |-> Packet(StartHandshake, <<Plain(Payload)>>),
         finished |-> Packet(HandshakeClientResponse,
                             Process(After(Cryptor(key), <<Plain(Challenge)>>), Response)),
         ack |-> Packet(Command, Process(ForCommand, TheCommand))]

\* the client says what belongs to the reply it waits for, by the cipher for it,
ClientInStep ==
    /\ written # NoPacket => Talking /\ written = Says[waits]
    /\ waits \in {"finished", "ack"} => clientResponse = Response
    /\ waits = "ack" => cryptor = After(ForCommand, TheCommand)

ReadyForCommand == key = RightKey /\ lockCryptor = LockAfter(Cryptor(Response), Confirmation)
CommandAnswered == waits \in {"ack", "hangUp", "ended"} /\ written = NoPacket

Acks ==
    {<<Plain(0)>>, <<Plain(0), Plain(ActivationTime), Plain(0)>>,
     <<Plain(0), Plain(ActivationTime), Plain(0), Plain(7)>>}
    \cup {<<Plain(result), Plain(ActivationTime), Plain(0)>> : result \in {240, 1}}

\* and the lock, by its own cipher, what answers that, or nothing:
LockSays(packet) ==
    \/ packet = Packet(HandshakeResponse, <<Plain(Nonce), Plain(Challenge)>>)
    \/ /\ packet = Packet(HandshakeFinished, Process(Cryptor(Response), Confirmation))
       /\ ReadyForCommand
    \/ /\ ReadyForCommand /\ CommandAnswered
       /\ \E ack \in Acks :
              /\ packet = Packet(CommandAck, Process(LockAfter(lockCryptor, TheCommand), ack))
              /\ Granted(ack) => granted = Activation(ack)

Empty ==
    {Packet(type, <<>>) :
        type \in {HandshakeResponse, HandshakeFinished, CommandAck,
                  ClientBlocked, HandshakeExpired, EncryptionError}}

LockInStep ==
    /\ \A i \in 1..Len(sent) : sent[i] \in Empty \/ LockSays(sent[i])
    /\ waits = "ack" => ReadyForCommand
    /\ granted # NotGranted => CommandAnswered

\* one reply to each call, and with the lock's key the one it waits for.
OneReplyEach ==
    ~ odd /\ Talking =>
        /\ Len(sent) = Len(taken) + IF written = NoPacket THEN 1 ELSE 0
        /\ key = RightKey /\ written = NoPacket =>
               \/ Last(sent).type \in {ClientBlocked, HandshakeExpired}
               \/ Last(sent).type = Expected[waits] /\ LockSays(Last(sent))

\* And there is one connection, from the first call to the end.
OneLink ==
    waits # "ended" =>
        /\ ~ oldLink /\ disconnecting = "none"
        /\ linked <=> waits # "connecting"
        /\ waits = "connecting" => sent = <<>>

SessionInvariant ==
    /\ RestIsComing /\ ClientInStep /\ LockInStep /\ OneReplyEach /\ OneLink
    /\ Understood /\ ResultIsReal

\* In the terms of LockCommand: a first command, over Bluetooth, of one entity.
CommandStep ==
    CASE waits = "ended" -> "idle"
      [] waits \in {"response", "finished"} -> "handshake"
      [] waits = "ack" -> IF granted = NotGranted THEN "command" ELSE "executed"
      [] OTHER -> waits

OfOne(value) == [e \in 0 .. 0 |-> value]

Conversation ==
    INSTANCE LockCommand WITH
        MaxCommands <- 1, MaxReloads <- 0, entity <- 0,
        Environment <- {"refuse", "fail", "disconnectRaises", "cutOff"},
        method <- "bluetooth_only", connect <- FALSE, signal <- "strong", keys <- TRUE,
        step <- OfOne(CommandStep), outcome <- OfOne(outcome), linked <- OfOne(linked), disconnecting <- OfOne(disconnecting),
        oldLink <- OfOne(disconnecting = "running"),
        abandoned <- oldLink /\ disconnecting = "none",
        routes <- OfOne(<<"bluetooth">>), usable <- OfOne({"bluetooth"}),
        tried <- OfOne({"bluetooth"}), executed <- OfOne(granted # NotGranted), commands <- 1

\* Every step is one of LockCommand's, or none to it: so an error, but for one
\* cut off by the time, is raised once the lock is disconnected, and what
\* LockCommand shows of its conversations is so of this one.
ConversationFollowed ==
    [][Conversation!Proceeds(0) \/ Conversation!DisconnectEnds(0)]_(Conversation!vars)

\* Every error is raised once the lock is disconnected ("On errors, the lock is
\* disconnected before raising").
DisconnectedOnErrors == outcome = "error" => ~ oldLink
=============================================================================
