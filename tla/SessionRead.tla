----------------------------- MODULE SessionRead -----------------------------
(***************************************************************************)
(* The read path of a Session (Session.cpp: start, doRead, onMessage,      *)
(* updateIdleTimer, onIdle) together with the response callbacks of        *)
(* SessionCallbacks: bytes arrive in pieces of any length, are collected in*)
(* m_data, decoded one message after the other, and each message goes to   *)
(* the callback registered under its sequence number or to the default     *)
(* handler.                                                                *)
(*                                                                         *)
(* The peer runs the same program.  It answers the requests of             *)
(* SessionCallbacks and sends messages of its own, whose sequence numbers  *)
(* come from its own counter and may be those of pending requests.  What it*)
(* sends is encoded by P2PMessage.encode, whose verdict asyncSendMessage   *)
(* ignores.                                                                *)
(*                                                                         *)
(* doRead and its handler run on the io_service thread, so that one read   *)
(* at a time is outstanding; the callers, the pool and whoever drops the   *)
(* session interleave with it between any two messages.                    *)
(***************************************************************************)
EXTENDS SessionCallbacks, P2PMessage

CONSTANTS
    PeerMessage,  \* the peer's own messages
    MaxOwn,       \* bound: how many of them it sends
    Piece         \* the numbers of bytes one read may return, if there are as many

VARIABLES
    wire,         \* bytes written by the peer and not read yet
    data,         \* m_data
    reader,       \* what the io_service thread does for this session
    errorTask,    \* the default handler is to be called with ProtocolError
    sent,         \* the messages the peer has written, in order
    got           \* the messages decode has returned, in order

readVars == <<wire, data, reader, errorTask, sent, got>>
allVars == <<vars, readVars>>

\* Service::sendRespMessageBySession
Response(r) ==
    [version |-> 0, packetType |-> 0, seq |-> r, ext |-> 1, options |-> NoOptions,
     payload |-> << >>]

Message == PeerMessage \cup {Response(r) : r \in Request}

ASSUME RequestAssumption == Request \subseteq UInt32 /\ 0 \notin OptionTypes
ASSUME PeerMessageAssumption == \A m \in PeerMessage : WellFormed(m) /\ ~isRespPacket(m)
ASSUME PieceAssumption == Piece \subseteq Nat

ReadTypeOK ==
    /\ wire \in Seq(Byte) /\ data \in Seq(Byte)
    /\ reader \in {"posted", "reading", "decoding", "stopped"}
    /\ errorTask \in BOOLEAN
    /\ sent \in Seq(Message) /\ got \in Seq(Message)

\* The types of the whole session: a timer runs only for a request with a timeout, and
\* whatever is decoded out of the stream is a message that the peer writes.
SessionTypeOK == TypeOK /\ ReadTypeOK

\* Session::start has armed the timers and posted doRead.
ReadInit ==
    /\ Init
    /\ wire = << >> /\ data = << >>
    /\ reader = "posted"
    /\ errorTask = FALSE
    /\ sent = << >> /\ got = << >>

-----------------------------------------------------------------------------
(* The peer. *)

\* drop closes the socket at its end; from then on what the peer writes is lost.
Open == actived \/ dropping

Write(m) ==
    IF Open THEN wire' = wire \o encode(m) /\ sent' = Append(sent, m)
            ELSE UNCHANGED <<wire, sent>>

PeerResponds(r) ==
    /\ Respond(r)
    /\ Write(Response(r))
    /\ UNCHANGED <<data, reader, errorTask, got>>

Own == SelectSeq(sent, LAMBDA m : ~isRespPacket(m))

PeerSends(m) ==
    /\ Open /\ Len(Own) < MaxOwn
    /\ Write(m)
    /\ UNCHANGED <<vars, data, reader, errorTask, got>>

-----------------------------------------------------------------------------
(* The io_service thread. *)

\* doRead starts an asynchronous read on a session that is active.
NextRead == reader' = IF actived THEN "reading" ELSE "stopped"

doRead ==
    /\ reader = "posted"
    /\ NextRead
    /\ UNCHANGED <<vars, wire, data, errorTask, sent, got>>

\* drop, which only one caller enters.
Dropped == IF actived THEN Deactivate ELSE UNCHANGED vars

\* The handler of the read, up to its loop.
ReadSome(n) ==
    /\ reader = "reading" /\ Open
    /\ wire # << >> /\ n <= Len(wire)
    /\ data' = data \o SubSeq(wire, 1, n)
    /\ wire' = SubSeq(wire, n + 1, Len(wire))
    /\ reader' = "decoding"
    /\ UNCHANGED <<vars, errorTask, sent, got>>

\* The read fails: the peer or the network ends the connection, or drop has closed
\* the socket.
ReadFails ==
    /\ reader = "reading"
    /\ reader' = "stopped"
    /\ Dropped
    /\ UNCHANGED <<wire, data, errorTask, sent, got>>

\* Mutant: a message is taken for a response because of its sequence number alone.
dispatchBySeq(m) ==
    /\ IF actived /\ m.seq \in callbacks
       THEN /\ timer' = Cancelled({m.seq})
            /\ pool' = pool \cup {Call(m.seq, "response")}
            /\ peer' = [peer EXCEPT ![m.seq] = "none"]
       ELSE UNCHANGED <<peer, timer, pool>>
    /\ UNCHANGED <<actived, dropping, callbacks, caller, invoked>>

\* onMessage: nothing happens on a session that is not active.  Other messages than
\* responses go to the default handler.
dispatch(m) ==
    IF actived /\ isRespPacket(m) THEN onMessage(m.seq) ELSE UNCHANGED vars

\* Mutant: the loop ends after one message.
TakeOneMessage ==
    LET d == decode(data) IN
    /\ reader = "decoding" /\ d.result > 0
    /\ dispatch(d.message)
    /\ got' = Append(got, d.message)
    /\ data' = Cropped(data, d.result)
    /\ NextRead
    /\ UNCHANGED <<wire, errorTask, sent>>

TakeMessage ==
    LET d == decode(data) IN
    /\ reader = "decoding" /\ d.result > 0
    /\ dispatch(d.message)
    /\ got' = Append(got, d.message)
    /\ data' = Cropped(data, d.result)
    /\ UNCHANGED <<wire, reader, errorTask, sent>>

\* Mutant: the rest of the buffer is thrown away.
ReadOnForgetting ==
    /\ reader = "decoding" /\ decode(data).result = MESSAGE_INCOMPLETE
    /\ NextRead
    /\ data' = << >>
    /\ UNCHANGED <<vars, wire, errorTask, sent, got>>

ReadOn ==
    /\ reader = "decoding" /\ decode(data).result = MESSAGE_INCOMPLETE
    /\ NextRead
    /\ UNCHANGED <<vars, wire, data, errorTask, sent, got>>

\* Mutant: the default handler is not told.
GiveUpSilently ==
    /\ reader = "decoding" /\ decode(data).result = MESSAGE_ERROR
    /\ reader' = "stopped"
    /\ UNCHANGED <<vars, wire, data, errorTask, sent, got>>

\* No read follows.  Only messages with options can fail, and they are not responses:
\* the default handler is called.
GiveUp ==
    /\ reader = "decoding" /\ decode(data).result = MESSAGE_ERROR
    /\ reader' = "stopped"
    /\ errorTask' = actived
    /\ UNCHANGED <<vars, wire, data, sent, got>>

IoStep ==
    \/ doRead \/ \E n \in Piece \cup {Len(wire)} : ReadSome(n)
    \/ TakeMessage \/ ReadOn \/ GiveUp

-----------------------------------------------------------------------------
(* What else drops the session. *)

\* A failed write or a call of disconnect.
disconnect ==
    /\ Deactivate
    /\ UNCHANGED readVars

\* start, each read and each write arm an idle timer (updateIdleTimer), so that it
\* runs, and may expire, as long as the session is active.
onIdle ==
    /\ Deactivate
    /\ UNCHANGED readVars

\* Service::onMessage stops the session on an error.
HandleError ==
    /\ errorTask
    /\ errorTask' = FALSE
    /\ Dropped
    /\ UNCHANGED <<wire, data, reader, sent, got>>

\* The steps of SessionCallbacks that do not touch the read path.
CallbackStep ==
    /\ \/ \E r \in Request : CallerStep(r) \/ Expire(r) \/ onTimeout(r)
       \/ CallAndErase
       \/ \E t \in pool : Invoke(t) \/ removeSeqCallback(t)
    /\ UNCHANGED readVars

ReadNext ==
    \/ \E r \in Request : PeerResponds(r)
    \/ \E m \in PeerMessage : PeerSends(m)
    \/ IoStep \/ ReadFails
    \/ disconnect \/ onIdle \/ HandleError
    \/ CallbackStep

ReadSpec == ReadInit /\ [][ReadNext]_allVars

\* SessionCallbacks' fairness; the io_service thread runs handlers that are ready and
\* the pool calls the handler.  No fairness for the causes of a drop.
ReadFairness ==
    /\ \A r \in Request :
          /\ WF_allVars((addSeqCallback(r) \/ Send(r)) /\ UNCHANGED readVars)
          /\ WF_allVars(Expire(r) /\ UNCHANGED readVars)
          /\ WF_allVars(onTimeout(r) /\ UNCHANGED readVars)
    /\ WF_allVars(CallAndErase /\ UNCHANGED readVars)
    /\ WF_allVars((\E t \in pool : Invoke(t) \/ removeSeqCallback(t)) /\ UNCHANGED readVars)
    /\ WF_allVars(IoStep)
    /\ WF_allVars(ReadFails /\ ~Open)
    /\ WF_allVars(HandleError)

ReadFairSpec == ReadSpec /\ ReadFairness

-----------------------------------------------------------------------------
(* Properties. *)

\* However the bytes are cut into reads, the messages taken out of the stream are
\* those the peer wrote, field by field and in order: none is invented, split, merged
\* or skipped, also not after a message that could not be encoded.
GotIsPrefix == IsPrefix(got, sent)

\* A message the peer sends on its own account does not answer a pending request
\* that happens to have the same sequence number.
OnlyResponsesAnswer ==
    \A r \in Request : "response" \in invoked[r] => \E i \in 1..Len(got) : got[i] = Response(r)

\* The messages before the first one that could not be encoded.
Intact ==
    LET broken == {i \in 1..Len(sent) : ~canEncode(sent[i])} IN
    IF broken = {} THEN sent
    ELSE SubSeq(sent, 1, (CHOOSE i \in broken : \A j \in broken : i <= j) - 1)

\* No message waits in m_data for more bytes than it has: when the loop of doRead is over
\* and nothing is under way, all messages up to one that could not be encoded were taken.
NothingLeftBehind == reader # "decoding" /\ wire = << >> => got = Intact

\* No message is left behind in m_data or unread: each is taken out of the stream in
\* the end, unless the session ends.
MessagesArrive == <>[](actived => got = Intact)

\* A session whose reading has stopped, because of a message that cannot be decoded,
\* does not stay: the default handler drops it, without waiting for the idle timer.
StalledIsDropped == (reader = "stopped") ~> ~actived
=============================================================================
