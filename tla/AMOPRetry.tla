------------------------------ MODULE AMOPRetry ------------------------------
(***************************************************************************)
(* Sending a message to one subscriber of a topic                          *)
(* (AMOPImpl::asyncSendMessageByTopic and its class RetrySender, over      *)
(* Service::asyncSendMessageByP2PNodeID), up to the client at the other    *)
(* end and back (onReceiveAMOPMessage, dispatcherAMOPMessage).  The        *)
(* gateways that subscribe the topic are tried one after the other until   *)
(* one of them answers; a client of this gateway is tried when there is    *)
(* none.                                                                   *)
(*                                                                         *)
(* What a gateway does with a request whose session was lost is left out:  *)
(* its response is lost, too.                                              *)
(***************************************************************************)
EXTENDS Integers, Sequences, SequencesExt

CONSTANTS
    P2pID,        \* the other gateways
    Self,         \* this gateway
    ClientError,  \* the error codes of a client: any int but SUCCESS
    Width         \* 2^16: the values of the status of an AMOPMessage

ASSUME FiniteAssumption == IsFiniteSet(P2pID)

ASSUME CodeAssumption ==
    /\ Width \in Nat /\ Width > 8
    /\ ClientError \subseteq Int \ {0}

VARIABLES
    nodeIDs,      \* m_nodeIDs of the RetrySender
    choosed,      \* the choosedNodeIDs so far
    connected,    \* gateways with an active session in Service
    pc,           \* where the call is
    request,      \* where the request is at the gateway that was chosen last
    response,     \* that gateway's response: packet type and status
    handled,      \* gateways whose client has handled the message
    answers,      \* what the caller's _respFunc was called with
    again,        \* the second call of a request's callback that is still to come
    late,         \* and what it tells the caller, if it is the response's
    truncated     \* history: gateways whose client's error is 0 in a uint16_t

vars == <<nodeIDs, choosed, connected, pc, request, response, handled, answers, again,
          late, truncated>>

SUCCESS == 0
AMOPSendMsgFailed == 1
NotFoundPeerByTopicSendMsg == 2
NotFoundClientByTopicDispatchMsg == 3

\* The codes with which tars reports a timeout of the call to a client.
TarsTimeout == {-8, -7}

\* An assignment to a uint16_t.
Unsigned(code) == code % Width

Response == [packetType : {"WSMessageType", "AMOPMessageType"}, status : 0..(Width - 1)]
ClientResponse == [packetType |-> "WSMessageType", status |-> SUCCESS]
CallerAnswer == [from : P2pID \cup {Self}, code : 0..(Width - 1)]

TypeOK ==
    /\ nodeIDs \in Seq(P2pID) /\ choosed \in Seq(P2pID)
    /\ connected \subseteq P2pID
    /\ pc \in {"start", "sendMessage", "established", "waiting", "local", "stuck", "done"}
    /\ request \in {"none", "received", "client", "answered"}
    /\ response \in Response
    /\ handled \subseteq P2pID \cup {Self}
    /\ answers \in Seq(CallerAnswer)
    /\ again \in {"no", "error", "response", "was"}
    /\ late \subseteq CallerAnswer
    /\ truncated \subseteq P2pID \cup {Self}
    /\ pc = "done" => answers # << >>

Init ==
    /\ nodeIDs = << >> /\ choosed = << >>
    /\ connected \in SUBSET P2pID
    /\ pc = "start"
    /\ request = "none"
    /\ response = ClientResponse
    /\ handled = {}
    /\ answers = << >>
    /\ again = "no" /\ late = {}
    /\ truncated = {}

\* The gateway whose client is to get the message.
Target == IF pc = "local" THEN Self ELSE Last(choosed)

Answer(from, code) ==
    /\ pc' = "done"
    /\ answers' = Append(answers, [from |-> from, code |-> code])

-----------------------------------------------------------------------------
(* The sender. *)

\* queryNodeIDsByTopic returns the subscribers that are connected, in the order
\* of a hash map.
queryNodeIDsByTopic(S) ==
    /\ pc = "start"
    /\ S # {} /\ S \subseteq connected
    /\ nodeIDs' \in SetToSeqs(S)
    /\ pc' = "sendMessage"
    /\ UNCHANGED <<choosed, connected, request, response, handled, answers, again, late,
                   truncated>>

\* Nobody else subscribes the topic: a client of this gateway may.
trySendTopicMessageToLocalClient ==
    /\ pc = "start"
    /\ pc' = "local"
    /\ request' = "received"
    /\ UNCHANGED <<nodeIDs, choosed, connected, response, handled, answers, again, late,
                   truncated>>

NobodySubscribes ==
    /\ pc = "start"
    /\ Answer(Self, NotFoundPeerByTopicSendMsg)
    /\ UNCHANGED <<nodeIDs, choosed, connected, request, response, handled, again, late,
                   truncated>>

\* Without a connection to n the callback is called at once, with an error, and
\* calls sendMessage again.
asyncSendMessageByP2PNodeID(n) ==
    pc' = IF n \in connected THEN "established" ELSE "sendMessage"

\* Mutant: nothing is erased (and only the last choice is recorded).
sendMessageKeepingNodes ==
    /\ pc = "sendMessage" /\ nodeIDs # << >>
    /\ \E i \in 1..Len(nodeIDs) :
          /\ choosed' = <<nodeIDs[i]>>
          /\ asyncSendMessageByP2PNodeID(nodeIDs[i])
    /\ UNCHANGED <<nodeIDs, connected, request, response, handled, answers, again, late,
                   truncated>>

\* RetrySender::sendMessage chooses any of the nodes and erases the first one.
sendMessage ==
    /\ pc = "sendMessage" /\ nodeIDs # << >>
    /\ \E i \in 1..Len(nodeIDs) :
          /\ choosed' = Append(choosed, nodeIDs[i])
          /\ asyncSendMessageByP2PNodeID(nodeIDs[i])
    /\ nodeIDs' = Tail(nodeIDs)
    /\ UNCHANGED <<connected, request, response, handled, answers, again, late, truncated>>

\* Mutant: the caller is not told.
sendMessageGivesUpSilently ==
    /\ pc = "sendMessage" /\ nodeIDs = << >>
    /\ pc' = "done"
    /\ UNCHANGED <<nodeIDs, choosed, connected, request, response, handled, answers, again,
                   late, truncated>>

sendMessageFails ==
    /\ pc = "sendMessage" /\ nodeIDs = << >>
    /\ Answer(Self, AMOPSendMsgFailed)
    /\ UNCHANGED <<nodeIDs, choosed, connected, request, response, handled, again, late,
                   truncated>>

\* asyncSendMessageByNodeID looks the session up once more.  If it has gone since
\* connected() was asked, the callback is never called.
asyncSendMessageByNodeID ==
    /\ pc = "established"
    /\ IF Last(choosed) \in connected
       THEN pc' = "waiting" /\ request' = "received"
       ELSE pc' = "stuck" /\ UNCHANGED request
    /\ UNCHANGED <<nodeIDs, choosed, connected, response, handled, answers, again, late,
                   truncated>>

\* The session is dropped after asyncSendMessage has found it active and before the
\* callback is registered: without a timeout nobody will call it.
CallbackLost ==
    /\ pc = "established" /\ Last(choosed) \in connected
    /\ connected' = connected \ {Last(choosed)}
    /\ pc' = "stuck"
    /\ UNCHANGED <<nodeIDs, choosed, request, response, handled, answers, again, late, truncated>>

-----------------------------------------------------------------------------
(* The gateway that gets the request. *)

\* AMOPMessage::setStatus and encode, in a packet of type AMOPMessageType.
AMOPResponse(code) == [packetType |-> "AMOPMessageType", status |-> Unsigned(code)]

\* A client is looked for.  The subscription the sender knows of may be out of date.
onReceiveAMOPMessage ==
    /\ request = "received"
    /\ \/ request' = "client" /\ UNCHANGED response
       \/ /\ request' = "answered"
          /\ response' = AMOPResponse(NotFoundClientByTopicDispatchMsg)
    /\ UNCHANGED <<nodeIDs, choosed, connected, pc, handled, answers, again, late, truncated>>

\* Mutant: an error is passed on as a client's response.
notifyCallbackCareless(code) ==
    /\ request = "client"
    /\ request' = "answered"
    /\ response' = ClientResponse
    /\ handled' = IF code = SUCCESS THEN handled \cup {Target} ELSE handled
    /\ UNCHANGED <<nodeIDs, choosed, connected, pc, answers, again, late, truncated>>

\* The callback of asyncNotifyAMOPMessage.  setStatus takes a uint16_t: an error code that
\* is a multiple of 2^16 becomes SUCCESS.
notifyCallback(code) ==
    /\ request = "client"
    /\ request' = "answered"
    /\ IF code = SUCCESS
       THEN /\ response' = ClientResponse
            /\ handled' = handled \cup {Target}
            /\ UNCHANGED truncated
       ELSE /\ response' = AMOPResponse(code)
            /\ truncated' = IF Unsigned(code) = SUCCESS
                            THEN truncated \cup {Target} ELSE truncated
            /\ UNCHANGED handled
    /\ UNCHANGED <<nodeIDs, choosed, connected, pc, answers, again, late>>

-----------------------------------------------------------------------------
(* The response. *)

\* The error code the caller gets: -1, assigned to a uint16_t, for a timeout of tars.
errorCode(r) ==
    IF r.packetType = "AMOPMessageType" /\ r.status \in {Unsigned(c) : c \in TarsTimeout}
    THEN Unsigned(-1)
    ELSE r.status

\* The callback given to asyncSendMessageByP2PNodeID, and onRecvAMOPResponse for a
\* client of this gateway.  A session that is dropped before the task has removed its
\* callback calls it once more.
OnResponse ==
    /\ pc \in {"waiting", "local"} /\ request = "answered"
    /\ request' = "none"
    /\ Answer(Target, errorCode(response))
    /\ \/ UNCHANGED <<connected, again>>
       \/ /\ pc = "waiting" /\ again = "no"
          /\ again' = "error"
          /\ connected' = connected \ {Target}
    /\ UNCHANGED <<nodeIDs, choosed, response, handled, late, truncated>>

\* The second call has an error: the RetrySender goes on although it is done.
CalledAgain ==
    /\ again = "error" /\ pc = "done"
    /\ again' = "was"
    /\ pc' = "sendMessage"
    /\ UNCHANGED <<nodeIDs, choosed, connected, request, response, handled, answers, late,
                   truncated>>

\* Mutant: no return after the call of sendMessage.
OnErrorFallsThrough ==
    /\ pc = "waiting"
    /\ connected' = connected \ {Last(choosed)}
    /\ request' = "none"
    /\ pc' = "sendMessage"
    /\ answers' = Append(answers, [from |-> Target, code |-> Unsigned(-1)])
    /\ UNCHANGED <<nodeIDs, choosed, response, handled, again, late, truncated>>

\* The session is dropped before the response's task has run.  There is no timeout.  If
\* the task has found its callback already, it calls it when it runs.
OnError ==
    /\ pc = "waiting"
    /\ connected' = connected \ {Last(choosed)}
    /\ request' = "none"
    /\ pc' = "sendMessage"
    /\ \/ UNCHANGED <<again, late>>
       \/ /\ request = "answered" /\ again = "no"
          /\ again' = "response"
          /\ late' = {[from |-> Target, code |-> errorCode(response)]}
    /\ UNCHANGED <<nodeIDs, choosed, response, handled, answers, truncated>>

\* The caller is answered while the RetrySender goes on, or after it has answered.
LateResponse ==
    /\ again = "response"
    /\ again' = "was"
    /\ \E a \in late : answers' = Append(answers, a)
    /\ late' = {}
    /\ UNCHANGED <<nodeIDs, choosed, connected, pc, request, response, handled, truncated>>

\* Sessions come and go; OnError is the drop of the one that is waited for.
ConnectionChanges(n) ==
    /\ connected' = IF n \in connected THEN connected \ {n} ELSE connected \cup {n}
    /\ pc # "done"
    /\ pc = "waiting" => n # Last(choosed)
    /\ UNCHANGED <<nodeIDs, choosed, pc, request, response, handled, answers, again, late,
                   truncated>>

SenderStep ==
    \/ \E S \in SUBSET P2pID : queryNodeIDsByTopic(S)
    \/ trySendTopicMessageToLocalClient \/ NobodySubscribes
    \/ sendMessage \/ sendMessageFails
    \/ asyncSendMessageByNodeID

RequestStep ==
    \/ onReceiveAMOPMessage
    \/ \E code \in ClientError \cup TarsTimeout \cup {SUCCESS} : notifyCallback(code)

Next ==
    \/ SenderStep
    \/ RequestStep
    \/ OnResponse
    \/ CalledAgain \/ LateResponse
    \/ OnError
    \/ CallbackLost
    \/ \E n \in P2pID : ConnectionChanges(n)

Spec == Init /\ [][Next]_vars

\* The sender goes on, and the peer and its client answer or the session is dropped.
FairSpec ==
    /\ Spec
    /\ WF_vars(SenderStep)
    /\ WF_vars(RequestStep \/ OnResponse \/ OnError)
    /\ WF_vars(CalledAgain \/ LateResponse)

-----------------------------------------------------------------------------
(* Properties. *)

\* Retrying ends: whatever connections come and go, the caller is answered, unless
\* the chosen gateway's session vanished while the request was being sent.
Answered == <>(answers # << >> \/ pc = "stuck")

\* Whatever connections come and go and however often the callback is called, the
\* RetrySender makes no more tries than there are gateways that subscribe the topic.
TriesBounded == Len(choosed) + Len(nodeIDs) <= Cardinality(P2pID)

\* The caller gets the code SUCCESS only from a gateway whose client has handled the
\* message or has reported an error that setStatus truncates to 0 (AMOPMessage.h).  No
\* other error turns into success: neither because of the packet type that tells errors
\* and responses apart, nor as a code of tars or of the gateway in the uint16_t it is
\* squeezed into twice.
SuccessIsHandled ==
    \A i \in 1..Len(answers) :
        answers[i].code = SUCCESS => answers[i].from \in handled \cup truncated

\* The caller is answered once, unless a session calls the callback of one request
\* twice.
AnsweredOnce == Len(answers) > 1 => again = "was"

\* "erase in case of select the same node when retry" (AMOPImpl.cpp).
NeverSelectedTwice ==
    \A i, j \in 1..Len(choosed) : choosed[i] = choosed[j] => i = j
=============================================================================
