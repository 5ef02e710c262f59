--------------------------- MODULE AMOPRetryProofs ---------------------------
(***************************************************************************)
(* Proofs about AMOPRetry: types, success only for a message that a client *)
(* has handled or whose error code was truncated, one answer unless a      *)
(* callback is called twice, and a bound on the tries.                     *)
(***************************************************************************)
EXTENDS AMOPRetry, FiniteSetTheorems, TLAPS

\* A request is somewhere only while its response is waited for, from a gateway that
\* was chosen.
RequestInv ==
    /\ pc \in {"established", "waiting"} => choosed # << >>
    /\ request # "none" => pc \in {"waiting", "local"}

\* A response that will be taken for success comes from a client that has handled the
\* message, or carries a truncated error.
ResponseInv ==
    /\ request = "answered" /\ errorCode(response) = SUCCESS => Target \in handled \cup truncated
    /\ \A a \in late : a.code = SUCCESS => a.from \in handled \cup truncated

\* The call is done when it has been answered, until the callback is called again.
OnceInv ==
    /\ again # "was" => Len(answers) = IF pc = "done" THEN 1 ELSE 0
    /\ again = "error" => pc = "done"

Inv == TypeOK /\ RequestInv /\ ResponseInv /\ SuccessIsHandled /\ OnceInv

-----------------------------------------------------------------------------

\* The codes of tars and of the gateway stay different from SUCCESS in a uint16_t; a
\* client's code becomes SUCCESS only if the assignment to the status makes it so.
LEMMA CodesStay ==
    ASSUME NEW c \in ClientError \cup TarsTimeout \cup {NotFoundClientByTopicDispatchMsg}
    PROVE  /\ Unsigned(c) \in 0..(Width - 1)
           /\ c \in TarsTimeout \cup {NotFoundClientByTopicDispatchMsg} => Unsigned(c) # SUCCESS
           /\ errorCode(AMOPResponse(c)) = SUCCESS => Unsigned(c) = SUCCESS
<1>1. Width \in Nat /\ Width > 8
  BY CodeAssumption
<1>2. \A n \in 1..(Width - 1) : n % Width = n
  BY <1>1
<1>3. \A n \in 1..8 : (-n) % Width = Width - n
  BY <1>1
<1>4. \A n \in Int : n % Width \in 0..(Width - 1)
  BY <1>1
<1>5. c \in Int
  BY CodeAssumption DEF TarsTimeout, NotFoundClientByTopicDispatchMsg
<1>6. Unsigned(c) \in 0..(Width - 1)
  BY <1>4, <1>5 DEF Unsigned
<1>7. ASSUME c \in TarsTimeout \cup {NotFoundClientByTopicDispatchMsg}
      PROVE  Unsigned(c) # SUCCESS
  <2>1. CASE c = NotFoundClientByTopicDispatchMsg
    <3>1. 3 \in 1..(Width - 1)
      BY <1>1
    <3>2. 3 % Width = 3
      BY <1>2, <3>1
    <3> QED BY <2>1, <3>2 DEF Unsigned, SUCCESS, NotFoundClientByTopicDispatchMsg
  <2>2. CASE c \in TarsTimeout
    <3>1. 7 \in 1..8 /\ 8 \in 1..8
      OBVIOUS
    <3>2. (-7) % Width = Width - 7 /\ (-8) % Width = Width - 8
      BY <1>3, <3>1
    <3> QED BY <1>1, <2>2, <3>2 DEF Unsigned, SUCCESS, TarsTimeout
  <2> QED BY <1>7, <2>1, <2>2
<1>8. Unsigned(-1) = Width - 1
  <2>1. 1 \in 1..8
    OBVIOUS
  <2> QED BY <2>1, <1>3 DEF Unsigned
<1>9. errorCode(AMOPResponse(c)) \in {Unsigned(-1), Unsigned(c)}
  BY DEF errorCode, AMOPResponse
<1> QED BY <1>1, <1>6, <1>7, <1>8, <1>9 DEF SUCCESS

\* The codes that AMOPImpl gives itself.
LEMMA CodesTyped ==
    /\ {SUCCESS, AMOPSendMsgFailed, NotFoundPeerByTopicSendMsg} \subseteq 0..(Width - 1)
    /\ AMOPSendMsgFailed # SUCCESS /\ NotFoundPeerByTopicSendMsg # SUCCESS
    /\ ClientResponse \in Response
    /\ \A c \in ClientError \cup TarsTimeout \cup {NotFoundClientByTopicDispatchMsg} :
          AMOPResponse(c) \in Response
<1>1. {SUCCESS, AMOPSendMsgFailed, NotFoundPeerByTopicSendMsg} \subseteq 0..(Width - 1)
  BY CodeAssumption DEF SUCCESS, AMOPSendMsgFailed, NotFoundPeerByTopicSendMsg
<1>2. ClientResponse \in Response
  BY <1>1 DEF ClientResponse, Response
<1>3. ASSUME NEW c \in ClientError \cup TarsTimeout \cup {NotFoundClientByTopicDispatchMsg}
      PROVE  AMOPResponse(c) \in Response
  <2>1. Unsigned(c) \in 0..(Width - 1)
    BY CodesStay, CodeAssumption
  <2> QED BY <2>1 DEF AMOPResponse, Response
<1> QED BY <1>1, <1>2, <1>3 DEF SUCCESS, AMOPSendMsgFailed, NotFoundPeerByTopicSendMsg

\* What the caller is told is a code within the width.
LEMMA ErrorCodeTyped ==
    ASSUME NEW r \in Response PROVE errorCode(r) \in 0..(Width - 1)
<1>1. Unsigned(-1) \in 0..(Width - 1)
  BY CodeAssumption DEF Unsigned
<1>2. r.status \in 0..(Width - 1)
  BY DEF Response
<1> QED BY <1>1, <1>2 DEF errorCode

\* What queryNodeIDsByTopic returns is a sequence of gateways.
LEMMA QueriedTyped ==
    ASSUME NEW S \in SUBSET P2pID, NEW f \in SetToSeqs(S)
    PROVE  f \in Seq(P2pID)
<1>1. IsFiniteSet(S)
  BY FS_Subset, FiniteAssumption
<1>2. Cardinality(S) \in Nat
  BY <1>1, FS_CardinalityType
<1>3. f \in [1..Cardinality(S) -> S]
  BY DEF SetToSeqs
<1> QED BY <1>2, <1>3

\* While a response is waited for the target is a gateway.
LEMMA TargetTyped ==
    ASSUME TypeOK, RequestInv, pc \in {"waiting", "local"}
    PROVE  Target \in P2pID \cup {Self}
BY DEF TypeOK, RequestInv, Target, Last

-----------------------------------------------------------------------------

\* The invariant holds at first.
LEMMA InitInv == Init => Inv
<1> SUFFICES ASSUME Init PROVE Inv
  OBVIOUS
<1>1. TypeOK
  BY CodesTyped DEF Init, TypeOK
<1> QED BY <1>1 DEF Init, Inv, RequestInv, ResponseInv, SuccessIsHandled, OnceInv

\* One more answer keeps what is known of the answers.
LEMMA AppendInv ==
    ASSUME Inv, NEW a \in CallerAnswer, answers' = Append(answers, a),
           UNCHANGED <<handled, truncated>>,
           a.code = SUCCESS => a.from \in handled \cup truncated
    PROVE  /\ answers' \in Seq(CallerAnswer)
           /\ answers' # << >> /\ Len(answers') = Len(answers) + 1
           /\ SuccessIsHandled'
<1>1. answers \in Seq(CallerAnswer)
  BY DEF Inv, TypeOK
<1>2. /\ answers' \in Seq(CallerAnswer)
      /\ Len(answers') = Len(answers) + 1 /\ Len(answers) \in Nat
      /\ answers'[Len(answers) + 1] = a
      /\ \A i \in 1..Len(answers) : answers'[i] = answers[i]
  BY <1>1
<1>3. SuccessIsHandled'
  <2> SUFFICES ASSUME NEW i \in 1..Len(answers'), answers'[i].code = SUCCESS
               PROVE  answers'[i].from \in handled \cup truncated
    BY DEF SuccessIsHandled
  <2>1. CASE i \in 1..Len(answers)
    BY <2>1, <1>2 DEF Inv, SuccessIsHandled
  <2>2. CASE i = Len(answers) + 1
    BY <2>2, <1>2
  <2> QED BY <2>1, <2>2, <1>2
<1>4. answers' # << >>
  BY <1>2
<1> QED BY <1>2, <1>3, <1>4

\* Answering the caller keeps what is known of the answers.
LEMMA AnswerInv ==
    ASSUME Inv, NEW from \in P2pID \cup {Self}, NEW code \in 0..(Width - 1),
           Answer(from, code), pc # "done", UNCHANGED <<handled, truncated>>,
           code = SUCCESS => from \in handled \cup truncated
    PROVE  /\ answers' \in Seq(CallerAnswer)
           /\ answers' # << >> /\ pc' = "done"
           /\ SuccessIsHandled'
           /\ again # "was" => Len(answers') = 1
<1> DEFINE a == [from |-> from, code |-> code]
<1>1. a \in CallerAnswer /\ a.code = code /\ a.from = from
  BY DEF CallerAnswer
<1>2. answers' = Append(answers, a) /\ pc' = "done"
  BY DEF Answer
<1> HIDE DEF a
<1>3. /\ answers' \in Seq(CallerAnswer)
      /\ answers' # << >> /\ Len(answers') = Len(answers) + 1
      /\ SuccessIsHandled'
  BY <1>1, <1>2, AppendInv
<1>4. again # "was" => Len(answers') = 1
  BY <1>3 DEF Inv, OnceInv
<1> QED BY <1>2, <1>3, <1>4

\* A step that leaves the answers and what follows from them alone keeps the
\* invariants about them.
LEMMA SameAnswersInv ==
    ASSUME Inv, UNCHANGED <<answers, again>>, pc # "done", pc' # "done",
           handled \subseteq handled', truncated \subseteq truncated'
    PROVE  SuccessIsHandled' /\ OnceInv'
<1>1. SuccessIsHandled'
  BY DEF Inv, SuccessIsHandled
<1>2. OnceInv'
  BY DEF Inv, OnceInv
<1> QED BY <1>1, <1>2

-----------------------------------------------------------------------------
(* One lemma per action. *)

\* queryNodeIDsByTopic keeps the invariant.
LEMMA QueryInv ==
    ASSUME Inv, NEW S \in SUBSET P2pID, queryNodeIDsByTopic(S) PROVE Inv'
<1>1. nodeIDs' \in Seq(P2pID)
  BY QueriedTyped DEF queryNodeIDsByTopic
<1>2. TypeOK'
  BY <1>1 DEF Inv, TypeOK, queryNodeIDsByTopic
<1>3. RequestInv' /\ ResponseInv'
  BY DEF Inv, RequestInv, ResponseInv, queryNodeIDsByTopic
<1>4. SuccessIsHandled' /\ OnceInv'
  BY SameAnswersInv DEF queryNodeIDsByTopic
<1> QED BY <1>2, <1>3, <1>4 DEF Inv

\* Trying a client of this gateway keeps the invariant.
LEMMA LocalInv == ASSUME Inv, trySendTopicMessageToLocalClient PROVE Inv'
<1>1. TypeOK'
  BY DEF Inv, TypeOK, trySendTopicMessageToLocalClient
<1>2. RequestInv' /\ ResponseInv'
  BY DEF Inv, RequestInv, ResponseInv, trySendTopicMessageToLocalClient
<1>3. SuccessIsHandled' /\ OnceInv'
  BY SameAnswersInv DEF trySendTopicMessageToLocalClient
<1> QED BY <1>1, <1>2, <1>3 DEF Inv

\* An answer of this gateway itself keeps the invariant.
LEMMA OwnAnswerInv ==
    ASSUME Inv, NEW code \in {AMOPSendMsgFailed, NotFoundPeerByTopicSendMsg},
           Answer(Self, code), pc \in {"start", "sendMessage"},
           UNCHANGED <<nodeIDs, choosed, connected, request, response, handled, again,
                       late, truncated>>
    PROVE  Inv'
<1>1. code \in 0..(Width - 1) /\ code # SUCCESS
  BY CodesTyped
<1>2. /\ answers' \in Seq(CallerAnswer)
      /\ answers' # << >> /\ pc' = "done"
      /\ SuccessIsHandled'
      /\ again # "was" => Len(answers') = 1
  BY <1>1, AnswerInv
<1>3. TypeOK'
  BY <1>2 DEF Inv, TypeOK
<1>4. RequestInv' /\ ResponseInv'
  BY <1>2 DEF Inv, RequestInv, ResponseInv
<1>5. OnceInv'
  BY <1>2 DEF Inv, OnceInv
<1> QED BY <1>2, <1>3, <1>4, <1>5 DEF Inv

\* RetrySender::sendMessage keeps the invariant.
LEMMA SendInv == ASSUME Inv, sendMessage PROVE Inv'
<1>1. PICK i \in 1..Len(nodeIDs) :
         /\ choosed' = Append(choosed, nodeIDs[i])
         /\ asyncSendMessageByP2PNodeID(nodeIDs[i])
  BY DEF sendMessage
<1>2. nodeIDs \in Seq(P2pID) /\ nodeIDs # << >> /\ choosed \in Seq(P2pID)
  BY DEF Inv, TypeOK, sendMessage
<1>3. nodeIDs[i] \in P2pID
  BY <1>2
<1>4. choosed' \in Seq(P2pID) /\ choosed' # << >>
  BY <1>1, <1>2, <1>3
<1>5. nodeIDs' \in Seq(P2pID)
  BY <1>2 DEF sendMessage
<1>6. pc = "sendMessage" /\ pc' \in {"established", "sendMessage"}
  BY <1>1 DEF sendMessage, asyncSendMessageByP2PNodeID
<1>7. TypeOK'
  BY <1>4, <1>5, <1>6 DEF Inv, TypeOK, sendMessage
<1>8. RequestInv' /\ ResponseInv'
  BY <1>4, <1>6 DEF Inv, RequestInv, ResponseInv, sendMessage
<1>9. SuccessIsHandled' /\ OnceInv'
  BY <1>6, SameAnswersInv DEF sendMessage
<1> QED BY <1>7, <1>8, <1>9 DEF Inv

\* Sending over the session, whether or not it is still there, keeps the invariant.
LEMMA EstablishedInv ==
    ASSUME Inv, asyncSendMessageByNodeID \/ CallbackLost PROVE Inv'
<1>1. pc = "established" /\ pc' \in {"waiting", "stuck"}
  BY DEF asyncSendMessageByNodeID, CallbackLost
<1>2. request = "none"
  BY <1>1 DEF Inv, RequestInv
<1>3. request' \in {"none", "received"} /\ (request' = "received" => pc' = "waiting")
  BY <1>2 DEF asyncSendMessageByNodeID, CallbackLost
<1>4. /\ UNCHANGED <<nodeIDs, choosed, response, handled, answers, again, late, truncated>>
      /\ connected' \subseteq P2pID
  BY DEF Inv, TypeOK, asyncSendMessageByNodeID, CallbackLost
<1>5. TypeOK'
  BY <1>1, <1>3, <1>4 DEF Inv, TypeOK
<1>6. RequestInv' /\ ResponseInv'
  BY <1>1, <1>3, <1>4 DEF Inv, RequestInv, ResponseInv
<1>7. SuccessIsHandled' /\ OnceInv'
  BY <1>1, <1>4, SameAnswersInv
<1> QED BY <1>5, <1>6, <1>7 DEF Inv

-----------------------------------------------------------------------------

\* Looking for a client at the gateway that was chosen keeps the invariant.
LEMMA ReceiveInv == ASSUME Inv, onReceiveAMOPMessage PROVE Inv'
<1>1. pc \in {"waiting", "local"}
  BY DEF Inv, RequestInv, onReceiveAMOPMessage
<1>2. AMOPResponse(NotFoundClientByTopicDispatchMsg) \in Response
  BY CodesTyped
<1>3. TypeOK'
  BY <1>2 DEF Inv, TypeOK, onReceiveAMOPMessage
<1>4. RequestInv'
  BY <1>1 DEF Inv, RequestInv, onReceiveAMOPMessage
<1>5. ResponseInv'
  <2>2. errorCode(AMOPResponse(NotFoundClientByTopicDispatchMsg)) # SUCCESS
    BY CodesStay
  <2>3. request' = "answered" => response' = AMOPResponse(NotFoundClientByTopicDispatchMsg)
    BY DEF onReceiveAMOPMessage
  <2>4. UNCHANGED <<late, handled, truncated>>
    BY DEF onReceiveAMOPMessage
  <2> QED BY <2>2, <2>3, <2>4 DEF Inv, ResponseInv, errorCode
<1>6. SuccessIsHandled' /\ OnceInv'
  BY <1>1, SameAnswersInv DEF onReceiveAMOPMessage
<1> QED BY <1>3, <1>4, <1>5, <1>6 DEF Inv

\* A client's response keeps the invariant.
LEMMA NotifyInv ==
    ASSUME Inv, NEW code \in ClientError \cup TarsTimeout \cup {SUCCESS}, notifyCallback(code)
    PROVE  Inv'
<1>1. pc \in {"waiting", "local"}
  BY DEF Inv, RequestInv, notifyCallback
<1>2. Target \in P2pID \cup {Self} /\ Target' = Target
  BY <1>1, TargetTyped DEF Inv, notifyCallback, Target
<1>3. request' = "answered" /\ UNCHANGED <<nodeIDs, choosed, connected, pc, answers, again, late>>
  BY DEF notifyCallback
<1>4. CASE code = SUCCESS
  <2>1. response' = ClientResponse /\ handled' = handled \cup {Target} /\ truncated' = truncated
    BY <1>4 DEF notifyCallback
  <2>2. TypeOK'
    BY <1>2, <1>3, <2>1, CodesTyped DEF Inv, TypeOK
  <2>3. RequestInv' /\ ResponseInv'
    BY <1>1, <1>2, <1>3, <2>1 DEF Inv, RequestInv, ResponseInv
  <2>4. SuccessIsHandled' /\ OnceInv'
    BY <1>1, <1>3, <2>1, SameAnswersInv
  <2> QED BY <2>2, <2>3, <2>4 DEF Inv
<1>5. CASE code # SUCCESS
  <2>1. /\ response' = AMOPResponse(code) /\ handled' = handled
        /\ truncated' = IF Unsigned(code) = SUCCESS THEN truncated \cup {Target} ELSE truncated
    BY <1>5 DEF notifyCallback
  <2>2. code \in ClientError \cup TarsTimeout
    BY <1>5
  <2>3. AMOPResponse(code) \in Response
    BY <2>2, CodesTyped
  <2>4. TypeOK'
    <3>1. truncated' \subseteq P2pID \cup {Self}
      BY <1>2, <2>1 DEF Inv, TypeOK
    <3> QED BY <1>3, <2>1, <2>3, <3>1 DEF Inv, TypeOK
  <2>5. ResponseInv'
    <3>1. errorCode(response') = SUCCESS => Target' \in truncated'
      BY <1>2, <2>1, <2>2, CodesStay
    <3>2. truncated \subseteq truncated'
      BY <2>1
    <3> QED BY <1>3, <2>1, <3>1, <3>2 DEF Inv, ResponseInv, errorCode
  <2>6. RequestInv'
    BY <1>1, <1>3 DEF Inv, RequestInv
  <2>7. SuccessIsHandled' /\ OnceInv'
    BY <1>1, <1>3, <2>1, SameAnswersInv
  <2> QED BY <2>4, <2>5, <2>6, <2>7 DEF Inv
<1> QED BY <1>4, <1>5

-----------------------------------------------------------------------------

\* The response's callback keeps the invariant.
LEMMA OnResponseInv == ASSUME Inv, OnResponse PROVE Inv'
<1>1. pc \in {"waiting", "local"} /\ request = "answered" /\ request' = "none"
  BY DEF OnResponse
<1>2. Target \in P2pID \cup {Self}
  BY <1>1, TargetTyped DEF Inv
<1>3. errorCode(response) \in 0..(Width - 1)
  BY ErrorCodeTyped DEF Inv, TypeOK
<1>4. errorCode(response) = SUCCESS => Target \in handled \cup truncated
  BY <1>1 DEF Inv, ResponseInv
<1>5. /\ Answer(Target, errorCode(response))
      /\ UNCHANGED <<nodeIDs, choosed, response, handled, late, truncated>>
  BY DEF OnResponse
<1>6. /\ answers' \in Seq(CallerAnswer)
      /\ answers' # << >> /\ pc' = "done"
      /\ SuccessIsHandled'
      /\ again # "was" => Len(answers') = 1
  BY <1>1, <1>2, <1>3, <1>4, <1>5, AnswerInv
<1>7. /\ connected' \subseteq P2pID
      /\ again' \in {"no", "error", "response", "was"}
      /\ (again' # "was" => again # "was")
  BY DEF Inv, TypeOK, OnResponse
<1>8. TypeOK'
  BY <1>1, <1>5, <1>6, <1>7 DEF Inv, TypeOK
<1>9. RequestInv' /\ ResponseInv'
  BY <1>1, <1>5, <1>6 DEF Inv, RequestInv, ResponseInv
<1>10. OnceInv'
  BY <1>6, <1>7 DEF OnceInv
<1> QED BY <1>6, <1>8, <1>9, <1>10 DEF Inv

\* The second call of a callback keeps the invariant.
LEMMA CalledAgainInv == ASSUME Inv, CalledAgain PROVE Inv'
<1>1. TypeOK'
  BY DEF Inv, TypeOK, CalledAgain
<1>2. RequestInv' /\ ResponseInv'
  BY DEF Inv, RequestInv, ResponseInv, CalledAgain
<1>3. SuccessIsHandled' /\ OnceInv'
  BY DEF Inv, SuccessIsHandled, OnceInv, CalledAgain
<1> QED BY <1>1, <1>2, <1>3 DEF Inv

\* The drop of the session that is waited for keeps the invariant.
LEMMA OnErrorInv == ASSUME Inv, OnError PROVE Inv'
<1> DEFINE a == [from |-> Target, code |-> errorCode(response)]
<1>1. a \in CallerAnswer /\ a.from = Target /\ a.code = errorCode(response)
  <2>1. Target \in P2pID \cup {Self}
    BY TargetTyped DEF Inv, OnError
  <2>2. errorCode(response) \in 0..(Width - 1)
    BY ErrorCodeTyped DEF Inv, TypeOK
  <2> QED BY <2>1, <2>2 DEF CallerAnswer
<1>2. \/ UNCHANGED <<again, late>>
      \/ request = "answered" /\ again = "no" /\ again' = "response" /\ late' = {a}
  BY DEF OnError
<1> HIDE DEF a
<1>3. TypeOK'
  BY <1>1, <1>2 DEF Inv, TypeOK, OnError
<1>4. RequestInv' /\ ResponseInv'
  <2>1. request = "answered" /\ errorCode(response) = SUCCESS => Target \in handled \cup truncated
    BY DEF Inv, ResponseInv
  <2>2. \A b \in late' : b.code = SUCCESS => b.from \in handled \cup truncated
    BY <1>1, <1>2, <2>1 DEF Inv, ResponseInv
  <2> QED BY <2>2 DEF Inv, RequestInv, ResponseInv, OnError
<1>5. SuccessIsHandled'
  BY DEF Inv, SuccessIsHandled, OnError
<1>6. OnceInv'
  BY <1>2 DEF Inv, OnceInv, OnError
<1> QED BY <1>3, <1>4, <1>5, <1>6 DEF Inv

\* The response's call after the drop's keeps the invariant.
LEMMA LateResponseInv == ASSUME Inv, LateResponse PROVE Inv'
<1>1. PICK a \in late : answers' = Append(answers, a)
  BY DEF LateResponse
<1>2. a \in CallerAnswer /\ (a.code = SUCCESS => a.from \in handled \cup truncated)
  BY DEF Inv, TypeOK, ResponseInv
<1>3. UNCHANGED <<handled, truncated>>
  BY DEF LateResponse
<1>4. answers' \in Seq(CallerAnswer) /\ answers' # << >> /\ SuccessIsHandled'
  BY <1>1, <1>2, <1>3, AppendInv
<1>5. TypeOK'
  BY <1>4 DEF Inv, TypeOK, LateResponse
<1>6. RequestInv' /\ ResponseInv'
  BY DEF Inv, RequestInv, ResponseInv, LateResponse, Target
<1>7. OnceInv'
  BY DEF OnceInv, LateResponse
<1> QED BY <1>4, <1>5, <1>6, <1>7 DEF Inv

\* Connections that come and go keep the invariant.
LEMMA ConnectionInv ==
    ASSUME Inv, NEW n \in P2pID, ConnectionChanges(n) PROVE Inv'
<1>1. TypeOK'
  BY DEF Inv, TypeOK, ConnectionChanges
<1>2. RequestInv' /\ ResponseInv'
  BY DEF Inv, RequestInv, ResponseInv, ConnectionChanges, Target
<1>3. SuccessIsHandled' /\ OnceInv'
  BY SameAnswersInv DEF ConnectionChanges
<1> QED BY <1>1, <1>2, <1>3 DEF Inv

\* Every step keeps the invariant.
LEMMA NextInv == Inv /\ [Next]_vars => Inv'
<1> SUFFICES ASSUME Inv, [Next]_vars PROVE Inv'
  OBVIOUS
<1>1. ASSUME NEW S \in SUBSET P2pID, queryNodeIDsByTopic(S) PROVE Inv'
  BY <1>1, QueryInv
<1>2. CASE trySendTopicMessageToLocalClient
  BY <1>2, LocalInv
<1>3. CASE NobodySubscribes
  BY <1>3, OwnAnswerInv DEF NobodySubscribes
<1>4. CASE sendMessage
  BY <1>4, SendInv
<1>5. CASE sendMessageFails
  BY <1>5, OwnAnswerInv DEF sendMessageFails
<1>6. CASE asyncSendMessageByNodeID \/ CallbackLost
  BY <1>6, EstablishedInv
<1>7. CASE onReceiveAMOPMessage
  BY <1>7, ReceiveInv
<1>8. ASSUME NEW code \in ClientError \cup TarsTimeout \cup {SUCCESS}, notifyCallback(code)
      PROVE  Inv'
  BY <1>8, NotifyInv
<1>9. CASE OnResponse
  BY <1>9, OnResponseInv
<1>10. CASE CalledAgain
  BY <1>10, CalledAgainInv
<1>11. CASE OnError
  BY <1>11, OnErrorInv
<1>12. ASSUME NEW n \in P2pID, ConnectionChanges(n) PROVE Inv'
  BY <1>12, ConnectionInv
<1>13. CASE LateResponse
  BY <1>13, LateResponseInv
<1>14. CASE UNCHANGED vars
  BY <1>14 DEF vars, Inv, TypeOK, RequestInv, ResponseInv, SuccessIsHandled, OnceInv, Target
<1> QED
  BY <1>1, <1>2, <1>3, <1>4, <1>5, <1>6, <1>7, <1>8, <1>9, <1>10, <1>11, <1>12, <1>13,
     <1>14
  DEF Next, SenderStep, RequestStep

-----------------------------------------------------------------------------

\* AMOPRetry is type-correct: every code the caller sees fits into the uint16_t of
\* the message's status, and the call is done only when the caller was answered.
THEOREM TypeCorrect == Spec => []TypeOK
<1>1. Inv => TypeOK
  BY DEF Inv
<1> QED BY <1>1, InitInv, NextInv, PTL DEF Spec

\* For any gateways and any error codes of clients: the caller of asyncSendMessageByTopic
\* gets the code SUCCESS only from a gateway whose client has handled the message or has
\* reported an error whose code setStatus truncates to 0.
THEOREM SuccessIsHandledHolds == Spec => []SuccessIsHandled
<1>1. Inv => SuccessIsHandled
  BY DEF Inv
<1> QED BY <1>1, InitInv, NextInv, PTL DEF Spec

\* The caller of asyncSendMessageByTopic is answered once, unless a session calls the
\* callback of one request twice.
THEOREM AnsweredOnceHolds == Spec => []AnsweredOnce
<1>1. Inv => AnsweredOnce
  <2> SUFFICES ASSUME OnceInv, Len(answers) > 1 PROVE again = "was"
    BY DEF Inv, AnsweredOnce
  <2>1. ASSUME again # "was" PROVE Len(answers) \in {0, 1}
    BY <2>1 DEF OnceInv
  <2>2. \A k \in {0, 1} : ~(k > 1)
    OBVIOUS
  <2> QED BY <2>1, <2>2
<1> QED BY <1>1, InitInv, NextInv, PTL DEF Spec

-----------------------------------------------------------------------------

\* Every choice costs an element of the list, which is filled once.
TriesInv == TriesBounded /\ (pc = "start" => choosed = << >> /\ nodeIDs = << >>)

\* Every step keeps the bound on the tries.
LEMMA TriesKept ==
    ASSUME TypeOK, TriesInv, [Next]_vars
    PROVE  TriesInv'
<1>0. /\ nodeIDs \in Seq(P2pID) /\ choosed \in Seq(P2pID)
      /\ Len(nodeIDs) \in Nat /\ Len(choosed) \in Nat
      /\ Cardinality(P2pID) \in Nat
  BY FS_CardinalityType, FiniteAssumption DEF TypeOK
\* The list that was queried names a gateway once.
<1>1. ASSUME NEW S \in SUBSET P2pID, queryNodeIDsByTopic(S)
      PROVE  TriesInv'
  <2>1. IsFiniteSet(S) /\ Cardinality(S) <= Cardinality(P2pID)
    BY FS_Subset, FiniteAssumption
  <2>2. Cardinality(S) \in Nat
    BY <2>1, FS_CardinalityType
  <2>3. nodeIDs' \in [1..Cardinality(S) -> S]
    BY <1>1 DEF queryNodeIDsByTopic, SetToSeqs
  <2>4. Len(nodeIDs') = Cardinality(S)
    BY <2>2, <2>3
  <2>5. choosed' = choosed /\ Len(choosed) = 0 /\ pc' # "start"
    BY <1>1 DEF queryNodeIDsByTopic, TriesInv
  <2> QED BY <1>0, <2>1, <2>2, <2>4, <2>5 DEF TriesInv, TriesBounded
<1>2. CASE sendMessage
  <2>1. PICK i \in 1..Len(nodeIDs) :
           /\ choosed' = Append(choosed, nodeIDs[i])
           /\ asyncSendMessageByP2PNodeID(nodeIDs[i])
    BY <1>2 DEF sendMessage
  <2>2. Len(choosed') = Len(choosed) + 1
    BY <1>0, <2>1
  <2>3. Len(nodeIDs') = Len(nodeIDs) - 1
    BY <1>0, <1>2 DEF sendMessage
  <2>4. pc' # "start"
    BY <2>1 DEF asyncSendMessageByP2PNodeID
  <2> QED BY <1>0, <2>2, <2>3, <2>4 DEF TriesInv, TriesBounded
\* Nothing else touches the list or the choices, or comes back to the start.
<1>3. ASSUME UNCHANGED <<nodeIDs, choosed>>, pc' = "start" => pc = "start"
      PROVE  TriesInv'
  BY <1>3 DEF TriesInv, TriesBounded
<1>4. CASE \/ trySendTopicMessageToLocalClient \/ NobodySubscribes
           \/ sendMessageFails \/ asyncSendMessageByNodeID \/ CallbackLost
           \/ RequestStep \/ OnResponse \/ CalledAgain \/ LateResponse \/ OnError
           \/ \E n \in P2pID : ConnectionChanges(n)
           \/ UNCHANGED vars
  <2>1. UNCHANGED <<nodeIDs, choosed>> /\ (pc' = "start" => pc = "start")
    BY <1>4 DEF trySendTopicMessageToLocalClient, NobodySubscribes, sendMessageFails,
       asyncSendMessageByNodeID, CallbackLost, RequestStep, onReceiveAMOPMessage,
       notifyCallback, OnResponse, CalledAgain, LateResponse, OnError, ConnectionChanges,
        Answer, vars
  <2> QED BY <1>3, <2>1
<1> QED BY <1>1, <1>2, <1>4 DEF Next, SenderStep

\* The RetrySender makes no more tries than there are other gateways, whatever
\* connections come and go and even if a callback is called twice.
THEOREM TriesBoundedHolds == Spec => []TriesBounded
<1>1. Init => TriesInv
  <2>1. Cardinality(P2pID) \in Nat
    BY FS_CardinalityType, FiniteAssumption
  <2>2. Len(<< >>) = 0
    OBVIOUS
  <2> QED BY <2>1, <2>2 DEF Init, TriesInv, TriesBounded
<1>2. TypeOK /\ TriesInv /\ [Next]_vars => TriesInv'
  BY TriesKept
<1>3. TriesInv => TriesBounded
  BY DEF TriesInv
<1> QED BY <1>1, <1>2, <1>3, TypeCorrect, PTL DEF Spec
=============================================================================
