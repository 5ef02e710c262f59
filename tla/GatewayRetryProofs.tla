-------------------------- MODULE GatewayRetryProofs --------------------------
(***************************************************************************)
(* Proofs about GatewayRetry: types; success is reported only for a        *)
(* message that was dispatched; a caller without an answer is not          *)
(* forgotten; and, as long as no session calls a callback twice, the       *)
(* caller is answered once and failure is final.                           *)
(***************************************************************************)
EXTENDS GatewayRetry, TLAPS

\* Gateways whose callback is still to be called for the first time.
Outstanding == {p \in routes \ called : p \in waiting \/ \E o \in Outcome : <<p, o>> \in calls}

\* A SUCCESS that is on its way, queued or reported comes from a gateway that has
\* dispatched the message.
SuccessInv ==
    /\ \A r \in response : r[2] = "SUCCESS" => dispatched # {}
    /\ \A c \in calls : c[2] = "SUCCESS" => dispatched # {}
    /\ Told("SUCCESS") => dispatched # {}

\* There is one token: a thread that chooses, a try whose callback is still to be called,
\* or the answer.  A silent try has lost it.
Token ==
    /\ choosing <= 1
    /\ choosing = 1 => answers = << >> /\ Outstanding = {} /\ ~silent
    /\ answers # << >> => Outstanding = {} /\ Len(answers) = 1 /\ ~silent
    /\ \A p, q \in Outstanding : p = q
    /\ silent => Outstanding = {}
    /\ ~started => choosing = 0 /\ answers = << >> /\ ~silent

\* Every gateway of the routes is still in the list, being tried, or has called back.
Tries ==
    /\ ~silent => routes \subseteq p2pIDs \cup called \cup Outstanding
    /\ Told("GatewaySendMsgFailed") => p2pIDs = {}

\* Token and Tries hold until a callback is called for the second time.
OnceInv == ~repeated => Token /\ Tries

-----------------------------------------------------------------------------

\* The steps of the sender keep the types.
LEMMA SenderTyped == TypeOK /\ Sender => TypeOK'
<1> SUFFICES ASSUME TypeOK, Sender PROVE TypeOK'
  OBVIOUS
<1>1. CASE trySendLocalMessage
  <2>1. started' \in BOOLEAN /\ answers' \in Seq(Answer)
    <3>1. started' \in BOOLEAN
      BY <1>1, Zenon DEF trySendLocalMessage
    <3>2. answers' \in Seq(Answer)
      BY <1>1 DEF TypeOK, trySendLocalMessage, Answer
    <3> QED BY <3>1, <3>2
  <2> QED BY <1>1, <2>1 DEF TypeOK, trySendLocalMessage, sessionVars
<1>2. ASSUME NEW S \in SUBSET P2pID, queryP2pIDs(S)
      PROVE  TypeOK'
  BY <1>2 DEF TypeOK, queryP2pIDs, sessionVars
<1>3. ASSUME NEW p \in P2pID, SendTo(p)
      PROVE  TypeOK'
  <2>1. silent' \in BOOLEAN
    BY <1>3, Zenon DEF TypeOK, SendTo
  <2>2. p \in routes /\ p2pIDs' \subseteq routes' /\ choosing' \in Nat
    BY <1>3 DEF TypeOK, SendTo, randomChooseP2pID
  <2>3. /\ request' \subseteq routes /\ waiting' \subseteq routes /\ timed' \subseteq routes
    BY <1>3, <2>2 DEF TypeOK, SendTo
  <2> QED BY <1>3, <2>1, <2>2, <2>3 DEF TypeOK, SendTo
<1>4. ASSUME NEW p \in P2pID, SendToDropped(p)
      PROVE  TypeOK'
  BY <1>4 DEF TypeOK, SendToDropped, randomChooseP2pID
<1>5. ASSUME NEW p \in P2pID, SendToInactive(p)
      PROVE  TypeOK'
  BY <1>5 DEF TypeOK, SendToInactive, randomChooseP2pID, Outcome
<1>6. CASE SendToNobody
  <2>1. silent' \in BOOLEAN
    BY <1>6, Zenon DEF SendToNobody
  <2> QED BY <1>6, <2>1 DEF TypeOK, SendToNobody, sessionVars
<1> QED BY <1>1, <1>2, <1>3, <1>4, <1>5, <1>6 DEF Sender

\* The callbacks keep the types.
LEMMA PoolTyped == TypeOK /\ Pool => TypeOK'
<1> SUFFICES ASSUME TypeOK, NEW p \in P2pID, NEW outcome \in Outcome, Callback(p, outcome)
             PROVE  TypeOK'
  BY DEF Pool
<1>1. p \in routes
  BY DEF TypeOK, Callback
<1>2. answers' \in Seq(Answer) /\ choosing' \in Nat
  <2>1. "SUCCESS" \in Answer /\ "GatewaySendMsgFailed" \in Answer
    BY DEF Answer
  <2>2. answers' \in {answers, Append(answers, "SUCCESS"),
                      Append(answers, "GatewaySendMsgFailed")}
    BY DEF Callback, trySendMessage
  <2>3. choosing' = choosing \/ choosing' = choosing + 1
    BY DEF Callback, trySendMessage
  <2> QED BY <2>1, <2>2, <2>3 DEF TypeOK
<1>3. repeated' \in BOOLEAN
  BY Zenon DEF Callback
<1> QED BY <1>1, <1>2, <1>3 DEF TypeOK, Callback

\* The steps of the sessions and of the peers keep the types.
LEMMA SessionsTyped ==
    ASSUME TypeOK, NEW p \in P2pID,
           \/ onReceiveP2PMessage(p)
           \/ \E code \in {"SUCCESS", "failed"} : onMessage(p, code)
           \/ onTimeout(p)
           \/ drop(p)
           \/ Reconnect(p)
    PROVE  TypeOK'
<1>1. CASE onReceiveP2PMessage(p)
  BY <1>1 DEF TypeOK, onReceiveP2PMessage, retryVars
<1>2. ASSUME NEW code \in {"SUCCESS", "failed"}, onMessage(p, code)
      PROVE  TypeOK'
  BY <1>2 DEF TypeOK, onMessage, retryVars, Outcome
<1>3. CASE onTimeout(p)
  BY <1>3 DEF TypeOK, onTimeout, retryVars, Outcome
<1>4. CASE drop(p)
  BY <1>4 DEF TypeOK, drop, retryVars, Outcome
<1>5. CASE Reconnect(p)
  BY <1>5 DEF TypeOK, Reconnect, retryVars, sessionVars
<1> QED BY <1>1, <1>2, <1>3, <1>4, <1>5

\* Every variable has its type in every reachable state.
THEOREM TypeCorrect == Spec => []TypeOK
<1>1. Init => TypeOK
  <2> SUFFICES ASSUME Init PROVE TypeOK
    OBVIOUS
  <2>1. started \in BOOLEAN /\ repeated \in BOOLEAN /\ silent \in BOOLEAN
    BY Zenon DEF Init
  <2> QED BY <2>1 DEF Init, TypeOK
<1>2. TypeOK /\ [Next]_vars => TypeOK'
  <2> SUFFICES ASSUME TypeOK, [Next]_vars PROVE TypeOK'
    OBVIOUS
  <2>1. CASE Next
    BY <2>1, SenderTyped, PoolTyped, SessionsTyped DEF Next
  <2>2. CASE UNCHANGED vars
    BY <2>2 DEF TypeOK, vars, retryVars, sessionVars
  <2> QED BY <2>1, <2>2
<1> QED BY <1>1, <1>2, PTL DEF Spec

-----------------------------------------------------------------------------

\* What the caller has been told after one more answer.
LEMMA ToldAppend ==
    ASSUME answers \in Seq(Answer), NEW a \in Answer, answers' = Append(answers, a),
           NEW b
    PROVE  Told(b)' <=> (Told(b) \/ a = b)
<1>1. /\ Len(answers) \in Nat /\ Len(answers') = Len(answers) + 1
      /\ answers'[Len(answers) + 1] = a
      /\ \A i \in 1..Len(answers) : answers'[i] = answers[i]
  OBVIOUS
<1>2. \A i \in 1..Len(answers') : i \in 1..Len(answers) \/ i = Len(answers) + 1
  BY <1>1
<1>3. \A i \in 1..Len(answers) : i \in 1..Len(answers')
  BY <1>1
<1>4. Len(answers) + 1 \in 1..Len(answers')
  BY <1>1
<1> QED BY <1>1, <1>2, <1>3, <1>4 DEF Told

\* Success is reported only if a gateway has passed the message on, whatever happens to
\* the sessions and however often a callback is called.
THEOREM SuccessIsDispatchedHolds == Spec => []SuccessIsDispatched
<1>1. Init => SuccessInv
  BY DEF Init, SuccessInv, Told
<1>2. TypeOK /\ SuccessInv /\ [Next]_vars => SuccessInv'
  <2> SUFFICES ASSUME TypeOK, SuccessInv, [Next]_vars PROVE SuccessInv'
    OBVIOUS
  <2>1. CASE trySendLocalMessage
    <3>1. PICK a \in {"local", "NotFoundFrontServiceSendMsg"} : answers' = Append(answers, a)
      BY <2>1 DEF trySendLocalMessage
    <3>2. Told("SUCCESS")' => Told("SUCCESS")
      BY <3>1, ToldAppend DEF TypeOK, Answer
    <3> QED BY <2>1, <3>2 DEF trySendLocalMessage, SuccessInv, sessionVars
  <2>2. ASSUME NEW S \in SUBSET P2pID, queryP2pIDs(S)
        PROVE  SuccessInv'
    BY <2>2 DEF queryP2pIDs, SuccessInv, Told, sessionVars
  <2>3. ASSUME NEW p \in P2pID, SendTo(p) \/ SendToDropped(p) \/ SendToInactive(p)
        PROVE  SuccessInv'
    BY <2>3 DEF SendTo, SendToDropped, SendToInactive, SuccessInv, Told
  <2>4. CASE SendToNobody
    BY <2>4 DEF SendToNobody, SuccessInv, Told, sessionVars
  <2>5. ASSUME NEW p \in P2pID, NEW outcome \in Outcome, Callback(p, outcome)
        PROVE  SuccessInv'
    <3>1. CASE outcome = "SUCCESS"
      <4>1. dispatched # {}
        BY <2>5, <3>1 DEF Callback, SuccessInv
      <4> QED BY <2>5, <4>1 DEF Callback, SuccessInv
    <3>2. CASE outcome # "SUCCESS"
      <4>1. Told("SUCCESS")' => Told("SUCCESS")
        <5>1. CASE answers' = answers
          BY <5>1 DEF Told
        <5>2. CASE answers' = Append(answers, "GatewaySendMsgFailed")
          BY <5>2, ToldAppend DEF TypeOK, Answer
        <5> QED BY <2>5, <3>2, <5>1, <5>2 DEF Callback, trySendMessage
      <4> QED BY <2>5, <4>1 DEF Callback, SuccessInv
    <3> QED BY <3>1, <3>2
  <2>6. ASSUME NEW p \in P2pID, onReceiveP2PMessage(p)
        PROVE  SuccessInv'
    BY <2>6 DEF onReceiveP2PMessage, SuccessInv, Told, retryVars
  <2>7. ASSUME NEW p \in P2pID, NEW code \in {"SUCCESS", "failed"}, onMessage(p, code)
        PROVE  SuccessInv'
    BY <2>7 DEF onMessage, SuccessInv, Told, retryVars
  <2>8. ASSUME NEW p \in P2pID, onTimeout(p) \/ drop(p) \/ Reconnect(p)
        PROVE  SuccessInv'
    BY <2>8 DEF onTimeout, drop, Reconnect, SuccessInv, Told, retryVars, sessionVars
  <2>9. CASE UNCHANGED vars
    BY <2>9 DEF vars, retryVars, sessionVars, SuccessInv, Told
  <2> QED BY <2>1, <2>2, <2>3, <2>4, <2>5, <2>6, <2>7, <2>8, <2>9 DEF Next, Sender, Pool
<1>3. SuccessInv => SuccessIsDispatched
  BY DEF SuccessInv, SuccessIsDispatched
<1> QED BY <1>1, <1>2, <1>3, TypeCorrect, PTL DEF Spec

-----------------------------------------------------------------------------

\* A session only changes how a try is to end: the outstanding ones stay the same.
LEMMA SessionsKeepOnce ==
    ASSUME TypeOK, OnceInv, NEW p \in P2pID,
           \/ onReceiveP2PMessage(p)
           \/ \E code \in {"SUCCESS", "failed"} : onMessage(p, code)
           \/ onTimeout(p)
           \/ drop(p)
           \/ Reconnect(p)
    PROVE  OnceInv'
<1>1. retryVars' = retryVars
  BY DEF onReceiveP2PMessage, onMessage, onTimeout, drop, Reconnect
<1>2. Outstanding' = Outstanding
  <2>1. CASE onReceiveP2PMessage(p) \/ Reconnect(p)
    BY <1>1, <2>1 DEF onReceiveP2PMessage, Reconnect, Outstanding, retryVars, sessionVars
  <2>2. ASSUME NEW code \in {"SUCCESS", "failed"}, onMessage(p, code)
        PROVE  Outstanding' = Outstanding
    BY <1>1, <2>2 DEF onMessage, Outstanding, retryVars
  <2>3. CASE onTimeout(p)
    BY <1>1, <2>3 DEF onTimeout, Outstanding, retryVars
  <2>4. CASE drop(p)
    BY <1>1, <2>4 DEF drop, Outstanding, retryVars, Outcome
  <2> QED BY <2>1, <2>2, <2>3, <2>4
<1> QED BY <1>1, <1>2 DEF OnceInv, Token, Tries, Told, retryVars

\* Choosing a gateway turns the token into an outstanding try, or loses it.
LEMMA SendingKeepsOnce ==
    ASSUME TypeOK, OnceInv, NEW p \in P2pID, SendTo(p) \/ SendToDropped(p) \/ SendToInactive(p)
    PROVE  OnceInv'
<1> SUFFICES ASSUME ~repeated PROVE (Token /\ Tries)'
  BY DEF OnceInv, SendTo, SendToDropped, SendToInactive
<1>1. /\ choosing = 1 /\ choosing' = 0
      /\ answers = << >> /\ Outstanding = {} /\ ~silent /\ started
      /\ UNCHANGED <<answers, started, routes, called>>
  BY DEF OnceInv, Token, TypeOK, SendTo, SendToDropped, SendToInactive
<1>2. p \in routes /\ p2pIDs' = p2pIDs \ {p}
  BY <1>1 DEF TypeOK, SendTo, SendToDropped, SendToInactive, randomChooseP2pID
<1>3. /\ Outstanding' \subseteq {p}
      /\ silent' => Outstanding' = {}
      /\ ~silent' => p \in called \cup Outstanding'
  <2>1. CASE SendTo(p)
    BY <1>1, <1>2, <2>1 DEF SendTo, Outstanding
  <2>2. CASE SendToDropped(p)
    BY <1>1, <1>2, <2>2 DEF SendToDropped, Outstanding
  <2>3. CASE SendToInactive(p)
    BY <1>1, <1>2, <2>3 DEF SendToInactive, Outstanding, Outcome
  <2> QED BY <2>1, <2>2, <2>3
<1>4. Token'
  BY <1>1, <1>3 DEF Token
<1>5. Tries'
  BY <1>1, <1>2, <1>3 DEF OnceInv, Tries, Told
<1> QED BY <1>4, <1>5

\* The first call of a callback hands the token back or answers the caller.
LEMMA CallbackKeepsOnce ==
    ASSUME TypeOK, OnceInv, NEW p \in P2pID, NEW outcome \in Outcome, Callback(p, outcome)
    PROVE  OnceInv'
<1> SUFFICES ASSUME ~repeated' PROVE (Token /\ Tries)'
  BY DEF OnceInv
<1>1. ~repeated /\ p \notin called /\ Token /\ Tries
  BY DEF OnceInv, Callback
<1>2. p \in routes /\ Outstanding = {p}
  BY <1>1 DEF TypeOK, Callback, Outstanding, Token
<1>3. choosing = 0 /\ answers = << >> /\ ~silent /\ started
  BY <1>1, <1>2 DEF Token, TypeOK
<1>4. /\ Outstanding' = {} /\ called' = called \cup {p}
      /\ UNCHANGED <<silent, started, routes, p2pIDs>>
  BY <1>2 DEF Callback, Outstanding
<1>5. routes \subseteq p2pIDs \cup called'
  BY <1>1, <1>2, <1>3, <1>4 DEF Tries
<1>6. CASE choosing' = 1 /\ answers' = answers
  BY <1>1, <1>3, <1>4, <1>5, <1>6 DEF Token, Tries, Told
<1>7. CASE choosing' = 0 /\ answers' = Append(answers, "SUCCESS")
  <2>1. Len(answers') = 1 /\ ~Told("GatewaySendMsgFailed")'
    BY <1>3, <1>7 DEF Told
  <2> QED BY <1>3, <1>4, <1>5, <1>7, <2>1 DEF Token, Tries
<1>8. CASE choosing' = 0 /\ answers' = Append(answers, "GatewaySendMsgFailed") /\ p2pIDs = {}
  <2>1. Len(answers') = 1
    BY <1>3, <1>8
  <2> QED BY <1>3, <1>4, <1>5, <1>8, <2>1 DEF Token, Tries
<1> QED BY <1>3, <1>6, <1>7, <1>8 DEF Callback, trySendMessage

\* Starting the call creates the token, or answers at once.
LEMMA StartKeepsOnce ==
    ASSUME TypeOK, OnceInv,
           trySendLocalMessage \/ SendToNobody \/ \E S \in SUBSET P2pID : queryP2pIDs(S)
    PROVE  OnceInv'
<1>1. CASE SendToNobody
  <2>1. /\ UNCHANGED <<started, routes, p2pIDs, called, repeated, answers>>
        /\ silent' /\ choosing' = choosing - 1 /\ Outstanding' = Outstanding
    BY <1>1 DEF SendToNobody, sessionVars, Outstanding
  <2>2. ~repeated => choosing = 1 /\ choosing' = 0 /\ answers = << >> /\ started
    BY <1>1, <2>1 DEF SendToNobody, TypeOK, OnceInv, Token
  <2>3. ~repeated => Token'
    BY <2>1, <2>2 DEF OnceInv, Token
  <2>4. ~repeated => Tries'
    BY <2>1, <2>2 DEF Tries, Told
  <2> QED BY <2>1, <2>3, <2>4 DEF OnceInv
<1>2. CASE trySendLocalMessage
  <2>1. PICK a \in {"local", "NotFoundFrontServiceSendMsg"} : answers' = Append(answers, a)
    BY <1>2 DEF trySendLocalMessage
  <2>2. ~repeated => answers = << >> /\ choosing = 0 /\ ~silent
    BY <1>2 DEF trySendLocalMessage, OnceInv, Token
  <2>3. ~repeated => Len(answers') = 1 /\ ~Told("GatewaySendMsgFailed")'
    BY <2>1, <2>2 DEF Told
  <2>4. routes = {} /\ Outstanding' = {}
    BY <1>2 DEF trySendLocalMessage, TypeOK, Outstanding
  <2> QED BY <1>2, <2>2, <2>3, <2>4 DEF trySendLocalMessage, OnceInv, Token, Tries
<1>3. ASSUME NEW S \in SUBSET P2pID, queryP2pIDs(S)
      PROVE  OnceInv'
  <2>1. ~repeated => answers = << >> /\ choosing = 0 /\ ~silent
    BY <1>3 DEF queryP2pIDs, OnceInv, Token
  <2>2. waiting = {} /\ calls = {}
    BY <1>3 DEF queryP2pIDs, TypeOK
  <2>3. Outstanding' = {}
    BY <1>3, <2>2 DEF queryP2pIDs, Outstanding, sessionVars
  <2> QED BY <1>3, <2>1, <2>3 DEF queryP2pIDs, OnceInv, Token, Tries, Told
<1> QED BY <1>1, <1>2, <1>3

\* Every step keeps the token until a callback is called twice.
LEMMA OnceInvariant == Spec => []OnceInv
<1>1. Init => OnceInv
  BY DEF Init, OnceInv, Token, Tries, Outstanding, Told
<1>2. TypeOK /\ OnceInv /\ [Next]_vars => OnceInv'
  <2> SUFFICES ASSUME TypeOK, OnceInv, [Next]_vars PROVE OnceInv'
    OBVIOUS
  <2>1. CASE Next
    BY <2>1, SessionsKeepOnce, SendingKeepsOnce, CallbackKeepsOnce, StartKeepsOnce
       DEF Next, Sender, Pool
  <2>2. CASE UNCHANGED vars
    BY <2>2 DEF vars, retryVars, sessionVars, OnceInv, Token, Tries, Outstanding, Told
  <2> QED BY <2>1, <2>2
<1> QED BY <1>1, <1>2, TypeCorrect, PTL DEF Spec

\* The caller is answered twice only if a session has called a callback twice.
THEOREM AnsweredOnceHolds == Spec => []AnsweredOnce
<1>1. TypeOK /\ OnceInv => AnsweredOnce
  <2> SUFFICES ASSUME TypeOK, OnceInv, ~repeated PROVE ~(Len(answers) > 1)
    BY DEF AnsweredOnce
  <2>1. CASE answers = << >>
    BY <2>1
  <2>2. CASE answers # << >>
    <3>1. Len(answers) = 1
      BY <2>2 DEF OnceInv, Token
    <3> QED BY <3>1
  <2> QED BY <2>1, <2>2
<1> QED BY <1>1, TypeCorrect, OnceInvariant, PTL

\* Unless a callback is called twice, one thread at a time uses the list, and failure is
\* reported only when every gateway has been tried.
THEOREM FailureIsFinalHolds == Spec => []FailureIsFinal
<1>1. TypeOK /\ OnceInv => FailureIsFinal
  <2> SUFFICES ASSUME TypeOK, OnceInv, ~repeated
               PROVE  /\ choosing <= 1
                      /\ Told("GatewaySendMsgFailed") => called = routes
    BY DEF FailureIsFinal
  <2>1. choosing <= 1
    BY DEF OnceInv, Token
  <2>2. ASSUME Told("GatewaySendMsgFailed")
        PROVE  called = routes
    <3>1. answers # << >>
      BY <2>2 DEF Told, TypeOK
    <3> QED BY <2>2, <3>1 DEF OnceInv, Token, Tries, TypeOK
  <2> QED BY <2>1, <2>2
<1> QED BY <1>1, TypeCorrect, OnceInvariant, PTL

-----------------------------------------------------------------------------

\* Every step keeps somebody who will answer the caller.
LEMMA SomebodyAnswersKept ==
    ASSUME TypeOK, SomebodyAnswers, [Next]_vars
    PROVE  SomebodyAnswers'
<1> SUFFICES ASSUME started', answers' = << >>, ~silent'
             PROVE  choosing' > 0 \/ calls' # {} \/ waiting' \cap timed' # {}
  BY DEF SomebodyAnswers
<1>0. choosing \in Nat /\ answers \in Seq(Answer)
  BY DEF TypeOK
<1>1. CASE trySendLocalMessage
  <2>1. PICK a \in Answer : answers' = Append(answers, a)
    BY <1>1 DEF trySendLocalMessage, Answer
  <2> QED BY <1>0, <2>1
<1>2. ASSUME NEW S \in SUBSET P2pID, queryP2pIDs(S)
      PROVE  choosing' > 0
  BY <1>2 DEF queryP2pIDs
\* A gateway with a session gets a callback and a timer; without one it is silent.
<1>3. ASSUME NEW p \in P2pID, SendTo(p) \/ SendToDropped(p)
      PROVE  waiting' \cap timed' # {}
  <2>1. p \in waiting' /\ p \in timed'
    BY <1>3 DEF SendTo, SendToDropped
  <2> QED BY <2>1
<1>4. ASSUME NEW p \in P2pID, SendToInactive(p)
      PROVE  calls' # {}
  BY <1>4 DEF SendToInactive
<1>5. CASE SendToNobody
  BY <1>5 DEF SendToNobody
\* A callback answers, or finds a gateway that is left.
<1>6. ASSUME NEW p \in P2pID, NEW outcome \in Outcome, Callback(p, outcome)
      PROVE  choosing' > 0
  <2>1. \/ \E a \in Answer : answers' = Append(answers, a)
        \/ choosing' = choosing + 1
    BY <1>6 DEF Callback, trySendMessage, Answer
  <2>2. \A a \in Answer : Append(answers, a) # << >>
    BY <1>0
  <2> QED BY <1>0, <2>1, <2>2
\* The steps of the sessions leave the retry alone: it was waiting already.
<1>7. ASSUME UNCHANGED retryVars
      PROVE  choosing' > 0 \/ calls # {} \/ waiting \cap timed # {}
  BY <1>7 DEF SomebodyAnswers, retryVars
<1>8. ASSUME NEW p \in P2pID, onReceiveP2PMessage(p) \/ Reconnect(p)
      PROVE  choosing' > 0 \/ calls' # {} \/ waiting' \cap timed' # {}
  <2>1. UNCHANGED <<retryVars, calls, waiting, timed>>
    BY <1>8 DEF onReceiveP2PMessage, Reconnect, sessionVars
  <2> QED BY <1>7, <2>1
<1>9. ASSUME NEW p \in P2pID, NEW code \in {"SUCCESS", "failed"}, onMessage(p, code)
      PROVE  choosing' > 0 \/ calls' # {} \/ waiting' \cap timed' # {}
  <2>1. UNCHANGED retryVars /\ (calls' # {} \/ UNCHANGED <<calls, waiting, timed>>)
    BY <1>9 DEF onMessage
  <2> QED BY <1>7, <2>1
<1>10. ASSUME NEW p \in P2pID, onTimeout(p)
       PROVE  choosing' > 0 \/ calls' # {} \/ waiting' \cap timed' # {}
  <2>1. UNCHANGED retryVars /\ (calls' # {} \/ UNCHANGED <<calls, waiting>>)
    BY <1>10 DEF onTimeout
  <2>2. calls' # {} \/ waiting' \cap timed' = waiting \cap timed
    BY <1>10 DEF onTimeout
  <2> QED BY <1>7, <2>1, <2>2
<1>11. ASSUME NEW p \in P2pID, drop(p)
       PROVE  choosing' > 0 \/ calls' # {} \/ waiting' \cap timed' # {}
  <2>1. UNCHANGED retryVars /\ (calls' # {} \/ UNCHANGED calls)
    BY <1>11 DEF drop
  <2>2. calls' # {} \/ waiting' \cap timed' = waiting \cap timed
    BY <1>11 DEF drop
  <2> QED BY <1>7, <2>1, <2>2
<1>12. CASE UNCHANGED vars
  <2>1. UNCHANGED <<retryVars, calls, waiting, timed>>
    BY <1>12 DEF vars, sessionVars
  <2> QED BY <1>7, <2>1
<1> QED
  BY <1>1, <1>2, <1>3, <1>4, <1>5, <1>6, <1>8, <1>9, <1>10, <1>11, <1>12
  DEF Next, Sender, Pool

\* A caller of asyncSendMessageByNodeID without an answer always has a thread, a queued
\* callback or a running timer that will go on, unless a session had gone when it was to
\* be used, for any gateways and however often callbacks are called.
THEOREM SomebodyAnswersHolds == Spec => []SomebodyAnswers
<1>1. Init => SomebodyAnswers
  BY DEF Init, SomebodyAnswers
<1>2. TypeOK /\ SomebodyAnswers /\ [Next]_vars => SomebodyAnswers'
  BY SomebodyAnswersKept
<1> QED BY <1>1, <1>2, TypeCorrect, PTL DEF Spec
=============================================================================
