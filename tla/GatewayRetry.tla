----------------------------- MODULE GatewayRetry -----------------------------
(***************************************************************************)
(* Sending a message to a node (Gateway::asyncSendMessageByNodeID and its  *)
(* class Retry).  The gateways that serve the node are tried in any order  *)
(* until one of them says that it has dispatched the message.  A try ends  *)
(* with the peer's response, a timeout or the drop of the session; the     *)
(* session may report two of these, each in a task of the pool.            *)
(***************************************************************************)
EXTENDS Naturals, Sequences

CONSTANT P2pID   \* the other gateways

VARIABLES
    started,     \* asyncSendMessageByNodeID has been called
    routes,      \* the gateways that queryP2pIDs returned
    p2pIDs,      \* Retry::m_p2pIDs
    choosing,    \* threads that have found m_p2pIDs not empty and will choose
    active,      \* gateways with an active session
    request,     \* gateways that the message is on its way to
    response,    \* <<gateway, code>>: responses on their way back
    waiting,     \* gateways in whose session the callback is registered
    timed,       \* those whose timer may still expire
    calls,       \* <<gateway, outcome>>: callbacks queued in the pool
    called,      \* the gateways whose callback has been called
    repeated,    \* some gateway's callback was called again
    silent,      \* a try ended without its callback being called
    dispatched,  \* gateways that have passed the message to the node
    answers      \* what the caller's _errorRespFunc has been called with

sessionVars == <<request, response, waiting, timed, calls>>
retryVars == <<started, routes, p2pIDs, choosing, called, repeated, silent, answers>>
vars == <<retryVars, active, sessionVars, dispatched>>

Outcome == {"SUCCESS", "failed", "NetworkTimeout", "Disconnect", "inactive"}
Answer == {"SUCCESS", "NotFoundFrontServiceSendMsg", "local", "GatewaySendMsgFailed"}

TypeOK ==
    /\ started \in BOOLEAN /\ repeated \in BOOLEAN /\ silent \in BOOLEAN
    /\ routes \subseteq P2pID /\ p2pIDs \subseteq routes /\ (~started => routes = {})
    /\ choosing \in Nat
    /\ active \subseteq P2pID
    /\ request \subseteq routes /\ dispatched \subseteq routes
    /\ response \subseteq routes \X {"SUCCESS", "failed"}
    /\ waiting \subseteq routes /\ timed \subseteq routes /\ called \subseteq routes
    /\ calls \subseteq routes \X Outcome
    /\ answers \in Seq(Answer)

Init ==
    /\ started = FALSE
    /\ routes = {} /\ p2pIDs = {} /\ choosing = 0
    /\ active \in SUBSET P2pID
    /\ request = {} /\ response = {} /\ waiting = {} /\ timed = {} /\ calls = {}
    /\ called = {} /\ repeated = FALSE /\ silent = FALSE
    /\ dispatched = {} /\ answers = << >>

-----------------------------------------------------------------------------
(* The sender. *)

\* Nobody else serves the node: a front service of this gateway may.
trySendLocalMessage ==
    /\ ~started /\ started' = TRUE
    /\ \E answer \in {"local", "NotFoundFrontServiceSendMsg"} :
          answers' = Append(answers, answer)
    /\ UNCHANGED <<routes, p2pIDs, choosing, called, repeated, silent, active, sessionVars,
                   dispatched>>

\* The routes are a snapshot: a gateway of S may have lost the node or the session.
queryP2pIDs(S) ==
    /\ ~started /\ started' = TRUE
    /\ S # {} /\ routes' = S /\ p2pIDs' = S
    /\ choosing' = 1
    /\ UNCHANGED <<called, repeated, silent, answers, active, sessionVars, dispatched>>

\* Mutant: trySendMessage does not tell the caller when there is nobody left.
trySendMessageUnanswered ==
    \/ /\ p2pIDs = {}
       /\ UNCHANGED <<answers, choosing>>
    \/ /\ p2pIDs # {} /\ choosing' = choosing + 1
       /\ UNCHANGED answers

\* The first part of trySendMessage, as the callback of a failed try calls it.
trySendMessage ==
    \/ /\ p2pIDs = {} /\ answers' = Append(answers, "GatewaySendMsgFailed")
       /\ UNCHANGED choosing
    \/ /\ p2pIDs # {} /\ choosing' = choosing + 1
       /\ UNCHANGED answers

\* Mutant: one try uses up the list.
randomChooseP2pIDClearing(p) ==
    /\ p \in p2pIDs
    /\ p2pIDs' = {}

\* p is taken off m_p2pIDs.  There is no lock: if another thread is choosing as well,
\* the vector is shuffled and erased by both and any part of it may be left.  Bound:
\* all of it is left only when p is chosen for the first time.
randomChooseP2pID(p) ==
    /\ p \in p2pIDs
    /\ IF choosing > 1 THEN p2pIDs' \in SUBSET p2pIDs ELSE p2pIDs' = p2pIDs \ {p}
    /\ p \in called => p2pIDs' # p2pIDs

\* asyncSendMessageByNodeID with Options(10000).  Without an active session the
\* callback is not called.
SendTo(p) ==
    /\ choosing > 0 /\ choosing' = choosing - 1
    /\ randomChooseP2pID(p)
    /\ IF p \in active
       THEN /\ request' = request \cup {p}
            /\ waiting' = waiting \cup {p} /\ timed' = timed \cup {p}
            /\ UNCHANGED silent
       ELSE silent' = TRUE /\ UNCHANGED <<request, waiting, timed>>
    /\ UNCHANGED <<started, routes, called, repeated, answers, active, response, calls,
                   dispatched>>

\* The session is dropped after its state was tested and before the callback is
\* registered: only the timer is left.
SendToDropped(p) ==
    /\ choosing > 0 /\ choosing' = choosing - 1
    /\ randomChooseP2pID(p)
    /\ p \in active /\ active' = active \ {p}
    /\ waiting' = waiting \cup {p} /\ timed' = timed \cup {p}
    /\ UNCHANGED <<started, routes, called, repeated, silent, answers, request, response,
                   calls, dispatched>>

\* The session has been dropped, and it is still in m_sessions because the disconnect
\* has not been handled: asyncSendMessage queues the callback.
SendToInactive(p) ==
    /\ choosing > 0 /\ choosing' = choosing - 1
    /\ randomChooseP2pID(p)
    /\ p \notin active
    /\ calls' = calls \cup {<<p, "inactive">>}
    /\ UNCHANGED <<started, routes, called, repeated, silent, answers, active, request,
                   response, waiting, timed, dispatched>>

\* The list was emptied by another thread in the meantime: the message goes to the
\* empty P2pID, which has no session.
SendToNobody ==
    /\ choosing > 0 /\ choosing' = choosing - 1
    /\ p2pIDs = {}
    /\ silent' = TRUE
    /\ UNCHANGED <<started, routes, p2pIDs, called, repeated, answers, active, sessionVars,
                   dispatched>>

\* Mutant: after a success the callback goes on to trySendMessage.
CallbackFallsThrough(p, outcome) ==
    /\ <<p, outcome>> \in calls /\ calls' = calls \ {<<p, outcome>>}
    /\ waiting' = IF outcome \in {"Disconnect", "inactive"} THEN waiting ELSE waiting \ {p}
    /\ called' = called \cup {p}
    /\ repeated' = (repeated \/ p \in called)
    /\ IF outcome = "SUCCESS" /\ p2pIDs # {}
       THEN answers' = Append(answers, "SUCCESS") /\ choosing' = choosing + 1
       ELSE trySendMessage
    /\ UNCHANGED <<started, routes, p2pIDs, silent, active, request, response, timed,
                   dispatched>>

\* A task of the pool calls the callback of Retry, and removes it from the session if it
\* is there.
Callback(p, outcome) ==
    /\ <<p, outcome>> \in calls /\ calls' = calls \ {<<p, outcome>>}
    /\ waiting' = IF outcome \in {"Disconnect", "inactive"} THEN waiting ELSE waiting \ {p}
    /\ called' = called \cup {p}
    /\ repeated' = (repeated \/ p \in called)
    /\ IF outcome = "SUCCESS"
       THEN answers' = Append(answers, "SUCCESS") /\ UNCHANGED choosing
       ELSE trySendMessage
    /\ UNCHANGED <<started, routes, p2pIDs, silent, active, request, response, timed,
                   dispatched>>

-----------------------------------------------------------------------------
(* The sessions and the peers. *)

\* Mutant: the peer answers SUCCESS whatever has become of the message.
onReceiveP2PMessageCareless(p) ==
    /\ p \in request /\ request' = request \ {p}
    /\ dispatched' = dispatched \/ dispatched' = dispatched \cup {p}
    /\ response' = IF p \in active THEN response \cup {<<p, "SUCCESS">>} ELSE response
    /\ UNCHANGED <<retryVars, active, waiting, timed, calls>>

\* The peer looks for the node's front service, which may have gone, and passes the
\* message to it.  It responds with the code it gets.
onReceiveP2PMessage(p) ==
    /\ p \in request /\ request' = request \ {p}
    /\ \E found \in BOOLEAN, code \in {"SUCCESS", "failed"} :
          /\ code = "SUCCESS" => found
          /\ dispatched' = IF found THEN dispatched \cup {p} ELSE dispatched
          /\ response' = IF p \in active THEN response \cup {<<p, code>>} ELSE response
    /\ UNCHANGED <<retryVars, active, waiting, timed, calls>>

\* Session::onMessage.  Cancelling a timer does nothing if it has expired already.
onMessage(p, code) ==
    /\ <<p, code>> \in response /\ response' = response \ {<<p, code>>}
    /\ p \in active
    /\ IF p \in waiting
       THEN /\ calls' = calls \cup {<<p, code>>}
            /\ timed' = timed \/ timed' = timed \ {p}
       ELSE UNCHANGED <<calls, timed>>
    /\ UNCHANGED <<retryVars, active, request, waiting, dispatched>>

\* Session::onTimeout.
onTimeout(p) ==
    /\ p \in timed /\ timed' = timed \ {p}
    /\ calls' = IF p \in waiting THEN calls \cup {<<p, "NetworkTimeout">>} ELSE calls
    /\ UNCHANGED <<retryVars, active, request, response, waiting, dispatched>>

\* Session::drop.  The peer may have got the request all the same.
drop(p) ==
    /\ p \in active /\ active' = active \ {p}
    /\ calls' = IF p \in waiting THEN calls \cup {<<p, "Disconnect">>} ELSE calls
    /\ waiting' = waiting \ {p}
    /\ request' = request \/ request' = request \ {p}
    /\ response' = {r \in response : r[1] # p}
    /\ UNCHANGED <<retryVars, timed, dispatched>>

\* A new session matters only for a gateway that is still to be tried.
Reconnect(p) ==
    /\ p \in p2pIDs \ active
    /\ p \notin waiting \cup request
    /\ active' = active \cup {p}
    /\ UNCHANGED <<retryVars, sessionVars, dispatched>>

-----------------------------------------------------------------------------

Sender ==
    \/ trySendLocalMessage
    \/ \E S \in SUBSET P2pID : queryP2pIDs(S)
    \/ \E p \in P2pID : SendTo(p) \/ SendToDropped(p) \/ SendToInactive(p)
    \/ SendToNobody

Pool == \E p \in P2pID, outcome \in Outcome : Callback(p, outcome)

Next ==
    \/ Sender
    \/ Pool
    \/ \E p \in P2pID :
          \/ onReceiveP2PMessage(p)
          \/ \E code \in {"SUCCESS", "failed"} : onMessage(p, code)
          \/ onTimeout(p)
          \/ drop(p)
          \/ Reconnect(p)

Spec == Init /\ [][Next]_vars

\* Threads make progress and timers expire.  The peers need not answer.
FairSpec ==
    /\ Spec
    /\ WF_vars(Sender) /\ WF_vars(Pool)
    /\ \A p \in P2pID : WF_vars(onTimeout(p))

-----------------------------------------------------------------------------
(* Properties. *)

Told(answer) == \E i \in 1..Len(answers) : answers[i] = answer

\* The caller learns the result, even if no peer ever responds, unless a session had
\* gone when it was to be used or m_p2pIDs was used by two threads.
Answered == <>(answers # << >> \/ silent \/ repeated)

\* A caller that has no answer is not forgotten, even when callbacks are called twice: a
\* thread is about to choose the next gateway, a callback is queued, or one is registered
\* whose timer runs; unless a session had gone when it was to be used.
SomebodyAnswers ==
    started /\ answers = << >> /\ ~silent =>
        choosing > 0 \/ calls # {} \/ waiting \cap timed # {}

\* The caller is told of success only if a gateway has passed the message on, whichever
\* of the responses, timeouts and disconnects came first.
SuccessIsDispatched ==
    Told("SUCCESS") => dispatched # {}

\* The caller is answered twice only if a session has called a callback twice.
AnsweredOnce == Len(answers) > 1 => repeated

\* Unless a callback is called twice, the list is used by one thread at a time and
\* failure is reported only when every gateway has been tried.
FailureIsFinal ==
    ~repeated =>
        /\ choosing <= 1
        /\ Told("GatewaySendMsgFailed") => called = routes
=============================================================================
