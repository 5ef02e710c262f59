-------------------------- MODULE SessionCallbacks --------------------------
(***************************************************************************)
(* The response callbacks of a Session (Session.cpp: asyncSendMessage,     *)
(* onMessage, onTimeout, drop; Session.h: m_seq2Callback).  A caller       *)
(* registers a callback under the sequence number of its request.  It is   *)
(* called, on a thread of the pool, because the response has arrived, the  *)
(* timer has expired, the session was dropped, or the session was not      *)
(* active in the first place.                                              *)
(*                                                                         *)
(* Four actors interleave: the callers' threads, the io_service thread     *)
(* (responses and timers), whoever drops the session, and the pool.  A     *)
(* request is identified by its sequence number; Service makes them unique.*)
(* A callback given by Service holds the P2PSession, so the Session lives  *)
(* as long as one is registered.                                           *)
(***************************************************************************)
CONSTANTS
    Request,   \* the sequence numbers of the requests
    Timed      \* those sent with options.timeout > 0

ASSUME TimedAssumption == Timed \subseteq Request

VARIABLES
    actived,     \* m_actived
    dropping,    \* a call of drop has cleared m_actived and not yet the callbacks
    callbacks,   \* the keys of m_seq2Callback
    caller,      \* where asyncSendMessage is, for each request
    timer,       \* the deadline timer of each request
    peer,        \* what has become of the request at the peer
    pool,        \* tasks of the thread pool
    invoked      \* the outcomes each callback has been called with

vars == <<actived, dropping, callbacks, caller, timer, peer, pool, invoked>>

Outcome == {"response", "timeout", "disconnect", "inactive"}
Task == [req : Request, outcome : Outcome, phase : {"call", "remove"}]

TypeOK ==
    /\ actived \in BOOLEAN /\ dropping \in BOOLEAN
    /\ callbacks \subseteq Request
    /\ caller \in [Request -> {"idle", "checked", "added", "returned"}]
    /\ timer \in [Request -> {"off", "armed", "expired"}]
    /\ peer \in [Request -> {"none", "request", "response"}]
    /\ pool \subseteq Task
    /\ invoked \in [Request -> SUBSET Outcome]
    /\ \A r \in Request : timer[r] # "off" => r \in Timed

Init ==
    /\ actived = TRUE /\ dropping = FALSE
    /\ callbacks = {}
    /\ caller = [r \in Request |-> "idle"]
    /\ timer = [r \in Request |-> "off"]
    /\ peer = [r \in Request |-> "none"]
    /\ pool = {}
    /\ invoked = [r \in Request |-> {}]

Call(r, outcome) == [req |-> r, outcome |-> outcome, phase |-> "call"]

\* deadline_timer::cancel: an expired timer's handler is queued and will run.
Cancelled(rs) == [r \in Request |-> IF r \in rs /\ timer[r] = "armed" THEN "off" ELSE timer[r]]

-----------------------------------------------------------------------------
(* asyncSendMessage *)

CheckActived(r) ==
    /\ caller[r] = "idle"
    /\ IF actived
       THEN /\ caller' = [caller EXCEPT ![r] = "checked"]
            /\ UNCHANGED pool
       ELSE /\ caller' = [caller EXCEPT ![r] = "returned"]
            /\ pool' = pool \cup {Call(r, "inactive")}
    /\ UNCHANGED <<actived, dropping, callbacks, timer, peer, invoked>>

\* Mutant: no timer at all.
addSeqCallbackUntimed(r) ==
    /\ caller[r] = "checked"
    /\ callbacks' = callbacks \cup {r}
    /\ caller' = [caller EXCEPT ![r] = "added"]
    /\ UNCHANGED <<actived, dropping, timer, peer, pool, invoked>>

\* The timer is started just before the callback is added: at least a few
\* milliseconds before it can expire.
addSeqCallback(r) ==
    /\ caller[r] = "checked"
    /\ callbacks' = callbacks \cup {r}
    /\ timer' = [timer EXCEPT ![r] = IF r \in Timed THEN "armed" ELSE "off"]
    /\ caller' = [caller EXCEPT ![r] = "added"]
    /\ UNCHANGED <<actived, dropping, peer, pool, invoked>>

\* send does nothing on a session that is not active any more.
Send(r) ==
    /\ caller[r] = "added"
    /\ caller' = [caller EXCEPT ![r] = "returned"]
    /\ peer' = [peer EXCEPT ![r] = IF actived THEN "request" ELSE "none"]
    /\ UNCHANGED <<actived, dropping, callbacks, timer, pool, invoked>>

-----------------------------------------------------------------------------
(* The io_service thread. *)

\* The peer answers.  It may also never do so.
Respond(r) ==
    /\ peer[r] = "request"
    /\ peer' = [peer EXCEPT ![r] = "response"]
    /\ UNCHANGED <<actived, dropping, callbacks, caller, timer, pool, invoked>>

\* onMessage: the callback stays registered until the task has called it.
\* Without a callback the response goes to the default handler.
onMessage(r) ==
    /\ peer[r] = "response"
    /\ actived
    /\ peer' = [peer EXCEPT ![r] = "none"]
    /\ IF r \in callbacks
       THEN /\ timer' = Cancelled({r})
            /\ pool' = pool \cup {Call(r, "response")}
       ELSE UNCHANGED <<timer, pool>>
    /\ UNCHANGED <<actived, dropping, callbacks, caller, invoked>>

Expire(r) ==
    /\ timer[r] = "armed"
    /\ timer' = [timer EXCEPT ![r] = "expired"]
    /\ UNCHANGED <<actived, dropping, callbacks, caller, peer, pool, invoked>>

onTimeout(r) ==
    /\ timer[r] = "expired"
    /\ timer' = [timer EXCEPT ![r] = "off"]
    /\ pool' = IF r \in callbacks THEN pool \cup {Call(r, "timeout")} ELSE pool
    /\ UNCHANGED <<actived, dropping, callbacks, caller, peer, invoked>>

-----------------------------------------------------------------------------
(* drop *)

Deactivate ==
    /\ actived
    /\ actived' = FALSE
    /\ dropping' = TRUE
    /\ UNCHANGED <<callbacks, caller, timer, peer, pool, invoked>>

\* Mutant: the callbacks are erased and not called.
EraseOnly ==
    /\ dropping
    /\ timer' = Cancelled(callbacks)
    /\ callbacks' = {}
    /\ dropping' = FALSE
    /\ UNCHANGED <<actived, caller, peer, pool, invoked>>

\* Under x_seq2Callback: every registered callback is called and erased.
CallAndErase ==
    /\ dropping
    /\ timer' = Cancelled(callbacks)
    /\ pool' = pool \cup {Call(r, "disconnect") : r \in callbacks}
    /\ callbacks' = {}
    /\ dropping' = FALSE
    /\ UNCHANGED <<actived, caller, peer, invoked>>

-----------------------------------------------------------------------------
(* The thread pool. *)

\* The callback is called.  The tasks of onMessage and onTimeout then remove it.
Invoke(t) ==
    /\ t.phase = "call"
    /\ invoked' = [invoked EXCEPT ![t.req] = @ \cup {t.outcome}]
    /\ pool' = (pool \ {t}) \cup
           IF t.outcome \in {"response", "timeout"} THEN {[t EXCEPT !.phase = "remove"]} ELSE {}
    /\ UNCHANGED <<actived, dropping, callbacks, caller, timer, peer>>

removeSeqCallback(t) ==
    /\ t.phase = "remove"
    /\ callbacks' = callbacks \ {t.req}
    /\ pool' = pool \ {t}
    /\ UNCHANGED <<actived, dropping, caller, timer, peer, invoked>>

CallerStep(r) == CheckActived(r) \/ addSeqCallback(r) \/ Send(r)

Next ==
    \/ \E r \in Request :
          CallerStep(r) \/ Respond(r) \/ onMessage(r) \/ Expire(r) \/ onTimeout(r)
    \/ Deactivate \/ CallAndErase
    \/ \E t \in pool : Invoke(t) \/ removeSeqCallback(t)

Spec == Init /\ [][Next]_vars

\* A caller inside asyncSendMessage goes on, timers expire, their handlers and
\* the tasks of the pool run and a call of drop ends.  No fairness for the start
\* of a call, the peer or the cause of a drop.
Fairness ==
    /\ \A r \in Request :
          /\ WF_vars(addSeqCallback(r) \/ Send(r))
          /\ WF_vars(Expire(r))
          /\ WF_vars(onTimeout(r))
    /\ WF_vars(CallAndErase)
    /\ WF_vars(\E t \in pool : Invoke(t) \/ removeSeqCallback(t))

FairSpec == Spec /\ Fairness

-----------------------------------------------------------------------------
(* Properties. *)

Registered(r) == caller[r] \in {"added", "returned"}

\* No callback is dropped without a call: one that was handed to asyncSendMessage
\* is registered, has been called, or is queued to be called.
NoCallbackLost ==
    \A r \in Request : Registered(r) =>
        \/ r \in callbacks
        \/ invoked[r] # {}
        \/ \E t \in pool : t.req = r

\* A caller that gave a timeout is always answered, whether or not the peer
\* responds and whenever the session is dropped, in particular between the test
\* of m_actived and the registration of the callback.
TimedAreAnswered ==
    \A r \in Timed : (caller[r] = "checked") ~> (invoked[r] # {})

\* drop "call and erase all callback in this session!": once it has returned no
\* callback waits in a dropped session.
DropErasesAll == ~actived /\ ~dropping => callbacks = {}
=============================================================================
