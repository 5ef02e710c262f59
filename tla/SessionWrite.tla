---------------------------- MODULE SessionWrite ----------------------------
(***************************************************************************)
(* The write path of a Session (Session.cpp: send, write, onWrite).  Any   *)
(* number of threads call send; what they queue is written by at most one  *)
(* asynchronous write at a time, which the flag m_writing keeps.  The flag *)
(* is set and tested under x_writeQueue but onWrite clears it without that *)
(* lock.  Completion handlers run on the single thread of the io_service.  *)
(*                                                                         *)
(* A message is its number in the order in which the messages were pushed  *)
(* to m_writeQueue, a stable priority queue whose elements all compare     *)
(* equal, hence a FIFO queue.                                              *)
(***************************************************************************)
EXTENDS Naturals, Sequences

CONSTANTS
    Sender,   \* the threads that call Session::send
    io,       \* the thread of the io_service
    MaxSend   \* bound: messages pushed during a behaviour

ASSUME IoAssumption == io \notin Sender
ASSUME MaxSendAssumption == MaxSend \in Nat

VARIABLES
    writeQueue,   \* m_writeQueue
    writing,      \* m_writing
    lock,         \* the thread that holds x_writeQueue, if any
    actived,      \* m_actived
    connected,    \* the socket is open and the Host runs
    up,           \* the stream can still take bytes
    posted,       \* messages whose asyncWrite waits in the io_service
    flying,       \* messages whose async_write has been started
    delivered,    \* messages written to the stream, in order
    pushed,       \* number of messages pushed
    pc            \* where each thread is

Thread == Sender \cup {io}
Location == {"idle", "push", "onWrite", "onWriteError", "write", "lock", "pop"}

netVars == <<connected, up>>
queueVars == <<writeQueue, pushed>>
wireVars == <<posted, flying, delivered>>
vars == <<queueVars, writing, lock, actived, netVars, wireVars, pc>>

TypeOK ==
    /\ writeQueue \in Seq(1..MaxSend)
    /\ pushed \in 0..MaxSend
    /\ writing \in BOOLEAN
    /\ lock \subseteq Thread
    /\ actived \in BOOLEAN /\ connected \in BOOLEAN /\ up \in BOOLEAN
    /\ posted \subseteq 1..MaxSend
    /\ flying \subseteq 1..MaxSend
    /\ delivered \in Seq(1..MaxSend)
    /\ pc \in [Thread -> Location]

\* Session::start has run.
Init ==
    /\ writeQueue = << >> /\ pushed = 0
    /\ writing = FALSE /\ lock = {}
    /\ actived = TRUE /\ connected = TRUE /\ up = TRUE
    /\ posted = {} /\ flying = {} /\ delivered = << >>
    /\ pc = [t \in Thread |-> "idle"]

\* Session::actived()
Alive == actived /\ connected

Goto(t, location) == pc' = [pc EXCEPT ![t] = location]

-----------------------------------------------------------------------------
(* send *)

\* A session that is not active takes no message.
SendCheck(t) ==
    /\ pc[t] = "idle" /\ t # io
    /\ Alive
    /\ Goto(t, "push")
    /\ UNCHANGED <<queueVars, writing, lock, actived, netVars, wireVars>>

Push(t) ==
    /\ pc[t] = "push"
    /\ lock = {}
    /\ pushed < MaxSend
    /\ pushed' = pushed + 1
    /\ writeQueue' = Append(writeQueue, pushed + 1)
    /\ Goto(t, "write")
    /\ UNCHANGED <<writing, lock, actived, netVars, wireVars>>

-----------------------------------------------------------------------------
(* write, called by send and by onWrite *)

WriteCheck(t) ==
    /\ pc[t] = "write"
    /\ Goto(t, IF Alive THEN "lock" ELSE "idle")
    /\ UNCHANGED <<queueVars, writing, lock, actived, netVars, wireVars>>

\* Mutant: m_writing is not tested.
TestNothing(t) ==
    /\ pc[t] = "lock"
    /\ lock = {}
    /\ Goto(t, "pop") /\ writing' = TRUE /\ lock' = {t}
    /\ UNCHANGED <<queueVars, actived, netVars, wireVars>>

\* Taking x_writeQueue: another write is under way, or this one starts.
TestWriting(t) ==
    /\ pc[t] = "lock"
    /\ lock = {}
    /\ IF writing
       THEN Goto(t, "idle") /\ UNCHANGED <<writing, lock>>
       ELSE Goto(t, "pop") /\ writing' = TRUE /\ lock' = {t}
    /\ UNCHANGED <<queueVars, actived, netVars, wireVars>>

\* The queue is empty: the lock is released.
PopNothing(t) ==
    /\ pc[t] = "pop"
    /\ writeQueue = << >>
    /\ writing' = FALSE
    /\ lock' = {}
    /\ Goto(t, "idle")
    /\ UNCHANGED <<queueVars, actived, netVars, wireVars>>

\* Mutant: a priority queue that is not stable gives any of its elements.
PopUnstable(t) ==
    /\ pc[t] = "pop"
    /\ \E i \in 1..Len(writeQueue) :
          /\ writeQueue' = SubSeq(writeQueue, 1, i - 1) \o
                           SubSeq(writeQueue, i + 1, Len(writeQueue))
          /\ posted' = IF connected THEN posted \cup {writeQueue[i]} ELSE posted
    /\ actived' = (actived /\ connected)
    /\ lock' = {}
    /\ Goto(t, "idle")
    /\ UNCHANGED <<pushed, writing, netVars, flying, delivered>>

\* asyncWrite posts the message to the io_service.  On a closed socket, or
\* without a Host, the session is dropped with m_writing set.
Pop(t) ==
    /\ pc[t] = "pop"
    /\ writeQueue # << >>
    /\ writeQueue' = Tail(writeQueue)
    /\ posted' = IF connected THEN posted \cup {Head(writeQueue)} ELSE posted
    /\ actived' = (actived /\ connected)
    /\ lock' = {}
    /\ Goto(t, "idle")
    /\ UNCHANGED <<pushed, writing, netVars, flying, delivered>>

-----------------------------------------------------------------------------
(* The io_service thread. *)

\* The function asyncWrite has posted: on a closed socket the handler is never
\* called.
StartWrite(m) ==
    /\ pc[io] = "idle"
    /\ m \in posted
    /\ posted' = posted \ {m}
    /\ flying' = IF connected THEN flying \cup {m} ELSE flying
    /\ UNCHANGED <<queueVars, writing, lock, actived, netVars, delivered, pc>>

\* A write completes and its handler onWrite is called.
Complete(m) ==
    /\ pc[io] = "idle"
    /\ m \in flying
    /\ flying' = flying \ {m}
    /\ delivered' = IF up THEN Append(delivered, m) ELSE delivered
    /\ Goto(io, IF up THEN "onWrite" ELSE "onWriteError")
    /\ UNCHANGED <<queueVars, writing, lock, actived, netVars, posted>>

\* Mutants: the flag is cleared but write not called; the flag is not cleared.
OnWriteReturns ==
    /\ pc[io] = "onWrite"
    /\ Goto(io, "idle")
    /\ writing' = IF Alive THEN FALSE ELSE writing
    /\ UNCHANGED <<queueVars, lock, actived, netVars, wireVars>>

OnWriteKeepsFlag ==
    /\ pc[io] = "onWrite"
    /\ Goto(io, IF Alive THEN "write" ELSE "idle")
    /\ UNCHANGED <<queueVars, writing, lock, actived, netVars, wireVars>>

\* The flag is cleared without x_writeQueue, then write is called.
OnWrite ==
    /\ pc[io] = "onWrite"
    /\ IF Alive
       THEN Goto(io, "write") /\ writing' = FALSE
       ELSE Goto(io, "idle") /\ UNCHANGED writing
    /\ UNCHANGED <<queueVars, lock, actived, netVars, wireVars>>

\* A failed write drops the session and leaves the flag set.
OnWriteError ==
    /\ pc[io] = "onWriteError"
    /\ actived' = FALSE
    /\ Goto(io, "idle")
    /\ UNCHANGED <<queueVars, writing, lock, netVars, wireVars>>

-----------------------------------------------------------------------------
(* Everything else that ends a session. *)

\* Session::drop by the reader, the idle timer or P2PSession::stop.
Drop ==
    /\ actived
    /\ actived' = FALSE
    /\ UNCHANGED <<queueVars, writing, lock, netVars, wireVars, pc>>

\* The end of Session::drop closes the socket; Host::stop ends the network.
Close ==
    /\ connected
    /\ connected' = FALSE /\ up' = FALSE
    /\ UNCHANGED <<queueVars, writing, lock, actived, wireVars, pc>>

\* The peer or the network breaks the stream.
StreamFails ==
    /\ up
    /\ up' = FALSE
    /\ UNCHANGED <<queueVars, writing, lock, actived, connected, wireVars, pc>>

WriteStep(t) == WriteCheck(t) \/ TestWriting(t) \/ PopNothing(t) \/ Pop(t)

IoStep ==
    \/ \E m \in posted : StartWrite(m)
    \/ \E m \in flying : Complete(m)
    \/ OnWrite
    \/ OnWriteError

Next ==
    \/ \E t \in Thread : SendCheck(t) \/ Push(t) \/ WriteStep(t)
    \/ IoStep
    \/ Drop \/ Close \/ StreamFails

Spec == Init /\ [][Next]_vars

\* Threads make progress, and a started write completes: the peer reads, or the
\* stream fails and the write with it.  Sending, dropping and failing are the
\* environment's.
Fairness ==
    /\ \A t \in Sender : WF_vars(Push(t) \/ WriteStep(t))
    /\ WF_vars(IoStep \/ WriteStep(io))

FairSpec == Spec /\ Fairness

-----------------------------------------------------------------------------
(* Properties. *)

\* Session::write never has two asynchronous writes on the socket: the bytes of
\* two messages would mix on the stream.
OneWriteAtATime == \A m, n \in posted \cup flying : m = n

\* As long as the session is active, queued messages have somebody to write them:
\* a write is under way whose handler will call write again, or a thread is
\* inside write.  A thread that finds m_writing set leaves its message to others,
\* while onWrite clears the flag without holding the lock.
SomebodyWrites ==
    Alive /\ writeQueue # << >> =>
        \/ posted \cup flying # {}
        \/ pc[io] \in {"onWrite", "onWriteError"}
        \/ \E t \in Thread : pc[t] \in {"write", "lock", "pop"}

\* Session::send implements the abstract channel.
Channel == INSTANCE WriteChannel
               WITH accepted <- pushed, delivered <- delivered, broken <- ~up
ImplementsChannel == Channel!Spec

\* A message that was queued is written unless the session ends.
EventuallyWritten ==
    \A k \in 1..MaxSend : (pushed >= k) ~> (Len(delivered) >= k \/ ~Alive \/ ~up)
=============================================================================
