-------------------------- MODULE SessionWriteProofs --------------------------
(***************************************************************************)
(* Proofs about SessionWrite, for any number of senders and messages: one  *)
(* write at a time, no message left behind, and the abstract channel is    *)
(* implemented.                                                            *)
(***************************************************************************)
EXTENDS SessionWrite, SequenceTheorems, TLAPS

\* The flag m_writing is set on behalf of a write: posted or started, completed
\* with its handler not done, or about to be posted by the holder of the lock.
Outstanding == posted \cup flying # {}
Completing == pc[io] \in {"onWrite", "onWriteError"}
Popping == \E t \in Thread : pc[t] = "pop"

LockInv ==
    /\ \A t \in Thread : t \in lock <=> pc[t] = "pop"
    /\ \A t, u \in lock : t = u

\* At most one of the three at a time, and only with the flag set; and while the
\* session is active the flag is not left set with nobody to clear it.
WritingInv ==
    /\ OneWriteAtATime
    /\ posted \cap flying = {}
    /\ Popping => writing /\ ~Outstanding /\ ~Completing
    /\ Completing => writing /\ ~Outstanding
    /\ Outstanding => writing
    /\ writing /\ Alive => Outstanding \/ Completing \/ Popping

\* The messages are queued, posted and written in the order of their numbers.
OrderInv ==
    /\ up => connected
    /\ Len(writeQueue) <= pushed
    /\ \A i \in 1..Len(writeQueue) : writeQueue[i] = pushed - Len(writeQueue) + i
    /\ up /\ ~Outstanding => Len(delivered) = pushed - Len(writeQueue)
    /\ \A m \in posted \cup flying :
          up => /\ m = pushed - Len(writeQueue)
                /\ Len(delivered) + 1 = m

-----------------------------------------------------------------------------
\* A step keeps the types.
LEMMA StepType ==
    ASSUME TypeOK, [Next]_vars
    PROVE  TypeOK'
<1> USE IoAssumption, MaxSendAssumption DEF TypeOK, Thread, Location, Goto
<1> USE DEF netVars, queueVars, wireVars
<1>1. ASSUME NEW t \in Thread, SendCheck(t)
      PROVE  TypeOK'
  BY <1>1 DEF SendCheck
<1>2. ASSUME NEW t \in Thread, Push(t)
      PROVE  TypeOK'
  BY <1>2 DEF Push
<1>3. ASSUME NEW t \in Thread, WriteCheck(t)
      PROVE  TypeOK'
  BY <1>3 DEF WriteCheck
<1>4. ASSUME NEW t \in Thread, TestWriting(t)
      PROVE  TypeOK'
  BY <1>4 DEF TestWriting
<1>5. ASSUME NEW t \in Thread, PopNothing(t)
      PROVE  TypeOK'
  BY <1>5 DEF PopNothing
<1>6. ASSUME NEW t \in Thread, Pop(t)
      PROVE  TypeOK'
  <2>1. Head(writeQueue) \in 1..MaxSend /\ Tail(writeQueue) \in Seq(1..MaxSend)
    BY <1>6 DEF Pop
  <2>2. QED
    BY <1>6, <2>1 DEF Pop
<1>7. ASSUME NEW m \in posted, StartWrite(m)
      PROVE  TypeOK'
  BY <1>7 DEF StartWrite
<1>8. ASSUME NEW m \in flying, Complete(m)
      PROVE  TypeOK'
  <2>1. Append(delivered, m) \in Seq(1..MaxSend)
    BY m \in 1..MaxSend
  <2>2. delivered' \in Seq(1..MaxSend)
    BY <1>8, <2>1 DEF Complete
  <2>3. QED
    BY <1>8, <2>2 DEF Complete
<1>9. CASE OnWrite
  BY <1>9 DEF OnWrite
<1>10. CASE OnWriteError
  BY <1>10 DEF OnWriteError
<1>11. CASE Drop \/ Close \/ StreamFails \/ UNCHANGED vars
  BY <1>11 DEF Drop, Close, StreamFails, vars
<1>12. QED
  BY <1>1, <1>2, <1>3, <1>4, <1>5, <1>6, <1>7, <1>8, <1>9, <1>10, <1>11
     DEF Next, WriteStep, IoStep

\* Every variable of the write path keeps its type.
THEOREM TypeCorrect == Spec => []TypeOK
<1>1. ASSUME Init
      PROVE  TypeOK
  <2>1. /\ writing \in BOOLEAN /\ actived \in BOOLEAN
        /\ connected \in BOOLEAN /\ up \in BOOLEAN
    BY <1>1, Zenon DEF Init
  <2>2. << >> \in Seq(1..MaxSend)
    OBVIOUS
  <2>3. pushed \in 0..MaxSend
    BY <1>1, MaxSendAssumption DEF Init
  <2>4. QED
    BY <1>1, <2>1, <2>2, <2>3 DEF Init, TypeOK, Thread, Location
<1>2. TypeOK /\ [Next]_vars => TypeOK'
  BY StepType
<1>3. QED
  BY <1>1, <1>2, PTL DEF Spec

-----------------------------------------------------------------------------
(* The protocol of the lock and the flag. *)

\* A step keeps the lock with the thread that is about to pop.
LEMMA StepLock ==
    ASSUME TypeOK, LockInv, [Next]_vars
    PROVE  LockInv'
<1> USE IoAssumption DEF TypeOK, LockInv, Thread, Goto, netVars, queueVars, wireVars
<1>1. ASSUME NEW t \in Thread, SendCheck(t) \/ Push(t) \/ WriteCheck(t)
      PROVE  LockInv'
  BY <1>1 DEF SendCheck, Push, WriteCheck
<1>2. ASSUME NEW t \in Thread, TestWriting(t)
      PROVE  LockInv'
  BY <1>2 DEF TestWriting
<1>3. ASSUME NEW t \in Thread, PopNothing(t) \/ Pop(t)
      PROVE  LockInv'
  BY <1>3 DEF PopNothing, Pop
<1>4. CASE IoStep
  BY <1>4 DEF IoStep, StartWrite, Complete, OnWrite, OnWriteError
<1>5. CASE Drop \/ Close \/ StreamFails \/ UNCHANGED vars
  BY <1>5 DEF Drop, Close, StreamFails, vars
<1>6. QED
  BY <1>1, <1>2, <1>3, <1>4, <1>5 DEF Next, WriteStep

\* A step keeps the meaning of m_writing.
LEMMA StepWriting ==
    ASSUME TypeOK, LockInv, WritingInv, [Next]_vars
    PROVE  WritingInv'
<1> USE IoAssumption DEF WritingInv, OneWriteAtATime, Outstanding, Completing, Popping,
                         Alive, Goto, netVars, queueVars, wireVars
<1>0. io \in Thread /\ pc \in [Thread -> Location] /\ lock \subseteq Thread
      /\ writing \in BOOLEAN /\ actived \in BOOLEAN /\ connected \in BOOLEAN
  BY DEF Thread, TypeOK
<1>1. ASSUME NEW t \in Thread, SendCheck(t) \/ Push(t)
      PROVE  WritingInv'
  BY <1>0, <1>1 DEF SendCheck, Push
<1>2. ASSUME NEW t \in Thread, WriteCheck(t)
      PROVE  WritingInv'
  BY <1>0, <1>2 DEF WriteCheck
<1>3. ASSUME NEW t \in Thread, TestWriting(t)
      PROVE  WritingInv'
  BY <1>0, <1>3 DEF TestWriting
<1>4. ASSUME NEW t \in Thread, PopNothing(t)
      PROVE  WritingInv'
  BY <1>0, <1>4 DEF PopNothing, LockInv
<1>5. ASSUME NEW t \in Thread, Pop(t)
      PROVE  WritingInv'
  BY <1>0, <1>5 DEF Pop, LockInv
<1>6. ASSUME NEW m \in posted, StartWrite(m)
      PROVE  WritingInv'
  BY <1>0, <1>6 DEF StartWrite
<1>7. ASSUME NEW m \in flying, Complete(m)
      PROVE  WritingInv'
  BY <1>0, <1>7 DEF Complete
<1>8. CASE OnWrite
  BY <1>0, <1>8 DEF OnWrite
<1>9. CASE OnWriteError
  BY <1>0, <1>9 DEF OnWriteError
<1>10. CASE Drop \/ Close \/ StreamFails \/ UNCHANGED vars
  BY <1>0, <1>10 DEF Drop, Close, StreamFails, vars
<1>11. QED
  BY <1>1, <1>2, <1>3, <1>4, <1>5, <1>6, <1>7, <1>8, <1>9, <1>10
     DEF Next, WriteStep, IoStep
-----------------------------------------------------------------------------
(* The order of the messages. *)

\* A step keeps the order.
LEMMA StepOrder ==
    ASSUME TypeOK, LockInv, WritingInv, OrderInv, [Next]_vars
    PROVE  OrderInv'
<1> USE DEF OrderInv, Outstanding, netVars, queueVars, wireVars
<1>0. /\ writeQueue \in Seq(1..MaxSend) /\ delivered \in Seq(1..MaxSend)
      /\ pushed \in Nat /\ Len(writeQueue) \in Nat /\ Len(delivered) \in Nat
  BY MaxSendAssumption DEF TypeOK
<1>1. ASSUME NEW t \in Thread, SendCheck(t) \/ WriteCheck(t) \/ TestWriting(t) \/ PopNothing(t)
      PROVE  OrderInv'
  BY <1>1 DEF SendCheck, WriteCheck, TestWriting, PopNothing
<1>2. ASSUME NEW t \in Thread, Push(t)
      PROVE  OrderInv'
  <2>1. /\ writeQueue' = Append(writeQueue, pushed + 1) /\ pushed' = pushed + 1
        /\ UNCHANGED <<connected, up, posted, flying, delivered>>
    BY <1>2 DEF Push
  <2>2. pushed + 1 \in 1..MaxSend
    BY <1>0, <1>2, MaxSendAssumption DEF Push, TypeOK
  <2>3. /\ Len(writeQueue') = Len(writeQueue) + 1
        /\ \A i \in 1..Len(writeQueue) : writeQueue'[i] = writeQueue[i]
        /\ writeQueue'[Len(writeQueue) + 1] = pushed + 1
    BY <1>0, <2>1, <2>2, AppendProperties
  <2>4. pushed' - Len(writeQueue') = pushed - Len(writeQueue)
    BY <1>0, <2>1, <2>3
  <2>5. ASSUME NEW i \in 1..Len(writeQueue')
        PROVE  writeQueue'[i] = pushed' - Len(writeQueue') + i
    <3>1. CASE i \in 1..Len(writeQueue)
      BY <2>3, <2>4, <3>1
    <3>2. CASE i = Len(writeQueue) + 1
      BY <1>0, <2>1, <2>3, <3>2
    <3>3. QED
      BY <1>0, <2>3, <3>1, <3>2
  <2>6. Len(writeQueue') <= pushed'
    BY <1>0, <2>1, <2>3
  <2>7. QED
    BY <2>1, <2>4, <2>5, <2>6
<1>3. ASSUME NEW t \in Thread, Pop(t)
      PROVE  OrderInv'
  <2>1. /\ writeQueue # << >> /\ writeQueue' = Tail(writeQueue)
        /\ UNCHANGED <<pushed, connected, up, flying, delivered>>
        /\ posted' = IF connected THEN posted \cup {Head(writeQueue)} ELSE posted
    BY <1>3 DEF Pop
  <2>2. posted \cup flying = {}
    BY <1>3 DEF Pop, WritingInv, Popping
  <2>3. /\ Len(writeQueue) > 0
        /\ Len(writeQueue') = Len(writeQueue) - 1
        /\ \A i \in 1..Len(writeQueue') : writeQueue'[i] = writeQueue[i + 1]
        /\ Head(writeQueue) = writeQueue[1]
    BY <1>0, <2>1
  <2>4. Head(writeQueue) = pushed - Len(writeQueue')
    BY <1>0, <2>3
  <2>5. \A i \in 1..Len(writeQueue') : writeQueue'[i] = pushed' - Len(writeQueue') + i
    BY <1>0, <2>1, <2>3
  <2>6. up => /\ posted' \cup flying' = {Head(writeQueue)}
              /\ Len(delivered) + 1 = Head(writeQueue)
    BY <1>0, <2>1, <2>2, <2>3, <2>4
  <2>7. Len(writeQueue') <= pushed'
    BY <1>0, <2>1, <2>3
  <2>8. QED
    BY <2>1, <2>4, <2>5, <2>6, <2>7
<1>4. ASSUME NEW m \in posted, StartWrite(m)
      PROVE  OrderInv'
  <2>1. posted \cup flying = {m}
    BY DEF WritingInv, OneWriteAtATime
  <2>2. up => posted' \cup flying' = {m}
    BY <1>4, <2>1 DEF StartWrite
  <2>3. posted' \cup flying' \subseteq {m} /\ UNCHANGED <<queueVars, netVars, delivered>>
    BY <1>4, <2>1 DEF StartWrite
  <2>4. QED
    BY <2>1, <2>2, <2>3
<1>5. ASSUME NEW m \in flying, Complete(m)
      PROVE  OrderInv'
  <2>1. posted' \cup flying' = {} /\ UNCHANGED <<queueVars, netVars>>
    BY <1>5 DEF Complete, WritingInv, OneWriteAtATime
  <2>2. up => delivered' = Append(delivered, m) /\ Len(delivered') = Len(delivered) + 1
    BY <1>0, <1>5 DEF Complete
  <2>3. up => m = pushed - Len(writeQueue) /\ Len(delivered) + 1 = m
    OBVIOUS
  <2>4. QED
    BY <1>0, <2>1, <2>2, <2>3
<1>6. CASE OnWrite \/ OnWriteError
  BY <1>6 DEF OnWrite, OnWriteError
<1>7. CASE Drop \/ Close \/ StreamFails \/ UNCHANGED vars
  BY <1>7 DEF Drop, Close, StreamFails, vars
<1>8. QED
  BY <1>1, <1>2, <1>3, <1>4, <1>5, <1>6, <1>7 DEF Next, WriteStep, IoStep

Inv == TypeOK /\ LockInv /\ WritingInv /\ OrderInv

\* The inductive invariant of the write path.
THEOREM Invariance == Spec => []Inv
<1>1. ASSUME Init
      PROVE  LockInv /\ WritingInv /\ OrderInv
  <2>1. LockInv
    BY <1>1 DEF Init, LockInv
  <2>2. WritingInv
    BY <1>1 DEF Init, WritingInv, OneWriteAtATime, Outstanding, Completing, Popping, Thread
  <2>3. Len(writeQueue) = 0 /\ Len(delivered) = 0
    BY <1>1 DEF Init
  <2>4. OrderInv
    <3>1. posted \cup flying = {} /\ pushed = 0 /\ connected
      BY <1>1 DEF Init
    <3>2. QED
      BY <2>3, <3>1 DEF OrderInv, Outstanding
  <2>5. QED
    BY <2>1, <2>2, <2>4
<1>2. Inv /\ [Next]_vars => Inv'
  BY StepType, StepLock, StepWriting, StepOrder DEF Inv
<1>3. QED
  BY <1>1, <1>2, TypeCorrect, PTL DEF Spec, Inv

\* Session::write never has two asynchronous writes on the socket.
THEOREM OneWriteAtATimeHolds == Spec => []OneWriteAtATime
<1>1. Inv => OneWriteAtATime
  BY DEF Inv, WritingInv
<1>2. QED
  BY <1>1, Invariance, PTL

\* Queued messages of an active session always have somebody to write them.
LEMMA StepSomebody ==
    ASSUME Inv, SomebodyWrites, [Next]_vars
    PROVE  SomebodyWrites'
<1> USE IoAssumption DEF SomebodyWrites, Alive, Goto, netVars, queueVars, wireVars
<1>0. io \in Thread /\ pc \in [Thread -> Location]
  BY DEF Thread, Inv, TypeOK
<1>1. ASSUME NEW t \in Thread, SendCheck(t)
      PROVE  SomebodyWrites'
  BY <1>0, <1>1 DEF SendCheck
<1>2. ASSUME NEW t \in Thread, Push(t)
      PROVE  SomebodyWrites'
  BY <1>0, <1>2 DEF Push
<1>3. ASSUME NEW t \in Thread, WriteCheck(t)
      PROVE  SomebodyWrites'
  BY <1>0, <1>3 DEF WriteCheck
<1>4. ASSUME NEW t \in Thread, TestWriting(t)
      PROVE  SomebodyWrites'
  BY <1>0, <1>4 DEF TestWriting, Inv, WritingInv, Outstanding, Completing, Popping
<1>5. ASSUME NEW t \in Thread, PopNothing(t) \/ Pop(t)
      PROVE  SomebodyWrites'
  BY <1>0, <1>5 DEF PopNothing, Pop
<1>6. ASSUME NEW m \in posted, StartWrite(m)
      PROVE  SomebodyWrites'
  BY <1>0, <1>6 DEF StartWrite
<1>7. ASSUME NEW m \in flying, Complete(m)
      PROVE  SomebodyWrites'
  BY <1>0, <1>7 DEF Complete
<1>8. CASE OnWrite \/ OnWriteError
  BY <1>0, <1>8 DEF OnWrite, OnWriteError
<1>9. CASE Drop \/ Close \/ StreamFails \/ UNCHANGED vars
  BY <1>9 DEF Drop, Close, StreamFails, vars
<1>10. QED
  BY <1>1, <1>2, <1>3, <1>4, <1>5, <1>6, <1>7, <1>8, <1>9 DEF Next, WriteStep, IoStep

\* No message is left behind in m_writeQueue with nobody to write it.
THEOREM SomebodyWritesHolds == Spec => []SomebodyWrites
<1>1. Init => SomebodyWrites
  BY DEF Init, SomebodyWrites
<1>2. Inv /\ SomebodyWrites /\ [Next]_vars => SomebodyWrites'
  BY StepSomebody
<1>3. QED
  BY <1>1, <1>2, Invariance, PTL DEF Spec

-----------------------------------------------------------------------------
(* Refinement. *)

\* The write path of a Session implements the abstract channel.
THEOREM ChannelImplemented == Spec => ImplementsChannel
<1>1. Init => Channel!Init
  BY DEF Init, Channel!Init
<1>2. ASSUME Inv, [Next]_vars
      PROVE  [Channel!Next]_(Channel!channelVars)
  <2> USE DEF netVars, queueVars, wireVars, Channel!channelVars
  <2>1. ASSUME NEW t \in Thread, Push(t)
        PROVE  Channel!AcceptMessage
    BY <2>1 DEF Push, Channel!AcceptMessage
  <2>2. ASSUME NEW t \in Thread, SendCheck(t) \/ WriteStep(t)
        PROVE  UNCHANGED Channel!channelVars
    BY <2>2 DEF SendCheck, WriteStep, WriteCheck, TestWriting, PopNothing, Pop
  <2>3. ASSUME NEW m \in posted, StartWrite(m)
        PROVE  UNCHANGED Channel!channelVars
    BY <2>3 DEF StartWrite
  <2>4. ASSUME NEW m \in flying, Complete(m), up
        PROVE  Channel!Transmit
    <3>1. /\ m = pushed - Len(writeQueue) /\ Len(delivered) + 1 = m
          /\ pushed \in Nat /\ Len(writeQueue) \in Nat /\ Len(delivered) \in Nat
      <4>1. m = pushed - Len(writeQueue) /\ Len(delivered) + 1 = m
        BY <1>2, <2>4 DEF Inv, OrderInv
      <4>2. writeQueue \in Seq(1..MaxSend) /\ delivered \in Seq(1..MaxSend) /\ pushed \in Nat
        BY MaxSendAssumption, <1>2 DEF Inv, TypeOK
      <4>3. QED
        BY <4>1, <4>2
    <3>2. Len(delivered) < pushed
      BY <3>1
    <3>3. QED
      BY <2>4, <3>1, <3>2 DEF Complete, Channel!Transmit
  <2>5. ASSUME NEW m \in flying, Complete(m), ~up
        PROVE  UNCHANGED Channel!channelVars
    BY <2>5 DEF Complete
  <2>6. CASE OnWrite \/ OnWriteError \/ Drop \/ UNCHANGED vars
    BY <2>6 DEF OnWrite, OnWriteError, Drop, vars
  <2>7. CASE Close \/ StreamFails
    BY <2>7 DEF Close, StreamFails, Channel!Next, Channel!Break
  <2>8. QED
    BY <1>2, <2>1, <2>2, <2>3, <2>4, <2>5, <2>6, <2>7 DEF Next, IoStep, Channel!Next
<1>3. QED
  BY <1>1, <1>2, Invariance, PTL DEF Spec, ImplementsChannel, Channel!Spec
=============================================================================
