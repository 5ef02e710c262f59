--------------------------- MODULE SessionReadProofs ---------------------------
(***************************************************************************)
(* Proofs about SessionCallbacks, the codec of P2PMessage and SessionRead. *)
(*                                                                         *)
(* The codec: whatever follows it, an encoded message is decoded to what   *)
(* was encoded, a part of it is waited for, and what is left of a message  *)
(* that could not be encoded is never taken for one.  What FlattenSeq, a   *)
(* recursive function, does is found by taking the least number of parts   *)
(* for which it would not.                                                 *)
(*                                                                         *)
(* SessionRead: the bytes in m_data and on their way are the messages not  *)
(* taken yet, one behind the other; that is kept by every step, however    *)
(* the bytes are cut into reads.                                           *)
(***************************************************************************)
EXTENDS SessionRead, SequenceTheorems, WellFoundedInduction, TLAPS

-----------------------------------------------------------------------------
(* The response callbacks. *)

\* A task that is about to remove a callback has called it: what makes
\* NoCallbackLost inductive.
RemovedAreInvoked == \A t \in pool : t.phase = "remove" => invoked[t.req] # {}

\* A step keeps the types.
LEMMA StepType ==
    ASSUME TypeOK, [Next]_vars
    PROVE  TypeOK'
<1> USE TimedAssumption DEF TypeOK, Task, Outcome, Call, Cancelled
<1>1. ASSUME NEW r \in Request, CallerStep(r)
      PROVE  TypeOK'
  BY <1>1 DEF CallerStep, CheckActived, addSeqCallback, Send
<1>2. ASSUME NEW r \in Request, Respond(r) \/ onMessage(r) \/ Expire(r) \/ onTimeout(r)
      PROVE  TypeOK'
  BY <1>2 DEF Respond, onMessage, Expire, onTimeout
<1>3. CASE Deactivate \/ CallAndErase
  <2>1. CASE Deactivate
    BY <2>1, Zenon DEF Deactivate
  <2>2. CASE CallAndErase
    <3>1. dropping' \in BOOLEAN /\ actived' \in BOOLEAN
      BY <2>2, Zenon DEF CallAndErase
    <3>2. QED
      BY <2>2, <3>1 DEF CallAndErase
  <2>3. QED
    BY <1>3, <2>1, <2>2
<1>4. ASSUME NEW t \in pool, Invoke(t) \/ removeSeqCallback(t)
      PROVE  TypeOK'
  BY <1>4 DEF Invoke, removeSeqCallback
<1>5. CASE UNCHANGED vars
  BY <1>5 DEF vars
<1>6. QED
  BY <1>1, <1>2, <1>3, <1>4, <1>5 DEF Next

\* A step keeps RemovedAreInvoked.
LEMMA StepRemoved ==
    ASSUME TypeOK, RemovedAreInvoked, [Next]_vars
    PROVE  RemovedAreInvoked'
<1> USE DEF TypeOK, Task, RemovedAreInvoked, Call
<1>1. ASSUME NEW r \in Request, CallerStep(r)
      PROVE  RemovedAreInvoked'
  BY <1>1 DEF CallerStep, CheckActived, addSeqCallback, Send
<1>2. ASSUME NEW r \in Request, Respond(r) \/ onMessage(r) \/ Expire(r) \/ onTimeout(r)
      PROVE  RemovedAreInvoked'
  BY <1>2 DEF Respond, onMessage, Expire, onTimeout
<1>3. CASE Deactivate \/ CallAndErase
  BY <1>3 DEF Deactivate, CallAndErase
<1>4. ASSUME NEW t \in pool, Invoke(t)
      PROVE  RemovedAreInvoked'
  <2>1. /\ \A u \in pool' : u \in pool \/ u.req = t.req
        /\ invoked' = [invoked EXCEPT ![t.req] = @ \cup {t.outcome}]
    BY <1>4 DEF Invoke
  <2>2. QED
    BY <2>1
<1>5. ASSUME NEW t \in pool, removeSeqCallback(t)
      PROVE  RemovedAreInvoked'
  BY <1>5 DEF removeSeqCallback
<1>6. CASE UNCHANGED vars
  BY <1>6 DEF vars
<1>7. QED
  BY <1>1, <1>2, <1>3, <1>4, <1>5, <1>6 DEF Next

\* A step loses no callback.
LEMMA StepLost ==
    ASSUME TypeOK, RemovedAreInvoked, NoCallbackLost, [Next]_vars
    PROVE  NoCallbackLost'
<1> USE DEF TypeOK, Task, NoCallbackLost, Registered, Call
<1>1. ASSUME NEW r \in Request, CallerStep(r)
      PROVE  NoCallbackLost'
  <2>1. CASE CheckActived(r)
    <3>1. /\ UNCHANGED <<callbacks, invoked>> /\ pool \subseteq pool'
          /\ \/ caller' = [caller EXCEPT ![r] = "checked"]
             \/ /\ caller' = [caller EXCEPT ![r] = "returned"]
                /\ Call(r, "inactive") \in pool'
      BY <2>1 DEF CheckActived
    <3>2. QED
      BY <3>1
  <2>2. CASE addSeqCallback(r) \/ Send(r)
    BY <2>2 DEF addSeqCallback, Send
  <2>3. QED
    BY <1>1, <2>1, <2>2 DEF CallerStep
<1>2. ASSUME NEW r \in Request, Respond(r) \/ onMessage(r) \/ Expire(r) \/ onTimeout(r)
      PROVE  NoCallbackLost'
  BY <1>2 DEF Respond, onMessage, Expire, onTimeout
<1>3. CASE Deactivate
  BY <1>3 DEF Deactivate
<1>4. CASE CallAndErase
  <2>1. /\ UNCHANGED <<caller, invoked>> /\ pool \subseteq pool'
        /\ \A r \in callbacks : Call(r, "disconnect") \in pool'
    BY <1>4 DEF CallAndErase
  <2>2. QED
    BY <2>1
<1>5. ASSUME NEW t \in pool, Invoke(t)
      PROVE  NoCallbackLost'
  <2>1. /\ UNCHANGED <<caller, callbacks>> /\ pool \ {t} \subseteq pool'
        /\ invoked' = [invoked EXCEPT ![t.req] = @ \cup {t.outcome}]
    BY <1>5 DEF Invoke
  <2>2. QED
    BY <2>1
<1>6. ASSUME NEW t \in pool, removeSeqCallback(t)
      PROVE  NoCallbackLost'
  <2>1. /\ UNCHANGED <<caller, invoked>> /\ invoked[t.req] # {}
        /\ callbacks' = callbacks \ {t.req} /\ pool' = pool \ {t}
    BY <1>6 DEF removeSeqCallback, RemovedAreInvoked
  <2>2. QED
    BY <2>1
<1>7. CASE UNCHANGED vars
  BY <1>7 DEF vars
<1>8. QED
  BY <1>1, <1>2, <1>3, <1>4, <1>5, <1>6, <1>7 DEF Next

Inv == TypeOK /\ RemovedAreInvoked /\ NoCallbackLost

\* The callbacks, timers and tasks of a session stay what they are declared to be: a
\* timer runs only for a request with a timeout.
THEOREM CallbacksTypeCorrect == Spec => []TypeOK
<1>1. Init => TypeOK
  BY DEF Init, TypeOK
<1>2. TypeOK /\ [Next]_vars => TypeOK'
  BY StepType
<1>3. QED
  BY <1>1, <1>2, PTL DEF Spec

\* Whatever the order of responses, timers, drops and pool tasks, a callback that
\* was registered is still registered, queued to be called, or has been called.
THEOREM NoCallbackLostHolds == Spec => []NoCallbackLost
<1>1. Init => Inv
  BY DEF Init, Inv, TypeOK, RemovedAreInvoked, NoCallbackLost, Registered
<1>2. Inv /\ [Next]_vars => Inv'
  BY StepType, StepRemoved, StepLost DEF Inv
<1>3. Inv => NoCallbackLost
  BY DEF Inv
<1>4. QED
  BY <1>1, <1>2, <1>3, PTL DEF Spec

-----------------------------------------------------------------------------
(* Integers. *)

\* A field of two bytes holds 3 and one of four bytes 15, whatever the Radix.
LEMMA UIntBounds == 0..3 \subseteq UInt16 /\ 0..15 \subseteq UInt32 /\ UInt32 \subseteq Nat
<1> DEFINE square == Radix * Radix
<1>1. square \in Nat /\ square >= 4
  BY RadixAssumption
<1>2. UInt16 = 0..(square - 1) /\ UInt32 = 0..(square * square - 1)
  BY DEF UInt16, UInt32
<1> HIDE DEF square
<1>3. square * square \in Nat /\ square * square >= 16
  BY <1>1
<1>4. QED
  BY <1>1, <1>2, <1>3

\* The quotient and the rest are the only ones.
LEMMA DivisionUnique ==
    ASSUME NEW d \in Nat, d > 0, NEW a \in Nat, NEW b \in 0..(d - 1), NEW n \in Nat, n = d * a + b
    PROVE  n \div d = a /\ n % d = b
<1> DEFINE q == n \div d
           r == n % d
<1>1. q \in Nat /\ r \in 0..(d - 1) /\ n = d * q + r
  OBVIOUS
<1>2. d * (a - q) = r - b
  BY <1>1
<1>3. ~(a - q >= 1) /\ ~(a - q <= -1)
  <2> HIDE DEF q, r
  <2>1. ASSUME a - q >= 1 PROVE FALSE
    <3>1. d * (a - q) >= d
      BY <1>1, <2>1
    <3> QED BY <3>1, <1>1, <1>2
  <2>2. ASSUME a - q <= -1 PROVE FALSE
    <3>1. d * (a - q) <= -d
      BY <1>1, <2>2
    <3> QED BY <3>1, <1>1, <1>2
  <2> QED BY <2>1, <2>2
<1>4. a = q
  BY <1>1, <1>3
<1> QED BY <1>1, <1>4

\* What \div and % are.
LEMMA DivisionMod ==
    ASSUME NEW d \in Nat, d > 0, NEW n \in Nat
    PROVE  n \div d \in Nat /\ n % d \in 0..(d - 1) /\ n = d * (n \div d) + (n % d)
OBVIOUS

\* Short writes two bytes.
LEMMA ShortType ==
    ASSUME NEW n \in Nat
    PROVE  Short(n) \in Seq(Byte) /\ Len(Short(n)) = 2
<1>1. n \div Radix \in Nat /\ (n \div Radix) % Radix \in Byte /\ n % Radix \in Byte
  BY RadixAssumption, DivisionMod DEF Byte
<1> QED BY <1>1 DEF Short

\* What Short writes, ShortAt reads.
LEMMA ShortValue ==
    ASSUME NEW n \in UInt16
    PROVE  Radix * Short(n)[1] + Short(n)[2] = n
<1> DEFINE q == n \div Radix
           r == n % Radix
<1>0. n \in Nat /\ n < Radix * Radix
  BY RadixAssumption DEF UInt16
<1>1. q \in Nat /\ r \in 0..(Radix - 1) /\ n = Radix * q + r
  BY RadixAssumption, <1>0, DivisionMod
<1>2. q < Radix
  <2> HIDE DEF q, r
  <2>1. ASSUME q >= Radix PROVE FALSE
    <3>1. Radix * q >= Radix * Radix
      BY <2>1, <1>1, RadixAssumption
    <3>2. QED
      BY <1>0, <1>1, <3>1, RadixAssumption
  <2>2. QED
    BY <1>1, <2>1, RadixAssumption
<1>3. q % Radix = q
  <2> HIDE DEF q
  <2> QED BY <1>1, <1>2, RadixAssumption, DivisionUnique
<1>4. Short(n)[1] = q /\ Short(n)[2] = r
  BY <1>3 DEF Short
<1> QED BY <1>1, <1>4

\* Long writes four bytes.
LEMMA LongType ==
    ASSUME NEW n \in Nat
    PROVE  Long(n) \in Seq(Byte) /\ Len(Long(n)) = 4
<1> DEFINE high == n \div (Radix * Radix)
           x == Short(high)
           y == Short(n)
<1>1. high \in Nat
  <2>1. Radix * Radix \in Nat /\ Radix * Radix > 0
    BY RadixAssumption
  <2>2. QED
    BY <2>1, DivisionMod
<1>2. x \in Seq(Byte) /\ y \in Seq(Byte)
  BY <1>1, ShortType
<1>6. Len(x) = 2 /\ Len(y) = 2
  BY <1>1, ShortType
<1>3. Long(n) = x \o y
  BY DEF Long
<1> HIDE DEF x, y
<1>4. Long(n) \in Seq(Byte) /\ Len(Long(n)) = Len(x) + Len(y)
  BY <1>2, <1>3, ConcatProperties
<1>5. QED
  BY <1>4, <1>6

\* What Long writes, LongAt reads.
LEMMA LongValue ==
    ASSUME NEW n \in UInt32
    PROVE  LongAt(Long(n), 0) = n
<1> DEFINE square == Radix * Radix
           high == n \div square
           q == n \div Radix
           r == n % Radix
<1>0. n \in Nat /\ square \in Nat /\ square > 0 /\ n < square * square
  BY RadixAssumption DEF UInt32
<1>1. high \in Nat /\ n % square \in 0..(square - 1) /\ n = square * high + (n % square)
  BY <1>0, DivisionMod
<1>2. high \in UInt16
  <2> HIDE DEF high, square
  <2>1. ASSUME high >= square PROVE FALSE
    <3>1. square * high >= square * square
      BY <2>1, <1>0, <1>1
    <3>2. QED
      BY <1>0, <1>1, <3>1
  <2>2. high \in 0..(square - 1)
    BY <1>0, <1>1, <2>1
  <2>3. QED
    BY <2>2 DEF square, UInt16
<1>3. q \in Nat /\ r \in 0..(Radix - 1) /\ n = Radix * q + r
  BY <1>0, RadixAssumption, DivisionMod
<1>4. /\ q \div Radix \in Nat /\ q % Radix \in 0..(Radix - 1)
      /\ q = Radix * (q \div Radix) + (q % Radix)
  <2> HIDE DEF q
  <2> QED
    BY <1>3, RadixAssumption, DivisionMod
<1>5. Radix * (q % Radix) + r = n % square
  <2> DEFINE a == q \div Radix
             b == q % Radix
  <2> HIDE DEF q, r, a, b
  <2>1. n = square * a + (Radix * b + r)
    <3>1. Radix * q = Radix * (Radix * a + b)
      BY <1>4 DEF a, b
    <3>2. a \in Nat /\ b \in Nat
      BY <1>4, RadixAssumption DEF a, b
    <3>3. Radix * (Radix * a + b) = square * a + Radix * b
      BY <3>2, RadixAssumption
    <3>4. QED
      BY <1>3, <3>1, <3>2, <3>3, RadixAssumption
  <2>2. Radix * b + r \in 0..(square - 1)
    <3>1. b \in 0..(Radix - 1) /\ r \in 0..(Radix - 1)
      BY <1>3, <1>4 DEF b
    <3>2. Radix * b <= Radix * (Radix - 1) /\ Radix * b >= 0
      BY <3>1, RadixAssumption
    <3>3. Radix * (Radix - 1) = square - Radix
      BY RadixAssumption
    <3>4. QED
      BY <1>0, <3>1, <3>2, <3>3, RadixAssumption
  <2>3. a \in Nat
    BY <1>4 DEF a
  <2>4. n % square = Radix * b + r
    <3> DEFINE c == Radix * b + r
    <3>1. n = square * a + c /\ c \in 0..(square - 1)
      BY <2>1, <2>2
    <3> HIDE DEF square, c
    <3>2. n % square = c
      BY <1>0, <2>3, <3>1, DivisionUnique
    <3>3. QED
      BY <3>2 DEF c
  <2>5. QED
    BY <2>4 DEF b
<1>6. Radix * Short(high)[1] + Short(high)[2] = high
  <2> HIDE DEF high
  <2> QED
    BY <1>2, ShortValue
<1>7. /\ Long(n)[1] = Short(high)[1] /\ Long(n)[2] = Short(high)[2]
      /\ Long(n)[3] = q % Radix /\ Long(n)[4] = r
  <2>1. Long(n) = Short(high) \o Short(n)
    BY DEF Long
  <2>2. Short(high) \in Seq(Byte) /\ Len(Short(high)) = 2
    BY <1>1, ShortType
  <2>3. Short(n) = <<q % Radix, r>> /\ Short(n) \in Seq(Byte)
    BY <1>0, ShortType DEF Short
  <2> DEFINE s == Short(high)
             t == Short(n)
  <2>4. s \in Seq(Byte) /\ Len(s) = 2 /\ t \in Seq(Byte) /\ Len(t) = 2
    BY <1>0, <2>2, <2>3, ShortType
  <2>5. t[1] = q % Radix /\ t[2] = r
    BY <2>3
  <2> HIDE DEF s, t
  <2>6. /\ (s \o t)[1] = s[1] /\ (s \o t)[2] = s[2]
        /\ (s \o t)[3] = t[1] /\ (s \o t)[4] = t[2]
    <3>1. \A i \in 1..(Len(s) + Len(t)) :
              (s \o t)[i] = IF i <= Len(s) THEN s[i] ELSE t[i - Len(s)]
      BY <2>4, ConcatProperties
    <3>2. 1..(Len(s) + Len(t)) = 1..4
      BY <2>4
    <3> DEFINE c == s \o t
    <3>3. \A i \in 1..4 : c[i] = IF i <= 2 THEN s[i] ELSE t[i - 2]
      BY <2>4, <3>1, <3>2
    <3> HIDE DEF c
    <3>4. c[1] = s[1] /\ c[2] = s[2] /\ c[3] = t[1] /\ c[4] = t[2]
      BY <3>3
    <3>5. QED
      BY <3>4 DEF c
  <2>7. QED
    BY <2>1, <2>5, <2>6 DEF s, t
<1>8. LongAt(Long(n), 0) = square * high + (n % square)
  <2>1. LongAt(Long(n), 0) = square * (Radix * Long(n)[1] + Long(n)[2])
                             + (Radix * Long(n)[3] + Long(n)[4])
    BY DEF LongAt, ShortAt
  <2> HIDE DEF high, q, r, square
  <2>2. QED
    BY <1>5, <1>6, <1>7, <2>1
<1>9. QED
  BY <1>1, <1>8

-----------------------------------------------------------------------------
(* Bytes within a buffer. *)

\* The bytes s lie in b from the offset off on.
At(b, off, s) == off + Len(s) <= Len(b) /\ \A i \in 1..Len(s) : b[off + i] = s[i]

\* What is there is there part by part.
LEMMA AtConcat ==
    ASSUME NEW S, NEW b \in Seq(S), NEW off \in Nat, NEW s \in Seq(S), NEW t \in Seq(S), 
           At(b, off, s \o t)
    PROVE  At(b, off, s) /\ At(b, off + Len(s), t)
<1>1. /\ Len(s \o t) = Len(s) + Len(t)
      /\ \A i \in 1..(Len(s) + Len(t)) :
            (s \o t)[i] = IF i <= Len(s) THEN s[i] ELSE t[i - Len(s)]
  BY ConcatProperties
<1>2. off + Len(s) + Len(t) <= Len(b)
  BY <1>1 DEF At
<1>3. ASSUME NEW i \in 1..Len(s)
      PROVE  b[off + i] = s[i]
  <2>1. i \in 1..Len(s \o t) /\ (s \o t)[i] = s[i]
    BY <1>1
  <2>2. QED
    BY <2>1 DEF At
<1>4. ASSUME NEW i \in 1..Len(t)
      PROVE  b[off + Len(s) + i] = t[i]
  <2>1. Len(s) + i \in 1..Len(s \o t) /\ (s \o t)[Len(s) + i] = t[i]
    BY <1>1
  <2>2. b[off + (Len(s) + i)] = (s \o t)[Len(s) + i]
    BY <2>1 DEF At
  <2>3. QED
    BY <2>1, <2>2
<1>5. QED
  BY <1>2, <1>3, <1>4 DEF At

\* What is there can be cut out.
LEMMA AtSubSeq ==
    ASSUME NEW S, NEW b \in Seq(S), NEW off \in Nat, NEW s \in Seq(S), At(b, off, s)
    PROVE  SubSeq(b, off + 1, off + Len(s)) = s
<1> DEFINE u == SubSeq(b, off + 1, off + Len(s))
<1>1. /\ u \in Seq(S) /\ Len(u) = Len(s)
      /\ \A i \in 1..Len(s) : u[i] = b[off + i]
  <2>1. \A i \in (off + 1)..(off + Len(s)) : b[i] \in S
    BY DEF At
  <2>2. QED
    BY <2>1, SubSeqProperties
<1>2. \A i \in 1..Len(s) : u[i] = s[i]
  BY <1>1 DEF At
<1> HIDE DEF u
<1>3. u = s
  BY <1>1, <1>2, SeqEqual
<1>4. QED
  BY <1>3 DEF u

\* What getCroppedBuffer leaves.
LEMMA CroppedSeq ==
    ASSUME NEW S, NEW b \in Seq(S), NEW k \in 0..Len(b)
    PROVE  /\ Cropped(b, k) \in Seq(S) /\ Len(Cropped(b, k)) = Len(b) - k
           /\ \A i \in 1..(Len(b) - k) : Cropped(b, k)[i] = b[k + i]
<1>1. \A i \in (k + 1)..Len(b) : b[i] \in S
  OBVIOUS
<1>2. QED
  BY <1>1, SubSeqProperties DEF Cropped

\* What lies behind the cut is still there, that much nearer.
LEMMA AtCropped ==
    ASSUME NEW S, NEW b \in Seq(S), NEW k \in 0..Len(b), NEW off \in Nat, NEW s \in Seq(S), 
           At(b, k + off, s)
    PROVE  At(Cropped(b, k), off, s)
<1>1. off + Len(s) <= Len(b) - k
  BY DEF At
<1>2. ASSUME NEW i \in 1..Len(s)
      PROVE  Cropped(b, k)[off + i] = s[i]
  <2>1. off + i \in 1..(Len(b) - k)
    BY <1>1
  <2>2. Cropped(b, k)[off + i] = b[k + (off + i)]
    BY <2>1, CroppedSeq
  <2>3. QED
    BY <2>2 DEF At
<1>3. QED
  BY <1>1, <1>2, CroppedSeq DEF At

\* A two-byte integer that is there is read.
LEMMA AtShort ==
    ASSUME NEW b \in Seq(Byte), NEW off \in Nat, NEW n \in UInt16, At(b, off, Short(n))
    PROVE  ShortAt(b, off) = n
<1>1. n \in Nat
  BY RadixAssumption DEF UInt16
<1>2. b[off + 1] = Short(n)[1] /\ b[off + 2] = Short(n)[2]
  BY <1>1, ShortType DEF At
<1>3. QED
  BY <1>2, ShortValue DEF ShortAt

\* A four-byte integer that is there is read.
LEMMA AtLong ==
    ASSUME NEW b \in Seq(Byte), NEW off \in Nat, NEW n \in UInt32, At(b, off, Long(n))
    PROVE  LongAt(b, off) = n
<1>1. n \in Nat
  BY RadixAssumption DEF UInt32
<1>2. \A i \in 1..4 : b[off + i] = Long(n)[i]
  BY <1>1, LongType DEF At
<1>3. /\ b[off + 1] = Long(n)[1] /\ b[off + 2] = Long(n)[2]
      /\ b[off + 3] = Long(n)[3] /\ b[off + 4] = Long(n)[4]
  BY <1>2
<1>4. LongAt(b, off) = LongAt(Long(n), 0)
  BY <1>3 DEF LongAt, ShortAt
<1>5. QED
  BY <1>4, LongValue
\* A set of numbers that is not empty has a least element: the induction of these proofs.
LEMMA Smallest ==
    ASSUME NEW T, T \subseteq Nat, T # {}
    PROVE  \E n \in T : \A k \in T : n <= k
<1> DEFINE Less == {p \in Nat \X Nat : p[1] < p[2]}
<1>1. IsWellFoundedOn(Less, Nat)
  BY NatLessThanWellFounded DEF OpToRel
<1>2. PICK n \in T : \A k \in T : ~(<<k, n>> \in Less)
  <2> HIDE DEF Less
  <2> QED BY <1>1, WFMin
<1>3. ASSUME NEW k \in T
      PROVE  n <= k
  <2>1. k \in Nat /\ n \in Nat
     OBVIOUS
  <2>2. k < n => <<k, n>> \in Less
     BY <2>1
  <2>3. QED
     BY <1>2, <2>1, <2>2
<1>4. QED
  BY <1>3

-----------------------------------------------------------------------------
(* The receivers, one behind the other. *)

\* f is the recursive function of FlattenSeq on its first n arguments.
Flattening(s, n, f) == f = [i \in 1..n |-> IF i = 1 THEN s[i] ELSE f[i - 1] \o s[i]]

\* The function that FlattenSeq chooses exists.
LEMMA FlatteningExists ==
    ASSUME NEW s, NEW n \in Nat
    PROVE  \E f : Flattening(s, n, f)
<1> DEFINE T == {k \in Nat : ~ \E f : Flattening(s, k, f)}
<1> SUFFICES T = {}
  OBVIOUS
<1> SUFFICES ASSUME T # {} PROVE FALSE
  OBVIOUS
<1>1. PICK k \in T : \A j \in T : k <= j
  <2>1. T \subseteq Nat OBVIOUS
  <2> HIDE DEF T
  <2> QED BY <2>1, Smallest
<1>2. k # 0
  <2>1. Flattening(s, 0, [i \in 1..0 |-> 0])
    BY DEF Flattening
  <2>2. QED
    BY <2>1
<1>3. k - 1 \in Nat /\ k - 1 \notin T
  BY <1>1, <1>2
<1>4. PICK f : Flattening(s, k - 1, f)
  BY <1>3
<1> DEFINE g == [i \in 1..k |-> IF i < k THEN f[i] ELSE IF i = 1 THEN s[i] ELSE f[i - 1] \o s[i]]
<1>5. Flattening(s, k, g)
  <2>1. ASSUME NEW i \in 1..k
        PROVE  g[i] = IF i = 1 THEN s[i] ELSE g[i - 1] \o s[i]
    <3>1. CASE i < k
      <4>1. i \in 1..(k - 1) /\ (i # 1 => i - 1 \in 1..k /\ i - 1 < k)
        BY <3>1
      <4>2. f[i] = IF i = 1 THEN s[i] ELSE f[i - 1] \o s[i]
        BY <1>4, <4>1 DEF Flattening
      <4>3. g[i] = f[i] /\ (i # 1 => g[i - 1] = f[i - 1])
        BY <3>1, <4>1
      <4>4. QED
        BY <4>2, <4>3
    <3>2. CASE i = k
      BY <3>2
    <3>3. QED
      BY <3>1, <3>2
  <2>2. QED
    BY <2>1 DEF Flattening
<1>6. QED
  BY <1>5

\* FlattenSeq is the last value of that function.
LEMMA FlattenIs ==
    ASSUME NEW s, Len(s) \in Nat, Len(s) # 0
    PROVE  \E f : Flattening(s, Len(s), f) /\ FlattenSeq(s) = f[Len(s)]
<1> DEFINE f == CHOOSE f : Flattening(s, Len(s), f)
<1>1. Flattening(s, Len(s), f)
  BY FlatteningExists
<1>2. FlattenSeq(s) = f[Len(s)]
  BY DEF Flattening, FlattenSeq
<1> QED BY <1>1, <1>2


\* What is there is there when more bytes follow.
LEMMA AtLeft ==
    ASSUME NEW S, NEW b \in Seq(S), NEW t \in Seq(S), NEW off \in Nat, NEW s \in Seq(S),
           At(b, off, s)
    PROVE  At(b \o t, off, s)
<1> DEFINE c == b \o t
<1>1. /\ Len(c) = Len(b) + Len(t)
      /\ \A i \in 1..(Len(b) + Len(t)) : c[i] = IF i <= Len(b) THEN b[i] ELSE t[i - Len(b)]
  BY ConcatProperties
<1> HIDE DEF c
<1>2. off + Len(s) <= Len(c)
  BY <1>1 DEF At
<1>3. ASSUME NEW i \in 1..Len(s)
      PROVE  c[off + i] = s[i]
  BY <1>1 DEF At
<1>4. At(c, off, s)
  BY <1>2, <1>3 DEF At
<1>5. QED
  BY <1>4 DEF c

\* What is written at the end is there.
LEMMA AtRight ==
    ASSUME NEW S, NEW b \in Seq(S), NEW t \in Seq(S)
    PROVE  At(b \o t, Len(b), t)
<1> DEFINE c == b \o t
<1>1. /\ Len(c) = Len(b) + Len(t)
      /\ \A i \in 1..(Len(b) + Len(t)) : c[i] = IF i <= Len(b) THEN b[i] ELSE t[i - Len(b)]
  BY ConcatProperties
<1> HIDE DEF c
<1>2. Len(b) + Len(t) <= Len(c)
  BY <1>1
<1>3. ASSUME NEW i \in 1..Len(t)
      PROVE  c[Len(b) + i] = t[i]
  <2>1. Len(b) \in Nat /\ Len(t) \in Nat
    OBVIOUS
  <2>2. Len(b) + i \in 1..(Len(b) + Len(t)) /\ ~(Len(b) + i <= Len(b)) /\ (Len(b) + i) - Len(b) = i
    BY <2>1
  <2>3. QED
    BY <1>1, <2>2
<1>4. At(c, Len(b), t)
  BY <1>2, <1>3 DEF At
<1>5. QED
  BY <1>4 DEF c

\* Parts of one length lie at the multiples of that length.
LEMMA FlattenEqualLengths ==
    ASSUME NEW S, NEW s \in Seq(Seq(S)), NEW L \in Nat,
           \A i \in 1..Len(s) : Len(s[i]) = L
    PROVE  /\ FlattenSeq(s) \in Seq(S) /\ Len(FlattenSeq(s)) = Len(s) * L
           /\ \A i \in 1..Len(s) : At(FlattenSeq(s), (i - 1) * L, s[i])
<1>1. CASE Len(s) = 0
  <2>1. s = << >> /\ FlattenSeq(s) = s
    BY <1>1, EmptySeq DEF FlattenSeq
  <2>2. FlattenSeq(s) = << >> /\ 0 * L = 0
    BY <2>1
  <2>3. QED
    BY <1>1, <2>2
<1>2. CASE Len(s) # 0
  <2>1. PICK f : Flattening(s, Len(s), f) /\ FlattenSeq(s) = f[Len(s)]
    BY <1>2, FlattenIs
  <2> DEFINE Right(k) == /\ f[k] \in Seq(S) /\ Len(f[k]) = k * L
                         /\ \A i \in 1..k : At(f[k], (i - 1) * L, s[i])
             T == {k \in 1..Len(s) : ~Right(k)}
  <2>2. T = {}
    <3> SUFFICES ASSUME T # {} PROVE FALSE
      OBVIOUS
    <3>1. PICK k \in T : \A j \in T : k <= j
      <4>1. T \subseteq Nat
        OBVIOUS
      <4> HIDE DEF T
      <4>2. QED
        BY <4>1, Smallest
    <3>2. k \in 1..Len(s) /\ s[k] \in Seq(S) /\ Len(s[k]) = L
      OBVIOUS
    <3>3. CASE k = 1
      <4>1. f[k] = s[k]
        BY <2>1, <3>2, <3>3 DEF Flattening
      <4>2. At(s[k], 0, s[k])
        BY <3>2 DEF At
      <4>3. Right(k)
        BY <3>2, <3>3, <4>1, <4>2
      <4>4. QED
        BY <4>3
    <3>4. CASE k # 1
      <4> DEFINE u == f[k - 1]
                 t == s[k]
      <4>1. k - 1 \in 1..Len(s) /\ k - 1 \notin T
        <5>1. k - 1 \in 1..Len(s)
          BY <3>2, <3>4
        <5> HIDE DEF T
        <5>2. k - 1 \notin T
          BY <3>1, <3>2
        <5>3. QED
          BY <5>1, <5>2
      <4>2. f[k] = u \o t
        BY <2>1, <3>2, <3>4 DEF Flattening
      <4>3. /\ u \in Seq(S) /\ Len(u) = (k - 1) * L
            /\ \A i \in 1..(k - 1) : At(u, (i - 1) * L, s[i])
        BY <4>1
      <4>4. t \in Seq(S) /\ Len(t) = L
        BY <3>2
      <4> HIDE DEF u, t, T
      <4>5. u \o t \in Seq(S) /\ Len(u \o t) = k * L
        <5>1. u \o t \in Seq(S) /\ Len(u \o t) = Len(u) + Len(t)
          BY <4>3, <4>4, ConcatProperties
        <5>2. (k - 1) * L + L = k * L
          BY <3>2
        <5>3. QED
          BY <4>3, <4>4, <5>1, <5>2
      <4>6. ASSUME NEW i \in 1..k
            PROVE  At(u \o t, (i - 1) * L, s[i])
        <5>1. CASE i = k
          BY <4>3, <4>4, <5>1, AtRight DEF t
        <5>2. CASE i # k
          <6>1. i \in 1..(k - 1) /\ s[i] \in Seq(S) /\ (i - 1) * L \in Nat
            BY <3>2, <5>2
          <6>2. QED
            BY <4>3, <4>4, <6>1, AtLeft
        <5>3. QED
          BY <5>1, <5>2
      <4>7. Right(k)
        BY <4>2, <4>5, <4>6
      <4>8. QED
        BY <4>7 DEF T
    <3>5. QED
      BY <3>3, <3>4
  <2>3. Right(Len(s))
    <3>1. Len(s) \in 1..Len(s)
      BY <1>2
    <3>2. QED
      BY <2>2, <3>1
  <2>4. QED
    BY <2>1, <2>3
<1>3. QED
  BY <1>1, <1>2

\* A part of what is there is there.
LEMMA AtTrans ==
    ASSUME NEW S, NEW b \in Seq(S), NEW off \in Nat, NEW s \in Seq(S), NEW k \in Nat,
           NEW t \in Seq(S), At(b, off, s), At(s, k, t)
    PROVE  At(b, off + k, t)
<1>1. Len(b) \in Nat /\ Len(s) \in Nat /\ Len(t) \in Nat
  OBVIOUS
<1>2. off + k + Len(t) <= Len(b)
  BY <1>1 DEF At
<1>3. ASSUME NEW i \in 1..Len(t)
      PROVE  b[off + k + i] = t[i]
  <2>1. k + i \in 1..Len(s) /\ s[k + i] = t[i]
    BY <1>1 DEF At
  <2>2. b[off + (k + i)] = s[k + i]
    BY <2>1 DEF At
  <2>3. QED
    BY <1>1, <2>1, <2>2
<1>4. QED
  BY <1>2, <1>3 DEF At

-----------------------------------------------------------------------------
(* The options. *)

\* As in WellFormed: decode takes the length of the receivers from the source.
SameLength(o) == \A i \in 1..Len(o.dstNodeIDs) : Len(o.dstNodeIDs[i]) = Len(o.srcNodeID)

\* The parts of encoded options.
LEMMA OptionsShape ==
    ASSUME NEW o \in Options, SameLength(o), Encodable(o)
    PROVE  /\ encodeOptions(o) \in Seq(Byte)
           /\ Len(encodeOptions(o)) = 5 + Len(o.groupID) + Len(o.srcNodeID)
                                      + Len(o.dstNodeIDs) * Len(o.srcNodeID)
           /\ \A b \in Seq(Byte) : \A off \in Nat : At(b, off, encodeOptions(o)) =>
                /\ At(b, off, Short(Len(o.groupID)))
                /\ At(b, off + 2, o.groupID)
                /\ At(b, off + 2 + Len(o.groupID), Short(Len(o.srcNodeID)))
                /\ At(b, off + 4 + Len(o.groupID), o.srcNodeID)
                /\ b[off + 5 + Len(o.groupID) + Len(o.srcNodeID)] = Len(o.dstNodeIDs)
                /\ \A i \in 1..Len(o.dstNodeIDs) :
                     At(b, off + 5 + Len(o.groupID) + Len(o.srcNodeID) + (i - 1) * Len(o.srcNodeID),
                        o.dstNodeIDs[i])
<1> DEFINE G == Len(o.groupID)
           L == Len(o.srcNodeID)
           n == Len(o.dstNodeIDs)
           x1 == Short(G)
           g == o.groupID
           x2 == Short(L)
           r == o.srcNodeID
           x3 == <<n % Radix>>
           d == FlattenSeq(o.dstNodeIDs)
<1>1. /\ g \in Seq(Byte) /\ r \in Seq(Byte) /\ o.dstNodeIDs \in Seq(Seq(Byte))
      /\ G \in Nat /\ L \in Nat /\ n \in Nat
  BY DEF Options
<1>2. n % Radix = n /\ n \in Byte
  <2>1. n <= Radix - 1
    BY DEF Encodable, MAX_DST_NODEID_COUNT
  <2> HIDE DEF n
  <2>2. QED
    BY <1>1, <2>1, RadixAssumption DEF Byte
<1>3. x1 \in Seq(Byte) /\ x2 \in Seq(Byte) /\ x3 \in Seq(Byte)
  BY <1>1, <1>2, ShortType
<1>4. Len(x1) = 2 /\ Len(x2) = 2 /\ Len(x3) = 1 /\ x3[1] = n
  BY <1>1, <1>2, ShortType
<1>5. /\ d \in Seq(Byte) /\ Len(d) = n * L
      /\ \A i \in 1..n : At(d, (i - 1) * L, o.dstNodeIDs[i])
  BY <1>1, FlattenEqualLengths DEF SameLength
<1>6. encodeOptions(o) = ((((x1 \o g) \o x2) \o r) \o x3) \o d
  BY DEF encodeOptions
<1> HIDE DEF x1, g, x2, r, x3, d
<1> DEFINE e2 == x1 \o g
           e3 == e2 \o x2
           e4 == e3 \o r
           e5 == e4 \o x3
<1>7. e2 \in Seq(Byte) /\ Len(e2) = Len(x1) + Len(g)
  BY <1>1, <1>3, ConcatProperties
<1>8. encodeOptions(o) = (((e2 \o x2) \o r) \o x3) \o d
  BY <1>6
<1> HIDE DEF e2
<1>9. e3 \in Seq(Byte) /\ Len(e3) = Len(e2) + Len(x2)
  BY <1>3, <1>7, ConcatProperties
<1>10. encodeOptions(o) = ((e3 \o r) \o x3) \o d
  BY <1>8
<1> HIDE DEF e3
<1>11. e4 \in Seq(Byte) /\ Len(e4) = Len(e3) + Len(r)
  BY <1>1, <1>9, ConcatProperties
<1>12. encodeOptions(o) = (e4 \o x3) \o d
  BY <1>10
<1> HIDE DEF e4
<1>13. e5 \in Seq(Byte) /\ Len(e5) = Len(e4) + Len(x3)
  BY <1>3, <1>11, ConcatProperties
<1>14. encodeOptions(o) = e5 \o d
  BY <1>12
<1> HIDE DEF e5
<1>15. encodeOptions(o) \in Seq(Byte) /\ Len(encodeOptions(o)) = Len(e5) + Len(d)
  BY <1>5, <1>13, <1>14, ConcatProperties
<1>16. Len(g) = G /\ Len(r) = L
  BY DEF g, r
<1>17. /\ Len(e2) = 2 + G /\ Len(e3) = 4 + G /\ Len(e4) = 4 + G + L /\ Len(e5) = 5 + G + L
       /\ Len(encodeOptions(o)) = 5 + G + L + n * L
  <2> HIDE DEF G, L, n
  <2>1. Len(e2) = 2 + G
    BY <1>4, <1>7, <1>16
  <2>2. Len(e3) = 4 + G
    BY <1>1, <1>4, <1>9, <2>1
  <2>3. Len(e4) = 4 + G + L
    BY <1>1, <1>11, <1>16, <2>2
  <2>4. Len(e5) = 5 + G + L
    BY <1>1, <1>4, <1>13, <2>3
  <2>5. QED
    BY <1>5, <1>15, <2>1, <2>2, <2>3, <2>4
<1>18. ASSUME NEW b \in Seq(Byte), NEW off \in Nat, At(b, off, encodeOptions(o))
       PROVE  /\ At(b, off, x1) /\ At(b, off + 2, g) /\ At(b, off + 2 + G, x2)
              /\ At(b, off + 4 + G, r) /\ b[off + 5 + G + L] = n
              /\ \A i \in 1..n : At(b, off + 5 + G + L + (i - 1) * L, o.dstNodeIDs[i])
  <2>1. At(b, off, e5) /\ At(b, off + Len(e5), d)
    BY <1>5, <1>13, <1>14, <1>18, AtConcat
  <2>2. At(b, off, e4) /\ At(b, off + Len(e4), x3)
    BY <1>3, <1>11, <2>1, AtConcat DEF e5
  <2>3. At(b, off, e3) /\ At(b, off + Len(e3), r)
    BY <1>1, <1>9, <2>2, AtConcat DEF e4
  <2>4. At(b, off, e2) /\ At(b, off + Len(e2), x2)
    BY <1>3, <1>7, <2>3, AtConcat DEF e3
  <2>5. At(b, off, x1) /\ At(b, off + Len(x1), g)
    BY <1>1, <1>3, <2>4, AtConcat DEF e2
  <2> HIDE DEF G, L, n
  <2>6. b[off + Len(e4) + 1] = n
    BY <1>4, <2>2 DEF At
  <2>7. ASSUME NEW i \in 1..n
        PROVE  At(b, off + 5 + G + L + (i - 1) * L, o.dstNodeIDs[i])
    <3>1. o.dstNodeIDs[i] \in Seq(Byte) /\ (i - 1) * L \in Nat
      <4>1. o.dstNodeIDs[i] \in Seq(Byte)
        BY <1>1 DEF n
      <4>2. i - 1 \in Nat /\ L \in Nat
        BY <1>1
      <4>3. QED
        BY <4>1, <4>2
    <3>2. At(d, (i - 1) * L, o.dstNodeIDs[i])
      BY <1>5
    <3>3. off + Len(e5) \in Nat
      BY <1>13
    <3>4. At(b, off + Len(e5) + (i - 1) * L, o.dstNodeIDs[i])
      BY <1>5, <2>1, <3>1, <3>2, <3>3, AtTrans
    <3>5. off + Len(e5) = off + 5 + G + L
      BY <1>1, <1>17
    <3>6. QED
      BY <3>4, <3>5
  <2>8. /\ off + Len(e4) + 1 = off + 5 + G + L /\ off + Len(e3) = off + 4 + G
        /\ off + Len(e2) = off + 2 + G /\ off + Len(x1) = off + 2
    BY <1>1, <1>4, <1>17
  <2>9. QED
    BY <2>3, <2>4, <2>5, <2>6, <2>7, <2>8
<1>19. QED
  BY <1>15, <1>17, <1>18 DEF x1, g, x2, r

\* P2PMessageOptions::decode gives back what P2PMessageOptions::encode was given.
LEMMA OptionsRoundTrip ==
    ASSUME NEW o \in Options, SameLength(o), Encodable(o), NEW b \in Seq(Byte),
           At(b, 0, encodeOptions(o))
    PROVE  decodeOptions(b) = [offset |-> Len(encodeOptions(o)), options |-> o]
<1> DEFINE G == Len(o.groupID)
           L == Len(o.srcNodeID)
           n == Len(o.dstNodeIDs)
<1>1. /\ o.groupID \in Seq(Byte) /\ o.srcNodeID \in Seq(Byte)
      /\ o.dstNodeIDs \in Seq(Seq(Byte))
      /\ G \in Nat /\ L \in Nat /\ n \in Nat /\ n * L \in Nat
  BY DEF Options
<1>2. G \in UInt16 /\ L \in UInt16
  BY <1>1, RadixAssumption DEF Encodable, UInt16, MAX_GROUPID_LENGTH, MAX_NODEID_LENGTH
<1>3. Len(encodeOptions(o)) = 5 + G + L + n * L
  BY OptionsShape
<1>4. /\ At(b, 0, Short(G)) /\ At(b, 0 + 2, o.groupID) /\ At(b, 0 + 2 + G, Short(L))
      /\ At(b, 0 + 4 + G, o.srcNodeID) /\ b[0 + 5 + G + L] = n
      /\ \A i \in 1..n : At(b, 0 + 5 + G + L + (i - 1) * L, o.dstNodeIDs[i])
  <2>1. 0 \in Nat
    OBVIOUS
  <2>2. QED
    BY <2>1, OptionsShape
<1> HIDE DEF G, L, n
<1>5. 5 + G + L + n * L <= Len(b) /\ Len(b) \in Nat
  BY <1>3 DEF At
<1>6. ShortAt(b, 0) = G
  BY <1>2, <1>4, AtShort
<1>7. ShortAt(b, 2 + G) = L
  BY <1>1, <1>2, <1>4, AtShort
<1>8. SubSeq(b, 3, 2 + G) = o.groupID
  <2>1. 2 \in Nat /\ At(b, 2, o.groupID)
    BY <1>4
  <2>2. SubSeq(b, 2 + 1, 2 + Len(o.groupID)) = o.groupID
    BY <1>1, <2>1, AtSubSeq
  <2>3. QED
    BY <2>2 DEF G
<1>9. SubSeq(b, 2 + G + 3, 2 + G + 2 + L) = o.srcNodeID
  <2>1. 4 + G \in Nat /\ At(b, 4 + G, o.srcNodeID)
    BY <1>1, <1>4
  <2>2. SubSeq(b, 4 + G + 1, 4 + G + Len(o.srcNodeID)) = o.srcNodeID
    BY <1>1, <2>1, AtSubSeq
  <2>3. 4 + G + 1 = 2 + G + 3 /\ 4 + G + L = 2 + G + 2 + L
    BY <1>1
  <2>4. QED
    BY <2>2, <2>3 DEF L
<1> DEFINE count == 2 + G + 2 + L
           dst(i) == SubSeq(b, count + 2 + (i - 1) * L, count + 1 + i * L)
<1>10. b[count + 1] = n
  BY <1>1, <1>4
<1>11. [i \in 1..n |-> dst(i)] = o.dstNodeIDs
  <2>1. ASSUME NEW i \in 1..n
        PROVE  dst(i) = o.dstNodeIDs[i]
    <3> DEFINE k == (i - 1) * L
               off == 5 + G + L + k
    <3>1. i * L = k + L /\ k \in Nat
      BY <1>1
    <3>2. o.dstNodeIDs[i] \in Seq(Byte) /\ Len(o.dstNodeIDs[i]) = L
      BY <1>1 DEF n, L, SameLength
    <3>3. At(b, 0 + 5 + G + L + k, o.dstNodeIDs[i])
      BY <1>4
    <3> HIDE DEF k
    <3>4. off \in Nat /\ off = 0 + 5 + G + L + k
      BY <1>1, <3>1
    <3>5. SubSeq(b, off + 1, off + Len(o.dstNodeIDs[i])) = o.dstNodeIDs[i]
      BY <3>2, <3>3, <3>4, AtSubSeq
    <3>6. count + 2 + k = off + 1 /\ count + 1 + (k + L) = off + L
      BY <1>1, <3>1
    <3>7. dst(i) = SubSeq(b, count + 2 + k, count + 1 + (k + L))
      BY <3>1 DEF k
    <3>8. QED
      BY <3>2, <3>5, <3>6, <3>7
  <2> HIDE DEF dst
  <2>2. DOMAIN o.dstNodeIDs = 1..n /\ o.dstNodeIDs = [i \in 1..n |-> o.dstNodeIDs[i]]
    BY <1>1 DEF n
  <2>3. QED
    BY <2>1, <2>2
<1>12. decodeOptions(b) =
         IF 5 > Len(b) \/ 2 + G + 2 > Len(b) \/ count + 1 > Len(b)
            \/ count + 1 + n * L > Len(b)
         THEN Failed
         ELSE [offset |-> count + 1 + n * L,
               options |-> [groupID |-> SubSeq(b, 3, 2 + G),
                            srcNodeID |-> SubSeq(b, 2 + G + 3, count),
                            dstNodeIDs |-> [i \in 1..n |-> dst(i)]]]
  BY <1>6, <1>7, <1>10 DEF decodeOptions, OPTIONS_MIN_LENGTH
<1>13. ~(5 > Len(b) \/ 2 + G + 2 > Len(b) \/ count + 1 > Len(b)
            \/ count + 1 + n * L > Len(b))
  <2> DEFINE k == n * L
  <2>1. k \in Nat /\ 5 + G + L + k <= Len(b)
    BY <1>1, <1>5
  <2> HIDE DEF k
  <2>2. ~(5 > Len(b) \/ 2 + G + 2 > Len(b) \/ count + 1 > Len(b) \/ count + 1 + k > Len(b))
    BY <1>1, <1>5, <2>1
  <2>3. QED
    BY <2>2 DEF k
<1>14. o = [groupID |-> o.groupID, srcNodeID |-> o.srcNodeID, dstNodeIDs |-> o.dstNodeIDs]
  BY DEF Options
<1>15. count + 1 + n * L = Len(encodeOptions(o))
  BY <1>1, <1>3
<1> HIDE DEF dst
<1>16. QED
  BY <1>8, <1>9, <1>11, <1>12, <1>13, <1>14, <1>15

-----------------------------------------------------------------------------
(* The message. *)

MessageFields ==
    [version : UInt16, packetType : UInt16, seq : UInt32, ext : UInt16,
     options : Options, payload : Seq(Byte)]

\* The fields behind the length.
LEMMA FieldsShape ==
    ASSUME NEW m \in MessageFields
    PROVE  /\ encodeFields(m) \in Seq(Byte) /\ Len(encodeFields(m)) = 10
           /\ \A b \in Seq(Byte) : \A off \in Nat : At(b, off, encodeFields(m)) =>
                /\ ShortAt(b, off) = m.version /\ ShortAt(b, off + 2) = m.packetType
                /\ LongAt(b, off + 4) = m.seq /\ ShortAt(b, off + 8) = m.ext
<1> DEFINE v == Short(m.version)
           p == Short(m.packetType)
           q == Long(m.seq)
           x == Short(m.ext)
           e2 == v \o p
           e3 == e2 \o q
<1>1. /\ m.version \in UInt16 /\ m.packetType \in UInt16 /\ m.seq \in UInt32 /\ m.ext \in UInt16
      /\ m.version \in Nat /\ m.packetType \in Nat /\ m.seq \in Nat /\ m.ext \in Nat
  BY RadixAssumption DEF MessageFields, UInt16, UInt32
<1>2. v \in Seq(Byte) /\ p \in Seq(Byte) /\ q \in Seq(Byte) /\ x \in Seq(Byte)
  BY <1>1, ShortType, LongType
<1>3. Len(v) = 2 /\ Len(p) = 2 /\ Len(q) = 4 /\ Len(x) = 2
  BY <1>1, ShortType, LongType
<1>4. encodeFields(m) = ((v \o p) \o q) \o x
  BY DEF encodeFields
<1> HIDE DEF v, p, q, x
<1>5. e2 \in Seq(Byte) /\ Len(e2) = Len(v) + Len(p)
  BY <1>2, ConcatProperties
<1>6. encodeFields(m) = (e2 \o q) \o x
  BY <1>4
<1> HIDE DEF e2
<1>7. e3 \in Seq(Byte) /\ Len(e3) = Len(e2) + Len(q)
  BY <1>2, <1>5, ConcatProperties
<1>8. encodeFields(m) = e3 \o x
  BY <1>6
<1> HIDE DEF e3
<1>9. encodeFields(m) \in Seq(Byte) /\ Len(encodeFields(m)) = Len(e3) + Len(x)
  BY <1>2, <1>7, <1>8, ConcatProperties
<1>10. Len(e2) = 4 /\ Len(e3) = 8
  BY <1>3, <1>5, <1>7
<1>11. Len(encodeFields(m)) = 10
  BY <1>3, <1>9, <1>10
<1>12. ASSUME NEW b \in Seq(Byte), NEW off \in Nat, At(b, off, encodeFields(m))
       PROVE  /\ ShortAt(b, off) = m.version /\ ShortAt(b, off + 2) = m.packetType
              /\ LongAt(b, off + 4) = m.seq /\ ShortAt(b, off + 8) = m.ext
  <2>1. At(b, off, e3) /\ At(b, off + Len(e3), x)
    BY <1>2, <1>7, <1>8, <1>12, AtConcat
  <2>2. At(b, off, e2) /\ At(b, off + Len(e2), q)
    BY <1>2, <1>5, <2>1, AtConcat DEF e3
  <2>3. At(b, off, v) /\ At(b, off + Len(v), p)
    BY <1>2, <2>2, AtConcat DEF e2
  <2>4. At(b, off + 8, x) /\ At(b, off + 4, q) /\ At(b, off + 2, p)
    BY <1>3, <1>10, <2>1, <2>2, <2>3
  <2>5. off + 8 \in Nat /\ off + 4 \in Nat /\ off + 2 \in Nat
    OBVIOUS
  <2>6. ShortAt(b, off) = m.version /\ ShortAt(b, off + 2) = m.packetType
    BY <1>1, <2>3, <2>4, <2>5, AtShort DEF v, p
  <2>7. LongAt(b, off + 4) = m.seq /\ ShortAt(b, off + 8) = m.ext
    BY <1>1, <2>4, <2>5, AtShort, AtLong DEF q, x
  <2>8. QED
    BY <2>6, <2>7
<1>13. QED
  BY <1>9, <1>11, <1>12

OptionBytes(m) == IF hasOptions(m) THEN encodeOptions(m.options) ELSE << >>

\* The parts of a message that could be encoded.
LEMMA EncodedShape ==
    ASSUME NEW m, WellFormed(m), canEncode(m)
    PROVE  /\ OptionBytes(m) \in Seq(Byte) /\ encode(m) \in Seq(Byte)
           /\ Len(encode(m)) = 14 + Len(OptionBytes(m)) + Len(m.payload)
           /\ \A b \in Seq(Byte) : \A off \in Nat : At(b, off, encode(m)) =>
                /\ At(b, off, Long(Len(encode(m)))) /\ At(b, off + 4, encodeFields(m))
                /\ At(b, off + 14, OptionBytes(m))
                /\ At(b, off + 14 + Len(OptionBytes(m)), m.payload)
<1> DEFINE f == encodeFields(m)
           o == OptionBytes(m)
           p == m.payload
           e2 == f \o o
           body == e2 \o p
           l == Long(Len(body) + 4)
<1>1. m \in MessageFields /\ p \in Seq(Byte) /\ m.options \in Options
  BY DEF WellFormed, MessageFields
<1>2. f \in Seq(Byte)
  BY <1>1, FieldsShape
<1>3. Len(f) = 10
  BY <1>1, FieldsShape
<1>4. o \in Seq(Byte)
  <2>1. CASE hasOptions(m)
    <3>1. encodeOptions(m.options) \in Seq(Byte)
      BY <1>1, <2>1, OptionsShape DEF WellFormed, canEncode, SameLength
    <3>2. QED
      BY <2>1, <3>1 DEF OptionBytes
  <2>2. CASE ~hasOptions(m)
    BY <2>2 DEF OptionBytes
  <2>3. QED
    BY <2>1, <2>2
<1>5. encode(m) = Long(Len((f \o o) \o p) + 4) \o ((f \o o) \o p)
  BY DEF encode, OptionBytes
<1> HIDE DEF f, o, p
<1>6. e2 \in Seq(Byte) /\ Len(e2) = Len(f) + Len(o)
  BY <1>2, <1>4, ConcatProperties
<1>7. encode(m) = Long(Len(e2 \o p) + 4) \o (e2 \o p)
  BY <1>5
<1> HIDE DEF e2
<1>8. body \in Seq(Byte) /\ Len(body) = Len(e2) + Len(p)
  BY <1>1, <1>6, ConcatProperties
<1>9. encode(m) = l \o body
  BY <1>7
<1> HIDE DEF body
<1>10. Len(body) \in Nat /\ Len(body) + 4 \in Nat
  BY <1>8
<1>11. l \in Seq(Byte)
  BY <1>10, LongType
<1>12. Len(l) = 4
  BY <1>10, LongType
<1>13. l = Long(Len(body) + 4)
  OBVIOUS
<1> HIDE DEF l
<1>14. encode(m) \in Seq(Byte) /\ Len(encode(m)) = Len(l) + Len(body)
  BY <1>8, <1>9, <1>11, ConcatProperties
<1>15. Len(o) \in Nat /\ Len(p) \in Nat
  BY <1>1, <1>4
<1>16. Len(e2) = 10 + Len(o)
  BY <1>3, <1>6
<1>17. Len(body) = 10 + Len(o) + Len(p)
  BY <1>8, <1>16
<1>18. Len(encode(m)) = 4 + Len(body)
  BY <1>12, <1>14
<1>19. Len(encode(m)) = 14 + Len(o) + Len(p) /\ Len(encode(m)) = Len(body) + 4
  BY <1>10, <1>15, <1>17, <1>18
<1>20. ASSUME NEW b \in Seq(Byte), NEW off \in Nat, At(b, off, encode(m))
       PROVE  /\ At(b, off, l) /\ At(b, off + 4, f) /\ At(b, off + 14, o)
              /\ At(b, off + 14 + Len(o), p)
  <2>1. At(b, off, l) /\ At(b, off + Len(l), body)
    BY <1>8, <1>9, <1>11, <1>20, AtConcat
  <2>2. At(b, off + 4, body) /\ off + 4 \in Nat
    BY <1>12, <2>1
  <2>3. At(b, off + 4, e2) /\ At(b, off + 4 + Len(e2), p)
    BY <1>1, <1>6, <2>2, AtConcat DEF body
  <2>4. At(b, off + 4, f) /\ At(b, off + 4 + Len(f), o)
    BY <1>2, <1>4, <2>2, <2>3, AtConcat DEF e2
  <2>5. off + 4 + Len(f) = off + 14
    BY <1>3
  <2>6. off + 4 + Len(e2) = off + 14 + Len(o)
    BY <1>15, <1>16
  <2>7. QED
    BY <2>1, <2>3, <2>4, <2>5, <2>6
<1>21. QED
  BY <1>4, <1>13, <1>14, <1>19, <1>20 DEF f, o, p

\* The header is read as it was written.
LEMMA HeaderRoundTrip ==
    ASSUME NEW m \in MessageFields, NEW b \in Seq(Byte), At(b, 4, encodeFields(m))
    PROVE  /\ decodeHeader(b) = [version |-> m.version, packetType |-> m.packetType, seq |-> m.seq,
                                 ext |-> m.ext, options |-> NoOptions, payload |-> << >>]
           /\ hasOptions(decodeHeader(b)) <=> hasOptions(m)
<1>1. 4 \in Nat
  OBVIOUS
<1>2. /\ ShortAt(b, 4) = m.version /\ ShortAt(b, 4 + 2) = m.packetType
      /\ LongAt(b, 4 + 4) = m.seq /\ ShortAt(b, 4 + 8) = m.ext
  BY <1>1, FieldsShape
<1>3. decodeHeader(b) = [version |-> m.version, packetType |-> m.packetType, seq |-> m.seq,
                         ext |-> m.ext, options |-> NoOptions, payload |-> << >>]
  BY <1>2 DEF decodeHeader
<1>4. QED
  BY <1>3 DEF hasOptions

\* A message is not shorter than its header.
LEMMA HeaderFirst ==
    ASSUME NEW x \in Nat, NEW y \in Nat
    PROVE  14 + x + y \in Nat /\ 14 <= 14 + x + y
OBVIOUS

\* A header to which options and payload are added is the whole message.
LEMMA Completed ==
    ASSUME NEW m \in MessageFields, NEW header,
           header = [version |-> m.version, packetType |-> m.packetType, seq |-> m.seq,
                     ext |-> m.ext, options |-> NoOptions, payload |-> << >>]
    PROVE  [header EXCEPT !.options = m.options, !.payload = m.payload] = m
<1> DEFINE half == [header EXCEPT !.options = m.options]
<1>1. half = [version |-> m.version, packetType |-> m.packetType, seq |-> m.seq,
              ext |-> m.ext, options |-> m.options, payload |-> << >>]
  OBVIOUS
<1>2. [header EXCEPT !.options = m.options, !.payload = m.payload]
      = [half EXCEPT !.payload = m.payload]
  OBVIOUS
<1> HIDE DEF half
<1>3. [half EXCEPT !.payload = m.payload]
      = [version |-> m.version, packetType |-> m.packetType, seq |-> m.seq,
         ext |-> m.ext, options |-> m.options, payload |-> m.payload]
  BY <1>1
<1>4. m = [version |-> m.version, packetType |-> m.packetType, seq |-> m.seq,
           ext |-> m.ext, options |-> m.options, payload |-> m.payload]
  BY DEF MessageFields
<1>5. QED
  BY <1>2, <1>3, <1>4

\* Wherever it ends, a buffer that starts with an encoded message is decoded to it.
LEMMA DecodeWhole ==
    ASSUME NEW m, WellFormed(m), canEncode(m), NEW b \in Seq(Byte), At(b, 0, encode(m))
    PROVE  decode(b) = [result |-> Len(encode(m)), message |-> m]
<1> DEFINE length == Len(encode(m))
           o == OptionBytes(m)
           header == decodeHeader(b)
           opts == IF hasOptions(header) THEN decodeOptions(Cropped(b, 14))
                   ELSE [offset |-> 0, options |-> NoOptions]
<1>1. m \in MessageFields /\ m.payload \in Seq(Byte) /\ m.options \in Options /\ length \in UInt32
  BY DEF WellFormed, MessageFields
<1>2. o \in Seq(Byte) /\ encode(m) \in Seq(Byte) /\ length = 14 + Len(o) + Len(m.payload)
  BY EncodedShape
<1>3. /\ At(b, 0, Long(length)) /\ At(b, 4, encodeFields(m)) /\ At(b, 14, o)
      /\ At(b, 14 + Len(o), m.payload)
  <2>1. /\ At(b, 0, Long(length)) /\ At(b, 0 + 4, encodeFields(m)) /\ At(b, 0 + 14, o)
        /\ At(b, 0 + 14 + Len(o), m.payload)
    BY EncodedShape
  <2>2. Len(o) \in Nat
    BY <1>2
  <2>3. 0 + 4 = 4 /\ 0 + 14 = 14 /\ 0 + 14 + Len(o) = 14 + Len(o)
    BY <2>2
  <2> HIDE DEF length, o
  <2>4. QED
    BY <2>1, <2>3, Zenon
<1>4. Len(o) \in Nat /\ Len(m.payload) \in Nat /\ Len(b) \in Nat /\ length <= Len(b)
  <2>0. Len(o) \in Nat /\ Len(m.payload) \in Nat /\ Len(b) \in Nat
    BY <1>1, <1>2
  <2>1. length \in Nat
    BY <1>2, <2>0, HeaderFirst, Zenon
  <2>2. 0 + length <= Len(b)
    BY DEF At
  <2>3. QED
    BY <2>0, <2>1, <2>2
<1>5. LongAt(b, 0) = length
  BY <1>1, <1>3, AtLong
<1>6. /\ header = [version |-> m.version, packetType |-> m.packetType, seq |-> m.seq,
                    ext |-> m.ext, options |-> NoOptions, payload |-> << >>]
      /\ hasOptions(header) <=> hasOptions(m)
  BY <1>1, <1>3, HeaderRoundTrip
<1>7. opts = [offset |-> Len(o), options |-> m.options]
  <2>1. CASE hasOptions(m)
    <3> HIDE DEF o, length, header
    <3>1. 14 \in 0..Len(b)
      <4>1. 14 <= length
        BY <1>2, <1>4, HeaderFirst, Zenon
      <4>2. QED
        BY <1>1, <1>4, <4>1 DEF UInt32
    <3>2. Cropped(b, 14) \in Seq(Byte)
      BY <3>1, CroppedSeq
    <3>3. At(Cropped(b, 14), 0, o)
      BY <1>2, <1>3, <3>1, AtCropped
    <3>4. o = encodeOptions(m.options) /\ SameLength(m.options) /\ Encodable(m.options)
      BY <2>1 DEF o, OptionBytes, WellFormed, SameLength, canEncode
    <3>5. decodeOptions(Cropped(b, 14)) = [offset |-> Len(o), options |-> m.options]
      BY <1>1, <3>2, <3>3, <3>4, OptionsRoundTrip
    <3>6. QED
      BY <1>6, <2>1, <3>5
  <2>2. CASE ~hasOptions(m)
    <3>1. Len(o) = 0 /\ m.options = NoOptions
      BY <2>2 DEF o, OptionBytes, WellFormed
    <3>2. QED
      BY <1>6, <2>2, <3>1
  <2>3. QED
    BY <2>1, <2>2
<1>8. SubSeq(b, 14 + Len(o) + 1, length) = m.payload
  <2>1. 14 + Len(o) \in Nat
    BY <1>4
  <2>2. SubSeq(b, 14 + Len(o) + 1, 14 + Len(o) + Len(m.payload)) = m.payload
    BY <1>1, <1>3, <2>1, AtSubSeq
  <2>3. QED
    BY <1>2, <2>2
<1>9. decode(b) =
        IF Len(b) < 14 THEN [result |-> MESSAGE_INCOMPLETE, message |-> Undecoded]
        ELSE IF Len(b) < LongAt(b, 0) THEN [result |-> MESSAGE_INCOMPLETE, message |-> header]
        ELSE IF opts.offset < 0 THEN [result |-> MESSAGE_ERROR, message |-> header]
        ELSE [result |-> LongAt(b, 0),
              message |-> [header EXCEPT !.options = opts.options,
                                         !.payload = SubSeq(b, 14 + opts.offset + 1, LongAt(b, 0))]]
  BY DEF decode, MESSAGE_HEADER_LENGTH
<1> HIDE DEF opts, header, length, o
<1>10. [header EXCEPT !.options = m.options, !.payload = m.payload] = m
  BY <1>1, <1>6, Completed
<1>11. opts.offset = Len(o) /\ opts.options = m.options
  BY <1>7
<1>12. ~(Len(b) < 14) /\ ~(Len(b) < length) /\ ~(Len(o) < 0)
  <2>1. 14 <= length /\ length \in Nat
    BY <1>2, <1>4, HeaderFirst, Zenon
  <2>2. QED
    BY <1>4, <2>1
<1>13. decode(b) = [result |-> length,
                    message |-> [header EXCEPT !.options = m.options, !.payload = m.payload]]
  BY <1>5, <1>8, <1>9, <1>11, <1>12
<1>14. QED
  BY <1>10, <1>13 DEF length

\* P2PMessage::decode gives back what P2PMessage::encode was given, and its length, whatever
\* follows in the buffer: for every radix and all messages whose fields fit.
THEOREM DecodeInverse ==
    ASSUME NEW m, WellFormed(m), canEncode(m), NEW rest \in Seq(Byte)
    PROVE  decode(encode(m) \o rest) = [result |-> Len(encode(m)), message |-> m]
<1> DEFINE e == encode(m)
<1>1. e \in Seq(Byte)
  BY EncodedShape
<1>2. At(e, 0, e) /\ 0 \in Nat
  BY <1>1 DEF At
<1>3. At(e \o rest, 0, e) /\ e \o rest \in Seq(Byte)
  BY <1>1, <1>2, AtLeft, ConcatProperties
<1>4. QED
  BY <1>3, DecodeWhole

\* b is as much as has arrived of a stream that starts with e.
Agrees(b, e) == \A i \in 1..Len(b) : i <= Len(e) => b[i] = e[i]

\* The rest of a message of which a part has arrived is waited for.
LEMMA DecodePart ==
    ASSUME NEW m, WellFormed(m), canEncode(m), NEW b \in Seq(Byte), Agrees(b, encode(m)),
           Len(b) < Len(encode(m))
    PROVE  decode(b).result = MESSAGE_INCOMPLETE
<1> DEFINE e == encode(m)
           l == Long(Len(e))
<1>1. e \in Seq(Byte) /\ Len(e) \in UInt32 /\ Len(e) \in Nat
  <2>1. e \in Seq(Byte) /\ Len(e) \in UInt32
    BY EncodedShape DEF WellFormed
  <2>2. QED
    BY <2>1
<1>2. l \in Seq(Byte) /\ Len(l) = 4
  BY <1>1, LongType
<1>3. At(e, 0, l)
  <2>1. At(e, 0, e)
    BY <1>1 DEF At
  <2> HIDE DEF e
  <2>2. QED
    BY <1>1, <2>1, EncodedShape DEF e
<1>4. CASE Len(b) < 14
  BY <1>4 DEF decode, MESSAGE_HEADER_LENGTH
<1>5. CASE ~(Len(b) < 14)
  <2>1. At(b, 0, l)
    <3> HIDE DEF e, l
    <3>1. Len(b) \in Nat /\ 4 <= Len(b) /\ 4 <= Len(e)
      BY <1>1, <1>2, <1>3, <1>5 DEF At
    <3>2. \A i \in 1..4 : e[0 + i] = l[i]
      BY <1>2, <1>3 DEF At
    <3>3. \A i \in 1..4 : b[0 + i] = l[i]
      BY <3>1, <3>2 DEF Agrees, e
    <3>4. QED
      BY <1>2, <3>1, <3>3 DEF At
  <2>2. LongAt(b, 0) = Len(e)
    BY <1>1, <2>1, AtLong
  <2>3. QED
    BY <1>5, <2>2 DEF decode, MESSAGE_HEADER_LENGTH
<1>6. QED
  BY <1>4, <1>5

\* What is left of a message that could not be encoded.
LEMMA BrokenShape ==
    ASSUME NEW m, WellFormed(m), ~canEncode(m)
    PROVE  /\ encode(m) = Long(0) \o encodeFields(m)
           /\ Long(0) \in Seq(Byte) /\ Len(Long(0)) = 4
           /\ encode(m) \in Seq(Byte) /\ Len(encode(m)) = 14
<1> DEFINE l == Long(0)
           f == encodeFields(m)
<1>1. encode(m) = l \o f
  BY DEF encode
<1>2. l \in Seq(Byte) /\ Len(l) = 4
  BY LongType
<1>3. f \in Seq(Byte) /\ Len(f) = 10
  BY FieldsShape DEF WellFormed, MessageFields
<1> HIDE DEF l, f
<1>4. l \in Seq(Byte) /\ f \in Seq(Byte)
  BY <1>2, <1>3
<1>5. l \o f \in Seq(Byte) /\ Len(l \o f) = Len(l) + Len(f)
  BY <1>4, ConcatProperties
<1>6. Len(l \o f) = 14
  <2>1. Len(l) = 4 /\ Len(f) = 10
    BY <1>2, <1>3
  <2>2. QED
    BY <1>5, <2>1
<1>7. QED
  BY <1>1, <1>2, <1>5, <1>6 DEF l, f

\* The first bytes decide what decode does.
LEMMA AgreesAt ==
    ASSUME NEW S, NEW b \in Seq(S), NEW e \in Seq(S), NEW s \in Seq(S), Agrees(b, e),
           At(e, 0, s), Len(s) <= Len(b)
    PROVE  At(b, 0, s)
<1>1. Len(b) \in Nat /\ Len(e) \in Nat /\ Len(s) \in Nat
  OBVIOUS
<1>2. Len(s) <= Len(e)
  BY <1>1 DEF At
<1>3. \A i \in 1..Len(s) : i \in 1..Len(b) /\ i <= Len(e) /\ 0 + i = i
  BY <1>1, <1>2
<1>4. \A i \in 1..Len(s) : b[0 + i] = s[i]
  BY <1>3 DEF At, Agrees
<1>5. 0 + Len(s) <= Len(b)
  BY <1>1
<1>6. QED
  BY <1>4, <1>5 DEF At

\* A message that could not be encoded is never taken for a message: its length is 0.
LEMMA DecodeBroken ==
    ASSUME NEW m, WellFormed(m), ~canEncode(m), NEW b \in Seq(Byte), Agrees(b, encode(m))
    PROVE  ~(decode(b).result > 0)
<1> DEFINE l == Long(0)
           e == encode(m)
<1>1. e = l \o encodeFields(m) /\ l \in Seq(Byte) /\ Len(l) = 4 /\ e \in Seq(Byte)
  BY BrokenShape
<1>2. encodeFields(m) \in Seq(Byte)
  BY FieldsShape DEF WellFormed, MessageFields
<1>3. CASE Len(b) < 14
  BY <1>3 DEF decode, MESSAGE_HEADER_LENGTH, MESSAGE_INCOMPLETE
<1>4. CASE ~(Len(b) < 14)
  <2> HIDE DEF l, e
  <2>1. At(e, 0, e)
    BY <1>1 DEF At
  <2>2. At(e, 0, l)
    <3>1. l \in Seq(Byte) /\ e \in Seq(Byte) /\ At(e, 0, l \o encodeFields(m))
      BY <1>1, <2>1
    <3>2. QED
      BY <1>2, <3>1, AtConcat
  <2>3. Len(l) <= Len(b)
    <3>1. Len(b) \in Nat
      OBVIOUS
    <3>2. Len(l) = 4
      BY <1>1
    <3>3. QED
      BY <1>4, <3>1, <3>2
  <2>4. At(b, 0, l)
    BY <1>1, <2>2, <2>3, AgreesAt DEF e
  <2>5. LongAt(b, 0) = 0
    <3>1. 0 \in UInt32
      BY RadixAssumption, UIntBounds
    <3>2. QED
      BY <2>4, <3>1, AtLong DEF l
  <2>6. decode(b).result \in {MESSAGE_INCOMPLETE, MESSAGE_ERROR, LongAt(b, 0)}
    BY DEF decode
  <2>7. QED
    BY <2>5, <2>6 DEF MESSAGE_INCOMPLETE, MESSAGE_ERROR
<1>5. QED
  BY <1>3, <1>4

-----------------------------------------------------------------------------
(* The stream. *)

\* The bytes s are the messages of msgs after the first k, one behind the other:
\* message i ends at pos[i].
Boundaries(pos, s, msgs, k) ==
    /\ pos \in [k..Len(msgs) -> Nat]
    /\ pos[k] = 0 /\ pos[Len(msgs)] = Len(s)
    /\ \A i, j \in k..Len(msgs) : i <= j => pos[i] <= pos[j]
    /\ \A i \in (k + 1)..Len(msgs) :
          /\ At(s, pos[i - 1], encode(msgs[i]))
          /\ pos[i] = pos[i - 1] + Len(encode(msgs[i]))

Framed(s, msgs, k) == \E pos : Boundaries(pos, s, msgs, k)

\* Whether or not it can be encoded, a message is bytes, as many as a header at least.
LEMMA EncodedBytes ==
    ASSUME NEW m, WellFormed(m)
    PROVE  encode(m) \in Seq(Byte) /\ Len(encode(m)) \in Nat /\ Len(encode(m)) >= 14
<1>1. CASE canEncode(m)
  <2>1. OptionBytes(m) \in Seq(Byte) /\ m.payload \in Seq(Byte)
    BY <1>1, EncodedShape DEF WellFormed
  <2>2. Len(OptionBytes(m)) \in Nat /\ Len(m.payload) \in Nat
    BY <2>1
  <2>3. Len(encode(m)) = 14 + Len(OptionBytes(m)) + Len(m.payload)
    BY <1>1, EncodedShape
  <2>4. Len(encode(m)) \in Nat /\ 14 <= Len(encode(m))
    BY <2>2, <2>3, HeaderFirst, Zenon
  <2>5. Len(encode(m)) >= 14
    BY <2>4
  <2>6. QED
    BY <1>1, <2>4, <2>5, EncodedShape
<1>2. CASE ~canEncode(m)
  <2>1. Len(encode(m)) = 14 /\ encode(m) \in Seq(Byte)
    BY <1>2, BrokenShape
  <2>2. QED
    BY <2>1
<1>3. QED
  BY <1>1, <1>2

\* A message written goes to the end.
LEMMA FramedWrite ==
    ASSUME NEW M, NEW msgs \in Seq(M), NEW m \in M, \A x \in M : WellFormed(x),
           NEW s \in Seq(Byte), NEW k \in 0..Len(msgs), Framed(s, msgs, k)
    PROVE  Framed(s \o encode(m), Append(msgs, m), k)
<1> DEFINE e == encode(m)
           t == s \o e
           more == Append(msgs, m)
           n == Len(msgs)
<1>1. PICK pos : Boundaries(pos, s, msgs, k)
  BY DEF Framed
<1>2. e \in Seq(Byte) /\ Len(e) \in Nat /\ Len(s) \in Nat /\ n \in Nat
  BY EncodedBytes
<1>3. t \in Seq(Byte) /\ Len(t) = Len(s) + Len(e)
  BY <1>2, ConcatProperties
<1>4. /\ Len(more) = n + 1 /\ more[n + 1] = m
      /\ \A i \in 1..n : more[i] = msgs[i]
  BY AppendProperties
<1> DEFINE new == [i \in k..(n + 1) |-> IF i = n + 1 THEN Len(t) ELSE pos[i]]
<1>5. At(t, Len(s), e)
  BY <1>2, AtRight
<1>6. \A i \in (k + 1)..n : At(t, pos[i - 1], encode(msgs[i]))
  <2> TAKE i \in (k + 1)..n
  <2>1. i \in 1..n /\ i - 1 \in k..n
    BY <1>2
  <2>2. encode(msgs[i]) \in Seq(Byte)
    BY <2>1, EncodedBytes
  <2>3. pos[i - 1] \in Nat
    BY <1>1, <2>1 DEF Boundaries
  <2>4. At(s, pos[i - 1], encode(msgs[i]))
    BY <1>1 DEF Boundaries
  <2>5. QED
    BY <1>2, <2>2, <2>3, <2>4, AtLeft
<1>7. /\ pos \in [k..n -> Nat] /\ pos[k] = 0 /\ pos[n] = Len(s)
      /\ \A i, j \in k..n : i <= j => pos[i] <= pos[j]
      /\ \A i \in (k + 1)..n : pos[i] = pos[i - 1] + Len(encode(msgs[i]))
  BY <1>1 DEF Boundaries
<1> HIDE DEF e, t, more, n
<1>8. k \in Nat /\ k <= n
  BY <1>2 DEF n
<1>9. new \in [k..(n + 1) -> Nat] /\ new[k] = 0 /\ new[n + 1] = Len(t)
  BY <1>2, <1>3, <1>7, <1>8
<1>10. \A i, j \in k..(n + 1) : i <= j => new[i] <= new[j]
  <2>1. \A i \in k..n : pos[i] \in Nat /\ pos[i] <= Len(s) /\ new[i] = pos[i]
    BY <1>2, <1>7, <1>8
  <2>2. QED
    BY <1>2, <1>3, <1>7, <1>8, <2>1
<1>11. ASSUME NEW i \in (k + 1)..(n + 1)
       PROVE  /\ At(t, new[i - 1], encode(more[i]))
              /\ new[i] = new[i - 1] + Len(encode(more[i]))
  <2>1. CASE i = n + 1
    <3>1. i - 1 = n /\ n \in k..(n + 1) /\ n # n + 1
      BY <1>2, <1>8, <2>1
    <3>2. new[i - 1] = Len(s) /\ new[i] = Len(t) /\ more[i] = m
      BY <1>4, <1>7, <2>1, <3>1
    <3>3. QED
      BY <1>3, <1>5, <3>2 DEF e
  <2>2. CASE i # n + 1
    <3>1. i \in (k + 1)..n /\ i - 1 \in k..n /\ i \in 1..n /\ i \in k..n /\ i - 1 # n + 1
      BY <1>2, <1>8, <2>2
    <3>2. new[i - 1] = pos[i - 1] /\ new[i] = pos[i] /\ more[i] = msgs[i]
      BY <1>2, <1>4, <1>8, <3>1
    <3>3. QED
      BY <1>6, <1>7, <3>1, <3>2
  <2>3. QED
    BY <2>1, <2>2
<1>12. Boundaries(new, t, more, k)
  <2> HIDE DEF new
  <2>1. QED
    BY <1>4, <1>9, <1>10, <1>11 DEF Boundaries
<1>13. QED
  BY <1>12 DEF Framed, t, e, more

\* The message at the front can be taken away.
LEMMA FramedTake ==
    ASSUME NEW M, NEW msgs \in Seq(M), \A x \in M : WellFormed(x),
           NEW s \in Seq(Byte), NEW k \in Nat, k < Len(msgs), Framed(s, msgs, k)
    PROVE  /\ At(s, 0, encode(msgs[k + 1]))
           /\ Framed(Cropped(s, Len(encode(msgs[k + 1]))), msgs, k + 1)
<1> DEFINE e == encode(msgs[k + 1])
           L == Len(e)
           n == Len(msgs)
           t == Cropped(s, L)
<1>1. PICK pos : Boundaries(pos, s, msgs, k)
  BY DEF Framed
<1>2. n \in Nat /\ Len(s) \in Nat
  OBVIOUS
<1>3. k + 1 \in 1..n /\ k \in k..n /\ k + 1 \in k..n /\ n \in k..n /\ (k + 1) - 1 = k
  BY <1>2
<1>4. e \in Seq(Byte) /\ L \in Nat
  BY <1>3, EncodedBytes
<1>5. /\ pos \in [k..n -> Nat] /\ pos[k] = 0 /\ pos[n] = Len(s)
      /\ \A i, j \in k..n : i <= j => pos[i] <= pos[j]
      /\ \A i \in (k + 1)..n : At(s, pos[i - 1], encode(msgs[i]))
                               /\ pos[i] = pos[i - 1] + Len(encode(msgs[i]))
  BY <1>1 DEF Boundaries
<1>6. At(s, 0, e) /\ pos[k + 1] = L
  <2>1. k + 1 \in (k + 1)..n
    BY <1>3
  <2>2. At(s, pos[k], e) /\ pos[k + 1] = pos[k] + L
    BY <1>3, <1>5, <2>1
  <2> HIDE DEF L, e
  <2>3. QED
    BY <1>4, <1>5, <2>2
<1> HIDE DEF n, t, L, e
<1>7. \A i \in (k + 1)..n : i \in k..n /\ pos[i] \in Nat /\ pos[i] >= L
  BY <1>2, <1>3, <1>4, <1>5, <1>6
<1>8. L \in 0..Len(s)
  BY <1>2, <1>3, <1>4, <1>5, <1>6
<1>9. Len(t) = Len(s) - L
  BY <1>8, CroppedSeq DEF t
<1> DEFINE new == [i \in (k + 1)..n |-> pos[i] - L]
<1>10. new \in [(k + 1)..n -> Nat] /\ new[k + 1] = 0 /\ new[n] = Len(t)
  <2>1. new \in [(k + 1)..n -> Nat]
    BY <1>4, <1>7
  <2>2. new[k + 1] = 0
    BY <1>3, <1>4, <1>6, <1>2
  <2>3. new[n] = Len(t)
    BY <1>2, <1>3, <1>5, <1>9
  <2>4. QED
    BY <2>1, <2>2, <2>3
<1>11. \A i, j \in (k + 1)..n : i <= j => new[i] <= new[j]
  BY <1>4, <1>5, <1>7
<1>12. ASSUME NEW i \in (k + 2)..n
       PROVE  At(t, new[i - 1], encode(msgs[i])) /\ new[i] = new[i - 1] + Len(encode(msgs[i]))
  <2>1. i \in (k + 1)..n /\ i - 1 \in (k + 1)..n /\ i \in 1..n
    BY <1>2
  <2>2. encode(msgs[i]) \in Seq(Byte) /\ Len(encode(msgs[i])) \in Nat
    BY <2>1, EncodedBytes DEF n
  <2>3. At(s, pos[i - 1], encode(msgs[i])) /\ pos[i] = pos[i - 1] + Len(encode(msgs[i]))
    BY <1>5, <2>1
  <2>4. /\ new[i - 1] \in Nat /\ pos[i - 1] = L + new[i - 1]
        /\ new[i] = new[i - 1] + Len(encode(msgs[i]))
    BY <1>4, <1>7, <2>1, <2>2, <2>3
  <2> HIDE DEF new
  <2>5. At(s, L + new[i - 1], encode(msgs[i]))
    BY <2>3, <2>4
  <2>6. QED
    BY <1>8, <2>2, <2>4, <2>5, AtCropped DEF t
<1>13. Boundaries(new, t, msgs, k + 1)
  <2> HIDE DEF new
  <2>1. (k + 1) + 1 = k + 2
    OBVIOUS
  <2>2. QED
    BY <1>10, <1>11, <1>12, <2>1 DEF Boundaries, n
<1>14. QED
  BY <1>6, <1>13 DEF Framed, t, L, e

\* Nothing is there when all messages have been taken.
LEMMA FramedAll ==
    ASSUME NEW s, NEW msgs, Framed(s, msgs, Len(msgs))
    PROVE  Len(s) = 0
BY DEF Framed, Boundaries

-----------------------------------------------------------------------------
(* What is read. *)

\* Everything the peer writes fits.
LEMMA MessagesFit ==
    /\ \A m \in Message : WellFormed(m)
    /\ \A m \in Message : isRespPacket(m) => m.seq \in Request /\ m = Response(m.seq)
<1>1. ASSUME NEW r \in Request
      PROVE  WellFormed(Response(r)) /\ Response(r).seq = r
  <2> DEFINE m == Response(r)
  <2>1. r \in UInt32 /\ r \in Nat
    BY RequestAssumption, UIntBounds
  <2>2. << >> \in Seq(Byte) /\ << >> \in Seq(Seq(Byte))
    OBVIOUS
  <2>3. m \in MessageFields
    <3>1. 0 \in UInt16 /\ 1 \in UInt16
      BY UIntBounds
    <3>2. NoOptions \in Options
      BY <2>2 DEF NoOptions, Options
    <3>3. QED
      BY <2>1, <2>2, <3>1, <3>2 DEF Response, MessageFields
  <2>4. ~hasOptions(m)
    BY RequestAssumption DEF Response, hasOptions
  <2>5. m.options = NoOptions /\ Len(m.options.dstNodeIDs) = 0
    BY DEF Response, NoOptions
  <2>6. Len(encode(m)) \in UInt32
    <3> DEFINE f == encodeFields(m)
               body == f \o << >> \o << >>
    <3>1. f \in Seq(Byte) /\ Len(f) = 10
      BY <2>3, FieldsShape
    <3>2. encode(m) = Long(Len(body) + 4) \o body
      BY <2>4 DEF encode, canEncode, Response
    <3> HIDE DEF f
    <3>3. body = f
      BY <3>1, <2>2, ConcatEmptySeq
    <3> HIDE DEF body
    <3>4. Len(body) + 4 = 14
      <4>1. Len(body) = 10
        BY <3>1, <3>3, Zenon
      <4>2. QED
        BY <4>1
    <3>5. Long(14) \in Seq(Byte) /\ Len(Long(14)) = 4
      BY LongType
    <3>6. Long(14) \in Seq(Byte) /\ f \in Seq(Byte)
      BY <3>1, <3>5
    <3>7. Len(Long(14) \o f) = Len(Long(14)) + Len(f)
      BY <3>6, ConcatProperties
    <3>8. Len(Long(14) \o f) = 14
      <4>1. Len(Long(14)) = 4 /\ Len(f) = 10
        BY <3>1, <3>5
      <4>2. Len(Long(14) \o f) = 4 + 10
        BY <3>7, <4>1, Zenon
      <4>3. QED
        BY <4>2
    <3>9. encode(m) = Long(14) \o f
      BY <3>2, <3>3, <3>4
    <3>10. QED
      BY <3>8, <3>9, UIntBounds
  <2>7. WellFormed(m)
    BY <2>3, <2>4, <2>5, <2>6 DEF WellFormed, MessageFields
  <2>8. QED
    BY <2>7 DEF Response
<1>2. QED
  BY <1>1, PeerMessageAssumption DEF Message

Stream == data \o wire

\* What was taken out are the first messages written, and what is in m_data or on its
\* way are the others.
FramingInv ==
    /\ Len(got) <= Len(sent)
    /\ \A i \in 1..Len(got) : got[i] = sent[i]
    /\ Framed(Stream, sent, Len(got))

\* What decode finds at the front of m_data is the next message, as it was written.
LEMMA NextIsDecoded ==
    ASSUME ReadTypeOK, FramingInv, decode(data).result > 0
    PROVE  /\ Len(got) < Len(sent)
           /\ decode(data) = [result |-> Len(encode(sent[Len(got) + 1])),
                              message |-> sent[Len(got) + 1]]
           /\ At(data, 0, encode(sent[Len(got) + 1])) /\ canEncode(sent[Len(got) + 1])
<1> DEFINE k == Len(got)
           m == sent[k + 1]
           e == encode(m)
<1>1. /\ data \in Seq(Byte) /\ wire \in Seq(Byte) /\ sent \in Seq(Message)
      /\ got \in Seq(Message)
  BY DEF ReadTypeOK
<1>2. /\ k \in Nat /\ Len(sent) \in Nat /\ k <= Len(sent)
      /\ Len(data) \in Nat /\ Len(wire) \in Nat
  BY <1>1 DEF FramingInv
<1>3. /\ Stream \in Seq(Byte) /\ Len(Stream) = Len(data) + Len(wire)
      /\ \A i \in 1..(Len(data) + Len(wire)) :
            Stream[i] = IF i <= Len(data) THEN data[i] ELSE wire[i - Len(data)]
  BY <1>1, ConcatProperties DEF Stream
<1>4. Framed(Stream, sent, k)
  BY DEF FramingInv
<1> HIDE DEF k
<1>5. k < Len(sent)
  <2> SUFFICES ASSUME k = Len(sent) PROVE FALSE
    BY <1>2
  <2>1. Len(Stream) = 0
    BY <1>4, FramedAll
  <2>2. Len(data) < 14
    BY <1>2, <1>3, <2>1
  <2>3. decode(data).result = 0
    BY <2>2 DEF decode, MESSAGE_HEADER_LENGTH, MESSAGE_INCOMPLETE
  <2>4. QED
    BY <2>3
<1>6. m \in Message /\ WellFormed(m)
  <2>1. k + 1 \in 1..Len(sent)
    BY <1>2, <1>5
  <2>2. QED
    BY <1>1, <2>1, MessagesFit
<1>7. e \in Seq(Byte) /\ Len(e) \in Nat
  BY <1>6, EncodedBytes
<1>8. At(Stream, 0, e)
  BY <1>1, <1>2, <1>3, <1>4, <1>5, MessagesFit, FramedTake
<1> HIDE DEF m, e
<1>9. Agrees(data, e)
  <2>1. \A i \in 1..Len(e) : Stream[i] = e[i]
    <3>1. \A i \in 1..Len(e) : Stream[0 + i] = e[i] /\ 0 + i = i
      BY <1>7, <1>8 DEF At
    <3>2. QED
      BY <3>1
  <2>2. \A i \in 1..Len(data) : Stream[i] = data[i]
    BY <1>2, <1>3
  <2>3. QED
    BY <1>2, <1>7, <2>1, <2>2 DEF Agrees
<1>10. canEncode(m)
  BY <1>1, <1>6, <1>9, DecodeBroken DEF e
<1>11. ~(Len(data) < Len(e))
  <2> SUFFICES ASSUME Len(data) < Len(e) PROVE FALSE
    OBVIOUS
  <2>1. decode(data).result = 0
    BY <1>1, <1>6, <1>9, <1>10, DecodePart DEF e, MESSAGE_INCOMPLETE
  <2>2. QED
    BY <2>1
<1>12. At(data, 0, e)
  <2>1. Len(e) <= Len(data)
    BY <1>2, <1>7, <1>11
  <2>2. At(e, 0, e)
    BY <1>7 DEF At
  <2>3. QED
    BY <1>1, <1>7, <1>9, <2>1, <2>2, AgreesAt
<1>13. decode(data) = [result |-> Len(e), message |-> m]
  BY <1>1, <1>6, <1>10, <1>12, DecodeWhole DEF e
<1>14. QED
  BY <1>5, <1>10, <1>12, <1>13 DEF e, m, k

\* Cutting what the peer has written into reads does not change the stream.
LEMMA CutAnywhere ==
    ASSUME NEW S, NEW b \in Seq(S), NEW w \in Seq(S), NEW n \in 0..Len(w)
    PROVE  /\ b \o SubSeq(w, 1, n) \in Seq(S) /\ SubSeq(w, n + 1, Len(w)) \in Seq(S)
           /\ (b \o SubSeq(w, 1, n)) \o SubSeq(w, n + 1, Len(w)) = b \o w
<1> DEFINE x == SubSeq(w, 1, n)
           y == SubSeq(w, n + 1, Len(w))
<1>1. Len(w) \in Nat /\ n \in Int /\ n + 1 \in Int /\ Len(w) \in Int
  OBVIOUS
<1>2. (\A i \in 1..n : w[i] \in S) /\ (\A i \in (n + 1)..Len(w) : w[i] \in S)
  BY <1>1
<1>3. x \in Seq(S) /\ y \in Seq(S)
  BY <1>1, <1>2, SubSeqProperties
<1>4. x \o y = w
  <2>1. 1 \in 1..(Len(w) + 1) /\ n \in (1 - 1)..Len(w) /\ Len(w) \in n..Len(w)
    BY <1>1
  <2>2. x \o y = SubSeq(w, 1, Len(w))
    BY <2>1, ConcatAdjacentSubSeq
  <2>3. QED
    BY <2>2, SubSeqFull
<1> HIDE DEF x, y
<1>5. (b \o x) \o y = b \o w
  <2>1. (b \o x) \o y = b \o (x \o y)
    BY <1>3, ConcatAssociative, SMTT(60)
  <2>2. QED
    BY <1>4, <2>1, Zenon
<1>6. b \o x \in Seq(S)
  BY <1>3, ConcatProperties
<1>7. QED
  BY <1>3, <1>5, <1>6 DEF x, y

\* Taking a message out of m_data takes it out of the stream.
LEMMA CropBuffer ==
    ASSUME NEW S, NEW b \in Seq(S), NEW w \in Seq(S), NEW n \in 0..Len(b)
    PROVE  Cropped(b, n) \o w = Cropped(b \o w, n)
<1> DEFINE x == Cropped(b, n)
           y == x \o w
           c == b \o w
           z == Cropped(c, n)
<1>1. Len(b) \in Nat /\ Len(w) \in Nat /\ n \in Nat /\ n <= Len(b)
  OBVIOUS
<1>2. x \in Seq(S) /\ Len(x) = Len(b) - n /\ \A i \in 1..(Len(b) - n) : x[i] = b[n + i]
  BY CroppedSeq
<1>3. /\ y \in Seq(S) /\ Len(y) = Len(x) + Len(w)
      /\ \A i \in 1..(Len(x) + Len(w)) : y[i] = IF i <= Len(x) THEN x[i] ELSE w[i - Len(x)]
  BY <1>2, ConcatProperties
<1>4. /\ c \in Seq(S) /\ Len(c) = Len(b) + Len(w)
      /\ \A i \in 1..(Len(b) + Len(w)) : c[i] = IF i <= Len(b) THEN b[i] ELSE w[i - Len(b)]
  BY ConcatProperties
<1> HIDE DEF x, y, c
<1>5. n \in 0..Len(c)
  BY <1>1, <1>4
<1>6. z \in Seq(S) /\ Len(z) = Len(c) - n /\ \A i \in 1..(Len(c) - n) : z[i] = c[n + i]
  BY <1>4, <1>5, CroppedSeq
<1> HIDE DEF z
<1>7. Len(y) = Len(z)
  BY <1>1, <1>2, <1>3, <1>4, <1>6
<1>8. ASSUME NEW i \in 1..Len(y)
      PROVE  y[i] = z[i]
  <2>1. i \in Nat /\ i >= 1 /\ i <= Len(b) - n + Len(w)
    BY <1>1, <1>2, <1>3
  <2>2. z[i] = c[n + i]
    BY <1>1, <1>4, <1>6, <2>1
  <2>3. n + i \in 1..(Len(b) + Len(w)) /\ i \in 1..(Len(x) + Len(w))
    BY <1>1, <1>2, <2>1
  <2>4. z[i] = IF n + i <= Len(b) THEN b[n + i] ELSE w[n + i - Len(b)]
    BY <1>4, <2>2, <2>3
  <2>5. y[i] = IF i <= Len(x) THEN x[i] ELSE w[i - Len(x)]
    BY <1>3, <2>3
  <2>6. CASE n + i <= Len(b)
    <3>1. i \in 1..(Len(b) - n) /\ i <= Len(x)
      BY <1>1, <1>2, <2>1, <2>6
    <3>2. QED
      BY <1>2, <2>4, <2>5, <2>6, <3>1
  <2>7. CASE ~(n + i <= Len(b))
    <3>1. ~(i <= Len(x)) /\ n + i - Len(b) = i - Len(x)
      BY <1>1, <1>2, <2>1, <2>7
    <3>2. QED
      BY <2>4, <2>5, <2>7, <3>1
  <2>8. QED
    BY <2>6, <2>7
<1>9. y = z
  BY <1>3, <1>6, <1>7, <1>8, SeqEqual
<1>10. QED
  BY <1>9 DEF x, y, c, z

-----------------------------------------------------------------------------
(* The steps of the reading session. *)

\* What the peer writes keeps the types and the framing.
LEMMA WriteKeeps ==
    ASSUME ReadTypeOK, FramingInv, NEW m \in Message, Write(m),
           UNCHANGED <<data, reader, errorTask, got>>
    PROVE  ReadTypeOK' /\ FramingInv'
<1> DEFINE e == encode(m)
<1>1. /\ data \in Seq(Byte) /\ wire \in Seq(Byte) /\ sent \in Seq(Message)
      /\ got \in Seq(Message)
  BY DEF ReadTypeOK
<1>2. CASE ~Open
  BY <1>2 DEF Write, ReadTypeOK, FramingInv, Stream
<1>3. CASE Open
  <2>1. wire' = wire \o e /\ sent' = Append(sent, m)
    BY <1>3 DEF Write
  <2>2. e \in Seq(Byte)
    BY MessagesFit, EncodedBytes
  <2> HIDE DEF e
  <2>3. wire' \in Seq(Byte)
    BY <1>1, <2>1, <2>2, ConcatProperties
  <2>4. /\ sent' \in Seq(Message) /\ Len(sent') = Len(sent) + 1
        /\ \A i \in 1..Len(sent) : sent'[i] = sent[i]
    BY <1>1, <2>1, AppendProperties
  <2>5. ReadTypeOK'
    BY <2>3, <2>4 DEF ReadTypeOK
  <2>6. Stream' = Stream \o e /\ Stream \in Seq(Byte)
    <3>1. (data \o wire) \o e = data \o (wire \o e)
      <4>1. data \in Seq(Byte) /\ wire \in Seq(Byte) /\ e \in Seq(Byte)
        BY <1>1, <2>2
      <4>2. QED
        BY <4>1, ConcatAssociative, SMTT(60)
    <3>2. data \o wire \in Seq(Byte)
      BY <1>1, ConcatProperties
    <3>3. data' = data
      OBVIOUS
    <3>4. QED
      BY <2>1, <3>1, <3>2, <3>3, Zenon DEF Stream
  <2>7. Len(got) \in 0..Len(sent) /\ Len(got) \in Nat /\ Len(sent) \in Nat
    BY <1>1 DEF FramingInv
  <2>8. Framed(Stream', sent', Len(got))
    BY <1>1, <2>1, <2>6, <2>7, FramedWrite, MessagesFit DEF FramingInv, e
  <2>9. Len(got) <= Len(sent')
    BY <2>4, <2>7
  <2>10. \A i \in 1..Len(got) : got[i] = sent'[i]
    BY <2>4, <2>7 DEF FramingInv
  <2>11. FramingInv'
    BY <2>8, <2>9, <2>10 DEF FramingInv
  <2>12. QED
    BY <2>5, <2>11
<1>4. QED
  BY <1>2, <1>3

\* Reading keeps them.
LEMMA ReadSomeKeeps ==
    ASSUME ReadTypeOK, FramingInv, NEW n \in Piece \cup {Len(wire)}, ReadSome(n)
    PROVE  ReadTypeOK' /\ FramingInv'
<1>1. data \in Seq(Byte) /\ wire \in Seq(Byte)
  BY DEF ReadTypeOK
<1>2. n \in 0..Len(wire)
  BY <1>1, PieceAssumption DEF ReadSome
<1>3. data' = data \o SubSeq(wire, 1, n) /\ wire' = SubSeq(wire, n + 1, Len(wire))
  BY DEF ReadSome
<1>4. data' \in Seq(Byte) /\ wire' \in Seq(Byte) /\ data' \o wire' = data \o wire
  BY <1>1, <1>2, <1>3, CutAnywhere
<1>5. reader' = "decoding" /\ UNCHANGED <<errorTask, sent, got>>
  BY DEF ReadSome
<1>6. ReadTypeOK'
  BY <1>4, <1>5 DEF ReadTypeOK
<1>7. FramingInv'
  BY <1>4, <1>5 DEF FramingInv, Stream
<1>8. QED
  BY <1>6, <1>7

\* Taking a message out of m_data keeps them.
LEMMA TakeKeeps ==
    ASSUME ReadTypeOK, FramingInv, TakeMessage
    PROVE  ReadTypeOK' /\ FramingInv'
<1> DEFINE k == Len(got)
           m == sent[k + 1]
           e == encode(m)
<1>1. /\ data \in Seq(Byte) /\ wire \in Seq(Byte) /\ sent \in Seq(Message)
      /\ got \in Seq(Message)
  BY DEF ReadTypeOK
<1>2. k \in Nat /\ Len(sent) \in Nat /\ Len(data) \in Nat
  BY <1>1
<1>3. /\ k < Len(sent) /\ decode(data) = [result |-> Len(e), message |-> m]
      /\ At(data, 0, e)
  BY NextIsDecoded DEF TakeMessage
<1>4. /\ got' = Append(got, m) /\ data' = Cropped(data, Len(e))
      /\ UNCHANGED <<wire, reader, errorTask, sent>>
  BY <1>3 DEF TakeMessage
<1>5. m \in Message /\ WellFormed(m)
  <2>1. k + 1 \in 1..Len(sent)
    BY <1>2, <1>3
  <2>2. QED
    BY <1>1, <2>1, MessagesFit
<1>6. e \in Seq(Byte) /\ Len(e) \in Nat
  BY <1>5, EncodedBytes
<1>7. Len(e) \in 0..Len(data)
  BY <1>2, <1>3, <1>6 DEF At
<1>8. data' \in Seq(Byte)
  BY <1>1, <1>4, <1>7, CroppedSeq
<1>9. /\ got' \in Seq(Message) /\ Len(got') = k + 1 /\ got'[k + 1] = m
      /\ \A i \in 1..k : got'[i] = got[i]
  BY <1>1, <1>4, <1>5, AppendProperties
<1>10. ReadTypeOK'
  BY <1>4, <1>8, <1>9 DEF ReadTypeOK
<1>11. Stream' = Cropped(Stream, Len(e)) /\ Stream \in Seq(Byte)
  <2>1. data' \o wire = Cropped(data \o wire, Len(e))
    BY <1>1, <1>4, <1>7, CropBuffer
  <2>2. QED
    BY <1>1, <1>4, <2>1, ConcatProperties DEF Stream
<1>12. Framed(Stream', sent, k + 1)
  BY <1>1, <1>2, <1>3, <1>11, MessagesFit, FramedTake DEF FramingInv
<1>13. Len(got') <= Len(sent)
  BY <1>2, <1>3, <1>9
<1>14. \A i \in 1..Len(got') : got'[i] = sent[i]
  <2> TAKE i \in 1..Len(got')
  <2>1. i \in 1..k \/ i = k + 1
    BY <1>2, <1>9
  <2>2. QED
    BY <1>9, <2>1 DEF FramingInv
<1>15. FramingInv'
  BY <1>4, <1>9, <1>12, <1>13, <1>14 DEF FramingInv
<1>16. QED
  BY <1>10, <1>15

\* The other steps of the session do not touch what the framing is about.
LEMMA OtherKeeps ==
    ASSUME ReadTypeOK, FramingInv, UNCHANGED <<wire, data, sent, got>>,
           reader' \in {"posted", "reading", "decoding", "stopped"}, errorTask' \in BOOLEAN
    PROVE  ReadTypeOK' /\ FramingInv'
<1>1. ReadTypeOK'
  BY Zenon DEF ReadTypeOK
<1>2. FramingInv'
  BY DEF FramingInv, Stream
<1>3. QED
  BY <1>1, <1>2

\* A step keeps the types and the framing.
LEMMA StepFraming ==
    ASSUME TypeOK, ReadTypeOK, FramingInv, [ReadNext]_allVars
    PROVE  ReadTypeOK' /\ FramingInv'
<1>1. ASSUME NEW r \in Request, PeerResponds(r)
      PROVE  ReadTypeOK' /\ FramingInv'
  BY <1>1, WriteKeeps DEF PeerResponds, Message
<1>2. ASSUME NEW m \in PeerMessage, PeerSends(m)
      PROVE  ReadTypeOK' /\ FramingInv'
  BY <1>2, WriteKeeps DEF PeerSends, Message
<1>3. ASSUME NEW n \in Piece \cup {Len(wire)}, ReadSome(n)
      PROVE  ReadTypeOK' /\ FramingInv'
  BY <1>3, ReadSomeKeeps
<1>4. CASE TakeMessage
  BY <1>4, TakeKeeps
<1>5. CASE doRead \/ ReadOn \/ GiveUp \/ ReadFails \/ HandleError \/ UNCHANGED readVars
  <2>1. UNCHANGED <<wire, data, sent, got>>
    BY <1>5 DEF doRead, ReadOn, GiveUp, ReadFails, HandleError, readVars
  <2>2. reader' \in {"posted", "reading", "decoding", "stopped"}
    BY <1>5 DEF doRead, ReadOn, GiveUp, ReadFails, HandleError, readVars, NextRead, ReadTypeOK
  <2>3. errorTask' \in BOOLEAN
    BY <1>5, Zenon DEF doRead, ReadOn, GiveUp, ReadFails, HandleError, readVars,
       ReadTypeOK, TypeOK
  <2>4. QED
    BY <2>1, <2>2, <2>3, OtherKeeps
<1>6. QED
  BY <1>1, <1>2, <1>3, <1>4, <1>5, Zenon
     DEF ReadNext, IoStep, disconnect, onIdle, CallbackStep, allVars

-----------------------------------------------------------------------------
(* The callbacks behind the stream. *)

\* A step of the reading session is a step of SessionCallbacks or does not concern it.
LEMMA StepRefines ==
    ASSUME ReadTypeOK, FramingInv, [ReadNext]_allVars
    PROVE  [Next]_vars
<1>1. ASSUME NEW r \in Request, PeerResponds(r)
      PROVE  [Next]_vars
  BY <1>1 DEF PeerResponds, Next
<1>2. CASE TakeMessage
  <2> DEFINE m == decode(data).message
  <2>1. m \in Message
    <3>1. m = sent[Len(got) + 1] /\ Len(got) < Len(sent)
      BY <1>2, NextIsDecoded DEF TakeMessage
    <3>2. sent \in Seq(Message) /\ got \in Seq(Message)
      BY DEF ReadTypeOK
    <3>3. Len(got) + 1 \in 1..Len(sent)
      BY <3>1, <3>2
    <3> HIDE DEF m
    <3>4. QED
      BY <3>1, <3>2, <3>3
  <2>2. dispatch(m)
    BY <1>2 DEF TakeMessage
  <2> HIDE DEF m
  <2>3. CASE actived /\ isRespPacket(m)
    BY <2>1, <2>2, <2>3, MessagesFit DEF dispatch, Next
  <2>4. CASE ~(actived /\ isRespPacket(m))
    BY <2>2, <2>4 DEF dispatch
  <2>5. QED
    BY <2>3, <2>4
<1>3. CASE CallbackStep
  BY <1>3, Zenon DEF CallbackStep, Next
<1>4. CASE ReadFails \/ HandleError \/ disconnect \/ onIdle
  BY <1>4, Zenon DEF ReadFails, HandleError, disconnect, onIdle, Dropped, Next
<1>5. ASSUME NEW m \in PeerMessage, PeerSends(m)
      PROVE  [Next]_vars
  BY <1>5 DEF PeerSends
<1>6. ASSUME NEW n \in Piece \cup {Len(wire)}, ReadSome(n)
      PROVE  [Next]_vars
  BY <1>6 DEF ReadSome
<1>7. CASE doRead \/ ReadOn \/ GiveUp \/ UNCHANGED allVars
  BY <1>7 DEF doRead, ReadOn, GiveUp, allVars
<1>8. QED
  BY <1>1, <1>2, <1>3, <1>4, <1>5, <1>6, <1>7, Zenon DEF ReadNext, IoStep

\* A callback that is to be called with a response has one: what makes
\* OnlyResponsesAnswer inductive.
QueuedResponses ==
    \A t \in pool : t.outcome = "response" => \E i \in 1..Len(got) : got[i] = Response(t.req)

\* Only messages that could be encoded were taken, and when the loop of doRead is over
\* there is none at the front of m_data: what makes NothingLeftBehind inductive.
DrainedInv ==
    /\ \A i \in 1..Len(got) : canEncode(got[i])
    /\ reader # "decoding" => ~(decode(data).result > 0)

ReadInv ==
    /\ TypeOK /\ ReadTypeOK /\ FramingInv
    /\ QueuedResponses /\ OnlyResponsesAnswer
    /\ DrainedInv

\* What was taken stays taken.
LEMMA GotGrows ==
    ASSUME ReadTypeOK, FramingInv, [ReadNext]_allVars
    PROVE  \A x : (\E i \in 1..Len(got) : got[i] = x) => \E i \in 1..Len(got') : got'[i] = x
<1>1. CASE UNCHANGED got
  BY <1>1
<1>2. CASE TakeMessage
  <2>1. got' = Append(got, decode(data).message)
    BY <1>2 DEF TakeMessage
  <2>2. got \in Seq(Message) /\ Len(got) \in Nat
    BY DEF ReadTypeOK
  <2>3. decode(data).message \in Message
    <3>1. decode(data).message = sent[Len(got) + 1] /\ Len(got) < Len(sent)
      BY <1>2, NextIsDecoded DEF TakeMessage
    <3>2. sent \in Seq(Message)
      BY DEF ReadTypeOK
    <3>3. Len(got) + 1 \in 1..Len(sent)
      BY <2>2, <3>1, <3>2
    <3>4. QED
      BY <3>1, <3>2, <3>3
  <2>4. Len(got') = Len(got) + 1 /\ \A i \in 1..Len(got) : got'[i] = got[i]
    BY <2>1, <2>2, <2>3, AppendProperties
  <2>5. QED
    BY <2>2, <2>4
<1>3. QED
  BY <1>1, <1>2, Zenon DEF ReadNext, IoStep, PeerResponds, PeerSends, doRead, ReadSome,
     ReadOn, GiveUp, ReadFails, disconnect, onIdle, HandleError, CallbackStep, readVars, allVars

\* Other tasks than those of a message that is taken come from tasks that were queued.
LEMMA CallbackStepAnswers ==
    ASSUME TypeOK, CallbackStep \/ Deactivate \/ (\E r \in Request : Respond(r)) \/ UNCHANGED vars
    PROVE  /\ \A t \in pool' : t.outcome = "response" =>
                 \E u \in pool : u.outcome = "response" /\ u.req = t.req
           /\ \A r \in Request : "response" \in invoked'[r] =>
                 \/ "response" \in invoked[r]
                 \/ \E u \in pool : u.outcome = "response" /\ u.req = r
<1> DEFINE Goal == /\ \A t \in pool' : t.outcome = "response" =>
                         \E u \in pool : u.outcome = "response" /\ u.req = t.req
                   /\ \A r \in Request : "response" \in invoked'[r] =>
                         \/ "response" \in invoked[r]
                         \/ \E u \in pool : u.outcome = "response" /\ u.req = r
<1> SUFFICES Goal
  OBVIOUS
<1>1. ASSUME NEW r \in Request, CallerStep(r) \/ Expire(r) \/ onTimeout(r) \/ Respond(r)
      PROVE  Goal
  <2>1. UNCHANGED invoked /\ \A t \in pool' : t \in pool \/ t.outcome # "response"
    BY <1>1 DEF CallerStep, CheckActived, addSeqCallback, Send, Expire, onTimeout, Respond, Call
  <2>2. QED
    BY <2>1
<1>2. CASE CallAndErase
  <2>1. UNCHANGED invoked /\ \A t \in pool' : t \in pool \/ t.outcome # "response"
    BY <1>2 DEF CallAndErase, Call
  <2>2. QED
    BY <2>1
<1>3. ASSUME NEW t \in pool, Invoke(t)
      PROVE  Goal
  <2>1. /\ t \in Task /\ t.req \in Request
        /\ \A u \in pool' : u \in pool \/ (u.req = t.req /\ u.outcome = t.outcome)
        /\ invoked' = [invoked EXCEPT ![t.req] = @ \cup {t.outcome}]
    BY <1>3 DEF Invoke, TypeOK, Task
  <2>2. \A r \in Request : "response" \in invoked'[r] =>
           "response" \in invoked[r] \/ (r = t.req /\ t.outcome = "response")
    BY <2>1 DEF TypeOK
  <2>3. QED
    BY <2>1, <2>2
<1>4. ASSUME NEW t \in pool, removeSeqCallback(t)
      PROVE  Goal
  BY <1>4 DEF removeSeqCallback
<1>5. CASE Deactivate \/ UNCHANGED vars
  BY <1>5 DEF Deactivate, vars
<1> HIDE DEF Goal
<1>6. QED
  BY <1>1, <1>2, <1>3, <1>4, <1>5, Zenon DEF CallbackStep

\* A step calls a callback with a response only for a response that was taken.
LEMMA StepAnswers ==
    ASSUME TypeOK, ReadTypeOK, FramingInv, QueuedResponses, OnlyResponsesAnswer,
           [ReadNext]_allVars
    PROVE  QueuedResponses' /\ OnlyResponsesAnswer'
<1> DEFINE Taken(r) == \E i \in 1..Len(got) : got[i] = Response(r)
           TakenNow(r) == \E i \in 1..Len(got') : got'[i] = Response(r)
<1>1. \A r : Taken(r) => TakenNow(r)
  BY GotGrows
<1>2. /\ \A t \in pool : t.outcome = "response" => Taken(t.req)
      /\ \A r \in Request : "response" \in invoked[r] => Taken(r)
  BY DEF QueuedResponses, OnlyResponsesAnswer
<1>3. SUFFICES /\ \A t \in pool' : t.outcome = "response" => TakenNow(t.req)
               /\ \A r \in Request : "response" \in invoked'[r] => TakenNow(r)
  BY DEF QueuedResponses, OnlyResponsesAnswer
<1>4. CASE CallbackStep \/ Deactivate \/ (\E r \in Request : Respond(r)) \/ UNCHANGED vars
  <2> HIDE DEF Taken, TakenNow
  <2>1. QED
    BY <1>1, <1>2, <1>4, CallbackStepAnswers
<1>5. CASE TakeMessage
  <2> DEFINE m == decode(data).message
  <2>1. m = sent[Len(got) + 1] /\ Len(got) < Len(sent)
    BY <1>5, NextIsDecoded DEF TakeMessage
  <2>2. sent \in Seq(Message) /\ got \in Seq(Message)
    BY DEF ReadTypeOK
  <2>3. dispatch(m) /\ got' = Append(got, m)
    BY <1>5 DEF TakeMessage
  <2> HIDE DEF m
  <2>4. m \in Message
    <3>1. Len(got) + 1 \in 1..Len(sent)
      BY <2>1, <2>2
    <3>2. QED
      BY <2>1, <2>2, <3>1
  <2>5. CASE actived /\ isRespPacket(m)
    <3>1. m.seq \in Request /\ m = Response(m.seq) /\ onMessage(m.seq)
      BY <2>3, <2>4, <2>5, MessagesFit DEF dispatch
    <3>2. TakenNow(m.seq)
      <4>1. Len(got') = Len(got) + 1 /\ got'[Len(got) + 1] = m /\ Len(got) \in Nat
        BY <2>2, <2>3, <2>4, AppendProperties
      <4>2. QED
        BY <3>1, <4>1
    <3>3. /\ UNCHANGED invoked
          /\ \A t \in pool' : t \in pool \/ t.req = m.seq
      BY <3>1 DEF onMessage, Call
    <3> HIDE DEF Taken, TakenNow
    <3>4. QED
      BY <1>1, <1>2, <3>2, <3>3
  <2>6. CASE ~(actived /\ isRespPacket(m))
    <3>1. UNCHANGED <<pool, invoked>>
      BY <2>3, <2>6 DEF dispatch, vars
    <3> HIDE DEF Taken, TakenNow
    <3>2. QED
      BY <1>1, <1>2, <3>1
  <2>7. QED
    BY <2>5, <2>6
<1>6. CallbackStep \/ Deactivate \/ (\E r \in Request : Respond(r)) \/ UNCHANGED vars
      \/ TakeMessage
  BY Zenon DEF ReadNext, IoStep, PeerResponds, PeerSends, doRead, ReadSome, ReadOn, GiveUp,
     ReadFails, disconnect, onIdle, HandleError, Dropped, allVars
<1>7. QED
  BY <1>4, <1>5, <1>6

\* A step leaves no message behind.
LEMMA StepDrained ==
    ASSUME ReadTypeOK, FramingInv, DrainedInv, [ReadNext]_allVars
    PROVE  DrainedInv'
<1>1. CASE TakeMessage
  <2> DEFINE m == sent[Len(got) + 1]
  <2>1. got \in Seq(Message) /\ sent \in Seq(Message)
    BY DEF ReadTypeOK
  <2>2. Len(got) < Len(sent) /\ decode(data).message = m /\ canEncode(m)
    BY <1>1, NextIsDecoded DEF TakeMessage
  <2>3. got' = Append(got, m) /\ reader' = "decoding"
    BY <1>1, <2>2 DEF TakeMessage
  <2>4. m \in Message
    <3>1. Len(got) + 1 \in 1..Len(sent)
      BY <2>1, <2>2
    <3>2. QED
      BY <2>1, <3>1
  <2> HIDE DEF m
  <2>5. /\ Len(got') = Len(got) + 1 /\ got'[Len(got) + 1] = m /\ Len(got) \in Nat
        /\ \A i \in 1..Len(got) : got'[i] = got[i]
    BY <2>1, <2>3, <2>4, AppendProperties
  <2>6. \A i \in 1..Len(got') : canEncode(got'[i])
    <3> TAKE i \in 1..Len(got')
    <3>1. i \in 1..Len(got) \/ i = Len(got) + 1
      BY <2>5
    <3>2. QED
      BY <2>2, <2>5, <3>1 DEF DrainedInv
  <2>7. QED
    BY <2>3, <2>6 DEF DrainedInv
<1>2. ASSUME NEW n, ReadSome(n)
      PROVE  DrainedInv'
  BY <1>2 DEF ReadSome, DrainedInv
<1>3. CASE ReadOn \/ GiveUp
  <2>1. UNCHANGED <<data, got>> /\ decode(data).result \in {0, -1}
    BY <1>3 DEF ReadOn, GiveUp, MESSAGE_INCOMPLETE, MESSAGE_ERROR
  <2>2. ~(decode(data).result > 0)
    BY <2>1
  <2>3. QED
    BY <2>1, <2>2 DEF DrainedInv
<1>4. CASE UNCHANGED <<data, got>> /\ (reader # "decoding" \/ UNCHANGED reader)
  BY <1>4 DEF DrainedInv
<1>5. TakeMessage \/ (\E n : ReadSome(n)) \/ ReadOn \/ GiveUp
      \/ (UNCHANGED <<data, got>> /\ (reader # "decoding" \/ UNCHANGED reader))
  <2>1. CASE \E r \in Request : PeerResponds(r)
    BY <2>1, Zenon DEF PeerResponds
  <2>2. CASE \E m \in PeerMessage : PeerSends(m)
    BY <2>2, Zenon DEF PeerSends
  <2>3. CASE doRead \/ ReadFails
    BY <2>3 DEF doRead, ReadFails
  <2>4. CASE disconnect \/ onIdle \/ HandleError \/ CallbackStep \/ UNCHANGED allVars
    BY <2>4, Zenon DEF disconnect, onIdle, HandleError, CallbackStep, readVars, allVars
  <2>5. QED
    BY <2>1, <2>2, <2>3, <2>4, Zenon DEF ReadNext, IoStep
<1>6. QED
  BY <1>1, <1>2, <1>3, <1>4, <1>5

\* The inductive invariant of the reading session.
LEMMA ReadInvariance == ReadSpec => []ReadInv
<1>1. ReadInit => ReadInv
  <2> SUFFICES ASSUME ReadInit PROVE ReadInv
    OBVIOUS
  <2>1. Init /\ wire = << >> /\ data = << >> /\ sent = << >> /\ got = << >>
    BY DEF ReadInit
  <2>2. TypeOK
    BY <2>1 DEF Init, TypeOK
  <2>3. ReadTypeOK
    <3>1. << >> \in Seq(Byte) /\ << >> \in Seq(Message)
      OBVIOUS
    <3>2. reader = "posted" /\ errorTask \in BOOLEAN
      BY Zenon DEF ReadInit
    <3>3. QED
      BY <2>1, <3>1, <3>2, Zenon DEF ReadTypeOK
  <2>4. FramingInv
    <3>1. Stream = << >> /\ Len(got) = 0 /\ Len(sent) = 0
      BY <2>1 DEF Stream
    <3>2. Boundaries([i \in 0..0 |-> 0], << >>, << >>, 0)
      BY DEF Boundaries
    <3>3. QED
      BY <2>1, <3>1, <3>2 DEF FramingInv, Framed
  <2>5. QueuedResponses /\ OnlyResponsesAnswer
    BY <2>1 DEF Init, QueuedResponses, OnlyResponsesAnswer
  <2>6. DrainedInv
    <3>1. Len(got) = 0 /\ Len(data) = 0
      BY <2>1
    <3>2. decode(data).result = 0
      <4>1. Len(data) < 14
        BY <3>1
      <4>2. QED
        BY <4>1 DEF decode, MESSAGE_HEADER_LENGTH, MESSAGE_INCOMPLETE
    <3>3. QED
      BY <3>1, <3>2 DEF DrainedInv
  <2>7. QED
    BY <2>2, <2>3, <2>4, <2>5, <2>6 DEF ReadInv
<1>2. ReadInv /\ [ReadNext]_allVars => ReadInv'
  <2> SUFFICES ASSUME ReadInv, [ReadNext]_allVars PROVE ReadInv'
    OBVIOUS
  <2>1. TypeOK'
    BY StepRefines, StepType DEF ReadInv
  <2>2. ReadTypeOK' /\ FramingInv'
    BY StepFraming DEF ReadInv
  <2>3. QueuedResponses' /\ OnlyResponsesAnswer'
    BY StepAnswers DEF ReadInv
  <2>4. DrainedInv'
    BY StepDrained DEF ReadInv
  <2>5. QED
    BY <2>1, <2>2, <2>3, <2>4 DEF ReadInv
<1>3. QED
  BY <1>1, <1>2, PTL DEF ReadSpec

\* The session keeps the types, whatever arrives in pieces of whatever length.
THEOREM ReadTypeCorrect == ReadSpec => []SessionTypeOK
<1>1. ReadInv => SessionTypeOK
  BY DEF ReadInv, SessionTypeOK
<1>2. QED
  BY <1>1, ReadInvariance, PTL

\* What was taken are the first messages written.
LEMMA TakenFirst ==
    ASSUME ReadTypeOK, FramingInv
    PROVE  SubSeq(sent, 1, Len(got)) = got
<1> DEFINE n == Len(got)
           x == SubSeq(sent, 1, n)
<1>1. got \in Seq(Message) /\ sent \in Seq(Message) /\ n \in Nat
  BY DEF ReadTypeOK
<1>2. n <= Len(sent) /\ \A i \in 1..n : got[i] = sent[i]
  BY DEF FramingInv
<1>3. \A i \in 1..n : sent[i] \in Message
  BY <1>1, <1>2
<1>4. x \in Seq(Message) /\ Len(x) = n /\ \A i \in 1..n : x[i] = sent[i]
  <2>1. n \in Int /\ 1 \in Int /\ n - 1 + 1 = n /\ \A i \in 1..n : 1 + i - 1 = i
    BY <1>1
  <2> HIDE DEF n
  <2>2. /\ x \in Seq(Message) /\ Len(x) = (IF 1 <= n THEN n - 1 + 1 ELSE 0)
        /\ \A i \in 1..(n - 1 + 1) : x[i] = sent[1 + i - 1]
    BY <1>3, <2>1, SubSeqProperties
  <2> HIDE DEF x
  <2>3. QED
    BY <1>1, <2>1, <2>2
<1> HIDE DEF x
<1>5. x = got
  BY <1>1, <1>2, <1>4, SeqEqual
<1>6. QED
  BY <1>5 DEF x

\* Session::doRead takes out of the stream the messages the peer wrote, field by field
\* and in order, for every radix, all messages that fit, and all ways to cut the bytes
\* into reads; also when one of them could not be encoded.
THEOREM GotIsPrefixHolds == ReadSpec => []GotIsPrefix
<1>1. ReadInv => GotIsPrefix
  <2> SUFFICES ASSUME ReadInv PROVE IsPrefix(got, sent)
    BY DEF GotIsPrefix
  <2>1. got \in Seq(Message) /\ Len(got) <= Len(sent)
    BY DEF ReadInv, ReadTypeOK, FramingInv
  <2>2. SubSeq(got, 1, Len(got)) = got
    BY <2>1, SubSeqFull
  <2>3. SubSeq(sent, 1, Len(got)) = got
    BY TakenFirst DEF ReadInv
  <2>4. QED
    BY <2>1, <2>2, <2>3 DEF IsPrefix
<1>2. QED
  BY <1>1, ReadInvariance, PTL

\* Once the loop of Session::doRead is over and no bytes are under way, it has taken
\* every message up to the first that could not be encoded.
THEOREM NothingLeftBehindHolds == ReadSpec => []NothingLeftBehind
<1>1. ReadInv => NothingLeftBehind
  <2> SUFFICES ASSUME ReadInv, reader # "decoding", wire = << >> PROVE got = Intact
    BY DEF NothingLeftBehind
  <2> DEFINE k == Len(got)
             broken == {i \in 1..Len(sent) : ~canEncode(sent[i])}
  <2>1. got \in Seq(Message) /\ sent \in Seq(Message) /\ data \in Seq(Byte)
    BY DEF ReadInv, ReadTypeOK
  <2>2. k \in Nat /\ Len(sent) \in Nat /\ k <= Len(sent)
    BY <2>1 DEF ReadInv, FramingInv
  <2>3. \A i \in 1..k : got[i] = sent[i] /\ canEncode(sent[i])
    BY DEF ReadInv, FramingInv, DrainedInv
  <2>4. SubSeq(sent, 1, k) = got
    BY TakenFirst DEF ReadInv
  <2>5. Intact = IF broken = {} THEN sent
                 ELSE SubSeq(sent, 1, (CHOOSE i \in broken : \A j \in broken : i <= j) - 1)
    BY DEF Intact
  <2>6. CASE k = Len(sent)
    <3>1. broken = {}
      BY <2>3, <2>6
    <3>2. SubSeq(sent, 1, Len(sent)) = sent
      BY <2>1, SubSeqFull
    <3> HIDE DEF k, broken
    <3>3. QED
      BY <2>4, <2>5, <2>6, <3>1, <3>2
  <2>7. CASE k # Len(sent)
    <3> DEFINE m == sent[k + 1]
    <3>1. k < Len(sent) /\ k + 1 \in 1..Len(sent)
      BY <2>2, <2>7
    <3>2. m \in Message /\ WellFormed(m)
      BY <2>1, <3>1, MessagesFit
    <3>3. At(data, 0, encode(m))
      <4>1. Stream = data
        BY <2>1, ConcatEmptySeq DEF Stream
      <4>2. Framed(data, sent, k)
        BY <4>1 DEF ReadInv, FramingInv
      <4>3. QED
        BY <2>1, <2>2, <3>1, <4>2, MessagesFit, FramedTake
    <3>4. ~canEncode(m)
      <4> SUFFICES ASSUME canEncode(m) PROVE FALSE
        OBVIOUS
      <4>1. decode(data).result = Len(encode(m))
        BY <2>1, <3>2, <3>3, DecodeWhole
      <4>2. Len(encode(m)) \in Nat /\ Len(encode(m)) >= 14
        BY <3>2, EncodedBytes
      <4> HIDE DEF m
      <4>3. decode(data).result > 0
        BY <4>1, <4>2
      <4>4. QED
        BY <4>3 DEF ReadInv, DrainedInv
    <3>5. k + 1 \in broken /\ \A j \in broken : k + 1 <= j
      BY <2>2, <2>3, <3>1, <3>4
    <3>6. \A i \in broken : i \in Nat
      OBVIOUS
    <3> HIDE DEF m, broken, k
    <3>7. (CHOOSE i \in broken : \A j \in broken : i <= j) = k + 1
      <4> DEFINE c == CHOOSE i \in broken : \A j \in broken : i <= j
      <4>1. c \in broken /\ \A j \in broken : c <= j
        BY <3>5
      <4> HIDE DEF c
      <4>2. c <= k + 1 /\ k + 1 <= c /\ c \in Nat
        BY <3>5, <3>6, <4>1
      <4>3. c = k + 1
        BY <2>2, <4>2
      <4>4. QED
        BY <4>3 DEF c
    <3>8. (k + 1) - 1 = k /\ broken # {}
      BY <2>2, <3>5
    <3>9. QED
      BY <2>4, <2>5, <3>7, <3>8
  <2>8. QED
    BY <2>6, <2>7
<1>2. QED
  BY <1>1, ReadInvariance, PTL

\* Session::onMessage calls a callback with a response only when the response to that
\* request was taken, whatever sequence numbers the peer's own messages have.
THEOREM OnlyResponsesAnswerHolds == ReadSpec => []OnlyResponsesAnswer
<1>1. ReadInv => OnlyResponsesAnswer
  BY DEF ReadInv
<1>2. QED
  BY <1>1, ReadInvariance, PTL

\* The session with its stream implements SessionCallbacks: a response that comes out of
\* m_data is one the peer gave, to a request that was made.
THEOREM ReadImplementsCallbacks == ReadSpec => Spec
<1>1. ReadInit => Init
  BY DEF ReadInit
<1>2. ReadInv /\ [ReadNext]_allVars => [Next]_vars
  BY StepRefines DEF ReadInv
<1>3. QED
  BY <1>1, <1>2, ReadInvariance, PTL DEF ReadSpec, Spec

\* Hence no callback is lost either when responses come in pieces, between other
\* messages and behind messages that cannot be decoded.
THEOREM NoCallbackLostWhileReading == ReadSpec => []NoCallbackLost
BY ReadImplementsCallbacks, NoCallbackLostHolds, PTL
=============================================================================
