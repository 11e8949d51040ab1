-------------------------- MODULE WriteBufferProofs --------------------------
(* The bound on the write buffer holds for every capacity and every set of  *)
(* writer threads.                                                          *)
EXTENDS WriteBuffer, TLAPS

(* Bounded is inductive together with the types: the second conjunct of     *)
(* Bounded carries the size test of append over to its d.append.            *)
IInv == TypeOK /\ Bounded

(* The initial buffer is empty.                                             *)
LEMMA InitIInv == Init => IInv
  BY CapacityAssumption DEF Init, IInv, TypeOK, Bounded, ProducerSteps, WorkerSteps

(* Every step of append and of a writer preserves the bound.                *)
LEMMA StepIInv == IInv /\ [Next]_vars => IInv'
<1> SUFFICES ASSUME IInv, [Next]_vars PROVE IInv'
  OBVIOUS
<1> USE CapacityAssumption
    DEF IInv, TypeOK, Bounded, ProducerSteps, WorkerSteps
<1>1. CASE AppendRoom
  BY <1>1 DEF AppendRoom
<1>2. CASE AppendFull
  BY <1>2 DEF AppendFull
<1>3. CASE StallOver
  (* ResumeLevel is at most Capacity: a stall ends with room to spare. *)
  <2>1. ResumeLevel \in Nat /\ ResumeLevel <= Capacity
    BY DEF ResumeLevel
  <2>2. size < Capacity
    BY <1>3, <2>1 DEF StallOver
  <2>3. QED
    BY <1>3, <2>2 DEF StallOver
<1>4. CASE Enqueue
  BY <1>4 DEF Enqueue
<1>5. ASSUME NEW w \in Workers, PopLeft(w) PROVE IInv'
  BY <1>5 DEF PopLeft
<1>6. ASSUME NEW w \in Workers, PopEmpty(w) PROVE IInv'
  BY <1>6 DEF PopEmpty
<1>7. ASSUME NEW w \in Workers, PollAgain(w) PROVE IInv'
  BY <1>7 DEF PollAgain
<1>8. CASE UNCHANGED vars
  BY <1>8 DEF vars
<1>9. QED
  BY <1>1, <1>2, <1>3, <1>4, <1>5, <1>6, <1>7, <1>8 DEF Next, Produce, Work

(* The write buffer never outgrows write_buffer_size, although the deque    *)
(* under it has no limit and append tests and appends in two steps.         *)
THEOREM BufferBounded == Spec => []Bounded
<1>1. IInv => Bounded
  BY DEF IInv
<1>2. QED
  BY InitIInv, StepIInv, <1>1, PTL DEF Spec
=============================================================================
