---------------------------- MODULE WriteBuffer ----------------------------
(***************************************************************************)
(* WriteCache (datastructures.py): the in-memory queue of blocks between    *)
(* the thread that serves file system requests (the producer: dedup calls   *)
(* append) and the writer threads (write_new_blocks calls popleft).         *)
(*                                                                          *)
(* Only the number of queued blocks matters for back-pressure, so the deque *)
(* is its length.  append tests the size and then appends: two steps, since *)
(* a writer can take a block in between.  A full buffer makes the producer  *)
(* wait until it holds fewer than Capacity \div 5 blocks.                   *)
(***************************************************************************)
EXTENDS Naturals

CONSTANTS
    Capacity,   \* write_buffer_size of config.yaml
    Workers     \* the writer threads

ASSUME CapacityAssumption == Capacity \in Nat \ {0}

VARIABLES
    size,       \* len(d)
    producer,   \* where append is
    worker      \* where each writer thread is in its loop

vars == <<size, producer, worker>>

ProducerSteps == {"idle", "append", "stall"}
WorkerSteps == {"poll", "busy", "nap"}

(* The level below which a stalled append goes on. *)
ResumeLevel == Capacity \div 5

TypeOK ==
    /\ size \in Nat
    /\ producer \in ProducerSteps
    /\ worker \in [Workers -> WorkerSteps]

Init ==
    /\ size = 0
    /\ producer = "idle"
    /\ worker = [w \in Workers |-> "poll"]

(* Mutant: append without its size test. *)
AppendRoomUntested ==
    /\ producer = "idle"
    /\ producer' = "append"
    /\ UNCHANGED <<size, worker>>

(* append finds room. *)
AppendRoom ==
    /\ producer = "idle"
    /\ size < Capacity
    /\ producer' = "append"
    /\ UNCHANGED <<size, worker>>

(* append finds the buffer full and starts to wait. *)
AppendFull ==
    /\ producer = "idle"
    /\ size >= Capacity
    /\ producer' = "stall"
    /\ UNCHANGED <<size, worker>>

(* Mutant: the waiting loop wants the buffer below an empty one. *)
StallOverEmpty ==
    /\ producer = "stall"
    /\ size < 0
    /\ producer' = "append"
    /\ UNCHANGED <<size, worker>>

(* The waiting loop sees that the buffer has drained. *)
StallOver ==
    /\ producer = "stall"
    /\ ~ (size >= ResumeLevel)
    /\ producer' = "append"
    /\ UNCHANGED <<size, worker>>

(* d.append(val): the deque itself has no limit. *)
Enqueue ==
    /\ producer = "append"
    /\ size' = size + 1
    /\ producer' = "idle"
    /\ UNCHANGED worker

(* A writer takes the oldest block. *)
PopLeft(w) ==
    /\ worker[w] = "poll"
    /\ size > 0
    /\ size' = size - 1
    /\ worker' = [worker EXCEPT ![w] = "busy"]
    /\ UNCHANGED producer

(* popleft raises IndexError and the writer sleeps. *)
PopEmpty(w) ==
    /\ worker[w] = "poll"
    /\ size = 0
    /\ worker' = [worker EXCEPT ![w] = "nap"]
    /\ UNCHANGED <<size, producer>>

(* The writer is done with its block, written or not, or has slept, and     *)
(* looks at the buffer again.                                               *)
PollAgain(w) ==
    /\ worker[w] \in {"busy", "nap"}
    /\ worker' = [worker EXCEPT ![w] = "poll"]
    /\ UNCHANGED <<size, producer>>

Produce == AppendRoom \/ AppendFull \/ StallOver \/ Enqueue
Work(w) == PopLeft(w) \/ PopEmpty(w) \/ PollAgain(w)

Next == Produce \/ \E w \in Workers : Work(w)

(* The writer threads never leave their loop and every one of them is       *)
(* scheduled again and again; a call of append that has begun goes on.      *)
(* Nothing obliges a client to write: AppendRoom and AppendFull are unfair. *)
Fairness ==
    /\ \A w \in Workers : WF_vars(Work(w))
    /\ WF_vars(StallOver)
    /\ WF_vars(Enqueue)

Spec == Init /\ [][Next]_vars /\ Fairness

-----------------------------------------------------------------------------
(* The buffer never holds more than write_buffer_size blocks: between the   *)
(* size test of append and its d.append only writers touch the deque, so    *)
(* the memory it takes stays bounded although the deque has no limit.       *)
Bounded ==
    /\ size <= Capacity
    /\ producer = "append" => size < Capacity

(* Once the buffer has filled up the file system does not hang: a waiting   *)
(* append goes on when the writers have drained the buffer (append sleeps   *)
(* on the only thread that serves requests).                                *)
StallEnds == (producer = "stall") ~> (producer = "idle")

=============================================================================
