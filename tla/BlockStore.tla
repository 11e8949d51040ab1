----------------------------- MODULE BlockStore -----------------------------
(***************************************************************************)
(* What the deduplicating store promises to the files that use it: a block  *)
(* named by its hash is held from before a file refers to it until no file  *)
(* does.  DedupPipeline is shown to implement it.                           *)
(***************************************************************************)
EXTENDS Naturals

CONSTANT Hashes     \* the blocks, each named by the hash of its content

VARIABLES
    held,   \* the blocks whose content can be produced
    refs    \* how many references files have to each block

vars == <<held, refs>>

Init ==
    /\ held = {}
    /\ refs = [h \in Hashes |-> 0]

(* The content of a block is taken in. *)
Accept(h) ==
    /\ held' = held \union {h}
    /\ UNCHANGED refs

(* A file comes to refer to a block that is held. *)
Refer(h) ==
    /\ h \in held
    /\ refs' = [refs EXCEPT ![h] = @ + 1]
    /\ UNCHANGED held

(* A file that refers to the block no longer does. *)
Drop(h) ==
    /\ refs[h] > 0
    /\ refs' = [refs EXCEPT ![h] = @ - 1]
    /\ UNCHANGED held

(* The space of a block no file refers to is taken back. *)
Reclaim(h) ==
    /\ refs[h] = 0
    /\ held' = held \ {h}
    /\ UNCHANGED refs

Next == \E h \in Hashes : Accept(h) \/ Refer(h) \/ Drop(h) \/ Reclaim(h)

Spec == Init /\ [][Next]_vars
=============================================================================
