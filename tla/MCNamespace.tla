---------------------------- MODULE MCNamespace ----------------------------
(* Namespace for TLC: which name is which makes no difference. *)
EXTENDS Namespace, TLC

NameSymmetry == Permutations(Names)
=============================================================================
