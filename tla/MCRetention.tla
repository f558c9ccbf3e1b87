---------------------------- MODULE MCRetention ----------------------------
(* Call slots and deciders are interchangeable; used with safety properties only. *)
EXTENDS Retention, TLC

Symmetry == Permutations(Slots) \cup Permutations(Staff)
=============================================================================
