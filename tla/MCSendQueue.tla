----------------------------- MODULE MCSendQueue -----------------------------
(* The send path for TLC: responses are interchangeable. *)
EXTENDS SendQueue, TLC

MessageSymmetry == Permutations(Messages)

=============================================================================
