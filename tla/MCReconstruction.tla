-------------------------- MODULE MCReconstruction --------------------------
(* Instance of Reconstruction for TLC: every list of at most MaxChanges     *)
(* changes of a text of TextLen characters.                                 *)
EXTENDS Reconstruction

CONSTANT MaxChanges

MCChangeLists == UNION {[1 .. n -> Change] : n \in 0 .. MaxChanges}

=============================================================================
