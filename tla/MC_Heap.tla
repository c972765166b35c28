------------------------------ MODULE MC_Heap ------------------------------
(* TLC instance of the arena. *)
EXTENDS MCHeap

MCLens == {0, 1, 3}
MCValues == {0, 1}
=============================================================================
