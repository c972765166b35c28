------------------------------ MODULE MC_Names ------------------------------
(* TLC instance: names that collide in the table, and with a number. *)
EXTENDS MCNames, TLC

CONSTANTS a, b, c, d, g, seven, eight

MCWords == {a, b, c, d, g}
MCInts == {seven, eight}
MCHash == a :> 3 @@ b :> 3 @@ c :> 7 @@ d :> 8 @@ g :> 2
MCSize == a :> 2 @@ b :> 2 @@ c :> 3 @@ d :> 2 @@ g :> 2
MCKHash == a :> 3 @@ b :> 7 @@ c :> 3 @@ d :> 6 @@ g :> 1 @@ seven :> 3 @@ eight :> 4
=============================================================================
