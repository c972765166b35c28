------------------------------ MODULE MC_Luac ------------------------------
(* TLC instance of the driver: up to two plug-ins of each kind, a library
   given twice, and a table one slot too small for the longest lists. *)
EXTENDS MCLuac

CONSTANTS p, q

MCPlugins == {<<>>, <<p>>, <<p, q>>, <<q, q>>}
MCPutSizes == {0, 1, 2, 5}
=============================================================================
