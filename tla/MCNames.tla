------------------------------ MODULE MCNames ------------------------------
(***************************************************************************)
(* The way of a name: the lexer interns it (mclex_lexid), and the compiler *)
(* turns the pointer into a string constant of the function it compiles    *)
(* (mccomp_const_name).  Calls never overlap, but the compiler interns     *)
(* names of its own, so they alternate in any order.                       *)
(***************************************************************************)
EXTENDS MCStrTbl

CONSTANTS
    Ints,       \* the integer constants of the script
    KHash,      \* as in MCConsts
    ConstInit,
    IndexInit

ASSUME NamesAssumption ==
    /\ KHash \in [Words \cup Ints -> Nat]
    /\ ConstInit \in Nat \ {0}
    /\ IndexInit \in Nat \ {0, 1}   \* 16; an index of one slot would be full

VARIABLES constants, constants_cap, const_index, const_index_cap, loads

K == INSTANCE MCConsts WITH Values <- Words \cup Ints

constvars == <<constants, constants_cap, const_index, const_index_cap, loads>>
vars == <<strvars, constvars>>

Init == StrInit /\ K!ConstsInit

ConstName ==
    /\ call.at = "idle"
    /\ \E n \in names : K!Const(n.word)
    /\ UNCHANGED strvars

ConstInt ==
    /\ call.at = "idle"
    /\ \E i \in Ints : K!Const(i)
    /\ UNCHANGED strvars

Next ==
    \/ StrNext /\ UNCHANGED constvars
    \/ ConstName
    \/ ConstInt

\* The program is sequential: a call that has begun goes on.
Spec == Init /\ [][Next]_vars /\ WF_vars(StrStep /\ UNCHANGED constvars)

RoomLeft == K!RoomLeft
ConstsFound == K!ConstsFound
=============================================================================
