------------------------------ MODULE HeapStore ------------------------------
(***************************************************************************)
(* What the program expects of its memory: a list of objects, each a       *)
(* sequence of bytes of its own.  A new object reads as zeros, an object   *)
(* grows by zeros at its end, and a write changes one byte of one object   *)
(* and nothing else.  Addresses, headers and copies do not appear.         *)
(***************************************************************************)
EXTENDS Naturals, Sequences

CONSTANTS
    Values,     \* what one byte may hold
    Zero,       \* the value calloc leaves
    Lens,       \* the lengths that are asked for
    MaxObjs     \* bound: number of objects handed out

VARIABLE store  \* the contents of every object, in order of creation

Zeros(n) == [i \in 1..n |-> Zero]

Init == store = <<>>

New ==
    \E n \in Lens :
        /\ Len(store) < MaxObjs
        /\ store' = Append(store, Zeros(n))

\* The first Len(store[o]) bytes keep their values.
Grow ==
    \E o \in DOMAIN store, n \in Lens :
        /\ n > Len(store[o])
        /\ store' = [store EXCEPT ![o] =
                        [i \in 1..n |-> IF i <= Len(store[o]) THEN store[o][i] ELSE Zero]]

Write ==
    \E o \in DOMAIN store, v \in Values :
        \E i \in DOMAIN store[o] :
            store' = [store EXCEPT ![o] = [@ EXCEPT ![i] = v]]

Next == New \/ Grow \/ Write

Spec == Init /\ [][Next]_store
==============================================================================
