------------------------------ MODULE MCConsts ------------------------------
(***************************************************************************)
(* The constants of a function, lib/mclfunc.c: an array that doubles, and  *)
(* an open-addressing index over it that doubles before it is 7/10 full.   *)
(* Either may fail to get its memory.  A call that fails before it changes *)
(* anything is not a step.                                                 *)
(***************************************************************************)
EXTENDS Naturals, Sequences

CONSTANTS
    Values,     \* the constants, each with its type
    KHash,      \* const_hash_int, _flt or _str of each
    ConstInit,  \* CONST_INIT_CAP
    IndexInit   \* CONST_INDEX_INIT_CAP

VARIABLES
    constants,        \* the array
    constants_cap,    \* how many fit into it, 0 when it is NULL
    const_index,      \* the slots in use, each with a hash and a place in the array
    const_index_cap,  \* 0 when the index is NULL
    loads             \* history: the constants compiled in, with their indices


ConstsInit ==
    /\ constants = <<>>
    /\ constants_cap = 0
    /\ const_index = <<>>
    /\ const_index_cap = 0
    /\ loads = {}

\* The slots of an index of size cap in the order a probe for hash visits them,
\* and the first of them that the loop stops at.
ProbeSlot(cap, hash, k) == ((hash % cap) + k) % cap

FirstStop(cap, hash, stops) ==
    LET ks == {k \in 0 .. cap - 1 : ProbeSlot(cap, hash, k) \in stops}
    IN  ProbeSlot(cap, hash, CHOOSE k \in ks : \A j \in ks : k <= j)

Empty(index, cap) == (0 .. cap - 1) \ DOMAIN index

InsertRaw(index, cap, entry) ==
    LET slot == FirstStop(cap, entry.hash, Empty(index, cap))
    IN  [s \in DOMAIN index \cup {slot} |-> IF s = slot THEN entry ELSE index[s]]

KeepSlots(cap) == const_index   \* mutant: the old slots in a larger index

\* const_index_grow puts every entry in again; the index after the first n slots.
RehashSteps(cap) ==
    LET r[n \in Nat] ==
            IF n = 0 THEN <<>>
            ELSE IF n - 1 \in DOMAIN const_index
              THEN InsertRaw(r[n - 1], cap, const_index[n - 1])
              ELSE r[n - 1]
    IN  r

Rehash(cap) == RehashSteps(cap)[const_index_cap]

NeverGrow == FALSE   \* mutant: no look at the load

MustGrow == (Len(constants) + 1) * 10 >= const_index_cap * 7

\* const_index_ensure
Ensured ==
    IF const_index_cap = 0 THEN [index |-> <<>>, cap |-> IndexInit]
    ELSE IF MustGrow THEN [index |-> Rehash(2 * const_index_cap), cap |-> 2 * const_index_cap]
    ELSE [index |-> const_index, cap |-> const_index_cap]


Same(entry, v) == entry.hash = KHash[v] /\ constants[entry.idx + 1] = v

\* Where the search for v stops: at v, or at an empty slot.
Stops(e, v) == Empty(e.index, e.cap) \cup {s \in DOMAIN e.index : Same(e.index[s], v)}
Slot(e, v) == FirstStop(e.cap, KHash[v], Stops(e, v))

UseIndex(e) == const_index' = e.index /\ const_index_cap' = e.cap

Load(v, idx) == loads' = loads \cup {[value |-> v, idx |-> idx]}

ConstFound(v) ==
    LET e == Ensured IN
    /\ Slot(e, v) \in DOMAIN e.index
    /\ UseIndex(e)
    /\ Load(v, e.index[Slot(e, v)].idx)
    /\ UNCHANGED <<constants, constants_cap>>

\* mclfunc_push_const: array_ensure, the value, and its entry in the index.
ArrayFull == Len(constants) + 1 > constants_cap

ConstPushed(v) ==
    LET e   == Ensured
        idx == Len(constants)
    IN  /\ Slot(e, v) \notin DOMAIN e.index
        /\ constants' = Append(constants, v)
        /\ constants_cap' = IF constants_cap = 0 THEN ConstInit
                            ELSE IF ArrayFull THEN 2 * constants_cap ELSE constants_cap
        /\ const_index' = InsertRaw(e.index, e.cap, [hash |-> KHash[v], idx |-> idx])
        /\ const_index_cap' = e.cap
        /\ Load(v, idx)

\* The index may have been made or grown, but the array finds no memory.
ConstRefused(v) ==
    LET e == Ensured IN
    /\ Slot(e, v) \notin DOMAIN e.index
    /\ ArrayFull
    /\ UseIndex(e)
    /\ UNCHANGED <<constants, constants_cap, loads>>

Const(v) == ConstFound(v) \/ ConstPushed(v) \/ ConstRefused(v)

-----------------------------------------------------------------------------
(* Properties *)

\* The index always has an empty slot, or every search for a new constant would
\* go round for ever (mclfunc.c:60, 245, 284, 323).
RoomLeft == const_index_cap > 0 => Empty(const_index, const_index_cap) # {}

Index == [index |-> const_index, cap |-> const_index_cap]
AtHome(i) ==
    LET slot == Slot(Index, constants[i])
    IN  slot \in DOMAIN const_index /\ const_index[slot].idx = i - 1

\* Every constant is found where it is, through growth and failures, so none is
\* stored twice; an index once compiled into an instruction keeps its constant,
\* and equal indices mean equal constants, also of different types with the same
\* hash (mclfunc.c:84-88, 261).
ConstsFound ==
    /\ \A i \in DOMAIN constants : AtHome(i)
    /\ \A a \in loads :
        /\ a.idx + 1 \in DOMAIN constants
        /\ constants[a.idx + 1] = a.value
        /\ \A b \in loads : a.value = b.value => a.idx = b.idx
=============================================================================
