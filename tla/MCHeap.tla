------------------------------- MODULE MCHeap -------------------------------
(***************************************************************************)
(* The arena of heap/mcheap.c: one calloc'ed buffer, object data bumped up *)
(* from the front (data_top) and object headers bumped down from the back  *)
(* (head_bot).  Nothing is ever given back; an object that grows is copied *)
(* to the top and its old bytes are abandoned.                             *)
(*                                                                         *)
(* The program keeps pointers to headers, so an object is named here by    *)
(* its place in objs, and its bytes are reached through the header's       *)
(* object.data.  Static areas have no header: objs remembers the pointer   *)
(* the caller was given.                                                   *)
(***************************************************************************)
EXTENDS Integers, Sequences

CONSTANTS
    BfrCap,      \* bfrcap, the size of the buffer
    HdrSize,     \* sizeof(HeapHeader)
    U64,         \* 2^64: managed_cap wraps here
    Lens,        \* the lengths the callers ask for
    Values,      \* what one byte may hold
    Zero,        \* what calloc leaves in it
    MaxObjs,     \* bound: number of objects handed out
    LateStatic   \* TRUE: static areas may be reserved after managed objects,
                 \* as mccomp_init does for every nested function

ASSUME HeapAssumption ==
    /\ BfrCap \in Nat
    /\ HdrSize \in Nat \ {0}
    /\ U64 \in Nat
    /\ U64 > BfrCap + HdrSize
    /\ Lens \subseteq Nat
    /\ \A n \in Lens : n < U64 - BfrCap - HdrSize
    /\ Zero \in Values
    /\ MaxObjs \in Nat
    /\ LateStatic \in BOOLEAN

VARIABLES
    data_top,    \* next free byte from the front
    head_bot,    \* first header byte from the back
    managed_cap, \* the running count of bytes left
    objs,        \* the objects handed out, in order
    mem          \* the bytes of bfr that are not inside a header

vars == <<data_top, head_bot, managed_cap, objs, mem>>

Addr == 0 .. BfrCap - 1

Object == [managed : BOOLEAN, at : Int, data : Nat, cap : Nat]

\* u64 subtraction; n is never below -U64 here.
Wrap(n) == IF n < 0 THEN n + U64 ELSE n

Init ==
    /\ data_top = 0
    /\ head_bot = BfrCap
    /\ managed_cap = BfrCap
    /\ objs = <<>>
    /\ mem = [a \in Addr |-> Zero]

(***************************************************************************)
(* mcheap_static_reserve.  The limit it checks is the end of the buffer.   *)
(* The calls that return NULL change nothing and are not steps.            *)
(***************************************************************************)
StaticFitsAlone(len) == len <= BfrCap   \* mutant: forgets what is taken

StaticFits(len) == data_top + len <= BfrCap

StaticReserve(len) ==
    /\ LateStatic \/ head_bot = BfrCap
    /\ Len(objs) < MaxObjs
    /\ StaticFits(len)
    /\ objs' = Append(objs, [managed |-> FALSE, at |-> BfrCap, data |-> data_top, cap |-> len])
    /\ data_top' = data_top + len
    /\ managed_cap' = Wrap(managed_cap - len)
    /\ UNCHANGED <<head_bot, mem>>

(***************************************************************************)
(* mcheap_managed_reserve: data at the front, its header at the back.      *)
(***************************************************************************)
ReserveFitsData(cap) == data_top + cap <= head_bot   \* mutant: forgets the header

ReserveFits(cap) == data_top + cap + HdrSize <= head_bot

ManagedReserve(cap) ==
    /\ Len(objs) < MaxObjs
    /\ ReserveFits(cap)
    /\ objs' = Append(objs, [managed |-> TRUE, at |-> head_bot - HdrSize,
                             data |-> data_top, cap |-> cap])
    /\ data_top' = data_top + cap
    /\ head_bot' = head_bot - HdrSize
    /\ managed_cap' = Wrap(managed_cap - (cap + HdrSize))
    /\ UNCHANGED mem

(***************************************************************************)
(* mcheap_managed_resize: copy the old bytes to the top, move the header's *)
(* pointer.  A length the object already has returns 0 and changes nothing.*)
(***************************************************************************)
CopyNothing(m, from, to, n) == m   \* mutant: no memcpy

CopyBytes(m, from, to, n) ==
    [a \in Addr |-> IF to <= a /\ a < to + n THEN m[a - to + from] ELSE m[a]]

ChargeAll(newlen, oldcap) == newlen   \* mutant: charges the old bytes again

Charge(newlen, oldcap) == newlen - oldcap

\* mutant: grows where it stands
ResizeInPlace(o, newlen) ==
    /\ objs[o].managed
    /\ newlen > objs[o].cap
    /\ data_top + newlen <= head_bot
    /\ data_top' = data_top + newlen
    /\ managed_cap' = Wrap(managed_cap - Charge(newlen, objs[o].cap))
    /\ objs' = [objs EXCEPT ![o].cap = newlen]
    /\ UNCHANGED <<head_bot, mem>>

ManagedResize(o, newlen) ==
    LET hdr == objs[o] IN
    /\ hdr.managed
    /\ newlen > hdr.cap
    /\ data_top + newlen <= head_bot
    /\ mem' = CopyBytes(mem, hdr.data, data_top, hdr.cap)
    /\ data_top' = data_top + newlen
    /\ managed_cap' = Wrap(managed_cap - Charge(newlen, hdr.cap))
    /\ objs' = [objs EXCEPT ![o] = [@ EXCEPT !.data = data_top, !.cap = newlen]]
    /\ UNCHANGED head_bot

(***************************************************************************)
(* A caller writes byte i of an object it holds.  Bytes that lie under a   *)
(* header are left out: what a clobbered header does is not followed.      *)
(***************************************************************************)
Write(o, i, v) ==
    /\ i < objs[o].cap
    /\ objs[o].data + i < head_bot
    /\ mem' = [mem EXCEPT ![objs[o].data + i] = v]
    /\ UNCHANGED <<data_top, head_bot, managed_cap, objs>>

Next ==
    \/ \E len \in Lens : StaticReserve(len)
    \/ \E cap \in Lens : ManagedReserve(cap)
    \/ \E o \in DOMAIN objs, newlen \in Lens : ManagedResize(o, newlen)
    \/ \E o \in DOMAIN objs, i \in Addr, v \in Values : Write(o, i, v)

Spec == Init /\ [][Next]_vars

-----------------------------------------------------------------------------
(* Properties *)

\* Every variable of the arena keeps its type; the front stays inside bfr.
TypeOK ==
    /\ data_top \in 0..BfrCap
    /\ head_bot \in 0..BfrCap
    /\ managed_cap \in 0 .. U64 - 1
    /\ objs \in Seq(Object)
    /\ mem \in [Addr -> Values]

Disjoint(a, b) == a.data + a.cap <= b.data \/ b.data + b.cap <= a.data

\* No two objects share a byte, whatever was reserved, grown and abandoned in
\* between (mcheap.c:45-46, 59-60, 89-91).
ObjectsDisjoint ==
    \A o, p \in DOMAIN objs : o # p => Disjoint(objs[o], objs[p])

\* The bytes of a managed object and the header of another never meet, and
\* headers never meet each other (mcheap.c:55, 83).
HeadersIntact ==
    \A o, p \in DOMAIN objs :
        objs[o].managed /\ objs[p].managed =>
            /\ objs[o].data + objs[o].cap <= objs[p].at
            /\ o # p => \/ objs[o].at + HdrSize <= objs[p].at
                        \/ objs[p].at + HdrSize <= objs[o].at

\* What mcheap.h:33-34 says of the two ends: the bytes from data_top on are
\* free and headers start at head_bot, so the ends never cross.
EndsMeetAtMost == data_top <= head_bot

Footprint(hdr) == hdr.cap + (IF hdr.managed THEN HdrSize ELSE 0)

\* What the first objects of s take together.
Taken(s) == LET t[n \in Nat] == IF n = 0 THEN 0 ELSE t[n - 1] + Footprint(s[n]) IN t

\* managed_cap is the buffer less the bytes of the live objects and headers:
\* what a resize abandons is not charged twice (mcheap.c:43, 62, 90).
ManagedCapCounts == managed_cap = BfrCap - Taken(objs)[Len(objs)]

\* The contents of the objects, as the callers see them.
Contents ==
    [o \in DOMAIN objs |-> [i \in 1..objs[o].cap |-> mem[objs[o].data + i - 1]]]

Store == INSTANCE HeapStore WITH store <- Contents

\* The arena implements the store: growing keeps the old bytes, new bytes are
\* zero, and no call or write disturbs another object.
ImplementsStore == Store!Spec
=============================================================================
