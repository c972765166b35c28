--------------------------- MODULE MCHeap_proofs ---------------------------
(***************************************************************************)
(* What the arena guarantees for every buffer size, header size and set of *)
(* lengths.  LayoutInv is the inductive invariant: everything handed out   *)
(* lies below data_top, every managed object ends below head_bot, and      *)
(* every header lies above it.                                             *)
(***************************************************************************)
EXTENDS MCHeap, SequenceTheorems, TLAPS

BelowTop ==
    \A o \in DOMAIN objs : objs[o].data + objs[o].cap <= data_top

HeadersAbove ==
    \A o \in DOMAIN objs :
        objs[o].managed =>
            /\ objs[o].data + objs[o].cap <= head_bot
            /\ head_bot <= objs[o].at
            /\ objs[o].at + HdrSize <= BfrCap

HeadersApart ==
    \A o, p \in DOMAIN objs :
        objs[o].managed /\ objs[p].managed /\ o # p =>
            \/ objs[o].at + HdrSize <= objs[p].at
            \/ objs[p].at + HdrSize <= objs[o].at

LayoutInv ==
    /\ TypeOK
    /\ BelowTop
    /\ HeadersAbove
    /\ HeadersApart
    /\ ObjectsDisjoint

\* Wrapping subtraction of less than U64 stays a u64.
LEMMA WrapType ==
    ASSUME NEW n \in Int, n >= 0 - U64, n < U64
    PROVE  Wrap(n) \in 0 .. U64 - 1
BY HeapAssumption DEF Wrap

\* memcpy between two areas of the buffer leaves a buffer.
LEMMA CopyBytesType ==
    ASSUME NEW m \in [Addr -> Values], NEW from \in Nat, NEW to \in Nat, NEW n \in Nat,
           from + n <= BfrCap
    PROVE  CopyBytes(m, from, to, n) \in [Addr -> Values]
<1>1. SUFFICES ASSUME NEW a \in Addr, to <= a, a < to + n
               PROVE  m[a - to + from] \in Values
  BY HeapAssumption DEF CopyBytes, Addr
<1>2. a - to + from \in Addr
  BY <1>1, HeapAssumption DEF Addr
<1> QED
  BY <1>2

\* The fields of every object are numbers.
LEMMA ObjectFields ==
    ASSUME objs \in Seq(Object), NEW o \in DOMAIN objs
    PROVE  /\ objs[o] \in Object
           /\ objs[o].managed \in BOOLEAN
           /\ objs[o].at \in Int
           /\ objs[o].data \in Nat
           /\ objs[o].cap \in Nat
<1>1. objs[o] \in Object
  OBVIOUS
<1> QED
  BY <1>1 DEF Object

\* A length is small enough for one u64 subtraction.
LEMMA LenFits ==
    ASSUME NEW len \in Lens
    PROVE  len \in Nat /\ len + HdrSize < U64
BY HeapAssumption

\* What Append does, as facts about the places of a sequence.
LEMMA AppendFacts ==
    ASSUME NEW s \in Seq(Object), NEW e \in Object
    PROVE  /\ Append(s, e) \in Seq(Object)
           /\ Len(Append(s, e)) = Len(s) + 1
           /\ Append(s, e)[Len(s) + 1] = e
           /\ \A o \in DOMAIN s : Append(s, e)[o] = s[o]
           /\ DOMAIN Append(s, e) = DOMAIN s \cup {Len(s) + 1}
OBVIOUS

\* An empty arena satisfies the invariant.
LEMMA InitLayout == Init => LayoutInv
<1> SUFFICES ASSUME Init PROVE LayoutInv
  OBVIOUS
<1>1. TypeOK
  BY HeapAssumption DEF Init, TypeOK, Addr
<1> QED
  BY <1>1 DEF Init, LayoutInv, BelowTop, HeadersAbove, HeadersApart, ObjectsDisjoint

\* A static area starts at data_top and has no header.
LEMMA StaticReserveLayout ==
    ASSUME LayoutInv, NEW len \in Lens, StaticReserve(len)
    PROVE  LayoutInv'
<1> DEFINE obj == [managed |-> FALSE, at |-> BfrCap, data |-> data_top, cap |-> len]
<1>t. objs \in Seq(Object)
  BY DEF LayoutInv, TypeOK
<1>0. /\ len \in Nat /\ len + HdrSize < U64
      /\ obj \in Object
      /\ data_top \in Nat /\ head_bot \in Nat
  BY LenFits, HeapAssumption DEF LayoutInv, TypeOK, Object
<1>1. objs' = Append(objs, obj) /\ data_top' = data_top + len /\ head_bot' = head_bot
  BY DEF StaticReserve
<1>2. /\ Len(objs') = Len(objs) + 1
      /\ objs'[Len(objs) + 1] = obj
      /\ \A o \in DOMAIN objs : objs'[o] = objs[o]
      /\ DOMAIN objs' = DOMAIN objs \cup {Len(objs) + 1}
      /\ objs' \in Seq(Object)
  <2> HIDE DEF obj
  <2> QED
    BY <1>0, <1>1, <1>t, AppendFacts
<1>f. \A o \in DOMAIN objs : objs[o].data \in Nat /\ objs[o].cap \in Nat /\ objs[o].at \in Int
  BY <1>t, ObjectFields
<1> USE HeapAssumption DEF LayoutInv, TypeOK
<1>3. TypeOK'
  <2>1. managed_cap' \in 0 .. U64 - 1
    <3>1. /\ managed_cap - len \in Int
          /\ managed_cap - len >= 0 - U64
          /\ managed_cap - len < U64
      BY <1>0
    <3> QED
      BY <3>1, WrapType DEF StaticReserve
  <2>2. objs' \in Seq(Object)
    BY <1>2
  <2> QED
    BY <1>0, <1>1, <2>1, <2>2 DEF StaticReserve, StaticFits
<1>b. /\ BelowTop /\ HeadersAbove /\ HeadersApart /\ ObjectsDisjoint
      /\ HdrSize \in Nat /\ BfrCap \in Nat /\ head_bot <= BfrCap
  OBVIOUS
<1> HIDE HeapAssumption DEF obj, LayoutInv, TypeOK
<1>4. obj.data = data_top /\ obj.cap = len /\ ~ obj.managed
  BY DEF obj
<1>5. BelowTop'
  <2> SUFFICES ASSUME NEW o \in DOMAIN objs'
               PROVE  objs'[o].data + objs'[o].cap <= data_top'
    BY DEF BelowTop
  <2>1. CASE o \in DOMAIN objs
    BY <1>f, <1>0, <1>1, <1>2, <1>b, <2>1 DEF BelowTop
  <2>2. CASE o = Len(objs) + 1
    BY <1>0, <1>1, <1>2, <1>4, <2>2
  <2> QED
    BY <1>2, <2>1, <2>2
<1>6. HeadersAbove'
  BY <1>f, <1>1, <1>2, <1>4, <1>b DEF HeadersAbove
<1>7. HeadersApart'
  BY <1>f, <1>2, <1>4, <1>b DEF HeadersApart
<1>8. ObjectsDisjoint'
  BY <1>f, <1>0, <1>1, <1>2, <1>4, <1>b DEF ObjectsDisjoint, Disjoint, BelowTop
<1> QED
  BY <1>3, <1>5, <1>6, <1>7, <1>8 DEF LayoutInv

\* A managed object starts at data_top, its header ends at head_bot.
LEMMA ManagedReserveLayout ==
    ASSUME LayoutInv, NEW cap \in Lens, ManagedReserve(cap)
    PROVE  LayoutInv'
<1> DEFINE obj == [managed |-> TRUE, at |-> head_bot - HdrSize, data |-> data_top, cap |-> cap]
<1>t. objs \in Seq(Object)
  BY DEF LayoutInv, TypeOK
<1>0. /\ cap \in Nat /\ cap + HdrSize < U64
      /\ obj \in Object
      /\ data_top \in Nat /\ head_bot \in Nat
  BY LenFits, HeapAssumption DEF LayoutInv, TypeOK, Object
<1>1. /\ objs' = Append(objs, obj)
      /\ data_top' = data_top + cap
      /\ head_bot' = head_bot - HdrSize
      /\ data_top + cap + HdrSize <= head_bot
  BY DEF ManagedReserve, ReserveFits
<1>2. /\ Len(objs') = Len(objs) + 1
      /\ objs'[Len(objs) + 1] = obj
      /\ \A o \in DOMAIN objs : objs'[o] = objs[o]
      /\ DOMAIN objs' = DOMAIN objs \cup {Len(objs) + 1}
      /\ objs' \in Seq(Object)
  <2> HIDE DEF obj
  <2> QED
    BY <1>0, <1>1, <1>t, AppendFacts
<1>f. \A o \in DOMAIN objs : objs[o].data \in Nat /\ objs[o].cap \in Nat /\ objs[o].at \in Int
  BY <1>t, ObjectFields
<1> USE HeapAssumption DEF LayoutInv, TypeOK
<1>3. TypeOK'
  <2>1. managed_cap' \in 0 .. U64 - 1
    <3>1. /\ managed_cap - (cap + HdrSize) \in Int
          /\ managed_cap - (cap + HdrSize) >= 0 - U64
          /\ managed_cap - (cap + HdrSize) < U64
      BY <1>0
    <3> QED
      BY <3>1, WrapType DEF ManagedReserve
  <2>2. objs' \in Seq(Object)
    BY <1>2
  <2> QED
    BY <1>0, <1>1, <2>1, <2>2 DEF ManagedReserve
<1>b. /\ BelowTop /\ HeadersAbove /\ HeadersApart /\ ObjectsDisjoint
      /\ HdrSize \in Nat /\ BfrCap \in Nat /\ head_bot <= BfrCap
  OBVIOUS
<1> HIDE HeapAssumption DEF obj, LayoutInv, TypeOK
<1>4. obj.data = data_top /\ obj.cap = cap /\ obj.at = head_bot - HdrSize
  BY DEF obj
<1>5. BelowTop'
  <2> SUFFICES ASSUME NEW o \in DOMAIN objs'
               PROVE  objs'[o].data + objs'[o].cap <= data_top'
    BY DEF BelowTop
  <2>1. CASE o \in DOMAIN objs
    BY <1>f, <1>0, <1>1, <1>2, <1>b, <2>1, SMTT(30) DEF BelowTop
  <2>2. CASE o = Len(objs) + 1
    BY <1>0, <1>1, <1>2, <1>4, <2>2
  <2> QED
    BY <1>2, <2>1, <2>2
<1>6. HeadersAbove'
  <2> SUFFICES ASSUME NEW o \in DOMAIN objs', objs'[o].managed
               PROVE  /\ objs'[o].data + objs'[o].cap <= head_bot'
                      /\ head_bot' <= objs'[o].at
                      /\ objs'[o].at + HdrSize <= BfrCap
    BY DEF HeadersAbove
  <2>1. CASE o \in DOMAIN objs
    <3>1. objs'[o] = objs[o]
      BY <1>2, <2>1
    <3>2. /\ objs[o].data + objs[o].cap <= data_top
          /\ head_bot <= objs[o].at
          /\ objs[o].at + HdrSize <= BfrCap
      BY <1>b, <2>1, <3>1 DEF BelowTop, HeadersAbove
    <3>3. objs[o].data \in Nat /\ objs[o].cap \in Nat /\ objs[o].at \in Int
      BY <1>f, <2>1
    <3>4. data_top <= head_bot' /\ head_bot' <= head_bot /\ head_bot' \in Int
      BY <1>0, <1>1, <1>b
    <3>5. objs[o].data + objs[o].cap <= head_bot'
      BY <1>0, <3>2, <3>3, <3>4
    <3>6. head_bot' <= objs[o].at
      BY <1>0, <3>2, <3>3, <3>4
    <3> QED
      BY <3>1, <3>2, <3>5, <3>6
  <2>2. CASE o = Len(objs) + 1
    BY <1>0, <1>1, <1>2, <1>4, <1>b, <2>2
  <2> QED
    BY <1>2, <2>1, <2>2
<1>7. HeadersApart'
  <2>1. \A o \in DOMAIN objs : objs[o].managed => obj.at + HdrSize <= objs[o].at
    BY <1>f, <1>0, <1>4, <1>b DEF HeadersAbove
  <2> SUFFICES ASSUME NEW o \in DOMAIN objs', NEW p \in DOMAIN objs',
                      objs'[o].managed, objs'[p].managed, o # p
               PROVE  \/ objs'[o].at + HdrSize <= objs'[p].at
                      \/ objs'[p].at + HdrSize <= objs'[o].at
    BY DEF HeadersApart
  <2>2. CASE o \in DOMAIN objs /\ p \in DOMAIN objs
    BY <1>2, <1>b, <2>2 DEF HeadersApart
  <2>3. CASE o = Len(objs) + 1
    BY <1>2, <2>1, <2>3
  <2>4. CASE p = Len(objs) + 1
    BY <1>2, <2>1, <2>4
  <2> QED
    BY <1>2, <2>2, <2>3, <2>4
<1>8. ObjectsDisjoint'
  BY <1>f, <1>0, <1>1, <1>2, <1>4, <1>b, ZenonT(40) DEF ObjectsDisjoint, Disjoint, BelowTop
<1> QED
  BY <1>3, <1>5, <1>6, <1>7, <1>8 DEF LayoutInv

\* A resize moves one object to data_top and leaves its header.
LEMMA ManagedResizeLayout ==
    ASSUME LayoutInv, NEW o \in DOMAIN objs, NEW newlen \in Lens, ManagedResize(o, newlen)
    PROVE  LayoutInv'
<1> USE HeapAssumption DEF LayoutInv, TypeOK
<1>0. /\ newlen \in Nat /\ newlen + HdrSize < U64
      /\ objs[o] \in Object
      /\ data_top \in Nat /\ head_bot \in Nat
  BY LenFits
<1>f. \A p \in DOMAIN objs : objs[p].data \in Nat /\ objs[p].cap \in Nat /\ objs[p].at \in Int
  BY ObjectFields
<1>1. /\ objs[o].managed
      /\ newlen > objs[o].cap
      /\ data_top + newlen <= head_bot
      /\ data_top' = data_top + newlen
      /\ head_bot' = head_bot
  BY DEF ManagedResize
<1>2. /\ DOMAIN objs' = DOMAIN objs
      /\ \A p \in DOMAIN objs : p # o => objs'[p] = objs[p]
      /\ objs'[o] = [objs[o] EXCEPT !.data = data_top, !.cap = newlen]
  BY DEF ManagedResize
<1>3. /\ objs'[o].data = data_top
      /\ objs'[o].cap = newlen
      /\ objs'[o].at = objs[o].at
      /\ objs'[o].managed
      /\ objs'[o] \in Object
  BY <1>0, <1>1, <1>2 DEF Object
<1>4. TypeOK'
  <2>1. managed_cap' \in 0 .. U64 - 1
    <3>1. /\ managed_cap' = Wrap(managed_cap - (newlen - objs[o].cap))
          /\ objs[o].cap \in Nat
      BY <1>f DEF ManagedResize, Charge
    <3>2. managed_cap \in Int /\ managed_cap >= 0 /\ managed_cap < U64 /\ U64 \in Nat
      OBVIOUS
    <3>3. \A c \in Nat :
             newlen > c => /\ managed_cap - (newlen - c) \in Int
                           /\ managed_cap - (newlen - c) >= 0 - U64
                           /\ managed_cap - (newlen - c) < U64
      BY <1>0, <3>2, HeapAssumption
    <3> HIDE HeapAssumption DEF LayoutInv, TypeOK
    <3> QED
      BY <1>1, <3>1, <3>3, WrapType
  <2>2. objs' \in Seq(Object)
    <3>1. objs' = [objs EXCEPT ![o] = objs'[o]]
      BY <1>2 DEF ManagedResize
    <3>2. o \in 1 .. Len(objs) /\ objs \in Seq(Object)
      OBVIOUS
    <3> HIDE HeapAssumption DEF LayoutInv, TypeOK
    <3> QED
      BY <1>3, <3>1, <3>2, ExceptSeq
  <2>3. mem' \in [Addr -> Values]
    <3>1. mem' = CopyBytes(mem, objs[o].data, data_top, objs[o].cap)
      BY DEF ManagedResize
    <3>2. /\ objs[o].data \in Nat /\ objs[o].cap \in Nat
          /\ objs[o].data + objs[o].cap <= BfrCap
      BY <1>f DEF BelowTop
    <3>3. data_top \in Nat /\ mem \in [Addr -> Values]
      OBVIOUS
    <3> HIDE HeapAssumption DEF LayoutInv, TypeOK
    <3> QED
      BY <3>1, <3>2, <3>3, CopyBytesType
  <2>4. data_top' \in 0..BfrCap /\ head_bot' \in 0..BfrCap
    BY <1>0, <1>1
  <2> QED
    BY <2>1, <2>2, <2>3, <2>4
<1>b. /\ BelowTop /\ HeadersAbove /\ HeadersApart /\ ObjectsDisjoint
      /\ HdrSize \in Nat /\ BfrCap \in Nat /\ head_bot <= BfrCap
  OBVIOUS
<1> HIDE HeapAssumption DEF LayoutInv, TypeOK
<1>5. BelowTop'
  <2> SUFFICES ASSUME NEW p \in DOMAIN objs
               PROVE  objs'[p].data + objs'[p].cap <= data_top'
    BY <1>2 DEF BelowTop
  <2>1. CASE p = o
    BY <1>0, <1>1, <1>3, <2>1
  <2>2. CASE p # o
    <3>1. objs'[p] = objs[p] /\ objs[p].data + objs[p].cap <= data_top
      BY <1>2, <1>b, <2>2 DEF BelowTop
    <3>2. objs[p].data \in Nat /\ objs[p].cap \in Nat
      BY <1>f
    <3> QED
      BY <1>0, <1>1, <3>1, <3>2
  <2> QED
    BY <2>1, <2>2
<1>6. HeadersAbove'
  BY <1>f, <1>0, <1>1, <1>2, <1>3, <1>b DEF HeadersAbove
<1>7. HeadersApart'
  BY <1>f, <1>1, <1>2, <1>3, <1>b DEF HeadersApart
<1>8. ObjectsDisjoint'
  BY <1>f, <1>0, <1>1, <1>2, <1>3, <1>b, ZenonT(40) DEF ObjectsDisjoint, Disjoint, BelowTop
<1> QED
  BY <1>4, <1>5, <1>6, <1>7, <1>8 DEF LayoutInv

\* A write moves nothing.
LEMMA WriteLayout ==
    ASSUME LayoutInv, NEW o \in DOMAIN objs, NEW i \in Addr, NEW v \in Values, Write(o, i, v)
    PROVE  LayoutInv'
<1> USE HeapAssumption DEF LayoutInv, TypeOK
<1>1. mem' \in [Addr -> Values]
  BY DEF Write
<1> QED
  BY <1>1 DEF Write, BelowTop, HeadersAbove, HeadersApart, ObjectsDisjoint, Disjoint

\* Every step keeps the layout.
LEMMA NextLayout == LayoutInv /\ [Next]_vars => LayoutInv'
<1> SUFFICES ASSUME LayoutInv, [Next]_vars PROVE LayoutInv'
  OBVIOUS
<1>1. CASE \E len \in Lens : StaticReserve(len)
  BY <1>1, StaticReserveLayout
<1>2. CASE \E cap \in Lens : ManagedReserve(cap)
  BY <1>2, ManagedReserveLayout
<1>3. CASE \E o \in DOMAIN objs, newlen \in Lens : ManagedResize(o, newlen)
  BY <1>3, ManagedResizeLayout
<1>4. CASE \E o \in DOMAIN objs, i \in Addr, v \in Values : Write(o, i, v)
  BY <1>4, WriteLayout
<1>5. CASE UNCHANGED vars
  BY <1>5 DEF vars, LayoutInv, TypeOK, BelowTop, HeadersAbove, HeadersApart,
              ObjectsDisjoint, Disjoint
<1> QED
  BY <1>1, <1>2, <1>3, <1>4, <1>5 DEF Next

\* The layout invariant holds in every reachable state of mcheap.c.
THEOREM LayoutCorrect == Spec => []LayoutInv
BY InitLayout, NextLayout, PTL DEF Spec

\* Every field keeps its type and the front never leaves the buffer.
THEOREM TypeCorrect == Spec => []TypeOK
<1>1. LayoutInv => TypeOK
  BY DEF LayoutInv
<1> QED
  BY <1>1, LayoutCorrect, PTL

\* Reserving and growing never makes two objects share a byte, even when
\* static areas are reserved late.
THEOREM Disjointness == Spec => []ObjectsDisjoint
<1>1. LayoutInv => ObjectsDisjoint
  BY DEF LayoutInv
<1> QED
  BY <1>1, LayoutCorrect, PTL

\* Managed bytes and headers, and any two headers, stay apart.
THEOREM HeaderSafety == Spec => []HeadersIntact
<1>1. LayoutInv => HeadersIntact
  <2> SUFFICES ASSUME LayoutInv,
                      NEW o \in DOMAIN objs, NEW p \in DOMAIN objs,
                      objs[o].managed, objs[p].managed
               PROVE  /\ objs[o].data + objs[o].cap <= objs[p].at
                      /\ o # p => \/ objs[o].at + HdrSize <= objs[p].at
                                  \/ objs[p].at + HdrSize <= objs[o].at
    BY DEF HeadersIntact
  <2>1. /\ objs[o].data \in Nat /\ objs[o].cap \in Nat /\ objs[p].at \in Int
        /\ head_bot \in Nat
    BY ObjectFields, HeapAssumption DEF LayoutInv, TypeOK
  <2>2. objs[o].data + objs[o].cap <= head_bot /\ head_bot <= objs[p].at
    BY DEF LayoutInv, HeadersAbove
  <2> QED
    BY <2>1, <2>2 DEF LayoutInv, HeadersApart
<1> QED
  BY <1>1, LayoutCorrect, PTL

-----------------------------------------------------------------------------
(***************************************************************************)
(* The arena implements HeapStore.  Beside the layout it takes that the    *)
(* bytes from data_top on are still those of calloc: nothing is reused.    *)
(***************************************************************************)
FreshInv ==
    /\ LayoutInv
    /\ \A a \in Addr : a >= data_top => mem[a] = Zero

\* An address inside an object is an address below data_top.
LEMMA InsideBelow ==
    ASSUME LayoutInv, NEW o \in DOMAIN objs, NEW i \in 1..objs[o].cap
    PROVE  /\ objs[o].data + i - 1 \in Addr
           /\ objs[o].data + i - 1 < data_top
           /\ objs[o].data + i - 1 \in Int
<1>1. objs[o].data \in Nat /\ objs[o].cap \in Nat
  BY ObjectFields DEF LayoutInv, TypeOK
<1>2. objs[o].data + objs[o].cap <= data_top /\ data_top \in 0..BfrCap
  BY DEF LayoutInv, TypeOK, BelowTop
<1> QED
  BY <1>1, <1>2, HeapAssumption DEF Addr

\* A new arena is all zeros.
LEMMA InitFresh == Init => FreshInv
BY InitLayout DEF Init, FreshInv

\* Nobody writes above data_top.
LEMMA NextFresh == FreshInv /\ [Next]_vars => FreshInv'
<1> SUFFICES ASSUME FreshInv, [Next]_vars PROVE FreshInv'
  OBVIOUS
<1>0. LayoutInv /\ LayoutInv'
  BY NextLayout DEF FreshInv
<1> DEFINE Fresh == \A a \in Addr : a >= data_top => mem[a] = Zero
<1>t. Fresh /\ data_top \in Nat /\ Addr \subseteq Int /\ Addr' = Addr
  BY <1>0, HeapAssumption DEF FreshInv, LayoutInv, TypeOK, Addr
<1>1. ASSUME NEW len \in Lens, StaticReserve(len) PROVE Fresh'
  <2>1. data_top' = data_top + len /\ mem' = mem /\ len \in Nat
    BY <1>1, HeapAssumption DEF StaticReserve
  <2> QED
    BY <1>t, <2>1
<1>2. ASSUME NEW cap \in Lens, ManagedReserve(cap) PROVE Fresh'
  <2>1. data_top' = data_top + cap /\ mem' = mem /\ cap \in Nat
    BY <1>2, HeapAssumption DEF ManagedReserve
  <2> QED
    BY <1>t, <2>1
<1>3. ASSUME NEW o \in DOMAIN objs, NEW newlen \in Lens, ManagedResize(o, newlen) PROVE Fresh'
  <2>1. /\ data_top' = data_top + newlen /\ newlen \in Nat
        /\ objs[o].cap \in Nat /\ newlen > objs[o].cap
        /\ mem' = CopyBytes(mem, objs[o].data, data_top, objs[o].cap)
    BY <1>0, <1>3, HeapAssumption, ObjectFields DEF ManagedResize, LayoutInv, TypeOK
  <2>2. ASSUME NEW a \in Addr, a >= data_top' PROVE mem'[a] = Zero
    <3>1. ~ (a < data_top + objs[o].cap) /\ a >= data_top
      BY <1>t, <2>1, <2>2
    <3>2. mem'[a] = mem[a]
      BY <2>1, <3>1 DEF CopyBytes
    <3> QED
      BY <1>t, <3>1, <3>2
  <2> QED
    BY <1>t, <2>2
<1>4. ASSUME NEW o \in DOMAIN objs, NEW i \in Addr, NEW v \in Values, Write(o, i, v) PROVE Fresh'
  <2>1. /\ data_top' = data_top /\ mem' = [mem EXCEPT ![objs[o].data + i] = v]
        /\ i < objs[o].cap /\ i \in Nat
        /\ objs[o].cap \in Nat /\ objs[o].data \in Nat
        /\ objs[o].data + objs[o].cap <= data_top
    BY <1>0, <1>4, HeapAssumption, ObjectFields DEF Write, LayoutInv, TypeOK, Addr, BelowTop
  <2>2. ASSUME NEW a \in Addr, a >= data_top PROVE mem'[a] = Zero
    <3>1. a # objs[o].data + i
      BY <1>t, <2>1, <2>2
    <3>2. mem'[a] = mem[a]
      BY <1>0, <2>1, <3>1 DEF LayoutInv, TypeOK
    <3> QED
      BY <1>t, <2>2, <3>2
  <2> QED
    BY <1>t, <2>1, <2>2
<1>5. ASSUME UNCHANGED vars PROVE Fresh'
  BY <1>t, <1>5 DEF vars
<1> HIDE DEF Fresh
<1>6. Fresh'
  BY <1>1, <1>2, <1>3, <1>4, <1>5 DEF Next
<1> QED
  BY <1>0, <1>6 DEF FreshInv, Fresh

\* Every object has contents.
LEMMA ContentsType ==
    LayoutInv => /\ Contents \in Seq(Seq(Values))
                 /\ Len(Contents) = Len(objs)
                 /\ DOMAIN Contents = DOMAIN objs
<1> SUFFICES ASSUME LayoutInv
             PROVE  /\ Contents \in Seq(Seq(Values))
                    /\ Len(Contents) = Len(objs)
                    /\ DOMAIN Contents = DOMAIN objs
  OBVIOUS
<1>1. Len(objs) \in Nat /\ DOMAIN objs = 1..Len(objs)
  BY DEF LayoutInv, TypeOK
<1>2. ASSUME NEW o \in DOMAIN objs PROVE Contents[o] \in Seq(Values)
  <2>1. objs[o].cap \in Nat
    BY ObjectFields DEF LayoutInv, TypeOK
  <2>2. \A i \in 1..objs[o].cap : mem[objs[o].data + i - 1] \in Values
    BY InsideBelow DEF LayoutInv, TypeOK
  <2> QED
    BY <2>1, <2>2, IsASeq DEF Contents
<1>3. Contents = [o \in 1..Len(objs) |-> Contents[o]]
  BY <1>1 DEF Contents
<1>4. Contents \in Seq(Seq(Values))
  BY <1>1, <1>2, <1>3, IsASeq
<1> QED
  BY <1>1, <1>4, LenProperties DEF Contents

\* So it has after a step.
LEMMA ContentsTypeNext ==
    LayoutInv' => (/\ Contents \in Seq(Seq(Values))
                   /\ Len(Contents) = Len(objs)
                   /\ DOMAIN Contents = DOMAIN objs)'
BY ContentsType, PTL

\* One more object, the others where they were: the store gets one more object.
LEMMA AppendContents ==
    ASSUME FreshInv, LayoutInv', NEW obj \in Object,
           obj.data = data_top, objs' = Append(objs, obj), mem' = mem,
           data_top + obj.cap <= BfrCap
    PROVE  Contents' = Append(Contents, Store!Zeros(obj.cap))
<1>0. LayoutInv
  BY DEF FreshInv
<1>1. /\ Len(objs) \in Nat /\ DOMAIN objs = 1..Len(objs)
      /\ Len(objs') = Len(objs) + 1 /\ DOMAIN objs' = 1..Len(objs) + 1
      /\ objs'[Len(objs) + 1] = obj
      /\ \A o \in DOMAIN objs : objs'[o] = objs[o]
  BY <1>0 DEF LayoutInv, TypeOK
<1>2. Store!Zeros(obj.cap) \in Seq(Values)
  BY HeapAssumption, IsASeq DEF Store!Zeros, Object
<1> DEFINE C == Append(Contents, Store!Zeros(obj.cap))
<1>3. /\ C \in Seq(Seq(Values)) /\ Len(C) = Len(objs) + 1
      /\ \A o \in DOMAIN objs : C[o] = Contents[o]
      /\ C[Len(objs) + 1] = Store!Zeros(obj.cap)
  <2> HIDE DEF C
  <2>1. C = Append(Contents, Store!Zeros(obj.cap))
    BY DEF C
  <2> QED
    BY <1>0, <1>1, <1>2, <2>1, ContentsType, AppendProperties
<1>4. Contents' \in Seq(Seq(Values)) /\ Len(Contents') = Len(objs) + 1
  <2>1. Contents' \in Seq(Seq(Values)) /\ Len(Contents') = Len(objs')
    BY ContentsTypeNext
  <2> QED
    BY <1>1, <2>1
<1>5. \A o \in 1..Len(objs) : Contents'[o] = C[o]
  <2>1. \A o \in 1..Len(objs) : Contents'[o] = Contents[o]
    BY <1>1 DEF Contents
  <2> QED
    BY <1>1, <1>3, <2>1
<1>6. Contents'[Len(objs) + 1] = C[Len(objs) + 1]
  <2>1. Contents'[Len(objs) + 1] = [i \in 1..obj.cap |-> mem[data_top + i - 1]]
    <3>1. Contents' = [o \in DOMAIN objs' |->
                          [i \in 1..objs'[o].cap |-> mem[objs'[o].data + i - 1]]]
      BY DEF Contents
    <3>2. Len(objs) + 1 \in DOMAIN objs'
      BY <1>1
    <3>3. Contents'[Len(objs) + 1] =
            [i \in 1..objs'[Len(objs) + 1].cap |-> mem[objs'[Len(objs) + 1].data + i - 1]]
      BY <3>1, <3>2
    <3> QED
      BY <1>1, <3>3
  <2>2. ASSUME NEW i \in 1..obj.cap PROVE mem[data_top + i - 1] = Zero
    <3>1. obj.cap \in Nat /\ data_top \in Nat
      BY <1>0, HeapAssumption DEF Object, LayoutInv, TypeOK
    <3>2. data_top + i - 1 \in Addr /\ data_top + i - 1 >= data_top
      BY <3>1, HeapAssumption DEF Addr
    <3> QED
      BY <3>2 DEF FreshInv
  <2> QED
    BY <1>3, <2>1, <2>2 DEF Store!Zeros
<1> HIDE DEF C
<1>7. \A o \in 1..Len(C) : Contents'[o] = C[o]
  <2> SUFFICES ASSUME NEW o \in 1..Len(objs) + 1 PROVE Contents'[o] = C[o]
    BY <1>3
  <2>1. o \in 1..Len(objs) \/ o = Len(objs) + 1
    BY <1>1
  <2> QED
    BY <2>1, <1>5, <1>6
<1>8. Contents' = C
  BY <1>3, <1>4, <1>7, SeqEqual
<1> QED
  BY <1>8 DEF C

\* A static area is a new object of the store.
LEMMA StaticReserveStore ==
    ASSUME FreshInv, LayoutInv', NEW len \in Lens, StaticReserve(len)
    PROVE  Store!Next
<1> DEFINE obj == [managed |-> FALSE, at |-> BfrCap, data |-> data_top, cap |-> len]
<1>1. obj \in Object /\ obj.data = data_top /\ obj.cap = len
  BY HeapAssumption DEF Object, FreshInv, LayoutInv, TypeOK
<1>2. objs' = Append(objs, obj) /\ mem' = mem /\ data_top + len <= BfrCap
      /\ Len(objs) < MaxObjs
  BY DEF StaticReserve, StaticFits
<1> HIDE DEF obj
<1>3. Contents' = Append(Contents, Store!Zeros(len))
  BY <1>1, <1>2, AppendContents
<1>4. Len(Contents) < MaxObjs
  BY <1>2, ContentsType DEF FreshInv
<1> QED
  BY <1>3, <1>4 DEF Store!Next, Store!New

\* A managed object is a new object of the store.
LEMMA ManagedReserveStore ==
    ASSUME FreshInv, LayoutInv', NEW cap \in Lens, ManagedReserve(cap)
    PROVE  Store!Next
<1> DEFINE obj == [managed |-> TRUE, at |-> head_bot - HdrSize, data |-> data_top, cap |-> cap]
<1>1. obj \in Object /\ obj.data = data_top /\ obj.cap = cap
  BY HeapAssumption DEF Object, FreshInv, LayoutInv, TypeOK
<1>2. objs' = Append(objs, obj) /\ mem' = mem /\ Len(objs) < MaxObjs
  BY DEF ManagedReserve
<1>3. data_top + cap <= BfrCap
  BY HeapAssumption DEF ManagedReserve, ReserveFits, FreshInv, LayoutInv, TypeOK
<1> HIDE DEF obj
<1>4. Contents' = Append(Contents, Store!Zeros(cap))
  BY <1>1, <1>2, <1>3, AppendContents
<1>5. Len(Contents) < MaxObjs
  BY <1>2, ContentsType DEF FreshInv
<1> QED
  BY <1>4, <1>5 DEF Store!Next, Store!New

\* The copy lands above every live object, so the others keep their bytes, and
\* the grown object reads as before up to its old length and zero after it.
LEMMA ManagedResizeStore ==
    ASSUME FreshInv, NEW o \in DOMAIN objs, NEW newlen \in Lens, ManagedResize(o, newlen)
    PROVE  Store!Next
<1>0. LayoutInv
  BY DEF FreshInv
<1>1. /\ DOMAIN Contents = DOMAIN objs
      /\ \A p \in DOMAIN objs :
            Contents[p] = [i \in 1..objs[p].cap |-> mem[objs[p].data + i - 1]]
  BY DEF Contents
<1> DEFINE old == objs[o].cap
           from == objs[o].data
<1>2. /\ old \in Nat /\ from \in Nat /\ data_top \in Nat /\ newlen \in Nat
      /\ from + old <= data_top
      /\ newlen > old
      /\ data_top + newlen <= head_bot /\ head_bot \in 0..BfrCap
  BY <1>0, ObjectFields, HeapAssumption DEF ManagedResize, LayoutInv, TypeOK, BelowTop
<1>3. /\ mem' = CopyBytes(mem, from, data_top, old)
      /\ DOMAIN objs' = DOMAIN objs
      /\ \A p \in DOMAIN objs : p # o => objs'[p] = objs[p]
  BY DEF ManagedResize
<1>4. objs'[o].data = data_top /\ objs'[o].cap = newlen
  <2>1. objs[o] \in Object /\ objs \in Seq(Object)
    BY <1>0, ObjectFields DEF LayoutInv, TypeOK
  <2>2. objs'[o] = [objs[o] EXCEPT !.data = data_top, !.cap = newlen]
    BY <2>1 DEF ManagedResize
  <2> QED
    BY <2>1, <2>2 DEF Object
<1>5. Contents' = [p \in DOMAIN objs |->
                      [i \in 1..objs'[p].cap |-> mem'[objs'[p].data + i - 1]]]
  BY <1>3 DEF Contents
<1>6. \A p \in DOMAIN objs : Contents'[p] =
                      [i \in 1..objs'[p].cap |-> mem'[objs'[p].data + i - 1]]
  BY <1>5
<1> DEFINE Longer == [i \in 1..newlen |-> IF i <= Len(Contents[o]) THEN Contents[o][i] ELSE Zero]
<1>7. Len(Contents[o]) = old
  <2>1. Contents[o] \in Seq(Values)
    BY <1>0, <1>1, ContentsType, ElementOfSeq
  <2> QED
    BY <1>1, <1>2, <2>1, LenProperties
<1>8. Contents'[o] = Longer
  <2>1. Contents'[o] = [i \in 1..newlen |-> mem'[data_top + i - 1]]
    BY <1>4, <1>6
  <2>2. ASSUME NEW i \in 1..newlen
        PROVE  mem'[data_top + i - 1] = IF i <= old THEN Contents[o][i] ELSE Zero
    <3>1. i \in Int /\ data_top + i - 1 \in Addr
      BY <1>2, HeapAssumption DEF Addr
    <3>2. CASE i <= old
      <4>1. data_top <= data_top + i - 1 /\ data_top + i - 1 < data_top + old
        BY <1>2, <3>1, <3>2
      <4>2. (data_top + i - 1) - data_top + from = from + i - 1
        BY <1>2, <3>1
      <4>3. mem'[data_top + i - 1] = mem[from + i - 1]
        BY <1>3, <3>1, <4>1, <4>2 DEF CopyBytes
      <4> QED
        BY <1>1, <1>2, <3>1, <3>2, <4>3
    <3>3. CASE ~ (i <= old)
      <4>1. ~ (data_top + i - 1 < data_top + old) /\ data_top + i - 1 >= data_top
        BY <1>2, <3>1, <3>3
      <4>2. mem'[data_top + i - 1] = mem[data_top + i - 1]
        BY <1>3, <3>1, <4>1 DEF CopyBytes
      <4> QED
        BY <3>1, <3>3, <4>1, <4>2 DEF FreshInv
    <3> QED
      BY <3>2, <3>3
  <2> QED
    BY <1>7, <2>1, <2>2
<1>9. ASSUME NEW p \in DOMAIN objs, p # o PROVE Contents'[p] = Contents[p]
  <2>1. ASSUME NEW i \in 1..objs[p].cap
        PROVE  mem'[objs[p].data + i - 1] = mem[objs[p].data + i - 1]
    BY <1>0, <1>2, <1>3, <2>1, InsideBelow DEF CopyBytes
  <2>2. Contents'[p] = [i \in 1..objs[p].cap |-> mem'[objs[p].data + i - 1]]
    BY <1>3, <1>6, <1>9
  <2> QED
    BY <1>1, <2>1, <2>2
<1> HIDE DEF Longer
<1>10. Contents' = [Contents EXCEPT ![o] = Longer]
  <2>1. /\ Contents' = [p \in DOMAIN objs |-> Contents'[p]]
        /\ Contents = [p \in DOMAIN objs |-> Contents[p]]
    BY <1>1, <1>5 DEF Contents
  <2> QED
    BY <1>8, <1>9, <2>1
<1>11. o \in DOMAIN Contents /\ newlen > Len(Contents[o])
  BY <1>1, <1>2, <1>7
<1> QED
  BY <1>10, <1>11 DEF Store!Next, Store!Grow, Longer

\* Objects are disjoint, so a write through one reaches no other.
LEMMA WriteStore ==
    ASSUME FreshInv, NEW o \in DOMAIN objs, NEW i \in Addr, NEW v \in Values, Write(o, i, v)
    PROVE  Store!Next
<1>0. LayoutInv
  BY DEF FreshInv
<1>1. /\ DOMAIN Contents = DOMAIN objs
      /\ Contents = [p \in DOMAIN objs |-> [j \in 1..objs[p].cap |-> mem[objs[p].data + j - 1]]]
      /\ Contents' = [p \in DOMAIN objs |-> [j \in 1..objs[p].cap |-> mem'[objs[p].data + j - 1]]]
  BY DEF Contents, Write
<1>2. /\ objs[o].cap \in Nat /\ objs[o].data \in Nat
      /\ i \in Nat /\ i < objs[o].cap
      /\ i + 1 \in 1..objs[o].cap
      /\ objs[o].data + i \in Addr
  <2>1. objs[o].cap \in Nat /\ objs[o].data \in Nat /\ i \in Nat /\ i < objs[o].cap
    BY <1>0, ObjectFields, HeapAssumption DEF Write, LayoutInv, TypeOK, Addr
  <2>2. objs[o].data + objs[o].cap <= data_top /\ data_top \in 0..BfrCap
    BY <1>0 DEF LayoutInv, TypeOK, BelowTop
  <2> QED
    BY <2>1, <2>2, HeapAssumption DEF Addr
<1>3. /\ mem \in [Addr -> Values]
      /\ mem' = [mem EXCEPT ![objs[o].data + i] = v]
  BY <1>0 DEF Write, LayoutInv, TypeOK
<1> DEFINE Changed == [Contents[o] EXCEPT ![i + 1] = v]
<1>4. Contents'[o] = Changed
  <2>1. Contents[o] = [j \in 1..objs[o].cap |-> mem[objs[o].data + j - 1]]
    BY <1>1
  <2>2. Contents'[o] = [j \in 1..objs[o].cap |-> mem'[objs[o].data + j - 1]]
    BY <1>1
  <2>3. ASSUME NEW j \in 1..objs[o].cap
        PROVE  mem'[objs[o].data + j - 1] = IF j = i + 1 THEN v ELSE mem[objs[o].data + j - 1]
    <3>1. j \in Int /\ objs[o].data + j - 1 \in Addr
      BY <1>0, <1>2, InsideBelow
    <3>2. CASE j = i + 1
      <4>1. objs[o].data + j - 1 = objs[o].data + i
        BY <1>2, <3>1, <3>2
      <4> QED
        BY <1>2, <1>3, <3>2, <4>1
    <3>3. CASE j # i + 1
      <4>1. objs[o].data + j - 1 # objs[o].data + i
        BY <1>2, <3>1, <3>3
      <4> QED
        BY <1>3, <3>1, <3>3, <4>1
    <3> QED
      BY <3>2, <3>3
  <2>4. Changed = [j \in 1..objs[o].cap |-> IF j = i + 1 THEN v ELSE mem[objs[o].data + j - 1]]
    BY <2>1
  <2> HIDE DEF Changed
  <2> QED
    BY <2>2, <2>3, <2>4
<1>5. ASSUME NEW p \in DOMAIN objs, p # o PROVE Contents'[p] = Contents[p]
  <2>1. ASSUME NEW j \in 1..objs[p].cap
        PROVE  mem'[objs[p].data + j - 1] = mem[objs[p].data + j - 1]
    <3>1. /\ objs[p].data \in Nat /\ objs[p].cap \in Nat
          /\ objs[p].data + j - 1 \in Addr
      BY <1>0, ObjectFields, InsideBelow DEF LayoutInv, TypeOK
    <3>2. \/ objs[o].data + objs[o].cap <= objs[p].data
          \/ objs[p].data + objs[p].cap <= objs[o].data
      BY <1>0, <1>5 DEF LayoutInv, ObjectsDisjoint, Disjoint
    <3>3. objs[p].data + j - 1 # objs[o].data + i
      BY <1>2, <3>1, <3>2
    <3> QED
      BY <1>3, <3>1, <3>3
  <2> QED
    BY <1>1, <2>1
<1> HIDE DEF Changed
<1>6. Contents' = [Contents EXCEPT ![o] = Changed]
  <2>1. /\ Contents' = [p \in DOMAIN objs |-> Contents'[p]]
        /\ Contents = [p \in DOMAIN objs |-> Contents[p]]
    BY <1>1
  <2> QED
    BY <1>1, <1>4, <1>5, <2>1
<1>7. o \in DOMAIN Contents /\ i + 1 \in DOMAIN Contents[o]
  BY <1>1, <1>2
<1> QED
  BY <1>6, <1>7 DEF Store!Next, Store!Write, Changed

\* With the static areas reserved before any managed object, the two ends of
\* the buffer never cross (mcheap.c:39, 55, 83).
THEOREM EndsMeet ==
    ASSUME ~ LateStatic
    PROVE  Spec => []EndsMeetAtMost
<1> DEFINE Inv == LayoutInv /\ data_top <= head_bot
<1>1. Init => Inv
  BY InitLayout, HeapAssumption DEF Init
<1>2. Inv /\ [Next]_vars => Inv'
  <2> SUFFICES ASSUME LayoutInv, data_top <= head_bot, [Next]_vars
               PROVE  data_top' <= head_bot'
    BY NextLayout
  <2>0. data_top \in Nat /\ head_bot \in Nat
    BY HeapAssumption DEF LayoutInv, TypeOK
  <2>1. ASSUME NEW len \in Lens, StaticReserve(len) PROVE data_top' <= head_bot'
    BY <2>0, <2>1, HeapAssumption DEF StaticReserve, StaticFits
  <2>2. ASSUME NEW cap \in Lens, ManagedReserve(cap) PROVE data_top' <= head_bot'
    BY <2>0, <2>2, HeapAssumption DEF ManagedReserve, ReserveFits
  <2>3. ASSUME NEW o \in DOMAIN objs, NEW newlen \in Lens, ManagedResize(o, newlen)
        PROVE  data_top' <= head_bot'
    BY <2>0, <2>3, HeapAssumption DEF ManagedResize
  <2>4. ASSUME NEW o \in DOMAIN objs, NEW i \in Addr, NEW v \in Values, Write(o, i, v)
        PROVE  data_top' <= head_bot'
    BY <2>4 DEF Write
  <2>5. CASE UNCHANGED vars
    BY <2>5 DEF vars
  <2> QED
    BY <2>1, <2>2, <2>3, <2>4, <2>5 DEF Next
<1>3. Inv => EndsMeetAtMost
  BY DEF EndsMeetAtMost
<1> QED
  BY <1>1, <1>2, <1>3, PTL DEF Spec

-----------------------------------------------------------------------------
(* The count of bytes left *)

TakenStep(s, t, n) == t + Footprint(s[n])
TakenRun == INSTANCE NatSteps WITH Op <- TakenStep

\* What the objects take, object by object.
LEMMA TakenIs ==
    ASSUME NEW s
    PROVE  /\ Taken(s)[0] = 0
           /\ \A n \in Nat : Taken(s)[n + 1] = Taken(s)[n] + Footprint(s[n + 1])
<1>1. Taken(s) = TakenRun!Steps(s, 0)
  BY DEF Taken, TakenRun!Steps, TakenStep
<1> QED
  BY <1>1, TakenRun!StepsUnfold DEF TakenStep

\* An object takes its bytes and those of its header.
LEMMA FootprintNat ==
    ASSUME NEW hdr \in Object
    PROVE  Footprint(hdr) \in Nat /\ Footprint(hdr) >= hdr.cap
BY HeapAssumption DEF Footprint, Object

\* What they take is a number.
LEMMA TakenNat ==
    ASSUME NEW s \in Seq(Object), NEW n \in Nat, n <= Len(s)
    PROVE  Taken(s)[n] \in Nat
<1> DEFINE Good == {k \in Nat : k <= Len(s) => Taken(s)[k] \in Nat}
<1>0. Taken(s)[0] = 0
  BY TakenIs, Zenon
<1>1. 0 \in Good
  BY <1>0
<1>2. ASSUME NEW k \in Nat, k \in Good PROVE k + 1 \in Good
  <2> SUFFICES ASSUME k + 1 <= Len(s) PROVE Taken(s)[k + 1] \in Nat
    OBVIOUS
  <2>1. k + 1 \in DOMAIN s /\ s[k + 1] \in Object /\ Taken(s)[k] \in Nat
    BY <1>2
  <2>2. Footprint(s[k + 1]) \in Nat
    BY <2>1, FootprintNat
  <2>3. Taken(s)[k + 1] = Taken(s)[k] + Footprint(s[k + 1])
    BY TakenIs, Zenon
  <2> QED
    BY <2>1, <2>2, <2>3
<1> HIDE DEF Good
<1>3. n \in Good
  BY <1>1, <1>2, TakenRun!Induct
<1> QED
  BY <1>3 DEF Good

\* Of the first m objects only o grows, by so many bytes.
Grows(s, r, m, o, more) ==
    \A i \in 1..m : Footprint(r[i]) = Footprint(s[i]) + (IF i = o THEN more ELSE 0)

\* When object o grows by some bytes, so does what the objects from o on take,
\* and an object that grows by nothing changes nothing.
LEMMA TakenGrows ==
    ASSUME NEW s \in Seq(Object), NEW r \in Seq(Object), NEW m \in Nat, m <= Len(s), m <= Len(r),
           NEW o \in Int, NEW more \in Int, Grows(s, r, m, o, more)
    PROVE  Taken(r)[m] = Taken(s)[m] + (IF o \in 1..m THEN more ELSE 0)
<1> DEFINE Good == {k \in Nat : k <= m =>
                        Taken(r)[k] = Taken(s)[k] + (IF o \in 1..k THEN more ELSE 0)}
<1>0. Taken(r)[0] = 0 /\ Taken(s)[0] = 0
  BY TakenIs, Zenon
<1>1. 0 \in Good
  BY <1>0
<1>2. ASSUME NEW k \in Nat, k \in Good PROVE k + 1 \in Good
  <2> SUFFICES ASSUME k + 1 <= m
               PROVE  Taken(r)[k + 1] = Taken(s)[k + 1] + (IF o \in 1 .. k + 1 THEN more ELSE 0)
    OBVIOUS
  <2>1. k + 1 \in 1..m /\ k + 1 <= Len(s) /\ k + 1 <= Len(r) /\ s[k + 1] \in Object
    OBVIOUS
  <2>2. Taken(r)[k] = Taken(s)[k] + (IF o \in 1..k THEN more ELSE 0)
    BY <1>2
  <2>3. Footprint(r[k + 1]) = Footprint(s[k + 1]) + (IF k + 1 = o THEN more ELSE 0)
    BY <2>1 DEF Grows
  <2>4. Taken(s)[k] \in Nat /\ Footprint(s[k + 1]) \in Nat
    BY <2>1, TakenNat, FootprintNat, SMTT(30)
  <2>5. /\ Taken(r)[k + 1] = Taken(r)[k] + Footprint(r[k + 1])
        /\ Taken(s)[k + 1] = Taken(s)[k] + Footprint(s[k + 1])
    BY TakenIs
  <2> QED
    BY <2>2, <2>3, <2>4, <2>5
<1> HIDE DEF Good
<1>3. m \in Good
  BY <1>1, <1>2, TakenRun!Induct
<1> QED
  BY <1>3 DEF Good

\* One more object takes its footprint.
LEMMA TakenAppend ==
    ASSUME NEW s \in Seq(Object), NEW hdr \in Object
    PROVE  Taken(Append(s, hdr))[Len(Append(s, hdr))] = Taken(s)[Len(s)] + Footprint(hdr)
<1> DEFINE r == Append(s, hdr)
           m == Len(s)
<1>1. /\ r \in Seq(Object) /\ Len(r) = m + 1 /\ r[m + 1] = hdr /\ m \in Nat
      /\ \A i \in 1..m : r[i] = s[i]
  BY AppendFacts
<1> HIDE DEF r
<1>2. Grows(s, r, m, 0, 0)
  <2> SUFFICES ASSUME NEW i \in 1..m
               PROVE  Footprint(r[i]) = Footprint(s[i]) + (IF i = 0 THEN 0 ELSE 0)
    BY DEF Grows
  <2>1. r[i] = s[i] /\ s[i] \in Object
    BY <1>1
  <2>2. Footprint(s[i]) \in Nat
    BY <2>1, FootprintNat
  <2> QED
    BY <2>1, <2>2
<1>3. Taken(r)[m] = Taken(s)[m] + (IF 0 \in 1..m THEN 0 ELSE 0)
  BY <1>1, <1>2, TakenGrows
<1>4. Taken(s)[m] \in Nat
  BY <1>1, TakenNat
<1>5. Taken(r)[m] = Taken(s)[m]
  BY <1>3, <1>4
<1>6. Taken(r)[m + 1] = Taken(r)[m] + Footprint(r[m + 1])
  BY <1>1, TakenIs, Zenon
<1> QED
  BY <1>1, <1>5, <1>6 DEF r

\* The count is exact, and what the objects take is no more than what the two
\* ends have moved: the bytes abandoned by a resize lie between.
CapInv ==
    /\ LayoutInv
    /\ data_top <= head_bot
    /\ ManagedCapCounts
    /\ Taken(objs)[Len(objs)] <= data_top + (BfrCap - head_bot)

\* One more object: the count goes down by what it takes.
LEMMA AppendCap ==
    ASSUME CapInv, NEW hdr \in Object, objs' = Append(objs, hdr),
           NEW top \in Nat, NEW bot \in Nat, top <= bot,
           data_top' = top, head_bot' = bot,
           top - bot = (data_top - head_bot) + Footprint(hdr),
           managed_cap' = Wrap(managed_cap - Footprint(hdr))
    PROVE  /\ ManagedCapCounts'
           /\ (Taken(objs)[Len(objs)] <= data_top + (BfrCap - head_bot))'
<1>1. objs \in Seq(Object) /\ data_top \in Nat /\ head_bot \in Nat /\ BfrCap \in Nat
  BY HeapAssumption DEF CapInv, LayoutInv, TypeOK
<1>2. Taken(objs)[Len(objs)] \in Nat /\ Footprint(hdr) \in Nat
  BY <1>1, TakenNat, FootprintNat
<1>3. Taken(objs')[Len(objs')] = Taken(objs)[Len(objs)] + Footprint(hdr)
  BY <1>1, TakenAppend
<1>4. Taken(objs)[Len(objs)] + Footprint(hdr) <= top + (BfrCap - bot)
  BY <1>1, <1>2 DEF CapInv
<1>5. managed_cap - Footprint(hdr) >= 0 /\ managed_cap \in Int
  <2>1. managed_cap = BfrCap - Taken(objs)[Len(objs)]
    BY DEF CapInv, ManagedCapCounts
  <2> HIDE DEF CapInv
  <2> QED
    BY <1>1, <1>2, <1>4, <2>1, SMTT(30)
<1>6. managed_cap' = managed_cap - Footprint(hdr)
  BY <1>2, <1>5 DEF Wrap
<1> QED
  BY <1>1, <1>2, <1>3, <1>4, <1>6, SMTT(30) DEF CapInv, ManagedCapCounts

\* A resize takes only what is new.
LEMMA ResizeCap ==
    ASSUME CapInv, NEW o \in DOMAIN objs, NEW newlen \in Lens, ManagedResize(o, newlen), LayoutInv'
    PROVE  /\ ManagedCapCounts'
           /\ (Taken(objs)[Len(objs)] <= data_top + (BfrCap - head_bot))'
<1> DEFINE more == newlen - objs[o].cap
           m    == Len(objs)
<1>1. objs \in Seq(Object) /\ objs' \in Seq(Object) /\ data_top \in Nat /\ head_bot \in Nat
      /\ BfrCap \in Nat /\ HdrSize \in Nat
  BY HeapAssumption DEF CapInv, LayoutInv, TypeOK
<1>2. objs[o] \in Object /\ objs[o].cap \in Nat /\ newlen \in Nat /\ newlen > objs[o].cap
      /\ data_top + newlen <= head_bot
  BY <1>1, ObjectFields, LenFits DEF ManagedResize
<1>3. /\ data_top' = data_top + newlen /\ head_bot' = head_bot
      /\ managed_cap' = Wrap(managed_cap - more)
      /\ objs' = [objs EXCEPT ![o] = [objs[o] EXCEPT !.data = data_top, !.cap = newlen]]
  BY DEF ManagedResize, Charge
<1>4. /\ Len(objs') = m /\ m \in Nat /\ DOMAIN objs = 1..m
      /\ objs'[o] = [objs[o] EXCEPT !.data = data_top, !.cap = newlen]
      /\ \A i \in 1..m : i # o => objs'[i] = objs[i]
  BY <1>1, <1>3
<1>5. Footprint(objs'[o]) = Footprint(objs[o]) + more
  <2>1. objs'[o].cap = newlen /\ objs'[o].managed = objs[o].managed
    BY <1>2, <1>4 DEF Object
  <2> QED
    BY <1>1, <1>2, <2>1 DEF Footprint
<1>6. \A i \in 1..m : Footprint(objs'[i]) = Footprint(objs[i]) + (IF i = o THEN more ELSE 0)
  <2> TAKE i \in 1..m
  <2>1. Footprint(objs[i]) \in Nat
    BY <1>1, <1>4, ObjectFields, FootprintNat
  <2> QED
    BY <1>4, <1>5, <2>1
<1>7. more \in Nat /\ o \in 1..m
  BY <1>2, <1>4
<1>7a. objs' \in Seq(Object) /\ objs \in Seq(Object)
  BY <1>1
<1>8. Taken(objs')[m] = Taken(objs)[m] + more
  <2> HIDE DEF more
  <2>1. PICK s \in Seq(Object), r \in Seq(Object), k \in Nat : s = objs /\ r = objs' /\ k = m
    BY <1>4, <1>7a
  <2>2. more \in Int /\ o \in Int /\ k <= Len(s) /\ k <= Len(r)
    BY <1>4, <1>7, <2>1
  <2>3. Grows(s, r, k, o, more)
    BY <1>6, <2>1 DEF Grows
  <2>4. Taken(r)[k] = Taken(s)[k] + (IF o \in 1..k THEN more ELSE 0)
    BY <2>2, <2>3, TakenGrows
  <2>5. o \in 1..k
    BY <1>7, <2>1
  <2> HIDE DEF m
  <2> QED
    BY <2>1, <2>4, <2>5
<1>9. Taken(objs)[m] \in Nat
  BY <1>1, <1>4, TakenNat
<1>10. ManagedCapCounts /\ Taken(objs)[m] <= data_top + (BfrCap - head_bot)
  BY DEF CapInv, m
<1>11. managed_cap = BfrCap - Taken(objs)[m]
  BY <1>10 DEF ManagedCapCounts, m
<1>12. more <= newlen /\ m = Len(objs) /\ Len(objs') = Len(objs)
  BY <1>2, <1>4 DEF more
<1> HIDE DEF m, more
<1>13. PICK t \in Int, u \in Int : t = Taken(objs)[m] /\ u = Taken(objs')[m] /\ u = t + more
  BY <1>7, <1>8, <1>9
<1>14. /\ t + more <= data_top + newlen + (BfrCap - head_bot)
       /\ managed_cap = BfrCap - t /\ managed_cap - more \in Int /\ managed_cap - more >= 0
  <2>1. t <= data_top + (BfrCap - head_bot) /\ managed_cap = BfrCap - t
    BY <1>10, <1>11, <1>13
  <2>2. data_top + newlen <= head_bot /\ newlen \in Nat
    BY <1>2
  <2> QED
    BY <1>1, <1>7, <1>12, <2>1, <2>2
<1>15. managed_cap' = managed_cap - more
  BY <1>3, <1>14 DEF Wrap
<1>16. managed_cap' = BfrCap - u
  <2>1. managed_cap' = BfrCap - t - more
    BY <1>14, <1>15
  <2>2. u = t + more /\ t \in Int /\ more \in Int /\ BfrCap \in Int
    BY <1>1, <1>7, <1>13
  <2>3. \A b, x, y \in Int : b - x - y = b - (x + y)
    OBVIOUS
  <2> QED
    BY <2>1, <2>2, <2>3
<1>17. u <= data_top' + (BfrCap - head_bot')
  BY <1>3, <1>13, <1>14
<1> QED
  BY <1>12, <1>13, <1>16, <1>17 DEF ManagedCapCounts

\* With the static areas first, managed_cap is always the buffer less what the
\* live objects and their headers take: it never wraps, and a resize is charged
\* for the new bytes only (mcheap.c:43, 62, 90).
THEOREM CapCounts ==
    ASSUME ~ LateStatic
    PROVE  Spec => []ManagedCapCounts
<1>1. Init => CapInv
  <2> SUFFICES ASSUME Init PROVE CapInv
    OBVIOUS
  <2>1. objs = <<>> /\ Len(objs) = 0 /\ managed_cap = BfrCap /\ data_top = 0 /\ head_bot = BfrCap
    BY DEF Init
  <2>2. Taken(objs)[Len(objs)] = 0
    BY <2>1, TakenIs
  <2> QED
    BY <2>1, <2>2, InitLayout, HeapAssumption DEF CapInv, ManagedCapCounts
<1>2. CapInv /\ [Next]_vars => CapInv'
  <2> SUFFICES ASSUME CapInv, [Next]_vars PROVE CapInv'
    OBVIOUS
  <2>0. /\ data_top \in Nat /\ head_bot \in Nat /\ head_bot <= BfrCap
        /\ BfrCap \in Nat /\ HdrSize \in Nat /\ LayoutInv' /\ data_top <= head_bot
    BY HeapAssumption, NextLayout DEF CapInv, LayoutInv, TypeOK
  <2>1. ASSUME NEW len \in Lens, StaticReserve(len) PROVE CapInv'
    <3> DEFINE hdr == [managed |-> FALSE, at |-> BfrCap, data |-> data_top, cap |-> len]
    <3>1. /\ head_bot = BfrCap /\ data_top + len <= BfrCap /\ objs' = Append(objs, hdr)
          /\ data_top' = data_top + len /\ head_bot' = head_bot
          /\ managed_cap' = Wrap(managed_cap - len)
      BY <2>1 DEF StaticReserve, StaticFits
    <3>2. len \in Nat
      BY HeapAssumption
    <3>3. hdr \in Object /\ Footprint(hdr) = len
      BY <2>0, <3>2 DEF Object, Footprint
    <3> HIDE DEF hdr
    <3>4. /\ data_top + len \in Nat /\ data_top + len <= head_bot
          /\ (data_top + len) - head_bot = (data_top - head_bot) + Footprint(hdr)
      BY <2>0, <3>1, <3>2, <3>3
    <3>5. /\ ManagedCapCounts'
          /\ (Taken(objs)[Len(objs)] <= data_top + (BfrCap - head_bot))'
      BY <2>0, <3>1, <3>3, <3>4, AppendCap
    <3> QED
      BY <2>0, <3>1, <3>4, <3>5 DEF CapInv
  <2>2. ASSUME NEW cap \in Lens, ManagedReserve(cap) PROVE CapInv'
    <3> DEFINE hdr == [managed |-> TRUE, at |-> head_bot - HdrSize, data |-> data_top, cap |-> cap]
    <3>1. /\ data_top + cap + HdrSize <= head_bot /\ objs' = Append(objs, hdr)
          /\ data_top' = data_top + cap /\ head_bot' = head_bot - HdrSize
          /\ managed_cap' = Wrap(managed_cap - (cap + HdrSize))
      BY <2>2 DEF ManagedReserve, ReserveFits
    <3>2. cap \in Nat
      BY HeapAssumption
    <3>3. hdr \in Object /\ Footprint(hdr) = cap + HdrSize
      BY <2>0, <3>2 DEF Object, Footprint
    <3> HIDE DEF hdr
    <3>4. /\ data_top + cap \in Nat /\ head_bot - HdrSize \in Nat /\ data_top + cap <= head_bot - HdrSize
          /\ (data_top + cap) - (head_bot - HdrSize) = (data_top - head_bot) + Footprint(hdr)
      BY <2>0, <3>1, <3>2, <3>3
    <3>5. /\ ManagedCapCounts'
          /\ (Taken(objs)[Len(objs)] <= data_top + (BfrCap - head_bot))'
      BY <3>1, <3>3, <3>4, AppendCap
    <3> QED
      BY <2>0, <3>1, <3>4, <3>5 DEF CapInv
  <2>3. ASSUME NEW o \in DOMAIN objs, NEW newlen \in Lens, ManagedResize(o, newlen) PROVE CapInv'
    <3>1. newlen \in Nat /\ data_top' <= head_bot'
      BY <2>0, <2>3, HeapAssumption DEF ManagedResize
    <3> QED
      BY <2>0, <2>3, <3>1, ResizeCap DEF CapInv
  <2>4. ASSUME NEW o \in DOMAIN objs, NEW i \in Addr, NEW v \in Values, Write(o, i, v) PROVE CapInv'
    BY <2>0, <2>4 DEF CapInv, Write, ManagedCapCounts
  <2>5. CASE UNCHANGED vars
    BY <2>0, <2>5 DEF vars, CapInv, ManagedCapCounts
  <2> QED
    BY <2>1, <2>2, <2>3, <2>4, <2>5 DEF Next
<1>3. CapInv => ManagedCapCounts
  BY DEF CapInv
<1> QED
  BY <1>1, <1>2, <1>3, PTL DEF Spec

-----------------------------------------------------------------------------
(* The store *)

\* With the static areas first, mcheap.c implements the store of zero-filled,
\* growable, separate objects.  (Late static areas may lie under headers, whose
\* bytes mem does not hold.)
THEOREM Refinement ==
    ASSUME ~ LateStatic
    PROVE  Spec => ImplementsStore
<1>1. Init => Store!Init
  <2> SUFFICES ASSUME Init PROVE Contents = <<>>
    BY DEF Store!Init
  <2>1. objs = <<>>
    BY DEF Init
  <2> QED
    BY <2>1 DEF Contents
<1>2. FreshInv /\ FreshInv' /\ [Next]_vars => [Store!Next]_Contents
  <2> SUFFICES ASSUME FreshInv, FreshInv', [Next]_vars
               PROVE  Store!Next \/ Contents' = Contents
    OBVIOUS
  <2>1. LayoutInv'
    BY DEF FreshInv
  <2>2. CASE UNCHANGED vars
    BY <2>2 DEF vars, Contents
  <2>3. CASE Next
    BY <2>1, <2>3, StaticReserveStore, ManagedReserveStore, ManagedResizeStore, WriteStore DEF Next
  <2> QED
    BY <2>2, <2>3
<1> QED
  BY <1>1, <1>2, InitFresh, NextFresh, PTL DEF Spec, ImplementsStore, Store!Spec
=============================================================================
