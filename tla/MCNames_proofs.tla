--------------------------- MODULE MCNames_proofs ---------------------------
(***************************************************************************)
(* What the string table and the index of constants guarantee for every    *)
(* set of words, every hash function and every size of table, pool and     *)
(* array.  TableInv is the inductive invariant of the table: every word    *)
(* lies behind occupied slots only, counted from its home, and the probe   *)
(* of the running call has left only occupied slots that hold other words. *)
(* ConstInv is that of the constants: one entry for each, reached from its *)
(* hash over used slots, and always fewer of them than slots.              *)
(***************************************************************************)
EXTENDS MCNames, Integers, Sequences, FiniteSetTheorems, TLAPS

Entry == [word : Words, str : Nat]

Calls ==
    {NoCall}
        \cup [at : {"lookup"}, word : Words, idx : Slots]
        \cup [at : {"insert"}, word : Words, idx : Slots, str : Nat]

TableType ==
    /\ DOMAIN entries \subseteq Slots
    /\ entries \in [DOMAIN entries -> Entry]
    /\ entry_cnt = Cardinality(DOMAIN entries)
    /\ bfr_used \in 0 .. BfrCap
    /\ call \in Calls

\* The pool below bfr_used is handed out, a different place for each slot.
PoolApart ==
    /\ \A s \in DOMAIN entries : entries[s].str < bfr_used
    /\ \A s, t \in DOMAIN entries : entries[s].str = entries[t].str => s = t

OneSlotEach ==
    \A s, t \in DOMAIN entries : entries[s].word = entries[t].word => s = t

\* A name that was handed out is in the table.
NamesStored ==
    \A n \in names : \E s \in DOMAIN entries : n = [word |-> entries[s].word, str |-> entries[s].str]

\* The slots the running call has passed since it started, or started again.
Passed == Between(Home(call.word), call.idx)

LookupSound ==
    call.at = "lookup" =>
        \A t \in Passed : Occupied(t) /\ entries[t].word # call.word

InsertSound ==
    call.at = "insert" =>
        /\ \A t \in Passed : Occupied(t)
        /\ \A s \in DOMAIN entries : entries[s].word # call.word /\ entries[s].str # call.str
        /\ call.str < bfr_used

TableInv ==
    /\ TableType
    /\ PoolApart
    /\ OneSlotEach
    /\ NamesStored
    /\ WordsFound
    /\ LookupSound
    /\ InsertSound

-----------------------------------------------------------------------------
(* Arithmetic of the ring of slots *)

\* A home is a slot.
LEMMA HomeType ==
    ASSUME NEW word \in Words
    PROVE  Home(word) \in Slots
<1>1. Hash[word] \in Nat
  BY StrTblAssumption
<1> QED
  BY <1>1, StrTblAssumption, SMT DEF Home, Slots

\* The slot after a slot is a slot.
LEMMA NextType ==
    ASSUME NEW s \in Slots
    PROVE  NextSlot(s) \in Slots
BY StrTblAssumption, SMT DEF NextSlot, Slots

\* The way from one slot to another, with the turn at the last slot spelt out.
LEMMA DistCases ==
    ASSUME NEW f \in Slots, NEW s \in Slots
    PROVE  Dist(f, s) = IF s >= f THEN s - f ELSE s + EntryCap - f
<1>1. CASE s >= f
  <2>1. s + EntryCap - f \in EntryCap .. 2 * EntryCap - 1
    BY <1>1, StrTblAssumption DEF Slots
  <2>2. \A a \in EntryCap .. 2 * EntryCap - 1 : a % EntryCap = a - EntryCap
    BY StrTblAssumption, SMTT(30)
  <2> QED
    BY <1>1, <2>1, <2>2, StrTblAssumption DEF Dist, Slots
<1>2. CASE s < f
  <2>1. s + EntryCap - f \in 0 .. EntryCap - 1
    BY <1>2, StrTblAssumption DEF Slots
  <2>2. \A a \in 0 .. EntryCap - 1 : a % EntryCap = a
    BY StrTblAssumption, SMTT(30)
  <2> QED
    BY <1>2, <2>1, <2>2, StrTblAssumption DEF Dist, Slots
<1> QED
  BY <1>1, <1>2, StrTblAssumption DEF Slots

\* The slot after the last one is the first.
LEMMA NextCases ==
    ASSUME NEW s \in Slots
    PROVE  NextSlot(s) = IF s = EntryCap - 1 THEN 0 ELSE s + 1
<1>1. \A a \in 0 .. EntryCap - 1 : a % EntryCap = a
  BY StrTblAssumption, SMTT(30)
<1>2. EntryCap % EntryCap = 0
  BY StrTblAssumption, SMTT(30)
<1> QED
  BY <1>1, <1>2, StrTblAssumption DEF NextSlot, Slots

\* A probe that has come from s to the next slot has passed s, or is home again.
LEMMA BetweenNext ==
    ASSUME NEW f \in Slots, NEW s \in Slots
    PROVE  \A t \in Between(f, NextSlot(s)) : t \in Between(f, s) \/ t = s
<1> SUFFICES ASSUME NEW t \in Slots, Dist(f, t) < Dist(f, NextSlot(s)), t # s
             PROVE  Dist(f, t) < Dist(f, s)
  BY DEF Between
<1> DEFINE n == NextSlot(s)
<1>1. n \in Slots /\ n = IF s = EntryCap - 1 THEN 0 ELSE s + 1
  BY NextType, NextCases
<1>2. Dist(f, t) = IF t >= f THEN t - f ELSE t + EntryCap - f
  BY DistCases
<1>3. Dist(f, s) = IF s >= f THEN s - f ELSE s + EntryCap - f
  BY DistCases
<1>4. Dist(f, n) = IF n >= f THEN n - f ELSE n + EntryCap - f
  BY <1>1, DistCases
<1> HIDE DEF n
<1>5. Dist(f, t) < Dist(f, n)
  BY DEF n
<1> QED
  BY <1>1, <1>2, <1>3, <1>4, <1>5, StrTblAssumption DEF Slots

\* Of two slots one is on the way to the other.
LEMMA BetweenTotal ==
    ASSUME NEW f \in Slots, NEW s \in Slots, NEW t \in Slots, s # t
    PROVE  s \in Between(f, t) \/ t \in Between(f, s)
BY DistCases, StrTblAssumption DEF Between, Slots

\* A probe that stands at home has passed nothing.
LEMMA BetweenHome ==
    ASSUME NEW f \in Slots
    PROVE  Between(f, f) = {}
<1>1. Dist(f, f) = 0
  BY DistCases, StrTblAssumption DEF Slots
<1>2. \A t \in Slots : ~ (Dist(f, t) < 0)
  BY DistCases, StrTblAssumption DEF Slots
<1> QED
  BY <1>1, <1>2 DEF Between

-----------------------------------------------------------------------------
(* The actions *)

\* An empty table satisfies the invariant.
LEMMA InitTable == Init => TableInv
<1> SUFFICES ASSUME Init PROVE TableInv
  OBVIOUS
<1> USE DEF Init, StrInit, NoCall
<1>1. DOMAIN entries = {}
  OBVIOUS
<1>2. TableType
  BY <1>1, FS_EmptySet, StrTblAssumption DEF TableType, Calls
<1>3. /\ PoolApart /\ OneSlotEach /\ WordsFound /\ LookupSound /\ InsertSound
  BY <1>1 DEF PoolApart, OneSlotEach, WordsFound, LookupSound, InsertSound
<1>4. NamesStored
  BY DEF NamesStored
<1> QED
  BY <1>2, <1>3, <1>4 DEF TableInv

\* The fields of a running call.
LEMMA CallForms ==
    ASSUME TableType
    PROVE  /\ call.at \in {"idle", "lookup", "insert"}
           /\ call.at # "idle" => call.word \in Words /\ call.idx \in Slots
           /\ call.at = "lookup" => call \in [at : {"lookup"}, word : Words, idx : Slots]
           /\ call.at = "insert" =>
                /\ call \in [at : {"insert"}, word : Words, idx : Slots, str : Nat]
                /\ call.str \in Nat
BY DEF TableType, Calls, NoCall

\* The fields of an entry.
LEMMA EntryFields ==
    ASSUME TableType, NEW s \in DOMAIN entries
    PROVE  entries[s].word \in Words /\ entries[s].str \in Nat /\ s \in Slots
BY DEF TableType, Entry

\* A call that begins stands at home.
LEMMA InternTable ==
    ASSUME TableInv, NEW word \in Words, Intern(word)
    PROVE  TableInv'
<1> USE DEF TableInv, Intern
<1>1. call' = [at |-> "lookup", word |-> word, idx |-> Home(word)] /\ Home(word) \in Slots
  BY HomeType DEF Lookup
<1>2. TableType'
  BY <1>1 DEF TableType, Calls, Slots
<1>3. PoolApart' /\ OneSlotEach' /\ NamesStored' /\ WordsFound'
  BY DEF PoolApart, OneSlotEach, NamesStored, WordsFound, Occupied
<1>4. LookupSound'
  <2>1. Passed' = {}
    BY <1>1, BetweenHome DEF Passed
  <2> QED
    BY <2>1 DEF LookupSound
<1>5. InsertSound'
  BY <1>1 DEF InsertSound
<1> QED
  BY <1>2, <1>3, <1>4, <1>5

\* A lookup that succeeds hands out what is in the table.
LEMMA FoundTable ==
    ASSUME TableInv, Found
    PROVE  TableInv'
<1> USE DEF TableInv, Found
<1>1. call' = [at |-> "idle"]
  BY DEF NoCall
<1>2. TableType'
  BY <1>1 DEF TableType, Calls, NoCall
<1>3. PoolApart' /\ OneSlotEach' /\ WordsFound'
  BY DEF PoolApart, OneSlotEach, WordsFound, Occupied
<1>4. NamesStored'
  <2>1. call.idx \in DOMAIN entries /\ entries[call.idx].word = call.word
    BY DEF Occupied, Matches
  <2> QED
    BY <2>1 DEF NamesStored
<1>5. LookupSound' /\ InsertSound'
  BY <1>1 DEF LookupSound, InsertSound
<1> QED
  BY <1>2, <1>3, <1>4, <1>5

\* The slot that is passed is occupied, and holds another word.
LEMMA ProbeOnTable ==
    ASSUME TableInv, ProbeOn
    PROVE  TableInv'
<1> USE DEF TableInv, ProbeOn
<1>1. call.word \in Words /\ call.idx \in Slots /\ NextSlot(call.idx) \in Slots
  BY CallForms, NextType
<1>2. /\ call'.at = call.at
      /\ call'.idx = NextSlot(call.idx)
      /\ call'.word = call.word
      /\ call.at = "insert" => call'.str = call.str
  BY CallForms
<1>3. TableType'
  <2>1. call' \in Calls
    BY CallForms, <1>1 DEF Calls
  <2> QED
    BY <2>1 DEF TableType, Calls, Slots
<1>4. PoolApart' /\ OneSlotEach' /\ NamesStored' /\ WordsFound'
  BY DEF PoolApart, OneSlotEach, NamesStored, WordsFound, Occupied
<1>5. \A t \in Passed' : t \in Passed \/ t = call.idx
  BY <1>1, <1>2, HomeType, BetweenNext DEF Passed
<1>6. LookupSound'
  BY <1>2, <1>5 DEF LookupSound, Occupied, Matches
<1>7. InsertSound'
  BY <1>2, <1>5 DEF InsertSound, Occupied
<1> QED
  BY <1>3, <1>4, <1>6, <1>7

\* A call that is refused leaves the table alone.
LEMMA RefuseTable ==
    ASSUME TableInv, Refuse
    PROVE  TableInv'
<1> USE DEF TableInv, Refuse
<1>1. call' = [at |-> "idle"]
  BY DEF NoCall
<1>2. TableType'
  BY <1>1 DEF TableType, Calls, NoCall
<1>3. PoolApart' /\ OneSlotEach' /\ NamesStored' /\ WordsFound'
  BY DEF PoolApart, OneSlotEach, NamesStored, WordsFound, Occupied
<1>4. LookupSound' /\ InsertSound'
  BY <1>1 DEF LookupSound, InsertSound
<1> QED
  BY <1>2, <1>3, <1>4

\* A lookup that came to an empty slot has seen every slot its word could be in.
LEMMA NotThere ==
    ASSUME TableInv, call.at = "lookup", ~ Occupied(call.idx)
    PROVE  \A s \in DOMAIN entries : entries[s].word # call.word
<1> USE DEF TableInv
<1> SUFFICES ASSUME NEW s \in DOMAIN entries, entries[s].word = call.word
             PROVE  FALSE
  OBVIOUS
<1> DEFINE home == Home(call.word)
<1>1. s \in Slots /\ call.idx \in Slots /\ home \in Slots /\ s # call.idx
  BY CallForms, EntryFields, HomeType DEF Occupied
<1>2. call.idx \notin Between(home, s)
  BY <1>1 DEF WordsFound
<1>3. s \notin Between(home, call.idx)
  BY DEF LookupSound, Passed
<1> HIDE DEF home
<1> QED
  BY <1>1, <1>2, <1>3, BetweenTotal

\* The pool grows by the size of the new word, behind all others.
LEMMA CopyTable ==
    ASSUME TableInv, Copy
    PROVE  TableInv'
<1> USE DEF TableInv, Copy
<1>1. call.word \in Words /\ Home(call.word) \in Slots
  BY CallForms, HomeType
<1>2. /\ Size[call.word] \in Nat /\ Size[call.word] > 0
      /\ bfr_used' = bfr_used + Size[call.word]
      /\ bfr_used \in Nat
      /\ bfr_used' \in 0 .. BfrCap
      /\ bfr_used < bfr_used'
  BY <1>1, StrTblAssumption DEF PoolFits, TableType
<1>3. call' = [at |-> "insert", word |-> call.word, idx |-> Home(call.word), str |-> bfr_used]
  BY DEF Insert, InsertAt
<1>4. TableType'
  <2>1. call' \in Calls
    BY <1>1, <1>2, <1>3 DEF Calls
  <2> QED
    BY <1>2, <2>1 DEF TableType, Calls, Slots
<1>5. \A s \in DOMAIN entries : entries[s].str < bfr_used /\ entries[s].str \in Nat
  BY EntryFields DEF PoolApart
<1>6. PoolApart'
  BY <1>2, <1>5 DEF PoolApart
<1>7. OneSlotEach' /\ NamesStored' /\ WordsFound'
  BY DEF OneSlotEach, NamesStored, WordsFound, Occupied
<1>8. LookupSound'
  BY <1>3 DEF LookupSound
<1>9. InsertSound'
  <2>1. Passed' = {}
    BY <1>1, <1>3, BetweenHome DEF Passed
  <2>2. \A s \in DOMAIN entries : entries[s].word # call.word
    BY NotThere
  <2>3. \A s \in DOMAIN entries : entries[s].str # bfr_used
    BY <1>2, <1>5
  <2> QED
    BY <1>2, <1>3, <2>1, <2>2, <2>3 DEF InsertSound
<1> QED
  BY <1>4, <1>6, <1>7, <1>8, <1>9

\* The new entry is reached from its home over occupied slots.
LEMMA PlaceTable ==
    ASSUME TableInv, Place
    PROVE  TableInv'
<1> USE DEF TableInv, Place
<1> DEFINE i == call.idx
           e == [word |-> call.word, str |-> call.str]
<1>1. /\ call.word \in Words /\ i \in Slots /\ call.str \in Nat
      /\ i \notin DOMAIN entries
      /\ e \in Entry
  BY CallForms DEF Occupied, Entry
<1>2. call' = [at |-> "idle"]
  BY DEF NoCall
<1>3. /\ DOMAIN entries' = DOMAIN entries \cup {i}
      /\ entries'[i] = e
      /\ \A s \in DOMAIN entries : entries'[s] = entries[s]
  BY <1>1
<1>4. TableType'
  <2>1. IsFiniteSet(Slots)
    BY FS_Interval, StrTblAssumption DEF Slots
  <2>2. IsFiniteSet(DOMAIN entries)
    BY <2>1, FS_Subset DEF TableType
  <2>3. Cardinality(DOMAIN entries') = Cardinality(DOMAIN entries) + 1
    BY <1>1, <1>3, <2>2, FS_AddElement
  <2>4. entries' \in [DOMAIN entries' -> Entry]
    BY <1>1, <1>3 DEF TableType
  <2>5. call' \in Calls
    BY <1>2 DEF Calls, NoCall
  <2> QED
    BY <1>1, <1>3, <2>3, <2>4, <2>5 DEF TableType, Calls, Slots
<1>5. PoolApart'
  BY <1>3 DEF PoolApart, InsertSound
<1>6. OneSlotEach'
  BY <1>3 DEF OneSlotEach, InsertSound
<1>7. NamesStored'
  <2> SUFFICES ASSUME NEW n \in names'
               PROVE  \E s \in DOMAIN entries' :
                          n = [word |-> entries'[s].word, str |-> entries'[s].str]
    BY DEF NamesStored
  <2>1. CASE n \in names
    BY <1>3, <2>1 DEF NamesStored
  <2>2. CASE n = e
    BY <1>3, <2>2
  <2> QED
    BY <2>1, <2>2
<1>8. WordsFound'
  <2> SUFFICES ASSUME NEW s \in DOMAIN entries', NEW t \in Between(Home(entries'[s].word), s)
               PROVE  t \in DOMAIN entries'
    BY DEF WordsFound, Occupied
  <2>1. CASE s \in DOMAIN entries
    BY <1>3, <2>1 DEF WordsFound, Occupied
  <2>2. CASE s = i
    BY <1>3, <2>2 DEF InsertSound, Passed, Occupied
  <2> QED
    BY <1>3, <2>1, <2>2
<1>9. LookupSound' /\ InsertSound'
  BY <1>2 DEF LookupSound, InsertSound
<1> QED
  BY <1>4, <1>5, <1>6, <1>7, <1>8, <1>9

\* Every step keeps the invariant; constants do not touch the table.
LEMMA NextTable == TableInv /\ [Next]_vars => TableInv'
<1> SUFFICES ASSUME TableInv, [Next]_vars PROVE TableInv'
  OBVIOUS
<1>1. CASE \E word \in Words : Intern(word)
  BY <1>1, InternTable
<1>2. CASE StrStep
  BY <1>2, FoundTable, ProbeOnTable, RefuseTable, CopyTable, PlaceTable DEF StrStep
<1>3. CASE UNCHANGED strvars
  BY <1>3 DEF strvars, TableInv, TableType, PoolApart, OneSlotEach, NamesStored, WordsFound,
              LookupSound, InsertSound, Passed, Occupied, Calls, Slots
<1> QED
  BY <1>1, <1>2, <1>3 DEF Next, StrNext, ConstName, ConstInt, vars

-----------------------------------------------------------------------------
(* The theorems *)

\* The invariant of the string table, in any program that interns one name at a
\* time (mcstrtbl.c:28-92).
THEOREM TableCorrect == Spec => []TableInv
<1> QED
  BY InitTable, NextTable, PTL DEF Spec

\* The counters of mcstrtbl_intern count the entries, and the pool never overflows.
THEOREM TableTypeCorrect == Spec => []StrTypeOK
<1>1. TableInv => StrTypeOK
  BY CallForms DEF TableInv, TableType, StrTypeOK
<1> QED
  BY <1>1, TableCorrect, PTL

\* Names may be compared by their pointers, for any hash function.
THEOREM OneNameOnePointer == Spec => []NamesAreOne
<1>1. TableInv => NamesAreOne
  <2> SUFFICES ASSUME TableInv, NEW n \in names, NEW m \in names
               PROVE  n.word = m.word <=> n.str = m.str
    BY DEF NamesAreOne
  <2>1. PICK s \in DOMAIN entries : n = [word |-> entries[s].word, str |-> entries[s].str]
    BY DEF TableInv, NamesStored
  <2>2. PICK t \in DOMAIN entries : m = [word |-> entries[t].word, str |-> entries[t].str]
    BY DEF TableInv, NamesStored
  <2> QED
    BY <2>1, <2>2 DEF TableInv, OneSlotEach, PoolApart
<1> QED
  BY <1>1, TableCorrect, PTL

\* Every word that was stored is found by a later lookup.
THEOREM StoredIsFound == Spec => []WordsFound
<1>1. TableInv => WordsFound
  BY DEF TableInv
<1> QED
  BY <1>1, TableCorrect, PTL

-----------------------------------------------------------------------------
(***************************************************************************)
(* The constants.  Every entry of the index is reached from its hash over  *)
(* slots in use, each constant has one entry, and a slot is free: so every *)
(* search ends, at the constant or at the free slot its entry would take.  *)
(***************************************************************************)
Consts == Words \cup Ints
IndexEntry == [hash : Nat, idx : Nat]

Reached(index, cap, s) ==
    \E k \in 0 .. cap - 1 :
        /\ K!ProbeSlot(cap, index[s].hash, k) = s
        /\ \A j \in 0 .. k - 1 : K!ProbeSlot(cap, index[s].hash, j) \in DOMAIN index

IndexOK(index, cap) ==
    /\ cap \in Nat \ {0}
    /\ DOMAIN index \subseteq 0 .. cap - 1
    /\ \A s \in DOMAIN index : index[s] \in IndexEntry /\ Reached(index, cap, s)
    /\ \A s, t \in DOMAIN index : index[s].idx = index[t].idx => s = t

\* The index holds the constants, one entry for each.
Indexes(index) ==
    /\ \A s \in DOMAIN index :
          /\ index[s].idx + 1 \in DOMAIN constants
          /\ index[s].hash = KHash[constants[index[s].idx + 1]]
    /\ \A i \in DOMAIN constants : \E s \in DOMAIN index : index[s].idx = i - 1
    /\ Cardinality(DOMAIN index) = Len(constants)

LoadsSound ==
    \A a \in loads :
        a.idx \in Nat /\ a.idx + 1 \in DOMAIN constants /\ constants[a.idx + 1] = a.value

ConstInv ==
    /\ constants \in Seq(Consts)
    /\ \A i, j \in DOMAIN constants : constants[i] = constants[j] => i = j
    /\ const_index_cap \in Nat
    /\ const_index_cap = 0 => constants = <<>>
    /\ const_index_cap # 0 =>
          /\ IndexOK(const_index, const_index_cap)
          /\ Indexes(const_index)
          /\ Len(constants) < const_index_cap
    /\ LoadsSound

\* One round of the loop of const_index_grow.
RehashStep(par, r, n) ==
    IF n - 1 \in DOMAIN par[1] THEN K!InsertRaw(r, par[2], par[1][n - 1]) ELSE r
RehashRun == INSTANCE NatSteps WITH Op <- RehashStep

\* Sums of two slots, modulo the size of the index.
LEMMA ModSlot ==
    ASSUME NEW cap \in Nat \ {0}, NEW h \in 0 .. cap - 1, NEW k \in 0 .. cap - 1
    PROVE  (h + k) % cap = IF h + k < cap THEN h + k ELSE h + k - cap
<1>1. CASE h + k < cap
  <2>1. \A a \in 0 .. cap - 1 : a % cap = a
    BY SMTT(30)
  <2> QED
    BY <1>1, <2>1
<1>2. CASE h + k >= cap
  <2>1. \A a \in cap .. 2 * cap - 1 : a % cap = a - cap
    BY SMTT(30)
  <2>2. h + k \in cap .. 2 * cap - 1
    BY <1>2
  <2> QED
    BY <1>2, <2>1, <2>2
<1> QED
  BY <1>1, <1>2

\* A probe goes round all slots.
LEMMA ProbeAll ==
    ASSUME NEW cap \in Nat \ {0}, NEW hash \in Nat
    PROVE  /\ \A k \in 0 .. cap - 1 : K!ProbeSlot(cap, hash, k) \in 0 .. cap - 1
           /\ \A s \in 0 .. cap - 1 : \E k \in 0 .. cap - 1 : K!ProbeSlot(cap, hash, k) = s
<1> DEFINE h == hash % cap
<1>1. h \in 0 .. cap - 1
  OBVIOUS
<1>2. \A k : K!ProbeSlot(cap, hash, k) = (h + k) % cap
  BY DEF K!ProbeSlot
<1> HIDE DEF h
<1>3. \A k \in 0 .. cap - 1 :
         K!ProbeSlot(cap, hash, k) = IF h + k < cap THEN h + k ELSE h + k - cap
  BY <1>1, <1>2, ModSlot
<1>4. \A k \in 0 .. cap - 1 : K!ProbeSlot(cap, hash, k) \in 0 .. cap - 1
  BY <1>1, <1>3
<1>5. ASSUME NEW s \in 0 .. cap - 1
      PROVE  \E k \in 0 .. cap - 1 : K!ProbeSlot(cap, hash, k) = s
  <2>1. CASE s >= h
    <3>1. s - h \in 0 .. cap - 1 /\ h + (s - h) < cap /\ h + (s - h) = s
      BY <1>1, <2>1
    <3> QED
      BY <1>3, <3>1
  <2>2. CASE s < h
    <3>1. s - h + cap \in 0 .. cap - 1 /\ ~ (h + (s - h + cap) < cap) /\ h + (s - h + cap) - cap = s
      BY <1>1, <2>2
    <3> QED
      BY <1>3, <3>1
  <2> QED
    BY <1>1, <2>1, <2>2
<1> QED
  BY <1>4, <1>5

\* Where a loop ends that has a slot to end at.
LEMMA FirstStopIs ==
    ASSUME NEW cap \in Nat \ {0}, NEW hash \in Nat, NEW stops \in SUBSET (0 .. cap - 1), stops # {}
    PROVE  \E k \in 0 .. cap - 1 :
              /\ K!FirstStop(cap, hash, stops) = K!ProbeSlot(cap, hash, k)
              /\ K!ProbeSlot(cap, hash, k) \in stops
              /\ \A j \in 0 .. k - 1 : K!ProbeSlot(cap, hash, j) \notin stops
<1> DEFINE ks == {k \in 0 .. cap - 1 : K!ProbeSlot(cap, hash, k) \in stops}
           m  == CHOOSE k \in ks : \A j \in ks : k <= j
<1>1. K!FirstStop(cap, hash, stops) = K!ProbeSlot(cap, hash, m)
  BY DEF K!FirstStop
<1>2. ks \in SUBSET Nat /\ ks # {}
  <2>1. PICK s \in stops : s \in 0 .. cap - 1
    OBVIOUS
  <2>2. PICK k \in 0 .. cap - 1 : K!ProbeSlot(cap, hash, k) = s
    BY <2>1, ProbeAll
  <2> QED
    BY <2>1, <2>2
<1>3. \A k : k \in ks <=> k \in 0 .. cap - 1 /\ K!ProbeSlot(cap, hash, k) \in stops
  OBVIOUS
<1> HIDE DEF ks
<1>4. \E k \in ks : \A j \in ks : k <= j
  BY <1>2, RehashRun!LeastNat
<1>5. m \in ks /\ \A j \in ks : m <= j
  BY <1>4
<1> HIDE DEF m
<1>6. m \in 0 .. cap - 1 /\ K!ProbeSlot(cap, hash, m) \in stops
  BY <1>3, <1>5
<1>7. ASSUME NEW j \in 0 .. m - 1 PROVE K!ProbeSlot(cap, hash, j) \notin stops
  <2>1. j \in 0 .. cap - 1 /\ ~ (m <= j)
    BY <1>6
  <2> QED
    BY <1>3, <1>5, <2>1
<1> QED
  BY <1>1, <1>6, <1>7

\* An index with fewer entries than slots has an empty slot.
LEMMA SlotLeft ==
    ASSUME NEW index, NEW cap, IndexOK(index, cap), Cardinality(DOMAIN index) < cap
    PROVE  K!Empty(index, cap) # {} /\ IsFiniteSet(DOMAIN index)
<1>1. cap \in Nat \ {0} /\ DOMAIN index \subseteq 0 .. cap - 1
  BY DEF IndexOK
<1>2. IsFiniteSet(0 .. cap - 1) /\ Cardinality(0 .. cap - 1) = cap
  BY <1>1, FS_Interval
<1>3. IsFiniteSet(DOMAIN index)
  BY <1>1, <1>2, FS_Subset
<1>4. DOMAIN index # 0 .. cap - 1
  BY <1>1, <1>2
<1> QED
  BY <1>1, <1>3, <1>4 DEF K!Empty

Unindexed(index, entry) == \A s \in DOMAIN index : index[s].idx # entry.idx
Inserted(new, index, entry) ==
    \E slot : /\ slot \notin DOMAIN index
              /\ DOMAIN new = DOMAIN index \cup {slot}
              /\ new[slot] = entry
              /\ \A s \in DOMAIN index : new[s] = index[s]

\* const_index_insert_raw takes the first empty slot on the way.
LEMMA InsertIs ==
    ASSUME NEW index, NEW cap, IndexOK(index, cap), Cardinality(DOMAIN index) < cap,
           NEW entry \in IndexEntry, Unindexed(index, entry)
    PROVE  /\ IndexOK(K!InsertRaw(index, cap, entry), cap)
           /\ Cardinality(DOMAIN K!InsertRaw(index, cap, entry)) = Cardinality(DOMAIN index) + 1
           /\ Inserted(K!InsertRaw(index, cap, entry), index, entry)
<1> DEFINE new  == K!InsertRaw(index, cap, entry)
           free == K!Empty(index, cap)
           slot == K!FirstStop(cap, entry.hash, free)
<1>1. cap \in Nat \ {0} /\ DOMAIN index \subseteq 0 .. cap - 1 /\ entry.hash \in Nat
  BY DEF IndexOK, IndexEntry
<1>2. free \in SUBSET (0 .. cap - 1) /\ free # {} /\ IsFiniteSet(DOMAIN index)
      /\ \A s \in 0 .. cap - 1 : s \in free <=> s \notin DOMAIN index
  <2>1. free # {} /\ IsFiniteSet(DOMAIN index)
    BY SlotLeft
  <2> QED
    BY <2>1 DEF K!Empty
<1>3. new = [s \in DOMAIN index \cup {slot} |-> IF s = slot THEN entry ELSE index[s]]
  BY DEF K!InsertRaw
<1> HIDE DEF free
<1>4. PICK k \in 0 .. cap - 1 :
              /\ slot = K!ProbeSlot(cap, entry.hash, k)
              /\ slot \in free
              /\ \A j \in 0 .. k - 1 : K!ProbeSlot(cap, entry.hash, j) \notin free
  BY <1>1, <1>2, FirstStopIs
<1>5. \A j \in 0 .. k - 1 : K!ProbeSlot(cap, entry.hash, j) \in DOMAIN index
  <2> TAKE j \in 0 .. k - 1
  <2>1. j \in 0 .. cap - 1
    BY <1>1
  <2> QED
    BY <1>1, <1>2, <1>4, <2>1, ProbeAll
<1> HIDE DEF new, slot
<1>6. /\ slot \in 0 .. cap - 1 /\ slot \notin DOMAIN index
      /\ DOMAIN new = DOMAIN index \cup {slot}
      /\ new[slot] = entry
      /\ \A s \in DOMAIN index : new[s] = index[s]
  BY <1>2, <1>3, <1>4
<1>7. \A s \in DOMAIN index : Reached(new, cap, s)
  BY <1>6 DEF IndexOK, Reached
<1>8. Reached(new, cap, slot)
  BY <1>4, <1>5, <1>6 DEF Reached
<1>9. IndexOK(new, cap)
  <2>1. DOMAIN new \subseteq 0 .. cap - 1
    BY <1>1, <1>6
  <2>2. \A s \in DOMAIN new : new[s] \in IndexEntry /\ Reached(new, cap, s)
    BY <1>6, <1>7, <1>8 DEF IndexOK
  <2>3. \A s, t \in DOMAIN new : new[s].idx = new[t].idx => s = t
    BY <1>6 DEF IndexOK, Unindexed
  <2> QED
    BY <1>1, <2>1, <2>2, <2>3 DEF IndexOK
<1>10. Cardinality(DOMAIN new) = Cardinality(DOMAIN index) + 1
  BY <1>2, <1>6, FS_AddElement
<1> QED
  BY <1>6, <1>9, <1>10 DEF new, Inserted

\* What the larger index holds when the first n slots have been put in again.
Rehashed(r, cap, n) ==
    /\ IndexOK(r, cap)
    /\ \A s \in DOMAIN r : \E t \in DOMAIN const_index : t < n /\ r[s] = const_index[t]
    /\ \A t \in DOMAIN const_index : t < n => \E s \in DOMAIN r : r[s] = const_index[t]
    /\ Cardinality(DOMAIN r) = Cardinality({t \in DOMAIN const_index : t < n})

\* One slot more.
LEMMA RehashOne ==
    ASSUME IndexOK(const_index, const_index_cap), NEW cap \in Nat, const_index_cap < cap,
           NEW n \in Nat, n < const_index_cap, NEW r, Rehashed(r, cap, n)
    PROVE  Rehashed(RehashStep(<<const_index, cap>>, r, n + 1), cap, n + 1)
<1> DEFINE new     == RehashStep(<<const_index, cap>>, r, n + 1)
           old(m)  == {t \in DOMAIN const_index : t < m}
<1>1. new = IF n \in DOMAIN const_index THEN K!InsertRaw(r, cap, const_index[n]) ELSE r
  <2>1. (n + 1) - 1 = n
    OBVIOUS
  <2> QED
    BY <2>1 DEF RehashStep
<1>2. /\ \A t \in DOMAIN const_index : t \in Nat /\ const_index[t] \in IndexEntry
      /\ const_index_cap \in Nat /\ DOMAIN const_index \subseteq 0 .. const_index_cap - 1
  BY DEF IndexOK
<1>3. IsFiniteSet(old(n)) /\ Cardinality(old(n)) \in Nat /\ Cardinality(old(n)) <= n
  <2>1. old(n) \subseteq 0 .. n - 1
    BY <1>2
  <2> HIDE DEF old
  <2>2. IsFiniteSet(0 .. n - 1) /\ Cardinality(0 .. n - 1) = n
    <3>1. 0 \in Int /\ n - 1 \in Int /\ (n - 1) - 0 + 1 = n /\ (0 > n - 1 => n = 0)
      OBVIOUS
    <3> QED
      BY <3>1, FS_Interval
  <2> QED
    BY <2>1, <2>2, FS_Subset, FS_CardinalityType
<1>4. \A t \in DOMAIN const_index : t < n + 1 <=> t < n \/ t = n
  BY <1>2
<1> HIDE DEF new
<1>5. CASE n \notin DOMAIN const_index
  <2>1. old(n + 1) = old(n)
    BY <1>4, <1>5
  <2> HIDE DEF old
  <2>2. new = r
    BY <1>1, <1>5
  <2> USE DEF old
  <2> QED
    BY <1>4, <1>5, <2>1, <2>2 DEF Rehashed, new
<1>6. CASE n \in DOMAIN const_index
  <2> DEFINE entry == const_index[n]
  <2>1. new = K!InsertRaw(r, cap, entry) /\ entry \in IndexEntry
    BY <1>1, <1>2, <1>6
  <2>2. IndexOK(r, cap) /\ Cardinality(DOMAIN r) < cap
    <3>1. IndexOK(r, cap) /\ Cardinality(DOMAIN r) = Cardinality(old(n))
      BY DEF Rehashed
    <3> HIDE DEF old
    <3> QED
      BY <1>2, <1>3, <3>1
  <2>3. \A s \in DOMAIN r : r[s].idx # entry.idx
    <3> TAKE s \in DOMAIN r
    <3>1. PICK t \in DOMAIN const_index : t < n /\ r[s] = const_index[t]
      BY DEF Rehashed
    <3>2. t # n
      BY <1>2, <3>1
    <3> QED
      BY <1>6, <3>1, <3>2 DEF IndexOK
  <2> HIDE DEF entry
  <2>4. /\ IndexOK(new, cap)
        /\ Cardinality(DOMAIN new) = Cardinality(DOMAIN r) + 1
        /\ Inserted(new, r, entry)
    BY <2>1, <2>2, <2>3, InsertIs DEF Unindexed
  <2>5. PICK slot : /\ slot \notin DOMAIN r
                    /\ DOMAIN new = DOMAIN r \cup {slot}
                    /\ new[slot] = entry
                    /\ \A s \in DOMAIN r : new[s] = r[s]
    BY <2>4 DEF Inserted
  <2>6. entry = const_index[n]
    BY DEF entry
  <2>7. \A s \in DOMAIN new : \E t \in DOMAIN const_index : t < n + 1 /\ new[s] = const_index[t]
    <3> TAKE s \in DOMAIN new
    <3>1. CASE s = slot
      BY <1>4, <1>6, <2>5, <2>6, <3>1
    <3>2. CASE s \in DOMAIN r
      <4>1. PICK t \in DOMAIN const_index : t < n /\ r[s] = const_index[t]
        BY <3>2 DEF Rehashed
      <4> QED
        BY <1>4, <2>5, <3>2, <4>1
    <3> QED
      BY <2>5, <3>1, <3>2
  <2>8. \A t \in DOMAIN const_index : t < n + 1 => \E s \in DOMAIN new : new[s] = const_index[t]
    <3> SUFFICES ASSUME NEW t \in DOMAIN const_index, t < n + 1
                 PROVE  \E s \in DOMAIN new : new[s] = const_index[t]
      OBVIOUS
    <3>1. CASE t = n
      BY <2>5, <2>6, <3>1
    <3>2. CASE t < n
      <4>1. PICK s \in DOMAIN r : r[s] = const_index[t]
        BY <3>2 DEF Rehashed
      <4> QED
        BY <2>5, <4>1
    <3> QED
      BY <1>4, <3>1, <3>2
  <2>9. Cardinality(DOMAIN new) = Cardinality(old(n + 1))
    <3>1. old(n + 1) = old(n) \cup {n} /\ n \notin old(n)
      BY <1>4, <1>6
    <3>2. Cardinality(DOMAIN r) = Cardinality(old(n))
      BY DEF Rehashed
    <3> HIDE DEF old
    <3>3. Cardinality(old(n + 1)) = Cardinality(old(n)) + 1
      BY <1>3, <3>1, FS_AddElement
    <3> QED
      BY <2>4, <3>2, <3>3
  <2> QED
    BY <2>4, <2>7, <2>8, <2>9 DEF Rehashed, new
<1> QED
  BY <1>5, <1>6

\* const_index_grow: the entries of the old index, and no others.
LEMMA RehashIs ==
    ASSUME IndexOK(const_index, const_index_cap), NEW cap \in Nat, const_index_cap < cap
    PROVE  Rehashed(K!Rehash(cap), cap, const_index_cap)
<1> DEFINE par  == <<const_index, cap>>
           r    == RehashRun!Steps(par, <<>>)
           Good == {n \in Nat : n <= const_index_cap => Rehashed(r[n], cap, n)}
<1>1. K!Rehash(cap) = r[const_index_cap]
  <2>1. par[1] = const_index /\ par[2] = cap
    OBVIOUS
  <2> HIDE DEF par
  <2>2. K!RehashSteps(cap) = r
    BY <2>1, Zenon DEF K!RehashSteps, RehashRun!Steps, RehashStep
  <2> QED
    BY <2>2 DEF K!Rehash
<1>2. r[0] = <<>> /\ \A n \in Nat : r[n + 1] = RehashStep(par, r[n], n + 1)
  BY RehashRun!StepsUnfold, Zenon
<1>3. const_index_cap \in Nat /\ DOMAIN const_index \subseteq 0 .. const_index_cap - 1
  BY DEF IndexOK
<1> HIDE DEF r
<1>4. 0 \in Good
  <2>1. \A s : s = <<>> => DOMAIN s = {}
    OBVIOUS
  <2>2. DOMAIN r[0] = {}
    BY <1>2, <2>1, Zenon
  <2>3. {t \in DOMAIN const_index : t < 0} = {} /\ cap \in Nat \ {0}
    BY <1>3
  <2>4. Rehashed(r[0], cap, 0)
    BY <2>2, <2>3 DEF Rehashed, IndexOK
  <2> QED
    BY <2>4
<1>5. ASSUME NEW n \in Nat, n \in Good PROVE n + 1 \in Good
  <2> SUFFICES ASSUME n + 1 <= const_index_cap PROVE Rehashed(r[n + 1], cap, n + 1)
    OBVIOUS
  <2>1. n < const_index_cap /\ Rehashed(r[n], cap, n)
    BY <1>3, <1>5
  <2>2. r[n + 1] = RehashStep(<<const_index, cap>>, r[n], n + 1)
    BY <1>2
  <2> HIDE DEF Good
  <2> QED
    BY <2>1, <2>2, RehashOne
<1> HIDE DEF Good
<1>6. const_index_cap \in Good
  BY <1>3, <1>4, <1>5, RehashRun!Induct
<1> USE DEF Good
<1> QED
  BY <1>1, <1>3, <1>6

\* The index a call searches: it holds every constant, and has room for one more.
LEMMA EnsuredIs ==
    ASSUME ConstInv
    PROVE  LET e == K!Ensured IN
           /\ IndexOK(e.index, e.cap)
           /\ Indexes(e.index)
           /\ Len(constants) + 1 < e.cap
<1> DEFINE e == K!Ensured
<1>1. Len(constants) \in Nat /\ const_index_cap \in Nat
  BY DEF ConstInv
<1>2. CASE const_index_cap = 0
  <2>1. e = [index |-> <<>>, cap |-> IndexInit] /\ constants = <<>>
    BY <1>2 DEF K!Ensured, ConstInv
  <2>2. e.index = <<>> /\ e.cap = IndexInit
    BY <2>1
  <2> HIDE DEF e
  <2>3. \A s : s = <<>> => DOMAIN s = {} /\ Len(s) = 0
    OBVIOUS
  <2>4. DOMAIN e.index = {} /\ DOMAIN constants = {} /\ Len(constants) = 0
    BY <2>1, <2>2, <2>3, Zenon
  <2>5. Cardinality(DOMAIN e.index) = 0
    BY <2>4, FS_EmptySet
  <2>6. e.cap \in Nat \ {0} /\ 1 < e.cap
    BY <2>2, NamesAssumption
  <2> QED
    BY <2>4, <2>5, <2>6 DEF IndexOK, Indexes, e
<1>3. CASE const_index_cap # 0 /\ ~ K!MustGrow
  <2>1. e = [index |-> const_index, cap |-> const_index_cap]
    BY <1>3 DEF K!Ensured
  <2>2. e.index = const_index /\ e.cap = const_index_cap
    BY <2>1
  <2> HIDE DEF e
  <2>3. Len(constants) + 1 < const_index_cap
    BY <1>1, <1>3 DEF K!MustGrow
  <2> QED
    BY <1>3, <2>2, <2>3 DEF ConstInv, e
<1>4. CASE const_index_cap # 0 /\ K!MustGrow
  <2> DEFINE cap == 2 * const_index_cap
  <2>1. e = [index |-> K!Rehash(cap), cap |-> cap]
    BY <1>4 DEF K!Ensured
  <2>2. e.index = K!Rehash(cap) /\ e.cap = cap
    BY <2>1
  <2>3. /\ IndexOK(const_index, const_index_cap) /\ Indexes(const_index)
        /\ Len(constants) < const_index_cap
    BY <1>4 DEF ConstInv
  <2>4. cap \in Nat /\ const_index_cap < cap /\ Len(constants) + 1 < cap
    BY <1>1, <1>4, <2>3
  <2> HIDE DEF cap, e
  <2>5. Rehashed(e.index, cap, const_index_cap)
    BY <2>2, <2>3, <2>4, RehashIs
  <2>6. \A t \in DOMAIN const_index : t < const_index_cap
    BY <1>1, <2>3 DEF IndexOK
  <2>7. {t \in DOMAIN const_index : t < const_index_cap} = DOMAIN const_index
    BY <2>6
  <2>8. Cardinality(DOMAIN e.index) = Len(constants)
    BY <2>3, <2>5, <2>7 DEF Rehashed, Indexes
  <2>9. \A s \in DOMAIN e.index :
          /\ e.index[s].idx + 1 \in DOMAIN constants
          /\ e.index[s].hash = KHash[constants[e.index[s].idx + 1]]
    <3> TAKE s \in DOMAIN e.index
    <3>1. PICK t \in DOMAIN const_index : e.index[s] = const_index[t]
      BY <2>5 DEF Rehashed
    <3> QED
      BY <2>3, <3>1 DEF Indexes
  <2>10. \A i \in DOMAIN constants : \E s \in DOMAIN e.index : e.index[s].idx = i - 1
    <3> TAKE i \in DOMAIN constants
    <3>1. PICK t \in DOMAIN const_index : const_index[t].idx = i - 1
      BY <2>3 DEF Indexes
    <3>2. PICK s \in DOMAIN e.index : e.index[s] = const_index[t]
      BY <2>5, <2>6 DEF Rehashed
    <3> QED
      BY <3>1, <3>2
  <2>11. IndexOK(e.index, cap)
    BY <2>5 DEF Rehashed
  <2> QED
    BY <2>2, <2>4, <2>8, <2>9, <2>10, <2>11 DEF Indexes, e
<1> QED
  BY <1>2, <1>3, <1>4

\* A search ends at the constant, or at an empty slot when it is not there.
LEMMA SearchIs ==
    ASSUME ConstInv, NEW e, IndexOK(e.index, e.cap), Indexes(e.index), Len(constants) < e.cap,
           NEW v \in Consts
    PROVE  LET slot == K!Slot(e, v) IN
           /\ slot \in DOMAIN e.index => constants[e.index[slot].idx + 1] = v
           /\ slot \notin DOMAIN e.index => \A i \in DOMAIN constants : constants[i] # v
<1> DEFINE slot  == K!Slot(e, v)
           stops == K!Stops(e, v)
           hash  == KHash[v]
<1>1. hash \in Nat /\ e.cap \in Nat \ {0} /\ DOMAIN e.index \subseteq 0 .. e.cap - 1
  BY NamesAssumption DEF IndexOK, Consts
<1>2. K!Empty(e.index, e.cap) # {}
  BY SlotLeft DEF Indexes
<1>3. /\ stops \in SUBSET (0 .. e.cap - 1) /\ stops # {}
      /\ \A s \in 0 .. e.cap - 1 :
            s \in stops <=> s \notin DOMAIN e.index \/ K!Same(e.index[s], v)
  BY <1>1, <1>2 DEF K!Stops, K!Empty
<1>4. slot = K!FirstStop(e.cap, hash, stops)
  BY DEF K!Slot
<1> HIDE DEF stops, slot, hash
<1>5. PICK k \in 0 .. e.cap - 1 :
         /\ slot = K!ProbeSlot(e.cap, hash, k)
         /\ slot \in stops
         /\ \A j \in 0 .. k - 1 : K!ProbeSlot(e.cap, hash, j) \notin stops
  BY <1>1, <1>3, <1>4, FirstStopIs
<1>6. slot \in DOMAIN e.index => constants[e.index[slot].idx + 1] = v
  BY <1>1, <1>3, <1>5 DEF K!Same
<1>7. ASSUME slot \notin DOMAIN e.index, NEW i \in DOMAIN constants, constants[i] = v
      PROVE  FALSE
  <2>1. PICK s \in DOMAIN e.index : e.index[s].idx = i - 1
    BY DEF Indexes
  <2>2. e.index[s].hash = hash /\ K!Same(e.index[s], v)
    <3>1. i \in Int /\ (i - 1) + 1 = i
      BY DEF ConstInv
    <3>2. constants[e.index[s].idx + 1] = v
      BY <1>7, <2>1, <3>1
    <3> QED
      BY <3>2 DEF Indexes, K!Same, hash
  <2>3. PICK m \in 0 .. e.cap - 1 :
          /\ K!ProbeSlot(e.cap, hash, m) = s
          /\ \A j \in 0 .. m - 1 : K!ProbeSlot(e.cap, hash, j) \in DOMAIN e.index
    BY <2>2 DEF IndexOK, Reached
  <2>4. s \in stops
    BY <1>1, <1>3, <2>2
  <2>5. ~ (m < k)
    BY <1>1, <1>5, <2>3, <2>4
  <2>6. ~ (k < m)
    BY <1>1, <1>5, <1>7, <2>3
  <2>7. k = m
    BY <1>1, <2>5, <2>6
  <2> QED
    BY <1>5, <1>7, <2>3, <2>7
<1> QED
  BY <1>6, <1>7 DEF slot

\* Nothing is compiled yet.
LEMMA InitConst == Init => ConstInv
<1> SUFFICES ASSUME Init PROVE ConstInv
  OBVIOUS
<1>1. constants = <<>> /\ const_index_cap = 0 /\ loads = {}
  BY DEF Init, K!ConstsInit
<1> QED
  BY <1>1 DEF ConstInv, LoadsSound

\* A call that only searches leaves the larger index, if it made one.
LEMMA IndexKept ==
    ASSUME ConstInv, K!UseIndex(K!Ensured), constants' = constants, LoadsSound'
    PROVE  ConstInv'
<1> DEFINE e == K!Ensured
<1>1. IndexOK(e.index, e.cap) /\ Indexes(e.index) /\ Len(constants) + 1 < e.cap
  BY EnsuredIs
<1>2. const_index' = e.index /\ const_index_cap' = e.cap
  BY DEF K!UseIndex
<1>3. e.cap \in Nat \ {0} /\ Len(constants) \in Nat
  BY <1>1 DEF IndexOK, ConstInv
<1> HIDE DEF e
<1>4. IndexOK(const_index, const_index_cap)'
  BY <1>1, <1>2 DEF IndexOK, Reached
<1>5. Indexes(const_index)'
  BY <1>1, <1>2 DEF Indexes
<1>6. Len(constants)' < const_index_cap'
  BY <1>1, <1>2, <1>3
<1> QED
  BY <1>2, <1>3, <1>4, <1>5, <1>6 DEF ConstInv

\* A constant that is found is loaded from its place.
LEMMA FoundConst ==
    ASSUME ConstInv, NEW v \in Consts, K!ConstFound(v)
    PROVE  ConstInv'
<1> DEFINE e == K!Ensured
<1>1. IndexOK(e.index, e.cap) /\ Indexes(e.index) /\ Len(constants) + 1 < e.cap
  BY EnsuredIs
<1>2. Len(constants) < e.cap
  BY <1>1 DEF IndexOK, ConstInv
<1>3. /\ K!Slot(e, v) \in DOMAIN e.index /\ K!UseIndex(e) /\ constants' = constants
      /\ loads' = loads \cup {[value |-> v, idx |-> e.index[K!Slot(e, v)].idx]}
  BY DEF K!ConstFound, K!Load
<1> HIDE DEF e
<1>4. /\ constants[e.index[K!Slot(e, v)].idx + 1] = v
      /\ e.index[K!Slot(e, v)].idx + 1 \in DOMAIN constants
      /\ e.index[K!Slot(e, v)].idx \in Nat
  BY <1>1, <1>2, <1>3, SearchIs DEF Indexes, IndexOK, IndexEntry
<1>5. LoadsSound'
  BY <1>3, <1>4 DEF ConstInv, LoadsSound
<1> QED
  BY <1>3, <1>5, IndexKept DEF e

\* A constant that finds no memory changes at most the index.
LEMMA RefusedConst ==
    ASSUME ConstInv, NEW v \in Consts, K!ConstRefused(v)
    PROVE  ConstInv'
<1>1. K!UseIndex(K!Ensured) /\ constants' = constants /\ loads' = loads
  BY DEF K!ConstRefused
<1>2. LoadsSound'
  BY <1>1 DEF ConstInv, LoadsSound
<1> QED
  BY <1>1, <1>2, IndexKept

\* A new constant goes to the end of the array, and its entry into the index.
LEMMA PushedConst ==
    ASSUME ConstInv, NEW v \in Consts, K!ConstPushed(v)
    PROVE  ConstInv'
<1> DEFINE e     == K!Ensured
           len   == Len(constants)
           entry == [hash |-> KHash[v], idx |-> len]
           new   == K!InsertRaw(e.index, e.cap, entry)
<1>1. IndexOK(e.index, e.cap) /\ Indexes(e.index) /\ len + 1 < e.cap
  BY EnsuredIs
<1>2. /\ K!Slot(e, v) \notin DOMAIN e.index
      /\ constants' = Append(constants, v)
      /\ const_index' = new /\ const_index_cap' = e.cap
      /\ loads' = loads \cup {[value |-> v, idx |-> len]}
  BY DEF K!ConstPushed, K!Load
<1> HIDE DEF e
<1>3. /\ len \in Nat /\ constants \in Seq(Consts) /\ DOMAIN constants = 1..len
      /\ e.cap \in Nat \ {0} /\ len < e.cap
  BY <1>1 DEF ConstInv, IndexOK
<1>4. \A i \in DOMAIN constants : constants[i] # v
  BY <1>1, <1>2, <1>3, SearchIs
<1>5. entry \in IndexEntry /\ entry.idx = len /\ entry.hash = KHash[v]
  BY <1>3, NamesAssumption DEF IndexEntry, Consts
<1>6. /\ \A s \in DOMAIN e.index : e.index[s].idx # len
      /\ Cardinality(DOMAIN e.index) = len
  BY <1>1, <1>3 DEF Indexes, IndexOK, IndexEntry
<1> HIDE DEF entry
<1>7. /\ IndexOK(new, e.cap)
      /\ Cardinality(DOMAIN new) = len + 1
      /\ Inserted(new, e.index, entry)
  <2>1. Unindexed(e.index, entry)
    BY <1>5, <1>6 DEF Unindexed
  <2> QED
    BY <1>1, <1>3, <1>5, <1>6, <2>1, InsertIs
<1>8. PICK slot : /\ slot \notin DOMAIN e.index
                  /\ DOMAIN new = DOMAIN e.index \cup {slot}
                  /\ new[slot] = entry
                  /\ \A s \in DOMAIN e.index : new[s] = e.index[s]
  BY <1>7 DEF Inserted
<1> HIDE DEF new
<1>9. /\ constants' \in Seq(Consts) /\ Len(constants') = len + 1 /\ DOMAIN constants' = 1 .. len + 1
      /\ constants'[len + 1] = v /\ \A i \in 1..len : constants'[i] = constants[i]
  BY <1>2, <1>3
<1> HIDE DEF len
<1>10. \A i, j \in DOMAIN constants' : constants'[i] = constants'[j] => i = j
  <2>1. \A i \in DOMAIN constants' : i \in 1..len \/ i = len + 1
    BY <1>3, <1>9
  <2>2. \A i, j \in 1..len : constants[i] = constants[j] => i = j
    BY <1>3 DEF ConstInv
  <2> QED
    BY <1>3, <1>4, <1>9, <2>1, <2>2
<1>11. \A s \in DOMAIN new : /\ new[s].idx + 1 \in DOMAIN constants'
                             /\ new[s].hash = KHash[constants'[new[s].idx + 1]]
  <2> TAKE s \in DOMAIN new
  <2>1. CASE s = slot
    BY <1>3, <1>5, <1>8, <1>9, <2>1
  <2>2. CASE s \in DOMAIN e.index
    <3>1. new[s] = e.index[s] /\ new[s].idx + 1 \in 1..len
          /\ new[s].hash = KHash[constants[new[s].idx + 1]]
      BY <1>1, <1>3, <1>8, <2>2 DEF Indexes
    <3>2. constants'[new[s].idx + 1] = constants[new[s].idx + 1]
      BY <1>9, <3>1
    <3> QED
      BY <1>3, <1>9, <3>1, <3>2
  <2> QED
    BY <1>8, <2>1, <2>2
<1>12. \A i \in DOMAIN constants' : \E s \in DOMAIN new : new[s].idx = i - 1
  <2> TAKE i \in DOMAIN constants'
  <2>1. CASE i = len + 1
    BY <1>3, <1>5, <1>8, <2>1
  <2>2. CASE i \in 1..len
    <3>1. PICK s \in DOMAIN e.index : e.index[s].idx = i - 1
      BY <1>1, <1>3, <2>2 DEF Indexes
    <3> QED
      BY <1>8, <3>1
  <2> QED
    BY <1>3, <1>9, <2>1, <2>2
<1>13. Indexes(const_index)'
  BY <1>2, <1>7, <1>9, <1>11, <1>12 DEF Indexes
<1>14. IndexOK(const_index, const_index_cap)'
  BY <1>2, <1>7 DEF IndexOK, Reached
<1>15. LoadsSound'
  <2> SUFFICES ASSUME NEW a \in loads'
               PROVE  /\ a.idx \in Nat
                      /\ a.idx + 1 \in DOMAIN constants' /\ constants'[a.idx + 1] = a.value
    BY DEF LoadsSound
  <2>1. CASE a \in loads
    <3>1. a.idx \in Nat /\ a.idx + 1 \in 1..len /\ constants[a.idx + 1] = a.value
      BY <1>3, <2>1 DEF ConstInv, LoadsSound
    <3> QED
      BY <1>3, <1>9, <3>1
  <2>2. CASE a = [value |-> v, idx |-> len]
    BY <1>3, <1>9, <2>2
  <2> QED
    BY <1>2, <2>1, <2>2
<1>16. const_index_cap' \in Nat /\ const_index_cap' # 0 /\ Len(constants') < const_index_cap'
  BY <1>1, <1>2, <1>3, <1>9 DEF len
<1> QED
  BY <1>9, <1>10, <1>13, <1>14, <1>15, <1>16 DEF ConstInv

\* Every step keeps the invariant; the table does not touch the constants.
LEMMA NextConst == TableInv /\ ConstInv /\ [Next]_vars => ConstInv'
<1> SUFFICES ASSUME TableInv, ConstInv, [Next]_vars PROVE ConstInv'
  OBVIOUS
<1>1. CASE UNCHANGED constvars
  BY <1>1 DEF constvars, ConstInv, LoadsSound, IndexOK, Reached, Indexes
<1>2. ASSUME NEW v \in Consts, K!Const(v) PROVE ConstInv'
  BY <1>2, FoundConst, PushedConst, RefusedConst DEF K!Const
<1>3. CASE ConstInt
  BY <1>2, <1>3 DEF ConstInt, Consts
<1>4. CASE ConstName
  <2>1. PICK n \in names : K!Const(n.word)
    BY <1>4 DEF ConstName
  <2>2. PICK s \in DOMAIN entries : n.word = entries[s].word
    BY <2>1 DEF TableInv, NamesStored
  <2>3. n.word \in Consts
    BY <2>2, EntryFields DEF TableInv, Consts
  <2> QED
    BY <1>2, <2>1, <2>3
<1> QED
  BY <1>1, <1>3, <1>4 DEF Next, vars

\* The invariant of the constants, for any hash function, whatever finds memory
\* (mclfunc.c:45-95, 230-345).
THEOREM ConstsCorrect == Spec => []ConstInv
<1> QED
  BY InitConst, NextConst, TableCorrect, PTL DEF Spec

\* A search of the index ends: there is always an empty slot.
THEOREM SearchEnds == Spec => []RoomLeft
<1>1. ConstInv => RoomLeft
  <2> SUFFICES ASSUME ConstInv, const_index_cap > 0
               PROVE  K!Empty(const_index, const_index_cap) # {}
    BY DEF RoomLeft, K!RoomLeft
  <2>1. IndexOK(const_index, const_index_cap) /\ Indexes(const_index) /\ Len(constants) < const_index_cap
    BY DEF ConstInv
  <2> QED
    BY <2>1, SlotLeft DEF Indexes
<1> QED
  BY <1>1, ConstsCorrect, PTL

\* Every constant is found at its place, and a loaded index keeps its constant.
THEOREM EachConstantOnce == Spec => []ConstsFound
<1>1. ConstInv => ConstsFound
  <2> SUFFICES ASSUME ConstInv PROVE K!ConstsFound
    BY DEF ConstsFound
  <2>1. ASSUME NEW i \in DOMAIN constants PROVE K!AtHome(i)
    <3> DEFINE e    == K!Index
               v    == constants[i]
               slot == K!Slot(e, v)
    <3>1. e.index = const_index /\ e.cap = const_index_cap
      BY DEF K!Index
    <3>2. v \in Consts /\ const_index_cap # 0 /\ i \in Int
      <4>1. \A s : s = <<>> => DOMAIN s = {}
        OBVIOUS
      <4>2. constants # <<>>
        BY <4>1, Zenon
      <4> QED
        BY <4>2 DEF ConstInv
    <3>3. IndexOK(e.index, e.cap) /\ Indexes(e.index) /\ Len(constants) < e.cap
      BY <3>1, <3>2 DEF ConstInv
    <3> HIDE DEF e
    <3>4. slot \in DOMAIN e.index /\ constants[e.index[slot].idx + 1] = v
      BY <3>2, <3>3, SearchIs
    <3> HIDE DEF slot
    <3>5. e.index[slot].idx + 1 \in DOMAIN constants /\ e.index[slot] \in IndexEntry
      BY <3>3, <3>4 DEF Indexes, IndexOK
    <3>6. e.index[slot].idx + 1 = i
      BY <3>4, <3>5 DEF ConstInv
    <3>7. e.index[slot].idx = i - 1
      BY <3>2, <3>5, <3>6 DEF IndexEntry
    <3> QED
      BY <3>1, <3>4, <3>7 DEF K!AtHome, e, slot
  <2>2. ASSUME NEW a \in loads
        PROVE  a.idx + 1 \in DOMAIN constants /\ constants[a.idx + 1] = a.value
    BY DEF ConstInv, LoadsSound
  <2>3. ASSUME NEW a \in loads, NEW b \in loads, a.value = b.value
        PROVE  a.idx = b.idx
    <3>1. a.idx + 1 = b.idx + 1
      BY <2>2, <2>3 DEF ConstInv
    <3> QED
      BY <3>1, <2>3 DEF ConstInv, LoadsSound
  <2> QED
    BY <2>1, <2>2, <2>3 DEF K!ConstsFound
<1> QED
  BY <1>1, ConstsCorrect, PTL
=============================================================================
