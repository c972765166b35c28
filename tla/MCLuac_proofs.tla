--------------------------- MODULE MCLuac_proofs ---------------------------
(***************************************************************************)
(* What exit code 0 means, for every buffer size, every sequence of pieces *)
(* and any number of plug-ins.  DumpInv says that what is in the file and  *)
(* what waits in the buffer are the dump so far, and that a failed write   *)
(* can only lead to the cleanup; VisitInv which visitors have run at each  *)
(* stage; HandleInv that a library is open once for each counted slot.     *)
(* At the end, the instruction words of the dump: what is taken out of a   *)
(* word is what was packed into it, for every size of the fields.          *)
(***************************************************************************)
EXTENDS MCLuac, MCOps, SequenceTheorems, FiniteSetTheorems, TLAPS

Count(n) == [i \in 1..n |-> i]

BfrType ==
    /\ bfr \in Seq(Nat)
    /\ file \in Seq(Nat)
    /\ sent \in Nat
    /\ broken \in BOOLEAN

WriteFails == broken => stage \in {"free", "exit"} /\ code # 0

Flushed == stage \in {"free", "exit"} /\ code = 0 => bfr = <<>>

DumpInv ==
    /\ BfrType
    /\ DumpInOrder
    /\ WriteFails
    /\ Flushed

-----------------------------------------------------------------------------
(* Pieces and writes *)

\* The empty sequence of bytes.
LEMMA EmptyType == <<>> \in Seq(Nat) /\ Len(<<>>) = 0
BY EmptySeq, Zenon

\* Concatenation of byte sequences is associative.
LEMMA Associative ==
    ASSUME NEW s \in Seq(Nat), NEW t \in Seq(Nat), NEW u \in Seq(Nat)
    PROVE  (s \o t) \o u = s \o (t \o u)
BY ConcatAssociative, SMTT(30)

\* The numbers from 1 on are a sequence.
LEMMA CountType == ASSUME NEW n \in Nat PROVE Count(n) \in Seq(Nat) /\ Len(Count(n)) = n
BY DEF Count

\* A piece is a sequence of n bytes.
LEMMA PieceType ==
    ASSUME sent \in Nat, NEW n \in Nat
    PROVE  Piece(n) \in Seq(Nat) /\ Len(Piece(n)) = n
BY DEF Piece

\* The bytes so far, followed by the next piece, are the bytes then.
LEMMA CountOn ==
    ASSUME sent \in Nat, NEW n \in Nat
    PROVE  Count(sent) \o Piece(n) = Count(sent + n)
<1> DEFINE whole == Count(sent) \o Piece(n)
<1>0. /\ Count(sent) \in Seq(Nat) /\ Len(Count(sent)) = sent
      /\ Piece(n) \in Seq(Nat) /\ Len(Piece(n)) = n
  BY CountType, PieceType
<1>1. whole \in Seq(Nat) /\ Len(whole) = sent + n
  BY <1>0, ConcatProperties
<1>2. Count(sent + n) \in Seq(Nat) /\ Len(Count(sent + n)) = sent + n
  BY CountType
<1>3. \A i \in 1 .. sent + n : whole[i] = i
  <2>0. \A i \in 1 .. Len(Count(sent)) + Len(Piece(n)) :
            whole[i] = IF i <= Len(Count(sent)) THEN Count(sent)[i]
                       ELSE Piece(n)[i - Len(Count(sent))]
    BY <1>0, ConcatProperties, Zenon
  <2> TAKE i \in 1 .. sent + n
  <2>1. whole[i] = IF i <= sent THEN Count(sent)[i] ELSE Piece(n)[i - sent]
    BY <1>0, <2>0
  <2> QED
    BY <2>1 DEF Count, Piece
<1>4. \A i \in 1 .. sent + n : Count(sent + n)[i] = i
  BY DEF Count
<1> HIDE DEF whole
<1>5. whole = Count(sent + n)
  BY <1>1, <1>2, <1>3, <1>4, SeqEqual
<1> QED
  BY <1>5 DEF whole

\* A write that does not fail appends its data; one that fails a part of it.
LEMMA WriteType ==
    ASSUME BfrType, ~ broken, NEW data \in Seq(Nat), WriteBytes(data)
    PROVE  /\ file' \in Seq(Nat)
           /\ broken' \in BOOLEAN
           /\ ~ broken' => file' = file \o data
<1>1. file \o data \in Seq(Nat)
  BY ConcatProperties DEF BfrType
<1>2. \A k \in 0 .. Len(data) - 1 : file \o SubSeq(data, 1, k) \in Seq(Nat)
  <2> TAKE k \in 0 .. Len(data) - 1
  <2>1. SubSeq(data, 1, k) \in Seq(Nat)
    OBVIOUS
  <2> QED
    BY <2>1, ConcatProperties DEF BfrType
<1> QED
  BY <1>1, <1>2 DEF WriteBytes, BfrType

-----------------------------------------------------------------------------
(* The buffer *)

BfrInv == BfrType /\ DumpInOrder

\* luac_put keeps the buffer in order, on each of its three ways.
LEMMA PutInv ==
    ASSUME BfrInv, ~ broken, NEW n \in Nat, Put(n)
    PROVE  BfrInv'
<1> USE DEF BfrInv
<1>1. /\ Piece(n) \in Seq(Nat) /\ Len(Piece(n)) = n
      /\ bfr \in Seq(Nat) /\ Len(bfr) \in Nat
      /\ file \in Seq(Nat)
      /\ sent \in Nat /\ sent' = sent + n /\ sent' \in Nat
  BY PieceType DEF BfrType, Put
<1>2. file \o bfr = Count(sent)
  BY DEF DumpInOrder, Count
<1>3. file \o (bfr \o Piece(n)) = Count(sent')
  <2>1. (file \o bfr) \o Piece(n) = file \o (bfr \o Piece(n))
    <3>1. file \in Seq(Nat) /\ bfr \in Seq(Nat) /\ Piece(n) \in Seq(Nat)
      BY <1>1
    <3> QED
      BY <3>1, Associative
  <2> QED
    BY <1>1, <1>2, <2>1, CountOn
<1>4. bfr \o Piece(n) \in Seq(Nat) /\ Len(bfr \o Piece(n)) = Len(bfr) + n
  BY <1>1, ConcatProperties
<1>5. CASE PutLarge(n)
  <2>1. /\ file' \in Seq(Nat) /\ broken' \in BOOLEAN
        /\ ~ broken' => file' = file \o (bfr \o Piece(n))
    BY <1>4, <1>5, WriteType DEF PutLarge
  <2>2. bfr' = <<>> /\ bfr' \in Seq(Nat) /\ Len(bfr') = 0
    BY <1>5 DEF PutLarge
  <2>3. file' \o <<>> = file'
    BY <2>1, ConcatEmptySeq
  <2> QED
    BY <1>1, <1>3, <2>1, <2>2, <2>3, BfrAssumption DEF BfrType, DumpInOrder, Count
<1>6. CASE PutFits(n)
  <2>1. bfr' = bfr \o Piece(n) /\ file' = file /\ broken' = broken /\ Len(bfr) + n <= Cap
    BY <1>6 DEF PutFits, KeepWaiting
  <2> QED
    BY <1>1, <1>3, <1>4, <2>1 DEF BfrType, DumpInOrder, Count
<1>7. CASE PutFlushes(n)
  <2>1. /\ file' \in Seq(Nat) /\ broken' \in BOOLEAN
        /\ ~ broken' => file' = file \o bfr
    BY <1>1, <1>7, WriteType DEF PutFlushes
  <2>2. /\ bfr' \in Seq(Nat) /\ Len(bfr') <= Cap
        /\ ~ broken' => bfr' = Piece(n)
    BY <1>1, <1>7, BfrAssumption DEF PutFlushes
  <2>3. ~ broken' => file' \o bfr' = Count(sent')
    BY <1>1, <1>2, <2>1, <2>2, CountOn
  <2> QED
    BY <1>1, <2>1, <2>2, <2>3 DEF BfrType, DumpInOrder, Count
<1> QED
  BY <1>5, <1>6, <1>7 DEF Put

\* luac_flush keeps it and leaves the buffer empty.
LEMMA FlushInv ==
    ASSUME BfrInv, ~ broken, Flush
    PROVE  BfrInv' /\ bfr' = <<>>
<1> USE DEF BfrInv
<1>1. /\ bfr \in Seq(Nat)
      /\ sent' = sent
      /\ bfr' = <<>> /\ bfr' \in Seq(Nat) /\ Len(bfr') = 0
  BY DEF BfrType, Flush
<1>2. /\ file' \in Seq(Nat) /\ broken' \in BOOLEAN
      /\ ~ broken' => file' = file \o bfr
  BY <1>1, WriteType DEF Flush
<1>3. file' \o <<>> = file'
  BY <1>2, ConcatEmptySeq
<1>4. BfrType'
  BY <1>1, <1>2 DEF BfrType
<1>5. ~ broken' => file' \o bfr' = [i \in 1..sent' |-> i]
  BY <1>1, <1>2, <1>3 DEF DumpInOrder
<1> QED
  BY <1>1, <1>4, <1>5, BfrAssumption DEF DumpInOrder

-----------------------------------------------------------------------------
(* The driver *)

\* The invariant holds before anything is written.
LEMMA InitDump == Init => DumpInv
<1> SUFFICES ASSUME Init PROVE DumpInv
  OBVIOUS
<1> USE DEF Init, BfrInit
<1>1. file \o bfr = [i \in 1..sent |-> i]
  <2>1. <<>> \o <<>> = <<>>
    BY ConcatEmptySeq
  <2>2. Count(0) = <<>>
    BY CountType, EmptySeq
  <2> QED
    BY <2>1, <2>2 DEF Count
<1>2. BfrType /\ Len(bfr) <= Cap
  <2>1. bfr = <<>> /\ file = <<>> /\ sent = 0 /\ broken = FALSE
    OBVIOUS
  <2> HIDE DEF Init, BfrInit
  <2>2. bfr \in Seq(Nat) /\ file \in Seq(Nat) /\ sent \in Nat /\ Len(bfr) <= Cap
    BY <2>1, EmptyType, BfrAssumption
  <2>3. broken \in BOOLEAN
    BY <2>1
  <2> QED
    BY <2>2, <2>3 DEF BfrType
<1>3. WriteFails /\ Flushed
  BY DEF WriteFails, Flushed
<1> QED
  BY <1>1, <1>2, <1>3 DEF DumpInv, DumpInOrder

\* A stage that leaves the buffer alone goes on to a stage before the cleanup, or
\* fails with a code other than 0.
LEMMA OtherStages ==
    ASSUME DumpInv, UNCHANGED bfrvars, stage \notin {"free", "exit"},
           \/ stage' \notin {"free", "exit"}
           \/ code' # 0
    PROVE  DumpInv'
<1>1. ~ broken
  BY DEF DumpInv, WriteFails
<1> QED
  BY <1>1 DEF DumpInv, bfrvars, BfrType, DumpInOrder, WriteFails, Flushed

\* Every step of main keeps the invariant.
LEMMA NextDump == DumpInv /\ [Next]_vars => DumpInv'
<1> SUFFICES ASSUME DumpInv, [Next]_vars PROVE DumpInv'
  OBVIOUS
<1> USE DEF GoOn, Fail
<1>1. CASE LuacInit
  BY <1>1, OtherStages DEF LuacInit
<1>2. CASE LoadNextTkv
  BY <1>2, OtherStages DEF LoadNextTkv
<1>3. CASE LoadNextAstv
  BY <1>3, OtherStages DEF LoadNextAstv
<1>4. CASE AllLoaded
  BY <1>4, OtherStages DEF AllLoaded
<1>5. CASE Pass
  BY <1>5, OtherStages DEF Pass, NextStage
<1>6. CASE Visit
  BY <1>6, OtherStages DEF Visit, luacvars
<1>7. CASE Visited
  BY <1>7, OtherStages DEF Visited, NextStage
<1>8. CASE OpenOut
  BY <1>8, OtherStages DEF OpenOut
<1>9. CASE Dump
  <2>1. ~ broken /\ stage = "dump"
    BY <1>9 DEF Dump, DumpInv, WriteFails
  <2>2. BfrInv'
    BY <1>9, <2>1, PutInv, LuacAssumption DEF Dump, DumpInv, BfrInv
  <2>3. IF broken' THEN stage' = "free" /\ code' = -1 ELSE stage' = "dump"
    BY <1>9, <2>1 DEF Dump, luacvars
  <2> QED
    BY <2>2, <2>3 DEF DumpInv, BfrInv, BfrType, WriteFails, Flushed
<1>10. CASE DumpEnd
  <2>1. ~ broken /\ stage = "dump"
    BY <1>10 DEF DumpEnd, DumpInv, WriteFails
  <2>2. BfrInv' /\ bfr' = <<>>
    BY <1>10, <2>1, FlushInv DEF DumpEnd, LastFlush, DumpInv, BfrInv
  <2>3. broken' => stage' = "free" /\ code' = -1
    BY <1>10 DEF DumpEnd
  <2> QED
    BY <2>2, <2>3 DEF DumpInv, BfrInv, BfrType, WriteFails, Flushed
<1>11. CASE Exit
  BY <1>11 DEF Exit, DumpInv, bfrvars, BfrType, DumpInOrder, WriteFails, Flushed
<1>12. CASE UNCHANGED vars
  BY <1>12 DEF vars, luacvars, DumpInv, bfrvars, BfrType, DumpInOrder, WriteFails, Flushed
<1> QED
  BY <1>1, <1>2, <1>3, <1>4, <1>5, <1>6, <1>7, <1>8, <1>9, <1>10, <1>11, <1>12 DEF Next

-----------------------------------------------------------------------------
(* The theorems *)

\* The invariant of the dump holds throughout (mcluac.c:67-93, 291-320, 377-421).
THEOREM DumpCorrect == Spec => []DumpInv
<1> QED
  BY InitDump, NextDump, PTL DEF Spec

\* luac_put keeps the order of the bytes and the bound of its buffer.
THEOREM BufferKeepsOrder == Spec => []DumpInOrder
<1>1. DumpInv => DumpInOrder
  BY DEF DumpInv
<1> QED
  BY <1>1, DumpCorrect, PTL

\* Exit code 0 means a complete file.
THEOREM ZeroIsWhole == Spec => []ZeroMeansWhole
<1>1. DumpInv => ZeroMeansWhole
  <2> SUFFICES ASSUME DumpInv, stage = "exit", code = 0
               PROVE  file = [i \in 1..sent |-> i] /\ ~ broken
    BY DEF ZeroMeansWhole
  <2>1. ~ broken /\ bfr = <<>> /\ file \in Seq(Nat)
    BY DEF DumpInv, WriteFails, Flushed, BfrType
  <2>2. file \o <<>> = file
    BY <2>1, ConcatEmptySeq
  <2> QED
    BY <2>1, <2>2 DEF DumpInv, DumpInOrder
<1> QED
  BY <1>1, DumpCorrect, PTL

-----------------------------------------------------------------------------
(* The runs of the visitors *)

Running == {"init", "visit", "deinit"}

\* The slots that have run at each stage, and within the two stages of visitors.
RunSoFar ==
    /\ stage \in {"init", "load", "lex"} => ran = {}
    /\ stage = "parse" => ran = 0 .. tkv_count - 1
    /\ stage \in {"compile", "open", "dump"} => ran = 0 .. AstEnd - 1
    /\ stage \in {"tkv", "astv"} =>
          /\ at = "idle" => ran = 0 .. FirstSlot - 1
          /\ at \in Running => slot <= EndSlot /\ ran = 0 .. slot - 1
          /\ at \in {"visit", "deinit"} => slot < EndSlot
          /\ at = "done" /\ rcode = 0 => ran = 0 .. EndSlot - 1

VisitInv ==
    /\ tkv_count \in Nat /\ astv_count \in Nat /\ slot \in Nat
    /\ rcode \in Codes
    /\ at # "idle" => stage \in {"tkv", "astv"}
    /\ VisitorsTornDown
    /\ RunSoFar

\* Nothing has run at first.
LEMMA InitVisit == Init => VisitInv
BY DEF Init, XtInit, Codes, VisitInv, VisitorsTornDown, RunSoFar, FirstSlot

\* A step of main that runs no visitor leaves what has run as it is: it stays
\* where it is, cleans up, or goes on between two stages of the same slots.
LEMMA OtherVisits ==
    ASSUME VisitInv, UNCHANGED runvars, UNCHANGED <<tkv_count, astv_count>>,
           stage \notin {"tkv", "astv"},
           \/ stage' \in {"free", "exit", stage}
           \/ stage = "init" /\ stage' = "load"
           \/ stage = "load" /\ stage' = "lex"
           \/ stage = "lex" /\ stage' = "tkv"
           \/ stage = "parse" /\ stage' = "astv"
           \/ stage = "compile" /\ stage' = "open"
           \/ stage = "open" /\ stage' = "dump"
    PROVE  VisitInv'
<1>1. /\ UNCHANGED <<at, slot, rcode, live, ran, tkv_count, astv_count>>
      /\ at = "idle"
  BY DEF runvars, VisitInv
<1>2. VisitorsTornDown' /\ rcode' \in Codes
  BY <1>1 DEF VisitInv, VisitorsTornDown
<1>3. CASE stage' \in {"free", "exit"}
  BY <1>1, <1>2, <1>3 DEF VisitInv, RunSoFar
<1>4. CASE stage' = stage
  BY <1>1, <1>2, <1>4 DEF VisitInv, RunSoFar, AstEnd
<1>5. CASE stage' \in {"load", "lex"} /\ stage \in {"init", "load"}
  BY <1>1, <1>2, <1>5 DEF VisitInv, RunSoFar
<1>6. CASE stage = "lex" /\ stage' = "tkv"
  BY <1>1, <1>2, <1>6 DEF VisitInv, RunSoFar, FirstSlot, Running
<1>7. CASE stage = "parse" /\ stage' = "astv"
  BY <1>1, <1>2, <1>7 DEF VisitInv, RunSoFar, FirstSlot, Running
<1>8. CASE stage \in {"compile", "open"} /\ stage' \in {"open", "dump"}
  BY <1>1, <1>2, <1>8 DEF VisitInv, RunSoFar, AstEnd
<1> QED
  BY <1>3, <1>4, <1>5, <1>6, <1>7, <1>8

\* Loading changes the counts while nothing has run.
LEMMA LoadingVisits ==
    ASSUME VisitInv, UNCHANGED runvars, stage = "load", stage' \in {"load", "free"},
           tkv_count' \in Nat, astv_count' \in Nat
    PROVE  VisitInv'
BY DEF runvars, VisitInv, VisitorsTornDown, RunSoFar

\* A visitor that is done is torn down, and its slot has run.
LEMMA AfterVisitor ==
    ASSUME VisitInv, stage \in {"tkv", "astv"}, stage' = stage,
           UNCHANGED <<tkv_count, astv_count>>,
           at \in Running, slot < EndSlot, live' = {},
           NEW r \in Codes, After(r, EndSlot)
    PROVE  VisitInv'
<1>1. /\ tkv_count' \in Nat /\ astv_count' \in Nat /\ slot \in Nat /\ EndSlot \in Nat
      /\ EndSlot' = EndSlot
      /\ ran' = 0 .. slot
  <2>1. slot \in Nat /\ ran = 0 .. slot - 1
    BY DEF VisitInv, RunSoFar
  <2> QED
    BY <2>1 DEF VisitInv, EndSlot, AstEnd, After
<1>2. CASE r < 0 \/ slot + 1 >= EndSlot
  <2>1. at' = "done" /\ slot' = slot /\ rcode' \in Codes
    BY <1>2 DEF After, Codes
  <2>2. rcode' = 0 => ran' = 0 .. EndSlot' - 1
    BY <1>1, <1>2 DEF After, Codes
  <2> QED
    BY <1>1, <2>1, <2>2 DEF VisitInv, VisitorsTornDown, RunSoFar, Running
<1>3. CASE ~ (r < 0 \/ slot + 1 >= EndSlot)
  <2>1. at' = "init" /\ slot' = slot + 1 /\ slot' \in Nat /\ rcode' = 0
    BY <1>1, <1>3 DEF After
  <2>2. slot' <= EndSlot' /\ ran' = 0 .. slot' - 1
    BY <1>1, <1>3, <2>1 DEF Codes
  <2> QED
    BY <1>1, <2>1, <2>2 DEF VisitInv, VisitorsTornDown, RunSoFar, Running, Codes
<1> QED
  BY <1>2, <1>3

\* Each hook keeps the invariant.
LEMMA VisitKeeps == ASSUME VisitInv, Visit PROVE VisitInv'
<1>1. /\ stage \in {"tkv", "astv"} /\ stage' = stage
      /\ Begin(FirstSlot) \/ RunStep(EndSlot)
  BY DEF Visit, luacvars
<1>2. /\ tkv_count \in Nat /\ astv_count \in Nat /\ slot \in Nat
      /\ UNCHANGED <<tkv_count, astv_count>>
  <2>1. tblvars' = tblvars
    BY <1>1 DEF Begin, RunStep, HookInit, HookVisit, VisitsEnd, HookDeinit, NoVisitors, After, tblvars
  <2> QED
    BY <2>1 DEF tblvars, VisitInv
<1>3. FirstSlot' = FirstSlot /\ EndSlot' = EndSlot /\ FirstSlot \in Nat /\ EndSlot \in Nat
      /\ FirstSlot <= EndSlot
  BY <1>1, <1>2 DEF FirstSlot, EndSlot, AstEnd
<1>4. CASE Begin(FirstSlot)
  BY <1>1, <1>2, <1>3, <1>4 DEF Begin, VisitInv, VisitorsTornDown, RunSoFar, Running
<1>5. CASE HookInit(EndSlot)
  <2>1. PICK r \in Codes :
          IF r # 0 THEN After(r, EndSlot) /\ UNCHANGED live
          ELSE /\ live' = live \cup {slot}
               /\ at' = "visit"
               /\ UNCHANGED <<slot, rcode, visits, ran>>
    BY <1>5 DEF HookInit
  <2>2. at = "init" /\ slot < EndSlot /\ live = {}
    BY <1>5 DEF HookInit, VisitInv, VisitorsTornDown
  <2>3. CASE r # 0
    BY <1>1, <1>2, <2>1, <2>2, <2>3, AfterVisitor DEF Running
  <2>4. CASE r = 0
    BY <1>1, <1>2, <1>3, <2>1, <2>2, <2>4 DEF VisitInv, VisitorsTornDown, RunSoFar, Running
  <2> QED
    BY <2>3, <2>4
<1>6. CASE HookVisit
  <2>1. /\ at = "visit" /\ at' \in {"visit", "deinit"} /\ rcode' \in Codes
        /\ UNCHANGED <<slot, live, ran>>
    BY <1>6 DEF HookVisit, AfterVisit
  <2> QED
    BY <1>1, <1>2, <1>3, <2>1 DEF VisitInv, VisitorsTornDown, RunSoFar, Running
<1>7. CASE VisitsEnd
  BY <1>1, <1>2, <1>3, <1>7 DEF VisitsEnd, VisitInv, VisitorsTornDown, RunSoFar, Running
<1>8. CASE HookDeinit(EndSlot)
  <2>1. PICK d \in Codes : After(IF rcode = 0 THEN d ELSE rcode, EndSlot)
    BY <1>8 DEF HookDeinit
  <2>2. at = "deinit" /\ slot < EndSlot /\ live' = {} /\ rcode \in Codes
    BY <1>1, <1>8 DEF HookDeinit, VisitInv, VisitorsTornDown, RunSoFar
  <2>3. (IF rcode = 0 THEN d ELSE rcode) \in Codes
    BY <2>1, <2>2
  <2> QED
    BY <1>1, <1>2, <2>1, <2>2, <2>3, AfterVisitor DEF Running
<1>9. CASE NoVisitors(EndSlot)
  BY <1>1, <1>2, <1>3, <1>9 DEF NoVisitors, VisitInv, VisitorsTornDown, RunSoFar, Running, Codes
<1> QED
  BY <1>1, <1>4, <1>5, <1>6, <1>7, <1>8, <1>9 DEF RunStep

\* Every step of main keeps the invariant.
LEMMA NextVisit == VisitInv /\ [Next]_vars => VisitInv'
<1> SUFFICES ASSUME VisitInv, [Next]_vars PROVE VisitInv'
  OBVIOUS
<1> USE DEF GoOn, Fail
<1>1. CASE LuacInit
  BY <1>1, OtherVisits DEF LuacInit, xtvars, runvars
<1>2. CASE LoadNextTkv
  <2>1. /\ UNCHANGED runvars /\ stage = "load" /\ stage' \in {"load", "free"}
        /\ tkv_count' \in {tkv_count, tkv_count + 1} /\ astv_count' = astv_count
    BY <1>2 DEF LoadNextTkv, LoadTkv, LoadFails
  <2> QED
    BY <2>1, LoadingVisits DEF VisitInv
<1>3. CASE LoadNextAstv
  <2>1. /\ UNCHANGED runvars /\ stage = "load" /\ stage' \in {"load", "free"}
        /\ tkv_count' = tkv_count /\ astv_count' \in {astv_count, astv_count + 1}
    BY <1>3 DEF LoadNextAstv, LoadAstv, LoadFails
  <2> QED
    BY <2>1, LoadingVisits DEF VisitInv
<1>4. CASE AllLoaded
  BY <1>4, OtherVisits DEF AllLoaded, xtvars, runvars
<1>5. CASE Pass
  BY <1>5, OtherVisits DEF Pass, NextStage, xtvars, runvars
<1>6. CASE Visit
  BY <1>6, VisitKeeps
<1>7. CASE Visited
  <2>1. /\ stage \in {"tkv", "astv"} /\ at = "done" /\ at' = "idle"
        /\ UNCHANGED <<slot, rcode, live, ran, tkv_count, astv_count>>
        /\ \/ rcode # 0 /\ stage' = "free"
           \/ rcode = 0 /\ stage = "tkv" /\ stage' = "parse"
           \/ rcode = 0 /\ stage = "astv" /\ stage' = "compile"
    BY <1>7 DEF Visited, NextStage, tblvars
  <2> QED
    BY <2>1 DEF VisitInv, VisitorsTornDown, RunSoFar, EndSlot, AstEnd
<1>8. CASE OpenOut
  BY <1>8, OtherVisits DEF OpenOut, xtvars, runvars
<1>9. CASE Dump
  BY <1>9, OtherVisits DEF Dump, xtvars, runvars, luacvars
<1>10. CASE DumpEnd
  BY <1>10, OtherVisits DEF DumpEnd, xtvars, runvars
<1>11. CASE Exit
  BY <1>11, OtherVisits DEF Exit, Free
<1>12. CASE UNCHANGED vars
  BY <1>12 DEF vars, xtvars, luacvars, VisitInv, VisitorsTornDown, RunSoFar, FirstSlot, EndSlot, AstEnd
<1> QED
  BY <1>1, <1>2, <1>3, <1>4, <1>5, <1>6, <1>7, <1>8, <1>9, <1>10, <1>11, <1>12 DEF Next

-----------------------------------------------------------------------------
(* The libraries *)

\* The counted slots that hold library l.
SlotsOf(l) == {s \in Counted : handles[s] = l}

HandleInv ==
    /\ tkv_count \in Nat /\ astv_count \in Nat
    /\ DOMAIN handles \subseteq Nat
    /\ DOMAIN opened = Libs /\ opened = [l \in Libs |-> opened[l]]
    /\ tkv_paths # <<>> => astv_count = 0
    /\ stage = "init" => tkv_count = 0 /\ astv_count = 0
    /\ stage # "exit" => \A l \in Libs : opened[l] = Cardinality(SlotsOf(l))
    /\ HandlesClosed

\* There are finitely many counted slots.
LEMMA SlotsFinite == ASSUME HandleInv, NEW l PROVE IsFiniteSet(SlotsOf(l))
<1>1. SlotsOf(l) \subseteq 0 .. AstSlot - 1
  BY DEF HandleInv, SlotsOf, Counted, AstSlot
<1>2. IsFiniteSet(0 .. AstSlot - 1)
  <2>1. 0 \in Int /\ AstSlot - 1 \in Int
    BY DEF HandleInv, AstSlot
  <2> QED
    BY <2>1, FS_Interval
<1> QED
  BY <1>1, <1>2, FS_Subset

\* No library is open before the first load.
LEMMA InitHandles == Init => HandleInv
<1> SUFFICES ASSUME Init PROVE HandleInv
  OBVIOUS
<1>1. /\ handles = <<>> /\ tkv_count = 0 /\ astv_count = 0 /\ stage = "init"
      /\ opened = [l \in Libs |-> 0]
  BY DEF Init, XtInit
<1>2. DOMAIN handles = {}
  BY <1>1
<1>3. \A l \in Libs : SlotsOf(l) = {}
  BY <1>2 DEF SlotsOf, Counted
<1> QED
  BY <1>1, <1>2, <1>3, FS_EmptySet DEF HandleInv, HandlesClosed

\* A library that is loaded into the next slot is open once more, and no other is.
LEMMA LoadHandles ==
    ASSUME HandleInv, NEW lib, Load(AstSlot, lib), stage = "load", stage' = "load",
           tkv_count' \in Nat, astv_count' \in Nat,
           tkv_count' + astv_count' = AstSlot + 1,
           tkv_paths' # <<>> => astv_count' = 0
    PROVE  HandleInv'
<1>1. /\ AstSlot \in Nat /\ DOMAIN handles \subseteq Nat
      /\ DOMAIN handles' = DOMAIN handles \cup {AstSlot}
      /\ handles'[AstSlot] = lib
      /\ \A t \in DOMAIN handles : t # AstSlot => handles'[t] = handles[t]
  BY DEF HandleInv, AstSlot, Load, LoadedInto
<1>2. \A t \in DOMAIN handles : t \in Counted <=> t < AstSlot
  BY DEF Counted, AstSlot
<1>3. Counted' = Counted \cup {AstSlot} /\ AstSlot \notin Counted
  <2>1. Counted' = {s \in DOMAIN handles' : s < AstSlot + 1}
    BY DEF Counted
  <2>2. \A t \in DOMAIN handles : t < AstSlot + 1 <=> t < AstSlot \/ t = AstSlot
    BY <1>1
  <2> QED
    BY <1>1, <2>1, <2>2 DEF Counted, AstSlot
<1>4. DOMAIN opened' = Libs /\ opened' = [l \in Libs |-> opened'[l]]
      /\ \A l \in Libs : opened'[l] = IF l = lib THEN opened[l] + 1 ELSE opened[l]
  BY DEF Load, HandleInv
<1>5. ASSUME NEW l \in Libs PROVE opened'[l] = Cardinality(SlotsOf(l)')
  <2>0. opened[l] = Cardinality(SlotsOf(l)) /\ IsFiniteSet(SlotsOf(l))
    BY SlotsFinite DEF HandleInv
  <2>1. CASE l = lib
    <3>1. SlotsOf(l)' = SlotsOf(l) \cup {AstSlot} /\ AstSlot \notin SlotsOf(l)
      BY <1>1, <1>3, <2>1 DEF SlotsOf, Counted
    <3> QED
      BY <1>4, <2>0, <2>1, <3>1, FS_AddElement, ZenonT(40)
  <2>2. CASE l # lib
    <3>1. SlotsOf(l)' = SlotsOf(l)
      BY <1>1, <1>3, <2>2 DEF SlotsOf, Counted
    <3> QED
      BY <1>4, <2>0, <2>2, <3>1
  <2> QED
    BY <2>1, <2>2
<1> QED
  BY <1>1, <1>4, <1>5 DEF HandleInv, HandlesClosed

\* A load that fails writes only a slot that is not counted.
LEMMA FailHandles ==
    ASSUME HandleInv, NEW lib, LoadFails(AstSlot, lib), stage = "load", Fail(1)
    PROVE  HandleInv'
<1>1. /\ AstSlot \in Nat
      /\ DOMAIN handles' \subseteq DOMAIN handles \cup {AstSlot}
      /\ DOMAIN handles \subseteq DOMAIN handles'
      /\ \A t \in DOMAIN handles : t # AstSlot => handles'[t] = handles[t]
  BY DEF HandleInv, AstSlot, LoadFails, LoadedInto
<1>2. UNCHANGED <<tkv_count, astv_count, opened, tkv_paths>> /\ stage' = "free"
  BY DEF LoadFails, Fail, pathvars
<1>3. \A l : SlotsOf(l)' = SlotsOf(l)
  <2>1. Counted' = Counted /\ AstSlot \notin Counted
    BY <1>1, <1>2 DEF Counted, AstSlot, HandleInv
  <2> QED
    BY <1>1, <2>1 DEF SlotsOf, Counted
<1> QED
  BY <1>1, <1>2, <1>3 DEF HandleInv, HandlesClosed

\* A step that leaves the table alone and does not end the program keeps it.
LEMMA OtherHandles ==
    ASSUME HandleInv, UNCHANGED tblvars, UNCHANGED tkv_paths,
           stage # "exit", stage' \notin {"init", "exit"} \/ stage' = stage
    PROVE  HandleInv'
BY DEF HandleInv, tblvars, SlotsOf, Counted, HandlesClosed

\* Every step of main keeps the invariant.
LEMMA NextHandles == HandleInv /\ [Next]_vars => HandleInv'
<1> SUFFICES ASSUME HandleInv, [Next]_vars PROVE HandleInv'
  OBVIOUS
<1> USE DEF GoOn, Fail, pathvars
<1>1. CASE LuacInit
  <2>1. CASE stage' = "load"
    BY <1>1, <2>1, OtherHandles DEF LuacInit, xtvars, tblvars
  <2>2. CASE stage' = "exit"
    <3>1. /\ stage = "init" /\ tkv_count = 0 /\ astv_count = 0
          /\ DOMAIN handles \subseteq Nat
          /\ UNCHANGED <<handles, tkv_count, astv_count, opened, tkv_paths>>
      BY <1>1, <2>2 DEF LuacInit, xtvars, HandleInv
    <3>2. \A l \in Libs : SlotsOf(l) = {}
      BY <3>1 DEF SlotsOf, Counted
    <3>3. \A l \in Libs : opened[l] = 0
      BY <3>1, <3>2, FS_EmptySet DEF HandleInv
    <3> QED
      BY <2>2, <3>1, <3>3 DEF HandleInv, HandlesClosed
  <2> QED
    BY <1>1, <2>1, <2>2 DEF LuacInit
<1>2. CASE LoadNextTkv
  <2>1. /\ stage = "load" /\ astv_count = 0 /\ tkv_count \in Nat
        /\ AstSlot = tkv_count
    BY <1>2 DEF LoadNextTkv, HandleInv, AstSlot
  <2>2. CASE LoadTkv(Head(tkv_paths)) /\ stage' = stage
    BY <2>1, <2>2, LoadHandles DEF LoadTkv
  <2>3. CASE LoadFails(tkv_count, Head(tkv_paths)) /\ Fail(1)
    BY <2>1, <2>3, FailHandles
  <2> QED
    BY <1>2, <2>2, <2>3 DEF LoadNextTkv
<1>3. CASE LoadNextAstv
  <2>1. /\ stage = "load" /\ astv_count \in Nat /\ tkv_count \in Nat
        /\ tkv_paths = <<>> /\ tkv_paths' = tkv_paths
    BY <1>3 DEF LoadNextAstv, HandleInv
  <2>2. CASE LoadAstv(Head(astv_paths)) /\ stage' = stage
    <3>1. /\ tkv_count' = tkv_count /\ astv_count' = astv_count + 1
          /\ Load(AstSlot, Head(astv_paths))
      BY <2>2 DEF LoadAstv
    <3>2. tkv_count' + astv_count' = AstSlot + 1
      BY <2>1, <3>1 DEF AstSlot
    <3> QED
      BY <2>1, <2>2, <3>1, <3>2, LoadHandles
  <2>3. CASE LoadFails(AstSlot, Head(astv_paths)) /\ Fail(1)
    BY <2>1, <2>3, FailHandles
  <2> QED
    BY <1>3, <2>2, <2>3 DEF LoadNextAstv
<1>4. CASE AllLoaded
  BY <1>4, OtherHandles DEF AllLoaded, xtvars, tblvars
<1>5. CASE Pass
  BY <1>5, OtherHandles DEF Pass, NextStage, xtvars, tblvars
<1>6. CASE Visit
  <2>1. UNCHANGED tblvars
    BY <1>6 DEF Visit, Begin, RunStep, HookInit, HookVisit, VisitsEnd, HookDeinit, NoVisitors, After, tblvars
  <2> QED
    BY <1>6, <2>1, OtherHandles DEF Visit, luacvars
<1>7. CASE Visited
  BY <1>7, OtherHandles DEF Visited, NextStage, tblvars
<1>8. CASE OpenOut
  BY <1>8, OtherHandles DEF OpenOut, xtvars, tblvars
<1>9. CASE Dump
  BY <1>9, OtherHandles DEF Dump, xtvars, tblvars, luacvars
<1>10. CASE DumpEnd
  BY <1>10, OtherHandles DEF DumpEnd, xtvars, tblvars
<1>11. CASE Exit
  <2>1. /\ stage = "free" /\ stage' = "exit"
        /\ UNCHANGED <<handles, tkv_count, astv_count, tkv_paths>>
        /\ opened' = [l \in Libs |-> opened[l] - Cardinality(SlotsOf(l))]
    BY <1>11 DEF Exit, Free, SlotsOf
  <2>2. ASSUME NEW l \in Libs PROVE opened'[l] = 0
    <3>1. opened[l] = Cardinality(SlotsOf(l)) /\ Cardinality(SlotsOf(l)) \in Nat
      BY <2>1, SlotsFinite, FS_CardinalityType DEF HandleInv
    <3> QED
      BY <2>1, <3>1
  <2> QED
    BY <2>1, <2>2 DEF HandleInv, HandlesClosed
<1>12. CASE UNCHANGED vars
  BY <1>12 DEF vars, xtvars, luacvars, HandleInv, SlotsOf, Counted, HandlesClosed
<1> QED
  BY <1>1, <1>2, <1>3, <1>4, <1>5, <1>6, <1>7, <1>8, <1>9, <1>10, <1>11, <1>12 DEF Next

-----------------------------------------------------------------------------
(* The theorems on plug-ins *)

\* At any moment at most the running visitor is set up (mcxt.c:9-37, 57-79).
THEOREM AllTornDown == Spec => []VisitorsTornDown
<1>1. VisitInv => VisitorsTornDown
  BY DEF VisitInv
<1> QED
  BY <1>1, InitVisit, NextVisit, PTL DEF Spec

\* Nothing is compiled or written before every visitor has run and agreed
\* (mcluac.c:377-421, mcxt.c:127-145).
THEOREM EveryoneVisited == Spec => []AllVisited
<1>1. VisitInv => AllVisited
  BY DEF VisitInv, RunSoFar, AllVisited, AstEnd
<1> QED
  BY <1>1, InitVisit, NextVisit, PTL DEF Spec

\* Every library is closed as often as it was opened (mcluac.c:496-515).
THEOREM LibrariesClosed == Spec => []HandlesClosed
<1>1. HandleInv => HandlesClosed
  BY DEF HandleInv
<1> QED
  BY <1>1, InitHandles, NextHandles, PTL DEF Spec

-----------------------------------------------------------------------------
(* Instruction words *)

\* Two numbers of two digits are equal only if their digits are.
LEMMA SameDigits ==
    ASSUME NEW m \in Nat \ {0}, NEW d \in 0 .. m - 1, NEW e \in 0 .. m - 1,
           NEW r \in Int, NEW q \in Int, d + r * m = e + q * m
    PROVE  d = e /\ r = q
<1>1. (r - q) * m = e - d
  OBVIOUS
<1>2. CASE r - q >= 1
  <2>1. (r - q - 1) * m >= 0
    BY <1>2
  <2> QED
    BY <2>1, <1>1
<1>3. CASE r - q <= -1
  <2>1. (q - r - 1) * m >= 0
    BY <1>3
  <2> QED
    BY <2>1, <1>1
<1> QED
  BY <1>1, <1>2, <1>3

\* The low digit and the rest of a number of two digits (lib/mclops.h:182-190).
LEMMA Digits ==
    ASSUME NEW m \in Nat \ {0}, NEW d \in 0 .. m - 1, NEW r \in Nat
    PROVE  /\ d + r * m \in Nat
           /\ (d + r * m) % m = d
           /\ (d + r * m) \div m = r
<1> DEFINE n == d + r * m
<1>1. r * m \in Nat
  OBVIOUS
<1>2. n \in Nat
  BY <1>1
<1>3. n = (n % m) + (n \div m) * m /\ n \div m \in Int /\ n % m \in 0 .. m - 1
  BY <1>2
<1>4. d = n % m /\ r = n \div m
  <2> DEFINE q == n \div m
             e == n % m
  <2>1. d + r * m = e + q * m
    BY <1>3
  <2>2. q \in Int /\ e \in 0 .. m - 1
    BY <1>3
  <2> HIDE DEF q, e
  <2>3. d = e /\ r = q
    BY <2>1, <2>2, SameDigits
  <2> QED
    BY <2>3 DEF q, e
<1> QED
  BY <1>2, <1>4

\* A digit put on top of a number of one field makes a number of two.
LEMMA OnTop ==
    ASSUME NEW m \in Nat \ {0}, NEW n \in Nat \ {0}, NEW d \in 0 .. m - 1, NEW e \in 0 .. n - 1
    PROVE  d + e * m \in 0 .. m * n - 1 /\ m * n \in Nat \ {0}
<1>1. e * m \in Nat /\ m * n \in Nat
  OBVIOUS
<1>2. (n - 1 - e) * m >= 0
  OBVIOUS
<1>3. (n - 1 - e) * m = m * n - m - e * m
  OBVIOUS
<1>4. m * n # 0
  OBVIOUS
<1> QED
  BY <1>1, <1>2, <1>3, <1>4

-----------------------------------------------------------------------------
(* The places of the fields *)

\* The fields lie one above the other.
LEMMA Places ==
    /\ PosA \in Nat \ {0} /\ PosK \in Nat \ {0} /\ PosB \in Nat \ {0} /\ PosC \in Nat \ {0}
    /\ OpRange \in Nat \ {0} /\ U8 \in Nat \ {0}
<1>1. OpRange \in Nat \ {0} /\ U8 \in Nat \ {0}
  BY OpsAssumption
<1>2. PosA \in Nat \ {0}
  BY <1>1 DEF PosA
<1>3. \A x, y \in Nat \ {0} : x * y \in Nat \ {0}
  OBVIOUS
<1>4. PosK \in Nat \ {0}
  BY <1>1, <1>2, <1>3 DEF PosK
<1>5. PosB \in Nat \ {0}
  BY <1>4 DEF PosB
<1>6. PosC \in Nat \ {0}
  BY <1>1, <1>5, <1>3 DEF PosC
<1> QED
  BY <1>1, <1>2, <1>4, <1>5, <1>6

\* The fields below a place stay below it.
LEMMA Below ==
    ASSUME NEW o \in 0 .. OpRange - 1, NEW a \in 0 .. U8 - 1, NEW k \in 0 .. 1, NEW b \in 0 .. U8 - 1
    PROVE  /\ o + a * PosA \in 0 .. PosK - 1
           /\ o + a * PosA + k * PosK \in 0 .. PosB - 1
           /\ o + a * PosA + k * PosK + b * PosB \in 0 .. PosC - 1
<1>1. o + a * PosA \in 0 .. PosK - 1
  BY OnTop, Places DEF PosA, PosK
<1>2. (o + a * PosA) + k * PosK \in 0 .. PosB - 1
  BY <1>1, OnTop, Places DEF PosB
<1>3. ((o + a * PosA) + k * PosK) + b * PosB \in 0 .. PosC - 1
  BY <1>2, OnTop, Places DEF PosC
<1> QED
  BY <1>1, <1>2, <1>3

\* A CREATE_ABCk word gives back its opcode and its four operands
\* (lib/mclops.h:172-186).
THEOREM ABCkRoundTrip ==
    ASSUME NEW o \in 0 .. OpRange - 1, NEW a \in 0 .. U8 - 1, NEW b \in 0 .. U8 - 1,
           NEW c \in 0 .. U8 - 1, NEW k \in 0 .. 1
    PROVE  LET i == CreateABCk(o, a, b, c, k)
           IN  /\ GetOpcode(i) = o /\ GetArgA(i) = a /\ GetArgK(i) = k
               /\ GetArgB(i) = b /\ GetArgC(i) = c
<1> DEFINE i == CreateABCk(o, a, b, c, k)
           hk == k + (b + c * U8) * 2
           ha == a + hk * U8
<1>1. /\ b + c * U8 \in Nat /\ (b + c * U8) % U8 = b
      /\ c % U8 = c
  BY Digits, Places
<1>2. hk \in Nat /\ hk % 2 = k
  BY <1>1, Digits
<1>3. ha \in Nat /\ ha % U8 = a
  BY <1>2, Digits, Places
<1>4. i = o + ha * PosA
  BY Places DEF CreateABCk, PosA, PosK, PosB, PosC
<1>5. i = (o + a * PosA) + hk * PosK
  BY Places DEF CreateABCk, PosA, PosK, PosB, PosC
<1>6. i = (o + a * PosA + k * PosK) + (b + c * U8) * PosB
  BY Places DEF CreateABCk, PosA, PosK, PosB, PosC
<1>7. i = (o + a * PosA + k * PosK + b * PosB) + c * PosC
  BY Places DEF CreateABCk
<1> HIDE DEF i, hk, ha
<1>8. GetOpcode(i) = o /\ GetArgA(i) = a
  BY <1>3, <1>4, Digits, Places DEF GetOpcode, GetArgA, PosA
<1>9. GetArgK(i) = k
  BY <1>2, <1>5, Below, Digits, Places, ZenonT(40) DEF GetArgK
<1>10. GetArgB(i) = b
  <2> DEFINE low == o + a * PosA + k * PosK
             rest == b + c * U8
  <2>1. low \in 0 .. PosB - 1
    BY Below
  <2>2. rest \in Nat /\ rest % U8 = b
    BY <1>1
  <2>3. i = low + rest * PosB
    BY <1>6
  <2> HIDE DEF low, rest
  <2>4. i \div PosB = rest
    BY <2>1, <2>2, <2>3, Digits, Places
  <2> QED
    BY <2>2, <2>4 DEF GetArgB
<1>11. GetArgC(i) = c
  <2> DEFINE low == o + a * PosA + k * PosK + b * PosB
  <2>1. low \in 0 .. PosC - 1
    BY Below
  <2>2. i = low + c * PosC
    BY <1>7
  <2> HIDE DEF low
  <2>3. i \div PosC = c
    BY <2>1, <2>2, Digits, Places
  <2> QED
    BY <1>1, <2>3 DEF GetArgC
<1> QED
  BY <1>8, <1>9, <1>10, <1>11 DEF i

\* A CREATE_ABx word gives back its opcode and its operands (lib/mclops.h:176-187).
THEOREM ABxRoundTrip ==
    ASSUME NEW o \in 0 .. OpRange - 1, NEW a \in 0 .. U8 - 1, NEW bx \in 0 .. MaxArgBx
    PROVE  LET i == CreateABx(o, a, bx)
           IN  GetOpcode(i) = o /\ GetArgA(i) = a /\ GetArgBx(i) = bx
<1> DEFINE i == CreateABx(o, a, bx)
           ha == a + bx * U8
<1>1. MaxArgBx + 1 \in Nat \ {0} /\ bx % (MaxArgBx + 1) = bx
  <2>1. U8 * U8 \in Nat \ {0}
    BY Places
  <2>2. MaxArgBx \in Nat
    BY <2>1, Places DEF MaxArgBx
  <2> QED
    BY <2>2, Digits
<1>2. bx \in Nat
  BY <1>1
<1>3. ha \in Nat /\ ha % U8 = a
  BY <1>2, Digits, Places
<1>4. i = o + ha * PosA
  BY <1>2, Places DEF CreateABx, PosA, PosK
<1>5. i = (o + a * PosA) + bx * PosK
  BY DEF CreateABx
<1> HIDE DEF i, ha
<1>6. GetOpcode(i) = o /\ GetArgA(i) = a
  BY <1>3, <1>4, Digits, Places DEF GetOpcode, GetArgA, PosA
<1>7. GetArgBx(i) = bx
  <2>1. o + a * PosA \in 0 .. PosK - 1
    BY OnTop, Places DEF PosA, PosK
  <2> DEFINE low == o + a * PosA
  <2>2. low \in 0 .. PosK - 1 /\ i = low + bx * PosK
    BY <1>5, <2>1
  <2> HIDE DEF low
  <2>3. i \div PosK = bx
    BY <1>2, <2>2, Digits, Places
  <2> QED
    BY <1>1, <2>3 DEF GetArgBx
<1> QED
  BY <1>6, <1>7 DEF i

\* A number that the compiler finds small enough for LOADI or LOADF
\* (mccompile.c:340, 359) comes back with its sign (lib/mclops.h:168, 178, 188).
THEOREM AsBxRoundTrip ==
    ASSUME NEW o \in 0 .. OpRange - 1, NEW a \in 0 .. U8 - 1, NEW n \in -OffsetSBx .. OffsetSBx
    PROVE  LET i == CreateAsBx(o, a, n)
           IN  GetOpcode(i) = o /\ GetArgA(i) = a /\ GetArgSBx(i) = n
<1>1. MaxArgBx \in Nat /\ OffsetSBx \in Nat /\ 2 * OffsetSBx <= MaxArgBx
  <2>1. U8 * U8 \in Nat \ {0}
    BY Places
  <2>2. MaxArgBx \in Nat
    BY <2>1, Places DEF MaxArgBx
  <2> QED
    BY <2>2 DEF OffsetSBx
<1>2. n + OffsetSBx \in 0 .. MaxArgBx
  BY <1>1
<1> QED
  BY <1>1, <1>2, ABxRoundTrip DEF CreateAsBx, GetArgSBx

\* A jump comes back with its distance, forward or back (lib/mclops.h:170, 180, 190).
THEOREM SJRoundTrip ==
    ASSUME NEW o \in 0 .. OpRange - 1, NEW sj \in -OffsetSJ .. OffsetSJ
    PROVE  LET i == CreateSJ(o, sj) IN GetOpcode(i) = o /\ GetArgSJ(i) = sj
<1>1. MaxArgSJ \in Nat /\ OffsetSJ \in Nat /\ 2 * OffsetSJ <= MaxArgSJ
  <2>1. U8 * U8 * U8 \in Nat \ {0}
    BY Places
  <2>2. MaxArgSJ = 2 * (U8 * U8 * U8) - 1
    BY Places DEF MaxArgSJ
  <2>3. MaxArgSJ \in Nat
    BY <2>1, <2>2
  <2> QED
    BY <2>3 DEF OffsetSJ
<1> DEFINE x == sj + OffsetSJ
           i == CreateSJ(o, sj)
<1>2. x \in 0 .. MaxArgSJ
  BY <1>1
<1>3. x \in Nat /\ x % (MaxArgSJ + 1) = x
  BY <1>1, <1>2, Digits
<1>4. i = o + x * PosA
  BY DEF CreateSJ
<1> HIDE DEF x, i
<1>5. GetOpcode(i) = o /\ i \div PosA = x
  BY <1>3, <1>4, Digits, Places DEF GetOpcode, PosA
<1>6. GetArgSJ(i) = x - OffsetSJ
  BY <1>3, <1>5 DEF GetArgSJ
<1> QED
  BY <1>1, <1>5, <1>6 DEF x, i
=============================================================================
