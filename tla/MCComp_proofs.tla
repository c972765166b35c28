--------------------------- MODULE MCComp_proofs ---------------------------
(***************************************************************************)
(* The statement compiler, for every script, any depth of blocks and       *)
(* functions, and every limit: its state is well typed, an upvalue denotes *)
(* the variable its name means, and what is returned is whole.             *)
(***************************************************************************)
EXTENDS MCCompProps, SequenceTheorems, FiniteSetTheorems, TLAPS

-----------------------------------------------------------------------------
(* Types *)

Reg == 0 .. U8 - 1
PlainOps == {"LOADI", "MOVE", "GETUPVAL", "GETTABUP", "CALL", "VARARG", "LOADNIL", "TEST", "TBC",
             "SETUPVAL", "SETTABUP", "RETURN0", "RETURN", "TFORCALL", "CLOSE", "VARARGPREP",
             "CLOSURE"}
Looping == {"FORPREP", "FORLOOP", "TFORPREP", "TFORLOOP"}
Ops == {"JMP"} \cup Looping \cup PlainOps
Instrs == [op : Ops, a : Int, b : Int, c : Int, k : BOOLEAN]
LocalVar == [name : Names \cup {ForState}, reg : Reg, attrib : Attrs \cup {"none"}]
Upval == [name : Names \cup {Env}, instack : BOOLEAN, idx : Int]
Label == [name : Labels \cup {Done}, pc : Int]
Losses == {"code", "test", "name", "capture"}

Comp == [code : Seq(Instrs), locals : Seq(LocalVar), nactive : Reg, freereg : Reg,
         maxreg : Reg, breaks : Seq(Int), in_loop : Int, error : BOOLEAN, has_tbc : BOOLEAN,
         has_capture : BOOLEAN, labels : Seq(Label), gotos : Seq(Label), upvals : Seq(Upval),
         num_params : Int, is_vararg : BOOLEAN, max_stack : Int, lost : SUBSET Losses,
         owed : SUBSET [pc : Int, loop : Int], lands : SUBSET [pc : Int, at : Int],
         jumps : SUBSET [pc : Int, name : Labels]]

\* What was lost is known, or of the kind that goes unnoticed.
Whole(c) == c.error \/ c.lost \subseteq Unnoticed

CompOK(c) ==
    /\ c \in Comp
    /\ c.nactive <= Len(c.locals)
    /\ Len(c.breaks) <= MaxBreaks
    /\ Whole(c)

\* Instructions that go on to the next one, or jump there until they are patched.
Plain(i) == i.op \notin Looping /\ (i.op = "JMP" => i.a = 0)
Plains == {i \in Instrs : Plain(i)}

\* What concerns jumps is as it was, but for plain code that has been added.
Coded(c, d) ==
    /\ d.breaks = c.breaks /\ d.in_loop = c.in_loop
    /\ d.labels = c.labels /\ d.gotos = c.gotos
    /\ d.owed = c.owed /\ d.lands = c.lands /\ d.jumps = c.jumps
    /\ Len(c.code) <= Len(d.code)
    /\ \A i \in DOMAIN c.code : d.code[i] = c.code[i]
    /\ \A i \in DOMAIN d.code : i > Len(c.code) => Plain(d.code[i])

\* Code has only been added, and registers been used: c has become d.
Kept(c, d) ==
    /\ CompOK(d)
    /\ d.locals = c.locals /\ d.nactive = c.nactive
    /\ Coded(c, d)

\* And no upvalue has been added.
Added(c, d) == Kept(c, d) /\ d.upvals = c.upvals

-----------------------------------------------------------------------------
(* Numbers and sequences *)

ExpStep(es, F, n) == Exp(F, es[n], 1)
ExpRun == INSTANCE NatSteps WITH Op <- ExpStep
DeclareStep(par, c, n) == NewLocal(c, par[1][n], par[2] + n - 1)
DeclareRun == INSTANCE NatSteps WITH Op <- DeclareStep
AssignStep(par, F, n) == AssignOne(F, par[1][n], (par[2] + n - 1) % U8)
AssignRun == INSTANCE NatSteps WITH Op <- AssignStep
HolderStep(F, H, d) ==
    [i \in DOMAIN F[d].upvals |->
        LET u == F[d].upvals[i]
        IN  IF u.instack THEN <<d - 1, u.idx>> ELSE H[u.idx]]
HolderRun == INSTANCE NatSteps WITH Op <- HolderStep

\* Registers are numbers modulo U8.
LEMMA RegMod == /\ 0 \in Reg /\ Reg \subseteq Nat
                /\ \A n \in Int : n % U8 \in Reg
                /\ \A n \in Int : n % U8 <= n \/ n < 0
BY CompAssumption DEF Reg

\* A set of numbers up to n has a greatest one.
LEMMA GreatestOf ==
    ASSUME NEW n \in Nat, NEW S \in SUBSET (1..n), S # {}
    PROVE  \E m \in S : \A k \in S : k <= m
<1> DEFINE Up == {k \in 0..n : n - k \in S}
<1>0. Up \in SUBSET Nat
  OBVIOUS
<1>1. Up # {}
  <2>1. PICK s \in S : TRUE
    OBVIOUS
  <2>2. n - s \in 0..n
    OBVIOUS
  <2>3. n - (n - s) = s
    OBVIOUS
  <2>4. n - s \in Up
    BY <2>2, <2>3
  <2> QED
    BY <2>4
<1>2. PICK m \in Up : \A k \in Up : m <= k
  <2> HIDE DEF Up
  <2> QED
    BY <1>0, <1>1, ExpRun!LeastNat
<1>3. n - m \in S /\ m \in Nat
  BY <1>2
<1>4. ASSUME NEW k \in S PROVE k <= n - m
  <2>1. n - k \in Up
    OBVIOUS
  <2>2. m <= n - k
    BY <1>2, <2>1
  <2> QED
    BY <1>3, <2>2
<1> QED
  BY <1>3, <1>4

\* What Append and Front do to the elements.
LEMMA AppendIs ==
    ASSUME NEW S, NEW s \in Seq(S), NEW x \in S
    PROVE  /\ Append(s, x) \in Seq(S)
           /\ Len(Append(s, x)) = Len(s) + 1
           /\ DOMAIN Append(s, x) = 1 .. Len(s) + 1
           /\ \A i \in 1 .. Len(s) : Append(s, x)[i] = s[i]
           /\ Append(s, x)[Len(s) + 1] = x
OBVIOUS

\* A prefix of a sequence.
LEMMA PrefixIs ==
    ASSUME NEW S, NEW s \in Seq(S), NEW n \in Nat, n <= Len(s)
    PROVE  /\ SubSeq(s, 1, n) \in Seq(S)
           /\ Len(SubSeq(s, 1, n)) = n
           /\ \A i \in 1..n : SubSeq(s, 1, n)[i] = s[i]
OBVIOUS

\* A sequence without its last element.
LEMMA FrontIs ==
    ASSUME NEW S, NEW s \in Seq(S), s # <<>>
    PROVE  /\ Front(s) \in Seq(S)
           /\ Len(Front(s)) = Len(s) - 1 /\ Len(s) \in Nat \ {0}
           /\ DOMAIN Front(s) = 1 .. Len(s) - 1
           /\ \A i \in 1 .. Len(s) - 1 : Front(s)[i] = s[i]
<1>1. Len(s) \in Nat \ {0}
  BY EmptySeq
<1>2. Len(s) - 1 \in Nat /\ Len(s) - 1 <= Len(s)
  BY <1>1
<1>3. Front(s) = SubSeq(s, 1, Len(s) - 1)
  BY DEF Front
<1> DEFINE n == Len(s) - 1
<1>4. n \in Nat /\ n <= Len(s)
  BY <1>2
<1> HIDE DEF n
<1>5. /\ SubSeq(s, 1, n) \in Seq(S)
      /\ Len(SubSeq(s, 1, n)) = n
      /\ \A i \in 1..n : SubSeq(s, 1, n)[i] = s[i]
  BY <1>4, PrefixIs
<1>6. DOMAIN SubSeq(s, 1, n) = 1..n
  BY <1>4, <1>5
<1> QED
  BY <1>1, <1>3, <1>5, <1>6 DEF n

-----------------------------------------------------------------------------
(* The helpers that only add code *)

\* An instruction is one.
LEMMA InstrType ==
    ASSUME NEW op \in Ops, NEW a \in Int, NEW b \in Int, NEW c \in Int
    PROVE  Instr(op, a, b, c) \in Instrs
BY DEF Instr, Instrs

\* A jump that has a distance is an instruction.
LEMMA JumpType == ASSUME NEW a \in Int PROVE Jump(a) \in Instrs
BY InstrType DEF Jump, Ops, PlainOps, Looping

\* Instructions without a place to go to are plain.
LEMMA PlainInstr ==
    ASSUME NEW op \in PlainOps, NEW a \in Int, NEW b \in Int, NEW c \in Int
    PROVE  Instr(op, a, b, c) \in Plains
BY InstrType DEF Plains, Plain, Instr, Ops, PlainOps, Looping

\* And so are jumps that have to be patched.
LEMMA PlainJump == Jump(0) \in Plains
BY JumpType DEF Plains, Plain, Jump, Instr, Looping

\* Code that is added twice is added.
LEMMA CodedTrans ==
    ASSUME NEW c, NEW d, NEW e, c.code \in Seq(Instrs), d.code \in Seq(Instrs), e.code \in Seq(Instrs),
           Coded(c, d), Coded(d, e)
    PROVE  Coded(c, e)
<1>1. /\ DOMAIN c.code = 1 .. Len(c.code) /\ Len(c.code) \in Nat
      /\ DOMAIN d.code = 1 .. Len(d.code) /\ Len(d.code) \in Nat
      /\ DOMAIN e.code = 1 .. Len(e.code) /\ Len(e.code) \in Nat
  OBVIOUS
<1>2. ASSUME NEW i \in DOMAIN e.code, i > Len(c.code) PROVE Plain(e.code[i])
  <2>1. CASE i > Len(d.code)
    BY <2>1 DEF Coded
  <2>2. CASE i \in DOMAIN d.code
    BY <1>2, <2>2 DEF Coded
  <2> QED
    BY <1>1, <2>1, <2>2
<1> QED
  BY <1>1, <1>2 DEF Coded

\* Kept is a preorder.
LEMMA KeptRefl == ASSUME NEW c, CompOK(c) PROVE Kept(c, c)
BY DEF Kept, Coded, CompOK, Comp

\* Nothing at all may be added.
LEMMA AddedRefl == ASSUME NEW c, CompOK(c) PROVE Added(c, c)
BY KeptRefl DEF Added

\* What two steps keep, both keep together.
LEMMA KeptTrans == ASSUME NEW c, NEW d, NEW e, CompOK(c), Kept(c, d), Kept(d, e) PROVE Kept(c, e)
<1>1. /\ c.code \in Seq(Instrs) /\ d.code \in Seq(Instrs) /\ e.code \in Seq(Instrs)
      /\ DOMAIN c.code = 1 .. Len(c.code) /\ DOMAIN d.code = 1 .. Len(d.code)
      /\ DOMAIN e.code = 1 .. Len(e.code)
  BY DEF Kept, CompOK, Comp
<1>2. Coded(c, e)
  BY <1>1, CodedTrans DEF Kept
<1> QED
  BY <1>2 DEF Kept

\* What two steps add, both add together.
LEMMA AddedTrans == ASSUME NEW c, NEW d, NEW e, CompOK(c), Added(c, d), Added(d, e) PROVE Added(c, e)
BY KeptTrans DEF Added

\* mccomp_emit adds one instruction, or sets error.
LEMMA EmitIs ==
    ASSUME NEW c, CompOK(c), NEW i \in Instrs
    PROVE  LET d == Emit(c, i) IN
           /\ CompOK(d)
           /\ d.locals = c.locals /\ d.nactive = c.nactive
           /\ d.breaks = c.breaks /\ d.in_loop = c.in_loop
           /\ d.labels = c.labels /\ d.gotos = c.gotos
           /\ d.owed = c.owed /\ d.lands = c.lands /\ d.jumps = c.jumps
           /\ d.upvals = c.upvals /\ d.freereg = c.freereg
           /\ d.code = IF heap = "full" THEN c.code ELSE Append(c.code, i)
           /\ Len(c.code) \in Nat
           /\ Len(d.code) = IF heap = "full" THEN Len(c.code) ELSE Len(c.code) + 1
           /\ DOMAIN c.code = 1 .. Len(c.code) /\ DOMAIN d.code = 1 .. Len(d.code)
           /\ \A j \in DOMAIN c.code : d.code[j] = c.code[j]
           /\ heap # "full" => d.code[Len(c.code) + 1] = i
<1> DEFINE d == Emit(c, i)
<1>1. d \in Comp
  <2>1. c \in Comp
    BY DEF CompOK
  <2>2. Append(c.code, i) \in Seq(Instrs) /\ Bigger(c.maxreg, c.freereg) \in Reg
    BY <2>1 DEF Comp, Bigger
  <2>3. [c EXCEPT !.error = TRUE, !.lost = c.lost \cup {"code"}] \in Comp
    BY <2>1, ZenonT(40) DEF Comp, Losses
  <2> DEFINE x == Append(c.code, i)
             y == Bigger(c.maxreg, c.freereg)
  <2>4. x \in Seq(Instrs) /\ y \in Reg
    BY <2>2
  <2> HIDE DEF x, y
  <2>5. [c EXCEPT !.code = x, !.maxreg = y] \in Comp
    BY <2>1, <2>4, ZenonT(40) DEF Comp
  <2>6. d = IF heap = "full" THEN [c EXCEPT !.error = TRUE, !.lost = c.lost \cup {"code"}]
            ELSE [c EXCEPT !.code = x, !.maxreg = y]
    BY DEF Emit, x, y
  <2> HIDE DEF d
  <2> QED
    BY <2>3, <2>5, <2>6
<1>2. /\ d.locals = c.locals /\ d.nactive = c.nactive
      /\ d.breaks = c.breaks /\ d.in_loop = c.in_loop
      /\ d.labels = c.labels /\ d.gotos = c.gotos
      /\ d.owed = c.owed /\ d.lands = c.lands /\ d.jumps = c.jumps
      /\ d.upvals = c.upvals /\ d.freereg = c.freereg /\ Whole(d)
  BY DEF CompOK, Comp, Emit, Whole
<1>3. d.code = IF heap = "full" THEN c.code ELSE Append(c.code, i)
  BY DEF CompOK, Comp, Emit
<1>4. c.code \in Seq(Instrs) /\ DOMAIN c.code = 1 .. Len(c.code) /\ Len(c.code) \in Nat
  BY DEF CompOK, Comp
<1> HIDE DEF d
<1>5. /\ Len(d.code) = IF heap = "full" THEN Len(c.code) ELSE Len(c.code) + 1
      /\ DOMAIN d.code = 1 .. Len(d.code)
      /\ \A j \in DOMAIN c.code : d.code[j] = c.code[j]
      /\ heap # "full" => d.code[Len(c.code) + 1] = i
  BY <1>3, <1>4, AppendIs
<1>6. CompOK(d)
  BY <1>1, <1>2 DEF CompOK
<1> QED
  BY <1>2, <1>3, <1>4, <1>5, <1>6 DEF d

\* A plain instruction.
LEMMA EmitAdded ==
    ASSUME NEW c, CompOK(c), NEW i \in Plains
    PROVE  Added(c, Emit(c, i)) /\ Emit(c, i).freereg = c.freereg
<1> DEFINE d == Emit(c, i)
<1>0. i \in Instrs /\ Plain(i)
  BY DEF Plains
<1>1. CompOK(d) /\ d.locals = c.locals /\ d.nactive = c.nactive /\ d.upvals = c.upvals
      /\ d.freereg = c.freereg
  BY <1>0, EmitIs
<1>2. Len(c.code) <= Len(d.code) /\ \A j \in DOMAIN d.code : j > Len(c.code) => Plain(d.code[j])
  <2>1. /\ Len(c.code) \in Nat /\ DOMAIN d.code = 1 .. Len(d.code)
        /\ Len(d.code) = IF heap = "full" THEN Len(c.code) ELSE Len(c.code) + 1
        /\ heap # "full" => d.code[Len(c.code) + 1] = i
    BY <1>0, EmitIs
  <2> HIDE DEF d
  <2> QED
    BY <1>0, <2>1
<1>3. Coded(c, d)
  BY <1>0, <1>2, EmitIs DEF Coded
<1> QED
  BY <1>1, <1>3 DEF Added, Kept

\* Two functions that differ in registers and in what they note keep the rest.
SameBut(c, d) ==
    /\ d.locals = c.locals /\ d.nactive = c.nactive
    /\ d.breaks = c.breaks /\ d.in_loop = c.in_loop
    /\ d.labels = c.labels /\ d.gotos = c.gotos
    /\ d.owed = c.owed /\ d.lands = c.lands /\ d.jumps = c.jumps
    /\ d.upvals = c.upvals /\ d.code = c.code

\* A change of fields that code and names do not depend on adds nothing.
LEMMA SameAdded ==
    ASSUME NEW c, CompOK(c), NEW d \in Comp, SameBut(c, d), Whole(d)
    PROVE  Added(c, d)
<1>1. c.code \in Seq(Instrs)
  BY DEF CompOK, Comp
<1> QED
  BY <1>1 DEF SameBut, Kept, Coded, CompOK, Added

\* Registers are reserved and given back.
LEMMA FreeAdded ==
    ASSUME NEW c, CompOK(c), NEW n \in Int
    PROVE  Added(c, SetFree(c, n))
<1>1. SetFree(c, n) \in Comp
  BY RegMod, ZenonT(40) DEF CompOK, Comp, SetFree
<1>2. SameBut(c, SetFree(c, n)) /\ Whole(SetFree(c, n))
  BY DEF CompOK, Comp, SetFree, SameBut, Whole
<1> QED
  BY <1>1, <1>2, SameAdded

\* mccomp_reserve moves the registers only.
LEMMA ReserveAdded ==
    ASSUME NEW c, CompOK(c)
    PROVE  Added(c, Reserve(c))
<1>1. Reserve(c) \in Comp
  <2> DEFINE free == (c.freereg + 1) % U8
  <2>1. c \in Comp /\ c.freereg \in Reg /\ free \in Reg
    <3>1. c.freereg \in Reg
      BY DEF CompOK, Comp
    <3> QED
      BY <3>1, RegMod, SMTT(30) DEF CompOK, Reg
  <2>2. Reserve(c) = [c EXCEPT !.freereg = free, !.maxreg = Bigger(c.maxreg, free)]
    BY DEF Reserve
  <2>3. Bigger(c.maxreg, free) \in Reg
    BY <2>1 DEF Comp, Bigger
  <2> HIDE DEF free
  <2> QED
    BY <2>1, <2>2, <2>3, ZenonT(40) DEF Comp
<1>2. SameBut(c, Reserve(c)) /\ Whole(Reserve(c))
  BY DEF CompOK, Comp, Reserve, SameBut, Whole
<1> QED
  BY <1>1, <1>2, SameAdded

\* What is lost in a full arena is noted.
LEMMA NoteAdded ==
    ASSUME NEW c, CompOK(c), NEW what \in Losses, heap = "full" \/ what \in Unnoticed
    PROVE  Added(c, NoteFailure(c, what))
<1>1. NoteFailure(c, what) \in Comp
  BY ZenonT(40) DEF CompOK, Comp, NoteFailure
<1>2. SameBut(c, NoteFailure(c, what)) /\ Whole(NoteFailure(c, what))
  BY DEF CompOK, Comp, NoteFailure, SameBut, Whole
<1> QED
  BY <1>1, <1>2, SameAdded

-----------------------------------------------------------------------------
(* Names *)

FsType(F) ==
    /\ F \in Seq(Comp)
    /\ F # <<>>
    /\ \A l \in DOMAIN F : CompOK(F[l])

\* An upvalue of function d is a captured local of the function around it, or
\* one of that function's upvalues, of the same name and then not a local there,
\* as long as no place of them has been written twice.
UpSound(F, d, u) ==
    u.name # Env =>
        /\ d > 1
        /\ \/ /\ u.instack
              /\ LocalIndex(F[d - 1], u.name) # 0
              /\ u.idx = F[d - 1].locals[LocalIndex(F[d - 1], u.name)].reg
              /\ F[d - 1].has_capture
           \/ /\ ~ u.instack
              /\ LocalIndex(F[d - 1], u.name) = 0
              /\ Len(F[d - 1].upvals) <= U8 =>
                    /\ u.idx \in DOMAIN F[d - 1].upvals
                    /\ F[d - 1].upvals[u.idx].name = u.name

UpsSound(F) == \A d \in DOMAIN F : \A i \in DOMAIN F[d].upvals : UpSound(F, d, F[d].upvals[i])

FsOK(F) == FsType(F) /\ UpsSound(F)

\* Every function has only got more code, and the stack is as deep as it was.
FsKept(F, G) ==
    /\ FsOK(G)
    /\ Len(G) = Len(F)
    /\ \A l \in DOMAIN F : Kept(F[l], G[l])

\* The innermost function of a stack.
LEMMA TopIs ==
    ASSUME NEW F, FsType(F)
    PROVE  /\ Len(F) \in Nat \ {0} /\ DOMAIN F = 1 .. Len(F) /\ Len(F) \in DOMAIN F
           /\ TopOf(F) = F[Len(F)] /\ CompOK(TopOf(F))
<1>1. Len(F) \in Nat \ {0}
  BY EmptySeq DEF FsType
<1> QED
  BY <1>1 DEF FsType, TopOf

\* A local that is found is an active one of that name.
LEMMA LocalIndexIs ==
    ASSUME NEW c, CompOK(c), NEW name, LocalIndex(c, name) # 0
    PROVE  /\ LocalIndex(c, name) \in 1 .. c.nactive
           /\ LocalIndex(c, name) \in DOMAIN c.locals
           /\ c.locals[LocalIndex(c, name)] \in LocalVar
           /\ c.locals[LocalIndex(c, name)].name = name
<1> DEFINE hits == {i \in Active(c) : c.locals[i].name = name}
<1>1. /\ c.nactive \in Nat /\ c.locals \in Seq(LocalVar) /\ c.nactive <= Len(c.locals)
      /\ hits \in SUBSET (1 .. c.nactive)
  BY RegMod DEF CompOK, Comp, Active
<1>2. hits # {} /\ LocalIndex(c, name) = CHOOSE i \in hits : \A j \in hits : j <= i
  BY DEF LocalIndex
<1> HIDE DEF hits
<1>3. \E m \in hits : \A k \in hits : k <= m
  BY <1>1, <1>2, GreatestOf
<1>4. LocalIndex(c, name) \in hits
  BY <1>2, <1>3
<1>5. LocalIndex(c, name) \in 1 .. c.nactive
  BY <1>1, <1>4
<1> QED
  BY <1>1, <1>4, <1>5 DEF hits

\* An upvalue that is found is one of that name.
LEMMA UpIndexIs ==
    ASSUME NEW c, CompOK(c), NEW name
    PROVE  /\ UpIndex(c, name) \in Nat
           /\ UpIndex(c, name) # 0 =>
                /\ UpIndex(c, name) \in DOMAIN c.upvals
                /\ c.upvals[UpIndex(c, name)].name = name
<1> DEFINE first == Len(c.upvals) - NumUpvals(c) + 1
           hits  == {i \in first .. Len(c.upvals) : c.upvals[i].name = name}
<1>1. hits \in SUBSET Nat /\ \A i \in hits : i # 0 /\ i \in DOMAIN c.upvals
  <2>1. c.upvals \in Seq(Upval)
    BY DEF CompOK, Comp
  <2>2. Len(c.upvals) \in Nat /\ DOMAIN c.upvals = 1 .. Len(c.upvals)
    BY <2>1
  <2>3. first \in Nat \ {0}
    <3> DEFINE n == Len(c.upvals)
    <3>1. n \in Nat /\ n % U8 \in Nat /\ n % U8 <= n
      <4>1. n \in Nat
        BY <2>2
      <4> HIDE DEF n
      <4>2. n \in Int /\ ~ (n < 0)
        BY <4>1
      <4>3. n % U8 \in Reg /\ (n % U8 <= n \/ n < 0)
        BY <4>2, RegMod, Zenon
      <4>4. n % U8 \in Nat
        BY <4>3, RegMod, Zenon
      <4> QED
        BY <4>1, <4>2, <4>3, <4>4, Zenon
    <3> DEFINE m == n % U8
    <3>2. first = n - m + 1
      BY DEF NumUpvals
    <3>3. n \in Nat /\ m \in Nat /\ m <= n
      <4> HIDE DEF n
      <4> QED
        BY <3>1
    <3> HIDE DEF n, first, m
    <3> QED
      BY <3>2, <3>3
  <2> HIDE DEF first
  <2> QED
    BY <2>2, <2>3
<1>2. UpIndex(c, name) = IF hits = {} THEN 0 ELSE CHOOSE i \in hits : \A j \in hits : i <= j
  BY DEF UpIndex
<1>x. \A i \in hits : c.upvals[i].name = name
  OBVIOUS
<1> HIDE DEF hits
<1>3. CASE hits = {}
  BY <1>2, <1>3
<1>4. CASE hits # {}
  <2>1. \E m \in hits : \A k \in hits : m <= k
    BY <1>1, <1>4, ExpRun!LeastNat
  <2>2. UpIndex(c, name) \in hits
    BY <1>2, <1>4, <2>1
  <2>3. UpIndex(c, name) \in Nat
    BY <1>1, <2>2
  <2> QED
    BY <1>1, <1>x, <2>2, <2>3
<1> QED
  BY <1>3, <1>4

\* The places of an array of upvalues are numbered from 1, and only what comes
\* after the last of them is written over another.
LEMMA UpPlaceIs ==
    ASSUME NEW n \in Nat \ {0}
    PROVE  UpPlace(n) \in 1 .. U8 /\ (n <= U8 => UpPlace(n) = n)
<1>1. (n - 1) % U8 \in Reg
  BY RegMod
<1>2. n <= U8 => (n - 1) % U8 = n - 1
  BY CompAssumption
<1> QED
  BY <1>1, <1>2, CompAssumption DEF UpPlace, Reg

\* The level found is the innermost one.
LEMMA UpLevelIs ==
    ASSUME NEW F, FsType(F), NEW name, UpLevel(F, name) # 0
    PROVE  /\ UpLevel(F, name) \in DOMAIN F /\ UpLevel(F, name) \in 1 .. Len(F)
           /\ Finds(F, UpLevel(F, name), name)
           /\ \A l \in DOMAIN F : l > UpLevel(F, name) => ~ Finds(F, l, name)
<1> DEFINE ls == {l \in DOMAIN F : Finds(F, l, name)}
<1>0. Len(F) \in Nat /\ DOMAIN F = 1 .. Len(F)
  BY TopIs
<1>1. ls \in SUBSET (1 .. Len(F))
  BY <1>0
<1>2. ls # {} /\ UpLevel(F, name) = CHOOSE l \in ls : \A m \in ls : m <= l
  BY DEF UpLevel
<1>x. \A l \in DOMAIN F : l \in ls <=> Finds(F, l, name)
  OBVIOUS
<1> HIDE DEF ls
<1>3. \E m \in ls : \A k \in ls : k <= m
  BY <1>0, <1>1, <1>2, GreatestOf
<1>4. UpLevel(F, name) \in ls /\ \A k \in ls : k <= UpLevel(F, name)
  BY <1>2, <1>3
<1>5. UpLevel(F, name) \in 1 .. Len(F)
  BY <1>1, <1>4
<1>6. ASSUME NEW l \in DOMAIN F, l > UpLevel(F, name) PROVE ~ Finds(F, l, name)
  BY <1>0, <1>x, <1>4, <1>5, <1>6
<1> QED
  BY <1>0, <1>x, <1>4, <1>5, <1>6

-----------------------------------------------------------------------------
(* The stack of functions *)

\* The innermost function is replaced.
LEMMA OnIs ==
    ASSUME NEW F, FsType(F), NEW c, CompOK(c)
    PROVE  /\ FsType(On(F, c)) /\ Len(On(F, c)) = Len(F) /\ DOMAIN On(F, c) = DOMAIN F
           /\ TopOf(On(F, c)) = c /\ On(F, c)[Len(F)] = c
           /\ \A l \in DOMAIN F : l # Len(F) => On(F, c)[l] = F[l]
<1>1. /\ Len(F) \in Nat \ {0} /\ DOMAIN F = 1 .. Len(F) /\ Len(F) \in DOMAIN F
      /\ F \in Seq(Comp) /\ c \in Comp
  BY TopIs DEF FsType, CompOK
<1>2. /\ On(F, c) \in Seq(Comp) /\ Len(On(F, c)) = Len(F) /\ DOMAIN On(F, c) = DOMAIN F
      /\ On(F, c)[Len(F)] = c
      /\ \A l \in DOMAIN F : l # Len(F) => On(F, c)[l] = F[l]
  BY <1>1 DEF On
<1>3. On(F, c) # <<>>
  BY <1>1, <1>2
<1> QED
  BY <1>2, <1>3 DEF FsType, TopOf

\* An upvalue is sound by the function around its own.
LEMMA OnOK ==
    ASSUME NEW F, FsOK(F), NEW c, CompOK(c), c.upvals = TopOf(F).upvals
    PROVE  FsOK(On(F, c)) /\ Len(On(F, c)) = Len(F) /\ TopOf(On(F, c)) = c
<1> DEFINE G == On(F, c)
<1>1. /\ FsType(G) /\ Len(G) = Len(F) /\ DOMAIN G = DOMAIN F
      /\ TopOf(G) = c /\ G[Len(F)] = c
      /\ \A l \in DOMAIN F : l # Len(F) => G[l] = F[l]
  BY OnIs, SMTT(30) DEF FsOK
<1>2. Len(F) \in Nat /\ DOMAIN F = 1 .. Len(F) /\ TopOf(F) = F[Len(F)]
  BY TopIs, SMTT(30) DEF FsOK
<1> HIDE DEF G
<1>3. UpsSound(G)
  <2> SUFFICES ASSUME NEW d \in DOMAIN F, NEW i \in DOMAIN G[d].upvals
               PROVE  UpSound(G, d, G[d].upvals[i])
    BY <1>1 DEF UpsSound
  <2>1. G[d].upvals = F[d].upvals
    BY <1>1, <1>2
  <2>2. UpSound(F, d, G[d].upvals[i])
    BY <2>1 DEF FsOK, UpsSound
  <2>3. d > 1 => d - 1 \in DOMAIN F /\ d - 1 # Len(F)
    BY <1>2
  <2>4. d > 1 => G[d - 1] = F[d - 1]
    BY <1>1, <2>3
  <2> QED
    BY <2>2, <2>4 DEF UpSound
<1> QED
  BY <1>1, <1>3, SMTT(30) DEF FsOK, G

\* A change of the innermost function is a change of the stack.
LEMMA OnKept ==
    ASSUME NEW F, FsOK(F), NEW c, Added(TopOf(F), c)
    PROVE  FsKept(F, On(F, c)) /\ TopOf(On(F, c)) = c
<1>1. CompOK(c) /\ c.upvals = TopOf(F).upvals /\ Kept(TopOf(F), c)
  BY DEF Added, Kept, Coded
<1>2. FsOK(On(F, c)) /\ Len(On(F, c)) = Len(F) /\ TopOf(On(F, c)) = c
  BY <1>1, OnOK
<1>3. /\ On(F, c)[Len(F)] = c /\ TopOf(F) = F[Len(F)]
      /\ \A l \in DOMAIN F : l # Len(F) => On(F, c)[l] = F[l]
  BY <1>1, OnIs, TopIs DEF FsOK
<1>4. \A l \in DOMAIN F : Kept(F[l], On(F, c)[l])
  BY <1>1, <1>3, KeptRefl DEF FsOK, FsType
<1> QED
  BY <1>2, <1>4 DEF FsKept

\* The stack may stay as it is.
LEMMA FsKeptRefl == ASSUME NEW F, FsOK(F) PROVE FsKept(F, F)
BY KeptRefl DEF FsKept, FsOK, FsType

\* The same for two steps on the stack.
LEMMA FsKeptTrans ==
    ASSUME NEW F, NEW G, NEW H, FsOK(F), FsKept(F, G), FsKept(G, H)
    PROVE  FsKept(F, H)
<1>1. DOMAIN F = 1 .. Len(F) /\ DOMAIN G = 1 .. Len(G) /\ Len(G) = Len(F)
  BY TopIs DEF FsKept, FsOK
<1>2. \A l \in DOMAIN F : CompOK(F[l]) /\ Kept(F[l], G[l]) /\ Kept(G[l], H[l])
  BY <1>1 DEF FsKept, FsOK, FsType
<1>3. \A l \in DOMAIN F : Kept(F[l], H[l])
  BY <1>2, KeptTrans
<1> QED
  BY <1>3 DEF FsKept

\* What is kept of a stack is kept of its innermost function.
LEMMA FsKeptTop ==
    ASSUME NEW F, NEW G, FsOK(F), FsKept(F, G)
    PROVE  FsOK(G) /\ CompOK(TopOf(F)) /\ CompOK(TopOf(G)) /\ Kept(TopOf(F), TopOf(G)) /\ Len(G) = Len(F)
<1>1. FsOK(G) /\ Len(G) = Len(F) /\ FsType(F) /\ FsType(G)
  BY DEF FsKept, FsOK
<1> QED
  BY <1>1, TopIs DEF FsKept

-----------------------------------------------------------------------------
(* Resolving a name that is an upvalue *)

\* c has become d, which may have more upvalues.
Grown(c, d) ==
    /\ d.locals = c.locals /\ d.nactive = c.nactive
    /\ c.has_capture => d.has_capture
    /\ Len(c.upvals) <= Len(d.upvals)
    /\ \A i \in DOMAIN c.upvals : d.upvals[i] = c.upvals[i]

\* A function whose locals are the same resolves a name to the same local.
LEMMA GrownIndex ==
    ASSUME NEW c, NEW d, Grown(c, d), NEW name
    PROVE  LocalIndex(d, name) = LocalIndex(c, name)
BY DEF Grown, LocalIndex, Active

\* A sound upvalue stays sound when the function around it grows.
LEMMA UpSoundGrown ==
    ASSUME NEW F, NEW G, NEW d, NEW u, CompOK(F[d - 1]), CompOK(G[d - 1]),
           Grown(F[d - 1], G[d - 1]), UpSound(F, d, u)
    PROVE  UpSound(G, d, u)
<1>1. \A name : LocalIndex(G[d - 1], name) = LocalIndex(F[d - 1], name)
  BY GrownIndex
<1>2. /\ DOMAIN F[d - 1].upvals = 1 .. Len(F[d - 1].upvals)
      /\ DOMAIN G[d - 1].upvals = 1 .. Len(G[d - 1].upvals)
      /\ Len(F[d - 1].upvals) \in Nat /\ Len(G[d - 1].upvals) \in Nat
  <2>1. F[d - 1].upvals \in Seq(Upval) /\ G[d - 1].upvals \in Seq(Upval)
    BY DEF CompOK, Comp
  <2> QED
    BY <2>1
<1>3. \A i \in DOMAIN F[d - 1].upvals :
          i \in DOMAIN G[d - 1].upvals /\ G[d - 1].upvals[i] = F[d - 1].upvals[i]
  BY <1>2 DEF Grown
<1>4. Len(G[d - 1].upvals) <= U8 => Len(F[d - 1].upvals) <= U8
  BY <1>2, CompAssumption DEF Grown
<1>5. /\ G[d - 1].locals = F[d - 1].locals
      /\ F[d - 1].has_capture => G[d - 1].has_capture
  BY DEF Grown
<1> QED
  BY <1>1, <1>3, <1>4, <1>5 DEF UpSound

\* The index a name comes to have in a function.
LEMMA UpAfterIs ==
    ASSUME NEW F, NEW l, CompOK(F[l]), NEW name
    PROVE  /\ UpAfter(F, l, name) \in Nat
           /\ Len(F[l].upvals) \in Nat
           /\ UpIndex(F[l], name) # 0 /\ Len(F[l].upvals) <= U8 =>
                UpAfter(F, l, name) = UpIndex(F[l], name)
           /\ UpIndex(F[l], name) = 0 /\ Len(F[l].upvals) + 1 <= U8 =>
                UpAfter(F, l, name) = Len(F[l].upvals) + 1
<1>1. F[l].upvals \in Seq(Upval)
  BY DEF CompOK, Comp
<1>2. Len(F[l].upvals) \in Nat /\ DOMAIN F[l].upvals = 1 .. Len(F[l].upvals)
  BY <1>1
<1>3. CASE UpIndex(F[l], name) # 0
  <2> DEFINE n == UpIndex(F[l], name)
  <2>1. n \in Nat \ {0} /\ n <= Len(F[l].upvals)
    BY <1>2, <1>3, UpIndexIs
  <2>2. UpAfter(F, l, name) = UpPlace(n)
    BY <1>3 DEF UpAfter
  <2> HIDE DEF n
  <2>3. UpPlace(n) \in 1 .. U8 /\ (n <= U8 => UpPlace(n) = n)
    BY <2>1, UpPlaceIs
  <2>4. Len(F[l].upvals) <= U8 => n <= U8
    BY <1>2, <2>1, CompAssumption
  <2> QED
    BY <1>2, <1>3, <2>2, <2>3, <2>4 DEF n
<1>4. CASE UpIndex(F[l], name) = 0
  <2> DEFINE n == Len(F[l].upvals) + 1
  <2>1. n \in Nat \ {0}
    BY <1>2
  <2>2. UpAfter(F, l, name) = UpPlace(n)
    BY <1>4 DEF UpAfter
  <2>3. UpPlace(n) \in 1 .. U8 /\ (n <= U8 => UpPlace(n) = n)
    BY <2>1, UpPlaceIs
  <2> HIDE DEF n
  <2> QED
    BY <1>2, <1>4, <2>2, <2>3 DEF n
<1> QED
  BY <1>3, <1>4

\* A function gets its upvalue only when the one around it has it.
LEMMA GainsIs ==
    ASSUME NEW F, NEW name, NEW l \in DOMAIN F, DOMAIN F \subseteq Nat
    PROVE  /\ Gains(F, l, name) => Needs(F, l, name)
           /\ Gains(F, l, name) /\ l - 1 \in DOMAIN F /\ Needs(F, l - 1, name) =>
                Gains(F, l - 1, name)
<1>1. \A m \in DOMAIN F : m <= l - 1 => m <= l
  OBVIOUS
<1> QED
  BY <1>1 DEF Gains

\* mccomp_resolve_upval, when it finds the name: every function gets at most one
\* more upvalue, and that is sound.
LEMMA ResolveKept ==
    ASSUME NEW F, FsOK(F), NEW name \in Names, UpLevel(F, name) # 0
    PROVE  /\ FsKept(F, ResolveUpval(F, name))
           /\ UpAfter(F, Len(F), name) \in Nat
<1> DEFINE lvl == UpLevel(F, name)
           own == FromLocal(F, name)
           R   == ResolveUpval(F, name)
           New(l) == Gains(F, l, name)
<1>1. /\ FsType(F) /\ F \in Seq(Comp) /\ Len(F) \in Nat \ {0} /\ DOMAIN F = 1 .. Len(F)
      /\ \A l \in DOMAIN F : CompOK(F[l])
  BY TopIs DEF FsOK, FsType
<1>2. /\ lvl \in 1 .. Len(F) /\ Finds(F, lvl, name)
      /\ \A l \in DOMAIN F : l > lvl => ~ Finds(F, l, name)
  BY <1>1, UpLevelIs
<1>3. own => UpIndex(F[lvl], name) = 0 /\ lvl > 1 /\ LocalIndex(F[lvl - 1], name) # 0
  BY <1>2 DEF Finds, FromLocal
<1>4. ~ own => UpIndex(F[lvl], name) # 0
  BY DEF FromLocal
<1>5. \A l \in DOMAIN F : l > lvl =>
          UpIndex(F[l], name) = 0 /\ l > 1 /\ LocalIndex(F[l - 1], name) = 0
  BY <1>1, <1>2 DEF Finds
<1>6. /\ DOMAIN R = DOMAIN F
      /\ \A l \in DOMAIN F :
            R[l] = IF New(l) THEN [F[l] EXCEPT !.upvals = Append(@, NewUp(F, l, name))]
                   ELSE IF l = lvl - 1 /\ own THEN [F[l] EXCEPT !.has_capture = TRUE]
                   ELSE F[l]
  BY DEF ResolveUpval
<1>n. \A l \in DOMAIN F :
          /\ New(l) => l > lvl \/ (l = lvl /\ own)
          /\ New(l) /\ l - 1 \in DOMAIN F /\ (l - 1 > lvl \/ (l - 1 = lvl /\ own)) => New(l - 1)
  <2> SUFFICES ASSUME NEW l \in DOMAIN F
               PROVE  /\ New(l) => l > lvl \/ (l = lvl /\ own)
                      /\ New(l) /\ l - 1 \in DOMAIN F /\ (l - 1 > lvl \/ (l - 1 = lvl /\ own))
                            => New(l - 1)
    OBVIOUS
  <2>2. DOMAIN F \subseteq Nat
    BY <1>1
  <2> HIDE DEF lvl, own
  <2>1. ASSUME NEW k \in DOMAIN F
        PROVE  Needs(F, k, name) <=> k > lvl \/ (k = lvl /\ own)
    <3>1. k \in Int /\ lvl \in Int /\ lvl \in DOMAIN F
      BY <1>1, <1>2, <2>1
    <3>2. CASE k > lvl
      <4>1. UpIndex(F[k], name) = 0
        BY <1>5, <2>1, <3>2
      <4>2. \A m \in DOMAIN F : m > k => ~ Finds(F, m, name)
        BY <1>2, <2>2, <3>1, <3>2
      <4> QED
        BY <3>2, <4>1, <4>2 DEF Needs
    <3>3. CASE k = lvl
      <4>1. UpIndex(F[k], name) = 0 <=> own
        BY <1>3, <1>4, <3>3
      <4>2. \A m \in DOMAIN F : m > k => ~ Finds(F, m, name)
        BY <1>2, <3>3
      <4> QED
        BY <3>1, <3>3, <4>1, <4>2 DEF Needs
    <3>4. CASE k < lvl
      <4>1. ~ Needs(F, k, name)
        BY <1>2, <3>1, <3>4 DEF Needs
      <4> QED
        BY <3>1, <3>4, <4>1
    <3> QED
      BY <3>1, <3>2, <3>3, <3>4
  <2> QED
    BY <2>1, <2>2, GainsIs
<1>7. \A l \in DOMAIN F : UpAfter(F, l, name) \in Nat
  BY <1>1, UpAfterIs
<1>8. ASSUME NEW l \in DOMAIN F, New(l)
      PROVE  NewUp(F, l, name) \in Upval /\ NewUp(F, l, name).name = name /\ l > 1 /\ l - 1 \in DOMAIN F
  <2>1. l > 1 /\ l - 1 \in DOMAIN F
    <3>1. l > lvl \/ (l = lvl /\ own)
      BY <1>8, <1>n
    <3> HIDE DEF lvl, own
    <3> QED
      BY <1>1, <1>2, <1>3, <3>1
  <2>2. CASE l = lvl
    <3>0. own
      <4>1. l > lvl \/ (l = lvl /\ own)
        BY <1>8, <1>n
      <4> HIDE DEF lvl, own
      <4> QED
        BY <1>1, <1>2, <2>2, <4>1
    <3>1. F[l - 1].locals[LocalIndex(F[l - 1], name)] \in LocalVar
      BY <1>1, <1>3, <2>1, <2>2, <3>0, LocalIndexIs
    <3>2. F[l - 1].locals[LocalIndex(F[l - 1], name)].reg \in Reg
      BY <3>1 DEF LocalVar
    <3> QED
      BY <2>1, <2>2, <3>2 DEF NewUp, Upval, Reg
  <2>3. CASE l # lvl
    <3>1. UpAfter(F, l - 1, name) \in Int
      BY <1>7, <2>1
    <3> QED
      BY <2>1, <2>3, <3>1 DEF NewUp, Upval
  <2> QED
    BY <2>2, <2>3
<1> HIDE DEF lvl, own, R, New
<1>9. ASSUME NEW l \in DOMAIN F
      PROVE  CompOK(R[l]) /\ Kept(F[l], R[l]) /\ Grown(F[l], R[l])
  <2>1. F[l] \in Comp /\ CompOK(F[l]) /\ F[l].upvals \in Seq(Upval) /\ F[l].code \in Seq(Instrs)
    BY <1>1 DEF CompOK, Comp
  <2>2. CASE New(l)
    <3> DEFINE u == NewUp(F, l, name)
    <3>1. u \in Upval
      BY <1>8, <2>2
    <3>2. R[l] = [F[l] EXCEPT !.upvals = Append(F[l].upvals, u)]
      BY <1>6, <2>2
    <3> HIDE DEF u
    <3>3. /\ Append(F[l].upvals, u) \in Seq(Upval)
          /\ Len(Append(F[l].upvals, u)) = Len(F[l].upvals) + 1
          /\ \A i \in DOMAIN F[l].upvals : Append(F[l].upvals, u)[i] = F[l].upvals[i]
      BY <2>1, <3>1
    <3>4. \A s \in Seq(Upval) : [F[l] EXCEPT !.upvals = s] \in Comp
      BY <2>1 DEF Comp
    <3>5. R[l] \in Comp /\ R[l].upvals = Append(F[l].upvals, u)
      BY <2>1, <3>2, <3>3, <3>4, ZenonT(40) DEF Comp
    <3>6. /\ R[l].locals = F[l].locals /\ R[l].nactive = F[l].nactive
          /\ R[l].breaks = F[l].breaks /\ R[l].in_loop = F[l].in_loop
          /\ R[l].labels = F[l].labels /\ R[l].gotos = F[l].gotos
          /\ R[l].owed = F[l].owed /\ R[l].lands = F[l].lands /\ R[l].jumps = F[l].jumps
          /\ R[l].code = F[l].code /\ R[l].has_capture = F[l].has_capture
          /\ R[l].lost = F[l].lost /\ R[l].error = F[l].error
      BY <2>1, <3>2 DEF Comp
    <3>7. CompOK(R[l])
      BY <2>1, <3>5, <3>6 DEF CompOK, Whole
    <3>8. Kept(F[l], R[l])
      BY <2>1, <3>6, <3>7 DEF Kept, Coded
    <3>9. Grown(F[l], R[l])
      BY <2>1, <3>3, <3>5, <3>6 DEF Grown
    <3> QED
      BY <3>7, <3>8, <3>9
  <2>3. CASE ~ New(l) /\ l = lvl - 1 /\ own
    <3>1. R[l] = [F[l] EXCEPT !.has_capture = TRUE]
      BY <1>6, <2>3
    <3>2. R[l] \in Comp
      BY <2>1, <3>1, ZenonT(40) DEF Comp
    <3>3. SameBut(F[l], R[l]) /\ Whole(R[l]) /\ R[l].has_capture
      BY <2>1, <3>1 DEF Comp, SameBut, Whole, CompOK
    <3>4. Added(F[l], R[l])
      BY <2>1, <3>2, <3>3, SameAdded
    <3> QED
      BY <2>1, <3>3, <3>4 DEF Added, Kept, Coded, Grown
  <2>4. CASE ~ New(l) /\ ~ (l = lvl - 1 /\ own)
    <3>1. R[l] = F[l]
      BY <1>6, <2>4
    <3> QED
      BY <2>1, <3>1, KeptRefl DEF Grown
  <2> QED
    BY <2>2, <2>3, <2>4
<1>10. FsType(R) /\ Len(R) = Len(F)
  <2>1. \A l \in 1 .. Len(F) : R[l] \in Comp
    BY <1>1, <1>9 DEF CompOK
  <2>2. R = [l \in 1 .. Len(F) |-> R[l]]
    BY <1>1 DEF R, ResolveUpval
  <2>3. R \in Seq(Comp) /\ Len(R) = Len(F)
    BY <1>1, <2>1, <2>2
  <2>4. R # <<>>
    BY <1>1, <2>3
  <2> QED
    BY <1>6, <1>9, <2>3, <2>4 DEF FsType
<1>11. ASSUME NEW d \in DOMAIN F, NEW i \in DOMAIN R[d].upvals
       PROVE  UpSound(R, d, R[d].upvals[i])
  <2>0. F[d].upvals \in Seq(Upval)
    BY <1>1 DEF CompOK, Comp
  <2>1. CASE i \in DOMAIN F[d].upvals
    <3>1. UpSound(F, d, R[d].upvals[i])
      BY <1>9, <2>1 DEF FsOK, UpsSound, Grown
    <3>2. CASE d > 1
      <4>1. d - 1 \in DOMAIN F
        BY <1>1, <3>2, SMTT(30)
      <4> QED
        BY <1>1, <1>9, <3>1, <4>1, UpSoundGrown, SMTT(30)
    <3>3. CASE ~ (d > 1)
      BY <3>1, <3>3 DEF UpSound
    <3> QED
      BY <3>2, <3>3
  <2>2. CASE i \notin DOMAIN F[d].upvals
    <3>1. New(d)
      BY <1>1, <1>6, <2>2, ZenonT(40) DEF CompOK, Comp
    <3>2. R[d] = [F[d] EXCEPT !.upvals = Append(F[d].upvals, NewUp(F, d, name))]
      BY <1>6, <3>1
    <3>3. R[d].upvals = Append(F[d].upvals, NewUp(F, d, name))
      BY <1>1, <3>2 DEF CompOK, Comp
    <3>4. NewUp(F, d, name) \in Upval /\ NewUp(F, d, name).name = name /\ d > 1 /\ d - 1 \in DOMAIN F
      BY <1>8, <3>1
    <3>5. i = Len(F[d].upvals) + 1 /\ R[d].upvals[i] = NewUp(F, d, name)
      BY <2>0, <2>2, <3>3, <3>4, AppendIs
    <3>6. \A n : LocalIndex(R[d - 1], n) = LocalIndex(F[d - 1], n)
      BY <1>9, <3>4, GrownIndex
    <3>7. CASE d = lvl
      <4>1. own
        BY <1>1, <1>2, <1>n, <3>1, <3>7
      <4>2. R[d - 1].has_capture
        <5>0. ~ New(d - 1) /\ d - 1 = lvl - 1
          <6>1. New(d - 1) => d - 1 > lvl \/ d - 1 = lvl
            BY <1>n, <3>4
          <6>2. lvl \in Nat
            BY <1>1, <1>2
          <6> QED
            BY <3>7, <6>1, <6>2
        <5>1. R[d - 1] = [F[d - 1] EXCEPT !.has_capture = TRUE]
          BY <1>6, <3>4, <4>1, <5>0
        <5> QED
          BY <1>1, <3>4, <5>1 DEF CompOK, Comp
      <4>3. R[d - 1].locals = F[d - 1].locals
        BY <1>9, <3>4 DEF Grown
      <4> QED
        BY <1>3, <3>4, <3>5, <3>6, <3>7, <4>1, <4>2, <4>3 DEF UpSound, NewUp, lvl
    <3>8. CASE d # lvl
      <4>1. d > lvl /\ d - 1 >= lvl
        BY <1>1, <1>2, <1>n, <3>1, <3>8
      <4>2. LocalIndex(F[d - 1], name) = 0
        BY <1>5, <4>1
      <4> DEFINE j == UpAfter(F, d - 1, name)
      <4>3. NewUp(F, d, name).idx = j /\ ~ NewUp(F, d, name).instack
        BY <3>8 DEF NewUp, lvl
      <4>4. Len(R[d - 1].upvals) <= U8 =>
              j \in DOMAIN R[d - 1].upvals /\ R[d - 1].upvals[j].name = name
        <5>0. F[d - 1].upvals \in Seq(Upval) /\ CompOK(F[d - 1])
          BY <1>1, <3>4 DEF CompOK, Comp
        <5> SUFFICES ASSUME Len(R[d - 1].upvals) <= U8
                     PROVE  j \in DOMAIN R[d - 1].upvals /\ R[d - 1].upvals[j].name = name
          OBVIOUS
        <5>1. CASE UpIndex(F[d - 1], name) # 0
          <6>2. R[d - 1].upvals \in Seq(Upval) /\ Grown(F[d - 1], R[d - 1])
            BY <1>9, <3>4 DEF CompOK, Comp
          <6>0. Len(F[d - 1].upvals) <= U8
            <7>1. /\ Len(F[d - 1].upvals) \in Nat /\ Len(R[d - 1].upvals) \in Nat
                  /\ Len(F[d - 1].upvals) <= Len(R[d - 1].upvals)
              BY <5>0, <6>2 DEF Grown
            <7> QED
              BY <7>1, CompAssumption
          <6>1. j \in DOMAIN F[d - 1].upvals /\ F[d - 1].upvals[j].name = name
            BY <5>0, <5>1, <6>0, UpIndexIs, UpAfterIs
          <6> HIDE DEF j
          <6> QED
            BY <5>0, <6>1, <6>2 DEF Grown
        <5>2. CASE UpIndex(F[d - 1], name) = 0
          <6>1. New(d - 1)
            BY <1>1, <1>2, <1>4, <1>n, <3>1, <3>4, <4>1, <5>2
          <6>2. R[d - 1] = [F[d - 1] EXCEPT !.upvals = Append(F[d - 1].upvals, NewUp(F, d - 1, name))]
            BY <1>6, <3>4, <6>1
          <6>3. R[d - 1].upvals = Append(F[d - 1].upvals, NewUp(F, d - 1, name))
            BY <5>0, <6>2 DEF CompOK, Comp
          <6>4. NewUp(F, d - 1, name) \in Upval /\ NewUp(F, d - 1, name).name = name
            BY <1>8, <3>4, <6>1
          <6>5. j = Len(F[d - 1].upvals) + 1
            <7>1. Len(F[d - 1].upvals) + 1 <= U8
              BY <5>0, <6>3, <6>4, AppendIs
            <7> QED
              BY <5>0, <5>2, <7>1, UpAfterIs
          <6> HIDE DEF j
          <6> QED
            BY <5>0, <6>3, <6>4, <6>5, AppendIs
        <5> QED
          BY <5>1, <5>2
      <4> HIDE DEF j
      <4> QED
        BY <3>4, <3>5, <3>6, <4>2, <4>3, <4>4 DEF UpSound
    <3> QED
      BY <3>7, <3>8
  <2> QED
    BY <2>1, <2>2
<1>12. FsOK(R)
  BY <1>6, <1>10, <1>11 DEF FsOK, UpsSound
<1>13. FsKept(F, R)
  BY <1>9, <1>10, <1>12 DEF FsKept
<1> QED
  BY <1>1, <1>7, <1>13 DEF R

\* A variable that cannot be captured is taken for a global's, which is noted in
\* a full arena and goes unnoticed in others.
LEMMA AsGlobalKept ==
    ASSUME NEW F, FsOK(F), NEW name \in Names, IsGlobal(F, name)
    PROVE  FsKept(F, AsGlobal(F, name)) /\ CompOK(TopOf(AsGlobal(F, name)))
<1>1. CASE UpLevel(F, name) = 0
  BY <1>1, FsKeptRefl, TopIs DEF AsGlobal, FsOK
<1>2. CASE UpLevel(F, name) # 0
  <2> DEFINE R == ResolveUpval(F, name)
  <2>1. heap \in {"short", "lean", "full"}
    BY <1>2 DEF IsGlobal, IsUpval, Stuck
  <2>2. heap = "full" \/ "capture" \in Unnoticed
    BY <2>1 DEF Unnoticed
  <2>3. FsKept(F, R) /\ FsOK(R) /\ CompOK(TopOf(R))
    BY <1>2, ResolveKept, FsKeptTop
  <2>4. AsGlobal(F, name) = On(R, NoteFailure(TopOf(R), "capture"))
    <3>1. Len(R) = Len(F)
      BY <2>3 DEF FsKept
    <3> QED
      BY <1>2, <3>1 DEF AsGlobal, On, TopOf
  <2> HIDE DEF R
  <2>5. Added(TopOf(R), NoteFailure(TopOf(R), "capture"))
    BY <2>2, <2>3, NoteAdded DEF Losses
  <2>6. FsKept(R, AsGlobal(F, name))
    BY <2>3, <2>4, <2>5, OnKept
  <2>7. FsKept(F, AsGlobal(F, name))
    BY <2>3, <2>6, FsKeptTrans
  <2> QED
    BY <2>7, FsKeptTop
<1> QED
  BY <1>1, <1>2

\* It takes no register.
LEMMA AsGlobalFree ==
    ASSUME NEW F, FsOK(F), NEW name \in Names, IsGlobal(F, name)
    PROVE  TopOf(AsGlobal(F, name)).freereg = TopOf(F).freereg
<1>1. CASE UpLevel(F, name) = 0
  BY <1>1 DEF AsGlobal
<1>2. CASE UpLevel(F, name) # 0
  <2> DEFINE R == ResolveUpval(F, name)
             n == NoteFailure(TopOf(R), "capture")
  <2>1. FsKept(F, R) /\ FsType(R) /\ CompOK(TopOf(R)) /\ Len(R) = Len(F)
    BY <1>2, ResolveKept, FsKeptTop DEF FsOK
  <2>2. TopOf(R).freereg = TopOf(F).freereg
    <3> DEFINE l == Len(F)
    <3>1. l \in DOMAIN F /\ TopOf(F) = F[l] /\ F[l] \in Comp /\ TopOf(R) = R[l]
      BY <2>1, TopIs DEF FsOK, CompOK, TopOf
    <3>2. \/ R[l] = [F[l] EXCEPT !.upvals = Append(F[l].upvals, NewUp(F, l, name))]
          \/ R[l] = [F[l] EXCEPT !.has_capture = TRUE]
          \/ R[l] = F[l]
      BY <3>1 DEF ResolveUpval
    <3> HIDE DEF R, l
    <3> QED
      BY <3>1, <3>2 DEF Comp
  <2>3. AsGlobal(F, name) = On(R, n)
    BY <1>2, <2>1 DEF AsGlobal, On, TopOf
  <2>4. n.freereg = TopOf(R).freereg
    BY <2>1 DEF NoteFailure, CompOK, Comp
  <2>5. TopOf(On(R, n)) = n
    <3>1. FsKept(F, On(R, n)) /\ Len(On(R, n)) = Len(F)
      BY <2>3, AsGlobalKept DEF FsKept
    <3>2. R \in Seq(Comp) /\ Len(R) \in DOMAIN R
      BY <2>1, TopIs DEF FsType
    <3> HIDE DEF R, n
    <3> QED
      BY <2>1, <3>1, <3>2 DEF On, TopOf
  <2> QED
    BY <2>2, <2>3, <2>4, <2>5
<1> QED
  BY <1>1, <1>2

-----------------------------------------------------------------------------
(* Expressions *)

\* A register is reserved and an instruction added.
LEMMA LoadAdded ==
    ASSUME NEW c, CompOK(c), NEW i \in Plains
    PROVE  Added(c, Emit(Reserve(c), i))
<1>1. Added(c, Reserve(c)) /\ CompOK(Reserve(c))
  BY ReserveAdded DEF Added, Kept, Coded
<1>2. Added(Reserve(c), Emit(Reserve(c), i))
  BY <1>1, EmitAdded
<1> QED
  BY <1>1, <1>2, AddedTrans

\* Registers of a function are integers.
LEMMA RegInt ==
    ASSUME NEW c, CompOK(c)
    PROVE  /\ c.nactive \in Nat /\ c.freereg \in Nat /\ c.num_params \in Int /\ c.nactive < U8
           /\ Len(c.code) \in Nat /\ FuncLen(c) \in Nat /\ NextPC(c) \in Int
<1>1. c.nactive \in Reg /\ c.freereg \in Reg /\ c.num_params \in Int /\ c.code \in Seq(Instrs)
  BY DEF CompOK, Comp
<1>2. Len(c.code) \in Nat
  BY <1>1
<1> QED
  BY <1>1, <1>2, CompAssumption DEF Reg, FuncLen, NextPC, NoJump

\* A name is loaded from a register, an upvalue or the table of globals.
LEMMA NameKept ==
    ASSUME NEW F, FsOK(F), NEW name \in Names
    PROVE  FsKept(F, Name(F, name))
<1> DEFINE load(G, op, src) == On(G, LET r == Reserve(TopOf(G))
                                     IN  Emit(r, Instr(op, TopOf(G).freereg, src, 0)))
           put(G, op, src) == [G EXCEPT ![Len(F)] = Emit(Reserve(@), Instr(op, @.freereg, src, 0))]
<1>l. ASSUME NEW G, Len(G) = Len(F), NEW op, NEW src
      PROVE  put(G, op, src) = load(G, op, src)
  BY <1>l DEF On, TopOf
<1>1. ASSUME NEW G, FsOK(G), NEW op \in PlainOps, NEW src \in Int
      PROVE  FsKept(G, load(G, op, src))
  <2>1. CompOK(TopOf(G)) /\ TopOf(G).freereg \in Int
    BY <1>1, TopIs, RegInt DEF FsOK
  <2>2. Instr(op, TopOf(G).freereg, src, 0) \in Plains
    BY <1>1, <2>1, PlainInstr
  <2>3. Added(TopOf(G), Emit(Reserve(TopOf(G)), Instr(op, TopOf(G).freereg, src, 0)))
    BY <2>1, <2>2, LoadAdded
  <2> QED
    BY <1>1, <2>3, OnKept
<1>2. {"MOVE", "GETUPVAL", "GETTABUP"} \subseteq PlainOps
  BY DEF PlainOps
<1>3. CompOK(TopOf(F))
  BY TopIs DEF FsOK
<1> DEFINE reg == TopOf(F).locals[LocalIndex(TopOf(F), name)].reg
           R   == ResolveUpval(F, name)
<1>4. Name(F, name) =
        CASE IsLocal(F, name) -> put(F, "MOVE", reg)
          [] IsUpval(F, name) -> put(R, "GETUPVAL", UpAfter(F, Len(F), name))
          [] OTHER            -> put(AsGlobal(F, name), "GETTABUP", 0)
  BY Zenon DEF Name
<1>5. CASE IsLocal(F, name)
  <2>1. TopOf(F).locals[LocalIndex(TopOf(F), name)] \in LocalVar
    BY <1>3, <1>5, LocalIndexIs DEF IsLocal
  <2>2. reg \in Reg
    BY <2>1 DEF LocalVar
  <2>3. reg \in Int
    BY <2>2 DEF Reg
  <2>4. Name(F, name) = load(F, "MOVE", reg)
    <3>1. ~ IsUpval(F, name)
      BY <1>5 DEF IsUpval
    <3>2. put(F, "MOVE", reg) = load(F, "MOVE", reg)
      BY <1>l
    <3> HIDE DEF put, load, reg
    <3> QED
      BY <1>4, <1>5, <3>1, <3>2, Zenon
  <2>5. FsKept(F, load(F, "MOVE", reg))
    BY <1>1, <1>2, <2>3
  <2> HIDE DEF load
  <2> QED
    BY <2>4, <2>5
<1>6. CASE ~ IsLocal(F, name) /\ IsUpval(F, name)
  <2>1. FsKept(F, R) /\ UpAfter(F, Len(F), name) \in Int
    BY <1>6, ResolveKept DEF IsUpval
  <2>2. FsOK(R)
    BY <2>1 DEF FsKept
  <2>3. FsKept(R, load(R, "GETUPVAL", UpAfter(F, Len(F), name)))
    BY <1>1, <1>2, <2>1, <2>2
  <2>4. Name(F, name) = load(R, "GETUPVAL", UpAfter(F, Len(F), name))
    <3>1. Len(R) = Len(F)
      BY <2>1 DEF FsKept
    <3>2. put(R, "GETUPVAL", UpAfter(F, Len(F), name)) = load(R, "GETUPVAL", UpAfter(F, Len(F), name))
      BY <1>l, <3>1
    <3> HIDE DEF put, load
    <3> QED
      BY <1>4, <1>6, <3>2, Zenon
  <2> HIDE DEF load, R
  <2> QED
    BY <2>1, <2>3, <2>4, FsKeptTrans
<1>7. CASE ~ IsLocal(F, name) /\ ~ IsUpval(F, name)
  <2> DEFINE A == AsGlobal(F, name)
  <2>1. FsKept(F, A) /\ FsOK(A)
    BY <1>7, AsGlobalKept DEF IsGlobal, FsKept
  <2>2. Name(F, name) = load(A, "GETTABUP", 0)
    <3>1. Len(A) = Len(F)
      BY <2>1 DEF FsKept
    <3>2. put(A, "GETTABUP", 0) = load(A, "GETTABUP", 0)
      BY <1>l, <3>1
    <3> HIDE DEF put, load
    <3> QED
      BY <1>4, <1>7, <3>2, Zenon
  <2> HIDE DEF A
  <2>3. FsKept(A, load(A, "GETTABUP", 0))
    BY <1>1, <1>2, <2>1
  <2> HIDE DEF load
  <2> QED
    BY <2>1, <2>2, <2>3, FsKeptTrans
<1> QED
  BY <1>5, <1>6, <1>7

\* An expression adds code, upvalues and registers, and keeps every local, label, break and promise.
LEMMA ExpKept ==
    ASSUME NEW F, FsOK(F), NEW e \in Values, NEW want \in Int
    PROVE  FsKept(F, Exp(F, e, want))
<1> DEFINE c    == TopOf(F)
           base == c.freereg
           free == IF want = MultRet THEN base ELSE base + want
           r    == Reserve(c)
           i1   == Instr("GETTABUP", base, 0, 0)
           i2   == Instr("CALL", base, 1, want + 1)
           i3   == Instr("VARARG", base, 0, want + 1)
           i4   == Instr("LOADI", base, 0, 0)
<1>1. CompOK(c) /\ base \in Int /\ free \in Int
  BY TopIs, RegInt DEF FsOK
<1>2. i1 \in Plains /\ i2 \in Plains /\ i3 \in Plains /\ i4 \in Plains
  BY <1>1, PlainInstr DEF PlainOps
<1>3. Exp(F, e, want) =
        CASE e = Const -> On(F, Emit(r, i4))
          [] e = Call  -> On(F, SetFree(Emit(Emit(r, i1), i2), free))
          [] e = Dots  -> On(F, SetFree(Emit(r, i3), free))
          [] OTHER     -> Name(F, e)
  BY Zenon DEF Exp
<1> HIDE DEF c, free, i1, i2, i3, i4
<1>4. Added(c, Emit(r, i1)) /\ Added(c, Emit(r, i3)) /\ Added(c, Emit(r, i4))
  BY <1>1, <1>2, LoadAdded
<1>5. CompOK(Emit(r, i1)) /\ CompOK(Emit(r, i3))
  BY <1>4 DEF Added, Kept, Coded
<1>6. Added(Emit(r, i1), Emit(Emit(r, i1), i2)) /\ CompOK(Emit(Emit(r, i1), i2))
  BY <1>2, <1>5, EmitAdded, ZenonT(40) DEF Added, Kept, Coded
<1>7. /\ Added(Emit(Emit(r, i1), i2), SetFree(Emit(Emit(r, i1), i2), free))
      /\ Added(Emit(r, i3), SetFree(Emit(r, i3), free))
  BY <1>1, <1>5, <1>6, FreeAdded
<1>8. Added(c, Emit(Emit(r, i1), i2))
  BY <1>1, <1>4, <1>6, AddedTrans
<1>9. /\ Added(c, SetFree(Emit(Emit(r, i1), i2), free))
      /\ Added(c, SetFree(Emit(r, i3), free))
  BY <1>1, <1>4, <1>7, <1>8, AddedTrans
<1> HIDE DEF r
<1>10. CASE e \in {Const, Call, Dots}
  BY <1>3, <1>4, <1>9, <1>10, OnKept DEF c, Const, Call, Dots
<1>11. CASE e \notin {Const, Call, Dots}
  <2>1. Exp(F, e, want) = Name(F, e)
    BY <1>3, <1>11, Zenon
  <2>2. e \in Names
    BY <1>11 DEF Values
  <2> QED
    BY <2>1, <2>2, NameKept
<1> QED
  BY <1>10, <1>11

\* Each expression of a list in turn.
LEMMA ExpStepsAre ==
    ASSUME NEW F, NEW es
    PROVE  /\ ExpSteps(F, es)[0] = F
           /\ \A n \in Nat : ExpSteps(F, es)[n + 1] = Exp(ExpSteps(F, es)[n], es[n + 1], 1)
<1>1. ExpSteps(F, es) = ExpRun!Steps(es, F)
  BY DEF ExpSteps, ExpRun!Steps, ExpStep
<1>2. /\ ExpRun!Steps(es, F)[0] = F
      /\ \A n \in Nat : ExpRun!Steps(es, F)[n + 1] = ExpStep(es, ExpRun!Steps(es, F)[n], n + 1)
  BY ExpRun!StepsUnfold, Zenon
<1> QED
  BY <1>1, <1>2 DEF ExpStep

\* The same for the first n of a list.
LEMMA ExpStepsKept ==
    ASSUME NEW F, FsOK(F), NEW es \in Seq(Values), NEW n \in Nat, n <= Len(es)
    PROVE  FsKept(F, ExpSteps(F, es)[n])
<1> DEFINE Good == {k \in Nat : k <= Len(es) => FsKept(F, ExpSteps(F, es)[k])}
<1>1. 0 \in Good
  BY ExpStepsAre, FsKeptRefl
<1>2. ASSUME NEW k \in Nat, k \in Good PROVE k + 1 \in Good
  <2> SUFFICES ASSUME k + 1 <= Len(es) PROVE FsKept(F, ExpSteps(F, es)[k + 1])
    OBVIOUS
  <2> DEFINE G == ExpSteps(F, es)[k]
  <2>1. FsKept(F, G)
    BY <1>2
  <2>2. es[k + 1] \in Values
    OBVIOUS
  <2>3. ExpSteps(F, es)[k + 1] = Exp(G, es[k + 1], 1)
    BY ExpStepsAre
  <2> HIDE DEF G
  <2>4. FsKept(G, Exp(G, es[k + 1], 1))
    BY <2>1, <2>2, ExpKept DEF FsKept
  <2> QED
    BY <2>1, <2>3, <2>4, FsKeptTrans
<1>3. n \in Good
  <2> HIDE DEF Good
  <2>1. \A k \in Nat : k \in Good
    BY <1>1, <1>2, ExpRun!Induct
  <2> QED
    BY <2>1
<1> QED
  BY <1>3

\* The same for a list of expressions, mccomp_exp_multi included.
LEMMA ExpsKept ==
    ASSUME NEW F, FsOK(F), NEW es \in Seq(Values), NEW want \in Int
    PROVE  FsKept(F, Exps(F, es, want))
<1>1. CASE es = <<>>
  BY <1>1, FsKeptRefl DEF Exps
<1>2. CASE es # <<>>
  <2> DEFINE n    == Len(es)
             most == ExpSteps(F, es)[n - 1]
             w    == IF IsMulti(es[n]) THEN want ELSE 1
  <2>1. n \in Nat \ {0} /\ es[n] \in Values
    BY <1>2, EmptySeq
  <2>2. FsKept(F, most)
    BY <2>1, ExpStepsKept
  <2>3. Exps(F, es, want) = Exp(most, es[n], w)
    BY <1>2 DEF Exps
  <2>4. w \in Int
    OBVIOUS
  <2> HIDE DEF n, most, w
  <2>5. FsKept(most, Exp(most, es[n], w))
    BY <2>1, <2>2, <2>4, ExpKept DEF FsKept
  <2> QED
    BY <2>2, <2>3, <2>5, FsKeptTrans
<1> QED
  BY <1>1, <1>2

\* Instructions of conditions, and the jump they end in.
LEMMA CondKept ==
    ASSUME NEW F, FsOK(F), NEW e \in Values
    PROVE  FsKept(F, Cond(F, e)) /\ CondJump(F, e) \in Int
<1> DEFINE c == TopOf(F)
<1>0. CompOK(c)
  BY TopIs DEF FsOK
<1>1. FsKept(F, Cond(F, e))
  <2>1. CASE ExpFails(F, e)
    <3> DEFINE G == IF e = Call THEN F ELSE AsGlobal(F, e)
    <3>1. heap = "full" \/ "test" \in Unnoticed
      BY <2>1 DEF ExpFails, NoConst, Unnoticed
    <3>2. FsKept(F, G) /\ FsOK(G) /\ CompOK(TopOf(G))
      <4>1. CASE e = Call
        BY <4>1, <1>0, FsKeptRefl
      <4>2. CASE e # Call
        <5>1. e \in Names /\ IsGlobal(F, e)
          BY <2>1, <4>2 DEF ExpFails, NeedsConst
        <5> QED
          BY <4>2, <5>1, AsGlobalKept DEF FsKept
      <4> QED
        BY <4>1, <4>2
    <3>3. Cond(F, e) = On(G, NoteFailure(TopOf(G), "test"))
      BY <2>1 DEF Cond
    <3> HIDE DEF G
    <3>4. FsKept(G, On(G, NoteFailure(TopOf(G), "test")))
      BY <3>1, <3>2, NoteAdded, OnKept DEF Losses
    <3> QED
      BY <3>2, <3>3, <3>4, FsKeptTrans
  <2>2. CASE ~ ExpFails(F, e)
    <3> DEFINE G  == Exp(F, e, 1)
               i  == Instr("TEST", c.freereg, 0, 0)
               d1 == Emit(TopOf(G), i)
               d2 == SetFree(d1, d1.nactive)
               d3 == Emit(d2, Jump(0))
    <3>1. FsKept(F, G) /\ FsOK(G) /\ CompOK(TopOf(G))
      BY ExpKept, FsKeptTop
    <3>2. i \in Plains /\ Jump(0) \in Plains
      BY <1>0, RegInt, PlainInstr, PlainJump DEF PlainOps
    <3> HIDE DEF i, G
    <3>3. Added(TopOf(G), d1) /\ CompOK(d1)
      BY <3>1, <3>2, EmitAdded DEF Added, Kept, Coded
    <3> HIDE DEF d1
    <3>4. Added(d1, d2) /\ CompOK(d2)
      BY <3>3, RegInt, FreeAdded, SMTT(30) DEF Added, Kept, Coded
    <3> HIDE DEF d2
    <3>5. Added(d2, d3)
      BY <3>2, <3>4, EmitAdded
    <3> HIDE DEF d3
    <3>6. Added(TopOf(G), d3)
      BY <3>1, <3>3, <3>4, <3>5, AddedTrans
    <3>7. FsKept(G, On(G, d3))
      BY <3>1, <3>6, OnKept
    <3>8. Cond(F, e) = On(G, d3)
      BY <2>2 DEF Cond, G, i, d1, d2, d3
    <3> QED
      BY <3>1, <3>7, <3>8, FsKeptTrans
  <2> QED
    BY <2>1, <2>2
<1>2. CondJump(F, e) \in Int
  <2>1. FuncLen(TopOf(Cond(F, e))) \in Nat
    BY <1>1, FsKeptTop, RegInt
  <2> QED
    BY <2>1 DEF CondJump, NoJump
<1> QED
  BY <1>1, <1>2

\* LOADNIL.
LEMMA LoadNilAdded ==
    ASSUME NEW c, CompOK(c), NEW from \in Int, NEW n \in Int
    PROVE  Added(c, LoadNil(c, from, n))
<1>1. from % U8 \in Int /\ n - 1 \in Int
  BY RegMod DEF Reg
<1>2. Instr("LOADNIL", from % U8, n - 1, 0) \in Plains
  BY <1>1, PlainInstr DEF PlainOps
<1> QED
  BY <1>2, EmitAdded, AddedRefl DEF LoadNil

-----------------------------------------------------------------------------
(* Statements *)

\* A function has been compiled further: its locals and breaks have only become
\* more, and no history of breaks was added.
Moved(c, d) ==
    /\ CompOK(d)
    /\ d.upvals = c.upvals
    /\ Len(c.locals) <= Len(d.locals)
    /\ Len(c.breaks) <= Len(d.breaks)
    /\ d.owed \subseteq c.owed

FsMoved(F, G) ==
    /\ FsOK(G)
    /\ Len(G) = Len(F)
    /\ \A l \in DOMAIN F : /\ Len(F[l].locals) <= Len(G[l].locals)
                           /\ Len(F[l].breaks) <= Len(G[l].breaks)
                           /\ G[l].owed \subseteq F[l].owed

\* The numbers of locals and breaks.
LEMMA LensNat ==
    ASSUME NEW c, CompOK(c)
    PROVE  /\ Len(c.locals) \in Nat /\ Len(c.breaks) \in Nat
           /\ c.locals \in Seq(LocalVar) /\ c.breaks \in Seq(Int)
           /\ Len(c.upvals) \in Nat /\ c.upvals \in Seq(Upval) /\ c.code \in Seq(Instrs)
BY DEF CompOK, Comp

\* A function may stay as it is.
LEMMA MovedRefl == ASSUME NEW c, CompOK(c) PROVE Moved(c, c)
BY LensNat DEF Moved

\* Two moves are a move.
LEMMA MovedTrans == ASSUME NEW c, NEW d, NEW e, CompOK(c), Moved(c, d), Moved(d, e) PROVE Moved(c, e)
<1>1. CompOK(d) /\ CompOK(e)
  BY DEF Moved
<1> QED
  BY <1>1, LensNat, SMTT(30) DEF Moved

\* What only adds to a function moves it.
LEMMA AddedMoved == ASSUME NEW c, CompOK(c), NEW d, Added(c, d) PROVE Moved(c, d)
BY LensNat DEF Added, Kept, Coded, Moved

\* So does any instruction.
LEMMA EmitMoved ==
    ASSUME NEW c, CompOK(c), NEW i \in Instrs
    PROVE  Moved(c, Emit(c, i)) /\ CompOK(Emit(c, i)) /\ Emit(c, i).locals = c.locals
<1>1. /\ CompOK(Emit(c, i)) /\ Emit(c, i).locals = c.locals /\ Emit(c, i).breaks = c.breaks
      /\ Emit(c, i).owed = c.owed /\ Emit(c, i).upvals = c.upvals
  BY EmitIs
<1> QED
  BY <1>1, LensNat DEF Moved

\* The same on the stack.
LEMMA KeptMoved == ASSUME NEW F, FsOK(F), NEW G, FsKept(F, G) PROVE FsMoved(F, G)
<1>1. \A l \in DOMAIN F : CompOK(F[l])
  BY DEF FsOK, FsType
<1>2. \A l \in DOMAIN F : Len(F[l].locals) \in Nat /\ Len(F[l].breaks) \in Nat
  BY <1>1, LensNat
<1>3. \A l \in DOMAIN F : /\ G[l].locals = F[l].locals /\ G[l].breaks = F[l].breaks
                          /\ G[l].owed = F[l].owed
  BY DEF FsKept, Kept, Coded
<1> QED
  BY <1>2, <1>3 DEF FsKept, FsMoved

\* A move of the innermost function is a move of the stack.
LEMMA OnMoved ==
    ASSUME NEW F, FsOK(F), NEW c, Moved(TopOf(F), c)
    PROVE  FsMoved(F, On(F, c)) /\ FsOK(On(F, c)) /\ TopOf(On(F, c)) = c
<1>1. CompOK(c) /\ c.upvals = TopOf(F).upvals
  BY DEF Moved
<1>2. FsOK(On(F, c)) /\ Len(On(F, c)) = Len(F) /\ TopOf(On(F, c)) = c
  BY <1>1, OnOK
<1>3. /\ On(F, c)[Len(F)] = c /\ TopOf(F) = F[Len(F)]
      /\ \A l \in DOMAIN F : l # Len(F) => On(F, c)[l] = F[l]
  BY <1>1, OnIs, TopIs DEF FsOK
<1>4. \A l \in DOMAIN F : Moved(F[l], On(F, c)[l])
  BY <1>3, MovedRefl DEF FsOK, FsType
<1> QED
  BY <1>2, <1>4 DEF FsMoved, Moved

\* The stack may stay as it is.
LEMMA FsMovedRefl == ASSUME NEW F, FsOK(F) PROVE FsMoved(F, F)
BY FsKeptRefl, KeptMoved

\* Two moves of the stack are one.
LEMMA FsMovedTrans ==
    ASSUME NEW F, NEW G, NEW H, FsOK(F), FsMoved(F, G), FsMoved(G, H)
    PROVE  FsMoved(F, H)
<1>1. DOMAIN F = 1 .. Len(F) /\ DOMAIN G = 1 .. Len(G) /\ DOMAIN H = 1 .. Len(H)
      /\ Len(G) = Len(F) /\ Len(H) = Len(F)
  BY TopIs DEF FsMoved, FsOK
<1>2. \A l \in DOMAIN F : CompOK(F[l]) /\ CompOK(G[l]) /\ CompOK(H[l])
  BY <1>1 DEF FsMoved, FsOK, FsType
<1>3. \A l \in DOMAIN F : /\ Len(F[l].locals) \in Nat /\ Len(G[l].locals) \in Nat /\ Len(H[l].locals) \in Nat
                          /\ Len(F[l].breaks) \in Nat /\ Len(G[l].breaks) \in Nat /\ Len(H[l].breaks) \in Nat
  BY <1>2, LensNat
<1>4. ASSUME NEW l \in DOMAIN F
      PROVE  /\ Len(F[l].locals) <= Len(H[l].locals)
             /\ Len(F[l].breaks) <= Len(H[l].breaks)
             /\ H[l].owed \subseteq F[l].owed
  <2>1. /\ Len(F[l].locals) <= Len(G[l].locals) /\ Len(G[l].locals) <= Len(H[l].locals)
        /\ Len(F[l].breaks) <= Len(G[l].breaks) /\ Len(G[l].breaks) <= Len(H[l].breaks)
        /\ G[l].owed \subseteq F[l].owed /\ H[l].owed \subseteq G[l].owed
    BY <1>1 DEF FsMoved
  <2>2. /\ Len(F[l].locals) \in Nat /\ Len(G[l].locals) \in Nat /\ Len(H[l].locals) \in Nat
        /\ Len(F[l].breaks) \in Nat /\ Len(G[l].breaks) \in Nat /\ Len(H[l].breaks) \in Nat
    BY <1>3
  <2>3. \A a, b, c \in Nat : a <= b /\ b <= c => a <= c
    OBVIOUS
  <2>4. Len(F[l].locals) <= Len(H[l].locals) /\ Len(F[l].breaks) <= Len(H[l].breaks)
    BY <2>1, <2>2, <2>3
  <2> QED
    BY <2>1, <2>4
<1> QED
  BY <1>1, <1>4 DEF FsMoved

\* What a move of the stack says of the innermost function.
LEMMA FsMovedTop ==
    ASSUME NEW F, NEW G, FsOK(F), FsMoved(F, G)
    PROVE  /\ FsOK(G) /\ CompOK(TopOf(F)) /\ CompOK(TopOf(G)) /\ Len(G) = Len(F)
           /\ Len(TopOf(F).locals) <= Len(TopOf(G).locals)
           /\ Len(TopOf(F).breaks) <= Len(TopOf(G).breaks)
           /\ TopOf(G).owed \subseteq TopOf(F).owed
<1>1. FsOK(G) /\ Len(G) = Len(F) /\ FsType(F) /\ FsType(G)
  BY DEF FsMoved, FsOK
<1> QED
  BY <1>1, TopIs DEF FsMoved

\* mccomp_patch changes instructions to jumps.
LEMMA PatchIs ==
    ASSUME NEW c, CompOK(c), NEW pcs, NEW target \in Int
    PROVE  /\ Moved(c, PatchAll(c, pcs, target))
           /\ PatchAll(c, pcs, target).locals = c.locals
           /\ PatchAll(c, pcs, target).nactive = c.nactive
           /\ PatchAll(c, pcs, target).breaks = c.breaks
           /\ PatchAll(c, pcs, target).owed = c.owed
           /\ Len(PatchAll(c, pcs, target).code) = Len(c.code)
<1> DEFINE code == [i \in DOMAIN c.code |-> IF i - 1 \in pcs THEN Jump(target - i) ELSE c.code[i]]
           d    == PatchAll(c, pcs, target)
<1>1. /\ c \in Comp /\ c.code \in Seq(Instrs)
      /\ Len(c.code) \in Nat /\ DOMAIN c.code = 1 .. Len(c.code)
      /\ \A i \in DOMAIN c.code : c.code[i] \in Instrs
  <2>1. c \in Comp /\ c.code \in Seq(Instrs)
    BY DEF CompOK, Comp
  <2> QED
    BY <2>1
<1>2. \A i \in 1 .. Len(c.code) : code[i] \in Instrs
  <2> TAKE i \in 1 .. Len(c.code)
  <2>1. Jump(target - i) \in Instrs
    BY JumpType
  <2> QED
    BY <1>1, <2>1
<1>3. code \in Seq(Instrs) /\ Len(code) = Len(c.code)
  <2>1. code = [i \in 1 .. Len(c.code) |-> code[i]]
    BY <1>1
  <2> HIDE DEF code
  <2> QED
    BY <1>1, <1>2, <2>1
<1>4. d = [c EXCEPT !.code = code]
  BY DEF PatchAll
<1> HIDE DEF code, d
<1>5. d \in Comp
  BY <1>1, <1>3, <1>4 DEF Comp
<1>6. /\ d.locals = c.locals /\ d.nactive = c.nactive /\ d.breaks = c.breaks
      /\ d.owed = c.owed /\ d.upvals = c.upvals /\ d.code = code
      /\ d.lost = c.lost /\ d.error = c.error
  BY <1>1, <1>4 DEF Comp
<1>7. CompOK(d)
  BY <1>5, <1>6 DEF CompOK, Whole
<1> QED
  BY <1>3, <1>6, <1>7, LensNat DEF Moved, d

\* Noting where a jump must land changes nothing else.
LEMMA LandsIs ==
    ASSUME NEW c, CompOK(c), NEW pcs \in SUBSET Int
    PROVE  /\ Moved(c, Lands(c, pcs))
           /\ Lands(c, pcs).locals = c.locals /\ Lands(c, pcs).nactive = c.nactive
           /\ Lands(c, pcs).breaks = c.breaks /\ Lands(c, pcs).owed = c.owed
           /\ Lands(c, pcs).code = c.code /\ Lands(c, pcs).in_loop = c.in_loop
<1> DEFINE new == {[pc |-> pc, at |-> FuncLen(c)] : pc \in pcs}
           d   == Lands(c, pcs)
<1>1. new \in SUBSET [pc : Int, at : Int] /\ c \in Comp /\ c.lands \in SUBSET [pc : Int, at : Int]
  <2>1. FuncLen(c) \in Int
    BY RegInt
  <2>2. c \in Comp /\ c.lands \in SUBSET [pc : Int, at : Int]
    BY DEF CompOK, Comp
  <2>3. \A pc \in pcs : [pc |-> pc, at |-> FuncLen(c)] \in [pc : Int, at : Int]
    BY <2>1
  <2>4. new \in SUBSET [pc : Int, at : Int]
    BY <2>3, Zenon
  <2> QED
    BY <2>2, <2>4
<1>2. c.lands \cup new \in SUBSET [pc : Int, at : Int]
  BY <1>1
<1>3. d = [c EXCEPT !.lands = c.lands \cup new]
  BY DEF Lands
<1> HIDE DEF new, d
<1>4. d \in Comp
  BY <1>1, <1>2, <1>3 DEF Comp
<1>5. /\ d.locals = c.locals /\ d.nactive = c.nactive /\ d.breaks = c.breaks
      /\ d.owed = c.owed /\ d.upvals = c.upvals /\ d.code = c.code
      /\ d.lost = c.lost /\ d.error = c.error /\ d.in_loop = c.in_loop
  BY <1>1, <1>3 DEF Comp
<1>6. CompOK(d)
  BY <1>4, <1>5 DEF CompOK, Whole
<1> QED
  BY <1>5, <1>6, LensNat DEF Moved, d

\* mccomp_block gives back what it was given.
LEMMA BlockIs ==
    ASSUME NEW c, CompOK(c), NEW saved \in Reg, saved <= Len(c.locals)
    PROVE  /\ Moved(c, LeaveBlock(c, saved))
           /\ LeaveBlock(c, saved).locals = c.locals
           /\ LeaveBlock(c, saved).breaks = c.breaks /\ LeaveBlock(c, saved).owed = c.owed
<1> DEFINE d == LeaveBlock(c, saved)
<1>0. c \in Comp
  BY DEF CompOK
<1>1. d = [c EXCEPT !.nactive = saved, !.freereg = saved]
  BY DEF LeaveBlock
<1> HIDE DEF d
<1>2. d \in Comp
  BY <1>0, <1>1 DEF Comp
<1>3. /\ d.locals = c.locals /\ d.nactive = saved /\ d.breaks = c.breaks
      /\ d.owed = c.owed /\ d.upvals = c.upvals
      /\ d.lost = c.lost /\ d.error = c.error
  BY <1>0, <1>1 DEF Comp
<1>4. CompOK(d)
  BY <1>2, <1>3 DEF CompOK, Whole
<1> QED
  BY <1>3, <1>4, LensNat DEF Moved, d

\* Every statement ends with freereg at nactive.
LEMMA EndMoved ==
    ASSUME NEW c, CompOK(c)
    PROVE  Moved(c, EndStat(c)) /\ Added(c, EndStat(c))
BY RegInt, FreeAdded, AddedMoved DEF EndStat

\* mccomp_newlocal.
LEMMA NewLocalIs ==
    ASSUME NEW c, CompOK(c), NEW name \in Names \cup {ForState}, NEW reg \in Int
    PROVE  /\ Moved(c, NewLocal(c, name, reg))
           /\ NewLocal(c, name, reg).nactive = (c.nactive + 1) % U8
           /\ NewLocal(c, name, reg).code = c.code
           /\ NewLocal(c, name, reg).breaks = c.breaks
           /\ NewLocal(c, name, reg).owed = c.owed
<1> DEFINE l      == Local(name, reg % U8, "none")
           locals == IF c.nactive < Len(c.locals) THEN [c.locals EXCEPT ![c.nactive + 1] = l]
                     ELSE Append(c.locals, l)
           n      == (c.nactive + 1) % U8
           d      == NewLocal(c, name, reg)
<1>1. /\ c \in Comp /\ c.nactive \in Nat /\ c.nactive < U8 /\ c.nactive <= Len(c.locals)
      /\ c.locals \in Seq(LocalVar) /\ Len(c.locals) \in Nat
  BY RegInt, LensNat DEF CompOK
<1>2. l \in LocalVar
  <2>1. reg % U8 \in Reg
    BY RegMod
  <2> QED
    BY <2>1 DEF Local, LocalVar
<1>3. n \in Reg /\ n <= c.nactive + 1
  BY <1>1, RegMod
<1> HIDE DEF l
<1>4. locals \in Seq(LocalVar) /\ Len(c.locals) <= Len(locals) /\ c.nactive + 1 <= Len(locals)
  BY <1>1, <1>2
<1>5. d = [c EXCEPT !.locals = locals, !.nactive = n]
  BY DEF NewLocal, l
<1> HIDE DEF locals, n, d
<1>6. d \in Comp
  BY <1>1, <1>3, <1>4, <1>5 DEF Comp
<1>7. /\ d.locals = locals /\ d.nactive = n /\ d.breaks = c.breaks /\ d.code = c.code
      /\ d.owed = c.owed /\ d.upvals = c.upvals
      /\ d.lost = c.lost /\ d.error = c.error
  BY <1>1, <1>5 DEF Comp
<1>8. n <= Len(locals)
  <2>1. n \in Int /\ Len(locals) \in Int
    BY <1>3, <1>4 DEF Reg
  <2> QED
    BY <1>1, <1>3, <1>4, <2>1
<1>9. CompOK(d)
  BY <1>6, <1>7, <1>8 DEF CompOK, Whole
<1> QED
  BY <1>4, <1>7, <1>9, LensNat DEF Moved, d, n

\* One more local is one more step of the loop (mccompile.c:928).
LEMMA DeclareStepsAre ==
    ASSUME NEW c, NEW names, NEW base
    PROVE  /\ DeclareSteps(c, names, base)[0] = c
           /\ \A n \in Nat : DeclareSteps(c, names, base)[n + 1] =
                                NewLocal(DeclareSteps(c, names, base)[n], names[n + 1], base + n)
<1> DEFINE par == <<names, base>>
<1>1. DeclareSteps(c, names, base) = DeclareRun!Steps(par, c)
  BY DEF DeclareSteps, DeclareRun!Steps, DeclareStep
<1>2. /\ DeclareRun!Steps(par, c)[0] = c
      /\ \A n \in Nat : DeclareRun!Steps(par, c)[n + 1] = DeclareStep(par, DeclareRun!Steps(par, c)[n], n + 1)
  <2> HIDE DEF par
  <2> QED
    BY DeclareRun!StepsUnfold, Zenon
<1>3. \A n \in Nat : \A d : base + (n + 1) - 1 = base + n =>
                             DeclareStep(par, d, n + 1) = NewLocal(d, names[n + 1], base + n)
  BY DEF DeclareStep
<1> QED
  BY <1>1, <1>2, <1>3

\* A list of names is declared.
LEMMA DeclareMoved ==
    ASSUME NEW c, CompOK(c), NEW names \in Seq(Names \cup {ForState}), NEW base \in Int,
           NEW n \in Nat, n <= Len(names)
    PROVE  /\ Moved(c, DeclareSteps(c, names, base)[n])
           /\ DeclareSteps(c, names, base)[n].code = c.code
           /\ DeclareSteps(c, names, base)[n].breaks = c.breaks
           /\ DeclareSteps(c, names, base)[n].owed = c.owed
<1> DEFINE d(k)    == DeclareSteps(c, names, base)[k]
           Holds(k) == Moved(c, d(k)) /\ d(k).code = c.code /\ d(k).breaks = c.breaks /\ d(k).owed = c.owed
           Good    == {k \in Nat : k <= Len(names) => Holds(k)}
<1>1. 0 \in Good
  BY DeclareStepsAre, MovedRefl
<1>2. ASSUME NEW k \in Nat, k \in Good PROVE k + 1 \in Good
  <2> SUFFICES ASSUME k + 1 <= Len(names) PROVE Holds(k + 1)
    OBVIOUS
  <2>1. Holds(k)
    BY <1>2
  <2>2. names[k + 1] \in Names \cup {ForState} /\ base + k \in Int
    OBVIOUS
  <2>3. d(k + 1) = NewLocal(d(k), names[k + 1], base + k)
    BY DeclareStepsAre
  <2>4. CompOK(d(k))
    BY <2>1 DEF Moved
  <2> DEFINE a == d(k)
             b == d(k + 1)
  <2>5. /\ Moved(c, a) /\ a.code = c.code /\ a.breaks = c.breaks /\ a.owed = c.owed
        /\ CompOK(a) /\ b = NewLocal(a, names[k + 1], base + k)
    BY <2>1, <2>3, <2>4
  <2> HIDE DEF a, b
  <2>6. Moved(a, b) /\ b.code = a.code /\ b.breaks = a.breaks /\ b.owed = a.owed
    BY <2>2, <2>5, NewLocalIs
  <2>7. Moved(c, b)
    BY <2>5, <2>6, MovedTrans
  <2> QED
    BY <2>5, <2>6, <2>7 DEF b
<1>3. n \in Good
  <2> HIDE DEF Good
  <2>1. \A k \in Nat : k \in Good
    BY <1>1, <1>2, ExpRun!Induct
  <2> QED
    BY <2>1
<1> QED
  BY <1>3

\* Declaring locals touches neither code nor breaks nor promises.
LEMMA DeclareAllIs ==
    ASSUME NEW c, CompOK(c), NEW names \in Seq(Names \cup {ForState}), NEW base \in Int
    PROVE  /\ Moved(c, DeclareAll(c, names, base))
           /\ DeclareAll(c, names, base).code = c.code
           /\ DeclareAll(c, names, base).breaks = c.breaks
           /\ DeclareAll(c, names, base).owed = c.owed
<1>1. Len(names) \in Nat
  OBVIOUS
<1> QED
  BY <1>1, DeclareMoved DEF DeclareAll

\* The attribute of the local declared last.
LEMMA AttribsMoved ==
    ASSUME NEW c, CompOK(c), NEW attrib \in Attrs, attrib = "none" \/ c.nactive # 0
    PROVE  Moved(c, Attribs(c, attrib))
<1>1. CASE attrib = "none"
  BY <1>1, MovedRefl DEF Attribs
<1>2. CASE attrib # "none"
  <2> DEFINE n      == c.nactive
             locals == [c.locals EXCEPT ![n].attrib = attrib]
             d      == [c EXCEPT !.locals[n].attrib = attrib]
             i      == Instr("TBC", d.locals[d.nactive].reg, 0, 0)
             e      == Emit(d, i)
             g      == [e EXCEPT !.has_tbc = TRUE]
  <2>1. /\ c \in Comp /\ n \in DOMAIN c.locals /\ c.locals \in Seq(LocalVar)
        /\ c.locals[n] \in LocalVar /\ n <= Len(c.locals)
    <3>1. c \in Comp /\ c.locals \in Seq(LocalVar) /\ n \in Nat /\ n <= Len(c.locals)
      BY RegInt DEF CompOK, Comp
    <3> QED
      BY <1>2, <3>1
  <2>2. [c.locals[n] EXCEPT !.attrib = attrib] \in LocalVar
    BY <2>1 DEF LocalVar
  <2>3. locals \in Seq(LocalVar) /\ Len(locals) = Len(c.locals) /\ locals[n] \in LocalVar
    BY <2>1, <2>2
  <2>4. d = [c EXCEPT !.locals = locals]
    BY <2>1 DEF Comp
  <2> HIDE DEF n, locals, d, i
  <2>5. d \in Comp
    BY <2>1, <2>3, <2>4 DEF Comp
  <2>6. /\ d.locals = locals /\ d.nactive = n /\ d.breaks = c.breaks /\ d.owed = c.owed
        /\ d.upvals = c.upvals /\ d.lost = c.lost /\ d.error = c.error
    BY <2>1, <2>4 DEF Comp, n
  <2>7. CompOK(d) /\ Moved(c, d)
    BY <2>1, <2>3, <2>5, <2>6, LensNat DEF CompOK, Whole, Moved
  <2>8. i \in Plains
    <3>1. locals[n].reg \in Reg
      BY <2>3 DEF LocalVar
    <3>2. d.locals[d.nactive].reg \in Int
      BY <2>6, <3>1 DEF Reg
    <3> QED
      BY <3>2, PlainInstr DEF i, PlainOps
  <2>9. Moved(d, e) /\ CompOK(e) /\ Moved(c, e)
    BY <2>7, <2>8, <1>2, EmitAdded, AddedMoved, MovedTrans DEF Moved
  <2> HIDE DEF e
  <2>10. g \in Comp /\ SameBut(e, g) /\ Whole(g)
    BY <2>9 DEF CompOK, Comp, SameBut, Whole
  <2>11. Moved(e, g)
    BY <2>9, <2>10, SameAdded, AddedMoved
  <2>12. Moved(c, g)
    BY <2>9, <2>11, MovedTrans
  <2>13. Attribs(c, attrib) = IF attrib = "close" THEN g ELSE d
    BY <1>2 DEF Attribs, g, e, i, d, n
  <2> QED
    BY <2>7, <2>12, <2>13
<1> QED
  BY <1>1, <1>2

\* A second look at a prep instruction.
LEMMA PrepMoved ==
    ASSUME NEW c, CompOK(c), NEW pc \in Int, NEW op \in Ops, NEW base \in Int, NEW dist \in Int
    PROVE  /\ Moved(c, SetPrep(c, pc, op, base, dist))
           /\ SetPrep(c, pc, op, base, dist).locals = c.locals
           /\ SetPrep(c, pc, op, base, dist).breaks = c.breaks
           /\ SetPrep(c, pc, op, base, dist).owed = c.owed
<1> DEFINE i    == Instr(op, base, dist, 0)
           code == [c.code EXCEPT ![pc + 1] = i]
           d    == [c EXCEPT !.code = code]
<1>1. i \in Instrs /\ c \in Comp /\ c.code \in Seq(Instrs)
  BY InstrType DEF CompOK, Comp
<1> HIDE DEF i
<1>2. code \in Seq(Instrs)
  <2>1. /\ Len(c.code) \in Nat /\ DOMAIN c.code = 1 .. Len(c.code)
        /\ \A j \in DOMAIN c.code : c.code[j] \in Instrs
    BY <1>1
  <2>2. code = [j \in 1 .. Len(c.code) |-> IF j = pc + 1 THEN i ELSE c.code[j]]
    BY <2>1
  <2> HIDE DEF code
  <2>3. \A j \in 1 .. Len(c.code) : code[j] \in Instrs
    BY <1>1, <2>1, <2>2
  <2>4. code = [j \in 1 .. Len(c.code) |-> code[j]]
    BY <2>2
  <2>5. Len(c.code) \in Nat
    BY <2>1
  <2>6. code \in [1 .. Len(c.code) -> Instrs]
    BY <2>3, <2>4
  <2> QED
    BY <2>5, <2>6
<1>3. SetPrep(c, pc, op, base, dist) = IF pc = NoJump THEN c ELSE d
  BY DEF SetPrep, i
<1> HIDE DEF code
<1>4. d \in Comp
  BY <1>1, <1>2 DEF Comp
<1>5. /\ d.locals = c.locals /\ d.nactive = c.nactive /\ d.breaks = c.breaks
      /\ d.owed = c.owed /\ d.upvals = c.upvals
      /\ d.lost = c.lost /\ d.error = c.error
  BY <1>1 DEF Comp
<1> HIDE DEF d
<1>6. CompOK(d)
  BY <1>4, <1>5 DEF CompOK, Whole
<1> QED
  BY <1>3, <1>5, <1>6, MovedRefl, LensNat DEF Moved

\* The targets of an assignment, one after the other.
LEMMA AssignOneKept ==
    ASSUME NEW F, FsOK(F), NEW name \in Names, NEW src \in Int
    PROVE  FsKept(F, AssignOne(F, name, src))
<1> DEFINE c   == TopOf(F)
           reg == c.locals[LocalIndex(c, name)].reg
           G   == ResolveUpval(F, name)
           i1  == Instr("MOVE", reg, src, 0)
           i2  == Instr("SETUPVAL", src, UpAfter(F, Len(F), name), 0)
           i3  == Instr("SETTABUP", 0, 0, src)
           A   == AsGlobal(F, name)
<1>1. CompOK(c)
  BY TopIs DEF FsOK
<1>2. AssignOne(F, name, src) =
        CASE IsLocal(F, name) -> On(F, Emit(c, i1))
          [] IsUpval(F, name) -> On(G, Emit(TopOf(G), i2))
          [] OTHER            -> On(A, Emit(TopOf(A), i3))
  BY Zenon DEF AssignOne
<1>3. CASE IsLocal(F, name)
  <2>1. c.locals[LocalIndex(c, name)] \in LocalVar
    BY <1>1, <1>3, LocalIndexIs DEF IsLocal
  <2>2. reg \in Reg
    BY <2>1 DEF LocalVar
  <2>3. reg \in Int
    BY <2>2 DEF Reg
  <2> HIDE DEF reg, c
  <2>4. i1 \in Plains
    BY <2>3, PlainInstr DEF PlainOps
  <2>5. ~ IsUpval(F, name)
    BY <1>3 DEF IsUpval
  <2>6. AssignOne(F, name, src) = On(F, Emit(c, i1))
    BY <1>2, <1>3, <2>5, Zenon
  <2> HIDE DEF i1
  <2>7. Added(c, Emit(c, i1))
    BY <1>1, <2>4, EmitAdded
  <2> QED
    BY <2>6, <2>7, OnKept DEF c
<1>4. CASE ~ IsLocal(F, name) /\ IsUpval(F, name)
  <2>1. FsKept(F, G) /\ UpAfter(F, Len(F), name) \in Int
    BY <1>4, ResolveKept DEF IsUpval
  <2>2. i2 \in Plains
    BY <2>1, PlainInstr DEF PlainOps
  <2>3. AssignOne(F, name, src) = On(G, Emit(TopOf(G), i2))
    BY <1>2, <1>4, Zenon
  <2> HIDE DEF i2, G
  <2>4. FsOK(G) /\ CompOK(TopOf(G))
    BY <2>1, FsKeptTop
  <2>5. FsKept(G, On(G, Emit(TopOf(G), i2)))
    BY <2>2, <2>4, EmitAdded, OnKept
  <2> QED
    BY <2>1, <2>3, <2>5, FsKeptTrans
<1>5. CASE ~ IsLocal(F, name) /\ ~ IsUpval(F, name)
  <2>1. i3 \in Plains
    BY PlainInstr DEF PlainOps
  <2>2. AssignOne(F, name, src) = On(A, Emit(TopOf(A), i3))
    BY <1>2, <1>5, Zenon
  <2>3. FsKept(F, A) /\ FsOK(A) /\ CompOK(TopOf(A))
    BY <1>5, AsGlobalKept DEF IsGlobal, FsKept
  <2> HIDE DEF i3, A
  <2>4. FsKept(A, On(A, Emit(TopOf(A), i3)))
    BY <2>1, <2>3, EmitAdded, OnKept
  <2> QED
    BY <2>2, <2>3, <2>4, FsKeptTrans
<1> QED
  BY <1>3, <1>4, <1>5

\* One more target is one more step of the loop (mccompile.c:987).
LEMMA AssignStepsAre ==
    ASSUME NEW F, NEW targets, NEW base
    PROVE  /\ AssignSteps(F, targets, base)[0] = F
           /\ \A n \in Nat : AssignSteps(F, targets, base)[n + 1] =
                AssignOne(AssignSteps(F, targets, base)[n], targets[n + 1], (base + (n + 1) - 1) % U8)
<1> DEFINE par == <<targets, base>>
<1>1. AssignSteps(F, targets, base) = AssignRun!Steps(par, F)
  BY DEF AssignSteps, AssignRun!Steps, AssignStep
<1>2. /\ AssignRun!Steps(par, F)[0] = F
      /\ \A n \in Nat : AssignRun!Steps(par, F)[n + 1] = AssignStep(par, AssignRun!Steps(par, F)[n], n + 1)
  <2> HIDE DEF par
  <2> QED
    BY AssignRun!StepsUnfold, Zenon
<1> QED
  BY <1>1, <1>2 DEF AssignStep

\* Assigning to the first n targets only adds code, upvalues and registers.
LEMMA AssignStepsKept ==
    ASSUME NEW F, FsOK(F), NEW targets \in Seq(Names), NEW base \in Int, NEW n \in Nat, n <= Len(targets)
    PROVE  FsKept(F, AssignSteps(F, targets, base)[n])
<1> DEFINE G(k) == AssignSteps(F, targets, base)[k]
           Good == {k \in Nat : k <= Len(targets) => FsKept(F, G(k))}
<1>1. 0 \in Good
  BY AssignStepsAre, FsKeptRefl
<1>2. ASSUME NEW k \in Nat, k \in Good PROVE k + 1 \in Good
  <2> SUFFICES ASSUME k + 1 <= Len(targets) PROVE FsKept(F, G(k + 1))
    OBVIOUS
  <2>1. FsKept(F, G(k)) /\ FsOK(G(k))
    BY <1>2 DEF FsKept
  <2> DEFINE src == (base + (k + 1) - 1) % U8
  <2>2. targets[k + 1] \in Names /\ src \in Int
    BY RegMod, SMTT(30) DEF Reg
  <2>3. G(k + 1) = AssignOne(G(k), targets[k + 1], src)
    BY AssignStepsAre
  <2> HIDE DEF G, src
  <2> QED
    BY <2>1, <2>2, <2>3, AssignOneKept, FsKeptTrans
<1>3. n \in Good
  <2> HIDE DEF Good
  <2>1. \A k \in Nat : k \in Good
    BY <1>1, <1>2, ExpRun!Induct
  <2> QED
    BY <2>1
<1> QED
  BY <1>3

-----------------------------------------------------------------------------
(* The open handlers *)

FrameKinds == {"func", "if", "else", "do"} \cup LoopKinds
FrameT == [k : FrameKinds, comp : Nat, saved : Reg, sbreaks : Nat, top : Int, jf : Int,
           ends : Seq(Int), base : Reg, prep : Int,
           names : Seq(Names \cup FuncKinds \cup {Env, "main"}), over : BOOLEAN]

\* Frame n of the stack K compiles into its function and holds what that function
\* has: registers of locals, and its first breaks.
FrameFits(K, F, n) ==
    /\ n > 1 => K[n].comp = K[n - 1].comp + (IF K[n].k = "func" THEN 1 ELSE 0)
    /\ K[n].comp \in DOMAIN F
    /\ K[n].saved <= Len(F[K[n].comp].locals)
    /\ K[n].base <= Len(F[K[n].comp].locals)
    /\ K[n].sbreaks <= Len(F[K[n].comp].breaks)
    /\ n > 1 /\ K[n].k = "func" => K[n].names[1] \in FuncKinds /\ K[n].names[2] \in Names

\* Loops nest, and so do their windows of breaks.
WindowsNest(K) ==
    \A i, j \in DOMAIN K : i < j /\ K[i].comp = K[j].comp => K[i].sbreaks <= K[j].sbreaks

\* A break that is owed to a loop is owed to an open one of its function.
OwedFits(K, l, o) == o.loop \in DOMAIN K /\ K[o.loop].comp = l /\ K[o.loop].k \in LoopKinds

FuncFrames(K) == {n \in DOMAIN K : K[n].k = "func"}

CtlOK(K, F) ==
    /\ K \in Seq(FrameT)
    /\ K # <<>>
    /\ K[1].k = "func" /\ K[1].comp = 1
    /\ K[Len(K)].comp = Len(F)
    /\ \A n \in DOMAIN K : FrameFits(K, F, n)
    /\ WindowsNest(K)
    /\ \A l \in DOMAIN F : \A o \in F[l].owed : OwedFits(K, l, o)
    /\ Cardinality(FuncFrames(K)) = Len(F)

\* The innermost frame.
LEMMA OpenIs ==
    ASSUME NEW K, NEW F, CtlOK(K, F), FsOK(F)
    PROVE  /\ Len(K) \in Nat \ {0} /\ DOMAIN K = 1 .. Len(K) /\ Len(K) \in DOMAIN K
           /\ K[Len(K)] \in FrameT
           /\ K[Len(K)].saved \in Reg /\ K[Len(K)].saved <= Len(TopOf(F).locals)
           /\ K[Len(K)].base \in Reg /\ K[Len(K)].base <= Len(TopOf(F).locals)
           /\ K[Len(K)].sbreaks \in Nat /\ K[Len(K)].sbreaks <= Len(TopOf(F).breaks)
           /\ CompOK(TopOf(F)) /\ Len(F) \in DOMAIN F /\ Len(F) \in Nat
<1>1. Len(K) \in Nat \ {0} /\ DOMAIN K = 1 .. Len(K) /\ Len(K) \in DOMAIN K
  BY EmptySeq DEF CtlOK
<1>2. K[Len(K)] \in FrameT /\ FrameFits(K, F, Len(K)) /\ K[Len(K)].comp = Len(F)
  BY <1>1 DEF CtlOK
<1>3. TopOf(F) = F[Len(F)] /\ CompOK(TopOf(F)) /\ Len(F) \in DOMAIN F /\ Len(F) \in Nat
  BY TopIs DEF FsOK
<1> QED
  BY <1>1, <1>2, <1>3 DEF FrameFits, FrameT

\* The frames fit functions that have moved on.
LEMMA CtlFits ==
    ASSUME NEW K, NEW F, CtlOK(K, F), FsOK(F), NEW G, FsOK(G), Len(G) = Len(F),
           \A l \in DOMAIN F : /\ Len(F[l].locals) <= Len(G[l].locals)
                               /\ Len(F[l].breaks) <= Len(G[l].breaks)
                               /\ \A o \in G[l].owed : OwedFits(K, l, o)
    PROVE  CtlOK(K, G)
<1>1. /\ DOMAIN F = 1 .. Len(F) /\ DOMAIN G = 1 .. Len(G)
      /\ \A l \in DOMAIN F : CompOK(F[l]) /\ CompOK(G[l])
  BY TopIs DEF FsOK, FsType
<1>2. \A l \in DOMAIN F : /\ Len(F[l].locals) \in Nat /\ Len(G[l].locals) \in Nat
                          /\ Len(F[l].breaks) \in Nat /\ Len(G[l].breaks) \in Nat
  BY <1>1, LensNat
<1>3. ASSUME NEW n \in DOMAIN K PROVE FrameFits(K, G, n)
  <2> DEFINE l == K[n].comp
  <2>1. K[n] \in FrameT /\ FrameFits(K, F, n)
    BY DEF CtlOK
  <2>2. l \in DOMAIN F /\ K[n].saved \in Nat /\ K[n].base \in Nat /\ K[n].sbreaks \in Nat
    BY <2>1, RegMod DEF FrameT, FrameFits
  <2>3. /\ Len(F[l].locals) \in Nat /\ Len(G[l].locals) \in Nat
        /\ Len(F[l].breaks) \in Nat /\ Len(G[l].breaks) \in Nat
        /\ Len(F[l].locals) <= Len(G[l].locals) /\ Len(F[l].breaks) <= Len(G[l].breaks)
    BY <1>2, <2>2
  <2>4. \A a, b, c \in Nat : a <= b /\ b <= c => a <= c
    OBVIOUS
  <2>5. K[n].saved <= Len(F[l].locals) /\ K[n].base <= Len(F[l].locals) /\ K[n].sbreaks <= Len(F[l].breaks)
    BY <2>1 DEF FrameFits
  <2>6. K[n].saved <= Len(G[l].locals) /\ K[n].base <= Len(G[l].locals) /\ K[n].sbreaks <= Len(G[l].breaks)
    BY <2>2, <2>3, <2>4, <2>5
  <2> QED
    BY <1>1, <2>1, <2>2, <2>6 DEF FrameFits
<1> QED
  BY <1>1, <1>3 DEF CtlOK

\* Open handlers stay sound while the functions below and above them move.
LEMMA CtlMoved ==
    ASSUME NEW K, NEW F, CtlOK(K, F), FsOK(F), NEW G, FsMoved(F, G)
    PROVE  CtlOK(K, G)
<1>1. \A l \in DOMAIN F : \A o \in G[l].owed : OwedFits(K, l, o)
  BY DEF CtlOK, FsMoved
<1> QED
  BY <1>1, CtlFits DEF FsMoved

\* A frame is pushed that compiles into the innermost function.
LEMMA CtlPush ==
    ASSUME NEW K, NEW F, CtlOK(K, F), FsOK(F),
           NEW f \in FrameT, f.k # "func", f.comp = Len(F),
           f.saved <= Len(TopOf(F).locals), f.base <= Len(TopOf(F).locals),
           f.sbreaks = Len(TopOf(F).breaks)
    PROVE  CtlOK(Append(K, f), F)
<1> DEFINE J == Append(K, f)
<1>1. /\ Len(K) \in Nat \ {0} /\ DOMAIN K = 1 .. Len(K) /\ K \in Seq(FrameT)
      /\ K[Len(K)].comp = Len(F) /\ Len(F) \in DOMAIN F /\ TopOf(F) = F[Len(F)]
      /\ Len(TopOf(F).breaks) \in Nat
  BY OpenIs, TopIs, LensNat DEF CtlOK, FsOK
<1>2. /\ J \in Seq(FrameT) /\ Len(J) = Len(K) + 1 /\ DOMAIN J = 1 .. Len(K) + 1
      /\ \A n \in 1 .. Len(K) : J[n] = K[n]
      /\ J[Len(K) + 1] = f
  BY <1>1, AppendIs
<1> HIDE DEF J
<1>3. ASSUME NEW n \in DOMAIN J PROVE FrameFits(J, F, n)
  <2>1. CASE n \in DOMAIN K
    <3>1. FrameFits(K, F, n)
      BY <2>1 DEF CtlOK
    <3>2. J[n] = K[n] /\ (n > 1 => J[n - 1] = K[n - 1])
      BY <1>1, <1>2, <2>1
    <3> QED
      BY <3>1, <3>2 DEF FrameFits
  <2>2. CASE n = Len(K) + 1
    <3>1. J[n] = f /\ J[n - 1] = K[Len(K)]
      BY <1>1, <1>2, <2>2
    <3>2. f.comp \in Nat /\ f.sbreaks <= Len(TopOf(F).breaks)
      BY <1>1 DEF FrameT
    <3> QED
      BY <1>1, <3>1, <3>2 DEF FrameFits
  <2> QED
    BY <1>1, <1>2, <2>1, <2>2
<1>4. WindowsNest(J)
  <2> SUFFICES ASSUME NEW i \in DOMAIN J, NEW j \in DOMAIN J, i < j, J[i].comp = J[j].comp
               PROVE  J[i].sbreaks <= J[j].sbreaks
    BY DEF WindowsNest
  <2>1. i \in DOMAIN K /\ J[i] = K[i]
    BY <1>1, <1>2
  <2>2. CASE j \in DOMAIN K
    BY <1>1, <1>2, <2>1, <2>2 DEF CtlOK, WindowsNest
  <2>3. CASE j = Len(K) + 1
    <3>1. K[i].comp = Len(F) /\ FrameFits(K, F, i)
      BY <1>2, <2>1, <2>3 DEF CtlOK
    <3> QED
      BY <1>1, <1>2, <2>1, <2>3, <3>1 DEF FrameFits
  <2> QED
    BY <1>1, <1>2, <2>2, <2>3
<1>5. \A l \in DOMAIN F : \A o \in F[l].owed : OwedFits(J, l, o)
  BY <1>1, <1>2 DEF CtlOK, OwedFits
<1>6. FuncFrames(J) = FuncFrames(K)
  BY <1>1, <1>2 DEF FuncFrames
<1> QED
  BY <1>1, <1>2, <1>3, <1>4, <1>5, <1>6 DEF CtlOK, J

\* The innermost frame is replaced by one of its kind.
LEMMA CtlSwap ==
    ASSUME NEW K, NEW F, CtlOK(K, F), FsOK(F),
           NEW f \in FrameT,
           f.k = K[Len(K)].k \/ {f.k, K[Len(K)].k} \subseteq {"if", "else"},
           f.comp = K[Len(K)].comp, f.saved = K[Len(K)].saved, f.base = K[Len(K)].base,
           f.sbreaks = K[Len(K)].sbreaks, f.names = K[Len(K)].names,
           NEW J, J = [K EXCEPT ![Len(K)] = f]
    PROVE  CtlOK(J, F)
<1>1. /\ Len(K) \in Nat \ {0} /\ DOMAIN K = 1 .. Len(K) /\ K \in Seq(FrameT) /\ Len(K) \in DOMAIN K
  BY OpenIs DEF CtlOK
<1>2. /\ J \in Seq(FrameT) /\ Len(J) = Len(K) /\ DOMAIN J = DOMAIN K
      /\ J[Len(K)] = f /\ \A n \in DOMAIN K : n # Len(K) => J[n] = K[n]
  BY <1>1
<1>3. \A n \in DOMAIN K : /\ J[n].comp = K[n].comp /\ J[n].saved = K[n].saved
                          /\ J[n].base = K[n].base /\ J[n].sbreaks = K[n].sbreaks
                          /\ J[n].names = K[n].names
                          /\ J[n].k = "func" <=> K[n].k = "func"
                          /\ J[n].k \in LoopKinds <=> K[n].k \in LoopKinds
  BY <1>1, <1>2 DEF LoopKinds
<1>4. ASSUME NEW n \in DOMAIN J PROVE FrameFits(J, F, n)
  <2>1. n > 1 => n - 1 \in DOMAIN K
    BY <1>1, <1>2
  <2>2. FrameFits(K, F, n) /\ n \in DOMAIN K
    BY <1>2 DEF CtlOK
  <2> QED
    BY <1>3, <2>1, <2>2 DEF FrameFits
<1>5. WindowsNest(J)
  BY <1>2, <1>3 DEF CtlOK, WindowsNest
<1>6. \A l \in DOMAIN F : \A o \in F[l].owed : OwedFits(J, l, o)
  BY <1>2, <1>3 DEF CtlOK, OwedFits
<1>7. FuncFrames(J) = FuncFrames(K)
  BY <1>2, <1>3 DEF FuncFrames
<1>8. J[1].k = "func" /\ J[1].comp = 1 /\ J[Len(J)].comp = Len(F) /\ J # <<>>
  BY <1>1, <1>2, <1>3 DEF CtlOK
<1> QED
  BY <1>2, <1>4, <1>5, <1>6, <1>7, <1>8 DEF CtlOK

\* A handler that is not a function's finishes, and leaves c.
LEMMA CtlLeave ==
    ASSUME NEW K, NEW F, CtlOK(K, F), FsOK(F), K[Len(K)].k # "func",
           NEW c, CompOK(c), c.upvals = TopOf(F).upvals,
           Len(TopOf(F).locals) <= Len(c.locals), K[Len(K)].sbreaks <= Len(c.breaks),
           \A o \in c.owed : o \in TopOf(F).owed /\ o.loop # Len(K)
    PROVE  FsOK(On(F, c)) /\ CtlOK(Front(K), On(F, c))
<1> DEFINE J == Front(K)
           G == On(F, c)
           n == Len(K)
           t == Len(F)
<1>1. /\ n \in Nat \ {0} /\ DOMAIN K = 1 .. n /\ K \in Seq(FrameT) /\ n \in DOMAIN K
      /\ K[n].comp = t /\ t \in DOMAIN F /\ TopOf(F) = F[t] /\ t \in Nat \ {0} /\ DOMAIN F = 1 .. t
      /\ K # <<>>
  BY OpenIs, TopIs, SMTT(30) DEF CtlOK, FsOK
<1>2. n > 1
  BY <1>1, SMTT(30) DEF CtlOK
<1>3. /\ J \in Seq(FrameT) /\ Len(J) = n - 1 /\ DOMAIN J = 1 .. n - 1
      /\ \A i \in 1 .. n - 1 : J[i] = K[i]
  BY <1>1, FrontIs
<1>4. /\ FsOK(G) /\ Len(G) = t /\ DOMAIN G = DOMAIN F /\ G[t] = c
      /\ \A l \in DOMAIN F : l # t => G[l] = F[l]
  BY OnOK, OnIs DEF FsOK
<1> HIDE DEF J, G, n, t
<1>5. ASSUME NEW i \in DOMAIN J PROVE FrameFits(J, G, i)
  <2>1. /\ i \in DOMAIN K /\ J[i] = K[i] /\ i < n
        /\ i > 1 => J[i - 1] = K[i - 1]
    BY <1>1, <1>3
  <2>2. FrameFits(K, F, i) /\ K[i] \in FrameT
    BY <2>1 DEF CtlOK
  <2>3. CASE K[i].comp # t
    <3>1. G[K[i].comp] = F[K[i].comp] /\ K[i].comp \in DOMAIN G
      BY <1>4, <2>2, <2>3 DEF FrameFits
    <3> QED
      BY <2>1, <2>2, <3>1 DEF FrameFits
  <2>4. CASE K[i].comp = t
    <3>1. K[i].sbreaks <= K[n].sbreaks
      BY <1>1, <2>1, <2>4 DEF CtlOK, WindowsNest
    <3>2. /\ K[i].saved \in Nat /\ K[i].base \in Nat /\ K[i].sbreaks \in Nat /\ K[n].sbreaks \in Nat
          /\ Len(F[t].locals) \in Nat /\ Len(c.locals) \in Nat /\ Len(c.breaks) \in Nat
      <4>1. CompOK(F[t]) /\ K[n] \in FrameT
        BY <1>1 DEF FsOK, FsType
      <4> QED
        BY <2>2, <4>1, LensNat, RegMod DEF FrameT
    <3>3. /\ K[i].saved <= Len(F[t].locals) /\ K[i].base <= Len(F[t].locals)
          /\ Len(F[t].locals) <= Len(c.locals) /\ K[n].sbreaks <= Len(c.breaks)
      BY <1>1, <2>2, <2>4 DEF FrameFits, n
    <3>4. \A a, b, d \in Nat : a <= b /\ b <= d => a <= d
      OBVIOUS
    <3>5. K[i].saved <= Len(c.locals) /\ K[i].base <= Len(c.locals) /\ K[i].sbreaks <= Len(c.breaks)
      BY <3>1, <3>2, <3>3, <3>4
    <3>6. G[K[i].comp] = c /\ K[i].comp \in DOMAIN G
      BY <1>1, <1>4, <2>4
    <3> QED
      BY <2>1, <2>2, <3>5, <3>6 DEF FrameFits
  <2> QED
    BY <2>3, <2>4
<1>6. WindowsNest(J)
  <2>1. \A i \in DOMAIN J : i \in DOMAIN K /\ J[i] = K[i]
    BY <1>1, <1>3
  <2> QED
    BY <2>1 DEF CtlOK, WindowsNest
<1>7. ASSUME NEW l \in DOMAIN G, NEW o \in G[l].owed PROVE OwedFits(J, l, o)
  <2>1. o \in F[l].owed /\ (l = t => o.loop # n)
    BY <1>1, <1>4 DEF n
  <2>2. OwedFits(K, l, o)
    BY <1>4, <2>1 DEF CtlOK
  <2>3. o.loop # n
    BY <1>1, <2>1, <2>2 DEF OwedFits
  <2> QED
    BY <1>1, <1>3, <2>2, <2>3 DEF OwedFits
<1>8. FuncFrames(J) = FuncFrames(K)
  <2>1. K[n].k # "func"
    BY DEF n
  <2> QED
    BY <1>1, <1>3, <2>1 DEF FuncFrames
<1>9. J[Len(J)].comp = t
  <2>1. FrameFits(K, F, n) /\ K[n].k # "func"
    BY <1>1 DEF CtlOK, n
  <2>2. K[n - 1].comp = t
    <3>1. K[n - 1] \in FrameT
      BY <1>1, <1>2
    <3>2. K[n - 1].comp \in Nat
      BY <3>1 DEF FrameT
    <3> QED
      BY <1>1, <1>2, <2>1, <3>2 DEF FrameFits
  <2> QED
    BY <1>1, <1>2, <1>3, <2>2
<1>10. J # <<>> /\ J[1] = K[1]
  BY <1>1, <1>2, <1>3
<1> QED
  BY <1>3, <1>4, <1>5, <1>6, <1>7, <1>8, <1>9, <1>10, SMTT(30) DEF CtlOK, J, G, t

\* A function is compiled inside another.
LEMMA CtlCall ==
    ASSUME NEW K, NEW F, CtlOK(K, F), FsOK(F),
           NEW c, CompOK(c), c.owed = {}, \A i \in DOMAIN c.upvals : c.upvals[i].name = Env,
           NEW f \in FrameT, f.k = "func", f.comp = Len(F) + 1,
           f.saved <= Len(c.locals), f.base = 0, f.sbreaks = 0,
           f.names[1] \in FuncKinds, f.names[2] \in Names
    PROVE  FsOK(Append(F, c)) /\ CtlOK(Append(K, f), Append(F, c))
<1> DEFINE J == Append(K, f)
           G == Append(F, c)
           n == Len(K)
           t == Len(F)
<1>1. /\ n \in Nat \ {0} /\ DOMAIN K = 1 .. n /\ K \in Seq(FrameT)
      /\ K[n].comp = t /\ t \in DOMAIN F /\ t \in Nat \ {0} /\ DOMAIN F = 1 .. t
      /\ F \in Seq(Comp) /\ c \in Comp
  BY OpenIs, TopIs DEF CtlOK, FsOK, FsType, CompOK
<1>2. /\ J \in Seq(FrameT) /\ Len(J) = n + 1 /\ DOMAIN J = 1 .. n + 1
      /\ \A i \in 1 .. n : J[i] = K[i]
      /\ J[n + 1] = f
  BY <1>1, AppendIs
<1>3. /\ G \in Seq(Comp) /\ Len(G) = t + 1 /\ DOMAIN G = 1 .. t + 1
      /\ \A i \in 1 .. t : G[i] = F[i]
      /\ G[t + 1] = c
  BY <1>1, AppendIs
<1> HIDE DEF J, G, n, t
<1>4. FsOK(G)
  <2>1. FsType(G)
    <3>1. \A l \in DOMAIN G : CompOK(G[l])
      BY <1>1, <1>3, SMTT(30) DEF FsOK, FsType
    <3> QED
      BY <1>1, <1>3, <3>1, SMTT(30) DEF FsType
  <2>2. ASSUME NEW d \in DOMAIN G, NEW i \in DOMAIN G[d].upvals
        PROVE  UpSound(G, d, G[d].upvals[i])
    <3>1. CASE d = t + 1
      BY <1>3, <3>1, SMTT(30) DEF UpSound
    <3>2. CASE d # t + 1
      <4>1. d \in DOMAIN F /\ G[d] = F[d] /\ (d > 1 => G[d - 1] = F[d - 1])
        BY <1>1, <1>3, <3>2
      <4>2. UpSound(F, d, G[d].upvals[i])
        BY <4>1 DEF FsOK, UpsSound
      <4> QED
        BY <4>1, <4>2 DEF UpSound
    <3> QED
      BY <3>1, <3>2, SMTT(30)
  <2> QED
    BY <2>1, <2>2 DEF FsOK, UpsSound
<1>5. ASSUME NEW i \in DOMAIN J PROVE FrameFits(J, G, i)
  <2>1. CASE i = n + 1
    <3>1. J[i] = f /\ J[i - 1] = K[n] /\ f.comp = t + 1 /\ G[f.comp] = c
      BY <1>1, <1>2, <1>3, <2>1 DEF t
    <3>2. Len(c.locals) \in Nat /\ Len(c.breaks) \in Nat
      BY LensNat
    <3>3. f.comp \in DOMAIN G
      BY <1>1, <1>3, <3>1
    <3> QED
      BY <1>1, <3>1, <3>2, <3>3 DEF FrameFits
  <2>2. CASE i # n + 1
    <3>1. i \in DOMAIN K /\ J[i] = K[i] /\ (i > 1 => J[i - 1] = K[i - 1])
      BY <1>1, <1>2, <2>2
    <3>2. FrameFits(K, F, i)
      BY <3>1 DEF CtlOK
    <3>3. G[K[i].comp] = F[K[i].comp] /\ K[i].comp \in DOMAIN G
      BY <1>1, <1>3, <3>2 DEF FrameFits
    <3> QED
      BY <3>1, <3>2, <3>3 DEF FrameFits
  <2> QED
    BY <2>1, <2>2
<1>6. WindowsNest(J)
  <2> SUFFICES ASSUME NEW i \in DOMAIN J, NEW j \in DOMAIN J, i < j, J[i].comp = J[j].comp
               PROVE  J[i].sbreaks <= J[j].sbreaks
    BY DEF WindowsNest
  <2>1. i \in DOMAIN K /\ J[i] = K[i]
    BY <1>1, <1>2
  <2>2. K[i].comp # t + 1
    <3>1. FrameFits(K, F, i)
      BY <2>1 DEF CtlOK
    <3> QED
      BY <1>1, <3>1 DEF FrameFits
  <2>3. j \in DOMAIN K /\ J[j] = K[j]
    BY <1>1, <1>2, <2>1, <2>2 DEF t
  <2> QED
    BY <2>1, <2>3 DEF CtlOK, WindowsNest
<1>7. ASSUME NEW l \in DOMAIN G, NEW o \in G[l].owed PROVE OwedFits(J, l, o)
  <2>1. l \in DOMAIN F /\ o \in F[l].owed
    BY <1>1, <1>3
  <2>2. OwedFits(K, l, o)
    BY <2>1 DEF CtlOK
  <2> QED
    BY <1>1, <1>2, <2>2, SMTT(30) DEF OwedFits
<1>8. Cardinality(FuncFrames(J)) = t + 1
  <2>1. FuncFrames(J) = FuncFrames(K) \cup {n + 1} /\ n + 1 \notin FuncFrames(K)
    BY <1>1, <1>2 DEF FuncFrames
  <2>2. IsFiniteSet(FuncFrames(K))
    <3>1. FuncFrames(K) \subseteq 1 .. n /\ IsFiniteSet(1 .. n)
      BY <1>1, FS_Interval DEF FuncFrames
    <3> QED
      BY <3>1, FS_Subset
  <2>3. Cardinality(FuncFrames(K)) = t
    BY DEF CtlOK, t
  <2> QED
    BY <2>1, <2>2, <2>3, FS_AddElement, SMTT(30)
<1>9. J # <<>> /\ J[1] = K[1] /\ J[Len(J)].comp = t + 1
  BY <1>1, <1>2 DEF t
<1> QED
  BY <1>1, <1>2, <1>3, <1>4, <1>5, <1>6, <1>7, <1>8, <1>9 DEF CtlOK, J, G, t

\* A function is finished, and the one around it goes on.
LEMMA CtlReturn ==
    ASSUME NEW K, NEW F, CtlOK(K, F), FsOK(F), Len(F) > 1, K[Len(K)].k = "func"
    PROVE  FsOK(Front(F)) /\ CtlOK(Front(K), Front(F))
           /\ TopOf(Front(F)) = F[Len(F) - 1] /\ Len(Front(F)) = Len(F) - 1
<1> DEFINE J == Front(K)
           G == Front(F)
           n == Len(K)
           t == Len(F)
<1>1. /\ n \in Nat \ {0} /\ DOMAIN K = 1 .. n /\ K \in Seq(FrameT) /\ n \in DOMAIN K
      /\ K[n].comp = t /\ t \in DOMAIN F /\ t \in Nat \ {0} /\ DOMAIN F = 1 .. t
      /\ K # <<>> /\ F \in Seq(Comp) /\ F # <<>> /\ K[1].comp = 1
  BY OpenIs, TopIs, SMTT(30) DEF CtlOK, FsOK, FsType
<1>2. n > 1 /\ t > 1
  BY <1>1, SMTT(30)
<1>3. /\ J \in Seq(FrameT) /\ Len(J) = n - 1 /\ DOMAIN J = 1 .. n - 1
      /\ \A i \in 1 .. n - 1 : J[i] = K[i]
  BY <1>1, FrontIs, ZenonT(40)
<1>4. /\ G \in Seq(Comp) /\ Len(G) = t - 1 /\ DOMAIN G = 1 .. t - 1
      /\ \A i \in 1 .. t - 1 : G[i] = F[i]
  BY <1>1, FrontIs
<1> HIDE DEF J, G, n, t
<1>5. FsOK(G)
  <2>1. FsType(G)
    <3>1. \A l \in DOMAIN G : CompOK(G[l])
      BY <1>1, <1>4, SMTT(30) DEF FsOK, FsType
    <3> QED
      BY <1>1, <1>2, <1>4, <3>1, SMTT(30) DEF FsType
  <2>2. ASSUME NEW d \in DOMAIN G, NEW i \in DOMAIN G[d].upvals
        PROVE  UpSound(G, d, G[d].upvals[i])
    <3>1. d \in DOMAIN F /\ G[d] = F[d] /\ (d > 1 => G[d - 1] = F[d - 1])
      BY <1>1, <1>4
    <3>2. UpSound(F, d, G[d].upvals[i])
      BY <3>1 DEF FsOK, UpsSound
    <3> QED
      BY <3>1, <3>2 DEF UpSound
  <2> QED
    BY <2>1, <2>2, SMTT(30) DEF FsOK, UpsSound
<1>6. \A i \in 1 .. n - 1 : K[i].comp \in Nat /\ FrameFits(K, F, i)
  <2> TAKE i \in 1 .. n - 1
  <2>1. i \in DOMAIN K
    BY <1>1
  <2>2. K[i] \in FrameT /\ FrameFits(K, F, i)
    BY <1>1, <2>1 DEF CtlOK
  <2> QED
    BY <2>2 DEF FrameT
<1>7. K[n - 1].comp = t - 1
  <2>1. FrameFits(K, F, n) /\ K[n].k = "func" /\ K[n - 1].comp \in Nat
    BY <1>1, <1>2, <1>6 DEF CtlOK, n
  <2> QED
    BY <1>1, <1>2, <2>1 DEF FrameFits
<1>8. \A i \in 1 .. n - 1 : K[i].comp <= t - 1
  <2> DEFINE Good == {j \in Nat : j < n - 1 => K[n - 1 - j].comp <= t - 1}
  <2>1. 0 \in Good
    BY <1>1, <1>2, <1>7
  <2>2. ASSUME NEW j \in Nat, j \in Good PROVE j + 1 \in Good
    <3> SUFFICES ASSUME j + 1 < n - 1 PROVE K[n - 1 - (j + 1)].comp <= t - 1
      OBVIOUS
    <3> DEFINE i == n - 1 - j
    <3>1. K[i].comp <= t - 1 /\ i \in 1 .. n - 1 /\ i - 1 \in 1 .. n - 1 /\ i > 1 /\ n - 1 - (j + 1) = i - 1
      BY <1>1, <2>2, SMTT(30)
    <3> HIDE DEF i
    <3>2. K[i].comp \in Nat /\ K[i - 1].comp \in Nat /\ FrameFits(K, F, i)
      BY <1>6, <3>1
    <3>3. K[i - 1].comp <= K[i].comp
      BY <3>1, <3>2, SMTT(30) DEF FrameFits
    <3> QED
      BY <1>1, <3>1, <3>2, <3>3
  <2>3. \A j \in Nat : j \in Good
    <3> HIDE DEF Good
    <3> QED
      BY <2>1, <2>2, ExpRun!Induct
  <2> TAKE i \in 1 .. n - 1
  <2>4. n - 1 - i \in Nat /\ n - 1 - i < n - 1 /\ n - 1 - (n - 1 - i) = i
    BY <1>1
  <2> QED
    BY <2>3, <2>4
<1>9. ASSUME NEW i \in DOMAIN J PROVE FrameFits(J, G, i)
  <2>1. i \in 1 .. n - 1 /\ J[i] = K[i] /\ (i > 1 => J[i - 1] = K[i - 1])
    BY <1>1, <1>3
  <2>2. FrameFits(K, F, i) /\ K[i].comp \in 1 .. t - 1
    <3>1. FrameFits(K, F, i) /\ K[i].comp \in Nat /\ K[i].comp <= t - 1
      BY <1>6, <1>8, <2>1
    <3>2. K[i].comp \in 1 .. t
      BY <1>1, <3>1 DEF FrameFits
    <3> QED
      BY <1>1, <3>1, <3>2
  <2>3. G[K[i].comp] = F[K[i].comp] /\ K[i].comp \in DOMAIN G
    BY <1>4, <2>2
  <2> QED
    BY <2>1, <2>2, <2>3 DEF FrameFits
<1>10. WindowsNest(J)
  <2>1. \A i \in DOMAIN J : i \in DOMAIN K /\ J[i] = K[i]
    BY <1>1, <1>3
  <2> QED
    BY <2>1 DEF CtlOK, WindowsNest
<1>11. ASSUME NEW l \in DOMAIN G, NEW o \in G[l].owed PROVE OwedFits(J, l, o)
  <2>1. o \in F[l].owed /\ l \in DOMAIN F /\ l # t
    BY <1>1, <1>4
  <2>2. OwedFits(K, l, o)
    BY <2>1 DEF CtlOK
  <2>3. o.loop # n
    BY <1>1, <2>1, <2>2 DEF OwedFits
  <2> QED
    BY <1>1, <1>3, <2>2, <2>3 DEF OwedFits
<1>12. Cardinality(FuncFrames(J)) = t - 1
  <2>1. FuncFrames(J) = FuncFrames(K) \ {n} /\ n \in FuncFrames(K)
    <3>1. K[n].k = "func"
      BY DEF n
    <3> QED
      BY <1>1, <1>3, <3>1 DEF FuncFrames
  <2>2. IsFiniteSet(FuncFrames(K))
    <3>1. FuncFrames(K) \subseteq 1 .. n /\ IsFiniteSet(1 .. n)
      BY <1>1, FS_Interval DEF FuncFrames
    <3> QED
      BY <3>1, FS_Subset
  <2>3. Cardinality(FuncFrames(K)) = t
    BY DEF CtlOK, t
  <2> QED
    BY <2>1, <2>2, <2>3, FS_RemoveElement
<1>13. J # <<>> /\ J[1] = K[1] /\ J[Len(J)].comp = t - 1
  BY <1>1, <1>2, <1>3, <1>7
<1>14. TopOf(G) = F[t - 1]
  BY <1>1, <1>2, <1>4 DEF TopOf
<1> QED
  BY <1>1, <1>3, <1>4, <1>5, <1>9, <1>10, <1>11, <1>12, <1>13, <1>14 DEF CtlOK, J, G, t

-----------------------------------------------------------------------------
(* The inductive invariant *)

\* What is returned is one function, and it is whole.
Delivered ==
    /\ final \in Seq(Comp)
    /\ phase = "returned" => Len(final) = 1 /\ (final[1].lost \subseteq Unnoticed)

IInv ==
    /\ FsOK(fs)
    /\ CtlOK(ctl, fs)
    /\ heap \in {"ample"} \cup HeapLimits
    /\ phase \in {"running", "returned", "null", "wild"}
    /\ stats \in 0..MaxStats
    /\ Delivered

\* The parts of the invariant in the next state.
LEMMA NextFs ==
    ASSUME NEW F, FsOK(F), fs' = F, heap' = heap
    PROVE  FsOK(fs)'
<1>1. FsType(fs)'
  BY DEF FsOK, FsType, CompOK, Whole, Unnoticed
<1>2. UpsSound(fs)'
  BY DEF FsOK, UpsSound
<1> QED
  BY <1>1, <1>2 DEF FsOK

\* The open handlers of the next state.
LEMMA NextCtl ==
    ASSUME NEW K, NEW F, CtlOK(K, F), ctl' = K, fs' = F
    PROVE  CtlOK(ctl, fs)'
BY DEF CtlOK, FrameFits, WindowsNest, OwedFits, FuncFrames

\* The next state from its stacks: what every action that goes on has to show.
LEMMA NextInv ==
    ASSUME IInv, NEW K, NEW F, FsOK(F), CtlOK(K, F), fs' = F, ctl' = K,
           heap' = heap, stats' \in 0..MaxStats, final' = final,
           phase' \in {"running", "null", "wild"}
    PROVE  IInv'
<1>1. FsOK(fs)' /\ CtlOK(ctl, fs)'
  BY NextFs, NextCtl
<1>2. Delivered'
  BY DEF IInv, Delivered
<1> QED
  BY <1>1, <1>2 DEF IInv

\* The shapes of the actions.
LEMMA SimpleInv ==
    ASSUME IInv, phase = "running", stats > 0, NEW G, FsMoved(fs, G), Simple(G)
    PROVE  IInv'
<1> DEFINE H == On(G, EndStat(TopOf(G)))
<1>1. FsOK(G) /\ FsOK(fs) /\ CompOK(TopOf(G)) /\ CtlOK(ctl, fs)
  BY FsMovedTop DEF IInv
<1>2. FsMoved(G, H)
  BY <1>1, EndMoved, OnMoved
<1>3. FsMoved(fs, H)
  BY <1>1, <1>2, FsMovedTrans
<1>4. CtlOK(ctl, H) /\ FsOK(H)
  BY <1>1, <1>3, CtlMoved DEF FsMoved
<1>5. fs' = H /\ stats' \in 0..MaxStats /\ phase' = "running" /\ UNCHANGED <<ctl, heap, final>>
  BY ScriptAssumption DEF IInv, Simple
<1> HIDE DEF H
<1> QED
  BY <1>4, <1>5, NextInv

\* A statement that is refused leaves both stacks alone.
LEMMA RefuseInv ==
    ASSUME IInv, phase = "running", stats > 0, Refuse
    PROVE  IInv'
<1>1. stats' \in 0..MaxStats /\ phase' = "null" /\ UNCHANGED <<fs, ctl, heap, final>>
  BY ScriptAssumption DEF IInv, Refuse
<1> QED
  BY <1>1, NextInv DEF IInv

\* A run that ends in wild leaves both stacks alone.
LEMMA WildInv ==
    ASSUME IInv, GoWild
    PROVE  IInv'
<1>1. stats' \in 0..MaxStats /\ phase' = "wild" /\ UNCHANGED <<fs, ctl, heap, final>>
  BY DEF IInv, GoWild
<1> QED
  BY <1>1, NextInv DEF IInv

\* A frame that a handler makes for its block.
FrameMade(f, F) ==
    /\ f \in FrameT
    /\ f.k # "func"
    /\ f.comp = Len(F)
    /\ f.saved <= Len(TopOf(F).locals)
    /\ f.base <= Len(TopOf(F).locals)
    /\ f.sbreaks = Len(TopOf(F).breaks)

\* Opening a handler pushes a sound frame.
LEMMA EnterInv ==
    ASSUME IInv, phase = "running", stats > 0, NEW G, FsMoved(fs, G),
           NEW f, FrameMade(f, G), Enter(G, f)
    PROVE  IInv'
<1>1. FsOK(G) /\ CtlOK(ctl, G)
  BY CtlMoved DEF IInv, FsMoved
<1>2. CtlOK(Append(ctl, f), G)
  BY <1>1, CtlPush DEF FrameMade
<1>3. /\ fs' = G /\ ctl' = Append(ctl, f) /\ stats' \in 0..MaxStats /\ phase' = "running"
      /\ UNCHANGED <<heap, final>>
  BY ScriptAssumption DEF IInv, Enter
<1> QED
  BY <1>1, <1>2, <1>3, NextInv

\* What a handler leaves of the functions G it found: c, which has no break owed
\* to it any more.
Ended(G, c) ==
    /\ CompOK(c)
    /\ c.upvals = TopOf(G).upvals
    /\ Len(TopOf(G).locals) <= Len(c.locals)
    /\ Open.sbreaks <= Len(c.breaks)
    /\ \A o \in c.owed : o \in TopOf(G).owed /\ o.loop # Len(ctl)

\* Closing a handler in two moves, without its block, keeps the invariant.
LEMMA EndedInv ==
    ASSUME IInv, phase = "running", NEW G, FsMoved(fs, G), Open.k # "func", NEW c, Ended(G, c),
           fs' = On(G, c), ctl' = Front(ctl), UNCHANGED <<heap, phase, stats, final>>
    PROVE  IInv'
<1>1. FsOK(G) /\ CtlOK(ctl, G)
  BY CtlMoved DEF IInv, FsMoved
<1>2. FsOK(On(G, c)) /\ CtlOK(Front(ctl), On(G, c))
  BY <1>1, CtlLeave DEF Ended, Open
<1> QED
  BY <1>2, NextInv DEF IInv

\* Closing a handler with its block keeps the invariant.
LEMMA LeaveInv ==
    ASSUME IInv, phase = "running", Open.k # "func", NEW c, Ended(fs, c), Leave(c)
    PROVE  IInv'
<1>1. FsOK(fs) /\ FsMoved(fs, fs)
  BY FsMovedRefl DEF IInv
<1>2. Added(c, EndStat(c)) /\ CompOK(c)
  BY EndMoved DEF Ended
<1>3. Ended(fs, EndStat(c))
  BY <1>2 DEF Ended, Added, Kept, Coded
<1>4. fs' = On(fs, EndStat(c)) /\ ctl' = Front(ctl) /\ UNCHANGED <<heap, phase, stats, final>>
  BY DEF Leave
<1> QED
  BY <1>1, <1>3, <1>4, EndedInv

\* The arena runs short.
LEMMA HeapInv ==
    ASSUME IInv, HeapRunsShort
    PROVE  IInv'
<1>1. /\ heap = "ample" /\ heap' \in HeapLimits /\ phase = "running"
      /\ UNCHANGED <<fs, ctl, phase, stats, final>>
  BY DEF HeapRunsShort
<1>3. FsOK(fs)'
  <2>1. FsType(fs)'
    BY <1>1 DEF IInv, FsOK, FsType, CompOK, Whole, Unnoticed
  <2>2. UpsSound(fs)'
    BY <1>1 DEF IInv, FsOK, UpsSound
  <2> QED
    BY <2>1, <2>2 DEF FsOK
<1>4. CtlOK(ctl, fs)'
  BY <1>1, NextCtl DEF IInv
<1>5. Delivered'
  BY <1>1 DEF IInv, Delivered
<1> QED
  BY <1>1, <1>3, <1>4, <1>5 DEF IInv

\* A frame for the function a handler compiles into.
LEMMA FrameIs ==
    ASSUME NEW G, FsOK(G), Len(G) = Len(fs), NEW k \in FrameKinds \ {"func"},
           NEW c, CompOK(c), c.nactive <= Len(TopOf(G).locals), c.breaks = TopOf(G).breaks
    PROVE  FrameMade(Frame(k, c), G)
<1>1. /\ Len(fs) \in Nat /\ c.nactive \in Reg /\ Len(c.breaks) \in Nat /\ 0 \in Reg
      /\ 0 <= Len(TopOf(G).locals)
  <2>1. CompOK(TopOf(G)) /\ Len(G) \in Nat
    BY TopIs DEF FsOK
  <2>2. c.nactive \in Reg
    BY DEF CompOK, Comp
  <2> QED
    BY <2>1, <2>2, LensNat, RegMod
<1>2. /\ NoFrame \in [k : {""}, comp : Nat, saved : Nat, sbreaks : Nat, top : Int, jf : Int,
                         ends : {<<>>}, base : {0}, prep : Int, names : {<<>>}, over : BOOLEAN]
      /\ <<>> \in Seq(Int) /\ <<>> \in Seq(Names \cup FuncKinds \cup {Env, "main"})
  <2>1. <<>> \in Seq(Int) /\ <<>> \in Seq(Names \cup FuncKinds \cup {Env, "main"})
    OBVIOUS
  <2>2. NoJump \in Int
    BY DEF NoJump
  <2> QED
    BY <2>1, <2>2 DEF NoFrame
<1>3. /\ Frame(k, c).k = k /\ Frame(k, c).comp = Len(fs) /\ Frame(k, c).saved = c.nactive
      /\ Frame(k, c).sbreaks = Len(c.breaks) /\ Frame(k, c).base = 0
  BY <1>2 DEF Frame
<1>4. Frame(k, c) \in FrameT
  BY <1>1, <1>2 DEF Frame, FrameT
<1> QED
  BY <1>1, <1>3, <1>4 DEF FrameMade

\* The counts of a list of expressions.
LEMMA CountsInt ==
    ASSUME NEW es \in Seq(Values), NEW n \in Nat
    PROVE  Produced(es, n) \in Int /\ WantLast(es, n) \in Int
BY DEF Produced, WantLast

\* The state a statement starts from.
LEMMA StartIs ==
    ASSUME IInv
    PROVE  /\ FsOK(fs) /\ CompOK(Top) /\ Top = TopOf(fs)
           /\ Top.nactive \in Nat /\ Top.freereg \in Nat /\ Top.nactive <= Len(Top.locals)
           /\ Top.nactive \in Reg /\ FuncLen(Top) \in Nat
<1>1. FsOK(fs) /\ CompOK(TopOf(fs)) /\ Top = TopOf(fs)
  BY TopIs DEF IInv, FsOK, Top, TopOf
<1>3. Top.nactive \in Reg /\ Top.nactive <= Len(Top.locals)
  BY <1>1 DEF CompOK, Comp
<1> QED
  BY <1>1, <1>3, RegInt

-----------------------------------------------------------------------------
(* Every action preserves it *)

\* mccomp_local
LEMMA LocalInv ==
    ASSUME IInv, NEW names \in NameLists, NEW es \in ExpLists, NEW attrib \in Attrs,
           LocalStat(names, es, attrib)
    PROVE  IInv'
<1> DEFINE c == Top
           n == Len(names)
           p == Produced(es, n)
           F == Exps(fs, es, WantLast(es, n))
           l == LoadNil(TopOf(F), c.nactive + p, n - p)
           d == SetFree(l, c.nactive + n)
           e == DeclareAll(d, names, c.nactive)
           G == On(F, Attribs(e, attrib))
<1>1. /\ names \in Seq(Names) /\ names \in Seq(Names \cup {ForState}) /\ es \in Seq(Values)
      /\ n \in Nat /\ p \in Int /\ WantLast(es, n) \in Int
  <2>1. names \in Seq(Names) /\ es \in Seq(Values)
    BY ScriptAssumption
  <2> QED
    BY <2>1, CountsInt
<1>2. FsOK(fs) /\ c.nactive \in Int /\ phase = "running" /\ stats > 0
  BY StartIs DEF LocalStat, CanStart
<1>3. FsKept(fs, F) /\ FsOK(F) /\ CompOK(TopOf(F))
  BY <1>1, <1>2, ExpsKept, FsKeptTop
<1>4. Refuse \/ GoWild \/ ((attrib = "none" \/ e.nactive # 0) /\ Simple(G))
  BY DEF LocalStat
<1> HIDE DEF c, n, p, F
<1>5. Moved(TopOf(F), l) /\ CompOK(l)
  BY <1>1, <1>2, <1>3, LoadNilAdded, AddedMoved DEF Moved
<1> HIDE DEF l
<1>6. Moved(l, d) /\ CompOK(d)
  <2>1. c.nactive + n \in Int
    BY <1>1, <1>2
  <2>2. Added(l, d)
    BY <1>5, <2>1, FreeAdded
  <2> QED
    BY <1>5, <2>2, AddedMoved DEF Moved
<1> HIDE DEF d
<1>7. Moved(d, e) /\ CompOK(e)
  BY <1>1, <1>2, <1>6, DeclareAllIs DEF Moved
<1> HIDE DEF e
<1>8. ASSUME attrib = "none" \/ e.nactive # 0 PROVE FsMoved(fs, G)
  <2>1. Moved(e, Attribs(e, attrib))
    BY <1>7, <1>8, AttribsMoved
  <2>2. Moved(TopOf(F), Attribs(e, attrib))
    BY <1>3, <1>5, <1>6, <1>7, <2>1, MovedTrans
  <2>3. FsMoved(F, G)
    BY <1>3, <2>2, OnMoved
  <2> QED
    BY <1>2, <1>3, <2>3, KeptMoved, FsMovedTrans
<1> HIDE DEF G
<1> QED
  BY <1>2, <1>4, <1>8, RefuseInv, WildInv, SimpleInv

\* mccomp_assign
LEMMA AssignInv ==
    ASSUME IInv, NEW targets \in NameLists, NEW es \in ExpLists, AssignStat(targets, es)
    PROVE  IInv'
<1> DEFINE c    == Top
           base == c.freereg
           n    == Len(targets)
           p    == Produced(es, n)
           F    == Exps(fs, es, WantLast(es, n))
           l    == LoadNil(TopOf(F), base + p, n - p)
           d    == SetFree(l, base + n)
           G    == On(F, d)
           H    == AssignSteps(G, targets, base)[n]
<1>1. targets \in Seq(Names) /\ es \in Seq(Values) /\ n \in Nat /\ p \in Int /\ WantLast(es, n) \in Int
  <2>1. targets \in Seq(Names) /\ es \in Seq(Values)
    BY ScriptAssumption
  <2> QED
    BY <2>1, CountsInt
<1>2. FsOK(fs) /\ base \in Int /\ phase = "running" /\ stats > 0
  BY StartIs DEF AssignStat, CanStart
<1>3. FsKept(fs, F) /\ FsOK(F) /\ CompOK(TopOf(F))
  BY <1>1, <1>2, ExpsKept, FsKeptTop
<1>4. Refuse \/ Simple(H)
  BY DEF AssignStat
<1>n. n = Len(targets)
  OBVIOUS
<1> HIDE DEF c, base, n, p, F
<1>5. Added(TopOf(F), l) /\ CompOK(l)
  <2>1. base + p \in Int /\ n - p \in Int
    BY <1>1, <1>2
  <2>2. Added(TopOf(F), l)
    BY <1>3, <2>1, LoadNilAdded
  <2> QED
    BY <2>2 DEF Added, Kept
<1> HIDE DEF l
<1>6. Added(l, d)
  BY <1>1, <1>2, <1>5, FreeAdded
<1> HIDE DEF d
<1>7. FsKept(F, G) /\ FsOK(G)
  BY <1>3, <1>5, <1>6, AddedTrans, OnKept DEF FsKept
<1> HIDE DEF G
<1>8. FsKept(G, H)
  BY <1>1, <1>2, <1>7, <1>n, AssignStepsKept
<1> HIDE DEF H
<1>9. FsMoved(fs, H)
  BY <1>2, <1>3, <1>7, <1>8, FsKeptTrans, KeptMoved
<1> QED
  BY <1>2, <1>4, <1>9, RefuseInv, SimpleInv

\* mccomp_return
LEMMA ReturnInv ==
    ASSUME IInv, NEW es \in ExpLists, ReturnStat(es)
    PROVE  IInv'
<1> DEFINE c == Top
           E == On(fs, SetFree(c, c.nactive))
           F == Exps(E, es, MultRet)
           d == TopOf(F)
           b == IF es # <<>> /\ IsMulti(es[Len(es)]) THEN 0 ELSE Len(es) + 1
           i == IF es = <<>> THEN Instr("RETURN0", c.nactive, 0, 0)
                ELSE Flagged(Instr("RETURN", c.nactive, b, VarargC(d)), d.has_tbc \/ d.has_capture)
           e == Emit(d, i)
           G == On(F, EndStat(e))
           K == [ctl EXCEPT ![Len(ctl)].over = TRUE]
<1>1. es \in Seq(Values) /\ MultRet \in Int /\ b \in Int
  BY ScriptAssumption DEF MultRet
<1>2. /\ FsOK(fs) /\ CompOK(c) /\ c = TopOf(fs) /\ c.nactive \in Int /\ phase = "running" /\ stats > 0
      /\ CtlOK(ctl, fs)
  BY StartIs DEF ReturnStat, CanStart, IInv
<1>3. Refuse \/ (/\ fs' = G /\ ctl' = K /\ stats' = stats - 1 /\ UNCHANGED <<heap, phase, final>>)
  BY DEF ReturnStat
<1>4. FsKept(fs, E) /\ FsOK(E)
  BY <1>2, FreeAdded, OnKept DEF FsKept
<1> HIDE DEF E
<1>5. FsKept(E, F) /\ FsOK(F) /\ CompOK(d)
  BY <1>1, <1>4, ExpsKept, FsKeptTop
<1> HIDE DEF F
<1>6. i \in Plains
  <2>1. VarargC(d) \in Int /\ d.has_tbc \in BOOLEAN /\ d.has_capture \in BOOLEAN
    BY <1>5 DEF VarargC, CompOK, Comp
  <2>2. Instr("RETURN0", c.nactive, 0, 0) \in Plains
    BY <1>2, PlainInstr DEF PlainOps
  <2>3. Instr("RETURN", c.nactive, b, VarargC(d)) \in Plains
    BY <1>1, <1>2, <2>1, PlainInstr DEF PlainOps
  <2>4. \A j \in Plains, k \in BOOLEAN : Flagged(j, k) \in Plains
    BY DEF Flagged, Plains, Plain, Instrs
  <2> HIDE DEF b, c, d
  <2> QED
    BY <2>1, <2>2, <2>3, <2>4
<1> HIDE DEF i, b, c
<1>7. Added(d, e) /\ CompOK(e)
  BY <1>5, <1>6, EmitAdded DEF Added, Kept, Coded
<1>8. Added(d, EndStat(e))
  BY <1>5, <1>7, EndMoved, AddedTrans
<1> HIDE DEF e
<1>9. FsKept(F, G) /\ FsOK(G)
  BY <1>5, <1>8, OnKept DEF FsKept
<1> HIDE DEF G, d
<1>10. FsKept(fs, G)
  BY <1>2, <1>4, <1>5, <1>9, FsKeptTrans
<1>11. CtlOK(ctl, G)
  BY <1>2, <1>10, KeptMoved, CtlMoved
<1>12. CtlOK(K, G)
  <2> DEFINE f == [ctl[Len(ctl)] EXCEPT !.over = TRUE]
  <2>1. ctl[Len(ctl)] \in FrameT /\ Len(ctl) \in DOMAIN ctl
    BY <1>9, <1>11, OpenIs
  <2>2. /\ f \in FrameT /\ f.k = ctl[Len(ctl)].k /\ f.comp = ctl[Len(ctl)].comp
        /\ f.saved = ctl[Len(ctl)].saved /\ f.base = ctl[Len(ctl)].base
        /\ f.sbreaks = ctl[Len(ctl)].sbreaks /\ f.names = ctl[Len(ctl)].names
    BY <2>1 DEF FrameT
  <2>3. K = [ctl EXCEPT ![Len(ctl)] = f]
    OBVIOUS
  <2> HIDE DEF f, K
  <2> QED
    BY <1>9, <1>11, <2>2, <2>3, CtlSwap
<1> HIDE DEF K
<1>13. CASE Refuse
  BY <1>2, <1>13, RefuseInv
<1>14. CASE fs' = G /\ ctl' = K /\ stats' = stats - 1 /\ UNCHANGED <<heap, phase, final>>
  <2>1. stats' \in 0..MaxStats
    BY <1>2, <1>14, ScriptAssumption DEF IInv
  <2> QED
    BY <1>2, <1>9, <1>12, <1>14, <2>1, NextInv
<1> QED
  BY <1>3, <1>13, <1>14

\* A call on its own.
LEMMA CallInv ==
    ASSUME IInv, CallStat
    PROVE  IInv'
<1>1. FsOK(fs) /\ phase = "running" /\ stats > 0
  BY StartIs DEF CallStat, CanStart
<1>2. Call \in Values
  BY DEF Values
<1>3. FsMoved(fs, Exp(fs, Call, 0))
  BY <1>1, <1>2, ExpKept, KeptMoved
<1>4. Refuse \/ Simple(Exp(fs, Call, 0))
  BY DEF CallStat
<1> QED
  BY <1>1, <1>3, <1>4, RefuseInv, SimpleInv

-----------------------------------------------------------------------------
(* Blocks and loops *)

\* A frame for the block of a statement whose condition has been compiled.
LEMMA StartFrame ==
    ASSUME IInv, NEW G, FsKept(fs, G), NEW k \in FrameKinds \ {"func"}
    PROVE  FrameMade(Frame(k, Top), G)
<1>1. /\ FsOK(fs) /\ CompOK(Top) /\ Top = TopOf(fs) /\ Top.nactive <= Len(Top.locals)
  BY StartIs
<1>2. FsOK(G) /\ Len(G) = Len(fs) /\ Kept(Top, TopOf(G))
  BY <1>1, FsKeptTop
<1> QED
  BY <1>1, <1>2, FrameIs DEF Kept, Coded

\* The innermost frame of a running compiler.
LEMMA OpenFrame ==
    ASSUME IInv
    PROVE  /\ Open \in FrameT /\ Open.saved \in Reg /\ Open.saved <= Len(Top.locals)
           /\ Open.base \in Reg /\ Open.base <= Len(Top.locals)
           /\ Open.sbreaks \in Nat /\ Open.sbreaks <= Len(Top.breaks)
           /\ Open.jf \in Int /\ Open.top \in Int /\ Open.prep \in Int /\ Open.ends \in Seq(Int)
           /\ CtlOK(ctl, fs) /\ Len(ctl) \in Nat \ {0}
<1>1. CtlOK(ctl, fs) /\ FsOK(fs)
  BY DEF IInv
<1>2. Open \in FrameT
  BY <1>1, OpenIs DEF Open
<1> QED
  BY <1>1, <1>2, OpenIs, StartIs DEF FrameT, Open

\* What is owed is owed to loops.
LEMMA NoLoopEnded ==
    ASSUME IInv, Open.k \notin LoopKinds, NEW c, Moved(Top, c)
    PROVE  Ended(fs, c)
<1>1. \A o \in Top.owed : o.loop # Len(ctl)
  <2>1. CtlOK(ctl, fs) /\ Top = fs[Len(fs)] /\ Len(fs) \in DOMAIN fs
    BY TopIs DEF IInv, FsOK, Top
  <2>2. \A o \in Top.owed : OwedFits(ctl, Len(fs), o)
    BY <2>1 DEF CtlOK
  <2> QED
    BY <2>2 DEF OwedFits, Open
<1>2. /\ Open.sbreaks \in Nat /\ Open.sbreaks <= Len(Top.breaks) /\ Top = TopOf(fs)
      /\ CompOK(Top) /\ CompOK(c) /\ Len(Top.breaks) <= Len(c.breaks)
  BY OpenFrame, StartIs DEF Moved
<1>3. Len(Top.breaks) \in Nat /\ Len(c.breaks) \in Nat
  BY <1>2, LensNat
<1>4. Open.sbreaks <= Len(c.breaks)
  BY <1>2, <1>3
<1> QED
  BY <1>1, <1>2, <1>4 DEF Ended, Moved

\* What the end of a handler emits does not undo what the end made sound.
LEMMA EndedMoved ==
    ASSUME IInv, NEW G, FsOK(G), NEW c, Ended(G, c), NEW d, Moved(c, d)
    PROVE  Ended(G, d)
<1>1. /\ Open.sbreaks \in Nat /\ CompOK(c) /\ CompOK(d) /\ CompOK(TopOf(G))
      /\ Len(c.breaks) <= Len(d.breaks) /\ Open.sbreaks <= Len(c.breaks)
      /\ Len(TopOf(G).locals) <= Len(c.locals) /\ Len(c.locals) <= Len(d.locals)
  BY OpenFrame, TopIs DEF Ended, Moved, FsOK
<1>2. /\ Len(c.breaks) \in Nat /\ Len(d.breaks) \in Nat
      /\ Len(TopOf(G).locals) \in Nat /\ Len(c.locals) \in Nat /\ Len(d.locals) \in Nat
  BY <1>1, LensNat
<1>3. Open.sbreaks <= Len(d.breaks) /\ Len(TopOf(G).locals) <= Len(d.locals)
  BY <1>1, <1>2
<1> QED
  BY <1>1, <1>3 DEF Ended, Moved

\* A loop's breaks are dropped.
LEMMA CloseLoopEnded ==
    ASSUME IInv, NEW G, FsMoved(fs, G), NEW c, Moved(TopOf(G), c)
    PROVE  Ended(G, CloseLoop(c, Open)) /\ CloseLoop(c, Open).locals = c.locals
<1> DEFINE d == PatchAll(c, ToSet(OwnBreaks(c, Open)), FuncLen(c))
           g == Lands(d, Owed(c) \cup Real(Open.jf))
           o == {x \in g.owed : x.loop # Len(ctl)}
           b == OuterBreaks(c, Open)
           r == CloseLoop(c, Open)
<1>0. CompOK(c) /\ FuncLen(c) \in Int
  BY RegInt DEF Moved
<1>1. FsOK(fs) /\ FsOK(G) /\ CompOK(TopOf(G)) /\ Len(Top.breaks) <= Len(TopOf(G).breaks)
  BY FsMovedTop, StartIs
<1>2. Open.sbreaks \in Nat /\ Open.sbreaks <= Len(c.breaks) /\ Open.jf \in Int
  <2>1. /\ Open.sbreaks \in Nat /\ Open.sbreaks <= Len(Top.breaks) /\ Open.jf \in Int
        /\ Len(TopOf(G).breaks) <= Len(c.breaks) /\ CompOK(Top)
    BY OpenFrame, StartIs DEF Moved
  <2>2. Len(Top.breaks) \in Nat /\ Len(TopOf(G).breaks) \in Nat /\ Len(c.breaks) \in Nat
    BY <1>0, <1>1, <2>1, LensNat
  <2> QED
    BY <1>1, <2>1, <2>2
<1>3. /\ CompOK(d) /\ d.locals = c.locals /\ d.breaks = c.breaks /\ d.owed = c.owed
      /\ d.upvals = c.upvals
  <2> DEFINE own == ToSet(OwnBreaks(c, Open))
  <2> HIDE DEF own
  <2> QED
    BY <1>0, PatchIs DEF Moved
<1>4. Owed(c) \cup Real(Open.jf) \in SUBSET Int
  <2>1. c.owed \in SUBSET [pc : Int, loop : Int]
    BY <1>0 DEF CompOK, Comp
  <2> QED
    BY <1>2, <2>1 DEF Owed, Real
<1> HIDE DEF d
<1>5. /\ CompOK(g) /\ g.locals = c.locals /\ g.breaks = c.breaks /\ g.owed = c.owed
      /\ g.upvals = c.upvals
  BY <1>3, <1>4, LandsIs DEF Moved
<1>6. r = [g EXCEPT !.breaks = b, !.in_loop = (@ - 1) % U8, !.owed = o]
  BY DEF CloseLoop, d
<1> HIDE DEF g, r
<1>7. b \in Seq(Int) /\ Len(b) = Open.sbreaks
  <2>1. c.breaks \in Seq(Int)
    BY <1>0, LensNat
  <2> DEFINE n == Open.sbreaks
  <2>2. n \in Nat /\ n <= Len(c.breaks)
    BY <1>2
  <2> HIDE DEF n
  <2>3. SubSeq(c.breaks, 1, n) \in Seq(Int) /\ Len(SubSeq(c.breaks, 1, n)) = n
    BY <2>1, <2>2, PrefixIs
  <2> QED
    BY <2>3 DEF OuterBreaks, n
<1>8. g \in Comp /\ g.in_loop \in Int /\ o \in SUBSET [pc : Int, loop : Int]
  BY <1>5 DEF CompOK, Comp
<1>9. /\ r \in Comp /\ r.locals = c.locals /\ r.breaks = b /\ r.owed = o /\ r.upvals = c.upvals
      /\ r.nactive = g.nactive /\ r.lost = g.lost /\ r.error = g.error
  <2> HIDE DEF b, o
  <2>1. (g.in_loop - 1) % U8 \in Int
    BY <1>8, RegMod DEF Reg
  <2>2. \A z \in Int : [g EXCEPT !.breaks = b, !.in_loop = z, !.owed = o] \in Comp
    BY <1>7, <1>8 DEF Comp
  <2>3. r \in Comp
    BY <1>6, <2>1, <2>2
  <2> QED
    BY <1>5, <1>6, <1>8, <2>3 DEF Comp
<1>10. CompOK(r)
  <2>1. Len(b) <= MaxBreaks
    <3>1. Len(c.breaks) <= MaxBreaks /\ Len(c.breaks) \in Nat
      BY <1>0, LensNat DEF CompOK
    <3> QED
      BY <1>2, <1>7, <3>1, CompAssumption
  <2> HIDE DEF b, o
  <2> QED
    BY <1>5, <1>9, <2>1 DEF CompOK, Whole
<1>11. \A x \in r.owed : x \in TopOf(G).owed /\ x.loop # Len(ctl)
  BY <1>5, <1>9 DEF Moved
<1>12. r.upvals = TopOf(G).upvals /\ Len(TopOf(G).locals) <= Len(r.locals)
  BY <1>9 DEF Moved
<1> HIDE DEF b, o
<1>13. Open.sbreaks <= Len(r.breaks)
  BY <1>2, <1>7, <1>9
<1> QED
  BY <1>9, <1>10, <1>11, <1>12, <1>13 DEF Ended, r

\* History is added.
LEMMA MoreLands ==
    ASSUME NEW c, CompOK(c), NEW new \in SUBSET [pc : Int, at : Int]
    PROVE  /\ Moved(c, [c EXCEPT !.lands = @ \cup new])
           /\ [c EXCEPT !.lands = @ \cup new].locals = c.locals
<1> DEFINE d == [c EXCEPT !.lands = @ \cup new]
<1>1. c \in Comp /\ c.lands \cup new \in SUBSET [pc : Int, at : Int]
  <2>1. c \in Comp /\ c.lands \in SUBSET [pc : Int, at : Int]
    BY DEF CompOK, Comp
  <2> QED
    BY <2>1
<1>2. d \in Comp
  BY <1>1 DEF Comp
<1>3. /\ d.locals = c.locals /\ d.nactive = c.nactive /\ d.breaks = c.breaks
      /\ d.owed = c.owed /\ d.upvals = c.upvals /\ d.lost = c.lost /\ d.error = c.error
  BY <1>1 DEF Comp
<1> HIDE DEF d
<1>4. CompOK(d)
  BY <1>2, <1>3 DEF CompOK, Whole
<1> QED
  BY <1>3, <1>4, LensNat DEF Moved, d

\* The stack goes into a loop.
LEMMA InLoopIs ==
    ASSUME NEW F, FsOK(F)
    PROVE  /\ FsMoved(F, InLoop(F)) /\ FsOK(InLoop(F)) /\ Len(InLoop(F)) = Len(F)
           /\ TopOf(InLoop(F)).locals = TopOf(F).locals
           /\ TopOf(InLoop(F)).breaks = TopOf(F).breaks
<1> DEFINE c == TopOf(F)
           d == [c EXCEPT !.in_loop = (@ + 1) % U8]
<1>1. CompOK(c) /\ c \in Comp /\ c.in_loop \in Int
  <2>1. CompOK(c)
    BY TopIs DEF FsOK
  <2> QED
    BY <2>1 DEF CompOK, Comp
<1>2. d \in Comp
  <2>1. (c.in_loop + 1) % U8 \in Int
    BY <1>1, RegMod DEF Reg
  <2>2. \A z \in Int : [c EXCEPT !.in_loop = z] \in Comp
    BY <1>1 DEF Comp
  <2> QED
    BY <2>1, <2>2
<1>3. /\ d.locals = c.locals /\ d.nactive = c.nactive /\ d.breaks = c.breaks
      /\ d.owed = c.owed /\ d.upvals = c.upvals /\ d.lost = c.lost /\ d.error = c.error
  BY <1>1 DEF Comp
<1>4. InLoop(F) = On(F, d)
  BY DEF InLoop
<1> HIDE DEF c, d
<1>5. Moved(c, d)
  BY <1>1, <1>2, <1>3, LensNat DEF Moved, CompOK, Whole
<1>6. FsMoved(F, On(F, d)) /\ FsOK(On(F, d)) /\ TopOf(On(F, d)) = d
  BY <1>5, OnMoved DEF c
<1> QED
  BY <1>3, <1>4, <1>6 DEF FsMoved, c

\* mccomp_if, up to the first block
LEMMA IfStartInv ==
    ASSUME IInv, NEW e \in CondExps, IfStart(e)
    PROVE  IInv'
<1> DEFINE f == [Frame("if", Top) EXCEPT !.jf = CondJump(fs, e)]
<1>1. /\ FsOK(fs) /\ phase = "running" /\ stats > 0 /\ e \in Values
      /\ Enter(Cond(fs, e), f)
  BY StartIs, ScriptAssumption DEF IfStart, CanStart
<1>2. FsKept(fs, Cond(fs, e)) /\ CondJump(fs, e) \in Int
  BY <1>1, CondKept
<1>3. FrameMade(Frame("if", Top), Cond(fs, e))
  BY <1>2, StartFrame DEF FrameKinds
<1>4. FrameMade(f, Cond(fs, e))
  <2> DEFINE g  == Frame("if", Top)
             jf == CondJump(fs, e)
             G  == Cond(fs, e)
  <2>1. FrameMade(g, G) /\ jf \in Int
    BY <1>2, <1>3
  <2> HIDE DEF g, jf, G
  <2>2. FrameMade([g EXCEPT !.jf = jf], G)
    BY <2>1 DEF FrameMade, FrameT
  <2> QED
    BY <2>2 DEF g, jf, G
<1>5. FsMoved(fs, Cond(fs, e))
  BY <1>1, <1>2, KeptMoved
<1> HIDE DEF f
<1> QED
  BY <1>1, <1>4, <1>5, EnterInv

\* Between two clauses.
LEMMA NextClauseMoved ==
    ASSUME NEW c, CompOK(c), NEW f \in FrameT
    PROVE  Moved(c, NextClause(c, f)) /\ EndsAfter(c, f) \in Seq(Int)
           /\ NextClause(c, f).locals = c.locals /\ NextClause(c, f).breaks = c.breaks
<1> DEFINE d == IF Len(f.ends) < MaxEnds THEN Emit(c, Jump(0)) ELSE c
           p == Patch(d, f.jf, FuncLen(d))
<1>1. f.jf \in Int /\ f.ends \in Seq(Int)
  BY DEF FrameT
<1>2. Jump(0) \in Plains /\ NextPC(c) \in Int
  BY PlainJump, RegInt
<1>3. Added(c, d)
  BY <1>2, EmitAdded, AddedRefl
<1>4. Moved(c, d) /\ CompOK(d) /\ d.locals = c.locals /\ d.breaks = c.breaks
  BY <1>3, AddedMoved DEF Moved, Added, Kept, Coded
<1>5. NextClause(c, f) = Lands(p, Real(f.jf))
  BY DEF NextClause
<1> HIDE DEF d
<1>6. Moved(d, p) /\ CompOK(p) /\ p.locals = d.locals /\ p.breaks = d.breaks
  BY <1>4, RegInt, PatchIs, SMTT(30) DEF Patch, Moved
<1> HIDE DEF p
<1>7. Real(f.jf) \in SUBSET Int
  BY <1>1 DEF Real
<1>8. /\ Moved(p, Lands(p, Real(f.jf))) /\ Lands(p, Real(f.jf)).locals = p.locals
      /\ Lands(p, Real(f.jf)).breaks = p.breaks
  BY <1>6, <1>7, LandsIs
<1>9. EndsAfter(c, f) \in Seq(Int)
  BY <1>1, <1>2 DEF EndsAfter
<1> QED
  BY <1>4, <1>5, <1>6, <1>8, <1>9, MovedTrans

\* A new clause: the frame is an if's before and after.
LEMMA ClauseInv ==
    ASSUME IInv, phase = "running", stats > 0, Open.k = "if", NEW G, FsMoved(fs, G),
           NEW k \in {"if", "else"}, NEW jf \in Int, NEW ends \in Seq(Int), NEW f,
           f = [Open EXCEPT !.k = k, !.jf = jf, !.ends = ends],
           Clause(G, f)
    PROVE  IInv'
<1> DEFINE h == [f EXCEPT !.over = FALSE]
           K == [ctl EXCEPT ![Len(ctl)] = h]
<1>1. Open \in FrameT /\ Open = ctl[Len(ctl)] /\ CtlOK(ctl, fs) /\ FsOK(fs)
  BY OpenFrame DEF Open, IInv
<1>2. h \in FrameT /\ h.k \in {"if", "else"} /\ h.comp = Open.comp /\ h.saved = Open.saved
      /\ h.base = Open.base /\ h.sbreaks = Open.sbreaks /\ h.names = Open.names
  BY <1>1 DEF FrameT, FrameKinds
<1>3. FsOK(G) /\ CtlOK(ctl, G)
  BY <1>1, CtlMoved DEF FsMoved
<1> HIDE DEF h
<1>4. CtlOK(K, G)
  BY <1>1, <1>2, <1>3, CtlSwap
<1>5. Append(Front(ctl), h) = K
  <2>1. ctl \in Seq(FrameT) /\ ctl # <<>> /\ Len(ctl) \in Nat \ {0}
    BY <1>1, OpenIs DEF CtlOK
  <2>2. /\ Front(ctl) \in Seq(FrameT) /\ Len(Front(ctl)) = Len(ctl) - 1
        /\ \A i \in 1 .. Len(ctl) - 1 : Front(ctl)[i] = ctl[i]
    BY <2>1, FrontIs
  <2>3. /\ Append(Front(ctl), h) \in Seq(FrameT)
        /\ Len(Append(Front(ctl), h)) = Len(ctl)
        /\ \A i \in 1 .. Len(ctl) - 1 : Append(Front(ctl), h)[i] = ctl[i]
        /\ Append(Front(ctl), h)[Len(ctl)] = h
    <3> DEFINE s == Front(ctl)
    <3>1. s \in Seq(FrameT) /\ Len(s) + 1 = Len(ctl) /\ h \in FrameT /\ Len(ctl) - 1 = Len(s)
      BY <1>2, <2>1, <2>2
    <3>2. \A i \in 1 .. Len(s) : s[i] = ctl[i]
      BY <2>2, <3>1
    <3> HIDE DEF s
    <3>3. /\ Append(s, h) \in Seq(FrameT) /\ Len(Append(s, h)) = Len(s) + 1
          /\ \A i \in 1 .. Len(s) : Append(s, h)[i] = s[i]
          /\ Append(s, h)[Len(s) + 1] = h
      BY <3>1, AppendIs
    <3> QED
      BY <3>1, <3>2, <3>3 DEF s
  <2>4. K \in Seq(FrameT) /\ Len(K) = Len(ctl)
        /\ \A i \in 1 .. Len(ctl) : K[i] = IF i = Len(ctl) THEN h ELSE ctl[i]
    BY <1>2, <2>1
  <2> DEFINE A == Append(Front(ctl), h)
  <2> HIDE DEF A, K
  <2>5. \A i \in 1 .. Len(ctl) : A[i] = K[i]
    BY <2>1, <2>3, <2>4 DEF A
  <2>6. A \in Seq(FrameT) /\ Len(A) = Len(K)
    BY <2>3, <2>4 DEF A
  <2>7. A = K
    BY <2>4, <2>5, <2>6, SeqEqual
  <2> QED
    BY <2>7 DEF A
<1>6. /\ fs' = G /\ ctl' = K /\ stats' \in 0..MaxStats /\ phase' = "running"
      /\ UNCHANGED <<heap, final>>
  <2>1. stats - 1 \in 0..MaxStats
    BY ScriptAssumption DEF IInv
  <2> QED
    BY <1>5, <2>1 DEF Clause, h
<1> HIDE DEF K
<1> QED
  BY <1>3, <1>4, <1>6, NextInv

\* The block of a clause is left, and the next one prepared.
LEMMA ClauseMoved ==
    ASSUME IInv
    PROVE  LET c == LeaveBlock(Top, Open.saved) IN
           /\ FsMoved(fs, On(fs, NextClause(c, Open)))
           /\ EndsAfter(c, Open) \in Seq(Int)
<1> DEFINE c == LeaveBlock(Top, Open.saved)
<1>1. FsOK(fs) /\ CompOK(Top) /\ Top = TopOf(fs) /\ Open \in FrameT
      /\ Open.saved \in Reg /\ Open.saved <= Len(Top.locals)
  BY StartIs, OpenFrame
<1>2. Moved(Top, c) /\ CompOK(c)
  BY <1>1, BlockIs DEF Moved
<1> HIDE DEF c
<1>3. Moved(c, NextClause(c, Open)) /\ EndsAfter(c, Open) \in Seq(Int)
  BY <1>1, <1>2, NextClauseMoved
<1>4. FsMoved(fs, On(fs, NextClause(c, Open)))
  BY <1>1, <1>2, <1>3, MovedTrans, OnMoved
<1> QED
  BY <1>3, <1>4 DEF c

\* The next clause of an if.
LEMMA ElseIfInv ==
    ASSUME IInv, NEW e \in CondExps, ElseIf(e)
    PROVE  IInv'
<1> DEFINE c == LeaveBlock(Top, Open.saved)
           F == On(fs, NextClause(c, Open))
           f == [Open EXCEPT !.jf = CondJump(F, e), !.ends = EndsAfter(c, Open)]
           g == [Open EXCEPT !.k = "if", !.jf = CondJump(F, e), !.ends = EndsAfter(c, Open)]
<1>1. /\ phase = "running" /\ Open.k = "if" /\ stats > 0 /\ Clause(Cond(F, e), f)
  BY DEF ElseIf
<1>2. FsMoved(fs, F) /\ FsOK(F) /\ EndsAfter(c, Open) \in Seq(Int)
  BY ClauseMoved DEF FsMoved
<1> DEFINE ends == EndsAfter(c, Open)
<1>3. Open \in FrameT /\ FsOK(fs) /\ e \in Values
  BY OpenFrame, StartIs, ScriptAssumption
<1>4. f = g
  BY <1>1, <1>3 DEF FrameT
<1> HIDE DEF F, c
<1>5. FsKept(F, Cond(F, e)) /\ CondJump(F, e) \in Int
  BY <1>2, <1>3, CondKept
<1>6. FsMoved(fs, Cond(F, e))
  BY <1>2, <1>3, <1>5, KeptMoved, FsMovedTrans
<1>7. Clause(Cond(F, e), g)
  BY <1>1, <1>4
<1> QED
  BY <1>1, <1>2, <1>5, <1>6, <1>7, ClauseInv

\* The last clause of an if.
LEMMA ElseInv ==
    ASSUME IInv, Else
    PROVE  IInv'
<1> DEFINE c == LeaveBlock(Top, Open.saved)
           F == On(fs, NextClause(c, Open))
           f == [Open EXCEPT !.k = "else", !.jf = NoJump, !.ends = EndsAfter(c, Open)]
<1>1. /\ phase = "running" /\ Open.k = "if" /\ stats > 0 /\ Clause(F, f)
  BY DEF Else
<1>2. FsMoved(fs, F) /\ EndsAfter(c, Open) \in Seq(Int) /\ NoJump \in Int
  BY ClauseMoved DEF NoJump
<1> HIDE DEF F, c
<1> QED
  BY <1>1, <1>2, ClauseInv

\* The end of an if patches its jumps.
LEMMA IfEndInv ==
    ASSUME IInv, IfEnd
    PROVE  IInv'
<1> DEFINE c    == LeaveBlock(Top, Open.saved)
           pcs  == {Open.jf} \cup ToSet(Open.ends)
           d    == PatchAll(c, pcs, FuncLen(c))
           r    == Lands(d, pcs \ {NoJump})
<1>1. phase = "running" /\ Open.k \in {"if", "else"} /\ Leave(r)
  BY DEF IfEnd
<1>2. /\ CompOK(Top) /\ Open \in FrameT /\ Open.saved \in Reg /\ Open.saved <= Len(Top.locals)
      /\ Open.jf \in Int /\ Open.ends \in Seq(Int)
  BY StartIs, OpenFrame
<1>3. Moved(Top, c) /\ CompOK(c)
  BY <1>2, BlockIs DEF Moved
<1>4. pcs \ {NoJump} \in SUBSET Int
  BY <1>2 DEF ToSet
<1> HIDE DEF c, pcs
<1>5. Moved(c, d) /\ CompOK(d)
  BY <1>3, RegInt, PatchIs DEF Moved
<1> HIDE DEF d
<1>6. Moved(d, r)
  BY <1>4, <1>5, LandsIs
<1> HIDE DEF r
<1>7. Moved(Top, r)
  BY <1>2, <1>3, <1>5, <1>6, MovedTrans
<1>8. Open.k \notin LoopKinds /\ Open.k # "func"
  BY <1>1 DEF LoopKinds
<1>9. Ended(fs, r)
  BY <1>7, <1>8, NoLoopEnded
<1> QED
  BY <1>1, <1>8, <1>9, LeaveInv

\* do ... end
LEMMA DoStartInv ==
    ASSUME IInv, DoStart
    PROVE  IInv'
<1>1. FsOK(fs) /\ phase = "running" /\ stats > 0 /\ Enter(fs, Frame("do", Top))
  BY StartIs DEF DoStart, CanStart
<1>2. FsKept(fs, fs) /\ FsMoved(fs, fs)
  BY <1>1, FsKeptRefl, FsMovedRefl
<1>3. FrameMade(Frame("do", Top), fs)
  BY <1>2, StartFrame DEF FrameKinds
<1> QED
  BY <1>1, <1>2, <1>3, EnterInv

\* The end of a block.
LEMMA DoEndInv ==
    ASSUME IInv, DoEnd
    PROVE  IInv'
<1> DEFINE c == LeaveBlock(Top, Open.saved)
<1>1. phase = "running" /\ Open.k = "do" /\ Leave(c)
  BY DEF DoEnd
<1>2. Moved(Top, c)
  BY StartIs, OpenFrame, BlockIs
<1>3. Open.k \notin LoopKinds /\ Open.k # "func"
  BY <1>1 DEF LoopKinds
<1> HIDE DEF c
<1> QED
  BY <1>1, <1>2, <1>3, NoLoopEnded, LeaveInv

\* mccomp_while
LEMMA WhileStartInv ==
    ASSUME IInv, NEW e \in CondExps, WhileStart(e)
    PROVE  IInv'
<1> DEFINE F == InLoop(fs)
           G == Cond(F, e)
           f == [Frame("while", Top) EXCEPT !.top = FuncLen(Top), !.jf = CondJump(F, e)]
<1>1. /\ FsOK(fs) /\ phase = "running" /\ stats > 0 /\ e \in Values
      /\ Enter(G, f) /\ CompOK(Top) /\ Top = TopOf(fs) /\ Top.nactive <= Len(Top.locals)
      /\ FuncLen(Top) \in Int
  BY StartIs, ScriptAssumption DEF WhileStart, CanStart
<1>3. /\ FsMoved(fs, F) /\ FsOK(F) /\ Len(F) = Len(fs) /\ TopOf(F).locals = Top.locals
      /\ TopOf(F).breaks = Top.breaks
  BY <1>1, InLoopIs
<1> HIDE DEF F
<1>4. FsKept(F, G) /\ CondJump(F, e) \in Int
  BY <1>1, <1>3, CondKept
<1>5. FsOK(G) /\ Len(G) = Len(fs) /\ TopOf(G).locals = Top.locals /\ TopOf(G).breaks = Top.breaks
  BY <1>3, <1>4, FsKeptTop DEF Kept, Coded
<1>6. FsMoved(fs, G)
  BY <1>1, <1>3, <1>4, KeptMoved, FsMovedTrans
<1> HIDE DEF G
<1>7. FrameMade(Frame("while", Top), G)
  BY <1>1, <1>5, FrameIs DEF FrameKinds, LoopKinds
<1>8. FrameMade(f, G)
  <2> DEFINE g   == Frame("while", Top)
             jf  == CondJump(F, e)
             top == FuncLen(Top)
  <2>1. FrameMade(g, G) /\ jf \in Int /\ top \in Int
    BY <1>1, <1>4, <1>7
  <2> HIDE DEF g, jf, top
  <2>2. FrameMade([g EXCEPT !.top = top, !.jf = jf], G)
    BY <2>1 DEF FrameMade, FrameT
  <2> QED
    BY <2>2 DEF g, jf, top
<1> HIDE DEF f
<1> QED
  BY <1>1, <1>6, <1>8, EnterInv

\* What the end of a while makes of its function.
LEMMA WhileEnded ==
    ASSUME IInv, NEW c, c = LeaveBlock(Top, Open.saved),
           NEW d, d = Emit(c, Jump(Open.top - (FuncLen(c) + 1))),
           NEW p, p = Patch(d, Open.jf, FuncLen(d))
    PROVE  CompOK(c) /\ Ended(fs, CloseLoop(p, Open))
<1>1. /\ CompOK(Top) /\ Top = TopOf(fs) /\ FsOK(fs) /\ Open.top \in Int
      /\ Open.saved \in Reg /\ Open.saved <= Len(Top.locals)
  BY StartIs, OpenFrame
<1>2. Moved(Top, c) /\ CompOK(c) /\ FuncLen(c) \in Int
  BY <1>1, BlockIs, RegInt, SMTT(30) DEF Moved
<1>3. Moved(c, d) /\ CompOK(d) /\ FuncLen(d) \in Int
  <2>1. Jump(Open.top - (FuncLen(c) + 1)) \in Instrs
    BY <1>1, <1>2, JumpType
  <2> QED
    BY <1>2, <2>1, EmitMoved, RegInt, SMTT(30) DEF Moved
<1>4. Moved(d, p)
  BY <1>3, PatchIs DEF Patch
<1>5. Moved(Top, p)
  BY <1>1, <1>2, <1>3, <1>4, MovedTrans
<1> QED
  BY <1>1, <1>2, <1>5, FsMovedRefl, CloseLoopEnded

\* The end of a while patches its breaks and drops them.
LEMMA WhileEndInv ==
    ASSUME IInv, WhileEnd
    PROVE  IInv'
<1> DEFINE c == LeaveBlock(Top, Open.saved)
           d == Emit(c, Jump(Open.top - (FuncLen(c) + 1)))
           p == Patch(d, Open.jf, FuncLen(d))
           r == CloseLoop(p, Open)
<1>1. phase = "running" /\ Open.k = "while" /\ (GoWild \/ Leave(r))
  BY DEF WhileEnd
<1>2. Ended(fs, r)
  BY WhileEnded
<1> HIDE DEF r
<1> QED
  BY <1>1, <1>2, LeaveInv, WildInv

\* repeat ... until
LEMMA RepeatStartInv ==
    ASSUME IInv, RepeatStart
    PROVE  IInv'
<1> DEFINE G == InLoop(fs)
           f == [Frame("repeat", Top) EXCEPT !.top = FuncLen(Top)]
<1>1. /\ FsOK(fs) /\ phase = "running" /\ stats > 0
      /\ Enter(G, f) /\ CompOK(Top) /\ Top = TopOf(fs) /\ Top.nactive <= Len(Top.locals)
      /\ FuncLen(Top) \in Int
  BY StartIs DEF RepeatStart, CanStart
<1>2. /\ FsMoved(fs, G) /\ FsOK(G) /\ Len(G) = Len(fs) /\ TopOf(G).locals = Top.locals
      /\ TopOf(G).breaks = Top.breaks
  BY <1>1, InLoopIs
<1> HIDE DEF G
<1>3. FrameMade(Frame("repeat", Top), G)
  BY <1>1, <1>2, FrameIs DEF FrameKinds, LoopKinds
<1>4. FrameMade(f, G)
  <2> DEFINE g   == Frame("repeat", Top)
             top == FuncLen(Top)
  <2>1. FrameMade(g, G) /\ top \in Int /\ 0 \in Int
    BY <1>1, <1>3
  <2> HIDE DEF g, top
  <2>2. FrameMade([g EXCEPT !.top = top], G)
    BY <2>1 DEF FrameMade, FrameT
  <2> QED
    BY <2>2 DEF g, top
<1> HIDE DEF f
<1> QED
  BY <1>1, <1>2, <1>4, EnterInv

\* The same for a repeat.
LEMMA RepeatEndInv ==
    ASSUME IInv, NEW e \in CondExps, RepeatEnd(e)
    PROVE  IInv'
<1> DEFINE F    == Cond(fs, e)
           back == CondJump(fs, e)
           c    == Patch(TopOf(F), back, Open.top)
           l    == CloseLoop(c, Open)
           new  == {[pc |-> pc, at |-> Open.top] : pc \in Real(back)}
           d    == [l EXCEPT !.lands = @ \cup new]
           r    == LeaveBlock(d, Open.saved)
<1>1. /\ phase = "running" /\ Open.k = "repeat"
      /\ GoWild \/ (/\ fs' = On(F, r) /\ ctl' = Front(ctl)
                    /\ UNCHANGED <<heap, phase, stats, final>>)
  BY DEF RepeatEnd
<1>2. /\ CompOK(Top) /\ Top = TopOf(fs) /\ FsOK(fs) /\ Open.top \in Int
      /\ Open.saved \in Reg /\ Open.saved <= Len(Top.locals) /\ e \in Values
  BY StartIs, OpenFrame, ScriptAssumption
<1>3. FsKept(fs, F) /\ back \in Int
  BY <1>2, CondKept
<1>4. FsMoved(fs, F) /\ FsOK(F) /\ CompOK(TopOf(F)) /\ TopOf(F).locals = Top.locals
  BY <1>2, <1>3, KeptMoved, FsKeptTop DEF Kept, Coded
<1>5. new \in SUBSET [pc : Int, at : Int]
  BY <1>2, <1>3 DEF Real
<1> HIDE DEF F, back, new
<1>6. Moved(TopOf(F), c) /\ c.locals = Top.locals
  BY <1>2, <1>4, PatchIs DEF Patch
<1> HIDE DEF c
<1>7. Ended(F, l) /\ l.locals = Top.locals
  BY <1>4, <1>6, CloseLoopEnded
<1> HIDE DEF l
<1>8. Moved(l, d) /\ CompOK(d) /\ d.locals = Top.locals
  BY <1>5, <1>7, MoreLands DEF Ended, Moved
<1> HIDE DEF d
<1>9. Moved(d, r)
  BY <1>2, <1>8, BlockIs
<1> HIDE DEF r
<1>10. Ended(F, r)
  BY <1>4, <1>7, <1>8, <1>9, EndedMoved
<1>11. Open.k # "func"
  BY <1>1
<1>12. CASE GoWild
  BY <1>12, WildInv
<1>13. CASE fs' = On(F, r) /\ ctl' = Front(ctl) /\ UNCHANGED <<heap, phase, stats, final>>
  BY <1>1, <1>4, <1>10, <1>11, <1>13, EndedInv
<1> QED
  BY <1>1, <1>12, <1>13

\* mccomp_fornum
LEMMA ForNumStartInv ==
    ASSUME IInv, NEW name \in Names, NEW es \in ExpLists, ForNumStart(name, es)
    PROVE  IInv'
<1> DEFINE c    == Top
           base == c.nactive
           F    == ExpSteps(fs, es)[Len(es)]
           d    == IF Len(es) = 3 THEN TopOf(F)
                   ELSE Emit(TopOf(F), Instr("LOADI", (base + 2) % U8, 0, 0))
           s    == SetFree(d, base + 3)
           u    == NewLocal(s, name, base + 3)
           v    == SetFree(u, base + 4)
           p    == [v EXCEPT !.maxreg = Bigger(@, v.freereg)]
           q    == Emit(p, Instr("FORPREP", base, 0, 0))
           G    == On(F, q)
           f    == [Frame("fornum", p) EXCEPT !.base = base, !.prep = NextPC(p), !.top = FuncLen(q)]
<1>1. /\ FsOK(fs) /\ phase = "running" /\ stats > 0 /\ (Refuse \/ Enter(G, f))
      /\ CompOK(c) /\ c = TopOf(fs) /\ base \in Reg /\ base <= Len(c.locals)
      /\ es \in Seq(Values) /\ Len(es) \in Nat
  BY StartIs, ScriptAssumption DEF ForNumStart, CanStart
<1>2. FsKept(fs, F) /\ FsOK(F) /\ CompOK(TopOf(F)) /\ TopOf(F).locals = c.locals
      /\ Len(F) = Len(fs)
  <2>1. FsKept(fs, F)
    BY <1>1, ExpStepsKept
  <2> HIDE DEF F
  <2> QED
    BY <1>1, <2>1, FsKeptTop DEF Kept, Coded
<1> HIDE DEF c, F
<1>3. Added(TopOf(F), d) /\ CompOK(d)
  <2>1. (base + 2) % U8 \in Int
    BY <1>1, RegMod DEF Reg
  <2>2. Instr("LOADI", (base + 2) % U8, 0, 0) \in Plains
    BY <2>1, PlainInstr DEF PlainOps
  <2> HIDE DEF base
  <2> QED
    BY <1>2, <2>2, EmitAdded, AddedRefl DEF Added, Kept, Coded
<1> HIDE DEF d
<1>4. Added(d, s) /\ CompOK(s)
  <2>1. base + 3 \in Int
    BY <1>1 DEF Reg
  <2> QED
    BY <1>3, <2>1, FreeAdded DEF Added, Kept, Coded
<1> HIDE DEF s
<1>5. Moved(s, u) /\ CompOK(u) /\ u.breaks = s.breaks
  <2>1. base + 3 \in Int
    BY <1>1 DEF Reg
  <2> QED
    BY <1>4, <2>1, NewLocalIs DEF Moved
<1> HIDE DEF u
<1>6. Added(u, v) /\ CompOK(v)
  <2>1. base + 4 \in Int
    BY <1>1 DEF Reg
  <2> QED
    BY <1>5, <2>1, FreeAdded DEF Added, Kept, Coded
<1> HIDE DEF v
<1>7. Added(v, p) /\ CompOK(p)
  <2>1. v \in Comp /\ Bigger(v.maxreg, v.freereg) \in Reg
    BY <1>6 DEF CompOK, Comp, Bigger
  <2>2. p \in Comp /\ SameBut(v, p) /\ Whole(p)
    BY <1>6, <2>1 DEF CompOK, Comp, SameBut, Whole
  <2> QED
    BY <1>6, <2>2, SameAdded DEF Added, Kept, Coded
<1> HIDE DEF p
<1>8. Moved(p, q) /\ CompOK(q) /\ q.locals = p.locals /\ q.breaks = p.breaks
  <2>1. Instr("FORPREP", base, 0, 0) \in Instrs
    <3>1. base \in Int
      BY <1>1 DEF Reg
    <3> HIDE DEF base
    <3> QED
      BY <3>1, InstrType DEF Ops, PlainOps, Looping
  <2> QED
    BY <1>7, <2>1, EmitMoved, EmitIs
<1> HIDE DEF q, base
<1>9. Moved(TopOf(F), q)
  BY <1>2, <1>3, <1>4, <1>5, <1>6, <1>7, <1>8, AddedMoved, MovedTrans
<1>10. FsMoved(F, G) /\ FsOK(G) /\ TopOf(G) = q /\ Len(G) = Len(F)
  BY <1>2, <1>9, OnMoved DEF FsMoved
<1>11. FsMoved(fs, G)
  BY <1>1, <1>2, <1>10, KeptMoved, FsMovedTrans
<1>12. p.locals = q.locals /\ p.breaks = q.breaks /\ p.nactive <= Len(p.locals)
       /\ NextPC(p) \in Int /\ FuncLen(q) \in Int
  BY <1>7, <1>8, RegInt DEF CompOK
<1>13. FrameMade(Frame("fornum", p), G)
  BY <1>2, <1>7, <1>10, <1>12, FrameIs DEF FrameKinds, LoopKinds
<1>14. base <= Len(TopOf(G).locals)
  <2>1. Len(c.locals) <= Len(q.locals)
    BY <1>2, <1>9 DEF Moved
  <2>2. Len(c.locals) \in Nat /\ Len(q.locals) \in Nat /\ base \in Nat
    BY <1>1, <1>8, LensNat, RegMod
  <2> QED
    BY <1>1, <1>10, <2>1, <2>2
<1>15. FrameMade(f, G)
  <2> DEFINE f0 == Frame("fornum", p)
             pr == NextPC(p)
             tp == FuncLen(q)
  <2>1. FrameMade(f0, G) /\ pr \in Int /\ tp \in Int /\ base \in Reg /\ base <= Len(TopOf(G).locals)
    BY <1>1, <1>12, <1>13, <1>14
  <2> HIDE DEF f0, pr, tp, G
  <2>2. FrameMade([f0 EXCEPT !.base = base, !.prep = pr, !.top = tp], G)
    BY <2>1 DEF FrameMade, FrameT
  <2> QED
    BY <2>2 DEF f0, pr, tp
<1> HIDE DEF f, G
<1> QED
  BY <1>1, <1>11, <1>15, RefuseInv, EnterInv

\* History is forgotten when a loop without breaks of its own ends.
Forget(c, n) == [c EXCEPT !.owed = {o \in @ : o.loop # n}]

\* The breaks owed to a loop can be dropped.
LEMMA DropOwed ==
    ASSUME NEW c, CompOK(c), NEW n
    PROVE  /\ Moved(c, Forget(c, n))
           /\ \A o \in Forget(c, n).owed : o.loop # n
<1> DEFINE d == [c EXCEPT !.owed = {o \in @ : o.loop # n}]
<1>1. c \in Comp /\ {o \in c.owed : o.loop # n} \in SUBSET [pc : Int, loop : Int]
  <2>1. c \in Comp /\ c.owed \in SUBSET [pc : Int, loop : Int]
    BY DEF CompOK, Comp
  <2> QED
    BY <2>1
<1>2. d \in Comp
  BY <1>1, ZenonT(40) DEF Comp
<1>3. /\ d.locals = c.locals /\ d.nactive = c.nactive /\ d.breaks = c.breaks
      /\ d.owed = {o \in c.owed : o.loop # n} /\ d.upvals = c.upvals
      /\ d.lost = c.lost /\ d.error = c.error
  BY <1>1 DEF Comp
<1> HIDE DEF d
<1>4. CompOK(d)
  BY <1>2, <1>3 DEF CompOK, Whole
<1> QED
  BY <1>3, <1>4, LensNat DEF Moved, Forget, d

\* The end of a numeric for keeps the stacks in step.
LEMMA ForNumEnded ==
    ASSUME IInv, NEW c, c = LeaveBlock(Top, Open.saved),
           NEW dist, dist = FuncLen(c) - Open.top,
           NEW d, d = Emit(c, Instr("FORLOOP", Open.base, dist + 1, 0)),
           NEW g, g = SetPrep(d, Open.prep, "FORPREP", Open.base, dist),
           NEW h, h = Lands(g, Owed(g)),
           NEW m, m = LeaveBlock(h, Open.base),
           NEW r, r = Forget(m, Len(ctl))
    PROVE  Ended(fs, r)
<1>2. /\ CompOK(Top) /\ Top = TopOf(fs) /\ FsOK(fs) /\ Open.top \in Int /\ Open.prep \in Int
      /\ Open.saved \in Reg /\ Open.saved <= Len(Top.locals)
      /\ Open.base \in Reg /\ Open.base \in Int /\ Open.base <= Len(Top.locals)
  BY StartIs, OpenFrame DEF Reg
<1>3. Moved(Top, c) /\ CompOK(c) /\ FuncLen(c) \in Int /\ c.locals = Top.locals
  <2>1. Moved(Top, c) /\ c.locals = Top.locals
    BY <1>2, BlockIs
  <2> QED
    BY <2>1, RegInt DEF Moved
<1>4. dist \in Int
  BY <1>2, <1>3
<1>5. Moved(c, d) /\ CompOK(d) /\ d.locals = Top.locals
  <2>1. Instr("FORLOOP", Open.base, dist + 1, 0) \in Instrs
    <3>1. "FORLOOP" \in Ops /\ Open.base \in Int /\ dist + 1 \in Int /\ 0 \in Int
      BY <1>2, <1>4 DEF Ops, PlainOps, Looping
    <3> QED
      BY <3>1, InstrType
  <2> QED
    BY <1>3, <2>1, EmitMoved
<1>6. Moved(d, g) /\ CompOK(g) /\ g.locals = Top.locals
  <2>1. "FORPREP" \in Ops
    BY DEF Ops, PlainOps, Looping
  <2>2. Moved(d, g) /\ g.locals = d.locals
    BY <1>2, <1>4, <1>5, <2>1, PrepMoved
  <2> QED
    BY <1>5, <2>2 DEF Moved
<1>7. Moved(g, h) /\ CompOK(h) /\ h.locals = Top.locals
  <2>1. g.owed \in SUBSET [pc : Int, loop : Int]
    BY <1>6, SMTT(30) DEF CompOK, Comp
  <2>2. Owed(g) \in SUBSET Int
    BY <2>1, SMTT(30) DEF Owed
  <2> QED
    BY <1>6, <2>2, LandsIs DEF Moved
<1>8. Moved(h, m) /\ CompOK(m)
  BY <1>2, <1>7, BlockIs DEF Moved
<1>9. Moved(m, r) /\ \A o \in r.owed : o.loop # Len(ctl)
  BY <1>8, DropOwed, SMTT(30)
<1>10. Moved(Top, r)
  BY <1>2, <1>3, <1>5, <1>6, <1>7, <1>8, <1>9, MovedTrans
<1> QED
  <2>1. /\ Open.sbreaks \in Nat /\ Open.sbreaks <= Len(Top.breaks)
        /\ CompOK(r) /\ Len(Top.breaks) <= Len(r.breaks)
    BY <1>10, OpenFrame DEF Moved
  <2>2. Len(Top.breaks) \in Nat /\ Len(r.breaks) \in Nat
    BY <1>2, <2>1, LensNat
  <2>3. Open.sbreaks <= Len(r.breaks)
    BY <2>1, <2>2
  <2> QED
    BY <1>2, <1>9, <1>10, <2>3, ZenonT(60) DEF Ended, Moved

\* The end of a numeric for rewrites its FORPREP.
LEMMA ForNumEndInv ==
    ASSUME IInv, ForNumEnd
    PROVE  IInv'
<1> DEFINE c    == LeaveBlock(Top, Open.saved)
           dist == FuncLen(c) - Open.top
           d    == Emit(c, Instr("FORLOOP", Open.base, dist + 1, 0))
           g    == SetPrep(d, Open.prep, "FORPREP", Open.base, dist)
           h    == Lands(g, Owed(g))
           m    == LeaveBlock(h, Open.base)
           r    == [m EXCEPT !.owed = {o \in @ : o.loop # Len(ctl)}]
<1>1. phase = "running" /\ Open.k = "fornum" /\ Leave(r)
  BY DEF ForNumEnd
<1>2. Ended(fs, r)
  <2>1. r = Forget(m, Len(ctl))
    BY DEF Forget
  <2> HIDE DEF r
  <2> QED
    BY <2>1, ForNumEnded
<1> HIDE DEF r
<1>3. Open.k # "func"
  BY <1>1
<1> QED
  BY <1>1, <1>2, <1>3, LeaveInv

\* mccomp_forin
LEMMA ForInStartInv ==
    ASSUME IInv, NEW names \in NameLists, NEW es \in ExpLists, ForInStart(names, es)
    PROVE  IInv'
<1> DEFINE c    == Top
           base == c.nactive
           n    == Len(names)
           p    == Produced(es, 4)
           E    == On(fs, SetFree(c, base))
           F    == Exps(E, es, WantLast(es, 4))
           d    == LoadNil(TopOf(F), base + p, 4 - p)
           s    == DeclareAll(d, [i \in 1..4 |-> ForState], base)
           g    == SetFree(s, base + 4)
           q    == Emit(g, Instr("TFORPREP", base, 0, 0))
           u    == DeclareAll(q, names, base + 4)
           v    == SetFree(u, base + 4 + n)
           w    == [v EXCEPT !.maxreg = Bigger(@, v.freereg), !.in_loop = (@ + 1) % U8]
           G    == On(F, w)
           f    == [Frame("forin", w) EXCEPT !.base = base, !.prep = NextPC(g),
                                             !.top = FuncLen(w), !.names = names]
<1>1. /\ FsOK(fs) /\ phase = "running" /\ stats > 0 /\ (Refuse \/ Enter(G, f))
      /\ CompOK(c) /\ c = TopOf(fs) /\ base \in Reg /\ base \in Int /\ base <= Len(c.locals)
  BY StartIs DEF ForInStart, CanStart, Reg
<1>2. /\ es \in Seq(Values) /\ names \in Seq(Names) /\ names \in Seq(Names \cup {ForState}) /\ n \in Nat
      /\ p \in Int /\ WantLast(es, 4) \in Int
      /\ [i \in 1..4 |-> ForState] \in Seq(Names \cup {ForState})
  <2>1. names \in Seq(Names) /\ es \in Seq(Values)
    BY ScriptAssumption
  <2> QED
    BY <2>1, CountsInt
<1>3. FsKept(fs, E) /\ FsOK(E) /\ TopOf(E).locals = c.locals
  <2>1. FsKept(fs, E)
    BY <1>1, FreeAdded, OnKept
  <2> HIDE DEF E, c
  <2> QED
    BY <1>1, <2>1, FsKeptTop DEF Kept, Coded
<1> HIDE DEF E, c, base
<1>4. FsKept(E, F) /\ FsOK(F) /\ CompOK(TopOf(F)) /\ TopOf(F).locals = c.locals
  BY <1>2, <1>3, ExpsKept, FsKeptTop DEF Kept, Coded
<1> HIDE DEF F, n, p
<1>5. Moved(TopOf(F), d) /\ CompOK(d)
  <2>1. base + p \in Int /\ 4 - p \in Int
    BY <1>1, <1>2
  <2> QED
    BY <1>4, <2>1, LoadNilAdded, AddedMoved DEF Moved
<1> HIDE DEF d
<1>6. Moved(d, s) /\ CompOK(s)
  BY <1>1, <1>2, <1>5, DeclareAllIs DEF Moved
<1> HIDE DEF s
<1>7. Moved(s, g) /\ CompOK(g)
  <2>1. base + 4 \in Int
    BY <1>1
  <2> QED
    BY <1>6, <2>1, FreeAdded, AddedMoved, SMTT(30) DEF Moved
<1> HIDE DEF g
<1>8. Moved(g, q) /\ CompOK(q)
  <2>1. Instr("TFORPREP", base, 0, 0) \in Instrs
    <3>1. base \in Int /\ 0 \in Int /\ "TFORPREP" \in Ops
      BY <1>1 DEF Ops, PlainOps, Looping
    <3> QED
      BY <3>1, InstrType
  <2> QED
    BY <1>7, <2>1, EmitMoved
<1> HIDE DEF q
<1>9. Moved(q, u) /\ CompOK(u)
  <2>1. base + 4 \in Int
    BY <1>1
  <2> QED
    BY <1>2, <1>8, <2>1, DeclareAllIs DEF Moved
<1> HIDE DEF u
<1>10. Moved(u, v) /\ CompOK(v)
  <2>1. base + 4 + n \in Int
    BY <1>1, <1>2
  <2> QED
    BY <1>9, <2>1, FreeAdded, AddedMoved, SMTT(30) DEF Moved
<1> HIDE DEF v
<1>11. Moved(v, w) /\ CompOK(w) /\ w.nactive = v.nactive /\ w.nactive <= Len(w.locals)
  <2>1. v \in Comp /\ Bigger(v.maxreg, v.freereg) \in Reg /\ (v.in_loop + 1) % U8 \in Int
    <3>1. v \in Comp /\ Bigger(v.maxreg, v.freereg) \in Reg /\ v.in_loop + 1 \in Int
      BY <1>10 DEF CompOK, Comp, Bigger
    <3> QED
      BY <3>1, RegMod DEF Reg
  <2> DEFINE x == Bigger(v.maxreg, v.freereg)
             y == (v.in_loop + 1) % U8
  <2>2. x \in Reg /\ y \in Int
    BY <2>1
  <2> HIDE DEF x, y
  <2>c. [v EXCEPT !.maxreg = x, !.in_loop = y] \in Comp
    BY <2>1, <2>2 DEF Comp
  <2>3. w \in Comp
    BY <2>c DEF x, y
  <2>4. /\ w.locals = v.locals /\ w.nactive = v.nactive /\ w.breaks = v.breaks
        /\ w.owed = v.owed /\ w.upvals = v.upvals /\ w.lost = v.lost /\ w.error = v.error
    BY <2>1 DEF Comp
  <2> HIDE DEF w
  <2>5. CompOK(w)
    BY <1>10, <2>3, <2>4 DEF CompOK, Whole
  <2> QED
    BY <1>10, <2>4, <2>5, LensNat DEF Moved, CompOK
<1> HIDE DEF w
<1>12. Moved(TopOf(F), w)
  BY <1>4, <1>5, <1>6, <1>7, <1>8, <1>9, <1>10, <1>11, MovedTrans
<1>13. FsMoved(F, G) /\ FsOK(G) /\ TopOf(G) = w /\ Len(G) = Len(F)
  BY <1>4, <1>12, OnMoved DEF FsMoved
<1>14. FsMoved(fs, G) /\ Len(F) = Len(fs)
  BY <1>1, <1>3, <1>4, <1>13, FsKeptTrans, KeptMoved, FsMovedTrans DEF FsKept
<1>15. NextPC(g) \in Int /\ FuncLen(w) \in Int
  BY <1>7, <1>11, RegInt
<1>16. FrameMade(Frame("forin", w), G)
  BY <1>11, <1>13, <1>14, FrameIs DEF FrameKinds, LoopKinds
<1>17. base <= Len(TopOf(G).locals)
  <2>1. Len(c.locals) <= Len(w.locals)
    BY <1>4, <1>12 DEF Moved
  <2>2. Len(c.locals) \in Nat /\ Len(w.locals) \in Nat /\ base \in Nat
    BY <1>1, <1>11, LensNat, RegMod
  <2> QED
    BY <1>1, <1>13, <2>1, <2>2
<1>18. FrameMade(f, G)
  <2> DEFINE f0 == Frame("forin", w)
             pr == NextPC(g)
             tp == FuncLen(w)
  <2>1. /\ FrameMade(f0, G) /\ pr \in Int /\ tp \in Int /\ base \in Reg /\ base <= Len(TopOf(G).locals)
        /\ names \in Seq(Names \cup FuncKinds \cup {Env, "main"})
    BY <1>1, <1>2, <1>15, <1>16, <1>17, SMTT(30)
  <2> HIDE DEF f0, pr, tp, G
  <2>2. FrameMade([f0 EXCEPT !.base = base, !.prep = pr, !.top = tp, !.names = names], G)
    BY <2>1 DEF FrameMade, FrameT
  <2> QED
    BY <2>2 DEF f0, pr, tp
<1> HIDE DEF f, G
<1> QED
  BY <1>1, <1>14, <1>18, RefuseInv, EnterInv

\* The end of a generic for keeps the stacks in step.
LEMMA ForInEnded ==
    ASSUME IInv, NEW c, c = LeaveBlock(Top, Open.saved), NEW call, call = FuncLen(c),
           NEW d, d = Emit(c, Instr("TFORCALL", Open.base, 0, Len(Open.names))),
           NEW loop, loop = NextPC(d),
           NEW s, s = Emit(d, Instr("TFORLOOP", Open.base, loop + 1 - Open.top, 0)),
           NEW g, g = SetPrep(s, Open.prep, "TFORPREP", Open.base, call - (Open.prep + 1)),
           NEW l, l = CloseLoop(g, Open),
           NEW u, u = Emit(l, Instr("CLOSE", Open.base, 0, 0)),
           NEW m, m = LeaveBlock(u, Open.base)
    PROVE  /\ Ended(fs, m) /\ CompOK(l) /\ CompOK(u) /\ CompOK(g) /\ CompOK(s) /\ CompOK(d) /\ CompOK(c)
           /\ loop \in Int /\ call \in Int
<1>2. /\ CompOK(Top) /\ Top = TopOf(fs) /\ FsOK(fs) /\ Open.top \in Int /\ Open.prep \in Int
      /\ Open.saved \in Reg /\ Open.saved <= Len(Top.locals)
      /\ Open.base \in Reg /\ Open.base \in Int /\ Open.base <= Len(Top.locals)
      /\ Len(Open.names) \in Int
  <2>1. Open.names \in Seq(Names \cup FuncKinds \cup {Env, "main"})
    BY OpenFrame DEF FrameT
  <2> QED
    BY <2>1, StartIs, OpenFrame DEF Reg
<1>3. Moved(Top, c) /\ CompOK(c) /\ call \in Int /\ c.locals = Top.locals
  <2>1. Moved(Top, c) /\ c.locals = Top.locals
    BY <1>2, BlockIs
  <2> QED
    BY <2>1, RegInt DEF Moved
<1>4. Moved(c, d) /\ CompOK(d) /\ d.locals = Top.locals /\ loop \in Int
  <2>1. Instr("TFORCALL", Open.base, 0, Len(Open.names)) \in Instrs
    <3>1. "TFORCALL" \in Ops /\ Open.base \in Int /\ Len(Open.names) \in Int /\ 0 \in Int
      BY <1>2 DEF Ops, PlainOps, Looping
    <3> QED
      BY <3>1, InstrType
  <2> QED
    BY <1>3, <2>1, EmitMoved, RegInt
<1>5. Moved(d, s) /\ CompOK(s) /\ s.locals = Top.locals
  <2>1. loop + 1 - Open.top \in Int
    BY <1>2, <1>4
  <2>2. Instr("TFORLOOP", Open.base, loop + 1 - Open.top, 0) \in Instrs
    <3>1. "TFORLOOP" \in Ops /\ Open.base \in Int /\ 0 \in Int
      BY <1>2, SMTT(30) DEF Ops, PlainOps, Looping
    <3> QED
      BY <2>1, <3>1, InstrType, SMTT(30)
  <2> QED
    BY <1>4, <2>2, EmitMoved
<1>6. Moved(s, g) /\ CompOK(g) /\ g.locals = Top.locals
  <2>1. "TFORPREP" \in Ops /\ call - (Open.prep + 1) \in Int
    BY <1>2, <1>3 DEF Ops, PlainOps, Looping
  <2>2. Moved(s, g) /\ g.locals = s.locals
    BY <1>2, <1>5, <2>1, PrepMoved
  <2> QED
    BY <1>5, <2>2 DEF Moved
<1>7. Moved(Top, g)
  BY <1>2, <1>3, <1>4, <1>5, <1>6, MovedTrans
<1>8. Ended(fs, l) /\ l.locals = Top.locals
  BY <1>2, <1>6, <1>7, FsMovedRefl, CloseLoopEnded
<1>9. Moved(l, u) /\ CompOK(u) /\ u.locals = Top.locals
  <2>1. Instr("CLOSE", Open.base, 0, 0) \in Instrs
    <3>1. "CLOSE" \in Ops /\ Open.base \in Int /\ 0 \in Int
      BY <1>2 DEF Ops, PlainOps, Looping
    <3> QED
      BY <3>1, InstrType
  <2> QED
    BY <1>8, <2>1, EmitMoved DEF Ended
<1>10. Moved(u, m)
  BY <1>2, <1>9, BlockIs
<1>11. Ended(fs, m)
  BY <1>2, <1>8, <1>9, <1>10, EndedMoved
<1> QED
  BY <1>3, <1>4, <1>5, <1>6, <1>8, <1>9, <1>11 DEF Ended

\* The end of a generic for rewrites its TFORPREP and drops its breaks.
LEMMA ForInEndInv ==
    ASSUME IInv, ForInEnd
    PROVE  IInv'
<1> DEFINE c    == LeaveBlock(Top, Open.saved)
           call == FuncLen(c)
           d    == Emit(c, Instr("TFORCALL", Open.base, 0, Len(Open.names)))
           loop == NextPC(d)
           s    == Emit(d, Instr("TFORLOOP", Open.base, loop + 1 - Open.top, 0))
           g    == SetPrep(s, Open.prep, "TFORPREP", Open.base, call - (Open.prep + 1))
           l    == CloseLoop(g, Open)
           u    == Emit(l, Instr("CLOSE", Open.base, 0, 0))
           m    == LeaveBlock(u, Open.base)
<1>1. phase = "running" /\ Open.k = "forin" /\ (GoWild \/ Leave(m))
  BY DEF ForInEnd
<1>2. Ended(fs, m)
  BY ForInEnded
<1> HIDE DEF m
<1>3. Open.k # "func"
  BY <1>1
<1> QED
  BY <1>1, <1>2, <1>3, LeaveInv, WildInv

\* The innermost loop is one of the function being compiled, and no loop is inside it.
LEMMA InnerLoopIs ==
    ASSUME IInv, InnerLoop # 0
    PROVE  InnerLoop \in DOMAIN ctl /\ ctl[InnerLoop].comp = Len(fs) /\ ctl[InnerLoop].k \in LoopKinds
           /\ InnerLoop \in Nat /\ \A k \in Loops : k <= InnerLoop
<1>1. Len(ctl) \in Nat /\ DOMAIN ctl = 1 .. Len(ctl)
  BY OpenIs DEF IInv
<1>2. Loops \in SUBSET (1 .. Len(ctl))
  BY <1>1 DEF Loops, InFunc
<1>3. Loops # {} /\ InnerLoop = CHOOSE i \in Loops : \A j \in Loops : j <= i
  BY DEF InnerLoop
<1>4. \E m \in Loops : \A k \in Loops : k <= m
  BY <1>1, <1>2, <1>3, GreatestOf
<1>5. InnerLoop \in Loops /\ \A k \in Loops : k <= InnerLoop
  BY <1>3, <1>4
<1> QED
  BY <1>1, <1>2, <1>5 DEF Loops, InFunc

\* A break is listed, and the loop it leaves is noted.
WithBreak(c, x) == [c EXCEPT !.breaks = Append(@, x)]
WithOwed(c, o) == [c EXCEPT !.owed = @ \cup {o}]

\* d is c with s's code and one more break.
OneMore(c, s, x, d) ==
    /\ CompOK(d) /\ d.locals = c.locals /\ d.upvals = c.upvals /\ d.owed = c.owed
    /\ d.code = s.code /\ d.breaks = Append(c.breaks, x)
    /\ d.labels = c.labels /\ d.gotos = c.gotos /\ d.jumps = c.jumps /\ d.lands = c.lands
    /\ d.in_loop = c.in_loop /\ Len(c.breaks) <= Len(d.breaks)

\* A listed break.
LEMMA BreakListed ==
    ASSUME NEW c, CompOK(c), ~ BreaksFull(c), NEW x \in Int, NEW s, s = Emit(c, Jump(0)),
           NEW d, d = WithBreak(s, x)
    PROVE  OneMore(c, s, x, d)
<1>1. Added(c, s) /\ CompOK(s)
  BY PlainJump, EmitAdded DEF Added, Kept, Coded
<1>2. /\ s.locals = c.locals /\ s.upvals = c.upvals /\ s.owed = c.owed /\ s.breaks = c.breaks
      /\ s.labels = c.labels /\ s.gotos = c.gotos /\ s.jumps = c.jumps /\ s.lands = c.lands
      /\ s.in_loop = c.in_loop
  BY <1>1 DEF Added, Kept, Coded
<1>3. /\ Len(c.breaks) < MaxBreaks /\ s \in Comp /\ c.breaks \in Seq(Int) /\ Len(c.breaks) \in Nat
  <2>1. Len(c.breaks) \in Nat /\ c.breaks \in Seq(Int)
    BY LensNat
  <2>2. s \in Comp
    BY <1>1 DEF CompOK
  <2>3. ~ (Len(c.breaks) >= MaxBreaks)
    BY DEF BreaksFull
  <2>4. Len(c.breaks) < MaxBreaks
    BY <2>1, <2>3, CompAssumption
  <2> QED
    BY <2>1, <2>2, <2>4
<1> DEFINE b == Append(c.breaks, x)
<1>4. b \in Seq(Int) /\ Len(b) = Len(c.breaks) + 1
  BY <1>3, AppendIs
<1>5. d = [s EXCEPT !.breaks = b] /\ b = Append(c.breaks, x)
  BY <1>2 DEF WithBreak
<1> HIDE DEF b
<1>6. d \in Comp
  BY <1>3, <1>4, <1>5, ZenonT(40) DEF Comp
<1>7. /\ d.locals = s.locals /\ d.owed = s.owed /\ d.upvals = s.upvals /\ d.breaks = b
      /\ d.nactive = s.nactive /\ d.lost = s.lost /\ d.error = s.error /\ d.code = s.code
      /\ d.labels = s.labels /\ d.gotos = s.gotos /\ d.jumps = s.jumps /\ d.lands = s.lands
      /\ d.in_loop = s.in_loop
  BY <1>3, <1>5 DEF Comp
<1>8. Len(b) <= MaxBreaks /\ Len(c.breaks) <= Len(b)
  <2>1. Len(c.breaks) < MaxBreaks /\ Len(c.breaks) \in Nat /\ Len(b) = Len(c.breaks) + 1
    BY <1>3, <1>4
  <2> QED
    BY <2>1, CompAssumption
<1>9. CompOK(d)
  BY <1>1, <1>6, <1>7, <1>8 DEF CompOK, Whole
<1> QED
  BY <1>2, <1>5, <1>7, <1>8, <1>9 DEF OneMore

\* A break of a loop.
LEMMA BreakNoted ==
    ASSUME NEW d, CompOK(d), NEW o \in [pc : Int, loop : Int], NEW e, e = WithOwed(d, o)
    PROVE  /\ CompOK(e) /\ e.locals = d.locals /\ e.upvals = d.upvals /\ e.breaks = d.breaks /\ e.code = d.code
           /\ e.labels = d.labels /\ e.gotos = d.gotos /\ e.jumps = d.jumps /\ e.lands = d.lands
           /\ e.in_loop = d.in_loop /\ e.owed = d.owed \cup {o}
<1> DEFINE w == d.owed \cup {o}
<1>1. d \in Comp /\ w \in SUBSET [pc : Int, loop : Int] /\ e = [d EXCEPT !.owed = w]
  BY DEF CompOK, Comp, WithOwed
<1>2. w = d.owed \cup {o}
  OBVIOUS
<1> HIDE DEF w
<1>3. e \in Comp
  BY <1>1, ZenonT(40) DEF Comp
<1>4. /\ e.locals = d.locals /\ e.owed = w /\ e.upvals = d.upvals
      /\ e.breaks = d.breaks /\ e.code = d.code
      /\ e.labels = d.labels /\ e.gotos = d.gotos /\ e.jumps = d.jumps /\ e.lands = d.lands
      /\ e.in_loop = d.in_loop
      /\ e.nactive = d.nactive /\ e.lost = d.lost /\ e.error = d.error
  BY <1>1 DEF Comp
<1>5. CompOK(e)
  BY <1>3, <1>4 DEF CompOK, Whole
<1> QED
  BY <1>2, <1>4, <1>5

\* A break adds a pending jump, or is dropped when there is no room.
LEMMA BreakInv ==
    ASSUME IInv, BreakStat
    PROVE  IInv'
<1> DEFINE c       == Top
           dropped == c.in_loop = 0 \/ BreaksFull(c)
           pc      == IF dropped THEN NoJump ELSE NextPC(c)
           x       == IF pc = NoJump THEN Wild ELSE pc
           s       == Emit(c, Jump(0))
           d       == IF dropped THEN c ELSE [s EXCEPT !.breaks = Append(@, x)]
           o       == [pc |-> pc, loop |-> InnerLoop]
           e       == IF InnerLoop = 0 THEN d ELSE [d EXCEPT !.owed = @ \cup {o}]
           t       == EndStat(e)
           G       == On(fs, t)
<1>1. /\ FsOK(fs) /\ phase = "running" /\ stats > 0 /\ Simple(On(fs, e))
      /\ CompOK(c) /\ c = TopOf(fs) /\ pc \in Int /\ x \in Int /\ CtlOK(ctl, fs)
  <2>1. NextPC(c) \in Int
    BY StartIs, RegInt
  <2> QED
    BY <2>1, StartIs DEF BreakStat, CanStart, NoJump, Wild, IInv
<1> HIDE DEF c
<1>2. /\ CompOK(d) /\ d.locals = c.locals /\ d.owed = c.owed /\ d.upvals = c.upvals
      /\ Len(c.breaks) <= Len(d.breaks)
  <2>1. CASE dropped
    BY <1>1, <2>1, LensNat
  <2>2. CASE ~ dropped
    <3>1. /\ ~ BreaksFull(c) /\ s = Emit(c, Jump(0)) /\ d = WithBreak(s, x)
          /\ x \in Int /\ CompOK(c)
      BY <1>1, <2>2 DEF WithBreak
    <3> HIDE DEF s, d, x, pc, dropped
    <3>2. OneMore(c, s, x, d)
      BY <3>1, BreakListed
    <3> QED
      BY <3>2 DEF OneMore
  <2> QED
    BY <2>1, <2>2
<1> HIDE DEF d
<1>3. /\ CompOK(e) /\ e.locals = c.locals /\ e.upvals = c.upvals
      /\ Len(c.breaks) <= Len(e.breaks)
      /\ \A w \in e.owed : w \in c.owed \/ (InnerLoop # 0 /\ w.loop = InnerLoop)
  <2>1. CASE InnerLoop = 0
    BY <1>2, <2>1
  <2>2. CASE InnerLoop # 0
    <3>1. o \in [pc : Int, loop : Int] /\ o.loop = InnerLoop /\ e = WithOwed(d, o)
      BY <1>1, <2>2, InnerLoopIs DEF WithOwed
    <3> HIDE DEF e, o
    <3>2. /\ CompOK(e) /\ e.locals = d.locals /\ e.upvals = d.upvals /\ e.breaks = d.breaks
          /\ e.owed = d.owed \cup {o}
      BY <1>2, <3>1, BreakNoted
    <3> QED
      BY <1>2, <2>2, <3>1, <3>2
  <2> QED
    BY <2>1, <2>2
<1> USE DEF c
<1> HIDE DEF e
<1>4. Added(e, t) /\ CompOK(t)
  BY <1>3, EndMoved DEF Added, Kept, Coded
<1>5. /\ t.locals = c.locals /\ t.upvals = c.upvals /\ t.breaks = e.breaks /\ t.owed = e.owed
  BY <1>3, <1>4 DEF Added, Kept, Coded
<1>x. TopOf(On(fs, e)) = e /\ On(On(fs, e), t) = G
  <2>1. TopOf(On(fs, e)) = e
    BY <1>1, <1>3, OnIs DEF FsOK
  <2>2. On(On(fs, e), t) = On(fs, t)
    <3>1. Len(On(fs, e)) = Len(fs) /\ fs \in Seq(Comp)
      BY <1>1, <1>3, OnIs DEF FsOK, FsType
    <3> HIDE DEF t
    <3> QED
      BY <3>1 DEF On
  <2> QED
    BY <2>1, <2>2
<1> HIDE DEF t
<1>6. FsOK(G) /\ Len(G) = Len(fs) /\ DOMAIN G = DOMAIN fs /\ G[Len(fs)] = t
      /\ \A l \in DOMAIN fs : l # Len(fs) => G[l] = fs[l]
  BY <1>1, <1>4, <1>5, OnOK, OnIs DEF FsOK
<1>7. c = fs[Len(fs)] /\ Len(fs) \in DOMAIN fs
  BY <1>1, TopIs DEF FsOK
<1> HIDE DEF c, G
<1>8. ASSUME NEW l \in DOMAIN fs
      PROVE  /\ Len(fs[l].locals) <= Len(G[l].locals)
             /\ Len(fs[l].breaks) <= Len(G[l].breaks)
             /\ \A w \in G[l].owed : OwedFits(ctl, l, w)
  <2>1. CompOK(fs[l]) /\ Len(fs[l].locals) \in Nat /\ Len(fs[l].breaks) \in Nat
    BY <1>1, LensNat DEF FsOK, FsType
  <2>2. \A w \in fs[l].owed : OwedFits(ctl, l, w)
    BY <1>1 DEF CtlOK
  <2>3. CASE l = Len(fs)
    <3>1. \A w \in G[l].owed : w \in fs[l].owed \/ (InnerLoop # 0 /\ w.loop = InnerLoop)
      BY <1>3, <1>5, <1>6, <1>7, <2>3
    <3>2. \A w \in G[l].owed : OwedFits(ctl, l, w)
      BY <2>2, <2>3, <3>1, InnerLoopIs DEF OwedFits
    <3> QED
      BY <1>3, <1>5, <1>6, <1>7, <2>1, <2>3, <3>2
  <2>4. CASE l # Len(fs)
    BY <1>6, <2>1, <2>2, <2>4
  <2> QED
    BY <2>3, <2>4
<1>9. CtlOK(ctl, G)
  BY <1>1, <1>6, <1>8, CtlFits
<1>10. /\ fs' = G /\ ctl' = ctl /\ stats' \in 0..MaxStats /\ phase' = "running"
       /\ UNCHANGED <<heap, final>>
  <2>1. stats - 1 \in 0..MaxStats
    BY <1>1, ScriptAssumption DEF IInv
  <2> QED
    BY <1>1, <1>x, <2>1 DEF Simple, t
<1> QED
  BY <1>6, <1>9, <1>10, NextInv

-----------------------------------------------------------------------------
(* Labels, gotos and functions *)

\* The lists of labels and gotos are replaced.
Listed(c, labels, gotos, jumps) == [c EXCEPT !.labels = labels, !.gotos = gotos, !.jumps = jumps]

\* A label or a goto is listed.
LEMMA ListsMoved ==
    ASSUME NEW c, CompOK(c), NEW labels \in Seq(Label), NEW gotos \in Seq(Label),
           NEW jumps \in SUBSET [pc : Int, name : Labels]
    PROVE  Moved(c, Listed(c, labels, gotos, jumps))
<1> DEFINE d == Listed(c, labels, gotos, jumps)
<1>1. c \in Comp
  BY DEF CompOK
<1>2. d \in Comp
  BY <1>1 DEF Comp, Listed
<1>3. /\ d.locals = c.locals /\ d.nactive = c.nactive /\ d.breaks = c.breaks
      /\ d.owed = c.owed /\ d.upvals = c.upvals /\ d.lost = c.lost /\ d.error = c.error
  BY <1>1 DEF Comp, Listed
<1> HIDE DEF d
<1>4. CompOK(d)
  BY <1>2, <1>3 DEF CompOK, Whole
<1> QED
  BY <1>3, <1>4, LensNat DEF Moved, d

\* The lists of a function.
LEMMA ListsType ==
    ASSUME NEW c, CompOK(c)
    PROVE  /\ c.labels \in Seq(Label) /\ c.gotos \in Seq(Label)
           /\ c.jumps \in SUBSET [pc : Int, name : Labels]
BY DEF CompOK, Comp

\* A label of c takes the gotos that wait for it, which d has patched, out of the list.
WithLabel(c, d, name) ==
    LET mine == {i \in DOMAIN c.gotos : c.gotos[i].name = name}
    IN  [d EXCEPT !.labels = Append(@, [name |-> name, pc |-> FuncLen(c)]),
                  !.gotos = [i \in DOMAIN @ |-> IF i \in mine THEN [@[i] EXCEPT !.name = Done]
                                                ELSE @[i]]]

\* The gotos of c that wait for a label.
Waiting(c, name) == {c.gotos[i].pc : i \in {k \in DOMAIN c.gotos : c.gotos[k].name = name}}

\* g is d with one more label, which nothing waits for any more.
Labelled(c, d, name, g) ==
    /\ Moved(c, g) /\ g.code = d.code /\ g.lands = c.lands /\ g.jumps = c.jumps
    /\ g.breaks = c.breaks /\ g.owed = c.owed /\ g.in_loop = c.in_loop
    /\ g.labels = Append(c.labels, [name |-> name, pc |-> FuncLen(c)])
    /\ DOMAIN g.gotos = DOMAIN c.gotos
    /\ \A i \in DOMAIN c.gotos : IF c.gotos[i].name = name THEN g.gotos[i] = [c.gotos[i] EXCEPT !.name = Done]
                                 ELSE g.gotos[i] = c.gotos[i]

\* A label and its gotos.
LEMMA LabelIs ==
    ASSUME NEW c, CompOK(c), NEW name \in Labels, NEW pcs, NEW d, d = PatchAll(c, pcs, FuncLen(c)),
           NEW g, g = WithLabel(c, d, name)
    PROVE  Labelled(c, d, name, g)
<1> DEFINE here   == FuncLen(c)
           mine   == {i \in DOMAIN c.gotos : c.gotos[i].name = name}
           labels == Append(d.labels, [name |-> name, pc |-> here])
           gotos  == [i \in DOMAIN d.gotos |-> IF i \in mine THEN [d.gotos[i] EXCEPT !.name = Done]
                                               ELSE d.gotos[i]]
<1>1. here \in Int
  BY RegInt
<1>2. /\ Moved(c, d) /\ CompOK(d) /\ d.labels = c.labels /\ d.gotos = c.gotos /\ d.jumps = c.jumps
      /\ d.lands = c.lands /\ d.breaks = c.breaks /\ d.owed = c.owed /\ d.in_loop = c.in_loop
  <2>1. Moved(c, PatchAll(c, pcs, here))
    BY <1>1, PatchIs
  <2>2. d = [c EXCEPT !.code = d.code] /\ c \in Comp
    BY DEF PatchAll, CompOK, Comp
  <2> QED
    BY <2>1, <2>2 DEF Moved, Comp
<1>3. /\ d.labels \in Seq(Label) /\ d.gotos \in Seq(Label) /\ d.jumps \in SUBSET [pc : Int, name : Labels]
      /\ d \in Comp
  BY <1>2, ListsType DEF CompOK
<1>4. labels \in Seq(Label)
  <2>1. [name |-> name, pc |-> here] \in Label
    BY <1>1 DEF Label
  <2> QED
    BY <1>3, <2>1, AppendIs
<1>5. gotos \in Seq(Label) /\ DOMAIN gotos = DOMAIN c.gotos
      /\ \A i \in DOMAIN c.gotos : IF c.gotos[i].name = name THEN gotos[i] = [c.gotos[i] EXCEPT !.name = Done]
                                   ELSE gotos[i] = c.gotos[i]
  <2>1. Len(d.gotos) \in Nat /\ DOMAIN d.gotos = 1 .. Len(d.gotos)
        /\ \A i \in 1 .. Len(d.gotos) : d.gotos[i] \in Label
    BY <1>3
  <2>2. \A l \in Label : [l EXCEPT !.name = Done] \in Label
    BY DEF Label
  <2>3. gotos \in [1 .. Len(d.gotos) -> Label]
    BY <2>1, <2>2
  <2>4. Len(d.gotos) \in Nat
    BY <2>1
  <2>5. DOMAIN gotos = DOMAIN c.gotos
        /\ \A i \in DOMAIN c.gotos : IF c.gotos[i].name = name THEN gotos[i] = [c.gotos[i] EXCEPT !.name = Done]
                                     ELSE gotos[i] = c.gotos[i]
    BY <1>2
  <2> HIDE DEF gotos
  <2> QED
    BY <2>3, <2>4, <2>5
<1>6. g = [d EXCEPT !.labels = labels, !.gotos = gotos]
  BY DEF WithLabel
<1>7. labels = Append(c.labels, [name |-> name, pc |-> FuncLen(c)])
  BY <1>2
<1> HIDE DEF labels, gotos
<1>8. Moved(d, g)
  <2> DEFINE jumps == d.jumps
  <2>1. jumps \in SUBSET [pc : Int, name : Labels]
    BY <1>3
  <2>2. g = Listed(d, labels, gotos, jumps)
    BY <1>3, <1>6 DEF Comp, Listed
  <2> HIDE DEF jumps
  <2> QED
    BY <1>2, <1>4, <1>5, <2>1, <2>2, ListsMoved
<1>9. /\ g.code = d.code /\ g.lands = d.lands /\ g.jumps = d.jumps /\ g.labels = labels /\ g.gotos = gotos
      /\ g.breaks = d.breaks /\ g.owed = d.owed /\ g.in_loop = d.in_loop
  BY <1>3, <1>6 DEF Comp
<1>10. Moved(c, g)
  BY <1>2, <1>8, MovedTrans
<1> QED
  BY <1>2, <1>5, <1>7, <1>9, <1>10 DEF Labelled

\* A label patches the gotos that wait for it.
LEMMA LabelInv ==
    ASSUME IInv, NEW name \in Labels, LabelStat(name)
    PROVE  IInv'
<1> DEFINE c == Top
           d == PatchAll(c, Waiting(c, name), FuncLen(c))
           g == WithLabel(c, d, name)
<1>1. /\ FsOK(fs) /\ phase = "running" /\ stats > 0 /\ (Refuse \/ Simple(On(fs, g)))
      /\ CompOK(c) /\ c = TopOf(fs)
  BY StartIs DEF LabelStat, CanStart, WithLabel, Waiting
<1>2. Moved(c, g)
  <2> DEFINE pcs == Waiting(c, name)
  <2>1. d = PatchAll(c, pcs, FuncLen(c)) /\ g = WithLabel(c, d, name)
    OBVIOUS
  <2> HIDE DEF pcs, d, g
  <2>2. Labelled(c, d, name, g)
    BY <1>1, <2>1, LabelIs
  <2> QED
    BY <2>2 DEF Labelled
<1> HIDE DEF g
<1>3. FsMoved(fs, On(fs, g))
  BY <1>1, <1>2, OnMoved
<1> QED
  BY <1>1, <1>3, RefuseInv, SimpleInv, SMTT(30)

\* A label that is found is one of the list, with that name.
LEMMA FirstLabelIs ==
    ASSUME NEW c, CompOK(c), NEW name, FirstLabel(c, name) # 0
    PROVE  /\ FirstLabel(c, name) \in DOMAIN c.labels /\ c.labels[FirstLabel(c, name)] \in Label
           /\ c.labels[FirstLabel(c, name)].name = name
<1> DEFINE hits == {i \in DOMAIN c.labels : c.labels[i].name = name}
<1>1. c.labels \in Seq(Label) /\ hits \in SUBSET Nat
  BY ListsType
<1>2. hits # {} /\ FirstLabel(c, name) = CHOOSE i \in hits : \A j \in hits : i <= j
  BY DEF FirstLabel
<1> HIDE DEF hits
<1>3. \E m \in hits : \A k \in hits : m <= k
  BY <1>1, <1>2, ExpRun!LeastNat
<1>4. FirstLabel(c, name) \in hits
  BY <1>2, <1>3
<1> QED
  BY <1>1, <1>4 DEF hits

\* The jump at pc is a goto of that name.
WithJump(c, name, pc) == [c EXCEPT !.jumps = @ \cup {[pc |-> p, name |-> name] : p \in Real(pc)}]

\* It waits for its label.
WithGoto(c, name, pc) == [c EXCEPT !.gotos = Append(@, [name |-> name, pc |-> pc])]

\* d is s, and its jump at pc is a goto of that name.
Jumped(s, name, pc, d) ==
    /\ Moved(s, d) /\ d.code = s.code /\ d.lands = s.lands /\ d.labels = s.labels /\ d.gotos = s.gotos
    /\ d.breaks = s.breaks /\ d.owed = s.owed /\ d.in_loop = s.in_loop
    /\ d.jumps = s.jumps \cup {[pc |-> p, name |-> name] : p \in Real(pc)}

\* A goto is noted.
LEMMA JumpIs ==
    ASSUME NEW s, CompOK(s), NEW name \in Labels, NEW pc \in Int, NEW d, d = WithJump(s, name, pc)
    PROVE  Jumped(s, name, pc, d)
<1> DEFINE new == {[pc |-> p, name |-> name] : p \in Real(pc)}
           j   == s.jumps \cup new
<1>1. new \in SUBSET [pc : Int, name : Labels]
  BY DEF Real
<1>a. d = [s EXCEPT !.jumps = j] /\ j = s.jumps \cup new
      /\ new = {[pc |-> p, name |-> name] : p \in Real(pc)}
  BY DEF WithJump
<1> HIDE DEF new, j
<1>2. s \in Comp /\ s.labels \in Seq(Label) /\ s.gotos \in Seq(Label) /\ j \in SUBSET [pc : Int, name : Labels]
  BY <1>1, <1>a, ListsType DEF CompOK
<1>3. d = Listed(s, s.labels, s.gotos, j)
  BY <1>2, <1>a DEF Comp, Listed
<1>4. Moved(s, d)
  BY <1>2, <1>3, ListsMoved
<1>5. /\ d.code = s.code /\ d.lands = s.lands /\ d.labels = s.labels /\ d.gotos = s.gotos
      /\ d.breaks = s.breaks /\ d.owed = s.owed /\ d.in_loop = s.in_loop /\ d.jumps = j
  BY <1>2, <1>a DEF Comp
<1> QED
  BY <1>4, <1>5, <1>a DEF Jumped

\* g is d, whose goto at pc waits.
Waits(d, name, pc, g) ==
    /\ Moved(d, g) /\ g.code = d.code /\ g.lands = d.lands /\ g.labels = d.labels /\ g.jumps = d.jumps
    /\ g.breaks = d.breaks /\ g.owed = d.owed /\ g.in_loop = d.in_loop
    /\ g.gotos = Append(d.gotos, [name |-> name, pc |-> pc])

\* A goto that waits is listed.
LEMMA WaitIs ==
    ASSUME NEW d, CompOK(d), NEW name \in Labels, NEW pc \in Int, NEW g, g = WithGoto(d, name, pc)
    PROVE  Waits(d, name, pc, g)
<1> DEFINE gotos == Append(d.gotos, [name |-> name, pc |-> pc])
<1>1. d.labels \in Seq(Label) /\ d.gotos \in Seq(Label) /\ d.jumps \in SUBSET [pc : Int, name : Labels]
      /\ d \in Comp
  BY ListsType DEF CompOK
<1>2. [name |-> name, pc |-> pc] \in Label
  BY DEF Label
<1>3. gotos \in Seq(Label)
  BY <1>1, <1>2, AppendIs
<1>4. g = [d EXCEPT !.gotos = gotos] /\ gotos = Append(d.gotos, [name |-> name, pc |-> pc])
  BY DEF WithGoto
<1> HIDE DEF gotos
<1>5. g = Listed(d, d.labels, gotos, d.jumps)
  BY <1>1, <1>4 DEF Comp, Listed
<1>6. Moved(d, g)
  BY <1>1, <1>3, <1>5, ListsMoved
<1>7. /\ g.code = d.code /\ g.lands = d.lands /\ g.labels = d.labels /\ g.jumps = d.jumps
      /\ g.breaks = d.breaks /\ g.owed = d.owed /\ g.in_loop = d.in_loop /\ g.gotos = gotos
  BY <1>1, <1>4 DEF Comp
<1> QED
  BY <1>4, <1>6, <1>7 DEF Waits

\* A goto jumps back, or waits.
LEMMA GotoInv ==
    ASSUME IInv, NEW name \in Labels, GotoStat(name)
    PROVE  IInv'
<1> DEFINE c   == Top
           pc  == NextPC(c)
           lab == FirstLabel(c, name)
           s   == Emit(c, Jump(0))
           d   == WithJump(s, name, pc)
           p   == Patch(d, pc, c.labels[lab].pc)
           g   == WithGoto(d, name, pc)
<1>1. /\ FsOK(fs) /\ phase = "running" /\ stats > 0 /\ CompOK(c) /\ c = TopOf(fs) /\ pc \in Int
      /\ \/ lab # 0 /\ Simple(On(fs, p))
         \/ Refuse
         \/ Simple(On(fs, g))
  <2>1. /\ CanStart("goto")
        /\ \/ lab # 0 /\ Simple(On(fs, p))
           \/ Refuse
           \/ Simple(On(fs, g))
    BY DEF GotoStat, WithJump, WithGoto
  <2> QED
    BY <2>1, StartIs, RegInt DEF CanStart
<1>2. CompOK(s) /\ Moved(c, s)
  <2>1. Jump(0) \in Plains
    BY PlainJump
  <2>2. Added(c, s)
    BY <1>1, <2>1, EmitAdded
  <2> QED
    BY <1>1, <2>2, AddedMoved DEF Added, Kept, Coded
<1>3. lab # 0 => c.labels[lab].pc \in Int
  BY <1>1, FirstLabelIs DEF Label
<1>a. d = WithJump(s, name, pc) /\ g = WithGoto(d, name, pc)
  OBVIOUS
<1> HIDE DEF s, d, lab, c, g, pc
<1>4. Moved(s, d) /\ CompOK(d)
  <2>1. Jumped(s, name, pc, d)
    BY <1>1, <1>2, <1>a, JumpIs
  <2> QED
    BY <2>1 DEF Jumped, Moved
<1>5. Moved(d, g)
  <2>1. Waits(d, name, pc, g)
    BY <1>1, <1>4, <1>a, WaitIs
  <2> QED
    BY <2>1 DEF Waits
<1>6. ASSUME lab # 0 PROVE Moved(d, p)
  BY <1>3, <1>4, <1>6, PatchIs DEF Patch
<1> HIDE DEF p
<1>7. Moved(c, d)
  BY <1>1, <1>2, <1>4, MovedTrans
<1>8. FsMoved(fs, On(fs, g))
  BY <1>1, <1>5, <1>7, MovedTrans, OnMoved
<1>9. lab # 0 => FsMoved(fs, On(fs, p))
  BY <1>1, <1>6, <1>7, MovedTrans, OnMoved
<1> QED
  BY <1>1, <1>8, <1>9, RefuseInv, SimpleInv

\* mccomp_init and the parameters.
LEMMA NewCompOK ==
    ASSUME NEW params \in Seq(Names), NEW vararg \in BOOLEAN, NEW main \in BOOLEAN
    PROVE  LET c == NewComp(params, vararg, main) IN
           /\ CompOK(c) /\ c.owed = {} /\ c.upvals = <<EnvUp(main)>> /\ c.breaks = <<>>
<1> DEFINE c == [code |-> <<>>, locals |-> <<>>, nactive |-> 0, freereg |-> 0, maxreg |-> 0,
                 breaks |-> <<>>, in_loop |-> 0, error |-> FALSE, has_tbc |-> FALSE,
                 has_capture |-> FALSE, labels |-> <<>>, gotos |-> <<>>, upvals |-> <<EnvUp(main)>>,
                 num_params |-> 0, is_vararg |-> vararg, max_stack |-> 0,
                 lost |-> {}, owed |-> {}, lands |-> {}, jumps |-> {}]
           d == DeclareAll(c, params, 0)
           e == [d EXCEPT !.num_params = d.nactive, !.freereg = d.nactive, !.maxreg = d.nactive]
           n == NewComp(params, vararg, main)
<1>1. n = IF vararg THEN Emit(e, Instr("VARARGPREP", e.num_params, 0, 0)) ELSE e
  BY DEF NewComp
<1>2. CompOK(c) /\ c.owed = {} /\ c.upvals = <<EnvUp(main)>> /\ c.breaks = <<>>
  <2>1. <<EnvUp(main)>> \in Seq(Upval)
    BY DEF EnvUp, Upval
  <2>2. 0 \in Reg /\ 0 <= MaxBreaks
    BY RegMod, CompAssumption
  <2>3. c \in Comp
    BY <2>1, <2>2 DEF Comp
  <2>4. /\ c.owed = {} /\ c.upvals = <<EnvUp(main)>> /\ c.breaks = <<>> /\ c.locals = <<>>
        /\ c.nactive = 0 /\ c.lost = {}
    OBVIOUS
  <2> HIDE DEF c
  <2>5. Len(c.breaks) = 0 /\ Len(c.locals) = 0
    BY <2>4
  <2> QED
    BY <2>2, <2>3, <2>4, <2>5 DEF CompOK, Whole
<1>3. params \in Seq(Names \cup {ForState})
  OBVIOUS
<1> HIDE DEF c, n
<1>4. CompOK(d) /\ d.owed = {} /\ d.upvals = <<EnvUp(main)>> /\ d.breaks = <<>>
  <2>1. 0 \in Int
    OBVIOUS
  <2> QED
    BY <1>2, <1>3, <2>1, DeclareAllIs DEF Moved
<1> HIDE DEF d
<1>5. CompOK(e) /\ e.owed = {} /\ e.upvals = <<EnvUp(main)>> /\ e.breaks = <<>>
  <2>1. d \in Comp /\ d.nactive \in Reg /\ d.nactive \in Int
    <3>1. d \in Comp /\ d.nactive \in Reg
      BY <1>4 DEF CompOK, Comp
    <3> QED
      BY <3>1 DEF Reg
  <2>2. e \in Comp
    BY <2>1 DEF Comp
  <2>3. /\ e.locals = d.locals /\ e.owed = d.owed /\ e.upvals = d.upvals /\ e.breaks = d.breaks
        /\ e.nactive = d.nactive /\ e.lost = d.lost /\ e.error = d.error
    BY <2>1 DEF Comp
  <2> HIDE DEF e
  <2> QED
    BY <1>4, <2>2, <2>3 DEF CompOK, Whole
<1> HIDE DEF e
<1>6. Added(e, Emit(e, Instr("VARARGPREP", e.num_params, 0, 0)))
  <2>1. e.num_params \in Int /\ 0 \in Int /\ "VARARGPREP" \in PlainOps
    BY <1>5 DEF CompOK, Comp, PlainOps
  <2> QED
    BY <1>5, <2>1, PlainInstr, EmitAdded
<1>7. CompOK(n) /\ n.owed = {} /\ n.upvals = <<EnvUp(main)>> /\ n.breaks = <<>>
  BY <1>1, <1>5, <1>6 DEF Added, Kept, Coded
<1> QED
  BY <1>7 DEF n

\* A function begins inside another.
LEMMA FuncStartInv ==
    ASSUME IInv, NEW kind \in FuncKinds, NEW name \in Names, NEW params \in ParamLists,
           NEW vararg \in Varargs, FuncStart(kind, name, params, vararg)
    PROVE  IInv'
<1> DEFINE c     == Top
           l     == NewLocal(c, name, c.nactive)
           outer == IF kind = "localfunc" THEN EndStat(l) ELSE c
           sub   == NewComp(params, vararg, FALSE)
           f     == FuncFrameFor(kind, name, Len(fs) + 1, sub)
           G     == On(fs, outer)
           K     == Append(ctl, f)
<1>0. /\ CanStart(kind)
      /\ \/ Refuse
         \/ /\ fs' = Append(G, sub) /\ ctl' = K /\ stats' = stats - 1
            /\ UNCHANGED <<heap, phase, final>>
  BY DEF FuncStart
<1>1. FsOK(fs) /\ phase = "running" /\ stats > 0 /\ CompOK(c) /\ c = TopOf(fs) /\ c.nactive \in Int
  <2>1. FsOK(fs) /\ phase = "running" /\ stats > 0 /\ CompOK(Top) /\ Top = TopOf(fs)
    BY <1>0, StartIs DEF CanStart
  <2>2. CompOK(Top) => Top.nactive \in Reg
    BY DEF CompOK, Comp
  <2> QED
    BY <2>1, <2>2 DEF Reg
<1>2. params \in Seq(Names) /\ vararg \in BOOLEAN
  BY ScriptAssumption
<1>3. CompOK(sub) /\ sub.owed = {} /\ sub.upvals = <<EnvUp(FALSE)>>
  BY <1>2, NewCompOK
<1>4. \A i \in DOMAIN sub.upvals : sub.upvals[i].name = Env
  <2>1. \A s : s = <<EnvUp(FALSE)>> => \A i \in DOMAIN s : s[i].name = Env
    BY DEF EnvUp
  <2> HIDE DEF sub
  <2> QED
    BY <1>3, <2>1
<1> HIDE DEF sub
<1>5. Moved(c, outer)
  <2>1. Moved(c, l) /\ CompOK(l)
    BY <1>1, NewLocalIs DEF Moved
  <2>2. Moved(l, EndStat(l))
    BY <2>1, EndMoved
  <2> QED
    BY <1>1, <2>1, <2>2, MovedTrans, MovedRefl
<1> HIDE DEF outer, c
<1>6. FsMoved(fs, G) /\ FsOK(G) /\ Len(G) = Len(fs) /\ Len(fs) \in Nat
  BY <1>1, <1>5, OnMoved, TopIs DEF FsMoved, FsOK
<1>7. CtlOK(ctl, G)
  BY <1>6, CtlMoved DEF IInv
<1>8. /\ f \in FrameT /\ f.k = "func" /\ f.comp = Len(G) + 1 /\ f.saved <= Len(sub.locals)
      /\ f.base = 0 /\ f.sbreaks = 0 /\ f.names[1] \in FuncKinds /\ f.names[2] \in Names
  <2>1. NoFrame \in [k : {""}, comp : Nat, saved : Nat, sbreaks : {0}, top : Int, jf : Int,
                     ends : {<<>>}, base : {0}, prep : Int, names : {<<>>}, over : BOOLEAN]
    <3>1. NoJump \in Int
      BY DEF NoJump
    <3> QED
      BY <3>1 DEF NoFrame
  <2>2. <<kind, name>> \in Seq(Names \cup FuncKinds \cup {Env, "main"}) /\ <<>> \in Seq(Int)
    OBVIOUS
  <2>3. sub.nactive \in Reg /\ sub.nactive <= Len(sub.locals) /\ 0 \in Reg
    BY <1>3, RegMod DEF CompOK, Comp
  <2>4. /\ f.k = "func" /\ f.comp = Len(fs) + 1 /\ f.saved = sub.nactive
        /\ f.base = 0 /\ f.sbreaks = 0 /\ f.names = <<kind, name>>
    BY <2>1 DEF FuncFrameFor
  <2>5. f \in FrameT
    <3>1. "func" \in FrameKinds /\ Len(fs) + 1 \in Nat /\ sub.nactive \in Nat /\ 0 \in Nat
      BY <1>6, <2>3 DEF FrameKinds, Reg
    <3>2. <<>> \in Seq(Int) /\ 0 \in Reg
      BY <2>2, <2>3
    <3> QED
      BY <2>1, <2>2, <2>3, <3>1, <3>2 DEF FuncFrameFor, FrameT
  <2> HIDE DEF f
  <2> QED
    BY <1>6, <2>3, <2>4, <2>5
<1> HIDE DEF f, G
<1>9. FsOK(Append(G, sub)) /\ CtlOK(K, Append(G, sub))
  BY <1>3, <1>4, <1>6, <1>7, <1>8, CtlCall
<1> HIDE DEF K
<1>10. CASE Refuse
  BY <1>1, <1>10, RefuseInv
<1>11. CASE fs' = Append(G, sub) /\ ctl' = K /\ stats' = stats - 1 /\ UNCHANGED <<heap, phase, final>>
  <2>1. stats' \in 0..MaxStats
    BY <1>1, <1>11, ScriptAssumption DEF IInv
  <2> QED
    BY <1>1, <1>9, <1>11, <2>1, NextInv
<1> QED
  BY <1>0, <1>10, <1>11

\* The end of mccomp_body.
LEMMA FinishOK ==
    ASSUME NEW c, CompOK(c)
    PROVE  CompOK(Finish(c))
<1> DEFINE keeps == c.has_tbc \/ c.has_capture
           i == FinalReturn(c)
           e == Emit(c, i)
           m == Bigger(2, c.maxreg)
           d == Finish(c)
<1>1. c.nactive \in Int /\ VarargC(c) \in Int /\ keeps \in BOOLEAN
  <2>1. c.has_tbc \in BOOLEAN /\ c.has_capture \in BOOLEAN /\ c.num_params \in Int
    BY DEF CompOK, Comp
  <2> QED
    BY <2>1, RegInt DEF VarargC
<1>2. i \in Plains
  <2>1. Instr("RETURN0", c.nactive, 0, 0) \in Plains
    BY <1>1, PlainInstr DEF PlainOps
  <2>2. Instr("RETURN", c.nactive, 1, VarargC(c)) \in Plains
    BY <1>1, PlainInstr DEF PlainOps
  <2>3. \A j \in Plains, k \in BOOLEAN : Flagged(j, k) \in Plains
    BY DEF Flagged, Plains, Plain, Instrs
  <2>4. i = IF keeps \/ c.is_vararg THEN Flagged(Instr("RETURN", c.nactive, 1, VarargC(c)), keeps)
            ELSE Instr("RETURN0", c.nactive, 0, 0)
    BY DEF FinalReturn
  <2> HIDE DEF i, keeps
  <2> QED
    BY <1>1, <2>1, <2>2, <2>3, <2>4
<1> HIDE DEF i, keeps
<1>3. CompOK(e) /\ e \in Comp
  BY <1>2, EmitAdded DEF Added, Kept, Coded, CompOK
<1>4. m \in Int
  <2>1. c.maxreg \in Reg
    BY DEF CompOK, Comp
  <2> QED
    BY <2>1 DEF Bigger, Reg
<1>5. d = [e EXCEPT !.max_stack = m]
  BY DEF Finish, i
<1> HIDE DEF e, m, d
<1>6. d \in Comp
  BY <1>3, <1>4, <1>5 DEF Comp
<1>7. /\ d.locals = e.locals /\ d.nactive = e.nactive /\ d.breaks = e.breaks
      /\ d.lost = e.lost /\ d.error = e.error
  BY <1>3, <1>5 DEF Comp
<1> QED
  BY <1>3, <1>6, <1>7 DEF CompOK, Whole, d

\* The handler that asked for a function goes on.
LEMMA ClosureMoved ==
    ASSUME NEW c, CompOK(c), NEW kind \in FuncKinds, NEW name \in Names
    PROVE  Moved(c, Closure(c, kind, name))
<1>0. \A a, b \in Int : Instr("CLOSURE", a, b, 0) \in Plains /\ Instr("SETTABUP", 0, 0, a) \in Plains
  BY PlainInstr DEF PlainOps
<1>1. c.nactive \in Int
  BY RegInt
<1>2. CASE kind = "localfunc"
  <2> DEFINE i == Instr("CLOSURE", c.nactive - 1, 0, 0)
  <2>1. i \in Plains
    BY <1>0, <1>1
  <2>2. Closure(c, kind, name) = Emit(c, i)
    BY <1>2 DEF Closure
  <2> HIDE DEF i
  <2> QED
    BY <2>1, <2>2, EmitAdded, AddedMoved
<1>3. CASE kind = "funcdef"
  <2> DEFINE d == IF NoConst THEN NoteFailure(c, "name") ELSE c
             i == Instr("CLOSURE", d.freereg, 0, 0)
             j == Instr("SETTABUP", 0, 0, d.freereg)
             r == Emit(Reserve(d), i)
             z == Emit(r, j)
  <2>1. Closure(c, kind, name) = z
    BY <1>3 DEF Closure
  <2>2. Added(c, d)
    BY NoteAdded, AddedRefl DEF NoConst, Unnoticed, Losses
  <2>3. CompOK(d)
    BY <2>2 DEF Added, Kept, Coded
  <2> HIDE DEF d
  <2>4. i \in Plains /\ j \in Plains
    <3>1. d.freereg \in Int /\ 0 \in Int
      BY <2>3, RegInt
    <3> QED
      BY <1>0, <3>1
  <2> HIDE DEF i, j
  <2>5. Added(d, r) /\ CompOK(r)
    BY <2>3, <2>4, LoadAdded DEF Added, Kept, Coded
  <2> HIDE DEF r
  <2>6. Added(r, z)
    BY <2>4, <2>5, EmitAdded
  <2>7. Added(c, z)
    BY <2>2, <2>3, <2>5, <2>6, AddedTrans
  <2> HIDE DEF z
  <2> QED
    BY <2>1, <2>7, AddedMoved
<1>4. CASE kind = "funcexpr"
  <2> DEFINE base == c.nactive
             s == SetFree(c, base)
             i == Instr("CLOSURE", base, 0, 0)
             r == Emit(Reserve(s), i)
             t == SetFree(r, base + 1)
             z == NewLocal(t, name, base)
  <2>1. Closure(c, kind, name) = z
    BY <1>4 DEF Closure
  <2>2. Added(c, s) /\ CompOK(s)
    BY <1>1, FreeAdded DEF Added, Kept, Coded
  <2>3. i \in Plains
    BY <1>0, <1>1
  <2> HIDE DEF s, i
  <2>4. Added(s, r) /\ CompOK(r)
    BY <2>2, <2>3, LoadAdded DEF Added, Kept, Coded
  <2> HIDE DEF r
  <2>5. Added(r, t) /\ CompOK(t)
    <3>1. base + 1 \in Int
      BY <1>1
    <3> QED
      BY <2>4, <3>1, FreeAdded DEF Added, Kept, Coded
  <2> HIDE DEF t
  <2>6. Moved(t, z)
    BY <1>1, <2>5, NewLocalIs
  <2>7. Moved(c, t)
    BY <2>2, <2>4, <2>5, AddedTrans, AddedMoved
  <2> HIDE DEF z
  <2> QED
    BY <2>1, <2>6, <2>7, MovedTrans
<1> QED
  BY <1>2, <1>3, <1>4 DEF FuncKinds

\* The end of a function gives its code to the parent.
LEMMA FuncEndInv ==
    ASSUME IInv, FuncEnd
    PROVE  IInv'
<1> DEFINE b      == LeaveBlock(Top, Open.saved)
           c      == Finish(b)
           parent == fs[Len(fs) - 1]
           kind   == Open.names[1]
           name   == Open.names[2]
           kept   == [parent EXCEPT !.lost = @ \cup c.lost]
           d      == EndStat(Closure(kept, kind, name))
           fails  == c.error \/ (Len(fs) > 1 /\ (heap = "full" \/ (kind = "funcexpr" /\ TooManyLocals(parent, 1))))
<1>1. /\ phase = "running" /\ Open.k = "func" /\ UNCHANGED <<heap, stats>>
      /\ IF fails THEN phase' = "null" /\ UNCHANGED <<fs, ctl, final>>
         ELSE /\ final' = <<c>>
              /\ IF Len(fs) = 1
                   THEN phase' = "returned" /\ UNCHANGED <<fs, ctl>>
                   ELSE /\ fs' = [Front(fs) EXCEPT ![Len(fs) - 1] = d]
                        /\ ctl' = Front(ctl)
                        /\ UNCHANGED phase
  BY DEF FuncEnd
<1>2. /\ FsOK(fs) /\ CtlOK(ctl, fs) /\ CompOK(Top) /\ Open.saved \in Reg /\ Open.saved <= Len(Top.locals)
      /\ Open = ctl[Len(ctl)] /\ Len(fs) \in Nat \ {0} /\ DOMAIN fs = 1 .. Len(fs)
      /\ stats \in 0..MaxStats
  BY StartIs, OpenFrame, TopIs DEF IInv, FsOK, Open
<1>3. CompOK(b)
  BY <1>2, BlockIs DEF Moved
<1> HIDE DEF b
<1>4. CompOK(c) /\ c \in Comp
  BY <1>3, FinishOK DEF CompOK
<1> HIDE DEF c
<1>5. CASE fails
  <2>1. /\ fs' = fs /\ ctl' = ctl /\ heap' = heap /\ stats' \in 0..MaxStats /\ final' = final
        /\ phase' = "null"
    BY <1>1, <1>2, <1>5
  <2> QED
    BY <1>2, <2>1, NextInv
<1>6. CASE ~ fails
  <2>1. ~ c.error /\ final' = <<c>>
    BY <1>1, <1>6
  <2>2. c.lost \subseteq Unnoticed
    BY <1>4, <2>1 DEF CompOK, Whole
  <2>3. Delivered'
    <3>1. <<c>> \in Seq(Comp) /\ Len(<<c>>) = 1 /\ <<c>>[1] = c
      BY <1>4
    <3> HIDE DEF fails, d
    <3> QED
      BY <1>1, <2>1, <2>2, <3>1 DEF Delivered, Unnoticed
  <2>4. CASE Len(fs) = 1
    <3>1. /\ fs' = fs /\ ctl' = ctl /\ heap' = heap /\ stats' \in 0..MaxStats /\ phase' = "returned"
      BY <1>1, <1>2, <1>6, <2>4
    <3>2. FsOK(fs)' /\ CtlOK(ctl, fs)'
      BY <1>2, <3>1, NextFs, NextCtl
    <3> QED
      BY <2>3, <3>1, <3>2 DEF IInv
  <2>5. CASE Len(fs) # 1
    <3> DEFINE F == Front(fs)
               K == Front(ctl)
               n == Len(ctl)
    <3>1. Len(fs) > 1 /\ n > 1 /\ n \in DOMAIN ctl
      <4>1. n \in Nat \ {0} /\ ctl[1].comp = 1 /\ ctl[n].comp = Len(fs) /\ DOMAIN ctl = 1 .. n
        BY <1>2, OpenIs, SMTT(30) DEF CtlOK
      <4> QED
        BY <1>2, <2>5, <4>1, SMTT(30)
    <3>2. FsOK(F) /\ CtlOK(K, F) /\ TopOf(F) = parent /\ Len(F) = Len(fs) - 1
      BY <1>1, <1>2, <3>1, CtlReturn
    <3>3. kind \in FuncKinds /\ name \in Names
      <4>1. FrameFits(ctl, fs, n)
        BY <1>2, <3>1 DEF CtlOK
      <4> QED
        BY <1>1, <1>2, <3>1, <4>1 DEF FrameFits
    <3>4. CompOK(parent) /\ parent \in Comp
      BY <3>2, TopIs DEF FsOK, CompOK
    <3> HIDE DEF parent, kind, name, F, K
    <3>5. CompOK(kept) /\ Moved(parent, kept)
      <4>1. parent.lost \in SUBSET Losses /\ c.lost \in SUBSET Losses
        BY <1>4, <3>4 DEF Comp
      <4>2. kept = [parent EXCEPT !.lost = parent.lost \cup c.lost]
        OBVIOUS
      <4>3. (parent.lost \cup c.lost) \in SUBSET Losses
        BY <4>1
      <4> HIDE DEF kept
      <4>4. kept \in Comp
        <5>1. \A x \in SUBSET Losses : [parent EXCEPT !.lost = x] \in Comp
          BY <3>4 DEF Comp
        <5> QED
          BY <4>2, <4>3, <5>1
      <4>5. /\ kept.locals = parent.locals /\ kept.nactive = parent.nactive
            /\ kept.breaks = parent.breaks /\ kept.owed = parent.owed
            /\ kept.upvals = parent.upvals /\ kept.error = parent.error
            /\ kept.lost = (parent.lost \cup c.lost)
        BY <3>4, <4>2 DEF Comp
      <4>6. Whole(kept)
        BY <2>2, <3>4, <4>5 DEF CompOK, Whole
      <4>7. CompOK(kept)
        BY <3>4, <4>4, <4>5, <4>6 DEF CompOK
      <4> QED
        BY <3>4, <4>5, <4>7, LensNat DEF Moved
    <3> HIDE DEF kept
    <3>6. Moved(parent, d)
      <4>1. Moved(kept, Closure(kept, kind, name)) /\ CompOK(Closure(kept, kind, name))
        BY <1>2, <3>3, <3>5, ClosureMoved DEF Moved
      <4>2. Moved(Closure(kept, kind, name), d)
        BY <4>1, EndMoved
      <4> QED
        BY <3>4, <3>5, <4>1, <4>2, MovedTrans
    <3> HIDE DEF d
    <3>7. FsMoved(F, On(F, d)) /\ FsOK(On(F, d))
      BY <3>2, <3>6, OnMoved
    <3>8. CtlOK(K, On(F, d))
      BY <3>2, <3>7, CtlMoved
    <3>9. fs' = On(F, d) /\ ctl' = K /\ heap' = heap /\ stats' \in 0..MaxStats /\ phase' = "running"
      <4>1. On(F, d) = [Front(fs) EXCEPT ![Len(fs) - 1] = d]
        BY <3>2 DEF On, F
      <4> QED
        BY <1>1, <1>2, <1>6, <2>5, <4>1 DEF K
    <3>10. FsOK(fs)' /\ CtlOK(ctl, fs)'
      BY <3>7, <3>8, <3>9, NextFs, NextCtl
    <3>11. heap' \in {"ample"} \cup HeapLimits
      BY <3>9 DEF IInv
    <3> QED
      BY <2>3, <3>9, <3>10, <3>11 DEF IInv
  <2> QED
    BY <2>4, <2>5
<1> QED
  BY <1>5, <1>6

\* mccomp_run sets up the main function.
LEMMA InitInv == Init => IInv
<1> SUFFICES ASSUME Init PROVE IInv
  OBVIOUS
<1> DEFINE n == NewComp(<<>>, FALSE, TRUE)
           i == Instr("VARARGPREP", 0, 0, 0)
           c == [n EXCEPT !.code = <<i>>, !.is_vararg = TRUE]
           f == FuncFrameFor("main", Env, 1, [nactive |-> 0])
<1>1. /\ heap = "ample" /\ fs = <<c>> /\ ctl = <<f>> /\ phase = "running" /\ stats = MaxStats
      /\ final = <<>>
  BY DEF Init
<1>2. CompOK(n) /\ n.owed = {} /\ n.upvals = <<EnvUp(TRUE)>> /\ n.breaks = <<>>
  <2>1. <<>> \in Seq(Names) /\ FALSE \in BOOLEAN /\ TRUE \in BOOLEAN
    OBVIOUS
  <2> QED
    BY <2>1, NewCompOK
<1>3. <<i>> \in Seq(Instrs)
  <2>1. 0 \in Int /\ "VARARGPREP" \in Ops
    BY DEF Ops, PlainOps, Looping
  <2>2. i \in Instrs
    BY <2>1, InstrType
  <2> QED
    BY <2>2
<1> HIDE DEF n, i
<1>4. CompOK(c) /\ c.owed = {} /\ c.upvals = <<EnvUp(TRUE)>>
  <2>1. n \in Comp
    BY <1>2 DEF CompOK
  <2>2. c \in Comp
    BY <1>3, <2>1 DEF Comp
  <2>3. /\ c.nactive = n.nactive /\ c.locals = n.locals /\ c.breaks = n.breaks /\ c.lost = n.lost
        /\ c.error = n.error /\ c.owed = n.owed /\ c.upvals = n.upvals
    BY <2>1 DEF Comp
  <2> HIDE DEF c
  <2> QED
    BY <1>2, <2>2, <2>3 DEF CompOK, Whole
<1> HIDE DEF c
<1>5. FsOK(fs) /\ DOMAIN fs = {1} /\ Len(fs) = 1 /\ fs[1] = c
  <2>1. DOMAIN fs = {1} /\ Len(fs) = 1 /\ fs[1] = c /\ fs # <<>>
    BY <1>1
  <2>2. fs \in Seq(Comp)
    BY <1>1, <1>4 DEF CompOK
  <2>3. c.upvals[1].name = Env /\ DOMAIN c.upvals = {1}
    BY <1>4 DEF EnvUp
  <2>4. UpsSound(fs)
    BY <2>1, <2>3 DEF UpsSound, UpSound
  <2> QED
    BY <1>4, <2>1, <2>2, <2>4 DEF FsOK, FsType
<1>6. /\ f \in FrameT /\ f.k = "func" /\ f.comp = 1 /\ f.saved = 0 /\ f.base = 0 /\ f.sbreaks = 0
      /\ f.names = <<"main", Env>>
  <2>1. NoFrame \in [k : {""}, comp : Nat, saved : Nat, sbreaks : {0}, top : Int, jf : Int,
                     ends : {<<>>}, base : {0}, prep : Int, names : {<<>>}, over : BOOLEAN]
    <3>1. NoJump \in Int
      BY DEF NoJump
    <3> QED
      BY <3>1 DEF NoFrame
  <2>2. <<"main", Env>> \in Seq(Names \cup FuncKinds \cup {Env, "main"}) /\ <<>> \in Seq(Int)
    OBVIOUS
  <2>3. "func" \in FrameKinds /\ 0 \in Reg /\ 0 \in Nat /\ 1 \in Nat
    BY RegMod DEF FrameKinds
  <2>4. [nactive |-> 0].nactive = 0
    OBVIOUS
  <2>5. f \in FrameT
    BY <2>1, <2>2, <2>3, <2>4 DEF FuncFrameFor, FrameT
  <2>6. /\ f.k = "func" /\ f.comp = 1 /\ f.saved = 0 /\ f.base = 0 /\ f.sbreaks = 0
        /\ f.names = <<"main", Env>>
    BY <2>1, <2>4 DEF FuncFrameFor
  <2> QED
    BY <2>5, <2>6
<1> HIDE DEF f
<1>7. CtlOK(ctl, fs)
  <2>1. DOMAIN ctl = {1} /\ Len(ctl) = 1 /\ ctl[1] = f /\ ctl # <<>> /\ ctl \in Seq(FrameT)
    BY <1>1, <1>6
  <2>2. Len(c.locals) \in Nat /\ Len(c.breaks) \in Nat
    BY <1>4, LensNat
  <2>3. FrameFits(ctl, fs, 1)
    BY <1>5, <1>6, <2>1, <2>2 DEF FrameFits
  <2>4. FuncFrames(ctl) = {1}
    BY <1>6, <2>1 DEF FuncFrames
  <2>5. Cardinality(FuncFrames(ctl)) = 1
    BY <2>4, FS_Singleton
  <2>6. WindowsNest(ctl)
    BY <1>6, <2>1 DEF WindowsNest
  <2> QED
    BY <1>4, <1>5, <1>6, <2>1, <2>3, <2>5, <2>6 DEF CtlOK
<1>8. stats \in 0..MaxStats
  BY <1>1, ScriptAssumption
<1>9. Delivered
  BY <1>1 DEF Delivered
<1> QED
  BY <1>1, <1>5, <1>7, <1>8, <1>9 DEF IInv

\* Every step preserves the invariant.
LEMMA NextStepInv == IInv /\ [Next]_vars => IInv'
<1> SUFFICES ASSUME IInv, [Next]_vars PROVE IInv'
  OBVIOUS
<1>1. CASE UNCHANGED vars
  <2>1. fs' = fs /\ ctl' = ctl /\ heap' = heap /\ phase' = phase /\ stats' = stats /\ final' = final
    BY <1>1 DEF vars
  <2>2. FsOK(fs)' /\ CtlOK(ctl, fs)'
    BY <2>1, NextFs, NextCtl DEF IInv
  <2>3. Delivered'
    BY <2>1 DEF IInv, Delivered, Unnoticed
  <2> QED
    BY <2>1, <2>2, <2>3 DEF IInv
<1>2. CASE Statement
  BY <1>2, LocalInv, AssignInv, ReturnInv, CallInv, BreakInv, LabelInv, GotoInv DEF Statement
<1>3. CASE Opening
  BY <1>3, IfStartInv, ElseIfInv, WhileStartInv, ElseInv, DoStartInv, RepeatStartInv,
     ForNumStartInv, ForInStartInv, FuncStartInv DEF Opening
<1>4. CASE Closing
  BY <1>4, IfEndInv, DoEndInv, WhileEndInv, RepeatEndInv, ForNumEndInv, ForInEndInv, FuncEndInv
     DEF Closing
<1>5. CASE HeapRunsShort
  BY <1>5, HeapInv
<1> QED
  BY <1>1, <1>2, <1>3, <1>4, <1>5 DEF Next

\* The invariant of the compiler, for every script and every limit: the open
\* functions and the open handlers fit together, and every upvalue is a captured
\* variable of the function around it or one of that function's upvalues.
THEOREM InductiveInv == Spec => []IInv
<1>1. Init => IInv
  BY InitInv
<1>2. IInv /\ [Next]_vars => IInv'
  BY NextStepInv
<1> QED
  BY <1>1, <1>2, PTL DEF Spec

\* Every variable keeps its type, the registers wrap and stay below U8, the list
\* of breaks never outgrows MaxBreaks, a break is owed to an open handler, and
\* there are as many function frames as functions.
THEOREM TypeCorrect == Spec => []TypeOK
<1>1. IInv => TypeOK
  <2> SUFFICES ASSUME IInv PROVE TypeOK
    OBVIOUS
  <2>1. \A d \in DOMAIN fs : CompOK(fs[d]) /\ \A o \in fs[d].owed : o.loop \in DOMAIN ctl
    BY DEF IInv, FsOK, FsType, CtlOK, OwedFits
  <2>2. \A c \in OpenFuncs : CompOK(c) /\ \A o \in c.owed : o.loop \in DOMAIN ctl
    BY <2>1 DEF OpenFuncs
  <2>3. ASSUME NEW c \in OpenFuncs
        PROVE  /\ {c.nactive, c.freereg, c.maxreg} \subseteq 0 .. U8 - 1
               /\ Len(c.breaks) <= MaxBreaks
               /\ \A i \in DOMAIN c.locals : c.locals[i].reg \in 0 .. U8 - 1
    <3>1. CompOK(c)
      BY <2>2
    <3>2. /\ c.nactive \in Reg /\ c.freereg \in Reg /\ c.maxreg \in Reg
          /\ c.locals \in Seq(LocalVar) /\ Len(c.breaks) <= MaxBreaks
      BY <3>1 DEF CompOK, Comp
    <3>3. \A i \in DOMAIN c.locals : c.locals[i] \in LocalVar
      BY <3>2
    <3>4. \A l \in LocalVar : l.reg \in Reg
      BY DEF LocalVar
    <3> QED
      BY <3>2, <3>3, <3>4 DEF Reg
  <2>4. Cardinality({i \in DOMAIN ctl : ctl[i].k = "func"}) = Len(fs)
    BY SMTT(30) DEF IInv, CtlOK, FuncFrames
  <2> QED
    BY <2>2, <2>3, <2>4 DEF TypeOK, IInv
<1> QED
  BY <1>1, InductiveInv, PTL

\* What mccomp_run returns is the whole script but for a test, a function's name
\* or a capture, and these only where the arrays they need cannot grow: whatever
\* else is lost to the arena sets error, in a function and in those around it.
THEOREM CodeComplete == Spec => []CodeIsWhole
<1>1. IInv => CodeIsWhole
  BY SMTT(30) DEF IInv, Delivered, CodeIsWhole
<1> QED
  BY <1>1, InductiveInv, PTL

-----------------------------------------------------------------------------
(* What upvalues denote *)

\* The holders of the upvalues of one function come from those of the next.
LEMMA HoldersAre ==
    ASSUME NEW d \in Nat, NEW i \in DOMAIN fs[d + 1].upvals
    PROVE  LET u == fs[d + 1].upvals[i]
           IN  Holder(d + 1, i) = IF u.instack THEN <<d, u.idx>> ELSE Holder(d, u.idx)
<1>1. HolderSteps(fs) = HolderRun!Steps(fs, <<>>)
  BY DEF HolderSteps, HolderRun!Steps, HolderStep
<1>2. HolderSteps(fs)[d + 1] = HolderStep(fs, HolderSteps(fs)[d], d + 1)
  BY <1>1, HolderRun!StepsUnfold, SMTT(30)
<1>3. (d + 1) - 1 = d
  OBVIOUS
<1> QED
  BY <1>2, <1>3 DEF HolderStep, Holder

\* The innermost declaration around function d + 1 is the one in function d, or
\* the one function d itself means.
LEMMA MeaningIs ==
    ASSUME FsOK(fs), NEW d \in Nat \ {0}, NEW name
    PROVE  Meaning(d + 1, name) = IF LocalIndex(fs[d], name) # 0
                                    THEN <<d, fs[d].locals[LocalIndex(fs[d], name)].reg>>
                                    ELSE Meaning(d, name)
<1> DEFINE ls(e) == {l \in 1 .. e - 1 : LocalIndex(fs[l], name) # 0}
           of(e) == CHOOSE m \in ls(e) : \A k \in ls(e) : k <= m
<1>1. \A e : Meaning(e, name) = <<of(e), fs[of(e)].locals[LocalIndex(fs[of(e)], name)].reg>>
  BY DEF Meaning
<1>2. CASE LocalIndex(fs[d], name) # 0
  <2>1. d \in ls(d + 1) /\ \A k \in ls(d + 1) : k \in Int /\ k <= d
    BY <1>2
  <2> HIDE DEF ls
  <2>2. of(d + 1) = d
    BY <2>1
  <2> HIDE DEF of
  <2> QED
    BY <1>1, <1>2, <2>2
<1>3. CASE LocalIndex(fs[d], name) = 0
  <2>1. ls(d + 1) = ls(d)
    BY <1>3
  <2> HIDE DEF ls
  <2>2. of(d + 1) = of(d)
    BY <2>1
  <2> HIDE DEF of
  <2> QED
    BY <1>1, <1>3, <2>2
<1> QED
  BY <1>2, <1>3

\* What an upvalue denotes, level by level.
LEMMA Denotes ==
    ASSUME FsOK(fs)
    PROVE  UpvalsDenote
<1> DEFINE Right(d) == \A i \in DOMAIN fs[d].upvals :
                          LET u == fs[d].upvals[i] IN
                          u.name # Env => /\ u.instack \/ u.idx \in DOMAIN fs[d - 1].upvals
                                          /\ Holder(d, i) = Meaning(d, u.name)
                                          /\ fs[Holder(d, i)[1]].has_capture
           Fits(d) == \A l \in 1 .. d : Len(fs[l].upvals) <= U8
           Good == {d \in Nat : d \in DOMAIN fs /\ Fits(d) => Right(d)}
<1>1. 0 \in Good
  BY TopIs DEF FsOK
<1>2. ASSUME NEW d \in Nat, d \in Good PROVE d + 1 \in Good
  <2> SUFFICES ASSUME d + 1 \in DOMAIN fs, Fits(d + 1) PROVE Right(d + 1)
    OBVIOUS
  <2>n. (d + 1) - 1 = d
    OBVIOUS
  <2> SUFFICES ASSUME NEW i \in DOMAIN fs[d + 1].upvals, fs[d + 1].upvals[i].name # Env
               PROVE  /\ \/ fs[d + 1].upvals[i].instack
                         \/ fs[d + 1].upvals[i].idx \in DOMAIN fs[d].upvals
                      /\ Holder(d + 1, i) = Meaning(d + 1, fs[d + 1].upvals[i].name)
                      /\ fs[Holder(d + 1, i)[1]].has_capture
    BY <2>n, SMTT(30)
  <2> DEFINE u == fs[d + 1].upvals[i]
  <2>1. UpSound(fs, d + 1, u)
    BY SMTT(30) DEF FsOK, UpsSound
  <2>2. d \in Nat \ {0} /\ (d + 1) - 1 = d /\ d \in DOMAIN fs
    BY <2>1, TopIs DEF UpSound, FsOK
  <2>x. d \in 1 .. d + 1 /\ \A l \in 1 .. d : l \in 1 .. d + 1
    BY <2>2
  <2>y. Fits(d) /\ Len(fs[d].upvals) <= U8
    BY <2>x
  <2>3. Right(d)
    BY <1>2, <2>2, <2>y
  <2>4. Holder(d + 1, i) = IF u.instack THEN <<d, u.idx>> ELSE Holder(d, u.idx)
    BY HoldersAre
  <2>5. Meaning(d + 1, u.name) = IF LocalIndex(fs[d], u.name) # 0
                                   THEN <<d, fs[d].locals[LocalIndex(fs[d], u.name)].reg>>
                                   ELSE Meaning(d, u.name)
    BY <2>2, MeaningIs, SMTT(30)
  <2>6. u.name # Env
    BY SMTT(30)
  <2> HIDE DEF u
  <2>7. CASE /\ u.instack
             /\ LocalIndex(fs[d], u.name) # 0
             /\ u.idx = fs[d].locals[LocalIndex(fs[d], u.name)].reg
             /\ fs[d].has_capture
    <3>1. Holder(d + 1, i) = <<d, u.idx>> /\ Holder(d + 1, i) = Meaning(d + 1, u.name)
      BY <2>4, <2>5, <2>7
    <3>2. Holder(d + 1, i)[1] = d
      BY <3>1
    <3> QED
      BY <2>7, <3>1, <3>2 DEF u
  <2>8. CASE /\ ~ u.instack
             /\ LocalIndex(fs[d], u.name) = 0
             /\ u.idx \in DOMAIN fs[d].upvals
             /\ fs[d].upvals[u.idx].name = u.name
    <3>1. Holder(d + 1, i) = Holder(d, u.idx) /\ Meaning(d + 1, u.name) = Meaning(d, u.name)
      BY <2>4, <2>5, <2>8
    <3>2. Holder(d, u.idx) = Meaning(d, u.name) /\ fs[Holder(d, u.idx)[1]].has_capture
      BY <2>3, <2>6, <2>8
    <3> QED
      BY <2>8, <3>1, <3>2 DEF u
  <2> QED
    BY <2>1, <2>2, <2>y, <2>6, <2>7, <2>8 DEF UpSound
<1> HIDE DEF Good
<1>3. \A d \in Nat : d \in Good
  BY <1>1, <1>2, HolderRun!Induct
<1> USE DEF Good
<1>4. \A d \in DOMAIN fs : Fits(d) => Right(d)
  BY <1>3, TopIs DEF FsOK
<1> QED
  BY <1>4 DEF UpvalsDenote

\* Through any number of functions, shadowing and captures, an upvalue is the
\* innermost variable of its name around the function, and the function that owns
\* the variable knows that it is captured, until an array of upvalues on the way
\* is written past its last place.
THEOREM UpvaluesDenote == Spec => []UpvalsDenote
<1>1. IInv => UpvalsDenote
  BY Denotes DEF IInv
<1> QED
  BY <1>1, InductiveInv, PTL

-----------------------------------------------------------------------------
(* Registers of locals *)

\* Every place of locals[] has the register of its number, also those behind the
\* active ones.
Straight(c) == \A i \in DOMAIN c.locals : c.locals[i].reg = i - 1

\* Locals are as they were.
SameRegs(c, d) == d.locals = c.locals /\ d.nactive = c.nactive

\* A function whose count of active locals cannot have wrapped yet.
Unwrapped(c) == Len(c.locals) < U8

\* Blocks nest: a frame's function has at least the locals it had before the
\* frame's block, and a loop's block has those of the loop's control registers.
Nested(K, F) ==
    /\ \A n \in DOMAIN K : Unwrapped(F[K[n].comp]) =>
          /\ K[n].saved <= F[K[n].comp].nactive
          /\ K[n].k = "forin" => K[n].base + 4 <= K[n].saved
    /\ \A i, j \in DOMAIN K : i < j /\ K[i].comp = K[j].comp /\ Unwrapped(F[K[i].comp]) =>
          /\ K[i].saved <= K[j].saved
          /\ K[j].k = "forin" => K[i].saved <= K[j].base

NoNumericFor == "fornum" \notin Kinds
NoneNumeric(K) == \A n \in DOMAIN K : K[n].k # "fornum"

RegInv ==
    /\ \A l \in DOMAIN fs : Straight(fs[l])
    /\ Top.freereg = Top.nactive
    /\ NoneNumeric(ctl)
    /\ Nested(ctl, fs)

\* Counting on in numbers modulo U8.
LEMMA WrapNext ==
    ASSUME NEW a \in Nat
    PROVE  ((a % U8) + 1) % U8 = (a + 1) % U8
<1> DEFINE q == a \div U8
           r == a % U8
           p == (a + 1) \div U8
           s == (a + 1) % U8
<1>1. U8 \in Nat \ {0}
  BY CompAssumption
<1>2. a = r + q * U8 /\ q \in Int /\ r \in 0 .. U8 - 1
  BY <1>1
<1>3. a + 1 = s + p * U8 /\ p \in Int /\ s \in 0 .. U8 - 1
  BY <1>1
<1> HIDE DEF q, r, p, s
<1>4. (p - q) * U8 = r + 1 - s
  BY <1>1, <1>2, <1>3
<1>5. CASE p - q >= 2
  <2>1. (p - q - 2) * U8 >= 0
    BY <1>1, <1>2, <1>3, <1>5
  <2> QED
    BY <1>1, <1>2, <1>3, <1>4, <2>1
<1>6. CASE p - q <= -1
  <2>1. (q - p - 1) * U8 >= 0
    BY <1>1, <1>2, <1>3, <1>6
  <2> QED
    BY <1>1, <1>2, <1>3, <1>4, <2>1
<1>7. CASE p = q
  <2>1. s = r + 1
    BY <1>1, <1>2, <1>3, <1>4, <1>7
  <2>2. (r + 1) % U8 = r + 1
    BY <1>1, <1>2, <1>3, <2>1
  <2> QED
    BY <2>1, <2>2 DEF r, s
<1>8. CASE p - q = 1
  <2>1. s = 0 /\ r + 1 = U8
    BY <1>1, <1>2, <1>3, <1>4, <1>8
  <2>2. U8 % U8 = 0
    BY <1>1
  <2> QED
    BY <2>1, <2>2 DEF r, s
<1> QED
  BY <1>2, <1>3, <1>5, <1>6, <1>7, <1>8

\* A register below U8 is itself.
LEMMA WrapSmall == ASSUME NEW r \in Reg PROVE r % U8 = r
BY CompAssumption DEF Reg

\* The count of a function that has got more locals has not wrapped before.
LEMMA UnwrappedBack ==
    ASSUME NEW c, CompOK(c), NEW d, Moved(c, d)
    PROVE  Unwrapped(d) => Unwrapped(c)
BY LensNat, CompAssumption DEF Moved, Unwrapped

\* A local is declared in the register of its place.
LEMMA NewStraight ==
    ASSUME NEW c, CompOK(c), Straight(c), NEW name, NEW reg \in Int, reg % U8 = c.nactive
    PROVE  /\ Straight(NewLocal(c, name, reg))
           /\ NewLocal(c, name, reg).nactive = (c.nactive + 1) % U8
           /\ Unwrapped(NewLocal(c, name, reg)) => NewLocal(c, name, reg).nactive = c.nactive + 1
<1> DEFINE l      == Local(name, reg % U8, "none")
           n      == c.nactive
           locals == IF n < Len(c.locals) THEN [c.locals EXCEPT ![n + 1] = l]
                     ELSE Append(c.locals, l)
           d      == NewLocal(c, name, reg)
<1>1. /\ c \in Comp /\ n \in Nat /\ n <= Len(c.locals)
      /\ c.locals \in Seq(LocalVar) /\ Len(c.locals) \in Nat
      /\ \A i \in DOMAIN c.locals : c.locals[i].reg = i - 1
  BY RegInt, LensNat DEF CompOK, Straight
<1>2. l.reg = n
  BY DEF Local
<1>3. d = [c EXCEPT !.locals = locals, !.nactive = (n + 1) % U8]
  BY DEF NewLocal
<1> HIDE DEF l, n
<1>4. /\ \A i \in DOMAIN locals : locals[i].reg = i - 1
      /\ n + 1 <= Len(locals) /\ Len(locals) \in Nat
  BY <1>1, <1>2, SMTT(30)
<1>w. Len(locals) < U8 => (n + 1) % U8 = n + 1
  <2>1. Len(locals) < U8 => n + 1 \in Reg
    BY <1>1, <1>4, CompAssumption DEF Reg
  <2> QED
    BY <2>1, WrapSmall
<1> HIDE DEF locals, d
<1>5. d.locals = locals /\ d.nactive = (n + 1) % U8
  BY <1>1, <1>3 DEF Comp
<1> QED
  BY <1>4, <1>5, <1>w DEF Straight, Unwrapped, d, n

\* One name more of a list.
LEMMA DeclareStepIs ==
    ASSUME NEW c, NEW names, NEW base
    PROVE  \A k \in Nat : DeclareSteps(c, names, base)[k + 1] =
                             NewLocal(DeclareSteps(c, names, base)[k], names[k + 1], base + k)
BY DeclareStepsAre

\* So are the names of a list, from the first free register on.
LEMMA DeclareStraight ==
    ASSUME NEW c, CompOK(c), Straight(c), NEW names \in Seq(Names \cup {ForState}),
           NEW base \in Nat, base % U8 = c.nactive
    PROVE  /\ Straight(DeclareAll(c, names, base))
           /\ DeclareAll(c, names, base).nactive = (base + Len(names)) % U8
           /\ Unwrapped(DeclareAll(c, names, base)) =>
                DeclareAll(c, names, base).nactive = c.nactive + Len(names)
<1> DEFINE d(k)    == DeclareSteps(c, names, base)[k]
           Holds(k) == /\ CompOK(d(k)) /\ Straight(d(k)) /\ d(k).nactive = (base + k) % U8
                       /\ Unwrapped(d(k)) => d(k).nactive = c.nactive + k
           Good    == {k \in Nat : k <= Len(names) => Holds(k)}
<1>s. \A k \in Nat : d(k + 1) = NewLocal(d(k), names[k + 1], base + k)
  BY DeclareStepIs, Zenon
<1>1. 0 \in Good
  <2>1. d(0) = c
    BY DeclareStepsAre
  <2>2. base + 0 = base /\ c.nactive + 0 = c.nactive
    BY RegInt
  <2>3. Holds(0)
    BY <2>1, <2>2
  <2> QED
    BY <2>3
<1>2. ASSUME NEW k \in Nat, k \in Good PROVE k + 1 \in Good
  <2> SUFFICES ASSUME k + 1 <= Len(names) PROVE Holds(k + 1)
    OBVIOUS
  <2>1. Holds(k)
    BY <1>2
  <2>2. names[k + 1] \in Names \cup {ForState} /\ base + k \in Int /\ base + k \in Nat
    OBVIOUS
  <2>3. d(k + 1) = NewLocal(d(k), names[k + 1], base + k)
    BY <1>s
  <2> DEFINE a == d(k)
             b == d(k + 1)
             name == names[k + 1]
             reg == base + k
  <2>4. /\ CompOK(a) /\ Straight(a) /\ a.nactive = reg % U8 /\ b = NewLocal(a, name, reg)
        /\ name \in Names \cup {ForState} /\ reg \in Nat /\ reg \in Int
    BY <2>1, <2>2, <2>3
  <2>5. base + (k + 1) = reg + 1
    OBVIOUS
  <2> HIDE DEF a, b, name, reg
  <2>6. /\ Straight(b) /\ b.nactive = (a.nactive + 1) % U8
        /\ Unwrapped(b) => b.nactive = a.nactive + 1
    BY <2>4, NewStraight
  <2>7. CompOK(b) /\ Moved(a, b)
    BY <2>4, NewLocalIs DEF Moved
  <2>9. Unwrapped(b) => b.nactive = c.nactive + (k + 1)
    <3>1. Unwrapped(b) => a.nactive = c.nactive + k
      BY <2>1, <2>4, <2>7, UnwrappedBack DEF a
    <3> QED
      BY <2>6, <3>1, RegInt, SMTT(30)
  <2>8. b.nactive = (reg + 1) % U8
    BY <2>4, <2>6, WrapNext
  <2> QED
    BY <2>5, <2>6, <2>7, <2>8, <2>9 DEF b
<1>3. Len(names) \in Good
  <2> HIDE DEF Good
  <2>1. \A k \in Nat : k \in Good
    BY <1>1, <1>2, ExpRun!Induct
  <2>2. Len(names) \in Nat
    OBVIOUS
  <2> QED
    BY <2>1, <2>2
<1>4. Holds(Len(names))
  <2>1. Len(names) <= Len(names)
    OBVIOUS
  <2> QED
    BY <1>3, <2>1
<1> QED
  BY <1>4 DEF DeclareAll

\* What leaves locals alone.
LEMMA SameUnwrapped == ASSUME NEW c, NEW d, SameRegs(c, d) PROVE Unwrapped(d) <=> Unwrapped(c)
BY DEF SameRegs, Unwrapped

LEMMA SameStraight == ASSUME NEW c, NEW d, SameRegs(c, d) PROVE Straight(c) => Straight(d)
BY DEF SameRegs, Straight

LEMMA KeptSame == ASSUME NEW c, NEW d, Kept(c, d) PROVE SameRegs(c, d)
BY DEF Kept, SameRegs

LEMMA AddedSame == ASSUME NEW c, NEW d, Added(c, d) PROVE SameRegs(c, d)
BY KeptSame DEF Added

LEMMA SameTrans == ASSUME NEW c, NEW d, NEW e, SameRegs(c, d), SameRegs(d, e) PROVE SameRegs(c, e)
BY DEF SameRegs

\* The end of a statement gives the registers above the locals back.
LEMMA EndRests ==
    ASSUME NEW c, CompOK(c)
    PROVE  /\ CompOK(EndStat(c)) /\ SameRegs(c, EndStat(c)) /\ EndStat(c).freereg = c.nactive
           /\ EndStat(c).upvals = c.upvals
<1>1. Added(c, EndStat(c))
  BY EndMoved
<1>2. c.nactive \in Reg /\ c \in Comp
  BY DEF CompOK, Comp
<1>3. c.nactive % U8 = c.nactive
  BY <1>2, WrapSmall
<1>4. EndStat(c) = [c EXCEPT !.freereg = c.nactive]
  BY <1>3 DEF EndStat, SetFree
<1> QED
  BY <1>1, <1>2, <1>4, AddedSame DEF Added, Kept, Comp

\* A block is left.
LEMMA BlockRests ==
    ASSUME NEW c, CompOK(c), NEW saved
    PROVE  /\ LeaveBlock(c, saved).locals = c.locals
           /\ LeaveBlock(c, saved).nactive = saved /\ LeaveBlock(c, saved).freereg = saved
<1>1. c \in Comp
  BY DEF CompOK
<1> QED
  BY <1>1 DEF LeaveBlock, Comp

-----------------------------------------------------------------------------
(* Registers of the open functions and handlers *)

\* G is the stack after part of a statement: below the innermost function
\* locals are as they were.
Under(G) ==
    /\ FsOK(G) /\ Len(G) = Len(fs)
    /\ \A l \in DOMAIN fs : l # Len(fs) => SameRegs(fs[l], G[l])

\* A stack whose innermost function has become c.
Above(F, c) ==
    /\ Len(F) = Len(fs) /\ DOMAIN F = DOMAIN fs /\ TopOf(F) = c /\ F[Len(fs)] = c
    /\ Unwrapped(c) => Unwrapped(Top)
    /\ \A l \in DOMAIN fs : l # Len(fs) => SameRegs(fs[l], F[l])
    /\ \A l \in DOMAIN F : Straight(F[l])

\* Expressions leave all locals alone.
LEMMA KeptUnder ==
    ASSUME IInv, NEW G, FsKept(fs, G)
    PROVE  Under(G) /\ SameRegs(Top, TopOf(G)) /\ CompOK(TopOf(G))
<1>1. FsOK(fs) /\ Top = TopOf(fs)
  BY StartIs
<1>2. FsOK(G) /\ Kept(Top, TopOf(G)) /\ Len(G) = Len(fs) /\ CompOK(TopOf(G))
  BY <1>1, FsKeptTop
<1>3. \A l \in DOMAIN fs : SameRegs(fs[l], G[l])
  BY KeptSame DEF FsKept
<1> QED
  BY <1>2, <1>3, KeptSame DEF Under

\* The stack may stay as it is.
LEMMA HereUnder == ASSUME IInv PROVE Under(fs)
BY StartIs DEF Under, SameRegs

\* The innermost function may become any sound one.
LEMMA OnAbove ==
    ASSUME IInv, RegInv, NEW G, Under(G), NEW c, CompOK(c), Straight(c),
           Unwrapped(c) => Unwrapped(Top)
    PROVE  Above(On(G, c), c)
<1>1. FsType(G) /\ FsType(fs) /\ Len(G) = Len(fs)
  BY DEF Under, FsOK, IInv
<1>2. DOMAIN G = 1 .. Len(G) /\ DOMAIN fs = 1 .. Len(fs) /\ Len(fs) \in DOMAIN fs
  BY <1>1, TopIs
<1> DEFINE F == On(G, c)
<1>3. /\ Len(F) = Len(G) /\ DOMAIN F = DOMAIN G /\ TopOf(F) = c /\ F[Len(G)] = c
      /\ \A l \in DOMAIN G : l # Len(G) => F[l] = G[l]
  BY <1>1, OnIs
<1> HIDE DEF F
<1>4. \A l \in DOMAIN fs : l # Len(fs) => SameRegs(fs[l], F[l]) /\ Straight(F[l])
  <2> TAKE l \in DOMAIN fs
  <2> HAVE l # Len(fs)
  <2>1. SameRegs(fs[l], G[l]) /\ F[l] = G[l] /\ Straight(fs[l])
    BY <1>1, <1>2, <1>3 DEF Under, RegInv
  <2> QED
    BY <2>1, SameStraight
<1> QED
  BY <1>1, <1>2, <1>3, <1>4 DEF Above, F

\* Going on inside a statement.
LEMMA OnUnder ==
    ASSUME IInv, NEW G, Under(G), NEW c, CompOK(c), c.upvals = TopOf(G).upvals
    PROVE  Under(On(G, c)) /\ TopOf(On(G, c)) = c
<1>1. FsOK(G) /\ FsType(G) /\ FsType(fs) /\ Len(G) = Len(fs)
  BY DEF Under, FsOK, IInv
<1>2. DOMAIN G = 1 .. Len(G) /\ DOMAIN fs = 1 .. Len(fs)
  BY <1>1, TopIs
<1>3. FsOK(On(G, c)) /\ Len(On(G, c)) = Len(G) /\ TopOf(On(G, c)) = c
  BY <1>1, OnOK
<1>4. \A l \in DOMAIN G : l # Len(G) => On(G, c)[l] = G[l]
  BY <1>1, OnIs
<1> QED
  BY <1>1, <1>2, <1>3, <1>4 DEF Under

\* What follows after an expression.
LEMMA UnderKept ==
    ASSUME IInv, NEW G, Under(G), NEW H, FsKept(G, H)
    PROVE  Under(H) /\ SameRegs(TopOf(G), TopOf(H)) /\ CompOK(TopOf(H))
<1>1. FsOK(G) /\ FsType(G) /\ FsType(fs) /\ Len(G) = Len(fs)
  BY DEF Under, FsOK, IInv
<1>2. DOMAIN G = 1 .. Len(G) /\ DOMAIN fs = 1 .. Len(fs)
  BY <1>1, TopIs
<1>3. FsOK(H) /\ Kept(TopOf(G), TopOf(H)) /\ Len(H) = Len(G) /\ CompOK(TopOf(H))
  BY <1>1, FsKeptTop
<1>4. \A l \in DOMAIN G : SameRegs(G[l], H[l])
  BY KeptSame DEF FsKept
<1> QED
  BY <1>1, <1>2, <1>3, <1>4, KeptSame, SameTrans DEF Under

\* The frames of the functions, and what they hold.
LEMMA FramesAre ==
    ASSUME IInv
    PROVE  /\ Len(ctl) \in Nat \ {0} /\ DOMAIN ctl = 1 .. Len(ctl) /\ ctl \in Seq(FrameT) /\ ctl # <<>>
           /\ \A n \in DOMAIN ctl : /\ ctl[n] \in FrameT /\ ctl[n].comp \in DOMAIN fs
                                    /\ ctl[n].saved \in Nat /\ ctl[n].base \in Nat
           /\ Open = ctl[Len(ctl)] /\ Open.comp = Len(fs)
           /\ Len(fs) \in Nat \ {0} /\ DOMAIN fs = 1 .. Len(fs) /\ Len(fs) \in DOMAIN fs
           /\ Top = fs[Len(fs)] /\ Top.nactive \in Nat
           /\ \A l \in DOMAIN fs : fs[l].nactive \in Nat
<1>1. CtlOK(ctl, fs) /\ FsOK(fs) /\ FsType(fs)
  BY DEF IInv, FsOK
<1>2. /\ Len(fs) \in Nat \ {0} /\ DOMAIN fs = 1 .. Len(fs) /\ Len(fs) \in DOMAIN fs
      /\ \A l \in DOMAIN fs : fs[l].nactive \in Nat
  BY <1>1, TopIs, RegInt DEF FsType
<1>3. Len(ctl) \in Nat \ {0} /\ DOMAIN ctl = 1 .. Len(ctl)
  BY <1>1, OpenIs
<1>4. \A n \in DOMAIN ctl : /\ ctl[n] \in FrameT /\ ctl[n].comp \in DOMAIN fs
                            /\ ctl[n].saved \in Nat /\ ctl[n].base \in Nat
  <2> TAKE n \in DOMAIN ctl
  <2>1. ctl[n] \in FrameT /\ FrameFits(ctl, fs, n)
    BY <1>1 DEF CtlOK
  <2>2. ctl[n].saved \in Reg /\ ctl[n].base \in Reg
    BY <2>1 DEF FrameT
  <2> QED
    BY <2>1, <2>2, RegMod DEF FrameFits
<1> QED
  BY <1>1, <1>2, <1>3, <1>4 DEF CtlOK, Open, Top

\* A count that has not wrapped yet had not wrapped before.
LEMMA AboveUnwrapped ==
    ASSUME IInv, NEW F, NEW c, Above(F, c), NEW l \in DOMAIN fs, Unwrapped(F[l])
    PROVE  Unwrapped(fs[l])
<1>1. CASE l = Len(fs)
  BY <1>1, FramesAre DEF Above
<1>2. CASE l # Len(fs)
  BY <1>2, SameUnwrapped DEF Above
<1> QED
  BY <1>1, <1>2

\* The order of the open blocks stays, whatever the innermost function becomes.
LEMMA NestedOrder ==
    ASSUME IInv, Nested(ctl, fs), NEW F, NEW c, Above(F, c),
           \A n \in DOMAIN ctl : Unwrapped(F[ctl[n].comp]) => ctl[n].saved <= F[ctl[n].comp].nactive
    PROVE  Nested(ctl, F)
<1>1. \A n \in DOMAIN ctl : Unwrapped(F[ctl[n].comp]) => Unwrapped(fs[ctl[n].comp])
  BY FramesAre, AboveUnwrapped
<1> QED
  BY <1>1 DEF Nested

\* More locals in the innermost function.
LEMMA NestedMore ==
    ASSUME IInv, Nested(ctl, fs), NEW F, NEW c, Above(F, c), c.nactive \in Nat,
           Unwrapped(c) => Top.nactive <= c.nactive
    PROVE  Nested(ctl, F)
<1>1. \A n \in DOMAIN ctl : Unwrapped(F[ctl[n].comp]) => ctl[n].saved <= F[ctl[n].comp].nactive
  <2> TAKE n \in DOMAIN ctl
  <2> HAVE Unwrapped(F[ctl[n].comp])
  <2>1. ctl[n].comp \in DOMAIN fs /\ ctl[n].saved <= fs[ctl[n].comp].nactive /\ ctl[n].saved \in Nat
    BY FramesAre, AboveUnwrapped DEF Nested
  <2>2. CASE ctl[n].comp = Len(fs)
    BY <2>1, <2>2, FramesAre DEF Above
  <2>3. CASE ctl[n].comp # Len(fs)
    BY <2>1, <2>3 DEF Above, SameRegs
  <2> QED
    BY <2>2, <2>3
<1> QED
  BY <1>1, NestedOrder

\* A handler is opened after the locals of its statement.
LEMMA NestedPush ==
    ASSUME IInv, Nested(ctl, fs), NEW F, NEW c, Above(F, c), c.nactive \in Nat,
           Unwrapped(c) => Top.nactive <= c.nactive,
           NEW f \in FrameT, f.comp = Len(fs), f.saved = c.nactive,
           Unwrapped(c) /\ f.k = "forin" => f.base + 4 <= f.saved /\ Top.nactive <= f.base
    PROVE  Nested(Append(ctl, f), F)
<1> DEFINE K == Append(ctl, f)
<1>1. /\ DOMAIN K = 1 .. Len(ctl) + 1 /\ \A i \in 1 .. Len(ctl) : K[i] = ctl[i]
      /\ K[Len(ctl) + 1] = f
  BY FramesAre, AppendIs
<1> HIDE DEF K
<1>2. Nested(ctl, F)
  BY NestedMore
<1>3. F[Len(fs)] = c
  BY DEF Above
<1>4. \A i \in DOMAIN ctl : ctl[i].comp = Len(fs) /\ Unwrapped(c) => ctl[i].saved <= Top.nactive
  BY FramesAre DEF Nested, Above
<1>5. f.saved \in Nat /\ f.base \in Nat
  BY RegMod DEF FrameT
<1>6. \A i \in DOMAIN ctl : ctl[i].comp = f.comp /\ Unwrapped(c) =>
          ctl[i].saved <= f.saved /\ (f.k = "forin" => ctl[i].saved <= f.base)
  BY <1>4, <1>5, FramesAre, SMTT(30)
<1>7. \A n \in DOMAIN K : Unwrapped(F[K[n].comp]) =>
          /\ K[n].saved <= F[K[n].comp].nactive
          /\ K[n].k = "forin" => K[n].base + 4 <= K[n].saved
  <2> TAKE n \in DOMAIN K
  <2>1. CASE n \in DOMAIN ctl
    BY <1>1, <1>2, <2>1, FramesAre DEF Nested
  <2>2. CASE n = Len(ctl) + 1
    BY <1>1, <1>3, <1>5, <2>2
  <2> QED
    BY <1>1, <2>1, <2>2, FramesAre
<1>8. \A i, j \in DOMAIN K : i < j /\ K[i].comp = K[j].comp /\ Unwrapped(F[K[i].comp]) =>
          /\ K[i].saved <= K[j].saved
          /\ K[j].k = "forin" => K[i].saved <= K[j].base
  <2> TAKE i, j \in DOMAIN K
  <2> HAVE i < j /\ K[i].comp = K[j].comp /\ Unwrapped(F[K[i].comp])
  <2>1. i \in DOMAIN ctl /\ K[i] = ctl[i]
    BY <1>1, FramesAre
  <2>2. CASE j \in DOMAIN ctl
    BY <1>1, <1>2, <2>1, <2>2, FramesAre DEF Nested
  <2>3. CASE j = Len(ctl) + 1
    BY <1>1, <1>3, <1>6, <2>1, <2>3
  <2> QED
    BY <1>1, <2>2, <2>3, FramesAre
<1> QED
  BY <1>7, <1>8 DEF Nested, K

\* A handler is closed, and its block's locals go.
LEMMA NestedPop ==
    ASSUME IInv, Nested(ctl, fs), NEW F, NEW c, Above(F, c), c.nactive \in Nat,
           c.nactive = Open.saved \/ (Open.k = "forin" /\ c.nactive = Open.base)
    PROVE  Nested(Front(ctl), F)
<1> DEFINE K == Front(ctl)
           m == Len(ctl)
<1>1. /\ DOMAIN K = 1 .. m - 1 /\ \A i \in 1 .. m - 1 : K[i] = ctl[i]
  BY FramesAre, FrontIs
<1>2. Open = ctl[m] /\ Open.comp = Len(fs) /\ m \in Nat \ {0} /\ DOMAIN ctl = 1 .. m
  BY FramesAre
<1> HIDE DEF K, m
<1>3. \A n \in DOMAIN K : n \in DOMAIN ctl /\ n < m /\ K[n] = ctl[n]
  BY <1>1, <1>2
<1>u. \A n \in DOMAIN K : Unwrapped(F[K[n].comp]) => Unwrapped(fs[K[n].comp])
  BY <1>3, FramesAre, AboveUnwrapped
<1>4. \A n \in DOMAIN K : Unwrapped(F[K[n].comp]) => K[n].saved <= F[K[n].comp].nactive
  <2> TAKE n \in DOMAIN K
  <2> HAVE Unwrapped(F[K[n].comp])
  <2>1. /\ n \in DOMAIN ctl /\ n < m /\ K[n] = ctl[n] /\ m \in DOMAIN ctl
        /\ ctl[n].comp \in DOMAIN fs /\ Unwrapped(fs[ctl[n].comp])
        /\ ctl[n].saved <= fs[ctl[n].comp].nactive
    BY <1>2, <1>3, <1>u, FramesAre DEF Nested
  <2>2. CASE ctl[n].comp = Len(fs)
    <3>1. /\ ctl[n].saved <= ctl[m].saved
          /\ ctl[m].k = "forin" => ctl[n].saved <= ctl[m].base
      BY <1>2, <2>1, <2>2 DEF Nested
    <3> QED
      BY <1>2, <2>1, <2>2, <3>1 DEF Above
  <2>3. CASE ctl[n].comp # Len(fs)
    BY <2>1, <2>3 DEF Above, SameRegs
  <2> QED
    BY <2>2, <2>3
<1>5. \A n \in DOMAIN K : Unwrapped(F[K[n].comp]) /\ K[n].k = "forin" => K[n].base + 4 <= K[n].saved
  BY <1>3, <1>u DEF Nested
<1>6. \A i, j \in DOMAIN K : i < j /\ K[i].comp = K[j].comp /\ Unwrapped(F[K[i].comp]) =>
          /\ K[i].saved <= K[j].saved
          /\ K[j].k = "forin" => K[i].saved <= K[j].base
  BY <1>3, <1>u DEF Nested
<1> QED
  BY <1>4, <1>5, <1>6 DEF Nested, K

\* The stack as a part of a statement leaves it.
LEMMA UnderAbove ==
    ASSUME IInv, RegInv, NEW G, Under(G), Straight(TopOf(G)),
           Unwrapped(TopOf(G)) => Unwrapped(Top)
    PROVE  Above(G, TopOf(G))
<1>1. FsType(G) /\ FsType(fs) /\ Len(G) = Len(fs)
  BY DEF Under, FsOK, IInv
<1>2. /\ DOMAIN G = 1 .. Len(G) /\ DOMAIN fs = 1 .. Len(fs) /\ Len(fs) \in DOMAIN fs
      /\ TopOf(G) = G[Len(G)]
  BY <1>1, TopIs
<1>3. \A l \in DOMAIN fs : l # Len(fs) => SameRegs(fs[l], G[l]) /\ Straight(G[l])
  <2> TAKE l \in DOMAIN fs
  <2> HAVE l # Len(fs)
  <2>1. SameRegs(fs[l], G[l]) /\ Straight(fs[l])
    BY <1>1, <1>2 DEF Under, RegInv
  <2> QED
    BY <2>1, SameStraight
<1> QED
  BY <1>1, <1>2, <1>3 DEF Above

\* The invariant of the next state from its stacks.
LEMMA RegsNext ==
    ASSUME NEW F, NEW K, NEW c, Above(F, c), c.freereg = c.nactive,
           Nested(K, F), NoneNumeric(K), fs' = F, ctl' = K
    PROVE  RegInv'
<1>1. (\A l \in DOMAIN fs : Straight(fs[l]))'
  BY DEF Above, Straight
<1>2. (Top.freereg = Top.nactive)'
  BY DEF Above, Top, TopOf
<1>3. Nested(ctl, fs)'
  BY DEF Nested, Unwrapped
<1>4. NoneNumeric(ctl)'
  BY DEF NoneNumeric
<1> QED
  BY <1>1, <1>2, <1>3, <1>4 DEF RegInv

\* Nothing happens to functions and handlers.
LEMMA StillRegs == ASSUME RegInv, UNCHANGED <<fs, ctl>> PROVE RegInv'
<1>1. (\A l \in DOMAIN fs : Straight(fs[l]))'
  BY DEF RegInv, Straight
<1>2. (Top.freereg = Top.nactive)'
  BY DEF RegInv, Top
<1>3. Nested(ctl, fs)'
  BY DEF RegInv, Nested, Unwrapped
<1>4. NoneNumeric(ctl)'
  BY DEF RegInv, NoneNumeric
<1> QED
  BY <1>1, <1>2, <1>3, <1>4 DEF RegInv

LEMMA RefuseRegs == ASSUME RegInv, Refuse PROVE RegInv'
BY StillRegs DEF Refuse

LEMMA WildRegs == ASSUME RegInv, GoWild PROVE RegInv'
BY StillRegs DEF GoWild

\* A function has more locals, each in its place.
MoreLocals(c) ==
    /\ CompOK(c) /\ Straight(c)
    /\ Unwrapped(c) => Unwrapped(Top) /\ Top.nactive <= c.nactive

\* The locals may be as they were.
LEMMA SameMore ==
    ASSUME IInv, RegInv, NEW c, CompOK(c), SameRegs(Top, c)
    PROVE  MoreLocals(c)
<1>1. Straight(Top) /\ Top.nactive \in Nat
  BY FramesAre DEF RegInv
<1> QED
  BY <1>1, SameStraight, SameUnwrapped DEF MoreLocals, SameRegs

LEMMA MoreSame ==
    ASSUME NEW c, MoreLocals(c), NEW d, CompOK(d), SameRegs(c, d)
    PROVE  MoreLocals(d)
BY SameStraight, SameUnwrapped DEF MoreLocals, SameRegs

\* The kinds of the open handlers.
LEMMA NonePush ==
    ASSUME IInv, NoneNumeric(ctl), NEW f \in FrameT, f.k # "fornum"
    PROVE  NoneNumeric(Append(ctl, f))
<1> DEFINE K == Append(ctl, f)
<1>1. /\ DOMAIN K = 1 .. Len(ctl) + 1 /\ \A i \in 1 .. Len(ctl) : K[i] = ctl[i]
      /\ K[Len(ctl) + 1] = f
  BY FramesAre, AppendIs
<1> HIDE DEF K
<1> QED
  BY <1>1, FramesAre DEF NoneNumeric, K

LEMMA NonePop == ASSUME IInv, NoneNumeric(ctl) PROVE NoneNumeric(Front(ctl))
<1> DEFINE K == Front(ctl)
<1>1. DOMAIN K = 1 .. Len(ctl) - 1 /\ \A i \in 1 .. Len(ctl) - 1 : K[i] = ctl[i]
  BY FramesAre, FrontIs
<1> HIDE DEF K
<1>2. \A n \in DOMAIN K : n \in DOMAIN ctl /\ K[n] = ctl[n]
  BY <1>1, FramesAre
<1> QED
  BY <1>2 DEF NoneNumeric, K

\* A statement without a block.
LEMMA SimpleRegs ==
    ASSUME IInv, RegInv, NEW G, Under(G), MoreLocals(TopOf(G)), Simple(G)
    PROVE  RegInv'
<1> DEFINE c == TopOf(G)
           d == EndStat(c)
           F == On(G, d)
<1>1. /\ CompOK(d) /\ SameRegs(c, d) /\ d.freereg = c.nactive /\ d.nactive = c.nactive
  BY EndRests DEF MoreLocals, SameRegs
<1>2. MoreLocals(d) /\ d.nactive \in Nat
  BY <1>1, MoreSame, RegInt
<1>3. fs' = F /\ ctl' = ctl
  BY DEF Simple
<1> HIDE DEF c, d
<1>4. Above(F, d)
  BY <1>1, <1>2, OnAbove DEF MoreLocals
<1> HIDE DEF F
<1>5. Nested(ctl, F)
  BY <1>2, <1>4, NestedMore DEF RegInv, MoreLocals
<1> QED
  BY <1>1, <1>3, <1>4, <1>5, RegsNext DEF RegInv

\* A statement that opens a block.
LEMMA EnterRegs ==
    ASSUME IInv, RegInv, NEW G, Under(G), MoreLocals(TopOf(G)), TopOf(G).freereg = TopOf(G).nactive,
           NEW f \in FrameT, f.k # "fornum", f.comp = Len(fs), f.saved = TopOf(G).nactive,
           Unwrapped(TopOf(G)) /\ f.k = "forin" => f.base + 4 <= f.saved /\ Top.nactive <= f.base,
           Enter(G, f)
    PROVE  RegInv'
<1> DEFINE c == TopOf(G)
<1>1. Above(G, c)
  BY UnderAbove DEF MoreLocals
<1>2. fs' = G /\ ctl' = Append(ctl, f)
  BY DEF Enter
<1>3. c.nactive \in Nat /\ (Unwrapped(c) => Top.nactive <= c.nactive)
  BY RegInt DEF MoreLocals
<1> HIDE DEF c
<1>4. Nested(Append(ctl, f), G)
  BY <1>1, <1>3, NestedPush DEF RegInv, c
<1>5. NoneNumeric(Append(ctl, f))
  BY NonePush DEF RegInv
<1> QED
  BY <1>1, <1>2, <1>4, <1>5, RegsNext DEF c

\* A block has been left.
BlockLeft(c) ==
    /\ CompOK(c) /\ Straight(c)
    /\ Unwrapped(c) => Unwrapped(Top)
    /\ c.nactive = Open.saved \/ (Open.k = "forin" /\ c.nactive = Open.base)

\* A handler finishes.
LEMMA PopRegs ==
    ASSUME IInv, RegInv, NEW G, Under(G), NEW c, BlockLeft(c), c.freereg = c.nactive,
           fs' = On(G, c), ctl' = Front(ctl)
    PROVE  RegInv'
<1> DEFINE F == On(G, c)
<1>1. Above(F, c) /\ c.nactive \in Nat
  BY OnAbove, RegInt DEF BlockLeft
<1> HIDE DEF F
<1>2. Nested(Front(ctl), F)
  BY <1>1, NestedPop DEF RegInv, BlockLeft
<1>3. NoneNumeric(Front(ctl))
  BY NonePop DEF RegInv
<1> QED
  BY <1>1, <1>2, <1>3, RegsNext DEF F

LEMMA LeaveRegs ==
    ASSUME IInv, RegInv, NEW c, BlockLeft(c), Leave(c)
    PROVE  RegInv'
<1> DEFINE d == EndStat(c)
<1>1. CompOK(d) /\ SameRegs(c, d) /\ d.freereg = c.nactive /\ d.nactive = c.nactive
  BY EndRests DEF BlockLeft, SameRegs
<1>2. fs' = On(fs, d) /\ ctl' = Front(ctl)
  BY DEF Leave
<1> HIDE DEF d
<1>3. BlockLeft(d)
  BY <1>1, SameStraight, SameUnwrapped DEF BlockLeft
<1> QED
  BY <1>1, <1>2, <1>3, HereUnder, PopRegs

\* The innermost function has the locals of the open block again.
LEMMA NestedSame ==
    ASSUME IInv, Nested(ctl, fs), NEW F, NEW c, Above(F, c), c.nactive = Open.saved
    PROVE  Nested(ctl, F)
<1>1. \A n \in DOMAIN ctl : Unwrapped(F[ctl[n].comp]) => ctl[n].saved <= F[ctl[n].comp].nactive
  <2> TAKE n \in DOMAIN ctl
  <2> HAVE Unwrapped(F[ctl[n].comp])
  <2>0. ctl[n].comp \in DOMAIN fs /\ Unwrapped(fs[ctl[n].comp])
    BY FramesAre, AboveUnwrapped
  <2>1. /\ ctl[n].comp \in DOMAIN fs /\ ctl[n].saved <= fs[ctl[n].comp].nactive /\ ctl[n].saved \in Nat
        /\ Len(ctl) \in DOMAIN ctl /\ n <= Len(ctl)
    BY <2>0, FramesAre DEF Nested
  <2>2. CASE ctl[n].comp = Len(fs)
    <3>1. n = Len(ctl) \/ ctl[n].saved <= Open.saved
      <4>1. Len(ctl) \in Nat /\ n \in Nat /\ Open = ctl[Len(ctl)] /\ Open.comp = Len(fs)
        BY FramesAre
      <4>2. n < Len(ctl) => ctl[n].saved <= ctl[Len(ctl)].saved
        BY <2>0, <2>1, <2>2, <4>1 DEF Nested
      <4> QED
        BY <2>1, <4>1, <4>2
    <3>2. ctl[n].saved <= c.nactive
      BY <2>1, <3>1, FramesAre
    <3> QED
      BY <2>2, <3>2, FramesAre DEF Above
  <2>3. CASE ctl[n].comp # Len(fs)
    BY <2>1, <2>3 DEF Above, SameRegs
  <2> QED
    BY <2>2, <2>3
<1> QED
  BY <1>1, NestedOrder

\* A handler goes on with a frame of the same block.
LEMMA SwapRegs ==
    ASSUME IInv, RegInv, NEW G, Under(G), CompOK(TopOf(G)), Straight(TopOf(G)),
           TopOf(G).freereg = TopOf(G).nactive,
           Unwrapped(TopOf(G)) => Unwrapped(Top),
           Top.nactive <= TopOf(G).nactive \/ TopOf(G).nactive = Open.saved,
           NEW h, h.comp = Open.comp, h.saved = Open.saved, h.base = Open.base,
           h.k = Open.k \/ (h.k = "else" /\ Open.k = "if"),
           fs' = G, ctl' = [ctl EXCEPT ![Len(ctl)] = h]
    PROVE  RegInv'
<1> DEFINE c == TopOf(G)
           K == [ctl EXCEPT ![Len(ctl)] = h]
<1>1. Above(G, c)
  BY UnderAbove
<1>2. c.nactive \in Nat
  BY RegInt
<1>c. Top.nactive <= c.nactive \/ c.nactive = Open.saved
  OBVIOUS
<1> HIDE DEF c
<1>3. /\ DOMAIN K = DOMAIN ctl
      /\ \A n \in DOMAIN K : /\ K[n].comp = ctl[n].comp /\ K[n].saved = ctl[n].saved
                             /\ K[n].base = ctl[n].base
                             /\ K[n].k = ctl[n].k \/ (K[n].k = "else" /\ ctl[n].k = "if")
  BY FramesAre
<1> HIDE DEF K
<1>4. Nested(K, G)
  <2>1. Nested(ctl, G)
    BY <1>1, <1>2, <1>c, NestedMore, NestedSame DEF RegInv
  <2> QED
    BY <1>3, <2>1 DEF Nested
<1>5. NoneNumeric(K)
  BY <1>3 DEF RegInv, NoneNumeric
<1> QED
  BY <1>1, <1>4, <1>5, RegsNext DEF c, K

-----------------------------------------------------------------------------
(* What the parts of a handler do to registers *)

\* c has become d, with the same locals and the same first free register.
Steady(c, d) == CompOK(d) /\ SameRegs(c, d) /\ d.freereg = c.freereg

LEMMA SteadyTrans ==
    ASSUME NEW c, NEW d, NEW e, Steady(c, d), Steady(d, e)
    PROVE  Steady(c, e)
BY SameTrans DEF Steady

LEMMA EmitSteady ==
    ASSUME NEW c, CompOK(c), NEW i \in Instrs
    PROVE  Steady(c, Emit(c, i)) /\ Emit(c, i).upvals = c.upvals
BY EmitIs DEF Steady, SameRegs

LEMMA PatchSteady ==
    ASSUME NEW c, CompOK(c), NEW pcs, NEW target \in Int
    PROVE  Steady(c, PatchAll(c, pcs, target)) /\ PatchAll(c, pcs, target).upvals = c.upvals
<1> DEFINE d == PatchAll(c, pcs, target)
<1>1. Moved(c, d) /\ d.locals = c.locals /\ d.nactive = c.nactive
  BY PatchIs
<1>2. d.freereg = c.freereg
  <2>1. c \in Comp
    BY DEF CompOK
  <2> QED
    BY <2>1 DEF PatchAll, Comp
<1> QED
  BY <1>1, <1>2 DEF Moved, Steady, SameRegs

LEMMA LandsSteady ==
    ASSUME NEW c, CompOK(c), NEW pcs \in SUBSET Int
    PROVE  Steady(c, Lands(c, pcs)) /\ Lands(c, pcs).upvals = c.upvals
<1> DEFINE d == Lands(c, pcs)
<1>1. Moved(c, d) /\ d.locals = c.locals /\ d.nactive = c.nactive
  BY LandsIs
<1>2. d.freereg = c.freereg
  <2>1. c \in Comp
    BY DEF CompOK
  <2> QED
    BY <2>1 DEF Lands, Comp
<1> QED
  BY <1>1, <1>2 DEF Moved, Steady, SameRegs

\* A loop is closed.
LEMMA CloseSame ==
    ASSUME IInv, NEW G, FsMoved(fs, G), NEW c, Moved(TopOf(G), c)
    PROVE  CompOK(CloseLoop(c, Open)) /\ SameRegs(c, CloseLoop(c, Open))
<1> DEFINE pcs  == ToSet(OwnBreaks(c, Open))
           d    == PatchAll(c, pcs, FuncLen(c))
           ends == Owed(c) \cup Real(Open.jf)
           g    == Lands(d, ends)
           b    == OuterBreaks(c, Open)
           o    == {x \in g.owed : x.loop # Len(ctl)}
           r    == CloseLoop(c, Open)
<1>0. CompOK(c) /\ FuncLen(c) \in Int /\ Ended(G, r)
  BY RegInt, CloseLoopEnded DEF Moved
<1>1. ends \in SUBSET Int
  <2>1. c.owed \in SUBSET [pc : Int, loop : Int] /\ Open.jf \in Int
    BY <1>0, OpenFrame DEF CompOK, Comp
  <2> QED
    BY <2>1 DEF Owed, Real
<1>2. r = [g EXCEPT !.breaks = b, !.in_loop = (@ - 1) % U8, !.owed = o]
  BY DEF CloseLoop
<1> HIDE DEF pcs, ends, r, b, o
<1>3. Steady(c, d) /\ CompOK(d)
  BY <1>0, PatchSteady DEF Steady
<1> HIDE DEF d
<1>4. Steady(d, g) /\ g \in Comp
  BY <1>1, <1>3, LandsSteady DEF Steady, CompOK
<1> HIDE DEF g
<1>5. SameRegs(g, r)
  BY <1>2, <1>4 DEF SameRegs, Comp
<1>6. SameRegs(c, r)
  BY <1>3, <1>4, <1>5, SameTrans DEF Steady
<1> QED
  BY <1>0, <1>6 DEF Ended, r

\* An expression, a test and a jump leave the registers above the locals free.
LEMMA CondRests ==
    ASSUME NEW F, FsOK(F), NEW e \in Values, TopOf(F).freereg = TopOf(F).nactive
    PROVE  TopOf(Cond(F, e)).freereg = TopOf(Cond(F, e)).nactive
<1> DEFINE c == TopOf(F)
<1>0. CompOK(c) /\ c \in Comp /\ FsType(F)
  BY TopIs DEF FsOK, CompOK
<1>1. CASE ExpFails(F, e)
  <2> DEFINE G == IF e = Call THEN F ELSE AsGlobal(F, e)
             g == TopOf(G)
             n == NoteFailure(g, "test")
  <2>1. heap = "full" \/ "test" \in Unnoticed
    BY <1>1 DEF ExpFails, NoConst, Unnoticed
  <2>2. FsType(G) /\ CompOK(g) /\ g.freereg = c.freereg /\ g.nactive = c.nactive
    <3>1. CASE e = Call
      BY <1>0, <3>1
    <3>2. CASE e # Call
      <4>1. e \in Names /\ IsGlobal(F, e)
        BY <1>1, <3>2 DEF ExpFails, NeedsConst
      <4>2. FsKept(F, AsGlobal(F, e)) /\ TopOf(AsGlobal(F, e)).freereg = c.freereg
        BY <4>1, AsGlobalKept, AsGlobalFree
      <4> QED
        BY <3>2, <4>2, FsKeptTop DEF FsOK, Kept
    <3> QED
      BY <3>1, <3>2
  <2>3. Cond(F, e) = On(G, n)
    BY <1>1 DEF Cond
  <2> HIDE DEF G, g, n, c
  <2>4. CompOK(n) /\ n.freereg = g.freereg /\ n.nactive = g.nactive
    <3>1. Added(g, n)
      BY <2>1, <2>2, NoteAdded DEF Losses, n
    <3>2. n.freereg = g.freereg /\ n.nactive = g.nactive
      BY <2>2 DEF NoteFailure, CompOK, Comp, n
    <3> QED
      BY <3>1, <3>2 DEF Added, Kept
  <2>5. TopOf(Cond(F, e)) = n
    BY <2>2, <2>3, <2>4, OnIs
  <2> QED
    BY <2>2, <2>4, <2>5 DEF c
<1>2. CASE ~ ExpFails(F, e)
  <2> DEFINE G  == Exp(F, e, 1)
             i  == Instr("TEST", c.freereg, 0, 0)
             d1 == Emit(TopOf(G), i)
             d2 == SetFree(d1, d1.nactive)
             d3 == Emit(d2, Jump(0))
  <2>1. FsKept(F, G) /\ FsOK(G) /\ FsType(G) /\ CompOK(TopOf(G))
    BY ExpKept, FsKeptTop DEF FsOK
  <2>2. i \in Instrs /\ Jump(0) \in Instrs
    BY <1>0, RegInt, PlainInstr, PlainJump DEF PlainOps, Plains
  <2>3. Cond(F, e) = On(G, d3)
    BY <1>2 DEF Cond
  <2> HIDE DEF i, G
  <2>4. CompOK(d1)
    BY <2>1, <2>2, EmitIs
  <2> HIDE DEF d1
  <2>5. d2.freereg = d2.nactive /\ CompOK(d2)
    BY <2>4, EndRests DEF EndStat, SameRegs
  <2> HIDE DEF d2
  <2>6. CompOK(d3) /\ d3.freereg = d3.nactive
    BY <2>2, <2>5, EmitIs
  <2> HIDE DEF d3
  <2>7. TopOf(On(G, d3)) = d3
    BY <2>1, <2>6, OnIs
  <2> QED
    BY <2>3, <2>6, <2>7
<1> QED
  BY <1>1, <1>2

\* A statement that only changes the innermost function, and not its locals.
LEMMA StatRegs ==
    ASSUME IInv, RegInv, NEW c, CompOK(c), c.upvals = Top.upvals, SameRegs(Top, c), Simple(On(fs, c))
    PROVE  RegInv'
<1>1. Under(On(fs, c)) /\ TopOf(On(fs, c)) = c
  BY HereUnder, OnUnder, StartIs
<1>2. MoreLocals(c)
  BY SameMore
<1> QED
  BY <1>1, <1>2, SimpleRegs

\* A statement made of expressions only.
LEMMA ExpsRegs ==
    ASSUME IInv, RegInv, NEW G, FsKept(fs, G), Simple(G)
    PROVE  RegInv'
<1>1. Under(G) /\ SameRegs(Top, TopOf(G)) /\ CompOK(TopOf(G))
  BY KeptUnder
<1> QED
  BY <1>1, SameMore, SimpleRegs

-----------------------------------------------------------------------------
(* Registers through every statement *)

LEMMA CallRegs == ASSUME IInv, RegInv, CallStat PROVE RegInv'
<1>1. Call \in Values /\ FsOK(fs)
  BY StartIs DEF Values
<1>2. FsKept(fs, Exp(fs, Call, 0))
  BY <1>1, ExpKept
<1> QED
  BY <1>2, RefuseRegs, ExpsRegs DEF CallStat

LEMMA AssignRegs ==
    ASSUME IInv, RegInv, NEW targets \in NameLists, NEW es \in ExpLists, AssignStat(targets, es)
    PROVE  RegInv'
<1> DEFINE c    == Top
           base == c.freereg
           n    == Len(targets)
           p    == Produced(es, n)
           F    == Exps(fs, es, WantLast(es, n))
           l    == LoadNil(TopOf(F), base + p, n - p)
           d    == SetFree(l, base + n)
           G    == On(F, d)
           H    == AssignSteps(G, targets, base)[n]
<1>1. targets \in Seq(Names) /\ es \in Seq(Values) /\ n \in Nat /\ p \in Int /\ WantLast(es, n) \in Int
  <2>1. targets \in Seq(Names) /\ es \in Seq(Values)
    BY ScriptAssumption
  <2> QED
    BY <2>1, CountsInt
<1>2. FsOK(fs) /\ base \in Int
  BY StartIs
<1>3. FsKept(fs, F) /\ FsOK(F) /\ CompOK(TopOf(F))
  BY <1>1, <1>2, ExpsKept, FsKeptTop
<1>4. Refuse \/ Simple(H)
  BY DEF AssignStat
<1>n. n = Len(targets)
  OBVIOUS
<1> HIDE DEF c, base, n, p, F
<1>5. Added(TopOf(F), l) /\ CompOK(l)
  <2>1. base + p \in Int /\ n - p \in Int
    BY <1>1, <1>2
  <2>2. Added(TopOf(F), l)
    BY <1>3, <2>1, LoadNilAdded
  <2> QED
    BY <2>2 DEF Added, Kept
<1> HIDE DEF l
<1>6. Added(l, d)
  BY <1>1, <1>2, <1>5, FreeAdded
<1> HIDE DEF d
<1>7. FsKept(F, G) /\ FsOK(G)
  BY <1>3, <1>5, <1>6, AddedTrans, OnKept DEF FsKept
<1> HIDE DEF G
<1>8. FsKept(G, H)
  BY <1>1, <1>2, <1>7, <1>n, AssignStepsKept
<1> HIDE DEF H
<1>9. FsKept(fs, H)
  BY <1>2, <1>3, <1>7, <1>8, FsKeptTrans
<1> QED
  BY <1>4, <1>9, RefuseRegs, ExpsRegs

LEMMA BreakRegs == ASSUME IInv, RegInv, BreakStat PROVE RegInv'
<1> DEFINE c       == Top
           dropped == c.in_loop = 0 \/ BreaksFull(c)
           pc      == IF dropped THEN NoJump ELSE NextPC(c)
           x       == IF pc = NoJump THEN Wild ELSE pc
           s       == Emit(c, Jump(0))
           d       == IF dropped THEN c ELSE [s EXCEPT !.breaks = Append(@, x)]
           o       == [pc |-> pc, loop |-> InnerLoop]
           e       == IF InnerLoop = 0 THEN d ELSE [d EXCEPT !.owed = @ \cup {o}]
<1>1. Simple(On(fs, e)) /\ CompOK(c) /\ pc \in Int /\ x \in Int
  <2>1. NextPC(c) \in Int
    BY StartIs, RegInt
  <2> QED
    BY <2>1, StartIs DEF BreakStat, NoJump, Wild
<1> HIDE DEF c
<1>2. CompOK(d) /\ d.upvals = c.upvals /\ SameRegs(c, d)
  <2>1. CASE dropped
    BY <1>1, <2>1 DEF SameRegs
  <2>2. CASE ~ dropped
    <3>1. /\ ~ BreaksFull(c) /\ s = Emit(c, Jump(0)) /\ d = WithBreak(s, x)
          /\ x \in Int /\ CompOK(c)
      BY <1>1, <2>2 DEF WithBreak
    <3>2. Jump(0) \in Instrs
      BY PlainJump DEF Plains
    <3> HIDE DEF s, d, x, pc, dropped
    <3>3. OneMore(c, s, x, d)
      BY <3>1, BreakListed
    <3>4. s \in Comp /\ SameRegs(c, s)
      BY <3>1, <3>2, EmitSteady DEF Steady, CompOK
    <3>5. SameRegs(s, d)
      BY <3>1, <3>4 DEF WithBreak, SameRegs, Comp
    <3> QED
      BY <3>3, <3>4, <3>5, SameTrans DEF OneMore
  <2> QED
    BY <2>1, <2>2
<1> HIDE DEF d
<1>3. CompOK(e) /\ e.upvals = c.upvals /\ SameRegs(c, e)
  <2>1. CASE InnerLoop = 0
    BY <1>2, <2>1
  <2>2. CASE InnerLoop # 0
    <3>1. o \in [pc : Int, loop : Int] /\ e = WithOwed(d, o)
      BY <1>1, <2>2, InnerLoopIs DEF WithOwed
    <3> HIDE DEF e, o
    <3>2. CompOK(e) /\ e.upvals = d.upvals
      BY <1>2, <3>1, BreakNoted
    <3>3. SameRegs(d, e)
      BY <1>2, <3>1, SMTT(30) DEF WithOwed, SameRegs, CompOK, Comp
    <3> QED
      BY <1>2, <3>2, <3>3, SameTrans
  <2> QED
    BY <2>1, <2>2
<1> HIDE DEF e
<1> QED
  BY <1>1, <1>3, StatRegs DEF c

LEMMA LabelRegs ==
    ASSUME IInv, RegInv, NEW name \in Labels, LabelStat(name)
    PROVE  RegInv'
<1> DEFINE c   == Top
           pcs == Waiting(c, name)
           d   == PatchAll(c, pcs, FuncLen(c))
           g   == WithLabel(c, d, name)
<1>1. (Refuse \/ Simple(On(fs, g))) /\ CompOK(c) /\ FuncLen(c) \in Int
  BY StartIs DEF LabelStat, WithLabel, Waiting
<1>2. Labelled(c, d, name, g)
  <2>1. d = PatchAll(c, pcs, FuncLen(c)) /\ g = WithLabel(c, d, name)
    OBVIOUS
  <2> HIDE DEF pcs, d, g
  <2> QED
    BY <1>1, <2>1, LabelIs
<1> HIDE DEF pcs, c
<1>3. SameRegs(c, d) /\ d \in Comp
  BY <1>1, PatchSteady DEF Steady, CompOK
<1> HIDE DEF d
<1>4. SameRegs(d, g)
  BY <1>3 DEF WithLabel, SameRegs, Comp
<1> HIDE DEF g
<1>5. SameRegs(c, g) /\ CompOK(g) /\ g.upvals = c.upvals
  BY <1>2, <1>3, <1>4, SameTrans DEF Labelled, Moved
<1> QED
  BY <1>1, <1>5, RefuseRegs, StatRegs, SMTT(30) DEF c

LEMMA GotoRegs ==
    ASSUME IInv, RegInv, NEW name \in Labels, GotoStat(name)
    PROVE  RegInv'
<1> DEFINE c   == Top
           pc  == NextPC(c)
           lab == FirstLabel(c, name)
           s   == Emit(c, Jump(0))
           d   == WithJump(s, name, pc)
           p   == Patch(d, pc, c.labels[lab].pc)
           g   == WithGoto(d, name, pc)
<1>1. /\ CompOK(c) /\ pc \in Int
      /\ \/ lab # 0 /\ Simple(On(fs, p))
         \/ Refuse
         \/ Simple(On(fs, g))
  <2>1. /\ \/ lab # 0 /\ Simple(On(fs, p))
           \/ Refuse
           \/ Simple(On(fs, g))
    BY DEF GotoStat, WithJump, WithGoto
  <2> QED
    BY <2>1, StartIs, RegInt
<1>2. CompOK(s) /\ SameRegs(c, s) /\ s.upvals = c.upvals
  BY <1>1, PlainJump, EmitSteady DEF Plains, Steady
<1>3. lab # 0 => c.labels[lab].pc \in Int
  BY <1>1, FirstLabelIs DEF Label
<1>a. d = WithJump(s, name, pc) /\ g = WithGoto(d, name, pc)
  OBVIOUS
<1> HIDE DEF s, d, lab, c, g, pc
<1>4. CompOK(d) /\ SameRegs(s, d) /\ d.upvals = s.upvals
  <2>1. Jumped(s, name, pc, d)
    BY <1>1, <1>2, <1>a, JumpIs
  <2>2. SameRegs(s, d)
    BY <1>2, <1>a DEF WithJump, SameRegs, CompOK, Comp
  <2> QED
    BY <2>1, <2>2 DEF Jumped, Moved
<1>5. CompOK(g) /\ SameRegs(d, g) /\ g.upvals = d.upvals
  <2>1. Waits(d, name, pc, g)
    BY <1>1, <1>4, <1>a, WaitIs
  <2>2. SameRegs(d, g)
    BY <1>4, <1>a DEF WithGoto, SameRegs, CompOK, Comp
  <2> QED
    BY <2>1, <2>2 DEF Waits, Moved
<1>6. ASSUME lab # 0 PROVE CompOK(p) /\ SameRegs(d, p) /\ p.upvals = d.upvals
  BY <1>3, <1>4, <1>6, PatchSteady DEF Patch, Steady
<1> HIDE DEF p
<1>7. CASE lab # 0 /\ Simple(On(fs, p))
  BY <1>2, <1>4, <1>6, <1>7, SameTrans, StatRegs DEF c
<1>8. CASE Simple(On(fs, g))
  BY <1>2, <1>4, <1>5, <1>8, SameTrans, StatRegs DEF c
<1> QED
  BY <1>1, <1>7, <1>8, RefuseRegs

\* An attribute does not move the local that has it.
LEMMA AttribsStraight ==
    ASSUME NEW c, CompOK(c), Straight(c), NEW attrib \in Attrs, attrib = "none" \/ c.nactive # 0
    PROVE  Straight(Attribs(c, attrib)) /\ Attribs(c, attrib).nactive = c.nactive
<1>1. CASE attrib = "none"
  BY <1>1 DEF Attribs
<1>2. CASE attrib # "none"
  <2> DEFINE n      == c.nactive
             locals == [c.locals EXCEPT ![n].attrib = attrib]
             d      == [c EXCEPT !.locals[n].attrib = attrib]
             i      == Instr("TBC", d.locals[d.nactive].reg, 0, 0)
             e      == Emit(d, i)
             g      == [e EXCEPT !.has_tbc = TRUE]
  <2>1. /\ c \in Comp /\ n \in DOMAIN c.locals /\ c.locals \in Seq(LocalVar) /\ c.locals[n] \in LocalVar
        /\ \A j \in DOMAIN c.locals : c.locals[j].reg = j - 1
    <3>1. c \in Comp /\ c.locals \in Seq(LocalVar) /\ n \in Nat /\ n <= Len(c.locals)
      BY RegInt DEF CompOK, Comp
    <3> QED
      BY <1>2, <3>1 DEF Straight
  <2>2. \A j \in DOMAIN locals : locals[j].reg = j - 1
    <3>1. [c.locals[n] EXCEPT !.attrib = attrib].reg = c.locals[n].reg
      BY <2>1 DEF LocalVar
    <3> QED
      BY <2>1, <3>1
  <2>3. d = [c EXCEPT !.locals = locals]
    BY <2>1 DEF Comp
  <2>4. Attribs(c, attrib) = IF attrib = "close" THEN g ELSE d
    BY <1>2 DEF Attribs
  <2> HIDE DEF n, locals, i, d
  <2>5. d.locals = locals /\ d.nactive = n /\ DOMAIN d = DOMAIN c
    BY <2>1, <2>3 DEF Comp, n
  <2>6. e.locals = d.locals /\ e.nactive = d.nactive /\ DOMAIN e = DOMAIN c
    BY <2>1, <2>5 DEF Emit, Comp
  <2> HIDE DEF e
  <2>7. g.locals = d.locals /\ g.nactive = d.nactive
    BY <2>1, <2>6 DEF Comp
  <2> HIDE DEF g
  <2> QED
    BY <2>2, <2>4, <2>5, <2>7 DEF Straight, n
<1> QED
  BY <1>1, <1>2

LEMMA LocalRegs ==
    ASSUME IInv, RegInv, NEW names \in NameLists, NEW es \in ExpLists, NEW attrib \in Attrs,
           LocalStat(names, es, attrib)
    PROVE  RegInv'
<1> DEFINE c == Top
           n == Len(names)
           p == Produced(es, n)
           F == Exps(fs, es, WantLast(es, n))
           l == LoadNil(TopOf(F), c.nactive + p, n - p)
           d == SetFree(l, c.nactive + n)
           e == DeclareAll(d, names, c.nactive)
           a == Attribs(e, attrib)
           G == On(F, a)
<1>1. /\ names \in Seq(Names) /\ names \in Seq(Names \cup {ForState}) /\ es \in Seq(Values)
      /\ n \in Nat /\ p \in Int /\ WantLast(es, n) \in Int
  <2>1. names \in Seq(Names) /\ es \in Seq(Values)
    BY ScriptAssumption
  <2> QED
    BY <2>1, CountsInt
<1>2. FsOK(fs) /\ CompOK(c) /\ c.nactive \in Int /\ c.nactive \in Nat /\ c.nactive \in Reg
  BY StartIs
<1>3. FsKept(fs, F) /\ FsOK(F) /\ CompOK(TopOf(F))
  BY <1>1, <1>2, ExpsKept, FsKeptTop
<1>4. Refuse \/ GoWild \/ ((attrib = "none" \/ e.nactive # 0) /\ ~ TooManyLocals(c, n) /\ Simple(G))
  BY DEF LocalStat
<1>n. n = Len(names) /\ Straight(c)
  BY FramesAre DEF RegInv
<1>u. Under(F) /\ SameRegs(c, TopOf(F))
  BY <1>3, KeptUnder
<1> HIDE DEF c, n, p, F
<1>5. Moved(TopOf(F), l) /\ CompOK(l) /\ SameRegs(TopOf(F), l)
  <2>1. c.nactive + p \in Int /\ n - p \in Int
    BY <1>1, <1>2
  <2>2. Added(TopOf(F), l)
    BY <1>3, <2>1, LoadNilAdded
  <2> HIDE DEF l
  <2> QED
    BY <1>3, <2>2, AddedMoved, AddedSame DEF Moved
<1> HIDE DEF l
<1>6. Moved(l, d) /\ CompOK(d) /\ SameRegs(l, d)
  <2>1. c.nactive + n \in Int
    BY <1>1, <1>2
  <2>2. Added(l, d)
    BY <1>5, <2>1, FreeAdded
  <2> QED
    BY <1>5, <2>2, AddedMoved, AddedSame DEF Moved
<1> HIDE DEF d
<1>7. SameRegs(c, d)
  BY <1>5, <1>6, <1>u, SameTrans
<1>8. Moved(d, e) /\ CompOK(e)
  BY <1>1, <1>2, <1>6, DeclareAllIs DEF Moved
<1>9. Straight(e) /\ (Unwrapped(e) => Unwrapped(c) /\ e.nactive = c.nactive + n)
  <2>1. Straight(d) /\ c.nactive % U8 = d.nactive /\ c.nactive = d.nactive
    BY <1>2, <1>7, <1>n, SameStraight, WrapSmall DEF SameRegs
  <2>2. Straight(e) /\ (Unwrapped(e) => e.nactive = d.nactive + n)
    BY <1>1, <1>2, <1>6, <1>n, <2>1, DeclareStraight
  <2>3. Unwrapped(e) => Unwrapped(c)
    BY <1>6, <1>7, <1>8, UnwrappedBack, SameUnwrapped
  <2> QED
    BY <2>1, <2>2, <2>3
<1> HIDE DEF e
<1>10. ASSUME attrib = "none" \/ e.nactive # 0, ~ TooManyLocals(c, n), Simple(G) PROVE RegInv'
  <2>1. CompOK(a) /\ a.upvals = TopOf(F).upvals
    BY <1>5, <1>6, <1>8, <1>10, AttribsMoved DEF Moved
  <2>2. Straight(a) /\ a.nactive = e.nactive
    BY <1>8, <1>9, <1>10, AttribsStraight
  <2>3. Unwrapped(a) => Unwrapped(c) /\ c.nactive <= a.nactive
    <3>1. Unwrapped(a) => Unwrapped(e)
      BY <1>8, <1>10, AttribsMoved, UnwrappedBack
    <3> HIDE DEF a
    <3> QED
      BY <1>1, <1>2, <1>9, <2>2, <3>1
  <2> HIDE DEF a
  <2>4. Under(G) /\ TopOf(G) = a
    BY <1>u, <2>1, OnUnder
  <2> HIDE DEF G
  <2>5. MoreLocals(TopOf(G))
    BY <2>1, <2>2, <2>3, <2>4 DEF MoreLocals, c
  <2> QED
    BY <1>10, <2>4, <2>5, SimpleRegs
<1> HIDE DEF G
<1> QED
  BY <1>4, <1>10, RefuseRegs, WildRegs

\* A return.
LEMMA ReturnRegs ==
    ASSUME IInv, RegInv, NEW es \in ExpLists, ReturnStat(es)
    PROVE  RegInv'
<1> DEFINE c == Top
           E == On(fs, SetFree(c, c.nactive))
           F == Exps(E, es, MultRet)
           d == TopOf(F)
           b == IF es # <<>> /\ IsMulti(es[Len(es)]) THEN 0 ELSE Len(es) + 1
           i == IF es = <<>> THEN Instr("RETURN0", c.nactive, 0, 0)
                ELSE Flagged(Instr("RETURN", c.nactive, b, VarargC(d)), d.has_tbc \/ d.has_capture)
           e == Emit(d, i)
           r == EndStat(e)
           G == On(F, r)
           h == [ctl[Len(ctl)] EXCEPT !.over = TRUE]
           K == [ctl EXCEPT ![Len(ctl)].over = TRUE]
<1>1. es \in Seq(Values) /\ MultRet \in Int /\ b \in Int
  BY ScriptAssumption DEF MultRet
<1>2. FsOK(fs) /\ CompOK(c) /\ c = TopOf(fs) /\ c.nactive \in Int
  BY StartIs
<1>3. Refuse \/ (fs' = G /\ ctl' = K)
  BY DEF ReturnStat
<1>4. FsKept(fs, E) /\ FsOK(E)
  BY <1>2, FreeAdded, OnKept DEF FsKept
<1> HIDE DEF E
<1>5. FsKept(E, F) /\ FsOK(F) /\ CompOK(d)
  BY <1>1, <1>4, ExpsKept, FsKeptTop
<1> HIDE DEF F
<1>6. i \in Plains
  <2>1. VarargC(d) \in Int /\ d.has_tbc \in BOOLEAN /\ d.has_capture \in BOOLEAN
    BY <1>5 DEF VarargC, CompOK, Comp
  <2>2. Instr("RETURN0", c.nactive, 0, 0) \in Plains
    BY <1>2, PlainInstr DEF PlainOps
  <2>3. Instr("RETURN", c.nactive, b, VarargC(d)) \in Plains
    BY <1>1, <1>2, <2>1, PlainInstr DEF PlainOps
  <2>4. \A j \in Plains, k \in BOOLEAN : Flagged(j, k) \in Plains
    BY DEF Flagged, Plains, Plain, Instrs
  <2> HIDE DEF b, c, d
  <2> QED
    BY <2>1, <2>2, <2>3, <2>4
<1> HIDE DEF i, b, c
<1>7. Added(d, e) /\ CompOK(e)
  BY <1>5, <1>6, EmitAdded DEF Added, Kept, Coded
<1>8. Added(d, r) /\ r.freereg = r.nactive /\ CompOK(r)
  BY <1>5, <1>7, EndMoved, EndRests, AddedTrans DEF SameRegs
<1> HIDE DEF e, r
<1>9. FsKept(F, G) /\ TopOf(G) = r
  BY <1>5, <1>8, OnKept
<1> HIDE DEF G, d
<1>10. FsKept(fs, G)
  BY <1>2, <1>4, <1>5, <1>9, FsKeptTrans
<1>11. Under(G) /\ SameRegs(Top, TopOf(G)) /\ CompOK(TopOf(G))
  BY <1>10, KeptUnder
<1>12. /\ h.comp = Open.comp /\ h.saved = Open.saved /\ h.base = Open.base /\ h.k = Open.k
       /\ K = [ctl EXCEPT ![Len(ctl)] = h]
  <2>1. ctl[Len(ctl)] \in FrameT /\ Open = ctl[Len(ctl)]
    BY FramesAre
  <2> QED
    BY <2>1 DEF FrameT
<1> HIDE DEF h, K
<1>13. Straight(Top) /\ Top.nactive \in Nat
  BY FramesAre DEF RegInv
<1>14. Straight(TopOf(G)) /\ Top.nactive <= TopOf(G).nactive
  BY <1>11, <1>13, SameStraight DEF SameRegs
<1> QED
  <2>1. CASE Refuse
    BY <2>1, RefuseRegs
  <2>2. CASE fs' = G /\ ctl' = K
    <3>1. TopOf(G).freereg = TopOf(G).nactive
      BY <1>8, <1>9
    <3>2. /\ Top.nactive <= TopOf(G).nactive \/ TopOf(G).nactive = Open.saved
          /\ Unwrapped(TopOf(G)) => Unwrapped(Top)
      BY <1>11, <1>14, SameUnwrapped
    <3>3. h.k = Open.k \/ (h.k = "else" /\ Open.k = "if")
      BY <1>12
    <3>4. fs' = G /\ ctl' = [ctl EXCEPT ![Len(ctl)] = h]
      BY <1>12, <2>2
    <3>5. Under(G) /\ CompOK(TopOf(G)) /\ Straight(TopOf(G))
      BY <1>11, <1>14
    <3>6. h.comp = Open.comp /\ h.saved = Open.saved /\ h.base = Open.base
      BY <1>12
    <3> QED
      BY <3>1, <3>2, <3>3, <3>4, <3>5, <3>6, SwapRegs
  <2> QED
    BY <1>3, <2>1, <2>2

-----------------------------------------------------------------------------
(* Registers at the beginnings of blocks *)

LEMMA FrameHas ==
    ASSUME NEW k, NEW c
    PROVE  Frame(k, c).k = k /\ Frame(k, c).comp = Len(fs) /\ Frame(k, c).saved = c.nactive
BY DEF Frame, NoFrame

\* A block that declares no local of its own.
LEMMA OpenRegs ==
    ASSUME IInv, RegInv, NEW G, Under(G), CompOK(TopOf(G)), SameRegs(Top, TopOf(G)),
           TopOf(G).freereg = TopOf(G).nactive,
           NEW f \in FrameT, f.k \notin {"fornum", "forin"}, f.comp = Len(fs), f.saved = Top.nactive,
           Enter(G, f)
    PROVE  RegInv'
<1>1. MoreLocals(TopOf(G)) /\ f.saved = TopOf(G).nactive
  BY SameMore DEF SameRegs
<1> QED
  BY <1>1, EnterRegs

LEMMA StartRests == ASSUME IInv, RegInv PROVE TopOf(fs).freereg = TopOf(fs).nactive
BY StartIs DEF RegInv

LEMMA DoStartRegs == ASSUME IInv, RegInv, DoStart PROVE RegInv'
<1>1. FsOK(fs) /\ CompOK(Top) /\ Top = TopOf(fs) /\ Enter(fs, Frame("do", Top))
  BY StartIs DEF DoStart
<1>2. Under(fs) /\ SameRegs(Top, TopOf(fs)) /\ TopOf(fs).freereg = TopOf(fs).nactive
  BY <1>1, HereUnder, StartRests DEF SameRegs
<1>3. Frame("do", Top) \in FrameT
  BY <1>1, FsKeptRefl, StartFrame DEF FrameKinds, FrameMade
<1>4. Frame("do", Top).k = "do" /\ Frame("do", Top).comp = Len(fs) /\ Frame("do", Top).saved = Top.nactive
  BY FrameHas
<1> QED
  BY <1>1, <1>2, <1>3, <1>4, OpenRegs

LEMMA IfStartRegs ==
    ASSUME IInv, RegInv, NEW e \in CondExps, IfStart(e)
    PROVE  RegInv'
<1> DEFINE G  == Cond(fs, e)
           g  == Frame("if", Top)
           jf == CondJump(fs, e)
           f  == [g EXCEPT !.jf = jf]
<1>1. FsOK(fs) /\ e \in Values /\ Enter(G, f)
  BY StartIs, ScriptAssumption DEF IfStart
<1>2. FsKept(fs, G) /\ jf \in Int
  BY <1>1, CondKept
<1>3. Under(G) /\ CompOK(TopOf(G)) /\ SameRegs(Top, TopOf(G))
  BY <1>2, KeptUnder
<1>4. TopOf(G).freereg = TopOf(G).nactive
  BY <1>1, StartRests, CondRests
<1>5. g \in FrameT /\ g.k = "if" /\ g.comp = Len(fs) /\ g.saved = Top.nactive
  BY <1>2, StartFrame, FrameHas DEF FrameKinds, FrameMade
<1> HIDE DEF g, jf
<1>6. f \in FrameT /\ f.k = "if" /\ f.comp = Len(fs) /\ f.saved = Top.nactive
  BY <1>2, <1>5 DEF FrameT
<1> HIDE DEF f, G
<1> QED
  BY <1>1, <1>3, <1>4, <1>6, OpenRegs

\* in_loop counts on.
LEMMA InLoopUnder ==
    ASSUME IInv
    PROVE  /\ Under(InLoop(fs)) /\ FsOK(InLoop(fs)) /\ CompOK(TopOf(InLoop(fs)))
           /\ SameRegs(Top, TopOf(InLoop(fs)))
           /\ TopOf(InLoop(fs)).freereg = Top.freereg
<1> DEFINE c == Top
           d == [c EXCEPT !.in_loop = (@ + 1) % U8]
           G == InLoop(fs)
<1>1. FsOK(fs) /\ FsType(fs) /\ CompOK(c) /\ c = TopOf(fs) /\ c \in Comp
  BY StartIs DEF FsOK, CompOK
<1>2. FsOK(G) /\ Len(G) = Len(fs) /\ G = On(fs, d)
  BY <1>1, InLoopIs DEF InLoop
<1>3. /\ d.locals = c.locals /\ d.nactive = c.nactive /\ d.freereg = c.freereg
  BY <1>1 DEF Comp
<1> HIDE DEF c, d, G
<1>4. TopOf(G) = d /\ \A l \in DOMAIN fs : l # Len(fs) => G[l] = fs[l]
  <2>1. fs \in Seq(Comp) /\ Len(fs) \in Nat \ {0} /\ DOMAIN fs = 1 .. Len(fs)
    BY <1>1, TopIs DEF FsType
  <2> QED
    BY <1>2, <2>1 DEF On, TopOf
<1>5. CompOK(d)
  BY <1>2, <1>4, TopIs DEF FsOK
<1> QED
  BY <1>2, <1>3, <1>4, <1>5 DEF Under, SameRegs, c, G

LEMMA WhileStartRegs ==
    ASSUME IInv, RegInv, NEW e \in CondExps, WhileStart(e)
    PROVE  RegInv'
<1> DEFINE F   == InLoop(fs)
           G   == Cond(F, e)
           g   == Frame("while", Top)
           jf  == CondJump(F, e)
           top == FuncLen(Top)
           f   == [g EXCEPT !.top = top, !.jf = jf]
<1>1. FsOK(fs) /\ e \in Values /\ Enter(G, f) /\ top \in Int
  BY StartIs, ScriptAssumption DEF WhileStart
<1>2. Under(F) /\ FsOK(F) /\ SameRegs(Top, TopOf(F)) /\ TopOf(F).freereg = TopOf(F).nactive
  BY InLoopUnder DEF SameRegs, RegInv
<1> HIDE DEF F
<1>3. FsKept(F, G) /\ jf \in Int
  BY <1>1, <1>2, CondKept
<1>4. Under(G) /\ CompOK(TopOf(G)) /\ SameRegs(Top, TopOf(G))
  BY <1>2, <1>3, UnderKept, SameTrans
<1>5. TopOf(G).freereg = TopOf(G).nactive
  BY <1>1, <1>2, CondRests
<1>6. g \in FrameT /\ g.k = "while" /\ g.comp = Len(fs) /\ g.saved = Top.nactive
  BY <1>1, FsKeptRefl, StartFrame, FrameHas DEF FrameKinds, LoopKinds, FrameMade
<1> HIDE DEF g, jf, top
<1>7. f \in FrameT /\ f.k = "while" /\ f.comp = Len(fs) /\ f.saved = Top.nactive
  BY <1>1, <1>3, <1>6 DEF FrameT
<1> HIDE DEF f, G
<1> QED
  BY <1>1, <1>4, <1>5, <1>7, OpenRegs

LEMMA RepeatStartRegs == ASSUME IInv, RegInv, RepeatStart PROVE RegInv'
<1> DEFINE G   == InLoop(fs)
           g   == Frame("repeat", Top)
           top == FuncLen(Top)
           f   == [g EXCEPT !.top = top]
<1>1. FsOK(fs) /\ Enter(G, f) /\ top \in Int
  BY StartIs DEF RepeatStart
<1>2. /\ Under(G) /\ CompOK(TopOf(G)) /\ SameRegs(Top, TopOf(G))
      /\ TopOf(G).freereg = TopOf(G).nactive
  BY InLoopUnder DEF SameRegs, RegInv
<1>3. g \in FrameT /\ g.k = "repeat" /\ g.comp = Len(fs) /\ g.saved = Top.nactive
  BY <1>1, FsKeptRefl, StartFrame, FrameHas DEF FrameKinds, LoopKinds, FrameMade
<1> HIDE DEF g, top
<1>4. f \in FrameT /\ f.k = "repeat" /\ f.comp = Len(fs) /\ f.saved = Top.nactive
  BY <1>1, <1>3 DEF FrameT
<1> HIDE DEF f, G
<1> QED
  BY <1>1, <1>2, <1>4, OpenRegs

\* There is no numeric for, and so none that ends.
LEMMA ForNumStartRegs ==
    ASSUME NoNumericFor, NEW name, NEW es, ForNumStart(name, es)
    PROVE  FALSE
BY DEF NoNumericFor, ForNumStart, CanStart

LEMMA ForNumEndRegs == ASSUME IInv, RegInv, ForNumEnd PROVE FALSE
BY FramesAre DEF RegInv, NoneNumeric, ForNumEnd

LEMMA FreeIs ==
    ASSUME NEW c, CompOK(c), NEW n \in Int
    PROVE  /\ Moved(c, SetFree(c, n)) /\ CompOK(SetFree(c, n)) /\ SameRegs(c, SetFree(c, n))
           /\ SetFree(c, n).freereg = n % U8
<1>1. Added(c, SetFree(c, n)) /\ c \in Comp
  BY FreeAdded DEF CompOK
<1>2. SetFree(c, n).freereg = n % U8
  BY <1>1 DEF SetFree, Comp
<1> QED
  BY <1>1, <1>2, AddedSame, AddedMoved DEF Moved

LEMMA ForInStartRegs ==
    ASSUME IInv, RegInv, NEW names \in NameLists, NEW es \in ExpLists, ForInStart(names, es)
    PROVE  RegInv'
<1> DEFINE c    == Top
           base == c.nactive
           n    == Len(names)
           p    == Produced(es, 4)
           E    == On(fs, SetFree(c, base))
           F    == Exps(E, es, WantLast(es, 4))
           d    == LoadNil(TopOf(F), base + p, 4 - p)
           four == [i \in 1..4 |-> ForState]
           s    == DeclareAll(d, four, base)
           g    == SetFree(s, base + 4)
           q    == Emit(g, Instr("TFORPREP", base, 0, 0))
           u    == DeclareAll(q, names, base + 4)
           v    == SetFree(u, base + 4 + n)
           w    == [v EXCEPT !.maxreg = Bigger(@, v.freereg), !.in_loop = (@ + 1) % U8]
           G    == On(F, w)
           f0   == Frame("forin", w)
           pr   == NextPC(g)
           tp   == FuncLen(w)
           f    == [f0 EXCEPT !.base = base, !.prep = pr, !.top = tp, !.names = names]
<1>1. /\ FsOK(fs) /\ CompOK(c) /\ c = TopOf(fs) /\ base \in Reg /\ base \in Int /\ base \in Nat
      /\ Straight(c) /\ base = c.nactive /\ n = Len(names) /\ Len(fs) \in DOMAIN fs
  BY StartIs, FramesAre DEF RegInv
<1>2. Refuse \/ (~ TooManyLocals(c, 4 + n) /\ Enter(G, f))
  BY DEF ForInStart
<1>3. /\ es \in Seq(Values) /\ names \in Seq(Names) /\ names \in Seq(Names \cup {ForState}) /\ n \in Nat
      /\ p \in Int /\ WantLast(es, 4) \in Int
      /\ four \in Seq(Names \cup {ForState}) /\ Len(four) = 4
  <2>1. names \in Seq(Names) /\ es \in Seq(Values)
    BY ScriptAssumption
  <2> QED
    BY <2>1, CountsInt
<1>i. base + p \in Int /\ 4 - p \in Int /\ base + 4 \in Int /\ base + 4 \in Nat /\ base + 4 + n \in Int
  BY <1>1, <1>3, SMTT(30)
<1>4. FsKept(fs, E) /\ FsOK(E)
  BY <1>1, FreeAdded, OnKept DEF FsKept
<1> HIDE DEF E, c, base
<1>5. FsKept(E, F) /\ FsOK(F) /\ CompOK(TopOf(F)) /\ FsKept(fs, F)
  BY <1>1, <1>3, <1>4, ExpsKept, FsKeptTop, FsKeptTrans
<1> HIDE DEF F, n, p
<1>6. Under(F) /\ SameRegs(c, TopOf(F))
  BY <1>5, KeptUnder DEF c
<1>7. CompOK(d) /\ Moved(TopOf(F), d) /\ SameRegs(TopOf(F), d)
  <2>1. Added(TopOf(F), d)
    BY <1>5, <1>i, LoadNilAdded
  <2> HIDE DEF d
  <2> QED
    BY <1>5, <2>1, AddedMoved, AddedSame DEF Moved
<1> HIDE DEF d
<1>8. Straight(d) /\ base % U8 = d.nactive
  BY <1>1, <1>6, <1>7, SameTrans, SameStraight, WrapSmall DEF SameRegs
<1> HIDE DEF four
<1>9. /\ CompOK(s) /\ Moved(d, s) /\ Straight(s) /\ s.nactive = (base + 4) % U8
      /\ Unwrapped(s) => s.nactive = base + 4
  <2>1. CompOK(s) /\ Moved(d, s)
    BY <1>1, <1>3, <1>7, DeclareAllIs, ZenonT(40) DEF Moved
  <2>2. /\ Straight(s) /\ s.nactive = (base + Len(four)) % U8
        /\ Unwrapped(s) => s.nactive = d.nactive + Len(four)
    BY <1>1, <1>3, <1>7, <1>8, DeclareStraight
  <2>3. d.nactive = base
    BY <1>1, <1>8, WrapSmall
  <2> QED
    BY <1>3, <2>1, <2>2, <2>3
<1> HIDE DEF s
<1>10. CompOK(g) /\ Moved(s, g) /\ SameRegs(s, g)
  BY <1>9, <1>i, FreeIs
<1> HIDE DEF g
<1>11. CompOK(q) /\ Moved(g, q) /\ SameRegs(g, q)
  <2>1. Instr("TFORPREP", base, 0, 0) \in Instrs
    <3>1. base \in Int /\ 0 \in Int /\ "TFORPREP" \in Ops
      BY <1>1 DEF Ops, PlainOps, Looping
    <3> QED
      BY <3>1, InstrType
  <2> QED
    BY <1>10, <2>1, EmitMoved, EmitSteady DEF Steady
<1> HIDE DEF q
<1>12. /\ Straight(q) /\ (base + 4) % U8 = q.nactive
       /\ Unwrapped(q) => q.nactive = base + 4
  <2>1. SameRegs(s, q)
    BY <1>10, <1>11, SameTrans
  <2> QED
    BY <1>9, <2>1, SameStraight, SameUnwrapped DEF SameRegs
<1>13. CompOK(u) /\ Moved(q, u)
  BY <1>3, <1>11, <1>i, DeclareAllIs DEF Moved
<1>14. /\ Straight(u) /\ u.nactive = (base + 4 + n) % U8
       /\ Unwrapped(u) => u.nactive = base + 4 + n
  <2> DEFINE b == base + 4
  <2>1. b \in Nat /\ b % U8 = q.nactive
    BY <1>12, <1>i
  <2> HIDE DEF b
  <2>2. /\ Straight(DeclareAll(q, names, b)) /\ DeclareAll(q, names, b).nactive = (b + Len(names)) % U8
        /\ Unwrapped(DeclareAll(q, names, b)) =>
             DeclareAll(q, names, b).nactive = q.nactive + Len(names)
    BY <1>3, <1>11, <1>12, <2>1, DeclareStraight
  <2>3. Unwrapped(u) => Unwrapped(q)
    BY <1>11, <1>13, UnwrappedBack
  <2> QED
    BY <1>1, <1>12, <2>2, <2>3 DEF b
<1> HIDE DEF u
<1>15. CompOK(v) /\ Moved(u, v) /\ SameRegs(u, v) /\ v.freereg = (base + 4 + n) % U8
  BY <1>13, <1>i, FreeIs
<1> HIDE DEF v
<1>16. /\ CompOK(w) /\ Moved(v, w) /\ w.locals = v.locals /\ w.nactive = v.nactive
       /\ w.freereg = v.freereg
  <2>1. v \in Comp /\ Bigger(v.maxreg, v.freereg) \in Reg /\ (v.in_loop + 1) % U8 \in Int
    <3>1. v \in Comp /\ Bigger(v.maxreg, v.freereg) \in Reg /\ v.in_loop + 1 \in Int
      BY <1>15 DEF CompOK, Comp, Bigger
    <3> QED
      BY <3>1, RegMod DEF Reg
  <2> DEFINE x == Bigger(v.maxreg, v.freereg)
             y == (v.in_loop + 1) % U8
  <2>2. x \in Reg /\ y \in Int
    BY <2>1
  <2> HIDE DEF x, y
  <2>c. [v EXCEPT !.maxreg = x, !.in_loop = y] \in Comp
    BY <2>1, <2>2 DEF Comp
  <2>3. w \in Comp
    BY <2>c DEF x, y
  <2>4. /\ w.locals = v.locals /\ w.nactive = v.nactive /\ w.breaks = v.breaks /\ w.freereg = v.freereg
        /\ w.owed = v.owed /\ w.upvals = v.upvals /\ w.lost = v.lost /\ w.error = v.error
    BY <2>1 DEF Comp
  <2> HIDE DEF w
  <2>5. CompOK(w)
    BY <1>15, <2>3, <2>4 DEF CompOK, Whole
  <2> QED
    BY <1>15, <2>4, <2>5, LensNat DEF Moved
<1>17. pr \in Int /\ tp \in Int
  BY <1>10, <1>16, RegInt
<1> HIDE DEF w
<1>18. Straight(w) /\ w.nactive = (base + 4 + n) % U8 /\ w.freereg = w.nactive
  BY <1>14, <1>15, <1>16, SameStraight DEF SameRegs
<1>19. Moved(TopOf(F), w)
  BY <1>5, <1>7, <1>9, <1>10, <1>11, <1>13, <1>15, <1>16, MovedTrans
<1>20. Under(G) /\ TopOf(G) = w
  BY <1>6, <1>16, <1>19, OnUnder DEF Moved
<1>21. Unwrapped(w) => w.nactive = base + 4 + n /\ Unwrapped(c)
  <2>1. Unwrapped(w) => w.nactive = base + 4 + n
    BY <1>14, <1>15, <1>16, SameUnwrapped DEF SameRegs
  <2>2. Unwrapped(w) => Unwrapped(TopOf(F))
    BY <1>5, <1>19, UnwrappedBack
  <2> QED
    BY <1>6, <2>1, <2>2, SameUnwrapped
<1>22. f0 \in FrameT /\ f0.k = "forin" /\ f0.comp = Len(fs) /\ f0.saved = w.nactive
  <2>1. /\ Len(G) = Len(fs) /\ FsOK(G) /\ w.nactive <= Len(TopOf(G).locals)
        /\ TopOf(G).breaks = w.breaks
    BY <1>16, <1>20 DEF Under, CompOK
  <2> HIDE DEF G
  <2>2. FrameMade(f0, G)
    BY <1>16, <2>1, FrameIs DEF FrameKinds, LoopKinds
  <2> QED
    BY <2>2, FrameHas DEF FrameMade
<1> HIDE DEF f0, pr, tp, G
<1>23. f \in FrameT /\ f.k = "forin" /\ f.comp = Len(fs) /\ f.saved = w.nactive /\ f.base = base
  <2>1. names \in Seq(Names \cup FuncKinds \cup {Env, "main"})
    BY <1>3
  <2> QED
    BY <1>1, <1>17, <1>22, <2>1 DEF FrameT
<1> HIDE DEF f
<1>24. CASE ~ TooManyLocals(c, 4 + n) /\ Enter(G, f)
  <2>1. Unwrapped(w) => /\ f.base + 4 <= f.saved /\ Top.nactive <= f.base
                        /\ Unwrapped(Top) /\ Top.nactive <= w.nactive
    BY <1>1, <1>3, <1>21, <1>23, SMTT(30) DEF c
  <2>2. MoreLocals(TopOf(G)) /\ TopOf(G).freereg = TopOf(G).nactive /\ f.saved = TopOf(G).nactive
    BY <1>16, <1>18, <1>20, <1>23, <2>1 DEF MoreLocals
  <2> QED
    BY <1>20, <1>23, <1>24, <2>1, <2>2, EnterRegs
<1> QED
  BY <1>2, <1>24, RefuseRegs

-----------------------------------------------------------------------------
(* Registers at the ends of blocks *)

LEMMA LeftSame ==
    ASSUME NEW c, BlockLeft(c), NEW d, CompOK(d), SameRegs(c, d)
    PROVE  BlockLeft(d)
BY SameStraight, SameUnwrapped DEF BlockLeft, SameRegs

\* The locals of the open block are gone.
LEMMA BlockGone ==
    ASSUME IInv, RegInv
    PROVE  LET c == LeaveBlock(Top, Open.saved) IN
           /\ BlockLeft(c) /\ CompOK(c) /\ Moved(Top, c) /\ FuncLen(c) \in Int
           /\ c.nactive = Open.saved /\ c.freereg = Open.saved /\ c.upvals = Top.upvals
<1> DEFINE c == LeaveBlock(Top, Open.saved)
<1>1. CompOK(Top) /\ Open.saved \in Reg /\ Open.saved <= Len(Top.locals) /\ Straight(Top)
  BY StartIs, OpenFrame, FramesAre DEF RegInv
<1>2. Moved(Top, c) /\ CompOK(c) /\ c.upvals = Top.upvals
  BY <1>1, BlockIs DEF Moved
<1>3. c.locals = Top.locals /\ c.nactive = Open.saved /\ c.freereg = Open.saved
  BY <1>1, BlockRests
<1> HIDE DEF c
<1>4. BlockLeft(c) /\ FuncLen(c) \in Int
  BY <1>1, <1>2, <1>3, RegInt DEF BlockLeft, Straight, Unwrapped
<1> QED
  BY <1>2, <1>3, <1>4 DEF c

LEMMA DoEndRegs == ASSUME IInv, RegInv, DoEnd PROVE RegInv'
BY BlockGone, LeaveRegs DEF DoEnd

LEMMA IfEndRegs == ASSUME IInv, RegInv, IfEnd PROVE RegInv'
<1> DEFINE c    == LeaveBlock(Top, Open.saved)
           pcs  == {Open.jf} \cup ToSet(Open.ends)
           d    == PatchAll(c, pcs, FuncLen(c))
           r    == Lands(d, pcs \ {NoJump})
<1>1. Leave(r)
  BY DEF IfEnd
<1>2. BlockLeft(c) /\ CompOK(c) /\ FuncLen(c) \in Int
  BY BlockGone
<1>3. pcs \ {NoJump} \in SUBSET Int
  BY OpenFrame DEF ToSet
<1> HIDE DEF c, pcs
<1>4. CompOK(d) /\ SameRegs(c, d)
  BY <1>2, PatchSteady DEF Steady
<1> HIDE DEF d
<1>5. CompOK(r) /\ SameRegs(d, r)
  BY <1>3, <1>4, LandsSteady DEF Steady
<1> HIDE DEF r
<1> QED
  BY <1>1, <1>2, <1>4, <1>5, LeftSame, LeaveRegs

LEMMA WhileEndRegs == ASSUME IInv, RegInv, WhileEnd PROVE RegInv'
<1> DEFINE c == LeaveBlock(Top, Open.saved)
           d == Emit(c, Jump(Open.top - (FuncLen(c) + 1)))
           p == Patch(d, Open.jf, FuncLen(d))
           r == CloseLoop(p, Open)
<1>1. GoWild \/ Leave(r)
  BY DEF WhileEnd
<1>2. /\ CompOK(Top) /\ Top = TopOf(fs) /\ FsOK(fs) /\ FsMoved(fs, fs) /\ Open.top \in Int
      /\ BlockLeft(c) /\ CompOK(c) /\ Moved(Top, c) /\ FuncLen(c) \in Int
  BY BlockGone, StartIs, OpenFrame, FsMovedRefl
<1> HIDE DEF c
<1>3. CompOK(d) /\ SameRegs(c, d) /\ Moved(c, d) /\ FuncLen(d) \in Int
  <2>1. Jump(Open.top - (FuncLen(c) + 1)) \in Instrs
    BY <1>2, JumpType
  <2> QED
    BY <1>2, <2>1, EmitMoved, EmitSteady, RegInt DEF Steady
<1> HIDE DEF d
<1>4. CompOK(p) /\ SameRegs(d, p) /\ Moved(d, p)
  BY <1>3, PatchIs, PatchSteady DEF Patch, Steady
<1> HIDE DEF p
<1>5. Moved(Top, p)
  BY <1>2, <1>3, <1>4, MovedTrans
<1>6. CompOK(r) /\ SameRegs(p, r)
  BY <1>2, <1>5, CloseSame
<1> HIDE DEF r
<1>7. BlockLeft(r)
  BY <1>2, <1>3, <1>4, <1>6, LeftSame
<1> QED
  BY <1>1, <1>7, LeaveRegs, WildRegs

LEMMA RepeatEndRegs ==
    ASSUME IInv, RegInv, NEW e \in CondExps, RepeatEnd(e)
    PROVE  RegInv'
<1> DEFINE F    == Cond(fs, e)
           back == CondJump(fs, e)
           c    == Patch(TopOf(F), back, Open.top)
           l    == CloseLoop(c, Open)
           new  == {[pc |-> pc, at |-> Open.top] : pc \in Real(back)}
           d    == [l EXCEPT !.lands = @ \cup new]
           r    == LeaveBlock(d, Open.saved)
<1>1. GoWild \/ (fs' = On(F, r) /\ ctl' = Front(ctl))
  BY DEF RepeatEnd
<1>2. /\ FsOK(fs) /\ Open.top \in Int /\ Top = TopOf(fs) /\ CompOK(Top)
      /\ Open.saved \in Reg /\ Open.saved <= Len(Top.locals) /\ e \in Values
      /\ Straight(Top)
  BY StartIs, OpenFrame, ScriptAssumption, FramesAre DEF RegInv
<1>3. FsKept(fs, F) /\ back \in Int
  BY <1>2, CondKept
<1>4. FsMoved(fs, F) /\ FsOK(F) /\ CompOK(TopOf(F)) /\ Under(F) /\ SameRegs(Top, TopOf(F))
  BY <1>2, <1>3, KeptMoved, FsKeptTop, KeptUnder
<1>5. new \in SUBSET [pc : Int, at : Int]
  BY <1>2, <1>3 DEF Real
<1> HIDE DEF F, back, new
<1>6. Moved(TopOf(F), c) /\ SameRegs(TopOf(F), c)
  BY <1>2, <1>4, PatchIs, PatchSteady DEF Patch, Steady
<1> HIDE DEF c
<1>7. CompOK(l) /\ SameRegs(c, l)
  BY <1>4, <1>6, CloseSame
<1> HIDE DEF l
<1>8. CompOK(d) /\ d.locals = l.locals
  BY <1>5, <1>7, MoreLands DEF Moved
<1> HIDE DEF d
<1>9. d.locals = Top.locals
  BY <1>4, <1>6, <1>7, <1>8 DEF SameRegs
<1>10. CompOK(r) /\ r.locals = Top.locals /\ r.nactive = Open.saved /\ r.freereg = Open.saved
  BY <1>2, <1>8, <1>9, BlockIs, BlockRests DEF Moved
<1> HIDE DEF r
<1>11. BlockLeft(r) /\ r.freereg = r.nactive
  BY <1>2, <1>10 DEF BlockLeft, Straight, Unwrapped
<1> QED
  BY <1>1, <1>4, <1>11, PopRegs, WildRegs

LEMMA PrepSame ==
    ASSUME NEW c, CompOK(c), NEW pc \in Int, NEW op \in Ops, NEW base \in Int, NEW dist \in Int
    PROVE  /\ CompOK(SetPrep(c, pc, op, base, dist)) /\ Moved(c, SetPrep(c, pc, op, base, dist))
           /\ SameRegs(c, SetPrep(c, pc, op, base, dist))
<1> DEFINE d == SetPrep(c, pc, op, base, dist)
<1>1. Moved(c, d)
  BY PrepMoved
<1>2. SameRegs(c, d)
  BY DEF SetPrep, SameRegs, CompOK, Comp
<1> QED
  BY <1>1, <1>2 DEF Moved

LEMMA ForInEndRegs == ASSUME IInv, RegInv, ForInEnd PROVE RegInv'
<1> DEFINE c    == LeaveBlock(Top, Open.saved)
           call == FuncLen(c)
           d    == Emit(c, Instr("TFORCALL", Open.base, 0, Len(Open.names)))
           loop == NextPC(d)
           s    == Emit(d, Instr("TFORLOOP", Open.base, loop + 1 - Open.top, 0))
           g    == SetPrep(s, Open.prep, "TFORPREP", Open.base, call - (Open.prep + 1))
           l    == CloseLoop(g, Open)
           u    == Emit(l, Instr("CLOSE", Open.base, 0, 0))
           m    == LeaveBlock(u, Open.base)
<1>1. Open.k = "forin" /\ (GoWild \/ Leave(m))
  BY DEF ForInEnd
<1>2. /\ CompOK(Top) /\ Top = TopOf(fs) /\ FsOK(fs) /\ FsMoved(fs, fs) /\ Open.top \in Int /\ Open.prep \in Int
      /\ Open.base \in Reg /\ Open.base \in Int /\ Open.base <= Len(Top.locals)
      /\ Len(Open.names) \in Int /\ Straight(Top)
  <2>1. Open.names \in Seq(Names \cup FuncKinds \cup {Env, "main"})
    BY OpenFrame DEF FrameT
  <2> QED
    BY <2>1, StartIs, OpenFrame, FsMovedRefl, FramesAre DEF Reg, RegInv
<1>3. CompOK(c) /\ Moved(Top, c) /\ call \in Int /\ c.locals = Top.locals
  <2>1. c.locals = Top.locals
    BY <1>2, BlockRests
  <2> QED
    BY <2>1, BlockGone
<1> HIDE DEF c, call
<1>4. CompOK(d) /\ Moved(c, d) /\ SameRegs(c, d) /\ loop \in Int
  <2>1. Instr("TFORCALL", Open.base, 0, Len(Open.names)) \in Instrs
    <3>1. "TFORCALL" \in Ops /\ Open.base \in Int /\ Len(Open.names) \in Int /\ 0 \in Int
      BY <1>2 DEF Ops, PlainOps, Looping
    <3> QED
      BY <3>1, InstrType
  <2> QED
    BY <1>3, <2>1, EmitMoved, EmitSteady, RegInt DEF Steady
<1> HIDE DEF d, loop
<1>5. CompOK(s) /\ Moved(d, s) /\ SameRegs(d, s)
  <2>1. loop + 1 - Open.top \in Int
    BY <1>2, <1>4
  <2>2. Instr("TFORLOOP", Open.base, loop + 1 - Open.top, 0) \in Instrs
    <3>1. "TFORLOOP" \in Ops /\ Open.base \in Int /\ 0 \in Int
      BY <1>2 DEF Ops, PlainOps, Looping
    <3> QED
      BY <2>1, <3>1, InstrType, SMTT(30)
  <2> QED
    BY <1>4, <2>2, EmitMoved, EmitSteady DEF Steady
<1> HIDE DEF s
<1>6. CompOK(g) /\ Moved(s, g) /\ SameRegs(s, g)
  <2>1. "TFORPREP" \in Ops /\ call - (Open.prep + 1) \in Int
    BY <1>2, <1>3 DEF Ops, PlainOps, Looping
  <2> QED
    BY <1>2, <1>5, <2>1, PrepSame
<1> HIDE DEF g
<1>7. Moved(Top, g)
  BY <1>2, <1>3, <1>4, <1>5, <1>6, MovedTrans
<1>8. CompOK(l) /\ SameRegs(g, l)
  BY <1>2, <1>7, CloseSame
<1>9. Ended(fs, l)
  BY <1>2, <1>7, CloseLoopEnded
<1> HIDE DEF l
<1>10. CompOK(u) /\ SameRegs(l, u)
  <2>1. Instr("CLOSE", Open.base, 0, 0) \in Instrs
    <3>1. "CLOSE" \in Ops /\ Open.base \in Int /\ 0 \in Int
      BY <1>2 DEF Ops, PlainOps, Looping
    <3> QED
      BY <3>1, InstrType
  <2> QED
    BY <1>8, <2>1, EmitSteady DEF Steady
<1> HIDE DEF u
<1>11. u.locals = Top.locals
  BY <1>3, <1>4, <1>5, <1>6, <1>8, <1>10 DEF SameRegs
<1>12. CompOK(m) /\ m.locals = Top.locals /\ m.nactive = Open.base
  BY <1>2, <1>10, <1>11, BlockIs, BlockRests DEF Moved
<1> HIDE DEF m
<1>13. BlockLeft(m)
  BY <1>1, <1>2, <1>12 DEF BlockLeft, Straight, Unwrapped
<1> QED
  BY <1>1, <1>13, LeaveRegs, WildRegs

-----------------------------------------------------------------------------
(* Registers between the clauses of an if, and at functions *)

\* The last handler is replaced.
LEMMA LastFrame ==
    ASSUME IInv, NEW h \in FrameT
    PROVE  Append(Front(ctl), h) = [ctl EXCEPT ![Len(ctl)] = h]
<1> DEFINE s == Front(ctl)
           A == Append(s, h)
           K == [ctl EXCEPT ![Len(ctl)] = h]
<1>1. ctl \in Seq(FrameT) /\ ctl # <<>> /\ Len(ctl) \in Nat \ {0}
  BY FramesAre
<1>2. s \in Seq(FrameT) /\ Len(s) = Len(ctl) - 1 /\ \A i \in 1 .. Len(ctl) - 1 : s[i] = ctl[i]
  BY <1>1, FrontIs
<1>3. K \in Seq(FrameT) /\ Len(K) = Len(ctl)
      /\ \A i \in 1 .. Len(ctl) : K[i] = IF i = Len(ctl) THEN h ELSE ctl[i]
  BY <1>1
<1> HIDE DEF s, K
<1>4. Len(s) \in Nat /\ Len(s) + 1 = Len(ctl) /\ \A i \in 1 .. Len(s) : s[i] = ctl[i]
  BY <1>1, <1>2
<1>5. A \in Seq(FrameT) /\ Len(A) = Len(s) + 1 /\ (\A i \in 1 .. Len(s) : A[i] = s[i]) /\ A[Len(s) + 1] = h
  BY <1>2, AppendIs
<1> HIDE DEF A
<1>6. A \in Seq(FrameT) /\ Len(A) = Len(K) /\ \A i \in 1 .. Len(K) : A[i] = K[i]
  BY <1>1, <1>3, <1>4, <1>5
<1>7. A = K
  BY <1>3, <1>6, SeqEqual
<1> QED
  BY <1>7 DEF A, K, s

LEMMA ClauseRegs ==
    ASSUME IInv, RegInv, Open.k = "if", NEW G, Under(G), CompOK(TopOf(G)), Straight(TopOf(G)),
           TopOf(G).nactive = Open.saved, TopOf(G).freereg = TopOf(G).nactive,
           Unwrapped(TopOf(G)) => Unwrapped(Top),
           NEW k \in {"if", "else"}, NEW jf \in Int, NEW ends \in Seq(Int), NEW f,
           f = [Open EXCEPT !.k = k, !.jf = jf, !.ends = ends],
           Clause(G, f)
    PROVE  RegInv'
<1> DEFINE h == [f EXCEPT !.over = FALSE]
<1>1. Open \in FrameT
  BY OpenFrame
<1>2. h \in FrameT /\ h.k = k /\ h.comp = Open.comp /\ h.saved = Open.saved /\ h.base = Open.base
  BY <1>1 DEF FrameT, FrameKinds
<1>3. fs' = G /\ ctl' = Append(Front(ctl), h)
  BY DEF Clause
<1> HIDE DEF h
<1>4. ctl' = [ctl EXCEPT ![Len(ctl)] = h]
  BY <1>2, <1>3, LastFrame
<1>5. h.k = Open.k \/ (h.k = "else" /\ Open.k = "if")
  BY <1>2
<1> QED
  BY <1>2, <1>3, <1>4, <1>5, SwapRegs

\* The innermost function at the start of the next clause.
LEMMA NextClauseRests ==
    ASSUME IInv, RegInv, NEW c, c = LeaveBlock(Top, Open.saved), NEW d, d = NextClause(c, Open)
    PROVE  /\ Under(On(fs, d)) /\ FsOK(On(fs, d)) /\ TopOf(On(fs, d)) = d /\ CompOK(d)
           /\ Straight(d) /\ d.nactive = Open.saved /\ d.freereg = d.nactive
           /\ Unwrapped(d) => Unwrapped(Top)
           /\ EndsAfter(c, Open) \in Seq(Int)
<1> DEFINE e == IF Len(Open.ends) < MaxEnds THEN Emit(c, Jump(0)) ELSE c
           p == Patch(e, Open.jf, FuncLen(e))
<1>1. /\ BlockLeft(c) /\ CompOK(c) /\ Moved(Top, c) /\ c.nactive = Open.saved /\ c.freereg = Open.saved
      /\ Straight(c) /\ c.upvals = Top.upvals /\ Top = TopOf(fs)
      /\ Unwrapped(c) => Unwrapped(Top)
  BY BlockGone, StartIs DEF BlockLeft
<1>2. Open \in FrameT /\ Open.jf \in Int /\ EndsAfter(c, Open) \in Seq(Int)
  BY <1>1, OpenFrame, NextClauseMoved
<1>3. Jump(0) \in Instrs
  BY PlainJump DEF Plains
<1>4. Steady(c, e) /\ CompOK(e) /\ e.upvals = c.upvals
  BY <1>1, <1>3, EmitSteady DEF Steady, SameRegs
<1>5. d = Lands(p, Real(Open.jf))
  BY DEF NextClause
<1> HIDE DEF e
<1>6. Steady(e, p) /\ CompOK(p) /\ p.upvals = e.upvals
  BY <1>4, RegInt, PatchSteady DEF Patch, Steady
<1> HIDE DEF p
<1>7. Steady(p, d) /\ d.upvals = p.upvals
  BY <1>2, <1>5, <1>6, LandsSteady DEF Real
<1>8. Steady(c, d)
  BY <1>4, <1>6, <1>7, SteadyTrans
<1>9. CompOK(d) /\ Straight(d) /\ d.nactive = Open.saved /\ d.freereg = d.nactive /\ d.upvals = TopOf(fs).upvals
  BY <1>1, <1>4, <1>6, <1>7, <1>8, SameStraight DEF Steady, SameRegs
<1>10. Under(On(fs, d)) /\ TopOf(On(fs, d)) = d
  BY <1>9, HereUnder, OnUnder
<1>11. Unwrapped(d) => Unwrapped(Top)
  BY <1>1, <1>8, SameUnwrapped DEF Steady
<1> QED
  BY <1>2, <1>9, <1>10, <1>11 DEF Under

LEMMA ElseIfRegs ==
    ASSUME IInv, RegInv, NEW e \in CondExps, ElseIf(e)
    PROVE  RegInv'
<1> DEFINE c    == LeaveBlock(Top, Open.saved)
           d    == NextClause(c, Open)
           F    == On(fs, d)
           G    == Cond(F, e)
           jf   == CondJump(F, e)
           ends == EndsAfter(c, Open)
           f    == [Open EXCEPT !.jf = jf, !.ends = ends]
           g    == [Open EXCEPT !.k = "if", !.jf = jf, !.ends = ends]
<1>1. Open.k = "if" /\ Clause(G, f)
  BY DEF ElseIf
<1>2. Open \in FrameT /\ e \in Values
  BY OpenFrame, StartIs, ScriptAssumption
<1>3. f = g
  BY <1>1, <1>2 DEF FrameT
<1>4. /\ Under(F) /\ FsOK(F) /\ TopOf(F) = d /\ Straight(d) /\ d.nactive = Open.saved
      /\ d.freereg = d.nactive /\ ends \in Seq(Int)
      /\ Unwrapped(d) => Unwrapped(Top)
  BY NextClauseRests
<1> HIDE DEF c, d, F, ends
<1>5. FsKept(F, G) /\ jf \in Int
  BY <1>2, <1>4, CondKept
<1>6. TopOf(G).freereg = TopOf(G).nactive
  BY <1>2, <1>4, CondRests
<1> HIDE DEF G, jf
<1>7. Under(G) /\ SameRegs(TopOf(F), TopOf(G)) /\ CompOK(TopOf(G))
  BY <1>4, <1>5, UnderKept
<1>8. /\ Straight(TopOf(G)) /\ TopOf(G).nactive = Open.saved
      /\ Unwrapped(TopOf(G)) => Unwrapped(Top)
  BY <1>4, <1>7, SameStraight, SameUnwrapped DEF SameRegs
<1>9. Clause(G, g) /\ g = [Open EXCEPT !.k = "if", !.jf = jf, !.ends = ends]
  BY <1>1, <1>3
<1> HIDE DEF g
<1> QED
  BY <1>1, <1>4, <1>5, <1>6, <1>7, <1>8, <1>9, ClauseRegs

LEMMA ElseRegs == ASSUME IInv, RegInv, Else PROVE RegInv'
<1> DEFINE c    == LeaveBlock(Top, Open.saved)
           d    == NextClause(c, Open)
           F    == On(fs, d)
           ends == EndsAfter(c, Open)
           g    == [Open EXCEPT !.k = "else", !.jf = NoJump, !.ends = ends]
<1>1. Open.k = "if" /\ Clause(F, g) /\ NoJump \in Int
  BY DEF Else, NoJump
<1>4. /\ Under(F) /\ TopOf(F) = d /\ Straight(d) /\ d.nactive = Open.saved /\ CompOK(d)
      /\ d.freereg = d.nactive /\ ends \in Seq(Int)
      /\ Unwrapped(d) => Unwrapped(Top)
  BY NextClauseRests
<1> HIDE DEF c, d, F, ends
<1>9. g = [Open EXCEPT !.k = "else", !.jf = NoJump, !.ends = ends]
  OBVIOUS
<1> HIDE DEF g
<1> QED
  BY <1>1, <1>4, <1>9, ClauseRegs

\* The invariant of the next state, whatever the functions have become.
LEMMA RegsBecome ==
    ASSUME NEW F, NEW K, \A l \in DOMAIN F : Straight(F[l]), TopOf(F).freereg = TopOf(F).nactive,
           Nested(K, F), NoneNumeric(K), fs' = F, ctl' = K
    PROVE  RegInv'
<1>1. (\A l \in DOMAIN fs : Straight(fs[l]))'
  BY DEF Straight
<1>2. (Top.freereg = Top.nactive)'
  BY DEF Top, TopOf
<1>3. Nested(ctl, fs)'
  BY DEF Nested, Unwrapped
<1>4. NoneNumeric(ctl)'
  BY DEF NoneNumeric
<1> QED
  BY <1>1, <1>2, <1>3, <1>4 DEF RegInv

\* The parameters of a function are its first locals.
LEMMA NewCompRegs ==
    ASSUME NEW params \in Seq(Names), NEW vararg \in BOOLEAN, NEW main \in BOOLEAN
    PROVE  LET c == NewComp(params, vararg, main) IN Straight(c) /\ c.freereg = c.nactive
<1> DEFINE c == [code |-> <<>>, locals |-> <<>>, nactive |-> 0, freereg |-> 0, maxreg |-> 0,
                 breaks |-> <<>>, in_loop |-> 0, error |-> FALSE, has_tbc |-> FALSE,
                 has_capture |-> FALSE, labels |-> <<>>, gotos |-> <<>>, upvals |-> <<EnvUp(main)>>,
                 num_params |-> 0, is_vararg |-> vararg, max_stack |-> 0,
                 lost |-> {}, owed |-> {}, lands |-> {}, jumps |-> {}]
           d == DeclareAll(c, params, 0)
           e == [d EXCEPT !.num_params = d.nactive, !.freereg = d.nactive, !.maxreg = d.nactive]
           i == Instr("VARARGPREP", e.num_params, 0, 0)
           n == NewComp(params, vararg, main)
<1>1. n = IF vararg THEN Emit(e, i) ELSE e
  BY DEF NewComp
<1>2. CompOK(c) /\ Straight(c) /\ 0 % U8 = c.nactive
  <2>1. <<EnvUp(main)>> \in Seq(Upval)
    BY DEF EnvUp, Upval
  <2>2. 0 \in Reg /\ 0 <= MaxBreaks
    BY RegMod, CompAssumption
  <2>3. c \in Comp
    BY <2>1, <2>2 DEF Comp
  <2>4. c.breaks = <<>> /\ c.locals = <<>> /\ c.nactive = 0 /\ c.lost = {}
    OBVIOUS
  <2> HIDE DEF c
  <2>5. Len(c.breaks) = 0 /\ Len(c.locals) = 0 /\ DOMAIN c.locals = {}
    BY <2>4
  <2>6. 0 % U8 = 0
    BY <2>2, WrapSmall
  <2> QED
    BY <2>2, <2>3, <2>4, <2>5, <2>6 DEF CompOK, Whole, Straight
<1>3. params \in Seq(Names \cup {ForState}) /\ 0 \in Nat /\ 0 \in Int
  OBVIOUS
<1> HIDE DEF c, n, i
<1>4. CompOK(d) /\ Straight(d)
  BY <1>2, <1>3, DeclareAllIs, DeclareStraight DEF Moved
<1> HIDE DEF d
<1>5. e.locals = d.locals /\ e.freereg = e.nactive /\ DOMAIN e = DOMAIN d
  BY <1>4 DEF CompOK, Comp
<1>6. /\ Emit(e, i).locals = e.locals /\ Emit(e, i).freereg = e.freereg
      /\ Emit(e, i).nactive = e.nactive
  BY <1>4, <1>5 DEF Emit, CompOK, Comp
<1> HIDE DEF e
<1>7. n.locals = d.locals /\ n.freereg = n.nactive
  BY <1>1, <1>5, <1>6
<1> QED
  BY <1>4, <1>7 DEF n, Straight

\* A function is opened inside another.
LEMMA NestedCall ==
    ASSUME IInv, NEW G, Nested(ctl, G), Len(G) = Len(fs), DOMAIN G = DOMAIN fs, G \in Seq(Comp),
           NEW c, c \in Comp, NEW f \in FrameT, f.k = "func", f.comp = Len(fs) + 1, f.saved = c.nactive
    PROVE  Nested(Append(ctl, f), Append(G, c))
<1> DEFINE K == Append(ctl, f)
           H == Append(G, c)
<1>1. /\ DOMAIN K = 1 .. Len(ctl) + 1 /\ \A i \in 1 .. Len(ctl) : K[i] = ctl[i]
      /\ K[Len(ctl) + 1] = f
  BY FramesAre, AppendIs
<1>2. (\A i \in 1 .. Len(G) : H[i] = G[i]) /\ H[Len(fs) + 1] = c
  BY AppendIs
<1> HIDE DEF K, H
<1>3. \A n \in DOMAIN ctl : /\ n \in DOMAIN K /\ K[n] = ctl[n] /\ K[n].comp \in 1 .. Len(fs)
                            /\ H[K[n].comp] = G[ctl[n].comp]
  BY <1>1, <1>2, FramesAre
<1>4. c.nactive \in Nat
  BY RegMod DEF Comp
<1>5. \A n \in DOMAIN K : Unwrapped(H[K[n].comp]) =>
          /\ K[n].saved <= H[K[n].comp].nactive
          /\ K[n].k = "forin" => K[n].base + 4 <= K[n].saved
  <2> TAKE n \in DOMAIN K
  <2>1. CASE n \in DOMAIN ctl
    BY <1>3, <2>1 DEF Nested
  <2>2. CASE n = Len(ctl) + 1
    BY <1>1, <1>2, <1>4, <2>2
  <2> QED
    BY <1>1, <2>1, <2>2, FramesAre
<1>6. \A i, j \in DOMAIN K : i < j /\ K[i].comp = K[j].comp /\ Unwrapped(H[K[i].comp]) =>
          /\ K[i].saved <= K[j].saved
          /\ K[j].k = "forin" => K[i].saved <= K[j].base
  <2> TAKE i, j \in DOMAIN K
  <2> HAVE i < j /\ K[i].comp = K[j].comp /\ Unwrapped(H[K[i].comp])
  <2>1. i \in DOMAIN ctl
    BY <1>1, FramesAre
  <2>2. CASE j \in DOMAIN ctl
    <3>1. /\ K[i] = ctl[i] /\ K[j] = ctl[j] /\ i < j /\ ctl[i].comp = ctl[j].comp
          /\ Unwrapped(G[ctl[i].comp])
      <4>1. K[i] = ctl[i] /\ K[j] = ctl[j] /\ H[K[i].comp] = G[ctl[i].comp]
        BY <1>3, <2>1, <2>2, Zenon
      <4> QED
        BY <4>1
    <3>2. /\ ctl[i].saved <= ctl[j].saved
          /\ ctl[j].k = "forin" => ctl[i].saved <= ctl[j].base
      BY <2>1, <2>2, <3>1 DEF Nested
    <3> QED
      BY <3>1, <3>2
  <2>3. CASE j = Len(ctl) + 1
    <3>1. K[i].comp \in 1 .. Len(fs) /\ K[j].comp = Len(fs) + 1 /\ Len(fs) \in Nat
      BY <1>1, <1>3, <2>1, <2>3, FramesAre
    <3> QED
      BY <3>1
  <2>4. j \in DOMAIN ctl \/ j = Len(ctl) + 1
    BY <1>1, FramesAre
  <2> QED
    BY <2>2, <2>3, <2>4
<1> QED
  BY <1>5, <1>6 DEF Nested, K, H

LEMMA FuncStartRegs ==
    ASSUME IInv, RegInv, NEW kind \in FuncKinds, NEW name \in Names, NEW params \in ParamLists,
           NEW vararg \in Varargs, FuncStart(kind, name, params, vararg)
    PROVE  RegInv'
<1> DEFINE c     == Top
           l     == NewLocal(c, name, c.nactive)
           outer == IF kind = "localfunc" THEN EndStat(l) ELSE c
           sub   == NewComp(params, vararg, FALSE)
           f     == FuncFrameFor(kind, name, Len(fs) + 1, sub)
           G     == On(fs, outer)
           K     == Append(ctl, f)
           H     == Append(G, sub)
<1>0. Refuse \/ (~ (kind = "localfunc" /\ TooManyLocals(c, 1)) /\ fs' = H /\ ctl' = K)
  BY DEF FuncStart
<1>1. /\ CompOK(c) /\ c.nactive \in Int /\ c.nactive \in Nat /\ Straight(c) /\ c.nactive \in Reg
      /\ Len(fs) \in Nat
  BY StartIs, FramesAre DEF RegInv
<1>2. params \in Seq(Names) /\ vararg \in BOOLEAN
  BY ScriptAssumption
<1>3. CompOK(sub) /\ sub \in Comp /\ Straight(sub) /\ sub.freereg = sub.nactive
  BY <1>2, NewCompOK, NewCompRegs DEF CompOK
<1> HIDE DEF sub
<1>4. /\ CompOK(outer) /\ Straight(outer)
      /\ Unwrapped(outer) => Unwrapped(c) /\ c.nactive <= outer.nactive
  <2>1. /\ CompOK(l) /\ Straight(l) /\ Moved(c, l)
        /\ Unwrapped(l) => l.nactive = c.nactive + 1
    BY <1>1, NewLocalIs, NewStraight, WrapSmall DEF Moved
  <2> HIDE DEF l, c
  <2>2. Unwrapped(l) => Unwrapped(c)
    BY <1>1, <2>1, UnwrappedBack
  <2>3. /\ CompOK(EndStat(l)) /\ Straight(EndStat(l)) /\ EndStat(l).nactive = l.nactive
        /\ Unwrapped(EndStat(l)) => Unwrapped(l)
    BY <2>1, EndRests, SameStraight, SameUnwrapped DEF SameRegs
  <2>4. CASE kind = "localfunc"
    BY <1>1, <2>1, <2>2, <2>3, <2>4
  <2>5. CASE kind # "localfunc"
    BY <1>1, <2>5
  <2> QED
    BY <2>4, <2>5
<1> HIDE DEF outer, c
<1>5. Above(G, outer)
  BY <1>4, HereUnder, OnAbove DEF c
<1>6. FsType(G) /\ Len(G) = Len(fs) /\ DOMAIN G = DOMAIN fs /\ G \in Seq(Comp)
  BY <1>4, OnIs DEF IInv, FsOK, FsType
<1> HIDE DEF G
<1>7. /\ f \in FrameT /\ f.k = "func" /\ f.comp = Len(fs) + 1 /\ f.saved = sub.nactive
  <2>1. NoFrame \in [k : {""}, comp : Nat, saved : Nat, sbreaks : {0}, top : Int, jf : Int,
                     ends : {<<>>}, base : {0}, prep : Int, names : {<<>>}, over : BOOLEAN]
    <3>1. NoJump \in Int
      BY DEF NoJump
    <3> QED
      BY <3>1 DEF NoFrame
  <2>2. <<kind, name>> \in Seq(Names \cup FuncKinds \cup {Env, "main"}) /\ <<>> \in Seq(Int)
    OBVIOUS
  <2>3. sub.nactive \in Reg /\ 0 \in Reg
    BY <1>3, RegMod DEF Comp
  <2>4. f.k = "func" /\ f.comp = Len(fs) + 1 /\ f.saved = sub.nactive
    BY <2>1 DEF FuncFrameFor
  <2>5. f \in FrameT
    <3>1. "func" \in FrameKinds /\ Len(fs) + 1 \in Nat /\ sub.nactive \in Nat /\ 0 \in Nat
      BY <1>1, <2>3 DEF FrameKinds, Reg
    <3> QED
      BY <2>1, <2>2, <2>3, <3>1 DEF FuncFrameFor, FrameT
  <2> HIDE DEF f
  <2> QED
    BY <2>4, <2>5
<1> HIDE DEF f
<1>8. CASE ~ (kind = "localfunc" /\ TooManyLocals(c, 1)) /\ fs' = H /\ ctl' = K
  <2>1. /\ DOMAIN H = 1 .. Len(fs) + 1 /\ Len(H) = Len(fs) + 1
        /\ \A i \in 1 .. Len(fs) : H[i] = G[i]
        /\ H[Len(fs) + 1] = sub
    BY <1>3, <1>6, AppendIs
  <2>2. \A i \in 1 .. Len(fs) : Straight(G[i])
    BY <1>5, FramesAre DEF Above
  <2>3. Nested(K, H)
    <3>1. Nested(ctl, G)
      <4>1. /\ outer.nactive \in Nat /\ Nested(ctl, fs)
            /\ Unwrapped(outer) => Top.nactive <= outer.nactive
        BY <1>4, RegInt DEF c, RegInv
      <4> QED
        BY <1>5, <4>1, NestedMore
    <3> QED
      BY <1>3, <1>6, <1>7, <3>1, NestedCall
  <2>4. NoneNumeric(K)
    BY <1>7, NonePush DEF RegInv
  <2> HIDE DEF H, K
  <2>5. \A i \in DOMAIN H : Straight(H[i])
    <3> TAKE i \in DOMAIN H
    <3>1. CASE i \in 1 .. Len(fs)
      BY <2>1, <2>2, <3>1
    <3>2. CASE i = Len(fs) + 1
      BY <1>3, <2>1, <3>2
    <3> QED
      BY <1>1, <2>1, <3>1, <3>2
  <2>6. TopOf(H).freereg = TopOf(H).nactive
    BY <1>3, <2>1 DEF TopOf
  <2> QED
    BY <1>8, <2>3, <2>4, <2>5, <2>6, RegsBecome
<1> QED
  BY <1>0, <1>8, RefuseRegs

\* The handler that asked for a function has at most one local more.
LEMMA ClosureRegs ==
    ASSUME NEW c, CompOK(c), Straight(c), NEW kind \in FuncKinds, NEW name \in Names
    PROVE  LET d == Closure(c, kind, name) IN
           /\ CompOK(d) /\ Straight(d)
           /\ Unwrapped(d) => Unwrapped(c) /\ c.nactive <= d.nactive
<1>0. \A a, b \in Int : Instr("CLOSURE", a, b, 0) \in Plains /\ Instr("SETTABUP", 0, 0, a) \in Plains
  BY PlainInstr DEF PlainOps
<1>1. /\ c.nactive \in Int /\ c.nactive \in Reg /\ CompOK(Closure(c, kind, name))
      /\ Unwrapped(Closure(c, kind, name)) => Unwrapped(c)
  <2>1. CompOK(Closure(c, kind, name)) /\ (Unwrapped(Closure(c, kind, name)) => Unwrapped(c))
    BY ClosureMoved, UnwrappedBack DEF Moved
  <2>2. c.nactive \in Int
    BY RegInt
  <2>3. c.nactive \in Reg
    BY DEF CompOK, Comp
  <2> QED
    BY <2>1, <2>2, <2>3
<1>2. CASE kind = "localfunc"
  <2> DEFINE i == Instr("CLOSURE", c.nactive - 1, 0, 0)
  <2>1. i \in Plains
    BY <1>0, <1>1
  <2>2. Closure(c, kind, name) = Emit(c, i)
    BY <1>2 DEF Closure
  <2> HIDE DEF i
  <2>3. SameRegs(c, Emit(c, i))
    BY <2>1, EmitAdded, AddedSame
  <2> QED
    BY <1>1, <2>2, <2>3, SameStraight DEF SameRegs
<1>3. CASE kind = "funcdef"
  <2> DEFINE d == IF NoConst THEN NoteFailure(c, "name") ELSE c
             i == Instr("CLOSURE", d.freereg, 0, 0)
             j == Instr("SETTABUP", 0, 0, d.freereg)
             r == Emit(Reserve(d), i)
             z == Emit(r, j)
  <2>1. Closure(c, kind, name) = z
    BY <1>3 DEF Closure
  <2>2. Added(c, d)
    BY NoteAdded, AddedRefl DEF NoConst, Unnoticed, Losses
  <2>3. CompOK(d)
    BY <2>2 DEF Added, Kept, Coded
  <2> HIDE DEF d
  <2>4. i \in Plains /\ j \in Plains
    <3>1. d.freereg \in Int /\ 0 \in Int
      BY <2>3, RegInt
    <3> QED
      BY <1>0, <3>1
  <2> HIDE DEF i, j
  <2>5. Added(d, r) /\ CompOK(r)
    BY <2>3, <2>4, LoadAdded DEF Added, Kept, Coded
  <2> HIDE DEF r
  <2>6. Added(r, z)
    BY <2>4, <2>5, EmitAdded
  <2> HIDE DEF z
  <2>7. SameRegs(c, z)
    BY <2>2, <2>5, <2>6, AddedSame, SameTrans
  <2> QED
    BY <1>1, <2>1, <2>7, SameStraight DEF SameRegs
<1>4. CASE kind = "funcexpr"
  <2> DEFINE base == c.nactive
             s == SetFree(c, base)
             i == Instr("CLOSURE", base, 0, 0)
             r == Emit(Reserve(s), i)
             t == SetFree(r, base + 1)
             z == NewLocal(t, name, base)
  <2>1. Closure(c, kind, name) = z
    BY <1>4 DEF Closure
  <2>2. CompOK(s) /\ SameRegs(c, s)
    BY <1>1, FreeIs
  <2>3. i \in Plains
    BY <1>0, <1>1
  <2> HIDE DEF s, i
  <2>4. Added(s, r) /\ CompOK(r)
    BY <2>2, <2>3, LoadAdded DEF Added, Kept, Coded
  <2> HIDE DEF r
  <2>5. CompOK(t) /\ SameRegs(r, t)
    <3>1. base + 1 \in Int
      BY <1>1
    <3> QED
      BY <2>4, <3>1, FreeIs
  <2> HIDE DEF t
  <2>6. SameRegs(c, t)
    BY <2>2, <2>4, <2>5, AddedSame, SameTrans
  <2>7. Straight(t) /\ base % U8 = t.nactive /\ base \in Int
    BY <1>1, <2>6, SameStraight, WrapSmall DEF SameRegs
  <2> HIDE DEF base
  <2>8. Straight(z) /\ (Unwrapped(z) => z.nactive = t.nactive + 1)
    BY <2>5, <2>7, NewStraight
  <2> HIDE DEF z
  <2> QED
    BY <1>1, <1>4, <2>1, <2>6, <2>8 DEF SameRegs
<1> QED
  BY <1>2, <1>3, <1>4 DEF FuncKinds

\* A function is closed, and its parent has at least the locals it had.
LEMMA NestedReturn ==
    ASSUME IInv, Nested(ctl, fs), CtlOK(Front(ctl), Front(fs)), NEW F, DOMAIN F = DOMAIN Front(fs),
           \A l \in DOMAIN F :
              /\ F[l].nactive \in Nat
              /\ Unwrapped(F[l]) => Unwrapped(Front(fs)[l]) /\ Front(fs)[l].nactive <= F[l].nactive
    PROVE  Nested(Front(ctl), F)
<1> DEFINE K == Front(ctl)
           E == Front(fs)
<1>1. DOMAIN K = 1 .. Len(ctl) - 1 /\ \A i \in 1 .. Len(ctl) - 1 : K[i] = ctl[i]
  BY FramesAre, FrontIs
<1>2. DOMAIN E = 1 .. Len(fs) - 1 /\ \A l \in 1 .. Len(fs) - 1 : E[l] = fs[l]
  <2>1. fs \in Seq(Comp) /\ fs # <<>>
    BY StartIs DEF FsOK, FsType
  <2> QED
    BY <2>1, FrontIs
<1>3. \A n \in DOMAIN K : K[n].comp \in DOMAIN E
  BY DEF CtlOK, FrameFits
<1>4. /\ DOMAIN F = DOMAIN E
      /\ \A l \in DOMAIN F : /\ F[l].nactive \in Nat
                             /\ Unwrapped(F[l]) => Unwrapped(E[l]) /\ E[l].nactive <= F[l].nactive
  OBVIOUS
<1> HIDE DEF K, E
<1>5. \A n \in DOMAIN K : n \in DOMAIN ctl /\ K[n] = ctl[n]
  BY <1>1, FramesAre
<1>u. \A n \in DOMAIN K : Unwrapped(F[K[n].comp]) => Unwrapped(fs[K[n].comp])
  BY <1>2, <1>3, <1>4, SMTT(30)
<1>6. \A n \in DOMAIN K : Unwrapped(F[K[n].comp]) => K[n].saved <= F[K[n].comp].nactive
  <2> TAKE n \in DOMAIN K
  <2> HAVE Unwrapped(F[K[n].comp])
  <2>1. K[n].comp \in DOMAIN E /\ n \in DOMAIN ctl /\ K[n] = ctl[n] /\ ctl[n].saved \in Nat
    BY <1>3, <1>5, FramesAre
  <2> DEFINE l == ctl[n].comp
  <2>2. ctl[n].saved <= fs[l].nactive /\ E[l] = fs[l] /\ E[l].nactive <= F[l].nactive
        /\ fs[l].nactive \in Nat /\ F[l].nactive \in Nat
    BY <1>2, <1>4, <1>u, <2>1, FramesAre DEF Nested
  <2> QED
    BY <2>1, <2>2
<1> QED
  BY <1>5, <1>6, <1>u DEF Nested, K

LEMMA FuncEndRegs == ASSUME IInv, RegInv, FuncEnd PROVE RegInv'
<1> DEFINE c      == Finish(LeaveBlock(Top, Open.saved))
           parent == fs[Len(fs) - 1]
           kind   == Open.names[1]
           name   == Open.names[2]
           kept   == [parent EXCEPT !.lost = @ \cup c.lost]
           e      == Closure(kept, kind, name)
           d      == EndStat(e)
           fails  == c.error \/ (Len(fs) > 1 /\ (heap = "full" \/ (kind = "funcexpr" /\ TooManyLocals(parent, 1))))
           F      == Front(fs)
           K      == Front(ctl)
           n      == Len(ctl)
<1>1. /\ Open.k = "func"
      /\ IF fails \/ Len(fs) = 1 THEN UNCHANGED <<fs, ctl>>
         ELSE fs' = [F EXCEPT ![Len(fs) - 1] = d] /\ ctl' = K
  BY DEF FuncEnd
<1>2. /\ FsOK(fs) /\ CtlOK(ctl, fs) /\ CompOK(Top) /\ Open.saved \in Reg /\ Open.saved <= Len(Top.locals)
      /\ Open = ctl[Len(ctl)] /\ Len(fs) \in Nat \ {0} /\ DOMAIN fs = 1 .. Len(fs)
      /\ fs \in Seq(Comp) /\ fs # <<>>
  BY StartIs, OpenFrame, TopIs DEF IInv, FsOK, FsType, Open
<1>3. CompOK(c) /\ c \in Comp
  BY <1>2, BlockIs, FinishOK DEF Moved, CompOK
<1> HIDE DEF c
<1>4. CASE fails \/ Len(fs) = 1
  BY <1>1, <1>4, StillRegs
<1>5. CASE ~ fails /\ Len(fs) # 1
  <2>1. Len(fs) > 1 /\ n > 1 /\ n \in DOMAIN ctl
    <3>1. n \in Nat \ {0} /\ ctl[1].comp = 1 /\ ctl[n].comp = Len(fs) /\ DOMAIN ctl = 1 .. n
      BY <1>2, OpenIs, SMTT(30) DEF CtlOK
    <3> QED
      BY <1>2, <1>5, <3>1
  <2>2. FsOK(F) /\ FsType(F) /\ CtlOK(K, F) /\ TopOf(F) = parent /\ Len(F) = Len(fs) - 1
    BY <1>1, <1>2, <2>1, CtlReturn DEF FsOK
  <2>3. kind \in FuncKinds /\ name \in Names
    <3>1. FrameFits(ctl, fs, n)
      BY <1>2, <2>1 DEF CtlOK
    <3> QED
      BY <1>1, <1>2, <2>1, <3>1 DEF FrameFits
  <2>4. CompOK(parent) /\ parent \in Comp /\ Straight(parent) /\ parent = fs[Len(fs) - 1]
    <3>1. Len(fs) - 1 \in DOMAIN fs
      BY <1>2, <2>1
    <3> QED
      BY <2>2, <3>1, TopIs DEF FsOK, CompOK, RegInv
  <2>5. ~ c.error /\ ~ (kind = "funcexpr" /\ TooManyLocals(parent, 1))
    BY <1>5, <2>1
  <2>6. DOMAIN F = 1 .. Len(fs) - 1 /\ \A l \in 1 .. Len(fs) - 1 : F[l] = fs[l]
    BY <1>2, FrontIs
  <2>7. fs' = [F EXCEPT ![Len(fs) - 1] = d] /\ ctl' = K
    BY <1>1, <1>5
  <2> HIDE DEF parent, kind, name, fails, F, K
  <2>8. CompOK(kept) /\ SameRegs(parent, kept)
    <3>1. parent.lost \in SUBSET Losses /\ c.lost \in SUBSET Losses
      BY <1>3, <2>4 DEF Comp
    <3>2. kept = [parent EXCEPT !.lost = parent.lost \cup c.lost]
      OBVIOUS
    <3>3. (parent.lost \cup c.lost) \in SUBSET Losses
      BY <3>1
    <3> HIDE DEF kept
    <3>4. kept \in Comp
      <4>1. \A x \in SUBSET Losses : [parent EXCEPT !.lost = x] \in Comp
        BY <2>4, ZenonT(40) DEF Comp
      <4> QED
        BY <3>2, <3>3, <4>1
    <3>5. /\ kept.locals = parent.locals /\ kept.nactive = parent.nactive
          /\ kept.breaks = parent.breaks /\ kept.error = parent.error
          /\ kept.lost = (parent.lost \cup c.lost)
      BY <2>4, <3>2 DEF Comp
    <3>6. Whole(kept)
      BY <1>3, <2>4, <2>5, <3>5 DEF CompOK, Whole
    <3> QED
      BY <2>4, <3>4, <3>5, <3>6 DEF CompOK, SameRegs
  <2> HIDE DEF kept
  <2>9. /\ CompOK(e) /\ Straight(e)
        /\ Unwrapped(e) => Unwrapped(parent) /\ parent.nactive <= e.nactive
    BY <1>2, <2>3, <2>4, <2>8, SameStraight, SameUnwrapped, ClosureRegs DEF SameRegs
  <2> HIDE DEF e
  <2>10. /\ CompOK(d) /\ Straight(d) /\ d.freereg = d.nactive /\ d.nactive = e.nactive
         /\ Unwrapped(d) => Unwrapped(e)
    BY <2>9, EndRests, SameStraight, SameUnwrapped DEF SameRegs
  <2> HIDE DEF d
  <2>11. parent.nactive \in Nat /\ d.nactive \in Nat
    BY <2>4, <2>10, RegInt
  <2>12. Unwrapped(d) => Unwrapped(parent) /\ parent.nactive <= d.nactive
    BY <2>9, <2>10
  <2> DEFINE H == [F EXCEPT ![Len(fs) - 1] = d]
  <2>13. /\ DOMAIN H = DOMAIN F /\ Len(H) = Len(fs) - 1 /\ H[Len(fs) - 1] = d
         /\ \A l \in DOMAIN F : l # Len(fs) - 1 => H[l] = F[l]
         /\ Len(fs) - 1 \in DOMAIN F
    <3>1. F \in Seq(Comp) /\ Len(F) = Len(fs) - 1 /\ DOMAIN F = 1 .. Len(F)
      BY <2>2, <2>6 DEF FsType
    <3>2. Len(fs) - 1 \in DOMAIN F
      BY <1>2, <2>1, <2>6
    <3> QED
      BY <2>10, <3>1, <3>2 DEF CompOK
  <2>14. fs' = H /\ ctl' = K
    BY <2>7
  <2> HIDE DEF H
  <2>15. \A l \in DOMAIN H : Straight(H[l])
    <3> TAKE l \in DOMAIN H
    <3>1. l \in DOMAIN fs /\ F[l] = fs[l]
      BY <1>2, <2>6, <2>13
    <3> QED
      BY <2>10, <2>13, <3>1 DEF RegInv
  <2>16. TopOf(H).freereg = TopOf(H).nactive
    BY <2>10, <2>13 DEF TopOf
  <2>17. Nested(K, H)
    <3>1. \A l \in DOMAIN H : /\ H[l].nactive \in Nat
                              /\ Unwrapped(H[l]) => Unwrapped(F[l]) /\ F[l].nactive <= H[l].nactive
      <4> TAKE l \in DOMAIN H
      <4>1. l \in DOMAIN fs /\ F[l] = fs[l] /\ fs[l].nactive \in Nat
        BY <1>2, <2>6, <2>13, FramesAre
      <4>2. CASE l = Len(fs) - 1
        BY <2>4, <2>11, <2>12, <2>13, <4>1, <4>2
      <4>3. CASE l # Len(fs) - 1
        BY <2>13, <4>1, <4>3
      <4> QED
        BY <4>2, <4>3
    <3> QED
      BY <2>2, <2>13, <3>1, NestedReturn DEF RegInv, F, K
  <2>18. NoneNumeric(K)
    BY NonePop DEF RegInv, K
  <2> QED
    BY <2>14, <2>15, <2>16, <2>17, <2>18, RegsBecome
<1> QED
  BY <1>4, <1>5

LEMMA InitRegs == ASSUME Init PROVE RegInv
<1> DEFINE n == NewComp(<<>>, FALSE, TRUE)
           i == Instr("VARARGPREP", 0, 0, 0)
           c == [n EXCEPT !.code = <<i>>, !.is_vararg = TRUE]
           f == FuncFrameFor("main", Env, 1, [nactive |-> 0])
<1>1. fs = <<c>> /\ ctl = <<f>>
  BY DEF Init
<1>2. CompOK(n) /\ Straight(n) /\ n.freereg = n.nactive /\ n.nactive \in Nat
  <2>1. <<>> \in Seq(Names) /\ FALSE \in BOOLEAN /\ TRUE \in BOOLEAN
    OBVIOUS
  <2> HIDE DEF n
  <2>2. CompOK(n)
    BY <2>1, NewCompOK DEF n
  <2>3. Straight(n) /\ n.freereg = n.nactive
    BY <2>1, NewCompRegs DEF n
  <2> QED
    BY <2>2, <2>3, RegInt
<1> HIDE DEF n, i
<1>3. c.locals = n.locals /\ c.freereg = n.freereg /\ c.nactive = n.nactive
  BY <1>2 DEF CompOK, Comp
<1>4. f.k = "func" /\ f.saved = 0 /\ f.comp = 1
  BY DEF FuncFrameFor, NoFrame
<1> HIDE DEF c, f
<1>5. DOMAIN fs = {1} /\ fs[1] = c /\ Len(fs) = 1 /\ DOMAIN ctl = {1} /\ ctl[1] = f
  BY <1>1
<1>6. Straight(c)
  BY <1>2, <1>3 DEF Straight
<1>7. Nested(ctl, fs)
  BY <1>2, <1>3, <1>4, <1>5 DEF Nested
<1> QED
  BY <1>2, <1>3, <1>4, <1>5, <1>6, <1>7 DEF RegInv, NoneNumeric, Top

LEMMA NextRegs ==
    ASSUME NoNumericFor, IInv, RegInv, [Next]_vars
    PROVE  RegInv'
<1>1. CASE UNCHANGED vars
  BY <1>1, StillRegs DEF vars
<1>2. CASE Statement
  BY <1>2, LocalRegs, AssignRegs, ReturnRegs, CallRegs, BreakRegs, LabelRegs, GotoRegs DEF Statement
<1>3. CASE Opening
  BY <1>3, IfStartRegs, ElseIfRegs, WhileStartRegs, ElseRegs, DoStartRegs, RepeatStartRegs,
     ForNumStartRegs, ForInStartRegs, FuncStartRegs DEF Opening
<1>4. CASE Closing
  BY <1>4, IfEndRegs, DoEndRegs, WhileEndRegs, RepeatEndRegs, ForNumEndRegs, ForInEndRegs, FuncEndRegs
     DEF Closing
<1>5. CASE HeapRunsShort
  BY <1>5, StillRegs DEF HeapRunsShort
<1> QED
  BY <1>1, <1>2, <1>3, <1>4, <1>5 DEF Next

\* A script without a numeric for has every local in the register of its number,
\* in all open functions, and between two statements no register is reserved
\* above the locals; in a function that has not had U8 locals at once, blocks
\* nest (mccompile.c:905-936, 1531-1540).
THEOREM RegistersInPlace ==
    ASSUME NoNumericFor
    PROVE  Spec => []RegInv
<1>1. IInv /\ RegInv /\ [Next]_vars => RegInv'
  BY NextRegs
<1>2. Init => RegInv
  BY InitRegs
<1> QED
  BY <1>1, <1>2, InductiveInv, PTL DEF Spec

\* Locals and the control registers of open generic loops are never taken for
\* temporaries (mccompile.c:905-936, 1236-1247).  The bodies of numeric loops are
\* the exception, and so is a function that has had U8 locals at once, where
\* nactive has wrapped, which the shipped limit of locals does not prevent.
THEOREM LocalsStay ==
    ASSUME NoNumericFor
    PROVE  Spec => []LocalsKept
<1>1. ASSUME IInv, RegInv PROVE LocalsKept
  <2>1. /\ CompOK(Top) /\ Top.nactive \in Nat /\ Top.nactive <= Len(Top.locals) /\ Straight(Top)
        /\ Top.freereg = Top.nactive /\ Top.locals \in Seq(LocalVar) /\ Len(Top.locals) \in Nat
    BY <1>1, StartIs, FramesAre, LensNat DEF RegInv
  <2>2. \A i \in Active(Top) : i \in Nat /\ Top.locals[i].reg = i - 1 /\ i <= Top.nactive
    BY <2>1 DEF Active, Straight
  <2>3. \A i \in Active(Top) : Top.locals[i].reg < Top.freereg
    BY <2>1, <2>2
  <2>4. \A i, j \in Active(Top) : i # j => Top.locals[i].reg # Top.locals[j].reg
    BY <2>2
  <2>5. ASSUME Len(Top.locals) < U8, NEW i \in InFunc, ctl[i].k \in {"fornum", "forin"}
        PROVE  ctl[i].base + 2 < Top.freereg
    <3>1. i \in DOMAIN ctl /\ ctl[i].comp = Len(fs) /\ ctl[i].k = "forin"
      BY <1>1, <2>5 DEF InFunc, RegInv, NoneNumeric
    <3>2. ctl[i].base + 4 <= ctl[i].saved /\ ctl[i].saved <= Top.nactive
      BY <1>1, <2>5, <3>1, FramesAre DEF RegInv, Nested, Unwrapped
    <3>3. ctl[i].base \in Nat /\ ctl[i].saved \in Nat
      BY <1>1, <3>1, FramesAre
    <3> QED
      BY <2>1, <3>2, <3>3
  <2> QED
    BY <2>3, <2>4, <2>5 DEF LocalsKept
<1> QED
  BY <1>1, RegistersInPlace, InductiveInv, PTL
=============================================================================
