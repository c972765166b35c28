------------------------------- MODULE MCExp -------------------------------
(***************************************************************************)
(* The expression compiler, compile/mccompile.c:184-883, and the           *)
(* statements that consist of expressions.  A tree is compiled by mutual   *)
(* recursion in one step.  c is the MCComp of the function: its code, its  *)
(* constants, freereg, maxreg and error; r is the register the last        *)
(* handler returned, or Failed.                                            *)
(*                                                                         *)
(* A node has a type t, a name or operator s, a number n and children kids.*)
(***************************************************************************)
EXTENDS MCOps, Sequences, FiniteSets

LOCAL INSTANCE SequencesExt

CONSTANTS
    Locals,         \* the active locals, in registers 0, 1, ...
    ConstLocals,    \* those declared <const>
    Upvals,         \* the upvalues of the function, _ENV first
    FieldsPerFlush  \* LFIELDS_PER_FLUSH

ASSUME ExpAssumption ==
    /\ Locals \in Seq(STRING) /\ Upvals \in Seq(STRING)
    /\ FieldsPerFlush \in Nat \ {0}

Failed == -1
NoJump == -1
MultRet == -1

\* The opcodes expressions use.  Their numbers only have to differ.
OpNames == <<"MOVE", "LOADI", "LOADF", "LOADK", "LOADFALSE", "LFALSESKIP", "LOADTRUE", "LOADNIL",
    "GETUPVAL", "SETUPVAL", "GETTABUP", "GETTABLE", "GETI", "GETFIELD", "SETTABUP", "SETTABLE",
    "SETI", "SETFIELD", "NEWTABLE", "SELF", "ADD", "SUB", "MUL", "MOD", "POW", "DIV", "IDIV",
    "BAND", "BOR", "BXOR", "SHL", "SHR", "MMBIN", "UNM", "BNOT", "NOT", "LEN", "CONCAT", "JMP",
    "EQ", "LT", "LE", "TEST", "TESTSET", "CALL", "RETURN", "RETURN0", "SETLIST", "VARARG",
    "EXTRAARG">>

Op(name) == SelectInSeq(OpNames, LAMBDA o : o = name)

\* room: how many instructions and how many uses of constants the heap grants.
Fresh(room) ==
    [code |-> <<>>, consts |-> <<>>, uses |-> 0, freereg |-> Len(Locals), maxreg |-> Len(Locals),
     error |-> FALSE, wild |-> FALSE, r |-> 0, room |-> room]

-----------------------------------------------------------------------------
(* Instructions, registers and constants *)

Larger(a, b) == IF a > b THEN a ELSE b

NoRoom(c) == Len(c.code) >= c.room.code

\* Mutants: a lost instruction is no error; registers are not counted.
EmitQuiet(c, i) == IF NoRoom(c) THEN c ELSE [c EXCEPT !.code = Append(@, i), !.maxreg = Larger(@, c.freereg)]
EmitUncounted(c, i) == IF NoRoom(c) THEN [c EXCEPT !.error = TRUE] ELSE [c EXCEPT !.code = Append(@, i)]

Emit(c, i) ==
    IF NoRoom(c) THEN [c EXCEPT !.error = TRUE]
    ELSE [c EXCEPT !.code = Append(@, i), !.maxreg = Larger(@, c.freereg)]

EmitOp(c, op, a, b, cc, k) == Emit(c, CreateABCk(Op(op), a, b, cc, k))
EmitJump(c) == Emit(c, CreateSJ(Op("JMP"), 0))

NextPC(c) == IF NoRoom(c) THEN NoJump ELSE Len(c.code)

Patch(c, pc) ==
    IF pc = NoJump THEN c
    ELSE [c EXCEPT !.code[pc + 1] = CreateSJ(Op("JMP"), Len(c.code) - (pc + 1))]

Free(c, reg) == [c EXCEPT !.freereg = reg % U8]

Reserve(c) ==
    LET d == Free(c, c.freereg + 1) IN [d EXCEPT !.maxreg = Larger(@, d.freereg)]

Fail(c) == [c EXCEPT !.r = Failed]
Result(c, reg) == [c EXCEPT !.r = reg]
Leave(c, reg) == Result(Free(c, reg + 1), reg)     \* the value is in reg, the next is free

\* A use of a constant, and its index.
ConstFails(c) == c.uses >= c.room.consts
Use(c, v) ==
    [c EXCEPT !.uses = @ + 1, !.consts = IF v \in ToSet(@) THEN @ ELSE Append(@, v)]
ConstIndex(c, v) == SelectInSeq(c.consts, LAMBDA w : w = v) - 1
ConstFail(c) == Fail([c EXCEPT !.error = TRUE])

\* mccomp_const_name: the string may not be allocated (error), or not be added
\* to the constants (no error).
NameFail(c) == Fail([c EXCEPT !.error = @ \/ ~c.room.quiet])

KStr(s) == <<"str", s>>
KInt(n) == <<"int", n>>
KFlt(n, frac) == <<"flt", n, frac>>

\* r is the index of a name or a string as an operand.
Konst(c, v) == Result(Use(c, v), ConstIndex(Use(c, v), v) % U8)
NameConst(c, s) == IF ConstFails(c) THEN NameFail(c) ELSE Konst(c, KStr(s))
StringConst(c, s) == IF ConstFails(c) THEN ConstFail(c) ELSE Konst(c, KStr(s))

-----------------------------------------------------------------------------
(* Leaves *)

Load(c, op, b, cc) == Result(EmitOp(Reserve(c), op, c.freereg, b, cc, 0), c.freereg)
LoadX(c, op, bx) == Result(Emit(Reserve(c), CreateABx(Op(op), c.freereg, bx)), c.freereg)
LoadK(c, v) == IF ConstFails(c) THEN ConstFail(Reserve(c))
               ELSE LoadX(Use(c, v), "LOADK", ConstIndex(Use(c, v), v))

Fits(n) == -OffsetSBx <= n /\ n <= OffsetSBx

Integer(c, n) == IF Fits(n) THEN LoadX(c, "LOADI", n + OffsetSBx) ELSE LoadK(c, KInt(n))

Float(c, e) ==
    IF e.s = "0" /\ Fits(e.n) THEN LoadX(c, "LOADF", e.n + OffsetSBx) ELSE LoadK(c, KFlt(e.n, e.s))

String(c, s) == IF ConstFails(c) THEN ConstFail(c)
                ELSE LoadX(Use(c, KStr(s)), "LOADK", ConstIndex(Use(c, KStr(s)), KStr(s)))

\* The innermost local of a name counts.
LocalReg(n) == SelectLastInSeq(Locals, LAMBDA l : l = n) - 1
UpvalIndex(n) == SelectInSeq(Upvals, LAMBDA u : u = n) - 1

GetGlobal(k) == IF k.r = Failed THEN k ELSE Load(k, "GETTABUP", 0, k.r)

Name(c, n) ==
    CASE LocalReg(n) >= 0 -> Load(c, "MOVE", LocalReg(n), 0)
      [] LocalReg(n) < 0 /\ UpvalIndex(n) >= 0 -> Load(c, "GETUPVAL", UpvalIndex(n), 0)
      [] OTHER -> GetGlobal(NameConst(c, n))

-----------------------------------------------------------------------------
(* Operators *)

Comparisons == {"<", ">", "<=", ">=", "==", "~="}
CompareOp(tok) == IF tok \in {"<", ">"} THEN "LT" ELSE IF tok \in {"<=", ">="} THEN "LE" ELSE "EQ"
Swapped(tok) == tok \in {">", ">="}

ArithToks == <<"+", "-", "*", "%", "^", "/", "//", "&", "|", "~", "<<", ">>">>
ArithNames == <<"ADD", "SUB", "MUL", "MOD", "POW", "DIV", "IDIV", "BAND", "BOR", "BXOR", "SHL", "SHR">>
ArithIndex(tok) == SelectInSeq(ArithToks, LAMBDA t : t = tok)
TM(tok) == ArithIndex(tok) + 5      \* TM_ADD is 6

UnaryOp(tok) == CASE tok = "-" -> "UNM" [] tok = "~" -> "BNOT" [] tok = "#" -> "LEN" [] tok = "not" -> "NOT"

RECURSIVE Exp(_, _), Multi(_, _, _), Call(_, _, _), Table(_, _), Fields(_, _, _)

\* Both operands: the registers they are in, and c.  The right one is compiled
\* even if the left one failed.
BothIn(l, r) == [c |-> IF l.r = Failed THEN Fail(r) ELSE r, l |-> l.r, r |-> r.r]
RightOf(l, e) == BothIn(l, Exp(l, e.kids[2]))
Operands(c, e) == RightOf(Exp(c, e.kids[1]), e)

\* The comparison, and which operand goes where; k is the outcome that skips.
Compare(o, e, k) ==
    EmitOp(o.c, CompareOp(e.s), IF Swapped(e.s) THEN o.r ELSE o.l, IF Swapped(e.s) THEN o.l ELSE o.r,
           0, IF e.s = "~=" THEN 1 - k ELSE k)

Compared(o, e) ==
    IF o.c.r = Failed THEN o.c
    ELSE Leave(EmitOp(EmitOp(Emit(Compare(o, e, 1), CreateSJ(Op("JMP"), 1)),
                             "LFALSESKIP", o.l, 0, 0, 0), "LOADTRUE", o.l, 0, 0, 0), o.l)

Arithmetic(o, e) ==
    CASE o.c.r = Failed -> o.c
      [] o.c.r # Failed /\ e.s = ".." -> Leave(EmitOp(o.c, "CONCAT", o.l, 2, 0, 0), o.l)
      [] OTHER -> Leave(EmitOp(EmitOp(o.c, ArithNames[ArithIndex(e.s)], o.l, o.l, o.r, 0),
                               "MMBIN", o.l, o.r, TM(e.s), 0), o.l)

\* mccomp_logical: the right operand is compiled into the register of the left.
LogicalEnd(r, jump, dst) == IF r.r = Failed THEN r ELSE Leave(Patch(r, jump), dst)
LogicalRightAbove(c, e, dst) ==     \* mutant: it gets a register of its own
    LogicalEnd(Exp(EmitJump(c), e.kids[2]), NextPC(c), dst)
LogicalRight(c, e, dst) == LogicalEnd(Exp(Free(EmitJump(c), dst), e.kids[2]), NextPC(c), dst)
Logical(l, e, dst) ==
    IF l.r = Failed THEN l
    ELSE LogicalRight(EmitOp(l, "TESTSET", dst, l.r, 0, IF e.s = "and" THEN 0 ELSE 1), e, dst)

Binop(c, e) ==
    CASE e.s \in {"and", "or"} -> Logical(Exp(c, e.kids[1]), e, c.freereg)
      [] e.s \in Comparisons -> Compared(Operands(c, e), e)
      [] OTHER -> Arithmetic(Operands(c, e), e)

Unop(v, e) == IF v.r = Failed THEN v ELSE Leave(EmitOp(v, UnaryOp(e.s), v.r, v.r, 0, 0), v.r)

-----------------------------------------------------------------------------
(* Calls, "..." and lists of expressions *)

IsMulti(e) == e.t \in {"call", "method", "vararg"}
IsOpen(es) == es # <<>> /\ IsMulti(Last(es))
Wanted(want) == IF want = MultRet THEN 0 ELSE want + 1
FreeBehind(c, reg, want) == Result(Free(c, IF want = MultRet THEN reg ELSE reg + want), reg)

Vararg(c, want) ==
    FreeBehind(EmitOp(Reserve(c), "VARARG", c.freereg, 0, Wanted(want), 0), c.freereg, want)

Multi(c, e, want) ==
    CASE e.t \in {"call", "method"} -> Call(c, e, want)
      [] e.t = "vararg" -> Vararg(c, want)
      [] OTHER -> Exp(c, e)

\* The values of a list, one after the other, the last with all its results.
Open(c, es) ==
    FoldLeftDomain(LAMBDA d, k : IF d.r = Failed THEN d
                                 ELSE Multi(d, es[k], IF k = Len(es) THEN MultRet ELSE 1),
                   Result(c, 0), es)

Self(k, base) ==
    IF k.r = Failed THEN k ELSE Free(EmitOp(k, "SELF", base, base, k.r, 1), base + 2)
Callee(fn, e, base) ==
    IF fn.r = Failed \/ e.t # "method" THEN fn ELSE Self(NameConst(fn, e.s), base)

CallEnd(args, e, want, base) ==
    LET nargs == Len(e.kids) - (IF e.t = "method" THEN 0 ELSE 1)
    IN  IF args.r = Failed THEN args
        ELSE FreeBehind(EmitOp(args, "CALL", base, IF IsOpen(Tail(e.kids)) THEN 0 ELSE nargs + 1,
                               Wanted(want), 0), base, want)

CallWith(callee, e, want, base) ==
    IF callee.r = Failed THEN callee ELSE CallEnd(Open(callee, Tail(e.kids)), e, want, base)

Call(c, e, want) == CallWith(Callee(Exp(c, e.kids[1]), e, c.freereg), e, want, c.freereg)

-----------------------------------------------------------------------------
(* Tables *)

SmallKey(key) == key.t = "int" /\ key.n \in 0 .. U8 - 1

GetBy(c, op, tbl, k) == Leave(EmitOp(c, op, tbl, tbl, k, 0), tbl)
GetField(k, tbl) == IF k.r = Failed THEN k ELSE GetBy(k, "GETFIELD", tbl, k.r)
GetTable(kr, tbl) == IF kr.r = Failed THEN kr ELSE GetBy(kr, "GETTABLE", tbl, kr.r)

\* mccomp_index: R[t.r] is indexed, and the value takes its place.
Index(t, e) ==
    CASE t.r = Failed -> t
      [] t.r # Failed /\ e.t = "field" -> GetField(NameConst(t, e.s), t.r)
      [] t.r # Failed /\ e.t = "index" /\ SmallKey(e.kids[2]) -> GetBy(t, "GETI", t.r, e.kids[2].n)
      [] t.r # Failed /\ e.t = "index" /\ e.kids[2].t = "str" ->
            GetField(StringConst(t, e.kids[2].s), t.r)
      [] OTHER -> GetTable(Exp(t, e.kids[2]), t.r)

SetTable(c, tbl, key, val) ==
    IF c.r = Failed THEN c ELSE EmitOp(c, "SETTABLE", tbl, key, val, 0)

SetConst(k, tbl, val) ==
    IF k.r = Failed THEN k ELSE EmitOp(k, "SETFIELD", tbl, k.r, val, 0)
SetBy(kr, tbl, val) == SetTable(kr, tbl, kr.r, val)

\* mccomp_store: R[t.r][key] := R[val]
Store(t, e, val) ==
    CASE t.r = Failed -> t
      [] t.r # Failed /\ e.t = "field" -> SetConst(NameConst(t, e.s), t.r, val)
      [] t.r # Failed /\ e.t = "index" /\ SmallKey(e.kids[2]) ->
            EmitOp(t, "SETI", t.r, e.kids[2].n, val, 0)
      [] t.r # Failed /\ e.t = "index" /\ e.kids[2].t = "str" ->
            SetConst(StringConst(t, e.kids[2].s), t.r, val)
      [] OTHER -> SetBy(Exp(t, e.kids[2]), t.r, val)

\* A field of a constructor of the table in ra whose key is a constant, a small
\* integer or a value in a register.
SetField(v, ra, k) == IF v.r = Failed THEN v ELSE EmitOp(v, "SETFIELD", ra, k, v.r, 0)
SetInt(v, ra, n) == IF v.r = Failed THEN v ELSE EmitOp(v, "SETI", ra, n, v.r, 0)
SetKeyed(v, ra, kr) == SetTable(v, ra, kr, v.r)
SetKey(key, ra, val) == IF key.r = Failed THEN key ELSE SetKeyed(Exp(key, val), ra, key.r)
SetName(k, ra, val) == IF k.r = Failed THEN k ELSE SetField(Exp(k, val), ra, k.r)

\* mccomp_table_set_idx, and the named fields of mccomp_table
SetNamed(c, ra, f) == SetName(NameConst(c, f.s), ra, f.kids[1])
SetIndex(c, ra, f) ==
    CASE SmallKey(f.kids[1]) -> SetInt(Exp(c, f.kids[2]), ra, f.kids[1].n)
      [] f.kids[1].t = "str" -> SetName(StringConst(c, f.kids[1].s), ra, f.kids[2])
      [] OTHER -> SetKey(Exp(c, f.kids[1]), ra, f.kids[2])

FlushAt(pending) == pending >= FieldsPerFlush

\* A value that waits for a SETLIST in the registers behind ra.  s is [ra, k,
\* pending], k the number of the field.
Listed(v, s) ==
    IF v.r # Failed /\ FlushAt(s.pending + 1)
      THEN [c |-> Free(EmitOp(v, "SETLIST", s.ra, s.pending + 1, 0, 0), s.ra + 1), pending |-> 0]
      ELSE [c |-> v, pending |-> s.pending + 1]

OpenField(fields, k) == k = Len(fields) /\ fields[k].t = "value" /\ IsMulti(fields[k].kids[1])

Field(c, fields, s) ==
    LET f == fields[s.k]
        kept(d) == [c |-> Free(d, s.ra + 1 + s.pending), pending |-> s.pending]
    IN  CASE f.t = "value" ->
                Listed(Multi(c, f.kids[1], IF OpenField(fields, s.k) THEN MultRet ELSE 1), s)
          [] f.t = "named" -> kept(SetNamed(c, s.ra, f))
          [] f.t = "keyed" -> kept(SetIndex(c, s.ra, f))

\* The loop over the fields, from number s.k on.
FieldsBehind(a, fields, s) == Fields(a.c, fields, [s EXCEPT !.k = @ + 1, !.pending = a.pending])
Fields(c, fields, s) ==
    IF c.r = Failed \/ s.k > Len(fields) THEN [c |-> c, pending |-> s.pending]
    ELSE FieldsBehind(Field(Free(c, s.ra + 1 + s.pending), fields, s), fields, s)

\* NEWTABLE is written again with the numbers of fields.
TableSized(c, e, ra, pc) ==
    LET listed == Cardinality({k \in DOMAIN e.kids : e.kids[k].t = "value"})
        sized == CreateABCk(Op("NEWTABLE"), ra, (Len(e.kids) - listed) % U8, listed % U8, 0)
    IN  Leave(IF pc = NoJump THEN [c EXCEPT !.wild = TRUE] ELSE [c EXCEPT !.code[pc + 1] = sized], ra)

TableEnd(a, e, ra, pc) ==
    LET open == OpenField(e.kids, Len(e.kids))
    IN  IF a.c.r = Failed THEN a.c
        ELSE TableSized(IF a.pending > 0 \/ (e.kids # <<>> /\ open)
                          THEN EmitOp(a.c, "SETLIST", ra, IF open THEN 0 ELSE a.pending, 0, 0)
                          ELSE a.c, e, ra, pc)

NewTable(c, ra) == Result(Emit(EmitOp(c, "NEWTABLE", ra, 0, 0, 0), CreateAx(Op("EXTRAARG"), 0)), ra)

Table(c, e) ==
    TableEnd(Fields(NewTable(Reserve(c), c.freereg), e.kids, [ra |-> c.freereg, k |-> 1, pending |-> 0]),
             e, c.freereg, NextPC(c))

-----------------------------------------------------------------------------

Exp(c, e) ==
    CASE e.t = "int" -> Integer(c, e.n)
      [] e.t = "flt" -> Float(c, e)
      [] e.t = "str" -> String(c, e.s)
      [] e.t = "nil" -> Load(c, "LOADNIL", 0, 0)
      [] e.t = "true" -> Load(c, "LOADTRUE", 0, 0)
      [] e.t = "false" -> Load(c, "LOADFALSE", 0, 0)
      [] e.t = "name" -> Name(c, e.s)
      [] e.t = "bin" -> Binop(c, e)
      [] e.t = "un" -> Unop(Exp(c, e.kids[1]), e)
      [] e.t \in {"call", "method", "vararg"} -> Multi(c, e, 1)
      [] e.t = "paren" -> Exp(c, e.kids[1])
      [] e.t = "table" -> Table(c, e)
      [] e.t \in {"field", "index"} -> Index(Exp(c, e.kids[1]), e)

-----------------------------------------------------------------------------
(* Statements.  Failed is the -1 of the handler. *)

\* mccomp_cond: the state and the jump to be patched, none when the expression
\* fails.
CondEnd(c) == [c |-> EmitJump(Free(c, Len(Locals))), jump |-> NextPC(c)]
CondOf(o, e) == IF o.c.r = Failed THEN [c |-> o.c, jump |-> NoJump] ELSE CondEnd(Compare(o, e, 0))
CondTest(v) == IF v.r = Failed THEN [c |-> v, jump |-> NoJump]
               ELSE CondEnd(EmitOp(v, "TEST", v.r, 0, 0, 0))
Cond(c, e) ==
    IF e.t = "bin" /\ e.s \in Comparisons THEN CondOf(Operands(c, e), e) ELSE CondTest(Exp(c, e))

\* mccomp_return: return es.  What the function needs undone is left out.
ReturnEnd(c, es) ==
    IF c.r = Failed THEN c
    ELSE Free(EmitOp(c, "RETURN", Len(Locals), IF IsOpen(es) THEN 0 ELSE Len(es) + 1, 0, 0), Len(Locals))
Return(c, es) ==
    IF es = <<>> THEN Result(EmitOp(c, "RETURN0", Len(Locals), 0, 0, 0), 0) ELSE ReturnEnd(Open(c, es), es)

\* mccomp_if with one clause: if e then return es end
IfEnd(c, jump) == IF c.r = Failed THEN c ELSE Patch(c, jump)
IfThen(cond, es) == IfEnd(Return(Free(Result(cond.c, 0), Len(Locals)), es), cond.jump)

\* The values of an assignment to n targets, the last adjusted to what is missing.
Missing(es, n) == IF n > Len(es) - 1 THEN n - (Len(es) - 1) ELSE 1
Produced(es, n) == IF IsOpen(es) THEN Len(es) - 1 + Missing(es, n) ELSE Len(es)
FillUp(c, es, n, base) ==
    IF c.r = Failed \/ Produced(es, n) >= n THEN c
    ELSE EmitOp(c, "LOADNIL", base + Produced(es, n), n - Produced(es, n) - 1, 0, 0)
Values(c, es, n) ==
    FillUp(FoldLeftDomain(LAMBDA d, k : IF d.r = Failed THEN d
                ELSE Multi(Free(d, c.freereg + k - 1), es[k], IF k = Len(es) THEN Missing(es, n) ELSE 1),
                          Result(c, 0), es), es, n, c.freereg)

SetGlobalTo(k, reg) == IF k.r = Failed THEN k ELSE EmitOp(k, "SETTABUP", 0, k.r, reg, 0)
AssignName(c, n, reg) ==
    CASE LocalReg(n) >= 0 ->
            IF n \in ConstLocals THEN ConstFail(c) ELSE EmitOp(c, "MOVE", LocalReg(n), reg, 0, 0)
      [] LocalReg(n) < 0 /\ UpvalIndex(n) >= 0 -> EmitOp(c, "SETUPVAL", reg, UpvalIndex(n), 0, 0)
      [] OTHER -> SetGlobalTo(NameConst(c, n), reg)

AssignTo(c, e, reg) == IF e.t = "name" THEN AssignName(c, e.s, reg) ELSE Store(Exp(c, e.kids[1]), e, reg)

\* mccomp_assign: scratch is the first register behind the values.
AssignAll(c, targets, base, scratch) ==
    FoldLeftDomain(LAMBDA d, k : IF d.r = Failed THEN d
                                 ELSE AssignTo(Free(d, scratch), targets[k], base + k - 1),
                   c, targets)
AssignEnd(c) == IF c.r = Failed THEN c ELSE Free(c, Len(Locals))
Assign(c, targets, es) ==
    AssignEnd(AssignAll(Values(c, es, Len(targets)), targets, c.freereg, c.freereg + Len(targets)))

Compile(stat, room) ==
    CASE stat.t = "return" -> Return(Fresh(room), stat.exps)
      [] stat.t = "if" -> IfThen(Cond(Fresh(room), stat.cond), stat.exps)
      [] stat.t = "assign" -> Assign(Fresh(room), stat.targets, stat.exps)
=============================================================================
