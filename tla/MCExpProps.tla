----------------------------- MODULE MCExpProps -----------------------------
(***************************************************************************)
(* What a statement means, by the rules of Lua for its expressions and     *)
(* without registers or jumps, and the properties of the code that is      *)
(* compiled for it.                                                        *)
(***************************************************************************)
EXTENDS LuaVM, LuacChunk

LOCAL INSTANCE LuaValues
LOCAL INSTANCE LuaUndump
LOCAL INSTANCE SequencesExt

CONSTANTS
    Programs    \* [stat, room, env]: statements, heaps, and what the names stand for

Ample == [code |-> 10000, consts |-> 10000, quiet |-> FALSE]

-----------------------------------------------------------------------------
(* The meaning of expressions.  ls are the values of the locals, w the world *)
(* before; Val gives the value and the world after, Vals those of a list.    *)

V(w, v) == [w |-> w, v |-> v]
Vs(w, vs) == [w |-> w, vs |-> vs]

Variable(w, ls, n) ==
    CASE LocalReg(n) >= 0 -> ls[LocalReg(n) + 1]
      [] LocalReg(n) < 0 /\ UpvalIndex(n) >= 0 -> w.upvals[UpvalIndex(n) + 1]
      [] OTHER -> Global(w, n)

\* l tok r for values
Relates(tok, l, r) ==
    CASE tok = "==" -> l = r
      [] tok = "~=" -> l # r
      [] tok = "<" -> Less(l, r)
      [] tok = ">" -> Less(r, l)
      [] tok = "<=" -> LessEq(l, r)
      [] tok = ">=" -> LessEq(r, l)

Binary(w, tok, l, r) ==
    CASE tok \in {"==", "~="} -> V(w, Bool(Relates(tok, l, r)))
      [] tok \in Comparisons \ {"==", "~="} ->
            IF Ordered(l, r) THEN V(w, Bool(Relates(tok, l, r))) ELSE V(Raise(w), Nil)
      [] tok = ".." -> V(w, Concat(l, r))
      [] OTHER -> V(w, IF Numeric(l) /\ Numeric(r) THEN Arith(tok, l, r) ELSE Meta(tok, l, r))

Apply(w, fn, args) ==
    IF w.raised THEN Vs(w, <<>>)
    ELSE LET after == Invoke(w, fn, args) IN Vs(after, Results(after, fn))

RECURSIVE Val(_, _, _), Vals(_, _, _), MultiVals(_, _, _), Construct(_, _, _, _)

\* Then(l) or Then(l, r): what is made of operands, unless an error was raised.
On(l, Then(_)) == IF l.w.raised THEN l ELSE Then(l)
OnBoth(w, ls, e, Then(_, _)) ==
    On(Val(w, ls, e.kids[1]), LAMBDA l : On(Val(l.w, ls, e.kids[2]), LAMBDA r : Then(l, r)))

Short(l, ls, e) == IF Truthy(l.v) = (e.s = "and") THEN Val(l.w, ls, e.kids[2]) ELSE l

Key(w, ls, e) == IF e.t = "field" THEN V(w, KStr(e.s)) ELSE Val(w, ls, e.kids[2])
Indexed(t, k) == V(Checked(k.w, t.v), Read(k.w, t.v, k.v))

\* The fields of table ref from number k on, in their order; values without a
\* key are numbered from 1, and stored behind the others.
FieldKey(w, ls, f) == IF f.t = "named" THEN V(w, KStr(f.s)) ELSE Val(w, ls, f.kids[1])
FieldVal(key, ls, f) == Val(key.w, ls, Last(f.kids))
Keep(key, val, ref) == IF val.w.raised THEN val.w ELSE Write(val.w, ref, key.v, val.v)
Member(key, ls, f, ref) == Keep(key, FieldVal(key, ls, f), ref)
Added(a, ls, f, ref) == Vs(Member(FieldKey(a.w, ls, f), ls, f, ref), a.vs)
Listing(a, m, last) == Vs(m.w, a.vs \o IF last THEN m.vs ELSE Adjust(m.vs, 1))
Item1(a, ls, fields, k, ref) ==
    IF fields[k].t # "value" THEN Added(a, ls, fields[k], ref)
    ELSE Listing(a, MultiVals(a.w, ls, fields[k].kids[1]), k = Len(fields))
Construct(a, ls, fields, ref) ==
    FoldLeftDomain(LAMBDA u, k : IF u.w.raised THEN u ELSE Item1(u, ls, fields, k, ref), a, fields)
Numbered(a, ref) ==
    V(IF a.w.raised THEN a.w
      ELSE FoldLeftDomain(LAMBDA u, i : Write(u, ref, KInt(i), a.vs[i]), a.w, a.vs), ref)

Method1(o, s) == [w |-> Checked(o.w, o.v), v |-> Read(o.w, o.v, KStr(s)), first |-> <<o.v>>]
CalledFn(o, e) == IF e.t = "method" THEN Method1(o, e.s) ELSE [w |-> o.w, v |-> o.v, first |-> <<>>]
Applied(fn, args) == Apply(args.w, fn.v, fn.first \o args.vs)
CalledWith(fn, ls, e) == Applied(fn, Vals(fn.w, ls, Tail(e.kids)))

One(l) == Vs(l.w, <<l.v>>)
First(m) == V(m.w, Adjust(m.vs, 1)[1])
MultiVals(w, ls, e) ==
    CASE w.raised -> Vs(w, <<>>)
      [] ~w.raised /\ e.t = "vararg" -> Vs(w, w.dots)
      [] ~w.raised /\ e.t \in {"call", "method"} -> CalledWith(CalledFn(Val(w, ls, e.kids[1]), e), ls, e)
      [] OTHER -> One(Val(w, ls, e))

Vals(w, ls, es) ==
    FoldLeftDomain(LAMBDA a, k : Listing(a, MultiVals(a.w, ls, es[k]), k = Len(es)), Vs(w, <<>>), es)

Val(w, ls, e) ==
    CASE w.raised -> V(w, Nil)
      [] ~w.raised /\ e.t = "int" -> V(w, KInt(e.n))
      [] ~w.raised /\ e.t = "flt" -> V(w, KFlt(e.n, e.s))
      [] ~w.raised /\ e.t = "str" -> V(w, KStr(e.s))
      [] ~w.raised /\ e.t = "nil" -> V(w, Nil)
      [] ~w.raised /\ e.t \in {"true", "false"} -> V(w, Bool(e.t = "true"))
      [] ~w.raised /\ e.t = "name" -> V(w, Variable(w, ls, e.s))
      [] ~w.raised /\ e.t = "paren" -> Val(w, ls, e.kids[1])
      [] ~w.raised /\ e.t = "un" -> On(Val(w, ls, e.kids[1]), LAMBDA l : V(l.w, Unary(e.s, l.v)))
      [] ~w.raised /\ e.t = "bin" ->
            IF e.s \in {"and", "or"} THEN Short(Val(w, ls, e.kids[1]), ls, e)
            ELSE OnBoth(w, ls, e, LAMBDA l, r : Binary(r.w, e.s, l.v, r.v))
      [] ~w.raised /\ e.t \in {"call", "method", "vararg"} -> First(MultiVals(w, ls, e))
      [] ~w.raised /\ e.t = "table" ->
            Numbered(Construct(Vs(Create(w), <<>>), ls, e.kids, Created(Create(w))), Created(Create(w)))
      [] ~w.raised /\ e.t \in {"field", "index"} ->
            On(Val(w, ls, e.kids[1]), LAMBDA t : On(Key(t.w, ls, e), LAMBDA k : Indexed(t, k)))

\* All expressions are evaluated before the first assignment.
Place1(t, key) == Vs(key.w, <<t.v, key.v>>)
KeyPlace(t, ls, e) == Place1(t, Key(t.w, ls, e))
PlaceOf(w, ls, e) == IF e.t = "name" THEN Vs(w, <<>>) ELSE KeyPlace(Val(w, ls, e.kids[1]), ls, e)
Places(w, ls, targets) ==
    FoldLeftDomain(LAMBDA a, k : On(PlaceOf(a.w, ls, targets[k]), LAMBDA p : Vs(p.w, Append(a.vs, p.vs))),
                   Vs(w, <<>>), targets)
StoreTo(a, e, place, v) ==
    CASE e.t # "name" -> [a EXCEPT !.w = Write(@, place[1], place[2], v)]
      [] e.t = "name" /\ LocalReg(e.s) >= 0 -> [a EXCEPT !.ls[LocalReg(e.s) + 1] = v]
      [] e.t = "name" /\ LocalReg(e.s) < 0 /\ UpvalIndex(e.s) >= 0 ->
            [a EXCEPT !.w.upvals[UpvalIndex(e.s) + 1] = v]
      [] OTHER -> [a EXCEPT !.w = SetGlobal(@, e.s, v)]
StoreAll(places, ls, targets, vals) ==
    IF places.w.raised THEN [w |-> places.w, ls |-> ls]
    ELSE FoldLeftDomain(LAMBDA a, k : StoreTo(a, targets[k], places.vs[k], vals[k]),
                        [w |-> places.w, ls |-> ls], targets)

Outcome(m, w, ls, vs) == [mode |-> IF w.raised THEN "raised" ELSE m, world |-> w, ls |-> ls, results |-> vs]
Returned(vals, ls) == Outcome("returned", vals.w, ls, vals.vs)
Assigned(a) == Outcome("end", a.w, a.ls, <<>>)

Chosen(cond, ls, es) ==
    IF Truthy(cond.v) /\ ~cond.w.raised THEN Returned(Vals(cond.w, ls, es), ls)
    ELSE Outcome("end", cond.w, ls, <<>>)
Assignment(vals, ls, targets) ==
    Assigned(StoreAll(Places(vals.w, ls, targets), ls, targets, Adjust(vals.vs, Len(targets))))

Meaning(s, w, ls) ==
    CASE s.t = "return" -> Returned(Vals(w, ls, s.exps), ls)
      [] s.t = "if" -> Chosen(Val(w, ls, s.cond), ls, s.exps)
      [] s.t = "assign" -> Assignment(Vals(w, ls, s.exps), ls, s.targets)

-----------------------------------------------------------------------------
(* Compile a statement, and run it *)

VARIABLE program

expvars == <<program, vmvars>>

ExpInit ==
    /\ program \in Programs
    /\ world = program.env.world
    /\ regs = [x \in 0 .. U8 - 1 |-> IF x < Len(Locals) THEN program.env.ls[x + 1] ELSE Junk]
    /\ out = Fresh(program.room) /\ pc = 0 /\ top = 0 /\ results = <<>> /\ mode = "compile"

CompileStat ==
    /\ mode = "compile"
    /\ out' = Compile(program.stat, program.room)
    /\ mode' = IF out'.r = Failed \/ out'.error \/ out'.wild THEN "refused" ELSE "run"
    /\ UNCHANGED <<program, pc, regs, top, world, results>>

ExpNext == CompileStat \/ (VMNext /\ UNCHANGED program)

ExpSpec == ExpInit /\ [][ExpNext]_expvars /\ WF_expvars(ExpNext)

-----------------------------------------------------------------------------

Finished == mode \in {"end", "returned", "raised"}
LocalVals == [l \in 1 .. Len(Locals) |-> regs[l - 1]]

Agrees(m) ==
    /\ mode = m.mode /\ world.events = m.world.events
    /\ mode # "raised" => world = m.world /\ LocalVals = m.ls /\ results = m.results

\* The code computes what the statement means: the same values returned or
\* assigned, the same calls with the same arguments in the same order, the same
\* tables, operands that decide evaluated only when they count, and no local
\* changed that is not assigned to (mccompile.c:305-883, 958-1066).
CodeComputes ==
    Finished => Agrees(Meaning(program.stat, program.env.world, program.env.ls))

\* Code that is not refused is the code that would be made with all the memory
\* in the world, and a write outside of the code comes with an error
\* (mccompile.c:90-101, 184-199, 765-767).
ErrorsShow ==
    /\ mode \notin {"compile", "refused"} =>
          out.code = Compile(program.stat, Ample).code /\ out.consts = Compile(program.stat, Ample).consts
    /\ out.wild => out.error

\* A statement leaves freereg where the locals end, and the registers an
\* instruction writes are counted in maxreg, which becomes the size of the frame
\* (mccompile.c:90-120, 1028, 1065).
LastReg ==
    CASE Opname = "LOADNIL" -> A + B
      [] Opname = "SELF" -> A + 1
      [] Opname = "CALL" -> Larger(A + Larger(B - 1, 0), A + C - 2)
      [] Opname = "VARARG" -> A + Larger(C - 2, 0)
      [] Opname \in {"SETUPVAL", "SETTABUP", "JMP", "RETURN0", "RETURN"} -> 0
      [] OTHER -> A
RegistersCounted ==
    /\ mode \notin {"compile", "refused"} => out.freereg = Len(Locals)
    /\ Running => LastReg < out.maxreg

\* A chunk written for the code reads back as the function it was written for,
\* its nested functions with it, and nothing is left over: every size, tag and
\* string ends where the reader of Lua expects it (mcluac.c:95-283).
Upvals1 == [k \in DOMAIN Upvals |-> [instack |-> k % 2, idx |-> k]]
FunctionOf(protos) ==
    [num_params |-> Len(Locals), is_vararg |-> 1, max_stack |-> out.maxreg, code |-> out.code,
     consts |-> out.consts, upvals |-> Upvals1, protos |-> protos]
MainOf == FunctionOf(<<FunctionOf(<<>>), FunctionOf(<<>>)>>)
Named1(f, source) == [source |-> source] @@ f
Whole(f, source) == Named1([f EXCEPT !.protos = [i \in DOMAIN @ |-> Named1(@[i], NoString)]], source)
ReadsBack(r, f) == r.ok /\ r.p = Len(r.b) + 1 /\ r.got[1] = f
ChunkReadsBack ==
    mode = "run" /\ pc = 0 =>
        /\ Accepts(Chunk(MainOf, "source"))
        /\ ReadsBack(Undump(Chunk(MainOf, "source")), Whole(MainOf, "source"))
=============================================================================
