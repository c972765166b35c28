------------------------------- MODULE MCComp -------------------------------
(***************************************************************************)
(* The statement handlers of compile/mccompile.c, one action for each      *)
(* handler, or one for the part before its block and one for the part      *)
(* after it.  The block's statements are the actions in between, and ctl   *)
(* holds what the open handlers keep in their C locals.                    *)
(*                                                                         *)
(* The fields lost, owed, lands and jumps of a function are history: the   *)
(* compiler has no such fields, and no guard or other field depends on     *)
(* them.                                                                   *)
(***************************************************************************)
EXTENDS MCCompState

CONSTANTS
    Env,        \* the name _ENV
    Done,       \* the NULL name of a goto that has been patched
    Kinds,      \* the statements the script may use
    CondExps,   \* the conditions it may use
    ExpLists,   \* the expression lists it may use
    NameLists,  \* the name lists of local, for-in and assignment it may use
    ParamLists, \* the parameter lists of its functions
    Varargs,    \* a subset of BOOLEAN: may its functions take "..."
    Attrs,      \* the attributes of its locals: "none", "const", "close"
    Labels,     \* the names of its labels
    HeapLimits, \* what the arena may come to: a subset of Limits
    MaxStats,   \* bound: statements of the script
    MaxFuncs,   \* bound: functions open at a time
    MaxDepth    \* bound: open handlers

\* No array of constants can grow, no array of upvalues, neither, nothing at all.
Limits == {"tight", "short", "lean", "full"}

Values == Names \cup {Const, Call, Dots}

ASSUME ScriptAssumption ==
    /\ CondExps \subseteq Values
    /\ ExpLists \subseteq Seq(Values)
    /\ NameLists \cup ParamLists \subseteq Seq(Names)
    /\ <<>> \notin NameLists
    /\ Varargs \subseteq BOOLEAN
    /\ Done \notin Labels
    /\ HeapLimits \subseteq Limits
    /\ MaxStats \in Nat

VARIABLES
    stats,      \* statements left to choose
    final       \* the function finished last, in a sequence of at most one

vars == <<fs, ctl, heap, phase, stats, final>>

-----------------------------------------------------------------------------
(* Frames *)

NoFrame == [k |-> "", comp |-> 0, saved |-> 0, sbreaks |-> 0, top |-> 0, jf |-> NoJump,
            ends |-> <<>>, base |-> 0, prep |-> NoJump, names |-> <<>>, over |-> FALSE]

\* A handler of kind k that is about to compile the block it holds; comp is its
\* parameter, the function it compiles into.
Frame(k, c) == [NoFrame EXCEPT !.k = k, !.comp = Len(fs), !.saved = c.nactive, !.sbreaks = Len(c.breaks)]

Open == ctl[Len(ctl)]
LoopKinds == {"while", "repeat", "fornum", "forin"}

\* The frames of the function being compiled, and the innermost loop of them.
InFunc == {i \in DOMAIN ctl : ctl[i].comp = Len(fs)}
Loops == {i \in InFunc : ctl[i].k \in LoopKinds}
InnerLoop == IF Loops = {} THEN 0 ELSE CHOOSE i \in Loops : \A j \in Loops : j <= i

\* A new statement may start in the open block.
CanStart(kind) ==
    /\ phase = "running"
    /\ kind \in Kinds
    /\ stats > 0
    /\ ~ Open.over

\* The end of mccomp_block_body's loop: every statement leaves freereg at nactive.
EndStat(c) == SetFree(c, c.nactive)

\* mccomp_block gives the block's registers back.  It emits no CLOSE.
LeaveBlock(c, saved) == [c EXCEPT !.nactive = saved, !.freereg = saved]

\* A statement that opens no block: the functions become F.
Simple(F) ==
    /\ fs' = On(F, EndStat(TopOf(F)))
    /\ stats' = stats - 1
    /\ UNCHANGED <<ctl, heap, phase, final>>

\* A handler returns -1: every caller does, and mccomp_run returns NULL.
Refuse ==
    /\ phase' = "null"
    /\ stats' = stats - 1
    /\ UNCHANGED <<fs, ctl, heap, final>>

\* The compiler writes outside an array: what follows is not modelled.
GoWild ==
    /\ phase' = "wild"
    /\ UNCHANGED <<fs, ctl, heap, stats, final>>

\* A statement opens the block held by frame f.
Enter(F, f) ==
    /\ Len(ctl) < MaxDepth
    /\ fs' = F
    /\ ctl' = Append(ctl, f)
    /\ stats' = stats - 1
    /\ UNCHANGED <<heap, phase, final>>

\* The open handler finishes and leaves c.
Leave(c) ==
    /\ fs' = On(fs, EndStat(c))
    /\ ctl' = Front(ctl)
    /\ UNCHANGED <<heap, phase, stats, final>>

\* History: the jumps in pcs are meant for the place the code has reached.
Real(pc) == {pc} \ {NoJump}
Lands(c, pcs) == [c EXCEPT !.lands = @ \cup {[pc |-> pc, at |-> FuncLen(c)] : pc \in pcs}]
Owed(c) == {b.pc : b \in {o \in c.owed : o.loop = Len(ctl)}}

\* The arena runs short between two statements.
HeapRunsShort ==
    /\ phase = "running" /\ heap = "ample"
    /\ heap' \in HeapLimits
    /\ UNCHANGED <<fs, ctl, phase, stats, final>>

-----------------------------------------------------------------------------
(* mccomp_local *)

\* The attribute of the name declared last.
Attribs(c, attrib) ==
    IF attrib = "none" THEN c
    ELSE LET d == [c EXCEPT !.locals[c.nactive].attrib = attrib]
         IN  IF attrib = "close"
               THEN [Emit(d, Instr("TBC", d.locals[d.nactive].reg, 0, 0)) EXCEPT !.has_tbc = TRUE]
               ELSE d

\* The function when the first names have been declared.
DeclareSteps(c, names, base) ==
    LET d[n \in Nat] == IF n = 0 THEN c ELSE NewLocal(d[n - 1], names[n], base + n - 1) IN d

DeclareAbove(c, names, base) == DeclareSteps(c, names, base + 1)[Len(names)]   \* mutant: one register too high

DeclareAll(c, names, base) == DeclareSteps(c, names, base)[Len(names)]

\* How many values the list es yields when n are wanted.
Produced(es, n) ==
    IF es = <<>> THEN 0
    ELSE IF IsMulti(es[Len(es)]) /\ n > Len(es) - 1 THEN n
    ELSE Len(es)

\* How many the last expression is asked for.
WantLast(es, n) == IF n > Len(es) - 1 THEN n - (Len(es) - 1) ELSE 1

LocalStat(names, es, attrib) ==
    LET c == Top
        n == Len(names)
        p == Produced(es, n)
        F == Exps(fs, es, WantLast(es, n))
        d == SetFree(LoadNil(TopOf(F), c.nactive + p, n - p), c.nactive + n)
    IN  /\ CanStart("local")
        /\ IF ExpsFail(fs, es) \/ TooManyLocals(c, n)
             THEN Refuse
             ELSE LET e == DeclareAll(d, names, c.nactive)
                  IN  IF attrib # "none" /\ e.nactive = 0 THEN GoWild   \* locals[-1]
                      ELSE Simple(On(F, Attribs(e, attrib)))

(* mccomp_assign, to names *)

AssignOne(F, name, src) ==
    CASE IsLocal(F, name) ->
            LET c == TopOf(F)
            IN  On(F, Emit(c, Instr("MOVE", c.locals[LocalIndex(c, name)].reg, src, 0)))
      [] IsUpval(F, name) ->
            LET G == ResolveUpval(F, name)
            IN  On(G, Emit(TopOf(G), Instr("SETUPVAL", src, UpAfter(F, Len(F), name), 0)))
      [] OTHER ->
            LET G == AsGlobal(F, name)
            IN  On(G, Emit(TopOf(G), Instr("SETTABUP", 0, 0, src)))

\* The functions when the first targets have been given the values from base on.
AssignSteps(F, targets, base) ==
    LET G[n \in Nat] == IF n = 0 THEN F ELSE AssignOne(G[n - 1], targets[n], (base + n - 1) % U8) IN G

IsConst(c, name) ==
    LocalIndex(c, name) # 0 /\ c.locals[LocalIndex(c, name)].attrib = "const"

AssignStat(targets, es) ==
    LET c    == Top
        base == c.freereg
        n    == Len(targets)
        p    == Produced(es, n)
        F    == Exps(fs, es, WantLast(es, n))
        G    == On(F, SetFree(LoadNil(TopOf(F), base + p, n - p), base + n))
    IN  /\ CanStart("assign")
        /\ IF \/ ExpsFail(fs, es)
              \/ \E i \in 1..n : \/ IsConst(c, targets[i])
                                 \/ ExpFails(AssignSteps(G, targets, base)[i - 1], targets[i])
             THEN Refuse
             ELSE Simple(AssignSteps(G, targets, base)[n])

(* mccomp_return.  The parser ends the block after it. *)

Flagged(i, b) == [i EXCEPT !.k = b]
VarargC(c) == IF c.is_vararg THEN c.num_params + 1 ELSE 0

ReturnStat(es) ==
    LET c == Top
        F == Exps(On(fs, SetFree(c, c.nactive)), es, MultRet)
        d == TopOf(F)
        b == IF es # <<>> /\ IsMulti(es[Len(es)]) THEN 0 ELSE Len(es) + 1
    IN  /\ CanStart("return")
        /\ IF ExpsFail(fs, es)
             THEN Refuse
             ELSE /\ fs' = On(F, EndStat(Emit(d,
                        IF es = <<>>
                          THEN Instr("RETURN0", c.nactive, 0, 0)
                          ELSE Flagged(Instr("RETURN", c.nactive, b, VarargC(d)),
                                       d.has_tbc \/ d.has_capture))))
                  /\ ctl' = [ctl EXCEPT ![Len(ctl)].over = TRUE]
                  /\ stats' = stats - 1
                  /\ UNCHANGED <<heap, phase, final>>

(* A call on its own *)

CallStat ==
    /\ CanStart("call")
    /\ IF ExpFails(fs, Call) THEN Refuse ELSE Simple(Exp(fs, Call, 0))

-----------------------------------------------------------------------------
(* mccomp_if *)

IfStart(e) ==
    /\ CanStart("if")
    /\ Enter(Cond(fs, e), [Frame("if", Top) EXCEPT !.jf = CondJump(fs, e)])

\* Between two clauses: a jump to the end (dropped beyond MaxEnds), and the
\* last condition jumps here.
NextClause(c, f) ==
    LET d == IF Len(f.ends) < MaxEnds THEN Emit(c, Jump(0)) ELSE c
    IN  Lands(Patch(d, f.jf, FuncLen(d)), Real(f.jf))

EndsAfter(c, f) ==
    IF Len(f.ends) < MaxEnds THEN Append(f.ends, NextPC(c)) ELSE f.ends

Clause(F, f) ==
    /\ fs' = F
    /\ ctl' = Append(Front(ctl), [f EXCEPT !.over = FALSE])
    /\ stats' = stats - 1
    /\ UNCHANGED <<heap, phase, final>>

ElseIf(e) ==
    LET c == LeaveBlock(Top, Open.saved)
        F == On(fs, NextClause(c, Open))
    IN  /\ phase = "running" /\ Open.k = "if" /\ stats > 0 /\ "if" \in Kinds
        /\ Clause(Cond(F, e), [Open EXCEPT !.jf = CondJump(F, e), !.ends = EndsAfter(c, Open)])

Else ==
    LET c == LeaveBlock(Top, Open.saved)
        d == NextClause(c, Open)
    IN  /\ phase = "running" /\ Open.k = "if" /\ stats > 0 /\ "if" \in Kinds
        /\ Clause(On(fs, d), [Open EXCEPT !.k = "else", !.jf = NoJump, !.ends = EndsAfter(c, Open)])

IfEnd ==
    LET c == LeaveBlock(Top, Open.saved)
        d == PatchAll(c, {Open.jf} \cup ToSet(Open.ends), FuncLen(c))
    IN  /\ phase = "running" /\ Open.k \in {"if", "else"}
        /\ Leave(Lands(d, ({Open.jf} \cup ToSet(Open.ends)) \ {NoJump}))

(* do ... end *)

DoStart ==
    /\ CanStart("do")
    /\ Enter(fs, Frame("do", Top))

DoEnd ==
    /\ phase = "running" /\ Open.k = "do"
    /\ Leave(LeaveBlock(Top, Open.saved))

-----------------------------------------------------------------------------
(* Loops.  breaks[] from sbreaks on are the loop's own. *)

Wild == -2   \* what (u32) NO_JUMP becomes in breaks[]: an index far outside the code

OwnBreaks(c, f) == SubSeq(c.breaks, f.sbreaks + 1, Len(c.breaks))

KeepBreaks(c, f) == c.breaks   \* mutant: does not set nbreaks back

OuterBreaks(c, f) == SubSeq(c.breaks, 1, f.sbreaks)

\* The loop's breaks are patched to where the code has come, and dropped.
CloseLoop(c, f) ==
    LET d == PatchAll(c, ToSet(OwnBreaks(c, f)), FuncLen(c))
        g == Lands(d, Owed(c) \cup Real(f.jf))
    IN  [g EXCEPT !.breaks = OuterBreaks(c, f), !.in_loop = (@ - 1) % U8,
                  !.owed = {o \in @ : o.loop # Len(ctl)}]

\* Patching Wild writes outside the code.
PatchesWild(c, f) == Wild \in ToSet(OwnBreaks(c, f))

InLoop(F) == On(F, [TopOf(F) EXCEPT !.in_loop = (@ + 1) % U8])

WhileStart(e) ==
    /\ CanStart("while")
    /\ Enter(Cond(InLoop(fs), e),
             [Frame("while", Top) EXCEPT !.top = FuncLen(Top), !.jf = CondJump(InLoop(fs), e)])

WhileEnd ==
    LET c == LeaveBlock(Top, Open.saved)
        d == Emit(c, Jump(Open.top - (FuncLen(c) + 1)))
    IN  /\ phase = "running" /\ Open.k = "while"
        /\ IF PatchesWild(c, Open) THEN GoWild
           ELSE Leave(CloseLoop(Patch(d, Open.jf, FuncLen(d)), Open))

RepeatStart ==
    /\ CanStart("repeat")
    /\ Enter(InLoop(fs), [Frame("repeat", Top) EXCEPT !.top = FuncLen(Top)])

\* The condition sees the locals of the block.
RepeatEnd(e) ==
    LET F    == Cond(fs, e)
        back == CondJump(fs, e)
        c    == Patch(TopOf(F), back, Open.top)
        d    == [CloseLoop(c, Open) EXCEPT
                    !.lands = @ \cup {[pc |-> pc, at |-> Open.top] : pc \in Real(back)}]
    IN  /\ phase = "running" /\ Open.k = "repeat"
        /\ IF PatchesWild(c, Open) THEN GoWild
           ELSE /\ fs' = On(F, LeaveBlock(d, Open.saved))
                /\ ctl' = Front(ctl)
                /\ UNCHANGED <<heap, phase, stats, final>>

\* mccomp_fornum: four registers from base, one local, no break window.
ForNumStart(name, es) ==
    LET c    == Top
        base == c.nactive
        F    == ExpSteps(fs, es)[Len(es)]
        d    == IF Len(es) = 3 THEN TopOf(F)
                ELSE Emit(TopOf(F), Instr("LOADI", (base + 2) % U8, 0, 0))
        v    == SetFree(NewLocal(SetFree(d, base + 3), name, base + 3), base + 4)
        p    == [v EXCEPT !.maxreg = Bigger(@, v.freereg)]
        q    == Emit(p, Instr("FORPREP", base, 0, 0))
    IN  /\ CanStart("fornum")
        /\ IF ExpsFail(fs, es) \/ TooManyLocals(c, 1) THEN Refuse
           ELSE Enter(On(F, q), [Frame("fornum", p) EXCEPT !.base = base, !.prep = NextPC(p),
                                                           !.top = FuncLen(q)])

SetNoPrep(c, pc, op, base, dist) == c   \* mutant: no second look at the prep

\* getbody()[prep_pc] = FORPREP or TFORPREP with its distance.
SetPrep(c, pc, op, base, dist) ==
    IF pc = NoJump THEN c ELSE [c EXCEPT !.code[pc + 1] = Instr(op, base, dist, 0)]

ForNumEnd ==
    LET c    == LeaveBlock(Top, Open.saved)
        dist == FuncLen(c) - Open.top
        d    == Emit(c, Instr("FORLOOP", Open.base, dist + 1, 0))
        g    == SetPrep(d, Open.prep, "FORPREP", Open.base, dist)
        h    == Lands(g, Owed(g))
    IN  /\ phase = "running" /\ Open.k = "fornum"
        /\ Leave([LeaveBlock(h, Open.base) EXCEPT !.owed = {o \in @ : o.loop # Len(ctl)}])

ForState == "(for state)"

\* mccomp_forin: four control locals, then the names.
ForInStart(names, es) ==
    LET c    == Top
        base == c.nactive
        n    == Len(names)
        p    == Produced(es, 4)
        F    == Exps(On(fs, SetFree(c, base)), es, WantLast(es, 4))
        d    == LoadNil(TopOf(F), base + p, 4 - p)
        g    == SetFree(DeclareAll(d, [i \in 1..4 |-> ForState], base), base + 4)
        q    == Emit(g, Instr("TFORPREP", base, 0, 0))
        v    == SetFree(DeclareAll(q, names, base + 4), base + 4 + n)
        w    == [v EXCEPT !.maxreg = Bigger(@, v.freereg), !.in_loop = (@ + 1) % U8]
    IN  /\ CanStart("forin")
        /\ IF ExpsFail(fs, es) \/ TooManyLocals(c, 4 + n) THEN Refuse
           ELSE Enter(On(F, w), [Frame("forin", w) EXCEPT !.base = base, !.prep = NextPC(g),
                                                          !.top = FuncLen(w), !.names = names])

ForInEnd ==
    LET c    == LeaveBlock(Top, Open.saved)
        call == FuncLen(c)
        d    == Emit(c, Instr("TFORCALL", Open.base, 0, Len(Open.names)))
        loop == NextPC(d)
        g    == SetPrep(Emit(d, Instr("TFORLOOP", Open.base, loop + 1 - Open.top, 0)),
                        Open.prep, "TFORPREP", Open.base, call - (Open.prep + 1))
        m    == LeaveBlock(Emit(CloseLoop(g, Open), Instr("CLOSE", Open.base, 0, 0)), Open.base)
    IN  /\ phase = "running" /\ Open.k = "forin"
        /\ IF NoJump \in {Open.prep, loop} \/ PatchesWild(c, Open) THEN GoWild
           ELSE Leave(m)

BreaksOver(c) == Len(c.breaks) > MaxBreaks   \* mutant: one too many

BreaksFull(c) == Len(c.breaks) >= MaxBreaks

\* mccomp_break.  Outside a loop, and beyond MaxBreaks, it emits nothing.
BreakStat ==
    LET c       == Top
        dropped == c.in_loop = 0 \/ BreaksFull(c)
        pc      == IF dropped THEN NoJump ELSE NextPC(c)
        d       == IF dropped THEN c
                   ELSE [Emit(c, Jump(0)) EXCEPT !.breaks = Append(@, IF pc = NoJump THEN Wild ELSE pc)]
    IN  /\ CanStart("break")
        /\ Simple(On(fs, IF InnerLoop = 0 THEN d
                         ELSE [d EXCEPT !.owed = @ \cup {[pc |-> pc, loop |-> InnerLoop]}]))

-----------------------------------------------------------------------------
(* Labels and gotos, one list of each for the whole function *)

LabelStat(name) ==
    LET c    == Top
        here == FuncLen(c)
        mine == {i \in DOMAIN c.gotos : c.gotos[i].name = name}
        d    == PatchAll(c, {c.gotos[i].pc : i \in mine}, here)
    IN  /\ CanStart("label")
        /\ IF Len(c.labels) >= MaxLabels THEN Refuse
           ELSE Simple(On(fs, [d EXCEPT
                   !.labels = Append(@, [name |-> name, pc |-> here]),
                   !.gotos = [i \in DOMAIN @ |-> IF i \in mine THEN [@[i] EXCEPT !.name = Done]
                                                 ELSE @[i]]]))

FirstLabel(c, name) ==
    LET hits == {i \in DOMAIN c.labels : c.labels[i].name = name}
    IN  IF hits = {} THEN 0 ELSE CHOOSE i \in hits : \A j \in hits : i <= j

GotoStat(name) ==
    LET c   == Top
        pc  == NextPC(c)
        lab == FirstLabel(c, name)
        d   == [Emit(c, Jump(0)) EXCEPT !.jumps = @ \cup {[pc |-> p, name |-> name] : p \in Real(pc)}]
    IN  /\ CanStart("goto")
        /\ IF lab # 0 THEN Simple(On(fs, Patch(d, pc, c.labels[lab].pc)))
           ELSE IF Len(c.gotos) >= MaxLabels THEN Refuse
           ELSE Simple(On(fs, [d EXCEPT !.gotos = Append(@, [name |-> name, pc |-> pc])]))

-----------------------------------------------------------------------------
(***************************************************************************)
(* Functions: mccomp_proto sets up an MCComp of its own (mccomp_init) and  *)
(* mccomp_body compiles into it.  A method's "self" is its first parameter.*)
(***************************************************************************)
EnvUp(main) == [name |-> Env, instack |-> main, idx |-> 0]

NewComp(params, vararg, main) ==
    LET c == [code |-> <<>>, locals |-> <<>>, nactive |-> 0, freereg |-> 0, maxreg |-> 0,
              breaks |-> <<>>, in_loop |-> 0, error |-> FALSE, has_tbc |-> FALSE,
              has_capture |-> FALSE, labels |-> <<>>, gotos |-> <<>>, upvals |-> <<EnvUp(main)>>,
              num_params |-> 0, is_vararg |-> vararg, max_stack |-> 0,
              lost |-> {}, owed |-> {}, lands |-> {}, jumps |-> {}]
        d == DeclareAll(c, params, 0)
        e == [d EXCEPT !.num_params = d.nactive, !.freereg = d.nactive, !.maxreg = d.nactive]
    IN  IF vararg THEN Emit(e, Instr("VARARGPREP", e.num_params, 0, 0)) ELSE e

\* The frame of a function remembers which handler asked for it.
FuncFrameFor(kind, name, level, c) ==
    [NoFrame EXCEPT !.k = "func", !.comp = level, !.saved = c.nactive, !.names = <<kind, name>>]

FuncKinds == {"funcdef", "localfunc", "funcexpr"}

\* mccomp_localfunc declares its name first; the others do so afterwards.
FuncStart(kind, name, params, vararg) ==
    LET c     == Top
        outer == IF kind = "localfunc" THEN EndStat(NewLocal(c, name, c.nactive)) ELSE c
        sub   == NewComp(params, vararg, FALSE)
    IN  /\ CanStart(kind)
        /\ Len(fs) < MaxFuncs
        /\ IF \/ kind = "localfunc" /\ TooManyLocals(c, 1)
              \/ TooManyLocals([c EXCEPT !.nactive = 0], Len(params))
              \/ heap = "full"
             THEN Refuse
             ELSE /\ Len(ctl) < MaxDepth
                  /\ fs' = Append(On(fs, outer), sub)
                  /\ ctl' = Append(ctl, FuncFrameFor(kind, name, Len(fs) + 1, sub))
                  /\ stats' = stats - 1
                  /\ UNCHANGED <<heap, phase, final>>

\* The end of mccomp_body: the final return and max_stack.
FinalReturn(c) ==
    LET keeps == c.has_tbc \/ c.has_capture
    IN  IF keeps \/ c.is_vararg
          THEN Flagged(Instr("RETURN", c.nactive, 1, VarargC(c)), keeps)
          ELSE Instr("RETURN0", c.nactive, 0, 0)

Finish(c) == [Emit(c, FinalReturn(c)) EXCEPT !.max_stack = Bigger(2, c.maxreg)]

\* The handler that asked for the function goes on in the parent.  The index of
\* a global function's name is used without a look at its failure.
Closure(c, kind, name) ==
    CASE kind = "localfunc" -> Emit(c, Instr("CLOSURE", c.nactive - 1, 0, 0))
      [] kind = "funcdef" ->
            LET d == IF NoConst THEN NoteFailure(c, "name") ELSE c
                r == Emit(Reserve(d), Instr("CLOSURE", d.freereg, 0, 0))
            IN  Emit(r, Instr("SETTABUP", 0, 0, d.freereg))
      [] OTHER ->
            LET base == c.nactive
                r    == Emit(Reserve(SetFree(c, base)), Instr("CLOSURE", base, 0, 0))
            IN  NewLocal(SetFree(r, base + 1), name, base)

\* mccomp_add_proto needs the arena, and mccomp_body returns NULL on error.
FuncEnd ==
    LET c      == Finish(LeaveBlock(Top, Open.saved))
        parent == fs[Len(fs) - 1]
        kind   == Open.names[1]
        name   == Open.names[2]
        kept   == [parent EXCEPT !.lost = @ \cup c.lost]
    IN  /\ phase = "running" /\ Open.k = "func"
        /\ UNCHANGED <<heap, stats>>
        /\ IF c.error \/ (Len(fs) > 1 /\ (heap = "full" \/ (kind = "funcexpr" /\ TooManyLocals(parent, 1))))
             THEN phase' = "null" /\ UNCHANGED <<fs, ctl, final>>
             ELSE /\ final' = <<c>>
                  /\ IF Len(fs) = 1
                       THEN phase' = "returned" /\ UNCHANGED <<fs, ctl>>
                       ELSE /\ fs' = [Front(fs) EXCEPT ![Len(fs) - 1] = EndStat(Closure(kept, kind, name))]
                            /\ ctl' = Front(ctl)
                            /\ UNCHANGED phase

-----------------------------------------------------------------------------
\* mccomp_run on the main function, which the parser makes vararg.
Init ==
    /\ heap = "ample"
    /\ fs = <<[NewComp(<<>>, FALSE, TRUE) EXCEPT
                  !.code = <<Instr("VARARGPREP", 0, 0, 0)>>, !.is_vararg = TRUE]>>
    /\ ctl = <<FuncFrameFor("main", Env, 1, [nactive |-> 0])>>
    /\ phase = "running"
    /\ stats = MaxStats
    /\ final = <<>>

Statement ==
    \/ \E names \in NameLists, es \in ExpLists, a \in Attrs :
          LocalStat(names, es, a)
    \/ \E targets \in NameLists, es \in ExpLists : es # <<>> /\ AssignStat(targets, es)
    \/ \E es \in ExpLists : ReturnStat(es)
    \/ CallStat
    \/ BreakStat
    \/ \E name \in Labels : LabelStat(name) \/ GotoStat(name)

Opening ==
    \/ \E e \in CondExps : IfStart(e) \/ ElseIf(e) \/ WhileStart(e)
    \/ Else
    \/ DoStart
    \/ RepeatStart
    \/ \E name \in Names, es \in ExpLists : Len(es) \in {2, 3} /\ ForNumStart(name, es)
    \/ \E names \in NameLists, es \in ExpLists : es # <<>> /\ ForInStart(names, es)
    \/ \E kind \in FuncKinds, name \in Names, params \in ParamLists, vararg \in Varargs :
          FuncStart(kind, name, params, vararg)

Closing ==
    \/ IfEnd
    \/ DoEnd
    \/ WhileEnd
    \/ \E e \in CondExps : RepeatEnd(e)
    \/ ForNumEnd
    \/ ForInEnd
    \/ FuncEnd

Next == Statement \/ Opening \/ Closing \/ HeapRunsShort

Spec == Init /\ [][Next]_vars
=============================================================================
