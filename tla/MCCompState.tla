---------------------------- MODULE MCCompState ----------------------------
(***************************************************************************)
(* The state of the compiler (compile/mccompile.c) and the helpers every   *)
(* statement handler is made of: emitting and patching instructions,       *)
(* reserving registers, declaring locals, resolving names, and compiling   *)
(* an expression into the next free register.                              *)
(*                                                                         *)
(* The handlers recurse over a syntax tree.  Here fs is the stack of       *)
(* MCComp records (parent first), ctl the stack of handlers that are still *)
(* open, innermost last, and the tree is chosen one node at a time.        *)
(***************************************************************************)
EXTENDS Integers, FiniteSets, SequencesExt

CONSTANTS
    Names,       \* the identifiers of a script
    MaxLocals,   \* config->MAX_LOCALS
    MaxBreaks,   \* config->MAX_BREAKS; nbreaks is a u8
    MaxLabels,   \* the size of labels[] and gotos[], 64
    MaxEnds,     \* the size of endjumps[] in mccomp_if, 64
    U8           \* 2^8: nactive, freereg, in_loop and num_upvals wrap here

ASSUME CompAssumption ==
    /\ {MaxLocals, MaxBreaks, MaxLabels, MaxEnds} \subseteq Nat
    /\ U8 \in Nat \ {0}
    /\ MaxBreaks < U8

VARIABLES
    fs,     \* the MCComp of every function being compiled, the outermost first
    ctl,    \* the open handlers
    heap,   \* what the arena still grants: "ample", "tight", "short", "lean" or "full"
    phase   \* "running", "returned" (bytecode), "null" (refused), "wild"

NoJump  == -1       \* NO_JUMP
MultRet == -1       \* MULTRET

Instr(op, a, b, c) == [op |-> op, a |-> a, b |-> b, c |-> c, k |-> FALSE]
Jump(sj)           == Instr("JMP", sj, 0, 0)

Bigger(a, b) == IF a > b THEN a ELSE b

Top == fs[Len(fs)]
On(F, c) == [F EXCEPT ![Len(F)] = c]
TopOf(F) == F[Len(F)]

-----------------------------------------------------------------------------
(* Code and registers *)

\* FUNCLEN, and the pc the next mccomp_emit returns.
FuncLen(c) == Len(c.code)
NextPC(c) == IF heap = "full" THEN NoJump ELSE FuncLen(c)

EmitQuiet(c, i) ==   \* mutant: a full arena goes unnoticed
    IF heap = "full" THEN [c EXCEPT !.lost = @ \cup {"code"}]
    ELSE [c EXCEPT !.code = Append(@, i), !.maxreg = Bigger(@, c.freereg)]

\* mccomp_emit.  A full arena loses the instruction and sets error.
Emit(c, i) ==
    IF heap = "full"
      THEN [c EXCEPT !.error = TRUE, !.lost = @ \cup {"code"}]
      ELSE [c EXCEPT !.code = Append(@, i), !.maxreg = Bigger(@, c.freereg)]

\* mccomp_patch for each of a set of jumps.  NoJump is none.
PatchAll(c, pcs, target) ==
    [c EXCEPT !.code = [i \in DOMAIN c.code |->
                           IF i - 1 \in pcs THEN Jump(target - i) ELSE c.code[i]]]

PatchToPC(c, pc, target) ==   \* mutant: forgets that a jump is relative to its successor
    PatchAll(c, {pc}, target + 1)

\* mccomp_patch
Patch(c, pc, target) == PatchAll(c, {pc}, target)

SetFree(c, reg) == [c EXCEPT !.freereg = reg % U8]

\* mccomp_reserve: the register is the old freereg.
Reserve(c) ==
    LET free == (c.freereg + 1) % U8
    IN  [c EXCEPT !.freereg = free, !.maxreg = Bigger(@, free)]

-----------------------------------------------------------------------------
(* Locals and upvalues *)

Local(name, reg, attrib) == [name |-> name, reg |-> reg, attrib |-> attrib]

\* mccomp_newlocal fails for the i-th of n names declared in a row.
TooManyLocals(c, n) == \E i \in 0 .. n - 1 : (c.nactive + i) % U8 >= MaxLocals

\* mccomp_newlocal.  locals[] is an array: what lies above nactive stays.
NewLocal(c, name, reg) ==
    LET l == Local(name, reg % U8, "none") IN
    [c EXCEPT !.locals  = IF c.nactive < Len(@) THEN [@ EXCEPT ![c.nactive + 1] = l]
                                                ELSE Append(@, l),
              !.nactive = (@ + 1) % U8]

Active(c) == 1 .. c.nactive

\* mccomp_resolve_local, as an index into locals; 0 when the name is not one.
LocalIndex(c, name) ==
    LET hits == {i \in Active(c) : c.locals[i].name = name}
    IN  IF hits = {} THEN 0 ELSE CHOOSE i \in hits : \A j \in hits : j <= i

(***************************************************************************)
(* upvals is every capture of a function in the order they were made.  The *)
(* array of the code has U8 places, counted here from 1, and num_upvals is *)
(* a u8: capture n is written to place (n - 1) % U8 + 1, over what is      *)
(* there, and the loops that look a name up see the last num_upvals of     *)
(* the captures only.                                                      *)
(***************************************************************************)
NumUpvals(c) == Len(c.upvals) % U8
UpPlace(n) == ((n - 1) % U8) + 1

\* The first of the upvalues in sight that has the name; 0 when none has it.
UpIndex(c, name) ==
    LET hits == {i \in Len(c.upvals) - NumUpvals(c) + 1 .. Len(c.upvals) : c.upvals[i].name = name}
    IN  IF hits = {} THEN 0 ELSE CHOOSE i \in hits : \A j \in hits : i <= j

(***************************************************************************)
(* mccomp_resolve_upval for function d: the innermost level at which the   *)
(* name is an upvalue already or a local of the parent, and then one more  *)
(* upvalue in each function from there down to d.                          *)
(***************************************************************************)
Finds(F, l, name) ==
    UpIndex(F[l], name) # 0 \/ (l > 1 /\ LocalIndex(F[l - 1], name) # 0)

OutermostLevel(F, name) ==   \* mutant: starts from the main function
    LET ls == {l \in DOMAIN F : Finds(F, l, name)}
    IN  IF ls = {} THEN 0 ELSE CHOOSE l \in ls : \A m \in ls : l <= m

UpLevel(F, name) ==
    LET ls == {l \in DOMAIN F : Finds(F, l, name)}
    IN  IF ls = {} THEN 0 ELSE CHOOSE l \in ls : \A m \in ls : m <= l

\* The place the name has in function l once mccomp_resolve_upval is done.
UpAfter(F, l, name) ==
    UpPlace(IF UpIndex(F[l], name) # 0 THEN UpIndex(F[l], name) ELSE Len(F[l].upvals) + 1)

\* The name is a local of the function around that level.
FromLocal(F, name) == UpIndex(F[UpLevel(F, name)], name) = 0

\* The upvalue that function l gets.
NewUp(F, l, name) ==
    IF l = UpLevel(F, name)
      THEN [name |-> name, instack |-> TRUE,
            idx |-> F[l - 1].locals[LocalIndex(F[l - 1], name)].reg]
      ELSE [name |-> name, instack |-> FALSE, idx |-> UpAfter(F, l - 1, name)]

\* array_ensure: the array has room for 2 upvalues and doubles.  It is never
\* asked for more than U8 places.
Stuck(c) ==
    /\ heap \in {"short", "lean", "full"}
    /\ Len(c.upvals) < U8
    /\ \E k \in 1 .. Len(c.upvals) : Len(c.upvals) = 2 ^ k

\* Function l must get the upvalue: it has none of that name, and no function further
\* in finds one.  It does get it, for the outer ones come first and the first that
\* cannot ends it.
Needs(F, l, name) ==
    UpIndex(F[l], name) = 0 /\ \A m \in DOMAIN F : m > l => ~ Finds(F, m, name)

GainsAlone(F, l, name) ==   \* mutant: a failure further out does not end it
    Needs(F, l, name) /\ ~ Stuck(F[l])

Gains(F, l, name) ==
    Needs(F, l, name) /\ \A m \in DOMAIN F : m <= l /\ Needs(F, m, name) => ~ Stuck(F[m])

\* The owner of the variable is told of the capture first, whatever fails.
ResolveUpval(F, name) ==
    [l \in DOMAIN F |->
        IF Gains(F, l, name)
          THEN [F[l] EXCEPT !.upvals = Append(@, NewUp(F, l, name))]
        ELSE IF l = UpLevel(F, name) - 1 /\ FromLocal(F, name)
          THEN [F[l] EXCEPT !.has_capture = TRUE]
        ELSE F[l]]

IsLocal(F, name) == LocalIndex(TopOf(F), name) # 0

\* A name that is not a local may be an upvalue, if all who need it get it.
IsUpval(F, name) ==
    /\ ~ IsLocal(F, name)
    /\ UpLevel(F, name) # 0
    /\ \A l \in DOMAIN F : Needs(F, l, name) => ~ Stuck(F[l])

IsGlobal(F, name) == ~ IsLocal(F, name) /\ ~ IsUpval(F, name)

-----------------------------------------------------------------------------
(***************************************************************************)
(* Expressions.  mccomp_exp leaves its value in the entry freereg, which   *)
(* becomes freereg + 1; a call or "..." that is asked for n values leaves  *)
(* freereg + n, and freereg itself when all of them are wanted (MULTRET).  *)
(* A constant, a name, a call f() of a global and "..." stand for all      *)
(* expressions: what matters here is registers, captures and failures.     *)
(***************************************************************************)
Const == "const"
Call  == "call"
Dots  == "vararg"

IsMulti(e) == e \in {Call, Dots}

\* mccomp_const_name: a global's name goes into the constants, whose array may
\* fail to grow ("tight", "lean": -1 without error); in a full arena the string
\* itself cannot be allocated (error).
NoConst == heap \in {"tight", "lean", "full"}
NeedsConst(F, e) == e = Call \/ (e \in Names /\ IsGlobal(F, e))
ExpFails(F, e) == NeedsConst(F, e) /\ NoConst

NoteFailure(c, what) == [c EXCEPT !.error = @ \/ heap = "full", !.lost = @ \cup {what}]

\* The functions when a name is to be taken for a global's: it may mean a
\* variable that could not be captured.
AsGlobal(F, name) ==
    IF UpLevel(F, name) = 0 THEN F
    ELSE [ResolveUpval(F, name) EXCEPT ![Len(F)] = NoteFailure(@, "capture")]

Name(F, n) ==
    LET c == TopOf(F)
        load(G, op, src) == [G EXCEPT ![Len(F)] = Emit(Reserve(@), Instr(op, @.freereg, src, 0))]
    IN  CASE IsLocal(F, n) -> load(F, "MOVE", c.locals[LocalIndex(c, n)].reg)
          [] IsUpval(F, n) -> load(ResolveUpval(F, n), "GETUPVAL", UpAfter(F, Len(F), n))
          [] OTHER         -> load(AsGlobal(F, n), "GETTABUP", 0)

\* mccomp_exp and mccomp_exp_multi on the innermost function.
Exp(F, e, want) ==
    LET c    == TopOf(F)
        base == c.freereg
        free == IF want = MultRet THEN base ELSE base + want
        r    == Reserve(c)
    IN  CASE e = Const -> On(F, Emit(r, Instr("LOADI", base, 0, 0)))
          [] e = Call  -> On(F, SetFree(Emit(Emit(r, Instr("GETTABUP", base, 0, 0)),
                                             Instr("CALL", base, 1, want + 1)), free))
          [] e = Dots  -> On(F, SetFree(Emit(r, Instr("VARARG", base, 0, want + 1)), free))
          [] OTHER     -> Name(F, e)

\* The functions when each of the first expressions of a list has given one value.
ExpSteps(F, es) == LET G[n \in Nat] == IF n = 0 THEN F ELSE Exp(G[n - 1], es[n], 1) IN G

\* A list of expressions: every one but the last gives one value, the last as
\* many as want says if it is a call or "...".
Exps(F, es, want) ==
    IF es = <<>> THEN F
    ELSE LET last == es[Len(es)]
             most == ExpSteps(F, es)[Len(es) - 1]
         IN  Exp(most, last, IF IsMulti(last) THEN want ELSE 1)

\* One of the list cannot be compiled: an earlier one may have taken the last
\* place for an upvalue.
ExpsFail(F, es) == \E i \in DOMAIN es : ExpFails(ExpSteps(F, es)[i - 1], es[i])

\* LOADNIL for the names or targets that no expression feeds.
LoadNil(c, from, n) == IF n > 0 THEN Emit(c, Instr("LOADNIL", from % U8, n - 1, 0)) ELSE c

\* mccomp_cond: the value, a test, and the jump to be patched.  A failure of
\* the expression comes back as NO_JUMP.
Cond(F, e) ==
    IF ExpFails(F, e)
      THEN LET G == IF e = Call THEN F ELSE AsGlobal(F, e)
           IN  On(G, NoteFailure(TopOf(G), "test"))
      ELSE LET G == Exp(F, e, 1)
               c == Emit(TopOf(G), Instr("TEST", TopOf(F).freereg, 0, 0))
           IN  On(G, Emit(SetFree(c, c.nactive), Jump(0)))

CondJump(F, e) ==
    IF ExpFails(F, e) \/ heap = "full" THEN NoJump ELSE FuncLen(TopOf(Cond(F, e))) - 1
=============================================================================
