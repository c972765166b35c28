---------------------------- MODULE MCCompProps ----------------------------
(***************************************************************************)
(* What the bytecode of the compiler must satisfy.  The properties read    *)
(* the open functions (fs) and the function finished last (final).         *)
(***************************************************************************)
EXTENDS MCComp

OpenFuncs == {fs[d] : d \in DOMAIN fs}
Finished == {final[i] : i \in DOMAIN final}

Target(pc, instr) == pc + 1 + instr.a

\* Every variable keeps its type, and the stacks stay in step: as many function
\* frames as functions.
TypeOK ==
    /\ heap \in {"ample"} \cup HeapLimits
    /\ phase \in {"running", "returned", "null", "wild"}
    /\ stats \in 0..MaxStats
    /\ \A c \in OpenFuncs :
          /\ {c.nactive, c.freereg, c.maxreg} \subseteq 0 .. U8 - 1
          /\ Len(c.breaks) <= MaxBreaks
          /\ \A i \in DOMAIN c.locals : c.locals[i].reg \in 0 .. U8 - 1
          /\ \A o \in c.owed : o.loop \in DOMAIN ctl
    /\ Cardinality({i \in DOMAIN ctl : ctl[i].k = "func"}) = Len(fs)

\* Every break lands just behind the innermost loop around it, and every
\* condition and end-of-clause jump where its construct puts it
\* (mccompile.c:1103-1106, 1123-1126, 1145-1149, 1291-1293).
BranchesLand ==
    \A c \in OpenFuncs \cup Finished :
        \A l \in c.lands :
            /\ l.pc # NoJump
            /\ c.code[l.pc + 1].op = "JMP"
            /\ Target(l.pc, c.code[l.pc + 1]) = l.at

\* No branch of a finished function leaves its code: jumps by any amount, loop
\* instructions back to their body, prep instructions to the loop instruction
\* (mccompile.c:103-111, 1196-1201, 1282-1289).
JumpsInside ==
    \A c \in Finished : \A i \in DOMAIN c.code :
        LET instr == c.code[i]
            pc    == i - 1
        IN  /\ instr.op = "JMP" => Target(pc, instr) \in 0 .. Len(c.code) - 1
            /\ instr.op = "FORPREP" => c.code[pc + 1 + instr.b + 1].op = "FORLOOP"
            /\ instr.op = "TFORPREP" => c.code[pc + 1 + instr.b + 1].op = "TFORCALL"
            /\ instr.op = "FORLOOP" => c.code[pc + 1 - instr.b].op = "FORPREP"
            /\ instr.op = "TFORLOOP" => c.code[pc + 1 - instr.b].op = "TFORPREP"

\* The variables the upvalues of every function stand for, each as the level and
\* the register that hold it.
HolderSteps(F) ==
    LET H[d \in Nat] ==
            IF d = 0 THEN <<>>
            ELSE [i \in DOMAIN F[d].upvals |->
                    LET u == F[d].upvals[i]
                    IN  IF u.instack THEN <<d - 1, u.idx>> ELSE H[d - 1][u.idx]]
    IN  H

Holder(d, i) == HolderSteps(fs)[d][i]

\* The variable a name means outside function d: the innermost declaration.
Meaning(d, name) ==
    LET ls == {l \in 1 .. d - 1 : LocalIndex(fs[l], name) # 0}
        l  == CHOOSE m \in ls : \A k \in ls : k <= m
    IN  <<l, fs[l].locals[LocalIndex(fs[l], name)].reg>>

\* Upvalues are cached by name; still each of them is the innermost variable of
\* that name around its function, through any number of levels, and the owner
\* knows that it is captured (mccompile.c:140-169).  It holds as far as no
\* array on the way has been written past its last place.
UpvalsDenote ==
    \A d \in DOMAIN fs : (\A l \in 1 .. d : Len(fs[l].upvals) <= U8) =>
        \A i \in DOMAIN fs[d].upvals :
            LET u == fs[d].upvals[i] IN
            u.name # Env =>
                /\ u.instack \/ u.idx \in DOMAIN fs[d - 1].upvals
                /\ Holder(d, i) = Meaning(d, u.name)
                /\ fs[Holder(d, i)[1]].has_capture

\* Between statements every active local of the innermost function lies below
\* freereg and no two of them share a register, so temporaries never overwrite
\* one; and so do the control registers of its open for loops, as long as the
\* function never had so many locals at a time that nactive wrapped
\* (mccompile.c:905-936, 1182-1188).
LocalsKept ==
    phase = "running" =>
        /\ \A i \in Active(Top) : Top.locals[i].reg < Top.freereg
        /\ \A i, j \in Active(Top) : i # j => Top.locals[i].reg # Top.locals[j].reg
        /\ Len(Top.locals) < U8 =>
              \A i \in InFunc : ctl[i].k \in {"fornum", "forin"} => ctl[i].base + 2 < Top.freereg

\* A goto that is not pending jumps to the first label of its name.
GotosReachLabel ==
    \A c \in OpenFuncs \cup Finished : \A j \in c.jumps :
        \/ \E i \in DOMAIN c.gotos : c.gotos[i].pc = j.pc /\ c.gotos[i].name = j.name
        \/ /\ FirstLabel(c, j.name) # 0
           /\ Target(j.pc, c.code[j.pc + 1]) = c.labels[FirstLabel(c, j.name)].pc

\* What is lost without an error when only some arrays can grow: a condition or
\* a global function whose name has no constant, a variable that is captured too
\* late and taken for a global.
Unnoticed ==
    (IF heap \in {"tight", "lean"} THEN {"test", "name"} ELSE {}) \cup
    (IF heap \in {"short", "lean"} THEN {"capture"} ELSE {})

\* What the compiler returns is the whole script, but for these: no instruction
\* is ever missing, and in a full arena nothing is, however deep the function was
\* in which it was lost (mccompile.c:98-101, 1603-1605).
CodeIsWhole == phase = "returned" => final[1].lost \subseteq Unnoticed
=============================================================================
