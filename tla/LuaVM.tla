------------------------------- MODULE LuaVM -------------------------------
(***************************************************************************)
(* The machine the code is for: the instructions of Lua 5.4 that           *)
(* expressions are compiled to, external.  One action runs one             *)
(* instruction.  A call leaves nothing in the registers above its results. *)
(***************************************************************************)
EXTENDS MCExp

LOCAL INSTANCE LuaValues
LOCAL INSTANCE SequencesExt

VARIABLES
    out,        \* what Compile returned
    pc,
    regs,       \* R[0 .. U8 - 1]
    top,        \* one past the last of an open list of values
    world,
    results,    \* what was returned
    mode        \* "compile", "run", "end", "returned", "raised", "refused"

vmvars == <<out, pc, regs, top, world, results, mode>>

Junk == <<"junk">>
Word == out.code[pc + 1]
Opname == OpNames[GetOpcode(Word)]
A == GetArgA(Word)
B == GetArgB(Word)
C == GetArgC(Word)
K == GetArgK(Word)
Const(k) == out.consts[k + 1]
Bx == GetArgBx(Word)

Running == mode = "run" /\ pc < Len(out.code)

\* Registers from one on take the values; the ones behind them are lost if cut.
Place(from, vs, cut) ==
    [x \in DOMAIN regs |-> IF x \in from .. from + Len(vs) - 1 THEN vs[x - from + 1]
                           ELSE IF x >= from /\ cut THEN Junk ELSE regs[x]]

Go(skip, r, w) ==
    /\ pc' = pc + skip /\ regs' = r /\ world' = w
    /\ mode' = IF w.raised THEN "raised" ELSE "run"
    /\ UNCHANGED <<out, results>>

Set(v, w) == Go(1, [regs EXCEPT ![A] = v], w) /\ UNCHANGED top

Jump(w) == Go(w, regs, world) /\ UNCHANGED top
Test(cond) == Jump(IF cond # (K = 1) THEN 2 ELSE 1)

-----------------------------------------------------------------------------

LoadValue ==
    /\ Running
    /\ \/ Opname = "MOVE" /\ Set(regs[B], world)
       \/ Opname = "LOADI" /\ Set(KInt(GetArgSBx(Word)), world)
       \/ Opname = "LOADF" /\ Set(KFlt(GetArgSBx(Word), "0"), world)
       \/ Opname = "LOADK" /\ Set(Const(Bx), world)
       \/ Opname = "LOADTRUE" /\ Set(Bool(TRUE), world)
       \/ Opname = "LOADFALSE" /\ Set(Bool(FALSE), world)
       \/ Opname = "GETUPVAL" /\ Set(world.upvals[B + 1], world)
       \/ Opname = "GETTABUP" /\ Set(Global(world, Const(C)[2]), world)

LFalseSkip ==
    /\ Running /\ Opname = "LFALSESKIP"
    /\ Go(2, [regs EXCEPT ![A] = Bool(FALSE)], world) /\ UNCHANGED top

LoadNil ==
    /\ Running /\ Opname = "LOADNIL"
    /\ Go(1, Place(A, [i \in 1 .. B + 1 |-> Nil], FALSE), world) /\ UNCHANGED top

SetVariable ==
    /\ Running /\ UNCHANGED top
    /\ \/ Opname = "SETUPVAL" /\ Go(1, regs, [world EXCEPT !.upvals[B + 1] = regs[A]])
       \/ Opname = "SETTABUP" /\ Go(1, regs, SetGlobal(world, Const(B)[2], regs[C]))

ReadField ==
    /\ Running
    /\ \E key \in IF Opname = "GETTABLE" THEN {regs[C]} ELSE IF Opname = "GETI" THEN {KInt(C)}
                  ELSE IF Opname = "GETFIELD" THEN {Const(C)} ELSE {} :
          Set(Read(world, regs[B], key), Checked(world, regs[B]))

WriteField ==
    /\ Running /\ UNCHANGED top
    /\ \E key \in IF Opname = "SETTABLE" THEN {regs[B]} ELSE IF Opname = "SETI" THEN {KInt(B)}
                  ELSE IF Opname = "SETFIELD" THEN {Const(B)} ELSE {} :
          Go(1, regs, Write(world, regs[A], key, regs[C]))

Method ==
    /\ Running /\ Opname = "SELF"
    /\ Go(1, Place(A, <<Read(world, regs[B], Const(C)), regs[B]>>, FALSE), Checked(world, regs[B]))
    /\ UNCHANGED top

\* The word behind it is an operand.
MakeTable ==
    /\ Running /\ Opname = "NEWTABLE"
    /\ Go(2, [regs EXCEPT ![A] = Created(Create(world))], Create(world)) /\ UNCHANGED top

SetList ==
    /\ Running /\ Opname = "SETLIST"
    /\ LET n == IF B = 0 THEN top - A - 1 ELSE B
       IN  Go(1, regs, FoldLeft(LAMBDA w, i : Write(w, regs[A], KInt(C + i), regs[A + i]),
                                world, [i \in 1 .. n |-> i]))
    /\ UNCHANGED top

\* An operation on numbers skips the MMBIN behind it.
Arithmetics ==
    /\ Running /\ Opname \in {ArithNames[i] : i \in DOMAIN ArithNames}
    /\ LET tok == ArithToks[CHOOSE i \in DOMAIN ArithNames : ArithNames[i] = Opname]
       IN  IF Numeric(regs[B]) /\ Numeric(regs[C])
             THEN Go(2, [regs EXCEPT ![A] = Arith(tok, regs[B], regs[C])], world)
             ELSE Go(1, regs, world)
    /\ UNCHANGED top

\* It stores where the word before it would have.
MMBin ==
    /\ Running /\ Opname = "MMBIN"
    /\ Go(1, [regs EXCEPT ![GetArgA(out.code[pc])] = Meta(EventTok(C), regs[A], regs[B])], world)
    /\ UNCHANGED top

UnaryToks == [UNM |-> "-", BNOT |-> "~", LEN |-> "#", NOT |-> "not"]
Unaries == Running /\ Opname \in DOMAIN UnaryToks /\ Set(Unary(UnaryToks[Opname], regs[B]), world)

Concatenate == Running /\ Opname = "CONCAT" /\ B = 2 /\ Set(Concat(regs[A], regs[A + 1]), world)

JumpTo == Running /\ Opname = "JMP" /\ Jump(1 + GetArgSJ(Word))

CompareTest ==
    /\ Running
    /\ \/ Opname = "EQ" /\ Test(regs[A] = regs[B])
       \/ /\ Opname \in {"LT", "LE"}
          /\ IF Ordered(regs[A], regs[B])
               THEN Test(IF Opname = "LT" THEN Less(regs[A], regs[B]) ELSE LessEq(regs[A], regs[B]))
               ELSE Go(1, regs, Raise(world)) /\ UNCHANGED top

TruthTest ==
    /\ Running
    /\ \/ Opname = "TEST" /\ Test(Truthy(regs[A]))
       \/ /\ Opname = "TESTSET"
          /\ IF Truthy(regs[B]) # (K = 1) THEN Jump(2) ELSE Set(regs[B], world)

\* B - 1 arguments or all up to top; C - 1 results or all of them.
CallFunction ==
    /\ Running /\ Opname = "CALL"
    /\ LET args == [i \in 1 .. (IF B = 0 THEN top - A - 1 ELSE B - 1) |-> regs[A + i]]
           after == Invoke(world, regs[A], args)
           rets == Results(after, regs[A])
       IN  /\ Go(1, Place(A, IF C = 0 THEN rets ELSE Adjust(rets, C - 1), TRUE), after)
           /\ top' = IF C = 0 THEN A + Len(rets) ELSE top

Varargs ==
    /\ Running /\ Opname = "VARARG"
    /\ Go(1, Place(A, IF C = 0 THEN world.dots ELSE Adjust(world.dots, C - 1), FALSE), world)
    /\ top' = IF C = 0 THEN A + Len(world.dots) ELSE top

ReturnValues ==
    /\ Running /\ Opname \in {"RETURN", "RETURN0"}
    /\ mode' = "returned"
    /\ results' = IF Opname = "RETURN0" THEN <<>>
                  ELSE [i \in 1 .. (IF B = 0 THEN top - A ELSE B - 1) |-> regs[A + i - 1]]
    /\ UNCHANGED <<out, pc, regs, top, world>>

RunOff ==
    /\ mode = "run" /\ pc = Len(out.code)
    /\ mode' = "end"
    /\ UNCHANGED <<out, pc, regs, top, world, results>>

VMNext ==
    \/ LoadValue \/ LFalseSkip \/ LoadNil \/ SetVariable \/ ReadField \/ WriteField \/ Method
    \/ MakeTable \/ SetList \/ Arithmetics \/ MMBin \/ Unaries \/ Concatenate
    \/ JumpTo \/ CompareTest \/ TruthTest \/ CallFunction \/ Varargs \/ ReturnValues \/ RunOff
=============================================================================
