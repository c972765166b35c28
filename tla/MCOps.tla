------------------------------- MODULE MCOps -------------------------------
(***************************************************************************)
(* The instruction words of lib/mclops.h: how the CREATE_ macros pack an   *)
(* opcode and its operands into a u32, and how the GET macros take them    *)
(* out again.  A shift is a factor; the "|" of a packing is "+", which is  *)
(* the same as long as each operand fits its field (the callers cast them  *)
(* to u8).                                                                 *)
(***************************************************************************)
EXTENDS Integers

CONSTANTS
    OpRange,    \* 2^SIZE_OP, 128
    U8          \* the range of A, B and C, 2^8

ASSUME OpsAssumption == OpRange \in Nat \ {0} /\ U8 \in Nat \ {0}

PosA == OpRange
PosK == PosA * U8
PosB == PosK * 2
PosC == PosB * U8

MaxArgBx == 2 * U8 * U8 - 1
OffsetSBx == MaxArgBx \div 2
MaxArgSJ == 2 * U8 * U8 * U8 - 1
OffsetSJ == MaxArgSJ \div 2

CreateABCk(o, a, b, c, k) == o + a * PosA + k * PosK + b * PosB + c * PosC
CreateABx(o, a, bx) == o + a * PosA + bx * PosK
CreateAsBx(o, a, sbx) == CreateABx(o, a, sbx + OffsetSBx)
CreateAx(o, ax) == o + ax * PosA
CreateSJ(o, sj) == o + (sj + OffsetSJ) * PosA

GetOpcode(i) == i % OpRange
GetArgA(i) == (i \div PosA) % U8
GetArgB(i) == (i \div PosB) % U8
GetArgC(i) == (i \div PosC) % U8
GetArgK(i) == (i \div PosK) % 2
GetArgBx(i) == (i \div PosK) % (MaxArgBx + 1)
GetArgSBx(i) == GetArgBx(i) - OffsetSBx
GetArgAx(i) == i \div PosA
GetArgSJ(i) == ((i \div PosA) % (MaxArgSJ + 1)) - OffsetSJ
=============================================================================
