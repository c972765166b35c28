----------------------------- MODULE LuacChunk -----------------------------
(***************************************************************************)
(* The chunk that compile/mcluac.c:95-283 writes for a function, as the    *)
(* sequence of units it puts: bytes, instruction words, numbers and        *)
(* characters.  LuacBfr models how they reach the file.                    *)
(*                                                                         *)
(* A function is [num_params, is_vararg, max_stack, code, consts, upvals,  *)
(* protos].                                                                *)
(***************************************************************************)
EXTENDS Integers, Sequences

LOCAL INSTANCE SequencesExt

CONSTANTS
    Group,          \* 2^7: a size is written seven bits at a time
    MaxShortLen     \* MAXSHORTLEN

ASSUME ChunkAssumption == Group \in Nat \ {0, 1} /\ MaxShortLen \in Nat

Byte(n) == <<"byte", n>>
PutByte(n) == <<Byte(n)>>
PutAll(kind, xs) == [i \in DOMAIN xs |-> <<kind, xs[i]>>]
Chars(s) == [i \in 1 .. Len(s) |-> SubSeq(s, i, i)]

\* The groups of a size, the highest first; the last is marked.
Groups[x \in Nat] == IF x < Group THEN <<x>> ELSE Append(Groups[x \div Group], x % Group)
MarkFirst(gs) == [gs EXCEPT ![1] = @ + Group]      \* mutant: the wrong end is marked
MarkLast(gs) == [gs EXCEPT ![Len(gs)] = @ + Group]
DumpSize(x) == PutAll("byte", MarkLast(Groups[x]))

DumpNull == DumpSize(0)
DumpString(s) == DumpSize(Len(s) + 1) \o PutAll("char", Chars(s))

LuacData == <<25, 147, 13, 10, 26, 10>>
LuacInt == <<"int", <<22136>>>>         \* 0x5678
LuacNum == <<"flt", <<370, "5">>>>
DumpHeader(main_upvals) ==
    PutAll("byte", <<27, 76, 117, 97, 84, 0>> \o LuacData \o <<4, 8, 8>>)
    \o <<LuacInt, LuacNum, Byte(main_upvals)>>

VNumInt == 3
VNumFlt == 19
VShrStr == 4
VLngStr == 20

DumpConst(k) ==
    CASE k[1] = "int" -> <<Byte(VNumInt), <<"int", Tail(k)>>>>
      [] k[1] = "flt" -> <<Byte(VNumFlt), <<"flt", Tail(k)>>>>
      [] k[1] = "str" -> PutByte(IF Len(k[2]) <= MaxShortLen THEN VShrStr ELSE VLngStr) \o DumpString(k[2])
DumpConstants(consts) == DumpSize(Len(consts)) \o FlattenSeq([i \in DOMAIN consts |-> DumpConst(consts[i])])

DumpUpvalue(up) == <<Byte(up.instack), Byte(up.idx), Byte(0)>>
DumpUpvalues(upvals) == DumpSize(Len(upvals)) \o FlattenSeq([i \in DOMAIN upvals |-> DumpUpvalue(upvals[i])])

DumpDebug == DumpSize(0) \o DumpSize(0) \o DumpSize(0) \o DumpSize(0)

RECURSIVE DumpFunction(_, _, _)
DumpFunction(f, is_main, source) ==
    (IF is_main THEN DumpString(source) ELSE DumpNull)
    \o DumpSize(0) \o DumpSize(0)
    \o PutAll("byte", <<f.num_params, f.is_vararg, f.max_stack>>)
    \o DumpSize(Len(f.code)) \o PutAll("word", f.code)
    \o DumpConstants(f.consts)
    \o DumpUpvalues(f.upvals)
    \o DumpSize(Len(f.protos)) \o FlattenSeq([i \in DOMAIN f.protos |-> DumpFunction(f.protos[i], FALSE, source)])
    \o DumpDebug

\* luac_tofile
Chunk(f, source) == DumpHeader(Len(f.upvals)) \o DumpFunction(f, TRUE, source)
=============================================================================
