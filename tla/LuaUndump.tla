----------------------------- MODULE LuaUndump -----------------------------
(***************************************************************************)
(* How Lua 5.4 reads a chunk, external.  A reader takes and returns the    *)
(* units b, the place p of the next one, whether all was well so far, and  *)
(* the values got, the last in front.                                      *)
(***************************************************************************)
EXTENDS Integers, Sequences

LOCAL INSTANCE SequencesExt

CONSTANTS
    Group    \* 2^7

Reading(b) == [b |-> b, p |-> 1, ok |-> TRUE, got |-> <<>>]
Bad(r) == [r EXCEPT !.ok = FALSE]
Got(r, n, v) == IF r.ok THEN [r EXCEPT !.p = @ + n, !.got = <<v>> \o @] ELSE r
Rest(r) == SubSeq(r.b, r.p, Len(r.b))

Unit(r, kind) ==
    IF r.p \in DOMAIN r.b /\ r.b[r.p][1] = kind THEN Got(r, 1, r.b[r.p][2]) ELSE Bad(r)
Units(r, kind, n) ==
    IF r.p + n - 1 <= Len(r.b) /\ \A i \in r.p .. r.p + n - 1 : r.b[i][1] = kind
      THEN Got(r, n, [i \in 1 .. n |-> r.b[r.p + i - 1][2]]) ELSE Bad(r)

\* Seven bits a byte until one is marked.
Marked(r) == SelectInSeq(Rest(r), LAMBDA u : u[1] # "byte" \/ u[2] >= Group)
Number(units) == FoldLeft(LAMBDA x, u : Group * x + (u[2] % Group), 0, units)
Counted(r, n) == IF n = 0 \/ Rest(r)[n][1] # "byte" THEN Bad(r) ELSE Got(r, n, Number(SubSeq(Rest(r), 1, n)))
LoadSize(r) == Counted(r, Marked(r))

\* What is at the front of got, without it, and with another value there.
Top(r) == Head(r.got)
Drop(r) == IF r.ok THEN [r EXCEPT !.got = Tail(@)] ELSE r
Become(r, Of(_)) == IF r.ok THEN Got(Drop(r), 0, Of(Top(r))) ELSE r

\* So many of something as the size at the front says.
Collect(r, n) == [r EXCEPT !.got = <<Reverse(SubSeq(@, 1, n))>> \o SubSeq(@, n + 1, Len(@))]
Many(r, n, Load(_)) == FoldLeft(LAMBDA s, i : IF s.ok THEN Load(s) ELSE s, r, [i \in 1 .. n |-> i])
Gathered(r, n) == IF r.ok THEN Collect(r, n) ELSE r
Sized(r, Load(_)) ==
    IF r.ok /\ Top(r) <= Len(r.b) THEN Gathered(Many(Drop(r), Top(r), Load), Top(r)) ELSE Bad(r)
LoadVector(r, Load(_)) == Sized(LoadSize(r), Load)

NoString == <<"null">>
Joined(chars) == FoldLeft(LAMBDA s, c : s \o c, "", chars)
StringOf(r) ==
    CASE ~r.ok -> r
      [] r.ok /\ Top(r) = 0 -> Got(Drop(r), 0, NoString)
      [] OTHER -> Become(Units(Drop(r), "char", Top(r) - 1), Joined)
LoadString(r) == StringOf(LoadSize(r))

ConstOf(r) ==
    CASE ~r.ok -> r
      [] r.ok /\ Top(r) = 3 -> Become(Unit(Drop(r), "int"), LAMBDA v : <<"int">> \o v)
      [] r.ok /\ Top(r) = 19 -> Become(Unit(Drop(r), "flt"), LAMBDA v : <<"flt">> \o v)
      [] r.ok /\ Top(r) \in {4, 20} -> Become(LoadString(Drop(r)), LAMBDA v : <<"str", v>>)
      [] OTHER -> Bad(r)
LoadConst(r) == ConstOf(Unit(r, "byte"))

LoadUpvalue(r) == Units(r, "byte", 3)
LoadWord(r) == Unit(r, "word")
LoadByte(r) == Unit(r, "byte")

\* Line numbers, absolute lines, local variables and the names of upvalues.
LoadDebug(r) == Drop(Drop(Drop(Drop(LoadVector(LoadVector(LoadVector(LoadVector(r,
    LoadByte), LoadSize), LoadString), LoadString)))))

\* The values of a function, taken from the front of got.
Made(r) ==
    IF ~r.ok THEN r ELSE
    [r EXCEPT !.got = <<[num_params |-> @[7], is_vararg |-> @[6], max_stack |-> @[5], code |-> @[4],
                         consts |-> @[3], upvals |-> [i \in DOMAIN @[2] |-> [instack |-> @[2][i][1], idx |-> @[2][i][2]]],
                         protos |-> @[1], source |-> @[10]]>> \o SubSeq(@, 11, Len(@))]

RECURSIVE LoadFunction(_)
LoadBody(r) ==
    LoadVector(LoadVector(LoadVector(LoadVector(r, LoadWord), LoadConst), LoadUpvalue), LoadFunction)
LoadFunction(r) ==
    IF r.ok THEN Made(LoadDebug(LoadBody(LoadByte(LoadByte(LoadByte(LoadSize(LoadSize(LoadString(r)))))))))
    ELSE Bad(r)

Signature == <<27, 76, 117, 97, 84, 0, 25, 147, 13, 10, 26, 10, 4, 8, 8>>
LoadHeader(r) == LoadByte(Unit(Unit(Units(r, "byte", 15), "int"), "flt"))
HeaderOk(r) == r.ok /\ r.got[4] = Signature /\ r.got[3] = <<22136>> /\ r.got[2] = <<370, "5">>

\* The main function, if all of the chunk was read and its header fits.
Loaded(h) == LoadFunction(h)
Accepts(b) == LoadHeader(Reading(b)).ok /\ HeaderOk(LoadHeader(Reading(b)))
Undump(b) == Loaded(LoadHeader(Reading(b)))
=============================================================================
