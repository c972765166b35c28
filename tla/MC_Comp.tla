------------------------------ MODULE MC_Comp ------------------------------
(* TLC instances of the statement compiler. *)
EXTENDS MCCompProps

CONSTANTS x, y

OneName == {x}
TwoNames == {x, y}
EachAlone == {<<x>>, <<y>>}
JustX == {<<x>>}
OneOrThree == {<<x>>, <<x, x, x>>}

NoExps == {<<>>}
OneConst == {<<Const>>}
XOrNone == {<<>>, <<x>>}
Reads == {<<>>, <<x>>}
Loads == {<<>>, <<x>>, <<Const, Const, Const>>}
CallOrTwo == {<<Call>>, <<Const, Const>>}
Ranges == {<<Const, Const>>, <<Const, Const, Const>>}

ConstCond == {Const}

Blocks == {"local", "assign", "call", "while", "repeat", "forin", "if", "break", "goto", "label"}
Scoping == {"local", "assign", "localfunc", "do"}
FailingKinds == {"local", "fornum", "while", "repeat", "forin", "return", "break", "funcdef", "funcexpr"}
ForBreak == {"fornum", "break"}
=============================================================================
