------------------------------- MODULE MC_Exp -------------------------------
(***************************************************************************)
(* TLC instance: families of statements, one for each part of the          *)
(* expression compiler, with words scaled to 5-bit operands and two fields *)
(* a SETLIST.                                                              *)
(***************************************************************************)
EXTENDS MCExpProps

Node(t, s, n, kids) == [t |-> t, s |-> s, n |-> n, kids |-> kids]
Leaf(t) == Node(t, "", 0, <<>>)
N(s) == Node("name", s, 0, <<>>)
I(n) == Node("int", "", n, <<>>)
F(n, frac) == Node("flt", frac, n, <<>>)
S(s) == Node("str", s, 0, <<>>)
Bin(op, l, r) == Node("bin", op, 0, <<l, r>>)
Un(op, e) == Node("un", op, 0, <<e>>)
Paren(e) == Node("paren", "", 0, <<e>>)
CallOf(f, args) == Node("call", "", 0, <<f>> \o args)
MethodOf(o, m, args) == Node("method", m, 0, <<o>> \o args)
Dot(e, s) == Node("field", s, 0, <<e>>)
Idx(e, k) == Node("index", "", 0, <<e, k>>)
TableOf(fields) == Node("table", "", 0, fields)
Item(e) == Node("value", "", 0, <<e>>)
Named(s, e) == Node("named", s, 0, <<e>>)
Keyed(k, e) == Node("keyed", "", 0, <<k, e>>)
Dots == Leaf("vararg")

NoExp == Leaf("nil")
Ret(es) == [t |-> "return", cond |-> NoExp, targets |-> <<>>, exps |-> es]
If1(e) == [t |-> "if", cond |-> e, targets |-> <<>>, exps |-> <<N("y")>>]
Set1(targets, es) == [t |-> "assign", cond |-> NoExp, targets |-> targets, exps |-> es]

\* Names: x and y are locals (the first x is hidden), u an upvalue, the others
\* globals: functions, a table with a field "m", and nothing.
MCLocals == <<"x", "y", "x", "k">>
MCUpvals == <<"_ENV", "u">>

Fns == [f |-> <<"fn", "two">>, g |-> <<"fn", "one">>, h |-> <<"fn", "none">>]
Vals1 == {<<"nil">>, <<"bool", FALSE>>, <<"int", 1>>, <<"int", 2>>, <<"table", 1>>}

World(dots) ==
    [globals |-> [n \in {"f", "g", "h", "t"} |-> IF n = "t" THEN <<"table", 1>> ELSE Fns[n]],
     upvals |-> <<<<"env">>, <<"int", 1>>>>,
     tables |-> <<[k \in {<<"str", "m">>} |-> <<"fn", "two">>]>>,
     events |-> <<>>, dots |-> dots, raised |-> FALSE]

EnvOf(x, y) == [world |-> World(<<<<"int", 7>>, <<"nil">>>>), ls |-> <<<<"int", 0>>, y, x, <<"int", 9>>>>]
Envs(xs, ys) == {EnvOf(x, y) : x \in xs, y \in ys}
Ints == {<<"int", 1>>, <<"int", 2>>}

Run(stats, rooms, envs) == [stat : stats, room : rooms, env : envs]
Room(code, consts, quiet) == [code |-> code, consts |-> consts, quiet |-> quiet]
Enough == {Ample}

Call2 == CallOf(N("f"), <<>>)
Simple == {N("x"), N("y"), I(1), Call2}
Few == {N("x"), N("f"), Dots}
Alls == {"<", ">", "<=", ">=", "==", "~=", "and", "or", ".."} \cup {ArithToks[i] : i \in DOMAIN ArithToks}

Pairs == {Bin(op, l, r) : op \in Alls, l \in Simple, r \in Simple}
Logics == {Bin(op, l, r) : op \in {"and", "or", "<", "=="}, l \in {N("x"), N("y"), Leaf("true")}, r \in {N("x"), N("y")}}
Nested == {Bin(op, l, r) : op \in {"and", "or", "~="}, l \in Logics, r \in {e \in Logics : e.s \in {"and", "<"} /\ e.kids[1].t = "name"}}
          \cup {Bin(op, Un("not", l), N("x")) : op \in {"and", "or"}, l \in Logics}
Mixed == {Bin(op, Bin(p, a, b), c) : op \in {"+", "..", ">"}, p \in {"-", "..", "or"}, a \in Few, b \in Few, c \in Few}
         \cup {Bin(op, c, Bin(p, a, b)) : op \in {"+", "..", ">"}, p \in {"-", "..", "or"}, a \in Few, b \in Few, c \in Few}
Leaves == {N(n) : n \in {"x", "y", "u", "t", "none"}} \cup {Leaf(t) : t \in {"nil", "true", "false", "vararg"}}
          \cup {I(n) : n \in {-1024, -1023, 0, 1023, 1024}} \cup {F(n, s) : n \in {1023, 1024}, s \in {"0", "5"}} \cup {S("s")}
Unops == {Un(op, e) : op \in {"-", "~", "#", "not"}, e \in Leaves}

Args == UNION {[1 .. n -> {N("x"), Dots, Call2, Paren(Dots)}] : n \in 0 .. 2}
Calls == {CallOf(N(f), a) : f \in {"f", "h"}, a \in Args} \cup {MethodOf(N(o), "m", a) : o \in {"t", "x"}, a \in Args}
         \cup {CallOf(Bin("or", N("x"), N("f")), a) : a \in Args}
Reads == {Idx(t, k) : t \in {N("t"), N("x"), Call2}, k \in {I(0), I(31), I(32), I(-1), S("m"), N("y"), Call2}}
         \cup {Dot(t, "m") : t \in {N("t"), N("x"), N("none")}} \cup {Dot(Dot(N("t"), "m"), "n")}

Items == {Item(N("x")), Item(Dots), Item(Call2), Item(Bin("and", N("x"), I(3))), Named("a", Call2),
          Keyed(I(5), N("y")), Keyed(S("b"), Call2), Keyed(N("k"), Bin("+", N("x"), N("y")))}
\* Longer lists of values than one flush are not compiled to what they mean.
Flushes(fs) == Cardinality({k \in DOMAIN fs : fs[k].t = "value"})
OpenList(fs) == fs # <<>> /\ fs[Len(fs)] \in {Item(Dots), Item(Call2)}
Tables == {TableOf(fs) : fs \in {fs \in UNION {[1 .. n -> Items] : n \in 0 .. 3} :
                Flushes(fs) <= FieldsPerFlush /\ ~(OpenList(fs) /\ Flushes(fs) = FieldsPerFlush)}}
          \cup {TableOf(<<Item(TableOf(<<Item(N("x"))>>)), Named("a", TableOf(<<>>))>>)}

Targets == {<<N(n)>> : n \in {"x", "y", "u", "none", "k"}}
           \cup {<<N("x"), N("y")>>, <<N("u"), Dot(N("t"), "m"), N("y")>>, <<Idx(N("t"), S("q")), Idx(N("t"), I(3))>>,
                 <<Idx(Call2, N("y"))>>, <<Idx(N("x"), CallOf(N("g"), <<>>)), N("none")>>}
Lists == UNION {[1 .. n -> {N("x"), N("y"), Call2, Dots}] : n \in 1 .. 3}

\* For heaps that run out.  A condition that fails without an error compiles to
\* no jump, so the second kind of failure is left out for "if".
Starved == {Bin(op, l, r) : op \in {"<", "and", "+"}, l \in {Call2, N("x")}, r \in {Call2, I(1024)}}
           \cup {TableOf(<<Item(N("f")), Named("a", Call2), Keyed(S("b"), Call2)>>), Idx(N("t"), S("m")),
                 MethodOf(N("t"), "m", <<F(1, "5")>>)}

OneOf(es) == {Ret(<<e>>) : e \in es}
MCPrograms ==
    Run(OneOf(Pairs), Enough, Envs(Ints, {<<"nil">>, <<"int", 2>>}))
    \cup Run(OneOf(Nested) \cup {If1(e) : e \in Nested}, Enough, Envs(Vals1 \ {<<"nil">>, <<"table", 1>>}, {<<"bool", FALSE>>, <<"int", 1>>}))
    \cup Run(OneOf(Mixed \cup Leaves \cup Unops), Enough, Envs({<<"int", 1>>, <<"nil">>}, Ints))
    \cup Run(OneOf(Calls \cup Reads \cup Tables), Enough, Envs({<<"nil">>, <<"table", 1>>}, {<<"int", 2>>}))
    \cup Run({Set1(ts, es) : ts \in Targets, es \in Lists} \cup {Ret(es) : es \in Lists \cup {<<>>}}, Enough,
             Envs({<<"nil">>, <<"table", 1>>}, {<<"int", 2>>}))
    \cup Run(OneOf(Starved) \cup {Set1(<<N("u"), Dot(N("t"), "m"), N("none")>>, <<e>>) : e \in Starved},
             {Room(c, n, q) : c \in 0 .. 9, n \in 0 .. 4, q \in BOOLEAN}, Envs({<<"nil">>}, Ints))
    \cup Run({If1(e) : e \in Starved}, {Room(c, n, FALSE) : c \in 0 .. 9, n \in 0 .. 4}, Envs({<<"nil">>}, Ints))
=============================================================================
