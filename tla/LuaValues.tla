----------------------------- MODULE LuaValues -----------------------------
(***************************************************************************)
(* What Lua does with values, as far as the instructions and the           *)
(* expressions of a script need it: external, shared by the machine that   *)
(* runs the code and by the meaning of expressions.  The result of an      *)
(* operator is the term that names the operator and its operands, so that  *)
(* equal results mean the same operation on the same values.               *)
(***************************************************************************)
EXTENDS Integers, Sequences

Nil == <<"nil">>
Bool(b) == <<"bool", b>>
TableRef(i) == <<"table", i>>   \* the i-th table that was created
Fn(name) == <<"fn", name>>      \* a function of the host

Truthy(v) == v \notin {Nil, Bool(FALSE)}
Numeric(v) == v[1] \in {"int", "flt", "op"}

Get(f, k) == IF k \in DOMAIN f THEN f[k] ELSE Nil
Put(f, k, v) == [x \in DOMAIN f \cup {k} |-> IF x = k THEN v ELSE f[x]]

(***************************************************************************)
(* A world is all that a script can change or observe besides its locals:  *)
(* globals, upvalues, tables, the calls it made, the values of "...", and  *)
(* whether an error was raised.                                            *)
(***************************************************************************)
Raise(w) == [w EXCEPT !.raised = TRUE]

Global(w, name) == Get(w.globals, name)
SetGlobal(w, name, v) == [w EXCEPT !.globals = Put(@, name, v)]

IsTable(v) == v[1] = "table"
Read(w, t, k) == IF IsTable(t) THEN Get(w.tables[t[2]], k) ELSE Nil
Checked(w, t) == IF IsTable(t) THEN w ELSE Raise(w)
Write(w, t, k, v) == IF IsTable(t) THEN [w EXCEPT !.tables[t[2]] = Put(@, k, v)] ELSE Raise(w)

Create(w) == [w EXCEPT !.tables = Append(@, <<>>)]
Created(w) == TableRef(Len(w.tables))

\* Arithmetic of what is no number is left to the metamethod of the event.
Arith(tok, l, r) == <<"op", tok, l, r>>
Meta(tok, l, r) == <<"meta", tok, l, r>>
EventToks == <<"+", "-", "*", "%", "^", "/", "//", "&", "|", "~", "<<", ">>">>
EventTok(event) == EventToks[event - 5]     \* TM_ADD is 6
Unary(tok, v) == IF tok = "not" THEN Bool(~Truthy(v)) ELSE <<"op", tok, v>>
Concat(l, r) == <<"cat", l, r>>

\* Only integers are ordered here.
Ordered(l, r) == l[1] = "int" /\ r[1] = "int"
Less(l, r) == Ordered(l, r) /\ l[2] < r[2]
LessEq(l, r) == Ordered(l, r) /\ l[2] <= r[2]

\* Host functions return as many values as their name says: none, one or two.
HostResults == [none |-> 0, one |-> 1, two |-> 2]

Invoke(w, fn, args) ==
    IF fn[1] = "fn" THEN [w EXCEPT !.events = Append(@, <<fn, args>>)] ELSE Raise(w)
Results(w, fn) ==       \* of the call that is the last event of w
    IF fn[1] = "fn" THEN [i \in 1 .. HostResults[fn[2]] |-> <<"ret", Len(w.events), i>>] ELSE <<>>

\* A list of values adjusted to n.
Adjust(vs, n) == [i \in 1 .. n |-> IF i <= Len(vs) THEN vs[i] ELSE Nil]
=============================================================================
