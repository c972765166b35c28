------------------------------ MODULE MCParse ------------------------------
(***************************************************************************)
(* The recursive descent parser of parse/mcparse.c.                        *)
(*                                                                         *)
(* The C call stack is an agenda: the steps the calls in progress still    *)
(* have to take, the innermost first.  A call is replaced by the steps of  *)
(* its function; what a function would branch on next is a call of its     *)
(* own.  The nodes its locals hold lie on a second stack.                  *)
(*                                                                         *)
(* A function that returns NULL takes its callers with it up to the        *)
(* parse_block that called parse_stat.  There only a syntax error goes on  *)
(* up; after a failed allocation the block carries on with the token at    *)
(* hand.                                                                   *)
(***************************************************************************)
EXTENDS Integers, SequencesExt

CONSTANTS
    Inputs,     \* what is parsed: [tokens, len, room], see Init
    HdrWords,   \* sizeof(HeapHeader), in words of one pointer
    NodeWords   \* sizeof(mclastnode)

ASSUME ParseAssumption ==
    /\ HdrWords \in Nat
    /\ NodeWords \in Nat
    /\ \A input \in Inputs : input.len \in Nat /\ input.room \in Nat

VARIABLES
    input,      \* the program text is made of its tokens, and no longer than its len
    text,       \* the tokens seen so far, the current one included
    pos,
    agenda,     \* the steps left; none when mcparse_run has returned
    nodes,      \* what the callers hold; at the end the root, or nothing
    room,       \* the words left in the heap
    error,
    lost        \* history: some allocation has failed

vars == <<input, text, pos, agenda, nodes, room, error, lost>>

CURTKN == text[pos]

(***************************************************************************)
(* The steps.                                                              *)
(***************************************************************************)
Item(op, arg, n, caps) == [op |-> op, arg |-> arg, n |-> n, caps |-> caps]

Call(rule) == Item("call", rule, 0, <<>>)
SubExp(min_prec) == Item("call", "subexp", min_prec, <<>>)
BinOps(min_prec) == Item("call", "binops", min_prec, <<>>)
Advance == Item("advance", "none", 0, <<>>)
Match(tk) == Item("match", tk, 0, <<>>)
Expect(tk) == Item("expect", tk, 0, <<>>)
Take(tk) == Item("take", tk, 0, <<>>)         \* Expect, and keep the Token*
PutBack == Item("putback", "none", 0, <<>>)       \* the token last taken
Reject == Item("reject", "none", 0, <<>>)
Reserve(caps) == Item("reserve", "none", 0, caps) \* mclast_alloc of each
Build(type, cap, n) == Item("build", type, n, <<cap>>)   \* of the last n values
Push == Item("push", "none", 0, <<>>)             \* the last value into the one before
Keep(depth) == Item("keep", "none", depth, <<>>)  \* the same, in parse_block
Count == Item("count", "none", 0, <<>>)           \* val.integer = child_count
Mark == Item("mark", "none", 0, <<>>)             \* val.integer = 1
Closed == Item("closed", "none", 0, <<>>)         \* history: was in parentheses

Make(type, cap, n) == <<Reserve(<<cap>>), Build(type, cap, n)>>
Leaf(tk, type) == <<Take(tk)>> \o Make(type, 0, 1)

(***************************************************************************)
(* Expressions.                                                            *)
(***************************************************************************)
Literal == [Int |-> "integer", Flt |-> "float", String |-> "string", nil |-> "nil",
            true |-> "true", false |-> "false"]

Multiple == {"call", "call_method", "vararg"}

LeftPrio(tk) ==
    CASE tk = "or" -> 1
      [] tk = "and" -> 2
      [] tk \in {"<", ">", "<=", ">=", "==", "~="} -> 3
      [] tk = "|" -> 4
      [] tk = "~" -> 5
      [] tk = "&" -> 6
      [] tk \in {"<<", ">>"} -> 7
      [] tk = ".." -> 8
      [] tk \in {"+", "-"} -> 9
      [] tk \in {"*", "/", "//", "%"} -> 10
      [] tk = "^" -> 12
      [] OTHER -> 0

RightPrioSame(tk) == LeftPrio(tk)   \* mutant: all operators associate to the left

RightPrio(tk) ==
    CASE tk = ".." -> 7
      [] tk = "^" -> 11
      [] OTHER -> LeftPrio(tk)

UNOP_PRIO == 11
is_unop(tk) == tk \in {"-", "not", "#", "~"}

parse_primaryexp(tk) ==
    CASE tk = "Name" -> Leaf("Name", "name")
      [] tk = "(" -> <<Advance, Call("exp"), Expect(")"), Closed, Call("paren")>>
      [] OTHER -> <<Reject>>

\* An expression of one value is not wrapped.
parse_paren(inner) == IF inner.type \in Multiple THEN Make("paren", 1, 1) ELSE <<>>

parse_args(tk) ==
    Make("explist", 4, 0) \o
    CASE tk = "(" -> <<Advance, Call("callargs"), Expect(")")>>
      [] tk = "{" -> <<Call("table"), Push>>
      [] tk = "String" -> Leaf("String", "string") \o <<Push>>
      [] OTHER -> <<Reject>>

parse_callargs(tk) == IF tk = ")" THEN <<>> ELSE <<Call("explist"), Push>>

parse_suffixedexp == <<Call("primaryexp"), Call("suffixes")>>

parse_suffixes(tk) ==
    CASE tk = "." ->
           <<Advance, Take("Name")>> \o Make("field", 1, 2) \o <<Call("suffixes")>>
      [] tk = "[" ->
           <<Advance, Call("exp"), Expect("]")>> \o Make("index", 2, 2) \o <<Call("suffixes")>>
      [] tk = ":" ->
           <<Advance, Take("Name"), Call("args")>> \o Make("call_method", 2, 3)
               \o <<Call("suffixes")>>
      [] tk \in {"(", "{", "String"} ->
           <<Call("args")>> \o Make("call", 2, 2) \o <<Call("suffixes")>>
      [] OTHER -> <<>>

parse_simpleexp(tk) ==
    CASE tk = "{" -> <<Call("table")>>
      [] tk \in DOMAIN Literal -> Leaf(tk, Literal[tk])
      [] tk = "..." -> Leaf(tk, "vararg")
      [] tk = "function" -> <<Advance, Call("funcbody")>> \o Make("func_expr", 1, 1)
      [] OTHER -> <<Call("suffixedexp")>>

parse_subexp(tk, min_prec) ==
    (IF is_unop(tk)
     THEN <<Take(tk), SubExp(UNOP_PRIO)>> \o Make("unop", 1, 2)
     ELSE <<Call("simpleexp")>>) \o <<BinOps(min_prec)>>

parse_binops(tk, min_prec) ==
    IF LeftPrio(tk) > min_prec
    THEN <<Take(tk), SubExp(RightPrio(tk))>> \o Make("binop", 2, 3) \o <<BinOps(min_prec)>>
    ELSE <<>>

parse_explist == Make("explist", 4, 0) \o <<Call("exp"), Push, Call("moreexps")>>

parse_moreexps(tk) ==
    IF tk = "," THEN <<Advance, Call("exp"), Push, Call("moreexps")>> ELSE <<>>

parse_tableconstructor ==
    Make("table", 4, 0) \o <<Expect("{"), Call("fields"), Expect("}")>>

parse_fields(tk) ==
    IF tk \in {"}", "eos"} THEN <<>> ELSE <<Call("field"), Push, Call("fieldsep")>>

parse_fieldsep(tk) == IF tk \in {",", ";"} THEN <<Advance, Call("fields")>> ELSE <<>>

parse_field(tk) ==
    CASE tk = "[" ->
           <<Advance, Call("exp"), Expect("]"), Expect("="), Call("exp")>>
               \o Make("field_idx", 2, 2)
      [] tk = "Name" -> <<Take("Name"), Call("namefield")>>
      [] OTHER -> <<Call("exp")>> \o Make("field_val", 1, 1)

\* mutant: the position is not restored
parse_namefield_lost(tk) ==
    IF tk = "="
    THEN <<Advance, Call("exp")>> \o Make("field_name", 1, 2)
    ELSE Make("field_val", 1, 1)

\* A name is a key only before '='; otherwise the position is restored.
parse_namefield(tk) ==
    IF tk = "="
    THEN <<Advance, Call("exp")>> \o Make("field_name", 1, 2)
    ELSE <<PutBack, Call("exp")>> \o Make("field_val", 1, 1)

(***************************************************************************)
(* Functions.  parse_function allocates its three nodes before it reads a  *)
(* token.                                                                  *)
(***************************************************************************)
parse_arglist(tk) ==
    CASE tk = ")" -> <<>>
      [] tk = "..." -> <<Advance, Mark>>
      [] OTHER -> Leaf("Name", "name") \o <<Push, Call("moreargs")>>

parse_moreargs(tk) == IF tk = "," THEN <<Advance, Call("arglist")>> ELSE <<>>

parse_funcbody ==
    <<Reserve(<<2>>), Expect("(")>> \o Make("arglist", 4, 0)
        \o <<Call("arglist"), Expect(")"), Call("block"), Build("funcbody", 2, 2), Expect("end")>>

\* The number it returns, 1 for a method, is left in the node here.
parse_funcname_into(tk) ==
    CASE tk = "." -> <<Advance>> \o Leaf("Name", "name") \o <<Push, Call("funcname")>>
      [] tk = ":" -> <<Advance>> \o Leaf("Name", "name") \o <<Push, Mark>>
      [] OTHER -> <<>>

parse_function ==
    <<Reserve(<<3, 2, 4>>), Advance,
      Take("Name"), Build("name", 2, 1), Call("funcname"),
      Build("arglist", 4, 0), Expect("("), Call("arglist"), Expect(")"),
      Call("block"), Build("funcdef", 3, 3), Expect("end")>>

parse_main ==
    <<Reserve(<<3, 2, 4>>), Build("name", 2, 0), Build("arglist", 4, 0), Mark,
      Call("block"), Build("funcdef", 3, 3)>>

(***************************************************************************)
(* Statements.                                                             *)
(***************************************************************************)
is_block_end(tk) == tk \in {"end", "else", "elseif", "until", "eos"}

parse_attname == <<Take("Name")>> \o Make("attname", 1, 1) \o <<Call("attrib")>>

parse_attrib(tk) ==
    IF tk = "<" THEN <<Advance>> \o Leaf("Name", "name") \o <<Push, Expect(">")>> ELSE <<>>

parse_retstat == Make("return", 4, 0) \o <<Advance, Call("retvals"), Match(";")>>

parse_retvals(tk) ==
    IF is_block_end(tk) \/ tk = ";" THEN <<>> ELSE <<Call("explist"), Push>>

parse_if ==
    <<Advance, Call("exp"), Expect("then"), Call("block")>> \o Make("if", 4, 2)
        \o <<Call("elseifs"), Expect("end")>>

parse_elseifs(tk) ==
    CASE tk = "elseif" ->
           <<Advance, Call("exp"), Expect("then"), Call("block")>> \o Make("elseif", 2, 2)
               \o <<Push, Call("elseifs")>>
      [] tk = "else" -> <<Advance, Call("block")>> \o Make("else", 1, 1) \o <<Push>>
      [] OTHER -> <<>>

parse_while ==
    <<Advance, Call("exp"), Expect("do"), Call("block"), Expect("end")>> \o Make("while", 2, 2)

parse_do == <<Advance, Call("block"), Expect("end")>> \o Make("do", 1, 1)

parse_for == <<Advance, Take("Name"), Call("forkind")>>

parse_forkind(tk) ==
    IF tk = "="
    THEN <<Advance, Call("exp"), Expect(","), Call("exp"), Call("forstep")>>
    ELSE <<Reserve(<<4>>)>> \o Make("name", 0, 1) \o
         <<Build("forin", 4, 1), Call("fornames"), Count, Expect("in"), Call("explist"), Push,
           Expect("do"), Call("block"), Expect("end"), Push>>

parse_forstep(tk) ==
    IF tk = ","
    THEN <<Advance, Call("exp"), Expect("do"), Call("block"), Expect("end")>>
             \o Make("fornum", 4, 5)
    ELSE <<Expect("do"), Call("block"), Expect("end")>> \o Make("fornum", 4, 4)

parse_fornames(tk) ==
    IF tk = "," THEN <<Advance>> \o Leaf("Name", "name") \o <<Push, Call("fornames")>> ELSE <<>>

parse_repeat ==
    <<Advance, Call("block"), Expect("until"), Call("exp")>> \o Make("repeat", 2, 2)

parse_local == <<Advance, Call("localkind")>>

parse_localkind(tk) ==
    IF tk = "function"
    THEN <<Advance, Take("Name"), Call("funcbody")>> \o Make("local_func", 1, 2)
    ELSE Make("local", 4, 0)
             \o <<Call("attname"), Push, Call("attnames"), Count, Call("localinit")>>

parse_attnames(tk) ==
    IF tk = "," THEN <<Advance, Call("attname"), Push, Call("attnames")>> ELSE <<>>

parse_localinit(tk) == IF tk = "=" THEN <<Advance, Call("explist"), Push>> ELSE <<>>

parse_goto == <<Advance, Take("Name")>> \o Make("goto", 0, 1)
parse_label == <<Advance, Take("Name"), Expect("::")>> \o Make("label", 0, 1)

parse_exprstat == <<Call("suffixedexp"), Call("assignorcall")>>

parse_assignorcall(tk, expr) ==
    IF tk \in {"=", ","}
    THEN Make("assign", 4, 1)
             \o <<Call("targets"), Count, Expect("="), Call("explist"), Push>>
    ELSE IF expr.type \in {"call", "call_method"} THEN Make("call_stat", 1, 1) ELSE <<Reject>>

parse_targets(tk) ==
    IF tk = "," THEN <<Advance, Call("suffixedexp"), Push, Call("targets")>> ELSE <<>>

parse_stat(tk) ==
    CASE tk = "if" -> parse_if
      [] tk = "while" -> parse_while
      [] tk = "do" -> parse_do
      [] tk = "for" -> parse_for
      [] tk = "repeat" -> parse_repeat
      [] tk = "function" -> parse_function
      [] tk = "local" -> parse_local
      [] tk = "goto" -> parse_goto
      [] tk = "break" -> <<Advance>> \o Make("break", 0, 0)
      [] tk = "::" -> parse_label
      [] OTHER -> parse_exprstat

parse_block == Make("block", 4, 0) \o <<Call("stats")>>

\* mutant: an empty statement is not read
parse_stats_stuck(tk, depth) ==
    CASE is_block_end(tk) -> <<>>
      [] tk = ";" -> <<Call("stats")>>
      [] tk = "return" -> <<Call("retstat"), Push, Match(";")>>
      [] OTHER -> <<Call("stat"), Keep(depth), Call("stats")>>

\* mutant: forgets one of the nodes the block holds
parse_stats_shallow(tk, depth) ==
    CASE is_block_end(tk) -> <<>>
      [] tk = ";" -> <<Advance, Call("stats")>>
      [] tk = "return" -> <<Call("retstat"), Push, Match(";")>>
      [] OTHER -> <<Call("stat"), Keep(depth - 1), Call("stats")>>

parse_stats(tk, depth) ==
    CASE is_block_end(tk) -> <<>>
      [] tk = ";" -> <<Advance, Call("stats")>>
      [] tk = "return" -> <<Call("retstat"), Push, Match(";")>>
      [] OTHER -> <<Call("stat"), Keep(depth), Call("stats")>>

Steps(item) ==
    LET tk == CURTKN
        rule == item.arg
    IN  CASE rule = "main" -> parse_main
          [] rule = "block" -> parse_block
          [] rule = "stats" -> parse_stats(tk, Len(nodes))
          [] rule = "stat" -> parse_stat(tk)
          [] rule = "exp" -> <<SubExp(0)>>
          [] rule = "subexp" -> parse_subexp(tk, item.n)
          [] rule = "binops" -> parse_binops(tk, item.n)
          [] rule = "simpleexp" -> parse_simpleexp(tk)
          [] rule = "suffixedexp" -> parse_suffixedexp
          [] rule = "primaryexp" -> parse_primaryexp(tk)
          [] rule = "paren" -> parse_paren(Last(nodes))
          [] rule = "suffixes" -> parse_suffixes(tk)
          [] rule = "args" -> parse_args(tk)
          [] rule = "callargs" -> parse_callargs(tk)
          [] rule = "explist" -> parse_explist
          [] rule = "moreexps" -> parse_moreexps(tk)
          [] rule = "table" -> parse_tableconstructor
          [] rule = "fields" -> parse_fields(tk)
          [] rule = "fieldsep" -> parse_fieldsep(tk)
          [] rule = "field" -> parse_field(tk)
          [] rule = "namefield" -> parse_namefield(tk)
          [] rule = "funcbody" -> parse_funcbody
          [] rule = "funcname" -> parse_funcname_into(tk)
          [] rule = "arglist" -> parse_arglist(tk)
          [] rule = "moreargs" -> parse_moreargs(tk)
          [] rule = "retstat" -> parse_retstat
          [] rule = "retvals" -> parse_retvals(tk)
          [] rule = "elseifs" -> parse_elseifs(tk)
          [] rule = "forkind" -> parse_forkind(tk)
          [] rule = "forstep" -> parse_forstep(tk)
          [] rule = "fornames" -> parse_fornames(tk)
          [] rule = "localkind" -> parse_localkind(tk)
          [] rule = "localinit" -> parse_localinit(tk)
          [] rule = "attname" -> parse_attname
          [] rule = "attnames" -> parse_attnames(tk)
          [] rule = "attrib" -> parse_attrib(tk)
          [] rule = "assignorcall" -> parse_assignorcall(tk, Last(nodes))
          [] rule = "targets" -> parse_targets(tk)

(***************************************************************************)
(* Nodes.  num is val.integer; at is the place of the token val was taken  *)
(* from (for nil, true, false and ..., which keep no value, a history).    *)
(* A token that is held but not yet in a node counts as a node of its own. *)
(***************************************************************************)
Node(type, at, cap) ==
    [type |-> type, at |-> at, num |-> 0, kids |-> <<>>, cap |-> cap, paren |-> FALSE]

Words(cap) == NodeWords + cap

\* What mclast_alloc of each of caps leaves of the heap; one that fails takes nothing.
Allocate(caps, left, i) ==
    LET need == HdrWords + Words(caps[i]) IN IF need <= left THEN left - need ELSE left

Left(caps) ==
    LET left[i \in Nat] == IF i = 0 THEN room ELSE Allocate(caps, left[i - 1], i)
    IN  left[Len(caps)]

Fits(caps) == room - Left(caps) = FoldLeft(LAMBDA sum, cap : sum + HdrWords + Words(cap), 0, caps)

\* mclast_push_child on [node, left, ok].
PushChild(s, kid) ==
    LET newcap == IF s.node.cap = 0 THEN 4 ELSE 2 * s.node.cap IN
    IF ~s.ok THEN s
    ELSE IF Len(s.node.kids) < s.node.cap
    THEN [s EXCEPT !.node.kids = Append(@, kid)]
    ELSE IF Words(newcap) <= s.left
    THEN [node |-> [s.node EXCEPT !.kids = Append(@, kid), !.cap = newcap],
          left |-> s.left - Words(newcap), ok |-> TRUE]
    ELSE [s EXCEPT !.ok = FALSE]

\* The list of an explist goes into its parent, the list itself does not.
Children(value) ==
    CASE value.type = "token" -> <<>>
      [] value.type = "explist" -> value.kids
      [] OTHER -> <<value>>

drain_children(s, kids) ==
    LET pushed[i \in Nat] == IF i = 0 THEN s ELSE PushChild(pushed[i - 1], kids[i])
    IN  pushed[Len(kids)]

\* A node gets its children, those of one value after those of the other.
Adopt(dst, values) ==
    LET full[i \in Nat] ==
            IF i = 0 THEN [node |-> dst, left |-> room, ok |-> TRUE]
            ELSE drain_children(full[i - 1], Children(values[i]))
    IN  full[Len(values)]

TokenOf(values) ==
    IF \E i \in DOMAIN values : values[i].type = "token"
    THEN values[CHOOSE i \in DOMAIN values : values[i].type = "token"].at
    ELSE 0

(***************************************************************************)
(* Returning NULL.                                                         *)
(***************************************************************************)
BlockGoesOnAlways(err) == TRUE   \* mutant: the error flag is not looked at

BlockGoesOn(err) == ~err

ReturnNull(err) ==
    LET keeps == {i \in 2 .. Len(agenda) : agenda[i].op = "keep"} IN
    /\ error' = err
    /\ IF BlockGoesOn(err) /\ keeps # {}
       THEN LET block == CHOOSE i \in keeps : \A j \in keeps : i <= j IN
            /\ agenda' = SubSeq(agenda, block + 1, Len(agenda))
            /\ nodes' = SubSeq(nodes, 1, agenda[block].n)
       ELSE agenda' = <<>> /\ nodes' = <<>>
    /\ UNCHANGED <<input, text, pos>>

(***************************************************************************)
(* The actions: one for each kind of step.                                 *)
(***************************************************************************)
Doing(op) == agenda # <<>> /\ Head(agenda).op = op
Done == agenda' = Tail(agenda)

\* The next token of the array; past what was seen, any token of the input.
ps_advance ==
    /\ pos' = pos + 1
    /\ IF pos < Len(text)
       THEN UNCHANGED text
       ELSE \E tk \in (IF pos < input.len THEN input.tokens ELSE {}) \cup {"eos"} :
                text' = Append(text, tk)

Goes == UNCHANGED <<input, error, lost, room>>

Enter ==
    /\ Doing("call")
    /\ agenda' = Steps(Head(agenda)) \o Tail(agenda)
    /\ UNCHANGED <<text, pos, nodes>> /\ Goes

DoAdvance ==
    /\ Doing("advance")
    /\ ps_advance /\ Done
    /\ UNCHANGED nodes /\ Goes

ps_match ==
    /\ Doing("match")
    /\ IF CURTKN = Head(agenda).arg THEN ps_advance ELSE UNCHANGED <<text, pos>>
    /\ Done
    /\ UNCHANGED nodes /\ Goes

ps_expect ==
    /\ Doing("expect") \/ Doing("take")
    /\ CURTKN = Head(agenda).arg
    /\ ps_advance /\ Done
    /\ nodes' = IF Doing("take") THEN Append(nodes, Node("token", pos, 0)) ELSE nodes
    /\ Goes

SyntaxError ==
    /\ \/ Doing("reject")
       \/ (Doing("expect") \/ Doing("take")) /\ CURTKN # Head(agenda).arg
    /\ ReturnNull(TRUE)
    /\ UNCHANGED <<room, lost>>

RestorePos ==
    /\ Doing("putback")
    /\ pos' = Last(nodes).at
    /\ nodes' = Front(nodes)
    /\ Done
    /\ UNCHANGED text /\ Goes

mclast_alloc ==
    /\ Doing("reserve")
    /\ Fits(Head(agenda).caps)
    /\ room' = Left(Head(agenda).caps)
    /\ Done
    /\ UNCHANGED <<input, text, pos, nodes, error, lost>>

AllocFails ==
    /\ Doing("reserve")
    /\ ~Fits(Head(agenda).caps)
    /\ room' = Left(Head(agenda).caps)
    /\ lost' = TRUE
    /\ ReturnNull(error)

\* values go into dst; rest is what lies below them on the stack.
Fill(rest, dst, values) ==
    LET s == Adopt(dst, values) IN
    /\ room' = s.left
    /\ IF s.ok
       THEN /\ nodes' = Append(rest, s.node)
            /\ Done
            /\ UNCHANGED <<input, text, pos, error, lost>>
       ELSE /\ lost' = TRUE
            /\ ReturnNull(error)

BuildNode ==
    /\ Doing("build")
    /\ LET below == Len(nodes) - Head(agenda).n
           values == SubSeq(nodes, below + 1, Len(nodes))
       IN  Fill(SubSeq(nodes, 1, below),
                Node(Head(agenda).arg, TokenOf(values), Head(agenda).caps[1]), values)

\* In parse_block too: a statement that cannot be pushed ends the block with NULL.
mclast_push_child ==
    /\ Doing("push") \/ Doing("keep")
    /\ LET below == Len(nodes) - 2
       IN  Fill(SubSeq(nodes, 1, below), nodes[below + 1], <<Last(nodes)>>)

SetVal ==
    /\ Doing("count") \/ Doing("mark") \/ Doing("closed")
    /\ LET top == Last(nodes)
           new == CASE Doing("count") -> [top EXCEPT !.num = Len(top.kids)]
                    [] Doing("mark") -> [top EXCEPT !.num = 1]
                    [] Doing("closed") -> [top EXCEPT !.paren = TRUE]
       IN  nodes' = Append(Front(nodes), new)
    /\ Done
    /\ UNCHANGED <<text, pos>> /\ Goes

Init ==
    /\ input \in Inputs
    /\ \E tk \in input.tokens \cup {"eos"} : text = <<tk>>
    /\ pos = 1
    /\ agenda = <<Call("main")>>
    /\ nodes = <<>>
    /\ room = input.room
    /\ error = FALSE
    /\ lost = FALSE

Next ==
    \/ Enter
    \/ DoAdvance
    \/ ps_match
    \/ ps_expect
    \/ SyntaxError
    \/ RestorePos
    \/ mclast_alloc
    \/ AllocFails
    \/ BuildNode
    \/ mclast_push_child
    \/ SetVal

Spec == Init /\ [][Next]_vars /\ WF_vars(Next)

Ended == agenda = <<>>
Accepted == Ended /\ nodes # <<>>

-----------------------------------------------------------------------------
(* Properties *)

\* The current token exists, nothing was read past the end of the text, the heap
\* is not overdrawn, and every parse_block in progress still holds its node
\* (mcparse.c:37-43, 1318-1351).
ParseTypeOK ==
    /\ pos \in DOMAIN text
    /\ \A i \in 1 .. pos - 1 : text[i] # "eos"
    /\ room \in 0 .. input.room
    /\ \A i \in DOMAIN agenda : agenda[i].op = "keep" =>
           agenda[i].n \in DOMAIN nodes /\ nodes[agenda[i].n].type = "block"

\* A syntax error reaches mcparse_run from any depth: no parse_block carries on
\* and hands out a tree of a text that was refused.
ErrorsReach == error => nodes = <<>>

=============================================================================
