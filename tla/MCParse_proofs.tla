--------------------------- MODULE MCParse_proofs ---------------------------
(***************************************************************************)
(* Proofs about the parser of MCParse and the bracket checker of           *)
(* MCBrackets.                                                             *)
(*                                                                         *)
(* The agenda is typed like a stack program.  A point says what is known   *)
(* between two steps: how many nodes are held and how many of them belong  *)
(* to the blocks outside, the current token if it was looked at, what the  *)
(* last node is, and the brackets that are open.  Moves gives each step    *)
(* its type, a call the type of its whole rule, and Run says that a        *)
(* sequence of steps leads from one point to another.  Each parse_* rule   *)
(* is shown once to have the type its call has; the invariant ParseInv is  *)
(* then that the agenda leads from a point that holds now to one where     *)
(* nothing is open.                                                        *)
(***************************************************************************)
EXTENDS MCBrackets, SequenceTheorems, FiniteSetTheorems, TLAPS

\* After an error nothing is held and nothing is left to do.
ErrorInv == error => nodes = <<>> /\ agenda = <<>>

\* With the flag up ReturnNull leaves the calls of all parse_blocks.
LEMMA NullOnError ==
    ASSUME ReturnNull(TRUE) PROVE nodes' = <<>> /\ agenda' = <<>>
BY DEF ReturnNull, BlockGoesOn

\* A step is taken only while something is left to do, so only without an error.
LEMMA NoStepAfterError ==
    ASSUME ErrorInv, NEW op, Doing(op) PROVE ~error
BY DEF ErrorInv, Doing

\* Steps that leave the flag as it is keep the invariant.
LEMMA FlagKept ==
    ASSUME ErrorInv, NEW op, Doing(op), error' = error PROVE ErrorInv'
<1>1. ~error
    BY NoStepAfterError
<1> QED
    BY <1>1 DEF ErrorInv

\* Pushing sets the flag neither when it succeeds nor when it fails.
LEMMA FillKeepsFlag ==
    ASSUME NEW rest, NEW dst, NEW values, Fill(rest, dst, values) PROVE error' = error
<1>1. CASE Adopt(dst, values).ok
    BY <1>1 DEF Fill
<1>2. CASE ~Adopt(dst, values).ok
    BY <1>2 DEF Fill, ReturnNull
<1> QED
    BY <1>1, <1>2

\* Every step of the parser keeps the invariant.
LEMMA ErrorStep ==
    ASSUME ErrorInv, [Next]_vars PROVE ErrorInv'
<1>1. CASE Enter
    BY <1>1, FlagKept DEF Enter, Goes
<1>2. CASE DoAdvance
    BY <1>2, FlagKept DEF DoAdvance, Goes
<1>3. CASE ps_match
    BY <1>3, FlagKept DEF ps_match, Goes
<1>4. CASE ps_expect
    BY <1>4, FlagKept DEF ps_expect, Goes
<1>5. CASE SyntaxError
    BY <1>5, NullOnError DEF SyntaxError, ErrorInv
<1>6. CASE RestorePos
    BY <1>6, FlagKept DEF RestorePos, Goes
<1>7. CASE mclast_alloc
    BY <1>7, FlagKept DEF mclast_alloc
<1>8. CASE AllocFails
    BY <1>8, FlagKept DEF AllocFails, ReturnNull
<1>9. CASE BuildNode
    <2>1. Doing("build")
        BY <1>9 DEF BuildNode
    <2>2. error' = error
        BY <1>9, FillKeepsFlag DEF BuildNode
    <2> QED
        BY <2>1, <2>2, FlagKept
<1>10. CASE mclast_push_child
    <2>1. error' = error
        BY <1>10, FillKeepsFlag DEF mclast_push_child
    <2> QED
        BY <1>10, <2>1, FlagKept DEF mclast_push_child
<1>11. CASE SetVal
    BY <1>11, FlagKept DEF SetVal, Goes
<1>12. CASE UNCHANGED vars
    BY <1>12 DEF ErrorInv, vars
<1> QED
    BY <1>1, <1>2, <1>3, <1>4, <1>5, <1>6, <1>7, <1>8, <1>9, <1>10, <1>11, <1>12 DEF Next

(***************************************************************************)
(* A text with a syntax error never has a tree: the flag set in ps_expect  *)
(* or parse_primaryexp is obeyed by every parse_block above it.            *)
(***************************************************************************)
THEOREM ErrorsReachTop == Spec => []ErrorsReach
<1>1. Init => ErrorInv
    BY DEF Init, ErrorInv
<1>2. ErrorInv /\ [Next]_vars => ErrorInv'
    BY ErrorStep
<1>3. ErrorInv => ErrorsReach
    BY DEF ErrorInv, ErrorsReach
<1> QED
    BY <1>1, <1>2, <1>3, PTL DEF Spec

-----------------------------------------------------------------------------
(* Brackets *)

\* The brackets that are open behind a token, those of the kinds before it.
Turn(open, tk) ==
    CASE tk \in Openers -> Append(open, tk)
      [] tk \in Closers -> Front(open)
      [] OTHER -> open

\* The innermost open bracket is of the kind of the closing one.
Matches(open, tk) == open # <<>> /\ Kind(Last(open)) = Kind(tk)

Neutral(tk) == tk \notin Openers \cup Closers \cup {"none", "eos"}

-----------------------------------------------------------------------------
(* Points of the agenda *)

Rules == {"main", "block", "stats", "stat", "exp", "subexp", "binops", "simpleexp", "suffixedexp",
          "primaryexp", "paren", "suffixes", "args", "callargs", "explist", "moreexps", "table",
          "fields", "fieldsep", "field", "namefield", "funcbody", "funcname", "arglist",
          "moreargs", "retstat", "retvals", "elseifs", "forkind", "forstep", "fornames",
          "localkind", "localinit", "attname", "attnames", "attrib", "assignorcall", "targets"}

\* How many nodes a call finds and makes one of.
Takes(rule) ==
    IF rule = "forstep" THEN 3
    ELSE IF rule \in {"stats", "binops", "paren", "suffixes", "callargs", "moreexps", "fields",
                      "fieldsep", "namefield", "funcname", "arglist", "moreargs", "retvals",
                      "elseifs", "forkind", "fornames", "localinit", "attnames", "attrib",
                      "assignorcall", "targets"} THEN 1
    ELSE 0

\* Tokens that are no brackets.
Plain == {"Name", "Int", "Flt", "String", "nil", "true", "false", "...", "function", "if", "then", "elseif",
          "else", "end", "while", "do", "for", "in", "repeat", "until", "local", "return", "goto",
          "break", "::", "=", ",", ";", ".", ":", "<", ">", "<=", ">=", "==", "~=", "or", "and", "not",
          "|", "~", "&", "<<", ">>", "..", "+", "-", "*", "/", "//", "%", "^", "#"}
Tokens == Plain \cup Openers \cup Closers

Types == {"name", "explist", "paren", "field", "index", "call_method", "call", "integer", "float", "string",
          "nil", "true", "false", "vararg", "func_expr", "unop", "binop", "table", "field_idx", "field_val",
          "field_name", "arglist", "funcbody", "funcdef", "attname", "return", "if", "elseif", "else",
          "while", "do", "fornum", "forin", "repeat", "local_func", "local", "goto", "label", "break",
          "assign", "call_stat", "block"}

Ops == {"call", "advance", "match", "expect", "take", "putback", "reserve", "build", "push", "keep",
        "count", "mark", "closed", "reject"}

Args == Rules \cup Tokens \cup Types \cup {"none"}
Items == [op : Ops, arg : Args, n : Nat, caps : Seq(Nat)]

\* What is known between two steps: how many nodes are held and how many of them
\* belong to the blocks outside of the statement, the current token or "none", what
\* the last node is, and the open brackets.
Points == {p \in [len : Nat, floor : Nat, tk : Tokens \cup {"none"}, mark : {"none", "token", "block"}, open : Seq(Openers)] :
              p.floor <= p.len}
Pt(len, floor, tk, mark, open) ==
    [len |-> len, floor |-> floor, tk |-> tk, mark |-> mark, open |-> open]

Reads(tk, s, t) ==
    /\ tk \notin {"none", "eos"}
    /\ tk \in Closers => Matches(s.open, tk)
    /\ t.open = Turn(s.open, tk)
    /\ t.tk = "none"

Calls(item, s, t) ==
    /\ item.arg \in Rules
    /\ s.floor + Takes(item.arg) <= s.len
    /\ item.arg = "stats" => s.mark = "block"
    /\ item.arg = "namefield" => s.mark = "token"
    /\ item.arg = "retstat" => s.tk = "return"
    /\ t = Pt(s.len - Takes(item.arg) + 1, s.floor, "none", "none", s.open)

MarkOf(type) == IF type = "block" THEN "block" ELSE "none"

\* From one point to the next.  After a rejection nothing matters.
Moves(item, s, t) ==
    /\ item.op = "call" => Calls(item, s, t)
    /\ item.op = "advance" =>
          /\ Reads(s.tk, s, t)
          /\ t.len = s.len /\ t.floor = s.floor /\ t.mark \in {"none", s.mark} \ {"token"}
    /\ item.op = "match" => Neutral(item.arg) /\ t = Pt(s.len, s.floor, "none", "none", s.open)
    /\ item.op = "expect" =>
          /\ Reads(item.arg, s, t)
          /\ t.len = s.len /\ t.floor = s.floor /\ t.mark = "none"
    /\ item.op = "take" =>
          /\ Neutral(item.arg)
          /\ t.len = s.len + 1 /\ t.floor = s.floor /\ t.tk = "none" /\ t.mark \in {"none", "token"}
          /\ t.open = s.open
    /\ item.op = "putback" =>
          /\ s.mark = "token" /\ s.floor < s.len
          /\ t = Pt(s.len - 1, s.floor, "none", "none", s.open)
    /\ item.op = "reserve" => t = s
    /\ item.op = "build" =>
          /\ item.caps # <<>> /\ s.floor + item.n <= s.len
          /\ t.len = s.len - item.n + 1 /\ t.floor = s.floor /\ t.tk = s.tk /\ t.open = s.open
          /\ t.mark \in {"none", MarkOf(item.arg)}
    /\ item.op = "push" =>
          /\ s.floor + 2 <= s.len
          /\ t = Pt(s.len - 1, s.floor, s.tk, "none", s.open)
    /\ item.op = "keep" =>
          /\ s.len = item.n + 1 /\ s.floor = item.n
          /\ t.len = item.n /\ t.floor < item.n /\ t.tk = "none" /\ t.mark = "block" /\ t.open = s.open
    /\ item.op \in {"count", "mark", "closed"} =>
          /\ s.floor < s.len
          /\ t = Pt(s.len, s.floor, s.tk, "none", s.open)
    /\ item.op = "reject" => t.floor <= s.floor

\* The items lead from s to t.
Leads(p, items) ==
    /\ p \in Seq(Points) /\ Len(p) = Len(items) + 1
    /\ \A i \in 1 .. Len(items) : Moves(items[i], p[i], p[i + 1])
    /\ \A i, j \in 1 .. Len(items) + 1 : i <= j => p[j].floor <= p[i].floor
Run(items, s, t) ==
    /\ items \in Seq(Items)
    /\ \E p : Leads(p, items) /\ p[1] = s /\ p[Len(items) + 1] = t

-----------------------------------------------------------------------------
(* Runs *)

LEMMA MovesDown ==
    ASSUME NEW item \in Items, NEW s \in Points, NEW t \in Points, Moves(item, s, t)
    PROVE  t.floor <= s.floor
<1>1. s.floor \in Nat /\ t.floor \in Nat
  BY DEF Points
<1>2. CASE item.op \in {"keep", "reject"}
  BY <1>1, <1>2 DEF Moves
<1>3. CASE item.op \notin {"keep", "reject"}
  <2>1. t.floor = s.floor
    BY <1>3 DEF Moves, Calls, Pt, Ops, Items
  <2> QED
    BY <1>1, <2>1
<1> QED
  BY <1>2, <1>3

LEMMA RunEnds ==
    ASSUME NEW items, NEW s, NEW t, Run(items, s, t) PROVE s \in Points /\ t \in Points
<1>1. PICK p : Leads(p, items) /\ p[1] = s /\ p[Len(items) + 1] = t
  BY DEF Run
<1>2. Len(items) \in Nat
  BY LenProperties DEF Run
<1> QED
  BY <1>1, <1>2, ElementOfSeq DEF Leads

LEMMA RunNone ==
    ASSUME NEW s \in Points PROVE Run(<<>>, s, s)
<1> DEFINE p == <<s>>
<1>1. p \in Seq(Points) /\ Len(p) = 1 /\ p[1] = s
  OBVIOUS
<1> HIDE DEF p
<1>2. s.floor \in Nat
  BY DEF Points
<1>3. Leads(p, <<>>)
  BY <1>1, <1>2 DEF Leads
<1> QED
  BY <1>1, <1>3 DEF Run

LEMMA RunOne ==
    ASSUME NEW item \in Items, NEW s \in Points, NEW t \in Points, Moves(item, s, t)
    PROVE  Run(<<item>>, s, t)
<1> DEFINE p == <<s, t>>
<1>1. t.floor <= s.floor /\ s.floor \in Nat /\ t.floor \in Nat
  BY MovesDown DEF Points
<1>2. p \in Seq(Points) /\ Len(p) = 2 /\ p[1] = s /\ p[2] = t
  OBVIOUS
<1> HIDE DEF p
<1>3. Leads(p, <<item>>)
  BY <1>1, <1>2 DEF Leads
<1> QED
  BY <1>2, <1>3 DEF Run

LEMMA RunCat ==
    ASSUME NEW a, NEW b, NEW s, NEW t, NEW u, Run(a, s, t), Run(b, t, u)
    PROVE  Run(a \o b, s, u)
<1>1. PICK p : Leads(p, a) /\ p[1] = s /\ p[Len(a) + 1] = t
  BY DEF Run
<1>2. PICK q : Leads(q, b) /\ q[1] = t /\ q[Len(b) + 1] = u
  BY DEF Run
<1>3. a \in Seq(Items) /\ b \in Seq(Items) /\ Len(a) \in Nat /\ Len(b) \in Nat
  BY LenProperties DEF Run
<1> DEFINE c == a \o b
           r == [i \in 1 .. Len(a) + Len(b) + 1 |-> IF i <= Len(a) + 1 THEN p[i] ELSE q[i - Len(a)]]
<1>4. /\ c \in Seq(Items) /\ Len(c) = Len(a) + Len(b)
      /\ \A i \in 1 .. Len(c) : c[i] = IF i <= Len(a) THEN a[i] ELSE b[i - Len(a)]
  BY <1>3, ConcatProperties
<1>5. /\ \A i \in 1 .. Len(a) + 1 : p[i] \in Points /\ p[i].floor \in Nat
      /\ \A i \in 1 .. Len(b) + 1 : q[i] \in Points /\ q[i].floor \in Nat
  <2>1. \A i \in 1 .. Len(a) + 1 : p[i] \in Points
    BY <1>1, <1>3, ElementOfSeq DEF Leads
  <2>2. \A i \in 1 .. Len(b) + 1 : q[i] \in Points
    BY <1>2, <1>3, ElementOfSeq DEF Leads
  <2> QED
    BY <2>1, <2>2 DEF Points
<1>6. r \in Seq(Points) /\ Len(r) = Len(c) + 1
  <2>1. \A i \in 1 .. Len(a) + Len(b) + 1 : r[i] \in Points
    BY <1>3, <1>5
  <2> QED
    BY <1>3, <1>4, <2>1
<1>7. /\ \A i \in 1 .. Len(a) + 1 : r[i] = p[i]
      /\ \A i \in Len(a) + 1 .. Len(c) + 1 : r[i] = q[i - Len(a)]
  BY <1>1, <1>2, <1>3, <1>4
<1> HIDE DEF r, c
<1>8. \A i \in 1 .. Len(c) : Moves(c[i], r[i], r[i + 1])
  <2> TAKE i \in 1 .. Len(c)
  <2>1. CASE i <= Len(a)
    <3>1. i \in 1 .. Len(a) /\ i \in 1 .. Len(a) + 1 /\ i + 1 \in 1 .. Len(a) + 1
      BY <1>3, <2>1
    <3> QED
      BY <1>1, <1>4, <1>7, <2>1, <3>1 DEF Leads
  <2>2. CASE i > Len(a)
    <3> DEFINE k == i - Len(a)
    <3>1. k \in 1 .. Len(b) /\ i \in Len(a) + 1 .. Len(c) + 1 /\ i + 1 \in Len(a) + 1 .. Len(c) + 1
      BY <1>3, <1>4, <2>2
    <3>2. c[i] = b[k] /\ r[i] = q[k] /\ r[i + 1] = q[k + 1]
      BY <1>3, <1>4, <1>7, <2>2, <3>1
    <3> QED
      BY <1>2, <3>1, <3>2 DEF Leads
  <2> QED
    BY <1>3, <2>1, <2>2
<1>9. ASSUME NEW i \in 1 .. Len(c) + 1, NEW j \in 1 .. Len(c) + 1, i <= j PROVE r[j].floor <= r[i].floor
  <2>1. CASE j <= Len(a) + 1
    <3>1. i \in 1 .. Len(a) + 1 /\ j \in 1 .. Len(a) + 1
      BY <1>3, <1>9, <2>1
    <3> QED
      BY <1>1, <1>7, <1>9, <3>1 DEF Leads
  <2>2. CASE i > Len(a) + 1
    <3>1. /\ i - Len(a) \in 1 .. Len(b) + 1 /\ j - Len(a) \in 1 .. Len(b) + 1 /\ i - Len(a) <= j - Len(a)
          /\ i \in Len(a) + 1 .. Len(c) + 1 /\ j \in Len(a) + 1 .. Len(c) + 1
      BY <1>3, <1>4, <1>9, <2>2
    <3> QED
      BY <1>2, <1>7, <3>1 DEF Leads
  <2>3. CASE i <= Len(a) + 1 /\ j > Len(a) + 1
    <3>1. /\ i \in 1 .. Len(a) + 1 /\ Len(a) + 1 \in 1 .. Len(a) + 1 /\ 1 \in 1 .. Len(b) + 1
          /\ j - Len(a) \in 1 .. Len(b) + 1 /\ j \in Len(a) + 1 .. Len(c) + 1 /\ 1 <= j - Len(a)
      BY <1>3, <1>4, <1>9, <2>3
    <3>2. p[Len(a) + 1].floor <= p[i].floor
      BY <1>1, <2>3, <3>1 DEF Leads
    <3>3. q[j - Len(a)].floor <= q[1].floor
      BY <1>2, <3>1 DEF Leads
    <3>4. p[Len(a) + 1] = q[1] /\ r[i] = p[i] /\ r[j] = q[j - Len(a)]
      BY <1>1, <1>2, <1>7, <3>1
    <3> QED
      BY <1>5, <3>1, <3>2, <3>3, <3>4, SMTT(30)
  <2> QED
    BY <1>3, <2>1, <2>2, <2>3
<1>10. Leads(r, c)
  BY <1>6, <1>8, <1>9 DEF Leads
<1>11. r[1] = s /\ r[Len(c) + 1] = u
  <2>1. 1 \in 1 .. Len(a) + 1 /\ Len(c) + 1 \in Len(a) + 1 .. Len(c) + 1 /\ Len(c) + 1 - Len(a) = Len(b) + 1
    BY <1>3, <1>4
  <2> QED
    BY <1>1, <1>2, <1>7, <2>1
<1> QED
  BY <1>4, <1>10, <1>11 DEF Run, c

LEMMA RunNext ==
    ASSUME NEW items, items # <<>>, NEW s, NEW t, Run(items, s, t)
    PROVE  \E u \in Points : Moves(Head(items), s, u) /\ Run(Tail(items), u, t)
<1>1. PICK p : Leads(p, items) /\ p[1] = s /\ p[Len(items) + 1] = t
  BY DEF Run
<1>2. items \in Seq(Items) /\ Len(items) \in Nat /\ Len(items) > 0
  BY LenProperties, EmptySeq DEF Run
<1>3. /\ Tail(items) \in Seq(Items) /\ Len(Tail(items)) = Len(items) - 1 /\ Head(items) = items[1]
      /\ \A i \in 1 .. Len(items) - 1 : Tail(items)[i] = items[i + 1]
  BY <1>2, HeadTailProperties
<1> DEFINE q == [i \in 1 .. Len(items) |-> p[i + 1]]
           rest == Tail(items)
<1>4. \A i \in 1 .. Len(items) + 1 : p[i] \in Points
  BY <1>1, <1>2, ElementOfSeq DEF Leads
<1>5. q \in Seq(Points) /\ Len(q) = Len(items) /\ \A i \in 1 .. Len(items) : q[i] = p[i + 1]
  <2>1. \A i \in 1 .. Len(items) : p[i + 1] \in Points
    BY <1>2, <1>4
  <2> QED
    BY <1>2, <2>1
<1> HIDE DEF q, rest
<1>6. Leads(q, rest)
  <2>1. \A i \in 1 .. Len(rest) : Moves(rest[i], q[i], q[i + 1])
    <3> TAKE i \in 1 .. Len(rest)
    <3>1. i \in 1 .. Len(items) - 1 /\ i + 1 \in 1 .. Len(items) /\ i \in 1 .. Len(items)
      BY <1>2, <1>3 DEF rest
    <3> QED
      BY <1>1, <1>3, <1>5, <3>1 DEF Leads, rest
  <2>2. ASSUME NEW i \in 1 .. Len(rest) + 1, NEW j \in 1 .. Len(rest) + 1, i <= j PROVE q[j].floor <= q[i].floor
    <3>1. /\ i + 1 \in 1 .. Len(items) + 1 /\ j + 1 \in 1 .. Len(items) + 1 /\ i + 1 <= j + 1
          /\ i \in 1 .. Len(items) /\ j \in 1 .. Len(items)
      BY <1>2, <1>3, <2>2 DEF rest
    <3> QED
      BY <1>1, <1>5, <3>1 DEF Leads
  <2> QED
    BY <1>3, <1>5, <2>1, <2>2 DEF Leads, rest
<1>7. Moves(Head(items), s, q[1]) /\ q[1] \in Points
  <2>1. 1 \in 1 .. Len(items) /\ 2 \in 1 .. Len(items) + 1
    BY <1>2
  <2> QED
    BY <1>1, <1>3, <1>4, <1>5, <2>1 DEF Leads
<1>8. q[Len(rest) + 1] = t
  BY <1>1, <1>2, <1>3, <1>5 DEF rest
<1>9. Run(rest, q[1], t)
  BY <1>3, <1>6, <1>8 DEF Run, rest
<1> QED
  BY <1>7, <1>9 DEF rest

\* A block in progress holds its node below everything of the statement.
LEMMA KeepsBelow ==
    ASSUME NEW items, NEW s, NEW t, Run(items, s, t)
    PROVE  \A i \in DOMAIN items : items[i].op = "keep" =>
              items[i].n <= s.floor /\ items[i].n \in Nat \ {0} /\ t.floor < items[i].n
<1>1. PICK p : Leads(p, items) /\ p[1] = s /\ p[Len(items) + 1] = t
  BY DEF Run
<1>2. items \in Seq(Items) /\ Len(items) \in Nat /\ DOMAIN items = 1 .. Len(items)
  BY LenProperties DEF Run
<1> TAKE i \in DOMAIN items
<1> HAVE items[i].op = "keep"
<1>3. Moves(items[i], p[i], p[i + 1]) /\ items[i] \in Items /\ p[i + 1] \in Points
  <2>1. i \in 1 .. Len(items) /\ i + 1 \in 1 .. Len(items) + 1
    BY <1>2
  <2> QED
    BY <1>1, <1>2, <2>1, ElementOfSeq DEF Leads
<1>4. p[i].floor = items[i].n /\ p[i + 1].floor < items[i].n
  BY <1>3 DEF Moves
<1>6. items[i].n \in Nat /\ p[i + 1].floor \in Nat
  BY <1>3 DEF Items, Points
<1>5. p[i].floor <= s.floor
  <2>1. 1 \in 1 .. Len(items) + 1 /\ i \in 1 .. Len(items) + 1 /\ 1 <= i
    BY <1>2
  <2> QED
    BY <1>1, <2>1 DEF Leads
<1>7. t.floor <= p[i + 1].floor /\ t.floor \in Nat
  <2>1. i + 1 \in 1 .. Len(items) + 1 /\ Len(items) + 1 \in 1 .. Len(items) + 1 /\ i + 1 <= Len(items) + 1
    BY <1>2
  <2>2. t \in Points
    BY RunEnds
  <2> QED
    BY <1>1, <2>1, <2>2 DEF Leads, Points
<1> QED
  BY <1>4, <1>5, <1>6, <1>7

\* What is left when everything up to a block in progress is dropped.
LEMMA RunFrom ==
    ASSUME NEW items, NEW s, NEW t, Run(items, s, t), NEW i \in DOMAIN items, items[i].op = "keep"
    PROVE  \E u \in Points :
              /\ u.len = items[i].n /\ u.tk = "none" /\ u.mark = "block"
              /\ Run(SubSeq(items, i + 1, Len(items)), u, t)
<1>1. PICK p : Leads(p, items) /\ p[1] = s /\ p[Len(items) + 1] = t
  BY DEF Run
<1>2. items \in Seq(Items) /\ Len(items) \in Nat /\ i \in 1 .. Len(items)
  BY LenProperties DEF Run
<1>0. \A k \in 1 .. Len(items) + 1 : p[k] \in Points
  BY <1>1, <1>2, ElementOfSeq DEF Leads
<1> DEFINE rest == SubSeq(items, i + 1, Len(items))
           q == [k \in 1 .. Len(items) - i + 1 |-> p[k + i]]
<1>3. /\ rest \in Seq(Items) /\ Len(rest) = Len(items) - i
      /\ \A k \in 1 .. Len(items) - i : rest[k] = items[k + i]
  <2>1. \A k \in i + 1 .. Len(items) : items[k] \in Items
    BY <1>2, ElementOfSeq
  <2>2. i + 1 \in Int /\ Len(items) \in Int
    BY <1>2
  <2> QED
    BY <1>2, <2>1, <2>2, SubSeqProperties
<1>5. q \in Seq(Points) /\ Len(q) = Len(items) - i + 1 /\ \A k \in 1 .. Len(items) - i + 1 : q[k] = p[k + i]
  <2>1. \A k \in 1 .. Len(items) - i + 1 : p[k + i] \in Points
    BY <1>0, <1>2
  <2>2. Len(items) - i + 1 \in Nat
    BY <1>2
  <2> QED
    BY <2>1, <2>2
<1> HIDE DEF q, rest
<1>6. Leads(q, rest)
  <2>1. \A k \in 1 .. Len(rest) : Moves(rest[k], q[k], q[k + 1])
    <3> TAKE k \in 1 .. Len(rest)
    <3>1. /\ k \in 1 .. Len(items) - i /\ k + i \in 1 .. Len(items) /\ k \in 1 .. Len(items) - i + 1
          /\ k + 1 \in 1 .. Len(items) - i + 1 /\ (k + 1) + i = (k + i) + 1
      BY <1>2, <1>3
    <3> QED
      BY <1>1, <1>3, <1>5, <3>1 DEF Leads
  <2>2. ASSUME NEW k \in 1 .. Len(rest) + 1, NEW j \in 1 .. Len(rest) + 1, k <= j PROVE q[j].floor <= q[k].floor
    <3>1. /\ k + i \in 1 .. Len(items) + 1 /\ j + i \in 1 .. Len(items) + 1 /\ k + i <= j + i
          /\ k \in 1 .. Len(items) - i + 1 /\ j \in 1 .. Len(items) - i + 1
      BY <1>2, <1>3, <2>2
    <3> QED
      BY <1>1, <1>5, <3>1 DEF Leads
  <2> QED
    BY <1>3, <1>5, <2>1, <2>2 DEF Leads
<1>7. q[Len(rest) + 1] = t /\ q[1] = p[i + 1]
  <2> DEFINE n == Len(items)
             m == Len(rest)
  <2>0. n \in Nat /\ i \in 1 .. n /\ m = n - i
    BY <1>2, <1>3
  <2> HIDE DEF n, m
  <2>1. m + 1 \in 1 .. n - i + 1 /\ 1 \in 1 .. n - i + 1 /\ (m + 1) + i = n + 1 /\ 1 + i = i + 1
    BY <2>0
  <2> QED
    BY <1>1, <1>5, <2>1 DEF n, m
<1>8. Moves(items[i], p[i], p[i + 1]) /\ i + 1 \in 1 .. Len(items) + 1
  BY <1>1, <1>2 DEF Leads
<1>9. p[i + 1].len = items[i].n /\ p[i + 1].tk = "none" /\ p[i + 1].mark = "block"
  BY <1>8 DEF Moves
<1>11. Run(rest, p[i + 1], t)
  BY <1>3, <1>6, <1>7 DEF Run
<1> QED
  BY <1>0, <1>8, <1>9, <1>11 DEF rest

-----------------------------------------------------------------------------
(* What one item does *)

At(l, f, o) == Pt(l, f, "none", "none", o)
Sees(l, f, k, o) == Pt(l, f, k, "none", o)
Fine(l, f, o) == l \in Nat /\ f \in Nat /\ f <= l /\ o \in Seq(Openers)
Marks == {"none", "token", "block"}

LEMMA PlainNeutral == \A tk \in Plain : tk \in Tokens /\ Neutral(tk)
<1> TAKE tk \in Plain
<1>1. tk \in Tokens
  BY DEF Tokens
<1>2. tk \notin {"(", "[", "{", ")", "]", "}", "none", "eos"}
  BY ZenonT(40) DEF Plain
<1> QED
  BY <1>1, <1>2 DEF Neutral, Openers, Closers

LEMMA PtIs ==
    ASSUME NEW l, NEW f, NEW o, Fine(l, f, o), NEW k \in Tokens \cup {"none"}, NEW m \in Marks
    PROVE  /\ Pt(l, f, k, m, o) \in Points
           /\ Pt(l, f, k, m, o).len = l /\ Pt(l, f, k, m, o).floor = f /\ Pt(l, f, k, m, o).tk = k
           /\ Pt(l, f, k, m, o).mark = m /\ Pt(l, f, k, m, o).open = o
BY DEF Fine, Points, Pt, Marks

LEMMA ItemIs ==
    ASSUME NEW op \in Ops, NEW arg \in Args, NEW n \in Nat, NEW caps \in Seq(Nat)
    PROVE  /\ Item(op, arg, n, caps) \in Items
           /\ Item(op, arg, n, caps).op = op /\ Item(op, arg, n, caps).arg = arg
           /\ Item(op, arg, n, caps).n = n /\ Item(op, arg, n, caps).caps = caps
BY DEF Item, Items

LEMMA PlainItem ==
    ASSUME NEW op \in Ops, NEW arg \in Args, NEW n \in Nat
    PROVE  /\ Item(op, arg, n, <<>>) \in Items
           /\ Item(op, arg, n, <<>>).op = op /\ Item(op, arg, n, <<>>).arg = arg
           /\ Item(op, arg, n, <<>>).n = n
<1>1. <<>> \in Seq(Nat)
  OBVIOUS
<1> QED
  BY <1>1 DEF Item, Items

\* A bracket that is opened and closed again.
LEMMA Brackets ==
    ASSUME NEW o \in Seq(Openers), NEW x \in Openers, NEW y \in Closers, Kind(x) = Kind(y)
    PROVE  /\ Append(o, x) \in Seq(Openers) /\ Turn(o, x) = Append(o, x)
           /\ Matches(Append(o, x), y) /\ Turn(Append(o, x), y) = o
<1> DEFINE q == Append(o, x)
<1>1. /\ q \in Seq(Openers) /\ q # <<>> /\ Len(q) = Len(o) + 1 /\ Len(o) \in Nat
      /\ \A i \in 1 .. Len(o) : q[i] = o[i]
      /\ q[Len(o) + 1] = x
  BY AppendProperties, LenProperties
<1> HIDE DEF q
<1>2. Last(q) = x
  BY <1>1 DEF Last
<1>3. Front(q) = o
  <2>1. Front(q) = SubSeq(q, 1, Len(o))
    BY <1>1 DEF Front
  <2>2. /\ SubSeq(q, 1, Len(o)) \in Seq(Openers) /\ Len(SubSeq(q, 1, Len(o))) = Len(o)
        /\ \A i \in 1 .. Len(o) : SubSeq(q, 1, Len(o))[i] = q[i]
    <3>1. \A i \in 1 .. Len(o) : q[i] \in Openers
      BY <1>1, ElementOfSeq
    <3>2. Len(o) \in Int /\ 1 \in Int
      BY <1>1
    <3> QED
      BY <1>1, <3>1, <3>2, SubSeqProperties
  <2> QED
    BY <1>1, <2>1, <2>2, SeqEqual
<1>4. x \notin Closers /\ y \notin Openers
  BY DEF Openers, Closers
<1> QED
  BY <1>1, <1>2, <1>3, <1>4 DEF Turn, Matches, q

LEMMA NeutralTurn ==
    ASSUME NEW tk, Neutral(tk)
    PROVE  /\ tk \notin {"none", "eos"} /\ tk \notin Closers
           /\ \A o : Turn(o, tk) = o
BY DEF Neutral, Turn

LEMMA AdvanceRuns ==
    ASSUME NEW l, NEW f, NEW o, Fine(l, f, o), NEW tk \in Tokens, Neutral(tk), NEW m \in {"none", "block"}
    PROVE  Run(<<Advance>>, Pt(l, f, tk, m, o), Pt(l, f, "none", m, o))
<1>1. Advance \in Items /\ Advance.op = "advance"
  <2>1. Advance = Item("advance", "none", 0, <<>>)
    BY DEF Advance
  <2>2. "advance" \in Ops /\ "none" \in Args /\ 0 \in Nat
    BY DEF Ops, Args
  <2> QED
    BY <2>1, <2>2, PlainItem
<1> DEFINE s == Pt(l, f, tk, m, o)
           t == Pt(l, f, "none", m, o)
<1>2. m \in Marks
  BY DEF Marks
<1>3. s \in Points /\ s.len = l /\ s.floor = f /\ s.tk = tk /\ s.mark = m /\ s.open = o
  BY <1>2, PtIs
<1>4. t \in Points /\ t.len = l /\ t.floor = f /\ t.tk = "none" /\ t.mark = m /\ t.open = o
  BY <1>2, PtIs
<1> HIDE DEF s, t
<1>5. Reads(s.tk, s, t)
  BY <1>3, <1>4, NeutralTurn DEF Reads
<1>6. Moves(Advance, s, t)
  BY <1>1, <1>3, <1>4, <1>5 DEF Moves
<1> QED
  BY <1>1, <1>3, <1>4, <1>6, RunOne DEF s, t

LEMMA AtIs ==
    ASSUME NEW l, NEW f, NEW o, Fine(l, f, o)
    PROVE  /\ At(l, f, o) \in Points
           /\ At(l, f, o).len = l /\ At(l, f, o).floor = f /\ At(l, f, o).tk = "none"
           /\ At(l, f, o).mark = "none" /\ At(l, f, o).open = o
BY PtIs DEF At, Marks

LEMMA OpenRuns ==
    ASSUME NEW l, NEW f, NEW o, Fine(l, f, o), NEW x \in Openers
    PROVE  Run(<<Advance>>, Sees(l, f, x, o), At(l, f, Append(o, x)))
<1>1. Advance \in Items /\ Advance.op = "advance"
  <2>1. Advance = Item("advance", "none", 0, <<>>)
    BY DEF Advance
  <2>2. "advance" \in Ops /\ "none" \in Args /\ 0 \in Nat
    BY DEF Ops, Args
  <2> QED
    BY <2>1, <2>2, PlainItem
<1>2. Append(o, x) \in Seq(Openers) /\ Turn(o, x) = Append(o, x)
  <2>1. o \in Seq(Openers)
    BY DEF Fine
  <2>2. Append(o, x) \in Seq(Openers)
    BY <2>1, AppendProperties
  <2>3. x \notin Closers
    BY DEF Openers, Closers
  <2>4. Turn(o, x) = Append(o, x)
    BY <2>3 DEF Turn
  <2> QED
    BY <2>2, <2>4
<1> DEFINE q == Append(o, x)
<1> HIDE DEF q
<1>3. Fine(l, f, q)
  BY <1>2 DEF Fine, q
<1> DEFINE s == Sees(l, f, x, o)
           t == At(l, f, q)
<1>4. s \in Points /\ s.len = l /\ s.floor = f /\ s.tk = x /\ s.mark = "none" /\ s.open = o
  BY PtIs DEF Sees, Tokens, Marks
<1>5. t \in Points /\ t.len = l /\ t.floor = f /\ t.tk = "none" /\ t.mark = "none" /\ t.open = q
  BY <1>3, AtIs
<1> HIDE DEF s, t
<1>6. x \notin Closers /\ x \notin {"none", "eos"}
  BY DEF Openers, Closers
<1>7. Reads(s.tk, s, t)
  BY <1>2, <1>4, <1>5, <1>6 DEF Reads, q
<1>8. Moves(Advance, s, t)
  BY <1>1, <1>4, <1>5, <1>7 DEF Moves
<1> QED
  BY <1>1, <1>4, <1>5, <1>8, RunOne DEF s, t, q

LEMMA ExpectRuns ==
    ASSUME NEW l, NEW f, NEW o, Fine(l, f, o), NEW tk \in Tokens, NEW q, Fine(l, f, q),
           tk \in Closers => Matches(o, tk), q = Turn(o, tk)
    PROVE  Run(<<Expect(tk)>>, At(l, f, o), At(l, f, q))
<1> DEFINE i == Expect(tk)
           s == At(l, f, o)
           t == At(l, f, q)
<1>1. i \in Items /\ i.op = "expect" /\ i.arg = tk
  <2>1. tk \in Args /\ "expect" \in Ops
    BY DEF Ops, Args
  <2> QED
    BY <2>1, PlainItem DEF Expect
<1>4. s \in Points /\ s.len = l /\ s.floor = f /\ s.tk = "none" /\ s.mark = "none" /\ s.open = o
  BY AtIs
<1>5. t \in Points /\ t.len = l /\ t.floor = f /\ t.tk = "none" /\ t.mark = "none" /\ t.open = q
  BY AtIs
<1> HIDE DEF s, t, i
<1>6. tk \notin {"none", "eos"}
  BY DEF Tokens, Plain, Openers, Closers
<1>7. Reads(i.arg, s, t)
  BY <1>1, <1>4, <1>5, <1>6 DEF Reads
<1>8. Moves(i, s, t)
  BY <1>1, <1>4, <1>5, <1>7 DEF Moves
<1> QED
  BY <1>1, <1>4, <1>5, <1>8, RunOne DEF s, t, i

LEMMA ExpectPlain ==
    ASSUME NEW l, NEW f, NEW o, Fine(l, f, o), NEW tk \in Plain
    PROVE  Run(<<Expect(tk)>>, At(l, f, o), At(l, f, o))
<1>1. tk \in Tokens /\ Neutral(tk)
  BY PlainNeutral
<1>2. tk \notin Closers /\ Turn(o, tk) = o
  BY <1>1, NeutralTurn
<1> QED
  BY <1>1, <1>2, ExpectRuns

LEMMA ExpectOpen ==
    ASSUME NEW l, NEW f, NEW o, Fine(l, f, o), NEW x \in Openers
    PROVE  Run(<<Expect(x)>>, At(l, f, o), At(l, f, Append(o, x)))
<1> DEFINE q == Append(o, x)
<1>1. x \in Tokens /\ x \notin Closers
  BY DEF Tokens, Openers, Closers
<1>2. q = Turn(o, x) /\ Fine(l, f, q)
  <2>1. o \in Seq(Openers)
    BY DEF Fine
  <2>2. q \in Seq(Openers)
    BY <2>1, AppendProperties
  <2>3. x \notin Closers
    BY DEF Openers, Closers
  <2>4. Turn(o, x) = Append(o, x)
    BY <2>3 DEF Turn
  <2> HIDE DEF q
  <2> QED
    BY <2>2, <2>4 DEF Fine, q
<1> HIDE DEF q
<1>3. Run(<<Expect(x)>>, At(l, f, o), At(l, f, q))
  BY <1>1, <1>2, ExpectRuns
<1> QED
  BY <1>3 DEF q

LEMMA ExpectClose ==
    ASSUME NEW l, NEW f, NEW o, Fine(l, f, o), NEW x \in Openers, NEW y \in Closers, Kind(x) = Kind(y)
    PROVE  Run(<<Expect(y)>>, At(l, f, Append(o, x)), At(l, f, o))
<1> DEFINE q == Append(o, x)
<1>1. y \in Tokens
  BY DEF Tokens
<1>2. o \in Seq(Openers)
  BY DEF Fine
<1>3. o = Turn(q, y) /\ Fine(l, f, q) /\ Matches(q, y)
  BY <1>2, Brackets DEF Fine
<1> HIDE DEF q
<1>4. Run(<<Expect(y)>>, At(l, f, q), At(l, f, o))
  BY <1>1, <1>3, ExpectRuns
<1> QED
  BY <1>4 DEF q

LEMMA KindsMatch == Kind("(") = Kind(")") /\ Kind("[") = Kind("]") /\ Kind("{") = Kind("}")
BY DEF Kind

LEMMA MatchRuns ==
    ASSUME NEW l, NEW f, NEW o, Fine(l, f, o), NEW tk \in Plain
    PROVE  Run(<<Match(tk)>>, At(l, f, o), At(l, f, o))
<1> DEFINE i == Match(tk)
           s == At(l, f, o)
<1>1. i \in Items /\ i.op = "match" /\ i.arg = tk
  <2>1. tk \in Args /\ "match" \in Ops
    BY DEF Ops, Args, Tokens
  <2> QED
    BY <2>1, PlainItem DEF Match
<1>2. s \in Points /\ s.len = l /\ s.floor = f /\ s.open = o /\ s = Pt(l, f, "none", "none", o)
  BY AtIs DEF At
<1> HIDE DEF s, i
<1>3. Neutral(tk)
  BY PlainNeutral
<1>4. Moves(i, s, s)
  BY <1>1, <1>2, <1>3 DEF Moves
<1> QED
  BY <1>1, <1>2, <1>4, RunOne DEF s, i

LEMMA TakeMarks ==
    ASSUME NEW l, NEW f, NEW o, Fine(l, f, o), NEW tk \in Plain, NEW k, k = l + 1, NEW m \in {"none", "token"}
    PROVE  Run(<<Take(tk)>>, At(l, f, o), Pt(k, f, "none", m, o))
<1> DEFINE i == Take(tk)
           s == At(l, f, o)
           t == Pt(k, f, "none", m, o)
<1>1. i \in Items /\ i.op = "take" /\ i.arg = tk
  <2>1. tk \in Args /\ "take" \in Ops
    BY DEF Ops, Args, Tokens
  <2> QED
    BY <2>1, PlainItem DEF Take
<1>2. s \in Points /\ s.len = l /\ s.floor = f /\ s.open = o
  BY AtIs
<1>3. Fine(k, f, o) /\ m \in Marks
  BY DEF Fine, Marks
<1>4. t \in Points /\ t.len = k /\ t.floor = f /\ t.tk = "none" /\ t.mark = m /\ t.open = o
  BY <1>3, PtIs
<1> HIDE DEF s, t, i
<1>5. Neutral(tk)
  BY PlainNeutral
<1>6. Moves(i, s, t)
  BY <1>1, <1>2, <1>4, <1>5 DEF Moves
<1> QED
  BY <1>1, <1>2, <1>4, <1>6, RunOne DEF s, t, i

LEMMA TakeRuns ==
    ASSUME NEW l, NEW f, NEW o, Fine(l, f, o), NEW tk \in Plain, NEW k, k = l + 1
    PROVE  Run(<<Take(tk)>>, At(l, f, o), At(k, f, o))
BY TakeMarks DEF At

LEMMA PutBackRuns ==
    ASSUME NEW l, NEW f, NEW o, Fine(l, f, o), f < l, NEW k, l = k + 1, k \in Nat
    PROVE  Run(<<PutBack>>, Pt(l, f, "none", "token", o), At(k, f, o))
<1> DEFINE i == PutBack
           s == Pt(l, f, "none", "token", o)
           t == At(k, f, o)
<1>1. i \in Items /\ i.op = "putback"
  BY PlainItem DEF PutBack, Ops, Args
<1>2. s \in Points /\ s.len = l /\ s.floor = f /\ s.mark = "token" /\ s.open = o
  BY PtIs DEF Marks
<1>3. Fine(k, f, o)
  BY DEF Fine
<1>4. t \in Points /\ t = Pt(k, f, "none", "none", o)
  BY <1>3, AtIs DEF At
<1>5. k = l - 1 /\ l \in Nat /\ f \in Nat
  BY DEF Fine
<1> HIDE DEF s, t, i
<1>6. Moves(i, s, t)
  BY <1>1, <1>2, <1>4, <1>5 DEF Moves
<1> QED
  BY <1>1, <1>2, <1>4, <1>6, RunOne DEF s, t, i

LEMMA ReserveRuns ==
    ASSUME NEW s \in Points, NEW caps \in Seq(Nat)
    PROVE  Run(<<Reserve(caps)>>, s, s)
<1> DEFINE i == Reserve(caps)
<1>1. i \in Items /\ i.op = "reserve"
  <2>1. i = Item("reserve", "none", 0, caps)
    BY DEF Reserve
  <2>2. "reserve" \in Ops /\ "none" \in Args /\ 0 \in Nat
    BY DEF Ops, Args
  <2> HIDE DEF i
  <2> QED
    BY <2>1, <2>2, ItemIs
<1> HIDE DEF i
<1>2. Moves(i, s, s)
  BY <1>1 DEF Moves
<1> QED
  BY <1>1, <1>2, RunOne DEF i

LEMMA BuildMarks ==
    ASSUME NEW l, NEW f, NEW o, Fine(l, f, o), NEW type \in Types, NEW cap \in Nat, NEW n \in Nat, f + n <= l,
           NEW k, k + n = l + 1, k \in Nat, NEW tk \in Tokens \cup {"none"}, NEW m \in {"none", MarkOf(type)}
    PROVE  Run(<<Build(type, cap, n)>>, Pt(l, f, tk, "none", o), Pt(k, f, tk, m, o))
<1> DEFINE i == Build(type, cap, n)
           s == Pt(l, f, tk, "none", o)
           t == Pt(k, f, tk, m, o)
<1>1. i \in Items /\ i.op = "build" /\ i.arg = type /\ i.n = n /\ i.caps # <<>>
  <2>1. <<cap>> \in Seq(Nat) /\ <<cap>> # <<>>
    OBVIOUS
  <2>2. "build" \in Ops /\ type \in Args
    BY DEF Ops, Args
  <2>3. i = Item("build", type, n, <<cap>>)
    BY DEF Build
  <2> DEFINE caps == <<cap>>
  <2> HIDE DEF i, caps
  <2>4. caps \in Seq(Nat) /\ caps # <<>> /\ i = Item("build", type, n, caps)
    BY <2>1, <2>3 DEF caps
  <2> QED
    BY <2>2, <2>4, ItemIs
<1>2. s \in Points /\ s.len = l /\ s.floor = f /\ s.tk = tk /\ s.open = o
  BY PtIs DEF Marks
<1>3. Fine(k, f, o) /\ m \in Marks /\ k = l - n + 1
  BY DEF Fine, MarkOf, Marks
<1> HIDE DEF i
<1>4. t \in Points /\ t.len = k /\ t.floor = f /\ t.tk = tk /\ t.mark = m /\ t.open = o
  <2>1. Fine(k, f, o) /\ m \in Marks /\ tk \in Tokens \cup {"none"}
    BY <1>3
  <2>2. Pt(k, f, tk, m, o) \in Points
    BY <2>1, PtIs
  <2> QED
    BY <2>2 DEF Pt
<1> HIDE DEF s, t
<1>5. Moves(i, s, t)
  BY <1>1, <1>2, <1>3, <1>4 DEF Moves
<1> QED
  BY <1>1, <1>2, <1>4, <1>5, RunOne DEF s, t, i

LEMMA BuildRuns ==
    ASSUME NEW l, NEW f, NEW o, Fine(l, f, o), NEW type \in Types, NEW cap \in Nat, NEW n \in Nat, f + n <= l,
           NEW k, k + n = l + 1, k \in Nat
    PROVE  Run(<<Build(type, cap, n)>>, At(l, f, o), At(k, f, o))
BY BuildMarks DEF At

LEMMA MakeRuns ==
    ASSUME NEW l, NEW f, NEW o, Fine(l, f, o), NEW type \in Types, NEW cap \in Nat, NEW n \in Nat, f + n <= l,
           NEW k, k + n = l + 1, k \in Nat, NEW tk \in Tokens \cup {"none"}, NEW m \in {"none", MarkOf(type)}
    PROVE  Run(Make(type, cap, n), Pt(l, f, tk, "none", o), Pt(k, f, tk, m, o))
<1> DEFINE s == Pt(l, f, tk, "none", o)
           t == Pt(k, f, tk, m, o)
<1>1. Run(<<Build(type, cap, n)>>, s, t)
  BY BuildMarks
<1>2. s \in Points /\ <<cap>> \in Seq(Nat)
  BY <1>1, RunEnds
<1> HIDE DEF s, t
<1>3. Run(<<Reserve(<<cap>>)>>, s, s)
  BY <1>2, ReserveRuns
<1>4. Make(type, cap, n) = <<Reserve(<<cap>>)>> \o <<Build(type, cap, n)>>
  BY DEF Make
<1>5. Run(Make(type, cap, n), s, t)
  BY <1>1, <1>3, <1>4, RunCat
<1> QED
  BY <1>5 DEF s, t

LEMMA MakeAt ==
    ASSUME NEW l, NEW f, NEW o, Fine(l, f, o), NEW type \in Types, NEW cap \in Nat, NEW n \in Nat, f + n <= l,
           NEW k, k + n = l + 1, k \in Nat
    PROVE  Run(Make(type, cap, n), At(l, f, o), At(k, f, o))
BY MakeRuns DEF At

LEMMA LeafRuns ==
    ASSUME NEW l, NEW f, NEW o, Fine(l, f, o), NEW tk \in Plain, NEW type \in Types, NEW k, k = l + 1
    PROVE  Run(Leaf(tk, type), At(l, f, o), At(k, f, o))
<1>1. Run(<<Take(tk)>>, At(l, f, o), At(k, f, o))
  BY TakeRuns
<1>2. Fine(k, f, o) /\ f + 1 <= k /\ k + 1 = k + 1 /\ k \in Nat
  BY DEF Fine
<1>3. Run(Make(type, 0, 1), At(k, f, o), At(k, f, o))
  BY <1>2, MakeAt
<1> QED
  BY <1>1, <1>3, RunCat DEF Leaf

LEMMA PushRuns ==
    ASSUME NEW l, NEW f, NEW o, Fine(l, f, o), f + 2 <= l, NEW k, k + 1 = l, k \in Nat
    PROVE  Run(<<Push>>, At(l, f, o), At(k, f, o))
<1> DEFINE i == Push
           s == At(l, f, o)
           t == At(k, f, o)
<1>1. i \in Items /\ i.op = "push"
  BY PlainItem DEF Push, Ops, Args
<1>2. s \in Points /\ s.len = l /\ s.floor = f /\ s.tk = "none" /\ s.open = o
  BY AtIs
<1>3. Fine(k, f, o) /\ k = l - 1
  BY DEF Fine
<1>4. t \in Points /\ t = Pt(k, f, "none", "none", o)
  BY <1>3, AtIs DEF At
<1> HIDE DEF s, t, i
<1>6. Moves(i, s, t)
  BY <1>1, <1>2, <1>3, <1>4 DEF Moves
<1> QED
  BY <1>1, <1>2, <1>4, <1>6, RunOne DEF s, t, i

LEMMA SetRuns ==
    ASSUME NEW l, NEW f, NEW o, Fine(l, f, o), f < l, NEW i \in {Count, Mark, Closed}
    PROVE  Run(<<i>>, At(l, f, o), At(l, f, o))
<1> DEFINE s == At(l, f, o)
<1>1. i \in Items /\ i.op \in {"count", "mark", "closed"}
  BY PlainItem DEF Count, Mark, Closed, Ops, Args
<1>2. s \in Points /\ s.len = l /\ s.floor = f /\ s.tk = "none" /\ s.open = o /\ s = Pt(l, f, "none", "none", o)
  BY AtIs DEF At
<1> HIDE DEF s
<1>3. Moves(i, s, s)
  BY <1>1, <1>2 DEF Moves
<1> QED
  BY <1>1, <1>2, <1>3, RunOne DEF s

LEMMA RejectRuns ==
    ASSUME NEW l, NEW f, NEW o, Fine(l, f, o), NEW k, NEW q, Fine(k, f, q)
    PROVE  Run(<<Reject>>, At(l, f, o), At(k, f, q))
<1> DEFINE i == Reject
           s == At(l, f, o)
           t == At(k, f, q)
<1>1. i \in Items /\ i.op = "reject"
  BY PlainItem DEF Reject, Ops, Args
<1>2. s \in Points /\ s.floor = f /\ t \in Points /\ t.floor = f /\ f \in Nat
  BY AtIs DEF Fine
<1> HIDE DEF s, t, i
<1>3. Moves(i, s, t)
  BY <1>1, <1>2 DEF Moves
<1> QED
  BY <1>1, <1>2, <1>3, RunOne DEF s, t, i

\* A call whose rule takes n nodes.
LEMMA CallItem ==
    ASSUME NEW l, NEW f, NEW o, Fine(l, f, o), NEW rule \in Rules, f + Takes(rule) <= l, NEW k,
           k + Takes(rule) = l + 1, k \in Nat, NEW x \in Nat, NEW tk \in Tokens \cup {"none"}, NEW m \in Marks,
           rule = "stats" => m = "block", rule = "namefield" => m = "token", rule = "retstat" => tk = "return"
    PROVE  Run(<<Item("call", rule, x, <<>>)>>, Pt(l, f, tk, m, o), At(k, f, o))
<1> DEFINE i == Item("call", rule, x, <<>>)
           s == Pt(l, f, tk, m, o)
           t == At(k, f, o)
<1>1. i \in Items /\ i.op = "call" /\ i.arg = rule
  BY PlainItem DEF Ops, Args
<1>2. s \in Points /\ s.len = l /\ s.floor = f /\ s.tk = tk /\ s.mark = m /\ s.open = o
  BY PtIs
<1>3. Takes(rule) \in Nat
  BY DEF Takes
<1>4. Fine(k, f, o) /\ k = l - Takes(rule) + 1
  BY <1>3 DEF Fine
<1>5. t \in Points /\ t = Pt(k, f, "none", "none", o)
  BY <1>4, AtIs DEF At
<1> HIDE DEF s, t, i
<1>6. Calls(i, s, t)
  BY <1>1, <1>2, <1>4, <1>5 DEF Calls
<1>7. Moves(i, s, t)
  BY <1>1, <1>6 DEF Moves
<1> QED
  BY <1>1, <1>2, <1>5, <1>7, RunOne DEF s, t, i

KeepRules == {"block", "stat", "exp", "subexp", "simpleexp", "suffixedexp", "primaryexp", "args", "explist",
              "table", "field", "funcbody", "localkind", "attname"}
TakeRules == {"binops", "paren", "suffixes", "callargs", "moreexps", "fields", "fieldsep", "funcname", "arglist",
              "moreargs", "retvals", "elseifs", "forkind", "fornames", "localinit", "attnames", "attrib",
              "assignorcall", "targets"}

LEMMA CallNew ==
    ASSUME NEW l, NEW f, NEW o, Fine(l, f, o), NEW rule \in KeepRules, NEW x \in Nat, NEW k, k = l + 1
    PROVE  Run(<<Item("call", rule, x, <<>>)>>, At(l, f, o), At(k, f, o))
<1>1. rule \in Rules /\ rule \notin {"stats", "namefield", "retstat"} /\ Takes(rule) = 0
  BY DEF Rules, KeepRules, Takes
<1>2. f + Takes(rule) <= l /\ k + Takes(rule) = l + 1 /\ k \in Nat
  BY <1>1 DEF Fine
<1> QED
  BY <1>1, <1>2, CallItem DEF At, Marks

LEMMA CallOn ==
    ASSUME NEW l, NEW f, NEW o, Fine(l, f, o), f < l, NEW rule \in TakeRules, NEW x \in Nat
    PROVE  Run(<<Item("call", rule, x, <<>>)>>, At(l, f, o), At(l, f, o))
<1>1. rule \in Rules /\ rule \notin {"stats", "namefield", "retstat"} /\ Takes(rule) = 1
  BY DEF Rules, TakeRules, Takes
<1>2. f + Takes(rule) <= l /\ l + Takes(rule) = l + 1 /\ l \in Nat
  BY <1>1 DEF Fine
<1> QED
  BY <1>1, <1>2, CallItem DEF At, Marks

LEMMA KeepRuns ==
    ASSUME NEW l, NEW f, NEW o, Fine(l, f, o), f < l, NEW k, k = l + 1
    PROVE  Run(<<Keep(l)>>, At(k, l, o), Pt(l, f, "none", "block", o))
<1> DEFINE i == Keep(l)
           s == At(k, l, o)
           t == Pt(l, f, "none", "block", o)
<1>1. i \in Items /\ i.op = "keep" /\ i.n = l
  <2>1. i = Item("keep", "none", l, <<>>)
    BY DEF Keep
  <2>2. "keep" \in Ops /\ "none" \in Args /\ l \in Nat
    BY DEF Ops, Args, Fine
  <2> HIDE DEF i
  <2> QED
    BY <2>1, <2>2, PlainItem
<1>2. Fine(k, l, o) /\ "block" \in Marks
  BY DEF Fine, Marks
<1>3. s \in Points /\ s.len = k /\ s.floor = l /\ s.open = o
  BY <1>2, AtIs
<1>4. t \in Points /\ t.len = l /\ t.floor = f /\ t.tk = "none" /\ t.mark = "block" /\ t.open = o
  BY <1>2, PtIs
<1> HIDE DEF s, t, i
<1>5. Moves(i, s, t)
  BY <1>1, <1>3, <1>4 DEF Moves
<1> QED
  BY <1>1, <1>3, <1>4, <1>5, RunOne DEF s, t, i

-----------------------------------------------------------------------------
(* What the steps of a rule do *)

LEMMA FineAbove ==
    ASSUME NEW l, NEW f, NEW o, Fine(l, f, o), NEW k \in Nat, f <= k PROVE Fine(k, f, o)
BY DEF Fine

LEMMA CapsAre == <<2>> \in Seq(Nat) /\ <<4>> \in Seq(Nat) /\ <<3, 2, 4>> \in Seq(Nat)
OBVIOUS

\* The calls that look at more than the number of nodes.
LEMMA CallStats ==
    ASSUME NEW l, NEW f, NEW o, Fine(l, f, o), f < l
    PROVE  Run(<<Call("stats")>>, Pt(l, f, "none", "block", o), At(l, f, o))
<1>1. "stats" \in Rules /\ Takes("stats") = 1 /\ "block" \in Marks /\ l \in Nat /\ f \in Nat
  BY DEF Rules, Takes, Marks, Fine
<1>2. f + Takes("stats") <= l /\ l + Takes("stats") = l + 1 /\ 0 \in Nat
  BY <1>1
<1>3. Run(<<Item("call", "stats", 0, <<>>)>>, Pt(l, f, "none", "block", o), At(l, f, o))
  BY <1>1, <1>2, CallItem
<1> QED
  BY <1>3 DEF Call

LEMMA CallNameField ==
    ASSUME NEW l, NEW f, NEW o, Fine(l, f, o), f < l
    PROVE  Run(<<Call("namefield")>>, Pt(l, f, "none", "token", o), At(l, f, o))
<1>1. "namefield" \in Rules /\ Takes("namefield") = 1 /\ "token" \in Marks /\ l \in Nat /\ f \in Nat
  BY DEF Rules, Takes, Marks, Fine
<1>2. f + Takes("namefield") <= l /\ l + Takes("namefield") = l + 1 /\ 0 \in Nat
  BY <1>1
<1>3. Run(<<Item("call", "namefield", 0, <<>>)>>, Pt(l, f, "none", "token", o), At(l, f, o))
  BY <1>1, <1>2, CallItem
<1> QED
  BY <1>3 DEF Call

LEMMA CallReturn ==
    ASSUME NEW l, NEW f, NEW o, Fine(l, f, o), NEW k, k = l + 1
    PROVE  Run(<<Call("retstat")>>, Sees(l, f, "return", o), At(k, f, o))
<1>1. /\ "retstat" \in Rules /\ Takes("retstat") = 0 /\ "none" \in Marks /\ l \in Nat /\ f \in Nat /\ f <= l
      /\ "return" \in Tokens
  BY DEF Rules, Takes, Marks, Fine, Tokens, Plain
<1>2. f + Takes("retstat") <= l /\ k + Takes("retstat") = l + 1 /\ k \in Nat /\ 0 \in Nat
  BY <1>1
<1>3. Run(<<Item("call", "retstat", 0, <<>>)>>, Pt(l, f, "return", "none", o), At(k, f, o))
  BY <1>1, <1>2, CallItem
<1> QED
  BY <1>3 DEF Call, Sees

LEMMA CallForStep ==
    ASSUME NEW l, NEW f, NEW o, Fine(l, f, o), f + 3 <= l, NEW k, k + 2 = l, k \in Nat
    PROVE  Run(<<Call("forstep")>>, At(l, f, o), At(k, f, o))
<1>1. "forstep" \in Rules /\ Takes("forstep") = 3 /\ "none" \in Marks /\ l \in Nat /\ f \in Nat
  BY DEF Rules, Takes, Marks, Fine
<1>2. f + Takes("forstep") <= l /\ k + Takes("forstep") = l + 1 /\ 0 \in Nat
  BY <1>1
<1>3. Run(<<Item("call", "forstep", 0, <<>>)>>, Pt(l, f, "none", "none", o), At(k, f, o))
  BY <1>1, <1>2, CallItem
<1> QED
  BY <1>3 DEF Call, At

LEMMA FineUp ==
    ASSUME NEW l, NEW f, NEW o, Fine(l, f, o)
    PROVE  \A x \in Openers : Fine(l, f, Append(o, x))
<1> TAKE x \in Openers
<1>1. o \in Seq(Openers)
  BY DEF Fine
<1>2. Append(o, x) \in Seq(Openers)
  BY <1>1, AppendProperties
<1> QED
  BY <1>2 DEF Fine

LEMMA BinaryPlain == \A tk : \A min_prec \in Nat : LeftPrio(tk) > min_prec => tk \in Plain
<1> SUFFICES ASSUME NEW tk, LeftPrio(tk) # 0 PROVE tk \in Plain
  BY DEF LeftPrio
<1>1. tk \in {"or", "and", "<", ">", "<=", ">=", "==", "~=", "|", "~", "&", "<<", ">>", "..", "+", "-", "*",
              "/", "//", "%", "^"}
  BY DEF LeftPrio
<1> QED
  BY <1>1 DEF Plain

LEMMA PrioNat == \A tk : LeftPrio(tk) \in Nat /\ RightPrio(tk) \in Nat
BY DEF LeftPrio, RightPrio

\* The items lead from what a call finds, the current token tk, to what it leaves.
Serves(items, l, f, tk, o, k) ==
    \/ Run(items, At(l, f, o), At(k, f, o))
    \/ Run(items, Sees(l, f, tk, o), At(k, f, o))

LEMMA CatIs ==
    ASSUME NEW S, NEW p \in Seq(S), NEW q \in Seq(S), NEW w \in Seq(S), Len(w) = Len(p) + Len(q),
           \A i \in 1 .. Len(p) : w[i] = p[i], \A i \in 1 .. Len(q) : w[Len(p) + i] = q[i]
    PROVE  p \o q = w
<1>1. /\ p \o q \in Seq(S) /\ Len(p \o q) = Len(p) + Len(q)
      /\ \A i \in 1 .. Len(p) + Len(q) : (p \o q)[i] = IF i <= Len(p) THEN p[i] ELSE q[i - Len(p)]
  BY ConcatProperties
<1>2. Len(p) \in Nat /\ Len(q) \in Nat
  BY LenProperties
<1>3. ASSUME NEW i \in 1 .. Len(w) PROVE (p \o q)[i] = w[i]
  <2>1. CASE i <= Len(p)
    BY <1>1, <1>2, <2>1
  <2>2. CASE i > Len(p)
    <3>1. i - Len(p) \in 1 .. Len(q) /\ Len(p) + (i - Len(p)) = i
      BY <1>2, <2>2
    <3> QED
      BY <1>1, <1>2, <2>2, <3>1
  <2> QED
    BY <1>2, <2>1, <2>2
<1> QED
  BY <1>1, <1>3, SeqEqual

LEMMA RunItem ==
    ASSUME NEW i, NEW s, NEW t, Run(<<i>>, s, t) PROVE i \in Items
<1> DEFINE p == <<i>>
<1>1. p[1] = i /\ Len(p) = 1
  OBVIOUS
<1> HIDE DEF p
<1>2. p \in Seq(Items)
  BY DEF Run, p
<1> QED
  BY <1>1, <1>2, ElementOfSeq

LEMMA Run2 ==
    ASSUME NEW a, NEW b,
           NEW p0, NEW p1, NEW p2,
           Run(<<a>>, p0, p1), Run(<<b>>, p1, p2)
    PROVE  Run(<<a, b>>, p0, p2)
<1> DEFINE x == <<a>>
           y == <<b>>
           w == <<a, b>>
<1>1. Run(x, p0, p1)
  OBVIOUS
<1>2. Run(y, p1, p2)
  OBVIOUS
<1>3. a \in Items /\ b \in Items
  BY RunItem
<1>4. x \in Seq(Items) /\ y \in Seq(Items) /\ w \in Seq(Items) /\ Len(x) = 1 /\ Len(y) = 1 /\ Len(w) = 2
  BY <1>3
<1>5. /\ x[1] = a /\ y[1] = b
      /\ w[1] = a /\ w[2] = b
  OBVIOUS
<1> HIDE DEF x, y, w
<1>6. \A i \in 1 .. Len(x) : w[i] = x[i]
  <2> TAKE i \in 1 .. Len(x)
  <2>1. i \in {1}
    BY <1>4
  <2> QED
    BY <1>4, <1>5, <2>1
<1>7. \A i \in 1 .. Len(y) : w[Len(x) + i] = y[i]
  <2> TAKE i \in 1 .. Len(y)
  <2>1. i \in {1}
    BY <1>4
  <2> QED
    BY <1>4, <1>5, <2>1
<1>8. Len(w) = Len(x) + Len(y)
  BY <1>4
<1>9. x \o y = w
  <2>1. x \in Seq(Items) /\ y \in Seq(Items) /\ w \in Seq(Items)
    BY <1>4
  <2> QED
    BY <1>6, <1>7, <1>8, <2>1, CatIs
<1>10. Run(w, p0, p2)
  BY <1>1, <1>2, <1>9, RunCat
<1> QED
  BY <1>10 DEF w

LEMMA Run3 ==
    ASSUME NEW a, NEW b, NEW c,
           NEW p0, NEW p1, NEW p2, NEW p3,
           Run(<<a>>, p0, p1), Run(<<b>>, p1, p2), Run(<<c>>, p2, p3)
    PROVE  Run(<<a, b, c>>, p0, p3)
<1> DEFINE x == <<a, b>>
           y == <<c>>
           w == <<a, b, c>>
<1>1. Run(x, p0, p2)
  BY Run2
<1>2. Run(y, p2, p3)
  OBVIOUS
<1>3. a \in Items /\ b \in Items /\ c \in Items
  BY RunItem
<1>4. x \in Seq(Items) /\ y \in Seq(Items) /\ w \in Seq(Items) /\ Len(x) = 2 /\ Len(y) = 1 /\ Len(w) = 3
  BY <1>3
<1>5. /\ x[1] = a /\ x[2] = b /\ y[1] = c
      /\ w[1] = a /\ w[2] = b /\ w[3] = c
  OBVIOUS
<1> HIDE DEF x, y, w
<1>6. \A i \in 1 .. Len(x) : w[i] = x[i]
  <2> TAKE i \in 1 .. Len(x)
  <2>1. i \in {1, 2}
    BY <1>4
  <2> QED
    BY <1>4, <1>5, <2>1
<1>7. \A i \in 1 .. Len(y) : w[Len(x) + i] = y[i]
  <2> TAKE i \in 1 .. Len(y)
  <2>1. i \in {1}
    BY <1>4
  <2> QED
    BY <1>4, <1>5, <2>1
<1>8. Len(w) = Len(x) + Len(y)
  BY <1>4
<1>9. x \o y = w
  <2>1. x \in Seq(Items) /\ y \in Seq(Items) /\ w \in Seq(Items)
    BY <1>4
  <2> QED
    BY <1>6, <1>7, <1>8, <2>1, CatIs
<1>10. Run(w, p0, p3)
  BY <1>1, <1>2, <1>9, RunCat
<1> QED
  BY <1>10 DEF w

LEMMA Run4 ==
    ASSUME NEW a, NEW b, NEW c, NEW d,
           NEW p0, NEW p1, NEW p2, NEW p3, NEW p4,
           Run(<<a>>, p0, p1), Run(<<b>>, p1, p2), Run(<<c>>, p2, p3), Run(<<d>>, p3, p4)
    PROVE  Run(<<a, b, c, d>>, p0, p4)
<1> DEFINE x == <<a, b, c>>
           y == <<d>>
           w == <<a, b, c, d>>
<1>1. Run(x, p0, p3)
  BY Run3
<1>2. Run(y, p3, p4)
  OBVIOUS
<1>3. a \in Items /\ b \in Items /\ c \in Items /\ d \in Items
  BY RunItem
<1>4. x \in Seq(Items) /\ y \in Seq(Items) /\ w \in Seq(Items) /\ Len(x) = 3 /\ Len(y) = 1 /\ Len(w) = 4
  BY <1>3
<1>5. /\ x[1] = a /\ x[2] = b /\ x[3] = c /\ y[1] = d
      /\ w[1] = a /\ w[2] = b /\ w[3] = c /\ w[4] = d
  OBVIOUS
<1> HIDE DEF x, y, w
<1>6. \A i \in 1 .. Len(x) : w[i] = x[i]
  <2> TAKE i \in 1 .. Len(x)
  <2>1. i \in {1, 2, 3}
    BY <1>4
  <2> QED
    BY <1>4, <1>5, <2>1
<1>7. \A i \in 1 .. Len(y) : w[Len(x) + i] = y[i]
  <2> TAKE i \in 1 .. Len(y)
  <2>1. i \in {1}
    BY <1>4
  <2> QED
    BY <1>4, <1>5, <2>1
<1>8. Len(w) = Len(x) + Len(y)
  BY <1>4
<1>9. x \o y = w
  <2>1. x \in Seq(Items) /\ y \in Seq(Items) /\ w \in Seq(Items)
    BY <1>4
  <2> QED
    BY <1>6, <1>7, <1>8, <2>1, CatIs
<1>10. Run(w, p0, p4)
  BY <1>1, <1>2, <1>9, RunCat
<1> QED
  BY <1>10 DEF w

LEMMA Run5 ==
    ASSUME NEW a, NEW b, NEW c, NEW d, NEW e,
           NEW p0, NEW p1, NEW p2, NEW p3, NEW p4, NEW p5,
           Run(<<a>>, p0, p1), Run(<<b>>, p1, p2), Run(<<c>>, p2, p3), Run(<<d>>, p3, p4),
           Run(<<e>>, p4, p5)
    PROVE  Run(<<a, b, c, d, e>>, p0, p5)
<1> DEFINE x == <<a, b, c, d>>
           y == <<e>>
           w == <<a, b, c, d, e>>
<1>1. Run(x, p0, p4)
  BY Run4
<1>2. Run(y, p4, p5)
  OBVIOUS
<1>3. a \in Items /\ b \in Items /\ c \in Items /\ d \in Items /\ e \in Items
  BY RunItem
<1>4. x \in Seq(Items) /\ y \in Seq(Items) /\ w \in Seq(Items) /\ Len(x) = 4 /\ Len(y) = 1 /\ Len(w) = 5
  BY <1>3
<1>5. /\ x[1] = a /\ x[2] = b /\ x[3] = c /\ x[4] = d /\ y[1] = e
      /\ w[1] = a /\ w[2] = b /\ w[3] = c /\ w[4] = d /\ w[5] = e
  OBVIOUS
<1> HIDE DEF x, y, w
<1>6. \A i \in 1 .. Len(x) : w[i] = x[i]
  <2> TAKE i \in 1 .. Len(x)
  <2>1. i \in {1, 2, 3, 4}
    BY <1>4
  <2> QED
    BY <1>4, <1>5, <2>1
<1>7. \A i \in 1 .. Len(y) : w[Len(x) + i] = y[i]
  <2> TAKE i \in 1 .. Len(y)
  <2>1. i \in {1}
    BY <1>4
  <2> QED
    BY <1>4, <1>5, <2>1
<1>8. Len(w) = Len(x) + Len(y)
  BY <1>4
<1>9. x \o y = w
  <2>1. x \in Seq(Items) /\ y \in Seq(Items) /\ w \in Seq(Items)
    BY <1>4
  <2> QED
    BY <1>6, <1>7, <1>8, <2>1, CatIs
<1>10. Run(w, p0, p5)
  BY <1>1, <1>2, <1>9, RunCat
<1> QED
  BY <1>10 DEF w

LEMMA Run6 ==
    ASSUME NEW a, NEW b, NEW c, NEW d, NEW e, NEW f,
           NEW p0, NEW p1, NEW p2, NEW p3, NEW p4, NEW p5, NEW p6,
           Run(<<a>>, p0, p1), Run(<<b>>, p1, p2), Run(<<c>>, p2, p3), Run(<<d>>, p3, p4),
           Run(<<e>>, p4, p5), Run(<<f>>, p5, p6)
    PROVE  Run(<<a, b, c, d, e, f>>, p0, p6)
<1> DEFINE x == <<a, b, c, d>>
           y == <<e, f>>
           w == <<a, b, c, d, e, f>>
<1>1. Run(x, p0, p4)
  BY Run4
<1>2. Run(y, p4, p6)
  BY Run2
<1>3. a \in Items /\ b \in Items /\ c \in Items /\ d \in Items /\ e \in Items /\ f \in Items
  BY RunItem
<1>4. x \in Seq(Items) /\ y \in Seq(Items) /\ w \in Seq(Items) /\ Len(x) = 4 /\ Len(y) = 2 /\ Len(w) = 6
  BY <1>3
<1>5. /\ x[1] = a /\ x[2] = b /\ x[3] = c /\ x[4] = d /\ y[1] = e /\ y[2] = f
      /\ w[1] = a /\ w[2] = b /\ w[3] = c /\ w[4] = d /\ w[5] = e /\ w[6] = f
  OBVIOUS
<1> HIDE DEF x, y, w
<1>6. \A i \in 1 .. Len(x) : w[i] = x[i]
  <2> TAKE i \in 1 .. Len(x)
  <2>1. i \in {1, 2, 3, 4}
    BY <1>4
  <2> QED
    BY <1>4, <1>5, <2>1
<1>7. \A i \in 1 .. Len(y) : w[Len(x) + i] = y[i]
  <2> TAKE i \in 1 .. Len(y)
  <2>1. i \in {1, 2}
    BY <1>4
  <2> QED
    BY <1>4, <1>5, <2>1
<1>8. Len(w) = Len(x) + Len(y)
  BY <1>4
<1>9. x \o y = w
  <2>1. x \in Seq(Items) /\ y \in Seq(Items) /\ w \in Seq(Items)
    BY <1>4
  <2> QED
    BY <1>6, <1>7, <1>8, <2>1, CatIs
<1>10. Run(w, p0, p6)
  BY <1>1, <1>2, <1>9, RunCat
<1> QED
  BY <1>10 DEF w

LEMMA TypesAre ==
    /\ "name" \in Types /\ "explist" \in Types /\ "paren" \in Types /\ "field" \in Types /\ "index" \in Types
    /\ "call_method" \in Types /\ "call" \in Types /\ "string" \in Types /\ "vararg" \in Types
    /\ "func_expr" \in Types /\ "unop" \in Types /\ "binop" \in Types /\ "table" \in Types
    /\ "field_idx" \in Types /\ "field_val" \in Types /\ "field_name" \in Types /\ "arglist" \in Types
    /\ "funcbody" \in Types /\ "funcdef" \in Types /\ "attname" \in Types /\ "return" \in Types
    /\ "if" \in Types /\ "elseif" \in Types /\ "else" \in Types /\ "while" \in Types /\ "do" \in Types
    /\ "fornum" \in Types /\ "forin" \in Types /\ "repeat" \in Types /\ "local_func" \in Types
    /\ "local" \in Types /\ "goto" \in Types /\ "label" \in Types /\ "break" \in Types
    /\ "assign" \in Types /\ "call_stat" \in Types /\ "block" \in Types
BY DEF Types

LEMMA TokensAre ==
    /\ "Name" \in Plain /\ "String" \in Plain /\ "function" \in Plain /\ "return" \in Plain
    /\ "(" \in Openers /\ "{" \in Openers /\ "[" \in Openers
    /\ "(" \in Tokens /\ "function" \in Tokens /\ "return" \in Tokens
    /\ Plain \subseteq Tokens /\ Openers \subseteq Tokens
BY DEF Plain, Tokens, Openers

LEMMA SeesIs ==
    ASSUME NEW l, NEW f, NEW o, Fine(l, f, o), NEW k \in Tokens PROVE Sees(l, f, k, o) \in Points
BY PtIs DEF Sees, Marks

LEMMA MakeSees ==
    ASSUME NEW l, NEW f, NEW o, Fine(l, f, o), NEW type \in Types, NEW cap \in Nat, NEW n \in Nat, f + n <= l,
           NEW k, k + n = l + 1, k \in Nat, NEW tk \in Tokens
    PROVE  Run(Make(type, cap, n), Sees(l, f, tk, o), Sees(k, f, tk, o))
BY MakeRuns DEF Sees

\* With x and y for the braces.
LEMMA TableInside ==
    ASSUME NEW l, NEW f, NEW o, Fine(l, f, o), NEW q, Fine(l, f, q), NEW k, k = l + 1, NEW x, NEW y,
           Run(<<Expect(x)>>, At(k, f, o), At(k, f, q)), Run(<<Expect(y)>>, At(k, f, q), At(k, f, o))
    PROVE  Run(Make("table", 4, 0) \o <<Expect(x), Call("fields"), Expect(y)>>, At(l, f, o), At(k, f, o))
<1>1. l \in Nat /\ k \in Nat /\ f \in Nat /\ f <= l /\ Fine(k, f, q) /\ "table" \in Types
  BY TypesAre DEF Fine
<1>2. Run(Make("table", 4, 0), At(l, f, o), At(k, f, o))
  BY <1>1, MakeAt
<1>3. Run(<<Call("fields")>>, At(k, f, q), At(k, f, q))
  BY <1>1, CallOn DEF Call, TakeRules
<1>4. Run(<<Expect(x), Call("fields"), Expect(y)>>, At(k, f, o), At(k, f, o))
  BY <1>3, Run3
<1> QED
  BY <1>2, <1>4, RunCat

LEMMA BracesAre == "{" \in Openers /\ "}" \in Closers /\ Kind("{") = Kind("}")
BY Zenon DEF Openers, Closers, Kind

LEMMA TableRuns ==
    ASSUME NEW l, NEW f, NEW o, Fine(l, f, o)
    PROVE  Serves(parse_tableconstructor, l, f, "none", o, l + 1)
<1>1. Fine(l + 1, f, o)
  BY DEF Fine
<1> DEFINE x == "{"
           y == "}"
           k == l + 1
<1>2. x \in Openers /\ y \in Closers /\ Kind(x) = Kind(y)
  BY BracesAre
<1>3. parse_tableconstructor = Make("table", 4, 0) \o <<Expect(x), Call("fields"), Expect(y)>>
  BY Zenon DEF parse_tableconstructor
<1>4. Fine(k, f, o) /\ k = l + 1
  BY <1>1
<1> HIDE DEF x, y, k
<1>5. Run(<<Expect(x)>>, At(k, f, o), At(k, f, Append(o, x)))
  BY <1>2, <1>4, ExpectOpen
<1>6. Run(<<Expect(y)>>, At(k, f, Append(o, x)), At(k, f, o))
  BY <1>2, <1>4, ExpectClose
<1>7. Fine(l, f, Append(o, x))
  BY <1>2, FineUp
<1>8. Run(parse_tableconstructor, At(l, f, o), At(k, f, o))
  BY <1>3, <1>4, <1>5, <1>6, <1>7, TableInside
<1> QED
  BY <1>8 DEF Serves, k

LEMMA PrimaryRuns ==
    ASSUME NEW tk, NEW l, NEW f, NEW o, Fine(l, f, o)
    PROVE  Serves(parse_primaryexp(tk), l, f, tk, o, l + 1)
<1>1. /\ l \in Nat /\ f \in Nat /\ f <= l /\ Fine(l, f, o) /\ Fine(l + 1, f, o)
      /\ Fine(l, f, Append(o, "(")) /\ Fine(l + 1, f, Append(o, "("))
      /\ "name" \in Types
      /\ "Name" \in Plain
  <2>1. l \in Nat /\ f \in Nat /\ f <= l /\ Fine(l, f, o) /\ Fine(l + 1, f, o)
    BY DEF Fine
  <2>2. Fine(l, f, Append(o, "("))
    BY FineUp DEF Openers
  <2>3. Fine(l, f, Append(o, "(")) /\ Fine(l + 1, f, Append(o, "("))
    BY <2>1, <2>1, <2>2, FineAbove
  <2>4. "name" \in Types
    BY TypesAre
  <2>5. "Name" \in Plain
    BY TokensAre
  <2> QED
    BY <2>1, <2>2, <2>3, <2>4, <2>5
<1>2. CASE tk = "Name"
  <2>1. Run(Leaf("Name", "name"), At(l, f, o), At(l + 1, f, o))
    BY <1>1, LeafRuns
  <2>2. parse_primaryexp(tk) = Leaf("Name", "name")
    BY <1>2 DEF parse_primaryexp
  <2> QED
    BY <1>2, <2>1, <2>2 DEF Serves
<1>3. CASE tk = "("
  <2>1. Run(<<Advance>>, Sees(l, f, "(", o), At(l, f, Append(o, "(")))
    BY <1>1, OpenRuns DEF Openers
  <2>2. Run(<<Call("exp")>>, At(l, f, Append(o, "(")), At(l + 1, f, Append(o, "(")))
    BY <1>1, CallNew DEF Call, KeepRules
  <2>3. Run(<<Expect(")")>>, At(l + 1, f, Append(o, "(")), At(l + 1, f, o))
    BY <1>1, KindsMatch, ExpectClose DEF Openers, Closers
  <2>4. Run(<<Closed>>, At(l + 1, f, o), At(l + 1, f, o))
    BY <1>1, SetRuns
  <2>5. Run(<<Call("paren")>>, At(l + 1, f, o), At(l + 1, f, o))
    BY <1>1, CallOn DEF Call, TakeRules
  <2>6. Run(<<Advance, Call("exp"), Expect(")"), Closed, Call("paren")>>, Sees(l, f, "(", o), At(l + 1, f,
         o))
    BY <2>1, <2>2, <2>3, <2>4, <2>5, Run5
  <2>7. parse_primaryexp(tk) = <<Advance, Call("exp"), Expect(")"), Closed, Call("paren")>>
    BY <1>3 DEF parse_primaryexp
  <2> QED
    BY <1>3, <2>6, <2>7 DEF Serves
<1>4. CASE tk \notin {"Name", "("}
  <2>1. Run(<<Reject>>, At(l, f, o), At(l + 1, f, o))
    BY <1>1, RejectRuns
  <2>2. parse_primaryexp(tk) = <<Reject>>
    BY <1>4 DEF parse_primaryexp
  <2> QED
    BY <1>4, <2>1, <2>2 DEF Serves
<1> QED
  BY <1>2, <1>3, <1>4

LEMMA ParenRuns ==
    ASSUME NEW inner, NEW l, NEW f, NEW o, Fine(l, f, o), f + 1 <= l
    PROVE  Serves(parse_paren(inner), l, f, "none", o, l)
<1>1. /\ l \in Nat /\ f \in Nat /\ f <= l /\ Fine(l, f, o)
      /\ "paren" \in Types
  <2>1. l \in Nat /\ f \in Nat /\ f <= l /\ Fine(l, f, o)
    BY DEF Fine
  <2>2. "paren" \in Types
    BY TypesAre
  <2> QED
    BY <2>1, <2>2
<1>2. CASE inner.type \in Multiple
  <2>1. Run(Make("paren", 1, 1), At(l, f, o), At(l, f, o))
    BY <1>1, MakeAt
  <2>2. parse_paren(inner) = Make("paren", 1, 1)
    BY <1>2 DEF parse_paren
  <2> QED
    BY <1>2, <2>1, <2>2 DEF Serves
<1>3. CASE inner.type \notin Multiple
  <2>1. Run(<<>>, At(l, f, o), At(l, f, o))
    BY <1>1, AtIs, RunNone
  <2>2. parse_paren(inner) = <<>>
    BY <1>3 DEF parse_paren
  <2> QED
    BY <1>3, <2>1, <2>2 DEF Serves
<1> QED
  BY <1>2, <1>3

LEMMA ArgsRuns ==
    ASSUME NEW tk, NEW l, NEW f, NEW o, Fine(l, f, o)
    PROVE  Serves(parse_args(tk), l, f, tk, o, l + 1)
<1>1. /\ l \in Nat /\ f \in Nat /\ f <= l /\ Fine(l, f, o) /\ Fine(l + 1, f, o)
      /\ Fine(l + 2, f, o)
      /\ Fine(l + 1, f, Append(o, "("))
      /\ "explist" \in Types /\ "string" \in Types
      /\ "String" \in Plain /\ "(" \in Tokens
  <2>1. /\ l \in Nat /\ f \in Nat /\ f <= l /\ Fine(l, f, o) /\ Fine(l + 1, f, o)
        /\ Fine(l + 2, f, o)
    BY DEF Fine
  <2>2. Fine(l, f, Append(o, "("))
    BY FineUp DEF Openers
  <2>3. Fine(l + 1, f, Append(o, "("))
    BY <2>1, <2>1, <2>2, FineAbove
  <2>4. "explist" \in Types /\ "string" \in Types
    BY TypesAre
  <2>5. "String" \in Plain /\ "(" \in Tokens
    BY TokensAre
  <2> QED
    BY <2>1, <2>2, <2>3, <2>4, <2>5
<1>2. CASE tk = "("
  <2>1. Run(Make("explist", 4, 0), Sees(l, f, "(", o), Sees(l + 1, f, "(", o))
    BY <1>1, MakeSees, SMTT(30)
  <2>2. Run(<<Advance>>, Sees(l + 1, f, "(", o), At(l + 1, f, Append(o, "(")))
    BY <1>1, OpenRuns DEF Openers
  <2>3. Run(<<Call("callargs")>>, At(l + 1, f, Append(o, "(")), At(l + 1, f, Append(o, "(")))
    BY <1>1, CallOn DEF Call, TakeRules
  <2>4. Run(<<Expect(")")>>, At(l + 1, f, Append(o, "(")), At(l + 1, f, o))
    BY <1>1, KindsMatch, ExpectClose DEF Openers, Closers
  <2>5. Run(<<Advance, Call("callargs"), Expect(")")>>, Sees(l + 1, f, "(", o), At(l + 1, f, o))
    BY <2>2, <2>3, <2>4, Run3
  <2>6. Run(Make("explist", 4, 0) \o <<Advance, Call("callargs"), Expect(")")>>, Sees(l, f, "(", o),
         At(l + 1, f, o))
    BY <2>1, <2>5, RunCat
  <2>7. parse_args(tk) = Make("explist", 4, 0) \o <<Advance, Call("callargs"), Expect(")")>>
    BY <1>2 DEF parse_args
  <2> QED
    BY <1>2, <2>6, <2>7 DEF Serves
<1>3. CASE tk = "{"
  <2>1. Run(Make("explist", 4, 0), At(l, f, o), At(l + 1, f, o))
    BY <1>1, MakeAt
  <2>2. Run(<<Call("table")>>, At(l + 1, f, o), At(l + 2, f, o))
    BY <1>1, CallNew DEF Call, KeepRules
  <2>3. Run(<<Push>>, At(l + 2, f, o), At(l + 1, f, o))
    BY <1>1, PushRuns
  <2>4. Run(<<Call("table"), Push>>, At(l + 1, f, o), At(l + 1, f, o))
    BY <2>2, <2>3, Run2
  <2>5. Run(Make("explist", 4, 0) \o <<Call("table"), Push>>, At(l, f, o), At(l + 1, f, o))
    BY <2>1, <2>4, RunCat
  <2>6. parse_args(tk) = Make("explist", 4, 0) \o <<Call("table"), Push>>
    BY <1>3 DEF parse_args
  <2> QED
    BY <1>3, <2>5, <2>6 DEF Serves
<1>4. CASE tk = "String"
  <2>1. Run(Make("explist", 4, 0), At(l, f, o), At(l + 1, f, o))
    BY <1>1, MakeAt
  <2>2. Run(Leaf("String", "string"), At(l + 1, f, o), At(l + 2, f, o))
    BY <1>1, LeafRuns
  <2>3. Run(<<Push>>, At(l + 2, f, o), At(l + 1, f, o))
    BY <1>1, PushRuns
  <2>4. Run(Leaf("String", "string") \o <<Push>>, At(l + 1, f, o), At(l + 1, f, o))
    BY <2>2, <2>3, RunCat
  <2>5. Run(Make("explist", 4, 0) \o (Leaf("String", "string") \o <<Push>>), At(l, f, o), At(l + 1, f, o))
    BY <2>1, <2>4, RunCat
  <2>6. parse_args(tk) = Make("explist", 4, 0) \o (Leaf("String", "string") \o <<Push>>)
    BY <1>4 DEF parse_args
  <2> QED
    BY <1>4, <2>5, <2>6 DEF Serves
<1>5. CASE tk \notin {"(", "{", "String"}
  <2>1. Run(Make("explist", 4, 0), At(l, f, o), At(l + 1, f, o))
    BY <1>1, MakeAt
  <2>2. Run(<<Reject>>, At(l + 1, f, o), At(l + 1, f, o))
    BY <1>1, RejectRuns
  <2>3. Run(Make("explist", 4, 0) \o <<Reject>>, At(l, f, o), At(l + 1, f, o))
    BY <2>1, <2>2, RunCat
  <2>4. parse_args(tk) = Make("explist", 4, 0) \o <<Reject>>
    BY <1>5 DEF parse_args
  <2> QED
    BY <1>5, <2>3, <2>4 DEF Serves
<1> QED
  BY <1>2, <1>3, <1>4, <1>5

LEMMA CallArgsRuns ==
    ASSUME NEW tk, NEW l, NEW f, NEW o, Fine(l, f, o), f + 1 <= l
    PROVE  Serves(parse_callargs(tk), l, f, tk, o, l)
<1>1. /\ l \in Nat /\ f \in Nat /\ f <= l /\ Fine(l, f, o) /\ Fine(l + 1, f, o)
  BY DEF Fine
<1>2. CASE tk = ")"
  <2>1. Run(<<>>, At(l, f, o), At(l, f, o))
    BY <1>1, AtIs, RunNone
  <2>2. parse_callargs(tk) = <<>>
    BY <1>2 DEF parse_callargs
  <2> QED
    BY <1>2, <2>1, <2>2 DEF Serves
<1>3. CASE tk # ")"
  <2>1. Run(<<Call("explist")>>, At(l, f, o), At(l + 1, f, o))
    BY <1>1, CallNew DEF Call, KeepRules
  <2>2. Run(<<Push>>, At(l + 1, f, o), At(l, f, o))
    BY <1>1, PushRuns
  <2>3. Run(<<Call("explist"), Push>>, At(l, f, o), At(l, f, o))
    BY <2>1, <2>2, Run2
  <2>4. parse_callargs(tk) = <<Call("explist"), Push>>
    BY <1>3 DEF parse_callargs
  <2> QED
    BY <1>3, <2>3, <2>4 DEF Serves
<1> QED
  BY <1>2, <1>3

LEMMA SuffixedRuns ==
    ASSUME NEW l, NEW f, NEW o, Fine(l, f, o)
    PROVE  Serves(parse_suffixedexp, l, f, "none", o, l + 1)
<1>1. /\ l \in Nat /\ f \in Nat /\ f <= l /\ Fine(l, f, o) /\ Fine(l + 1, f, o)
  BY DEF Fine
<1>2. Run(<<Call("primaryexp")>>, At(l, f, o), At(l + 1, f, o))
  BY <1>1, CallNew DEF Call, KeepRules
<1>3. Run(<<Call("suffixes")>>, At(l + 1, f, o), At(l + 1, f, o))
  BY <1>1, CallOn DEF Call, TakeRules
<1>4. Run(<<Call("primaryexp"), Call("suffixes")>>, At(l, f, o), At(l + 1, f, o))
  BY <1>2, <1>3, Run2
<1>5. parse_suffixedexp = <<Call("primaryexp"), Call("suffixes")>>
  BY DEF parse_suffixedexp
<1> QED
  BY <1>4, <1>5 DEF Serves

LEMMA SuffixesRuns ==
    ASSUME NEW tk, NEW l, NEW f, NEW o, Fine(l, f, o), f + 1 <= l
    PROVE  Serves(parse_suffixes(tk), l, f, tk, o, l)
<1>1. /\ l \in Nat /\ f \in Nat /\ f <= l /\ Fine(l, f, o) /\ Fine(l + 1, f, o)
      /\ Fine(l + 2, f, o)
      /\ Fine(l, f, Append(o, "[")) /\ Fine(l + 1, f, Append(o, "["))
      /\ "call" \in Types /\ "call_method" \in Types /\ "field" \in Types /\ "index" \in Types
  <2>1. /\ l \in Nat /\ f \in Nat /\ f <= l /\ Fine(l, f, o) /\ Fine(l + 1, f, o)
        /\ Fine(l + 2, f, o)
    BY DEF Fine
  <2>2. Fine(l, f, Append(o, "["))
    BY FineUp DEF Openers
  <2>3. Fine(l, f, Append(o, "[")) /\ Fine(l + 1, f, Append(o, "["))
    BY <2>1, <2>1, <2>2, FineAbove
  <2>4. "call" \in Types /\ "call_method" \in Types /\ "field" \in Types /\ "index" \in Types
    BY TypesAre
  <2> QED
    BY <2>1, <2>2, <2>3, <2>4
<1>2. CASE tk = "."
  <2>1. Run(<<Advance>>, Sees(l, f, ".", o), At(l, f, o))
    BY <1>1, PlainNeutral, AdvanceRuns DEF Plain, Sees, At
  <2>2. Run(<<Take("Name")>>, At(l, f, o), At(l + 1, f, o))
    BY <1>1, TakeRuns DEF Plain
  <2>3. Run(<<Advance, Take("Name")>>, Sees(l, f, ".", o), At(l + 1, f, o))
    BY <2>1, <2>2, Run2
  <2>4. Run(Make("field", 1, 2), At(l + 1, f, o), At(l, f, o))
    BY <1>1, MakeAt
  <2>5. Run(<<Call("suffixes")>>, At(l, f, o), At(l, f, o))
    BY <1>1, CallOn DEF Call, TakeRules
  <2>6. Run(<<Advance, Take("Name")>> \o Make("field", 1, 2), Sees(l, f, ".", o), At(l, f, o))
    BY <2>3, <2>4, RunCat
  <2>7. Run(<<Advance, Take("Name")>> \o Make("field", 1, 2) \o <<Call("suffixes")>>, Sees(l, f, ".", o),
         At(l, f, o))
    BY <2>6, <2>5, RunCat
  <2>8. parse_suffixes(tk) = <<Advance, Take("Name")>> \o Make("field", 1, 2) \o <<Call("suffixes")>>
    BY <1>2 DEF parse_suffixes
  <2> QED
    BY <1>2, <2>7, <2>8 DEF Serves
<1>3. CASE tk = "["
  <2>1. Run(<<Advance>>, Sees(l, f, "[", o), At(l, f, Append(o, "[")))
    BY <1>1, OpenRuns DEF Openers
  <2>2. Run(<<Call("exp")>>, At(l, f, Append(o, "[")), At(l + 1, f, Append(o, "[")))
    BY <1>1, CallNew DEF Call, KeepRules
  <2>3. Run(<<Expect("]")>>, At(l + 1, f, Append(o, "[")), At(l + 1, f, o))
    BY <1>1, KindsMatch, ExpectClose DEF Openers, Closers
  <2>4. Run(<<Advance, Call("exp"), Expect("]")>>, Sees(l, f, "[", o), At(l + 1, f, o))
    BY <2>1, <2>2, <2>3, Run3
  <2>5. Run(Make("index", 2, 2), At(l + 1, f, o), At(l, f, o))
    BY <1>1, MakeAt
  <2>6. Run(<<Call("suffixes")>>, At(l, f, o), At(l, f, o))
    BY <1>1, CallOn DEF Call, TakeRules
  <2>7. Run(<<Advance, Call("exp"), Expect("]")>> \o Make("index", 2, 2), Sees(l, f, "[", o), At(l, f, o))
    BY <2>4, <2>5, RunCat
  <2>8. Run(<<Advance, Call("exp"), Expect("]")>> \o Make("index", 2, 2) \o <<Call("suffixes")>>, Sees(l,
         f, "[", o), At(l, f, o))
    BY <2>7, <2>6, RunCat
  <2>9. parse_suffixes(tk) = <<Advance, Call("exp"), Expect("]")>> \o Make("index", 2, 2) \o
         <<Call("suffixes")>>
    BY <1>3 DEF parse_suffixes
  <2> QED
    BY <1>3, <2>8, <2>9 DEF Serves
<1>4. CASE tk = ":"
  <2>1. Run(<<Advance>>, Sees(l, f, ":", o), At(l, f, o))
    BY <1>1, PlainNeutral, AdvanceRuns DEF Plain, Sees, At
  <2>2. Run(<<Take("Name")>>, At(l, f, o), At(l + 1, f, o))
    BY <1>1, TakeRuns DEF Plain
  <2>3. Run(<<Call("args")>>, At(l + 1, f, o), At(l + 2, f, o))
    BY <1>1, CallNew DEF Call, KeepRules
  <2>4. Run(<<Advance, Take("Name"), Call("args")>>, Sees(l, f, ":", o), At(l + 2, f, o))
    BY <2>1, <2>2, <2>3, Run3
  <2>5. Run(Make("call_method", 2, 3), At(l + 2, f, o), At(l, f, o))
    BY <1>1, MakeAt
  <2>6. Run(<<Call("suffixes")>>, At(l, f, o), At(l, f, o))
    BY <1>1, CallOn DEF Call, TakeRules
  <2>7. Run(<<Advance, Take("Name"), Call("args")>> \o Make("call_method", 2, 3), Sees(l, f, ":", o), At(l,
         f, o))
    BY <2>4, <2>5, RunCat
  <2>8. Run(<<Advance, Take("Name"), Call("args")>> \o Make("call_method", 2, 3) \o <<Call("suffixes")>>,
         Sees(l, f, ":", o), At(l, f, o))
    BY <2>7, <2>6, RunCat
  <2>9. parse_suffixes(tk) = <<Advance, Take("Name"), Call("args")>> \o Make("call_method", 2, 3) \o
         <<Call("suffixes")>>
    BY <1>4 DEF parse_suffixes
  <2> QED
    BY <1>4, <2>8, <2>9 DEF Serves
<1>5. CASE tk \in {"(", "{", "String"}
  <2>1. Run(<<Call("args")>>, At(l, f, o), At(l + 1, f, o))
    BY <1>1, CallNew DEF Call, KeepRules
  <2>2. Run(Make("call", 2, 2), At(l + 1, f, o), At(l, f, o))
    BY <1>1, MakeAt
  <2>3. Run(<<Call("suffixes")>>, At(l, f, o), At(l, f, o))
    BY <1>1, CallOn DEF Call, TakeRules
  <2>4. Run(<<Call("args")>> \o Make("call", 2, 2), At(l, f, o), At(l, f, o))
    BY <2>1, <2>2, RunCat
  <2>5. Run(<<Call("args")>> \o Make("call", 2, 2) \o <<Call("suffixes")>>, At(l, f, o), At(l, f, o))
    BY <2>4, <2>3, RunCat
  <2>6. parse_suffixes(tk) = <<Call("args")>> \o Make("call", 2, 2) \o <<Call("suffixes")>>
    BY <1>5 DEF parse_suffixes
  <2> QED
    BY <1>5, <2>5, <2>6 DEF Serves
<1>6. CASE tk \notin {".", "[", ":", "(", "{", "String"}
  <2>1. Run(<<>>, At(l, f, o), At(l, f, o))
    BY <1>1, AtIs, RunNone
  <2>2. parse_suffixes(tk) = <<>>
    BY <1>6 DEF parse_suffixes
  <2> QED
    BY <1>6, <2>1, <2>2 DEF Serves
<1> QED
  BY <1>2, <1>3, <1>4, <1>5, <1>6

LEMMA SimpleRuns ==
    ASSUME NEW tk, NEW l, NEW f, NEW o, Fine(l, f, o)
    PROVE  Serves(parse_simpleexp(tk), l, f, tk, o, l + 1)
<1>1. /\ l \in Nat /\ f \in Nat /\ f <= l /\ Fine(l, f, o) /\ Fine(l + 1, f, o)
      /\ "func_expr" \in Types /\ "vararg" \in Types
  <2>1. l \in Nat /\ f \in Nat /\ f <= l /\ Fine(l, f, o) /\ Fine(l + 1, f, o)
    BY DEF Fine
  <2>2. "func_expr" \in Types /\ "vararg" \in Types
    BY TypesAre
  <2> QED
    BY <2>1, <2>2
<1>2. CASE tk = "{"
  <2>1. Run(<<Call("table")>>, At(l, f, o), At(l + 1, f, o))
    BY <1>1, CallNew DEF Call, KeepRules
  <2>2. parse_simpleexp(tk) = <<Call("table")>>
    BY <1>2 DEF parse_simpleexp, Literal
  <2> QED
    BY <1>2, <2>1, <2>2 DEF Serves
<1>3. CASE tk \in DOMAIN Literal
  <2>1. tk \in Plain
    BY <1>3 DEF Literal, Plain
  <2>2. Literal[tk] \in Types
    BY <1>3 DEF Literal, Types
  <2>3. Run(Leaf(tk, Literal[tk]), At(l, f, o), At(l + 1, f, o))
    BY <1>1, <2>1, <2>2, LeafRuns
  <2>4. parse_simpleexp(tk) = Leaf(tk, Literal[tk])
    BY <1>3 DEF parse_simpleexp, Literal
  <2> QED
    BY <1>3, <2>3, <2>4 DEF Serves
<1>4. CASE tk = "..."
  <2>1. tk \in Plain
    BY <1>4 DEF Plain
  <2>2. Run(Leaf(tk, "vararg"), At(l, f, o), At(l + 1, f, o))
    BY <1>1, <2>1, LeafRuns
  <2>3. parse_simpleexp(tk) = Leaf(tk, "vararg")
    BY <1>4 DEF parse_simpleexp, Literal
  <2> QED
    BY <1>4, <2>2, <2>3 DEF Serves
<1>5. CASE tk = "function"
  <2>1. Run(<<Advance>>, Sees(l, f, "function", o), At(l, f, o))
    BY <1>1, PlainNeutral, AdvanceRuns DEF Plain, Sees, At
  <2>2. Run(<<Call("funcbody")>>, At(l, f, o), At(l + 1, f, o))
    BY <1>1, CallNew DEF Call, KeepRules
  <2>3. Run(<<Advance, Call("funcbody")>>, Sees(l, f, "function", o), At(l + 1, f, o))
    BY <2>1, <2>2, Run2
  <2>4. Run(Make("func_expr", 1, 1), At(l + 1, f, o), At(l + 1, f, o))
    BY <1>1, MakeAt
  <2>5. Run(<<Advance, Call("funcbody")>> \o Make("func_expr", 1, 1), Sees(l, f, "function", o), At(l + 1,
         f, o))
    BY <2>3, <2>4, RunCat
  <2>6. parse_simpleexp(tk) = <<Advance, Call("funcbody")>> \o Make("func_expr", 1, 1)
    BY <1>5 DEF parse_simpleexp, Literal
  <2> QED
    BY <1>5, <2>5, <2>6 DEF Serves
<1>6. CASE tk \notin DOMAIN Literal \cup {"{", "...", "function"}
  <2>1. Run(<<Call("suffixedexp")>>, At(l, f, o), At(l + 1, f, o))
    BY <1>1, CallNew DEF Call, KeepRules
  <2>2. parse_simpleexp(tk) = <<Call("suffixedexp")>>
    BY <1>6 DEF parse_simpleexp
  <2> QED
    BY <1>6, <2>1, <2>2 DEF Serves
<1> QED
  BY <1>2, <1>3, <1>4, <1>5, <1>6

LEMMA SubExpRuns ==
    ASSUME NEW tk, NEW min_prec \in Nat, NEW l, NEW f, NEW o, Fine(l, f, o)
    PROVE  Serves(parse_subexp(tk, min_prec), l, f, tk, o, l + 1)
<1>1. /\ l \in Nat /\ f \in Nat /\ f <= l /\ Fine(l, f, o) /\ Fine(l + 1, f, o)
      /\ Fine(l + 2, f, o)
      /\ "unop" \in Types
  <2>1. /\ l \in Nat /\ f \in Nat /\ f <= l /\ Fine(l, f, o) /\ Fine(l + 1, f, o)
        /\ Fine(l + 2, f, o)
    BY DEF Fine
  <2>2. "unop" \in Types
    BY TypesAre
  <2> QED
    BY <2>1, <2>2
<1>2. CASE is_unop(tk)
  <2>1. tk \in Plain
    BY <1>2 DEF is_unop, Plain
  <2>2. Run(<<Take(tk)>>, At(l, f, o), At(l + 1, f, o))
    BY <1>1, <2>1, TakeRuns
  <2>3. Run(<<SubExp(UNOP_PRIO)>>, At(l + 1, f, o), At(l + 2, f, o))
    BY <1>1, CallNew DEF SubExp, KeepRules, UNOP_PRIO
  <2>4. Run(<<Take(tk), SubExp(UNOP_PRIO)>>, At(l, f, o), At(l + 2, f, o))
    BY <2>2, <2>3, Run2
  <2>5. Run(Make("unop", 1, 2), At(l + 2, f, o), At(l + 1, f, o))
    BY <1>1, MakeAt
  <2>6. Run(<<BinOps(min_prec)>>, At(l + 1, f, o), At(l + 1, f, o))
    BY <1>1, PrioNat, CallOn DEF BinOps, TakeRules
  <2>7. Run(<<Take(tk), SubExp(UNOP_PRIO)>> \o Make("unop", 1, 2), At(l, f, o), At(l + 1, f, o))
    BY <2>4, <2>5, RunCat
  <2>8. Run(<<Take(tk), SubExp(UNOP_PRIO)>> \o Make("unop", 1, 2) \o <<BinOps(min_prec)>>, At(l, f, o),
         At(l + 1, f, o))
    BY <2>7, <2>6, RunCat
  <2>9. parse_subexp(tk, min_prec) = <<Take(tk), SubExp(UNOP_PRIO)>> \o Make("unop", 1, 2) \o
         <<BinOps(min_prec)>>
    BY <1>2 DEF parse_subexp
  <2> QED
    BY <1>2, <2>8, <2>9 DEF Serves
<1>3. CASE ~is_unop(tk)
  <2>1. Run(<<Call("simpleexp")>>, At(l, f, o), At(l + 1, f, o))
    BY <1>1, CallNew DEF Call, KeepRules
  <2>2. Run(<<BinOps(min_prec)>>, At(l + 1, f, o), At(l + 1, f, o))
    BY <1>1, PrioNat, CallOn DEF BinOps, TakeRules
  <2>3. Run(<<Call("simpleexp")>> \o <<BinOps(min_prec)>>, At(l, f, o), At(l + 1, f, o))
    BY <2>1, <2>2, RunCat
  <2>4. parse_subexp(tk, min_prec) = <<Call("simpleexp")>> \o <<BinOps(min_prec)>>
    BY <1>3 DEF parse_subexp
  <2> QED
    BY <1>3, <2>3, <2>4 DEF Serves
<1> QED
  BY <1>2, <1>3

LEMMA BinOpsRuns ==
    ASSUME NEW tk, NEW min_prec \in Nat, NEW l, NEW f, NEW o, Fine(l, f, o), f + 1 <= l
    PROVE  Serves(parse_binops(tk, min_prec), l, f, tk, o, l)
<1>1. /\ l \in Nat /\ f \in Nat /\ f <= l /\ Fine(l, f, o) /\ Fine(l + 1, f, o)
      /\ Fine(l + 2, f, o)
      /\ "binop" \in Types
  <2>1. /\ l \in Nat /\ f \in Nat /\ f <= l /\ Fine(l, f, o) /\ Fine(l + 1, f, o)
        /\ Fine(l + 2, f, o)
    BY DEF Fine
  <2>2. "binop" \in Types
    BY TypesAre
  <2> QED
    BY <2>1, <2>2
<1>2. CASE LeftPrio(tk) > min_prec
  <2>1. tk \in Plain
    BY <1>2, BinaryPlain DEF Plain
  <2>2. Run(<<Take(tk)>>, At(l, f, o), At(l + 1, f, o))
    BY <1>1, <2>1, TakeRuns
  <2>3. Run(<<SubExp(RightPrio(tk))>>, At(l + 1, f, o), At(l + 2, f, o))
    BY <1>1, PrioNat, CallNew DEF SubExp, KeepRules
  <2>4. Run(<<Take(tk), SubExp(RightPrio(tk))>>, At(l, f, o), At(l + 2, f, o))
    BY <2>2, <2>3, Run2
  <2>5. Run(Make("binop", 2, 3), At(l + 2, f, o), At(l, f, o))
    BY <1>1, MakeAt
  <2>6. Run(<<BinOps(min_prec)>>, At(l, f, o), At(l, f, o))
    BY <1>1, PrioNat, CallOn DEF BinOps, TakeRules
  <2>7. Run(<<Take(tk), SubExp(RightPrio(tk))>> \o Make("binop", 2, 3), At(l, f, o), At(l, f, o))
    BY <2>4, <2>5, RunCat
  <2>8. Run(<<Take(tk), SubExp(RightPrio(tk))>> \o Make("binop", 2, 3) \o <<BinOps(min_prec)>>, At(l, f,
         o), At(l, f, o))
    BY <2>7, <2>6, RunCat
  <2>9. parse_binops(tk, min_prec) = <<Take(tk), SubExp(RightPrio(tk))>> \o Make("binop", 2, 3) \o
         <<BinOps(min_prec)>>
    BY <1>2 DEF parse_binops
  <2> QED
    BY <1>2, <2>8, <2>9 DEF Serves
<1>3. CASE ~(LeftPrio(tk) > min_prec)
  <2>1. Run(<<>>, At(l, f, o), At(l, f, o))
    BY <1>1, AtIs, RunNone
  <2>2. parse_binops(tk, min_prec) = <<>>
    BY <1>3 DEF parse_binops
  <2> QED
    BY <1>3, <2>1, <2>2 DEF Serves
<1> QED
  BY <1>2, <1>3

LEMMA ExpListRuns ==
    ASSUME NEW l, NEW f, NEW o, Fine(l, f, o)
    PROVE  Serves(parse_explist, l, f, "none", o, l + 1)
<1>1. /\ l \in Nat /\ f \in Nat /\ f <= l /\ Fine(l, f, o) /\ Fine(l + 1, f, o)
      /\ Fine(l + 2, f, o)
      /\ "explist" \in Types
  <2>1. /\ l \in Nat /\ f \in Nat /\ f <= l /\ Fine(l, f, o) /\ Fine(l + 1, f, o)
        /\ Fine(l + 2, f, o)
    BY DEF Fine
  <2>2. "explist" \in Types
    BY TypesAre
  <2> QED
    BY <2>1, <2>2
<1>2. Run(Make("explist", 4, 0), At(l, f, o), At(l + 1, f, o))
  BY <1>1, MakeAt
<1>3. Run(<<Call("exp")>>, At(l + 1, f, o), At(l + 2, f, o))
  BY <1>1, CallNew DEF Call, KeepRules
<1>4. Run(<<Push>>, At(l + 2, f, o), At(l + 1, f, o))
  BY <1>1, PushRuns
<1>5. Run(<<Call("moreexps")>>, At(l + 1, f, o), At(l + 1, f, o))
  BY <1>1, CallOn DEF Call, TakeRules
<1>6. Run(<<Call("exp"), Push, Call("moreexps")>>, At(l + 1, f, o), At(l + 1, f, o))
  BY <1>3, <1>4, <1>5, Run3
<1>7. Run(Make("explist", 4, 0) \o <<Call("exp"), Push, Call("moreexps")>>, At(l, f, o), At(l + 1, f, o))
  BY <1>2, <1>6, RunCat
<1>8. parse_explist = Make("explist", 4, 0) \o <<Call("exp"), Push, Call("moreexps")>>
  BY DEF parse_explist
<1> QED
  BY <1>7, <1>8 DEF Serves

LEMMA MoreExpsRuns ==
    ASSUME NEW tk, NEW l, NEW f, NEW o, Fine(l, f, o), f + 1 <= l
    PROVE  Serves(parse_moreexps(tk), l, f, tk, o, l)
<1>1. /\ l \in Nat /\ f \in Nat /\ f <= l /\ Fine(l, f, o) /\ Fine(l + 1, f, o)
  BY DEF Fine
<1>2. CASE tk = ","
  <2>1. Run(<<Advance>>, Sees(l, f, ",", o), At(l, f, o))
    BY <1>1, PlainNeutral, AdvanceRuns DEF Plain, Sees, At
  <2>2. Run(<<Call("exp")>>, At(l, f, o), At(l + 1, f, o))
    BY <1>1, CallNew DEF Call, KeepRules
  <2>3. Run(<<Push>>, At(l + 1, f, o), At(l, f, o))
    BY <1>1, PushRuns
  <2>4. Run(<<Call("moreexps")>>, At(l, f, o), At(l, f, o))
    BY <1>1, CallOn DEF Call, TakeRules
  <2>5. Run(<<Advance, Call("exp"), Push, Call("moreexps")>>, Sees(l, f, ",", o), At(l, f, o))
    BY <2>1, <2>2, <2>3, <2>4, Run4
  <2>6. parse_moreexps(tk) = <<Advance, Call("exp"), Push, Call("moreexps")>>
    BY <1>2 DEF parse_moreexps
  <2> QED
    BY <1>2, <2>5, <2>6 DEF Serves
<1>3. CASE tk # ","
  <2>1. Run(<<>>, At(l, f, o), At(l, f, o))
    BY <1>1, AtIs, RunNone
  <2>2. parse_moreexps(tk) = <<>>
    BY <1>3 DEF parse_moreexps
  <2> QED
    BY <1>3, <2>1, <2>2 DEF Serves
<1> QED
  BY <1>2, <1>3

LEMMA FieldsRuns ==
    ASSUME NEW tk, NEW l, NEW f, NEW o, Fine(l, f, o), f + 1 <= l
    PROVE  Serves(parse_fields(tk), l, f, tk, o, l)
<1>1. /\ l \in Nat /\ f \in Nat /\ f <= l /\ Fine(l, f, o) /\ Fine(l + 1, f, o)
  BY DEF Fine
<1>2. CASE tk \in {"}", "eos"}
  <2>1. Run(<<>>, At(l, f, o), At(l, f, o))
    BY <1>1, AtIs, RunNone
  <2>2. parse_fields(tk) = <<>>
    BY <1>2 DEF parse_fields
  <2> QED
    BY <1>2, <2>1, <2>2 DEF Serves
<1>3. CASE tk \notin {"}", "eos"}
  <2>1. Run(<<Call("field")>>, At(l, f, o), At(l + 1, f, o))
    BY <1>1, CallNew DEF Call, KeepRules
  <2>2. Run(<<Push>>, At(l + 1, f, o), At(l, f, o))
    BY <1>1, PushRuns
  <2>3. Run(<<Call("fieldsep")>>, At(l, f, o), At(l, f, o))
    BY <1>1, CallOn DEF Call, TakeRules
  <2>4. Run(<<Call("field"), Push, Call("fieldsep")>>, At(l, f, o), At(l, f, o))
    BY <2>1, <2>2, <2>3, Run3
  <2>5. parse_fields(tk) = <<Call("field"), Push, Call("fieldsep")>>
    BY <1>3 DEF parse_fields
  <2> QED
    BY <1>3, <2>4, <2>5 DEF Serves
<1> QED
  BY <1>2, <1>3

LEMMA FieldSepRuns ==
    ASSUME NEW tk, NEW l, NEW f, NEW o, Fine(l, f, o), f + 1 <= l
    PROVE  Serves(parse_fieldsep(tk), l, f, tk, o, l)
<1>1. /\ l \in Nat /\ f \in Nat /\ f <= l /\ Fine(l, f, o)
  BY DEF Fine
<1>2. CASE tk \in {",", ";"}
  <2>1. tk \in Plain
    BY <1>2 DEF Plain
  <2>2. Run(<<Advance>>, Sees(l, f, tk, o), At(l, f, o))
    BY <1>1, <2>1, PlainNeutral, AdvanceRuns DEF Sees, At
  <2>3. Run(<<Call("fields")>>, At(l, f, o), At(l, f, o))
    BY <1>1, CallOn DEF Call, TakeRules
  <2>4. Run(<<Advance, Call("fields")>>, Sees(l, f, tk, o), At(l, f, o))
    BY <2>2, <2>3, Run2
  <2>5. parse_fieldsep(tk) = <<Advance, Call("fields")>>
    BY <1>2 DEF parse_fieldsep
  <2> QED
    BY <1>2, <2>4, <2>5 DEF Serves
<1>3. CASE tk \notin {",", ";"}
  <2>1. Run(<<>>, At(l, f, o), At(l, f, o))
    BY <1>1, AtIs, RunNone
  <2>2. parse_fieldsep(tk) = <<>>
    BY <1>3 DEF parse_fieldsep
  <2> QED
    BY <1>3, <2>1, <2>2 DEF Serves
<1> QED
  BY <1>2, <1>3

LEMMA FieldRuns ==
    ASSUME NEW tk, NEW l, NEW f, NEW o, Fine(l, f, o)
    PROVE  Serves(parse_field(tk), l, f, tk, o, l + 1)
<1>1. /\ l \in Nat /\ f \in Nat /\ f <= l /\ Fine(l, f, o) /\ Fine(l + 1, f, o)
      /\ Fine(l + 2, f, o)
      /\ Fine(l, f, Append(o, "[")) /\ Fine(l + 1, f, Append(o, "["))
      /\ "field_idx" \in Types /\ "field_val" \in Types
  <2>1. /\ l \in Nat /\ f \in Nat /\ f <= l /\ Fine(l, f, o) /\ Fine(l + 1, f, o)
        /\ Fine(l + 2, f, o)
    BY DEF Fine
  <2>2. Fine(l, f, Append(o, "["))
    BY FineUp DEF Openers
  <2>3. Fine(l, f, Append(o, "[")) /\ Fine(l + 1, f, Append(o, "["))
    BY <2>1, <2>1, <2>2, FineAbove
  <2>4. "field_idx" \in Types /\ "field_val" \in Types
    BY TypesAre
  <2> QED
    BY <2>1, <2>2, <2>3, <2>4
<1>2. CASE tk = "["
  <2>1. Run(<<Advance>>, Sees(l, f, "[", o), At(l, f, Append(o, "[")))
    BY <1>1, OpenRuns DEF Openers
  <2>2. Run(<<Call("exp")>>, At(l, f, Append(o, "[")), At(l + 1, f, Append(o, "[")))
    BY <1>1, CallNew DEF Call, KeepRules
  <2>3. Run(<<Expect("]")>>, At(l + 1, f, Append(o, "[")), At(l + 1, f, o))
    BY <1>1, KindsMatch, ExpectClose DEF Openers, Closers
  <2>4. Run(<<Expect("=")>>, At(l + 1, f, o), At(l + 1, f, o))
    BY <1>1, ExpectPlain DEF Plain
  <2>5. Run(<<Call("exp")>>, At(l + 1, f, o), At(l + 2, f, o))
    BY <1>1, CallNew DEF Call, KeepRules
  <2>6. Run(<<Advance, Call("exp"), Expect("]"), Expect("="), Call("exp")>>, Sees(l, f, "[", o), At(l + 2,
         f, o))
    BY <2>1, <2>2, <2>3, <2>4, <2>5, Run5
  <2>7. Run(Make("field_idx", 2, 2), At(l + 2, f, o), At(l + 1, f, o))
    BY <1>1, MakeAt
  <2>8. Run(<<Advance, Call("exp"), Expect("]"), Expect("="), Call("exp")>> \o Make("field_idx", 2, 2),
         Sees(l, f, "[", o), At(l + 1, f, o))
    BY <2>6, <2>7, RunCat
  <2>9. parse_field(tk) = <<Advance, Call("exp"), Expect("]"), Expect("="), Call("exp")>> \o
         Make("field_idx", 2, 2)
    BY <1>2 DEF parse_field
  <2> QED
    BY <1>2, <2>8, <2>9 DEF Serves
<1>3. CASE tk = "Name"
  <2>1. Run(<<Take("Name")>>, At(l, f, o), Pt(l + 1, f, "none", "token", o))
    BY <1>1, TakeMarks DEF At, Plain
  <2>2. Run(<<Call("namefield")>>, Pt(l + 1, f, "none", "token", o), At(l + 1, f, o))
    BY <1>1, CallNameField
  <2>3. Run(<<Take("Name"), Call("namefield")>>, At(l, f, o), At(l + 1, f, o))
    BY <2>1, <2>2, Run2
  <2>4. parse_field(tk) = <<Take("Name"), Call("namefield")>>
    BY <1>3 DEF parse_field
  <2> QED
    BY <1>3, <2>3, <2>4 DEF Serves
<1>4. CASE tk \notin {"[", "Name"}
  <2>1. Run(<<Call("exp")>>, At(l, f, o), At(l + 1, f, o))
    BY <1>1, CallNew DEF Call, KeepRules
  <2>2. Run(Make("field_val", 1, 1), At(l + 1, f, o), At(l + 1, f, o))
    BY <1>1, MakeAt
  <2>3. Run(<<Call("exp")>> \o Make("field_val", 1, 1), At(l, f, o), At(l + 1, f, o))
    BY <2>1, <2>2, RunCat
  <2>4. parse_field(tk) = <<Call("exp")>> \o Make("field_val", 1, 1)
    BY <1>4 DEF parse_field
  <2> QED
    BY <1>4, <2>3, <2>4 DEF Serves
<1> QED
  BY <1>2, <1>3, <1>4

LEMMA ArgListRuns ==
    ASSUME NEW tk, NEW l, NEW f, NEW o, Fine(l, f, o), f + 1 <= l
    PROVE  Serves(parse_arglist(tk), l, f, tk, o, l)
<1>1. /\ l \in Nat /\ f \in Nat /\ f <= l /\ Fine(l, f, o) /\ Fine(l + 1, f, o)
      /\ "name" \in Types
      /\ "Name" \in Plain
  <2>1. l \in Nat /\ f \in Nat /\ f <= l /\ Fine(l, f, o) /\ Fine(l + 1, f, o)
    BY DEF Fine
  <2>2. "name" \in Types
    BY TypesAre
  <2>3. "Name" \in Plain
    BY TokensAre
  <2> QED
    BY <2>1, <2>2, <2>3
<1>2. CASE tk = ")"
  <2>1. Run(<<>>, At(l, f, o), At(l, f, o))
    BY <1>1, AtIs, RunNone
  <2>2. parse_arglist(tk) = <<>>
    BY <1>2 DEF parse_arglist
  <2> QED
    BY <1>2, <2>1, <2>2 DEF Serves
<1>3. CASE tk = "..."
  <2>1. Run(<<Advance>>, Sees(l, f, "...", o), At(l, f, o))
    BY <1>1, PlainNeutral, AdvanceRuns DEF Plain, Sees, At
  <2>2. Run(<<Mark>>, At(l, f, o), At(l, f, o))
    BY <1>1, SetRuns
  <2>3. Run(<<Advance, Mark>>, Sees(l, f, "...", o), At(l, f, o))
    BY <2>1, <2>2, Run2
  <2>4. parse_arglist(tk) = <<Advance, Mark>>
    BY <1>3 DEF parse_arglist
  <2> QED
    BY <1>3, <2>3, <2>4 DEF Serves
<1>4. CASE tk \notin {")", "..."}
  <2>1. Run(Leaf("Name", "name"), At(l, f, o), At(l + 1, f, o))
    BY <1>1, LeafRuns
  <2>2. Run(<<Push>>, At(l + 1, f, o), At(l, f, o))
    BY <1>1, PushRuns
  <2>3. Run(<<Call("moreargs")>>, At(l, f, o), At(l, f, o))
    BY <1>1, CallOn DEF Call, TakeRules
  <2>4. Run(<<Push, Call("moreargs")>>, At(l + 1, f, o), At(l, f, o))
    BY <2>2, <2>3, Run2
  <2>5. Run(Leaf("Name", "name") \o <<Push, Call("moreargs")>>, At(l, f, o), At(l, f, o))
    BY <2>1, <2>4, RunCat
  <2>6. parse_arglist(tk) = Leaf("Name", "name") \o <<Push, Call("moreargs")>>
    BY <1>4 DEF parse_arglist
  <2> QED
    BY <1>4, <2>5, <2>6 DEF Serves
<1> QED
  BY <1>2, <1>3, <1>4

LEMMA MoreArgsRuns ==
    ASSUME NEW tk, NEW l, NEW f, NEW o, Fine(l, f, o), f + 1 <= l
    PROVE  Serves(parse_moreargs(tk), l, f, tk, o, l)
<1>1. /\ l \in Nat /\ f \in Nat /\ f <= l /\ Fine(l, f, o)
  BY DEF Fine
<1>2. CASE tk = ","
  <2>1. Run(<<Advance>>, Sees(l, f, ",", o), At(l, f, o))
    BY <1>1, PlainNeutral, AdvanceRuns DEF Plain, Sees, At
  <2>2. Run(<<Call("arglist")>>, At(l, f, o), At(l, f, o))
    BY <1>1, CallOn DEF Call, TakeRules
  <2>3. Run(<<Advance, Call("arglist")>>, Sees(l, f, ",", o), At(l, f, o))
    BY <2>1, <2>2, Run2
  <2>4. parse_moreargs(tk) = <<Advance, Call("arglist")>>
    BY <1>2 DEF parse_moreargs
  <2> QED
    BY <1>2, <2>3, <2>4 DEF Serves
<1>3. CASE tk # ","
  <2>1. Run(<<>>, At(l, f, o), At(l, f, o))
    BY <1>1, AtIs, RunNone
  <2>2. parse_moreargs(tk) = <<>>
    BY <1>3 DEF parse_moreargs
  <2> QED
    BY <1>3, <2>1, <2>2 DEF Serves
<1> QED
  BY <1>2, <1>3

LEMMA FuncBodyRuns ==
    ASSUME NEW l, NEW f, NEW o, Fine(l, f, o)
    PROVE  Serves(parse_funcbody, l, f, "none", o, l + 1)
<1>1. /\ l \in Nat /\ f \in Nat /\ f <= l /\ Fine(l, f, o) /\ Fine(l + 1, f, o)
      /\ Fine(l + 2, f, o)
      /\ Fine(l, f, Append(o, "(")) /\ Fine(l + 1, f, Append(o, "("))
      /\ "arglist" \in Types /\ "funcbody" \in Types
  <2>1. /\ l \in Nat /\ f \in Nat /\ f <= l /\ Fine(l, f, o) /\ Fine(l + 1, f, o)
        /\ Fine(l + 2, f, o)
    BY DEF Fine
  <2>2. Fine(l, f, Append(o, "("))
    BY FineUp DEF Openers
  <2>3. Fine(l, f, Append(o, "(")) /\ Fine(l + 1, f, Append(o, "("))
    BY <2>1, <2>1, <2>2, FineAbove
  <2>4. "arglist" \in Types /\ "funcbody" \in Types
    BY TypesAre
  <2> QED
    BY <2>1, <2>2, <2>3, <2>4
<1>2. Run(<<Reserve(<<2>>)>>, At(l, f, o), At(l, f, o))
  BY <1>1, AtIs, CapsAre, ReserveRuns
<1>3. Run(<<Expect("(")>>, At(l, f, o), At(l, f, Append(o, "(")))
  BY <1>1, ExpectOpen DEF Openers
<1>4. Run(<<Reserve(<<2>>), Expect("(")>>, At(l, f, o), At(l, f, Append(o, "(")))
  BY <1>2, <1>3, Run2
<1>5. Run(Make("arglist", 4, 0), At(l, f, Append(o, "(")), At(l + 1, f, Append(o, "(")))
  BY <1>1, MakeAt
<1>6. Run(<<Call("arglist")>>, At(l + 1, f, Append(o, "(")), At(l + 1, f, Append(o, "(")))
  BY <1>1, CallOn DEF Call, TakeRules
<1>7. Run(<<Expect(")")>>, At(l + 1, f, Append(o, "(")), At(l + 1, f, o))
  BY <1>1, KindsMatch, ExpectClose DEF Openers, Closers
<1>8. Run(<<Call("block")>>, At(l + 1, f, o), At(l + 2, f, o))
  BY <1>1, CallNew DEF Call, KeepRules
<1>9. Run(<<Build("funcbody", 2, 2)>>, At(l + 2, f, o), At(l + 1, f, o))
  BY <1>1, BuildRuns
<1>10. Run(<<Expect("end")>>, At(l + 1, f, o), At(l + 1, f, o))
  BY <1>1, ExpectPlain DEF Plain
<1>11. Run(<<Call("arglist"), Expect(")"), Call("block"), Build("funcbody", 2, 2), Expect("end")>>,
       At(l + 1, f, Append(o, "(")), At(l + 1, f, o))
  BY <1>6, <1>7, <1>8, <1>9, <1>10, Run5
<1>12. Run(<<Reserve(<<2>>), Expect("(")>> \o Make("arglist", 4, 0), At(l, f, o), At(l + 1, f, Append(o,
       "(")))
  BY <1>4, <1>5, RunCat
<1>13. Run(<<Reserve(<<2>>), Expect("(")>> \o Make("arglist", 4, 0) \o <<Call("arglist"), Expect(")"),
       Call("block"), Build("funcbody", 2, 2), Expect("end")>>, At(l, f, o), At(l + 1, f, o))
  BY <1>12, <1>11, RunCat
<1>14. parse_funcbody = <<Reserve(<<2>>), Expect("(")>> \o Make("arglist", 4, 0) \o <<Call("arglist"),
       Expect(")"), Call("block"), Build("funcbody", 2, 2), Expect("end")>>
  BY DEF parse_funcbody
<1> QED
  BY <1>13, <1>14 DEF Serves

LEMMA FuncNameRuns ==
    ASSUME NEW tk, NEW l, NEW f, NEW o, Fine(l, f, o), f + 1 <= l
    PROVE  Serves(parse_funcname_into(tk), l, f, tk, o, l)
<1>1. /\ l \in Nat /\ f \in Nat /\ f <= l /\ Fine(l, f, o) /\ Fine(l + 1, f, o)
      /\ "name" \in Types
      /\ "Name" \in Plain
  <2>1. l \in Nat /\ f \in Nat /\ f <= l /\ Fine(l, f, o) /\ Fine(l + 1, f, o)
    BY DEF Fine
  <2>2. "name" \in Types
    BY TypesAre
  <2>3. "Name" \in Plain
    BY TokensAre
  <2> QED
    BY <2>1, <2>2, <2>3
<1>2. CASE tk = "."
  <2>1. Run(<<Advance>>, Sees(l, f, ".", o), At(l, f, o))
    BY <1>1, PlainNeutral, AdvanceRuns DEF Plain, Sees, At
  <2>2. Run(Leaf("Name", "name"), At(l, f, o), At(l + 1, f, o))
    BY <1>1, LeafRuns
  <2>3. Run(<<Push>>, At(l + 1, f, o), At(l, f, o))
    BY <1>1, PushRuns
  <2>4. Run(<<Call("funcname")>>, At(l, f, o), At(l, f, o))
    BY <1>1, CallOn DEF Call, TakeRules
  <2>5. Run(<<Push, Call("funcname")>>, At(l + 1, f, o), At(l, f, o))
    BY <2>3, <2>4, Run2
  <2>6. Run(<<Advance>> \o Leaf("Name", "name"), Sees(l, f, ".", o), At(l + 1, f, o))
    BY <2>1, <2>2, RunCat
  <2>7. Run(<<Advance>> \o Leaf("Name", "name") \o <<Push, Call("funcname")>>, Sees(l, f, ".", o), At(l, f,
         o))
    BY <2>6, <2>5, RunCat
  <2>8. parse_funcname_into(tk) = <<Advance>> \o Leaf("Name", "name") \o <<Push, Call("funcname")>>
    BY <1>2 DEF parse_funcname_into
  <2> QED
    BY <1>2, <2>7, <2>8 DEF Serves
<1>3. CASE tk = ":"
  <2>1. Run(<<Advance>>, Sees(l, f, ":", o), At(l, f, o))
    BY <1>1, PlainNeutral, AdvanceRuns DEF Plain, Sees, At
  <2>2. Run(Leaf("Name", "name"), At(l, f, o), At(l + 1, f, o))
    BY <1>1, LeafRuns
  <2>3. Run(<<Push>>, At(l + 1, f, o), At(l, f, o))
    BY <1>1, PushRuns
  <2>4. Run(<<Mark>>, At(l, f, o), At(l, f, o))
    BY <1>1, SetRuns
  <2>5. Run(<<Push, Mark>>, At(l + 1, f, o), At(l, f, o))
    BY <2>3, <2>4, Run2
  <2>6. Run(<<Advance>> \o Leaf("Name", "name"), Sees(l, f, ":", o), At(l + 1, f, o))
    BY <2>1, <2>2, RunCat
  <2>7. Run(<<Advance>> \o Leaf("Name", "name") \o <<Push, Mark>>, Sees(l, f, ":", o), At(l, f, o))
    BY <2>6, <2>5, RunCat
  <2>8. parse_funcname_into(tk) = <<Advance>> \o Leaf("Name", "name") \o <<Push, Mark>>
    BY <1>3 DEF parse_funcname_into
  <2> QED
    BY <1>3, <2>7, <2>8 DEF Serves
<1>4. CASE tk \notin {".", ":"}
  <2>1. Run(<<>>, At(l, f, o), At(l, f, o))
    BY <1>1, AtIs, RunNone
  <2>2. parse_funcname_into(tk) = <<>>
    BY <1>4 DEF parse_funcname_into
  <2> QED
    BY <1>4, <2>1, <2>2 DEF Serves
<1> QED
  BY <1>2, <1>3, <1>4

LEMMA FunctionRuns ==
    ASSUME NEW l, NEW f, NEW o, Fine(l, f, o)
    PROVE  Serves(parse_function, l, f, "function", o, l + 1)
<1>1. /\ l \in Nat /\ f \in Nat /\ f <= l /\ Fine(l, f, o) /\ Fine(l + 1, f, o)
      /\ Fine(l + 2, f, o) /\ Fine(l + 3, f, o)
      /\ Fine(l + 2, f, Append(o, "("))
      /\ "arglist" \in Types /\ "funcdef" \in Types /\ "name" \in Types
  <2>1. /\ l \in Nat /\ f \in Nat /\ f <= l /\ Fine(l, f, o) /\ Fine(l + 1, f, o)
        /\ Fine(l + 2, f, o) /\ Fine(l + 3, f, o)
    BY DEF Fine
  <2>2. Fine(l, f, Append(o, "("))
    BY FineUp DEF Openers
  <2>3. Fine(l + 2, f, Append(o, "("))
    BY <2>1, <2>1, <2>2, FineAbove
  <2>4. "arglist" \in Types /\ "funcdef" \in Types /\ "name" \in Types
    BY TypesAre
  <2> QED
    BY <2>1, <2>2, <2>3, <2>4
<1>2. Run(<<Reserve(<<3, 2, 4>>)>>, Sees(l, f, "function", o), Sees(l, f, "function", o))
  BY <1>1, SeesIs, TokensAre, CapsAre, ReserveRuns
<1>3. Run(<<Advance>>, Sees(l, f, "function", o), At(l, f, o))
  BY <1>1, PlainNeutral, AdvanceRuns DEF Plain, Sees, At
<1>4. Run(<<Take("Name")>>, At(l, f, o), At(l + 1, f, o))
  BY <1>1, TakeRuns DEF Plain
<1>5. Run(<<Build("name", 2, 1)>>, At(l + 1, f, o), At(l + 1, f, o))
  BY <1>1, BuildRuns
<1>6. Run(<<Call("funcname")>>, At(l + 1, f, o), At(l + 1, f, o))
  BY <1>1, CallOn DEF Call, TakeRules
<1>7. Run(<<Build("arglist", 4, 0)>>, At(l + 1, f, o), At(l + 2, f, o))
  BY <1>1, BuildRuns
<1>8. Run(<<Reserve(<<3, 2, 4>>), Advance, Take("Name"), Build("name", 2, 1), Call("funcname"),
       Build("arglist", 4, 0)>>, Sees(l, f, "function", o), At(l + 2, f, o))
  BY <1>2, <1>3, <1>4, <1>5, <1>6, <1>7, Run6
<1>9. Run(<<Expect("(")>>, At(l + 2, f, o), At(l + 2, f, Append(o, "(")))
  BY <1>1, ExpectOpen DEF Openers
<1>10. Run(<<Call("arglist")>>, At(l + 2, f, Append(o, "(")), At(l + 2, f, Append(o, "(")))
  BY <1>1, CallOn DEF Call, TakeRules
<1>11. Run(<<Expect(")")>>, At(l + 2, f, Append(o, "(")), At(l + 2, f, o))
  BY <1>1, KindsMatch, ExpectClose DEF Openers, Closers
<1>12. Run(<<Call("block")>>, At(l + 2, f, o), At(l + 3, f, o))
  BY <1>1, CallNew DEF Call, KeepRules
<1>13. Run(<<Build("funcdef", 3, 3)>>, At(l + 3, f, o), At(l + 1, f, o))
  BY <1>1, BuildRuns
<1>14. Run(<<Expect("end")>>, At(l + 1, f, o), At(l + 1, f, o))
  BY <1>1, ExpectPlain DEF Plain
<1>15. Run(<<Expect("("), Call("arglist"), Expect(")"), Call("block"), Build("funcdef", 3, 3),
       Expect("end")>>, At(l + 2, f, o), At(l + 1, f, o))
  BY <1>9, <1>10, <1>11, <1>12, <1>13, <1>14, Run6, ZenonT(40)
<1>16. Run(<<Reserve(<<3, 2, 4>>), Advance, Take("Name"), Build("name", 2, 1), Call("funcname"),
       Build("arglist", 4, 0)>> \o <<Expect("("), Call("arglist"), Expect(")"), Call("block"),
       Build("funcdef", 3, 3), Expect("end")>>, Sees(l, f, "function", o), At(l + 1, f, o))
  BY <1>8, <1>15, RunCat
<1>17. parse_function = <<Reserve(<<3, 2, 4>>), Advance, Take("Name"), Build("name", 2, 1),
       Call("funcname"), Build("arglist", 4, 0)>> \o <<Expect("("), Call("arglist"), Expect(")"),
       Call("block"), Build("funcdef", 3, 3), Expect("end")>>
  BY DEF parse_function
<1> QED
  BY <1>16, <1>17 DEF Serves

LEMMA MainRuns ==
    ASSUME NEW l, NEW f, NEW o, Fine(l, f, o)
    PROVE  Serves(parse_main, l, f, "none", o, l + 1)
<1>1. /\ l \in Nat /\ f \in Nat /\ f <= l /\ Fine(l, f, o) /\ Fine(l + 1, f, o)
      /\ Fine(l + 2, f, o) /\ Fine(l + 3, f, o)
      /\ "arglist" \in Types /\ "funcdef" \in Types /\ "name" \in Types
  <2>1. /\ l \in Nat /\ f \in Nat /\ f <= l /\ Fine(l, f, o) /\ Fine(l + 1, f, o)
        /\ Fine(l + 2, f, o) /\ Fine(l + 3, f, o)
    BY DEF Fine
  <2>2. "arglist" \in Types /\ "funcdef" \in Types /\ "name" \in Types
    BY TypesAre
  <2> QED
    BY <2>1, <2>2
<1>2. Run(<<Reserve(<<3, 2, 4>>)>>, At(l, f, o), At(l, f, o))
  BY <1>1, AtIs, CapsAre, ReserveRuns
<1>3. Run(<<Build("name", 2, 0)>>, At(l, f, o), At(l + 1, f, o))
  BY <1>1, BuildRuns
<1>4. Run(<<Build("arglist", 4, 0)>>, At(l + 1, f, o), At(l + 2, f, o))
  BY <1>1, BuildRuns
<1>5. Run(<<Mark>>, At(l + 2, f, o), At(l + 2, f, o))
  BY <1>1, SetRuns
<1>6. Run(<<Call("block")>>, At(l + 2, f, o), At(l + 3, f, o))
  BY <1>1, CallNew DEF Call, KeepRules
<1>7. Run(<<Build("funcdef", 3, 3)>>, At(l + 3, f, o), At(l + 1, f, o))
  BY <1>1, BuildRuns
<1>8. Run(<<Reserve(<<3, 2, 4>>), Build("name", 2, 0), Build("arglist", 4, 0), Mark, Call("block"),
       Build("funcdef", 3, 3)>>, At(l, f, o), At(l + 1, f, o))
  BY <1>2, <1>3, <1>4, <1>5, <1>6, <1>7, Run6
<1>9. parse_main = <<Reserve(<<3, 2, 4>>), Build("name", 2, 0), Build("arglist", 4, 0), Mark,
       Call("block"), Build("funcdef", 3, 3)>>
  BY DEF parse_main
<1> QED
  BY <1>8, <1>9 DEF Serves

LEMMA AttNameRuns ==
    ASSUME NEW l, NEW f, NEW o, Fine(l, f, o)
    PROVE  Serves(parse_attname, l, f, "none", o, l + 1)
<1>1. /\ l \in Nat /\ f \in Nat /\ f <= l /\ Fine(l, f, o) /\ Fine(l + 1, f, o)
      /\ "attname" \in Types
  <2>1. l \in Nat /\ f \in Nat /\ f <= l /\ Fine(l, f, o) /\ Fine(l + 1, f, o)
    BY DEF Fine
  <2>2. "attname" \in Types
    BY TypesAre
  <2> QED
    BY <2>1, <2>2
<1>2. Run(<<Take("Name")>>, At(l, f, o), At(l + 1, f, o))
  BY <1>1, TakeRuns DEF Plain
<1>3. Run(Make("attname", 1, 1), At(l + 1, f, o), At(l + 1, f, o))
  BY <1>1, MakeAt
<1>4. Run(<<Call("attrib")>>, At(l + 1, f, o), At(l + 1, f, o))
  BY <1>1, CallOn DEF Call, TakeRules
<1>5. Run(<<Take("Name")>> \o Make("attname", 1, 1), At(l, f, o), At(l + 1, f, o))
  BY <1>2, <1>3, RunCat
<1>6. Run(<<Take("Name")>> \o Make("attname", 1, 1) \o <<Call("attrib")>>, At(l, f, o), At(l + 1, f, o))
  BY <1>5, <1>4, RunCat
<1>7. parse_attname = <<Take("Name")>> \o Make("attname", 1, 1) \o <<Call("attrib")>>
  BY DEF parse_attname
<1> QED
  BY <1>6, <1>7 DEF Serves

LEMMA AttribRuns ==
    ASSUME NEW tk, NEW l, NEW f, NEW o, Fine(l, f, o), f + 1 <= l
    PROVE  Serves(parse_attrib(tk), l, f, tk, o, l)
<1>1. /\ l \in Nat /\ f \in Nat /\ f <= l /\ Fine(l, f, o) /\ Fine(l + 1, f, o)
      /\ "name" \in Types
      /\ "Name" \in Plain
  <2>1. l \in Nat /\ f \in Nat /\ f <= l /\ Fine(l, f, o) /\ Fine(l + 1, f, o)
    BY DEF Fine
  <2>2. "name" \in Types
    BY TypesAre
  <2>3. "Name" \in Plain
    BY TokensAre
  <2> QED
    BY <2>1, <2>2, <2>3
<1>2. CASE tk = "<"
  <2>1. Run(<<Advance>>, Sees(l, f, "<", o), At(l, f, o))
    BY <1>1, PlainNeutral, AdvanceRuns DEF Plain, Sees, At
  <2>2. Run(Leaf("Name", "name"), At(l, f, o), At(l + 1, f, o))
    BY <1>1, LeafRuns
  <2>3. Run(<<Push>>, At(l + 1, f, o), At(l, f, o))
    BY <1>1, PushRuns
  <2>4. Run(<<Expect(">")>>, At(l, f, o), At(l, f, o))
    BY <1>1, ExpectPlain DEF Plain
  <2>5. Run(<<Push, Expect(">")>>, At(l + 1, f, o), At(l, f, o))
    BY <2>3, <2>4, Run2
  <2>6. Run(<<Advance>> \o Leaf("Name", "name"), Sees(l, f, "<", o), At(l + 1, f, o))
    BY <2>1, <2>2, RunCat
  <2>7. Run(<<Advance>> \o Leaf("Name", "name") \o <<Push, Expect(">")>>, Sees(l, f, "<", o), At(l, f, o))
    BY <2>6, <2>5, RunCat
  <2>8. parse_attrib(tk) = <<Advance>> \o Leaf("Name", "name") \o <<Push, Expect(">")>>
    BY <1>2 DEF parse_attrib
  <2> QED
    BY <1>2, <2>7, <2>8 DEF Serves
<1>3. CASE tk # "<"
  <2>1. Run(<<>>, At(l, f, o), At(l, f, o))
    BY <1>1, AtIs, RunNone
  <2>2. parse_attrib(tk) = <<>>
    BY <1>3 DEF parse_attrib
  <2> QED
    BY <1>3, <2>1, <2>2 DEF Serves
<1> QED
  BY <1>2, <1>3

LEMMA ReturnRuns ==
    ASSUME NEW l, NEW f, NEW o, Fine(l, f, o)
    PROVE  Serves(parse_retstat, l, f, "return", o, l + 1)
<1>1. /\ l \in Nat /\ f \in Nat /\ f <= l /\ Fine(l, f, o) /\ Fine(l + 1, f, o)
      /\ "return" \in Types
      /\ "return" \in Tokens
  <2>1. l \in Nat /\ f \in Nat /\ f <= l /\ Fine(l, f, o) /\ Fine(l + 1, f, o)
    BY DEF Fine
  <2>2. "return" \in Types
    BY TypesAre
  <2>3. "return" \in Tokens
    BY TokensAre
  <2> QED
    BY <2>1, <2>2, <2>3
<1>2. Run(Make("return", 4, 0), Sees(l, f, "return", o), Sees(l + 1, f, "return", o))
  BY <1>1, MakeSees
<1>3. Run(<<Advance>>, Sees(l + 1, f, "return", o), At(l + 1, f, o))
  BY <1>1, PlainNeutral, AdvanceRuns DEF Plain, Sees, At
<1>4. Run(<<Call("retvals")>>, At(l + 1, f, o), At(l + 1, f, o))
  BY <1>1, CallOn DEF Call, TakeRules
<1>5. Run(<<Match(";")>>, At(l + 1, f, o), At(l + 1, f, o))
  BY <1>1, MatchRuns DEF Plain
<1>6. Run(<<Advance, Call("retvals"), Match(";")>>, Sees(l + 1, f, "return", o), At(l + 1, f, o))
  BY <1>3, <1>4, <1>5, Run3
<1>7. Run(Make("return", 4, 0) \o <<Advance, Call("retvals"), Match(";")>>, Sees(l, f, "return", o),
       At(l + 1, f, o))
  BY <1>2, <1>6, RunCat
<1>8. parse_retstat = Make("return", 4, 0) \o <<Advance, Call("retvals"), Match(";")>>
  BY DEF parse_retstat
<1> QED
  BY <1>7, <1>8 DEF Serves

LEMMA RetValsRuns ==
    ASSUME NEW tk, NEW l, NEW f, NEW o, Fine(l, f, o), f + 1 <= l
    PROVE  Serves(parse_retvals(tk), l, f, tk, o, l)
<1>1. /\ l \in Nat /\ f \in Nat /\ f <= l /\ Fine(l, f, o) /\ Fine(l + 1, f, o)
  BY DEF Fine
<1>2. CASE is_block_end(tk) \/ tk = ";"
  <2>1. Run(<<>>, At(l, f, o), At(l, f, o))
    BY <1>1, AtIs, RunNone
  <2>2. parse_retvals(tk) = <<>>
    BY <1>2 DEF parse_retvals
  <2> QED
    BY <1>2, <2>1, <2>2 DEF Serves
<1>3. CASE ~(is_block_end(tk) \/ tk = ";")
  <2>1. Run(<<Call("explist")>>, At(l, f, o), At(l + 1, f, o))
    BY <1>1, CallNew DEF Call, KeepRules
  <2>2. Run(<<Push>>, At(l + 1, f, o), At(l, f, o))
    BY <1>1, PushRuns
  <2>3. Run(<<Call("explist"), Push>>, At(l, f, o), At(l, f, o))
    BY <2>1, <2>2, Run2
  <2>4. parse_retvals(tk) = <<Call("explist"), Push>>
    BY <1>3 DEF parse_retvals
  <2> QED
    BY <1>3, <2>3, <2>4 DEF Serves
<1> QED
  BY <1>2, <1>3

LEMMA IfRuns ==
    ASSUME NEW l, NEW f, NEW o, Fine(l, f, o)
    PROVE  Serves(parse_if, l, f, "if", o, l + 1)
<1>1. /\ l \in Nat /\ f \in Nat /\ f <= l /\ Fine(l, f, o) /\ Fine(l + 1, f, o)
      /\ Fine(l + 2, f, o)
      /\ "if" \in Types
  <2>1. /\ l \in Nat /\ f \in Nat /\ f <= l /\ Fine(l, f, o) /\ Fine(l + 1, f, o)
        /\ Fine(l + 2, f, o)
    BY DEF Fine
  <2>2. "if" \in Types
    BY TypesAre
  <2> QED
    BY <2>1, <2>2
<1>2. Run(<<Advance>>, Sees(l, f, "if", o), At(l, f, o))
  BY <1>1, PlainNeutral, AdvanceRuns DEF Plain, Sees, At
<1>3. Run(<<Call("exp")>>, At(l, f, o), At(l + 1, f, o))
  BY <1>1, CallNew DEF Call, KeepRules
<1>4. Run(<<Expect("then")>>, At(l + 1, f, o), At(l + 1, f, o))
  BY <1>1, ExpectPlain DEF Plain
<1>5. Run(<<Call("block")>>, At(l + 1, f, o), At(l + 2, f, o))
  BY <1>1, CallNew DEF Call, KeepRules
<1>6. Run(<<Advance, Call("exp"), Expect("then"), Call("block")>>, Sees(l, f, "if", o), At(l + 2, f, o))
  BY <1>2, <1>3, <1>4, <1>5, Run4
<1>7. Run(Make("if", 4, 2), At(l + 2, f, o), At(l + 1, f, o))
  BY <1>1, MakeAt
<1>8. Run(<<Call("elseifs")>>, At(l + 1, f, o), At(l + 1, f, o))
  BY <1>1, CallOn DEF Call, TakeRules
<1>9. Run(<<Expect("end")>>, At(l + 1, f, o), At(l + 1, f, o))
  BY <1>1, ExpectPlain DEF Plain
<1>10. Run(<<Call("elseifs"), Expect("end")>>, At(l + 1, f, o), At(l + 1, f, o))
  BY <1>8, <1>9, Run2
<1>11. Run(<<Advance, Call("exp"), Expect("then"), Call("block")>> \o Make("if", 4, 2), Sees(l, f, "if",
       o), At(l + 1, f, o))
  BY <1>6, <1>7, RunCat
<1>12. Run(<<Advance, Call("exp"), Expect("then"), Call("block")>> \o Make("if", 4, 2) \o
       <<Call("elseifs"), Expect("end")>>, Sees(l, f, "if", o), At(l + 1, f, o))
  BY <1>11, <1>10, RunCat
<1>13. parse_if = <<Advance, Call("exp"), Expect("then"), Call("block")>> \o Make("if", 4, 2) \o
       <<Call("elseifs"), Expect("end")>>
  BY DEF parse_if
<1> QED
  BY <1>12, <1>13 DEF Serves

LEMMA ElseIfsRuns ==
    ASSUME NEW tk, NEW l, NEW f, NEW o, Fine(l, f, o), f + 1 <= l
    PROVE  Serves(parse_elseifs(tk), l, f, tk, o, l)
<1>1. /\ l \in Nat /\ f \in Nat /\ f <= l /\ Fine(l, f, o) /\ Fine(l + 1, f, o)
      /\ Fine(l + 2, f, o)
      /\ "else" \in Types /\ "elseif" \in Types
  <2>1. /\ l \in Nat /\ f \in Nat /\ f <= l /\ Fine(l, f, o) /\ Fine(l + 1, f, o)
        /\ Fine(l + 2, f, o)
    BY DEF Fine
  <2>2. "else" \in Types /\ "elseif" \in Types
    BY TypesAre
  <2> QED
    BY <2>1, <2>2
<1>2. CASE tk = "elseif"
  <2>1. Run(<<Advance>>, Sees(l, f, "elseif", o), At(l, f, o))
    BY <1>1, PlainNeutral, AdvanceRuns DEF Plain, Sees, At
  <2>2. Run(<<Call("exp")>>, At(l, f, o), At(l + 1, f, o))
    BY <1>1, CallNew DEF Call, KeepRules
  <2>3. Run(<<Expect("then")>>, At(l + 1, f, o), At(l + 1, f, o))
    BY <1>1, ExpectPlain DEF Plain
  <2>4. Run(<<Call("block")>>, At(l + 1, f, o), At(l + 2, f, o))
    BY <1>1, CallNew DEF Call, KeepRules
  <2>5. Run(<<Advance, Call("exp"), Expect("then"), Call("block")>>, Sees(l, f, "elseif", o), At(l + 2, f,
         o))
    BY <2>1, <2>2, <2>3, <2>4, Run4
  <2>6. Run(Make("elseif", 2, 2), At(l + 2, f, o), At(l + 1, f, o))
    BY <1>1, MakeAt
  <2>7. Run(<<Push>>, At(l + 1, f, o), At(l, f, o))
    BY <1>1, PushRuns
  <2>8. Run(<<Call("elseifs")>>, At(l, f, o), At(l, f, o))
    BY <1>1, CallOn DEF Call, TakeRules
  <2>9. Run(<<Push, Call("elseifs")>>, At(l + 1, f, o), At(l, f, o))
    BY <2>7, <2>8, Run2
  <2>10. Run(<<Advance, Call("exp"), Expect("then"), Call("block")>> \o Make("elseif", 2, 2), Sees(l, f,
         "elseif", o), At(l + 1, f, o))
    BY <2>5, <2>6, RunCat
  <2>11. Run(<<Advance, Call("exp"), Expect("then"), Call("block")>> \o Make("elseif", 2, 2) \o <<Push,
         Call("elseifs")>>, Sees(l, f, "elseif", o), At(l, f, o))
    BY <2>10, <2>9, RunCat
  <2>12. parse_elseifs(tk) = <<Advance, Call("exp"), Expect("then"), Call("block")>> \o Make("elseif", 2,
         2) \o <<Push, Call("elseifs")>>
    BY <1>2 DEF parse_elseifs
  <2> QED
    BY <1>2, <2>11, <2>12 DEF Serves
<1>3. CASE tk = "else"
  <2>1. Run(<<Advance>>, Sees(l, f, "else", o), At(l, f, o))
    BY <1>1, PlainNeutral, AdvanceRuns DEF Plain, Sees, At
  <2>2. Run(<<Call("block")>>, At(l, f, o), At(l + 1, f, o))
    BY <1>1, CallNew DEF Call, KeepRules
  <2>3. Run(<<Advance, Call("block")>>, Sees(l, f, "else", o), At(l + 1, f, o))
    BY <2>1, <2>2, Run2
  <2>4. Run(Make("else", 1, 1), At(l + 1, f, o), At(l + 1, f, o))
    BY <1>1, MakeAt
  <2>5. Run(<<Push>>, At(l + 1, f, o), At(l, f, o))
    BY <1>1, PushRuns
  <2>6. Run(<<Advance, Call("block")>> \o Make("else", 1, 1), Sees(l, f, "else", o), At(l + 1, f, o))
    BY <2>3, <2>4, RunCat
  <2>7. Run(<<Advance, Call("block")>> \o Make("else", 1, 1) \o <<Push>>, Sees(l, f, "else", o), At(l, f,
         o))
    BY <2>6, <2>5, RunCat
  <2>8. parse_elseifs(tk) = <<Advance, Call("block")>> \o Make("else", 1, 1) \o <<Push>>
    BY <1>3 DEF parse_elseifs
  <2> QED
    BY <1>3, <2>7, <2>8 DEF Serves
<1>4. CASE tk \notin {"elseif", "else"}
  <2>1. Run(<<>>, At(l, f, o), At(l, f, o))
    BY <1>1, AtIs, RunNone
  <2>2. parse_elseifs(tk) = <<>>
    BY <1>4 DEF parse_elseifs
  <2> QED
    BY <1>4, <2>1, <2>2 DEF Serves
<1> QED
  BY <1>2, <1>3, <1>4

LEMMA WhileRuns ==
    ASSUME NEW l, NEW f, NEW o, Fine(l, f, o)
    PROVE  Serves(parse_while, l, f, "while", o, l + 1)
<1>1. /\ l \in Nat /\ f \in Nat /\ f <= l /\ Fine(l, f, o) /\ Fine(l + 1, f, o)
      /\ Fine(l + 2, f, o)
      /\ "while" \in Types
  <2>1. /\ l \in Nat /\ f \in Nat /\ f <= l /\ Fine(l, f, o) /\ Fine(l + 1, f, o)
        /\ Fine(l + 2, f, o)
    BY DEF Fine
  <2>2. "while" \in Types
    BY TypesAre
  <2> QED
    BY <2>1, <2>2
<1>2. Run(<<Advance>>, Sees(l, f, "while", o), At(l, f, o))
  BY <1>1, PlainNeutral, AdvanceRuns DEF Plain, Sees, At
<1>3. Run(<<Call("exp")>>, At(l, f, o), At(l + 1, f, o))
  BY <1>1, CallNew DEF Call, KeepRules
<1>4. Run(<<Expect("do")>>, At(l + 1, f, o), At(l + 1, f, o))
  BY <1>1, ExpectPlain DEF Plain
<1>5. Run(<<Call("block")>>, At(l + 1, f, o), At(l + 2, f, o))
  BY <1>1, CallNew DEF Call, KeepRules
<1>6. Run(<<Expect("end")>>, At(l + 2, f, o), At(l + 2, f, o))
  BY <1>1, ExpectPlain DEF Plain
<1>7. Run(<<Advance, Call("exp"), Expect("do"), Call("block"), Expect("end")>>, Sees(l, f, "while", o),
       At(l + 2, f, o))
  BY <1>2, <1>3, <1>4, <1>5, <1>6, Run5
<1>8. Run(Make("while", 2, 2), At(l + 2, f, o), At(l + 1, f, o))
  BY <1>1, MakeAt
<1>9. Run(<<Advance, Call("exp"), Expect("do"), Call("block"), Expect("end")>> \o Make("while", 2, 2),
       Sees(l, f, "while", o), At(l + 1, f, o))
  BY <1>7, <1>8, RunCat
<1>10. parse_while = <<Advance, Call("exp"), Expect("do"), Call("block"), Expect("end")>> \o Make("while",
       2, 2)
  BY DEF parse_while
<1> QED
  BY <1>9, <1>10 DEF Serves

LEMMA DoRuns ==
    ASSUME NEW l, NEW f, NEW o, Fine(l, f, o)
    PROVE  Serves(parse_do, l, f, "do", o, l + 1)
<1>1. /\ l \in Nat /\ f \in Nat /\ f <= l /\ Fine(l, f, o) /\ Fine(l + 1, f, o)
      /\ "do" \in Types
  <2>1. l \in Nat /\ f \in Nat /\ f <= l /\ Fine(l, f, o) /\ Fine(l + 1, f, o)
    BY DEF Fine
  <2>2. "do" \in Types
    BY TypesAre
  <2> QED
    BY <2>1, <2>2
<1>2. Run(<<Advance>>, Sees(l, f, "do", o), At(l, f, o))
  BY <1>1, PlainNeutral, AdvanceRuns DEF Plain, Sees, At
<1>3. Run(<<Call("block")>>, At(l, f, o), At(l + 1, f, o))
  BY <1>1, CallNew DEF Call, KeepRules
<1>4. Run(<<Expect("end")>>, At(l + 1, f, o), At(l + 1, f, o))
  BY <1>1, ExpectPlain DEF Plain
<1>5. Run(<<Advance, Call("block"), Expect("end")>>, Sees(l, f, "do", o), At(l + 1, f, o))
  BY <1>2, <1>3, <1>4, Run3
<1>6. Run(Make("do", 1, 1), At(l + 1, f, o), At(l + 1, f, o))
  BY <1>1, MakeAt
<1>7. Run(<<Advance, Call("block"), Expect("end")>> \o Make("do", 1, 1), Sees(l, f, "do", o), At(l + 1, f,
       o))
  BY <1>5, <1>6, RunCat
<1>8. parse_do = <<Advance, Call("block"), Expect("end")>> \o Make("do", 1, 1)
  BY DEF parse_do
<1> QED
  BY <1>7, <1>8 DEF Serves

LEMMA ForRuns ==
    ASSUME NEW l, NEW f, NEW o, Fine(l, f, o)
    PROVE  Serves(parse_for, l, f, "for", o, l + 1)
<1>1. /\ l \in Nat /\ f \in Nat /\ f <= l /\ Fine(l, f, o) /\ Fine(l + 1, f, o)
  BY DEF Fine
<1>2. Run(<<Advance>>, Sees(l, f, "for", o), At(l, f, o))
  BY <1>1, PlainNeutral, AdvanceRuns DEF Plain, Sees, At
<1>3. Run(<<Take("Name")>>, At(l, f, o), At(l + 1, f, o))
  BY <1>1, TakeRuns DEF Plain
<1>4. Run(<<Call("forkind")>>, At(l + 1, f, o), At(l + 1, f, o))
  BY <1>1, CallOn DEF Call, TakeRules
<1>5. Run(<<Advance, Take("Name"), Call("forkind")>>, Sees(l, f, "for", o), At(l + 1, f, o))
  BY <1>2, <1>3, <1>4, Run3
<1>6. parse_for = <<Advance, Take("Name"), Call("forkind")>>
  BY DEF parse_for
<1> QED
  BY <1>5, <1>6 DEF Serves

LEMMA ForKindRuns ==
    ASSUME NEW tk, NEW l, NEW f, NEW o, Fine(l, f, o), f + 1 <= l
    PROVE  Serves(parse_forkind(tk), l, f, tk, o, l)
<1>1. /\ l \in Nat /\ f \in Nat /\ f <= l /\ Fine(l, f, o) /\ Fine(l + 1, f, o)
      /\ Fine(l + 2, f, o)
      /\ "forin" \in Types /\ "name" \in Types
  <2>1. /\ l \in Nat /\ f \in Nat /\ f <= l /\ Fine(l, f, o) /\ Fine(l + 1, f, o)
        /\ Fine(l + 2, f, o)
    BY DEF Fine
  <2>2. "forin" \in Types /\ "name" \in Types
    BY TypesAre
  <2> QED
    BY <2>1, <2>2
<1>2. CASE tk = "="
  <2>1. Run(<<Advance>>, Sees(l, f, "=", o), At(l, f, o))
    BY <1>1, PlainNeutral, AdvanceRuns DEF Plain, Sees, At
  <2>2. Run(<<Call("exp")>>, At(l, f, o), At(l + 1, f, o))
    BY <1>1, CallNew DEF Call, KeepRules
  <2>3. Run(<<Expect(",")>>, At(l + 1, f, o), At(l + 1, f, o))
    BY <1>1, ExpectPlain DEF Plain
  <2>4. Run(<<Call("exp")>>, At(l + 1, f, o), At(l + 2, f, o))
    BY <1>1, CallNew DEF Call, KeepRules
  <2>5. Run(<<Call("forstep")>>, At(l + 2, f, o), At(l, f, o))
    BY <1>1, CallForStep
  <2>6. Run(<<Advance, Call("exp"), Expect(","), Call("exp"), Call("forstep")>>, Sees(l, f, "=", o), At(l,
         f, o))
    BY <2>1, <2>2, <2>3, <2>4, <2>5, Run5
  <2>7. parse_forkind(tk) = <<Advance, Call("exp"), Expect(","), Call("exp"), Call("forstep")>>
    BY <1>2 DEF parse_forkind
  <2> QED
    BY <1>2, <2>6, <2>7 DEF Serves
<1>3. CASE tk # "="
  <2>1. Run(<<Reserve(<<4>>)>>, At(l, f, o), At(l, f, o))
    BY <1>1, AtIs, CapsAre, ReserveRuns
  <2>2. Run(Make("name", 0, 1), At(l, f, o), At(l, f, o))
    BY <1>1, MakeAt
  <2>3. Run(<<Build("forin", 4, 1)>>, At(l, f, o), At(l, f, o))
    BY <1>1, BuildRuns
  <2>4. Run(<<Call("fornames")>>, At(l, f, o), At(l, f, o))
    BY <1>1, CallOn DEF Call, TakeRules
  <2>5. Run(<<Count>>, At(l, f, o), At(l, f, o))
    BY <1>1, SetRuns
  <2>6. Run(<<Expect("in")>>, At(l, f, o), At(l, f, o))
    BY <1>1, ExpectPlain DEF Plain
  <2>7. Run(<<Call("explist")>>, At(l, f, o), At(l + 1, f, o))
    BY <1>1, CallNew DEF Call, KeepRules
  <2>8. Run(<<Push>>, At(l + 1, f, o), At(l, f, o))
    BY <1>1, PushRuns
  <2>9. Run(<<Build("forin", 4, 1), Call("fornames"), Count, Expect("in"), Call("explist"), Push>>, At(l,
         f, o), At(l, f, o))
    BY <2>3, <2>4, <2>5, <2>6, <2>7, <2>8, Run6
  <2>10. Run(<<Expect("do")>>, At(l, f, o), At(l, f, o))
    BY <1>1, ExpectPlain DEF Plain
  <2>11. Run(<<Call("block")>>, At(l, f, o), At(l + 1, f, o))
    BY <1>1, CallNew DEF Call, KeepRules
  <2>12. Run(<<Expect("end")>>, At(l + 1, f, o), At(l + 1, f, o))
    BY <1>1, ExpectPlain DEF Plain
  <2>13. Run(<<Push>>, At(l + 1, f, o), At(l, f, o))
    BY <1>1, PushRuns
  <2>14. Run(<<Expect("do"), Call("block"), Expect("end"), Push>>, At(l, f, o), At(l, f, o))
    BY <2>10, <2>11, <2>12, <2>13, Run4
  <2>15. Run(<<Build("forin", 4, 1), Call("fornames"), Count, Expect("in"), Call("explist"), Push>> \o
         <<Expect("do"), Call("block"), Expect("end"), Push>>, At(l, f, o), At(l, f, o))
    BY <2>9, <2>14, RunCat
  <2>16. Run(<<Reserve(<<4>>)>> \o Make("name", 0, 1), At(l, f, o), At(l, f, o))
    BY <2>1, <2>2, RunCat
  <2>17. Run(<<Reserve(<<4>>)>> \o Make("name", 0, 1) \o (<<Build("forin", 4, 1), Call("fornames"), Count,
         Expect("in"), Call("explist"), Push>> \o <<Expect("do"), Call("block"), Expect("end"), Push>>),
         At(l, f, o), At(l, f, o))
    BY <2>16, <2>15, RunCat
  <2>18. parse_forkind(tk) = <<Reserve(<<4>>)>> \o Make("name", 0, 1) \o (<<Build("forin", 4, 1),
         Call("fornames"), Count, Expect("in"), Call("explist"), Push>> \o <<Expect("do"), Call("block"),
         Expect("end"), Push>>)
    <3>1. <<Build("forin", 4, 1), Call("fornames"), Count, Expect("in"), Call("explist"), Push,
            Expect("do"), Call("block"), Expect("end"), Push>>
          = <<Build("forin", 4, 1), Call("fornames"), Count, Expect("in"), Call("explist"), Push>>
              \o <<Expect("do"), Call("block"), Expect("end"), Push>>
      OBVIOUS
    <3>2. parse_forkind(tk) = <<Reserve(<<4>>)>> \o Make("name", 0, 1) \o
            <<Build("forin", 4, 1), Call("fornames"), Count, Expect("in"), Call("explist"), Push,
              Expect("do"), Call("block"), Expect("end"), Push>>
      BY <1>3, Zenon DEF parse_forkind
    <3> QED
      BY <3>1, <3>2, Zenon
  <2> QED
    BY <1>3, <2>17, <2>18 DEF Serves
<1> QED
  BY <1>2, <1>3

LEMMA ForStepRuns ==
    ASSUME NEW tk, NEW l, NEW f, NEW o, Fine(l, f, o), f + 3 <= l
    PROVE  Serves(parse_forstep(tk), l, f, tk, o, l - 2)
<1>1. /\ l \in Nat /\ f \in Nat /\ f <= l /\ Fine(l, f, o) /\ Fine(l + 1, f, o)
      /\ Fine(l + 2, f, o) /\ Fine(l - 2, f, o)
      /\ "fornum" \in Types
  <2>1. /\ l \in Nat /\ f \in Nat /\ f <= l /\ Fine(l, f, o) /\ Fine(l + 1, f, o)
        /\ Fine(l + 2, f, o) /\ Fine(l - 2, f, o)
    BY DEF Fine
  <2>2. "fornum" \in Types
    BY TypesAre
  <2> QED
    BY <2>1, <2>2
<1>2. CASE tk = ","
  <2>1. Run(<<Advance>>, Sees(l, f, ",", o), At(l, f, o))
    BY <1>1, PlainNeutral, AdvanceRuns DEF Plain, Sees, At
  <2>2. Run(<<Call("exp")>>, At(l, f, o), At(l + 1, f, o))
    BY <1>1, CallNew DEF Call, KeepRules
  <2>3. Run(<<Expect("do")>>, At(l + 1, f, o), At(l + 1, f, o))
    BY <1>1, ExpectPlain DEF Plain
  <2>4. Run(<<Call("block")>>, At(l + 1, f, o), At(l + 2, f, o))
    BY <1>1, CallNew DEF Call, KeepRules
  <2>5. Run(<<Expect("end")>>, At(l + 2, f, o), At(l + 2, f, o))
    BY <1>1, ExpectPlain DEF Plain
  <2>6. Run(<<Advance, Call("exp"), Expect("do"), Call("block"), Expect("end")>>, Sees(l, f, ",", o),
         At(l + 2, f, o))
    BY <2>1, <2>2, <2>3, <2>4, <2>5, Run5
  <2>7. Run(Make("fornum", 4, 5), At(l + 2, f, o), At(l - 2, f, o))
    BY <1>1, MakeAt
  <2>8. Run(<<Advance, Call("exp"), Expect("do"), Call("block"), Expect("end")>> \o Make("fornum", 4, 5),
         Sees(l, f, ",", o), At(l - 2, f, o))
    BY <2>6, <2>7, RunCat
  <2>9. parse_forstep(tk) = <<Advance, Call("exp"), Expect("do"), Call("block"), Expect("end")>> \o
         Make("fornum", 4, 5)
    BY <1>2 DEF parse_forstep
  <2> QED
    BY <1>2, <2>8, <2>9 DEF Serves
<1>3. CASE tk # ","
  <2>1. Run(<<Expect("do")>>, At(l, f, o), At(l, f, o))
    BY <1>1, ExpectPlain DEF Plain
  <2>2. Run(<<Call("block")>>, At(l, f, o), At(l + 1, f, o))
    BY <1>1, CallNew DEF Call, KeepRules
  <2>3. Run(<<Expect("end")>>, At(l + 1, f, o), At(l + 1, f, o))
    BY <1>1, ExpectPlain DEF Plain
  <2>4. Run(<<Expect("do"), Call("block"), Expect("end")>>, At(l, f, o), At(l + 1, f, o))
    BY <2>1, <2>2, <2>3, Run3
  <2>5. Run(Make("fornum", 4, 4), At(l + 1, f, o), At(l - 2, f, o))
    BY <1>1, MakeAt
  <2>6. Run(<<Expect("do"), Call("block"), Expect("end")>> \o Make("fornum", 4, 4), At(l, f, o), At(l - 2,
         f, o))
    BY <2>4, <2>5, RunCat
  <2>7. parse_forstep(tk) = <<Expect("do"), Call("block"), Expect("end")>> \o Make("fornum", 4, 4)
    BY <1>3 DEF parse_forstep
  <2> QED
    BY <1>3, <2>6, <2>7 DEF Serves
<1> QED
  BY <1>2, <1>3

LEMMA ForNamesRuns ==
    ASSUME NEW tk, NEW l, NEW f, NEW o, Fine(l, f, o), f + 1 <= l
    PROVE  Serves(parse_fornames(tk), l, f, tk, o, l)
<1>1. /\ l \in Nat /\ f \in Nat /\ f <= l /\ Fine(l, f, o) /\ Fine(l + 1, f, o)
      /\ "name" \in Types
      /\ "Name" \in Plain
  <2>1. l \in Nat /\ f \in Nat /\ f <= l /\ Fine(l, f, o) /\ Fine(l + 1, f, o)
    BY DEF Fine
  <2>2. "name" \in Types
    BY TypesAre
  <2>3. "Name" \in Plain
    BY TokensAre
  <2> QED
    BY <2>1, <2>2, <2>3
<1>2. CASE tk = ","
  <2>1. Run(<<Advance>>, Sees(l, f, ",", o), At(l, f, o))
    BY <1>1, PlainNeutral, AdvanceRuns DEF Plain, Sees, At
  <2>2. Run(Leaf("Name", "name"), At(l, f, o), At(l + 1, f, o))
    BY <1>1, LeafRuns
  <2>3. Run(<<Push>>, At(l + 1, f, o), At(l, f, o))
    BY <1>1, PushRuns
  <2>4. Run(<<Call("fornames")>>, At(l, f, o), At(l, f, o))
    BY <1>1, CallOn DEF Call, TakeRules
  <2>5. Run(<<Push, Call("fornames")>>, At(l + 1, f, o), At(l, f, o))
    BY <2>3, <2>4, Run2
  <2>6. Run(<<Advance>> \o Leaf("Name", "name"), Sees(l, f, ",", o), At(l + 1, f, o))
    BY <2>1, <2>2, RunCat
  <2>7. Run(<<Advance>> \o Leaf("Name", "name") \o <<Push, Call("fornames")>>, Sees(l, f, ",", o), At(l, f,
         o))
    BY <2>6, <2>5, RunCat
  <2>8. parse_fornames(tk) = <<Advance>> \o Leaf("Name", "name") \o <<Push, Call("fornames")>>
    BY <1>2 DEF parse_fornames
  <2> QED
    BY <1>2, <2>7, <2>8 DEF Serves
<1>3. CASE tk # ","
  <2>1. Run(<<>>, At(l, f, o), At(l, f, o))
    BY <1>1, AtIs, RunNone
  <2>2. parse_fornames(tk) = <<>>
    BY <1>3 DEF parse_fornames
  <2> QED
    BY <1>3, <2>1, <2>2 DEF Serves
<1> QED
  BY <1>2, <1>3

LEMMA RepeatRuns ==
    ASSUME NEW l, NEW f, NEW o, Fine(l, f, o)
    PROVE  Serves(parse_repeat, l, f, "repeat", o, l + 1)
<1>1. /\ l \in Nat /\ f \in Nat /\ f <= l /\ Fine(l, f, o) /\ Fine(l + 1, f, o)
      /\ Fine(l + 2, f, o)
      /\ "repeat" \in Types
  <2>1. /\ l \in Nat /\ f \in Nat /\ f <= l /\ Fine(l, f, o) /\ Fine(l + 1, f, o)
        /\ Fine(l + 2, f, o)
    BY DEF Fine
  <2>2. "repeat" \in Types
    BY TypesAre
  <2> QED
    BY <2>1, <2>2
<1>2. Run(<<Advance>>, Sees(l, f, "repeat", o), At(l, f, o))
  BY <1>1, PlainNeutral, AdvanceRuns DEF Plain, Sees, At
<1>3. Run(<<Call("block")>>, At(l, f, o), At(l + 1, f, o))
  BY <1>1, CallNew DEF Call, KeepRules
<1>4. Run(<<Expect("until")>>, At(l + 1, f, o), At(l + 1, f, o))
  BY <1>1, ExpectPlain DEF Plain
<1>5. Run(<<Call("exp")>>, At(l + 1, f, o), At(l + 2, f, o))
  BY <1>1, CallNew DEF Call, KeepRules
<1>6. Run(<<Advance, Call("block"), Expect("until"), Call("exp")>>, Sees(l, f, "repeat", o), At(l + 2, f,
       o))
  BY <1>2, <1>3, <1>4, <1>5, Run4
<1>7. Run(Make("repeat", 2, 2), At(l + 2, f, o), At(l + 1, f, o))
  BY <1>1, MakeAt
<1>8. Run(<<Advance, Call("block"), Expect("until"), Call("exp")>> \o Make("repeat", 2, 2), Sees(l, f,
       "repeat", o), At(l + 1, f, o))
  BY <1>6, <1>7, RunCat
<1>9. parse_repeat = <<Advance, Call("block"), Expect("until"), Call("exp")>> \o Make("repeat", 2, 2)
  BY DEF parse_repeat
<1> QED
  BY <1>8, <1>9 DEF Serves

LEMMA LocalRuns ==
    ASSUME NEW l, NEW f, NEW o, Fine(l, f, o)
    PROVE  Serves(parse_local, l, f, "local", o, l + 1)
<1>1. /\ l \in Nat /\ f \in Nat /\ f <= l /\ Fine(l, f, o) /\ Fine(l + 1, f, o)
  BY DEF Fine
<1>2. Run(<<Advance>>, Sees(l, f, "local", o), At(l, f, o))
  BY <1>1, PlainNeutral, AdvanceRuns DEF Plain, Sees, At
<1>3. Run(<<Call("localkind")>>, At(l, f, o), At(l + 1, f, o))
  BY <1>1, CallNew DEF Call, KeepRules
<1>4. Run(<<Advance, Call("localkind")>>, Sees(l, f, "local", o), At(l + 1, f, o))
  BY <1>2, <1>3, Run2
<1>5. parse_local = <<Advance, Call("localkind")>>
  BY DEF parse_local
<1> QED
  BY <1>4, <1>5 DEF Serves

LEMMA LocalKindRuns ==
    ASSUME NEW tk, NEW l, NEW f, NEW o, Fine(l, f, o)
    PROVE  Serves(parse_localkind(tk), l, f, tk, o, l + 1)
<1>1. /\ l \in Nat /\ f \in Nat /\ f <= l /\ Fine(l, f, o) /\ Fine(l + 1, f, o)
      /\ Fine(l + 2, f, o)
      /\ "local" \in Types /\ "local_func" \in Types
  <2>1. /\ l \in Nat /\ f \in Nat /\ f <= l /\ Fine(l, f, o) /\ Fine(l + 1, f, o)
        /\ Fine(l + 2, f, o)
    BY DEF Fine
  <2>2. "local" \in Types /\ "local_func" \in Types
    BY TypesAre
  <2> QED
    BY <2>1, <2>2
<1>2. CASE tk = "function"
  <2>1. Run(<<Advance>>, Sees(l, f, "function", o), At(l, f, o))
    BY <1>1, PlainNeutral, AdvanceRuns DEF Plain, Sees, At
  <2>2. Run(<<Take("Name")>>, At(l, f, o), At(l + 1, f, o))
    BY <1>1, TakeRuns DEF Plain
  <2>3. Run(<<Call("funcbody")>>, At(l + 1, f, o), At(l + 2, f, o))
    BY <1>1, CallNew DEF Call, KeepRules
  <2>4. Run(<<Advance, Take("Name"), Call("funcbody")>>, Sees(l, f, "function", o), At(l + 2, f, o))
    BY <2>1, <2>2, <2>3, Run3
  <2>5. Run(Make("local_func", 1, 2), At(l + 2, f, o), At(l + 1, f, o))
    BY <1>1, MakeAt
  <2>6. Run(<<Advance, Take("Name"), Call("funcbody")>> \o Make("local_func", 1, 2), Sees(l, f, "function",
         o), At(l + 1, f, o))
    BY <2>4, <2>5, RunCat
  <2>7. parse_localkind(tk) = <<Advance, Take("Name"), Call("funcbody")>> \o Make("local_func", 1, 2)
    BY <1>2 DEF parse_localkind
  <2> QED
    BY <1>2, <2>6, <2>7 DEF Serves
<1>3. CASE tk # "function"
  <2>1. Run(Make("local", 4, 0), At(l, f, o), At(l + 1, f, o))
    BY <1>1, MakeAt
  <2>2. Run(<<Call("attname")>>, At(l + 1, f, o), At(l + 2, f, o))
    BY <1>1, CallNew DEF Call, KeepRules
  <2>3. Run(<<Push>>, At(l + 2, f, o), At(l + 1, f, o))
    BY <1>1, PushRuns
  <2>4. Run(<<Call("attnames")>>, At(l + 1, f, o), At(l + 1, f, o))
    BY <1>1, CallOn DEF Call, TakeRules
  <2>5. Run(<<Count>>, At(l + 1, f, o), At(l + 1, f, o))
    BY <1>1, SetRuns
  <2>6. Run(<<Call("localinit")>>, At(l + 1, f, o), At(l + 1, f, o))
    BY <1>1, CallOn DEF Call, TakeRules
  <2>7. Run(<<Call("attname"), Push, Call("attnames"), Count, Call("localinit")>>, At(l + 1, f, o),
         At(l + 1, f, o))
    BY <2>2, <2>3, <2>4, <2>5, <2>6, Run5
  <2>8. Run(Make("local", 4, 0) \o <<Call("attname"), Push, Call("attnames"), Count, Call("localinit")>>,
         At(l, f, o), At(l + 1, f, o))
    BY <2>1, <2>7, RunCat
  <2>9. parse_localkind(tk) = Make("local", 4, 0) \o <<Call("attname"), Push, Call("attnames"), Count,
         Call("localinit")>>
    BY <1>3 DEF parse_localkind
  <2> QED
    BY <1>3, <2>8, <2>9 DEF Serves
<1> QED
  BY <1>2, <1>3

LEMMA AttNamesRuns ==
    ASSUME NEW tk, NEW l, NEW f, NEW o, Fine(l, f, o), f + 1 <= l
    PROVE  Serves(parse_attnames(tk), l, f, tk, o, l)
<1>1. /\ l \in Nat /\ f \in Nat /\ f <= l /\ Fine(l, f, o) /\ Fine(l + 1, f, o)
  BY DEF Fine
<1>2. CASE tk = ","
  <2>1. Run(<<Advance>>, Sees(l, f, ",", o), At(l, f, o))
    BY <1>1, PlainNeutral, AdvanceRuns DEF Plain, Sees, At
  <2>2. Run(<<Call("attname")>>, At(l, f, o), At(l + 1, f, o))
    BY <1>1, CallNew DEF Call, KeepRules
  <2>3. Run(<<Push>>, At(l + 1, f, o), At(l, f, o))
    BY <1>1, PushRuns
  <2>4. Run(<<Call("attnames")>>, At(l, f, o), At(l, f, o))
    BY <1>1, CallOn DEF Call, TakeRules
  <2>5. Run(<<Advance, Call("attname"), Push, Call("attnames")>>, Sees(l, f, ",", o), At(l, f, o))
    BY <2>1, <2>2, <2>3, <2>4, Run4
  <2>6. parse_attnames(tk) = <<Advance, Call("attname"), Push, Call("attnames")>>
    BY <1>2 DEF parse_attnames
  <2> QED
    BY <1>2, <2>5, <2>6 DEF Serves
<1>3. CASE tk # ","
  <2>1. Run(<<>>, At(l, f, o), At(l, f, o))
    BY <1>1, AtIs, RunNone
  <2>2. parse_attnames(tk) = <<>>
    BY <1>3 DEF parse_attnames
  <2> QED
    BY <1>3, <2>1, <2>2 DEF Serves
<1> QED
  BY <1>2, <1>3

LEMMA LocalInitRuns ==
    ASSUME NEW tk, NEW l, NEW f, NEW o, Fine(l, f, o), f + 1 <= l
    PROVE  Serves(parse_localinit(tk), l, f, tk, o, l)
<1>1. /\ l \in Nat /\ f \in Nat /\ f <= l /\ Fine(l, f, o) /\ Fine(l + 1, f, o)
  BY DEF Fine
<1>2. CASE tk = "="
  <2>1. Run(<<Advance>>, Sees(l, f, "=", o), At(l, f, o))
    BY <1>1, PlainNeutral, AdvanceRuns DEF Plain, Sees, At
  <2>2. Run(<<Call("explist")>>, At(l, f, o), At(l + 1, f, o))
    BY <1>1, CallNew DEF Call, KeepRules
  <2>3. Run(<<Push>>, At(l + 1, f, o), At(l, f, o))
    BY <1>1, PushRuns
  <2>4. Run(<<Advance, Call("explist"), Push>>, Sees(l, f, "=", o), At(l, f, o))
    BY <2>1, <2>2, <2>3, Run3
  <2>5. parse_localinit(tk) = <<Advance, Call("explist"), Push>>
    BY <1>2 DEF parse_localinit
  <2> QED
    BY <1>2, <2>4, <2>5 DEF Serves
<1>3. CASE tk # "="
  <2>1. Run(<<>>, At(l, f, o), At(l, f, o))
    BY <1>1, AtIs, RunNone
  <2>2. parse_localinit(tk) = <<>>
    BY <1>3 DEF parse_localinit
  <2> QED
    BY <1>3, <2>1, <2>2 DEF Serves
<1> QED
  BY <1>2, <1>3

LEMMA GotoRuns ==
    ASSUME NEW l, NEW f, NEW o, Fine(l, f, o)
    PROVE  Serves(parse_goto, l, f, "goto", o, l + 1)
<1>1. /\ l \in Nat /\ f \in Nat /\ f <= l /\ Fine(l, f, o) /\ Fine(l + 1, f, o)
      /\ "goto" \in Types
  <2>1. l \in Nat /\ f \in Nat /\ f <= l /\ Fine(l, f, o) /\ Fine(l + 1, f, o)
    BY DEF Fine
  <2>2. "goto" \in Types
    BY TypesAre
  <2> QED
    BY <2>1, <2>2
<1>2. Run(<<Advance>>, Sees(l, f, "goto", o), At(l, f, o))
  BY <1>1, PlainNeutral, AdvanceRuns DEF Plain, Sees, At
<1>3. Run(<<Take("Name")>>, At(l, f, o), At(l + 1, f, o))
  BY <1>1, TakeRuns DEF Plain
<1>4. Run(<<Advance, Take("Name")>>, Sees(l, f, "goto", o), At(l + 1, f, o))
  BY <1>2, <1>3, Run2
<1>5. Run(Make("goto", 0, 1), At(l + 1, f, o), At(l + 1, f, o))
  BY <1>1, MakeAt
<1>6. Run(<<Advance, Take("Name")>> \o Make("goto", 0, 1), Sees(l, f, "goto", o), At(l + 1, f, o))
  BY <1>4, <1>5, RunCat
<1>7. parse_goto = <<Advance, Take("Name")>> \o Make("goto", 0, 1)
  BY DEF parse_goto
<1> QED
  BY <1>6, <1>7 DEF Serves

LEMMA LabelRuns ==
    ASSUME NEW l, NEW f, NEW o, Fine(l, f, o)
    PROVE  Serves(parse_label, l, f, "::", o, l + 1)
<1>1. /\ l \in Nat /\ f \in Nat /\ f <= l /\ Fine(l, f, o) /\ Fine(l + 1, f, o)
      /\ "label" \in Types
  <2>1. l \in Nat /\ f \in Nat /\ f <= l /\ Fine(l, f, o) /\ Fine(l + 1, f, o)
    BY DEF Fine
  <2>2. "label" \in Types
    BY TypesAre
  <2> QED
    BY <2>1, <2>2
<1>2. Run(<<Advance>>, Sees(l, f, "::", o), At(l, f, o))
  BY <1>1, PlainNeutral, AdvanceRuns DEF Plain, Sees, At
<1>3. Run(<<Take("Name")>>, At(l, f, o), At(l + 1, f, o))
  BY <1>1, TakeRuns DEF Plain
<1>4. Run(<<Expect("::")>>, At(l + 1, f, o), At(l + 1, f, o))
  BY <1>1, ExpectPlain DEF Plain
<1>5. Run(<<Advance, Take("Name"), Expect("::")>>, Sees(l, f, "::", o), At(l + 1, f, o))
  BY <1>2, <1>3, <1>4, Run3
<1>6. Run(Make("label", 0, 1), At(l + 1, f, o), At(l + 1, f, o))
  BY <1>1, MakeAt
<1>7. Run(<<Advance, Take("Name"), Expect("::")>> \o Make("label", 0, 1), Sees(l, f, "::", o), At(l + 1, f,
       o))
  BY <1>5, <1>6, RunCat
<1>8. parse_label = <<Advance, Take("Name"), Expect("::")>> \o Make("label", 0, 1)
  BY DEF parse_label
<1> QED
  BY <1>7, <1>8 DEF Serves

LEMMA ExprStatRuns ==
    ASSUME NEW expr, NEW l, NEW f, NEW o, Fine(l, f, o)
    PROVE  Serves(parse_exprstat, l, f, "none", o, l + 1)
<1>1. /\ l \in Nat /\ f \in Nat /\ f <= l /\ Fine(l, f, o) /\ Fine(l + 1, f, o)
  BY DEF Fine
<1>2. Run(<<Call("suffixedexp")>>, At(l, f, o), At(l + 1, f, o))
  BY <1>1, CallNew DEF Call, KeepRules
<1>3. Run(<<Call("assignorcall")>>, At(l + 1, f, o), At(l + 1, f, o))
  BY <1>1, CallOn DEF Call, TakeRules
<1>4. Run(<<Call("suffixedexp"), Call("assignorcall")>>, At(l, f, o), At(l + 1, f, o))
  BY <1>2, <1>3, Run2
<1>5. parse_exprstat = <<Call("suffixedexp"), Call("assignorcall")>>
  BY DEF parse_exprstat
<1> QED
  BY <1>4, <1>5 DEF Serves

LEMMA AssignRuns ==
    ASSUME NEW tk, NEW expr, NEW l, NEW f, NEW o, Fine(l, f, o), f + 1 <= l
    PROVE  Serves(parse_assignorcall(tk, expr), l, f, tk, o, l)
<1>1. /\ l \in Nat /\ f \in Nat /\ f <= l /\ Fine(l, f, o) /\ Fine(l + 1, f, o)
      /\ "assign" \in Types /\ "call_stat" \in Types
  <2>1. l \in Nat /\ f \in Nat /\ f <= l /\ Fine(l, f, o) /\ Fine(l + 1, f, o)
    BY DEF Fine
  <2>2. "assign" \in Types /\ "call_stat" \in Types
    BY TypesAre
  <2> QED
    BY <2>1, <2>2
<1>2. CASE tk \in {"=", ","}
  <2>1. Run(Make("assign", 4, 1), At(l, f, o), At(l, f, o))
    BY <1>1, MakeAt
  <2>2. Run(<<Call("targets")>>, At(l, f, o), At(l, f, o))
    BY <1>1, CallOn DEF Call, TakeRules
  <2>3. Run(<<Count>>, At(l, f, o), At(l, f, o))
    BY <1>1, SetRuns
  <2>4. Run(<<Expect("=")>>, At(l, f, o), At(l, f, o))
    BY <1>1, ExpectPlain DEF Plain
  <2>5. Run(<<Call("explist")>>, At(l, f, o), At(l + 1, f, o))
    BY <1>1, CallNew DEF Call, KeepRules
  <2>6. Run(<<Push>>, At(l + 1, f, o), At(l, f, o))
    BY <1>1, PushRuns
  <2>7. Run(<<Call("targets"), Count, Expect("="), Call("explist"), Push>>, At(l, f, o), At(l, f, o))
    BY <2>2, <2>3, <2>4, <2>5, <2>6, Run5
  <2>8. Run(Make("assign", 4, 1) \o <<Call("targets"), Count, Expect("="), Call("explist"), Push>>, At(l,
         f, o), At(l, f, o))
    BY <2>1, <2>7, RunCat
  <2>9. parse_assignorcall(tk, expr) = Make("assign", 4, 1) \o <<Call("targets"), Count, Expect("="),
         Call("explist"), Push>>
    BY <1>2 DEF parse_assignorcall
  <2> QED
    BY <1>2, <2>8, <2>9 DEF Serves
<1>3. CASE tk \notin {"=", ","} /\ expr.type \in {"call", "call_method"}
  <2>1. Run(Make("call_stat", 1, 1), At(l, f, o), At(l, f, o))
    BY <1>1, MakeAt
  <2>2. parse_assignorcall(tk, expr) = Make("call_stat", 1, 1)
    BY <1>3 DEF parse_assignorcall
  <2> QED
    BY <1>3, <2>1, <2>2 DEF Serves
<1>4. CASE tk \notin {"=", ","} /\ expr.type \notin {"call", "call_method"}
  <2>1. Run(<<Reject>>, At(l, f, o), At(l, f, o))
    BY <1>1, RejectRuns
  <2>2. parse_assignorcall(tk, expr) = <<Reject>>
    BY <1>4 DEF parse_assignorcall
  <2> QED
    BY <1>4, <2>1, <2>2 DEF Serves
<1> QED
  BY <1>2, <1>3, <1>4

LEMMA TargetsRuns ==
    ASSUME NEW tk, NEW l, NEW f, NEW o, Fine(l, f, o), f + 1 <= l
    PROVE  Serves(parse_targets(tk), l, f, tk, o, l)
<1>1. /\ l \in Nat /\ f \in Nat /\ f <= l /\ Fine(l, f, o) /\ Fine(l + 1, f, o)
  BY DEF Fine
<1>2. CASE tk = ","
  <2>1. Run(<<Advance>>, Sees(l, f, ",", o), At(l, f, o))
    BY <1>1, PlainNeutral, AdvanceRuns DEF Plain, Sees, At
  <2>2. Run(<<Call("suffixedexp")>>, At(l, f, o), At(l + 1, f, o))
    BY <1>1, CallNew DEF Call, KeepRules
  <2>3. Run(<<Push>>, At(l + 1, f, o), At(l, f, o))
    BY <1>1, PushRuns
  <2>4. Run(<<Call("targets")>>, At(l, f, o), At(l, f, o))
    BY <1>1, CallOn DEF Call, TakeRules
  <2>5. Run(<<Advance, Call("suffixedexp"), Push, Call("targets")>>, Sees(l, f, ",", o), At(l, f, o))
    BY <2>1, <2>2, <2>3, <2>4, Run4
  <2>6. parse_targets(tk) = <<Advance, Call("suffixedexp"), Push, Call("targets")>>
    BY <1>2 DEF parse_targets
  <2> QED
    BY <1>2, <2>5, <2>6 DEF Serves
<1>3. CASE tk # ","
  <2>1. Run(<<>>, At(l, f, o), At(l, f, o))
    BY <1>1, AtIs, RunNone
  <2>2. parse_targets(tk) = <<>>
    BY <1>3 DEF parse_targets
  <2> QED
    BY <1>3, <2>1, <2>2 DEF Serves
<1> QED
  BY <1>2, <1>3

LEMMA BlockRuns ==
    ASSUME NEW l, NEW f, NEW o, Fine(l, f, o)
    PROVE  Serves(parse_block, l, f, "none", o, l + 1)
<1>1. /\ l \in Nat /\ f \in Nat /\ f <= l /\ Fine(l, f, o) /\ Fine(l + 1, f, o)
      /\ "block" \in Types
  <2>1. l \in Nat /\ f \in Nat /\ f <= l /\ Fine(l, f, o) /\ Fine(l + 1, f, o)
    BY DEF Fine
  <2>2. "block" \in Types
    BY TypesAre
  <2> QED
    BY <2>1, <2>2
<1>2. Run(Make("block", 4, 0), At(l, f, o), Pt(l + 1, f, "none", "block", o))
  BY <1>1, MakeRuns DEF Sees, At, MarkOf
<1>3. Run(<<Call("stats")>>, Pt(l + 1, f, "none", "block", o), At(l + 1, f, o))
  BY <1>1, CallStats
<1>4. Run(Make("block", 4, 0) \o <<Call("stats")>>, At(l, f, o), At(l + 1, f, o))
  BY <1>2, <1>3, RunCat
<1>5. parse_block = Make("block", 4, 0) \o <<Call("stats")>>
  BY DEF parse_block
<1> QED
  BY <1>4, <1>5 DEF Serves

LEMMA ExpRuns ==
    ASSUME NEW l, NEW f, NEW o, Fine(l, f, o) PROVE Serves(<<SubExp(0)>>, l, f, "none", o, l + 1)
<1>1. Run(<<SubExp(0)>>, At(l, f, o), At(l + 1, f, o))
  BY CallNew DEF SubExp, KeepRules
<1> QED
  BY <1>1 DEF Serves

LEMMA BreakRuns ==
    ASSUME NEW l, NEW f, NEW o, Fine(l, f, o)
    PROVE  Serves(<<Advance>> \o Make("break", 0, 0), l, f, "break", o, l + 1)
<1>1. l \in Nat /\ f \in Nat /\ f <= l /\ Fine(l + 1, f, o) /\ "break" \in Types
  BY TypesAre DEF Fine
<1>2. Run(<<Advance>>, Sees(l, f, "break", o), At(l, f, o))
  BY PlainNeutral, AdvanceRuns DEF Plain, Sees, At
<1>3. Run(Make("break", 0, 0), At(l, f, o), At(l + 1, f, o))
  BY <1>1, MakeAt
<1> QED
  BY <1>2, <1>3, RunCat DEF Serves

LEMMA StatRuns ==
    ASSUME NEW tk, NEW l, NEW f, NEW o, Fine(l, f, o)
    PROVE  Serves(parse_stat(tk), l, f, tk, o, l + 1)
<1>1. CASE tk = "if"
  BY <1>1, IfRuns DEF parse_stat
<1>2. CASE tk = "while"
  BY <1>2, WhileRuns DEF parse_stat
<1>3. CASE tk = "do"
  BY <1>3, DoRuns DEF parse_stat
<1>4. CASE tk = "for"
  BY <1>4, ForRuns DEF parse_stat
<1>5. CASE tk = "repeat"
  BY <1>5, RepeatRuns DEF parse_stat
<1>6. CASE tk = "function"
  BY <1>6, FunctionRuns DEF parse_stat
<1>7. CASE tk = "local"
  BY <1>7, LocalRuns DEF parse_stat
<1>8. CASE tk = "goto"
  BY <1>8, GotoRuns DEF parse_stat
<1>9. CASE tk = "break"
  BY <1>9, BreakRuns DEF parse_stat
<1>10. CASE tk = "::"
  BY <1>10, LabelRuns DEF parse_stat
<1>11. CASE tk \notin {"if", "while", "do", "for", "repeat", "function", "local", "goto", "break", "::"}
  <2>1. parse_stat(tk) = parse_exprstat
    BY <1>11 DEF parse_stat
  <2>2. Run(parse_exprstat, At(l, f, o), At(l + 1, f, o)) \/ Run(parse_exprstat, Sees(l, f, "none", o), At(l + 1, f, o))
    BY ExprStatRuns DEF Serves
  <2> QED
    BY <2>1, <2>2 DEF Serves, Sees, At
<1> QED
  BY <1>1, <1>2, <1>3, <1>4, <1>5, <1>6, <1>7, <1>8, <1>9, <1>10, <1>11

\* Before a name that is no key the token is given back.
LEMMA NameFieldRuns ==
    ASSUME NEW tk, NEW l, NEW f, NEW o, Fine(l, f, o), f + 1 <= l
    PROVE  \/ Run(parse_namefield(tk), Sees(l, f, tk, o), At(l, f, o))
           \/ Run(parse_namefield(tk), Pt(l, f, "none", "token", o), At(l, f, o))
<1>1. /\ l \in Nat /\ f \in Nat /\ l - 1 \in Nat
      /\ Fine(l + 1, f, o) /\ Fine(l - 1, f, o)
      /\ "field_name" \in Types /\ "field_val" \in Types
  BY TypesAre DEF Fine
<1>2. CASE tk = "="
  <2>1. Run(<<Advance>>, Sees(l, f, "=", o), At(l, f, o))
    BY PlainNeutral, AdvanceRuns DEF Plain, Sees, At
  <2>2. Run(<<Call("exp")>>, At(l, f, o), At(l + 1, f, o))
    BY <1>1, CallNew DEF Call, KeepRules
  <2>3. Run(<<Advance, Call("exp")>>, Sees(l, f, "=", o), At(l + 1, f, o))
    BY <2>1, <2>2, Run2
  <2>4. Run(Make("field_name", 1, 2), At(l + 1, f, o), At(l, f, o))
    BY <1>1, MakeAt, SMTT(30)
  <2>5. parse_namefield(tk) = <<Advance, Call("exp")>> \o Make("field_name", 1, 2)
    BY <1>2 DEF parse_namefield
  <2> QED
    BY <1>2, <2>3, <2>4, <2>5, RunCat
<1>3. CASE tk # "="
  <2>1. Run(<<PutBack>>, Pt(l, f, "none", "token", o), At(l - 1, f, o))
    BY <1>1, PutBackRuns
  <2>2. Run(<<Call("exp")>>, At(l - 1, f, o), At(l, f, o))
    BY <1>1, CallNew DEF Call, KeepRules
  <2>3. Run(<<PutBack, Call("exp")>>, Pt(l, f, "none", "token", o), At(l, f, o))
    BY <2>1, <2>2, Run2
  <2>4. Run(Make("field_val", 1, 1), At(l, f, o), At(l, f, o))
    BY <1>1, MakeAt
  <2>5. parse_namefield(tk) = <<PutBack, Call("exp")>> \o Make("field_val", 1, 1)
    BY <1>3 DEF parse_namefield
  <2> QED
    BY <2>3, <2>4, <2>5, RunCat
<1> QED
  BY <1>2, <1>3

\* A statement leaves the nodes of all blocks in progress alone.
LEMMA StatsRuns ==
    ASSUME NEW tk, NEW l, NEW f, NEW o, Fine(l, f, o), f + 1 <= l
    PROVE  \/ Run(parse_stats(tk, l), At(l, f, o), At(l, f, o))
           \/ Run(parse_stats(tk, l), Pt(l, f, tk, "block", o), At(l, f, o))
           \/ Run(parse_stats(tk, l), Sees(l, f, tk, o), At(l, f, o))
           \/ Run(parse_stats(tk, l), At(l, l, o), At(l, f, o))
<1>1. /\ l \in Nat /\ f \in Nat /\ f < l
      /\ Fine(l + 1, f, o) /\ Fine(l, l, o)
  BY DEF Fine
<1>2. Run(<<Call("stats")>>, Pt(l, f, "none", "block", o), At(l, f, o))
  BY <1>1, CallStats
<1>3. CASE is_block_end(tk)
  <2>1. parse_stats(tk, l) = <<>>
    BY <1>3 DEF parse_stats, is_block_end
  <2>2. Run(<<>>, At(l, f, o), At(l, f, o))
    BY AtIs, RunNone
  <2> QED
    BY <2>1, <2>2
<1>4. CASE tk = ";"
  <2>1. tk \in Plain
    BY <1>4 DEF Plain
  <2>2. Run(<<Advance>>, Pt(l, f, tk, "block", o), Pt(l, f, "none", "block", o))
    BY <2>1, PlainNeutral, AdvanceRuns
  <2>3. Run(<<Advance, Call("stats")>>, Pt(l, f, tk, "block", o), At(l, f, o))
    BY <1>2, <2>2, Run2
  <2>4. parse_stats(tk, l) = <<Advance, Call("stats")>>
    BY <1>4 DEF parse_stats, is_block_end
  <2> QED
    BY <2>3, <2>4
<1>5. CASE tk = "return"
  <2>1. Run(<<Call("retstat")>>, Sees(l, f, tk, o), At(l + 1, f, o))
    BY <1>1, <1>5, CallReturn
  <2>2. Run(<<Push>>, At(l + 1, f, o), At(l, f, o))
    BY <1>1, PushRuns
  <2>3. Run(<<Match(";")>>, At(l, f, o), At(l, f, o))
    BY MatchRuns DEF Plain
  <2>4. Run(<<Call("retstat"), Push, Match(";")>>, Sees(l, f, tk, o), At(l, f, o))
    BY <2>1, <2>2, <2>3, Run3
  <2>5. parse_stats(tk, l) = <<Call("retstat"), Push, Match(";")>>
    BY <1>5 DEF parse_stats, is_block_end
  <2> QED
    BY <2>4, <2>5
<1>6. CASE ~is_block_end(tk) /\ tk \notin {";", "return"}
  <2>1. Run(<<Call("stat")>>, At(l, l, o), At(l + 1, l, o))
    BY <1>1, CallNew DEF Call, KeepRules
  <2>2. Run(<<Keep(l)>>, At(l + 1, l, o), Pt(l, f, "none", "block", o))
    BY <1>1, KeepRuns
  <2>3. Run(<<Call("stat"), Keep(l), Call("stats")>>, At(l, l, o), At(l, f, o))
    BY <1>2, <2>1, <2>2, Run3
  <2>4. parse_stats(tk, l) = <<Call("stat"), Keep(l), Call("stats")>>
    BY <1>6 DEF parse_stats
  <2> QED
    BY <2>3, <2>4
<1> QED
  BY <1>3, <1>4, <1>5, <1>6

-----------------------------------------------------------------------------
(* Calls *)

\* A point that claims no more of the state than s does, the current token apart.
Follows(p, s) ==
    /\ p.len = s.len /\ p.open = s.open
    /\ p.tk \in {"none", CURTKN} /\ p.mark \in {"none", s.mark}

LEMMA ServesFollow ==
    ASSUME NEW s \in Points, NEW tk, tk \in {"none", CURTKN}, NEW items, NEW k, NEW u,
           u = At(k, s.floor, s.open), Serves(items, s.len, s.floor, tk, s.open, k)
    PROVE  \E p \in Points : Run(items, p, u) /\ Follows(p, s) /\ p.floor = s.floor
<1>1. CASE Run(items, At(s.len, s.floor, s.open), At(k, s.floor, s.open))
  <2> DEFINE p == At(s.len, s.floor, s.open)
  <2>1. p \in Points
    BY <1>1, RunEnds
  <2>2. Follows(p, s) /\ p.floor = s.floor
    BY DEF Follows, At, Pt
  <2> QED
    BY <1>1, <2>1, <2>2
<1>2. CASE Run(items, Sees(s.len, s.floor, tk, s.open), At(k, s.floor, s.open))
  <2> DEFINE p == Sees(s.len, s.floor, tk, s.open)
  <2>1. p \in Points
    BY <1>2, RunEnds
  <2>2. Follows(p, s) /\ p.floor = s.floor
    BY DEF Follows, Sees, Pt
  <2> QED
    BY <1>2, <2>1, <2>2
<1> QED
  BY <1>1, <1>2 DEF Serves

\* The steps of a rule lead from where it is called to where its caller goes on.
LEMMA CallRuns ==
    ASSUME NEW s \in Points, NEW u, NEW item \in Items, item.op = "call", Calls(item, s, u),
           s.len = Len(nodes), s.tk # "none" => CURTKN = s.tk
    PROVE  \E p \in Points :
              Run(Steps(item), p, u) /\ Follows(p, s) /\ (item.arg # "stats" => p.floor = s.floor)
<1> DEFINE l == s.len
           f == s.floor
           o == s.open
<1>1. Fine(l, f, o) /\ l \in Nat /\ item.n \in Nat
  BY DEF Fine, Points, Items
<1>2. /\ item.arg \in Rules /\ f + Takes(item.arg) <= l
      /\ u = At(l - Takes(item.arg) + 1, f, o)
      /\ item.arg = "retstat" => CURTKN = "return"
      /\ item.arg = "stats" => s.mark = "block"
      /\ item.arg = "namefield" => s.mark = "token"
  BY DEF Calls, At
<1>3. /\ "none" \in {"none", CURTKN} /\ CURTKN \in {"none", CURTKN}
      /\ item.arg = "retstat" => "return" \in {"none", CURTKN}
  BY <1>2
<1> DEFINE Led == \E p \in Points :
                     Run(Steps(item), p, u) /\ Follows(p, s) /\ (item.arg # "stats" => p.floor = s.floor)
<1> SUFFICES Led
  OBVIOUS
<1>f. ASSUME NEW tk, tk \in {"none", CURTKN}, NEW k, u = At(k, f, o), Serves(Steps(item), l, f, tk, o, k)
      PROVE  Led
  <2>1. \E p \in Points : Run(Steps(item), p, u) /\ Follows(p, s) /\ p.floor = s.floor
    BY <1>f, ServesFollow, SMTT(30)
  <2> QED
    BY <2>1
<1> HIDE DEF Led
<1>4. CASE item.arg = "main"
  <2>1. Steps(item) = parse_main
    BY <1>4 DEF Steps
  <2>2. u = At(l + 1, f, o)
    BY <1>1, <1>2, <1>4 DEF Takes
  <2>3. Serves(Steps(item), l, f, "none", o, l + 1)
    BY <1>1, <2>1, <2>2, MainRuns
  <2> QED
    BY <1>3, <1>4, <2>2, <2>3, <1>f, Zenon
<1>5. CASE item.arg = "exp"
  <2>1. Steps(item) = <<SubExp(0)>>
    BY <1>5 DEF Steps
  <2>2. u = At(l + 1, f, o)
    BY <1>1, <1>2, <1>5 DEF Takes
  <2>3. Serves(Steps(item), l, f, "none", o, l + 1)
    BY <1>1, <2>1, <2>2, ExpRuns
  <2> QED
    BY <1>3, <1>5, <2>2, <2>3, <1>f, Zenon
<1>6. CASE item.arg = "block"
  <2>1. Steps(item) = parse_block
    BY <1>6 DEF Steps
  <2>2. u = At(l + 1, f, o)
    BY <1>1, <1>2, <1>6 DEF Takes
  <2>3. Serves(Steps(item), l, f, "none", o, l + 1)
    BY <1>1, <2>1, <2>2, BlockRuns
  <2> QED
    BY <1>3, <1>6, <2>2, <2>3, <1>f, Zenon
<1>7. CASE item.arg = "stat"
  <2>1. Steps(item) = parse_stat(CURTKN)
    BY <1>7 DEF Steps
  <2>2. u = At(l + 1, f, o)
    BY <1>1, <1>2, <1>7 DEF Takes
  <2>3. Serves(Steps(item), l, f, CURTKN, o, l + 1)
    BY <1>1, <2>1, <2>2, StatRuns
  <2> QED
    BY <1>3, <1>7, <2>2, <2>3, <1>f, Zenon
<1>8. CASE item.arg = "subexp"
  <2>1. Steps(item) = parse_subexp(CURTKN, item.n)
    BY <1>8 DEF Steps
  <2>2. u = At(l + 1, f, o)
    BY <1>1, <1>2, <1>8 DEF Takes
  <2>3. Serves(Steps(item), l, f, CURTKN, o, l + 1)
    BY <1>1, <2>1, <2>2, SubExpRuns
  <2> QED
    BY <1>3, <1>8, <2>2, <2>3, <1>f, Zenon
<1>9. CASE item.arg = "binops"
  <2>1. Steps(item) = parse_binops(CURTKN, item.n)
    BY <1>9 DEF Steps
  <2>2. u = At(l, f, o) /\ f + 1 <= l
    BY <1>1, <1>2, <1>9 DEF Takes
  <2>3. Serves(Steps(item), l, f, CURTKN, o, l)
    BY <1>1, <2>1, <2>2, BinOpsRuns
  <2> QED
    BY <1>3, <1>9, <2>2, <2>3, <1>f, Zenon
<1>10. CASE item.arg = "simpleexp"
  <2>1. Steps(item) = parse_simpleexp(CURTKN)
    BY <1>10 DEF Steps
  <2>2. u = At(l + 1, f, o)
    BY <1>1, <1>2, <1>10 DEF Takes
  <2>3. Serves(Steps(item), l, f, CURTKN, o, l + 1)
    BY <1>1, <2>1, <2>2, SimpleRuns
  <2> QED
    BY <1>3, <1>10, <2>2, <2>3, <1>f, Zenon
<1>11. CASE item.arg = "suffixedexp"
  <2>1. Steps(item) = parse_suffixedexp
    BY <1>11 DEF Steps
  <2>2. u = At(l + 1, f, o)
    BY <1>1, <1>2, <1>11 DEF Takes
  <2>3. Serves(Steps(item), l, f, "none", o, l + 1)
    BY <1>1, <2>1, <2>2, SuffixedRuns
  <2> QED
    BY <1>3, <1>11, <2>2, <2>3, <1>f, Zenon
<1>12. CASE item.arg = "primaryexp"
  <2>1. Steps(item) = parse_primaryexp(CURTKN)
    BY <1>12 DEF Steps
  <2>2. u = At(l + 1, f, o)
    BY <1>1, <1>2, <1>12 DEF Takes
  <2>3. Serves(Steps(item), l, f, CURTKN, o, l + 1)
    BY <1>1, <2>1, <2>2, PrimaryRuns
  <2> QED
    BY <1>3, <1>12, <2>2, <2>3, <1>f, Zenon
<1>13. CASE item.arg = "paren"
  <2>1. Steps(item) = parse_paren(Last(nodes))
    BY <1>13 DEF Steps
  <2>2. u = At(l, f, o) /\ f + 1 <= l
    BY <1>1, <1>2, <1>13 DEF Takes
  <2>3. Serves(Steps(item), l, f, "none", o, l)
    BY <1>1, <2>1, <2>2, ParenRuns
  <2> QED
    BY <1>3, <1>13, <2>2, <2>3, <1>f, Zenon
<1>14. CASE item.arg = "suffixes"
  <2>1. Steps(item) = parse_suffixes(CURTKN)
    BY <1>14 DEF Steps
  <2>2. u = At(l, f, o) /\ f + 1 <= l
    BY <1>1, <1>2, <1>14 DEF Takes
  <2>3. Serves(Steps(item), l, f, CURTKN, o, l)
    BY <1>1, <2>1, <2>2, SuffixesRuns
  <2> QED
    BY <1>3, <1>14, <2>2, <2>3, <1>f, Zenon
<1>15. CASE item.arg = "args"
  <2>1. Steps(item) = parse_args(CURTKN)
    BY <1>15 DEF Steps
  <2>2. u = At(l + 1, f, o)
    BY <1>1, <1>2, <1>15 DEF Takes
  <2>3. Serves(Steps(item), l, f, CURTKN, o, l + 1)
    BY <1>1, <2>1, <2>2, ArgsRuns
  <2> QED
    BY <1>3, <1>15, <2>2, <2>3, <1>f, Zenon
<1>16. CASE item.arg = "callargs"
  <2>1. Steps(item) = parse_callargs(CURTKN)
    BY <1>16 DEF Steps
  <2>2. u = At(l, f, o) /\ f + 1 <= l
    BY <1>1, <1>2, <1>16 DEF Takes
  <2>3. Serves(Steps(item), l, f, CURTKN, o, l)
    BY <1>1, <2>1, <2>2, CallArgsRuns
  <2> QED
    BY <1>3, <1>16, <2>2, <2>3, <1>f, Zenon
<1>17. CASE item.arg = "explist"
  <2>1. Steps(item) = parse_explist
    BY <1>17 DEF Steps
  <2>2. u = At(l + 1, f, o)
    BY <1>1, <1>2, <1>17 DEF Takes
  <2>3. Serves(Steps(item), l, f, "none", o, l + 1)
    BY <1>1, <2>1, <2>2, ExpListRuns
  <2> QED
    BY <1>3, <1>17, <2>2, <2>3, <1>f, Zenon
<1>18. CASE item.arg = "moreexps"
  <2>1. Steps(item) = parse_moreexps(CURTKN)
    BY <1>18 DEF Steps
  <2>2. u = At(l, f, o) /\ f + 1 <= l
    BY <1>1, <1>2, <1>18 DEF Takes
  <2>3. Serves(Steps(item), l, f, CURTKN, o, l)
    BY <1>1, <2>1, <2>2, MoreExpsRuns
  <2> QED
    BY <1>3, <1>18, <2>2, <2>3, <1>f, Zenon
<1>19. CASE item.arg = "table"
  <2>1. Steps(item) = parse_tableconstructor
    BY <1>19 DEF Steps
  <2>2. u = At(l + 1, f, o)
    BY <1>1, <1>2, <1>19 DEF Takes
  <2>3. Serves(Steps(item), l, f, "none", o, l + 1)
    BY <1>1, <2>1, <2>2, TableRuns
  <2> QED
    BY <1>3, <1>19, <2>2, <2>3, <1>f, Zenon
<1>20. CASE item.arg = "fields"
  <2>1. Steps(item) = parse_fields(CURTKN)
    BY <1>20 DEF Steps
  <2>2. u = At(l, f, o) /\ f + 1 <= l
    BY <1>1, <1>2, <1>20 DEF Takes
  <2>3. Serves(Steps(item), l, f, CURTKN, o, l)
    BY <1>1, <2>1, <2>2, FieldsRuns
  <2> QED
    BY <1>3, <1>20, <2>2, <2>3, <1>f, Zenon
<1>21. CASE item.arg = "fieldsep"
  <2>1. Steps(item) = parse_fieldsep(CURTKN)
    BY <1>21 DEF Steps
  <2>2. u = At(l, f, o) /\ f + 1 <= l
    BY <1>1, <1>2, <1>21 DEF Takes
  <2>3. Serves(Steps(item), l, f, CURTKN, o, l)
    BY <1>1, <2>1, <2>2, FieldSepRuns
  <2> QED
    BY <1>3, <1>21, <2>2, <2>3, <1>f, Zenon
<1>22. CASE item.arg = "field"
  <2>1. Steps(item) = parse_field(CURTKN)
    BY <1>22 DEF Steps
  <2>2. u = At(l + 1, f, o)
    BY <1>1, <1>2, <1>22 DEF Takes
  <2>3. Serves(Steps(item), l, f, CURTKN, o, l + 1)
    BY <1>1, <2>1, <2>2, FieldRuns
  <2> QED
    BY <1>3, <1>22, <2>2, <2>3, <1>f, Zenon
<1>23. CASE item.arg = "funcbody"
  <2>1. Steps(item) = parse_funcbody
    BY <1>23 DEF Steps
  <2>2. u = At(l + 1, f, o)
    BY <1>1, <1>2, <1>23 DEF Takes
  <2>3. Serves(Steps(item), l, f, "none", o, l + 1)
    BY <1>1, <2>1, <2>2, FuncBodyRuns
  <2> QED
    BY <1>3, <1>23, <2>2, <2>3, <1>f, Zenon
<1>24. CASE item.arg = "funcname"
  <2>1. Steps(item) = parse_funcname_into(CURTKN)
    BY <1>24 DEF Steps
  <2>2. u = At(l, f, o) /\ f + 1 <= l
    BY <1>1, <1>2, <1>24 DEF Takes
  <2>3. Serves(Steps(item), l, f, CURTKN, o, l)
    BY <1>1, <2>1, <2>2, FuncNameRuns
  <2> QED
    BY <1>3, <1>24, <2>2, <2>3, <1>f, Zenon
<1>25. CASE item.arg = "arglist"
  <2>1. Steps(item) = parse_arglist(CURTKN)
    BY <1>25 DEF Steps
  <2>2. u = At(l, f, o) /\ f + 1 <= l
    BY <1>1, <1>2, <1>25 DEF Takes
  <2>3. Serves(Steps(item), l, f, CURTKN, o, l)
    BY <1>1, <2>1, <2>2, ArgListRuns
  <2> QED
    BY <1>3, <1>25, <2>2, <2>3, <1>f, Zenon
<1>26. CASE item.arg = "moreargs"
  <2>1. Steps(item) = parse_moreargs(CURTKN)
    BY <1>26 DEF Steps
  <2>2. u = At(l, f, o) /\ f + 1 <= l
    BY <1>1, <1>2, <1>26 DEF Takes
  <2>3. Serves(Steps(item), l, f, CURTKN, o, l)
    BY <1>1, <2>1, <2>2, MoreArgsRuns
  <2> QED
    BY <1>3, <1>26, <2>2, <2>3, <1>f, Zenon
<1>27. CASE item.arg = "retstat"
  <2>1. Steps(item) = parse_retstat
    BY <1>27 DEF Steps
  <2>2. u = At(l + 1, f, o)
    BY <1>1, <1>2, <1>27 DEF Takes
  <2>3. Serves(Steps(item), l, f, "return", o, l + 1)
    BY <1>1, <2>1, <2>2, ReturnRuns
  <2> QED
    BY <1>3, <1>27, <2>2, <2>3, <1>f, Zenon
<1>28. CASE item.arg = "retvals"
  <2>1. Steps(item) = parse_retvals(CURTKN)
    BY <1>28 DEF Steps
  <2>2. u = At(l, f, o) /\ f + 1 <= l
    BY <1>1, <1>2, <1>28 DEF Takes
  <2>3. Serves(Steps(item), l, f, CURTKN, o, l)
    BY <1>1, <2>1, <2>2, RetValsRuns
  <2> QED
    BY <1>3, <1>28, <2>2, <2>3, <1>f, Zenon
<1>29. CASE item.arg = "elseifs"
  <2>1. Steps(item) = parse_elseifs(CURTKN)
    BY <1>29 DEF Steps
  <2>2. u = At(l, f, o) /\ f + 1 <= l
    BY <1>1, <1>2, <1>29 DEF Takes
  <2>3. Serves(Steps(item), l, f, CURTKN, o, l)
    BY <1>1, <2>1, <2>2, ElseIfsRuns
  <2> QED
    BY <1>3, <1>29, <2>2, <2>3, <1>f, Zenon
<1>30. CASE item.arg = "forkind"
  <2>1. Steps(item) = parse_forkind(CURTKN)
    BY <1>30 DEF Steps
  <2>2. u = At(l, f, o) /\ f + 1 <= l
    BY <1>1, <1>2, <1>30 DEF Takes
  <2>3. Serves(Steps(item), l, f, CURTKN, o, l)
    BY <1>1, <2>1, <2>2, ForKindRuns
  <2> QED
    BY <1>3, <1>30, <2>2, <2>3, <1>f, Zenon
<1>31. CASE item.arg = "forstep"
  <2>1. Steps(item) = parse_forstep(CURTKN)
    BY <1>31 DEF Steps
  <2>2. u = At(l - 2, f, o) /\ f + 3 <= l
    BY <1>1, <1>2, <1>31 DEF Takes
  <2>3. Serves(Steps(item), l, f, CURTKN, o, l - 2)
    BY <1>1, <2>1, <2>2, ForStepRuns
  <2> QED
    BY <1>3, <1>31, <2>2, <2>3, <1>f, Zenon
<1>32. CASE item.arg = "fornames"
  <2>1. Steps(item) = parse_fornames(CURTKN)
    BY <1>32 DEF Steps
  <2>2. u = At(l, f, o) /\ f + 1 <= l
    BY <1>1, <1>2, <1>32 DEF Takes
  <2>3. Serves(Steps(item), l, f, CURTKN, o, l)
    BY <1>1, <2>1, <2>2, ForNamesRuns
  <2> QED
    BY <1>3, <1>32, <2>2, <2>3, <1>f, Zenon
<1>33. CASE item.arg = "localkind"
  <2>1. Steps(item) = parse_localkind(CURTKN)
    BY <1>33 DEF Steps
  <2>2. u = At(l + 1, f, o)
    BY <1>1, <1>2, <1>33 DEF Takes
  <2>3. Serves(Steps(item), l, f, CURTKN, o, l + 1)
    BY <1>1, <2>1, <2>2, LocalKindRuns
  <2> QED
    BY <1>3, <1>33, <2>2, <2>3, <1>f, Zenon
<1>34. CASE item.arg = "localinit"
  <2>1. Steps(item) = parse_localinit(CURTKN)
    BY <1>34 DEF Steps
  <2>2. u = At(l, f, o) /\ f + 1 <= l
    BY <1>1, <1>2, <1>34 DEF Takes
  <2>3. Serves(Steps(item), l, f, CURTKN, o, l)
    BY <1>1, <2>1, <2>2, LocalInitRuns
  <2> QED
    BY <1>3, <1>34, <2>2, <2>3, <1>f, Zenon
<1>35. CASE item.arg = "attname"
  <2>1. Steps(item) = parse_attname
    BY <1>35 DEF Steps
  <2>2. u = At(l + 1, f, o)
    BY <1>1, <1>2, <1>35 DEF Takes
  <2>3. Serves(Steps(item), l, f, "none", o, l + 1)
    BY <1>1, <2>1, <2>2, AttNameRuns
  <2> QED
    BY <1>3, <1>35, <2>2, <2>3, <1>f, Zenon
<1>36. CASE item.arg = "attnames"
  <2>1. Steps(item) = parse_attnames(CURTKN)
    BY <1>36 DEF Steps
  <2>2. u = At(l, f, o) /\ f + 1 <= l
    BY <1>1, <1>2, <1>36 DEF Takes
  <2>3. Serves(Steps(item), l, f, CURTKN, o, l)
    BY <1>1, <2>1, <2>2, AttNamesRuns
  <2> QED
    BY <1>3, <1>36, <2>2, <2>3, <1>f, Zenon
<1>37. CASE item.arg = "attrib"
  <2>1. Steps(item) = parse_attrib(CURTKN)
    BY <1>37 DEF Steps
  <2>2. u = At(l, f, o) /\ f + 1 <= l
    BY <1>1, <1>2, <1>37 DEF Takes
  <2>3. Serves(Steps(item), l, f, CURTKN, o, l)
    BY <1>1, <2>1, <2>2, AttribRuns
  <2> QED
    BY <1>3, <1>37, <2>2, <2>3, <1>f, Zenon
<1>38. CASE item.arg = "assignorcall"
  <2>1. Steps(item) = parse_assignorcall(CURTKN, Last(nodes))
    BY <1>38 DEF Steps
  <2>2. u = At(l, f, o) /\ f + 1 <= l
    BY <1>1, <1>2, <1>38 DEF Takes
  <2>3. Serves(Steps(item), l, f, CURTKN, o, l)
    BY <1>1, <2>1, <2>2, AssignRuns
  <2> QED
    BY <1>3, <1>38, <2>2, <2>3, <1>f, Zenon
<1>39. CASE item.arg = "targets"
  <2>1. Steps(item) = parse_targets(CURTKN)
    BY <1>39 DEF Steps
  <2>2. u = At(l, f, o) /\ f + 1 <= l
    BY <1>1, <1>2, <1>39 DEF Takes
  <2>3. Serves(Steps(item), l, f, CURTKN, o, l)
    BY <1>1, <2>1, <2>2, TargetsRuns
  <2> QED
    BY <1>3, <1>39, <2>2, <2>3, <1>f, Zenon
<1>40. CASE item.arg = "stats"
  <2>1. Steps(item) = parse_stats(CURTKN, l)
    BY <1>40 DEF Steps
  <2>2. u = At(l, f, o) /\ f + 1 <= l
    BY <1>1, <1>2, <1>40 DEF Takes
  <2>3. PICK p \in {At(l, f, o), Pt(l, f, CURTKN, "block", o), Sees(l, f, CURTKN, o), At(l, l, o)} :
            Run(Steps(item), p, u)
    BY <1>1, <2>1, <2>2, StatsRuns
  <2>4. p \in Points
    BY <2>3, RunEnds
  <2>5. Follows(p, s)
    BY <1>2, <1>40, <2>3 DEF Follows, At, Sees, Pt
  <2> QED
    BY <1>40, <2>3, <2>4, <2>5 DEF Led
<1>41. CASE item.arg = "namefield"
  <2>1. Steps(item) = parse_namefield(CURTKN)
    BY <1>41 DEF Steps
  <2>2. u = At(l, f, o) /\ f + 1 <= l
    BY <1>1, <1>2, <1>41 DEF Takes
  <2>3. PICK p \in {Sees(l, f, CURTKN, o), Pt(l, f, "none", "token", o)} : Run(Steps(item), p, u)
    BY <1>1, <2>1, <2>2, NameFieldRuns
  <2>4. p \in Points
    BY <2>3, RunEnds
  <2>5. Follows(p, s) /\ p.floor = s.floor
    BY <1>2, <1>41, <2>3 DEF Follows, Sees, Pt
  <2> QED
    BY <2>3, <2>4, <2>5 DEF Led
<1> QED
  BY <1>2, <1>4, <1>5, <1>6, <1>7, <1>8, <1>9, <1>10, <1>11, <1>12, <1>13, <1>14, <1>15, <1>16,
     <1>17, <1>18, <1>19, <1>20, <1>21, <1>22, <1>23, <1>24, <1>25, <1>26, <1>27, <1>28, <1>29,
     <1>30, <1>31, <1>32, <1>33, <1>34, <1>35, <1>36, <1>37, <1>38, <1>39, <1>40, <1>41 DEF Rules

-----------------------------------------------------------------------------
(* Brackets of a text *)

OpenStep(txt, open, i) == Turn(open, txt[i])
OpenRun == INSTANCE NatSteps WITH Op <- OpenStep

\* The brackets open behind the first k tokens.
Opened(txt, k) == OpenRun!Steps(txt, <<>>)[k]
Balanced(txt, k) == \A i \in 1 .. k : txt[i] \in Closers => Matches(Opened(txt, i - 1), txt[i])

LEMMA OpenedIs ==
    \A txt : Opened(txt, 0) = <<>> /\ \A k \in Nat : Opened(txt, k + 1) = Turn(Opened(txt, k), txt[k + 1])
BY OpenRun!StepsUnfold DEF Opened, OpenStep

\* What comes after k does not matter.
LEMMA OpenedSame ==
    ASSUME NEW t1, NEW t2, NEW n \in Nat, \A i \in 1 .. n : t1[i] = t2[i]
    PROVE  \A k \in 0 .. n : Opened(t1, k) = Opened(t2, k)
<1> DEFINE S == {k \in Nat : k <= n => Opened(t1, k) = Opened(t2, k)}
<1>1. 0 \in S
  BY OpenedIs
<1>2. ASSUME NEW k \in Nat, k \in S PROVE k + 1 \in S
  <2> SUFFICES ASSUME k + 1 <= n PROVE Opened(t1, k + 1) = Opened(t2, k + 1)
    OBVIOUS
  <2>1. k + 1 \in 1 .. n /\ Opened(t1, k) = Opened(t2, k)
    BY <1>2
  <2> QED
    BY <2>1, OpenedIs
<1>3. \A k \in Nat : k \in S
  <2> HIDE DEF S
  <2> QED
    BY <1>1, <1>2, OpenRun!Induct
<1> QED
  BY <1>3

LEMMA BalancedSame ==
    ASSUME NEW t1, NEW t2, NEW n \in Nat, \A i \in 1 .. n : t1[i] = t2[i], Balanced(t1, n)
    PROVE  Balanced(t2, n)
<1> SUFFICES ASSUME NEW i \in 1 .. n, t2[i] \in Closers PROVE Matches(Opened(t2, i - 1), t2[i])
  BY DEF Balanced
<1>1. t1[i] = t2[i] /\ Opened(t1, i - 1) = Opened(t2, i - 1)
  <2>1. i - 1 \in 0 .. n
    OBVIOUS
  <2> QED
    BY <2>1, OpenedSame
<1> QED
  BY <1>1 DEF Balanced

LEMMA BalancedMore ==
    ASSUME NEW txt, NEW n \in Nat, Balanced(txt, n),
           txt[n + 1] \in Closers => Matches(Opened(txt, n), txt[n + 1])
    PROVE  Balanced(txt, n + 1)
<1> SUFFICES ASSUME NEW i \in 1 .. n + 1, txt[i] \in Closers PROVE Matches(Opened(txt, i - 1), txt[i])
  BY DEF Balanced
<1>1. CASE i = n + 1
  <2>1. i - 1 = n
    BY <1>1
  <2> QED
    BY <1>1, <2>1
<1>2. CASE i # n + 1
  <2>1. i \in 1 .. n
    BY <1>2
  <2> QED
    BY <2>1 DEF Balanced
<1> QED
  BY <1>1, <1>2

LEMMA BalancedLess ==
    ASSUME NEW txt, NEW n \in Nat, Balanced(txt, n + 1) PROVE Balanced(txt, n)
BY DEF Balanced

-----------------------------------------------------------------------------
(* The invariant *)

NodeOK(v) == \E T : v \in [type : T, at : T, num : T, kids : Seq(T), cap : Nat, paren : T]

\* What the point the steps start from says of the state.
Holds(s) ==
    /\ s.len = Len(nodes)
    /\ s.tk # "none" => CURTKN = s.tk
    /\ s.mark = "token" => pos > 1 /\ Neutral(text[pos - 1]) /\ nodes[Len(nodes)].at = pos - 1
    /\ s.mark = "block" => nodes[Len(nodes)].type = "block"
    /\ ~lost => Balanced(text, pos - 1) /\ s.open = Opened(text, pos - 1)

TextInv ==
    /\ \E T : text \in Seq(T)
    /\ pos \in 1 .. Len(text)
    /\ \A i \in 1 .. pos - 1 : text[i] # "eos"

RoomInv == input \in Inputs /\ room \in 0 .. input.room

NodesInv ==
    /\ \E T : nodes \in Seq(T)
    /\ \A i \in 1 .. Len(nodes) : NodeOK(nodes[i])

AgendaInv == \E s, t \in Points : Run(agenda, s, t) /\ t.open = <<>> /\ (~error => Holds(s))

BlocksInv == \A i \in DOMAIN agenda : agenda[i].op = "keep" => nodes[agenda[i].n].type = "block"

ParseInv == ErrorInv /\ TextInv /\ RoomInv /\ NodesInv /\ AgendaInv /\ BlocksInv

-----------------------------------------------------------------------------
(* Filling a node *)

Filled(s, type, max) ==
    /\ s = [node |-> s.node, left |-> s.left, ok |-> s.ok]
    /\ NodeOK(s.node) /\ s.node.type = type
    /\ s.left \in 0 .. max

LEMMA KidAdded ==
    ASSUME NEW v, NodeOK(v), NEW kid, NEW cap \in Nat
    PROVE  /\ NodeOK([v EXCEPT !.kids = Append(@, kid)])
           /\ [v EXCEPT !.kids = Append(@, kid)].type = v.type
           /\ NodeOK([v EXCEPT !.kids = Append(@, kid), !.cap = cap])
           /\ [v EXCEPT !.kids = Append(@, kid), !.cap = cap].type = v.type
<1>1. PICK T : v \in [type : T, at : T, num : T, kids : Seq(T), cap : Nat, paren : T]
  BY DEF NodeOK
<1> DEFINE U == T \cup {kid}
           k == Append(v.kids, kid)
<1>2. k \in Seq(U)
  <2>1. v.kids \in Seq(T)
    BY <1>1
  <2>2. v.kids \in Seq(U)
    BY <2>1
  <2> QED
    BY <2>2, AppendProperties
<1>3. v \in [type : U, at : U, num : U, kids : Seq(T), cap : Nat, paren : U]
  BY <1>1
<1> HIDE DEF U, k
<1>4. /\ [v EXCEPT !.kids = k] \in [type : U, at : U, num : U, kids : Seq(U), cap : Nat, paren : U]
      /\ [v EXCEPT !.kids = k].type = v.type
      /\ [v EXCEPT !.kids = k, !.cap = cap] \in
            [type : U, at : U, num : U, kids : Seq(U), cap : Nat, paren : U]
      /\ [v EXCEPT !.kids = k, !.cap = cap].type = v.type
  BY <1>2, <1>3
<1> QED
  BY <1>4 DEF NodeOK, k

LEMMA PushFills ==
    ASSUME NEW s, NEW type, NEW max \in Nat, Filled(s, type, max), NEW kid
    PROVE  Filled(PushChild(s, kid), type, max)
<1> DEFINE newcap == IF s.node.cap = 0 THEN 4 ELSE 2 * s.node.cap
           n1 == [s.node EXCEPT !.kids = Append(@, kid)]
           n2 == [s.node EXCEPT !.kids = Append(@, kid), !.cap = newcap]
           w == Words(newcap)
<1>1. /\ s = [node |-> s.node, left |-> s.left, ok |-> s.ok]
      /\ NodeOK(s.node) /\ s.node.type = type /\ s.left \in 0 .. max
  BY DEF Filled
<1>2. s.node.cap \in Nat
  BY <1>1 DEF NodeOK
<1>3. newcap \in Nat
  BY <1>2
<1>4. w \in Nat
  BY <1>3, ParseAssumption DEF Words
<1> HIDE DEF newcap
<1>5. NodeOK(n1) /\ n1.type = type /\ NodeOK(n2) /\ n2.type = type
  BY <1>1, <1>3, KidAdded, ZenonT(40)
<1> HIDE DEF n1, n2, w
<1>6. CASE ~s.ok
  BY <1>6 DEF PushChild
<1>7. CASE s.ok /\ Len(s.node.kids) < s.node.cap
  <2>1. PushChild(s, kid) = [node |-> n1, left |-> s.left, ok |-> s.ok]
    <3>1. PushChild(s, kid) = [s EXCEPT !.node.kids = Append(@, kid)]
      BY <1>7 DEF PushChild
    <3> QED
      BY <1>1, <3>1 DEF n1
  <2> QED
    BY <1>1, <1>5, <2>1 DEF Filled
<1>8. CASE s.ok /\ ~(Len(s.node.kids) < s.node.cap) /\ w <= s.left
  <2>1. PushChild(s, kid) = [node |-> n2, left |-> s.left - w, ok |-> TRUE]
    BY <1>8 DEF PushChild, n2, w, newcap
  <2>2. s.left - w \in 0 .. max
    BY <1>1, <1>4, <1>8
  <2> QED
    BY <1>5, <2>1, <2>2 DEF Filled
<1>9. CASE s.ok /\ ~(Len(s.node.kids) < s.node.cap) /\ ~(w <= s.left)
  <2>1. PushChild(s, kid) = [node |-> s.node, left |-> s.left, ok |-> FALSE]
    <3>1. PushChild(s, kid) = [s EXCEPT !.ok = FALSE]
      BY <1>9 DEF PushChild, w, newcap
    <3> QED
      BY <1>1, <3>1
  <2> QED
    BY <1>1, <2>1 DEF Filled
<1> QED
  BY <1>6, <1>7, <1>8, <1>9

DrainStep(kids, s, i) == PushChild(s, kids[i])
DrainRun == INSTANCE NatSteps WITH Op <- DrainStep

LEMMA DrainFills ==
    ASSUME NEW s, NEW type, NEW max \in Nat, Filled(s, type, max), NEW kids, Len(kids) \in Nat
    PROVE  Filled(drain_children(s, kids), type, max)
<1> DEFINE f == DrainRun!Steps(kids, s)
           S == {n \in Nat : Filled(f[n], type, max)}
<1>1. drain_children(s, kids) = f[Len(kids)]
  BY Zenon DEF drain_children, DrainRun!Steps, DrainStep
<1>2. f[0] = s /\ \A n \in Nat : f[n + 1] = PushChild(f[n], kids[n + 1])
  BY DrainRun!StepsUnfold DEF DrainStep
<1> HIDE DEF f
<1>3. 0 \in S
  BY <1>2
<1>4. ASSUME NEW n \in Nat, n \in S PROVE n + 1 \in S
  BY <1>2, <1>4, PushFills
<1>5. \A n \in Nat : n \in S
  <2> HIDE DEF S
  <2> QED
    BY <1>3, <1>4, DrainRun!Induct
<1> QED
  BY <1>1, <1>5

AdoptStep(values, s, i) == drain_children(s, Children(values[i]))
AdoptRun == INSTANCE NatSteps WITH Op <- AdoptStep

LEMMA AdoptFills ==
    ASSUME NEW dst, NodeOK(dst), NEW values, Len(values) \in Nat,
           \A i \in 1 .. Len(values) : NodeOK(values[i]), room \in Nat
    PROVE  Filled(Adopt(dst, values), dst.type, room)
<1> DEFINE s0 == [node |-> dst, left |-> room, ok |-> TRUE]
           f == AdoptRun!Steps(values, s0)
           N == Len(values)
           type == dst.type
           S == {n \in Nat : n <= N => Filled(f[n], type, room)}
<1>1. Adopt(dst, values) = f[N]
  BY Zenon DEF Adopt, AdoptRun!Steps, AdoptStep
<1>2. f[0] = s0 /\ \A n \in Nat : f[n + 1] = drain_children(f[n], Children(values[n + 1]))
  BY AdoptRun!StepsUnfold DEF AdoptStep
<1>3. Filled(s0, type, room)
  BY DEF Filled
<1>4. N \in Nat /\ \A i \in 1 .. N : Len(Children(values[i])) \in Nat
  <2> SUFFICES ASSUME NEW i \in 1 .. N PROVE Len(Children(values[i])) \in Nat
    OBVIOUS
  <2>1. NodeOK(values[i])
    OBVIOUS
  <2>2. Len(values[i].kids) \in Nat
    BY <2>1, LenProperties DEF NodeOK
  <2>3. CASE values[i].type = "token"
    BY <2>3 DEF Children
  <2>4. CASE values[i].type = "explist"
    BY <2>2, <2>4 DEF Children
  <2>5. CASE values[i].type \notin {"token", "explist"}
    <3>1. Children(values[i]) = <<values[i]>>
      BY <2>5 DEF Children
    <3> QED
      BY <3>1
  <2> QED
    BY <2>3, <2>4, <2>5
<1> HIDE DEF f, s0, N, type
<1>5. 0 \in S
  BY <1>2, <1>3
<1>6. ASSUME NEW n \in Nat, n \in S PROVE n + 1 \in S
  <2> SUFFICES ASSUME n + 1 <= N PROVE Filled(f[n + 1], type, room)
    OBVIOUS
  <2>1. n + 1 \in 1 .. N /\ Filled(f[n], type, room)
    BY <1>4, <1>6
  <2>2. Len(Children(values[n + 1])) \in Nat
    BY <1>4, <2>1
  <2> QED
    BY <1>2, <2>1, <2>2, DrainFills
<1>7. \A n \in Nat : n \in S
  <2> HIDE DEF S
  <2> QED
    BY <1>5, <1>6, AdoptRun!Induct
<1>8. Filled(f[N], type, room)
  BY <1>4, <1>7
<1> QED
  BY <1>1, <1>8 DEF N, type

LeftStep(caps, left, i) == Allocate(caps, left, i)
LeftRun == INSTANCE NatSteps WITH Op <- LeftStep

LEMMA LeftOfRoom ==
    ASSUME NEW caps \in Seq(Nat), room \in Nat PROVE Left(caps) \in 0 .. room
<1> DEFINE f == LeftRun!Steps(caps, room)
           N == Len(caps)
           S == {n \in Nat : n <= N => f[n] \in 0 .. room}
<1>1. Left(caps) = f[N]
  BY Zenon DEF Left, LeftRun!Steps, LeftStep
<1>2. f[0] = room /\ \A n \in Nat : f[n + 1] = Allocate(caps, f[n], n + 1)
  BY LeftRun!StepsUnfold DEF LeftStep
<1>3. N \in Nat /\ \A i \in 1 .. N : caps[i] \in Nat
  BY LenProperties, ElementOfSeq
<1> HIDE DEF f, N
<1>4. f[0] = room /\ room \in 0 .. room
  BY <1>2
<1>5. 0 \in S
  BY <1>4
<1>6. ASSUME NEW n \in Nat, n \in S PROVE n + 1 \in S
  <2> SUFFICES ASSUME n + 1 <= N PROVE f[n + 1] \in 0 .. room
    OBVIOUS
  <2>1. n + 1 \in 1 .. N /\ f[n] \in 0 .. room
    BY <1>3, <1>6
  <2>2. HdrWords + Words(caps[n + 1]) \in Nat
    BY <1>3, <2>1, ParseAssumption, SMTT(30) DEF Words
  <2>3. Allocate(caps, f[n], n + 1) \in 0 .. room
    <3> DEFINE need == HdrWords + Words(caps[n + 1])
    <3>1. Allocate(caps, f[n], n + 1) = IF need <= f[n] THEN f[n] - need ELSE f[n]
      BY DEF Allocate
    <3> HIDE DEF need
    <3>2. need \in Nat
      BY <2>2 DEF need
    <3> QED
      BY <2>1, <3>1, <3>2
  <2> QED
    BY <1>2, <2>3
<1>7. \A n \in Nat : n \in S
  <2> HIDE DEF S
  <2> QED
    BY <1>5, <1>6, LeftRun!Induct
<1> QED
  BY <1>1, <1>3, <1>7

-----------------------------------------------------------------------------
(* What the actions have in common *)

\* The point the next step starts from and the one it leads to.
Stepping(s, u, t) ==
    /\ Run(agenda, s, t) /\ t.open = <<>> /\ Holds(s)
    /\ Moves(Head(agenda), s, u) /\ Run(Tail(agenda), u, t) /\ u.floor <= s.floor

LEMMA TopStep ==
    ASSUME ParseInv, agenda # <<>>
    PROVE  /\ ~error /\ Head(agenda) \in Items
           /\ \E s, u, t \in Points : Stepping(s, u, t)
<1>1. ~error
  BY DEF ParseInv, ErrorInv
<1>2. PICK s \in Points, t \in Points : Run(agenda, s, t) /\ t.open = <<>> /\ (~error => Holds(s))
  BY DEF ParseInv, AgendaInv
<1>3. Head(agenda) \in Items
  BY <1>2, HeadTailProperties DEF Run
<1>4. PICK u \in Points : Moves(Head(agenda), s, u) /\ Run(Tail(agenda), u, t)
  BY <1>2, RunNext
<1>5. u.floor <= s.floor
  BY <1>3, <1>4, MovesDown
<1> QED
  BY <1>1, <1>2, <1>3, <1>4, <1>5 DEF Stepping

\* What is known of the nodes of the blocks in progress.
LEMMA BlocksBelow ==
    ASSUME BlocksInv, NEW s \in Points, NEW u \in Points, NEW t \in Points, Stepping(s, u, t), agenda # <<>>
    PROVE  \A i \in DOMAIN Tail(agenda) : Tail(agenda)[i].op = "keep" =>
              /\ Tail(agenda)[i].n \in 1 .. u.floor
              /\ nodes[Tail(agenda)[i].n].type = "block"
<1> DEFINE rest == Tail(agenda)
<1>1. agenda \in Seq(Items) /\ Len(agenda) \in Nat /\ DOMAIN agenda = 1 .. Len(agenda)
  BY LenProperties DEF Stepping, Run
<1>2. /\ rest \in Seq(Items) /\ Len(rest) = Len(agenda) - 1 /\ Len(agenda) > 0
      /\ \A i \in 1 .. Len(rest) : rest[i] = agenda[i + 1]
  BY <1>1, HeadTailProperties, EmptySeq
<1>3. DOMAIN rest = 1 .. Len(rest)
  BY <1>2, LenProperties
<1>4. Run(rest, u, t)
  BY DEF Stepping
<1> HIDE DEF rest
<1>5. \A i \in DOMAIN rest : rest[i].op = "keep" => rest[i].n <= u.floor /\ rest[i].n \in Nat \ {0}
  BY <1>4, KeepsBelow
<1>6. u.floor \in Nat
  BY DEF Points
<1>7. ASSUME NEW i \in DOMAIN rest, rest[i].op = "keep"
      PROVE  rest[i].n \in 1 .. u.floor /\ nodes[rest[i].n].type = "block"
  <2>1. i + 1 \in DOMAIN agenda /\ rest[i] = agenda[i + 1]
    BY <1>1, <1>2, <1>3
  <2>2. nodes[agenda[i + 1].n].type = "block"
    BY <1>7, <2>1 DEF BlocksInv
  <2> QED
    BY <1>5, <1>6, <1>7, <2>1, <2>2
<1> QED
  BY <1>7 DEF rest

\* A step that is done leaves the nodes of the blocks in progress what they are.
LEMMA DoneStep ==
    ASSUME BlocksInv, NEW s \in Points, NEW u \in Points, NEW t \in Points, Stepping(s, u, t), agenda # <<>>,
           agenda' = Tail(agenda), Holds(u)', \A k \in 1 .. u.floor : nodes'[k].type = nodes[k].type
    PROVE  AgendaInv' /\ BlocksInv'
<1>1. AgendaInv'
  BY DEF AgendaInv, Stepping
<1>2. BlocksInv'
  BY BlocksBelow DEF BlocksInv
<1> QED
  BY <1>1, <1>2

LEMMA NowhereRuns == ASSUME NEW o, o = <<>> PROVE At(0, 0, o) \in Points /\ Run(<<>>, At(0, 0, o), At(0, 0, o))
<1>1. Fine(0, 0, o)
  BY DEF Fine
<1> QED
  BY <1>1, AtIs, RunNone

\* Returning NULL: a block in progress takes up where it called parse_stat.
LEMMA NullStep ==
    ASSUME ParseInv, agenda # <<>>, ReturnNull(error), lost'
    PROVE  ErrorInv' /\ TextInv' /\ NodesInv' /\ AgendaInv' /\ BlocksInv'
<1> DEFINE keeps == {i \in 2 .. Len(agenda) : agenda[i].op = "keep"}
<1>1. PICK s \in Points, u \in Points, t \in Points : Stepping(s, u, t)
  BY TopStep
<1>2. ~error /\ ~error' /\ UNCHANGED <<input, text, pos>>
  BY TopStep DEF ReturnNull
<1>3. ErrorInv'
  BY <1>2 DEF ErrorInv
<1>4. TextInv'
  BY <1>2 DEF TextInv, ParseInv
<1>5. CASE keeps = {}
  <2>1. agenda' = <<>> /\ nodes' = <<>>
    BY <1>5 DEF ReturnNull
  <2>2. NodesInv' /\ BlocksInv'
    BY <2>1 DEF NodesInv, BlocksInv
  <2> DEFINE o == <<>>
             p == At(0, 0, o)
  <2>3. p \in Points /\ Run(<<>>, p, p) /\ p.open = <<>> /\ p.len = 0 /\ p.tk = "none" /\ p.mark = "none"
    BY NowhereRuns DEF At, Pt
  <2> HIDE DEF p
  <2>4. Holds(p)'
    BY <2>1, <2>3 DEF Holds
  <2>5. AgendaInv'
    BY <2>1, <2>3, <2>4, SMTT(30) DEF AgendaInv
  <2> QED
    BY <1>3, <1>4, <2>2, <2>5
<1>6. CASE keeps # {}
  <2>1. PICK b \in keeps : agenda' = SubSeq(agenda, b + 1, Len(agenda)) /\ nodes' = SubSeq(nodes, 1, agenda[b].n)
    <3>1. \E i \in keeps : \A j \in keeps : i <= j
      <4>1. keeps \in SUBSET Nat
        OBVIOUS
      <4> HIDE DEF keeps
      <4> QED
        BY <1>6, <4>1, OpenRun!LeastNat
    <3> DEFINE b == CHOOSE i \in keeps : \A j \in keeps : i <= j
    <3>2. b \in keeps
      BY <3>1
    <3>3. agenda' = SubSeq(agenda, b + 1, Len(agenda)) /\ nodes' = SubSeq(nodes, 1, agenda[b].n)
      BY <1>2, <1>6 DEF ReturnNull, BlockGoesOn
    <3> QED
      BY <3>2, <3>3
  <2>2. /\ agenda \in Seq(Items) /\ Len(agenda) \in Nat /\ DOMAIN agenda = 1 .. Len(agenda)
        /\ b \in DOMAIN agenda /\ agenda[b].op = "keep" /\ Run(agenda, s, t) /\ t.open = <<>> /\ Holds(s)
    BY <1>1, LenProperties DEF Stepping, Run
  <2> DEFINE n == agenda[b].n
             rest == SubSeq(agenda, b + 1, Len(agenda))
  <2>3. n \in Nat \ {0} /\ n <= Len(nodes) /\ nodes[n].type = "block"
    <3>1. n <= s.floor /\ n \in Nat \ {0}
      BY <2>2, KeepsBelow
    <3>2. s.floor \in Nat /\ s.len \in Nat /\ s.floor <= s.len /\ s.len = Len(nodes)
      BY <2>2 DEF Points, Holds
    <3>3. nodes[n].type = "block"
      BY <2>2 DEF ParseInv, BlocksInv
    <3> QED
      BY <3>1, <3>2, <3>3
  <2>4. PICK v \in Points : v.len = n /\ v.tk = "none" /\ v.mark = "block" /\ Run(rest, v, t)
    BY <2>2, RunFrom
  <2>5. /\ \E T : nodes' \in Seq(T)
        /\ Len(nodes') = n /\ \A k \in 1 .. n : nodes'[k] = nodes[k]
    <3>1. PICK T : nodes \in Seq(T)
      BY DEF ParseInv, NodesInv
    <3> HIDE DEF n
    <3>2. nodes' = SubSeq(nodes, 1, n)
      BY <2>1 DEF n
    <3>3. \A k \in 1 .. n : nodes[k] \in T
      BY <2>3, <3>1, LenProperties, ElementOfSeq
    <3>4. /\ SubSeq(nodes, 1, n) \in Seq(T) /\ Len(SubSeq(nodes, 1, n)) = n
          /\ \A k \in 1 .. n : SubSeq(nodes, 1, n)[k] = nodes[k]
      <4>1. 1 \in Int /\ n \in Int
        BY <2>3
      <4> QED
        BY <2>3, <3>1, <3>3, <4>1, SubSeqProperties
    <3> QED
      BY <3>2, <3>4
  <2>6. NodesInv'
    <3>1. \A k \in 1 .. n : NodeOK(nodes[k])
      BY <2>3 DEF ParseInv, NodesInv
    <3> QED
      BY <2>5, <3>1 DEF NodesInv
  <2>7. Holds(v)'
    <3>1. nodes'[Len(nodes')].type = "block"
      BY <2>3, <2>5
    <3> QED
      BY <2>4, <2>5, <3>1 DEF Holds
  <2>8. AgendaInv'
    BY <2>1, <2>2, <2>4, <2>7 DEF AgendaInv
  <2>9. BlocksInv'
    <3>1. /\ Len(rest) = Len(agenda) - b /\ rest \in Seq(Items)
          /\ \A i \in 1 .. Len(agenda) - b : rest[i] = agenda[i + b]
      <4>1. \A k \in b + 1 .. Len(agenda) : agenda[k] \in Items
        BY <2>2, ElementOfSeq
      <4>2. b + 1 \in Int /\ Len(agenda) \in Int /\ b \in Nat /\ b <= Len(agenda)
        BY <2>2
      <4> QED
        BY <4>1, <4>2, SubSeqProperties
    <3>2. DOMAIN rest = 1 .. Len(agenda) - b
      BY <3>1, LenProperties
    <3> HIDE DEF rest
    <3>3. \A i \in DOMAIN rest : rest[i].op = "keep" => rest[i].n <= v.floor /\ rest[i].n \in Nat \ {0}
      BY <2>4, KeepsBelow
    <3>4. v.floor \in Nat /\ v.floor <= n
      BY <2>4 DEF Points
    <3>5. ASSUME NEW i \in DOMAIN rest, rest[i].op = "keep" PROVE nodes'[rest[i].n].type = "block"
      <4>1. i + b \in DOMAIN agenda /\ rest[i] = agenda[i + b]
        BY <2>2, <3>1, <3>2
      <4>2. nodes[rest[i].n].type = "block"
        BY <3>5, <4>1 DEF ParseInv, BlocksInv
      <4>3. rest[i].n \in 1 .. n
        BY <2>3, <3>3, <3>4, <3>5
      <4> QED
        BY <2>5, <4>2, <4>3
    <3> QED
      BY <2>1, <3>5 DEF BlocksInv, rest
  <2> QED
    BY <1>3, <1>4, <2>6, <2>8, <2>9, SMTT(30)
<1> QED
  BY <1>5, <1>6

-----------------------------------------------------------------------------
(* Reading a token *)

LEMMA TextGoesOn ==
    ASSUME TextInv, ps_advance, CURTKN # "eos"
    PROVE  TextInv' /\ pos' = pos + 1 /\ pos \in Nat \ {0} /\ \A i \in 1 .. pos : text'[i] = text[i]
<1>1. PICK T : text \in Seq(T)
  BY DEF TextInv
<1>2. pos \in 1 .. Len(text) /\ Len(text) \in Nat /\ pos' = pos + 1 /\ \A i \in 1 .. pos - 1 : text[i] # "eos"
  BY <1>1, LenProperties DEF TextInv, ps_advance
<1>3. \A i \in 1 .. pos : text[i] # "eos"
  BY <1>2 DEF CURTKN
<1>4. CASE pos < Len(text)
  <2>1. text' = text
    BY <1>4 DEF ps_advance
  <2> QED
    BY <1>1, <1>2, <1>3, <1>4, <2>1 DEF TextInv
<1>5. CASE ~(pos < Len(text))
  <2>1. PICK tk : text' = Append(text, tk)
    BY <1>5 DEF ps_advance
  <2>2. text \in Seq(T \cup {tk})
    BY <1>1
  <2>3. /\ text' \in Seq(T \cup {tk}) /\ Len(text') = Len(text) + 1
        /\ \A i \in 1 .. Len(text) : text'[i] = text[i]
    BY <2>1, <2>2, AppendProperties
  <2>4. \A i \in 1 .. pos : text'[i] = text[i]
    BY <1>2, <2>3
  <2>5. pos' \in 1 .. Len(text') /\ pos' - 1 = pos
    BY <1>2, <1>5, <2>3
  <2>6. TextInv'
    BY <1>3, <2>3, <2>4, <2>5 DEF TextInv
  <2> QED
    BY <1>2, <2>4, <2>6
<1> QED
  BY <1>4, <1>5

LEMMA OpensOn ==
    ASSUME TextInv, ps_advance, CURTKN # "eos", Balanced(text, pos - 1),
           CURTKN \in Closers => Matches(Opened(text, pos - 1), CURTKN)
    PROVE  Balanced(text, pos - 1)' /\ Opened(text, pos - 1)' = Turn(Opened(text, pos - 1), CURTKN)
<1>1. pos' = pos + 1 /\ pos \in Nat \ {0} /\ \A i \in 1 .. pos : text'[i] = text[i]
  BY TextGoesOn
<1> DEFINE n == pos - 1
           t1 == text
           t2 == text'
<1>2. n \in Nat /\ n + 1 = pos /\ pos' - 1 = n + 1 /\ \A i \in 1 .. n + 1 : t1[i] = t2[i]
  BY <1>1
<1>3. Balanced(t1, n) /\ (t1[n + 1] \in Closers => Matches(Opened(t1, n), t1[n + 1]))
  BY <1>2 DEF CURTKN
<1>4. CURTKN = t1[n + 1]
  BY <1>2 DEF CURTKN
<1> HIDE DEF n, t1, t2
<1>5. Balanced(t1, n + 1)
  BY <1>2, <1>3, BalancedMore
<1>6. n + 1 \in Nat /\ n + 1 \in 0 .. n + 1
  BY <1>2
<1>7. Balanced(t2, n + 1)
  BY <1>2, <1>5, <1>6, BalancedSame
<1>8. Opened(t1, n + 1) = Opened(t2, n + 1)
  BY <1>2, <1>6, OpenedSame
<1>9. Opened(t1, n + 1) = Turn(Opened(t1, n), t1[n + 1])
  BY <1>2, OpenedIs
<1> QED
  BY <1>2, <1>4, <1>7, <1>8, <1>9 DEF n, t1, t2

-----------------------------------------------------------------------------
(* Each action keeps the invariant *)

ShapeInv == TextInv /\ NodesInv /\ AgendaInv /\ BlocksInv

\* What is put into the agenda holds no block but the one of its own node.
LEMMA StatsKeep ==
    ASSUME NEW tk, NEW l, NEW i \in DOMAIN parse_stats(tk, l), parse_stats(tk, l)[i].op = "keep"
    PROVE  parse_stats(tk, l)[i].n = l
<1>1. CASE is_block_end(tk)
  <2>1. parse_stats(tk, l) = <<>>
    BY <1>1 DEF parse_stats, is_block_end
  <2> QED
    BY <2>1
<1>2. CASE tk = ";"
  <2>1. parse_stats(tk, l) = <<Advance, Call("stats")>>
    BY <1>2 DEF parse_stats, is_block_end
  <2> QED
    BY <2>1 DEF Advance, Call, Item
<1>3. CASE tk = "return"
  <2> DEFINE m == Match(";")
  <2>1. parse_stats(tk, l) = <<Call("retstat"), Push, m>>
    BY <1>3 DEF parse_stats, is_block_end
  <2>2. m.op = "match"
    BY DEF Match, Item
  <2> HIDE DEF m
  <2> QED
    BY <2>1, <2>2 DEF Call, Push, Item
<1>4. CASE ~is_block_end(tk) /\ tk \notin {";", "return"}
  <2>1. parse_stats(tk, l) = <<Call("stat"), Keep(l), Call("stats")>>
    BY <1>4 DEF parse_stats
  <2> QED
    BY <2>1 DEF Call, Keep, Item
<1> QED
  BY <1>1, <1>2, <1>3, <1>4

LEMMA EnterStep == ASSUME ParseInv, Enter PROVE ShapeInv'
<1> DEFINE item == Head(agenda)
           a == Steps(item)
           b == Tail(agenda)
<1>1. agenda # <<>> /\ item.op = "call" /\ agenda' = a \o b
  BY DEF Enter, Doing
<1>2. ~error /\ ~error' /\ UNCHANGED <<text, pos, nodes, lost>> /\ item \in Items
  BY <1>1, TopStep DEF Enter, Goes
<1>3. PICK s \in Points, u \in Points, t \in Points : Stepping(s, u, t)
  BY <1>1, TopStep
<1>4. /\ Calls(item, s, u) /\ s.len = Len(nodes) /\ (s.tk # "none" => CURTKN = s.tk)
      /\ Run(b, u, t) /\ t.open = <<>> /\ Holds(s)
  BY <1>1, <1>3 DEF Stepping, Moves, Holds
<1>5. PICK p \in Points : Run(a, p, u) /\ Follows(p, s) /\ (item.arg # "stats" => p.floor = s.floor)
  BY <1>1, <1>2, <1>4, CallRuns
<1> HIDE DEF item, a, b
<1>6. AgendaInv'
  <2>1. Holds(p)
    BY <1>4, <1>5 DEF Holds, Follows
  <2>2. Holds(p)'
    BY <1>2, <2>1 DEF Holds, CURTKN
  <2>3. Run(agenda', p, t)
    BY <1>1, <1>4, <1>5, RunCat
  <2> QED
    BY <1>4, <2>2, <2>3 DEF AgendaInv
<1>7. BlocksInv'
  <2>1. /\ a \in Seq(Items) /\ b \in Seq(Items) /\ Len(a) \in Nat /\ Len(b) \in Nat
        /\ DOMAIN a = 1 .. Len(a) /\ DOMAIN b = 1 .. Len(b)
    BY <1>4, <1>5, LenProperties DEF Run
  <2>2. /\ agenda' \in Seq(Items) /\ Len(agenda') = Len(a) + Len(b)
        /\ \A i \in 1 .. Len(agenda') : agenda'[i] = IF i <= Len(a) THEN a[i] ELSE b[i - Len(a)]
    BY <1>1, <2>1, ConcatProperties
  <2>3. DOMAIN agenda' = 1 .. Len(agenda')
    BY <2>2, LenProperties
  <2>4. ASSUME NEW i \in DOMAIN a, a[i].op = "keep" PROVE nodes[a[i].n].type = "block"
    <3>1. a[i].n <= p.floor /\ u.floor < a[i].n /\ a[i].n \in Nat
      BY <1>5, <2>4, KeepsBelow
    <3>2. u.floor = s.floor /\ s.floor \in Nat /\ p.floor \in Nat
      BY <1>4 DEF Calls, Pt, Points
    <3>3. item.arg = "stats"
      BY <1>5, <3>1, <3>2
    <3>4. s.mark = "block"
      BY <1>4, <3>3 DEF Calls
    <3>5. a = parse_stats(CURTKN, Len(nodes))
      BY <3>3 DEF a, Steps
    <3>6. a[i].n = Len(nodes)
      BY <2>4, <3>5, StatsKeep
    <3> QED
      BY <1>4, <3>4, <3>6 DEF Holds
  <2>5. \A i \in DOMAIN b : b[i].op = "keep" => nodes[b[i].n].type = "block"
    BY <1>1, <1>3, BlocksBelow DEF b, ParseInv
  <2>6. ASSUME NEW i \in DOMAIN agenda', agenda'[i].op = "keep" PROVE nodes'[agenda'[i].n].type = "block"
    <3>1. CASE i <= Len(a)
      <4>1. i \in DOMAIN a /\ agenda'[i] = a[i]
        BY <2>1, <2>2, <2>3, <3>1
      <4> QED
        BY <1>2, <2>4, <2>6, <4>1
    <3>2. CASE ~(i <= Len(a))
      <4>1. i - Len(a) \in DOMAIN b /\ agenda'[i] = b[i - Len(a)]
        BY <2>1, <2>2, <2>3, <3>2
      <4> QED
        BY <1>2, <2>5, <2>6, <4>1
    <3> QED
      BY <3>1, <3>2
  <2> QED
    BY <2>6 DEF BlocksInv
<1>8. TextInv' /\ NodesInv'
  BY <1>2 DEF ParseInv, TextInv, NodesInv
<1> QED
  BY <1>6, <1>7, <1>8 DEF ShapeInv

\* What reading tk, which is the current token, makes of the text.
LEMMA ReadToken ==
    ASSUME TextInv, ps_advance, NEW tk, CURTKN = tk, tk # "eos", NEW open, lost' = lost,
           ~lost => Balanced(text, pos - 1) /\ open = Opened(text, pos - 1),
           tk \in Closers => Matches(open, tk)
    PROVE  /\ TextInv'
           /\ pos' = pos + 1 /\ pos \in Nat \ {0} /\ text'[pos' - 1] = tk
           /\ ~lost' => Balanced(text, pos - 1)' /\ Turn(open, tk) = Opened(text, pos - 1)'
<1>1. TextInv' /\ pos' = pos + 1 /\ pos \in Nat \ {0} /\ \A i \in 1 .. pos : text'[i] = text[i]
  BY TextGoesOn
<1>2. text'[pos' - 1] = tk
  <2>1. pos' - 1 = pos /\ pos \in 1 .. pos
    BY <1>1
  <2>2. text'[pos] = text[pos]
    BY <1>1, <2>1
  <2> QED
    BY <2>1, <2>2 DEF CURTKN
<1>3. ASSUME ~lost'
      PROVE  Balanced(text, pos - 1)' /\ Turn(open, tk) = Opened(text, pos - 1)'
  <2>1. Balanced(text, pos - 1) /\ open = Opened(text, pos - 1)
    BY <1>3
  <2>2. CURTKN # "eos" /\ (CURTKN \in Closers => Matches(Opened(text, pos - 1), CURTKN))
    BY <2>1
  <2>3. Balanced(text, pos - 1)' /\ Opened(text, pos - 1)' = Turn(Opened(text, pos - 1), CURTKN)
    BY <2>1, <2>2, OpensOn
  <2> QED
    BY <2>1, <2>3
<1> QED
  BY <1>1, <1>2, <1>3

\* The stack keeps its lower nodes and has one more on them.
LEMMA StackOn ==
    ASSUME NodesInv, NEW m \in Nat, m <= Len(nodes), NEW v, NodeOK(v), nodes' = Append(SubSeq(nodes, 1, m), v)
    PROVE  /\ NodesInv' /\ Len(nodes') = m + 1 /\ nodes'[m + 1] = v
           /\ \A k \in 1 .. m : nodes'[k] = nodes[k]
<1>1. PICK T : nodes \in Seq(T)
  BY DEF NodesInv
<1>2. Len(nodes) \in Nat /\ \A k \in 1 .. m : nodes[k] \in T /\ NodeOK(nodes[k])
  BY <1>1, LenProperties, ElementOfSeq DEF NodesInv
<1> DEFINE low == SubSeq(nodes, 1, m)
           U == T \cup {v}
<1>3. low \in Seq(U) /\ Len(low) = m /\ \A k \in 1 .. m : low[k] = nodes[k]
  <2>1. \A k \in 1 .. m : nodes[k] \in U
    BY <1>2
  <2>2. 1 \in Int /\ m \in Int
    OBVIOUS
  <2> HIDE DEF U
  <2> QED
    BY <2>1, <2>2, SubSeqProperties
<1>4. v \in U
  OBVIOUS
<1> HIDE DEF low, U
<1>5. nodes' = Append(low, v)
  BY DEF low
<1>6. /\ nodes' \in Seq(U) /\ Len(nodes') = m + 1 /\ nodes'[m + 1] = v
      /\ \A k \in 1 .. m : nodes'[k] = low[k]
  BY <1>3, <1>4, <1>5, AppendProperties
<1>7. \A k \in 1 .. Len(nodes') : NodeOK(nodes'[k])
  <2> TAKE k \in 1 .. Len(nodes')
  <2>1. CASE k = m + 1
    BY <1>6, <2>1
  <2>2. CASE k # m + 1
    <3>1. k \in 1 .. m
      BY <1>6, <2>2
    <3>2. nodes'[k] = nodes[k] /\ NodeOK(nodes[k])
      BY <1>2, <1>3, <1>6, <3>1
    <3> QED
      BY <3>2
  <2> QED
    BY <2>1, <2>2
<1>8. NodesInv'
  BY <1>6, <1>7 DEF NodesInv
<1> QED
  BY <1>3, <1>6, <1>8

LEMMA NodeIsOK == ASSUME NEW type, NEW at, NEW cap \in Nat PROVE NodeOK(Node(type, at, cap)) /\ Node(type, at, cap).type = type
<1> DEFINE T == {type, at, 0, FALSE}
           v == Node(type, at, cap)
<1>1. <<>> \in Seq(T)
  OBVIOUS
<1>2. type \in T /\ at \in T /\ 0 \in T /\ FALSE \in T
  OBVIOUS
<1> HIDE DEF T
<1>3. v \in [type : T, at : T, num : T, kids : Seq(T), cap : Nat, paren : T] /\ v.type = type
  BY <1>1, <1>2 DEF Node
<1> QED
  BY <1>3 DEF NodeOK

LEMMA AdvanceStep == ASSUME ParseInv, DoAdvance PROVE ShapeInv'
<1> DEFINE item == Head(agenda)
<1>1. agenda # <<>> /\ item.op = "advance" /\ agenda' = Tail(agenda) /\ ps_advance /\ UNCHANGED <<nodes, lost>>
  BY DEF DoAdvance, Doing, Done, Goes
<1>2. PICK s \in Points, u \in Points, t \in Points : Stepping(s, u, t)
  BY <1>1, TopStep
<1> HIDE DEF item
<1>3. /\ Reads(s.tk, s, u) /\ u.len = s.len /\ u.floor = s.floor /\ u.mark \in {"none", s.mark} \ {"token"}
      /\ Holds(s)
  BY <1>1, <1>2 DEF Stepping, Moves, item
<1>4. /\ s.tk # "eos" /\ CURTKN = s.tk /\ u.tk = "none" /\ u.open = Turn(s.open, s.tk)
      /\ s.tk \in Closers => Matches(s.open, s.tk)
      /\ ~lost => Balanced(text, pos - 1) /\ s.open = Opened(text, pos - 1)
      /\ s.len = Len(nodes)
      /\ s.mark = "block" => nodes[Len(nodes)].type = "block"
  BY <1>3 DEF Reads, Holds
<1>5. /\ TextInv'
      /\ ~lost' => Balanced(text, pos - 1)' /\ u.open = Opened(text, pos - 1)'
  BY <1>1, <1>4, ReadToken DEF ParseInv
<1>6. Holds(u)'
  BY <1>1, <1>3, <1>4, <1>5 DEF Holds
<1>7. AgendaInv' /\ BlocksInv'
  BY <1>1, <1>2, <1>6, DoneStep DEF ParseInv
<1>8. NodesInv'
  BY <1>1 DEF ParseInv, NodesInv
<1> QED
  BY <1>5, <1>7, <1>8 DEF ShapeInv

LEMMA MatchStep == ASSUME ParseInv, ps_match PROVE ShapeInv'
<1> DEFINE item == Head(agenda)
<1>1. /\ agenda # <<>> /\ item.op = "match" /\ agenda' = Tail(agenda) /\ UNCHANGED <<nodes, lost>>
      /\ IF CURTKN = item.arg THEN ps_advance ELSE UNCHANGED <<text, pos>>
  BY DEF ps_match, Doing, Done, Goes
<1>2. PICK s \in Points, u \in Points, t \in Points : Stepping(s, u, t)
  BY <1>1, TopStep
<1> DEFINE tk == item.arg
<1> HIDE DEF item
<1>3. Neutral(tk) /\ u = Pt(s.len, s.floor, "none", "none", s.open) /\ Holds(s)
  BY <1>1, <1>2 DEF Stepping, Moves, item
<1> HIDE DEF tk
<1>4. u.len = s.len /\ u.tk = "none" /\ u.mark = "none" /\ u.open = s.open
  BY <1>3 DEF Pt
<1>5. /\ ~lost => Balanced(text, pos - 1) /\ s.open = Opened(text, pos - 1)
      /\ s.len = Len(nodes)
  BY <1>3 DEF Holds
<1>6. /\ TextInv'
      /\ ~lost' => Balanced(text, pos - 1)' /\ u.open = Opened(text, pos - 1)'
  <2>1. CASE CURTKN = tk
    <3>1. tk # "eos" /\ tk \notin Closers /\ Turn(s.open, tk) = s.open
      BY <1>3, NeutralTurn
    <3>2. ps_advance
      BY <1>1, <2>1 DEF tk
    <3> QED
      BY <1>1, <1>4, <1>5, <2>1, <3>1, <3>2, ReadToken DEF ParseInv
  <2>2. CASE CURTKN # tk
    <3>1. UNCHANGED <<text, pos>>
      BY <1>1, <2>2 DEF tk
    <3> QED
      BY <1>1, <1>4, <1>5, <3>1 DEF ParseInv, TextInv
  <2> QED
    BY <2>1, <2>2
<1>7. Holds(u)'
  BY <1>1, <1>4, <1>5, <1>6 DEF Holds
<1>8. AgendaInv' /\ BlocksInv'
  BY <1>1, <1>2, <1>7, DoneStep DEF ParseInv
<1>9. NodesInv'
  BY <1>1 DEF ParseInv, NodesInv
<1> QED
  BY <1>6, <1>8, <1>9 DEF ShapeInv

LEMMA ExpectStep == ASSUME ParseInv, ps_expect, Doing("expect") PROVE ShapeInv'
<1> DEFINE item == Head(agenda)
<1>1. /\ agenda # <<>> /\ item.op = "expect" /\ agenda' = Tail(agenda) /\ ps_advance /\ lost' = lost
      /\ CURTKN = item.arg /\ nodes' = nodes
  BY DEF ps_expect, Doing, Done, Goes
<1>2. PICK s \in Points, u \in Points, t \in Points : Stepping(s, u, t)
  BY <1>1, TopStep
<1> DEFINE tk == item.arg
<1> HIDE DEF item
<1>3. Reads(tk, s, u) /\ u.len = s.len /\ u.floor = s.floor /\ u.mark = "none" /\ Holds(s)
  BY <1>1, <1>2 DEF Stepping, Moves, item
<1> HIDE DEF tk
<1>4. /\ tk # "eos" /\ u.tk = "none" /\ u.open = Turn(s.open, tk)
      /\ tk \in Closers => Matches(s.open, tk)
      /\ ~lost => Balanced(text, pos - 1) /\ s.open = Opened(text, pos - 1)
      /\ s.len = Len(nodes)
  BY <1>3 DEF Reads, Holds
<1>5. CURTKN = tk
  BY <1>1 DEF tk
<1>6. /\ TextInv'
      /\ ~lost' => Balanced(text, pos - 1)' /\ u.open = Opened(text, pos - 1)'
  BY <1>1, <1>4, <1>5, ReadToken DEF ParseInv
<1>7. Holds(u)'
  BY <1>1, <1>3, <1>4, <1>6 DEF Holds
<1>8. AgendaInv' /\ BlocksInv'
  BY <1>1, <1>2, <1>7, DoneStep DEF ParseInv
<1>9. NodesInv'
  BY <1>1 DEF ParseInv, NodesInv
<1> QED
  BY <1>6, <1>8, <1>9 DEF ShapeInv

LEMMA TakeStep == ASSUME ParseInv, ps_expect, Doing("take") PROVE ShapeInv'
<1> DEFINE item == Head(agenda)
           v == Node("token", pos, 0)
<1>1. /\ agenda # <<>> /\ item.op = "take" /\ agenda' = Tail(agenda) /\ ps_advance /\ lost' = lost
      /\ CURTKN = item.arg /\ nodes' = Append(nodes, v)
  BY DEF ps_expect, Doing, Done, Goes
<1>2. PICK s \in Points, u \in Points, t \in Points : Stepping(s, u, t)
  BY <1>1, TopStep
<1> DEFINE tk == item.arg
<1> HIDE DEF item
<1>3. /\ Neutral(tk) /\ u.len = s.len + 1 /\ u.floor = s.floor /\ u.tk = "none" /\ u.mark \in {"none", "token"}
      /\ u.open = s.open /\ Holds(s)
  BY <1>1, <1>2 DEF Stepping, Moves, item
<1> HIDE DEF tk
<1>4. /\ ~lost => Balanced(text, pos - 1) /\ s.open = Opened(text, pos - 1)
      /\ s.len = Len(nodes) /\ s.floor \in Nat /\ s.floor <= s.len /\ s.len \in Nat
  BY <1>3 DEF Holds, Points
<1>5. CURTKN = tk /\ tk # "eos" /\ tk \notin Closers /\ Turn(s.open, tk) = s.open
  BY <1>1, <1>3, NeutralTurn DEF tk
<1>6. /\ TextInv' /\ pos' = pos + 1 /\ pos \in Nat \ {0} /\ text'[pos' - 1] = tk
      /\ ~lost' => Balanced(text, pos - 1)' /\ u.open = Opened(text, pos - 1)'
  BY <1>1, <1>3, <1>4, <1>5, ReadToken DEF ParseInv
<1>7. NodeOK(v) /\ v.at = pos
  <2>1. v.at = pos
    BY DEF Node
  <2> QED
    BY <2>1, NodeIsOK
<1> HIDE DEF v
<1>8. /\ NodesInv' /\ Len(nodes') = Len(nodes) + 1 /\ nodes'[Len(nodes) + 1] = v
      /\ \A k \in 1 .. Len(nodes) : nodes'[k] = nodes[k]
  <2>1. PICK T : nodes \in Seq(T)
    BY DEF ParseInv, NodesInv
  <2>2. nodes = SubSeq(nodes, 1, Len(nodes))
    <3>1. \A i \in 1 .. Len(nodes) : nodes[i] \in T
      BY <2>1, ElementOfSeq
    <3>2. /\ SubSeq(nodes, 1, Len(nodes)) \in Seq(T) /\ Len(SubSeq(nodes, 1, Len(nodes))) = Len(nodes)
          /\ \A i \in 1 .. Len(nodes) : SubSeq(nodes, 1, Len(nodes))[i] = nodes[i]
      <4>1. 1 \in Int /\ Len(nodes) \in Int
        BY <1>4
      <4> QED
        BY <1>4, <3>1, <4>1, SubSeqProperties
    <3> QED
      BY <2>1, <3>2, SeqEqual
  <2>3. Len(nodes) \in Nat /\ Len(nodes) <= Len(nodes) /\ nodes' = Append(SubSeq(nodes, 1, Len(nodes)), v)
    BY <1>1, <1>4, <2>2
  <2> QED
    BY <1>7, <2>3, StackOn DEF ParseInv
<1>9. Holds(u)'
  <2>1. u.len = Len(nodes') /\ nodes'[Len(nodes')].at = pos' - 1 /\ pos' > 1 /\ Neutral(text'[pos' - 1])
    <3>1. u.len = Len(nodes') /\ nodes'[Len(nodes')] = v
      BY <1>3, <1>4, <1>8
    <3>2. pos' - 1 = pos /\ pos' > 1 /\ text'[pos' - 1] = tk
      BY <1>6
    <3> QED
      BY <1>3, <1>7, <3>1, <3>2
  <2> QED
    BY <1>3, <1>6, <2>1 DEF Holds
<1>10. AgendaInv' /\ BlocksInv'
  <2>1. \A k \in 1 .. u.floor : nodes'[k].type = nodes[k].type
    BY <1>3, <1>4, <1>8
  <2> QED
    BY <1>1, <1>2, <1>9, <2>1, DoneStep DEF ParseInv
<1> QED
  BY <1>6, <1>8, <1>10 DEF ShapeInv

\* The token that is given back is no bracket.
LEMMA PutBackStep == ASSUME ParseInv, RestorePos PROVE ShapeInv'
<1> DEFINE item == Head(agenda)
<1>1. /\ agenda # <<>> /\ item.op = "putback" /\ agenda' = Tail(agenda) /\ UNCHANGED <<text, lost>>
      /\ pos' = Last(nodes).at /\ nodes' = Front(nodes)
  BY DEF RestorePos, Doing, Done, Goes
<1>2. PICK s \in Points, u \in Points, t \in Points : Stepping(s, u, t)
  BY <1>1, TopStep
<1> HIDE DEF item
<1>3. s.mark = "token" /\ s.floor < s.len /\ u = Pt(s.len - 1, s.floor, "none", "none", s.open) /\ Holds(s)
  BY <1>1, <1>2 DEF Stepping, Moves, item
<1>4. /\ u.len = s.len - 1 /\ u.tk = "none" /\ u.mark = "none" /\ u.open = s.open /\ u.floor = s.floor
      /\ s.len = Len(nodes) /\ s.floor \in Nat /\ s.len \in Nat
  BY <1>3 DEF Pt, Holds, Points
<1>5. /\ pos > 1 /\ Neutral(text[pos - 1]) /\ nodes[Len(nodes)].at = pos - 1
      /\ ~lost => Balanced(text, pos - 1) /\ s.open = Opened(text, pos - 1)
  BY <1>3 DEF Holds
<1>6. pos' = pos - 1
  BY <1>1, <1>5 DEF Last
<1>7. pos \in Nat /\ pos - 2 \in Nat /\ (pos - 2) + 1 = pos - 1 /\ pos' - 1 = pos - 2
  BY <1>5, <1>6 DEF ParseInv, TextInv
<1>8. TextInv'
  BY <1>1, <1>5, <1>6 DEF ParseInv, TextInv
<1>9. ~lost' => Balanced(text, pos - 1)' /\ u.open = Opened(text, pos - 1)'
  <2> SUFFICES ASSUME ~lost' PROVE Balanced(text, pos' - 1) /\ s.open = Opened(text, pos' - 1)
    BY <1>1, <1>4
  <2> DEFINE n == pos - 2
  <2>1. n \in Nat /\ n + 1 = pos - 1 /\ pos' - 1 = n
    BY <1>7
  <2>2. Balanced(text, n + 1) /\ s.open = Opened(text, n + 1) /\ Neutral(text[n + 1])
    BY <1>1, <1>5, <2>1
  <2> HIDE DEF n
  <2>3. Balanced(text, n)
    BY <2>1, <2>2, BalancedLess
  <2>4. Opened(text, n + 1) = Turn(Opened(text, n), text[n + 1])
    BY <2>1, OpenedIs
  <2> QED
    BY <2>1, <2>2, <2>3, <2>4, NeutralTurn
<1>10. /\ \E T : nodes' \in Seq(T)
       /\ Len(nodes') = Len(nodes) - 1 /\ \A k \in 1 .. Len(nodes) - 1 : nodes'[k] = nodes[k]
  <2>1. PICK T : nodes \in Seq(T)
    BY DEF ParseInv, NodesInv
  <2>2. \A k \in 1 .. Len(nodes) - 1 : nodes[k] \in T
    BY <1>4, <2>1, ElementOfSeq
  <2>3. nodes' = SubSeq(nodes, 1, Len(nodes) - 1)
    BY <1>1 DEF Front
  <2> DEFINE n == Len(nodes) - 1
  <2>4. 1 \in Int /\ n \in Int /\ n \in Nat
    BY <1>3, <1>4
  <2>6. nodes' = SubSeq(nodes, 1, n) /\ \A k \in 1 .. n : nodes[k] \in T
    BY <2>2, <2>3
  <2> HIDE DEF n
  <2>5. nodes' \in Seq(T) /\ Len(nodes') = n /\ \A k \in 1 .. n : nodes'[k] = nodes[k]
    <3>1. /\ SubSeq(nodes, 1, n) \in Seq(T) /\ Len(SubSeq(nodes, 1, n)) = n
          /\ \A k \in 1 .. n : SubSeq(nodes, 1, n)[k] = nodes[k]
      BY <2>4, <2>6, SubSeqProperties
    <3> QED
      BY <2>6, <3>1
  <2> QED
    BY <2>5 DEF n
<1>11. NodesInv'
  <2>1. \A k \in 1 .. Len(nodes') : NodeOK(nodes'[k])
    BY <1>4, <1>10 DEF ParseInv, NodesInv
  <2> QED
    BY <1>10, <2>1 DEF NodesInv
<1>12. Holds(u)'
  BY <1>4, <1>9, <1>10 DEF Holds
<1>13. AgendaInv' /\ BlocksInv'
  <2>1. \A k \in 1 .. u.floor : nodes'[k].type = nodes[k].type
    BY <1>3, <1>4, <1>10
  <2> QED
    BY <1>1, <1>2, <1>12, <2>1, DoneStep DEF ParseInv
<1> QED
  BY <1>8, <1>11, <1>13 DEF ShapeInv

\* A syntax error leaves nothing behind but the text.
LEMMA RejectStep == ASSUME ParseInv, SyntaxError PROVE ShapeInv'
<1>1. agenda' = <<>> /\ nodes' = <<>> /\ error' /\ UNCHANGED <<text, pos>>
  BY NullOnError DEF SyntaxError, ReturnNull
<1>2. TextInv'
  BY <1>1 DEF ParseInv, TextInv
<1>3. NodesInv' /\ BlocksInv'
  BY <1>1 DEF NodesInv, BlocksInv
<1>4. AgendaInv'
  <2> DEFINE o == <<>>
             p == At(0, 0, o)
  <2>1. p \in Points /\ Run(<<>>, p, p) /\ p.open = <<>>
    BY NowhereRuns DEF At, Pt
  <2> HIDE DEF p
  <2> QED
    BY <1>1, <2>1 DEF AgendaInv
<1> QED
  BY <1>2, <1>3, <1>4 DEF ShapeInv

LEMMA AllocStep == ASSUME ParseInv, mclast_alloc PROVE ShapeInv' /\ RoomInv'
<1> DEFINE item == Head(agenda)
<1>1. /\ agenda # <<>> /\ item.op = "reserve" /\ agenda' = Tail(agenda)
      /\ room' = Left(item.caps) /\ UNCHANGED <<input, text, pos, nodes, lost>>
  BY DEF mclast_alloc, Doing, Done
<1>2. PICK s \in Points, u \in Points, t \in Points : Stepping(s, u, t)
  BY <1>1, TopStep
<1>3. item.caps \in Seq(Nat)
  BY <1>1, TopStep DEF Items
<1> HIDE DEF item
<1>4. u = s /\ Holds(s)
  BY <1>1, <1>2 DEF Stepping, Moves, item
<1>5. Holds(u)'
  BY <1>1, <1>4 DEF Holds, CURTKN
<1>6. AgendaInv' /\ BlocksInv'
  BY <1>1, <1>2, <1>5, DoneStep DEF ParseInv
<1>7. TextInv' /\ NodesInv'
  BY <1>1 DEF ParseInv, TextInv, NodesInv
<1>8. RoomInv'
  <2>1. room \in Nat /\ input.room \in Nat /\ room <= input.room /\ input \in Inputs
    BY ParseAssumption DEF ParseInv, RoomInv
  <2>2. room' \in 0 .. room
    BY <1>1, <1>3, <2>1, LeftOfRoom
  <2> QED
    BY <1>1, <2>1, <2>2 DEF RoomInv
<1> QED
  BY <1>6, <1>7, <1>8 DEF ShapeInv

LEMMA FailsStep == ASSUME ParseInv, AllocFails PROVE ShapeInv' /\ RoomInv'
<1>1. /\ agenda # <<>> /\ room' = Left(Head(agenda).caps) /\ lost' /\ ReturnNull(error) /\ input' = input
  BY DEF AllocFails, Doing, ReturnNull
<1>2. Head(agenda).caps \in Seq(Nat)
  BY <1>1, TopStep DEF Items
<1>3. ShapeInv'
  BY <1>1, NullStep DEF ShapeInv
<1>4. RoomInv'
  <2>1. room \in Nat /\ input.room \in Nat /\ room <= input.room /\ input \in Inputs
    BY ParseAssumption DEF ParseInv, RoomInv
  <2>2. room' \in 0 .. room
    BY <1>1, <1>2, <2>1, LeftOfRoom
  <2> QED
    BY <1>1, <2>1, <2>2 DEF RoomInv
<1> QED
  BY <1>3, <1>4

\* Filling a node in the place of the last ones of the stack.
LEMMA FillStep ==
    ASSUME ParseInv, agenda # <<>>, NEW s \in Points, NEW u \in Points, NEW t \in Points, Stepping(s, u, t),
           NEW m \in Nat, m < Len(nodes) + 1, NEW dst, NodeOK(dst), NEW values, Len(values) \in Nat,
           \A i \in 1 .. Len(values) : NodeOK(values[i]),
           Fill(SubSeq(nodes, 1, m), dst, values),
           u.len = m + 1, u.tk \in {"none", s.tk}, u.open = s.open, u.floor <= m,
           u.mark = "none" \/ (u.mark = "block" /\ dst.type = "block")
    PROVE  ShapeInv' /\ RoomInv'
<1> DEFINE f == Adopt(dst, values)
<1>1. room \in Nat /\ input.room \in Nat /\ room <= input.room /\ input \in Inputs
  BY ParseAssumption DEF ParseInv, RoomInv
<1>2. Filled(f, dst.type, room)
  BY <1>1, AdoptFills
<1> HIDE DEF f
<1>3. NodeOK(f.node) /\ f.node.type = dst.type /\ f.left \in 0 .. room
  BY <1>2 DEF Filled
<1>4. room' = f.left /\ input' = input
  BY DEF Fill, f, ReturnNull
<1>5. RoomInv'
  BY <1>1, <1>3, <1>4 DEF RoomInv
<1>6. CASE ~f.ok
  <2>1. lost' /\ ReturnNull(error)
    BY <1>6 DEF Fill, f
  <2> QED
    BY <1>5, <2>1, NullStep DEF ShapeInv
<1>7. CASE f.ok
  <2>1. /\ nodes' = Append(SubSeq(nodes, 1, m), f.node) /\ agenda' = Tail(agenda)
        /\ UNCHANGED <<text, pos, lost>>
    BY <1>7 DEF Fill, f, Done
  <2>2. m <= Len(nodes)
    <3>1. Len(nodes) \in Nat
      BY LenProperties DEF ParseInv, NodesInv
    <3> QED
      BY <3>1
  <2>3. /\ NodesInv' /\ Len(nodes') = m + 1 /\ nodes'[m + 1] = f.node
        /\ \A k \in 1 .. m : nodes'[k] = nodes[k]
    BY <1>3, <2>1, <2>2, StackOn DEF ParseInv
  <2>4. Holds(s)
    BY DEF Stepping
  <2>5. Holds(u)'
    <3>1. u.len = Len(nodes')
      BY <2>3
    <3>2. u.tk # "none" => CURTKN' = u.tk
      BY <2>1, <2>4 DEF Holds, CURTKN
    <3>3. u.mark # "token" /\ (u.mark = "block" => nodes'[Len(nodes')].type = "block")
      BY <1>3, <2>3
    <3>4. ~lost' => Balanced(text, pos - 1)' /\ u.open = Opened(text, pos - 1)'
      BY <2>1, <2>4 DEF Holds
    <3> QED
      BY <3>1, <3>2, <3>3, <3>4 DEF Holds
  <2>6. \A k \in 1 .. u.floor : nodes'[k].type = nodes[k].type
    <3>1. u.floor \in Nat
      BY DEF Points
    <3> QED
      BY <2>3, <3>1
  <2>7. AgendaInv' /\ BlocksInv'
    BY <2>1, <2>5, <2>6, DoneStep DEF ParseInv
  <2>8. TextInv'
    BY <2>1 DEF ParseInv, TextInv
  <2> QED
    BY <1>5, <2>3, <2>7, <2>8 DEF ShapeInv
<1> QED
  BY <1>6, <1>7

LEMMA BuildStep == ASSUME ParseInv, BuildNode PROVE ShapeInv' /\ RoomInv'
<1> DEFINE item == Head(agenda)
           m == Len(nodes) - item.n
           values == SubSeq(nodes, m + 1, Len(nodes))
           dst == Node(item.arg, TokenOf(values), item.caps[1])
<1>1. agenda # <<>> /\ item.op = "build" /\ Fill(SubSeq(nodes, 1, m), dst, values)
  BY DEF BuildNode, Doing
<1>2. PICK s \in Points, u \in Points, t \in Points : Stepping(s, u, t)
  BY <1>1, TopStep
<1>3. item \in Items
  BY <1>1, TopStep
<1>4. /\ item.caps # <<>> /\ s.floor + item.n <= s.len
      /\ u.len = s.len - item.n + 1 /\ u.floor = s.floor /\ u.tk = s.tk /\ u.open = s.open
      /\ u.mark \in {"none", MarkOf(item.arg)} /\ s.len = Len(nodes)
  BY <1>1, <1>2 DEF Stepping, Moves, Holds
<1>5. item.n \in Nat /\ item.caps[1] \in Nat
  <2>1. item.n \in Nat /\ item.caps \in Seq(Nat)
    BY <1>3 DEF Items
  <2>2. 1 \in 1 .. Len(item.caps)
    BY <1>4, <2>1, LenProperties, EmptySeq
  <2> QED
    BY <2>1, <2>2, ElementOfSeq
<1>6. s.floor \in Nat /\ s.len \in Nat
  BY DEF Points
<1>7. /\ m \in Nat /\ m < Len(nodes) + 1 /\ u.len = m + 1 /\ u.floor <= m /\ Len(nodes) \in Nat
      /\ m + 1 \in Nat /\ m + 1 <= Len(nodes) + 1
  BY <1>4, <1>5, <1>6, SMTT(30)
<1>8. NodeOK(dst) /\ dst.type = item.arg
  BY <1>5, NodeIsOK
<1>9. Len(values) \in Nat /\ \A i \in 1 .. Len(values) : NodeOK(values[i])
  <2>1. PICK T : nodes \in Seq(T)
    BY DEF ParseInv, NodesInv
  <2> DEFINE a == m + 1
             n == Len(nodes)
  <2>2. \A i \in 1 .. n : nodes[i] \in T /\ NodeOK(nodes[i])
    BY <2>1, ElementOfSeq DEF ParseInv, NodesInv
  <2>3. a \in Int /\ n \in Int /\ a >= 1 /\ a <= n + 1 /\ values = SubSeq(nodes, a, n)
    BY <1>7
  <2> HIDE DEF a, n, values
  <2>4. \A i \in a .. n : nodes[i] \in T
    BY <2>2, <2>3
  <2>5. /\ Len(SubSeq(nodes, a, n)) = IF a <= n THEN n - a + 1 ELSE 0
        /\ \A i \in 1 .. n - a + 1 : SubSeq(nodes, a, n)[i] = nodes[a + i - 1]
    BY <2>3, <2>4, SubSeqProperties
  <2>6. Len(values) = n - a + 1 /\ Len(values) \in Nat
    BY <2>3, <2>5
  <2>7. ASSUME NEW i \in 1 .. Len(values) PROVE NodeOK(values[i])
    <3>1. i \in 1 .. n - a + 1 /\ a + i - 1 \in 1 .. n
      BY <2>3, <2>6
    <3> QED
      BY <2>2, <2>3, <2>5, <3>1
  <2> QED
    BY <2>6, <2>7
<1>10. u.mark = "none" \/ (u.mark = "block" /\ dst.type = "block")
  BY <1>4, <1>8 DEF MarkOf
<1> HIDE DEF item, m, values, dst
<1>11. u.tk \in {"none", s.tk}
  BY <1>4
<1> QED
  BY <1>1, <1>2, <1>4, <1>7, <1>8, <1>9, <1>10, <1>11, FillStep

LEMMA PushStep == ASSUME ParseInv, mclast_push_child PROVE ShapeInv' /\ RoomInv'
<1> DEFINE item == Head(agenda)
           m == Len(nodes) - 2
           dst == nodes[m + 1]
           values == <<Last(nodes)>>
<1>1. agenda # <<>> /\ item.op \in {"push", "keep"} /\ Fill(SubSeq(nodes, 1, m), dst, values)
  BY DEF mclast_push_child, Doing
<1>2. PICK s \in Points, u \in Points, t \in Points : Stepping(s, u, t)
  BY <1>1, TopStep
<1>3. item \in Items /\ item.n \in Nat
  BY <1>1, TopStep DEF Items
<1>4. Holds(s) /\ s.len = Len(nodes) /\ Moves(item, s, u)
  BY <1>2 DEF Stepping, Holds
<1>5. s.floor \in Nat /\ s.len \in Nat /\ u.floor \in Nat /\ s.floor <= s.len
  BY DEF Points
<1>6. /\ m \in Nat /\ u.len = m + 1 /\ u.tk \in {"none", s.tk} /\ u.open = s.open /\ u.floor <= m
      /\ u.mark = "none" \/ (u.mark = "block" /\ dst.type = "block")
  <2>1. CASE item.op = "push"
    <3>1. s.floor + 2 <= s.len /\ u = Pt(s.len - 1, s.floor, s.tk, "none", s.open)
      BY <1>4, <2>1 DEF Moves
    <3>2. u.len = s.len - 1 /\ u.floor = s.floor /\ u.tk = s.tk /\ u.mark = "none" /\ u.open = s.open
      BY <3>1 DEF Pt
    <3>3. m \in Nat /\ u.len = m + 1 /\ u.floor <= m
      BY <1>4, <1>5, <3>1, <3>2
    <3> QED
      BY <3>2, <3>3
  <2>2. CASE item.op = "keep"
    <3>1. /\ s.len = item.n + 1 /\ u.len = item.n /\ u.floor < item.n /\ u.tk = "none" /\ u.mark = "block"
          /\ u.open = s.open
      BY <1>4, <2>2 DEF Moves
    <3>2. m \in Nat /\ m + 1 = item.n /\ u.floor <= m
      BY <1>3, <1>4, <1>5, <3>1
    <3>3. dst.type = "block"
      <4>1. 1 \in DOMAIN agenda /\ agenda[1] = item
        <5>1. agenda \in Seq(Items)
          BY <1>2 DEF Stepping, Run
        <5> QED
          BY <1>1, <5>1, HeadTailProperties, LenProperties, EmptySeq
      <4>2. nodes[item.n].type = "block"
        BY <2>2, <4>1 DEF ParseInv, BlocksInv
      <4> QED
        BY <3>2, <4>2
    <3> QED
      BY <3>1, <3>2, <3>3
  <2> QED
    BY <1>1, <2>1, <2>2
<1>7. m < Len(nodes) + 1 /\ m + 1 \in 1 .. Len(nodes) /\ Len(nodes) \in 1 .. Len(nodes)
  BY <1>4, <1>5, <1>6
<1>8. NodeOK(dst) /\ NodeOK(Last(nodes))
  BY <1>7 DEF ParseInv, NodesInv, Last
<1>9. Len(values) \in Nat /\ \A i \in 1 .. Len(values) : NodeOK(values[i])
  BY <1>8
<1> HIDE DEF item, m, values, dst
<1> QED
  BY <1>1, <1>2, <1>6, <1>7, <1>8, <1>9, FillStep

LEMMA SetStep == ASSUME ParseInv, SetVal PROVE ShapeInv'
<1> DEFINE item == Head(agenda)
           top == Last(nodes)
           m == Len(nodes) - 1
<1>1. /\ agenda # <<>> /\ item.op \in {"count", "mark", "closed"} /\ agenda' = Tail(agenda)
      /\ UNCHANGED <<text, pos, lost>>
  BY DEF SetVal, Doing, Done, Goes
<1>2. PICK new \in {[top EXCEPT !.num = Len(top.kids)], [top EXCEPT !.num = 1], [top EXCEPT !.paren = TRUE]} :
          nodes' = Append(SubSeq(nodes, 1, m), new)
  <2>1. CASE item.op = "count"
    <3>1. nodes' = Append(Front(nodes), [top EXCEPT !.num = Len(top.kids)])
      BY <2>1 DEF SetVal, Doing
    <3> QED
      BY <3>1 DEF Front
  <2>2. CASE item.op = "mark"
    <3>1. nodes' = Append(Front(nodes), [top EXCEPT !.num = 1])
      BY <2>2 DEF SetVal, Doing
    <3> QED
      BY <3>1 DEF Front
  <2>3. CASE item.op = "closed"
    <3>1. nodes' = Append(Front(nodes), [top EXCEPT !.paren = TRUE])
      BY <2>3 DEF SetVal, Doing
    <3> QED
      BY <3>1 DEF Front
  <2> QED
    BY <1>1, <2>1, <2>2, <2>3
<1>3. PICK s \in Points, u \in Points, t \in Points : Stepping(s, u, t)
  BY <1>1, TopStep
<1>4. Holds(s) /\ s.len = Len(nodes) /\ s.floor < s.len /\ u = Pt(s.len, s.floor, s.tk, "none", s.open)
  BY <1>1, <1>3 DEF Stepping, Moves, Holds
<1>5. /\ s.floor \in Nat /\ s.len \in Nat /\ u.len = s.len /\ u.floor = s.floor /\ u.tk = s.tk
      /\ u.mark = "none" /\ u.open = s.open
  BY <1>4 DEF Points, Pt
<1>6. m \in Nat /\ m <= Len(nodes) /\ m + 1 = s.len /\ Len(nodes) \in 1 .. Len(nodes) /\ s.floor <= m
  BY <1>4, <1>5
<1>7. NodeOK(new)
  <2>1. NodeOK(top)
    BY <1>6 DEF ParseInv, NodesInv, Last
  <2>2. PICK T : top \in [type : T, at : T, num : T, kids : Seq(T), cap : Nat, paren : T]
    BY <2>1 DEF NodeOK
  <2> HIDE DEF top
  <2> DEFINE x == Len(top.kids)
             U == T \cup {x, 1, TRUE}
  <2>4. x \in U /\ 1 \in U /\ TRUE \in U /\ T \subseteq U
    OBVIOUS
  <2> HIDE DEF U, x
  <2>3. top.kids \in Seq(U)
    <3> DEFINE k == top.kids
    <3>1. k \in Seq(T)
      BY <2>2
    <3> HIDE DEF k
    <3> QED
      BY <2>4, <3>1 DEF k
  <2>5. top \in [type : U, at : U, num : U, kids : Seq(U), cap : Nat, paren : U]
    BY <2>2, <2>3, <2>4
  <2>6. new \in [type : U, at : U, num : U, kids : Seq(U), cap : Nat, paren : U]
    BY <1>2, <2>4, <2>5 DEF x
  <2> QED
    BY <2>6 DEF NodeOK
<1> HIDE DEF item, top, m
<1>8. NodesInv' /\ Len(nodes') = m + 1 /\ \A k \in 1 .. m : nodes'[k] = nodes[k]
  BY <1>2, <1>6, <1>7, StackOn DEF ParseInv
<1>9. Holds(u)'
  <2>1. u.len = Len(nodes')
    BY <1>5, <1>6, <1>8
  <2> QED
    BY <1>1, <1>4, <1>5, <2>1 DEF Holds, CURTKN
<1>10. AgendaInv' /\ BlocksInv'
  <2>1. \A k \in 1 .. u.floor : nodes'[k].type = nodes[k].type
    BY <1>5, <1>6, <1>8
  <2> QED
    BY <1>1, <1>3, <1>9, <2>1, DoneStep DEF ParseInv, item
<1>11. TextInv'
  BY <1>1 DEF ParseInv, TextInv
<1> QED
  BY <1>8, <1>10, <1>11 DEF ShapeInv

-----------------------------------------------------------------------------
(* The parser *)

LEMMA ParseInit == ASSUME Init PROVE ParseInv
<1>1. ErrorInv
  BY DEF Init, ErrorInv
<1>2. PICK tk : text = <<tk>>
  BY DEF Init
<1>3. TextInv
  <2>1. text \in Seq({tk}) /\ Len(text) = 1
    BY <1>2
  <2>2. pos = 1
    BY DEF Init
  <2> QED
    BY <2>1, <2>2 DEF TextInv
<1>4. RoomInv
  BY ParseAssumption DEF Init, RoomInv
<1>5. nodes = <<>> /\ Len(nodes) = 0
  BY DEF Init
<1>6. NodesInv
  <2>1. nodes \in Seq({})
    BY <1>5
  <2> QED
    BY <1>5, <2>1 DEF NodesInv
<1>7. AgendaInv
  <2>1. PICK o : o = <<>> /\ o \in Seq(Openers)
    <3>1. <<>> \in Seq(Openers)
      OBVIOUS
    <3> QED
      BY <3>1, Zenon
  <2>2. Fine(0, 0, o)
    BY <2>1 DEF Fine
  <2> DEFINE s == At(0, 0, o)
             t == At(1, 0, o)
  <2>3. Run(<<Call("main")>>, s, t)
    <3>1. /\ "main" \in Rules /\ Takes("main") = 0 /\ "none" \in Tokens \cup {"none"} /\ "none" \in Marks
          /\ "main" \notin {"stats", "namefield", "retstat"}
      BY DEF Rules, Takes, Marks
    <3>2. 0 + Takes("main") <= 0 /\ 1 + Takes("main") = 0 + 1 /\ 1 \in Nat /\ 0 \in Nat
      BY <3>1
    <3>3. Run(<<Item("call", "main", 0, <<>>)>>, Pt(0, 0, "none", "none", o), At(1, 0, o))
      BY <2>2, <3>1, <3>2, CallItem
    <3> QED
      BY <3>3 DEF Call, At
  <2>4. s \in Points /\ t \in Points
    BY <2>3, RunEnds
  <2>5. s.len = 0 /\ s.tk = "none" /\ s.mark = "none" /\ s.open = o /\ t.open = o
    BY DEF At, Pt
  <2> HIDE DEF s, t
  <2>6. Holds(s)
    <3>1. pos - 1 = 0
      BY DEF Init
    <3>2. Balanced(text, 0) /\ Opened(text, 0) = <<>>
      BY OpenedIs DEF Balanced
    <3> QED
      BY <1>5, <2>1, <2>5, <3>1, <3>2 DEF Holds
  <2>7. agenda = <<Call("main")>>
    BY DEF Init
  <2> QED
    BY <2>1, <2>3, <2>4, <2>5, <2>6, <2>7 DEF AgendaInv
<1>8. BlocksInv
  <2>1. agenda = <<Call("main")>>
    BY DEF Init
  <2> DEFINE c == Call("main")
  <2>2. c.op = "call"
    BY DEF Call, Item
  <2> HIDE DEF c
  <2>3. agenda = <<c>>
    BY <2>1 DEF c
  <2> QED
    BY <2>2, <2>3 DEF BlocksInv
<1> QED
  BY <1>1, <1>3, <1>4, <1>6, <1>7, <1>8 DEF ParseInv

LEMMA RoomKept == ASSUME ParseInv, UNCHANGED <<input, room>> PROVE RoomInv'
BY DEF ParseInv, RoomInv

LEMMA ParseStep == ASSUME ParseInv, [Next]_vars PROVE ParseInv'
<1>1. ErrorInv'
  BY ErrorStep DEF ParseInv
<1>2. ShapeInv' /\ RoomInv'
  <2>1. CASE Enter
    BY <2>1, EnterStep, RoomKept DEF Enter, Goes
  <2>2. CASE DoAdvance
    BY <2>2, AdvanceStep, RoomKept DEF DoAdvance, Goes
  <2>3. CASE ps_match
    BY <2>3, MatchStep, RoomKept DEF ps_match, Goes
  <2>4. CASE ps_expect
    <3>1. RoomInv'
      BY <2>4, RoomKept DEF ps_expect, Goes
    <3> QED
      BY <2>4, <3>1, ExpectStep, TakeStep DEF ps_expect
  <2>5. CASE SyntaxError
    <3>1. RoomInv'
      BY <2>5, RoomKept DEF SyntaxError, ReturnNull
    <3> QED
      BY <2>5, <3>1, RejectStep
  <2>6. CASE RestorePos
    BY <2>6, PutBackStep, RoomKept DEF RestorePos, Goes
  <2>7. CASE mclast_alloc
    BY <2>7, AllocStep
  <2>8. CASE AllocFails
    BY <2>8, FailsStep
  <2>9. CASE BuildNode
    BY <2>9, BuildStep
  <2>10. CASE mclast_push_child
    BY <2>10, PushStep
  <2>11. CASE SetVal
    BY <2>11, SetStep, RoomKept DEF SetVal, Goes
  <2>12. CASE UNCHANGED vars
    <3>1. UNCHANGED <<input, text, pos, agenda, nodes, room, error, lost>>
      BY <2>12 DEF vars
    <3>2. TextInv' /\ NodesInv' /\ BlocksInv' /\ RoomInv'
      BY <3>1 DEF ParseInv, TextInv, NodesInv, BlocksInv, RoomInv
    <3>3. AgendaInv'
      BY <3>1 DEF ParseInv, AgendaInv, Holds, CURTKN
    <3> QED
      BY <3>2, <3>3 DEF ShapeInv
  <2> QED
    BY <2>1, <2>2, <2>3, <2>4, <2>5, <2>6, <2>7, <2>8, <2>9, <2>10, <2>11, <2>12 DEF Next
<1> QED
  BY <1>1, <1>2 DEF ParseInv, ShapeInv

LEMMA ParseSafe == Spec => []ParseInv
<1>1. Init => ParseInv
  BY ParseInit
<1>2. ParseInv /\ [Next]_vars => ParseInv'
  BY ParseStep
<1> QED
  BY <1>1, <1>2, PTL DEF Spec

LEMMA InvType == ASSUME ParseInv PROVE ParseTypeOK
<1>1. pos \in DOMAIN text
  BY LenProperties DEF ParseInv, TextInv
<1>2. /\ \A i \in 1 .. pos - 1 : text[i] # "eos"
      /\ room \in 0 .. input.room
  BY DEF ParseInv, TextInv, RoomInv
<1>3. ASSUME NEW i \in DOMAIN agenda, agenda[i].op = "keep"
      PROVE  agenda[i].n \in DOMAIN nodes /\ nodes[agenda[i].n].type = "block"
  <2>1. PICK s \in Points, t \in Points : Run(agenda, s, t) /\ (~error => Holds(s))
    BY DEF ParseInv, AgendaInv
  <2>2. Holds(s)
    <3>1. CASE error
      <4>1. agenda = <<>>
        BY <3>1 DEF ParseInv, ErrorInv
      <4> QED
        BY <1>3, <4>1
    <3> QED
      BY <2>1, <3>1
  <2>3. agenda[i].n <= s.floor /\ agenda[i].n \in Nat \ {0}
    BY <1>3, <2>1, KeepsBelow
  <2>4. s.floor \in Nat /\ s.floor <= s.len /\ s.len = Len(nodes) /\ DOMAIN nodes = 1 .. Len(nodes)
    BY <2>2, LenProperties DEF Holds, Points, ParseInv, NodesInv
  <2>5. agenda[i].n \in DOMAIN nodes
    BY <2>3, <2>4
  <2>6. nodes[agenda[i].n].type = "block"
    BY <1>3 DEF ParseInv, BlocksInv
  <2> QED
    BY <2>5, <2>6
<1> QED
  BY <1>1, <1>2, <1>3 DEF ParseTypeOK

(***************************************************************************)
(* For any text and any heap: the parser never reads past the token eos,   *)
(* never draws more of the heap than there is, and every parse_block in    *)
(* progress finds its own node where it left it when a statement returns   *)
(* NULL.                                                                   *)
(***************************************************************************)
THEOREM ParseTypeCorrect == Spec => []ParseTypeOK
<1>1. ParseInv => ParseTypeOK
  BY InvType
<1> QED
  BY <1>1, ParseSafe, PTL

-----------------------------------------------------------------------------
(* The bracket checker *)

\* How many brackets are open behind the first k tokens.
Deep(txt, k) == Len(Opened(txt, k))

BcStep(tokens, bc, idx) == mctbc_visit(bc, idx, tokens[idx])
BcRun == INSTANCE NatSteps WITH Op <- BcStep

\* The checker behind the first k tokens.
Seen(tokens, k) == BcRun!Steps(tokens, mctbc_init)[k]

LEMMA SeenIs ==
    \A txt : /\ Seen(txt, 0) = mctbc_init
             /\ \A k \in Nat : Seen(txt, k + 1) = mctbc_visit(Seen(txt, k), k + 1, txt[k + 1])
             /\ tkv_run(txt) = mctbc_deinit(Seen(txt, Len(txt)))
<1> TAKE txt
<1>1. /\ Seen(txt, 0) = mctbc_init
      /\ \A k \in Nat : Seen(txt, k + 1) = mctbc_visit(Seen(txt, k), k + 1, txt[k + 1])
  BY BcRun!StepsUnfold DEF Seen, BcStep
<1>2. tkv_run(txt) = mctbc_deinit(Seen(txt, Len(txt)))
  BY Zenon DEF tkv_run, Seen, BcRun!Steps, BcStep
<1> QED
  BY <1>1, <1>2

LEMMA Apart == \A tk : ~(tk \in Openers /\ tk \in Closers)
BY DEF Openers, Closers

LEMMA TurnIs ==
    ASSUME NEW o \in Seq(Openers), NEW tk, tk \in Closers => Matches(o, tk)
    PROVE  /\ Turn(o, tk) \in Seq(Openers) /\ Len(o) \in Nat
           /\ tk \in Openers => /\ Len(Turn(o, tk)) = Len(o) + 1 /\ Turn(o, tk)[Len(o) + 1] = tk
                                /\ \A j \in 1 .. Len(o) : Turn(o, tk)[j] = o[j]
           /\ tk \in Closers => /\ Len(o) > 0 /\ Len(Turn(o, tk)) = Len(o) - 1 /\ Kind(o[Len(o)]) = Kind(tk)
                                /\ \A j \in 1 .. Len(o) - 1 : Turn(o, tk)[j] = o[j]
           /\ tk \notin Openers \cup Closers => Turn(o, tk) = o
<1>1. Len(o) \in Nat
  BY LenProperties
<1>2. CASE tk \in Openers
  <2>1. Turn(o, tk) = Append(o, tk)
    BY <1>2, Apart DEF Turn
  <2>2. /\ Append(o, tk) \in Seq(Openers) /\ Len(Append(o, tk)) = Len(o) + 1
        /\ Append(o, tk)[Len(o) + 1] = tk
        /\ \A j \in 1 .. Len(o) : Append(o, tk)[j] = o[j]
    BY <1>2, AppendProperties
  <2> QED
    BY <1>1, <1>2, <2>1, <2>2, Apart
<1>3. CASE tk \in Closers
  <2>1. Turn(o, tk) = SubSeq(o, 1, Len(o) - 1)
    <3>1. Turn(o, tk) = Front(o)
      BY <1>3, Apart DEF Turn
    <3> QED
      BY <3>1 DEF Front
  <2>2. o # <<>> /\ Kind(o[Len(o)]) = Kind(tk)
    BY <1>3 DEF Matches, Last
  <2>3. Len(o) > 0
    BY <1>1, <2>2, EmptySeq
  <2> DEFINE n == Len(o) - 1
  <2>4. 1 \in Int /\ n \in Nat /\ n \in Int /\ n - 1 + 1 = n
    BY <1>1, <2>3
  <2>5. \A i \in 1 .. n : o[i] \in Openers
    BY <1>1, ElementOfSeq
  <2>6. Turn(o, tk) = SubSeq(o, 1, n)
    BY <2>1
  <2> HIDE DEF n
  <2>7. /\ SubSeq(o, 1, n) \in Seq(Openers) /\ Len(SubSeq(o, 1, n)) = n
        /\ \A i \in 1 .. n : SubSeq(o, 1, n)[i] = o[i]
    BY <2>4, <2>5, SubSeqProperties
  <2>8. Turn(o, tk) \in Seq(Openers) /\ Len(Turn(o, tk)) = n /\ \A i \in 1 .. n : Turn(o, tk)[i] = o[i]
    BY <2>6, <2>7
  <2> QED
    BY <1>1, <1>3, <2>2, <2>3, <2>8, Apart DEF n
<1>4. CASE tk \notin Openers \cup Closers
  <2>1. Turn(o, tk) = o
    BY <1>4 DEF Turn
  <2> QED
    BY <1>1, <1>4, <2>1
<1> QED
  BY <1>2, <1>3, <1>4

LEMMA OpenedSeq ==
    ASSUME NEW txt, NEW n \in Nat, Balanced(txt, n)
    PROVE  \A k \in 0 .. n : Opened(txt, k) \in Seq(Openers) /\ Deep(txt, k) \in Nat
<1> DEFINE S == {k \in Nat : k <= n => Opened(txt, k) \in Seq(Openers)}
<1>1. 0 \in S
  <2>1. <<>> \in Seq(Openers)
    OBVIOUS
  <2> QED
    BY <2>1, OpenedIs
<1>2. ASSUME NEW k \in Nat, k \in S PROVE k + 1 \in S
  <2> SUFFICES ASSUME k + 1 <= n PROVE Opened(txt, k + 1) \in Seq(Openers)
    OBVIOUS
  <2>1. Opened(txt, k) \in Seq(Openers) /\ k + 1 \in 1 .. n /\ (k + 1) - 1 = k
    BY <1>2
  <2>2. txt[k + 1] \in Closers => Matches(Opened(txt, k), txt[k + 1])
    BY <2>1 DEF Balanced
  <2> QED
    BY <2>1, <2>2, OpenedIs, TurnIs
<1>3. \A k \in Nat : k \in S
  <2> HIDE DEF S
  <2> QED
    BY <1>1, <1>2, OpenRun!Induct
<1>4. \A k \in 0 .. n : Opened(txt, k) \in Seq(Openers)
  BY <1>3
<1> QED
  BY <1>4, LenProperties DEF Deep

\* What the next token does to the open brackets.
LEMMA DeepTurns ==
    ASSUME NEW txt, NEW n \in Nat, Balanced(txt, n), NEW k \in Nat, k < n
    PROVE  /\ Deep(txt, k) \in Nat /\ Deep(txt, k + 1) \in Nat
           /\ txt[k + 1] \in Openers =>
                 /\ Deep(txt, k + 1) = Deep(txt, k) + 1
                 /\ Opened(txt, k + 1)[Deep(txt, k) + 1] = txt[k + 1]
                 /\ \A j \in 1 .. Deep(txt, k) : Opened(txt, k + 1)[j] = Opened(txt, k)[j]
           /\ txt[k + 1] \in Closers =>
                 /\ Deep(txt, k) > 0 /\ Deep(txt, k + 1) = Deep(txt, k) - 1
                 /\ Kind(Opened(txt, k)[Deep(txt, k)]) = Kind(txt[k + 1])
                 /\ \A j \in 1 .. Deep(txt, k) - 1 : Opened(txt, k + 1)[j] = Opened(txt, k)[j]
           /\ txt[k + 1] \notin Openers \cup Closers => Opened(txt, k + 1) = Opened(txt, k)
<1> DEFINE o == Opened(txt, k)
           p == Opened(txt, k + 1)
           tk == txt[k + 1]
<1>1. o \in Seq(Openers) /\ Deep(txt, k) \in Nat /\ Deep(txt, k + 1) \in Nat
  BY OpenedSeq
<1>2. tk \in Closers => Matches(o, tk)
  <2>1. k + 1 \in 1 .. n /\ (k + 1) - 1 = k
    OBVIOUS
  <2> QED
    BY <2>1 DEF Balanced
<1>3. p = Turn(o, tk)
  BY OpenedIs
<1>4. Deep(txt, k) = Len(o) /\ Deep(txt, k + 1) = Len(p)
  BY DEF Deep
<1> HIDE DEF o, p, tk
<1>5. /\ Turn(o, tk) \in Seq(Openers) /\ Len(o) \in Nat
      /\ tk \in Openers => /\ Len(Turn(o, tk)) = Len(o) + 1 /\ Turn(o, tk)[Len(o) + 1] = tk
                           /\ \A j \in 1 .. Len(o) : Turn(o, tk)[j] = o[j]
      /\ tk \in Closers => /\ Len(o) > 0 /\ Len(Turn(o, tk)) = Len(o) - 1 /\ Kind(o[Len(o)]) = Kind(tk)
                           /\ \A j \in 1 .. Len(o) - 1 : Turn(o, tk)[j] = o[j]
      /\ tk \notin Openers \cup Closers => Turn(o, tk) = o
  BY <1>1, <1>2, TurnIs, Zenon
<1> DEFINE d == Deep(txt, k)
           e == Deep(txt, k + 1)
<1>6. d = Len(o) /\ e = Len(p) /\ d \in Nat /\ e \in Nat
  BY <1>1, <1>4
<1> HIDE DEF d, e
<1>7. /\ d \in Nat /\ e \in Nat
      /\ tk \in Openers => /\ e = d + 1 /\ p[d + 1] = tk
                           /\ \A j \in 1 .. d : p[j] = o[j]
      /\ tk \in Closers => /\ d > 0 /\ e = d - 1 /\ Kind(o[d]) = Kind(tk)
                           /\ \A j \in 1 .. d - 1 : p[j] = o[j]
      /\ tk \notin Openers \cup Closers => p = o
  BY <1>3, <1>5, <1>6
<1> QED
  BY <1>7 DEF d, e, o, p, tk

-----------------------------------------------------------------------------
(* What the checker has joined *)

\* The bracket in place d of the stack is still open.
IsOpen(txt, b, k, d) ==
    /\ b.stack[d] \in 1 .. k
    /\ txt[b.stack[d]] = Opened(txt, k)[d + 1]
    /\ Deep(txt, b.stack[d]) = d + 1
    /\ \A j \in b.stack[d] .. k : Deep(txt, j) >= d + 1

IsJoined(txt, b, k, i) ==
    \E c \in i + 1 .. k :
        /\ txt[c] \in Closers /\ Kind(txt[i]) = Kind(txt[c])
        /\ b.partners[i] = c /\ b.partners[c] = i
        /\ Deep(txt, c) = Deep(txt, i) - 1
        /\ \A j \in i .. c - 1 : Deep(txt, j) >= Deep(txt, i)

Sound(b, k) ==
    /\ b = [top |-> b.top, stack |-> b.stack, partners |-> b.partners, rcode |-> 0]
    /\ b.stack = [d \in 0 .. MaxDepth - 1 |-> b.stack[d]]
    /\ b.partners \in Seq(Int) /\ Len(b.partners) = k

Joins(txt, b, k) ==
    /\ Sound(b, k)
    /\ b.top = Deep(txt, k) /\ b.top <= MaxDepth
    /\ \A d \in 0 .. b.top - 1 : IsOpen(txt, b, k, d)
    /\ \A i \in 1 .. k :
          /\ txt[i] \in Openers => IsJoined(txt, b, k, i) \/ \E d \in 0 .. b.top - 1 : b.stack[d] = i
          /\ txt[i] \notin Openers \cup Closers => b.partners[i] = -1

\* What the operations of the checker make of its fields.
LEMMA Fields ==
    ASSUME NEW t, NEW s, NEW p, NEW r, NEW b, b = [top |-> t, stack |-> s, partners |-> p, rcode |-> r]
    PROVE  b.top = t /\ b.stack = s /\ b.partners = p /\ b.rcode = r
OBVIOUS

LEMMA SetPartners ==
    ASSUME NEW t, NEW s, NEW p, NEW r, NEW b, b = [top |-> t, stack |-> s, partners |-> p, rcode |-> r], NEW x
    PROVE  [b EXCEPT !.partners = x] = [top |-> t, stack |-> s, partners |-> x, rcode |-> r]
OBVIOUS

LEMMA SetTop ==
    ASSUME NEW t, NEW s, NEW p, NEW r, NEW b, b = [top |-> t, stack |-> s, partners |-> p, rcode |-> r], NEW x
    PROVE  [b EXCEPT !.top = x] = [top |-> x, stack |-> s, partners |-> p, rcode |-> r]
OBVIOUS

LEMMA SetStack ==
    ASSUME NEW t, NEW s, NEW p, NEW r, NEW b, b = [top |-> t, stack |-> s, partners |-> p, rcode |-> r], NEW x, NEW y
    PROVE  [b EXCEPT !.stack = x, !.top = y] = [top |-> y, stack |-> x, partners |-> p, rcode |-> r]
<1> DEFINE c == [b EXCEPT !.stack = x]
<1>1. [b EXCEPT !.stack = x, !.top = y] = [c EXCEPT !.top = y]
  BY Zenon
<1>2. c = [top |-> t, stack |-> x, partners |-> p, rcode |-> r]
  OBVIOUS
<1> HIDE DEF c
<1>3. [c EXCEPT !.top = y] = [top |-> y, stack |-> x, partners |-> p, rcode |-> r]
  BY <1>2, SetTop
<1> QED
  BY <1>1, <1>3

LEMMA AloneIs ==
    ASSUME NEW t, NEW s, NEW p, NEW r, NEW b, b = [top |-> t, stack |-> s, partners |-> p, rcode |-> r]
    PROVE  Alone(b) = [top |-> t, stack |-> s, partners |-> Append(p, -1), rcode |-> r]
<1> DEFINE x == Append(p, -1)
<1>1. b.partners = p
  BY Fields
<1>2. Alone(b) = [b EXCEPT !.partners = x]
  BY <1>1, Zenon DEF Alone
<1> HIDE DEF x
<1>3. [b EXCEPT !.partners = x] = [top |-> t, stack |-> s, partners |-> x, rcode |-> r]
  OBVIOUS
<1>4. Alone(b) = [top |-> t, stack |-> s, partners |-> x, rcode |-> r]
  BY <1>2, <1>3, Zenon
<1> QED
  BY <1>4, Zenon DEF x

LEMMA ClosesIs ==
    ASSUME NEW b, NEW i, b.top \in Int, b.top > 0,
           b = [top |-> b.top, stack |-> b.stack, partners |-> b.partners, rcode |-> b.rcode]
    PROVE  Closes(b, i) = [top |-> b.top - 1, stack |-> b.stack,
                           partners |-> Append([b.partners EXCEPT ![b.stack[b.top - 1]] = i],
                                               b.stack[b.top - 1]),
                           rcode |-> b.rcode]
<1> DEFINE t == b.top
           s == b.stack
           p == b.partners
           r == b.rcode
           x == s[t - 1]
           u == t - 1
           c == [b EXCEPT !.top = @ - 1]
           q == Append([p EXCEPT ![x] = i], x)
<1>1. b.top = t /\ b.stack = s /\ t \in Int /\ t > 0
  OBVIOUS
<1>0. b = [top |-> t, stack |-> s, partners |-> p, rcode |-> r]
  OBVIOUS
<1> HIDE DEF t, s, p, r
<1>2. Closes(b, i) = Joined(c, x, i)
  BY <1>1 DEF Closes
<1>3. c = [b EXCEPT !.top = u]
  BY <1>1, Zenon
<1> HIDE DEF c, u
<1>4. c = [top |-> u, stack |-> s, partners |-> p, rcode |-> r]
  BY <1>0, <1>3, SetTop, Zenon
<1>5. c.partners = p
  BY <1>4, Fields
<1> HIDE DEF x
<1>6. Joined(c, x, i) = [c EXCEPT !.partners = q]
  BY <1>5, Zenon DEF Joined
<1> HIDE DEF q
<1>7. [c EXCEPT !.partners = q] = [top |-> u, stack |-> s, partners |-> q, rcode |-> r]
  BY <1>4
<1> QED
  BY <1>2, <1>6, <1>7, Zenon DEF q, u, x, t, s, p, r

LEMMA OpenKept ==
    ASSUME NEW txt, NEW b, NEW b2, NEW k \in Nat, NEW d \in Nat, IsOpen(txt, b, k, d),
           b2.stack[d] = b.stack[d], Opened(txt, k + 1)[d + 1] = Opened(txt, k)[d + 1],
           Deep(txt, k + 1) >= d + 1
    PROVE  IsOpen(txt, b2, k + 1, d)
<1> DEFINE i == b.stack[d]
<1>1. /\ i \in 1 .. k /\ txt[i] = Opened(txt, k)[d + 1] /\ Deep(txt, i) = d + 1
      /\ \A j \in i .. k : Deep(txt, j) >= d + 1
  BY DEF IsOpen
<1>2. b2.stack[d] = i
  OBVIOUS
<1> HIDE DEF i
<1>3. i \in 1 .. k + 1
  BY <1>1
<1>4. \A j \in i .. k + 1 : Deep(txt, j) >= d + 1
  <2> TAKE j \in i .. k + 1
  <2>1. CASE j = k + 1
    BY <2>1
  <2>2. CASE j # k + 1
    <3>1. j \in i .. k
      BY <1>1, <2>2
    <3> QED
      BY <1>1, <3>1
  <2> QED
    BY <2>1, <2>2
<1> QED
  BY <1>1, <1>2, <1>3, <1>4 DEF IsOpen

LEMMA JoinedKept ==
    ASSUME NEW txt, NEW b, NEW b2, NEW k \in Nat, NEW i \in 1 .. k, IsJoined(txt, b, k, i),
           b2.partners[i] = b.partners[i],
           \A c \in 1 .. k : txt[c] \in Closers => b2.partners[c] = b.partners[c]
    PROVE  IsJoined(txt, b2, k + 1, i)
<1>1. PICK c \in i + 1 .. k :
          /\ txt[c] \in Closers /\ Kind(txt[i]) = Kind(txt[c])
          /\ b.partners[i] = c /\ b.partners[c] = i
          /\ Deep(txt, c) = Deep(txt, i) - 1
          /\ \A j \in i .. c - 1 : Deep(txt, j) >= Deep(txt, i)
  BY DEF IsJoined
<1>2. c \in 1 .. k /\ c \in i + 1 .. k + 1
  OBVIOUS
<1> QED
  BY <1>1, <1>2 DEF IsJoined

LEMMA JoinsNone == ASSUME NEW txt PROVE Joins(txt, mctbc_init, 0)
<1> DEFINE b == mctbc_init
<1>1. /\ b = [top |-> b.top, stack |-> b.stack, partners |-> b.partners, rcode |-> 0]
      /\ b.stack = [d \in 0 .. MaxDepth - 1 |-> b.stack[d]] /\ b.top = 0 /\ b.partners = <<>>
  BY DEF mctbc_init
<1> HIDE DEF b
<1>2. Sound(b, 0)
  BY <1>1 DEF Sound
<1>3. Deep(txt, 0) = 0
  BY OpenedIs DEF Deep
<1> QED
  BY <1>1, <1>2, <1>3, VisitorsAssumption DEF Joins, b

\* An opening bracket goes on the stack.
LEMMA JoinsOpen ==
    ASSUME NEW txt, NEW n \in Nat, Balanced(txt, n), NEW k \in Nat, k < n, NEW b, Joins(txt, b, k),
           txt[k + 1] \in Openers, Deep(txt, k) < MaxDepth
    PROVE  Joins(txt, Opens(b, k + 1), k + 1)
<1> DEFINE b2 == Opens(b, k + 1)
           D == b.top
<1>1. /\ Sound(b, k) /\ D = Deep(txt, k) /\ \A d \in 0 .. D - 1 : IsOpen(txt, b, k, d)
      /\ D \in Nat /\ D < MaxDepth /\ Deep(txt, k + 1) = D + 1
      /\ Opened(txt, k + 1)[D + 1] = txt[k + 1]
      /\ \A j \in 1 .. D : Opened(txt, k + 1)[j] = Opened(txt, k)[j]
  BY DeepTurns DEF Joins
<1>2. /\ b = [top |-> D, stack |-> b.stack, partners |-> b.partners, rcode |-> 0]
      /\ b.stack = [d \in 0 .. MaxDepth - 1 |-> b.stack[d]]
      /\ b.partners \in Seq(Int) /\ Len(b.partners) = k
  BY <1>1 DEF Sound
<1> DEFINE stack == [b.stack EXCEPT ![D] = k + 1]
           partners == Append(b.partners, -1)
<1>3. b2 = [top |-> D + 1, stack |-> stack, partners |-> partners, rcode |-> 0]
  <2> DEFINE t == D
             s == b.stack
             p == b.partners
             q == stack
  <2>1. ~(t >= MaxDepth)
    BY <1>1, VisitorsAssumption
  <2>2. b = [top |-> t, stack |-> s, partners |-> p, rcode |-> 0]
    BY <1>2
  <2>4. q = [s EXCEPT ![t] = k + 1]
    OBVIOUS
  <2> HIDE DEF t, s, p, q
  <2> DEFINE u == t + 1
             c == [b EXCEPT !.stack[b.top] = k + 1, !.top = @ + 1]
  <2>5. b.top = t /\ b.stack = s
    BY <2>2, Fields
  <2>6. Opens(b, k + 1) = Alone(c)
    BY <2>1, <2>5, Zenon DEF Opens
  <2>7. c = [b EXCEPT !.stack = q, !.top = u]
    BY <2>4, <2>5, Zenon
  <2> HIDE DEF c, u
  <2>8. c = [top |-> u, stack |-> q, partners |-> p, rcode |-> 0]
    BY <2>2, <2>7, SetStack
  <2>9. Alone(c) = [top |-> u, stack |-> q, partners |-> Append(p, -1), rcode |-> 0]
    BY <2>8, AloneIs
  <2>3. Opens(b, k + 1) = [top |-> t + 1, stack |-> q, partners |-> Append(p, -1), rcode |-> 0]
    BY <2>6, <2>9, Zenon DEF u
  <2> QED
    BY <2>3, Zenon DEF t, s, p, q
<1>4. /\ stack = [d \in 0 .. MaxDepth - 1 |-> stack[d]] /\ stack[D] = k + 1
      /\ \A d \in 0 .. D - 1 : stack[d] = b.stack[d]
  <2> DEFINE old == b.stack
             e == D
  <2>1. e \in 0 .. MaxDepth - 1 /\ old = [d \in 0 .. MaxDepth - 1 |-> old[d]] /\ stack = [old EXCEPT ![e] = k + 1]
    BY <1>1, <1>2, VisitorsAssumption
  <2> HIDE DEF old, e
  <2>2. /\ stack = [d \in 0 .. MaxDepth - 1 |-> IF d = e THEN k + 1 ELSE old[d]]
    BY <2>1
  <2>3. stack = [d \in 0 .. MaxDepth - 1 |-> stack[d]] /\ stack[e] = k + 1
    BY <2>1, <2>2
  <2>4. \A d \in 0 .. e - 1 : d \in 0 .. MaxDepth - 1 /\ d # e
    BY <1>1, <2>1, VisitorsAssumption
  <2>5. \A d \in 0 .. e - 1 : stack[d] = old[d]
    BY <2>2, <2>4
  <2> HIDE DEF stack
  <2> QED
    BY <2>3, <2>5 DEF e, old
<1>5. /\ partners \in Seq(Int) /\ Len(partners) = k + 1 /\ partners[k + 1] = -1
      /\ \A i \in 1 .. k : partners[i] = b.partners[i]
  <2>1. -1 \in Int
    OBVIOUS
  <2> QED
    BY <1>2, <2>1, AppendProperties
<1> HIDE DEF b2, D, stack, partners
<1>6. Sound(b2, k + 1) /\ b2.top = D + 1 /\ b2.stack = stack /\ b2.partners = partners
  BY <1>3, <1>4, <1>5 DEF Sound
<1>7. b2.top = Deep(txt, k + 1) /\ b2.top <= MaxDepth
  BY <1>1, <1>6, VisitorsAssumption
<1>8. ASSUME NEW d \in 0 .. b2.top - 1 PROVE IsOpen(txt, b2, k + 1, d)
  <2>1. CASE d = D
    <3>1. b2.stack[d] = k + 1 /\ k + 1 \in 1 .. k + 1 /\ \A j \in k + 1 .. k + 1 : j = k + 1
      BY <1>4, <1>6, <2>1
    <3>2. txt[k + 1] = Opened(txt, k + 1)[d + 1] /\ Deep(txt, k + 1) = d + 1 /\ Deep(txt, k + 1) >= d + 1
      BY <1>1, <2>1
    <3> QED
      BY <3>1, <3>2 DEF IsOpen
  <2>2. CASE d # D
    <3>1. d \in 0 .. D - 1 /\ d + 1 \in 1 .. D /\ d \in Nat
      BY <1>1, <1>6, <2>2
    <3>2. b2.stack[d] = b.stack[d] /\ Opened(txt, k + 1)[d + 1] = Opened(txt, k)[d + 1]
      BY <1>1, <1>4, <1>6, <3>1
    <3>3. Deep(txt, k + 1) >= d + 1 /\ IsOpen(txt, b, k, d)
      BY <1>1, <3>1
    <3> QED
      BY <3>1, <3>2, <3>3, OpenKept
  <2> QED
    BY <2>1, <2>2
<1>9. ASSUME NEW i \in 1 .. k + 1
      PROVE  /\ txt[i] \in Openers => IsJoined(txt, b2, k + 1, i) \/ \E d \in 0 .. b2.top - 1 : b2.stack[d] = i
             /\ txt[i] \notin Openers \cup Closers => b2.partners[i] = -1
  <2>1. CASE i = k + 1
    <3>1. D \in 0 .. b2.top - 1 /\ b2.stack[D] = i
      BY <1>1, <1>4, <1>6, <2>1
    <3> QED
      BY <2>1, <3>1
  <2>2. CASE i # k + 1
    <3>1. i \in 1 .. k
      BY <2>2
    <3>2. CASE txt[i] \in Openers
      <4>1. CASE IsJoined(txt, b, k, i)
        <5>1. b2.partners[i] = b.partners[i] /\ \A c \in 1 .. k : b2.partners[c] = b.partners[c]
          BY <1>5, <1>6, <3>1
        <5> QED
          BY <3>1, <3>2, <4>1, <5>1, JoinedKept
      <4>2. CASE \E d \in 0 .. D - 1 : b.stack[d] = i
        <5>1. PICK d \in 0 .. D - 1 : b.stack[d] = i
          BY <4>2
        <5>2. d \in 0 .. b2.top - 1
          BY <1>1, <1>6
        <5>3. b2.stack[d] = i
          BY <1>4, <1>6, <5>1
        <5> QED
          BY <3>2, <5>2, <5>3
      <4> QED
        BY <3>1, <3>2, <4>1, <4>2 DEF Joins, D
    <3>3. CASE txt[i] \notin Openers
      BY <1>5, <1>6, <3>1, <3>3 DEF Joins
    <3> QED
      BY <3>2, <3>3
  <2> QED
    BY <2>1, <2>2
<1>10. Joins(txt, b2, k + 1)
  BY <1>6, <1>7, <1>8, <1>9 DEF Joins
<1> QED
  BY <1>10 DEF b2

\* A closing bracket is joined to the last one on the stack.
LEMMA JoinsClose ==
    ASSUME NEW txt, NEW n \in Nat, Balanced(txt, n), NEW k \in Nat, k < n, NEW b, Joins(txt, b, k),
           txt[k + 1] \in Closers
    PROVE  Joins(txt, Closes(b, k + 1), k + 1)
<1> DEFINE b2 == Closes(b, k + 1)
           D == b.top - 1
           x == b.stack[D]
<1>1. /\ Sound(b, k) /\ b.top = D + 1 /\ b.top = Deep(txt, k) /\ \A d \in 0 .. D : IsOpen(txt, b, k, d)
      /\ D \in Nat /\ D < MaxDepth /\ Deep(txt, k + 1) = D
      /\ Kind(Opened(txt, k)[D + 1]) = Kind(txt[k + 1])
      /\ \A j \in 1 .. D : Opened(txt, k + 1)[j] = Opened(txt, k)[j]
  <2>1. Deep(txt, k) \in Nat /\ Deep(txt, k) > 0 /\ b.top = Deep(txt, k) /\ b.top <= MaxDepth
    BY DeepTurns DEF Joins
  <2>2. D \in Nat /\ b.top = D + 1 /\ D < MaxDepth /\ Deep(txt, k) = D + 1 /\ Deep(txt, k) - 1 = D
    BY <2>1, VisitorsAssumption
  <2>3. Deep(txt, k + 1) = D /\ Kind(Opened(txt, k)[D + 1]) = Kind(txt[k + 1])
    BY <2>2, DeepTurns
  <2>4. \A j \in 1 .. D : Opened(txt, k + 1)[j] = Opened(txt, k)[j]
    BY <2>2, DeepTurns
  <2>5. Sound(b, k) /\ \A d \in 0 .. D : IsOpen(txt, b, k, d)
    BY DEF Joins
  <2> QED
    BY <2>1, <2>2, <2>3, <2>4, <2>5
<1>2. /\ b = [top |-> D + 1, stack |-> b.stack, partners |-> b.partners, rcode |-> 0]
      /\ b.partners \in Seq(Int) /\ Len(b.partners) = k
      /\ b.stack = [d \in 0 .. MaxDepth - 1 |-> b.stack[d]]
  BY <1>1 DEF Sound
<1>3. /\ x \in 1 .. k /\ txt[x] = Opened(txt, k)[D + 1] /\ Deep(txt, x) = D + 1
      /\ \A j \in x .. k : Deep(txt, j) >= D + 1
  BY <1>1 DEF IsOpen
<1> DEFINE joined == [b.partners EXCEPT ![x] = k + 1]
           partners == Append(joined, x)
<1>4. b2 = [top |-> D, stack |-> b.stack, partners |-> partners, rcode |-> 0]
  <2>1. b.top \in Int /\ b.top > 0
    BY <1>1
  <2>2. b.rcode = 0 /\ b = [top |-> b.top, stack |-> b.stack, partners |-> b.partners, rcode |-> b.rcode]
    <3>1. b.top = D + 1
      BY <1>1
    <3> HIDE DEF D
    <3> QED
      BY <1>2, <3>1
  <2>3. Closes(b, k + 1) = [top |-> b.top - 1, stack |-> b.stack,
                            partners |-> Append([b.partners EXCEPT ![b.stack[b.top - 1]] = k + 1],
                                                b.stack[b.top - 1]),
                            rcode |-> b.rcode]
    BY <2>1, <2>2, ClosesIs, Zenon
  <2> QED
    BY <2>2, <2>3, Zenon
<1> HIDE DEF x, D
<1>5. /\ partners \in Seq(Int) /\ Len(partners) = k + 1 /\ partners[k + 1] = x /\ partners[x] = k + 1
      /\ \A i \in 1 .. k : i # x => partners[i] = b.partners[i]
  <2>1. joined \in Seq(Int) /\ Len(joined) = k
    <3>1. k + 1 \in Int /\ x \in 1 .. Len(b.partners)
      BY <1>2, <1>3
    <3> QED
      BY <1>2, <3>1, ExceptSeq
  <2>2. joined[x] = k + 1 /\ \A i \in 1 .. k : i # x => joined[i] = b.partners[i]
    <3>1. DOMAIN b.partners = 1 .. k
      BY <1>2, LenProperties
    <3> QED
      BY <1>3, <3>1
  <2>3. x \in Int
    BY <1>3
  <2> HIDE DEF joined
  <2>4. /\ partners \in Seq(Int) /\ Len(partners) = k + 1 /\ partners[k + 1] = x
        /\ \A i \in 1 .. k : partners[i] = joined[i]
    BY <2>1, <2>3, AppendProperties
  <2> HIDE DEF partners
  <2> QED
    BY <1>3, <2>2, <2>4
<1> HIDE DEF b2, partners, joined
<1>6. Sound(b2, k + 1) /\ b2.top = D /\ b2.stack = b.stack /\ b2.partners = partners
  BY <1>2, <1>4, <1>5 DEF Sound
<1>7. b2.top = Deep(txt, k + 1) /\ b2.top <= MaxDepth
  BY <1>1, <1>6, VisitorsAssumption
<1>8. ASSUME NEW d \in 0 .. b2.top - 1 PROVE IsOpen(txt, b2, k + 1, d)
  <2>1. d \in 0 .. D /\ d + 1 \in 1 .. D /\ d \in Nat
    BY <1>1, <1>6
  <2>2. b2.stack[d] = b.stack[d] /\ Opened(txt, k + 1)[d + 1] = Opened(txt, k)[d + 1]
    BY <1>1, <1>6, <2>1
  <2>3. Deep(txt, k + 1) >= d + 1 /\ IsOpen(txt, b, k, d)
    BY <1>1, <2>1
  <2> QED
    BY <2>1, <2>2, <2>3, OpenKept
<1>9. txt[x] \in Openers /\ x # k + 1
  <2>1. Opened(txt, k) \in Seq(Openers) /\ D + 1 \in 1 .. Len(Opened(txt, k))
    <3>1. k \in 0 .. n
      OBVIOUS
    <3> QED
      BY <1>1, <3>1, OpenedSeq DEF Deep
  <2> QED
    BY <1>3, <2>1, ElementOfSeq
<1>10. ASSUME NEW i \in 1 .. k + 1
       PROVE  /\ txt[i] \in Openers => IsJoined(txt, b2, k + 1, i) \/ \E d \in 0 .. b2.top - 1 : b2.stack[d] = i
              /\ txt[i] \notin Openers \cup Closers => b2.partners[i] = -1
  <2>1. CASE i = k + 1
    BY <2>1, Apart
  <2>2. CASE i = x
    <3>1. k + 1 \in x + 1 .. k + 1 /\ k + 1 - 1 = k
      BY <1>3
    <3>2. b2.partners[x] = k + 1 /\ b2.partners[k + 1] = x
      BY <1>5, <1>6
    <3>3. Kind(txt[x]) = Kind(txt[k + 1]) /\ Deep(txt, k + 1) = Deep(txt, x) - 1
      BY <1>1, <1>3
    <3>4. \A j \in x .. (k + 1) - 1 : Deep(txt, j) >= Deep(txt, x)
      BY <1>3, <3>1
    <3>5. IsJoined(txt, b2, k + 1, x)
      BY <3>1, <3>2, <3>3, <3>4 DEF IsJoined
    <3> QED
      BY <1>9, <2>2, <3>5
  <2>3. CASE i \in 1 .. k /\ i # x
    <3>1. b2.partners[i] = b.partners[i]
      BY <1>5, <1>6, <2>3
    <3>2. CASE txt[i] \in Openers
      <4>1. CASE IsJoined(txt, b, k, i)
        <5>1. \A c \in 1 .. k : txt[c] \in Closers => b2.partners[c] = b.partners[c]
          BY <1>5, <1>6, <1>9, Apart
        <5> QED
          BY <2>3, <3>1, <3>2, <4>1, <5>1, JoinedKept
      <4>2. CASE \E d \in 0 .. b.top - 1 : b.stack[d] = i
        <5>1. PICK d \in 0 .. b.top - 1 : b.stack[d] = i
          BY <4>2
        <5>2. d # D
          BY <2>3, <5>1 DEF x
        <5>3. d \in 0 .. b2.top - 1 /\ b2.stack[d] = i
          BY <1>1, <1>6, <5>1, <5>2
        <5> QED
          BY <3>2, <5>3
      <4> QED
        BY <2>3, <3>2, <4>1, <4>2 DEF Joins
    <3>3. CASE txt[i] \notin Openers
      BY <2>3, <3>1, <3>3 DEF Joins
    <3> QED
      BY <3>2, <3>3
  <2> QED
    BY <2>1, <2>2, <2>3
<1>11. Joins(txt, b2, k + 1)
  BY <1>6, <1>7, <1>8, <1>10 DEF Joins
<1> QED
  BY <1>11 DEF b2

LEMMA JoinsAlone ==
    ASSUME NEW txt, NEW n \in Nat, Balanced(txt, n), NEW k \in Nat, k < n, NEW b, Joins(txt, b, k),
           txt[k + 1] \notin Openers \cup Closers
    PROVE  Joins(txt, Alone(b), k + 1)
<1> DEFINE b2 == Alone(b)
           D == b.top
           partners == Append(b.partners, -1)
<1>1. /\ Sound(b, k) /\ D = Deep(txt, k) /\ \A d \in 0 .. D - 1 : IsOpen(txt, b, k, d)
      /\ D \in Nat /\ D <= MaxDepth /\ Opened(txt, k + 1) = Opened(txt, k) /\ Deep(txt, k + 1) = D
  BY DeepTurns DEF Joins, Deep
<1>2. /\ b = [top |-> D, stack |-> b.stack, partners |-> b.partners, rcode |-> 0]
      /\ b.stack = [d \in 0 .. MaxDepth - 1 |-> b.stack[d]]
      /\ b.partners \in Seq(Int) /\ Len(b.partners) = k
  BY <1>1 DEF Sound
<1>3. b2 = [top |-> D, stack |-> b.stack, partners |-> partners, rcode |-> 0]
  <2> DEFINE t == D
             s == b.stack
             p == b.partners
  <2>1. b = [top |-> t, stack |-> s, partners |-> p, rcode |-> 0]
    BY <1>2
  <2> HIDE DEF t, s, p
  <2>2. Alone(b) = [top |-> t, stack |-> s, partners |-> Append(p, -1), rcode |-> 0]
    BY <2>1, AloneIs
  <2> QED
    BY <2>2, Zenon DEF t, s, p
<1>5. /\ partners \in Seq(Int) /\ Len(partners) = k + 1 /\ partners[k + 1] = -1
      /\ \A i \in 1 .. k : partners[i] = b.partners[i]
  <2>1. -1 \in Int
    OBVIOUS
  <2> QED
    BY <1>2, <2>1, AppendProperties
<1> HIDE DEF b2, D, partners
<1>6. Sound(b2, k + 1) /\ b2.top = D /\ b2.stack = b.stack /\ b2.partners = partners
  BY <1>2, <1>3, <1>5 DEF Sound
<1>7. b2.top = Deep(txt, k + 1) /\ b2.top <= MaxDepth
  BY <1>1, <1>6
<1>8. ASSUME NEW d \in 0 .. b2.top - 1 PROVE IsOpen(txt, b2, k + 1, d)
  <2>1. d \in 0 .. D - 1 /\ d \in Nat
    BY <1>1, <1>6
  <2>2. b2.stack[d] = b.stack[d] /\ Opened(txt, k + 1)[d + 1] = Opened(txt, k)[d + 1]
    BY <1>1, <1>6
  <2>3. Deep(txt, k + 1) >= d + 1 /\ IsOpen(txt, b, k, d)
    BY <1>1, <2>1
  <2> QED
    BY <2>1, <2>2, <2>3, OpenKept
<1>9. ASSUME NEW i \in 1 .. k + 1
      PROVE  /\ txt[i] \in Openers => IsJoined(txt, b2, k + 1, i) \/ \E d \in 0 .. b2.top - 1 : b2.stack[d] = i
             /\ txt[i] \notin Openers \cup Closers => b2.partners[i] = -1
  <2>1. CASE i = k + 1
    BY <1>5, <1>6, <2>1
  <2>2. CASE i # k + 1
    <3>1. i \in 1 .. k
      BY <2>2
    <3>2. CASE txt[i] \in Openers
      <4>1. CASE IsJoined(txt, b, k, i)
        <5>1. b2.partners[i] = b.partners[i] /\ \A c \in 1 .. k : b2.partners[c] = b.partners[c]
          BY <1>5, <1>6, <3>1
        <5> QED
          BY <3>1, <3>2, <4>1, <5>1, JoinedKept
      <4>2. CASE \E d \in 0 .. D - 1 : b.stack[d] = i
        <5>1. PICK d \in 0 .. D - 1 : b.stack[d] = i
          BY <4>2
        <5>2. d \in 0 .. b2.top - 1
          BY <1>6
        <5>3. b2.stack[d] = i
          BY <1>6, <5>1
        <5> QED
          BY <3>2, <5>2, <5>3
      <4> QED
        BY <3>1, <3>2, <4>1, <4>2 DEF Joins, D
    <3>3. CASE txt[i] \notin Openers
      BY <1>5, <1>6, <3>1, <3>3 DEF Joins
    <3> QED
      BY <3>2, <3>3
  <2> QED
    BY <2>1, <2>2
<1>10. Joins(txt, b2, k + 1)
  BY <1>6, <1>7, <1>8, <1>9 DEF Joins
<1> QED
  BY <1>10 DEF b2

-----------------------------------------------------------------------------
(* The run of the checker *)

LEMMA VisitIs ==
    ASSUME NEW b, NEW i, NEW tk
    PROVE  /\ b.rcode # 0 => mctbc_visit(b, i, tk) = b
           /\ b.rcode = 0 /\ tk \in Openers => mctbc_visit(b, i, tk) = Opens(b, i)
           /\ b.rcode = 0 /\ tk \in Closers => mctbc_visit(b, i, tk) = Closes(b, i)
           /\ b.rcode = 0 /\ tk \notin Openers \cup Closers => mctbc_visit(b, i, tk) = Alone(b)
BY Apart DEF mctbc_visit

LEMMA SoundCode == ASSUME NEW b, NEW k, Sound(b, k) PROVE b.rcode = 0
BY DEF Sound

\* Up to where nothing is nested too deep, the checker has joined what is closed.
LEMMA SeenJoins ==
    ASSUME NEW txt, NEW n \in Nat, Balanced(txt, n), NEW m \in 0 .. n,
           \A j \in 0 .. m : Deep(txt, j) <= MaxDepth
    PROVE  Joins(txt, Seen(txt, m), m)
<1> DEFINE S == {k \in Nat : k <= m => Joins(txt, Seen(txt, k), k)}
<1>1. 0 \in S
  BY JoinsNone, SeenIs
<1>2. ASSUME NEW k \in Nat, k \in S PROVE k + 1 \in S
  <2> SUFFICES ASSUME k + 1 <= m PROVE Joins(txt, Seen(txt, k + 1), k + 1)
    OBVIOUS
  <2> DEFINE b == Seen(txt, k)
             tk == txt[k + 1]
  <2>1. Joins(txt, b, k) /\ k < n
    BY <1>2
  <2>2. b.rcode = 0
    BY <2>1, SoundCode DEF Joins
  <2>3. Seen(txt, k + 1) = mctbc_visit(b, k + 1, tk)
    BY SeenIs
  <2> HIDE DEF b
  <2>4. CASE tk \in Openers
    <3>1. Deep(txt, k) < MaxDepth
      <4>1. Deep(txt, k + 1) = Deep(txt, k) + 1 /\ Deep(txt, k) \in Nat
        BY <2>1, <2>4, DeepTurns
      <4>2. Deep(txt, k + 1) <= MaxDepth
        OBVIOUS
      <4> QED
        BY <4>1, <4>2, VisitorsAssumption
    <3>2. Seen(txt, k + 1) = Opens(b, k + 1)
      BY <2>2, <2>3, <2>4, VisitIs
    <3> QED
      BY <2>1, <2>4, <3>1, <3>2, JoinsOpen
  <2>5. CASE tk \in Closers
    <3>1. Seen(txt, k + 1) = Closes(b, k + 1)
      BY <2>2, <2>3, <2>5, VisitIs
    <3> QED
      BY <2>1, <2>5, <3>1, JoinsClose
  <2>6. CASE tk \notin Openers \cup Closers
    <3>1. Seen(txt, k + 1) = Alone(b)
      BY <2>2, <2>3, <2>6, VisitIs
    <3> QED
      BY <2>1, <2>6, <3>1, JoinsAlone
  <2> QED
    BY <2>4, <2>5, <2>6
<1>3. \A k \in Nat : k \in S
  <2> HIDE DEF S
  <2> QED
    BY <1>1, <1>2, BcRun!Induct
<1> QED
  BY <1>3

\* A checker that has refused the text stays with it.
LEMMA SeenRefused ==
    ASSUME NEW txt, NEW i \in Nat, Seen(txt, i).rcode # 0
    PROVE  \A k \in Nat : Seen(txt, i + k) = Seen(txt, i)
<1> DEFINE S == {k \in Nat : Seen(txt, i + k) = Seen(txt, i)}
<1>1. 0 \in S
  <2>1. i + 0 = i
    OBVIOUS
  <2> QED
    BY <2>1
<1>2. ASSUME NEW k \in Nat, k \in S PROVE k + 1 \in S
  <2> DEFINE m == i + k
  <2>1. m \in Nat /\ i + (k + 1) = m + 1 /\ Seen(txt, m) = Seen(txt, i)
    BY <1>2
  <2> HIDE DEF m
  <2>2. Seen(txt, m + 1) = mctbc_visit(Seen(txt, m), m + 1, txt[m + 1])
    BY <2>1, SeenIs
  <2>3. Seen(txt, m + 1) = Seen(txt, m)
    BY <2>1, <2>2, VisitIs
  <2> QED
    BY <2>1, <2>3
<1>3. \A k \in Nat : k \in S
  <2> HIDE DEF S
  <2> QED
    BY <1>1, <1>2, BcRun!Induct
<1> QED
  BY <1>3

\* What is nested too deep is refused.
LEMMA DeepRefused ==
    ASSUME NEW txt, NEW n \in Nat, Balanced(txt, n), Len(txt) = n,
           \E i \in 1 .. n : Deep(txt, i) > MaxDepth
    PROVE  tkv_run(txt).rcode = -1
<1> DEFINE S == {i \in 1 .. n : Deep(txt, i) > MaxDepth}
<1>1. PICK i \in S : \A j \in S : i <= j
  <2>1. S \in SUBSET Nat /\ S # {}
    OBVIOUS
  <2> HIDE DEF S
  <2> QED
    BY <2>1, OpenRun!LeastNat
<1>2. i \in 1 .. n /\ Deep(txt, i) > MaxDepth
  OBVIOUS
<1> DEFINE k == i - 1
<1>3. k \in Nat /\ k < n /\ i = k + 1 /\ k \in 0 .. n
  BY <1>2
<1>4. \A j \in 0 .. k : Deep(txt, j) <= MaxDepth
  <2> TAKE j \in 0 .. k
  <2>1. CASE j = 0
    <3>1. Deep(txt, 0) = 0
      BY OpenedIs DEF Deep
    <3> QED
      BY <2>1, <3>1, VisitorsAssumption
  <2>2. CASE j # 0
    <3>1. j \in 1 .. n /\ ~(i <= j) /\ j \in 0 .. n
      BY <1>3, <2>2
    <3>2. ~(Deep(txt, j) > MaxDepth)
      BY <1>1, <3>1
    <3>3. Deep(txt, j) \in Nat
      BY <3>1, OpenedSeq
    <3> QED
      BY <3>2, <3>3, VisitorsAssumption
  <2> QED
    BY <2>1, <2>2
<1> DEFINE b == Seen(txt, k)
<1> HIDE DEF k
<1>5. Joins(txt, b, k)
  BY <1>3, <1>4, SeenJoins
<1>6. b.rcode = 0 /\ b.top = Deep(txt, k)
  BY <1>5, SoundCode DEF Joins
<1>7. txt[i] \in Openers /\ Deep(txt, k) >= MaxDepth
  <2>1. Deep(txt, k) <= MaxDepth /\ Deep(txt, k) \in Nat /\ Deep(txt, k + 1) \in Nat /\ Deep(txt, k + 1) > MaxDepth
    BY <1>2, <1>3, <1>4, DeepTurns
  <2>2. txt[k + 1] \in Closers => Deep(txt, k + 1) = Deep(txt, k) - 1
    BY <1>3, DeepTurns
  <2>3. txt[k + 1] \notin Openers \cup Closers => Deep(txt, k + 1) = Deep(txt, k)
    BY <1>3, DeepTurns, SMTT(30) DEF Deep
  <2>4. txt[k + 1] \in Openers
    BY <2>1, <2>2, <2>3, VisitorsAssumption
  <2>5. Deep(txt, k + 1) = Deep(txt, k) + 1
    BY <1>3, <2>4, DeepTurns
  <2> QED
    BY <1>3, <2>1, <2>4, <2>5, VisitorsAssumption
<1> HIDE DEF b
<1>8. Seen(txt, i) = Refuse(b)
  <2>1. Seen(txt, k + 1) = mctbc_visit(b, k + 1, txt[k + 1])
    BY <1>3, SeenIs DEF b
  <2>2. mctbc_visit(b, k + 1, txt[k + 1]) = Opens(b, k + 1)
    BY <1>3, <1>6, <1>7, VisitIs
  <2>3. Opens(b, k + 1) = Refuse(b)
    BY <1>6, <1>7 DEF Opens
  <2> QED
    BY <1>3, <2>1, <2>2, <2>3
<1>9. Seen(txt, i).rcode = -1
  <2>1. b = [top |-> b.top, stack |-> b.stack, partners |-> b.partners, rcode |-> 0]
    BY <1>5 DEF Joins, Sound
  <2>2. Refuse(b).rcode = -1
    BY <2>1 DEF Refuse
  <2> QED
    BY <1>8, <2>2
<1>10. Seen(txt, n) = Seen(txt, i)
  <2>1. n - i \in Nat /\ i + (n - i) = n /\ i \in Nat
    BY <1>2
  <2>2. Seen(txt, i).rcode # 0
    BY <1>9
  <2> QED
    BY <2>1, <2>2, SeenRefused
<1>11. tkv_run(txt) = mctbc_deinit(Seen(txt, n))
  BY SeenIs
<1>12. mctbc_deinit(Seen(txt, n)) = Seen(txt, n)
  BY <1>9, <1>10 DEF mctbc_deinit
<1> QED
  BY <1>9, <1>10, <1>11, <1>12

-----------------------------------------------------------------------------
(* The depth of a token *)

Among(set, i) == {j \in 1 .. i : text[j] \in set}

LEMMA AmongMore ==
    ASSUME NEW set, NEW i \in Nat
    PROVE  /\ IsFiniteSet(Among(set, i)) /\ Cardinality(Among(set, i)) \in Nat
           /\ text[i + 1] \in set => Cardinality(Among(set, i + 1)) = Cardinality(Among(set, i)) + 1
           /\ text[i + 1] \notin set => Among(set, i + 1) = Among(set, i)
<1>1. IsFiniteSet(Among(set, i)) /\ Cardinality(Among(set, i)) \in Nat
  <2>1. IsFiniteSet(1 .. i)
    <3>1. 1 \in Int /\ i \in Int
      OBVIOUS
    <3> QED
      BY <3>1, FS_Interval
  <2>2. Among(set, i) \in SUBSET (1 .. i)
    BY DEF Among
  <2>3. IsFiniteSet(Among(set, i))
    BY <2>1, <2>2, FS_Subset
  <2> QED
    BY <2>3, FS_CardinalityType
<1>2. ASSUME text[i + 1] \in set PROVE Cardinality(Among(set, i + 1)) = Cardinality(Among(set, i)) + 1
  <2>1. Among(set, i + 1) = Among(set, i) \cup {i + 1} /\ i + 1 \notin Among(set, i)
    BY <1>2 DEF Among
  <2> QED
    BY <1>1, <2>1, FS_AddElement
<1>3. ASSUME text[i + 1] \notin set PROVE Among(set, i + 1) = Among(set, i)
  BY <1>3 DEF Among
<1> QED
  BY <1>1, <1>2, <1>3

\* In a balanced text the depth is the number of open brackets.
LEMMA DepthIs ==
    ASSUME NEW n \in Nat, Balanced(text, n)
    PROVE  \A i \in 0 .. n : Depth(i) = Deep(text, i)
<1> DEFINE Up(i) == Cardinality(Among(Openers, i))
           Down(i) == Cardinality(Among(Closers, i))
           S == {i \in Nat : i <= n => Up(i) - Down(i) = Deep(text, i)}
<1>1. \A i : Depth(i) = Up(i) - Down(i)
  BY DEF Depth, Among
<1>2. \A i \in Nat : Up(i) \in Nat /\ Down(i) \in Nat
  BY AmongMore
<1>3. Up(0) = 0 /\ Down(0) = 0
  <2>1. Among(Openers, 0) = {} /\ Among(Closers, 0) = {}
    BY DEF Among
  <2> QED
    BY <2>1, FS_EmptySet
<1>4. \A i \in Nat :
         /\ text[i + 1] \in Openers => Up(i + 1) = Up(i) + 1 /\ Down(i + 1) = Down(i)
         /\ text[i + 1] \in Closers => Up(i + 1) = Up(i) /\ Down(i + 1) = Down(i) + 1
         /\ text[i + 1] \notin Openers \cup Closers => Up(i + 1) = Up(i) /\ Down(i + 1) = Down(i)
  BY AmongMore, Apart
<1> HIDE DEF Up, Down
<1>5. 0 \in S
  <2>1. Deep(text, 0) = 0
    BY OpenedIs DEF Deep
  <2> QED
    BY <1>3, <2>1
<1>6. ASSUME NEW i \in Nat, i \in S PROVE i + 1 \in S
  <2> SUFFICES ASSUME i + 1 <= n PROVE Up(i + 1) - Down(i + 1) = Deep(text, i + 1)
    OBVIOUS
  <2>1. Up(i) - Down(i) = Deep(text, i) /\ i < n
    BY <1>6
  <2>2. Up(i) \in Nat /\ Down(i) \in Nat
    BY <1>2
  <2>3. CASE text[i + 1] \in Openers
    <3>1. Deep(text, i + 1) = Deep(text, i) + 1
      BY <2>1, <2>3, DeepTurns
    <3> QED
      BY <1>4, <2>1, <2>2, <2>3, <3>1
  <2>4. CASE text[i + 1] \in Closers
    <3>1. Deep(text, i + 1) = Deep(text, i) - 1
      BY <2>1, <2>4, DeepTurns
    <3> QED
      BY <1>4, <2>1, <2>2, <2>4, <3>1
  <2>5. CASE text[i + 1] \notin Openers \cup Closers
    <3>1. Deep(text, i + 1) = Deep(text, i)
      BY <2>1, <2>5, DeepTurns DEF Deep
    <3> QED
      BY <1>4, <2>1, <2>2, <2>5, <3>1
  <2> QED
    BY <2>3, <2>4, <2>5
<1>7. \A i \in Nat : i \in S
  <2> HIDE DEF S
  <2> QED
    BY <1>5, <1>6, BcRun!Induct
<1> QED
  BY <1>1, <1>7

-----------------------------------------------------------------------------
(* The whole program *)

LEMMA RunNowhere == ASSUME NEW s, NEW t, Run(<<>>, s, t) PROVE s = t
<1>1. Len(<<>>) + 1 = 1
  OBVIOUS
<1> QED
  BY <1>1 DEF Run

\* What the checker makes of a text that is balanced and closed.
LEMMA BalancedChecked ==
    ASSUME NEW txt, txt = SubSeq(text, 1, pos), pos \in Nat, Len(txt) = pos,
           \A i \in 1 .. pos : txt[i] = text[i],
           Balanced(text, pos), Opened(text, pos) = <<>>
    PROVE  Checked(tkv_run(txt))
<1>1. Balanced(txt, pos)
  BY BalancedSame
<1>2. \A i \in 0 .. pos : Opened(txt, i) = Opened(text, i)
  BY OpenedSame
<1>3. \A i \in 0 .. pos : Depth(i) = Deep(txt, i) /\ Depth(i) \in Nat
  <2> TAKE i \in 0 .. pos
  <2>1. Depth(i) = Deep(text, i)
    BY DepthIs
  <2>2. Deep(text, i) = Deep(txt, i)
    BY <1>2 DEF Deep
  <2>3. Deep(txt, i) \in Nat
    BY <1>1, OpenedSeq
  <2> QED
    BY <2>1, <2>2, <2>3
<1> DEFINE bc == tkv_run(txt)
<1>4. CASE \E i \in 1 .. pos : Depth(i) > MaxDepth
  <2>1. \E i \in 1 .. pos : Deep(txt, i) > MaxDepth
    BY <1>3, <1>4
  <2>2. bc.rcode = -1
    BY <1>1, <2>1, DeepRefused
  <2> QED
    BY <1>4, <2>2 DEF Checked
<1>5. CASE ~\E i \in 1 .. pos : Depth(i) > MaxDepth
  <2>1. \A j \in 0 .. pos : Deep(txt, j) <= MaxDepth
    <3> TAKE j \in 0 .. pos
    <3>1. CASE j = 0
      <4>1. Deep(txt, 0) = 0
        BY OpenedIs DEF Deep
      <4> QED
        BY <3>1, <4>1, VisitorsAssumption
    <3>2. CASE j # 0
      BY <1>3, <1>5, <3>2, VisitorsAssumption
    <3> QED
      BY <3>1, <3>2
  <2> DEFINE b == Seen(txt, pos)
  <2>2. Joins(txt, b, pos) /\ pos \in 0 .. pos
    BY <1>1, <2>1, SeenJoins
  <2>3. b.rcode = 0 /\ b.top = 0
    <3>1. Opened(txt, pos) = <<>>
      BY <1>2, <2>2
    <3>2. Deep(txt, pos) = 0
      BY <3>1 DEF Deep
    <3> QED
      BY <2>2, <3>2, SoundCode DEF Joins
  <2>4. bc = b
    <3>1. bc = mctbc_deinit(b)
      BY SeenIs
    <3> HIDE DEF b
    <3> QED
      BY <2>3, <3>1 DEF mctbc_deinit
  <2> HIDE DEF b, bc
  <2>5. ASSUME NEW i \in 1 .. pos, text[i] \in Openers PROVE Paired(b.partners, i)
    <3>1. IsJoined(txt, b, pos, i)
      BY <2>2, <2>3, <2>5 DEF Joins
    <3>2. PICK c \in i + 1 .. pos :
              /\ Kind(txt[i]) = Kind(txt[c])
              /\ b.partners[i] = c /\ b.partners[c] = i
              /\ Deep(txt, c) = Deep(txt, i) - 1
              /\ \A j \in i .. c - 1 : Deep(txt, j) >= Deep(txt, i)
      BY <3>1 DEF IsJoined
    <3>3. Depth(c) = Depth(i) - 1 /\ \A k \in i + 1 .. c - 1 : Depth(k) >= Depth(i)
      <4>1. Depth(c) = Deep(txt, c) /\ Depth(i) = Deep(txt, i)
        BY <1>3
      <4>2. ASSUME NEW k \in i + 1 .. c - 1 PROVE Depth(k) >= Depth(i)
        <5>1. k \in i .. c - 1 /\ k \in 0 .. pos
          OBVIOUS
        <5> QED
          BY <1>3, <3>2, <4>1, <5>1
      <4> QED
        BY <3>2, <4>1, <4>2
    <3>4. ASSUME NEW j \in i + 1 .. pos, Depth(j) = Depth(i) - 1,
                 \A k \in i + 1 .. j - 1 : Depth(k) >= Depth(i)
          PROVE  j = c
      <4>1. Depth(i) \in Nat /\ ~(Depth(i) - 1 >= Depth(i))
        BY <1>3
      <4>2. ~(c < j)
        <5> SUFFICES ASSUME c < j PROVE FALSE
          OBVIOUS
        <5>1. c \in i + 1 .. j - 1
          OBVIOUS
        <5> QED
          BY <3>3, <3>4, <4>1, <5>1
      <4>3. ~(j < c)
        <5> SUFFICES ASSUME j < c PROVE FALSE
          OBVIOUS
        <5>1. j \in i + 1 .. c - 1
          OBVIOUS
        <5> QED
          BY <3>3, <3>4, <4>1, <5>1
      <4> QED
        BY <4>2, <4>3
    <3>5. Closer(i) = c
      BY <3>3, <3>4 DEF Closer
    <3>6. Kind(text[i]) = Kind(text[c])
      <4>1. i \in 1 .. pos /\ c \in 1 .. pos
        OBVIOUS
      <4> QED
        BY <3>2, <4>1
    <3> QED
      BY <3>2, <3>5, <3>6 DEF Paired
  <2>6. ASSUME NEW i \in 1 .. pos, text[i] \notin Openers, text[i] \notin Closers PROVE b.partners[i] = -1
    <3>1. txt[i] \notin Openers \cup Closers
      BY <2>6
    <3> QED
      BY <2>2, <3>1 DEF Joins
  <2>7. Checked(b)
    BY <1>5, <2>3, <2>5, <2>6 DEF Checked
  <2> QED
    BY <2>4, <2>7 DEF bc
<1> QED
  BY <1>4, <1>5

LEMMA InvBrackets == ASSUME ParseInv PROVE BracketsPair
<1> SUFFICES ASSUME Accepted, ~lost, CURTKN = "eos" PROVE Checked(tkv_run(SubSeq(text, 1, pos)))
  BY DEF BracketsPair
<1>1. agenda = <<>> /\ ~error
  BY DEF Accepted, Ended, ParseInv, ErrorInv
<1>2. PICK s \in Points, t \in Points : Run(agenda, s, t) /\ t.open = <<>> /\ Holds(s)
  BY <1>1 DEF ParseInv, AgendaInv
<1>3. s = t
  BY <1>1, <1>2, RunNowhere
<1> DEFINE n == pos - 1
<1>4. Balanced(text, n) /\ Opened(text, n) = <<>>
  BY <1>2, <1>3 DEF Holds
<1>5. n \in Nat /\ n + 1 = pos /\ pos \in 1 .. Len(text) /\ Len(text) \in Nat
  BY LenProperties DEF ParseInv, TextInv
<1>6. text[n + 1] \notin Openers \cup Closers
  <2>1. "eos" \notin Openers \cup Closers
    BY DEF Openers, Closers
  <2> QED
    BY <1>5, <2>1 DEF CURTKN
<1> HIDE DEF n
<1>7. Balanced(text, pos)
  BY <1>4, <1>5, <1>6, BalancedMore
<1>8. Opened(text, pos) = <<>>
  <2>1. Opened(text, n + 1) = Turn(Opened(text, n), text[n + 1])
    BY <1>5, OpenedIs
  <2>2. Turn(Opened(text, n), text[n + 1]) = Opened(text, n)
    BY <1>6 DEF Turn
  <2> QED
    BY <1>4, <1>5, <2>1, <2>2
<1> DEFINE txt == SubSeq(text, 1, pos)
<1>9. Len(txt) = pos /\ \A i \in 1 .. pos : txt[i] = text[i]
  <2>1. PICK T : text \in Seq(T)
    BY DEF ParseInv, TextInv
  <2>2. \A i \in 1 .. pos : text[i] \in T
    BY <1>5, <2>1, ElementOfSeq
  <2>3. 1 \in Int /\ pos \in Int /\ 1 <= pos /\ pos - 1 + 1 = pos
    BY <1>5
  <2> QED
    BY <2>2, <2>3, SubSeqProperties
<1>10. pos \in Nat
  BY <1>5
<1> HIDE DEF txt
<1>11. txt = SubSeq(text, 1, pos)
  BY DEF txt
<1>12. Checked(tkv_run(txt))
  BY <1>7, <1>8, <1>9, <1>10, <1>11, BalancedChecked
<1> QED
  BY <1>12 DEF txt

(***************************************************************************)
(* For any text the parser takes whole, in any heap, and any limit of      *)
(* depth: the checker refuses the text exactly when it is nested deeper    *)
(* than its stack, and otherwise joins each bracket to the one that closes *)
(* it, of the same kind, although it only counts them.                     *)
(***************************************************************************)
THEOREM BracketsJoined == Spec => []BracketsPair
<1>1. ParseInv => BracketsPair
  BY InvBrackets
<1> QED
  BY <1>1, ParseSafe, PTL
=============================================================================
