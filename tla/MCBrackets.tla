----------------------------- MODULE MCBrackets -----------------------------
(***************************************************************************)
(* The bracket checker that comes with the compiler, run over the tokens   *)
(* of a whole program as visitors/mcxt.c:8-43 runs it, before they are     *)
(* parsed.                                                                 *)
(***************************************************************************)
EXTENDS MCParse

CONSTANTS
    MaxDepth    \* max_depth, and the places of the stack

ASSUME VisitorsAssumption == MaxDepth \in Nat

-----------------------------------------------------------------------------
(* visitors/tokens/mctbracketchecker.c.  A token without a partner has none *)
(* in the table partners; rcode is what the run returns.                    *)

Openers == {"(", "[", "{"}
Closers == {")", "]", "}"}

mctbc_init == [top |-> 0, stack |-> [d \in 0 .. MaxDepth - 1 |-> 0], partners |-> <<>>, rcode |-> 0]

Refuse(bc) == [bc EXCEPT !.rcode = -1]
Alone(bc) == [bc EXCEPT !.partners = Append(@, -1)]

Opens(bc, idx) ==
    IF bc.top >= MaxDepth THEN Refuse(bc)
    ELSE Alone([bc EXCEPT !.stack[bc.top] = idx, !.top = @ + 1])

Joined(bc, opener, idx) == [bc EXCEPT !.partners = Append([@ EXCEPT ![opener] = idx], opener)]
ClosesAbove(bc, idx) ==   \* mutant: the stack is read before top comes down
    IF bc.top <= 0 THEN Refuse(bc)
    ELSE Joined([bc EXCEPT !.top = @ - 1], bc.stack[bc.top % MaxDepth], idx)
Closes(bc, idx) ==
    IF bc.top <= 0 THEN Refuse(bc)
    ELSE Joined([bc EXCEPT !.top = @ - 1], bc.stack[bc.top - 1], idx)

mctbc_visit(bc, idx, tk) ==
    CASE bc.rcode # 0 -> bc
      [] bc.rcode = 0 /\ tk \in Openers -> Opens(bc, idx)
      [] bc.rcode = 0 /\ tk \in Closers -> Closes(bc, idx)
      [] OTHER -> Alone(bc)

mctbc_deinit(bc) == IF bc.rcode = 0 /\ bc.top # 0 THEN Refuse(bc) ELSE bc

tkv_run(tokens) ==
    LET bc[idx \in Nat] == IF idx = 0 THEN mctbc_init ELSE mctbc_visit(bc[idx - 1], idx, tokens[idx])
    IN  mctbc_deinit(bc[Len(tokens)])

-----------------------------------------------------------------------------
(* The property *)

\* How deep a token lies, an opener inside what it opens.
Depth(i) ==
    Cardinality({j \in 1 .. i : text[j] \in Openers}) - Cardinality({j \in 1 .. i : text[j] \in Closers})
Kind(tk) == CASE tk \in {"(", ")"} -> 1 [] tk \in {"[", "]"} -> 2 [] tk \in {"{", "}"} -> 3

Closer(i) == CHOOSE j \in i + 1 .. pos : /\ Depth(j) = Depth(i) - 1
                                         /\ \A k \in i + 1 .. j - 1 : Depth(k) >= Depth(i)
Paired(partners, i) ==
    /\ partners[i] = Closer(i) /\ partners[Closer(i)] = i
    /\ Kind(text[i]) = Kind(text[Closer(i)])

\* For a program the parser takes to its end, the checker refuses what is nested too deep and
\* nothing else, and joins every bracket to the one that closes it, of its own
\* kind although only the order is looked at (mctbracketchecker.c:17-57).
Checked(bc) ==
    IF \E i \in 1 .. pos : Depth(i) > MaxDepth THEN bc.rcode = -1
    ELSE bc.rcode = 0 /\ \A i \in 1 .. pos : IF text[i] \in Openers THEN Paired(bc.partners, i)
                                             ELSE text[i] \notin Closers => bc.partners[i] = -1
BracketsPair == Accepted /\ ~lost /\ CURTKN = "eos" => Checked(tkv_run(SubSeq(text, 1, pos)))
=============================================================================
