----------------------------- MODULE MCVisitors -----------------------------
(***************************************************************************)
(* The remover of unreachable code that comes with the compiler, run over  *)
(* the tree of a whole program as visitors/mcxt.c:39-82 runs it.  The      *)
(* other visitor is MCBrackets.  MCXt models how visitors are loaded and   *)
(* what becomes of the numbers they return.                                *)
(***************************************************************************)
EXTENDS MCParseProps, MCBrackets

-----------------------------------------------------------------------------
(* visitors/ast/mcunreach.c, called for every node on the way down *)

Terminators == {"return", "break", "goto"}

Ending(kids) == SelectInSeq(kids, LAMBDA kid : kid.type \in Terminators)
CutBefore(kids) ==   \* mutant: the terminator goes as well
    IF Ending(kids) = 0 THEN kids ELSE SubSeq(kids, 1, Ending(kids) - 1)
CutAfter(kids) == IF Ending(kids) = 0 THEN kids ELSE SubSeq(kids, 1, Ending(kids))

unreach_visit(node) == IF node.type # "block" THEN node ELSE [node EXCEPT !.kids = CutAfter(@)]

RECURSIVE astv_walk(_)
Below(node) == [node EXCEPT !.kids = [i \in DOMAIN @ |-> astv_walk(@[i])]]
astv_walk(node) == Below(unreach_visit(node))

-----------------------------------------------------------------------------
(* Properties *)

\* The statements that can run, as paths from the root: the first of a block, and
\* those behind a statement that control may leave at its end.
RECURSIVE Falls(_)
Falls(node) ==
    CASE node.type \in Terminators -> FALSE
      [] node.type \in {"block", "do"} -> \A i \in DOMAIN node.kids : Falls(node.kids[i])
      [] OTHER -> TRUE
Runs(node, i) == node.type # "block" \/ \A j \in 1 .. i - 1 : Falls(node.kids[j])

RECURSIVE Running(_, _)
Running(node, path) ==
    {path} \cup UNION {Running(node.kids[i], Append(path, i)) : i \in {i \in DOMAIN node.kids : Runs(node, i)}}

RECURSIVE Hides(_)
Hides(node) ==
    \/ node.type = "block" /\ \E i, j \in DOMAIN node.kids :
           i < j /\ node.kids[i].type \in Terminators /\ node.kids[j].type = "label"
    \/ \E i \in DOMAIN node.kids : Hides(node.kids[i])

\* What the remover leaves can run as before, and no statement stands behind one
\* that leaves its block; but only where no label stands there, for a label and
\* what follows it are dropped too (mcunreach.c:18-39).
RECURSIVE NothingBehind(_)
NothingBehind(node) ==
    /\ node.type = "block" => \A i \in 1 .. Len(node.kids) - 1 : node.kids[i].type \notin Terminators
    /\ \A i \in DOMAIN node.kids : NothingBehind(node.kids[i])
UnreachKeepsRuns ==
    Accepted => /\ NothingBehind(astv_walk(Root))
                /\ ~Hides(Root) => Running(astv_walk(Root), <<>>) = Running(Root, <<>>)
=============================================================================
