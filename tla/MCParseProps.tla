--------------------------- MODULE MCParseProps ---------------------------
(* What the tree of the parser owes to the text. *)
EXTENDS MCParse

Root == Head(nodes)

(***************************************************************************)
(* Spell(node) is the text of a node without its punctuation, as pairs of  *)
(* a token and its place, 0 where the node does not tell.                  *)
(***************************************************************************)
Punctuation == {"(", ")", ",", ";"}

Word(tk) == <<[tk |-> tk, at |-> 0]>>
Val(node) == <<[tk |-> text[node.at], at |-> node.at]>>

RECURSIVE Spell(_)

SpellAll(kids) == FlattenSeq([i \in DOMAIN kids |-> Spell(kids[i])])
SpellFrom(kids, i) == SpellAll(SubSeq(kids, i, Len(kids)))
SpellTo(kids, i) == SpellAll(SubSeq(kids, 1, i))

SpellName(node) ==
    Val(node) \o FlattenSeq(
        [i \in DOMAIN node.kids |->
            Word(IF node.num = 1 /\ i = Len(node.kids) THEN ":" ELSE ".") \o Spell(node.kids[i])])

SpellLoop(node) ==
    LET k == node.kids
        last == Len(k)
    IN  IF node.type = "fornum"
        THEN Word("for") \o Val(node) \o Word("=") \o SpellTo(k, last - 1)
                 \o Word("do") \o Spell(k[last]) \o Word("end")
        ELSE Word("for") \o SpellTo(k, node.num) \o Word("in")
                 \o SpellAll(SubSeq(k, node.num + 1, last - 1))
                 \o Word("do") \o Spell(k[last]) \o Word("end")

\* The first num children are named, the others are their values.
SpellBinding(node) ==
    SpellTo(node.kids, node.num) \o
    IF node.num = Len(node.kids) THEN <<>> ELSE Word("=") \o SpellFrom(node.kids, node.num + 1)

Spell(node) ==
    LET k == node.kids
        type == node.type
    IN  CASE type = "name" -> SpellName(node)
          [] type = "unop" -> Val(node) \o SpellAll(k)
          [] type = "binop" -> Spell(k[1]) \o Val(node) \o Spell(k[2])
          [] type = "index" -> Spell(k[1]) \o Word("[") \o Spell(k[2]) \o Word("]")
          [] type = "field" -> Spell(k[1]) \o Word(".") \o Val(node)
          [] type \in {"paren", "call", "block", "call_stat", "field_val"} -> SpellAll(k)
          [] type = "call_method" -> Spell(k[1]) \o Word(":") \o Val(node) \o SpellFrom(k, 2)
          [] type = "func_expr" -> Word("function") \o SpellAll(k)
          [] type = "table" -> Word("{") \o SpellAll(k) \o Word("}")
          [] type = "field_idx" -> Word("[") \o Spell(k[1]) \o Word("]") \o Word("=") \o Spell(k[2])
          [] type = "field_name" -> Val(node) \o Word("=") \o Spell(k[1])
          [] type = "arglist" -> SpellAll(k) \o (IF node.num = 1 THEN Word("...") ELSE <<>>)
          [] type = "funcbody" -> SpellAll(k) \o Word("end")
          [] type = "funcdef" -> Word("function") \o SpellAll(k) \o Word("end")
          [] type = "local_func" -> Word("local") \o Word("function") \o Val(node) \o SpellAll(k)
          [] type = "attname" ->
               Val(node) \o (IF k = <<>> THEN <<>> ELSE Word("<") \o SpellAll(k) \o Word(">"))
          [] type = "local" -> Word("local") \o SpellBinding(node)
          [] type = "assign" -> SpellBinding(node)
          [] type = "return" -> Word("return") \o SpellAll(k)
          [] type = "if" -> Word("if") \o Spell(k[1]) \o Word("then") \o SpellFrom(k, 2) \o Word("end")
          [] type = "elseif" -> Word("elseif") \o Spell(k[1]) \o Word("then") \o Spell(k[2])
          [] type = "else" -> Word("else") \o SpellAll(k)
          [] type = "while" ->
               Word("while") \o Spell(k[1]) \o Word("do") \o Spell(k[2]) \o Word("end")
          [] type = "do" -> Word("do") \o SpellAll(k) \o Word("end")
          [] type = "repeat" -> Word("repeat") \o Spell(k[1]) \o Word("until") \o Spell(k[2])
          [] type \in {"fornum", "forin"} -> SpellLoop(node)
          [] type = "break" -> Word("break")
          [] type = "goto" -> Word("goto") \o Val(node)
          [] type = "label" -> Word("::") \o Val(node) \o Word("::")
          [] OTHER -> Val(node)

\* The chunk's own name and arguments are not in the text.
Spelled == Spell(Root.kids[3])

Read == SelectSeq([i \in 1 .. pos - 1 |-> i], LAMBDA i : text[i] \notin Punctuation)

IsWord(i, word) == text[i] = word.tk /\ word.at \in {0, i}

\* How many of the words, from the first, are found in order in the tokens read.
Found(words) ==
    FoldLeft(LAMBDA k, i : IF k < Len(words) /\ IsWord(i, words[k + 1]) THEN k + 1 ELSE k,
             0, Read)

(***************************************************************************)
(* The tree says what was read: every token of a text that has a tree, in  *)
(* its place and none twice.  Where an allocation failed statements may be *)
(* missing, but what is there is still in order and made of tokens read.   *)
(***************************************************************************)
TreeIsText ==
    Accepted => /\ Found(Spelled) = Len(Spelled)
                /\ lost \/ Len(Spelled) = Len(Read)

(***************************************************************************)
(* Operators group by the ranks of Lua: a child that was not in            *)
(* parentheses binds tighter than its parent, or as tight on the side the  *)
(* operator associates to.                                                 *)
(***************************************************************************)
Ranks == <<{"or"}, {"and"}, {"<", ">", "<=", ">=", "==", "~="}, {"|"}, {"~"}, {"&"},
           {"<<", ">>"}, {".."}, {"+", "-"}, {"*", "/", "//", "%"}, {}, {"^"}>>
UnaryRank == 11

Rank(tk) == CHOOSE r \in DOMAIN Ranks : tk \in Ranks[r]

ToTheRight == {"..", "^"}

\* How tight a child binds; what is no operator, or was in parentheses, the most.
Binding(kid) ==
    CASE kid.paren -> 99
      [] kid.type = "unop" -> UnaryRank
      [] kid.type = "binop" -> Rank(text[kid.at])
      [] OTHER -> 99

GroupsUnary(operand) == operand.type = "unop" \/ Binding(operand) > UnaryRank

GroupsBinary(op, left, right) ==
    LET rank == Rank(op) IN
    /\ \/ Binding(left) > rank
       \/ Binding(left) = rank /\ op \notin ToTheRight
    /\ \/ right.type = "unop"
       \/ Binding(right) > rank
       \/ Binding(right) = rank /\ op \in ToTheRight

RECURSIVE Grouped(_)

Grouped(node) ==
    /\ \A i \in DOMAIN node.kids : Grouped(node.kids[i])
    /\ node.type = "unop" => GroupsUnary(node.kids[1])
    /\ node.type = "binop" => GroupsBinary(text[node.at], node.kids[1], node.kids[2])

OperatorsGroup == Accepted => Grouped(Root)

(***************************************************************************)
(* Every parse ends, unless the heap has no room for the nodes of a        *)
(* function statement: parse_function then returns before it has read a    *)
(* token, and parse_block calls it again for good.                         *)
(***************************************************************************)
NoRoomForFunction == CURTKN = "function" /\ ~Fits(<<3, 2, 4>>)

EndsOrStarves == <>Ended \/ <>[]NoRoomForFunction

=============================================================================
