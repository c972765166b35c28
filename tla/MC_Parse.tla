------------------------------ MODULE MC_Parse ------------------------------
(***************************************************************************)
(* TLC instance: every text over small sets of tokens, one set for each    *)
(* part of the grammar.  A heap of Ample words never runs out.             *)
(***************************************************************************)
EXTENDS MCVisitors

CONSTANTS Ample

Text(tokens, len) == [tokens |-> tokens, len |-> len, room |-> Ample]
Short(tokens, len, rooms) == [tokens : {tokens}, len : {len}, room : rooms]

Texts == {
    Text({"return", "Name", "-", "^", "*", "..", "("}, 7),
    Text({"return", "not", "Int", "==", "or", "and", "nil"}, 7),
    Text({"return", "Name", "-", "+", "(", ")"}, 7),
    Text({"Name", "(", ")", ".", ":", "=", ",", ";"}, 6),
    Text({"Name", "=", "{", "}", "[", "]", ","}, 7),
    Text({"while", "do", "end", "Name", ";", "return"}, 6),
    Text({"repeat", "until", "if", "then", "elseif", "else", "end", "Name"}, 9),
    Text({"for", "Name", "=", ",", "do", "end"}, 10),
    Text({"for", "Name", ",", "in", "do", "end"}, 9),
    Text({"local", "function", "Name", "<", ">", "=", ","}, 8),
    Text({"function", "Name", "(", ")", ".", ":", "end"}, 8),
    Text({"return", "function", "Name", "(", ")", "...", ",", "end"}, 7),
    Text({"goto", "::", "Name", "String", "{", "}", "break"}, 6),
    Text({"Name", "(", ")", "{", "}"}, 8)}

\* Heaps that run out at a statement, while a list grows, and in a call.
ShortTexts ==
    Short({"do", "end", "Name", "function", "(", ")"}, 5, {7 * i : i \in 5 .. 12}) \cup
    Short({"do", "break", "end"}, 6, {4 * i : i \in 10 .. 20}) \cup
    Short({"return", "Name", ","}, 11, {4 * i : i \in 15 .. 28}) \cup
    Short({"Name", "(", ")", ","}, 6, {83, 86, 92})

MCInputs == Texts \cup ShortTexts

=============================================================================
