------------------------------- MODULE MC_Lex -------------------------------
(***************************************************************************)
(* TLC instance: every text over small sets of characters, one set for     *)
(* each part of the lexer, in memory and in chunks of one or two           *)
(* characters, so that each place of a text is the end of a chunk.         *)
(***************************************************************************)
EXTENDS MCLexProps

Texts(prefix, chars, n) == UNION {{prefix \o t : t \in [1 .. k -> chars]} : k \in 0 .. n}

Scan(texts, chunks, call, fail) ==
    [text : texts, chunk : chunks, call : {call}, fails : fail]

MCScripts ==
    Scan(Texts(<<>>, {"a", "1", " ", "\n", "@"}, 3), {0, 2, 3}, "start", {{}, {"intern"}})
    \cup Scan(Texts(<<>>, {"a", "i", "f", "1", "."}, 5), {3}, "start", {{}})
    \cup Scan(Texts(<<>>, {"1", "e", "+", ".", "_"}, 5), {3}, "start", {{}})
    \cup Scan(Texts(<<>>, {".", "=", "<", ">", "~", "/", ":", "1"}, 4), {2}, "start", {{}})
    \cup Scan(Texts(<<"\"">>, {"\"", "'", "\\", "a"}, 5), {0, 3}, "start", {{"alloc"}})
    \cup Scan(Texts(<<"\"", "a", "a">>, {"\"", "\\"}, 8), {3}, "start", {{}, {"resize"}})
    \cup Scan(Texts(<<"[">>, {"[", "]", "=", "\n"}, 6), {3}, "start", {{"alloc"}})
    \cup Scan(Texts(<<"[", "[">>, {"]", "="}, 9), {3}, "start", {{}, {"resize"}})
    \cup Scan(Texts(<<"[", "=", "[">>, {"]", "="}, 9), {2}, "start", {{}})
    \cup Scan(Texts(<<"-", "-">>, {"[", "]", "=", "\n"}, 6), {2, 3}, "start", {{}})
    \cup Scan(Texts(<<>>, {"-", "[", Nul, "#", "\n"}, 5), {2, 3}, "file", {{}})

MCChar == {"a", "e", "i", "f", "1", "_", " ", "\n", "@", ".", "+", "=", "<", ">", "~", "/", ":",
           "\"", "'", "\\", "[", "]", "-", "#", Nul}
MCSpaces == {" ", "\n"}
MCReserved == {<<"i", "f">>}
=============================================================================
