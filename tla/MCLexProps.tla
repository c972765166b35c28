----------------------------- MODULE MCLexProps -----------------------------
(***************************************************************************)
(* What the lexer should make of a text: a grammar of tokens, spaces and   *)
(* comments that says of a piece of text what it is without saying how it  *)
(* is read.  nx is the character behind the piece.                         *)
(***************************************************************************)
EXTENDS MCLex, FiniteSets, SequencesExt

Span(p) == SubSeq(text, p.from + 1, p.to)
Behind(p) == IF p.to < Len(text) THEN text[p.to + 1] ELSE Nul

IsWord(s, nx) ==
    /\ s # <<>> /\ s[1] \in Letters
    /\ \A k \in DOMAIN s : s[k] \notin WordEnds
    /\ nx \in WordEnds \/ Len(s) = IdLen - 1

\* c may follow s in a number.
InNumber(s, c) == c \in Alnum \cup {"."} \/ (c \in {"+", "-"} /\ Last(s) \in {"e", "E", "p", "P"})

IsNumber(s, nx) ==
    /\ s # <<>> /\ (s[1] \in Digits \/ (s[1] = "." /\ s[2] \in Digits))
    /\ \A k \in 2 .. Len(s) : InNumber(SubSeq(s, 1, k - 1), s[k])
    /\ ~InNumber(s, nx) \/ Len(s) = IdLen - 1

\* The character at k is behind an odd number of backslashes.
Protected(s, k) ==
    Cardinality({j \in 2 .. k - 1 : \A m \in j .. k - 1 : s[m] = "\\"}) % 2 = 1
FreeQuotes(s) == {k \in 2 .. Len(s) : s[k] = s[1] /\ ~Protected(s, k)}

IsQuoted(s) == s # <<>> /\ s[1] \in {"\"", "'"} /\ FreeQuotes(s) = {Len(s)}
IsCutQuoted(s) == s # <<>> /\ s[1] \in {"\"", "'"} /\ FreeQuotes(s) = {}

\* A long bracket with n '='s opens s, or closes it for the first time at k.
Between(b, n) == [k \in 1 .. n + 2 |-> IF k \in {1, n + 2} THEN b ELSE "="]
Opens(s, n) == Len(s) >= n + 2 /\ SubSeq(s, 1, n + 2) = Between("[", n)
Closers(s, n) ==
    {k \in n + 3 .. Len(s) - n - 1 : SubSeq(s, k, k + n + 1) = Between("]", n)}

IsLong(s) == \E n \in 0 .. Len(s) : Opens(s, n) /\ Closers(s, n) = {Len(s) - n - 1}
IsCutLong(s) == \E n \in 0 .. Len(s) : Opens(s, n) /\ Closers(s, n) = {}

IsComment(s, nx) ==
    /\ Len(s) >= 2 /\ s[1] = "-" /\ s[2] = "-"
    /\ LET r == SubSeq(s, 3, Len(s)) IN
       IF \E n \in 0 .. Len(r) : Opens(r, n)
         THEN IsLong(r) \/ (IsCutLong(r) /\ Nul \in {nx, Last(r)})
         ELSE nx \in {Nul, "\n"} /\ \A k \in DOMAIN r : r[k] \notin {Nul, "\n"}

Singles == {<<c>> : c \in Simple \cup Complex}
Symbols == Singles \cup Doubles \cup {<<".", ".", ".">>}

IsSymbol(s, nx) ==
    /\ s \in Symbols /\ Append(s, nx) \notin Symbols
    /\ s = <<"-">> => nx # "-"
    /\ s = <<"[">> => nx \notin {"[", "="}
    /\ s = <<".">> => nx \notin Digits

\* What a literal stands for: what is between its quotes or brackets, as it is
\* written, without a line break at the start of a long one.
Body(s, first, last) == SubSeq(s, first, last)
LongBody(s, n, last) ==
    Body(s, IF Len(s) >= n + 3 /\ s[n + 3] = "\n" THEN n + 4 ELSE n + 3, last)

Says(s, val) ==
    \/ IsQuoted(s) /\ val = Body(s, 2, Len(s) - 1)
    \/ IsLong(s) /\ \E n \in 0 .. Len(s) : Opens(s, n) /\ val = LongBody(s, n, Len(s) - n - 2)
    \/ Len(val) >= MaxStr /\ IsCutQuoted(s) /\ val = Body(s, 2, Len(s))
    \/ Len(val) >= MaxStr /\ IsCutLong(s) /\ \E n \in 0 .. Len(s) : Opens(s, n) /\ val = LongBody(s, n, Len(s))

IsPiece(p, val) ==
    LET s == Span(p)
        nx == Behind(p)
    IN  CASE p.kind = "space" -> Len(s) = 1 /\ s[1] \in Spaces
          [] p.kind = "comment" -> IsComment(s, nx)
          [] p.kind = "hash" -> p.from = 0 /\ s[1] = "#" /\ nx \in {Nul, "\n"}
          [] p.kind \in {"name", "reserved"} ->
                IsWord(s, nx) /\ val = s /\ ((p.kind = "reserved") <=> s \in Reserved)
          [] p.kind \in {"int", "flt"} -> IsNumber(s, nx) /\ val = s
          [] p.kind = "symbol" -> IsSymbol(s, nx) /\ val = s
          [] p.kind = "eos" -> s = <<>> /\ nx = Nul
          [] p.kind = "string" -> p.lost \/ Says(s, val)

NoToken == {"space", "comment", "hash"}
LastVal == IF tokens = <<>> THEN <<>> ELSE Last(tokens).val

-----------------------------------------------------------------------------

\* At the start of each round the scratch buffer has a place for one character
\* more, and a literal outgrows MAX_STR_LEN by less than a scratch buffer; the token
\* array and the input buffer hold what they can (mclex.c:362-472, 604-625).
LexTypeOK ==
    /\ mode \in {"file", "hash", "start", "word", "number", "fraction", "string", "open", "long",
                 "closing", "dashes", "opencomment", "line", "comment", "closingcomment", "done", "wild"}
    /\ in.idx <= Len(in.buf) /\ (in.chunk > 0 => Len(in.buf) < in.chunk)
    /\ Len(w.bfr) < IdLen /\ Len(w.str) < MaxStr + IdLen
    /\ Len(tokens) <= MaxTokens

\* Each piece the lexer takes is what the grammar says it is, and is the longest
\* such piece: words, numbers, literals with their escapes and brackets,
\* comments and symbols end where they should, also when a chunk ends inside them
\* (83-625).  A token says what is written there: a literal that went through
\* the scratch buffer piece by piece is the text between its quotes, unless a
\* piece could not be appended.
PiecesAreTokens ==
    pieces # <<>> => IsPiece(Last(pieces), LastVal)

\* Pieces follow each other without a gap, and code 0 is for a text read to its
\* end, or to a zero byte outside of comments (604-625).
ZeroMeansAll ==
    /\ \A k \in 1 .. Len(pieces) - 1 : pieces[k].to = pieces[k + 1].from
    /\ mode = "done" /\ rcode = 0 =>
          /\ Last(pieces).kind = "eos" /\ pieces[1].from = 0
          /\ Consumed(in) = Len(text) \/ text[Consumed(in) + 1] = Nul

\* A file read in chunks gives the tokens of the same text in memory
\* (182-207, 595-602).
Whole == INSTANCE MCLex WITH in <- InMemory(Consumed(in))

LikeInMemory ==
    /\ Whole!LexBegins([text |-> text, chunk |-> 0, call |-> mode, fails |-> fails])
    /\ [][Whole!LexNext]_(Whole!lexvars)

\* Lexing ends (604-625), or has overrun its scratch buffer (436-443).
LexEnds == <>(mode \in {"done", "wild"})
=============================================================================
