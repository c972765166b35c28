-------------------------------- MODULE MCLex --------------------------------
(***************************************************************************)
(* The lexer, lex/mclex.c.  mode is the loop the code is in, one action is *)
(* one round of it, and w are the locals of the functions that read one    *)
(* token.  Words, numbers and string literals are collected in wordscratch *)
(* (bfr); literals are moved from there, piece by piece, into a string     *)
(* object that grows in the heap.  What strtol and strtod make of a number *)
(* is left out.                                                            *)
(***************************************************************************)
EXTENDS MCLexInput

CONSTANTS
    Scripts,    \* [text, chunk, call, fails]: what is lexed, how it is read, by
                \* which call, and which of "intern", "alloc", "resize" may fail
    Digits, Letters, Spaces,    \* isdigit; isalpha or '_'; isspace
    Reserved,   \* the reserved words
    IdLen,      \* MAX_IDLEN, the size of wordscratch
    MaxTokens,  \* MAX_TOKENS
    MinStr, MaxStr  \* MIN_STR_LEN, MAX_STR_LEN

ASSUME LexAssumption ==
    /\ \A s \in Scripts : /\ s.text \in Seq(Char) /\ s.chunk \in Nat \ {1}
                         /\ s.call \in {"file", "start"}
    /\ IdLen \in Nat \ {0, 1} /\ MaxTokens \in Nat \ {0}
    /\ MinStr \in Nat /\ MaxStr \in Nat \ {0}

VARIABLES
    mode,
    fails,      \* what may fail in this run
    w,          \* the locals, see NoWork
    tokens,     \* token_array, [kind, val]
    rcode,
    from,       \* history: where the token that is being read begins
    pieces      \* history: all that was read, [kind, from, to, lost]

lexvars == <<text, in, mode, fails, w, tokens, rcode, from, pieces>>

NoWork == [
    bfr |-> <<>>,       \* wordscratch[0 .. idx)
    str |-> <<>>,       \* the string object that is being filled
    cap |-> MinStr,     \* and how many characters it has room for
    quote |-> Nul, escaped |-> FALSE,
    level |-> 0,        \* the '='s of an opening long bracket
    closing |-> 0,      \* the '='s after a ']'
    lost |-> FALSE]     \* history: a piece of the literal was not appended

Simple == {"+", "-", "*", "%", "^", "#", "&", "|", ";", ",", "(", ")", "[", "]", "{", "}"}
Complex == {".", "=", "<", ">", "~", "/", ":"}
WordEnds == Simple \cup Complex \cup {Nul, "\"", "'", " ", "\t", "\n", "\r"}

LexBegins(s) ==
    /\ text = s.text
    /\ in = Opened(s.chunk)
    /\ mode = s.call
    /\ fails = s.fails
    /\ w = NoWork
    /\ tokens = <<>> /\ rcode = 0
    /\ from = 0 /\ pieces = <<>>

LexInit == \E s \in Scripts : LexBegins(s)

-----------------------------------------------------------------------------
(* How a token ends: mclex_set_token and mclex_lex *)

Read(kind, i, lost) ==
    /\ in' = i
    /\ pieces' = Append(pieces, [kind |-> kind, from |-> from, to |-> Consumed(i), lost |-> lost])
    /\ from' = Consumed(i)
    /\ w' = NoWork

QuietFull == 0          \* mutant: a script with too many tokens is a script

FullCode == -2

\* The token is counted; the loop goes on while there is a place for one more.
Counted(kind, val) ==
    /\ tokens' = Append(tokens, [kind |-> kind, val |-> val])
    /\ IF kind = "eos" THEN mode' = "done" /\ rcode' = 0
       ELSE IF Len(tokens') >= MaxTokens THEN mode' = "done" /\ rcode' = FullCode
       ELSE mode' = "start" /\ UNCHANGED rcode
    /\ UNCHANGED <<text, fails>>

Token(kind, val, i) == Read(kind, i, FALSE) /\ Counted(kind, val)

\* A comment or space: the place in the array is used for the next token.
Skipped(kind, i) ==
    /\ Read(kind, i, FALSE)
    /\ mode' = "start"
    /\ UNCHANGED <<text, fails, tokens, rcode>>

TokenErr(i) ==
    /\ in' = i /\ w' = NoWork
    /\ mode' = "done" /\ rcode' = -1
    /\ UNCHANGED <<text, fails, tokens, from, pieces>>

GoOn(m, i) ==
    /\ in' = i /\ mode' = m
    /\ UNCHANGED <<text, fails, tokens, rcode, from, pieces>>

-----------------------------------------------------------------------------
(* mclex_lexscript_file: a first line that begins with '#' is skipped *)

HashStart ==
    /\ mode = "file"
    /\ GoOn(IF Peek(in) = "#" THEN "hash" ELSE "start", Filled(in))
    /\ UNCHANGED w

HashLine ==
    /\ mode = "hash"
    /\ IF Peek(in) \in {Nul, "\n"} THEN Skipped("hash", Filled(in))
                                   ELSE GoOn("hash", Advanced(in)) /\ UNCHANGED w

-----------------------------------------------------------------------------
(* Spaces, words and numbers *)

SkipSpace == mode = "start" /\ Peek(in) \in Spaces /\ Skipped("space", Advanced(in))

StartWord == mode = "start" /\ Peek(in) \in Letters /\ GoOn("word", Filled(in)) /\ UNCHANGED w

StartNumber == mode = "start" /\ Peek(in) \in Digits /\ GoOn("number", Filled(in)) /\ UNCHANGED w

\* A place stays free for the final zero.
Fits == Len(w.bfr) < IdLen - 1

WordChar(c) == c \notin WordEnds

Alnum == Digits \cup (Letters \ {"_"})

NumberChar(c) ==
    \/ c \in Alnum \cup {"."}
    \/ /\ c \in {"+", "-"} /\ w.bfr # <<>>
       /\ w.bfr[Len(w.bfr)] \in {"e", "E", "p", "P"}

Goes(c) == IF mode = "word" THEN WordChar(c) ELSE NumberChar(c)

ReadOut ==
    /\ mode \in {"word", "number", "fraction"}
    /\ Fits /\ Goes(Peek(in))
    /\ GoOn(mode, Advanced(in))
    /\ w' = [w EXCEPT !.bfr = Append(@, Peek(in))]

\* After the last round the buffer is full, or the next character was looked at.
Stopped == ~(Fits /\ Goes(Peek(in)))
AtStop == IF Fits THEN Filled(in) ELSE in

EndWord ==
    /\ mode = "word" /\ Stopped
    /\ IF w.bfr \in Reserved THEN Token("reserved", w.bfr, AtStop)
       ELSE \/ Token("name", w.bfr, AtStop)
            \/ "intern" \in fails /\ TokenErr(AtStop)

IsHex == Len(w.bfr) > 2 /\ w.bfr[1] = "0" /\ w.bfr[2] \in {"x", "X"}
HasPoint == \E k \in 1 .. Len(w.bfr) : w.bfr[k] \in {".", "e", "E"}

EndNumber ==
    /\ mode \in {"number", "fraction"} /\ Stopped
    /\ Token(IF mode = "fraction" \/ (~IsHex /\ HasPoint) THEN "flt" ELSE "int", w.bfr, AtStop)

-----------------------------------------------------------------------------
(* String literals *)

\* mclstr_append_str0: the object must have room for bytes, or grow.
HasRoom(v) == Len(v.str) + Len(v.bfr) <= v.cap

Appended(v) == [v EXCEPT !.str = @ \o v.bfr, !.bfr = <<>>,
                         !.cap = IF HasRoom(v) THEN @ ELSE Len(v.str) + Len(v.bfr)]

\* All that appending the scratch buffer can lead to.  The callers do not look
\* whether it failed.
Append0(v) ==
    {Appended(v)} \cup
    IF HasRoom(v) \/ "resize" \notin fails THEN {} ELSE {[v EXCEPT !.bfr = <<>>, !.lost = TRUE]}

FlushLate(v) == IF Len(v.bfr) > IdLen THEN Append0(v) ELSE {v}     \* mutant: one too late

\* A full scratch buffer is appended.
Flushed(v) == IF Len(v.bfr) >= IdLen THEN Append0(v) ELSE {v}

AllocFails(i) == "alloc" \in fails /\ TokenErr(i)

EndString(i) ==
    \E v \in IF w.bfr # <<>> THEN Append0(w) ELSE {w} :
        Read("string", i, v.lost) /\ Counted("string", v.str)

Collect(s, i) ==
    /\ GoOn(IF mode = "closing" THEN "long" ELSE mode, i)
    /\ \E v \in Flushed([w EXCEPT !.bfr = @ \o s]) : w' = v

StrFull == Len(w.str) >= MaxStr

\* The literal is as long as it may be: it ends here, whatever follows.
CutString == mode \in {"string", "long"} /\ StrFull /\ EndString(in)

\* The text ends in a literal.
OpenString == mode \in {"string", "long"} /\ ~StrFull /\ Peek(in) = Nul /\ TokenErr(Filled(in))

\* mclex_lexstring
StartString ==
    /\ mode = "start" /\ Peek(in) \in {"\"", "'"}
    /\ \/ /\ GoOn("string", Advanced(in))
          /\ w' = [w EXCEPT !.quote = Peek(in)]
       \/ AllocFails(Filled(in))

Closes(c) == c = w.quote /\ ~w.escaped

StringChar ==
    /\ mode = "string" /\ ~StrFull /\ Peek(in) # Nul
    /\ IF Closes(Peek(in)) THEN EndString(Advanced(in))
       ELSE /\ GoOn(mode, Advanced(in))
            /\ \E v \in Flushed([w EXCEPT !.bfr = Append(@, Peek(in)),
                                          !.escaped = ~w.escaped /\ Peek(in) = "\\"]) : w' = v

-----------------------------------------------------------------------------
(* Long brackets, of literals and of comments *)

CountEq ==
    /\ mode \in {"open", "opencomment", "closing", "closingcomment"} /\ Peek(in) = "="
    /\ GoOn(mode, Advanced(in))
    /\ w' = IF mode \in {"open", "opencomment"} THEN [w EXCEPT !.level = @ + 1]
                                                 ELSE [w EXCEPT !.closing = @ + 1]

StartBracket == mode = "start" /\ Peek(in) = "[" /\ GoOn("open", Advanced(in)) /\ UNCHANGED w

\* mclex_lexlongstring: a line break at once is not part of the literal.
PastNewline(i) == IF Peek(i) = "\n" THEN Advanced(i) ELSE Filled(i)

OpenLong ==
    /\ mode = "open" /\ Peek(in) = "["
    /\ \/ GoOn("long", PastNewline(Advanced(in))) /\ UNCHANGED w
       \/ AllocFails(Advanced(in))

NotLong ==
    /\ mode = "open" /\ Peek(in) \notin {"=", "["}
    /\ IF w.level = 0 THEN Token("symbol", <<"[">>, Filled(in)) ELSE TokenErr(Filled(in))

LongChar ==
    /\ mode = "long" /\ ~StrFull /\ Peek(in) # Nul
    /\ IF Peek(in) = "]" THEN GoOn("closing", Advanced(in)) /\ w' = [w EXCEPT !.closing = 0]
                         ELSE Collect(<<Peek(in)>>, Advanced(in))

AnyLevel == Peek(in) = "]"      \* mutant: a bracket of any level closes

Matches == w.closing = w.level /\ Peek(in) = "]"

EndLong == mode = "closing" /\ Peek(in) # "=" /\ Matches /\ EndString(Advanced(in))

\* The bracket was text.  It is collected before the size of the buffer is
\* looked at: with enough '='s behind it the buffer is overrun (mode "wild").
Bracket == [k \in 1 .. w.closing + 1 |-> IF k = 1 THEN "]" ELSE "="]

BracketInLong ==
    /\ mode = "closing" /\ Peek(in) # "=" /\ ~Matches
    /\ IF Len(w.bfr) + Len(Bracket) > IdLen THEN GoOn("wild", Filled(in)) /\ UNCHANGED w
                                           ELSE Collect(Bracket, Filled(in))

\* mclex_skip_comment
StartComment ==
    /\ mode = "dashes"
    /\ UNCHANGED w
    /\ IF Peek(in) = "[" THEN GoOn("opencomment", Advanced(in)) ELSE GoOn("line", Filled(in))

OpenComment ==
    /\ mode = "opencomment" /\ Peek(in) # "="
    /\ UNCHANGED w
    /\ IF Peek(in) = "[" THEN GoOn("comment", Advanced(in)) ELSE GoOn("line", Filled(in))

\* Mutant: a line comment ends with its line only.
LineToBreak ==
    /\ mode = "line"
    /\ IF Peek(in) = "\n" THEN Skipped("comment", Filled(in))
                          ELSE GoOn("line", Advanced(in)) /\ UNCHANGED w

CommentLine ==
    /\ mode = "line"
    /\ IF Peek(in) \in {Nul, "\n"} THEN Skipped("comment", Filled(in))
                                   ELSE GoOn("line", Advanced(in)) /\ UNCHANGED w

\* The character is consumed before it is compared with '\0'.
CommentChar ==
    /\ mode = "comment"
    /\ IF Peek(in) = Nul THEN Skipped("comment", Advanced(in))
       ELSE /\ GoOn(IF Peek(in) = "]" THEN "closingcomment" ELSE mode, Advanced(in))
            /\ w' = [w EXCEPT !.closing = 0]

EndComment ==
    /\ mode = "closingcomment" /\ Peek(in) # "="
    /\ IF Matches THEN Skipped("comment", Advanced(in))
                  ELSE GoOn("comment", Filled(in)) /\ UNCHANGED w

-----------------------------------------------------------------------------
(* mclex_lexterminals *)

Doubles == {<<".", ".">>, <<"=", "=">>, <<"<", "=">>, <<"<", "<">>, <<">", "=">>, <<">", ">">>,
            <<"~", "=">>, <<"/", "/">>, <<":", ":">>}

Second == Advanced(in)
Third == Advanced(Second)

Dash ==
    /\ mode = "start" /\ Peek(in) = "-"
    /\ IF Peek(Second) = "-" THEN GoOn("dashes", Third) /\ UNCHANGED w
                             ELSE Token("symbol", <<"-">>, Filled(Second))

Dots ==
    /\ mode = "start" /\ Peek(in) = "." /\ Peek(Second) = "."
    /\ IF Peek(Third) = "." THEN Token("symbol", <<".", ".", ".">>, Advanced(Third))
                            ELSE Token("symbol", <<".", ".">>, Filled(Third))

StartFraction ==
    /\ mode = "start" /\ Peek(in) = "." /\ Peek(Second) \in Digits
    /\ GoOn("fraction", Filled(Second))
    /\ w' = [w EXCEPT !.bfr = <<".">>]

Terminal ==
    /\ mode = "start" /\ Peek(in) \in (Simple \cup Complex) \ {"-", "["}
    /\ Peek(in) = "." => Peek(Second) \notin Digits \cup {"."}
    /\ IF Peek(in) \in Simple THEN Token("symbol", <<Peek(in)>>, Second)
       ELSE IF <<Peek(in), Peek(Second)>> \in Doubles THEN Token("symbol", <<Peek(in), Peek(Second)>>, Third)
       ELSE Token("symbol", <<Peek(in)>>, Filled(Second))

End == mode = "start" /\ Peek(in) = Nul /\ Token("eos", <<>>, Filled(in))

Unknown ==
    /\ mode = "start"
    /\ Peek(in) \notin Simple \cup Complex \cup Digits \cup Letters \cup Spaces \cup {Nul, "\"", "'"}
    /\ TokenErr(Filled(in))

-----------------------------------------------------------------------------

LexNext ==
    \/ HashStart \/ HashLine
    \/ SkipSpace \/ StartWord \/ StartNumber \/ ReadOut \/ EndWord \/ EndNumber
    \/ StartString \/ StringChar \/ CutString \/ OpenString
    \/ CountEq \/ StartBracket \/ OpenLong \/ NotLong \/ LongChar \/ EndLong \/ BracketInLong
    \/ StartComment \/ OpenComment \/ CommentLine \/ CommentChar \/ EndComment
    \/ Dash \/ Dots \/ StartFraction \/ Terminal \/ End \/ Unknown

LexSpec == LexInit /\ [][LexNext]_lexvars /\ WF_lexvars(LexNext)
=============================================================================
