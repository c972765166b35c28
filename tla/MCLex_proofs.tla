---------------------------- MODULE MCLex_proofs ----------------------------
(***************************************************************************)
(* Chunked input is plain input: the lexer that reads a file chunk by      *)
(* chunk takes, step by step, the steps of the lexer that has the whole    *)
(* text in memory, for every text, chunk size, set of characters and bound *)
(* of the lexer.  And what it has read when it ends well is the whole text,*)
(* piece after piece, through buffers with a place left for the next one.  *)
(***************************************************************************)
EXTENDS MCLexProps, SequenceTheorems, TLAPS

\* A place of the input: the buffer holds the piece of the text before fpos.
Places == [chunk : Nat \ {1}, fpos : Nat, buf : Seq(Char), idx : Nat]

Sound(i) ==
    /\ i \in Places
    /\ i.fpos <= Len(text)
    /\ Len(i.buf) <= i.fpos /\ i.idx <= Len(i.buf)
    /\ \A k \in 1 .. Len(i.buf) : i.buf[k] = text[i.fpos - Len(i.buf) + k]
    /\ i.chunk = 0 => i.fpos = Len(text)

\* The same place of the text in memory.
Mem(i) == InMemory(Consumed(i))

\* Reading a chunk.
LEMMA UpdateSound ==
    ASSUME text \in Seq(Char), NEW i, Sound(i), i.idx = Len(i.buf), i.chunk # 0
    PROVE  /\ Sound(Update(i)) /\ Consumed(Update(i)) = Consumed(i)
           /\ Len(Update(i).buf) = 0 => i.fpos = Len(text)
<1> DEFINE e == ChunkEnd(i)
           u == Update(i)
<1>1. /\ i.chunk \in Nat /\ i.chunk >= 2
      /\ i.fpos \in Nat /\ i.buf \in Seq(Char) /\ i.idx \in Nat
      /\ Len(i.buf) \in Nat /\ Len(text) \in Nat /\ i.fpos <= Len(text)
  BY DEF Sound, Places
<1>2. e \in Nat /\ i.fpos <= e /\ e <= Len(text) /\ (e = i.fpos => i.fpos = Len(text))
  BY <1>1, SMTT(30) DEF ChunkEnd
<1>3. /\ u = [chunk |-> i.chunk, fpos |-> e, buf |-> SubSeq(text, i.fpos + 1, e), idx |-> 0]
      /\ u.buf = SubSeq(text, i.fpos + 1, e)
  BY DEF Update
<1>4. /\ u.buf \in Seq(Char) /\ Len(u.buf) = e - i.fpos
      /\ \A k \in 1 .. Len(u.buf) : u.buf[k] = text[i.fpos + k]
  <2> DEFINE m == i.fpos + 1
  <2>1. m \in Int /\ e \in Int /\ \A k \in m .. e : text[k] \in Char
    BY <1>1, <1>2
  <2>2. /\ SubSeq(text, m, e) \in Seq(Char)
        /\ Len(SubSeq(text, m, e)) = IF m <= e THEN e - m + 1 ELSE 0
        /\ \A k \in 1 .. e - m + 1 : SubSeq(text, m, e)[k] = text[m + k - 1]
    <3> HIDE DEF m, e
    <3> QED BY <2>1, SubSeqProperties
  <2>3. u.buf = SubSeq(text, m, e)
    BY <1>3
  <2>4. (IF m <= e THEN e - m + 1 ELSE 0) = e - i.fpos /\ e - m + 1 = e - i.fpos
    BY <1>1, <1>2
  <2>5. \A k \in 1 .. e - i.fpos : m + k - 1 = i.fpos + k
    BY <1>1, <1>2
  <2> QED
    BY <2>2, <2>3, <2>4, <2>5, SMTT(30)
<1> HIDE DEF e, u
<1>5. /\ u.chunk = i.chunk /\ u.fpos = e /\ u.idx = 0
      /\ u \in Places
  <2>1. i.chunk \in Nat \ {1}
    BY DEF Sound, Places
  <2>2. /\ u.chunk = i.chunk /\ u.fpos = e /\ u.idx = 0
        /\ u = [chunk |-> i.chunk, fpos |-> e, buf |-> u.buf, idx |-> 0]
    BY <1>3
  <2> QED
    BY <2>1, <2>2, <1>2, <1>4 DEF Places
<1>6. u.fpos - Len(u.buf) = i.fpos /\ Len(u.buf) <= u.fpos /\ 0 <= Len(u.buf)
  BY <1>1, <1>2, <1>4, <1>5
<1>7. Sound(u)
  BY <1>1, <1>2, <1>4, <1>5, <1>6 DEF Sound
<1>8. Consumed(u) = Consumed(i)
  BY <1>1, <1>5, <1>6 DEF Consumed
<1>9. Len(u.buf) = 0 => i.fpos = Len(text)
  BY <1>1, <1>2, <1>4
<1> QED
  BY <1>7, <1>8, <1>9 DEF u

\* To look at a character may fill the buffer and moves nothing.
LEMMA FilledSound ==
    ASSUME text \in Seq(Char), NEW i, Sound(i)
    PROVE  /\ Sound(Filled(i)) /\ Consumed(Filled(i)) = Consumed(i)
           /\ Filled(i).idx = Len(Filled(i).buf) => Consumed(i) = Len(text)
<1>1. CASE i.idx < Len(i.buf) \/ i.chunk = 0
  BY <1>1 DEF Filled, Sound, Places, Consumed
<1>2. CASE ~(i.idx < Len(i.buf) \/ i.chunk = 0)
  <2>1. i.idx = Len(i.buf) /\ i.chunk # 0
    BY <1>2 DEF Sound, Places
  <2>2. Filled(i) = Update(i) /\ Update(i).idx = 0
    BY <1>2 DEF Filled, Update, Sound, Places
  <2>3. Consumed(i) = i.fpos
    BY <2>1 DEF Consumed, Sound, Places
  <2> QED
    BY <2>1, <2>2, <2>3, UpdateSound
<1> QED
  BY <1>1, <1>2

\* The place in memory that a place in a chunk stands for.
LEMMA MemPlace ==
    ASSUME text \in Seq(Char), NEW c \in Nat, c <= Len(text)
    PROVE  /\ Filled(InMemory(c)) = InMemory(c) /\ Consumed(InMemory(c)) = c
           /\ Peek(InMemory(c)) = IF c < Len(text) THEN text[c + 1] ELSE Nul
           /\ Advanced(InMemory(c)) = InMemory(IF c < Len(text) THEN c + 1 ELSE c)
<1>1. Filled(InMemory(c)) = InMemory(c)
  BY DEF Filled, InMemory
<1>2. /\ InMemory(c).idx = c /\ InMemory(c).buf = text /\ InMemory(c).fpos = Len(text)
      /\ [InMemory(c) EXCEPT !.idx = @ + 1] = InMemory(c + 1)
  BY DEF InMemory
<1> QED
  BY <1>1, <1>2 DEF Peek, Advanced, Consumed

\* The three operations on the input, and what they are on the text in memory.
LEMMA Input ==
    ASSUME text \in Seq(Char), NEW i, Sound(i)
    PROVE  /\ Sound(Filled(i)) /\ Sound(Advanced(i))
           /\ Consumed(i) \in Nat /\ Consumed(i) <= Len(text)
           /\ Peek(i) = Peek(Mem(i))
           /\ Mem(Filled(i)) = Filled(Mem(i)) /\ Mem(Advanced(i)) = Advanced(Mem(i))
           /\ Consumed(Mem(i)) = Consumed(i)
<1> DEFINE f == Filled(i)
           c == Consumed(i)
<1>1. Sound(f) /\ Consumed(f) = c /\ (f.idx = Len(f.buf) => c = Len(text))
  BY FilledSound
<1>2. /\ f \in Places /\ f.idx \in Nat /\ f.fpos \in Nat /\ f.buf \in Seq(Char)
      /\ Len(f.buf) \in Nat /\ Len(text) \in Nat
  BY <1>1 DEF Sound, Places
<1>3. c = f.fpos - Len(f.buf) + f.idx /\ c \in Nat /\ c <= Len(text)
  BY <1>1, <1>2, SMTT(30) DEF Sound, Consumed
<1>4. f.idx < Len(f.buf) <=> c < Len(text)
  BY <1>1, <1>2, <1>3 DEF Sound
<1>5. f.idx < Len(f.buf) => f.buf[f.idx + 1] = text[c + 1]
  <2> SUFFICES ASSUME f.idx < Len(f.buf) PROVE f.buf[f.idx + 1] = text[c + 1]
    OBVIOUS
  <2>1. f.idx + 1 \in 1 .. Len(f.buf)
    BY <1>2
  <2>2. f.buf[f.idx + 1] = text[f.fpos - Len(f.buf) + (f.idx + 1)]
    BY <2>1, <1>1 DEF Sound
  <2> QED
    BY <2>2, <1>2, <1>3, SMTT(30)
<1>6. Peek(i) = IF c < Len(text) THEN text[c + 1] ELSE Nul
  BY <1>4, <1>5 DEF Peek
<1>7. Sound(Advanced(i)) /\ Consumed(Advanced(i)) = IF c < Len(text) THEN c + 1 ELSE c
  <2>1. CASE f.idx < Len(f.buf)
    <3> DEFINE g == [f EXCEPT !.idx = @ + 1]
    <3>1. Advanced(i) = g
      BY <2>1 DEF Advanced
    <3>2. /\ g.idx = f.idx + 1 /\ g.buf = f.buf /\ g.fpos = f.fpos /\ g.chunk = f.chunk
          /\ g \in Places
      BY <1>2 DEF Places
    <3>3. Sound(g)
      BY <1>1, <1>2, <2>1, <3>2 DEF Sound
    <3>4. Consumed(g) = c + 1
      BY <1>2, <1>3, <3>2, SMTT(30) DEF Consumed
    <3> QED
      BY <3>1, <3>3, <3>4, <2>1, <1>4
  <2>2. CASE ~(f.idx < Len(f.buf))
    BY <2>2, <1>1, <1>4 DEF Advanced
  <2> QED
    BY <2>1, <2>2
<1> HIDE DEF c
<1>8. /\ Filled(InMemory(c)) = InMemory(c) /\ Consumed(InMemory(c)) = c
      /\ Peek(InMemory(c)) = IF c < Len(text) THEN text[c + 1] ELSE Nul
      /\ Advanced(InMemory(c)) = InMemory(IF c < Len(text) THEN c + 1 ELSE c)
  BY <1>3, MemPlace
<1> QED
  BY <1>1, <1>3, <1>6, <1>7, <1>8 DEF Mem, c
-----------------------------------------------------------------------------

LexInv == text \in Seq(Char) /\ Sound(in)

\* The operations on places are the same in both lexers.
LEMMA SameInput ==
    ASSUME NEW i
    PROVE  Whole!Peek(i) = Peek(i) /\ Whole!Filled(i) = Filled(i) /\ Whole!Advanced(i) = Advanced(i)
           /\ Whole!Consumed(i) = Consumed(i)
<1>1. Whole!Filled(i) = Filled(i)
  BY DEF Whole!Filled, Filled, Whole!Update, Update, Whole!ChunkEnd, ChunkEnd
<1> QED
  BY <1>1 DEF Whole!Peek, Peek, Whole!Advanced, Advanced, Whole!Consumed, Consumed

\* What the steps are made of, for a place i the lexer goes on from.
LEMMA MoveMaps ==
    ASSUME LexInv, NEW i, Sound(i), text' = text, in' = i
    PROVE  Sound(in)' /\ InMemory(Consumed(in))' = Mem(i)
<1>1. Sound(in)'
  BY DEF Sound
<1>2. InMemory(Consumed(in))' = Mem(i)
  BY DEF InMemory, Consumed, Mem
<1> QED
  BY <1>1, <1>2

\* A character read maps to a character read.
LEMMA ReadMaps ==
    ASSUME LexInv, NEW i, Sound(i), text' = text, NEW kind, NEW lost, Read(kind, i, lost)
    PROVE  Sound(in)' /\ Whole!Read(kind, Mem(i), lost)
<1>1. Sound(in)' /\ InMemory(Consumed(in))' = Mem(i) /\ Consumed(Mem(i)) = Consumed(i)
  BY MoveMaps, Input DEF Read, LexInv
<1> QED
  BY <1>1, SameInput DEF Read, Whole!Read, Whole!NoWork, NoWork

\* A token that is counted maps to one.
LEMMA CountedMaps ==
    ASSUME NEW kind, NEW val, Counted(kind, val)
    PROVE  text' = text /\ Whole!Counted(kind, val)
BY DEF Counted, Whole!Counted, Whole!FullCode, FullCode

\* A token maps to the same token.
LEMMA TokenMaps ==
    ASSUME LexInv, NEW i, Sound(i), NEW kind, NEW val, Token(kind, val, i)
    PROVE  text' = text /\ Sound(in)' /\ Whole!Token(kind, val, Mem(i))
BY ReadMaps, CountedMaps DEF Token, Whole!Token

\* What is skipped maps to what is skipped.
LEMMA SkippedMaps ==
    ASSUME LexInv, NEW i, Sound(i), NEW kind, Skipped(kind, i)
    PROVE  text' = text /\ Sound(in)' /\ Whole!Skipped(kind, Mem(i))
BY ReadMaps DEF Skipped, Whole!Skipped

\* An error maps to the same error.
LEMMA TokenErrMaps ==
    ASSUME LexInv, NEW i, Sound(i), TokenErr(i)
    PROVE  text' = text /\ Sound(in)' /\ Whole!TokenErr(Mem(i))
BY MoveMaps DEF TokenErr, Whole!TokenErr, Whole!NoWork, NoWork

\* Going on maps to going on.
LEMMA GoOnMaps ==
    ASSUME LexInv, NEW i, Sound(i), NEW m, GoOn(m, i)
    PROVE  text' = text /\ Sound(in)' /\ Whole!GoOn(m, Mem(i))
BY MoveMaps DEF GoOn, Whole!GoOn

-----------------------------------------------------------------------------
(* One action after the other *)

\* What a look at a place and a step from it are in memory.
LEMMA Looks ==
    ASSUME LexInv, NEW i, Sound(i)
    PROVE  /\ Sound(Filled(i)) /\ Sound(Advanced(i))
           /\ Whole!Peek(Mem(i)) = Peek(i)
           /\ Whole!Filled(Mem(i)) = Mem(Filled(i))
           /\ Whole!Advanced(Mem(i)) = Mem(Advanced(i))
BY Input, SameInput DEF LexInv

\* What does not depend on the input is the same in both lexers.
LEMMA SameSets ==
    /\ Whole!Simple = Simple /\ Whole!Complex = Complex /\ Whole!WordEnds = WordEnds
    /\ Whole!Alnum = Alnum /\ Whole!Doubles = Doubles /\ Whole!NoWork = NoWork
BY DEF Whole!Simple, Simple, Whole!Complex, Complex, Whole!WordEnds, WordEnds, Whole!Alnum, Alnum,
       Whole!Doubles, Doubles, Whole!NoWork, NoWork

\* Scratch buffers are the same.
LEMMA SameWords ==
    /\ Whole!Fits = Fits /\ Whole!IsHex = IsHex /\ Whole!HasPoint = HasPoint
    /\ \A c : Whole!Goes(c) = Goes(c) /\ Whole!Closes(c) = Closes(c)
    /\ Whole!StrFull = StrFull /\ Whole!Bracket = Bracket
BY SameSets DEF Whole!Fits, Fits, Whole!IsHex, IsHex, Whole!HasPoint, HasPoint, Whole!Goes, Goes,
    Whole!WordChar, WordChar, Whole!NumberChar, NumberChar, Whole!Closes, Closes,
    Whole!StrFull, StrFull, Whole!Bracket, Bracket

\* String objects are the same.
LEMMA SameStrings ==
    ASSUME NEW v
    PROVE  Whole!Append0(v) = Append0(v) /\ Whole!Flushed(v) = Flushed(v)
BY DEF Whole!Append0, Append0, Whole!Flushed, Flushed, Whole!Appended, Appended,
       Whole!HasRoom, HasRoom

Maps == text' = text /\ Sound(in)' /\ Whole!LexNext

\* The line that begins with a hash.
LEMMA HashMaps == LexInv /\ (HashStart \/ HashLine) => Maps
<1> SUFFICES ASSUME LexInv, HashStart \/ HashLine PROVE Maps
  OBVIOUS
<1>1. /\ Sound(in) /\ Sound(Filled(in)) /\ Sound(Advanced(in))
      /\ Whole!Peek(Mem(in)) = Peek(in)
      /\ Whole!Filled(Mem(in)) = Mem(Filled(in)) /\ Whole!Advanced(Mem(in)) = Mem(Advanced(in))
  BY Looks DEF LexInv
<1>2. CASE HashStart
  BY <1>1, <1>2, GoOnMaps DEF HashStart, Whole!HashStart, Mem, Maps, Whole!LexNext
<1>3. CASE HashLine
  BY <1>1, <1>3, GoOnMaps, SkippedMaps DEF HashLine, Whole!HashLine, Mem, Maps, Whole!LexNext
<1> QED
  BY <1>2, <1>3

\* Names and numbers.
LEMMA WordMaps == LexInv /\ (SkipSpace \/ StartWord \/ StartNumber \/ ReadOut \/ EndWord \/ EndNumber) => Maps
<1> SUFFICES ASSUME LexInv, SkipSpace \/ StartWord \/ StartNumber \/ ReadOut \/ EndWord \/ EndNumber PROVE Maps
  OBVIOUS
<1>1. /\ Sound(in) /\ Sound(Filled(in)) /\ Sound(Advanced(in))
      /\ Whole!Peek(Mem(in)) = Peek(in)
      /\ Whole!Filled(Mem(in)) = Mem(Filled(in)) /\ Whole!Advanced(Mem(in)) = Mem(Advanced(in))
  BY Looks DEF LexInv
<1>2. CASE SkipSpace
  BY <1>1, <1>2, SkippedMaps
     DEF SkipSpace, Whole!SkipSpace, Mem, Maps, Whole!LexNext
<1>3. CASE StartWord
  BY <1>1, <1>3, GoOnMaps
     DEF StartWord, Whole!StartWord, Mem, Maps, Whole!LexNext
<1>4. CASE StartNumber
  BY <1>1, <1>4, GoOnMaps
     DEF StartNumber, Whole!StartNumber, Mem, Maps, Whole!LexNext
<1>5. CASE ReadOut
  BY <1>1, <1>5, GoOnMaps, SameWords
     DEF ReadOut, Whole!ReadOut, Mem, Maps, Whole!LexNext
<1>6. CASE EndWord
  BY <1>1, <1>6, TokenMaps, TokenErrMaps, SameWords
     DEF EndWord, Whole!EndWord, Stopped, Whole!Stopped, AtStop, Whole!AtStop, Mem, Maps, Whole!LexNext
<1>7. CASE EndNumber
  BY <1>1, <1>7, TokenMaps, SameWords
     DEF EndNumber, Whole!EndNumber, Stopped, Whole!Stopped, AtStop, Whole!AtStop, Mem, Maps, Whole!LexNext
<1> QED
  BY <1>2, <1>3, <1>4, <1>5, <1>6, <1>7

\* The end of a string.
LEMMA EndStringMaps ==
    ASSUME LexInv, NEW i, Sound(i), EndString(i)
    PROVE  text' = text /\ Sound(in)' /\ Whole!EndString(Mem(i))
<1> DEFINE V == IF w.bfr # <<>> THEN Append0(w) ELSE {w}
<1>1. PICK v \in V : Read("string", i, v.lost) /\ Counted("string", v.str)
  BY DEF EndString
<1>2. V = IF w.bfr # <<>> THEN Whole!Append0(w) ELSE {w}
  BY SameStrings
<1>3. Sound(in)' /\ Whole!Read("string", Mem(i), v.lost)
  <2> DEFINE l == v.lost
  <2>1. Read("string", i, l) /\ text' = text
    BY <1>1, CountedMaps
  <2> HIDE DEF l
  <2>2. Sound(in)' /\ Whole!Read("string", Mem(i), l)
    BY <2>1, ReadMaps
  <2> QED
    BY <2>2 DEF l
<1>4. text' = text /\ Whole!Counted("string", v.str)
  BY <1>1, CountedMaps
<1> QED
  BY <1>1, <1>2, <1>3, <1>4 DEF Whole!EndString

\* A piece of a literal goes into its object.
LEMMA CollectMaps ==
    ASSUME LexInv, NEW i, Sound(i), NEW s, Collect(s, i)
    PROVE  text' = text /\ Sound(in)' /\ Whole!Collect(s, Mem(i))
<1>1. /\ text' = text /\ Sound(in)'
      /\ Whole!GoOn(IF mode = "closing" THEN "long" ELSE mode, Mem(i))
  BY GoOnMaps DEF Collect
<1> QED
  BY <1>1, SameStrings DEF Collect, Whole!Collect

\* Strings in quotes.
LEMMA StringMaps == LexInv /\ (StartString \/ StringChar \/ CutString \/ OpenString) => Maps
<1> SUFFICES ASSUME LexInv, StartString \/ StringChar \/ CutString \/ OpenString PROVE Maps
  OBVIOUS
<1>1. /\ Sound(in) /\ Sound(Filled(in)) /\ Sound(Advanced(in))
      /\ Whole!Peek(Mem(in)) = Peek(in)
      /\ Whole!Filled(Mem(in)) = Mem(Filled(in)) /\ Whole!Advanced(Mem(in)) = Mem(Advanced(in))
  BY Looks DEF LexInv
<1>2. CASE StartString
  BY <1>1, <1>2, GoOnMaps, TokenErrMaps
     DEF StartString, Whole!StartString, AllocFails, Whole!AllocFails, Mem, Maps, Whole!LexNext
<1>3. CASE StringChar
  BY <1>1, <1>3, GoOnMaps, EndStringMaps, SameWords, SameStrings
     DEF StringChar, Whole!StringChar, Mem, Maps, Whole!LexNext
<1>4. CASE CutString
  BY <1>1, <1>4, EndStringMaps, SameWords
     DEF CutString, Whole!CutString, Mem, Maps, Whole!LexNext
<1>5. CASE OpenString
  BY <1>1, <1>5, TokenErrMaps, SameWords
     DEF OpenString, Whole!OpenString, Mem, Maps, Whole!LexNext
<1> QED
  BY <1>2, <1>3, <1>4, <1>5

\* Long literals.
LEMMA BracketMaps == LexInv /\ (CountEq \/ StartBracket \/ OpenLong \/ NotLong \/ LongChar \/ EndLong \/ BracketInLong) => Maps
<1> SUFFICES ASSUME LexInv, CountEq \/ StartBracket \/ OpenLong \/ NotLong \/ LongChar \/ EndLong \/ BracketInLong PROVE Maps
  OBVIOUS
<1>1. /\ Sound(in) /\ Sound(Filled(in)) /\ Sound(Advanced(in))
      /\ Whole!Peek(Mem(in)) = Peek(in)
      /\ Whole!Filled(Mem(in)) = Mem(Filled(in)) /\ Whole!Advanced(Mem(in)) = Mem(Advanced(in))
  BY Looks DEF LexInv
<1>2. /\ Sound(Filled(Second)) /\ Sound(Third)
      /\ Whole!Peek(Mem(Second)) = Peek(Second)
      /\ Whole!Filled(Mem(Second)) = Mem(Filled(Second)) /\ Whole!Advanced(Mem(Second)) = Mem(Third)
      /\ Whole!Second = Mem(Second) /\ Whole!Third = Mem(Third)
  BY <1>1, Looks DEF Second, Third, Whole!Second, Whole!Third, Mem
<1>3. /\ Sound(Filled(Third)) /\ Sound(Advanced(Third))
      /\ Whole!Peek(Mem(Third)) = Peek(Third)
      /\ Whole!Filled(Mem(Third)) = Mem(Filled(Third)) /\ Whole!Advanced(Mem(Third)) = Mem(Advanced(Third))
  BY <1>2, Looks
<1>4. CASE CountEq
  BY <1>1, <1>2, <1>3, <1>4, GoOnMaps
     DEF CountEq, Whole!CountEq, Mem, Maps, Whole!LexNext
<1>5. CASE StartBracket
  BY <1>1, <1>2, <1>3, <1>5, GoOnMaps
     DEF StartBracket, Whole!StartBracket, Mem, Maps, Whole!LexNext
<1>6. CASE OpenLong
  BY <1>1, <1>2, <1>3, <1>6, GoOnMaps, TokenErrMaps
     DEF OpenLong, Whole!OpenLong, AllocFails, Whole!AllocFails, PastNewline, Whole!PastNewline, Second, Third, Mem, Maps, Whole!LexNext
<1>7. CASE NotLong
  BY <1>1, <1>2, <1>3, <1>7, TokenMaps, TokenErrMaps
     DEF NotLong, Whole!NotLong, Mem, Maps, Whole!LexNext
<1>8. CASE LongChar
  BY <1>1, <1>2, <1>3, <1>8, GoOnMaps, CollectMaps, SameWords
     DEF LongChar, Whole!LongChar, Mem, Maps, Whole!LexNext
<1>9. CASE EndLong
  BY <1>1, <1>2, <1>3, <1>9, EndStringMaps
     DEF EndLong, Whole!EndLong, Matches, Whole!Matches, Mem, Maps, Whole!LexNext
<1>10. CASE BracketInLong
  BY <1>1, <1>2, <1>3, <1>10, GoOnMaps, CollectMaps, SameWords
     DEF BracketInLong, Whole!BracketInLong, Matches, Whole!Matches, Mem, Maps, Whole!LexNext
<1> QED
  BY <1>4, <1>5, <1>6, <1>7, <1>8, <1>9, <1>10

\* Comments.
LEMMA CommentMaps == LexInv /\ (StartComment \/ OpenComment \/ CommentLine \/ CommentChar \/ EndComment) => Maps
<1> SUFFICES ASSUME LexInv, StartComment \/ OpenComment \/ CommentLine \/ CommentChar \/ EndComment PROVE Maps
  OBVIOUS
<1>1. /\ Sound(in) /\ Sound(Filled(in)) /\ Sound(Advanced(in))
      /\ Whole!Peek(Mem(in)) = Peek(in)
      /\ Whole!Filled(Mem(in)) = Mem(Filled(in)) /\ Whole!Advanced(Mem(in)) = Mem(Advanced(in))
  BY Looks DEF LexInv
<1>2. CASE StartComment
  BY <1>1, <1>2, GoOnMaps
     DEF StartComment, Whole!StartComment, Mem, Maps, Whole!LexNext
<1>3. CASE OpenComment
  BY <1>1, <1>3, GoOnMaps
     DEF OpenComment, Whole!OpenComment, Mem, Maps, Whole!LexNext
<1>4. CASE CommentLine
  BY <1>1, <1>4, GoOnMaps, SkippedMaps
     DEF CommentLine, Whole!CommentLine, Mem, Maps, Whole!LexNext
<1>5. CASE CommentChar
  BY <1>1, <1>5, GoOnMaps, SkippedMaps
     DEF CommentChar, Whole!CommentChar, Mem, Maps, Whole!LexNext
<1>6. CASE EndComment
  BY <1>1, <1>6, GoOnMaps, SkippedMaps
     DEF EndComment, Whole!EndComment, Matches, Whole!Matches, Mem, Maps, Whole!LexNext
<1> QED
  BY <1>2, <1>3, <1>4, <1>5, <1>6

\* Operators and the end of the text.
LEMMA TerminalMaps == LexInv /\ (Dash \/ Dots \/ StartFraction \/ Terminal \/ End \/ Unknown) => Maps
<1> SUFFICES ASSUME LexInv, Dash \/ Dots \/ StartFraction \/ Terminal \/ End \/ Unknown PROVE Maps
  OBVIOUS
<1>1. /\ Sound(in) /\ Sound(Filled(in)) /\ Sound(Advanced(in))
      /\ Whole!Peek(Mem(in)) = Peek(in)
      /\ Whole!Filled(Mem(in)) = Mem(Filled(in)) /\ Whole!Advanced(Mem(in)) = Mem(Advanced(in))
  BY Looks DEF LexInv
<1>2. /\ Sound(Filled(Second)) /\ Sound(Third)
      /\ Whole!Peek(Mem(Second)) = Peek(Second)
      /\ Whole!Filled(Mem(Second)) = Mem(Filled(Second)) /\ Whole!Advanced(Mem(Second)) = Mem(Third)
      /\ Whole!Second = Mem(Second) /\ Whole!Third = Mem(Third)
  BY <1>1, Looks DEF Second, Third, Whole!Second, Whole!Third, Mem
<1>3. /\ Sound(Filled(Third)) /\ Sound(Advanced(Third))
      /\ Whole!Peek(Mem(Third)) = Peek(Third)
      /\ Whole!Filled(Mem(Third)) = Mem(Filled(Third)) /\ Whole!Advanced(Mem(Third)) = Mem(Advanced(Third))
  BY <1>2, Looks
<1>4. CASE Dash
  BY <1>1, <1>2, <1>3, <1>4, GoOnMaps, TokenMaps
     DEF Dash, Whole!Dash, Mem, Maps, Whole!LexNext
<1>5. CASE Dots
  BY <1>1, <1>2, <1>3, <1>5, TokenMaps
     DEF Dots, Whole!Dots, Mem, Maps, Whole!LexNext
<1>6. CASE StartFraction
  BY <1>1, <1>2, <1>3, <1>6, GoOnMaps
     DEF StartFraction, Whole!StartFraction, Mem, Maps, Whole!LexNext
<1>7. CASE Terminal
  BY <1>1, <1>2, <1>3, <1>7, TokenMaps, SameSets
     DEF Terminal, Whole!Terminal, Second, Mem, Maps, Whole!LexNext
<1>8. CASE End
  BY <1>1, <1>2, <1>3, <1>8, TokenMaps
     DEF End, Whole!End, Mem, Maps, Whole!LexNext
<1>9. CASE Unknown
  BY <1>1, <1>2, <1>3, <1>9, TokenErrMaps, SameSets
     DEF Unknown, Whole!Unknown, Mem, Maps, Whole!LexNext
<1> QED
  BY <1>4, <1>5, <1>6, <1>7, <1>8, <1>9

\* Every step of the lexer on a file is one of the lexer in memory.
LEMMA StepMaps == LexInv /\ LexNext => Maps
BY HashMaps, WordMaps, StringMaps, BracketMaps, CommentMaps, TerminalMaps DEF LexNext

-----------------------------------------------------------------------------

\* The buffer always holds the piece of the text before the place in the file,
\* and the place in the buffer is inside it (mclex.c:182-207, 595-602).
THEOREM InputSound == LexSpec => []LexInv
<1>1. LexInit => LexInv
  <2> SUFFICES ASSUME NEW s \in Scripts, LexBegins(s) PROVE LexInv
    BY DEF LexInit
  <2>1. text \in Seq(Char) /\ s.chunk \in Nat \ {1} /\ in = Opened(s.chunk)
    BY LexAssumption DEF LexBegins
  <2>2. CASE s.chunk = 0
    BY <2>1, <2>2 DEF LexInv, Sound, Places, Opened, InMemory
  <2>3. CASE s.chunk # 0
    BY <2>1, <2>3 DEF LexInv, Sound, Places, Opened
  <2> QED
    BY <2>2, <2>3
<1>2. LexInv /\ [LexNext]_lexvars => LexInv'
  <2>1. LexInv /\ LexNext => LexInv'
    BY StepMaps DEF LexInv, Maps
  <2>2. LexInv /\ UNCHANGED lexvars => LexInv'
    BY DEF LexInv, Sound, lexvars
  <2> QED
    BY <2>1, <2>2
<1> QED
  BY <1>1, <1>2, PTL DEF LexSpec

\* A file that is read in chunks is lexed like the same text in memory, for every
\* text and every chunk size (mclex.c:83-207, 595-625, mcfs.c:87-106).
THEOREM ChunksDoNotShow == LexSpec => LikeInMemory
<1>1. LexInit => Whole!LexBegins([text |-> text, chunk |-> 0, call |-> mode, fails |-> fails])
  <2> SUFFICES ASSUME NEW s \in Scripts, LexBegins(s)
               PROVE  Whole!LexBegins([text |-> text, chunk |-> 0, call |-> mode, fails |-> fails])
    BY DEF LexInit
  <2>1. text \in Seq(Char) /\ s.chunk \in Nat \ {1} /\ in = Opened(s.chunk)
    BY LexAssumption DEF LexBegins
  <2>2. Consumed(in) = 0
    BY <2>1 DEF Opened, InMemory, Consumed
  <2> QED
    BY <2>2, SameSets DEF LexBegins, Whole!LexBegins, Whole!Opened, Whole!InMemory, InMemory
<1>2. LexInv /\ [LexNext]_lexvars => [Whole!LexNext]_(Whole!lexvars)
  <2>1. LexInv /\ LexNext => Whole!LexNext
    BY StepMaps DEF Maps
  <2>2. UNCHANGED lexvars => UNCHANGED Whole!lexvars
    BY DEF lexvars, Whole!lexvars, InMemory, Consumed
  <2> QED
    BY <2>1, <2>2
<1> QED
  BY <1>1, <1>2, InputSound, PTL DEF LexSpec, LikeInMemory

-----------------------------------------------------------------------------
(* Pieces, scratch buffer and token array *)

Modes == {"file", "hash", "start", "word", "number", "fraction", "string", "open", "long",
          "closing", "dashes", "opencomment", "line", "comment", "closingcomment", "done", "wild"}
Kinds == {"hash", "space", "comment", "reserved", "name", "int", "flt", "string", "symbol", "eos"}

\* What may be in a buffer: characters of the text, and those the lexer puts there.
Chars == Char \cup Simple \cup Complex

\* The locals.
Works == [bfr : Seq(Chars), str : Seq(Chars), cap : Nat, quote : Char, escaped : BOOLEAN,
          level : Nat, closing : Nat, lost : BOOLEAN]

WorkOK(v) == v \in Works /\ Len(v.bfr) < IdLen /\ Len(v.str) < MaxStr + IdLen

\* The buffer of a file keeps a place for a final zero.
Small(i) == i.chunk > 0 => Len(i.buf) < i.chunk

Tokens == [kind : Kinds, val : Seq(Chars)]
Pieces == [kind : Kinds, from : Nat, to : Nat, lost : BOOLEAN]

\* Pieces follow each other from the start of the text up to the token that is
\* being read.
Chain ==
    /\ pieces \in Seq(Pieces) /\ from \in Nat
    /\ \A k \in 1 .. Len(pieces) - 1 : pieces[k].to = pieces[k + 1].from
    /\ IF pieces = <<>> THEN from = 0
                        ELSE pieces[1].from = 0 /\ pieces[Len(pieces)].to = from

\* Code 0.
Ended ==
    mode = "done" /\ rcode = 0 =>
        /\ pieces # <<>> /\ pieces[Len(pieces)].kind = "eos"
        /\ Consumed(in) = Len(text) \/ text[Consumed(in) + 1] = Nul

\* A token array that is full is the end, and the literal that is looked at for its
\* closing bracket has not been cut.
Room ==
    /\ tokens \in Seq(Tokens) /\ Len(tokens) <= MaxTokens
    /\ mode # "done" => Len(tokens) < MaxTokens
    /\ mode = "closing" => Len(w.str) < MaxStr

RoundInv ==
    /\ LexInv
    /\ mode \in Modes /\ Small(in) /\ WorkOK(w)
    /\ Chain /\ Ended /\ Room

\* A place the lexer may go on from.
Place(i) == Sound(i) /\ Small(i)

\* Filling keeps a place free, and so does a step.
LEMMA PlaceMoves ==
    ASSUME LexInv, NEW i, Place(i)
    PROVE  /\ Place(Filled(i)) /\ Place(Advanced(i))
           /\ Consumed(i) \in Nat /\ Consumed(i) <= Len(text)
           /\ Consumed(Filled(i)) = Consumed(i)
           /\ Peek(i) = IF Consumed(i) < Len(text) THEN text[Consumed(i) + 1] ELSE Nul
           /\ Peek(i) \in Char
<1>1. Sound(i) /\ text \in Seq(Char)
  BY DEF Place, LexInv
<1>2. /\ Sound(Filled(i)) /\ Sound(Advanced(i)) /\ Consumed(i) \in Nat /\ Consumed(i) <= Len(text)
      /\ Peek(i) = Peek(Mem(i)) /\ Consumed(Filled(i)) = Consumed(i)
  BY <1>1, Input, FilledSound
<1>3. Peek(i) = IF Consumed(i) < Len(text) THEN text[Consumed(i) + 1] ELSE Nul
  BY <1>1, <1>2, MemPlace DEF Mem
<1>4. Peek(i) \in Char
  BY <1>1, <1>2, <1>3, NulAssumption
<1>5. Small(Filled(i))
  <2>1. CASE i.idx < Len(i.buf) \/ i.chunk = 0
    BY <2>1 DEF Filled, Place
  <2>2. CASE ~(i.idx < Len(i.buf) \/ i.chunk = 0)
    <3> DEFINE e == ChunkEnd(i)
    <3>1. /\ i.chunk \in Nat /\ i.chunk >= 2 /\ i.fpos \in Nat /\ Len(text) \in Nat /\ i.fpos <= Len(text)
      BY <1>1, <2>2 DEF Sound, Places
    <3>2. e \in Nat /\ i.fpos <= e /\ e <= i.fpos + i.chunk - 1
      BY <3>1 DEF ChunkEnd
    <3>3. Filled(i).chunk = i.chunk /\ Filled(i).buf = SubSeq(text, i.fpos + 1, e)
      BY <2>2 DEF Filled, Update
    <3>4. Len(SubSeq(text, i.fpos + 1, e)) <= e - i.fpos
      <4> HIDE DEF e
      <4> QED
        BY <3>1, <3>2
    <3> HIDE DEF e
    <3>5. Len(Filled(i).buf) \in Nat
      BY <1>2 DEF Sound, Places
    <3> DEFINE n == Len(Filled(i).buf)
    <3>6. n <= e - i.fpos
      BY <3>3, <3>4
    <3> HIDE DEF n
    <3>7. n < i.chunk
      BY <3>1, <3>2, <3>5, <3>6 DEF n
    <3> QED
      BY <3>3, <3>7 DEF Small, n
  <2> QED
    BY <2>1, <2>2
<1>6. Small(Advanced(i))
  <2>1. Advanced(i).buf = Filled(i).buf /\ Advanced(i).chunk = Filled(i).chunk
    BY <1>2 DEF Advanced, Sound, Places
  <2> QED
    BY <1>5, <2>1 DEF Small
<1> QED
  BY <1>2, <1>3, <1>4, <1>5, <1>6 DEF Place

\* Nothing has been read at first.
LEMMA NoWorkOK == WorkOK(NoWork)
<1>1. <<>> \in Seq(Chars) /\ Len(<<>>) = 0
  OBVIOUS
<1> QED
  BY <1>1, LexAssumption, NulAssumption DEF WorkOK, NoWork, Works
\* The loop goes on.
LEMMA GoesOn ==
    ASSUME RoundInv, NEW i, Place(i), NEW m \in Modes, m # "done", mode # "done", GoOn(m, i),
           WorkOK(w'), m = "closing" => Len(w'.str) < MaxStr
    PROVE  RoundInv'
<1>1. LexInv'
  BY GoOnMaps DEF RoundInv, LexInv, Place
<1>2. (mode \in Modes)' /\ Small(in)' /\ WorkOK(w)'
  BY DEF GoOn, Place, Small, WorkOK
<1>3. Chain'
  BY DEF RoundInv, Chain, GoOn
<1>4. Ended' /\ Room'
  BY DEF RoundInv, Ended, Room, GoOn
<1> QED
  BY <1>1, <1>2, <1>3, <1>4 DEF RoundInv

\* It ends with an error.
LEMMA Fails ==
    ASSUME RoundInv, NEW i, Place(i), TokenErr(i)
    PROVE  RoundInv'
<1>1. LexInv'
  BY TokenErrMaps DEF RoundInv, LexInv, Place
<1>2. (mode \in Modes)' /\ Small(in)' /\ WorkOK(w)'
  BY NoWorkOK DEF TokenErr, Place, Small, WorkOK, Modes
<1>3. Chain'
  BY DEF RoundInv, Chain, TokenErr
<1>4. Ended' /\ Room'
  BY DEF RoundInv, Ended, Room, TokenErr
<1> QED
  BY <1>1, <1>2, <1>3, <1>4 DEF RoundInv

\* A piece follows the one before it.
LEMMA ReadChain ==
    ASSUME RoundInv, NEW i, Place(i), NEW kind \in Kinds, NEW lost \in BOOLEAN,
           text' = text, Read(kind, i, lost)
    PROVE  /\ LexInv' /\ Small(in)' /\ WorkOK(w)' /\ Chain'
           /\ pieces' # <<>> /\ pieces'[Len(pieces')].kind = kind
           /\ Consumed(in)' = Consumed(i)
<1> DEFINE p == [kind |-> kind, from |-> from, to |-> Consumed(i), lost |-> lost]
           q == Append(pieces, p)
           n == Len(pieces)
<1>1. LexInv' /\ Consumed(i) \in Nat
  BY ReadMaps, PlaceMoves DEF RoundInv, LexInv, Place
<1>2. Small(in)' /\ WorkOK(w)' /\ Consumed(in)' = Consumed(i)
  BY NoWorkOK DEF Read, Place, Small, WorkOK, Consumed
<1>3. /\ pieces \in Seq(Pieces) /\ from \in Nat /\ n \in Nat /\ DOMAIN pieces = 1 .. n
      /\ \A k \in 1 .. n - 1 : pieces[k].to = pieces[k + 1].from
      /\ IF pieces = <<>> THEN from = 0 ELSE pieces[1].from = 0 /\ pieces[n].to = from
      /\ pieces # <<>> => n > 0
      /\ pieces = <<>> => n = 0
  BY DEF RoundInv, Chain
<1>4. p \in Pieces /\ p.kind = kind /\ p.from = from /\ p.to = Consumed(i)
  BY <1>1, <1>3 DEF Pieces
<1>5. pieces' = q /\ from' = Consumed(i)
  BY DEF Read
<1> HIDE DEF p
<1>6. /\ q \in Seq(Pieces) /\ q # <<>> /\ Len(q) = n + 1 /\ q[n + 1] = p
      /\ \A k \in 1 .. n : q[k] = pieces[k]
  BY <1>3, <1>4, AppendProperties
<1> HIDE DEF q, n
<1>7. \A k \in 1 .. Len(q) - 1 : q[k].to = q[k + 1].from
  <2> SUFFICES ASSUME NEW k \in 1 .. Len(q) - 1 PROVE q[k].to = q[k + 1].from
    OBVIOUS
  <2>1. k \in 1 .. n /\ n > 0 /\ q[k] = pieces[k]
    BY <1>3, <1>6
  <2>2. CASE k = n
    <3>1. pieces # <<>>
      BY <2>1, <1>3
    <3> QED
      BY <2>1, <2>2, <3>1, <1>3, <1>4, <1>6
  <2>3. CASE k # n
    <3>1. k \in 1 .. n - 1 /\ k + 1 \in 1 .. n
      BY <2>1, <2>3, <1>3
    <3> QED
      BY <2>1, <3>1, <1>3, <1>6
  <2> QED
    BY <2>2, <2>3
<1>8. q[1].from = 0
  <2>1. CASE pieces = <<>>
    BY <2>1, <1>3, <1>4, <1>6
  <2>2. CASE pieces # <<>>
    <3>1. 1 \in 1 .. n
      BY <2>2, <1>3
    <3> QED
      BY <2>2, <3>1, <1>3, <1>6
  <2> QED
    BY <2>1, <2>2
<1>9. q[Len(q)].to = Consumed(i) /\ q[Len(q)].kind = kind
  BY <1>4, <1>6
<1>10. Chain'
  BY <1>1, <1>5, <1>6, <1>7, <1>8, <1>9 DEF Chain
<1> QED
  BY <1>1, <1>2, <1>5, <1>6, <1>9, <1>10

\* A space or comment is left.
LEMMA Skips ==
    ASSUME RoundInv, NEW i, Place(i), NEW kind \in Kinds, mode # "done", Skipped(kind, i)
    PROVE  RoundInv'
<1>1. LexInv' /\ Small(in)' /\ WorkOK(w)' /\ Chain'
  BY ReadChain DEF Skipped
<1>2. (mode \in Modes)' /\ Ended' /\ Room'
  BY DEF RoundInv, Ended, Room, Skipped, Modes
<1> QED
  BY <1>1, <1>2 DEF RoundInv

\* A token is taken, and counted while there is a place for it.
LEMMA Counts ==
    ASSUME RoundInv, NEW i, Place(i), NEW kind \in Kinds, NEW val \in Seq(Chars),
           NEW lost \in BOOLEAN, mode # "done", Read(kind, i, lost), Counted(kind, val),
           kind = "eos" => Peek(i) = Nul
    PROVE  RoundInv'
<1>1. /\ LexInv' /\ Small(in)' /\ WorkOK(w)' /\ Chain'
      /\ pieces' # <<>> /\ pieces'[Len(pieces')].kind = kind
      /\ Consumed(in)' = Consumed(i)
  BY ReadChain DEF Counted
<1>2. (mode \in Modes)'
  BY DEF Counted, Modes
<1>3. Room'
  <2> DEFINE x == [kind |-> kind, val |-> val]
  <2>1. x \in Tokens /\ tokens \in Seq(Tokens) /\ tokens' = Append(tokens, x)
    BY DEF RoundInv, Room, Counted, Tokens
  <2> HIDE DEF x
  <2>2. tokens' \in Seq(Tokens) /\ Len(tokens') = Len(tokens) + 1 /\ Len(tokens) \in Nat
    BY <2>1, AppendProperties
  <2>3. Len(tokens) < MaxTokens
    BY DEF RoundInv, Room
  <2>4. mode' # "closing" /\ (mode' # "done" => ~(Len(tokens') >= MaxTokens))
    BY DEF Counted
  <2> QED
    BY <2>2, <2>3, <2>4, LexAssumption DEF Room
<1>4. CASE kind = "eos"
  <2>1. Consumed(i) = Len(text) \/ text[Consumed(i) + 1] = Nul
    BY <1>4, PlaceMoves DEF RoundInv
  <2> QED
    BY <1>1, <1>2, <1>3, <1>4, <2>1 DEF RoundInv, Ended, Counted
<1>5. CASE kind # "eos"
  <2>1. mode' = "done" => rcode' = FullCode
    BY <1>5 DEF Counted
  <2>2. Ended'
    BY <2>1 DEF Ended, FullCode
  <2> QED
    BY <1>1, <1>2, <1>3, <2>2 DEF RoundInv
<1> QED
  BY <1>4, <1>5
-----------------------------------------------------------------------------
(* The scratch buffer and the string object *)

\* A buffer that is appended is empty, whether there was room or not.
LEMMA AppendOK ==
    ASSUME NEW v \in Works, NEW u \in Append0(v)
    PROVE  /\ u \in Works /\ u.bfr = <<>>
           /\ Len(u.str) <= Len(v.str) + Len(v.bfr)
<1> DEFINE s == v.str
           b == v.bfr
           j == s \o b
<1>1. s \in Seq(Chars) /\ b \in Seq(Chars)
  BY DEF Works
<1>2. Len(s) \in Nat /\ Len(b) \in Nat /\ j \in Seq(Chars) /\ Len(j) = Len(s) + Len(b)
  <2> HIDE DEF s, b
  <2> QED
    BY <1>1, ConcatProperties
<1>3. <<>> \in Seq(Chars)
  OBVIOUS
<1>9. Len(j) <= Len(s) + Len(b) /\ Len(s) <= Len(s) + Len(b)
  <2> HIDE DEF s, b, j
  <2> QED
    BY <1>2
<1>4. CASE u = Appended(v)
  <2> DEFINE n == IF HasRoom(v) THEN v.cap ELSE Len(s) + Len(b)
  <2>1. u = [v EXCEPT !.str = j, !.bfr = <<>>, !.cap = n]
    BY <1>4 DEF Appended
  <2>2. n \in Nat
    BY <1>2 DEF Works
  <2> HIDE DEF n, j
  <2>3. u \in Works /\ u.bfr = <<>> /\ u.str = j
    BY <1>2, <1>3, <2>1, <2>2 DEF Works
  <2>4. Len(u.str) <= Len(s) + Len(b)
    BY <1>9, <2>3
  <2> QED
    BY <2>3, <2>4
<1>5. CASE u = [v EXCEPT !.bfr = <<>>, !.lost = TRUE]
  <2>1. u \in Works /\ u.bfr = <<>> /\ u.str = s
    BY <1>3, <1>5 DEF Works
  <2>2. Len(u.str) <= Len(s) + Len(b)
    BY <1>9, <2>1
  <2> QED
    BY <2>1, <2>2
<1> QED
  BY <1>4, <1>5 DEF Append0

\* A buffer that is full is appended.
LEMMA FlushedOK ==
    ASSUME NEW v \in Works, Len(v.bfr) <= IdLen, Len(v.str) < MaxStr, NEW u \in Flushed(v)
    PROVE  WorkOK(u)
<1>1. /\ Len(v.str) \in Nat /\ Len(v.bfr) \in Nat /\ IdLen \in Nat /\ IdLen > 0 /\ MaxStr \in Nat
  BY LexAssumption DEF Works
<1>2. CASE Len(v.bfr) >= IdLen
  <2>1. u \in Works /\ u.bfr = <<>> /\ Len(u.str) <= Len(v.str) + Len(v.bfr)
    BY <1>2, AppendOK DEF Flushed
  <2>2. Len(u.str) \in Nat /\ Len(u.bfr) = 0
    BY <2>1 DEF Works
  <2> DEFINE m == Len(u.str)
             n == Len(v.str)
             k == Len(v.bfr)
  <2>3. m \in Nat /\ n \in Nat /\ k \in Nat /\ m <= n + k /\ k <= IdLen /\ n < MaxStr
    BY <1>1, <2>1, <2>2
  <2> HIDE DEF m, n, k
  <2>4. m < MaxStr + IdLen
    BY <1>1, <2>3
  <2>5. Len(u.bfr) < IdLen
    BY <1>1, <2>2
  <2> QED
    BY <2>1, <2>4, <2>5 DEF WorkOK, m
<1>3. CASE ~(Len(v.bfr) >= IdLen)
  <2>1. u = v
    BY <1>3 DEF Flushed
  <2> QED
    BY <1>1, <1>3, <2>1 DEF WorkOK
<1> QED
  BY <1>2, <1>3

\* A literal ends.
LEMMA EndStringOK ==
    ASSUME RoundInv, NEW i, Place(i), mode # "done", EndString(i)
    PROVE  RoundInv'
<1>1. w \in Works
  BY DEF RoundInv, WorkOK
<1>2. PICK v \in (IF w.bfr # <<>> THEN Append0(w) ELSE {w}) :
          Read("string", i, v.lost) /\ Counted("string", v.str)
  BY DEF EndString
<1>3. v \in Works
  BY <1>1, <1>2, AppendOK
<1> DEFINE l == v.lost
           s == v.str
<1>4. l \in BOOLEAN /\ s \in Seq(Chars) /\ Read("string", i, l) /\ Counted("string", s)
  BY <1>2, <1>3 DEF Works
<1> HIDE DEF l, s
<1>5. "string" \in Kinds /\ "string" # "eos"
  BY DEF Kinds
<1> QED
  BY <1>4, <1>5, Counts

\* A piece of a literal is collected.
LEMMA CollectOK ==
    ASSUME RoundInv, NEW i, Place(i), NEW s \in Seq(Chars), mode \in {"long", "closing"},
           Len(w.str) < MaxStr, Len(w.bfr) + Len(s) <= IdLen, Collect(s, i)
    PROVE  RoundInv'
<1> DEFINE v == [w EXCEPT !.bfr = @ \o s]
<1>1. w \in Works /\ w.bfr \in Seq(Chars) /\ Len(w.bfr) \in Nat
  BY DEF RoundInv, WorkOK, Works
<1>2. w.bfr \o s \in Seq(Chars) /\ Len(w.bfr \o s) = Len(w.bfr) + Len(s)
  BY <1>1
<1>3. v \in Works /\ v.bfr = w.bfr \o s /\ v.str = w.str
  BY <1>1, <1>2 DEF Works
<1>4. w' \in Flushed(v) /\ GoOn("long", i)
  BY DEF Collect
<1> HIDE DEF v
<1>5. WorkOK(w')
  BY <1>2, <1>3, <1>4, FlushedOK
<1>6. "long" \in Modes /\ "long" # "done" /\ "long" # "closing" /\ mode # "done"
  BY DEF Modes
<1> QED
  BY <1>4, <1>5, <1>6, GoesOn

\* The places a step may go on from.
LEMMA Ahead ==
    ASSUME RoundInv
    PROVE  /\ Place(in) /\ Place(Filled(in)) /\ Place(Advanced(in)) /\ Place(Filled(Advanced(in)))
           /\ Place(Third) /\ Place(Filled(Third)) /\ Place(Advanced(Third)) /\ Second = Advanced(in)
           /\ Place(PastNewline(Second)) /\ Place(AtStop)
           /\ Peek(in) \in Char /\ Peek(Second) \in Char
           /\ Peek(Filled(in)) = Peek(in)
<1>1. Place(in) /\ LexInv
  BY DEF RoundInv, LexInv, Place
<1>2. Place(Second) /\ Place(Filled(in)) /\ Peek(in) \in Char
  BY <1>1, PlaceMoves DEF Second
<1>3. Place(Third) /\ Place(Filled(Second)) /\ Peek(Second) \in Char
  BY <1>1, <1>2, PlaceMoves DEF Third
<1>4. Place(Filled(Third)) /\ Place(Advanced(Third))
  BY <1>1, <1>3, PlaceMoves
<1>5. Peek(Filled(in)) = Peek(in)
  BY <1>1, <1>2, PlaceMoves
<1> QED
  BY <1>1, <1>2, <1>3, <1>4, <1>5 DEF Second, Third, PastNewline, AtStop
-----------------------------------------------------------------------------
(* One action after the other *)

\* The locals with a count or a flag changed.
LEMMA WorkFields ==
    ASSUME WorkOK(w)
    PROVE  /\ w.level \in Nat /\ w.closing \in Nat /\ w.bfr \in Seq(Chars) /\ Len(w.bfr) \in Nat
           /\ \A q \in Char : WorkOK([w EXCEPT !.quote = q])
           /\ WorkOK([w EXCEPT !.level = @ + 1]) /\ WorkOK([w EXCEPT !.closing = @ + 1])
           /\ WorkOK([w EXCEPT !.closing = 0])
           /\ \A b \in Seq(Chars) : Len(b) < IdLen => WorkOK([w EXCEPT !.bfr = b])
           /\ [w EXCEPT !.closing = @ + 1].str = w.str /\ [w EXCEPT !.closing = 0].str = w.str
<1>1. /\ w \in Works
      /\ w.level \in Nat /\ w.closing \in Nat /\ w.bfr \in Seq(Chars) /\ w.str \in Seq(Chars)
      /\ Len(w.bfr) < IdLen /\ Len(w.str) < MaxStr + IdLen
  BY DEF WorkOK, Works
<1>2. Len(w.bfr) \in Nat
  BY <1>1
<1>3. ASSUME NEW q \in Char PROVE WorkOK([w EXCEPT !.quote = q])
  <2> DEFINE u == [w EXCEPT !.quote = q]
  <2>1. u \in Works /\ u.bfr = w.bfr /\ u.str = w.str
    BY <1>1 DEF Works
  <2> HIDE DEF u
  <2>2. WorkOK(u)
    BY <1>1, <2>1 DEF WorkOK
  <2> QED
    BY <2>2 DEF u
<1>4. WorkOK([w EXCEPT !.level = @ + 1])
  <2> DEFINE u == [w EXCEPT !.level = @ + 1]
  <2>1. u \in Works /\ u.bfr = w.bfr /\ u.str = w.str
    BY <1>1, SMTT(30) DEF Works
  <2> HIDE DEF u
  <2>2. WorkOK(u)
    BY <1>1, <2>1 DEF WorkOK
  <2> QED
    BY <2>2 DEF u
<1>5. ASSUME NEW n \in Nat
      PROVE  WorkOK([w EXCEPT !.closing = n]) /\ [w EXCEPT !.closing = n].str = w.str
  <2> DEFINE u == [w EXCEPT !.closing = n]
  <2>1. u \in Works /\ u.bfr = w.bfr /\ u.str = w.str
    BY <1>1 DEF Works
  <2> HIDE DEF u
  <2>2. WorkOK(u) /\ u.str = w.str
    BY <1>1, <2>1 DEF WorkOK
  <2> QED
    BY <2>2 DEF u
<1>6. ASSUME NEW b \in Seq(Chars), Len(b) < IdLen PROVE WorkOK([w EXCEPT !.bfr = b])
  <2> DEFINE u == [w EXCEPT !.bfr = b]
  <2>1. u \in Works /\ u.bfr = b /\ u.str = w.str
    BY <1>1 DEF Works
  <2> HIDE DEF u
  <2>2. WorkOK(u)
    BY <1>1, <1>6, <2>1 DEF WorkOK
  <2> QED
    BY <2>2 DEF u
<1>7. w.closing + 1 \in Nat /\ 0 \in Nat
  BY <1>1
<1> QED
  BY <1>1, <1>2, <1>3, <1>4, <1>5, <1>6, <1>7

\* The line that begins with a hash.
LEMMA HashRound == RoundInv /\ (HashStart \/ HashLine) => RoundInv'
<1> SUFFICES ASSUME RoundInv, HashStart \/ HashLine PROVE RoundInv'
  OBVIOUS
<1>1. WorkOK(w) /\ mode # "done"
  BY DEF RoundInv, HashStart, HashLine
<1>2. CASE HashStart
  <2> DEFINE m == IF Peek(in) = "#" THEN "hash" ELSE "start"
  <2>1. m \in Modes /\ m # "done" /\ m # "closing" /\ GoOn(m, Filled(in)) /\ w' = w
    BY <1>2 DEF HashStart, Modes
  <2> HIDE DEF m
  <2> QED
    BY <1>1, <2>1, Ahead, GoesOn
<1>3. CASE HashLine
  <2>1. "hash" \in Modes /\ "hash" \in Kinds
    BY DEF Modes, Kinds
  <2> QED
    BY <1>1, <1>3, <2>1, Ahead, GoesOn, Skips DEF HashLine
<1> QED
  BY <1>2, <1>3

\* Names and numbers.
LEMMA WordRound ==
    RoundInv /\ (SkipSpace \/ StartWord \/ StartNumber \/ ReadOut \/ EndWord \/ EndNumber) => RoundInv'
<1> SUFFICES ASSUME RoundInv,
                    SkipSpace \/ StartWord \/ StartNumber \/ ReadOut \/ EndWord \/ EndNumber
             PROVE  RoundInv'
  OBVIOUS
<1>1. WorkOK(w) /\ mode # "done" /\ w.bfr \in Seq(Chars)
  BY WorkFields DEF RoundInv, SkipSpace, StartWord, StartNumber, ReadOut, EndWord, EndNumber
<1>2. CASE SkipSpace
  <2>1. "space" \in Kinds
    BY DEF Kinds
  <2> QED
    BY <1>1, <1>2, <2>1, Ahead, Skips DEF SkipSpace
<1>3. CASE StartWord
  BY <1>1, <1>3, Ahead, GoesOn DEF StartWord, Modes
<1>4. CASE StartNumber
  BY <1>1, <1>4, Ahead, GoesOn DEF StartNumber, Modes
<1>5. CASE ReadOut
  <2> DEFINE b == Append(w.bfr, Peek(in))
  <2>1. Peek(in) \in Chars /\ Len(w.bfr) < IdLen - 1 /\ Len(w.bfr) \in Nat /\ IdLen \in Nat
    BY <1>1, <1>5, Ahead, WorkFields, LexAssumption DEF ReadOut, Fits, Chars
  <2>2. b \in Seq(Chars) /\ Len(b) = Len(w.bfr) + 1
    BY <1>1, <2>1, AppendProperties
  <2>3. w' = [w EXCEPT !.bfr = b] /\ GoOn(mode, Advanced(in))
    BY <1>5 DEF ReadOut
  <2> HIDE DEF b
  <2>9. Len(b) < IdLen
    BY <2>1, <2>2
  <2>4. WorkOK(w')
    BY <1>1, <2>9, <2>2, <2>3, WorkFields
  <2>5. mode \in Modes /\ mode # "closing"
    BY <1>5 DEF ReadOut, Modes
  <2> QED
    BY <1>1, <2>3, <2>4, <2>5, Ahead, GoesOn
<1>6. CASE EndWord
  <2>1. "reserved" \in Kinds /\ "name" \in Kinds /\ FALSE \in BOOLEAN
    BY DEF Kinds
  <2> QED
    BY <1>1, <1>6, <2>1, Ahead, Counts, Fails DEF EndWord, Token
<1>7. CASE EndNumber
  <2> DEFINE k == IF mode = "fraction" \/ (~IsHex /\ HasPoint) THEN "flt" ELSE "int"
  <2>1. k \in Kinds /\ k # "eos" /\ Token(k, w.bfr, AtStop)
    BY <1>7 DEF EndNumber, Kinds
  <2> HIDE DEF k
  <2> QED
    BY <1>1, <2>1, Ahead, Counts DEF Token
<1> QED
  BY <1>2, <1>3, <1>4, <1>5, <1>6, <1>7

\* Strings in quotes.
LEMMA StringRound == RoundInv /\ (StartString \/ StringChar \/ CutString \/ OpenString) => RoundInv'
<1> SUFFICES ASSUME RoundInv, StartString \/ StringChar \/ CutString \/ OpenString PROVE RoundInv'
  OBVIOUS
<1>1. WorkOK(w) /\ mode # "done"
  BY DEF RoundInv, StartString, StringChar, CutString, OpenString
<1>2. CASE StartString
  <2>1. CASE GoOn("string", Advanced(in)) /\ w' = [w EXCEPT !.quote = Peek(in)]
    <3>1. WorkOK(w')
      BY <1>1, <2>1, Ahead, WorkFields
    <3> QED
      BY <1>1, <2>1, <3>1, Ahead, GoesOn DEF Modes
  <2>2. CASE AllocFails(Filled(in))
    BY <2>2, Ahead, Fails DEF AllocFails
  <2> QED
    BY <1>2, <2>1, <2>2 DEF StartString
<1>3. CASE StringChar
  <2>1. CASE Closes(Peek(in))
    BY <1>1, <1>3, <2>1, Ahead, EndStringOK DEF StringChar
  <2>2. CASE ~Closes(Peek(in))
    <3> DEFINE b == Append(w.bfr, Peek(in))
               e == ~w.escaped /\ Peek(in) = "\\"
               v == [w EXCEPT !.bfr = b, !.escaped = e]
    <3>1. Peek(in) \in Chars /\ w.bfr \in Seq(Chars) /\ Len(w.bfr) \in Nat
      BY <1>1, Ahead, WorkFields DEF Chars
    <3>2. b \in Seq(Chars) /\ Len(b) = Len(w.bfr) + 1
      BY <3>1, AppendProperties
    <3>3. e \in BOOLEAN
      OBVIOUS
    <3>4. w' \in Flushed(v) /\ GoOn("string", Advanced(in)) /\ ~StrFull
      BY <1>3, <2>2 DEF StringChar
    <3> HIDE DEF b, e
    <3>5. v \in Works /\ v.bfr = b /\ v.str = w.str
      BY <1>1, <3>2, <3>3 DEF WorkOK, Works
    <3> HIDE DEF v
    <3>6. Len(v.bfr) <= IdLen /\ Len(v.str) < MaxStr
      <4>1. Len(w.bfr) < IdLen /\ Len(w.str) \in Nat /\ IdLen \in Nat /\ MaxStr \in Nat
        BY <1>1, LexAssumption DEF WorkOK, Works
      <4> QED
        BY <4>1, <3>1, <3>2, <3>4, <3>5 DEF StrFull
    <3>7. WorkOK(w')
      BY <3>4, <3>5, <3>6, FlushedOK
    <3> QED
      BY <1>1, <3>4, <3>7, Ahead, GoesOn DEF Modes
  <2> QED
    BY <2>1, <2>2
<1>4. CASE CutString
  BY <1>1, <1>4, Ahead, EndStringOK DEF CutString
<1>5. CASE OpenString
  BY <1>5, Ahead, Fails DEF OpenString
<1> QED
  BY <1>2, <1>3, <1>4, <1>5
\* Long literals.
LEMMA BracketRound ==
    RoundInv /\ (CountEq \/ StartBracket \/ OpenLong \/ NotLong \/ LongChar \/ EndLong \/ BracketInLong)
    => RoundInv'
<1> SUFFICES ASSUME RoundInv,
                    CountEq \/ StartBracket \/ OpenLong \/ NotLong \/ LongChar \/ EndLong \/ BracketInLong
             PROVE  RoundInv'
  OBVIOUS
<1>1. WorkOK(w) /\ mode # "done"
  BY DEF RoundInv, CountEq, StartBracket, OpenLong, NotLong, LongChar, EndLong, BracketInLong
<1>2. mode = "closing" => Len(w.str) < MaxStr
  BY DEF RoundInv, Room
<1>3. CASE CountEq
  <2>1. mode \in Modes /\ GoOn(mode, Advanced(in))
    BY <1>3 DEF CountEq, Modes
  <2>2. WorkOK(w')
    BY <1>1, <1>3, WorkFields DEF CountEq
  <2>3. mode = "closing" => w'.str = w.str
    BY <1>1, <1>3, WorkFields DEF CountEq
  <2> QED
    BY <1>1, <1>2, <2>1, <2>2, <2>3, Ahead, GoesOn
<1>4. CASE StartBracket
  BY <1>1, <1>4, Ahead, GoesOn DEF StartBracket, Modes
<1>5. CASE OpenLong
  <2>1. Place(PastNewline(Advanced(in))) /\ Place(Advanced(in))
    BY Ahead
  <2>2. CASE GoOn("long", PastNewline(Advanced(in))) /\ w' = w
    BY <1>1, <2>1, <2>2, GoesOn DEF Modes
  <2>3. CASE AllocFails(Advanced(in))
    BY <2>1, <2>3, Fails DEF AllocFails
  <2> QED
    BY <1>5, <2>2, <2>3 DEF OpenLong
<1>6. CASE NotLong
  <2>1. "symbol" \in Kinds /\ FALSE \in BOOLEAN /\ <<"[">> \in Seq(Chars)
    BY DEF Kinds, Chars, Simple
  <2> QED
    BY <1>1, <1>6, <2>1, Ahead, Counts, Fails DEF NotLong, Token
<1>7. CASE LongChar
  <2>1. Len(w.str) < MaxStr /\ Len(w.str) \in Nat /\ Len(w.bfr) \in Nat /\ Len(w.bfr) < IdLen
    BY <1>1, <1>7, LexAssumption DEF LongChar, StrFull, WorkOK, Works
  <2>2. CASE Peek(in) = "]"
    <3>1. GoOn("closing", Advanced(in)) /\ WorkOK(w') /\ w'.str = w.str
      BY <1>1, <1>7, <2>2, WorkFields DEF LongChar
    <3> QED
      BY <1>1, <2>1, <3>1, Ahead, GoesOn DEF Modes
  <2>3. CASE Peek(in) # "]"
    <3> DEFINE c == Peek(in)
    <3>1. c \in Chars
      BY Ahead DEF Chars
    <3>2. Collect(<<c>>, Advanced(in)) /\ mode = "long"
      BY <1>7, <2>3 DEF LongChar
    <3> HIDE DEF c
    <3>3. <<c>> \in Seq(Chars) /\ Len(<<c>>) = 1
      BY <3>1
    <3>4. Len(w.bfr) + 1 <= IdLen
      BY <2>1, LexAssumption
    <3> QED
      BY <2>1, <3>2, <3>3, <3>4, Ahead, CollectOK
  <2> QED
    BY <2>2, <2>3
<1>8. CASE EndLong
  BY <1>1, <1>8, Ahead, EndStringOK DEF EndLong
<1>9. CASE BracketInLong
  <2>1. mode = "closing" /\ Len(w.str) < MaxStr
    BY <1>2, <1>9 DEF BracketInLong
  <2>2. CASE Len(w.bfr) + Len(Bracket) > IdLen
    <3>1. GoOn("wild", Filled(in)) /\ w' = w
      BY <1>9, <2>2 DEF BracketInLong
    <3> QED
      BY <1>1, <3>1, Ahead, GoesOn DEF Modes
  <2>3. CASE ~(Len(w.bfr) + Len(Bracket) > IdLen)
    <3>1. w.closing + 1 \in Nat /\ "]" \in Chars /\ "=" \in Chars
      <4>1. w.closing \in Nat
        BY <1>1, WorkFields
      <4>2. "]" \in Chars /\ "=" \in Chars
        BY DEF Chars, Simple, Complex
      <4> QED
        BY <4>1, <4>2
    <3> DEFINE n == w.closing + 1
    <3>2. Bracket = [k \in 1 .. n |-> IF k = 1 THEN "]" ELSE "="]
      BY DEF Bracket
    <3> HIDE DEF n
    <3>3. n \in Nat
      BY <3>1 DEF n
    <3>4. Bracket \in Seq(Chars) /\ Len(Bracket) = n
      BY <3>1, <3>2, <3>3
    <3>5. Len(w.bfr) + Len(Bracket) <= IdLen
      <4>1. Len(w.bfr) \in Nat /\ IdLen \in Nat
        BY <1>1, WorkFields, LexAssumption
      <4> QED
        BY <2>3, <3>3, <3>4, <4>1
    <3>6. Collect(Bracket, Filled(in))
      BY <1>9, <2>3 DEF BracketInLong
    <3> QED
      BY <2>1, <3>4, <3>5, <3>6, Ahead, CollectOK
  <2> QED
    BY <2>2, <2>3
<1> QED
  BY <1>3, <1>4, <1>5, <1>6, <1>7, <1>8, <1>9

\* Comments.
LEMMA CommentRound ==
    RoundInv /\ (StartComment \/ OpenComment \/ CommentLine \/ CommentChar \/ EndComment) => RoundInv'
<1> SUFFICES ASSUME RoundInv,
                    StartComment \/ OpenComment \/ CommentLine \/ CommentChar \/ EndComment
             PROVE  RoundInv'
  OBVIOUS
<1>1. WorkOK(w) /\ mode # "done"
  BY DEF RoundInv, StartComment, OpenComment, CommentLine, CommentChar, EndComment
<1>2. "comment" \in Kinds
  BY DEF Kinds
<1>3. CASE StartComment
  BY <1>1, <1>3, Ahead, GoesOn DEF StartComment, Modes
<1>4. CASE OpenComment
  BY <1>1, <1>4, Ahead, GoesOn DEF OpenComment, Modes
<1>5. CASE CommentLine
  BY <1>1, <1>2, <1>5, Ahead, GoesOn, Skips DEF CommentLine, Modes
<1>6. CASE CommentChar
  <2>1. CASE Peek(in) = Nul
    BY <1>1, <1>2, <1>6, <2>1, Ahead, Skips DEF CommentChar
  <2>2. CASE Peek(in) # Nul
    <3> DEFINE m == IF Peek(in) = "]" THEN "closingcomment" ELSE mode
    <3>1. m \in Modes /\ m # "done" /\ m # "closing" /\ GoOn(m, Advanced(in)) /\ w' = [w EXCEPT !.closing = 0]
      BY <1>6, <2>2 DEF CommentChar, Modes
    <3> HIDE DEF m
    <3>2. WorkOK(w')
      BY <1>1, <3>1, WorkFields
    <3> QED
      BY <1>1, <3>1, <3>2, Ahead, GoesOn
  <2> QED
    BY <2>1, <2>2
<1>7. CASE EndComment
  BY <1>1, <1>2, <1>7, Ahead, GoesOn, Skips DEF EndComment, Modes
<1> QED
  BY <1>3, <1>4, <1>5, <1>6, <1>7

\* Operators and the end of the text.
LEMMA TerminalRound ==
    RoundInv /\ (Dash \/ Dots \/ StartFraction \/ Terminal \/ End \/ Unknown) => RoundInv'
<1> SUFFICES ASSUME RoundInv, Dash \/ Dots \/ StartFraction \/ Terminal \/ End \/ Unknown PROVE RoundInv'
  OBVIOUS
<1>1. WorkOK(w) /\ mode # "done"
  BY DEF RoundInv, Dash, Dots, StartFraction, Terminal, End, Unknown
<1>2. "symbol" \in Kinds /\ "symbol" # "eos" /\ "eos" \in Kinds /\ FALSE \in BOOLEAN
  BY DEF Kinds
<1>3. ASSUME NEW val \in Seq(Chars), NEW i, Place(i), Token("symbol", val, i) PROVE RoundInv'
  BY <1>1, <1>2, <1>3, Counts DEF Token
<1>4. "-" \in Chars /\ "." \in Chars
  BY DEF Chars, Simple, Complex
<1>5. /\ Place(in) /\ Place(Second) /\ Place(Filled(Second)) /\ Place(Third) /\ Place(Filled(Third))
      /\ Place(Advanced(Third)) /\ Place(Filled(in))
      /\ Peek(in) \in Chars /\ Peek(Second) \in Chars /\ Peek(Filled(in)) = Peek(in)
  BY Ahead DEF Chars
<1>6. CASE Dash
  <2>1. <<"-">> \in Seq(Chars)
    BY <1>4
  <2>2. CASE Peek(Second) = "-"
    BY <1>1, <1>5, <1>6, <2>2, GoesOn DEF Dash, Modes
  <2>3. CASE Peek(Second) # "-"
    BY <1>3, <1>5, <1>6, <2>1, <2>3 DEF Dash
  <2> QED
    BY <2>2, <2>3
<1>7. CASE Dots
  <2>1. <<".", ".">> \in Seq(Chars) /\ <<".", ".", ".">> \in Seq(Chars)
    BY <1>4
  <2> QED
    BY <1>3, <1>5, <1>7, <2>1 DEF Dots
<1>8. CASE StartFraction
  <2> DEFINE b == <<".">>
  <2>1. b \in Seq(Chars) /\ Len(b) = 1
    BY <1>4
  <2>2. GoOn("fraction", Filled(Second)) /\ w' = [w EXCEPT !.bfr = b]
    BY <1>8 DEF StartFraction
  <2> HIDE DEF b
  <2>9. Len(b) < IdLen
    BY <2>1, LexAssumption
  <2>3. WorkOK(w')
    BY <1>1, <2>9, <2>1, <2>2, WorkFields
  <2> QED
    BY <1>1, <1>5, <2>2, <2>3, GoesOn DEF Modes
<1>9. CASE Terminal
  <2> DEFINE c == Peek(in)
             d == Peek(Second)
  <2>1. \/ Token("symbol", <<c>>, Second)
        \/ Token("symbol", <<c, d>>, Third)
        \/ Token("symbol", <<c>>, Filled(Second))
    BY <1>9 DEF Terminal
  <2>2. c \in Chars /\ d \in Chars
    BY <1>5
  <2> HIDE DEF c, d
  <2>3. <<c>> \in Seq(Chars) /\ <<c, d>> \in Seq(Chars)
    BY <2>2
  <2> QED
    BY <1>3, <1>5, <2>1, <2>3
<1>10. CASE End
  <2>1. <<>> \in Seq(Chars)
    OBVIOUS
  <2>2. Read("eos", Filled(in), FALSE) /\ Counted("eos", <<>>) /\ Peek(Filled(in)) = Nul
    BY <1>5, <1>10 DEF End, Token
  <2> QED
    BY <1>1, <1>2, <1>5, <2>1, <2>2, Counts
<1>11. CASE Unknown
  BY <1>5, <1>11, Fails DEF Unknown
<1> QED
  BY <1>6, <1>7, <1>8, <1>9, <1>10, <1>11

\* Every round of every loop.
LEMMA NextRound == RoundInv /\ LexNext => RoundInv'
BY HashRound, WordRound, StringRound, BracketRound, CommentRound, TerminalRound DEF LexNext

\* At first.
LEMMA InitRound == LexInit /\ LexInv => RoundInv
<1> SUFFICES ASSUME LexInv, NEW s \in Scripts, LexBegins(s) PROVE RoundInv
  BY DEF LexInit
<1>1. s.chunk \in Nat \ {1} /\ s.call \in {"file", "start"} /\ in = Opened(s.chunk)
  BY LexAssumption DEF LexBegins
<1>2. Small(in)
  <2>1. CASE s.chunk = 0
    BY <1>1, <2>1 DEF Opened, InMemory, Small
  <2>2. CASE s.chunk # 0
    <3>1. in.chunk = s.chunk /\ in.buf = <<>>
      BY <1>1, <2>2 DEF Opened
    <3>2. Len(in.buf) = 0
      BY <3>1
    <3> QED
      BY <1>1, <3>1, <3>2 DEF Small
  <2> QED
    BY <2>1, <2>2
<1>3. mode \in Modes /\ mode \notin {"done", "closing"}
  BY <1>1 DEF LexBegins, Modes
<1>4. WorkOK(w)
  BY NoWorkOK DEF LexBegins
<1>5. Chain
  <2>1. pieces = <<>> /\ from = 0
    BY DEF LexBegins
  <2>2. pieces \in Seq(Pieces) /\ Len(pieces) = 0
    BY <2>1
  <2> QED
    BY <2>1, <2>2 DEF Chain
<1>6. Room /\ Ended
  <2>1. tokens = <<>>
    BY DEF LexBegins
  <2>2. tokens \in Seq(Tokens) /\ Len(tokens) = 0
    BY <2>1
  <2> QED
    BY <1>3, <2>2, LexAssumption DEF Room, Ended
<1> QED
  BY <1>2, <1>3, <1>4, <1>5, <1>6 DEF RoundInv

\* Pieces are a chain, buffers and arrays hold what they can, and code 0 comes at the
\* end only, round after round (mclex.c:604-625).
THEOREM RoundsCorrect == LexSpec => []RoundInv
<1>1. RoundInv /\ [LexNext]_lexvars => RoundInv'
  <2>1. RoundInv /\ UNCHANGED lexvars => RoundInv'
    BY DEF RoundInv, LexInv, Sound, lexvars, Small, WorkOK, Chain, Ended, Room, Consumed
  <2> QED
    BY <2>1, NextRound
<1> QED
  BY <1>1, InitRound, InputSound, PTL DEF LexSpec

\* Code 0 is for a text that has been read to its end, or to a zero byte, and no
\* character was left out between two pieces (mclex.c:604-625).
THEOREM ZeroIsAll == LexSpec => []ZeroMeansAll
<1>1. RoundInv => ZeroMeansAll
  BY DEF RoundInv, Chain, Ended, ZeroMeansAll, Last
<1> QED
  BY <1>1, RoundsCorrect, PTL

\* The scratch buffer has a place left at the start of each round, literals
\* outgrow their limit by less than a scratch buffer, and the token array and the
\* input buffer hold what they can, for every text and every size (mclex.c:362-472, 604-625).
THEOREM LexTypeCorrect == LexSpec => []LexTypeOK
<1>1. RoundInv => LexTypeOK
  BY DEF RoundInv, LexInv, Sound, Small, WorkOK, Room, LexTypeOK, Modes
<1> QED
  BY <1>1, RoundsCorrect, PTL
=============================================================================
