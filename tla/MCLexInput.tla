----------------------------- MODULE MCLexInput -----------------------------
(***************************************************************************)
(* The input of the lexer: mclex_peek, mclex_advance and the buffer that   *)
(* mclex_update_file_input fills with one chunk of the file after the      *)
(* other.  A script in memory is a buffer that is full from the start and  *)
(* never filled again (chunk = 0: there is no file).                       *)
(***************************************************************************)
EXTENDS Integers, Sequences

CONSTANTS
    Char,       \* the characters of scripts
    Nul         \* '\0': the end, or a zero byte in the text

ASSUME NulAssumption == Nul \in Char

VARIABLES
    text,       \* the script
    in          \* [chunk, fpos, buf, idx]: MAX_FILE_CHUNK_SIZE, the place in
                \* the file, input[0 .. input_len), curr_char_idx

InMemory(i) == [chunk |-> 0, fpos |-> Len(text), buf |-> text, idx |-> i]

Opened(chunk) ==
    IF chunk = 0 THEN InMemory(0) ELSE [chunk |-> chunk, fpos |-> 0, buf |-> <<>>, idx |-> 0]

\* mcfs_readchunk keeps a place of the buffer for a final zero.
ChunkEnd(i) == IF i.fpos + i.chunk - 1 > Len(text) THEN Len(text) ELSE i.fpos + i.chunk - 1

Update(i) ==
    [chunk |-> i.chunk, fpos |-> ChunkEnd(i), buf |-> SubSeq(text, i.fpos + 1, ChunkEnd(i)), idx |-> 0]

\* Mutant: the buffer counts as used up with its last character unread.
FilledEarly(i) == IF i.idx + 1 < Len(i.buf) \/ i.chunk = 0 THEN i ELSE Update(i)

\* A used up buffer is filled before a character is looked at.
Filled(i) == IF i.idx < Len(i.buf) \/ i.chunk = 0 THEN i ELSE Update(i)

Peek(i) ==
    LET f == Filled(i) IN IF f.idx < Len(f.buf) THEN f.buf[f.idx + 1] ELSE Nul

Advanced(i) ==
    LET f == Filled(i) IN IF f.idx < Len(f.buf) THEN [f EXCEPT !.idx = @ + 1] ELSE f

\* How much of the script has been read.
Consumed(i) == i.fpos - Len(i.buf) + i.idx
=============================================================================
