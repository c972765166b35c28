------------------------------ MODULE LuacBfr ------------------------------
(***************************************************************************)
(* The output buffer of compile/mcluac.c.  Bytes are numbered in the order *)
(* the dump produces them, so contents show what got lost or out of order. *)
(* A call of mcfs_writebytes that fails may have written a part.           *)
(***************************************************************************)
EXTENDS Naturals, Sequences

CONSTANT Cap    \* cap, the size of the scratch buffer

ASSUME BfrAssumption == Cap \in Nat

VARIABLES
    bfr,    \* the bytes waiting, bfr[0 .. len - 1]
    file,   \* the bytes written to the file
    sent,   \* history: how many bytes the dump has produced
    broken  \* a write has failed

bfrvars == <<bfr, file, sent, broken>>

BfrInit == bfr = <<>> /\ file = <<>> /\ sent = 0 /\ broken = FALSE

Piece(n) == [i \in 1..n |-> sent + i]

\* mcfs_writebytes of data: all of it, or a part and a failure.
WriteBytes(data) ==
    \/ file' = file \o data /\ UNCHANGED broken
    \/ /\ data # <<>>
       /\ \E k \in 0 .. Len(data) - 1 : file' = file \o SubSeq(data, 1, k)
       /\ broken' = TRUE

\* luac_put of n bytes.  Its two writes of the oversized case are one call of
\* WriteBytes here: the second happens only if the first did not fail.
PutLarge(n) ==
    /\ n > Cap
    /\ WriteBytes(bfr \o Piece(n))
    /\ bfr' = <<>>

Overwrite(n) == bfr' = Piece(n)   \* mutant: the buffer starts again unflushed

KeepWaiting(n) == bfr' = bfr \o Piece(n)

PutFits(n) ==
    /\ n <= Cap
    /\ Len(bfr) + n <= Cap
    /\ KeepWaiting(n)
    /\ UNCHANGED <<file, broken>>

PutFlushes(n) ==
    /\ n <= Cap
    /\ Len(bfr) + n > Cap
    /\ WriteBytes(bfr)
    /\ bfr' = IF broken' THEN <<>> ELSE Piece(n)

Put(n) ==
    /\ PutLarge(n) \/ PutFits(n) \/ PutFlushes(n)
    /\ sent' = sent + n

\* luac_flush
Flush ==
    /\ WriteBytes(bfr)
    /\ bfr' = <<>>
    /\ UNCHANGED sent

-----------------------------------------------------------------------------
(* Properties *)

\* Until a write fails, the file and the buffer together are the dump so far, in
\* order and without a gap, and the buffer holds at most Cap bytes.
DumpInOrder ==
    /\ ~ broken => file \o bfr = [i \in 1..sent |-> i]
    /\ Len(bfr) <= Cap
=============================================================================
