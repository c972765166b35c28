------------------------------ MODULE MCStrTbl ------------------------------
(***************************************************************************)
(* The string table of strtbl/mcstrtbl.c: open addressing over entry_cap   *)
(* slots, the characters in a pool.  The rest of the program compares      *)
(* names by the pointers it hands out.  A pointer is the offset of the     *)
(* name in the pool, and each round of a probing loop is a step.           *)
(***************************************************************************)
EXTENDS Naturals, FiniteSets

CONSTANTS
    Words,      \* what callers intern
    Hash,       \* mcstrtbl_hash of each
    Size,       \* len + 1 of each
    EntryCap,   \* entry_cap
    BfrCap      \* bfrcap, the size of the pool

ASSUME StrTblAssumption ==
    /\ EntryCap \in Nat \ {0}
    /\ BfrCap \in Nat
    /\ Hash \in [Words -> Nat]
    /\ Size \in [Words -> Nat \ {0, 1}]

VARIABLES
    entries,    \* the slots whose str is not NULL, with what they hold
    entry_cnt,
    bfr_used,
    call,       \* the call of mcstrtbl_intern that is running
    names       \* history: the names handed out, with their pointers

strvars == <<entries, entry_cnt, bfr_used, call, names>>

Slots == 0 .. EntryCap - 1
Occupied(slot) == slot \in DOMAIN entries
Home(word) == Hash[word] % EntryCap
NextSlot(slot) == (slot + 1) % EntryCap

NoCall == [at |-> "idle"]
Lookup(word, slot) == [at |-> "lookup", word |-> word, idx |-> slot]
Insert(word, slot, str) == [at |-> "insert", word |-> word, idx |-> slot, str |-> str]

StrInit ==
    /\ entries = <<>>
    /\ entry_cnt = 0
    /\ bfr_used = 0
    /\ call = NoCall
    /\ names = {}

Intern(word) ==
    /\ call.at = "idle"
    /\ call' = Lookup(word, Home(word))
    /\ UNCHANGED <<entries, entry_cnt, bfr_used, names>>

SameHash(entry, word) == Hash[entry.word] = Hash[word]   \* mutant: trusts the hash

\* Equal hashes, lengths and characters.
Matches(entry, word) == entry.word = word

Found ==
    /\ call.at = "lookup"
    /\ Occupied(call.idx)
    /\ Matches(entries[call.idx], call.word)
    /\ names' = names \cup {[word |-> call.word, str |-> entries[call.idx].str]}
    /\ call' = NoCall
    /\ UNCHANGED <<entries, entry_cnt, bfr_used>>

ProbeOn ==
    /\ call.at # "idle"
    /\ Occupied(call.idx)
    /\ call.at = "lookup" => ~ Matches(entries[call.idx], call.word)
    /\ call' = [call EXCEPT !.idx = NextSlot(@)]
    /\ UNCHANGED <<entries, entry_cnt, bfr_used, names>>

TableFull == entry_cnt >= EntryCap

AnyFits(word) == TRUE   \* mutant: no look at the pool

PoolFits(word) == bfr_used + Size[word] <= BfrCap

FromZero(word) == 0   \* mutant: inserts from the first slot on

InsertAt(word) == Home(word)

\* The lookup came to an empty slot: NULL to the caller, or the word is copied
\* and its slot looked for from the start again.
Refuse ==
    /\ call.at = "lookup"
    /\ ~ Occupied(call.idx)
    /\ TableFull \/ ~ PoolFits(call.word)
    /\ call' = NoCall
    /\ UNCHANGED <<entries, entry_cnt, bfr_used, names>>

Copy ==
    /\ call.at = "lookup"
    /\ ~ Occupied(call.idx)
    /\ ~ TableFull
    /\ PoolFits(call.word)
    /\ bfr_used' = bfr_used + Size[call.word]
    /\ call' = Insert(call.word, InsertAt(call.word), bfr_used)
    /\ UNCHANGED <<entries, entry_cnt, names>>

Place ==
    /\ call.at = "insert"
    /\ ~ Occupied(call.idx)
    /\ entries' = [s \in DOMAIN entries \cup {call.idx} |->
                      IF s = call.idx THEN [word |-> call.word, str |-> call.str] ELSE entries[s]]
    /\ entry_cnt' = entry_cnt + 1
    /\ names' = names \cup {[word |-> call.word, str |-> call.str]}
    /\ call' = NoCall
    /\ UNCHANGED bfr_used

\* What the running call does next.
StrStep == Found \/ ProbeOn \/ Refuse \/ Copy \/ Place

StrNext == (\E word \in Words : Intern(word)) \/ StrStep

-----------------------------------------------------------------------------
(* Properties *)

\* Counters and slots keep their types, and the two counters count the entries.
StrTypeOK ==
    /\ DOMAIN entries \subseteq Slots
    /\ entry_cnt = Cardinality(DOMAIN entries)
    /\ bfr_used \in 0 .. BfrCap
    /\ call.at \in {"idle", "lookup", "insert"}
    /\ call.at # "idle" => call.word \in Words /\ call.idx \in Slots

\* Equal names have equal pointers and different names different ones, over all
\* calls: the compiler compares names with == (mcstrtbl.c:44-47, 77-92).
NamesAreOne == \A a, b \in names : a.word = b.word <=> a.str = b.str

\* The slots from a word's home to the slot it is in are all occupied, so a
\* lookup finds it whatever was interned since (mcstrtbl.c:63-67).
Dist(from, to) == (to + EntryCap - from) % EntryCap
Between(from, to) == {s \in Slots : Dist(from, s) < Dist(from, to)}

WordsFound == \A s \in DOMAIN entries : \A t \in Between(Home(entries[s].word), s) : Occupied(t)

\* Every call returns.
Answered == call.at # "idle" ~> call.at = "idle"
=============================================================================
