------------------------------- MODULE MCLuac -------------------------------
(***************************************************************************)
(* The driver, main and luac_compile_file of compile/mcluac.c: load the    *)
(* plug-ins, lex, let the token visitors run, parse, let the AST visitors  *)
(* run, compile, write the chunk, and clean up whatever happened.  Lexing, *)
(* parsing and compiling succeed or fail here; MCComp models the last.     *)
(***************************************************************************)
EXTENDS MCXt, LuacBfr

CONSTANTS
    Plugins,    \* the lists -xt or -xa may give
    PutSizes,   \* how many bytes the dump puts at a time
    MaxSent     \* bound: the length of the dump, but for its last piece

ASSUME LuacAssumption == PutSizes \subseteq Nat /\ MaxSent \in Nat

VARIABLES
    stage,      \* what main does next
    tkv_paths,  \* the plug-ins still to load
    astv_paths,
    code        \* what main will return

luacvars == <<stage, tkv_paths, astv_paths, code>>
vars == <<xtvars, bfrvars, luacvars>>
pathvars == <<tkv_paths, astv_paths>>

Init ==
    /\ XtInit /\ BfrInit
    /\ stage = "init"
    /\ tkv_paths \in Plugins
    /\ astv_paths \in Plugins
    /\ code = 0

GoOn(s) == stage' = s /\ UNCHANGED <<code, pathvars>>
Fail(c) == stage' = "free" /\ code' = c /\ UNCHANGED pathvars

\* luac_init; when it fails nothing is loaded and the heap is freed there.
LuacInit ==
    /\ stage = "init"
    /\ \/ GoOn("load")
       \/ stage' = "exit" /\ code' = 1 /\ UNCHANGED pathvars
    /\ UNCHANGED <<xtvars, bfrvars>>

LoadNextTkv ==
    /\ stage = "load" /\ tkv_paths # <<>>
    /\ \/ /\ LoadTkv(Head(tkv_paths))
          /\ tkv_paths' = Tail(tkv_paths)
          /\ UNCHANGED <<stage, code, astv_paths>>
       \/ LoadFails(tkv_count, Head(tkv_paths)) /\ Fail(1)
    /\ UNCHANGED bfrvars

LoadNextAstv ==
    /\ stage = "load" /\ tkv_paths = <<>> /\ astv_paths # <<>>
    /\ \/ /\ LoadAstv(Head(astv_paths))
          /\ astv_paths' = Tail(astv_paths)
          /\ UNCHANGED <<stage, code, tkv_paths>>
       \/ LoadFails(AstSlot, Head(astv_paths)) /\ Fail(1)
    /\ UNCHANGED bfrvars

AllLoaded ==
    /\ stage = "load" /\ tkv_paths = <<>> /\ astv_paths = <<>>
    /\ GoOn("lex")
    /\ UNCHANGED <<xtvars, bfrvars>>

NextStage == [lex |-> "tkv", tkv |-> "parse", parse |-> "astv", astv |-> "compile", compile |-> "open"]

\* mclex_lexscript_file, mcparse_run, mccomp_run
Pass ==
    /\ stage \in {"lex", "parse", "compile"}
    /\ GoOn(NextStage[stage]) \/ Fail(-1)
    /\ UNCHANGED <<xtvars, bfrvars>>

AstCountAlone == astv_count   \* mutant: the AST visitors end where they are counted from 0

AstEnd == tkv_count + astv_count

FirstSlot == IF stage = "tkv" THEN 0 ELSE tkv_count
EndSlot  == IF stage = "tkv" THEN tkv_count ELSE AstEnd

\* mcxt_run_tkv and mcxt_run_astv
Visit ==
    /\ stage \in {"tkv", "astv"}
    /\ Begin(FirstSlot) \/ RunStep(EndSlot)
    /\ UNCHANGED <<bfrvars, luacvars>>

Visited ==
    /\ stage \in {"tkv", "astv"} /\ at = "done"
    /\ at' = "idle"
    /\ IF rcode # 0 THEN Fail(rcode) ELSE GoOn(NextStage[stage])
    /\ UNCHANGED <<slot, rcode, visits, live, ran, tblvars, bfrvars>>

\* luac_tofile
OpenOut ==
    /\ stage = "open"
    /\ GoOn("dump") \/ Fail(-1)
    /\ UNCHANGED <<xtvars, bfrvars>>

Dump ==
    /\ stage = "dump" /\ sent < MaxSent
    /\ \E n \in PutSizes : Put(n)
    /\ IF broken' THEN Fail(-1) ELSE UNCHANGED luacvars
    /\ UNCHANGED xtvars

DumpUnflushed == UNCHANGED bfrvars   \* mutant: forgets the last flush

LastFlush == Flush

DumpEnd ==
    /\ stage = "dump"
    /\ LastFlush
    /\ IF broken' THEN Fail(-1) ELSE GoOn("free")
    /\ UNCHANGED xtvars

\* luac_free
Exit ==
    /\ stage = "free"
    /\ Free
    /\ GoOn("exit")
    /\ UNCHANGED bfrvars

Next ==
    \/ LuacInit \/ LoadNextTkv \/ LoadNextAstv \/ AllLoaded
    \/ Pass \/ Visit \/ Visited
    \/ OpenOut \/ Dump \/ DumpEnd
    \/ Exit

Spec == Init /\ [][Next]_vars

-----------------------------------------------------------------------------
(* Properties *)

\* When main returns, every library that was opened is closed again, and as often
\* as it was opened, whichever load or stage failed (mcluac.c:496-515).
HandlesClosed == stage = "exit" => \A l \in Libs : opened[l] = 0

\* Output is produced only after every visitor that was loaded has run and none
\* of them refused, the AST visitors from the slots behind the token visitors.
AllVisited ==
    stage \in {"compile", "open", "dump"} => ran = 0 .. tkv_count + astv_count - 1

\* "wrote" is reported only when the file holds the whole dump, in order: each
\* byte that was put has reached it (mcluac.c:310-320, 509-512).  The file's own
\* buffering, and a failure of fclose, are not in the model.
ZeroMeansWhole ==
    stage = "exit" /\ code = 0 => file = [i \in 1..sent |-> i] /\ ~ broken
=============================================================================
