-------------------------------- MODULE MCXt --------------------------------
(***************************************************************************)
(* Plug-ins, visitors/mcxt.c: shared libraries whose visitors look at the  *)
(* tokens and at the syntax tree.  The libraries and the three hooks of a  *)
(* visitor are external and may fail at any call.  A hook that is NULL     *)
(* acts as one that returns 0.                                             *)
(***************************************************************************)
EXTENDS Integers, FiniteSets

CONSTANTS
    Libs,       \* the shared libraries
    Max,        \* MAX_EXT_VISITORS
    MaxVisits   \* bound: calls of visit in one run of a visitor

ASSUME XtAssumption == Max \in Nat /\ MaxVisits \in Nat

VARIABLES
    handles,    \* slot -> library, for the slots that were filled
    tkv_count,
    astv_count,
    opened,     \* library -> how often it is open (the loader's count)
    at,         \* the hook that is next: "idle", "init", "visit", "deinit", "done"
    slot,       \* the slot of the visitor that runs
    rcode,      \* its rcode
    visits,     \* how many nodes or tokens it has seen
    live,       \* history: slots whose visitor is set up and not yet torn down
    ran         \* history: the slots run so far, in order of their runs

xtvars == <<handles, tkv_count, astv_count, opened, at, slot, rcode, visits, live, ran>>
tblvars == <<handles, tkv_count, astv_count, opened>>
runvars == <<at, slot, rcode, visits, live, ran>>

Codes == {-1, 0, 1}

XtInit ==
    /\ handles = <<>>
    /\ tkv_count = 0 /\ astv_count = 0
    /\ opened = [l \in Libs |-> 0]
    /\ at = "idle" /\ slot = 0 /\ rcode = 0 /\ visits = 0
    /\ live = {} /\ ran = {}

-----------------------------------------------------------------------------
(* mcxt_load_tkv and mcxt_load_astv *)

AstSlot == tkv_count + astv_count

LoadedInto(s, lib) ==
    [t \in DOMAIN handles \cup {s} |-> IF t = s THEN lib ELSE handles[t]]

Load(s, lib) ==
    /\ s < Max
    /\ handles' = LoadedInto(s, lib)
    /\ opened' = [opened EXCEPT ![lib] = @ + 1]

LoadTkv(lib) ==
    /\ Load(tkv_count, lib)
    /\ tkv_count' = tkv_count + 1
    /\ UNCHANGED <<astv_count, runvars>>

LoadAstv(lib) ==
    /\ Load(AstSlot, lib)
    /\ astv_count' = astv_count + 1
    /\ UNCHANGED <<tkv_count, runvars>>

\* The library does not open (LIBOPEN leaves NULL in its slot), or has no such
\* symbol and is closed at once; or there is no slot.
LoadFails(s, lib) ==
    /\ handles' = IF s < Max THEN LoadedInto(s, lib) ELSE handles
    /\ UNCHANGED <<tkv_count, astv_count, opened, runvars>>

\* mcxt_free closes what is counted.
TokensOnly == {s \in DOMAIN handles : s < tkv_count}   \* mutant: the AST visitors stay open

Counted == {s \in DOMAIN handles : s < tkv_count + astv_count}

Free ==
    /\ opened' = [l \in Libs |-> opened[l] - Cardinality({s \in Counted : handles[s] = l})]
    /\ UNCHANGED <<handles, tkv_count, astv_count, runvars>>

-----------------------------------------------------------------------------
(* tkv_run and astv_run, hook by hook, for the slots from first to last - 1 *)

Begin(first) ==
    /\ at = "idle"
    /\ at' = "init" /\ slot' = first
    /\ UNCHANGED <<rcode, visits, live, ran, tblvars>>

\* The visitor in slot is done with code r: a negative one ends the stage.
After(r, last) ==
    /\ rcode' = IF r < 0 THEN r ELSE 0
    /\ visits' = 0
    /\ ran' = ran \cup {slot}
    /\ IF r < 0 \/ slot + 1 >= last
         THEN at' = "done" /\ UNCHANGED slot
         ELSE at' = "init" /\ slot' = slot + 1

HookInit(last) ==
    /\ at = "init" /\ slot < last
    /\ \E r \in Codes :
          IF r # 0 THEN After(r, last) /\ UNCHANGED live
          ELSE /\ live' = live \cup {slot}
               /\ at' = "visit"
               /\ UNCHANGED <<slot, rcode, visits, ran>>
    /\ UNCHANGED tblvars

LeaveAtOnce(r) == IF r # 0 THEN "done" ELSE "visit"   \* mutant: no CLEANUP

\* A visit that does not return 0 goes to CLEANUP.
AfterVisit(r) == IF r # 0 THEN "deinit" ELSE "visit"

HookVisit ==
    /\ at = "visit" /\ visits < MaxVisits
    /\ \E r \in Codes : rcode' = r /\ at' = AfterVisit(r)
    /\ visits' = visits + 1
    /\ UNCHANGED <<slot, live, ran, tblvars>>

\* The last token or node has been seen.
VisitsEnd ==
    /\ at = "visit"
    /\ at' = "deinit"
    /\ UNCHANGED <<slot, rcode, visits, live, ran, tblvars>>

HookDeinit(last) ==
    /\ at = "deinit"
    /\ \E d \in Codes : After(IF rcode = 0 THEN d ELSE rcode, last)
    /\ live' = live \ {slot}
    /\ UNCHANGED tblvars

\* No visitor of this kind is loaded.
NoVisitors(last) ==
    /\ at = "init" /\ slot >= last
    /\ at' = "done" /\ rcode' = 0
    /\ UNCHANGED <<slot, visits, live, ran, tblvars>>

RunStep(last) ==
    HookInit(last) \/ HookVisit \/ VisitsEnd \/ HookDeinit(last) \/ NoVisitors(last)

-----------------------------------------------------------------------------
(* Properties *)

\* A visitor whose init succeeded is torn down before anything else runs: at
\* most the running one is set up (mcxt.c:9-37, 57-79).
VisitorsTornDown == live \subseteq (IF at \in {"visit", "deinit"} THEN {slot} ELSE {})
=============================================================================
