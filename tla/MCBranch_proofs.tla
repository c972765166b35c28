-------------------------- MODULE MCBranch_proofs --------------------------
(***************************************************************************)
(* Where branches lead.  A jump waits to be patched on behalf of exactly   *)
(* one thing: the condition of an open handler, a clause that has ended, a *)
(* break or a goto.  So nothing patches a jump that has landed.            *)
(***************************************************************************)
EXTENDS MCComp_proofs

\* Every break in a loop becomes a jump of that loop: no numeric for, which opens
\* no window for breaks, and no more breaks than the list can hold.
NoDrops == "fornum" \notin Kinds /\ MaxStats <= MaxBreaks

\* What can wait for a jump: the condition of frame n, one of the clauses of frame n,
\* the n-th break, the n-th goto.
Tags == {"cond", "ends", "break", "goto"} \X Nat

\* There is a jump at pc, and the place it leads to.
JmpAt(c, pc) == pc \in Nat /\ pc + 1 \in DOMAIN c.code /\ c.code[pc + 1].op = "JMP"
Goes(c, pc) == Target(pc, c.code[pc + 1])

\* A goto that still waits, and one that is where it should be.
Pend(c, j) == \E i \in DOMAIN c.gotos : c.gotos[i].pc = j.pc /\ c.gotos[i].name = j.name
Reaches(c, j) == FirstLabel(c, j.name) # 0 /\ Goes(c, j.pc) = c.labels[FirstLabel(c, j.name)].pc

\* The jump at pc has been patched for good.
HasLanded(c, pc) ==
    \/ \E j \in c.jumps : j.pc = pc /\ ~ Pend(c, j)
    \/ NoDrops /\ \E x \in c.lands : x.pc = pc

\* O says what waits for which jump: no jump is waited for twice.
Apart(c, O) ==
    /\ \A t \in Tags, pc \in Nat : <<t, pc>> \in O => JmpAt(c, pc) /\ ~ HasLanded(c, pc)
    /\ \A t, u \in Tags, pc \in Nat : <<t, pc>> \in O /\ <<u, pc>> \in O => t = u

\* Every goto waits or has reached its label; nothing waits for a label that is there.
GotosSound(c) ==
    /\ \A j \in c.jumps : JmpAt(c, j.pc) /\ (Pend(c, j) \/ Reaches(c, j))
    /\ \A i \in DOMAIN c.gotos : c.gotos[i].name # Done => FirstLabel(c, c.gotos[i].name) = 0
    /\ \A i \in DOMAIN c.labels : c.labels[i].pc \in 0 .. Len(c.code)

\* Every branch that has been patched for good leads where it was meant to.
LandsSound(c) ==
    NoDrops => \A x \in c.lands : JmpAt(c, x.pc) /\ Goes(c, x.pc) = x.at

\* No jump leaves the code, or the place after it.
InBounds(c) == \A i \in DOMAIN c.code : c.code[i].op = "JMP" => c.code[i].a + i \in 0 .. Len(c.code)

\* A function whose branches are in order, O waiting for some of them.
Traced(c, O) == CompOK(c) /\ Apart(c, O) /\ GotosSound(c) /\ LandsSound(c) /\ InBounds(c)

\* Code has been added, with jumps that stay inside.
Longer(c, d) ==
    /\ CompOK(d)
    /\ d.labels = c.labels /\ d.gotos = c.gotos /\ d.lands = c.lands /\ d.jumps = c.jumps
    /\ Len(c.code) <= Len(d.code)
    /\ \A i \in DOMAIN c.code : d.code[i] = c.code[i]
    /\ \A i \in DOMAIN d.code : i > Len(c.code) /\ d.code[i].op = "JMP" =>
          d.code[i].a + i \in 0 .. Len(d.code)

\* The code of a function.
LEMMA CodeIs ==
    ASSUME NEW c, CompOK(c)
    PROVE  /\ c.code \in Seq(Instrs) /\ Len(c.code) \in Nat /\ DOMAIN c.code = 1 .. Len(c.code)
           /\ FuncLen(c) = Len(c.code)
           /\ c.labels \in Seq(Label) /\ c.gotos \in Seq(Label) /\ c.breaks \in Seq(Int)
           /\ \A j \in c.jumps : j.pc \in Int /\ j.name \in Labels
           /\ \A x \in c.lands : x.pc \in Int /\ x.at \in Int
           /\ \A o \in c.owed : o.pc \in Int /\ o.loop \in Int
           /\ c.in_loop \in Int
BY DEF CompOK, Comp, FuncLen

\* The first label of a name is found in the list of labels.
LEMMA FirstSame ==
    ASSUME NEW c, NEW d, d.labels = c.labels, NEW name
    PROVE  FirstLabel(d, name) = FirstLabel(c, name)
BY DEF FirstLabel

\* What waits, what has landed and what it means stays with the lists.
LEMMA SameLists ==
    ASSUME NEW c, NEW d, d.gotos = c.gotos, d.lands = c.lands, d.jumps = c.jumps
    PROVE  /\ \A j : Pend(d, j) <=> Pend(c, j)
           /\ \A pc : HasLanded(d, pc) <=> HasLanded(c, pc)
BY DEF Pend, HasLanded

\* Adding code moves no jump.
LEMMA LongerTraced ==
    ASSUME NEW c, NEW O, Traced(c, O), NEW d, Longer(c, d)
    PROVE  Traced(d, O)
<1>1. /\ Len(c.code) \in Nat /\ DOMAIN c.code = 1 .. Len(c.code) /\ c.code \in Seq(Instrs)
      /\ Len(d.code) \in Nat /\ DOMAIN d.code = 1 .. Len(d.code) /\ CompOK(d)
  BY CodeIs DEF Traced, Longer
<1>2. ASSUME NEW pc, JmpAt(c, pc) PROVE JmpAt(d, pc) /\ Goes(d, pc) = Goes(c, pc)
  BY <1>1, <1>2 DEF JmpAt, Goes, Longer
<1>3. /\ \A j : Pend(d, j) <=> Pend(c, j)
      /\ \A pc : HasLanded(d, pc) <=> HasLanded(c, pc)
  BY SameLists DEF Longer
<1>4. \A name : FirstLabel(d, name) = FirstLabel(c, name)
  BY FirstSame DEF Longer
<1>5. Apart(d, O)
  BY <1>2, <1>3 DEF Traced, Apart
<1>6. GotosSound(d)
  <2>1. \A j \in c.jumps : Reaches(c, j) /\ JmpAt(c, j.pc) => Reaches(d, j)
    BY <1>2, <1>4 DEF Reaches, Longer
  <2>2. \A i \in DOMAIN d.labels : d.labels[i].pc \in 0 .. Len(d.code)
    BY <1>1 DEF Traced, GotosSound, Longer
  <2>3. d.jumps = c.jumps /\ d.gotos = c.gotos
    BY DEF Longer
  <2> QED
    BY <1>2, <1>3, <1>4, <2>1, <2>2, <2>3 DEF Traced, GotosSound
<1>7. LandsSound(d)
  BY <1>2 DEF Traced, LandsSound, Longer
<1>8. InBounds(d)
  <2> SUFFICES ASSUME NEW i \in DOMAIN d.code, d.code[i].op = "JMP"
               PROVE  d.code[i].a + i \in 0 .. Len(d.code)
    BY DEF InBounds
  <2>1. CASE i \in DOMAIN c.code
    <3>1. d.code[i] = c.code[i] /\ Len(c.code) <= Len(d.code)
      BY <2>1 DEF Longer
    <3>2. c.code[i].a + i \in 0 .. Len(c.code)
      BY <2>1, <3>1 DEF Traced, InBounds
    <3> QED
      BY <1>1, <3>1, <3>2
  <2>2. CASE i > Len(c.code)
    BY <2>2 DEF Longer
  <2> QED
    BY <1>1, <2>1, <2>2
<1> QED
  BY <1>1, <1>5, <1>6, <1>7, <1>8 DEF Traced

\* Less may be waited for.
LEMMA FewerTraced ==
    ASSUME NEW c, NEW O, Traced(c, O), NEW P,
           \A t \in Tags, pc \in Nat : <<t, pc>> \in P => <<t, pc>> \in O
    PROVE  Traced(c, P)
BY DEF Traced, Apart

\* A jump that has just been emitted is waited for by nobody.
LEMMA ClaimTraced ==
    ASSUME NEW c, NEW O, Traced(c, O), NEW d, Longer(c, d), NEW pc \in Nat, NEW t \in Tags,
           JmpAt(d, pc), pc >= Len(c.code),
           NEW P, \A u \in Tags, p \in Nat : <<u, p>> \in P => <<u, p>> \in O \/ (u = t /\ p = pc)
    PROVE  Traced(d, P)
<1>1. Traced(d, O)
  BY LongerTraced
<1>2. /\ Len(c.code) \in Nat /\ DOMAIN c.code = 1 .. Len(c.code)
  BY CodeIs DEF Traced
<1>3. ~ JmpAt(c, pc)
  BY <1>2 DEF JmpAt
<1>4. \A u \in Tags : <<u, pc>> \notin O
  BY <1>3 DEF Traced, Apart
<1>5. ~ HasLanded(d, pc)
  <2>1. ~ HasLanded(c, pc)
    <3>1. \A x \in c.lands : x.pc # pc \/ ~ NoDrops
      BY <1>3 DEF Traced, LandsSound
    <3>2. \A j \in c.jumps : j.pc # pc
      BY <1>3 DEF Traced, GotosSound
    <3> QED
      BY <3>1, <3>2 DEF HasLanded
  <2> QED
    BY <2>1, SameLists DEF Longer
<1>6. Apart(d, P)
  <2>1. \A u \in Tags, p \in Nat : <<u, p>> \in P => JmpAt(d, p) /\ ~ HasLanded(d, p)
    BY <1>1, <1>5 DEF Traced, Apart
  <2>2. \A u, v \in Tags, p \in Nat : <<u, p>> \in P /\ <<v, p>> \in P => u = v
    BY <1>1, <1>4 DEF Traced, Apart
  <2> QED
    BY <2>1, <2>2 DEF Apart
<1> QED
  BY <1>1, <1>6 DEF Traced

\* Plain code that has been added stays inside.
LEMMA CodedLonger ==
    ASSUME NEW c, CompOK(c), NEW d, CompOK(d), Coded(c, d)
    PROVE  Longer(c, d)
<1>1. DOMAIN d.code = 1 .. Len(d.code) /\ Len(d.code) \in Nat
  BY CodeIs
<1>2. ASSUME NEW i \in DOMAIN d.code, i > Len(c.code), d.code[i].op = "JMP"
      PROVE  d.code[i].a + i \in 0 .. Len(d.code)
  <2>1. d.code[i].a = 0
    BY <1>2 DEF Coded, Plain
  <2>2. i \in 1 .. Len(d.code)
    BY <1>1
  <2> QED
    BY <1>1, <2>1, <2>2
<1> QED
  BY <1>2 DEF Coded, Longer

\* mccomp_patch changes jumps only.
LEMMA PatchCode ==
    ASSUME NEW c, CompOK(c), NEW S, NEW target \in Int, NEW d, d = PatchAll(c, S, target)
    PROVE  /\ CompOK(d) /\ Len(d.code) = Len(c.code) /\ DOMAIN d.code = DOMAIN c.code
           /\ d.labels = c.labels /\ d.gotos = c.gotos /\ d.lands = c.lands /\ d.jumps = c.jumps
           /\ d.breaks = c.breaks /\ d.owed = c.owed /\ d.in_loop = c.in_loop
           /\ \A i \in DOMAIN c.code : d.code[i] = IF i - 1 \in S THEN Jump(target - i) ELSE c.code[i]
<1>1. CompOK(d) /\ Len(d.code) = Len(c.code)
  BY PatchIs DEF Moved
<1>2. /\ d.labels = c.labels /\ d.gotos = c.gotos /\ d.lands = c.lands /\ d.jumps = c.jumps
      /\ d.breaks = c.breaks /\ d.owed = c.owed /\ d.in_loop = c.in_loop
      /\ d.code = [i \in DOMAIN c.code |-> IF i - 1 \in S THEN Jump(target - i) ELSE c.code[i]]
  BY DEF PatchAll, CompOK, Comp
<1> QED
  BY <1>1, <1>2

\* Patching jumps that are waited for disturbs no other.
LEMMA PatchTraced ==
    ASSUME NEW c, NEW O, Traced(c, O), NEW S, NEW target \in 0 .. Len(c.code),
           \A pc \in S : pc \in Nat => \E t \in Tags : <<t, pc>> \in O,
           NEW d, d = PatchAll(c, S, target)
    PROVE  /\ Traced(d, O)
           /\ \A pc \in Nat : JmpAt(c, pc) => Goes(d, pc) = IF pc \in S THEN target ELSE Goes(c, pc)
<1>1. /\ c.code \in Seq(Instrs) /\ Len(c.code) \in Nat /\ DOMAIN c.code = 1 .. Len(c.code) /\ CompOK(c)
  BY CodeIs DEF Traced
<1>2. /\ CompOK(d) /\ Len(d.code) = Len(c.code) /\ DOMAIN d.code = DOMAIN c.code
      /\ d.labels = c.labels /\ d.gotos = c.gotos /\ d.lands = c.lands /\ d.jumps = c.jumps
      /\ \A i \in DOMAIN c.code : d.code[i] = IF i - 1 \in S THEN Jump(target - i) ELSE c.code[i]
  BY <1>1, PatchCode
<1>3. \A i \in Int : Jump(target - i).op = "JMP" /\ Jump(target - i).a = target - i
  BY DEF Jump, Instr
<1>4. ASSUME NEW pc, JmpAt(c, pc)
      PROVE  JmpAt(d, pc) /\ Goes(d, pc) = IF pc \in S THEN target ELSE Goes(c, pc)
  <2>1. pc \in Nat /\ pc + 1 \in DOMAIN c.code /\ (pc + 1) - 1 = pc /\ c.code[pc + 1].op = "JMP"
    BY <1>4 DEF JmpAt
  <2>2. d.code[pc + 1] = IF pc \in S THEN Jump(target - (pc + 1)) ELSE c.code[pc + 1]
    BY <1>2, <2>1
  <2>3. d.code[pc + 1].op = "JMP"
    BY <1>3, <2>1, <2>2
  <2>4. pc \in S => pc + 1 + d.code[pc + 1].a = target
    <3> SUFFICES ASSUME pc \in S PROVE pc + 1 + d.code[pc + 1].a = target
      OBVIOUS
    <3>1. d.code[pc + 1].a = target - (pc + 1)
      BY <1>3, <2>1, <2>2, SMTT(30)
    <3> QED
      BY <1>1, <2>1, <3>1
  <2> QED
    BY <1>2, <2>1, <2>2, <2>3, <2>4 DEF JmpAt, Goes, Target
<1>5. ASSUME NEW pc \in Nat, HasLanded(c, pc) PROVE pc \notin S
  BY <1>5 DEF Traced, Apart
<1>6. /\ \A j : Pend(d, j) <=> Pend(c, j)
      /\ \A pc : HasLanded(d, pc) <=> HasLanded(c, pc)
  BY <1>2, SameLists
<1>7. \A name : FirstLabel(d, name) = FirstLabel(c, name)
  BY <1>2, FirstSame
<1>8. Apart(d, O)
  BY <1>4, <1>6 DEF Traced, Apart
<1>9. GotosSound(d)
  <2>1. ASSUME NEW j \in c.jumps PROVE JmpAt(d, j.pc) /\ (Pend(d, j) \/ Reaches(d, j))
    <3>1. JmpAt(c, j.pc) /\ (Pend(c, j) \/ Reaches(c, j))
      BY DEF Traced, GotosSound
    <3>2. CASE Pend(c, j)
      BY <1>4, <1>6, <3>1, <3>2
    <3>3. CASE ~ Pend(c, j)
      <4>1. j.pc \notin S
        BY <1>5, <3>1, <3>3 DEF HasLanded, JmpAt
      <4>2. Goes(d, j.pc) = Goes(c, j.pc)
        BY <1>4, <3>1, <4>1
      <4> QED
        BY <1>2, <1>4, <1>7, <3>1, <3>3, <4>2 DEF Reaches
    <3> QED
      BY <3>2, <3>3
  <2>2. \A i \in DOMAIN d.labels : d.labels[i].pc \in 0 .. Len(d.code)
    BY <1>2 DEF Traced, GotosSound
  <2> QED
    BY <1>2, <1>7, <2>1, <2>2 DEF Traced, GotosSound
<1>10. LandsSound(d)
  <2> SUFFICES ASSUME NoDrops, NEW x \in c.lands
               PROVE  JmpAt(d, x.pc) /\ Goes(d, x.pc) = x.at
    BY <1>2 DEF LandsSound
  <2>1. JmpAt(c, x.pc) /\ Goes(c, x.pc) = x.at
    BY DEF Traced, LandsSound
  <2>2. x.pc \notin S
    BY <1>5, <2>1 DEF HasLanded, JmpAt
  <2> QED
    BY <1>4, <2>1, <2>2
<1>11. InBounds(d)
  <2> SUFFICES ASSUME NEW i \in DOMAIN c.code, d.code[i].op = "JMP"
               PROVE  d.code[i].a + i \in 0 .. Len(c.code)
    BY <1>2 DEF InBounds
  <2>1. CASE i - 1 \in S
    <3>1. d.code[i].a = target - i /\ i \in Int
      BY <1>1, <1>2, <1>3, <2>1, SMTT(30)
    <3>2. (target - i) + i = target
      BY <1>1, <3>1
    <3> QED
      BY <3>1, <3>2
  <2>2. CASE i - 1 \notin S
    BY <1>2, <2>2 DEF Traced, InBounds
  <2> QED
    BY <2>1, <2>2
<1> QED
  BY <1>2, <1>4, <1>8, <1>9, <1>10, <1>11 DEF Traced

\* The fields of a function that say where its jumps lead.
SameCode(c, d) ==
    /\ CompOK(d)
    /\ d.code = c.code /\ d.labels = c.labels /\ d.gotos = c.gotos /\ d.jumps = c.jumps

\* What was waited for has landed.
LEMMA LandTraced ==
    ASSUME NEW c, NEW O, Traced(c, O), NEW d, SameCode(c, d), NEW T, d.lands = c.lands \cup T,
           NEW P, \A t \in Tags, pc \in Nat : <<t, pc>> \in P => <<t, pc>> \in O,
           NoDrops => \A x \in T : /\ x.pc \in Nat /\ Goes(c, x.pc) = x.at
                                    /\ \E t \in Tags : <<t, x.pc>> \in O /\ <<t, x.pc>> \notin P
    PROVE  Traced(d, P)
<1>1. \A pc : (JmpAt(d, pc) <=> JmpAt(c, pc)) /\ Goes(d, pc) = Goes(c, pc)
  BY DEF JmpAt, Goes, SameCode
<1>2. \A j : Pend(d, j) <=> Pend(c, j)
  BY DEF Pend, SameCode
<1>3. \A name : FirstLabel(d, name) = FirstLabel(c, name)
  BY FirstSame DEF SameCode
<1>4. ASSUME NEW t \in Tags, NEW pc \in Nat, <<t, pc>> \in P
      PROVE  JmpAt(d, pc) /\ ~ HasLanded(d, pc)
  <2>1. <<t, pc>> \in O /\ JmpAt(c, pc) /\ ~ HasLanded(c, pc)
    BY <1>4 DEF Traced, Apart
  <2>2. ASSUME NoDrops, NEW x \in T PROVE x.pc # pc
    <3> SUFFICES ASSUME x.pc = pc PROVE FALSE
      OBVIOUS
    <3>1. PICK u \in Tags : <<u, pc>> \in O /\ <<u, pc>> \notin P
      BY <2>2
    <3>2. u = t
      BY <2>1, <3>1 DEF Traced, Apart
    <3> QED
      BY <1>4, <3>1, <3>2
  <2> QED
    BY <1>1, <1>2, <2>1, <2>2 DEF HasLanded, SameCode
<1>5. Apart(d, P)
  BY <1>4 DEF Traced, Apart
<1>6. GotosSound(d)
  BY <1>1, <1>2, <1>3 DEF Traced, GotosSound, Reaches, SameCode
<1>7. LandsSound(d)
  <2> SUFFICES ASSUME NoDrops, NEW x \in d.lands
               PROVE  JmpAt(d, x.pc) /\ Goes(d, x.pc) = x.at
    BY DEF LandsSound
  <2>1. CASE x \in c.lands
    BY <1>1, <2>1 DEF Traced, LandsSound
  <2>2. CASE x \in T
    <3>1. Goes(c, x.pc) = x.at /\ JmpAt(c, x.pc)
      BY <2>2 DEF Traced, Apart
    <3> QED
      BY <1>1, <3>1
  <2> QED
    BY <2>1, <2>2
<1>8. InBounds(d)
  BY DEF Traced, InBounds, SameCode
<1> QED
  BY <1>5, <1>6, <1>7, <1>8 DEF Traced, SameCode

\* Instructions that are no jumps may change.
LEMMA OthersTraced ==
    ASSUME NEW c, NEW O, Traced(c, O), NEW d, CompOK(d), Len(d.code) = Len(c.code),
           d.labels = c.labels, d.gotos = c.gotos, d.lands = c.lands, d.jumps = c.jumps,
           \A i \in DOMAIN c.code : c.code[i].op = "JMP" \/ d.code[i].op = "JMP" => d.code[i] = c.code[i]
    PROVE  Traced(d, O)
<1>1. /\ DOMAIN c.code = 1 .. Len(c.code) /\ DOMAIN d.code = DOMAIN c.code
  BY CodeIs DEF Traced
<1>2. \A pc : JmpAt(c, pc) => JmpAt(d, pc) /\ Goes(d, pc) = Goes(c, pc)
  BY <1>1 DEF JmpAt, Goes
<1>3. /\ \A j : Pend(d, j) <=> Pend(c, j)
      /\ \A pc : HasLanded(d, pc) <=> HasLanded(c, pc)
  BY SameLists
<1>4. \A name : FirstLabel(d, name) = FirstLabel(c, name)
  BY FirstSame
<1>5. Apart(d, O)
  BY <1>2, <1>3 DEF Traced, Apart
<1>6. GotosSound(d)
  <2>1. \A j \in c.jumps : Reaches(c, j) /\ JmpAt(c, j.pc) => Reaches(d, j)
    BY <1>2, <1>4 DEF Reaches
  <2> QED
    BY <1>2, <1>3, <1>4, <2>1 DEF Traced, GotosSound
<1>7. LandsSound(d)
  BY <1>2 DEF Traced, LandsSound
<1>8. InBounds(d)
  BY <1>1 DEF Traced, InBounds
<1> QED
  BY <1>5, <1>6, <1>7, <1>8 DEF Traced

\* d is c with the gotos T, which have been patched; then P waits, and no more O.
MoreJumps(c, O, T, d, P) ==
    /\ d.code = c.code /\ d.labels = c.labels /\ d.gotos = c.gotos /\ d.lands = c.lands
    /\ d.jumps = c.jumps \cup T
    /\ \A t \in Tags, pc \in Nat : <<t, pc>> \in P => <<t, pc>> \in O
    /\ \A j \in T : /\ JmpAt(c, j.pc) /\ Reaches(c, j)
                    /\ \E t \in Tags : <<t, j.pc>> \in O /\ <<t, j.pc>> \notin P

\* A goto is noted that has been patched.
LEMMA JumpsTraced ==
    ASSUME NEW c, NEW O, Traced(c, O), NEW d, CompOK(d), NEW T, NEW P, MoreJumps(c, O, T, d, P)
    PROVE  Traced(d, P)
<1>a. /\ d.code = c.code /\ d.labels = c.labels /\ d.gotos = c.gotos /\ d.lands = c.lands
      /\ d.jumps = c.jumps \cup T
      /\ \A t \in Tags, pc \in Nat : <<t, pc>> \in P => <<t, pc>> \in O
      /\ \A j \in T : /\ JmpAt(c, j.pc) /\ Reaches(c, j)
                      /\ \E t \in Tags : <<t, j.pc>> \in O /\ <<t, j.pc>> \notin P
  BY DEF MoreJumps
<1>1. \A pc : (JmpAt(d, pc) <=> JmpAt(c, pc)) /\ Goes(d, pc) = Goes(c, pc)
  BY <1>a DEF JmpAt, Goes
<1>2. \A j : Pend(d, j) <=> Pend(c, j)
  BY <1>a DEF Pend
<1>3. \A name : FirstLabel(d, name) = FirstLabel(c, name)
  BY <1>a, FirstSame
<1>4. ASSUME NEW t \in Tags, NEW pc \in Nat, <<t, pc>> \in P
      PROVE  JmpAt(d, pc) /\ ~ HasLanded(d, pc)
  <2>1. <<t, pc>> \in O /\ JmpAt(c, pc) /\ ~ HasLanded(c, pc)
    BY <1>4, <1>a DEF Traced, Apart
  <2>2. ASSUME NEW j \in T PROVE j.pc # pc
    <3> SUFFICES ASSUME j.pc = pc PROVE FALSE
      OBVIOUS
    <3>1. PICK u \in Tags : <<u, pc>> \in O /\ <<u, pc>> \notin P
      BY <1>a, <2>2
    <3>2. u = t
      BY <2>1, <3>1 DEF Traced, Apart
    <3> QED
      BY <1>4, <3>1, <3>2
  <2> QED
    BY <1>1, <1>2, <1>a, <2>1, <2>2 DEF HasLanded
<1>5. Apart(d, P)
  BY <1>4, <1>a DEF Traced, Apart
<1>6. GotosSound(d)
  BY <1>1, <1>2, <1>3, <1>a DEF Traced, GotosSound, Reaches
<1>7. LandsSound(d)
  BY <1>1, <1>a DEF Traced, LandsSound
<1>8. InBounds(d)
  BY <1>a DEF Traced, InBounds
<1> QED
  BY <1>5, <1>6, <1>7, <1>8 DEF Traced

\* d is c with the goto g, whose jumps are T.
MoreGoto(c, g, T, d) ==
    /\ d.code = c.code /\ d.labels = c.labels /\ d.lands = c.lands
    /\ d.gotos = Append(c.gotos, g)
    /\ g.name # Done => FirstLabel(c, g.name) = 0
    /\ d.jumps = c.jumps \cup T
    /\ \A j \in T : JmpAt(c, j.pc) /\ j.pc = g.pc /\ j.name = g.name

\* A goto begins to wait.
LEMMA WaitTraced ==
    ASSUME NEW c, NEW O, Traced(c, O), NEW d, CompOK(d), NEW g \in Label, NEW T, MoreGoto(c, g, T, d)
    PROVE  Traced(d, O)
<1>a. /\ d.code = c.code /\ d.labels = c.labels /\ d.lands = c.lands
      /\ d.gotos = Append(c.gotos, g)
      /\ g.name # Done => FirstLabel(c, g.name) = 0
      /\ d.jumps = c.jumps \cup T
      /\ \A j \in T : JmpAt(c, j.pc) /\ j.pc = g.pc /\ j.name = g.name
  BY DEF MoreGoto
<1>0. c.gotos \in Seq(Label)
  BY CodeIs DEF Traced
<1>1. \A pc : (JmpAt(d, pc) <=> JmpAt(c, pc)) /\ Goes(d, pc) = Goes(c, pc)
  BY <1>a DEF JmpAt, Goes
<1>2. /\ DOMAIN d.gotos = 1 .. Len(c.gotos) + 1 /\ DOMAIN c.gotos = 1 .. Len(c.gotos) /\ Len(c.gotos) \in Nat
      /\ \A i \in DOMAIN c.gotos : d.gotos[i] = c.gotos[i]
      /\ d.gotos[Len(c.gotos) + 1] = g
  BY <1>0, <1>a, AppendIs
<1>3. \A j : Pend(c, j) => Pend(d, j)
  BY <1>2, <1>a DEF Pend
<1>4. \A j \in T : Pend(d, j)
  BY <1>2, <1>a DEF Pend
<1>5. \A name : FirstLabel(d, name) = FirstLabel(c, name)
  BY <1>a, FirstSame
<1>6. \A pc : HasLanded(d, pc) => HasLanded(c, pc)
  BY <1>3, <1>4, <1>a DEF HasLanded
<1>7. Apart(d, O)
  BY <1>1, <1>6 DEF Traced, Apart
<1>8. GotosSound(d)
  <2>1. \A i \in DOMAIN d.gotos : d.gotos[i].name # Done => FirstLabel(d, d.gotos[i].name) = 0
    <3> SUFFICES ASSUME NEW i \in DOMAIN d.gotos, d.gotos[i].name # Done
                 PROVE  FirstLabel(d, d.gotos[i].name) = 0
      OBVIOUS
    <3>1. CASE i \in DOMAIN c.gotos
      BY <1>2, <1>5, <3>1 DEF Traced, GotosSound
    <3>2. CASE i = Len(c.gotos) + 1
      BY <1>2, <1>5, <1>a, <3>2
    <3> QED
      BY <1>2, <3>1, <3>2
  <2>2. \A j \in d.jumps : JmpAt(d, j.pc) /\ (Pend(d, j) \/ Reaches(d, j))
    BY <1>1, <1>3, <1>4, <1>5, <1>a DEF Traced, GotosSound, Reaches
  <2> QED
    BY <1>a, <2>1, <2>2 DEF Traced, GotosSound
<1>9. LandsSound(d)
  BY <1>1, <1>a DEF Traced, LandsSound
<1>10. InBounds(d)
  BY <1>a DEF Traced, InBounds
<1> QED
  BY <1>7, <1>8, <1>9, <1>10 DEF Traced

\* The first label of a name when l has been added to c's labels, which gives d's.
FirstAfter(c, d, l, name) ==
    IF FirstLabel(c, name) # 0
      THEN /\ FirstLabel(d, name) = FirstLabel(c, name)
           /\ d.labels[FirstLabel(d, name)] = c.labels[FirstLabel(c, name)]
    ELSE IF l.name = name
      THEN FirstLabel(d, name) # 0 /\ d.labels[FirstLabel(d, name)] = l
    ELSE FirstLabel(d, name) = 0

\* A label that is added is the first of its name only if there was none.
LEMMA FirstAppend ==
    ASSUME NEW c, c.labels \in Seq(Label), NEW l \in Label, NEW d, d.labels = Append(c.labels, l), NEW name
    PROVE  FirstAfter(c, d, l, name)
<1> DEFINE n    == Len(c.labels)
           hits == {i \in DOMAIN c.labels : c.labels[i].name = name}
           more == {i \in DOMAIN d.labels : d.labels[i].name = name}
<1>1. /\ n \in Nat /\ DOMAIN c.labels = 1 .. n /\ DOMAIN d.labels = 1 .. n + 1
      /\ d.labels[n + 1] = l /\ \A i \in 1 .. n : d.labels[i] = c.labels[i]
  BY AppendIs
<1>2. /\ FirstLabel(c, name) = IF hits = {} THEN 0 ELSE CHOOSE i \in hits : \A j \in hits : i <= j
      /\ FirstLabel(d, name) = IF more = {} THEN 0 ELSE CHOOSE i \in more : \A j \in more : i <= j
  BY DEF FirstLabel
<1>3. /\ hits \in SUBSET Nat /\ more \in SUBSET Nat /\ 0 \notin hits /\ 0 \notin more
      /\ hits \subseteq 1 .. n
      /\ more = IF l.name = name THEN hits \cup {n + 1} ELSE hits
  BY <1>1
<1> HIDE DEF hits, more, n
<1>4. hits # {} => \E m \in hits : \A k \in hits : m <= k
  BY <1>3, ExpRun!LeastNat
<1>5. more # {} => \E m \in more : \A k \in more : m <= k
  BY <1>3, ExpRun!LeastNat
<1>6. hits # {} => FirstLabel(c, name) \in hits /\ \A j \in hits : FirstLabel(c, name) <= j
  BY <1>2, <1>4
<1>7. more # {} => FirstLabel(d, name) \in more /\ \A j \in more : FirstLabel(d, name) <= j
  BY <1>2, <1>5
<1>8. FirstLabel(c, name) # 0 <=> hits # {}
  BY <1>2, <1>3, <1>6
<1>9. ASSUME hits # {} PROVE FirstLabel(d, name) = FirstLabel(c, name)
  <2>1. FirstLabel(c, name) \in 1 .. n /\ FirstLabel(c, name) \in more
    BY <1>3, <1>6, <1>9
  <2>2. FirstLabel(d, name) <= FirstLabel(c, name) /\ FirstLabel(d, name) \in Nat
    BY <1>3, <1>7, <2>1
  <2>3. FirstLabel(d, name) \in hits
    BY <1>1, <1>3, <1>7, <2>1, <2>2
  <2>4. FirstLabel(c, name) <= FirstLabel(d, name)
    BY <1>6, <1>9, <2>3
  <2> QED
    BY <2>1, <2>2, <2>4
<1>10. FirstLabel(c, name) # 0 => d.labels[FirstLabel(c, name)] = c.labels[FirstLabel(c, name)]
  BY <1>1, <1>3, <1>6, <1>8
<1>11. hits = {} /\ l.name # name => FirstLabel(d, name) = 0
  BY <1>2, <1>3
<1>12. hits = {} /\ l.name = name => FirstLabel(d, name) = n + 1
  BY <1>3, <1>7
<1>13. CASE FirstLabel(c, name) # 0
  BY <1>8, <1>9, <1>10, <1>13 DEF FirstAfter
<1>14. CASE FirstLabel(c, name) = 0 /\ l.name = name
  <2>1. FirstLabel(d, name) = n + 1 /\ n + 1 # 0
    BY <1>1, <1>8, <1>12, <1>14
  <2> QED
    BY <1>1, <1>14, <2>1 DEF FirstAfter
<1>15. CASE FirstLabel(c, name) = 0 /\ l.name # name
  BY <1>8, <1>11, <1>15 DEF FirstAfter
<1> QED
  BY <1>13, <1>14, <1>15

\* d is c with a label here, where the gotos that waited for it lead; then P waits, and no more O.
MoreLabels(c, O, name, here, d, P) ==
    /\ d.code = c.code /\ d.lands = c.lands /\ d.jumps = c.jumps
    /\ d.labels = Append(c.labels, [name |-> name, pc |-> here])
    /\ DOMAIN d.gotos = DOMAIN c.gotos
    /\ \A i \in DOMAIN c.gotos : IF c.gotos[i].name = name THEN d.gotos[i].name = Done
                                 ELSE d.gotos[i] = c.gotos[i]
    /\ \A i \in DOMAIN c.gotos : c.gotos[i].name = name /\ c.gotos[i].pc \in Nat =>
          Goes(c, c.gotos[i].pc) = here /\ <<<<"goto", i>>, c.gotos[i].pc>> \in O
    /\ \A t \in Tags, pc \in Nat : <<t, pc>> \in P => <<t, pc>> \in O
    /\ \A i \in DOMAIN c.gotos, pc \in Nat : c.gotos[i].name = name => <<<<"goto", i>>, pc>> \notin P

\* A label ends the waiting for its name.
LEMMA LabelTraced ==
    ASSUME NEW c, NEW O, Traced(c, O), NEW d, CompOK(d), NEW name \in Labels, NEW here \in 0 .. Len(c.code),
           NEW P, MoreLabels(c, O, name, here, d, P)
    PROVE  Traced(d, P)
<1>b. /\ d.code = c.code /\ d.lands = c.lands /\ d.jumps = c.jumps
      /\ d.labels = Append(c.labels, [name |-> name, pc |-> here])
      /\ DOMAIN d.gotos = DOMAIN c.gotos
      /\ \A i \in DOMAIN c.gotos : IF c.gotos[i].name = name THEN d.gotos[i].name = Done
                                   ELSE d.gotos[i] = c.gotos[i]
      /\ \A i \in DOMAIN c.gotos : c.gotos[i].name = name /\ c.gotos[i].pc \in Nat =>
            Goes(c, c.gotos[i].pc) = here /\ <<<<"goto", i>>, c.gotos[i].pc>> \in O
      /\ \A t \in Tags, pc \in Nat : <<t, pc>> \in P => <<t, pc>> \in O
      /\ \A i \in DOMAIN c.gotos, pc \in Nat : c.gotos[i].name = name => <<<<"goto", i>>, pc>> \notin P
  BY DEF MoreLabels
<1> USE <1>b
<1> DEFINE l == [name |-> name, pc |-> here]
<1>0. /\ c.labels \in Seq(Label) /\ c.gotos \in Seq(Label) /\ Len(c.code) \in Nat /\ Done \notin Labels
      /\ \A j \in c.jumps : j.pc \in Int /\ j.name \in Labels
  BY CodeIs, ScriptAssumption DEF Traced
<1>1. l \in Label /\ l.name = name /\ l.pc = here /\ d.labels = Append(c.labels, l)
  BY <1>0 DEF Label
<1> HIDE DEF l
<1>2. \A pc : (JmpAt(d, pc) <=> JmpAt(c, pc)) /\ Goes(d, pc) = Goes(c, pc)
  BY DEF JmpAt, Goes
<1>a. \A m : FirstAfter(c, d, l, m)
  BY <1>0, <1>1, FirstAppend
<1>3. \A m : /\ FirstLabel(c, m) # 0 => /\ FirstLabel(d, m) # 0
                                        /\ d.labels[FirstLabel(d, m)] = c.labels[FirstLabel(c, m)]
             /\ FirstLabel(c, m) = 0 /\ m # name => FirstLabel(d, m) = 0
  BY <1>1, <1>a DEF FirstAfter
<1>4. FirstLabel(c, name) = 0 => FirstLabel(d, name) # 0 /\ d.labels[FirstLabel(d, name)].pc = here
  BY <1>1, <1>a DEF FirstAfter
<1>5. ASSUME NEW j \in c.jumps, Pend(c, j), j.name = name
      PROVE  Reaches(d, j) /\ \A t \in Tags : <<t, j.pc>> \notin P
  <2>1. PICK i \in DOMAIN c.gotos : c.gotos[i].pc = j.pc /\ c.gotos[i].name = name
    BY <1>5 DEF Pend
  <2>2. JmpAt(c, j.pc) /\ FirstLabel(c, name) = 0
    BY <1>0, <2>1 DEF Traced, GotosSound
  <2>3. j.pc \in Nat /\ <<"goto", i>> \in Tags
    BY <1>0, <2>2 DEF JmpAt, Tags
  <2>4. Goes(c, j.pc) = here /\ <<<<"goto", i>>, j.pc>> \in O /\ <<<<"goto", i>>, j.pc>> \notin P
    BY <2>1, <2>3
  <2>5. Reaches(d, j)
    BY <1>2, <1>4, <1>5, <2>2, <2>4 DEF Reaches
  <2>6. \A t \in Tags : <<t, j.pc>> \in P => t = <<"goto", i>>
    BY <2>3, <2>4 DEF Traced, Apart
  <2> QED
    BY <2>4, <2>5, <2>6
<1>6. ASSUME NEW j \in c.jumps, Pend(c, j), j.name # name PROVE Pend(d, j)
  BY <1>6 DEF Pend
<1>7. ASSUME NEW j \in c.jumps, ~ Pend(c, j) PROVE Reaches(c, j) /\ Reaches(d, j)
  BY <1>2, <1>3, <1>7 DEF Traced, GotosSound, Reaches
<1>8. Apart(d, P)
  <2>1. ASSUME NEW t \in Tags, NEW pc \in Nat, <<t, pc>> \in P PROVE JmpAt(d, pc) /\ ~ HasLanded(d, pc)
    <3>1. JmpAt(c, pc) /\ ~ HasLanded(c, pc)
      BY <2>1 DEF Traced, Apart
    <3>2. ASSUME NEW j \in c.jumps, j.pc = pc PROVE Pend(d, j)
      <4>1. Pend(c, j)
        BY <3>1, <3>2 DEF HasLanded
      <4>2. j.name # name
        BY <1>5, <2>1, <3>2, <4>1
      <4> QED
        BY <1>6, <4>1, <4>2
    <3> QED
      BY <1>2, <3>1, <3>2 DEF HasLanded
  <2> QED
    BY <2>1 DEF Traced, Apart
<1>9. GotosSound(d)
  <2>1. ASSUME NEW i \in DOMAIN d.gotos, d.gotos[i].name # Done PROVE FirstLabel(d, d.gotos[i].name) = 0
    <3>1. c.gotos[i].name # name /\ d.gotos[i] = c.gotos[i] /\ i \in DOMAIN c.gotos
      BY <2>1
    <3>2. FirstLabel(c, c.gotos[i].name) = 0
      BY <2>1, <3>1 DEF Traced, GotosSound
    <3> QED
      BY <1>3, <3>1, <3>2
  <2>2. \A j \in d.jumps : JmpAt(d, j.pc) /\ (Pend(d, j) \/ Reaches(d, j))
    BY <1>2, <1>5, <1>6, <1>7 DEF Traced, GotosSound
  <2>3. \A i \in DOMAIN d.labels : d.labels[i].pc \in 0 .. Len(d.code)
    <3>1. \A i \in DOMAIN c.labels : c.labels[i].pc \in 0 .. Len(c.code)
      BY DEF Traced, GotosSound
    <3>2. /\ DOMAIN d.labels = 1 .. Len(c.labels) + 1 /\ DOMAIN c.labels = 1 .. Len(c.labels)
          /\ Len(c.labels) \in Nat /\ d.labels[Len(c.labels) + 1] = l
          /\ \A i \in 1 .. Len(c.labels) : d.labels[i] = c.labels[i]
      BY <1>0, <1>1, AppendIs
    <3> SUFFICES ASSUME NEW i \in DOMAIN d.labels PROVE d.labels[i].pc \in 0 .. Len(c.code)
      OBVIOUS
    <3>3. CASE i = Len(c.labels) + 1
      BY <1>1, <3>2, <3>3
    <3>4. CASE i \in 1 .. Len(c.labels)
      BY <3>1, <3>2, <3>4
    <3> QED
      BY <3>2, <3>3, <3>4
  <2> QED
    BY <2>1, <2>2, <2>3 DEF GotosSound
<1>10. LandsSound(d)
  BY <1>2 DEF Traced, LandsSound
<1>11. InBounds(d)
  BY DEF Traced, InBounds
<1> QED
  BY <1>8, <1>9, <1>10, <1>11 DEF Traced

-----------------------------------------------------------------------------
(***************************************************************************)
(* A level is a function c being compiled, the l-th, with the frames of K  *)
(* that are its own; s statements are left to choose.                      *)
(***************************************************************************)
LoopAt(K, l, n) == n \in DOMAIN K /\ K[n].comp = l /\ K[n].k \in LoopKinds

\* What waits for the jump at pc.
Claimed(K, l, c, t, pc) ==
    \/ /\ t[2] \in DOMAIN K /\ K[t[2]].comp = l
       /\ \/ t[1] = "cond" /\ K[t[2]].jf = pc
          \/ t[1] = "ends" /\ \E i \in DOMAIN K[t[2]].ends : K[t[2]].ends[i] = pc
    \/ t[1] = "break" /\ t[2] \in DOMAIN c.breaks /\ c.breaks[t[2]] = pc
    \/ /\ t[1] = "goto" /\ t[2] \in DOMAIN c.gotos
       /\ c.gotos[t[2]].name # Done /\ c.gotos[t[2]].pc = pc

Owns(K, l, c) == {w \in Tags \X Nat : Claimed(K, l, c, w[1], w[2])}

\* The frames hold pcs of the code.
Marks(K, l, c) ==
    \A n \in DOMAIN K : K[n].comp = l =>
        /\ K[n].jf \in Nat \cup {NoJump}
        /\ \A i \in DOMAIN K[n].ends : K[n].ends[i] \in Nat \cup {NoJump}
        /\ K[n].k \in {"while", "repeat"} => K[n].top \in 0 .. Len(c.code)
        /\ K[n].k = "fornum" => "fornum" \in Kinds
        /\ K[n].k \in {"repeat", "forin"} => K[n].jf = NoJump

\* The i-th break is the one o, in the window of its loop and of no loop inside.
InWindow(K, l, c, o, i) ==
    /\ o.pc \in Nat \cup {NoJump}
    /\ c.breaks[i] = IF o.pc = NoJump THEN Wild ELSE o.pc
    /\ K[o.loop].sbreaks < i
    /\ \A n \in DOMAIN K : LoopAt(K, l, n) /\ n > o.loop => i <= K[n].sbreaks

\* The open loops of a level.
LoopsOf(K, l) == {n \in DOMAIN K : LoopAt(K, l, n)}

\* When no break is dropped, each is in the window of its loop.
InLoops(K, l, c, s) ==
    NoDrops =>
        /\ c.in_loop = Cardinality(LoopsOf(K, l))
        /\ c.in_loop + s <= MaxStats
        /\ Len(c.breaks) + s <= MaxStats
        /\ \A o \in c.owed : \E i \in DOMAIN c.breaks : InWindow(K, l, c, o, i)

\* The instructions of a for loop find each other, or the loop is open.
OpAt(c, i, op) == i \in DOMAIN c.code /\ c.code[i].op = op
Begun(K, l, k, i) == \E n \in DOMAIN K : K[n].comp = l /\ K[n].k = k /\ K[n].prep = i - 1

\* The for instructions of c at i have their other half.
Matched(K, l, c, i) ==
    /\ c.code[i].op = "FORLOOP" => OpAt(c, i - c.code[i].b, "FORPREP")
    /\ c.code[i].op = "TFORLOOP" => OpAt(c, i - c.code[i].b, "TFORPREP")
    /\ c.code[i].op = "FORPREP" => OpAt(c, i + c.code[i].b + 1, "FORLOOP") \/ Begun(K, l, "fornum", i)
    /\ c.code[i].op = "TFORPREP" => OpAt(c, i + c.code[i].b + 1, "TFORCALL") \/ Begun(K, l, "forin", i)

\* A for loop knows its first instruction, unless that was lost.
Prepared(f, c) ==
    \/ f.k \notin {"fornum", "forin"}
    \/ heap = "full" /\ f.prep = NoJump
    \/ /\ f.prep = f.top - 1
       /\ OpAt(c, f.top, IF f.k = "fornum" THEN "FORPREP" ELSE "TFORPREP")

\* All of them, and the frames that are to complete the others.
Paired(K, l, c) ==
    /\ heap # "full" => \A i \in DOMAIN c.code : Matched(K, l, c, i)
    /\ \A n \in DOMAIN K : K[n].comp = l => Prepared(K[n], c)

\* The invariant of one function that is being compiled.
Level(K, l, c, s) ==
    /\ Traced(c, Owns(K, l, c))
    /\ Marks(K, l, c)
    /\ InLoops(K, l, c, s)
    /\ Paired(K, l, c)

\* Every frame of J at level l is one of K.
FewerFrames(K, J, l) ==
    \A n \in DOMAIN J : J[n].comp = l =>
        /\ n \in DOMAIN K /\ K[n].comp = l
        /\ J[n].k = K[n].k /\ J[n].jf = K[n].jf /\ J[n].ends = K[n].ends
        /\ J[n].top = K[n].top /\ J[n].prep = K[n].prep /\ J[n].sbreaks = K[n].sbreaks

SameFrames(K, J, l) == FewerFrames(K, J, l) /\ FewerFrames(J, K, l)

\* The loops of J at level l, and its windows of breaks, are those of K.
SameWindows(K, J, l) ==
    /\ LoopsOf(J, l) = LoopsOf(K, l)
    /\ \A n \in DOMAIN J : J[n].comp = l => n \in DOMAIN K /\ K[n].comp = l /\ J[n].sbreaks = K[n].sbreaks

\* The for loops of J at level l are those of K.
SameFors(K, J, l) ==
    /\ \A n \in DOMAIN K : K[n].comp = l /\ K[n].k \in {"fornum", "forin"} =>
          n \in DOMAIN J /\ J[n].comp = l /\ J[n].k = K[n].k
    /\ \A n \in DOMAIN J : J[n].comp = l /\ J[n].k \in {"fornum", "forin"} =>
          n \in DOMAIN K /\ K[n].comp = l /\ J[n].k = K[n].k /\ J[n].prep = K[n].prep /\ J[n].top = K[n].top

\* Nothing but jumps has changed, and no for loop begun or ended.
Reworked(c, d) ==
    /\ \A i \in DOMAIN c.code : /\ i \in DOMAIN d.code
                                /\ \/ d.code[i] = c.code[i]
                                   \/ c.code[i].op = "JMP" /\ d.code[i].op = "JMP"
    /\ \A i \in DOMAIN d.code : i \notin DOMAIN c.code => d.code[i].op \notin Looping

\* A thing owns the jump it claims.
LEMMA OwnsIs ==
    ASSUME NEW K, NEW l, NEW c, NEW t \in Tags, NEW pc \in Nat
    PROVE  <<t, pc>> \in Owns(K, l, c) <=> Claimed(K, l, c, t, pc)
BY DEF Owns

\* Fewer frames and breaks wait for fewer jumps.
LEMMA OwnsLess ==
    ASSUME NEW K, NEW J, NEW l, NEW c, NEW d, FewerFrames(K, J, l),
           \A i \in DOMAIN d.breaks : i \in DOMAIN c.breaks /\ d.breaks[i] = c.breaks[i],
           d.gotos = c.gotos
    PROVE  \A t \in Tags, pc \in Nat : <<t, pc>> \in Owns(J, l, d) => <<t, pc>> \in Owns(K, l, c)
<1> SUFFICES ASSUME NEW t \in Tags, NEW pc \in Nat, Claimed(J, l, d, t, pc) PROVE Claimed(K, l, c, t, pc)
  BY OwnsIs
<1> QED
  BY DEF Claimed, FewerFrames

\* The loops of a level.
LEMMA LoopsSame ==
    ASSUME NEW K, NEW J, NEW l, SameFrames(K, J, l)
    PROVE  SameWindows(K, J, l) /\ SameFors(K, J, l)
<1>1. LoopsOf(J, l) = LoopsOf(K, l)
  BY DEF LoopsOf, LoopAt, SameFrames, FewerFrames
<1>2. SameWindows(K, J, l)
  BY <1>1 DEF SameWindows, SameFrames, FewerFrames
<1>3. SameFors(K, J, l)
  BY DEF SameFors, SameFrames, FewerFrames
<1> QED
  BY <1>2, <1>3

\* Windows stay with the lists of breaks.
LEMMA InLoopsSame ==
    ASSUME NEW K, NEW J, NEW l, NEW c, NEW d, NEW s \in Int, NEW r \in Int, r <= s, InLoops(K, l, c, s),
           Len(c.breaks) \in Nat, c.in_loop \in Int,
           d.breaks = c.breaks, d.owed = c.owed, d.in_loop = c.in_loop,
           SameWindows(K, J, l),
           \A o \in c.owed : o.loop \in DOMAIN J /\ J[o.loop].comp = l
    PROVE  InLoops(J, l, d, r)
<1> SUFFICES ASSUME NoDrops PROVE InLoops(J, l, d, r)
  BY DEF InLoops
<1>1. d.in_loop = Cardinality(LoopsOf(J, l))
  BY DEF InLoops, SameWindows
<1>2. Len(d.breaks) + r <= MaxStats /\ d.in_loop + r <= MaxStats
  <2>1. Len(c.breaks) + s <= MaxStats /\ c.in_loop + s <= MaxStats /\ c.in_loop \in Int
    BY DEF InLoops
  <2> QED
    BY <2>1, ScriptAssumption
<1>3. ASSUME NEW o \in c.owed PROVE \E i \in DOMAIN c.breaks : InWindow(J, l, d, o, i)
  <2>1. PICK i \in DOMAIN c.breaks : InWindow(K, l, c, o, i)
    BY DEF InLoops
  <2>2. J[o.loop].sbreaks = K[o.loop].sbreaks
    BY DEF SameWindows
  <2>3. \A n \in DOMAIN J : LoopAt(J, l, n) => n \in DOMAIN K /\ LoopAt(K, l, n) /\ J[n].sbreaks = K[n].sbreaks
    BY DEF SameWindows, LoopAt, LoopsOf
  <2>4. InWindow(J, l, d, o, i)
    BY <2>1, <2>2, <2>3 DEF InWindow
  <2> QED
    BY <2>4
<1> QED
  BY <1>1, <1>2, <1>3 DEF InLoops

\* The instructions of loops stay matched when others are changed and added.
LEMMA PairedSame ==
    ASSUME NEW K, NEW J, NEW l, NEW c, NEW d, Paired(K, l, c), Reworked(c, d), SameFors(K, J, l)
    PROVE  Paired(J, l, d)
<1>1. \A i : \A op \in {"FORPREP", "FORLOOP", "TFORPREP", "TFORCALL"} : OpAt(c, i, op) => OpAt(d, i, op)
  BY DEF OpAt, Reworked
<1>2. \A i : \A k \in {"fornum", "forin"} : Begun(K, l, k, i) => Begun(J, l, k, i)
  BY DEF Begun, SameFors
<1>3. ASSUME heap # "full", NEW i \in DOMAIN d.code PROVE Matched(J, l, d, i)
  <2>1. CASE d.code[i].op \notin Looping
    BY <2>1 DEF Matched, Looping
  <2>2. CASE d.code[i].op \in Looping
    <3>1. i \in DOMAIN c.code /\ d.code[i] = c.code[i]
      BY <2>2 DEF Reworked, Looping
    <3>2. Matched(K, l, c, i)
      BY <1>3, <3>1 DEF Paired
    <3> QED
      BY <1>1, <1>2, <3>1, <3>2 DEF Matched
  <2> QED
    BY <2>1, <2>2
<1>4. \A n \in DOMAIN J : J[n].comp = l => Prepared(J[n], d)
  <2> SUFFICES ASSUME NEW n \in DOMAIN J, J[n].comp = l, J[n].k \in {"fornum", "forin"}
               PROVE  Prepared(J[n], d)
    BY DEF Prepared
  <2>1. Prepared(K[n], c) /\ J[n].k = K[n].k /\ J[n].prep = K[n].prep /\ J[n].top = K[n].top
    BY DEF Paired, SameFors
  <2> QED
    BY <1>1, <2>1 DEF Prepared
<1> QED
  BY <1>3, <1>4 DEF Paired

\* Plain code is no loop's.
LEMMA CodedReworked ==
    ASSUME NEW c, CompOK(c), NEW d, CompOK(d), Coded(c, d)
    PROVE  Reworked(c, d)
<1>1. DOMAIN c.code = 1 .. Len(c.code) /\ DOMAIN d.code = 1 .. Len(d.code) /\ Len(c.code) \in Nat /\ Len(d.code) \in Nat
  BY CodeIs
<1> QED
  BY <1>1 DEF Coded, Plain, Reworked

\* Plain code and the same frames keep a level.
LEMMA LevelSame ==
    ASSUME NEW K, NEW J, NEW l, NEW c, NEW d, NEW s \in Int, NEW r \in Int, r <= s, Level(K, l, c, s),
           CompOK(d), Coded(c, d), SameFrames(K, J, l),
           \A o \in c.owed : o.loop \in DOMAIN J /\ J[o.loop].comp = l
    PROVE  Level(J, l, d, r)
<1>1. /\ CompOK(c) /\ Len(c.breaks) \in Nat /\ Len(c.code) \in Nat /\ Len(d.code) \in Nat
      /\ Len(c.code) <= Len(d.code)
  BY CodeIs, LensNat DEF Level, Traced, Coded
<1>2. d.breaks = c.breaks /\ d.gotos = c.gotos /\ d.owed = c.owed /\ d.in_loop = c.in_loop
  BY DEF Coded
<1>3. Traced(d, Owns(J, l, d))
  <2>1. Traced(d, Owns(K, l, c))
    BY <1>1, CodedLonger, LongerTraced DEF Level
  <2> QED
    BY <1>2, <2>1, OwnsLess, FewerTraced DEF SameFrames
<1>4. Marks(J, l, d)
  BY <1>1 DEF Marks, Level, SameFrames, FewerFrames
<1>5. InLoops(J, l, d, r)
  <2>1. SameWindows(K, J, l)
    BY LoopsSame
  <2>2. InLoops(K, l, c, s) /\ c.in_loop \in Int
    BY <1>1 DEF Level, CompOK, Comp
  <2> QED
    BY <1>1, <1>2, <2>1, <2>2, InLoopsSame
<1>6. Paired(J, l, d)
  <2>1. Reworked(c, d)
    BY <1>1, CodedReworked
  <2> QED
    BY <2>1, LoopsSame, PairedSame DEF Level
<1> QED
  BY <1>3, <1>4, <1>5, <1>6 DEF Level

-----------------------------------------------------------------------------
(* The invariant of branches *)

\* No branch of a finished function leaves its code.
JumpsFine(c) ==
    \A i \in DOMAIN c.code :
        LET instr == c.code[i]
            pc    == i - 1
        IN  /\ instr.op = "JMP" => Target(pc, instr) \in 0 .. Len(c.code) - 1
            /\ instr.op = "FORPREP" => c.code[pc + 1 + instr.b + 1].op = "FORLOOP"
            /\ instr.op = "TFORPREP" => c.code[pc + 1 + instr.b + 1].op = "TFORCALL"
            /\ instr.op = "FORLOOP" => c.code[pc + 1 - instr.b].op = "FORPREP"
            /\ instr.op = "TFORLOOP" => c.code[pc + 1 - instr.b].op = "TFORPREP"

\* The branches of a finished function.
Settled(c) == GotosSound(c) /\ LandsSound(c) /\ JumpsFine(c)

\* The invariant of branches: of the functions being compiled, and of the last one
\* that is finished.
BInv ==
    /\ \A l \in DOMAIN fs : Level(ctl, l, fs[l], stats)
    /\ \A i \in DOMAIN final : Settled(final[i])

\* Levels of the next state.
LEMMA NextLevels ==
    ASSUME NEW K, NEW F, NEW s, \A l \in DOMAIN F : Level(K, l, F[l], s),
           ctl' = K, fs' = F, stats' = s, heap' = heap
    PROVE  (\A l \in DOMAIN fs : Level(ctl, l, fs[l], stats))'
BY DEF Level, Traced, CompOK, Whole, Unnoticed, Paired, Prepared

\* Frames below the innermost function's are the same.
SameBelow(K, J, t) == \A l \in Nat : l # t => SameFrames(K, J, l)

\* A frame is pushed.
LEMMA PushBelow ==
    ASSUME NEW K, K \in Seq(FrameT), NEW f \in FrameT
    PROVE  /\ SameBelow(K, Append(K, f), f.comp)
           /\ Len(Append(K, f)) = Len(K) + 1 /\ DOMAIN Append(K, f) = 1 .. Len(K) + 1
           /\ DOMAIN K = 1 .. Len(K) /\ Len(K) \in Nat
           /\ \A n \in DOMAIN K : Append(K, f)[n] = K[n]
           /\ Append(K, f)[Len(K) + 1] = f
<1>1. /\ Len(Append(K, f)) = Len(K) + 1 /\ DOMAIN Append(K, f) = 1 .. Len(K) + 1
      /\ DOMAIN K = 1 .. Len(K) /\ Len(K) \in Nat
      /\ \A n \in DOMAIN K : Append(K, f)[n] = K[n]
      /\ Append(K, f)[Len(K) + 1] = f
  BY AppendIs
<1>2. SameBelow(K, Append(K, f), f.comp)
  BY <1>1 DEF SameBelow, SameFrames, FewerFrames
<1> QED
  BY <1>1, <1>2

\* A frame is popped.
LEMMA PopBelow ==
    ASSUME NEW K, K \in Seq(FrameT), K # <<>>
    PROVE  /\ SameBelow(K, Front(K), K[Len(K)].comp)
           /\ DOMAIN Front(K) = 1 .. Len(K) - 1 /\ DOMAIN K = 1 .. Len(K) /\ Len(K) \in Nat \ {0}
           /\ \A n \in DOMAIN Front(K) : n \in DOMAIN K /\ Front(K)[n] = K[n]
           /\ \A n \in DOMAIN K : n # Len(K) => n \in DOMAIN Front(K)
           /\ \A l : FewerFrames(K, Front(K), l)
<1>0. Len(K) \in Nat \ {0}
  BY EmptySeq
<1>1. /\ DOMAIN Front(K) = 1 .. Len(K) - 1 /\ DOMAIN K = 1 .. Len(K)
      /\ \A n \in 1 .. Len(K) - 1 : Front(K)[n] = K[n]
  BY FrontIs
<1>2. /\ \A n \in DOMAIN Front(K) : n \in DOMAIN K /\ Front(K)[n] = K[n]
      /\ \A n \in DOMAIN K : n # Len(K) => n \in DOMAIN Front(K)
  BY <1>0, <1>1
<1>3. \A l : FewerFrames(K, Front(K), l)
  BY <1>2 DEF FewerFrames
<1>4. SameBelow(K, Front(K), K[Len(K)].comp)
  <2>1. ASSUME NEW l \in Nat, l # K[Len(K)].comp PROVE FewerFrames(Front(K), K, l)
    BY <1>2, <2>1 DEF FewerFrames
  <2> QED
    BY <1>3, <2>1 DEF SameBelow, SameFrames
<1> QED
  BY <1>0, <1>1, <1>2, <1>3, <1>4

\* The innermost frame is replaced.
LEMMA SwapBelow ==
    ASSUME NEW K, K \in Seq(FrameT), K # <<>>, NEW f, f.comp = K[Len(K)].comp,
           NEW J, J = [K EXCEPT ![Len(K)] = f]
    PROVE  /\ SameBelow(K, J, f.comp)
           /\ DOMAIN J = DOMAIN K /\ Len(K) \in DOMAIN K
           /\ J[Len(K)] = f /\ \A n \in DOMAIN K : n # Len(K) => J[n] = K[n]
<1>1. Len(K) \in DOMAIN K
  BY EmptySeq
<1>2. DOMAIN J = DOMAIN K /\ J[Len(K)] = f /\ \A n \in DOMAIN K : n # Len(K) => J[n] = K[n]
  BY <1>1
<1>3. SameBelow(K, J, f.comp)
  BY <1>1, <1>2 DEF SameBelow, SameFrames, FewerFrames
<1> QED
  BY <1>1, <1>2, <1>3

\* No frame has changed.
LEMMA SameRefl == ASSUME NEW K, NEW l PROVE SameFrames(K, K, l)
BY DEF SameFrames, FewerFrames

\* The functions around the innermost one have only got more code.
BelowKept(F, G) ==
    /\ FsType(G)
    /\ Len(G) = Len(F)
    /\ \A l \in DOMAIN F : l # Len(F) => Kept(F[l], G[l])

\* Plain code added to every function is plain code added to the outer ones.
LEMMA KeptBelow == ASSUME NEW F, NEW G, FsKept(F, G) PROVE BelowKept(F, G)
BY DEF FsKept, FsOK, BelowKept

\* Whatever becomes of the innermost one.
LEMMA OnBelow ==
    ASSUME NEW F, FsType(F), NEW c, CompOK(c)
    PROVE  BelowKept(F, On(F, c))
BY OnIs, KeptRefl DEF BelowKept, FsType

\* One change after another.
LEMMA BelowTrans ==
    ASSUME NEW F, FsType(F), NEW G, NEW H, BelowKept(F, G), FsKept(G, H)
    PROVE  BelowKept(F, H)
<1>1. DOMAIN F = 1 .. Len(F) /\ DOMAIN G = 1 .. Len(G) /\ Len(G) = Len(F) /\ Len(H) = Len(G) /\ FsType(H)
  BY TopIs DEF FsKept, FsOK, BelowKept
<1>2. \A l \in DOMAIN F : l # Len(F) => CompOK(F[l]) /\ Kept(F[l], G[l]) /\ Kept(G[l], H[l])
  BY <1>1 DEF FsKept, FsType, BelowKept
<1>3. \A l \in DOMAIN F : l # Len(F) => Kept(F[l], H[l])
  BY <1>2, KeptTrans
<1> QED
  BY <1>1, <1>3 DEF BelowKept

\* What an action must show when it leaves the innermost function as d.
LEMMA LevelsNext ==
    ASSUME IInv, BInv, NEW F, BelowKept(fs, F), NEW d, CompOK(d),
           NEW J, SameBelow(ctl, J, Len(fs)), NEW r \in Int, r <= stats,
           Level(J, Len(fs), d, r),
           fs' = On(F, d), ctl' = J, stats' = r, heap' = heap, final' = final
    PROVE  BInv'
<1> DEFINE G == On(F, d)
           t == Len(fs)
<1>1. FsOK(fs) /\ CtlOK(ctl, fs) /\ FsType(F) /\ Len(F) = t /\ stats \in Int
  BY ScriptAssumption DEF IInv, BelowKept
<1>2. /\ DOMAIN G = DOMAIN F /\ G[t] = d /\ \A l \in DOMAIN F : l # t => G[l] = F[l]
  BY <1>1, OnIs
<1>3. DOMAIN F = 1 .. t /\ DOMAIN fs = 1 .. t /\ t \in Nat
  BY <1>1, TopIs DEF FsOK
<1> HIDE DEF G, t
<1>4. ASSUME NEW l \in DOMAIN G, l # t PROVE Level(J, l, G[l], r)
  <2>1. l \in DOMAIN fs /\ l \in Nat /\ G[l] = F[l]
    BY <1>2, <1>3, <1>4
  <2>2. Level(ctl, l, fs[l], stats)
    BY <2>1 DEF BInv
  <2>3. CompOK(F[l]) /\ Coded(fs[l], F[l])
    BY <1>2, <1>3, <1>4, <2>1 DEF BelowKept, Kept, t
  <2>4. SameFrames(ctl, J, l)
    BY <1>4, <2>1 DEF SameBelow, t
  <2>5. ASSUME NEW o \in fs[l].owed PROVE o.loop \in DOMAIN J /\ J[o.loop].comp = l
    <3>1. OwedFits(ctl, l, o)
      BY <1>1, <2>1 DEF CtlOK
    <3> QED
      BY <2>4, <3>1 DEF OwedFits, SameFrames, FewerFrames
  <2> QED
    BY <1>1, <2>1, <2>2, <2>3, <2>4, <2>5, LevelSame
<1>5. \A l \in DOMAIN G : Level(J, l, G[l], r)
  BY <1>2, <1>4 DEF t
<1>6. (\A l \in DOMAIN fs : Level(ctl, l, fs[l], stats))'
  BY <1>5, NextLevels DEF G
<1>7. (\A i \in DOMAIN final : Settled(final[i]))'
  BY DEF BInv, Settled, GotosSound, LandsSound, JumpsFine
<1> QED
  BY <1>6, <1>7 DEF BInv

\* The open loops of a function as it counts them once f is open.
LoopCount(c, f) == IF f.k \in LoopKinds THEN (c.in_loop + 1) % U8 ELSE c.in_loop

\* The frame f, which a statement pushes once its function has become d.
Pushable(c, d, f) ==
    /\ f \in FrameT
    /\ f.ends = <<>>
    /\ f.sbreaks = Len(c.breaks)
    /\ f.jf = NoJump \/ (JmpAt(d, f.jf) /\ f.jf >= Len(c.code))
    /\ f.k \in {"while", "repeat"} => f.top \in 0 .. Len(d.code)
    /\ f.k = "fornum" => "fornum" \in Kinds
    /\ NoDrops => d.in_loop = LoopCount(c, f)
    /\ f.k \in {"repeat", "forin"} => f.jf = NoJump
    /\ Prepared(f, d)
    /\ heap # "full" =>
          \A i \in DOMAIN d.code : i > Len(c.code) /\ d.code[i].op \in Looping =>
                /\ f.prep = i - 1
                /\ \/ f.k = "fornum" /\ d.code[i].op = "FORPREP"
                   \/ f.k = "forin" /\ d.code[i].op = "TFORPREP"

\* The loops of a level are finitely many.
LEMMA LoopsFinite ==
    ASSUME NEW K, K \in Seq(FrameT), NEW l
    PROVE  IsFiniteSet(LoopsOf(K, l)) /\ LoopsOf(K, l) \subseteq 1 .. Len(K)
<1>1. LoopsOf(K, l) \subseteq 1 .. Len(K) /\ IsFiniteSet(1 .. Len(K))
  <2>1. DOMAIN K = 1 .. Len(K) /\ Len(K) \in Nat
    OBVIOUS
  <2> QED
    BY <2>1, FS_Interval DEF LoopsOf
<1> QED
  BY <1>1, FS_Subset

\* A count below the number of statements does not wrap, when no break is dropped.
LEMMA CountFits ==
    ASSUME NoDrops, NEW n \in Nat, NEW s \in Nat, n + s <= MaxStats
    PROVE  n % U8 = n /\ (s > 0 => (n + 1) % U8 = n + 1)
<1>1. n \in Reg /\ (s > 0 => n + 1 \in Reg)
  BY ScriptAssumption, CompAssumption DEF NoDrops, Reg
<1> QED
  BY <1>1, WrapSmall

\* A block is opened.
LEMMA LevelPush ==
    ASSUME NEW K, K \in Seq(FrameT), NEW l, NEW c, NEW s \in Nat, NEW r \in Nat, r < s, Level(K, l, c, s),
           NEW d, Longer(c, d), d.breaks = c.breaks, d.owed = c.owed,
           NEW f, f.comp = l, Pushable(c, d, f),
           \A o \in c.owed : o.loop \in DOMAIN K
    PROVE  Level(Append(K, f), l, d, r)
<1> DEFINE J == Append(K, f)
           n == Len(K) + 1
<1>1. /\ Len(K) \in Nat /\ n = Len(K) + 1 /\ DOMAIN J = 1 .. n /\ DOMAIN K = 1 .. Len(K)
      /\ J[n] = f /\ \A i \in DOMAIN K : J[i] = K[i]
  BY PushBelow DEF Pushable
<1>2. /\ CompOK(c) /\ CompOK(d) /\ Len(c.breaks) \in Nat /\ c.breaks \in Seq(Int)
      /\ Len(c.code) \in Nat /\ Len(d.code) \in Nat /\ Len(c.code) <= Len(d.code)
      /\ DOMAIN c.code = 1 .. Len(c.code) /\ DOMAIN d.code = 1 .. Len(d.code)
      /\ DOMAIN c.breaks = 1 .. Len(c.breaks)
  BY CodeIs, LensNat DEF Level, Traced, Longer
<1>a. LoopsOf(J, l) = LoopsOf(K, l) \cup (IF f.k \in LoopKinds THEN {n} ELSE {}) /\ n \notin LoopsOf(K, l)
  BY <1>1 DEF LoopsOf, LoopAt
<1> HIDE DEF J, n
<1>3. Traced(d, Owns(J, l, d))
  <2>1. ASSUME NEW t \in Tags, NEW pc \in Nat, <<t, pc>> \in Owns(J, l, d)
        PROVE  <<t, pc>> \in Owns(K, l, c) \/ (t = <<"cond", n>> /\ pc = f.jf)
    <3>1. Claimed(J, l, d, t, pc)
      BY <2>1, OwnsIs
    <3>2. t = <<t[1], t[2]>>
      BY DEF Tags
    <3>3. d.breaks = c.breaks /\ d.gotos = c.gotos /\ f.ends = <<>>
      BY DEF Longer, Pushable
    <3>4. DOMAIN f.ends = {}
      <4>1. \A z : z = <<>> => DOMAIN z = {}
        OBVIOUS
      <4> QED
        BY <3>3, <4>1
    <3>5. Claimed(K, l, c, t, pc) \/ (t[1] = "cond" /\ t[2] = n /\ pc = f.jf)
      BY <1>1, <3>1, <3>3, <3>4 DEF Claimed
    <3> QED
      BY <3>2, <3>5, OwnsIs
  <2>2. CASE f.jf = NoJump
    <3>1. \A pc \in Nat : pc # f.jf
      BY <2>2 DEF NoJump
    <3> QED
      BY <2>1, <3>1, LongerTraced, FewerTraced DEF Level
  <2>3. CASE f.jf # NoJump
    <3>1. JmpAt(d, f.jf) /\ f.jf >= Len(c.code) /\ f.jf \in Nat
      BY <2>3 DEF Pushable, JmpAt
    <3>2. <<"cond", n>> \in Tags
      BY <1>1 DEF Tags
    <3>3. Traced(c, Owns(K, l, c))
      BY DEF Level
    <3> DEFINE jf == f.jf
               tag == <<"cond", n>>
    <3>4. jf \in Nat /\ tag \in Tags /\ JmpAt(d, jf) /\ jf >= Len(c.code)
          /\ \A u \in Tags, p \in Nat : <<u, p>> \in Owns(J, l, d) => <<u, p>> \in Owns(K, l, c) \/ (u = tag /\ p = jf)
      BY <2>1, <3>1, <3>2
    <3> HIDE DEF jf, tag
    <3> QED
      BY <3>3, <3>4, ClaimTraced
  <2> QED
    BY <2>2, <2>3
<1>4. Marks(J, l, d)
  <2> SUFFICES ASSUME NEW m \in DOMAIN J, J[m].comp = l
               PROVE  /\ J[m].jf \in Nat \cup {NoJump}
                      /\ \A i \in DOMAIN J[m].ends : J[m].ends[i] \in Nat \cup {NoJump}
                      /\ J[m].k \in {"while", "repeat"} => J[m].top \in 0 .. Len(d.code)
                      /\ J[m].k = "fornum" => "fornum" \in Kinds
                      /\ J[m].k \in {"repeat", "forin"} => J[m].jf = NoJump
    BY DEF Marks
  <2>1. CASE m \in DOMAIN K
    BY <1>1, <1>2, <2>1, SMTT(30) DEF Level, Marks
  <2>2. CASE m = n
    <3>1. \A z : z = <<>> => DOMAIN z = {}
      OBVIOUS
    <3> QED
      BY <1>1, <2>2, <3>1 DEF Pushable, JmpAt
  <2> QED
    BY <1>1, <2>1, <2>2
<1>5. InLoops(J, l, d, r)
  <2> SUFFICES ASSUME NoDrops PROVE InLoops(J, l, d, r)
    BY DEF InLoops
  <2>1. d.in_loop = Cardinality(LoopsOf(J, l)) /\ d.in_loop + r <= MaxStats
    <3>1. IsFiniteSet(LoopsOf(K, l)) /\ Cardinality(LoopsOf(K, l)) \in Nat
      BY LoopsFinite, FS_CardinalityType
    <3>2. c.in_loop = Cardinality(LoopsOf(K, l)) /\ c.in_loop + s <= MaxStats /\ c.in_loop \in Nat
      BY <3>1 DEF Level, InLoops
    <3>3. CASE f.k \in LoopKinds
      <4>1. Cardinality(LoopsOf(J, l)) = Cardinality(LoopsOf(K, l)) + 1
        <5>1. LoopsOf(J, l) = LoopsOf(K, l) \cup {n} /\ n \notin LoopsOf(K, l)
          BY <1>a, <3>3
        <5> QED
          BY <3>1, <5>1, FS_AddElement
      <4>2. d.in_loop = (c.in_loop + 1) % U8
        BY <3>3 DEF Pushable, LoopCount
      <4>3. (c.in_loop + 1) % U8 = c.in_loop + 1
        BY <3>2, CountFits
      <4> QED
        BY <3>2, <4>1, <4>2, <4>3, ScriptAssumption
    <3>4. CASE f.k \notin LoopKinds
      <4>1. LoopsOf(J, l) = LoopsOf(K, l)
        BY <1>a, <3>4
      <4>2. d.in_loop = c.in_loop
        BY <3>4 DEF Pushable, LoopCount
      <4> QED
        BY <3>1, <3>2, <4>1, <4>2, ScriptAssumption
    <3> QED
      BY <3>3, <3>4
  <2>2. Len(d.breaks) + r <= MaxStats
    <3>1. Len(c.breaks) + s <= MaxStats
      BY DEF Level, InLoops
    <3> QED
      BY <1>2, <3>1, ScriptAssumption
  <2>3. ASSUME NEW o \in c.owed PROVE \E i \in DOMAIN c.breaks : InWindow(J, l, d, o, i)
    <3>1. PICK i \in DOMAIN c.breaks : InWindow(K, l, c, o, i)
      BY DEF Level, InLoops
    <3>2. J[o.loop].sbreaks = K[o.loop].sbreaks
      BY <1>1
    <3>3. ASSUME NEW m \in DOMAIN J, LoopAt(J, l, m), m > o.loop PROVE i <= J[m].sbreaks
      <4>1. CASE m = n
        BY <1>1, <1>2, <4>1 DEF Pushable
      <4>2. CASE m \in DOMAIN K
        BY <1>1, <3>1, <3>3, <4>2 DEF InWindow, LoopAt
      <4> QED
        BY <1>1, <4>1, <4>2
    <3>4. InWindow(J, l, d, o, i)
      BY <3>1, <3>2, <3>3 DEF InWindow
    <3> QED
      BY <3>4
  <2> QED
    BY <2>1, <2>2, <2>3 DEF InLoops
<1>6. Paired(J, l, d)
  <2>0. Paired(K, l, c)
    BY DEF Level
  <2>1. \A i : \A op : OpAt(c, i, op) => OpAt(d, i, op)
    BY <1>2 DEF OpAt, Longer
  <2>2. \A i : \A k : Begun(K, l, k, i) => Begun(J, l, k, i)
    BY <1>1 DEF Begun
  <2>3. ASSUME heap # "full", NEW i \in DOMAIN d.code PROVE Matched(J, l, d, i)
    <3>1. CASE i \in DOMAIN c.code
      <4>1. Matched(K, l, c, i) /\ d.code[i] = c.code[i]
        BY <2>0, <2>3, <3>1 DEF Paired, Longer
      <4> QED
        BY <2>1, <2>2, <4>1 DEF Matched
    <3>2. CASE i \notin DOMAIN c.code /\ d.code[i].op \notin Looping
      BY <3>2 DEF Matched, Looping
    <3>3. CASE i \notin DOMAIN c.code /\ d.code[i].op \in Looping
      <4>1. i > Len(c.code)
        BY <1>2, <3>3
      <4>2. /\ f.prep = i - 1
            /\ \/ f.k = "fornum" /\ d.code[i].op = "FORPREP"
               \/ f.k = "forin" /\ d.code[i].op = "TFORPREP"
        BY <2>3, <3>3, <4>1 DEF Pushable
      <4>3. Begun(J, l, f.k, i)
        BY <1>1, <4>2 DEF Begun
      <4> QED
        BY <4>2, <4>3 DEF Matched
    <3> QED
      BY <3>1, <3>2, <3>3
  <2>4. ASSUME NEW m \in DOMAIN J, J[m].comp = l PROVE Prepared(J[m], d)
    <3>1. CASE m \in DOMAIN K
      <4>1. Prepared(K[m], c) /\ J[m] = K[m]
        BY <1>1, <2>0, <2>4, <3>1 DEF Paired
      <4> QED
        BY <2>1, <4>1 DEF Prepared
    <3>2. CASE m = n
      BY <1>1, <3>2 DEF Pushable
    <3> QED
      BY <1>1, <3>1, <3>2
  <2> QED
    BY <2>3, <2>4 DEF Paired
<1> QED
  BY <1>3, <1>4, <1>5, <1>6 DEF Level, J

\* A loop ends, and its breaks are dropped.
LEMMA InLoopsPop ==
    ASSUME NEW K, K \in Seq(FrameT), K # <<>>, NEW l, NEW c, CompOK(c), NEW s \in Nat, InLoops(K, l, c, s),
           NEW f, f = K[Len(K)], f.comp = l, f.k \in LoopKinds, f.sbreaks <= Len(c.breaks),
           \A o \in c.owed : OwedFits(K, l, o),
           NEW d, d.breaks = OuterBreaks(c, f), d.in_loop = (c.in_loop - 1) % U8,
           d.owed = {o \in c.owed : o.loop # Len(K)}
    PROVE  InLoops(Front(K), l, d, s)
<1> DEFINE J == Front(K)
           n == Len(K)
<1>1. /\ DOMAIN J = 1 .. n - 1 /\ DOMAIN K = 1 .. n /\ n \in Nat \ {0}
      /\ \A i \in DOMAIN J : i \in DOMAIN K /\ J[i] = K[i]
      /\ \A i \in DOMAIN K : i # n => i \in DOMAIN J
  BY PopBelow
<1>2. LoopsOf(J, l) = LoopsOf(K, l) \ {n} /\ n \in LoopsOf(K, l)
  BY <1>1 DEF LoopsOf, LoopAt
<1>3. /\ Len(d.breaks) = f.sbreaks /\ Len(c.breaks) \in Nat /\ f.sbreaks \in Nat
      /\ DOMAIN d.breaks = 1 .. f.sbreaks /\ DOMAIN c.breaks = 1 .. Len(c.breaks)
      /\ \A i \in 1 .. f.sbreaks : d.breaks[i] = c.breaks[i]
  <2>1. c.breaks \in Seq(Int) /\ Len(c.breaks) \in Nat
    BY LensNat
  <2>2. f.sbreaks \in Nat
    <3>1. f \in FrameT
      BY <1>1
    <3> QED
      BY <3>1 DEF FrameT
  <2> DEFINE m == f.sbreaks
  <2>3. m \in Nat /\ m <= Len(c.breaks) /\ d.breaks = SubSeq(c.breaks, 1, m)
    BY <2>2 DEF OuterBreaks
  <2> HIDE DEF m
  <2>4. /\ SubSeq(c.breaks, 1, m) \in Seq(Int) /\ Len(SubSeq(c.breaks, 1, m)) = m
        /\ \A i \in 1 .. m : SubSeq(c.breaks, 1, m)[i] = c.breaks[i]
    BY <2>1, <2>3, PrefixIs
  <2>5. DOMAIN SubSeq(c.breaks, 1, m) = 1 .. m
    BY <2>3, <2>4
  <2> QED
    BY <2>1, <2>3, <2>4, <2>5 DEF m
<1> HIDE DEF J, n
<1> SUFFICES ASSUME NoDrops PROVE InLoops(J, l, d, s)
  BY DEF InLoops, J
<1>4. d.in_loop = Cardinality(LoopsOf(J, l)) /\ d.in_loop + s <= MaxStats
  <2>1. IsFiniteSet(LoopsOf(K, l)) /\ c.in_loop = Cardinality(LoopsOf(K, l)) /\ c.in_loop + s <= MaxStats
    BY LoopsFinite DEF InLoops
  <2>2. Cardinality(LoopsOf(J, l)) = Cardinality(LoopsOf(K, l)) - 1 /\ IsFiniteSet(LoopsOf(J, l))
    BY <1>2, <2>1, FS_RemoveElement, FS_Subset
  <2>3. Cardinality(LoopsOf(J, l)) \in Nat
    BY <2>2, FS_CardinalityType
  <2> DEFINE k == Cardinality(LoopsOf(J, l))
  <2>a. Cardinality(LoopsOf(K, l)) = k + 1
    <3>1. Cardinality(LoopsOf(K, l)) \in Nat
      BY <2>1, FS_CardinalityType
    <3> QED
      BY <2>2, <2>3, <3>1
  <2>b. k \in Nat /\ k = Cardinality(LoopsOf(J, l))
    BY <2>3
  <2> HIDE DEF k
  <2>c. c.in_loop = k + 1 /\ c.in_loop + s <= MaxStats
    BY <2>1, <2>a
  <2>d. c.in_loop - 1 = k /\ k + s <= MaxStats
    BY <2>b, <2>c, ScriptAssumption
  <2>4. k \in Nat /\ d.in_loop = k % U8 /\ k + s <= MaxStats
    BY <2>b, <2>d
  <2>5. k % U8 = k
    BY <2>4, CountFits
  <2> QED
    BY <2>b, <2>4, <2>5
<1>5. Len(d.breaks) + s <= MaxStats
  <2>1. Len(c.breaks) + s <= MaxStats
    BY DEF InLoops
  <2> QED
    BY <1>3, <2>1, ScriptAssumption
<1>6. ASSUME NEW o \in d.owed PROVE \E i \in DOMAIN d.breaks : InWindow(J, l, d, o, i)
  <2>1. PICK i \in DOMAIN c.breaks : InWindow(K, l, c, o, i)
    BY DEF InLoops
  <2>2. o \in c.owed /\ o.loop # n /\ OwedFits(K, l, o)
    BY DEF n
  <2>3. o.loop \in DOMAIN J /\ J[o.loop] = K[o.loop] /\ n > o.loop
    BY <1>1, <2>2 DEF OwedFits
  <2>4. i <= f.sbreaks
    <3>1. LoopAt(K, l, n) /\ n \in DOMAIN K /\ K[n] = f
      BY <1>1 DEF LoopAt, n
    <3> QED
      BY <2>1, <2>3, <3>1 DEF InWindow
  <2>5. i \in DOMAIN d.breaks /\ d.breaks[i] = c.breaks[i]
    BY <1>3, <2>4
  <2>6. \A m \in DOMAIN J : LoopAt(J, l, m) => m \in DOMAIN K /\ LoopAt(K, l, m) /\ J[m].sbreaks = K[m].sbreaks
    BY <1>1 DEF LoopAt
  <2>7. InWindow(J, l, d, o, i)
    BY <2>1, <2>3, <2>5, <2>6 DEF InWindow
  <2> QED
    BY <2>5, <2>7
<1> QED
  BY <1>4, <1>5, <1>6 DEF InLoops

\* A loop's own breaks.
LEMMA OwnIs ==
    ASSUME NEW c, CompOK(c), NEW f, f.sbreaks \in Nat, NEW pc
    PROVE  pc \in ToSet(OwnBreaks(c, f)) <=> \E i \in DOMAIN c.breaks : i > f.sbreaks /\ c.breaks[i] = pc
<1> DEFINE n == f.sbreaks
           m == Len(c.breaks)
           b == SubSeq(c.breaks, n + 1, m)
<1>1. c.breaks \in Seq(Int) /\ m \in Nat /\ n \in Nat /\ DOMAIN c.breaks = 1 .. m
  BY LensNat
<1>2. ToSet(OwnBreaks(c, f)) = {b[i] : i \in DOMAIN b}
  BY DEF ToSet, OwnBreaks
<1> HIDE DEF n, m
<1>3. b = [i \in 1 .. (IF n + 1 <= m THEN m - n ELSE 0) |-> c.breaks[i + n]]
  <2>1. n + 1 \in Int /\ m \in Int
    BY <1>1
  <2> QED
    BY <1>1
<1>4. /\ DOMAIN b = 1 .. (IF n + 1 <= m THEN m - n ELSE 0)
      /\ \A i \in DOMAIN b : b[i] = c.breaks[i + n]
  <2> HIDE DEF b
  <2> QED
    BY <1>3
<1> HIDE DEF b
<1>5. ASSUME NEW i \in DOMAIN b PROVE i + n \in DOMAIN c.breaks /\ i + n > n /\ c.breaks[i + n] = b[i]
  BY <1>1, <1>4, SMTT(30)
<1>6. ASSUME NEW i \in DOMAIN c.breaks, i > n PROVE i - n \in DOMAIN b /\ b[i - n] = c.breaks[i]
  <2>1. i - n \in 1 .. m - n /\ (i - n) + n = i /\ n + 1 <= m
    BY <1>1, <1>6
  <2>2. i - n \in DOMAIN b
    BY <1>1, <1>4, <2>1
  <2> QED
    BY <1>4, <2>1, <2>2
<1> QED
  BY <1>2, <1>5, <1>6 DEF n

\* Where the breaks and the condition of a loop are meant to land.
LoopLands(c, f) == {[pc |-> pc, at |-> FuncLen(c)] : pc \in Owed(c) \cup Real(f.jf)}

\* What the end of a loop makes of its function, whose breaks have been patched in d.
ClosedAs(c, f, d, r) ==
    /\ r.code = d.code /\ r.labels = c.labels /\ r.gotos = c.gotos /\ r.jumps = c.jumps
    /\ r.lands = c.lands \cup LoopLands(c, f)
    /\ r.breaks = OuterBreaks(c, f) /\ r.in_loop = (c.in_loop - 1) % U8
    /\ r.owed = {o \in c.owed : o.loop # Len(ctl)}

\* The fields of a function whose loop has ended.
LEMMA CloseIs ==
    ASSUME NEW c, CompOK(c), NEW f,
           NEW d, d = PatchAll(c, ToSet(OwnBreaks(c, f)), FuncLen(c))
    PROVE  ClosedAs(c, f, d, CloseLoop(c, f))
<1> DEFINE S   == ToSet(OwnBreaks(c, f))
           pcs == Owed(c) \cup Real(f.jf)
           g   == Lands(d, pcs)
           b   == OuterBreaks(c, f)
           r   == CloseLoop(c, f)
           code == [i \in DOMAIN c.code |-> IF i - 1 \in S THEN Jump(FuncLen(c) - i) ELSE c.code[i]]
<1>1. d = [c EXCEPT !.code = code] /\ c \in Comp
  BY DEF PatchAll, CompOK
<1>2. r = [g EXCEPT !.breaks = b, !.in_loop = (@ - 1) % U8, !.owed = {o \in @ : o.loop # Len(ctl)}]
  BY DEF CloseLoop
<1>3. FuncLen(d) = FuncLen(c)
  <2>1. Len(d.code) = Len(c.code)
    <3>1. FuncLen(c) \in Int
      BY RegInt
    <3> HIDE DEF S
    <3>2. d = PatchAll(c, S, FuncLen(c))
      BY DEF S
    <3> QED
      BY <3>1, <3>2, PatchCode
  <2> QED
    BY <2>1 DEF FuncLen
<1>4. g = [d EXCEPT !.lands = @ \cup {[pc |-> pc, at |-> FuncLen(c)] : pc \in pcs}]
  BY <1>3 DEF Lands
<1> DEFINE T == {[pc |-> pc, at |-> FuncLen(c)] : pc \in pcs}
<1> HIDE DEF S, pcs, g, b, code, T, r
<1>5. /\ d.labels = c.labels /\ d.gotos = c.gotos /\ d.jumps = c.jumps /\ d.lands = c.lands
      /\ d.owed = c.owed /\ d.in_loop = c.in_loop
      /\ g = [d EXCEPT !.lands = @ \cup T]
      /\ g.code = d.code /\ g.labels = c.labels /\ g.gotos = c.gotos /\ g.jumps = c.jumps
      /\ g.lands = c.lands \cup T /\ g.owed = c.owed /\ g.in_loop = c.in_loop
  BY <1>1, <1>4 DEF Comp, T
<1>6. DOMAIN g = DOMAIN c /\ {"code", "labels", "gotos", "jumps", "lands", "breaks", "in_loop", "owed"} \subseteq DOMAIN g
  BY <1>1, <1>5 DEF Comp
<1>7. /\ r.code = g.code /\ r.labels = g.labels /\ r.gotos = g.gotos /\ r.jumps = g.jumps /\ r.lands = g.lands
      /\ r.breaks = b /\ r.in_loop = (g.in_loop - 1) % U8 /\ r.owed = {o \in g.owed : o.loop # Len(ctl)}
  BY <1>2, <1>6
<1> QED
  BY <1>5, <1>7 DEF T, b, pcs, r, LoopLands, ClosedAs

\* What the end of a loop needs to know of what waits: O, and when it is over P.
Closable(c, f, n, O, P) ==
    /\ \A i \in DOMAIN c.breaks : c.breaks[i] \in Nat => <<<<"break", i>>, c.breaks[i]>> \in O
    /\ f.jf = NoJump \/ (f.jf \in Nat /\ <<<<"cond", n>>, f.jf>> \in O /\ Goes(c, f.jf) = FuncLen(c))
    /\ NoDrops => \A pc \in Owed(c) : \E i \in DOMAIN c.breaks : i > f.sbreaks /\ c.breaks[i] = pc /\ pc \in Nat
    /\ \A t \in Tags, pc \in Nat : <<t, pc>> \in P => <<t, pc>> \in O
    /\ \A pc \in Nat : <<<<"cond", n>>, pc>> \notin P
    /\ \A i \in DOMAIN c.breaks, pc \in Nat : i > f.sbreaks => <<<<"break", i>>, pc>> \notin P

\* The end of a loop.
LEMMA CloseTraced ==
    ASSUME NEW c, NEW O, Traced(c, O), NEW f, f.sbreaks \in Nat, NEW n \in Nat, NEW P, Closable(c, f, n, O, P),
           NEW r, r = CloseLoop(c, f), CompOK(r)
    PROVE  /\ Traced(r, P) /\ Reworked(c, r) /\ Len(r.code) = Len(c.code)
           /\ \A t \in Tags, pc \in Nat : <<t, pc>> \in O /\ t[1] # "break" => Goes(r, pc) = Goes(c, pc)
<1> DEFINE S  == ToSet(OwnBreaks(c, f))
           d  == PatchAll(c, S, FuncLen(c))
           T  == LoopLands(c, f)
<1>1. /\ CompOK(c) /\ FuncLen(c) = Len(c.code) /\ Len(c.code) \in Nat /\ DOMAIN c.code = 1 .. Len(c.code)
      /\ DOMAIN c.breaks = 1 .. Len(c.breaks) /\ Len(c.breaks) \in Nat
  BY CodeIs, LensNat DEF Traced
<1>2. /\ r.code = d.code /\ r.labels = c.labels /\ r.gotos = c.gotos /\ r.jumps = c.jumps
      /\ r.lands = c.lands \cup T
  <2> DEFINE e == d
  <2>1. e = PatchAll(c, ToSet(OwnBreaks(c, f)), FuncLen(c))
    OBVIOUS
  <2> HIDE DEF e
  <2>2. ClosedAs(c, f, e, CloseLoop(c, f))
    BY <1>1, <2>1, CloseIs
  <2> QED
    BY <2>2 DEF e, ClosedAs
<1>3. \A pc : pc \in S <=> \E i \in DOMAIN c.breaks : i > f.sbreaks /\ c.breaks[i] = pc
  BY <1>1, OwnIs
<1> HIDE DEF S
<1>4. ASSUME NEW pc \in S, pc \in Nat
      PROVE  \E t \in Tags : <<t, pc>> \in O /\ <<t, pc>> \notin P /\ t[1] = "break"
  <2>1. PICK i \in DOMAIN c.breaks : i > f.sbreaks /\ c.breaks[i] = pc
    BY <1>3, <1>4
  <2>2. <<"break", i>> \in Tags /\ i \in Nat
    BY <1>1 DEF Tags
  <2>3. <<<<"break", i>>, pc>> \in O /\ <<<<"break", i>>, pc>> \notin P
    BY <1>4, <2>1 DEF Closable
  <2> QED
    BY <2>2, <2>3
<1>5. /\ Traced(d, O)
      /\ \A pc \in Nat : JmpAt(c, pc) => Goes(d, pc) = IF pc \in S THEN FuncLen(c) ELSE Goes(c, pc)
  <2>1. FuncLen(c) \in 0 .. Len(c.code)
    BY <1>1
  <2>2. \A pc \in S : pc \in Nat => \E t \in Tags : <<t, pc>> \in O
    BY <1>4
  <2> DEFINE e == PatchAll(c, S, FuncLen(c))
             at == FuncLen(c)
  <2>3. e = PatchAll(c, S, at) /\ at \in 0 .. Len(c.code)
    BY <2>1
  <2> HIDE DEF e, at
  <2>4. /\ Traced(e, O)
        /\ \A pc \in Nat : JmpAt(c, pc) => Goes(e, pc) = IF pc \in S THEN at ELSE Goes(c, pc)
    BY <2>2, <2>3, PatchTraced, SMTT(30)
  <2> QED
    BY <2>4 DEF e, at
<1>6. /\ Len(d.code) = Len(c.code) /\ DOMAIN d.code = DOMAIN c.code
      /\ d.labels = c.labels /\ d.gotos = c.gotos /\ d.lands = c.lands /\ d.jumps = c.jumps
      /\ \A i \in DOMAIN c.code : d.code[i] = IF i - 1 \in S THEN Jump(FuncLen(c) - i) ELSE c.code[i]
  BY <1>1, PatchCode
<1> HIDE DEF d
<1>7. \A pc : Goes(r, pc) = Goes(d, pc)
  BY <1>2 DEF Goes
<1>8. NoDrops => \A x \in T : /\ x.pc \in Nat /\ Goes(d, x.pc) = x.at
                               /\ \E t \in Tags : <<t, x.pc>> \in O /\ <<t, x.pc>> \notin P
  <2> SUFFICES ASSUME NoDrops, NEW x \in T
               PROVE  /\ x.pc \in Nat /\ Goes(d, x.pc) = x.at
                      /\ \E t \in Tags : <<t, x.pc>> \in O /\ <<t, x.pc>> \notin P
    OBVIOUS
  <2>1. PICK pc \in Owed(c) \cup Real(f.jf) : x = [pc |-> pc, at |-> FuncLen(c)]
    BY DEF LoopLands
  <2>2. x.pc = pc /\ x.at = FuncLen(c)
    BY <2>1
  <2>3. ASSUME pc \in S, pc \in Nat PROVE Goes(d, pc) = FuncLen(c)
    <3>1. JmpAt(c, pc)
      BY <1>4, <2>3 DEF Traced, Apart
    <3> QED
      BY <1>5, <2>3, <3>1
  <2>4. CASE pc \in Owed(c)
    <3>1. pc \in S /\ pc \in Nat
      BY <1>3, <2>4 DEF Closable
    <3> QED
      BY <1>4, <2>2, <2>3, <3>1
  <2>5. CASE pc \in Real(f.jf)
    <3>1. pc = f.jf /\ f.jf # NoJump
      BY <2>5 DEF Real
    <3>2. pc \in Nat /\ <<<<"cond", n>>, pc>> \in O /\ Goes(c, pc) = FuncLen(c) /\ <<<<"cond", n>>, pc>> \notin P
      BY <3>1 DEF Closable
    <3>3. <<"cond", n>> \in Tags
      BY DEF Tags
    <3>4. JmpAt(c, pc)
      BY <3>2, <3>3 DEF Traced, Apart
    <3>5. Goes(d, pc) = FuncLen(c)
      BY <1>5, <3>2, <3>4
    <3> QED
      BY <2>2, <3>2, <3>3, <3>5
  <2> QED
    BY <2>1, <2>4, <2>5
<1>9. Traced(r, P)
  <2>1. SameCode(d, r) /\ r.lands = d.lands \cup T
    BY <1>2, <1>6 DEF SameCode
  <2>2. \A t \in Tags, pc \in Nat : <<t, pc>> \in P => <<t, pc>> \in O
    BY DEF Closable
  <2> HIDE DEF T
  <2> QED
    BY <1>5, <1>8, <2>1, <2>2, LandTraced
<1>10. Reworked(c, r)
  <2> SUFFICES ASSUME NEW i \in DOMAIN c.code
               PROVE  d.code[i] = c.code[i] \/ (c.code[i].op = "JMP" /\ d.code[i].op = "JMP")
    BY <1>2, <1>6 DEF Reworked
  <2>1. CASE i - 1 \notin S
    BY <1>6, <2>1
  <2>2. CASE i - 1 \in S
    <3>1. i - 1 \in Nat /\ (i - 1) + 1 = i
      BY <1>1
    <3>2. JmpAt(c, i - 1)
      BY <1>4, <2>2, <3>1 DEF Traced, Apart
    <3>3. c.code[i].op = "JMP"
      BY <3>1, <3>2 DEF JmpAt
    <3>4. \A z : Jump(z).op = "JMP"
      BY DEF Jump, Instr
    <3>5. d.code[i].op = "JMP"
      BY <1>6, <2>2, <3>4
    <3> QED
      BY <3>3, <3>5
  <2> QED
    BY <2>1, <2>2
<1>11. ASSUME NEW t \in Tags, NEW pc \in Nat, <<t, pc>> \in O, t[1] # "break"
       PROVE  Goes(r, pc) = Goes(c, pc)
  <2>1. JmpAt(c, pc)
    BY <1>11 DEF Traced, Apart
  <2>2. pc \notin S
    <3> SUFFICES ASSUME pc \in S PROVE FALSE
      OBVIOUS
    <3>1. PICK u \in Tags : <<u, pc>> \in O /\ u[1] = "break"
      BY <1>4
    <3>2. u = t
      BY <1>11, <3>1 DEF Traced, Apart
    <3> QED
      BY <1>11, <3>1, <3>2
  <2> QED
    BY <1>5, <1>7, <2>1, <2>2
<1> QED
  BY <1>2, <1>6, <1>9, <1>10, <1>11

-----------------------------------------------------------------------------
(* What the helpers of statements leave of the branches *)

\* A function whose code and lists are the same has added nothing.
LEMMA SameCoded ==
    ASSUME NEW c, CompOK(c), NEW d, d.code = c.code,
           d.breaks = c.breaks, d.in_loop = c.in_loop, d.labels = c.labels, d.gotos = c.gotos,
           d.owed = c.owed, d.lands = c.lands, d.jumps = c.jumps
    PROVE  Coded(c, d)
BY CodeIs DEF Coded

\* What code two steps add.
LEMMA CodedOn ==
    ASSUME NEW c, NEW d, NEW e, CompOK(c), CompOK(d), CompOK(e), Coded(c, d), Coded(d, e)
    PROVE  Coded(c, e)
BY CodeIs, CodedTrans

\* What only adds code adds plain code.
LEMMA AddedCoded == ASSUME NEW c, NEW d, Added(c, d) PROVE CompOK(d) /\ Coded(c, d)
BY DEF Added, Kept

\* The end of a block touches no code.
LEMMA BlockCoded ==
    ASSUME NEW c, CompOK(c), NEW saved
    PROVE  Coded(c, LeaveBlock(c, saved))
<1> DEFINE d == LeaveBlock(c, saved)
<1>1. c \in Comp /\ d = [c EXCEPT !.nactive = saved, !.freereg = saved]
  BY DEF CompOK, LeaveBlock
<1> HIDE DEF d
<1>2. /\ d.code = c.code /\ d.breaks = c.breaks /\ d.in_loop = c.in_loop /\ d.labels = c.labels
      /\ d.gotos = c.gotos /\ d.owed = c.owed /\ d.lands = c.lands /\ d.jumps = c.jumps
  BY <1>1 DEF Comp
<1> QED
  BY <1>2, SameCoded DEF d

\* A declaration touches no code.
LEMMA NewLocalCoded ==
    ASSUME NEW c, CompOK(c), NEW name, NEW reg
    PROVE  Coded(c, NewLocal(c, name, reg))
<1> DEFINE l      == Local(name, reg % U8, "none")
           locals == IF c.nactive < Len(c.locals) THEN [c.locals EXCEPT ![c.nactive + 1] = l]
                     ELSE Append(c.locals, l)
           n      == (c.nactive + 1) % U8
           d      == NewLocal(c, name, reg)
<1>1. c \in Comp /\ d = [c EXCEPT !.locals = locals, !.nactive = n]
  BY DEF CompOK, NewLocal
<1> HIDE DEF l, locals, n, d
<1>2. /\ d.code = c.code /\ d.breaks = c.breaks /\ d.in_loop = c.in_loop /\ d.labels = c.labels
      /\ d.gotos = c.gotos /\ d.owed = c.owed /\ d.lands = c.lands /\ d.jumps = c.jumps
  BY <1>1 DEF Comp
<1> QED
  BY <1>2, SameCoded DEF d

\* Nor do several.
LEMMA DeclareCoded ==
    ASSUME NEW c, CompOK(c), NEW names \in Seq(Names \cup {ForState}), NEW base \in Int
    PROVE  CompOK(DeclareAll(c, names, base)) /\ Coded(c, DeclareAll(c, names, base))
<1> DEFINE d(k) == DeclareSteps(c, names, base)[k]
           Good == {k \in Nat : k <= Len(names) => CompOK(d(k)) /\ Coded(c, d(k))}
<1>1. 0 \in Good
  <2>1. d(0) = c
    BY DeclareStepsAre
  <2>2. Coded(c, c)
    BY SameCoded
  <2> HIDE DEF d
  <2> QED
    BY <2>1, <2>2
<1>2. ASSUME NEW k \in Nat, k \in Good PROVE k + 1 \in Good
  <2> SUFFICES ASSUME k + 1 <= Len(names) PROVE CompOK(d(k + 1)) /\ Coded(c, d(k + 1))
    OBVIOUS
  <2> DEFINE a == d(k)
             b == d(k + 1)
  <2>1. CompOK(a) /\ Coded(c, a) /\ names[k + 1] \in Names \cup {ForState} /\ base + k \in Int
    BY <1>2
  <2>2. b = NewLocal(a, names[k + 1], base + k)
    BY DeclareStepsAre
  <2> HIDE DEF a, b
  <2>3. Coded(a, b)
    BY <2>1, <2>2, NewLocalCoded
  <2>4. CompOK(b)
    BY <2>1, <2>2, NewLocalIs DEF Moved
  <2>5. Coded(c, b)
    BY <2>1, <2>3, <2>4, CodedOn
  <2> QED
    BY <2>4, <2>5 DEF b
<1>3. \A k \in Nat : k \in Good
  <2> HIDE DEF Good
  <2> QED
    BY <1>1, <1>2, ExpRun!Induct
<1>4. Len(names) \in Nat
  OBVIOUS
<1> QED
  BY <1>3, <1>4 DEF DeclareAll

\* The attributes of a local add plain code.
LEMMA AttribsCoded ==
    ASSUME NEW c, CompOK(c), NEW attrib \in Attrs, attrib = "none" \/ c.nactive # 0
    PROVE  CompOK(Attribs(c, attrib)) /\ Coded(c, Attribs(c, attrib))
<1>0. CompOK(Attribs(c, attrib))
  BY AttribsMoved DEF Moved
<1>1. CASE attrib = "none"
  <2>1. Attribs(c, attrib) = c
    BY <1>1 DEF Attribs
  <2> QED
    BY <1>0, <2>1, SameCoded
<1>2. CASE attrib # "none"
  <2> DEFINE n      == c.nactive
             locals == [c.locals EXCEPT ![n].attrib = attrib]
             d      == [c EXCEPT !.locals[n].attrib = attrib]
             i      == Instr("TBC", d.locals[d.nactive].reg, 0, 0)
             e      == Emit(d, i)
             g      == [e EXCEPT !.has_tbc = TRUE]
  <2>1. /\ c \in Comp /\ n \in DOMAIN c.locals /\ c.locals \in Seq(LocalVar)
        /\ c.locals[n] \in LocalVar /\ n <= Len(c.locals)
    <3>1. c \in Comp /\ c.locals \in Seq(LocalVar) /\ n \in Nat /\ n <= Len(c.locals)
      BY RegInt DEF CompOK, Comp
    <3> QED
      BY <1>2, <3>1
  <2>2. [c.locals[n] EXCEPT !.attrib = attrib] \in LocalVar
    BY <2>1 DEF LocalVar
  <2>3. locals \in Seq(LocalVar) /\ Len(locals) = Len(c.locals) /\ locals[n] \in LocalVar
    BY <2>1, <2>2
  <2>4. d = [c EXCEPT !.locals = locals]
    BY <2>1 DEF Comp
  <2> HIDE DEF n, locals, d, i
  <2>5. d \in Comp
    BY <2>1, <2>3, <2>4 DEF Comp
  <2>6. /\ d.locals = locals /\ d.nactive = n /\ d.breaks = c.breaks
        /\ d.lost = c.lost /\ d.error = c.error
        /\ d.code = c.code /\ d.in_loop = c.in_loop /\ d.labels = c.labels
        /\ d.gotos = c.gotos /\ d.owed = c.owed /\ d.lands = c.lands /\ d.jumps = c.jumps
    BY <2>1, <2>4 DEF Comp, n
  <2>7. CompOK(d) /\ Coded(c, d)
    <3>1. CompOK(d)
      BY <2>1, <2>3, <2>5, <2>6 DEF CompOK, Whole
    <3> QED
      BY <2>6, <3>1, SameCoded
  <2>8. i \in Plains
    <3>1. locals[n].reg \in Reg
      BY <2>3 DEF LocalVar
    <3>2. d.locals[d.nactive].reg \in Int
      BY <2>6, <3>1 DEF Reg
    <3> QED
      BY <3>2, PlainInstr DEF i, PlainOps
  <2>9. CompOK(e) /\ Coded(d, e)
    BY <2>7, <2>8, EmitAdded, AddedCoded
  <2>10. Coded(c, e)
    BY <2>7, <2>9, CodedOn
  <2> HIDE DEF e
  <2>11. /\ g.code = e.code /\ g.breaks = e.breaks /\ g.in_loop = e.in_loop /\ g.labels = e.labels
         /\ g.gotos = e.gotos /\ g.owed = e.owed /\ g.lands = e.lands /\ g.jumps = e.jumps
    BY <2>9 DEF CompOK, Comp
  <2>12. Coded(c, g)
    BY <2>10, <2>11 DEF Coded
  <2>13. Attribs(c, attrib) = IF attrib = "close" THEN g ELSE d
    BY <1>2 DEF Attribs, g, e, i, d, n
  <2> QED
    BY <1>0, <2>7, <2>12, <2>13
<1> QED
  BY <1>1, <1>2

-----------------------------------------------------------------------------
(* The shapes of the actions *)

\* What a statement finds.
LEMMA LevelStart ==
    ASSUME IInv, BInv
    PROVE  /\ Level(ctl, Len(fs), Top, stats)
           /\ ctl \in Seq(FrameT) /\ ctl # <<>> /\ stats \in Int /\ stats \in Nat
           /\ Open = ctl[Len(ctl)] /\ Open.comp = Len(fs) /\ Open \in FrameT
           /\ Len(fs) \in Nat /\ Len(ctl) \in Nat \ {0} /\ Len(ctl) \in DOMAIN ctl
           /\ \A o \in Top.owed : OwedFits(ctl, Len(fs), o)
           /\ CtlOK(ctl, fs) /\ FsOK(fs) /\ FsKept(fs, fs)
           /\ Top = TopOf(fs) /\ CompOK(Top)
<1>1. CtlOK(ctl, fs) /\ FsOK(fs) /\ stats \in Int /\ stats \in Nat
  BY ScriptAssumption DEF IInv
<1>2. Len(fs) \in DOMAIN fs /\ Top = fs[Len(fs)] /\ Len(fs) \in Nat /\ Top = TopOf(fs) /\ CompOK(Top)
  BY <1>1, TopIs DEF FsOK, Top
<1>3. Level(ctl, Len(fs), Top, stats)
  BY <1>2 DEF BInv
<1>4. \A o \in Top.owed : OwedFits(ctl, Len(fs), o)
  BY <1>1, <1>2 DEF CtlOK
<1>5. ctl \in Seq(FrameT) /\ ctl # <<>> /\ Open = ctl[Len(ctl)] /\ Open.comp = Len(fs)
  BY <1>1 DEF CtlOK, Open
<1>6. Len(ctl) \in Nat \ {0} /\ Len(ctl) \in DOMAIN ctl /\ Open \in FrameT
  BY <1>1, <1>5, OpenIs
<1> QED
  BY <1>1, <1>2, <1>3, <1>4, <1>5, <1>6, FsKeptRefl

\* Only what is left to choose has changed.
LEMMA StillLevels ==
    ASSUME IInv, BInv, stats' \in Int, stats' <= stats, UNCHANGED <<fs, ctl, heap, final>>
    PROVE  BInv'
<1> DEFINE r == stats'
<1>1. CtlOK(ctl, fs) /\ FsOK(fs) /\ stats \in Int
  BY LevelStart
<1>2. ASSUME NEW l \in DOMAIN fs PROVE Level(ctl, l, fs[l], r)
  <2>1. CompOK(fs[l]) /\ \A o \in fs[l].owed : OwedFits(ctl, l, o)
    BY <1>1 DEF CtlOK, FsOK, FsType
  <2>2. Coded(fs[l], fs[l])
    BY <2>1, SameCoded
  <2>3. Level(ctl, l, fs[l], stats) /\ SameFrames(ctl, ctl, l)
    BY SameRefl DEF BInv
  <2>4. r \in Int /\ r <= stats
    OBVIOUS
  <2> HIDE DEF r
  <2> QED
    BY <1>1, <2>1, <2>2, <2>3, <2>4, LevelSame DEF OwedFits
<1>3. (\A l \in DOMAIN fs : Level(ctl, l, fs[l], stats))'
  BY <1>2, NextLevels
<1>4. (\A i \in DOMAIN final : Settled(final[i]))'
  BY DEF BInv, Settled, GotosSound, LandsSound, JumpsFine
<1> QED
  BY <1>3, <1>4 DEF BInv

\* A statement that is refused leaves the functions alone.
LEMMA RefuseLevels == ASSUME IInv, BInv, Refuse PROVE BInv'
<1>1. stats' \in Int /\ stats' <= stats /\ UNCHANGED <<fs, ctl, heap, final>>
  BY ScriptAssumption DEF IInv, Refuse
<1> QED
  BY <1>1, StillLevels

\* So does the write outside the code at which the model stops.
LEMMA WildLevels == ASSUME IInv, BInv, GoWild PROVE BInv'
<1>1. stats' \in Int /\ stats' <= stats /\ UNCHANGED <<fs, ctl, heap, final>>
  BY ScriptAssumption DEF IInv, GoWild
<1> QED
  BY <1>1, StillLevels

\* The innermost function is set twice.
LEMMA OnOn ==
    ASSUME NEW F, FsType(F), NEW c, CompOK(c), NEW d, CompOK(d)
    PROVE  On(On(F, c), d) = On(F, d) /\ TopOf(On(F, c)) = c
<1>1. F \in Seq(Comp) /\ Len(F) \in DOMAIN F /\ c \in Comp /\ d \in Comp
  BY TopIs DEF FsType, CompOK
<1>2. Len([F EXCEPT ![Len(F)] = c]) = Len(F)
  BY <1>1
<1> QED
  BY <1>1, <1>2, OnIs DEF On

\* freereg is set back at the end of a statement.
LEMMA EndLevel ==
    ASSUME NEW K, NEW l, NEW c, NEW s \in Int, Level(K, l, c, s), CompOK(c), \A o \in c.owed : OwedFits(K, l, o)
    PROVE  CompOK(EndStat(c)) /\ Level(K, l, EndStat(c), s)
<1>1. CompOK(EndStat(c)) /\ Coded(c, EndStat(c))
  BY EndMoved, AddedCoded
<1> QED
  BY <1>1, SameRefl, LevelSame DEF OwedFits

\* A statement that opens no block.
LEMMA SimpleLevels ==
    ASSUME IInv, BInv, NEW F, FsKept(fs, F), NEW c, CompOK(c), Level(ctl, Len(fs), c, stats - 1),
           \A o \in c.owed : OwedFits(ctl, Len(fs), o), Simple(On(F, c))
    PROVE  BInv'
<1> DEFINE e == EndStat(c)
           r == stats - 1
<1>1. FsType(F) /\ stats \in Int /\ r \in Int /\ r <= stats
  BY LevelStart DEF FsKept, FsOK
<1>2. CompOK(e) /\ Level(ctl, Len(fs), e, r)
  BY <1>1, EndLevel
<1>3. On(On(F, c), EndStat(TopOf(On(F, c)))) = On(F, e)
  BY <1>1, <1>2, OnOn
<1>4. fs' = On(F, e) /\ stats' = r /\ UNCHANGED <<ctl, heap, final>>
  BY <1>3 DEF Simple
<1>5. SameBelow(ctl, ctl, Len(fs))
  BY SameRefl DEF SameBelow
<1> HIDE DEF e, r
<1> QED
  BY <1>1, <1>2, <1>4, <1>5, KeptBelow, LevelsNext

\* One that adds plain code.
LEMMA CodedSimple ==
    ASSUME IInv, BInv, stats > 0, NEW F, FsKept(fs, F), NEW c, CompOK(c), Coded(TopOf(F), c), Simple(On(F, c))
    PROVE  BInv'
<1> DEFINE r == stats - 1
<1>1. /\ Level(ctl, Len(fs), Top, stats) /\ stats \in Int /\ r \in Int /\ r <= stats
      /\ \A o \in Top.owed : OwedFits(ctl, Len(fs), o)
      /\ FsOK(fs) /\ Top = TopOf(fs) /\ CompOK(Top)
  BY LevelStart
<1>2. CompOK(TopOf(F)) /\ Coded(Top, TopOf(F))
  BY <1>1, FsKeptTop DEF Kept
<1>3. Coded(Top, c)
  BY <1>1, <1>2, CodedOn
<1>4. c.owed = Top.owed
  BY <1>3 DEF Coded
<1> HIDE DEF r
<1>5. Level(ctl, Len(fs), c, r)
  BY <1>1, <1>3, SameRefl, LevelSame DEF OwedFits
<1> QED
  BY <1>1, <1>4, <1>5, SimpleLevels DEF r

\* A statement that opens a block.
LEMMA EnterLevels ==
    ASSUME IInv, BInv, NEW F, BelowKept(fs, F), NEW d, CompOK(d), Longer(Top, d),
           d.breaks = Top.breaks, d.owed = Top.owed,
           NEW f, f.comp = Len(fs), Pushable(Top, d, f), Enter(On(F, d), f), stats > 0
    PROVE  BInv'
<1> DEFINE r == stats - 1
           J == Append(ctl, f)
<1>1. /\ Level(ctl, Len(fs), Top, stats) /\ stats \in Nat /\ r \in Nat /\ r < stats /\ r \in Int /\ r <= stats
      /\ \A o \in Top.owed : OwedFits(ctl, Len(fs), o)
      /\ ctl \in Seq(FrameT) /\ f \in FrameT
  BY LevelStart DEF Pushable
<1>2. SameBelow(ctl, J, Len(fs))
  BY <1>1, PushBelow
<1>3. fs' = On(F, d) /\ ctl' = J /\ stats' = r /\ UNCHANGED <<heap, final>>
  BY DEF Enter
<1> HIDE DEF r
<1>4. Level(J, Len(fs), d, r)
  BY <1>1, LevelPush DEF OwedFits
<1> HIDE DEF J
<1> QED
  BY <1>1, <1>2, <1>3, <1>4, LevelsNext

\* A handler that finishes, without its block.
LEMMA EndedLevels ==
    ASSUME IInv, BInv, NEW F, BelowKept(fs, F), NEW d, CompOK(d), Level(Front(ctl), Len(fs), d, stats),
           fs' = On(F, d), ctl' = Front(ctl), UNCHANGED <<heap, stats, final>>
    PROVE  BInv'
<1> DEFINE J == Front(ctl)
<1>1. /\ stats \in Int /\ stats <= stats /\ ctl \in Seq(FrameT) /\ ctl # <<>> /\ ctl[Len(ctl)].comp = Len(fs)
  BY LevelStart
<1>2. SameBelow(ctl, J, Len(fs))
  BY <1>1, PopBelow
<1>3. ctl' = J /\ stats' = stats
  OBVIOUS
<1> HIDE DEF J
<1>4. Level(J, Len(fs), d, stats)
  BY DEF J
<1> QED
  BY <1>1, <1>2, <1>3, <1>4, LevelsNext

\* A handler that finishes with its block.
LEMMA LeaveLevels ==
    ASSUME IInv, BInv, NEW c, Ended(fs, c), Level(Front(ctl), Len(fs), c, stats), Leave(c)
    PROVE  BInv'
<1> DEFINE J == Front(ctl)
<1>1. /\ stats \in Int /\ ctl \in Seq(FrameT) /\ ctl # <<>> /\ FsKept(fs, fs) /\ Top = TopOf(fs)
      /\ \A o \in Top.owed : OwedFits(ctl, Len(fs), o)
  BY LevelStart
<1>2. \A n \in DOMAIN ctl : n # Len(ctl) => n \in DOMAIN J /\ J[n] = ctl[n]
  BY <1>1, PopBelow
<1>3. CompOK(c) /\ \A o \in c.owed : OwedFits(J, Len(fs), o)
  BY <1>1, <1>2 DEF Ended, OwedFits
<1>4. CompOK(EndStat(c)) /\ Level(J, Len(fs), EndStat(c), stats)
  <2> HIDE DEF J
  <2>1. Level(J, Len(fs), c, stats)
    BY DEF J
  <2> QED
    BY <1>1, <1>3, <2>1, EndLevel
<1>5. fs' = On(fs, EndStat(c)) /\ ctl' = J /\ UNCHANGED <<heap, stats, final>>
  BY DEF Leave
<1> QED
  BY <1>1, <1>4, <1>5, KeptBelow, EndedLevels

-----------------------------------------------------------------------------
(* Every action keeps the branches *)

\* A statement that only adds plain code to its function.
LEMMA KeptSimple ==
    ASSUME IInv, BInv, stats > 0, NEW F, FsKept(fs, F), Simple(F)
    PROVE  BInv'
<1> DEFINE c == TopOf(F)
<1>1. FsOK(fs) /\ FsType(F)
  BY LevelStart DEF FsKept, FsOK
<1>2. CompOK(c)
  BY <1>1, TopIs
<1>3. On(F, c) = F
  <2>1. F \in Seq(Comp) /\ Len(F) \in DOMAIN F
    BY <1>1, TopIs DEF FsType
  <2> QED
    BY <2>1 DEF On, TopOf
<1>4. Coded(TopOf(F), c)
  BY <1>2, SameCoded
<1> HIDE DEF c
<1>5. Simple(On(F, c))
  BY <1>3
<1> QED
  BY <1>2, <1>4, <1>5, CodedSimple

\* A call adds plain code.
LEMMA CallLevels ==
    ASSUME IInv, BInv, CallStat
    PROVE  BInv'
<1>1. FsOK(fs) /\ stats > 0
  BY StartIs DEF CallStat, CanStart
<1>2. Call \in Values
  BY DEF Values
<1>3. FsKept(fs, Exp(fs, Call, 0))
  BY <1>1, <1>2, ExpKept
<1>4. Refuse \/ Simple(Exp(fs, Call, 0))
  BY DEF CallStat
<1> QED
  BY <1>1, <1>3, <1>4, RefuseLevels, KeptSimple

\* An assignment adds plain code.
LEMMA AssignLevels ==
    ASSUME IInv, BInv, NEW targets \in NameLists, NEW es \in ExpLists, AssignStat(targets, es)
    PROVE  BInv'
<1> DEFINE c    == Top
           base == c.freereg
           n    == Len(targets)
           p    == Produced(es, n)
           F    == Exps(fs, es, WantLast(es, n))
           l    == LoadNil(TopOf(F), base + p, n - p)
           d    == SetFree(l, base + n)
           G    == On(F, d)
           H    == AssignSteps(G, targets, base)[n]
<1>1. targets \in Seq(Names) /\ es \in Seq(Values) /\ n \in Nat /\ p \in Int /\ WantLast(es, n) \in Int
  <2>1. targets \in Seq(Names) /\ es \in Seq(Values)
    BY ScriptAssumption
  <2> QED
    BY <2>1, CountsInt
<1>2. FsOK(fs) /\ base \in Int /\ stats > 0
  BY StartIs DEF AssignStat, CanStart
<1>3. FsKept(fs, F) /\ FsOK(F) /\ CompOK(TopOf(F))
  BY <1>1, <1>2, ExpsKept, FsKeptTop
<1>4. Refuse \/ Simple(H)
  BY DEF AssignStat
<1>n. n = Len(targets)
  OBVIOUS
<1> HIDE DEF c, base, n, p, F
<1>5. Added(TopOf(F), l) /\ CompOK(l)
  <2>1. base + p \in Int /\ n - p \in Int
    BY <1>1, <1>2
  <2>2. Added(TopOf(F), l)
    BY <1>3, <2>1, LoadNilAdded
  <2> QED
    BY <2>2 DEF Added, Kept
<1> HIDE DEF l
<1>6. Added(l, d)
  BY <1>1, <1>2, <1>5, FreeAdded
<1> HIDE DEF d
<1>7. FsKept(F, G) /\ FsOK(G)
  BY <1>3, <1>5, <1>6, AddedTrans, OnKept DEF FsKept
<1> HIDE DEF G
<1>8. FsKept(G, H)
  BY <1>1, <1>2, <1>7, <1>n, AssignStepsKept
<1> HIDE DEF H
<1>9. FsKept(fs, H)
  BY <1>2, <1>3, <1>7, <1>8, FsKeptTrans
<1> QED
  BY <1>2, <1>4, <1>9, RefuseLevels, KeptSimple

\* A declaration of locals adds plain code.
LEMMA LocalLevels ==
    ASSUME IInv, BInv, NEW names \in NameLists, NEW es \in ExpLists, NEW attrib \in Attrs,
           LocalStat(names, es, attrib)
    PROVE  BInv'
<1> DEFINE c == Top
           n == Len(names)
           p == Produced(es, n)
           F == Exps(fs, es, WantLast(es, n))
           l == LoadNil(TopOf(F), c.nactive + p, n - p)
           d == SetFree(l, c.nactive + n)
           e == DeclareAll(d, names, c.nactive)
           a == Attribs(e, attrib)
<1>1. /\ names \in Seq(Names) /\ names \in Seq(Names \cup {ForState}) /\ es \in Seq(Values)
      /\ n \in Nat /\ p \in Int /\ WantLast(es, n) \in Int
  <2>1. names \in Seq(Names) /\ es \in Seq(Values)
    BY ScriptAssumption
  <2> QED
    BY <2>1, CountsInt
<1>2. FsOK(fs) /\ c.nactive \in Int /\ stats > 0
  BY StartIs DEF LocalStat, CanStart
<1>3. FsKept(fs, F) /\ FsOK(F) /\ CompOK(TopOf(F))
  BY <1>1, <1>2, ExpsKept, FsKeptTop
<1>4. Refuse \/ GoWild \/ ((attrib = "none" \/ e.nactive # 0) /\ Simple(On(F, a)))
  BY DEF LocalStat
<1> HIDE DEF c, n, p, F
<1>5. CompOK(l) /\ Coded(TopOf(F), l)
  BY <1>1, <1>2, <1>3, LoadNilAdded, AddedCoded
<1> HIDE DEF l
<1>6. CompOK(d) /\ Coded(l, d)
  <2>1. c.nactive + n \in Int
    BY <1>1, <1>2
  <2>2. Added(l, d)
    BY <1>5, <2>1, FreeAdded
  <2> QED
    BY <2>2, AddedCoded
<1> HIDE DEF d
<1>7. CompOK(e) /\ Coded(d, e)
  BY <1>1, <1>2, <1>6, DeclareCoded
<1> HIDE DEF e
<1>8. ASSUME attrib = "none" \/ e.nactive # 0 PROVE CompOK(a) /\ Coded(TopOf(F), a)
  <2>1. CompOK(a) /\ Coded(e, a)
    BY <1>7, <1>8, AttribsCoded
  <2> HIDE DEF a
  <2>2. Coded(TopOf(F), d)
    BY <1>3, <1>5, <1>6, CodedOn
  <2>3. Coded(TopOf(F), e)
    BY <1>3, <1>6, <1>7, <2>2, CodedOn
  <2> QED
    BY <1>3, <1>7, <2>1, <2>3, CodedOn
<1> HIDE DEF a
<1> QED
  BY <1>2, <1>3, <1>4, <1>8, RefuseLevels, WildLevels, CodedSimple

\* A return adds plain code, and its block is over.
LEMMA ReturnLevels ==
    ASSUME IInv, BInv, NEW es \in ExpLists, ReturnStat(es)
    PROVE  BInv'
<1> DEFINE c == Top
           E == On(fs, SetFree(c, c.nactive))
           F == Exps(E, es, MultRet)
           d == TopOf(F)
           b == IF es # <<>> /\ IsMulti(es[Len(es)]) THEN 0 ELSE Len(es) + 1
           i == IF es = <<>> THEN Instr("RETURN0", c.nactive, 0, 0)
                ELSE Flagged(Instr("RETURN", c.nactive, b, VarargC(d)), d.has_tbc \/ d.has_capture)
           e == Emit(d, i)
           g == EndStat(e)
           K == [ctl EXCEPT ![Len(ctl)].over = TRUE]
<1>1. es \in Seq(Values) /\ MultRet \in Int /\ b \in Int
  BY ScriptAssumption DEF MultRet
<1>2. /\ FsOK(fs) /\ CompOK(c) /\ c = TopOf(fs) /\ c.nactive \in Int
  BY StartIs
<1>3. Refuse \/ (/\ fs' = On(F, g) /\ ctl' = K /\ stats' = stats - 1 /\ UNCHANGED <<heap, phase, final>>)
  BY DEF ReturnStat
<1>4. FsKept(fs, E) /\ FsOK(E)
  BY <1>2, FreeAdded, OnKept DEF FsKept
<1>a. c = Top
  OBVIOUS
<1> HIDE DEF E
<1>5. FsKept(E, F) /\ FsOK(F) /\ CompOK(d)
  BY <1>1, <1>4, ExpsKept, FsKeptTop
<1> HIDE DEF F
<1>6. i \in Plains
  <2>1. VarargC(d) \in Int /\ d.has_tbc \in BOOLEAN /\ d.has_capture \in BOOLEAN
    BY <1>5 DEF VarargC, CompOK, Comp
  <2>2. Instr("RETURN0", c.nactive, 0, 0) \in Plains
    BY <1>2, PlainInstr DEF PlainOps
  <2>3. Instr("RETURN", c.nactive, b, VarargC(d)) \in Plains
    BY <1>1, <1>2, <2>1, PlainInstr DEF PlainOps
  <2>4. \A j \in Plains, k \in BOOLEAN : Flagged(j, k) \in Plains
    BY DEF Flagged, Plains, Plain, Instrs
  <2> HIDE DEF b, c, d
  <2> QED
    BY <2>1, <2>2, <2>3, <2>4
<1> HIDE DEF i, b
<1>7. CompOK(e) /\ Coded(d, e)
  BY <1>5, <1>6, EmitAdded, AddedCoded
<1> HIDE DEF e
<1>8. CompOK(g) /\ Coded(e, g)
  BY <1>7, EndMoved, AddedCoded
<1> HIDE DEF g
<1>9. FsKept(fs, F) /\ Coded(c, d)
  <2>1. FsKept(fs, F)
    BY <1>2, <1>4, <1>5, FsKeptTrans
  <2> QED
    BY <1>2, <2>1, FsKeptTop DEF Kept
<1> HIDE DEF d, c
<1>10. Coded(c, g)
  BY <1>2, <1>5, <1>7, <1>8, <1>9, CodedOn
<1>11. CASE Refuse
  BY <1>11, RefuseLevels
<1>12. CASE fs' = On(F, g) /\ ctl' = K /\ stats' = stats - 1 /\ UNCHANGED <<heap, phase, final>>
  <2> DEFINE f == [ctl[Len(ctl)] EXCEPT !.over = TRUE]
             r == stats - 1
  <2>1. /\ Level(ctl, Len(fs), c, stats) /\ ctl \in Seq(FrameT) /\ ctl # <<>> /\ stats \in Int
        /\ ctl[Len(ctl)].comp = Len(fs) /\ ctl[Len(ctl)] \in FrameT /\ Len(ctl) \in DOMAIN ctl
        /\ \A o \in c.owed : OwedFits(ctl, Len(fs), o)
    BY <1>a, LevelStart
  <2>2. /\ f \in FrameT /\ f.comp = ctl[Len(ctl)].comp /\ f.k = ctl[Len(ctl)].k /\ f.jf = ctl[Len(ctl)].jf
        /\ f.ends = ctl[Len(ctl)].ends /\ f.top = ctl[Len(ctl)].top /\ f.prep = ctl[Len(ctl)].prep
        /\ f.sbreaks = ctl[Len(ctl)].sbreaks
    BY <2>1 DEF FrameT
  <2>3. K = [ctl EXCEPT ![Len(ctl)] = f]
    OBVIOUS
  <2> HIDE DEF f, K
  <2>4. /\ SameBelow(ctl, K, f.comp)
        /\ DOMAIN K = DOMAIN ctl
        /\ K[Len(ctl)] = f /\ \A n \in DOMAIN ctl : n # Len(ctl) => K[n] = ctl[n]
    BY <2>1, <2>2, <2>3, SwapBelow
  <2>5. SameFrames(ctl, K, Len(fs))
    BY <2>1, <2>2, <2>4 DEF SameFrames, FewerFrames
  <2>6. \A o \in c.owed : o.loop \in DOMAIN K /\ K[o.loop].comp = Len(fs)
    BY <2>1, <2>2, <2>4 DEF OwedFits
  <2>7. r \in Int /\ r <= stats /\ fs' = On(F, g) /\ ctl' = K /\ stats' = r /\ heap' = heap /\ final' = final
    BY <1>12, <2>1
  <2> HIDE DEF r
  <2>8. Level(K, Len(fs), g, r)
    BY <1>8, <1>10, <2>1, <2>5, <2>6, <2>7, LevelSame
  <2>9. SameBelow(ctl, K, Len(fs))
    BY <2>1, <2>2, <2>4
  <2> QED
    BY <1>8, <1>9, <2>7, <2>8, <2>9, KeptBelow, LevelsNext
<1> QED
  BY <1>3, <1>11, <1>12

-----------------------------------------------------------------------------
(* Blocks are opened *)

\* The jump of a condition is its last instruction, when there is one.
LEMMA CondIs ==
    ASSUME NEW F, FsOK(F), NEW e \in Values,
           NEW d, d = TopOf(Cond(F, e)), NEW jf, jf = CondJump(F, e)
    PROVE  /\ FsKept(F, Cond(F, e)) /\ CompOK(d) /\ Coded(TopOf(F), d) /\ jf \in Int
           /\ jf = NoJump \/ (JmpAt(d, jf) /\ jf >= Len(TopOf(F).code))
<1> DEFINE c == TopOf(F)
<1>1. /\ FsKept(F, Cond(F, e)) /\ CompOK(d) /\ Coded(c, d) /\ jf \in Int /\ CompOK(c)
  <2>1. FsKept(F, Cond(F, e)) /\ jf \in Int
    BY CondKept
  <2> QED
    BY <2>1, FsKeptTop DEF Kept
<1>2. CASE ExpFails(F, e) \/ heap = "full"
  BY <1>1, <1>2 DEF CondJump
<1>3. CASE ~ ExpFails(F, e) /\ heap # "full"
  <2> DEFINE G  == Exp(F, e, 1)
             i  == Instr("TEST", c.freereg, 0, 0)
             d1 == Emit(TopOf(G), i)
             d2 == SetFree(d1, d1.nactive)
             d3 == Emit(d2, Jump(0))
  <2>1. FsKept(F, G) /\ FsOK(G) /\ CompOK(TopOf(G)) /\ Coded(c, TopOf(G))
    BY ExpKept, FsKeptTop DEF Kept
  <2>2. i \in Plains /\ Jump(0) \in Plains /\ Jump(0) \in Instrs
    BY <1>1, RegInt, PlainInstr, PlainJump DEF PlainOps, Plains
  <2>3. Cond(F, e) = On(G, d3) /\ jf = FuncLen(d) - 1
    BY <1>3 DEF Cond, CondJump
  <2> HIDE DEF i, G, c
  <2>4. CompOK(d1) /\ Coded(TopOf(G), d1)
    BY <2>1, <2>2, EmitAdded, AddedCoded
  <2> HIDE DEF d1
  <2>5. CompOK(d2) /\ Coded(d1, d2)
    <3>1. d1.nactive \in Int
      BY <2>4, RegInt
    <3>2. Added(d1, d2)
      BY <2>4, <3>1, FreeAdded
    <3> QED
      BY <3>2, AddedCoded
  <2> HIDE DEF d2
  <2>6. /\ CompOK(d3) /\ Len(d2.code) \in Nat /\ Len(d3.code) = Len(d2.code) + 1
        /\ DOMAIN d3.code = 1 .. Len(d3.code) /\ d3.code[Len(d2.code) + 1] = Jump(0)
    BY <1>3, <2>2, <2>5, EmitIs
  <2>7. d = d3
    <3>1. FsType(G)
      BY <2>1 DEF FsOK
    <3> HIDE DEF d3
    <3> QED
      BY <2>3, <2>6, <3>1, OnIs
  <2> HIDE DEF d3
  <2>8. Coded(c, d2)
    BY <1>1, <2>1, <2>4, <2>5, CodedOn
  <2>9. jf = Len(d2.code) /\ jf \in Nat /\ jf + 1 \in DOMAIN d.code /\ d.code[jf + 1] = Jump(0)
    BY <2>3, <2>6, <2>7 DEF FuncLen
  <2>10. Len(c.code) <= Len(d2.code)
    BY <2>8 DEF Coded
  <2>11. Jump(0).op = "JMP"
    BY DEF Jump, Instr
  <2> QED
    BY <1>1, <2>9, <2>10, <2>11 DEF JmpAt, c
<1> QED
  BY <1>1, <1>2, <1>3

\* A handler whose own instructions are plain opens its block.
Entered(c, b, f) ==
    /\ CompOK(b)
    /\ b.code = c.code /\ b.breaks = c.breaks /\ b.labels = c.labels /\ b.gotos = c.gotos
    /\ b.owed = c.owed /\ b.lands = c.lands /\ b.jumps = c.jumps
    /\ b.in_loop = LoopCount(c, f)

\* The frame of a handler whose own instructions are plain.
LEMMA PlainPush ==
    ASSUME NEW c, CompOK(c), NEW f \in FrameT, NEW b, Entered(c, b, f), NEW d, CompOK(d), Coded(b, d),
           f.k \in {"if", "do", "while", "repeat"}, f.ends = <<>>, f.sbreaks = Len(c.breaks),
           f.jf = NoJump \/ (JmpAt(d, f.jf) /\ f.jf >= Len(c.code)),
           f.k \in {"while", "repeat"} => f.top = Len(c.code), f.k = "repeat" => f.jf = NoJump
    PROVE  Longer(c, d) /\ d.breaks = c.breaks /\ d.owed = c.owed /\ Pushable(c, d, f)
<1>1. Longer(b, d) /\ CompOK(b)
  BY CodedLonger DEF Entered
<1>2. Longer(c, d) /\ d.breaks = c.breaks /\ d.owed = c.owed /\ d.in_loop = b.in_loop
  BY <1>1 DEF Longer, Entered, Coded
<1>3. /\ Len(c.code) \in Nat /\ Len(d.code) \in Nat /\ Len(c.code) <= Len(d.code)
  BY <1>2, CodeIs DEF Longer
<1>4. \A i \in DOMAIN d.code : i > Len(c.code) => d.code[i].op \notin Looping
  BY DEF Coded, Entered, Plain
<1>5. Prepared(f, d)
  BY DEF Prepared
<1>6. f.k \in {"while", "repeat"} => f.top \in 0 .. Len(d.code)
  BY <1>3
<1> QED
  BY <1>2, <1>4, <1>5, <1>6 DEF Pushable, Entered

\* A function has entered no loop.
LEMMA EnteredSame ==
    ASSUME NEW c, CompOK(c), NEW f, f.k \notin LoopKinds
    PROVE  Entered(c, c, f)
BY CodeIs DEF Entered, LoopCount

\* A function has entered a loop.
LEMMA EnteredLoop ==
    ASSUME NEW F, FsOK(F), NEW f, f.k \in LoopKinds
    PROVE  Entered(TopOf(F), TopOf(InLoop(F)), f) /\ BelowKept(F, InLoop(F)) /\ FsOK(InLoop(F))
<1> DEFINE c == TopOf(F)
           d == [c EXCEPT !.in_loop = (@ + 1) % U8]
<1>1. CompOK(c) /\ c \in Comp /\ c.in_loop \in Int /\ FsType(F)
  <2>1. CompOK(c) /\ FsType(F)
    BY TopIs DEF FsOK
  <2> QED
    BY <2>1 DEF CompOK, Comp
<1>2. d.in_loop = (c.in_loop + 1) % U8 /\ d.code = c.code /\ d.breaks = c.breaks /\ d.labels = c.labels
      /\ d.gotos = c.gotos /\ d.owed = c.owed /\ d.lands = c.lands /\ d.jumps = c.jumps
  BY <1>1 DEF Comp
<1>3. InLoop(F) = On(F, d)
  BY DEF InLoop
<1>4. FsOK(InLoop(F))
  BY InLoopIs
<1>5. TopOf(InLoop(F)) = d
  <2>1. F \in Seq(Comp) /\ Len(F) \in DOMAIN F
    BY <1>1, TopIs DEF FsType
  <2> QED
    BY <1>3, <2>1 DEF On, TopOf
<1>6. CompOK(d)
  BY <1>4, <1>5, TopIs DEF FsOK
<1> HIDE DEF d, c
<1>7. Entered(c, d, f)
  BY <1>2, <1>6 DEF Entered, LoopCount
<1> QED
  BY <1>1, <1>3, <1>4, <1>5, <1>6, <1>7, OnBelow DEF c

\* The fields of a new frame.
LEMMA FrameFields ==
    ASSUME NEW k, NEW c, NEW f, f = Frame(k, c)
    PROVE  /\ f.k = k /\ f.comp = Len(fs) /\ f.sbreaks = Len(c.breaks) /\ f.ends = <<>>
           /\ f.jf = NoJump /\ f.top = 0
BY DEF Frame, NoFrame

\* The innermost function set to itself.
LEMMA OnTop ==
    ASSUME NEW F, FsType(F)
    PROVE  On(F, TopOf(F)) = F
<1>1. F \in Seq(Comp) /\ Len(F) \in DOMAIN F
  BY TopIs DEF FsType
<1> QED
  BY <1>1 DEF On, TopOf

\* The jump of an if waits for its next clause.
LEMMA IfStartLevels ==
    ASSUME IInv, BInv, NEW e \in CondExps, IfStart(e)
    PROVE  BInv'
<1> DEFINE jf == CondJump(fs, e)
           G  == Cond(fs, e)
           d  == TopOf(G)
           g  == Frame("if", Top)
           f  == [g EXCEPT !.jf = jf]
<1>1. /\ FsOK(fs) /\ e \in Values /\ Enter(G, f) /\ CompOK(Top) /\ Top = TopOf(fs) /\ stats > 0
  BY StartIs, ScriptAssumption DEF IfStart, CanStart
<1>2. /\ FsKept(fs, G) /\ CompOK(d) /\ Coded(Top, d) /\ jf \in Int
      /\ jf = NoJump \/ (JmpAt(d, jf) /\ jf >= Len(Top.code))
  BY <1>1, CondIs
<1>3. FrameMade(g, G)
  BY <1>2, StartFrame DEF FrameKinds
<1>4. g.k = "if" /\ g.comp = Len(fs) /\ g.sbreaks = Len(Top.breaks) /\ g.ends = <<>>
  BY FrameFields
<1> HIDE DEF jf, G, g
<1>5. /\ f \in FrameT /\ f.k = "if" /\ f.comp = Len(fs) /\ f.sbreaks = Len(Top.breaks) /\ f.ends = <<>>
      /\ f.jf = jf
  BY <1>2, <1>3, <1>4 DEF FrameMade, FrameT
<1>6. BelowKept(fs, G) /\ On(G, d) = G
  BY <1>2, KeptBelow, OnTop DEF BelowKept
<1> HIDE DEF f, d
<1>7. Entered(Top, Top, f)
  BY <1>1, <1>5, EnteredSame DEF LoopKinds
<1>8. Longer(Top, d) /\ d.breaks = Top.breaks /\ d.owed = Top.owed /\ Pushable(Top, d, f)
  BY <1>1, <1>2, <1>5, <1>7, PlainPush
<1>9. Enter(On(G, d), f)
  BY <1>1, <1>6
<1> QED
  BY <1>1, <1>2, <1>5, <1>6, <1>8, <1>9, EnterLevels

\* A block waits for no jump.
LEMMA DoStartLevels ==
    ASSUME IInv, BInv, DoStart
    PROVE  BInv'
<1> DEFINE f == Frame("do", Top)
<1>1. /\ FsOK(fs) /\ Enter(fs, f) /\ CompOK(Top) /\ Top = TopOf(fs) /\ stats > 0
  BY StartIs DEF DoStart, CanStart
<1>2. FrameMade(f, fs)
  BY <1>1, FsKeptRefl, StartFrame DEF FrameKinds
<1>3. f.k = "do" /\ f.comp = Len(fs) /\ f.sbreaks = Len(Top.breaks) /\ f.ends = <<>> /\ f.jf = NoJump
  BY FrameFields
<1> HIDE DEF f
<1>4. f \in FrameT
  BY <1>2 DEF FrameMade
<1>5. BelowKept(fs, fs) /\ On(fs, Top) = fs
  BY <1>1, FsKeptRefl, KeptBelow, OnTop DEF FsOK
<1>6. Entered(Top, Top, f) /\ Coded(Top, Top)
  BY <1>1, <1>3, EnteredSame, SameCoded DEF LoopKinds
<1>7. Longer(Top, Top) /\ Pushable(Top, Top, f)
  BY <1>1, <1>3, <1>4, <1>6, PlainPush
<1>8. Enter(On(fs, Top), f)
  BY <1>1, <1>5
<1> QED
  BY <1>1, <1>3, <1>5, <1>7, <1>8, EnterLevels

\* The jump of a while waits for its end.
LEMMA WhileStartLevels ==
    ASSUME IInv, BInv, NEW e \in CondExps, WhileStart(e)
    PROVE  BInv'
<1> DEFINE F   == InLoop(fs)
           b   == TopOf(F)
           jf  == CondJump(F, e)
           top == FuncLen(Top)
           G   == Cond(F, e)
           d   == TopOf(G)
           g   == Frame("while", Top)
           f   == [g EXCEPT !.top = top, !.jf = jf]
<1>1. /\ FsOK(fs) /\ e \in Values /\ Enter(G, f) /\ CompOK(Top) /\ Top = TopOf(fs) /\ stats > 0
  BY StartIs, ScriptAssumption DEF WhileStart, CanStart
<1>2. g.k = "while" /\ g.comp = Len(fs) /\ g.sbreaks = Len(Top.breaks) /\ g.ends = <<>>
  BY FrameFields
<1>3. FrameMade(g, fs)
  BY <1>1, FsKeptRefl, StartFrame DEF FrameKinds, LoopKinds
<1>4. top = Len(Top.code) /\ top \in Int
  BY <1>1, CodeIs
<1> HIDE DEF g, top
<1>5. Entered(Top, b, g) /\ BelowKept(fs, F) /\ FsOK(F) /\ CompOK(b)
  BY <1>1, <1>2, EnteredLoop DEF LoopKinds, Entered
<1> HIDE DEF F
<1>6. /\ FsKept(F, G) /\ CompOK(d) /\ Coded(b, d) /\ jf \in Int
      /\ jf = NoJump \/ (JmpAt(d, jf) /\ jf >= Len(b.code))
  BY <1>1, <1>5, CondIs
<1> HIDE DEF jf, G
<1>7. /\ f \in FrameT /\ f.k = "while" /\ f.comp = Len(fs) /\ f.sbreaks = Len(Top.breaks) /\ f.ends = <<>>
      /\ f.jf = jf /\ f.top = top
  BY <1>2, <1>3, <1>4, <1>6 DEF FrameMade, FrameT
<1>8. BelowKept(fs, G) /\ On(G, d) = G
  <2>1. BelowKept(fs, G)
    BY <1>1, <1>5, <1>6, BelowTrans DEF FsOK
  <2> QED
    BY <2>1, OnTop DEF BelowKept
<1> HIDE DEF f, d, b
<1>9. Entered(Top, b, f) /\ b.code = Top.code
  BY <1>2, <1>5, <1>7 DEF Entered, LoopCount
<1>10. Longer(Top, d) /\ d.breaks = Top.breaks /\ d.owed = Top.owed /\ Pushable(Top, d, f)
  BY <1>1, <1>4, <1>6, <1>7, <1>9, PlainPush
<1>11. Enter(On(G, d), f)
  BY <1>1, <1>8
<1> QED
  BY <1>1, <1>6, <1>7, <1>8, <1>10, <1>11, EnterLevels

\* A repeat waits for no jump.
LEMMA RepeatStartLevels ==
    ASSUME IInv, BInv, RepeatStart
    PROVE  BInv'
<1> DEFINE G   == InLoop(fs)
           d   == TopOf(G)
           top == FuncLen(Top)
           g   == Frame("repeat", Top)
           f   == [g EXCEPT !.top = top]
<1>1. /\ FsOK(fs) /\ Enter(G, f) /\ CompOK(Top) /\ Top = TopOf(fs) /\ stats > 0
  BY StartIs DEF RepeatStart, CanStart
<1>2. g.k = "repeat" /\ g.comp = Len(fs) /\ g.sbreaks = Len(Top.breaks) /\ g.ends = <<>> /\ g.jf = NoJump
  BY FrameFields
<1>3. FrameMade(g, fs)
  BY <1>1, FsKeptRefl, StartFrame DEF FrameKinds, LoopKinds
<1>4. top = Len(Top.code) /\ top \in Int
  BY <1>1, CodeIs
<1> HIDE DEF g, top
<1>5. Entered(Top, d, g) /\ BelowKept(fs, G) /\ CompOK(d)
  BY <1>1, <1>2, EnteredLoop DEF LoopKinds, Entered
<1> HIDE DEF G
<1>6. /\ f \in FrameT /\ f.k = "repeat" /\ f.comp = Len(fs) /\ f.sbreaks = Len(Top.breaks) /\ f.ends = <<>>
      /\ f.jf = NoJump /\ f.top = top
  BY <1>2, <1>3, <1>4 DEF FrameMade, FrameT
<1>7. On(G, d) = G
  BY <1>5, OnTop DEF BelowKept
<1> HIDE DEF f, d
<1>8. Entered(Top, d, f) /\ Coded(d, d)
  BY <1>2, <1>5, <1>6, SameCoded DEF Entered, LoopCount
<1>9. Longer(Top, d) /\ d.breaks = Top.breaks /\ d.owed = Top.owed /\ Pushable(Top, d, f)
  BY <1>1, <1>4, <1>5, <1>6, <1>8, PlainPush
<1>10. Enter(On(G, d), f)
  BY <1>1, <1>7
<1> QED
  BY <1>1, <1>5, <1>6, <1>9, <1>10, EnterLevels

\* A for loop opens its block behind an instruction that has to find the end.
LEMMA PrepPush ==
    ASSUME NEW c, CompOK(c), NEW p, CompOK(p), Coded(c, p),
           NEW i \in Instrs, NEW q, q = Emit(p, i),
           NEW w, CompOK(w), w.code = q.code, w.breaks = q.breaks, w.labels = q.labels, w.gotos = q.gotos,
           w.owed = q.owed, w.lands = q.lands, w.jumps = q.jumps,
           NEW f \in FrameT, f.ends = <<>>, f.sbreaks = Len(c.breaks), f.jf = NoJump,
           \/ f.k = "fornum" /\ i.op = "FORPREP" /\ "fornum" \in Kinds
           \/ f.k = "forin" /\ i.op = "TFORPREP" /\ w.in_loop = (c.in_loop + 1) % U8,
           f.prep = NextPC(p), f.top = FuncLen(w)
    PROVE  Longer(c, w) /\ w.breaks = c.breaks /\ w.owed = c.owed /\ Pushable(c, w, f)
<1>1. /\ CompOK(q) /\ q.breaks = p.breaks /\ q.labels = p.labels /\ q.gotos = p.gotos
      /\ q.owed = p.owed /\ q.lands = p.lands /\ q.jumps = p.jumps
      /\ q.code = IF heap = "full" THEN p.code ELSE Append(p.code, i)
      /\ Len(p.code) \in Nat
      /\ Len(q.code) = IF heap = "full" THEN Len(p.code) ELSE Len(p.code) + 1
      /\ DOMAIN p.code = 1 .. Len(p.code) /\ DOMAIN q.code = 1 .. Len(q.code)
      /\ \A j \in DOMAIN p.code : q.code[j] = p.code[j]
      /\ heap # "full" => q.code[Len(p.code) + 1] = i
  BY EmitIs
<1>2. /\ Len(c.code) \in Nat /\ DOMAIN c.code = 1 .. Len(c.code) /\ Len(c.code) <= Len(p.code)
      /\ \A j \in DOMAIN c.code : p.code[j] = c.code[j]
      /\ \A j \in DOMAIN p.code : j > Len(c.code) => Plain(p.code[j])
      /\ p.breaks = c.breaks /\ p.labels = c.labels /\ p.gotos = c.gotos
      /\ p.owed = c.owed /\ p.lands = c.lands /\ p.jumps = c.jumps
  BY CodeIs DEF Coded
<1>3. ASSUME NEW j \in DOMAIN w.code, j > Len(c.code)
      PROVE  Plain(w.code[j]) \/ (heap # "full" /\ j = Len(p.code) + 1 /\ w.code[j] = i)
  <2>1. CASE j \in DOMAIN p.code
    BY <1>1, <1>2, <1>3, <2>1
  <2>2. CASE j \notin DOMAIN p.code
    BY <1>1, <2>2
  <2> QED
    BY <2>1, <2>2
<1>4. i.op # "JMP" /\ i.op \in Looping
  BY DEF Looping
<1>5. Longer(c, w)
  <2>1. \A j \in DOMAIN w.code : j > Len(c.code) /\ w.code[j].op = "JMP" => w.code[j].a + j \in 0 .. Len(w.code)
    <3> SUFFICES ASSUME NEW j \in DOMAIN w.code, j > Len(c.code), w.code[j].op = "JMP"
                 PROVE  w.code[j].a + j \in 0 .. Len(w.code)
      OBVIOUS
    <3>1. Plain(w.code[j])
      BY <1>3, <1>4
    <3>2. w.code[j].a = 0
      BY <3>1 DEF Plain
    <3>3. j \in 1 .. Len(w.code) /\ Len(w.code) \in Nat
      BY <1>1
    <3> QED
      BY <3>2, <3>3
  <2>2. Len(c.code) <= Len(w.code)
    BY <1>1, <1>2
  <2>3. \A j \in DOMAIN c.code : w.code[j] = c.code[j]
    <3>1. \A j \in DOMAIN c.code : j \in DOMAIN p.code
      BY <1>1, <1>2
    <3> QED
      BY <1>1, <1>2, <3>1
  <2> QED
    BY <1>1, <1>2, <2>1, <2>2, <2>3 DEF Longer
<1>6. Prepared(f, w)
  <2>0. CASE heap = "full"
    BY <2>0 DEF Prepared, NextPC
  <2> SUFFICES ASSUME heap # "full" PROVE Prepared(f, w)
    BY <2>0
  <2>1. f.prep = Len(p.code) /\ f.top = Len(p.code) + 1
    BY <1>1 DEF NextPC, FuncLen
  <2>2. f.top \in DOMAIN w.code /\ w.code[f.top] = i /\ f.prep = f.top - 1
    BY <1>1, <2>1
  <2> QED
    BY <2>2 DEF Prepared, OpAt
<1>7. heap # "full" => \A j \in DOMAIN w.code : j > Len(c.code) /\ w.code[j].op \in Looping =>
                /\ f.prep = j - 1
                /\ \/ f.k = "fornum" /\ w.code[j].op = "FORPREP"
                   \/ f.k = "forin" /\ w.code[j].op = "TFORPREP"
  <2> SUFFICES ASSUME heap # "full", NEW j \in DOMAIN w.code, j > Len(c.code), w.code[j].op \in Looping
               PROVE  f.prep = j - 1 /\ w.code[j] = i
    OBVIOUS
  <2>1. j = Len(p.code) + 1 /\ w.code[j] = i
    BY <1>3 DEF Plain
  <2>2. f.prep = Len(p.code)
    BY <1>1 DEF NextPC, FuncLen
  <2> QED
    BY <1>1, <2>1, <2>2
<1>8. NoDrops => w.in_loop = LoopCount(c, f)
  BY DEF NoDrops, LoopKinds, LoopCount
<1>9. f.k = "fornum" => "fornum" \in Kinds
  OBVIOUS
<1>10. f.k \notin {"while", "repeat"}
  OBVIOUS
<1> QED
  BY <1>1, <1>2, <1>5, <1>6, <1>7, <1>8, <1>9, <1>10 DEF Pushable

\* A frame for the block of a function that has become c.
LEMMA FrameType ==
    ASSUME Len(fs) \in Nat, NEW k \in FrameKinds, NEW c, CompOK(c)
    PROVE  Frame(k, c) \in FrameT
<1>1. /\ c.nactive \in Reg /\ Len(c.breaks) \in Nat /\ 0 \in Reg
  <2>1. c.nactive \in Reg
    BY DEF CompOK, Comp
  <2> QED
    BY <2>1, LensNat, RegMod
<1>2. /\ NoFrame \in [k : {""}, comp : Nat, saved : Nat, sbreaks : Nat, top : Int, jf : Int,
                         ends : {<<>>}, base : {0}, prep : Int, names : {<<>>}, over : BOOLEAN]
      /\ <<>> \in Seq(Int) /\ <<>> \in Seq(Names \cup FuncKinds \cup {Env, "main"})
  <2>1. <<>> \in Seq(Int) /\ <<>> \in Seq(Names \cup FuncKinds \cup {Env, "main"})
    OBVIOUS
  <2>2. NoJump \in Int
    BY DEF NoJump
  <2> QED
    BY <2>1, <2>2 DEF NoFrame
<1> QED
  BY <1>1, <1>2 DEF Frame, FrameT

\* A numeric for begins, whose first instruction waits for its last.
LEMMA ForNumStartLevels ==
    ASSUME IInv, BInv, NEW name \in Names, NEW es \in ExpLists, ForNumStart(name, es)
    PROVE  BInv'
<1> DEFINE c    == Top
           base == c.nactive
           F    == ExpSteps(fs, es)[Len(es)]
           d    == IF Len(es) = 3 THEN TopOf(F)
                   ELSE Emit(TopOf(F), Instr("LOADI", (base + 2) % U8, 0, 0))
           s    == SetFree(d, base + 3)
           u    == NewLocal(s, name, base + 3)
           v    == SetFree(u, base + 4)
           p    == [v EXCEPT !.maxreg = Bigger(@, v.freereg)]
           i    == Instr("FORPREP", base, 0, 0)
           q    == Emit(p, i)
           f0   == Frame("fornum", p)
           pr   == NextPC(p)
           tp   == FuncLen(q)
           f    == [f0 EXCEPT !.base = base, !.prep = pr, !.top = tp]
<1>1. /\ FsOK(fs) /\ "fornum" \in Kinds /\ (Refuse \/ Enter(On(F, q), f))
      /\ CompOK(c) /\ c = TopOf(fs) /\ base \in Reg /\ base \in Int
      /\ es \in Seq(Values) /\ Len(es) \in Nat /\ stats > 0
  BY StartIs, ScriptAssumption DEF ForNumStart, CanStart, Reg
<1>a. c = Top
  OBVIOUS
<1>2. FsKept(fs, F) /\ CompOK(TopOf(F)) /\ Coded(c, TopOf(F)) /\ FsOK(F) /\ Len(F) = Len(fs)
  <2>1. FsKept(fs, F)
    BY <1>1, ExpStepsKept
  <2> HIDE DEF F
  <2> QED
    BY <1>1, <2>1, FsKeptTop DEF Kept
<1> HIDE DEF c, F
<1>3. Coded(TopOf(F), d) /\ CompOK(d)
  <2>1. (base + 2) % U8 \in Int
    BY <1>1, RegMod DEF Reg
  <2>2. Instr("LOADI", (base + 2) % U8, 0, 0) \in Plains
    BY <2>1, PlainInstr DEF PlainOps
  <2> HIDE DEF base
  <2> QED
    BY <1>2, <2>2, EmitAdded, AddedRefl, AddedCoded
<1> HIDE DEF d, base
<1>4. Coded(d, s) /\ CompOK(s)
  BY <1>1, <1>3, FreeAdded, AddedCoded
<1> HIDE DEF s
<1>5. Coded(s, u) /\ CompOK(u)
  <2>1. CompOK(u)
    BY <1>1, <1>4, NewLocalIs DEF Moved
  <2> QED
    BY <1>4, <2>1, NewLocalCoded
<1> HIDE DEF u
<1>6. Coded(u, v) /\ CompOK(v)
  BY <1>1, <1>5, FreeAdded, AddedCoded
<1> HIDE DEF v
<1>7. Coded(v, p) /\ CompOK(p)
  <2>1. v \in Comp /\ Bigger(v.maxreg, v.freereg) \in Reg
    BY <1>6 DEF CompOK, Comp, Bigger
  <2>2. p \in Comp /\ SameBut(v, p) /\ Whole(p)
    BY <1>6, <2>1 DEF CompOK, Comp, SameBut, Whole
  <2> QED
    BY <1>6, <2>2, SameAdded, AddedCoded
<1> HIDE DEF p
<1>8. i \in Instrs /\ i.op = "FORPREP"
  <2>1. i \in Instrs
    <3>1. base \in Int /\ 0 \in Int /\ "FORPREP" \in Ops
      BY <1>1 DEF Ops, PlainOps, Looping
    <3> QED
      BY <3>1, InstrType
  <2> QED
    BY <2>1 DEF Instr
<1> HIDE DEF i
<1>9. CompOK(q)
  BY <1>7, <1>8, EmitMoved
<1>10. Coded(c, p)
  BY <1>1, <1>2, <1>3, <1>4, <1>5, <1>6, <1>7, CodedOn
<1>11. f0.k = "fornum" /\ f0.comp = Len(fs) /\ f0.sbreaks = Len(c.breaks) /\ f0.ends = <<>> /\ f0.jf = NoJump
  <2>1. p.breaks = c.breaks
    BY <1>10 DEF Coded
  <2> QED
    BY <2>1, FrameFields
<1>12. f0 \in FrameT
  <2>1. Len(fs) \in Nat /\ "fornum" \in FrameKinds
    BY <1>1, TopIs DEF FsOK, FrameKinds, LoopKinds
  <2> QED
    BY <1>7, <2>1, FrameType
<1>13. pr \in Int /\ tp \in Int
  BY <1>7, <1>9, RegInt
<1>14. pr = NextPC(p) /\ tp = FuncLen(q)
  OBVIOUS
<1> HIDE DEF f0, pr, tp
<1>15. /\ f \in FrameT /\ f.k = "fornum" /\ f.comp = Len(fs) /\ f.sbreaks = Len(c.breaks) /\ f.ends = <<>>
       /\ f.jf = NoJump /\ f.prep = pr /\ f.top = tp
  BY <1>1, <1>11, <1>12, <1>13 DEF FrameT
<1>16. q = Emit(p, i)
  OBVIOUS
<1> HIDE DEF f, q
<1>17. Longer(c, q) /\ q.breaks = c.breaks /\ q.owed = c.owed /\ Pushable(c, q, f)
  BY <1>1, <1>7, <1>8, <1>9, <1>10, <1>14, <1>15, <1>16, PrepPush
<1>18. BelowKept(fs, F)
  BY <1>2, KeptBelow
<1> QED
  BY <1>1, <1>a, <1>9, <1>15, <1>17, <1>18, RefuseLevels, EnterLevels, SMTT(30)

\* A generic for begins likewise.
LEMMA ForInStartLevels ==
    ASSUME IInv, BInv, NEW names \in NameLists, NEW es \in ExpLists, ForInStart(names, es)
    PROVE  BInv'
<1> DEFINE c    == Top
           base == c.nactive
           n    == Len(names)
           p    == Produced(es, 4)
           E    == On(fs, SetFree(c, base))
           F    == Exps(E, es, WantLast(es, 4))
           d    == LoadNil(TopOf(F), base + p, 4 - p)
           s    == DeclareAll(d, [i \in 1..4 |-> ForState], base)
           g    == SetFree(s, base + 4)
           i    == Instr("TFORPREP", base, 0, 0)
           q    == Emit(g, i)
           u    == DeclareAll(q, names, base + 4)
           v    == SetFree(u, base + 4 + n)
           w    == [v EXCEPT !.maxreg = Bigger(@, v.freereg), !.in_loop = (@ + 1) % U8]
           f0   == Frame("forin", w)
           pr   == NextPC(g)
           tp   == FuncLen(w)
           f    == [f0 EXCEPT !.base = base, !.prep = pr, !.top = tp, !.names = names]
<1>1. /\ FsOK(fs) /\ (Refuse \/ Enter(On(F, w), f))
      /\ CompOK(c) /\ c = TopOf(fs) /\ base \in Reg /\ base \in Int /\ stats > 0
  BY StartIs DEF ForInStart, CanStart, Reg
<1>a. c = Top
  OBVIOUS
<1>2. /\ es \in Seq(Values) /\ names \in Seq(Names) /\ names \in Seq(Names \cup {ForState}) /\ n \in Nat
      /\ p \in Int /\ WantLast(es, 4) \in Int
      /\ [j \in 1..4 |-> ForState] \in Seq(Names \cup {ForState})
      /\ names \in Seq(Names \cup FuncKinds \cup {Env, "main"})
  <2>1. names \in Seq(Names) /\ es \in Seq(Values)
    BY ScriptAssumption
  <2> QED
    BY <2>1, CountsInt
<1>3. FsKept(fs, E) /\ FsOK(E)
  BY <1>1, FreeAdded, OnKept DEF FsKept
<1> HIDE DEF E, c, base
<1>4. FsKept(E, F) /\ FsKept(fs, F)
  BY <1>1, <1>2, <1>3, ExpsKept, FsKeptTrans
<1> HIDE DEF F, n, p
<1>b. CompOK(TopOf(F)) /\ Coded(c, TopOf(F)) /\ FsOK(F)
  BY <1>1, <1>4, FsKeptTop DEF Kept
<1>5. Coded(TopOf(F), d) /\ CompOK(d)
  <2>1. base + p \in Int /\ 4 - p \in Int
    BY <1>1, <1>2
  <2>2. Added(TopOf(F), d)
    BY <1>b, <2>1, LoadNilAdded
  <2> QED
    BY <2>2, AddedCoded
<1> HIDE DEF d
<1>6. Coded(d, s) /\ CompOK(s)
  BY <1>1, <1>2, <1>5, DeclareCoded
<1> HIDE DEF s
<1>7. Coded(s, g) /\ CompOK(g)
  <2>1. base + 4 \in Int
    BY <1>1
  <2>2. Added(s, g)
    BY <1>6, <2>1, FreeAdded
  <2> QED
    BY <2>2, AddedCoded
<1> HIDE DEF g
<1>8. i \in Instrs /\ i.op = "TFORPREP"
  <2>1. i \in Instrs
    <3>1. base \in Int /\ 0 \in Int /\ "TFORPREP" \in Ops
      BY <1>1 DEF Ops, PlainOps, Looping
    <3> QED
      BY <3>1, InstrType
  <2> QED
    BY <2>1 DEF Instr
<1> HIDE DEF i
<1>9. CompOK(q) /\ q.in_loop = g.in_loop
  BY <1>7, <1>8, EmitIs
<1>c. q = Emit(g, i)
  OBVIOUS
<1> HIDE DEF q
<1>10. Coded(q, u) /\ CompOK(u) /\ u.code = q.code
  <2>1. base + 4 \in Int
    BY <1>1
  <2> QED
    BY <1>2, <1>9, <2>1, DeclareCoded, DeclareAllIs
<1> HIDE DEF u
<1>11. Coded(u, v) /\ CompOK(v) /\ v.code = u.code
  <2>1. base + 4 + n \in Int
    BY <1>1, <1>2
  <2>2. Added(u, v)
    BY <1>10, <2>1, FreeAdded
  <2>3. v.code = u.code
    BY <1>10 DEF SetFree, CompOK, Comp
  <2> QED
    BY <2>2, <2>3, AddedCoded
<1> HIDE DEF v
<1>12. /\ CompOK(w) /\ w.code = v.code /\ w.breaks = v.breaks /\ w.labels = v.labels /\ w.gotos = v.gotos
       /\ w.owed = v.owed /\ w.lands = v.lands /\ w.jumps = v.jumps /\ w.in_loop = (v.in_loop + 1) % U8
  <2>0. v \in Comp
    BY <1>11 DEF CompOK
  <2>1. v \in Comp /\ Bigger(v.maxreg, v.freereg) \in Reg /\ (v.in_loop + 1) % U8 \in Int
    <3>1. v.maxreg \in Reg /\ v.freereg \in Reg /\ v.in_loop + 1 \in Int
      BY <2>0 DEF Comp
    <3>2. (v.in_loop + 1) % U8 \in Int
      BY <3>1, RegMod DEF Reg
    <3> QED
      BY <2>0, <3>1, <3>2 DEF Bigger
  <2> DEFINE x == Bigger(v.maxreg, v.freereg)
             y == (v.in_loop + 1) % U8
  <2>2. x \in Reg /\ y \in Int
    BY <2>1
  <2> HIDE DEF x, y
  <2>c. [v EXCEPT !.maxreg = x, !.in_loop = y] \in Comp
    BY <2>1, <2>2 DEF Comp
  <2>3. w \in Comp
    BY <2>c DEF x, y
  <2>4. /\ w.locals = v.locals /\ w.nactive = v.nactive /\ w.breaks = v.breaks
        /\ w.owed = v.owed /\ w.upvals = v.upvals /\ w.lost = v.lost /\ w.error = v.error
        /\ w.code = v.code /\ w.labels = v.labels /\ w.gotos = v.gotos /\ w.lands = v.lands
        /\ w.jumps = v.jumps /\ w.in_loop = (v.in_loop + 1) % U8
    BY <2>1 DEF Comp
  <2> HIDE DEF w
  <2>5. CompOK(w)
    BY <1>11, <2>3, <2>4 DEF CompOK, Whole
  <2> QED
    BY <2>4, <2>5
<1> HIDE DEF w
<1>13. Coded(c, g)
  BY <1>1, <1>b, <1>5, <1>6, <1>7, CodedOn
<1>14. /\ w.code = q.code /\ w.breaks = q.breaks /\ w.labels = q.labels /\ w.gotos = q.gotos
       /\ w.owed = q.owed /\ w.lands = q.lands /\ w.jumps = q.jumps /\ w.in_loop = (c.in_loop + 1) % U8
  <2>1. g.in_loop = c.in_loop
    BY <1>13 DEF Coded
  <2> QED
    BY <1>9, <1>10, <1>11, <1>12, <2>1 DEF Coded
<1>15. w.breaks = c.breaks
  <2>1. q.breaks = g.breaks
    BY <1>7, <1>8, <1>c, EmitIs
  <2> QED
    BY <1>13, <1>14, <2>1 DEF Coded
<1>16. f0.k = "forin" /\ f0.comp = Len(fs) /\ f0.sbreaks = Len(c.breaks) /\ f0.ends = <<>> /\ f0.jf = NoJump
  BY <1>15, FrameFields
<1>17. f0 \in FrameT
  <2>1. Len(fs) \in Nat /\ "forin" \in FrameKinds
    BY <1>1, TopIs DEF FsOK, FrameKinds, LoopKinds
  <2> QED
    BY <1>12, <2>1, FrameType
<1>18. pr \in Int /\ tp \in Int
  BY <1>7, <1>12, RegInt
<1>19. pr = NextPC(g) /\ tp = FuncLen(w)
  OBVIOUS
<1> HIDE DEF f0, pr, tp
<1>20. /\ f \in FrameT /\ f.k = "forin" /\ f.comp = Len(fs) /\ f.sbreaks = Len(c.breaks) /\ f.ends = <<>>
       /\ f.jf = NoJump /\ f.prep = pr /\ f.top = tp
  BY <1>1, <1>2, <1>16, <1>17, <1>18 DEF FrameT
<1> HIDE DEF f
<1>21. Longer(c, w) /\ w.breaks = c.breaks /\ w.owed = c.owed /\ Pushable(c, w, f)
  BY <1>1, <1>7, <1>8, <1>12, <1>13, <1>14, <1>19, <1>20, <1>c, PrepPush
<1>22. BelowKept(fs, F)
  BY <1>4, KeptBelow
<1> QED
  BY <1>1, <1>a, <1>12, <1>20, <1>21, <1>22, RefuseLevels, EnterLevels

-----------------------------------------------------------------------------
(* Blocks are left *)

\* Reworking a function twice.
LEMMA ReworkedTrans ==
    ASSUME NEW c, NEW d, NEW e, Reworked(c, d), Reworked(d, e)
    PROVE  Reworked(c, e)
<1>1. "JMP" \notin Looping
  BY DEF Looping
<1> QED
  BY <1>1 DEF Reworked

\* Patching jumps that are waited for is no more than that.
LEMMA PatchReworked ==
    ASSUME NEW c, NEW O, Traced(c, O), NEW S, NEW target \in Int,
           \A pc \in S : pc \in Nat => \E t \in Tags : <<t, pc>> \in O,
           NEW d, d = PatchAll(c, S, target)
    PROVE  Reworked(c, d)
<1>1. CompOK(c) /\ DOMAIN c.code = 1 .. Len(c.code) /\ Len(c.code) \in Nat
  BY CodeIs DEF Traced
<1>2. /\ DOMAIN d.code = DOMAIN c.code
      /\ \A i \in DOMAIN c.code : d.code[i] = IF i - 1 \in S THEN Jump(target - i) ELSE c.code[i]
  BY <1>1, PatchCode
<1> SUFFICES ASSUME NEW i \in DOMAIN c.code
             PROVE  d.code[i] = c.code[i] \/ (c.code[i].op = "JMP" /\ d.code[i].op = "JMP")
  BY <1>2 DEF Reworked
<1>3. CASE i - 1 \notin S
  BY <1>2, <1>3
<1>4. CASE i - 1 \in S
  <2>1. i - 1 \in Nat /\ (i - 1) + 1 = i
    BY <1>1
  <2>2. JmpAt(c, i - 1)
    BY <1>4, <2>1 DEF Traced, Apart
  <2>3. c.code[i].op = "JMP"
    BY <2>1, <2>2 DEF JmpAt
  <2>4. \A z : Jump(z).op = "JMP"
    BY DEF Jump, Instr
  <2>5. d.code[i].op = "JMP"
    BY <1>2, <1>4, <2>4
  <2> QED
    BY <2>3, <2>5
<1> QED
  BY <1>3, <1>4

\* An instruction that is added.
LEMMA EmitLonger ==
    ASSUME NEW c, CompOK(c), NEW i \in Instrs, NEW d, d = Emit(c, i),
           i.op = "JMP" => i.a + (Len(c.code) + 1) \in 0 .. Len(c.code) + 1
    PROVE  /\ Longer(c, d) /\ CompOK(d) /\ (i.op \notin Looping => Reworked(c, d))
           /\ d.breaks = c.breaks /\ d.owed = c.owed /\ d.in_loop = c.in_loop
           /\ Len(c.code) \in Nat /\ DOMAIN d.code = 1 .. Len(d.code) /\ DOMAIN c.code = 1 .. Len(c.code)
           /\ IF heap = "full" THEN d.code = c.code
              ELSE /\ Len(d.code) = Len(c.code) + 1 /\ d.code[Len(c.code) + 1] = i
                   /\ \A j \in DOMAIN c.code : d.code[j] = c.code[j]
<1>1. /\ CompOK(d) /\ d.breaks = c.breaks /\ d.in_loop = c.in_loop
      /\ d.labels = c.labels /\ d.gotos = c.gotos
      /\ d.owed = c.owed /\ d.lands = c.lands /\ d.jumps = c.jumps
      /\ Len(c.code) \in Nat
      /\ Len(d.code) = IF heap = "full" THEN Len(c.code) ELSE Len(c.code) + 1
      /\ DOMAIN c.code = 1 .. Len(c.code) /\ DOMAIN d.code = 1 .. Len(d.code)
      /\ \A j \in DOMAIN c.code : d.code[j] = c.code[j]
      /\ heap # "full" => d.code[Len(c.code) + 1] = i
      /\ heap = "full" => d.code = c.code
  BY EmitIs
<1>2. \A j \in DOMAIN d.code : j > Len(c.code) => heap # "full" /\ j = Len(c.code) + 1 /\ d.code[j] = i
  BY <1>1
<1>3. Longer(c, d)
  BY <1>1, <1>2 DEF Longer
<1>4. i.op \notin Looping => Reworked(c, d)
  BY <1>1, <1>2 DEF Reworked
<1> QED
  BY <1>1, <1>3, <1>4

\* The frame that a handler goes on with, h, in the place of f.
NextFrame(c, d, f, h) ==
    /\ h \in FrameT
    /\ h.k \in {"if", "else"} /\ h.comp = f.comp /\ h.sbreaks = f.sbreaks
    /\ h.ends = EndsAfter(c, f)
    /\ h.jf = NoJump \/ (JmpAt(d, h.jf) /\ h.jf >= Len(NextClause(c, f).code))

\* What is waited for between two clauses.
ClauseOwns(c, f, O, n) ==
    IF heap # "full" /\ Len(f.ends) < MaxEnds THEN O \cup {<<<<"ends", n>>, Len(c.code)>>} ELSE O

\* What the end of a clause keeps of its function.
Resumed(c, g) ==
    /\ Reworked(c, g) /\ Len(c.code) <= Len(g.code)
    /\ g.breaks = c.breaks /\ g.gotos = c.gotos /\ g.owed = c.owed /\ g.in_loop = c.in_loop

\* A clause ends: the condition has landed.
LEMMA ClauseTraced ==
    ASSUME NEW c, NEW O, Traced(c, O), NEW f \in FrameT, NEW n \in Nat,
           f.jf \in Nat \cup {NoJump}, f.jf \in Nat => <<<<"cond", n>>, f.jf>> \in O,
           NEW P, \A t \in Tags, pc \in Nat : <<t, pc>> \in P => <<t, pc>> \in ClauseOwns(c, f, O, n),
           \A pc \in Nat : <<<<"cond", n>>, pc>> \notin P,
           NEW g, g = NextClause(c, f)
    PROVE  Traced(g, P) /\ Resumed(c, g)
<1> DEFINE i  == Jump(0)
           d  == IF Len(f.ends) < MaxEnds THEN Emit(c, i) ELSE c
           at == FuncLen(d)
           p  == PatchAll(d, {f.jf}, at)
           T  == {[pc |-> pc, at |-> at] : pc \in Real(f.jf)}
           Q  == ClauseOwns(c, f, O, n)
<1>0. CompOK(c) /\ f.jf \in Int /\ Len(c.code) \in Nat
  BY CodeIs DEF Traced, FrameT
<1>1. i \in Instrs /\ i.op = "JMP" /\ i.a = 0
  <2>1. i \in Instrs
    BY JumpType
  <2> QED
    BY <2>1 DEF Jump, Instr
<1>2. /\ g = [p EXCEPT !.lands = @ \cup {[pc |-> pc, at |-> FuncLen(p)] : pc \in Real(f.jf)}]
  BY DEF NextClause, Lands, Patch
<1>a. d = IF Len(f.ends) < MaxEnds THEN Emit(c, i) ELSE c
  OBVIOUS
<1> HIDE DEF i, d
<1>3. /\ CompOK(d) /\ d.breaks = c.breaks /\ d.owed = c.owed /\ d.in_loop = c.in_loop /\ d.gotos = c.gotos
      /\ Reworked(c, d) /\ Longer(c, d) /\ Traced(d, Q)
  <2>1. CASE Len(f.ends) < MaxEnds
    <3>1. d = Emit(c, i)
      BY <1>a, <2>1
    <3>2. i.op = "JMP" => i.a + (Len(c.code) + 1) \in 0 .. Len(c.code) + 1
      BY <1>0, <1>1
    <3>3. /\ Longer(c, d) /\ CompOK(d) /\ (i.op \notin Looping => Reworked(c, d))
          /\ d.breaks = c.breaks /\ d.owed = c.owed /\ d.in_loop = c.in_loop
          /\ DOMAIN d.code = 1 .. Len(d.code)
          /\ heap # "full" => Len(d.code) = Len(c.code) + 1 /\ d.code[Len(c.code) + 1] = i
      BY <1>0, <1>1, <3>1, <3>2, EmitLonger
    <3>4. Reworked(c, d)
      BY <1>1, <3>3 DEF Looping
    <3>5. CASE heap = "full"
      <4>1. Q = O
        BY <3>5 DEF ClauseOwns
      <4> QED
        BY <3>3, <3>4, <4>1, LongerTraced DEF Longer
    <3>6. CASE heap # "full"
      <4> DEFINE pc == Len(c.code)
                 t  == <<"ends", n>>
      <4>1. Q = O \cup {<<t, pc>>}
        BY <2>1, <3>6 DEF ClauseOwns
      <4>2. pc \in Nat /\ t \in Tags /\ JmpAt(d, pc) /\ pc >= Len(c.code)
        BY <1>0, <1>1, <3>3, <3>6 DEF JmpAt, Tags
      <4> HIDE DEF pc, t
      <4>3. \A u \in Tags, x \in Nat : <<u, x>> \in Q => <<u, x>> \in O \/ (u = t /\ x = pc)
        BY <4>1
      <4> HIDE DEF Q
      <4>4. Traced(d, Q)
        BY <3>3, <4>2, <4>3, ClaimTraced
      <4> QED
        BY <3>3, <3>4, <4>4 DEF Longer
    <3> QED
      BY <3>5, <3>6
  <2>2. CASE ~ (Len(f.ends) < MaxEnds)
    <3>1. d = c /\ Q = O
      BY <1>a, <2>2 DEF ClauseOwns
    <3>2. Coded(c, c)
      BY <1>0, SameCoded
    <3> QED
      BY <1>0, <3>1, <3>2, CodedLonger, CodedReworked
  <2> QED
    BY <2>1, <2>2
<1>4. at = Len(d.code) /\ at \in Nat /\ at \in 0 .. Len(d.code)
  BY <1>3, CodeIs
<1>5. \A pc \in {f.jf} : pc \in Nat => \E t \in Tags : <<t, pc>> \in Q
  <2>1. <<"cond", n>> \in Tags /\ (f.jf \in Nat => <<<<"cond", n>>, f.jf>> \in Q)
    BY DEF Tags, ClauseOwns
  <2> QED
    BY <2>1
<1>b. p = PatchAll(d, {f.jf}, at)
  OBVIOUS
<1> HIDE DEF at, p
<1>6. /\ Traced(p, Q)
      /\ \A pc \in Nat : JmpAt(d, pc) => Goes(p, pc) = IF pc \in {f.jf} THEN at ELSE Goes(d, pc)
  <2> HIDE DEF Q
  <2> QED
    BY <1>3, <1>4, <1>5, <1>b, PatchTraced
<1>7. Reworked(d, p)
  <2> HIDE DEF Q
  <2> QED
    BY <1>3, <1>4, <1>5, <1>b, PatchReworked
<1>8. /\ CompOK(p) /\ Len(p.code) = Len(d.code) /\ p.breaks = d.breaks /\ p.owed = d.owed
      /\ p.in_loop = d.in_loop /\ p.gotos = d.gotos
  BY <1>3, <1>4, <1>b, PatchCode
<1>9. g = [p EXCEPT !.lands = @ \cup T]
  BY <1>2, <1>4, <1>8 DEF FuncLen
<1>10. T \in SUBSET [pc : Int, at : Int]
  BY <1>0, <1>4 DEF Real
<1>11. CompOK(g)
  <2> HIDE DEF T
  <2>1. CompOK(p)
    BY <1>8
  <2>2. Moved(p, [p EXCEPT !.lands = @ \cup T])
    BY <1>10, <2>1, MoreLands
  <2> QED
    BY <1>9, <2>2 DEF Moved
<1>12. /\ g.code = p.code /\ g.labels = p.labels /\ g.gotos = p.gotos /\ g.jumps = p.jumps
       /\ g.lands = p.lands \cup T /\ g.breaks = p.breaks /\ g.owed = p.owed /\ g.in_loop = p.in_loop
  <2> HIDE DEF T
  <2> QED
    BY <1>8, <1>9 DEF CompOK, Comp
<1>13. \A x \in T : /\ x.pc \in Nat /\ Goes(p, x.pc) = x.at
                    /\ \E t \in Tags : <<t, x.pc>> \in Q /\ <<t, x.pc>> \notin P
  <2> SUFFICES ASSUME NEW x \in T
               PROVE  /\ x.pc \in Nat /\ Goes(p, x.pc) = x.at
                      /\ \E t \in Tags : <<t, x.pc>> \in Q /\ <<t, x.pc>> \notin P
    OBVIOUS
  <2>1. x.pc = f.jf /\ f.jf # NoJump /\ x.at = at /\ f.jf \in Nat
    BY DEF Real
  <2>2. <<"cond", n>> \in Tags /\ <<<<"cond", n>>, f.jf>> \in O /\ <<<<"cond", n>>, f.jf>> \in Q
    BY <2>1 DEF Tags, ClauseOwns
  <2>3. JmpAt(d, f.jf)
    <3>1. JmpAt(c, f.jf)
      BY <2>1, <2>2 DEF Traced, Apart
    <3>2. DOMAIN c.code = 1 .. Len(c.code) /\ DOMAIN d.code = 1 .. Len(d.code) /\ Len(d.code) \in Nat
      BY <1>3, CodeIs DEF Traced
    <3> QED
      BY <1>0, <1>3, <3>1, <3>2, SMTT(30) DEF JmpAt, Longer
  <2>4. Goes(p, f.jf) = at
    BY <1>6, <2>1, <2>3
  <2> QED
    BY <2>1, <2>2, <2>4
<1>14. Traced(g, P)
  <2>1. SameCode(p, g) /\ g.lands = p.lands \cup T
    BY <1>11, <1>12 DEF SameCode
  <2>2. \A t \in Tags, pc \in Nat : <<t, pc>> \in P => <<t, pc>> \in Q
    OBVIOUS
  <2>3. Traced(p, Q)
    BY <1>6
  <2>4. NoDrops => \A x \in T : /\ x.pc \in Nat /\ Goes(p, x.pc) = x.at
                                  /\ \E t \in Tags : <<t, x.pc>> \in Q /\ <<t, x.pc>> \notin P
    BY <1>13
  <2> HIDE DEF T, Q
  <2> QED
    BY <2>1, <2>2, <2>3, <2>4, LandTraced
<1>15. Reworked(c, g)
  <2>1. Reworked(c, p)
    BY <1>3, <1>7, ReworkedTrans
  <2> QED
    BY <1>12, <2>1 DEF Reworked
<1>16. Len(c.code) <= Len(g.code)
  BY <1>3, <1>8, <1>12 DEF Longer
<1> QED
  BY <1>3, <1>8, <1>12, <1>14, <1>15, <1>16 DEF Resumed

\* The handler goes on with another clause.
LEMMA ClauseLevel ==
    ASSUME NEW K, K \in Seq(FrameT), K # <<>>, NEW l, NEW c, NEW s \in Int, NEW r \in Int, r <= s,
           Level(K, l, c, s), \A o \in c.owed : OwedFits(K, l, o),
           NEW f, f = K[Len(K)], f.comp = l, f.k = "if",
           NEW g, g = NextClause(c, f), NEW d, CompOK(d), Coded(g, d),
           NEW h, NextFrame(c, d, f, h),
           NEW J, J = [K EXCEPT ![Len(K)] = h]
    PROVE  Level(J, l, d, r)
<1> DEFINE n  == Len(K)
           O  == Owns(K, l, c)
           W  == Owns(J, l, d)
           P  == {w \in W : w[1] # <<"cond", n>>}
<1>1. /\ n \in Nat /\ n \in DOMAIN K /\ f \in FrameT /\ DOMAIN J = DOMAIN K /\ J[n] = h
      /\ \A m \in DOMAIN K : m # n => J[m] = K[m]
      /\ h.comp = l /\ h.sbreaks = f.sbreaks /\ h.k \in {"if", "else"} /\ h \in FrameT
      /\ K[n] = f
  BY EmptySeq DEF NextFrame
<1>2. /\ f.jf \in Nat \cup {NoJump} /\ \A i \in DOMAIN f.ends : f.ends[i] \in Nat \cup {NoJump}
      /\ Traced(c, O) /\ CompOK(c) /\ Len(c.code) \in Nat
  BY <1>1, CodeIs DEF Level, Marks, Traced
<1>3. f.jf \in Nat => <<<<"cond", n>>, f.jf>> \in O
  <2> SUFFICES ASSUME f.jf \in Nat PROVE <<<<"cond", n>>, f.jf>> \in O
    OBVIOUS
  <2> DEFINE t  == <<"cond", n>>
             jf == f.jf
  <2>1. t \in Tags /\ t[1] = "cond" /\ t[2] = n /\ jf \in Nat /\ K[n].jf = jf
    BY <1>1 DEF Tags
  <2> HIDE DEF t, jf
  <2>2. Claimed(K, l, c, t, jf)
    BY <1>1, <2>1 DEF Claimed
  <2>3. <<t, jf>> \in O
    BY <2>1, <2>2, OwnsIs
  <2> QED
    BY <2>3 DEF t, jf
<1>4. /\ d.breaks = g.breaks /\ d.gotos = g.gotos /\ d.owed = g.owed /\ d.in_loop = g.in_loop
      /\ Len(g.code) <= Len(d.code)
  BY DEF Coded
<1>5. /\ g.breaks = c.breaks /\ g.gotos = c.gotos /\ g.owed = c.owed /\ g.in_loop = c.in_loop
      /\ Reworked(c, g) /\ Len(c.code) <= Len(g.code)
  <2> DEFINE N == {w \in ClauseOwns(c, f, O, n) : w[1] # <<"cond", n>>}
  <2>1. /\ \A t \in Tags, pc \in Nat : <<t, pc>> \in N => <<t, pc>> \in ClauseOwns(c, f, O, n)
        /\ \A pc \in Nat : <<<<"cond", n>>, pc>> \notin N
    OBVIOUS
  <2>2. /\ Traced(c, O) /\ f \in FrameT /\ n \in Nat /\ f.jf \in Nat \cup {NoJump}
        /\ f.jf \in Nat => <<<<"cond", n>>, f.jf>> \in O
    BY <1>1, <1>2, <1>3
  <2> HIDE DEF N, O, n, P
  <2>3. Traced(g, N) /\ Resumed(c, g)
    BY <2>1, <2>2, ClauseTraced
  <2> QED
    BY <2>3 DEF Resumed
<1>6. \A i \in DOMAIN h.ends : \/ i \in DOMAIN f.ends /\ h.ends[i] = f.ends[i]
                               \/ h.ends[i] = NextPC(c) /\ Len(f.ends) < MaxEnds
  <2>1. f.ends \in Seq(Int) /\ NextPC(c) \in Int
    BY <1>1, <1>2, RegInt DEF FrameT
  <2>2. h.ends = IF Len(f.ends) < MaxEnds THEN Append(f.ends, NextPC(c)) ELSE f.ends
    BY DEF NextFrame, EndsAfter
  <2>3. /\ Len(f.ends) \in Nat /\ DOMAIN f.ends = 1 .. Len(f.ends)
        /\ DOMAIN Append(f.ends, NextPC(c)) = 1 .. Len(f.ends) + 1
        /\ \A i \in 1 .. Len(f.ends) : Append(f.ends, NextPC(c))[i] = f.ends[i]
        /\ Append(f.ends, NextPC(c))[Len(f.ends) + 1] = NextPC(c)
    BY <2>1, AppendIs
  <2>4. CASE Len(f.ends) < MaxEnds
    <3>1. h.ends = Append(f.ends, NextPC(c))
      BY <2>2, <2>4
    <3> QED
      BY <2>3, <2>4, <3>1
  <2> QED
    BY <2>2, <2>4
<1>7. NextPC(c) \in Nat => NextPC(c) = Len(c.code) /\ heap # "full"
  BY DEF NextPC, FuncLen, NoJump
<1>8. ASSUME NEW t \in Tags, NEW pc \in Nat, <<t, pc>> \in W
      PROVE  <<t, pc>> \in ClauseOwns(c, f, O, n) \/ (t = <<"cond", n>> /\ pc = h.jf)
  <2>1. Claimed(J, l, d, t, pc)
    BY <1>8, OwnsIs
  <2>2. t = <<t[1], t[2]>>
    BY DEF Tags
  <2>3. CASE Claimed(K, l, c, t, pc)
    BY <2>3, OwnsIs DEF ClauseOwns
  <2>4. CASE t[2] = n /\ t[1] = "cond" /\ pc = h.jf
    BY <2>2, <2>4
  <2>5. CASE t[2] = n /\ t[1] = "ends" /\ \E i \in DOMAIN h.ends : h.ends[i] = pc
    <3>1. PICK i \in DOMAIN h.ends : h.ends[i] = pc
      BY <2>5
    <3>2. CASE i \in DOMAIN f.ends /\ f.ends[i] = pc
      <4>1. Claimed(K, l, c, t, pc)
        BY <1>1, <2>5, <3>2 DEF Claimed
      <4> QED
        BY <2>3, <4>1
    <3>3. CASE pc = NextPC(c) /\ Len(f.ends) < MaxEnds
      BY <1>7, <2>2, <2>5, <3>3 DEF ClauseOwns
    <3> QED
      BY <1>6, <3>1, <3>2, <3>3
  <2> QED
    BY <1>1, <1>4, <1>5, <2>1, <2>3, <2>4, <2>5 DEF Claimed
<1>9. Traced(g, P)
  <2>1. /\ \A t \in Tags, pc \in Nat : <<t, pc>> \in P => <<t, pc>> \in ClauseOwns(c, f, O, n)
        /\ \A pc \in Nat : <<<<"cond", n>>, pc>> \notin P
    BY <1>8
  <2> HIDE DEF P, O
  <2> QED
    BY <1>1, <1>2, <1>3, <2>1, ClauseTraced
<1>10. Traced(d, W)
  <2>1. Longer(g, d)
    BY <1>9, CodedLonger DEF Traced
  <2>2. CASE h.jf = NoJump
    <3>1. \A t \in Tags, pc \in Nat : <<t, pc>> \in W => <<t, pc>> \in P
      <4>1. \A pc \in Nat : pc # h.jf
        BY <2>2 DEF NoJump
      <4>2. \A t \in Tags, pc \in Nat : <<t, pc>> \in W /\ t = <<"cond", n>> => pc = h.jf
        <5> SUFFICES ASSUME NEW t \in Tags, NEW pc \in Nat, <<t, pc>> \in W, t = <<"cond", n>>
                     PROVE  pc = h.jf
          OBVIOUS
        <5>1. Claimed(J, l, d, t, pc) /\ t[1] = "cond" /\ t[2] = n
          BY OwnsIs
        <5> QED
          BY <1>1, <5>1 DEF Claimed
      <4> QED
        BY <4>1, <4>2
    <3> HIDE DEF W, P
    <3> QED
      BY <1>9, <2>1, <3>1, LongerTraced, FewerTraced
  <2>3. CASE h.jf # NoJump
    <3> DEFINE jf == h.jf
               tag == <<"cond", n>>
    <3>1. jf \in Nat /\ tag \in Tags /\ JmpAt(d, jf) /\ jf >= Len(g.code)
      BY <1>1, <2>3 DEF NextFrame, JmpAt, Tags
    <3>2. \A u \in Tags, p \in Nat : <<u, p>> \in W => <<u, p>> \in P \/ (u = tag /\ p = jf)
      <4> SUFFICES ASSUME NEW u \in Tags, NEW p \in Nat, <<u, p>> \in W, u = tag PROVE p = jf
        OBVIOUS
      <4>1. Claimed(J, l, d, u, p) /\ u[1] = "cond" /\ u[2] = n
        BY OwnsIs
      <4> QED
        BY <1>1, <4>1 DEF Claimed
    <3> HIDE DEF jf, tag, W, P
    <3> QED
      BY <1>9, <2>1, <3>1, <3>2, ClaimTraced
  <2> QED
    BY <2>2, <2>3
<1>11. Marks(J, l, d)
  <2>0. Len(d.code) \in Nat /\ Len(g.code) \in Nat /\ Len(c.code) <= Len(d.code)
    BY <1>2, <1>4, <1>5, <1>9, CodeIs DEF Traced
  <2> SUFFICES ASSUME NEW m \in DOMAIN J, J[m].comp = l
               PROVE  /\ J[m].jf \in Nat \cup {NoJump}
                      /\ \A i \in DOMAIN J[m].ends : J[m].ends[i] \in Nat \cup {NoJump}
                      /\ J[m].k \in {"while", "repeat"} => J[m].top \in 0 .. Len(d.code)
                      /\ J[m].k = "fornum" => "fornum" \in Kinds
                      /\ J[m].k \in {"repeat", "forin"} => J[m].jf = NoJump
    BY DEF Marks
  <2>1. CASE m # n
    BY <1>1, <1>2, <2>0, <2>1 DEF Level, Marks
  <2>2. CASE m = n
    <3>1. h.jf \in Nat \cup {NoJump}
      BY DEF NextFrame, JmpAt
    <3>2. NextPC(c) \in Nat \cup {NoJump}
      BY <1>2 DEF NextPC, FuncLen
    <3>3. \A i \in DOMAIN h.ends : h.ends[i] \in Nat \cup {NoJump}
      BY <1>2, <1>6, <3>2
    <3> QED
      BY <1>1, <2>2, <3>1, <3>3
  <2> QED
    BY <2>1, <2>2
<1>12. LoopsOf(J, l) = LoopsOf(K, l)
  BY <1>1 DEF LoopsOf, LoopAt, LoopKinds
<1>13. InLoops(J, l, d, r)
  <2>1. SameWindows(K, J, l)
    BY <1>1, <1>12 DEF SameWindows
  <2>2. \A o \in c.owed : o.loop \in DOMAIN J /\ J[o.loop].comp = l
    BY <1>1 DEF OwedFits
  <2>3. InLoops(K, l, c, s) /\ Len(c.breaks) \in Nat /\ c.in_loop \in Int
    BY <1>2, LensNat DEF Level, CompOK, Comp
  <2> QED
    BY <1>4, <1>5, <2>1, <2>2, <2>3, InLoopsSame
<1>14. Paired(J, l, d)
  <2>1. SameFors(K, J, l)
    BY <1>1 DEF SameFors
  <2>2. Reworked(g, d)
    BY <1>9, CodedReworked DEF Traced
  <2>3. Reworked(c, d)
    BY <1>5, <2>2, ReworkedTrans
  <2> QED
    BY <2>1, <2>3, PairedSame DEF Level
<1> QED
  BY <1>10, <1>11, <1>13, <1>14 DEF Level

\* The innermost frame is replaced.
LEMMA SwapIs ==
    ASSUME NEW K, K \in Seq(FrameT), K # <<>>, NEW h \in FrameT
    PROVE  Append(Front(K), h) = [K EXCEPT ![Len(K)] = h]
<1> DEFINE s == Front(K)
           A == Append(Front(K), h)
           J == [K EXCEPT ![Len(K)] = h]
<1>1. /\ Len(K) \in Nat \ {0} /\ s \in Seq(FrameT) /\ Len(s) = Len(K) - 1
      /\ \A i \in 1 .. Len(K) - 1 : s[i] = K[i]
  BY EmptySeq, FrontIs
<1>2. /\ A \in Seq(FrameT) /\ Len(A) = Len(K)
      /\ \A i \in 1 .. Len(K) - 1 : A[i] = K[i]
      /\ A[Len(K)] = h
  <2>1. s \in Seq(FrameT) /\ Len(s) + 1 = Len(K) /\ h \in FrameT /\ Len(K) - 1 = Len(s)
    BY <1>1
  <2>2. \A i \in 1 .. Len(s) : s[i] = K[i]
    BY <1>1, <2>1
  <2> HIDE DEF s
  <2>3. /\ Append(s, h) \in Seq(FrameT) /\ Len(Append(s, h)) = Len(s) + 1
        /\ \A i \in 1 .. Len(s) : Append(s, h)[i] = s[i]
        /\ Append(s, h)[Len(s) + 1] = h
    BY <2>1, AppendIs
  <2> QED
    BY <2>1, <2>2, <2>3 DEF s
<1>3. /\ J \in Seq(FrameT) /\ Len(J) = Len(K)
      /\ \A i \in 1 .. Len(K) : J[i] = IF i = Len(K) THEN h ELSE K[i]
  BY <1>1
<1> HIDE DEF A, J
<1>4. \A i \in 1 .. Len(K) : A[i] = J[i]
  BY <1>1, <1>2, <1>3
<1>5. A \in Seq(FrameT) /\ Len(A) = Len(J)
  BY <1>2, <1>3
<1>6. A = J
  BY <1>3, <1>4, <1>5, SeqEqual
<1> QED
  BY <1>6 DEF A, J

\* A block has been left.
LEMMA LeftLevel ==
    ASSUME IInv, BInv, NEW c, c = LeaveBlock(Top, Open.saved)
    PROVE  /\ CompOK(c) /\ Coded(Top, c) /\ c.breaks = Top.breaks /\ c.owed = Top.owed
           /\ Level(ctl, Len(fs), c, stats) /\ Len(c.code) = Len(Top.code)
           /\ \A o \in c.owed : OwedFits(ctl, Len(fs), o)
<1>1. /\ CompOK(Top) /\ Open.saved \in Reg /\ Open.saved <= Len(Top.locals)
      /\ Level(ctl, Len(fs), Top, stats) /\ stats \in Int
      /\ \A o \in Top.owed : OwedFits(ctl, Len(fs), o)
  BY OpenFrame, LevelStart
<1>2. CompOK(c)
  BY <1>1, BlockIs DEF Moved
<1>3. Coded(Top, c)
  BY <1>1, BlockCoded
<1>4. c.breaks = Top.breaks /\ c.owed = Top.owed
  BY <1>3 DEF Coded
<1>5. Level(ctl, Len(fs), c, stats)
  BY <1>1, <1>2, <1>3, SameRefl, LevelSame DEF OwedFits
<1>6. c.code = Top.code
  BY <1>1 DEF LeaveBlock, CompOK, Comp
<1> QED
  BY <1>1, <1>2, <1>3, <1>4, <1>5, <1>6

\* The next clause of an if.
LEMMA ClauseLevels ==
    ASSUME IInv, BInv, stats > 0, Open.k = "if", NEW c, c = LeaveBlock(Top, Open.saved),
           NEW g, g = NextClause(c, Open), NEW G, BelowKept(fs, G), NEW d, d = TopOf(G),
           CompOK(d), Coded(g, d),
           NEW f, NEW h, h = [f EXCEPT !.over = FALSE], NextFrame(c, d, Open, h), Clause(G, f)
    PROVE  BInv'
<1> DEFINE r == stats - 1
           K == [ctl EXCEPT ![Len(ctl)] = h]
           l == Len(fs)
<1>1. /\ Level(ctl, l, c, stats) /\ \A o \in c.owed : OwedFits(ctl, l, o)
  BY LeftLevel
<1>2. /\ ctl \in Seq(FrameT) /\ ctl # <<>> /\ Open = ctl[Len(ctl)] /\ Open.comp = l /\ stats \in Int
      /\ r \in Int /\ r <= stats
  BY LevelStart
<1>3. h \in FrameT /\ h.comp = l
  BY <1>2 DEF NextFrame
<1>4. Append(Front(ctl), h) = K
  BY <1>2, <1>3, SwapIs
<1>5. fs' = G /\ ctl' = K /\ stats' = r /\ UNCHANGED <<heap, final>>
  BY <1>4 DEF Clause
<1>6. On(G, d) = G
  BY OnTop DEF BelowKept
<1>7. K = [ctl EXCEPT ![Len(ctl)] = h]
  OBVIOUS
<1> HIDE DEF r, K, l
<1>8. Level(K, l, d, r)
  BY <1>1, <1>2, <1>7, ClauseLevel
<1>9. SameBelow(ctl, K, l)
  <2>1. h.comp = ctl[Len(ctl)].comp
    BY <1>2, <1>3
  <2>2. SameBelow(ctl, K, h.comp)
    BY <1>2, <1>7, <2>1, SwapBelow
  <2> QED
    BY <1>3, <2>2
<1>a. fs' = On(G, d) /\ ctl' = K /\ stats' = r /\ heap' = heap /\ final' = final
  BY <1>5, <1>6
<1> QED
  BY <1>2, <1>8, <1>9, <1>a, LevelsNext DEF l

\* Between two clauses the first condition lands, and the next one waits.
LEMMA ElseIfLevels ==
    ASSUME IInv, BInv, NEW e \in CondExps, ElseIf(e)
    PROVE  BInv'
<1> DEFINE c  == LeaveBlock(Top, Open.saved)
           g  == NextClause(c, Open)
           F  == On(fs, g)
           jf == CondJump(F, e)
           G  == Cond(F, e)
           d  == TopOf(G)
           en == EndsAfter(c, Open)
           f  == [Open EXCEPT !.jf = jf, !.ends = en]
           h  == [f EXCEPT !.over = FALSE]
<1>1. stats > 0 /\ Open.k = "if" /\ Clause(G, f) /\ Open \in FrameT
  BY OpenFrame DEF ElseIf
<1>2. FsOK(F) /\ en \in Seq(Int)
  BY ClauseMoved DEF FsMoved
<1>3. FsOK(fs) /\ e \in Values /\ FsType(fs)
  BY StartIs, ScriptAssumption DEF FsOK
<1>4. CompOK(c)
  BY LeftLevel
<1>5. CompOK(g)
  <2> HIDE DEF c
  <2> QED
    BY <1>1, <1>4, NextClauseMoved DEF Moved
<1>a. g = NextClause(c, Open) /\ c = LeaveBlock(Top, Open.saved) /\ en = EndsAfter(c, Open)
  OBVIOUS
<1> HIDE DEF c, g, en
<1>6. BelowKept(fs, F) /\ TopOf(F) = g
  BY <1>3, <1>5, OnBelow, OnIs
<1> HIDE DEF F
<1>7. /\ FsKept(F, G) /\ CompOK(d) /\ Coded(g, d) /\ jf \in Int
      /\ jf = NoJump \/ (JmpAt(d, jf) /\ jf >= Len(g.code))
  BY <1>2, <1>3, <1>6, CondIs
<1> HIDE DEF G, jf
<1>8. BelowKept(fs, G)
  BY <1>3, <1>6, <1>7, BelowTrans
<1>9. /\ h \in FrameT /\ h.k = "if" /\ h.comp = Open.comp /\ h.sbreaks = Open.sbreaks
      /\ h.ends = en /\ h.jf = jf
  BY <1>1, <1>2, <1>7 DEF FrameT
<1>b. h = [f EXCEPT !.over = FALSE]
  OBVIOUS
<1> HIDE DEF h, f, d
<1>10. NextFrame(c, d, Open, h)
  BY <1>7, <1>9, <1>a DEF NextFrame
<1>11. d = TopOf(G)
  BY DEF d
<1> QED
  BY <1>1, <1>7, <1>8, <1>10, <1>11, <1>a, <1>b, ClauseLevels

\* Before an else the condition lands.
LEMMA ElseLevels ==
    ASSUME IInv, BInv, Else
    PROVE  BInv'
<1> DEFINE c  == LeaveBlock(Top, Open.saved)
           g  == NextClause(c, Open)
           F  == On(fs, g)
           en == EndsAfter(c, Open)
           f  == [Open EXCEPT !.k = "else", !.jf = NoJump, !.ends = en]
           h  == [f EXCEPT !.over = FALSE]
<1>1. stats > 0 /\ Open.k = "if" /\ Clause(F, f) /\ Open \in FrameT
  BY OpenFrame DEF Else
<1>2. FsOK(F) /\ en \in Seq(Int)
  BY ClauseMoved DEF FsMoved
<1>3. FsOK(fs) /\ FsType(fs)
  BY StartIs DEF FsOK
<1>4. CompOK(c)
  BY LeftLevel
<1>5. CompOK(g)
  <2> HIDE DEF c
  <2> QED
    BY <1>1, <1>4, NextClauseMoved DEF Moved
<1>a. g = NextClause(c, Open) /\ c = LeaveBlock(Top, Open.saved) /\ en = EndsAfter(c, Open)
  OBVIOUS
<1> HIDE DEF c, g, en
<1>6. BelowKept(fs, F) /\ TopOf(F) = g
  BY <1>3, <1>5, OnBelow, OnIs
<1> HIDE DEF F
<1>7. Coded(g, g)
  BY <1>5, SameCoded
<1>8. "else" \in FrameKinds /\ NoJump \in Int
  BY DEF FrameKinds, NoJump
<1>9. /\ h \in FrameT /\ h.k = "else" /\ h.comp = Open.comp /\ h.sbreaks = Open.sbreaks
      /\ h.ends = en /\ h.jf = NoJump
  BY <1>1, <1>2, <1>8 DEF FrameT
<1>b. h = [f EXCEPT !.over = FALSE]
  OBVIOUS
<1> HIDE DEF h, f
<1>10. NextFrame(c, g, Open, h)
  BY <1>9, <1>a DEF NextFrame
<1> QED
  BY <1>1, <1>5, <1>6, <1>7, <1>10, <1>a, <1>b, ClauseLevels

-----------------------------------------------------------------------------
(* Handlers that are no loops finish *)

\* A frame that is no loop's is popped.
LEMMA LevelPop ==
    ASSUME NEW K, K \in Seq(FrameT), K # <<>>, NEW l, NEW c, NEW s \in Int, Level(K, l, c, s),
           NEW f, f = K[Len(K)], f.comp = l, f.k \notin LoopKinds, \A o \in c.owed : OwedFits(K, l, o),
           NEW d, Len(c.code) <= Len(d.code), Reworked(c, d),
           d.breaks = c.breaks, d.owed = c.owed, d.in_loop = c.in_loop,
           Traced(d, Owns(Front(K), l, d))
    PROVE  Level(Front(K), l, d, s)
<1> DEFINE J == Front(K)
           n == Len(K)
<1>1. /\ \A m \in DOMAIN J : m \in DOMAIN K /\ J[m] = K[m]
      /\ \A m \in DOMAIN K : m # n => m \in DOMAIN J
      /\ K[n] = f
  BY PopBelow
<1>2. CompOK(c) /\ Len(c.code) \in Nat /\ Len(d.code) \in Nat /\ Len(c.breaks) \in Nat
  BY CodeIs, LensNat DEF Level, Traced
<1> HIDE DEF J, n
<1>3. Marks(J, l, d)
  BY <1>1, <1>2 DEF Level, Marks
<1>4. LoopsOf(J, l) = LoopsOf(K, l)
  BY <1>1 DEF LoopsOf, LoopAt
<1>5. SameWindows(K, J, l)
  BY <1>1, <1>4 DEF SameWindows
<1>6. SameFors(K, J, l)
  BY <1>1 DEF SameFors, LoopKinds
<1>7. \A o \in c.owed : o.loop \in DOMAIN J /\ J[o.loop].comp = l
  BY <1>1 DEF OwedFits
<1>8. InLoops(J, l, d, s)
  <2>1. InLoops(K, l, c, s) /\ c.in_loop \in Int
    BY <1>2 DEF Level, CompOK, Comp
  <2> QED
    BY <1>2, <1>5, <1>7, <2>1, InLoopsSame
<1>9. Paired(J, l, d)
  <2>1. Paired(K, l, c)
    BY DEF Level
  <2> QED
    BY <1>6, <2>1, PairedSame
<1> QED
  BY <1>3, <1>8, <1>9 DEF Level, J

\* do ... end
LEMMA DoEndLevels == ASSUME IInv, BInv, DoEnd PROVE BInv'
<1> DEFINE c == LeaveBlock(Top, Open.saved)
           l == Len(fs)
<1>1. /\ CompOK(c) /\ Coded(Top, c) /\ c.breaks = Top.breaks /\ c.owed = Top.owed
      /\ Level(ctl, l, c, stats) /\ \A o \in c.owed : OwedFits(ctl, l, o)
  BY LeftLevel
<1>2. /\ ctl \in Seq(FrameT) /\ ctl # <<>> /\ Open = ctl[Len(ctl)] /\ Open.comp = l /\ stats \in Int
  BY LevelStart
<1>3. Open.k = "do" /\ Leave(c) /\ Open.k \notin LoopKinds
  BY DEF DoEnd, LoopKinds
<1>a. Moved(Top, c)
  BY StartIs, OpenFrame, BlockIs
<1> HIDE DEF c
<1>4. Len(c.code) <= Len(c.code) /\ Reworked(c, c)
  BY <1>1, CodeIs DEF Reworked
<1>5. Traced(c, Owns(Front(ctl), l, c))
  <2>1. FewerFrames(ctl, Front(ctl), l)
    BY <1>2, PopBelow
  <2>2. \A t \in Tags, pc \in Nat : <<t, pc>> \in Owns(Front(ctl), l, c) => <<t, pc>> \in Owns(ctl, l, c)
    BY <2>1, OwnsLess
  <2> QED
    BY <1>1, <2>2, FewerTraced DEF Level
<1>6. Level(Front(ctl), l, c, stats)
  BY <1>1, <1>2, <1>3, <1>4, <1>5, LevelPop
<1>7. Ended(fs, c)
  BY <1>3, <1>a, NoLoopEnded
<1> QED
  BY <1>3, <1>6, <1>7, LeaveLevels

\* The jumps of T have come to where they are meant, and P no longer waits for them.
Arrived(c, O, T, P) ==
    /\ \A t \in Tags, pc \in Nat : <<t, pc>> \in P => <<t, pc>> \in O
    /\ NoDrops => \A x \in T : /\ x.pc \in Nat /\ Goes(c, x.pc) = x.at
                               /\ \E t \in Tags : <<t, x.pc>> \in O /\ <<t, x.pc>> \notin P

\* They have landed.
LEMMA ArrivedTraced ==
    ASSUME NEW c, NEW O, Traced(c, O), NEW d, SameCode(c, d), NEW T, d.lands = c.lands \cup T,
           NEW P, Arrived(c, O, T, P)
    PROVE  Traced(d, P)
BY LandTraced DEF Arrived

\* P waits for no jump of S that O waits for.
Released(O, S, P) ==
    /\ S \subseteq Nat \cup {NoJump}
    /\ \A t \in Tags, pc \in Nat : <<t, pc>> \in P => <<t, pc>> \in O
    /\ \A pc \in S : pc \in Nat => \E t \in Tags : <<t, pc>> \in O /\ <<t, pc>> \notin P

\* Jumps that are waited for are patched to where the code has come, and no longer waited for.
LEMMA LandedTraced ==
    ASSUME NEW c, NEW O, Traced(c, O), NEW S, NEW P, Released(O, S, P),
           NEW r, r = Lands(PatchAll(c, S, FuncLen(c)), S \ {NoJump})
    PROVE  /\ Traced(r, P) /\ Reworked(c, r) /\ Len(r.code) = Len(c.code)
           /\ r.breaks = c.breaks /\ r.owed = c.owed /\ r.in_loop = c.in_loop
<1> DEFINE at == FuncLen(c)
           d  == PatchAll(c, S, FuncLen(c))
           T  == {[pc |-> pc, at |-> at] : pc \in S \ {NoJump}}
<1>1. CompOK(c) /\ at = Len(c.code) /\ at \in Nat /\ at \in 0 .. Len(c.code) /\ at \in Int
      /\ DOMAIN c.code = 1 .. Len(c.code)
  BY CodeIs DEF Traced
<1>2. d = PatchAll(c, S, at)
  OBVIOUS
<1>3. /\ CompOK(d) /\ Len(d.code) = Len(c.code)
      /\ d.breaks = c.breaks /\ d.owed = c.owed /\ d.in_loop = c.in_loop
  BY <1>1, PatchCode
<1>a. r = Lands(d, S \ {NoJump})
  OBVIOUS
<1> HIDE DEF d
<1>b. FuncLen(d) = at
  BY <1>1, <1>3, CodeIs
<1> HIDE DEF at
<1>4. r = [d EXCEPT !.lands = @ \cup T]
  BY <1>a, <1>b, ZenonT(40) DEF Lands
<1>5. \A pc \in S : pc \in Nat => \E t \in Tags : <<t, pc>> \in O
  BY DEF Released
<1>6. /\ Traced(d, O)
      /\ \A pc \in Nat : JmpAt(c, pc) => Goes(d, pc) = IF pc \in S THEN at ELSE Goes(c, pc)
  BY <1>1, <1>2, <1>5, PatchTraced
<1>7. Reworked(c, d)
  BY <1>1, <1>2, <1>5, PatchReworked
<1>8. T \in SUBSET [pc : Int, at : Int]
  BY <1>1 DEF Released
<1>9. \A x \in T : x.pc \in Nat /\ x.pc \in S /\ x.at = at
  BY DEF Released
<1> HIDE DEF T
<1>10. CompOK(r)
  <2>1. Moved(d, [d EXCEPT !.lands = @ \cup T])
    BY <1>3, <1>8, MoreLands
  <2> QED
    BY <1>4, <2>1 DEF Moved
<1>11. /\ r.code = d.code /\ r.labels = d.labels /\ r.gotos = d.gotos /\ r.jumps = d.jumps
       /\ r.lands = d.lands \cup T /\ r.breaks = d.breaks /\ r.owed = d.owed /\ r.in_loop = d.in_loop
  BY <1>3, <1>4 DEF CompOK, Comp
<1>12. \A x \in T : /\ x.pc \in Nat /\ Goes(d, x.pc) = x.at
                    /\ \E t \in Tags : <<t, x.pc>> \in O /\ <<t, x.pc>> \notin P
  <2> SUFFICES ASSUME NEW x \in T
               PROVE  /\ x.pc \in Nat /\ Goes(d, x.pc) = x.at
                      /\ \E t \in Tags : <<t, x.pc>> \in O /\ <<t, x.pc>> \notin P
    OBVIOUS
  <2>1. PICK t \in Tags : <<t, x.pc>> \in O /\ <<t, x.pc>> \notin P
    BY <1>9 DEF Released
  <2>2. JmpAt(c, x.pc)
    BY <1>9, <2>1 DEF Traced, Apart
  <2> QED
    BY <1>6, <1>9, <2>1, <2>2
<1>13. Traced(r, P)
  <2>1. SameCode(d, r) /\ r.lands = d.lands \cup T
    BY <1>10, <1>11 DEF SameCode
  <2>2. Traced(d, O)
    BY <1>6
  <2>3. Arrived(d, O, T, P)
    BY <1>12 DEF Arrived, Released
  <2> QED
    BY <2>1, <2>2, <2>3, ArrivedTraced
<1> QED
  BY <1>3, <1>7, <1>11, <1>13 DEF Reworked

\* if ... end
LEMMA IfEndLevels == ASSUME IInv, BInv, IfEnd PROVE BInv'
<1> DEFINE c == LeaveBlock(Top, Open.saved)
           l == Len(fs)
           n == Len(ctl)
           S == {Open.jf} \cup ToSet(Open.ends)
           r == Lands(PatchAll(c, S, FuncLen(c)), S \ {NoJump})
           O == Owns(ctl, l, c)
           P == Owns(Front(ctl), l, c)
<1>1. /\ CompOK(c) /\ Coded(Top, c) /\ c.breaks = Top.breaks /\ c.owed = Top.owed
      /\ Level(ctl, l, c, stats) /\ \A o \in c.owed : OwedFits(ctl, l, o)
  BY LeftLevel
<1>2. /\ ctl \in Seq(FrameT) /\ ctl # <<>> /\ Open = ctl[n] /\ Open.comp = l /\ stats \in Int
      /\ Open \in FrameT /\ n \in DOMAIN ctl /\ n \in Nat
  BY LevelStart
<1>3. Open.k \in {"if", "else"} /\ Leave(r) /\ Open.k \notin LoopKinds
  BY DEF IfEnd, LoopKinds
<1>a. CompOK(Top) /\ Moved(Top, c)
  BY StartIs, OpenFrame, BlockIs
<1>4. Traced(c, O) /\ Open.jf \in Nat \cup {NoJump}
      /\ \A i \in DOMAIN Open.ends : Open.ends[i] \in Nat \cup {NoJump}
  BY <1>1, <1>2 DEF Level, Marks
<1>5. S \subseteq Nat \cup {NoJump}
  BY <1>4 DEF ToSet
<1>6. \A t \in Tags, pc \in Nat : <<t, pc>> \in P => <<t, pc>> \in O
  <2>1. FewerFrames(ctl, Front(ctl), l)
    BY <1>2, PopBelow
  <2> QED
    BY <2>1, OwnsLess
<1>7. \A pc \in S : pc \in Nat => \E t \in Tags : <<t, pc>> \in O /\ <<t, pc>> \notin P
  <2> SUFFICES ASSUME NEW pc \in S, pc \in Nat
               PROVE  \E t \in Tags : <<t, pc>> \in O /\ <<t, pc>> \notin P
    OBVIOUS
  <2>1. n \notin DOMAIN Front(ctl)
    BY <1>2, PopBelow
  <2>2. \A t \in Tags : t[2] = n /\ t[1] \in {"cond", "ends"} => <<t, pc>> \notin P
    <3> SUFFICES ASSUME NEW t \in Tags, t[2] = n, t[1] \in {"cond", "ends"}, <<t, pc>> \in P PROVE FALSE
      OBVIOUS
    <3>1. Claimed(Front(ctl), l, c, t, pc)
      BY OwnsIs
    <3> QED
      BY <2>1, <3>1 DEF Claimed
  <2>3. CASE pc = Open.jf
    <3> DEFINE t == <<"cond", n>>
    <3>1. t \in Tags /\ t[1] = "cond" /\ t[2] = n
      BY <1>2 DEF Tags
    <3> HIDE DEF t
    <3>2. Claimed(ctl, l, c, t, pc)
      BY <1>2, <2>3, <3>1 DEF Claimed
    <3> QED
      BY <2>2, <3>1, <3>2, OwnsIs
  <2>4. CASE \E i \in DOMAIN Open.ends : Open.ends[i] = pc
    <3> DEFINE t == <<"ends", n>>
    <3>1. t \in Tags /\ t[1] = "ends" /\ t[2] = n
      BY <1>2 DEF Tags
    <3> HIDE DEF t
    <3>2. Claimed(ctl, l, c, t, pc)
      BY <1>2, <2>4, <3>1 DEF Claimed
    <3> QED
      BY <2>2, <3>1, <3>2, OwnsIs
  <2> QED
    BY <2>3, <2>4 DEF ToSet
<1>b. r = Lands(PatchAll(c, S, FuncLen(c)), S \ {NoJump})
  OBVIOUS
<1>c. O = Owns(ctl, l, c) /\ P = Owns(Front(ctl), l, c)
  OBVIOUS
<1> HIDE DEF c, S, r, O, P
<1>8. /\ Traced(r, P) /\ Reworked(c, r) /\ Len(r.code) = Len(c.code)
      /\ r.breaks = c.breaks /\ r.owed = c.owed /\ r.in_loop = c.in_loop
  <2>1. Traced(c, O)
    BY <1>4
  <2>2. Released(O, S, P)
    BY <1>5, <1>6, <1>7 DEF Released
  <2> QED
    BY <1>b, <2>1, <2>2, LandedTraced
<1>9. r.gotos = c.gotos
  <2>1. \A x, y : Lands(x, y).gotos = x.gotos \/ x \notin Comp
    BY DEF Lands, Comp
  <2>2. CompOK(PatchAll(c, S, FuncLen(c))) /\ PatchAll(c, S, FuncLen(c)).gotos = c.gotos
    <3>1. FuncLen(c) \in Int
      BY <1>1, CodeIs, SMTT(30)
    <3> QED
      BY <1>1, <3>1, PatchCode
  <2> QED
    BY <1>b, <2>1, <2>2 DEF CompOK
<1>10. Traced(r, Owns(Front(ctl), l, r))
  <2>1. Owns(Front(ctl), l, r) = P
    BY <1>8, <1>9, <1>c DEF Owns, Claimed
  <2> QED
    BY <1>8, <2>1, SMTT(30)
<1>11. Len(c.code) <= Len(r.code) /\ Len(c.code) \in Nat
  BY <1>1, <1>8, CodeIs
<1>12. Level(Front(ctl), l, r, stats)
  BY <1>1, <1>2, <1>3, <1>8, <1>10, <1>11, LevelPop
<1>13. Ended(fs, r)
  <2>1. Moved(Top, r)
    <3>1. CompOK(r)
      BY <1>8 DEF Traced
    <3> DEFINE d == PatchAll(c, S, FuncLen(c))
    <3>2. CompOK(c)
      BY <1>1
    <3> HIDE DEF d
    <3>a. FuncLen(c) \in Int
      BY <3>2, CodeIs
    <3>3. Moved(c, d) /\ CompOK(d)
      BY <3>2, <3>a, PatchIs DEF Moved, d
    <3>4. S \ {NoJump} \in SUBSET Int
      <4>1. \A pc \in S \ {NoJump} : pc \in Int
        BY <1>5
      <4> QED
        BY <4>1
    <3> HIDE DEF d
    <3>5. r = Lands(d, S \ {NoJump})
      BY <1>b DEF d
    <3>6. Moved(d, r)
      BY <3>3, <3>4, <3>5, LandsIs
    <3> QED
      BY <1>1, <1>a, <3>3, <3>6, MovedTrans
  <2> QED
    BY <1>3, <2>1, NoLoopEnded
<1> QED
  BY <1>3, <1>12, <1>13, LeaveLevels

-----------------------------------------------------------------------------
(* Loops end *)

\* What the end of a loop has made of its function c before its breaks are patched:
\* O says what is waited for, X what the end itself waits for.
AtEnd(c, O, X) ==
    /\ Traced(c, O)
    /\ \A t \in Tags, pc \in Nat : <<t, pc>> \in Owns(ctl, Len(fs), c) => <<t, pc>> \in O
    /\ \A t \in Tags, pc \in Nat : <<t, pc>> \in X => <<t, pc>> \in O /\ t = <<"cond", Len(ctl) + 1>>
    /\ InLoops(ctl, Len(fs), c, stats)
    /\ \A o \in c.owed : OwedFits(ctl, Len(fs), o)
    /\ Open.sbreaks <= Len(c.breaks)
    /\ Open.jf = NoJump \/ (Open.jf \in Nat /\ Goes(c, Open.jf) = FuncLen(c))

\* What is waited for when the loop is over.
StillWaits(P, r, X) ==
    \A t \in Tags, pc \in Nat : <<t, pc>> \in P => <<t, pc>> \in Owns(Front(ctl), Len(fs), r) \/ <<t, pc>> \in X

\* What is closed is what waited.
LEMMA EndClosable ==
    ASSUME IInv, BInv, Open.k \in LoopKinds, NEW c, NEW O, NEW X, AtEnd(c, O, X), ~ PatchesWild(c, Open),
           NEW r, r.breaks = OuterBreaks(c, Open), r.gotos = c.gotos, NEW P, StillWaits(P, r, X)
    PROVE  Closable(c, Open, Len(ctl), O, P)
<1> DEFINE n == Len(ctl)
           l == Len(fs)
           J == Front(ctl)
           f == Open
<1>1. /\ ctl \in Seq(FrameT) /\ ctl # <<>> /\ f = ctl[n] /\ f.comp = l /\ n \in DOMAIN ctl /\ n \in Nat
      /\ f.sbreaks \in Nat /\ f.k \in LoopKinds
  BY LevelStart, OpenFrame
<1>2. /\ CompOK(c) /\ DOMAIN c.breaks = 1 .. Len(c.breaks) /\ Len(c.breaks) \in Nat
  BY LensNat DEF AtEnd, Traced
<1>3. /\ DOMAIN r.breaks = 1 .. f.sbreaks /\ \A i \in 1 .. f.sbreaks : i \in DOMAIN c.breaks /\ r.breaks[i] = c.breaks[i]
  <2> DEFINE m == f.sbreaks
  <2>1. m \in Nat /\ m <= Len(c.breaks) /\ r.breaks = SubSeq(c.breaks, 1, m) /\ c.breaks \in Seq(Int)
    BY <1>1, <1>2, LensNat DEF OuterBreaks, AtEnd
  <2> HIDE DEF m
  <2>2. /\ SubSeq(c.breaks, 1, m) \in Seq(Int) /\ Len(SubSeq(c.breaks, 1, m)) = m
        /\ \A i \in 1 .. m : SubSeq(c.breaks, 1, m)[i] = c.breaks[i]
    BY <2>1, PrefixIs
  <2>3. DOMAIN SubSeq(c.breaks, 1, m) = 1 .. m
    BY <2>2
  <2> QED
    BY <1>2, <2>1, <2>2, <2>3 DEF m
<1>4. n \notin DOMAIN J /\ FewerFrames(ctl, J, l)
  BY <1>1, PopBelow
<1> HIDE DEF n, l, J, f
<1>5. \A i \in DOMAIN c.breaks : c.breaks[i] \in Nat => <<<<"break", i>>, c.breaks[i]>> \in O
  <2> SUFFICES ASSUME NEW i \in DOMAIN c.breaks, c.breaks[i] \in Nat
               PROVE  <<<<"break", i>>, c.breaks[i]>> \in O
    OBVIOUS
  <2> DEFINE t  == <<"break", i>>
             pc == c.breaks[i]
  <2>1. t \in Tags /\ t[1] = "break" /\ t[2] = i /\ pc \in Nat /\ c.breaks[i] = pc
    BY <1>2 DEF Tags
  <2> HIDE DEF t, pc
  <2>2. Claimed(ctl, l, c, t, pc)
    BY <2>1 DEF Claimed
  <2>3. <<t, pc>> \in O
    BY <2>1, <2>2, OwnsIs DEF AtEnd, l
  <2> QED
    BY <2>3 DEF t, pc
<1>6. f.jf = NoJump \/ (f.jf \in Nat /\ <<<<"cond", n>>, f.jf>> \in O /\ Goes(c, f.jf) = FuncLen(c))
  <2> SUFFICES ASSUME f.jf # NoJump
               PROVE  f.jf \in Nat /\ <<<<"cond", n>>, f.jf>> \in O /\ Goes(c, f.jf) = FuncLen(c)
    OBVIOUS
  <2>1. f.jf \in Nat /\ Goes(c, f.jf) = FuncLen(c)
    BY DEF AtEnd, f
  <2> DEFINE t  == <<"cond", n>>
             pc == f.jf
  <2>2. t \in Tags /\ t[1] = "cond" /\ t[2] = n /\ pc \in Nat /\ ctl[n].jf = pc
    BY <1>1, <2>1 DEF Tags
  <2> HIDE DEF t, pc
  <2>3. Claimed(ctl, l, c, t, pc)
    BY <1>1, <2>2 DEF Claimed
  <2>4. <<t, pc>> \in O
    BY <2>2, <2>3, OwnsIs DEF AtEnd, l
  <2> QED
    BY <2>1, <2>4 DEF t, pc
<1>7. NoDrops => \A pc \in Owed(c) : \E i \in DOMAIN c.breaks : i > f.sbreaks /\ c.breaks[i] = pc /\ pc \in Nat
  <2> SUFFICES ASSUME NoDrops, NEW pc \in Owed(c)
               PROVE  \E i \in DOMAIN c.breaks : i > f.sbreaks /\ c.breaks[i] = pc /\ pc \in Nat
    OBVIOUS
  <2>1. PICK o \in c.owed : o.loop = n /\ o.pc = pc
    BY DEF Owed, n
  <2>2. PICK i \in DOMAIN c.breaks : InWindow(ctl, l, c, o, i)
    BY DEF AtEnd, InLoops, l
  <2>3. ctl[n].sbreaks < i /\ c.breaks[i] = (IF pc = NoJump THEN Wild ELSE pc) /\ pc \in Nat \cup {NoJump}
    BY <2>1, <2>2 DEF InWindow
  <2>4. i > f.sbreaks
    BY <1>1, <1>2, <2>3
  <2>5. c.breaks[i] # Wild
    BY <1>1, <1>2, <2>4, OwnIs DEF PatchesWild, f
  <2> QED
    BY <2>3, <2>4, <2>5
<1>8. \A t \in Tags, pc \in Nat : <<t, pc>> \in P => <<t, pc>> \in O
  <2>1. \A t \in Tags, pc \in Nat : <<t, pc>> \in Owns(J, l, r) => <<t, pc>> \in Owns(ctl, l, c)
    BY <1>3, <1>4, OwnsLess
  <2> QED
    BY <2>1 DEF AtEnd, StillWaits, J, l
<1>9. \A pc \in Nat : <<<<"cond", n>>, pc>> \notin P
  <2> SUFFICES ASSUME NEW pc \in Nat, <<<<"cond", n>>, pc>> \in P PROVE FALSE
    OBVIOUS
  <2> DEFINE t == <<"cond", n>>
  <2>1. t \in Tags /\ t[1] = "cond" /\ t[2] = n /\ <<t, pc>> \in P /\ t # <<"cond", n + 1>>
    BY <1>1 DEF Tags
  <2> HIDE DEF t
  <2>2. <<t, pc>> \in Owns(J, l, r)
    BY <2>1 DEF AtEnd, StillWaits, J, l, n
  <2>3. Claimed(J, l, r, t, pc)
    BY <2>1, <2>2, OwnsIs
  <2> QED
    BY <1>4, <2>1, <2>3 DEF Claimed
<1>10. \A i \in DOMAIN c.breaks, pc \in Nat : i > f.sbreaks => <<<<"break", i>>, pc>> \notin P
  <2> SUFFICES ASSUME NEW i \in DOMAIN c.breaks, NEW pc \in Nat, i > f.sbreaks, <<<<"break", i>>, pc>> \in P PROVE FALSE
    OBVIOUS
  <2> DEFINE t == <<"break", i>>
  <2>1. t \in Tags /\ t[1] = "break" /\ t[2] = i /\ <<t, pc>> \in P /\ t # <<"cond", n + 1>>
    BY <1>1, <1>2 DEF Tags
  <2> HIDE DEF t
  <2>2. <<t, pc>> \in Owns(J, l, r)
    BY <2>1 DEF AtEnd, StillWaits, J, l, n
  <2>3. Claimed(J, l, r, t, pc)
    BY <2>1, <2>2, OwnsIs
  <2>4. i \in 1 .. f.sbreaks
    BY <1>3, <2>1, <2>3 DEF Claimed
  <2> QED
    BY <1>1, <2>4
<1> QED
  BY <1>5, <1>6, <1>7, <1>8, <1>9, <1>10 DEF Closable, f, n

\* The breaks of a loop are patched and dropped.
LEMMA LoopClosed ==
    ASSUME IInv, BInv, Open.k \in LoopKinds, NEW c, NEW O, NEW X, AtEnd(c, O, X), ~ PatchesWild(c, Open),
           NEW r, r = CloseLoop(c, Open), CompOK(r), NEW P, StillWaits(P, r, X)
    PROVE  /\ Traced(r, P) /\ Reworked(c, r) /\ Len(r.code) = Len(c.code)
           /\ InLoops(Front(ctl), Len(fs), r, stats)
           /\ \A t \in Tags, pc \in Nat : <<t, pc>> \in O /\ t[1] # "break" => Goes(r, pc) = Goes(c, pc)
<1> DEFINE n == Len(ctl)
           l == Len(fs)
           f == Open
<1>1. /\ ctl \in Seq(FrameT) /\ ctl # <<>> /\ f = ctl[n] /\ f.comp = l /\ n \in Nat /\ stats \in Nat
      /\ f.sbreaks \in Nat /\ f.k \in LoopKinds
  BY LevelStart, OpenFrame
<1>2. CompOK(c) /\ Traced(c, O)
  BY DEF AtEnd, Traced
<1>3. /\ r.gotos = c.gotos /\ r.breaks = OuterBreaks(c, f) /\ r.in_loop = (c.in_loop - 1) % U8
      /\ r.owed = {o \in c.owed : o.loop # n}
  <2> DEFINE d == PatchAll(c, ToSet(OwnBreaks(c, f)), FuncLen(c))
  <2>1. d = PatchAll(c, ToSet(OwnBreaks(c, f)), FuncLen(c))
    OBVIOUS
  <2> HIDE DEF d
  <2>2. ClosedAs(c, f, d, CloseLoop(c, f))
    BY <1>2, <2>1, CloseIs
  <2> QED
    BY <2>2 DEF ClosedAs
<1>4. Closable(c, f, n, O, P)
  BY <1>3, EndClosable
<1>5. r = CloseLoop(c, f)
  OBVIOUS
<1>6. /\ InLoops(ctl, l, c, stats) /\ f.sbreaks <= Len(c.breaks)
      /\ \A o \in c.owed : OwedFits(ctl, l, o)
  BY DEF AtEnd
<1> HIDE DEF n, l, f
<1>7. /\ Traced(r, P) /\ Reworked(c, r) /\ Len(r.code) = Len(c.code)
      /\ \A t \in Tags, pc \in Nat : <<t, pc>> \in O /\ t[1] # "break" => Goes(r, pc) = Goes(c, pc)
  BY <1>1, <1>2, <1>4, <1>5, CloseTraced
<1>8. InLoops(Front(ctl), l, r, stats)
  BY <1>1, <1>2, <1>3, <1>6, InLoopsPop DEF n
<1> QED
  BY <1>7, <1>8 DEF l

\* A level whose loop has ended.
LEMMA LoopLevel ==
    ASSUME IInv, BInv, NEW r, Traced(r, Owns(Front(ctl), Len(fs), r)),
           InLoops(Front(ctl), Len(fs), r, stats), Len(Top.code) <= Len(r.code),
           NEW g, CompOK(g), Coded(r, g), Paired(Front(ctl), Len(fs), g)
    PROVE  Level(Front(ctl), Len(fs), g, stats)
<1> DEFINE J == Front(ctl)
           l == Len(fs)
<1>1. /\ ctl \in Seq(FrameT) /\ ctl # <<>> /\ Level(ctl, l, Top, stats) /\ CompOK(Top)
  BY LevelStart
<1>2. \A m \in DOMAIN J : m \in DOMAIN ctl /\ J[m] = ctl[m]
  BY <1>1, PopBelow
<1>3. CompOK(r) /\ Len(Top.code) \in Nat /\ Len(r.code) \in Nat /\ Len(g.code) \in Nat
      /\ Len(r.code) <= Len(g.code) /\ Len(Top.code) <= Len(g.code)
  <2>1. CompOK(r)
    BY DEF Traced
  <2>2. Len(Top.code) \in Nat /\ Len(r.code) \in Nat /\ Len(g.code) \in Nat
    BY <1>1, <2>1, CodeIs
  <2>3. Len(r.code) <= Len(g.code)
    BY DEF Coded
  <2> QED
    BY <2>1, <2>2, <2>3
<1>4. g.breaks = r.breaks /\ g.gotos = r.gotos /\ g.owed = r.owed /\ g.in_loop = r.in_loop
  BY DEF Coded
<1> HIDE DEF J, l
<1>5. Marks(J, l, g)
  BY <1>1, <1>2, <1>3 DEF Level, Marks
<1>6. InLoops(J, l, g, stats)
  BY <1>4 DEF InLoops, InWindow, J, l
<1>7. Traced(g, Owns(J, l, g))
  <2>1. Owns(J, l, g) = Owns(J, l, r)
    BY <1>4 DEF Owns, Claimed
  <2>2. Longer(r, g)
    BY <1>3, CodedLonger
  <2>3. Traced(r, Owns(J, l, r))
    BY DEF J, l
  <2> QED
    BY <2>1, <2>2, <2>3, LongerTraced
<1>8. Paired(J, l, g)
  BY DEF J, l
<1> QED
  BY <1>5, <1>6, <1>7, <1>8 DEF Level, J, l

\* A loop that is no for loop leaves the for loops paired.
LEMMA OtherPaired ==
    ASSUME IInv, BInv, Open.k \in {"while", "repeat"}, NEW c, Paired(ctl, Len(fs), c), NEW r, Reworked(c, r)
    PROVE  Paired(Front(ctl), Len(fs), r)
<1> DEFINE J == Front(ctl)
           n == Len(ctl)
           l == Len(fs)
<1>1. ctl \in Seq(FrameT) /\ ctl # <<>> /\ Open = ctl[n]
  BY LevelStart
<1>2. /\ \A m \in DOMAIN J : m \in DOMAIN ctl /\ J[m] = ctl[m]
      /\ \A m \in DOMAIN ctl : m # n => m \in DOMAIN J
  BY <1>1, PopBelow
<1> HIDE DEF J, n
<1>3. SameFors(ctl, J, l)
  BY <1>1, <1>2 DEF SameFors
<1> QED
  BY <1>3, PairedSame DEF J

\* while ... end
LEMMA WhileEndLevels == ASSUME IInv, BInv, WhileEnd PROVE BInv'
<1> DEFINE c == LeaveBlock(Top, Open.saved)
           i == Jump(Open.top - (FuncLen(c) + 1))
           d == Emit(c, i)
           p == Patch(d, Open.jf, FuncLen(d))
           r == CloseLoop(p, Open)
           l == Len(fs)
           n == Len(ctl)
           O == Owns(ctl, l, c)
           P == Owns(Front(ctl), l, r)
<1>1. Open.k = "while" /\ (GoWild \/ (~ PatchesWild(c, Open) /\ Leave(r)))
  BY DEF WhileEnd
<1>2. /\ CompOK(c) /\ Coded(Top, c) /\ c.breaks = Top.breaks /\ c.owed = Top.owed
      /\ Level(ctl, l, c, stats) /\ \A o \in c.owed : OwedFits(ctl, l, o)
      /\ Len(c.code) = Len(Top.code)
  BY LeftLevel
<1>3. Ended(fs, r)
  BY WhileEnded
<1>4. /\ ctl \in Seq(FrameT) /\ ctl # <<>> /\ Open = ctl[n] /\ Open.comp = l /\ n \in DOMAIN ctl /\ n \in Nat
      /\ Open.sbreaks <= Len(Top.breaks) /\ stats \in Int
  BY LevelStart, OpenFrame
<1>5. SUFFICES ASSUME ~ PatchesWild(c, Open), Leave(r) PROVE BInv'
  BY <1>1, WildLevels
<1>a. /\ i = Jump(Open.top - (FuncLen(c) + 1)) /\ d = Emit(c, i) /\ p = PatchAll(d, {Open.jf}, FuncLen(d))
      /\ r = CloseLoop(p, Open) /\ O = Owns(ctl, l, c) /\ P = Owns(Front(ctl), l, r)
  BY DEF Patch
<1> HIDE DEF c, i, d, p, r, O, P
<1>6. /\ Traced(c, O) /\ Open.jf \in Nat \cup {NoJump} /\ Open.top \in 0 .. Len(c.code)
      /\ InLoops(ctl, l, c, stats) /\ Paired(ctl, l, c)
  BY <1>1, <1>2, <1>4, <1>a DEF Level, Marks
<1>7. FuncLen(c) = Len(c.code) /\ Len(c.code) \in Nat /\ Open.top \in Nat
  BY <1>2, <1>6, CodeIs
<1>8. i \in Instrs /\ i.op = "JMP" /\ i.a + (Len(c.code) + 1) \in 0 .. Len(c.code) + 1
  <2>1. i \in Instrs
    BY <1>7, <1>a, JumpType
  <2>2. i.op = "JMP" /\ i.a = Open.top - (Len(c.code) + 1)
    BY <1>7, <1>a DEF Jump, Instr
  <2> QED
    BY <1>6, <1>7, <2>1, <2>2
<1>9. /\ Longer(c, d) /\ CompOK(d) /\ Reworked(c, d)
      /\ d.breaks = c.breaks /\ d.owed = c.owed /\ d.in_loop = c.in_loop /\ d.gotos = c.gotos
      /\ Len(c.code) <= Len(d.code) /\ FuncLen(d) = Len(d.code) /\ Len(d.code) \in Nat
  <2>1. /\ Longer(c, d) /\ CompOK(d) /\ (i.op \notin Looping => Reworked(c, d))
        /\ d.breaks = c.breaks /\ d.owed = c.owed /\ d.in_loop = c.in_loop
    BY <1>2, <1>8, <1>a, EmitLonger, SMTT(30)
  <2>2. i.op \notin Looping
    BY <1>8 DEF Looping
  <2> QED
    BY <2>1, <2>2, CodeIs DEF Longer
<1>10. Traced(d, O)
  BY <1>6, <1>9, LongerTraced
<1>11. \A pc \in {Open.jf} : pc \in Nat => \E t \in Tags : <<t, pc>> \in O
  <2> SUFFICES ASSUME Open.jf \in Nat PROVE \E t \in Tags : <<t, Open.jf>> \in O
    OBVIOUS
  <2> DEFINE t  == <<"cond", n>>
             pc == Open.jf
  <2>1. t \in Tags /\ t[1] = "cond" /\ t[2] = n /\ pc \in Nat /\ ctl[n].jf = pc
    BY <1>4 DEF Tags
  <2> HIDE DEF t, pc
  <2>2. Claimed(ctl, l, c, t, pc)
    BY <1>4, <2>1 DEF Claimed
  <2>3. <<t, pc>> \in O
    BY <1>a, <2>1, <2>2, OwnsIs
  <2> QED
    BY <2>1, <2>3 DEF pc
<1> DEFINE S  == {Open.jf}
           at == FuncLen(d)
<1>b. p = PatchAll(d, S, at) /\ at \in 0 .. Len(d.code) /\ at \in Int
      /\ \A pc \in S : pc \in Nat => \E t \in Tags : <<t, pc>> \in O
  <2>1. p = PatchAll(d, S, at)
    BY <1>a
  <2>2. \A pc \in S : pc \in Nat => \E t \in Tags : <<t, pc>> \in O
    BY <1>11
  <2>3. at \in 0 .. Len(d.code) /\ at \in Int
    BY <1>9
  <2> QED
    BY <2>1, <2>2, <2>3
<1>c. Open.jf \in S /\ at = FuncLen(d)
  OBVIOUS
<1> HIDE DEF S, at
<1>12. /\ Traced(p, O)
       /\ \A pc \in Nat : JmpAt(d, pc) => Goes(p, pc) = IF pc \in S THEN at ELSE Goes(d, pc)
  BY <1>10, <1>b, PatchTraced
<1>13. Reworked(d, p)
  BY <1>10, <1>b, PatchReworked
<1>14. /\ CompOK(p) /\ Len(p.code) = Len(d.code) /\ p.breaks = d.breaks /\ p.owed = d.owed
       /\ p.in_loop = d.in_loop /\ p.gotos = d.gotos
  BY <1>9, <1>b, PatchCode
<1>15. Open.jf = NoJump \/ (Open.jf \in Nat /\ Goes(p, Open.jf) = FuncLen(p))
  <2> SUFFICES ASSUME Open.jf \in Nat PROVE Goes(p, Open.jf) = FuncLen(p)
    BY <1>6
  <2>1. FuncLen(p) = FuncLen(d)
    BY <1>14 DEF FuncLen
  <2>2. JmpAt(d, Open.jf)
    BY <1>10, <1>11 DEF Traced, Apart
  <2> QED
    BY <1>12, <1>c, <2>1, <2>2
<1>16. AtEnd(p, O, {})
  <2>1. \A t \in Tags, pc \in Nat : <<t, pc>> \in Owns(ctl, l, p) => <<t, pc>> \in O
    <3>1. p.breaks = c.breaks /\ p.gotos = c.gotos
      BY <1>9, <1>14
    <3>2. Owns(ctl, l, p) = Owns(ctl, l, c)
      BY <3>1 DEF Owns, Claimed
    <3> QED
      BY <1>a, <3>2
  <2>2. InLoops(ctl, l, p, stats)
    BY <1>6, <1>9, <1>14 DEF InLoops, InWindow
  <2> QED
    BY <1>2, <1>4, <1>9, <1>12, <1>14, <1>15, <2>1, <2>2 DEF AtEnd
<1>17. /\ Traced(r, P) /\ Reworked(p, r) /\ Len(r.code) = Len(p.code)
       /\ InLoops(Front(ctl), l, r, stats)
  <2>1. StillWaits(P, r, {})
    BY <1>a DEF StillWaits
  <2>2. ~ PatchesWild(p, Open)
    BY <1>5, <1>9, <1>14 DEF PatchesWild, OwnBreaks
  <2>3. CompOK(r) /\ Open.k \in LoopKinds
    BY <1>1, <1>3 DEF Ended, LoopKinds
  <2> QED
    BY <1>16, <1>a, <2>1, <2>2, <2>3, LoopClosed
<1>18. Paired(Front(ctl), l, r)
  <2>1. Reworked(c, r)
    BY <1>9, <1>13, <1>17, ReworkedTrans
  <2> QED
    BY <1>1, <1>6, <2>1, OtherPaired
<1>19. Level(Front(ctl), l, r, stats)
  <2>1. Coded(r, r) /\ CompOK(r)
    BY <1>3, SameCoded DEF Ended
  <2>2. Len(Top.code) <= Len(r.code)
    BY <1>2, <1>7, <1>9, <1>14, <1>17
  <2> QED
    BY <1>17, <1>18, <1>a, <2>1, <2>2, LoopLevel
<1> QED
  BY <1>3, <1>5, <1>19, LeaveLevels

\* repeat ... until
LEMMA RepeatEndLevels == ASSUME IInv, BInv, NEW e \in CondExps, RepeatEnd(e) PROVE BInv'
<1> DEFINE F    == Cond(fs, e)
           b    == TopOf(F)
           back == CondJump(fs, e)
           top  == Open.top
           S    == {back}
           c    == Patch(b, back, Open.top)
           x    == CloseLoop(c, Open)
           T    == {[pc |-> pc, at |-> Open.top] : pc \in Real(back)}
           d    == [x EXCEPT !.lands = @ \cup T]
           r    == LeaveBlock(d, Open.saved)
           l    == Len(fs)
           n    == Len(ctl)
           tag  == <<"cond", n + 1>>
           X    == {<<tag, pc>> : pc \in Real(back)}
           O    == Owns(ctl, l, Top) \cup X
           P    == Owns(Front(ctl), l, x) \cup X
           W    == Owns(Front(ctl), l, d)
<1>1. /\ Open.k = "repeat"
      /\ GoWild \/ (/\ ~ PatchesWild(c, Open) /\ fs' = On(F, r) /\ ctl' = Front(ctl)
                    /\ UNCHANGED <<heap, stats, final>>)
  BY DEF RepeatEnd
<1>2. /\ CompOK(Top) /\ Top = TopOf(fs) /\ FsOK(fs) /\ e \in Values
      /\ Open.saved \in Reg /\ Open.saved <= Len(Top.locals)
  BY StartIs, OpenFrame, ScriptAssumption
<1>3. /\ ctl \in Seq(FrameT) /\ ctl # <<>> /\ Open = ctl[n] /\ Open.comp = l /\ n \in DOMAIN ctl /\ n \in Nat
      /\ Open.sbreaks <= Len(Top.breaks) /\ stats \in Int
      /\ Level(ctl, l, Top, stats) /\ \A o \in Top.owed : OwedFits(ctl, l, o)
  BY LevelStart, OpenFrame
<1>4. SUFFICES ASSUME ~ PatchesWild(c, Open), fs' = On(F, r), ctl' = Front(ctl), UNCHANGED <<heap, stats, final>>
               PROVE  BInv'
  BY <1>1, WildLevels
<1>5. /\ FsKept(fs, F) /\ CompOK(b) /\ Coded(Top, b) /\ back \in Int
      /\ back = NoJump \/ (JmpAt(b, back) /\ back >= Len(Top.code))
  BY <1>2, CondIs
<1>6. /\ Traced(Top, Owns(ctl, l, Top)) /\ Open.jf = NoJump /\ top \in 0 .. Len(Top.code)
      /\ InLoops(ctl, l, Top, stats) /\ Paired(ctl, l, Top)
  BY <1>1, <1>3 DEF Level, Marks
<1>7. FsMoved(fs, F) /\ b.locals = Top.locals
  BY <1>2, <1>5, KeptMoved, FsKeptTop DEF Kept
<1>a. /\ b = TopOf(F) /\ c = PatchAll(b, S, top) /\ x = CloseLoop(c, Open) /\ d = [x EXCEPT !.lands = @ \cup T]
      /\ r = LeaveBlock(d, Open.saved) /\ top = Open.top
      /\ \A pc : pc \in S <=> pc = back
  BY DEF Patch
<1>b. /\ \A z \in T : z.pc = back /\ back # NoJump /\ z.at = top
      /\ \A t \in Tags, pc \in Nat : <<t, pc>> \in X <=> (t = tag /\ pc = back /\ back # NoJump)
      /\ \A t \in Tags, pc \in Nat : <<t, pc>> \in O <=> <<t, pc>> \in Owns(ctl, l, Top) \/ <<t, pc>> \in X
      /\ \A t \in Tags, pc \in Nat : <<t, pc>> \in P <=> <<t, pc>> \in Owns(Front(ctl), l, x) \/ <<t, pc>> \in X
      /\ W = Owns(Front(ctl), l, d)
  BY DEF Real
<1>c. T \in SUBSET [pc : Int, at : Int]
  <2>1. top \in Int
    BY <1>6
  <2> QED
    BY <1>5, <2>1 DEF Real
<1>d. tag \in Tags /\ tag[1] = "cond" /\ tag[2] = n + 1 /\ tag = <<"cond", n + 1>>
  BY <1>3 DEF Tags
<1> HIDE DEF F, b, back, top, S, c, x, T, d, r, tag, X, O, P, W
<1>8. /\ Len(Top.code) \in Nat /\ Len(b.code) \in Nat /\ Len(Top.code) <= Len(b.code)
      /\ b.breaks = Top.breaks /\ b.owed = Top.owed /\ b.in_loop = Top.in_loop /\ b.gotos = Top.gotos
  BY <1>2, <1>5, CodeIs DEF Coded
<1>9. Longer(Top, b) /\ Reworked(Top, b)
  BY <1>2, <1>5, CodedLonger, CodedReworked
<1>10. Traced(b, O)
  <2>1. CASE back = NoJump
    <3>1. \A t \in Tags, pc \in Nat : <<t, pc>> \in O => <<t, pc>> \in Owns(ctl, l, Top)
      BY <1>b, <2>1
    <3>2. Traced(b, Owns(ctl, l, Top))
      BY <1>6, <1>9, LongerTraced
    <3> QED
      BY <3>1, <3>2, FewerTraced
  <2>2. CASE back # NoJump
    <3>1. back \in Nat /\ JmpAt(b, back) /\ back >= Len(Top.code)
      BY <1>5, <2>2 DEF JmpAt
    <3>2. \A u \in Tags, p \in Nat : <<u, p>> \in O => <<u, p>> \in Owns(ctl, l, Top) \/ (u = tag /\ p = back)
      BY <1>b
    <3>3. Traced(Top, Owns(ctl, l, Top))
      BY <1>6
    <3> QED
      BY <1>9, <1>d, <3>1, <3>2, <3>3, ClaimTraced
  <2> QED
    BY <2>1, <2>2
<1>11. \A pc \in S : pc \in Nat => \E t \in Tags : <<t, pc>> \in O
  BY <1>a, <1>b, <1>d DEF NoJump
<1>12. top \in 0 .. Len(b.code) /\ top \in Int
  BY <1>6, <1>8
<1>13. /\ Traced(c, O)
       /\ \A pc \in Nat : JmpAt(b, pc) => Goes(c, pc) = IF pc \in S THEN top ELSE Goes(b, pc)
  BY <1>10, <1>11, <1>12, <1>a, PatchTraced
<1>14. Reworked(b, c)
  BY <1>10, <1>11, <1>12, <1>a, PatchReworked
<1>15. /\ CompOK(c) /\ Len(c.code) = Len(b.code) /\ c.breaks = b.breaks /\ c.owed = b.owed
       /\ c.in_loop = b.in_loop /\ c.gotos = b.gotos
  BY <1>5, <1>12, <1>a, PatchCode
<1>16. Moved(TopOf(F), c)
  BY <1>5, <1>12, <1>a, PatchIs
<1>17. CompOK(x) /\ x.locals = Top.locals
  <2>1. Ended(F, x) /\ x.locals = c.locals
    BY <1>7, <1>16, <1>a, CloseLoopEnded
  <2>2. c.locals = b.locals
    BY <1>5, <1>12, <1>a, PatchIs
  <2> QED
    BY <1>7, <2>1, <2>2 DEF Ended
<1>18. AtEnd(c, O, X)
  <2>1. \A t \in Tags, pc \in Nat : <<t, pc>> \in Owns(ctl, l, c) => <<t, pc>> \in O
    <3>1. c.breaks = Top.breaks /\ c.gotos = Top.gotos
      BY <1>8, <1>15
    <3>2. Owns(ctl, l, c) = Owns(ctl, l, Top)
      BY <3>1 DEF Owns, Claimed
    <3> QED
      BY <1>b, <3>2
  <2>2. \A t \in Tags, pc \in Nat : <<t, pc>> \in X => <<t, pc>> \in O /\ t = <<"cond", n + 1>>
    BY <1>b, <1>d
  <2>3. InLoops(ctl, l, c, stats)
    BY <1>6, <1>8, <1>15 DEF InLoops, InWindow
  <2> QED
    BY <1>3, <1>6, <1>8, <1>13, <1>15, <2>1, <2>2, <2>3 DEF AtEnd
<1>19. /\ Traced(x, P) /\ Reworked(c, x) /\ Len(x.code) = Len(c.code)
       /\ InLoops(Front(ctl), l, x, stats)
       /\ \A t \in Tags, pc \in Nat : <<t, pc>> \in O /\ t[1] # "break" => Goes(x, pc) = Goes(c, pc)
  <2>1. StillWaits(P, x, X)
    BY <1>b DEF StillWaits
  <2>2. Open.k \in LoopKinds
    BY <1>1 DEF LoopKinds
  <2> QED
    BY <1>4, <1>17, <1>18, <1>a, <2>1, <2>2, LoopClosed
<1>20. /\ Moved(x, d) /\ CompOK(d) /\ d.locals = x.locals
  <2>1. Moved(x, [x EXCEPT !.lands = @ \cup T]) /\ [x EXCEPT !.lands = @ \cup T].locals = x.locals
    BY <1>17, <1>c, MoreLands
  <2> QED
    BY <1>a, <2>1 DEF Moved
<1>21. /\ d.code = x.code /\ d.labels = x.labels /\ d.gotos = x.gotos /\ d.jumps = x.jumps
       /\ d.lands = x.lands \cup T /\ d.breaks = x.breaks /\ d.owed = x.owed /\ d.in_loop = x.in_loop
  BY <1>17, <1>a, SMTT(30) DEF CompOK, Comp
<1>22. W = Owns(Front(ctl), l, x)
  BY <1>21, <1>b DEF Owns, Claimed
<1>23. Traced(d, W)
  <2>1. SameCode(x, d)
    BY <1>20, <1>21 DEF SameCode
  <2>2. \A t \in Tags, pc \in Nat : <<t, pc>> \in W => <<t, pc>> \in P
    BY <1>22, <1>b
  <2>3. ASSUME NEW z \in T
        PROVE  /\ z.pc \in Nat /\ Goes(x, z.pc) = z.at
               /\ \E t \in Tags : <<t, z.pc>> \in P /\ <<t, z.pc>> \notin W
    <3>1. z.pc = back /\ back # NoJump /\ z.at = top
      BY <1>b
    <3>2. JmpAt(b, back) /\ back \in Nat
      BY <1>5, <3>1 DEF JmpAt
    <3>3. <<tag, back>> \in X /\ <<tag, back>> \in O /\ <<tag, back>> \in P
      BY <1>b, <1>d, <3>1, <3>2
    <3>4. Goes(x, back) = top
      <4>1. Goes(c, back) = top
        BY <1>13, <1>a, <3>2
      <4>2. Goes(x, back) = Goes(c, back)
        BY <1>19, <1>d, <3>2, <3>3
      <4> QED
        BY <4>1, <4>2
    <3>5. <<tag, back>> \notin W
      <4> SUFFICES ASSUME <<tag, back>> \in W PROVE FALSE
        OBVIOUS
      <4>1. Claimed(Front(ctl), l, d, tag, back)
        BY <1>b, <1>d, <3>2, OwnsIs
      <4>2. n + 1 \notin DOMAIN Front(ctl)
        BY <1>3, PopBelow
      <4> QED
        BY <1>d, <4>1, <4>2 DEF Claimed
    <3> QED
      BY <1>d, <3>1, <3>2, <3>3, <3>4, <3>5
  <2>4. Arrived(x, P, T, W)
    BY <2>2, <2>3 DEF Arrived
  <2>5. Traced(x, P)
    BY <1>19
  <2> QED
    BY <1>21, <2>1, <2>4, <2>5, ArrivedTraced
<1>24. CompOK(r) /\ Coded(d, r)
  <2>1. CompOK(r)
    <3> DEFINE saved == Open.saved
    <3>1. saved \in Reg /\ saved <= Len(d.locals) /\ r = LeaveBlock(d, saved)
      BY <1>2, <1>17, <1>20, <1>a
    <3> HIDE DEF saved
    <3>2. Moved(d, LeaveBlock(d, saved))
      BY <1>20, <3>1, BlockIs
    <3> QED
      BY <3>1, <3>2 DEF Moved
  <2> QED
    BY <1>20, <1>a, <2>1, BlockCoded
<1>25. Paired(Front(ctl), l, r)
  <2>1. Reworked(d, r)
    BY <1>20, <1>24, CodedReworked
  <2>2. Reworked(x, d)
    BY <1>17, <1>21 DEF Reworked
  <2>3. Reworked(Top, c)
    BY <1>9, <1>14, ReworkedTrans
  <2>4. Reworked(Top, x)
    BY <1>19, <2>3, ReworkedTrans
  <2>5. Reworked(Top, d)
    BY <2>2, <2>4, ReworkedTrans
  <2>6. Reworked(Top, r)
    BY <2>1, <2>5, ReworkedTrans
  <2> QED
    BY <1>1, <1>6, <2>6, OtherPaired
<1>26. InLoops(Front(ctl), l, d, stats)
  BY <1>19, <1>21 DEF InLoops, InWindow
<1>27. Level(Front(ctl), l, r, stats)
  <2>1. Len(Top.code) <= Len(d.code)
    BY <1>8, <1>15, <1>19, <1>21
  <2> QED
    BY <1>23, <1>24, <1>25, <1>26, <1>b, <2>1, LoopLevel
<1>28. BelowKept(fs, F)
  BY <1>5, KeptBelow
<1> QED
  BY <1>4, <1>24, <1>27, <1>28, EndedLevels

-----------------------------------------------------------------------------
(* For loops end *)

\* What the instruction at i, if a loop's, looks for is there.
SelfMatched(c, i) ==
    /\ c.code[i].op = "FORLOOP" => OpAt(c, i - c.code[i].b, "FORPREP")
    /\ c.code[i].op = "TFORLOOP" => OpAt(c, i - c.code[i].b, "TFORPREP")
    /\ c.code[i].op = "FORPREP" => OpAt(c, i + c.code[i].b + 1, "FORLOOP")
    /\ c.code[i].op = "TFORPREP" => OpAt(c, i + c.code[i].b + 1, "TFORCALL")

\* The end of the for loop whose first instruction is at top has made g of c.
Relooped(c, g, top) ==
    /\ \A i \in DOMAIN c.code : i \in DOMAIN g.code /\ g.code[i].op = c.code[i].op
    /\ heap # "full" =>
         /\ \A i \in DOMAIN c.code : i # top /\ c.code[i].op # "JMP" => g.code[i].b = c.code[i].b
         /\ \A i \in DOMAIN g.code : i \notin DOMAIN c.code \/ i = top => SelfMatched(g, i)

\* The instructions of the other for loops still find each other.
LEMMA LoopPaired ==
    ASSUME NEW K, K \in Seq(FrameT), K # <<>>, NEW l, NEW f, f = K[Len(K)], f.comp = l,
           f.top \in Int, heap = "full" \/ f.prep = f.top - 1,
           NEW c, CompOK(c), Paired(K, l, c), NEW g, Relooped(c, g, f.top)
    PROVE  Paired(Front(K), l, g)
<1> DEFINE J == Front(K)
           n == Len(K)
           top == f.top
<1>1. /\ \A m \in DOMAIN J : m \in DOMAIN K /\ J[m] = K[m]
      /\ \A m \in DOMAIN K : m # n => m \in DOMAIN J
      /\ K[n] = f
  BY PopBelow
<1>2. DOMAIN c.code = 1 .. Len(c.code) /\ Len(c.code) \in Nat
  BY CodeIs
<1> HIDE DEF J, n, top
<1>3. \A i, op : OpAt(c, i, op) => OpAt(g, i, op)
  BY DEF Relooped, OpAt
<1>4. ASSUME heap # "full", NEW i \in DOMAIN g.code PROVE Matched(J, l, g, i)
  <2>1. CASE i \notin DOMAIN c.code \/ i = top
    BY <1>4, <2>1 DEF Relooped, SelfMatched, Matched, top
  <2>2. CASE i \in DOMAIN c.code /\ i # top
    <3>1. /\ g.code[i].op = c.code[i].op /\ (c.code[i].op # "JMP" => g.code[i].b = c.code[i].b)
          /\ Matched(K, l, c, i)
      BY <1>4, <2>2 DEF Relooped, Paired, top
    <3>2. \A k : Begun(K, l, k, i) => Begun(J, l, k, i)
      <4> SUFFICES ASSUME NEW k, Begun(K, l, k, i) PROVE Begun(J, l, k, i)
        OBVIOUS
      <4>1. PICK m \in DOMAIN K : K[m].comp = l /\ K[m].k = k /\ K[m].prep = i - 1
        BY DEF Begun
      <4>2. m # n
        BY <1>1, <1>2, <1>4, <2>2, <4>1 DEF top
      <4> QED
        BY <1>1, <4>1, <4>2 DEF Begun
    <3>3. CASE c.code[i].op = "JMP"
      BY <3>1, <3>3 DEF Matched
    <3>4. CASE c.code[i].op # "JMP"
      BY <1>3, <3>1, <3>2, <3>4 DEF Matched
    <3> QED
      BY <3>3, <3>4
  <2> QED
    BY <2>1, <2>2
<1>5. \A m \in DOMAIN J : J[m].comp = l => Prepared(J[m], g)
  <2> SUFFICES ASSUME NEW m \in DOMAIN J, J[m].comp = l PROVE Prepared(J[m], g)
    OBVIOUS
  <2>1. Prepared(J[m], c)
    BY <1>1 DEF Paired
  <2> QED
    BY <1>3, <2>1 DEF Prepared
<1> QED
  BY <1>4, <1>5 DEF Paired, J

\* The instruction at pc has been written again.
Rewritten(c, g, pc, op, dist) ==
    /\ CompOK(g)
    /\ g.labels = c.labels /\ g.gotos = c.gotos /\ g.lands = c.lands /\ g.jumps = c.jumps
    /\ g.breaks = c.breaks /\ g.owed = c.owed /\ g.in_loop = c.in_loop
    /\ Len(g.code) = Len(c.code) /\ DOMAIN g.code = DOMAIN c.code
    /\ \A i \in DOMAIN c.code : i # pc + 1 \/ pc = NoJump => g.code[i] = c.code[i]
    /\ pc # NoJump /\ pc + 1 \in DOMAIN c.code => g.code[pc + 1].op = op /\ g.code[pc + 1].b = dist

\* A second look at a prep instruction changes no other.
LEMMA PrepCode ==
    ASSUME NEW c, CompOK(c), NEW pc \in Int, NEW op \in Ops, NEW base \in Int, NEW dist \in Int,
           NEW g, g = SetPrep(c, pc, op, base, dist)
    PROVE  Rewritten(c, g, pc, op, dist)
<1> DEFINE i == Instr(op, base, dist, 0)
           code == [c.code EXCEPT ![pc + 1] = i]
<1>1. CompOK(g)
  BY PrepMoved DEF Moved
<1>2. c \in Comp /\ c.code \in Seq(Instrs) /\ i.op = op /\ i.b = dist
  BY DEF CompOK, Comp, Instr
<1>3. g = IF pc = NoJump THEN c ELSE [c EXCEPT !.code = code]
  BY DEF SetPrep
<1> HIDE DEF i
<1>4. /\ Len(code) = Len(c.code) /\ DOMAIN code = DOMAIN c.code
      /\ \A j \in DOMAIN c.code : j # pc + 1 => code[j] = c.code[j]
      /\ pc + 1 \in DOMAIN c.code => code[pc + 1] = i
  BY <1>2
<1> HIDE DEF code
<1>5. CASE pc = NoJump
  BY <1>1, <1>3, <1>5 DEF Rewritten
<1>6. CASE pc # NoJump
  <2>1. /\ g.code = code /\ g.labels = c.labels /\ g.gotos = c.gotos /\ g.lands = c.lands /\ g.jumps = c.jumps
        /\ g.breaks = c.breaks /\ g.owed = c.owed /\ g.in_loop = c.in_loop
    BY <1>2, <1>3, <1>6 DEF Comp
  <2> QED
    BY <1>1, <1>2, <1>4, <1>6, <2>1 DEF Rewritten
<1> QED
  BY <1>5, <1>6

\* A loop's instruction that finds the other one.
LEMMA SelfIs ==
    ASSUME NEW c, NEW i, NEW b, c.code[i].b = b,
           \/ c.code[i].op = "FORLOOP" /\ OpAt(c, i - b, "FORPREP")
           \/ c.code[i].op = "TFORLOOP" /\ OpAt(c, i - b, "TFORPREP")
           \/ c.code[i].op = "FORPREP" /\ OpAt(c, i + b + 1, "FORLOOP")
           \/ c.code[i].op = "TFORPREP" /\ OpAt(c, i + b + 1, "TFORCALL")
    PROVE  SelfMatched(c, i)
BY DEF SelfMatched

\* A numeric for has been closed: its FORLOOP and its FORPREP make a pair.
LEMMA ForNumCode ==
    ASSUME NEW c, NEW O, Traced(c, O), NEW f \in FrameT, f.k = "fornum", Prepared(f, c),
           NEW dist, dist = FuncLen(c) - f.top,
           NEW d, d = Emit(c, Instr("FORLOOP", f.base, dist + 1, 0)),
           NEW g, g = SetPrep(d, f.prep, "FORPREP", f.base, dist)
    PROVE  /\ Traced(g, O) /\ Relooped(c, g, f.top) /\ (heap = "full" \/ f.prep = f.top - 1)
           /\ g.breaks = c.breaks /\ g.owed = c.owed /\ g.in_loop = c.in_loop /\ g.gotos = c.gotos
           /\ Len(c.code) <= Len(g.code)
<1> DEFINE i   == Instr("FORLOOP", f.base, dist + 1, 0)
           L   == Len(c.code)
           top == f.top
<1>1. /\ CompOK(c) /\ FuncLen(c) = L /\ L \in Nat /\ DOMAIN c.code = 1 .. L
      /\ top \in Int /\ f.prep \in Int /\ f.base \in Int
  BY CodeIs DEF Traced, FrameT, Reg
<1>2. dist = L - top /\ dist \in Int /\ dist + 1 \in Int
  BY <1>1
<1>b. /\ L \in Int /\ top \in Int /\ dist = L - top
      /\ dist \in Int
  BY <1>1, <1>2
<1>3. i \in Instrs /\ i.op = "FORLOOP" /\ i.b = dist + 1
  <2>1. "FORLOOP" \in Ops /\ "FORPREP" \in Ops /\ 0 \in Int
    BY DEF Ops, Looping
  <2>2. i \in Instrs
    BY <1>1, <1>2, <2>1, InstrType
  <2> QED
    BY <2>2 DEF Instr
<1>a. d = Emit(c, i)
  OBVIOUS
<1> HIDE DEF i, L, top
<1>c. top + dist + 1 = L + 1 /\ L + 1 - (dist + 1) = top
  BY <1>b
<1>4. /\ Longer(c, d) /\ CompOK(d)
      /\ d.breaks = c.breaks /\ d.owed = c.owed /\ d.in_loop = c.in_loop /\ d.gotos = c.gotos
      /\ DOMAIN d.code = 1 .. Len(d.code)
      /\ IF heap = "full" THEN d.code = c.code
         ELSE /\ Len(d.code) = L + 1 /\ d.code[L + 1] = i
              /\ \A j \in DOMAIN c.code : d.code[j] = c.code[j]
  <2>1. i.op = "JMP" => i.a + (Len(c.code) + 1) \in 0 .. Len(c.code) + 1
    BY <1>3
  <2> QED
    BY <1>1, <1>3, <1>a, <2>1, EmitLonger, SMTT(30) DEF Longer, L
<1>5. Traced(d, O)
  BY <1>4, LongerTraced
<1>6. \/ f.prep = NoJump /\ heap = "full"
      \/ f.prep # NoJump /\ f.prep = top - 1 /\ top \in 1 .. L /\ c.code[top].op = "FORPREP"
  <2>1. \/ heap = "full" /\ f.prep = NoJump
        \/ f.prep = top - 1 /\ OpAt(c, top, "FORPREP")
    BY DEF Prepared, top
  <2>2. CASE f.prep = top - 1 /\ OpAt(c, top, "FORPREP")
    <3>1. top \in 1 .. L
      BY <1>1, <2>2, SMTT(30) DEF OpAt
    <3>2. f.prep # NoJump
      BY <1>1, <2>2, <3>1, SMTT(30) DEF NoJump
    <3> QED
      BY <2>2, <3>1, <3>2 DEF OpAt
  <2> QED
    BY <2>1, <2>2
<1>7. /\ CompOK(g)
      /\ g.labels = d.labels /\ g.gotos = d.gotos /\ g.lands = d.lands /\ g.jumps = d.jumps
      /\ g.breaks = d.breaks /\ g.owed = d.owed /\ g.in_loop = d.in_loop
      /\ Len(g.code) = Len(d.code) /\ DOMAIN g.code = DOMAIN d.code
      /\ \A j \in DOMAIN d.code : j # f.prep + 1 \/ f.prep = NoJump => g.code[j] = d.code[j]
      /\ f.prep # NoJump /\ f.prep + 1 \in DOMAIN d.code =>
            g.code[f.prep + 1].op = "FORPREP" /\ g.code[f.prep + 1].b = dist
  <2>1. "FORPREP" \in Ops
    BY DEF Ops, Looping
  <2>2. Rewritten(d, g, f.prep, "FORPREP", dist)
    BY <1>1, <1>2, <1>4, <2>1, PrepCode
  <2> QED
    BY <2>2 DEF Rewritten
<1>8. /\ \A j \in DOMAIN d.code : g.code[j] = d.code[j] \/ (j = top /\ j \in 1 .. L)
      /\ f.prep # NoJump =>
            /\ top \in 1 .. L /\ top \in DOMAIN d.code /\ d.code[top].op = "FORPREP"
            /\ g.code[top].op = "FORPREP" /\ g.code[top].b = dist
  <2>1. CASE f.prep = NoJump
    BY <1>7, <2>1
  <2>2. CASE f.prep # NoJump
    <3>1. f.prep + 1 = top /\ top \in 1 .. L /\ c.code[top].op = "FORPREP"
      BY <1>1, <1>6, <2>2
    <3>2. top \in DOMAIN d.code /\ d.code[top] = c.code[top]
      BY <1>1, <1>4, <3>1 DEF Longer, L
    <3> QED
      BY <1>7, <2>2, <3>1, <3>2
  <2> QED
    BY <2>1, <2>2
<1>9. \A j \in DOMAIN d.code : g.code[j].op = d.code[j].op
  <2>1. CASE f.prep = NoJump
    BY <1>7, <2>1
  <2>2. CASE f.prep # NoJump
    BY <1>8, <2>2, SMTT(30)
  <2> QED
    BY <2>1, <2>2
<1>10. Traced(g, O)
  <2>1. \A j \in DOMAIN d.code : d.code[j].op = "JMP" \/ g.code[j].op = "JMP" => g.code[j] = d.code[j]
    <3> SUFFICES ASSUME NEW j \in DOMAIN d.code, d.code[j].op = "JMP", g.code[j] # d.code[j] PROVE FALSE
      BY <1>9, SMTT(30)
    <3>1. f.prep # NoJump /\ j = top
      BY <1>7, <1>8
    <3> QED
      BY <1>8, <3>1
  <2> QED
    BY <1>5, <1>7, <2>1, OthersTraced
<1>11. Relooped(c, g, top)
  <2>1. \A j \in DOMAIN c.code : j \in DOMAIN d.code /\ d.code[j] = c.code[j]
    BY <1>1, <1>4, SMTT(30) DEF Longer, L
  <2>2. \A j \in DOMAIN c.code : j \in DOMAIN g.code /\ g.code[j].op = c.code[j].op
    BY <1>7, <1>9, <2>1
  <2>3. ASSUME heap # "full", NEW j \in DOMAIN c.code, j # top PROVE g.code[j].b = c.code[j].b
    BY <1>8, <2>1, <2>3, SMTT(30)
  <2>4. ASSUME heap # "full", NEW j \in DOMAIN g.code, j \notin DOMAIN c.code \/ j = top
        PROVE  SelfMatched(g, j)
    <3>1. /\ f.prep # NoJump /\ top \in 1 .. L /\ g.code[top].op = "FORPREP" /\ g.code[top].b = dist
          /\ DOMAIN g.code = 1 .. L + 1
      BY <1>4, <1>6, <1>7, <1>8, <2>4, SMTT(30)
    <3>2. g.code[L + 1].op = "FORLOOP" /\ g.code[L + 1].b = dist + 1 /\ L + 1 \in DOMAIN g.code
      <4>1. L + 1 \in DOMAIN d.code /\ L + 1 \notin 1 .. L
        BY <1>1, <1>7, <3>1
      <4>2. g.code[L + 1] = d.code[L + 1]
        BY <1>8, <4>1
      <4> QED
        BY <1>3, <1>4, <1>7, <2>4, <4>1, <4>2, SMTT(30)
    <3>3. CASE j = top
      <4>2. OpAt(g, top + dist + 1, "FORLOOP")
        BY <1>c, <3>2 DEF OpAt
      <4> QED
        BY <3>1, <3>3, <4>2, SelfIs
    <3>4. CASE j # top
      <4>1. j = L + 1
        BY <1>1, <2>4, <3>1, <3>4
      <4>3. top \in DOMAIN g.code
        BY <1>1, <3>1
      <4>4. OpAt(g, top, "FORPREP")
        BY <3>1, <4>3, SMTT(30) DEF OpAt
      <4> QED
        <5> DEFINE b == dist + 1
        <5>1. g.code[j].b = b /\ g.code[j].op = "FORLOOP" /\ j - b = top
          <6>1. g.code[j].b = dist + 1 /\ g.code[j].op = "FORLOOP"
            BY <3>2, <4>1
          <6>2. j - (dist + 1) = top
            BY <1>b, <4>1
          <6> QED
            BY <6>1, <6>2
        <5> HIDE DEF b
        <5> QED
          BY <4>4, <5>1, SelfIs
    <3> QED
      BY <3>3, <3>4, SMTT(30)
  <2> QED
    BY <2>2, <2>3, <2>4 DEF Relooped
<1>12. Len(c.code) <= Len(g.code)
  BY <1>4, <1>7 DEF Longer
<1> QED
  BY <1>4, <1>6, <1>7, <1>10, <1>11, <1>12 DEF top

\* What a numeric for does after its last instruction leaves the code alone.
LandedAs(g, r) ==
    /\ SameCode(g, r) /\ r.breaks = g.breaks
    /\ \E T : r.lands = g.lands \cup T

\* The end of a numeric for, but for its last instruction.
LEMMA ForNumTail ==
    ASSUME NEW g, CompOK(g), NEW pcs, NEW h, h = Lands(g, pcs), NEW base, NEW m, m = LeaveBlock(h, base),
           NEW n, NEW r, r = Forget(m, n), CompOK(r)
    PROVE  LandedAs(g, r)
<1> DEFINE T == {[pc |-> pc, at |-> FuncLen(g)] : pc \in pcs}
           o == {w \in m.owed : w.loop # n}
<1>1. g \in Comp /\ h = [g EXCEPT !.lands = @ \cup T] /\ m = [h EXCEPT !.nactive = base, !.freereg = base]
      /\ r = [m EXCEPT !.owed = o]
  BY DEF CompOK, Lands, LeaveBlock, Forget
<1> HIDE DEF T, o
<1>2. /\ h.code = g.code /\ h.labels = g.labels /\ h.gotos = g.gotos /\ h.jumps = g.jumps
      /\ h.breaks = g.breaks /\ h.lands = g.lands \cup T
      /\ DOMAIN h = DOMAIN g
  BY <1>1 DEF Comp
<1>3. DOMAIN g = DOMAIN [code |-> 0, locals |-> 0, nactive |-> 0, freereg |-> 0,
         maxreg |-> 0, breaks |-> 0, in_loop |-> 0, error |-> 0, has_tbc |-> 0,
         has_capture |-> 0, labels |-> 0, gotos |-> 0, upvals |-> 0, num_params |-> 0, is_vararg |-> 0,
         max_stack |-> 0, lost |-> 0, owed |-> 0, lands |-> 0, jumps |-> 0]
  BY <1>1 DEF Comp
<1>4. {"code", "labels", "gotos", "jumps", "lands", "breaks"} \subseteq DOMAIN m
      /\ m.code = h.code /\ m.labels = h.labels /\ m.gotos = h.gotos /\ m.jumps = h.jumps
      /\ m.breaks = h.breaks /\ m.lands = h.lands
  BY <1>1, <1>2, <1>3
<1>5. /\ r.code = m.code /\ r.labels = m.labels /\ r.gotos = m.gotos /\ r.jumps = m.jumps
      /\ r.breaks = m.breaks /\ r.lands = m.lands
  BY <1>1, <1>4
<1>6. SameCode(g, r) /\ r.breaks = g.breaks /\ r.lands = g.lands \cup T
  BY <1>2, <1>4, <1>5 DEF SameCode
<1> QED
  BY <1>6 DEF LandedAs

\* for ... = ... end
LEMMA ForNumEndLevels == ASSUME IInv, BInv, ForNumEnd PROVE BInv'
<1> DEFINE c    == LeaveBlock(Top, Open.saved)
           dist == FuncLen(c) - Open.top
           d    == Emit(c, Instr("FORLOOP", Open.base, dist + 1, 0))
           g    == SetPrep(d, Open.prep, "FORPREP", Open.base, dist)
           h    == Lands(g, Owed(g))
           m    == LeaveBlock(h, Open.base)
           r    == [m EXCEPT !.owed = {o \in @ : o.loop # Len(ctl)}]
           l    == Len(fs)
           n    == Len(ctl)
           O    == Owns(ctl, l, c)
           P    == Owns(Front(ctl), l, r)
<1>1. Open.k = "fornum" /\ Leave(r)
  BY DEF ForNumEnd
<1>2. /\ CompOK(c) /\ Coded(Top, c) /\ c.breaks = Top.breaks /\ c.owed = Top.owed
      /\ Level(ctl, l, c, stats) /\ \A o \in c.owed : OwedFits(ctl, l, o)
      /\ Len(c.code) = Len(Top.code)
  BY LeftLevel
<1>3. /\ ctl \in Seq(FrameT) /\ ctl # <<>> /\ Open = ctl[Len(ctl)] /\ Open.comp = l /\ Len(ctl) \in DOMAIN ctl
      /\ Open \in FrameT /\ Open.top \in Int /\ stats \in Int
  BY LevelStart, OpenFrame
<1>4. ~ NoDrops /\ Prepared(Open, c) /\ Traced(c, O) /\ Paired(ctl, l, c)
  BY <1>1, <1>2, <1>3 DEF Level, Marks, Paired, NoDrops
<1>a. /\ c = LeaveBlock(Top, Open.saved) /\ dist = FuncLen(c) - Open.top
      /\ d = Emit(c, Instr("FORLOOP", Open.base, dist + 1, 0))
      /\ g = SetPrep(d, Open.prep, "FORPREP", Open.base, dist)
      /\ h = Lands(g, Owed(g)) /\ m = LeaveBlock(h, Open.base) /\ r = Forget(m, n)
      /\ O = Owns(ctl, l, c) /\ P = Owns(Front(ctl), l, r)
  BY DEF Forget
<1> HIDE DEF c, dist, d, g, h, m, r, O, P
<1>5. Ended(fs, r) /\ CompOK(r)
  <2>1. Ended(fs, r)
    BY <1>a, ForNumEnded, SMTT(30)
  <2> QED
    BY <2>1 DEF Ended
<1>6. /\ Traced(g, O) /\ Relooped(c, g, Open.top) /\ (heap = "full" \/ Open.prep = Open.top - 1)
      /\ g.breaks = c.breaks /\ g.gotos = c.gotos /\ Len(c.code) <= Len(g.code)
  BY <1>1, <1>3, <1>4, <1>a, ForNumCode
<1>7. SameCode(g, r) /\ r.breaks = g.breaks /\ \E T : r.lands = g.lands \cup T
  <2>1. CompOK(g)
    BY <1>6 DEF Traced
  <2> DEFINE pcs  == Owed(g)
             base == Open.base
             k    == n
  <2>2. h = Lands(g, pcs) /\ m = LeaveBlock(h, base) /\ r = Forget(m, k)
    BY <1>a
  <2>3. CompOK(r)
    BY <1>5
  <2> HIDE DEF pcs, base, k
  <2>4. LandedAs(g, r)
    BY <2>1, <2>2, <2>3, ForNumTail
  <2> QED
    BY <2>4 DEF LandedAs
<1>8. Traced(r, P)
  <2>1. PICK T : r.lands = g.lands \cup T
    BY <1>7
  <2>2. FewerFrames(ctl, Front(ctl), l) /\ r.breaks = c.breaks /\ r.gotos = c.gotos
    BY <1>3, <1>6, <1>7, PopBelow DEF SameCode
  <2>3. \A t \in Tags, pc \in Nat : <<t, pc>> \in P => <<t, pc>> \in O
    BY <1>a, <2>2, OwnsLess
  <2>4. Arrived(g, O, T, P)
    BY <1>4, <2>3 DEF Arrived
  <2>5. SameCode(g, r) /\ Traced(g, O)
    BY <1>6, <1>7
  <2> QED
    BY <2>1, <2>4, <2>5, ArrivedTraced
<1>9. Paired(Front(ctl), l, r)
  <2>1. Paired(Front(ctl), l, g)
    BY <1>2, <1>3, <1>4, <1>6, LoopPaired
  <2>2. r.code = g.code
    BY <1>7 DEF SameCode
  <2> QED
    BY <2>1, <2>2 DEF Paired, Matched, OpAt, Prepared
<1>10. InLoops(Front(ctl), l, r, stats)
  BY <1>4 DEF InLoops
<1>11. Level(Front(ctl), l, r, stats)
  <2>1. Coded(r, r) /\ Len(Top.code) <= Len(r.code)
    BY <1>2, <1>5, <1>6, <1>7, SameCoded, SMTT(30) DEF SameCode
  <2> QED
    BY <1>5, <1>8, <1>9, <1>10, <1>a, <2>1, LoopLevel
<1> QED
  BY <1>1, <1>5, <1>11, LeaveLevels

\* A generic for has been closed: its TFORCALL, TFORLOOP and TFORPREP are paired.
LEMMA ForInCode ==
    ASSUME heap # "full",
           NEW c, NEW O, Traced(c, O), NEW f \in FrameT, f.k = "forin", Prepared(f, c), NEW n \in Int,
           NEW call, call = FuncLen(c),
           NEW d, CompOK(d), d = Emit(c, Instr("TFORCALL", f.base, 0, n)),
           NEW loop, loop = NextPC(d),
           NEW s, CompOK(s), s = Emit(d, Instr("TFORLOOP", f.base, loop + 1 - f.top, 0)),
           NEW g, g = SetPrep(s, f.prep, "TFORPREP", f.base, call - (f.prep + 1))
    PROVE  /\ Traced(g, O) /\ Relooped(c, g, f.top) /\ f.prep = f.top - 1
           /\ g.breaks = c.breaks /\ g.owed = c.owed /\ g.in_loop = c.in_loop /\ g.gotos = c.gotos
           /\ Len(c.code) <= Len(g.code)
<1> DEFINE i1   == Instr("TFORCALL", f.base, 0, n)
           i2   == Instr("TFORLOOP", f.base, loop + 1 - f.top, 0)
           L    == Len(c.code)
           top  == f.top
           dist == call - (f.prep + 1)
           back == loop + 1 - f.top
           base == f.base
           prep == f.prep
<1>1. /\ CompOK(c) /\ FuncLen(c) = L /\ L \in Nat /\ DOMAIN c.code = 1 .. L
      /\ FuncLen(d) = Len(d.code) /\ Len(d.code) \in Nat
      /\ top \in Int /\ prep \in Int /\ base \in Int
  BY CodeIs, SMTT(30) DEF Traced, FrameT, Reg
<1>2. prep = top - 1 /\ OpAt(c, top, "TFORPREP")
  BY DEF Prepared
<1>3. i1.op = "TFORCALL" /\ i2.op = "TFORLOOP" /\ i2.b = back
  BY DEF Instr
<1>4. i1 \in Instrs
  <2>1. "TFORCALL" \in Ops /\ 0 \in Int
    BY DEF Ops, PlainOps, Looping
  <2> QED
    BY <1>1, <2>1, InstrType
<1>a. /\ d = Emit(c, i1) /\ s = Emit(d, i2) /\ g = SetPrep(s, prep, "TFORPREP", base, dist)
      /\ back = loop + 1 - top /\ dist = call - (prep + 1) /\ i2 = Instr("TFORLOOP", base, back, 0)
      /\ prep = f.prep /\ top = f.top
  OBVIOUS
<1> HIDE DEF i1, i2, L, top, dist, back, base, prep
<1>5. /\ Longer(c, d)
      /\ d.breaks = c.breaks /\ d.owed = c.owed /\ d.in_loop = c.in_loop /\ d.gotos = c.gotos
      /\ DOMAIN d.code = 1 .. Len(d.code)
      /\ Len(d.code) = L + 1 /\ d.code[L + 1] = i1
      /\ \A j \in DOMAIN c.code : d.code[j] = c.code[j]
  <2>1. i1.op = "JMP" => i1.a + (Len(c.code) + 1) \in 0 .. Len(c.code) + 1
    BY <1>3
  <2>2. d = Emit(c, i1)
    BY <1>a
  <2>3. /\ Longer(c, d)
        /\ d.breaks = c.breaks /\ d.owed = c.owed /\ d.in_loop = c.in_loop
        /\ DOMAIN d.code = 1 .. Len(d.code)
        /\ Len(d.code) = Len(c.code) + 1 /\ d.code[Len(c.code) + 1] = i1
        /\ \A j \in DOMAIN c.code : d.code[j] = c.code[j]
    BY <1>1, <1>4, <2>1, <2>2, EmitLonger
  <2>4. d.gotos = c.gotos
    BY <2>3 DEF Longer
  <2> QED
    BY <2>3, <2>4 DEF L
<1>6. loop = L + 1 /\ call = L
  BY <1>1, <1>5 DEF NextPC
<1>b. /\ L \in Int /\ top \in Int /\ back = L + 2 - top /\ dist = L - top /\ back \in Int /\ dist \in Int
      /\ prep = top - 1
  <2>1. L \in Int /\ top \in Int /\ prep \in Int
    BY <1>1
  <2>2. back = loop + 1 - top /\ dist = call - (prep + 1)
    BY <1>a
  <2>3. back = (L + 1) + 1 - top /\ dist = L - ((top - 1) + 1) /\ prep = top - 1
    BY <1>2, <1>6, <2>2
  <2> QED
    BY <2>1, <2>3
<1>c. top + dist + 1 = L + 1 /\ L + 2 - back = top /\ prep + 1 = top
  BY <1>b
<1>7. i2 \in Instrs
  <2>1. "TFORLOOP" \in Ops /\ 0 \in Int
    BY SMTT(30) DEF Ops, Looping
  <2> QED
    BY <1>1, <1>a, <1>b, <2>1, InstrType
<1>8. /\ Longer(d, s)
      /\ s.breaks = d.breaks /\ s.owed = d.owed /\ s.in_loop = d.in_loop /\ s.gotos = d.gotos
      /\ DOMAIN s.code = 1 .. Len(s.code)
      /\ Len(s.code) = Len(d.code) + 1 /\ s.code[Len(d.code) + 1] = i2
      /\ \A j \in DOMAIN d.code : s.code[j] = d.code[j]
  <2>1. i2.op = "JMP" => i2.a + (Len(d.code) + 1) \in 0 .. Len(d.code) + 1
    BY <1>3
  <2> QED
    BY <1>7, <1>a, <2>1, EmitLonger, SMTT(30) DEF Longer
<1>9. /\ DOMAIN s.code = 1 .. L + 2 /\ s.code[L + 1] = i1 /\ s.code[L + 2] = i2
      /\ \A j \in DOMAIN c.code : j \in DOMAIN s.code /\ s.code[j] = c.code[j]
  <2>1. Len(s.code) = L + 2 /\ Len(d.code) + 1 = L + 2
    BY <1>1, <1>5, <1>8
  <2>2. L + 1 \in DOMAIN d.code /\ \A j \in 1 .. L : j \in 1 .. L + 1 /\ j \in 1 .. L + 2
    BY <1>1, <1>5
  <2> QED
    BY <1>1, <1>5, <1>8, <2>1, <2>2
<1>10. Traced(s, O)
  BY <1>5, <1>8, LongerTraced
<1>11. Rewritten(s, g, prep, "TFORPREP", dist)
  <2>1. "TFORPREP" \in Ops
    BY DEF Ops, Looping
  <2> QED
    BY <1>1, <1>a, <1>b, <2>1, PrepCode
<1>12. /\ top \in 1 .. L /\ top \in DOMAIN c.code /\ c.code[top].op = "TFORPREP" /\ prep # NoJump
  <2>1. top \in 1 .. L /\ c.code[top].op = "TFORPREP"
    BY <1>1, <1>2, SMTT(30) DEF OpAt
  <2> QED
    BY <1>1, <1>b, <2>1 DEF NoJump
<1>13. /\ DOMAIN g.code = 1 .. L + 2
       /\ \A j \in DOMAIN s.code : j # top => g.code[j] = s.code[j]
       /\ g.code[top].op = "TFORPREP" /\ g.code[top].b = dist
       /\ s.code[top].op = "TFORPREP"
  <2>1. /\ DOMAIN g.code = DOMAIN s.code
        /\ \A j \in DOMAIN s.code : j # prep + 1 \/ prep = NoJump => g.code[j] = s.code[j]
        /\ prep # NoJump /\ prep + 1 \in DOMAIN s.code =>
              g.code[prep + 1].op = "TFORPREP" /\ g.code[prep + 1].b = dist
    BY <1>11, Zenon DEF Rewritten
  <2>2. prep + 1 = top /\ prep # NoJump
    BY <1>12, <1>c
  <2>3. top \in DOMAIN s.code /\ s.code[top] = c.code[top] /\ c.code[top].op = "TFORPREP"
    BY <1>9, <1>12, Zenon
  <2>4. g.code[top].op = "TFORPREP" /\ g.code[top].b = dist
    BY <2>1, <2>2, <2>3, Zenon
  <2>5. \A j \in DOMAIN s.code : j # top => g.code[j] = s.code[j]
    BY <2>1, <2>2, Zenon
  <2> QED
    BY <1>9, <2>1, <2>3, <2>4, <2>5, Zenon
<1>14. \A j \in DOMAIN s.code : g.code[j].op = s.code[j].op
  BY <1>13
<1>15. Traced(g, O)
  <2>1. \A j \in DOMAIN s.code : s.code[j].op = "JMP" \/ g.code[j].op = "JMP" => g.code[j] = s.code[j]
    BY <1>13
  <2>2. /\ CompOK(g) /\ Len(g.code) = Len(s.code)
        /\ g.labels = s.labels /\ g.gotos = s.gotos /\ g.lands = s.lands /\ g.jumps = s.jumps
    BY <1>11 DEF Rewritten
  <2> QED
    BY <1>10, <2>1, <2>2, OthersTraced
<1>16. Relooped(c, g, top)
  <2>1. \A j \in DOMAIN c.code : j \in DOMAIN g.code /\ g.code[j].op = c.code[j].op
    BY <1>9, <1>13, <1>14
  <2>2. \A j \in DOMAIN c.code : j # top => g.code[j].b = c.code[j].b
    BY <1>9, <1>13
  <2>3. ASSUME NEW j \in DOMAIN g.code, j \notin DOMAIN c.code \/ j = top
        PROVE  SelfMatched(g, j)
    <3>0. L + 1 \in DOMAIN g.code /\ L + 2 \in DOMAIN g.code /\ L + 1 # top /\ L + 2 # top /\ top \in DOMAIN g.code
      BY <1>1, <1>12, <1>13
    <3>1. g.code[L + 1] = i1 /\ g.code[L + 2] = i2
      BY <1>9, <1>13, <3>0
    <3>2. CASE j = top
      <4>1. OpAt(g, top + dist + 1, "TFORCALL")
        BY <1>3, <1>c, <3>0, <3>1 DEF OpAt
      <4> QED
        BY <1>13, <3>2, <4>1, SelfIs
    <3>3. CASE j = L + 1
      <4>1. g.code[j].op = "TFORCALL"
        BY <1>3, <3>1, <3>3
      <4> QED
        BY <4>1 DEF SelfMatched
    <3>4. CASE j = L + 2
      <4>1. OpAt(g, top, "TFORPREP")
        BY <1>13, <3>0 DEF OpAt
      <4>2. g.code[j].b = back /\ g.code[j].op = "TFORLOOP"
        BY <1>3, <3>1, <3>4
      <4>3. j - back = top
        <5>1. (L + 2) - back = top
          BY <1>b, SMTT(30)
        <5> QED
          BY <3>4, <5>1
      <4> QED
        BY <4>1, <4>2, <4>3, SelfIs
    <3> QED
      <4>1. j \in 1 .. L + 2 /\ (j \notin 1 .. L \/ j = top)
        BY <1>1, <1>13, <2>3
      <4>2. j = top \/ j = L + 1 \/ j = L + 2
        BY <1>1, <4>1
      <4> QED
        BY <3>2, <3>3, <3>4, <4>2
  <2> QED
    BY <2>1, <2>2, <2>3, SMTT(30) DEF Relooped
<1>17. Len(c.code) <= Len(g.code)
  <2>1. Len(g.code) = Len(s.code) /\ Len(s.code) = L + 2
    <3>1. Len(g.code) = Len(s.code)
      BY <1>11, Zenon DEF Rewritten
    <3>2. Len(s.code) = Len(d.code) + 1 /\ Len(d.code) = L + 1
      BY <1>5, <1>8, Zenon
    <3> HIDE DEF L
    <3> QED
      BY <1>1, <3>1, <3>2
  <2> QED
    BY <1>1, <2>1, SMTT(30) DEF L
<1>18. g.breaks = c.breaks /\ g.owed = c.owed /\ g.in_loop = c.in_loop /\ g.gotos = c.gotos
  <2>1. g.breaks = s.breaks /\ g.owed = s.owed /\ g.in_loop = s.in_loop /\ g.gotos = s.gotos
    BY <1>11, Zenon DEF Rewritten
  <2> QED
    BY <1>5, <1>8, <2>1, Zenon
<1> QED
  BY <1>15, <1>16, <1>17, <1>18, <1>a, <1>b

\* for ... in ... end
LEMMA ForInEndLevels == ASSUME IInv, BInv, ForInEnd PROVE BInv'
<1> DEFINE c    == LeaveBlock(Top, Open.saved)
           call == FuncLen(c)
           d    == Emit(c, Instr("TFORCALL", Open.base, 0, Len(Open.names)))
           loop == NextPC(d)
           s    == Emit(d, Instr("TFORLOOP", Open.base, loop + 1 - Open.top, 0))
           g    == SetPrep(s, Open.prep, "TFORPREP", Open.base, call - (Open.prep + 1))
           x    == CloseLoop(g, Open)
           i    == Instr("CLOSE", Open.base, 0, 0)
           u    == Emit(x, i)
           m    == LeaveBlock(u, Open.base)
           l    == Len(fs)
           n    == Len(ctl)
           O    == Owns(ctl, l, c)
           P    == Owns(Front(ctl), l, x)
<1>1. Open.k = "forin" /\ (GoWild \/ (loop # NoJump /\ ~ PatchesWild(c, Open) /\ Leave(m)))
  BY DEF ForInEnd
<1>2. /\ CompOK(c) /\ Coded(Top, c) /\ c.breaks = Top.breaks /\ c.owed = Top.owed
      /\ Level(ctl, l, c, stats) /\ \A o \in c.owed : OwedFits(ctl, l, o)
      /\ Len(c.code) = Len(Top.code)
  BY LeftLevel
<1>3. /\ ctl \in Seq(FrameT) /\ ctl # <<>> /\ Open = ctl[n] /\ Open.comp = l /\ n \in DOMAIN ctl /\ n \in Nat
      /\ Open.sbreaks <= Len(Top.breaks) /\ stats \in Int /\ Open \in FrameT
      /\ Open.top \in Int /\ Open.base \in Reg /\ Open.base \in Int
  BY LevelStart, OpenFrame DEF Reg
<1>4. SUFFICES ASSUME loop # NoJump, ~ PatchesWild(c, Open), Leave(m) PROVE BInv'
  BY <1>1, WildLevels
<1>5. heap # "full"
  BY <1>4 DEF NextPC
<1>6. /\ Traced(c, O) /\ Open.jf = NoJump /\ Prepared(Open, c)
      /\ InLoops(ctl, l, c, stats) /\ Paired(ctl, l, c)
  BY <1>1, <1>2, <1>3 DEF Level, Marks, Paired
<1>7. Len(Open.names) \in Int
  BY <1>3 DEF FrameT
<1>a. /\ c = LeaveBlock(Top, Open.saved) /\ call = FuncLen(c)
      /\ d = Emit(c, Instr("TFORCALL", Open.base, 0, Len(Open.names)))
      /\ loop = NextPC(d)
      /\ s = Emit(d, Instr("TFORLOOP", Open.base, loop + 1 - Open.top, 0))
      /\ g = SetPrep(s, Open.prep, "TFORPREP", Open.base, call - (Open.prep + 1))
      /\ x = CloseLoop(g, Open) /\ u = Emit(x, Instr("CLOSE", Open.base, 0, 0)) /\ u = Emit(x, i)
      /\ i = Instr("CLOSE", Open.base, 0, 0) /\ m = LeaveBlock(u, Open.base)
      /\ O = Owns(ctl, l, c) /\ P = Owns(Front(ctl), l, x)
  OBVIOUS
<1> HIDE DEF c, call, d, loop, s, g, x, i, u, m, O, P
<1>8. /\ Ended(fs, m) /\ CompOK(x) /\ CompOK(u) /\ CompOK(g) /\ CompOK(s) /\ CompOK(d)
  BY <1>a, ForInEnded, SMTT(30)
<1>9. /\ Traced(g, O) /\ Relooped(c, g, Open.top) /\ Open.prep = Open.top - 1
      /\ g.breaks = c.breaks /\ g.owed = c.owed /\ g.in_loop = c.in_loop /\ g.gotos = c.gotos
      /\ Len(c.code) <= Len(g.code)
  <2> DEFINE k == Len(Open.names)
             f == Open
  <2>1. /\ d = Emit(c, Instr("TFORCALL", f.base, 0, k)) /\ k \in Int /\ call = FuncLen(c) /\ loop = NextPC(d)
        /\ s = Emit(d, Instr("TFORLOOP", f.base, loop + 1 - f.top, 0))
        /\ g = SetPrep(s, f.prep, "TFORPREP", f.base, call - (f.prep + 1))
        /\ f \in FrameT /\ f.k = "forin" /\ Prepared(f, c) /\ Traced(c, O) /\ CompOK(d) /\ CompOK(s)
    BY <1>1, <1>3, <1>6, <1>7, <1>8, <1>a
  <2> HIDE DEF k, f
  <2>2. /\ Traced(g, O) /\ Relooped(c, g, f.top) /\ f.prep = f.top - 1
        /\ g.breaks = c.breaks /\ g.owed = c.owed /\ g.in_loop = c.in_loop /\ g.gotos = c.gotos
        /\ Len(c.code) <= Len(g.code)
    BY <1>5, <2>1, ForInCode
  <2> QED
    BY <2>2, SMTT(30) DEF f
<1>10. AtEnd(g, O, {})
  <2>1. \A t \in Tags, pc \in Nat : <<t, pc>> \in Owns(ctl, l, g) => <<t, pc>> \in O
    <3>1. g.breaks = c.breaks /\ g.gotos = c.gotos
      BY <1>9
    <3>2. Owns(ctl, l, g) = Owns(ctl, l, c)
      BY <3>1 DEF Owns, Claimed
    <3> QED
      BY <1>a, <3>2
  <2>2. InLoops(ctl, l, g, stats)
    BY <1>6, <1>9 DEF InLoops, InWindow
  <2> QED
    BY <1>2, <1>3, <1>6, <1>9, <2>1, <2>2 DEF AtEnd
<1>11. /\ Traced(x, P) /\ Reworked(g, x) /\ Len(x.code) = Len(g.code)
       /\ InLoops(Front(ctl), l, x, stats)
  <2>1. StillWaits(P, x, {})
    BY <1>a DEF StillWaits
  <2>2. ~ PatchesWild(g, Open)
    BY <1>4, <1>9 DEF PatchesWild, OwnBreaks
  <2>3. CompOK(x) /\ Open.k \in LoopKinds
    BY <1>1, <1>8 DEF LoopKinds
  <2> QED
    BY <1>10, <1>a, <2>1, <2>2, <2>3, LoopClosed
<1>12. CompOK(u) /\ Coded(x, u)
  <2>1. i \in Plains
    BY <1>3, <1>a, PlainInstr DEF PlainOps
  <2>2. Added(x, u)
    BY <1>8, <1>a, <2>1, EmitAdded, SMTT(30)
  <2> QED
    BY <2>2, AddedCoded
<1>13. CompOK(m) /\ Coded(u, m)
  BY <1>8, <1>a, BlockCoded DEF Ended
<1>14. Coded(x, m)
  BY <1>8, <1>12, <1>13, CodedOn
<1>15. Paired(Front(ctl), l, m)
  <2>1. Paired(Front(ctl), l, g)
    BY <1>2, <1>3, <1>6, <1>9, LoopPaired
  <2>2. Reworked(x, m)
    BY <1>8, <1>13, <1>14, CodedReworked
  <2>3. Reworked(g, m)
    BY <1>11, <2>2, ReworkedTrans
  <2> DEFINE J == Front(ctl)
  <2>4. SameFors(J, J, l) /\ Paired(J, l, g)
    BY <2>1, SameRefl, LoopsSame
  <2> HIDE DEF J
  <2>5. Paired(J, l, m)
    BY <2>3, <2>4, PairedSame, SMTT(30)
  <2> QED
    BY <2>5 DEF J
<1>16. Level(Front(ctl), l, m, stats)
  <2>1. Len(Top.code) <= Len(x.code)
    BY <1>2, <1>9, <1>11
  <2> QED
    BY <1>11, <1>13, <1>14, <1>15, <1>a, <2>1, LoopLevel
<1> QED
  BY <1>4, <1>8, <1>16, LeaveLevels

-----------------------------------------------------------------------------
(* Breaks, gotos and labels *)

\* A level whose lists of jumps have changed, and whose frames have not.
LEMMA ListedLevel ==
    ASSUME NEW K, NEW l, NEW c, NEW s, Level(K, l, c, s), NEW d, NEW r, Traced(d, Owns(K, l, d)),
           InLoops(K, l, d, r), Reworked(c, d), Len(c.code) <= Len(d.code)
    PROVE  Level(K, l, d, r)
<1>1. CompOK(c) /\ CompOK(d) /\ Len(c.code) \in Nat /\ Len(d.code) \in Nat
  BY CodeIs DEF Level, Traced
<1>2. Marks(K, l, d)
  BY <1>1 DEF Marks, Level
<1>3. Paired(K, l, d)
  BY SameRefl, LoopsSame, PairedSame DEF Level
<1> QED
  BY <1>2, <1>3 DEF Level

\* The loops of the function being compiled are those of its level.
LEMMA LoopsAre == ASSUME Len(fs) \in Nat PROVE Loops = LoopsOf(ctl, Len(fs))
BY DEF Loops, InFunc, LoopsOf, LoopAt

\* Outside a loop there is no loop.
LEMMA NoInnerLoop ==
    ASSUME IInv, InnerLoop = 0
    PROVE  Loops = {}
<1>1. Len(ctl) \in Nat /\ DOMAIN ctl = 1 .. Len(ctl)
  BY OpenIs DEF IInv
<1>2. Loops \in SUBSET (1 .. Len(ctl))
  BY <1>1 DEF Loops, InFunc
<1> SUFFICES ASSUME Loops # {} PROVE FALSE
  OBVIOUS
<1>3. InnerLoop = CHOOSE i \in Loops : \A j \in Loops : j <= i
  BY DEF InnerLoop
<1>4. \E m \in Loops : \A k \in Loops : k <= m
  BY <1>1, <1>2, GreatestOf
<1>5. InnerLoop \in Loops
  BY <1>3, <1>4
<1> QED
  BY <1>1, <1>2, <1>5

\* A break that is taken, in a level with frames K: its jump waits.
LEMMA BreakTraced ==
    ASSUME NEW K, NEW l, NEW c, Traced(c, Owns(K, l, c)),
           NEW pc, pc = NextPC(c), NEW x, x = IF pc = NoJump THEN Wild ELSE pc,
           NEW s, s = Emit(c, Jump(0)),
           NEW e, CompOK(e), e.code = s.code, e.labels = c.labels, e.gotos = c.gotos,
           e.lands = c.lands, e.jumps = c.jumps, e.breaks = Append(c.breaks, x)
    PROVE  Traced(e, Owns(K, l, e)) /\ Reworked(c, e) /\ Len(c.code) <= Len(e.code)
<1> DEFINE L == Len(c.code)
           n == Len(c.breaks) + 1
           j == Jump(0)
<1>1. CompOK(c) /\ j \in Instrs /\ j.op = "JMP" /\ j.a = 0 /\ "JMP" \notin Looping
  <2>1. Jump(0) \in Plains /\ Jump(0) \in Instrs
    BY PlainJump DEF Plains
  <2> QED
    BY <2>1 DEF Traced, Jump, Instr, Looping
<1>2. /\ Longer(c, s) /\ CompOK(s) /\ Reworked(c, s) /\ L \in Nat
      /\ DOMAIN s.code = 1 .. Len(s.code) /\ DOMAIN c.code = 1 .. L
      /\ IF heap = "full" THEN s.code = c.code
         ELSE Len(s.code) = L + 1 /\ s.code[L + 1] = j
  <2>1. Len(c.code) \in Nat
    BY <1>1, CodeIs
  <2>2. 0 + (Len(c.code) + 1) \in 0 .. Len(c.code) + 1
    BY <2>1
  <2>3. s = Emit(c, j) /\ (j.op = "JMP" => j.a + (Len(c.code) + 1) \in 0 .. Len(c.code) + 1)
    BY <1>1, <2>2
  <2> HIDE DEF j
  <2> QED
    BY <1>1, <2>3, EmitLonger
<1>3. /\ c.breaks \in Seq(Int) /\ Len(c.breaks) \in Nat /\ n = Len(c.breaks) + 1
  BY <1>1, LensNat
<1>4. x \in Int
  BY <1>1, RegInt DEF Wild
<1>5. DOMAIN e.breaks = 1 .. n /\ e.breaks[n] = x /\ \A i \in 1 .. Len(c.breaks) : e.breaks[i] = c.breaks[i]
      /\ DOMAIN c.breaks = 1 .. Len(c.breaks)
  BY <1>3, <1>4, AppendIs
<1>6. Longer(c, e) /\ Reworked(c, e) /\ Len(c.code) <= Len(e.code)
  BY <1>2 DEF Longer, Reworked
<1>7. IF heap = "full" THEN pc = NoJump ELSE pc = L
  BY DEF NextPC, FuncLen
<1> HIDE DEF L, n, j
<1>8. <<"break", n>> \in Tags /\ <<"break", n>>[1] = "break" /\ <<"break", n>>[2] = n
  BY <1>3 DEF Tags
<1> DEFINE tag == <<"break", n>>
<1>9. tag \in Tags /\ tag[1] = "break" /\ tag[2] = n
  BY <1>8
<1> HIDE DEF tag
<1>10. ASSUME NEW u \in Tags, NEW p \in Nat, <<u, p>> \in Owns(K, l, e)
       PROVE  <<u, p>> \in Owns(K, l, c) \/ (u = tag /\ p = x)
  <2>1. Claimed(K, l, e, u, p)
    BY <1>10, OwnsIs
  <2>2. u = <<u[1], u[2]>>
    BY DEF Tags
  <2>3. Claimed(K, l, c, u, p) \/ (u[1] = "break" /\ u[2] = n /\ p = x)
    BY <1>3, <1>5, <2>1 DEF Claimed
  <2>4. u[1] = "break" /\ u[2] = n => u = tag
    BY <2>2 DEF tag
  <2> QED
    BY <2>3, <2>4, OwnsIs
<1>11. CASE heap = "full"
  <2>1. \A p \in Nat : p # x
    BY <1>7, <1>11 DEF Wild
  <2>2. Traced(e, Owns(K, l, c))
    BY <1>6, LongerTraced
  <2> QED
    BY <1>6, <1>10, <2>1, <2>2, FewerTraced
<1>12. CASE heap # "full"
  <2>1. pc \in Nat /\ x = pc /\ pc = L
    BY <1>2, <1>7, <1>12 DEF NoJump
  <2>2. JmpAt(e, pc)
    BY <1>1, <1>2, <1>12, <2>1 DEF JmpAt
  <2>3. pc >= Len(c.code)
    BY <1>2, <2>1 DEF L
  <2> QED
    BY <1>6, <1>9, <1>10, <2>1, <2>2, <2>3, ClaimTraced
<1> QED
  BY <1>6, <1>11, <1>12

\* Such a break is in the window of its loop.
LEMMA BreakWindow ==
    ASSUME IInv, BInv, stats > 0, NEW c, c = Top, InnerLoop # 0, NEW pc \in Nat \cup {NoJump},
           NEW x, x = IF pc = NoJump THEN Wild ELSE pc,
           NEW e, e.in_loop = c.in_loop, e.breaks = Append(c.breaks, x),
           e.owed = c.owed \cup {[pc |-> pc, loop |-> InnerLoop]}
    PROVE  InLoops(ctl, Len(fs), e, stats - 1)
<1> DEFINE n == Len(c.breaks) + 1
           o == [pc |-> pc, loop |-> InnerLoop]
           l == Len(fs)
<1>1. /\ Level(ctl, l, c, stats) /\ CompOK(c) /\ CtlOK(ctl, fs) /\ stats \in Int /\ l \in Nat
      /\ c = TopOf(fs)
  BY LevelStart
<1>2. c.breaks \in Seq(Int) /\ Len(c.breaks) \in Nat /\ n = Len(c.breaks) + 1 /\ x \in Int
  BY <1>1, LensNat DEF Wild, NoJump
<1>3. /\ DOMAIN e.breaks = 1 .. n /\ Len(e.breaks) = n /\ e.breaks[n] = x
      /\ \A i \in 1 .. Len(c.breaks) : e.breaks[i] = c.breaks[i]
      /\ DOMAIN c.breaks = 1 .. Len(c.breaks)
  BY <1>2, AppendIs
<1>4. /\ InnerLoop \in DOMAIN ctl /\ ctl[InnerLoop].comp = l /\ \A k \in Loops : k <= InnerLoop
      /\ InnerLoop \in Nat /\ Loops = LoopsOf(ctl, l)
  BY <1>1, InnerLoopIs, LoopsAre
<1>5. o.pc = pc /\ o.loop = InnerLoop /\ e.owed = c.owed \cup {o}
  OBVIOUS
<1>6. ctl[InnerLoop].sbreaks \in Nat /\ ctl[InnerLoop].sbreaks <= Len(c.breaks)
  <2>1. ctl[InnerLoop] \in FrameT /\ FrameFits(ctl, fs, InnerLoop)
    BY <1>1, <1>4 DEF CtlOK
  <2>2. ctl[InnerLoop].sbreaks <= Len(c.breaks)
    BY <1>1, <1>4, <2>1 DEF FrameFits, TopOf
  <2> QED
    BY <2>1, <2>2 DEF FrameT
<1> HIDE DEF n, o, l
<1> SUFFICES ASSUME NoDrops PROVE InLoops(ctl, l, e, stats - 1)
  BY DEF InLoops, l
<1>7. /\ e.in_loop = Cardinality(LoopsOf(ctl, l)) /\ Len(c.breaks) + stats <= MaxStats
      /\ e.in_loop + stats <= MaxStats /\ e.in_loop \in Int
  <2>1. InLoops(ctl, l, c, stats) /\ c.in_loop \in Int
    BY <1>1 DEF Level, CompOK, Comp
  <2> QED
    BY <2>1 DEF InLoops
<1>8. Len(e.breaks) + (stats - 1) <= MaxStats /\ e.in_loop + (stats - 1) <= MaxStats
  BY <1>1, <1>2, <1>3, <1>7, ScriptAssumption
<1>9. ASSUME NEW w \in c.owed PROVE \E i \in DOMAIN e.breaks : InWindow(ctl, l, e, w, i)
  <2>1. PICK i \in DOMAIN c.breaks : InWindow(ctl, l, c, w, i)
    BY <1>1 DEF Level, InLoops
  <2>2. i \in DOMAIN e.breaks /\ e.breaks[i] = c.breaks[i]
    BY <1>2, <1>3
  <2> QED
    BY <2>1, <2>2 DEF InWindow
<1>10. InWindow(ctl, l, e, o, n) /\ n \in DOMAIN e.breaks
  <2>1. \A k \in DOMAIN ctl : LoopAt(ctl, l, k) => k \in LoopsOf(ctl, l)
    BY DEF LoopsOf
  <2>2. \A k \in LoopsOf(ctl, l) : k \in Nat
    <3>1. DOMAIN ctl = 1 .. Len(ctl)
      BY <1>1 DEF CtlOK
    <3> QED
      BY <3>1 DEF LoopsOf
  <2>3. \A k \in DOMAIN ctl : LoopAt(ctl, l, k) => ~ (k > InnerLoop)
    BY <1>4, <2>1, <2>2
  <2>4. e.breaks[n] = (IF o.pc = NoJump THEN Wild ELSE o.pc) /\ ctl[o.loop].sbreaks < n
    BY <1>2, <1>3, <1>5, <1>6
  <2> QED
    BY <1>2, <1>3, <1>5, <2>3, <2>4 DEF InWindow
<1> QED
  BY <1>5, <1>7, <1>8, <1>9, <1>10 DEF InLoops

\* A break that is dropped leaves all as it is; then the run has drops.
LEMMA DropLevel ==
    ASSUME IInv, BInv, stats > 0, NEW c, c = Top, c.in_loop = 0 \/ BreaksFull(c),
           NEW e, CompOK(e), e.code = c.code, e.breaks = c.breaks, e.in_loop = c.in_loop,
           e.labels = c.labels, e.gotos = c.gotos, e.lands = c.lands, e.jumps = c.jumps,
           InnerLoop = 0 => e.owed = c.owed
    PROVE  Level(ctl, Len(fs), e, stats - 1)
<1> DEFINE l == Len(fs)
           r == stats - 1
<1>1. /\ Level(ctl, l, c, stats) /\ CompOK(c) /\ CtlOK(ctl, fs) /\ stats \in Int /\ l \in Nat
      /\ r = stats - 1 /\ ctl \in Seq(FrameT)
  BY LevelStart
<1> HIDE DEF l, r
<1>2. Len(c.breaks) \in Nat
  BY <1>1, LensNat
<1>3. Reworked(c, e) /\ Len(c.code) <= Len(e.code) /\ SameCode(c, e)
  BY <1>1, CodeIs DEF Reworked, SameCode
<1>4. Traced(e, Owns(ctl, l, e))
  <2>1. Owns(ctl, l, e) = Owns(ctl, l, c)
    BY DEF Owns, Claimed
  <2>2. Traced(c, Owns(ctl, l, e))
    BY <1>1, <2>1 DEF Level
  <2>3. Longer(c, e)
    BY <1>1, CodeIs DEF Longer
  <2> QED
    BY <2>2, <2>3, LongerTraced
<1>5. ASSUME NoDrops PROVE InnerLoop = 0
  <2>1. c.in_loop = Cardinality(LoopsOf(ctl, l)) /\ Len(c.breaks) + stats <= MaxStats /\ MaxStats <= MaxBreaks
    BY <1>1, <1>5 DEF Level, InLoops, NoDrops
  <2>2. ~ BreaksFull(c)
    BY <1>1, <1>2, <2>1, ScriptAssumption, CompAssumption DEF BreaksFull
  <2>3. LoopsOf(ctl, l) = {}
    BY <1>1, <2>1, <2>2, LoopsFinite, FS_EmptySet
  <2>4. Loops = {}
    BY <1>1, <2>3, LoopsAre DEF l
  <2> QED
    BY <2>4 DEF InnerLoop
<1>6. InLoops(ctl, l, e, r)
  <2> SUFFICES ASSUME NoDrops PROVE InLoops(ctl, l, e, r)
    BY DEF InLoops
  <2>1. e.owed = c.owed
    BY <1>5
  <2>2. /\ e.in_loop = Cardinality(LoopsOf(ctl, l)) /\ Len(c.breaks) + stats <= MaxStats
        /\ e.in_loop + stats <= MaxStats /\ e.in_loop \in Int
    BY <1>1 DEF Level, InLoops, CompOK, Comp
  <2>3. Len(e.breaks) + r <= MaxStats /\ e.in_loop + r <= MaxStats
    BY <1>1, <1>2, <2>2, ScriptAssumption
  <2>4. \A w \in c.owed : \E i \in DOMAIN c.breaks : InWindow(ctl, l, c, w, i)
    BY <1>1 DEF Level, InLoops
  <2> QED
    BY <2>1, <2>2, <2>3, <2>4 DEF InLoops, InWindow
<1>7. Level(ctl, l, e, r)
  BY <1>1, <1>3, <1>4, <1>6, ListedLevel
<1> QED
  BY <1>7 DEF l, r

\* A break waits for the end of its loop.
LEMMA BreakLevels == ASSUME IInv, BInv, BreakStat PROVE BInv'
<1> DEFINE c       == Top
           dropped == c.in_loop = 0 \/ BreaksFull(c)
           pc      == IF dropped THEN NoJump ELSE NextPC(c)
           x       == IF pc = NoJump THEN Wild ELSE pc
           s       == Emit(c, Jump(0))
           d       == IF dropped THEN c ELSE [s EXCEPT !.breaks = Append(@, x)]
           o       == [pc |-> pc, loop |-> InnerLoop]
           e       == IF InnerLoop = 0 THEN d ELSE [d EXCEPT !.owed = @ \cup {o}]
           l       == Len(fs)
           r       == stats - 1
<1>1. /\ stats > 0 /\ Simple(On(fs, e)) /\ CompOK(c) /\ c = TopOf(fs) /\ c = Top
      /\ FsKept(fs, fs) /\ Level(ctl, l, c, stats) /\ stats \in Int
      /\ \A w \in c.owed : OwedFits(ctl, l, w)
  <2>1. stats > 0 /\ Simple(On(fs, e))
    BY DEF BreakStat, CanStart
  <2> HIDE DEF e
  <2> QED
    BY <2>1, LevelStart
<1>2. pc \in Nat \cup {NoJump} /\ pc \in Int /\ x \in Int
  <2>1. NextPC(c) \in Nat \cup {NoJump}
    BY <1>1, CodeIs DEF NextPC
  <2> QED
    BY <2>1 DEF NoJump, Wild
<1>a. /\ x = (IF pc = NoJump THEN Wild ELSE pc) /\ s = Emit(c, Jump(0)) /\ o = [pc |-> pc, loop |-> InnerLoop]
      /\ (dropped => d = c) /\ (~ dropped => d = WithBreak(s, x) /\ pc = NextPC(c))
      /\ (InnerLoop = 0 => e = d) /\ (InnerLoop # 0 => e = WithOwed(d, o))
  BY DEF WithBreak, WithOwed
<1>b. dropped <=> (c.in_loop = 0 \/ BreaksFull(c))
  OBVIOUS
<1> HIDE DEF c, dropped, pc, x, s, d, o, e, r
<1>3. /\ CompOK(d) /\ d.owed = c.owed
      /\ d.labels = c.labels /\ d.gotos = c.gotos /\ d.jumps = c.jumps /\ d.lands = c.lands
      /\ d.in_loop = c.in_loop
      /\ (~ dropped => d.code = s.code /\ d.breaks = Append(c.breaks, x))
  <2>1. CASE dropped
    BY <1>1, <1>a, <2>1
  <2>2. CASE ~ dropped
    <3>1. ~ BreaksFull(c) /\ s = Emit(c, Jump(0)) /\ d = WithBreak(s, x)
      BY <1>a, <1>b, <2>2
    <3>2. OneMore(c, s, x, d)
      BY <1>1, <1>2, <3>1, BreakListed
    <3> QED
      BY <3>2 DEF OneMore
  <2> QED
    BY <2>1, <2>2
<1>4. /\ CompOK(e) /\ e.code = d.code /\ e.breaks = d.breaks
      /\ e.labels = d.labels /\ e.gotos = d.gotos /\ e.jumps = d.jumps /\ e.lands = d.lands
      /\ e.in_loop = d.in_loop
      /\ e.owed = IF InnerLoop = 0 THEN d.owed ELSE d.owed \cup {o}
  <2>1. CASE InnerLoop = 0
    BY <1>3, <1>a, <2>1
  <2>2. CASE InnerLoop # 0
    <3>1. InnerLoop \in Nat
      BY <2>2, InnerLoopIs
    <3>2. o \in [pc : Int, loop : Int] /\ e = WithOwed(d, o)
      BY <1>2, <1>a, <2>2, <3>1
    <3>3. /\ CompOK(e) /\ e.code = d.code /\ e.breaks = d.breaks
          /\ e.labels = d.labels /\ e.gotos = d.gotos /\ e.jumps = d.jumps /\ e.lands = d.lands
          /\ e.in_loop = d.in_loop /\ e.owed = d.owed \cup {o}
      BY <1>3, <3>2, BreakNoted
    <3> QED
      BY <2>2, <3>3
  <2> QED
    BY <2>1, <2>2
<1>5. \A w \in e.owed : OwedFits(ctl, l, w)
  <2>1. InnerLoop # 0 => OwedFits(ctl, l, o)
    BY <1>a, InnerLoopIs DEF OwedFits
  <2> QED
    BY <1>1, <1>3, <1>4, <2>1
<1>6. Level(ctl, l, e, stats - 1)
  <2>1. CASE dropped
    <3>1. e.code = c.code /\ e.breaks = c.breaks /\ (InnerLoop = 0 => e.owed = c.owed)
      BY <1>3, <1>4, <1>a, <2>1
    <3> QED
      BY <1>1, <1>3, <1>4, <1>b, <2>1, <3>1, DropLevel DEF c
  <2>2. CASE ~ dropped
    <3>1. pc = NextPC(c) /\ e.code = s.code /\ e.breaks = Append(c.breaks, x) /\ e.in_loop = c.in_loop
          /\ e.labels = c.labels /\ e.gotos = c.gotos /\ e.jumps = c.jumps /\ e.lands = c.lands
      BY <1>3, <1>4, <1>a, <2>2
    <3>2. Traced(c, Owns(ctl, l, c))
      BY <1>1 DEF Level
    <3>3. Traced(e, Owns(ctl, l, e)) /\ Reworked(c, e) /\ Len(c.code) <= Len(e.code)
      BY <1>1, <1>4, <1>a, <3>1, <3>2, BreakTraced, SMTT(30)
    <3>4. InLoops(ctl, l, e, r)
      <4>1. CASE InnerLoop # 0
        <5>1. e.owed = c.owed \cup {[pc |-> pc, loop |-> InnerLoop]}
          BY <1>3, <1>4, <1>a, <4>1
        <5>2. InLoops(ctl, Len(fs), e, stats - 1)
          BY <1>1, <1>2, <1>a, <3>1, <4>1, <5>1, BreakWindow
        <5> QED
          BY <5>2 DEF r
      <4>2. CASE InnerLoop = 0
        <5> SUFFICES ASSUME NoDrops PROVE FALSE
          BY DEF InLoops
        <5>1. Loops = {} /\ Len(fs) \in Nat
          BY <4>2, NoInnerLoop, LevelStart
        <5>2. LoopsOf(ctl, l) = {}
          BY <5>1, LoopsAre
        <5>3. c.in_loop = 0
          BY <1>1, <5>2, FS_EmptySet DEF Level, InLoops
        <5> QED
          BY <1>b, <2>2, <5>3
      <4> QED
        BY <4>1, <4>2
    <3>5. Level(ctl, l, e, r)
      BY <1>1, <3>3, <3>4, ListedLevel
    <3> QED
      BY <3>5 DEF r
  <2> QED
    BY <2>1, <2>2
<1> QED
  BY <1>1, <1>4, <1>5, <1>6, SimpleLevels

\* What a statement that lists jumps leaves of a level.
Relisted(K, l, c, d) ==
    /\ Traced(d, Owns(K, l, d)) /\ Reworked(c, d) /\ Len(c.code) <= Len(d.code)
    /\ d.breaks = c.breaks /\ d.owed = c.owed /\ d.in_loop = c.in_loop

\* A goto without a label yet waits for one.
LEMMA GotoWaits ==
    ASSUME NEW K, NEW l, NEW c, Traced(c, Owns(K, l, c)), NEW name \in Labels,
           FirstLabel(c, name) = 0,
           NEW s, s = Emit(c, Jump(0)), NEW pc, pc = NextPC(c),
           NEW d, d = WithJump(s, name, pc), NEW g, g = WithGoto(d, name, pc)
    PROVE  Relisted(K, l, c, g)
<1> DEFINE L == Len(c.code)
           n == Len(c.gotos) + 1
           j == Jump(0)
           a == [name |-> name, pc |-> pc]
           T == {[pc |-> p, name |-> name] : p \in Real(pc)}
<1>1. CompOK(c) /\ j \in Instrs /\ j.op = "JMP" /\ j.a = 0 /\ "JMP" \notin Looping
  <2>1. Jump(0) \in Plains /\ Jump(0) \in Instrs
    BY PlainJump DEF Plains
  <2> QED
    BY <2>1 DEF Traced, Jump, Instr, Looping
<1>2. /\ Longer(c, s) /\ CompOK(s) /\ Reworked(c, s) /\ L \in Nat
      /\ s.breaks = c.breaks /\ s.owed = c.owed /\ s.in_loop = c.in_loop
      /\ DOMAIN s.code = 1 .. Len(s.code) /\ DOMAIN c.code = 1 .. L
      /\ IF heap = "full" THEN s.code = c.code
         ELSE Len(s.code) = L + 1 /\ s.code[L + 1] = j
  <2>1. Len(c.code) \in Nat
    BY <1>1, CodeIs
  <2>2. 0 + (Len(c.code) + 1) \in 0 .. Len(c.code) + 1
    BY <2>1
  <2>3. s = Emit(c, j) /\ (j.op = "JMP" => j.a + (Len(c.code) + 1) \in 0 .. Len(c.code) + 1)
    BY <1>1, <2>2
  <2> HIDE DEF j
  <2> QED
    BY <1>1, <2>3, EmitLonger
<1>3. IF heap = "full" THEN pc = NoJump ELSE pc = L
  BY DEF NextPC, FuncLen
<1>4. pc \in Int
  BY <1>2, <1>3 DEF NoJump
<1>a. Jumped(s, name, pc, d)
  BY <1>2, <1>4, JumpIs
<1>5. Jumped(s, name, pc, d) /\ CompOK(d)
  BY <1>a DEF Jumped, Moved
<1>b. Waits(d, name, pc, g)
  BY <1>4, <1>5, WaitIs
<1>6. Waits(d, name, pc, g) /\ CompOK(g)
  BY <1>b DEF Waits, Moved
<1>7. /\ g.code = s.code /\ g.labels = s.labels /\ g.lands = s.lands /\ g.jumps = s.jumps \cup T
      /\ g.gotos = Append(s.gotos, a)
      /\ g.breaks = c.breaks /\ g.owed = c.owed /\ g.in_loop = c.in_loop
      /\ s.labels = c.labels /\ s.gotos = c.gotos
  BY <1>2, <1>5, <1>6 DEF Jumped, Waits, Longer
<1>8. a \in Label /\ a.name = name /\ a.pc = pc
  BY <1>4 DEF Label
<1>9. c.gotos \in Seq(Label) /\ Len(c.gotos) \in Nat /\ n = Len(c.gotos) + 1
  BY <1>1, CodeIs
<1> HIDE DEF a
<1>10. DOMAIN g.gotos = 1 .. n /\ g.gotos[n] = a /\ \A i \in 1 .. Len(c.gotos) : g.gotos[i] = c.gotos[i]
      /\ DOMAIN c.gotos = 1 .. Len(c.gotos)
  BY <1>7, <1>8, <1>9, AppendIs, SMTT(30)
<1>11. Reworked(c, g) /\ Len(c.code) <= Len(g.code)
  BY <1>2, <1>7 DEF Longer, Reworked
<1> DEFINE tag == <<"goto", n>>
<1>12. tag \in Tags /\ tag[1] = "goto" /\ tag[2] = n
  BY <1>9 DEF Tags
<1> HIDE DEF L, n, j, tag
<1>13. ASSUME NEW u \in Tags, NEW p \in Nat, <<u, p>> \in Owns(K, l, g)
       PROVE  <<u, p>> \in Owns(K, l, c) \/ (u = tag /\ p = pc)
  <2>1. Claimed(K, l, g, u, p)
    BY <1>13, OwnsIs
  <2>2. u = <<u[1], u[2]>>
    BY DEF Tags
  <2>3. Claimed(K, l, c, u, p) \/ (u[1] = "goto" /\ u[2] = n /\ p = pc)
    BY <1>7, <1>8, <1>9, <1>10, <2>1, SMTT(30) DEF Claimed
  <2>4. u[1] = "goto" /\ u[2] = n => u = tag
    BY <2>2 DEF tag
  <2> QED
    BY <2>3, <2>4, OwnsIs
<1>14. Traced(s, Owns(K, l, g))
  <2>1. CASE heap = "full"
    <3>1. \A p \in Nat : p # pc
      BY <1>3, <2>1 DEF NoJump
    <3>2. Traced(s, Owns(K, l, c))
      BY <1>2, LongerTraced
    <3> QED
      BY <1>13, <3>1, <3>2, FewerTraced
  <2>2. CASE heap # "full"
    <3>1. pc \in Nat /\ pc = L
      BY <1>2, <1>3, <2>2
    <3>2. JmpAt(s, pc)
      BY <1>1, <1>2, <2>2, <3>1 DEF JmpAt
    <3>3. pc >= Len(c.code)
      BY <1>2, <3>1 DEF L
    <3> QED
      BY <1>2, <1>12, <1>13, <3>1, <3>2, <3>3, ClaimTraced
  <2> QED
    BY <2>1, <2>2
<1>15. \A x \in T : JmpAt(s, x.pc) /\ x.pc = a.pc /\ x.name = a.name
  <2> SUFFICES ASSUME NEW p \in Real(pc) PROVE JmpAt(s, p) /\ p = pc
    BY <1>8
  <2>1. p = pc /\ pc # NoJump
    BY DEF Real
  <2>2. heap # "full" /\ pc = L
    BY <1>3, <2>1
  <2> QED
    BY <1>1, <1>2, <2>1, <2>2 DEF JmpAt
<1>16. a.name # Done => FirstLabel(s, a.name) = 0
  BY <1>7, <1>8, FirstSame
<1> HIDE DEF T
<1>17. Traced(g, Owns(K, l, g))
  <2> DEFINE P == Owns(K, l, g)
  <2>1. Traced(s, P)
    BY <1>14
  <2> HIDE DEF P
  <2>2. MoreGoto(s, a, T, g)
    BY <1>7, <1>15, <1>16 DEF MoreGoto
  <2>3. Traced(g, P)
    BY <1>6, <1>8, <2>1, <2>2, WaitTraced
  <2> QED
    BY <2>3 DEF P
<1> QED
  BY <1>7, <1>11, <1>17 DEF Relisted

\* What waits is said by the frames and the lists.
LEMMA OwnsSame ==
    ASSUME NEW K, NEW l, NEW c, NEW d, d.breaks = c.breaks, d.gotos = c.gotos
    PROVE  Owns(K, l, d) = Owns(K, l, c)
BY DEF Owns, Claimed

\* A goto jumps back to a label.
LEMMA GotoJumps ==
    ASSUME NEW K, NEW l, NEW c, Traced(c, Owns(K, l, c)), NEW name \in Labels,
           FirstLabel(c, name) # 0, NEW target, target = c.labels[FirstLabel(c, name)].pc,
           NEW s, s = Emit(c, Jump(0)), NEW pc, pc = NextPC(c),
           NEW d, d = WithJump(s, name, pc), NEW p, p = PatchAll(d, {pc}, target)
    PROVE  Relisted(K, l, c, p)
<1> DEFINE L == Len(c.code)
           n == Len(c.gotos) + 1
           j == Jump(0)
           T == {[pc |-> z, name |-> name] : z \in Real(pc)}
           q == PatchAll(s, {pc}, target)
           P == Owns(K, l, c)
           tag == <<"goto", n>>
           O == P \cup {<<tag, pc>>}
<1>1. CompOK(c) /\ j \in Instrs /\ j.op = "JMP" /\ j.a = 0 /\ "JMP" \notin Looping
  <2>1. Jump(0) \in Plains /\ Jump(0) \in Instrs
    BY PlainJump DEF Plains
  <2> QED
    BY <2>1 DEF Traced, Jump, Instr, Looping
<1>2. /\ Longer(c, s) /\ CompOK(s) /\ Reworked(c, s) /\ L \in Nat
      /\ s.breaks = c.breaks /\ s.owed = c.owed /\ s.in_loop = c.in_loop
      /\ DOMAIN s.code = 1 .. Len(s.code) /\ DOMAIN c.code = 1 .. L
      /\ IF heap = "full" THEN s.code = c.code
         ELSE Len(s.code) = L + 1 /\ s.code[L + 1] = j
  <2>1. Len(c.code) \in Nat
    BY <1>1, CodeIs
  <2>2. 0 + (Len(c.code) + 1) \in 0 .. Len(c.code) + 1
    BY <2>1
  <2>3. s = Emit(c, j) /\ (j.op = "JMP" => j.a + (Len(c.code) + 1) \in 0 .. Len(c.code) + 1)
    BY <1>1, <2>2
  <2> HIDE DEF j
  <2> QED
    BY <1>1, <2>3, EmitLonger
<1>3. IF heap = "full" THEN pc = NoJump ELSE pc = L
  BY DEF NextPC, FuncLen
<1>4. pc \in Int /\ target \in 0 .. L
  <2>1. pc \in Int
    BY <1>2, <1>3 DEF NoJump
  <2>2. FirstLabel(c, name) \in DOMAIN c.labels
    BY <1>1, FirstLabelIs
  <2> QED
    BY <2>1, <2>2 DEF Traced, GotosSound
<1>5. /\ Len(c.code) <= Len(s.code) /\ s.labels = c.labels /\ s.gotos = c.gotos
      /\ Len(s.code) \in Nat
  BY <1>2, CodeIs DEF Longer
<1>6. target \in 0 .. Len(s.code) /\ target \in Int
  BY <1>2, <1>4, <1>5
<1>7. Jumped(s, name, pc, d)
  BY <1>2, <1>4, JumpIs
<1>8. CompOK(d) /\ d.code = s.code /\ d.labels = s.labels /\ d.gotos = s.gotos /\ d.lands = s.lands
      /\ d.breaks = s.breaks /\ d.owed = s.owed /\ d.in_loop = s.in_loop /\ d.jumps = s.jumps \cup T
  BY <1>7 DEF Jumped, Moved
<1>9. q = PatchAll(s, {pc}, target) /\ O = P \cup {<<tag, pc>>}
  OBVIOUS
<1>10. /\ CompOK(p) /\ p.labels = d.labels /\ p.gotos = d.gotos /\ p.lands = d.lands /\ p.jumps = d.jumps
       /\ p.breaks = d.breaks /\ p.owed = d.owed /\ p.in_loop = d.in_loop
  BY <1>6, <1>8, PatchCode
<1>11. /\ CompOK(q) /\ q.labels = s.labels /\ q.gotos = s.gotos /\ q.lands = s.lands /\ q.jumps = s.jumps
       /\ Len(q.code) = Len(s.code)
  BY <1>2, <1>6, PatchCode
<1>12. p.code = q.code
  <2>1. d \in Comp /\ s \in Comp
    BY <1>2, <1>8 DEF CompOK
  <2> QED
    BY <1>8, <2>1 DEF PatchAll, Comp
<1>13. c.gotos \in Seq(Label) /\ Len(c.gotos) \in Nat /\ n = Len(c.gotos) + 1 /\ DOMAIN c.gotos = 1 .. Len(c.gotos)
  BY <1>1, CodeIs
<1>14. tag \in Tags /\ tag[1] = "goto" /\ tag[2] = n
  BY <1>13 DEF Tags
<1>15. \A z \in Nat : <<tag, z>> \notin P
  <2> SUFFICES ASSUME NEW z \in Nat, <<tag, z>> \in P PROVE FALSE
    OBVIOUS
  <2> HIDE DEF tag, n
  <2>1. Claimed(K, l, c, tag, z)
    BY <1>14, OwnsIs
  <2> QED
    BY <1>13, <1>14, <2>1 DEF Claimed
<1>16. p.breaks = c.breaks /\ p.gotos = c.gotos
  BY <1>2, <1>5, <1>8, <1>10
<1>17. Owns(K, l, p) = P
  <2>1. Owns(K, l, p) = Owns(K, l, c)
    BY <1>16, OwnsSame
  <2> QED
    BY <2>1
<1>18. \A u \in Tags, z \in Nat : <<u, z>> \in O => <<u, z>> \in P \/ (u = tag /\ z = pc)
  <2> HIDE DEF tag, P
  <2> QED
    OBVIOUS
<1>19. <<tag, pc>> \in O /\ \A u \in Tags, z \in Nat : <<u, z>> \in P => <<u, z>> \in O
  OBVIOUS
<1> HIDE DEF L, n, j, q, P, tag, O
<1>20. Traced(c, P)
  BY DEF P
<1>21. Traced(s, O)
  <2>1. CASE heap = "full"
    <3>1. \A z \in Nat : z # pc
      BY <1>3, <2>1 DEF NoJump
    <3>2. Traced(s, P)
      BY <1>2, <1>20, LongerTraced
    <3> QED
      BY <1>18, <3>1, <3>2, FewerTraced
  <2>2. CASE heap # "full"
    <3>1. pc \in Nat /\ pc = L
      BY <1>2, <1>3, <2>2
    <3>2. JmpAt(s, pc)
      BY <1>1, <1>2, <2>2, <3>1 DEF JmpAt
    <3>3. pc >= Len(c.code)
      BY <1>2, <3>1 DEF L
    <3> QED
      BY <1>2, <1>14, <1>18, <1>20, <3>1, <3>2, <3>3, ClaimTraced
  <2> QED
    BY <2>1, <2>2
<1>22. \A z \in {pc} : z \in Nat => \E t \in Tags : <<t, z>> \in O
  BY <1>14, <1>19
<1>23. /\ Traced(q, O)
       /\ \A z \in Nat : JmpAt(s, z) => Goes(q, z) = IF z \in {pc} THEN target ELSE Goes(s, z)
  BY <1>6, <1>9, <1>21, <1>22, PatchTraced
<1>24. Reworked(s, q)
  BY <1>6, <1>9, <1>21, <1>22, PatchReworked
<1>25. ASSUME NEW x \in T
       PROVE  /\ JmpAt(q, x.pc) /\ Reaches(q, x)
              /\ \E t \in Tags : <<t, x.pc>> \in O /\ <<t, x.pc>> \notin P
  <2>1. x.pc = pc /\ x.name = name /\ pc # NoJump
    BY DEF Real
  <2>2. pc \in Nat
    BY <1>2, <1>3, <2>1
  <2>3. JmpAt(s, pc) /\ JmpAt(q, pc)
    BY <1>14, <1>19, <1>21, <1>23, <2>2 DEF Traced, Apart
  <2>4. Goes(q, pc) = target
    BY <1>23, <2>2, <2>3
  <2>5. FirstLabel(q, name) = FirstLabel(c, name) /\ q.labels = c.labels
    BY <1>5, <1>11, FirstSame
  <2> QED
    BY <1>14, <1>15, <1>19, <2>1, <2>2, <2>3, <2>4, <2>5 DEF Reaches
<1>26. p.jumps = q.jumps \cup T /\ p.labels = q.labels /\ p.gotos = q.gotos /\ p.lands = q.lands
  BY <1>8, <1>10, <1>11
<1> HIDE DEF T
<1>27. Traced(p, P)
  <2>1. MoreJumps(q, O, T, p, P)
    BY <1>12, <1>19, <1>25, <1>26, SMTT(30) DEF MoreJumps
  <2> QED
    BY <1>10, <1>23, <2>1, JumpsTraced
<1>28. Reworked(c, p)
  <2>1. Reworked(c, q)
    BY <1>2, <1>24, ReworkedTrans
  <2> QED
    BY <1>12, <2>1 DEF Reworked
<1>29. Len(c.code) <= Len(p.code) /\ p.owed = c.owed /\ p.in_loop = c.in_loop
  BY <1>2, <1>5, <1>8, <1>10, <1>11, <1>12
<1> QED
  BY <1>16, <1>17, <1>27, <1>28, <1>29 DEF Relisted

\* A statement whose function keeps its windows, and adds what it waits for.
LEMMA ListedSimple ==
    ASSUME IInv, BInv, stats > 0, NEW c, c = Top, NEW d, Relisted(ctl, Len(fs), c, d), Simple(On(fs, d))
    PROVE  BInv'
<1>a. /\ CompOK(d) /\ Traced(d, Owns(ctl, Len(fs), d)) /\ Reworked(c, d) /\ Len(c.code) <= Len(d.code)
      /\ d.breaks = c.breaks /\ d.owed = c.owed /\ d.in_loop = c.in_loop
  BY DEF Relisted, Traced
<1> DEFINE r == stats - 1
           l == Len(fs)
<1>1. /\ Level(ctl, l, c, stats) /\ stats \in Int /\ r \in Int /\ r <= stats /\ FsKept(fs, fs)
      /\ CompOK(c)
      /\ \A o \in c.owed : OwedFits(ctl, l, o)
  BY LevelStart
<1> HIDE DEF r
<1>2. InLoops(ctl, l, d, r)
  <2>1. SameWindows(ctl, ctl, l)
    BY SameRefl, LoopsSame
  <2>2. InLoops(ctl, l, c, stats) /\ Len(c.breaks) \in Nat /\ c.in_loop \in Int
    <3>1. InLoops(ctl, l, c, stats)
      BY <1>1 DEF Level
    <3>2. CompOK(c)
      BY <1>1
    <3>3. c.in_loop \in Int
      BY <3>2 DEF CompOK, Comp
    <3>4. Len(c.breaks) \in Nat
      BY <3>2, LensNat
    <3> QED
      BY <3>1, <3>3, <3>4
  <2>3. \A o \in c.owed : o.loop \in DOMAIN ctl /\ ctl[o.loop].comp = l
    BY <1>1 DEF OwedFits
  <2> HIDE DEF l
  <2> QED
    BY <1>1, <1>a, <2>1, <2>2, <2>3, InLoopsSame
<1>3. Level(ctl, l, d, r)
  BY <1>1, <1>2, <1>a, ListedLevel
<1> QED
  BY <1>1, <1>3, <1>a, SimpleLevels DEF r

\* A goto waits, or reaches its label.
LEMMA GotoLevels == ASSUME IInv, BInv, NEW name \in Labels, GotoStat(name) PROVE BInv'
<1> DEFINE c   == Top
           pc  == NextPC(c)
           lab == FirstLabel(c, name)
           at  == c.labels[lab].pc
           s   == Emit(c, Jump(0))
           d   == WithJump(s, name, pc)
           p   == PatchAll(d, {pc}, at)
           g   == WithGoto(d, name, pc)
<1>1. /\ stats > 0
      /\ \/ lab # 0 /\ Simple(On(fs, p))
         \/ Refuse
         \/ lab = 0 /\ Simple(On(fs, g))
  BY DEF GotoStat, WithJump, WithGoto, CanStart, Patch
<1>2. /\ pc = NextPC(c) /\ s = Emit(c, Jump(0)) /\ d = WithJump(s, name, pc) /\ g = WithGoto(d, name, pc)
      /\ p = PatchAll(d, {pc}, at) /\ at = c.labels[FirstLabel(c, name)].pc /\ lab = FirstLabel(c, name)
      /\ c = Top
  OBVIOUS
<1> HIDE DEF c, pc, lab, s, d, p, g, at
<1>3. Traced(c, Owns(ctl, Len(fs), c))
  BY <1>2, LevelStart DEF Level
<1>4. CASE lab # 0 /\ Simple(On(fs, p))
  <2>1. Relisted(ctl, Len(fs), c, p)
    BY <1>2, <1>3, <1>4, GotoJumps
  <2> QED
    BY <1>1, <1>2, <1>4, <2>1, ListedSimple
<1>5. CASE lab = 0 /\ Simple(On(fs, g))
  <2>1. Relisted(ctl, Len(fs), c, g)
    BY <1>2, <1>3, <1>5, GotoWaits
  <2> QED
    BY <1>1, <1>2, <1>5, <2>1, ListedSimple
<1> QED
  BY <1>1, <1>4, <1>5, RefuseLevels

\* Patching the jumps of S, which are waited for.
Owned(O, S) == \A pc \in S : pc \in Nat => \E t \in Tags : <<t, pc>> \in O
Patched(c, O, S, target, d) ==
    /\ Traced(d, O) /\ Reworked(c, d) /\ Len(d.code) = Len(c.code)
    /\ \A pc \in Nat : JmpAt(c, pc) => Goes(d, pc) = IF pc \in S THEN target ELSE Goes(c, pc)

\* They lead to the target.
LEMMA PatchAims ==
    ASSUME NEW c, NEW O, Traced(c, O), NEW S, Owned(O, S), NEW target \in 0 .. Len(c.code),
           NEW d, d = PatchAll(c, S, target)
    PROVE  Patched(c, O, S, target, d)
<1>1. \A pc \in S : pc \in Nat => \E t \in Tags : <<t, pc>> \in O
  BY DEF Owned
<1>2. /\ Traced(d, O)
      /\ \A pc \in Nat : JmpAt(c, pc) => Goes(d, pc) = IF pc \in S THEN target ELSE Goes(c, pc)
  BY <1>1, PatchTraced, SMTT(30)
<1>3. target \in Int /\ CompOK(c)
  BY CodeIs DEF Traced
<1>4. Reworked(c, d)
  BY <1>1, <1>3, PatchReworked
<1>5. Len(d.code) = Len(c.code)
  BY <1>3, PatchCode
<1> QED
  BY <1>2, <1>4, <1>5 DEF Patched

\* A label is where the gotos that wait for it lead.
LEMMA LabelLands ==
    ASSUME NEW K, NEW l, NEW c, Traced(c, Owns(K, l, c)), NEW name \in Labels,
           NEW d, d = PatchAll(c, Waiting(c, name), FuncLen(c)), NEW g, Labelled(c, d, name, g)
    PROVE  Relisted(K, l, c, g)
<1> DEFINE O    == Owns(K, l, c)
           P    == Owns(K, l, g)
           S    == Waiting(c, name)
           here == FuncLen(c)
<1>1. /\ CompOK(c) /\ here = Len(c.code) /\ Len(c.code) \in Nat /\ here \in 0 .. Len(c.code) /\ here \in Int
      /\ c.gotos \in Seq(Label) /\ DOMAIN c.gotos = 1 .. Len(c.gotos) /\ Len(c.gotos) \in Nat
  BY CodeIs DEF Traced
<1>2. /\ CompOK(g) /\ g.code = d.code /\ g.lands = c.lands /\ g.jumps = c.jumps
      /\ g.breaks = c.breaks /\ g.owed = c.owed /\ g.in_loop = c.in_loop
      /\ g.labels = Append(c.labels, [name |-> name, pc |-> here])
      /\ DOMAIN g.gotos = DOMAIN c.gotos
      /\ \A i \in DOMAIN c.gotos : IF c.gotos[i].name = name THEN g.gotos[i] = [c.gotos[i] EXCEPT !.name = Done]
                                   ELSE g.gotos[i] = c.gotos[i]
  BY DEF Labelled, Moved
<1>3. \A z : z \in S <=> \E i \in DOMAIN c.gotos : c.gotos[i].name = name /\ c.gotos[i].pc = z
  BY DEF Waiting
<1>4. \A i \in DOMAIN c.gotos : IF c.gotos[i].name = name THEN g.gotos[i].name = Done
                                ELSE g.gotos[i] = c.gotos[i]
  <2>1. \A x \in Label : [x EXCEPT !.name = Done].name = Done
    BY DEF Label
  <2> SUFFICES ASSUME NEW i \in DOMAIN c.gotos, c.gotos[i].name = name PROVE g.gotos[i].name = Done
    BY <1>2
  <2> DEFINE x == c.gotos[i]
  <2>2. x \in Label /\ g.gotos[i] = [x EXCEPT !.name = Done]
    BY <1>1, <1>2
  <2> HIDE DEF x
  <2> QED
    BY <2>1, <2>2
<1>5. \A i \in DOMAIN c.gotos : <<"goto", i>> \in Tags /\ <<"goto", i>>[1] = "goto" /\ <<"goto", i>>[2] = i
  BY <1>1 DEF Tags
<1>6. name # Done
  BY ScriptAssumption
<1>7. d = PatchAll(c, S, here)
  OBVIOUS
<1> HIDE DEF S, here
<1>8. ASSUME NEW i \in DOMAIN c.gotos, c.gotos[i].name = name, c.gotos[i].pc \in Nat
      PROVE  <<<<"goto", i>>, c.gotos[i].pc>> \in O
  <2> DEFINE tag == <<"goto", i>>
             z   == c.gotos[i].pc
  <2>1. tag \in Tags /\ tag[1] = "goto" /\ tag[2] = i /\ z \in Nat
    BY <1>5, <1>8
  <2> HIDE DEF tag
  <2>2. Claimed(K, l, c, tag, z)
    BY <1>6, <1>8, <2>1 DEF Claimed
  <2>3. <<tag, z>> \in O
    BY <2>1, <2>2, OwnsIs
  <2> QED
    BY <2>3 DEF tag
<1>9. ASSUME NEW i \in DOMAIN c.gotos, NEW pc \in Nat, c.gotos[i].name = name
      PROVE  <<<<"goto", i>>, pc>> \notin P
  <2> DEFINE tag == <<"goto", i>>
  <2>1. tag \in Tags /\ tag[1] = "goto" /\ tag[2] = i
    BY <1>5
  <2> HIDE DEF tag
  <2>2. ~ Claimed(K, l, g, tag, pc)
    BY <1>4, <1>9, <2>1 DEF Claimed
  <2>3. <<tag, pc>> \notin P
    BY <2>1, <2>2, OwnsIs
  <2> QED
    BY <2>3 DEF tag
<1>10. ASSUME NEW t \in Tags, NEW pc \in Nat, <<t, pc>> \in P PROVE <<t, pc>> \in O
  <2>1. Claimed(K, l, g, t, pc)
    BY <1>10, OwnsIs
  <2>2. Claimed(K, l, c, t, pc)
    BY <1>2, <1>4, <2>1 DEF Claimed
  <2> QED
    BY <2>2, OwnsIs
<1> HIDE DEF O, P
<1>11. Traced(c, O)
  BY DEF O
<1>12. \A pc \in S : pc \in Nat => \E t \in Tags : <<t, pc>> \in O
  BY <1>3, <1>5, <1>8
<1>13. Patched(c, O, S, here, d)
  BY <1>1, <1>7, <1>11, <1>12, PatchAims DEF Owned
<1>b. /\ Traced(d, O) /\ Reworked(c, d) /\ Len(d.code) = Len(c.code)
      /\ \A pc \in Nat : JmpAt(c, pc) => Goes(d, pc) = IF pc \in S THEN here ELSE Goes(c, pc)
  BY <1>13 DEF Patched
<1>14. /\ d.labels = c.labels /\ d.gotos = c.gotos /\ d.lands = c.lands /\ d.jumps = c.jumps
       /\ Len(d.code) = Len(c.code)
  BY <1>1, <1>7, PatchCode
<1>16. ASSUME NEW i \in DOMAIN c.gotos, c.gotos[i].name = name, c.gotos[i].pc \in Nat
       PROVE  Goes(d, c.gotos[i].pc) = here
  <2>1. c.gotos[i].pc \in S
    BY <1>3, <1>16
  <2>2. JmpAt(c, c.gotos[i].pc)
    BY <1>5, <1>8, <1>11, <1>16 DEF Traced, Apart
  <2> QED
    BY <1>16, <1>b, <2>1, <2>2
<1>17. Traced(g, P)
  <2>1. MoreLabels(d, O, name, here, g, P)
    BY <1>2, <1>4, <1>8, <1>9, <1>10, <1>14, <1>16 DEF MoreLabels
  <2>2. here \in 0 .. Len(d.code)
    BY <1>1, <1>14, SMTT(30)
  <2> QED
    BY <1>2, <1>b, <2>1, <2>2, LabelTraced
<1> QED
  <2>1. Reworked(c, g) /\ Len(c.code) <= Len(g.code)
    BY <1>1, <1>2, <1>b DEF Reworked
  <2> QED
    BY <1>2, <1>17, <2>1 DEF P, Relisted

-----------------------------------------------------------------------------
\* A label is reached by the gotos that waited for it.
LEMMA LabelLevels == ASSUME IInv, BInv, NEW name \in Labels, LabelStat(name) PROVE BInv'
<1> DEFINE c == Top
           d == PatchAll(c, Waiting(c, name), FuncLen(c))
           g == WithLabel(c, d, name)
           S == Waiting(c, name)
<1>1. stats > 0 /\ (Refuse \/ Simple(On(fs, g)))
  BY DEF LabelStat, CanStart, WithLabel, Waiting
<1>2. d = PatchAll(c, Waiting(c, name), FuncLen(c)) /\ g = WithLabel(c, d, name) /\ c = Top /\ S = Waiting(c, name)
  OBVIOUS
<1> HIDE DEF c, d, g, S
<1>3. Traced(c, Owns(ctl, Len(fs), c)) /\ CompOK(c)
  BY <1>2, LevelStart DEF Level
<1>4. Labelled(c, d, name, g)
  <2>1. d = PatchAll(c, S, FuncLen(c))
    BY <1>2
  <2> QED
    BY <1>2, <1>3, <2>1, LabelIs
<1>5. Relisted(ctl, Len(fs), c, g)
  BY <1>2, <1>3, <1>4, LabelLands
<1>6. CASE Simple(On(fs, g))
  BY <1>1, <1>2, <1>5, <1>6, ListedSimple
<1> QED
  BY <1>1, <1>6, RefuseLevels

-----------------------------------------------------------------------------
(* Functions begin *)

\* A function in which no statement has been compiled.
Fresh(c) ==
    /\ CompOK(c)
    /\ c.breaks = <<>> /\ c.gotos = <<>> /\ c.labels = <<>>
    /\ c.owed = {} /\ c.lands = {} /\ c.jumps = {} /\ c.in_loop = 0
    /\ \A i \in DOMAIN c.code : Plain(c.code[i])

\* What mccomp_init and the parameters leave.
LEMMA NewFresh ==
    ASSUME NEW params \in Seq(Names), NEW vararg \in BOOLEAN, NEW main \in BOOLEAN
    PROVE  Fresh(NewComp(params, vararg, main))
<1> DEFINE c == [code |-> <<>>, locals |-> <<>>, nactive |-> 0, freereg |-> 0, maxreg |-> 0,
                 breaks |-> <<>>, in_loop |-> 0, error |-> FALSE, has_tbc |-> FALSE,
                 has_capture |-> FALSE, labels |-> <<>>, gotos |-> <<>>, upvals |-> <<EnvUp(main)>>,
                 num_params |-> 0, is_vararg |-> vararg, max_stack |-> 0,
                 lost |-> {}, owed |-> {}, lands |-> {}, jumps |-> {}]
           d == DeclareAll(c, params, 0)
           e == [d EXCEPT !.num_params = d.nactive, !.freereg = d.nactive, !.maxreg = d.nactive]
           n == NewComp(params, vararg, main)
<1>1. n = IF vararg THEN Emit(e, Instr("VARARGPREP", e.num_params, 0, 0)) ELSE e
  BY DEF NewComp
<1>2. CompOK(c) /\ Fresh(c)
  <2>1. <<EnvUp(main)>> \in Seq(Upval)
    BY DEF EnvUp, Upval
  <2>2. 0 \in Reg /\ 0 <= MaxBreaks
    BY RegMod, CompAssumption
  <2>3. c \in Comp
    BY <2>1, <2>2 DEF Comp
  <2>4. /\ c.owed = {} /\ c.code = <<>> /\ c.breaks = <<>> /\ c.locals = <<>>
        /\ c.gotos = <<>> /\ c.labels = <<>> /\ c.lands = {} /\ c.jumps = {} /\ c.in_loop = 0
        /\ c.nactive = 0 /\ c.lost = {}
    OBVIOUS
  <2> HIDE DEF c
  <2>5. Len(c.breaks) = 0 /\ Len(c.locals) = 0
    BY <2>4
  <2>6. \A z : z = <<>> => DOMAIN z = {}
    OBVIOUS
  <2>7. CompOK(c)
    BY <2>2, <2>3, <2>4, <2>5 DEF CompOK, Whole
  <2> QED
    BY <2>4, <2>6, <2>7 DEF Fresh
<1>3. params \in Seq(Names \cup {ForState})
  OBVIOUS
<1> HIDE DEF c, n
<1>4. CompOK(d) /\ Coded(c, d)
  <2>1. 0 \in Int
    OBVIOUS
  <2> QED
    BY <1>2, <1>3, <2>1, DeclareCoded
<1> HIDE DEF d
<1>5. CompOK(e) /\ Coded(d, e)
  <2>1. d \in Comp /\ d.nactive \in Reg /\ d.nactive \in Int
    <3>1. d \in Comp /\ d.nactive \in Reg
      BY <1>4 DEF CompOK, Comp
    <3> QED
      BY <3>1 DEF Reg
  <2>2. e \in Comp
    BY <2>1 DEF Comp
  <2>3. /\ e.locals = d.locals /\ e.nactive = d.nactive /\ e.lost = d.lost /\ e.error = d.error
        /\ e.code = d.code /\ e.breaks = d.breaks /\ e.in_loop = d.in_loop /\ e.labels = d.labels
        /\ e.gotos = d.gotos /\ e.owed = d.owed /\ e.lands = d.lands /\ e.jumps = d.jumps
    BY <2>1 DEF Comp
  <2> HIDE DEF e
  <2>4. CompOK(e)
    BY <1>4, <2>2, <2>3 DEF CompOK, Whole
  <2> QED
    BY <1>4, <2>3, <2>4, SameCoded
<1> HIDE DEF e
<1>6. Added(e, Emit(e, Instr("VARARGPREP", e.num_params, 0, 0)))
  <2>1. e.num_params \in Int /\ 0 \in Int /\ "VARARGPREP" \in PlainOps
    BY <1>5 DEF CompOK, Comp, PlainOps
  <2> QED
    BY <1>5, <2>1, PlainInstr, EmitAdded
<1>7. CompOK(n) /\ Coded(e, n)
  <2>1. CASE vararg
    BY <1>1, <1>6, <2>1, AddedCoded
  <2>2. CASE ~ vararg
    BY <1>1, <1>5, <2>2, SameCoded
  <2> QED
    BY <2>1, <2>2
<1>8. Coded(c, n)
  BY <1>2, <1>4, <1>5, <1>7, CodedOn
<1>9. DOMAIN n.code = 1 .. Len(n.code) /\ DOMAIN c.code = 1 .. Len(c.code) /\ Len(c.code) \in Nat /\ Len(n.code) \in Nat
  BY <1>2, <1>7, CodeIs
<1>10. \A i \in DOMAIN n.code : Plain(n.code[i])
  BY <1>2, <1>8, <1>9 DEF Fresh, Coded
<1>11. Fresh(n)
  BY <1>2, <1>7, <1>8, <1>10, SMTT(30) DEF Fresh, Coded
<1> QED
  BY <1>11 DEF n

\* The frame of a function that begins.
Idle(K, l) == \A n \in DOMAIN K : K[n].comp = l => K[n].k = "func" /\ K[n].jf = NoJump /\ K[n].ends = <<>>

\* It has no branches.
LEMMA FreshLevel ==
    ASSUME NEW K, NEW l, NEW c, Fresh(c), NEW s \in Int, s <= MaxStats, Idle(K, l)
    PROVE  Level(K, l, c, s)
<1>1. /\ CompOK(c) /\ DOMAIN c.code = 1 .. Len(c.code) /\ Len(c.code) \in Nat
      /\ c.breaks = <<>> /\ c.gotos = <<>> /\ c.labels = <<>>
      /\ c.owed = {} /\ c.lands = {} /\ c.jumps = {} /\ c.in_loop = 0
      /\ \A i \in DOMAIN c.code : Plain(c.code[i])
  BY CodeIs DEF Fresh
<1>2. \A z : z = <<>> => DOMAIN z = {} /\ Len(z) = 0
  OBVIOUS
<1>3. DOMAIN c.breaks = {} /\ DOMAIN c.gotos = {} /\ DOMAIN c.labels = {} /\ Len(c.breaks) = 0
  BY <1>1, <1>2
<1>4. \A t \in Tags, pc \in Nat : <<t, pc>> \notin Owns(K, l, c)
  <2> SUFFICES ASSUME NEW t \in Tags, NEW pc \in Nat, Claimed(K, l, c, t, pc) PROVE FALSE
    BY OwnsIs
  <2>1. ~ (t[1] = "break") /\ ~ (t[1] = "goto")
    BY <1>3 DEF Claimed
  <2>2. t[2] \in DOMAIN K /\ K[t[2]].comp = l
    BY <2>1 DEF Claimed
  <2>3. K[t[2]].jf = NoJump /\ DOMAIN K[t[2]].ends = {}
    BY <1>2, <2>2 DEF Idle
  <2> QED
    BY <2>1, <2>3 DEF Claimed, NoJump
<1>5. Traced(c, Owns(K, l, c))
  <2>1. Apart(c, Owns(K, l, c))
    BY <1>4 DEF Apart
  <2>2. GotosSound(c) /\ LandsSound(c)
    BY <1>1, <1>3 DEF GotosSound, LandsSound
  <2>3. InBounds(c)
    <3> SUFFICES ASSUME NEW i \in DOMAIN c.code, c.code[i].op = "JMP" PROVE c.code[i].a + i \in 0 .. Len(c.code)
      BY DEF InBounds
    <3>1. c.code[i].a = 0
      BY <1>1 DEF Plain
    <3> QED
      BY <1>1, <3>1
  <2> QED
    BY <1>1, <2>1, <2>2, <2>3 DEF Traced
<1>6. Marks(K, l, c)
  BY <1>2 DEF Marks, Idle
<1>7. InLoops(K, l, c, s)
  <2>1. LoopsOf(K, l) = {}
    BY DEF LoopsOf, LoopAt, Idle, LoopKinds
  <2>2. Cardinality(LoopsOf(K, l)) = 0
    BY <2>1, FS_EmptySet
  <2>3. Len(c.breaks) + s <= MaxStats /\ 0 + s <= MaxStats
    BY <1>3, ScriptAssumption
  <2> QED
    BY <1>1, <2>2, <2>3 DEF InLoops
<1>8. Paired(K, l, c)
  <2>1. \A i \in DOMAIN c.code : Matched(K, l, c, i)
    BY <1>1 DEF Matched, Plain, Looping
  <2>2. \A n \in DOMAIN K : K[n].comp = l => Prepared(K[n], c)
    BY DEF Prepared, Idle
  <2> QED
    BY <2>1, <2>2 DEF Paired
<1> QED
  BY <1>5, <1>6, <1>7, <1>8 DEF Level

\* A function that has only got plain code, with the frames it had.
LEMMA ReStacked ==
    ASSUME IInv, BInv, NEW l \in DOMAIN fs, NEW d, CompOK(d), Coded(fs[l], d),
           NEW J, SameFrames(ctl, J, l), NEW r \in Int, r <= stats
    PROVE  Level(J, l, d, r)
<1>1. CtlOK(ctl, fs) /\ stats \in Int
  BY LevelStart
<1>2. Level(ctl, l, fs[l], stats)
  BY DEF BInv
<1>3. ASSUME NEW o \in fs[l].owed PROVE o.loop \in DOMAIN J /\ J[o.loop].comp = l
  <2>1. OwedFits(ctl, l, o)
    BY <1>1 DEF CtlOK
  <2> QED
    BY <2>1 DEF OwedFits, SameFrames, FewerFrames
<1> QED
  BY <1>1, <1>2, <1>3, LevelSame

\* A function begins inside another.
LEMMA FuncStartLevels ==
    ASSUME IInv, BInv, NEW kind \in FuncKinds, NEW name \in Names, NEW params \in ParamLists,
           NEW vararg \in Varargs, FuncStart(kind, name, params, vararg)
    PROVE  BInv'
<1> DEFINE c     == Top
           d     == NewLocal(c, name, c.nactive)
           outer == IF kind = "localfunc" THEN EndStat(d) ELSE c
           sub   == NewComp(params, vararg, FALSE)
           f     == FuncFrameFor(kind, name, Len(fs) + 1, sub)
           G     == On(fs, outer)
           H     == Append(G, sub)
           K     == Append(ctl, f)
           t     == Len(fs)
           r     == stats - 1
<1>0. /\ CanStart(kind)
      /\ \/ Refuse
         \/ /\ fs' = H /\ ctl' = K /\ stats' = r
            /\ UNCHANGED <<heap, phase, final>>
  BY DEF FuncStart
<1>1. /\ FsOK(fs) /\ FsType(fs) /\ CtlOK(ctl, fs) /\ CompOK(c) /\ c = TopOf(fs) /\ t \in Nat
      /\ ctl \in Seq(FrameT) /\ stats \in Int /\ Len(ctl) \in Nat
  BY LevelStart DEF FsOK
<1>2. params \in Seq(Names) /\ vararg \in BOOLEAN /\ stats <= MaxStats /\ MaxStats \in Nat
  BY ScriptAssumption DEF IInv
<1>3. Fresh(sub) /\ CompOK(sub)
  BY <1>2, NewFresh DEF Fresh
<1>4. f.k = "func" /\ f.comp = t + 1 /\ f.jf = NoJump /\ f.ends = <<>>
  <2>1. \A z \in Nat, y \in Seq(Names) : TRUE
    OBVIOUS
  <2> HIDE DEF sub
  <2> QED
    BY DEF FuncFrameFor, NoFrame
<1>5. CompOK(outer) /\ Coded(c, outer)
  <2>0. c.nactive \in Int
    <3>1. c.nactive \in Reg
      BY <1>1 DEF CompOK, Comp
    <3> QED
      BY <3>1 DEF Reg
  <2>1. CompOK(d) /\ Coded(c, d)
    BY <1>1, <2>0, NewLocalIs, NewLocalCoded DEF Moved
  <2>2. CompOK(EndStat(d)) /\ Coded(d, EndStat(d))
    BY <2>1, EndMoved, AddedCoded
  <2>3. Coded(c, EndStat(d)) /\ Coded(c, c)
    BY <1>1, <2>1, <2>2, CodedOn, SameCoded
  <2> HIDE DEF c, d
  <2> QED
    BY <1>1, <2>2, <2>3
<1> HIDE DEF sub, outer, d, c
<1>6. DOMAIN G = DOMAIN fs /\ DOMAIN fs = 1 .. t /\ G[t] = outer /\ (\A l \in DOMAIN fs : l # t => G[l] = fs[l]) /\ t \in DOMAIN fs
      /\ c = fs[t] /\ G \in Seq(Comp) /\ Len(G) = t
  <2>1. DOMAIN G = DOMAIN fs /\ G[t] = outer /\ (\A l \in DOMAIN fs : l # t => G[l] = fs[l]) /\ FsType(G) /\ Len(G) = t
    BY <1>1, <1>5, OnIs
  <2>2. DOMAIN fs = 1 .. t /\ t \in DOMAIN fs /\ c = fs[t]
    BY <1>1, TopIs
  <2>3. G \in Seq(Comp)
    BY <2>1 DEF FsType
  <2> QED
    BY <2>1, <2>2, <2>3
<1>7. \A l \in DOMAIN fs : CompOK(G[l]) /\ Coded(fs[l], G[l])
  <2>1. \A l \in DOMAIN fs : CompOK(fs[l]) /\ Coded(fs[l], fs[l])
    BY <1>1, SameCoded DEF FsType
  <2> HIDE DEF G
  <2> QED
    BY <1>5, <1>6, <2>1
<1>8. DOMAIN H = 1 .. t + 1 /\ H[t + 1] = sub /\ \A l \in 1 .. t : H[l] = G[l]
  <2>1. sub \in Comp
    BY <1>3 DEF CompOK
  <2> HIDE DEF G
  <2> QED
    BY <1>1, <1>6, <2>1, AppendIs
<1>a. sub = NewComp(params, vararg, FALSE) /\ f = FuncFrameFor(kind, name, Len(fs) + 1, sub) /\ t = Len(fs)
  BY DEF sub
<1> HIDE DEF f, G, H, K, t, r
<1>9. CASE fs' = H /\ ctl' = K /\ stats' = r /\ UNCHANGED <<heap, phase, final>>
  <2>1. f \in FrameT
    <3>1. IInv'
      BY FuncStartInv
    <3>2. ctl' \in Seq(FrameT)
      BY <3>1 DEF IInv, CtlOK
    <3>3. Len(ctl') = Len(ctl) + 1 /\ ctl'[Len(ctl) + 1] = f
      BY <1>1, <1>9 DEF K
    <3>4. Len(ctl) + 1 \in DOMAIN ctl'
      BY <1>1, <3>2, <3>3
    <3> QED
      BY <3>2, <3>3, <3>4
  <2>2. /\ SameBelow(ctl, K, t + 1) /\ DOMAIN K = 1 .. Len(ctl) + 1 /\ DOMAIN ctl = 1 .. Len(ctl)
        /\ \A n \in DOMAIN ctl : K[n] = ctl[n]
        /\ K[Len(ctl) + 1] = f
    BY <1>1, <1>4, <2>1, PushBelow DEF K
  <2>3. r \in Int /\ r <= stats /\ r <= MaxStats
    BY <1>1, <1>2 DEF r
  <2>4. ASSUME NEW l \in 1 .. t PROVE Level(K, l, H[l], r)
    <3>1. l \in DOMAIN fs /\ l \in Nat /\ l # t + 1 /\ H[l] = G[l]
      BY <1>1, <1>6, <1>8
    <3>2. SameFrames(ctl, K, l)
      BY <2>2, <3>1 DEF SameBelow
    <3>3. CompOK(H[l]) /\ Coded(fs[l], H[l])
      BY <1>7, <3>1
    <3> QED
      BY <2>3, <3>1, <3>2, <3>3, ReStacked
  <2>5. Idle(K, t + 1)
    <3>1. \A n \in DOMAIN ctl : ctl[n].comp # t + 1
      BY <1>1, <1>6 DEF CtlOK, FrameFits
    <3>2. \A n \in DOMAIN K : K[n].comp = t + 1 => K[n] = f
      BY <1>1, <2>2, <3>1
    <3> QED
      BY <1>4, <3>2 DEF Idle
  <2>6. Level(K, t + 1, H[t + 1], r)
    BY <1>3, <1>8, <2>3, <2>5, FreshLevel
  <2>7. \A l \in DOMAIN H : Level(K, l, H[l], r)
    BY <1>1, <1>8, <2>4, <2>6, SMTT(30)
  <2>8. (\A l \in DOMAIN fs : Level(ctl, l, fs[l], stats))'
    BY <1>9, <2>7, NextLevels, SMTT(30)
  <2>9. (\A i \in DOMAIN final : Settled(final[i]))'
    BY <1>9 DEF BInv, Settled, GotosSound, LandsSound, JumpsFine
  <2> QED
    BY <2>8, <2>9 DEF BInv
<1> QED
  BY <1>0, <1>9, RefuseLevels

-----------------------------------------------------------------------------
(* Functions end *)

\* At the end of a function no block of it is open.
LEMMA Alone ==
    ASSUME NEW K, NEW F, CtlOK(K, F), FsOK(F), K[Len(K)].k = "func"
    PROVE  \A i \in DOMAIN K : K[i].comp = Len(F) => i = Len(K)
<1> DEFINE n == Len(K)
           t == Len(F)
<1>1. /\ n \in Nat \ {0} /\ DOMAIN K = 1 .. n /\ K \in Seq(FrameT) /\ n \in DOMAIN K
      /\ K[n].comp = t /\ t \in Nat \ {0}
  BY OpenIs, TopIs DEF CtlOK, FsOK, FsType
<1>2. K[n].k = "func"
  OBVIOUS
<1> HIDE DEF n, t
<1>3. \A i \in DOMAIN K : K[i].comp \in Nat /\ FrameFits(K, F, i)
  <2>1. \A i \in DOMAIN K : K[i] \in FrameT /\ FrameFits(K, F, i)
    BY <1>1 DEF CtlOK
  <2> QED
    BY <2>1 DEF FrameT
<1> DEFINE Good == {j \in Nat : j < n - 1 => K[n - 1 - j].comp <= t - 1}
<1>4. 0 \in Good
  <2> SUFFICES ASSUME 0 < n - 1 PROVE K[n - 1].comp <= t - 1
    BY <1>1
  <2>1. n > 1 /\ n - 1 \in DOMAIN K
    BY <1>1
  <2>2. K[n].comp = K[n - 1].comp + 1 /\ K[n - 1].comp \in Nat
    BY <1>1, <1>2, <1>3, <2>1 DEF FrameFits
  <2> QED
    BY <1>1, <2>2
<1>5. ASSUME NEW j \in Nat, j \in Good PROVE j + 1 \in Good
  <2> SUFFICES ASSUME j + 1 < n - 1 PROVE K[n - 1 - (j + 1)].comp <= t - 1
    OBVIOUS
  <2> DEFINE i == n - 1 - j
  <2>1. K[i].comp <= t - 1 /\ i \in DOMAIN K /\ i - 1 \in DOMAIN K /\ i > 1 /\ n - 1 - (j + 1) = i - 1
    BY <1>1, <1>5
  <2> HIDE DEF i
  <2>2. K[i].comp \in Nat /\ K[i - 1].comp \in Nat /\ FrameFits(K, F, i)
    BY <1>3, <2>1
  <2>3. K[i - 1].comp <= K[i].comp
    BY <2>1, <2>2 DEF FrameFits
  <2> QED
    BY <1>1, <2>1, <2>2, <2>3
<1>6. \A j \in Nat : j \in Good
  <2> HIDE DEF Good
  <2> QED
    BY <1>4, <1>5, ExpRun!Induct
<1>7. ASSUME NEW i \in DOMAIN K, K[i].comp = t, i # n PROVE FALSE
  <2>1. n - 1 - i \in Nat /\ n - 1 - i < n - 1 /\ n - 1 - (n - 1 - i) = i
    BY <1>1, <1>7
  <2>2. K[i].comp <= t - 1
    BY <1>6, <2>1
  <2> QED
    BY <1>1, <1>7, <2>2
<1> QED
  BY <1>7 DEF n, t

\* The final return.
LEMMA FinishIs ==
    ASSUME NEW c, CompOK(c), NEW d, d = Finish(c)
    PROVE  /\ CompOK(d) /\ Coded(c, d)
           /\ heap = "full" => d.error
           /\ heap # "full" => Len(d.code) = Len(c.code) + 1 /\ d.code[Len(c.code) + 1].op # "JMP"
<1> DEFINE keeps == c.has_tbc \/ c.has_capture
           i == FinalReturn(c)
           e == Emit(c, i)
           m == Bigger(2, c.maxreg)
<1>1. c.nactive \in Int /\ VarargC(c) \in Int /\ keeps \in BOOLEAN
  <2>1. c.has_tbc \in BOOLEAN /\ c.has_capture \in BOOLEAN /\ c.num_params \in Int
    BY DEF CompOK, Comp
  <2> QED
    BY <2>1, RegInt DEF VarargC
<1>2. i \in Plains /\ i.op # "JMP"
  <2>1. Instr("RETURN0", c.nactive, 0, 0) \in Plains /\ Instr("RETURN0", c.nactive, 0, 0).op = "RETURN0"
    BY <1>1, PlainInstr DEF PlainOps, Instr
  <2>2. Instr("RETURN", c.nactive, 1, VarargC(c)) \in Plains /\ Instr("RETURN", c.nactive, 1, VarargC(c)).op = "RETURN"
    BY <1>1, PlainInstr DEF PlainOps, Instr
  <2>3. \A j \in Plains, k \in BOOLEAN : Flagged(j, k) \in Plains /\ Flagged(j, k).op = j.op
    BY DEF Flagged, Plains, Plain, Instrs
  <2>4. i = IF keeps \/ c.is_vararg THEN Flagged(Instr("RETURN", c.nactive, 1, VarargC(c)), keeps)
            ELSE Instr("RETURN0", c.nactive, 0, 0)
    BY DEF FinalReturn
  <2> HIDE DEF i, keeps
  <2> QED
    BY <1>1, <2>1, <2>2, <2>3, <2>4
<1> HIDE DEF i, keeps
<1>3. CompOK(e) /\ e \in Comp /\ Coded(c, e)
  BY <1>2, EmitAdded DEF Added, Kept, CompOK
<1>4. /\ heap = "full" => e.error
      /\ heap # "full" => Len(e.code) = Len(c.code) + 1 /\ e.code[Len(c.code) + 1] = i
  <2>1. c \in Comp /\ c.code \in Seq(Instrs) /\ Len(c.code) \in Nat
    BY CodeIs DEF CompOK
  <2>2. heap = "full" => e.error
    BY <2>1 DEF Emit, Comp
  <2>3. i \in Instrs /\ (i.op = "JMP" => i.a + (Len(c.code) + 1) \in 0 .. Len(c.code) + 1)
    BY <1>2 DEF Plains
  <2>4. heap # "full" => Len(e.code) = Len(c.code) + 1 /\ e.code[Len(c.code) + 1] = i
    BY <2>3, EmitLonger
  <2> QED
    BY <2>2, <2>4
<1>5. CompOK(d) /\ d = [e EXCEPT !.max_stack = m]
  BY FinishOK DEF Finish, i
<1> HIDE DEF e, m
<1>6. /\ d.error = e.error
      /\ d.code = e.code /\ d.breaks = e.breaks /\ d.in_loop = e.in_loop /\ d.labels = e.labels
      /\ d.gotos = e.gotos /\ d.owed = e.owed /\ d.lands = e.lands /\ d.jumps = e.jumps
  BY <1>3, <1>5 DEF Comp
<1>7. Coded(c, d)
  BY <1>3, <1>5, <1>6, SameCoded, CodedOn
<1> QED
  BY <1>2, <1>4, <1>5, <1>6, <1>7

\* A finished function's branches are where they should be.
LEMMA FinishSettled ==
    ASSUME NEW K, NEW l, NEW c, NEW s, Level(K, l, c, s), NEW d, d = Finish(c), heap # "full",
           NEW r, Level(K, l, d, r), \A n \in DOMAIN K : K[n].comp = l => K[n].k = "func"
    PROVE  Settled(d)
<1>1. Traced(c, Owns(K, l, c)) /\ Traced(d, Owns(K, l, d)) /\ Paired(K, l, d)
  BY DEF Level
<1>2. /\ CompOK(c) /\ CompOK(d) /\ Len(c.code) \in Nat /\ Len(d.code) \in Nat
      /\ DOMAIN c.code = 1 .. Len(c.code) /\ DOMAIN d.code = 1 .. Len(d.code)
  BY <1>1, CodeIs DEF Traced
<1>3. /\ Len(d.code) = Len(c.code) + 1 /\ d.code[Len(c.code) + 1].op # "JMP"
      /\ \A i \in DOMAIN c.code : d.code[i] = c.code[i]
  BY <1>2, FinishIs DEF Coded
<1>4. GotosSound(d) /\ LandsSound(d)
  BY <1>1 DEF Traced
<1>5. \A k \in {"fornum", "forin"} : \A i : ~ Begun(K, l, k, i)
  BY DEF Begun
<1>6. ASSUME NEW i \in DOMAIN d.code PROVE Matched(K, l, d, i)
  BY <1>1 DEF Paired
<1>7. ASSUME NEW i \in DOMAIN d.code, d.code[i].op = "JMP"
      PROVE  d.code[i].a + i \in 0 .. Len(d.code) - 1 /\ d.code[i].a \in Int
  <2>1. i \in DOMAIN c.code /\ d.code[i] = c.code[i]
    BY <1>2, <1>3, <1>7
  <2>2. c.code[i].a + i \in 0 .. Len(c.code)
    BY <1>1, <1>7, <2>1 DEF Traced, InBounds
  <2>3. d.code[i] \in Instrs
    BY <1>2, CodeIs, SMTT(30)
  <2> QED
    BY <1>2, <1>3, <2>1, <2>2, <2>3 DEF Instrs
<1>8. JumpsFine(d)
  <2> SUFFICES ASSUME NEW i \in DOMAIN d.code
      PROVE /\ d.code[i].op = "JMP" => Target(i - 1, d.code[i]) \in 0 .. Len(d.code) - 1
            /\ d.code[i].op = "FORPREP" => d.code[i - 1 + 1 + d.code[i].b + 1].op = "FORLOOP"
            /\ d.code[i].op = "TFORPREP" => d.code[i - 1 + 1 + d.code[i].b + 1].op = "TFORCALL"
            /\ d.code[i].op = "FORLOOP" => d.code[i - 1 + 1 - d.code[i].b].op = "FORPREP"
            /\ d.code[i].op = "TFORLOOP" => d.code[i - 1 + 1 - d.code[i].b].op = "TFORPREP"
    BY DEF JumpsFine
  <2>1. d.code[i].b \in Int /\ d.code[i].a \in Int /\ i \in Int
    <3>1. d.code[i] \in Instrs
      BY <1>2, CodeIs, SMTT(30)
    <3> QED
      BY <1>2, <3>1 DEF Instrs
  <2>2. i - 1 + 1 + d.code[i].b + 1 = i + d.code[i].b + 1 /\ i - 1 + 1 - d.code[i].b = i - d.code[i].b
    BY <2>1
  <2>3. i - 1 + 1 + d.code[i].a = d.code[i].a + i
    BY <2>1
  <2>4. Matched(K, l, d, i)
    BY <1>6
  <2>5. d.code[i].op = "JMP" => Target(i - 1, d.code[i]) \in 0 .. Len(d.code) - 1
    BY <1>7, <2>3 DEF Target
  <2> QED
    BY <1>5, <2>2, <2>4, <2>5 DEF Matched, OpAt
<1> QED
  BY <1>4, <1>8 DEF Settled

\* What the handler that asked for a function adds is plain code.
LEMMA ClosureCoded ==
    ASSUME NEW c, CompOK(c), NEW kind \in FuncKinds, NEW name \in Names
    PROVE  CompOK(Closure(c, kind, name)) /\ Coded(c, Closure(c, kind, name))
<1>a. CompOK(Closure(c, kind, name))
  BY ClosureMoved DEF Moved
<1>0. \A a, b \in Int : Instr("CLOSURE", a, b, 0) \in Plains /\ Instr("SETTABUP", 0, 0, a) \in Plains
  BY PlainInstr DEF PlainOps
<1>1. c.nactive \in Int
  BY RegInt
<1>2. CASE kind = "localfunc"
  <2> DEFINE i == Instr("CLOSURE", c.nactive - 1, 0, 0)
  <2>1. i \in Plains
    BY <1>0, <1>1
  <2>2. Closure(c, kind, name) = Emit(c, i)
    BY <1>2 DEF Closure
  <2> HIDE DEF i
  <2> QED
    BY <1>a, <2>1, <2>2, EmitAdded, AddedCoded
<1>3. CASE kind = "funcdef"
  <2> DEFINE d == IF NoConst THEN NoteFailure(c, "name") ELSE c
             i == Instr("CLOSURE", d.freereg, 0, 0)
             j == Instr("SETTABUP", 0, 0, d.freereg)
             r == Emit(Reserve(d), i)
             z == Emit(r, j)
  <2>1. Closure(c, kind, name) = z
    BY <1>3 DEF Closure
  <2>2. Added(c, d) /\ CompOK(d)
    <3>1. Added(c, d)
      BY NoteAdded, AddedRefl DEF NoConst, Unnoticed, Losses
    <3> QED
      BY <3>1, AddedCoded
  <2> HIDE DEF d
  <2>4. i \in Plains /\ j \in Plains
    <3>1. d.freereg \in Int /\ 0 \in Int
      BY <2>2, RegInt
    <3> QED
      BY <1>0, <3>1
  <2> HIDE DEF i, j
  <2>5. Added(d, r) /\ CompOK(r)
    BY <2>2, <2>4, LoadAdded DEF Added, Kept, Coded
  <2> HIDE DEF r
  <2>6. Added(r, z)
    BY <2>4, <2>5, EmitAdded
  <2>7. Added(c, z)
    BY <2>2, <2>5, <2>6, AddedTrans
  <2> HIDE DEF z
  <2> QED
    BY <2>1, <2>7, AddedCoded
<1>4. CASE kind = "funcexpr"
  <2> DEFINE base == c.nactive
             s == SetFree(c, base)
             i == Instr("CLOSURE", base, 0, 0)
             r == Emit(Reserve(s), i)
             t == SetFree(r, base + 1)
             z == NewLocal(t, name, base)
  <2>1. Closure(c, kind, name) = z
    BY <1>4 DEF Closure
  <2>2. Added(c, s) /\ CompOK(s)
    BY <1>1, FreeAdded DEF Added, Kept, Coded
  <2>3. i \in Plains
    BY <1>0, <1>1
  <2> HIDE DEF s, i
  <2>4. Added(s, r) /\ CompOK(r)
    BY <2>2, <2>3, LoadAdded DEF Added, Kept, Coded
  <2> HIDE DEF r
  <2>5. Added(r, t) /\ CompOK(t)
    <3>1. base + 1 \in Int
      BY <1>1
    <3> QED
      BY <2>4, <3>1, FreeAdded DEF Added, Kept, Coded
  <2> HIDE DEF t
  <2>6. Coded(t, z)
    BY <1>1, <2>5, NewLocalCoded
  <2>7. Added(c, t)
    BY <2>2, <2>4, <2>5, AddedTrans
  <2>8. Coded(c, t)
    BY <2>7, AddedCoded
  <2> HIDE DEF z
  <2> QED
    BY <1>a, <2>1, <2>5, <2>6, <2>8, CodedOn
<1> QED
  BY <1>2, <1>3, <1>4 DEF FuncKinds

\* Functions that are finished are settled.
LEMMA FinalNext == ASSUME BInv, NEW c, Settled(c), final' = <<c>> PROVE (\A i \in DOMAIN final : Settled(final[i]))'
<1>1. DOMAIN <<c>> = {1} /\ <<c>>[1] = c
  OBVIOUS
<1> QED
  BY <1>1 DEF Settled, GotosSound, LandsSound, JumpsFine

\* A function ends, and its parent goes on.
LEMMA FuncEndLevels == ASSUME IInv, BInv, FuncEnd PROVE BInv'
<1> DEFINE b      == LeaveBlock(Top, Open.saved)
           c      == Finish(b)
           parent == fs[Len(fs) - 1]
           kind   == Open.names[1]
           name   == Open.names[2]
           kept   == [parent EXCEPT !.lost = @ \cup c.lost]
           d      == EndStat(Closure(kept, kind, name))
           fails  == c.error \/ (Len(fs) > 1 /\ (heap = "full" \/ (kind = "funcexpr" /\ TooManyLocals(parent, 1))))
           t      == Len(fs)
<1>1. /\ phase = "running" /\ Open.k = "func" /\ UNCHANGED <<heap, stats>>
      /\ IF fails THEN phase' = "null" /\ UNCHANGED <<fs, ctl, final>>
         ELSE /\ final' = <<c>>
              /\ IF Len(fs) = 1
                   THEN phase' = "returned" /\ UNCHANGED <<fs, ctl>>
                   ELSE /\ fs' = [Front(fs) EXCEPT ![Len(fs) - 1] = d]
                        /\ ctl' = Front(ctl)
                        /\ UNCHANGED phase
  BY DEF FuncEnd
<1>2. /\ FsOK(fs) /\ CtlOK(ctl, fs) /\ CompOK(Top) /\ Open.saved \in Reg /\ Open.saved <= Len(Top.locals)
      /\ Open = ctl[Len(ctl)] /\ t \in Nat \ {0} /\ DOMAIN fs = 1 .. t
      /\ ctl \in Seq(FrameT) /\ ctl # <<>> /\ stats \in Int /\ stats <= stats
      /\ Top = fs[t] /\ t \in DOMAIN fs /\ Open.comp = t
  <2>1. /\ FsOK(fs) /\ CtlOK(ctl, fs) /\ CompOK(Top) /\ Open.saved \in Reg /\ Open.saved <= Len(Top.locals)
        /\ Open = ctl[Len(ctl)]
    BY StartIs, OpenFrame DEF IInv, Open
  <2>2. t \in Nat \ {0} /\ DOMAIN fs = 1 .. t /\ Top = fs[t] /\ t \in DOMAIN fs
    BY <2>1, TopIs, LevelStart DEF FsOK
  <2>3. ctl \in Seq(FrameT) /\ ctl # <<>> /\ stats \in Int /\ Open.comp = t
    BY LevelStart
  <2> QED
    BY <2>1, <2>2, <2>3
<1>3. CompOK(b) /\ Coded(Top, b)
  BY <1>2, BlockIs, BlockCoded DEF Moved
<1> HIDE DEF b
<1>4. CompOK(c) /\ Coded(b, c) /\ (heap = "full" => c.error)
  BY <1>3, FinishIs
<1>5. Level(ctl, t, b, stats)
  BY <1>2, <1>3, SameRefl, ReStacked
<1>6. Level(ctl, t, c, stats)
  <2>1. Coded(Top, c)
    BY <1>2, <1>3, <1>4, CodedOn
  <2> HIDE DEF c
  <2> QED
    BY <1>2, <1>4, <2>1, SameRefl, ReStacked
<1>7. \A n \in DOMAIN ctl : ctl[n].comp = t => n = Len(ctl)
  BY <1>1, <1>2, Alone
<1>8. heap # "full" => Settled(c)
  <2>1. \A n \in DOMAIN ctl : ctl[n].comp = t => ctl[n].k = "func"
    BY <1>1, <1>2, <1>7
  <2> QED
    BY <1>5, <1>6, <2>1, FinishSettled
<1> HIDE DEF c
<1>9. CASE fails
  <2>1. stats' \in Int /\ stats' <= stats /\ UNCHANGED <<fs, ctl, heap, final>>
    BY <1>1, <1>2, <1>9
  <2> QED
    BY <2>1, StillLevels
<1>10. CASE ~ fails
  <2>1. final' = <<c>> /\ Settled(c) /\ ~ c.error
    BY <1>1, <1>4, <1>8, <1>10
  <2>2. (\A i \in DOMAIN final : Settled(final[i]))'
    BY <2>1, FinalNext
  <2>3. CASE t = 1
    <3>1. UNCHANGED <<fs, ctl, heap, stats>>
      BY <1>1, <1>10, <2>3
    <3>2. \A l \in DOMAIN fs : Level(ctl, l, fs[l], stats)
      BY DEF BInv
    <3>3. (\A l \in DOMAIN fs : Level(ctl, l, fs[l], stats))'
      BY <3>1, <3>2, NextLevels
    <3> QED
      BY <2>2, <3>3 DEF BInv
  <2>4. CASE t # 1
    <3> DEFINE F == Front(fs)
               K == Front(ctl)
               n == Len(ctl)
               H == On(F, d)
    <3>1. t > 1 /\ n > 1 /\ n \in DOMAIN ctl
      <4>1. n \in Nat \ {0} /\ ctl[1].comp = 1 /\ ctl[n].comp = Len(fs) /\ DOMAIN ctl = 1 .. n
        BY <1>2, OpenIs DEF CtlOK
      <4> QED
        BY <1>2, <2>4, <4>1
    <3>2. FsOK(F) /\ CtlOK(K, F) /\ TopOf(F) = parent /\ Len(F) = t - 1
      <4>1. FsOK(fs) /\ CtlOK(ctl, fs) /\ Len(fs) > 1 /\ ctl[Len(ctl)].k = "func"
        BY <1>1, <1>2, <3>1
      <4>2. FsOK(F) /\ CtlOK(K, F) /\ TopOf(F) = fs[Len(fs) - 1] /\ Len(F) = Len(fs) - 1
        BY <4>1, CtlReturn
      <4> QED
        BY <4>2
    <3>3. kind \in FuncKinds /\ name \in Names
      <4>1. FrameFits(ctl, fs, n)
        BY <1>2, <3>1 DEF CtlOK
      <4> QED
        BY <1>1, <1>2, <3>1, <4>1 DEF FrameFits
    <3>4. CompOK(parent) /\ parent \in Comp
      BY <3>2, TopIs DEF FsOK, CompOK
    <3>5. parent = fs[t - 1] /\ t - 1 \in DOMAIN fs /\ t - 1 \in Nat
      BY <1>2, <3>1
    <3>6. DOMAIN F = 1 .. t - 1 /\ (\A l \in 1 .. t - 1 : F[l] = fs[l]) /\ FsType(F)
      <4>1. fs \in Seq(Comp) /\ fs # <<>>
        BY <1>2 DEF FsOK, FsType
      <4> QED
        BY <1>2, <3>2, <4>1, FrontIs DEF FsOK
    <3>a. SameBelow(ctl, K, t)
      BY <1>2, PopBelow
    <3>b. /\ kept = [parent EXCEPT !.lost = parent.lost \cup c.lost]
          /\ d = EndStat(Closure(kept, kind, name))
      OBVIOUS
    <3> HIDE DEF parent, kind, name, F, K, kept, d
    <3>7. CompOK(kept) /\ Coded(parent, kept)
      <4>1. (parent.lost \cup c.lost) \in SUBSET Losses
        <5>1. parent.lost \in SUBSET Losses /\ c.lost \in SUBSET Losses
          BY <1>4, <3>4 DEF Comp, CompOK
        <5> QED
          BY <5>1
      <4>2. kept \in Comp
        <5>1. \A x \in SUBSET Losses : [parent EXCEPT !.lost = x] \in Comp
          BY <3>4, ZenonT(40) DEF Comp
        <5> QED
          BY <3>b, <4>1, <5>1
      <4>3. /\ kept.locals = parent.locals /\ kept.nactive = parent.nactive
            /\ kept.breaks = parent.breaks /\ kept.error = parent.error
            /\ kept.lost = (parent.lost \cup c.lost)
        BY <3>4, <3>b DEF Comp
      <4>4. /\ kept.code = parent.code /\ kept.in_loop = parent.in_loop /\ kept.labels = parent.labels
            /\ kept.gotos = parent.gotos /\ kept.owed = parent.owed /\ kept.lands = parent.lands
            /\ kept.jumps = parent.jumps
        BY <3>4, <3>b DEF Comp
      <4>5. c.lost \subseteq Unnoticed
        BY <1>4, <2>1 DEF CompOK, Whole
      <4>6. CompOK(kept)
        BY <3>4, <4>2, <4>3, <4>5 DEF CompOK, Whole
      <4> QED
        BY <3>4, <4>3, <4>4, <4>6, SameCoded
    <3>8. CompOK(d) /\ Coded(parent, d)
      <4> DEFINE e == Closure(kept, kind, name)
      <4>1. CompOK(e) /\ Coded(kept, e)
        BY <1>2, <3>3, <3>7, ClosureCoded
      <4>2. d = EndStat(e)
        BY <3>b
      <4> HIDE DEF e
      <4>3. CompOK(d) /\ Coded(e, d)
        BY <4>1, <4>2, EndMoved, AddedCoded
      <4>4. Coded(parent, e)
        BY <3>4, <3>7, <4>1, CodedOn
      <4> QED
        BY <3>4, <4>1, <4>3, <4>4, CodedOn
    <3>9. DOMAIN H = 1 .. t - 1 /\ H[t - 1] = d /\ \A l \in 1 .. t - 1 : l # t - 1 => H[l] = fs[l]
      BY <3>2, <3>6, <3>8, OnIs
    <3>10. fs' = H /\ ctl' = K /\ heap' = heap /\ stats' = stats
      <4>1. H = [Front(fs) EXCEPT ![Len(fs) - 1] = d]
        BY <3>2 DEF On, F
      <4> QED
        BY <1>1, <1>2, <1>10, <2>4, <4>1 DEF K
    <3> HIDE DEF H
    <3>11. ASSUME NEW l \in DOMAIN H PROVE Level(K, l, H[l], stats)
      <4>1. l \in DOMAIN fs /\ l \in Nat /\ l # t
        <5> HIDE DEF t
        <5>1. t \in Nat /\ DOMAIN fs = 1 .. t
          BY <1>2
        <5>2. DOMAIN H = 1 .. t - 1
          BY <3>9
        <5>3. l \in 1 .. t - 1
          BY <5>2
        <5> QED
          BY <5>1, <5>3
      <4>2. CompOK(fs[l]) /\ Coded(fs[l], fs[l])
        BY <1>2, <4>1, SameCoded DEF FsOK, FsType
      <4>3. CompOK(H[l]) /\ Coded(fs[l], H[l])
        BY <3>5, <3>8, <3>9, <4>2
      <4>4. SameFrames(ctl, K, l)
        BY <3>a, <4>1 DEF SameBelow
      <4> QED
        BY <1>2, <4>1, <4>3, <4>4, ReStacked
    <3>12. (\A l \in DOMAIN fs : Level(ctl, l, fs[l], stats))'
      BY <3>10, <3>11, NextLevels
    <3> QED
      BY <2>2, <3>12 DEF BInv
  <2> QED
    BY <2>3, <2>4
<1> QED
  BY <1>9, <1>10

-----------------------------------------------------------------------------
(* The invariant of branches holds *)

\* A short arena changes no code.
LEMMA HeapLevels == ASSUME IInv, BInv, HeapRunsShort PROVE BInv'
<1>1. heap = "ample" /\ UNCHANGED <<fs, ctl, stats, final>>
  BY DEF HeapRunsShort
<1>2. FsOK(fs)'
  BY HeapInv DEF IInv
<1>3. (\A l \in DOMAIN fs : CompOK(fs[l]))'
  BY <1>2 DEF FsOK, FsType
<1>4. \A l \in DOMAIN fs : Level(ctl, l, fs[l], stats)
  BY DEF BInv
<1>5. ASSUME NEW l \in DOMAIN fs PROVE (Traced(fs[l], Owns(ctl, l, fs[l])))'
  <2>1. Traced(fs[l], Owns(ctl, l, fs[l]))
    BY <1>4 DEF Level
  <2>2. CompOK(fs[l])'
    BY <1>1, <1>3
  <2> DEFINE O == Owns(ctl, l, fs[l])
  <2>3. O' = O
    BY <1>1 DEF Owns, Claimed
  <2>4. Apart(fs[l], O) /\ GotosSound(fs[l]) /\ LandsSound(fs[l]) /\ InBounds(fs[l])
    BY <2>1 DEF Traced
  <2> HIDE DEF O
  <2>5. (Apart(fs[l], O))'
    BY <1>1, <2>3, <2>4 DEF Apart
  <2>6. (GotosSound(fs[l]) /\ LandsSound(fs[l]) /\ InBounds(fs[l]))'
    BY <1>1, <2>4 DEF GotosSound, LandsSound, InBounds
  <2> QED
    BY <2>2, <2>5, <2>6 DEF Traced, O
<1>6. ASSUME NEW l \in DOMAIN fs PROVE (Paired(ctl, l, fs[l]))'
  <2>1. Paired(ctl, l, fs[l])
    BY <1>4 DEF Level
  <2>2. \A i \in DOMAIN fs[l].code : Matched(ctl, l, fs[l], i)
    BY <1>1, <2>1 DEF Paired
  <2>3. \A n \in DOMAIN ctl : ctl[n].comp = l =>
           \/ ctl[n].k \notin {"fornum", "forin"}
           \/ /\ ctl[n].prep = ctl[n].top - 1
              /\ OpAt(fs[l], ctl[n].top, IF ctl[n].k = "fornum" THEN "FORPREP" ELSE "TFORPREP")
    BY <1>1, <2>1 DEF Paired, Prepared
  <2> QED
    BY <1>1, <2>2, <2>3 DEF Paired, Prepared, Matched, OpAt, Begun
<1>7. ASSUME NEW l \in DOMAIN fs PROVE (Marks(ctl, l, fs[l]) /\ InLoops(ctl, l, fs[l], stats))'
  <2>1. Marks(ctl, l, fs[l]) /\ InLoops(ctl, l, fs[l], stats)
    BY <1>4 DEF Level
  <2> QED
    BY <1>1, <2>1 DEF Marks, InLoops, LoopsOf, LoopAt, InWindow
<1>8. (\A l \in DOMAIN fs : Level(ctl, l, fs[l], stats))'
  BY <1>1, <1>5, <1>6, <1>7 DEF Level
<1>9. (\A i \in DOMAIN final : Settled(final[i]))'
  BY <1>1 DEF BInv, Settled, GotosSound, LandsSound, JumpsFine
<1> QED
  BY <1>8, <1>9 DEF BInv

\* The main function begins without branches.
LEMMA InitLevels == Init => BInv
<1> SUFFICES ASSUME Init PROVE BInv
  OBVIOUS
<1> DEFINE n == NewComp(<<>>, FALSE, TRUE)
           i == Instr("VARARGPREP", 0, 0, 0)
           c == [n EXCEPT !.code = <<i>>, !.is_vararg = TRUE]
           f == FuncFrameFor("main", Env, 1, [nactive |-> 0])
<1>1. heap = "ample" /\ fs = <<c>> /\ ctl = <<f>> /\ stats = MaxStats /\ final = <<>>
  BY DEF Init
<1>2. Fresh(n)
  <2>1. <<>> \in Seq(Names) /\ FALSE \in BOOLEAN /\ TRUE \in BOOLEAN
    OBVIOUS
  <2> QED
    BY <2>1, NewFresh
<1>3. Plain(i)
  BY DEF Plain, Instr, Looping
<1>4. f.k = "func" /\ f.comp = 1 /\ f.jf = NoJump /\ f.ends = <<>>
  BY DEF FuncFrameFor, NoFrame
<1>5. CompOK(c)
  <2>1. FsOK(fs)
    BY InitInv DEF IInv
  <2>2. 1 \in DOMAIN fs /\ fs[1] = c
    BY <1>1
  <2> HIDE DEF c
  <2> QED
    BY <2>1, <2>2 DEF FsOK, FsType
<1>6. n \in Comp
  BY <1>2 DEF Fresh, CompOK
<1> HIDE DEF n, i, f
<1>7. Fresh(c)
  <2>1. /\ c.breaks = n.breaks /\ c.gotos = n.gotos /\ c.labels = n.labels /\ c.owed = n.owed
        /\ c.lands = n.lands /\ c.jumps = n.jumps /\ c.in_loop = n.in_loop /\ c.code = <<i>>
    BY <1>6 DEF Comp
  <2>2. \A j \in DOMAIN <<i>> : <<i>>[j] = i
    OBVIOUS
  <2> HIDE DEF c
  <2> QED
    BY <1>2, <1>3, <1>5, <2>1, <2>2 DEF Fresh
<1> HIDE DEF c
<1>8. DOMAIN ctl = {1} /\ ctl[1] = f /\ DOMAIN fs = {1} /\ fs[1] = c /\ DOMAIN final = {}
  BY <1>1
<1>9. Idle(ctl, 1)
  BY <1>4, <1>8 DEF Idle
<1>10. Level(ctl, 1, c, stats)
  <2>1. stats \in Int /\ stats <= MaxStats
    BY <1>1, ScriptAssumption
  <2> QED
    BY <1>7, <1>9, <2>1, FreshLevel
<1> QED
  BY <1>8, <1>10 DEF BInv

\* Every step of the compiler keeps the branches.
LEMMA NextStepLevels == IInv /\ BInv /\ [Next]_vars => BInv'
<1> SUFFICES ASSUME IInv, BInv, [Next]_vars PROVE BInv'
  OBVIOUS
<1>1. CASE UNCHANGED vars
  <2>1. fs' = fs /\ ctl' = ctl /\ heap' = heap /\ stats' = stats /\ final' = final
    BY <1>1 DEF vars
  <2>2. stats \in Int
    BY LevelStart
  <2> QED
    BY <2>1, <2>2, StillLevels
<1>2. CASE Statement
  BY <1>2, LocalLevels, AssignLevels, ReturnLevels, CallLevels, BreakLevels, LabelLevels, GotoLevels
     DEF Statement
<1>3. CASE Opening
  BY <1>3, IfStartLevels, ElseIfLevels, WhileStartLevels, ElseLevels, DoStartLevels, RepeatStartLevels,
     ForNumStartLevels, ForInStartLevels, FuncStartLevels DEF Opening
<1>4. CASE Closing
  BY <1>4, IfEndLevels, DoEndLevels, WhileEndLevels, RepeatEndLevels, ForNumEndLevels, ForInEndLevels,
     FuncEndLevels DEF Closing
<1>5. CASE HeapRunsShort
  BY <1>5, HeapLevels
<1> QED
  BY <1>1, <1>2, <1>3, <1>4, <1>5 DEF Next

\* The invariant of branches, for every script and every limit: at most one thing
\* is going to patch a jump, and nothing will that has been patched for good.
THEOREM BranchInv == Spec => [](IInv /\ BInv)
<1>1. Init => IInv /\ BInv
  BY InitInv, InitLevels
<1>2. (IInv /\ BInv) /\ [Next]_vars => (IInv /\ BInv)'
  BY NextStepInv, NextStepLevels
<1> QED
  BY <1>1, <1>2, PTL DEF Spec

\* No branch of a finished function leaves its code, and the instructions of a
\* for loop find each other (mccompile.c:103-111, 1196-1201, 1282-1289).
THEOREM JumpsStayInside == Spec => []JumpsInside
<1>1. IInv /\ BInv => JumpsInside
  BY DEF BInv, Settled, JumpsFine, JumpsInside, Finished
<1> QED
  BY <1>1, BranchInv, PTL

\* A goto waits for its label, or jumps to the first label of its name
\* (mccompile.c:1407-1456).
THEOREM GotosLand == Spec => []GotosReachLabel
<1>1. ASSUME IInv, BInv, NEW c \in OpenFuncs \cup Finished PROVE GotosSound(c)
  BY <1>1 DEF BInv, Level, Traced, Settled, OpenFuncs, Finished
<1>2. IInv /\ BInv => GotosReachLabel
  BY <1>1 DEF GotosReachLabel, GotosSound, Pend, Reaches, Goes
<1> QED
  BY <1>2, BranchInv, PTL

\* Every jump a statement makes leads where the statement says, when the breaks
\* all fit and no numeric for hides the window of an outer loop's breaks.
THEOREM BranchesArrive ==
    ASSUME NoDrops
    PROVE  Spec => []BranchesLand
<1>1. ASSUME IInv, BInv, NEW c \in OpenFuncs \cup Finished PROVE LandsSound(c)
  BY <1>1 DEF BInv, Level, Traced, Settled, OpenFuncs, Finished
<1>2. IInv /\ BInv => BranchesLand
  <2> SUFFICES ASSUME IInv, BInv, NEW c \in OpenFuncs \cup Finished, NEW x \in c.lands
               PROVE  /\ x.pc # NoJump
                      /\ c.code[x.pc + 1].op = "JMP"
                      /\ Target(x.pc, c.code[x.pc + 1]) = x.at
    BY DEF BranchesLand
  <2>1. JmpAt(c, x.pc) /\ Goes(c, x.pc) = x.at
    BY <1>1 DEF LandsSound
  <2> QED
    BY <2>1 DEF JmpAt, Goes, NoJump
<1> QED
  BY <1>2, BranchInv, PTL
=============================================================================
