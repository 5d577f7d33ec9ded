---------------------------- MODULE KeepingProofs ----------------------------
(***************************************************************************)
(* Proofs about the components of MCKeeping, for every value of the        *)
(* constants that they name.  Each component has an invariant of its own,  *)
(* which its steps keep; a step of another one leaves it as it is.         *)
(***************************************************************************)
EXTENDS MCKeeping, SequenceTheorems, FiniteSetTheorems, WellFoundedInduction, TLAPS

LEMMA LeastOf ==
    ASSUME NEW S, S \subseteq Nat, S # {}
    PROVE  \E x \in S : \A y \in S : x <= y
<1>1. PICK x \in S : \A y \in S : ~(<<y, x>> \in OpToRel(<, Nat))
  BY NatLessThanWellFounded, WFMin
<1>2. ASSUME NEW y \in S PROVE x <= y
  <2> SUFFICES ASSUME y < x PROVE FALSE
    OBVIOUS
  <2>1. <<y, x>> \in Nat \X Nat /\ <<y, x>>[1] = y /\ <<y, x>>[2] = x
    OBVIOUS
  <2>2. <<y, x>>[1] < <<y, x>>[2]
    BY <2>1
  <2>3. <<y, x>> \in OpToRel(<, Nat)
    BY <2>1, <2>2 DEF OpToRel
  <2> QED  BY <1>1, <2>3
<1> QED  BY <1>2

LEMMA GreatestOf ==
    ASSUME NEW n \in Nat, NEW S, S \subseteq 1..n, S # {}
    PROVE  Directives!Max(S) \in S
<1> DEFINE T == {k \in 0..n : n - k \in S}
<1>1. T \subseteq Nat /\ T # {}
  <2>1. PICK x \in S : TRUE
    OBVIOUS
  <2>2. \A y \in 1..n : \E k \in 0..n : n - k = y
    <3>1. ASSUME NEW y \in 1..n PROVE n - y \in 0..n /\ n - (n - y) = y
      OBVIOUS
    <3> QED  BY <3>1
  <2>3. PICK k \in 0..n : n - k = x
    BY <2>2
  <2>4. k \in T
    BY <2>3
  <2>5. T \subseteq Nat
    OBVIOUS
  <2> HIDE DEF T
  <2> QED  BY <2>4, <2>5
<1>2. PICK t \in T : \A u \in T : t <= u
  <2> HIDE DEF T
  <2> QED  BY <1>1, LeastOf
<1>3. PICK x \in S : t = n - x
  <2>1. t \in 0..n /\ n - t \in S
    OBVIOUS
  <2>2. t = n - (n - t)
    BY <2>1
  <2> QED  BY <2>1, <2>2
<1>4. \A y \in S : x >= y
  <2>1. ASSUME NEW y \in S PROVE x >= y
    <3>1. n - y \in T
      OBVIOUS
    <3>2. n - x <= n - y
      BY <1>2, <1>3, <3>1
    <3> QED  BY <3>2
  <2> QED  BY <2>1
<1> QED  BY <1>4 DEF Directives!Max

-----------------------------------------------------------------------------
(* Directives. *)

Demands == Instructions \cup ({"proposal"} \X (1..MaxProposals))

GovType ==
    /\ gov_made \in 0..MaxProposals
    /\ gov_status \in [1..MaxProposals -> {"none", "pending", "approved", "rejected", "implemented"}]
    /\ gov_asked = << >> \/ gov_asked \in (1..MaxProposals) \X {"approved", "rejected"}
    /\ gov_job \in [Consoles -> [at : {"idle", "chosen", "marked", "analyse", "rewrite"},
                                 of : 0..MaxProposals, text : SUBSET Demands]]

\* What demands only what instructions say and what was approved.
Granted(text) == text \subseteq Instructions \cup ({"proposal"} \X gov_everApproved)

\* A proposal is given the status that a rollback gives it only where it was approved.
GovInv ==
    /\ GovType /\ gov_everApproved \subseteq 1..MaxProposals
    /\ \A x \in 1..MaxProposals : gov_status[x] \in {"approved", "implemented"} => x \in gov_everApproved
    /\ \A p \in Consoles : /\ gov_job[p].at \in {"chosen", "marked"} => gov_job[p].of \in gov_everApproved
                           /\ Granted(gov_job[p].text)
    /\ Granted(gov_file)

LEMMA GovInit == ASSUME Directives!Init PROVE GovInv
<1> USE KeepingAssumption DEF KeepingAssumption, Directives!GovernanceAssumption
<1>1. GovType /\ gov_everApproved = {} /\ gov_file = {} /\ \A p \in Consoles : gov_job[p] = Directives!Idle
  BY DEF Directives!Init, GovType, Directives!Idle, Directives!Proposals
<1> QED  BY <1>1 DEF GovInv, Granted, Directives!Init, Directives!Idle, Directives!Proposals

LEMMA GovStep == ASSUME GovInv, Directives!Next PROVE GovInv'
<1> USE KeepingAssumption DEF KeepingAssumption, Directives!GovernanceAssumption
<1> DEFINE Job == [at : {"idle", "chosen", "marked", "analyse", "rewrite"},
                   of : 0..MaxProposals, text : SUBSET Demands]
<1>0. GovType
  BY DEF GovInv
<1>j. gov_job \in [Consoles -> Job]
  BY <1>0 DEF GovType
<1>i. Directives!Idle \in Job /\ Directives!Idle.at = "idle" /\ Directives!Idle.text = {}
  BY DEF Directives!Idle
<1>1. ASSUME UNCHANGED gov_job, UNCHANGED gov_file, gov_everApproved \subseteq gov_everApproved',
             gov_everApproved' \subseteq 1..MaxProposals,
             GovType',
             \A x \in 1..MaxProposals : gov_status'[x] \in {"approved", "implemented"} => x \in gov_everApproved'
      PROVE  GovInv'
  BY <1>1 DEF GovInv, Granted
<1>2. ASSUME NEW p \in Consoles, NEW j \in Job, gov_job' = [gov_job EXCEPT ![p] = j], Granted(j.text),
             Granted(gov_file)', j.at \in {"chosen", "marked"} => j.of \in gov_everApproved,
             UNCHANGED gov_everApproved, UNCHANGED gov_asked,
             gov_made' \in 0..MaxProposals,
             gov_status' \in [1..MaxProposals -> {"none", "pending", "approved", "rejected", "implemented"}],
             \A x \in 1..MaxProposals : gov_status'[x] \in {"approved", "implemented"} => x \in gov_everApproved
      PROVE  GovInv'
  <2>1. GovType'
    BY <1>2, <1>0, <1>j DEF GovType
  <2>2. ASSUME NEW q \in Consoles
        PROVE  /\ gov_job'[q].at \in {"chosen", "marked"} => gov_job'[q].of \in gov_everApproved'
               /\ Granted(gov_job[q].text)'
    BY <1>2, <1>j DEF GovInv, Granted
  <2> QED  BY <1>2, <2>1, <2>2 DEF GovInv
<1>3. ASSUME Directives!Insert
      PROVE  /\ gov_made' \in 0..MaxProposals /\ UNCHANGED <<gov_asked, gov_everApproved>>
             /\ gov_status' \in [1..MaxProposals -> {"none", "pending", "approved", "rejected", "implemented"}]
             /\ \A x \in 1..MaxProposals : gov_status'[x] \in {"approved", "implemented"} => x \in gov_everApproved
  BY <1>3, <1>0 DEF Directives!Insert, GovType, GovInv
<1>4. ASSUME NEW x \in 1..MaxProposals, NEW s \in {"approved", "rejected"}, Directives!Update(x, s)
      PROVE  /\ gov_made' \in 0..MaxProposals /\ gov_everApproved \subseteq gov_everApproved'
             /\ gov_everApproved' \subseteq 1..MaxProposals
             /\ gov_status' \in [1..MaxProposals -> {"none", "pending", "approved", "rejected", "implemented"}]
             /\ \A y \in 1..MaxProposals : gov_status'[y] \in {"approved", "implemented"} => y \in gov_everApproved'
  BY <1>4, <1>0 DEF Directives!Update, GovType, GovInv
<1>5. ASSUME NEW c \in {2, 9}, Directives!Turn(c) PROVE GovInv'
  BY <1>5, <1>0 DEF Directives!Turn, Directives!tableVars, Directives!fileVars, GovInv, GovType, Granted
<1>6. ASSUME Directives!Inline PROVE GovInv'
  <2>1. GovType'
    BY <1>0, <1>3, <1>6 DEF Directives!Inline, GovType
  <2> QED  BY <1>1, <1>3, <1>6, <2>1 DEF Directives!Inline, Directives!fileVars, GovInv
<1>7. ASSUME Directives!Decide PROVE GovInv'
  <2>1. gov_asked \in (1..MaxProposals) \X {"approved", "rejected"}
    BY <1>7, <1>0 DEF Directives!Decide, GovType
  <2>2. Directives!Update(gov_asked[1], gov_asked[2]) /\ UNCHANGED <<gov_file, gov_job>> /\ gov_asked' = << >>
    BY <1>7 DEF Directives!Decide, Directives!fileVars
  <2>3. GovType'
    BY <1>0, <1>4, <2>1, <2>2 DEF GovType
  <2> QED  BY <1>1, <1>4, <2>1, <2>2, <2>3
<1>8. ASSUME NEW x \in 1..MaxProposals, NEW s \in {"approved", "rejected"},
             Directives!Ask(x, s) \/ Directives!DecideAtShell(x, s)
      PROVE  GovInv'
  <2>1. CASE Directives!Ask(x, s)
    <3>1. GovType' /\ UNCHANGED <<gov_job, gov_file, gov_everApproved, gov_status>>
      BY <2>1, <1>0 DEF Directives!Ask, GovType, Directives!fileVars
    <3> QED  BY <1>1, <3>1 DEF GovInv
  <2>2. CASE Directives!DecideAtShell(x, s)
    <3>1. Directives!Update(x, s) /\ UNCHANGED <<gov_file, gov_job, gov_asked>>
      BY <2>2 DEF Directives!DecideAtShell, Directives!fileVars
    <3>2. GovType'
      BY <1>0, <1>4, <3>1 DEF GovType
    <3> QED  BY <1>1, <1>4, <3>1, <3>2
  <2> QED  BY <1>8, <2>1, <2>2
<1>9. ASSUME NEW p \in Consoles, Directives!CheckTrend(p) PROVE GovInv'
  <2> DEFINE best == Directives!Max(Directives!Candidates)
             j == [gov_job[p] EXCEPT !.at = "analyse"]
             k == [at |-> "chosen", of |-> best, text |-> {}]
  <2>1. /\ UNCHANGED <<gov_everApproved, gov_asked, gov_made, gov_status>>
        /\ \/ gov_job' = [gov_job EXCEPT ![p] = j] /\ gov_file' \in {gov_file, {}}
           \/ /\ gov_job' = [gov_job EXCEPT ![p] = k] /\ UNCHANGED gov_file
              /\ Directives!Candidates # {}
    BY <1>9, <1>j DEF Directives!CheckTrend, Directives!tableVars, Directives!Overwrite, Directives!Idle
  <2>2. j \in Job /\ Granted(j.text) /\ j.at = "analyse"
    BY <1>j DEF GovInv
  <2>3. Directives!Candidates # {} => k \in Job /\ best \in gov_everApproved
    <3>1. Directives!Candidates \subseteq 1..MaxProposals
      BY DEF Directives!Candidates, Directives!Proposals
    <3>2. Directives!Candidates # {} => best \in Directives!Candidates
      BY <3>1, GreatestOf
    <3>3. Directives!Candidates \subseteq gov_everApproved
      <4> SUFFICES ASSUME NEW x \in 1..MaxProposals, gov_status[x] = "approved" PROVE x \in gov_everApproved
        BY DEF Directives!Candidates, Directives!Proposals
      <4> QED  BY DEF GovInv
    <3> HIDE DEF best
    <3>4. Directives!Candidates # {} => best \in 0..MaxProposals /\ best \in gov_everApproved
      <4>1. \A b \in Directives!Candidates : b \in 0..MaxProposals /\ b \in gov_everApproved
        BY <3>1, <3>3
      <4> QED  BY <3>2, <4>1
    <3>5. ASSUME NEW b \in 0..MaxProposals PROVE [at |-> "chosen", of |-> b, text |-> {}] \in Job
      OBVIOUS
    <3> HIDE DEF Job
    <3> QED  BY <3>4, <3>5
  <2>4. Granted(gov_file)' /\ Granted({})
    BY <2>1 DEF GovInv, Granted
  <2>5. k.text = {} /\ k.of = best
    OBVIOUS
  <2>6. /\ gov_made' \in 0..MaxProposals
        /\ gov_status' \in [1..MaxProposals -> {"none", "pending", "approved", "rejected", "implemented"}]
        /\ \A x \in 1..MaxProposals : gov_status'[x] \in {"approved", "implemented"} => x \in gov_everApproved
    BY <1>0, <2>1 DEF GovType, GovInv
  <2> HIDE DEF j, k, best, Job
  <2> QED  BY <1>2, <2>1, <2>2, <2>3, <2>4, <2>5, <2>6
<1>10. ASSUME NEW p \in Consoles, Directives!Mark(p) PROVE GovInv'
  <2> DEFINE j == [gov_job[p] EXCEPT !.at = "marked"]
  <2>1. /\ gov_job[p].at = "chosen" /\ gov_job' = [gov_job EXCEPT ![p] = j]
        /\ UNCHANGED <<gov_everApproved, gov_asked, gov_made, gov_file>>
        /\ gov_status' = [gov_status EXCEPT ![gov_job[p].of] = "implemented"]
    BY <1>10 DEF Directives!Mark, Directives!fileVars
  <2>2. j \in Job /\ Granted(j.text) /\ j.of \in gov_everApproved /\ gov_job[p].of \in gov_everApproved
    BY <1>j, <2>1 DEF GovInv
  <2>3. Granted(gov_file)'
    BY <2>1 DEF GovInv, Granted
  <2>6. /\ gov_made' \in 0..MaxProposals
        /\ gov_status' \in [1..MaxProposals -> {"none", "pending", "approved", "rejected", "implemented"}]
        /\ \A x \in 1..MaxProposals : gov_status'[x] \in {"approved", "implemented"} => x \in gov_everApproved
    BY <1>0, <2>1, <2>2 DEF GovType, GovInv
  <2> HIDE DEF j, Job
  <2> QED  BY <1>2, <2>1, <2>2, <2>3, <2>6
<1>11. ASSUME NEW p \in Consoles, Directives!Restore(p) PROVE GovInv'
  <2> DEFINE j == [at |-> "analyse", of |-> 0, text |-> {}]
  <2>0. [Directives!Idle EXCEPT !.at = "analyse"] = j
    BY DEF Directives!Idle
  <2> HIDE DEF j
  <2>1. /\ gov_job[p].at = "marked" /\ gov_job' = [gov_job EXCEPT ![p] = j]
        /\ UNCHANGED <<gov_everApproved, gov_asked, gov_made, gov_status>>
        /\ gov_file' \in {gov_file, {<<"proposal", gov_job[p].of>>}}
    BY <1>11, <2>0 DEF Directives!Restore, Directives!tableVars, Directives!Overwrite
  <2>2. j \in Job /\ Granted(j.text) /\ j.at = "analyse"
    BY DEF Granted, j
  <2>3. Granted(gov_file)'
    BY <2>1 DEF GovInv, Granted
  <2>6. /\ gov_made' \in 0..MaxProposals
        /\ gov_status' \in [1..MaxProposals -> {"none", "pending", "approved", "rejected", "implemented"}]
        /\ \A x \in 1..MaxProposals : gov_status'[x] \in {"approved", "implemented"} => x \in gov_everApproved
    BY <1>0, <2>1, <2>2 DEF GovType, GovInv
  <2> HIDE DEF j, Job
  <2> QED  BY <1>2, <2>1, <2>2, <2>3, <2>6
<1>12. ASSUME NEW p \in Consoles, Directives!Analyse(p) PROVE GovInv'
  <2>1. /\ gov_job' = [gov_job EXCEPT ![p] = Directives!Idle] /\ UNCHANGED gov_file
        /\ Directives!Insert \/ UNCHANGED <<gov_made, gov_status, gov_asked, gov_everApproved>>
    BY <1>12 DEF Directives!Analyse, Directives!tableVars, Directives!fileVars
  <2>2. /\ gov_made' \in 0..MaxProposals /\ UNCHANGED <<gov_asked, gov_everApproved>>
        /\ gov_status' \in [1..MaxProposals -> {"none", "pending", "approved", "rejected", "implemented"}]
        /\ \A x \in 1..MaxProposals : gov_status'[x] \in {"approved", "implemented"} => x \in gov_everApproved
    BY <1>0, <1>3, <2>1 DEF GovType, GovInv
  <2>3. Granted(gov_file)' /\ Granted(Directives!Idle.text)
    BY <1>i, <2>1, <2>2 DEF GovInv, Granted
  <2> HIDE DEF Job
  <2> QED  BY <1>2, <1>i, <2>1, <2>2, <2>3
<1>13. ASSUME NEW p \in Consoles, Directives!Rewrite(p) \/ Directives!RewriteRefused(p) PROVE GovInv'
  <2>1. /\ gov_job' = [gov_job EXCEPT ![p] = Directives!Idle] /\ gov_file' \in {gov_file, gov_job[p].text}
        /\ UNCHANGED <<gov_made, gov_status, gov_asked, gov_everApproved>>
    BY <1>13
       DEF Directives!Rewrite, Directives!RewriteRefused, Directives!tableVars, Directives!fileVars,
                 Directives!Overwrite
  <2>2. Granted(gov_file)' /\ Granted(Directives!Idle.text)
    BY <1>i, <2>1 DEF GovInv, Granted
  <2>6. /\ gov_made' \in 0..MaxProposals
        /\ gov_status' \in [1..MaxProposals -> {"none", "pending", "approved", "rejected", "implemented"}]
        /\ \A x \in 1..MaxProposals : gov_status'[x] \in {"approved", "implemented"} => x \in gov_everApproved
    BY <1>0, <2>1, <2>2 DEF GovType, GovInv
  <2> HIDE DEF Job
  <2> QED  BY <1>2, <1>i, <2>1, <2>2, <2>6
<1>14. ASSUME NEW p \in Consoles, NEW i \in Instructions, Directives!Read(p, i) PROVE GovInv'
  <2> DEFINE j == [at |-> "rewrite", of |-> 0, text |-> gov_file \cup {i}]
  <2>1. /\ gov_job' = [gov_job EXCEPT ![p] = j]
        /\ UNCHANGED <<gov_everApproved, gov_asked, gov_made, gov_status, gov_file>>
    BY <1>14 DEF Directives!Read, Directives!tableVars
  <2>2. j \in Job /\ Granted(j.text) /\ j.at = "rewrite"
    <3>1. gov_file \subseteq Demands /\ Granted(gov_file)
      BY DEF GovInv, Granted, Demands
    <3> QED  BY <3>1 DEF Granted, Demands
  <2>3. Granted(gov_file)'
    BY <2>1 DEF GovInv, Granted
  <2>6. /\ gov_made' \in 0..MaxProposals
        /\ gov_status' \in [1..MaxProposals -> {"none", "pending", "approved", "rejected", "implemented"}]
        /\ \A x \in 1..MaxProposals : gov_status'[x] \in {"approved", "implemented"} => x \in gov_everApproved
    BY <1>0, <2>1, <2>2 DEF GovType, GovInv
  <2> HIDE DEF j, Job
  <2> QED  BY <1>2, <2>1, <2>2, <2>3, <2>6
<1> QED
  BY <1>5, <1>6, <1>7, <1>8, <1>9, <1>10, <1>11, <1>12, <1>13, <1>14
     DEF Directives!Next, Directives!Proposals

-----------------------------------------------------------------------------
(* Skills. *)

Loads == [at : {"idle", "clear", "scan", "read"}, todo : SUBSET SkillNames, held : SUBSET SkillNames]

ExtType ==
    /\ ext_files \subseteq SkillNames /\ ext_events \in Nat
    /\ ext_loader \in [Skills!Threads -> Loads]

\* This thread will load the skill.
Coming(r, f) == r.at \in {"clear", "scan"} \/ (r.at = "read" /\ f \in r.todo \cup r.held)

\* A skill on disk is loaded, or an event or a thread will see to it.
ExtInv ==
    /\ ExtType
    /\ \A f \in ext_files : f \in ext_loaded \/ ext_events > 0 \/ \E t \in Skills!Threads : Coming(ext_loader[t], f)

LEMMA ExtStep == ASSUME ExtInv, Skills!Next PROVE ExtInv'
<1>0. ExtType
  BY DEF ExtInv
<1>c. Skills!Idle \in Loads /\ [at |-> "clear", todo |-> {}, held |-> {}] \in Loads
      /\ [Skills!Idle EXCEPT !.at = "clear"] = [at |-> "clear", todo |-> {}, held |-> {}]
  BY DEF Skills!Idle, Loads
<1>k. ASSUME ext_events' \in Nat, ext_files' \subseteq SkillNames, UNCHANGED ext_loaded,
             ext_loader' \in [Skills!Threads -> Loads],
             \A t \in Skills!Threads : ext_loader'[t] = ext_loader[t] \/ ext_loader'[t].at = "clear",
             ext_events' > 0 \/ (ext_files' \subseteq ext_files /\ (ext_events > 0 => ext_events' > 0))
      PROVE  ExtInv'
  <2>1. ExtType'
    BY <1>k DEF ExtType
  <2>2. ASSUME NEW f \in ext_files', ~(ext_events' > 0)
        PROVE  f \in ext_loaded' \/ \E t \in Skills!Threads : Coming(ext_loader'[t], f)
    <3>1. f \in ext_files /\ ~(ext_events > 0)
      BY <1>k, <2>2
    <3>2. CASE f \in ext_loaded
      BY <1>k, <3>2
    <3>3. ASSUME NEW t \in Skills!Threads, Coming(ext_loader[t], f) PROVE Coming(ext_loader'[t], f)
      BY <1>k, <3>3 DEF Coming
    <3> QED  BY <3>1, <3>2, <3>3 DEF ExtInv
  <2> QED  BY <2>1, <2>2 DEF ExtInv, Coming
<1>a. ASSUME NEW p, NEW w, Skills!Activate(p, w)
      PROVE  /\ ext_loader' \in [Skills!Threads -> Loads]
             /\ \A t \in Skills!Threads : ext_loader'[t] = ext_loader[t] \/ ext_loader'[t].at = "clear"
  BY <1>a, <1>0, <1>c DEF Skills!Activate, ExtType, Skills!Threads
<1>l. ASSUME UNCHANGED ext_loader
      PROVE  /\ ext_loader' \in [Skills!Threads -> Loads]
             /\ \A t \in Skills!Threads : ext_loader'[t] = ext_loader[t] \/ ext_loader'[t].at = "clear"
  BY <1>l, <1>0 DEF ExtType
<1>1. ASSUME UNCHANGED <<ext_files, ext_events, ext_loaded, ext_loader>> PROVE ExtInv'
  BY <1>1 DEF ExtInv, ExtType, Coming
<1>2. ASSUME NEW p \in Skills!Processes, NEW n \in Skills!Names, Skills!InstallSkill(p, n) PROVE ExtInv'
  <2>1. /\ ext_files' = ext_files \cup {n} /\ n \in SkillNames /\ ext_events' = ext_events + 1
        /\ Skills!Activate(p, Skills!Whole) /\ UNCHANGED ext_loaded
    BY <1>2 DEF Skills!InstallSkill
  <2>2. ext_events' \in Nat /\ ext_events' > 0 /\ ext_files' \subseteq SkillNames
    BY <1>0, <2>1 DEF ExtType
  <2> QED  BY <1>a, <1>k, <2>1, <2>2
<1>3. ASSUME NEW p \in Skills!Processes, NEW n \in Skills!Names, Skills!InstallPlugin(p, n) PROVE ExtInv'
  <2>1. /\ UNCHANGED <<ext_files, ext_events, ext_loaded>>
        /\ Skills!Activate(p, Skills!Whole \cup {n}) \/ UNCHANGED ext_loader
    BY <1>3 DEF Skills!InstallPlugin
  <2>2. ext_events' \in Nat /\ ext_files' \subseteq SkillNames
    BY <1>0, <2>1 DEF ExtType
  <2> QED  BY <1>a, <1>l, <1>k, <2>1, <2>2
<1>4. ASSUME NEW p \in Skills!Processes, NEW n \in Skills!Names, Skills!Uninstall(p, n) PROVE ExtInv'
  <2>1. /\ ext_files' = ext_files \ {n} /\ ext_events' \in {ext_events, ext_events + 1}
        /\ Skills!Activate(p, Skills!Whole \ {n}) /\ UNCHANGED ext_loaded
    BY <1>4 DEF Skills!Uninstall
  <2>2. ext_events' \in Nat /\ ext_files' \subseteq SkillNames /\ ext_files' \subseteq ext_files
        /\ (ext_events > 0 => ext_events' > 0)
    BY <1>0, <2>1 DEF ExtType
  <2> QED  BY <1>a, <1>k, <2>1, <2>2
<1>5. ASSUME NEW n \in SkillNames, Skills!DropFile(n) PROVE ExtInv'
  <2>1. ext_events' = ext_events + 1 /\ ext_files' \in {ext_files \ {n}, ext_files \cup {n}}
        /\ UNCHANGED <<ext_loaded, ext_loader>>
    BY <1>5 DEF Skills!DropFile, Skills!runVars
  <2>2. ext_events' \in Nat /\ ext_events' > 0 /\ ext_files' \subseteq SkillNames
    BY <1>0, <2>1 DEF ExtType
  <2> QED  BY <1>k, <1>l, <2>1, <2>2
<1>6. ASSUME Skills!Reload PROVE ExtInv'
  <2>1. Skills!Activate("console", Skills!Whole) /\ UNCHANGED <<ext_files, ext_events, ext_loaded>>
    BY <1>6 DEF Skills!Reload, Skills!diskVars
  <2>2. ext_events' \in Nat /\ ext_files' \subseteq SkillNames
    BY <1>0, <2>1 DEF ExtType
  <2> QED  BY <1>a, <1>k, <2>1, <2>2
<1>7. ASSUME Skills!Watch PROVE ExtInv'
  <2> DEFINE c == [at |-> "clear", todo |-> {}, held |-> {}]
  <2>1. /\ ext_events > 0 /\ ext_events' = ext_events - 1 /\ ext_loader' = [ext_loader EXCEPT !["watcher"] = c]
        /\ UNCHANGED <<ext_files, ext_loaded>>
    BY <1>7, <1>c DEF Skills!Watch
  <2>2. ExtType'
    BY <1>0, <1>c, <2>1 DEF ExtType, Skills!Threads
  <2>3. "watcher" \in Skills!Threads /\ ext_loader'["watcher"].at = "clear"
    BY <1>0, <2>1 DEF ExtType, Skills!Threads
  <2> QED  BY <2>2, <2>3 DEF ExtInv, Coming
<1>8. ASSUME NEW t \in Skills!Threads, Skills!Clear(t) \/ Skills!Scan(t) PROVE ExtInv'
  <2>1. UNCHANGED <<ext_files, ext_events>>
    BY <1>8 DEF Skills!Clear, Skills!Scan, Skills!LoaderRest, Skills!diskVars
  <2>2. /\ ext_loader' \in [Skills!Threads -> Loads]
        /\ \A f \in ext_files : Coming(ext_loader'[t], f)
    BY <1>0, <1>8 DEF Skills!Clear, Skills!Scan, ExtType, Loads, Coming
  <2>3. ExtType'
    BY <1>0, <2>1, <2>2 DEF ExtType
  <2> QED  BY <2>1, <2>2, <2>3 DEF ExtInv
<1>9. ASSUME NEW t \in Skills!Threads, NEW r \in Loads, ext_loader' = [ext_loader EXCEPT ![t] = r],
             UNCHANGED <<ext_files, ext_events>>, ext_loaded \subseteq ext_loaded',
             \A f \in ext_files : Coming(ext_loader[t], f) => f \in ext_loaded' \/ Coming(r, f)
      PROVE  ExtInv'
  <2>1. ExtType'
    BY <1>0, <1>9 DEF ExtType
  <2>2. \A s \in Skills!Threads : ext_loader'[s] = IF s = t THEN r ELSE ext_loader[s]
    BY <1>0, <1>9 DEF ExtType
  <2>3. ASSUME NEW f \in ext_files, ~(ext_events > 0), f \notin ext_loaded'
        PROVE  \E s \in Skills!Threads : Coming(ext_loader'[s], f)
    <3>1. PICK s \in Skills!Threads : Coming(ext_loader[s], f)
      BY <1>9, <2>3 DEF ExtInv
    <3> QED  BY <1>9, <2>2, <2>3, <3>1
  <2> QED  BY <1>9, <2>1, <2>3 DEF ExtInv
<1>10. ASSUME NEW t \in Skills!Threads, NEW n \in SkillNames, Skills!ReadSkill(t, n) PROVE ExtInv'
  <2> DEFINE r == [at |-> "read", todo |-> ext_loader[t].todo \ {n}, held |-> {n} \cap ext_files]
  <2>1. /\ ext_loader[t].at = "read" /\ ext_loader[t].held = {} /\ ext_loader' = [ext_loader EXCEPT ![t] = r]
        /\ UNCHANGED <<ext_files, ext_events, ext_loaded>>
    BY <1>10 DEF Skills!ReadSkill, Skills!LoaderRest, Skills!diskVars
  <2>2. ext_loader[t] \in Loads
    BY <1>0 DEF ExtType
  <2>3. r \in Loads /\ r.at = ext_loader[t].at /\ r.todo = ext_loader[t].todo \ {n} /\ r.held = {n} \cap ext_files
    <3>1. ext_loader[t].todo \ {n} \in SUBSET SkillNames /\ {n} \cap ext_files \in SUBSET SkillNames
      BY <2>2 DEF Loads
    <3> QED  BY <2>1, <3>1 DEF Loads
  <2> HIDE DEF r
  <2>4. \A f \in ext_files : Coming(ext_loader[t], f) => Coming(r, f)
    BY <2>1, <2>3 DEF Coming
  <2> QED  BY <1>9, <2>1, <2>3, <2>4
<1>11. ASSUME NEW t \in Skills!Threads, Skills!SetSkill(t) PROVE ExtInv'
  <2> DEFINE r == [ext_loader[t] EXCEPT !.held = {}]
  <2>1. /\ ext_loader' = [ext_loader EXCEPT ![t] = r] /\ ext_loaded' = ext_loaded \cup ext_loader[t].held
        /\ UNCHANGED <<ext_files, ext_events>>
    BY <1>11 DEF Skills!SetSkill, Skills!LoaderRest, Skills!diskVars
  <2>2. ext_loader[t] \in Loads
    BY <1>0 DEF ExtType
  <2>3. r \in Loads /\ r.at = ext_loader[t].at /\ r.todo = ext_loader[t].todo
    BY <2>2 DEF Loads
  <2> HIDE DEF r
  <2>4. \A f \in ext_files : Coming(ext_loader[t], f) => f \in ext_loaded' \/ Coming(r, f)
    BY <2>1, <2>3 DEF Coming
  <2> QED  BY <1>9, <2>1, <2>3, <2>4
<1>12. ASSUME NEW t \in Skills!Threads, Skills!EndLoad(t) PROVE ExtInv'
  <2>1. /\ ext_loader[t].at = "read" /\ ext_loader[t].todo = {} /\ ext_loader[t].held = {}
        /\ ext_loader' = [ext_loader EXCEPT ![t] = Skills!Idle] /\ UNCHANGED <<ext_files, ext_events, ext_loaded>>
    BY <1>12 DEF Skills!EndLoad, Skills!LoaderRest, Skills!diskVars
  <2>2. \A f \in ext_files : ~Coming(ext_loader[t], f)
    BY <2>1 DEF Coming
  <2> QED  BY <1>9, <1>c, <2>1, <2>2
<1>13. ASSUME \/ Skills!KitReads \/ Skills!KitExits \/ Skills!ReloadServers
              \/ \E p \in Skills!Processes, n \in Skills!Names : Skills!Refuse(p, n)
              \/ \E p \in Skills!Processes : Skills!Refresh(p)
              \/ \E s \in Servers : Skills!SetServer(s)
       PROVE  ExtInv'
  <2>1. UNCHANGED <<ext_files, ext_events, ext_loaded, ext_loader>>
    BY <1>13 DEF Skills!KitReads, Skills!KitExits, Skills!ReloadServers, Skills!Refuse, Skills!Refresh,
                 Skills!SetServer, Skills!diskVars, Skills!runVars
  <2> QED  BY <1>1, <2>1
<1> QED
  BY <1>2, <1>3, <1>4, <1>5, <1>6, <1>7, <1>8, <1>10, <1>11, <1>12, <1>13 DEF Skills!Next

\* What steers the model is what it should be: a directive governs only after an approval
\* (meta_reasoning.py:291), whatever rollbacks, analyses and decisions meet; and with the watcher
\* up, every skill on disk is loaded once no loader runs and no event waits (skills_watcher.py:14).
THEOREM GoverningIsRight == Spec => []OnlyWhatShouldGoverns
<1>1. Init => GovInv /\ ExtInv
  <2>1. ASSUME Skills!Init PROVE ExtInv
    BY <2>1 DEF Skills!Init, ExtInv, ExtType, Skills!Idle, Loads
  <2> QED  BY <2>1, GovInit DEF Init
<1>2. GovInv /\ ExtInv /\ [Next]_vars => GovInv' /\ ExtInv'
  <2> SUFFICES ASSUME GovInv, ExtInv, [Next]_vars PROVE GovInv' /\ ExtInv'
    OBVIOUS
  <2>1. ASSUME UNCHANGED govVars PROVE GovInv'
    BY <2>1 DEF govVars, GovInv, GovType, Granted
  <2>2. ASSUME UNCHANGED extVars PROVE ExtInv'
    BY <2>2 DEF extVars, ExtInv, ExtType, Coming
  <2>3. CASE DirectivesSteps
    BY <2>2, <2>3, GovStep DEF DirectivesSteps, Only
  <2>4. CASE SkillsSteps
    BY <2>1, <2>4, ExtStep DEF SkillsSteps, Only
  <2> QED
    BY <2>1, <2>2, <2>3, <2>4
       DEF Next, BackupsSteps, GraphSteps, MemoriesSteps, StoreSteps, AimsSteps, DaemonSteps,
              WorkspaceSteps,
           FoldersSteps, Only, vars
<1>3. GovInv /\ ExtInv => OnlyWhatShouldGoverns
  <2> SUFFICES ASSUME GovInv, ExtInv PROVE OnlyWhatShouldGoverns
    OBVIOUS
  <2>1. Directives!OnlyApprovedGoverns
    <3> SUFFICES ASSUME NEW x \in 1..MaxProposals, <<"proposal", x>> \in Directives!Governing
                 PROVE  x \in gov_everApproved
      BY DEF Directives!OnlyApprovedGoverns, Directives!Proposals
    <3>1. CASE <<"proposal", x>> \in gov_file
      <4>1. <<"proposal", x>> \notin Instructions
        BY KeepingAssumption DEF KeepingAssumption, Directives!GovernanceAssumption
      <4> QED  BY <3>1, <4>1 DEF GovInv, Granted
    <3>2. CASE gov_status[x] = "approved"
      BY <3>2 DEF GovInv
    <3>3. <<"proposal", x>> \in gov_file \/ gov_status[x] = "approved"
      BY DEF Directives!Governing, Directives!Proposals
    <3> QED  BY <3>1, <3>2, <3>3
  <2>2. Skills!SkillsAreLoaded
    BY DEF ExtInv, Skills!SkillsAreLoaded, Skills!Settled, Coming
  <2> QED  BY <2>1, <2>2 DEF OnlyWhatShouldGoverns
<1> QED  BY <1>1, <1>2, <1>3, PTL DEF Spec

-----------------------------------------------------------------------------
(* Concepts. *)

\* A concept that the search does not miss has one row at most, also in the tables to which a
\* turn may go back.
GraphInv ==
    /\ graph_rows \in [Concepts -> Nat]
    /\ graph_before[1] \in [Concepts -> Nat]
    /\ \A c \in Concepts \ Missed : graph_rows[c] <= 1 /\ graph_before[1][c] <= 1

LEMMA GraphStep == ASSUME GraphInv, Graph!Next PROVE GraphInv'
<1>1. ASSUME UNCHANGED graph_rows, graph_before' \in {graph_before, Graph!tables} PROVE GraphInv'
  BY <1>1 DEF GraphInv, Graph!tables
<1>2. ASSUME UNCHANGED graph_before, NEW p, NEW over, NEW C,
             graph_rows' = [c \in Concepts |-> IF c \in {d \in C : ~Graph!IsKnown(p, d, over)}
                                               THEN graph_rows[c] + 1 ELSE graph_rows[c]]
      PROVE  GraphInv'
  <2>1. graph_rows' \in [Concepts -> Nat]
    BY <1>2 DEF GraphInv
  <2>2. ASSUME NEW c \in Concepts \ Missed PROVE graph_rows'[c] <= 1
    <3>1. CASE Graph!IsKnown(p, c, over)
      BY <1>2, <3>1 DEF GraphInv
    <3>2. CASE ~Graph!IsKnown(p, c, over)
      <4>1. graph_rows[c] = 0
        BY <3>2 DEF Graph!IsKnown, Graph!Found, GraphInv
      <4> QED  BY <1>2, <4>1
    <3> QED  BY <3>1, <3>2
  <2> QED  BY <1>2, <2>1, <2>2 DEF GraphInv
<1>3. ASSUME NEW p \in Loops, Graph!Begin(p) \/ Graph!Commit(p) PROVE GraphInv'
  BY <1>1, <1>3 DEF Graph!Begin, Graph!Commit, Graph!tables
<1>4. ASSUME NEW p \in Loops, Graph!Rollback(p) PROVE GraphInv'
  BY <1>4 DEF Graph!Rollback, GraphInv
<1>5. ASSUME NEW p \in Loops, Graph!Suppose(p) \/ Graph!Load(p) \/ \E v \in {"confirmed", "denied"} : Graph!Resolve(p, v)
      PROVE  GraphInv'
  BY <1>1, <1>5 DEF Graph!Suppose, Graph!Load, Graph!Resolve, Graph!tables
<1>6. ASSUME NEW p \in Loops, NEW e \in Graph!Pairs, Graph!Observe(p, e) PROVE GraphInv'
  <2>1. PICK over \in BOOLEAN, weak \in BOOLEAN : Graph!AddNodes(p, {e[1], e[2]}, over, weak)
    BY <1>6 DEF Graph!Observe
  <2>2. graph_rows' = [c \in Concepts |-> IF c \in {d \in {e[1], e[2]} : ~Graph!IsKnown(p, d, over)}
                                          THEN graph_rows[c] + 1 ELSE graph_rows[c]]
    BY <2>1 DEF Graph!AddNodes
  <2>3. UNCHANGED graph_before
    BY <1>6 DEF Graph!Observe
  <2> HIDE DEF Graph!IsKnown
  <2> DEFINE C == {e[1], e[2]}
  <2> HIDE DEF C
  <2> QED  BY <1>2, <2>2, <2>3 DEF C
<1>9. ASSUME NEW p \in Loops, NEW e \in Graph!Pairs, Graph!Contradict(p, e) PROVE GraphInv'
  <2>1. PICK over \in BOOLEAN :
           graph_rows' = [c \in Concepts |-> IF c \in {d \in {e[1], e[2]} : ~Graph!IsKnown(p, d, over)}
                                             THEN graph_rows[c] + 1 ELSE graph_rows[c]]
    BY <1>9 DEF Graph!Contradict
  <2>2. UNCHANGED graph_before
    BY <1>9 DEF Graph!Contradict
  <2> DEFINE C == {e[1], e[2]}
  <2> HIDE DEF C
  <2> QED  BY <1>2, <2>1, <2>2 DEF C
<1>7. ASSUME NEW S \in SUBSET Concepts, Graph!Prune(S) PROVE GraphInv'
  <2>1. UNCHANGED graph_before
        /\ (graph_rows' = graph_rows \/ graph_rows' = [c \in Concepts |-> IF c \in S THEN 0 ELSE graph_rows[c]])
    BY <1>7 DEF Graph!Prune
  <2> QED  BY <2>1 DEF GraphInv
<1>8. ASSUME Graph!OperatorAsks \/ \E v \in {"confirmed", "denied"} : Graph!OperatorResolves(v) PROVE GraphInv'
  BY <1>1, <1>8 DEF Graph!OperatorAsks, Graph!OperatorResolves, Graph!tables
<1> QED  BY <1>3, <1>4, <1>5, <1>6, <1>7, <1>8, <1>9 DEF Graph!Next

-----------------------------------------------------------------------------
(* Folders. *)

Cmds == [at : {"over", "walk", "read", "look", "delete", "add", "clear", "create"},
         todo : SUBSET Paths, cur : Paths \cup {None}, text : Nat]

FilType ==
    /\ fil_file \in [Paths -> Nat] /\ fil_edits \in Nat /\ fil_docs \in [Paths -> Seq(Nat)]
    /\ fil_cmd \in [Consoles -> Cmds] /\ fil_told \in [Paths -> Nat]

\* A version is new when it is made.
VersionsAreNew ==
    /\ \A f \in Paths : fil_told[f] <= fil_edits /\ fil_file[f] <= fil_edits
    /\ \A c \in Consoles : fil_cmd[c].text <= fil_edits

OneCommand == \A c, d \in Consoles : fil_cmd[c].at # "over" /\ fil_cmd[d].at # "over" => c = d

\* The file was counted, and is as it was then.
Counted(f) == fil_told[f] # 0 /\ fil_told[f] = fil_file[f]

\* A command has read the version that was counted, if it was, deletes the chunks of one that was
\* counted only where there are none, and adds chunks where there are none.
TextIsCurrent(r) ==
    /\ r.at \in {"read", "look", "delete", "add"} => r.cur \in Paths
    /\ r.at \in {"look", "delete", "add"} => r.text # 0 /\ (Counted(r.cur) => r.text = fil_file[r.cur])
    /\ r.at = "delete" => (Counted(r.cur) => r.text \in BlankFiles)
    /\ r.at = "add" => ~Counted(r.cur) /\ r.text \notin BlankFiles /\ fil_docs[r.cur] = << >>

FilInv ==
    /\ FilType /\ VersionsAreNew /\ OneCommand /\ \A c \in Consoles : TextIsCurrent(fil_cmd[c])
    /\ Folders!CountedIsIndexed /\ Folders!IndexedOnce
    /\ \A f \in Paths : \A i \in DOMAIN fil_docs[f] : fil_docs[f][i] \notin BlankFiles

\* What a step of one console leaves: one command, of its type, about a version that was made.
LEMMA FilTurn ==
    ASSUME FilInv, NEW c \in Consoles, NEW r \in Cmds, Folders!To(c, r), r.text <= fil_edits,
           UNCHANGED <<fil_file, fil_edits>>,
           r.at # "over" => fil_cmd[c].at # "over" \/ \A d \in Consoles : fil_cmd[d].at = "over"
    PROVE  /\ fil_cmd' \in [Consoles -> Cmds] /\ OneCommand'
           /\ \A d \in Consoles : fil_cmd'[d].text <= fil_edits'
           /\ fil_cmd'[c] = r /\ \A d \in Consoles \ {c} : fil_cmd'[d] = fil_cmd[d]
<1>1. fil_cmd \in [Consoles -> Cmds] /\ fil_cmd' = [fil_cmd EXCEPT ![c] = r]
  BY DEF FilInv, FilType, Folders!To
<1>2. fil_cmd' \in [Consoles -> Cmds]
  BY <1>1
<1>3. fil_cmd'[c] = r /\ \A d \in Consoles \ {c} : fil_cmd'[d] = fil_cmd[d]
  BY <1>1
<1>4. \A d \in Consoles : fil_cmd'[d].text <= fil_edits'
  BY <1>3 DEF FilInv, VersionsAreNew
<1>5. OneCommand'
  BY <1>3 DEF FilInv, OneCommand
<1> QED  BY <1>2, <1>3, <1>4, <1>5

\* A step that leaves the collection and what was counted.
LEMMA FilMove ==
    ASSUME FilInv, NEW c \in Consoles, NEW r \in Cmds, Folders!To(c, r), r.text <= fil_edits,
           UNCHANGED <<fil_file, fil_edits, fil_docs, fil_told>>, TextIsCurrent(r),
           r.at # "over" => fil_cmd[c].at # "over" \/ \A d \in Consoles : fil_cmd[d].at = "over"
    PROVE  FilInv'
<1>1. /\ fil_cmd' \in [Consoles -> Cmds] /\ OneCommand'
      /\ \A d \in Consoles : fil_cmd'[d].text <= fil_edits'
      /\ fil_cmd'[c] = r /\ \A d \in Consoles \ {c} : fil_cmd'[d] = fil_cmd[d]
  BY FilTurn
<1>2. \A d \in Consoles : TextIsCurrent(fil_cmd[d])'
  BY <1>1 DEF FilInv, TextIsCurrent, Counted
<1>3. FilType' /\ VersionsAreNew'
  BY <1>1 DEF FilInv, FilType, VersionsAreNew
<1>4. Folders!CountedIsIndexed' /\ Folders!IndexedOnce'
  BY DEF FilInv, Folders!CountedIsIndexed, Folders!IndexedOnce
<1> QED  BY <1>1, <1>2, <1>3, <1>4 DEF FilInv

\* A step of the one command that changes the collection or what was counted: it leaves one
\* file's chunks, which are those of the version counted, if that is the file's.
LEMMA FilWrite ==
    ASSUME FilInv, NEW c \in Consoles, NEW r \in Cmds, Folders!To(c, r), r.text <= fil_edits,
           fil_cmd[c].at # "over", TextIsCurrent(r)', UNCHANGED <<fil_file, fil_edits>>,
           NEW f \in Paths, NEW chunks \in Seq(Nat), NEW v \in Nat, v <= fil_edits,
           fil_docs' = [fil_docs EXCEPT ![f] = chunks], fil_told' = [fil_told EXCEPT ![f] = v],
           v # 0 /\ v = fil_file[f] => chunks = Folders!Expected(v),
           Len(chunks) <= 1, \A i \in DOMAIN chunks : chunks[i] \notin BlankFiles
    PROVE  FilInv'
<1>1. /\ fil_cmd' \in [Consoles -> Cmds] /\ OneCommand'
      /\ \A d \in Consoles : fil_cmd'[d].text <= fil_edits'
      /\ fil_cmd'[c] = r /\ \A d \in Consoles \ {c} : fil_cmd'[d] = fil_cmd[d]
  BY FilTurn
<1>2. \A d \in Consoles \ {c} : fil_cmd'[d].at = "over"
  BY <1>1 DEF FilInv, OneCommand
<1>3. \A d \in Consoles : TextIsCurrent(fil_cmd[d])'
  BY <1>1, <1>2 DEF TextIsCurrent
<1>4. fil_docs \in [Paths -> Seq(Nat)] /\ fil_told \in [Paths -> Nat]
  BY DEF FilInv, FilType
<1>5. /\ fil_docs'[f] = chunks /\ \A g \in Paths \ {f} : fil_docs'[g] = fil_docs[g]
      /\ fil_told'[f] = v /\ \A g \in Paths \ {f} : fil_told'[g] = fil_told[g]
      /\ fil_docs' \in [Paths -> Seq(Nat)] /\ fil_told' \in [Paths -> Nat]
  BY <1>4
<1>6. FilType' /\ VersionsAreNew'
  BY <1>1, <1>5 DEF FilInv, FilType, VersionsAreNew
<1>7. Folders!CountedIsIndexed'
  <2> SUFFICES ASSUME NEW g \in Paths, fil_told'[g] # 0, fil_told'[g] = fil_file[g]
               PROVE  fil_docs'[g] = Folders!Expected(fil_told'[g])
    BY DEF Folders!CountedIsIndexed, Folders!Absent, Folders!Expected
  <2>1. CASE g = f
    BY <1>5, <2>1
  <2>2. CASE g # f
    BY <1>5, <2>2 DEF FilInv, Folders!CountedIsIndexed, Folders!Absent
  <2> QED  BY <2>1, <2>2
<1>8. Folders!IndexedOnce'
  BY <1>5 DEF FilInv, Folders!IndexedOnce
<1>9. (\A g \in Paths : \A i \in DOMAIN fil_docs[g] : fil_docs[g][i] \notin BlankFiles)'
  BY <1>5 DEF FilInv
<1> QED  BY <1>1, <1>3, <1>6, <1>7, <1>8, <1>9 DEF FilInv

LEMMA FilStep == ASSUME FilInv, ~Overlaps, Folders!Next PROVE FilInv'
<1>1. FilType /\ VersionsAreNew /\ OneCommand /\ Folders!CountedIsIndexed /\ Folders!IndexedOnce
  BY DEF FilInv
<1>2. \A c \in Consoles : /\ TextIsCurrent(fil_cmd[c])
                          /\ fil_cmd[c].text \in Nat /\ fil_cmd[c].text <= fil_edits
                          /\ fil_cmd[c].todo \subseteq Paths /\ fil_cmd[c] \in Cmds
  BY DEF FilInv, FilType, Cmds, VersionsAreNew
<1>3. Folders!Over \in Cmds /\ Folders!Over.text = 0 /\ Folders!Over.at = "over"
      /\ TextIsCurrent(Folders!Over)
  BY DEF Folders!Over, Cmds, TextIsCurrent
<1>4. \A c \in Consoles : LET r == Folders!Walking(fil_cmd[c])
                          IN  r \in Cmds /\ r.text = 0 /\ r.at = "walk" /\ TextIsCurrent(r)
  BY <1>2 DEF Folders!Walking, Cmds, TextIsCurrent
<1>5. ASSUME NEW f \in Paths, NEW v \in Nat, fil_file' = [fil_file EXCEPT ![f] = v], v = 0 \/ v = fil_edits',
             fil_edits' = fil_edits \/ (v # 0 /\ fil_edits' = fil_edits + 1), fil_edits' # fil_edits \/ v = 0,
             UNCHANGED <<fil_docs, fil_cmd, fil_told>>
      PROVE  FilInv'
  <2>1. fil_file'[f] = v /\ \A g \in Paths \ {f} : fil_file'[g] = fil_file[g]
    BY <1>1, <1>5 DEF FilType
  <2>2. FilType'
    BY <1>1, <1>5 DEF FilType
  <2>3. VersionsAreNew'
    BY <1>1, <1>5, <2>1 DEF VersionsAreNew, FilType, Cmds
  <2>4. ~Counted(f)' /\ \A g \in Paths \ {f} : Counted(g)' = Counted(g)
    BY <1>1, <1>5, <2>1 DEF Counted, VersionsAreNew, FilType
  <2>5. \A c \in Consoles : TextIsCurrent(fil_cmd[c])'
    <3> SUFFICES ASSUME NEW c \in Consoles PROVE TextIsCurrent(fil_cmd[c])'
      OBVIOUS
    <3>1. TextIsCurrent(fil_cmd[c]) /\ UNCHANGED fil_cmd[c] /\ UNCHANGED fil_docs
      BY <1>2, <1>5
    <3> QED  BY <2>1, <2>4, <3>1 DEF TextIsCurrent
  <2>6. Folders!CountedIsIndexed' /\ Folders!IndexedOnce' /\ OneCommand'
    BY <1>1, <1>5, <2>1, <2>4
       DEF Folders!CountedIsIndexed, Folders!IndexedOnce, Folders!Absent, Counted, OneCommand
  <2> QED  BY <1>5, <2>2, <2>3, <2>5, <2>6 DEF FilInv
<1>6. ASSUME NEW f \in Paths, Folders!Edit(f) PROVE FilInv'
  <2>1. fil_edits \in Nat /\ fil_edits + 1 \in Nat /\ fil_edits + 1 # 0 /\ fil_edits + 1 # fil_edits
    BY <1>1 DEF FilType
  <2>2. fil_edits' = fil_edits + 1 /\ fil_file' = [fil_file EXCEPT ![f] = fil_edits + 1]
        /\ UNCHANGED <<fil_docs, fil_cmd, fil_told>>
    BY <1>6 DEF Folders!Edit, Folders!Collection
  <2> QED  BY <1>5, <2>1, <2>2
<1>7. ASSUME NEW f \in Paths, Folders!Remove(f) PROVE FilInv'
  BY <1>5, <1>7 DEF Folders!Remove, Folders!Collection, Folders!Absent
<1>8. ASSUME NEW c \in Consoles, Folders!IndexFolder(c) \/ Folders!Clear(c) PROVE FilInv'
  <2>1. \A d \in Consoles : fil_cmd[d].at = "over"
    BY <1>8 DEF Folders!IndexFolder, Folders!Clear, Folders!Type
  <2>2. PICK r : Folders!Type(c, r) /\ r \in Cmds /\ r.text = 0 /\ r.at \in {"walk", "clear"}
    <3>1. CASE Folders!Clear(c)
      BY <3>1 DEF Folders!Clear, Folders!Over, Cmds
    <3>2. CASE Folders!IndexFolder(c)
      <4> DEFINE T == {f \in Paths : fil_file[f] # Folders!Absent}
      <4>1. Folders!Type(c, [at |-> "walk", todo |-> T, cur |-> None, text |-> 0])
        BY <3>2 DEF Folders!IndexFolder
      <4>2. T \subseteq Paths
        OBVIOUS
      <4> HIDE DEF T
      <4>3. [at |-> "walk", todo |-> T, cur |-> None, text |-> 0] \in Cmds
        BY <4>2 DEF Cmds
      <4> QED  BY <4>1, <4>3
    <3> QED  BY <1>8, <3>1, <3>2
  <2>3. TextIsCurrent(r) /\ r.text <= fil_edits
    BY <1>1, <2>2 DEF TextIsCurrent, FilType
  <2>4. Folders!To(c, r) /\ UNCHANGED <<fil_file, fil_edits, fil_docs, fil_told>>
    BY <2>2 DEF Folders!Type, Folders!Files, Folders!Collection
  <2> QED  BY <2>1, <2>2, <2>3, <2>4, FilMove
<1>9. ASSUME NEW c \in Consoles, NEW f \in Paths, Folders!Walk(c, f) PROVE FilInv'
  <2> DEFINE w == [fil_cmd[c] EXCEPT !.todo = @ \ {f}]
             x == [w EXCEPT !.at = "read", !.cur = f]
  <2>1. w \in Cmds /\ w.text = fil_cmd[c].text /\ w.at = fil_cmd[c].at
    BY <1>2 DEF Cmds
  <2>2. x \in Cmds /\ x.text = fil_cmd[c].text /\ x.at = "read" /\ x.cur = f
    BY <2>1 DEF Cmds
  <2>3. fil_cmd[c].at = "walk" /\ UNCHANGED <<fil_file, fil_edits, fil_docs, fil_told>>
        /\ (Folders!To(c, Folders!Over) \/ Folders!To(c, w) \/ Folders!To(c, x))
    BY <1>9 DEF Folders!Walk, Folders!Files, Folders!Collection
  <2>4. TextIsCurrent(w) /\ TextIsCurrent(x)
    <3> HIDE DEF w, x
    <3> QED  BY <2>1, <2>2, <2>3 DEF TextIsCurrent
  <2>5. 0 <= fil_edits /\ w.text <= fil_edits /\ x.text <= fil_edits
    <3> HIDE DEF w, x
    <3> QED  BY <1>1, <1>2, <2>1, <2>2 DEF FilType
  <2> HIDE DEF w, x
  <2>6. CASE Folders!To(c, Folders!Over)
    BY <1>3, <2>3, <2>5, <2>6, FilMove
  <2>7. CASE Folders!To(c, w)
    BY <2>1, <2>3, <2>4, <2>5, <2>7, FilMove
  <2>8. CASE Folders!To(c, x)
    BY <2>2, <2>3, <2>4, <2>5, <2>8, FilMove
  <2> QED  BY <2>3, <2>6, <2>7, <2>8
<1>10. ASSUME NEW c \in Consoles, fil_cmd[c].at # "over", Folders!To(c, Folders!Walking(fil_cmd[c])),
              UNCHANGED <<fil_file, fil_edits, fil_docs, fil_told>>
       PROVE  FilInv'
  BY <1>1, <1>4, <1>10, FilMove DEF FilType
<1>11. ASSUME NEW c \in Consoles, Folders!ReadText(c) PROVE FilInv'
  <2> DEFINE r == [fil_cmd[c] EXCEPT !.at = "look", !.text = fil_file[fil_cmd[c].cur]]
  <2>1. /\ fil_cmd[c].at = "read" /\ UNCHANGED <<fil_file, fil_edits, fil_docs, fil_told>>
        /\ Folders!To(c, IF fil_file[fil_cmd[c].cur] = 0 THEN Folders!Walking(fil_cmd[c]) ELSE r)
    BY <1>11 DEF Folders!ReadText, Folders!Files, Folders!Collection, Folders!Absent
  <2>2. CASE fil_file[fil_cmd[c].cur] = 0
    BY <1>10, <2>1, <2>2
  <2>3. CASE fil_file[fil_cmd[c].cur] # 0
    <3>1. fil_cmd[c].cur \in Paths
      BY <1>2, <2>1 DEF TextIsCurrent
    <3>2. fil_file[fil_cmd[c].cur] \in Nat /\ fil_file[fil_cmd[c].cur] <= fil_edits
      BY <1>1, <3>1 DEF FilType, VersionsAreNew
    <3>3. r \in Cmds /\ r.at = "look" /\ r.cur = fil_cmd[c].cur /\ r.text = fil_file[fil_cmd[c].cur]
      BY <1>2, <3>2 DEF Cmds
    <3> HIDE DEF r
    <3>4. TextIsCurrent(r)
      BY <2>3, <3>1, <3>3 DEF TextIsCurrent
    <3> QED  BY <2>1, <2>3, <3>2, <3>3, <3>4, FilMove
  <2> QED  BY <2>2, <2>3
<1>12. ASSUME NEW c \in Consoles, Folders!Unreachable(c) PROVE FilInv'
  BY <1>10, <1>12 DEF Folders!Unreachable, Folders!Files, Folders!Collection
<1>13. ASSUME NEW c \in Consoles, fil_cmd[c].at \in {"look", "delete", "add"}
       PROVE  /\ fil_cmd[c].cur \in Paths /\ fil_cmd[c].text # 0
              /\ fil_cmd[c].text \in Nat /\ fil_cmd[c].text <= fil_edits
              /\ fil_docs[fil_cmd[c].cur] \in Seq(Nat) /\ Len(fil_docs[fil_cmd[c].cur]) <= 1
              /\ \A i \in DOMAIN fil_docs[fil_cmd[c].cur] : fil_docs[fil_cmd[c].cur][i] \notin BlankFiles
  BY <1>1, <1>2, <1>13 DEF TextIsCurrent, FilType, Folders!IndexedOnce, FilInv
<1>14. ASSUME NEW c \in Consoles, Folders!Unchanged(c) PROVE FilInv'
  <2> DEFINE f == fil_cmd[c].cur
             v == fil_cmd[c].text
             d == fil_docs[f]
  <2>1. /\ fil_cmd[c].at = "look" /\ UNCHANGED <<fil_file, fil_edits, fil_docs>>
        /\ \E i \in DOMAIN d : d[i] = v
        /\ Folders!To(c, Folders!Walking(fil_cmd[c])) /\ fil_told' = [fil_told EXCEPT ![f] = v]
    BY <1>14 DEF Folders!Unchanged, Folders!Files, Folders!Collection, Folders!Count
  <2>2. f \in Paths /\ v \in Nat /\ v <= fil_edits /\ d \in Seq(Nat) /\ Len(d) <= 1
        /\ \A i \in DOMAIN d : d[i] \notin BlankFiles
    BY <1>13, <2>1
  <2>3. d = Folders!Expected(v)
    <3>1. PICK i \in DOMAIN d : d[i] = v
      BY <2>1
    <3>2. i = 1 /\ Len(d) = 1
      <4>1. DOMAIN d = 1..Len(d) /\ Len(d) \in Nat
        BY <2>2
      <4> HIDE DEF d
      <4> QED  BY <2>2, <3>1, <4>1
    <3>3. v \notin BlankFiles
      BY <2>2, <3>1
    <3>4. d = <<v>>
      BY <2>2, <3>1, <3>2
    <3> QED  BY <3>3, <3>4 DEF Folders!Expected
  <2>4. fil_docs' = [fil_docs EXCEPT ![f] = d]
    BY <1>1, <2>1, <2>2 DEF FilType
  <2>5. PICK r \in Cmds : r = Folders!Walking(fil_cmd[c]) /\ r.at = "walk" /\ r.text <= fil_edits
    BY <1>1, <1>4 DEF FilType
  <2>6. TextIsCurrent(r)'
    BY <2>5 DEF TextIsCurrent
  <2> HIDE DEF f, v, d
  <2>7. v # 0 /\ v = fil_file[f] => d = Folders!Expected(v)
    BY <2>3
  <2> QED  BY <2>1, <2>2, <2>4, <2>5, <2>6, <2>7, FilWrite
<1>15. ASSUME NEW c \in Consoles, Folders!Changed(c) PROVE FilInv'
  <2> DEFINE r == [fil_cmd[c] EXCEPT !.at = "delete"]
             f == fil_cmd[c].cur
             v == fil_cmd[c].text
             d == fil_docs[f]
  <2>1. /\ fil_cmd[c].at = "look" /\ UNCHANGED <<fil_file, fil_edits, fil_docs, fil_told>>
        /\ (d = << >> \/ \E i \in DOMAIN d : d[i] # v) /\ Folders!To(c, r)
    BY <1>15 DEF Folders!Changed, Folders!Files, Folders!Collection
  <2>2. r \in Cmds /\ r.at = "delete" /\ r.cur = f /\ r.text = v
    BY <1>2 DEF Cmds
  <2>3. f \in Paths /\ v # 0 /\ (Counted(f) => v = fil_file[f]) /\ v <= fil_edits
    BY <1>2, <2>1 DEF TextIsCurrent
  <2>4. ASSUME Counted(f) PROVE v \in BlankFiles
    <3>1. d = Folders!Expected(v)
      BY <1>1, <2>3, <2>4 DEF Folders!CountedIsIndexed, Counted, Folders!Absent
    <3>2. CASE v \notin BlankFiles
      <4>1. d = <<v>>
        BY <3>1, <3>2 DEF Folders!Expected
      <4>2. d # << >> /\ \A i \in DOMAIN d : d[i] = v
        BY <4>1
      <4> QED  BY <2>1, <4>2
    <3> QED  BY <3>2
  <2> HIDE DEF r, f, v, d
  <2>5. TextIsCurrent(r)
    BY <2>2, <2>3, <2>4 DEF TextIsCurrent
  <2> QED  BY <2>1, <2>2, <2>3, <2>5, FilMove
<1>16. ASSUME NEW c \in Consoles, Folders!Delete(c) PROVE FilInv'
  <2> DEFINE r == [fil_cmd[c] EXCEPT !.at = "add"]
             f == fil_cmd[c].cur
             v == fil_cmd[c].text
  <2>1. /\ fil_cmd[c].at = "delete" /\ UNCHANGED <<fil_file, fil_edits>>
        /\ fil_docs' = [fil_docs EXCEPT ![f] = << >>]
        /\ IF v \in BlankFiles
           THEN Folders!To(c, Folders!Walking(fil_cmd[c])) /\ fil_told' = [fil_told EXCEPT ![f] = v]
           ELSE Folders!To(c, r) /\ UNCHANGED fil_told
    BY <1>16 DEF Folders!Delete, Folders!Files, Folders!Count
  <2>2. r \in Cmds /\ r.at = "add" /\ r.cur = f /\ r.text = v
    BY <1>2 DEF Cmds
  <2>3. f \in Paths /\ v \in Nat /\ v # 0 /\ v <= fil_edits /\ (Counted(f) => v \in BlankFiles)
    BY <1>2, <2>1 DEF TextIsCurrent
  <2>4. PICK w \in Cmds : w = Folders!Walking(fil_cmd[c]) /\ w.at = "walk" /\ w.text <= fil_edits
    BY <1>1, <1>4 DEF FilType
  <2>8. TextIsCurrent(w)'
    BY <2>4 DEF TextIsCurrent
  <2>5. << >> \in Seq(Nat) /\ Len(<< >>) <= 1 /\ DOMAIN << >> = {}
    BY EmptySeq
  <2> HIDE DEF r, f, v
  <2>6. CASE v \in BlankFiles
    <3>1. << >> = Folders!Expected(v)
      BY <2>6 DEF Folders!Expected
    <3> DEFINE none == << >>
    <3>2. fil_docs' = [fil_docs EXCEPT ![f] = none] /\ none \in Seq(Nat) /\ Len(none) <= 1
          /\ (\A i \in DOMAIN none : none[i] \notin BlankFiles) /\ none = Folders!Expected(v)
      BY <2>1, <2>5, <3>1
    <3> HIDE DEF none
    <3> QED  BY <2>1, <2>3, <2>4, <2>6, <2>8, <3>2, FilWrite
  <2>7. CASE v \notin BlankFiles
    <3>1. fil_told' = [fil_told EXCEPT ![f] = fil_told[f]] /\ fil_told[f] \in Nat /\ fil_told[f] <= fil_edits
      BY <1>1, <2>1, <2>3, <2>7 DEF FilType, VersionsAreNew
    <3>2. ~(fil_told[f] # 0 /\ fil_told[f] = fil_file[f])
      BY <2>3, <2>7 DEF Counted
    <3>3. fil_docs'[f] = << >> /\ UNCHANGED fil_told /\ UNCHANGED fil_file
      BY <1>1, <2>1, <2>3, <2>7 DEF FilType
    <3>4. PICK a \in Cmds : a = r /\ a.at = "add" /\ a.cur = f /\ a.text = v
      BY <2>2
    <3>5. TextIsCurrent(a)'
      <4>1. a.cur \in Paths /\ a.text # 0 /\ a.text \notin BlankFiles
            /\ ~(fil_told'[a.cur] # 0 /\ fil_told'[a.cur] = fil_file'[a.cur]) /\ fil_docs'[a.cur] = << >>
        BY <2>3, <2>7, <3>2, <3>3, <3>4
      <4> QED  BY <3>4, <4>1 DEF TextIsCurrent, Counted
    <3> DEFINE none == << >>
    <3>6. fil_docs' = [fil_docs EXCEPT ![f] = none] /\ none \in Seq(Nat) /\ Len(none) <= 1
          /\ (\A i \in DOMAIN none : none[i] \notin BlankFiles)
      BY <2>1, <2>5
    <3>7. Folders!To(c, a) /\ a.text <= fil_edits
      BY <2>1, <2>3, <2>7, <3>4
    <3> HIDE DEF none
    <3> QED  BY <2>1, <2>3, <3>1, <3>2, <3>4, <3>5, <3>6, <3>7, FilWrite
  <2> QED  BY <2>6, <2>7
<1>17. ASSUME NEW c \in Consoles, Folders!Add(c) PROVE FilInv'
  <2> DEFINE f == fil_cmd[c].cur
             v == fil_cmd[c].text
  <2>1. /\ fil_cmd[c].at = "add" /\ UNCHANGED <<fil_file, fil_edits>>
        /\ fil_docs' = [fil_docs EXCEPT ![f] = Append(fil_docs[f], v)]
        /\ Folders!To(c, Folders!Walking(fil_cmd[c])) /\ fil_told' = [fil_told EXCEPT ![f] = v]
    BY <1>17 DEF Folders!Add, Folders!Files, Folders!Count
  <2>2. f \in Paths /\ v \in Nat /\ v <= fil_edits /\ v \notin BlankFiles /\ fil_docs[f] = << >>
    BY <1>2, <2>1 DEF TextIsCurrent
  <2>3. Append(fil_docs[f], v) = <<v>> /\ <<v>> \in Seq(Nat) /\ Len(<<v>>) <= 1
        /\ \A i \in DOMAIN <<v>> : <<v>>[i] \notin BlankFiles
    BY <2>2
  <2>4. <<v>> = Folders!Expected(v)
    BY <2>2 DEF Folders!Expected
  <2>5. PICK w \in Cmds : w = Folders!Walking(fil_cmd[c]) /\ w.at = "walk" /\ w.text <= fil_edits
    BY <1>1, <1>4 DEF FilType
  <2>7. TextIsCurrent(w)'
    BY <2>5 DEF TextIsCurrent
  <2> HIDE DEF f, v
  <2> DEFINE chunks == <<v>>
  <2>6. fil_docs' = [fil_docs EXCEPT ![f] = chunks] /\ chunks \in Seq(Nat) /\ Len(chunks) <= 1
        /\ (\A i \in DOMAIN chunks : chunks[i] \notin BlankFiles) /\ chunks = Folders!Expected(v)
    BY <2>1, <2>3, <2>4
  <2> HIDE DEF chunks
  <2> QED  BY <2>1, <2>2, <2>5, <2>6, <2>7, FilWrite
<1>18. ASSUME NEW c \in Consoles, Folders!Indexed(c) \/ Folders!Create(c) \/ Folders!Restart(c) PROVE FilInv'
  <2>1. Folders!To(c, Folders!Over) /\ UNCHANGED <<fil_file, fil_edits, fil_docs, fil_told>>
    BY <1>18
       DEF Folders!Indexed, Folders!Create, Folders!Restart, Folders!Open, Folders!Files,
           Folders!Collection
  <2> QED  BY <1>1, <1>3, <2>1, FilMove DEF FilType
<1>19. ASSUME NEW c \in Consoles, Folders!DeleteCollection(c) PROVE FilInv'
  <2>1. /\ fil_cmd[c].at = "clear" /\ UNCHANGED <<fil_file, fil_edits>>
        /\ fil_docs' = [f \in Paths |-> << >>] /\ fil_told' = [f \in Paths |-> 0]
        /\ (Folders!To(c, Folders!Over) \/ Folders!To(c, [fil_cmd[c] EXCEPT !.at = "create"]))
    BY <1>19 DEF Folders!DeleteCollection, Folders!Files, Folders!Nothing, Folders!Absent
  <2>2. PICK r \in {Folders!Over, [fil_cmd[c] EXCEPT !.at = "create"]} : Folders!To(c, r)
    BY <2>1
  <2>3. r \in Cmds /\ r.at \in {"over", "create"} /\ r.text <= fil_edits
    <3>1. fil_edits \in Nat
      BY <1>1 DEF FilType
    <3>2. CASE r = Folders!Over
      BY <1>3, <3>1, <3>2
    <3>3. CASE r = [fil_cmd[c] EXCEPT !.at = "create"]
      BY <1>2, <3>3 DEF Cmds
    <3> QED  BY <3>2, <3>3
  <2>4. /\ fil_cmd' \in [Consoles -> Cmds] /\ OneCommand'
        /\ \A d \in Consoles : fil_cmd'[d].text <= fil_edits'
        /\ fil_cmd'[c] = r /\ \A d \in Consoles \ {c} : fil_cmd'[d] = fil_cmd[d]
    BY <2>1, <2>2, <2>3, FilTurn
  <2>5. \A d \in Consoles : fil_cmd'[d].at \in {"over", "create"}
    BY <1>1, <2>1, <2>3, <2>4 DEF OneCommand
  <2>6. \A d \in Consoles : TextIsCurrent(fil_cmd[d])'
    BY <2>5 DEF TextIsCurrent
  <2>7. << >> \in Seq(Nat) /\ Len(<< >>) = 0 /\ DOMAIN << >> = {}
    BY EmptySeq
  <2>8. FilType' /\ VersionsAreNew'
    BY <1>1, <2>1, <2>4, <2>7 DEF FilType, VersionsAreNew
  <2>9. Folders!CountedIsIndexed' /\ Folders!IndexedOnce'
        /\ (\A f \in Paths : \A i \in DOMAIN fil_docs[f] : fil_docs[f][i] \notin BlankFiles)'
    BY <2>1, <2>7 DEF Folders!CountedIsIndexed, Folders!IndexedOnce, Folders!Absent
  <2> QED  BY <2>4, <2>6, <2>8, <2>9 DEF FilInv
<1> QED
  BY <1>6, <1>7, <1>8, <1>9, <1>11, <1>12, <1>14, <1>15, <1>16, <1>17, <1>18, <1>19 DEF Folders!Next

-----------------------------------------------------------------------------
(* Trajectories. *)

Ats == {"off", "ask", "insert", "script", "mark", "load", "distill", "goals", "spawn",
        "remember", "record", "notify", "close"}
Ticks == [at : Ats, by : {"tick", "genesis", "distill"}, it : Goals \cup Trajectories \cup {None},
          name : Titles \cup Aims!Verdicts \cup {None}, script : BOOLEAN]

\* A skill is being made, from its file to the mark.
Writing == {"insert", "script", "mark"}

\* A synthesis is about a trajectory without a mark, and what it is to be marked with is a verdict
\* or a skill that has its row.
Aware(r) ==
    /\ r.at \in Writing \cup {"ask"} => r.it \in Trajectories /\ goal_marks[r.it] = None
    /\ r.at \in {"insert", "script"} => r.name \in Titles
    /\ r.at = "mark" => r.name # None
    /\ r.at \in {"script", "mark"} /\ r.name \in Titles => r.name \in goal_recorded[r.it]

GoalType ==
    /\ goal_tick \in Ticks /\ goal_marks \in [Trajectories -> Titles \cup Aims!Verdicts \cup {None}]
    /\ goal_made \in [Trajectories -> SUBSET Titles] /\ goal_recorded \in [Trajectories -> SUBSET Titles]

\* Without a mark, and unless a write failed, a trajectory has become a skill only in the synthesis
\* that is under way.
GoalInv ==
    /\ GoalType /\ Aware(goal_tick)
    /\ \A t \in Trajectories \ goal_broken :
          /\ goal_made[t] = {} \/ \E n \in Titles : goal_made[t] = {n}
          /\ goal_marks[t] = None /\ goal_made[t] # {} => goal_tick.it = t /\ goal_tick.at \in Writing
    /\ \A t \in Trajectories : goal_marks[t] \in Titles => goal_marks[t] \in goal_recorded[t]

\* A step that writes nothing about a trajectory; a synthesis goes on with the same one.
LEMMA GoalMove ==
    ASSUME GoalInv, NEW r \in Ticks, goal_tick' = r, Aware(r),
           UNCHANGED <<goal_marks, goal_made, goal_recorded, goal_broken>>,
           goal_tick.at \in Writing => r.at \in Writing /\ r.it = goal_tick.it
    PROVE  GoalInv'
BY DEF GoalInv, GoalType, Aware

LEMMA TickSteps ==
    ASSUME GoalInv, NEW a \in Ats
    PROVE  /\ [goal_tick EXCEPT !.at = a] \in Ticks /\ [goal_tick EXCEPT !.at = a].at = a
           /\ [goal_tick EXCEPT !.at = a].it = goal_tick.it /\ [goal_tick EXCEPT !.at = a].name = goal_tick.name
BY DEF GoalInv, GoalType, Ticks

LEMMA GoalThen ==
    ASSUME GoalInv, Aims!Then
    PROVE  goal_tick' \in Ticks /\ goal_tick'.at \in {"distill", "goals"} /\ goal_tick'.it = goal_tick.it
<1>1. "distill" \in Ats /\ "goals" \in Ats
  BY DEF Ats
<1> QED  BY <1>1, TickSteps DEF Aims!Then, Aims!Step

LEMMA OldestOf ==
    ASSUME NEW S, S \subseteq Nat, S # {}
    PROVE  Aims!Min(S) \in S
BY LeastOf DEF Aims!Min

LEMMA GoalStep == ASSUME GoalInv, Aims!Next PROVE GoalInv'
<1>1. GoalType /\ Aware(goal_tick)
  BY DEF GoalInv
<1>a. Goals \cup Trajectories \subseteq Nat /\ Goals \cap Trajectories = {} /\ None \notin Titles
      /\ Aims!Verdicts \cap (Titles \cup {None}) = {}
  BY KeepingAssumption DEF KeepingAssumption, Aims!GoalsAssumption, Aims!Verdicts
<1>b. Aims!Off \in Ticks /\ Aims!Off.at = "off" /\ Aware(Aims!Off)
  BY DEF Aims!Off, Ticks, Ats, Aware, Writing
<1>2. ASSUME UNCHANGED <<goal_tick, goal_marks, goal_made, goal_recorded, goal_broken>> PROVE GoalInv'
  BY <1>2 DEF GoalInv, GoalType, Aware
<1>3. ASSUME \/ Aims!BeginTurn \/ (\E b \in Aims!Batches : Aims!ProcessGoals(b))
             \/ (\E c \in BOOLEAN : Aims!EndTurn(c)) \/ Aims!Cool
             \/ \E g \in Goals : \/ \E v \in Aims!Novelties : Aims!Synthesize(g, v)
                                 \/ Aims!NoSynthesis(g) \/ Aims!Synthesized(g)
                                 \/ \E how \in {"done", "failed"} : Aims!WorkerEnds(g, how)
             \/ \E n \in Titles : Aims!Manage(n)
      PROVE  GoalInv'
  BY <1>2, <1>3
     DEF Aims!BeginTurn, Aims!ProcessGoals, Aims!EndTurn, Aims!Cool, Aims!Synthesize,
         Aims!NoSynthesis,
                    Aims!Synthesized, Aims!WorkerEnds, Aims!Manage, Aims!tickVars
<1>4. ASSUME NEW by \in {"genesis", "distill"}, Aims!Pick(by), goal_tick.at \notin Writing,
             UNCHANGED <<goal_marks, goal_made, goal_recorded, goal_broken>>
      PROVE  GoalInv'
  <2>1. CASE Aims!Unmarked = {} \/ (by = "distill" /\ ~Distils)
    <3>1. PICK a \in {"distill", "goals"} : goal_tick' = [Aims!Off EXCEPT !.at = a, !.by = by]
      BY <1>4, <2>1 DEF Aims!Pick
    <3>2. goal_tick' \in Ticks /\ goal_tick'.at = a
      BY <1>4, <3>1 DEF Aims!Off, Ticks, Ats
    <3>3. PICK r \in Ticks : r = goal_tick' /\ r.at = a
      BY <3>2
    <3>4. Aware(r)
      BY <3>3 DEF Aware, Writing
    <3> QED  BY <1>4, <3>3, <3>4, GoalMove
  <2>2. CASE ~(Aims!Unmarked = {} \/ (by = "distill" /\ ~Distils))
    <3> DEFINE t == Aims!Min(Aims!Unmarked)
    <3>1. t \in Trajectories /\ goal_marks[t] = None
      <4>1. Aims!Unmarked \subseteq Nat
        BY <1>a DEF Aims!Unmarked
      <4>2. t \in Aims!Unmarked
        BY <2>2, <4>1, OldestOf
      <4> HIDE DEF t
      <4> QED  BY <4>2 DEF Aims!Unmarked
    <3>2. PICK a \in {"mark", "ask"}, n \in {"skipped", None} :
             /\ goal_tick' = [Aims!Off EXCEPT !.by = by, !.it = t, !.at = a, !.name = n]
             /\ a = "mark" => n = "skipped"
      BY <1>4, <2>2 DEF Aims!Pick
    <3> HIDE DEF t
    <3>3. goal_tick' \in Ticks /\ goal_tick'.at = a /\ goal_tick'.it = t /\ goal_tick'.name = n
      BY <1>4, <3>1, <3>2 DEF Aims!Off, Ticks, Ats, Aims!Verdicts
    <3>4. PICK r \in Ticks : r = goal_tick' /\ r.at = a /\ r.it = t /\ r.name = n
      BY <3>3
    <3>5. Aware(r)
      BY <1>a, <3>1, <3>2, <3>4 DEF Aware, Writing, Aims!Verdicts
    <3> QED  BY <1>4, <3>4, <3>5, GoalMove
  <2> QED  BY <2>1, <2>2
<1>5. ASSUME Aims!StartTick \/ Aims!StartDistill PROVE GoalInv'
  BY <1>4, <1>5 DEF Aims!StartTick, Aims!StartDistill, Writing
<1>6. ASSUME goal_tick' \in Ticks, goal_tick'.at \notin Writing \cup {"ask"}, goal_tick.at \notin Writing,
             UNCHANGED <<goal_marks, goal_made, goal_recorded, goal_broken>>
      PROVE  GoalInv'
  <2>1. PICK r \in Ticks : r = goal_tick'
    BY <1>6
  <2>2. Aware(r)
    BY <1>6, <2>1 DEF Aware, Writing
  <2> QED  BY <1>6, <2>1, <2>2, GoalMove
<1>7. ASSUME Aims!Then, goal_tick.at \notin Writing, UNCHANGED <<goal_marks, goal_made, goal_recorded, goal_broken>>
      PROVE  GoalInv'
  BY <1>6, <1>7, GoalThen DEF Writing
<1>8. ASSUME goal_tick.at = "ask", NEW v \in Aims!Verdicts, goal_tick' = [goal_tick EXCEPT !.at = "mark", !.name = v],
             UNCHANGED <<goal_marks, goal_made, goal_recorded, goal_broken>>
      PROVE  GoalInv'
  <2>1. goal_tick' \in Ticks /\ goal_tick'.at = "mark" /\ goal_tick'.it = goal_tick.it /\ goal_tick'.name = v
    BY <1>1, <1>8 DEF GoalType, Ticks, Ats
  <2>2. PICK r \in Ticks : r = goal_tick' /\ r.at = "mark" /\ r.it = goal_tick.it /\ r.name = v
    BY <2>1
  <2>3. Aware(r)
    BY <1>1, <1>a, <1>8, <2>2 DEF Aware, Writing
  <2> QED  BY <1>8, <2>2, <2>3, GoalMove DEF Writing
<1>9. ASSUME NEW n \in Titles, NEW s \in BOOLEAN, NEW v \in Aims!Novelties, Aims!Asked(n, s, v) PROVE GoalInv'
  <2>1. goal_tick.at = "ask" /\ UNCHANGED <<goal_marks, goal_recorded, goal_broken>>
    BY <1>9 DEF Aims!Asked
  <2>2. CASE Aims!Admitted(goal_tick.by, v)
    <3> DEFINE t == goal_tick.it
    <3>1. /\ goal_made' = [goal_made EXCEPT ![t] = @ \cup {n}]
          /\ goal_tick' = [goal_tick EXCEPT !.at = "insert", !.name = n, !.script = s]
      BY <1>9, <2>2 DEF Aims!Asked
    <3>2. t \in Trajectories /\ goal_marks[t] = None
      BY <1>1, <2>1 DEF Aware
    <3>3. \A u \in Trajectories \ goal_broken : goal_marks[u] = None => goal_made[u] = {}
      BY <2>1 DEF GoalInv, Writing
    <3>4. goal_tick' \in Ticks /\ goal_tick'.at = "insert" /\ goal_tick'.it = t /\ goal_tick'.name = n
      BY <1>1, <3>1 DEF GoalType, Ticks, Ats
    <3> HIDE DEF t
    <3>5. /\ goal_made' \in [Trajectories -> SUBSET Titles] /\ goal_made'[t] = goal_made[t] \cup {n}
          /\ \A u \in Trajectories \ {t} : goal_made'[u] = goal_made[u]
      BY <1>1, <3>1, <3>2 DEF GoalType
    <3>6. GoalType'
      BY <1>1, <2>1, <3>4, <3>5 DEF GoalType
    <3>7. Aware(goal_tick)'
      BY <2>1, <3>2, <3>4 DEF Aware, Writing
    <3>8. ASSUME NEW u \in Trajectories \ goal_broken
          PROVE  /\ goal_made'[u] = {} \/ \E m \in Titles : goal_made'[u] = {m}
                 /\ goal_marks'[u] = None /\ goal_made'[u] # {} => goal_tick'.it = u /\ goal_tick'.at \in Writing
      <4>1. CASE u = t
        <5>1. goal_made'[u] = {n}
          BY <3>2, <3>3, <3>5, <4>1
        <5> QED  BY <3>4, <4>1, <5>1 DEF Writing
      <4>2. CASE u # t
        <5>1. goal_made'[u] = goal_made[u] /\ goal_marks'[u] = goal_marks[u]
          BY <2>1, <3>5, <4>2
        <5> QED  BY <3>3, <5>1 DEF GoalInv
      <4> QED  BY <4>1, <4>2
    <3> QED  BY <2>1, <3>6, <3>7, <3>8 DEF GoalInv
  <2>3. CASE ~Aims!Admitted(goal_tick.by, v)
    <3>1. /\ UNCHANGED goal_made
          /\ goal_tick' = [goal_tick EXCEPT !.at = "mark", !.name = "rejected"] \/ Aims!Then
      BY <1>9, <2>3 DEF Aims!Asked
    <3>2. "rejected" \in Aims!Verdicts
      BY DEF Aims!Verdicts
    <3> QED  BY <1>7, <1>8, <2>1, <3>1, <3>2 DEF Writing
  <2> QED  BY <2>2, <2>3
<1>10. ASSUME NEW u \in BOOLEAN, Aims!NotAsked(u) PROVE GoalInv'
  <2>1. /\ goal_tick.at = "ask" /\ UNCHANGED <<goal_marks, goal_made, goal_recorded, goal_broken>>
        /\ goal_tick' = [goal_tick EXCEPT !.at = "mark", !.name = "unsafe"] \/ Aims!Then
    BY <1>10 DEF Aims!NotAsked
  <2>2. "unsafe" \in Aims!Verdicts
    BY DEF Aims!Verdicts
  <2> QED  BY <1>7, <1>8, <2>1, <2>2 DEF Writing
<1>11. ASSUME NEW ok \in BOOLEAN, Aims!InsertRow(ok) PROVE GoalInv'
  <2> DEFINE t == goal_tick.it
             n == goal_tick.name
  <2>1. goal_tick.at = "insert" /\ UNCHANGED <<goal_marks, goal_made>>
    BY <1>11 DEF Aims!InsertRow
  <2>2. t \in Trajectories /\ goal_marks[t] = None /\ n \in Titles
    BY <1>1, <2>1 DEF Aware, Writing
  <2>3. CASE ok
    <3>1. goal_recorded' = [goal_recorded EXCEPT ![t] = @ \cup {n}] /\ UNCHANGED goal_broken
          /\ goal_tick' = [goal_tick EXCEPT !.at = "script"]
      BY <1>11, <2>3 DEF Aims!InsertRow, Aims!Step
    <3>2. "script" \in Ats
      BY DEF Ats
    <3>3. goal_tick' \in Ticks /\ goal_tick'.at = "script" /\ goal_tick'.it = t /\ goal_tick'.name = n
      BY <3>1, <3>2, TickSteps
    <3> HIDE DEF t, n
    <3>4. /\ goal_recorded' \in [Trajectories -> SUBSET Titles] /\ n \in goal_recorded'[t]
          /\ \A u \in Trajectories : goal_recorded[u] \subseteq goal_recorded'[u]
      BY <1>1, <2>2, <3>1 DEF GoalType
    <3>5. GoalType' /\ Aware(goal_tick)'
      BY <1>1, <2>1, <2>2, <3>3, <3>4 DEF GoalType, Aware, Writing
    <3>6. \A u \in Trajectories \ goal_broken : goal_marks[u] = None /\ goal_made[u] # {} => u = t
      BY DEF GoalInv, t
    <3> QED  BY <2>1, <3>1, <3>3, <3>4, <3>5, <3>6 DEF GoalInv, Writing
  <2>4. CASE ~ok
    <3>1. Aims!Then /\ goal_broken' = goal_broken \cup {t} /\ UNCHANGED goal_recorded
      BY <1>11, <2>4 DEF Aims!InsertRow
    <3>2. goal_tick' \in Ticks /\ goal_tick'.at \in {"distill", "goals"}
      BY <3>1, GoalThen
    <3>3. GoalType' /\ Aware(goal_tick)'
      BY <1>1, <2>1, <3>1, <3>2 DEF GoalType, Aware, Writing
    <3>4. \A u \in Trajectories \ goal_broken : goal_marks[u] = None /\ goal_made[u] # {} => u = t
      BY DEF GoalInv
    <3> HIDE DEF t
    <3> QED  BY <2>1, <3>1, <3>3, <3>4 DEF GoalInv
  <2> QED  BY <2>3, <2>4
<1>12. ASSUME NEW ok \in BOOLEAN, Aims!Mark(ok) PROVE GoalInv'
  <2> DEFINE t == goal_tick.it
             n == goal_tick.name
  <2>1. goal_tick.at = "mark" /\ UNCHANGED <<goal_recorded, goal_made>>
    BY <1>12 DEF Aims!Mark
  <2>2. t \in Trajectories /\ n # None /\ (n \in Titles => n \in goal_recorded[t])
        /\ n \in Titles \cup Aims!Verdicts \cup {None}
    BY <1>1, <2>1 DEF Aware, Writing, GoalType, Ticks
  <2>3. \A u \in Trajectories \ goal_broken : goal_marks[u] = None /\ goal_made[u] # {} => u = t
    BY DEF GoalInv
  <2>4. CASE ok
    <3>1. goal_marks' = [goal_marks EXCEPT ![t] = n] /\ UNCHANGED goal_broken
          /\ (Aims!Then \/ goal_tick' = [goal_tick EXCEPT !.at = "load"])
      BY <1>12, <2>4 DEF Aims!Mark, Aims!Step
    <3>2. "load" \in Ats
      BY DEF Ats
    <3>3. goal_tick' \in Ticks /\ goal_tick'.at \in {"distill", "goals", "load"}
      BY <3>1, <3>2, GoalThen, TickSteps
    <3> HIDE DEF t, n
    <3>4. /\ goal_marks' \in [Trajectories -> Titles \cup Aims!Verdicts \cup {None}] /\ goal_marks'[t] = n
          /\ \A u \in Trajectories \ {t} : goal_marks'[u] = goal_marks[u]
      BY <1>1, <2>2, <3>1 DEF GoalType
    <3>5. GoalType' /\ Aware(goal_tick)'
      BY <1>1, <2>1, <3>3, <3>4 DEF GoalType, Aware, Writing
    <3>6. ASSUME NEW u \in Trajectories \ goal_broken PROVE ~(goal_marks'[u] = None /\ goal_made[u] # {})
      BY <2>2, <2>3, <3>4
    <3>7. ASSUME NEW u \in Trajectories, goal_marks'[u] \in Titles PROVE goal_marks'[u] \in goal_recorded[u]
      <4>1. CASE u = t
        BY <2>2, <3>4, <3>7, <4>1
      <4>2. CASE u # t
        BY <3>4, <3>7, <4>2 DEF GoalInv
      <4> QED  BY <4>1, <4>2
    <3>8. \A u \in Trajectories \ goal_broken : goal_made[u] = {} \/ \E m \in Titles : goal_made[u] = {m}
      BY DEF GoalInv
    <3> QED  BY <2>1, <3>1, <3>5, <3>6, <3>7, <3>8 DEF GoalInv
  <2>5. CASE ~ok
    <3>1. Aims!Then /\ goal_broken' = goal_broken \cup {t} /\ UNCHANGED goal_marks
      BY <1>12, <2>5 DEF Aims!Mark
    <3>2. goal_tick' \in Ticks /\ goal_tick'.at \in {"distill", "goals"}
      BY <3>1, GoalThen
    <3>3. GoalType' /\ Aware(goal_tick)'
      BY <1>1, <2>1, <3>1, <3>2 DEF GoalType, Aware, Writing
    <3> HIDE DEF t
    <3> QED  BY <2>1, <2>3, <3>1, <3>3 DEF GoalInv
  <2> QED  BY <2>4, <2>5
<1>13. ASSUME Aims!WriteScript PROVE GoalInv'
  <2>1. /\ goal_tick.at = "script" /\ goal_tick' = [goal_tick EXCEPT !.at = "mark"]
        /\ UNCHANGED <<goal_marks, goal_made, goal_recorded, goal_broken>>
    BY <1>13 DEF Aims!WriteScript, Aims!Step
  <2>2. "mark" \in Ats
    BY DEF Ats
  <2>3. PICK r \in Ticks : r = goal_tick' /\ r.at = "mark" /\ r.it = goal_tick.it /\ r.name = goal_tick.name
    BY <2>1, <2>2, TickSteps
  <2>4. Aware(r)
    BY <1>1, <1>a, <2>1, <2>3 DEF Aware, Writing
  <2> QED  BY <2>1, <2>3, <2>4, GoalMove DEF Writing
<1>14. ASSUME Aims!LoadSkills PROVE GoalInv'
  BY <1>7, <1>14 DEF Aims!LoadSkills, Writing
<1>15. ASSUME Aims!LookAtGoals PROVE GoalInv'
  <2> DEFINE g == Aims!Min(Aims!Active)
  <2>1. goal_tick.at = "goals" /\ UNCHANGED <<goal_marks, goal_made, goal_recorded, goal_broken>>
    BY <1>15 DEF Aims!LookAtGoals
  <2>2. CASE goal_tick' = Aims!Off
    BY <1>6, <1>b, <2>1, <2>2 DEF Writing
  <2>3. CASE goal_tick' # Aims!Off
    <3>1. g \in Goals
      <4>1. Aims!Active # {}
        BY <1>15, <2>3 DEF Aims!LookAtGoals
      <4>2. Aims!Active \subseteq Nat
        BY <1>a DEF Aims!Active
      <4>3. g \in Aims!Active
        BY <4>1, <4>2, OldestOf
      <4> HIDE DEF g
      <4> QED  BY <4>3 DEF Aims!Active
    <3>2. PICK a \in {"spawn", "remember"} : goal_tick' = [Aims!Off EXCEPT !.it = g, !.at = a]
      BY <1>15, <2>3 DEF Aims!LookAtGoals
    <3> HIDE DEF g
    <3>3. goal_tick' \in Ticks /\ goal_tick'.at = a
      BY <3>1, <3>2 DEF Aims!Off, Ticks, Ats
    <3> QED  BY <1>6, <2>1, <3>3 DEF Writing
  <2> QED  BY <2>2, <2>3
<1>16. ASSUME NEW ok \in BOOLEAN, \/ Aims!Spawn(ok) \/ Aims!Remember(ok) \/ Aims!RecordRun(ok)
                                  \/ Aims!Notify(ok) \/ Aims!CloseGoal(ok)
       PROVE  GoalInv'
  <2>1. /\ goal_tick.at \in {"spawn", "remember", "record", "notify", "close"}
        /\ UNCHANGED <<goal_marks, goal_made, goal_recorded, goal_broken>>
        /\ goal_tick' = Aims!Off \/ \E a \in {"record", "notify", "close"} : goal_tick' = [goal_tick EXCEPT !.at = a]
    BY <1>16 DEF Aims!Spawn, Aims!Remember, Aims!RecordRun, Aims!Notify, Aims!CloseGoal, Aims!Step
  <2>2. {"record", "notify", "close"} \subseteq Ats
    BY DEF Ats
  <2>3. goal_tick' \in Ticks /\ goal_tick'.at \in {"off", "record", "notify", "close"}
    BY <1>b, <2>1, <2>2, TickSteps
  <2> QED  BY <1>6, <2>1, <2>3 DEF Writing
<1>17. ASSUME Aims!Crash PROVE GoalInv'
  <2>1. /\ UNCHANGED <<goal_marks, goal_made, goal_recorded>> /\ goal_tick' = Aims!Off
        /\ goal_broken' = goal_broken \cup ({goal_tick.it} \cap Trajectories)
    BY <1>17 DEF Aims!Crash
  <2>2. GoalType' /\ Aware(goal_tick)'
    BY <1>1, <1>b, <2>1 DEF GoalType, Aware, Writing
  <2> QED  BY <2>1, <2>2 DEF GoalInv
<1> QED
  BY <1>3, <1>5, <1>9, <1>10, <1>11, <1>12, <1>13, <1>14, <1>15, <1>16, <1>17 DEF Aims!Next

-----------------------------------------------------------------------------
(* Memories. *)

MemType ==
    /\ mem_row \in [Memories!Contents -> {"none", "live", "archived"}]
    /\ mem_kids \in [Memories!Contents -> SUBSET Facts] /\ mem_todo \in [Runs -> SUBSET Facts]
    /\ mem_told \subseteq Facts

\* The synthesis whose children are being archived: it is none of them, and still there.
Parent(r, s) == mem_row[s] = "live" /\ s \notin mem_todo[r] /\ mem_todo[r] \subseteq mem_kids[s]

\* Or it was deleted, and with it what it stood for.
MemInv ==
    /\ MemType /\ \A c \in Memories!Contents : mem_row[c] = "none" => mem_kids[c] = {}
    /\ Memories!NothingLost
    /\ \A r \in Runs :
          mem_todo[r] # {} => \/ \E s \in Memories!Contents : Parent(r, s)
                              \/ \A c \in mem_todo[r] : {c} \cup Memories!Stands(c) \subseteq mem_gone

\* What a row stands for holds its children and theirs.
LEMMA StandsHolds ==
    ASSUME MemType, NEW c \in Memories!Contents
    PROVE  /\ Memories!Stands(c) \subseteq Facts /\ mem_kids[c] \subseteq Memories!Stands(c)
           /\ \A j \in Memories!Stands(c) : mem_kids[j] \subseteq Memories!Stands(c)
<1>1. \A d \in Memories!Contents : mem_kids[d] \subseteq Facts
  BY DEF MemType
<1>2. Facts \subseteq Memories!Contents
  BY DEF Memories!Contents
<1> QED  BY <1>1, <1>2 DEF Memories!Stands

\* And nothing else.
LEMMA StandsLeast ==
    ASSUME NEW c, NEW S \in SUBSET Facts, mem_kids[c] \subseteq S, \A j \in S : mem_kids[j] \subseteq S
    PROVE  Memories!Stands(c) \subseteq S
BY DEF Memories!Stands

LEMMA StandsNests ==
    ASSUME MemType, NEW c \in Memories!Contents, NEW k \in Memories!Stands(c)
    PROVE  Memories!Stands(k) \subseteq Memories!Stands(c)
BY StandsHolds, StandsLeast

\* With the same children it stands for the same.
LEMMA StandsStays == ASSUME UNCHANGED mem_kids, NEW c PROVE Memories!Stands(c)' = Memories!Stands(c)
BY DEF Memories!Stands

LEMMA MemSame ==
    ASSUME MemInv, UNCHANGED <<mem_row, mem_kids, mem_todo, mem_told, mem_gone>>
    PROVE  MemInv'
<1>1. \A c : Memories!Stands(c)' = Memories!Stands(c)
  BY StandsStays
<1> QED
  BY <1>1 DEF MemInv, MemType, Memories!NothingLost, Memories!Live, Memories!Contents, Parent

LEMMA MemInsert ==
    ASSUME MemInv, NEW c \in Facts, Memories!Insert(c, {}), mem_told' = mem_told \cup {c},
           UNCHANGED <<mem_todo, mem_gone>>
    PROVE  MemInv'
<1>1. c \in Memories!Contents /\ mem_row[c] = "none" /\ mem_kids[c] = {}
  BY DEF Memories!Insert, Memories!Contents, MemInv
<1>2. mem_row' = [mem_row EXCEPT ![c] = "live"] /\ UNCHANGED mem_kids
  BY <1>1 DEF Memories!Insert, MemInv, MemType
<1>3. \A d : Memories!Stands(d)' = Memories!Stands(d)
  BY <1>2, StandsStays
<1>4. /\ mem_row'[c] = "live" /\ \A d \in Memories!Contents \ {c} : mem_row'[d] = mem_row[d]
      /\ mem_row' \in [Memories!Contents -> {"none", "live", "archived"}]
  BY <1>1, <1>2 DEF MemInv, MemType
<1>5. \A d \in Memories!Contents : mem_row[d] = "live" => mem_row'[d] = "live"
  BY <1>4
<1>6. MemType' /\ \A d \in Memories!Contents : mem_row'[d] = "none" => mem_kids'[d] = {}
  BY <1>2, <1>4 DEF MemInv, MemType
<1>7. Memories!NothingLost'
  <2> SUFFICES ASSUME NEW d \in mem_told' \ mem_gone'
               PROVE  d \in Memories!Live' \/ \E s \in Memories!Live' : d \in Memories!Stands(s)'
    BY DEF Memories!NothingLost
  <2>1. Memories!Live \subseteq Memories!Live'
    BY <1>5 DEF Memories!Live, Memories!Contents
  <2>2. c \in Memories!Live'
    BY <1>1, <1>4 DEF Memories!Live, Memories!Contents
  <2>3. CASE d = c
    BY <2>2, <2>3
  <2>4. CASE d # c
    BY <1>3, <2>1, <2>4 DEF MemInv, Memories!NothingLost
  <2> QED  BY <2>3, <2>4
<1>8. ASSUME NEW r \in Runs, mem_todo'[r] # {}
      PROVE  \/ \E s \in Memories!Contents : Parent(r, s)'
             \/ \A d \in mem_todo'[r] : {d} \cup Memories!Stands(d)' \subseteq mem_gone'
  <2>1. CASE \E s \in Memories!Contents : Parent(r, s)
    BY <1>2, <1>5, <2>1 DEF Parent
  <2>2. CASE \A d \in mem_todo[r] : {d} \cup Memories!Stands(d) \subseteq mem_gone
    BY <1>3, <2>2
  <2> QED  BY <1>8, <2>1, <2>2 DEF MemInv
<1> QED  BY <1>6, <1>7, <1>8 DEF MemInv, Memories!Contents

\* What a row stands for after a deletion, but for what the deleted one stood for.
LEMMA StandsCut ==
    ASSUME MemType, NEW d \in Memories!Contents, mem_kids' = [mem_kids EXCEPT ![d] = {}],
           NEW s \in Memories!Contents
    PROVE  /\ Memories!Stands(s)' \subseteq Memories!Stands(s)
           /\ s # d => Memories!Stands(s) \subseteq Memories!Stands(s)' \cup {d} \cup Memories!Stands(d)
<1>1. /\ mem_kids'[d] = {} /\ \A e \in Memories!Contents \ {d} : mem_kids'[e] = mem_kids[e]
      /\ \A e \in Memories!Contents : mem_kids'[e] \subseteq mem_kids[e]
      /\ Facts \subseteq Memories!Contents
  BY DEF MemType, Memories!Contents
<1>2. Memories!Stands(s)' \subseteq Memories!Stands(s)
  <2> SUFFICES ASSUME NEW k \in Memories!Stands(s)', NEW S \in SUBSET Facts, mem_kids[s] \subseteq S,
                      \A j \in S : mem_kids[j] \subseteq S
               PROVE  k \in S
    BY DEF Memories!Stands
  <2>1. mem_kids'[s] \subseteq S /\ \A j \in S : mem_kids'[j] \subseteq S
    BY <1>1
  <2> QED  BY <2>1 DEF Memories!Stands
<1>3. ASSUME s # d, NEW k \in Memories!Stands(s), k # d, k \notin Memories!Stands(d)
      PROVE  k \in Memories!Stands(s)'
  <2>0. k \in Facts
    BY <1>3, StandsHolds
  <2> SUFFICES ASSUME NEW S \in SUBSET Facts, mem_kids'[s] \subseteq S, \A j \in S : mem_kids'[j] \subseteq S
               PROVE  k \in S
    BY <2>0 DEF Memories!Stands
  <2> DEFINE T == S \cup ({d} \cap Facts) \cup Memories!Stands(d)
  <2>1. T \in SUBSET Facts
    BY StandsHolds
  <2>2. mem_kids[s] \subseteq T
    BY <1>1, <1>3
  <2>3. ASSUME NEW j \in T PROVE mem_kids[j] \subseteq T
    <3>1. CASE j \in Memories!Stands(d)
      BY <3>1, StandsHolds
    <3>2. CASE j = d
      BY <3>2, StandsHolds
    <3>3. CASE j \in S /\ j # d
      BY <1>1, <3>3
    <3> QED  BY <3>1, <3>2, <3>3
  <2> HIDE DEF T
  <2>4. k \in T
    BY <2>1, <2>2, <2>3, StandsLeast
  <2> QED  BY <1>3, <2>4 DEF T
<1> QED  BY <1>2, <1>3

LEMMA MemDelete ==
    ASSUME MemInv, NEW d, Memories!Delete(d), UNCHANGED <<mem_todo, mem_told>>
    PROVE  MemInv'
<1>1. /\ mem_row' = [mem_row EXCEPT ![d] = "none"] /\ mem_kids' = [mem_kids EXCEPT ![d] = {}]
      /\ mem_gone' = mem_gone \cup {d} \cup Memories!Stands(d)
  BY DEF Memories!Delete
<1>2. CASE d \notin Memories!Contents
  <2>1. UNCHANGED <<mem_row, mem_kids>>
    BY <1>1, <1>2 DEF MemInv, MemType
  <2>2. \A c : Memories!Stands(c)' = Memories!Stands(c)
    BY <2>1, StandsStays
  <2>3. MemType' /\ Memories!NothingLost' /\ mem_gone \subseteq mem_gone'
    BY <1>1, <2>1, <2>2 DEF MemInv, MemType, Memories!NothingLost, Memories!Live, Memories!Contents
  <2>4. \A r \in Runs : \A s : Parent(r, s)' = Parent(r, s)
    BY <2>1 DEF Parent
  <2> QED  BY <2>1, <2>2, <2>3, <2>4 DEF MemInv, Memories!Contents
<1>3. CASE d \in Memories!Contents
  <2>1. /\ mem_row'[d] = "none" /\ \A e \in Memories!Contents \ {d} : mem_row'[e] = mem_row[e]
        /\ mem_kids'[d] = {} /\ \A e \in Memories!Contents \ {d} : mem_kids'[e] = mem_kids[e]
        /\ mem_row' \in [Memories!Contents -> {"none", "live", "archived"}]
        /\ mem_kids' \in [Memories!Contents -> SUBSET Facts]
    BY <1>1, <1>3 DEF MemInv, MemType
  <2>2. MemType' /\ \A c \in Memories!Contents : mem_row'[c] = "none" => mem_kids'[c] = {}
    BY <2>1 DEF MemInv, MemType
  <2>3. \A s \in Memories!Contents :
           /\ Memories!Stands(s)' \subseteq Memories!Stands(s)
           /\ s # d => Memories!Stands(s) \subseteq Memories!Stands(s)' \cup {d} \cup Memories!Stands(d)
    BY <1>1, <1>3, StandsCut DEF MemInv
  <2>4. Memories!NothingLost'
    <3> SUFFICES ASSUME NEW c \in mem_told' \ mem_gone'
                 PROVE  c \in Memories!Live' \/ \E s \in Memories!Live' : c \in Memories!Stands(s)'
      BY DEF Memories!NothingLost
    <3>1. c \in mem_told \ mem_gone /\ c # d /\ c \notin Memories!Stands(d)
      BY <1>1
    <3>2. \A s \in Memories!Live : s # d => s \in Memories!Live'
      BY <2>1 DEF Memories!Live, Memories!Contents
    <3>3. CASE c \in Memories!Live
      BY <3>1, <3>2, <3>3
    <3>4. CASE \E s \in Memories!Live : c \in Memories!Stands(s)
      <4>1. PICK s \in Memories!Live : c \in Memories!Stands(s)
        BY <3>4
      <4>2. s \in Memories!Contents /\ s # d
        BY <3>1, <4>1 DEF Memories!Live
      <4> QED  BY <2>3, <3>1, <3>2, <4>1, <4>2
    <3> QED  BY <3>1, <3>3, <3>4 DEF MemInv, Memories!NothingLost
  <2>5. ASSUME NEW r \in Runs, mem_todo'[r] # {}
        PROVE  \/ \E s \in Memories!Contents : Parent(r, s)'
               \/ \A c \in mem_todo'[r] : {c} \cup Memories!Stands(c)' \subseteq mem_gone'
    <3>0. mem_todo[r] \subseteq Memories!Contents
      BY DEF MemInv, MemType, Memories!Contents
    <3>1. CASE \E s \in Memories!Contents : Parent(r, s)
      <4>1. PICK s \in Memories!Contents : Parent(r, s)
        BY <3>1
      <4>2. CASE s # d
        BY <2>1, <4>1, <4>2 DEF Parent
      <4>3. CASE s = d
        <5>1. mem_todo[r] \subseteq mem_kids[d]
          BY <4>1, <4>3 DEF Parent
        <5>2. \A c \in mem_todo[r] : c \in Memories!Stands(d) /\ Memories!Stands(c) \subseteq Memories!Stands(d)
          BY <1>3, <5>1, StandsHolds, StandsNests DEF MemInv
        <5> QED  BY <1>1, <2>3, <3>0, <5>2
      <4> QED  BY <4>2, <4>3
    <3>2. CASE \A c \in mem_todo[r] : {c} \cup Memories!Stands(c) \subseteq mem_gone
      BY <1>1, <2>3, <3>0, <3>2
    <3> QED  BY <2>5, <3>1, <3>2 DEF MemInv
  <2> QED  BY <2>2, <2>4, <2>5 DEF MemInv, Memories!Contents
<1> QED  BY <1>2, <1>3

LEMMA MemMerge ==
    ASSUME MemInv, NEW r \in Runs, \A q \in Runs : q = r, NEW c \in Memories!Contents, NEW of \in SUBSET Facts,
           Memories!Insert(c, of), mem_todo[r] = {}, mem_todo' = [mem_todo EXCEPT ![r] = of \ {c}],
           UNCHANGED <<mem_told, mem_gone>>
    PROVE  MemInv'
<1>1. /\ mem_row[c] = "none" /\ mem_kids[c] = {}
      /\ mem_row' = [mem_row EXCEPT ![c] = "live"] /\ mem_kids' = [mem_kids EXCEPT ![c] = of]
  BY DEF Memories!Insert, MemInv
<1>2. /\ mem_row'[c] = "live" /\ \A e \in Memories!Contents \ {c} : mem_row'[e] = mem_row[e]
      /\ mem_kids'[c] = of /\ \A e \in Memories!Contents \ {c} : mem_kids'[e] = mem_kids[e]
      /\ mem_row' \in [Memories!Contents -> {"none", "live", "archived"}]
      /\ mem_kids' \in [Memories!Contents -> SUBSET Facts]
      /\ mem_todo' \in [Runs -> SUBSET Facts] /\ mem_todo'[r] = of \ {c}
  BY <1>1 DEF MemInv, MemType
<1>3. MemType' /\ \A e \in Memories!Contents : mem_row'[e] = "none" => mem_kids'[e] = {}
  BY <1>2 DEF MemInv, MemType
<1>4. ASSUME NEW s \in Memories!Contents PROVE Memories!Stands(s) \subseteq Memories!Stands(s)'
  <2> SUFFICES ASSUME NEW k \in Memories!Stands(s), NEW S \in SUBSET Facts, mem_kids'[s] \subseteq S,
                      \A j \in S : mem_kids'[j] \subseteq S
               PROVE  k \in S
    BY DEF Memories!Stands
  <2>1. \A e \in Memories!Contents : mem_kids[e] \subseteq mem_kids'[e]
    BY <1>1, <1>2
  <2>2. Facts \subseteq Memories!Contents
    BY DEF Memories!Contents
  <2>3. mem_kids[s] \subseteq S /\ \A j \in S : mem_kids[j] \subseteq S
    BY <2>1, <2>2
  <2> QED  BY <2>3 DEF Memories!Stands
<1>5. Memories!NothingLost'
  <2>1. Memories!Live \subseteq Memories!Live' /\ Memories!Live \subseteq Memories!Contents
    BY <1>2 DEF Memories!Live, Memories!Contents
  <2> QED  BY <1>4, <2>1 DEF MemInv, Memories!NothingLost
<1>6. Parent(r, c)'
  BY <1>2 DEF Parent
<1> QED  BY <1>3, <1>5, <1>6 DEF MemInv, Memories!Contents

LEMMA MemArchive ==
    ASSUME MemInv, NEW r \in Runs, NEW c \in Facts, \A q \in Runs : q = r, Memories!Archive(r, c)
    PROVE  MemInv'
<1>1. /\ c \in mem_todo[r] /\ mem_row' = [mem_row EXCEPT ![c] = IF @ = "live" THEN "archived" ELSE @]
      /\ mem_todo' = [mem_todo EXCEPT ![r] = @ \ {c}] /\ UNCHANGED <<mem_kids, mem_told, mem_gone>>
  BY DEF Memories!Archive, Memories!hist
<1>2. c \in Memories!Contents
  BY DEF Memories!Contents
<1>3. /\ \A e \in Memories!Contents \ {c} : mem_row'[e] = mem_row[e]
      /\ mem_row'[c] = "none" => mem_row[c] = "none"
      /\ mem_row' \in [Memories!Contents -> {"none", "live", "archived"}]
      /\ mem_todo' \in [Runs -> SUBSET Facts] /\ mem_todo'[r] = mem_todo[r] \ {c}
  BY <1>1, <1>2 DEF MemInv, MemType
<1>4. MemType' /\ \A e \in Memories!Contents : mem_row'[e] = "none" => mem_kids'[e] = {}
  BY <1>1, <1>2, <1>3 DEF MemInv, MemType
<1>5. \A e : Memories!Stands(e)' = Memories!Stands(e)
  BY <1>1, StandsStays
<1>6. \/ \E s \in Memories!Contents : Parent(r, s)
      \/ \A e \in mem_todo[r] : {e} \cup Memories!Stands(e) \subseteq mem_gone
  BY <1>1 DEF MemInv
<1>7. \A s \in Memories!Live : s # c => s \in Memories!Live'
  BY <1>3 DEF Memories!Live, Memories!Contents
<1>8. Memories!NothingLost'
  <2> SUFFICES ASSUME NEW x \in mem_told' \ mem_gone'
               PROVE  x \in Memories!Live' \/ \E s \in Memories!Live' : x \in Memories!Stands(s)'
    BY DEF Memories!NothingLost
  <2>1. ASSUME x = c \/ x \in Memories!Stands(c) PROVE \E s \in Memories!Live' : x \in Memories!Stands(s)'
    <3>1. PICK s \in Memories!Contents : Parent(r, s)
      BY <1>1, <1>6, <2>1
    <3>2. s \in Memories!Live' /\ c \in mem_kids[s]
      BY <1>1, <1>7, <3>1 DEF Parent, Memories!Live, Memories!Contents
    <3>3. c \in Memories!Stands(s) /\ Memories!Stands(c) \subseteq Memories!Stands(s)
      BY <3>2, StandsHolds, StandsNests DEF MemInv
    <3> QED  BY <1>5, <2>1, <3>2, <3>3
  <2>2. x \in Memories!Live \/ \E s \in Memories!Live : x \in Memories!Stands(s)
    BY <1>1 DEF MemInv, Memories!NothingLost
  <2> QED  BY <1>5, <1>7, <2>1, <2>2
<1>9. ASSUME mem_todo'[r] # {}
      PROVE  \/ \E s \in Memories!Contents : Parent(r, s)'
             \/ \A e \in mem_todo'[r] : {e} \cup Memories!Stands(e)' \subseteq mem_gone'
  <2>1. CASE \E s \in Memories!Contents : Parent(r, s)
    <3>1. PICK s \in Memories!Contents : Parent(r, s)
      BY <2>1
    <3>2. s # c
      BY <1>1, <3>1 DEF Parent
    <3> QED  BY <1>1, <1>3, <3>1, <3>2 DEF Parent
  <2>2. CASE \A e \in mem_todo[r] : {e} \cup Memories!Stands(e) \subseteq mem_gone
    BY <1>1, <1>3, <1>5, <2>2
  <2> QED  BY <1>6, <2>1, <2>2
<1> QED  BY <1>4, <1>8, <1>9 DEF MemInv, Memories!Contents

LEMMA MemStep == ASSUME MemInv, \A p, q \in Runs : p = q, Memories!Next PROVE MemInv'
<1>1. ASSUME NEW c \in Facts, Memories!Learn(c) PROVE MemInv'
  BY <1>1, MemInsert DEF Memories!Learn, Memories!job
<1>2. ASSUME NEW c \in Facts, Memories!Remember(c) PROVE MemInv'
  <2>1. CASE Memories!Insert(c, {}) /\ mem_told' = mem_told \cup {c}
    BY <1>2, <2>1, MemInsert DEF Memories!Remember, Memories!job
  <2>2. CASE UNCHANGED <<mem_row, mem_kids, mem_told>>
    BY <1>2, <2>2, MemSame DEF Memories!Remember, Memories!job
  <2> QED  BY <1>2, <2>1, <2>2 DEF Memories!Remember, Memories!table
<1>3. ASSUME NEW c \in Memories!Contents, Memories!ForgetById(c) PROVE MemInv'
  BY <1>3, MemDelete DEF Memories!ForgetById, Memories!job
<1>4. ASSUME NEW n \in 1..Len(mem_shown), Memories!Forget(n) PROVE MemInv'
  <2>1. CASE Memories!Delete(Memories!Rows[n])
    <3>1. UNCHANGED <<mem_todo, mem_told>>
      BY <1>4 DEF Memories!Forget, Memories!job
    <3> QED  BY <2>1, <3>1, MemDelete
  <2>2. CASE UNCHANGED <<mem_row, mem_kids, mem_gone>>
    <3>1. UNCHANGED <<mem_todo, mem_told>>
      BY <1>4 DEF Memories!Forget, Memories!job
    <3> QED  BY <2>2, <3>1, MemSame
  <2> QED  BY <1>4, <2>1, <2>2 DEF Memories!Forget, Memories!table
<1>5. ASSUME NEW r \in Runs, NEW c \in Memories!Contents, NEW of \in SUBSET Facts, Memories!Merge(r, c, of)
      PROVE  MemInv'
  <2>1. mem_todo[r] = {} /\ UNCHANGED <<mem_told, mem_gone>>
    BY <1>5 DEF Memories!Merge, Memories!hist
  <2>2. CASE Memories!Insert(c, of) /\ mem_todo' = [mem_todo EXCEPT ![r] = of \ {c}]
    BY <2>1, <2>2, MemMerge
  <2>3. CASE UNCHANGED <<mem_row, mem_kids, mem_todo>>
    BY <2>1, <2>3, MemSame
  <2> QED  BY <1>5, <2>2, <2>3 DEF Memories!Merge, Memories!table
<1>6. ASSUME NEW r \in Runs, NEW c \in Facts, Memories!Archive(r, c) PROVE MemInv'
  BY <1>6, MemArchive
<1>7. ASSUME NEW r \in Runs, \/ Memories!Start(r) \/ Memories!Fetch(r) \/ Memories!Merged(r)
                             \/ Memories!DecayFails(r) \/ Memories!Stamp(r) \/ Memories!Clear(r)
                             \/ Memories!ReadMemories(r) \/ Memories!WriteDigest(r)
      PROVE  MemInv'
  <2>1. UNCHANGED <<mem_row, mem_kids, mem_todo, mem_told, mem_gone>>
    BY <1>7 DEF Memories!Start, Memories!Fetch, Memories!Merged, Memories!DecayFails, Memories!Stamp,
                Memories!Clear, Memories!ReadMemories, Memories!WriteDigest, Memories!table, Memories!hist,
                Memories!job
  <2> QED  BY <2>1, MemSame
<1>8. ASSUME NEW r \in Runs, Memories!Stop(r) PROVE MemInv'
  <2>1. mem_todo' = [mem_todo EXCEPT ![r] = {}] /\ UNCHANGED <<mem_row, mem_kids, mem_told, mem_gone>>
    BY <1>8 DEF Memories!Stop, Memories!table, Memories!hist
  <2>2. mem_todo' \in [Runs -> SUBSET Facts] /\ mem_todo'[r] = {}
    BY <2>1 DEF MemInv, MemType
  <2>3. \A c : Memories!Stands(c)' = Memories!Stands(c)
    BY <2>1, StandsStays
  <2>4. MemType' /\ Memories!NothingLost'
    BY <2>1, <2>2, <2>3 DEF MemInv, MemType, Memories!NothingLost, Memories!Live, Memories!Contents
  <2> QED  BY <2>1, <2>2, <2>4 DEF MemInv, Memories!Contents
<1>9. ASSUME Memories!ListAll PROVE MemInv'
  BY <1>9, MemSame DEF Memories!ListAll, Memories!table, Memories!hist, Memories!job
<1> QED
  BY <1>1, <1>2, <1>3, <1>4, <1>5, <1>6, <1>7, <1>8, <1>9 DEF Memories!Next

-----------------------------------------------------------------------------
(* Settings. *)

Docs == [key : Nat, has : SUBSET Store!Names]

SetType ==
    /\ set_file \in [Store!Files -> Docs \cup {Store!Torn}]
    /\ set_pc \in [Consoles -> {"idle", "loaded", "merged", "open"}]
    /\ set_on \in [Consoles -> Store!Files]
    /\ set_loaded \in [Consoles -> Docs] /\ set_merged \in [Consoles -> Docs]
    /\ set_keys \in Nat /\ set_hurt \in BOOLEAN

Alone == \A p, q \in Consoles : set_pc[p] # "idle" /\ set_pc[q] # "idle" => p = q

\* A document of a file: its names are at home there, and only one file has keys.
Fits(d, f) == (\A n \in d.has : Store!Home(n) = f) /\ (f = "settings" => d.key \in {0, -1})

\* A call on its way: what it has merged holds what its file must hold afterwards.
CallFits(p) ==
    /\ Fits(set_loaded[p], set_on[p])
    /\ set_pc[p] = "loaded" /\ set_loaded[p].key # 0 => set_file["secrets"].key \in {0, set_loaded[p].key}
    /\ set_pc[p] = "merged" /\ set_on[p] = "secrets" => set_file["secrets"].key \in {0, set_merged[p].key}
    /\ set_pc[p] \in {"merged", "open"} =>
          /\ Fits(set_merged[p], set_on[p]) /\ set_loaded[p].has \subseteq set_merged[p].has
          /\ \A n \in set_stored : Store!Home(n) = set_on[p] => n \in set_merged[p].has
          /\ set_on[p] = "secrets" => \A k \in set_handed : set_merged[p].key = k
          /\ set_loaded[p].key # 0 => set_merged[p].key = set_loaded[p].key

SetInv ==
    /\ SetType
    /\ ~set_hurt =>
          /\ Alone /\ \A f \in Store!Files : (set_file[f] = Store!Torn) <=> Store!Writing(f)
          /\ \A f \in Store!Files : Fits(set_file[f], f)
          /\ Store!Kept /\ Store!Accepted /\ 0 \notin set_handed
          /\ \A p \in Consoles : set_pc[p] # "idle" => CallFits(p)

LEMMA SetSteps ==
    ASSUME SetType, NEW p \in Consoles, NEW a, set_pc' = [set_pc EXCEPT ![p] = a],
           a \in {"idle", "loaded", "merged", "open"}
    PROVE  /\ set_pc' \in [Consoles -> {"idle", "loaded", "merged", "open"}]
           /\ set_pc'[p] = a /\ \A q \in Consoles \ {p} : set_pc'[q] = set_pc[q]
BY DEF SetType

LEMMA SetReads ==
    ASSUME SetType, NEW f \in Store!Files
    PROVE  /\ Store!Read(f) \in Docs
           /\ set_file[f] # Store!Torn => Store!Read(f) = set_file[f]
BY DEF SetType, Store!Read, Store!Default, Docs

LEMMA Torns == Store!Torn \notin Docs /\ Store!Torn.key = -1 /\ Store!Default \in Docs
BY DEF Store!Torn, Store!Default, Docs

\* A setter has read a file that nobody is writing, and hands over what belongs there.
LEMMA SetCall ==
    ASSUME SetInv, NEW p \in Consoles, NEW f \in Store!Files, NEW doc \in Docs, Store!Call(p, f, doc),
           UNCHANGED set_handed, set_keys' \in Nat,
           (~set_hurt /\ set_file[f] # Store!Torn)
              => Fits(doc, f) /\ (doc.key # 0 => set_file["secrets"].key \in {0, doc.key})
    PROVE  SetInv'
<1>1. /\ set_pc[p] = "idle" /\ set_pc' = [set_pc EXCEPT ![p] = "loaded"]
      /\ set_on' = [set_on EXCEPT ![p] = f] /\ set_loaded' = [set_loaded EXCEPT ![p] = doc]
      /\ set_hurt' = (set_hurt \/ \E q \in Consoles : set_pc[q] # "idle")
      /\ UNCHANGED <<set_file, set_merged, set_stored, set_handed>>
  BY DEF Store!Call
<1>2. SetType
  BY DEF SetInv
<1>3. /\ set_pc' \in [Consoles -> {"idle", "loaded", "merged", "open"}]
      /\ set_pc'[p] = "loaded" /\ \A q \in Consoles \ {p} : set_pc'[q] = set_pc[q]
  BY <1>1, <1>2, SetSteps
<1>4. /\ set_on'[p] = f /\ set_loaded'[p] = doc
      /\ set_on' \in [Consoles -> Store!Files] /\ set_loaded' \in [Consoles -> Docs]
  BY <1>1, <1>2 DEF SetType
<1>5. set_hurt' \in BOOLEAN
  BY <1>1, <1>2 DEF SetType
<1>6. SetType'
  BY <1>1, <1>2, <1>3, <1>4, <1>5 DEF SetType
<1>7. ASSUME ~set_hurt'
      PROVE  /\ Alone' /\ \A g \in Store!Files : (set_file'[g] = Store!Torn) <=> Store!Writing(g)'
             /\ \A g \in Store!Files : Fits(set_file'[g], g)
             /\ Store!Kept' /\ Store!Accepted' /\ 0 \notin set_handed'
             /\ \A q \in Consoles : set_pc'[q] # "idle" => CallFits(q)'
  <2>1. ~set_hurt /\ \A q \in Consoles : set_pc[q] = "idle"
    BY <1>1, <1>7
  <2>2. \A g \in Store!Files : ~Store!Writing(g) /\ ~Store!Writing(g)'
    BY <1>3, <2>1 DEF Store!Writing
  <2>3. \A g \in Store!Files : set_file[g] # Store!Torn
    BY <2>1, <2>2 DEF SetInv
  <2>4. Alone'
    BY <1>3, <2>1 DEF Alone
  <2>5. Store!Kept' /\ Store!Accepted'
    <3>1. \A n : Store!Home(n) \in Store!Files
      BY DEF Store!Home, Store!Files
    <3>2. "secrets" \in Store!Files
      BY DEF Store!Files
    <3> QED  BY <1>1, <2>1, <2>2, <3>1, <3>2 DEF SetInv, Store!Kept, Store!Accepted
  <2>6. CallFits(p)'
    <3>1. Fits(doc, f) /\ (doc.key # 0 => set_file["secrets"].key \in {0, doc.key})
      BY <2>1, <2>3
    <3>2. Fits(set_loaded[p], set_on[p])'
      BY <1>4, <3>1 DEF Fits
    <3>3. (set_loaded[p].key # 0 => set_file["secrets"].key \in {0, set_loaded[p].key})'
      BY <1>1, <1>4, <3>1
    <3>4. (set_pc[p] \notin {"merged", "open"})'
      BY <1>3
    <3> QED  BY <3>2, <3>3, <3>4 DEF CallFits
  <2> QED  BY <1>1, <1>3, <2>1, <2>2, <2>3, <2>4, <2>5, <2>6 DEF SetInv
<1> QED  BY <1>6, <1>7 DEF SetInv

LEMMA SetStep == ASSUME SetInv, Store!Next PROVE SetInv'
<1>1. SetType
  BY DEF SetInv
<1>a. Providers \cap Options = {} /\ {"settings", "secrets"} = Store!Files
      /\ \A n : Store!Home(n) \in Store!Files
  BY KeepingAssumption DEF KeepingAssumption, Store!SettingsAssumption, Store!Files, Store!Home
<1>2. ASSUME NEW p \in Consoles, NEW n \in Store!Names, Store!SetName(p, n) PROVE SetInv'
  <2> DEFINE f == Store!Home(n)
             r == Store!Read(f)
             doc == [r EXCEPT !.has = @ \cup {n}]
  <2>1. Store!Call(p, f, doc) /\ UNCHANGED <<set_keys, set_handed>>
    BY <1>2 DEF Store!SetName
  <2>2. r \in Docs /\ (set_file[f] # Store!Torn => r = set_file[f])
    BY <1>1, <1>a, SetReads
  <2> HIDE DEF r
  <2>3. doc \in Docs /\ doc.key = r.key /\ doc.has = r.has \cup {n}
    BY <1>2, <2>2 DEF Docs
  <2>4. (~set_hurt /\ set_file[f] # Store!Torn)
           => Fits(doc, f) /\ (doc.key # 0 => set_file["secrets"].key \in {0, doc.key})
    <3> HIDE DEF doc
    <3> SUFFICES ASSUME ~set_hurt, set_file[f] # Store!Torn
                 PROVE  Fits(doc, f) /\ (doc.key # 0 => set_file["secrets"].key \in {0, doc.key})
      OBVIOUS
    <3>1. Fits(set_file[f], f)
      BY <1>a DEF SetInv
    <3>2. doc.key = set_file[f].key /\ doc.has = set_file[f].has \cup {n} /\ doc.key \in Nat
      BY <2>2, <2>3 DEF Docs
    <3>3. Fits(doc, f)
      BY <3>1, <3>2 DEF Fits
    <3>4. CASE f = "secrets"
      BY <3>2, <3>3, <3>4
    <3>5. CASE f = "settings"
      BY <3>2, <3>3, <3>5 DEF Fits
    <3> QED  BY <1>a, <3>4, <3>5
  <2> HIDE DEF doc, f
  <2>5. f \in Store!Files /\ set_keys' \in Nat
    BY <1>1, <1>a, <2>1 DEF f, SetType
  <2> QED  BY <2>1, <2>3, <2>4, <2>5, SetCall
<1>3. ASSUME NEW p \in Consoles, NEW n \in Store!Names, Store!SavePart(p, n) PROVE SetInv'
  <2> DEFINE doc == [key |-> 0, has |-> {n}]
  <2>1. Store!Call(p, "settings", doc) /\ UNCHANGED <<set_keys, set_handed>> /\ n \in Options
    <3>1. [Store!Default EXCEPT !.has = {n}] = doc
      BY DEF Store!Default
    <3> QED  BY <1>3, <3>1 DEF Store!SavePart
  <2>2. doc \in Docs /\ doc.key = 0 /\ doc.has = {n}
    BY <1>3 DEF Docs
  <2>3. Store!Home(n) = "settings"
    BY <1>a, <2>1 DEF Store!Home
  <2> HIDE DEF doc
  <2>4. Fits(doc, "settings")
    BY <2>2, <2>3 DEF Fits
  <2>5. set_keys' \in Nat /\ "settings" \in Store!Files
    BY <1>1, <1>a, <2>1 DEF SetType
  <2> QED  BY <2>1, <2>2, <2>4, <2>5, SetCall
<1>4. ASSUME NEW p \in Consoles, Store!GenerateKey(p) PROVE SetInv'
  <2> DEFINE doc == [key |-> set_keys', has |-> {}]
  <2>1. Store!Call(p, "secrets", doc) /\ UNCHANGED set_handed /\ set_keys' = set_keys + 1
        /\ Store!Read("secrets").key = 0
    BY <1>4 DEF Store!GenerateKey
  <2>2. set_keys' \in Nat /\ "secrets" \in Store!Files
    BY <1>1, <1>a, <2>1 DEF SetType
  <2>3. doc \in Docs /\ doc.key = set_keys' /\ doc.has = {}
    BY <2>2 DEF Docs
  <2> HIDE DEF doc
  <2>4. Fits(doc, "secrets")
    BY <2>3 DEF Fits
  <2>5. set_file["secrets"] # Store!Torn => set_file["secrets"].key = 0
    BY <1>1, <2>1, <2>2, SetReads
  <2>6. PICK d \in Docs : d = doc
    BY <2>3
  <2> QED  BY <2>1, <2>2, <2>4, <2>5, <2>6, SetCall
<1>5. ASSUME NEW p \in Consoles, Store!KeyIsThere(p) PROVE SetInv'
  <2>1. /\ set_pc[p] = "idle" /\ Store!Read("secrets").key # 0
        /\ set_handed' = set_handed \cup {Store!Read("secrets").key}
        /\ UNCHANGED <<set_file, set_pc, set_on, set_loaded, set_merged, set_keys, set_stored, set_hurt>>
    BY <1>5 DEF Store!KeyIsThere, Store!local, Store!count
  <2>2. SetType'
    BY <1>1, <2>1 DEF SetType
  <2>3. Store!Read("secrets").key \in Nat
    BY <1>1, <1>a, SetReads DEF Docs
  <2>4. ASSUME ~set_hurt'
        PROVE  /\ Alone' /\ \A g \in Store!Files : (set_file'[g] = Store!Torn) <=> Store!Writing(g)'
               /\ \A g \in Store!Files : Fits(set_file'[g], g)
               /\ Store!Kept' /\ Store!Accepted' /\ 0 \notin set_handed'
               /\ \A q \in Consoles : set_pc'[q] # "idle" => CallFits(q)'
    <3>1. ~set_hurt
      BY <2>1, <2>4
    <3>2. set_file["secrets"] # Store!Torn
      BY <2>1 DEF Store!Read, Store!Default
    <3>3. ~Store!Writing("secrets") /\ set_file["secrets"].key = Store!Read("secrets").key
      BY <1>1, <1>a, <3>1, <3>2, SetReads DEF SetInv
    <3>4. \A g : Store!Writing(g)' = Store!Writing(g)
      BY <2>1 DEF Store!Writing
    <3>5. Store!Accepted'
      BY <2>1, <3>1, <3>3, <3>4 DEF SetInv, Store!Accepted
    <3>6. \A k \in set_handed' : k = set_file["secrets"].key
      BY <2>1, <3>1, <3>3 DEF SetInv, Store!Accepted
    <3>7. ASSUME NEW q \in Consoles, set_pc'[q] # "idle" PROVE CallFits(q)'
      <4>1. CallFits(q)
        BY <2>1, <3>1, <3>7 DEF SetInv
      <4>2. ASSUME set_pc[q] \in {"merged", "open"}, set_on[q] = "secrets", NEW k \in set_handed'
            PROVE  set_merged[q].key = k
        \* The key that is there is the one that was handed out before, if one was.
        <5>1. CASE k \in set_handed
          BY <4>1, <4>2, <5>1 DEF CallFits
        <5>2. CASE k \notin set_handed
          <6>1. k = set_file["secrets"].key /\ k # 0
            BY <2>1, <3>3, <3>6
          <6>2. set_pc[q] = "merged"
            BY <3>3, <4>2 DEF Store!Writing
          <6> QED  BY <4>1, <4>2, <6>1, <6>2 DEF CallFits
        <5> QED  BY <5>1, <5>2
      <4> QED  BY <2>1, <4>1, <4>2 DEF CallFits
    <3>8. Alone' /\ Store!Kept' /\ 0 \notin set_handed'
      BY <2>1, <3>1, <3>4 DEF SetInv, Alone, Store!Kept
    <3> QED  BY <2>1, <3>1, <3>4, <3>5, <3>7, <3>8 DEF SetInv
  <2> QED  BY <2>2, <2>4 DEF SetInv
<1>6. ASSUME NEW p \in Consoles, Store!Merge(p) PROVE SetInv'
  <2> DEFINE r == Store!Read(set_on[p])
             l == set_loaded[p]
             m == [key |-> IF l.key # 0 THEN l.key ELSE r.key, has |-> r.has \cup l.has]
  <2>1. /\ set_pc[p] = "loaded" /\ set_pc' = [set_pc EXCEPT ![p] = "merged"]
        /\ set_merged' = [set_merged EXCEPT ![p] = m]
        /\ UNCHANGED <<set_file, set_on, set_loaded, set_keys, set_stored, set_handed, set_hurt>>
    BY <1>6 DEF Store!Merge, Store!count
  <2>2. /\ set_on[p] \in Store!Files /\ l \in Docs /\ r \in Docs
        /\ (set_file[set_on[p]] # Store!Torn => r = set_file[set_on[p]])
    BY <1>1, SetReads DEF SetType
  <2> HIDE DEF l, r
  <2>3. m \in Docs /\ m.key = (IF l.key # 0 THEN l.key ELSE r.key) /\ m.has = r.has \cup l.has
    BY <2>2 DEF Docs
  <2> HIDE DEF m
  <2>4. /\ set_pc' \in [Consoles -> {"idle", "loaded", "merged", "open"}]
        /\ set_pc'[p] = "merged" /\ \A q \in Consoles \ {p} : set_pc'[q] = set_pc[q]
    BY <1>1, <2>1, SetSteps
  <2>5. set_merged' \in [Consoles -> Docs] /\ set_merged'[p] = m
    BY <1>1, <2>1, <2>3 DEF SetType
  <2>6. SetType'
    BY <1>1, <2>1, <2>4, <2>5 DEF SetType
  <2>7. ASSUME ~set_hurt
        PROVE  /\ Alone' /\ \A g \in Store!Files : (set_file'[g] = Store!Torn) <=> Store!Writing(g)'
               /\ \A g \in Store!Files : Fits(set_file'[g], g)
               /\ Store!Kept' /\ Store!Accepted' /\ 0 \notin set_handed'
               /\ \A q \in Consoles : set_pc'[q] # "idle" => CallFits(q)'
    <3>1. \A g : ~Store!Writing(g) /\ ~Store!Writing(g)'
      BY <2>1, <2>4, <2>7 DEF SetInv, Alone, Store!Writing
    <3>2. \A g \in Store!Files : set_file[g] # Store!Torn /\ Fits(set_file[g], g)
      BY <2>7, <3>1 DEF SetInv
    <3>3. r = set_file[set_on[p]] /\ Fits(r, set_on[p])
      BY <2>2, <3>2
    <3>4. Fits(l, set_on[p]) /\ (l.key # 0 => set_file["secrets"].key \in {0, l.key})
      BY <2>1, <2>7 DEF SetInv, CallFits, l
    <3>5. Fits(m, set_on[p])
      BY <2>2, <2>3, <3>3, <3>4 DEF Fits
    <3>6. ASSUME NEW n \in set_stored, Store!Home(n) = set_on[p] PROVE n \in m.has
      BY <2>3, <2>7, <3>1, <3>3, <3>6 DEF SetInv, Store!Kept
    <3>7. ASSUME set_on[p] = "secrets"
          PROVE  /\ \A k \in set_handed : m.key = k
                 /\ set_file["secrets"].key \in {0, m.key}
      <4>1. \A k \in set_handed : set_file["secrets"].key = k /\ k # 0
        BY <2>7, <3>1 DEF SetInv, Store!Accepted
      <4>2. r = set_file["secrets"]
        BY <3>3, <3>7
      <4> QED  BY <2>3, <3>4, <4>1, <4>2
    <3>8. CallFits(p)'
      <4>1. l = set_loaded[p] /\ UNCHANGED set_loaded /\ UNCHANGED set_on
        BY <2>1 DEF l
      <4>2. Fits(set_loaded[p], set_on[p])'
        BY <2>1, <3>4, <4>1 DEF Fits
      <4>3. Fits(set_merged[p], set_on[p])'
        BY <2>1, <2>5, <3>5 DEF Fits
      <4>4. (set_pc[p] = "merged")'
        BY <2>4
      <4>5. /\ set_on'[p] = "secrets" => set_file'["secrets"].key \in {0, set_merged'[p].key}
            /\ set_on'[p] = "secrets" => \A k \in set_handed' : set_merged'[p].key = k
            /\ \A n \in set_stored' : Store!Home(n) = set_on'[p] => n \in set_merged'[p].has
        BY <2>1, <2>5, <3>6, <3>7
      <4>6. set_loaded'[p].has \subseteq set_merged'[p].has
            /\ (set_loaded'[p].key # 0 => set_merged'[p].key = set_loaded'[p].key)
        BY <2>3, <2>5, <4>1
      <4> QED  BY <4>2, <4>3, <4>4, <4>5, <4>6 DEF CallFits
    <3>9. Alone' /\ Store!Kept' /\ Store!Accepted' /\ 0 \notin set_handed'
      BY <2>1, <2>4, <2>7, <3>1 DEF SetInv, Alone, Store!Kept, Store!Accepted
    <3>10. \A q \in Consoles : set_pc'[q] # "idle" => q = p
      <4>1. \A q \in Consoles : set_pc[q] # "idle" => q = p
        BY <2>1, <2>7 DEF SetInv, Alone
      <4> QED  BY <2>4, <4>1
    <3> QED  BY <2>1, <3>1, <3>2, <3>8, <3>9, <3>10 DEF Fits
  <2> QED  BY <2>1, <2>6, <2>7 DEF SetInv
<1>7. ASSUME NEW p \in Consoles, Store!Truncate(p) PROVE SetInv'
  <2>1. /\ set_pc[p] = "merged" /\ set_pc' = [set_pc EXCEPT ![p] = "open"]
        /\ set_file' = [set_file EXCEPT ![set_on[p]] = Store!Torn]
        /\ UNCHANGED <<set_on, set_loaded, set_merged, set_keys, set_stored, set_handed, set_hurt>>
    BY <1>7 DEF Store!Truncate, Store!count
  <2>2. /\ set_pc' \in [Consoles -> {"idle", "loaded", "merged", "open"}]
        /\ set_pc'[p] = "open" /\ \A q \in Consoles \ {p} : set_pc'[q] = set_pc[q]
    BY <1>1, <2>1, SetSteps
  <2>3. /\ set_on[p] \in Store!Files /\ set_file' \in [Store!Files -> Docs \cup {Store!Torn}]
        /\ set_file'[set_on[p]] = Store!Torn
        /\ \A g \in Store!Files \ {set_on[p]} : set_file'[g] = set_file[g]
    BY <1>1, <2>1 DEF SetType
  <2>4. SetType'
    BY <1>1, <2>1, <2>2, <2>3 DEF SetType
  <2>5. ASSUME ~set_hurt
        PROVE  /\ Alone' /\ \A g \in Store!Files : (set_file'[g] = Store!Torn) <=> Store!Writing(g)'
               /\ \A g \in Store!Files : Fits(set_file'[g], g)
               /\ Store!Kept' /\ Store!Accepted' /\ 0 \notin set_handed'
               /\ \A q \in Consoles : set_pc'[q] # "idle" => CallFits(q)'
    <3>1. \A q \in Consoles : set_pc[q] # "idle" => q = p
      BY <2>1, <2>5 DEF SetInv, Alone
    <3>2. \A g : ~Store!Writing(g) /\ (Store!Writing(g)' <=> g = set_on[p])
      BY <2>1, <2>2, <3>1 DEF Store!Writing
    <3>3. \A g \in Store!Files : (set_file'[g] = Store!Torn) <=> Store!Writing(g)'
      <4>1. \A g \in Store!Files : set_file[g] # Store!Torn
        BY <2>5, <3>2 DEF SetInv
      <4>2. \A g \in Store!Files : (set_file'[g] = Store!Torn) <=> Store!Writing(g)'
        BY <2>3, <3>2, <4>1
      <4> QED  BY <4>2 DEF Store!Writing
    <3>4. ASSUME NEW g \in Store!Files PROVE Fits(set_file'[g], g)
      <4>1. Fits(Store!Torn, g)
        BY DEF Fits, Store!Torn
      <4>2. Fits(set_file[g], g)
        BY <2>5 DEF SetInv
      <4> QED  BY <2>3, <4>1, <4>2
    <3>5. CallFits(p)'
      <4>1. CallFits(p)
        BY <2>1, <2>5 DEF SetInv
      <4> QED  BY <2>1, <2>2, <4>1 DEF CallFits, Fits
    <3>6. Store!Kept' /\ Store!Accepted'
      <4>1. \A n \in set_stored : n \in set_file[Store!Home(n)].has
        BY <2>5, <3>2 DEF SetInv, Store!Kept
      <4>2. \A k \in set_handed : set_file["secrets"].key = k
        BY <2>5, <3>2 DEF SetInv, Store!Accepted
      <4>3. Store!Kept'
        BY <1>a, <2>1, <2>3, <3>2, <4>1 DEF Store!Kept
      <4>4. Store!Accepted'
        BY <1>a, <2>1, <2>3, <3>2, <4>2 DEF Store!Accepted
      <4> QED  BY <4>3, <4>4
    <3>7. Alone' /\ 0 \notin set_handed'
      BY <2>1, <2>2, <2>5, <3>1 DEF SetInv, Alone
    <3> QED  BY <2>2, <3>1, <3>3, <3>4, <3>5, <3>6, <3>7
  <2> QED  BY <2>1, <2>4, <2>5 DEF SetInv
<1>8. ASSUME NEW p \in Consoles, Store!Write(p) PROVE SetInv'
  <2> DEFINE l == set_loaded[p]
             m == set_merged[p]
  <2>1. /\ set_pc[p] = "open" /\ set_pc' = [set_pc EXCEPT ![p] = "idle"]
        /\ set_file' = [set_file EXCEPT ![set_on[p]] = m]
        /\ set_stored' = set_stored \cup l.has
        /\ set_handed' = IF l.key # 0 THEN set_handed \cup {l.key} ELSE set_handed
        /\ UNCHANGED <<set_on, set_loaded, set_merged, set_keys, set_hurt>>
    BY <1>8 DEF Store!Write, Store!count
  <2>2. /\ set_pc' \in [Consoles -> {"idle", "loaded", "merged", "open"}]
        /\ set_pc'[p] = "idle" /\ \A q \in Consoles \ {p} : set_pc'[q] = set_pc[q]
    BY <1>1, <2>1, SetSteps
  <2>3. /\ set_on[p] \in Store!Files /\ l \in Docs /\ m \in Docs
        /\ set_file' \in [Store!Files -> Docs \cup {Store!Torn}] /\ set_file'[set_on[p]] = m
        /\ \A g \in Store!Files \ {set_on[p]} : set_file'[g] = set_file[g]
    BY <1>1, <2>1 DEF SetType
  <2>4. SetType'
    BY <1>1, <2>1, <2>2, <2>3 DEF SetType
  <2>5. ASSUME ~set_hurt
        PROVE  /\ Alone' /\ \A g \in Store!Files : (set_file'[g] = Store!Torn) <=> Store!Writing(g)'
               /\ \A g \in Store!Files : Fits(set_file'[g], g)
               /\ Store!Kept' /\ Store!Accepted' /\ 0 \notin set_handed'
               /\ \A q \in Consoles : set_pc'[q] # "idle" => CallFits(q)'
    <3>1. \A q \in Consoles : set_pc[q] # "idle" => q = p
      BY <2>1, <2>5 DEF SetInv, Alone
    <3>2. \A g : ~Store!Writing(g)' /\ (Store!Writing(g) <=> g = set_on[p])
      BY <2>1, <2>2, <3>1 DEF Store!Writing
    <3>3. CallFits(p)
      BY <2>1, <2>5 DEF SetInv
    <3>4. /\ Fits(l, set_on[p]) /\ Fits(m, set_on[p]) /\ l.has \subseteq m.has
          /\ \A n \in set_stored : Store!Home(n) = set_on[p] => n \in m.has
          /\ set_on[p] = "secrets" => \A k \in set_handed : m.key = k
          /\ l.key # 0 => m.key = l.key
      BY <2>1, <3>3 DEF CallFits
    <3> HIDE DEF l, m
    <3>5. \A g \in Store!Files : set_file'[g] # Store!Torn
      <4>1. ASSUME NEW g \in Store!Files, g # set_on[p] PROVE set_file[g] # Store!Torn
        BY <2>5, <3>2, <4>1 DEF SetInv
      <4> QED  BY <2>3, <4>1, Torns
    <3>6. \A g \in Store!Files : Fits(set_file'[g], g)
      <4>1. \A g \in Store!Files : Fits(set_file[g], g)
        BY <2>5 DEF SetInv
      <4> QED  BY <2>3, <3>4, <4>1
    <3>7. Store!Kept'
      <4> SUFFICES ASSUME NEW n \in set_stored' PROVE n \in set_file'[Store!Home(n)].has
        BY DEF Store!Kept
      <4>1. CASE Store!Home(n) = set_on[p]
        BY <2>1, <2>3, <3>4, <4>1
      <4>2. CASE Store!Home(n) # set_on[p]
        <5>1. n \in set_stored
          BY <2>1, <3>4, <4>2 DEF Fits
        <5> QED  BY <1>a, <2>3, <2>5, <3>2, <4>2, <5>1 DEF SetInv, Store!Kept
      <4> QED  BY <4>1, <4>2
    <3>8. Store!Accepted' /\ 0 \notin set_handed'
      <4>1. 0 \notin set_handed'
        BY <2>1, <2>5 DEF SetInv
      <4>2. CASE set_on[p] = "secrets"
        <5>1. \A k \in set_handed' : m.key = k
          BY <2>1, <3>4, <4>2
        <5> QED  BY <2>3, <4>1, <4>2, <5>1 DEF Store!Accepted
      <4>3. CASE set_on[p] = "settings"
        <5>1. l.key = 0
          BY <2>3, <3>4, <4>3 DEF Fits, Docs
        <5>2. "secrets" \in Store!Files /\ "secrets" # set_on[p]
          BY <1>a, <4>3
        <5> QED  BY <2>1, <2>3, <2>5, <3>2, <4>1, <5>1, <5>2 DEF SetInv, Store!Accepted
      <4> QED  BY <1>a, <2>3, <4>2, <4>3
    <3>9. Alone' /\ \A q \in Consoles : set_pc'[q] = "idle"
      <4>1. \A q \in Consoles : set_pc'[q] = "idle"
        BY <2>2, <3>1
      <4> QED  BY <4>1 DEF Alone
    <3> QED  BY <3>2, <3>5, <3>6, <3>7, <3>8, <3>9
  <2> QED  BY <2>1, <2>4, <2>5 DEF SetInv
<1>9. ASSUME NEW p \in Consoles, Store!Crash(p) PROVE SetInv'
  <2>1. /\ set_pc[p] # "idle" /\ set_pc' = [set_pc EXCEPT ![p] = "idle"]
        /\ set_hurt' = (set_hurt \/ set_pc[p] = "open")
        /\ UNCHANGED <<set_file, set_on, set_loaded, set_merged, set_keys, set_stored, set_handed>>
    BY <1>9 DEF Store!Crash
  <2>2. /\ set_pc' \in [Consoles -> {"idle", "loaded", "merged", "open"}]
        /\ set_pc'[p] = "idle" /\ \A q \in Consoles \ {p} : set_pc'[q] = set_pc[q]
    BY <1>1, <2>1, SetSteps
  <2>3. SetType'
    BY <1>1, <2>1, <2>2 DEF SetType
  <2>4. ASSUME ~set_hurt'
        PROVE  /\ Alone' /\ \A g \in Store!Files : (set_file'[g] = Store!Torn) <=> Store!Writing(g)'
               /\ \A g \in Store!Files : Fits(set_file'[g], g)
               /\ Store!Kept' /\ Store!Accepted' /\ 0 \notin set_handed'
               /\ \A q \in Consoles : set_pc'[q] # "idle" => CallFits(q)'
    <3>1. ~set_hurt /\ set_pc[p] # "open"
      BY <2>1, <2>4
    <3>2. \A q \in Consoles : set_pc'[q] = "idle"
      BY <2>1, <2>2, <3>1 DEF SetInv, Alone
    <3>3. \A g : Store!Writing(g)' = Store!Writing(g)
      <4>1. \A g : ~Store!Writing(g)' /\ ~Store!Writing(g)
        BY <2>1, <2>2, <3>1, <3>2 DEF SetInv, Alone, Store!Writing
      <4>2. \A g : Store!Writing(g)' \in BOOLEAN /\ Store!Writing(g) \in BOOLEAN
        BY DEF Store!Writing
      <4> QED  BY <4>1, <4>2
    <3> QED  BY <2>1, <3>1, <3>2, <3>3 DEF SetInv, Alone, Store!Kept, Store!Accepted, Fits
  <2> QED  BY <2>3, <2>4 DEF SetInv
<1> QED  BY <1>2, <1>3, <1>4, <1>5, <1>6, <1>7, <1>8, <1>9 DEF Store!Next

-----------------------------------------------------------------------------
(* The workspace. *)

WspMarks == [sha : Nat, stat : Nat]
WspRuns == [at : {"over", "walk", "digest", "stat", "delete", "read", "add", "save"},
            todo : SUBSET Paths, cur : Paths \cup {None}, sha : Nat, text : Nat,
            prev : [Paths -> WspMarks], next : [Paths -> WspMarks]]

WspType ==
    /\ wsp_file \in [Paths -> Nat] /\ wsp_edits \in Nat /\ wsp_manifest \in [Paths -> WspMarks]
    /\ wsp_run \in [Indexers -> WspRuns]

OneIndexer == \A p, q \in Indexers : wsp_run[p].at # "over" /\ wsp_run[q].at # "over" => p = q

Now(f) == wsp_file[f] \notin Large \cup {0}

\* A mark that lets a run skip the file tells the truth.
Good(f, m) ==
    Now(f) /\ m = [sha |-> wsp_file[f], stat |-> wsp_file[f]]
        => <<f, m>> \in wsp_failed \/ Workspace!Texts(f) = Workspace!Expected(f)

\* A version is new when it is made: no mark is of a later one.
Bounded(r) == \A f \in Paths : r.prev[f].stat <= wsp_edits /\ r.next[f].stat <= wsp_edits

Busy(r, f) == r.cur = f /\ r.at \in {"delete", "read", "add"}

\* The old manifest and the files that were found: until the run writes a new one, the manifest is
\* the one it began with, and a file whose mark may still be true is found.
Found(r) ==
    r.at \notin {"over", "save"} => \A f \in Paths :
        /\ wsp_manifest[f] = r.prev[f]
           \/ (r.prev[f].stat = 0 /\ r.next[f] = Workspace!NoMark /\ r.at = "walk" /\ r.todo = {})
        /\ Now(f) /\ wsp_manifest[f].stat = wsp_file[f]
             => f \in r.todo \/ (r.cur = f /\ r.at \in {"digest", "stat"}) \/ r.next[f].stat # 0

\* The file in hand: its digest is of the version of its time, unless that one is newer than the
\* manifest; what is deleted was not to be skipped; what is added is the text of that version.
InHand(r) ==
    /\ r.at \notin {"over", "walk", "save"} => r.cur \in Paths
    /\ r.at = "stat" /\ wsp_file[r.cur] # 0 /\ r.prev[r.cur].stat = wsp_file[r.cur] => r.sha = wsp_file[r.cur]
    /\ r.at \in {"delete", "read", "add"} /\ wsp_file[r.cur] # 0
         => wsp_manifest[r.cur] # [sha |-> wsp_file[r.cur], stat |-> wsp_file[r.cur]]
    /\ r.at \in {"read", "add"} => \A c \in wsp_chunks : c.path # r.cur
    /\ r.at = "add" => /\ r.text \notin Blank \cup {0}
                       /\ wsp_file[r.cur] # 0 /\ r.next[r.cur].stat = wsp_file[r.cur] => r.text = wsp_file[r.cur]

\* What the run will write into the manifest is true.
Claims(r) == r.at # "over" => \A f \in Paths : ~Busy(r, f) => Good(f, r.next[f])

WspInv ==
    /\ WspType /\ OneIndexer
    /\ \A f \in Paths : wsp_file[f] <= wsp_edits /\ wsp_manifest[f].stat <= wsp_edits
    /\ \A f \in Paths : Good(f, wsp_manifest[f])
    /\ \A p \in Indexers : LET r == wsp_run[p] IN Bounded(r) /\ Found(r) /\ InHand(r) /\ Claims(r)

LEMMA GoodSame ==
    ASSUME UNCHANGED <<wsp_file, wsp_chunks, wsp_failed>>, NEW f, NEW m
    PROVE  Good(f, m)' <=> Good(f, m)
BY DEF Good, Now, Workspace!Texts, Workspace!Expected, Workspace!Absent

\* A step about one file changes nothing for the others.
LEMMA GoodElse ==
    ASSUME UNCHANGED wsp_file, NEW g, \A c : c.path # g => (c \in wsp_chunks' <=> c \in wsp_chunks),
           \A h, n : h # g => (<<h, n>> \in wsp_failed' <=> <<h, n>> \in wsp_failed),
           NEW f, f # g, NEW m, Good(f, m)
    PROVE  Good(f, m)'
<1>1. {d \in wsp_chunks : d.path = f}' = {d \in wsp_chunks : d.path = f}
  OBVIOUS
<1>2. Workspace!Texts(f)' = Workspace!Texts(f)
  BY <1>1 DEF Workspace!Texts
<1>3. Workspace!Expected(f)' = Workspace!Expected(f)
  BY DEF Workspace!Expected, Workspace!Absent
<1>4. <<f, m>> \in wsp_failed' <=> <<f, m>> \in wsp_failed
  OBVIOUS
<1> QED  BY <1>2, <1>3, <1>4 DEF Good, Now

LEMMA WspTurn ==
    ASSUME WspInv, NEW p \in Indexers, NEW r \in WspRuns, Workspace!To(p, r),
           r.at # "over" => wsp_run[p].at # "over" \/ \A q \in Indexers : wsp_run[q].at = "over"
    PROVE  /\ wsp_run' \in [Indexers -> WspRuns] /\ OneIndexer'
           /\ wsp_run'[p] = r /\ \A q \in Indexers \ {p} : wsp_run'[q] = wsp_run[q]
<1>1. wsp_run \in [Indexers -> WspRuns] /\ wsp_run' = [wsp_run EXCEPT ![p] = r]
  BY DEF WspInv, WspType, Workspace!To
<1>2. wsp_run' \in [Indexers -> WspRuns]
  BY <1>1
<1>3. wsp_run'[p] = r /\ \A q \in Indexers \ {p} : wsp_run'[q] = wsp_run[q]
  BY <1>1
<1>4. OneIndexer'
  BY <1>3 DEF WspInv, OneIndexer
<1> QED  BY <1>2, <1>3, <1>4

\* A step of a run that leaves the collection and the manifest.
LEMMA WspMove ==
    ASSUME WspInv, NEW p \in Indexers, NEW r \in WspRuns, Workspace!To(p, r),
           UNCHANGED <<wsp_file, wsp_edits, wsp_manifest, wsp_chunks, wsp_failed>>,
           Bounded(r), Found(r), InHand(r), Claims(r),
           r.at # "over" => wsp_run[p].at # "over" \/ \A q \in Indexers : wsp_run[q].at = "over"
    PROVE  WspInv'
<1>1. /\ wsp_run' \in [Indexers -> WspRuns] /\ OneIndexer'
      /\ wsp_run'[p] = r /\ \A q \in Indexers \ {p} : wsp_run'[q] = wsp_run[q]
  BY WspTurn
<1>2. WspType'
  BY <1>1 DEF WspInv, WspType
<1>3. \A f, m : Good(f, m)' <=> Good(f, m)
  BY GoodSame
<1>4. ASSUME NEW q \in Indexers, NEW x, x = wsp_run'[q], Bounded(x), Found(x), InHand(x), Claims(x)
      PROVE  Bounded(wsp_run[q])' /\ Found(wsp_run[q])' /\ InHand(wsp_run[q])' /\ Claims(wsp_run[q])'
  <2>1. Bounded(wsp_run[q])' /\ InHand(wsp_run[q])'
    BY <1>4 DEF Bounded, InHand
  <2>2. Found(wsp_run[q])'
    BY <1>4 DEF Found, Now, Workspace!NoMark
  <2>3. Claims(wsp_run[q])'
    BY <1>3, <1>4 DEF Claims, Busy
  <2> QED  BY <2>1, <2>2, <2>3
<1>5. \A q \in Indexers : Bounded(wsp_run[q])' /\ Found(wsp_run[q])' /\ InHand(wsp_run[q])' /\ Claims(wsp_run[q])'
  <2> SUFFICES ASSUME NEW q \in Indexers
               PROVE  Bounded(wsp_run[q])' /\ Found(wsp_run[q])' /\ InHand(wsp_run[q])' /\ Claims(wsp_run[q])'
    OBVIOUS
  <2>1. CASE q = p
    BY <1>1, <1>4, <2>1
  <2>2. CASE q # p
    <3>1. PICK x : x = wsp_run[q]
      OBVIOUS
    <3>2. Bounded(x) /\ Found(x) /\ InHand(x) /\ Claims(x)
      BY <3>1 DEF WspInv
    <3> QED  BY <1>1, <1>4, <2>2, <3>1, <3>2
  <2> QED  BY <2>1, <2>2
<1>6. \A f \in Paths : (wsp_file[f] <= wsp_edits /\ wsp_manifest[f].stat <= wsp_edits)' /\ Good(f, wsp_manifest[f])'
  BY <1>3 DEF WspInv
<1> QED  BY <1>1, <1>2, <1>5, <1>6 DEF WspInv

\* A step of the one run that changes the collection or the manifest.
LEMMA WspWrite ==
    ASSUME WspInv, NEW p \in Indexers, NEW r \in WspRuns, Workspace!To(p, r), wsp_run[p].at # "over",
           UNCHANGED <<wsp_file, wsp_edits>>, wsp_manifest' \in [Paths -> WspMarks],
           \A f \in Paths : wsp_manifest'[f].stat <= wsp_edits, \A f \in Paths : Good(f, wsp_manifest[f])',
           Bounded(r), Found(r)', InHand(r)', Claims(r)'
    PROVE  WspInv'
<1>1. /\ wsp_run' \in [Indexers -> WspRuns] /\ OneIndexer'
      /\ wsp_run'[p] = r /\ \A q \in Indexers \ {p} : wsp_run'[q] = wsp_run[q]
  BY WspTurn
<1>2. WspType'
  BY <1>1 DEF WspInv, WspType
<1>3. ASSUME NEW q \in Indexers
      PROVE  Bounded(wsp_run[q])' /\ Found(wsp_run[q])' /\ InHand(wsp_run[q])' /\ Claims(wsp_run[q])'
  <2>1. CASE q = p
    BY <1>1, <2>1 DEF Bounded, Found, InHand, Claims, Busy
  <2>2. CASE q # p
    <3>1. wsp_run'[q] = wsp_run[q] /\ wsp_run[q].at = "over"
      BY <1>1, <2>2 DEF WspInv, OneIndexer
    <3>2. Bounded(wsp_run[q])
      BY DEF WspInv
    <3> QED  BY <3>1, <3>2 DEF Bounded, Found, InHand, Claims
  <2> QED  BY <2>1, <2>2
<1>4. \A f \in Paths : (wsp_file[f] <= wsp_edits /\ wsp_manifest[f].stat <= wsp_edits)'
  BY DEF WspInv
<1> QED  BY <1>1, <1>2, <1>3, <1>4 DEF WspInv

\* A run that goes on to the next file.
LEMMA WalkingFits ==
    ASSUME WspType, NEW x \in WspRuns, \A f \in Paths : wsp_manifest[f] = x.prev[f],
           \A f \in Paths : Now(f) /\ wsp_manifest[f].stat = wsp_file[f] => f \in x.todo \/ x.next[f].stat # 0,
           \A f \in Paths : Good(f, x.next[f]), Bounded(x)
    PROVE  LET w == Workspace!Walking(x)
           IN  w \in WspRuns /\ w.at = "walk" /\ Bounded(w) /\ Found(w) /\ InHand(w) /\ Claims(w)
<1> DEFINE w == Workspace!Walking(x)
<1>1. /\ w \in WspRuns /\ w.at = "walk" /\ w.cur = None /\ w.todo = x.todo
      /\ w.prev = x.prev /\ w.next = x.next
  BY DEF Workspace!Walking, WspRuns
<1> HIDE DEF w
<1>2. Bounded(w) /\ Found(w) /\ InHand(w) /\ Claims(w)
  BY <1>1 DEF Bounded, Found, InHand, Claims
<1> QED  BY <1>1, <1>2 DEF w

LEMMA WspEdited ==
    ASSUME WspInv, NEW f \in Paths, NEW v \in Nat, wsp_file' = [wsp_file EXCEPT ![f] = v],
           \/ v = 0 /\ wsp_edits' = wsp_edits
           \/ v = wsp_edits + 1 /\ wsp_edits' = wsp_edits + 1,
           UNCHANGED <<wsp_manifest, wsp_chunks, wsp_run, wsp_failed>>
    PROVE  WspInv'
<1>1. /\ WspType /\ \A g \in Paths : wsp_file[g] <= wsp_edits /\ wsp_manifest[g].stat <= wsp_edits
      /\ \A g \in Paths : Good(g, wsp_manifest[g])
  BY DEF WspInv
<1>2. wsp_file'[f] = v /\ (\A g \in Paths \ {f} : wsp_file'[g] = wsp_file[g]) /\ wsp_file' \in [Paths -> Nat]
  BY <1>1 DEF WspType
<1>3. wsp_edits' \in Nat /\ wsp_edits <= wsp_edits' /\ \A n \in Nat : n <= wsp_edits /\ v # 0 => n # v
  BY <1>1 DEF WspType
<1>4. WspType' /\ \A g \in Paths : (wsp_file[g] <= wsp_edits /\ wsp_manifest[g].stat <= wsp_edits)'
  <2>1. WspType'
    BY <1>1, <1>2, <1>3 DEF WspType
  <2>2. v <= wsp_edits'
    BY <1>1 DEF WspType
  <2>3. \A g \in Paths : wsp_file[g] \in Nat /\ wsp_manifest[g].stat \in Nat /\ wsp_edits \in Nat
    BY <1>1 DEF WspType, WspMarks
  <2> QED  BY <1>1, <1>2, <1>3, <2>1, <2>2, <2>3
<1>5. ASSUME NEW g \in Paths, NEW m \in WspMarks, m.stat <= wsp_edits, Good(g, m)
      PROVE  Good(g, m)'
  <2>1. CASE g = f
    <3>1. m.stat # v \/ v = 0
      BY <1>3, <1>5 DEF WspMarks
    <3>2. m = [sha |-> v, stat |-> v] => m.stat = v
      OBVIOUS
    <3> QED  BY <1>2, <2>1, <3>1, <3>2 DEF Good, Now
  <2>2. CASE g # f
    <3>1. wsp_file'[g] = wsp_file[g]
      BY <1>2, <2>2
    <3> QED  BY <1>5, <3>1 DEF Good, Now, Workspace!Texts, Workspace!Expected, Workspace!Absent
  <2> QED  BY <2>1, <2>2
<1>6. \A g \in Paths : Good(g, wsp_manifest[g])'
  <2> SUFFICES ASSUME NEW g \in Paths PROVE Good(g, wsp_manifest[g])'
    OBVIOUS
  <2>1. PICK m \in WspMarks : m = wsp_manifest[g]
    BY <1>1 DEF WspType
  <2>2. Good(g, m)'
    BY <1>1, <1>5, <2>1
  <2> QED  BY <2>1, <2>2 DEF Good
<1>7. ASSUME NEW p \in Indexers
      PROVE  Bounded(wsp_run[p])' /\ Found(wsp_run[p])' /\ InHand(wsp_run[p])' /\ Claims(wsp_run[p])'
  <2>1. PICK r \in WspRuns : r = wsp_run[p] /\ r = wsp_run'[p]
    BY <1>1 DEF WspType
  <2>2. Bounded(r) /\ Found(r) /\ InHand(r) /\ Claims(r)
    BY <2>1 DEF WspInv
  <2>3. \A g \in Paths : r.prev[g] \in WspMarks /\ r.next[g] \in WspMarks /\ wsp_manifest[g] \in WspMarks
    BY <1>1 DEF WspRuns, WspType
  <2>4. \A g \in Paths : r.prev[g].stat <= wsp_edits /\ r.next[g].stat <= wsp_edits
                         /\ r.prev[g].stat \in Nat /\ r.next[g].stat \in Nat /\ wsp_manifest[g].stat \in Nat
    BY <2>2, <2>3 DEF Bounded, WspMarks
  <2>5. Bounded(r)'
    BY <1>1, <1>3, <2>4 DEF Bounded, WspType
  <2>6. Found(r)'
    <3> SUFFICES ASSUME r.at \notin {"over", "save"}, NEW g \in Paths
                 PROVE  /\ wsp_manifest[g] = r.prev[g]
                           \/ (r.prev[g].stat = 0 /\ r.next[g] = Workspace!NoMark /\ r.at = "walk" /\ r.todo = {})
                        /\ Now(g)' /\ wsp_manifest[g].stat = wsp_file'[g]
                             => g \in r.todo \/ (r.cur = g /\ r.at \in {"digest", "stat"}) \/ r.next[g].stat # 0
      BY DEF Found, Workspace!NoMark
    <3>1. CASE g = f
      <4>1. ~(Now(g)' /\ wsp_manifest[g].stat = wsp_file'[g])
        BY <1>1, <1>2, <1>3, <2>4, <3>1 DEF Now
      <4> QED  BY <2>2, <4>1 DEF Found
    <3>2. CASE g # f
      BY <1>2, <2>2, <3>2 DEF Found, Now
    <3> QED  BY <3>1, <3>2
  <2>7. InHand(r)'
    <3>1. CASE r.at \in {"over", "walk", "save"}
      BY <3>1 DEF InHand
    <3>2. CASE r.at \notin {"over", "walk", "save"} /\ r.cur # f
      <4>1. r.cur \in Paths /\ wsp_file'[r.cur] = wsp_file[r.cur]
        BY <1>2, <2>2, <3>2 DEF InHand
      <4> QED  BY <2>2, <3>2, <4>1 DEF InHand
    <3>3. CASE r.at \notin {"over", "walk", "save"} /\ r.cur = f
      <4>1. v # 0 => r.prev[f].stat # v /\ r.next[f].stat # v /\ wsp_manifest[f].stat # v
        BY <1>1, <1>3, <2>4
      <4>2. wsp_manifest[f] = [sha |-> v, stat |-> v] => wsp_manifest[f].stat = v
        OBVIOUS
      <4> QED  BY <1>2, <2>2, <3>3, <4>1, <4>2 DEF InHand
    <3> QED  BY <3>1, <3>2, <3>3
  <2>8. Claims(r)'
    BY <1>5, <2>2, <2>3, <2>4 DEF Claims, Busy
  <2> QED  BY <2>1, <2>5, <2>6, <2>7, <2>8 DEF Bounded, Found, InHand, Claims, Busy
<1> QED  BY <1>4, <1>6, <1>7 DEF WspInv, OneIndexer

LEMMA WspStep == ASSUME WspInv, ~Overlaps, Workspace!Next PROVE WspInv'
<1>1. /\ WspType /\ OneIndexer /\ \A f \in Paths : wsp_file[f] <= wsp_edits /\ wsp_manifest[f].stat <= wsp_edits
      /\ \A f \in Paths : Good(f, wsp_manifest[f])
  BY DEF WspInv
<1>2. \A p \in Indexers : /\ wsp_run[p] \in WspRuns /\ Bounded(wsp_run[p]) /\ Found(wsp_run[p])
                          /\ InHand(wsp_run[p]) /\ Claims(wsp_run[p])
  BY DEF WspInv, WspType
<1>n. Workspace!NoMark \in WspMarks /\ Workspace!NoMark.stat = 0 /\ Workspace!Empty \in [Paths -> WspMarks]
      /\ \A f \in Paths : Workspace!Empty[f] = Workspace!NoMark
  BY DEF Workspace!NoMark, Workspace!Empty, WspMarks
<1>g. \A f \in Paths : Good(f, Workspace!NoMark)
  <2> SUFFICES ASSUME NEW f \in Paths, Now(f), Workspace!NoMark = [sha |-> wsp_file[f], stat |-> wsp_file[f]]
               PROVE  FALSE
    BY DEF Good
  <2>1. Workspace!NoMark.stat = wsp_file[f]
    OBVIOUS
  <2> QED  BY <1>n, <2>1 DEF Now
<1>o. LET o == Workspace!Over
      IN  o \in WspRuns /\ o.at = "over" /\ Bounded(o) /\ Found(o) /\ InHand(o) /\ Claims(o)
  <2> DEFINE o == Workspace!Over
  <2>1. o \in WspRuns /\ o.at = "over" /\ o.prev = Workspace!Empty /\ o.next = Workspace!Empty
    BY <1>n DEF Workspace!Over, WspRuns
  <2> HIDE DEF o
  <2>2. Bounded(o)
    BY <1>1, <1>n, <2>1 DEF Bounded, WspType
  <2>3. Found(o) /\ InHand(o) /\ Claims(o)
    BY <2>1 DEF Found, InHand, Claims
  <2> QED  BY <2>1, <2>2, <2>3 DEF o
<1>3. ASSUME NEW f \in Paths, Workspace!Edit(f) PROVE WspInv'
  <2>1. wsp_edits \in Nat /\ wsp_edits + 1 \in Nat
    BY <1>1 DEF WspType
  <2>2. wsp_edits' = wsp_edits + 1 /\ wsp_file' = [wsp_file EXCEPT ![f] = wsp_edits + 1]
        /\ UNCHANGED <<wsp_manifest, wsp_chunks, wsp_run, wsp_failed>>
    BY <1>3 DEF Workspace!Edit
  <2> QED  BY <2>1, <2>2, WspEdited
<1>4. ASSUME NEW f \in Paths, Workspace!Remove(f) PROVE WspInv'
  BY <1>4, WspEdited DEF Workspace!Remove, Workspace!Absent
<1>5. ASSUME NEW p \in Indexers, Workspace!To(p, Workspace!Over),
             UNCHANGED <<wsp_file, wsp_edits, wsp_manifest, wsp_chunks, wsp_failed>>
      PROVE  WspInv'
  <2>1. PICK r \in WspRuns : r = Workspace!Over /\ r.at = "over" /\ Bounded(r) /\ Found(r) /\ InHand(r) /\ Claims(r)
    BY <1>o
  <2> QED  BY <1>5, <2>1, WspMove
<1>6. ASSUME NEW p \in Indexers, Workspace!Begin(p) PROVE WspInv'
  <2> DEFINE T == {f \in Paths : wsp_file[f] # Workspace!Absent}
  <2>1. /\ \A q \in Indexers : wsp_run[q].at = "over"
        /\ Workspace!To(p, [at |-> "walk", todo |-> T, cur |-> None, sha |-> 0, text |-> 0,
                            prev |-> wsp_manifest, next |-> Workspace!Empty])
        /\ UNCHANGED <<wsp_file, wsp_edits, wsp_manifest, wsp_chunks, wsp_failed>>
    BY <1>6 DEF Workspace!Begin
  <2>2. T \subseteq Paths /\ \A f \in Paths : Now(f) => f \in T
    BY DEF Now, Workspace!Absent
  <2> HIDE DEF T
  <2>3. PICK r \in WspRuns : r = [at |-> "walk", todo |-> T, cur |-> None, sha |-> 0, text |-> 0,
                                  prev |-> wsp_manifest, next |-> Workspace!Empty]
    BY <1>1, <1>n, <2>2 DEF WspRuns, WspType
  <2>4. r.at = "walk" /\ r.todo = T /\ r.prev = wsp_manifest /\ r.next = Workspace!Empty
    BY <2>3
  <2>5. Bounded(r)
    BY <1>1, <1>n, <2>4 DEF Bounded, WspType
  <2>6. Found(r) /\ InHand(r) /\ Claims(r)
    BY <1>n, <1>g, <2>2, <2>4 DEF Found, InHand, Claims
  <2> QED  BY <2>1, <2>3, <2>5, <2>6, WspMove
<1>7. ASSUME NEW p \in Indexers, NEW f \in Paths, Workspace!Visit(p, f) PROVE WspInv'
  <2> DEFINE s == wsp_run[p]
             w == [s EXCEPT !.todo = @ \ {f}]
             x == [w EXCEPT !.at = "digest", !.cur = f]
  <2>1. /\ s.at = "walk" /\ f \in s.todo /\ UNCHANGED <<wsp_file, wsp_edits, wsp_manifest, wsp_chunks, wsp_failed>>
        /\ Workspace!To(p, IF wsp_file[f] = 0 THEN Workspace!Over
                           ELSE IF wsp_file[f] \in Large THEN w ELSE x)
    BY <1>7 DEF Workspace!Visit, Workspace!Calm, Workspace!Absent
  <2>2. s \in WspRuns /\ Bounded(s) /\ Found(s) /\ Claims(s)
    BY <1>2
  <2>3. CASE wsp_file[f] = 0
    BY <1>5, <2>1, <2>3
  <2>4. CASE wsp_file[f] # 0 /\ wsp_file[f] \in Large
    <3>1. w \in WspRuns /\ w.at = s.at /\ w.todo = s.todo \ {f} /\ w.prev = s.prev /\ w.next = s.next /\ w.cur = s.cur
      BY <2>2 DEF WspRuns
    <3>2. PICK r \in WspRuns : r = w
      BY <3>1
    <3> HIDE DEF w, s
    <3>3. Bounded(r) /\ InHand(r)
      BY <2>1, <2>2, <3>1, <3>2 DEF Bounded, InHand
    <3>4. Found(r)
      BY <2>1, <2>2, <2>4, <3>1, <3>2 DEF Found, Now
    <3>5. Claims(r)
      BY <2>1, <2>2, <3>1, <3>2 DEF Claims, Busy
    <3>6. Workspace!To(p, r) /\ wsp_run[p].at # "over"
      BY <2>1, <2>4, <3>2 DEF s
    <3> QED  BY <2>1, <3>3, <3>4, <3>5, <3>6, WspMove
  <2>5. CASE wsp_file[f] # 0 /\ wsp_file[f] \notin Large
    <3>1. /\ x \in WspRuns /\ x.at = "digest" /\ x.todo = s.todo \ {f} /\ x.prev = s.prev
          /\ x.next = s.next /\ x.cur = f
      BY <2>2 DEF WspRuns
    <3>2. PICK r \in WspRuns : r = x
      BY <3>1
    <3> HIDE DEF x, s
    <3>3. Bounded(r) /\ InHand(r)
      BY <2>1, <2>2, <3>1, <3>2 DEF Bounded, InHand
    <3>4. Found(r)
      BY <2>1, <2>2, <3>1, <3>2 DEF Found, Now
    <3>5. Claims(r)
      BY <2>1, <2>2, <3>1, <3>2 DEF Claims, Busy
    <3>6. Workspace!To(p, r) /\ wsp_run[p].at # "over"
      BY <2>1, <2>5, <3>2 DEF s
    <3> QED  BY <2>1, <3>3, <3>4, <3>5, <3>6, WspMove
  <2> QED  BY <2>3, <2>4, <2>5
\* In the middle of a file, nothing of the old manifest has been crossed out.
<1>8. ASSUME NEW p \in Indexers, wsp_run[p].at \in {"digest", "stat", "delete", "read", "add"}
      PROVE  LET r == wsp_run[p]
             IN  /\ r \in WspRuns /\ r.cur \in Paths /\ \A f \in Paths : wsp_manifest[f] = r.prev[f]
                 /\ \A f \in Paths : Now(f) /\ wsp_manifest[f].stat = wsp_file[f]
                       => f \in r.todo \/ (r.cur = f /\ r.at \in {"digest", "stat"}) \/ r.next[f].stat # 0
                 /\ Bounded(r) /\ \A f \in Paths : f # r.cur \/ r.at \in {"digest", "stat"} => Good(f, r.next[f])
  <2> DEFINE r == wsp_run[p]
  <2>1. r \in WspRuns /\ Bounded(r) /\ Found(r) /\ InHand(r) /\ Claims(r)
    BY <1>2
  <2> HIDE DEF r
  <2>2. r.at \in {"digest", "stat", "delete", "read", "add"}
    BY <1>8 DEF r
  <2>3. r.cur \in Paths
    BY <2>1, <2>2 DEF InHand
  <2>4. \A f \in Paths : wsp_manifest[f] = r.prev[f]
    BY <2>1, <2>2 DEF Found
  <2>5. \A f \in Paths : Now(f) /\ wsp_manifest[f].stat = wsp_file[f]
           => f \in r.todo \/ (r.cur = f /\ r.at \in {"digest", "stat"}) \/ r.next[f].stat # 0
    BY <2>1, <2>2 DEF Found
  <2>6. \A f \in Paths : f # r.cur \/ r.at \in {"digest", "stat"} => Good(f, r.next[f])
    BY <2>1, <2>2 DEF Claims, Busy
  <2> QED  BY <2>1, <2>3, <2>4, <2>5, <2>6 DEF r
<1>9. ASSUME NEW p \in Indexers, wsp_run[p].at # "over", NEW x \in WspRuns, Workspace!To(p, Workspace!Walking(x)),
             UNCHANGED <<wsp_file, wsp_edits, wsp_manifest, wsp_chunks, wsp_failed>>,
             \A f \in Paths : wsp_manifest[f] = x.prev[f],
             \A f \in Paths : Now(f) /\ wsp_manifest[f].stat = wsp_file[f] => f \in x.todo \/ x.next[f].stat # 0,
             \A f \in Paths : Good(f, x.next[f]), Bounded(x)
      PROVE  WspInv'
  <2>1. PICK w \in WspRuns : w = Workspace!Walking(x) /\ Bounded(w) /\ Found(w) /\ InHand(w) /\ Claims(w)
    BY <1>1, <1>9, WalkingFits
  <2> QED  BY <1>9, <2>1, WspMove
<1>10. ASSUME NEW p \in Indexers, Workspace!Digest(p) PROVE WspInv'
  <2> DEFINE s == wsp_run[p]
             x == [s EXCEPT !.at = "stat", !.sha = wsp_file[s.cur]]
  <2>1. /\ s.at = "digest" /\ UNCHANGED <<wsp_file, wsp_edits, wsp_manifest, wsp_chunks, wsp_failed>>
        /\ Workspace!To(p, IF wsp_file[s.cur] = 0 THEN Workspace!Walking(s) ELSE x)
    BY <1>10 DEF Workspace!Digest, Workspace!Calm, Workspace!Absent
  <2>2. /\ s \in WspRuns /\ s.cur \in Paths /\ \A f \in Paths : wsp_manifest[f] = s.prev[f]
        /\ \A f \in Paths : Now(f) /\ wsp_manifest[f].stat = wsp_file[f]
              => f \in s.todo \/ s.cur = f \/ s.next[f].stat # 0
        /\ Bounded(s) /\ \A f \in Paths : Good(f, s.next[f])
    BY <1>8, <2>1
  <2>3. CASE wsp_file[s.cur] = 0
    <3>1. \A f \in Paths : Now(f) /\ wsp_manifest[f].stat = wsp_file[f] => f \in s.todo \/ s.next[f].stat # 0
      BY <2>2, <2>3 DEF Now
    <3>2. wsp_run[p].at # "over" /\ Workspace!To(p, Workspace!Walking(s))
      BY <2>1, <2>3
    <3> HIDE DEF s
    <3> QED  BY <1>9, <2>1, <2>2, <3>1, <3>2
  <2>4. CASE wsp_file[s.cur] # 0
    <3>1. wsp_file[s.cur] \in Nat
      BY <1>1, <2>2 DEF WspType
    <3>2. /\ x \in WspRuns /\ x.at = "stat" /\ x.todo = s.todo /\ x.prev = s.prev
          /\ x.next = s.next /\ x.cur = s.cur /\ x.sha = wsp_file[s.cur]
      BY <2>2, <3>1 DEF WspRuns
    <3>3. PICK r \in WspRuns : r = x
      BY <3>2
    <3>4. Workspace!To(p, r) /\ wsp_run[p].at # "over"
      BY <2>1, <2>4, <3>3
    <3> HIDE DEF x, s
    <3>5. Bounded(r) /\ InHand(r)
      BY <2>2, <3>2, <3>3 DEF Bounded, InHand
    <3>6. Found(r)
      BY <2>2, <3>2, <3>3 DEF Found
    <3>7. Claims(r)
      BY <2>2, <3>2, <3>3 DEF Claims
    <3> QED  BY <2>1, <3>4, <3>5, <3>6, <3>7, WspMove
  <2> QED  BY <2>3, <2>4
<1>11. ASSUME NEW p \in Indexers, Workspace!Stat(p) PROVE WspInv'
  <2> DEFINE s == wsp_run[p]
             f == s.cur
             mark == [sha |-> s.sha, stat |-> wsp_file[f]]
             y == [s EXCEPT !.next[f] = mark]
             x == [y EXCEPT !.at = "delete"]
  <2>1. /\ s.at = "stat" /\ UNCHANGED <<wsp_file, wsp_edits, wsp_manifest, wsp_chunks, wsp_failed>>
        /\ Workspace!To(p, IF wsp_file[f] = 0 THEN Workspace!Walking(s)
                           ELSE IF s.prev[f] = mark THEN Workspace!Walking(y) ELSE x)
    BY <1>11 DEF Workspace!Stat, Workspace!Calm, Workspace!Absent
  <2>2. /\ s \in WspRuns /\ f \in Paths /\ \A g \in Paths : wsp_manifest[g] = s.prev[g]
        /\ \A g \in Paths : Now(g) /\ wsp_manifest[g].stat = wsp_file[g]
              => g \in s.todo \/ f = g \/ s.next[g].stat # 0
        /\ Bounded(s) /\ \A g \in Paths : Good(g, s.next[g])
    BY <1>8, <2>1
  <2>3. wsp_run[p].at # "over"
    BY <2>1
  <2>4. wsp_file[f] \in Nat /\ wsp_file[f] <= wsp_edits /\ s.sha \in Nat
    BY <1>1, <2>2 DEF WspType, WspRuns
  <2>5. mark \in WspMarks /\ mark.stat = wsp_file[f] /\ mark.sha = s.sha
    BY <2>4 DEF WspMarks
  <2>6. InHand(s)
    BY <1>2
  <2>7. wsp_file[f] # 0 /\ s.prev[f].stat = wsp_file[f] => s.sha = wsp_file[f]
    BY <2>1, <2>6 DEF InHand
  <2>8. CASE wsp_file[f] = 0
    <3>1. \A g \in Paths : Now(g) /\ wsp_manifest[g].stat = wsp_file[g] => g \in s.todo \/ s.next[g].stat # 0
      BY <2>2, <2>8 DEF Now
    <3>2. Workspace!To(p, Workspace!Walking(s))
      BY <2>1, <2>8
    <3> HIDE DEF s
    <3> QED  BY <1>9, <2>1, <2>2, <2>3, <3>1, <3>2
  <2> HIDE DEF mark
  <2>9. y \in WspRuns /\ y.at = s.at /\ y.todo = s.todo /\ y.prev = s.prev /\ y.cur = f
        /\ y.next[f] = mark /\ \A g \in Paths \ {f} : y.next[g] = s.next[g]
    <3>1. s.next \in [Paths -> WspMarks] /\ [s.next EXCEPT ![f] = mark] \in [Paths -> WspMarks]
      BY <2>2, <2>5 DEF WspRuns
    <3> QED  BY <2>2, <2>5, <3>1 DEF WspRuns
  <2> HIDE DEF y
  <2>10. Bounded(y)
    BY <2>2, <2>4, <2>5, <2>9 DEF Bounded
  <2>11. \A g \in Paths : Now(g) /\ wsp_manifest[g].stat = wsp_file[g] => g \in s.todo \/ y.next[g].stat # 0
    BY <2>2, <2>5, <2>9 DEF Now
  <2>12. CASE wsp_file[f] # 0 /\ s.prev[f] = mark
    <3>1. Good(f, mark)
      BY <1>1, <2>2, <2>12
    <3>2. Workspace!To(p, Workspace!Walking(y))
      BY <2>1, <2>12
    <3>3. \A g \in Paths : Good(g, y.next[g])
      BY <2>2, <2>9, <3>1
    <3> HIDE DEF s, f
    <3> QED  BY <1>9, <2>1, <2>2, <2>3, <2>9, <2>10, <2>11, <3>2, <3>3
  <2>13. CASE wsp_file[f] # 0 /\ s.prev[f] # mark
    <3>1. Workspace!To(p, x)
      BY <2>1, <2>13
    <3>2. /\ x \in WspRuns /\ x.at = "delete" /\ x.todo = y.todo /\ x.prev = y.prev
          /\ x.next = y.next /\ x.cur = y.cur
      BY <2>9 DEF WspRuns
    <3>3. PICK r \in WspRuns : r = x
      BY <3>2
    <3>4. wsp_manifest[f] # [sha |-> wsp_file[f], stat |-> wsp_file[f]]
      <4> SUFFICES ASSUME wsp_manifest[f] = [sha |-> wsp_file[f], stat |-> wsp_file[f]] PROVE FALSE
        OBVIOUS
      <4>1. s.prev[f] = [sha |-> wsp_file[f], stat |-> wsp_file[f]]
        BY <2>2
      <4>2. s.prev[f].stat = wsp_file[f]
        BY <4>1
      <4> QED  BY <2>7, <2>13, <4>1, <4>2 DEF mark
    <3> HIDE DEF x, s, f
    <3>5. Bounded(r) /\ InHand(r)
      BY <2>2, <2>9, <2>10, <3>2, <3>3, <3>4 DEF Bounded, InHand
    <3>6. Found(r)
      BY <2>2, <2>9, <2>11, <3>2, <3>3 DEF Found
    <3>7. Claims(r)
      BY <2>2, <2>9, <3>2, <3>3 DEF Claims, Busy
    <3> QED  BY <2>1, <2>3, <3>1, <3>3, <3>5, <3>6, <3>7, WspMove
  <2> QED  BY <2>8, <2>12, <2>13
<1>12. ASSUME NEW p \in Indexers, Workspace!ReadFile(p) PROVE WspInv'
  <2> DEFINE s == wsp_run[p]
             f == s.cur
             v == wsp_file[f]
             x == [s EXCEPT !.at = "add", !.text = v]
  <2>1. /\ s.at = "read" /\ UNCHANGED <<wsp_file, wsp_edits, wsp_manifest, wsp_chunks, wsp_failed>>
        /\ Workspace!To(p, IF v = 0 \/ v \in Blank THEN Workspace!Walking(s) ELSE x)
    BY <1>12 DEF Workspace!ReadFile, Workspace!Calm, Workspace!Absent
  <2>2. /\ s \in WspRuns /\ f \in Paths /\ \A g \in Paths : wsp_manifest[g] = s.prev[g]
        /\ \A g \in Paths : Now(g) /\ wsp_manifest[g].stat = wsp_file[g]
              => g \in s.todo \/ s.next[g].stat # 0
        /\ Bounded(s) /\ \A g \in Paths : g # f => Good(g, s.next[g])
    BY <1>8, <2>1
  <2>3. wsp_run[p].at # "over"
    BY <2>1
  <2>4. InHand(s)
    BY <1>2
  <2>5. \A c \in wsp_chunks : c.path # f
    BY <2>1, <2>4 DEF InHand
  <2>6. v \in Nat
    BY <1>1, <2>2 DEF WspType
  <2>7. CASE v = 0 \/ v \in Blank
    <3>1. Good(f, s.next[f])
      <4>1. Workspace!Texts(f) = {}
        BY <2>5 DEF Workspace!Texts
      <4>2. Workspace!Expected(f) = {}
        BY <2>7 DEF Workspace!Expected, Workspace!Absent
      <4> QED  BY <4>1, <4>2 DEF Good
    <3>2. \A g \in Paths : Good(g, s.next[g])
      BY <2>2, <3>1
    <3>3. Workspace!To(p, Workspace!Walking(s))
      BY <2>1, <2>7
    <3> HIDE DEF s, f, v
    <3> QED  BY <1>9, <2>1, <2>2, <2>3, <3>2, <3>3
  <2>8. CASE ~(v = 0 \/ v \in Blank)
    <3>1. Workspace!To(p, x)
      BY <2>1, <2>8
    <3>2. /\ x \in WspRuns /\ x.at = "add" /\ x.todo = s.todo /\ x.prev = s.prev
          /\ x.next = s.next /\ x.cur = f /\ x.text = v
      BY <2>2, <2>6 DEF WspRuns
    <3>3. PICK r \in WspRuns : r = x
      BY <3>2
    <3>4. wsp_file[f] # 0 => wsp_manifest[f] # [sha |-> wsp_file[f], stat |-> wsp_file[f]]
      BY <2>1, <2>4 DEF InHand
    <3>5. v = wsp_file[f]
      OBVIOUS
    <3> HIDE DEF x, s, f, v
    <3>6. Bounded(r)
      BY <2>2, <3>2, <3>3 DEF Bounded
    <3>7. InHand(r)
      BY <2>2, <2>5, <2>8, <3>2, <3>3, <3>4, <3>5 DEF InHand
    <3>8. Found(r)
      BY <2>2, <3>2, <3>3 DEF Found
    <3>9. Claims(r)
      BY <2>2, <3>2, <3>3 DEF Claims, Busy
    <3> QED  BY <2>1, <2>3, <3>1, <3>3, <3>6, <3>7, <3>8, <3>9, WspMove
  <2> QED  BY <2>7, <2>8
<1>13. ASSUME NEW p \in Indexers, Workspace!Delete(p) PROVE WspInv'
  <2> DEFINE s == wsp_run[p]
             f == s.cur
             x == [s EXCEPT !.at = "read"]
  <2>1. /\ s.at = "delete" /\ UNCHANGED <<wsp_file, wsp_edits, wsp_manifest, wsp_failed>>
        /\ wsp_chunks' = {c \in wsp_chunks : c.path # f} /\ Workspace!To(p, x)
    BY <1>13 DEF Workspace!Delete, Workspace!Calm, Workspace!Without
  <2>2. /\ s \in WspRuns /\ f \in Paths /\ \A g \in Paths : wsp_manifest[g] = s.prev[g]
        /\ \A g \in Paths : Now(g) /\ wsp_manifest[g].stat = wsp_file[g]
              => g \in s.todo \/ s.next[g].stat # 0
        /\ Bounded(s) /\ \A g \in Paths : g # f => Good(g, s.next[g])
    BY <1>8, <2>1
  <2>3. wsp_run[p].at # "over"
    BY <2>1
  <2>4. InHand(s)
    BY <1>2
  <2>5. wsp_file[f] # 0 => wsp_manifest[f] # [sha |-> wsp_file[f], stat |-> wsp_file[f]]
    BY <2>1, <2>4 DEF InHand
  <2>6. /\ x \in WspRuns /\ x.at = "read" /\ x.todo = s.todo /\ x.prev = s.prev
        /\ x.next = s.next /\ x.cur = f
    BY <2>2 DEF WspRuns
  <2>7. PICK r \in WspRuns : r = x
    BY <2>6
  <2>a. PICK e : e = f
    OBVIOUS
  <2> HIDE DEF x, s, f
  <2>b. /\ \A c : c.path # e => (c \in wsp_chunks' <=> c \in wsp_chunks)
        /\ \A h, n : h # e => (<<h, n>> \in wsp_failed' <=> <<h, n>> \in wsp_failed)
    BY <2>1, <2>a
  <2>8. \A g, m : g # e /\ Good(g, m) => Good(g, m)'
    BY <2>1, <2>b, GoodElse
  <2>9. Good(e, wsp_manifest[e])'
    BY <2>1, <2>5, <2>a DEF Good, Now
  <2>10. ASSUME NEW g \in Paths PROVE Good(g, wsp_manifest[g])'
    <3>1. CASE g = e
      BY <2>9, <3>1
    <3>2. CASE g # e
      <4>1. PICK m : m = wsp_manifest[g] /\ m = wsp_manifest'[g]
        BY <2>1
      <4>2. Good(g, m)'
        BY <1>1, <2>8, <3>2, <4>1
      <4> QED  BY <4>1, <4>2 DEF Good
    <3> QED  BY <3>1, <3>2
  <2>11. Found(r)'
    BY <2>1, <2>2, <2>6, <2>7 DEF Found, Now
  <2>12. InHand(r)'
    BY <2>1, <2>2, <2>5, <2>6, <2>7 DEF InHand
  <2>13. Claims(r)'
    BY <2>2, <2>6, <2>7, <2>8, <2>a DEF Claims, Busy
  <2>14. Bounded(r)
    BY <2>2, <2>6, <2>7 DEF Bounded
  <2>15. wsp_manifest' \in [Paths -> WspMarks] /\ \A g \in Paths : wsp_manifest'[g].stat <= wsp_edits
    BY <1>1, <2>1 DEF WspType
  <2> QED  BY <2>1, <2>3, <2>7, <2>10, <2>11, <2>12, <2>13, <2>14, <2>15, WspWrite
\* A step that ends the work on a file, of which everything that is claimed is true by then.
<1>14. ASSUME NEW p \in Indexers, wsp_run[p].at \in {"delete", "add"}, Workspace!To(p, Workspace!Walking(wsp_run[p])),
              UNCHANGED <<wsp_file, wsp_edits, wsp_manifest>>,
              NEW e, NEW n, e = wsp_run[p].cur, n = wsp_run[p].next[e], Good(e, n)',
              \A c : c.path # e => (c \in wsp_chunks' <=> c \in wsp_chunks),
              \A h, k : h # e => (<<h, k>> \in wsp_failed' <=> <<h, k>> \in wsp_failed)
       PROVE  WspInv'
  <2> DEFINE s == wsp_run[p]
             f == s.cur
  <2>2. /\ s \in WspRuns /\ f \in Paths /\ \A g \in Paths : wsp_manifest[g] = s.prev[g]
        /\ \A g \in Paths : Now(g) /\ wsp_manifest[g].stat = wsp_file[g]
              => g \in s.todo \/ s.next[g].stat # 0
        /\ Bounded(s) /\ \A g \in Paths : g # f => Good(g, s.next[g])
    BY <1>8, <1>14
  <2>3. wsp_run[p].at # "over"
    BY <1>14
  <2>4. InHand(s)
    BY <1>2
  <2>5. wsp_file[f] # 0 => wsp_manifest[f] # [sha |-> wsp_file[f], stat |-> wsp_file[f]]
    BY <1>14, <2>4 DEF InHand
  <2>6. LET w == Workspace!Walking(s)
        IN  /\ w \in WspRuns /\ w.at = "walk" /\ w.todo = s.todo /\ w.prev = s.prev
            /\ w.next = s.next /\ w.cur = None
    BY <2>2 DEF Workspace!Walking, WspRuns
  <2>7. PICK r \in WspRuns : /\ r = Workspace!Walking(s) /\ r.at = "walk" /\ r.todo = s.todo /\ r.prev = s.prev
                             /\ r.next = s.next /\ r.cur = None
    BY <2>6
  <2>a. e = f /\ n = s.next[f]
    BY <1>14
  <2>b. /\ \A c : c.path # e => (c \in wsp_chunks' <=> c \in wsp_chunks)
        /\ \A h, k : h # e => (<<h, k>> \in wsp_failed' <=> <<h, k>> \in wsp_failed)
    BY <1>14
  <2> HIDE DEF s, f
  <2>8. \A g, m : g # e /\ Good(g, m) => Good(g, m)'
    BY <1>14, <2>b, GoodElse
  <2>9. Good(e, wsp_manifest[e])'
    BY <1>14, <2>5, <2>a DEF Good, Now
  <2>10. ASSUME NEW g \in Paths PROVE Good(g, wsp_manifest[g])'
    <3>1. CASE g = e
      BY <2>9, <3>1
    <3>2. CASE g # e
      <4>1. PICK m : m = wsp_manifest[g] /\ m = wsp_manifest'[g]
        BY <1>14
      <4>2. Good(g, m)'
        BY <1>1, <2>8, <3>2, <4>1
      <4> QED  BY <4>1, <4>2 DEF Good
    <3> QED  BY <3>1, <3>2
  <2>11. Found(r)'
    BY <1>14, <2>2, <2>7 DEF Found, Now
  <2>12. InHand(r)'
    BY <2>7 DEF InHand
  <2>13. \A g \in Paths : Good(g, r.next[g])'
    <3> SUFFICES ASSUME NEW g \in Paths PROVE Good(g, r.next[g])'
      OBVIOUS
    <3>1. CASE g = e
      BY <1>14, <2>7, <2>a, <3>1 DEF Good, Now, Workspace!Texts, Workspace!Expected
    <3>2. CASE g # e
      BY <2>2, <2>7, <2>8, <2>a, <3>2
    <3> QED  BY <3>1, <3>2
  <2>14. Claims(r)'
    BY <2>13 DEF Claims
  <2>15. Bounded(r)
    BY <2>2, <2>7 DEF Bounded
  <2>16. wsp_manifest' \in [Paths -> WspMarks] /\ \A g \in Paths : wsp_manifest'[g].stat <= wsp_edits
    BY <1>1, <1>14 DEF WspType
  <2>17. Workspace!To(p, r)
    BY <1>14, <2>7 DEF s
  <2> QED  BY <1>14, <2>3, <2>10, <2>11, <2>12, <2>14, <2>15, <2>16, <2>17, WspWrite
<1>15. ASSUME NEW p \in Indexers, Workspace!Add(p) PROVE WspInv'
  <2> DEFINE s == wsp_run[p]
             f == s.cur
             new == [path |-> f, sha |-> s.sha, text |-> s.text]
  <2>1. s.at = "add" /\ InHand(s)
    BY <1>2, <1>15 DEF Workspace!Add
  <2>2. \A c \in wsp_chunks : c.path # f
    BY <2>1 DEF InHand
  <2>3. /\ UNCHANGED <<wsp_file, wsp_edits, wsp_manifest>> /\ Workspace!To(p, Workspace!Walking(s))
        /\ wsp_chunks' = wsp_chunks \cup {new} /\ wsp_failed' = wsp_failed \ {<<f, s.next[f]>>}
    BY <1>15, <2>2 DEF Workspace!Add, Workspace!Calm
  <2>4. s.text \notin Blank \cup {0} /\ (wsp_file[f] # 0 /\ s.next[f].stat = wsp_file[f] => s.text = wsp_file[f])
    BY <2>1 DEF InHand
  <2>5. new.path = f /\ new.text = s.text
    OBVIOUS
  <2> HIDE DEF new
  <2>6. \A c : c.path # f => (c \in wsp_chunks' <=> c \in wsp_chunks)
    BY <2>3, <2>5
  <2>7. \A h, n : h # f => (<<h, n>> \in wsp_failed' <=> <<h, n>> \in wsp_failed)
    BY <2>3
  <2>8. PICK e, n : e = f /\ n = s.next[f]
    OBVIOUS
  <2>9. Good(e, n)'
    <3> SUFFICES ASSUME wsp_file[e] \notin Large \cup {0}, n = [sha |-> wsp_file[e], stat |-> wsp_file[e]]
                 PROVE  Workspace!Texts(e)' = Workspace!Expected(e)'
      BY <2>3 DEF Good, Now
    <3>1. n.stat = wsp_file[e]
      OBVIOUS
    <3>2. s.text = wsp_file[e] /\ s.text \notin Blank \cup {0}
      BY <2>4, <2>8, <3>1
    <3>3. Workspace!Expected(e)' = {s.text}
      BY <2>3, <3>2 DEF Workspace!Expected, Workspace!Absent
    <3>4. {d \in wsp_chunks' : d.path = e} = {new}
      BY <2>2, <2>3, <2>5, <2>8
    <3>5. Workspace!Texts(e)' = {s.text}
      BY <2>5, <3>4 DEF Workspace!Texts
    <3> QED  BY <3>3, <3>5
  <2>10. wsp_run[p].cur = e /\ wsp_run[p].next[e] = n
    BY <2>8
  <2> QED  BY <1>14, <2>1, <2>3, <2>6, <2>7, <2>8, <2>9, <2>10
<1>16. ASSUME NEW p \in Indexers, Workspace!Fail(p) PROVE WspInv'
  <2>1. PICK e, n : e = wsp_run[p].cur /\ n = wsp_run[p].next[e]
    OBVIOUS
  <2>2. /\ wsp_run[p].at \in {"delete", "add"} /\ Workspace!To(p, Workspace!Walking(wsp_run[p]))
        /\ UNCHANGED <<wsp_file, wsp_edits, wsp_manifest, wsp_chunks>>
        /\ wsp_failed' = wsp_failed \cup {<<e, n>>}
    BY <1>16, <2>1 DEF Workspace!Fail, Workspace!Calm
  <2>3. Good(e, n)'
    BY <2>2 DEF Good
  <2>4. \A h, k : h # e => (<<h, k>> \in wsp_failed' <=> <<h, k>> \in wsp_failed)
    BY <2>2
  <2> QED  BY <1>14, <2>1, <2>2, <2>3, <2>4
<1>17. ASSUME NEW p \in Indexers, NEW f \in Paths, Workspace!Purge(p, f) PROVE WspInv'
  <2> DEFINE s == wsp_run[p]
             x == [s EXCEPT !.prev[f] = Workspace!NoMark]
  <2>1. /\ s.at = "walk" /\ s.todo = {} /\ s.next[f] = Workspace!NoMark
        /\ UNCHANGED <<wsp_file, wsp_edits, wsp_manifest, wsp_failed>>
        /\ wsp_chunks' = {c \in wsp_chunks : c.path # f} /\ Workspace!To(p, x)
    BY <1>17 DEF Workspace!Purge, Workspace!Calm, Workspace!Without, Workspace!Walked, Workspace!Removed
  <2>2. s \in WspRuns /\ Bounded(s) /\ Found(s) /\ Claims(s)
    BY <1>2
  <2>3. \A g \in Paths : Good(g, s.next[g])
    BY <2>1, <2>2 DEF Claims, Busy
  <2>4. \A g \in Paths : /\ wsp_manifest[g] = s.prev[g] \/ (s.prev[g].stat = 0 /\ s.next[g] = Workspace!NoMark)
                         /\ Now(g) /\ wsp_manifest[g].stat = wsp_file[g] => s.next[g].stat # 0
    BY <2>1, <2>2 DEF Found
  <2>5. /\ x \in WspRuns /\ x.at = "walk" /\ x.todo = {} /\ x.next = s.next /\ x.cur = s.cur
        /\ x.prev[f] = Workspace!NoMark /\ \A g \in Paths \ {f} : x.prev[g] = s.prev[g]
    <3>1. s.prev \in [Paths -> WspMarks] /\ [s.prev EXCEPT ![f] = Workspace!NoMark] \in [Paths -> WspMarks]
      BY <1>n, <2>2 DEF WspRuns
    <3> QED  BY <2>1, <2>2, <3>1 DEF WspRuns
  <2>6. PICK r \in WspRuns : r = x
    BY <2>5
  <2>7. Workspace!To(p, r) /\ wsp_run[p].at # "over"
    BY <2>1, <2>6
  <2> HIDE DEF x, s
  <2>8. ~(Now(f) /\ wsp_manifest[f].stat = wsp_file[f])
    BY <1>n, <2>1, <2>4
  <2>9. \A g, m : g # f /\ Good(g, m) => Good(g, m)'
    <3>1. \A c : c.path # f => (c \in wsp_chunks' <=> c \in wsp_chunks)
      BY <2>1
    <3>2. \A h, n : h # f => (<<h, n>> \in wsp_failed' <=> <<h, n>> \in wsp_failed)
      BY <2>1
    <3> QED  BY <2>1, <3>1, <3>2, GoodElse
  <2>10. Good(f, wsp_manifest[f])'
    <3> SUFFICES ASSUME Now(f), wsp_manifest[f] = [sha |-> wsp_file[f], stat |-> wsp_file[f]]
                 PROVE  FALSE
      BY <2>1 DEF Good, Now
    <3>1. wsp_manifest[f].stat = wsp_file[f]
      OBVIOUS
    <3> QED  BY <2>8, <3>1
  <2>11. ASSUME NEW g \in Paths PROVE Good(g, wsp_manifest[g])'
    <3>1. CASE g = f
      BY <2>10, <3>1
    <3>2. CASE g # f
      <4>1. PICK m : m = wsp_manifest[g] /\ m = wsp_manifest'[g]
        BY <2>1
      <4>2. Good(g, m)'
        BY <1>1, <2>9, <3>2, <4>1
      <4> QED  BY <4>1, <4>2 DEF Good
    <3> QED  BY <3>1, <3>2
  <2>12. Good(f, Workspace!NoMark)'
    BY <1>g, <2>1 DEF Good, Now, Workspace!NoMark, Workspace!Texts, Workspace!Expected
  <2>13. Found(r)'
    BY <1>n, <2>1, <2>4, <2>5, <2>6 DEF Found, Now, Workspace!NoMark
  <2>14. InHand(r)'
    BY <2>5, <2>6 DEF InHand
  <2>15. \A g \in Paths : Good(g, r.next[g])'
    <3> SUFFICES ASSUME NEW g \in Paths PROVE Good(g, r.next[g])'
      OBVIOUS
    <3>1. CASE g = f
      BY <2>1, <2>5, <2>6, <2>12, <3>1 DEF Good, Workspace!NoMark
    <3>2. CASE g # f
      BY <2>3, <2>5, <2>6, <2>9, <3>2
    <3> QED  BY <3>1, <3>2
  <2>16. Claims(r)'
    BY <2>15 DEF Claims
  <2>17. Bounded(r)
    BY <1>1, <1>n, <2>2, <2>5, <2>6 DEF Bounded, WspType
  <2>18. wsp_manifest' \in [Paths -> WspMarks] /\ \A g \in Paths : wsp_manifest'[g].stat <= wsp_edits
    BY <1>1, <2>1 DEF WspType
  <2> QED  BY <2>1, <2>7, <2>11, <2>13, <2>14, <2>16, <2>17, <2>18, WspWrite
<1>18. ASSUME NEW p \in Indexers, Workspace!PurgeFails(p) PROVE WspInv'
  BY <1>5, <1>18 DEF Workspace!PurgeFails, Workspace!Calm
<1>19. ASSUME NEW p \in Indexers, Workspace!Crash(p) PROVE WspInv'
  BY <1>5, <1>19 DEF Workspace!Crash
<1>20. ASSUME NEW p \in Indexers, Workspace!OpenManifest(p) PROVE WspInv'
  <2> DEFINE s == wsp_run[p]
             x == [s EXCEPT !.at = "save"]
  <2>1. /\ s.at = "walk" /\ UNCHANGED <<wsp_file, wsp_edits, wsp_chunks, wsp_failed>>
        /\ wsp_manifest' = Workspace!Empty /\ Workspace!To(p, x)
    BY <1>20 DEF Workspace!OpenManifest, Workspace!Calm, Workspace!Walked
  <2>2. s \in WspRuns /\ Bounded(s) /\ Claims(s)
    BY <1>2
  <2>3. \A g \in Paths : Good(g, s.next[g])
    BY <2>1, <2>2 DEF Claims, Busy
  <2>4. x \in WspRuns /\ x.at = "save" /\ x.next = s.next /\ x.prev = s.prev
    BY <2>2 DEF WspRuns
  <2>5. PICK r \in WspRuns : r = x
    BY <2>4
  <2>6. Workspace!To(p, r) /\ wsp_run[p].at # "over"
    BY <2>1, <2>5
  <2> HIDE DEF x, s
  <2>7. \A g, m : Good(g, m)' <=> Good(g, m)
    BY <2>1, GoodSame
  <2>8. ASSUME NEW g \in Paths PROVE Good(g, wsp_manifest[g])'
    <3>1. PICK m : m = Workspace!NoMark /\ m = wsp_manifest'[g]
      BY <1>n, <2>1
    <3>2. Good(g, m)'
      BY <1>g, <2>7, <3>1
    <3> QED  BY <3>1, <3>2 DEF Good
  <2>9. Found(r)' /\ InHand(r)'
    BY <2>4, <2>5 DEF Found, InHand
  <2>10. Claims(r)'
    BY <2>3, <2>4, <2>5, <2>7 DEF Claims
  <2>11. Bounded(r)
    BY <2>2, <2>4, <2>5 DEF Bounded
  <2>12. wsp_manifest' \in [Paths -> WspMarks] /\ \A g \in Paths : wsp_manifest'[g].stat <= wsp_edits
    BY <1>1, <1>n, <2>1 DEF WspType
  <2> QED  BY <2>1, <2>6, <2>8, <2>9, <2>10, <2>11, <2>12, WspWrite
<1>21. ASSUME NEW p \in Indexers, Workspace!SaveManifest(p) PROVE WspInv'
  <2> DEFINE s == wsp_run[p]
  <2>1. /\ s.at = "save" /\ UNCHANGED <<wsp_file, wsp_edits, wsp_chunks, wsp_failed>>
        /\ wsp_manifest' = s.next /\ Workspace!To(p, Workspace!Over)
    BY <1>21 DEF Workspace!SaveManifest, Workspace!Calm
  <2>2. s \in WspRuns /\ Bounded(s) /\ Claims(s)
    BY <1>2
  <2>3. \A g \in Paths : Good(g, s.next[g])
    BY <2>1, <2>2 DEF Claims, Busy
  <2>4. PICK r \in WspRuns : r = Workspace!Over /\ r.at = "over" /\ Bounded(r)
    BY <1>o
  <2>5. Workspace!To(p, r) /\ wsp_run[p].at # "over"
    BY <2>1, <2>4
  <2> HIDE DEF s
  <2>6. \A g, m : Good(g, m)' <=> Good(g, m)
    BY <2>1, GoodSame
  <2>7. ASSUME NEW g \in Paths PROVE Good(g, wsp_manifest[g])'
    <3>1. PICK m : m = s.next[g] /\ m = wsp_manifest'[g]
      BY <2>1
    <3>2. Good(g, m)'
      BY <2>3, <2>6, <3>1
    <3> QED  BY <3>1, <3>2 DEF Good
  <2>8. Found(r)' /\ InHand(r)' /\ Claims(r)'
    BY <2>4 DEF Found, InHand, Claims
  <2>9. wsp_manifest' \in [Paths -> WspMarks] /\ \A g \in Paths : wsp_manifest'[g].stat <= wsp_edits
    BY <2>1, <2>2 DEF WspRuns, Bounded
  <2> QED  BY <2>1, <2>4, <2>5, <2>7, <2>8, <2>9, WspWrite
<1> QED  BY <1>3, <1>4, <1>6, <1>7, <1>10, <1>11, <1>12, <1>13, <1>15, <1>16, <1>17, <1>18, <1>19,
       <1>20, <1>21
         DEF Workspace!Next

-----------------------------------------------------------------------------
(* What the steps of one component leave of the others. *)

LEMMA GraphRests == ASSUME GraphInv, UNCHANGED graphVars PROVE GraphInv'
BY DEF graphVars, GraphInv

LEMMA GoalRests == ASSUME GoalInv, UNCHANGED goalVars PROVE GoalInv'
BY DEF goalVars, GoalInv, GoalType, Aware

LEMMA FilRests == ASSUME FilInv, UNCHANGED filVars PROVE FilInv'
BY DEF filVars, FilInv, FilType, VersionsAreNew, OneCommand, TextIsCurrent, Counted,
       Folders!CountedIsIndexed, Folders!IndexedOnce, Folders!Expected

LEMMA MemRests == ASSUME MemInv, UNCHANGED memVars PROVE MemInv'
BY MemSame DEF memVars

LEMMA SetRests == ASSUME SetInv, UNCHANGED setVars PROVE SetInv'
BY DEF setVars, SetInv, SetType, Alone, CallFits, Fits, Store!Writing, Store!Kept, Store!Accepted

LEMMA WspRests == ASSUME WspInv, UNCHANGED wspVars PROVE WspInv'
<1>1. \A f, m : Good(f, m)' <=> Good(f, m)
  BY GoodSame DEF wspVars
<1> QED  BY <1>1
   DEF wspVars, WspInv, WspType, OneIndexer, Now, Bounded, Found, InHand, Claims, Busy,
       Workspace!NoMark

\* A step is one of one component.
LEMMA Parted ==
    ASSUME [Next]_vars
    PROVE  /\ UNCHANGED graphVars \/ Graph!Next
           /\ UNCHANGED goalVars \/ Aims!Next
           /\ UNCHANGED filVars \/ Folders!Next
           /\ UNCHANGED memVars \/ Memories!Next
           /\ UNCHANGED setVars \/ Store!Next
           /\ UNCHANGED wspVars \/ Workspace!Next
           /\ UNCHANGED svcVars \/ Daemon!Next
           /\ UNCHANGED bakVars \/ Backups!Next
BY DEF Next, BackupsSteps, SkillsSteps, GraphSteps, DirectivesSteps, MemoriesSteps, StoreSteps,
       AimsSteps, DaemonSteps, WorkspaceSteps, FoldersSteps, Only, vars

-----------------------------------------------------------------------------
(* What holds at first. *)

LEMMA GraphInit == ASSUME Graph!Init PROVE GraphInv
BY DEF Graph!Init, Graph!tables, GraphInv

LEMMA GoalInit == ASSUME Aims!Init PROVE GoalInv
<1>1. None \notin Titles
  BY KeepingAssumption DEF KeepingAssumption, Aims!GoalsAssumption
<1>2. /\ goal_tick = Aims!Off /\ goal_marks = [t \in Trajectories |-> None]
      /\ goal_made = [t \in Trajectories |-> {}] /\ goal_recorded = [t \in Trajectories |-> {}]
  BY DEF Aims!Init
<1>3. Aims!Off \in Ticks /\ Aware(Aims!Off)
  BY DEF Aims!Off, Ticks, Ats, Aware, Writing
<1> QED  BY <1>1, <1>2, <1>3 DEF GoalInv, GoalType

LEMMA FilInit == ASSUME Folders!Init PROVE FilInv
<1>1. /\ fil_file = [f \in Paths |-> 0] /\ fil_edits = 0 /\ fil_docs = [f \in Paths |-> << >>]
      /\ fil_cmd = [c \in Consoles |-> Folders!Over] /\ fil_told = [f \in Paths |-> 0]
  BY DEF Folders!Init, Folders!Absent, Folders!Nothing
<1>2. Folders!Over \in Cmds /\ Folders!Over.at = "over" /\ Folders!Over.text = 0
  BY DEF Folders!Over, Cmds, Folders!Absent
<1>3. \A f \in Paths : fil_docs[f] = << >> /\ fil_docs[f] \in Seq(Nat) /\ Len(fil_docs[f]) = 0
                       /\ DOMAIN fil_docs[f] = {}
  BY <1>1
<1>4. FilType
  BY <1>1, <1>2, <1>3 DEF FilType
<1>5. VersionsAreNew /\ OneCommand
  BY <1>1, <1>2 DEF VersionsAreNew, OneCommand
<1>6. \A c \in Consoles : TextIsCurrent(fil_cmd[c])
  BY <1>1, <1>2 DEF TextIsCurrent
<1>7. Folders!CountedIsIndexed /\ Folders!IndexedOnce
  BY <1>1, <1>3 DEF Folders!CountedIsIndexed, Folders!IndexedOnce, Folders!Absent
<1> QED  BY <1>3, <1>4, <1>5, <1>6, <1>7 DEF FilInv

LEMMA MemInit == ASSUME Memories!Init PROVE MemInv
<1>1. Bad \subseteq Facts
  BY KeepingAssumption DEF KeepingAssumption, Memories!CurationAssumption
<1>2. /\ mem_row = [c \in Memories!Contents |-> IF c \in Bad THEN "live" ELSE "none"]
      /\ mem_kids = [c \in Memories!Contents |-> {}] /\ mem_todo = [r \in Runs |-> {}] /\ mem_told = Bad
  BY DEF Memories!Init
<1>3. MemType
  BY <1>1, <1>2 DEF MemType
<1>4. Memories!NothingLost
  BY <1>1, <1>2 DEF Memories!NothingLost, Memories!Live, Memories!Contents
<1> QED  BY <1>2, <1>3, <1>4 DEF MemInv

LEMMA SetInit == ASSUME Store!Init PROVE SetInv
<1>1. /\ set_file = [f \in Store!Files |-> Store!Default] /\ set_pc = [p \in Consoles |-> "idle"]
      /\ set_on = [p \in Consoles |-> "settings"] /\ set_loaded = [p \in Consoles |-> Store!Default]
      /\ set_merged = [p \in Consoles |-> Store!Default] /\ set_keys = 0 /\ set_stored = {}
      /\ set_handed = {} /\ set_hurt = FALSE
  BY DEF Store!Init
<1>2. "settings" \in Store!Files /\ Store!Default.key = 0 /\ Store!Default.has = {} /\ Store!Default # Store!Torn
      /\ Store!Default \in Docs
  BY Torns DEF Store!Files, Store!Default, Store!Torn
<1>3. SetType
  BY <1>1, <1>2 DEF SetType
<1>4. \A f \in Store!Files : (set_file[f] = Store!Torn) <=> Store!Writing(f)
  BY <1>1, <1>2 DEF Store!Writing
<1>5. Alone /\ \A f \in Store!Files : Fits(set_file[f], f)
  BY <1>1, <1>2 DEF Alone, Fits
<1> QED  BY <1>1, <1>3, <1>4, <1>5 DEF SetInv, Store!Kept, Store!Accepted

LEMMA WspInit == ASSUME Workspace!Init PROVE WspInv
<1>1. /\ wsp_file = [f \in Paths |-> 0] /\ wsp_edits = 0 /\ wsp_manifest = Workspace!Empty
      /\ wsp_run = [p \in Indexers |-> Workspace!Over]
  BY DEF Workspace!Init, Workspace!Absent
<1>2. Workspace!NoMark \in WspMarks /\ Workspace!NoMark.stat = 0 /\ Workspace!Empty \in [Paths -> WspMarks]
      /\ \A f \in Paths : Workspace!Empty[f] = Workspace!NoMark
  BY DEF Workspace!NoMark, Workspace!Empty, WspMarks
<1>3. Workspace!Over \in WspRuns /\ Workspace!Over.at = "over" /\ Workspace!Over.prev = Workspace!Empty
      /\ Workspace!Over.next = Workspace!Empty
  BY <1>2 DEF Workspace!Over, WspRuns
<1>4. WspType /\ OneIndexer
  BY <1>1, <1>2, <1>3 DEF WspType, OneIndexer
<1>5. \A f \in Paths : wsp_file[f] <= wsp_edits /\ wsp_manifest[f].stat <= wsp_edits /\ Good(f, wsp_manifest[f])
  BY <1>1, <1>2 DEF Good, Now
<1>6. \A p \in Indexers : LET r == wsp_run[p] IN Bounded(r) /\ Found(r) /\ InHand(r) /\ Claims(r)
  BY <1>1, <1>2, <1>3 DEF Bounded, Found, InHand, Claims
<1> QED  BY <1>4, <1>5, <1>6 DEF WspInv

-----------------------------------------------------------------------------
(* Things are once, and what is stored stays. *)

LEMMA CountOf == ASSUME NEW S PROVE Aims!Cardinality(S) = Cardinality(S)
BY DEF Aims!Cardinality, Cardinality

\* Nothing is in the tables twice, as long as one process indexes folders at a time: a concept
\* that the search does not miss has one row, also after a rollback (graph.py:247); a
\* trajectory is distilled once, over crashes (skill_synthesizer.py:157); a file that was
\* counted as indexed is found once and as it is (file_indexer.py:162).
THEOREM ThingsAreOnce == ASSUME ~Overlaps PROVE Spec => []OneOfEach
<1>1. Init => GraphInv /\ GoalInv /\ FilInv
  BY GraphInit, GoalInit, FilInit DEF Init
<1>2. GraphInv /\ GoalInv /\ FilInv /\ [Next]_vars => GraphInv' /\ GoalInv' /\ FilInv'
  BY Parted, GraphRests, GraphStep, GoalRests, GoalStep, FilRests, FilStep
<1>3. GraphInv /\ GoalInv /\ FilInv => OneOfEach
  <2> SUFFICES ASSUME GraphInv, GoalInv, FilInv PROVE OneOfEach
    OBVIOUS
  <2>1. Graph!OneRowPerConcept
    BY DEF GraphInv, Graph!OneRowPerConcept
  <2>2. ASSUME NEW t \in Trajectories, t \notin goal_broken PROVE Cardinality(goal_made[t]) <= 1
    <3>1. CASE goal_made[t] = {}
      BY <3>1, FS_EmptySet
    <3>2. CASE \E n \in Titles : goal_made[t] = {n}
      <4>1. PICK n \in Titles : goal_made[t] = {n}
        BY <3>2
      <4>2. Cardinality({n}) = 1
        BY FS_Singleton, Zenon
      <4>3. Cardinality(goal_made[t]) = 1
        BY <4>1, <4>2
      <4> QED  BY <4>3
    <3> QED  BY <2>2, <3>1, <3>2 DEF GoalInv
  <2>3. Aims!DistilledOnce
    BY <2>2, CountOf DEF GoalInv, Aims!DistilledOnce
  <2> QED  BY <2>1, <2>3 DEF FilInv, OneOfEach
<1> QED  BY <1>1, <1>2, <1>3, PTL DEF Spec

\* What was remembered or stored is not lost on the way, as long as one process consolidates and
\* one indexes at a time: a fact that is merged lives on in its synthesis (pruner.py:155); a
\* setting outlives other calls, and a web key that was handed out is accepted, unless two
\* calls met or one was cut off (settings.py:200); a file that the manifest lets a run skip
\* is indexed as it is, unless the store refused it (indexer.py:90).
THEOREM WhatIsStoredStays ==
    ASSUME ~Overlaps, \A p, q \in Runs : p = q PROVE Spec => []StoredIsKept
<1>1. Init => MemInv /\ SetInv /\ WspInv
  BY MemInit, SetInit, WspInit DEF Init
<1>2. MemInv /\ SetInv /\ WspInv /\ [Next]_vars => MemInv' /\ SetInv' /\ WspInv'
  BY Parted, MemRests, MemStep, SetRests, SetStep, WspRests, WspStep
<1>3. MemInv /\ SetInv /\ WspInv => StoredIsKept
  <2> SUFFICES ASSUME MemInv, SetInv, WspInv PROVE StoredIsKept
    OBVIOUS
  <2>1. Memories!NothingLost
    BY DEF MemInv
  <2>2. Store!StoredIsKept /\ Store!HandedIsAccepted
    BY DEF SetInv, Store!StoredIsKept, Store!HandedIsAccepted
  <2>3. Workspace!UnchangedIsIndexed
    <3> SUFFICES ASSUME NEW f \in Paths, Workspace!Skipped(f)
                 PROVE  <<f, wsp_manifest[f]>> \in wsp_failed \/ Workspace!Texts(f) = Workspace!Expected(f)
      BY DEF Workspace!UnchangedIsIndexed
    <3>1. Now(f) /\ wsp_manifest[f] = [sha |-> wsp_file[f], stat |-> wsp_file[f]]
      BY DEF Workspace!Skipped, Now, Workspace!Absent
    <3> QED  BY <3>1 DEF WspInv, Good
  <2> QED  BY <2>1, <2>2, <2>3 DEF StoredIsKept
<1> QED  BY <1>1, <1>2, <1>3, PTL DEF Spec

-----------------------------------------------------------------------------
(* The daemon. *)

ProcStates == {"unused", "new", "clearing", "claiming", "writing", "up", "running", "halting",
               "dead", "foreign"}
Spots == {"new", "look", "wait", "await", "remove", "over"}

SvcType ==
    /\ svc_proc \in [Daemon!Pids -> ProcStates] /\ svc_units \subseteq Daemon!Pids
    /\ svc_unit \in {"absent", "inactive", "active"}
    /\ svc_cmd \in [Commands -> [do : Daemon!Kinds \cup {"none"}, at : Spots, saw : Nat]]
    /\ svc_lock \in Nat

Acts(c) == svc_cmd[c].at \notin {"new", "over"}
OneTyped == \A c, d \in Commands : Acts(c) /\ Acts(d) => c = d

\* A process of the daemon's, from its start to its end.
Live(p) == svc_proc[p] \notin {"unused", "dead", "foreign"}

\* There is one, it is systemd's where the unit is installed, and the lock is as far as the process is.
OneLive ==
    /\ \A p, q \in Daemon!Pids : Live(p) /\ Live(q) => p = q
    /\ \A p \in Daemon!Pids :
          /\ Live(p) /\ svc_unit # "absent" => p \in svc_units
          /\ svc_proc[p] = "claiming" => svc_lock = 0
          /\ svc_proc[p] = "writing" => svc_lock = Daemon!Torn
          /\ svc_proc[p] \in {"up", "running"} => svc_lock = p

\* What a command relies on from one of its steps to the next.
Typed(c) ==
    /\ svc_cmd[c].at = "look" =>
          /\ svc_cmd[c].saw = svc_lock
          /\ \A p \in Daemon!Pids : Live(p) => svc_proc[p] = "running"
          /\ svc_unit = "active" => \E p \in Daemon!Pids : svc_proc[p] = "running"
    /\ svc_cmd[c].at \in {"wait", "remove"} => svc_unit = "absent"
    /\ svc_cmd[c].at = "await" => svc_unit = "inactive"
    /\ svc_cmd[c].at \in {"await", "remove"} => \A p \in Daemon!Pids : Live(p) => svc_proc[p] = "halting"

SvcInv == SvcType /\ OneTyped /\ OneLive /\ \A c \in Commands : Typed(c)

LEMMA SvcBecome ==
    ASSUME SvcType, NEW p \in Daemon!Pids, NEW s \in ProcStates, Daemon!Become(p, s)
    PROVE  /\ svc_proc' \in [Daemon!Pids -> ProcStates]
           /\ svc_proc'[p] = s /\ \A q \in Daemon!Pids \ {p} : svc_proc'[q] = svc_proc[q]
BY DEF SvcType, Daemon!Become

LEMMA SvcPids == Daemon!Pids \subseteq Nat /\ Daemon!Torn \in Nat /\ 0 \notin Daemon!Pids /\ Daemon!Torn \notin Daemon!Pids
BY KeepingAssumption DEF KeepingAssumption, Daemon!ServiceAssumption, Daemon!Pids, Daemon!Torn

\* A process that starts: no command is at a place where it relies on the processes.
LEMMA SvcGoes ==
    ASSUME SvcInv, NEW p \in Daemon!Pids, svc_proc[p] \in {"new", "clearing", "claiming", "writing", "up"},
           NEW s \in ProcStates, Daemon!Become(p, s), UNCHANGED <<svc_units, svc_unit, svc_cmd>>, svc_lock' \in Nat,
           s \notin {"unused", "foreign", "halting"}, s = "claiming" => svc_lock' = 0,
           s = "writing" => svc_lock' = Daemon!Torn, s \in {"up", "running"} => svc_lock' = p
    PROVE  SvcInv'
<1>1. SvcType /\ OneTyped /\ OneLive /\ Live(p)
  BY DEF SvcInv, Live
<1>2. /\ svc_proc' \in [Daemon!Pids -> ProcStates]
      /\ svc_proc'[p] = s /\ \A q \in Daemon!Pids \ {p} : svc_proc'[q] = svc_proc[q]
  BY <1>1, SvcBecome
<1>3. \A q \in Daemon!Pids \ {p} : ~Live(q)
  BY <1>1 DEF OneLive
<1>4. \A c \in Commands : svc_cmd[c].at \notin {"look", "await", "remove"}
  BY <1>1 DEF SvcInv, Typed
<1>5. OneLive'
  BY <1>1, <1>2, <1>3 DEF OneLive, Live
<1>6. SvcType' /\ OneTyped'
  BY <1>1, <1>2 DEF SvcType, OneTyped, Acts
<1>7. \A c \in Commands : Typed(c)'
  BY <1>4 DEF SvcInv, Typed
<1> QED  BY <1>5, <1>6, <1>7 DEF SvcInv

LEMMA SvcCommand ==
    ASSUME SvcType, NEW c \in Commands, NEW a \in Spots, Daemon!At(c, a)
    PROVE  /\ svc_cmd' \in [Commands -> [do : Daemon!Kinds \cup {"none"}, at : Spots, saw : Nat]]
           /\ svc_cmd'[c].at = a /\ \A d \in Commands \ {c} : svc_cmd'[d] = svc_cmd[d]
<1>1. svc_cmd[c] \in [do : Daemon!Kinds \cup {"none"}, at : Spots, saw : Nat]
  BY DEF SvcType
<1>2. [svc_cmd[c] EXCEPT !.at = a] \in [do : Daemon!Kinds \cup {"none"}, at : Spots, saw : Nat]
      /\ [svc_cmd[c] EXCEPT !.at = a].at = a
  BY <1>1
<1> QED  BY <1>2 DEF SvcType, Daemon!At

\* A command goes on, or ends: the others wait.
LEMMA SvcTells ==
    ASSUME SvcInv, NEW c \in Commands, Acts(c), NEW a \in Spots, Daemon!At(c, a), OneLive',
           svc_proc' \in [Daemon!Pids -> ProcStates], UNCHANGED svc_units,
           svc_unit' \in {"absent", "inactive", "active"}, svc_lock' \in Nat,
           a # "look", a \in {"wait", "remove"} => svc_unit' = "absent", a = "await" => svc_unit' = "inactive",
           a \in {"await", "remove"} => \A p \in Daemon!Pids : Live(p)' => svc_proc'[p] = "halting"
    PROVE  SvcInv'
<1>1. SvcType /\ OneTyped
  BY DEF SvcInv
<1>2. /\ svc_cmd' \in [Commands -> [do : Daemon!Kinds \cup {"none"}, at : Spots, saw : Nat]]
      /\ svc_cmd'[c].at = a /\ \A d \in Commands \ {c} : svc_cmd'[d] = svc_cmd[d]
  BY <1>1, SvcCommand
<1>3. \A d \in Commands \ {c} : svc_cmd'[d].at \in {"new", "over"}
  BY <1>1, <1>2 DEF OneTyped, Acts
<1>4. SvcType' /\ OneTyped'
  BY <1>1, <1>2, <1>3 DEF SvcType, OneTyped, Acts
<1>5. Typed(c)'
  BY <1>2 DEF Typed
<1>6. \A d \in Commands \ {c} : Typed(d)'
  BY <1>3 DEF Typed
<1> QED  BY <1>4, <1>5, <1>6 DEF SvcInv

LEMMA SvcStep == ASSUME SvcInv, Patient, ~Mixes, Daemon!Next PROVE SvcInv'
<1>1. SvcType /\ OneTyped /\ OneLive /\ \A c \in Commands : Typed(c)
  BY DEF SvcInv
<1>2. svc_lock \in Nat /\ svc_proc \in [Daemon!Pids -> ProcStates] /\ svc_unit \in {"absent", "inactive", "active"}
  BY <1>1 DEF SvcType
<1>3. ASSUME NEW p \in Daemon!Pids, Daemon!CheckLock(p) PROVE SvcInv'
  <2>1. PICK s \in {"claiming", "dead", "clearing"} : Daemon!Become(p, s) /\ (s = "claiming" => svc_lock = 0)
    BY <1>3 DEF Daemon!CheckLock, Daemon!Absent
  <2> QED  BY <1>2, <1>3, <2>1, SvcGoes DEF Daemon!CheckLock, ProcStates
<1>4. ASSUME NEW p \in Daemon!Pids, Daemon!ClearLock(p) \/ Daemon!OpenLock(p) \/ Daemon!WriteLock(p) \/ Daemon!Run(p)
      PROVE  SvcInv'
  <2>1. CASE Daemon!ClearLock(p)
    BY <2>1, SvcGoes DEF Daemon!ClearLock, Daemon!Absent, ProcStates
  <2>2. CASE Daemon!OpenLock(p)
    BY <2>2, SvcPids, SvcGoes DEF Daemon!OpenLock, ProcStates
  <2>3. CASE Daemon!WriteLock(p)
    BY <2>3, SvcPids, SvcGoes DEF Daemon!WriteLock, ProcStates
  <2>4. CASE Daemon!Run(p)
    <3>1. svc_lock = p
      BY <1>1, <2>4 DEF OneLive, Daemon!Run
    <3> QED  BY <1>2, <2>4, <3>1, SvcGoes DEF Daemon!Run, ProcStates
  <2> QED  BY <1>4, <2>1, <2>2, <2>3, <2>4
\* A process that ends when no command relies on it.
<1>5. ASSUME NEW p \in Daemon!Pids, Live(p), Daemon!Become(p, "dead"), svc_lock' \in Nat,
             UNCHANGED <<svc_units, svc_unit, svc_cmd>>, \A c \in Commands : svc_cmd[c].at # "look"
      PROVE  SvcInv'
  <2>1. /\ svc_proc' \in [Daemon!Pids -> ProcStates]
        /\ svc_proc'[p] = "dead" /\ \A q \in Daemon!Pids \ {p} : svc_proc'[q] = svc_proc[q]
    BY <1>1, <1>5, SvcBecome DEF ProcStates
  <2>2. \A q \in Daemon!Pids : ~Live(q)'
    BY <1>1, <1>5, <2>1 DEF OneLive, Live
  <2>3. OneLive'
    BY <2>2 DEF OneLive, Live
  <2>4. SvcType' /\ OneTyped'
    BY <1>1, <1>5, <2>1 DEF SvcType, OneTyped, Acts
  <2>5. \A c \in Commands : Typed(c)'
    BY <1>1, <1>5, <2>2 DEF Typed
  <2> QED  BY <2>3, <2>4, <2>5 DEF SvcInv
<1>6. ASSUME NEW p \in Daemon!Pids, Daemon!Halt(p) PROVE SvcInv'
  <2>1. Live(p) /\ \A c \in Commands : svc_cmd[c].at # "look"
    BY <1>1, <1>6 DEF Live, Typed, Daemon!Halt
  <2> QED  BY <1>5, <1>6, <2>1 DEF Daemon!Halt, Daemon!Absent
<1>7. ASSUME NEW p \in Daemon!Pids, Daemon!Kill(p) PROVE SvcInv'
  <2>1. Live(p) /\ \A c \in Commands : svc_cmd[c].at # "look"
    BY <1>7 DEF Live, Daemon!Settled, Daemon!Kill
  <2> QED  BY <1>2, <1>5, <1>7, <2>1 DEF Daemon!Kill
<1>8. ASSUME NEW p \in Daemon!Pids, Daemon!Reuse(p) PROVE SvcInv'
  <2>1. /\ svc_proc' \in [Daemon!Pids -> ProcStates]
        /\ svc_proc'[p] = "foreign" /\ \A q \in Daemon!Pids \ {p} : svc_proc'[q] = svc_proc[q]
    BY <1>1, <1>8, SvcBecome DEF ProcStates, Daemon!Reuse
  <2>2. /\ svc_proc[p] = "dead" /\ svc_units' = svc_units \ {p} /\ UNCHANGED <<svc_lock, svc_unit, svc_cmd>>
    BY <1>8 DEF Daemon!Reuse
  <2>3. ~Live(p) /\ ~Live(p)' /\ \A q \in Daemon!Pids \ {p} : Live(q)' <=> Live(q)
    BY <2>1, <2>2 DEF Live
  <2>4. OneLive'
    BY <1>1, <2>1, <2>2, <2>3 DEF OneLive
  <2>5. SvcType' /\ OneTyped'
    BY <1>1, <2>1, <2>2 DEF SvcType, OneTyped, Acts
  <2>6. \A c \in Commands : Typed(c)'
    BY <1>1, <2>1, <2>2, <2>3 DEF Typed
  <2> QED  BY <2>4, <2>5, <2>6 DEF SvcInv
<1>9. ASSUME NEW p \in Daemon!Pids, Daemon!Restart(p) PROVE SvcInv'
  <2>1. /\ svc_unit = "active" /\ (\A q \in svc_units : svc_proc[q] = "dead") /\ Daemon!Become(p, "new")
        /\ svc_units' = svc_units \cup {p} /\ UNCHANGED <<svc_lock, svc_unit, svc_cmd>>
    BY <1>9 DEF Daemon!Restart
  <2>2. \A q \in Daemon!Pids : ~Live(q)
    BY <1>1, <2>1 DEF OneLive, Live
  <2>3. /\ svc_proc' \in [Daemon!Pids -> ProcStates]
        /\ svc_proc'[p] = "new" /\ \A q \in Daemon!Pids \ {p} : svc_proc'[q] = svc_proc[q]
    BY <1>1, <2>1, SvcBecome DEF ProcStates
  <2>4. OneLive'
    BY <1>1, <2>1, <2>2, <2>3 DEF OneLive, Live
  <2>5. SvcType' /\ OneTyped'
    BY <1>1, <2>1, <2>3 DEF SvcType, OneTyped, Acts
  <2>6. \A c \in Commands : svc_cmd[c].at \notin {"look", "wait", "await", "remove"}
    BY <1>1, <2>1, <2>2 DEF Typed, Live
  <2>7. \A c \in Commands : Typed(c)'
    BY <2>1, <2>6 DEF Typed
  <2> QED  BY <2>4, <2>5, <2>7 DEF SvcInv
<1>10. ASSUME NEW c \in Commands, NEW do \in Daemon!Kinds, Daemon!Type(c, do) PROVE SvcInv'
  <2>1. /\ \A d \in Commands : svc_cmd[d].at \in {"new", "over"}
        /\ \A p \in Daemon!Pids : svc_proc[p] \in {"unused", "dead", "foreign", "running"}
        /\ svc_unit = "active" => \E p \in Daemon!Pids : svc_proc[p] = "running"
        /\ UNCHANGED <<svc_lock, svc_proc, svc_units, svc_unit>>
    BY <1>10 DEF Daemon!Type, Daemon!Quiet, Daemon!Settled
  <2>2. PICK a \in {"look", "over"} : svc_cmd' = [svc_cmd EXCEPT ![c] = [do |-> do, at |-> a, saw |-> svc_lock]]
    BY <1>10 DEF Daemon!Type
  <2>3. /\ svc_cmd' \in [Commands -> [do : Daemon!Kinds \cup {"none"}, at : Spots, saw : Nat]]
        /\ svc_cmd'[c].at = a /\ svc_cmd'[c].saw = svc_lock /\ \A d \in Commands \ {c} : svc_cmd'[d] = svc_cmd[d]
    BY <1>1, <1>2, <2>2 DEF SvcType, Spots
  <2>4. SvcType' /\ OneTyped' /\ OneLive'
    BY <1>1, <2>1, <2>3 DEF SvcType, OneTyped, OneLive, Acts, Live
  <2>5. \A d \in Commands : Typed(d)'
    BY <2>1, <2>3 DEF Typed, Live
  <2> QED  BY <2>4, <2>5 DEF SvcInv
<1>11. ASSUME UNCHANGED <<svc_lock, svc_proc, svc_units, svc_unit>> PROVE OneLive'
  BY <1>1, <1>11 DEF OneLive, Live
<1>12. ASSUME \A p \in Daemon!Pids : ~Live(p), UNCHANGED <<svc_proc, svc_units>> PROVE OneLive'
  BY <1>12 DEF OneLive, Live
<1>13. ASSUME NEW c \in Commands, Acts(c), NEW what, Daemon!Says(c, what),
              UNCHANGED <<svc_lock, svc_proc, svc_units, svc_unit>>
       PROVE  SvcInv'
  BY <1>2, <1>11, <1>13, SvcTells DEF Daemon!Says, Spots
\* While a command looks at the lock it has read, the daemon is that of the lock.
<1>14. ASSUME NEW c \in Commands, svc_cmd[c].at = "look"
       PROVE  /\ Acts(c) /\ \A p \in Daemon!Pids : Live(p) => svc_proc[p] = "running" /\ p = svc_cmd[c].saw
              /\ ~Daemon!Alive(svc_cmd[c].saw) \/ svc_cmd[c].saw \notin Daemon!Pids => \A p \in Daemon!Pids : ~Live(p)
  <2>1. \A p \in Daemon!Pids : Live(p) => svc_proc[p] = "running" /\ p = svc_cmd[c].saw
    BY <1>1, <1>14 DEF Typed, OneLive
  <2> QED  BY <1>14, <2>1 DEF Acts, Live, Daemon!Alive
<1>15. ASSUME NEW c \in Commands, Daemon!StartRefused(c) \/ Daemon!Started(c) \/ Daemon!NoInstall(c) PROVE SvcInv'
  <2>1. Acts(c)
    BY <1>15 DEF Acts, Daemon!StartRefused, Daemon!Started, Daemon!NoInstall, Daemon!Looks
  <2> QED  BY <1>13, <1>15, <2>1 DEF Daemon!StartRefused, Daemon!Started, Daemon!NoInstall
\* A step that ends a command where no daemon lives.
<1>16. ASSUME NEW c \in Commands, Acts(c), NEW what, Daemon!Says(c, what), \A p \in Daemon!Pids : ~Live(p),
              UNCHANGED <<svc_proc, svc_units>>, svc_lock' \in {svc_lock, 0}, svc_unit' \in {svc_unit, "active"}
       PROVE  SvcInv'
  BY <1>2, <1>12, <1>16, SvcTells DEF Daemon!Says, Spots
<1>17. ASSUME NEW c \in Commands, Daemon!StartUnit(c) \/ Daemon!Install(c) PROVE SvcInv'
  <2>1. svc_cmd[c].at = "look"
    BY <1>17 DEF Daemon!StartUnit, Daemon!Install, Daemon!Looks
  <2>2. \A p \in Daemon!Pids : ~Live(p)
    <3>1. CASE Daemon!StartUnit(c)
      BY <1>14, <2>1, <3>1 DEF Daemon!StartUnit
    <3>2. CASE Daemon!Install(c)
      BY <1>14, <2>1, <3>2 DEF Daemon!Install, Daemon!Daemons
    <3> QED  BY <1>17, <3>1, <3>2
  <2> QED  BY <1>14, <1>16, <1>17, <2>1, <2>2 DEF Daemon!StartUnit, Daemon!Install
<1>18. ASSUME NEW c \in Commands, Daemon!StopTorn(c) \/ Daemon!StopStale(c) PROVE SvcInv'
  <2>1. svc_cmd[c].at = "look" /\ (~Daemon!Alive(svc_cmd[c].saw) \/ svc_cmd[c].saw \notin Daemon!Pids)
    BY <1>18, SvcPids DEF Daemon!StopTorn, Daemon!StopStale, Daemon!Looks
  <2>2. svc_lock' = 0 /\ UNCHANGED <<svc_proc, svc_units, svc_unit>>
    BY <1>18 DEF Daemon!StopTorn, Daemon!StopStale, Daemon!Remove, Daemon!Absent
  <2>3. PICK what \in {"corrupted", "not running"} : Daemon!Says(c, what)
    BY <1>18 DEF Daemon!StopTorn, Daemon!StopStale, Daemon!Remove
  <2>4. Acts(c) /\ \A p \in Daemon!Pids : ~Live(p)
    BY <1>14, <2>1
  <2> QED  BY <1>16, <2>2, <2>3, <2>4
<1>19. ASSUME NEW c \in Commands, Daemon!Status(c) PROVE SvcInv'
  <2>1. svc_cmd[c].at = "look" /\ UNCHANGED <<svc_proc, svc_units, svc_unit>>
    BY <1>19 DEF Daemon!Status, Daemon!Looks
  <2>2. CASE Daemon!Alive(svc_cmd[c].saw)
    BY <1>13, <1>14, <1>19, <2>1, <2>2 DEF Daemon!Status
  <2>3. CASE ~Daemon!Alive(svc_cmd[c].saw)
    BY <1>14, <1>16, <1>19, <2>1, <2>3 DEF Daemon!Status, Daemon!Remove, Daemon!Absent
  <2> QED  BY <2>2, <2>3
<1>20. ASSUME NEW c \in Commands, Daemon!UnitStopped(c) PROVE SvcInv'
  <2>1. /\ svc_cmd[c].at = "await" /\ (\A q \in svc_units : svc_proc[q] = "dead") /\ svc_lock' = 0
        /\ UNCHANGED <<svc_proc, svc_units, svc_unit>> /\ Daemon!Says(c, "stopped")
    BY <1>20 DEF Daemon!UnitStopped, Daemon!Remove, Daemon!Absent
  <2>2. svc_unit = "inactive" /\ \A p \in Daemon!Pids : ~Live(p)
    BY <1>1, <2>1 DEF Typed, OneLive, Live
  <2>3. Acts(c)
    BY <2>1 DEF Acts
  <2> QED  BY <1>16, <2>1, <2>2, <2>3
<1>21. ASSUME NEW c \in Commands, Daemon!StopRemoves(c) PROVE SvcInv'
  <2>1. /\ svc_cmd[c].at = "remove" /\ svc_lock' = 0
        /\ UNCHANGED <<svc_proc, svc_units, svc_unit>> /\ Daemon!At(c, "over")
    BY <1>21 DEF Daemon!StopRemoves, Daemon!Remove, Daemon!Absent, Daemon!Says
  <2>2. \A p \in Daemon!Pids : Live(p) => svc_proc[p] = "halting"
    BY <1>1, <2>1 DEF Typed
  <2>3. OneLive'
    BY <1>1, <2>1, <2>2 DEF OneLive, Live
  <2>4. Acts(c)
    BY <2>1 DEF Acts
  <2> QED  BY <1>2, <2>1, <2>3, <2>4, SvcTells DEF Spots
<1>22. ASSUME NEW c \in Commands, Daemon!StartByHand(c) PROVE SvcInv'
  <2>1. PICK p \in Daemon!Pids : /\ svc_cmd[c].at = "look" /\ ~Daemon!Alive(svc_cmd[c].saw) /\ svc_unit = "absent"
                                  /\ Daemon!Become(p, "new") /\ Daemon!At(c, "wait")
                                  /\ UNCHANGED <<svc_lock, svc_units, svc_unit>>
    BY <1>22 DEF Daemon!StartByHand, Daemon!Looks, Daemon!Fresh
  <2>2. Acts(c) /\ \A q \in Daemon!Pids : ~Live(q)
    BY <1>14, <2>1
  <2>3. /\ svc_proc' \in [Daemon!Pids -> ProcStates]
        /\ svc_proc'[p] = "new" /\ \A q \in Daemon!Pids \ {p} : svc_proc'[q] = svc_proc[q]
    BY <1>1, <2>1, SvcBecome DEF ProcStates
  <2>4. OneLive'
    BY <2>1, <2>2, <2>3 DEF OneLive, Live
  <2> QED  BY <1>2, <2>1, <2>2, <2>3, <2>4, SvcTells DEF Spots
<1>23. ASSUME NEW c \in Commands, Daemon!StopByHand(c) PROVE SvcInv'
  <2>1. /\ svc_cmd[c].at = "look" /\ svc_unit = "absent" /\ svc_cmd[c].saw \in Daemon!Pids
        /\ Daemon!Become(svc_cmd[c].saw, Daemon!Terminated(svc_cmd[c].saw)) /\ Daemon!At(c, "remove")
        /\ UNCHANGED <<svc_lock, svc_units, svc_unit>>
    BY <1>23 DEF Daemon!StopByHand, Daemon!Looks
  <2>2. PICK p \in Daemon!Pids, s \in {"halting", "dead"} : p = svc_cmd[c].saw /\ s = Daemon!Terminated(svc_cmd[c].saw)
    BY <2>1 DEF Daemon!Terminated
  <2>3. /\ svc_proc' \in [Daemon!Pids -> ProcStates]
        /\ svc_proc'[p] = s /\ \A q \in Daemon!Pids \ {p} : svc_proc'[q] = svc_proc[q]
    BY <1>1, <2>1, <2>2, SvcBecome DEF ProcStates
  <2>4. Acts(c) /\ \A q \in Daemon!Pids \ {p} : ~Live(q)
    BY <1>14, <2>1, <2>2
  <2>5. \A q \in Daemon!Pids : Live(q)' => q = p /\ svc_proc'[q] = "halting"
    BY <2>2, <2>3, <2>4 DEF Live
  <2>6. OneLive'
    BY <2>1, <2>5 DEF OneLive, Live
  <2> QED  BY <1>2, <2>1, <2>3, <2>4, <2>5, <2>6, SvcTells DEF Spots
<1>24. ASSUME NEW c \in Commands, svc_cmd[c].at = "look", svc_unit # "absent", NEW a \in {"await", "over"},
              Daemon!At(c, a), svc_unit' \in {"absent", "inactive"}, a = "await" => svc_unit' = "inactive",
              svc_proc' = [p \in Daemon!Pids |-> IF p \in svc_units /\ Daemon!Alive(p) THEN Daemon!Terminated(p)
                                                ELSE svc_proc[p]],
              UNCHANGED <<svc_lock, svc_units>>
       PROVE  SvcInv'
  <2>1. Acts(c) /\ \A p \in Daemon!Pids : Live(p) => svc_proc[p] = "running" /\ p \in svc_units /\ Daemon!Alive(p)
    BY <1>1, <1>14, <1>24 DEF OneLive, Live, Daemon!Alive
  <2>2. svc_proc' \in [Daemon!Pids -> ProcStates]
    BY <1>2, <1>24 DEF Daemon!Terminated, ProcStates
  <2>3. \A p \in Daemon!Pids : Live(p)' => svc_proc'[p] = "halting" /\ Live(p) /\ p \in svc_units
    BY <1>24, <2>1 DEF Live, Daemon!Terminated
  <2>4. OneLive'
    BY <1>1, <1>24, <2>3 DEF OneLive, Live
  <2> QED  BY <1>2, <1>24, <2>1, <2>2, <2>3, <2>4, SvcTells DEF Spots
<1>25. ASSUME NEW c \in Commands, Daemon!StopUnit(c) \/ Daemon!Uninstall(c) PROVE SvcInv'
  BY <1>24, <1>25 DEF Daemon!StopUnit, Daemon!Uninstall, Daemon!Looks, Daemon!Says
<1> QED
  BY <1>3, <1>4, <1>6, <1>7, <1>8, <1>9, <1>10, <1>15, <1>17, <1>18, <1>19, <1>20, <1>21, <1>22,
         <1>23, <1>25
     DEF Daemon!Next

LEMMA SvcInit == ASSUME Daemon!Init PROVE SvcInv
<1>1. /\ svc_lock = 0 /\ svc_proc = [p \in Daemon!Pids |-> "unused"] /\ svc_units = {} /\ svc_unit = "absent"
      /\ svc_cmd = [c \in Commands |-> [do |-> "none", at |-> "new", saw |-> 0]]
  BY DEF Daemon!Init, Daemon!Absent
<1> QED  BY <1>1 DEF SvcInv, SvcType, OneTyped, OneLive, Typed, Acts, Live, ProcStates, Spots

LEMMA SvcRests == ASSUME SvcInv, UNCHANGED svcVars PROVE SvcInv'
BY DEF svcVars, SvcInv, SvcType, OneTyped, OneLive, Typed, Acts, Live

LEMMA DaemonsOf == ASSUME NEW S PROVE Daemon!Cardinality(S) = Cardinality(S)
BY DEF Daemon!Cardinality, Cardinality

\* Commands typed one after the other, while processes are killed and ids reused, with the unit
\* or by hand: there is one daemon, and the lock names it (cli.py:1316).
THEOREM TheLockIsRight == ASSUME Patient, ~Mixes PROVE Spec => []LockIsRight
<1>1. Init => SvcInv
  BY SvcInit DEF Init
<1>2. SvcInv /\ [Next]_vars => SvcInv'
  BY Parted, SvcRests, SvcStep
<1>3. SvcInv => LockIsRight
  <2> SUFFICES ASSUME SvcInv PROVE Daemon!LockIsRight
    BY DEF LockIsRight
  <2>1. \A p, q \in Daemon!Daemons : p = q
    BY DEF SvcInv, OneLive, Live, Daemon!Daemons
  <2>2. Cardinality(Daemon!Daemons) <= 1
    <3>1. CASE Daemon!Daemons = {}
      BY <3>1, FS_EmptySet
    <3>2. CASE Daemon!Daemons # {}
      <4>1. PICK p : Daemon!Daemons = {p}
        BY <2>1, <3>2
      <4>2. Cardinality({p}) = 1
        BY FS_Singleton, Zenon
      <4>3. Cardinality(Daemon!Daemons) = 1
        BY <4>1, <4>2
      <4> QED  BY <4>3
    <3> QED  BY <3>1, <3>2
  <2>3. Daemon!Quiet => \A p \in Daemon!Daemons : svc_lock = p
    BY DEF SvcInv, OneLive, Daemon!Daemons, Daemon!Quiet
  <2> QED  BY <2>2, <2>3, DaemonsOf DEF Daemon!LockIsRight
<1> QED  BY <1>1, <1>2, <1>3, PTL DEF Spec

-----------------------------------------------------------------------------
(* Backups. *)

\* The export of a restore's safety copy; what follows it.
Saves == bak_saving /\ bak_job \in {"fence", "rows", "vecs", "zip"}
Follows == Backups!Replacing \/ bak_job = "unpacked"

\* Nobody is at work in a home that is restored.  The safety copy is made of the rows that were there
\* when the restore was admitted, and stays.  What a restore leaves is what is in the archive, also in
\* one that is made of it.
BakInv ==
    /\ \E r, v : bak_snap = [rows |-> r, vec |-> v]
    /\ Follows \/ Saves => bak_run = "none" /\ ~bak_restored
    /\ Saves => Backups!Rows = bak_had /\ ~bak_cut
    /\ bak_saving /\ bak_job \in {"vecs", "zip"} => bak_snap.rows = bak_had
    /\ bak_saving /\ (Follows \/ bak_cut) => bak_safety.rows = bak_had
    /\ Follows \/ Saves => bak_archive.rows # Backups!Gone
    /\ bak_job = "db" => bak_db = bak_archive.rows
    /\ bak_restored => /\ Backups!Rows = bak_archive.rows /\ Backups!Rows # Backups!Gone
                       /\ bak_job \in {"vecs", "zip"} => bak_snap.rows = Backups!Rows

\* What is read stays when the log is folded into the file.
LEMMA RowsOf ==
    /\ Backups!FoldLog => Backups!Rows' = Backups!Rows
    /\ UNCHANGED <<bak_db, bak_wal>> => Backups!Rows' = Backups!Rows
BY DEF Backups!Rows, Backups!Gone, Backups!FoldLog

\* A step of the process at work.
LEMMA BakWorks ==
    ASSUME BakInv, ~Follows, ~Saves, bak_restored' => bak_restored /\ Backups!Rows' = Backups!Rows,
           UNCHANGED <<bak_snap, bak_job, bak_saving, bak_archive, bak_safety, bak_had, bak_cut>>
    PROVE  BakInv'
<1>1. ~Follows' /\ ~Saves' /\ bak_job # "db"
  BY DEF Follows, Saves, Backups!Replacing
<1> HIDE DEF Follows, Saves
<1> QED  BY <1>1 DEF BakInv

\* The places of a job.
LEMMA BakPlaces ==
    /\ Follows <=> bak_job \in {"unpacked", "vectors gone", "vectors", "db gone", "db"}
    /\ Follows' <=> bak_job' \in {"unpacked", "vectors gone", "vectors", "db gone", "db"}
    /\ Saves <=> bak_saving /\ bak_job \in {"fence", "rows", "vecs", "zip"}
    /\ Saves' <=> bak_saving' /\ bak_job' \in {"fence", "rows", "vecs", "zip"}
BY DEF Follows, Saves, Backups!Replacing

LEMMA BakStep == ASSUME BakInv, ~Overlaps, Backups!Next PROVE BakInv'
<1>1. bak_run # "none" => ~Follows /\ ~Saves
  BY DEF BakInv
<1>2. PICK r, v : bak_snap = [rows |-> r, vec |-> v]
  BY DEF BakInv
<1>3. ASSUME NEW kind, Backups!Boot(kind) PROVE BakInv'
  <2>1. ~Follows /\ ~Saves
    BY <1>3, BakPlaces DEF Backups!Boot, Backups!Restoring, Backups!Replacing
  <2>2. Backups!Rows # Backups!Gone => Backups!Rows' = Backups!Rows
    BY <1>3 DEF Backups!Boot, Backups!Rows, Backups!Gone
  <2>3. bak_restored => Backups!Rows # Backups!Gone
    BY DEF BakInv
  <2> QED  BY <1>3, <2>1, <2>2, <2>3, BakWorks DEF Backups!Boot, Backups!jobVars
<1>4. ASSUME NEW k, Backups!CommitRow(k) PROVE BakInv'
  BY <1>1, <1>4, BakWorks DEF Backups!CommitRow
<1>5. ASSUME Backups!FollowVector \/ Backups!Exit \/ Backups!Die PROVE BakInv'
  <2>1. /\ bak_run # "none" /\ Backups!Rows' = Backups!Rows
        /\ UNCHANGED <<bak_restored, bak_snap, bak_job, bak_saving, bak_archive, bak_safety, bak_had, bak_cut>>
    BY <1>5, RowsOf
       DEF Backups!FollowVector, Backups!Exit, Backups!Die, Backups!jobVars, Backups!homeVars
  <2> QED  BY <1>1, <2>1, BakWorks
<1>6. ASSUME Backups!Export PROVE BakInv'
  <2>1. /\ bak_job = "idle" /\ bak_job' = "fence" /\ bak_saving' = FALSE /\ Backups!Rows' = Backups!Rows
        /\ UNCHANGED <<bak_run, bak_snap, bak_archive, bak_restored, bak_had, bak_safety, bak_cut>>
    BY <1>6, RowsOf DEF Backups!Export, Backups!procVars, Backups!homeVars
  <2> QED  BY <2>1, BakPlaces DEF BakInv
<1>7. ASSUME Backups!Fence PROVE BakInv'
  <2>1. /\ bak_job = "fence" /\ bak_job' = "rows" /\ Backups!Rows' = Backups!Rows
        /\ UNCHANGED <<bak_run, bak_snap, bak_saving, bak_archive, bak_restored, bak_had, bak_safety, bak_cut>>
    BY <1>7, RowsOf DEF Backups!Fence, Backups!procVars, Backups!homeVars
  <2> QED  BY <2>1, BakPlaces DEF BakInv
<1>8. ASSUME Backups!SnapRows PROVE BakInv'
  <2>1. /\ bak_job = "rows" /\ bak_job' = "vecs" /\ Backups!Rows' = Backups!Rows
        /\ bak_snap' = [rows |-> Backups!Rows, vec |-> v]
        /\ UNCHANGED <<bak_run, bak_saving, bak_archive, bak_restored, bak_had, bak_safety, bak_cut>>
    BY <1>2, <1>8, RowsOf DEF Backups!SnapRows, Backups!procVars, Backups!homeVars
  <2>2. bak_snap'.rows = Backups!Rows
    BY <2>1
  <2> QED  BY <2>1, <2>2, BakPlaces DEF BakInv
<1>9. ASSUME Backups!SnapVectors PROVE BakInv'
  <2>1. /\ bak_job = "vecs" /\ bak_job' = "zip" /\ Backups!Rows' = Backups!Rows
        /\ bak_snap' = [rows |-> r, vec |-> bak_vec]
        /\ UNCHANGED <<bak_run, bak_saving, bak_archive, bak_restored, bak_had, bak_safety, bak_cut>>
    BY <1>2, <1>9, RowsOf DEF Backups!SnapVectors, Backups!procVars
  <2>2. bak_snap'.rows = bak_snap.rows
    BY <1>2, <2>1
  <2> QED  BY <2>1, <2>2, BakPlaces DEF BakInv
<1>10. ASSUME Backups!Zip PROVE BakInv'
  <2>1. /\ bak_job = "zip" /\ Backups!Rows' = Backups!Rows /\ bak_snap' = [rows |-> Backups!Gone, vec |-> {}]
        /\ UNCHANGED <<bak_run, bak_saving, bak_restored, bak_had, bak_cut>>
    BY <1>10, RowsOf DEF Backups!Zip, Backups!procVars, Backups!homeVars, Backups!Nothing
  <2>2. CASE bak_saving
    <3>1. bak_safety' = bak_snap /\ bak_job' = "unpacked" /\ UNCHANGED bak_archive
      BY <1>10, <2>2 DEF Backups!Zip
    <3> QED  BY <2>1, <2>2, <3>1, BakPlaces DEF BakInv
  <2>3. CASE ~bak_saving
    <3>1. bak_archive' = bak_snap /\ bak_job' = "idle" /\ UNCHANGED bak_safety
      BY <1>10, <2>3 DEF Backups!Zip
    <3> QED  BY <2>1, <2>3, <3>1, BakPlaces DEF BakInv
  <2> QED  BY <2>2, <2>3
<1>11. ASSUME NEW pre \in BOOLEAN, Backups!Admit(pre) PROVE BakInv'
  <2>1. /\ bak_job = "idle" /\ bak_archive.rows # Backups!Gone /\ bak_run = "none" /\ Backups!Rows' = Backups!Rows
        /\ bak_had' = Backups!Rows /\ bak_cut' = FALSE /\ bak_saving' = pre /\ bak_restored' = FALSE
        /\ bak_job' = (IF pre THEN "fence" ELSE "unpacked") /\ UNCHANGED <<bak_run, bak_snap, bak_archive>>
    BY <1>11, RowsOf DEF Backups!Admit, Backups!procVars, Backups!homeVars
  <2> QED  BY <2>1, BakPlaces DEF BakInv
<1>12. ASSUME Backups!RemoveVectors \/ Backups!CopyVectors \/ Backups!UnlinkDb \/ Backups!CopyDb PROVE BakInv'
  <2>1. /\ bak_job \in {"unpacked", "vectors gone", "vectors", "db gone"}
        /\ bak_job' \in {"vectors gone", "vectors", "db gone", "db"}
        /\ bak_job' = "db" => bak_db' = bak_archive.rows
        /\ UNCHANGED <<bak_run, bak_snap, bak_saving, bak_archive, bak_restored, bak_had, bak_safety, bak_cut>>
    BY <1>12
       DEF Backups!RemoveVectors, Backups!CopyVectors, Backups!UnlinkDb, Backups!CopyDb,
           Backups!Replace
  <2> QED  BY <2>1, BakPlaces DEF BakInv
<1>13. ASSUME Backups!RemoveSidecars PROVE BakInv'
  <2>1. /\ bak_job = "db" /\ bak_job' = "idle" /\ bak_wal' = Backups!Gone
        /\ UNCHANGED <<bak_db, bak_run, bak_snap, bak_saving, bak_archive, bak_had, bak_safety, bak_cut>>
    BY <1>13 DEF Backups!RemoveSidecars, Backups!procVars
  <2>2. Backups!Rows' = bak_archive.rows
    BY <2>1, BakPlaces DEF BakInv, Backups!Rows, Backups!Gone
  <2> QED  BY <2>1, <2>2, BakPlaces DEF BakInv
<1>14. ASSUME Backups!Crash PROVE BakInv'
  <2>1. /\ bak_job' = "idle" /\ Backups!Rows' = Backups!Rows /\ bak_snap' = [rows |-> Backups!Gone, vec |-> {}]
        /\ bak_cut' = (bak_cut \/ Backups!Replacing)
        /\ UNCHANGED <<bak_run, bak_saving, bak_archive, bak_restored, bak_had, bak_safety>>
    BY <1>14, RowsOf DEF Backups!Crash, Backups!procVars, Backups!homeVars, Backups!Nothing
  <2>2. bak_cut' => bak_cut \/ Follows
    BY <2>1 DEF Follows
  <2> QED  BY <2>1, <2>2, BakPlaces DEF BakInv
<1> QED
  BY <1>3, <1>4, <1>5, <1>6, <1>7, <1>8, <1>9, <1>10, <1>11, <1>12, <1>13, <1>14 DEF Backups!Next

LEMMA BakInit == ASSUME Backups!Init PROVE BakInv
<1>1. /\ bak_job = "idle" /\ bak_snap = [rows |-> Backups!Gone, vec |-> {}]
      /\ bak_saving = FALSE /\ bak_cut = FALSE /\ bak_restored = FALSE
  BY DEF Backups!Init, Backups!Nothing
<1> QED  BY <1>1, BakPlaces DEF BakInv

LEMMA BakRests == ASSUME BakInv, UNCHANGED bakVars PROVE BakInv'
BY DEF bakVars, BakInv, Follows, Saves, Backups!Replacing, Backups!Rows, Backups!Gone

\* A restore in a home where nobody works, whatever was killed in it before: once it replaces
\* files, and also when it is cut off there, its safety copy has what was there, unless it was
\* waived (backup.py:316); when it is through, the database reads as the archive, whatever log
\* lay beside the old one (backup.py:352).
THEOREM RestoresAreSafe == ASSUME ~Overlaps PROVE Spec => []RestoreIsSafe
<1>1. Init => BakInv
  BY BakInit DEF Init
<1>2. BakInv /\ [Next]_vars => BakInv'
  BY Parted, BakRests, BakStep
<1>3. BakInv => RestoreIsSafe
  BY DEF BakInv, RestoreIsSafe, Follows, Backups!SafetyCopy, Backups!RestoredIsArchived
<1> QED  BY <1>1, <1>2, <1>3, PTL DEF Spec

=============================================================================
