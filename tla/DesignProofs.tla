---------------------------- MODULE DesignProofs ----------------------------
(***************************************************************************)
(* Theorems about design and its checks, for every set of plans, criteria  *)
(* and components.                                                         *)
(*                                                                         *)
(* The design stage is a journal of steps that write several rows each.    *)
(* IInv says of every step that is done what its writes have left, and of  *)
(* a process that is between two writes which of them are there; a crash   *)
(* that tears them is what the observer `torn` remembers.                  *)
(*                                                                         *)
(* For the verdicts on checks everything rests on what one run of a test   *)
(* runner is worth under each framework (MochaWorth to ExitWorth), for     *)
(* every world of tests and every fault around them; VerdictInv carries it *)
(* from the run before the code to the run after it.                       *)
(***************************************************************************)
EXTENDS DesignStage, CheckVerdict, SequenceTheorems, FiniteSetTheorems, WellFoundedInduction, TLAPS


----------------------------------------------------------------------------
(* Design: authoring, review and extraction of the plan, and its checks.   *)

Working == pc \notin {"idle", "down"}

(* What the plan's steps know.  Units are those of a validated answer, and *)
(* all of them unless a crash tore them; a review is on record for the     *)
(* units that are there now; and who left design had served every step.    *)
PlanInv ==
    /\ Working => stage = "design" /\ status = "active"
    /\ units # <<>> \/ pc = "inserting" =>
           "dispatch" \in done /\ planned \in Answers /\ validateExtraction(planned.units)
    /\ units # <<>> /\ pc # "inserting" /\ "plan" \notin torn =>
           units = planned.units /\ (planned.docs => needsDocs)
    /\ "review" \in done => units # <<>> /\ pc # "inserting" /\ seen = units
    /\ Left => /\ units # <<>> /\ {"dispatch", "checks", "classify"} \subseteq done
               /\ track = "full" => "review" \in done /\ open = None

Covered(c) == active[c] # {} \/ unrunnable
Ungraded == {c \in Acs : \E r \in active[c] : r.class = "open"}
AllDerived == acs = described \/ "acs" \in torn

Answered(c) ==
    \/ active[c] # {}
    \/ unrunnable
    \/ rounds[c] > 0 /\ \E d \in 1..acs : rounds[d] = Cap

(* What the checks' steps know.  Between checks:dispatch and               *)
(* checks:classify every criterion is covered, but for those a loopback    *)
(* has just flagged; after checks:classify none is ungraded.               *)
ChecksInv ==
    /\ acs = 0 \/ AllDerived \/ pc = "deriving"
    /\ pc = "deriving" => acs > 0 /\ flagged = {} /\ "checks" \notin done
    /\ pc = "persisted" => "checks" \notin done
    /\ pc = "classified" => "checks" \in done /\ "classify" \notin done
    /\ "classify" \in done => "checks" \in done
    /\ "checks" \in done \/ flagged # {} \/ pc = "persisted" => AllDerived
    /\ flagged \subseteq 1..acs
    /\ \A c \in Acs : active[c] # {} => c \in 1..acs
    /\ \A c \in Acs : \A r \in active[c] : r.coarse # "unrun"
    /\ flagged # {} /\ "checks" \notin done => \A c \in (1..acs) \ flagged : Covered(c)
    /\ pc = "persisted" \/ ("checks" \in done /\ "classify" \notin done) => \A c \in 1..acs : Covered(c)
    /\ "classify" \in done => Ungraded = {} /\ \A c \in 1..acs : Answered(c)

(* What is graded is not written again, and no step is served twice.       *)
GradeInv ==
    /\ "checks" \notin done /\ flagged = {} =>
           \A c \in Acs : rounds[c] = 0 /\ \A r \in active[c] : r.class = "open"
    /\ "checks" \notin done => \A c \in flagged : \A r \in active[c] : r.class = "open"
    /\ "classify" \notin done => \A c \in Acs : rounds[c] < Cap

ServedInv ==
    /\ "extract" \in done => units # <<>> /\ pc # "inserting"
    /\ "size" \in done => track # "none"
    /\ "review" \in done => track = "full" /\ (open = None \/ status = "waiting")

IInv == TypeOK /\ PlanInv /\ ChecksInv /\ GradeInv /\ ServedInv

----------------------------------------------------------------------------
(* Criteria are numbered up to the longest description there can be.       *)

LEMMA LongestDescription ==
    \E n \in AcCounts : \A m \in AcCounts : m <= n
<1> DEFINE From(n) == {m \in AcCounts : n <= m}
           Tails == {From(n) : n \in AcCounts}
<1>1. Tails # {} /\ Tails \subseteq SUBSET AcCounts
  <2>1. PICK n \in AcCounts : TRUE
    BY DesignAssumption
  <2>2. From(n) \in Tails
    OBVIOUS
  <2> QED
    BY <2>2
<1>2. IsWellFoundedOn(StrictSubsetOrdering(AcCounts), SUBSET AcCounts)
  <2>1. FiniteSubsetsOf(AcCounts) = SUBSET AcCounts
    BY DesignAssumption, FS_FiniteSubsetsOfFinite
  <2> QED
    BY <2>1, FS_StrictSubsetOrderingWellFounded
<1>3. PICK x \in Tails : \A y \in Tails : <<y, x>> \notin StrictSubsetOrdering(AcCounts)
  <2> HIDE DEF Tails
  <2> QED
    BY <1>1, <1>2, WFMin
<1>4. PICK n \in AcCounts : x = From(n)
    BY <1>3
<1>5. ASSUME NEW m \in AcCounts, ~(m <= n) PROVE FALSE
  <2>1. n \in From(n) /\ n \notin From(m)
    BY <1>5, DesignAssumption
  <2>2. From(m) \subseteq From(n)
    <3>1. \A k \in Nat : m <= k => n <= k
      BY <1>5, DesignAssumption
    <3> QED
      BY <3>1, DesignAssumption
  <2>3. <<From(m), x>> \in StrictSubsetOrdering(AcCounts)
    BY <1>1, <1>4, <2>1, <2>2 DEF StrictSubsetOrdering
  <2> QED
    BY <1>3, <2>3
<1> QED
    BY <1>5

LEMMA AcsCover ==
    \A n \in AcCounts : n \in Nat /\ 1..n \subseteq Acs
<1> DEFINE longest == CHOOSE n \in AcCounts : \A m \in AcCounts : m <= n
<1>1. longest \in AcCounts /\ \A m \in AcCounts : m <= longest
    BY LongestDescription
<1>2. Acs = 1..longest
    BY DEF Acs
<1> HIDE DEF longest
<1> QED
    BY <1>1, <1>2, DesignAssumption

----------------------------------------------------------------------------
(* Types.  The units are a prefix of the plan they come from.              *)

Prefix == \E n \in 0..Len(planned.units) : units = SubSeq(planned.units, 1, n)

TypePlan ==
    /\ stage \in {"design", "implement"} /\ status \in {"active", "waiting"}
    /\ done \subseteq Steps
    /\ planned \in Answers \cup {NoPlan}
    /\ Prefix
    /\ needsDocs \in BOOLEAN /\ track \in {"none", "fast", "full"}
    /\ open \in Findings \cup {None} /\ lastLoop \in Findings \cup {None, "code", "operator"}
    /\ repairs \in 0..RepairLimit

TypeChecks ==
    /\ described \in AcCounts /\ acs \in 0..described /\ rounds \in [Acs -> 0..Cap] /\ flagged \subseteq Acs
    /\ \A c \in Acs : active[c] \subseteq Check
    /\ pc \in {"idle", "inserting", "deriving", "persisted", "classified", "down"}
    /\ runs \in 1..MaxRuns
    /\ torn \subseteq {"plan", "acs"} /\ unrunnable \in BOOLEAN

LEMMA TypeParts == TypeOK <=> TypePlan /\ TypeChecks
BY DEF TypeOK, TypePlan, TypeChecks, Prefix

LEMMA PlannedIsSeq ==
    ASSUME planned \in Answers \cup {NoPlan}
    PROVE  planned.units \in Seq(PlannedUnit) /\ planned.docs \in BOOLEAN
<1>1. CASE planned \in Answers
    BY <1>1, DesignAssumption
<1>2. CASE planned = NoPlan
  <2>1. planned.units = <<>> /\ planned.docs = FALSE
    BY <1>2 DEF NoPlan
  <2> QED
    BY <2>1, EmptySeq
<1> QED
    BY <1>1, <1>2

LEMMA NoUnitsIsPrefix ==
    ASSUME NEW S, NEW s \in Seq(S)
    PROVE  \E n \in 0..Len(s) : <<>> = SubSeq(s, 1, n)
<1>1. Len(s) \in Nat
    BY LenProperties
<1>2. SubSeq(s, 1, 0) = <<>>
    BY SubSeqEmpty
<1> QED
    BY <1>1, <1>2

LEMMA InsertExtends ==
    ASSUME NEW S, NEW s \in Seq(S), NEW n \in 0..Len(s),
           Len(SubSeq(s, 1, n)) < Len(s)
    PROVE  \E m \in 0..Len(s) :
              Append(SubSeq(s, 1, n), s[Len(SubSeq(s, 1, n)) + 1]) = SubSeq(s, 1, m)
<1>1. Len(s) \in Nat /\ n \in Nat /\ \A i \in 1..Len(s) : s[i] \in S
    BY LenProperties, ElementOfSeq
<1>2. SubSeq(s, 1, n) \in Seq(S) /\ Len(SubSeq(s, 1, n)) = n
  <2>1. \A i \in 1..n : s[i] \in S
    BY <1>1
  <2>2. /\ SubSeq(s, 1, n) \in Seq(S)
        /\ Len(SubSeq(s, 1, n)) = IF 1 <= n THEN n - 1 + 1 ELSE 0
    BY <1>1, <2>1, SubSeqProperties
  <2> QED
    BY <1>1, <2>2
<1>3. n + 1 \in 1..Len(s) /\ n + 1 \in (n + 1)..Len(s) /\ s[n + 1] \in S
    BY <1>1, <1>2
<1>4. SubSeq(s, 1, n + 1) = SubSeq(s, 1, n + 1 - 1) \o <<s[n + 1]>>
  <2>1. 1 \in 1..Len(s) /\ n + 1 \in 1..Len(s)
    BY <1>1, <1>3
  <2> QED
    BY <2>1, SubSeqRecursiveSecond
<1>5. Append(SubSeq(s, 1, n), s[n + 1]) = SubSeq(s, 1, n) \o <<s[n + 1]>>
    BY <1>2, <1>3, AppendIsConcat
<1>6. n + 1 - 1 = n
    BY <1>1
<1> QED
    BY <1>2, <1>3, <1>4, <1>5, <1>6

LEMMA AcsAreCounted ==
    ASSUME TypeChecks
    PROVE  described \in Nat /\ acs \in Nat /\ acs <= described /\ 1..acs \subseteq Acs
<1>1. described \in Nat /\ 1..described \subseteq Acs
    BY AcsCover DEF TypeChecks
<1> QED
    BY <1>1 DEF TypeChecks

LEMMA InitTypes == Init => TypeOK
<1> SUFFICES ASSUME Init PROVE TypePlan /\ TypeChecks
    BY TypeParts
<1>1. planned.units \in Seq(PlannedUnit) /\ units = <<>>
    BY PlannedIsSeq DEF Init
<1>2. Prefix
    BY <1>1, NoUnitsIsPrefix DEF Prefix
<1>0. 0 \in 0..RepairLimit /\ 1 \in 1..MaxRuns
    BY DesignAssumption
<1>3. TypePlan
    BY <1>2, <1>0 DEF Init, TypePlan
<1>4. described \in Nat
    BY AcsCover DEF Init
<1>5. rounds \in [Acs -> 0..Cap]
    BY DesignAssumption DEF Init
<1>6. \A c \in Acs : active[c] \subseteq Check
    BY DEF Init
<1>7. described \in AcCounts /\ acs \in 0..described /\ flagged \subseteq Acs
    BY <1>4 DEF Init
<1>8. /\ pc \in {"idle", "inserting", "deriving", "persisted", "classified", "down"}
      /\ runs \in 1..MaxRuns
      /\ torn \subseteq {"plan", "acs"} /\ unrunnable \in BOOLEAN
    BY <1>0 DEF Init
<1>9. TypeChecks
    BY <1>5, <1>6, <1>7, <1>8 DEF TypeChecks
<1> QED
    BY <1>3, <1>9

(* A loopback to the plan empties the units.                               *)
LEMMA RedesignTypes ==
    ASSUME TypePlan, NEW signature \in Findings \cup {"code", "operator"},
           redesignLoopback(signature), planned' = planned, torn \subseteq {"plan", "acs"}
    PROVE  Prefix' /\ done' \subseteq Steps /\ repairs' \in 0..RepairLimit
           /\ lastLoop' \in Findings \cup {None, "code", "operator"} /\ torn' \subseteq {"plan", "acs"}
<1>1. Prefix'
    BY PlannedIsSeq, NoUnitsIsPrefix DEF redesignLoopback, TypePlan, Prefix
<1>2. repairs' \in 0..RepairLimit
    BY DesignAssumption DEF redesignLoopback, TypePlan, Counted
<1> QED
    BY <1>1, <1>2 DEF redesignLoopback, TypePlan

LEMMA VerdictTypes ==
    ASSUME TypePlan, TypeChecks, NEW f \in Findings \cup {None},
           applyReviewVerdict(f), planned' = planned
    PROVE  /\ Prefix' /\ done' \subseteq Steps /\ repairs' \in 0..RepairLimit
           /\ lastLoop' \in Findings \cup {None, "code", "operator"} /\ torn' \subseteq {"plan", "acs"}
           /\ status' \in {"active", "waiting"}
<1>1. CASE f # None /\ redesignLoopback(f) /\ status' = "active"
    BY <1>1, RedesignTypes DEF TypeChecks
<1>2. CASE /\ done' = done \cup {"review"}
           /\ status' = IF f = None THEN "active" ELSE "waiting"
           /\ UNCHANGED <<units, lastLoop, repairs, torn>>
  <2>1. Prefix'
    BY <1>2 DEF TypePlan, Prefix
  <2> QED
    BY <1>2, <2>1 DEF TypePlan, TypeChecks, Steps
<1> QED
    BY <1>1, <1>2 DEF applyReviewVerdict

LEMMA ChecksKeepType ==
    ASSUME TypeChecks, UNCHANGED checks,
           pc' \in {"idle", "inserting", "down"}, runs' \in 1..MaxRuns, torn' \subseteq {"plan", "acs"}
    PROVE  TypeChecks'
BY DEF TypeChecks, checks

LEMMA PlanKeepsType ==
    ASSUME TypePlan, UNCHANGED <<plan, review, stage>>, status' \in {"active", "waiting"}, done' \subseteq Steps
    PROVE  TypePlan'
BY DEF TypePlan, plan, review, Prefix

(* The steps of the plan.                                                  *)
LEMMA PlanTypes ==
    ASSUME TypePlan, TypeChecks, PlanInv,
           Dispatch \/ Extract \/ InsertUnit \/ Extracted \/ Size \/ Review \/ Advance \/ GiveUp \/ PlanDefect
    PROVE  TypePlan' /\ TypeChecks'
<1>0. planned.units \in Seq(PlannedUnit) /\ planned.docs \in BOOLEAN
    BY PlannedIsSeq DEF TypePlan
<1>1. CASE Dispatch
  <2>1. units = <<>>
    BY <1>1 DEF Dispatch, Serves, Drives, Served, PlanInv
  <2>2. planned' = NoPlan /\ units' = <<>>
    BY <1>1, <2>1 DEF Dispatch
  <2>3. Prefix'
    BY <2>2, NoUnitsIsPrefix, EmptySeq DEF Prefix, NoPlan
  <2>4. TypePlan'
    BY <1>1, <2>2, <2>3 DEF Dispatch, TypePlan, review, Steps
  <2> QED
    BY <1>1, <2>4, ChecksKeepType DEF Dispatch, TypeChecks, Serves, Drives
<1>2. CASE Extract
  <2>1. units = <<>> /\ units' = <<>>
    BY <1>2 DEF Extract, Serves, Served
  <2>2. planned' \in Answers
    BY <1>2 DEF Extract
  <2>3. Prefix'
    BY <2>1, <2>2, NoUnitsIsPrefix, DesignAssumption DEF Prefix
  <2>4. TypePlan'
    BY <1>2, <2>2, <2>3 DEF Extract, TypePlan, review
  <2> QED
    BY <1>2, <2>4, ChecksKeepType DEF Extract, TypeChecks
<1>3. CASE InsertUnit
  <2>1. PICK n \in 0..Len(planned.units) : units = SubSeq(planned.units, 1, n)
    BY DEF TypePlan, Prefix
  <2>2. PICK m \in 0..Len(planned.units) : units' = SubSeq(planned.units, 1, m)
    BY <1>0, <1>3, <2>1, InsertExtends DEF InsertUnit
  <2>3. planned' = planned
    BY <1>3 DEF InsertUnit
  <2>4. Prefix'
    BY <2>2, <2>3 DEF Prefix
  <2>5. TypePlan'
    BY <1>3, <2>4 DEF InsertUnit, TypePlan, review
  <2> QED
    BY <1>3, <2>5, ChecksKeepType DEF InsertUnit, TypeChecks
<1>4. CASE Extracted
  <2>1. Prefix'
    BY <1>4 DEF Extracted, TypePlan, Prefix
  <2>2. needsDocs' \in BOOLEAN
    BY <1>0, <1>4 DEF Extracted, TypePlan
  <2>3. TypePlan'
    BY <1>4, <2>1, <2>2 DEF Extracted, TypePlan, review, Steps
  <2> QED
    BY <1>4, <2>3, ChecksKeepType DEF Extracted, TypeChecks
<1>5. CASE Size
  <2>1. Prefix'
    BY <1>5 DEF Size, TypePlan, Prefix
  <2>2. track' \in {"none", "fast", "full"}
    BY <1>5 DEF Size, Tracks
  <2>3. TypePlan'
    BY <1>5, <2>1, <2>2 DEF Size, TypePlan, review, Steps
  <2> QED
    BY <1>5, <2>3, ChecksKeepType DEF Size, TypeChecks, Serves, Drives
<1>6. CASE Review
  <2>1. PICK f \in Findings \cup {None} : open' = f /\ applyReviewVerdict(f)
    BY <1>6 DEF Review
  <2>2. /\ Prefix' /\ done' \subseteq Steps /\ repairs' \in 0..RepairLimit
        /\ lastLoop' \in Findings \cup {None, "code", "operator"} /\ torn' \subseteq {"plan", "acs"}
        /\ status' \in {"active", "waiting"}
    BY <1>6, <2>1, VerdictTypes DEF Review
  <2>3. TypePlan'
    BY <1>6, <2>1, <2>2 DEF Review, TypePlan
  <2> QED
    BY <1>6, <2>2, <2>3, ChecksKeepType DEF Review, TypeChecks, Serves, Drives
<1>7. CASE Advance
  <2>1. Prefix'
    BY <1>7 DEF Advance, plan, TypePlan, Prefix
  <2>2. TypePlan'
    BY <1>7, <2>1 DEF Advance, TypePlan, plan, review
  <2> QED
    BY <1>7, <2>2, ChecksKeepType DEF Advance, TypeChecks, Serves, Drives
<1>8. CASE GiveUp
    BY <1>8, PlanKeepsType, ChecksKeepType DEF GiveUp, TypePlan, TypeChecks, Drives
<1>9. CASE PlanDefect
  <2>1. Prefix' /\ done' \subseteq Steps /\ repairs' \in 0..RepairLimit
        /\ lastLoop' \in Findings \cup {None, "code", "operator"} /\ torn' \subseteq {"plan", "acs"}
    BY <1>9, RedesignTypes DEF PlanDefect, TypeChecks
  <2>2. TypePlan'
    BY <1>9, <2>1 DEF PlanDefect, TypePlan
  <2> QED
    BY <1>9, <2>1, <2>2, ChecksKeepType DEF PlanDefect, TypeChecks
<1> QED
    BY <1>1, <1>2, <1>3, <1>4, <1>5, <1>6, <1>7, <1>8, <1>9

LEMMA CrashTypes ==
    ASSUME TypePlan, TypeChecks, Crash \/ Resume
    PROVE  TypePlan' /\ TypeChecks'
<1>1. CASE Crash
  <2>1. torn' \subseteq {"plan", "acs"}
    BY <1>1 DEF Crash, Torn, TypeChecks
  <2> QED
    BY <1>1, <2>1, PlanKeepsType, ChecksKeepType DEF Crash, TypePlan, TypeChecks
<1>2. CASE Resume
  <2>0. runs' \in 1..MaxRuns /\ pc' = "idle"
    BY <1>2, DesignAssumption DEF Resume, TypeChecks
  <2>1. /\ Prefix' /\ done' \subseteq Steps /\ repairs' \in 0..RepairLimit
        /\ lastLoop' \in Findings \cup {None, "code", "operator"} /\ torn' \subseteq {"plan", "acs"}
        /\ status' \in {"active", "waiting"}
    <3>1. CASE stage = "design" /\ "review" \in done /\ open # None
      <4>1. CASE applyReviewVerdict(open)
        BY <1>2, <4>1, VerdictTypes DEF Resume, TypePlan
      <4>2. CASE redesignLoopback("operator") /\ status' = "active"
        BY <1>2, <4>2, RedesignTypes DEF Resume, TypeChecks
      <4> QED
        BY <1>2, <3>1, <4>1, <4>2 DEF Resume
    <3>2. CASE ~(stage = "design" /\ "review" \in done /\ open # None)
      <4>1. status' = "active" /\ UNCHANGED <<units, done, lastLoop, repairs, torn, planned>>
        BY <1>2, <3>2 DEF Resume
      <4> QED
        BY <4>1 DEF TypePlan, TypeChecks, Prefix
    <3> QED
      BY <3>1, <3>2
  <2>2. TypePlan'
    BY <1>2, <2>1 DEF Resume, TypePlan
  <2> QED
    BY <1>2, <2>0, <2>1, <2>2, ChecksKeepType DEF Resume
<1> QED
    BY <1>1, <1>2

----------------------------------------------------------------------------
(* Which checks are unresolved, and what a grade changes.                  *)

LEMMA UnresolvedPairs ==
    /\ \A c \in Acs : \A r \in active[c] : r.class = "open" => <<c, r>> \in listUnresolved
    /\ \A p \in listUnresolved : \E c \in Acs : \E r \in active[c] : p = <<c, r>> /\ r.class = "open"
<1> DEFINE Of(c) == {<<c, r>> : r \in {r \in active[c] : r.class = "open"}}
<1>1. listUnresolved = UNION {Of(c) : c \in Acs}
    BY DEF listUnresolved
<1>2. \A c \in Acs : \A r \in active[c] : r.class = "open" => <<c, r>> \in Of(c)
    OBVIOUS
<1>3. \A c \in Acs : \A p \in Of(c) : \E r \in active[c] : p = <<c, r>> /\ r.class = "open"
    OBVIOUS
<1> HIDE DEF Of
<1> QED
    BY <1>1, <1>2, <1>3

LEMMA FlaggedAreUngraded == {p[1] : p \in listUnresolved} = Ungraded
<1>1. ASSUME NEW p \in listUnresolved PROVE p[1] \in Ungraded
  <2>1. PICK c \in Acs : \E r \in active[c] : p = <<c, r>> /\ r.class = "open"
    BY UnresolvedPairs
  <2> QED
    BY <2>1 DEF Ungraded
<1>2. ASSUME NEW c \in Ungraded PROVE \E p \in listUnresolved : p[1] = c
  <2>1. PICK r \in active[c] : r.class = "open"
    BY DEF Ungraded
  <2>2. <<c, r>> \in listUnresolved
    BY <2>1, UnresolvedPairs DEF Ungraded
  <2> QED
    BY <2>2
<1> QED
    BY <1>1, <1>2

LEMMA RowIsCheck ==
    ASSUME NEW o, Covers(o)
    PROVE  /\ Row(CoarseOf(o), "open") \in Check
           /\ Row(CoarseOf(o), "open").coarse # "unrun"
BY DEF Covers, CoarseOf, Row, Check

LEMMA GradedIsCheck ==
    ASSUME NEW r \in Check, NEW class \in {"gating", "advisory", "waived", "open"}
    PROVE  /\ classifyAcCheck(r, class) \in Check
           /\ classifyAcCheck(r, class).coarse = r.coarse
BY DEF classifyAcCheck, Check

(* What checks:classify makes of the checks of a criterion.                *)
LEMMA ClassifyGrades ==
    ASSUME TypeChecks, Classify, NEW c \in Acs
    PROVE  /\ active'[c] \subseteq Check
           /\ \A s \in active'[c] : \E r \in active[c] : s.coarse = r.coarse
           /\ active[c] # {} => active'[c] # {}
           /\ \A r \in active[c] : r.class # "open" => r \in active'[c]
<1>1. PICK grade \in [listUnresolved -> {"gating", "advisory", "waived", "open"}] :
         /\ \A p \in listUnresolved : grade[p] \in Classes(p[2].coarse)
         /\ active' = [e \in Acs |->
                {r \in active[e] : r.class # "open"}
                \cup {classifyAcCheck(r, grade[<<e, r>>]) : r \in {r \in active[e] : r.class = "open"}}]
    BY DEF Classify
<1>2. active'[c] = {r \in active[c] : r.class # "open"}
                   \cup {classifyAcCheck(r, grade[<<c, r>>]) : r \in {r \in active[c] : r.class = "open"}}
    BY <1>1
<1>3. ASSUME NEW r \in active[c], r.class = "open"
      PROVE  /\ classifyAcCheck(r, grade[<<c, r>>]) \in Check
             /\ classifyAcCheck(r, grade[<<c, r>>]).coarse = r.coarse
             /\ classifyAcCheck(r, grade[<<c, r>>]) \in active'[c]
  <2>1. <<c, r>> \in listUnresolved
    BY <1>3, UnresolvedPairs
  <2>2. grade[<<c, r>>] \in {"gating", "advisory", "waived", "open"}
    BY <1>1, <2>1
  <2>3. r \in Check
    BY DEF TypeChecks
  <2> QED
    BY <1>2, <1>3, <2>2, <2>3, GradedIsCheck
<1>4. ASSUME NEW r \in active[c], r.class # "open" PROVE r \in active'[c] /\ r \in Check
    BY <1>2, <1>4 DEF TypeChecks
<1>5. ASSUME NEW s \in active'[c]
      PROVE  s \in Check /\ \E r \in active[c] : s.coarse = r.coarse
  <2>1. CASE \E r \in active[c] : r.class # "open" /\ s = r
    BY <2>1, <1>4
  <2>2. CASE \E r \in active[c] : r.class = "open" /\ s = classifyAcCheck(r, grade[<<c, r>>])
    BY <2>2, <1>3
  <2> QED
    BY <1>2, <2>1, <2>2
<1> QED
    BY <1>3, <1>4, <1>5

(* What supersedeByAc counts.                                              *)
LEMMA SupersedeCounts ==
    ASSUME TypeChecks, NEW criteria \in SUBSET Acs, supersedeByAc(criteria)
    PROVE  /\ rounds' \in [Acs -> 0..Cap]
           /\ \A c \in criteria : active'[c] = {} /\ rounds'[c] > 0
           /\ \A c \in Acs \ criteria : active'[c] = active[c] /\ rounds'[c] = rounds[c]
           /\ \A c \in criteria : rounds[c] + 1 >= Cap => rounds'[c] = Cap
           /\ \A c \in Acs : rounds'[c] >= rounds[c] /\ (rounds[c] < Cap /\ c \in criteria => rounds'[c] > rounds[c])
<1>1. Cap \in Nat \ {0}
    BY DesignAssumption
<1>2. ASSUME NEW c \in Acs
      PROVE  /\ rounds[c] \in 0..Cap /\ rounds'[c] \in 0..Cap
             /\ rounds'[c] = IF c \in criteria /\ rounds[c] < Cap THEN rounds[c] + 1 ELSE rounds[c]
             /\ active'[c] = IF c \in criteria THEN {} ELSE active[c]
    BY <1>1 DEF supersedeByAc, TypeChecks
<1>3. rounds' \in [Acs -> 0..Cap]
    BY <1>2 DEF supersedeByAc
<1>4. \A c \in criteria : active'[c] = {}
    BY <1>2
<1>5. \A c \in Acs \ criteria : active'[c] = active[c] /\ rounds'[c] = rounds[c]
    BY <1>2
<1>6. \A c \in criteria : rounds'[c] > 0 /\ (rounds[c] + 1 >= Cap => rounds'[c] = Cap)
    BY <1>1, <1>2
<1>7. \A c \in Acs : rounds'[c] >= rounds[c] /\ (rounds[c] < Cap /\ c \in criteria => rounds'[c] > rounds[c])
    BY <1>1, <1>2
<1> QED
    BY <1>3, <1>4, <1>5, <1>6, <1>7

(* The steps of the checks.                                                *)
LEMMA CheckTypes ==
    ASSUME TypePlan, TypeChecks, PlanInv, ChecksInv,
           Derive \/ InsertAc \/ NoAcs \/ NoRunner \/ Author \/ Authored \/ Classify \/ applyChecksVerdict
    PROVE  TypePlan' /\ TypeChecks'
<1>0. described \in Nat /\ acs \in Nat /\ acs <= described /\ 1..acs \subseteq Acs
    BY AcsAreCounted
<1>1. CASE Derive
  <2>1. acs' \in 0..described
    BY <1>0, <1>1 DEF Derive
  <2> QED
    BY <1>1, <2>1, PlanKeepsType DEF Derive, TypeChecks, TypePlan
<1>2. CASE InsertAc
  <2>1. acs' \in 0..described
    BY <1>0, <1>2 DEF InsertAc
  <2> QED
    BY <1>2, <2>1, PlanKeepsType DEF InsertAc, TypeChecks, TypePlan
<1>3. CASE NoAcs
  <2>1. pc = "idle"
    BY <1>0, <1>3 DEF NoAcs, Derived, Serves, Drives, ChecksInv
  <2>2. done' \subseteq Steps
    BY <1>3 DEF NoAcs, TypePlan, Steps
  <2> QED
    BY <1>3, <2>1, <2>2, PlanKeepsType, ChecksKeepType DEF NoAcs, TypeChecks, TypePlan
<1>4. CASE NoRunner
  <2>1. done' \subseteq Steps /\ status' \in {"active", "waiting"} /\ unrunnable' \in BOOLEAN
    <3>1. CASE \E i \in DOMAIN units : units[i].behavioral
      BY <1>4, <3>1 DEF NoRunner, TypePlan, TypeChecks
    <3>2. CASE ~(\E i \in DOMAIN units : units[i].behavioral)
      BY <1>4, <3>2 DEF NoRunner, TypePlan, TypeChecks, Steps
    <3> QED
      BY <3>1, <3>2
  <2>2. TypePlan'
    BY <1>4, <2>1, PlanKeepsType DEF NoRunner
  <2> QED
    BY <1>4, <2>1, <2>2 DEF NoRunner, TypeChecks
<1>5. CASE Author
  <2>1. PICK written :
          /\ \A c \in Scope : \E o \in written[c] : Covers(o)
          /\ active' = [c \in Acs |->
                IF c \in Scope THEN {Row(CoarseOf(o), "open") : o \in {o \in written[c] : Covers(o)}}
                ELSE active[c]]
    BY <1>5 DEF Author
  <2>2. \A c \in Acs : active'[c] \subseteq Check
    BY <2>1, RowIsCheck DEF TypeChecks
  <2>3. rounds' \in [Acs -> 0..Cap]
    <3>1. CASE Scope = flagged
      BY <1>5, <3>1 DEF Author, TypeChecks
    <3>2. CASE Scope # flagged
      <4>1. rounds' = [c \in Acs |-> 0]
        BY <1>5, <3>2 DEF Author
      <4> QED
        BY <4>1, DesignAssumption
    <3> QED
      BY <3>1, <3>2
  <2>4. TypePlan'
    BY <1>5, PlanKeepsType DEF Author, TypePlan
  <2> QED
    BY <1>5, <2>2, <2>3, <2>4 DEF Author, TypeChecks
<1>6. CASE Authored
  <2>1. done' \subseteq Steps
    BY <1>6 DEF Authored, TypePlan, Steps
  <2> QED
    BY <1>6, <2>1, PlanKeepsType, ChecksKeepType DEF Authored, TypeChecks, TypePlan
<1>7. CASE Classify
  <2>1. \A c \in Acs : active'[c] \subseteq Check
    BY <1>7, ClassifyGrades
  <2>2. TypePlan'
    BY <1>7, PlanKeepsType DEF Classify, TypePlan
  <2> QED
    BY <1>7, <2>1, <2>2 DEF Classify, TypeChecks
<1>8. CASE applyChecksVerdict
  <2>1. supersedeByAc(Ungraded) /\ Ungraded \subseteq Acs
    BY <1>8, FlaggedAreUngraded DEF applyChecksVerdict, Ungraded
  <2>2. done' \subseteq Steps /\ status' \in {"active", "waiting"} /\ flagged' \subseteq Acs
    BY <1>8, <2>1, FlaggedAreUngraded DEF applyChecksVerdict, TypePlan, TypeChecks, Steps
  <2>3. rounds' \in [Acs -> 0..Cap] /\ \A c \in Acs : active'[c] \subseteq active[c]
    BY <2>1, SupersedeCounts
  <2>4. TypePlan'
    BY <1>8, <2>2, PlanKeepsType DEF applyChecksVerdict
  <2> QED
    BY <1>8, <2>2, <2>3, <2>4 DEF applyChecksVerdict, TypeChecks
<1> QED
    BY <1>1, <1>2, <1>3, <1>4, <1>5, <1>6, <1>7, <1>8

----------------------------------------------------------------------------
(* The plan.                                                               *)

LEMMA InitPlan == Init => PlanInv /\ ChecksInv
BY DEF Init, PlanInv, ChecksInv, Working, Left, Ungraded

(* The steps of the checks leave the plan alone, and are taken in design.  *)
LEMMA PlanKept ==
    ASSUME PlanInv, stage = "design", stage' = "design",
           pc # "inserting", pc' # "inserting", pc' \in {"idle", "down"} \/ status' = "active",
           UNCHANGED <<units, planned, needsDocs, seen>>,
           "dispatch" \in done => "dispatch" \in done',
           "review" \in done <=> "review" \in done',
           "plan" \in torn => "plan" \in torn'
    PROVE  PlanInv'
BY DEF PlanInv, Working, Left, validateExtraction

LEMMA ChecksStepKeepsPlan ==
    ASSUME PlanInv,
           Derive \/ InsertAc \/ NoAcs \/ NoRunner \/ Author \/ Authored \/ Classify \/ applyChecksVerdict
    PROVE  PlanInv'
<1>1. CASE Derive
    BY <1>1, PlanKept DEF Derive, plan, Serves, Drives
<1>2. CASE InsertAc
    BY <1>2, PlanKept DEF InsertAc, plan, PlanInv, Working
<1>3. CASE NoAcs \/ NoRunner \/ Author
  <2>1. stage = "design" /\ status = "active" /\ pc # "inserting"
    BY <1>3 DEF NoAcs, NoRunner, Author, Derived, Serves, Drives, PlanInv, Working
  <2>2. CASE NoAcs
    BY <2>1, <2>2, PlanKept DEF NoAcs, plan, PlanInv, Working
  <2>3. CASE NoRunner
    BY <2>1, <2>3, PlanKept DEF NoRunner, plan
  <2>4. CASE Author
    BY <2>1, <2>4, PlanKept DEF Author, plan
  <2> QED
    BY <1>3, <2>2, <2>3, <2>4
<1>4. CASE Authored
    BY <1>4, PlanKept DEF Authored, plan, PlanInv, Working
<1>5. CASE Classify
    BY <1>5, PlanKept DEF Classify, plan, Serves, Drives
<1>6. CASE applyChecksVerdict
    BY <1>6, PlanKept DEF applyChecksVerdict, plan, PlanInv, Working
<1> QED
    BY <1>1, <1>2, <1>3, <1>4, <1>5, <1>6

(* A loopback to the plan: no units, no review.                            *)
LEMMA RedesignedPlan ==
    ASSUME PlanInv, NEW signature, redesignLoopback(signature),
           stage' = "design", pc' = "idle", planned' = planned
    PROVE  PlanInv'
BY DEF PlanInv, redesignLoopback, Working, Left

LEMMA PlanStepKeepsPlan ==
    ASSUME TypePlan, PlanInv,
           Dispatch \/ Extract \/ InsertUnit \/ Extracted \/ Size \/ Review \/ Advance \/ GiveUp \/ PlanDefect
    PROVE  PlanInv'
<1>1. CASE Dispatch
  <2>1. units = <<>> /\ pc = "idle" /\ stage = "design" /\ "review" \notin done
    BY <1>1 DEF Dispatch, Serves, Drives, Served, PlanInv
  <2> QED
    BY <1>1, <2>1 DEF Dispatch, PlanInv, Working, Left
<1>2. CASE Extract
  <2>1. units = <<>> /\ pc = "idle" /\ stage = "design" /\ status = "active"
        /\ "dispatch" \in done /\ "review" \notin done
    BY <1>2 DEF Extract, Serves, Drives, Served, PlanInv
  <2>2. PICK a \in Answers : validateExtraction(a.units) /\ planned' = a
    BY <1>2 DEF Extract
  <2>3. validateExtraction(planned'.units)
    BY <2>2
  <2>4. validateExtraction(planned.units)'
    BY <2>3 DEF validateExtraction
  <2> QED
    BY <1>2, <2>1, <2>2, <2>4 DEF Extract, PlanInv, Working, Left
<1>3. CASE InsertUnit
  <2>1. stage = "design" /\ status = "active" /\ "review" \notin done
        /\ "dispatch" \in done /\ planned \in Answers /\ validateExtraction(planned.units)
    BY <1>3 DEF InsertUnit, PlanInv, Working
  <2>2. validateExtraction(planned.units)'
    BY <1>3, <2>1 DEF InsertUnit, validateExtraction
  <2> QED
    BY <1>3, <2>1, <2>2 DEF InsertUnit, PlanInv, Working, Left
<1>4. CASE Extracted
  <2>1. stage = "design" /\ "review" \notin done
        /\ "dispatch" \in done /\ planned \in Answers /\ validateExtraction(planned.units)
    BY <1>4 DEF Extracted, PlanInv, Working
  <2>2. validateExtraction(planned.units)' /\ (planned'.docs => needsDocs')
    BY <1>4, <2>1 DEF Extracted, validateExtraction
  <2>3. units' = planned'.units /\ planned' \in Answers
    BY <1>4, <2>1 DEF Extracted
  <2>4. /\ pc' = "idle" /\ stage' = "design" /\ "dispatch" \in done' /\ "review" \notin done'
    BY <1>4, <2>1 DEF Extracted
  <2> QED
    BY <2>2, <2>3, <2>4 DEF PlanInv, Working, Left
<1>5. CASE Size
    BY <1>5, PlanKept DEF Size, Serves, Drives
<1>6. CASE Review
  <2>1. /\ stage = "design" /\ pc = "idle" /\ units # <<>>
        /\ stage' = "design" /\ pc' = "idle" /\ seen' = units /\ UNCHANGED <<planned, needsDocs>>
    BY <1>6 DEF Review, Serves, Drives, Served
  <2>2. PICK f \in Findings \cup {None} : applyReviewVerdict(f)
    BY <1>6 DEF Review
  <2>3. CASE redesignLoopback(f)
    BY <2>1, <2>3, RedesignedPlan
  <2>4. CASE done' = done \cup {"review"} /\ UNCHANGED <<units, torn>>
    BY <2>1, <2>4 DEF PlanInv, Working, Left, validateExtraction
  <2> QED
    BY <2>2, <2>3, <2>4 DEF applyReviewVerdict
<1>7. CASE Advance
  <2>1. /\ pc = "idle" /\ stage = "design" /\ units # <<>>
        /\ {"dispatch", "checks", "classify"} \subseteq done
        /\ track = "full" => "review" \in done /\ open = None
    BY <1>7 DEF Advance, Serves, Drives, Served
  <2> QED
    BY <1>7, <2>1 DEF Advance, plan, review, PlanInv, Working, Left, validateExtraction
<1>8. CASE GiveUp
    BY <1>8, PlanKept DEF GiveUp, plan, Drives
<1>9. CASE PlanDefect
    BY <1>9, RedesignedPlan DEF PlanDefect
<1> QED
    BY <1>1, <1>2, <1>3, <1>4, <1>5, <1>6, <1>7, <1>8, <1>9

(* A crash tears what it finds half written, and nothing else is lost.     *)
LEMMA CrashKeepsThePlan ==
    ASSUME TypePlan, PlanInv, Crash \/ Resume
    PROVE  PlanInv'
<1>1. CASE Crash
  <2>1. /\ pc' = "down" /\ UNCHANGED <<stage, status, done, units, needsDocs, track, planned, seen, open>>
        /\ torn \subseteq torn' /\ ("plan" \in Torn => "plan" \in torn')
    BY <1>1 DEF Crash, plan, review
  <2>2. CASE pc # "inserting"
    BY <2>1, <2>2 DEF PlanInv, Working, Left, validateExtraction
  <2>3. CASE pc = "inserting"
    <3>1. /\ stage = "design" /\ "review" \notin done
          /\ "dispatch" \in done /\ planned \in Answers /\ validateExtraction(planned.units)
      BY <2>3 DEF PlanInv, Working
    <3>2. units # <<>> /\ "plan" \notin torn' => units = planned.units /\ (planned.docs => needsDocs)
      BY <2>1, <2>3 DEF Torn
    <3>3. validateExtraction(planned.units)'
      BY <2>1, <3>1 DEF validateExtraction
    <3> QED
      BY <2>1, <3>1, <3>2, <3>3 DEF PlanInv, Working, Left
  <2> QED
    BY <2>2, <2>3
<1>2. CASE Resume
  <2>1. /\ pc' = "idle" /\ UNCHANGED <<stage, needsDocs, track, open, planned, seen>>
        /\ pc = "down" \/ status = "waiting"
    BY <1>2 DEF Resume
  <2>2. pc # "inserting"
    BY <2>1 DEF PlanInv, Working
  <2>3. CASE stage = "design" /\ "review" \in done /\ open # None
    <3>1. CASE redesignLoopback(open) \/ redesignLoopback("operator")
      BY <2>1, <2>3, <3>1, RedesignedPlan
    <3>2. CASE done' = done \cup {"review"} /\ UNCHANGED <<units, torn>>
      <4>1. done' = done
        BY <2>3, <3>2
      <4> QED
        BY <2>1, <2>2, <2>3, <3>2, <4>1 DEF PlanInv, Working, Left, validateExtraction
    <3> QED
      BY <1>2, <2>3, <3>1, <3>2 DEF Resume, applyReviewVerdict
  <2>4. CASE ~(stage = "design" /\ "review" \in done /\ open # None)
    <3>1. UNCHANGED <<units, done, torn>>
      BY <1>2, <2>4 DEF Resume
    <3> QED
      BY <2>1, <2>2, <3>1 DEF PlanInv, Working, Left, validateExtraction
  <2> QED
    BY <2>3, <2>4
<1> QED
    BY <1>1, <1>2

----------------------------------------------------------------------------
(* The checks.                                                             *)

(* The steps of the plan, the crash and the resume leave the checks alone; *)
(* a crash among the inserts of criteria is on record.                     *)
LEMMA ChecksKept ==
    ASSUME ChecksInv, UNCHANGED checks,
           "checks" \in done <=> "checks" \in done',
           "classify" \in done <=> "classify" \in done',
           "acs" \in torn => "acs" \in torn',
           pc' \notin {"deriving", "persisted", "classified"},
           pc = "deriving" /\ acs # described => "acs" \in torn'
    PROVE  ChecksInv'
<1>1. /\ acs' = acs /\ described' = described /\ active' = active /\ rounds' = rounds
      /\ flagged' = flagged /\ unrunnable' = unrunnable
    BY DEF checks
<1>2. AllDerived => AllDerived'
    BY <1>1 DEF AllDerived
<1>3. pc = "deriving" => AllDerived'
    BY <1>1 DEF AllDerived
<1>4. (\A c \in Acs : Covered(c)' = Covered(c) /\ Answered(c)' = Answered(c)) /\ Ungraded' = Ungraded
    BY <1>1 DEF Covered, Answered, Ungraded
<1>5. (\A c \in (1..acs) : Covered(c) => Covered(c)') /\ (\A c \in (1..acs) : Answered(c) => Answered(c)')
    BY <1>1 DEF Covered, Answered
<1> QED
    BY <1>1, <1>2, <1>3, <1>4, <1>5 DEF ChecksInv

LEMMA PlanStepKeepsChecks ==
    ASSUME TypeChecks, PlanInv, ChecksInv,
           Dispatch \/ Extract \/ InsertUnit \/ Extracted \/ Size \/ Review \/ Advance \/ GiveUp \/ PlanDefect
           \/ Crash \/ Resume
    PROVE  ChecksInv'
<1>1. CASE Dispatch
    BY <1>1, ChecksKept DEF Dispatch, Serves, Drives
<1>2. CASE Extract
    BY <1>2, ChecksKept DEF Extract, Serves, Drives
<1>3. CASE InsertUnit
    BY <1>3, ChecksKept DEF InsertUnit
<1>4. CASE Extracted
    BY <1>4, ChecksKept DEF Extracted
<1>5. CASE Size
    BY <1>5, ChecksKept DEF Size, Serves, Drives
<1>6. CASE Review
    BY <1>6, ChecksKept DEF Review, Serves, Drives, applyReviewVerdict, redesignLoopback
<1>7. CASE Advance
    BY <1>7, ChecksKept DEF Advance, Serves, Drives
<1>8. CASE GiveUp
    BY <1>8, ChecksKept DEF GiveUp, Drives
<1>9. CASE PlanDefect
    BY <1>9, ChecksKept DEF PlanDefect, redesignLoopback
<1>10. CASE Crash
  <2>1. acs # described => acs < described
    BY AcsAreCounted
  <2> QED
    BY <1>10, <2>1, ChecksKept DEF Crash, Torn
<1>11. CASE Resume
  <2>1. pc' = "idle" /\ UNCHANGED checks /\ pc # "deriving"
    BY <1>11 DEF Resume, PlanInv, Working
  <2>2. /\ "checks" \in done <=> "checks" \in done'
        /\ "classify" \in done <=> "classify" \in done'
        /\ "acs" \in torn => "acs" \in torn'
    BY <1>11 DEF Resume, applyReviewVerdict, redesignLoopback
  <2> QED
    BY <2>1, <2>2, ChecksKept
<1> QED
    BY <1>1, <1>2, <1>3, <1>4, <1>5, <1>6, <1>7, <1>8, <1>9, <1>10, <1>11

LEMMA DeriveKeepsChecks ==
    ASSUME TypeChecks, ChecksInv, Derive \/ InsertAc
    PROVE  ChecksInv'
<1>0. described \in Nat /\ acs \in Nat /\ acs <= described /\ 1..acs \subseteq Acs
    BY AcsAreCounted
<1>1. CASE Derive
  <2>1. /\ "checks" \notin done /\ acs = 0 /\ acs' = 1 /\ pc' = "deriving"
        /\ UNCHANGED <<done, active, flagged, torn>>
    BY <1>1 DEF Derive, Serves, Served
  <2>2. flagged = {} /\ \A c \in Acs : active[c] = {}
    BY <2>1 DEF ChecksInv
  <2> QED
    BY <2>1, <2>2 DEF ChecksInv, Ungraded
<1>2. CASE InsertAc
  <2>1. /\ pc = "deriving" /\ pc' = "deriving" /\ acs' = acs + 1
        /\ UNCHANGED <<done, active, flagged, torn>>
    BY <1>2 DEF InsertAc
  <2>2. flagged = {} /\ acs > 0 /\ "checks" \notin done /\ \A c \in Acs : active[c] # {} => c \in 1..acs
    BY <2>1 DEF ChecksInv
  <2>3. 1..acs \subseteq 1..(acs + 1)
    BY <1>0
  <2> QED
    BY <1>0, <2>1, <2>2, <2>3 DEF ChecksInv, Ungraded
<1> QED
    BY <1>1, <1>2

(* The criteria are all there when they are authored.                      *)
LEMMA DerivedIsAll ==
    ASSUME TypeChecks, ChecksInv, Derived
    PROVE  AllDerived /\ "checks" \notin done /\ "classify" \notin done
           /\ pc \notin {"persisted", "classified"}
<1>1. CASE pc = "deriving" /\ acs = described
    BY <1>1 DEF ChecksInv, AllDerived
<1>2. CASE Serves("checks") /\ (acs > 0 \/ described = 0)
  <2>1. "checks" \notin done /\ pc = "idle"
    BY <1>2 DEF Serves, Served, Drives
  <2>2. acs = 0 => acs = described
    BY <1>2, AcsAreCounted
  <2> QED
    BY <2>1, <2>2 DEF ChecksInv, AllDerived
<1> QED
    BY <1>1, <1>2 DEF Derived

LEMMA SkipsKeepChecks ==
    ASSUME TypeChecks, ChecksInv, NoAcs \/ NoRunner
    PROVE  ChecksInv'
<1>0. described \in Nat /\ acs \in Nat /\ acs <= described /\ 1..acs \subseteq Acs
    BY AcsAreCounted
<1>1. AllDerived /\ "checks" \notin done /\ "classify" \notin done /\ pc \notin {"persisted", "classified"}
    BY DerivedIsAll DEF NoAcs, NoRunner
<1>2. UNCHANGED <<acs, described, active, rounds, flagged, torn>>
    BY DEF NoAcs, NoRunner, checks
<1>3. AllDerived'
    BY <1>1, <1>2 DEF AllDerived
<1>4. CASE NoAcs
  <2>1. pc' = "idle" /\ acs = 0 /\ done' = done \cup {"checks"}
    BY <1>0, <1>1, <1>4 DEF NoAcs, Derived, ChecksInv, Serves, Drives
  <2> QED
    BY <1>1, <1>2, <1>3, <2>1 DEF ChecksInv
<1>5. CASE NoRunner
  <2>1. pc' = "idle"
    BY <1>5 DEF NoRunner
  <2>2. CASE done' = done /\ unrunnable' = unrunnable
    BY <1>1, <1>2, <1>3, <2>1, <2>2 DEF ChecksInv, Covered
  <2>3. CASE done' = done \cup {"checks"} /\ unrunnable' = TRUE
    BY <1>1, <1>2, <1>3, <2>1, <2>3 DEF ChecksInv, Covered
  <2> QED
    BY <1>5, <2>2, <2>3 DEF NoRunner
<1> QED
    BY <1>4, <1>5

LEMMA AuthorKeepsChecks ==
    ASSUME TypeChecks, ChecksInv, Author \/ Authored
    PROVE  ChecksInv'
<1>0. described \in Nat /\ acs \in Nat /\ acs <= described /\ 1..acs \subseteq Acs
    BY AcsAreCounted
<1>1. CASE Author
  <2>1. AllDerived /\ "checks" \notin done /\ "classify" \notin done
    BY <1>1, DerivedIsAll DEF Author
  <2>2. /\ pc' = "persisted" /\ UNCHANGED <<acs, described, flagged, unrunnable, torn, done>>
    BY <1>1 DEF Author
  <2>3. PICK written :
          /\ \A c \in Scope : \E o \in written[c] : Covers(o)
          /\ active' = [c \in Acs |->
                IF c \in Scope THEN {Row(CoarseOf(o), "open") : o \in {o \in written[c] : Covers(o)}}
                ELSE active[c]]
    BY <1>1 DEF Author
  <2>4. Scope \subseteq 1..acs /\ ((1..acs) \ Scope # {} => flagged # {} /\ Scope = flagged)
    BY DEF Scope, ChecksInv
  <2>5. \A c \in Scope : active'[c] # {}
    BY <1>0, <2>3, <2>4
  <2>6. \A c \in Acs \ Scope : active'[c] = active[c]
    BY <2>3
  <2>7. \A c \in Acs : \A r \in active'[c] : r.coarse # "unrun"
    BY <2>3, RowIsCheck DEF ChecksInv
  <2>8. \A c \in 1..acs : Covered(c)'
    BY <1>0, <2>1, <2>2, <2>4, <2>5, <2>6 DEF Covered, ChecksInv
  <2>9. \A c \in Acs : active'[c] # {} => c \in 1..acs
    BY <2>4, <2>6 DEF ChecksInv
  <2>10. AllDerived'
    BY <2>1, <2>2 DEF AllDerived
  <2> QED
    BY <2>1, <2>2, <2>7, <2>8, <2>9, <2>10 DEF ChecksInv
<1>2. CASE Authored
  <2>1. /\ pc = "persisted" /\ pc' = "idle" /\ done' = done \cup {"checks"} /\ UNCHANGED torn
        /\ UNCHANGED <<acs, described, active, rounds, flagged, unrunnable>>
    BY <1>2 DEF Authored, checks
  <2>2. AllDerived'
    BY <2>1 DEF ChecksInv, AllDerived
  <2>3. \A c \in 1..acs : Covered(c)'
    BY <2>1 DEF ChecksInv, Covered
  <2>4. "checks" \notin done /\ "classify" \notin done
    BY <2>1 DEF ChecksInv
  <2> QED
    BY <2>1, <2>2, <2>3, <2>4 DEF ChecksInv
<1> QED
    BY <1>1, <1>2

LEMMA GradingKeepsChecks ==
    ASSUME TypeChecks, ChecksInv, Classify \/ applyChecksVerdict
    PROVE  ChecksInv'
<1>0. described \in Nat /\ acs \in Nat /\ acs <= described /\ 1..acs \subseteq Acs
    BY AcsAreCounted
<1>1. CASE Classify
  <2>1. "checks" \in done /\ "classify" \notin done /\ pc = "idle"
    BY <1>1 DEF Classify, Serves, Served, Drives
  <2>2. pc' = "classified" /\ UNCHANGED <<done, acs, described, rounds, flagged, unrunnable, torn>>
    BY <1>1 DEF Classify
  <2>3. \A c \in Acs : /\ \A s \in active'[c] : \E r \in active[c] : s.coarse = r.coarse
                       /\ active[c] # {} => active'[c] # {}
    BY <1>1, ClassifyGrades
  <2>4. \A c \in Acs : \A r \in active'[c] : r.coarse # "unrun"
    BY <2>3 DEF ChecksInv
  <2>5. \A c \in Acs : active'[c] # {} => c \in 1..acs
    BY <2>3 DEF ChecksInv
  <2>6. \A c \in 1..acs : Covered(c) => Covered(c)'
    BY <1>0, <2>2, <2>3 DEF Covered
  <2>7. AllDerived'
    BY <2>1, <2>2 DEF AllDerived, ChecksInv
  <2> QED
    BY <2>1, <2>2, <2>4, <2>5, <2>6, <2>7 DEF ChecksInv
<1>2. CASE applyChecksVerdict
  <2>1. /\ pc = "classified" /\ pc' = "idle" /\ UNCHANGED <<acs, described, unrunnable, torn>>
    BY <1>2 DEF applyChecksVerdict
  <2>2. /\ "checks" \in done /\ "classify" \notin done
        /\ \A c \in 1..acs : Covered(c)
        /\ AllDerived
    BY <2>1 DEF ChecksInv
  <2>3. supersedeByAc(Ungraded) /\ Ungraded \subseteq Acs
    BY <1>2, FlaggedAreUngraded DEF applyChecksVerdict, Ungraded
  <2>4. /\ \A c \in Ungraded : active'[c] = {} /\ rounds'[c] > 0
        /\ \A c \in Acs \ Ungraded : active'[c] = active[c] /\ rounds'[c] = rounds[c]
        /\ \A c \in Ungraded : rounds[c] + 1 >= Cap => rounds'[c] = Cap
    BY <2>3, SupersedeCounts
  <2>5. Ungraded \subseteq 1..acs
    BY DEF Ungraded, ChecksInv
  <2>6. \A c \in Acs : active'[c] # {} => c \in 1..acs /\ \A r \in active'[c] : r.coarse # "unrun"
    BY <2>4 DEF ChecksInv
  <2>7. \A c \in (1..acs) \ Ungraded : Covered(c)'
    BY <1>0, <2>1, <2>2, <2>4 DEF Covered
  <2>8. AllDerived'
    BY <2>1, <2>2 DEF AllDerived
  <2>9. Ungraded' = {}
    BY <2>4 DEF Ungraded
  <2>10. CASE /\ Ungraded = {} \/ Exhausted(Ungraded)
              /\ done' = done \cup {"classify"} /\ flagged' = flagged
    <3>1. ASSUME NEW c \in 1..acs PROVE Answered(c)'
      <4>1. CASE c \in Ungraded
        <5>1. PICK d \in Ungraded : rounds[d] + 1 >= Cap
          BY <2>10, <4>1 DEF Exhausted
        <5>2. d \in 1..acs' /\ rounds'[d] = Cap
          BY <2>1, <2>4, <2>5, <5>1
        <5> QED
          BY <2>4, <4>1, <5>2 DEF Answered
      <4>2. CASE c \notin Ungraded
        BY <2>7, <4>2 DEF Covered, Answered
      <4> QED
        BY <4>1, <4>2
    <3> QED
      BY <2>1, <2>2, <2>6, <2>8, <2>9, <2>10, <3>1 DEF ChecksInv
  <2>11. CASE /\ Ungraded # {}
              /\ done' = done \ {"checks", "classify"} /\ flagged' = Ungraded
    BY <2>1, <2>2, <2>5, <2>6, <2>7, <2>8, <2>9, <2>11 DEF ChecksInv
  <2> QED
    BY <1>2, <2>10, <2>11, FlaggedAreUngraded DEF applyChecksVerdict
<1> QED
    BY <1>1, <1>2

----------------------------------------------------------------------------
(* Grades and rounds, and what the resolver serves.                        *)

LEMMA InitGrades == Init => GradeInv /\ ServedInv
BY DesignAssumption DEF Init, GradeInv, ServedInv

LEMMA GradesKept ==
    ASSUME GradeInv, UNCHANGED <<active, rounds, flagged>>,
           "checks" \in done => "checks" \in done',
           "classify" \in done => "classify" \in done'
    PROVE  GradeInv'
BY DEF GradeInv

LEMMA GradeStep ==
    ASSUME TypePlan, TypeChecks, PlanInv, ChecksInv, GradeInv, Step \/ GiveUp \/ PlanDefect \/ Crash \/ Resume
    PROVE  GradeInv'
<1>1. CASE Author
  <2>1. "checks" \notin done /\ "classify" \notin done /\ UNCHANGED <<done, flagged>>
    BY <1>1, DerivedIsAll DEF Author
  <2>2. PICK written :
          active' = [c \in Acs |->
                IF c \in Scope THEN {Row(CoarseOf(o), "open") : o \in {o \in written[c] : Covers(o)}}
                ELSE active[c]]
    BY <1>1 DEF Author
  <2>3. \A c \in Scope \cap Acs : \A r \in active'[c] : r.class = "open"
    BY <2>2 DEF Row
  <2>4. \A c \in Acs \ Scope : active'[c] = active[c]
    BY <2>2
  <2>5. CASE flagged # {}
    <3>1. Scope = flagged /\ rounds' = rounds /\ flagged \subseteq Acs
      BY <1>1, <2>5 DEF Author, Scope, TypeChecks
    <3> QED
      BY <2>1, <2>3, <2>5, <3>1 DEF GradeInv
  <2>6. CASE flagged = {}
    <3>1. Scope # flagged
      <4>1. 1 \in Scope
        BY <1>1, <2>6, AcsAreCounted DEF Author, Scope
      <4> QED
        BY <2>6, <4>1
    <3>2. rounds' = [c \in Acs |-> 0]
      BY <1>1, <3>1 DEF Author
    <3>3. \A c \in Acs : \A r \in active'[c] : r.class = "open"
      BY <2>1, <2>3, <2>4, <2>6 DEF GradeInv
    <3> QED
      BY <2>1, <2>6, <3>2, <3>3, DesignAssumption DEF GradeInv
  <2> QED
    BY <2>5, <2>6
<1>2. CASE Classify
  <2>1. "checks" \in done /\ UNCHANGED <<done, rounds, flagged>>
    BY <1>2 DEF Classify, Serves, Served
  <2> QED
    BY <2>1 DEF GradeInv
<1>3. CASE applyChecksVerdict
  <2>1. "checks" \in done /\ "classify" \notin done
    BY <1>3 DEF applyChecksVerdict, ChecksInv
  <2>2. supersedeByAc(Ungraded) /\ Ungraded \subseteq Acs
    BY <1>3, FlaggedAreUngraded DEF applyChecksVerdict, Ungraded
  <2>3. /\ \A c \in Ungraded : active'[c] = {}
        /\ \A c \in Acs \ Ungraded : rounds'[c] = rounds[c]
    BY <2>2, SupersedeCounts
  <2>4. CASE done' = done \cup {"classify"}
    BY <2>1, <2>4 DEF GradeInv
  <2>5. CASE Ungraded # {} /\ ~Exhausted(Ungraded) /\ done' = done \ {"checks", "classify"} /\ flagged' = Ungraded
    <3>1. \A c \in Acs : rounds'[c] < Cap
      <4>1. \A c \in Acs : rounds[c] \in 0..Cap /\ rounds[c] < Cap
        BY <2>1 DEF GradeInv, TypeChecks
      <4>2. ASSUME NEW c \in Ungraded PROVE rounds'[c] < Cap
        <5>1. rounds'[c] = rounds[c] + 1 /\ ~(rounds[c] + 1 >= Cap)
          BY <2>2, <2>5, <4>1 DEF Exhausted, supersedeByAc
        <5> QED
          BY <2>2, <4>1, <5>1, DesignAssumption
      <4> QED
        BY <2>3, <4>1, <4>2
    <3> QED
      BY <2>3, <2>5, <3>1 DEF GradeInv
  <2> QED
    BY <1>3, <2>4, <2>5, FlaggedAreUngraded DEF applyChecksVerdict
<1>4. CASE Dispatch \/ Extract \/ InsertUnit \/ Extracted \/ Size
    BY <1>4, GradesKept DEF Dispatch, Extract, InsertUnit, Extracted, Size, checks
<1>5. CASE Review
    BY <1>5, GradesKept DEF Review, applyReviewVerdict, redesignLoopback, checks
<1>6. CASE Derive \/ InsertAc \/ NoAcs \/ Authored
    BY <1>6, GradesKept DEF Derive, InsertAc, NoAcs, Authored, checks
<1>7. CASE NoRunner
    BY <1>7, GradesKept DEF NoRunner
<1>8. CASE Advance \/ GiveUp \/ PlanDefect \/ Crash
    BY <1>8, GradesKept DEF Advance, GiveUp, PlanDefect, Crash, redesignLoopback, checks
<1>9. CASE Resume
    BY <1>9, GradesKept DEF Resume, applyReviewVerdict, redesignLoopback, checks
<1> QED
    BY <1>1, <1>2, <1>3, <1>4, <1>5, <1>6, <1>7, <1>8, <1>9 DEF Step

LEMMA ServedKept ==
    ASSUME ServedInv, UNCHANGED <<units, track, open>>,
           done' \ {"checks", "classify"} \subseteq done, pc' # "inserting",
           status' = status \/ status' = "waiting"
    PROVE  ServedInv'
BY DEF ServedInv

LEMMA RedesignServed ==
    ASSUME ServedInv, NEW signature, redesignLoopback(signature), track' = track
    PROVE  ServedInv'
BY DEF ServedInv, redesignLoopback

LEMMA ServedStep ==
    ASSUME TypePlan, TypeChecks, PlanInv, ChecksInv, ServedInv, Step \/ GiveUp \/ PlanDefect \/ Crash \/ Resume
    PROVE  ServedInv'
<1>1. CASE Dispatch
    BY <1>1, ServedKept DEF Dispatch, review, Serves, Drives, ServedInv
<1>2. CASE Extract
    BY <1>2 DEF Extract, review, ServedInv
<1>3. CASE InsertUnit
    BY <1>3 DEF InsertUnit, review, ServedInv
<1>4. CASE Extracted
  <2>1. units # <<>> /\ units' = units
    BY <1>4 DEF Extracted, PlanInv, validateExtraction
  <2> QED
    BY <1>4, <2>1 DEF Extracted, review, ServedInv
<1>5. CASE Size
  <2>1. track' # "none" /\ track = "none"
    BY <1>5 DEF Size, Tracks, Serves, Served
  <2>2. "review" \notin done
    BY <2>1 DEF ServedInv
  <2> QED
    BY <1>5, <2>1, <2>2 DEF Size, review, ServedInv
<1>6. CASE Review
  <2>1. /\ pc = "idle" /\ units # <<>> /\ track = "full" /\ "review" \notin done
        /\ pc' = "idle" /\ track' = track
    BY <1>6 DEF Review, Serves, Drives, Served
  <2>2. PICK f \in Findings \cup {None} : open' = f /\ applyReviewVerdict(f)
    BY <1>6 DEF Review
  <2>3. CASE redesignLoopback(f)
    BY <2>1, <2>3, RedesignServed
  <2>4. CASE /\ done' = done \cup {"review"} /\ UNCHANGED units
             /\ status' = IF f = None THEN "active" ELSE "waiting"
    BY <2>1, <2>2, <2>4 DEF ServedInv
  <2> QED
    BY <2>2, <2>3, <2>4 DEF applyReviewVerdict
<1>7. CASE Derive \/ InsertAc
    BY <1>7, ServedKept DEF Derive, InsertAc, plan, review
<1>8. CASE NoAcs \/ NoRunner \/ Author
  <2>1. pc # "inserting"
    BY <1>8 DEF NoAcs, NoRunner, Author, Derived, Serves, Drives
  <2>2. CASE NoAcs
    BY <2>1, <2>2, ServedKept DEF NoAcs, plan, review
  <2>3. CASE NoRunner
    BY <2>1, <2>3, ServedKept DEF NoRunner, plan, review
  <2>4. CASE Author
    BY <2>1, <2>4, ServedKept DEF Author, plan, review
  <2> QED
    BY <1>8, <2>2, <2>3, <2>4
<1>9. CASE Authored \/ Classify
    BY <1>9, ServedKept DEF Authored, Classify, plan, review
<1>10. CASE applyChecksVerdict
    BY <1>10, ServedKept DEF applyChecksVerdict, plan, review
<1>11. CASE Advance \/ GiveUp
    BY <1>11, ServedKept DEF Advance, GiveUp, plan, review, Serves, Drives
<1>12. CASE PlanDefect
    BY <1>12, RedesignServed DEF PlanDefect
<1>13. CASE Crash
    BY <1>13, ServedKept DEF Crash, plan, review
<1>14. CASE Resume
  <2>1. pc' = "idle" /\ UNCHANGED <<track, open>>
    BY <1>14 DEF Resume
  <2>2. CASE stage = "design" /\ "review" \in done /\ open # None
    <3>1. CASE redesignLoopback(open) \/ redesignLoopback("operator")
      BY <2>1, <3>1, RedesignServed
    <3>2. CASE done' = done \cup {"review"} /\ UNCHANGED units /\ status' = "waiting"
      <4>1. done' = done
        BY <2>2, <3>2
      <4> QED
        BY <2>1, <3>2, <4>1 DEF ServedInv
    <3> QED
      BY <1>14, <2>2, <3>1, <3>2 DEF Resume, applyReviewVerdict
  <2>3. CASE ~(stage = "design" /\ "review" \in done /\ open # None)
    <3>1. UNCHANGED <<units, done>>
      BY <1>14, <2>3 DEF Resume
    <3>2. "review" \in done => open = None
      BY <2>3 DEF ServedInv, PlanInv, Left, TypePlan
    <3> QED
      BY <2>1, <3>1, <3>2 DEF ServedInv
  <2> QED
    BY <2>2, <2>3
<1> QED
    BY <1>1, <1>2, <1>3, <1>4, <1>5, <1>6, <1>7, <1>8, <1>9, <1>10, <1>11, <1>12, <1>13, <1>14 DEF Step

----------------------------------------------------------------------------
LEMMA InvStep == IInv /\ [Next]_vars => IInv'
<1> SUFFICES ASSUME IInv, [Next]_vars PROVE IInv'
    OBVIOUS
<1>0. TypePlan /\ TypeChecks /\ PlanInv /\ ChecksInv /\ GradeInv /\ ServedInv
    BY TypeParts DEF IInv
<1>1. CASE UNCHANGED vars
  <2>1. TypeOK'
    BY <1>1 DEF IInv, vars, TypeOK
  <2>2. PlanInv'
    BY <1>0, <1>1 DEF vars, PlanInv, Working, Left, validateExtraction
  <2>3. ChecksInv'
    BY <1>0, <1>1 DEF vars, ChecksInv, Ungraded, AllDerived, Covered, Answered
  <2>4. GradeInv' /\ ServedInv'
    BY <1>0, <1>1 DEF vars, GradeInv, ServedInv
  <2> QED
    BY <2>1, <2>2, <2>3, <2>4 DEF IInv
<1>2. CASE Next
  <2>0. Step \/ GiveUp \/ PlanDefect \/ Crash \/ Resume
    BY <1>2 DEF Next
  <2>1. GradeInv' /\ ServedInv'
    BY <1>0, <2>0, GradeStep, ServedStep
  <2>2. CASE Dispatch \/ Extract \/ InsertUnit \/ Extracted \/ Size \/ Review \/ Advance \/ GiveUp \/ PlanDefect
    <3>1. TypePlan' /\ TypeChecks'
      BY <1>0, <2>2, PlanTypes
    <3>2. TypeOK'
      BY <3>1 DEF TypeOK, TypePlan, TypeChecks, Prefix
    <3>3. PlanInv' /\ ChecksInv'
      BY <1>0, <2>2, PlanStepKeepsPlan, PlanStepKeepsChecks
    <3> QED
      BY <2>1, <3>2, <3>3 DEF IInv
  <2>3. CASE Derive \/ InsertAc \/ NoAcs \/ NoRunner \/ Author \/ Authored \/ Classify \/ applyChecksVerdict
    <3>1. TypePlan' /\ TypeChecks'
      BY <1>0, <2>3, CheckTypes
    <3>2. TypeOK'
      BY <3>1 DEF TypeOK, TypePlan, TypeChecks, Prefix
    <3>3. PlanInv'
      BY <1>0, <2>3, ChecksStepKeepsPlan
    <3>4. ChecksInv'
      BY <1>0, <2>3, DeriveKeepsChecks, SkipsKeepChecks, AuthorKeepsChecks, GradingKeepsChecks
    <3> QED
      BY <2>1, <3>2, <3>3, <3>4 DEF IInv
  <2>4. CASE Crash \/ Resume
    <3>1. TypePlan' /\ TypeChecks'
      BY <1>0, <2>4, CrashTypes
    <3>2. TypeOK'
      BY <3>1 DEF TypeOK, TypePlan, TypeChecks, Prefix
    <3>3. PlanInv' /\ ChecksInv'
      BY <1>0, <2>4, CrashKeepsThePlan, PlanStepKeepsChecks
    <3> QED
      BY <2>1, <3>2, <3>3 DEF IInv
  <2> QED
    BY <2>0, <2>2, <2>3, <2>4 DEF Step
<1> QED
    BY <1>1, <1>2

(* What the plan's, the checks' and the loopbacks' steps rely on, together *)
(* with the types, is an invariant: no crash between two writes, no resume *)
(* and no loopback breaks it.                                              *)
THEOREM Inductive == Spec => []IInv
<1>1. Init => IInv
    BY InitTypes, InitPlan, InitGrades DEF IInv
<1> QED
    BY <1>1, InvStep, PTL DEF Spec

(* The stage's variables have their types; the units that are stored are a *)
(* prefix of the plan they come from.                                      *)
THEOREM DesignTypes == Spec => []TypeOK
<1>1. IInv => TypeOK
    BY DEF IInv
<1> QED
    BY Inductive, <1>1, PTL

(* What leaves design for implement is the whole plan that was last        *)
(* written, with the docs step it asked for and with all its criteria,     *)
(* unless a crash fell between two of the inserts.                         *)
THEOREM WholePlanLeaves == Spec => []PlanIsWhole
<1>1. IInv => PlanIsWhole
  <2> SUFFICES ASSUME IInv, Left PROVE PlanIsWhole
    BY DEF PlanIsWhole
  <2>1. pc \in {"idle", "down"} /\ units # <<>> /\ "checks" \in done
    BY DEF IInv, PlanInv, Working, Left
  <2>2. "plan" \notin torn => units = planned.units /\ (planned.docs => needsDocs)
    BY <2>1 DEF IInv, PlanInv
  <2>3. "acs" \notin torn => acs = described
    BY <2>1 DEF IInv, ChecksInv, AllDerived
  <2> QED
    BY <2>2, <2>3 DEF PlanIsWhole
<1> QED
    BY Inductive, <1>1, PTL

(* Of the units that are left, one with the least number can go.           *)
LEMMA LeastUnitCanGo ==
    ASSUME NEW rows \in Seq(PlannedUnit), validateExtraction(rows),
           NEW numbers, numbers = {rows[i].seq : i \in DOMAIN rows},
           NEW verified \in SUBSET numbers, verified # numbers
    PROVE  \E i \in DOMAIN rows : rows[i].seq \notin verified /\ rows[i].deps \subseteq verified
<1>1. numbers = 1..Len(rows) /\ Len(rows) \in Nat
    BY LenProperties DEF validateExtraction
<1> DEFINE missing == numbers \ verified
<1>2. missing # {} /\ missing \subseteq Nat
  <2>1. missing # {}
    OBVIOUS
  <2>2. \A k \in 1..Len(rows) : k \in Nat
    BY <1>1
  <2> QED
    BY <1>1, <2>1, <2>2
<1>3. PICK m \in missing : \A k \in missing : <<k, m>> \notin OpToRel(<, Nat)
  <2> HIDE DEF missing
  <2> QED
    BY <1>2, NatLessThanWellFounded, WFMin
<1>4. \A k \in missing : ~(k < m)
    BY <1>2, <1>3 DEF OpToRel
<1>5. PICK i \in DOMAIN rows : rows[i].seq = m
    OBVIOUS
<1>6. rows[i].deps \subseteq 1..(m - 1)
    BY <1>5 DEF validateExtraction
<1>7. \A k \in 1..(m - 1) : k \in numbers /\ k < m
  <2>1. m \in 1..Len(rows)
    BY <1>1
  <2>2. \A n, j \in Nat : j \in 1..n => \A k \in 1..(j - 1) : k \in 1..n /\ k < j
    OBVIOUS
  <2>3. Len(rows) \in Nat /\ m \in Nat
    BY <1>1, <2>1
  <2> HIDE DEF missing
  <2> QED
    BY <1>1, <2>1, <2>2, <2>3
<1>8. rows[i].deps \subseteq verified
    BY <1>4, <1>6, <1>7
<1> QED
    BY <1>5, <1>8

(* A plan that leaves design can be worked off: as long as a unit is left, *)
(* one is left whose dependencies are all done.  Its dependency relation   *)
(* is acyclic on its sequence numbers, and these have a least element.     *)
THEOREM PlansCanFinish == Spec => []PlanCanFinish
<1>1. IInv => PlanCanFinish
  <2> SUFFICES ASSUME IInv, Left, "plan" \notin torn, NEW verified \in SUBSET Seqs, verified # Seqs
               PROVE  \E i \in DOMAIN units : units[i].seq \notin verified /\ units[i].deps \subseteq verified
    BY DEF PlanCanFinish
  <2>1. units = planned.units /\ planned \in Answers /\ validateExtraction(planned.units)
    BY DEF IInv, PlanInv, Working, Left
  <2>2. units \in Seq(PlannedUnit) /\ validateExtraction(units)
    BY <2>1, DesignAssumption
  <2> QED
    BY <2>2, LeastUnitCanGo DEF Seqs
<1> QED
    BY Inductive, <1>1, PTL

(* On the full track what leaves design is what its latest review saw, and *)
(* that review left no finding open.                                       *)
THEOREM FullPlansAreReviewed == Spec => []FullPlanReviewed
<1>1. IInv => FullPlanReviewed
    BY DEF IInv, PlanInv, FullPlanReviewed
<1> QED
    BY Inductive, <1>1, PTL

(* What leaves design has an answer for every acceptance criterion that    *)
(* was derived: a check, a reason, or a spent allowance of re-authoring.   *)
THEOREM EveryAcIsAnswered == Spec => []AcsAnswered
<1>1. IInv => AcsAnswered
  <2> SUFFICES ASSUME IInv, Left, NEW c \in 1..acs
               PROVE  \/ active[c] # {} /\ \A r \in active[c] : r.coarse # "unrun" /\ r.class # "open"
                      \/ active[c] = {} /\ unrunnable
                      \/ active[c] = {} /\ rounds[c] > 0 /\ \E d \in 1..acs : rounds[d] = Cap
    BY DEF AcsAnswered
  <2>1. TypeChecks /\ ChecksInv /\ "classify" \in done
    BY TypeParts DEF IInv, PlanInv
  <2>2. c \in Acs
    BY <2>1, AcsAreCounted
  <2>3. Ungraded = {} /\ Answered(c)
    BY <2>1 DEF ChecksInv
  <2>4. \A r \in active[c] : r.coarse # "unrun" /\ r.class # "open"
    BY <2>1, <2>2, <2>3 DEF ChecksInv, Ungraded
  <2> QED
    BY <2>3, <2>4 DEF Answered
<1> QED
    BY Inductive, <1>1, PTL

(* What the resolver serves in the stage has not succeeded already, and a  *)
(* plan with open findings is not carried on.                              *)
THEOREM NoStepIsReplayed == Spec => []NothingReplayed
<1>1. IInv => NothingReplayed
  <2> SUFFICES ASSUME IInv, Drives PROVE Served \notin done /\ Served # "escalate"
    BY DEF NothingReplayed
  <2>1. "advance" \notin done
    BY DEF IInv, TypeOK, Steps
  <2>2. status = "active" /\ ServedInv
    BY DEF IInv, Drives
  <2> QED
    BY <2>1, <2>2 DEF ServedInv, Served
<1> QED
    BY Inductive, <1>1, PTL

(* No step takes a round back, and a graded check goes only when its       *)
(* criterion has used another round.                                       *)
THEOREM GradesAreKept == Spec => GradesStay
<1> DEFINE Keeps == \A c \in Acs :
        /\ rounds'[c] >= rounds[c]
        /\ (\E r \in active[c] : r.class # "open" /\ r \notin active'[c]) => rounds'[c] > rounds[c]
<1>1. IInv /\ [Next]_vars => [Keeps]_vars
  <2> SUFFICES ASSUME IInv, Next PROVE Keeps
    OBVIOUS
  <2>0. TypePlan /\ TypeChecks /\ PlanInv /\ ChecksInv /\ GradeInv
    BY TypeParts DEF IInv
  <2>1. \A c \in Acs : rounds[c] \in 0..Cap /\ Cap \in Nat
    BY <2>0, DesignAssumption DEF TypeChecks
  <2>2. CASE UNCHANGED <<active, rounds>>
    BY <2>1, <2>2
  <2>3. CASE Author
    <3>1. "checks" \notin done
      BY <2>0, <2>3, DerivedIsAll DEF Author
    <3>2. PICK written :
            active' = [c \in Acs |->
                IF c \in Scope THEN {Row(CoarseOf(o), "open") : o \in {o \in written[c] : Covers(o)}}
                ELSE active[c]]
      BY <2>3 DEF Author
    <3>3. ASSUME NEW c \in Acs, NEW r \in active[c], r.class # "open" PROVE r \in active'[c]
      <4>1. c \notin Scope
        BY <2>0, <3>1, <3>3 DEF GradeInv, Scope
      <4> QED
        BY <3>2, <4>1
    <3>4. \A c \in Acs : rounds'[c] >= rounds[c]
      <4>1. CASE Scope = flagged
        BY <2>1, <2>3, <4>1 DEF Author
      <4>2. CASE Scope # flagged
        BY <2>0, <2>1, <2>3, <3>1, <4>2 DEF Author, Scope, GradeInv
      <4> QED
        BY <4>1, <4>2
    <3> QED
      BY <3>3, <3>4
  <2>4. CASE Classify
    <3>1. rounds' = rounds /\ \A c \in Acs : \A r \in active[c] : r.class # "open" => r \in active'[c]
      BY <2>0, <2>4, ClassifyGrades DEF Classify
    <3> QED
      BY <2>1, <3>1
  <2>5. CASE applyChecksVerdict
    <3>1. supersedeByAc(Ungraded) /\ Ungraded \subseteq Acs
      BY <2>5, FlaggedAreUngraded DEF applyChecksVerdict, Ungraded
    <3>2. \A c \in Acs : rounds[c] < Cap
      BY <2>0, <2>5 DEF applyChecksVerdict, ChecksInv, GradeInv
    <3>3. /\ \A c \in Acs \ Ungraded : active'[c] = active[c]
          /\ \A c \in Acs : rounds'[c] >= rounds[c] /\ (c \in Ungraded => rounds'[c] > rounds[c])
      BY <2>0, <3>1, <3>2, SupersedeCounts
    <3> QED
      BY <3>3
  <2>6. Author \/ Classify \/ applyChecksVerdict \/ UNCHANGED <<active, rounds>>
    BY DEF Next, Step, Dispatch, Extract, InsertUnit, Extracted, Size, Review, Derive, InsertAc, NoAcs, NoRunner,
           Authored, Advance, GiveUp, PlanDefect, Crash, Resume, checks
  <2> QED
    BY <2>2, <2>3, <2>4, <2>5, <2>6
<1> QED
    BY Inductive, <1>1, PTL DEF Spec, GradesStay

----------------------------------------------------------------------------
(* Verdicts on the runs of a check.                                        *)

Coarse == {"error", "selected-none", "green", "red"}
Ran(fault, p) == Began(fault) /\ Executable(p)

(* What a verdict is worth: red, that a test that was asked for failed, or *)
(* pytest stopped; behavioral, that each failure was its own assertion, or *)
(* for pytest that some assertion failed and no fixture; green, that one   *)
(* passed and none failed, and nothing else ran where it was named and the *)
(* report tells.                                                           *)
RedSaw(w) == Saw(w) \cap Failures # {}
AssertSaw(w) == Saw(w) \cap Failures = {"assert"}
CountSaw(w) == Saw(w) \cap Asserting # {} /\ "fixture" \notin Saw(w)
GreenSaw(w) == "pass" \in Saw(w) /\ Saw(w) \cap Failures = {}
GreenAlone(w) == Saw(w) = {"pass"} /\ Present(w) \subseteq Targets

Worth(p, w, fault, v) ==
    /\ v.coarse \in Coarse /\ v.behavioral \in BOOLEAN
    /\ p.framework # "generic" =>
          /\ v.coarse = "red" => RedSaw(w) \/ (p.framework = "pytest" /\ fault = "interrupted")
          /\ v.coarse = "green" => GreenSaw(w)
    /\ p.framework \in Reporting /\ v.coarse = "red" /\ v.behavioral => AssertSaw(w)
    /\ p.framework = "pytest" /\ v.coarse = "red" /\ v.behavioral => CountSaw(w)
    /\ p.framework \in Reporting /\ p.named /\ v.coarse = "green" => GreenAlone(w)

LEMMA Fields ==
    /\ \A c : \A b \in BOOLEAN : Verdict(c, b).coarse = c /\ Verdict(c, b).behavioral = b
    /\ Error.coarse = "error" /\ ~Error.behavioral
    /\ NoneSelected.coarse = "selected-none" /\ ~NoneSelected.behavioral
    /\ Green.coarse = "green" /\ ~Green.behavioral
BY DEF Verdict, Error, NoneSelected, Green

LEMMA WorthOfNone ==
    ASSUME NEW p, NEW w, NEW fault, NEW v \in {Error, NoneSelected}
    PROVE  Worth(p, w, fault, v)
<1>1. v.coarse \in {"error", "selected-none"} /\ v.behavioral = FALSE
    BY DEF Error, NoneSelected, Verdict
<1> QED
    BY <1>1 DEF Worth, Coarse

LEMMA WorthOfGreen ==
    ASSUME NEW p, NEW w, NEW fault, GreenSaw(w), p.framework \in Reporting /\ p.named => GreenAlone(w)
    PROVE  Worth(p, w, fault, Green)
<1>1. Green.coarse = "green" /\ Green.behavioral = FALSE
    BY DEF Green, Verdict
<1> QED
    BY <1>1 DEF Worth, Coarse

LEMMA PassSaw ==
    ASSUME NEW w, Saw(w) = {"pass"}
    PROVE  GreenSaw(w) /\ (Present(w) \subseteq Targets => GreenAlone(w))
BY DEF GreenSaw, GreenAlone, Failures, Asserting

LEMMA WorldFacts ==
    ASSUME NEW w \in Worlds
    PROVE  /\ \A t \in Tests : w[t] \in Outcomes
           /\ \A t : t \in Present(w) <=> t \in Tests /\ w[t] # "absent"
           /\ \A x : x \in Saw(w) <=> x # "absent" /\ \E t \in Targets : w[t] = x
           /\ Saw(w) \subseteq Outcomes /\ Targets \subseteq Tests
           /\ \A kinds : \A t : t \in With(w, kinds) <=> t \in Present(w) /\ w[t] \in kinds
BY DEF Worlds, Present, Saw, With, Targets, Tests

LEMMA MochaWorth ==
    ASSUME NEW w \in Worlds, NEW fault \in Faults, NEW p, p.framework = "mocha", p.named \in BOOLEAN,
           NEW v, v = mochaVerdict(p, w, fault)
    PROVE  Worth(p, w, fault, v)
<1> DEFINE rows == {t \in Present(w) : mochaMatches(t)}
           failed == {t \in rows : w[t] \in Failures}
<1>1. \A t : t \in rows <=> t \in Targets /\ w[t] # "absent"
    BY WorldFacts DEF mochaMatches
<1>2. CASE v = Error \/ v = NoneSelected
    BY <1>2, WorthOfNone
<1>3. CASE v # Error /\ v # NoneSelected
  <2>1. mochaTrusted(p, w, fault)
    BY <1>3 DEF mochaVerdict
  <2>2. ~(\A t \in rows : w[t] = "skip")
    BY <1>3, <2>1 DEF mochaVerdict
  <2>3. CASE failed # {}
    <3>1. v = Verdict("red", \A t \in failed : w[t] = "assert")
      BY <2>1, <2>2, <2>3 DEF mochaVerdict
    <3>2. v.coarse = "red" /\ v.behavioral \in BOOLEAN /\ (v.behavioral => \A t \in failed : w[t] = "assert")
      BY <3>1 DEF Verdict
    <3>3. PICK t \in failed : TRUE
      BY <2>3
    <3>4. t \in Targets /\ w[t] # "absent" /\ w[t] \in Failures
      BY <1>1, <3>3
    <3>5. w[t] \in Saw(w) \cap Failures
      BY <3>4, WorldFacts
    <3>6. RedSaw(w)
      BY <3>5 DEF RedSaw
    <3>7. \A x \in Saw(w) \cap Failures : \E u \in failed : w[u] = x
      BY <1>1, WorldFacts
    <3>8. v.behavioral => AssertSaw(w)
      BY <3>2, <3>3, <3>5, <3>7 DEF AssertSaw
    <3> QED
      BY <3>2, <3>6, <3>8 DEF Worth, Coarse
  <2>4. CASE failed = {}
    <3>1. v = Green /\ ~(\E t \in rows : w[t] = "skip")
      BY <1>3, <2>1, <2>2, <2>4 DEF mochaVerdict
    <3>2. \A t \in rows : w[t] = "pass"
      BY <1>1, <2>4, <3>1, WorldFacts DEF Outcomes
    <3>3. Saw(w) = {"pass"}
      BY <1>1, <2>2, <3>2, WorldFacts
    <3>4. p.named => Present(w) \subseteq Targets
      BY <2>1 DEF mochaTrusted, mochaMatches
    <3> QED
      BY <3>1, <3>3, <3>4, PassSaw, WorthOfGreen
  <2> QED
    BY <2>3, <2>4
<1> QED
    BY <1>2, <1>3

LEMMA DjangoWorth ==
    ASSUME NEW w \in Worlds, NEW fault \in Faults, NEW p, p.framework = "django-runtests",
           Runnable(p, w),
           NEW v, v = djangoVerdict(p, w, fault)
    PROVE  Worth(p, w, fault, v)
<1>1. CASE v = Error \/ v = NoneSelected
    BY <1>1, WorthOfNone
<1>2. CASE v # Error /\ v # NoneSelected
  <2>1. djangoTrusted(p, w, fault) /\ With(w, Outcomes \ {"skip"}) # {} /\ With(w, {"throw", "fixture"}) = {}
    BY <1>2 DEF djangoVerdict
  <2>2. Present(w) \subseteq Targets
    BY <2>1, WorldFacts DEF djangoTrusted
  <2>3. \A t \in Present(w) : w[t] \in Saw(w)
    BY <2>2, WorldFacts
  <2>4. \A x \in Saw(w) : \E t \in Present(w) : w[t] = x
    BY WorldFacts
  <2>7. \A t \in Present(w) : w[t] \notin {"message", "chained"}
    BY WorldFacts DEF Runnable, Kinds
  <2>5. CASE With(w, Failures) # {} /\ v = Verdict("red", djangoBody(w))
    <3>1. PICK t \in Present(w) : w[t] \in Failures
      BY <2>5, WorldFacts
    <3>2. RedSaw(w)
      BY <2>3, <3>1 DEF RedSaw
    <3>3. djangoBody(w) => \A x \in Saw(w) \cap Failures : x = "assert"
      BY <2>1, <2>4, <2>7, WorldFacts DEF djangoBody, Failures, Asserting
    <3>4. djangoBody(w) => AssertSaw(w)
      BY <3>2, <3>3 DEF RedSaw, AssertSaw
    <3>5. djangoBody(w) \in BOOLEAN
      BY DEF djangoBody
    <3>6. v.coarse = "red" /\ v.behavioral = djangoBody(w)
      BY <2>5, <3>5, Fields
    <3> QED
      BY <3>2, <3>4, <3>5, <3>6 DEF Worth, Coarse
  <2>6. CASE v = Green /\ With(w, Outcomes \ {"pass"}) = {}
    <3>1. \A t \in Present(w) : w[t] = "pass"
      BY <2>6, WorldFacts
    <3>2. Saw(w) = {"pass"}
      BY <2>1, <2>3, <2>4, <3>1, WorldFacts
    <3> QED
      BY <2>2, <2>6, <3>2, PassSaw, WorthOfGreen
  <2> QED
    BY <1>2, <2>1, <2>5, <2>6 DEF djangoVerdict
<1> QED
    BY <1>1, <1>2

LEMMA CountsTell ==
    ASSUME NEW w \in Worlds, NEW fault, countsAssertions(w, fault), \A t \in Present(w) : w[t] \in Saw(w)
    PROVE  RedSaw(w) /\ CountSaw(w)
<1>1. PICK t \in Present(w) : w[t] \in Failures
    BY WorldFacts DEF countsAssertions
<1>2. IsFiniteSet(Tests)
  <2>1. IsFiniteSet({"ours"}) /\ IsFiniteSet({"ours"} \cup {"sibling"})
    BY FS_Singleton, FS_AddElement
  <2>2. Tests = ({"ours"} \cup {"sibling"}) \cup {"other"}
    BY DEF Tests
  <2> QED
    BY <2>1, <2>2, FS_AddElement
<1>3. \A kinds : With(w, kinds) \subseteq Tests /\ IsFiniteSet(With(w, kinds)) /\ Cardinality(With(w, kinds)) \in Nat
  <2>1. \A kinds : With(w, kinds) \subseteq Tests
    BY WorldFacts
  <2> QED
    BY <1>2, <2>1, FS_Subset, FS_CardinalityType
<1>4. Cardinality(With(w, Failures)) # 0
  <2>1. With(w, Failures) # {}
    BY DEF countsAssertions
  <2> QED
    BY <1>3, <2>1, FS_EmptySet
<1>5. With(w, Asserting) # {}
  <2> SUFFICES ASSUME With(w, Asserting) = {} PROVE FALSE
    OBVIOUS
  <2>1. With(w, {"message"}) = {}
    BY WorldFacts DEF Asserting
  <2>2. Cardinality({}) = 0
    BY FS_EmptySet
  <2>3. assertionLines(w) = 0
    BY <2>1, <2>2 DEF assertionLines
  <2> QED
    BY <1>4, <2>3 DEF countsAssertions
<1>6. PICK u \in Present(w) : w[u] \in Asserting
    BY <1>5, WorldFacts
<1>7. "fixture" \notin Saw(w)
    BY WorldFacts DEF countsAssertions
<1> QED
    BY <1>1, <1>6, <1>7 DEF RedSaw, CountSaw

LEMMA PytestWorth ==
    ASSUME NEW w \in Worlds, NEW fault \in Faults, NEW p, p.framework = "pytest",
           Runnable(p, w), Possible(p, fault),
           NEW v, v = pytestVerdict(w, fault)
    PROVE  Worth(p, w, fault, v)
<1>1. w["other"] = "absent" /\ fault # "exit"
    BY DEF Runnable, Possible
<1>2. \A t \in Present(w) : t \in Targets /\ w[t] \in Saw(w)
    BY <1>1, WorldFacts DEF Targets, Tests
<1>3. \A x \in Saw(w) : \E t \in Present(w) : w[t] = x
    BY WorldFacts
<1>4. ExitsZero(w, fault) <=> With(w, Failures) = {}
    BY <1>1 DEF ExitsZero
<1>5. CASE v = Error \/ v = NoneSelected
    BY <1>5, WorthOfNone
<1>6. CASE v = Verdict("red", countsAssertions(w, fault)) /\ (fault = "interrupted" \/ ~ExitsZero(w, fault))
  <2>1. fault = "interrupted" \/ RedSaw(w)
    BY <1>2, <1>4, <1>6, WorldFacts DEF RedSaw
  <2>2. countsAssertions(w, fault) => CountSaw(w)
    BY <1>2, CountsTell
  <2>3. countsAssertions(w, fault) \in BOOLEAN
    BY DEF countsAssertions
  <2>4. v.coarse = "red" /\ v.behavioral = countsAssertions(w, fault)
    BY <1>6, <2>3, Fields
  <2> QED
    BY <2>1, <2>2, <2>3, <2>4 DEF Worth, Coarse, Reporting
<1>7. CASE v = Green /\ ExitsZero(w, fault) /\ With(w, {"pass"}) # {}
  <2>1. GreenSaw(w)
    BY <1>2, <1>3, <1>4, <1>7, WorldFacts DEF GreenSaw
  <2> QED
    BY <1>7, <2>1, WorthOfGreen DEF Reporting
<1>8. pytestExit(w, fault) = Green => ExitsZero(w, fault)
  <2>1. countsAssertions(w, fault) \in BOOLEAN
    BY DEF countsAssertions
  <2>2. /\ Verdict("red", countsAssertions(w, fault)).coarse = "red"
        /\ Error.coarse = "error" /\ NoneSelected.coarse = "selected-none" /\ Green.coarse = "green"
    BY <2>1, Fields
  <2> QED
    BY <2>2 DEF pytestExit
<1> QED
    BY <1>5, <1>6, <1>7, <1>8 DEF pytestVerdict, pytestExit

LEMMA ExitWorth ==
    ASSUME NEW p, NEW w, NEW fault, p.framework = "generic",
           NEW v, v = exitVerdict(w, fault)
    PROVE  Worth(p, w, fault, v)
BY DEF Worth, exitVerdict, NoneSelected, Green, Verdict, Coarse, Reporting

(* Only a run that was launched, under a plan that could be executed, has  *)
(* another verdict than an error.                                          *)
LEMMA RunWorth ==
    ASSUME NEW w \in Worlds, NEW fault \in Faults, NEW p, p.framework \in Frameworks, p.named \in BOOLEAN,
           Runnable(p, w), Possible(p, fault),
           NEW v, v = runCheckExecution(p, w, fault)
    PROVE  Worth(p, w, fault, v) /\ (Ran(fault, p) \/ v = Error)
<1>1. CASE ~Ran(fault, p)
  <2>1. v = Error
    BY <1>1 DEF Ran, Began, runCheckExecution, interpretCheckExecution, Launched
  <2> QED
    BY <2>1, WorthOfNone
<1>2. CASE Ran(fault, p)
  <2>1. v = CASE p.framework = "mocha" -> mochaVerdict(p, w, fault)
              [] p.framework = "django-runtests" -> djangoVerdict(p, w, fault)
              [] p.framework = "pytest" -> pytestVerdict(w, fault)
              [] p.framework = "generic" -> exitVerdict(w, fault)
    BY <1>2 DEF Ran, Began, runCheckExecution, interpretCheckExecution, Launched
  <2>2. CASE p.framework = "mocha"
    <3>1. v = mochaVerdict(p, w, fault)
      BY <2>1, <2>2
    <3> QED
      BY <1>2, <2>2, <3>1, MochaWorth
  <2>3. CASE p.framework = "django-runtests"
    <3>1. v = djangoVerdict(p, w, fault)
      BY <2>1, <2>3
    <3> QED
      BY <1>2, <2>3, <3>1, DjangoWorth
  <2>4. CASE p.framework = "pytest"
    <3>1. v = pytestVerdict(w, fault)
      BY <2>1, <2>4
    <3> QED
      BY <1>2, <2>4, <3>1, PytestWorth
  <2>5. CASE p.framework = "generic"
    <3>1. v = exitVerdict(w, fault)
      BY <2>1, <2>5
    <3> QED
      BY <1>2, <2>5, <3>1, ExitWorth
  <2> QED
    BY <1>2, <2>2, <2>3, <2>4, <2>5 DEF Frameworks
<1> QED
    BY <1>1, <1>2

(* What is known of the active check: a plan that was stored with it named *)
(* a test, its RED was seen, in an environment that qualified if its plan  *)
(* says so, and a runner that did not start left an error.                 *)
CheckFacts(c) ==
    /\ c.exists \in BOOLEAN /\ c.result \in {"none", "green", "red", "error"}
    /\ c.run.saw \subseteq Outcomes
    /\ c.run.plan # NoStoredPlan =>
          /\ c.run.plan.framework \in Frameworks /\ c.run.plan.named = TRUE
          /\ c.result = "red" =>
                /\ \/ c.run.plan.framework = "generic"
                   \/ c.run.saw \cap Failures # {}
                   \/ c.run.plan.framework = "pytest" /\ c.run.interrupted
                /\ c.run.plan.qualified => c.run.env
          /\ ~c.run.launched => c.result = "error"

VerdictInv ==
    /\ VerdictTypeOK /\ CheckFacts(check)
    /\ last = NoRun \/ (GreenIsOurs /\ BindsByAssertion /\ RedThenGreen)

LEMMA SeenFields ==
    ASSUME NEW p, NEW w \in Worlds, NEW fault \in Faults, NEW r, r = Seen(p, w, fault)
    PROVE  /\ r.plan = p /\ r.saw = Saw(w) /\ r.saw \subseteq Outcomes
           /\ r.alone <=> Present(w) \subseteq Targets
           /\ r.launched <=> Ran(fault, p)
           /\ r.env <=> comp.qualified /\ ready
           /\ r.interrupted <=> fault = "interrupted"
<1>1. PICK a \in BOOLEAN, l \in BOOLEAN, e \in BOOLEAN, i \in BOOLEAN :
          /\ a <=> Present(w) \subseteq Targets
          /\ l <=> Ran(fault, p)
          /\ e <=> comp.qualified /\ ready
          /\ i <=> fault = "interrupted"
          /\ r = [plan |-> p, saw |-> Saw(w), alone |-> a, launched |-> l, env |-> e, interrupted |-> i]
  <2>1. r = [plan |-> p, saw |-> Saw(w), alone |-> Present(w) \subseteq Targets,
             launched |-> Began(fault) /\ Executable(p), env |-> comp.qualified /\ ready,
             interrupted |-> fault = "interrupted"]
    BY DEF Seen
  <2> QED
    BY <2>1, Zenon DEF Ran
<1>2. r.plan = p /\ r.saw = Saw(w) /\ r.alone = a /\ r.launched = l /\ r.env = e /\ r.interrupted = i
    BY <1>1
<1> QED
    BY <1>1, <1>2, WorldFacts

LEMMA CheckFields ==
    ASSUME NEW p, NEW w \in Worlds, NEW fault \in Faults, NEW result,
           NEW c, c = [exists |-> TRUE, result |-> result, run |-> Seen(p, w, fault)]
    PROVE  /\ c.run.plan = p /\ c.run.saw = Saw(w) /\ c.run.saw \subseteq Outcomes
           /\ c.run.launched <=> Ran(fault, p)
           /\ c.run.env <=> comp.qualified /\ ready
           /\ c.run.interrupted <=> fault = "interrupted"
BY SeenFields

LEMMA ResolvedPlan ==
    ASSUME comp \in Components, NEW named \in BOOLEAN, NEW p, p = resolveCheckExecution(named)
    PROVE  /\ p.framework \in Frameworks /\ p.named = named /\ p.qualified = comp.qualified
           /\ p # NoStoredPlan
<1>1. comp.framework \in Frameworks
    BY VerdictAssumption
<1>2. p.framework = comp.framework /\ p.named = named /\ p.qualified = comp.qualified
    BY DEF resolveCheckExecution
<1>3. NoStoredPlan.framework \notin Frameworks
    BY DEF NoStoredPlan, Frameworks
<1> QED
    BY <1>1, <1>2, <1>3

LEMMA NewCheck ==
    ASSUME NEW w \in Worlds, NEW fault \in Faults, NEW p,
           p.framework \in Frameworks, p.named = TRUE, p.qualified = comp.qualified,
           NEW v, Worth(p, w, fault, v), Ran(fault, p) \/ v = Error, v.coarse # "selected-none",
           NEW c, c = [exists |-> TRUE, result |-> v.coarse, run |-> Seen(p, w, fault)]
    PROVE  CheckFacts(c)
<1>1. c.exists = TRUE /\ c.result = v.coarse
    OBVIOUS
<1>2. c.run.plan = p /\ c.run.saw = Saw(w) /\ c.run.saw \subseteq Outcomes
    BY CheckFields
<1>3. (c.run.launched <=> Ran(fault, p)) /\ (c.run.env <=> comp.qualified /\ ready)
    BY CheckFields
<1>4. v.coarse \in {"green", "red", "error"} /\ (v.coarse # "error" => Ran(fault, p))
    BY Fields DEF Worth, Coarse
<1>5. Ran(fault, p) /\ p.qualified => comp.qualified /\ ready
    BY DEF Ran, Executable
<1>6. v.coarse = "red" => \/ p.framework = "generic"
                          \/ Saw(w) \cap Failures # {}
                          \/ p.framework = "pytest" /\ fault = "interrupted"
    BY DEF Worth, RedSaw
<1>7. ~c.run.launched => c.result = "error"
    BY <1>1, <1>3, <1>4
<1>8. c.result = "red" /\ c.run.plan.qualified => c.run.env
    BY <1>1, <1>2, <1>3, <1>4, <1>5
<1>9. c.run.interrupted <=> fault = "interrupted"
    BY CheckFields
<1> QED
    BY <1>1, <1>2, <1>4, <1>6, <1>7, <1>8, <1>9 DEF CheckFacts

LEMMA VerdictStarts == VerdictInit => VerdictInv
<1> SUFFICES ASSUME VerdictInit PROVE VerdictInv
    OBVIOUS
<1>1. comp \in Components /\ ready \in BOOLEAN /\ setups = 0 /\ last = NoRun
    BY DEF VerdictInit
<1>2. check.exists \in BOOLEAN /\ check.result \in {"none", "red"} /\ check.run = Unseen
  <2>1. check = NoCheck \/ check = [exists |-> TRUE, result |-> "red", run |-> Unseen]
    BY DEF VerdictInit, NoCheck
  <2>2. NoCheck.exists = FALSE /\ NoCheck.result = "none" /\ NoCheck.run = Unseen
      BY DEF NoCheck
  <2> QED
    <3>1. CASE check = NoCheck
      BY <2>2, <3>1
    <3>2. CASE check = [exists |-> TRUE, result |-> "red", run |-> Unseen]
      BY <3>2
    <3> QED
      BY <2>1, <3>1, <3>2
<1>3. last.purpose = "none" /\ last.verdict = "none" /\ last.run = Unseen
    BY <1>1 DEF NoRun
<1>4. Unseen.saw = {} /\ Unseen.plan = NoStoredPlan
    BY DEF Unseen
<1>5. VerdictTypeOK
    BY <1>1, <1>2, <1>3, <1>4, VerdictAssumption DEF VerdictTypeOK
<1>6. CheckFacts(check)
    BY <1>2, <1>4 DEF CheckFacts
<1> QED
    BY <1>1, <1>5, <1>6 DEF VerdictInv

LEMMA AuthorInv ==
    ASSUME VerdictInv, AuthorCheck \/ ReauthorCheck
    PROVE  VerdictInv'
<1>1. last = NoRun /\ UNCHANGED <<comp, ready, setups, last>>
    BY DEF AuthorCheck, ReauthorCheck
<1>2. PICK w, fault, p, v :
          /\ w \in Worlds /\ fault \in Faults
          /\ p = resolveCheckExecution(TRUE) /\ v = runCheckExecution(p, w, fault)
          /\ Runnable(p, w) /\ Possible(p, fault)
          /\ v.coarse # "selected-none"
          /\ check' = [exists |-> TRUE, result |-> v.coarse, run |-> Seen(p, w, fault)]
  <2>1. CASE AuthorCheck
    BY <2>1 DEF AuthorCheck, Shows
  <2>2. CASE ReauthorCheck
    BY <2>2 DEF ReauthorCheck
  <2> QED
    BY <2>1, <2>2
<1>3. p.framework \in Frameworks /\ p.named = TRUE /\ p.qualified = comp.qualified
    BY <1>2, ResolvedPlan DEF VerdictInv, VerdictTypeOK
<1>4. Worth(p, w, fault, v) /\ (Ran(fault, p) \/ v = Error)
    BY <1>2, <1>3, RunWorth
<1>5. CheckFacts(check')
    BY <1>2, <1>3, <1>4, NewCheck
<1>6. VerdictTypeOK'
    BY <1>1, <1>5 DEF VerdictInv, VerdictTypeOK, CheckFacts
<1> QED
    BY <1>1, <1>5, <1>6 DEF VerdictInv, CheckFacts

(* What a run that settles something leaves: the check as it was.          *)
LEMMA RunInv ==
    ASSUME VerdictInv, UNCHANGED <<comp, ready, setups, check>>,
           last'.purpose \in {"gate", "bind"},
           last'.verdict \in {"green", "red", "error", "binds", "does-not-bind", "unknown"},
           last'.run.saw \subseteq Outcomes,
           GreenIsOurs', BindsByAssertion', RedThenGreen'
    PROVE  VerdictInv'
<1>1. VerdictTypeOK'
    BY DEF VerdictInv, VerdictTypeOK
<1>2. CheckFacts(check')
    BY DEF VerdictInv
<1> QED
    BY <1>1, <1>2 DEF VerdictInv, CheckFacts

LEMMA GateInv ==
    ASSUME VerdictInv, Gate
    PROVE  VerdictInv'
<1> DEFINE legacy == check.run.plan = NoStoredPlan
<1>1. PICK w, fault, p, v :
          /\ w \in Worlds /\ fault \in Faults
          /\ p = GatePlan(check.run.plan)
          /\ Runnable(p, w) /\ Possible(p, fault)
          /\ v = IF ~legacy THEN runCheckExecution(p, w, fault)
                 ELSE IF LegacyRefused THEN Error ELSE runCheckForRed(p, w, fault)
          /\ last' = [purpose |-> "gate",
                      verdict |-> IF v.coarse = "selected-none" THEN "error" ELSE v.coarse,
                      run |-> Seen(p, w, fault)]
    BY DEF Gate
<1>2. UNCHANGED <<comp, ready, setups, check>>
    BY DEF Gate
<1>3. /\ w \in Worlds /\ fault \in Faults
      /\ last'.purpose = "gate" /\ last'.run = Seen(p, w, fault)
      /\ last'.verdict = IF v.coarse = "selected-none" THEN "error" ELSE v.coarse
    BY <1>1
<1>4. last'.run.plan = p /\ last'.run.saw = Saw(w) /\ last'.run.saw \subseteq Outcomes
    BY <1>3, SeenFields
<1>5. /\ last'.run.alone <=> Present(w) \subseteq Targets
      /\ last'.run.launched <=> Ran(fault, p)
      /\ last'.run.env <=> comp.qualified /\ ready
    BY <1>3, SeenFields
<1>6. CASE legacy
  <2>1. v = Error \/ v = runCheckForRed(p, w, fault)
    BY <1>1, <1>6
  <2>2. v.coarse \in Coarse
    BY <2>1, Fields DEF runCheckForRed, pytestExit, exitVerdict, Verdict, Coarse
  <2>3. last'.verdict \in {"green", "red", "error"}
    BY <1>3, <2>2 DEF Coarse
  <2>4. GreenIsOurs' /\ BindsByAssertion' /\ RedThenGreen'
    BY <1>2, <1>6, <2>3 DEF GreenIsOurs, BindsByAssertion, RedThenGreen
  <2> QED
    BY <1>2, <1>3, <1>4, <2>3, <2>4, RunInv
<1>7. CASE ~legacy
  <2>1. p = check.run.plan
    BY <1>1, <1>7 DEF GatePlan
  <2>2. p.framework \in Frameworks /\ p.named = TRUE
    BY <1>7, <2>1 DEF VerdictInv, CheckFacts
  <2>3. Worth(p, w, fault, v) /\ (Ran(fault, p) \/ v = Error)
    BY <1>1, <1>7, <2>2, RunWorth
  <2>4. last'.verdict \in {"green", "red", "error"} /\ (last'.verdict = "green" => v.coarse = "green")
    BY <1>3, <2>3 DEF Worth, Coarse
  <2>5. GreenIsOurs'
    BY <1>2, <1>4, <1>5, <2>2, <2>3, <2>4
       DEF GreenIsOurs, Worth, GreenAlone, GreenSaw, Reporting
  <2>6. BindsByAssertion'
    BY <2>4 DEF BindsByAssertion
  <2>7. last'.verdict = "green" => Ran(fault, p)
    BY <2>3, <2>4, Fields
  <2>8. last'.verdict = "green" /\ p.qualified => comp.qualified /\ ready
    BY <2>7 DEF Ran, Executable
  <2>9. RedThenGreen'
    BY <1>2, <1>4, <1>5, <1>7, <2>1, <2>8 DEF RedThenGreen, VerdictInv, CheckFacts
  <2> QED
    BY <1>2, <1>3, <1>4, <2>4, <2>5, <2>6, <2>9, RunInv
<1> QED
    BY <1>6, <1>7

LEMMA BindInv ==
    ASSUME VerdictInv, Bind
    PROVE  VerdictInv'
<1>1. PICK w, fault, p, v :
          /\ w \in Worlds /\ fault \in Faults
          /\ p = resolveCheckExecution(FALSE)
          /\ Runnable(p, w) /\ Possible(p, fault)
          /\ v = runCheckExecution(p, w, fault)
          /\ last' = [purpose |-> "bind",
                      verdict |-> IF provesBehavioralFailure(p, v) THEN "binds"
                                  ELSE IF v.coarse = "green" THEN "does-not-bind" ELSE "unknown",
                      run |-> Seen(p, w, fault)]
    BY DEF Bind
<1>2. UNCHANGED <<comp, ready, setups, check>>
    BY DEF Bind
<1>3. /\ w \in Worlds /\ fault \in Faults
      /\ last'.purpose = "bind" /\ last'.run = Seen(p, w, fault)
      /\ last'.verdict = IF provesBehavioralFailure(p, v) THEN "binds"
                         ELSE IF v.coarse = "green" THEN "does-not-bind" ELSE "unknown"
    BY <1>1
<1>4. last'.run.plan = p /\ last'.run.saw = Saw(w) /\ last'.run.saw \subseteq Outcomes
    BY <1>3, SeenFields
<1>5. last'.run.launched <=> Ran(fault, p)
  <2>1. Seen(p, w, fault).launched <=> Ran(fault, p)
    BY <1>3, SeenFields
  <2> QED
    BY <1>3, <2>1
<1>6. p.framework \in Frameworks /\ p.named = FALSE
    BY <1>1, ResolvedPlan DEF VerdictInv, VerdictTypeOK
<1>7. Worth(p, w, fault, v) /\ (Ran(fault, p) \/ v = Error)
    BY <1>1, <1>6, RunWorth
<1>8. last'.verdict \in {"binds", "does-not-bind", "unknown"}
    BY <1>3
<1>9. last'.verdict = "binds" => v.coarse = "red" /\ p.framework # "generic" /\ v.behavioral
    BY <1>3 DEF provesBehavioralFailure
<1>10. last'.verdict = "does-not-bind" => v.coarse = "green"
    BY <1>3
<1>11. v.coarse \in {"red", "green"} => Ran(fault, p)
    BY <1>7, Fields
<1>12. BindsByAssertion'
    BY <1>4, <1>5, <1>7, <1>9, <1>10, <1>11 DEF BindsByAssertion, Worth, AssertSaw, CountSaw, GreenSaw
<1>13. GreenIsOurs' /\ RedThenGreen'
    BY <1>3 DEF GreenIsOurs, RedThenGreen
<1> QED
    BY <1>2, <1>3, <1>4, <1>8, <1>12, <1>13, RunInv

(* What the operator and the environment do changes no result.             *)
LEMMA AroundInv ==
    ASSUME VerdictInv, Setup \/ Drift \/ UNCHANGED verdictVars
    PROVE  VerdictInv'
<1>1. UNCHANGED <<check, last>>
    BY DEF Setup, Drift, verdictVars
<1>2. VerdictTypeOK'
  <2>1. CASE Setup
    BY <2>1, VerdictAssumption DEF VerdictInv, VerdictTypeOK, Setup
  <2>2. CASE Drift
    BY <2>2 DEF VerdictInv, VerdictTypeOK, Drift
  <2>3. CASE UNCHANGED verdictVars
    BY <2>3 DEF VerdictInv, VerdictTypeOK, verdictVars
  <2> QED
    BY <2>1, <2>2, <2>3
<1>3. CheckFacts(check)'
    BY <1>1 DEF VerdictInv, CheckFacts
<1>4. (last = NoRun \/ (GreenIsOurs /\ BindsByAssertion /\ RedThenGreen))'
    BY <1>1 DEF VerdictInv, GreenIsOurs, BindsByAssertion, RedThenGreen
<1> QED
    BY <1>2, <1>3, <1>4 DEF VerdictInv

LEMMA VerdictStep == VerdictInv /\ [VerdictNext]_verdictVars => VerdictInv'
BY AuthorInv, GateInv, BindInv, AroundInv DEF VerdictNext

(* The active check and the last run are what CheckFacts and the three     *)
(* properties say, whatever runs, setups and drifts came before.           *)
THEOREM VerdictInductive == VerdictSpec => []VerdictInv
BY VerdictStarts, VerdictStep, PTL DEF VerdictSpec

LEMMA NothingSaid == last = NoRun => GreenIsOurs /\ BindsByAssertion /\ RedThenGreen
BY DEF NoRun, GreenIsOurs, BindsByAssertion, RedThenGreen

(* The records of checks and runs are well formed.                         *)
THEOREM VerdictsAreTyped == VerdictSpec => []VerdictTypeOK
<1>1. VerdictInv => VerdictTypeOK
    BY DEF VerdictInv
<1> QED
    BY <1>1, VerdictInductive, PTL

(* A green gate is a green of the check's own test, whatever other tests   *)
(* the runner ran and whatever went wrong around it.                       *)
THEOREM GreenRunsAreOurs == VerdictSpec => []GreenIsOurs
<1>1. VerdictInv => GreenIsOurs
    BY NothingSaid DEF VerdictInv
<1> QED
    BY <1>1, VerdictInductive, PTL

(* A delivered file that binds ran at the baseline and failed there: under *)
(* mocha and the Django runner by assertions of its own tests alone, under *)
(* pytest with some failed assertion and no failed fixture.  One that does *)
(* not bind had a test pass and none fail.                                 *)
THEOREM FilesBindByAssertion == VerdictSpec => []BindsByAssertion
<1>1. VerdictInv => BindsByAssertion
    BY NothingSaid DEF VerdictInv
<1> QED
    BY <1>1, VerdictInductive, PTL

(* RED and GREEN of a check are of one experiment: the same plan; both     *)
(* times in a qualified environment if the plan was made in one; and a     *)
(* failure of the test that was asked for before it passed, unless pytest  *)
(* was interrupted or could not collect it.                                *)
THEOREM OneExperiment == VerdictSpec => []RedThenGreen
<1>1. VerdictInv => RedThenGreen
    BY NothingSaid DEF VerdictInv
<1> QED
    BY <1>1, VerdictInductive, PTL

(* A check whose runner never started is on record as an error, not as red *)
(* and not as green.                                                       *)
THEOREM UnlaunchedIsNeverRed == VerdictSpec => []NeverRanNeverRed
<1>1. VerdictInv => NeverRanNeverRed
    BY DEF VerdictInv, CheckFacts, NeverRanNeverRed
<1> QED
    BY <1>1, VerdictInductive, PTL
=============================================================================
