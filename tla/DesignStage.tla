---------------------------- MODULE DesignStage ----------------------------
(***************************************************************************)
(* The design stage: a plan is written, read back into work units, sized,  *)
(* reviewed if it is large, and every acceptance criterion gets an         *)
(* executed check before the first line of code.  Module ControlLoop goes  *)
(* on where this one ends.                                                 *)
(*                                                                         *)
(* A handler is one action where it writes once.  design:extract inserts   *)
(* the units, and checks:dispatch the criteria, one autocommit statement   *)
(* after the other, and the crash can fall between any two of them.  A     *)
(* handler that throws leaves the database as it was and is tried again    *)
(* (module StepJournal), until it gives up.                                *)
(***************************************************************************)
EXTENDS Integers, Sequences, FiniteSets

CONSTANTS
    Answers,        \* what the agent of design:extract may answer
    AcCounts,       \* how many criteria a description may have, by parseAcChecklist
    MaxChecks,      \* checks that the author writes per criterion
    Findings,       \* signatures of the blocking findings of a plan review
    None,           \* no finding
    FullTrack,      \* FULL_TRACK_MIN_UNITS
    Sprawl,         \* SPRAWL_FLOOR
    Cap,            \* REAUTHOR_ESCALATE_CAP
    RepairLimit,    \* REVIEW_REPAIR_LIMIT
    MaxRuns         \* bound of the model: processes

(* What the schema of the answer lets through (extract-schema.ts): a list  *)
(* of units, each with its number and the numbers of others.               *)
PlannedUnit ==
    [seq : Nat, behavioral : BOOLEAN, tested : BOOLEAN, migration : BOOLEAN, deps : SUBSET Nat]

ASSUME DesignAssumption ==
    /\ AcCounts \subseteq Nat /\ AcCounts # {} /\ IsFiniteSet(AcCounts) /\ MaxChecks \in Nat \ {0} /\ MaxRuns \in Nat \ {0}
    /\ FullTrack \in Nat \ {0} /\ Sprawl \in Nat \ {0}
    /\ Cap \in Nat \ {0} /\ RepairLimit \in Nat /\ None \notin Findings
    /\ \A a \in Answers : DOMAIN a = {"units", "docs", "schema", "addressed"}
                          /\ a.units \in Seq(PlannedUnit) /\ a.docs \in BOOLEAN

VARIABLES
    (* the run database *)
    stage, status,  \* of the ticket; "implement" stands for all that follows design
    done,           \* succeeded steps
    units,          \* rows of work_unit in the order they were inserted
    needsDocs, track,
    open,           \* requiredPlanFindings: of the latest plan review
    lastLoop,       \* signature of the last loopback to implement or design
    repairs,        \* reviewRepairCount
    acs,            \* rows of acceptance_criterion are 1..acs
    active,         \* active rows of ac_check, by criterion
    rounds,         \* reauthorRoundsForAc
    flagged,        \* latestChecksReauthorAcs; {}: there was none
    (* the ticket's description, and the process *)
    described, pc, runs,
    (* observers *)
    planned,        \* the answer that the units come from
    seen,           \* the units that the last review of the plan saw
    torn,           \* what a crash left half inserted: the "plan", the "acs"
    unrunnable      \* did the ticket go on without a runnable check framework?

plan == <<units, needsDocs, track, planned, seen>>
review == <<open, lastLoop, repairs>>
checks == <<acs, active, rounds, flagged, described, unrunnable>>
vars == <<stage, status, done, units, needsDocs, track, open, lastLoop, repairs, acs, active, rounds,
          flagged, described, pc, runs, planned, seen, torn, unrunnable>>

Steps == {"dispatch", "extract", "size", "review", "checks", "classify"}
Acs == 1..(CHOOSE n \in AcCounts : \A m \in AcCounts : m <= n)
Check == [coarse : {"red", "green", "error", "unrun"},
          class : {"open", "gating", "advisory", "waived"}]
NoPlan == [units |-> <<>>, docs |-> FALSE, schema |-> FALSE, addressed |-> TRUE]

TypeOK ==
    /\ stage \in {"design", "implement"} /\ status \in {"active", "waiting"}
    /\ done \subseteq Steps
    /\ planned \in Answers \cup {NoPlan}
    /\ \E n \in 0..Len(planned.units) : units = SubSeq(planned.units, 1, n)
    /\ needsDocs \in BOOLEAN /\ track \in {"none", "fast", "full"}
    /\ open \in Findings \cup {None} /\ lastLoop \in Findings \cup {None, "code", "operator"}
    /\ repairs \in 0..RepairLimit
    /\ described \in AcCounts /\ acs \in 0..described /\ rounds \in [Acs -> 0..Cap] /\ flagged \subseteq Acs
    /\ \A c \in Acs : active[c] \subseteq Check
    /\ pc \in {"idle", "inserting", "deriving", "persisted", "classified", "down"}
    /\ runs \in 1..MaxRuns
    /\ torn \subseteq {"plan", "acs"} /\ unrunnable \in BOOLEAN

Init ==
    /\ stage = "design" /\ status = "active" /\ done = {}
    /\ units = <<>> /\ needsDocs = FALSE /\ track = "none"
    /\ open = None /\ lastLoop = None /\ repairs = 0
    /\ acs = 0 /\ active = [c \in Acs |-> {}] /\ rounds = [c \in Acs |-> 0] /\ flagged = {}
    /\ described \in AcCounts /\ pc = "idle" /\ runs = 1
    /\ planned = NoPlan /\ seen = <<>> /\ torn = {} /\ unrunnable = FALSE
----------------------------------------------------------------------------
(* design:dispatch, design:extract, design:size.                           *)

(* A bug: dependencies need not point backwards.                           *)
validateExtraction_AnyOrder(rows) ==
    /\ rows # <<>>
    /\ {rows[i].seq : i \in DOMAIN rows} = 1..Len(rows)
    /\ \A i \in DOMAIN rows :
          /\ rows[i].behavioral => rows[i].tested
          /\ rows[i].deps \subseteq 1..Len(rows)

(* Sequence numbers without gaps, a test with every behavioral unit, and   *)
(* dependencies on earlier units only.  `tested`: the unit has a test plan, *)
(* asks for the check "test" and names a test file of its own.             *)
validateExtraction(rows) ==
    /\ rows # <<>>
    /\ {rows[i].seq : i \in DOMAIN rows} = 1..Len(rows)
    /\ \A i \in DOMAIN rows :
          /\ rows[i].behavioral => rows[i].tested
          /\ rows[i].deps \subseteq 1..(rows[i].seq - 1)

(* Every section the profile flags is addressed, and a change of schema is *)
(* migrated before any other unit.                                         *)
validateCdotImpact(a) ==
    /\ a.addressed
    /\ a.schema =>
          /\ \E i \in DOMAIN a.units : a.units[i].migration
          /\ \A i \in DOMAIN a.units : ~a.units[i].migration =>
                \E j \in DOMAIN a.units : a.units[j].migration /\ a.units[j].seq < a.units[i].seq

Tracks(n) ==
    {IF n >= FullTrack THEN "full" ELSE "fast"}             \* sizeTrack: no grader
    \cup {t \in {"fast", "full"} : n >= Sprawl => t = "full"}    \* combineTrack: any grade

(* nextStepKey in the design stage, after provision.  Rows, and not the    *)
(* journal, tell whether extraction and sizing are over.                   *)
Served ==
    IF "dispatch" \notin done THEN "dispatch"
    ELSE IF units = <<>> THEN "extract"
    ELSE IF track = "none" THEN "size"
    ELSE IF track = "full" /\ "review" \notin done THEN "review"
    ELSE IF track = "full" /\ open # None THEN "escalate"
    ELSE IF "checks" \notin done THEN "checks"
    ELSE IF "classify" \notin done THEN "classify" ELSE "advance"

Drives == pc = "idle" /\ stage = "design" /\ status = "active"
Serves(k) == Drives /\ Served = k

Dispatch ==
    /\ Serves("dispatch")
    /\ done' = done \cup {"dispatch"}
    /\ planned' = NoPlan
    /\ UNCHANGED <<stage, status, units, needsDocs, track, seen, review, checks, pc, runs, torn>>

Extract ==
    /\ Serves("extract") /\ "extract" \notin done
    /\ \E a \in Answers :
          /\ validateExtraction(a.units) /\ validateCdotImpact(a)
          /\ planned' = a
    /\ pc' = "inserting"
    /\ UNCHANGED <<stage, status, done, units, needsDocs, track, seen, review, checks, runs, torn>>

InsertUnit ==
    /\ pc = "inserting" /\ Len(units) < Len(planned.units)
    /\ units' = Append(units, planned.units[Len(units) + 1])
    /\ UNCHANGED <<stage, status, done, needsDocs, track, planned, seen, review, checks, pc, runs, torn>>

(* setNeedsDocs, if documentation applies; then the step succeeds.         *)
Extracted ==
    /\ pc = "inserting" /\ units = planned.units
    /\ needsDocs' = (needsDocs \/ planned.docs)
    /\ done' = done \cup {"extract"} /\ pc' = "idle"
    /\ UNCHANGED <<stage, status, units, track, planned, seen, review, checks, runs, torn>>

Size ==
    /\ Serves("size") /\ "size" \notin done
    /\ track' \in Tracks(Len(units))
    /\ done' = done \cup {"size"}
    /\ UNCHANGED <<stage, status, units, needsDocs, planned, seen, review, checks, pc, runs, torn>>

----------------------------------------------------------------------------
(* The review of the plan.                                                 *)

Counted == IF repairs < RepairLimit THEN repairs + 1 ELSE repairs

(* A bug: the review of the old plan stands for the new one.               *)
redesignLoopback_KeepsReview(signature) ==
    /\ units' = <<>>
    /\ done' = done \ {"dispatch", "extract"}
    /\ lastLoop' = signature /\ repairs' = Counted
    /\ torn' = torn \ {"plan"}

(* A bug: the units of the old plan stay.                                  *)
redesignLoopback_KeepsUnits(signature) ==
    /\ units' = units
    /\ done' = done \ {"dispatch", "extract", "review"}
    /\ lastLoop' = signature /\ repairs' = Counted
    /\ torn' = torn \ {"plan"}

(* Units go; the plan is written, extracted and reviewed anew.  The track, *)
(* needs_docs and the checks of the criteria stay.                         *)
redesignLoopback(signature) ==
    /\ units' = <<>>
    /\ done' = done \ {"dispatch", "extract", "review"}
    /\ lastLoop' = signature /\ repairs' = Counted
    /\ torn' = torn \ {"plan"}

(* The repair limit, and isRepeatedReviewLoopback.                         *)
GivesUp(f) == repairs >= RepairLimit \/ f = lastLoop

(* applyReviewVerdict for design:review.                                   *)
applyReviewVerdict(f) ==
    \/ /\ f = None \/ GivesUp(f)
       /\ done' = done \cup {"review"}
       /\ status' = IF f = None THEN "active" ELSE "waiting"
       /\ UNCHANGED <<units, lastLoop, repairs, torn>>
    \/ /\ f # None /\ ~GivesUp(f)
       /\ redesignLoopback(f)
       /\ status' = "active"

Review ==
    /\ Serves("review") /\ "review" \notin done
    /\ \E f \in Findings \cup {None} :
          /\ open' = f
          /\ applyReviewVerdict(f)
    /\ seen' = units
    /\ UNCHANGED <<stage, needsDocs, track, planned, checks, pc, runs>>

----------------------------------------------------------------------------
(* The checks of the acceptance criteria.                                  *)

(* A criterion without rows yet: deriveAndPersistAcs inserts them one by   *)
(* one, and does nothing once there is any.                                *)
Derive ==
    /\ Serves("checks") /\ acs = 0 /\ described > 0
    /\ acs' = 1 /\ pc' = "deriving"
    /\ UNCHANGED <<stage, status, done, plan, review, active, rounds, flagged, described, unrunnable, runs, torn>>

InsertAc ==
    /\ pc = "deriving" /\ acs < described
    /\ acs' = acs + 1
    /\ UNCHANGED <<stage, status, done, plan, review, active, rounds, flagged, described, unrunnable, pc, runs, torn>>

Derived ==
    \/ pc = "deriving" /\ acs = described
    \/ Serves("checks") /\ (acs > 0 \/ described = 0)

NoAcs ==
    /\ Derived /\ acs = 0
    /\ done' = done \cup {"checks"}
    /\ UNCHANGED <<stage, status, plan, review, checks, pc, runs, torn>>

(* probeCheckCapability finds no runner: a plan without behavioral units   *)
(* goes on without checks, any other waits for a repair.                   *)
NoRunner ==
    /\ Derived /\ acs > 0
    /\ pc' = "idle"
    /\ IF \E i \in DOMAIN units : units[i].behavioral
       THEN status' = "waiting" /\ UNCHANGED <<done, unrunnable>>
       ELSE done' = done \cup {"checks"} /\ unrunnable' = TRUE /\ UNCHANGED status
    /\ UNCHANGED <<stage, plan, review, acs, active, rounds, flagged, described, runs, torn>>

Outcome == {"red", "green", "error", "silent", "unlaunched", "selected-none", "poisoned", "misnamed"}

(* A bug: whatever was written counts, executed or not.                    *)
Covers_Any(o) == o \notin {"selected-none", "misnamed"}

(* Which authored checks are kept: the file is committed, named and owned, *)
(* its selector matches a test, and it ran: an error without output, a     *)
(* launcher that cannot be executed and an import error that names a       *)
(* discarded file leave the criterion uncovered.                           *)
Covers(o) == o \in {"red", "green", "error"}

CoarseOf(o) == IF o \in {"red", "green", "error"} THEN o ELSE "unrun"

(* The criteria that the latest checks loopback named, or all of them.     *)
Scope == IF flagged = {} THEN 1..acs ELSE flagged

Row(coarse, class) == [coarse |-> coarse, class |-> class]

(* Every criterion in scope has a check that covers it, or the handler     *)
(* throws and the commit is rolled back (not an action: nothing changes).  *)
(* The rows of the scope are replaced in one transaction: by criterion     *)
(* where a loopback named it, so that its superseded rows stay, else all   *)
(* rows of the ticket, superseded ones included.                           *)
Author ==
    /\ Derived /\ acs > 0
    /\ \E written \in [Scope -> {w \in SUBSET Outcome : Cardinality(w) \in 1..MaxChecks}] :
          /\ \A c \in Scope : \E o \in written[c] : Covers(o)
          /\ active' = [c \in Acs |->
                IF c \in Scope THEN {Row(CoarseOf(o), "open") : o \in {o \in written[c] : Covers(o)}}
                ELSE active[c]]
    /\ rounds' = IF Scope = flagged THEN rounds ELSE [c \in Acs |-> 0]
    /\ pc' = "persisted"
    /\ UNCHANGED <<stage, status, done, plan, review, acs, flagged, described, unrunnable, runs, torn>>

Authored ==
    /\ pc = "persisted"
    /\ done' = done \cup {"checks"} /\ pc' = "idle"
    /\ UNCHANGED <<stage, status, plan, review, checks, runs, torn>>

(* classifyPrior settles errors, and some reds, as environmental or        *)
(* absence; the adjudicator settles the rest, and leaves a weak or vacuous *)
(* check open.  "gating" stands for assertion and absence, "waived" for    *)
(* satisfied and not-expressible.                                          *)
Classes(coarse) ==
    CASE coarse = "red" -> {"gating", "advisory", "open"}
      [] coarse = "green" -> {"waived", "open"}
      [] OTHER -> {"advisory"}

listUnresolved == UNION {{<<c, r>> : r \in {r \in active[c] : r.class = "open"}} : c \in Acs}

(* A check that nobody could settle keeps both its columns null.           *)
classifyAcCheck(row, class) == [row EXCEPT !.class = class]

(* checks:classify, one transaction for all of them.                       *)
Classify ==
    /\ Serves("classify") /\ "classify" \notin done
    /\ \E grade \in [listUnresolved -> {"gating", "advisory", "waived", "open"}] :
          /\ \A p \in listUnresolved : grade[p] \in Classes(p[2].coarse)
          /\ active' = [c \in Acs |->
                {r \in active[c] : r.class # "open"}
                \cup {classifyAcCheck(r, grade[<<c, r>>]) : r \in {r \in active[c] : r.class = "open"}}]
    /\ pc' = "classified"
    /\ UNCHANGED <<stage, status, done, plan, review, acs, rounds, flagged, described, unrunnable, runs, torn>>

(* A bug: a criterion may be authored again without end.                   *)
Exhausted_Never(criteria) == FALSE

Exhausted(criteria) == \E c \in criteria : rounds[c] + 1 >= Cap

(* The active rows of a criterion are frozen under one timestamp, and the  *)
(* distinct timestamps are its rounds.                                     *)
supersedeByAc(criteria) ==
    /\ active' = [c \in Acs |-> IF c \in criteria THEN {} ELSE active[c]]
    /\ rounds' = [c \in Acs |-> IF c \in criteria /\ rounds[c] < Cap THEN rounds[c] + 1 ELSE rounds[c]]

(* applyChecksVerdict, in the success transaction of checks:classify:      *)
(* supersede every active check of the flagged criteria, and write them    *)
(* anew unless one of them has had its rounds.                             *)
applyChecksVerdict ==
    /\ pc = "classified"
    /\ LET criteria == {p[1] : p \in listUnresolved}
       IN /\ supersedeByAc(criteria)
          /\ \/ /\ criteria = {} \/ Exhausted(criteria)
                /\ done' = done \cup {"classify"}
                /\ status' = IF criteria = {} THEN status ELSE "waiting"
                /\ UNCHANGED flagged
             \/ /\ criteria # {} /\ ~Exhausted(criteria)
                /\ done' = done \ {"checks", "classify"}
                /\ flagged' = criteria
                /\ UNCHANGED status
    /\ pc' = "idle"
    /\ UNCHANGED <<stage, plan, review, acs, described, unrunnable, runs, torn>>

----------------------------------------------------------------------------
(* The stage ends, a step gives up, the process dies, the ticket resumes.  *)

Advance ==
    /\ Serves("advance")
    /\ stage' = "implement"
    /\ UNCHANGED <<status, done, plan, review, checks, pc, runs, torn>>

(* applyFailurePolicy at the bound of attempts.                            *)
GiveUp ==
    /\ Drives /\ Served # "advance"
    /\ status' = "waiting"
    /\ UNCHANGED <<stage, done, plan, review, checks, pc, runs, torn>>

(* A review of the code finds a plan defect, under the policy "redesign".  *)
PlanDefect ==
    /\ pc = "idle" /\ stage = "implement" /\ status = "active" /\ repairs < RepairLimit
    /\ redesignLoopback("code")
    /\ stage' = "design"
    /\ UNCHANGED <<status, needsDocs, track, open, planned, seen, checks, pc, runs>>

(* Half of the units, or all of them without needs_docs; half of the       *)
(* criteria.                                                               *)
Torn ==
    (IF pc = "inserting" /\ units # <<>> /\ (units # planned.units \/ (planned.docs /\ ~needsDocs))
     THEN {"plan"} ELSE {})
    \cup (IF pc = "deriving" /\ acs < described THEN {"acs"} ELSE {})

(* A stop can only come while an agent works, which is a crash that tears  *)
(* nothing.                                                                *)
Crash ==
    /\ pc # "down"
    /\ pc' = "down"
    /\ torn' = torn \cup Torn
    /\ UNCHANGED <<stage, status, done, plan, review, checks, runs>>

(* The resume of a ticket whose plan review is open decides it again, or   *)
(* plans anew where the operator moved the branch.                         *)
Resume ==
    /\ pc = "down" \/ status = "waiting"
    /\ runs < MaxRuns
    /\ runs' = runs + 1 /\ pc' = "idle"
    /\ IF stage = "design" /\ "review" \in done /\ open # None
       THEN /\ repairs < RepairLimit
            /\ \/ applyReviewVerdict(open)
               \/ redesignLoopback("operator") /\ status' = "active"
       ELSE status' = "active" /\ UNCHANGED <<units, done, lastLoop, repairs, torn>>
    /\ UNCHANGED <<stage, needsDocs, track, open, planned, seen, checks>>

Step ==
    \/ Dispatch \/ Extract \/ InsertUnit \/ Extracted \/ Size \/ Review
    \/ Derive \/ InsertAc \/ NoAcs \/ NoRunner \/ Author \/ Authored \/ Classify \/ applyChecksVerdict
    \/ Advance

Next == Step \/ GiveUp \/ PlanDefect \/ Crash \/ Resume

(* The loop of a run that is not stopped takes one step after the other.   *)
Spec == Init /\ [][Next]_vars /\ WF_vars(Step)

----------------------------------------------------------------------------
(* Properties.                                                             *)

Left == stage = "implement"
Seqs == {units[i].seq : i \in DOMAIN units}

(* A ticket leaves design with all units of the plan that was last         *)
(* written, marked for the docs step if the plan says so, and with all of  *)
(* its criteria, unless a crash fell between two of the inserts.           *)
PlanIsWhole ==
    Left =>
        /\ "plan" \notin torn => units = planned.units /\ (planned.docs => needsDocs)
        /\ "acs" \notin torn => acs = described

(* No set of units waits for itself or for a unit that does not exist: in  *)
(* whatever order they are verified, one of the others is actionable, so   *)
(* the resolver's `blocked` is not met on a plan that no crash cut short.  *)
PlanCanFinish ==
    Left /\ "plan" \notin torn =>
        \A verified \in SUBSET Seqs :
            verified # Seqs => \E i \in DOMAIN units :
                units[i].seq \notin verified /\ units[i].deps \subseteq verified

(* A large plan leaves design only if these very units were reviewed and   *)
(* nothing blocking is open, through any redesigns, resumes and crashes.   *)
FullPlanReviewed == Left /\ track = "full" => seen = units /\ open = None

(* Every criterion leaves design with a check that was executed and has    *)
(* been graded, and with no ungraded one.  The exceptions are reported: no *)
(* runner and no behavior, or a person was asked when the rounds of some   *)
(* criterion were used up, and this one was flagged with it.               *)
AcsAnswered ==
    Left => \A c \in 1..acs :
        \/ active[c] # {} /\ \A r \in active[c] : r.coarse # "unrun" /\ r.class # "open"
        \/ active[c] = {} /\ unrunnable
        \/ active[c] = {} /\ rounds[c] > 0 /\ \E d \in 1..acs : rounds[d] = Cap

(* What the resolver serves in design has not succeeded: nothing is        *)
(* replayed, and no plan with open findings goes on.                       *)
NothingReplayed == Drives => Served \notin done \cup {"escalate"}

(* Grades are written once, and rounds are never forgotten: only a         *)
(* superseding verdict takes a graded check away, and it counts.           *)
GradesStay ==
    [][\A c \in Acs :
        /\ rounds'[c] >= rounds[c]
        /\ (\E r \in active[c] : r.class # "open" /\ r \notin active'[c]) => rounds'[c] > rounds[c]]_vars

(* A run that nobody stops leaves design or asks a person.                 *)
DesignEnds == []<>(stage = "implement" \/ status = "waiting" \/ pc = "down")

(* What the documentation says without exception: a crash anywhere resumes *)
(* from the journal, so no plan loses units, docs or criteria to one.      *)
CrashKeepsPlan ==
    Left => units = planned.units /\ (planned.docs => needsDocs) /\ acs = described
=============================================================================
