---------------------------- MODULE ReviewRounds ----------------------------
(***************************************************************************)
(* The ledger of code-review findings: what a review may close, what sends *)
(* the ticket back to which author, what the operator may accept, and what *)
(* keeps open findings from being shipped.  In module ControlLoop all this *)
(* is one set of open findings.                                            *)
(*                                                                         *)
(* Findings that need no resolution (minor, nit) are left out, and so is   *)
(* the verification of a unit; what becomes of a push that fails is        *)
(* Delivery's.  Heads are numbered in the order of their commits, and the  *)
(* operator may move the branch to a new one or back to an old one.        *)
(***************************************************************************)
EXTENDS Integers, Sequences, FiniteSets

CONSTANTS
    Planned,        \* number of work units of a plan
    Filings,        \* sequences of findings that a review may file
    Legacy,         \* checkpoints of a release that had no contract and closed no finding
    RepairLimit,    \* REVIEW_REPAIR_LIMIT
    ProbeLimit,     \* REVIEW_PROBE_LIMIT
    OnPlanDefect,   \* values of the configuration knob
    MaxFindings, MaxReviews, MaxRuns, MaxHeads      \* bounds of the model

NoUnit == 0         \* work_unit_id of a finding about the whole ticket
Keys == {"defect", "other", "plan-defect"}      \* category and location
Claim == [severity : {"major", "critical"}, nominated : BOOLEAN, unit : 0..Planned, key : Keys]
FindingRow == [claim : Claim, unit : 0..Planned, round : Nat, status : {"open", "fixed", "wont-fix", "deferred"}]

ASSUME ReviewAssumption ==
    /\ Planned \in Nat \ {0} /\ RepairLimit \in Nat /\ ProbeLimit \in Nat
    /\ Filings \subseteq Seq(Claim) /\ <<>> \in Filings
    /\ \A f \in Filings : \A i \in DOMAIN f : f[i].nominated => f[i].severity = "major"
    /\ Legacy \subseteq [findings : Seq(FindingRow), round : Nat, succeeded : BOOLEAN, count : Nat]
    /\ \A old \in Legacy : \A i \in DOMAIN old.findings :
          old.findings[i].status = "open" /\ old.findings[i].round <= old.round
    /\ OnPlanDefect \in (SUBSET {"escalate", "redesign"}) \ {{}}
    /\ {MaxFindings, MaxReviews, MaxHeads} \subseteq Nat /\ MaxRuns \in Nat \ {0}

VARIABLES
    (* the run database *)
    stage, status,  \* of the ticket
    units,          \* work_unit.status by seq
    ledger,         \* rows of review_finding by id
    contract,       \* findings the contract calls superseded, once it has started
    step,           \* of the review: status and result
    round,          \* the latest dispatch of the review, by number and head
    risks,          \* events review-risk-accepted
    repairs,        \* reviewRepairCount
    lastLoop,       \* signature of the last loopback to implement or design
    probes,         \* events review-probe-requested
    recorded,       \* head of the latest dispatch
    baseline,       \* headBaseline: recorded, or the head accepted since
    forge,          \* the row of the push
    (* git and the process *)
    head, commits,
    pc, runs,
    (* debts *)
    owed,           \* findings that have to be resolved or accepted
    settled,        \* those that a completed review called fixed or invalid
    answered,       \* those that an author answered since the last loopback
    ran,            \* probes that were executed
    resumedAt       \* head of the last resume that judged the findings

heads == <<recorded, baseline, head, commits>>
loops == <<repairs, lastLoop>>
process == <<pc, runs>>
debts == <<owed, settled, answered, ran, resumedAt>>
reviewVars == <<stage, status, units, ledger, contract, step, round, risks, repairs, lastLoop, probes, recorded,
          baseline, forge, head, commits, pc, runs, owed, settled, answered, ran,
          resumedAt>>

Unstarted == [superseded |-> {}, started |-> FALSE]
Pending == [status |-> "pending", completed |-> FALSE, resolved |-> {}, count |-> 0]
NoSignature == [k \in Keys |-> 0]
Operator == [k \in Keys |-> -1]     \* "review:operator-head-changed"

(* A finding in the ledger is a claim, with the round that filed it.       *)
Filed(claim, r) == [claim |-> claim, unit |-> claim.unit, round |-> r, status |-> "open"]
At(led, st) == {i \in DOMAIN led : led[i].status = st}
OfRound(r) == {i \in DOMAIN ledger : ledger[i].round = r}

----------------------------------------------------------------------------
(* The ledger's queries.                                                   *)

(* Without a contract, the findings of the latest round if its completion  *)
(* is proven, and of all rounds otherwise; with one, all but superseded.   *)
requiredCodeFindings(led, started, superseded) ==
    IF started THEN At(led, "open") \ superseded
    ELSE IF /\ round.id # 0 /\ step.status = "succeeded"
            /\ step.count = Cardinality({i \in DOMAIN led : led[i].round = round.id})
    THEN {i \in At(led, "open") : led[i].round = round.id}
    ELSE At(led, "open")

required == requiredCodeFindings(ledger, contract.started, contract.superseded)

beginReviewContract ==
    contract' = IF contract.started THEN contract
                ELSE [superseded |-> At(ledger, "open") \ required, started |-> TRUE]

(* Ticket-wide findings go to the first unit.                              *)
findingsForUnit(u) == {i \in required : ledger[i].unit = u \/ (ledger[i].unit = NoUnit /\ u = 1)}

acceptedAt(i, sha) == \E r \in risks : r.sha = sha /\ i \in r.ids

(* A deferral is valid at the head it was accepted for, and at no other.   *)
reopenStaleDeferrals_Never(led) == led      \* a bug
reopenStaleDeferrals(led) ==
    [i \in DOMAIN led |->
        IF led[i].status = "deferred" /\ ~acceptedAt(i, head) THEN [led[i] EXCEPT !.status = "open"]
        ELSE led[i]]

(* unresolvedReviewReason.                                                 *)
Unresolved(sha) ==
    \/ required # {}
    \/ \E i \in At(ledger, "deferred") : ~acceptedAt(i, sha)

findingsSignature(led, found) == [k \in Keys |-> Cardinality({i \in found : led[i].claim.key = k})]

----------------------------------------------------------------------------
ReviewInit ==
    /\ units = [u \in 1..Planned |-> "pending"]
    /\ \/ /\ stage = "implement" /\ status = "active" /\ pc = "idle"
          /\ ledger = <<>> /\ step = Pending /\ round = [id |-> 0, head |-> 0] /\ owed = {}
       \/ \E old \in Legacy :
             /\ stage = "review" /\ status = "waiting" /\ pc = "down"
             /\ ledger = old.findings
             /\ step = IF old.succeeded THEN [Pending EXCEPT !.status = "succeeded", !.count = old.count]
                       ELSE Pending
             /\ round = [id |-> old.round, head |-> 1]
             /\ owed = IF old.succeeded /\ old.count = Cardinality(OfRound(old.round))
                       THEN OfRound(old.round) ELSE DOMAIN ledger
    /\ contract = Unstarted /\ risks = {} /\ repairs = 0 /\ lastLoop = NoSignature
    /\ probes = 0 /\ forge = "none"
    /\ recorded = 1 /\ baseline = 1 /\ head = 1 /\ commits = 1
    /\ runs = 1
    /\ settled = {} /\ answered = {} /\ ran = 0 /\ resumedAt = 1

Ready == pc = "idle" /\ status = "active"
Escalated == status' = "waiting" /\ pc' = "down" /\ UNCHANGED runs
NewHead == commits < MaxHeads /\ commits' = commits + 1 /\ head' = commits'
Records == recorded' = head' /\ baseline' = head'

----------------------------------------------------------------------------
(* Loopbacks, on the ledger `led` and the findings that block.             *)

Looped(signature) ==
    /\ repairs' = repairs + 1 /\ lastLoop' = signature
    /\ step' = Pending
    /\ forge' = "none"
    /\ answered' = {}
    /\ status' = "active" /\ pc' = "idle"

(* The units that the findings name start anew, and all of them when one   *)
(* finding names none, or there is no finding at all.                      *)
Recoded(led, found) ==
    [u \in DOMAIN units |->
        IF found = {} \/ \E i \in found : led[i].unit \in {u, NoUnit} THEN "pending" ELSE units[u]]

codeLoopback(led, found, signature) ==
    /\ stage' = "implement"
    /\ units' = Recoded(led, found)
    /\ ledger' = led
    /\ Looped(signature)

(* A bug: the findings of a unit are left to the foreign key.              *)
Detached_Cascade(led) ==
    [i \in DOMAIN led |-> IF led[i].unit = NoUnit THEN led[i] ELSE [led[i] EXCEPT !.status = "wont-fix"]]

Detached(led) == [i \in DOMAIN led |-> [led[i] EXCEPT !.unit = NoUnit]]

redesignLoopback(led, signature) ==
    /\ stage' = "design"
    /\ units' = <<>>
    /\ ledger' = Detached(led)
    /\ Looped(signature)

(* applyReviewVerdict, in the transaction that marks the review succeeded  *)
(* (`done` is then its result) or that resumes the run.                    *)
Stays(led, done) ==
    ledger' = led /\ step' = done /\ UNCHANGED <<stage, units, loops, forge, answered>>

Clean(led, done) == Stays(led, done) /\ UNCHANGED status /\ pc' = "idle"

Refused(led, found) ==
    repairs >= RepairLimit \/ lastLoop = findingsSignature(led, found)

IsPlanDefect(led, found) == \E i \in found : led[i].claim.key = "plan-defect"

Verdict(led, found, done) ==
    \/ /\ \/ Refused(led, found)
          \/ IsPlanDefect(led, found) /\ "escalate" \in OnPlanDefect
       /\ Stays(led, done) /\ status' = "waiting" /\ pc' = "down"
    \/ /\ ~Refused(led, found) /\ IsPlanDefect(led, found) /\ "redesign" \in OnPlanDefect
       /\ redesignLoopback(led, findingsSignature(led, found))
    \/ /\ ~Refused(led, found) /\ ~IsPlanDefect(led, found)
       /\ codeLoopback(led, found, findingsSignature(led, found))

----------------------------------------------------------------------------
(* Authors.                                                                *)

(* A new plan; its units are numbered as those of the old one were.        *)
Plan ==
    /\ Ready /\ stage = "design"
    /\ stage' = "implement" /\ units' = [u \in 1..Planned |-> "pending"]
    /\ UNCHANGED head /\ Records
    /\ UNCHANGED <<status, ledger, contract, step, round, risks, loops, probes, forge, commits, process,
                   debts>>

(* implement:dispatch of the first pending unit: the author may commit and *)
(* has to answer each finding of the unit (another answer throws, and the  *)
(* attempt is undone).  A process that ends before the answers are written *)
(* leaves the unit pending.                                                *)
Code ==
    /\ Ready /\ stage = "implement"
    /\ \E u \in DOMAIN units :
          /\ units[u] = "pending" /\ \A v \in 1..(u - 1) : units[v] # "pending"
          /\ NewHead \/ UNCHANGED <<head, commits>>
          /\ Records
          /\ \/ /\ units' = [units EXCEPT ![u] = "verified"]
                /\ answered' = answered \cup findingsForUnit(u)
                /\ UNCHANGED pc
             \/ pc' = "down" /\ UNCHANGED <<units, answered>>
    /\ UNCHANGED <<stage, status, ledger, contract, step, round, risks, loops, probes, forge, runs, owed,
                   settled, ran, resumedAt>>

AdvanceToReview ==
    /\ Ready /\ stage = "implement" /\ \A u \in DOMAIN units : units[u] = "verified"
    /\ stage' = "review"
    /\ UNCHANGED <<status, units, ledger, contract, step, round, risks, loops, probes, forge, heads,
                   process, debts>>

----------------------------------------------------------------------------
(* runCodeReview.  A dispatch row is inserted when the agent starts, and   *)
(* gets its head when it ends.                                             *)

Dispatched == round.id < MaxReviews /\ round' = [id |-> round.id + 1, head |-> 0] /\ pc' = "reviewing"

ReviewStarts ==
    /\ Ready /\ stage = "review" /\ step.status = "pending"
    /\ beginReviewContract
    /\ Dispatched
    /\ UNCHANGED <<stage, status, units, ledger, step, risks, loops, probes, forge, heads, runs,
                   debts>>

Answers == pc = "reviewing"
NamesHead == Records /\ round' = [round EXCEPT !.head = head']

(* The answer is refused, or the dispatch committed what a verification    *)
(* had left changed and moved the head: the step is tried again, or gives  *)
(* up.                                                                     *)
ReviewThrows ==
    /\ Answers
    /\ NewHead \/ UNCHANGED <<head, commits>>
    /\ NamesHead
    /\ \/ pc' = "idle" /\ UNCHANGED <<status, runs>>
       \/ Escalated
    /\ UNCHANGED <<stage, units, ledger, contract, step, risks, loops, probes, forge, debts>>

(* A job is requested: the event is written before the command starts.     *)
ProbeRequested ==
    /\ Answers /\ UNCHANGED <<head, commits>> /\ NamesHead
    /\ probes < ProbeLimit /\ probes' = probes + 1
    /\ ran' = ran + 1 /\ pc' = "probing"
    /\ UNCHANGED <<stage, status, units, ledger, contract, step, risks, loops, forge, runs, owed, settled,
                   answered, resumedAt>>

(* The allowance is used up: no retry can help.                            *)
ProbeRefused ==
    /\ Answers /\ UNCHANGED <<head, commits>> /\ NamesHead
    /\ probes >= ProbeLimit
    /\ Escalated
    /\ UNCHANGED <<stage, units, ledger, contract, step, risks, loops, probes, forge, debts>>

(* The command ends, and what it left in the worktree is undone: the agent *)
(* is asked again.  One that timed out or moved the head needs a human.    *)
ProbeEnds ==
    /\ pc = "probing"
    /\ \/ Dispatched /\ UNCHANGED <<status, head, commits, runs>>
       \/ Escalated /\ (NewHead \/ UNCHANGED <<head, commits>>) /\ UNCHANGED round
    /\ UNCHANGED <<stage, units, ledger, contract, step, risks, loops, probes, recorded, baseline, forge,
                   debts>>

(* commitReviewCompletion: findings are closed as the resolutions say, one *)
(* for each, and the new ones are filed.                                   *)
Completed(resolution, filing) ==
    [i \in DOMAIN ledger |->
        IF i \in DOMAIN resolution THEN [ledger[i] EXCEPT !.status = resolution[i]] ELSE ledger[i]]
    \o [i \in DOMAIN filing |-> Filed(filing[i], round.id)]

ReviewSucceeds ==
    /\ Answers /\ UNCHANGED <<head, commits>> /\ NamesHead
    /\ \E resolution \in [required -> {"fixed", "wont-fix", "open"}], filing \in Filings :
          LET led == Completed(resolution, filing)
              found == requiredCodeFindings(led, contract.started, contract.superseded)
              done == [status |-> "succeeded", completed |-> TRUE, resolved |-> required,
                       count |-> Len(filing)]
          IN  /\ Len(led) <= MaxFindings
              /\ owed' = owed \cup (DOMAIN led \ DOMAIN ledger)
              /\ settled' = settled \cup {i \in required : resolution[i] # "open"}
              /\ \/ found = {} /\ Clean(led, done)
                 \/ found # {} /\ Verdict(led, found, done)
    /\ UNCHANGED <<contract, risks, probes, runs, ran, resumedAt>>

----------------------------------------------------------------------------
(* Merge.  The resolver's guard is the same as the handler's.              *)

AdvanceToMerge ==
    /\ Ready /\ stage = "review" /\ step.status = "succeeded" /\ ~Unresolved(recorded)
    /\ stage' = "merge"
    /\ UNCHANGED <<status, units, ledger, contract, step, round, risks, loops, probes, forge, heads,
                   process, debts>>

(* merge:push enqueues the recorded head, and the drain sends it.          *)
Push ==
    /\ Ready /\ stage = "merge" /\ forge = "none" /\ ~Unresolved(recorded)
    /\ forge' = "pending"
    /\ UNCHANGED <<stage, status, units, ledger, contract, step, round, risks, loops, probes, heads,
                   process, debts>>

Drain ==
    /\ Ready /\ stage = "merge" /\ forge = "pending" /\ ~Unresolved(recorded)
    /\ forge' = "sent"
    /\ UNCHANGED <<stage, status, units, ledger, contract, step, round, risks, loops, probes, heads,
                   process, debts>>

----------------------------------------------------------------------------
(* The process ends, the operator moves the branch, and resumes.           *)

Stop ==
    /\ pc # "down" /\ pc' = "down"
    /\ UNCHANGED <<stage, status, units, ledger, contract, step, round, risks, loops, probes, heads, forge,
                   runs, debts>>

OperatorMoves ==
    /\ pc = "down" /\ runs < MaxRuns
    /\ NewHead \/ (head' \in 1..commits \ {head} /\ UNCHANGED commits)
    /\ UNCHANGED <<stage, status, units, ledger, contract, step, round, risks, loops, probes, recorded,
                   baseline, forge, process, debts>>

Resumes == pc = "down" /\ runs < MaxRuns /\ runs' = runs + 1
moved == baseline # head
Relevant == stage \in {"review", "merge"}
ReviewIsOpen == Relevant /\ step.status = "succeeded" /\ Unresolved(recorded)

(* No review waits for an answer of the operator.                          *)
ResumeNone ==
    /\ Resumes /\ ~(moved /\ Relevant) /\ ~(~moved /\ ReviewIsOpen)
    /\ status' = "active" /\ pc' = "idle" /\ baseline' = head
    /\ UNCHANGED <<stage, units, ledger, contract, step, round, risks, loops, probes, recorded, head,
                   commits, forge, debts>>

(* The findings of an unchanged head get their verdict again: the          *)
(* completion was committed, and is not committed twice.                   *)
ResumeRetry ==
    /\ Resumes /\ ~moved /\ ReviewIsOpen
    /\ repairs < RepairLimit /\ forge # "pending"
    /\ beginReviewContract
    /\ LET led == reopenStaleDeferrals(ledger)
       IN  Verdict(led, requiredCodeFindings(led, TRUE, contract'.superseded), step)
    /\ resumedAt' = head
    /\ UNCHANGED <<round, risks, probes, heads, owed, settled, ran>>

(* --accept-head: every unit is coded again, on the operator's head.       *)
ResumeMoved ==
    /\ Resumes /\ moved /\ Relevant /\ forge # "pending"
    /\ beginReviewContract
    /\ codeLoopback(reopenStaleDeferrals(ledger), {}, Operator)
    /\ baseline' = head /\ resumedAt' = head
    /\ UNCHANGED <<round, risks, probes, recorded, head, commits, owed, settled, ran>>

(* --review-action accept-risk, with the ids of all open findings: they    *)
(* are nominated majors, and the completed review of this head judged them.*)
Reviewed == OfRound(round.id) \cup step.resolved
Acceptable == \A i \in required :
    i \in Reviewed /\ ledger[i].claim.severity = "major" /\ ledger[i].claim.nominated

AcceptRisk ==
    /\ Resumes /\ ~moved /\ stage = "review" /\ step.status = "succeeded"
    /\ round.head = head
    /\ step.completed \/ step.count = Cardinality(OfRound(round.id))
    /\ required # {} /\ Acceptable
    /\ beginReviewContract
    /\ ledger' = [i \in DOMAIN ledger |->
                    IF i \in required THEN [ledger[i] EXCEPT !.status = "deferred"] ELSE ledger[i]]
    /\ risks' = risks \cup {[sha |-> head, ids |-> required]}
    /\ status' = "active" /\ pc' = "idle"
    /\ UNCHANGED <<stage, units, step, round, loops, probes, forge, heads, debts>>

ReviewNext ==
    \/ Plan \/ Code \/ AdvanceToReview
    \/ ReviewStarts \/ ReviewThrows \/ ProbeRequested \/ ProbeRefused \/ ProbeEnds \/ ReviewSucceeds
    \/ AdvanceToMerge \/ Push \/ Drain
    \/ Stop \/ OperatorMoves \/ ResumeNone \/ ResumeRetry \/ ResumeMoved \/ AcceptRisk

ReviewSpec == ReviewInit /\ [][ReviewNext]_reviewVars

----------------------------------------------------------------------------
(* The ledger is well formed: findings belong to units of the plan and to  *)
(* a round that was held, and what has to be resolved exists.              *)
ReviewTypeOK ==
    /\ stage \in {"design", "implement", "review", "merge"} /\ status \in {"active", "waiting"}
    /\ units \in Seq({"pending", "verified"}) /\ Len(units) \in {0, Planned}
    /\ ledger \in Seq(FindingRow) /\ \A i \in DOMAIN ledger : ledger[i].round <= round.id
    /\ contract.superseded \cup owed \subseteq DOMAIN ledger /\ settled \subseteq owed
    /\ repairs \in 0..(RepairLimit + MaxRuns) /\ probes \in 0..ProbeLimit
    /\ {recorded, baseline, head} \subseteq 1..commits
    /\ forge \in {"none", "pending", "sent"} /\ pc \in {"idle", "reviewing", "probing", "down"}

(* What is published has no debt: a completed review called every finding  *)
(* that was ever owed fixed or invalid, or the operator accepted it for    *)
(* the very head that is sent, and it is not critical.  New plans, legacy  *)
(* checkpoints, empty or interrupted reviews, and heads that move and come *)
(* back lose no finding.                                                   *)
ShippedIsAnswered ==
    forge = "sent" => \A i \in owed :
        \/ i \in settled
        \/ ledger[i].claim.severity = "major" /\ acceptedAt(i, recorded)

(* After a loopback no review starts before an author has answered every   *)
(* finding that is still owed, whatever unit it was filed against, and     *)
(* whatever plan, resume or crash came between.  What is accepted is       *)
(* exempt only if it was accepted for the very head at which the operator  *)
(* last had the findings judged: an acceptance for another head is void.   *)
AuthorsAnswerFirst ==
    repairs > 0 /\ stage = "review" /\ step.status = "pending" =>
        \A i \in owed \ settled :
            i \in answered \/ (ledger[i].status = "deferred" /\ acceptedAt(i, resumedAt))

(* At most ProbeLimit commands are run for the reviewers of a ticket: a    *)
(* crash or a resume gives none back.                                      *)
ProbesAreBounded == ran <= ProbeLimit
=============================================================================
