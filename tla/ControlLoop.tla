---------------------------- MODULE ControlLoop ----------------------------
(***************************************************************************)
(* The resolver and the verdicts: nextStepKey reads the run database and   *)
(* answers what to do next, advanceOneStep does it, and the verdict or the *)
(* failure policy of the step decides which rows start anew.  The design   *)
(* stage is one action; a step that throws and is simply tried again       *)
(* (module StepJournal) is left out, a step that gives up is not.          *)
(*                                                                         *)
(* Heads have no names here.  Evidence is looked up by the head of the     *)
(* latest dispatch, the "recorded" head, and no commit brings an old head  *)
(* back; so `gate`, `blame` and `suite` are the evidence of the recorded   *)
(* head alone, and a dispatch that moves it leaves them empty.  Commits of *)
(* the operator are on the branch, but not recorded before the next        *)
(* dispatch (`ahead`).                                                     *)
(***************************************************************************)
EXTENDS Integers, Sequences

CONSTANTS
    Planned,        \* number of work units of a plan
    Acs,            \* acceptance criteria
    GateCap,        \* GATE_ROUND_CAP
    MaxAttempts,    \* DEFAULT_MAX_ATTEMPTS
    RepairLimit,    \* REVIEW_REPAIR_LIMIT
    OnPlanDefect,   \* values of the configuration knob; each process reads it anew
    Shapes,         \* sets of blocking findings: is one a plan defect, which units do they name
    MaxRuns,        \* bounds of the model: processes,
    MaxMoves        \* and heads accepted from the operator

ASSUME ControlAssumption ==
    /\ Planned \in Nat \ {0} /\ GateCap \in Nat \ {0} /\ MaxAttempts \in Nat \ {0}
    /\ RepairLimit \in Nat /\ MaxRuns \in Nat \ {0} /\ MaxMoves \in Nat
    /\ OnPlanDefect \in (SUBSET {"escalate", "redesign"}) \ {{}}
    /\ Shapes \subseteq [plan : BOOLEAN, units : SUBSET (1..Planned)]

VARIABLES
    (* the run database *)
    stage, status,  \* of the ticket; "approval": waits for human_merge_approval
    units,          \* work_unit.status by seq
    delivered,      \* attempt of completeness, by unit
    checked,        \* criteria with an active check
    rejected,       \* those whose last re-author was rejected
    gate,           \* the ac-check-gate signal at the recorded head, by criterion
    blame,          \* the ac-check-blame signals at the recorded head, by criterion
    suite,          \* the integration signal at the recorded head
    route,          \* latestReauthorRoute, with the blame and dispositions of its head
    done,           \* succeeded steps, of those that are not a unit's
    gateTries, reauthorTries, suiteTries,   \* attempts
    needsDocs,
    open,           \* requiredCodeFindings
    lastLoop,       \* signature of the last loopback to implement or design
    repairs,        \* reviewRepairCount
    (* git and the process *)
    ahead,          \* is the branch ahead of the recorded head?
    proc, runs, moves,
    (* observers *)
    unseen,         \* has the branch code of the operator that the gate never ran on?
    foreign,        \* and no coding dispatch since?
    upset,          \* was the recorded head moved under a succeeded gate?
    reviewed        \* did the last review see the branch head?

evidence == <<gate, blame, suite>>
attempts == <<gateTries, reauthorTries, suiteTries>>
checks == <<checked, rejected, route>>
review == <<open, lastLoop, repairs>>
process == <<proc, runs, moves>>
observers == <<unseen, foreign, upset, reviewed>>
vars == <<stage, status, units, delivered, checked, rejected, gate, blame, suite, route, done,
          gateTries, reauthorTries, suiteTries, needsDocs, open, lastLoop, repairs, ahead, proc, runs,
          moves, unseen, foreign, upset, reviewed>>

Steps == {"gate", "arbitrate", "reauthor", "integration", "docs", "review"}
Clear == [plan |-> FALSE, units |-> {}, clear |-> TRUE]     \* no blocking finding
NoRoute == [acs |-> {}, code |-> FALSE, installed |-> FALSE, rejected |-> FALSE]
Most == IF GateCap > MaxAttempts THEN GateCap ELSE MaxAttempts   \* attempts are told apart up to here
Unit == {"pending", "verifying", "verified"}
Origin(name) == [origin |-> name]       \* signature of a loopback that is not review's
Loops == Shapes \cup {Origin(n) : n \in {"none", "gate", "under", "plan", "operator"}}

TypeOK ==
    /\ stage \in {"design", "implement", "review", "merge"}
    /\ status \in {"active", "waiting", "approval"}
    /\ units \in Seq(Unit) /\ delivered \in Seq(0..Most) /\ Len(units) = Len(delivered)
    /\ checked \in SUBSET Acs /\ rejected \in SUBSET checked
    /\ gate \in [Acs -> {"none", "green", "red", "tampered"}]
    /\ blame \in [Acs -> {"none", "code", "check"}]
    /\ suite \in {"none", "ran", "tested"}
    /\ route \in [acs : SUBSET Acs, code : BOOLEAN, installed : BOOLEAN, rejected : BOOLEAN]
    /\ done \in SUBSET Steps
    /\ gateTries \in 0..Most /\ reauthorTries \in 0..Most /\ suiteTries \in 0..Most
    /\ needsDocs \in BOOLEAN
    /\ open \in Shapes \cup {Clear} /\ lastLoop \in Loops /\ repairs \in 0..RepairLimit
    /\ ahead \in BOOLEAN
    /\ proc \in {"up", "down"} /\ runs \in 1..MaxRuns /\ moves \in 0..MaxMoves
    /\ <<unseen, foreign, upset, reviewed>> \in BOOLEAN \X BOOLEAN \X BOOLEAN \X BOOLEAN

Init ==
    /\ stage = "design" /\ status = "active"
    /\ units = <<>> /\ delivered = <<>>
    /\ checked \in SUBSET Acs /\ rejected = {}
    /\ gate = [c \in Acs |-> "none"] /\ blame = [c \in Acs |-> "none"] /\ suite = "none"
    /\ route = NoRoute
    /\ done = {}
    /\ gateTries = 0 /\ reauthorTries = 0 /\ suiteTries = 0
    /\ needsDocs = FALSE
    /\ open = Clear /\ lastLoop = Origin("none") /\ repairs = 0
    /\ ahead = FALSE
    /\ proc = "up" /\ runs = 1 /\ moves = 0
    /\ unseen = FALSE /\ foreign = FALSE /\ upset = FALSE /\ reviewed = FALSE

----------------------------------------------------------------------------
(* The resolver.  validateExtraction accepts dependencies on earlier units *)
(* only, and a reconcile unit depends on all of them, so the first unit    *)
(* that is not verified can always be worked on: `blocked` does not occur. *)

nextActionableUnit == CHOOSE u \in DOMAIN units :
    units[u] # "verified" /\ \A v \in 1..(u - 1) : units[v] = "verified"
allUnitsVerified == \A u \in DOMAIN units : units[u] = "verified"

GatePassed == \A c \in checked : gate[c] = "green"
behavioralStillRed == {c \in checked : gate[c] = "red"}
Blamed == \E c \in Acs : blame[c] # "none"

(* evidenceFloor: an executed test at this head, or every criterion proven *)
(* by a green check that no rejected re-author left behind.                *)
evidenceFloor ==
    \/ suite = "tested"
    \/ Acs # {} /\ Acs \subseteq checked \ rejected /\ GatePassed

(* A bug: the stage is served by the journal alone, as design is.          *)
Served_ByJournal ==
    IF ~allUnitsVerified THEN "unit"
    ELSE IF checked # {} /\ "gate" \notin done THEN "gate"
    ELSE IF "integration" \notin done THEN "integration"
    ELSE IF needsDocs /\ "docs" \notin done THEN "docs" ELSE "advance"

(* What nextStepKey answers in the implement stage.                        *)
Served ==
    IF ~allUnitsVerified THEN "unit"
    ELSE IF ~GatePassed
    THEN CASE behavioralStillRed # {} /\ ~Blamed -> "arbitrate"
           [] Blamed /\ "reauthor" \notin done -> "reauthor"
           [] Blamed /\ {"reauthor", "gate"} \subseteq done -> "stuck"
           [] OTHER -> "gate"
    ELSE IF suite = "none" THEN "integration"
    ELSE IF needsDocs /\ "docs" \notin done THEN "docs"
    ELSE IF evidenceFloor THEN "advance" ELSE "floor"

Ready == proc = "up" /\ status = "active"
Serves(s) == Ready /\ stage = "implement" /\ Served = s
Executes(s) == Serves(s) /\ s \notin done      \* runStep replays a succeeded step

Running == UNCHANGED <<status, process>>
Escalated == status' = "waiting" /\ proc' = "down" /\ UNCHANGED <<runs, moves>>
Counted(n) == IF n < Most THEN n + 1 ELSE n

(* The latest dispatch row names the worktree's head.                      *)
Recorded(moved) ==
    /\ gate' = IF moved THEN [c \in Acs |-> "none"] ELSE gate
    /\ blame' = IF moved THEN [c \in Acs |-> "none"] ELSE blame
    /\ suite' = IF moved THEN "none" ELSE suite
    /\ ahead' = FALSE
    /\ reviewed' = (reviewed /\ ~moved)

----------------------------------------------------------------------------
(* Loopbacks.  None of them touches `docs`.                                *)

GateSteps == {"gate", "arbitrate", "reauthor"}
allPending == [u \in DOMAIN units |-> "pending"]

(* The attempt of the gate survives: it counts the rounds.                 *)
gateOriginLoopback(succeeded) ==
    /\ units' = allPending
    /\ done' = succeeded \ GateSteps
    /\ lastLoop' = Origin("gate")

(* resetTicketVerifySteps and the review step; the gate's attempt starts   *)
(* anew, those of the other steps do not.                                  *)
verifyStepsReset_NoReview == GateSteps \cup {"integration"}    \* a bug: review stays
verifyStepsReset == GateSteps \cup {"integration", "review"}

(* A bug: findings that name no unit reopen none.                          *)
codeLoopback_NamedOnly(named, signature) ==
    /\ stage' = "implement"
    /\ units' = [u \in DOMAIN units |-> IF u \in named THEN "pending" ELSE units[u]]
    /\ done' = done \ verifyStepsReset
    /\ gateTries' = 0
    /\ lastLoop' = signature
    /\ repairs' = IF repairs < RepairLimit THEN repairs + 1 ELSE repairs
    /\ UNCHANGED delivered

codeLoopback(named, signature) ==
    /\ stage' = "implement"
    /\ units' = [u \in DOMAIN units |-> IF named = {} \/ u \in named THEN "pending" ELSE units[u]]
    /\ done' = done \ verifyStepsReset
    /\ gateTries' = 0
    /\ lastLoop' = signature
    /\ repairs' = IF repairs < RepairLimit THEN repairs + 1 ELSE repairs
    /\ UNCHANGED delivered

(* The units are deleted, and with them their steps.                       *)
redesignLoopback(signature) ==
    /\ stage' = "design"
    /\ units' = <<>> /\ delivered' = <<>>
    /\ done' = done \ verifyStepsReset
    /\ gateTries' = 0
    /\ lastLoop' = signature
    /\ repairs' = IF repairs < RepairLimit THEN repairs + 1 ELSE repairs

----------------------------------------------------------------------------
(* Design, in one action: the plan may be reviewed and looped back, or be  *)
(* carried out.  Checks are authored once; a new plan keeps them.          *)

PlanLoop ==
    /\ Ready /\ stage = "design" /\ repairs < RepairLimit
    /\ repairs' = repairs + 1 /\ lastLoop' = Origin("plan")
    /\ Running
    /\ UNCHANGED <<stage, units, delivered, checks, evidence, done, attempts, needsDocs, open, ahead,
                   observers>>

Plan ==
    /\ Ready /\ stage = "design"
    /\ units' = [u \in 1..Planned |-> "pending"] /\ delivered' = [u \in 1..Planned |-> 0]
    /\ needsDocs' \in {needsDocs, TRUE}
    /\ \E committed \in BOOLEAN : Recorded(committed \/ ahead)
    /\ stage' = "implement"
    /\ Running
    /\ UNCHANGED <<checks, done, attempts, review, unseen, foreign, upset>>

----------------------------------------------------------------------------
(* Work units.                                                             *)

(* implement:dispatch commits, or not; a process that ends between its     *)
(* dispatch row and the unit's status leaves the unit pending.             *)
Dispatch ==
    /\ Serves("unit")
    /\ LET u == nextActionableUnit
       IN  /\ units[u] = "pending"
           /\ \E committed \in BOOLEAN : Recorded(committed \/ ahead)
           /\ \/ units' = [units EXCEPT ![u] = "verifying"] /\ Running
              \/ UNCHANGED <<units, status, runs, moves>> /\ proc' = "down"
    /\ unseen' = FALSE /\ foreign' = FALSE
    /\ UNCHANGED <<stage, delivered, checks, done, attempts, needsDocs, review, upset>>

(* completeness, then the advisory checks of the unit; every start of      *)
(* completeness counts, whether it succeeds or not.                        *)
Verify ==
    /\ Serves("unit")
    /\ LET u == nextActionableUnit
       IN  /\ units[u] = "verifying"
           /\ delivered' = [delivered EXCEPT ![u] = Counted(@)]
           /\ units' = [units EXCEPT ![u] = "verified"]
    /\ Running
    /\ UNCHANGED <<stage, checks, evidence, done, attempts, needsDocs, review, ahead, observers>>

(* A planned unit that left a declared file untouched goes back to coding, *)
(* until its attempts are used up or nothing changes between two of them.  *)
UnderDelivered ==
    /\ Serves("unit")
    /\ LET u == nextActionableUnit
           tries == Counted(delivered[u])
       IN  /\ units[u] = "verifying" /\ u <= Planned
           /\ delivered' = [delivered EXCEPT ![u] = tries]
           /\ \/ /\ tries < MaxAttempts
                 /\ units' = [units EXCEPT ![u] = "pending"] /\ lastLoop' = Origin("under")
                 /\ Running
              \/ Escalated /\ UNCHANGED <<units, lastLoop>>
    /\ UNCHANGED <<stage, checks, evidence, done, attempts, needsDocs, open, repairs, ahead, observers>>

----------------------------------------------------------------------------
(* verify:checks-gate, and applyAcCheckGateVerdict in the transaction that *)
(* marks it succeeded: tampering loops back, a red check is left to the    *)
(* arbiter, and at the cap both escalate.                                  *)

gateRoundExceeded(tries) == tries >= GateCap

Gate ==
    /\ Executes("gate")
    /\ gateTries' = Counted(gateTries)
    /\ \E result \in [checked -> {"green", "red", "tampered"}] :
          gate' = [c \in Acs |-> IF c \in checked THEN result[c] ELSE "none"]
    /\ \/ /\ \A c \in checked : gate'[c] = "green"
          /\ done' = done \cup {"gate"} /\ Running /\ UNCHANGED <<units, lastLoop>>
       \/ /\ \E c \in checked : gate'[c] # "green"
          /\ gateRoundExceeded(gateTries')
          /\ done' = done \cup {"gate"} /\ Escalated /\ UNCHANGED <<units, lastLoop>>
       \/ /\ \E c \in checked : gate'[c] = "red"
          /\ ~gateRoundExceeded(gateTries')
          /\ done' = done \cup {"gate"} /\ Running /\ UNCHANGED <<units, lastLoop>>
       \/ /\ \E c \in checked : gate'[c] = "tampered"
          /\ \A c \in checked : gate'[c] # "red"
          /\ ~gateRoundExceeded(gateTries')
          /\ gateOriginLoopback(done \cup {"gate"}) /\ Running
    /\ unseen' = FALSE
    /\ UNCHANGED <<stage, delivered, checks, blame, suite, reauthorTries, suiteTries, needsDocs, open,
                   repairs, ahead, foreign, upset, reviewed>>

(* checks:arbitrate and applyArbiterVerdict.                               *)
Arbitrate ==
    /\ Executes("arbitrate") /\ ~ahead
    /\ \E wrong \in SUBSET behavioralStillRed :
          /\ blame' = [c \in Acs |-> IF c \in wrong THEN "check"
                                     ELSE IF c \in behavioralStillRed THEN "code" ELSE "none"]
          /\ \/ /\ gateRoundExceeded(gateTries)
                /\ done' = done \cup {"arbitrate"} /\ Escalated /\ UNCHANGED <<units, lastLoop, route>>
             \/ /\ ~gateRoundExceeded(gateTries) /\ wrong # {}
                /\ route' = [acs |-> wrong, code |-> wrong # behavioralStillRed,
                             installed |-> FALSE, rejected |-> FALSE]
                /\ done' = done \ {"arbitrate", "reauthor"}
                /\ Running /\ UNCHANGED <<units, lastLoop>>
             \/ /\ ~gateRoundExceeded(gateTries) /\ wrong = {}
                /\ gateOriginLoopback(done) /\ Running /\ UNCHANGED route
    /\ UNCHANGED <<stage, delivered, checked, rejected, gate, suite, attempts, needsDocs, open, repairs,
                   ahead, observers>>

(* The arbiter's dispatch is not marked read only: commitWorktree takes up *)
(* tracked files that a verification left changed.  Its row then names     *)
(* another head than the blame, and the verdict finds nothing to route.    *)
ArbitrateMovesHead ==
    /\ Executes("arbitrate")
    /\ Recorded(TRUE)
    /\ done' = done \cup {"arbitrate"}
    /\ upset' = TRUE
    /\ Running
    /\ UNCHANGED <<stage, units, delivered, checks, attempts, needsDocs, review, unseen, foreign>>

(* checks:reauthor and applyReauthorVerdict.  The author of each routed    *)
(* check commits, whether its check is installed or rejected.  The route   *)
(* is the latest one, of whatever round.                                   *)
ReauthorNothing ==
    /\ Executes("reauthor") /\ route.acs = {}
    /\ reauthorTries' = Counted(reauthorTries)
    /\ done' = done \cup {"reauthor"}
    /\ Running
    /\ UNCHANGED <<stage, units, delivered, checks, evidence, gateTries, suiteTries, needsDocs, review,
                   ahead, observers>>

reauthorRoundExceeded_Never(tries) == FALSE     \* a bug: only the gate's rounds count
reauthorRoundExceeded(tries) == tries >= GateCap

Reauthor ==
    /\ Executes("reauthor") /\ route.acs # {}
    /\ reauthorTries' = Counted(reauthorTries)
    /\ \E committed \in BOOLEAN : Recorded(committed \/ ahead)
    /\ \E installed \in SUBSET route.acs :
          /\ rejected' = (rejected \ installed) \cup (route.acs \ installed)
          /\ route' = [route EXCEPT !.installed = @ \/ installed # {},
                                   !.rejected = @ \/ installed # route.acs]
    /\ LET exceeded == gateRoundExceeded(gateTries) \/ reauthorRoundExceeded(reauthorTries')
           recode == route'.code \/ route'.rejected
       IN  \/ /\ exceeded
              /\ done' = done \cup {"reauthor"} /\ Escalated /\ UNCHANGED <<units, lastLoop>>
           \/ /\ ~exceeded /\ recode
              /\ gateOriginLoopback(done) /\ Running
           \/ /\ ~exceeded /\ ~recode
              /\ done' = (done \cup {"reauthor"}) \ {"gate", "arbitrate"}
              /\ Running /\ UNCHANGED <<units, lastLoop>>
    /\ UNCHANGED <<stage, delivered, checked, gateTries, suiteTries, needsDocs, open, repairs, unseen,
                   foreign, upset>>

(* A later dispatch of the step throws, is parked or cut off, after an     *)
(* author has committed: the recorded head has moved.  A check may have    *)
(* been installed, but no disposition is written.                          *)
ReauthorFails ==
    /\ Executes("reauthor") /\ route.acs # {}
    /\ reauthorTries' = Counted(reauthorTries)
    /\ \E committed \in BOOLEAN :
          /\ Recorded(committed \/ ahead)
          /\ upset' = (upset \/ committed \/ ahead)
    /\ \E installed \in SUBSET route.acs : rejected' = rejected \ installed
    /\ \/ reauthorTries' < MaxAttempts /\ Running
       \/ Escalated
       \/ proc' = "down" /\ UNCHANGED <<status, runs, moves>>
    /\ UNCHANGED <<stage, units, delivered, checked, route, done, gateTries, suiteTries, needsDocs,
                   review, unseen, foreign>>

----------------------------------------------------------------------------
(* verify:integration is advisory: any verdict will do.  When it throws,   *)
(* a reconcile unit is added and the gate starts anew.                     *)

Integration ==
    /\ Executes("integration")
    /\ suiteTries' = Counted(suiteTries)
    /\ suite' \in {"ran", "tested"}
    /\ done' = done \cup {"integration"}
    /\ Running
    /\ UNCHANGED <<stage, units, delivered, checks, gate, blame, gateTries, reauthorTries, needsDocs,
                   review, ahead, observers>>

integrationReset_NoGate == {"integration"}      \* a bug: the gate stays
integrationReset == GateSteps \cup {"integration"}

IntegrationThrows ==
    /\ Executes("integration")
    /\ suiteTries' = Counted(suiteTries)
    /\ suiteTries' < MaxAttempts
    /\ units' = Append(units, "pending") /\ delivered' = Append(delivered, 0)
    /\ done' = done \ integrationReset
    /\ gateTries' = 0
    /\ Running
    /\ UNCHANGED <<stage, checks, evidence, reauthorTries, needsDocs, review, ahead, observers>>

(* docs:revise: after a commit, carryVerifiedVerdictForward writes the     *)
(* evidence again for the new head.                                        *)
carryVerifiedVerdictForward ==
    /\ gate' = [c \in Acs |-> IF c \in checked THEN "green" ELSE "none"]
    /\ blame' = [c \in Acs |-> "none"]
    /\ ahead' = FALSE /\ reviewed' = FALSE
    /\ UNCHANGED suite

Docs ==
    /\ Executes("docs")
    /\ \/ carryVerifiedVerdictForward /\ UNCHANGED upset
       \/ Recorded(ahead) /\ upset' = (upset \/ ahead)
    /\ done' = done \cup {"docs"}
    /\ Running
    /\ UNCHANGED <<stage, units, delivered, checks, attempts, needsDocs, review, unseen, foreign>>

(* The process ends between the dispatch row and the carry.                *)
DocsCutOff ==
    /\ Executes("docs")
    /\ Recorded(TRUE) /\ upset' = TRUE
    /\ proc' = "down"
    /\ UNCHANGED <<stage, status, units, delivered, checks, done, attempts, needsDocs, review, runs,
                   moves, unseen, foreign>>

----------------------------------------------------------------------------
(* Leaving the implement stage, or giving up.                              *)

AdvanceToReview ==
    /\ Serves("advance")
    /\ stage' = "review"
    /\ Running
    /\ UNCHANGED <<units, delivered, checks, evidence, done, attempts, needsDocs, review, ahead,
                   observers>>

(* The two conditions the resolver itself escalates on: a head that no     *)
(* step can move, and a floor that does not hold.                          *)
ResolverEscalates ==
    /\ Serves("stuck") \/ Serves("floor")
    /\ Escalated
    /\ UNCHANGED <<stage, units, delivered, checks, evidence, done, attempts, needsDocs, review, ahead,
                   observers>>

(* The resolver asks for a step that has succeeded: advanceOneStep does    *)
(* not replay it but escalates.                                            *)
ReplayEscalates ==
    /\ \E s \in Steps : Serves(s) /\ s \in done
    /\ Escalated
    /\ UNCHANGED <<stage, units, delivered, checks, evidence, done, attempts, needsDocs, review, ahead,
                   observers>>

(* A step that throws until its attempts are used up, or at once, when no  *)
(* retry can help.  The gate's attempt counts its rounds, failed or not.   *)
GiveUp ==
    /\ Ready
    /\ \/ stage \in {"design", "merge"}
       \/ stage = "review" /\ "review" \notin done
       \/ Serves("unit") \/ \E s \in Steps : Executes(s)
    /\ gateTries' = IF Serves("gate") THEN Counted(gateTries) ELSE gateTries
    /\ Escalated
    /\ UNCHANGED <<stage, units, delivered, checks, evidence, done, reauthorTries, suiteTries, needsDocs,
                   review, ahead, observers>>

----------------------------------------------------------------------------
(* review, and applyReviewVerdict on the findings that need a resolution:  *)
(* nothing blocks, or it escalates, or it loops back.                      *)

isRepeatedReviewLoopback(found) == found = lastLoop

Refuse(found, succeeded) ==
    /\ found # Clear
    /\ \/ repairs >= RepairLimit
       \/ isRepeatedReviewLoopback(found)
       \/ found.plan /\ "escalate" \in OnPlanDefect
    /\ status' = "waiting" /\ proc' = "down"
    /\ done' = succeeded
    /\ UNCHANGED <<stage, units, delivered, gateTries, lastLoop, repairs>>

Repair(found) ==
    /\ found # Clear /\ repairs < RepairLimit /\ ~isRepeatedReviewLoopback(found)
    /\ status' = "active" /\ proc' = "up"

Redesign(found) ==
    /\ Repair(found) /\ found.plan /\ "redesign" \in OnPlanDefect
    /\ redesignLoopback(found)

Recode(found) ==
    /\ Repair(found) /\ ~found.plan
    /\ codeLoopback(found.units, found)

Review ==
    /\ Ready /\ stage = "review" /\ "review" \notin done
    /\ gate' = IF ahead THEN [c \in Acs |-> "none"] ELSE gate
    /\ blame' = IF ahead THEN [c \in Acs |-> "none"] ELSE blame
    /\ suite' = IF ahead THEN "none" ELSE suite
    /\ ahead' = FALSE /\ reviewed' = TRUE
    /\ upset' = (upset \/ ahead)
    /\ open' \in Shapes \cup {Clear}
    /\ \/ /\ open' = Clear
          /\ done' = done \cup {"review"}
          /\ UNCHANGED <<stage, status, units, delivered, gateTries, lastLoop, repairs, proc>>
       \/ Refuse(open', done \cup {"review"})
       \/ Redesign(open')
       \/ Recode(open')
    /\ UNCHANGED <<checks, reauthorTries, suiteTries, needsDocs, runs, moves, unseen, foreign>>

(* unresolvedReviewReason: a verdict that leaves findings open leaves the  *)
(* stage or escalates in its own transaction, so the resolver's escalation *)
(* on them does not occur.                                                 *)
AdvanceToMerge ==
    /\ Ready /\ stage = "review" /\ "review" \in done /\ open = Clear
    /\ stage' = "merge"
    /\ Running
    /\ UNCHANGED <<units, delivered, checks, evidence, done, attempts, needsDocs, review, ahead,
                   observers>>

(* merge:push, merge:pr-ensure, and the wait for the merge (see Delivery). *)
Merge ==
    /\ Ready /\ stage = "merge"
    /\ status' = "approval" /\ proc' = "down"
    /\ UNCHANGED <<stage, units, delivered, checks, evidence, done, attempts, needsDocs, review, ahead,
                   runs, moves, observers>>

----------------------------------------------------------------------------
(* Stops, crashes and parks between the effects of steps, and resumes.     *)

Stop ==
    /\ proc = "up" /\ proc' = "down"
    /\ UNCHANGED <<stage, status, units, delivered, checks, evidence, done, attempts, needsDocs, review,
                   ahead, runs, moves, observers>>

Resumes ==
    /\ proc = "down" /\ status # "approval" /\ runs < MaxRuns
    /\ runs' = runs + 1

ReviewIsOpen == stage = "review" /\ "review" \in done /\ open # Clear

(* The branch head is the recorded one, or was accepted before.  A review  *)
(* that was refused gets its verdict again, if the limit allows; the knob  *)
(* alone can have changed, so it is not sent back to coding.               *)
Resume ==
    /\ Resumes /\ UNCHANGED moves
    /\ \/ /\ ~ReviewIsOpen
          /\ status' = "active" /\ proc' = "up"
          /\ UNCHANGED <<stage, units, delivered, done, gateTries, lastLoop, repairs>>
       \/ ReviewIsOpen /\ repairs < RepairLimit /\ Refuse(open, done)
       \/ ReviewIsOpen /\ Redesign(open)
    /\ UNCHANGED <<checks, evidence, reauthorTries, suiteTries, needsDocs, open, ahead, observers>>

(* --review-action accept-risk defers the findings of the reviewed head.   *)
AcceptRisk ==
    /\ Resumes /\ ReviewIsOpen /\ ~open.plan
    /\ open' = Clear
    /\ status' = "active" /\ proc' = "up" /\ UNCHANGED moves
    /\ UNCHANGED <<stage, units, delivered, checks, evidence, done, attempts, needsDocs, lastLoop,
                   repairs, ahead, observers>>

(* --accept-head, after the operator committed to the branch: out of       *)
(* review and merge it is a loopback, elsewhere only an event.  Accepted   *)
(* risks it reopens are open again before the next review, which judges    *)
(* them.                                                                   *)
AcceptHead ==
    /\ Resumes
    /\ moves < MaxMoves /\ moves' = moves + 1
    /\ ahead' = TRUE /\ unseen' = TRUE /\ foreign' = TRUE /\ reviewed' = FALSE
    /\ status' = "active" /\ proc' = "up"
    /\ \/ stage \in {"review", "merge"} /\ codeLoopback({}, Origin("operator"))
       \/ stage \in {"design", "implement"}
          /\ UNCHANGED <<stage, units, delivered, done, gateTries, lastLoop, repairs>>
    /\ UNCHANGED <<checks, evidence, reauthorTries, suiteTries, needsDocs, open, upset>>

----------------------------------------------------------------------------
Run ==
    \/ PlanLoop \/ Plan
    \/ Dispatch \/ Verify \/ UnderDelivered
    \/ Gate \/ Arbitrate \/ ArbitrateMovesHead
    \/ ReauthorNothing \/ Reauthor \/ ReauthorFails
    \/ Integration \/ IntegrationThrows \/ Docs \/ DocsCutOff
    \/ AdvanceToReview \/ ResolverEscalates \/ ReplayEscalates \/ GiveUp
    \/ Review \/ AdvanceToMerge \/ Merge

Next == Run \/ Stop \/ Resume \/ AcceptRisk \/ AcceptHead

(* The driver calls advanceOneStep until the ticket waits; each dispatch   *)
(* and each command has a timeout.                                         *)
Spec == Init /\ [][Next]_vars /\ WF_vars(Run)

----------------------------------------------------------------------------
(* The resolver asks for a step whose effects are journaled only if the    *)
(* recorded head was moved under a succeeded gate by a step that did not   *)
(* finish its work, or by the operator, or if the rounds of the gate are   *)
(* used up: every loopback re-arms what the next head will need again      *)
(* (resetTicketVerifySteps, "replays a stale gate pass at the new HEAD").  *)
ReplayIsExplained ==
    \A s \in Steps : Serves(s) /\ s \in done =>
        \/ s \in {"gate", "integration"} /\ upset
        \/ s = "gate" /\ (gateRoundExceeded(gateTries) \/ reauthorRoundExceeded(reauthorTries))

(* A ticket leaves the implement stage with every active check green, and  *)
(* the evidence floor met, at the head that is reviewed and merged; except *)
(* for commits the operator made while the ticket was in implement (see    *)
(* CodeIsGated).                                                           *)
ShippedIsGated ==
    stage \in {"review", "merge"} /\ ~foreign => GatePassed /\ evidenceFloor

(* No code reaches the merge stage that the last review has not seen,      *)
(* whatever loopbacks, resumes and accepted heads came between.            *)
MergedIsReviewed == stage = "merge" => reviewed /\ open = Clear

(* A run ends by itself: every loop it can take spends a bounded budget    *)
(* (rounds of the gate, repairs, attempts), though several of these are    *)
(* given back by other loops.                                              *)
RunEnds == (proc = "up") ~> (proc = "down")

(* The stages as the loop promises them (module Stages): the code at hand  *)
(* is vouched for by the evidence at the recorded head, or is an operator's *)
(* that no coding dispatch has taken up.                                   *)
vouchedFor == foreign \/ (GatePassed /\ evidenceFloor)
StageView == INSTANCE Stages WITH
    running <- proc = "up",
    owed <- ~allUnitsVerified,
    vouched <- vouchedFor,
    approved <- reviewed /\ open = Clear

(* Every step of the loop is one of the stages' steps or changes nothing   *)
(* they speak of: no stage is skipped, no way back is free or leaves the   *)
(* work undone, nothing but a review approves, and no approval or evidence *)
(* outlives the code it was given for.                                     *)
StageContract == StageView!Spec

(* The review's guard is that the AC gate ran at the head                  *)
(* (docs/architecture/control-loop.md), and a changed head accepted with   *)
(* --accept-head re-enters verification (docs/architecture/                *)
(* review-repair.md): the gate has run on the code that is reviewed.       *)
CodeIsGated == stage \in {"review", "merge"} /\ checked # {} => ~unseen

(* "Crash anywhere resumes from the journal" (docs/architecture/           *)
(* control-loop.md): a process that resumes is not sent to a step it can   *)
(* only replay.  Stated without checks, where nothing but docs:revise      *)
(* moves the head after integration.                                       *)
CrashResumes == checked = {} => \A s \in Steps : Serves(s) => s \notin done
=============================================================================
