------------------------------ MODULE Delivery ------------------------------
(***************************************************************************)
(* The projection outbox and the merge gate: the rows that the stage       *)
(* changes, merge:push and merge:pr-ensure enqueue, drainOutbox that sends *)
(* them to the tracker and the forge, driveToTerminal that must not claim  *)
(* `pr-ready` before they arrived, and the resume that re-arms them.       *)
(*                                                                         *)
(* A branch head is a number, 0 for none.  The stages before review are    *)
(* one stage, "implement", whose steps are one dispatch and one            *)
(* verification.  Of the two tracker rows of a stage change (set_state and *)
(* set_labels, enqueued together and drained alike) one is modelled.       *)
(* Notifications, which never pause a run, are left out; so is an          *)
(* unresolved review, whose guards only make a step or a row fail, which   *)
(* the model lets them do at any time.                                     *)
(*                                                                         *)
(* The forge and the tracker are external: a request may be carried out    *)
(* and answered, refused, or carried out and its answer lost.  What the    *)
(* tracker shows is left out; the rows say what it was told.               *)
(***************************************************************************)
EXTENDS Integers, Sequences, FiniteSets

CONSTANTS
    Required,   \* does the ticket declare required test suites?
    Budget,     \* OUTBOX_RETRY_BUDGET
    IdleCap,    \* IDLE_CAP
    MaxHeads,   \* bounds of the model: branch heads,
    MaxRows,    \* outbox rows,
    MaxRuns,    \* processes,
    MaxMoves,   \* moves of the branch by the operator
    MaxFaults   \* and requests that fail

ASSUME DeliveryAssumption ==
    /\ Required \in BOOLEAN
    /\ Budget \in Nat \ {0} /\ IdleCap \in Nat \ {0}
    /\ MaxHeads \in Nat /\ MaxRows \in Nat /\ MaxRuns \in Nat \ {0} /\ MaxMoves \in Nat
    /\ MaxFaults \in Nat

VARIABLES
    (* the run database *)
    stage, status,  \* of the ticket
    resume,         \* is a human_resume signal pending?
    approval,       \* is human_merge_approval pending?
    prResult,       \* was external_pr_result recorded?
    recorded,       \* branch_head_sha of the latest dispatch
    baseline,       \* headBaseline: recorded, or the head accepted since
    passed,         \* heads with a passing integration signal
    work,           \* the implement stage: todo, coded, verified
    reviewed, pushed, requested,  \* did review, merge:push, merge:pr-ensure succeed?
    outbox,         \* projection_outbox; a row's index is its id
    (* git and the forge *)
    head, heads,    \* where the ticket branch is; heads used so far
    remote, pr,     \* the remote branch; is there a pull request?
    overtaken,      \* history: was a push carried out after a later row's?
    (* the process *)
    proc, pc,
    todo,           \* ids left of the drain's listPending
    why,            \* who called the drain: tick, gate, finish
    tries, idle, advanced,
    outcome,
    runs, moves, faults

ticket == <<stage, status, resume, approval, prResult>>
evidence == <<recorded, baseline, passed, head, heads>>
steps == <<work, reviewed, pushed, requested>>
world == <<remote, pr, overtaken>>
loop == <<tries, idle, advanced, outcome>>
bounds == <<runs, moves, faults>>
vars == <<stage, status, resume, approval, prResult, recorded, baseline, passed, work, reviewed,
          pushed, requested, outbox, head, heads, remote, pr, overtaken, proc, pc, todo, why,
          tries, idle, advanced, outcome, runs, moves, faults>>

Stages == {"implement", "review", "merge"}
Heads == 0..MaxHeads
Forge == {"push", "pr_create"}
Row == [op : Forge, arg : Heads, status : {"pending", "sent", "failed", "gone"}, attempts : 0..(Budget - 1)]
       \cup [op : {"set_state"}, arg : Stages, status : {"pending", "sent", "failed"},
             attempts : 0..(Budget - 1)]

TypeOK ==
    /\ stage \in Stages /\ status \in {"active", "waiting"}
    /\ resume \in BOOLEAN /\ approval \in BOOLEAN /\ prResult \in BOOLEAN
    /\ recorded \in Heads /\ baseline \in Heads /\ passed \in SUBSET Heads
    /\ work \in {"todo", "coded", "verified"}
    /\ reviewed \in BOOLEAN /\ pushed \in BOOLEAN /\ requested \in BOOLEAN
    /\ outbox \in Seq(Row) /\ Len(outbox) <= MaxRows
    /\ head \in Heads /\ heads \in Heads
    /\ remote \in Heads /\ pr \in BOOLEAN /\ overtaken \in BOOLEAN
    /\ proc \in {"up", "down"}
    /\ pc \in {"tick", "drain", "applied", "failed", "gate"}
    /\ todo \in SUBSET (1..MaxRows)
    /\ why \in {"tick", "gate", "finish"}
    /\ tries \in 0..Budget /\ idle \in 0..IdleCap /\ advanced \in BOOLEAN
    /\ outcome \in {"none", "pr-ready", "paused"}
    /\ runs \in 1..MaxRuns /\ moves \in 0..MaxMoves /\ faults \in 0..MaxFaults

Init ==
    /\ stage = "implement" /\ status = "active"
    /\ resume = FALSE /\ approval = FALSE /\ prResult = FALSE
    /\ recorded = 0 /\ baseline = 0 /\ passed = {}
    /\ work = "todo" /\ reviewed = FALSE /\ pushed = FALSE /\ requested = FALSE
    /\ outbox = <<>>
    /\ head = 0 /\ heads = 0
    /\ remote = 0 /\ pr = FALSE /\ overtaken = FALSE
    /\ proc = "up" /\ pc = "tick" /\ todo = {} /\ why = "tick"
    /\ tries = 0 /\ idle = 0 /\ advanced = FALSE /\ outcome = "none"
    /\ runs = 1 /\ moves = 0 /\ faults = 0

----------------------------------------------------------------------------
(* The outbox.                                                             *)

NewRow(op, arg) == [op |-> op, arg |-> arg, status |-> "pending", attempts |-> 0]
Rows(op) == {i \in DOMAIN outbox : outbox[i].op = op /\ outbox[i].status # "gone"}
Least(S) == CHOOSE i \in S : \A j \in S : i <= j
Greatest(S) == CHOOSE i \in S : \A j \in S : j <= i
listPending(box) == {i \in DOMAIN box : box[i].status = "pending"}

(* enqueueStageProjection: its key carries the epoch of the stage change,  *)
(* so it is always new.                                                    *)
enqueueStageProjection(to) == Append(outbox, NewRow("set_state", to))

(* The key of a push is its sha: enqueued once, whatever became of it.     *)
enqueuePush(sha) ==
    IF \E i \in Rows("push") : outbox[i].arg = sha THEN outbox ELSE Append(outbox, NewRow("push", sha))

(* The key of a PR request is its branch: enqueueReplacingFailed.          *)
enqueuePrCreate(sha) ==
    LET failed == {i \in Rows("pr_create") : outbox[i].status = "failed"}
        box == [i \in DOMAIN outbox |->
                   IF i \in failed THEN [outbox[i] EXCEPT !.status = "gone"] ELSE outbox[i]]
    IN  IF Rows("pr_create") \subseteq failed THEN Append(box, NewRow("pr_create", sha)) ELSE outbox

requeueFailedForge(box) ==
    [i \in DOMAIN box |->
        IF box[i].op \in Forge /\ box[i].status = "failed" /\ box[i].arg = head
        THEN [box[i] EXCEPT !.status = "pending", !.attempts = 0]
        ELSE box[i]]

(* drainOutbox is called with a snapshot of the pending rows.              *)
Drain(box, caller) ==
    /\ outbox' = box
    /\ todo' = listPending(box)
    /\ why' = caller
    /\ pc' = "drain"

----------------------------------------------------------------------------
(* tick: one step of a ready ticket.  v_ready_tickets excludes a ticket    *)
(* with a pending signal of any kind.                                      *)

Ready == status = "active" /\ ~resume /\ ~approval
Ticking == proc = "up" /\ pc = "tick"
Stepped == advanced' = TRUE /\ UNCHANGED <<tries, idle, outcome>>

(* Any step may escalate: the ticket waits for a human.                    *)
Escalate ==
    /\ Ticking /\ Ready
    /\ status' = "waiting" /\ resume' = TRUE
    /\ Drain(outbox, "tick") /\ Stepped
    /\ UNCHANGED <<stage, approval, prResult, evidence, steps, world, proc, bounds>>

(* An agent dispatch leaves a new commit, or none.                         *)
Committed(new) ==
    /\ head' = new /\ recorded' = new /\ baseline' = new
    /\ heads' = IF new > heads THEN new ELSE heads
NextHeads == {heads + 1} \cap Heads

ImplementDispatch ==
    /\ Ticking /\ Ready /\ stage = "implement" /\ work = "todo"
    /\ \E new \in NextHeads \cup ({head} \ {0}) : Committed(new)
    /\ work' = "coded"
    /\ Drain(outbox, "tick") /\ Stepped
    /\ UNCHANGED <<ticket, passed, reviewed, pushed, requested, world, proc, bounds>>

VerifyIntegration ==
    /\ Ticking /\ Ready /\ stage = "implement" /\ work = "coded"
    /\ passed' = passed \cup {recorded}
    /\ work' = "verified"
    /\ Drain(outbox, "tick") /\ Stepped
    /\ UNCHANGED <<ticket, recorded, baseline, head, heads, reviewed, pushed, requested, world,
                   proc, bounds>>

(* The pure transitions, one transaction each, within one advanceOneStep.  *)
(* implement -> review asserts the evidence floor.                         *)
AdvanceStage ==
    /\ Ticking /\ Ready
    /\ Len(outbox) < MaxRows
    /\ \/ stage = "implement" /\ work = "verified" /\ recorded \in passed /\ stage' = "review"
       \/ stage = "review" /\ reviewed /\ stage' = "merge"
    /\ outbox' = enqueueStageProjection(stage')
    /\ UNCHANGED <<status, resume, approval, prResult, evidence, steps, world, proc, pc, todo, why,
                   loop, bounds>>

(* codeLoopback: the units, the review and the merge steps start anew.     *)
codeLoopback ==
    /\ stage' = "implement" /\ work' = "todo"
    /\ reviewed' = FALSE /\ pushed' = FALSE /\ requested' = FALSE

(* The review is read only, but commitWorktree sweeps up tracked files     *)
(* that something else has changed.                                        *)
Review(clean) ==
    /\ Ticking /\ Ready /\ stage = "review" /\ ~reviewed
    /\ \E new \in NextHeads \cup {head} : Committed(new)
    /\ IF clean
       THEN /\ reviewed' = TRUE
            /\ Drain(outbox, "tick")
            /\ UNCHANGED <<stage, work, pushed, requested>>
       ELSE /\ Len(outbox) < MaxRows
            /\ codeLoopback
            /\ Drain(enqueueStageProjection("implement"), "tick")
    /\ Stepped
    /\ UNCHANGED <<status, resume, approval, prResult, passed, world, proc, bounds>>

(* The process is gone, and its local variables with it.                   *)
Leave ==
    /\ proc' = "down" /\ pc' = "tick" /\ todo' = {} /\ why' = "tick"
    /\ tries' = 0 /\ idle' = 0 /\ advanced' = FALSE

(* A crash or a stop signal, wherever the run is: a request that was sent  *)
(* stays sent, and its row pending.                                        *)
Die ==
    /\ proc = "up"
    /\ Leave /\ outcome' = "none"
    /\ UNCHANGED <<ticket, evidence, steps, outbox, world, bounds>>

(* A merge step enqueues in one transaction and is marked succeeded in     *)
(* the next; a process that dies between them runs the step again.         *)
MergePush ==
    /\ Ticking /\ Ready /\ stage = "merge" /\ ~pushed
    /\ \/ pushed' = TRUE /\ Drain(enqueuePush(recorded), "tick") /\ Stepped /\ UNCHANGED proc
       \/ /\ outbox' = enqueuePush(recorded)
          /\ Leave
          /\ UNCHANGED <<pushed, outcome>>
    /\ Len(outbox') <= MaxRows
    /\ UNCHANGED <<ticket, evidence, work, reviewed, requested, world, bounds>>

MergePrEnsure ==
    /\ Ticking /\ Ready /\ stage = "merge" /\ pushed /\ ~requested
    /\ \/ requested' = TRUE /\ Drain(enqueuePrCreate(recorded), "tick") /\ Stepped /\ UNCHANGED proc
       \/ /\ outbox' = enqueuePrCreate(recorded)
          /\ Leave
          /\ UNCHANGED <<requested, outcome>>
    /\ Len(outbox') <= MaxRows
    /\ UNCHANGED <<ticket, evidence, work, reviewed, pushed, world, bounds>>

(* awaitSignal(human_merge_approval); `styre run` never delivers it.       *)
AwaitApproval ==
    /\ Ticking /\ Ready /\ stage = "merge" /\ pushed /\ requested
    /\ approval' = TRUE /\ status' = "waiting"
    /\ Drain(outbox, "tick") /\ Stepped
    /\ UNCHANGED <<stage, resume, prResult, evidence, steps, world, proc, bounds>>

NothingReady ==
    /\ Ticking /\ ~Ready
    /\ Drain(outbox, "tick")
    /\ advanced' = FALSE
    /\ UNCHANGED <<ticket, evidence, steps, world, proc, tries, idle, outcome, bounds>>

----------------------------------------------------------------------------
(* drainOutbox, row by row in the order of their ids.                      *)

Draining == proc = "up" /\ pc = "drain" /\ todo # {}
Now == Least(todo)

Blocked_NoGuard(r) == FALSE

(* The guards of applyRow on a forge row: with required suites, the head   *)
(* must have passed them, the row must be for that head, and a PR request  *)
(* needs the latest sent push to be of it.                                 *)
Blocked(r) ==
    LET row == outbox[r]
        sent == {i \in Rows("push") : outbox[i].status = "sent"}
    IN  /\ Required /\ row.op \in Forge
        /\ \/ recorded \notin passed
           \/ row.arg # recorded
           \/ row.op = "pr_create" /\ (sent = {} \/ outbox[Greatest(sent)].arg # recorded)

(* The very commit of the row is pushed, whatever the local branch is at;  *)
(* the lease is on the remote head that was just probed.                   *)
pushBranch(sha) == remote' = sha

(* A push is late when a row with a larger id was sent before it.          *)
Late(r) == outbox[r].op = "push" /\ \E i \in Rows("push") : i > r /\ outbox[i].status = "sent"

(* What the forge does: a PR request reuses an open one.                   *)
Carry(r) ==
    /\ IF outbox[r].op = "push" THEN pushBranch(outbox[r].arg) ELSE UNCHANGED remote
    /\ pr' = (pr \/ outbox[r].op = "pr_create")
    /\ overtaken' = (overtaken \/ Late(r))

(* A pull request needs a remote branch.                                   *)
Possible(r) == ~Blocked(r) /\ (outbox[r].op = "pr_create" => remote # 0)

Apply ==
    /\ Draining
    /\ Possible(Now) /\ Carry(Now)
    /\ pc' = "applied"
    /\ UNCHANGED <<ticket, evidence, steps, outbox, proc, todo, why, loop, bounds>>

(* ensurePr's answer is kept under a key of the ticket, once ...           *)
RecordPrResult ==
    /\ proc = "up" /\ pc = "applied"
    /\ outbox[Now].op = "pr_create" /\ ~prResult
    /\ prResult' = TRUE
    /\ UNCHANGED <<stage, status, resume, approval, evidence, steps, outbox, world, proc, pc, todo,
                   why, loop, bounds>>

(* ... and the row is marked in a transaction of its own.                  *)
MarkSent ==
    /\ proc = "up" /\ pc = "applied"
    /\ outbox[Now].op = "pr_create" => prResult
    /\ outbox' = [outbox EXCEPT ![Now].status = "sent"]
    /\ todo' = todo \ {Now}
    /\ pc' = "drain"
    /\ UNCHANGED <<ticket, evidence, steps, world, proc, why, loop, bounds>>

(* The retry budget is used up.                                            *)
GivesUp(r) == outbox[r].attempts + 1 >= Budget

(* applyRow threw.  A 422 of the forge is permanent; landed: the request   *)
(* was carried out and only its answer was lost.                           *)
Throws(permanent, landed) ==
    /\ Draining
    /\ faults < MaxFaults \/ ~Possible(Now)
    /\ faults' = IF faults < MaxFaults THEN faults + 1 ELSE faults
    /\ permanent => outbox[Now].op \in Forge /\ ~Blocked(Now)
    /\ IF landed THEN ~permanent /\ Possible(Now) /\ Carry(Now) ELSE UNCHANGED world
    /\ IF permanent \/ GivesUp(Now)
       THEN /\ outbox' = [outbox EXCEPT ![Now].status = "failed"]
            /\ pc' = "failed"
            /\ UNCHANGED todo
       ELSE /\ outbox' = [outbox EXCEPT ![Now].attempts = @ + 1]
            /\ todo' = todo \ {Now}
            /\ UNCHANGED pc
    /\ UNCHANGED <<ticket, evidence, steps, proc, why, loop, runs, moves>>

(* A transaction after markFailed.                                         *)
EscalateProjection ==
    /\ proc = "up" /\ pc = "failed"
    /\ status' = "waiting" /\ resume' = TRUE
    /\ todo' = todo \ {Now}
    /\ pc' = "drain"
    /\ UNCHANGED <<stage, approval, prResult, evidence, steps, outbox, world, proc, why, loop, bounds>>

----------------------------------------------------------------------------
(* driveToTerminal, after the tick's drain.                                *)

Drained(caller) == proc = "up" /\ pc = "drain" /\ todo = {} /\ why = caller
AtGate == stage = "merge" /\ approval

(* finish drains once more before the run returns its outcome.             *)
Finish(result) ==
    /\ Drain(outbox, "finish")
    /\ outcome' = result

(* pauseTicket.                                                            *)
Pause == status' = "waiting" /\ resume' = TRUE

NeedsYou ==
    /\ Drained("tick") /\ resume
    /\ Finish("paused")
    /\ UNCHANGED <<ticket, evidence, steps, world, proc, tries, idle, advanced, bounds>>

ReachGate ==
    /\ Drained("tick") /\ ~resume /\ AtGate
    /\ pc' = "gate"
    /\ UNCHANGED <<ticket, evidence, steps, outbox, world, proc, todo, why, loop, bounds>>

NextTick ==
    /\ Drained("tick") /\ ~resume /\ ~AtGate
    /\ advanced \/ idle + 1 < IdleCap
    /\ idle' = IF advanced THEN 0 ELSE idle + 1
    /\ pc' = "tick" /\ advanced' = FALSE
    /\ UNCHANGED <<ticket, evidence, steps, outbox, world, proc, todo, why, tries, outcome, bounds>>

(* The idle stall, or the iteration cap (DEFAULT_CAP ticks, which the      *)
(* model lets run out at any tick).                                        *)
Stalled ==
    /\ Drained("tick") /\ ~resume /\ ~AtGate
    /\ Pause /\ Finish("paused")
    /\ UNCHANGED <<stage, approval, prResult, evidence, steps, world, proc, tries, idle, advanced,
                   bounds>>

(* forgeRow: the latest row of an operation.                               *)
forgeRow(op, s) == Rows(op) # {} /\ outbox[Greatest(Rows(op))].status = s

Undelivered_PrAlone == ~prResult

(* undeliveredReason.                                                      *)
Undelivered ==
    \/ ~prResult
    \/ /\ Rows("push") # {}
       /\ ~forgeRow("push", "sent") \/ outbox[Greatest(Rows("push"))].arg # recorded

InGate == proc = "up" /\ (pc = "gate" \/ Drained("gate"))
MoreTries == tries < Budget /\ (forgeRow("pr_create", "pending") \/ forgeRow("push", "pending"))

GateDrain ==
    /\ InGate /\ MoreTries
    /\ tries' = tries + 1
    /\ Drain(outbox, "gate")
    /\ UNCHANGED <<ticket, evidence, steps, world, proc, idle, advanced, outcome, bounds>>

GatePause_OnlyQuiet ==
    /\ InGate /\ ~MoreTries /\ Undelivered /\ ~resume
    /\ Pause /\ Finish("paused")
    /\ UNCHANGED <<stage, approval, prResult, evidence, steps, world, proc, tries, idle, advanced,
                   bounds>>

GatePause ==
    /\ InGate /\ ~MoreTries /\ Undelivered
    /\ IF resume THEN UNCHANGED <<status, resume>> ELSE Pause
    /\ Finish("paused")
    /\ UNCHANGED <<stage, approval, prResult, evidence, steps, world, proc, tries, idle, advanced,
                   bounds>>

PrReady ==
    /\ InGate /\ ~MoreTries /\ ~Undelivered
    /\ Finish("pr-ready")
    /\ UNCHANGED <<ticket, evidence, steps, world, proc, tries, idle, advanced, bounds>>

Return ==
    /\ Drained("finish")
    /\ Leave
    /\ UNCHANGED <<ticket, evidence, steps, outbox, world, outcome, bounds>>

----------------------------------------------------------------------------
(* Between two runs.                                                       *)

(* The operator commits on the branch, or resets it to an earlier head.    *)
HumanMoves ==
    /\ proc = "down" /\ head # 0
    /\ moves < MaxMoves
    /\ \E new \in (1..heads) \cup NextHeads :
        /\ head' = new
        /\ heads' = IF new > heads THEN new ELSE heads
    /\ moves' = moves + 1
    /\ UNCHANGED <<ticket, recorded, baseline, passed, steps, outbox, world, proc, pc, todo, why,
                   loop, runs, faults>>

(* styre run --resume, with --accept-head or not: planReviewResume sends a *)
(* moved head back through implement, and refuses while a push or a PR     *)
(* request is pending.  Only human_resume signals are consumed.            *)
Resume(acceptHead) ==
    LET moved == baseline # 0 /\ baseline # head
        reroute == moved /\ stage \in {"review", "merge"}
        open == {i \in Rows("push") \cup Rows("pr_create") : outbox[i].status = "pending"}
    IN  /\ proc = "down" /\ runs < MaxRuns
        /\ moved => acceptHead
        /\ reroute => open = {} /\ Len(outbox) < MaxRows
        /\ runs' = runs + 1
        /\ proc' = "up" /\ pc' = "tick"
        /\ status' = "active" /\ resume' = FALSE
        /\ baseline' = IF moved THEN head ELSE baseline
        /\ outbox' = requeueFailedForge(IF reroute THEN enqueueStageProjection("implement") ELSE outbox)
        /\ IF reroute THEN codeLoopback ELSE UNCHANGED <<stage, steps>>
        /\ outcome' = "none"
        /\ UNCHANGED <<approval, prResult, recorded, passed, head, heads, world, todo, why, tries, idle,
                       advanced, moves, faults>>

----------------------------------------------------------------------------
Tick ==
    \/ Escalate \/ ImplementDispatch \/ VerifyIntegration \/ AdvanceStage
    \/ \E clean \in BOOLEAN : Review(clean)
    \/ MergePush \/ MergePrEnsure \/ AwaitApproval \/ NothingReady
DrainRow ==
    \/ Apply \/ RecordPrResult \/ MarkSent
    \/ \E permanent, landed \in BOOLEAN : Throws(permanent, landed)
    \/ EscalateProjection
Drive == NeedsYou \/ ReachGate \/ NextTick \/ Stalled \/ GateDrain \/ GatePause \/ PrReady \/ Return
Run == Tick \/ DrainRow \/ Drive

Next ==
    \/ Run \/ Die
    \/ HumanMoves
    \/ \E acceptHead \in BOOLEAN : Resume(acceptHead)

(* The run goes on while it is up: every request has a timeout or an       *)
(* answer, and nothing else is waited for.                                 *)
Spec == Init /\ [][Next]_vars /\ WF_vars(Run)

----------------------------------------------------------------------------
(* Properties.                                                             *)

(* `pr-ready` is true: there is a pull request and the remote branch is at *)
(* the head of the latest dispatch, until the run has returned, unless the *)
(* push of a head that was left and taken up again was re-armed, and has   *)
(* put the remote back behind a later row's.  undeliveredReason judges by  *)
(* the row with the largest id, so it does not see that one:               *)
(* PrReadyAlways, what run-ticket.ts says of pr-ready, is false.           *)
PrReadyShowsHead ==
    proc = "up" /\ outcome = "pr-ready" /\ ~overtaken => pr /\ remote = recorded

PrReadyAlways == proc = "up" /\ outcome = "pr-ready" => pr /\ remote = recorded

(* With required suites nothing is published that did not pass them,       *)
(* whatever moved the branch between verification, review and push.        *)
PublishedIsVerified == Required /\ remote # 0 => remote \in passed

(* A paused run can be resumed: the ticket waits, with a human_resume      *)
(* signal that says why.                                                   *)
PausedIsResumable == outcome = "paused" => status = "waiting" /\ resume

(* A succeeded merge:push has a row for the very head the ticket is at: a  *)
(* loopback out of merge never leaves the journal saying that a head was   *)
(* pushed which has no row.                                                *)
PushIsJournaled == pushed => \E i \in Rows("push") : outbox[i].arg = recorded

(* At the merge gate a run comes to an answer, however often the forge     *)
(* fails.                                                                  *)
GateAnswers == pc = "gate" ~> proc = "down"

(* What resetMergeSteps says a loopback out of merge does: the new head is *)
(* pushed, so a resumed ticket that is out of merge can advance.           *)
LoopbackRuns == proc = "up" /\ status = "active" /\ ~resume /\ stage # "merge" => Ready
=============================================================================
