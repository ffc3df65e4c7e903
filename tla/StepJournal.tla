---------------------------- MODULE StepJournal ----------------------------
(***************************************************************************)
(* The durable step executor of one ticket: the rows of workflow_step, the *)
(* process that runs them one at a time (runStep under advanceOneStep), the*)
(* stop handler that interrupts it, crashes, and the operator's --resume,  *)
(* which grants retry windows and then recovers what was left running.     *)
(*                                                                         *)
(* The resolver's choice of the next step is abstracted to "any step": the *)
(* module ControlLoop models it.  What a step does is abstracted to how it *)
(* ends (returns, throws, parks).  Verdicts and loopbacks are abstracted   *)
(* to the set of rows they reopen.                                         *)
(*                                                                         *)
(* Granularity.  JavaScript runs one callback at a time, so a stop signal  *)
(* is handled only where the run code awaits: while a step executes, or    *)
(* between two calls of advanceOneStep.  A crash (kill -9, power) can come *)
(* between any two SQL transactions.                                       *)
(***************************************************************************)
EXTENDS Integers, FiniteSets

CONSTANTS
    Steps,        \* the step keys of the ticket
    SuiteSteps,   \* those isSuiteStep names: unit checks, verify:integration
    NoStep,       \* no step in flight
    MaxAttempts,  \* DEFAULT_MAX_ATTEMPTS
    MaxStarts     \* bound of the model: starts of steps in one behaviour

ASSUME StepsAssumption == SuiteSteps \subseteq Steps /\ NoStep \notin Steps
ASSUME BoundsAssumption == MaxAttempts \in Nat \ {0} /\ MaxStarts \in Nat

VARIABLES
    row,     \* [Steps -> Row]: the table workflow_step
    notes,   \* the event_log's `interrupted` notes
    clock,   \* how many times a step was started; a start's number is its started_at
    proc,    \* the process: down, recovering, up, stopping (the handler runs), stopped
    phase,   \* where the run code stands
    cur,     \* the step it is on
    door,    \* the door's in-flight step: [step, start]
    seen,    \* the handler's copy of `door`, read when the signal came
    (* observers, not program state *)
    spent,   \* [Steps -> Nat]: starts since the last zeroing that count as an attempt
    fails,   \* [Steps -> Nat]: failures recorded since the last grant: a resetAttempt
             \* of this row by a verdict, or the operator's latest --resume
    refund   \* [Steps -> {"no","stop","park"}]: who gave the latest start back

disk == <<row, notes, clock>>
memory == <<proc, phase, cur, door, seen>>
observers == <<spent, fails, refund>>
vars == <<row, notes, clock, proc, phase, cur, door, seen, spent, fails, refund>>

Status == {"absent", "pending", "running", "succeeded", "failed"}
Errors == {"none", "execution", "other"}
Row == [status : Status, attempt : Nat, start : Nat, error : Errors]
InFlight == [step : Steps \cup {NoStep}, start : Nat]
Nobody == [step |-> NoStep, start |-> 0]
Note == [step : Steps, attempt : Nat, start : Nat]

TypeOK ==
    /\ row \in [Steps -> Row]
    /\ notes \in SUBSET Note
    /\ clock \in Nat
    /\ proc \in {"down", "recovering", "up", "stopping", "stopped"}
    /\ phase \in {"idle", "inserted", "executing", "failed", "parking", "ended", "marked"}
    /\ cur \in Steps \cup {NoStep}
    /\ door \in InFlight
    /\ seen \in InFlight
    /\ spent \in [Steps -> Nat]
    /\ fails \in [Steps -> Nat]
    /\ refund \in [Steps -> {"no", "stop", "park"}]

Init ==
    /\ row = [s \in Steps |-> [status |-> "absent", attempt |-> 0, start |-> 0, error |-> "none"]]
    /\ notes = {}
    /\ clock = 0
    /\ proc = "up"
    /\ phase = "idle"
    /\ cur = NoStep
    /\ door = Nobody
    /\ seen = Nobody
    /\ spent = [s \in Steps |-> 0]
    /\ fails = [s \in Steps |-> 0]
    /\ refund = [s \in Steps |-> "no"]

----------------------------------------------------------------------------
(* The statements of workflow-step.ts, as functions from row to row.       *)

Exists(s) == row[s].status # "absent"

insertPending == [status |-> "pending", attempt |-> 0, start |-> 0, error |-> "none"]
markRunning(r, now) ==
    [status |-> "running", attempt |-> r.attempt + 1, start |-> now, error |-> r.error]
markSucceeded(r) ==
    [status |-> "succeeded", attempt |-> r.attempt, start |-> r.start, error |-> "none"]
markFailed(r, e) ==
    [status |-> "failed", attempt |-> r.attempt, start |-> r.start, error |-> e]
resetToPending(r) ==
    [status |-> "pending", attempt |-> r.attempt, start |-> r.start, error |-> r.error]
decrementAttempt_ToZero(r) ==
    [status |-> r.status, attempt |-> 0, start |-> r.start, error |-> r.error]
decrementAttempt(r) ==
    [status |-> r.status, attempt |-> r.attempt - 1, start |-> r.start, error |-> r.error]
resetAttempt(r) ==
    [status |-> r.status, attempt |-> 0, start |-> r.start, error |-> r.error]

(* resetToPending on the rows of R, resetAttempt on those of Z.            *)
Reopened(rows, R, Z) ==
    LET Pend(s) == IF s \in R THEN resetToPending(rows[s]) ELSE rows[s]
    IN  [s \in Steps |-> IF s \in Z THEN resetAttempt(Pend(s)) ELSE Pend(s)]

Zeroed(f, Z) == [s \in Steps |-> IF s \in Z THEN 0 ELSE f[s]]

----------------------------------------------------------------------------
(* Starting a step: insertPending, then markRunning with the door's entry. *)

Insert(s) ==
    /\ proc = "up" /\ phase = "idle"
    /\ ~Exists(s)
    /\ row' = [row EXCEPT ![s] = insertPending]
    /\ phase' = "inserted"
    /\ cur' = s
    /\ UNCHANGED <<notes, clock, proc, door, seen, observers>>

(* runStep of a row that is pending or failed: attempt + 1 and started_at  *)
(* in one statement, then beginStep.                                       *)
MarkRunning(s) ==
    /\ proc = "up"
    /\ clock < MaxStarts
    /\ \/ phase = "inserted" /\ cur = s
       \/ phase = "idle" /\ row[s].status \in {"pending", "failed"}
    /\ clock' = clock + 1
    /\ row' = [row EXCEPT ![s] = markRunning(@, clock + 1)]
    /\ cur' = s
    /\ phase' = "executing"
    /\ door' = [step |-> s, start |-> clock + 1]
    /\ refund' = [refund EXCEPT ![s] = "no"]
    /\ UNCHANGED <<notes, proc, seen, spent, fails>>

(* The resolver asked for a step that has already succeeded: runStep       *)
(* replays its recorded result and advanceOneStep escalates.               *)
Replay(s) ==
    /\ proc = "up" /\ phase = "idle"
    /\ row[s].status = "succeeded"
    /\ phase' = "ended"
    /\ UNCHANGED <<disk, proc, cur, door, seen, observers>>

----------------------------------------------------------------------------
(* How a step ends.                                                        *)

Executing == proc = "up" /\ phase = "executing"

(* runStep's finally: endStep, once the step has ended in any way.         *)
EndStep == door' = Nobody

(* markSucceeded with the verdict's onSucceed in one transaction.  The     *)
(* verdict may reopen rows (a loopback), or escalate the ticket (esc).     *)
Succeed(R, Z, esc) ==
    /\ Executing
    /\ \A s \in R : Exists(s)
    /\ row' = Reopened([row EXCEPT ![cur] = markSucceeded(@)], R, Z)
    /\ spent' = Zeroed([spent EXCEPT ![cur] = @ + 1], Z)
    /\ fails' = Zeroed(fails, Z)
    /\ phase' = IF esc THEN "ended" ELSE "idle"
    /\ cur' = NoStep
    /\ EndStep
    /\ UNCHANGED <<notes, clock, proc, seen, refund>>

(* execute threw: markFailed journals the error.                           *)
Fail(error) ==
    /\ Executing
    /\ row' = [row EXCEPT ![cur] = markFailed(@, error)]
    /\ spent' = [spent EXCEPT ![cur] = @ + 1]
    /\ fails' = [fails EXCEPT ![cur] = @ + 1]
    /\ phase' = "failed"
    /\ EndStep
    /\ UNCHANGED <<notes, clock, proc, cur, seen, refund>>

(* execute threw ParkSignal: the row stays running and runStep unwinds ... *)
Park ==
    /\ Executing
    /\ cur \notin SuiteSteps          \* only an agent dispatch parks
    /\ phase' = "parking"
    /\ EndStep
    /\ UNCHANGED <<disk, proc, cur, seen, observers>>

(* ... to advanceOneStep, which gives the attempt back; the run then ends. *)
ParkRecord ==
    /\ proc = "up" /\ phase = "parking"
    /\ row' = [row EXCEPT ![cur] = decrementAttempt(@)]
    /\ refund' = [refund EXCEPT ![cur] = "park"]
    /\ phase' = "ended"
    /\ cur' = NoStep
    /\ UNCHANGED <<notes, clock, proc, door, seen, spent, fails>>

----------------------------------------------------------------------------
(* applyFailurePolicy on the failed row.                                   *)

Exhausted_OffByOne(s) == row[s].attempt > MaxAttempts

Exhausted(s) == row[s].attempt >= MaxAttempts

(* Exhausted, a missing prerequisite, a failed provision, a gate that      *)
(* threw, no progress: the ticket waits for a human and the row stays      *)
(* failed.  An execution fault escalates only when exhausted.              *)
PolicyEscalate ==
    /\ proc = "up" /\ phase = "failed"
    /\ Exhausted(cur) \/ row[cur].error = "other"
    /\ phase' = "ended"
    /\ cur' = NoStep
    /\ UNCHANGED <<disk, proc, door, seen, observers>>

(* An execution fault, or a fault no other route claims, is retried.       *)
PolicyRetry ==
    /\ proc = "up" /\ phase = "failed"
    /\ ~Exhausted(cur)
    /\ row' = Reopened(row, {cur}, {})
    /\ phase' = "idle"
    /\ cur' = NoStep
    /\ UNCHANGED <<notes, clock, proc, door, seen, observers>>

(* A verify or completeness failure reopens the unit's steps; integration  *)
(* also reopens the gate with a zeroed attempt (Z).                        *)
PolicyLoopback(R, Z) ==
    /\ proc = "up" /\ phase = "failed"
    /\ ~Exhausted(cur) /\ row[cur].error = "other"
    /\ cur \in R \ Z
    /\ \A s \in R : Exists(s)
    /\ row' = Reopened(row, R, Z)
    /\ spent' = Zeroed(spent, Z)
    /\ fails' = Zeroed(fails, Z)
    /\ phase' = "idle"
    /\ cur' = NoStep
    /\ UNCHANGED <<notes, clock, proc, door, seen, refund>>

----------------------------------------------------------------------------
(* The end of a process: normal, by a stop signal, by a crash.             *)

LeaveMemory ==
    /\ proc' = "down"
    /\ phase' = "idle"
    /\ cur' = NoStep
    /\ door' = Nobody
    /\ seen' = Nobody

(* driveToTerminal returned after an escalation or a park.                 *)
Exit ==
    /\ proc = "up" /\ phase = "ended"
    /\ LeaveMemory
    /\ UNCHANGED <<disk, observers>>

(* handleStopSignal steps 1 and 2: the door closes, the run's connection   *)
(* turns read only, and the handler reads the in-flight step.  From here   *)
(* the run code only unwinds: runStep turns whatever happens into          *)
(* RunInterrupted, writes nothing and leaves the door as it is.            *)
StopSignal ==
    /\ proc = "up" /\ phase \in {"idle", "executing", "ended"}
    /\ proc' = "stopping"
    /\ seen' = door
    /\ UNCHANGED <<disk, phase, cur, door, observers>>

(* recordInterruption acts only on the very start the handler saw.         *)
SameStart(s, start) == row[s].status = "running" /\ row[s].start = start

(* recordInterruption: on the step in flight, one transaction gives the    *)
(* attempt back and writes the note with the attempt after that.           *)
RecordInterruption ==
    /\ proc = "stopping"
    /\ proc' = "stopped"
    /\ IF seen.step # NoStep /\ SameStart(seen.step, seen.start)
       THEN /\ row' = [row EXCEPT ![seen.step] = decrementAttempt(@)]
            /\ notes' = notes \cup {[step |-> seen.step, attempt |-> row[seen.step].attempt - 1,
                                     start |-> seen.start]}
            /\ refund' = [refund EXCEPT ![seen.step] = "stop"]
       ELSE UNCHANGED <<row, notes, refund>>
    /\ UNCHANGED <<clock, phase, cur, door, seen, spent, fails>>

(* The step whose current start no one has accounted for yet.              *)
Undecided(s) ==
    /\ proc \in {"up", "stopping"}
    /\ phase \in {"executing", "parking"}
    /\ cur = s

CountLost == [s \in Steps |-> IF Undecided(s) THEN spent[s] + 1 ELSE spent[s]]

(* The handler re-raises its signal; its recording may have failed, or     *)
(* found no time.                                                          *)
StopExit ==
    /\ proc \in {"stopping", "stopped"}
    /\ LeaveMemory
    /\ spent' = CountLost
    /\ UNCHANGED <<disk, fails, refund>>

Crash ==
    /\ proc \in {"up", "recovering", "stopping"}
    /\ LeaveMemory
    /\ spent' = CountLost
    /\ UNCHANGED <<disk, fails, refund>>

----------------------------------------------------------------------------
(* styre run --resume.                                                     *)

ExecutionError(r) == r.error = "execution"

Granted_FailedOnly(s) ==
    s \in SuiteSteps /\ row[s].status = "failed" /\ ExecutionError(row[s])

(* resumeVerificationRetries: the suite steps the operator's resume grants *)
(* a new window.                                                           *)
Granted(s) ==
    /\ s \in SuiteSteps
    /\ \/ row[s].status = "failed" /\ ExecutionError(row[s])
       \/ row[s].status = "pending" /\ ExecutionError(row[s]) /\ Exhausted(s)
       \/ row[s].status = "running" /\ Exhausted(s)

(* The resume transaction.  A worktree-mode resume re-arms provision and a *)
(* review decision reopens what it loops back to: the rows of R, with      *)
(* zeroed attempts.                                                        *)
Resume(R) ==
    LET granted == {s \in Steps : Granted(s)}
        failed == {s \in granted : row[s].status = "failed"}
    IN  /\ proc = "down"
        /\ clock < MaxStarts
        /\ \A s \in R : Exists(s)
        /\ row' = Reopened(row, R \cup failed, R \cup granted)
        /\ spent' = Zeroed(spent, R \cup granted)
        /\ fails' = [s \in Steps |-> 0]
        /\ proc' = "recovering"
        /\ UNCHANGED <<notes, clock, phase, cur, door, seen, refund>>

Matched_AnyStart(s) ==
    \E n \in notes : n.step = s /\ n.attempt = row[s].attempt

(* findInterruption: a note for this step, this attempt and this start.    *)
Matched(s) ==
    \E n \in notes : n.step = s /\ n.attempt = row[s].attempt /\ n.start = row[s].start

(* recover: a running step whose interruption was recorded, or that is no  *)
(* suite step, returns to pending as it is ...                             *)
RecoverFree(s) ==
    /\ proc = "recovering" /\ phase = "idle"
    /\ row[s].status = "running"
    /\ Matched(s) \/ s \notin SuiteSteps
    /\ row' = Reopened(row, {s}, {})
    /\ UNCHANGED <<notes, clock, memory, observers>>

(* ... and a crashed suite step is first marked failed with a typed error. *)
RecoverMark(s) ==
    /\ proc = "recovering" /\ phase = "idle"
    /\ row[s].status = "running"
    /\ ~Matched(s) /\ s \in SuiteSteps
    /\ row' = [row EXCEPT ![s] = markFailed(@, "execution")]
    /\ phase' = "marked"
    /\ cur' = s
    /\ UNCHANGED <<notes, clock, proc, door, seen, observers>>

RecoverReset ==
    /\ proc = "recovering" /\ phase = "marked"
    /\ row' = Reopened(row, {cur}, {})
    /\ phase' = "idle"
    /\ cur' = NoStep
    /\ UNCHANGED <<notes, clock, proc, door, seen, observers>>

RecoverDone_Unmatched ==
    /\ proc = "recovering" /\ phase = "idle"
    /\ \A s \in Steps : row[s].status = "running" => Matched(s)
    /\ proc' = "up"
    /\ UNCHANGED <<disk, phase, cur, door, seen, observers>>

(* driveToTerminal starts.                                                 *)
RecoverDone ==
    /\ proc = "recovering" /\ phase = "idle"
    /\ \A s \in Steps : row[s].status # "running"
    /\ proc' = "up"
    /\ UNCHANGED <<disk, phase, cur, door, seen, observers>>

----------------------------------------------------------------------------
Start == \E s \in Steps : Insert(s) \/ MarkRunning(s) \/ Replay(s)
End == \/ \E R \in SUBSET Steps : \E Z \in SUBSET R, esc \in BOOLEAN : Succeed(R, Z, esc)
       \/ \E e \in {"execution", "other"} : Fail(e)
       \/ Park \/ ParkRecord
Policy == \/ PolicyEscalate \/ PolicyRetry
          \/ \E R \in SUBSET Steps : \E Z \in SUBSET R : PolicyLoopback(R, Z)
Leave == Exit \/ StopSignal \/ RecordInterruption \/ StopExit \/ Crash
Restart == \/ \E R \in SUBSET Steps : Resume(R)
           \/ \E s \in Steps : RecoverFree(s) \/ RecoverMark(s)
           \/ RecoverReset \/ RecoverDone

Next == Start \/ End \/ Policy \/ Leave \/ Restart

Spec == Init /\ [][Next]_vars

----------------------------------------------------------------------------
(* Properties.                                                             *)

(* The attempt counter of every row counts exactly the starts that ended   *)
(* in a success, a recorded failure or a crash: a budget park and a        *)
(* recorded stop are free, whatever interleaving of run code, signal       *)
(* handler and crash produced them (ENG-164, ENG-485 R6).                  *)
AttemptLedger ==
    \A s \in Steps : row[s].attempt = spent[s] + (IF Undecided(s) THEN 1 ELSE 0)

(* While a run is up and idle no row is left running, so runStep never     *)
(* meets StepInFlightError: recovery has already returned every step an    *)
(* earlier process left behind, the parked ones included.                  *)
NoOrphan ==
    \A s \in Steps :
        proc = "up" /\ phase # "ended" /\ row[s].status = "running" => cur = s

(* Only two things give a step its budget back: a resetAttempt of its own  *)
(* row (a review or integration loopback does that on purpose, and counts  *)
(* its own rounds elsewhere), and an operator's --resume.  Between two of  *)
(* these a step fails at most MaxAttempts times, whatever else happens: a  *)
(* success in between, being reopened by the verdicts of other steps,      *)
(* retries, parks and stops that hand the attempt back, crashes.           *)
RetryBudget == \A s \in Steps : fails[s] <= MaxAttempts

(* prepareVerificationRetry has nothing to do in a run that --resume       *)
(* started: no suite step is found failed by an execution fault, or        *)
(* pending with its attempts used up, because the resume transaction and   *)
(* recover between them leave none.                                        *)
NoStaleSuiteFailure ==
    \A s \in SuiteSteps :
        proc = "up" /\ phase = "idle" =>
            /\ ~(row[s].status = "failed" /\ ExecutionError(row[s]))
            /\ ~(row[s].status = "pending" /\ ExecutionError(row[s]) /\ Exhausted(s))

(* A running step is matched to an interruption only if the handler really *)
(* gave this very start back: a note of an earlier start or attempt never  *)
(* frees a later crash or park (section 7.5, N3).                          *)
OnlyStopsMatch ==
    \A s \in Steps : row[s].status = "running" /\ Matched(s) => refund[s] = "stop"

(* The converse, which recover.ts states: an interruption that was         *)
(* recorded is matched on resume, suite steps included.                    *)
RecordedStopIsFree ==
    \A s \in Steps :
        proc = "recovering" /\ row[s].status = "running" /\ refund[s] = "stop" => Matched(s)
=============================================================================
