# A TLA+ model of styre

`styre run <ticket>` drives one ticket through design, implement, verify,
review and merge. One process does the work, a SQLite database is its only
memory, a git branch holds what its agents made, and an outbox carries what the
tracker and the forge must learn. The process can be stopped by a signal, killed,
or end itself in a pause; `styre run --resume <ticket>` goes on from there.

The individual step is simple. What is hard is that nearly every fact is kept in
two places (a journal row and a branch head, an outbox row and a remote branch, an
interruption note and an attempt counter), that the two are written in separate
transactions or commands, and that a stop, a crash, a resume and the operator can
come between. The modules here model exactly that. Around the one process stand others: earlier
and later runs of the same ticket, `styre clean`, and whatever the agents and test
commands of a killed run have left alive.

## Inventory

| Component | Source | State | Operations | Talks to | Hard behaviour | What makes it correct |
|---|---|---|---|---|---|---|
| Step journal | `engine/step-journal.ts`, `db/repos/workflow-step.ts` | rows of `workflow_step` (status, attempt, start, error), the door's in-flight step | `runStep`, the row statements | resolver, stop handler | stop or crash inside a step | attempts are exact, no step is lost or run as a stranger |
| Failure policy | `daemon/failure-policy.ts` | the same rows, ticket status | `applyFailurePolicy` | journal, signals | retries of one step through loopbacks of another | bounded retries |
| Recovery, retry windows | `daemon/recover.ts`, `daemon/verification-retry.ts` | rows left running or failed | `recover`, `resumeVerificationRetries` | journal, git | a note of one start, the crash of another | a stop is free, a crash is not |
| Stop handler | `util/process/signals.ts`, `door.ts`, `interruption.ts` | the closed door, the note, the live launches | `handleStopSignal`, `recordInterruption` | every launch, the journal | runs while the step unwinds, under a deadline | it records the start it saw and leaves no process unreported |
| Run lock | `cli/run-lock.ts` | the file `run.lock` | acquire, release, look | other processes | stale locks, concurrent reclaim | one process per ticket |
| Fresh run and checkpoints | `cli/run.ts`, `checkpoints.ts`, `clean.ts` | the checkpoint folder, the holder of the branch | run, `--fresh`, `--resume`, `clean`, `clean --all` | run lock, git, database | look, then delete | no run loses its database, nothing undelivered is swept |
| Dispatch pipeline | `dispatch/run-dispatch.ts`, `db/repos/dispatch.ts` | dispatch rows, index and files of the worktree | `dispatchAndRecord` | agent, git | each of about ten exits leaves git and a row | the recorded head is the branch head |
| Worktree operations | `dispatch/worktree.ts` | the ticket branch, worktrees | ensure, commit, undo, reset, reconcile | git | who holds the branch | no work of a succeeded step is lost |
| Resume | `cli/park.ts`, `daemon/review-resume.ts` | all of the database | `resumeRun` | everything | decides from facts others wrote | it refuses a moved branch and only that |
| Projector | `daemon/projector.ts`, `db/repos/projection-outbox.ts` | `projection_outbox` | enqueue, drain, re-queue | tracker, forge | lost answers, partial failure, old rows | nothing false or unverified is published |
| Run driver | `daemon/run-ticket.ts`, `loop.ts`, `pause-ticket.ts` | idle and iteration counters, outcome | `driveToTerminal`, `tick` | projector, resolver | when to stop waiting | it ends, and its answer is true |
| Resolver and advance | `daemon/resolver.ts`, `advance.ts` | stage, units, rounds | `nextStepKey`, `advanceOneStep` | journal, verdicts | long sequences of loopbacks, evidence of moving heads | no stage is passed without its evidence, no step is asked for in vain |
| Design and its checks | `dispatch/extract-schema.ts`, `derive-acs.ts`, `track-sizing.ts`, `daemon/checks-verdict.ts`, `db/repos/ac-check.ts` | units, criteria, checks and their generations, track | design and checks steps, their verdicts | journal, agent | rows written one by one, rounds counted from rows | a whole plan that can finish, an answer for each criterion |
| Check execution | `dispatch/check-execution.ts`, `check-selector.ts`, `checks-run.ts`, `baseline-rerun.ts`, `post-implement-rerun.ts` | the plan and the red of each check | author, gate, re-author, bind | test runners | a runner's output proves less than it seems | red and green are of one experiment, about the check's own test |
| Gate verdicts | `daemon/checks-gate-verdict.ts`, `arbiter-verdict.ts` | gate rounds, routes | the verdicts of the gate steps | journal, resolver | separate counters | bounded rounds |
| Review | `daemon/review-verdict.ts`, `db/repos/review-round.ts`, `review-finding.ts`, `dispatch/code-review.ts` | findings, dispositions, risks, probes | review, repair, redesign | journal, operator | a finding outlives units, heads and rounds | no blocking finding is lost |
| Evidence | `daemon/evidence-floor.ts`, `db/repos/ground-truth-signal.ts`, `dispatch/carry-forward.ts`, `verify-report.ts`, `testing/suite-*.ts` | signals by commit, receipts | sweeps, floor, requirements, report | resolver, projector | evidence of another commit, contract or check | what ships was measured, the report claims no more |
| Provision, test environments | `dispatch/provision.ts`, `testing/environment.ts` | files outside git, the provision step | install, probe | shell | armed by commits and resumes | nothing is verified on old dependencies |
| Launch records, stop and sweep | `util/process/records.ts`, `sweep.ts`, `stop.ts`, `proc-table.ts`, `command-temp.ts` | records of launched groups, temp folders | record, stop, claim, sweep | operating system | orphans, recycled pids, two sweeps | no silent orphan, no stranger killed |
| Agent providers | `agent/` | none | run an agent, report its tools | child process | timeouts, limits | confinement is confirmed |
| Adapters | `integrations/adapters/` | none | push, ensurePr, set state | network | lost answers | probing before acting |
| Setup, config, prompts, telemetry, notifications | `setup/`, `config/`, `telemetry/`, `daemon/notify.ts` | files, events | detection, loading, output | operator | none | - |

The hazards these parts are exposed to are listed with their lines in
`PROJECT.json`; a property below or a note there answers each.

## Modules

### StepJournal

One ticket's `workflow_step` table and the process that runs its steps. A row is
the record `[status, attempt, start, error]`; a start is numbered by `clock`, and
its number stands for `started_at`. The actions are the transactions of the code
in their order: `Insert`, `MarkRunning`, then one of `Succeed`, `Fail`, `Park`;
`ParkRecord`; the policies; `StopSignal` and `RecordInterruption`; and the resume,
first one transaction (`Resume`, with the retry windows it grants), then `recover`
row by row. What is done in one synchronous stretch of JavaScript can only be cut
by a crash, so `StopSignal` is enabled only where the run code awaits.

What a step does is abstracted to how it ends, which step comes next to any step,
and which rows a verdict or a loopback reopens to any set of existing rows. So the
properties hold for every resolver.

Three variables are observers (`spent`, `fails`, `refund`): they remember what
happened and no action of the program reads them. `fails` counts the failures of a
step since its budget was last given back. The code does that on purpose when a review
or integration loopback calls `resetAttempt` on the row (`daemon/review-verdict.ts:67`,
`daemon/failure-policy.ts:222`), and an operator does it with `--resume`; nothing else
may, a success included. So a step can fail more than `MaxAttempts` times in one run
if loopbacks reopen it with a zeroed attempt; what ends such a run is the count of
rounds, which `ControlLoop`, `ReviewRounds` and `DesignStage` model.

### RunLock

The file `run.lock` and any number of processes. Every system call is a step,
`writeFileSync` with `wx` is two (create, then write). Pids are not reused.
`overlapped` is an observer that says whether two acquisitions were ever under way
at once.

### Checkout

The ticket branch, who holds it, the index and files of the place the agent works
in, the dispatch rows, the interruption note and the accept-head event. A commit
is the set of dispatches whose work it contains. Each exit of `dispatchAndRecord`
is a path of two or three actions, one per git command or transaction, so that a
crash can fall between them. A ticket runs in place or in worktrees (`Init` leaves it open).
In place the operator may also leave the checkout on another branch while no run is
up (`HumanSwitches`): the head check of the resume reads the ticket branch and sees
nothing (`park.ts:287`), the undo and the return of `interruption.ts` skip
(`RecoverSkips`), and the next `ensureWorktree` runs `checkout -B` at that HEAD.

Observers: `kept` (work on the branch when a step last succeeded), `dropped` (work
that such a `-B`, or the `worktree add -B` of a resume in worktree mode, took off an
existing branch), `left` (where the program or an accepting operator last left the
branch), `torn` (a crash fell between a move and its row), `stopped`, `litter`,
`hooked`. `OnlyEnsureDrops` says that nothing else loses work of a succeeded step; that
`ensureWorktree` does is `WorkKept`, under "What the models refute".

### Delivery

The outbox, the drain, the merge gate, and enough of the stages before it to move
the branch head: implement (dispatch, integration), review (clean or a loopback),
`merge:push`, `merge:pr-ensure`, the wait for the approval. The drain works on the
list of pending rows it read first, as `drainOutbox` does, and applies, records and
marks each row in separate steps. A request can be carried out and answered, be
refused, or be carried out with its answer lost.

### ControlLoop

The resolver (`nextStepKey`), `advanceOneStep` and the verdicts, from the plan to
the wait for the merge approval. `Served` is what the resolver answers in the
implement stage; one action per step does the step with its verdict in the same
transaction. Loopbacks are operators (`gateOriginLoopback`, `codeLoopback`,
`redesignLoopback`), each with exactly the rows it resets.

The resolver looks evidence up by the head of the latest dispatch row. No commit
brings an old head back, so heads need no names: `gate`, `blame` and `suite` are
the evidence of that recorded head, and a dispatch that moves it (`Recorded`)
empties them. Three things go beyond that: the arbiter's latest route is not keyed
to a head (`route`), `docs:revise` carries evidence over its own commit, and an
operator's commits are on the branch but not recorded (`ahead`).

Design is one action (`Plan`, after any number of `PlanLoop`s) and the ledger of
findings one of three verdicts: `DesignStage` and `ReviewRounds` have the detail. A step that throws and is tried again is the
business of `StepJournal`; here it either works, gives up (`GiveUp`), or fails in
the one way that leaves something behind (`ReauthorFails`, `DocsCutOff`,
`IntegrationThrows`, `UnderDelivered`). The floor is the one of tickets without
required suites; `Evidence` has both.

Observers: `unseen` and `foreign` (code of the operator the gate has not run on; no
coding dispatch since), `upset` (the recorded head was moved under a succeeded
gate), `reviewed` (the last review saw the branch head).

### Stages, and what ControlLoop implements

`Stages` is the abstract machine of a ticket: a stage, whether there is a plan, and
what vouches for the head at hand (`gate`, `floor`, `units`, `review`). It says
when a stage may be left, where a loopback may lead, and that a new head takes with
it what vouched for the old one. `ControlLoop` defines `StageView`, an `INSTANCE` of
it with a refinement mapping, and `StageContract` says that it implements it: what
the mapping reads is what is true of the code at hand (the gate really ran on it,
the evidence really is of it), not what a journal row says. An implementation that
forgets to re-arm one step in one loopback passes from a stage with nothing to
vouch for it and breaks the contract several loops later; the mutant does that.

### DesignStage

`design:dispatch` to `checks:classify` with the plan review and its resume. The
inserts of `design:extract` are single actions, and a crash can come between any
two: units, then `needs_docs`, then the criteria. A plan is a member of `Answers`
(units with dependencies in any order, size, whether it needs documentation).
`active[c]` are the checks of the present generation of criterion `c`, `rounds[c]`
the generations superseded, each counted once as `reauthorRoundsForAc` does.
`torn` is an observer: what a crash cut in half.

### CheckVerdict

What one run of a check may conclude. The world is what the delivered test and its
neighbours would do at a revision (pass, fail by an assertion with or without a
message, throw, throw out of a failed assertion, fail in a hook, in a fixture or by an
assertion of unittest's `setUp`, be skipped, be absent), and a run meets a fault or
none: the runner does not start, a timeout, a report that is cut off, another
environment, and under pytest a collection error or an interruption (exit 2), a usage or
internal error (exits 3 and 4). From them the module builds the facts that the adapters
read off the output and then follows `mochaVerdict`, `djangoVerdict`, pytest's exit
status with the two counts of `provesBehavioralFailure` ("N failed" and the lines that
begin with `E  assert` or `E  AssertionError`), or the exit status alone
("generic": jest, vitest, go, cargo, junit, rspec, minitest, phpunit).
One check goes through `AuthorCheck`, `ReauthorCheck`, `Gate` and `Bind`; `Drift` changes the
world and the environment in between. A checkpoint from before plans were stored is
an initial state. The exit status of a generic runner is green for a skipped test,
so nothing is claimed of those beyond what it says.

### ReviewRounds

Review rounds with findings one by one: blocking ones and plan defects, filed on a
unit or on the ticket, the dispositions of author and reviewer, deferrals, the
operator's accepted risks for one head, the probes a reviewer may ask for, repair
and redesign. A redesign deletes units and detaches their findings. Heads may come
back (an operator returns the branch). Checkpoints of earlier versions, without a
round, are initial states. `unresolvedReviewReason` and `reopenStaleDeferrals` are
two layers of the same defence, both modelled. Observers: `owed`, `settled` and
`answered` follow what a blocking finding is still owed whatever the rows say, and
`resumedAt` is the head at which the operator last had the findings judged. Rows of
old checkpoints are all open: no version before the contract ever changed one.

### Evidence

The ground-truth signals by commit, from implement to the report in the pull
request: the sweeps of a unit, integration, the docs commit and the carry, the
receipts of required suites, the per-criterion evidence, `provision`. The profile
of the project may change from process to process. What a suite really did at a
commit is an observer (`good`, `met`) that no guard reads: the properties compare
what the program concludes from its signals with it. Every two writes of a handler
that are two transactions are two actions.

Signals carry the head of the latest dispatch row, but commands run at the tip of the
branch. The two part when the operator commits to the branch of a stopped run and
resumes it with `--accept-head` (`AcceptHead`): out of review and merge the units are
coded again, in implement nothing is, and the tip is recorded by whatever dispatch
comes next (`ahead`, `NothingCommitted`, `DispatchFails`), the docs' or a review's
too. "This code" is therefore the code of the last coding dispatch (`codeOf`): the
properties except what the operator accepted since, and `AcceptedIsMeasured`, which
does not, is refuted below.

### StopSweep

Launches with a leader and a child in its group, their record (which is renamed by
a claim, put back, retaken and removed), their temp folder, the run that made them
and two sweepers. Every read and write of a record is a step, since two sweeps and
the owner work on the same files; a listing of the process table together with the
signals sent by it is one. A process may leave its group, survive a signal, and a
pid may be given to a stranger once its owner is gone.

### Checkpoints

The checkpoint folder of one ticket and up to three commands on it at once. A
deletion is three steps, as in the code: look at the lock, free the branch, remove
the folder. `holder` is the worktree that has the branch: one of styre's, one that is
gone (prunable), or a human's. A run writes through the database file it has open,
also when the name means another by now. Observers: `delivered`, `cutOff`,
`ranSince`, and `raced`, which says that a run began between another command's look
and what it then did.

## Runs

| Run | Instance | Shows |
|---|---|---|
| `step_journal` | two steps, one a suite step; three attempts; five starts | attempts are exact under every interleaving of step, stop, crash and resume; budgets hold; notes match only their start |
| `run_lock` | three processes | the lock is exclusive while acquisitions are serial, and acquiring always ends |
| `checkpoints` | three processes, each with any of the five commands | a driven run keeps its checkpoint; no worktree is orphaned; a resumed run has its branch; `clean --all` spares what is not delivered |
| `checkpoints_sweep` | the same | violation: a run cut off at merge before its push is listed as `pr-ready` and swept |
| `stop_sweep` | one launch, two sweepers | a process that outlives its run has a record or was reported; removal is final; strangers and live commands' folders are spared |
| `checkout` | in place and in worktrees; three dispatches, two starts, three processes, two operator moves of the branch or the checkout | work of succeeded steps is lost to nothing but `ensureWorktree`'s `-B`, work of stopped steps goes; the baseline is true |
| `delivery` | required suites; budget four; two heads, two processes, eight rows, four faults, one operator move | `pr-ready` is true unless an older push was sent late, nothing unverified is published, the gate answers |
| `control_loop` | one planned unit and a reconcile unit, two criteria, two gate rounds, one repair, two processes, one operator move | every loopback re-arms what the next head needs; nothing is reviewed without gate and floor or merged without review; a run ends; `Stages` is implemented |
| `design_stage` | five answers with one or two units, three of them to be refused; zero or two criteria, two checks each, two findings, three processes | a whole plan that can finish leaves design, reviewed if large; each criterion is checked or knowingly unanswered; design ends |
| `review_rounds` | two units, three findings, four reviews, two repairs, five processes, two heads | no blocking finding is lost; authors answer before a re-review |
| `evidence` | one unit, one component, three recorded heads, three profiles, two processes, one loop, one accepted head | what goes on to review was measured and required suites were met at the code of the last coding dispatch; the report is true of it; nothing is verified on old dependencies |
| `check_verdict` | seven component configurations, one change of setup | a green is the check's own; what binds is an assertion of its own (under pytest: had an assertion fail and no fixture); red and green are one experiment |

The `violation` contradicts a document and a comment of the repository, quoted in
`PROJECT.json` under "findings".

These hold in the same instances too, each put in the place of the properties of its
module's cfg; no kept run lists them: `TypeOK` of the modules whose cfg lacks it,
`Checkout!CleanTree`, `Delivery!PausedIsResumable`, `Delivery!PushIsJournaled`,
`DesignStage!NothingReplayed`,
`DesignStage!GradesStay` (a property), `ReviewRounds!ProbesAreBounded`,
`CheckVerdict!NeverRanNeverRed`, `StopSweep!NoClaimLeft` and `RunLock!SerialNoClobber`.
All of them are proved, too. (`RunLock`, `CheckVerdict` and `ReviewRounds` call their
parts `LockSpec`, `VerdictTypeOK`, `ReviewInit` and so on, since one module proves
theorems about several of them and the names must differ.)

### What the models refute

These claims are written in the modules too, next to the properties that hold.
TLC refutes each when it is put in the place of an invariant (or property) of the
module's cfg, with the change named here:

- `Checkpoints!SweptWasDelivered` (run `checkpoints_sweep`): `clean --all` deletes the
  checkpoint of a run that was cut off while its push was still in the outbox. The
  same happens after a resume that consumed the pause and was cut off.
- `Checkpoints!ResumeGetsItsTree`: a run that ends in `provision`, before its first
  dispatch row, has no recorded worktree; its resume does not free the branch
  (`park.ts:389`) and `ensureWorktree` refuses the leftover. Only `--fresh` helps.
- `DesignStage!CrashKeepsPlan`: a crash between the inserts of `design:extract`, before
  `needs_docs`, or between those of the criteria leaves half a plan, since each part
  is skipped once any row of it exists (`handlers.ts:570`, `derive-acs.ts:13`).
  `docs/architecture/control-loop.md:48` says "Crash anywhere resumes from the journal".
- `StepJournal!RecordedStopIsFree`: the resume grant zeroes the attempt of a running
  suite step before `recover` compares it with the note (`verification-retry.ts:60`),
  so a recorded stop on the last attempt is treated as a crash, against
  `recover.ts:41`.
- `RunLock!MutualExclusion`: two processes that reclaim a stale lock together can
  both hold it (`run-lock.ts:47`).
- `Checkout!WorkKept`: `ensureWorktree` runs `git worktree add -B` without a commit, so a
  resume in worktree mode re-creates the branch at the repository HEAD;
  `control-loop.md:345` says "worktree at branch HEAD". In place the same happens when
  the operator has left the checkout on another branch: the resume is not refused, as
  the ticket branch has not moved, and `checkout -B` (`worktree.ts:65`) takes the branch
  to that HEAD, without the work of the steps that succeeded.
- `Checkout!RetriesStartClean`: a failed `git commit` leaves the attempt staged
  (`run-dispatch.ts:353`), and a later `undoAttempt` restores from the index.
- `Delivery!LoopbackRuns`: after an accept-head loopback out of merge the approval is
  still pending, `v_ready_tickets` excludes the ticket, and every run stalls
  (`park.ts:418`).
- `Delivery!PrReadyAlways` (with three operator moves, four processes and 14 rows):
  `run-ticket.ts:150` says that `pr-ready` means a PR that shows the verified head. The
  push of Y fails, X is pushed, the operator returns the branch to Y and accepts it;
  the row of Y is re-armed and sent. When X is taken up again its row is already there
  (the key `push:X`), and `undeliveredReason` judges by the row with the largest id: the
  answer is `pr-ready` while the remote is at Y. `PrReadyShowsHead` excepts it
  (`overtaken`); without required suites a single failed push is enough.
- `ControlLoop!CodeIsGated`: a head accepted in implement with all units verified is
  never gated (`review-resume.ts:105`), against `review-repair.md:72`.
- `CheckVerdict!BindsByItsOwn`, that under pytest, too, a file binds by assertions of
  its tests and nothing else: an assertion in unittest's `setUp` counts as a failed test
  with its line, so does an exception raised out of a failed assertion, and an assertion
  with a message has two lines, one of which pays for a test that threw
  (`check-execution.ts:296`).
- `CheckVerdict!SameEnvironment`, that the red and the green of a check had the same
  environment: a plan made without a qualified one is also run in a qualified one
  (`checks-run.ts:80`); and `CheckVerdict!RedWasAFailure`, that a pytest red is a test
  that failed: exit 2 is red with no test run (`check-selector.ts:304`).
- `Evidence!AcceptedIsMeasured`, the same of the integration sweep: it passes, the run
  stops, the operator's commits are accepted, and the next tick leaves implement. The
  receipt of a required suite names the tip (`handlers.ts:2004`), so a sweep that is run
  with the commits on top does not satisfy the requirement (`suite-requirements.ts:157`)
  while one from before does.
- `ControlLoop!CrashResumes`: a crash between the dispatch row of `docs:revise` and the
  carry leaves a ticket that every resume escalates (`handlers.ts:675`).
- `Evidence!NothingRunsStale` with `InPlace = TRUE`: a stop between `setUnitStatus` and
  the re-arm of `provision` (`handlers.ts:1328`); in place the resume does not arm it.

### Why the bounds are enough

- `step_journal`: three attempts is the real `DEFAULT_MAX_ATTEMPTS`; five starts
  allow a step to use them up, be granted a new window and start again while the
  other step loops it back. The theorems remove the bound.
- `run_lock`: the race needs a dead owner and two reclaimers. The theorems hold for
  any number of processes.
- `checkpoints`: a run to be disturbed, a command that looks and a command that acts;
  each process is one command, so three is also a run, its resume and a deletion.
  Nothing in the run is bounded: the state of one ticket is small. The theorems hold
  for any number of processes.
- `stop_sweep`: two sweepers are one that claims and one that retakes or waits; one
  launch has a leader and one more process. Launches do not share a record, a group
  or a folder, so what holds of one holds of each.
- `checkout`: three dispatches give one kept, one stopped and one after the resume;
  three processes give an interruption, a resume that is itself cut off, and one
  more; two operator moves are a commit and a switch of the checkout, or a switch and
  the way back. The theorems remove the bounds.
- `delivery`: three drains come before the gate, so only a budget of four lets a
  push that keeps failing reach the gate; two heads are one stale and one current;
  eight rows are the two full passes to merge. `DEFAULT_CAP` (200 ticks) is not a
  number of the model: the run may give up at any tick.
- `control_loop`: `GATE_ROUND_CAP`, `DEFAULT_MAX_ATTEMPTS` and `REVIEW_REPAIR_LIMIT`
  are 3 in the code. With 2, 2 and 1 each budget is spent once and refused once, and
  each loop can happen inside every other; searches with one criterion and 3, 2, 2
  find nothing new. Two criteria are needed for a round that blames both code and
  check. Attempts are counted up to the larger cap only. One set of findings names
  a unit, one is a plan defect; `onPlanDefect` may change from process to process.
- `design_stage`: two units are enough for a wrong order, a cycle, a gap, a migration
  that comes last and half a plan, two
  criteria for a verdict that flags one and keeps the other; the cap and the repair
  limit are 2, spent once and refused once. Three processes: a crash, a resume with
  a review action, one more.
- `review_rounds`: a review files nothing, one finding on a unit or on the ticket, a
  plan defect, or two findings; three rows are two of one review and one of a later
  one; four reviews are a first, two repairs and one after the budget is used up;
  two heads are enough for one to come back, and five processes for the operator to
  accept a finding at both of them and return to the first. The old checkpoints have completed
  their second round, or not, and counted it or not.
- `evidence`: the first head is code too (the checks), so three are code, its docs and
  the repair after a review, or the commits of the operator taken up by any dispatch;
  four hold as well with one suite job and no unowned files (32 million states); two profiles
  differ in the required suite's command and in a repository-wide job, a third
  requires none because its runner is not there; two processes let the profile
  change once. Further units add sweeps that are judged one by one.
- `check_verdict`: the configurations are one per way of judging, with and without a
  qualified environment, wrapper or directory of its own; one run is followed at a
  time, and the setup may change once, between any two of them.

### Fairness

`RunLock` assumes weak fairness of each process's acquisition, which is one
synchronous loop; nothing obliges a holder to release. `Delivery` assumes weak
fairness of the run as a whole: each request has a timeout or an answer, and the
driver waits for nothing else. `ControlLoop` assumes it of the run too (`WF` of
`Run`): the driver calls `advanceOneStep` until the ticket waits, and every
dispatch and command has a timeout. `DesignStage` assumes the same of its run. A stop
or crash is never obliged to happen. The other modules state no fairness and no
liveness.

## Proofs

Eight modules hold theorems. `RunDatabaseProofs` is about the journal, the run lock and
the review ledger; `DesignProofs` about `DesignStage` and `CheckVerdict`;
`ControlLoopProofs`, `CheckpointsProofs`, `DeliveryProofs`, `EvidenceProofs`,
`StopSweepProofs` and `CheckoutProofs` about the module they are named for. They prove,
for every value of the constants, every safety invariant and action property a passing
run checks. In each the argument is an inductive invariant: it holds initially, each
action keeps it, and the properties follow.

They rest on what the modules assume of their constants (`StepsAssumption`,
`BoundsAssumption`, `ProcsAssumption`, `ControlAssumption`, `DeliveryAssumption`,
`EvidenceAssumption`, `StopSweepAssumption`, `CheckoutAssumption`, `AbsentAssumption`,
`DesignAssumption`, `VerdictAssumption`, `ReviewAssumption`). Most say that a bound is a
number or a set is not empty. Two say more: `DesignAssumption` that an answer is a
sequence of units with the fields of `ExtractedWorkUnitSchema` and that the number of
criteria of a ticket is finite and at least zero, `ReviewAssumption` that the findings of
an old checkpoint are open and of a round it has held, which is all that versions
without the contract wrote.

**StepJournal.** The invariants are not inductive alone. `IInv` adds what the parts
of the program rely on: `Control` (which phase the run code can be in for each
state of the process, and what the row of the step it is on looks like there),
`DoorInv` (the door names the executing step and nothing else, and the handler's
copy stays true while the process stops), `NoteInv` (starts are numbered in order,
and a start that has a note was given back by the handler), `BudgetInv` (failures
never exceed counted attempts, and a step that may be started again has failed less
than `MaxAttempts` times) and `SuiteInv` (no suite row outside the step at hand
holds an unsettled execution fault).

**RunLock.** While no two acquisitions have overlapped, at most one process is
between reading a lock and unlinking it, so what it unlinks is what it judged. The
invariant says for each place in the code what the lock file can be.

**Checkpoints.** While no run begins between another command's look and what it then
does (`~raced`), holding the lock and being about to delete exclude each other
(`Exclusive`). From this follows that what a holder found stays as it was: the
database it opened is its own (`Opened`), a folder goes only after its worktree
(`Freed`), and what a listing judged is still so when it is deleted (`Judged`).
`RunKeepsCheckpoint`, `NoOrphanTree`, `BranchIsFree` and the action property
`SweepSpares` hold for any set of processes.

**ControlLoop.** `IInv` says that a ticket outside design has a plan, that commits
ahead of the verified head are the operator's, and what vouches for the head in each
stage: gate, evidence and verified units after implement (`Vouched`), a passed review
at merge (`Reviewed`). With it every step of the detailed machine maps to a step or a
stutter of `Stages` (`NextRefines`), one lemma per group of actions, hence
`Spec => StageContract`, and the contract of the abstract stages holds of the loop.

`ReplayIsExplained` has an invariant of its own, `Armed`: what the journal says of a
step and what the evidence at the recorded head is go together. A succeeded gate has
units that are all verified and has left an answer (it passed, a check is red or
blamed, or the rounds are used up), a succeeded arbiter has blamed what is red, a
succeeded integration has a verdict behind a gate that passed. A step that takes the
answer away takes the success away with it (lemma `Rearmed`, for every way back to
coding), or is one of those that `upset` records. The types (`LoopTypes`) are a third
one, `TypeInv`, on top of `IInv`: that what was rejected is checked needs that a route,
of whatever round, names only criteria with a check.

**Delivery.** `Listed` says what a drain holds in its hand: rows that are pending, but for
the one it is giving up. `Gated` and `PushIsJournaled` say that a run waits for the
approval only at merge, with its push done, and that a done push has a row of the
recorded head. `Latest` ties the remote branch to the rows: it is at the row of the
last push sent, or at a later row whose answer is not recorded yet, unless a push was
carried out after a later one (`overtaken`). What `undeliveredReason` read is kept by the
last drain before the run returns (`Claimed`), since no drain touches a sent row. Least
and greatest ids are the lemmas `LeastIsLeast` and `GreatestIsGreatest`, from the
library's well-founded orderings, without an induction.

**Evidence.** `Truthful` says of every signal that counts what its command really did at
its commit: an executed integration pass and each job it does not blame at that commit
or an earlier one of the same code, a unit's pass and a green check of a passed gate at
that very commit. It is kept because nothing is recorded anywhere but at the head:
`Placed` (a unit is verified at the head it was dispatched at, alone and in order; the
arbiter is asked only about a head without a gate) and `Fresh` (nothing is recorded at
commits to come, so the head a carry writes to is blank). `Gatekept` says that a carried
gate follows a gate, which `acEvidenceSha` needs, and `Installed` that an armed process
in its own worktree has current dependencies. A commit never changes the code of earlier
ones, and one that no coding dispatch recorded has the code before it (lemma
`Appended`), so what a carry copies was earned at the same code. A head that a review's
or a failed dispatch's row records has no evidence at all (`RowInv`). The floor, the suites and the report then
follow by reading their definitions (`SuiteEarned`, `RequiredEarned`, `CriterionEarned`),
`ShippedIsMeasured` as a property of the one step that leaves implement.

**StopSweep.** A record is removed only by an actor that has seen its launch end, and a
launch that has ended stays so, whoever is killed between the two: `Ended` says that of
every actor that has begun to remove, and of every record that is gone. A stranger can
have the pid only after that, or where the owner gave up (`Occupied`), and not within a
stop (`Spared`); so a sweep, which stops only what `identify` calls the same, signals no
stranger. `Watched` counts the renames that a remover can have missed: with none since
it looked for the claims, the record is not under a claim; with one, it is not back
under its name; so a wrong "removed" needs two. `Unclaimed` says who answers for a
claim, and gives `NoClaimLeft`. All of it for any number of launches and sweeps; TLC
checks `IInv` with two sweeps.

**Checkout.** The invariant has three layers, each inductive given those before it.
`Ground`: where the run is, that the rows are numbered in the order of the starts
(`Ordered`), that whoever works holds the branch, and that a run is in place for all
its dispatches or for none (`Placed`). `Heads`: the baseline is where the branch was
left except between a move and its row, or after a `-B` that dropped work
(`Accounted`); what succeeded and was not dropped is in every commit the branch may be
returned to: the head before the dispatch, before the step, before the interrupted
step (`Kept`). The hard part is `Noted`: an interrupted step only moved
the branch forward by its own work, so once an operator has moved the branch it can
never stand at the noted head again, and a resume does not take back what the
operator has accepted. `Hands`: whose work is in branch, index and tree; what a stopped
start left is exactly what the note lets the next resume undo or reset (`TakenBack`),
even when that resume is cut off. `OnlyEnsureDrops`, `StoppedWorkGone` and `CleanTree`
hold in place and in worktrees, `BaselineTrue` is claimed in place. A resume that finds
the checkout on another branch leaves what remains of the interrupted start, says so
and clears nothing; `StoppedWorkGone` excepts it, as it does a refused reset.

**DesignStage.** `PlanInv` says where the units come from: they are those of an answer
that `validateExtraction` accepted, all of them unless a crash tore them, and a review on
record is a review of the units that are there now, which a redesign that kept the
review would break. `ChecksInv` follows the criteria through a round: between
`checks:dispatch` and `checks:classify` each is covered, but for those a loopback has
just flagged, and after it none is ungraded. `GradeInv` and `ServedInv` say that a graded
check is not written again and what each served step still lacks. `PlanIsWhole`,
`FullPlanReviewed` and `AcsAnswered` are then read off. `PlanCanFinish` needs more: that
the dependencies of an accepted plan point only to smaller numbers of its own units, so
the least unit that is left can go (`LeastUnitCanGo`; a least number from the
library's well-founded orderings, not by an induction). The units stored are a prefix
of the plan, by lemmas about `SubSeq` and `Append`.

**CheckVerdict.** `VerdictInv` is the three properties, the types, and `CheckFacts`: what
the rows of the active check say of the world it was judged in. The lemmas below it are
about one run: `Worth` says what a verdict is worth, for each kind of runner, and is
proved for each adapter (for pytest from `CountsTell`: counts that agree and are not
zero mean an assertion line, hence an assertion) and then for the command that is run
by a stored plan. From it, authoring, gate and bind are
short; a change of the setup between them (`Drift`) leaves the rows as they are.

**ReviewRounds.** The debt of a ticket is what it owes and no review has settled.
`LedgerInv` says that nothing in the debt is ever closed: its rows are open or deferred,
and deferred only if major; so when `requiredCodeFindings` and the stale acceptances
are empty, the debt is paid, which is `ShippedIsAnswered`. That `required` is exactly
the open part of what is owed (`RequiredOwed`) holds because a contract begins on a
ledger that is all open. `AnswerInv` says that each open finding of the debt is answered
or is covered by a unit that will be coded again: a loopback sets back the unit
of each finding (the first one for a finding without unit), and a redesign, which takes
the units, detaches first and leaves no unit that could be coded without it. `Course`
says what stage, units and review step are together. All of it for any plan, any
filings, any old checkpoint and any number of heads, reviews and processes.

Out of the prover's reach, and only model-checked: `AcquireAnswers`, `GateAnswers`,
`RunEnds` and `DesignEnds`, which are liveness under fairness. No theorem needs an
induction over data, and no module declares a RECURSIVE operator. What the models
refute (above) stays with TLC, too.

## What the model does not say

Conditions in the properties, and what happens outside them:

- Exclusion by the run lock is conditional on acquisitions that do not overlap, and
  the checkpoint properties on no run that begins in the window of
  `cli/run.ts:377`: the commands read the lock and do not take it. In that window
  a live run loses its database.
- `PrReadyShowsHead` says nothing once an older push was carried out after a newer one
  (`overtaken`, a history variable). The `delivery` run has `Required = TRUE`; its proof
  holds for both values.
- `NothingRunsStale` is claimed of runs in a worktree of their own.
- `ReplayIsExplained` leaves two ways in which the resolver asks for a succeeded step,
  so that the ticket is escalated: the rounds of the gate or of the re-author are
  used up (and a resume does not give them back), or the recorded head was moved
  under a succeeded gate by a step that did not finish (`checks:reauthor` after a
  commit, a crash in `docs:revise`), by the arbiter's or the reviewer's `git add -u`,
  or by the operator.
- `ShippedIsGated` speaks of the program's own code. Commits an operator makes while
  the ticket is in implement are excepted, since the code does not gate them.
- `StopSweep` has no recycling of a pid within one stop, nor between the exit of a
  command and its `finish`. An owner's second stop of a group that has survivors, or
  whose record cannot be removed, may signal a stranger. A folder may be taken from
  named members that lost their leader, or when the second scan of `sweep.ts:403`
  misses a record that is renamed between `readdir` and the read. A record renamed
  twice while its owner removes it stays (`records.ts:225`). A process that is killed
  between its spawn and its record is nobody's.
- `CheckVerdict` trusts pytest's exit status 0 and that of a runner it has no parser
  for. For pytest `BindsByAssertion` and `RedThenGreen` claim less than for mocha and
  Django, as listed above. A test's own output that imitates a runner's report (an
  `E  assert` line, "2 passed") is left out. The receipts of a wrapper count as evidence that the check's own test ran.
- The attempt bound is per grant: a success, a loopback or a resume may give a step a
  new window. A crash between `markFailed` and the failure policy
  (`advance.ts:272`) gives one try more.
- A start is identified by a number, in the code by a time in milliseconds; pids are
  not reused in `RunLock` and `Checkpoints`.

- `AuthorsAnswerFirst` exempts what the operator accepted for the head at which the last
  resume had the findings judged. An acceptance can be stale before a review, though:
  an author's commit moves the head after that resume, and `reopenStaleDeferrals` is
  called by a resume only (`review-resume.ts:171`), while `review-round.ts:183` says
  "Reopen it after HEAD changes." The next reviewer is then asked with the finding
  still deferred. Merge refuses it ("stale risk acceptance"), so it costs a pause, not
  the finding.

Left out of a module that models the part:

- `ReviewRounds`: minor findings and nits, which steer nothing; unit verification and
  failed pushes (in `ControlLoop` and `Delivery`); a retry while effects on the forge
  are pending, which is refused.
- `Evidence`: more than one unit; what the operator does to the branch other than to
  commit on top of it, and in place the manifest of such a commit; the commits that
  `ensureWorktree` may drop (see `Checkout`); an error of `changedFilesAt` after the unit's status
  is written (it would skip the re-arm like the stop above); the mtime of a marker
  behind "provisioned". `executedTestEvidenceAt` follows the carry to an older pass of
  a unit also when the unit has a newer failing sweep at the docs head, and the
  closing line of a report stays for a ticket without criteria.
- `CheckVerdict`: the guard against a poisoned discard, the probe of capabilities,
  ambiguous owners of a file and classification (the last in `DesignStage`).
- `Checkpoints`: worktree mode only; `--purge` and `ls`. `reconcileWorktree` answers a
  live run whose branch nobody holds with success (`clean.ts:111`). In place `--fresh` is
  refused as soon as the checkout is on the ticket's branch. A resume that meets a
  deletion leaves a blank `run.db`, which only `--fresh` gets rid of. Nothing in the
  program delivers a merge approval, so no ticket is ever "done".
- `Delivery`: the order in which the tracker learns of stages (`projector.ts:246`, where
  the drain goes on past a failed row, and `:267`).
- `ControlLoop`: required suites; `latestReauthorRoute` without its round
  (`arbiter-verdict.ts:125`) appears as a route that may be stale.
- `Checkout`: what the blanket `git clean` of `worktree.ts:475` removes of a human's
  untracked files.
- `StopSweep`: forged and unreadable records, the refusal of the owner's own group, the
  check for leftovers after an agent step, clean-ups that are held back.

## Not modelled

Notifications, telemetry, setup, configuration, prompts, provider command lines and
the adapters' HTTP. They are sequential and keep no state that another part reads
back, or appear as a step that succeeds or fails.

## Plan

Done: the eleven component modules, `Stages` and the refinement of it; the proofs of
all of them.

Left, in this order:

1. Required suites inside `ControlLoop`; the tracker's view in `Delivery`.
2. `Checkpoints` for runs in place, and `--purge`.
