------------------------------ MODULE Checkout ------------------------------
(***************************************************************************)
(* The ticket branch and the place where the agent edits it: what each     *)
(* dispatch, stop, crash and --resume does to the git state and to the     *)
(* dispatch rows that record it.                                           *)
(*                                                                         *)
(* A dispatch is a number; the work it did is that number.  A commit is    *)
(* the set of works it contains, so the repository's own HEAD, where the   *)
(* branch starts, is {}.  Human is work committed by the operator.  Paths, *)
(* file contents and prompts are left out; the scope gate is one choice.   *)
(*                                                                         *)
(* A place is the repository (Repo, in-place mode) or the worktree one     *)
(* process minted, named by the number of that process.                    *)
(*                                                                         *)
(* Granularity: everything from the agent's return to the completed row    *)
(* is one synchronous stretch, so a stop signal cannot fall inside it; a   *)
(* crash can, between any two git commands or SQL transactions.            *)
(***************************************************************************)
EXTENDS Integers, FiniteSets

CONSTANTS
    Absent,         \* no commit, no place, no answer
    MaxDispatches,  \* bounds of the model: dispatches,
    MaxStarts,      \* starts of steps,
    MaxRuns,        \* processes,
    MaxMoves        \* and moves of the branch or of the checkout by the operator

ASSUME CheckoutAssumption ==
    /\ MaxDispatches \in Nat /\ MaxStarts \in Nat /\ MaxRuns \in Nat \ {0} /\ MaxMoves \in Nat

VARIABLES
    (* git *)
    branch,    \* the commit the ticket branch points to, or Absent
    holder,    \* the place that has the branch checked out
    index,     \* works staged in the agent's place, tracked edits and untracked new files of it
    edits,
    fresh,
    (* the run database *)
    step,      \* the one row of workflow_step that matters here: [status, start]
    dispatch,  \* [1..MaxDispatches -> Dispatch]: the dispatch rows, by seq
    note,      \* the latest `interrupted` note
    accepted,  \* the latest accept-head event: [head, after], after = dispatches before it
    (* the process *)
    run,       \* its number
    proc,      \* down, recovering, up, stopping
    pc,        \* where the run code is
    place,     \* where this process lets the agent work
    door,      \* the door's in-flight step: [start, headAtStart, headAtStop]
    pre,       \* preHead and untrackedBefore of the dispatch at hand
    before,
    human,     \* moves the operator has made
    (* observers *)
    kept,      \* the works on the branch when a step last succeeded
    dropped,   \* works that ensureWorktree took off a branch that existed
    left,      \* where the branch was left by this program, or accepted by the operator
    torn,      \* did a crash separate a move of the branch from the row that records it?
    stopped,   \* works of the starts whose stop was recorded, and that resume must take back
    litter,    \* works whose leftovers the code knowingly leaves in the place
    hooked     \* works whose `git commit` failed

git == <<branch, holder, index, edits, fresh>>
db == <<step, dispatch, note, accepted>>
memory == <<place, door, pre, before>>
observers == <<kept, dropped, left, torn, stopped, litter, hooked>>
vars == <<branch, holder, index, edits, fresh, step, dispatch, note, accepted,
          run, proc, pc, place, door, pre, before, human,
          kept, dropped, left, torn, stopped, litter, hooked>>

Human == 0
Dispatches == 1..MaxDispatches
Works == Dispatches \cup {Human}
Commits == (SUBSET Works) \cup {Absent}
Repo == 0
Places == {Repo} \cup (1..MaxRuns)

ASSUME AbsentAssumption == Absent \notin Places /\ \A S \in SUBSET Works : S # Absent

NoRow == [outcome |-> "none", head |-> Absent, start |-> 0, place |-> Repo]
Closed == {"clean-success", "failed", "parked", "rejected", "interrupted", "reverted"}
Dispatch == [outcome : Closed \cup {"none", "open"}, head : Commits, start : 0..MaxStarts,
             place : Places]
Tree == index \cup edits \cup fresh

TypeOK ==
    /\ branch \in Commits
    /\ holder \in Places \cup {Absent}
    /\ index \in SUBSET Dispatches /\ edits \in SUBSET Dispatches /\ fresh \in SUBSET Dispatches
    /\ step \in [status : {"pending", "running"}, start : 0..MaxStarts]
    /\ dispatch \in [Dispatches -> Dispatch]
    /\ note \in [start : 0..MaxStarts, from : Commits, to : Commits,
                 before : (SUBSET Dispatches) \cup {Absent}]
    /\ accepted \in [head : Commits, after : 0..MaxDispatches]
    /\ run \in 1..MaxRuns
    /\ proc \in {"down", "recovering", "up", "stopping"}
    /\ pc \in {"idle", "step", "agent", "failing", "parking", "rejected", "staged", "committed",
               "reset", "rolledback", "ending", "parked", "undo", "undoOnly", "return", "revert", "requeue"}
    /\ place \in Places
    /\ door \in [start : 0..MaxStarts, from : Commits, to : Commits]
    /\ pre \in Commits
    /\ before \in SUBSET Dispatches
    /\ human \in 0..MaxMoves
    /\ kept \in SUBSET Works /\ dropped \in SUBSET Works /\ left \in Commits /\ torn \in BOOLEAN
    /\ stopped \in SUBSET Dispatches /\ litter \in SUBSET Dispatches
    /\ hooked \in SUBSET Dispatches

NoDoor == [start |-> 0, from |-> Absent, to |-> Absent]

Init ==
    /\ branch = Absent /\ holder = Absent
    /\ index = {} /\ edits = {} /\ fresh = {}
    /\ step = [status |-> "pending", start |-> 0]
    /\ dispatch = [d \in Dispatches |-> NoRow]
    /\ note = [start |-> 0, from |-> Absent, to |-> Absent, before |-> Absent]
    /\ accepted = [head |-> Absent, after |-> 0]
    /\ run = 1 /\ proc = "up" /\ pc = "idle"
    /\ place \in {Repo, 1}   \* styre run --in-place, or not
    /\ door = NoDoor
    /\ pre = Absent /\ before = {}
    /\ human = 0
    /\ kept = {} /\ dropped = {} /\ left = Absent /\ torn = FALSE
    /\ stopped = {} /\ litter = {} /\ hooked = {}

----------------------------------------------------------------------------
(* Helpers.                                                                *)

Rows == {d \in Dispatches : dispatch[d].outcome # "none"}
Latest(S) == CHOOSE d \in S : \A e \in S : e <= d

(* The dispatch in progress: the last row.                                 *)
Now == Latest(Rows)

(* getLatestForTicket: the latest row with a non-null branch_head_sha.     *)
Recorded == {d \in Rows : dispatch[d].head # Absent}

Baseline_IgnoreAccept ==
    IF Recorded # {} THEN dispatch[Latest(Recorded)].head ELSE accepted.head

(* headBaseline: the newer of the latest recorded head and the latest      *)
(* head the operator accepted.                                             *)
Baseline ==
    IF Recorded # {} /\ (accepted.head = Absent \/ accepted.after < Latest(Recorded))
    THEN dispatch[Latest(Recorded)].head
    ELSE accepted.head

(* `git worktree add -B` is refused while another place holds the branch;  *)
(* ensureWorktree then throws, as it can free none but a prunable holder.  *)
Blocked == holder \notin {Absent, place}

(* Where the repository's own HEAD may be while the branch is not checked  *)
(* out there: where the ticket started, or, if the operator has left the   *)
(* checkout of a run in place on another branch, at the ticket's work.     *)
OtherHeads == IF place = Repo /\ branch # Absent THEN {{}, branch} ELSE {{}}

(* In place, the checkout is not on the ticket branch.                     *)
OffBranch == place = Repo /\ holder # Repo

(* completeDispatch on the dispatch in progress.                           *)
completeDispatch(outcome, head) ==
    dispatch' = [dispatch EXCEPT ![Now].outcome = outcome, ![Now].head = head]

(* undoAttempt: `git checkout -- .` restores tracked files from the index, *)
(* then the untracked files that were not there before are removed.        *)
undoAttempt(untrackedBefore) ==
    /\ edits' = {}
    /\ fresh' = fresh \cap untrackedBefore
    /\ UNCHANGED index

(* `git reset --hard`.                                                     *)
ResetTracked == index' = {} /\ edits' = {}

MoveTo_NoNote(commit) ==
    /\ branch' = commit
    /\ left' = commit
    /\ UNCHANGED door

(* A move of the branch by this program, with the door's note of it.       *)
MoveTo(commit) ==
    /\ branch' = commit
    /\ left' = commit
    /\ door' = [door EXCEPT !.to = commit]

----------------------------------------------------------------------------
(* A step and its dispatches.                                              *)

(* markRunning and beginStep: readHead is where the branch stands.         *)
BeginStep ==
    /\ proc = "up" /\ pc = "idle"
    /\ step.start < MaxStarts
    /\ step' = [status |-> "running", start |-> step.start + 1]
    /\ door' = [start |-> step.start + 1, from |-> branch, to |-> branch]
    /\ pc' = "step"
    /\ UNCHANGED <<git, dispatch, note, accepted, run, proc, place, pre, before, human,
                   observers>>

(* ensureWorktree, as provision, the verify steps and every dispatch call  *)
(* it first.  Unless this place holds the branch, `-B` creates it, or takes*)
(* it to whatever HEAD the repository has; noteHead is not called.         *)
EnsureWorktree ==
    /\ proc = "up" /\ pc = "step"
    /\ holder = Absent
    /\ branch' \in OtherHeads
    /\ holder' = place
    /\ left' = branch'
    /\ dropped' = IF branch = Absent THEN dropped ELSE dropped \cup (branch \ branch')
    /\ UNCHANGED <<index, edits, fresh, db, run, proc, pc, memory, human, kept, torn, stopped,
                   litter, hooked>>

insertDispatch(d) ==
    /\ d = 1 + Cardinality(Rows)
    /\ dispatch' = [dispatch EXCEPT ![d] = [outcome |-> "open", head |-> Absent,
                                            start |-> step.start, place |-> place]]

(* insertDispatch, beginDispatch, and the agent is launched.               *)
LaunchAgent ==
    /\ proc = "up" /\ pc = "step"
    /\ holder = place
    /\ \E d \in Dispatches : insertDispatch(d)
    /\ pre' = branch
    /\ before' = fresh
    /\ pc' = "agent"
    /\ UNCHANGED <<git, step, note, accepted, run, proc, place, door, human, observers>>

(* The agent edits tracked files and creates new ones.                     *)
AgentEdits ==
    /\ proc = "up" /\ pc = "agent"
    /\ \/ edits' = edits \cup {Now} /\ UNCHANGED fresh
       \/ fresh' = fresh \cup {Now} /\ UNCHANGED edits
    /\ UNCHANGED <<branch, holder, index, db, run, proc, pc, memory, human, observers>>

(* A transport failure, a refused confinement, or a budget park: the row   *)
(* is closed first ...                                                     *)
AgentFails(outcome) ==
    /\ proc = "up" /\ pc = "agent"
    /\ completeDispatch(outcome, Absent)
    /\ pc' = IF outcome = "parked" THEN "parking" ELSE "failing"
    /\ UNCHANGED <<git, step, note, accepted, run, proc, memory, human, observers>>

(* ... and the attempt is undone after it.                                 *)
UndoFailed ==
    /\ proc = "up" /\ pc \in {"failing", "parking"}
    /\ undoAttempt(before)
    /\ pc' = IF pc = "parking" THEN "parked" ELSE "ending"
    /\ UNCHANGED <<branch, holder, db, run, proc, memory, human, observers>>

(* validateOutput or the scope gate rejects: undo first, then the row.     *)
RejectOutput ==
    /\ proc = "up" /\ pc = "agent"
    /\ undoAttempt(before)
    /\ pc' = "rejected"
    /\ UNCHANGED <<branch, holder, db, run, proc, memory, human, observers>>

CloseRejected ==
    /\ proc = "up" /\ pc = "rejected"
    /\ completeDispatch("rejected", branch)
    /\ pc' = "ending"
    /\ UNCHANGED <<git, step, note, accepted, run, proc, memory, human, observers>>

(* commitWorktree stages every tracked edit and the dispatch's new files   *)
(* in scope.  An undeclared one is discarded, or, in a read-only step,     *)
(* left where it is.                                                       *)
Stage(new) ==
    /\ proc = "up" /\ pc = "agent"
    /\ index' = index \cup edits \cup (IF new = "staged" THEN fresh \ before ELSE {})
    /\ edits' = {}
    /\ fresh' = IF new = "ignored" THEN fresh ELSE fresh \cap before
    /\ litter' = IF new = "ignored" THEN litter \cup (fresh \ before) ELSE litter
    /\ pc' = "staged"
    /\ UNCHANGED <<branch, holder, db, run, proc, memory, human, kept, dropped, left, torn,
                   stopped, hooked>>

(* An empty index makes no commit.                                         *)
Commit ==
    /\ proc = "up" /\ pc = "staged"
    /\ MoveTo(branch \cup index)
    /\ index' = {}
    /\ pc' = "committed"
    /\ UNCHANGED <<holder, edits, fresh, db, run, proc, place, pre, before, human, kept, dropped,
                   torn, stopped, litter, hooked>>

(* `git commit` runs the repository's hooks and may fail; the throw passes *)
(* every undo by, and the row stays open.                                  *)
CommitFails ==
    /\ proc = "up" /\ pc = "staged"
    /\ index # {}
    /\ hooked' = hooked \cup index
    /\ pc' = "ending"
    /\ UNCHANGED <<git, db, run, proc, memory, human, kept, dropped, left, torn, stopped,
                   litter>>

(* validateCommittedOutput and the postcondition hold, or only the first.  *)
CloseCommitted(ok) ==
    /\ proc = "up" /\ pc = "committed"
    /\ completeDispatch(IF ok THEN "clean-success" ELSE "rejected", branch)
    /\ pc' = IF ok THEN "step" ELSE "ending"
    /\ UNCHANGED <<git, step, note, accepted, run, proc, memory, human, observers>>

ResetCommitted_ToRepoHead ==
    /\ proc = "up" /\ pc = "committed"
    /\ MoveTo({})
    /\ ResetTracked
    /\ fresh' = fresh \cap before
    /\ pc' = "reset"
    /\ UNCHANGED <<holder, db, run, proc, place, pre, before, human, kept, dropped, torn, stopped,
                   litter, hooked>>

(* validateCommittedOutput rejects: the commit is taken back ...           *)
ResetCommitted ==
    /\ proc = "up" /\ pc = "committed"
    /\ MoveTo(pre)
    /\ ResetTracked
    /\ fresh' = fresh \cap before
    /\ pc' = "reset"
    /\ UNCHANGED <<holder, db, run, proc, place, pre, before, human, kept, dropped, torn, stopped,
                   litter, hooked>>

(* ... and the row names the head before it.                               *)
CloseReset ==
    /\ proc = "up" /\ pc = "reset"
    /\ completeDispatch("rejected", pre)
    /\ pc' = "ending"
    /\ UNCHANGED <<git, step, note, accepted, run, proc, memory, human, observers>>

(* A handler rejects what its completed dispatch committed (a check that   *)
(* selects no test, a broken sidecar): resetWorktreeHard ...               *)
RollBack ==
    /\ proc = "up" /\ pc = "step"
    /\ Rows # {} /\ dispatch[Now].start = step.start /\ branch # pre
    /\ MoveTo(pre)
    /\ ResetTracked
    /\ fresh' = {}
    /\ pc' = "rolledback"
    /\ UNCHANGED <<holder, db, run, proc, place, pre, before, human, kept, dropped, torn, stopped,
                   litter, hooked>>

(* ... and the row becomes `reverted`, at the head before it.              *)
CloseRolledBack ==
    /\ proc = "up" /\ pc = "rolledback"
    /\ completeDispatch("reverted", pre)
    /\ pc' = "ending"
    /\ UNCHANGED <<git, step, note, accepted, run, proc, memory, human, observers>>

(* The step succeeds; what is on the branch is the run's work now.         *)
Succeed ==
    /\ proc = "up" /\ pc = "step"
    /\ step' = [step EXCEPT !.status = "pending"]
    /\ door' = NoDoor
    /\ pc' = "idle"
    /\ kept' = IF branch = Absent THEN kept ELSE branch
    /\ UNCHANGED <<git, dispatch, note, accepted, run, proc, place, pre, before, human, dropped,
                   left, torn, stopped, litter, hooked>>

(* It throws, from a dispatch or from anything else it runs: the failure   *)
(* policy reopens it, or the run ends.                                     *)
StepFails ==
    /\ proc = "up" /\ pc \in {"ending", "step"}
    /\ step' = [step EXCEPT !.status = "pending"]
    /\ door' = NoDoor
    /\ pc' = "idle"
    /\ UNCHANGED <<git, dispatch, note, accepted, run, proc, place, pre, before, human,
                   observers>>

----------------------------------------------------------------------------
(* The end of a process.                                                   *)

Leave == proc' = "down" /\ pc' = "idle" /\ door' = NoDoor /\ UNCHANGED <<run, place, pre,
                                                                         before>>

(* An escalation between two steps, or the budget park: the row of a       *)
(* parked step stays running.                                              *)
Exit ==
    /\ proc = "up" /\ pc \in {"idle", "parked"}
    /\ Leave
    /\ UNCHANGED <<git, db, human, observers>>

(* The stop handler closes the door and kills the agent.                   *)
StopSignal ==
    /\ proc = "up" /\ pc \in {"idle", "step", "agent"}
    /\ proc' = "stopping"
    /\ UNCHANGED <<git, db, run, pc, memory, human, observers>>

(* recordInterruption, then the exit.  Only an open dispatch has a context *)
(* that names the place and the untracked files it found.                  *)
RecordInterruption ==
    /\ proc = "stopping"
    /\ Leave
    /\ IF door.start = 0
       THEN UNCHANGED <<dispatch, note, stopped>>
       ELSE /\ note' = [start |-> door.start, from |-> door.from, to |-> door.to,
                        before |-> IF pc = "agent" THEN before ELSE Absent]
            /\ IF pc = "agent" THEN completeDispatch("interrupted", Absent) ELSE UNCHANGED dispatch
            /\ stopped' = IF door.from = Absent THEN stopped
                          ELSE stopped \cup {d \in Rows : dispatch[d].start = door.start}
    /\ UNCHANGED <<git, step, accepted, human, kept, dropped, left, torn, litter, hooked>>

(* Where a move of the branch is done and its row not yet written.         *)
Unrecorded == {"committed", "reset", "rolledback", "revert"}

(* A crash, or a stop whose recording failed.  What is in the place stays. *)
Crash ==
    /\ proc # "down"
    /\ Leave
    /\ torn' = (torn \/ (pc \in Unrecorded /\ branch # Baseline))
    /\ litter' = IF proc # "recovering" /\ pc \notin {"idle", "step"}
                 THEN litter \cup Tree ELSE litter
    /\ UNCHANGED <<git, db, human, kept, dropped, left, stopped, hooked>>

(* The operator moves the branch while no run is up: a commit on top, or a *)
(* reset to where it started.                                              *)
HumanMoves ==
    /\ proc = "down" /\ branch # Absent
    /\ human < MaxMoves
    /\ branch' \in {branch \cup {Human}, {}}
    /\ human' = human + 1
    /\ kept' = kept \cap branch'
    /\ stopped' = {}
    /\ UNCHANGED <<holder, index, edits, fresh, db, run, proc, pc, memory, dropped, left, torn,
                   litter, hooked>>

(* In place the operator leaves the checkout on another branch, or brings  *)
(* it back; git carries the uncommitted edits along.                       *)
HumanSwitches ==
    /\ proc = "down" /\ place = Repo /\ branch # Absent
    /\ human < MaxMoves
    /\ holder' = IF holder = Repo THEN Absent ELSE Repo
    /\ human' = human + 1
    /\ UNCHANGED <<branch, index, edits, fresh, db, run, proc, pc, memory, observers>>

----------------------------------------------------------------------------
(* styre run --resume.                                                     *)

Moved == Baseline # Absent /\ branch # Absent /\ Baseline # branch

(* In place iff the latest dispatch worked in the repository.  Otherwise a *)
(* new worktree root is minted, and the recorded worktree is removed.      *)
Resume(acceptHead) ==
    LET stale == IF Rows = {} THEN Absent ELSE dispatch[Now].place
    IN  /\ proc = "down"
        /\ run < MaxRuns
        /\ Moved => acceptHead
        /\ run' = run + 1
        /\ place' = IF stale = Repo THEN Repo ELSE run + 1
        /\ IF stale \in {Repo, Absent}
           THEN UNCHANGED <<holder, index, edits, fresh>>
           ELSE /\ holder' = IF holder = stale THEN Absent ELSE holder
                /\ index' = {} /\ edits' = {} /\ fresh' = {}
        /\ accepted' = IF Moved THEN [head |-> branch, after |-> Cardinality(Rows)] ELSE accepted
        /\ left' = branch   \* as accepted, or never recorded: the guard compares with it from now on
        /\ torn' = FALSE
        /\ stopped' = IF acceptHead THEN {} ELSE stopped
        /\ proc' = "recovering"
        /\ pc' = IF step.status # "running" \/ note.start # step.start THEN "requeue"
                 ELSE IF acceptHead THEN "undoOnly" ELSE "undo"
        /\ UNCHANGED <<branch, step, dispatch, note, door, pre, before, human, kept, dropped,
                       litter, hooked>>

(* undoInterruptedEdits: in place only, only when a dispatch was open, and *)
(* only while the checkout is on the ticket branch (see RecoverSkips).     *)
RecoverUndo ==
    /\ proc = "recovering" /\ pc \in {"undo", "undoOnly"}
    /\ ~(OffBranch /\ note.before # Absent)
    /\ IF place = Repo /\ note.before # Absent
       THEN undoAttempt(note.before)
       ELSE UNCHANGED <<index, edits, fresh>>
    /\ pc' = IF pc = "undo" THEN "return" ELSE "requeue"
    /\ UNCHANGED <<branch, holder, db, run, proc, memory, human, observers>>

(* resetBranchAfterInterruption: only a branch that the step moved, and    *)
(* that still stands where the step left it.                               *)
Returnable == note.from # Absent /\ note.to # note.from /\ branch = note.to

RecoverReturn ==
    /\ proc = "recovering" /\ pc = "return"
    /\ ~(OffBranch /\ Returnable)
    /\ IF Returnable
       THEN /\ branch' = note.from
            /\ left' = note.from
            /\ IF place = Repo THEN ResetTracked ELSE UNCHANGED <<index, edits>>
            /\ pc' = "revert"
       ELSE /\ pc' = "requeue"
            /\ UNCHANGED <<branch, left, index, edits>>
    /\ UNCHANGED <<holder, fresh, db, run, proc, memory, human, kept, dropped, torn, stopped,
                   litter, hooked>>

(* The resume says what remains of the interrupted step, and goes on.      *)
LeaveRemains ==
    /\ stopped' = {}
    /\ litter' = litter \cup Tree
    /\ pc' = IF pc = "undo" THEN "return" ELSE "requeue"
    /\ UNCHANGED <<git, db, run, proc, memory, human, kept, dropped, left, torn, hooked>>

(* Git refuses the undo or the reset.                                      *)
RecoverRefused ==
    /\ proc = "recovering" /\ pc \in {"undo", "undoOnly", "return"}
    /\ LeaveRemains

(* The operator has left the checkout on another branch: neither touches   *)
(* it.                                                                     *)
RecoverSkips ==
    /\ proc = "recovering" /\ OffBranch
    /\ \/ pc \in {"undo", "undoOnly"} /\ note.before # Absent
       \/ pc = "return" /\ Returnable
    /\ LeaveRemains

(* The step's dispatches since its start become `reverted`.                *)
RecoverRevert ==
    /\ proc = "recovering" /\ pc = "revert"
    /\ dispatch' = [d \in Dispatches |->
                       IF d \in Rows /\ dispatch[d].start = note.start
                       THEN [dispatch[d] EXCEPT !.outcome = "reverted", !.head = note.from]
                       ELSE dispatch[d]]
    /\ pc' = "requeue"
    /\ UNCHANGED <<git, step, note, accepted, run, proc, memory, human, observers>>

(* resetToPending, and driveToTerminal starts.                             *)
RecoverDone ==
    /\ proc = "recovering" /\ pc = "requeue"
    /\ step' = [step EXCEPT !.status = "pending"]
    /\ proc' = "up"
    /\ pc' = "idle"
    /\ UNCHANGED <<git, dispatch, note, accepted, run, memory, human, observers>>

----------------------------------------------------------------------------
Work ==
    \/ BeginStep \/ EnsureWorktree \/ LaunchAgent \/ AgentEdits
    \/ \E outcome \in {"failed", "parked"} : AgentFails(outcome)
    \/ UndoFailed \/ RejectOutput \/ CloseRejected
    \/ \E new \in {"staged", "discarded", "ignored"} : Stage(new)
    \/ Commit \/ CommitFails
    \/ \E ok \in BOOLEAN : CloseCommitted(ok)
    \/ ResetCommitted \/ CloseReset \/ RollBack \/ CloseRolledBack
    \/ Succeed \/ StepFails
End == Exit \/ StopSignal \/ RecordInterruption \/ Crash
Restart ==
    \/ HumanMoves \/ HumanSwitches
    \/ \E acceptHead \in BOOLEAN : Resume(acceptHead)
    \/ RecoverUndo \/ RecoverReturn \/ RecoverRefused \/ RecoverSkips \/ RecoverRevert
    \/ RecoverDone

Next == Work \/ End \/ Restart

Spec == Init /\ [][Next]_vars

----------------------------------------------------------------------------
(* Properties.                                                             *)

(* What one may hope for: the work of succeeded steps stays on the ticket  *)
(* branch, and only the operator takes it off.  ensureWorktree breaks it,  *)
(* in a worktree on any resume, in place on one that finds the checkout on *)
(* another branch.                                                         *)
WorkKept == kept # {} => kept \subseteq branch

(* Nothing else does: no undo, reset, roll-back, stop, crash or resume     *)
(* takes off the branch what a succeeded step left there, unless the       *)
(* operator does or the `-B` of ensureWorktree did.                        *)
OnlyEnsureDrops == kept # {} => kept \subseteq branch \cup dropped

(* A stop is free on the branch too: once a resumed run is up, nothing the *)
(* interrupted start committed, staged or edited is left, unless the       *)
(* operator moved or accepted the branch or left the checkout on another,  *)
(* or git refused the reset.                                               *)
StoppedWorkGone ==
    proc = "up" => stopped \cap (branch \cup (Tree \ litter)) = {}

(* The head that resume compares the branch with is where this program     *)
(* left it, or where the operator accepted it: a run is refused only when  *)
(* somebody else moved the branch, and always then.  The exceptions in     *)
(* place are a crash between a move and the row that records it, and the   *)
(* `-B` on a checkout left elsewhere, which no row records.                *)
BaselineTrue ==
    proc = "down" /\ place = Repo /\ ~torn /\ dropped = {} /\ Baseline # Absent => Baseline = left

(* Between two steps the place holds no unfinished work, but for what the  *)
(* code knowingly leaves: a crashed attempt's edits, strays of read-only   *)
(* steps, and edits whose commit failed.                                   *)
CleanTree == proc = "up" /\ pc = "idle" => Tree \subseteq litter \cup hooked

(* What undoAttempt promises ("called on every pre-commit failure exit so  *)
(* retries start clean").                                                  *)
RetriesStartClean == proc = "up" /\ pc = "idle" => Tree \subseteq litter
=============================================================================
