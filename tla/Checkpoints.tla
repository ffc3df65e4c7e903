----------------------------- MODULE Checkpoints -----------------------------
(***************************************************************************)
(* The checkpoint folder of one ticket and the commands that make, drive,  *)
(* list and delete it: styre run, run --fresh, run --resume, clean and     *)
(* clean --all, in several processes at once.  What a command reads in one *)
(* call (the lock file, the database, git's list of worktrees) is read in  *)
(* one step; a deletion is three: look at the lock, free the branch, and   *)
(* remove the folder.                                                      *)
(*                                                                         *)
(* acquireRunLock is one step here; its races are module RunLock's.  Every *)
(* process gives one command, and pids are not reused.  Runs are in        *)
(* worktree mode; other tickets only take time from clean --all.           *)
(***************************************************************************)
EXTENDS Naturals

CONSTANTS Procs, NoProc

ASSUME ProcsAssumption == NoProc \notin Procs

VARIABLES
    dir,        \* does the checkpoint folder exist?
    lock,       \* the pid in run.lock
    db,         \* run.db: who has it open or wrote it last, and what it holds
    transcript, \* is there a transcript.json?
    holder,     \* the worktree that has the ticket's branch checked out, and whose it is
    pc, cmd,    \* by process
    delivered,  \* observers: does the pull request show the ticket's head?
    cutOff,     \* was a run that waits for the merge cut off before it knew?
    raced,      \* has a run begun between another command's look and what it did on it?
    ranSince    \* by process: has a run begun since the look that listed the ticket?

folder == <<dir, lock, db, transcript>>
control == <<pc, cmd>>
observers == <<delivered, cutOff, raced, ranSince>>
vars == <<folder, holder, control, observers>>

NoDb == [by |-> NoProc, ticket |-> FALSE, status |-> "none", merge |-> FALSE, resume |-> FALSE,
         approval |-> FALSE, tree |-> NoProc]
Blank(p) == [NoDb EXCEPT !.by = p, !.status = "blank"]
Ticket(p) == [Blank(p) EXCEPT !.ticket = TRUE, !.status = "active"]
Nowhere == [kind |-> "none", by |-> NoProc]
Commands == {"run", "fresh", "resume", "clean", "all"}
Ends == {"done", "dead"}

TypeOK ==
    /\ dir \in BOOLEAN /\ lock \in Procs \cup {NoProc} /\ transcript \in BOOLEAN
    /\ db \in [by : Procs \cup {NoProc}, ticket : BOOLEAN, merge : BOOLEAN, resume : BOOLEAN,
               status : {"none", "blank", "active", "waiting"}, approval : BOOLEAN,
               tree : Procs \cup {NoProc}]
    /\ holder \in [kind : {"none", "styre", "prunable", "foreign"}, by : Procs \cup {NoProc}]
    /\ pc \in [Procs -> {"idle", "look", "free", "remove", "exists", "acquire", "open", "reconcile",
                         "drive", "close"} \cup Ends]
    /\ cmd \in [Procs -> Commands]
    /\ delivered \in BOOLEAN /\ cutOff \in BOOLEAN /\ raced \in BOOLEAN
    /\ ranSince \in [Procs -> BOOLEAN]

Init ==
    /\ dir = FALSE /\ lock = NoProc /\ db = NoDb /\ transcript = FALSE
    /\ holder \in {Nowhere, [kind |-> "foreign", by |-> NoProc]}
    /\ pc = [p \in Procs |-> "idle"] /\ cmd \in [Procs -> Commands]
    /\ delivered = FALSE /\ cutOff = FALSE /\ raced = FALSE
    /\ ranSince = [p \in Procs |-> FALSE]

----------------------------------------------------------------------------
Goto(p, place) == pc' = [pc EXCEPT ![p] = place]
Alive(p) == pc[p] \notin {"idle"} \cup Ends

(* runLockStatus: a live owner that is not this process.                   *)
LiveOther(p) == lock # NoProc /\ lock # p /\ Alive(lock)

(* A bug: a ticket that waits for its merge is ready whatever else pends.  *)
Kind_ReadyFirst ==
    IF db.merge /\ db.approval THEN "pr-ready"
    ELSE IF db.resume THEN "needs_you"
    ELSE IF transcript THEN "budget"
    ELSE IF db.status = "active" THEN "interrupted" ELSE "other"

(* classifyCheckpointDb.  Nothing in the program delivers the approval of  *)
(* a merge, so no ticket gets as far as "done".                            *)
Kind ==
    IF db.resume THEN "needs_you"
    ELSE IF db.merge /\ db.approval THEN "pr-ready"
    ELSE IF transcript THEN "budget"
    ELSE IF db.status = "active" THEN "interrupted" ELSE "other"

(* clean --all lists once, looks at each lock again, and then deletes.     *)
Listed(p) == db.ticket /\ Kind = "pr-ready" /\ ~LiveOther(p)

Start(p) ==
    /\ pc[p] = "idle"
    /\ Goto(p, CASE cmd[p] = "run" -> "exists"
                 [] cmd[p] = "fresh" -> IF dir THEN "look" ELSE "exists"
                 [] cmd[p] = "resume" -> IF db # NoDb THEN "acquire" ELSE "done"
                 [] cmd[p] = "clean" -> IF db # NoDb THEN "look" ELSE "done"
                 [] cmd[p] = "all" -> IF Listed(p) THEN "look" ELSE "done")
    /\ ranSince' = [ranSince EXCEPT ![p] = FALSE]
    /\ UNCHANGED <<folder, holder, cmd, delivered, cutOff, raced>>

Refused_Never(p) == FALSE           \* a bug: the lock is not looked at again

(* The refusals before anything is deleted: a live run has the ticket, or  *)
(* there is nothing in the database to clean.                              *)
Refused(p) == LiveOther(p) \/ (cmd[p] = "clean" /\ ~db.ticket)

Look(p) ==
    /\ pc[p] = "look"
    /\ Goto(p, IF Refused(p) THEN "done" ELSE "free")
    /\ UNCHANGED <<folder, holder, cmd, observers>>

(* A bug: only a worktree that is gone already is removed.                 *)
FreeBranch_DanglingOnly(p) ==
    IF holder.kind = "prunable" THEN holder' = Nowhere ELSE UNCHANGED holder

(* reconcileWorktree, told the checkpoint folder: a live run's worktree is *)
(* not touched; the recorded one, a dangling one and a leftover of styre   *)
(* are removed, anybody else's is refused.                                 *)
FreeBranch(p) ==
    IF LiveOther(p) THEN holder.kind = "none" /\ UNCHANGED holder
    ELSE holder.kind # "foreign" /\ holder' = Nowhere
CannotFree(p) ==
    IF LiveOther(p) THEN holder.kind # "none" ELSE holder.kind = "foreign"

(* reapEffort reads the recorded worktree first, and fails without a       *)
(* database.                                                               *)
Free(p) ==
    /\ pc[p] = "free"
    /\ \/ FreeBranch(p) /\ (db # NoDb \/ cmd[p] = "fresh") /\ Goto(p, "remove")
       \/ /\ CannotFree(p) \/ (db = NoDb /\ cmd[p] # "fresh")
          /\ Goto(p, "done") /\ UNCHANGED holder
    /\ UNCHANGED <<folder, cmd, observers>>

(* rmSync of the whole folder; --fresh goes on to make its own.            *)
Remove(p) ==
    /\ pc[p] = "remove"
    /\ dir' = FALSE /\ lock' = NoProc /\ db' = NoDb /\ transcript' = FALSE
    /\ Goto(p, IF cmd[p] = "fresh" THEN "exists" ELSE "done")
    /\ UNCHANGED <<holder, cmd, observers>>

(* "a checkpoint already exists"; then mkdir.                              *)
Exists(p) ==
    /\ pc[p] = "exists"
    /\ IF db # NoDb THEN Goto(p, "done") /\ UNCHANGED dir ELSE Goto(p, "acquire") /\ dir' = TRUE
    /\ UNCHANGED <<lock, db, transcript, holder, cmd, observers>>

(* Has this process looked, and not yet acted on what it saw?              *)
Unheld(q) == pc[q] \in {"free", "remove"} \/ (pc[q] = "acquire" /\ cmd[q] # "resume")

(* Was the checkpoint that this run did not find made in the meantime?     *)
Overtaken(p) == cmd[p] # "resume" /\ db # NoDb

Acquire(p) ==
    /\ pc[p] = "acquire"
    /\ dir' = TRUE                      \* acquireRunLock makes the folder, too
    /\ IF LiveOther(p)
       THEN Goto(p, "done") /\ UNCHANGED <<lock, raced, ranSince>>
       ELSE /\ Goto(p, "open") /\ lock' = p
            /\ raced' = (raced \/ (\E q \in Procs \ {p} : Unheld(q)) \/ Overtaken(p))
            /\ ranSince' = [q \in Procs |-> TRUE]
    /\ UNCHANGED <<db, transcript, holder, cmd, delivered, cutOff>>

(* migrate and openDb make the file if it is not there.  A run inserts its *)
(* ticket; a resume needs one, and leaves a database without.              *)
Open(p) ==
    /\ pc[p] = "open" /\ dir
    /\ \/ /\ cmd[p] # "resume"
          /\ db' = IF db.ticket THEN [db EXCEPT !.by = p] ELSE Ticket(p)
          /\ Goto(p, "drive")
          /\ IF db.ticket THEN UNCHANGED <<delivered, cutOff>> ELSE delivered' = FALSE /\ cutOff' = FALSE
       \/ /\ cmd[p] = "resume" /\ db.ticket
          /\ db' = [db EXCEPT !.by = p]
          /\ Goto(p, "reconcile")
          /\ UNCHANGED <<delivered, cutOff>>
       \/ /\ cmd[p] = "resume" /\ ~db.ticket
          /\ db' = Blank(p)
          /\ Goto(p, "close")
          /\ UNCHANGED <<delivered, cutOff>>
    /\ UNCHANGED <<dir, lock, transcript, holder, cmd, raced, ranSince>>

(* The folder is gone: openDb throws, and the lock with it.                *)
OpenFails(p) ==
    /\ pc[p] = "open" /\ ~dir
    /\ Goto(p, "close")
    /\ UNCHANGED <<folder, holder, cmd, observers>>

----------------------------------------------------------------------------
(* A run writes through the file it has open, which need not be the one    *)
(* that its name means by now.                                             *)
Write(p, row) == db' = IF db.by = p THEN row ELSE db

(* What a resume does about the worktree before it is driven: nothing, if  *)
(* no dispatch has recorded one.                                           *)
Stale_Ignored == FALSE      \* a bug: the new worktree is made beside the old one
Stale == db.tree # NoProc

(* resumeRun, from the reconcile to the transaction: it consumes what      *)
(* waits for it.  A moved head, an undecided review or a forge that does   *)
(* not answer leave the checkpoint as it is (Quit).                        *)
Resume(p) ==
    /\ pc[p] = "reconcile"
    /\ \/ /\ IF Stale THEN FreeBranch(p) ELSE UNCHANGED holder
          /\ Write(p, [db EXCEPT !.resume = FALSE, !.status = "active"])
          /\ Goto(p, "drive")
       \/ Stale /\ CannotFree(p) /\ Goto(p, "close") /\ UNCHANGED <<db, holder>>
    /\ UNCHANGED <<dir, lock, transcript, cmd, observers>>

Driving(p) == pc[p] = "drive"
Runs(p) == Driving(p) /\ ~db.resume

(* ensureWorktree: without a lock folder to look at, only a dangling       *)
(* worktree is replaced.  provision makes one before any dispatch.         *)
MakeTree(p) ==
    /\ Runs(p) /\ holder.kind \in {"none", "prunable"}
    /\ holder' = [kind |-> "styre", by |-> p]
    /\ UNCHANGED <<folder, control, observers>>

(* A dispatch row names the worktree; it may move the head.                *)
Dispatch(p) ==
    /\ Runs(p) /\ holder.by = p /\ holder.kind = "styre"
    /\ Write(p, [db EXCEPT !.tree = p])
    /\ delivered' \in {delivered, FALSE}
    /\ UNCHANGED <<dir, lock, transcript, holder, control, cutOff, raced, ranSince>>

(* To merge, or out of it again.                                           *)
Advance(p) ==
    /\ Runs(p) /\ db.tree = p
    /\ Write(p, [db EXCEPT !.merge = ~@])
    /\ UNCHANGED <<dir, lock, transcript, holder, control, observers>>

(* human_merge_approval; the push and the pull request may still be in the *)
(* outbox, or fail there.                                                  *)
Await(p) ==
    /\ Runs(p) /\ db.merge /\ ~db.approval
    /\ Write(p, [db EXCEPT !.approval = TRUE, !.status = "waiting"])
    /\ UNCHANGED <<dir, lock, transcript, holder, control, observers>>

Deliver(p) ==
    /\ Runs(p) /\ db.merge /\ delivered' = TRUE
    /\ UNCHANGED <<folder, holder, control, cutOff, raced, ranSince>>

(* A pause: an escalation, an undelivered push, a worktree that cannot be  *)
(* had.                                                                    *)
Pause(p) ==
    /\ Runs(p)
    /\ Write(p, [db EXCEPT !.resume = TRUE, !.status = "waiting"])
    /\ UNCHANGED <<dir, lock, transcript, holder, control, observers>>

(* driveToTerminal returns: paused, or ready with what it delivered.       *)
Finish(p) ==
    /\ Driving(p)
    /\ db.resume \/ (db.merge /\ db.approval /\ delivered)
    /\ Goto(p, "close")
    /\ cutOff' = FALSE
    /\ UNCHANGED <<folder, holder, cmd, delivered, raced, ranSince>>

(* dumpPark, between two steps of a ticket that does not wait.             *)
Park(p) ==
    /\ Runs(p) /\ ~db.approval
    /\ dir' = TRUE /\ transcript' = TRUE
    /\ Goto(p, "close")
    /\ UNCHANGED <<lock, db, holder, cmd, observers>>

(* releaseRunLock, if the pid in it is this one's.                         *)
Close(p) ==
    /\ pc[p] = "close"
    /\ lock' = IF lock = p THEN NoProc ELSE lock
    /\ Goto(p, "done")
    /\ UNCHANGED <<dir, db, transcript, holder, cmd, observers>>

Undelivered(p) ==
    pc[p] \in {"reconcile", "drive"} /\ db.merge /\ db.approval /\ ~delivered

(* A refusal or an exception while the lock is held, or a stop signal,     *)
(* whose handler releases it; and an end that leaves everything.           *)
Quit(p) ==
    /\ pc[p] \in {"open", "reconcile", "drive"}
    /\ Goto(p, "close")
    /\ cutOff' = (cutOff \/ Undelivered(p))
    /\ UNCHANGED <<folder, holder, cmd, delivered, raced, ranSince>>

Die(p) ==
    /\ Alive(p)
    /\ Goto(p, "dead")
    /\ cutOff' = (cutOff \/ Undelivered(p))
    /\ UNCHANGED <<folder, holder, cmd, delivered, raced, ranSince>>

----------------------------------------------------------------------------
(* The temporary folder is emptied; the operator checks the branch out in  *)
(* a worktree of their own, or gives it back.                              *)
TmpCleaned ==
    /\ holder.kind = "styre" /\ ~Alive(holder.by)
    /\ holder' = [holder EXCEPT !.kind = "prunable"]
    /\ UNCHANGED <<folder, control, observers>>

OperatorTree ==
    /\ \/ holder.kind = "none" /\ holder' = [kind |-> "foreign", by |-> NoProc]
       \/ holder.kind = "foreign" /\ holder' = Nowhere
    /\ UNCHANGED <<folder, control, observers>>

Step(p) ==
    \/ Start(p) \/ Look(p) \/ Free(p) \/ Remove(p)
    \/ Exists(p) \/ Acquire(p) \/ Open(p) \/ OpenFails(p) \/ Resume(p)
    \/ MakeTree(p) \/ Dispatch(p) \/ Advance(p) \/ Await(p) \/ Deliver(p) \/ Pause(p)
    \/ Finish(p) \/ Park(p) \/ Close(p) \/ Quit(p) \/ Die(p)

Next == (\E p \in Procs : Step(p)) \/ TmpCleaned \/ OperatorTree

Spec == Init /\ [][Next]_vars

----------------------------------------------------------------------------
(* A run that is driven keeps its journal and its lock under their names,  *)
(* whatever is cleaned, discarded or resumed beside it: "deleting the dir  *)
(* out from under it would destroy its open run.db + lock" (run.ts).  The  *)
(* commands look at the lock, they do not take it, so this holds only as   *)
(* long as no run begins between such a look and the removal.              *)
RunKeepsCheckpoint ==
    ~raced => \A p \in Procs : Driving(p) => dir /\ lock = p /\ db.by = p

(* clean --all deletes what has been delivered, however many pauses and    *)
(* resumes went before and whatever is still pending in the database;      *)
(* except a ticket that was run since it was listed, one whose run was cut *)
(* off while it waited for its merge, and the window above.                *)
SweepSpares ==
    [][\A p \in Procs : Remove(p) /\ cmd[p] = "all" /\ ~ranSince[p] =>
           delivered \/ cutOff \/ raced]_vars

(* No worktree of styre outlives the checkpoint it belongs to: wherever a  *)
(* deletion is cut off, what is left still leads to it.                    *)
NoOrphanTree == ~raced /\ ~dir => holder.kind \notin {"styre", "prunable"}

(* A run that is driven has the branch, or can get it, or a human has it:  *)
(* no leftover of an earlier run is in its way, unless that run ended      *)
(* before its first dispatch and so never recorded its worktree.           *)
BranchIsFree ==
    ~raced => \A p \in Procs : Runs(p) /\ holder.kind = "styre" =>
                  holder.by = p \/ db.tree = NoProc

(* clean --all reaps pr-ready efforts, and "pr-ready means a PR exists  *)
(* and shows the verified head" (run-ticket.ts).                           *)
SweptWasDelivered ==
    [][\A p \in Procs : Remove(p) /\ cmd[p] = "all" /\ ~ranSince[p] =>
           delivered]_vars

(* resumeRun "removes THIS ticket's own prior worktree" (park.ts), so that *)
(* git does not refuse the resumed run its branch.                         *)
ResumeGetsItsTree ==
    ~raced => \A p \in Procs : Runs(p) /\ holder.kind = "styre" => holder.by = p
=============================================================================
