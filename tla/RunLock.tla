------------------------------- MODULE RunLock -------------------------------
(***************************************************************************)
(* The per-ticket run lock: the file <checkpoint>/run.lock that holds the  *)
(* pid of the process driving the ticket.  Each system call of             *)
(* acquireRunLock and releaseRunLock is one step: the exclusive create and *)
(* the write of the pid are two (writeFileSync opens, then writes), and so *)
(* are reading the pid, probing it with kill(pid, 0) and unlinking.        *)
(*                                                                         *)
(* A member of Procs is one process, named by its pid.  Pids are not       *)
(* reused, which is the kinder assumption for the lock.                    *)
(***************************************************************************)
EXTENDS Naturals

CONSTANTS
    Procs,   \* the styre processes that ever ask for this ticket
    NoProc   \* no pid

ASSUME ProcsAssumption == NoProc \notin Procs

VARIABLES
    file,       \* what the name run.lock points to: its creator, and whether the pid is in it
    place,      \* [Procs -> where in the code]
    read,       \* [Procs -> the pid this process last read]
    overlapped  \* observer: have two processes ever been acquiring at once?

lockVars == <<file, place, read, overlapped>>

NoFile == [by |-> NoProc, full |-> FALSE]

Acquiring == {"try", "writing", "collided", "judging", "unlinking"}
Places == Acquiring \cup {"idle", "holding", "removing", "refused", "done", "dead"}

LockTypeOK ==
    /\ file \in [by : Procs \cup {NoProc}, full : BOOLEAN]
    /\ place \in [Procs -> Places]
    /\ read \in [Procs -> Procs \cup {NoProc}]
    /\ overlapped \in BOOLEAN

LockInit ==
    /\ file = NoFile
    /\ place = [p \in Procs |-> "idle"]
    /\ read = [p \in Procs |-> NoProc]
    /\ overlapped = FALSE

----------------------------------------------------------------------------
Goto(p, to) == place' = [place EXCEPT ![p] = to]

(* isAlive: signal 0 reaches the process.                                  *)
Alive(p) == place[p] \notin {"idle", "dead"}

(* readPid: null when the file is missing, unreadable or holds no integer. *)
PidIn(f) == IF f.full THEN f.by ELSE NoProc

Begin(p) ==
    /\ place[p] = "idle"
    /\ Goto(p, "try")
    /\ overlapped' = (overlapped \/ \E q \in Procs : place[q] \in Acquiring)
    /\ UNCHANGED <<file, read>>

(* open(O_CREAT | O_EXCL): fails with EEXIST when the name exists.         *)
Create(p) ==
    /\ place[p] = "try"
    /\ IF file = NoFile
       THEN file' = [by |-> p, full |-> FALSE] /\ Goto(p, "writing")
       ELSE Goto(p, "collided") /\ UNCHANGED file
    /\ UNCHANGED <<read, overlapped>>

(* The write goes to the inode this process created, even when the name no *)
(* longer points to it; acquireRunLock then returns the lock.              *)
WritePid(p) ==
    /\ place[p] = "writing"
    /\ file' = IF file.by = p THEN [file EXCEPT !.full = TRUE] ELSE file
    /\ Goto(p, "holding")
    /\ UNCHANGED <<read, overlapped>>

ReadPid_TrustEmpty(p) ==
    /\ place[p] = "collided"
    /\ read' = [read EXCEPT ![p] = PidIn(file)]
    /\ Goto(p, IF PidIn(file) = NoProc THEN "try" ELSE "judging")
    /\ UNCHANGED <<file, overlapped>>

ReadPid(p) ==
    /\ place[p] = "collided"
    /\ read' = [read EXCEPT ![p] = PidIn(file)]
    /\ Goto(p, IF PidIn(file) = NoProc THEN "unlinking" ELSE "judging")
    /\ UNCHANGED <<file, overlapped>>

Judge_AlwaysStale(p) ==
    /\ place[p] = "judging"
    /\ Goto(p, "unlinking")
    /\ UNCHANGED <<file, read, overlapped>>

(* A live owner refuses the caller; a dead one leaves a stale file.        *)
Judge(p) ==
    /\ place[p] = "judging"
    /\ Goto(p, IF Alive(read[p]) THEN "refused" ELSE "unlinking")
    /\ UNCHANGED <<file, read, overlapped>>

(* rmSync removes whatever the name points to now.                         *)
Unlink(p) ==
    /\ place[p] = "unlinking"
    /\ file' = NoFile
    /\ Goto(p, "try")
    /\ UNCHANGED <<read, overlapped>>

(* releaseRunLock: read the pid, and remove the name if it is this one.    *)
ReleaseRead(p) ==
    /\ place[p] = "holding"
    /\ Goto(p, IF PidIn(file) = p THEN "removing" ELSE "done")
    /\ UNCHANGED <<file, read, overlapped>>

ReleaseUnlink(p) ==
    /\ place[p] = "removing"
    /\ file' = NoFile
    /\ Goto(p, "done")
    /\ UNCHANGED <<read, overlapped>>

(* kill -9, power, or the process's ordinary exit.                         *)
Die(p) ==
    /\ Alive(p)
    /\ Goto(p, "dead")
    /\ UNCHANGED <<file, read, overlapped>>

Acquire(p) == Create(p) \/ WritePid(p) \/ ReadPid(p) \/ Judge(p) \/ Unlink(p)
Release(p) == ReleaseRead(p) \/ ReleaseUnlink(p)

LockNext == \E p \in Procs : Begin(p) \/ Acquire(p) \/ Release(p) \/ Die(p)

(* acquireRunLock is one synchronous loop: it runs on until it returns or  *)
(* the process dies.  Nothing obliges a holder ever to release.            *)
Fairness == \A p \in Procs : WF_lockVars(Acquire(p))

LockSpec == LockInit /\ [][LockNext]_lockVars /\ Fairness

----------------------------------------------------------------------------
Holding(p) == place[p] = "holding"

(* At most one live process drives a ticket: what run-lock.ts promises     *)
(* ("atomic O_EXCL create") and resumeRun relies on.                       *)
MutualExclusion == \A p, q \in Procs : Holding(p) /\ Holding(q) => p = q

(* It does hold for as long as no two processes have been inside           *)
(* acquireRunLock at the same time, whatever crashed before and whatever   *)
(* a crash left in the file.                                               *)
SerialMutualExclusion == ~overlapped => MutualExclusion

(* Nobody's release, reclaim or crash takes the file of a holder away as   *)
(* long as acquisitions are serial: releaseRunLock's "never clobbers".     *)
SerialNoClobber ==
    ~overlapped => \A p \in Procs : Holding(p) => file = [by |-> p, full |-> TRUE]

(* acquireRunLock always answers: a stale, empty or vanished lock file     *)
(* never makes it loop for ever, even when several processes reclaim it.   *)
AcquireAnswers ==
    \A p \in Procs : place[p] = "try" ~> place[p] \in {"holding", "refused", "dead"}
=============================================================================
