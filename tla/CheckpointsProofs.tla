-------------------------- MODULE CheckpointsProofs --------------------------
(***************************************************************************)
(* The properties of module Checkpoints, for any set of processes.         *)
(*                                                                         *)
(* The argument: as long as no run begins between another command's look   *)
(* and what it then does (~raced), holding the lock and being about to     *)
(* delete exclude each other (Exclusive).  So what a holder finds when it  *)
(* opens the database (Opened), the worktree that a deletion has freed     *)
(* (Freed), and the state that the listing judged (Judged) stay as they    *)
(* were until they are acted upon.                                         *)
(***************************************************************************)
EXTENDS Checkpoints, TLAPS

(* Between acquireRunLock and releaseRunLock.                              *)
Held(p) == pc[p] \in {"open", "reconcile", "drive", "close"}
Deleting(p) == pc[p] \in {"free", "remove"}

(* A holder's pid is in the lock file, and nobody is about to delete.      *)
Exclusive ==
    \A p \in Procs : Held(p) =>
        /\ lock = p
        /\ dir
        /\ \A q \in Procs : ~Deleting(q)

(* A holder writes to the database that run.db names; a run that has not   *)
(* opened it yet is the one to make it.                                    *)
Opened ==
    \A p \in Procs :
        /\ pc[p] \in {"reconcile", "drive"} => db.by = p
        /\ pc[p] = "open" /\ cmd[p] # "resume" => db = NoDb

(* Where a folder was removed, or is about to be, no worktree of styre is  *)
(* left.                                                                   *)
Freed ==
    (~dir \/ \E q \in Procs : pc[q] = "remove") => holder.kind \notin {"styre", "prunable"}

(* A ticket that nobody drives and that waits for its merge, and for       *)
(* nothing else, was delivered or cut off.                                 *)
Settled == db.merge /\ db.approval /\ ~db.resume => delivered \/ cutOff
Judged ==
    /\ (\A p \in Procs : pc[p] # "drive") => Settled
    /\ \A q \in Procs : pc[q] \in {"look", "free", "remove"} /\ cmd[q] = "all" /\ ~ranSince[q] =>
           /\ \A p \in Procs : ~Held(p)
           /\ delivered \/ cutOff

IInv ==
    /\ TypeOK
    /\ ~raced => Exclusive /\ Opened /\ Freed /\ BranchIsFree /\ Judged

----------------------------------------------------------------------------
(* A row that is written over is a row.                                    *)
Row == [by : Procs \cup {NoProc}, ticket : BOOLEAN, merge : BOOLEAN, resume : BOOLEAN,
        status : {"none", "blank", "active", "waiting"}, approval : BOOLEAN,
        tree : Procs \cup {NoProc}]

Tree == [kind : {"none", "styre", "prunable", "foreign"}, by : Procs \cup {NoProc}]
Places == {"idle", "look", "free", "remove", "exists", "acquire", "open", "reconcile",
           "drive", "close"} \cup Ends

LEMMA Moved ==
    ASSUME TypeOK, NEW p \in Procs, NEW place \in Places, Goto(p, place)
    PROVE  /\ pc' \in [Procs -> Places]
           /\ pc'[p] = place
           /\ \A q \in Procs \ {p} : pc'[q] = pc[q]
BY DEF TypeOK, Goto, Places

LEMMA FreedTree ==
    ASSUME TypeOK, NEW p \in Procs, FreeBranch(p)
    PROVE  holder' \in Tree /\ holder'.kind = "none"
BY DEF TypeOK, FreeBranch, Nowhere, Tree

----------------------------------------------------------------------------
LEMMA InitInv == Init => IInv
<1> SUFFICES ASSUME Init PROVE IInv
  OBVIOUS
<1>1. \A p \in Procs : pc[p] = "idle"
  BY DEF Init
<1>2. TypeOK
  <2>1. db \in Row /\ holder \in Tree
    BY DEF Init, NoDb, Nowhere, Row, Tree
  <2>2. pc \in [Procs -> Places] /\ ranSince \in [Procs -> BOOLEAN]
    BY DEF Init, Places
  <2> QED
    BY <2>1, <2>2 DEF Init, TypeOK, Row, Tree, Places, Ends
<1>3. Exclusive /\ Opened /\ Freed /\ BranchIsFree
  BY <1>1 DEF Init, Exclusive, Opened, Freed, BranchIsFree, Held, Runs, Driving, Nowhere
<1>4. Judged
  BY <1>1 DEF Init, Judged, Settled, NoDb
<1> QED
  BY <1>2, <1>3, <1>4 DEF IInv

LEMMA TypeStep == TypeOK /\ [Next]_vars => TypeOK'
<1> SUFFICES ASSUME TypeOK, [Next]_vars PROVE TypeOK'
  OBVIOUS
<1> USE DEF Row, Tree, Places, Ends
<1>0. db \in Row /\ holder \in Tree /\ pc \in [Procs -> Places] /\ cmd \in [Procs -> Commands]
  BY DEF TypeOK
<1>1. CASE UNCHANGED vars
  BY <1>1 DEF vars, folder, control, observers, TypeOK
<1>2. CASE TmpCleaned \/ OperatorTree
  <2>1. holder' \in Tree
    BY <1>0, <1>2 DEF TmpCleaned, OperatorTree, Nowhere
  <2> QED
    BY <1>2, <2>1 DEF TmpCleaned, OperatorTree, folder, control, observers, TypeOK
<1>3. ASSUME NEW p \in Procs, Step(p) PROVE TypeOK'
  <2>1. pc' \in [Procs -> Places]
    BY <1>0, <1>3 DEF Step, Start, Look, Free, Remove, Exists, Acquire, Open, OpenFails, Resume,
       MakeTree, Dispatch, Advance, Await, Deliver, Pause, Finish, Park, Close, Quit, Die, Goto,
       control, Commands
  <2>2. db' \in Row
    <3>1. CASE Open(p)
      <4>1. Ticket(p) \in Row /\ Blank(p) \in Row /\ [db EXCEPT !.by = p] \in Row
        BY <1>0 DEF Ticket, Blank, NoDb
      <4> QED
        BY <3>1, <4>1 DEF Open
    <3>2. CASE Remove(p)
      BY <3>2 DEF Remove, NoDb
    <3>3. CASE Resume(p) \/ Dispatch(p)
      <4>1. /\ [db EXCEPT !.resume = FALSE, !.status = "active"] \in Row
            /\ [db EXCEPT !.tree = p] \in Row
        BY <1>0
      <4> QED
        BY <1>0, <3>3, <4>1 DEF Resume, Dispatch, Write
    <3>4. CASE Advance(p) \/ Await(p) \/ Pause(p)
      <4>1. /\ [db EXCEPT !.merge = ~@] \in Row
            /\ [db EXCEPT !.approval = TRUE, !.status = "waiting"] \in Row
            /\ [db EXCEPT !.resume = TRUE, !.status = "waiting"] \in Row
        BY <1>0
      <4> QED
        BY <1>0, <3>4, <4>1 DEF Advance, Await, Pause, Write
    <3> QED
      BY <1>0, <1>3, <3>1, <3>2, <3>3, <3>4 DEF Step, Start, Look, Free, Exists, Acquire, OpenFails,
         MakeTree, Deliver, Finish, Park, Close, Quit, Die, folder
  <2>3. holder' \in Tree
    <3>1. [kind |-> "styre", by |-> p] \in Tree
      OBVIOUS
    <3>2. FreeBranch(p) => holder' \in Tree
      BY FreedTree
    <3> QED
      BY <1>0, <1>3, <3>1, <3>2 DEF Step, Start, Look, Free, Remove, Exists, Acquire, Open, OpenFails,
         Resume, MakeTree, Dispatch, Advance, Await, Deliver, Pause, Finish, Park, Close, Quit, Die
  <2>4. /\ dir' \in BOOLEAN /\ lock' \in Procs \cup {NoProc} /\ transcript' \in BOOLEAN
        /\ cmd' \in [Procs -> Commands]
    BY <1>0, <1>3 DEF Step, Start, Look, Free, Remove, Exists, Acquire, Open, OpenFails, Resume,
       MakeTree, Dispatch, Advance, Await, Deliver, Pause, Finish, Park, Close, Quit, Die, folder,
       control, TypeOK
  <2>5. /\ delivered' \in BOOLEAN /\ cutOff' \in BOOLEAN /\ raced' \in BOOLEAN
        /\ ranSince' \in [Procs -> BOOLEAN]
    BY <1>0, <1>3 DEF Step, Start, Look, Free, Remove, Exists, Acquire, Open, OpenFails, Resume,
       MakeTree, Dispatch, Advance, Await, Deliver, Pause, Finish, Park, Close, Quit, Die,
       observers, TypeOK
  <2> QED
    BY <2>1, <2>2, <2>3, <2>4, <2>5 DEF TypeOK
<1> QED
  BY <1>1, <1>2, <1>3 DEF Next

(* Where a command begins; clean --all deletes what it listed.             *)
LEMMA Started ==
    ASSUME TypeOK, NEW p \in Procs, Start(p)
    PROVE  /\ pc'[p] \in {"look", "exists", "acquire", "done"}
           /\ \A q \in Procs \ {p} : pc'[q] = pc[q]
           /\ cmd[p] = "all" /\ pc'[p] # "done" => Listed(p)
<1>1. cmd[p] \in Commands /\ pc \in [Procs -> Places]
  BY DEF TypeOK, Places
<1>2. PICK place \in {"look", "exists", "acquire", "done"} :
         Goto(p, place) /\ (cmd[p] = "all" /\ place # "done" => Listed(p))
  BY <1>1 DEF Start, Commands
<1> QED
  BY <1>1, <1>2, Moved DEF Places, Ends

(* What has been raced stays so.                                           *)
LEMMA RacedSticks == TypeOK /\ [Next]_vars /\ ~raced' => ~raced
BY DEF TypeOK, Next, Step, Start, Look, Free, Remove, Exists, Acquire, Open, OpenFails, Resume,
   MakeTree, Dispatch, Advance, Await, Deliver, Pause, Finish, Park, Close, Quit, Die, TmpCleaned,
   OperatorTree, vars, observers

(* One process at a time holds the lock.                                   *)
LEMMA OneHolder ==
    ASSUME Exclusive, NEW p \in Procs, NEW q \in Procs, Held(p), Held(q)
    PROVE  p = q
BY DEF Exclusive

(* Another command sees the holder.                                        *)
LEMMA HolderSeen ==
    ASSUME Exclusive, NEW p \in Procs, NEW q \in Procs \ {p}, Held(q)
    PROVE  LiveOther(p)
BY ProcsAssumption DEF Exclusive, Held, LiveOther, Alive, Ends

LEMMA ExclusiveStep ==
    TypeOK /\ Exclusive /\ [Next]_vars /\ ~raced' => Exclusive'
<1> SUFFICES ASSUME TypeOK, Exclusive, [Next]_vars, ~raced' PROVE Exclusive'
  OBVIOUS
<1> USE DEF TypeOK, Exclusive, Held, Deleting, Goto
<1>1. CASE UNCHANGED vars
  BY <1>1 DEF vars, folder, control
<1>2. CASE TmpCleaned \/ OperatorTree
  BY <1>2 DEF TmpCleaned, OperatorTree, folder, control
<1>3. ASSUME NEW p \in Procs, Step(p) PROVE Exclusive'
  <2>1. CASE Start(p)
    BY <2>1, Started DEF Start, folder
  <2>2. CASE Look(p)
    <3>1. CASE pc'[p] = "free"
      <4>1. \A q \in Procs : ~Held(q)
        BY <2>2, <3>1, HolderSeen DEF Look, Refused
      <4> QED
        BY <2>2, <4>1 DEF Look, folder
    <3>2. CASE pc'[p] = "done"
      BY <2>2, <3>2 DEF Look, folder
    <3> QED
      BY <2>2, <3>1, <3>2 DEF Look
  <2>3. CASE Free(p)
    BY <2>3 DEF Free, folder
  <2>4. CASE Remove(p)
    BY <2>4 DEF Remove
  <2>5. CASE Exists(p)
    BY <2>5 DEF Exists
  <2>6. CASE Acquire(p)
    <3>1. CASE LiveOther(p)
      <4>1. dir' /\ UNCHANGED lock /\ pc'[p] = "done" /\ \A q \in Procs \ {p} : pc'[q] = pc[q]
        BY <2>6, <3>1 DEF Acquire
      <4> QED
        BY <4>1
    <3>2. CASE ~LiveOther(p)
      <4>1. \A q \in Procs : ~Held(q)
        BY <2>6, <3>2, HolderSeen DEF Acquire
      <4>2. \A q \in Procs \ {p} : ~Deleting(q)
        BY <2>6, <3>2 DEF Acquire, Unheld
      <4>3. /\ dir' /\ lock' = p /\ pc'[p] = "open"
            /\ \A q \in Procs \ {p} : pc'[q] = pc[q]
        BY <2>6, <3>2 DEF Acquire
      <4> QED
        BY <4>1, <4>2, <4>3
    <3> QED
      BY <3>1, <3>2
  <2>7. CASE Open(p) \/ OpenFails(p)
    BY <2>7 DEF Open, OpenFails, folder
  <2>8. CASE Resume(p)
    BY <2>8 DEF Resume
  <2>9. CASE MakeTree(p) \/ Dispatch(p) \/ Advance(p) \/ Await(p) \/ Deliver(p) \/ Pause(p)
    BY <2>9 DEF MakeTree, Dispatch, Advance, Await, Deliver, Pause, folder, control
  <2>10. CASE Finish(p) \/ Quit(p) \/ Die(p)
    BY <2>10 DEF Finish, Quit, Die, Driving, Ends, folder
  <2>11. CASE Park(p)
    BY <2>11 DEF Park, Runs, Driving
  <2>12. CASE Close(p)
    BY <2>12, OneHolder DEF Close
  <2> QED
    BY <1>3, <2>1, <2>2, <2>3, <2>4, <2>5, <2>6, <2>7, <2>8, <2>9, <2>10, <2>11, <2>12 DEF Step
<1> QED
  BY <1>1, <1>2, <1>3 DEF Next

(* What a holder finds when it opens the database is what it checked, and  *)
(* what it drives stays the file it opened.                                *)
LEMMA OpenedStep ==
    TypeOK /\ Exclusive /\ Opened /\ [Next]_vars /\ ~raced' => Opened'
<1> SUFFICES ASSUME TypeOK, Exclusive, Opened, [Next]_vars, ~raced' PROVE Opened'
  OBVIOUS
<1> USE DEF TypeOK, Opened, Goto
<1>1. CASE UNCHANGED vars
  BY <1>1 DEF vars, folder, control
<1>2. CASE TmpCleaned \/ OperatorTree
  BY <1>2 DEF TmpCleaned, OperatorTree, folder, control
<1>3. ASSUME NEW p \in Procs, Step(p) PROVE Opened'
  <2>0. CASE Start(p)
    BY <2>0, Started DEF Start, folder
  <2>1. CASE Look(p) \/ Free(p) \/ Exists(p)
    BY <2>1 DEF Look, Free, Exists, folder
  <2>2. CASE Remove(p)
    BY <2>2 DEF Remove, Exclusive, Held, Deleting
  <2>3. CASE Acquire(p)
    <3>1. CASE LiveOther(p)
      BY <2>3, <3>1 DEF Acquire
    <3>2. CASE ~LiveOther(p)
      BY <2>3, <3>2 DEF Acquire, Overtaken
    <3> QED
      BY <3>1, <3>2
  <2>4. CASE Open(p)
    <3>1. \A q \in Procs \ {p} : ~Held(q)
      BY <2>4, OneHolder DEF Open, Held
    <3>2. db'.by = p
      BY <2>4 DEF Open, Ticket, Blank, NoDb
    <3>3. pc'[p] # "open" /\ \A q \in Procs \ {p} : pc'[q] = pc[q]
      BY <2>4 DEF Open
    <3> QED
      BY <3>1, <3>2, <3>3 DEF Held
  <2>5. CASE OpenFails(p) \/ Finish(p) \/ Quit(p) \/ Die(p) \/ Park(p) \/ Close(p)
    BY <2>5 DEF OpenFails, Finish, Quit, Die, Park, Close, Ends, folder
  <2>6. CASE MakeTree(p) \/ Deliver(p)
    BY <2>6 DEF MakeTree, Deliver, folder, control
  <2>7. CASE Resume(p) \/ Dispatch(p) \/ Advance(p) \/ Await(p) \/ Pause(p)
    <3>1. Held(p) /\ db.by = p
      BY <2>7 DEF Resume, Dispatch, Advance, Await, Pause, Runs, Driving, Held
    <3>2. \A q \in Procs \ {p} : ~Held(q)
      BY <3>1, OneHolder
    <3>3. db'.by = p
      BY <2>7, <3>1 DEF Resume, Dispatch, Advance, Await, Pause, Write
    <3>4. pc'[p] # "open" /\ \A q \in Procs \ {p} : pc'[q] = pc[q]
      BY <2>7, <3>1 DEF Resume, Dispatch, Advance, Await, Pause, Runs, Driving, control
    <3> QED
      BY <3>2, <3>3, <3>4 DEF Held
  <2> QED
    BY <1>3, <2>0, <2>1, <2>2, <2>3, <2>4, <2>5, <2>6, <2>7 DEF Step
<1> QED
  BY <1>1, <1>2, <1>3 DEF Next

(* A folder goes after the worktree it leads to, and who makes a worktree  *)
(* is a holder, so the folder is there.                                    *)
LEMMA FreedStep ==
    TypeOK /\ Exclusive /\ Freed /\ [Next]_vars /\ ~raced' => Freed'
<1> SUFFICES ASSUME TypeOK, Exclusive, Freed, [Next]_vars, ~raced' PROVE Freed'
  OBVIOUS
<1> USE DEF TypeOK, Freed, Goto
<1>1. CASE UNCHANGED vars
  BY <1>1 DEF vars, folder, control
<1>2. CASE TmpCleaned \/ OperatorTree
  BY <1>2 DEF TmpCleaned, OperatorTree, folder, control, Nowhere
<1>3. ASSUME NEW p \in Procs, Step(p) PROVE Freed'
  <2>1. CASE Start(p)
    BY <2>1, Started DEF Start, folder
  <2>2. CASE Look(p)
    BY <2>2 DEF Look, folder
  <2>3. CASE Free(p)
    <3>1. CASE FreeBranch(p)
      BY <3>1, FreedTree
    <3>2. CASE UNCHANGED holder /\ Goto(p, "done")
      BY <2>3, <3>2 DEF Free, folder
    <3> QED
      BY <2>3, <3>1, <3>2 DEF Free
  <2>4. CASE Remove(p)
    BY <2>4 DEF Remove
  <2>5. CASE Exists(p)
    BY <2>5 DEF Exists
  <2>6. CASE Acquire(p)
    <3>1. dir' /\ UNCHANGED holder /\ pc'[p] \in {"done", "open"} /\ \A q \in Procs \ {p} : pc'[q] = pc[q]
      BY <2>6 DEF Acquire
    <3> QED
      BY <3>1
  <2>7. CASE Open(p) \/ OpenFails(p) \/ Finish(p) \/ Quit(p) \/ Die(p) \/ Park(p) \/ Close(p)
    BY <2>7 DEF Open, OpenFails, Finish, Quit, Die, Park, Close, Ends, folder
  <2>8. CASE Resume(p)
    <3>1. UNCHANGED dir /\ \A q \in Procs : pc'[q] = "remove" => pc[q] = "remove"
      BY <2>8 DEF Resume
    <3>2. UNCHANGED holder \/ FreeBranch(p)
      BY <2>8 DEF Resume
    <3> QED
      BY <3>1, <3>2, FreedTree
  <2>9. CASE MakeTree(p)
    BY <2>9 DEF MakeTree, Exclusive, Held, Deleting, Runs, Driving, folder, control
  <2>10. CASE Dispatch(p) \/ Advance(p) \/ Await(p) \/ Deliver(p) \/ Pause(p)
    BY <2>10 DEF Dispatch, Advance, Await, Deliver, Pause, folder, control
  <2> QED
    BY <1>3, <2>1, <2>2, <2>3, <2>4, <2>5, <2>6, <2>7, <2>8, <2>9, <2>10 DEF Step
<1> QED
  BY <1>1, <1>2, <1>3 DEF Next

(* A resume frees the branch of the recorded worktree before it drives; a  *)
(* new run has nothing recorded.                                           *)
LEMMA BranchStep ==
    TypeOK /\ Exclusive /\ Opened /\ BranchIsFree /\ [Next]_vars /\ ~raced /\ ~raced' => BranchIsFree'
<1> SUFFICES ASSUME TypeOK, Exclusive, Opened, BranchIsFree, [Next]_vars, ~raced, ~raced'
             PROVE  BranchIsFree'
  OBVIOUS
<1> USE DEF TypeOK, BranchIsFree, Runs, Driving, Goto
<1>1. CASE UNCHANGED vars
  BY <1>1 DEF vars, folder, control
<1>2. CASE TmpCleaned \/ OperatorTree
  BY <1>2 DEF TmpCleaned, OperatorTree, folder, control, Nowhere
<1>3. ASSUME NEW p \in Procs, Step(p) PROVE BranchIsFree'
  <2>1. CASE Start(p)
    BY <2>1, Started DEF Start, folder
  <2>2. CASE Look(p) \/ Exists(p) \/ OpenFails(p) \/ Finish(p) \/ Quit(p) \/ Die(p) \/ Park(p) \/ Close(p)
    BY <2>2 DEF Look, Exists, OpenFails, Finish, Quit, Die, Park, Close, Ends, folder
  <2>3. CASE Free(p)
    <3>1. CASE FreeBranch(p)
      BY <3>1, FreedTree
    <3>2. CASE UNCHANGED holder /\ Goto(p, "done")
      BY <2>3, <3>2 DEF Free, folder
    <3> QED
      BY <2>3, <3>1, <3>2 DEF Free
  <2>4. CASE Remove(p)
    BY <2>4 DEF Remove, NoDb
  <2>5. CASE Acquire(p)
    <3>1. UNCHANGED <<db, holder>> /\ pc'[p] # "drive" /\ \A q \in Procs \ {p} : pc'[q] = pc[q]
      BY <2>5 DEF Acquire
    <3> QED
      BY <3>1
  <2>6. CASE Open(p)
    <3>1. \A q \in Procs \ {p} : pc'[q] # "drive"
      BY <2>6, OneHolder DEF Open, Held
    <3>2. cmd[p] # "resume" => db'.tree = NoProc
      <4> SUFFICES ASSUME cmd[p] # "resume" PROVE db'.tree = NoProc
        OBVIOUS
      <4>1. ~db.ticket
        BY <2>6 DEF Open, Opened, NoDb
      <4>2. db' = Ticket(p)
        BY <2>6, <4>1 DEF Open
      <4> QED
        BY <4>2 DEF Ticket, Blank, NoDb
    <3>3. cmd[p] = "resume" => pc'[p] # "drive"
      BY <2>6 DEF Open
    <3> QED
      BY <3>1, <3>2, <3>3
  <2>7. CASE Resume(p)
    <3>1. \A q \in Procs \ {p} : pc'[q] # "drive"
      BY <2>7, OneHolder DEF Resume, Held
    <3>2. CASE Stale /\ FreeBranch(p)
      BY <3>2, FreedTree
    <3>3. CASE ~Stale /\ Write(p, [db EXCEPT !.resume = FALSE, !.status = "active"])
      BY <3>1, <3>3 DEF Stale, Write
    <3>4. CASE Goto(p, "close")
      BY <3>1, <3>4
    <3> QED
      BY <2>7, <3>2, <3>3, <3>4 DEF Resume
  <2>8. CASE MakeTree(p) \/ Dispatch(p)
    <3>1. Driving(p) /\ holder'.by = p
      <4>1. CASE MakeTree(p)
        BY <4>1 DEF MakeTree
      <4>2. CASE Dispatch(p)
        BY <4>2 DEF Dispatch
      <4> QED
        BY <2>8, <4>1, <4>2
    <3>2. \A q \in Procs \ {p} : ~Driving(q)
      BY <3>1, OneHolder DEF Held
    <3>3. UNCHANGED pc
      BY <2>8 DEF MakeTree, Dispatch, control
    <3> QED
      BY <3>1, <3>2, <3>3
  <2>9. CASE Advance(p) \/ Await(p) \/ Pause(p)
    <3>1. db'.tree = db.tree /\ (db.resume => db'.resume) /\ UNCHANGED <<holder, pc>>
      BY <2>9 DEF Advance, Await, Pause, Write, control
    <3> QED
      BY <3>1
  <2>10. CASE Deliver(p)
    BY <2>10 DEF Deliver, folder, control
  <2> QED
    BY <1>3, <2>1, <2>2, <2>3, <2>4, <2>5, <2>6, <2>7, <2>8, <2>9, <2>10 DEF Step
<1> QED
  BY <1>1, <1>2, <1>3 DEF Next

(* What the listing saw stays true: a run that leaves a ticket waiting for *)
(* its merge has delivered it or was cut off, and who drives it again has  *)
(* begun since.                                                            *)
LEMMA SettledStep ==
    TypeOK /\ Exclusive /\ Opened /\ Judged /\ [Next]_vars /\ ~raced'
        => ((\A p \in Procs : pc[p] # "drive") => Settled)'
<1> SUFFICES ASSUME TypeOK, Exclusive, Opened, Judged, [Next]_vars, ~raced',
                    \A p \in Procs : pc'[p] # "drive"
             PROVE  Settled'
  OBVIOUS
<1> USE DEF TypeOK, Goto
<1>1. CASE UNCHANGED vars
  BY <1>1 DEF vars, folder, control, observers, Judged, Settled
<1>2. CASE TmpCleaned \/ OperatorTree
  BY <1>2 DEF TmpCleaned, OperatorTree, folder, control, observers, Judged, Settled
<1>3. ASSUME NEW p \in Procs, Step(p) PROVE Settled'
  <2>1. CASE pc[p] # "drive" /\ UNCHANGED <<db, delivered>> /\ (cutOff => cutOff')
             /\ \A q \in Procs \ {p} : pc'[q] = pc[q]
    <3>1. Settled
      BY <2>1 DEF Judged
    <3> QED
      BY <2>1, <3>1 DEF Settled
  <2>2. CASE Start(p)
    BY <2>1, <2>2, Started DEF Start, folder
  <2>3. CASE Look(p) \/ Free(p) \/ Exists(p) \/ Acquire(p) \/ OpenFails(p) \/ Close(p)
    <3>1. /\ pc[p] # "drive" /\ UNCHANGED <<db, delivered, cutOff>>
          /\ \A q \in Procs \ {p} : pc'[q] = pc[q]
      BY <2>3 DEF Look, Free, Exists, Acquire, OpenFails, Close, folder, observers
    <3> QED
      BY <2>1, <3>1
  <2>4. CASE Remove(p)
    BY <2>4 DEF Remove, Settled, NoDb
  <2>5. CASE Open(p)
    <3>1. /\ cmd[p] = "resume" /\ pc[p] # "drive" /\ UNCHANGED <<delivered, cutOff>>
          /\ \A q \in Procs \ {p} : pc'[q] = pc[q]
          /\ db' = Blank(p) \/ db' = [db EXCEPT !.by = p]
      BY <2>5 DEF Open
    <3>2. CASE db' = Blank(p)
      BY <3>2 DEF Settled, Blank, NoDb
    <3>3. CASE db' = [db EXCEPT !.by = p]
      <4>1. Settled
        BY <3>1 DEF Judged
      <4> QED
        BY <3>1, <3>3, <4>1 DEF Settled
    <3> QED
      BY <3>1, <3>2, <3>3
  <2>6. CASE Resume(p)
    BY <2>1, <2>6 DEF Resume, observers
  <2>7. CASE MakeTree(p) \/ Dispatch(p) \/ Advance(p) \/ Await(p) \/ Deliver(p) \/ Pause(p)
    BY <2>7 DEF MakeTree, Dispatch, Advance, Await, Deliver, Pause, Runs, Driving, control
  <2>8. CASE Finish(p)
    BY <2>8 DEF Finish, Settled, folder
  <2>9. CASE Park(p)
    BY <2>9 DEF Park, Runs, Settled, observers
  <2>10. CASE Quit(p) \/ Die(p)
    <3>1. /\ cutOff' = (cutOff \/ Undelivered(p)) /\ UNCHANGED <<db, delivered>>
          /\ \A q \in Procs \ {p} : pc'[q] = pc[q]
      BY <2>10 DEF Quit, Die, folder
    <3>2. CASE pc[p] = "drive"
      BY <3>1, <3>2 DEF Settled, Undelivered
    <3>3. CASE pc[p] # "drive"
      BY <2>1, <3>1, <3>3
    <3> QED
      BY <3>2, <3>3
  <2> QED
    BY <1>3, <2>2, <2>3, <2>4, <2>5, <2>6, <2>7, <2>8, <2>9, <2>10 DEF Step
<1> QED
  BY <1>1, <1>2, <1>3 DEF Next

(* clean --all is at work on what it listed, and no run has begun since.   *)
Sweeping(q) == pc[q] \in {"look", "free", "remove"} /\ cmd[q] = "all" /\ ~ranSince[q]

LEMMA SweepingStep ==
    ASSUME TypeOK, Exclusive, Judged, [Next]_vars, ~raced', NEW q \in Procs, Sweeping(q)'
    PROVE  (\A p \in Procs : ~Held(p))' /\ (delivered \/ cutOff)'
<1> USE DEF TypeOK, Goto
<1>1. CASE UNCHANGED vars
  BY <1>1 DEF vars, folder, control, observers, Judged, Sweeping, Held
<1>2. CASE TmpCleaned \/ OperatorTree
  BY <1>2 DEF TmpCleaned, OperatorTree, folder, control, observers, Judged, Sweeping, Held
<1>3. ASSUME NEW p \in Procs, Step(p)
      PROVE  (\A r \in Procs : ~Held(r))' /\ (delivered \/ cutOff)'
  <2>1. CASE Start(p) /\ p = q
    <3>1. Listed(q) /\ pc'[q] = "look" /\ \A r \in Procs \ {q} : pc'[r] = pc[r]
      BY <2>1, Started DEF Start, Sweeping
    <3>2. \A r \in Procs : ~Held(r)
      BY <2>1, <3>1, HolderSeen DEF Listed, Held, Start
    <3>3. Settled
      BY <3>2 DEF Judged, Held
    <3>4. delivered \/ cutOff
      BY <3>1, <3>3 DEF Listed, Kind, Settled
    <3> QED
      BY <2>1, <3>1, <3>2, <3>4 DEF Start, Held
  <2>2. CASE Sweeping(q)
    <3>1. (\A r \in Procs : ~Held(r)) /\ (delivered \/ cutOff)
      BY <2>2 DEF Judged, Sweeping
    <3>2. CASE Start(p)
      BY <3>1, <3>2, Started DEF Start, Held
    <3>3. CASE Look(p) \/ Free(p) \/ Remove(p) \/ Exists(p)
      BY <3>1, <3>3 DEF Look, Free, Remove, Exists, observers, Held
    <3>4. CASE Acquire(p)
      <4>1. /\ UNCHANGED <<delivered, cutOff>> /\ pc'[p] = "done"
            /\ \A r \in Procs \ {p} : pc'[r] = pc[r]
        BY <3>4 DEF Acquire, Sweeping
      <4> QED
        BY <3>1, <4>1 DEF Held
    <3>5. CASE Die(p)
      BY <3>1, <3>5 DEF Die, Ends, Held
    <3> QED
      BY <1>3, <3>1, <3>2, <3>3, <3>4, <3>5 DEF Step, Open, OpenFails, Resume, MakeTree, Dispatch,
         Advance, Await, Deliver, Pause, Finish, Park, Close, Quit, Runs, Driving, Held
  <2>3. CASE ~Sweeping(q) /\ ~(Start(p) /\ p = q)
    <3>1. CASE Start(p)
      BY <2>3, <3>1, Started DEF Start, Sweeping
    <3>2. CASE Acquire(p)
      BY <2>3, <3>2 DEF Acquire, Sweeping
    <3> QED
      BY <1>3, <2>3, <3>1, <3>2 DEF Step, Look, Free, Remove, Exists, Open, OpenFails, Resume,
         MakeTree, Dispatch, Advance, Await, Deliver, Pause, Finish, Park, Close, Quit, Die, Ends,
         Runs, Driving, observers, control, Sweeping
  <2> QED
    BY <2>1, <2>2, <2>3
<1> QED
  BY <1>1, <1>2, <1>3 DEF Next

LEMMA JudgedStep ==
    TypeOK /\ Exclusive /\ Opened /\ Judged /\ [Next]_vars /\ ~raced' => Judged'
<1> SUFFICES ASSUME TypeOK, Exclusive, Opened, Judged, [Next]_vars, ~raced' PROVE Judged'
  OBVIOUS
<1>1. ((\A p \in Procs : pc[p] # "drive") => Settled)'
  BY SettledStep
<1>2. \A q \in Procs : Sweeping(q)' => (\A p \in Procs : ~Held(p))' /\ (delivered \/ cutOff)'
  BY SweepingStep
<1> QED
  BY <1>1, <1>2 DEF Judged, Sweeping

LEMMA NextInv == IInv /\ [Next]_vars => IInv'
<1> SUFFICES ASSUME IInv, [Next]_vars PROVE IInv'
  OBVIOUS
<1>1. TypeOK /\ TypeOK'
  BY TypeStep DEF IInv
<1>2. ASSUME ~raced' PROVE (Exclusive /\ Opened /\ Freed /\ BranchIsFree /\ Judged)'
  <2>1. ~raced
    BY <1>1, <1>2, RacedSticks
  <2>2. Exclusive /\ Opened /\ Freed /\ BranchIsFree /\ Judged
    BY <2>1 DEF IInv
  <2> QED
    BY <1>1, <1>2, <2>1, <2>2, ExclusiveStep, OpenedStep, FreedStep, BranchStep, JudgedStep
<1> QED
  BY <1>1, <1>2 DEF IInv

----------------------------------------------------------------------------
(* The types, and what the commands rely on, for any set of processes.     *)
THEOREM Inductive == Spec => []IInv
<1> QED
  BY InitInv, NextInv, PTL DEF Spec

(* A driven run keeps its journal and its lock under their names, however  *)
(* many commands clean, discard or resume beside it (run.ts, clean.ts).    *)
THEOREM KeepsCheckpoint == Spec => []RunKeepsCheckpoint
<1>1. IInv => RunKeepsCheckpoint
  BY DEF IInv, Exclusive, Opened, RunKeepsCheckpoint, Held, Driving
<1> QED
  BY <1>1, Inductive, PTL

(* A folder that is gone leaves no worktree of styre behind (clean.ts).    *)
THEOREM NoneOrphaned == Spec => []NoOrphanTree
<1>1. IInv => NoOrphanTree
  BY DEF IInv, Freed, NoOrphanTree
<1> QED
  BY <1>1, Inductive, PTL

(* No recorded leftover holds the branch of a driven run (park.ts).        *)
THEOREM BranchFreed == Spec => []BranchIsFree
<1>1. IInv => BranchIsFree
  BY DEF IInv, BranchIsFree
<1> QED
  BY <1>1, Inductive, PTL

(* clean --all deletes what was delivered, or cut off while it waited for  *)
(* its merge (checkpoints.ts, clean.ts).                                   *)
THEOREM SweptSpared == Spec => SweepSpares
<1>1. IInv /\ [Next]_vars
        => [\A p \in Procs : Remove(p) /\ cmd[p] = "all" /\ ~ranSince[p] =>
                delivered \/ cutOff \/ raced]_vars
  BY DEF IInv, Judged, Remove
<1> QED
  BY <1>1, Inductive, PTL DEF Spec, SweepSpares
=============================================================================
