--------------------------- MODULE CheckoutProofs ---------------------------
(***************************************************************************)
(* The properties of module Checkout, for any number of dispatches, starts,*)
(* processes and operator moves, in place or in worktrees.                 *)
(*                                                                         *)
(* The invariant has three layers, each inductive given the ones before.   *)
(* Ground: where the run is, and the order of the dispatch rows.  Heads:   *)
(* which commits the branch, the door, the note and the rows name, and     *)
(* that none of them lacks what succeeded.  Hands: whose work is in the    *)
(* branch and in the tree, so that a resume finds what to take back.       *)
(***************************************************************************)
EXTENDS Checkout, TLAPS, FiniteSetTheorems, WellFoundedInduction

Count == Cardinality(Rows)
Live == pc # "idle" /\ proc \in {"up", "stopping"}
InDispatch == {"agent", "failing", "parking", "rejected", "staged", "committed", "reset", "rolledback"}
Recovery == {"undo", "undoOnly", "return", "revert", "requeue"}

(* The dispatches of the step's current start.                             *)
Since == {d \in Rows : dispatch[d].start = step.start}

(* The note is of the step that a resume finds running, and of a move of   *)
(* the branch.                                                             *)
Pending == step.status = "running" /\ note.start = step.start
ProgramMoved == note.from # Absent /\ note.to # note.from

----------------------------------------------------------------------------
(* Ground.                                                                 *)

(* The door is in a step iff the run code is; its note is of an older one. *)
Controlled ==
    /\ proc = "down" => pc = "idle"
    /\ proc = "recovering" <=> pc \in Recovery
    /\ proc = "stopping" => pc \in {"idle", "step", "agent"}
    /\ IF Live THEN door.start = step.start /\ step.status = "running" /\ note.start < step.start
               ELSE door = NoDoor
    /\ note.start <= step.start
    /\ pc \in Recovery \ {"requeue"} => Pending
    /\ pc = "revert" => note.from # Absent

(* The rows are numbered without gaps, in the order of the starts, and     *)
(* what is accepted is older than the rows of a step in progress.          *)
Ordered ==
    /\ Rows = 1..Count
    /\ \A d, e \in Rows : d <= e => dispatch[d].start <= dispatch[e].start
    /\ \A d \in Rows : dispatch[d].start <= step.start
    /\ accepted.after <= Count
    /\ pc \in InDispatch => Now \in Since
    /\ pc \in InDispatch \ {"rolledback"} => dispatch[Now].head = Absent
    /\ Live /\ Since # {} => accepted.after < Count

(* A run is in place for all its dispatches or for none, and whoever works *)
(* holds the branch.  Without a branch nothing was ever done.              *)
Placed ==
    /\ \A d \in Rows : dispatch[d].place = Repo <=> place = Repo
    /\ holder # Absent => branch # Absent
    /\ Live /\ Since # {} => holder = place /\ branch # Absent /\ pre # Absent
    /\ (door.from # Absent => door.to # Absent) /\ (note.from # Absent => note.to # Absent)
    /\ place = Repo => holder \in {Absent, Repo}
    /\ branch = Absent => Rows = {} /\ accepted.head = Absent

Ground == TypeOK /\ Controlled /\ Ordered /\ Placed

----------------------------------------------------------------------------
(* Heads.                                                                  *)

(* The baseline is where the branch was left, but between a move and the   *)
(* row that records it, and once ensureWorktree has taken work off it.     *)
Tracked == place = Repo /\ dropped = {}
Accounted ==
    /\ proc # "down" => left = branch /\ ~torn
    /\ pc \in {"reset", "rolledback"} => branch = pre
    /\ Tracked /\ ~torn /\ pc \notin Unrecorded /\ Baseline # Absent => Baseline = left
    /\ pc = "revert" => branch = note.from
    /\ pc = "revert" /\ Tracked => Since # {} /\ accepted.after < Count

(* Whatever the branch may be returned to has what succeeded, but for what *)
(* ensureWorktree dropped.                                                 *)
Kept ==
    /\ kept # {} => branch # Absent /\ kept \subseteq branch \cup dropped
    /\ Live /\ Since # {} => kept \subseteq pre \cup dropped
    /\ Live /\ door.from # Absent => kept \subseteq door.from \cup dropped
    /\ Pending /\ note.from # Absent => kept \subseteq note.from \cup dropped

(* A step moves the branch forward, by work of its dispatches, and the     *)
(* door follows.  Once noted, the branch stands where the step left it, at *)
(* the baseline, or somewhere it never comes back from.                    *)
Noted ==
    Tracked =>
    /\ Live /\ door.from # Absent =>
       /\ branch # Absent /\ door.from \subseteq branch /\ branch \ door.from \subseteq Dispatches
       /\ door.to = branch
       /\ branch # door.from => Since # {}
       /\ Since # {} => door.from \subseteq pre /\ pre \ door.from \subseteq Dispatches
    /\ Pending /\ ProgramMoved =>
       /\ note.to # Absent /\ note.from \subseteq note.to /\ note.to \ note.from \subseteq Dispatches
       /\ Since # {}
       /\ \/ /\ branch = note.to /\ accepted.after < Count
             /\ Baseline # Absent => Baseline = branch
          \/ Human \in branch \ note.to
          \/ ~(note.to \subseteq branch \cup {Human})

Heads == Accounted /\ Kept /\ Noted

----------------------------------------------------------------------------
(* Hands.                                                                  *)

(* All work is of a dispatch that has a row.                               *)
Owned ==
    /\ branch # Absent => branch \subseteq Rows \cup {Human}
    /\ pre # Absent => pre \subseteq Rows \cup {Human}
    /\ door.from # Absent => branch # Absent /\ door.from \subseteq Rows \cup {Human}
    /\ note.from # Absent => note.from \subseteq Rows \cup {Human}
    /\ Tree \cup before \cup stopped \subseteq Rows
    /\ stopped # {} => branch # Absent
    /\ \A d \in stopped : dispatch[d].start <= note.start

(* Where the work of the current start is while the run goes on.           *)
Traced ==
    Live =>
    /\ door.from # Absent => (Since \cup stopped) \cap door.from = {}
    /\ branch # Absent /\ Since \cap branch # {} => branch = door.to
    /\ Since # {} => stopped \cap pre = {}
    /\ pc \in {"step", "committed"} => Since \cap index = {}
    /\ pc \in {"step", "staged", "committed"} => Since \cap edits = {} /\ Since \cap fresh \subseteq litter
    /\ pc = "agent" => /\ (Since \cup stopped) \cap before \subseteq litter
                       /\ Since \cap index = {} /\ Since \cap edits \subseteq {Now}
                       /\ Since \cap fresh \subseteq litter \cup {Now}
                       /\ stopped \cap fresh \subseteq before /\ Now \notin before

(* What is left of a stopped start is what the coming resume takes back.   *)
Leftovers == stopped \cap edits # {} \/ ~(stopped \cap fresh \subseteq litter)
TakenBack ==
    /\ stopped \cap index = {}
    /\ Pending /\ note.from # Absent => stopped \cap note.from = {}
    /\ branch # Absent /\ stopped \cap branch # {} =>
           /\ pc \in {"idle", "undo", "return"} /\ proc \in {"down", "recovering"}
           /\ Pending /\ ProgramMoved /\ branch = note.to
    /\ Leftovers =>
           /\ proc = "down" \/ pc = "undo"
           /\ Pending
           /\ place = Repo => note.before # Absent /\ stopped \cap note.before \subseteq litter
    /\ proc = "recovering" /\ place # Repo /\ stopped # {} => Tree = {}
    /\ pc = "undoOnly" => stopped = {}

(* The tree holds nothing unexpected, but what an attempt in progress or a *)
(* stopped one left, and the undo of it takes away.                        *)
Known == litter \cup hooked
Tidy ==
    /\ pc # "staged" => index \subseteq Known
    /\ pc = "staged" => edits \cup fresh \subseteq Known
    /\ pc \in {"agent", "failing", "parking"} => before \subseteq Known
    /\ pc \notin {"agent", "failing", "parking", "staged"} =>
         \/ Tree \subseteq Known
         \/ /\ proc = "down" \/ (pc \in {"undo", "undoOnly"} /\ place = Repo)
            /\ Pending
            /\ place = Repo => note.before # Absent /\ note.before \subseteq Known

Hands == Owned /\ Traced /\ TakenBack /\ Tidy

IInv == Ground /\ Heads /\ Hands

----------------------------------------------------------------------------
(* The latest of a set of dispatches.                                      *)
LEMMA LatestIsLatest ==
    ASSUME NEW S \in SUBSET Dispatches, S # {}
    PROVE  Latest(S) \in S /\ \A e \in S : e <= Latest(S)
<1> DEFINE N == MaxDispatches
           After == {k..N : k \in S}
<1>0. N \in Nat /\ S \subseteq 1..N
  BY CheckoutAssumption DEF Dispatches
<1>1. After # {} /\ After \subseteq SUBSET (1..N)
  <2>1. ASSUME NEW k \in S PROVE k..N \subseteq 1..N
    BY <1>0
  <2> QED
    BY <2>1
<1>2. IsWellFoundedOn(StrictSubsetOrdering(1..N), SUBSET (1..N))
  <2>1. IsFiniteSet(1..N)
    BY <1>0, FS_Interval
  <2>2. FiniteSubsetsOf(1..N) = SUBSET (1..N)
    BY <2>1, FS_FiniteSubsetsOfFinite
  <2> QED
    BY <2>2, <2>1, FS_StrictSubsetOrderingWellFounded
<1>3. PICK x \in After : \A y \in After : <<y, x>> \notin StrictSubsetOrdering(1..N)
  <2> HIDE DEF After
  <2> QED
    BY <1>1, <1>2, WFMin
<1>4. PICK k \in S : x = k..N
  BY <1>3
<1>5. ASSUME NEW e \in S, ~(e <= k) PROVE FALSE
  <2>1. e..N \subseteq k..N /\ e..N # k..N
    BY <1>0, <1>5
  <2>2. <<e..N, x>> \in StrictSubsetOrdering(1..N)
    BY <1>1, <1>4, <2>1 DEF StrictSubsetOrdering
  <2> QED
    BY <1>3, <2>2
<1> QED
  BY <1>5 DEF Latest

LEMMA LatestIs ==
    ASSUME NEW S \in SUBSET Dispatches, NEW d \in S, \A e \in S : e <= d
    PROVE  Latest(S) = d
<1>1. Latest(S) \in S /\ d <= Latest(S)
  BY LatestIsLatest
<1>2. \A e \in S : e \in Int
  BY CheckoutAssumption DEF Dispatches
<1>3. PICK m : m = Latest(S)
  OBVIOUS
<1>4. m \in S /\ m \in Int /\ d \in Int /\ d <= m /\ m <= d
  BY <1>1, <1>2, <1>3
<1> QED
  BY <1>3, <1>4

(* The rows are numbered without gaps, and the one in progress is the last *)
LEMMA NowIsLast ==
    ASSUME Ordered
    PROVE  /\ Count \in 0..MaxDispatches
           /\ Rows # {} => Now = Count /\ Now \in Rows
<1>1. Rows \subseteq 1..MaxDispatches /\ MaxDispatches \in Nat
  BY CheckoutAssumption DEF Rows, Dispatches
<1>2. IsFiniteSet(Rows) /\ Count \in Nat /\ Count <= MaxDispatches
  <2>1. IsFiniteSet(1..MaxDispatches) /\ Cardinality(1..MaxDispatches) = MaxDispatches
    BY <1>1, FS_Interval
  <2> QED
    BY <1>1, <2>1, FS_Subset, FS_CardinalityType DEF Count
<1>3. ASSUME Rows # {} PROVE Count \in Rows /\ \A e \in Rows : e <= Count
  BY <1>2, <1>3 DEF Ordered
<1> QED
  BY <1>2, <1>3, LatestIs, <1>1 DEF Now, Dispatches

(* The three ways in which the rows change.                                *)
SameRows ==
    /\ Rows' = Rows /\ Count' = Count /\ Now' = Now
    /\ dispatch' \in [Dispatches -> Dispatch]
    /\ \A d \in Dispatches : dispatch'[d].start = dispatch[d].start /\ dispatch'[d].place = dispatch[d].place

LEMMA RowsUnchanged ==
    ASSUME Ground, dispatch' = dispatch
    PROVE  SameRows /\ Recorded' = Recorded
<1>1. Rows' = Rows /\ Recorded' = Recorded
  BY DEF Rows, Recorded
<1> QED
  BY <1>1 DEF SameRows, Now, Count, Ground, TypeOK

LEMMA RowsRewritten ==
    ASSUME Ground, NEW f, dispatch' = f, f \in [Dispatches -> Dispatch],
           \A d \in Dispatches : /\ f[d].outcome = "none" <=> dispatch[d].outcome = "none"
                                 /\ f[d].start = dispatch[d].start /\ f[d].place = dispatch[d].place
    PROVE  SameRows
<1>1. Rows' = Rows
  BY DEF Rows
<1> QED
  BY <1>1 DEF SameRows, Now, Count

LEMMA RowClosed ==
    ASSUME Ground, Rows # {}, NEW o \in Closed, NEW h \in Commits, completeDispatch(o, h)
    PROVE  /\ SameRows
           /\ Now \in Rows /\ dispatch'[Now].head = h
           /\ \A d \in Dispatches : d # Now => dispatch'[d] = dispatch[d]
<1> DEFINE f == [dispatch EXCEPT ![Now].outcome = o, ![Now].head = h]
<1>1. Now \in Rows /\ Now \in Dispatches
  BY NowIsLast DEF Ground, Rows
<1>2. dispatch \in [Dispatches -> Dispatch] /\ dispatch' = f
  BY DEF Ground, TypeOK, completeDispatch
<1>3. f \in [Dispatches -> Dispatch] /\ f[Now].head = h /\ f[Now].outcome = o
      /\ \A d \in Dispatches : /\ d # Now => f[d] = dispatch[d]
                               /\ f[d].start = dispatch[d].start /\ f[d].place = dispatch[d].place
  BY <1>1, <1>2 DEF Dispatch
<1>4. dispatch[Now].outcome # "none" /\ o # "none"
  BY <1>1 DEF Rows, Closed
<1>5. SameRows
  <2> HIDE DEF f
  <2> QED
    BY <1>2, <1>3, <1>4, RowsRewritten
<1> QED
  BY <1>1, <1>2, <1>3, <1>5

LEMMA RowsReverted ==
    ASSUME Ground, RecoverRevert, note.from # Absent
    PROVE  /\ SameRows
           /\ \A d \in Rows : dispatch'[d].head = IF dispatch[d].start = note.start THEN note.from
                                                  ELSE dispatch[d].head
<1> DEFINE f == [d \in Dispatches |->
                       IF d \in Rows /\ dispatch[d].start = note.start
                       THEN [dispatch[d] EXCEPT !.outcome = "reverted", !.head = note.from]
                       ELSE dispatch[d]]
<1>1. dispatch \in [Dispatches -> Dispatch] /\ dispatch' = f /\ note.from \in Commits
  BY DEF Ground, TypeOK, RecoverRevert
<1>2. \A d \in Dispatches : /\ f[d] \in Dispatch
                            /\ f[d].outcome = "none" <=> dispatch[d].outcome = "none"
                            /\ f[d].start = dispatch[d].start /\ f[d].place = dispatch[d].place
  <2> SUFFICES ASSUME NEW d \in Dispatches
               PROVE  /\ f[d] \in Dispatch
                      /\ f[d].outcome = "none" <=> dispatch[d].outcome = "none"
                      /\ f[d].start = dispatch[d].start /\ f[d].place = dispatch[d].place
    OBVIOUS
  <2>1. CASE d \in Rows /\ dispatch[d].start = note.start
    BY <1>1, <2>1 DEF Dispatch, Closed, Rows
  <2>2. CASE ~(d \in Rows /\ dispatch[d].start = note.start)
    BY <1>1, <2>2
  <2> QED
    BY <2>1, <2>2
<1>3. f \in [Dispatches -> Dispatch]
  BY <1>2
<1>4. SameRows
  <2> HIDE DEF f
  <2> QED
    BY <1>1, <1>2, <1>3, RowsRewritten
<1>5. \A d \in Rows : f[d].head = IF dispatch[d].start = note.start THEN note.from
                                  ELSE dispatch[d].head
  BY <1>1 DEF Dispatch, Rows
<1> QED
  BY <1>1, <1>4, <1>5

LEMMA RowLaunched ==
    ASSUME Ground, LaunchAgent
    PROVE  /\ Count + 1 \in Dispatches /\ Count + 1 \notin Rows
           /\ Rows' = Rows \cup {Count + 1} /\ Count' = Count + 1 /\ Now' = Count + 1
           /\ dispatch' \in [Dispatches -> Dispatch]
           /\ dispatch'[Count + 1].start = step.start /\ dispatch'[Count + 1].place = place
           /\ dispatch'[Count + 1].head = Absent
           /\ \A d \in Rows : dispatch'[d] = dispatch[d]
<1> DEFINE n == Count + 1
           row == [outcome |-> "open", head |-> Absent, start |-> step.start, place |-> place]
<1>1. n \in Dispatches /\ dispatch' = [dispatch EXCEPT ![n] = row]
  <2>1. PICK d \in Dispatches : insertDispatch(d)
    BY DEF LaunchAgent
  <2>2. Count \in Nat
    BY NowIsLast DEF Ground
  <2>3. d = n
    BY <2>1, <2>2 DEF insertDispatch, Count
  <2> QED
    BY <2>1, <2>3 DEF insertDispatch
<1>2. Count \in Nat /\ Rows = 1..Count /\ n \notin Rows
  BY NowIsLast DEF Ground, Ordered
<1>3. row \in Dispatch
  BY DEF Dispatch, Commits, Ground, TypeOK
<1>4. /\ dispatch' \in [Dispatches -> Dispatch] /\ dispatch'[n] = row
      /\ \A d \in Dispatches : d # n => dispatch'[d] = dispatch[d]
  <2> HIDE DEF n, row
  <2> QED
    BY <1>1, <1>3 DEF Ground, TypeOK
<1>5. Rows' = Rows \cup {n}
  <2>1. row.outcome # "none"
    OBVIOUS
  <2> HIDE DEF n, row
  <2> QED
    BY <1>1, <1>4, <2>1 DEF Rows
<1>6. Count' = n
  <2>1. Rows' = 1..n
    BY <1>2, <1>5
  <2>2. Cardinality(1..n) = n
    BY <1>2, FS_Interval
  <2> QED
    BY <2>1, <2>2 DEF Count
<1>7. Now' = n
  <2>1. \A e \in Rows \cup {n} : e <= n
    BY <1>2
  <2>2. Latest(Rows \cup {n}) = n
    <3> HIDE DEF n
    <3> QED
      BY <1>1, <2>1, LatestIs DEF Rows
  <2> QED
    BY <2>2, <1>5 DEF Now
<1> QED
  BY <1>1, <1>2, <1>4, <1>5, <1>6, <1>7

----------------------------------------------------------------------------
(* Ground is inductive.                                                    *)

LEMMA GroundTyped == Ground /\ Next => TypeOK'
<1> SUFFICES ASSUME Ground, Next PROVE TypeOK'
  OBVIOUS
<1> USE DEF git, db, memory, observers, MoveTo, undoAttempt, ResetTracked, Leave
<1>1. CASE BeginStep \/ Succeed \/ StepFails
  BY <1>1, CheckoutAssumption DEF BeginStep, Succeed, StepFails, Ground, TypeOK, NoDoor, Commits
<1>2. CASE EnsureWorktree
  BY <1>2 DEF EnsureWorktree, Ground, TypeOK, OtherHeads, Commits
<1>3. CASE LaunchAgent
  BY <1>3, RowLaunched DEF LaunchAgent, Ground, TypeOK
<1>4. CASE AgentEdits
  <2>1. Now \in Dispatches
    BY <1>4, NowIsLast DEF AgentEdits, Ground, Ordered, InDispatch, Since, Rows
  <2> QED
    BY <1>4, <2>1 DEF AgentEdits, Ground, TypeOK
<1>5. ASSUME NEW outcome \in {"failed", "parked"}, AgentFails(outcome) PROVE TypeOK'
  <2>1. dispatch' \in [Dispatches -> Dispatch]
    BY <1>5, RowClosed DEF AgentFails, Ground, Ordered, InDispatch, Since, SameRows, Commits, Closed
  <2> QED
    BY <1>5, <2>1 DEF AgentFails, Ground, TypeOK
<1>6. CASE UndoFailed \/ RejectOutput
  BY <1>6 DEF UndoFailed, RejectOutput, Ground, TypeOK
<1>7. CASE \E new \in {"staged", "discarded", "ignored"} : Stage(new)
  BY <1>7 DEF Stage, Ground, TypeOK
<1>8. CASE Commit
  BY <1>8 DEF Commit, Ground, TypeOK, Placed, Ordered, InDispatch, Live, Commits, Works
<1>9. CASE CommitFails \/ ResetCommitted \/ RollBack
  BY <1>9 DEF CommitFails, ResetCommitted, RollBack, Ground, TypeOK
<1>10. CASE CloseRejected \/ (\E ok \in BOOLEAN : CloseCommitted(ok)) \/ CloseReset \/ CloseRolledBack
  <2>1. dispatch' \in [Dispatches -> Dispatch]
    BY <1>10, RowClosed DEF CloseRejected, CloseCommitted, CloseReset, CloseRolledBack,
       Ground, TypeOK, Ordered, InDispatch, Since, SameRows, Closed
  <2> QED
    BY <1>10, <2>1 DEF CloseRejected, CloseCommitted, CloseReset, CloseRolledBack, Ground, TypeOK
<1>11. CASE Exit \/ StopSignal \/ Crash
  <2>1. NoDoor \in [start : 0..MaxStarts, from : Commits, to : Commits]
    BY CheckoutAssumption DEF NoDoor, Commits
  <2>2. CASE Exit \/ StopSignal
    BY <2>1, <2>2 DEF Exit, StopSignal, Ground, TypeOK
  <2>3. CASE Crash
    <3>1. torn' \in BOOLEAN /\ litter' \in SUBSET Dispatches
      BY <2>3 DEF Crash, Ground, TypeOK, Tree
    <3> QED
      BY <2>1, <2>3, <3>1 DEF Crash, Ground, TypeOK
  <2> QED
    BY <1>11, <2>2, <2>3
<1>12. CASE RecordInterruption
  <2>1. dispatch' \in [Dispatches -> Dispatch]
    BY <1>12, RowClosed DEF RecordInterruption, Ground, TypeOK, Ordered, InDispatch, Since, SameRows, Closed, Commits
  <2> QED
    BY <1>12, <2>1, CheckoutAssumption DEF RecordInterruption, Ground, TypeOK, NoDoor, Commits, Rows
<1>13. CASE HumanMoves \/ HumanSwitches
  BY <1>13, CheckoutAssumption DEF HumanMoves, HumanSwitches, Places, Ground, TypeOK, Commits, Works
<1>14. CASE \E acceptHead \in BOOLEAN : Resume(acceptHead)
  <2> PICK acceptHead \in BOOLEAN : Resume(acceptHead)
    BY <1>14
  <2>1. run + 1 \in 1..MaxRuns /\ run' = run + 1 /\ place' \in {Repo, run + 1}
    BY CheckoutAssumption DEF Resume, Ground, TypeOK
  <2>2. accepted' \in [head : Commits, after : 0..MaxDispatches]
    BY NowIsLast DEF Resume, Ground, TypeOK, Count
  <2>3. holder' \in Places \cup {Absent} /\ place' \in Places
    BY <2>1 DEF Resume, Ground, TypeOK, Places
  <2>4. index' \in SUBSET Dispatches /\ edits' \in SUBSET Dispatches /\ fresh' \in SUBSET Dispatches
    BY DEF Resume, Ground, TypeOK
  <2> QED
    BY <2>1, <2>2, <2>3, <2>4 DEF Resume, Ground, TypeOK
<1>15. CASE RecoverUndo \/ RecoverReturn \/ RecoverRefused \/ RecoverSkips \/ RecoverDone
  BY <1>15 DEF RecoverUndo, RecoverReturn, RecoverRefused, RecoverSkips, LeaveRemains, RecoverDone, Ground, TypeOK, Tree
<1>16. CASE RecoverRevert
  BY <1>16, RowsReverted DEF RecoverRevert, Ground, TypeOK, Controlled, SameRows
<1> QED
  BY <1>1, <1>2, <1>3, <1>4, <1>5, <1>6, <1>7, <1>8, <1>9, <1>10, <1>11, <1>12, <1>13, <1>14, <1>15, <1>16
     DEF Next, Work, End, Restart

LEMMA GroundControlled == Ground /\ Next => Controlled'
<1> SUFFICES ASSUME Ground, Next PROVE Controlled'
  OBVIOUS
<1> USE DEF git, db, memory, observers, MoveTo, undoAttempt, ResetTracked, Leave,
        Ground, TypeOK, Controlled, Live, Pending, Recovery, NoDoor
<1>1. CASE BeginStep \/ Succeed \/ StepFails
  BY <1>1 DEF BeginStep, Succeed, StepFails
<1>2. CASE EnsureWorktree \/ LaunchAgent \/ AgentEdits \/ (\E outcome \in {"failed", "parked"} : AgentFails(outcome))
  BY <1>2 DEF EnsureWorktree, LaunchAgent, AgentEdits, AgentFails
<1>3. CASE UndoFailed \/ RejectOutput \/ CloseRejected \/ (\E new \in {"staged", "discarded", "ignored"} : Stage(new))
  BY <1>3 DEF UndoFailed, RejectOutput, CloseRejected, Stage
<1>4. CASE Commit \/ CommitFails \/ \E ok \in BOOLEAN : CloseCommitted(ok)
  BY <1>4 DEF Commit, CommitFails, CloseCommitted
<1>5. CASE ResetCommitted \/ CloseReset \/ RollBack \/ CloseRolledBack
  BY <1>5 DEF ResetCommitted, CloseReset, RollBack, CloseRolledBack
<1>6. CASE Exit \/ StopSignal \/ Crash
  BY <1>6 DEF Exit, StopSignal, Crash
<1>7. CASE RecordInterruption
  BY <1>7 DEF RecordInterruption
<1>8. CASE HumanMoves \/ HumanSwitches \/ \E acceptHead \in BOOLEAN : Resume(acceptHead)
  BY <1>8 DEF HumanMoves, HumanSwitches, Resume
<1>9. CASE RecoverUndo \/ RecoverReturn \/ RecoverRefused \/ RecoverSkips \/ RecoverRevert \/ RecoverDone
  BY <1>9 DEF RecoverUndo, RecoverReturn, RecoverRefused, RecoverSkips, LeaveRemains, RecoverRevert, RecoverDone, Returnable
<1> QED
  BY <1>1, <1>2, <1>3, <1>4, <1>5, <1>6, <1>7, <1>8, <1>9 DEF Next, Work, End, Restart

(* What the rows say is only added to, and no step but a launch adds one.  *)
Quiet ==
    \/ BeginStep \/ EnsureWorktree \/ AgentEdits \/ UndoFailed \/ RejectOutput
    \/ \E new \in {"staged", "discarded", "ignored"} : Stage(new)
    \/ Commit \/ CommitFails \/ ResetCommitted \/ RollBack \/ Succeed \/ StepFails
    \/ Exit \/ StopSignal \/ Crash \/ HumanMoves \/ HumanSwitches
    \/ \E acceptHead \in BOOLEAN : Resume(acceptHead)
    \/ RecoverUndo \/ RecoverReturn \/ RecoverRefused \/ RecoverSkips \/ RecoverDone
Closing ==
    \/ \E outcome \in {"failed", "parked"} : AgentFails(outcome)
    \/ CloseRejected \/ (\E ok \in BOOLEAN : CloseCommitted(ok)) \/ CloseReset \/ CloseRolledBack

LEMMA QuietRows == Ground /\ Quiet => dispatch' = dispatch
BY DEF Quiet, git, db, memory, observers, MoveTo, undoAttempt, ResetTracked, Leave,
   BeginStep, EnsureWorktree, AgentEdits, UndoFailed, RejectOutput, Stage, Commit, CommitFails,
   ResetCommitted, RollBack, Succeed, StepFails, Exit, StopSignal, Crash, HumanMoves, HumanSwitches, Resume,
   RecoverUndo, RecoverReturn, RecoverRefused, RecoverSkips, LeaveRemains, RecoverDone

LEMMA RowsOtherwise == Ground /\ Next /\ ~LaunchAgent => SameRows
<1> SUFFICES ASSUME Ground, Next, ~LaunchAgent PROVE SameRows
  OBVIOUS
<1>1. CASE Quiet
  BY <1>1, QuietRows, RowsUnchanged
<1>2. CASE Closing
  BY <1>2, RowClosed DEF Closing, AgentFails, CloseRejected, CloseCommitted, CloseReset, CloseRolledBack,
       Ground, TypeOK, Ordered, InDispatch, Since, Closed, Commits
<1>3. CASE RecordInterruption
  <2>1. CASE dispatch' = dispatch
    BY <2>1, RowsUnchanged
  <2>2. CASE pc = "agent" /\ completeDispatch("interrupted", Absent)
    BY <2>2, RowClosed DEF Ground, Ordered, InDispatch, Since, Closed, Commits
  <2> QED
    BY <1>3, <2>1, <2>2 DEF RecordInterruption
<1>4. CASE RecoverRevert
  BY <1>4, RowsReverted DEF RecoverRevert, Ground, Controlled
<1> QED
  BY <1>1, <1>2, <1>3, <1>4 DEF Next, Work, End, Restart, Quiet, Closing

LEMMA StartsAndAccepts ==
    ASSUME Ground, Next
    PROVE  /\ ~BeginStep => step'.start = step.start
           /\ (\A a \in BOOLEAN : ~Resume(a)) => accepted' = accepted
<1> USE DEF git, db, memory, observers, MoveTo, undoAttempt, ResetTracked, Leave
<1>1. ASSUME ~BeginStep PROVE step'.start = step.start
  BY <1>1 DEF Next, Work, End, Restart, EnsureWorktree, LaunchAgent, AgentEdits, AgentFails, UndoFailed,
     RejectOutput, CloseRejected, Stage, Commit, CommitFails, CloseCommitted, ResetCommitted, CloseReset,
     RollBack, CloseRolledBack, Succeed, StepFails, Exit, StopSignal, RecordInterruption, Crash, HumanMoves, HumanSwitches,
     Resume, RecoverUndo, RecoverReturn, RecoverRefused, RecoverSkips, LeaveRemains, RecoverRevert, RecoverDone, Ground, TypeOK
<1>2. ASSUME \A a \in BOOLEAN : ~Resume(a) PROVE accepted' = accepted
  BY <1>2 DEF Next, Work, End, Restart, BeginStep, EnsureWorktree, LaunchAgent, AgentEdits, AgentFails, UndoFailed,
     RejectOutput, CloseRejected, Stage, Commit, CommitFails, CloseCommitted, ResetCommitted, CloseReset,
     RollBack, CloseRolledBack, Succeed, StepFails, Exit, StopSignal, RecordInterruption, Crash, HumanMoves, HumanSwitches,
     RecoverUndo, RecoverReturn, RecoverRefused, RecoverSkips, LeaveRemains, RecoverRevert, RecoverDone
<1> QED
  BY <1>1, <1>2

(* The rows of the step's current start.                                   *)
LEMMA SinceIs ==
    ASSUME Ground, Next
    PROVE  /\ LaunchAgent => Since' = Since \cup {Count + 1}
           /\ BeginStep => Since' = {}
           /\ ~LaunchAgent /\ ~BeginStep => Since' = Since
<1>1. CASE LaunchAgent
  BY <1>1, RowLaunched DEF LaunchAgent, Since, Rows, BeginStep
<1>2. CASE BeginStep
  <2>1. SameRows
    BY <1>2, RowsOtherwise DEF BeginStep, LaunchAgent
  <2>2. \A d \in Rows : dispatch'[d].start # step'.start
    <3> SUFFICES ASSUME NEW d \in Rows PROVE dispatch'[d].start # step'.start
      OBVIOUS
    <3>1. dispatch'[d].start <= step.start /\ step'.start = step.start + 1
      BY <1>2, <2>1 DEF BeginStep, SameRows, Rows, Ground, Ordered, TypeOK
    <3>2. step.start \in Int /\ dispatch'[d].start \in Int
      BY <2>1 DEF SameRows, Rows, Ground, TypeOK, Dispatch
    <3> QED
      BY <3>1, <3>2
  <2> QED
    BY <1>2, <2>1, <2>2 DEF Since, SameRows, BeginStep, LaunchAgent
<1>3. CASE ~LaunchAgent /\ ~BeginStep
  BY <1>3, RowsOtherwise, StartsAndAccepts DEF Since, SameRows, Rows
<1> QED
  BY <1>1, <1>2, <1>3

LEMMA GroundOrdered == Ground /\ Next => Ordered'
<1> SUFFICES ASSUME Ground, Next PROVE Ordered'
  OBVIOUS
<1> USE DEF git, db, memory, observers, MoveTo, undoAttempt, ResetTracked, Leave
<1>a. Count \in Nat /\ (Rows # {} => Now = Count /\ Now \in Rows) /\ Rows = 1..Count
  BY NowIsLast DEF Ground, Ordered
<1>b. \A d \in Rows : dispatch[d].start \in Int
  BY DEF Ground, TypeOK, Dispatch, Rows
<1>c. step.start \in Int /\ accepted.after \in Int
  BY DEF Ground, TypeOK
<1>1. CASE LaunchAgent
  <2>1. UNCHANGED <<step, accepted, proc>> /\ pc' = "agent" /\ Live /\ proc # "recovering"
    BY <1>1 DEF LaunchAgent, Live
  <2>2. Rows' = 1..(Count + 1)
    <3>1. 1..(Count + 1) = (1..Count) \cup {Count + 1}
      BY <1>a
    <3> QED
      BY <3>1, <1>1, <1>a, RowLaunched
  <2>3. \A d \in Rows' : dispatch'[d].start = IF d = Count + 1 THEN step.start ELSE dispatch[d].start
    BY <1>1, <1>a, RowLaunched
  <2>4. \A d \in Rows' : dispatch'[d].start <= step.start
    BY <1>a, <1>b, <1>c, <2>2, <2>3 DEF Ground, Ordered
  <2>5. \A d, e \in Rows' : d <= e => dispatch'[d].start <= dispatch'[e].start
    <3> SUFFICES ASSUME NEW d \in Rows', NEW e \in Rows', d <= e
                 PROVE  dispatch'[d].start <= dispatch'[e].start
      OBVIOUS
    <3>1. CASE e = Count + 1
      BY <3>1, <2>2, <2>3, <2>4
    <3>2. CASE e # Count + 1
      <4>1. d \in Rows /\ e \in Rows /\ d # Count + 1
        BY <3>2, <2>2, <1>a
      <4> QED
        BY <3>2, <4>1, <2>3 DEF Ground, Ordered
    <3> QED
      BY <3>1, <3>2
  <2>6. accepted.after <= Count /\ Count + 1 \in Since' /\ Now' = Count + 1 /\ Count' = Count + 1
        /\ dispatch'[Now'].head = Absent
    BY <1>1, RowLaunched, SinceIs DEF Ground, Ordered
  <2> QED
    BY <1>a, <1>c, <2>1, <2>2, <2>4, <2>5, <2>6 DEF Ordered
<1>2. CASE ~LaunchAgent
  <2>1. SameRows /\ Rows \subseteq Dispatches
    BY <1>2, RowsOtherwise DEF Rows
  <2>2. step'.start \in Int /\ step'.start >= step.start
    BY <1>c, StartsAndAccepts DEF BeginStep, Ground, TypeOK
  <2>3. /\ Rows' = 1..Count'
        /\ \A d, e \in Rows' : d <= e => dispatch'[d].start <= dispatch'[e].start
    BY <2>1 DEF SameRows, Ground, Ordered
  <2>4. \A d \in Rows' : dispatch'[d].start <= step'.start
    <3> SUFFICES ASSUME NEW d \in Rows PROVE dispatch[d].start <= step'.start
      BY <2>1 DEF SameRows
    <3>1. dispatch[d].start <= step.start
      BY DEF Ground, Ordered
    <3> QED
      BY <3>1, <1>b, <1>c, <2>2
  <2>5. accepted'.after <= Count'
    <3>1. CASE accepted' = accepted
      BY <3>1, <2>1 DEF Ground, Ordered, SameRows
    <3>2. CASE \E a \in BOOLEAN : Resume(a)
      BY <3>2, <1>a, <1>c, <2>1 DEF Resume, Ground, Ordered, SameRows, Count
    <3> QED
      BY <3>1, <3>2, StartsAndAccepts
  <2>6. pc' \in InDispatch =>
        /\ Now' \in Since'
        /\ pc' # "rolledback" => dispatch'[Now'].head = Absent
    <3> SUFFICES ASSUME pc' \in InDispatch
                 PROVE  Now' \in Since' /\ (pc' # "rolledback" => dispatch'[Now'].head = Absent)
      OBVIOUS
    <3>1. CASE RollBack
      <4>1. pc' = "rolledback" /\ Now \in Since
        BY <3>1, <1>a DEF RollBack, Since
      <4> QED
        BY <3>1, <4>1, <1>2, <2>1, SinceIs DEF RollBack, BeginStep, SameRows
    <3>2. CASE AgentFails("failed") \/ AgentFails("parked")
      <4>1. Now \in Rows /\ pc = "agent"
        BY <3>2 DEF AgentFails, Ground, Ordered, InDispatch, Since
      <4>2. dispatch'[Now].head = Absent
        BY <3>2, <4>1, RowClosed DEF AgentFails, Closed, Commits
      <4> QED
        BY <3>2, <4>1, <4>2, <1>2, <2>1, SinceIs DEF AgentFails, BeginStep, SameRows, Ground, Ordered, InDispatch
    <3>3. CASE ~RollBack /\ ~AgentFails("failed") /\ ~AgentFails("parked")
      <4>1. Quiet /\ ~BeginStep
        BY <3>3, <1>2 DEF InDispatch, Quiet, Next, Work, End, Restart, BeginStep,
           CloseRejected, CloseCommitted, CloseReset, CloseRolledBack, RecordInterruption, RecoverRevert
      <4>2. pc \in InDispatch /\ pc # "rolledback"
        BY <4>1, <3>3 DEF Ground, Controlled, InDispatch, Quiet, EnsureWorktree, AgentEdits, UndoFailed, RejectOutput, Stage,
           Commit, CommitFails, ResetCommitted, Succeed, StepFails, Exit, StopSignal, Crash, HumanMoves, HumanSwitches,
           Resume, RecoverUndo, RecoverReturn, RecoverRefused, RecoverSkips, LeaveRemains, RecoverDone
      <4> QED
        BY <4>1, <4>2, <1>2, <2>1, QuietRows, SinceIs DEF SameRows, Ground, Ordered
    <3> QED
      BY <3>1, <3>2, <3>3
  <2>7. Live' /\ Since' # {} => accepted'.after < Count'
    <3>1. CASE BeginStep
      BY <3>1, <1>2, SinceIs
    <3>2. CASE ~BeginStep /\ Live
      BY <3>2, <1>2, <2>1, SinceIs, StartsAndAccepts DEF SameRows, Ground, Ordered, Live, Resume, Controlled
    <3>3. CASE ~BeginStep /\ ~Live
      BY <3>3 DEF Live, Ground, Controlled, Recovery, Next, Work, End, Restart, EnsureWorktree, LaunchAgent,
         AgentEdits, AgentFails, UndoFailed, RejectOutput, CloseRejected, Stage, Commit, CommitFails,
         CloseCommitted, ResetCommitted, CloseReset, RollBack, CloseRolledBack, Succeed, StepFails, Exit,
         StopSignal, RecordInterruption, Crash, HumanMoves, HumanSwitches, Resume, RecoverUndo, RecoverReturn, RecoverRefused, RecoverSkips, LeaveRemains,
         RecoverRevert, RecoverDone
    <3> QED
      BY <3>1, <3>2, <3>3
  <2> QED
    BY <2>3, <2>4, <2>5, <2>6, <2>7 DEF Ordered
<1> QED
  BY <1>1, <1>2

LEMMA GroundPlaced == Ground /\ Next => Placed'
<1> SUFFICES ASSUME Ground, Next PROVE Placed'
  OBVIOUS
<1> USE DEF git, db, memory, observers, MoveTo, undoAttempt, ResetTracked, Leave
<1>a. {} \in Commits /\ {} # Absent /\ place # Absent /\ Repo # Absent
  BY AbsentAssumption DEF Commits, Places, Ground, TypeOK, Placed
<1>b. Since # {} => Rows # {}
  BY DEF Since
<1>1. CASE LaunchAgent
  <2>1. \A d \in Rows' : dispatch'[d].place = Repo <=> place = Repo
    BY <1>1, RowLaunched DEF Ground, Placed
  <2> QED
    BY <1>1, <1>a, <2>1 DEF LaunchAgent, Ground, Placed, Live
<1>2. CASE BeginStep
  <2>1. SameRows /\ Since' = {}
    BY <1>2, RowsOtherwise, SinceIs DEF BeginStep, LaunchAgent
  <2> QED
    BY <1>2, <2>1 DEF BeginStep, Ground, Placed, SameRows, Rows
<1>3. CASE \E acceptHead \in BOOLEAN : Resume(acceptHead)
  <2> PICK acceptHead \in BOOLEAN : Resume(acceptHead)
    BY <1>3
  <2>1. SameRows /\ Since' = Since /\ ~Live'
    BY RowsOtherwise, SinceIs DEF Resume, LaunchAgent, BeginStep, Live
  <2>2. run' # Repo /\ run' # Absent /\ run' = run + 1
    BY CheckoutAssumption, AbsentAssumption DEF Resume, Ground, TypeOK, Places, Repo
  <2>3. Rows # {} => place' = Repo <=> place = Repo
    BY <2>2, NowIsLast DEF Resume, Ground, Placed, Repo
  <2>4. place' = Repo => Rows # {} /\ place = Repo /\ holder' = holder
    BY <2>2, <1>a, NowIsLast DEF Resume, Ground, Placed, Repo
  <2>6. branch = Absent => accepted' = accepted
    BY DEF Resume, Moved
  <2>5. branch' = branch /\ (holder' # Absent => holder # Absent) /\ UNCHANGED <<dispatch, note, door>>
    BY DEF Resume
  <2> QED
    BY <2>1, <2>3, <2>4, <2>5, <2>6 DEF Ground, Placed, SameRows, Rows
<1>4. CASE EnsureWorktree \/ Commit \/ ResetCommitted \/ RollBack \/ HumanMoves
  <2>1. SameRows /\ Since' = Since
    BY <1>4, RowsOtherwise, SinceIs DEF EnsureWorktree, Commit, ResetCommitted, RollBack, HumanMoves, HumanSwitches, LaunchAgent, BeginStep
  <2>2. UNCHANGED <<accepted, place, pre>> /\ branch' # Absent /\ holder' \in {holder, place} /\ (Live' => Live)
        /\ (holder' = holder \/ Since = {})
        /\ note' = note /\ (door'.from # Absent => door'.to # Absent)
    <3>1. CASE EnsureWorktree
      BY <3>1, <1>a DEF EnsureWorktree, OtherHeads, Live, Ground, Placed, Repo
    <3>2. CASE Commit \/ ResetCommitted \/ RollBack
      <4>1. Live /\ Since # {}
        BY <3>2, NowIsLast DEF Commit, ResetCommitted, RollBack, Live, Ground, Ordered, InDispatch, Since
      <4>2. branch \in SUBSET Works /\ branch \cup index \in SUBSET Works
        BY <4>1 DEF Ground, Placed, TypeOK, Commits, Works
      <4> QED
        BY <3>2, <4>1, <4>2, <1>a, AbsentAssumption DEF Commit, ResetCommitted, RollBack, Live, Ground, TypeOK, Placed
    <3>3. CASE HumanMoves
      <4>1. branch \cup {Human} \in SUBSET Works
        BY <3>3 DEF HumanMoves, Ground, TypeOK, Commits, Works
      <4> QED
        BY <3>3, <4>1, <1>a, AbsentAssumption DEF HumanMoves, Live, Ground, Placed
    <3> QED
      BY <1>4, <3>1, <3>2, <3>3
  <2> QED
    BY <2>1, <2>2, <1>a, <1>b DEF Ground, Placed, SameRows, Rows
<1>5. CASE RecoverReturn
  <2>1. SameRows /\ Since' = Since /\ ~Live'
    BY <1>5, RowsOtherwise, SinceIs DEF RecoverReturn, LaunchAgent, BeginStep, Live
  <2>2. UNCHANGED <<accepted, place, holder, door, note>> /\ (branch' = branch \/ branch' # Absent)
        /\ (branch = Absent => branch' = branch)
    BY <1>5 DEF RecoverReturn, Returnable, Ground, Placed
  <2> QED
    BY <2>1, <2>2 DEF Ground, Placed, SameRows, Rows
<1>6. CASE ~LaunchAgent /\ ~BeginStep /\ ~EnsureWorktree /\ ~Commit /\ ~ResetCommitted /\ ~RollBack
           /\ ~HumanMoves /\ ~HumanSwitches /\ ~RecoverReturn
           /\ \A acceptHead \in BOOLEAN : ~Resume(acceptHead)
  <2>1. SameRows /\ Since' = Since
    BY <1>6, RowsOtherwise, SinceIs
  <2>2. UNCHANGED <<accepted, place, holder, branch, pre>> /\ (Live' => Live)
    BY <1>6, StartsAndAccepts DEF Next, Work, End, Restart, AgentEdits, AgentFails, UndoFailed,
       RejectOutput, CloseRejected, Stage, CommitFails, CloseCommitted, CloseReset, CloseRolledBack,
       Succeed, StepFails, Exit, StopSignal, RecordInterruption, Crash,
       RecoverUndo, RecoverRefused, RecoverSkips, LeaveRemains, RecoverRevert, RecoverDone, Live
  <2>3. ~RecordInterruption => note' = note
    BY <1>6 DEF Next, Work, End, Restart, AgentEdits, AgentFails, UndoFailed,
       RejectOutput, CloseRejected, Stage, CommitFails, CloseCommitted, CloseReset, CloseRolledBack,
       Succeed, StepFails, Exit, StopSignal, Crash,
       RecoverUndo, RecoverRefused, RecoverSkips, LeaveRemains, RecoverRevert, RecoverDone
  <2>5. door' = door \/ door' = NoDoor
    BY <1>6 DEF Next, Work, End, Restart, AgentEdits, AgentFails, UndoFailed,
       RejectOutput, CloseRejected, Stage, CommitFails, CloseCommitted, CloseReset, CloseRolledBack,
       Succeed, StepFails, Exit, StopSignal, Crash, RecordInterruption,
       RecoverUndo, RecoverRefused, RecoverSkips, LeaveRemains, RecoverRevert, RecoverDone
  <2>4. RecordInterruption => note' = note \/ (note'.from = door.from /\ note'.to = door.to)
    BY DEF RecordInterruption
  <2> QED
    BY <2>1, <2>2, <2>3, <2>4, <2>5 DEF Ground, Placed, SameRows, Rows, NoDoor
<1>7. CASE HumanSwitches
  <2>1. SameRows /\ Since' = Since /\ ~Live'
    BY <1>7, RowsOtherwise, SinceIs DEF HumanSwitches, LaunchAgent, BeginStep, Live, Ground, Controlled
  <2>2. UNCHANGED <<accepted, place, branch, door, note>> /\ branch # Absent /\ holder' \in {Absent, Repo}
    BY <1>7 DEF HumanSwitches
  <2> QED
    BY <2>1, <2>2 DEF Ground, Placed, SameRows, Rows
<1> QED
  BY <1>1, <1>2, <1>3, <1>4, <1>5, <1>6, <1>7

LEMMA GroundInit == Init => Ground
<1> SUFFICES ASSUME Init PROVE Ground
  OBVIOUS
<1>0. NoRow \in Dispatch
  BY CheckoutAssumption DEF NoRow, Dispatch, Closed, Commits, Places
<1>1. Rows = {} /\ Count = 0 /\ Since = {}
  BY FS_EmptySet, CheckoutAssumption DEF Init, Rows, NoRow, Count, Since
<1>2. TypeOK
  <2>1. /\ dispatch \in [Dispatches -> Dispatch]
        /\ step \in [status : {"pending", "running"}, start : 0..MaxStarts]
    BY <1>0, CheckoutAssumption DEF Init
  <2>2. Absent \in Commits /\ place \in Places /\ run \in 1..MaxRuns
    BY CheckoutAssumption DEF Init, Commits, Places
  <2>3. /\ door \in [start : 0..MaxStarts, from : Commits, to : Commits]
        /\ note \in [start : 0..MaxStarts, from : Commits, to : Commits,
                      before : (SUBSET Dispatches) \cup {Absent}]
        /\ accepted \in [head : Commits, after : 0..MaxDispatches]
    BY <2>2, CheckoutAssumption DEF Init, NoDoor
  <2>4. /\ branch \in Commits /\ holder \in Places \cup {Absent} /\ pre \in Commits /\ left \in Commits
    BY <2>2 DEF Init
  <2>6. human \in 0..MaxMoves /\ proc = "up" /\ pc = "idle"
    BY CheckoutAssumption DEF Init
  <2>7. torn \in BOOLEAN
    BY DEF Init
  <2>5. /\ index = {} /\ edits = {} /\ fresh = {} /\ before = {}
        /\ kept = {} /\ dropped = {} /\ stopped = {} /\ litter = {} /\ hooked = {}
    BY DEF Init
  <2> QED
    BY <2>1, <2>2, <2>3, <2>4, <2>5, <2>6, <2>7 DEF TypeOK
<1>3. Controlled
  BY DEF Init, Controlled, Live, Recovery, Pending
<1>4. Ordered
  BY <1>1 DEF Init, Ordered, InDispatch, Live
<1>5. Placed
  BY <1>1, AbsentAssumption, CheckoutAssumption DEF Init, Placed, Live, Repo, Places, NoDoor
<1> QED
  BY <1>2, <1>3, <1>4, <1>5 DEF Ground

LEMMA GroundStep == Ground /\ Next => Ground'
BY GroundTyped, GroundControlled, GroundOrdered, GroundPlaced DEF Ground

LEMMA GroundStutter == Ground /\ UNCHANGED vars => Ground'
BY DEF vars, Ground, TypeOK, Controlled, Ordered, Placed, Live, Since, Pending, Rows, Count, Now

----------------------------------------------------------------------------
(* The head that a resume compares the branch with.                        *)

LEMMA RecordedRows ==
    ASSUME Ground
    PROVE  /\ Recorded \subseteq Rows /\ Rows \subseteq Dispatches
           /\ Recorded # {} => Latest(Recorded) \in Recorded /\ Latest(Recorded) <= Count
<1>1. Recorded \subseteq Rows /\ Rows \subseteq Dispatches
  BY DEF Recorded, Rows
<1>2. Recorded # {} => Latest(Recorded) \in Recorded
  BY <1>1, LatestIsLatest
<1>3. \A d \in Rows : d <= Count
  BY NowIsLast DEF Ground, Ordered
<1> QED
  BY <1>1, <1>2, <1>3

LEMMA BaselineKept ==
    ASSUME Ground, Rows' = Rows, \A d \in Rows : dispatch'[d].head = dispatch[d].head, accepted' = accepted
    PROVE  Baseline' = Baseline
<1>1. Recorded' = Recorded
  BY DEF Recorded
<1>2. Recorded # {} => dispatch'[Latest(Recorded)].head = dispatch[Latest(Recorded)].head
  BY RecordedRows
<1> QED
  BY <1>1, <1>2 DEF Baseline

LEMMA BaselineLaunched == Ground /\ LaunchAgent => Baseline' = Baseline
<1> SUFFICES ASSUME Ground, LaunchAgent PROVE Baseline' = Baseline
  OBVIOUS
<1>1. Recorded' = Recorded /\ \A d \in Rows : dispatch'[d] = dispatch[d]
  BY RowLaunched DEF Recorded
<1>2. Recorded # {} => dispatch'[Latest(Recorded)] = dispatch[Latest(Recorded)]
  BY <1>1, RecordedRows
<1> QED
  BY <1>1, <1>2 DEF Baseline, LaunchAgent

LEMMA BaselineRecorded ==
    ASSUME Ground, SameRows, Rows # {}, dispatch'[Now].head # Absent,
           accepted' = accepted, accepted.after < Count
    PROVE  Baseline' = dispatch'[Now].head
<1>1. Recorded' = {d \in Rows : dispatch'[d].head # Absent} /\ Recorded' \subseteq Dispatches
  BY DEF Recorded, SameRows, Rows
<1>2. Now = Count /\ Now \in Rows /\ Rows = 1..Count /\ Count \in Nat
  BY NowIsLast DEF Ground, Ordered
<1>3. Now \in Recorded' /\ \A e \in Recorded' : e <= Now
  BY <1>1, <1>2
<1>4. Latest(Recorded') = Now
  <2>1. PICK S : S = Recorded'
    OBVIOUS
  <2> QED
    BY <1>1, <1>3, <2>1, LatestIs
<1> QED
  BY <1>2, <1>3, <1>4 DEF Baseline

LEMMA BaselineAccepted ==
    ASSUME Ground, dispatch' = dispatch, accepted'.head # Absent, accepted'.after = Count
    PROVE  Baseline' = accepted'.head
<1>1. Recorded' = Recorded /\ Count \in Nat
  BY NowIsLast DEF Ground, Recorded, Rows
<1>2. Recorded # {} => Latest(Recorded) <= Count /\ Latest(Recorded) \in Int
  BY RecordedRows, CheckoutAssumption DEF Dispatches
<1> QED
  BY <1>1, <1>2 DEF Baseline

----------------------------------------------------------------------------
(* Heads is inductive.                                                     *)

(* The row in progress has no head before it is closed.                    *)
LEMMA ClosedHead ==
    ASSUME Ground, Now \in Rows, NEW o \in Closed, NEW h \in Commits, completeDispatch(o, h)
    PROVE  /\ h # Absent /\ accepted' = accepted /\ accepted.after < Count => Baseline' = h
           /\ h = Absent /\ accepted' = accepted /\ dispatch[Now].head = Absent => Baseline' = Baseline
<1>1. SameRows /\ dispatch'[Now].head = h /\ \A d \in Dispatches : d # Now => dispatch'[d] = dispatch[d]
  BY RowClosed
<1>2. h # Absent /\ accepted' = accepted /\ accepted.after < Count => Baseline' = h
  BY <1>1, BaselineRecorded
<1>3. ASSUME h = Absent, accepted' = accepted, dispatch[Now].head = Absent PROVE Baseline' = Baseline
  <2>1. \A d \in Rows : dispatch'[d].head = dispatch[d].head
    BY <1>1, <1>3 DEF Rows
  <2> QED
    BY <1>1, <1>3, <2>1, BaselineKept DEF SameRows
<1> QED
  BY <1>2, <1>3

(* What is in progress has a place, a commit to return to and a row.       *)
LEMMA InProgress ==
    ASSUME Ground, pc \in InDispatch
    PROVE  /\ Live /\ Now \in Since /\ Now \in Rows /\ Since # {}
           /\ accepted.after < Count
           /\ holder = place /\ branch \in SUBSET Works /\ pre \in SUBSET Works
           /\ branch # Absent /\ pre # Absent
           /\ note.start < step.start
<1>1. Live /\ Now \in Since
  BY DEF Ground, Controlled, Ordered, Live, InDispatch, Recovery, TypeOK
<1> QED
  BY <1>1 DEF Ground, Controlled, Ordered, Placed, Since, TypeOK, Commits

(* A resumed run is in place only if it was so before.                     *)
LEMMA PlaceIs ==
    ASSUME Ground, Next
    PROVE  place' = place \/ (place' # Repo /\ \E a \in BOOLEAN : Resume(a))
<1>1. CASE \E acceptHead \in BOOLEAN : Resume(acceptHead)
  <2>1. ~(run + 1 = Repo) /\ Repo # Absent
    BY CheckoutAssumption, AbsentAssumption DEF Repo, Places, Ground, TypeOK
  <2> QED
    BY <1>1, <2>1, NowIsLast DEF Resume, Ground, Placed
<1>2. CASE \A acceptHead \in BOOLEAN : ~Resume(acceptHead)
  BY <1>2 DEF Next, Work, End, Restart, BeginStep, EnsureWorktree, LaunchAgent, AgentEdits, AgentFails,
     UndoFailed, RejectOutput, CloseRejected, Stage, Commit, CommitFails, CloseCommitted, ResetCommitted,
     CloseReset, RollBack, CloseRolledBack, Succeed, StepFails, Exit, StopSignal, RecordInterruption, Crash,
     HumanMoves, HumanSwitches, RecoverUndo, RecoverReturn, RecoverRefused, RecoverSkips, LeaveRemains, RecoverRevert, RecoverDone, memory, Leave
<1> QED
  BY <1>1, <1>2

(* What was dropped stays so, and while nothing was, ensureWorktree in     *)
(* place moves no branch that exists.                                      *)
LEMMA DroppedGrows == Next => dropped \subseteq dropped'
BY DEF Next, Work, End, Restart, BeginStep, EnsureWorktree, LaunchAgent, AgentEdits, AgentFails,
   UndoFailed, RejectOutput, CloseRejected, Stage, Commit, CommitFails, CloseCommitted, ResetCommitted,
   CloseReset, RollBack, CloseRolledBack, Succeed, StepFails, Exit, StopSignal, RecordInterruption, Crash,
   HumanMoves, HumanSwitches, Resume, RecoverUndo, RecoverReturn, RecoverRefused, RecoverSkips, LeaveRemains,
   RecoverRevert, RecoverDone, observers

LEMMA EnsureKeeps == Ground /\ EnsureWorktree /\ dropped' = {} => branch = Absent \/ branch' = branch
<1> SUFFICES ASSUME Ground, EnsureWorktree, dropped' = {}, branch # Absent PROVE branch' = branch
  OBVIOUS
<1>1. branch' \in {{}, branch} /\ branch \ branch' = {}
  BY DEF EnsureWorktree, OtherHeads
<1>2. branch \in SUBSET Works
  BY DEF Ground, TypeOK, Commits
<1> QED
  BY <1>1, <1>2

LEMMA AccountedStep == Ground /\ Heads /\ Next => Accounted'
<1> SUFFICES ASSUME Ground, Heads, Next PROVE Accounted'
  OBVIOUS
<1> USE DEF git, db, memory, observers, MoveTo, undoAttempt, ResetTracked, Leave
<1>a. proc' # "down" => left' = branch' /\ ~torn'
  <2>1. CASE proc = "down"
    BY <2>1 DEF Ground, Controlled, TypeOK, Recovery, Next, Work, End, Restart, BeginStep, EnsureWorktree, LaunchAgent, AgentEdits, AgentFails,
       UndoFailed, RejectOutput, CloseRejected, Stage, Commit, CommitFails, CloseCommitted, ResetCommitted,
       CloseReset, RollBack, CloseRolledBack, Succeed, StepFails, Exit, StopSignal, RecordInterruption, Crash,
       HumanMoves, HumanSwitches, Resume, RecoverUndo, RecoverReturn, RecoverRefused, RecoverSkips, LeaveRemains, RecoverRevert, RecoverDone
  <2>2. CASE proc # "down" /\ proc' # "down"
    <3>1. left' = branch'
      <4> USE <2>2 DEF Heads, Accounted
      <4>1. CASE Work
        <5>1. CASE BeginStep \/ EnsureWorktree \/ LaunchAgent \/ AgentEdits \/ UndoFailed \/ RejectOutput \/ CloseRejected
          BY <5>1 DEF BeginStep, EnsureWorktree, LaunchAgent, AgentEdits, UndoFailed, RejectOutput, CloseRejected
        <5>2. CASE \E outcome \in {"failed", "parked"} : AgentFails(outcome)
          BY <5>2 DEF AgentFails
        <5>3. CASE (\E new \in {"staged", "discarded", "ignored"} : Stage(new)) \/ \E ok \in BOOLEAN : CloseCommitted(ok)
          BY <5>3 DEF Stage, CloseCommitted
        <5>4. CASE Commit \/ CommitFails \/ ResetCommitted \/ CloseReset \/ RollBack \/ CloseRolledBack \/ Succeed \/ StepFails
          BY <5>4 DEF Commit, CommitFails, ResetCommitted, CloseReset, RollBack, CloseRolledBack, Succeed, StepFails
        <5> QED
          BY <4>1, <5>1, <5>2, <5>3, <5>4 DEF Work
      <4>2. CASE End \/ Restart
        BY <4>2 DEF End, Restart, Exit, StopSignal, RecordInterruption, Crash,
           HumanMoves, HumanSwitches, Resume, RecoverUndo, RecoverReturn, RecoverRefused, RecoverSkips, LeaveRemains, RecoverRevert, RecoverDone
      <4> QED
        BY <4>1, <4>2 DEF Next
    <3>2. torn' = torn
      BY <2>2 DEF Next, Work, End, Restart, BeginStep, EnsureWorktree, LaunchAgent, AgentEdits, AgentFails,
         UndoFailed, RejectOutput, CloseRejected, Stage, Commit, CommitFails, CloseCommitted, ResetCommitted,
         CloseReset, RollBack, CloseRolledBack, Succeed, StepFails, Exit, StopSignal, RecordInterruption, Crash,
         HumanMoves, HumanSwitches, Resume, RecoverUndo, RecoverReturn, RecoverRefused, RecoverSkips, LeaveRemains, RecoverRevert, RecoverDone
    <3> QED
      BY <2>2, <3>1, <3>2 DEF Heads, Accounted
  <2> QED
    BY <2>1, <2>2
<1>b. pc' \in {"reset", "rolledback"} => branch' = pre'
    BY DEF Heads, Accounted, Ground, Controlled, Next, Work, End, Restart, BeginStep, EnsureWorktree, LaunchAgent, AgentEdits, AgentFails,
       UndoFailed, RejectOutput, CloseRejected, Stage, Commit, CommitFails, CloseCommitted, ResetCommitted,
       CloseReset, RollBack, CloseRolledBack, Succeed, StepFails, Exit, StopSignal, RecordInterruption, Crash,
       HumanMoves, HumanSwitches, Resume, RecoverUndo, RecoverReturn, RecoverRefused, RecoverSkips, LeaveRemains, RecoverRevert, RecoverDone
<1>c. /\ pc' = "revert" => branch' = note'.from
      /\ pc' = "revert" /\ Tracked' => Since' # {} /\ accepted'.after < Count'
  <2>1. CASE RecoverReturn
    <3>1. SameRows /\ Since' = Since
      BY <2>1, RowsOtherwise, SinceIs DEF RecoverReturn, LaunchAgent, BeginStep
    <3>2. pc' = "revert" => Returnable /\ branch' = note'.from /\ UNCHANGED <<place, dropped, accepted, note>>
      BY <2>1 DEF RecoverReturn
    <3>3. pc' = "revert" /\ Tracked => Since # {} /\ accepted.after < Count
      <4>1. Pending
        BY <2>1 DEF RecoverReturn, Ground, Controlled, Recovery
      <4> QED
        BY <4>1, <3>2 DEF Returnable, Heads, Noted, ProgramMoved, Ground, TypeOK, Commits
    <3> QED
      BY <3>1, <3>2, <3>3 DEF SameRows, Tracked
  <2>2. CASE ~RecoverReturn
    BY <2>2 DEF Heads, Accounted, Ground, Controlled, Next, Work, End, Restart, BeginStep, EnsureWorktree, LaunchAgent, AgentEdits, AgentFails,
       UndoFailed, RejectOutput, CloseRejected, Stage, Commit, CommitFails, CloseCommitted, ResetCommitted,
       CloseReset, RollBack, CloseRolledBack, Succeed, StepFails, Exit, StopSignal, RecordInterruption, Crash,
       HumanMoves, HumanSwitches, Resume, RecoverUndo, RecoverRefused, RecoverSkips, LeaveRemains, RecoverRevert, RecoverDone
  <2> QED
    BY <2>1, <2>2
<1>d. Tracked' /\ ~torn' /\ pc' \notin Unrecorded /\ Baseline' # Absent => Baseline' = left'
  <2> SUFFICES ASSUME Tracked', ~torn', pc' \notin Unrecorded, Baseline' # Absent
               PROVE  Baseline' = left'
    OBVIOUS
  <2>0. Tracked /\ place = Repo /\ place' = Repo
    BY PlaceIs, DroppedGrows DEF Tracked
  <2>1. CASE EnsureWorktree
    <3>1. dispatch' = dispatch /\ accepted' = accepted /\ left' = branch' /\ pc' = pc /\ torn' = torn
      BY <2>1 DEF EnsureWorktree
    <3>2. Baseline' = Baseline
      BY <3>1 DEF Baseline, Recorded, Rows
    <3>3. CASE branch = Absent
      BY <3>2, <3>3 DEF Ground, Placed, Recorded, Baseline
    <3>4. CASE branch' = branch
      BY <2>0, <2>1, <3>1, <3>2, <3>4 DEF EnsureWorktree, Heads, Accounted
    <3> QED
      BY <2>1, <3>3, <3>4, EnsureKeeps DEF Tracked
  <2>2. CASE LaunchAgent
    BY <2>0, <2>2, BaselineLaunched DEF LaunchAgent, Heads, Accounted, Unrecorded
  <2>3. CASE \E outcome \in {"failed", "parked"} : AgentFails(outcome)
    <3>1. Baseline' = Baseline
      BY <2>3, ClosedHead, InProgress DEF AgentFails, Ground, Ordered, InDispatch, Closed, Commits
    <3> QED
      BY <2>0, <2>3, <3>1 DEF AgentFails, Heads, Accounted, Unrecorded
  <2>4. CASE CloseRejected \/ (\E ok \in BOOLEAN : CloseCommitted(ok)) \/ CloseReset \/ CloseRolledBack
    <3>1. pc \in InDispatch /\ proc = "up" /\ accepted' = accepted /\ left' = left
      BY <2>4 DEF CloseRejected, CloseCommitted, CloseReset, CloseRolledBack, InDispatch
    <3>2. Baseline' = branch
      BY <2>4, <3>1, ClosedHead, InProgress DEF CloseRejected, CloseCommitted, CloseReset, CloseRolledBack,
         Heads, Accounted, Closed, Commits
    <3> QED
      BY <2>0, <3>1, <3>2 DEF Heads, Accounted
  <2>5. CASE RecordInterruption
    <3>1. Baseline' = Baseline
      <4>1. CASE dispatch' = dispatch
        BY <2>5, <4>1, BaselineKept DEF RecordInterruption, Rows
      <4>2. CASE pc = "agent" /\ completeDispatch("interrupted", Absent)
        BY <2>5, <4>2, ClosedHead, InProgress DEF RecordInterruption, Ground, Ordered, InDispatch, Closed, Commits
      <4> QED
        BY <2>5, <4>1, <4>2 DEF RecordInterruption
    <3> QED
      BY <2>0, <2>5, <3>1 DEF RecordInterruption, Heads, Accounted, Ground, Controlled, Unrecorded
  <2>6. CASE \E acceptHead \in BOOLEAN : Resume(acceptHead)
    <3>1. dispatch' = dispatch /\ left' = branch /\ accepted' = IF Moved THEN [head |-> branch, after |-> Count] ELSE accepted
      BY <2>6 DEF Resume, Count
    <3>2. CASE Moved
      BY <3>1, <3>2, BaselineAccepted DEF Moved
    <3>3. CASE ~Moved
      <4>1. Baseline' = Baseline
        BY <3>1, <3>3, BaselineKept DEF Rows
      <4>2. place = Repo
        BY <2>0
      <4>3. branch # Absent
        <5>1. ASSUME branch = Absent PROVE Baseline = Absent
          BY <4>2, <5>1 DEF Ground, Placed, Baseline, Recorded
        <5> QED
          BY <4>1, <5>1
      <4> QED
        BY <2>0, <3>1, <3>3, <4>1, <4>3 DEF Moved
    <3> QED
      BY <3>2, <3>3
  <2>7. CASE RecoverRevert
    <3>1. SameRows /\ Pending /\ note.from # Absent /\ pc = "revert" /\ place = Repo /\ UNCHANGED <<accepted, left>>
      BY <2>0, <2>7, RowsReverted DEF RecoverRevert, Ground, Controlled, Recovery
    <3>2. Now \in Since /\ accepted.after < Count /\ left = note.from
      <4>1. Since # {} /\ accepted.after < Count /\ proc # "down"
        BY <2>0, <2>7, <3>1 DEF RecoverRevert, Heads, Accounted
      <4>2. PICK d \in Since : TRUE
        BY <4>1
      <4>3. d \in Rows /\ Now \in Rows /\ d <= Now /\ dispatch[d].start = step.start
        BY <4>2, NowIsLast DEF Since, Ground, Ordered
      <4>4. dispatch[Now].start = step.start
        BY <4>3 DEF Ground, Ordered, TypeOK, Rows, Dispatch
      <4> QED
        BY <4>1, <4>3, <4>4, <3>1 DEF Since, Heads, Accounted
    <3>3. Now \in Rows /\ dispatch'[Now].head = note.from
      BY <2>7, <3>1, <3>2, RowsReverted DEF Since, Pending
    <3> QED
      BY <3>1, <3>2, <3>3, BaselineRecorded
  <2>8. CASE Crash
    <3>1. Baseline' = Baseline
      BY <2>8, BaselineKept DEF Crash, Rows
    <3>2. pc \in Unrecorded => branch = Baseline
      BY <2>8 DEF Crash
    <3> QED
      BY <2>0, <2>8, <3>1, <3>2 DEF Crash, Heads, Accounted
  <2>9. CASE RecoverReturn
    <3>1. Baseline' = Baseline
      BY <2>9, BaselineKept DEF RecoverReturn, Rows
    <3> QED
      BY <2>0, <2>9, <3>1 DEF RecoverReturn, Heads, Accounted, Unrecorded
  <2>10. CASE Quiet /\ ~EnsureWorktree /\ ~Crash /\ ~RecoverReturn /\ \A acceptHead \in BOOLEAN : ~Resume(acceptHead)
    <3>1. Baseline' = Baseline
      BY <2>10, QuietRows, StartsAndAccepts, BaselineKept DEF Rows
    <3>2. pc \notin Unrecorded /\ left' = left /\ torn' = torn /\ place' = place
      BY <2>10 DEF Quiet, Unrecorded, Ground, Controlled, BeginStep, AgentEdits, UndoFailed, RejectOutput, Stage,
         Commit, CommitFails, ResetCommitted, RollBack, Succeed, StepFails, Exit, StopSignal, HumanMoves, HumanSwitches,
         RecoverUndo, RecoverRefused, RecoverSkips, LeaveRemains, RecoverDone
    <3> QED
      BY <2>0, <3>1, <3>2 DEF Heads, Accounted
  <2> QED
    BY <2>1, <2>2, <2>3, <2>4, <2>5, <2>6, <2>7, <2>8, <2>9, <2>10
       DEF Next, Work, End, Restart, Quiet
<1> QED
  BY <1>a, <1>b, <1>c, <1>d DEF Accounted

LEMMA KeptStep == Ground /\ Heads /\ Next => Kept'
<1> SUFFICES ASSUME Ground, Heads, Next PROVE Kept'
  OBVIOUS
<1> USE DEF git, db, memory, observers, MoveTo, undoAttempt, ResetTracked, Leave
<1>b. /\ kept # {} => branch # Absent /\ kept \subseteq branch \cup dropped
      /\ Live /\ Since # {} => kept \subseteq pre \cup dropped
      /\ Live /\ door.from # Absent => kept \subseteq door.from \cup dropped
      /\ Pending /\ note.from # Absent => kept \subseteq note.from \cup dropped
  BY DEF Heads, Kept
<1>1. CASE BeginStep
  BY <1>1, <1>b, SinceIs DEF BeginStep, Kept, Pending, Ground, Controlled, TypeOK
<1>2. CASE EnsureWorktree
  <2>1. Live /\ Since' = Since /\ Live' = Live
    BY <1>2, SinceIs DEF EnsureWorktree, LaunchAgent, BeginStep, Live
  <2>2. branch' # Absent /\ dropped \subseteq dropped'
        /\ (branch # Absent => branch \subseteq branch' \cup dropped')
    BY <1>2, AbsentAssumption DEF EnsureWorktree, OtherHeads
  <2>3. UNCHANGED <<kept, pre, door, step, note>>
    BY <1>2 DEF EnsureWorktree
  <2> QED
    BY <1>b, <2>1, <2>2, <2>3 DEF Kept, Pending
<1>3. CASE LaunchAgent
  BY <1>3, <1>b DEF LaunchAgent, Kept, Live, Pending
<1>4. CASE Commit \/ ResetCommitted
  <2>1. pc \in InDispatch
    BY <1>4 DEF Commit, ResetCommitted, InDispatch
  <2>2. branch' # Absent /\ kept \subseteq branch' \cup dropped /\ Live /\ Since' = Since
    BY <1>4, <1>b, <2>1, InProgress, SinceIs, GroundPlaced, AbsentAssumption
       DEF Commit, ResetCommitted, LaunchAgent, BeginStep, Ground, TypeOK, Works
  <2>3. UNCHANGED <<kept, dropped, pre, note, step>> /\ door'.from = door.from
    BY <1>4 DEF Commit, ResetCommitted, Ground, TypeOK
  <2> QED
    BY <1>b, <2>2, <2>3, InProgress, <2>1 DEF Kept, Pending
<1>5. CASE RollBack
  <2>1. Live /\ Since # {} /\ Since' = Since
    BY <1>5, NowIsLast, SinceIs DEF RollBack, Ground, Live, Since, LaunchAgent, BeginStep
  <2>2. branch' # Absent /\ kept \subseteq branch' \cup dropped
    BY <1>5, <1>b, <2>1 DEF RollBack, Ground, Placed
  <2> QED
    BY <1>5, <1>b, <2>1, <2>2 DEF RollBack, Kept, Live, Pending
<1>6. CASE Succeed
  BY <1>6, <1>b DEF Succeed, Kept, Live, Pending
<1>7. CASE RecordInterruption
  BY <1>7, <1>b DEF RecordInterruption, Kept, Live, Pending, Ground, Controlled, NoDoor
<1>8. CASE HumanMoves
  <2>1. branch' # Absent
    BY <1>8, GroundPlaced, AbsentAssumption DEF HumanMoves, Ground, TypeOK, Commits, Works
  <2> QED
    BY <1>8, <1>b, <2>1 DEF HumanMoves, Kept, Live, Pending
<1>9. CASE \E acceptHead \in BOOLEAN : Resume(acceptHead)
  BY <1>9, <1>b DEF Resume, Kept, Live, Pending
<1>10. CASE RecoverReturn
  BY <1>10, <1>b DEF RecoverReturn, Returnable, Kept, Live, Pending, Ground, Controlled, Recovery
<1>11. CASE ~BeginStep /\ ~EnsureWorktree /\ ~LaunchAgent /\ ~Commit /\ ~ResetCommitted /\ ~RollBack
           /\ ~Succeed /\ ~RecordInterruption /\ ~HumanMoves /\ ~RecoverReturn
           /\ \A acceptHead \in BOOLEAN : ~Resume(acceptHead)
  <2>1. Since' = Since
    BY <1>11, SinceIs
  <2>2. UNCHANGED <<branch, kept, dropped, pre, note>> /\ (Live' => Live)
    BY <1>11 DEF Next, Work, End, Restart, AgentEdits, AgentFails, UndoFailed, RejectOutput, CloseRejected,
       Stage, CommitFails, CloseCommitted, CloseReset, CloseRolledBack, StepFails, Exit, StopSignal, Crash, HumanSwitches,
       RecoverUndo, RecoverRefused, RecoverSkips, LeaveRemains, RecoverRevert, RecoverDone, Live
  <2>3. (step' = step \/ step'.status = "pending") /\ (door' = door \/ door' = NoDoor)
    BY <1>11 DEF Next, Work, End, Restart, AgentEdits, AgentFails, UndoFailed, RejectOutput, CloseRejected,
       Stage, CommitFails, CloseCommitted, CloseReset, CloseRolledBack, StepFails, Exit, StopSignal, Crash, HumanSwitches,
       RecoverUndo, RecoverRefused, RecoverSkips, LeaveRemains, RecoverRevert, RecoverDone, Ground, TypeOK
  <2> QED
    BY <1>b, <2>1, <2>2, <2>3 DEF Kept, Pending, NoDoor
<1> QED
  BY <1>1, <1>2, <1>3, <1>4, <1>5, <1>6, <1>7, <1>8, <1>9, <1>10, <1>11

LEMMA NotedStep == Ground /\ Heads /\ Next => Noted'
<1> SUFFICES ASSUME Ground, Heads, Next, Tracked' PROVE Noted'
  BY DEF Noted
<1> USE DEF git, db, memory, observers, MoveTo, undoAttempt, ResetTracked, Leave
<1>a. Tracked /\ place' = place /\ dropped' = {}
  BY PlaceIs, DroppedGrows DEF Tracked
<1>b. ASSUME Live, door.from # Absent
      PROVE  /\ branch # Absent /\ door.from \subseteq branch /\ branch \ door.from \subseteq Dispatches
             /\ door.to = branch
             /\ branch # door.from => Since # {}
             /\ Since # {} => door.from \subseteq pre /\ pre \ door.from \subseteq Dispatches
  BY <1>a, <1>b DEF Heads, Noted
<1>c. ASSUME Pending, ProgramMoved
      PROVE  /\ note.to # Absent /\ note.from \subseteq note.to /\ note.to \ note.from \subseteq Dispatches
             /\ Since # {}
             /\ \/ branch = note.to /\ accepted.after < Count /\ (Baseline # Absent => Baseline = branch)
                \/ Human \in branch \ note.to
                \/ ~(note.to \subseteq branch \cup {Human})
  BY <1>a, <1>c DEF Heads, Noted
<1>d. Live => ~Pending
  BY DEF Ground, Controlled, TypeOK, Pending
<1>1. CASE BeginStep
  BY <1>1, SinceIs DEF BeginStep, Noted, Pending, Ground, Controlled, TypeOK
<1>2. CASE EnsureWorktree
  <2>1. Live /\ UNCHANGED <<door, step, note, pre>> /\ Since' = Since
    BY <1>2, SinceIs DEF EnsureWorktree, LaunchAgent, BeginStep, Live
  <2>2. branch' = branch \/ (branch = Absent /\ door.from = Absent)
    BY <1>2, <1>a, <1>b, <2>1, EnsureKeeps
  <2> QED
    BY <1>b, <1>d, <2>1, <2>2 DEF Noted, Pending
<1>3. CASE LaunchAgent
  <2>1. UNCHANGED <<door, step, note, branch>> /\ pre' = branch /\ Live
    BY <1>3 DEF LaunchAgent, Live
  <2>2. Since' # {}
    BY <1>3, SinceIs
  <2> QED
    BY <1>b, <1>d, <2>1, <2>2 DEF Noted, Pending
<1>4. CASE Commit \/ ResetCommitted \/ RollBack
  <2>1. Live /\ Since # {} /\ Since' = Since
    BY <1>4, NowIsLast, InProgress, SinceIs DEF Commit, ResetCommitted, RollBack, Ground, Live, Since,
       InDispatch, LaunchAgent, BeginStep
  <2>2. UNCHANGED <<step, note, pre>> /\ door'.from = door.from /\ door'.to = branch' /\ branch' # Absent
        /\ branch' \in {branch \cup index, pre} /\ index \subseteq Dispatches
    BY <1>4, <2>1, InProgress, AbsentAssumption
       DEF Commit, ResetCommitted, RollBack, Ground, TypeOK, Placed, InDispatch, Works
  <2> QED
    BY <1>b, <1>d, <2>1, <2>2 DEF Noted, Pending
<1>5. CASE RecordInterruption
  <2>1. SameRows /\ Since' = Since /\ ~Live' /\ UNCHANGED <<branch, step, accepted>>
    BY <1>5, RowsOtherwise, SinceIs DEF RecordInterruption, LaunchAgent, BeginStep, Live
  <2>2. Baseline' = Baseline
    <3>1. CASE dispatch' = dispatch
      BY <2>1, <3>1, BaselineKept DEF Rows
    <3>2. CASE pc = "agent" /\ completeDispatch("interrupted", Absent)
      BY <2>1, <3>2, ClosedHead, InProgress DEF Ground, Ordered, InDispatch, Closed, Commits
    <3> QED
      BY <1>5, <3>1, <3>2 DEF RecordInterruption
  <2>3. CASE note' = note
    BY <1>c, <2>1, <2>2, <2>3 DEF Noted, Pending, ProgramMoved, SameRows
  <2>4. CASE door.start # 0 /\ note'.from = door.from /\ note'.to = door.to
    <3>1. Live /\ pc \in {"step", "agent"}
      BY <1>5, <2>4 DEF RecordInterruption, Ground, Controlled, NoDoor, Live
    <3>2. Baseline # Absent => Baseline = branch
      BY <1>a, <1>5, <3>1 DEF RecordInterruption, Heads, Accounted, Unrecorded
    <3>3. Since # {} => accepted.after < Count
      BY <3>1 DEF Ground, Ordered
    <3> QED
      BY <1>b, <2>1, <2>2, <2>4, <3>1, <3>2, <3>3 DEF Noted, ProgramMoved, SameRows
  <2> QED
    BY <1>5, <2>3, <2>4 DEF RecordInterruption
<1>6. CASE HumanMoves
  <2>1. SameRows /\ Since' = Since /\ ~Live' /\ UNCHANGED <<step, note, accepted>>
    BY <1>6, RowsOtherwise, SinceIs DEF HumanMoves, LaunchAgent, BeginStep, Live
  <2>2. Baseline' = Baseline
    BY <1>6, <2>1, BaselineKept DEF HumanMoves, Rows
  <2>3. branch' \in {branch \cup {Human}, {}} /\ Human \notin Dispatches
    BY <1>6 DEF HumanMoves, Human, Dispatches
  <2>4. ASSUME Pending, ProgramMoved
        PROVE  \/ branch' = note.to /\ accepted.after < Count /\ (Baseline # Absent => Baseline = branch')
               \/ Human \in branch' \ note.to
               \/ ~(note.to \subseteq branch' \cup {Human})
    <3>1. PICK d \in note.to : d \in Dispatches
      BY <1>c, <2>4 DEF ProgramMoved, Ground, TypeOK, Commits
    <3>2. CASE branch' = {}
      BY <2>3, <3>1, <3>2
    <3>3. CASE branch' = branch \cup {Human}
      BY <1>c, <2>4, <3>3
    <3> QED
      BY <2>3, <3>2, <3>3
  <2> QED
    BY <1>c, <2>1, <2>2, <2>4 DEF Noted, Pending, ProgramMoved, SameRows
<1>7. CASE \E acceptHead \in BOOLEAN : Resume(acceptHead)
  <2>1. SameRows /\ Since' = Since /\ ~Live' /\ UNCHANGED <<branch, dispatch, step, note>>
        /\ (accepted' = accepted \/ Moved)
    BY <1>7, RowsOtherwise, SinceIs DEF Resume, LaunchAgent, BeginStep, Live
  <2>2. CASE accepted' = accepted
    <3>1. Baseline' = Baseline
      BY <2>1, <2>2, BaselineKept DEF SameRows
    <3> QED
      BY <1>c, <2>1, <2>2, <3>1 DEF Noted, Pending, ProgramMoved, SameRows
  <2>3. CASE Moved
    BY <1>c, <2>1, <2>3 DEF Noted, Pending, ProgramMoved, Moved
  <2> QED
    BY <2>1, <2>2, <2>3
<1>8. CASE RecoverReturn
  <2>1. SameRows /\ Since' = Since /\ ~Live' /\ UNCHANGED <<dispatch, step, note, accepted>>
    BY <1>8, RowsOtherwise, SinceIs DEF RecoverReturn, LaunchAgent, BeginStep, Live
  <2>2. Baseline' = Baseline
    BY <2>1, BaselineKept DEF SameRows
  <2>3. CASE branch' = branch
    BY <1>c, <2>1, <2>2, <2>3 DEF Noted, Pending, ProgramMoved, SameRows
  <2>4. CASE branch' = note.from
    <3>1. Human \notin Dispatches
      BY DEF Human, Dispatches
    <3>2. ASSUME Pending, ProgramMoved PROVE ~(note.to \subseteq note.from \cup {Human})
      <4>1. note.to \in SUBSET Works /\ note.from \in SUBSET Works /\ note.from # note.to
        BY <1>c, <3>2 DEF ProgramMoved, Ground, TypeOK, Commits
      <4>2. PICK d \in note.to : d \notin note.from
        BY <1>c, <3>2, <4>1
      <4> QED
        BY <1>c, <3>1, <3>2, <4>1, <4>2
    <3> QED
      BY <1>c, <2>1, <2>4, <3>2 DEF Noted, Pending, ProgramMoved
  <2> QED
    BY <1>8, <2>3, <2>4 DEF RecoverReturn
<1>9. CASE RecoverRevert
  <2>1. SameRows /\ Since' = Since /\ ~Live' /\ UNCHANGED <<branch, step, note, accepted>>
    BY <1>9, RowsOtherwise, SinceIs DEF RecoverRevert, LaunchAgent, BeginStep, Live
  <2>2. branch = note.from
    BY <1>9 DEF RecoverRevert, Heads, Accounted
  <2> QED
    BY <1>c, <2>1, <2>2 DEF Noted, Pending, ProgramMoved, SameRows
<1>10. CASE ~BeginStep /\ ~EnsureWorktree /\ ~LaunchAgent /\ ~Commit /\ ~ResetCommitted /\ ~RollBack
           /\ ~RecordInterruption /\ ~HumanMoves /\ ~RecoverReturn /\ ~RecoverRevert
           /\ \A acceptHead \in BOOLEAN : ~Resume(acceptHead)
  <2>1. SameRows /\ Since' = Since /\ accepted' = accepted
    BY <1>10, SinceIs, RowsOtherwise, StartsAndAccepts
  <2>2. UNCHANGED <<branch, pre, note>> /\ (Live' => Live)
    BY <1>10 DEF Next, Work, End, Restart, AgentEdits, AgentFails, UndoFailed, RejectOutput, CloseRejected,
       Stage, CommitFails, CloseCommitted, CloseReset, CloseRolledBack, Succeed, StepFails, Exit, StopSignal, Crash, HumanSwitches,
       RecoverUndo, RecoverRefused, RecoverSkips, LeaveRemains, RecoverDone, Live
  <2>3. (step' = step \/ step'.status = "pending") /\ (door' = door \/ door' = NoDoor)
    BY <1>10 DEF Next, Work, End, Restart, AgentEdits, AgentFails, UndoFailed, RejectOutput, CloseRejected,
       Stage, CommitFails, CloseCommitted, CloseReset, CloseRolledBack, Succeed, StepFails, Exit, StopSignal, Crash, HumanSwitches,
       RecoverUndo, RecoverRefused, RecoverSkips, LeaveRemains, RecoverDone, Ground, TypeOK
  <2>4. Quiet \/ Live
    BY <1>10 DEF Quiet, Next, Work, End, Restart, AgentFails, CloseRejected, CloseCommitted, CloseReset,
       CloseRolledBack, Live
  <2>5. Pending' => Baseline' = Baseline
    BY <1>d, <2>1, <2>2, <2>3, <2>4, QuietRows, BaselineKept DEF Pending, Rows
  <2> QED
    BY <1>b, <1>c, <2>1, <2>2, <2>3, <2>5 DEF Noted, Pending, ProgramMoved, NoDoor, SameRows
<1> QED
  BY <1>1, <1>2, <1>3, <1>4, <1>5, <1>6, <1>7, <1>8, <1>9, <1>10

LEMMA HeadsInit == Init => Heads
<1> SUFFICES ASSUME Init PROVE Heads
  OBVIOUS
<1>1. Rows = {} /\ Since = {} /\ Baseline = Absent
  BY DEF Init, Rows, NoRow, Since, Baseline, Recorded
<1>2. ~Pending /\ ~Live
  BY DEF Init, Pending, Live
<1> QED
  BY <1>1, <1>2 DEF Init, Heads, Accounted, Kept, Noted

LEMMA HeadsStutter == Ground /\ Heads /\ UNCHANGED vars => Heads'
<1> SUFFICES ASSUME Heads, UNCHANGED vars PROVE Heads'
  OBVIOUS
<1>1. Rows' = Rows /\ Recorded' = Recorded /\ dispatch' = dispatch /\ accepted' = accepted
  BY DEF vars, Rows, Recorded
<1>2. Baseline' = Baseline /\ Count' = Count
  BY <1>1 DEF Baseline, Count
<1>3. Since' = Since /\ Live' = Live /\ Pending' = Pending /\ ProgramMoved' = ProgramMoved
  BY <1>1 DEF vars, Since, Live, Pending, ProgramMoved
<1> QED
  BY <1>1, <1>2, <1>3 DEF vars, Heads, Accounted, Kept, Noted, Tracked

----------------------------------------------------------------------------
(* Hands is inductive.                                                     *)

LEMMA OwnedStep == Ground /\ Hands /\ Next => Owned'
<1> SUFFICES ASSUME Ground, Hands, Next PROVE Owned'
  OBVIOUS
<1> USE DEF git, db, memory, observers, MoveTo, undoAttempt, ResetTracked, Leave
<1>a. Owned
  BY DEF Hands
<1>1. CASE LaunchAgent
  <2>1. UNCHANGED <<branch, door, note, index, edits, fresh, stopped>> /\ pre' = branch /\ before' = fresh
    BY <1>1 DEF LaunchAgent
  <2>2. Rows \subseteq Rows' /\ \A d \in stopped : dispatch'[d] = dispatch[d]
    BY <1>1, <1>a, RowLaunched DEF Owned
  <2> QED
    BY <1>a, <2>1, <2>2 DEF Owned, Tree
<1>2. CASE ~LaunchAgent
  <2>1. SameRows /\ Rows \subseteq Dispatches
    BY <1>2, RowsOtherwise DEF Rows
  <2>2. \A d \in stopped : dispatch'[d].start = dispatch[d].start
    BY <1>a, <2>1 DEF Owned, SameRows
  <2>3. CASE BeginStep
    BY <1>a, <2>1, <2>2, <2>3 DEF BeginStep, Owned, SameRows, Tree
  <2>4. CASE EnsureWorktree
    <3>1. branch' \in {{}, branch} /\ branch' # Absent
      BY <2>4, AbsentAssumption DEF EnsureWorktree, OtherHeads, Places, Repo
    <3> QED
      BY <1>a, <2>1, <2>2, <2>4, <3>1 DEF EnsureWorktree, Owned, SameRows, Tree
  <2>5. CASE AgentEdits
    <3>1. Now \in Rows
      BY <2>5, InProgress DEF AgentEdits, InDispatch
    <3> QED
      BY <1>a, <2>1, <2>2, <2>5, <3>1 DEF AgentEdits, Owned, SameRows, Tree
  <2>6. CASE Commit \/ ResetCommitted \/ RollBack
    <3>1. branch # Absent /\ pre # Absent /\ branch' # Absent
      BY <2>6, NowIsLast, InProgress, GroundPlaced, AbsentAssumption
         DEF Commit, ResetCommitted, RollBack, InDispatch, Ground, Live, Since, Placed, TypeOK, Works
    <3>2. branch' \in {branch \cup index, pre} /\ Tree' \subseteq Tree /\ door'.from = door.from
          /\ UNCHANGED <<pre, before, note, stopped>>
      BY <2>6 DEF Commit, ResetCommitted, RollBack, Tree, Ground, TypeOK
    <3> QED
      BY <1>a, <2>1, <2>2, <3>1, <3>2 DEF Owned, SameRows, Tree
  <2>7. CASE RecordInterruption
    <3>1. UNCHANGED <<branch, pre, before, index, edits, fresh>> /\ door' = NoDoor
      BY <2>7 DEF RecordInterruption
    <3>2. CASE note' = note /\ stopped' = stopped
      BY <1>a, <2>1, <2>2, <3>1, <3>2 DEF Owned, SameRows, Tree, NoDoor
    <3>3. CASE door.start # 0
      <4>1. note'.start = door.start /\ note'.from = door.from /\ note.start <= note'.start
        BY <2>7, <3>3 DEF RecordInterruption, Ground, Controlled, TypeOK, NoDoor
      <4>2. \/ stopped' = stopped
            \/ stopped' = stopped \cup {d \in Rows : dispatch[d].start = door.start} /\ door.from # Absent
        BY <2>7, <3>3 DEF RecordInterruption
      <4>3. stopped' \subseteq Rows /\ (stopped' # {} => branch # Absent)
        BY <1>a, <4>2 DEF Owned
      <4>4. \A d \in stopped' : dispatch'[d].start <= note'.start
        <5> SUFFICES ASSUME NEW d \in stopped' PROVE dispatch[d].start <= note'.start
          BY <2>1, <4>3 DEF SameRows
        <5>1. CASE d \in stopped
          <6>1. dispatch[d].start <= note.start /\ dispatch[d].start \in Int /\ note.start \in Int /\ note'.start \in Int
            BY <1>a, <5>1, <4>1 DEF Owned, Rows, Ground, TypeOK, Dispatch
          <6> QED
            BY <4>1, <6>1
        <5>2. CASE dispatch[d].start = door.start
          BY <4>1, <5>2 DEF Ground, TypeOK
        <5> QED
          BY <4>2, <5>1, <5>2
      <4> QED
        BY <1>a, <2>1, <3>1, <4>1, <4>3, <4>4 DEF Owned, SameRows, Tree, NoDoor
    <3> QED
      BY <2>7, <3>2, <3>3 DEF RecordInterruption
  <2>8. CASE HumanMoves
    <3>1. branch' \in {branch \cup {Human}, {}} /\ branch # Absent /\ branch' # Absent
      BY <2>8, GroundPlaced, AbsentAssumption DEF HumanMoves, Ground, TypeOK, Commits, Works
    <3> QED
      BY <1>a, <2>1, <2>8, <3>1 DEF HumanMoves, Owned, SameRows, Tree
  <2>9. CASE \E acceptHead \in BOOLEAN : Resume(acceptHead)
    <3>1. UNCHANGED <<branch, pre, before, door, note>> /\ stopped' \subseteq stopped /\ Tree' \subseteq Tree
      BY <2>9 DEF Resume, Tree
    <3> QED
      BY <1>a, <2>1, <2>2, <3>1 DEF Owned, SameRows
  <2>10. CASE RecoverReturn
    <3>1. UNCHANGED <<pre, before, door, note, stopped>> /\ Tree' \subseteq Tree
          /\ (branch' = branch \/ (branch' = note.from /\ note.from # Absent))
      BY <2>10 DEF RecoverReturn, Returnable, Tree
    <3> QED
      BY <1>a, <2>1, <2>2, <3>1 DEF Owned, SameRows
  <2>11. CASE ~BeginStep /\ ~EnsureWorktree /\ ~AgentEdits /\ ~Commit /\ ~ResetCommitted /\ ~RollBack
              /\ ~RecordInterruption /\ ~HumanMoves /\ ~RecoverReturn
              /\ \A acceptHead \in BOOLEAN : ~Resume(acceptHead)
    <3>1. UNCHANGED <<branch, pre, before, note>>
      BY <1>2, <2>11 DEF Next, Work, End, Restart, AgentFails, UndoFailed, RejectOutput, CloseRejected,
         Stage, CommitFails, CloseCommitted, CloseReset, CloseRolledBack, Succeed, StepFails, Exit, StopSignal,
         Crash, HumanSwitches, RecoverUndo, RecoverRefused, RecoverSkips, LeaveRemains, RecoverRevert, RecoverDone
    <3>2. Tree' \subseteq Tree
      BY <1>2, <2>11 DEF Next, Work, End, Restart, AgentFails, UndoFailed, RejectOutput, CloseRejected,
         Stage, CommitFails, CloseCommitted, CloseReset, CloseRolledBack, Succeed, StepFails, Exit, StopSignal,
         Crash, HumanSwitches, RecoverUndo, RecoverRefused, RecoverSkips, LeaveRemains, RecoverRevert, RecoverDone, Tree
    <3>3. (door' = door \/ door' = NoDoor) /\ stopped' \subseteq stopped
      BY <1>2, <2>11 DEF Next, Work, End, Restart, AgentFails, UndoFailed, RejectOutput, CloseRejected,
         Stage, CommitFails, CloseCommitted, CloseReset, CloseRolledBack, Succeed, StepFails, Exit, StopSignal,
         Crash, HumanSwitches, RecoverUndo, RecoverRefused, RecoverSkips, LeaveRemains, RecoverRevert, RecoverDone
    <3> QED
      BY <1>a, <2>1, <2>2, <3>1, <3>2, <3>3 DEF Owned, SameRows, NoDoor
  <2> QED
    BY <2>3, <2>4, <2>5, <2>6, <2>7, <2>8, <2>9, <2>10, <2>11
<1> QED
  BY <1>1, <1>2

LEMMA TracedStep == Ground /\ Hands /\ Next => Traced'
<1> SUFFICES ASSUME Ground, Hands, Next, Live' PROVE Traced'
  BY DEF Traced
<1> USE DEF git, db, memory, observers, MoveTo, undoAttempt, ResetTracked, Leave
<1>a. Traced /\ Owned /\ TakenBack
  BY DEF Hands
<1>b. Live => stopped \cap Since = {}
  BY <1>a DEF Owned, Since, Ground, Controlled, TypeOK, Dispatch, Rows
<1>c. proc \in {"up", "stopping"} => /\ branch # Absent => stopped \cap branch = {}
                                     /\ stopped \cap edits = {} /\ stopped \cap fresh \subseteq litter
  BY <1>a DEF TakenBack, Leftovers, Ground, Controlled, Recovery
<1>1. CASE BeginStep
  BY <1>1, <1>a, <1>c, SinceIs DEF BeginStep, Traced, InDispatch
<1>2. CASE EnsureWorktree
  <2>1. Live /\ Since = {} /\ Since' = {} /\ pc' = "step"
    BY <1>2, SinceIs, AbsentAssumption DEF EnsureWorktree, OtherHeads, Live, Ground, Placed, Places, TypeOK, LaunchAgent, BeginStep
  <2> QED
    BY <1>2, <1>a, <2>1 DEF EnsureWorktree, Traced, InDispatch
<1>3. CASE LaunchAgent
  <2>1. Live /\ pc = "step" /\ proc = "up" /\ branch # Absent /\ UNCHANGED <<branch, index, edits, fresh, door, stopped, litter>>
        /\ pre' = branch /\ before' = fresh /\ pc' = "agent"
    BY <1>3, AbsentAssumption DEF LaunchAgent, Live, Ground, Placed, TypeOK
  <2>2. Since' = Since \cup {Count + 1} /\ Now' = Count + 1 /\ Count + 1 \notin Rows /\ Count + 1 # Human
    BY <1>3, SinceIs, RowLaunched, NowIsLast DEF Human, Ground
  <2>3. Count + 1 \notin branch \cup index \cup edits \cup fresh \cup stopped
    BY <1>a, <2>1, <2>2 DEF Owned, Tree
  <2>4. door.from # Absent => Count + 1 \notin door.from
    BY <1>a, <2>2 DEF Owned
  <2>5. stopped \cap branch = {} /\ stopped \cap edits = {} /\ stopped \cap fresh \subseteq litter
    BY <1>c, <2>1
  <2> QED
    BY <1>a, <2>1, <2>2, <2>3, <2>4, <2>5 DEF Traced, InDispatch
<1>4. CASE AgentEdits
  <2>1. SameRows /\ Since' = Since
    BY <1>4, RowsOtherwise, SinceIs DEF AgentEdits, LaunchAgent, BeginStep
  <2>2. Now \in Since
    BY <1>4, InProgress DEF AgentEdits, InDispatch
  <2> QED
    BY <1>4, <1>a, <1>b, <2>1, <2>2 DEF AgentEdits, Traced, Live, SameRows, InDispatch
<1>5. CASE \E new \in {"staged", "discarded", "ignored"} : Stage(new)
  <2>1. Since' = Since /\ Live
    BY <1>5, SinceIs DEF Stage, LaunchAgent, BeginStep, Live
  <2> QED
    BY <1>5, <1>a, <2>1 DEF Stage, Traced, InDispatch
<1>6. CASE Commit
  <2>1. Since' = Since /\ Live
    BY <1>6, SinceIs DEF Commit, LaunchAgent, BeginStep, Live
  <2> QED
    BY <1>6, <1>a, <2>1 DEF Commit, Traced, InDispatch, Ground, TypeOK
<1>7. CASE ResetCommitted \/ RollBack
  <2>1. Since' = Since /\ Live
    BY <1>7, SinceIs DEF ResetCommitted, RollBack, LaunchAgent, BeginStep, Live
  <2>2. pc' \in {"reset", "rolledback"} /\ UNCHANGED <<pre, stopped>>
        /\ branch' = pre /\ door'.to = branch' /\ door'.from = door.from
    BY <1>7 DEF ResetCommitted, RollBack, Ground, TypeOK
  <2> QED
    BY <1>a, <2>1, <2>2 DEF Traced
<1>8. CASE \E ok \in BOOLEAN : CloseCommitted(ok)
  <2>1. Since' = Since /\ Live
    BY <1>8, SinceIs DEF CloseCommitted, LaunchAgent, BeginStep, Live
  <2> QED
    BY <1>8, <1>a, <2>1 DEF CloseCommitted, Traced, InDispatch
<1>9. CASE UndoFailed \/ CloseRejected \/ CommitFails \/ CloseReset \/ CloseRolledBack
  <2>1. Since' = Since /\ Live
    BY <1>9, SinceIs DEF UndoFailed, CloseRejected, CommitFails, CloseReset, CloseRolledBack, LaunchAgent, BeginStep, Live
  <2>2. pc' \in {"parked", "ending"} /\ UNCHANGED <<branch, door, pre, stopped>>
    BY <1>9 DEF UndoFailed, CloseRejected, CommitFails, CloseReset, CloseRolledBack
  <2> QED
    BY <1>a, <2>1, <2>2 DEF Traced, InDispatch
<1>10. CASE RejectOutput \/ \E outcome \in {"failed", "parked"} : AgentFails(outcome)
  <2>1. Since' = Since /\ Live /\ pc = "agent"
    BY <1>10, SinceIs DEF RejectOutput, AgentFails, LaunchAgent, BeginStep, Live
  <2>2. pc' \in {"rejected", "parking", "failing"} /\ UNCHANGED <<branch, door, pre, before, stopped, litter>>
    BY <1>10 DEF RejectOutput, AgentFails
  <2> QED
    BY <1>a, <2>1, <2>2 DEF Traced, InDispatch
<1>11. CASE StopSignal
  <2>1. SameRows /\ Since' = Since /\ Live
    BY <1>11, RowsOtherwise, SinceIs DEF StopSignal, LaunchAgent, BeginStep, Live
  <2> QED
    BY <1>11, <1>a, <2>1 DEF StopSignal, Traced, SameRows
<1> QED
  <2>1. ~(Succeed \/ StepFails \/ Exit \/ RecordInterruption \/ Crash \/ HumanMoves \/ HumanSwitches
          \/ (\E acceptHead \in BOOLEAN : Resume(acceptHead))
          \/ RecoverUndo \/ RecoverReturn \/ RecoverRefused \/ RecoverSkips \/ RecoverRevert \/ RecoverDone)
    BY DEF Live, Ground, Controlled, Recovery, Succeed, StepFails, Exit, RecordInterruption, Crash, HumanMoves, HumanSwitches,
       Resume, RecoverUndo, RecoverReturn, RecoverRefused, RecoverSkips, LeaveRemains, RecoverRevert, RecoverDone
  <2> QED
    BY <1>1, <1>2, <1>3, <1>4, <1>5, <1>6, <1>7, <1>8, <1>9, <1>10, <1>11, <2>1 DEF Next, Work, End, Restart

LEMMA TakenBackStep == Ground /\ Hands /\ Next => TakenBack'
<1> SUFFICES ASSUME Ground, Hands, Next PROVE TakenBack'
  OBVIOUS
<1> USE DEF git, db, memory, observers, MoveTo, undoAttempt, ResetTracked, Leave
<1>a. Traced /\ Owned /\ TakenBack
  BY DEF Hands
<1>b. Live => stopped \cap Since = {} /\ ~Pending
  BY <1>a DEF Owned, Since, Ground, Controlled, TypeOK, Dispatch, Rows, Pending
<1>c. proc \in {"up", "stopping"} => /\ branch # Absent => stopped \cap branch = {}
                                     /\ stopped \cap edits = {} /\ stopped \cap fresh \subseteq litter
                                     /\ pc \notin Recovery
  BY <1>a DEF TakenBack, Leftovers, Ground, Controlled, Recovery
<1>d. stopped \cap index = {} /\ (Pending /\ note.from # Absent => stopped \cap note.from = {})
  BY <1>a DEF TakenBack
(* A running process has nothing of a stopped start at hand.               *)
<1>e. ASSUME proc \in {"up", "stopping"}, proc' # "recovering", pc' \notin {"undo", "undoOnly"},
             stopped' = stopped, index' \subseteq index \cup edits \cup (fresh \ stopped), stopped \cap edits' = {},
             stopped \cap fresh' \subseteq litter, litter \subseteq litter', note' = note,
             branch' # Absent => stopped \cap branch' = {},
             ~Live => step' = step \/ step'.start # note.start,
             Live => step'.start = step.start
      PROVE  TakenBack'
  <2>1. Pending' => Pending
    BY <1>b, <1>e DEF Ground, Controlled, TypeOK, Pending
  <2> QED
    BY <1>c, <1>d, <1>e, <2>1 DEF TakenBack, Leftovers, Pending
<1>1. CASE BeginStep
  <2>1. step'.start # note.start /\ ~Live
    BY <1>1 DEF BeginStep, Ground, Controlled, TypeOK, Live
  <2> QED
    BY <1>1, <1>c, <1>e, <2>1 DEF BeginStep
<1>2. CASE EnsureWorktree
  <2>1. branch' \in {{}, branch} /\ Live
    BY <1>2 DEF EnsureWorktree, OtherHeads, Live
  <2> QED
    BY <1>2, <1>c, <1>e, <2>1 DEF EnsureWorktree
<1>3. CASE LaunchAgent
  BY <1>3, <1>c, <1>e DEF LaunchAgent, Live
<1>4. CASE AgentEdits
  <2>1. Now \notin stopped
    BY <1>4, <1>b, InProgress DEF AgentEdits, InDispatch
  <2> QED
    BY <1>4, <1>c, <1>e, <2>1 DEF AgentEdits, Live
<1>5. CASE \E new \in {"staged", "discarded", "ignored"} : Stage(new)
  <2>1. stopped \cap (fresh \ before) = {}
    BY <1>5, <1>a DEF Stage, Traced, Live
  <2> QED
    BY <1>5, <1>c, <1>e, <2>1 DEF Stage, Live
<1>6. CASE Commit \/ ResetCommitted \/ RollBack
  <2>1. Live /\ Since # {} /\ branch # Absent
    BY <1>6, NowIsLast, InProgress DEF Commit, ResetCommitted, RollBack, Ground, Live, Since, Placed,
       InDispatch
  <2>2. stopped \cap branch' = {}
    BY <1>6, <1>a, <1>c, <1>d, <2>1 DEF Commit, ResetCommitted, RollBack, Traced
  <2> QED
    BY <1>6, <1>c, <1>e, <2>1, <2>2 DEF Commit, ResetCommitted, RollBack
<1>7. CASE UndoFailed \/ RejectOutput \/ CommitFails \/ StopSignal
  <2>1. UNCHANGED <<branch, note, step, index, stopped, litter>> /\ edits' \subseteq edits /\ fresh' \subseteq fresh
        /\ proc = "up" /\ proc' \in {"up", "stopping"} /\ (pc' = pc \/ pc' \in {"parked", "ending", "rejected"})
    BY <1>7 DEF UndoFailed, RejectOutput, CommitFails, StopSignal
  <2> QED
    BY <1>c, <1>e, <2>1 DEF Recovery
<1>8. CASE Closing \/ Succeed \/ StepFails \/ Exit
  <2>1. UNCHANGED <<branch, note, index, edits, fresh, stopped, litter>> /\ proc = "up" /\ proc' \in {"up", "down"}
    BY <1>8 DEF Closing, AgentFails, CloseRejected, CloseCommitted, CloseReset, CloseRolledBack, Succeed,
       StepFails, Exit
  <2>2. step'.start = step.start /\ (step' = step \/ Live) /\ pc' \notin {"undo", "undoOnly"}
    BY <1>8 DEF Closing, AgentFails, CloseRejected, CloseCommitted, CloseReset, CloseRolledBack, Succeed,
       StepFails, Exit, Ground, TypeOK, Live
  <2> QED
    BY <1>c, <1>e, <2>1, <2>2
<1>9. CASE RecordInterruption
  <2>1. UNCHANGED <<branch, index, edits, fresh, step, litter, place>> /\ proc = "stopping" /\ proc' = "down" /\ pc' = "idle"
    BY <1>9 DEF RecordInterruption
  <2>2. CASE note' = note /\ stopped' = stopped
    BY <1>c, <1>d, <2>1, <2>2 DEF TakenBack, Leftovers, Pending
  <2>3. CASE door.start # 0
    <3>1. Live /\ pc \in {"step", "agent"} /\ door.start = step.start /\ step.status = "running"
      BY <2>1, <2>3 DEF Ground, Controlled, NoDoor, Live
    <3>2. /\ note'.start = step.start /\ note'.from = door.from /\ note'.to = door.to
          /\ note'.before = IF pc = "agent" THEN before ELSE Absent
      BY <1>9, <2>3, <3>1 DEF RecordInterruption
    <3>3. stopped' = IF door.from = Absent THEN stopped ELSE stopped \cup Since
      BY <1>9, <2>3, <3>1 DEF RecordInterruption, Since
    <3>4. Pending'
      BY <2>1, <3>1, <3>2 DEF Pending
    <3>5. stopped' \cap index = {} /\ (door.from # Absent => stopped' \cap door.from = {})
      BY <1>a, <1>d, <3>1, <3>3 DEF Traced
    <3>6. branch # Absent /\ stopped' \cap branch # {} => door.from # Absent /\ branch = door.to /\ door.from # door.to
      BY <1>a, <1>c, <2>1, <3>1, <3>3, <3>5 DEF Traced
    <3>7. pc = "step" => ~Leftovers'
      BY <1>a, <1>c, <2>1, <3>1, <3>3 DEF Traced, Leftovers
    <3>8. pc = "agent" => note'.before # Absent /\ stopped' \cap note'.before \subseteq litter
      <4>1. before \in SUBSET Works
        BY DEF Ground, TypeOK, Works
      <4> QED
        BY <1>a, <3>1, <3>2, <3>3, <4>1, AbsentAssumption DEF Traced
    <3> QED
      BY <2>1, <3>1, <3>2, <3>4, <3>5, <3>6, <3>7, <3>8 DEF TakenBack, ProgramMoved
  <2> QED
    BY <1>9, <2>2, <2>3 DEF RecordInterruption
<1>10. CASE Crash
  <2>1. UNCHANGED <<branch, index, edits, fresh, step, note, stopped, place>> /\ litter \subseteq litter'
        /\ proc' = "down" /\ pc' = "idle"
    BY <1>10 DEF Crash
  <2>2. Leftovers' => Leftovers
    BY <2>1 DEF Leftovers
  <2> QED
    BY <1>a, <2>1, <2>2 DEF TakenBack, Pending, ProgramMoved
<1>11. CASE HumanMoves \/ RecoverRefused \/ RecoverSkips
  <2>1. stopped' = {}
    BY <1>11 DEF HumanMoves, RecoverRefused, RecoverSkips, LeaveRemains
  <2> QED
    BY <2>1 DEF TakenBack, Leftovers
<1>12. CASE \E acceptHead \in BOOLEAN : Resume(acceptHead)
  <2> PICK acceptHead \in BOOLEAN : Resume(acceptHead)
    BY <1>12
  <2>1. UNCHANGED <<branch, step, note, litter>> /\ proc = "down" /\ proc' = "recovering"
    BY DEF Resume
  <2>2. CASE stopped' = {}
    BY <2>2 DEF TakenBack, Leftovers
  <2>3. CASE stopped # {} /\ stopped' = stopped /\ ~acceptHead
    <3>1. Rows # {} /\ Now \in Rows /\ Pending' = Pending
      BY <1>a, <2>1, <2>3, NowIsLast DEF Owned, Ground, Pending
    <3>2. pc' = IF Pending THEN "undo" ELSE "requeue"
      BY <2>3 DEF Resume, Pending, Ground, TypeOK
    <3>3. \/ place = Repo /\ place' = Repo /\ UNCHANGED <<index, edits, fresh>>
          \/ place # Repo /\ place' # Repo /\ Tree' = {}
      <4>1. ~(run + 1 = Repo)
        BY CheckoutAssumption DEF Repo, Ground, TypeOK
      <4>2. dispatch[Now].place = Repo <=> place = Repo
        BY <3>1 DEF Ground, Placed
      <4>3. dispatch[Now].place # Absent
        BY <3>1, AbsentAssumption DEF Rows, Ground, TypeOK, Dispatch
      <4> QED
        BY <3>1, <4>1, <4>2, <4>3 DEF Resume, Tree
    <3>4. CASE place = Repo
      BY <1>a, <1>d, <2>1, <2>3, <3>1, <3>2, <3>3, <3>4 DEF TakenBack, Leftovers, ProgramMoved
    <3>5. CASE place # Repo
      BY <1>a, <1>d, <2>1, <2>3, <3>1, <3>2, <3>3, <3>5 DEF TakenBack, Leftovers, ProgramMoved, Tree
    <3> QED
      BY <3>4, <3>5
  <2> QED
    BY <2>2, <2>3 DEF Resume
<1>13. CASE RecoverUndo
  <2>1. UNCHANGED <<branch, index, step, note, stopped, litter, place>> /\ proc = "recovering" /\ proc' = proc
        /\ pc \in {"undo", "undoOnly"} /\ pc' = IF pc = "undo" THEN "return" ELSE "requeue"
    BY <1>13 DEF RecoverUndo
  <2>2. Tree' \subseteq Tree /\ ~Leftovers'
    BY <1>13, <1>a DEF RecoverUndo, TakenBack, Leftovers, Tree
  <2> QED
    BY <1>a, <2>1, <2>2 DEF TakenBack, Pending, ProgramMoved, Tree
<1>14. CASE RecoverReturn
  <2>1. UNCHANGED <<fresh, step, note, stopped, litter, place>> /\ proc = "recovering" /\ proc' = proc
        /\ pc = "return" /\ pc' \in {"revert", "requeue"} /\ index' \subseteq index /\ edits' \subseteq edits
    BY <1>14 DEF RecoverReturn
  <2>2. Pending
    BY <2>1 DEF Ground, Controlled, Recovery
  <2>3. branch' # Absent => stopped \cap branch' = {}
    <3>1. CASE Returnable
      BY <1>14, <1>d, <2>2, <3>1 DEF RecoverReturn, Returnable
    <3>2. CASE ~Returnable
      BY <1>14, <1>a, <3>2 DEF RecoverReturn, Returnable, TakenBack, ProgramMoved
    <3> QED
      BY <3>1, <3>2
  <2>4. ~Leftovers' /\ (place # Repo /\ stopped # {} => Tree' = {})
    BY <1>a, <2>1 DEF TakenBack, Leftovers, Tree
  <2> QED
    BY <1>d, <2>1, <2>2, <2>3, <2>4 DEF TakenBack, Pending
<1>15. CASE RecoverRevert \/ RecoverDone
  <2>1. UNCHANGED <<branch, index, edits, fresh, note, stopped, litter, place>> /\ proc = "recovering"
        /\ pc \in {"revert", "requeue"} /\ pc' \in {"requeue", "idle"} /\ (proc' = "recovering" => pc' = "requeue")
        /\ (step' = step \/ step'.status = "pending")
    BY <1>15 DEF RecoverRevert, RecoverDone, Ground, TypeOK
  <2>2. ~Leftovers' /\ (branch # Absent => stopped \cap branch = {})
    BY <1>a, <2>1 DEF TakenBack, Leftovers
  <2> QED
    BY <1>a, <1>d, <2>1, <2>2 DEF TakenBack, Pending, Tree
<1>16. CASE HumanSwitches
  BY <1>16, <1>a DEF HumanSwitches, TakenBack, Leftovers, Pending, ProgramMoved, Tree
<1> QED
  BY <1>1, <1>2, <1>3, <1>4, <1>5, <1>6, <1>7, <1>8, <1>9, <1>10, <1>11, <1>12, <1>13, <1>14, <1>15, <1>16
     DEF Next, Work, End, Restart, Closing

LEMMA TidyStep == Ground /\ Owned /\ Tidy /\ Next => Tidy'
<1> SUFFICES ASSUME Ground, Owned, Tidy, Next PROVE Tidy'
  OBVIOUS
<1> USE DEF git, db, memory, observers, MoveTo, undoAttempt, ResetTracked, Leave
<1>a. Live => ~Pending
  BY DEF Ground, Controlled, TypeOK, Pending
<1>b. proc = "up" /\ pc \notin {"agent", "failing", "parking", "staged"} => Tree \subseteq Known
  BY DEF Tidy, Ground, Controlled, Recovery
<1>1. CASE BeginStep \/ EnsureWorktree \/ LaunchAgent \/ AgentEdits \/ StopSignal
  BY <1>1, <1>b DEF BeginStep, EnsureWorktree, LaunchAgent, AgentEdits, StopSignal, Tidy, Tree, Known
<1>2. CASE Closing \/ Succeed \/ StepFails \/ Exit
  BY <1>2, <1>b DEF Closing, AgentFails, CloseRejected, CloseCommitted, CloseReset, CloseRolledBack, Succeed,
     StepFails, Exit, Tidy, Tree, Known
<1>3. CASE UndoFailed \/ RejectOutput
  BY <1>3 DEF UndoFailed, RejectOutput, Tidy, Tree, Known
<1>4. CASE \E new \in {"staged", "discarded", "ignored"} : Stage(new)
  BY <1>4 DEF Stage, Tidy, Tree, Known
<1>5. CASE Commit \/ CommitFails \/ ResetCommitted \/ RollBack
  BY <1>5, <1>b DEF Commit, CommitFails, ResetCommitted, RollBack, Tidy, Tree, Known
<1>6. CASE RecordInterruption
  <2>1. UNCHANGED <<index, edits, fresh, step, litter, hooked, place>> /\ proc = "stopping" /\ proc' = "down" /\ pc' = "idle"
    BY <1>6 DEF RecordInterruption
  <2>2. CASE pc = "agent"
    <3>1. /\ note'.start = door.start /\ note'.before = before /\ door.start = step.start
          /\ step.status = "running"
      BY <1>6, <2>1, <2>2 DEF RecordInterruption, Ground, Controlled, Live, TypeOK, Recovery
    <3>2. before # Absent
      BY AbsentAssumption DEF Ground, TypeOK, Works
    <3> QED
      BY <2>1, <2>2, <3>1, <3>2 DEF Tidy, Pending, Known
  <2>3. CASE pc # "agent"
    <3>1. pc \in {"idle", "step"}
      BY <2>1, <2>3 DEF Ground, Controlled
    <3> QED
      BY <2>1, <3>1 DEF Tidy, Known, Tree
  <2> QED
    BY <2>2, <2>3
<1>7. CASE Crash
  <2>1. UNCHANGED <<index, edits, fresh, step, note, hooked, place>> /\ litter \subseteq litter' /\ proc' = "down" /\ pc' = "idle"
    BY <1>7 DEF Crash
  <2>2. Tree \subseteq Known' \/ proc = "recovering" \/ pc \in {"idle", "step"}
    BY <1>7 DEF Crash, Known
  <2>3. Known \subseteq Known' /\ Tree' = Tree /\ Pending' = Pending
    BY <2>1 DEF Known, Tree, Pending
  <2>4. CASE Tree \subseteq Known'
    BY <2>1, <2>3, <2>4 DEF Tidy, Tree
  <2>5. CASE ~(Tree \subseteq Known')
    BY <2>1, <2>2, <2>3, <2>5 DEF Tidy, Ground, Controlled, Recovery
  <2> QED
    BY <2>4, <2>5
<1>8. CASE HumanMoves \/ HumanSwitches
  BY <1>8 DEF HumanMoves, HumanSwitches, Tidy, Tree, Known, Pending, Ground, Controlled
<1>9. CASE \E acceptHead \in BOOLEAN : Resume(acceptHead)
  <2> PICK acceptHead \in BOOLEAN : Resume(acceptHead)
    BY <1>9
  <2>1. UNCHANGED <<step, note, litter, hooked>> /\ proc = "down" /\ pc = "idle"
    BY DEF Resume, Ground, Controlled
  <2>2. CASE Tree' = {}
    BY <2>1, <2>2 DEF Resume, Tidy, Tree
  <2>3. CASE Tree' # {}
    <3>1. UNCHANGED <<index, edits, fresh>>
      BY <2>3 DEF Resume, Tree
    <3>2. Rows # {} /\ Now \in Rows
      BY <2>3, <3>1, NowIsLast DEF Owned, Tree, Ground
    <3>3. place = Repo /\ place' = Repo
      <4>1. dispatch[Now].place = Repo <=> place = Repo
        BY <3>2 DEF Ground, Placed
      <4>2. dispatch[Now].place # Absent
        BY <3>2, AbsentAssumption DEF Rows, Ground, TypeOK, Dispatch
      <4> QED
        BY <2>3, <3>2, <4>1, <4>2 DEF Resume, Tree
    <3>4. pc' \in {"requeue", "undo", "undoOnly"} /\ (pc' = "requeue" => ~Pending)
      BY DEF Resume, Pending, Ground, TypeOK
    <3> QED
      BY <2>1, <3>1, <3>3, <3>4 DEF Tidy, Tree, Known, Pending
  <2> QED
    BY <2>2, <2>3
<1>10. CASE RecoverUndo \/ RecoverReturn \/ RecoverRefused \/ RecoverSkips
  <2>1. UNCHANGED <<step, note, hooked, place>> /\ proc = "recovering" /\ pc \in {"undo", "undoOnly", "return"}
        /\ index' \subseteq index /\ edits' \subseteq edits /\ fresh' \subseteq fresh /\ litter \subseteq litter'
        /\ pc' \in {"return", "revert", "requeue"}
    BY <1>10 DEF RecoverUndo, RecoverReturn, RecoverRefused, RecoverSkips, LeaveRemains
  <2>2. CASE Tree \subseteq Known'
    BY <2>1, <2>2 DEF Tidy, Tree
  <2>3. CASE ~(Tree \subseteq Known') /\ RecoverUndo
    BY <2>1, <2>3 DEF RecoverUndo, Tidy, Tree, Known
  <2>4. CASE RecoverReturn
    BY <2>1, <2>4 DEF RecoverReturn, Tidy, Tree, Known
  <2>5. CASE RecoverRefused \/ RecoverSkips
    BY <2>1, <2>2, <2>5 DEF RecoverRefused, RecoverSkips, LeaveRemains, Tree, Known
  <2> QED
    BY <1>10, <2>2, <2>3, <2>4, <2>5
<1>11. CASE RecoverRevert \/ RecoverDone
  BY <1>11 DEF RecoverRevert, RecoverDone, Tidy, Tree, Known
<1> QED
  BY <1>1, <1>2, <1>3, <1>4, <1>5, <1>6, <1>7, <1>8, <1>9, <1>10, <1>11
     DEF Next, Work, End, Restart, Closing

LEMMA HandsInit == Init => Hands
<1> SUFFICES ASSUME Init PROVE Hands
  OBVIOUS
<1>1. ~Live /\ Tree = {} /\ stopped = {} /\ ~Leftovers
  BY DEF Init, Live, Tree, Leftovers
<1> QED
  BY <1>1 DEF Init, NoDoor, Hands, Owned, Traced, TakenBack, Tidy

LEMMA HandsStutter == Hands /\ UNCHANGED vars => Hands'
<1> SUFFICES ASSUME Hands, UNCHANGED vars PROVE Hands'
  OBVIOUS
<1>1. Rows' = Rows /\ Tree' = Tree /\ dispatch' = dispatch
  BY DEF vars, Rows, Tree
<1>2. Since' = Since /\ Live' = Live /\ Pending' = Pending /\ ProgramMoved' = ProgramMoved /\ Now' = Now
      /\ Leftovers' = Leftovers /\ Known' = Known
  BY <1>1 DEF vars, Since, Live, Pending, ProgramMoved, Now, Leftovers, Known
<1> QED
  BY <1>1, <1>2 DEF vars, Hands, Owned, Traced, TakenBack, Tidy

----------------------------------------------------------------------------
(* The theorems.                                                           *)

LEMMA IInvStep == IInv /\ [Next]_vars => IInv'
<1>1. IInv /\ Next => IInv'
  BY GroundStep, AccountedStep, KeptStep, NotedStep, OwnedStep, TracedStep,
     TakenBackStep, TidyStep DEF IInv, Heads, Hands
<1>2. IInv /\ UNCHANGED vars => IInv'
  BY GroundStutter, HeadsStutter, HandsStutter DEF IInv
<1> QED
  BY <1>1, <1>2

(* The inductive invariant holds in every reachable state.                 *)
THEOREM Inductive == Spec => []IInv
<1>1. Init => IInv
  BY GroundInit, HeadsInit, HandsInit DEF IInv
<1> QED
  BY <1>1, IInvStep, PTL DEF Spec

(* Every variable keeps its type.                                          *)
THEOREM TypesAreKept == Spec => []TypeOK
<1>1. IInv => TypeOK
  BY DEF IInv, Ground
<1> QED
  BY <1>1, Inductive, PTL

(* What a succeeded step left on the ticket branch stays there, in place   *)
(* or in worktrees, but for what ensureWorktree's `-B` drops: no undo,     *)
(* reset, roll-back, stop, crash or resume takes it off.                   *)
THEOREM KeptOrDropped == Spec => []OnlyEnsureDrops
<1>1. IInv => OnlyEnsureDrops
  BY DEF IInv, Heads, Kept, OnlyEnsureDrops
<1> QED
  BY <1>1, Inductive, PTL

(* In place, the head that a resume compares the branch with is where the  *)
(* program left it or the operator accepted it, unless ensureWorktree took *)
(* work off the branch of a checkout left elsewhere.                       *)
THEOREM TheBaselineIsTrue == Spec => []BaselineTrue
<1>1. IInv => BaselineTrue
  BY DEF IInv, Ground, Controlled, Heads, Accounted, Tracked, BaselineTrue, Unrecorded
<1> QED
  BY <1>1, Inductive, PTL

(* Once a resumed run is up, nothing of an interrupted start is left on    *)
(* the branch or in the tree, in place or in a worktree.                   *)
THEOREM StoppedIsTakenBack == Spec => []StoppedWorkGone
<1>1. IInv => StoppedWorkGone
  <2> SUFFICES ASSUME IInv, proc = "up" PROVE stopped \cap (branch \cup (Tree \ litter)) = {}
    BY DEF StoppedWorkGone
  <2>1. stopped # {} => branch # Absent
    BY DEF IInv, Hands, Owned
  <2>2. pc \notin Recovery
    BY DEF IInv, Ground, Controlled
  <2> QED
    BY <2>1, <2>2 DEF IInv, Hands, TakenBack, Leftovers, Recovery, Tree
<1> QED
  BY <1>1, Inductive, PTL

(* Between two steps the tree holds what the code knowingly leaves there,  *)
(* and nothing else.                                                       *)
THEOREM TreeIsClean == Spec => []CleanTree
<1>1. IInv => CleanTree
  BY DEF IInv, Ground, Controlled, Recovery, Hands, Tidy, Known, CleanTree
<1> QED
  BY <1>1, Inductive, PTL
=============================================================================
