--------------------------- MODULE DeliveryProofs ---------------------------
(***************************************************************************)
(* The properties of module Delivery, for every retry budget, any number   *)
(* of heads, rows, processes, moves and faults, and with required suites   *)
(* or without.                                                             *)
(*                                                                         *)
(* The argument for `pr-ready`: at the gate the push of the recorded head  *)
(* is journalled (Gated, Journaled), so the row that undeliveredReason     *)
(* looks at exists; it was sent, and no drain touches a row that is not    *)
(* pending (Listed).  As long as no push came late, the remote branch is   *)
(* at the head of that row or of a later one (Latest), and there is none.  *)
(***************************************************************************)
EXTENDS Delivery, TLAPS, FiniteSetTheorems, WellFoundedInduction

Busy == {"drain", "applied", "failed"}
Sent(i) == outbox[i].status = "sent"

(* A drain works on the pending rows it listed, but for the one it has     *)
(* just given up.                                                          *)
Listed ==
    /\ todo \subseteq DOMAIN outbox
    /\ pc \in {"applied", "failed"} => todo # {}
    /\ pc \in {"tick", "gate"} => todo = {}
    /\ proc = "down" => pc = "tick"
    /\ \A i \in todo : outbox[i].status = "pending" \/ (pc = "failed" /\ i = Now)

(* The forge answered a PR request only after it had made one.             *)
Requested ==
    /\ prResult => pr
    /\ pc = "applied" /\ outbox[Now].op = "pr_create" => pr

(* merge:push and merge:pr-ensure precede the gate, and the gate is waited *)
(* at in the merge stage only.                                             *)
Gated ==
    /\ pushed => stage = "merge"
    /\ approval /\ stage = "merge" => pushed
    /\ pc = "gate" \/ (pc \in Busy /\ why = "gate") => approval /\ stage = "merge"

(* Whoever asks a human to resume makes the ticket wait.                   *)
Waits == (resume \/ outcome = "paused") => resume /\ status = "waiting"

(* The remote branch is at the latest push that was sent, or at a later    *)
(* one whose answer is not recorded yet.                                   *)
Latest ==
    /\ pc = "applied" /\ outbox[Now].op = "push" =>
           remote = outbox[Now].arg /\ (Late(Now) => overtaken)
    /\ ~overtaken /\ (\E j \in Rows("push") : Sent(j)) =>
           \E i \in Rows("push") :
               outbox[i].arg = remote /\ \A j \in Rows("push") : Sent(j) => j <= i

(* What undeliveredReason saw stays so while finish drains once more.      *)
Delivered ==
    /\ prResult
    /\ \E i \in Rows("push") :
           Sent(i) /\ outbox[i].arg = recorded /\ \A j \in Rows("push") : j <= i
Claimed == proc = "up" /\ outcome = "pr-ready" => pc \in Busy /\ why = "finish" /\ Delivered

IInv ==
    /\ TypeOK
    /\ Listed /\ Requested /\ Gated /\ PushIsJournaled /\ Waits /\ Latest /\ Claimed
    /\ PublishedIsVerified

----------------------------------------------------------------------------
(* The least and the greatest id of a set of ids.                          *)

LEMMA LeastIsLeast ==
    ASSUME NEW N \in Nat, NEW S \in SUBSET (1..N), S # {}
    PROVE  Least(S) \in S /\ \A j \in S : Least(S) <= j
<1> DEFINE Upto == {1..k : k \in S}
<1>1. Upto # {} /\ Upto \subseteq SUBSET (1..N)
  <2>1. ASSUME NEW k \in S PROVE 1..k \subseteq 1..N
    OBVIOUS
  <2> QED
    BY <2>1
<1>2. IsWellFoundedOn(StrictSubsetOrdering(1..N), SUBSET (1..N))
  <2>1. IsFiniteSet(1..N)
    BY FS_Interval
  <2>2. FiniteSubsetsOf(1..N) = SUBSET (1..N)
    BY <2>1, FS_FiniteSubsetsOfFinite
  <2> QED
    BY <2>2, FS_StrictSubsetOrderingWellFounded
<1>3. PICK x \in Upto : \A y \in Upto : <<y, x>> \notin StrictSubsetOrdering(1..N)
  <2> HIDE DEF Upto
  <2> QED
    BY <1>1, <1>2, WFMin
<1>4. PICK k \in S : x = 1..k
  BY <1>3
<1>5. ASSUME NEW j \in S, j < k PROVE FALSE
  <2>1. 1..j \subseteq 1..k /\ 1..j # 1..k
    BY <1>5
  <2>2. <<1..j, x>> \in StrictSubsetOrdering(1..N)
    BY <1>1, <1>4, <2>1 DEF StrictSubsetOrdering
  <2> QED
    BY <1>3, <2>2
<1>6. \A j \in S : k <= j
  BY <1>5
<1> QED
  BY <1>6 DEF Least

LEMMA GreatestIsGreatest ==
    ASSUME NEW N \in Nat, NEW S \in SUBSET (1..N), S # {}
    PROVE  Greatest(S) \in S /\ \A j \in S : j <= Greatest(S)
<1> DEFINE T == {n \in 1..N : N + 1 - n \in S}
<1>1. T # {} /\ T \in SUBSET (1..N)
  <2>1. PICK k \in S : TRUE
    OBVIOUS
  <2>2. N + 1 - k \in 1..N /\ N + 1 - (N + 1 - k) = k
    OBVIOUS
  <2> QED
    BY <2>1, <2>2
<1>2. Least(T) \in T /\ \A n \in T : Least(T) <= n
  <2> HIDE DEF T
  <2> QED
    BY <1>1, LeastIsLeast
<1>3. \A j \in S : N + 1 - j \in T
  OBVIOUS
<1>4. N + 1 - Least(T) \in S /\ \A j \in S : j <= N + 1 - Least(T)
  BY <1>2, <1>3
<1> QED
  BY <1>4 DEF Greatest

----------------------------------------------------------------------------
(* What the enqueues and the re-arming leave of the rows: their ids, what  *)
(* they ask for and which of them were sent.                               *)

Grows(box) ==
    /\ box \in Seq(Row) /\ Len(outbox) <= Len(box)
    /\ \A i \in DOMAIN outbox :
           /\ box[i].op = outbox[i].op /\ box[i].arg = outbox[i].arg
           /\ box[i].status = "sent" <=> Sent(i)
           /\ box[i].op = "push" /\ box[i].status = "gone" => outbox[i].status = "gone"
    /\ \A i \in DOMAIN box \ DOMAIN outbox : box[i].status = "pending"

Fields(op, arg) == (op \in Forge /\ arg \in Heads) \/ (op = "set_state" /\ arg \in Stages)

LEMMA FreshRow ==
    ASSUME NEW op, NEW arg, Fields(op, arg)
    PROVE  NewRow(op, arg) \in Row
BY DeliveryAssumption DEF Fields, NewRow, Row, Forge

LEMMA MadeRows ==
    ASSUME NEW n \in Nat, NEW box \in [1..n -> Row]
    PROVE  box \in Seq(Row) /\ Len(box) = n
OBVIOUS

LEMMA SameGrows == outbox \in Seq(Row) => Grows(outbox)
BY DEF Grows, Sent

LEMMA AppendGrows ==
    ASSUME outbox \in Seq(Row), NEW r \in Row, r.status = "pending"
    PROVE  Grows(Append(outbox, r)) /\ Len(Append(outbox, r)) = Len(outbox) + 1
           /\ Append(outbox, r)[Len(outbox) + 1] = r
BY DEF Grows, Sent

LEMMA PushGrows ==
    ASSUME outbox \in Seq(Row), NEW sha \in Heads
    PROVE  /\ Grows(enqueuePush(sha))
           /\ \E i \in DOMAIN enqueuePush(sha) :
                  /\ enqueuePush(sha)[i].op = "push" /\ enqueuePush(sha)[i].arg = sha
                  /\ enqueuePush(sha)[i].status # "gone"
<1> DEFINE r == NewRow("push", sha)
<1>1. r \in Row /\ r.status = "pending" /\ r.op = "push" /\ r.arg = sha
  BY FreshRow DEF NewRow, Fields, Forge
<1>2. CASE \E i \in Rows("push") : outbox[i].arg = sha
  BY <1>2, SameGrows DEF enqueuePush, Rows
<1>3. CASE ~\E i \in Rows("push") : outbox[i].arg = sha
  <2>1. enqueuePush(sha) = Append(outbox, r)
    BY <1>3 DEF enqueuePush
  <2>2. Len(outbox) + 1 \in DOMAIN Append(outbox, r)
    BY <1>1
  <2> QED
    BY <1>1, <2>1, <2>2, AppendGrows
<1> QED
  BY <1>2, <1>3

LEMMA PrGrows ==
    ASSUME outbox \in Seq(Row), NEW sha \in Heads
    PROVE  Grows(enqueuePrCreate(sha))
<1> DEFINE failed == {i \in Rows("pr_create") : outbox[i].status = "failed"}
           box == [i \in DOMAIN outbox |->
                      IF i \in failed THEN [outbox[i] EXCEPT !.status = "gone"] ELSE outbox[i]]
           r == NewRow("pr_create", sha)
<1>1. r \in Row /\ r.status = "pending"
  BY FreshRow DEF NewRow, Fields, Forge
<1>2. \A i \in failed : outbox[i] \in Row /\ outbox[i].op = "pr_create" /\ outbox[i].status = "failed"
  BY DEF Rows
<1>3. \A i \in DOMAIN outbox : box[i] \in Row
  <2>1. ASSUME NEW i \in failed PROVE [outbox[i] EXCEPT !.status = "gone"] \in Row
    BY <1>2 DEF Row, Forge
  <2> QED
    BY <2>1
<1>4. box \in Seq(Row) /\ Len(box) = Len(outbox)
  <2>1. box \in [1..Len(outbox) -> Row] /\ Len(outbox) \in Nat
    BY <1>3
  <2> HIDE DEF box
  <2> QED
    BY <2>1, MadeRows
<1>5. \A i \in DOMAIN outbox :
         /\ box[i].op = outbox[i].op /\ box[i].arg = outbox[i].arg
         /\ box[i].status = "sent" <=> Sent(i)
         /\ box[i].op = "push" => box[i] = outbox[i]
  <2>1. ASSUME NEW i \in failed
        PROVE  /\ box[i].op = outbox[i].op /\ box[i].arg = outbox[i].arg
               /\ box[i].status # "sent" /\ ~Sent(i) /\ box[i].op = "pr_create"
    <3>1. box[i] = [outbox[i] EXCEPT !.status = "gone"]
      BY DEF Rows
    <3> QED
      BY <1>2, <3>1 DEF Row, Sent, Forge
  <2>2. ASSUME NEW i \in DOMAIN outbox \ failed PROVE box[i] = outbox[i]
    OBVIOUS
  <2> HIDE DEF box, failed
  <2> QED
    BY <2>1, <2>2 DEF Sent
<1>6. enqueuePrCreate(sha) \in {outbox, Append(box, r)}
  BY DEF enqueuePrCreate
<1> HIDE DEF box, r
<1>7. Grows(Append(box, r))
  BY <1>1, <1>4, <1>5 DEF Grows, Sent
<1> QED
  BY <1>6, <1>7, SameGrows

LEMMA RequeueGrows ==
    ASSUME outbox \in Seq(Row), NEW box, Grows(box)
    PROVE  Grows(requeueFailedForge(box)) /\ Len(requeueFailedForge(box)) = Len(box)
<1> DEFINE new == requeueFailedForge(box)
           Again(i) == box[i].op \in Forge /\ box[i].status = "failed" /\ box[i].arg = head
<1>1. box \in Seq(Row) /\ DOMAIN box = 1..Len(box) /\ Len(box) \in Nat
  BY DEF Grows
<1>2. ASSUME NEW i \in DOMAIN box
      PROVE  /\ new[i] \in Row /\ new[i].op = box[i].op /\ new[i].arg = box[i].arg
             /\ new[i].status = box[i].status \/ (box[i].status = "failed" /\ new[i].status = "pending")
  <2>1. box[i] \in Row
    BY <1>1
  <2>2. CASE Again(i)
    <3>1. new[i] = [box[i] EXCEPT !.status = "pending", !.attempts = 0]
      BY <2>2 DEF requeueFailedForge
    <3>2. box[i].op \in Forge /\ box[i].status = "failed" /\ 0 \in 0..(Budget - 1)
      BY <2>2, DeliveryAssumption
    <3>3. [box[i] EXCEPT !.status = "pending", !.attempts = 0] \in Row
      BY <2>1, <3>2 DEF Row, Forge
    <3> HIDE DEF new
    <3> QED
      BY <2>1, <3>1, <3>2, <3>3 DEF Row
  <2>3. CASE ~Again(i)
    <3>1. new[i] = box[i]
      BY <2>3 DEF requeueFailedForge
    <3> QED
      BY <2>1, <3>1
  <2> QED
    BY <2>2, <2>3
<1>3. new \in [1..Len(box) -> Row]
  BY <1>1, <1>2 DEF requeueFailedForge
<1> HIDE DEF new
<1>4. new \in Seq(Row) /\ Len(new) = Len(box)
  BY <1>1, <1>3, MadeRows
<1>5. Grows(new)
  BY <1>1, <1>2, <1>4 DEF Grows, Sent
<1> QED
  BY <1>4, <1>5 DEF new

----------------------------------------------------------------------------
(* Every step but those of a drain only enqueues or re-arms, and leaves    *)
(* the forge alone.                                                        *)

Quiet ==
    /\ Grows(outbox') /\ Len(outbox') <= MaxRows
    /\ UNCHANGED <<world, prResult>> /\ passed \subseteq passed'
    /\ \/ pc' = "drain" /\ todo' = listPending(outbox') /\ proc' = "up"
       \/ pc' \in {"tick", "gate"} /\ todo' = {} /\ (proc' = "down" => pc' = "tick")

LEMMA QuietTick == IInv /\ Tick => Quiet
<1> SUFFICES ASSUME IInv, Tick PROVE Quiet
  OBVIOUS
<1> USE DEF Ticking, Drain, Leave, ticket, evidence, steps, world
<1>1. /\ outbox \in Seq(Row) /\ Len(outbox) <= MaxRows /\ Grows(outbox)
      /\ recorded \in Heads /\ stage \in Stages /\ pc = "tick" /\ proc = "up" /\ todo = {}
  BY SameGrows DEF IInv, TypeOK, Listed, Tick, Escalate, ImplementDispatch, VerifyIntegration, AdvanceStage,
     Review, MergePush, MergePrEnsure, AwaitApproval, NothingReady
<1>2. ASSUME NEW to \in Stages, Len(outbox) < MaxRows
      PROVE  Grows(enqueueStageProjection(to)) /\ Len(enqueueStageProjection(to)) <= MaxRows
  <2>1. NewRow("set_state", to) \in Row /\ NewRow("set_state", to).status = "pending"
    BY FreshRow DEF Fields, NewRow
  <2>2. Len(outbox) + 1 <= MaxRows
    BY <1>1, <1>2, DeliveryAssumption
  <2> QED
    BY <1>1, <2>1, <2>2, AppendGrows DEF enqueueStageProjection
<1>3. CASE Escalate \/ AwaitApproval \/ NothingReady \/ VerifyIntegration
  BY <1>1, <1>3 DEF Escalate, AwaitApproval, NothingReady, VerifyIntegration, Quiet
<1>4. CASE ImplementDispatch
  BY <1>1, <1>4 DEF ImplementDispatch, Quiet
<1>5. CASE AdvanceStage
  <2>1. stage' \in Stages
    BY <1>5 DEF AdvanceStage, Stages
  <2> QED
    BY <1>1, <1>2, <1>5, <2>1 DEF AdvanceStage, Quiet
<1>6. ASSUME NEW clean \in BOOLEAN, Review(clean) PROVE Quiet
  <2>1. "implement" \in Stages
    BY DEF Stages
  <2> QED
    BY <1>1, <1>2, <1>6, <2>1 DEF Review, Quiet
<1>7. CASE MergePush
  BY <1>1, <1>7, PushGrows DEF MergePush, Quiet
<1>8. CASE MergePrEnsure
  BY <1>1, <1>8, PrGrows DEF MergePrEnsure, Quiet
<1> QED
  BY <1>3, <1>4, <1>5, <1>6, <1>7, <1>8 DEF Tick

LEMMA QuietRest == IInv /\ (Drive \/ Die \/ HumanMoves \/ \E a \in BOOLEAN : Resume(a)) => Quiet
<1> SUFFICES ASSUME IInv, Drive \/ Die \/ HumanMoves \/ \E a \in BOOLEAN : Resume(a) PROVE Quiet
  OBVIOUS
<1> USE DEF Drain, Leave, ticket, evidence, steps, world
<1>1. outbox \in Seq(Row) /\ Len(outbox) <= MaxRows /\ Grows(outbox)
  BY SameGrows DEF IInv, TypeOK
<1>2. CASE Drive
  BY <1>1, <1>2 DEF Drive, NeedsYou, ReachGate, NextTick, Stalled, GateDrain, GatePause, PrReady, Return,
     Finish, Drained, InGate, Quiet, IInv, Listed
<1>3. CASE Die
  BY <1>1, <1>3 DEF Die, Quiet
<1>4. CASE HumanMoves
  BY <1>1, <1>4 DEF HumanMoves, Quiet, IInv, Listed
<1>5. ASSUME NEW a \in BOOLEAN, Resume(a) PROVE Quiet
  <2>1. /\ pc' = "tick" /\ todo' = {} /\ proc' = "up"
        /\ UNCHANGED <<world, prResult, passed>>
    BY <1>5 DEF Resume, IInv, Listed
  <2>2. PICK box : /\ box = outbox \/ (box = enqueueStageProjection("implement") /\ Len(outbox) < MaxRows)
                   /\ outbox' = requeueFailedForge(box)
    BY <1>5 DEF Resume
  <2>3. Grows(box) /\ Len(box) <= MaxRows
    <3>1. NewRow("set_state", "implement") \in Row /\ NewRow("set_state", "implement").status = "pending"
      BY FreshRow DEF Fields, NewRow, Stages
    <3>2. Len(outbox) < MaxRows => Len(outbox) + 1 <= MaxRows
      BY <1>1, DeliveryAssumption
    <3> QED
      BY <1>1, <2>2, <3>1, <3>2, AppendGrows DEF enqueueStageProjection
  <2> QED
    BY <1>1, <2>1, <2>2, <2>3, RequeueGrows DEF Quiet
<1> QED
  BY <1>2, <1>3, <1>4, <1>5

(* Such a step keeps what is said of the rows and of the remote branch.    *)
LEMMA QuietKeeps ==
    ASSUME IInv, Quiet
    PROVE  Listed' /\ Requested' /\ Latest' /\ PublishedIsVerified'
<1>1. /\ outbox \in Seq(Row) /\ outbox' \in Seq(Row) /\ DOMAIN outbox \subseteq DOMAIN outbox'
      /\ pc' \notin {"applied", "failed"}
  BY DEF IInv, TypeOK, Quiet, Grows
<1>2. Listed'
  BY <1>1 DEF Quiet, Listed, listPending
<1>3. Requested'
  BY <1>1 DEF Quiet, Requested, IInv, world
<1>4. /\ UNCHANGED <<remote, overtaken>>
      /\ \A i \in DOMAIN outbox' : Sent(i)' => i \in DOMAIN outbox /\ Sent(i)
      /\ \A i \in DOMAIN outbox : outbox'[i].op = outbox[i].op /\ outbox'[i].arg = outbox[i].arg
      /\ \A i \in Rows("push") : i \in Rows("push")'
  BY <1>1 DEF Quiet, Grows, Sent, Rows, world
<1>5. ASSUME ~overtaken', NEW k \in Rows("push")', Sent(k)'
      PROVE  \E i \in Rows("push")' :
                 outbox'[i].arg = remote' /\ \A j \in Rows("push")' : Sent(j)' => j <= i
  <2>1. k \in Rows("push") /\ Sent(k)
    BY <1>4, <1>5 DEF Rows, Sent
  <2>2. PICK i \in Rows("push") :
            outbox[i].arg = remote /\ \A j \in Rows("push") : Sent(j) => j <= i
    BY <1>4, <1>5, <2>1 DEF IInv, Latest
  <2>3. \A j \in Rows("push")' : Sent(j)' => j \in Rows("push") /\ Sent(j)
    BY <1>4 DEF Rows, Sent
  <2> QED
    BY <1>4, <2>2, <2>3 DEF Rows
<1>6. Latest'
  BY <1>1, <1>5 DEF Latest
<1>7. PublishedIsVerified'
  BY DEF Quiet, IInv, PublishedIsVerified, world
<1> QED
  BY <1>2, <1>3, <1>6, <1>7

(* A push that is journalled stays so while the recorded head stays.       *)
LEMMA JournalKept ==
    ASSUME IInv, Grows(outbox'), recorded' = recorded, pushed' => pushed
    PROVE  PushIsJournaled'
<1> SUFFICES ASSUME pushed PROVE \E i \in Rows("push")' : outbox'[i].arg = recorded'
  BY DEF PushIsJournaled
<1>1. PICK i \in Rows("push") : outbox[i].arg = recorded
  BY DEF IInv, PushIsJournaled
<1>2. i \in DOMAIN outbox /\ outbox[i].op = "push" /\ outbox[i].status # "gone"
  BY <1>1 DEF Rows
<1>3. i \in DOMAIN outbox' /\ outbox'[i].op = "push" /\ outbox'[i].status # "gone" /\ outbox'[i].arg = recorded
  <2>1. outbox \in Seq(Row) /\ outbox' \in Seq(Row)
    BY DEF IInv, TypeOK, Grows
  <2> QED
    BY <1>1, <1>2, <2>1 DEF Grows
<1> QED
  BY <1>3 DEF Rows

(* The steps of a tick: no run has claimed anything while it ticks.        *)
LEMMA TickInv == IInv /\ Tick => IInv'
<1> SUFFICES ASSUME IInv, Tick PROVE IInv'
  OBVIOUS
<1> USE DEF Ticking, Drain, Leave, Stepped, ticket, evidence, steps, world, bounds, loop
<1>1. Quiet /\ Listed' /\ Requested' /\ Latest' /\ PublishedIsVerified'
  BY QuietTick, QuietKeeps
<1>2. outbox' \in Seq(Row) /\ Len(outbox') <= MaxRows /\ todo' \subseteq 1..MaxRows /\ Grows(outbox')
  <2>1. outbox' \in Seq(Row) /\ Len(outbox') <= MaxRows
    BY <1>1 DEF Quiet, Grows
  <2>2. DOMAIN outbox' \subseteq 1..MaxRows
    BY <2>1, DeliveryAssumption
  <2> QED
    BY <1>1, <2>1, <2>2 DEF Quiet, listPending
<1>3. pc = "tick" /\ proc = "up" /\ todo = {} /\ outcome # "pr-ready"
  BY DEF IInv, Claimed, Listed, Busy, Tick, Escalate, ImplementDispatch, VerifyIntegration, AdvanceStage,
     Review, MergePush, MergePrEnsure, AwaitApproval, NothingReady
<1>4. ASSUME NEW new \in Heads, Committed(new)
      PROVE  head' \in Heads /\ recorded' \in Heads /\ baseline' \in Heads /\ heads' \in Heads
  BY <1>4 DEF Committed, IInv, TypeOK
<1>5. TypeOK'
  <2>1. CASE Escalate \/ AwaitApproval \/ NothingReady
    BY <1>1, <1>2, <1>3, <2>1 DEF Escalate, AwaitApproval, NothingReady, TypeOK, IInv
  <2>2. CASE ImplementDispatch
    <3>1. PICK new \in Heads : Committed(new)
      BY <2>2 DEF ImplementDispatch, NextHeads, IInv, TypeOK
    <3> QED
      BY <1>1, <1>2, <1>3, <1>4, <2>2, <3>1 DEF ImplementDispatch, TypeOK, IInv
  <2>3. CASE VerifyIntegration
    BY <1>1, <1>2, <1>3, <2>3 DEF VerifyIntegration, TypeOK, IInv
  <2>4. CASE AdvanceStage
    <3>1. stage' \in Stages
      BY <2>4 DEF AdvanceStage, Stages
    <3> QED
      BY <1>1, <1>2, <1>3, <2>4, <3>1 DEF AdvanceStage, TypeOK, IInv
  <2>5. ASSUME NEW clean \in BOOLEAN, Review(clean) PROVE TypeOK'
    <3>1. PICK new \in Heads : Committed(new)
      BY <2>5 DEF Review, NextHeads, IInv, TypeOK
    <3>2. stage' \in Stages /\ work' \in {"todo", "coded", "verified"} /\ reviewed' \in BOOLEAN
          /\ pushed' \in BOOLEAN /\ requested' \in BOOLEAN
      BY <2>5 DEF Review, codeLoopback, Stages, IInv, TypeOK
    <3> QED
      BY <1>1, <1>2, <1>3, <1>4, <2>5, <3>1, <3>2 DEF Review, TypeOK, IInv
  <2>6. CASE MergePush \/ MergePrEnsure
    <3>1. /\ pushed' \in BOOLEAN /\ requested' \in BOOLEAN /\ proc' \in {"up", "down"}
          /\ pc' \in {"tick", "drain"} /\ why' = "tick" /\ tries' \in {0, tries} /\ idle' \in {0, idle}
          /\ advanced' \in BOOLEAN /\ outcome' = outcome
          /\ UNCHANGED <<ticket, evidence, work, reviewed, world, bounds>>
      BY <2>6 DEF MergePush, MergePrEnsure, TypeOK, IInv
    <3> QED
      BY <1>2, <3>1, DeliveryAssumption DEF TypeOK, IInv
  <2> QED
    BY <2>1, <2>2, <2>3, <2>4, <2>5, <2>6 DEF Tick
<1>6. Gated' /\ Waits'
  <2>1. CASE Escalate \/ AwaitApproval \/ NothingReady
    BY <1>3, <2>1 DEF Escalate, AwaitApproval, NothingReady, Gated, Waits, IInv, Busy
  <2>2. CASE ImplementDispatch \/ VerifyIntegration
    BY <1>3, <2>2 DEF ImplementDispatch, VerifyIntegration, Gated, Waits, IInv, Busy
  <2>3. CASE AdvanceStage
    BY <1>3, <2>3 DEF AdvanceStage, Gated, Waits, IInv, Busy, Ready
  <2>4. ASSUME NEW clean \in BOOLEAN, Review(clean) PROVE Gated' /\ Waits'
    BY <1>3, <2>4 DEF Review, codeLoopback, Gated, Waits, IInv, Busy
  <2>5. CASE MergePush \/ MergePrEnsure
    BY <1>3, <2>5 DEF MergePush, MergePrEnsure, Gated, Waits, IInv, Busy, Ready
  <2> QED
    BY <2>1, <2>2, <2>3, <2>4, <2>5 DEF Tick
<1>7. PushIsJournaled'
  <2>1. CASE Escalate \/ AwaitApproval \/ NothingReady \/ VerifyIntegration \/ AdvanceStage \/ MergePrEnsure
    BY <1>2, <2>1, JournalKept DEF Escalate, AwaitApproval, NothingReady, VerifyIntegration, AdvanceStage,
       MergePrEnsure
  <2>2. CASE ImplementDispatch
    BY <2>2 DEF ImplementDispatch, PushIsJournaled, Gated, IInv
  <2>3. ASSUME NEW clean \in BOOLEAN, Review(clean) PROVE PushIsJournaled'
    BY <2>3 DEF Review, codeLoopback, PushIsJournaled, Gated, IInv
  <2>4. CASE MergePush
    <3>1. outbox' = enqueuePush(recorded) /\ recorded' = recorded /\ recorded \in Heads /\ outbox \in Seq(Row)
      BY <2>4 DEF MergePush, IInv, TypeOK
    <3> QED
      BY <3>1, PushGrows DEF PushIsJournaled, Rows
  <2> QED
    BY <2>1, <2>2, <2>3, <2>4 DEF Tick
<1>8. Claimed'
  BY <1>3 DEF Claimed, Tick, Escalate, ImplementDispatch, VerifyIntegration, AdvanceStage, Review, MergePush,
     MergePrEnsure, AwaitApproval, NothingReady
<1> QED
  BY <1>1, <1>5, <1>6, <1>7, <1>8 DEF IInv

(* What the gate sees when it finds nothing undelivered.                   *)
LEMMA GateSees == IInv /\ InGate /\ ~Undelivered => Delivered
<1> SUFFICES ASSUME IInv, InGate, ~Undelivered PROVE Delivered
  OBVIOUS
<1>1. approval /\ stage = "merge" /\ pushed
  BY DEF IInv, Gated, InGate, Drained, Busy
<1>2. PICK k \in Rows("push") : outbox[k].arg = recorded
  BY <1>1 DEF IInv, PushIsJournaled
<1>3. Rows("push") \in SUBSET (1..Len(outbox)) /\ Len(outbox) \in Nat
  BY DEF Rows, IInv, TypeOK
<1>4. Greatest(Rows("push")) \in Rows("push") /\ \A j \in Rows("push") : j <= Greatest(Rows("push"))
  BY <1>2, <1>3, GreatestIsGreatest
<1> QED
  BY <1>2, <1>4 DEF Undelivered, forgeRow, Delivered, Sent

LEMMA DriveInv == IInv /\ Drive => IInv'
<1> SUFFICES ASSUME IInv, Drive PROVE IInv'
  OBVIOUS
<1> USE DEF Drain, Leave, ticket, evidence, steps, world, bounds, loop
<1>1. Quiet /\ Listed' /\ Requested' /\ Latest' /\ PublishedIsVerified'
  BY QuietRest, QuietKeeps
<1>2. /\ outbox' = outbox /\ UNCHANGED <<stage, approval, prResult, evidence, steps, world, bounds>>
      /\ pc # "applied" /\ proc = "up"
  BY DEF Drive, NeedsYou, ReachGate, NextTick, Stalled, GateDrain, GatePause, PrReady, Return, Finish,
     Drained, InGate
<1>3. todo' \subseteq 1..MaxRows
  <2>1. DOMAIN outbox \subseteq 1..MaxRows
    BY DeliveryAssumption DEF IInv, TypeOK
  <2> QED
    BY <1>1, <1>2, <2>1 DEF Quiet, listPending
<1>4. /\ status' \in {"active", "waiting"} /\ resume' \in BOOLEAN /\ proc' \in {"up", "down"}
      /\ pc' \in {"tick", "drain", "gate"} /\ why' \in {"tick", "gate", "finish"}
      /\ tries' \in 0..Budget /\ idle' \in 0..IdleCap /\ advanced' \in BOOLEAN
      /\ outcome' \in {"none", "pr-ready", "paused"}
  <2>0. /\ status \in {"active", "waiting"} /\ resume \in BOOLEAN /\ proc \in {"up", "down"}
        /\ why \in {"tick", "gate", "finish"}
        /\ tries \in 0..Budget /\ idle \in 0..IdleCap /\ advanced \in BOOLEAN
        /\ outcome \in {"none", "pr-ready", "paused"}
        /\ Budget \in Nat /\ IdleCap \in Nat /\ 0 \in 0..Budget /\ 0 \in 0..IdleCap
    BY DeliveryAssumption DEF IInv, TypeOK
  <2>1. CASE NeedsYou \/ ReachGate \/ Stalled \/ PrReady \/ Return
    <3>1. CASE NeedsYou \/ ReachGate \/ PrReady
      BY <2>0, <3>1 DEF NeedsYou, ReachGate, PrReady, Finish
    <3>2. CASE Stalled
      BY <2>0, <3>2 DEF Stalled, Finish, Pause
    <3>3. CASE Return
      BY <2>0, <3>3 DEF Return
    <3> QED
      BY <2>1, <3>1, <3>2, <3>3
  <2>2. CASE NextTick
    <3>1. idle' \in 0..IdleCap
      BY <2>0, <2>2 DEF NextTick
    <3> QED
      BY <2>0, <2>2, <3>1 DEF NextTick
  <2>3. CASE GateDrain
    BY <2>0, <2>3 DEF GateDrain, MoreTries
  <2>4. CASE GatePause
    BY <2>0, <2>4 DEF GatePause, Finish, Pause
  <2> QED
    BY <2>1, <2>2, <2>3, <2>4 DEF Drive
<1>5. TypeOK'
  BY <1>2, <1>3, <1>4 DEF IInv, TypeOK
<1>6. Gated'
  BY <1>2 DEF Drive, NeedsYou, ReachGate, NextTick, Stalled, GateDrain, GatePause, PrReady, Return, Finish,
     Drained, InGate, AtGate, Busy, Gated, IInv
<1>7. Waits'
  BY DEF Drive, NeedsYou, ReachGate, NextTick, Stalled, GateDrain, GatePause, PrReady, Return, Finish,
     Pause, Waits, IInv
<1>8. PushIsJournaled'
  BY <1>2 DEF PushIsJournaled, IInv, Rows
<1>9. Claimed'
  <2>1. CASE PrReady
    <3>1. Delivered
      BY <2>1, GateSees DEF PrReady
    <3> QED
      BY <1>2, <2>1, <3>1 DEF PrReady, Finish, Claimed, Delivered, Busy, Rows, Sent
  <2>2. CASE NeedsYou \/ Stalled \/ GatePause
    BY <2>2 DEF NeedsYou, Stalled, GatePause, Finish, Claimed
  <2>3. CASE ReachGate \/ NextTick \/ GateDrain
    BY <2>3 DEF ReachGate, NextTick, GateDrain, Drained, InGate, Claimed, IInv, Busy
  <2>4. CASE Return
    BY <2>4 DEF Return, Claimed
  <2> QED
    BY <2>1, <2>2, <2>3, <2>4 DEF Drive
<1> QED
  BY <1>1, <1>5, <1>6, <1>7, <1>8, <1>9 DEF IInv

LEMMA BetweenInv == IInv /\ (Die \/ HumanMoves \/ \E a \in BOOLEAN : Resume(a)) => IInv'
<1> SUFFICES ASSUME IInv, Die \/ HumanMoves \/ \E a \in BOOLEAN : Resume(a) PROVE IInv'
  OBVIOUS
<1> USE DEF Leave, ticket, evidence, steps, world, bounds, loop
<1>1. Quiet /\ Listed' /\ Requested' /\ Latest' /\ PublishedIsVerified'
  BY QuietRest, QuietKeeps
<1>2. /\ outbox' \in Seq(Row) /\ Len(outbox') <= MaxRows /\ Grows(outbox')
      /\ pc' = "tick" /\ todo' = {}
  BY <1>1 DEF Quiet, Grows, Die, HumanMoves, Resume, IInv, Listed
<1>3. TypeOK'
  <2>1. CASE Die
    <3>1. 0 \in 0..Budget /\ 0 \in 0..IdleCap
      BY DeliveryAssumption
    <3>2. /\ UNCHANGED <<stage, status, resume, approval, prResult, recorded, baseline, passed, head, heads, work,
                         reviewed, pushed, requested, outbox, remote, pr, overtaken, runs, moves, faults>>
          /\ proc' = "down" /\ pc' = "tick" /\ todo' = {} /\ why' = "tick" /\ tries' = 0 /\ idle' = 0
          /\ advanced' = FALSE /\ outcome' = "none"
      BY <2>1 DEF Die
    <3>3. todo' \in SUBSET (1..MaxRows)
      BY <3>2
    <3>4. TypeOK
      BY DEF IInv
    <3> QED
      BY <3>1, <3>2, <3>3, <3>4 DEF TypeOK
  <2>2. CASE HumanMoves
    <3>1. heads \in 0..MaxHeads /\ moves \in 0..MaxMoves /\ MaxHeads \in Nat /\ MaxMoves \in Nat
      BY DeliveryAssumption DEF Heads, IInv, TypeOK
    <3>2. PICK new \in 1..heads \cup NextHeads : head' = new /\ heads' = IF new > heads THEN new ELSE heads
      BY <2>2 DEF HumanMoves
    <3>3. new \in Heads
      BY <3>1, <3>2 DEF NextHeads, Heads
    <3>4. head' \in Heads /\ heads' \in Heads /\ moves' \in 0..MaxMoves
      BY <2>2, <3>1, <3>2, <3>3 DEF HumanMoves, Heads
    <3> QED
      BY <1>2, <2>2, <3>4 DEF HumanMoves, IInv, TypeOK
  <2>3. ASSUME NEW a \in BOOLEAN, Resume(a) PROVE TypeOK'
    <3>1. /\ runs' \in 1..MaxRuns /\ baseline' \in Heads /\ stage' \in Stages
          /\ work' \in {"todo", "coded", "verified"} /\ reviewed' \in BOOLEAN
          /\ pushed' \in BOOLEAN /\ requested' \in BOOLEAN
      <4>1. runs \in 1..MaxRuns /\ MaxRuns \in Nat
        BY DeliveryAssumption DEF IInv, TypeOK
      <4>2. runs' \in 1..MaxRuns
        BY <2>3, <4>1 DEF Resume
      <4> QED
        BY <2>3, <4>2 DEF Resume, codeLoopback, Stages, IInv, TypeOK
    <3> QED
      BY <1>2, <2>3, <3>1, DeliveryAssumption DEF Resume, IInv, TypeOK
  <2> QED
    BY <2>1, <2>2, <2>3
<1>4. Gated' /\ Waits'
  BY <1>2 DEF Die, HumanMoves, Resume, codeLoopback, Gated, Waits, IInv, Busy
<1>5. recorded' = recorded /\ (pushed' => pushed)
  BY DEF Die, HumanMoves, Resume, codeLoopback
<1>6. PushIsJournaled'
  BY <1>2, <1>5, JournalKept
<1>7. Claimed'
  BY DEF Die, HumanMoves, Resume, Claimed
<1> QED
  BY <1>1, <1>3, <1>4, <1>6, <1>7 DEF IInv

----------------------------------------------------------------------------
(* The steps of a drain.                                                   *)

LEMMA NowIsListed == IInv /\ todo # {} => Now \in todo /\ Now \in DOMAIN outbox
<1> SUFFICES ASSUME IInv, todo # {} PROVE Now \in todo /\ Now \in DOMAIN outbox
  OBVIOUS
<1>1. todo \in SUBSET (1..MaxRows) /\ MaxRows \in Nat /\ todo \subseteq DOMAIN outbox
  BY DeliveryAssumption DEF IInv, TypeOK, Listed
<1> QED
  BY <1>1, LeastIsLeast DEF Now

(* Writing one row anew changes neither its id nor what it asks for.       *)
LEMMA MarkedRows ==
    ASSUME outbox \in Seq(Row), NEW r \in DOMAIN outbox, NEW row \in Row,
           row.op = outbox[r].op, row.arg = outbox[r].arg,
           outbox' = [outbox EXCEPT ![r] = row]
    PROVE  /\ outbox' \in Seq(Row) /\ Len(outbox') = Len(outbox) /\ DOMAIN outbox' = DOMAIN outbox
           /\ outbox'[r] = row /\ \A i \in DOMAIN outbox \ {r} : outbox'[i] = outbox[i]
           /\ \A i \in DOMAIN outbox : outbox'[i].op = outbox[i].op /\ outbox'[i].arg = outbox[i].arg
OBVIOUS

LEMMA RowWith ==
    ASSUME NEW row \in Row, NEW s \in {"pending", "sent", "failed"}
    PROVE  /\ [row EXCEPT !.status = s] \in Row /\ [row EXCEPT !.status = s].op = row.op
           /\ [row EXCEPT !.status = s].arg = row.arg /\ [row EXCEPT !.status = s].status = s
BY DEF Row, Forge

LEMMA RowRetried ==
    ASSUME NEW row \in Row, NEW n \in 0..(Budget - 1)
    PROVE  /\ [row EXCEPT !.attempts = n] \in Row /\ [row EXCEPT !.attempts = n].op = row.op
           /\ [row EXCEPT !.attempts = n].arg = row.arg /\ [row EXCEPT !.attempts = n].status = row.status
BY DEF Row, Forge

(* What a request that is carried out does to the forge.                   *)
LEMMA Carried ==
    ASSUME IInv, NEW r \in DOMAIN outbox, outbox[r].status = "pending", Possible(r), Carry(r)
    PROVE  /\ remote' \in Heads /\ pr' \in BOOLEAN /\ overtaken' \in BOOLEAN
           /\ (pr => pr') /\ (outbox[r].op = "pr_create" => pr')
           /\ Required /\ remote' # 0 => remote' \in passed
           /\ outbox[r].op = "push" => remote' = outbox[r].arg /\ (Late(r) => overtaken')
           /\ ~overtaken' /\ (\E j \in Rows("push") : Sent(j)) =>
                  \E i \in Rows("push") :
                      outbox[i].arg = remote' /\ \A j \in Rows("push") : Sent(j) => j <= i
<1>0. outbox[r] \in Row /\ remote \in Heads /\ pr \in BOOLEAN /\ overtaken \in BOOLEAN
  BY DEF IInv, TypeOK
<1>1. /\ pr' \in BOOLEAN /\ overtaken' \in BOOLEAN
      /\ (pr => pr') /\ (outbox[r].op = "pr_create" => pr') /\ (overtaken => overtaken')
      /\ (Late(r) => overtaken')
  BY Zenon DEF Carry
<1>2. CASE outbox[r].op # "push"
  <2>1. remote' = remote
    BY <1>2 DEF Carry
  <2>2. ~overtaken' => ~overtaken
    BY <1>1
  <2> QED
    BY <1>0, <1>1, <1>2, <2>1, <2>2 DEF IInv, Latest, PublishedIsVerified
<1>3. CASE outbox[r].op = "push"
  <2>1. remote' = outbox[r].arg /\ remote' \in Heads
    BY <1>0, <1>3 DEF Carry, pushBranch, Row, Forge
  <2>2. Required => remote' \in passed
    BY <1>3, <2>1 DEF Possible, Blocked, Forge
  <2>3. ASSUME ~overtaken', NEW j \in Rows("push"), Sent(j)
        PROVE  j <= r
    <3>1. ~Late(r)
      BY <1>1, <2>3
    <3>2. ~(j > r)
      BY <1>3, <2>3, <3>1 DEF Late, Sent
    <3> QED
      BY <3>2 DEF Rows, IInv, TypeOK
  <2>4. r \in Rows("push")
    BY <1>3 DEF Rows
  <2> QED
    BY <1>1, <1>3, <2>1, <2>2, <2>3, <2>4
<1> QED
  BY <1>2, <1>3

LEMMA DrainTyped ==
    ASSUME IInv, DrainRow
    PROVE  /\ todo # {} /\ Now \in todo /\ Now \in DOMAIN outbox /\ proc = "up" /\ proc' = "up"
           /\ pc \in Busy /\ pc' \in Busy
           /\ UNCHANGED <<stage, approval, evidence, steps, why, tries, idle, advanced, outcome, runs, moves>>
           /\ todo' \in {todo, todo \ {Now}}
           /\ (pc # "failed" => outbox[Now].status = "pending")
<1>1. todo # {} /\ proc = "up" /\ pc \in Busy
  BY DEF DrainRow, Apply, RecordPrResult, MarkSent, Throws, EscalateProjection, Draining, IInv, Listed, Busy
<1>2. Now \in todo /\ Now \in DOMAIN outbox
  BY <1>1, NowIsListed
<1>3. /\ proc' = "up" /\ pc' \in Busy /\ todo' \in {todo, todo \ {Now}}
      /\ UNCHANGED <<stage, approval, evidence, steps, why, tries, idle, advanced, outcome, runs, moves>>
  BY <1>1 DEF DrainRow, Apply, RecordPrResult, MarkSent, Throws, EscalateProjection, Draining, Busy,
     ticket, evidence, steps, world, loop, bounds
<1>4. pc # "failed" => outbox[Now].status = "pending"
  BY <1>2 DEF IInv, Listed
<1> QED
  BY <1>1, <1>2, <1>3, <1>4

(* What a step of a drain needs to keep, given how it moves the rows and   *)
(* what is left of the list.                                               *)
LEMMA DrainKeeps ==
    ASSUME IInv, DrainRow, outbox' \in Seq(Row), DOMAIN outbox' = DOMAIN outbox,
           Len(outbox') = Len(outbox),
           \A i \in DOMAIN outbox : outbox'[i].op = outbox[i].op /\ outbox'[i].arg = outbox[i].arg,
           \A i \in DOMAIN outbox \ {Now} : outbox'[i] = outbox[i],
           outbox'[Now].status \in {"pending", "sent", "failed", outbox[Now].status},
           outbox[Now].status = "pending" \/ outbox' = outbox
    PROVE  Gated' /\ PushIsJournaled' /\ Claimed'
           /\ Rows("push")' = Rows("push")
<1>1. /\ todo # {} /\ Now \in todo /\ Now \in DOMAIN outbox /\ proc = "up" /\ proc' = "up"
      /\ pc \in Busy /\ pc' \in Busy
      /\ UNCHANGED <<stage, approval, evidence, steps, why, tries, idle, advanced, outcome, runs, moves>>
  BY DrainTyped
<1>2. Rows("push")' = Rows("push")
  <2>1. ASSUME NEW i \in DOMAIN outbox
        PROVE  outbox'[i].status = "gone" <=> outbox[i].status = "gone"
    BY <1>1
  <2> QED
    BY <2>1 DEF Rows
<1>3. Gated'
  BY <1>1 DEF Gated, IInv, Busy, steps
<1>4. PushIsJournaled'
  BY <1>1, <1>2 DEF PushIsJournaled, IInv, Rows, steps, evidence
<1>5. Claimed'
  <2> SUFFICES ASSUME outcome' = "pr-ready" PROVE why' = "finish" /\ Delivered'
    BY <1>1 DEF Claimed
  <2>1. why = "finish" /\ Delivered
    BY <1>1 DEF IInv, Claimed
  <2>2. prResult'
    BY <2>1 DEF Delivered, DrainRow, Apply, RecordPrResult, MarkSent, Throws, EscalateProjection, ticket
  <2>3. PICK i \in Rows("push") :
            Sent(i) /\ outbox[i].arg = recorded /\ \A j \in Rows("push") : j <= i
    BY <2>1 DEF Delivered
  <2>4. outbox'[i] = outbox[i]
    BY <2>3 DEF Sent, Rows
  <2> QED
    BY <1>1, <1>2, <2>1, <2>2, <2>3, <2>4 DEF Delivered, Sent, evidence
<1> QED
  BY <1>2, <1>3, <1>4, <1>5

LEMMA ApplyInv == IInv /\ Apply => IInv'
<1> SUFFICES ASSUME IInv, Apply PROVE IInv'
  OBVIOUS
<1> USE DEF ticket, evidence, steps, loop, bounds
<1>1. /\ DrainRow /\ outbox' = outbox /\ todo' = todo /\ pc = "drain" /\ pc' = "applied"
      /\ UNCHANGED <<passed, prResult, status, resume, outcome, proc>>
  BY DEF Apply, DrainRow, Draining
<1>2. todo # {} /\ Now \in todo /\ Now \in DOMAIN outbox /\ outbox[Now].status = "pending" /\ Now' = Now
  BY <1>1, DrainTyped DEF Now
<1>3. /\ remote' \in Heads /\ pr' \in BOOLEAN /\ overtaken' \in BOOLEAN
      /\ (pr => pr') /\ (outbox[Now].op = "pr_create" => pr')
      /\ Required /\ remote' # 0 => remote' \in passed
      /\ outbox[Now].op = "push" => remote' = outbox[Now].arg /\ (Late(Now) => overtaken')
      /\ ~overtaken' /\ (\E j \in Rows("push") : Sent(j)) =>
             \E i \in Rows("push") :
                 outbox[i].arg = remote' /\ \A j \in Rows("push") : Sent(j) => j <= i
  BY <1>2, Carried DEF Apply
<1>4. Gated' /\ PushIsJournaled' /\ Claimed'
  BY <1>1, DrainKeeps DEF IInv, TypeOK
<1>5. TypeOK'
  BY <1>1, <1>3 DEF Apply, IInv, TypeOK
<1>6. Listed' /\ Requested' /\ Waits' /\ PublishedIsVerified'
  BY <1>1, <1>2, <1>3 DEF Listed, Requested, Waits, PublishedIsVerified, IInv
<1>7. Latest'
  BY <1>1, <1>2, <1>3 DEF Latest, Rows, Sent, Late
<1> QED
  BY <1>4, <1>5, <1>6, <1>7 DEF IInv

LEMMA RecordInv == IInv /\ RecordPrResult => IInv'
<1> SUFFICES ASSUME IInv, RecordPrResult PROVE IInv'
  OBVIOUS
<1> USE DEF ticket, evidence, steps, loop, bounds, world
<1>1. /\ DrainRow /\ outbox' = outbox /\ todo' = todo /\ pc = "applied" /\ pc' = pc
      /\ UNCHANGED <<passed, status, resume, outcome, proc, remote, pr, overtaken>> /\ prResult'
      /\ outbox[Now].op = "pr_create"
  BY DEF RecordPrResult, DrainRow
<1>2. todo # {} /\ Now' = Now
  BY <1>1, DrainTyped DEF Now
<1>3. Gated' /\ PushIsJournaled' /\ Claimed'
  BY <1>1, DrainKeeps DEF IInv, TypeOK
<1>4. TypeOK'
  BY <1>1 DEF RecordPrResult, IInv, TypeOK
<1>5. Listed' /\ Requested' /\ Waits' /\ PublishedIsVerified'
  BY <1>1, <1>2 DEF Listed, Requested, Waits, PublishedIsVerified, IInv
<1>6. Latest'
  BY <1>1, <1>2 DEF Latest, Rows, Sent, Late, IInv
<1> QED
  BY <1>3, <1>4, <1>5, <1>6 DEF IInv

(* A push is marked only after it was carried out: it is the latest one    *)
(* sent now, or was late.                                                  *)
LEMMA MarkSentInv == IInv /\ MarkSent => IInv'
<1> SUFFICES ASSUME IInv, MarkSent PROVE IInv'
  OBVIOUS
<1> USE DEF ticket, evidence, steps, loop, bounds, world
<1>1. /\ DrainRow /\ todo' = todo \ {Now} /\ pc = "applied" /\ pc' = "drain"
      /\ UNCHANGED <<passed, prResult, status, resume, outcome, proc, remote, pr, overtaken>>
      /\ outbox' = [outbox EXCEPT ![Now] = [outbox[Now] EXCEPT !.status = "sent"]]
  BY DEF MarkSent, DrainRow
<1>2. /\ todo # {} /\ Now \in todo /\ Now \in DOMAIN outbox /\ outbox[Now].status = "pending"
      /\ outbox \in Seq(Row) /\ outbox[Now] \in Row
  BY <1>1, DrainTyped DEF IInv, TypeOK
<1>3. /\ outbox' \in Seq(Row) /\ Len(outbox') = Len(outbox) /\ DOMAIN outbox' = DOMAIN outbox
      /\ outbox'[Now].status = "sent" /\ \A i \in DOMAIN outbox \ {Now} : outbox'[i] = outbox[i]
      /\ \A i \in DOMAIN outbox : outbox'[i].op = outbox[i].op /\ outbox'[i].arg = outbox[i].arg
  <2>1. 0 \in 0..(Budget - 1)
    BY DeliveryAssumption
  <2> DEFINE row == [outbox[Now] EXCEPT !.status = "sent"]
  <2>2. row \in Row /\ row.op = outbox[Now].op /\ row.arg = outbox[Now].arg /\ row.status = "sent"
    BY <1>2, <2>1, RowWith
  <2> HIDE DEF row
  <2>3. outbox' = [outbox EXCEPT ![Now] = row]
    BY <1>1 DEF row
  <2> QED
    BY <1>2, <2>2, <2>3, MarkedRows
<1>4. Gated' /\ PushIsJournaled' /\ Claimed' /\ Rows("push")' = Rows("push")
  BY <1>1, <1>2, <1>3, DrainKeeps
<1>5. TypeOK'
  BY <1>1, <1>3 DEF MarkSent, IInv, TypeOK
<1>6. Listed' /\ Requested' /\ Waits' /\ PublishedIsVerified'
  BY <1>1, <1>2, <1>3 DEF Listed, Requested, Waits, PublishedIsVerified, IInv
<1>7. Latest'
  <2> SUFFICES ASSUME ~overtaken', NEW k \in Rows("push")', Sent(k)'
               PROVE  \E i \in Rows("push")' :
                          outbox'[i].arg = remote' /\ \A j \in Rows("push")' : Sent(j)' => j <= i
    BY <1>1 DEF Latest
  <2>1. \A j \in Rows("push") \ {Now} : Sent(j)' <=> Sent(j)
    BY <1>3 DEF Sent, Rows
  <2>2. CASE Now \in Rows("push")
    <3>1. outbox[Now].op = "push" /\ remote = outbox[Now].arg /\ ~Late(Now)
      BY <1>1, <2>2 DEF IInv, Latest, Rows
    <3>2. \A j \in Rows("push") : Sent(j) => j <= Now
      <4>1. \A j \in Rows("push") : j \in Int /\ Now \in Int
        BY <1>2 DEF Rows
      <4> QED
        BY <3>1, <4>1 DEF Late, Sent
    <3>3. \A j \in Rows("push") : Sent(j)' => j <= Now
      BY <1>2, <2>1, <3>2
    <3> QED
      BY <1>1, <1>2, <1>3, <1>4, <2>2, <3>1, <3>3
  <2>3. CASE Now \notin Rows("push")
    <3>1. \A j \in Rows("push") : Sent(j)' <=> Sent(j)
      BY <2>1, <2>3
    <3>2. PICK i \in Rows("push") :
              outbox[i].arg = remote /\ \A j \in Rows("push") : Sent(j) => j <= i
      BY <1>1, <1>4, <3>1 DEF IInv, Latest
    <3>3. outbox'[i].arg = remote'
      BY <1>1, <1>3, <3>2 DEF Rows
    <3> QED
      BY <1>4, <3>1, <3>2, <3>3
  <2> QED
    BY <2>2, <2>3
<1> QED
  BY <1>4, <1>5, <1>6, <1>7 DEF IInv

(* A request that fails may have been carried out all the same.            *)
LEMMA ThrowsInv == ASSUME IInv, NEW permanent \in BOOLEAN, NEW landed \in BOOLEAN, Throws(permanent, landed)
                   PROVE  IInv'
<1> USE DEF ticket, evidence, steps, loop, bounds, world
<1>1. /\ DrainRow /\ pc = "drain" /\ UNCHANGED <<passed, prResult, status, resume, outcome, proc>>
      /\ todo' \in {todo, todo \ {Now}} /\ pc' \in {"drain", "failed"}
      /\ pc' = "drain" => todo' = todo \ {Now}
      /\ pc' = "failed" => todo' = todo
  BY DEF Throws, DrainRow, Draining
<1>2. /\ todo # {} /\ Now \in todo /\ Now \in DOMAIN outbox /\ outbox[Now].status = "pending"
      /\ outbox \in Seq(Row) /\ outbox[Now] \in Row
  BY <1>1, DrainTyped DEF IInv, TypeOK
<1>3. PICK row \in Row :
         /\ outbox' = [outbox EXCEPT ![Now] = row]
         /\ row.op = outbox[Now].op /\ row.arg = outbox[Now].arg
         /\ row.status = IF pc' = "failed" THEN "failed" ELSE "pending"
  <2>1. 0 \in 0..(Budget - 1)
    BY DeliveryAssumption
  <2>2. CASE permanent \/ GivesUp(Now)
    <3> DEFINE row == [outbox[Now] EXCEPT !.status = "failed"]
    <3>1. row \in Row /\ row.op = outbox[Now].op /\ row.arg = outbox[Now].arg /\ row.status = "failed"
      BY <1>2, <2>1, RowWith
    <3>2. outbox' = [outbox EXCEPT ![Now] = row] /\ pc' = "failed"
      BY <2>2 DEF Throws
    <3> HIDE DEF row
    <3> QED
      BY <3>1, <3>2
  <2>3. CASE ~(permanent \/ GivesUp(Now))
    <3> DEFINE n == outbox[Now].attempts + 1
               row == [outbox[Now] EXCEPT !.attempts = n]
    <3>1. n \in 0..(Budget - 1)
      BY <1>2, <2>3, DeliveryAssumption DEF GivesUp, Row
    <3> HIDE DEF n
    <3>2. row \in Row /\ row.op = outbox[Now].op /\ row.arg = outbox[Now].arg /\ row.status = "pending"
      <4>1. PICK was \in Row : was = outbox[Now] /\ was.status = "pending"
        BY <1>2
      <4>2. row = [was EXCEPT !.attempts = n]
        BY <4>1
      <4> HIDE DEF row
      <4> QED
        BY <3>1, <4>1, <4>2, RowRetried
    <3>3. outbox' = [outbox EXCEPT ![Now] = row] /\ pc' = "drain"
      BY <1>1, <2>3 DEF Throws, n
    <3> HIDE DEF row
    <3> QED
      BY <3>2, <3>3
  <2> QED
    BY <2>2, <2>3
<1>4. /\ outbox' \in Seq(Row) /\ Len(outbox') = Len(outbox) /\ DOMAIN outbox' = DOMAIN outbox
      /\ outbox'[Now].status = (IF pc' = "failed" THEN "failed" ELSE "pending")
      /\ \A i \in DOMAIN outbox \ {Now} : outbox'[i] = outbox[i]
      /\ \A i \in DOMAIN outbox : outbox'[i].op = outbox[i].op /\ outbox'[i].arg = outbox[i].arg
  BY <1>2, <1>3, MarkedRows
<1>5. Gated' /\ PushIsJournaled' /\ Claimed' /\ Rows("push")' = Rows("push")
  BY <1>1, <1>2, <1>4, DrainKeeps
<1>6. /\ remote' \in Heads /\ pr' \in BOOLEAN /\ overtaken' \in BOOLEAN /\ (pr => pr')
      /\ Required /\ remote' # 0 => remote' \in passed
      /\ ~overtaken' /\ (\E j \in Rows("push") : Sent(j)) =>
             \E i \in Rows("push") :
                 outbox[i].arg = remote' /\ \A j \in Rows("push") : Sent(j) => j <= i
  <2>1. CASE landed
    BY <1>2, <2>1, Carried DEF Throws
  <2>2. CASE ~landed
    BY <2>2 DEF Throws, IInv, TypeOK, Latest, PublishedIsVerified
  <2> QED
    BY <2>1, <2>2
<1>7. TypeOK'
  <2>1. faults' \in 0..MaxFaults
    BY DeliveryAssumption DEF Throws, IInv, TypeOK
  <2> QED
    BY <1>1, <1>4, <1>6, <2>1 DEF Throws, IInv, TypeOK
<1>8. Listed'
  <2>1. CASE pc' = "drain"
    BY <1>1, <1>2, <1>4, <2>1 DEF Listed, IInv
  <2>2. CASE pc' = "failed"
    <3>1. todo' = todo /\ Now' = Now
      BY <1>1, <2>2 DEF Now
    <3> QED
      BY <1>1, <1>2, <1>4, <2>2, <3>1 DEF Listed, IInv
  <2> QED
    BY <1>1, <2>1, <2>2
<1>9. Requested' /\ Waits' /\ PublishedIsVerified'
  BY <1>1, <1>6 DEF Requested, Waits, PublishedIsVerified, IInv
<1>10. Latest'
  <2>1. \A j \in Rows("push") : Sent(j)' => Sent(j)
    <3>1. outbox'[Now].status # "sent"
      BY <1>4
    <3> QED
      BY <1>4, <3>1 DEF Sent, Rows
  <2>2. \A i \in Rows("push") : outbox'[i].arg = outbox[i].arg
    BY <1>4 DEF Rows
  <2> QED
    BY <1>1, <1>5, <1>6, <2>1, <2>2 DEF Latest
<1> QED
  BY <1>5, <1>7, <1>8, <1>9, <1>10 DEF IInv

LEMMA EscalateInv == IInv /\ EscalateProjection => IInv'
<1> SUFFICES ASSUME IInv, EscalateProjection PROVE IInv'
  OBVIOUS
<1> USE DEF ticket, evidence, steps, loop, bounds, world
<1>1. /\ DrainRow /\ outbox' = outbox /\ todo' = todo \ {Now} /\ pc = "failed" /\ pc' = "drain"
      /\ UNCHANGED <<passed, prResult, outcome, proc, remote, pr, overtaken>>
      /\ status' = "waiting" /\ resume'
  BY DEF EscalateProjection, DrainRow
<1>2. todo # {} /\ Now \in todo
  BY <1>1, DrainTyped
<1>3. Gated' /\ PushIsJournaled' /\ Claimed'
  BY <1>1, DrainKeeps DEF IInv, TypeOK
<1>4. TypeOK'
  <2>1. /\ UNCHANGED <<stage, approval, recorded, baseline, head, heads, work, reviewed, pushed, requested, why, tries,
                       idle, advanced, runs, moves, faults>>
        /\ resume' = TRUE
    BY DEF EscalateProjection
  <2>2. todo' \in SUBSET (1..MaxRows)
    BY <1>1 DEF IInv, TypeOK
  <2> QED
    BY <1>1, <2>1, <2>2 DEF IInv, TypeOK
<1>5. Listed' /\ Requested' /\ Waits' /\ PublishedIsVerified'
  BY <1>1, <1>2 DEF Listed, Requested, Waits, PublishedIsVerified, IInv
<1>6. Latest'
  BY <1>1 DEF Latest, Rows, Sent, IInv
<1> QED
  BY <1>3, <1>4, <1>5, <1>6 DEF IInv

----------------------------------------------------------------------------
LEMMA InitInv == Init => IInv
<1> SUFFICES ASSUME Init PROVE IInv
  OBVIOUS
<1>1. TypeOK
  <2>1. outbox = <<>> /\ outbox \in Seq(Row) /\ Len(outbox) = 0
    BY DEF Init
  <2>2. 0 \in Heads /\ 0 \in 0..Budget /\ 0 \in 0..IdleCap /\ 1 \in 1..MaxRuns /\ 0 \in 0..MaxMoves
        /\ 0 \in 0..MaxFaults /\ 0 <= MaxRows
    BY DeliveryAssumption DEF Heads
  <2> QED
    BY <2>1, <2>2 DEF Init, TypeOK, Stages
<1>2. Rows("push") = {}
  BY DEF Init, Rows
<1> QED
  BY <1>1, <1>2 DEF Init, IInv, Listed, Requested, Gated, PushIsJournaled, Waits, Latest, Claimed,
     PublishedIsVerified, Busy

LEMMA StepInv == IInv /\ [Next]_vars => IInv'
<1> SUFFICES ASSUME IInv, [Next]_vars PROVE IInv'
  OBVIOUS
<1>1. CASE Tick
  BY <1>1, TickInv
<1>2. CASE DrainRow
  BY <1>2, ApplyInv, RecordInv, MarkSentInv, ThrowsInv, EscalateInv DEF DrainRow
<1>3. CASE Drive
  BY <1>3, DriveInv
<1>4. CASE Die \/ HumanMoves \/ \E a \in BOOLEAN : Resume(a)
  BY <1>4, BetweenInv
<1>5. CASE UNCHANGED vars
  BY <1>5 DEF vars, IInv, TypeOK, Listed, Requested, Gated, PushIsJournaled, Waits, Latest, Claimed,
     Delivered, PublishedIsVerified, Busy, Sent, Late, Rows, Now
<1> QED
  BY <1>1, <1>2, <1>3, <1>4, <1>5 DEF Next, Run

(* The claims above hold in every state of a run.                          *)
THEOREM Inductive == Spec => []IInv
<1> QED
  BY InitInv, StepInv, PTL DEF Spec

(* TypeOK, for every value of the constants.                               *)
THEOREM DeliveryTypes == Spec => []TypeOK
<1>1. IInv => TypeOK
  BY DEF IInv
<1> QED
  BY <1>1, Inductive, PTL

(* With required suites the remote branch is never at a head that did not  *)
(* pass them, wherever the operator moved the branch and whatever rows     *)
(* were re-armed.                                                          *)
THEOREM NothingUnverified == Spec => []PublishedIsVerified
<1>1. IInv => PublishedIsVerified
  BY DEF IInv
<1> QED
  BY <1>1, Inductive, PTL

(* `pr-ready` is claimed of a pull request at the recorded head only,      *)
(* unless a re-armed push came late, also while the last drain runs.       *)
THEOREM PrReadyIsTrue == Spec => []PrReadyShowsHead
<1>1. IInv => PrReadyShowsHead
  <2> SUFFICES ASSUME IInv, proc = "up", outcome = "pr-ready", ~overtaken
               PROVE  pr /\ remote = recorded
    BY DEF PrReadyShowsHead
  <2>1. PICK l \in Rows("push") :
            Sent(l) /\ outbox[l].arg = recorded /\ \A j \in Rows("push") : j <= l
    BY DEF IInv, Claimed, Delivered
  <2>2. PICK i \in Rows("push") :
            outbox[i].arg = remote /\ \A j \in Rows("push") : Sent(j) => j <= i
    BY <2>1 DEF IInv, Latest
  <2>3. i = l
    BY <2>1, <2>2 DEF Rows, IInv, TypeOK
  <2>4. pr
    BY DEF IInv, Claimed, Delivered, Requested
  <2> QED
    BY <2>1, <2>2, <2>3, <2>4
<1> QED
  BY <1>1, Inductive, PTL

(* A succeeded merge:push has a row for the recorded head.                 *)
THEOREM PushJournaled == Spec => []PushIsJournaled
<1>1. IInv => PushIsJournaled
  BY DEF IInv
<1> QED
  BY <1>1, Inductive, PTL

(* A paused run left a human_resume signal and a waiting ticket.           *)
THEOREM PausedResumable == Spec => []PausedIsResumable
<1>1. IInv => PausedIsResumable
  BY DEF IInv, Waits, PausedIsResumable
<1> QED
  BY <1>1, Inductive, PTL
=============================================================================
