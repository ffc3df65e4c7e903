------------------------- MODULE ControlLoopProofs -------------------------
(***************************************************************************)
(* For every number of units, criteria and rounds: the control loop keeps  *)
(* the contract of the stages (ControlLoop implements Stages), and with it *)
(* what is merged is gated and reviewed (inductive invariant IInv); and it *)
(* asks for a succeeded step only for a reason (ReplayInv).  TypeInv adds  *)
(* the types of what neither of them needs.                                *)
(***************************************************************************)
EXTENDS ControlLoop, SequenceTheorems, TLAPS

USE ControlAssumption DEF ControlAssumption

(* What the argument needs of the variables' types.                        *)
Typed ==
    /\ stage \in {"design", "implement", "review", "merge"}
    /\ status \in {"active", "waiting", "approval"}
    /\ proc \in {"up", "down"}
    /\ units \in Seq(Unit)
    /\ open \in Shapes \cup {Clear}
    /\ repairs \in 0..RepairLimit
    /\ foreign \in BOOLEAN /\ reviewed \in BOOLEAN /\ ahead \in BOOLEAN

(* A loopback finds the units its findings can name.                       *)
HasPlan == stage # "design" => 1..Planned \subseteq DOMAIN units

(* The code at hand changes without the loop's doing only if the operator  *)
(* says so; and a review is a review of that code, until it moves.         *)
Vouched == stage \in {"review", "merge"} => vouchedFor
Reviewed ==
    /\ "review" \in done => stage \in {"review", "merge"}
    /\ stage = "review" /\ "review" \in done => reviewed
    /\ stage = "merge" => reviewed /\ open = Clear
    /\ reviewed /\ open = Clear => stage \in {"review", "merge"}

IInv ==
    /\ Typed
    /\ HasPlan
    /\ ahead => foreign
    /\ Vouched
    /\ Reviewed

----------------------------------------------------------------------------
(* The sequences that the actions build of the units.                      *)

(* A function from 1..n to unit statuses is a sequence of them.            *)
LEMMA MadeUnits ==
    ASSUME NEW n \in Nat, NEW f \in [1..n -> Unit]
    PROVE  f \in Seq(Unit) /\ DOMAIN f = 1..n
BY SMT

(* New statuses for the same units are again such a sequence.              *)
LEMMA RelabelledUnits ==
    ASSUME units \in Seq(Unit), NEW f \in [DOMAIN units -> Unit]
    PROVE  f \in Seq(Unit) /\ DOMAIN f = DOMAIN units
<1>1. Len(units) \in Nat /\ DOMAIN units = 1..Len(units)
  OBVIOUS
<1> QED
  BY <1>1, MadeUnits

(* One unit gets a new status.                                             *)
LEMMA SetUnit ==
    ASSUME units \in Seq(Unit), NEW u, NEW s \in Unit
    PROVE  [units EXCEPT ![u] = s] \in [DOMAIN units -> Unit]
<1>1. units \in [DOMAIN units -> Unit]
  OBVIOUS
<1> QED
  BY <1>1

(* A gate-origin loopback sets all units to pending.                       *)
LEMMA AllPending ==
    ASSUME units \in Seq(Unit)
    PROVE  allPending \in [DOMAIN units -> Unit]
BY DEF allPending, Unit

(* A review loopback sets the named units to pending, or all.              *)
LEMMA NamedPending ==
    ASSUME units \in Seq(Unit), NEW named
    PROVE  [u \in DOMAIN units |-> IF named = {} \/ u \in named THEN "pending" ELSE units[u]]
               \in [DOMAIN units -> Unit]
BY DEF Unit

(* A reconcile unit is added, and no unit is lost.                         *)
LEMMA AppendedUnits ==
    ASSUME units \in Seq(Unit)
    PROVE  /\ Append(units, "pending") \in Seq(Unit)
           /\ DOMAIN units \subseteq DOMAIN Append(units, "pending")
BY DEF Unit

----------------------------------------------------------------------------
(* The steps of the implement stage need only keep the plan and the        *)
(* meaning of `ahead`, and not claim a review.                             *)
LEMMA ImplementStep ==
    ASSUME IInv, stage = "implement", UNCHANGED <<stage, open, repairs>>,
           status' \in {"active", "waiting"}, proc' \in {"up", "down"},
           units' \in Seq(Unit), DOMAIN units \subseteq DOMAIN units',
           foreign' \in BOOLEAN, ahead' \in BOOLEAN, ahead' => foreign',
           reviewed' \in BOOLEAN, reviewed' => reviewed,
           "review" \in done' => "review" \in done
    PROVE  IInv'
BY DEF IInv, Typed, HasPlan, Vouched, Reviewed

Implement == Dispatch \/ Verify \/ UnderDelivered \/ Gate \/ Arbitrate \/ ArbitrateMovesHead
             \/ ReauthorNothing \/ Reauthor \/ ReauthorFails \/ Integration \/ IntegrationThrows
             \/ Docs \/ DocsCutOff \/ ResolverEscalates \/ ReplayEscalates

(* No step of the implement stage moves the stage or touches findings.     *)
LEMMA ImplementFacts ==
    ASSUME IInv, Implement
    PROVE  /\ stage = "implement" /\ status = "active" /\ proc = "up"
           /\ UNCHANGED <<stage, open, repairs>>
           /\ \/ status' = "waiting" /\ proc' = "down"
              \/ status' = "active" /\ proc' \in {"up", "down"}
<1>1. stage = "implement" /\ status = "active" /\ proc = "up"
  BY DEF Implement, Dispatch, Verify, UnderDelivered, Gate, Arbitrate, ArbitrateMovesHead, ReauthorNothing,
     Reauthor, ReauthorFails, Integration, IntegrationThrows, Docs, DocsCutOff, ResolverEscalates,
     ReplayEscalates, Serves, Executes, Ready
<1>2. UNCHANGED <<stage, open, repairs>>
  BY DEF Implement, Dispatch, Verify, UnderDelivered, Gate, Arbitrate, ArbitrateMovesHead, ReauthorNothing,
     Reauthor, ReauthorFails, Integration, IntegrationThrows, Docs, DocsCutOff, ResolverEscalates,
     ReplayEscalates, review
<1>3. \/ status' = "waiting" /\ proc' = "down"
      \/ status' = "active" /\ proc' \in {"up", "down"}
  BY <1>1 DEF Implement, Dispatch, Verify, UnderDelivered, Gate, Arbitrate, ArbitrateMovesHead,
     ReauthorNothing, Reauthor, ReauthorFails, Integration, IntegrationThrows, Docs, DocsCutOff,
     ResolverEscalates, ReplayEscalates, Running, Escalated, process
<1> QED
  BY <1>1, <1>2, <1>3

(* Every step of the implement stage keeps the invariant.                  *)
LEMMA ImplementInv == IInv /\ Implement => IInv'
<1> SUFFICES ASSUME IInv, Implement PROVE IInv'
  OBVIOUS
<1>1. /\ units \in Seq(Unit)
      /\ foreign \in BOOLEAN /\ ahead \in BOOLEAN /\ reviewed \in BOOLEAN /\ (ahead => foreign)
  BY DEF IInv, Typed
<1>2. \/ units' = units
      \/ units' \in [DOMAIN units -> Unit]
      \/ units' = Append(units, "pending")
  <2>1. CASE Dispatch
    BY <1>1, <2>1, SetUnit DEF Dispatch, Unit
  <2>2. CASE Verify
    BY <1>1, <2>2, SetUnit DEF Verify, Unit
  <2>3. CASE UnderDelivered
    BY <1>1, <2>3, SetUnit DEF UnderDelivered, Unit
  <2>4. CASE Gate \/ Arbitrate \/ Reauthor
    BY <1>1, <2>4, AllPending DEF Gate, Arbitrate, Reauthor, gateOriginLoopback
  <2> QED
    BY <2>1, <2>2, <2>3, <2>4 DEF Implement, ArbitrateMovesHead, ReauthorNothing, ReauthorFails,
       Integration, IntegrationThrows, Docs, DocsCutOff, ResolverEscalates, ReplayEscalates
<1>3. units' \in Seq(Unit) /\ DOMAIN units \subseteq DOMAIN units'
  BY <1>1, <1>2, RelabelledUnits, AppendedUnits
<1>4. /\ foreign' \in BOOLEAN /\ ahead' \in BOOLEAN /\ (ahead' => foreign')
      /\ reviewed' \in BOOLEAN /\ (reviewed' => reviewed)
  <2>1. CASE Dispatch \/ ArbitrateMovesHead \/ Reauthor \/ ReauthorFails \/ DocsCutOff
    <3>1. \E moved \in BOOLEAN : reviewed' = (reviewed /\ ~moved)
      BY <1>1, <2>1 DEF Dispatch, ArbitrateMovesHead, Reauthor, ReauthorFails, DocsCutOff, Recorded
    <3>2. ahead' = FALSE /\ foreign' \in {FALSE, foreign}
      BY <2>1 DEF Dispatch, ArbitrateMovesHead, Reauthor, ReauthorFails, DocsCutOff, Recorded
    <3> QED
      BY <1>1, <3>1, <3>2
  <2>2. CASE Docs
    BY <1>1, <2>2 DEF Docs, Recorded, carryVerifiedVerdictForward
  <2>3. CASE Verify \/ UnderDelivered \/ Gate \/ Arbitrate \/ ReauthorNothing \/ Integration
             \/ IntegrationThrows \/ ResolverEscalates \/ ReplayEscalates
    BY <1>1, <2>3 DEF Verify, UnderDelivered, Gate, Arbitrate, ReauthorNothing, Integration,
       IntegrationThrows, ResolverEscalates, ReplayEscalates, observers
  <2> QED
    BY <2>1, <2>2, <2>3 DEF Implement
<1>5. "review" \in done' => "review" \in done
  <2>1. CASE Dispatch
    BY <2>1 DEF Dispatch
  <2>2. CASE Verify
    BY <2>2 DEF Verify
  <2>3. CASE UnderDelivered
    BY <2>3 DEF UnderDelivered
  <2>4. CASE Gate
    BY <2>4 DEF Gate, gateOriginLoopback
  <2>5. CASE Arbitrate
    BY <2>5 DEF Arbitrate, gateOriginLoopback
  <2>6. CASE ArbitrateMovesHead
    BY <2>6 DEF ArbitrateMovesHead
  <2>7. CASE ReauthorNothing
    BY <2>7 DEF ReauthorNothing
  <2>8. CASE Reauthor
    BY <2>8 DEF Reauthor, gateOriginLoopback
  <2>9. CASE ReauthorFails
    BY <2>9 DEF ReauthorFails
  <2>10. CASE Integration
    BY <2>10 DEF Integration
  <2>11. CASE IntegrationThrows
    BY <2>11 DEF IntegrationThrows
  <2>12. CASE Docs
    BY <2>12 DEF Docs
  <2>13. CASE DocsCutOff
    BY <2>13 DEF DocsCutOff
  <2>14. CASE ResolverEscalates
    BY <2>14 DEF ResolverEscalates
  <2>15. CASE ReplayEscalates
    BY <2>15 DEF ReplayEscalates
  <2> QED
    BY <2>1, <2>2, <2>3, <2>4, <2>5, <2>6, <2>7, <2>8, <2>9, <2>10, <2>11, <2>12, <2>13, <2>14,
       <2>15 DEF Implement
<1> QED
  BY <1>3, <1>4, <1>5, ImplementFacts, ImplementStep

----------------------------------------------------------------------------
(* The other stages.                                                       *)

(* The evidence is a function of these variables.                          *)
LEMMA SameVouched ==
    ASSUME UNCHANGED <<foreign, checked, rejected, gate, suite>>
    PROVE  vouchedFor' <=> vouchedFor
BY DEF vouchedFor, GatePassed, evidenceFloor

(* A step that moves only the status and the process keeps it.             *)
LEMMA Unmoved ==
    ASSUME IInv, status' \in {"active", "waiting", "approval"}, proc' \in {"up", "down"},
           UNCHANGED <<stage, units, open, repairs, done, ahead, foreign, reviewed>>,
           UNCHANGED <<checked, rejected, gate, suite>>
    PROVE  IInv'
BY SameVouched DEF IInv, Typed, HasPlan, Vouched, Reviewed

(* Carrying out a plan leaves the design stage with all its units.         *)
LEMMA PlanInv == IInv /\ (PlanLoop \/ Plan) => IInv'
<1> SUFFICES ASSUME IInv, PlanLoop \/ Plan PROVE IInv'
  OBVIOUS
<1>1. CASE PlanLoop
  BY <1>1 DEF PlanLoop, IInv, Typed, HasPlan, Vouched, Reviewed, Running, observers, process
<1>2. CASE Plan
  <2>1. /\ stage = "design" /\ stage' = "implement"
        /\ units' \in [1..Planned -> Unit]
        /\ UNCHANGED <<done, open, repairs, foreign, status, proc>>
    BY <1>2 DEF Plan, Unit, review, Running, process
  <2>2. \E moved \in BOOLEAN : ahead' = FALSE /\ reviewed' = (reviewed /\ ~moved)
    <3>1. IInv /\ Plan
      BY <1>2
    <3> QED
      BY <3>1 DEF Plan, Recorded, IInv, Typed
  <2>3. units' \in Seq(Unit) /\ DOMAIN units' = 1..Planned
    BY <2>1, MadeUnits
  <2> QED
    BY <2>1, <2>2, <2>3 DEF IInv, Typed, HasPlan, Vouched, Reviewed
<1> QED
  BY <1>1, <1>2

(* The two advances are guarded by what the next stage relies on.          *)
LEMMA AdvanceInv == IInv /\ (AdvanceToReview \/ AdvanceToMerge) => IInv'
<1> SUFFICES ASSUME IInv, AdvanceToReview \/ AdvanceToMerge PROVE IInv'
  OBVIOUS
<1>1. CASE AdvanceToReview
  <2>1. stage = "implement" /\ GatePassed /\ evidenceFloor
    BY <1>1 DEF AdvanceToReview, Serves, Served
  <2>2. vouchedFor
    BY <2>1 DEF vouchedFor
  <2>3. /\ stage' = "review"
        /\ UNCHANGED <<status, proc, units, checked, rejected, gate, suite, done, open, repairs, ahead,
                       foreign, reviewed>>
    BY <1>1 DEF AdvanceToReview, Running, process, checks, evidence, review, observers
  <2> QED
    BY <2>1, <2>2, <2>3, SameVouched DEF IInv, Typed, HasPlan, Vouched, Reviewed
<1>2. CASE AdvanceToMerge
  <2>1. /\ stage = "review" /\ stage' = "merge" /\ "review" \in done /\ open = Clear
        /\ UNCHANGED <<status, proc, units, checked, rejected, gate, suite, done, open, repairs, ahead,
                       foreign, reviewed>>
    BY <1>2 DEF AdvanceToMerge, Running, process, checks, evidence, review, observers
  <2> QED
    BY <2>1, SameVouched DEF IInv, Typed, HasPlan, Vouched, Reviewed
<1> QED
  BY <1>1, <1>2

(* Giving up, delivering and stopping change nothing it speaks of.         *)
LEMMA HaltInv == IInv /\ (GiveUp \/ Merge \/ Stop) => IInv'
<1> SUFFICES ASSUME IInv, GiveUp \/ Merge \/ Stop PROVE IInv'
  OBVIOUS
<1>1. UNCHANGED <<stage, units, open, repairs, done, ahead, foreign, reviewed, checked, rejected, gate,
                 suite>>
  BY DEF GiveUp, Merge, Stop, checks, evidence, review, observers
<1>2. status' \in {"active", "waiting", "approval"} /\ proc' \in {"up", "down"}
  BY DEF GiveUp, Merge, Stop, Escalated, IInv, Typed
<1> QED
  BY <1>1, <1>2, Unmoved

(* A verdict leaves the stage only with the review to be done again, and   *)
(* with findings open.                                                     *)
LEMMA VerdictInv ==
    ASSUME IInv, NEW found \in Shapes, stage = "review", open' = found, found # Clear,
           ahead' \in BOOLEAN, ahead' => foreign, foreign' = foreign, reviewed' \in BOOLEAN,
           stage' = "review" => reviewed' /\ vouchedFor',
           \/ UNCHANGED <<stage, units, repairs>> /\ status' = "waiting" /\ proc' = "down"
           \/ Redesign(found) \/ Recode(found)
    PROVE  IInv'
<1>1. repairs' \in 0..RepairLimit
  BY DEF Redesign, Recode, Repair, redesignLoopback, codeLoopback, IInv, Typed
<1>2. CASE UNCHANGED <<stage, units, repairs>> /\ status' = "waiting" /\ proc' = "down"
  BY <1>1, <1>2 DEF IInv, Typed, HasPlan, Vouched, Reviewed
<1>3. CASE Redesign(found)
  <2>1. stage' = "design" /\ units' = <<>> /\ "review" \notin done' /\ status' = "active" /\ proc' = "up"
    BY <1>3 DEF Redesign, redesignLoopback, verifyStepsReset, Repair
  <2> QED
    BY <1>1, <2>1 DEF IInv, Typed, HasPlan, Vouched, Reviewed
<1>4. CASE Recode(found)
  <2>1. stage' = "implement" /\ "review" \notin done' /\ status' = "active" /\ proc' = "up"
    BY <1>4 DEF Recode, codeLoopback, verifyStepsReset, Repair
  <2>2. units' = [u \in DOMAIN units |->
                    IF found.units = {} \/ u \in found.units THEN "pending" ELSE units[u]]
    BY <1>4 DEF Recode, codeLoopback
  <2>3. units' \in Seq(Unit) /\ DOMAIN units' = DOMAIN units
    BY <2>2, NamedPending, RelabelledUnits DEF IInv, Typed
  <2> QED
    BY <1>1, <2>1, <2>3 DEF IInv, Typed, HasPlan, Vouched, Reviewed
<1> QED
  BY <1>2, <1>3, <1>4

(* A review sees the code; if it finds nothing, the ticket stays there.    *)
LEMMA ReviewInv == IInv /\ Review => IInv'
<1> SUFFICES ASSUME IInv, Review PROVE IInv'
  OBVIOUS
<1>1. /\ stage = "review" /\ "review" \notin done
      /\ ahead' = FALSE /\ reviewed' = TRUE
      /\ open' \in Shapes \cup {Clear}
      /\ UNCHANGED <<foreign, checked, rejected>>
      /\ ~ahead => UNCHANGED <<gate, suite>>
  BY DEF Review, checks
<1>2. vouchedFor'
  <2>1. CASE foreign
    BY <1>1, <2>1 DEF vouchedFor
  <2>2. CASE ~foreign
    BY <1>1, <2>2, SameVouched DEF IInv, Vouched
  <2> QED
    BY <2>1, <2>2
<1>3. CASE /\ open' = Clear
           /\ UNCHANGED <<stage, status, units, repairs, proc>>
  BY <1>1, <1>2, <1>3 DEF IInv, Typed, HasPlan, Vouched, Reviewed
<1>4. CASE open' # Clear /\ (Refuse(open', done \cup {"review"}) \/ Redesign(open') \/ Recode(open'))
  <2>1. open' \in Shapes /\ open' # Clear
    BY <1>1, <1>4
  <2>2. \/ UNCHANGED <<stage, units, repairs>> /\ status' = "waiting" /\ proc' = "down"
        \/ Redesign(open') \/ Recode(open')
    BY <1>4 DEF Refuse
  <2> QED
    BY <1>1, <1>2, <2>1, <2>2, VerdictInv DEF IInv, Typed
<1> QED
  BY <1>3, <1>4 DEF Review, Refuse, Redesign, Recode, Repair

(* The operator: goes on, has a verdict given again, accepts the findings, *)
(* or a head of their own, which has to be coded and reviewed again.       *)
LEMMA ResumeInv == IInv /\ (Resume \/ AcceptRisk) => IInv'
<1> SUFFICES ASSUME IInv, Resume \/ AcceptRisk PROVE IInv'
  OBVIOUS
<1>1. UNCHANGED <<ahead, foreign, reviewed, checked, rejected, gate, suite>>
  BY DEF Resume, AcceptRisk, checks, evidence, observers
<1>2. CASE AcceptRisk
  <2>1. /\ stage = "review" /\ "review" \in done /\ open' = Clear
        /\ UNCHANGED <<stage, units, repairs, done>>
        /\ status' = "active" /\ proc' = "up"
    BY <1>2 DEF AcceptRisk, ReviewIsOpen
  <2> QED
    BY <1>1, <2>1, SameVouched DEF IInv, Typed, HasPlan, Vouched, Reviewed
<1>3. CASE Resume /\ ~ReviewIsOpen
  <2>1. /\ UNCHANGED <<stage, units, repairs, done, open>>
        /\ status' = "active" /\ proc' = "up"
    BY <1>3 DEF Resume
  <2> QED
    BY <1>1, <2>1, Unmoved
<1>4. CASE Resume /\ ReviewIsOpen
  <2>1. stage = "review" /\ "review" \in done /\ open' = open /\ open # Clear
    BY <1>4 DEF Resume, ReviewIsOpen
  <2>2. open \in Shapes /\ reviewed
    BY <2>1 DEF IInv, Typed, Reviewed
  <2>3. \/ UNCHANGED <<stage, units, repairs>> /\ status' = "waiting" /\ proc' = "down"
        \/ Redesign(open)
    BY <1>4 DEF Resume, Refuse
  <2>4. vouchedFor'
    BY <1>1, <2>1, SameVouched DEF IInv, Vouched
  <2> QED
    BY <1>1, <2>1, <2>2, <2>3, <2>4, VerdictInv DEF IInv, Typed
<1> QED
  BY <1>2, <1>3, <1>4

(* A head of the operator withdraws the review with its step.              *)
LEMMA AcceptHeadInv == IInv /\ AcceptHead => IInv'
<1> SUFFICES ASSUME IInv, AcceptHead PROVE IInv'
  OBVIOUS
<1>1. /\ ahead' = TRUE /\ foreign' = TRUE /\ reviewed' = FALSE /\ open' = open
      /\ status' = "active" /\ proc' = "up"
  BY DEF AcceptHead
<1>2. CASE stage \in {"review", "merge"} /\ codeLoopback({}, Origin("operator"))
  <2>1. /\ stage' = "implement" /\ "review" \notin done'
        /\ repairs' \in 0..RepairLimit
    BY <1>2 DEF codeLoopback, verifyStepsReset, IInv, Typed
  <2>2. units' = [u \in DOMAIN units |-> IF {} = {} \/ u \in {} THEN "pending" ELSE units[u]]
    BY <1>2 DEF codeLoopback
  <2>3. units' \in Seq(Unit) /\ DOMAIN units' = DOMAIN units
    BY <2>2, NamedPending, RelabelledUnits DEF IInv, Typed
  <2> QED
    BY <1>1, <1>2, <2>1, <2>3 DEF IInv, Typed, HasPlan, Vouched, Reviewed
<1>3. CASE stage \in {"design", "implement"} /\ UNCHANGED <<stage, units, done, repairs>>
  BY <1>1, <1>3 DEF IInv, Typed, HasPlan, Vouched, Reviewed
<1> QED
  BY <1>2, <1>3 DEF AcceptHead

(* The first state: no units, no review, nothing accepted.                 *)
LEMMA InitInv == Init => IInv
<1> SUFFICES ASSUME Init PROVE IInv
  OBVIOUS
<1>1. /\ stage = "design" /\ status = "active" /\ proc = "up" /\ units = <<>> /\ open = Clear
      /\ repairs = 0 /\ done = {} /\ foreign = FALSE /\ reviewed = FALSE /\ ahead = FALSE
  BY DEF Init
<1>2. units \in Seq(Unit) /\ repairs \in 0..RepairLimit
  BY <1>1, EmptySeq
<1> QED
  BY <1>1, <1>2 DEF IInv, Typed, HasPlan, Vouched, Reviewed

(* Every step keeps the invariant.                                         *)
LEMMA NextInv == IInv /\ [Next]_vars => IInv'
<1> SUFFICES ASSUME IInv, [Next]_vars PROVE IInv'
  OBVIOUS
<1>1. CASE UNCHANGED vars
  <2>1. UNCHANGED <<stage, status, proc, units, open, repairs, done, ahead, foreign, reviewed, checked,
                    rejected, gate, suite>>
    BY <1>1 DEF vars
  <2> QED
    BY <2>1, Unmoved DEF IInv, Typed
<1>2. CASE Next
  BY <1>2, ImplementInv, PlanInv, AdvanceInv, HaltInv, ReviewInv, ResumeInv, AcceptHeadInv
     DEF Next, Run, Implement
<1> QED
  BY <1>1, <1>2

(* The inductive invariant holds throughout.                               *)
THEOREM Inductive == Spec => []IInv
BY InitInv, NextInv, PTL DEF Spec

(* Whatever leaves the implement stage is gated, and its evidence floor    *)
(* met, at the recorded head.                                              *)
THEOREM Gated == Spec => []ShippedIsGated
<1>1. IInv => ShippedIsGated
  BY DEF IInv, Vouched, vouchedFor, ShippedIsGated
<1> QED
  BY <1>1, Inductive, PTL

(* Whatever is merged was reviewed as it is.                               *)
THEOREM MergedReviewed == Spec => []MergedIsReviewed
<1>1. IInv => MergedIsReviewed
  BY DEF IInv, Reviewed, MergedIsReviewed
<1> QED
  BY <1>1, Inductive, PTL

----------------------------------------------------------------------------
(* Every step is a step of Stages or leaves what it speaks of alone.       *)

(* A new ticket owes nothing yet, and nothing vouches for it.              *)
LEMMA InitRefines == Init => StageView!Init
<1> SUFFICES ASSUME Init PROVE StageView!Init
  OBVIOUS
<1>1. /\ stage = "design" /\ status = "active" /\ proc = "up" /\ repairs = 0
      /\ units = <<>> /\ reviewed = FALSE /\ foreign = FALSE
  BY DEF Init
<1>2. allUnitsVerified
  BY <1>1 DEF allUnitsVerified
<1>3. ~(GatePassed /\ evidenceFloor)
  <2>1. suite = "none" /\ checked \subseteq Acs /\ gate = [c \in Acs |-> "none"]
    BY DEF Init
  <2> QED
    BY <2>1 DEF GatePassed, evidenceFloor
<1> QED
  BY <1>1, <1>2, <1>3 DEF StageView!Init, vouchedFor

(* Any step of the implement stage is Work: it never approves.             *)
LEMMA ImplementRefines == IInv /\ Implement => StageView!Work
<1> SUFFICES ASSUME IInv, Implement PROVE StageView!Work
  OBVIOUS
<1>1. ~(reviewed' /\ open' = Clear)
  BY ImplementFacts, ImplementInv DEF IInv, Reviewed
<1>2. (~allUnitsVerified)' \in BOOLEAN /\ vouchedFor' \in BOOLEAN
  BY DEF vouchedFor
<1> QED
  BY <1>1, <1>2, ImplementFacts DEF StageView!Work, StageView!Active

(* What Stages sees of the work is a function of these variables.          *)
LEMMA SameView ==
    ASSUME UNCHANGED <<units, open, reviewed, foreign, checked, rejected, gate, suite>>
    PROVE  /\ (~allUnitsVerified)' = (~allUnitsVerified)
           /\ vouchedFor' = vouchedFor
           /\ (reviewed /\ open = Clear)' = (reviewed /\ open = Clear)
BY DEF allUnitsVerified, vouchedFor, GatePassed, evidenceFloor

(* A plan is sent back, or started with work owed.                         *)
LEMMA PlanRefines == IInv /\ (PlanLoop \/ Plan) => StageView!Replan \/ StageView!Start
<1> SUFFICES ASSUME IInv, PlanLoop \/ Plan PROVE StageView!Replan \/ StageView!Start
  OBVIOUS
<1>1. CASE PlanLoop
  <2>1. /\ proc = "up" /\ status = "active" /\ stage = "design"
        /\ repairs < RepairLimit /\ repairs' = repairs + 1
        /\ UNCHANGED <<stage, status, proc>>
        /\ UNCHANGED <<units, open, reviewed, foreign, checked, rejected, gate, suite>>
    BY <1>1 DEF PlanLoop, Ready, Running, process, checks, evidence, observers
  <2> QED
    BY <2>1, SameView DEF StageView!Replan, StageView!Active
<1>2. CASE Plan
  <2>1. /\ proc = "up" /\ status = "active" /\ stage = "design" /\ stage' = "implement"
        /\ units' = [u \in 1..Planned |-> "pending"]
        /\ UNCHANGED <<status, proc, repairs>>
    BY <1>2 DEF Plan, Ready, Running, process, review
  <2>2. 1 \in 1..Planned
    OBVIOUS
  <2>3. ~allUnitsVerified'
    BY <2>1, <2>2 DEF allUnitsVerified
  <2>4. ~(reviewed' /\ open' = Clear)
    BY <2>1, PlanInv DEF IInv, Reviewed
  <2>5. vouchedFor' \in BOOLEAN
    BY DEF vouchedFor
  <2> QED
    BY <2>1, <2>3, <2>4, <2>5 DEF StageView!Start, StageView!Active
<1> QED
  BY <1>1, <1>2

(* Submit needs the work done and vouched for, Accept the approval.        *)
LEMMA AdvanceRefines ==
    IInv /\ (AdvanceToReview \/ AdvanceToMerge) => StageView!Submit \/ StageView!Accept
<1> SUFFICES ASSUME IInv, AdvanceToReview \/ AdvanceToMerge PROVE StageView!Submit \/ StageView!Accept
  OBVIOUS
<1>1. /\ proc = "up" /\ status = "active"
      /\ UNCHANGED <<status, proc, repairs>>
      /\ UNCHANGED <<units, open, reviewed, foreign, checked, rejected, gate, suite>>
  BY DEF AdvanceToReview, AdvanceToMerge, Serves, Ready, Running, process, checks, evidence, review,
     observers
<1>2. CASE AdvanceToReview
  <2>1. stage = "implement" /\ stage' = "review" /\ allUnitsVerified /\ GatePassed /\ evidenceFloor
    BY <1>2 DEF AdvanceToReview, Serves, Served
  <2>2. vouchedFor
    BY <2>1 DEF vouchedFor
  <2> QED
    BY <1>1, <2>1, <2>2, SameView DEF StageView!Submit, StageView!Active
<1>3. CASE AdvanceToMerge
  <2>1. stage = "review" /\ stage' = "merge" /\ open = Clear /\ reviewed
    BY <1>3 DEF AdvanceToMerge, IInv, Reviewed
  <2> QED
    BY <1>1, <2>1, SameView DEF StageView!Accept, StageView!Active
<1> QED
  BY <1>2, <1>3

(* The process ends, and nothing else changes.                             *)
LEMMA HaltRefines == IInv /\ (GiveUp \/ Merge \/ Stop) => StageView!Halt \/ StageView!Deliver
<1> SUFFICES ASSUME IInv, GiveUp \/ Merge \/ Stop PROVE StageView!Halt \/ StageView!Deliver
  OBVIOUS
<1>1. /\ UNCHANGED <<stage, repairs>>
      /\ UNCHANGED <<units, open, reviewed, foreign, checked, rejected, gate,
                     suite>>
  BY DEF GiveUp, Merge, Stop, checks, evidence, review, observers
<1>2. CASE GiveUp
  <2>1. proc = "up" /\ proc' = "down" /\ status = "active" /\ status' = "waiting"
    BY <1>2 DEF GiveUp, Ready, Escalated
  <2> QED
    BY <1>1, <2>1, SameView DEF StageView!Halt
<1>3. CASE Merge
  <2>1. stage = "merge" /\ proc = "up" /\ status = "active" /\ proc' = "down" /\ status' = "approval"
    BY <1>3 DEF Merge, Ready
  <2> QED
    BY <1>1, <2>1, SameView DEF StageView!Deliver, StageView!Active
<1>4. CASE Stop
  <2>1. proc = "up" /\ proc' = "down" /\ status' = status
    BY <1>4 DEF Stop
  <2> QED
    BY <1>1, <2>1, SameView DEF StageView!Halt
<1> QED
  BY <1>2, <1>3, <1>4

(* A verdict that sends the ticket back leaves work owed: findings name    *)
(* units of the plan, or reopen them all.                                  *)
LEMMA Reopened ==
    ASSUME IInv, stage # "design", NEW named \in SUBSET (1..Planned),
           units' = [u \in DOMAIN units |-> IF named = {} \/ u \in named THEN "pending" ELSE units[u]]
    PROVE  ~allUnitsVerified'
<1>1. 1 \in 1..Planned /\ 1..Planned \subseteq DOMAIN units
  BY DEF IInv, HasPlan
<1>2. PICK v \in 1..Planned : named = {} \/ v \in named
  BY <1>1
<1>3. v \in DOMAIN units' /\ units'[v] = "pending"
  BY <1>1, <1>2
<1> QED
  BY <1>3 DEF allUnitsVerified

(* Waiting, redesign and recode are the outcomes of a review that objects. *)
LEMMA VerdictRefines ==
    ASSUME IInv, NEW found \in Shapes, found # Clear, stage = "review", open' = found,
           vouchedFor' = vouchedFor,
           \/ /\ UNCHANGED <<stage, units, repairs>> /\ status' = "waiting" /\ proc' = "down"
           \/ Redesign(found) \/ Recode(found)
    PROVE  StageView!Refuse \/ StageView!Back
<1>1. ~(reviewed' /\ open' = Clear)
  OBVIOUS
<1>2. CASE UNCHANGED <<stage, units, repairs>> /\ status' = "waiting" /\ proc' = "down"
  BY <1>1, <1>2 DEF StageView!Refuse, allUnitsVerified
<1>3. CASE Redesign(found)
  <2>1. /\ repairs < RepairLimit /\ repairs' = repairs + 1 /\ stage' = "design" /\ units' = <<>>
        /\ status' = "active" /\ proc' = "up"
    BY <1>3 DEF Redesign, Repair, redesignLoopback
  <2>2. allUnitsVerified'
    BY <2>1 DEF allUnitsVerified
  <2> QED
    BY <1>1, <2>1, <2>2 DEF StageView!Back
<1>4. CASE Recode(found)
  <2>1. /\ repairs < RepairLimit /\ repairs' = repairs + 1 /\ stage' = "implement"
        /\ status' = "active" /\ proc' = "up"
    BY <1>4 DEF Recode, Repair, codeLoopback
  <2>2. found.units \in SUBSET (1..Planned)
    OBVIOUS
  <2>3. ~allUnitsVerified'
    BY <1>4, <2>2, Reopened DEF Recode, codeLoopback
  <2> QED
    BY <1>1, <2>1, <2>3 DEF StageView!Back
<1> QED
  BY <1>2, <1>3, <1>4

(* A review approves, or objects.                                          *)
LEMMA ReviewRefines == IInv /\ Review => StageView!Approve \/ StageView!Object
<1> SUFFICES ASSUME IInv, Review PROVE StageView!Approve \/ StageView!Object
  OBVIOUS
<1>1. /\ proc = "up" /\ status = "active" /\ stage = "review" /\ reviewed' = TRUE
      /\ open' \in Shapes \cup {Clear}
      /\ UNCHANGED <<foreign, checked, rejected>>
      /\ ~ahead => UNCHANGED <<gate, suite>>
  BY DEF Review, Ready, checks
<1>2. vouchedFor' = vouchedFor
  <2>1. CASE foreign
    BY <1>1, <2>1 DEF vouchedFor
  <2>2. CASE ~foreign
    <3>1. UNCHANGED <<foreign, checked, rejected, gate, suite>>
      BY <1>1, <2>2 DEF IInv
    <3> QED
      BY <3>1 DEF vouchedFor, GatePassed, evidenceFloor
  <2> QED
    BY <2>1, <2>2
<1>3. CASE open' = Clear /\ UNCHANGED <<stage, status, units, repairs, proc>>
  <2>1. reviewed' /\ open' = Clear
    BY <1>1, <1>3
  <2> QED
    BY <1>1, <1>2, <1>3, <2>1 DEF StageView!Approve, StageView!Active, allUnitsVerified
<1>4. CASE open' # Clear /\ (Refuse(open', done \cup {"review"}) \/ Redesign(open') \/ Recode(open'))
  <2>1. open' \in Shapes /\ open' # Clear
    BY <1>1, <1>4
  <2>2. \/ UNCHANGED <<stage, units, repairs>> /\ status' = "waiting" /\ proc' = "down"
        \/ Redesign(open') \/ Recode(open')
    BY <1>4 DEF Refuse
  <2>3. StageView!Refuse \/ StageView!Back
    BY <1>1, <1>2, <2>1, <2>2, VerdictRefines
  <2> QED
    BY <1>1, <2>3 DEF StageView!Object, StageView!Active
<1> QED
  BY <1>3, <1>4 DEF Review, Refuse, Redesign, Recode, Repair

(* A resume goes on, judges again, or accepts the risk.                    *)
LEMMA ResumeRefines ==
    IInv /\ (Resume \/ AcceptRisk) => StageView!Resume \/ StageView!JudgeAgain \/ StageView!AcceptRisk
<1> SUFFICES ASSUME IInv, Resume \/ AcceptRisk
             PROVE  StageView!Resume \/ StageView!JudgeAgain \/ StageView!AcceptRisk
  OBVIOUS
<1>1. /\ proc = "down" /\ status # "approval"
      /\ UNCHANGED <<foreign, reviewed, checked, rejected, gate, suite>>
  BY DEF Resume, AcceptRisk, Resumes, checks, evidence, observers
<1>2. vouchedFor' = vouchedFor
  BY <1>1 DEF vouchedFor, GatePassed, evidenceFloor
<1>3. CASE AcceptRisk
  <2>1. /\ stage = "review" /\ reviewed /\ open' = Clear
        /\ UNCHANGED <<stage, units, repairs>>
        /\ status' = "active" /\ proc' = "up"
    BY <1>3 DEF AcceptRisk, ReviewIsOpen, IInv, Reviewed
  <2> QED
    BY <1>1, <1>2, <2>1 DEF StageView!AcceptRisk, StageView!Resumable, allUnitsVerified
<1>4. CASE Resume /\ ~ReviewIsOpen
  <2>1. UNCHANGED <<stage, units, repairs, open>> /\ status' = "active" /\ proc' = "up"
    BY <1>4 DEF Resume
  <2> QED
    BY <1>1, <2>1, SameView DEF StageView!Resume, StageView!Resumable
<1>5. CASE Resume /\ ReviewIsOpen
  <2>1. stage = "review" /\ open' = open /\ open # Clear
    BY <1>5 DEF Resume, ReviewIsOpen
  <2>2. open \in Shapes
    BY <2>1 DEF IInv, Typed
  <2>3. \/ UNCHANGED <<stage, units, repairs>> /\ status' = "waiting" /\ proc' = "down"
        \/ Redesign(open)
    BY <1>5 DEF Resume, Refuse
  <2>4. StageView!Refuse \/ StageView!Back
    BY <1>2, <2>1, <2>2, <2>3, VerdictRefines
  <2> QED
    BY <1>1, <2>1, <2>4 DEF StageView!JudgeAgain, StageView!Resumable
<1> QED
  BY <1>3, <1>4, <1>5

(* An accepted head goes back to coding, all units owed.                   *)
LEMMA AcceptHeadRefines == IInv /\ AcceptHead => StageView!AcceptHead
<1> SUFFICES ASSUME IInv, AcceptHead PROVE StageView!AcceptHead
  OBVIOUS
<1>1. /\ proc = "down" /\ status # "approval" /\ status' = "active" /\ proc' = "up"
      /\ ~(reviewed' /\ open' = Clear)
  BY DEF AcceptHead, Resumes
<1>2. vouchedFor'
  BY DEF AcceptHead, vouchedFor
<1>3. CASE stage \in {"review", "merge"} /\ codeLoopback({}, Origin("operator"))
  <2>1. stage' = "implement" /\ repairs' \in {repairs, repairs + 1} /\ repairs' <= RepairLimit
    BY <1>3 DEF codeLoopback, IInv, Typed
  <2>2. units' = [u \in DOMAIN units |-> IF {} = {} \/ u \in {} THEN "pending" ELSE units[u]]
    BY <1>3 DEF codeLoopback
  <2>3. ~allUnitsVerified'
    BY <1>3, <2>2, Reopened
  <2> QED
    BY <1>1, <1>2, <1>3, <2>1, <2>3 DEF StageView!AcceptHead, StageView!Resumable
<1>4. CASE stage \in {"design", "implement"} /\ UNCHANGED <<stage, units, repairs>>
  BY <1>1, <1>2, <1>4 DEF StageView!AcceptHead, StageView!Resumable, allUnitsVerified
<1> QED
  BY <1>3, <1>4 DEF AcceptHead

(* Every step is one of theirs, or a stutter.                              *)
LEMMA NextRefines == IInv /\ [Next]_vars => [StageView!Next]_(StageView!vars)
<1> SUFFICES ASSUME IInv, [Next]_vars PROVE [StageView!Next]_(StageView!vars)
  OBVIOUS
<1>1. CASE UNCHANGED vars
  <2>1. UNCHANGED <<stage, status, proc, repairs>>
        /\ UNCHANGED <<units, open, reviewed, foreign, checked, rejected, gate, suite>>
    BY <1>1 DEF vars
  <2> QED
    BY <2>1, SameView DEF StageView!vars
<1>2. CASE Next
  <2>1. StageView!Next
    BY <1>2, ImplementRefines, PlanRefines, AdvanceRefines, HaltRefines, ReviewRefines, ResumeRefines,
       AcceptHeadRefines DEF Next, Run, Implement, StageView!Next
  <2> QED
    BY <2>1
<1> QED
  BY <1>1, <1>2

(* The control loop implements the stages: the resolver, the verdicts, the *)
(* loopbacks, the crashes and the operator's commands all keep to what     *)
(* Stages promises.                                                        *)
THEOREM StagesKept == Spec => StageContract
BY InitRefines, NextRefines, Inductive, PTL DEF Spec, StageContract, StageView!Spec

(* So code in review or merge is vouched for, code in merge is approved,   *)
(* nothing else is, and no ticket takes more than RepairLimit ways back.   *)
THEOREM ContractKept == Spec => []StageView!Contract
<1>1. IInv => StageView!Contract
  BY DEF IInv, Typed, Vouched, Reviewed, StageView!Contract
<1> QED
  BY <1>1, Inductive, PTL

----------------------------------------------------------------------------
(* A step is asked for again only for a reason.  Armed, the invariant for  *)
(* it, says of the journal what the evidence at the recorded head must be: *)
(* a succeeded gate has units that are all verified and has left an answer *)
(* (it passed, or something is red, or blamed, or the rounds are used up); *)
(* a succeeded arbiter has blamed all that is red; a succeeded integration *)
(* has a verdict and is behind a gate that passed.  Those who withdraw the *)
(* answer withdraw the step, or are what `upset` records.                  *)
Exceeded == gateRoundExceeded(gateTries) \/ reauthorRoundExceeded(reauthorTries)
Answered == GatePassed \/ behavioralStillRed # {} \/ Blamed \/ Exceeded

Counting == checked \subseteq Acs /\ gateTries \in Nat /\ reauthorTries \in Nat /\ upset \in BOOLEAN
Armed ==
    /\ stage = "design" => "gate" \notin done /\ "integration" \notin done
    /\ stage # "implement" => behavioralStillRed = {}
    /\ stage = "implement" /\ ~allUnitsVerified => "gate" \notin done
    /\ "arbitrate" \in done => "gate" \in done /\ (behavioralStillRed = {} \/ Blamed)
    /\ behavioralStillRed # {} /\ ~Blamed => "gate" \in done
    /\ stage = "implement" /\ ~upset /\ "gate" \in done => Answered
    /\ stage = "implement" /\ ~upset /\ "integration" \in done =>
           allUnitsVerified /\ GatePassed /\ suite # "none"
ReplayInv == Counting /\ Armed

(* The answer is a function of the evidence, and a moved head has none.    *)
LEMMA SameAnswer ==
    ASSUME UNCHANGED <<checked, gate, blame>>
    PROVE  (GatePassed' <=> GatePassed) /\ behavioralStillRed' = behavioralStillRed /\ (Blamed' <=> Blamed)
BY DEF GatePassed, behavioralStillRed, Blamed

LEMMA NoneRed == ASSUME checked \subseteq Acs, UNCHANGED checked,
                        gate' = [c \in Acs |-> "none"] \/ gate' = [c \in Acs |-> IF c \in checked THEN "green" ELSE "none"]
                 PROVE  behavioralStillRed' = {}
BY DEF behavioralStillRed

LEMMA PassedNotRed == GatePassed => behavioralStillRed = {}
BY DEF GatePassed, behavioralStillRed

LEMMA SameTries == ASSUME gateTries \in Nat, reauthorTries \in Nat, gateTries' \in Nat, reauthorTries' \in Nat,
                          gateTries' >= gateTries, reauthorTries' >= reauthorTries
                   PROVE  Exceeded => Exceeded'
BY DEF Exceeded, gateRoundExceeded, reauthorRoundExceeded

LEMMA Counts == ASSUME NEW n \in Nat PROVE Counted(n) \in Nat /\ Counted(n) >= n
BY DEF Counted

LEMMA RecordedHead ==
    ASSUME NEW moved \in BOOLEAN, Recorded(moved), checked \subseteq Acs, UNCHANGED checked
    PROVE  /\ moved => behavioralStillRed' = {}
           /\ ~moved => UNCHANGED <<gate, blame, suite>>
<1>1. moved => gate' = [c \in Acs |-> "none"]
  BY DEF Recorded
<1>2. ~moved => UNCHANGED <<gate, blame, suite>>
  BY DEF Recorded
<1> QED
  BY <1>1, <1>2, NoneRed

(* What the resolver's answer says of the evidence.                        *)
LEMMA ServedMeans ==
    /\ Serves("unit") => stage = "implement" /\ ~allUnitsVerified
    /\ \A s \in Steps : Serves(s) => stage = "implement" /\ allUnitsVerified /\ s # "review"
    /\ \A s \in {"gate", "arbitrate", "reauthor"} : Serves(s) => ~GatePassed
    /\ \A s \in {"integration", "docs", "advance"} : Serves(s) => GatePassed
    /\ Serves("gate") => "gate" \notin done \/ (behavioralStillRed = {} /\ ~Blamed)
    /\ Serves("arbitrate") => behavioralStillRed # {} /\ ~Blamed
    /\ Serves("reauthor") => Blamed /\ "reauthor" \notin done
    /\ Serves("integration") <=> Ready /\ stage = "implement" /\ allUnitsVerified /\ GatePassed /\ suite = "none"
    /\ Serves("docs") => suite # "none" /\ "docs" \notin done
    /\ Serves("advance") => stage = "implement"
BY DEF Serves, Served, Steps

(* The evidence stays, and the steps that answer for it.                   *)
LEMMA Quiet ==
    ASSUME ReplayInv, UNCHANGED <<checked, gate, blame, suite, reauthorTries, done, upset>>,
           gateTries' \in Nat, gateTries' >= gateTries,
           \/ UNCHANGED <<stage, units>>
           \/ stage = "implement" /\ stage' = "implement" /\ ~allUnitsVerified
           \/ stage' \in {"review", "merge"} /\ behavioralStillRed = {}
    PROVE  ReplayInv'
<1>1. Counting' /\ (Exceeded => Exceeded')
  BY SameTries DEF ReplayInv, Counting
<1>2. UNCHANGED units => (allUnitsVerified' <=> allUnitsVerified)
  BY DEF allUnitsVerified
<1>3. Answered => Answered'
  BY <1>1, SameAnswer DEF Answered
<1> QED
  BY <1>1, <1>2, <1>3, SameAnswer DEF ReplayInv, Armed

(* A way back to coding: whoever takes it withdraws the gate.              *)
LEMMA Rearmed ==
    ASSUME ReplayInv, Counting', "gate" \notin done', "arbitrate" \notin done',
           stage' \in {"design", "implement"}, stage' = "design" => behavioralStillRed' = {},
           behavioralStillRed' # {} => Blamed',
           "integration" \in done' => stage' = "implement" /\ upset'
    PROVE  ReplayInv'
BY DEF ReplayInv, Armed

(* Most steps leave the evidence alone.                                    *)
LEMMA QuietInv ==
    ReplayInv /\ (PlanLoop \/ Verify \/ UnderDelivered \/ AdvanceToReview \/ ResolverEscalates
                  \/ ReplayEscalates \/ GiveUp \/ AdvanceToMerge \/ Merge \/ Stop \/ AcceptRisk) => ReplayInv'
<1> SUFFICES ASSUME ReplayInv, \/ PlanLoop \/ Verify \/ UnderDelivered \/ AdvanceToReview \/ ResolverEscalates
                               \/ ReplayEscalates \/ GiveUp \/ AdvanceToMerge \/ Merge \/ Stop \/ AcceptRisk
             PROVE  ReplayInv'
  OBVIOUS
<1>1. UNCHANGED <<checked, gate, blame, suite, reauthorTries, done, upset>>
  BY DEF PlanLoop, Verify, UnderDelivered, AdvanceToReview, ResolverEscalates, ReplayEscalates, GiveUp,
     AdvanceToMerge, Merge, Stop, AcceptRisk, checks, evidence, attempts, observers
<1>2. gateTries' \in Nat /\ gateTries' >= gateTries
  <2>1. gateTries' \in {gateTries, Counted(gateTries)}
    BY DEF PlanLoop, Verify, UnderDelivered, AdvanceToReview, ResolverEscalates, ReplayEscalates, GiveUp,
       AdvanceToMerge, Merge, Stop, AcceptRisk, attempts
  <2> QED
    BY <2>1, Counts DEF ReplayInv, Counting
<1>3. \/ UNCHANGED <<stage, units>>
      \/ stage = "implement" /\ stage' = "implement" /\ ~allUnitsVerified
      \/ stage' \in {"review", "merge"} /\ behavioralStillRed = {}
  <2>1. CASE Verify \/ UnderDelivered
    BY <2>1, ServedMeans DEF Verify, UnderDelivered
  <2>2. CASE AdvanceToReview
    BY <2>2, ServedMeans, PassedNotRed DEF AdvanceToReview
  <2>3. CASE AdvanceToMerge
    BY <2>3 DEF AdvanceToMerge, ReplayInv, Armed
  <2>4. CASE PlanLoop \/ ResolverEscalates \/ ReplayEscalates \/ GiveUp \/ Merge \/ Stop \/ AcceptRisk
    BY <2>4 DEF PlanLoop, ResolverEscalates, ReplayEscalates, GiveUp, Merge, Stop, AcceptRisk
  <2> QED
    BY <2>1, <2>2, <2>3, <2>4
<1> QED
  BY <1>1, <1>2, <1>3, Quiet

(* Coding starts where the gate has not, or no longer, succeeded.          *)
LEMMA CodingInv == ReplayInv /\ (Plan \/ Dispatch) => ReplayInv'
<1> SUFFICES ASSUME ReplayInv, Plan \/ Dispatch PROVE ReplayInv'
  OBVIOUS
<1>1. /\ UNCHANGED <<checked, gateTries, reauthorTries, done, upset>> /\ stage' = "implement"
      /\ \E committed \in BOOLEAN : Recorded(committed \/ ahead)
  BY ServedMeans DEF Plan, Dispatch, checks, attempts
<1>2. Counting'
  BY <1>1 DEF ReplayInv, Counting
<1>3. behavioralStillRed' = {} \/ UNCHANGED <<gate, blame>>
  <2>1. PICK committed \in BOOLEAN : Recorded(committed \/ ahead)
    BY <1>1
  <2>2. (committed \/ ahead) \in BOOLEAN
    OBVIOUS
  <2> QED
    BY <1>1, <2>1, <2>2, RecordedHead DEF ReplayInv, Counting
<1>4. "gate" \notin done /\ ("integration" \in done => upset)
  BY ServedMeans DEF Plan, Dispatch, ReplayInv, Armed
<1>5. behavioralStillRed' # {} => Blamed'
  BY <1>1, <1>3, <1>4, SameAnswer DEF ReplayInv, Armed
<1> QED
  BY <1>1, <1>2, <1>4, <1>5, Rearmed DEF ReplayInv, Armed

(* The gate answers, or at the cap gives up, or withdraws itself.          *)
LEMMA GateArmed == ReplayInv /\ Gate => ReplayInv'
<1> SUFFICES ASSUME ReplayInv, Gate PROVE ReplayInv'
  OBVIOUS
<1>1. /\ stage = "implement" /\ allUnitsVerified /\ ~GatePassed /\ "gate" \notin done
      /\ UNCHANGED <<stage, checked, blame, suite, reauthorTries, upset>> /\ gateTries' = Counted(gateTries)
  BY ServedMeans DEF Gate, Executes, Steps, checks
<1>2. Counting' /\ checked \subseteq Acs
  BY <1>1, Counts DEF ReplayInv, Counting
<1>3. "arbitrate" \notin done /\ ("integration" \in done => upset)
  BY <1>1 DEF ReplayInv, Armed
<1>4. CASE done' = done \cup {"gate"} /\ UNCHANGED units /\ Answered'
  <2>1. allUnitsVerified'
    BY <1>1, <1>4 DEF allUnitsVerified
  <2> QED
    BY <1>1, <1>2, <1>3, <1>4, <2>1 DEF ReplayInv, Armed
<1>5. CASE gateOriginLoopback(done \cup {"gate"}) /\ \A c \in checked : gate'[c] # "red"
  <2>1. "gate" \notin done' /\ "arbitrate" \notin done' /\ ("integration" \in done' => "integration" \in done)
    BY <1>5 DEF gateOriginLoopback, GateSteps
  <2>2. behavioralStillRed' = {}
    BY <1>1, <1>5 DEF behavioralStillRed
  <2> QED
    BY <1>1, <1>2, <1>3, <2>1, <2>2, Rearmed
<1>6. \/ done' = done \cup {"gate"} /\ UNCHANGED units /\ Answered'
      \/ gateOriginLoopback(done \cup {"gate"}) /\ \A c \in checked : gate'[c] # "red"
  <2>1. CASE (\A c \in checked : gate'[c] = "green") /\ done' = done \cup {"gate"} /\ UNCHANGED units
    BY <1>1, <2>1 DEF Answered, GatePassed
  <2>2. CASE gateRoundExceeded(gateTries') /\ done' = done \cup {"gate"} /\ UNCHANGED units
    BY <2>2 DEF Answered, Exceeded, gateRoundExceeded
  <2>3. CASE (\E c \in checked : gate'[c] = "red") /\ done' = done \cup {"gate"} /\ UNCHANGED units
    BY <1>1, <2>3 DEF Answered, behavioralStillRed
  <2> QED
    BY <2>1, <2>2, <2>3 DEF Gate
<1> QED
  BY <1>4, <1>5, <1>6

(* The arbiter blames all that is red, each on the code or on the check.   *)
LEMMA ArbiterArmed == ReplayInv /\ (Arbitrate \/ ArbitrateMovesHead) => ReplayInv'
<1> SUFFICES ASSUME ReplayInv, Arbitrate \/ ArbitrateMovesHead PROVE ReplayInv'
  OBVIOUS
<1>1. /\ stage = "implement" /\ allUnitsVerified /\ ~GatePassed /\ behavioralStillRed # {} /\ ~Blamed
      /\ UNCHANGED <<stage, checked, gateTries, reauthorTries>>
  BY ServedMeans DEF Arbitrate, ArbitrateMovesHead, Executes, Steps, checks, attempts
<1>2. Counting'
  BY <1>1 DEF ReplayInv, Counting, Arbitrate, ArbitrateMovesHead, observers
<1>3. "gate" \in done /\ ("integration" \in done => upset)
  BY <1>1 DEF ReplayInv, Armed
<1>4. CASE Arbitrate
  <2>1. PICK wrong \in SUBSET behavioralStillRed :
           /\ blame' = [c \in Acs |-> IF c \in wrong THEN "check"
                                      ELSE IF c \in behavioralStillRed THEN "code" ELSE "none"]
           /\ \/ done' = done \cup {"arbitrate"} /\ UNCHANGED units
              \/ done' = done \ {"arbitrate", "reauthor"} /\ UNCHANGED units
              \/ gateOriginLoopback(done)
    BY <1>4 DEF Arbitrate
  <2>2. Blamed'
    <3>1. PICK c \in behavioralStillRed : c \in Acs
      BY <1>1 DEF behavioralStillRed, ReplayInv, Counting
    <3>2. blame'[c] # "none"
      BY <2>1, <3>1
    <3> QED
      BY <3>1, <3>2 DEF Blamed
  <2>3. UNCHANGED <<gate, suite, upset>>
    BY <1>4 DEF Arbitrate, observers
  <2>4. CASE UNCHANGED units /\ (done' = done \cup {"arbitrate"} \/ done' = done \ {"arbitrate", "reauthor"})
    <3>1. allUnitsVerified'
      BY <1>1, <2>4 DEF allUnitsVerified
    <3>2. "gate" \in done' /\ ("integration" \in done' => "integration" \in done)
      BY <1>3, <2>4
    <3> QED
      BY <1>1, <1>2, <1>3, <2>2, <2>3, <3>1, <3>2 DEF ReplayInv, Armed, Answered
  <2>5. CASE gateOriginLoopback(done)
    <3>1. "gate" \notin done' /\ "arbitrate" \notin done' /\ ("integration" \in done' => "integration" \in done)
      BY <2>5 DEF gateOriginLoopback, GateSteps
    <3> QED
      BY <1>1, <1>2, <1>3, <2>2, <2>3, <3>1, Rearmed
  <2> QED
    BY <2>1, <2>4, <2>5
<1>5. CASE ArbitrateMovesHead
  <2>1. upset' = TRUE /\ done' = done \cup {"arbitrate"} /\ UNCHANGED units /\ Recorded(TRUE)
    BY <1>5 DEF ArbitrateMovesHead
  <2>2. behavioralStillRed' = {}
    BY <1>1, <2>1, RecordedHead DEF ReplayInv, Counting
  <2>3. allUnitsVerified'
    BY <1>1, <2>1 DEF allUnitsVerified
  <2> QED
    BY <1>1, <1>2, <1>3, <2>1, <2>2, <2>3 DEF ReplayInv, Armed
<1> QED
  BY <1>4, <1>5

(* A re-author leaves the blame where it is, or a head without evidence.   *)
LEMMA ReauthorArmed == ReplayInv /\ (ReauthorNothing \/ Reauthor \/ ReauthorFails) => ReplayInv'
<1> SUFFICES ASSUME ReplayInv, ReauthorNothing \/ Reauthor \/ ReauthorFails PROVE ReplayInv'
  OBVIOUS
<1>1. /\ stage = "implement" /\ allUnitsVerified /\ ~GatePassed /\ Blamed
      /\ UNCHANGED <<stage, checked, gateTries>> /\ reauthorTries' = Counted(reauthorTries)
  BY ServedMeans DEF ReauthorNothing, Reauthor, ReauthorFails, Executes, Steps, checks
<1>2. /\ reauthorTries' \in Nat /\ reauthorTries' >= reauthorTries /\ gateTries \in Nat /\ checked \subseteq Acs
      /\ upset \in BOOLEAN /\ reauthorTries \in Nat
  BY <1>1, Counts DEF ReplayInv, Counting
<1>3. "integration" \in done => upset
  BY <1>1 DEF ReplayInv, Armed
<1>4. CASE ReauthorNothing
  <2>1. /\ UNCHANGED <<units, gate, blame, suite, upset>> /\ done' = done \cup {"reauthor"}
    BY <1>4 DEF ReauthorNothing, evidence, observers
  <2>2. Blamed' /\ allUnitsVerified' /\ behavioralStillRed' = behavioralStillRed
    BY <1>1, <2>1, SameAnswer DEF allUnitsVerified
  <2> QED
    BY <1>1, <1>2, <1>3, <2>1, <2>2 DEF ReplayInv, Counting, Armed, Answered
<1>5. CASE Reauthor
  <2>1. PICK committed \in BOOLEAN : Recorded(committed \/ ahead)
    BY <1>5 DEF Reauthor
  <2>2. behavioralStillRed' = {} \/ Blamed'
    <3>1. (committed \/ ahead) \in BOOLEAN
      OBVIOUS
    <3> QED
      BY <1>1, <1>2, <2>1, <3>1, RecordedHead, SameAnswer
  <2>3. upset' = upset /\ Counting'
    BY <1>1, <1>2, <1>5 DEF Reauthor, Counting
  <2>4. CASE /\ gateRoundExceeded(gateTries) \/ reauthorRoundExceeded(reauthorTries')
             /\ done' = done \cup {"reauthor"} /\ UNCHANGED units
    <3>1. Exceeded'
      BY <1>1, <2>4 DEF Exceeded, gateRoundExceeded, reauthorRoundExceeded
    <3>2. allUnitsVerified'
      BY <1>1, <2>4 DEF allUnitsVerified
    <3>3. "arbitrate" \in done' => "gate" \in done'
      BY <2>4 DEF ReplayInv, Armed
    <3> QED
      BY <1>1, <1>2, <1>3, <2>2, <2>3, <2>4, <3>1, <3>2, <3>3 DEF ReplayInv, Armed, Answered
  <2>5. CASE gateOriginLoopback(done) \/ done' = (done \cup {"reauthor"}) \ {"gate", "arbitrate"}
    <3>1. "gate" \notin done' /\ "arbitrate" \notin done' /\ ("integration" \in done' => "integration" \in done)
      BY <2>5 DEF gateOriginLoopback, GateSteps
    <3> QED
      BY <1>1, <1>3, <2>2, <2>3, <3>1, Rearmed
  <2> QED
    BY <1>5, <2>4, <2>5 DEF Reauthor
<1>6. CASE ReauthorFails
  <2>1. PICK committed \in BOOLEAN : Recorded(committed \/ ahead) /\ upset' = (upset \/ committed \/ ahead)
    BY <1>6 DEF ReauthorFails
  <2>2. UNCHANGED <<units, done>>
    BY <1>6 DEF ReauthorFails
  <2>3. Counting'
    BY <1>1, <1>2, <2>1 DEF Counting
  <2>4. allUnitsVerified'
    BY <1>1, <2>2 DEF allUnitsVerified
  <2>5. CASE committed \/ ahead
    <3>1. behavioralStillRed' = {} /\ upset'
      BY <1>1, <1>2, <2>1, <2>5, RecordedHead
    <3> QED
      BY <1>1, <2>2, <2>3, <2>4, <3>1 DEF ReplayInv, Armed
  <2>6. CASE ~(committed \/ ahead)
    <3>1. UNCHANGED <<gate, blame, suite>> /\ upset' = upset
      BY <1>1, <1>2, <2>1, <2>6, RecordedHead
    <3>2. Blamed' /\ behavioralStillRed' = behavioralStillRed
      BY <1>1, <3>1, SameAnswer
    <3> QED
      BY <1>1, <1>3, <2>2, <2>3, <2>4, <3>1, <3>2 DEF ReplayInv, Armed, Answered
  <2> QED
    BY <2>5, <2>6
<1> QED
  BY <1>4, <1>5, <1>6

(* The suite and the documents come after a gate that passed.              *)
LEMMA LateArmed == ReplayInv /\ (Integration \/ IntegrationThrows \/ Docs \/ DocsCutOff) => ReplayInv'
<1> SUFFICES ASSUME ReplayInv, Integration \/ IntegrationThrows \/ Docs \/ DocsCutOff PROVE ReplayInv'
  OBVIOUS
<1>1. /\ stage = "implement" /\ allUnitsVerified /\ GatePassed /\ behavioralStillRed = {}
      /\ UNCHANGED <<stage, checked, reauthorTries>>
  BY ServedMeans, PassedNotRed
     DEF Integration, IntegrationThrows, Docs, DocsCutOff, Executes, Steps, checks, attempts
<1>2. checked \subseteq Acs /\ upset \in BOOLEAN /\ gateTries \in Nat /\ reauthorTries \in Nat
  BY DEF ReplayInv, Counting
<1>3. CASE Integration
  <2>1. /\ UNCHANGED <<units, gate, blame, upset, gateTries>> /\ suite' # "none" /\ done' = done \cup {"integration"}
    BY <1>3 DEF Integration, observers
  <2>2. GatePassed' /\ behavioralStillRed' = {} /\ allUnitsVerified'
    BY <1>1, <2>1, SameAnswer DEF allUnitsVerified
  <2> QED
    BY <1>1, <1>2, <2>1, <2>2 DEF ReplayInv, Counting, Armed, Answered
<1>4. CASE IntegrationThrows
  <2>1. /\ UNCHANGED <<gate, blame, suite, upset>> /\ gateTries' = 0
        /\ "gate" \notin done' /\ "arbitrate" \notin done' /\ "integration" \notin done'
    BY <1>4 DEF IntegrationThrows, evidence, observers, integrationReset, GateSteps
  <2>2. Counting' /\ behavioralStillRed' = {}
    BY <1>1, <1>2, <2>1, SameAnswer DEF Counting
  <2> QED
    BY <1>1, <2>1, <2>2, Rearmed
<1>5. CASE Docs
  <2>1. UNCHANGED <<units, gateTries>> /\ done' = done \cup {"docs"}
    BY <1>5 DEF Docs, attempts
  <2>2. allUnitsVerified'
    BY <1>1, <2>1 DEF allUnitsVerified
  <2>3. CASE carryVerifiedVerdictForward /\ UNCHANGED upset
    <3>1. gate' = [c \in Acs |-> IF c \in checked THEN "green" ELSE "none"] /\ UNCHANGED suite
      BY <2>3 DEF carryVerifiedVerdictForward
    <3>2. GatePassed' /\ behavioralStillRed' = {}
      BY <1>1, <1>2, <3>1, NoneRed DEF GatePassed
    <3> QED
      BY <1>1, <1>2, <2>1, <2>2, <2>3, <3>1, <3>2 DEF ReplayInv, Counting, Armed, Answered
  <2>4. CASE Recorded(ahead) /\ upset' = (upset \/ ahead)
    <3>1. CASE ahead
      <4>1. Recorded(TRUE) /\ upset'
        BY <2>4, <3>1 DEF Recorded
      <4>2. behavioralStillRed' = {} /\ upset' \in BOOLEAN
        BY <1>1, <1>2, <2>4, <4>1, RecordedHead
      <4> QED
        BY <1>1, <1>2, <2>1, <2>2, <4>1, <4>2 DEF ReplayInv, Counting, Armed
    <3>2. CASE ~ahead
      <4>1. UNCHANGED <<gate, blame, suite>> /\ upset' = upset
        BY <1>2, <2>4, <3>2 DEF Recorded
      <4>2. GatePassed' /\ behavioralStillRed' = {}
        BY <1>1, <4>1, SameAnswer
      <4> QED
        BY <1>1, <1>2, <2>1, <2>2, <4>1, <4>2 DEF ReplayInv, Counting, Armed, Answered
    <3> QED
      BY <3>1, <3>2
  <2> QED
    BY <1>5, <2>3, <2>4 DEF Docs
<1>6. CASE DocsCutOff
  <2>1. UNCHANGED <<units, done, gateTries>> /\ upset' = TRUE /\ Recorded(TRUE)
    BY <1>6 DEF DocsCutOff, attempts
  <2>2. behavioralStillRed' = {} /\ allUnitsVerified'
    BY <1>1, <1>2, <2>1, RecordedHead DEF allUnitsVerified
  <2> QED
    BY <1>1, <1>2, <2>1, <2>2 DEF ReplayInv, Counting, Armed
<1> QED
  BY <1>3, <1>4, <1>5, <1>6

(* A verdict stays in review, or withdraws the gate and the suite.         *)
LEMMA VerdictArmed ==
    ASSUME ReplayInv, stage \in {"review", "merge"}, Counting', behavioralStillRed' = {},
           \/ UNCHANGED stage /\ (done' = done \/ done' = done \cup {"review"})
           \/ \E s : redesignLoopback(s)
           \/ \E named, s : codeLoopback(named, s)
    PROVE  ReplayInv'
<1>1. CASE UNCHANGED stage /\ (done' = done \/ done' = done \cup {"review"})
  BY <1>1 DEF ReplayInv, Armed
<1>2. CASE (\E s : redesignLoopback(s)) \/ (\E named, s : codeLoopback(named, s))
  <2>1. /\ stage' \in {"design", "implement"}
        /\ "gate" \notin done' /\ "arbitrate" \notin done' /\ "integration" \notin done'
    BY <1>2 DEF redesignLoopback, codeLoopback, verifyStepsReset, GateSteps
  <2> QED
    BY <2>1, Rearmed
<1> QED
  BY <1>1, <1>2

LEMMA ReviewArmed == ReplayInv /\ Review => ReplayInv'
<1> SUFFICES ASSUME ReplayInv, Review PROVE ReplayInv'
  OBVIOUS
<1>1. /\ stage = "review" /\ UNCHANGED <<checked, reauthorTries>> /\ checked \subseteq Acs /\ upset' = (upset \/ ahead)
      /\ gate' = [c \in Acs |-> "none"] \/ UNCHANGED gate
  BY DEF Review, checks, ReplayInv, Counting
<1>2. behavioralStillRed' = {}
  <2>1. CASE UNCHANGED gate
    BY <1>1, <2>1 DEF ReplayInv, Armed, behavioralStillRed
  <2> QED
    BY <1>1, <2>1, NoneRed
<1>3. \/ UNCHANGED <<stage, gateTries>> /\ (done' = done \/ done' = done \cup {"review"})
      \/ \E s : redesignLoopback(s)
      \/ \E named, s : codeLoopback(named, s)
  BY DEF Review, Refuse, Redesign, Recode
<1>4. gateTries' \in {gateTries, 0}
  BY <1>3 DEF redesignLoopback, codeLoopback
<1>5. Counting'
  BY <1>1, <1>4 DEF ReplayInv, Counting
<1> QED
  BY <1>1, <1>2, <1>3, <1>5, VerdictArmed

(* The operator's commands.                                                *)
LEMMA ResumeArmed == ReplayInv /\ (Resume \/ AcceptHead) => ReplayInv'
<1> SUFFICES ASSUME ReplayInv, Resume \/ AcceptHead PROVE ReplayInv'
  OBVIOUS
<1>1. UNCHANGED <<checked, reauthorTries, gate, blame, suite, upset>>
  BY DEF Resume, AcceptHead, checks, evidence, observers
<1>2. CASE UNCHANGED <<stage, units, done, gateTries>>
  BY <1>1, <1>2, Quiet DEF ReplayInv, Counting
<1>3. CASE /\ stage \in {"review", "merge"}
           /\ (\E s : redesignLoopback(s)) \/ (\E named, s : codeLoopback(named, s))
  <2>1. gateTries' = 0
    BY <1>3 DEF redesignLoopback, codeLoopback
  <2>2. Counting' /\ behavioralStillRed' = {}
    BY <1>1, <1>3, <2>1, SameAnswer DEF ReplayInv, Counting, Armed
  <2> QED
    BY <1>3, <2>2, VerdictArmed
<1> QED
  BY <1>2, <1>3 DEF Resume, AcceptHead, ReviewIsOpen, Refuse, Redesign

LEMMA NextArmed == ReplayInv /\ [Next]_vars => ReplayInv'
<1> SUFFICES ASSUME ReplayInv, [Next]_vars PROVE ReplayInv'
  OBVIOUS
<1>1. CASE UNCHANGED vars
  <2>1. UNCHANGED <<stage, units, checked, gate, blame, suite, gateTries, reauthorTries, done, upset>>
    BY <1>1 DEF vars
  <2> QED
    BY <2>1, Quiet DEF ReplayInv, Counting
<1>2. CASE Next
  BY <1>2, QuietInv, CodingInv, GateArmed, ArbiterArmed, ReauthorArmed, LateArmed, ReviewArmed, ResumeArmed
     DEF Next, Run
<1> QED
  BY <1>1, <1>2

LEMMA InitArmed == Init => ReplayInv
<1> SUFFICES ASSUME Init PROVE ReplayInv
  OBVIOUS
<1>1. /\ stage = "design" /\ done = {} /\ checked \subseteq Acs /\ gate = [c \in Acs |-> "none"]
      /\ gateTries = 0 /\ reauthorTries = 0 /\ upset = FALSE
  BY DEF Init
<1>2. behavioralStillRed = {}
  BY <1>1 DEF behavioralStillRed
<1> QED
  BY <1>1, <1>2 DEF ReplayInv, Counting, Armed

(* The resolver asks for a step that has succeeded only when the rounds of *)
(* the gate are used up, or its head was moved by one who did not finish.  *)
THEOREM ReplaysExplained == Spec => []ReplayIsExplained
<1>1. ReplayInv => ReplayIsExplained
  <2> SUFFICES ASSUME ReplayInv, NEW s \in Steps, Serves(s), s \in done
               PROVE  \/ s \in {"gate", "integration"} /\ upset
                      \/ s = "gate" /\ (gateRoundExceeded(gateTries) \/ reauthorRoundExceeded(reauthorTries))
    BY DEF ReplayIsExplained
  <2>1. stage = "implement" /\ s # "review" /\ s # "reauthor" /\ s # "docs"
    BY ServedMeans
  <2>2. CASE s = "gate"
    <3>1. behavioralStillRed = {} /\ ~Blamed /\ ~GatePassed
      BY <2>2, ServedMeans
    <3> QED
      BY <2>1, <2>2, <3>1 DEF ReplayInv, Armed, Answered, Exceeded
  <2>3. CASE s = "arbitrate"
    BY <2>3, ServedMeans DEF ReplayInv, Armed
  <2>4. CASE s = "integration"
    BY <2>1, <2>4, ServedMeans DEF ReplayInv, Armed
  <2> QED
    BY <2>1, <2>2, <2>3, <2>4 DEF Steps
<1> QED
  BY <1>1, InitArmed, NextArmed, PTL DEF Spec

----------------------------------------------------------------------------
(* Types.  The rest of them, beside what IInv says: there is a counter of  *)
(* attempts for each unit, and a route names only criteria with a check.   *)
TypedPlan == delivered \in Seq(0..Most) /\ Len(units) = Len(delivered)
TypedChecks ==
    /\ checked \in SUBSET Acs /\ rejected \in SUBSET checked
    /\ gate \in [Acs -> {"none", "green", "red", "tampered"}]
    /\ blame \in [Acs -> {"none", "code", "check"}] /\ suite \in {"none", "ran", "tested"}
    /\ route \in [acs : SUBSET checked, code : BOOLEAN, installed : BOOLEAN, rejected : BOOLEAN]
TypedCounts ==
    /\ done \in SUBSET Steps /\ needsDocs \in BOOLEAN /\ lastLoop \in Loops
    /\ gateTries \in 0..Most /\ reauthorTries \in 0..Most /\ suiteTries \in 0..Most
    /\ runs \in 1..MaxRuns /\ moves \in 0..MaxMoves /\ unseen \in BOOLEAN /\ upset \in BOOLEAN
TypeInv == IInv /\ TypedPlan /\ TypedChecks /\ TypedCounts

(* Attempts are counted up to the larger cap.                              *)
LEMMA CountedStays == Most \in Nat \ {0} /\ \A n \in 0..Most : Counted(n) \in 0..Most
BY DEF Most, Counted

(* A function from 1..n is a sequence of length n.                         *)
LEMMA ListIsSeq ==
    ASSUME NEW S, NEW n \in Nat, NEW f \in [1..n -> S]
    PROVE  f \in Seq(S) /\ Len(f) = n
<1>1. f = [i \in 1..n |-> f[i]] /\ \A i \in 1..n : f[i] \in S
  OBVIOUS
<1> QED
  BY <1>1

(* Attempts are counted for the same units, and begin with 0.              *)
LEMMA Delivers ==
    ASSUME TypedPlan, NEW u, NEW n, u \in DOMAIN delivered => n \in 0..Most
    PROVE  /\ [delivered EXCEPT ![u] = n] \in Seq(0..Most)
           /\ Len([delivered EXCEPT ![u] = n]) = Len(delivered)
<1> DEFINE f == [delivered EXCEPT ![u] = n]
<1>1. DOMAIN delivered = 1..Len(delivered) /\ Len(delivered) \in Nat /\ delivered \in [1..Len(delivered) -> 0..Most]
  BY LenProperties DEF TypedPlan
<1>2. f \in [1..Len(delivered) -> 0..Most]
  <2>1. f = [v \in 1..Len(delivered) |-> IF v = u THEN n ELSE delivered[v]]
    BY <1>1
  <2>2. \A v \in 1..Len(delivered) : (IF v = u THEN n ELSE delivered[v]) \in 0..Most
    BY <1>1
  <2> HIDE DEF f
  <2> QED
    BY <2>1, <2>2
<1> HIDE DEF f
<1>3. f \in Seq(0..Most) /\ Len(f) = Len(delivered)
  BY <1>1, <1>2, ListIsSeq
<1> QED
  BY <1>3 DEF f

(* Two sequences are as long as each other if they have the same domain.   *)
LEMMA SameLength ==
    ASSUME NEW S, NEW T, NEW s \in Seq(S), NEW t \in Seq(T), DOMAIN s = DOMAIN t
    PROVE  Len(s) = Len(t)
BY LenProperties

(* A step that relabels the units it has, or none, leaves them as many.    *)
LEMMA SamePlan ==
    ASSUME TypeInv, IInv', UNCHANGED delivered, DOMAIN units' = DOMAIN units
    PROVE  TypedPlan'
<1>1. units \in Seq(Unit) /\ units' \in Seq(Unit)
  BY DEF TypeInv, IInv, Typed
<1> QED
  BY <1>1, SameLength DEF TypeInv, TypedPlan

LEMMA EmptyPlan == ASSUME units' = <<>>, delivered' = <<>> PROVE TypedPlan'
BY DEF TypedPlan

LEMMA AppendPlan == ASSUME TypeInv, units' = Append(units, "pending"), delivered' = Append(delivered, 0)
                    PROVE  TypedPlan'
<1>1. units \in Seq(Unit) /\ "pending" \in Unit /\ 0 \in 0..Most
  BY CountedStays DEF TypeInv, IInv, Typed, Unit
<1>2. Len(Append(units, "pending")) = Len(units) + 1
  BY <1>1, AppendProperties
<1>3. Append(delivered, 0) \in Seq(0..Most) /\ Len(Append(delivered, 0)) = Len(delivered) + 1
  BY <1>1, AppendProperties DEF TypeInv, TypedPlan
<1> QED
  BY <1>2, <1>3 DEF TypeInv, TypedPlan

LEMMA MadePlan == ASSUME IInv', units' = [u \in 1..Planned |-> "pending"], delivered' = [u \in 1..Planned |-> 0]
                  PROVE  TypedPlan'
<1>1. Planned \in Nat /\ 0 \in 0..Most /\ units' \in Seq(Unit)
  BY CountedStays DEF IInv, Typed
<1>2. delivered' \in [1..Planned -> 0..Most]
  BY <1>1
<1>3. delivered' \in Seq(0..Most)
  BY <1>1, <1>2, SeqDef
<1>4. DOMAIN units' = DOMAIN delivered'
  OBVIOUS
<1> QED
  BY <1>1, <1>3, <1>4, SameLength DEF TypedPlan

LEMMA PlanStep == ASSUME TypeInv, IInv', Next PROVE TypedPlan'
<1>1. CASE UNCHANGED delivered /\ DOMAIN units' = DOMAIN units
  BY <1>1, SamePlan
<1>2. CASE units' = <<>> /\ delivered' = <<>>
  BY <1>2, EmptyPlan
<1>3. CASE Plan
  BY <1>3, MadePlan DEF Plan
<1>4. CASE IntegrationThrows
  BY <1>4, AppendPlan DEF IntegrationThrows
<1>5. CASE Verify \/ UnderDelivered
  <2>1. DOMAIN units' = DOMAIN units /\ \E u : delivered' = [delivered EXCEPT ![u] = Counted(delivered[u])]
    BY <1>5 DEF Verify, UnderDelivered
  <2>2. PICK u : delivered' = [delivered EXCEPT ![u] = Counted(delivered[u])]
    BY <2>1
  <2>3. u \in DOMAIN delivered => Counted(delivered[u]) \in 0..Most
    BY CountedStays DEF TypeInv, TypedPlan
  <2>4. delivered' \in Seq(0..Most) /\ Len(delivered') = Len(delivered)
    BY <2>2, <2>3, Delivers DEF TypeInv
  <2>5. units \in Seq(Unit) /\ units' \in Seq(Unit)
    BY DEF TypeInv, IInv, Typed
  <2> QED
    BY <2>1, <2>4, <2>5, SameLength DEF TypeInv, TypedPlan
<1>6. CASE PlanLoop \/ AdvanceToReview \/ ResolverEscalates \/ ReplayEscalates \/ GiveUp \/ AdvanceToMerge \/ Merge
           \/ Stop \/ AcceptRisk \/ ArbitrateMovesHead \/ ReauthorNothing \/ ReauthorFails \/ Integration \/ Docs \/ DocsCutOff
  <2>1. UNCHANGED <<units, delivered>>
    BY <1>6 DEF PlanLoop, AdvanceToReview, ResolverEscalates, ReplayEscalates, GiveUp, AdvanceToMerge, Merge,
       Stop, AcceptRisk, ArbitrateMovesHead, ReauthorNothing, ReauthorFails, Integration, Docs, DocsCutOff
  <2> QED
    BY <1>1, <2>1
<1>7. CASE Dispatch \/ Gate \/ Arbitrate \/ Reauthor
  <2>1. UNCHANGED delivered /\ DOMAIN units' = DOMAIN units
    BY <1>7 DEF Dispatch, Gate, Arbitrate, Reauthor, gateOriginLoopback, allPending
  <2> QED
    BY <1>1, <2>1
<1>8. CASE Review \/ Resume \/ AcceptHead
  <2>1. \/ UNCHANGED <<units, delivered>>
        \/ units' = <<>> /\ delivered' = <<>>
        \/ UNCHANGED delivered /\ DOMAIN units' = DOMAIN units
    BY <1>8 DEF Review, Resume, AcceptHead, Refuse, Redesign, Recode, redesignLoopback, codeLoopback
  <2> QED
    BY <1>1, <1>2, <2>1
<1> QED
  BY <1>3, <1>4, <1>5, <1>6, <1>7, <1>8 DEF Next, Run

(* A head that moved has no evidence, and another the evidence it had.     *)
LEMMA RecordedTypes ==
    ASSUME TypedChecks, NEW moved, Recorded(moved)
    PROVE  /\ gate' \in [Acs -> {"none", "green", "red", "tampered"}]
           /\ blame' \in [Acs -> {"none", "code", "check"}] /\ suite' \in {"none", "ran", "tested"}
BY DEF TypedChecks, Recorded

LEMMA ChecksStep == ASSUME TypeInv, Next PROVE TypedChecks'
<1> USE DEF TypeInv
<1>1. CASE UNCHANGED <<checks, evidence>>
  BY <1>1 DEF TypedChecks, checks, evidence
<1>2. CASE UNCHANGED checks /\ \E moved : Recorded(moved)
  <2>1. UNCHANGED <<checked, rejected, route>>
    BY <1>2 DEF checks
  <2> QED
    BY <1>2, <2>1, RecordedTypes DEF TypedChecks
<1>3. CASE Gate
  <2>1. PICK result \in [checked -> {"green", "red", "tampered"}] :
           gate' = [c \in Acs |-> IF c \in checked THEN result[c] ELSE "none"]
    BY <1>3 DEF Gate
  <2>2. gate' \in [Acs -> {"none", "green", "red", "tampered"}]
    BY <2>1
  <2>3. UNCHANGED <<checked, rejected, route, blame, suite>>
    BY <1>3 DEF Gate, checks
  <2> QED
    BY <2>2, <2>3 DEF TypedChecks
<1>4. CASE Arbitrate
  <2>1. PICK wrong \in SUBSET behavioralStillRed :
           /\ blame' = [c \in Acs |-> IF c \in wrong THEN "check"
                                      ELSE IF c \in behavioralStillRed THEN "code" ELSE "none"]
           /\ \/ UNCHANGED route
              \/ route' = [acs |-> wrong, code |-> wrong # behavioralStillRed,
                           installed |-> FALSE, rejected |-> FALSE]
    BY <1>4 DEF Arbitrate
  <2>2. wrong \subseteq checked
    BY DEF behavioralStillRed
  <2>3. blame' \in [Acs -> {"none", "code", "check"}]
    BY <2>1
  <2>4. route' \in [acs : SUBSET checked, code : BOOLEAN, installed : BOOLEAN, rejected : BOOLEAN]
    <3>1. CASE UNCHANGED route
      BY <3>1 DEF TypedChecks
    <3>2. (wrong # behavioralStillRed) \in BOOLEAN
      OBVIOUS
    <3>3. CASE route' = [acs |-> wrong, code |-> wrong # behavioralStillRed, installed |-> FALSE, rejected |-> FALSE]
      BY <2>2, <3>2, <3>3
    <3> QED
      BY <2>1, <3>1, <3>3
  <2>5. UNCHANGED <<checked, rejected, gate, suite>>
    BY <1>4 DEF Arbitrate
  <2> QED
    BY <2>3, <2>4, <2>5 DEF TypedChecks
<1>5. CASE Reauthor
  <2>1. PICK installed \in SUBSET route.acs :
          /\ rejected' = (rejected \ installed) \cup (route.acs \ installed)
          /\ route' = [route EXCEPT !.installed = @ \/ installed # {},
                                   !.rejected = @ \/ installed # route.acs]
    BY <1>5 DEF Reauthor
  <2>2. route.acs \subseteq checked /\ route.installed \in BOOLEAN /\ route.rejected \in BOOLEAN
    BY DEF TypedChecks
  <2>3. rejected' \subseteq checked
    BY <2>1, <2>2 DEF TypedChecks
  <2>4. route' \in [acs : SUBSET checked, code : BOOLEAN, installed : BOOLEAN, rejected : BOOLEAN]
    BY <2>1, <2>2 DEF TypedChecks
  <2>5. UNCHANGED checked /\ \E moved : Recorded(moved)
    BY <1>5 DEF Reauthor
  <2> QED
    BY <2>3, <2>4, <2>5, RecordedTypes DEF TypedChecks
<1>6. CASE ReauthorFails
  <2>1. UNCHANGED <<checked, route>> /\ rejected' \subseteq rejected /\ \E moved : Recorded(moved)
    BY <1>6 DEF ReauthorFails
  <2> QED
    BY <2>1, RecordedTypes DEF TypedChecks
<1>7. CASE Integration
  BY <1>7 DEF Integration, TypedChecks, checks
<1>8. CASE Docs
  <2>1. CASE carryVerifiedVerdictForward
    <3>1. /\ gate' = [c \in Acs |-> IF c \in checked THEN "green" ELSE "none"]
          /\ blame' = [c \in Acs |-> "none"] /\ UNCHANGED <<suite, checked, rejected, route>>
      BY <1>8, <2>1 DEF Docs, carryVerifiedVerdictForward, checks
    <3> QED
      BY <3>1 DEF TypedChecks
  <2>2. CASE Recorded(ahead)
    BY <1>2, <1>8, <2>2 DEF Docs
  <2> QED
    BY <1>8, <2>1, <2>2 DEF Docs
<1>9. CASE Review
  <2>1. /\ gate' = IF ahead THEN [c \in Acs |-> "none"] ELSE gate
        /\ blame' = IF ahead THEN [c \in Acs |-> "none"] ELSE blame
        /\ suite' = IF ahead THEN "none" ELSE suite
        /\ UNCHANGED <<checked, rejected, route>>
    BY <1>9 DEF Review, checks
  <2> QED
    BY <2>1 DEF TypedChecks
<1>10. CASE Plan \/ Dispatch \/ ArbitrateMovesHead \/ DocsCutOff
  BY <1>2, <1>10 DEF Plan, Dispatch, ArbitrateMovesHead, DocsCutOff
<1>11. CASE PlanLoop \/ Verify \/ UnderDelivered \/ ReauthorNothing \/ IntegrationThrows \/ AdvanceToReview
            \/ ResolverEscalates \/ ReplayEscalates \/ GiveUp \/ AdvanceToMerge \/ Merge \/ Stop \/ Resume \/ AcceptRisk \/ AcceptHead
  BY <1>1, <1>11 DEF PlanLoop, Verify, UnderDelivered, ReauthorNothing, IntegrationThrows, AdvanceToReview,
     ResolverEscalates, ReplayEscalates, GiveUp, AdvanceToMerge, Merge, Stop, Resume, AcceptRisk, AcceptHead
<1> QED
  BY <1>3, <1>4, <1>5, <1>6, <1>7, <1>8, <1>9, <1>10, <1>11 DEF Next, Run

LEMMA DoneStep == ASSUME TypeInv, Next PROVE done' \in SUBSET Steps /\ needsDocs' \in BOOLEAN
<1>1. done \subseteq Steps /\ needsDocs \in BOOLEAN
  BY DEF TypeInv, TypedCounts
<1>2. needsDocs' \in {needsDocs, TRUE} /\ done' \subseteq done \cup Steps
  <2>1. CASE Run
    <3>1. CASE Review
      BY <3>1 DEF Review, Refuse, Redesign, Recode, redesignLoopback, codeLoopback, Steps
    <3>2. CASE Gate \/ Arbitrate \/ ArbitrateMovesHead \/ ReauthorNothing \/ Reauthor \/ ReauthorFails
      BY <3>2 DEF Gate, Arbitrate, ArbitrateMovesHead, ReauthorNothing, Reauthor, ReauthorFails, gateOriginLoopback, Steps
    <3>3. CASE Integration \/ IntegrationThrows \/ Docs \/ DocsCutOff
      BY <3>3 DEF Integration, IntegrationThrows, Docs, DocsCutOff, Steps
    <3>4. CASE PlanLoop \/ Plan \/ Dispatch \/ Verify \/ UnderDelivered \/ AdvanceToReview \/ ResolverEscalates
               \/ ReplayEscalates \/ GiveUp \/ AdvanceToMerge \/ Merge
      BY <3>4 DEF PlanLoop, Plan, Dispatch, Verify, UnderDelivered, AdvanceToReview, ResolverEscalates,
         ReplayEscalates, GiveUp, AdvanceToMerge, Merge
    <3> QED
      BY <2>1, <3>1, <3>2, <3>3, <3>4 DEF Run
  <2>2. CASE Stop \/ Resume \/ AcceptRisk \/ AcceptHead
    BY <2>2 DEF Stop, Resume, AcceptRisk, AcceptHead, Refuse, Redesign, redesignLoopback, codeLoopback
  <2> QED
    BY <2>1, <2>2 DEF Next
<1> QED
  BY <1>1, <1>2

(* A counter of attempts stays, goes one up, or begins anew.               *)
LEMMA TriesStep ==
    ASSUME TypeInv, Next
    PROVE  gateTries' \in 0..Most /\ reauthorTries' \in 0..Most /\ suiteTries' \in 0..Most
<1>1. /\ gateTries' \in {gateTries, Counted(gateTries), 0}
      /\ reauthorTries' \in {reauthorTries, Counted(reauthorTries)}
      /\ suiteTries' \in {suiteTries, Counted(suiteTries)}
  <2>1. CASE Review \/ Resume \/ AcceptHead
    BY <2>1 DEF Review, Resume, AcceptHead, Refuse, Redesign, Recode, redesignLoopback, codeLoopback
  <2>2. CASE Gate \/ Arbitrate \/ ArbitrateMovesHead \/ ReauthorNothing \/ Reauthor \/ ReauthorFails
    BY <2>2 DEF Gate, Arbitrate, ArbitrateMovesHead, ReauthorNothing, Reauthor, ReauthorFails, attempts
  <2>3. CASE Integration \/ IntegrationThrows \/ Docs \/ DocsCutOff \/ GiveUp
    BY <2>3 DEF Integration, IntegrationThrows, Docs, DocsCutOff, GiveUp, attempts
  <2>4. CASE PlanLoop \/ Plan \/ Dispatch \/ Verify \/ UnderDelivered \/ AdvanceToReview \/ ResolverEscalates
             \/ ReplayEscalates \/ AdvanceToMerge \/ Merge \/ Stop \/ AcceptRisk
    BY <2>4 DEF PlanLoop, Plan, Dispatch, Verify, UnderDelivered, AdvanceToReview, ResolverEscalates,
       ReplayEscalates, AdvanceToMerge, Merge, Stop, AcceptRisk, attempts
  <2> QED
    BY <2>1, <2>2, <2>3, <2>4 DEF Next, Run
<1> QED
  BY <1>1, CountedStays DEF TypeInv, TypedCounts

LEMMA LoopStep == ASSUME TypeInv, Next PROVE lastLoop' \in Loops
<1>1. lastLoop \in Loops /\ open \in Shapes \cup {Clear}
  BY DEF TypeInv, TypedCounts, IInv, Typed
<1>2. \A n \in {"none", "gate", "under", "plan", "operator"} : Origin(n) \in Loops
  BY DEF Loops
<1>3. \A found \in Shapes \cup {Clear} : found # Clear => found \in Loops
  BY DEF Loops
<1>4. CASE Review \/ Resume
  <2>1. open' \in Shapes \cup {Clear}
    BY <1>1, <1>4 DEF Review, Resume
  <2>2. CASE Review
    BY <1>1, <1>3, <2>1, <2>2 DEF Review, Refuse, Redesign, Recode, Repair, redesignLoopback, codeLoopback
  <2>3. CASE Resume
    BY <1>1, <1>3, <2>1, <2>3 DEF Resume, ReviewIsOpen, Refuse, Redesign, Repair, redesignLoopback
  <2> QED
    BY <1>4, <2>2, <2>3
<1>5. CASE AcceptHead
  BY <1>1, <1>2, <1>5 DEF AcceptHead, codeLoopback
<1>6. CASE PlanLoop \/ UnderDelivered \/ Gate \/ Arbitrate \/ Reauthor
  BY <1>1, <1>2, <1>6 DEF PlanLoop, UnderDelivered, Gate, Arbitrate, Reauthor, gateOriginLoopback
<1>7. CASE \/ Plan \/ Dispatch \/ Verify \/ ArbitrateMovesHead \/ ReauthorNothing \/ ReauthorFails \/ Integration
           \/ IntegrationThrows \/ Docs \/ DocsCutOff \/ AdvanceToReview \/ ResolverEscalates \/ ReplayEscalates
           \/ GiveUp \/ AdvanceToMerge \/ Merge \/ Stop \/ AcceptRisk
  <2>1. UNCHANGED lastLoop
    BY <1>7 DEF Plan, Dispatch, Verify, ArbitrateMovesHead, ReauthorNothing, ReauthorFails, Integration,
       IntegrationThrows, Docs, DocsCutOff, AdvanceToReview, ResolverEscalates, ReplayEscalates, GiveUp,
       AdvanceToMerge, Merge, Stop, AcceptRisk, review
  <2> QED
    BY <1>1, <2>1
<1> QED
  BY <1>4, <1>5, <1>6, <1>7 DEF Next, Run

(* Only a resume counts a process, and only an accepted head a move.       *)
LEMMA ProcessStep ==
    ASSUME TypeInv, Next
    PROVE  runs' \in 1..MaxRuns /\ moves' \in 0..MaxMoves /\ unseen' \in BOOLEAN /\ upset' \in BOOLEAN
<1>1. runs \in 1..MaxRuns /\ moves \in 0..MaxMoves /\ unseen \in BOOLEAN /\ upset \in BOOLEAN /\ ahead \in BOOLEAN
  BY DEF TypeInv, TypedCounts, IInv, Typed
<1>2. /\ UNCHANGED runs \/ (runs < MaxRuns /\ runs' = runs + 1)
      /\ UNCHANGED moves \/ (moves < MaxMoves /\ moves' = moves + 1)
  <2>1. CASE Resume \/ AcceptRisk \/ AcceptHead
    BY <2>1 DEF Resume, AcceptRisk, AcceptHead, Resumes
  <2>2. CASE Review \/ Merge \/ Stop
    BY <2>2 DEF Review, Merge, Stop
  <2>3. CASE Dispatch \/ ReauthorFails \/ DocsCutOff \/ UnderDelivered \/ Gate \/ Arbitrate \/ Reauthor
    BY <2>3 DEF Dispatch, ReauthorFails, DocsCutOff, UnderDelivered, Gate, Arbitrate, Reauthor, Running, Escalated, process
  <2>4. CASE PlanLoop \/ Plan \/ Verify \/ ArbitrateMovesHead \/ ReauthorNothing \/ Integration \/ IntegrationThrows
             \/ Docs \/ AdvanceToReview \/ ResolverEscalates \/ ReplayEscalates \/ GiveUp \/ AdvanceToMerge
    BY <2>4 DEF PlanLoop, Plan, Verify, ArbitrateMovesHead, ReauthorNothing, Integration, IntegrationThrows,
       Docs, AdvanceToReview, ResolverEscalates, ReplayEscalates, GiveUp, AdvanceToMerge, Running, Escalated, process
  <2> QED
    BY <2>1, <2>2, <2>3, <2>4 DEF Next, Run
<1>3. /\ UNCHANGED unseen \/ unseen' \in BOOLEAN
      /\ UNCHANGED upset \/ upset' \in BOOLEAN
  <2>1. CASE Dispatch \/ Gate \/ Plan \/ AcceptHead
    BY <2>1 DEF Dispatch, Gate, Plan, AcceptHead
  <2>2. CASE ArbitrateMovesHead \/ Docs \/ DocsCutOff \/ Review \/ ReauthorFails
    BY <1>1, <2>2 DEF ArbitrateMovesHead, Docs, DocsCutOff, Review, ReauthorFails
  <2>3. CASE \/ PlanLoop \/ Verify \/ UnderDelivered \/ Arbitrate \/ ReauthorNothing \/ Reauthor \/ Integration
             \/ IntegrationThrows \/ AdvanceToReview \/ ResolverEscalates \/ ReplayEscalates \/ GiveUp
             \/ AdvanceToMerge \/ Merge \/ Stop \/ Resume \/ AcceptRisk
    BY <2>3 DEF PlanLoop, Verify, UnderDelivered, Arbitrate, ReauthorNothing, Reauthor, Integration,
       IntegrationThrows, AdvanceToReview, ResolverEscalates, ReplayEscalates, GiveUp, AdvanceToMerge, Merge,
       Stop, Resume, AcceptRisk, observers
  <2> QED
    BY <2>1, <2>2, <2>3 DEF Next, Run
<1> QED
  BY <1>1, <1>2, <1>3

LEMMA TypeStep == TypeInv /\ [Next]_vars => TypeInv'
<1> SUFFICES ASSUME TypeInv, [Next]_vars PROVE TypeInv'
  OBVIOUS
<1>1. IInv'
  BY NextInv DEF TypeInv
<1>2. CASE Next
  BY <1>1, <1>2, PlanStep, ChecksStep, DoneStep, TriesStep, LoopStep, ProcessStep DEF TypeInv, TypedCounts
<1>3. CASE UNCHANGED vars
  BY <1>1, <1>3 DEF vars, TypeInv, TypedPlan, TypedChecks, TypedCounts
<1> QED
  BY <1>2, <1>3

LEMMA InitTypes == Init => TypeInv
<1> SUFFICES ASSUME Init PROVE TypeInv
  OBVIOUS
<1>1. IInv
  BY InitInv
<1>2. TypedPlan
  BY DEF Init, TypedPlan
<1>3. TypedChecks
  BY DEF Init, TypedChecks, NoRoute
<1>4. TypedCounts
  <2>1. done \in SUBSET Steps /\ needsDocs \in BOOLEAN /\ lastLoop \in Loops /\ unseen \in BOOLEAN /\ upset \in BOOLEAN
    BY DEF Init, Loops
  <2>2. gateTries = 0 /\ reauthorTries = 0 /\ suiteTries = 0 /\ runs = 1 /\ moves = 0
    BY DEF Init
  <2>3. 0 \in 0..Most /\ 1 \in 1..MaxRuns /\ 0 \in 0..MaxMoves
    BY CountedStays
  <2> QED
    BY <2>1, <2>2, <2>3 DEF TypedCounts
<1> QED
  BY <1>1, <1>2, <1>3, <1>4 DEF TypeInv

(* Every variable of the loop keeps its type: there are as many counters   *)
(* of attempts as units, checks are only routed and rejected where there   *)
(* are checks, and no loop leads beyond its bound.                         *)
THEOREM LoopTypes == Spec => []TypeOK
<1>1. TypeInv => TypeOK
  BY DEF TypeInv, TypedPlan, TypedChecks, TypedCounts, IInv, Typed, TypeOK
<1> QED
  BY <1>1, InitTypes, TypeStep, PTL DEF Spec
=============================================================================
