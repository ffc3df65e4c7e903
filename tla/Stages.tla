------------------------------- MODULE Stages -------------------------------
(***************************************************************************)
(* What the control loop promises of a ticket, whatever its steps, their   *)
(* journal and their retries do: it goes from design to merge one stage at *)
(* a time; it leaves implement with its work done and vouched for, and     *)
(* review with the approval of the code it has; every way back costs a     *)
(* repair, of which there are RepairLimit, unless it is the operator's;    *)
(* and once it waits, only the operator moves it.                          *)
(*                                                                         *)
(* ControlLoop implements this specification (ControlLoop!StageContract).  *)
(***************************************************************************)
EXTENDS Naturals

CONSTANT RepairLimit    \* REVIEW_REPAIR_LIMIT

VARIABLES
    stage, status,  \* of the ticket
    running,        \* does a process drive it?
    repairs,        \* ways back taken
    owed,           \* is there work of the plan not done, or to be done again?
    vouched,        \* is there evidence for the code at hand, or is it the operator's?
    approved        \* did the last review see the code at hand and leave nothing open?

vars == <<stage, status, running, repairs, owed, vouched, approved>>

Init ==
    /\ stage = "design" /\ status = "active" /\ running = TRUE
    /\ repairs = 0
    /\ owed = FALSE /\ vouched = FALSE /\ approved = FALSE

Active == running /\ status = "active"

(* Any step of design or implement: it may do work or find that some has   *)
(* to be done again, gain evidence or lose it, wait for the operator or be *)
(* cut off.  It never approves.                                            *)
Work ==
    /\ Active /\ stage \in {"design", "implement"}
    /\ owed' \in BOOLEAN /\ vouched' \in BOOLEAN /\ ~approved'
    /\ \/ status' = "waiting" /\ ~running'
       \/ status' = "active" /\ running' \in BOOLEAN
    /\ UNCHANGED <<stage, repairs>>

(* The review of the plan sends it back to its author.                     *)
Replan ==
    /\ Active /\ stage = "design"
    /\ repairs < RepairLimit /\ repairs' = repairs + 1
    /\ UNCHANGED <<stage, status, running, owed, vouched, approved>>

Start ==
    /\ Active /\ stage = "design" /\ stage' = "implement"
    /\ owed' /\ vouched' \in BOOLEAN /\ ~approved'
    /\ UNCHANGED <<status, running, repairs>>

Submit ==
    /\ Active /\ stage = "implement" /\ stage' = "review"
    /\ ~owed /\ vouched
    /\ UNCHANGED <<status, running, repairs, owed, vouched, approved>>

Approve ==
    /\ Active /\ stage = "review" /\ approved'
    /\ UNCHANGED <<stage, status, running, repairs, owed, vouched>>

(* A review with findings waits for the operator, or sends the ticket back *)
(* to code that has to be written again, or to a plan without units.       *)
Refuse ==
    /\ status' = "waiting" /\ ~running' /\ ~approved'
    /\ UNCHANGED <<stage, repairs, owed, vouched>>

Back ==
    /\ repairs < RepairLimit /\ repairs' = repairs + 1
    /\ \/ stage' = "implement" /\ owed'
       \/ stage' = "design" /\ ~owed'
    /\ status' = "active" /\ running'
    /\ ~approved' /\ UNCHANGED vouched

Object == Active /\ stage = "review" /\ (Refuse \/ Back)

Accept ==
    /\ Active /\ stage = "review" /\ stage' = "merge"
    /\ approved
    /\ UNCHANGED <<status, running, repairs, owed, vouched, approved>>

Deliver ==
    /\ Active /\ stage = "merge"
    /\ status' = "approval" /\ ~running'
    /\ UNCHANGED <<stage, repairs, owed, vouched, approved>>

(* Giving up, or a process that ends between two steps.                    *)
Halt ==
    /\ running /\ ~running'
    /\ status' \in {status, "waiting"} /\ (status' # status => status = "active")
    /\ UNCHANGED <<stage, repairs, owed, vouched, approved>>

(* The operator: goes on, has a refused review judged again, answers for   *)
(* its findings, or puts code of their own on the branch.                  *)
Resumable == ~running /\ status # "approval"

Resume ==
    /\ Resumable
    /\ status' = "active" /\ running'
    /\ UNCHANGED <<stage, repairs, owed, vouched, approved>>

JudgeAgain == Resumable /\ stage = "review" /\ ~approved /\ (Refuse \/ Back)

AcceptRisk ==
    /\ Resumable /\ stage = "review"
    /\ status' = "active" /\ running' /\ approved'
    /\ UNCHANGED <<stage, repairs, owed, vouched>>

AcceptHead ==
    /\ Resumable
    /\ status' = "active" /\ running' /\ vouched' /\ ~approved'
    /\ \/ /\ stage \in {"review", "merge"} /\ stage' = "implement" /\ owed'
          /\ repairs' \in {repairs, repairs + 1} /\ repairs' <= RepairLimit
       \/ stage \in {"design", "implement"} /\ UNCHANGED <<stage, repairs, owed>>

Next ==
    \/ Work \/ Replan \/ Start \/ Submit \/ Approve \/ Object \/ Accept \/ Deliver
    \/ Halt \/ Resume \/ JudgeAgain \/ AcceptRisk \/ AcceptHead

Spec == Init /\ [][Next]_vars

----------------------------------------------------------------------------
(* What follows: code that is merged is vouched for and approved as it is, *)
(* and no run of a ticket takes more than RepairLimit ways back.           *)
Contract ==
    /\ repairs \in 0..RepairLimit
    /\ stage \in {"review", "merge"} => vouched
    /\ stage = "merge" => approved
    /\ approved => stage \in {"review", "merge"}
=============================================================================
