------------------------- MODULE RunDatabaseProofs -------------------------
(***************************************************************************)
(* Theorems about what the processes of a ticket keep in its run folder:   *)
(* the lock that lets one of them in, the ledger of review findings and    *)
(* the step journal.  The three modules share no variable; each part below *)
(* has an inductive invariant of its own (LockInv, ReviewInv and IInv),    *)
(* and its theorems hold for every value of that module's constants.       *)
(***************************************************************************)
EXTENDS StepJournal, RunLock, ReviewRounds, SequenceTheorems, TLAPS


----------------------------------------------------------------------------
(* The run lock, for any set of processes: as long as acquisitions do not  *)
(* overlap, the file names its one live holder.  The invariant adds what   *)
(* each place inside acquireRunLock knows about the file.                  *)

Owning(p) == place[p] \in {"holding", "removing"}
Inside(p) == place[p] \in Acquiring

(* At most one process is inside acquireRunLock.                           *)
OneInside == \A p, q \in Procs : Inside(p) /\ Inside(q) => p = q

(* A holder's pid is in the file until the holder itself removes it.       *)
OwnerNamed == \A p \in Procs : Owning(p) => file = [by |-> p, full |-> TRUE]

(* Between the create and the write the empty file is the creator's.       *)
WriterNamed == \A p \in Procs : place[p] = "writing" => file = [by |-> p, full |-> FALSE]

(* Who judges a pid while there is an owner judges the owner ...           *)
JudgesOwner ==
    \A p, q \in Procs : place[p] = "judging" /\ Owning(q) => read[p] = q

(* ... and who is about to unlink found no owner.                          *)
UnlinksStale ==
    \A p, q \in Procs : place[p] = "unlinking" => ~Owning(q)

SerialInv ==
    /\ OneInside
    /\ OwnerNamed
    /\ WriterNamed
    /\ JudgesOwner
    /\ UnlinksStale

LockInv == LockTypeOK /\ (~overlapped => SerialInv)

----------------------------------------------------------------------------
LEMMA LockStarts == LockInit => LockInv
<1> SUFFICES ASSUME LockInit PROVE LockInv
    OBVIOUS
<1>1. LockTypeOK
      BY DEF LockInit, LockTypeOK, Places, NoFile
<1>2. \A p \in Procs : place[p] = "idle"
      BY DEF LockInit
<1>3. SerialInv
      BY <1>2 DEF SerialInv, OneInside, OwnerNamed, WriterNamed, JudgesOwner, UnlinksStale,
                  Owning, Inside, Acquiring
<1> QED BY <1>1, <1>3 DEF LockInv

LEMMA LockTypeStep == LockTypeOK /\ [LockNext]_lockVars => LockTypeOK'
<1> SUFFICES ASSUME LockTypeOK, [LockNext]_lockVars PROVE LockTypeOK'
    OBVIOUS
<1> USE DEF LockTypeOK, Goto, Places, Acquiring, NoFile
<1>1. CASE UNCHANGED lockVars
      BY <1>1 DEF lockVars
<1>2. ASSUME NEW p \in Procs, Begin(p) PROVE LockTypeOK'
      BY <1>2 DEF Begin
<1>3. ASSUME NEW p \in Procs, Acquire(p) PROVE LockTypeOK'
  <2>1. CASE Create(p)
    <3>1. file' \in [by : Procs \cup {NoProc}, full : BOOLEAN]
      <4>1. file' = [by |-> p, full |-> FALSE] \/ file' = file
            BY <2>1 DEF Create
      <4>2. [by |-> p, full |-> FALSE] \in [by : Procs \cup {NoProc}, full : BOOLEAN]
            OBVIOUS
      <4>3. file \in [by : Procs \cup {NoProc}, full : BOOLEAN]
            OBVIOUS
      <4> HIDE DEF LockTypeOK
      <4> QED BY <4>1, <4>2, <4>3
    <3>2. place' \in [Procs -> Places]
      <4>1. place' = [place EXCEPT ![p] = "writing"] \/ place' = [place EXCEPT ![p] = "collided"]
            BY <2>1 DEF Create
      <4> QED BY <4>1
    <3> QED BY <2>1, <3>1, <3>2 DEF Create
  <2>2. CASE WritePid(p)  BY <2>2 DEF WritePid
  <2>3. CASE ReadPid(p)   BY <2>3 DEF ReadPid, PidIn
  <2>4. CASE Judge(p)     BY <2>4 DEF Judge
  <2>5. CASE Unlink(p)    BY <2>5 DEF Unlink
  <2> QED BY <1>3, <2>1, <2>2, <2>3, <2>4, <2>5 DEF Acquire
<1>4. ASSUME NEW p \in Procs, Release(p) PROVE LockTypeOK'
  <2>1. CASE ReleaseRead(p)    BY <2>1 DEF ReleaseRead
  <2>2. CASE ReleaseUnlink(p)  BY <2>2 DEF ReleaseUnlink
  <2> QED BY <1>4, <2>1, <2>2 DEF Release
<1>5. ASSUME NEW p \in Procs, Die(p) PROVE LockTypeOK'
      BY <1>5 DEF Die
<1> QED BY <1>1, <1>2, <1>3, <1>4, <1>5 DEF LockNext

(* Once two acquisitions have overlapped the observer stays set.           *)
LEMMA OverlapSticks == LockTypeOK /\ [LockNext]_lockVars /\ ~overlapped' => ~overlapped
BY DEF LockTypeOK, LockNext, lockVars, Begin, Acquire, Create, WritePid, ReadPid, Judge, Unlink,
       Release, ReleaseRead, ReleaseUnlink, Die

LEMMA SerialStep ==
    LockTypeOK /\ SerialInv /\ [LockNext]_lockVars /\ ~overlapped' => SerialInv'
<1> SUFFICES ASSUME LockTypeOK, SerialInv, [LockNext]_lockVars, ~overlapped' PROVE SerialInv'
    OBVIOUS
<1> USE ProcsAssumption
        DEF LockTypeOK, SerialInv, OneInside, OwnerNamed, WriterNamed, JudgesOwner, UnlinksStale,
            Owning, Inside, Goto, Acquiring, Places, NoFile
<1>1. CASE UNCHANGED lockVars
      BY <1>1 DEF lockVars
<1>2. ASSUME NEW p \in Procs, Begin(p) PROVE SerialInv'
  <2>1. \A q \in Procs : ~Inside(q)
        BY <1>2 DEF Begin
  <2> QED BY <1>2, <2>1 DEF Begin
<1>3. ASSUME NEW p \in Procs, Create(p) PROVE SerialInv'
  <2>1. CASE file = NoFile
    <3>1. \A q \in Procs : ~Owning(q)
          BY <2>1
    <3> QED BY <1>3, <2>1, <3>1 DEF Create
  <2>2. CASE file # NoFile
        BY <1>3, <2>2 DEF Create
  <2> QED BY <2>1, <2>2
<1>4. ASSUME NEW p \in Procs, WritePid(p) PROVE SerialInv'
  <2>1. file = [by |-> p, full |-> FALSE]
        BY <1>4 DEF WritePid
  <2>2. \A q \in Procs : ~Owning(q)
        BY <2>1
  <2>3. file' = [by |-> p, full |-> TRUE]
        BY <1>4, <2>1 DEF WritePid
  <2> QED BY <1>4, <2>2, <2>3 DEF WritePid
<1>5. ASSUME NEW p \in Procs, ReadPid(p) PROVE SerialInv'
  <2>1. \A q \in Procs : Owning(q) => PidIn(file) = q /\ q # NoProc
        BY DEF PidIn
  <2> QED BY <1>5, <2>1 DEF ReadPid
<1>6. ASSUME NEW p \in Procs, Judge(p) PROVE SerialInv'
  <2>1. \A q \in Procs : Owning(q) => read[p] = q /\ Alive(q)
        BY <1>6 DEF Judge, Alive
  <2> QED BY <1>6, <2>1 DEF Judge
<1>7. ASSUME NEW p \in Procs, Unlink(p) PROVE SerialInv'
      BY <1>7 DEF Unlink
<1>8. ASSUME NEW p \in Procs, ReleaseRead(p) PROVE SerialInv'
      BY <1>8 DEF ReleaseRead, PidIn
<1>9. ASSUME NEW p \in Procs, ReleaseUnlink(p) PROVE SerialInv'
  <2>1. \A q \in Procs : Owning(q) => q = p
        BY <1>9 DEF ReleaseUnlink
  <2>2. \A q \in Procs : place[q] # "writing"
        BY <1>9 DEF ReleaseUnlink
  <2> QED BY <1>9, <2>1, <2>2 DEF ReleaseUnlink
<1>10. ASSUME NEW p \in Procs, Die(p) PROVE SerialInv'
      BY <1>10 DEF Die
<1> QED BY <1>1, <1>2, <1>3, <1>4, <1>5, <1>6, <1>7, <1>8, <1>9, <1>10
        DEF LockNext, Acquire, Release

(* Types hold always, and while acquisitions are serial what each place in *)
(* acquireRunLock knows of the file stays true, whoever dies there.        *)
THEOREM LockInductive == LockSpec => []LockInv
<1>1. LockInv /\ [LockNext]_lockVars => LockInv'
      BY LockTypeStep, OverlapSticks, SerialStep DEF LockInv
<1> QED BY LockStarts, <1>1, PTL DEF LockSpec

(* Every process, place and pid the lock protocol can reach is one the     *)
(* code knows.                                                             *)
THEOREM LockTypes == LockSpec => []LockTypeOK
<1>1. LockInv => LockTypeOK
      BY DEF LockInv
<1> QED BY LockInductive, <1>1, PTL

(* However many processes there are and whatever they crash in, serial     *)
(* acquisitions leave at most one holder.                                  *)
THEOREM OneHolder == LockSpec => []SerialMutualExclusion
<1>1. LockInv => SerialMutualExclusion
      BY DEF LockInv, SerialInv, OwnerNamed, Owning, SerialMutualExclusion, MutualExclusion, Holding
<1> QED BY LockInductive, <1>1, PTL

(* ... and nobody but the holder ever removes the holder's file.           *)
THEOREM HolderKeepsFile == LockSpec => []SerialNoClobber
<1>1. LockInv => SerialNoClobber
      BY DEF LockInv, SerialInv, OwnerNamed, Owning, SerialNoClobber, Holding
<1> QED BY LockInductive, <1>1, PTL

----------------------------------------------------------------------------
(* The ledger of findings, for every plan, filing and checkpoint.  The     *)
(* debt of a ticket is what is owed and not settled.  Nothing in it is     *)
(* ever closed, so what the merge stage finds neither required nor stale   *)
(* is paid; and an open finding keeps a unit pending until it is answered. *)

Debt == owed \ settled
OpenDebt == {i \in Debt : ledger[i].status = "open"}
Covers(u, i) == ledger[i].unit = u \/ (ledger[i].unit = NoUnit /\ u = 1)

(* Where the ticket is: the plan has its units unless it is being made     *)
(* anew, only a pending review that began its contract is asked, and only  *)
(* the merge stage has a row for the forge.                                *)
Course ==
    /\ stage \in {"design", "implement", "review", "merge"} /\ status \in {"active", "waiting"}
    /\ pc \in {"idle", "reviewing", "probing", "down"} /\ forge \in {"none", "pending", "sent"}
    /\ IF stage = "design" THEN units = <<>> ELSE units \in [1..Planned -> {"pending", "verified"}]
    /\ repairs \in Nat /\ runs \in 1..MaxRuns /\ repairs <= RepairLimit + runs
    /\ probes \in 0..ProbeLimit /\ ran = probes
    /\ commits \in Nat /\ recorded \in 1..commits /\ baseline \in 1..commits /\ head \in 1..commits
    /\ round \in [id : Nat, head : Nat]
    /\ pc \in {"reviewing", "probing"} => stage = "review" /\ step.status = "pending" /\ contract.started
    /\ forge # "none" => stage = "merge"
    /\ stage \in {"design", "implement"} => step.status = "pending"

(* What is owed are the findings that the contract does not call           *)
(* superseded; before it starts, those of the last complete round, or all. *)
LedgerInv ==
    /\ ledger \in Seq(FindingRow) /\ \A i \in DOMAIN ledger : ledger[i].round <= round.id
    /\ contract.superseded \subseteq DOMAIN ledger
    /\ owed \subseteq DOMAIN ledger /\ settled \subseteq owed
    /\ contract.started => owed = DOMAIN ledger \ contract.superseded
    /\ ~contract.started => owed = required /\ \A i \in DOMAIN ledger : ledger[i].status = "open"
    /\ \A i \in Debt : ledger[i].status \in {"open", "deferred"}
    /\ \A i \in DOMAIN ledger : ledger[i].status = "deferred" => ledger[i].claim.severity = "major"

(* Each open finding of the debt has an answer, or a unit that will be     *)
(* coded again and answers for it.                                         *)
AnswerInv ==
    /\ step.status = "pending" =>
          \A i \in DOMAIN ledger : ledger[i].status = "deferred" => acceptedAt(i, resumedAt)
    /\ stage = "design" => \A i \in DOMAIN ledger : ledger[i].unit = NoUnit
    /\ stage = "implement" => \A i \in OpenDebt :
          i \in answered \/ \E u \in 1..Planned : units[u] = "pending" /\ Covers(u, i)
    /\ stage = "review" /\ step.status = "pending" /\ repairs > 0 => OpenDebt \subseteq answered

ReviewInv == Course /\ LedgerInv /\ AnswerInv /\ ShippedIsAnswered

----------------------------------------------------------------------------
LEMMA InvTypes == ReviewInv => ReviewTypeOK
<1> SUFFICES ASSUME ReviewInv PROVE ReviewTypeOK
    OBVIOUS
<1>1. units \in Seq({"pending", "verified"}) /\ Len(units) \in {0, Planned}
  <2>1. CASE stage = "design"
    BY <2>1 DEF ReviewInv, Course
  <2>2. CASE stage # "design"
    BY <2>2, ReviewAssumption DEF ReviewInv, Course
  <2> QED
    BY <2>1, <2>2
<1>2. repairs \in 0..(RepairLimit + MaxRuns)
    BY ReviewAssumption DEF ReviewInv, Course
<1>3. contract.superseded \cup owed \subseteq DOMAIN ledger /\ settled \subseteq owed
    BY DEF ReviewInv, LedgerInv
<1>4. {recorded, baseline, head} \subseteq 1..commits
    BY DEF ReviewInv, Course
<1> QED
    BY <1>1, <1>2, <1>3, <1>4 DEF ReviewInv, Course, LedgerInv, ReviewTypeOK

(* An open finding is owed if and only if it is required.                  *)
LEMMA RequiredOwed ==
    ASSUME LedgerInv
    PROVE  /\ required \subseteq owed /\ required \subseteq DOMAIN ledger
           /\ \A i \in required : ledger[i].status = "open"
           /\ \A i \in owed : ledger[i].status = "open" => i \in required
<1>1. CASE contract.started
    BY <1>1 DEF LedgerInv, required, requiredCodeFindings, At
<1>2. CASE ~contract.started
    BY <1>2 DEF LedgerInv, required, requiredCodeFindings, At
<1> QED
    BY <1>1, <1>2

LEMMA Begun ==
    ASSUME LedgerInv, beginReviewContract
    PROVE  /\ contract'.started /\ contract'.superseded \subseteq DOMAIN ledger
           /\ owed = DOMAIN ledger \ contract'.superseded
<1>1. CASE contract.started
    BY <1>1 DEF beginReviewContract, LedgerInv
<1>2. CASE ~contract.started
  <2>1. contract' = [superseded |-> At(ledger, "open") \ required, started |-> TRUE]
    BY <1>2 DEF beginReviewContract
  <2>2. contract'.started /\ contract'.superseded = At(ledger, "open") \ required
    BY <2>1
  <2>3. At(ledger, "open") = DOMAIN ledger
    BY <1>2 DEF LedgerInv, At
  <2> QED
    BY <1>2, <2>2, <2>3, RequiredOwed DEF LedgerInv
<1> QED
    BY <1>1, <1>2

LEMMA StartInv == ReviewInit => ReviewInv
<1> SUFFICES ASSUME ReviewInit PROVE ReviewInv
    OBVIOUS
<1>1. /\ contract = Unstarted /\ risks = {} /\ repairs = 0 /\ probes = 0 /\ forge = "none" /\ ran = 0
      /\ recorded = 1 /\ baseline = 1 /\ head = 1 /\ commits = 1 /\ runs = 1 /\ settled = {}
      /\ units = [u \in 1..Planned |-> "pending"]
    BY DEF ReviewInit
<1>2. contract.superseded = {} /\ ~contract.started
    BY <1>1 DEF Unstarted
<1>3. PICK n \in Nat, k \in Nat : round = [id |-> n, head |-> k]
    BY ReviewAssumption DEF ReviewInit
<1>4. round \in [id : Nat, head : Nat] /\ round.id = n
    BY <1>3
<1>5. /\ ledger \in Seq(FindingRow)
      /\ \A i \in DOMAIN ledger : ledger[i].round <= round.id /\ ledger[i].status = "open"
  <2>1. CASE ledger = <<>>
    BY <2>1
  <2>2. CASE \E old \in Legacy : ledger = old.findings /\ round = [id |-> old.round, head |-> 1]
    <3>1. PICK old \in Legacy : ledger = old.findings /\ round = [id |-> old.round, head |-> 1]
      BY <2>2
    <3>2. old.findings \in Seq(FindingRow) /\ round.id = old.round
      BY <3>1, ReviewAssumption
    <3> QED
      BY <3>1, <3>2, ReviewAssumption
  <2> QED
    BY <2>1, <2>2 DEF ReviewInit
<1>6. Course
  <2>1. stage = "review" => pc = "down"
    BY DEF ReviewInit
  <2>2. stage = "implement" => step.status = "pending" /\ pc = "idle"
    BY DEF ReviewInit, Pending
  <2>3. stage \in {"implement", "review"} /\ status \in {"active", "waiting"}
    BY DEF ReviewInit
  <2> QED
    BY <1>1, <1>4, <2>1, <2>2, <2>3, ReviewAssumption DEF Course
<1>7. owed = required
  <2>1. At(ledger, "open") = DOMAIN ledger
    BY <1>5 DEF At
  <2>2. CASE ledger = <<>> /\ owed = {}
    BY <1>2, <2>1, <2>2 DEF required, requiredCodeFindings
  <2>3. CASE \E old \in Legacy :
               /\ ledger = old.findings /\ round = [id |-> old.round, head |-> 1]
               /\ step = IF old.succeeded THEN [Pending EXCEPT !.status = "succeeded", !.count = old.count]
                         ELSE Pending
               /\ owed = IF old.succeeded /\ old.count = Cardinality(OfRound(old.round))
                         THEN OfRound(old.round) ELSE DOMAIN ledger
    <3>1. PICK old \in Legacy :
               /\ ledger = old.findings /\ round = [id |-> old.round, head |-> 1]
               /\ step = IF old.succeeded THEN [Pending EXCEPT !.status = "succeeded", !.count = old.count]
                         ELSE Pending
               /\ owed = IF old.succeeded /\ old.count = Cardinality(OfRound(old.round))
                         THEN OfRound(old.round) ELSE DOMAIN ledger
      BY <2>3
    <3>2. round.id = old.round
      BY <3>1
    <3>3. CASE old.succeeded
      <4>1. step = [status |-> "succeeded", completed |-> FALSE, resolved |-> {}, count |-> old.count]
        BY <3>1, <3>3 DEF Pending
      <4>2. step.status = "succeeded" /\ step.count = old.count
        BY <4>1
      <4>3. OfRound(old.round) = {i \in DOMAIN ledger : ledger[i].round = round.id}
        BY <3>2 DEF OfRound
      <4>4. {i \in At(ledger, "open") : ledger[i].round = round.id} = OfRound(old.round)
        BY <2>1, <4>3
      <4>5. round.id = 0 => OfRound(old.round) = DOMAIN ledger
        <5> SUFFICES ASSUME round.id = 0, NEW i \in DOMAIN ledger PROVE ledger[i].round = 0
          BY <4>3
        <5>1. ledger[i] \in FindingRow
          BY <1>5
        <5>2. ledger[i].round \in Nat /\ ledger[i].round <= 0
          BY <1>5, <5>1 DEF FindingRow
        <5> QED
          BY <5>2
      <4>6. CASE old.count = Cardinality(OfRound(old.round))
        <5>1. owed = OfRound(old.round)
          BY <3>1, <3>3, <4>6
        <5> QED
          BY <1>2, <2>1, <4>2, <4>3, <4>4, <4>5, <4>6, <5>1 DEF required, requiredCodeFindings
      <4>7. CASE old.count # Cardinality(OfRound(old.round))
        <5>1. owed = DOMAIN ledger
          BY <3>1, <4>7
        <5> QED
          BY <1>2, <2>1, <4>2, <4>3, <4>7, <5>1 DEF required, requiredCodeFindings
      <4> QED
        BY <4>6, <4>7
    <3>4. CASE ~old.succeeded
      <4>1. step.status = "pending"
        BY <3>1, <3>4 DEF Pending
      <4> QED
        BY <1>2, <2>1, <3>1, <3>4, <4>1 DEF required, requiredCodeFindings
    <3> QED
      BY <3>3, <3>4
  <2> QED
    BY <2>2, <2>3 DEF ReviewInit
<1>8. owed \subseteq DOMAIN ledger
    BY <1>2, <1>7 DEF required, requiredCodeFindings, At
<1>9. LedgerInv
    BY <1>1, <1>2, <1>5, <1>7, <1>8 DEF LedgerInv, Debt
<1>10. stage = "implement" => owed = {}
  <2>1. stage = "implement" => ledger = <<>>
    BY DEF ReviewInit
  <2> QED
    BY <1>8, <2>1
<1>11. AnswerInv
  <2>1. stage # "design"
    BY DEF ReviewInit
  <2> QED
    BY <1>1, <1>5, <1>10, <2>1 DEF AnswerInv, OpenDebt, Debt
<1> QED
    BY <1>1, <1>6, <1>9, <1>11 DEF ReviewInv, ShippedIsAnswered

----------------------------------------------------------------------------
(* What most actions leave alone.                                          *)

LEMMA LedgerStays ==
    ASSUME LedgerInv, UNCHANGED <<ledger, contract, step, owed, settled>>,
           round.id \in Nat, round'.id \in Nat, round'.id >= round.id,
           contract.started \/ round'.id = round.id
    PROVE  LedgerInv'
<1>1. ~contract.started => required' = required
    BY DEF required, requiredCodeFindings, At
<1>2. \A i \in DOMAIN ledger : ledger[i].round <= round'.id
  <2> SUFFICES ASSUME NEW i \in DOMAIN ledger PROVE ledger[i].round <= round'.id
    OBVIOUS
  <2>1. ledger[i] \in FindingRow
    BY DEF LedgerInv
  <2>2. ledger[i].round \in Nat /\ ledger[i].round <= round.id
    BY <2>1 DEF FindingRow, LedgerInv
  <2> QED
    BY <2>2
<1> QED
    BY <1>1, <1>2 DEF LedgerInv, Debt

LEMMA ContractStarts ==
    ASSUME LedgerInv, beginReviewContract, UNCHANGED <<ledger, owed, settled>>,
           round.id \in Nat, round'.id \in Nat, round'.id >= round.id
    PROVE  LedgerInv' /\ contract'.started
<1>1. /\ contract'.started /\ contract'.superseded \subseteq DOMAIN ledger
      /\ owed = DOMAIN ledger \ contract'.superseded
    BY Begun
<1>2. \A i \in DOMAIN ledger : ledger[i].round <= round'.id
  <2> SUFFICES ASSUME NEW i \in DOMAIN ledger PROVE ledger[i].round <= round'.id
    OBVIOUS
  <2>1. ledger[i] \in FindingRow
    BY DEF LedgerInv
  <2>2. ledger[i].round \in Nat /\ ledger[i].round <= round.id
    BY <2>1 DEF FindingRow, LedgerInv
  <2> QED
    BY <2>2
<1> QED
    BY <1>1, <1>2 DEF LedgerInv, Debt

LEMMA AnswersStay ==
    ASSUME AnswerInv,
           UNCHANGED <<ledger, owed, settled, answered, risks, resumedAt, step, stage, units, repairs>>
    PROVE  AnswerInv'
BY DEF AnswerInv, OpenDebt, Debt, Covers, acceptedAt

LEMMA ShippedStays ==
    ASSUME ShippedIsAnswered, UNCHANGED <<ledger, owed, settled, risks>>,
           forge' = "sent" => forge = "sent" /\ recorded' = recorded
    PROVE  ShippedIsAnswered'
BY DEF ShippedIsAnswered, acceptedAt

----------------------------------------------------------------------------
(* Authors, and the steps in which no review is asked or judged.           *)

LEMMA PlanInv ==
    ASSUME ReviewInv, Plan
    PROVE  ReviewInv'
<1> USE DEF heads, loops, process, debts
<1>1. Course'
    BY DEF ReviewInv, Course, Plan, Ready, Records
<1>2. LedgerInv'
    BY LedgerStays DEF ReviewInv, Course, Plan
<1>3. AnswerInv'
  <2>1. stage' = "implement" /\ units' = [u \in 1..Planned |-> "pending"] /\ 1 \in 1..Planned
    BY ReviewAssumption DEF Plan
  <2>2. \A i \in OpenDebt' : ledger'[i].unit = NoUnit
    BY DEF ReviewInv, AnswerInv, LedgerInv, OpenDebt, Debt, Plan
  <2>3. \A i \in OpenDebt' : units'[1] = "pending" /\ Covers(1, i)'
    BY <2>1, <2>2 DEF Covers
  <2>4. step'.status = "pending" =>
          \A i \in DOMAIN ledger' : ledger'[i].status = "deferred" => acceptedAt(i, resumedAt)'
    BY DEF ReviewInv, AnswerInv, acceptedAt, Plan
  <2> QED
    BY <2>1, <2>3, <2>4 DEF AnswerInv
<1>4. ShippedIsAnswered'
    BY DEF ReviewInv, Course, ShippedIsAnswered, Plan
<1> QED
    BY <1>1, <1>2, <1>3, <1>4 DEF ReviewInv

LEMMA CodeInv ==
    ASSUME ReviewInv, Code
    PROVE  ReviewInv'
<1> USE DEF heads, loops, process, debts
<1>1. PICK u \in DOMAIN units :
          \/ /\ units' = [units EXCEPT ![u] = "verified"]
             /\ answered' = answered \cup findingsForUnit(u)
             /\ UNCHANGED pc
          \/ pc' = "down" /\ UNCHANGED <<units, answered>>
    BY DEF Code
<1>2. stage = "implement" /\ stage' = stage /\ pc = "idle" /\ units \in [1..Planned -> {"pending", "verified"}]
    BY DEF Code, Ready, ReviewInv, Course
<1>3. Course'
  <2>1. units' \in [1..Planned -> {"pending", "verified"}]
    BY <1>1, <1>2
  <2>2. pc' \in {"idle", "down"}
    BY <1>1, <1>2
  <2>3. commits' \in Nat /\ recorded' \in 1..commits' /\ baseline' \in 1..commits' /\ head' \in 1..commits'
    BY DEF Code, NewHead, Records, ReviewInv, Course
  <2> QED
    BY <1>2, <2>1, <2>2, <2>3 DEF ReviewInv, Course, Code
<1>4. LedgerInv'
    BY LedgerStays DEF ReviewInv, Course, Code
<1>5. AnswerInv'
  <2>1. \A i \in OpenDebt : i \in answered' \/ \E v \in 1..Planned : units'[v] = "pending" /\ Covers(v, i)
    <3> SUFFICES ASSUME NEW i \in OpenDebt, i \notin answered'
                 PROVE  \E v \in 1..Planned : units'[v] = "pending" /\ Covers(v, i)
      OBVIOUS
    <3>1. i \notin answered
      BY <1>1
    <3>2. PICK v \in 1..Planned : units[v] = "pending" /\ Covers(v, i)
      BY <1>2, <3>1 DEF ReviewInv, AnswerInv
    <3>3. i \in required
      BY RequiredOwed DEF ReviewInv, OpenDebt, Debt
    <3>4. i \in findingsForUnit(v)
      BY <3>2, <3>3 DEF findingsForUnit, Covers
    <3>5. units' = units \/ (v # u /\ units' = [units EXCEPT ![u] = "verified"])
      BY <1>1, <3>4
    <3>6. units'[v] = "pending"
      BY <1>2, <3>2, <3>5
    <3> QED
      BY <3>2, <3>6
  <2>2. UNCHANGED <<stage, ledger, owed, settled, step, risks, resumedAt>>
    BY DEF Code
  <2> QED
    BY <1>2, <2>1, <2>2 DEF ReviewInv, AnswerInv, OpenDebt, Debt, Covers, acceptedAt
<1>6. ShippedIsAnswered'
    BY <1>2 DEF ReviewInv, Course, ShippedIsAnswered, Code
<1> QED
    BY <1>3, <1>4, <1>5, <1>6 DEF ReviewInv

LEMMA AdvanceInv ==
    ASSUME ReviewInv, AdvanceToReview
    PROVE  ReviewInv'
<1> USE DEF heads, loops, process, debts
<1>1. Course'
    BY DEF ReviewInv, Course, AdvanceToReview, Ready
<1>2. LedgerInv'
    BY LedgerStays DEF ReviewInv, Course, AdvanceToReview
<1>3. AnswerInv'
  <2>1. stage = "implement" /\ stage' = "review" /\ \A u \in 1..Planned : units[u] # "pending"
    BY DEF AdvanceToReview, ReviewInv, Course
  <2>2. OpenDebt \subseteq answered
    BY <2>1 DEF ReviewInv, AnswerInv
  <2> QED
    BY <2>1, <2>2 DEF ReviewInv, AnswerInv, AdvanceToReview, OpenDebt, Debt, acceptedAt
<1>4. ShippedIsAnswered'
    BY DEF ReviewInv, Course, ShippedIsAnswered, AdvanceToReview
<1> QED
    BY <1>1, <1>2, <1>3, <1>4 DEF ReviewInv

LEMMA MergeInv ==
    ASSUME ReviewInv, AdvanceToMerge \/ Push
    PROVE  ReviewInv'
<1> USE DEF heads, loops, process, debts
<1>1. Course'
    BY DEF ReviewInv, Course, AdvanceToMerge, Push, Ready
<1>2. LedgerInv'
    BY LedgerStays DEF ReviewInv, Course, AdvanceToMerge, Push
<1>3. AnswerInv'
    BY DEF ReviewInv, AnswerInv, AdvanceToMerge, Push, OpenDebt, Debt, acceptedAt
<1>4. ShippedIsAnswered'
    BY ShippedStays DEF ReviewInv, AdvanceToMerge, Push
<1> QED
    BY <1>1, <1>2, <1>3, <1>4 DEF ReviewInv

(* What the drain sends: nothing is required, so what is still owed and    *)
(* not settled is deferred, is major, and is accepted for the head.        *)
LEMMA DrainInv ==
    ASSUME ReviewInv, Drain
    PROVE  ReviewInv'
<1> USE DEF heads, loops, process, debts
<1>1. Course'
    BY DEF ReviewInv, Course, Drain, Ready
<1>2. LedgerInv'
    BY LedgerStays DEF ReviewInv, Course, Drain
<1>3. AnswerInv'
    BY DEF ReviewInv, AnswerInv, Drain, OpenDebt, Debt, acceptedAt
<1>4. ShippedIsAnswered'
  <2>1. required = {} /\ \A i \in DOMAIN ledger : ledger[i].status = "deferred" => acceptedAt(i, recorded)
    BY DEF Drain, Unresolved, At
  <2>2. \A i \in Debt : ledger[i].status = "deferred"
    BY <2>1, RequiredOwed DEF ReviewInv, LedgerInv, Debt
  <2>3. \A i \in Debt : ledger[i].claim.severity = "major" /\ acceptedAt(i, recorded)
    BY <2>1, <2>2 DEF ReviewInv, LedgerInv, Debt
  <2>4. UNCHANGED <<ledger, owed, settled, risks, recorded>>
    BY DEF Drain
  <2> QED
    BY <2>3, <2>4 DEF ShippedIsAnswered, Debt, acceptedAt
<1> QED
    BY <1>1, <1>2, <1>3, <1>4 DEF ReviewInv

LEMMA StopInv ==
    ASSUME ReviewInv, Stop \/ OperatorMoves \/ ResumeNone \/ UNCHANGED reviewVars
    PROVE  ReviewInv'
<1> USE DEF heads, loops, process, debts
<1>1. Course'
  <2>1. CASE Stop
    BY <2>1 DEF ReviewInv, Course, Stop
  <2>2. CASE OperatorMoves
    BY <2>2 DEF ReviewInv, Course, OperatorMoves, NewHead
  <2>3. CASE ResumeNone
    <3>1. MaxRuns \in Nat /\ RepairLimit \in Nat
      BY ReviewAssumption
    <3>2. runs \in 1..MaxRuns /\ repairs \in Nat /\ repairs <= RepairLimit + runs
      BY DEF ReviewInv, Course
    <3>3. runs < MaxRuns /\ runs' = runs + 1 /\ repairs' = repairs
      BY <2>3 DEF ResumeNone, Resumes
    <3>4. runs' \in 1..MaxRuns /\ repairs' <= RepairLimit + runs'
      BY <3>1, <3>2, <3>3
    <3> QED
      BY <2>3, <3>3, <3>4 DEF ReviewInv, Course, ResumeNone
  <2>4. CASE UNCHANGED reviewVars
    BY <2>4 DEF ReviewInv, Course, reviewVars
  <2> QED
    BY <2>1, <2>2, <2>3, <2>4
<1>2. LedgerInv'
    BY LedgerStays DEF ReviewInv, Course, Stop, OperatorMoves, ResumeNone, reviewVars
<1>3. AnswerInv'
    BY AnswersStay DEF ReviewInv, Stop, OperatorMoves, ResumeNone, reviewVars
<1>4. ShippedIsAnswered'
    BY ShippedStays DEF ReviewInv, Stop, OperatorMoves, ResumeNone, reviewVars
<1> QED
    BY <1>1, <1>2, <1>3, <1>4 DEF ReviewInv

----------------------------------------------------------------------------
(* The review is asked.                                                    *)

LEMMA ReviewStartsInv ==
    ASSUME ReviewInv, ReviewStarts
    PROVE  ReviewInv'
<1> USE DEF heads, loops, process, debts
<1>1. round'.id = round.id + 1 /\ round' \in [id : Nat, head : Nat] /\ pc' = "reviewing"
  <2>1. round' = [id |-> round.id + 1, head |-> 0] /\ round.id \in Nat /\ pc' = "reviewing"
    BY DEF ReviewStarts, Dispatched, ReviewInv, Course
  <2> QED
    BY <2>1
<1>2. LedgerInv' /\ contract'.started
  <2>1. beginReviewContract /\ UNCHANGED <<ledger, owed, settled>>
    BY DEF ReviewStarts
  <2>2. round.id \in Nat /\ round'.id \in Nat /\ round'.id >= round.id
    BY <1>1 DEF ReviewInv, Course
  <2> QED
    BY <2>1, <2>2, ContractStarts DEF ReviewInv
<1>3. Course'
    BY <1>1, <1>2 DEF ReviewInv, Course, ReviewStarts, Ready
<1>4. AnswerInv'
    BY AnswersStay DEF ReviewInv, ReviewStarts
<1>5. ShippedIsAnswered'
    BY ShippedStays DEF ReviewInv, ReviewStarts
<1> QED
    BY <1>2, <1>3, <1>4, <1>5 DEF ReviewInv

LEMMA ReviewTriesInv ==
    ASSUME ReviewInv, ReviewThrows \/ ProbeRequested \/ ProbeRefused
    PROVE  ReviewInv'
<1> USE DEF heads, loops, process, debts, Answers
<1>1. UNCHANGED <<stage, units, ledger, contract, step, risks, repairs, forge, runs, owed, settled, answered,
                  resumedAt>> /\ pc = "reviewing"
    BY DEF ReviewThrows, ProbeRequested, ProbeRefused, Escalated
<1>2. commits' \in Nat /\ head' \in 1..commits' /\ recorded' = head' /\ baseline' = head'
    BY DEF ReviewThrows, ProbeRequested, ProbeRefused, NewHead, NamesHead, Records, ReviewInv, Course
<1>3. round'.id = round.id /\ round' \in [id : Nat, head : Nat] /\ round.id \in Nat
  <2>1. round' = [round EXCEPT !.head = head'] /\ head' \in Nat
    BY <1>2 DEF ReviewThrows, ProbeRequested, ProbeRefused, NamesHead
  <2> QED
    BY <2>1 DEF ReviewInv, Course
<1>4. probes' \in 0..ProbeLimit /\ ran' = probes'
    BY ReviewAssumption DEF ReviewThrows, ProbeRequested, ProbeRefused, ReviewInv, Course
<1>5. pc' \in {"idle", "probing", "down"} /\ status' \in {"active", "waiting"}
    BY DEF ReviewThrows, ProbeRequested, ProbeRefused, Escalated, ReviewInv, Course
<1>6. Course'
    BY <1>1, <1>2, <1>3, <1>4, <1>5 DEF ReviewInv, Course
<1>7. LedgerInv'
    BY <1>1, <1>3, LedgerStays DEF ReviewInv
<1>8. AnswerInv'
    BY <1>1, AnswersStay DEF ReviewInv
<1>9. ShippedIsAnswered'
    BY <1>1 DEF ReviewInv, Course, ShippedIsAnswered
<1> QED
    BY <1>6, <1>7, <1>8, <1>9 DEF ReviewInv

LEMMA ProbeEndsInv ==
    ASSUME ReviewInv, ProbeEnds
    PROVE  ReviewInv'
<1> USE DEF heads, loops, process, debts
<1>1. UNCHANGED <<stage, units, ledger, contract, step, risks, repairs, probes, recorded, baseline, forge, owed,
                  settled, answered, ran, resumedAt>> /\ pc = "probing"
    BY DEF ProbeEnds
<1>2. commits' \in Nat /\ head' \in 1..commits' /\ commits <= commits' /\ runs' = runs
    BY DEF ProbeEnds, NewHead, Escalated, ReviewInv, Course
<1>3. round'.id >= round.id /\ round' \in [id : Nat, head : Nat] /\ round.id \in Nat /\ round'.id \in Nat
  <2>1. round' = round \/ round' = [id |-> round.id + 1, head |-> 0]
    BY DEF ProbeEnds, Dispatched
  <2>2. round \in [id : Nat, head : Nat]
    BY DEF ReviewInv, Course
  <2>3. CASE round' = round
    BY <2>2, <2>3
  <2>4. CASE round' = [id |-> round.id + 1, head |-> 0]
    BY <2>2, <2>4
  <2> QED
    BY <2>1, <2>3, <2>4
<1>4. pc' \in {"reviewing", "down"} /\ status' \in {"active", "waiting"}
    BY DEF ProbeEnds, Dispatched, Escalated, ReviewInv, Course
<1>5. recorded' \in 1..commits' /\ baseline' \in 1..commits'
    BY <1>1, <1>2 DEF ReviewInv, Course
<1>6. Course'
    BY <1>1, <1>2, <1>3, <1>4, <1>5 DEF ReviewInv, Course
<1>7. LedgerInv'
    BY <1>1, <1>3, LedgerStays DEF ReviewInv, Course
<1>8. AnswerInv'
    BY <1>1, AnswersStay DEF ReviewInv
<1>9. ShippedIsAnswered'
    BY <1>1 DEF ReviewInv, Course, ShippedIsAnswered
<1> QED
    BY <1>6, <1>7, <1>8, <1>9 DEF ReviewInv

----------------------------------------------------------------------------
(* The review is judged.  What holds of the ledger that is judged: nothing *)
(* owed is closed, and what is deferred was accepted at the head at which  *)
(* the operator last resumed.                                              *)

Judged(led, owing, done, dropped, id, accepted) ==
    /\ led \in Seq(FindingRow) /\ \A i \in DOMAIN led : led[i].round <= id
    /\ dropped \subseteq DOMAIN led /\ owing = DOMAIN led \ dropped /\ done \subseteq owing
    /\ \A i \in owing \ done : led[i].status \in {"open", "deferred"}
    /\ \A i \in DOMAIN led : led[i].status = "deferred" =>
          led[i].claim.severity = "major" /\ i \in accepted

Accepted == {i \in UNION {r.ids : r \in risks} : acceptedAt(i, resumedAt)}

LEMMA DetachedFacts ==
    ASSUME NEW led \in Seq(FindingRow)
    PROVE  /\ Detached(led) \in Seq(FindingRow) /\ DOMAIN Detached(led) = DOMAIN led
           /\ \A i \in DOMAIN led : /\ Detached(led)[i].unit = NoUnit
                                    /\ Detached(led)[i].claim = led[i].claim
                                    /\ Detached(led)[i].round = led[i].round
                                    /\ Detached(led)[i].status = led[i].status
<1>1. DOMAIN led = 1..Len(led) /\ \A i \in DOMAIN led : led[i] \in FindingRow
    OBVIOUS
<1>2. Detached(led) = [i \in 1..Len(led) |-> [led[i] EXCEPT !.unit = NoUnit]]
    BY <1>1 DEF Detached
<1>3. \A i \in DOMAIN led : [led[i] EXCEPT !.unit = NoUnit] \in FindingRow
  <2>1. NoUnit \in 0..Planned
    BY ReviewAssumption DEF NoUnit
  <2> QED
    BY <1>1, <2>1 DEF FindingRow
<1>4. \A i \in DOMAIN led : /\ [led[i] EXCEPT !.unit = NoUnit].unit = NoUnit
                            /\ [led[i] EXCEPT !.unit = NoUnit].claim = led[i].claim
                            /\ [led[i] EXCEPT !.unit = NoUnit].round = led[i].round
                            /\ [led[i] EXCEPT !.unit = NoUnit].status = led[i].status
    BY <1>1 DEF FindingRow
<1>5. Detached(led) \in [1..Len(led) -> FindingRow]
    BY <1>1, <1>2, <1>3
<1>6. Detached(led) \in Seq(FindingRow)
    BY <1>5, SeqDef
<1> QED
    BY <1>1, <1>2, <1>4, <1>6

(* Whatever is made of the ledger: it is what it was judged to be.         *)
LEMMA JudgedLedger ==
    ASSUME NEW led, NEW dropped, Judged(led, owed', settled', dropped, round'.id, Accepted'),
           contract'.started, contract'.superseded = dropped,
           ledger' = led \/ ledger' = Detached(led)
    PROVE  /\ LedgerInv'
           /\ \A i \in DOMAIN ledger' : ledger'[i].status = "deferred" => acceptedAt(i, resumedAt)'
<1>1. led \in Seq(FindingRow)
    BY DEF Judged
<1>2. /\ ledger' \in Seq(FindingRow) /\ DOMAIN ledger' = DOMAIN led
      /\ \A i \in DOMAIN led : /\ ledger'[i].claim = led[i].claim
                               /\ ledger'[i].round = led[i].round
                               /\ ledger'[i].status = led[i].status
    BY <1>1, DetachedFacts
<1>3. LedgerInv'
    BY <1>2 DEF Judged, LedgerInv, Debt
<1>4. \A i : i \in Accepted' <=> acceptedAt(i, resumedAt)'
    BY DEF Accepted, acceptedAt
<1> QED
    BY <1>2, <1>3, <1>4 DEF Judged

(* A loopback to the authors leaves a unit pending for every open finding  *)
(* that is owed.                                                           *)
LEMMA LoopAnswers ==
    ASSUME NEW led, NEW found, NEW signature, NEW dropped,
           Judged(led, owed', settled', dropped, round'.id, Accepted'),
           contract'.started, contract'.superseded = dropped,
           units \in [1..Planned -> {"pending", "verified"}],
           \/ /\ codeLoopback(led, found, signature)
              /\ found = {} \/ \A i \in owed' \ settled' : led[i].status = "open" => i \in found
           \/ redesignLoopback(led, signature)
    PROVE  LedgerInv' /\ AnswerInv' /\ ShippedIsAnswered'
<1>1. /\ ledger' = led \/ ledger' = Detached(led)
      /\ stage' \in {"implement", "design"} /\ forge' = "none"
    BY DEF codeLoopback, redesignLoopback, Looped
<1>2. /\ LedgerInv'
      /\ \A i \in DOMAIN ledger' : ledger'[i].status = "deferred" => acceptedAt(i, resumedAt)'
    BY <1>1, JudgedLedger
<1>3. AnswerInv'
  <2>1. CASE codeLoopback(led, found, signature)
    <3>1. stage' = "implement" /\ ledger' = led
      BY <2>1 DEF codeLoopback
    <3>2. found = {} \/ \A i \in owed' \ settled' : led[i].status = "open" => i \in found
      BY <2>1, <3>1 DEF redesignLoopback
    <3>3. units' = [u \in 1..Planned |->
              IF found = {} \/ \E i \in found : led[i].unit \in {u, NoUnit} THEN "pending" ELSE units[u]]
      BY <2>1 DEF codeLoopback, Recoded
    <3>4. ASSUME NEW i \in OpenDebt'
          PROVE  \E u \in 1..Planned : units'[u] = "pending" /\ Covers(u, i)'
      <4>1. led[i] \in FindingRow /\ led[i].status = "open" /\ (found = {} \/ i \in found)
        BY <1>2, <3>1, <3>2 DEF OpenDebt, Debt, LedgerInv
      <4>2. led[i].unit \in 0..Planned
        BY <4>1 DEF FindingRow
      <4>3. CASE led[i].unit = NoUnit
        <5>1. 1 \in 1..Planned
          BY ReviewAssumption
        <5>2. units'[1] = "pending"
          BY <3>3, <4>1, <4>3, <5>1
        <5> QED
          BY <3>1, <4>3, <5>1, <5>2 DEF Covers
      <4>4. CASE led[i].unit # NoUnit
        <5>1. led[i].unit \in 1..Planned
          BY <4>2, <4>4, ReviewAssumption DEF NoUnit
        <5>2. units'[led[i].unit] = "pending"
          BY <3>3, <4>1, <5>1
        <5> QED
          BY <3>1, <5>1, <5>2 DEF Covers
      <4> QED
        BY <4>3, <4>4
    <3> QED
      BY <1>2, <3>1, <3>4 DEF AnswerInv
  <2>2. CASE redesignLoopback(led, signature)
    <3>1. stage' = "design" /\ ledger' = Detached(led)
      BY <2>2 DEF redesignLoopback
    <3>2. \A i \in DOMAIN ledger' : ledger'[i].unit = NoUnit
      BY <3>1, DetachedFacts DEF Judged
    <3> QED
      BY <1>2, <3>1, <3>2 DEF AnswerInv
  <2> QED
    BY <2>1, <2>2
<1> QED
    BY <1>1, <1>2, <1>3 DEF ShippedIsAnswered

LEMMA LoopControl ==
    ASSUME Course, NEW led, NEW found, NEW signature, stage # "design",
           codeLoopback(led, found, signature) \/ redesignLoopback(led, signature),
           runs' \in 1..MaxRuns, repairs + 1 <= RepairLimit + runs',
           UNCHANGED <<probes, ran, commits, head>>,
           recorded' \in 1..commits, baseline' \in 1..commits, round' \in [id : Nat, head : Nat]
    PROVE  Course'
<1>1. /\ repairs' = repairs + 1 /\ step'.status = "pending" /\ forge' = "none"
      /\ status' = "active" /\ pc' = "idle"
    BY DEF codeLoopback, redesignLoopback, Looped, Pending
<1>2. CASE codeLoopback(led, found, signature)
  <2>1. units' \in [1..Planned -> {"pending", "verified"}] /\ stage' = "implement"
    BY <1>2 DEF codeLoopback, Recoded, Course
  <2> QED
    BY <1>1, <2>1 DEF Course
<1>3. CASE redesignLoopback(led, signature)
  <2>1. units' = <<>> /\ stage' = "design"
    BY <1>3 DEF redesignLoopback
  <2> QED
    BY <1>1, <2>1 DEF Course
<1> QED
    BY <1>2, <1>3

LEMMA ReopenedFacts ==
    ASSUME LedgerInv
    PROVE  LET led == reopenStaleDeferrals(ledger)
           IN  /\ led \in Seq(FindingRow) /\ DOMAIN led = DOMAIN ledger
               /\ \A i \in DOMAIN ledger :
                     /\ led[i].claim = ledger[i].claim /\ led[i].round = ledger[i].round
                     /\ led[i].status = ledger[i].status \/ (ledger[i].status = "deferred" /\ led[i].status = "open")
                     /\ led[i].status = "deferred" => acceptedAt(i, head)
<1> DEFINE led == reopenStaleDeferrals(ledger)
<1>1. DOMAIN ledger = 1..Len(ledger) /\ \A i \in DOMAIN ledger : ledger[i] \in FindingRow
    BY DEF LedgerInv
<1>2. DOMAIN led = 1..Len(ledger)
    BY <1>1 DEF reopenStaleDeferrals
<1>3. ASSUME NEW i \in DOMAIN ledger
      PROVE  /\ led[i] \in FindingRow
             /\ led[i].claim = ledger[i].claim /\ led[i].round = ledger[i].round
             /\ led[i].status = ledger[i].status \/ (ledger[i].status = "deferred" /\ led[i].status = "open")
             /\ led[i].status = "deferred" => acceptedAt(i, head)
  <2>1. CASE ledger[i].status = "deferred" /\ ~acceptedAt(i, head)
    <3>1. led[i] = [ledger[i] EXCEPT !.status = "open"]
      BY <2>1 DEF reopenStaleDeferrals
    <3>2. ledger[i] \in FindingRow
      BY <1>1
    <3> HIDE DEF led
    <3> QED
      BY <2>1, <3>1, <3>2 DEF FindingRow
  <2>2. CASE ~(ledger[i].status = "deferred" /\ ~acceptedAt(i, head))
    <3>1. led[i] = ledger[i]
      BY <2>2 DEF reopenStaleDeferrals
    <3> HIDE DEF led
    <3> QED
      BY <1>1, <2>2, <3>1
  <2> QED
    BY <2>1, <2>2
<1>4. led \in [1..Len(ledger) -> FindingRow]
  <2>1. led = [i \in 1..Len(ledger) |-> led[i]]
    BY <1>1 DEF reopenStaleDeferrals
  <2> HIDE DEF led
  <2> QED
    BY <1>1, <1>3, <2>1
<1>5. led \in Seq(FindingRow)
  <2> HIDE DEF led
  <2> QED
    BY <1>4, SeqDef
<1> HIDE DEF led
<1>6. /\ led \in Seq(FindingRow) /\ DOMAIN led = DOMAIN ledger
      /\ \A i \in DOMAIN ledger :
            /\ led[i].claim = ledger[i].claim /\ led[i].round = ledger[i].round
            /\ led[i].status = ledger[i].status \/ (ledger[i].status = "deferred" /\ led[i].status = "open")
            /\ led[i].status = "deferred" => acceptedAt(i, head)
    BY <1>1, <1>2, <1>3, <1>5
<1> QED
    BY <1>6 DEF led

(* On a resume the reopened ledger is judged, at the head of the resume.   *)
LEMMA ReopenedJudged ==
    ASSUME LedgerInv, beginReviewContract, NEW led, led = reopenStaleDeferrals(ledger),
           UNCHANGED <<owed, settled, round, risks>>, resumedAt' = head
    PROVE  /\ Judged(led, owed', settled', contract'.superseded, round'.id, Accepted')
           /\ contract'.started
           /\ \A i \in owed' \ settled' : led[i].status = "open" => i \in At(led, "open") \ contract'.superseded
           /\ \A i \in DOMAIN ledger : led[i].claim = ledger[i].claim
<1>1. /\ contract'.started /\ contract'.superseded \subseteq DOMAIN ledger
      /\ owed = DOMAIN ledger \ contract'.superseded
    BY Begun
<1>2. /\ led \in Seq(FindingRow) /\ DOMAIN led = DOMAIN ledger
      /\ \A i \in DOMAIN ledger :
            /\ led[i].claim = ledger[i].claim /\ led[i].round = ledger[i].round
            /\ led[i].status = ledger[i].status \/ (ledger[i].status = "deferred" /\ led[i].status = "open")
            /\ led[i].status = "deferred" => acceptedAt(i, head)
    BY ReopenedFacts
<1>3. \A i : acceptedAt(i, head) => i \in Accepted'
    BY DEF Accepted, acceptedAt
<1>4. /\ \A i \in DOMAIN ledger : ledger[i].round <= round.id
      /\ \A i \in owed \ settled : ledger[i].status \in {"open", "deferred"}
      /\ \A i \in DOMAIN ledger : ledger[i].status = "deferred" => ledger[i].claim.severity = "major"
      /\ settled \subseteq owed
    BY DEF LedgerInv, Debt
<1>5. Judged(led, owed', settled', contract'.superseded, round'.id, Accepted')
    BY <1>1, <1>2, <1>3, <1>4 DEF Judged
<1>6. \A i \in owed' \ settled' : led[i].status = "open" => i \in At(led, "open") \ contract'.superseded
    BY <1>1, <1>2 DEF At
<1> QED
    BY <1>1, <1>2, <1>5, <1>6

LEMMA ResumeMovedInv ==
    ASSUME ReviewInv, ResumeMoved
    PROVE  ReviewInv'
<1> USE DEF heads, loops, process, debts
<1>1. PICK led : led = reopenStaleDeferrals(ledger)
    OBVIOUS
<1>2. /\ beginReviewContract /\ codeLoopback(led, {}, Operator)
      /\ UNCHANGED <<round, risks, probes, recorded, head, commits, owed, settled, ran>>
      /\ baseline' = head /\ resumedAt' = head /\ stage \in {"review", "merge"}
      /\ runs < MaxRuns /\ runs' = runs + 1
    BY <1>1 DEF ResumeMoved, Resumes, Relevant
<1>3. /\ Judged(led, owed', settled', contract'.superseded, round'.id, Accepted')
      /\ contract'.started
    BY <1>1, <1>2, ReopenedJudged DEF ReviewInv
<1>4. units \in [1..Planned -> {"pending", "verified"}]
    BY <1>2 DEF ReviewInv, Course
<1>5. LedgerInv' /\ AnswerInv' /\ ShippedIsAnswered'
    BY <1>2, <1>3, <1>4, LoopAnswers
<1>6. runs' \in 1..MaxRuns /\ repairs + 1 <= RepairLimit + runs'
    BY <1>2, ReviewAssumption DEF ReviewInv, Course
<1>7. Course'
    BY <1>2, <1>6, LoopControl DEF ReviewInv, Course
<1> QED
    BY <1>5, <1>7 DEF ReviewInv

LEMMA ResumeRetryInv ==
    ASSUME ReviewInv, ResumeRetry
    PROVE  ReviewInv'
<1> USE DEF heads, loops, process, debts
<1>1. PICK led, found : /\ led = reopenStaleDeferrals(ledger)
                        /\ found = requiredCodeFindings(led, TRUE, contract'.superseded)
    OBVIOUS
<1>2. /\ beginReviewContract /\ Verdict(led, found, step)
      /\ UNCHANGED <<round, risks, probes, recorded, baseline, head, commits, owed, settled, ran>>
      /\ resumedAt' = head /\ stage \in {"review", "merge"} /\ step.status = "succeeded"
      /\ runs < MaxRuns /\ runs' = runs + 1 /\ repairs < RepairLimit
    BY <1>1 DEF ResumeRetry, Resumes, ReviewIsOpen, Relevant
<1>3. /\ Judged(led, owed', settled', contract'.superseded, round'.id, Accepted')
      /\ contract'.started
      /\ \A i \in DOMAIN ledger : led[i].claim = ledger[i].claim
    BY <1>1, <1>2, ReopenedJudged DEF ReviewInv
<1>4. \A i \in owed' \ settled' : led[i].status = "open" => i \in found
  <2>1. found = At(led, "open") \ contract'.superseded
    BY <1>1 DEF requiredCodeFindings
  <2> QED
    BY <1>1, <1>2, <2>1, ReopenedJudged DEF ReviewInv
<1>5. units \in [1..Planned -> {"pending", "verified"}]
    BY <1>2 DEF ReviewInv, Course
<1>6. runs' \in 1..MaxRuns /\ repairs + 1 <= RepairLimit + runs' /\ repairs <= RepairLimit + runs'
    BY <1>2, ReviewAssumption DEF ReviewInv, Course
<1>7. CASE \/ codeLoopback(led, found, findingsSignature(led, found))
           \/ redesignLoopback(led, findingsSignature(led, found))
  <2>1. PICK signature : codeLoopback(led, found, signature) \/ redesignLoopback(led, signature)
    BY <1>7
  <2>2. LedgerInv' /\ AnswerInv' /\ ShippedIsAnswered'
    BY <1>3, <1>4, <1>5, <2>1, LoopAnswers
  <2>3. Course'
    BY <1>2, <1>6, <2>1, LoopControl DEF ReviewInv, Course
  <2> QED
    BY <2>2, <2>3 DEF ReviewInv
<1>8. CASE Stays(led, step) /\ status' = "waiting" /\ pc' = "down"
  <2>1. ledger' = led /\ UNCHANGED <<step, stage, units, repairs, forge, answered>>
    BY <1>8 DEF Stays
  <2>2. LedgerInv'
    BY <1>3, <2>1, JudgedLedger
  <2>3. AnswerInv'
    BY <1>2, <2>1 DEF AnswerInv
  <2>4. Course'
    BY <1>2, <1>6, <1>8, <2>1 DEF ReviewInv, Course
  <2>5. ShippedIsAnswered'
    BY <1>2, <1>3, <2>1 DEF ReviewInv, LedgerInv, ShippedIsAnswered, acceptedAt
  <2> QED
    BY <2>2, <2>3, <2>4, <2>5 DEF ReviewInv
<1> QED
    BY <1>2, <1>7, <1>8 DEF Verdict

LEMMA AcceptRiskInv ==
    ASSUME ReviewInv, AcceptRisk
    PROVE  ReviewInv'
<1> USE DEF heads, loops, process, debts
<1>1. /\ stage = "review" /\ step.status = "succeeded" /\ Acceptable /\ beginReviewContract
      /\ runs < MaxRuns /\ runs' = runs + 1 /\ status' = "active" /\ pc' = "idle"
      /\ ledger' = [i \in DOMAIN ledger |->
            IF i \in required THEN [ledger[i] EXCEPT !.status = "deferred"] ELSE ledger[i]]
      /\ UNCHANGED <<stage, units, step, round, repairs, probes, forge, recorded, baseline, head, commits,
                     owed, settled, answered, ran, resumedAt>>
    BY DEF AcceptRisk, Resumes
<1>2. /\ contract'.started /\ contract'.superseded \subseteq DOMAIN ledger
      /\ owed = DOMAIN ledger \ contract'.superseded
    BY <1>1, Begun DEF ReviewInv
<1>3. DOMAIN ledger = 1..Len(ledger) /\ \A i \in DOMAIN ledger : ledger[i] \in FindingRow
    BY DEF ReviewInv, LedgerInv
<1>4. ASSUME NEW i \in DOMAIN ledger
      PROVE  /\ ledger'[i] \in FindingRow /\ ledger'[i].claim = ledger[i].claim /\ ledger'[i].round = ledger[i].round
             /\ IF i \in required THEN ledger'[i].status = "deferred" ELSE ledger'[i].status = ledger[i].status
  <2>1. CASE i \in required
    <3>1. ledger'[i] = [ledger[i] EXCEPT !.status = "deferred"]
      BY <1>1, <2>1
    <3> QED
      BY <1>3, <2>1, <3>1 DEF FindingRow
  <2>2. CASE i \notin required
    <3>1. ledger'[i] = ledger[i]
      BY <1>1, <2>2
    <3> QED
      BY <1>3, <2>2, <3>1
  <2> QED
    BY <2>1, <2>2
<1>5. ledger' \in Seq(FindingRow) /\ DOMAIN ledger' = DOMAIN ledger
  <2>1. DOMAIN ledger' = 1..Len(ledger) /\ ledger' = [i \in 1..Len(ledger) |-> ledger'[i]]
    BY <1>1, <1>3
  <2>2. ledger' \in [1..Len(ledger) -> FindingRow]
    BY <1>3, <1>4, <2>1
  <2> QED
    BY <1>3, <2>1, <2>2, SeqDef
<1>6. \A i \in required : ledger[i].claim.severity = "major"
    BY <1>1 DEF Acceptable
<1>7. /\ \A i \in owed \ settled : ledger[i].status \in {"open", "deferred"}
      /\ \A i \in DOMAIN ledger : ledger[i].status = "deferred" => ledger[i].claim.severity = "major"
      /\ \A i \in DOMAIN ledger : ledger[i].round <= round.id
      /\ owed \subseteq DOMAIN ledger /\ settled \subseteq owed
    BY DEF ReviewInv, LedgerInv, Debt
<1>8. LedgerInv'
  <2>1. \A i \in DOMAIN ledger' : ledger'[i].round <= round'.id
    BY <1>1, <1>4, <1>5, <1>7
  <2>2. \A i \in Debt' : ledger'[i].status \in {"open", "deferred"}
    BY <1>1, <1>4, <1>7 DEF Debt
  <2>3. \A i \in DOMAIN ledger' : ledger'[i].status = "deferred" => ledger'[i].claim.severity = "major"
    BY <1>4, <1>5, <1>6, <1>7
  <2> QED
    BY <1>1, <1>2, <1>5, <1>7, <2>1, <2>2, <2>3 DEF LedgerInv
<1>9. AnswerInv'
    BY <1>1 DEF AnswerInv
<1>10. Course'
  <2>1. MaxRuns \in Nat /\ RepairLimit \in Nat
    BY ReviewAssumption
  <2>2. runs \in 1..MaxRuns /\ repairs \in Nat /\ repairs <= RepairLimit + runs
    BY DEF ReviewInv, Course
  <2>3. runs < MaxRuns /\ runs' = runs + 1
    BY <1>1
  <2>4. runs' \in 1..MaxRuns /\ repairs <= RepairLimit + runs'
    BY <2>1, <2>2, <2>3
  <2> QED
    BY <1>1, <2>4 DEF ReviewInv, Course
<1>11. ShippedIsAnswered'
    BY <1>1 DEF ReviewInv, Course, ShippedIsAnswered
<1> QED
    BY <1>8, <1>9, <1>10, <1>11 DEF ReviewInv

LEMMA TableIsSeq ==
    ASSUME NEW S, NEW n \in Nat, NEW f \in [1..n -> S]
    PROVE  f \in Seq(S) /\ Len(f) = n
OBVIOUS

LEMMA CompletedFacts ==
    ASSUME LedgerInv, round.id \in Nat, NEW resolution \in [required -> {"fixed", "wont-fix", "open"}],
           NEW filing \in Filings, NEW led, led = Completed(resolution, filing)
    PROVE  /\ led \in Seq(FindingRow) /\ DOMAIN ledger \subseteq DOMAIN led
           /\ \A i \in DOMAIN ledger :
                 /\ led[i].claim = ledger[i].claim /\ led[i].round = ledger[i].round
                 /\ IF i \in required THEN led[i].status = resolution[i] ELSE led[i].status = ledger[i].status
           /\ \A i \in DOMAIN led \ DOMAIN ledger : led[i].status = "open" /\ led[i].round = round.id
<1> DEFINE old == [i \in DOMAIN ledger |->
                     IF i \in DOMAIN resolution THEN [ledger[i] EXCEPT !.status = resolution[i]] ELSE ledger[i]]
           new == [i \in DOMAIN filing |-> Filed(filing[i], round.id)]
<1>1. DOMAIN ledger = 1..Len(ledger) /\ Len(ledger) \in Nat /\ \A i \in DOMAIN ledger : ledger[i] \in FindingRow
    BY DEF LedgerInv
<1>2. filing \in Seq(Claim) /\ DOMAIN filing = 1..Len(filing) /\ Len(filing) \in Nat
    BY ReviewAssumption
<1>3. ASSUME NEW i \in DOMAIN ledger
      PROVE  /\ old[i] \in FindingRow /\ old[i].claim = ledger[i].claim /\ old[i].round = ledger[i].round
             /\ IF i \in required THEN old[i].status = resolution[i] ELSE old[i].status = ledger[i].status
  <2>1. CASE i \in required
    <3>1. old[i] = [ledger[i] EXCEPT !.status = resolution[i]]
      BY <2>1
    <3>2. resolution[i] \in {"open", "fixed", "wont-fix", "deferred"} /\ ledger[i] \in FindingRow
      BY <1>1, <2>1
    <3> HIDE DEF old
    <3> QED
      BY <2>1, <3>1, <3>2 DEF FindingRow
  <2>2. CASE i \notin required
    <3>1. old[i] = ledger[i]
      BY <2>2
    <3> HIDE DEF old
    <3> QED
      BY <1>1, <2>2, <3>1
  <2> QED
    BY <2>1, <2>2
<1>4. old \in [1..Len(ledger) -> FindingRow]
  <2>1. DOMAIN old = 1..Len(ledger) /\ old = [i \in 1..Len(ledger) |-> old[i]]
    BY <1>1
  <2> HIDE DEF old
  <2> QED
    BY <1>1, <1>3, <2>1
<1>5. ASSUME NEW i \in DOMAIN filing
      PROVE  new[i] \in FindingRow /\ new[i].status = "open" /\ new[i].round = round.id
  <2>1. filing[i] \in Claim /\ filing[i].unit \in 0..Planned
    <3>1. filing[i] \in Claim
      BY <1>2, ElementOfSeq
    <3> QED
      BY <3>1 DEF Claim
  <2>2. new[i] = [claim |-> filing[i], unit |-> filing[i].unit, round |-> round.id, status |-> "open"]
    BY DEF Filed
  <2> HIDE DEF new
  <2> QED
    BY <2>1, <2>2 DEF FindingRow
<1>6. new \in [1..Len(filing) -> FindingRow]
  <2>1. DOMAIN new = 1..Len(filing) /\ new = [i \in 1..Len(filing) |-> new[i]]
    BY <1>2
  <2> HIDE DEF new
  <2> QED
    BY <1>2, <1>5, <2>1
<1>7. led = old \o new
    BY DEF Completed
<1> HIDE DEF old, new
<1>8. old \in Seq(FindingRow) /\ new \in Seq(FindingRow) /\ Len(old) = Len(ledger) /\ Len(new) = Len(filing)
    BY <1>1, <1>2, <1>4, <1>6, TableIsSeq
<1>9. led \in Seq(FindingRow) /\ Len(led) = Len(ledger) + Len(filing) /\ DOMAIN led = 1..(Len(ledger) + Len(filing))
  <2>1. led \in Seq(FindingRow)
    BY <1>7, <1>8, ConcatProperties
  <2>2. Len(led) = Len(old) + Len(new)
    BY <1>7, <1>8, ConcatProperties
  <2>3. DOMAIN led = 1..Len(led)
    BY <2>1, LenProperties
  <2> QED
    BY <1>8, <2>1, <2>2, <2>3
<1>10. \A i \in DOMAIN ledger : led[i] = old[i]
    BY <1>1, <1>7, <1>8, ConcatProperties
<1>11. \A i \in DOMAIN led \ DOMAIN ledger : led[i] = new[i - Len(ledger)] /\ i - Len(ledger) \in DOMAIN filing
    BY <1>1, <1>2, <1>7, <1>8, <1>9, ConcatProperties
<1>12. DOMAIN ledger \subseteq DOMAIN led
    BY <1>1, <1>2, <1>9
<1>13. \A i \in DOMAIN ledger :
          /\ led[i].claim = ledger[i].claim /\ led[i].round = ledger[i].round
          /\ IF i \in required THEN led[i].status = resolution[i] ELSE led[i].status = ledger[i].status
    BY <1>3, <1>10
<1>14. \A i \in DOMAIN led \ DOMAIN ledger : led[i].status = "open" /\ led[i].round = round.id
    BY <1>5, <1>11
<1> QED
    BY <1>9, <1>12, <1>13, <1>14

LEMMA ReviewSucceedsInv ==
    ASSUME ReviewInv, ReviewSucceeds
    PROVE  ReviewInv'
<1> USE DEF heads, loops, process, debts
<1>1. PICK resolution, filing, led, found, done :
          /\ resolution \in [required -> {"fixed", "wont-fix", "open"}] /\ filing \in Filings
          /\ led = Completed(resolution, filing)
          /\ found = requiredCodeFindings(led, contract.started, contract.superseded)
          /\ done = [status |-> "succeeded", completed |-> TRUE, resolved |-> required, count |-> Len(filing)]
          /\ owed' = owed \cup (DOMAIN led \ DOMAIN ledger)
          /\ settled' = settled \cup {i \in required : resolution[i] # "open"}
          /\ \/ found = {} /\ Clean(led, done)
             \/ found # {} /\ Verdict(led, found, done)
    BY DEF ReviewSucceeds
<1>2. /\ stage = "review" /\ step.status = "pending" /\ contract.started /\ pc = "reviewing"
      /\ forge = "none" /\ repairs <= RepairLimit + runs /\ runs \in 1..MaxRuns
      /\ round.id \in Nat /\ head \in 1..commits /\ commits \in Nat
      /\ units \in [1..Planned -> {"pending", "verified"}]
    BY DEF ReviewSucceeds, Answers, ReviewInv, Course
<1>3. /\ UNCHANGED <<contract, risks, probes, runs, ran, resumedAt, head, commits>>
      /\ recorded' = head /\ baseline' = head
      /\ round' = [round EXCEPT !.head = head']
    BY DEF ReviewSucceeds, NamesHead, Records
<1>4. round'.id = round.id /\ round' \in [id : Nat, head : Nat]
  <2>1. round \in [id : Nat, head : Nat] /\ head' \in Nat
    BY <1>2, <1>3 DEF ReviewInv, Course
  <2> QED
    BY <1>3, <2>1
<1>5. /\ led \in Seq(FindingRow) /\ DOMAIN ledger \subseteq DOMAIN led
      /\ \A i \in DOMAIN ledger :
            /\ led[i].claim = ledger[i].claim /\ led[i].round = ledger[i].round
            /\ IF i \in required THEN led[i].status = resolution[i] ELSE led[i].status = ledger[i].status
      /\ \A i \in DOMAIN led \ DOMAIN ledger : led[i].status = "open" /\ led[i].round = round.id
    BY <1>1, <1>2, CompletedFacts DEF ReviewInv
<1>6. /\ \A i \in DOMAIN ledger : ledger[i].round <= round.id
      /\ \A i \in owed \ settled : ledger[i].status \in {"open", "deferred"}
      /\ \A i \in DOMAIN ledger : ledger[i].status = "deferred" =>
            ledger[i].claim.severity = "major" /\ acceptedAt(i, resumedAt)
      /\ settled \subseteq owed /\ owed = DOMAIN ledger \ contract.superseded
      /\ contract.superseded \subseteq DOMAIN ledger
    BY <1>2 DEF ReviewInv, LedgerInv, AnswerInv, Debt
<1>7. \A i : acceptedAt(i, resumedAt) => i \in Accepted'
    BY <1>3 DEF Accepted, acceptedAt
<1>8. Judged(led, owed', settled', contract.superseded, round'.id, Accepted')
  <2>1. \A i \in DOMAIN led : led[i].round <= round'.id
    BY <1>2, <1>4, <1>5, <1>6
  <2>2. contract.superseded \subseteq DOMAIN led /\ owed' = DOMAIN led \ contract.superseded
    BY <1>1, <1>5, <1>6
  <2>3. settled' \subseteq owed'
    BY <1>1, <1>6, RequiredOwed DEF ReviewInv
  <2>4. ASSUME NEW i \in owed' \ settled' PROVE led[i].status \in {"open", "deferred"}
    <3>1. CASE i \in DOMAIN ledger
      <4>1. i \in owed \ settled
        BY <1>1, <3>1, <2>4
      <4>2. i \in required => resolution[i] = "open"
        BY <1>1, <2>4
      <4> QED
        BY <1>5, <1>6, <3>1, <4>1, <4>2
    <3>2. CASE i \notin DOMAIN ledger
      BY <1>5, <2>2, <2>4, <3>2
    <3> QED
      BY <3>1, <3>2
  <2>5. ASSUME NEW i \in DOMAIN led, led[i].status = "deferred"
        PROVE  led[i].claim.severity = "major" /\ i \in Accepted'
    <3>1. i \in DOMAIN ledger /\ i \notin required
      BY <1>1, <1>5, <2>5
    <3> QED
      BY <1>5, <1>6, <1>7, <2>5, <3>1
  <2> QED
    BY <1>5, <2>1, <2>2, <2>3, <2>4, <2>5 DEF Judged
<1>9. \A i \in owed' \ settled' : led[i].status = "open" => i \in found
  <2>1. found = At(led, "open") \ contract.superseded
    BY <1>1, <1>2 DEF requiredCodeFindings
  <2> QED
    BY <1>8, <2>1 DEF Judged, At
<1>10. contract'.started /\ contract'.superseded = contract.superseded
    BY <1>2, <1>3
<1>11. CASE /\ repairs < RepairLimit
            /\ \/ codeLoopback(led, found, findingsSignature(led, found))
               \/ redesignLoopback(led, findingsSignature(led, found))
  <2>1. PICK signature : codeLoopback(led, found, signature) \/ redesignLoopback(led, signature)
    BY <1>11
  <2>2. LedgerInv' /\ AnswerInv' /\ ShippedIsAnswered'
    BY <1>2, <1>8, <1>9, <1>10, <2>1, LoopAnswers
  <2>3. repairs + 1 <= RepairLimit + runs' /\ runs' \in 1..MaxRuns
    BY <1>2, <1>3, <1>11, ReviewAssumption DEF ReviewInv, Course
  <2>4. Course'
    BY <1>2, <1>3, <1>4, <2>1, <2>3, LoopControl DEF ReviewInv
  <2> QED
    BY <2>2, <2>4 DEF ReviewInv
<1>12. CASE Stays(led, done) /\ status' \in {"active", "waiting"} /\ pc' \in {"idle", "down"}
  <2>1. ledger' = led /\ step' = done /\ UNCHANGED <<stage, units, repairs, forge, answered>>
    BY <1>12 DEF Stays
  <2>2. step'.status = "succeeded"
    BY <1>1, <2>1
  <2>3. LedgerInv'
    BY <1>8, <1>10, <2>1, JudgedLedger
  <2>4. AnswerInv'
    BY <1>2, <2>1, <2>2 DEF AnswerInv
  <2>5. Course'
    BY <1>2, <1>3, <1>4, <1>12, <2>1 DEF ReviewInv, Course
  <2>6. ShippedIsAnswered'
    BY <1>2, <2>1 DEF ShippedIsAnswered
  <2> QED
    BY <2>3, <2>4, <2>5, <2>6 DEF ReviewInv
<1>13. status \in {"active", "waiting"} /\ repairs \in Nat
    BY DEF ReviewInv, Course
<1> QED
    BY <1>1, <1>11, <1>12, <1>13, ReviewAssumption DEF Clean, Verdict, Refused

----------------------------------------------------------------------------
LEMMA ReviewStep == ReviewInv /\ [ReviewNext]_reviewVars => ReviewInv'
BY PlanInv, CodeInv, AdvanceInv, ReviewStartsInv, ReviewTriesInv, ProbeEndsInv, ReviewSucceedsInv, MergeInv,
   DrainInv, StopInv, ResumeRetryInv, ResumeMovedInv, AcceptRiskInv DEF ReviewNext

(* The ticket's course, its ledger and its answers stay what ReviewInv     *)
(* says, whatever reviews, resumes, redesigns and moved heads come.        *)
THEOREM ReviewInductive == ReviewSpec => []ReviewInv
BY StartInv, ReviewStep, PTL DEF ReviewSpec

(* The ledger is well formed, and the bounds on repairs and probes hold.   *)
THEOREM ReviewTypes == ReviewSpec => []ReviewTypeOK
BY InvTypes, ReviewInductive, PTL

(* What is sent to the forge has no debt: every finding ever owed was      *)
(* called fixed or invalid by a completed review, or is a major one that   *)
(* the operator accepted for the very head that is sent.                   *)
THEOREM WhatShipsIsAnswered == ReviewSpec => []ShippedIsAnswered
<1>1. ReviewInv => ShippedIsAnswered
    BY DEF ReviewInv
<1> QED
    BY <1>1, ReviewInductive, PTL

(* After a loopback no review starts before an author has answered all     *)
(* that is owed, but for what is accepted at the head of the last resume.  *)
THEOREM AnAuthorAnswersFirst == ReviewSpec => []AuthorsAnswerFirst
<1>1. ReviewInv => AuthorsAnswerFirst
    BY DEF ReviewInv, LedgerInv, AnswerInv, AuthorsAnswerFirst, OpenDebt, Debt
<1> QED
    BY <1>1, ReviewInductive, PTL

(* The reviewers of a ticket get ProbeLimit commands, and a crash or a     *)
(* resume gives none back.                                                 *)
THEOREM ProbesStayBounded == ReviewSpec => []ProbesAreBounded
<1>1. ReviewInv => ProbesAreBounded
    BY ReviewAssumption DEF ReviewInv, Course, ProbesAreBounded
<1> QED
    BY <1>1, ReviewInductive, PTL

----------------------------------------------------------------------------
(* The step journal, for every set of steps and every budget.  The         *)
(* conjuncts of IInv name, in order, what the run code, the door, the stop *)
(* handler and recovery rely on.                                           *)

USE StepsAssumption, BoundsAssumption

(* The phases in which the run code is on a step.                          *)
OnStep == phase \in {"inserted", "executing", "failed", "parking", "marked"}

LEMMA ReopenedType ==
    ASSUME row \in [Steps -> Row], NEW R \in SUBSET Steps, NEW Z \in SUBSET Steps
    PROVE  Reopened(row, R, Z) \in [Steps -> Row]
BY DEF Reopened, resetToPending, resetAttempt, Row, Status

LEMMA ZeroedType ==
    ASSUME NEW f \in [Steps -> Nat], NEW Z \in SUBSET Steps
    PROVE  Zeroed(f, Z) \in [Steps -> Nat]
BY DEF Zeroed

LEMMA CountLostType ==
    ASSUME spent \in [Steps -> Nat]
    PROVE  CountLost \in [Steps -> Nat]
BY DEF CountLost

(* The run code is on a step exactly in the phases that work on one, the   *)
(* row of that step tells how far it is, and only an up process executes.  *)
Control ==
    /\ OnStep => cur \in Steps
    /\ ~OnStep => cur = NoStep
    /\ proc = "down" => phase = "idle"
    /\ proc = "recovering" => phase \in {"idle", "marked"}
    /\ phase = "marked" => proc = "recovering" /\ cur \in SuiteSteps
    /\ proc \in {"stopping", "stopped"} => phase \in {"idle", "executing", "ended"}
    /\ phase \in {"executing", "parking"} /\ proc # "stopped" => row[cur].status = "running"
    /\ phase = "inserted" => row[cur].status = "pending" /\ row[cur].error = "none"
    /\ phase \in {"failed", "marked"} => row[cur].status = "failed"
    /\ \A s \in Steps : row[s].status = "absent" => row[s].attempt = 0 /\ row[s].start = 0

(* The door names the executing step and nothing else; the handler's copy  *)
(* is the door as it was, and it stays true while the process stops.       *)
DoorInv ==
    /\ proc \in {"up", "stopping"} =>
         door = IF phase = "executing" THEN [step |-> cur, start |-> row[cur].start] ELSE Nobody
    /\ proc \in {"down", "recovering"} => door = Nobody
    /\ proc = "stopping" => seen = door

(* Starts are numbered in order, the executing start has not been given    *)
(* back, and a start that has a note was given back by the stop handler.   *)
NoteInv ==
    /\ \A s \in Steps : row[s].start <= clock
    /\ \A n \in notes : 0 < n.start /\ n.start <= clock
    /\ proc \in {"up", "stopping"} /\ phase \in {"executing", "parking"} => 0 < row[cur].start
    /\ \A n \in notes : row[n.step].start = n.start => refund[n.step] = "stop"
    /\ proc \in {"up", "stopping"} /\ phase \in {"executing", "parking"} => refund[cur] = "no"

(* Failures since the last grant never exceed the attempts that were       *)
(* consumed, and a step that may be started again has failed less than     *)
(* MaxAttempts.                                                            *)
BudgetInv ==
    /\ \A s \in Steps : fails[s] <= spent[s] /\ fails[s] <= MaxAttempts
    /\ proc = "recovering" => \A s \in Steps : fails[s] = 0
    /\ proc = "up" /\ phase # "ended" =>
         \A s \in Steps : fails[s] < MaxAttempts \/ (phase = "failed" /\ cur = s)

(* A suite row that holds no execution fault left over by a crash.         *)
Settled(s) ==
    /\ row[s].status = "failed" => row[s].error # "execution"
    /\ row[s].status = "pending" /\ row[s].error = "execution" => row[s].attempt < MaxAttempts

SuiteInv ==
    /\ \A s \in Steps : row[s].status = "succeeded" => row[s].error = "none"
    /\ proc = "up" /\ phase # "ended" => \A s \in SuiteSteps : Settled(s) \/ cur = s
    /\ proc = "recovering" =>
         \A s \in SuiteSteps :
            /\ Settled(s) \/ cur = s
            /\ row[s].status = "running" \/ cur = s => row[s].attempt < MaxAttempts

IInv == TypeOK /\ Control /\ DoorInv /\ AttemptLedger /\ NoOrphan /\ NoteInv /\ BudgetInv /\ SuiteInv

(* Types.  A decrement needs the ledger: the attempt given back was counted. *)
LEMMA TypeStep ==
    ASSUME TypeOK, Control, DoorInv, AttemptLedger, [Next]_vars
    PROVE  TypeOK'
<1> USE DEF OnStep, Nobody, Row, Status, Errors, InFlight, Note, TypeOK, insertPending, markRunning, markSucceeded, markFailed, resetToPending,
           decrementAttempt, resetAttempt, Control, DoorInv
<1>1. ASSUME NEW s \in Steps, Insert(s)
      PROVE  TypeOK'
  BY <1>1 DEF Insert, disk, memory, observers, Exists
<1>2. ASSUME NEW s \in Steps, MarkRunning(s)
      PROVE  TypeOK'
  BY <1>2 DEF MarkRunning, disk, memory, observers
<1>3. ASSUME NEW s \in Steps, Replay(s)
      PROVE  TypeOK'
  BY <1>3 DEF Replay, disk, memory, observers
<1>4. ASSUME NEW R \in SUBSET Steps, NEW Z \in SUBSET R, NEW esc \in BOOLEAN, Succeed(R, Z, esc)
      PROVE  TypeOK'
  BY <1>4 DEF Succeed, disk, memory, observers, Reopened, Executing, EndStep, Exists, Zeroed
<1>5. ASSUME NEW e \in {"execution", "other"}, Fail(e)
      PROVE  TypeOK'
  BY <1>5 DEF Fail, disk, memory, observers, Executing, EndStep
<1>6. ASSUME Park
      PROVE  TypeOK'
  BY <1>6 DEF Park, disk, memory, observers, Executing, EndStep
<1>7. ASSUME ParkRecord
      PROVE  TypeOK'
  BY <1>7 DEF ParkRecord, disk, memory, observers, AttemptLedger, Undecided
<1>8. ASSUME PolicyEscalate
      PROVE  TypeOK'
  BY <1>8 DEF PolicyEscalate, disk, memory, observers
<1>9. ASSUME PolicyRetry
      PROVE  TypeOK'
  BY <1>9 DEF PolicyRetry, disk, memory, observers, Reopened
<1>10. ASSUME NEW R \in SUBSET Steps, NEW Z \in SUBSET R, PolicyLoopback(R, Z)
      PROVE  TypeOK'
  BY <1>10 DEF PolicyLoopback, disk, memory, observers, Reopened, Zeroed
<1>11. ASSUME Exit
      PROVE  TypeOK'
  BY <1>11 DEF Exit, disk, memory, observers, LeaveMemory
<1>12. ASSUME StopSignal
      PROVE  TypeOK'
  BY <1>12 DEF StopSignal, disk, memory, observers
<1>13. ASSUME RecordInterruption
      PROVE  TypeOK'
  BY <1>13 DEF RecordInterruption, disk, memory, observers, SameStart, AttemptLedger, Undecided
<1>14. ASSUME StopExit
      PROVE  TypeOK'
  BY <1>14 DEF StopExit, disk, memory, observers, LeaveMemory, CountLost, Undecided
<1>15. ASSUME Crash
      PROVE  TypeOK'
  BY <1>15 DEF Crash, disk, memory, observers, LeaveMemory, CountLost, Undecided
<1>16. ASSUME NEW R \in SUBSET Steps, Resume(R)
      PROVE  TypeOK'
  BY <1>16 DEF Resume, disk, memory, observers, Reopened, Granted, Exhausted, ExecutionError, Zeroed
<1>17. ASSUME NEW s \in Steps, RecoverFree(s)
      PROVE  TypeOK'
  BY <1>17 DEF RecoverFree, disk, memory, observers, Reopened
<1>18. ASSUME NEW s \in Steps, RecoverMark(s)
      PROVE  TypeOK'
  BY <1>18 DEF RecoverMark, disk, memory, observers
<1>19. ASSUME RecoverReset
      PROVE  TypeOK'
  BY <1>19 DEF RecoverReset, disk, memory, observers, Reopened
<1>20. ASSUME RecoverDone
      PROVE  TypeOK'
  BY <1>20 DEF RecoverDone, disk, memory, observers
<1>21. ASSUME UNCHANGED vars
      PROVE  TypeOK'
  BY <1>21 DEF vars, disk, memory, observers
<1> HIDE DEF OnStep, Nobody, Row, Status, Errors, InFlight, Note, TypeOK, insertPending, markRunning, markSucceeded, markFailed, resetToPending,
           decrementAttempt, resetAttempt, Control, DoorInv
<1> QED
  BY <1>1, <1>2, <1>3, <1>4, <1>5, <1>6, <1>7, <1>8, <1>9, <1>10, <1>11,
     <1>12, <1>13, <1>14, <1>15, <1>16, <1>17, <1>18, <1>19, <1>20, <1>21
  DEF Next, Start, End, Policy, Leave, Restart

(* Control.  The phases, the current step and the status of its row agree. *)
LEMMA ControlStep ==
    ASSUME TypeOK, Control, [Next]_vars
    PROVE  Control'
<1> USE DEF OnStep, Nobody, Row, Status, Errors, InFlight, Note, TypeOK, insertPending, markRunning, markSucceeded, markFailed, resetToPending,
           decrementAttempt, resetAttempt, Control
<1>1. ASSUME NEW s \in Steps, Insert(s)
      PROVE  Control'
  BY <1>1 DEF Insert, disk, memory, observers, Exists
<1>2. ASSUME NEW s \in Steps, MarkRunning(s)
      PROVE  Control'
  BY <1>2 DEF MarkRunning, disk, memory, observers
<1>3. ASSUME NEW s \in Steps, Replay(s)
      PROVE  Control'
  BY <1>3 DEF Replay, disk, memory, observers
<1>4. ASSUME NEW R \in SUBSET Steps, NEW Z \in SUBSET R, NEW esc \in BOOLEAN, Succeed(R, Z, esc)
      PROVE  Control'
  BY <1>4 DEF Succeed, disk, memory, observers, Reopened, Executing, EndStep, Exists
<1>5. ASSUME NEW e \in {"execution", "other"}, Fail(e)
      PROVE  Control'
  BY <1>5 DEF Fail, disk, memory, observers, Executing, EndStep
<1>6. ASSUME Park
      PROVE  Control'
  BY <1>6 DEF Park, disk, memory, observers, Executing, EndStep
<1>7. ASSUME ParkRecord
      PROVE  Control'
  BY <1>7 DEF ParkRecord, disk, memory, observers
<1>8. ASSUME PolicyEscalate
      PROVE  Control'
  BY <1>8 DEF PolicyEscalate, disk, memory, observers
<1>9. ASSUME PolicyRetry
      PROVE  Control'
  BY <1>9 DEF PolicyRetry, disk, memory, observers, Reopened
<1>10. ASSUME NEW R \in SUBSET Steps, NEW Z \in SUBSET R, PolicyLoopback(R, Z)
      PROVE  Control'
  BY <1>10 DEF PolicyLoopback, disk, memory, observers, Reopened
<1>11. ASSUME Exit
      PROVE  Control'
  BY <1>11 DEF Exit, disk, memory, observers, LeaveMemory
<1>12. ASSUME StopSignal
      PROVE  Control'
  BY <1>12 DEF StopSignal, disk, memory, observers
<1>13. ASSUME RecordInterruption
      PROVE  Control'
  <2>1. CASE seen.step # NoStep /\ SameStart(seen.step, seen.start)
    <3>1. seen.step \in Steps /\ row[seen.step].status = "running"
      BY <2>1 DEF SameStart
    <3>2. \A s \in Steps : row'[s].status = row[s].status /\ row'[s].error = row[s].error
      BY <1>13, <2>1, <3>1 DEF RecordInterruption
    <3>3. \A s \in Steps : s # seen.step => row'[s] = row[s]
      BY <1>13, <2>1, <3>1 DEF RecordInterruption
    <3> QED
      BY <1>13, <3>1, <3>2, <3>3 DEF RecordInterruption, disk, memory, observers
  <2>2. CASE ~(seen.step # NoStep /\ SameStart(seen.step, seen.start))
    BY <1>13, <2>2 DEF RecordInterruption, disk, memory, observers
  <2> QED
    BY <2>1, <2>2
<1>14. ASSUME StopExit
      PROVE  Control'
  BY <1>14 DEF StopExit, disk, memory, observers, LeaveMemory, CountLost, Undecided
<1>15. ASSUME Crash
      PROVE  Control'
  BY <1>15 DEF Crash, disk, memory, observers, LeaveMemory, CountLost, Undecided
<1>16. ASSUME NEW R \in SUBSET Steps, Resume(R)
      PROVE  Control'
  BY <1>16 DEF Resume, disk, memory, observers, Reopened, Granted, Exhausted, ExecutionError
<1>17. ASSUME NEW s \in Steps, RecoverFree(s)
      PROVE  Control'
  BY <1>17 DEF RecoverFree, disk, memory, observers, Reopened
<1>18. ASSUME NEW s \in Steps, RecoverMark(s)
      PROVE  Control'
  BY <1>18 DEF RecoverMark, disk, memory, observers
<1>19. ASSUME RecoverReset
      PROVE  Control'
  BY <1>19 DEF RecoverReset, disk, memory, observers, Reopened
<1>20. ASSUME RecoverDone
      PROVE  Control'
  BY <1>20 DEF RecoverDone, disk, memory, observers
<1>21. ASSUME UNCHANGED vars
      PROVE  Control'
  BY <1>21 DEF vars, disk, memory, observers
<1> HIDE DEF OnStep, Nobody, Row, Status, Errors, InFlight, Note, TypeOK, insertPending, markRunning, markSucceeded, markFailed, resetToPending,
           decrementAttempt, resetAttempt, Control
<1> QED
  BY <1>1, <1>2, <1>3, <1>4, <1>5, <1>6, <1>7, <1>8, <1>9, <1>10, <1>11,
     <1>12, <1>13, <1>14, <1>15, <1>16, <1>17, <1>18, <1>19, <1>20, <1>21
  DEF Next, Start, End, Policy, Leave, Restart

(* The door is written with the row it names and emptied with its end.     *)
LEMMA DoorStep ==
    ASSUME TypeOK, Control, DoorInv, [Next]_vars
    PROVE  DoorInv'
<1> USE DEF OnStep, Nobody, Row, Status, Errors, InFlight, Note, TypeOK, insertPending, markRunning, markSucceeded, markFailed, resetToPending,
           decrementAttempt, resetAttempt, Control, DoorInv
<1>1. ASSUME NEW s \in Steps, Insert(s)
      PROVE  DoorInv'
  BY <1>1 DEF Insert, disk, memory, observers, Exists
<1>2. ASSUME NEW s \in Steps, MarkRunning(s)
      PROVE  DoorInv'
  BY <1>2 DEF MarkRunning, disk, memory, observers
<1>3. ASSUME NEW s \in Steps, Replay(s)
      PROVE  DoorInv'
  BY <1>3 DEF Replay, disk, memory, observers
<1>4. ASSUME NEW R \in SUBSET Steps, NEW Z \in SUBSET R, NEW esc \in BOOLEAN, Succeed(R, Z, esc)
      PROVE  DoorInv'
  BY <1>4 DEF Succeed, disk, memory, observers, Reopened, Executing, EndStep, Exists
<1>5. ASSUME NEW e \in {"execution", "other"}, Fail(e)
      PROVE  DoorInv'
  BY <1>5 DEF Fail, disk, memory, observers, Executing, EndStep
<1>6. ASSUME Park
      PROVE  DoorInv'
  BY <1>6 DEF Park, disk, memory, observers, Executing, EndStep
<1>7. ASSUME ParkRecord
      PROVE  DoorInv'
  BY <1>7 DEF ParkRecord, disk, memory, observers
<1>8. ASSUME PolicyEscalate
      PROVE  DoorInv'
  BY <1>8 DEF PolicyEscalate, disk, memory, observers
<1>9. ASSUME PolicyRetry
      PROVE  DoorInv'
  BY <1>9 DEF PolicyRetry, disk, memory, observers, Reopened
<1>10. ASSUME NEW R \in SUBSET Steps, NEW Z \in SUBSET R, PolicyLoopback(R, Z)
      PROVE  DoorInv'
  BY <1>10 DEF PolicyLoopback, disk, memory, observers, Reopened
<1>11. ASSUME Exit
      PROVE  DoorInv'
  BY <1>11 DEF Exit, disk, memory, observers, LeaveMemory
<1>12. ASSUME StopSignal
      PROVE  DoorInv'
  BY <1>12 DEF StopSignal, disk, memory, observers
<1>13. ASSUME RecordInterruption
      PROVE  DoorInv'
  BY <1>13 DEF RecordInterruption, disk, memory, observers, SameStart
<1>14. ASSUME StopExit
      PROVE  DoorInv'
  BY <1>14 DEF StopExit, disk, memory, observers, LeaveMemory, CountLost, Undecided
<1>15. ASSUME Crash
      PROVE  DoorInv'
  BY <1>15 DEF Crash, disk, memory, observers, LeaveMemory, CountLost, Undecided
<1>16. ASSUME NEW R \in SUBSET Steps, Resume(R)
      PROVE  DoorInv'
  BY <1>16 DEF Resume, disk, memory, observers, Reopened, Granted, Exhausted, ExecutionError
<1>17. ASSUME NEW s \in Steps, RecoverFree(s)
      PROVE  DoorInv'
  BY <1>17 DEF RecoverFree, disk, memory, observers, Reopened
<1>18. ASSUME NEW s \in Steps, RecoverMark(s)
      PROVE  DoorInv'
  BY <1>18 DEF RecoverMark, disk, memory, observers
<1>19. ASSUME RecoverReset
      PROVE  DoorInv'
  BY <1>19 DEF RecoverReset, disk, memory, observers, Reopened
<1>20. ASSUME RecoverDone
      PROVE  DoorInv'
  BY <1>20 DEF RecoverDone, disk, memory, observers
<1>21. ASSUME UNCHANGED vars
      PROVE  DoorInv'
  BY <1>21 DEF vars, disk, memory, observers
<1> HIDE DEF OnStep, Nobody, Row, Status, Errors, InFlight, Note, TypeOK, insertPending, markRunning, markSucceeded, markFailed, resetToPending,
           decrementAttempt, resetAttempt, Control, DoorInv
<1> QED
  BY <1>1, <1>2, <1>3, <1>4, <1>5, <1>6, <1>7, <1>8, <1>9, <1>10, <1>11,
     <1>12, <1>13, <1>14, <1>15, <1>16, <1>17, <1>18, <1>19, <1>20, <1>21
  DEF Next, Start, End, Policy, Leave, Restart

(* The ledger.  Each way a start can end is counted once, or given back.   *)
LEMMA LedgerStep ==
    ASSUME TypeOK, Control, DoorInv, AttemptLedger, [Next]_vars
    PROVE  AttemptLedger'
<1> USE DEF OnStep, Nobody, Row, Status, Errors, InFlight, Note, TypeOK, insertPending, markRunning, markSucceeded, markFailed, resetToPending,
           decrementAttempt, resetAttempt, Control, DoorInv, AttemptLedger, Undecided
<1>1. ASSUME NEW s \in Steps, Insert(s)
      PROVE  AttemptLedger'
  BY <1>1 DEF Insert, disk, memory, observers, Exists
<1>2. ASSUME NEW s \in Steps, MarkRunning(s)
      PROVE  AttemptLedger'
  BY <1>2 DEF MarkRunning, disk, memory, observers
<1>3. ASSUME NEW s \in Steps, Replay(s)
      PROVE  AttemptLedger'
  BY <1>3 DEF Replay, disk, memory, observers
<1>4. ASSUME NEW R \in SUBSET Steps, NEW Z \in SUBSET R, NEW esc \in BOOLEAN, Succeed(R, Z, esc)
      PROVE  AttemptLedger'
  BY <1>4 DEF Succeed, disk, memory, observers, Reopened, Executing, EndStep, Exists, Zeroed
<1>5. ASSUME NEW e \in {"execution", "other"}, Fail(e)
      PROVE  AttemptLedger'
  BY <1>5 DEF Fail, disk, memory, observers, Executing, EndStep
<1>6. ASSUME Park
      PROVE  AttemptLedger'
  BY <1>6 DEF Park, disk, memory, observers, Executing, EndStep
<1>7. ASSUME ParkRecord
      PROVE  AttemptLedger'
  BY <1>7 DEF ParkRecord, disk, memory, observers
<1>8. ASSUME PolicyEscalate
      PROVE  AttemptLedger'
  BY <1>8 DEF PolicyEscalate, disk, memory, observers
<1>9. ASSUME PolicyRetry
      PROVE  AttemptLedger'
  BY <1>9 DEF PolicyRetry, disk, memory, observers, Reopened
<1>10. ASSUME NEW R \in SUBSET Steps, NEW Z \in SUBSET R, PolicyLoopback(R, Z)
      PROVE  AttemptLedger'
  BY <1>10 DEF PolicyLoopback, disk, memory, observers, Reopened, Zeroed
<1>11. ASSUME Exit
      PROVE  AttemptLedger'
  BY <1>11 DEF Exit, disk, memory, observers, LeaveMemory
<1>12. ASSUME StopSignal
      PROVE  AttemptLedger'
  BY <1>12 DEF StopSignal, disk, memory, observers
<1>13. ASSUME RecordInterruption
      PROVE  AttemptLedger'
  BY <1>13 DEF RecordInterruption, disk, memory, observers, SameStart
<1>14. ASSUME StopExit
      PROVE  AttemptLedger'
  BY <1>14 DEF StopExit, disk, memory, observers, LeaveMemory, CountLost, Undecided
<1>15. ASSUME Crash
      PROVE  AttemptLedger'
  BY <1>15 DEF Crash, disk, memory, observers, LeaveMemory, CountLost, Undecided
<1>16. ASSUME NEW R \in SUBSET Steps, Resume(R)
      PROVE  AttemptLedger'
  BY <1>16 DEF Resume, disk, memory, observers, Reopened, Granted, Exhausted, ExecutionError, Zeroed
<1>17. ASSUME NEW s \in Steps, RecoverFree(s)
      PROVE  AttemptLedger'
  BY <1>17 DEF RecoverFree, disk, memory, observers, Reopened
<1>18. ASSUME NEW s \in Steps, RecoverMark(s)
      PROVE  AttemptLedger'
  BY <1>18 DEF RecoverMark, disk, memory, observers
<1>19. ASSUME RecoverReset
      PROVE  AttemptLedger'
  BY <1>19 DEF RecoverReset, disk, memory, observers, Reopened
<1>20. ASSUME RecoverDone
      PROVE  AttemptLedger'
  BY <1>20 DEF RecoverDone, disk, memory, observers
<1>21. ASSUME UNCHANGED vars
      PROVE  AttemptLedger'
  BY <1>21 DEF vars, disk, memory, observers
<1> HIDE DEF OnStep, Nobody, Row, Status, Errors, InFlight, Note, TypeOK, insertPending, markRunning, markSucceeded, markFailed, resetToPending,
           decrementAttempt, resetAttempt, Control, DoorInv, AttemptLedger, Undecided
<1> QED
  BY <1>1, <1>2, <1>3, <1>4, <1>5, <1>6, <1>7, <1>8, <1>9, <1>10, <1>11,
     <1>12, <1>13, <1>14, <1>15, <1>16, <1>17, <1>18, <1>19, <1>20, <1>21
  DEF Next, Start, End, Policy, Leave, Restart

(* No orphan.  Only RecoverDone brings a process up, once nothing runs.    *)
LEMMA OrphanStep ==
    ASSUME TypeOK, Control, NoOrphan, [Next]_vars
    PROVE  NoOrphan'
<1> USE DEF OnStep, Nobody, Row, Status, Errors, InFlight, Note, TypeOK, insertPending, markRunning, markSucceeded, markFailed, resetToPending,
           decrementAttempt, resetAttempt, Control, NoOrphan
<1>1. ASSUME NEW s \in Steps, Insert(s)
      PROVE  NoOrphan'
  BY <1>1 DEF Insert, disk, memory, observers, Exists
<1>2. ASSUME NEW s \in Steps, MarkRunning(s)
      PROVE  NoOrphan'
  BY <1>2 DEF MarkRunning, disk, memory, observers
<1>3. ASSUME NEW s \in Steps, Replay(s)
      PROVE  NoOrphan'
  BY <1>3 DEF Replay, disk, memory, observers
<1>4. ASSUME NEW R \in SUBSET Steps, NEW Z \in SUBSET R, NEW esc \in BOOLEAN, Succeed(R, Z, esc)
      PROVE  NoOrphan'
  BY <1>4 DEF Succeed, disk, memory, observers, Reopened, Executing, EndStep, Exists
<1>5. ASSUME NEW e \in {"execution", "other"}, Fail(e)
      PROVE  NoOrphan'
  BY <1>5 DEF Fail, disk, memory, observers, Executing, EndStep
<1>6. ASSUME Park
      PROVE  NoOrphan'
  BY <1>6 DEF Park, disk, memory, observers, Executing, EndStep
<1>7. ASSUME ParkRecord
      PROVE  NoOrphan'
  BY <1>7 DEF ParkRecord, disk, memory, observers
<1>8. ASSUME PolicyEscalate
      PROVE  NoOrphan'
  BY <1>8 DEF PolicyEscalate, disk, memory, observers
<1>9. ASSUME PolicyRetry
      PROVE  NoOrphan'
  BY <1>9 DEF PolicyRetry, disk, memory, observers, Reopened
<1>10. ASSUME NEW R \in SUBSET Steps, NEW Z \in SUBSET R, PolicyLoopback(R, Z)
      PROVE  NoOrphan'
  BY <1>10 DEF PolicyLoopback, disk, memory, observers, Reopened
<1>11. ASSUME Exit
      PROVE  NoOrphan'
  BY <1>11 DEF Exit, disk, memory, observers, LeaveMemory
<1>12. ASSUME StopSignal
      PROVE  NoOrphan'
  BY <1>12 DEF StopSignal, disk, memory, observers
<1>13. ASSUME RecordInterruption
      PROVE  NoOrphan'
  BY <1>13 DEF RecordInterruption, disk, memory, observers, SameStart
<1>14. ASSUME StopExit
      PROVE  NoOrphan'
  BY <1>14 DEF StopExit, disk, memory, observers, LeaveMemory, CountLost, Undecided
<1>15. ASSUME Crash
      PROVE  NoOrphan'
  BY <1>15 DEF Crash, disk, memory, observers, LeaveMemory, CountLost, Undecided
<1>16. ASSUME NEW R \in SUBSET Steps, Resume(R)
      PROVE  NoOrphan'
  BY <1>16 DEF Resume, disk, memory, observers, Reopened, Granted, Exhausted, ExecutionError
<1>17. ASSUME NEW s \in Steps, RecoverFree(s)
      PROVE  NoOrphan'
  BY <1>17 DEF RecoverFree, disk, memory, observers, Reopened
<1>18. ASSUME NEW s \in Steps, RecoverMark(s)
      PROVE  NoOrphan'
  BY <1>18 DEF RecoverMark, disk, memory, observers
<1>19. ASSUME RecoverReset
      PROVE  NoOrphan'
  BY <1>19 DEF RecoverReset, disk, memory, observers, Reopened
<1>20. ASSUME RecoverDone
      PROVE  NoOrphan'
  BY <1>20 DEF RecoverDone, disk, memory, observers
<1>21. ASSUME UNCHANGED vars
      PROVE  NoOrphan'
  BY <1>21 DEF vars, disk, memory, observers
<1> HIDE DEF OnStep, Nobody, Row, Status, Errors, InFlight, Note, TypeOK, insertPending, markRunning, markSucceeded, markFailed, resetToPending,
           decrementAttempt, resetAttempt, Control, NoOrphan
<1> QED
  BY <1>1, <1>2, <1>3, <1>4, <1>5, <1>6, <1>7, <1>8, <1>9, <1>10, <1>11,
     <1>12, <1>13, <1>14, <1>15, <1>16, <1>17, <1>18, <1>19, <1>20, <1>21
  DEF Next, Start, End, Policy, Leave, Restart

(* Notes.  A new start is numbered past every note there is.               *)
LEMMA NoteStep ==
    ASSUME TypeOK, Control, DoorInv, NoteInv, [Next]_vars
    PROVE  NoteInv'
<1> USE DEF OnStep, Nobody, Row, Status, Errors, InFlight, Note, TypeOK, insertPending, markRunning, markSucceeded, markFailed, resetToPending,
           decrementAttempt, resetAttempt, Control, DoorInv, NoteInv
<1>1. ASSUME NEW s \in Steps, Insert(s)
      PROVE  NoteInv'
  BY <1>1 DEF Insert, disk, memory, observers, Exists
<1>2. ASSUME NEW s \in Steps, MarkRunning(s)
      PROVE  NoteInv'
  BY <1>2 DEF MarkRunning, disk, memory, observers
<1>3. ASSUME NEW s \in Steps, Replay(s)
      PROVE  NoteInv'
  BY <1>3 DEF Replay, disk, memory, observers
<1>4. ASSUME NEW R \in SUBSET Steps, NEW Z \in SUBSET R, NEW esc \in BOOLEAN, Succeed(R, Z, esc)
      PROVE  NoteInv'
  BY <1>4 DEF Succeed, disk, memory, observers, Reopened, Executing, EndStep, Exists
<1>5. ASSUME NEW e \in {"execution", "other"}, Fail(e)
      PROVE  NoteInv'
  BY <1>5 DEF Fail, disk, memory, observers, Executing, EndStep
<1>6. ASSUME Park
      PROVE  NoteInv'
  BY <1>6 DEF Park, disk, memory, observers, Executing, EndStep
<1>7. ASSUME ParkRecord
      PROVE  NoteInv'
  BY <1>7 DEF ParkRecord, disk, memory, observers
<1>8. ASSUME PolicyEscalate
      PROVE  NoteInv'
  BY <1>8 DEF PolicyEscalate, disk, memory, observers
<1>9. ASSUME PolicyRetry
      PROVE  NoteInv'
  BY <1>9 DEF PolicyRetry, disk, memory, observers, Reopened
<1>10. ASSUME NEW R \in SUBSET Steps, NEW Z \in SUBSET R, PolicyLoopback(R, Z)
      PROVE  NoteInv'
  BY <1>10 DEF PolicyLoopback, disk, memory, observers, Reopened
<1>11. ASSUME Exit
      PROVE  NoteInv'
  BY <1>11 DEF Exit, disk, memory, observers, LeaveMemory
<1>12. ASSUME StopSignal
      PROVE  NoteInv'
  BY <1>12 DEF StopSignal, disk, memory, observers
<1>13. ASSUME RecordInterruption
      PROVE  NoteInv'
  BY <1>13 DEF RecordInterruption, disk, memory, observers, SameStart
<1>14. ASSUME StopExit
      PROVE  NoteInv'
  BY <1>14 DEF StopExit, disk, memory, observers, LeaveMemory, CountLost, Undecided
<1>15. ASSUME Crash
      PROVE  NoteInv'
  BY <1>15 DEF Crash, disk, memory, observers, LeaveMemory, CountLost, Undecided
<1>16. ASSUME NEW R \in SUBSET Steps, Resume(R)
      PROVE  NoteInv'
  BY <1>16 DEF Resume, disk, memory, observers, Reopened, Granted, Exhausted, ExecutionError
<1>17. ASSUME NEW s \in Steps, RecoverFree(s)
      PROVE  NoteInv'
  BY <1>17 DEF RecoverFree, disk, memory, observers, Reopened
<1>18. ASSUME NEW s \in Steps, RecoverMark(s)
      PROVE  NoteInv'
  BY <1>18 DEF RecoverMark, disk, memory, observers
<1>19. ASSUME RecoverReset
      PROVE  NoteInv'
  BY <1>19 DEF RecoverReset, disk, memory, observers, Reopened
<1>20. ASSUME RecoverDone
      PROVE  NoteInv'
  BY <1>20 DEF RecoverDone, disk, memory, observers
<1>21. ASSUME UNCHANGED vars
      PROVE  NoteInv'
  BY <1>21 DEF vars, disk, memory, observers
<1> HIDE DEF OnStep, Nobody, Row, Status, Errors, InFlight, Note, TypeOK, insertPending, markRunning, markSucceeded, markFailed, resetToPending,
           decrementAttempt, resetAttempt, Control, DoorInv, NoteInv
<1> QED
  BY <1>1, <1>2, <1>3, <1>4, <1>5, <1>6, <1>7, <1>8, <1>9, <1>10, <1>11,
     <1>12, <1>13, <1>14, <1>15, <1>16, <1>17, <1>18, <1>19, <1>20, <1>21
  DEF Next, Start, End, Policy, Leave, Restart

(* Budget.  The policy lets only an unexhausted step start again.          *)
LEMMA BudgetStep ==
    ASSUME TypeOK, Control, AttemptLedger, BudgetInv, [Next]_vars
    PROVE  BudgetInv'
<1> USE DEF OnStep, Nobody, Row, Status, Errors, InFlight, Note, TypeOK, insertPending, markRunning, markSucceeded, markFailed, resetToPending,
           decrementAttempt, resetAttempt, Control, BudgetInv
<1>1. ASSUME NEW s \in Steps, Insert(s)
      PROVE  BudgetInv'
  BY <1>1 DEF Insert, disk, memory, observers, Exists
<1>2. ASSUME NEW s \in Steps, MarkRunning(s)
      PROVE  BudgetInv'
  BY <1>2 DEF MarkRunning, disk, memory, observers
<1>3. ASSUME NEW s \in Steps, Replay(s)
      PROVE  BudgetInv'
  BY <1>3 DEF Replay, disk, memory, observers
<1>4. ASSUME NEW R \in SUBSET Steps, NEW Z \in SUBSET R, NEW esc \in BOOLEAN, Succeed(R, Z, esc)
      PROVE  BudgetInv'
  BY <1>4 DEF Succeed, disk, memory, observers, Reopened, Executing, EndStep, Exists, Zeroed
<1>5. ASSUME NEW e \in {"execution", "other"}, Fail(e)
      PROVE  BudgetInv'
  BY <1>5 DEF Fail, disk, memory, observers, Executing, EndStep
<1>6. ASSUME Park
      PROVE  BudgetInv'
  BY <1>6 DEF Park, disk, memory, observers, Executing, EndStep
<1>7. ASSUME ParkRecord
      PROVE  BudgetInv'
  BY <1>7 DEF ParkRecord, disk, memory, observers
<1>8. ASSUME PolicyEscalate
      PROVE  BudgetInv'
  BY <1>8 DEF PolicyEscalate, disk, memory, observers
<1>9. ASSUME PolicyRetry
      PROVE  BudgetInv'
  BY <1>9 DEF PolicyRetry, disk, memory, observers, Reopened, Exhausted, AttemptLedger, Undecided
<1>10. ASSUME NEW R \in SUBSET Steps, NEW Z \in SUBSET R, PolicyLoopback(R, Z)
      PROVE  BudgetInv'
  BY <1>10 DEF PolicyLoopback, disk, memory, observers, Reopened, Zeroed, Exhausted, AttemptLedger, Undecided
<1>11. ASSUME Exit
      PROVE  BudgetInv'
  BY <1>11 DEF Exit, disk, memory, observers, LeaveMemory
<1>12. ASSUME StopSignal
      PROVE  BudgetInv'
  BY <1>12 DEF StopSignal, disk, memory, observers
<1>13. ASSUME RecordInterruption
      PROVE  BudgetInv'
  BY <1>13 DEF RecordInterruption, disk, memory, observers, SameStart
<1>14. ASSUME StopExit
      PROVE  BudgetInv'
  BY <1>14 DEF StopExit, disk, memory, observers, LeaveMemory, CountLost, Undecided
<1>15. ASSUME Crash
      PROVE  BudgetInv'
  BY <1>15 DEF Crash, disk, memory, observers, LeaveMemory, CountLost, Undecided
<1>16. ASSUME NEW R \in SUBSET Steps, Resume(R)
      PROVE  BudgetInv'
  BY <1>16 DEF Resume, disk, memory, observers, Reopened, Granted, Exhausted, ExecutionError, Zeroed
<1>17. ASSUME NEW s \in Steps, RecoverFree(s)
      PROVE  BudgetInv'
  BY <1>17 DEF RecoverFree, disk, memory, observers, Reopened
<1>18. ASSUME NEW s \in Steps, RecoverMark(s)
      PROVE  BudgetInv'
  BY <1>18 DEF RecoverMark, disk, memory, observers
<1>19. ASSUME RecoverReset
      PROVE  BudgetInv'
  BY <1>19 DEF RecoverReset, disk, memory, observers, Reopened
<1>20. ASSUME RecoverDone
      PROVE  BudgetInv'
  BY <1>20 DEF RecoverDone, disk, memory, observers
<1>21. ASSUME UNCHANGED vars
      PROVE  BudgetInv'
  BY <1>21 DEF vars, disk, memory, observers
<1> HIDE DEF OnStep, Nobody, Row, Status, Errors, InFlight, Note, TypeOK, insertPending, markRunning, markSucceeded, markFailed, resetToPending,
           decrementAttempt, resetAttempt, Control, BudgetInv
<1> QED
  BY <1>1, <1>2, <1>3, <1>4, <1>5, <1>6, <1>7, <1>8, <1>9, <1>10, <1>11,
     <1>12, <1>13, <1>14, <1>15, <1>16, <1>17, <1>18, <1>19, <1>20, <1>21
  DEF Next, Start, End, Policy, Leave, Restart

(* Suite rows.  The grant and recovery leave no execution fault behind.    *)
LEMMA SuiteStep ==
    ASSUME TypeOK, Control, NoOrphan, SuiteInv, [Next]_vars
    PROVE  SuiteInv'
<1> USE DEF OnStep, Nobody, Row, Status, Errors, InFlight, Note, TypeOK, insertPending, markRunning, markSucceeded, markFailed, resetToPending,
           decrementAttempt, resetAttempt, Control, NoOrphan, SuiteInv, Settled
<1>1. ASSUME NEW s \in Steps, Insert(s)
      PROVE  SuiteInv'
  BY <1>1 DEF Insert, disk, memory, observers, Exists
<1>2. ASSUME NEW s \in Steps, MarkRunning(s)
      PROVE  SuiteInv'
  BY <1>2 DEF MarkRunning, disk, memory, observers
<1>3. ASSUME NEW s \in Steps, Replay(s)
      PROVE  SuiteInv'
  BY <1>3 DEF Replay, disk, memory, observers
<1>4. ASSUME NEW R \in SUBSET Steps, NEW Z \in SUBSET R, NEW esc \in BOOLEAN, Succeed(R, Z, esc)
      PROVE  SuiteInv'
  BY <1>4 DEF Succeed, disk, memory, observers, Reopened, Executing, EndStep, Exists
<1>5. ASSUME NEW e \in {"execution", "other"}, Fail(e)
      PROVE  SuiteInv'
  BY <1>5 DEF Fail, disk, memory, observers, Executing, EndStep
<1>6. ASSUME Park
      PROVE  SuiteInv'
  BY <1>6 DEF Park, disk, memory, observers, Executing, EndStep
<1>7. ASSUME ParkRecord
      PROVE  SuiteInv'
  BY <1>7 DEF ParkRecord, disk, memory, observers
<1>8. ASSUME PolicyEscalate
      PROVE  SuiteInv'
  BY <1>8 DEF PolicyEscalate, disk, memory, observers, Exhausted
<1>9. ASSUME PolicyRetry
      PROVE  SuiteInv'
  BY <1>9 DEF PolicyRetry, disk, memory, observers, Reopened, Exhausted
<1>10. ASSUME NEW R \in SUBSET Steps, NEW Z \in SUBSET R, PolicyLoopback(R, Z)
      PROVE  SuiteInv'
  BY <1>10 DEF PolicyLoopback, disk, memory, observers, Reopened, Exhausted
<1>11. ASSUME Exit
      PROVE  SuiteInv'
  BY <1>11 DEF Exit, disk, memory, observers, LeaveMemory
<1>12. ASSUME StopSignal
      PROVE  SuiteInv'
  BY <1>12 DEF StopSignal, disk, memory, observers
<1>13. ASSUME RecordInterruption
      PROVE  SuiteInv'
  BY <1>13 DEF RecordInterruption, disk, memory, observers, SameStart
<1>14. ASSUME StopExit
      PROVE  SuiteInv'
  BY <1>14 DEF StopExit, disk, memory, observers, LeaveMemory, CountLost, Undecided
<1>15. ASSUME Crash
      PROVE  SuiteInv'
  BY <1>15 DEF Crash, disk, memory, observers, LeaveMemory, CountLost, Undecided
<1>16. ASSUME NEW R \in SUBSET Steps, Resume(R)
      PROVE  SuiteInv'
  <2>1. PICK granted, failed :
           /\ granted = {s \in Steps : Granted(s)} /\ failed = {s \in granted : row[s].status = "failed"}
           /\ row' = Reopened(row, R \cup failed, R \cup granted)
           /\ proc = "down" /\ proc' = "recovering" /\ UNCHANGED <<phase, cur>>
    BY <1>16 DEF Resume
  <2>2. cur' \notin Steps
    BY <2>1
  <2>3. ASSUME NEW s \in Steps
        PROVE  /\ row'[s].error = row[s].error
               /\ row'[s].status = IF s \in R \cup failed THEN "pending" ELSE row[s].status
               /\ row'[s].attempt = IF s \in R \cup granted THEN 0 ELSE row[s].attempt
    BY <2>1 DEF Reopened
  <2>4. ASSUME NEW s \in Steps
        PROVE  row'[s].status = "succeeded" => row'[s].error = "none"
    BY <2>3
  <2>5. ASSUME NEW s \in SuiteSteps
        PROVE  Settled(s)' /\ (row'[s].status = "running" => row'[s].attempt < MaxAttempts)
    <3>1. s \in Steps /\ row[s].attempt \in Nat
      OBVIOUS
    <3>2. CASE s \in R \cup granted
      <4>1. row'[s].attempt = 0 /\ 0 < MaxAttempts
        BY <2>3, <3>1, <3>2
      <4>2. row'[s].status # "failed" \/ row'[s].error # "execution"
        BY <2>1, <2>3, <3>1, <3>2
      <4> QED
        BY <4>1, <4>2
    <3>3. CASE s \notin R \cup granted
      <4>1. /\ row'[s].error = row[s].error /\ row'[s].status = row[s].status
            /\ row'[s].attempt = row[s].attempt
        BY <2>1, <2>3, <3>1, <3>3
      <4>2. ~Granted(s)
        BY <2>1, <3>1, <3>3
      <4> QED
        BY <3>1, <4>1, <4>2 DEF Granted, Exhausted, ExecutionError
    <3> QED
      BY <3>2, <3>3
  <2> QED
    BY <2>1, <2>2, <2>4, <2>5
<1>17. ASSUME NEW s \in Steps, RecoverFree(s)
      PROVE  SuiteInv'
  BY <1>17 DEF RecoverFree, disk, memory, observers, Reopened
<1>18. ASSUME NEW s \in Steps, RecoverMark(s)
      PROVE  SuiteInv'
  BY <1>18 DEF RecoverMark, disk, memory, observers
<1>19. ASSUME RecoverReset
      PROVE  SuiteInv'
  BY <1>19 DEF RecoverReset, disk, memory, observers, Reopened
<1>20. ASSUME RecoverDone
      PROVE  SuiteInv'
  BY <1>20 DEF RecoverDone, disk, memory, observers
<1>21. ASSUME UNCHANGED vars
      PROVE  SuiteInv'
  BY <1>21 DEF vars, disk, memory, observers
<1> HIDE DEF OnStep, Nobody, Row, Status, Errors, InFlight, Note, TypeOK, insertPending, markRunning, markSucceeded, markFailed, resetToPending,
           decrementAttempt, resetAttempt, Control, NoOrphan, SuiteInv, Settled
<1> QED
  BY <1>1, <1>2, <1>3, <1>4, <1>5, <1>6, <1>7, <1>8, <1>9, <1>10, <1>11,
     <1>12, <1>13, <1>14, <1>15, <1>16, <1>17, <1>18, <1>19, <1>20, <1>21
  DEF Next, Start, End, Policy, Leave, Restart

----------------------------------------------------------------------------
LEMMA InitIInv == Init => IInv
BY DEF Init, IInv, TypeOK, Control, DoorInv, AttemptLedger, Undecided, NoOrphan, NoteInv,
       BudgetInv, SuiteInv, Settled, OnStep, Nobody, Row, Status, Errors, InFlight, Note

LEMMA StepIInv == IInv /\ [Next]_vars => IInv'
BY TypeStep, ControlStep, DoorStep, LedgerStep, OrphanStep, NoteStep, BudgetStep, SuiteStep
   DEF IInv

(* The inductive invariant holds in every behaviour of the journal.        *)
THEOREM Inductive == Spec => []IInv
<1>1. Init => IInv
  BY InitIInv
<1>2. IInv /\ [Next]_vars => IInv'
  BY StepIInv
<1> QED
  BY <1>1, <1>2, PTL DEF Spec

(* Type correctness: in particular no attempt counter ever goes below      *)
(* zero, however parks, stops and crashes interleave.                      *)
THEOREM TypeCorrect == Spec => []TypeOK
<1>1. IInv => TypeOK
  BY DEF IInv
<1> QED
  BY <1>1, Inductive, PTL

(* Every attempt is accounted for: parks and recorded stops are free,      *)
(* successes, failures and crashes are counted once.                       *)
THEOREM AttemptsAccounted == Spec => []AttemptLedger
<1>1. IInv => AttemptLedger
  BY DEF IInv
<1> QED
  BY <1>1, Inductive, PTL

(* A run that is up never finds a step an earlier process left running.    *)
THEOREM NoOrphans == Spec => []NoOrphan
<1>1. IInv => NoOrphan
  BY DEF IInv
<1> QED
  BY <1>1, Inductive, PTL

(* Between two grants of a budget (a resetAttempt of the step's own row, or *)
(* a --resume) no step fails more than MaxAttempts times.                  *)
THEOREM BoundedRetries == Spec => []RetryBudget
<1>1. IInv => RetryBudget
  BY DEF IInv, BudgetInv, RetryBudget
<1> QED
  BY <1>1, Inductive, PTL

(* After --resume no suite step carries an execution fault it would have   *)
(* to be stopped for before it runs.                                       *)
THEOREM SuiteWindowsSettled == Spec => []NoStaleSuiteFailure
<1>1. IInv => NoStaleSuiteFailure
  BY DEF IInv, Control, OnStep, SuiteInv, Settled, NoStaleSuiteFailure, ExecutionError, Exhausted,
         TypeOK, Row
<1> QED
  BY <1>1, Inductive, PTL

(* An interruption note never frees any start but the one it was made for. *)
THEOREM StopsMatchTheirStart == Spec => []OnlyStopsMatch
<1>1. IInv => OnlyStopsMatch
  BY DEF IInv, NoteInv, OnlyStopsMatch, Matched
<1> QED
  BY <1>1, Inductive, PTL
=============================================================================
