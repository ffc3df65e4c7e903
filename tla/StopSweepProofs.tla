-------------------------- MODULE StopSweepProofs --------------------------
(***************************************************************************)
(* The properties of module StopSweep, for any number of launches and of   *)
(* sweeps at once.                                                         *)
(*                                                                         *)
(* The argument: a record is removed only by an actor that has seen its    *)
(* launch end (Ended), and what has ended stays so, whatever dies in       *)
(* between.  A pid is handed out again only after that (Occupied), and not *)
(* within a stop (Spared).  A name that is not found by three looks is     *)
(* gone, or was renamed twice meanwhile (Watched).                         *)
(***************************************************************************)
EXTENDS StopSweep, TLAPS

Clear == {"clear"} \cup Removing
Holding == {"claimed", "returning", "stopping", "forced"} \cup Clear
Between == {"idle", "names", "sweeping", "rescan", "done"}

(* No process of the launch is left, or what is left was named.            *)
Done(l) ==
    /\ lead[l] # "alive"
    /\ l \in Commands /\ kid[l] = "reach" => l \in told

(* A launch is recorded after it was spawned, and not without the owner.   *)
Launched ==
    /\ \A l \in Launches : handle[l] = "none" => lead[l] = "none"
    /\ \A l \in recorded : handle[l] \in {"live", "over"}
    /\ \A l \in Launches : rec[l] # "none" => l \in recorded
    /\ folder = "removed" => owner = "dead"
    /\ restarted => owner = "dead" /\ \A l \in Launches : lead[l] # "alive" /\ kid[l] # "reach"

(* Whoever stops or removes has a launch at hand; a sweep between two      *)
(* records has none.                                                       *)
AtHand ==
    /\ \A a \in Actors : pc[a] \in Holding =>
           JobOf(a) \in Launches /\ handle[JobOf(a)] \in {"live", "over"}
    /\ \A s \in Sweepers : pc[s] \in Between => job[s] = "none"

(* A stranger has the pid of a launch that has ended, and that the owner   *)
(* is done with or could not end.                                          *)
Occupied ==
    \A l \in Launches : squat[l] # "none" =>
        /\ lead[l] = "gone" /\ (l \in Commands => kid[l] # "reach")
        /\ owner = "dead" \/ handle[l] = "over" \/ l \in leftSurvivors \cup stuck
        /\ squat[l] = "twin" => restarted

Spared ==
    \A a \in Actors : pc[a] \in {"stopping", "forced"} /\ squat[JobOf(a)] # "none" =>
        a \in Owners /\ JobOf(a) \in leftSurvivors \cup stuck

(* What is removed, or let go of, has ended.                               *)
Ended ==
    /\ \A a \in Actors : pc[a] \in Clear => Done(JobOf(a))
    /\ \A l \in recorded : rec[l] = "none" \/ handle[l] = "over" => Done(l)

(* Where a record that removeRecord has not found may still be.            *)
Watched ==
    \A a \in Actors :
        /\ pc[a] = "look1" => moves[a] = 0
        /\ pc[a] = "look2" /\ moves[a] = 0 => rec[JobOf(a)] \in {"none", "base"}
        /\ pc[a] = "look3" /\ moves[a] = 0 => rec[JobOf(a)] = "none"
        /\ pc[a] \in {"look2", "look3"} /\ moves[a] = 1 => rec[JobOf(a)] # "base"

(* A sweep that has removed the claims has none.                           *)
Unclaimed ==
    \A s \in Sweepers, l \in Launches :
        rec[l] = s => pc[s] = "dead" \/ (job[s] = l /\ pc[s] \in Holding \ (Removing \ {"claims"}))

IInv ==
    /\ TypeOK
    /\ Launched /\ AtHand /\ Occupied /\ Spared /\ Ended /\ Watched /\ Unclaimed
    /\ RemovalIsFinal /\ StrangersSpared /\ FolderOutlivesCommands

----------------------------------------------------------------------------
LEMMA Jobs ==
    ASSUME IInv
    PROVE  /\ \A s \in Sweepers : s \in Actors /\ s \notin Owners /\ JobOf(s) = job[s]
           /\ \A a \in Owners : a \in Actors /\ a \notin Sweepers /\ JobOf(a) = a[2] /\ a[2] \in Launches
           /\ \A l \in Launches : <<"run", l>> \in Owners /\ l # "none"
           /\ \A a \in Actors : a \in Owners \/ a \in Sweepers
BY StopSweepAssumption DEF Actors, Owners, JobOf

LEMMA JobsKept == ASSUME job' = job PROVE \A a : JobOf(a)' = JobOf(a)
BY DEF JobOf

(* What has ended stays so.                                                *)
LEMMA DoneKept ==
    ASSUME NEW l, Done(l), kind'[l] = kind[l], told \subseteq told', l \in Launches,
           lead'[l] = "alive" => lead[l] = "alive",
           kid'[l] = "reach" => kid[l] = "reach" \/ lead[l] = "alive"
    PROVE  Done(l)'
BY DEF Done, Commands

----------------------------------------------------------------------------
(* Processes start, end and are recycled.                                  *)
LEMMA ProcessInv ==
    ASSUME IInv, NEW l \in Launches, Fork(l) \/ LeadExits(l) \/ LeadReaped(l) \/ KidGoes(l) \/ Recycle(l)
    PROVE  IInv'
<1> USE DEF launcher, sweeps, observed
<1>1. UNCHANGED <<kind, restarted, rec, folder, owner, handle, leftSurvivors, pc, seen, job, snap, noted,
                  recorded, stuck, told, hit, moves, hidden>>
  BY DEF Fork, LeadExits, LeadReaped, KidGoes, Recycle
<1>2. /\ Commands' = Commands /\ \A a : JobOf(a)' = JobOf(a)
      /\ \A a : a \in Actors => JobOf(a) \in Launches \cup {"none"}
  BY <1>1, Jobs, JobsKept DEF Commands, IInv, TypeOK
<1>3. /\ lead' \in [Launches -> {"none", "alive", "zombie", "gone"}]
      /\ \A k \in Launches : /\ lead'[k] = "alive" => lead[k] = "alive"
                             /\ lead[k] \in {"none", "gone"} => lead'[k] = lead[k]
  <2>1. PICK to \in {"zombie", "gone"} :
           lead' = lead \/ (lead' = [lead EXCEPT ![l] = to] /\ lead[l] \in {"alive", "zombie"})
    BY DEF Fork, LeadExits, LeadReaped, KidGoes, Recycle
  <2> QED
    BY <2>1 DEF IInv, TypeOK
<1>4. /\ kid' \in [Launches -> {"none", "reach", "loose", "gone"}]
      /\ \A k \in Launches : kid'[k] = "reach" => kid[k] = "reach" \/ lead[k] = "alive"
  BY DEF Fork, LeadExits, LeadReaped, KidGoes, Recycle, IInv, TypeOK
<1>5. /\ squat' \in [Launches -> {"none", "other", "daemon", "twin"}]
      /\ \A k \in Launches : \/ squat'[k] = squat[k]
                             \/ /\ k = l /\ IdFree(l) /\ ~StopUnderWay(l) /\ lead' = lead /\ kid' = kid
                                /\ owner = "dead" \/ handle[l] = "over" \/ l \in leftSurvivors \cup stuck
                                /\ squat'[k] = "twin" => restarted
  <2>1. CASE squat' = squat
    BY <2>1 DEF IInv, TypeOK
  <2>2. CASE Recycle(l)
    BY <2>2 DEF Recycle, IInv, TypeOK
  <2> QED
    BY <2>1, <2>2 DEF Fork, LeadExits, LeadReaped, KidGoes
<1>6. TypeOK'
  BY <1>1, <1>3, <1>4, <1>5 DEF IInv, TypeOK
<1>7. Launched'
  BY <1>1, <1>3, <1>4 DEF IInv, Launched
<1>8. AtHand' /\ Watched' /\ Unclaimed' /\ RemovalIsFinal' /\ StrangersSpared'
  BY <1>1, <1>2 DEF IInv, AtHand, Watched, Unclaimed, RemovalIsFinal, StrangersSpared
<1>9. Occupied'
  <2> SUFFICES ASSUME NEW k \in Launches, squat'[k] # "none"
               PROVE  /\ lead'[k] = "gone" /\ (k \in Commands => kid'[k] # "reach")
                      /\ owner = "dead" \/ handle[k] = "over" \/ k \in leftSurvivors \cup stuck
                      /\ squat'[k] = "twin" => restarted
    BY <1>1, <1>2 DEF Occupied
  <2>1. CASE squat'[k] = squat[k]
    BY <1>3, <1>4, <2>1 DEF IInv, Occupied
  <2>2. CASE squat'[k] # squat[k]
    BY <1>5, <2>2 DEF IdFree
  <2> QED
    BY <2>1, <2>2
<1>10. Spared'
  <2>1. ASSUME NEW a \in Actors, pc[a] \in {"stopping", "forced"}, squat'[JobOf(a)] # "none"
        PROVE  squat[JobOf(a)] # "none"
    <3>1. JobOf(a) \in Launches
      BY <2>1 DEF IInv, AtHand, Holding
    <3>2. JobOf(a) = l => StopUnderWay(l)
      BY <2>1 DEF StopUnderWay
    <3> QED
      BY <1>5, <2>1, <3>1, <3>2
  <2> QED
    BY <1>1, <1>2, <2>1 DEF IInv, Spared
<1>11. Ended'
  <2>1. \A k \in Launches : Done(k) => Done(k)'
    BY <1>1, <1>3, <1>4, DoneKept
  <2>2. \A a \in Actors : pc[a] \in Clear => JobOf(a) \in Launches
    BY DEF IInv, AtHand, Holding
  <2> QED
    BY <1>1, <1>2, <2>1, <2>2 DEF IInv, Ended, TypeOK
<1>12. FolderOutlivesCommands'
  BY <1>1, <1>2, <1>3, <1>4 DEF IInv, FolderOutlivesCommands, TypeOK
<1> QED
  BY <1>6, <1>7, <1>8, <1>9, <1>10, <1>11, <1>12 DEF IInv

(* Nothing survives the machine.                                           *)
LEMMA RestartInv == ASSUME IInv, Restart PROVE IInv'
<1> USE DEF sweeps, observed
<1>1. /\ UNCHANGED <<kind, rec, folder, handle, leftSurvivors, seen, job, snap, noted, recorded, stuck, told, hit,
                     moves, hidden>>
      /\ restarted' = TRUE /\ owner' = "dead" /\ squat' = [l \in Launches |-> "none"]
      /\ pc' = Silenced({s \in Sweepers : pc[s] = "idle"})
  BY DEF Restart
<1>2. /\ lead' \in [Launches -> {"none", "gone"}] /\ kid' \in [Launches -> {"none", "gone"}]
      /\ \A l \in Launches : lead[l] = "none" => lead'[l] = "none"
  BY DEF Restart
<1>3. /\ \A a \in Owners : pc'[a] = "idle"
      /\ \A s \in Sweepers : pc'[s] = "dead" \/ (pc'[s] = "idle" /\ pc[s] = "idle")
      /\ pc' \in [Actors -> Phases]
  BY <1>1, Jobs DEF Silenced, Phases
<1>4. \A a \in Actors : pc'[a] \in {"dead", "idle"}
  BY <1>3, Jobs
<1>5. TypeOK'
  BY <1>1, <1>2, <1>3 DEF IInv, TypeOK
<1>6. Launched' /\ Occupied' /\ StrangersSpared' /\ FolderOutlivesCommands'
  BY <1>1, <1>2 DEF IInv, Launched, Occupied, StrangersSpared, FolderOutlivesCommands, TypeOK, Commands
<1>7. AtHand' /\ Spared' /\ Watched' /\ RemovalIsFinal'
  BY <1>1, <1>3, <1>4 DEF IInv, AtHand, Spared, Watched, RemovalIsFinal, Holding, Clear, Removing, Between
<1>8. Unclaimed'
  BY <1>1, <1>3 DEF IInv, Unclaimed, Holding, Clear, Removing
<1>9. Ended'
  <2>1. \A a \in Actors : pc'[a] \notin Clear
    BY <1>4 DEF Clear, Removing
  <2>2. \A l \in Launches : Done(l)'
    BY <1>2 DEF Done
  <2> QED
    BY <1>1, <2>1, <2>2 DEF IInv, TypeOK, Ended
<1> QED
  BY <1>5, <1>6, <1>7, <1>8, <1>9 DEF IInv

(* The owner launches, and keeps a record of what it launched.             *)
LEMMA LaunchInv ==
    ASSUME IInv, MakeFolder \/ \E l \in Launches : Spawn(l) \/ Record(l) \/ RecordFails(l)
    PROVE  IInv'
<1> USE DEF sweeps, observed, os, launcher
<1>1. /\ UNCHANGED <<kid, squat, restarted, owner, leftSurvivors, pc, seen, job, snap, noted, stuck, told, hit, moves,
                     hidden>>
      /\ folder' \in {folder, "noted"} /\ owner # "dead"
  BY DEF MakeFolder, Spawn, Record, RecordFails
<1>2. \A a : JobOf(a)' = JobOf(a)
  BY <1>1, JobsKept
<1>3. folder # "removed" /\ ~restarted /\ folder' # "removed"
  BY <1>1 DEF IInv, Launched
<1>4. CASE MakeFolder
  <2>1. UNCHANGED <<kind, lead, rec, handle, recorded>> /\ folder' \in {"none", "noted", "removed"} /\ Commands' = Commands
    BY <1>4 DEF MakeFolder, Commands
  <2>2. TypeOK'
    BY <1>1, <2>1 DEF IInv, TypeOK
  <2>3. Launched' /\ FolderOutlivesCommands'
    BY <1>1, <1>3, <2>1 DEF IInv, Launched, FolderOutlivesCommands
  <2>4. AtHand' /\ Occupied' /\ Spared' /\ Ended' /\ Watched' /\ Unclaimed' /\ RemovalIsFinal' /\ StrangersSpared'
    BY <1>1, <1>2, <2>1 DEF IInv, AtHand, Occupied, Spared, Ended, Done, Watched, Unclaimed, RemovalIsFinal,
                            StrangersSpared
  <2> QED
    BY <2>2, <2>3, <2>4 DEF IInv
<1>5. ASSUME NEW l \in Launches, Spawn(l) PROVE IInv'
  <2>1. /\ UNCHANGED <<rec, folder, recorded>> /\ handle[l] = "none" /\ lead[l] = "none" /\ squat[l] = "none"
        /\ handle' = [handle EXCEPT ![l] = "spawned"] /\ lead' = [lead EXCEPT ![l] = "alive"]
        /\ kind' \in [Launches -> {"none", "agent", "group"}] /\ \A k \in Launches : k # l => kind'[k] = kind[k]
        /\ l \notin recorded
    BY <1>5 DEF Spawn, IInv, TypeOK, Launched, Occupied
  <2>2. \A a \in Actors : pc[a] \in Holding => JobOf(a) \in Launches /\ JobOf(a) # l
    BY <2>1 DEF IInv, AtHand
  <2>3. TypeOK'
    BY <1>1, <2>1 DEF IInv, TypeOK
  <2>4. Launched' /\ FolderOutlivesCommands'
    BY <1>1, <1>3, <2>1 DEF IInv, Launched, FolderOutlivesCommands, TypeOK
  <2>5. AtHand' /\ Spared' /\ Watched' /\ Unclaimed' /\ RemovalIsFinal' /\ StrangersSpared'
    BY <1>1, <1>2, <2>1, <2>2 DEF IInv, AtHand, Spared, Watched, Unclaimed, RemovalIsFinal, StrangersSpared, TypeOK
  <2>6. Occupied'
    BY <1>1, <2>1 DEF IInv, Occupied, TypeOK, Commands
  <2>7. \A k \in Launches : Done(k) /\ k # l => Done(k)'
    BY <1>1, <2>1, DoneKept DEF IInv, TypeOK
  <2>8. Ended'
    <3>1. \A a \in Actors : pc[a] \in Clear => Done(JobOf(a))'
      BY <1>2, <2>2, <2>7 DEF IInv, Ended, Holding
    <3>2. \A k \in recorded : rec[k] = "none" \/ handle'[k] = "over" => Done(k)'
      BY <2>1, <2>7 DEF IInv, Ended, TypeOK
    <3> QED
      BY <1>1, <1>2, <2>1, <3>1, <3>2 DEF Ended
  <2> QED
    BY <2>3, <2>4, <2>5, <2>6, <2>8 DEF IInv
<1>6. ASSUME NEW l \in Launches, Record(l) \/ RecordFails(l) PROVE IInv'
  <2>1. /\ UNCHANGED <<kind, lead, folder>> /\ handle[l] = "spawned" /\ Commands' = Commands
        /\ l \notin recorded /\ rec[l] = "none"
    BY <1>6 DEF Record, RecordFails, Commands, IInv, Launched
  <2>2. \/ UNCHANGED <<rec, recorded>> /\ handle' \in {[handle EXCEPT ![l] = "live"], [handle EXCEPT ![l] = "over"]}
        \/ /\ rec' = [rec EXCEPT ![l] = "base"] /\ recorded' = recorded \cup {l}
           /\ handle' = [handle EXCEPT ![l] = "live"]
    BY <1>6 DEF Record, RecordFails
  <2>3. \A a \in Actors : pc[a] \in Holding => JobOf(a) \in Launches /\ JobOf(a) # l
    BY <2>1 DEF IInv, AtHand
  <2>4. TypeOK'
    BY <1>1, <2>1, <2>2 DEF IInv, TypeOK
  <2>5. Launched' /\ FolderOutlivesCommands' /\ Occupied'
    BY <1>1, <1>3, <2>1, <2>2 DEF IInv, Launched, FolderOutlivesCommands, Occupied, TypeOK
  <2>6. AtHand' /\ Spared' /\ StrangersSpared'
    BY <1>1, <1>2, <2>1, <2>2, <2>3 DEF IInv, AtHand, Spared, StrangersSpared, TypeOK
  <2>7. Watched' /\ RemovalIsFinal'
    BY <1>1, <1>2, <2>1, <2>2, <2>3 DEF IInv, Watched, RemovalIsFinal, Holding, Clear, Removing, TypeOK
  <2>8. Unclaimed'
    BY <1>1, <2>1, <2>2, StopSweepAssumption DEF IInv, Unclaimed, TypeOK
  <2>9. Ended'
    BY <1>1, <1>2, <2>1, <2>2, <2>3 DEF IInv, Ended, Done, Holding, TypeOK
  <2> QED
    BY <2>4, <2>5, <2>6, <2>7, <2>8, <2>9 DEF IInv
<1> QED
  BY <1>4, <1>5, <1>6

(* The first listing of a stop by the owner: it finds a stranger only if   *)
(* an earlier stop has failed.                                             *)
LEMMA Collected ==
    ASSUME NEW l \in Launches
    PROVE  /\ collect(l) = {} => Done(l)
           /\ "stranger" \in collect(l) <=> l \in Commands /\ squat[l] # "none"
           /\ collect(l) # {} /\ squat[l] # "none" /\ lead[l] # "alive" => l \in Commands
BY DEF collect, groupMembers, Lead, Kid, Strangers, Done

LEMMA OwnerStopsInv ==
    ASSUME IInv, StopSignal \/ \E l \in Launches : RunStops(l)
    PROVE  IInv'
<1> USE DEF sweeps, os
<1>1. /\ UNCHANGED <<kind, lead, kid, squat, restarted, rec, folder, handle, leftSurvivors, job, snap, noted, recorded,
                     stuck, told, moves, hidden>>
      /\ owner # "dead" /\ owner' \in {"up", "stopping"}
  BY DEF StopSignal, RunStops, launcher, IInv, TypeOK
<1>2. /\ Commands' = Commands /\ \A a : JobOf(a)' = JobOf(a)
  BY <1>1, JobsKept DEF Commands
<1>3. PICK Mine \in SUBSET Owners :
         /\ \A a \in Mine : handle[a[2]] = "live"
         /\ pc' \in [Actors -> Phases] /\ seen' \in [Actors -> BOOLEAN]
         /\ \A a \in Actors : pc'[a] = IF a \in Mine THEN Begins(a, a[2]) ELSE pc[a]
         /\ \A h \in hit' : h \in hit \/ \E a \in Mine : h = <<a, a[2]>> /\ "stranger" \in collect(a[2])
  <2>1. CASE StopSignal
    <3> DEFINE Mine == {a \in Owners : a[1] = "handler" /\ live(a[2])}
    <3>1. /\ \A a \in Mine : handle[a[2]] = "live"
          /\ pc' = [a \in Actors |-> IF a \in Mine THEN Begins(a, a[2]) ELSE pc[a]]
          /\ seen' = [a \in Actors |-> IF a \in Mine THEN Collects(a[2]) ELSE seen[a]]
          /\ hit' = hit \cup UNION {Signals(a, a[2], collect(a[2])) : a \in Mine}
      BY <2>1 DEF StopSignal, live
    <3>2. \A a \in Actors : Begins(a, a[2]) \in Phases /\ Collects(a[2]) \in BOOLEAN
      BY DEF Begins, Collects, Phases
    <3>3. pc' \in [Actors -> Phases] /\ seen' \in [Actors -> BOOLEAN]
      BY <3>1, <3>2 DEF IInv, TypeOK
    <3>4. Mine \subseteq Owners
      OBVIOUS
    <3> HIDE DEF Mine
    <3>5. \A h \in hit' : h \in hit \/ \E a \in Mine : h = <<a, a[2]>> /\ "stranger" \in collect(a[2])
      BY <3>1 DEF Signals
    <3> QED
      BY <3>1, <3>3, <3>4, <3>5
  <2>2. ASSUME NEW l \in Launches, RunStops(l)
        PROVE  \E Mine \in SUBSET Owners :
                 /\ \A a \in Mine : handle[a[2]] = "live"
                 /\ pc' \in [Actors -> Phases] /\ seen' \in [Actors -> BOOLEAN]
                 /\ \A a \in Actors : pc'[a] = IF a \in Mine THEN Begins(a, a[2]) ELSE pc[a]
                 /\ \A h \in hit' : h \in hit \/ \E a \in Mine : h = <<a, a[2]>> /\ "stranger" \in collect(a[2])
    <3>1. PICK a : a = <<"run", l>> /\ a \in Owners /\ a[2] = l /\ a \in Actors
      BY Jobs
    <3>2. /\ handle[l] = "live" /\ pc' = [pc EXCEPT ![a] = Begins(a, l)] /\ seen' = [seen EXCEPT ![a] = Collects(l)]
          /\ hit' = hit \cup Signals(a, l, collect(l))
      BY <2>2, <3>1 DEF RunStops, StopBegins, live
    <3>3. Begins(a, l) \in Phases /\ Collects(l) \in BOOLEAN
      BY DEF Begins, Collects, Phases
    <3>4. /\ pc' \in [Actors -> Phases] /\ seen' \in [Actors -> BOOLEAN]
          /\ \A b \in Actors : pc'[b] = IF b \in {a} THEN Begins(b, b[2]) ELSE pc[b]
      BY <3>1, <3>2, <3>3 DEF IInv, TypeOK
    <3>5. \A h \in hit' : h \in hit \/ \E b \in {a} : h = <<b, b[2]>> /\ "stranger" \in collect(b[2])
      BY <3>1, <3>2 DEF Signals
    <3>6. {a} \in SUBSET Owners /\ \A b \in {a} : handle[b[2]] = "live"
      BY <3>1, <3>2
    <3> QED
      BY <3>4, <3>5, <3>6
  <2> QED
    BY <2>1, <2>2
<1>4. \A a \in Mine : /\ a \in Actors /\ a[2] \in Launches /\ JobOf(a) = a[2]
                      /\ pc'[a] \in {"clear", "stopping"} /\ (pc'[a] = "clear" => Done(a[2]))
                      /\ squat[a[2]] # "none" => a[2] \in leftSurvivors \cup stuck
  <2>1. ASSUME NEW a \in Mine PROVE a \in Actors /\ a[2] \in Launches /\ JobOf(a) = a[2] /\ handle[a[2]] = "live"
    BY <1>3, Jobs
  <2>2. ASSUME NEW a \in Mine PROVE pc'[a] \in {"clear", "stopping"} /\ (pc'[a] = "clear" => Done(a[2]))
    BY <1>3, <2>1, Collected DEF Begins
  <2>3. ASSUME NEW a \in Mine PROVE squat[a[2]] # "none" => a[2] \in leftSurvivors \cup stuck
    BY <1>1, <2>1 DEF IInv, Occupied
  <2> QED
    BY <2>1, <2>2, <2>3
<1>5. \A l \in Launches : Done(l)' <=> Done(l)
  BY <1>1, <1>2 DEF Done
<1>6. StrangersSpared'
  <2> SUFFICES ASSUME NEW h \in hit' PROVE h[1] \in Owners /\ h[2] \in leftSurvivors \cup stuck
    BY <1>1 DEF StrangersSpared
  <2>1. CASE h \in hit
    BY <2>1 DEF IInv, StrangersSpared
  <2>2. ASSUME NEW a \in Mine, h = <<a, a[2]>>, "stranger" \in collect(a[2])
        PROVE  h[1] \in Owners /\ h[2] \in leftSurvivors \cup stuck
    BY <1>3, <1>4, <2>2, Collected
  <2> QED
    BY <1>3, <2>1, <2>2
<1>7. TypeOK'
  <2>1. hit' \subseteq Actors \X Launches
    BY <1>3, <1>4 DEF IInv, TypeOK
  <2>2. owner' \in {"up", "stopping", "dead"}
    BY <1>1
  <2> QED
    BY <1>1, <1>3, <2>1, <2>2 DEF IInv, TypeOK
<1>8. Launched' /\ Occupied' /\ FolderOutlivesCommands'
  BY <1>1, <1>2 DEF IInv, Launched, Occupied, FolderOutlivesCommands
<1>9. AtHand' /\ Spared' /\ Unclaimed'
  <2>1. \A s \in Sweepers : pc'[s] = pc[s]
    BY <1>3, Jobs
  <2>2. AtHand'
    BY <1>1, <1>2, <1>3, <1>4, <2>1 DEF IInv, AtHand
  <2>3. Spared'
    BY <1>1, <1>2, <1>3, <1>4 DEF IInv, Spared
  <2>4. Unclaimed'
    BY <1>1, <2>1 DEF IInv, Unclaimed
  <2> QED
    BY <2>2, <2>3, <2>4
<1>10. Ended'
  <2>1. \A a \in Actors : pc[a] \in Clear => JobOf(a) \in Launches
    BY DEF IInv, AtHand, Holding
  <2>2. ASSUME NEW a \in Actors, pc'[a] \in Clear PROVE JobOf(a) \in Launches /\ Done(JobOf(a))
    <3>1. CASE a \in Mine
      BY <1>4, <2>2, <3>1 DEF Clear, Removing
    <3>2. CASE a \notin Mine
      BY <1>3, <2>1, <2>2, <3>2 DEF IInv, Ended
    <3> QED
      BY <3>1, <3>2
  <2> QED
    BY <1>1, <1>2, <1>5, <2>2 DEF IInv, Ended, TypeOK
<1>11. Watched' /\ RemovalIsFinal'
  <2>1. \A a \in Actors : pc'[a] \in {"look1", "look2", "look3", "removed"} => pc'[a] = pc[a]
    BY <1>3, <1>4
  <2> QED
    BY <1>1, <1>2, <2>1 DEF IInv, Watched, RemovalIsFinal
<1> QED
  BY <1>6, <1>7, <1>8, <1>9, <1>10, <1>11 DEF IInv

(* The owner ends, and with it its stops.                                  *)
LEMMA OwnerEndsInv == ASSUME IInv, Leave \/ Killed PROVE IInv'
<1> USE DEF sweeps, os, observed
<1>1. /\ UNCHANGED <<kind, lead, kid, squat, restarted, rec, handle, leftSurvivors, seen, job, snap, noted, recorded,
                     stuck, told, hit, moves, hidden>>
      /\ owner' = "dead" /\ pc' = Silenced(Sweepers)
      /\ folder' = folder \/ (folder' = "removed" /\ \A l \in Commands : handle[l] # "live")
  BY DEF Leave, Killed, live
<1>2. /\ Commands' = Commands /\ \A a : JobOf(a)' = JobOf(a)
  BY <1>1, JobsKept DEF Commands
<1>3. /\ \A a \in Actors : pc'[a] = pc[a] \/ (a \in Owners /\ pc'[a] = "idle")
      /\ \A s \in Sweepers : pc'[s] = pc[s]
      /\ pc' \in [Actors -> Phases]
  BY <1>1, Jobs DEF Silenced, Phases, IInv, TypeOK
<1>4. \A l : Done(l)' <=> Done(l)
  BY <1>1, <1>2 DEF Done
<1>5. TypeOK'
  BY <1>1, <1>3 DEF IInv, TypeOK
<1>6. Launched' /\ Occupied' /\ StrangersSpared'
  BY <1>1, <1>2 DEF IInv, Launched, Occupied, StrangersSpared
<1>7. FolderOutlivesCommands'
  <2>1. CASE folder' = folder
    BY <1>1, <1>2, <2>1 DEF IInv, FolderOutlivesCommands
  <2>2. CASE \A l \in Commands : handle[l] # "live"
    <3>1. \A l \in Commands \cap recorded : Done(l)
      BY <2>2 DEF IInv, Launched, Ended
    <3> QED
      BY <1>1, <1>2, <3>1 DEF Done, FolderOutlivesCommands
  <2> QED
    BY <1>1, <2>1, <2>2
<1>8. AtHand' /\ Spared' /\ Watched' /\ Unclaimed' /\ RemovalIsFinal' /\ Ended'
  <2>1. \A a \in Actors : pc'[a] # "idle" \/ a \in Sweepers => pc'[a] = pc[a]
    BY <1>3
  <2>2. AtHand' /\ Spared'
    BY <1>1, <1>2, <1>3, <2>1 DEF IInv, AtHand, Spared, Holding, Clear, Removing
  <2>3. Watched' /\ RemovalIsFinal' /\ Unclaimed'
    BY <1>1, <1>2, <1>3, <2>1 DEF IInv, Watched, RemovalIsFinal, Unclaimed
  <2>4. Ended'
    BY <1>1, <1>2, <1>4, <2>1 DEF IInv, Ended, Clear, Removing
  <2> QED
    BY <2>2, <2>3, <2>4
<1> QED
  BY <1>5, <1>6, <1>7, <1>8 DEF IInv

(* A listing of what an actor is stopping.                                 *)
LEMMA Alives ==
    ASSUME IInv, NEW a \in Actors, pc[a] \in {"stopping", "forced"}
    PROVE  /\ JobOf(a) \in Launches
           /\ stillAlive(a) = {} => Done(JobOf(a))
           /\ "stranger" \in stillAlive(a) => a \in Owners /\ JobOf(a) \in leftSurvivors \cup stuck
<1>1. JobOf(a) \in Launches
  BY DEF IInv, AtHand, Holding
<1>2. stillAlive(a) = {} => Done(JobOf(a))
  BY DEF stillAlive, groupMembers, Lead, Kid, Done
<1>3. "stranger" \in stillAlive(a) => squat[JobOf(a)] # "none"
  BY DEF stillAlive, groupMembers, Lead, Kid, Strangers
<1> QED
  BY <1>1, <1>2, <1>3 DEF IInv, Spared

(* The polls of a stop, and its end.                                       *)
LEMMA StopInv ==
    ASSUME IInv, NEW a \in Actors, StopEnds(a) \/ StopForces(a) \/ StopGivesUp(a)
    PROVE  IInv'
<1> USE DEF sweeps, os, launcher, observed
<1>1. /\ UNCHANGED <<kind, lead, kid, squat, restarted, rec, folder, owner, handle, job, snap, noted, recorded,
                     stuck, told, moves, hidden>>
      /\ pc[a] \in {"stopping", "forced"} /\ leftSurvivors \subseteq leftSurvivors'
  BY DEF StopEnds, StopForces, StopGivesUp
<1>2. /\ Commands' = Commands /\ \A b : JobOf(b)' = JobOf(b)
  BY <1>1, JobsKept DEF Commands
<1>3. /\ JobOf(a) \in Launches
      /\ stillAlive(a) = {} => Done(JobOf(a))
      /\ "stranger" \in stillAlive(a) => a \in Owners /\ JobOf(a) \in leftSurvivors \cup stuck
  BY <1>1, Alives
<1>4. PICK to \in {"clear", "forced", "returning", "idle"} :
         /\ pc' = [pc EXCEPT ![a] = to]
         /\ to = "clear" => Done(JobOf(a))
         /\ to = "idle" <=> (a \in Owners /\ to \notin {"clear", "forced"})
  <2>1. CASE StopEnds(a)
    BY <1>3, <2>1 DEF StopEnds
  <2>2. CASE StopForces(a)
    BY <2>2 DEF StopForces
  <2>3. CASE StopGivesUp(a)
    <3>1. a \in Owners <=> a \notin Sweepers
      BY Jobs
    <3> QED
      BY <2>3, <3>1 DEF StopGivesUp, Survivors
  <2> QED
    BY <2>1, <2>2, <2>3
<1>5. seen' \in [Actors -> BOOLEAN]
  <2>1. Collects(JobOf(a)) \in BOOLEAN
    BY DEF Collects
  <2> QED
    BY <2>1 DEF StopEnds, StopForces, StopGivesUp, IInv, TypeOK
<1>6. \A h \in hit' : h \in hit \/ (h = <<a, JobOf(a)>> /\ "stranger" \in stillAlive(a))
  BY DEF StopEnds, StopForces, StopGivesUp, Signals
<1>7. pc' \in [Actors -> Phases] /\ pc'[a] = to /\ \A b \in Actors : b # a => pc'[b] = pc[b]
  BY <1>4 DEF IInv, TypeOK, Phases, Removing
<1>8. TypeOK'
  <2>1. hit' \subseteq Actors \X Launches
    BY <1>3, <1>6 DEF IInv, TypeOK
  <2>2. leftSurvivors' \subseteq Launches
    BY <1>3 DEF StopEnds, StopForces, StopGivesUp, IInv, TypeOK
  <2> QED
    BY <1>1, <1>5, <1>7, <2>1, <2>2 DEF IInv, TypeOK
<1>9. Launched' /\ Occupied' /\ FolderOutlivesCommands'
  BY <1>1, <1>2 DEF IInv, Launched, Occupied, FolderOutlivesCommands
<1>10. StrangersSpared'
  BY <1>1, <1>3, <1>6 DEF IInv, StrangersSpared
<1>11. AtHand'
  <2>1. \A b \in Actors : pc'[b] \in Holding => JobOf(b) \in Launches /\ handle[JobOf(b)] \in {"live", "over"}
    BY <1>1, <1>7 DEF IInv, AtHand, Holding
  <2>2. \A s \in Sweepers : pc'[s] \in Between => s # a /\ pc'[s] = pc[s]
    <3>1. a \in Sweepers => to # "idle"
      BY <1>4, Jobs
    <3> QED
      BY <1>7, <3>1, Jobs DEF Between
  <2> QED
    BY <1>1, <1>2, <2>1, <2>2 DEF IInv, AtHand
<1>12. Spared'
  <2>1. \A b \in Actors : pc'[b] \in {"stopping", "forced"} => pc[b] \in {"stopping", "forced"}
    BY <1>1, <1>7
  <2> QED
    BY <1>1, <1>2, <2>1 DEF IInv, Spared
<1>13. Ended'
  <2>1. \A b \in Actors : pc'[b] \in Clear => Done(JobOf(b))
    BY <1>4, <1>7 DEF IInv, Ended, Clear, Removing
  <2>2. \A l : Done(l)' <=> Done(l)
    BY <1>1, <1>2 DEF Done
  <2> QED
    BY <1>1, <1>2, <2>1, <2>2 DEF IInv, Ended
<1>14. Watched' /\ RemovalIsFinal'
  <2>1. \A b \in Actors : pc'[b] \in {"look1", "look2", "look3", "removed"} => pc'[b] = pc[b]
    BY <1>7
  <2> QED
    BY <1>1, <1>2, <2>1 DEF IInv, Watched, RemovalIsFinal
<1>15. Unclaimed'
  <2>1. \A s \in Sweepers : pc[s] \in Holding \ (Removing \ {"claims"}) => pc'[s] \in Holding \ (Removing \ {"claims"})
    <3>1. a \in Sweepers => to # "idle"
      BY <1>4, Jobs
    <3> QED
      BY <1>7, <3>1, Jobs DEF Holding, Clear, Removing
  <2>2. \A s \in Sweepers : pc[s] = "dead" => pc'[s] = "dead"
    BY <1>1, <1>7, Jobs
  <2> QED
    BY <1>1, <2>1, <2>2 DEF IInv, Unclaimed
<1> QED
  BY <1>8, <1>9, <1>10, <1>11, <1>12, <1>13, <1>14, <1>15 DEF IInv

(* The steps of removeRecord.                                              *)
LEMMA RemoveInv ==
    ASSUME IInv, NEW a \in Actors,
           UnlinkRecord(a) \/ UnlinkClaims(a) \/ Look(a) \/ RemoveGivesUp(a) \/ Removed(a)
    PROVE  IInv'
<1> USE DEF sweeps, os, launcher, observed
<1>1. /\ UNCHANGED <<kind, lead, kid, squat, restarted, folder, owner, leftSurvivors, seen, snap, noted, recorded,
                     told, hit, hidden>>
      /\ pc[a] \in Clear /\ stuck \subseteq stuck'
  BY DEF UnlinkRecord, UnlinkClaims, Look, RemoveGivesUp, Removed, Clear, Removing
<1>2. Commands' = Commands /\ \A l : Done(l)' <=> Done(l)
  BY <1>1 DEF Commands, Done
<1>3. JobOf(a) \in Launches /\ handle[JobOf(a)] \in {"live", "over"} /\ Done(JobOf(a))
  BY <1>1 DEF IInv, AtHand, Holding, Ended
<1>4. CASE UnlinkRecord(a) \/ UnlinkClaims(a) \/ Look(a)
  <2>1. UNCHANGED <<handle, job, stuck>> /\ \A b : JobOf(b)' = JobOf(b)
    BY <1>4, JobsKept DEF UnlinkRecord, UnlinkClaims, Look
  <2>2. PICK to \in Removing :
           /\ pc' = [pc EXCEPT ![a] = to]
           /\ pc[a] \in Removing \ {"claims"} => to # "claims" \/ UnlinkRecord(a)
    BY <1>4 DEF UnlinkRecord, UnlinkClaims, Look, neitherNameExists, Removing
  <2>3. pc' \in [Actors -> Phases] /\ pc'[a] = to /\ \A b \in Actors : b # a => pc'[b] = pc[b]
    BY <2>2 DEF IInv, TypeOK, Phases, Removing
  <2>4. /\ rec' \in [Launches -> {"none", "base"} \cup Sweepers]
        /\ \A l \in Launches : rec'[l] = rec[l] \/ (l = JobOf(a) /\ rec'[l] = "none")
    BY <1>4 DEF UnlinkRecord, UnlinkClaims, Look, IInv, TypeOK
  <2>5. moves' = moves \/ (UnlinkClaims(a) /\ moves' = [moves EXCEPT ![a] = 0])
    BY <1>4 DEF UnlinkRecord, UnlinkClaims, Look
  <2>6. TypeOK'
    BY <1>1, <2>1, <2>3, <2>4, <2>5 DEF IInv, TypeOK
  <2>7. Launched' /\ Occupied' /\ FolderOutlivesCommands' /\ StrangersSpared'
    BY <1>1, <1>2, <2>1, <2>4 DEF IInv, Launched, Occupied, FolderOutlivesCommands, StrangersSpared
  <2>8. AtHand' /\ Spared'
    BY <1>1, <1>3, <2>1, <2>3, Jobs DEF IInv, AtHand, Spared, Between, Removing
  <2>9. Ended'
    BY <1>1, <1>2, <1>3, <2>1, <2>3, <2>4 DEF IInv, Ended, TypeOK
  <2>10. Watched' /\ RemovalIsFinal'
    <3> SUFFICES ASSUME NEW b \in Actors
                 PROVE  /\ pc'[b] = "look1" => moves'[b] = 0
                        /\ pc'[b] = "look2" /\ moves'[b] = 0 => rec'[JobOf(b)] \in {"none", "base"}
                        /\ pc'[b] = "look3" /\ moves'[b] = 0 => rec'[JobOf(b)] = "none"
                        /\ pc'[b] \in {"look2", "look3"} /\ moves'[b] = 1 => rec'[JobOf(b)] # "base"
                        /\ pc'[b] = "removed" => rec'[JobOf(b)] = "none" \/ moves'[b] = 2
      BY <2>1 DEF Watched, RemovalIsFinal
    <3>1. CASE b # a
      <4>1. pc'[b] = pc[b] /\ moves'[b] = moves[b]
        BY <2>3, <2>5, <3>1 DEF IInv, TypeOK
      <4>2. pc[b] \in Removing => rec'[JobOf(b)] = rec[JobOf(b)] \/ rec'[JobOf(b)] = "none"
        BY <2>4 DEF IInv, AtHand, Holding, Clear
      <4> QED
        BY <4>1, <4>2 DEF IInv, Watched, RemovalIsFinal, Removing
    <3>2. CASE b = a /\ UnlinkRecord(a)
      BY <2>3, <3>2 DEF UnlinkRecord, IInv, TypeOK
    <3>3. CASE b = a /\ UnlinkClaims(a)
      BY <2>3, <3>3 DEF UnlinkClaims, IInv, TypeOK
    <3>4. CASE b = a /\ Look(a)
      <4>1. rec' = rec /\ moves' = moves /\ pc'[a] = neitherNameExists(pc[a], JobOf(a)) /\ moves[a] \in {0, 1, 2}
            /\ pc[a] \in {"look1", "look2", "look3"} /\ rec[JobOf(a)] \in {"none", "base"} \cup Sweepers
        BY <1>3, <3>4 DEF Look, IInv, TypeOK
      <4>2. CASE pc[a] = "look1"
        BY <3>4, <4>1, <4>2 DEF neitherNameExists, NoClaim, IInv, Watched
      <4>3. CASE pc[a] = "look2"
        BY <3>4, <4>1, <4>3 DEF neitherNameExists, NoRecord, IInv, Watched
      <4>4. CASE pc[a] = "look3"
        BY <3>4, <4>1, <4>4 DEF neitherNameExists, NoClaim, IInv, Watched
      <4> QED
        BY <4>1, <4>2, <4>3, <4>4
    <3> QED
      BY <1>4, <3>1, <3>2, <3>3, <3>4
  <2>11. Unclaimed'
    <3> SUFFICES ASSUME NEW s \in Sweepers, NEW l \in Launches, rec'[l] = s
                 PROVE  pc'[s] = "dead" \/ (job[s] = l /\ pc'[s] \in Holding \ (Removing \ {"claims"}))
      BY <2>1 DEF Unclaimed
    <3>1. rec[l] = s /\ s \in Actors
      BY <2>4, StopSweepAssumption, Jobs
    <3>2. pc[s] = "dead" \/ (job[s] = l /\ pc[s] \in Holding \ (Removing \ {"claims"}))
      BY <3>1 DEF IInv, Unclaimed
    <3>3. CASE s # a
      BY <2>3, <3>1, <3>2, <3>3
    <3>4. CASE s = a
      <4>1. JobOf(a) = l /\ pc[a] \in {"clear", "claims"}
        BY <1>1, <3>2, <3>4, Jobs DEF Clear, Removing
      <4>2. ~UnlinkClaims(a)
        <5>1. UnlinkClaims(a) => rec'[l] = "none"
          BY <3>1, <4>1 DEF UnlinkClaims, IInv, TypeOK
        <5>2. rec'[l] # "none"
          BY StopSweepAssumption
        <5> QED
          BY <5>1, <5>2
      <4>3. UnlinkRecord(a) /\ pc'[a] = "claims"
        BY <1>4, <4>1, <4>2, <2>3 DEF UnlinkRecord, Look, IInv, TypeOK
      <4> QED
        BY <3>2, <3>4, <4>1, <4>3 DEF Holding, Clear, Removing
    <3> QED
      BY <3>3, <3>4
  <2> QED
    BY <2>6, <2>7, <2>8, <2>9, <2>10, <2>11 DEF IInv
<1>5. CASE RemoveGivesUp(a)
  <2>1. /\ UNCHANGED <<rec, handle, job, moves>> /\ pc[a] = "again" /\ \A b : JobOf(b)' = JobOf(b)
        /\ stuck' \subseteq Launches
    BY <1>3, <1>5, JobsKept DEF RemoveGivesUp, IInv, TypeOK
  <2>2. PICK to \in {"returning", "idle"} : pc' = [pc EXCEPT ![a] = to] /\ (a \in Sweepers <=> to = "returning")
    BY <1>5 DEF RemoveGivesUp, Survivors
  <2>3. pc' \in [Actors -> Phases] /\ pc'[a] = to /\ \A b \in Actors : b # a => pc'[b] = pc[b]
    BY <2>2 DEF IInv, TypeOK, Phases, Removing
  <2>4. TypeOK'
    BY <1>1, <2>1, <2>3 DEF IInv, TypeOK
  <2>5. Launched' /\ Occupied' /\ FolderOutlivesCommands' /\ StrangersSpared'
    BY <1>1, <1>2, <2>1 DEF IInv, Launched, Occupied, FolderOutlivesCommands, StrangersSpared
  <2>6. AtHand' /\ Spared'
    BY <1>1, <1>3, <2>1, <2>2, <2>3, Jobs DEF IInv, AtHand, Spared, Between
  <2>7. Ended' /\ Watched' /\ RemovalIsFinal'
    BY <1>1, <1>2, <2>1, <2>3 DEF IInv, Ended, Watched, RemovalIsFinal, Clear, Removing
  <2>8. Unclaimed'
    BY <2>1, <2>2, <2>3, Jobs DEF IInv, Unclaimed, Holding, Clear, Removing
  <2> QED
    BY <2>4, <2>5, <2>6, <2>7, <2>8 DEF IInv
<1>6. CASE Removed(a)
  <2>1. UNCHANGED <<rec, stuck>> /\ pc[a] = "removed" /\ moves' = [moves EXCEPT ![a] = 0]
    BY <1>6 DEF Removed
  <2>2. \/ /\ a \in Owners /\ job' = job /\ handle' = [handle EXCEPT ![JobOf(a)] = "over"]
           /\ pc' = [pc EXCEPT ![a] = "idle"]
        \/ /\ a \in Sweepers /\ handle' = handle /\ job' = [job EXCEPT ![a] = "none"]
           /\ pc' = [pc EXCEPT ![a] = "sweeping"]
    BY <1>6, Jobs DEF Removed
  <2>3. /\ pc' \in [Actors -> Phases] /\ pc'[a] \in {"idle", "sweeping"}
        /\ (a \in Sweepers => pc'[a] = "sweeping" /\ job'[a] = "none")
        /\ \A b \in Actors : b # a => pc'[b] = pc[b] /\ moves'[b] = moves[b]
    <3>1. PICK to \in {"idle", "sweeping"} : pc' = [pc EXCEPT ![a] = to] /\ (a \in Sweepers => to = "sweeping")
      BY <2>2, Jobs
    <3>2. pc \in [Actors -> Phases] /\ moves \in [Actors -> 0..2] /\ to \in Phases
      BY DEF IInv, TypeOK, Phases
    <3>3. a \in Sweepers => job'[a] = "none"
      BY <2>2, Jobs DEF IInv, TypeOK
    <3> QED
      BY <2>1, <3>1, <3>2, <3>3
  <2>4. /\ \A b \in Actors : b # a => JobOf(b)' = JobOf(b)
        /\ \A s \in Sweepers : s # a => job'[s] = job[s]
    BY <2>2 DEF JobOf, IInv, TypeOK
  <2>5. /\ handle' \in [Launches -> {"none", "spawned", "live", "over"}]
        /\ \A l \in Launches : handle'[l] = handle[l] \/ (l = JobOf(a) /\ handle'[l] = "over")
    BY <2>2 DEF IInv, TypeOK
  <2>6. TypeOK'
    <3>1. job' \in [Sweepers -> Launches \cup {"none"}]
      BY <2>2 DEF IInv, TypeOK
    <3>2. moves' \in [Actors -> 0..2]
      BY <2>1 DEF IInv, TypeOK
    <3> QED
      BY <1>1, <2>1, <2>3, <2>5, <3>1, <3>2 DEF IInv, TypeOK
  <2>7. Launched' /\ Occupied' /\ FolderOutlivesCommands' /\ StrangersSpared'
    BY <1>1, <1>2, <1>3, <2>1, <2>5 DEF IInv, Launched, Occupied, FolderOutlivesCommands, StrangersSpared, TypeOK
  <2>8. AtHand' /\ Spared'
    BY <1>1, <2>1, <2>3, <2>4, <2>5, Jobs DEF IInv, AtHand, Spared, Holding, Clear, Removing
  <2>9. Ended'
    <3>1. \A b \in Actors : pc'[b] \in Clear => b # a
      BY <2>3 DEF Clear, Removing
    <3> QED
      BY <1>1, <1>2, <1>3, <2>1, <2>3, <2>4, <2>5, <3>1 DEF IInv, Ended, TypeOK
  <2>10. Watched' /\ RemovalIsFinal'
    <3>1. \A b \in Actors : pc'[b] \in {"look1", "look2", "look3", "removed"} => b # a
      BY <2>3
    <3> QED
      BY <2>1, <2>3, <2>4, <3>1 DEF IInv, Watched, RemovalIsFinal
  <2>11. Unclaimed'
    <3>1. \A s \in Sweepers, l \in Launches : rec[l] = s => s # a
      BY <2>1, <2>2 DEF IInv, Unclaimed, Removing
    <3> QED
      BY <2>1, <2>3, <2>4, <3>1, Jobs DEF IInv, Unclaimed
  <2> QED
    BY <2>6, <2>7, <2>8, <2>9, <2>10, <2>11 DEF IInv
<1> QED
  BY <1>4, <1>5, <1>6

----------------------------------------------------------------------------
(* The steps of a sweep that read, or remove the temp folder: it goes only *)
(* when no record is there, so that every recorded launch has ended.       *)
LEMMA ScanInv ==
    ASSUME IInv, NEW s \in Sweepers,
           \/ ScanNames(s) \/ ScanRecords(s) \/ Unknown(s) \/ Rescan(s) \/ RemoveTempFolders(s) \/ SweeperKilled(s)
    PROVE  IInv'
<1> USE DEF sweeps, os, launcher, observed
<1>1. /\ UNCHANGED <<kind, lead, kid, squat, restarted, rec, owner, handle, leftSurvivors, seen, job, recorded,
                     stuck, told, hit, moves>>
      /\ s \in Actors
  BY Jobs DEF ScanNames, ScanRecords, Unknown, Rescan, RemoveTempFolders, SweeperKilled
<1>2. Commands' = Commands /\ (\A a : JobOf(a)' = JobOf(a)) /\ \A l : Done(l)' <=> Done(l)
  BY <1>1, JobsKept DEF Commands, Done
<1>3. PICK to \in {"names", "sweeping", "rescan", "done", "returning", "dead"} :
         /\ pc' = [pc EXCEPT ![s] = to]
         /\ \/ pc[s] \in Between /\ to \in Between
            \/ pc[s] = "claimed" /\ to = "returning"
            \/ to = "dead"
  BY DEF ScanNames, ScanRecords, Unknown, Rescan, RemoveTempFolders, SweeperKilled, Between
<1>4. pc' \in [Actors -> Phases] /\ pc'[s] = to /\ \A a \in Actors : a # s => pc'[a] = pc[a]
  BY <1>1, <1>3 DEF IInv, TypeOK, Phases
<1>5. snap' \in [Sweepers -> [Launches -> {"none", "base"} \cup Sweepers]] /\ noted' \in [Sweepers -> BOOLEAN]
  <2>1. Listed(s) \in [Launches -> {"none", "base"} \cup Sweepers] /\ (folder = "noted") \in BOOLEAN
    BY DEF Listed, IInv, TypeOK
  <2>2. \/ snap' = snap
        \/ \E names \in [Launches -> {"none", "base"} \cup Sweepers] : snap' = [snap EXCEPT ![s] = names]
    BY <2>1 DEF ScanNames, ScanRecords, Unknown, Rescan, RemoveTempFolders, SweeperKilled, IInv, TypeOK
  <2>3. noted' = noted \/ \E b \in BOOLEAN : noted' = [noted EXCEPT ![s] = b]
    BY <2>1 DEF ScanNames, ScanRecords, Unknown, Rescan, RemoveTempFolders, SweeperKilled
  <2>4. snap' \in [Sweepers -> [Launches -> {"none", "base"} \cup Sweepers]]
    BY <2>2 DEF IInv, TypeOK
  <2>5. noted' \in [Sweepers -> BOOLEAN]
    BY <2>3 DEF IInv, TypeOK
  <2> QED
    BY <2>4, <2>5
<1>6. \/ UNCHANGED <<folder, hidden>>
      \/ /\ folder' = "removed" /\ owner = "dead" /\ hidden' \in BOOLEAN
         /\ hidden' \/ \A l \in Launches : rec[l] = "none"
      \/ folder' = folder /\ hidden' = hidden
  <2>1. CASE RemoveTempFolders(s)
    <3>1. restarted => owner = "dead"
      BY DEF IInv, Launched
    <3>2. hidden' \in BOOLEAN
      BY <2>1 DEF RemoveTempFolders
    <3> DEFINE goes == folder = "noted" /\ (restarted \/ owner = "dead") /\ Unrecorded(s)
    <3>3. CASE goes
      <4>1. folder' = "removed" /\ owner = "dead"
        BY <2>1, <3>1, <3>3 DEF RemoveTempFolders
      <4>2. hidden' \/ ~\E l \in Launches : rec[l] # "none" /\ Listed(s)[l] = "none"
        BY <2>1, <3>3 DEF RemoveTempFolders
      <4>3. hidden' \/ \A l \in Launches : rec[l] = "none"
        BY <3>3, <4>2 DEF Unrecorded
      <4> QED
        BY <3>2, <4>1, <4>3
    <3>4. CASE ~goes
      BY <2>1, <3>4 DEF RemoveTempFolders, IInv, TypeOK
    <3> QED
      BY <3>3, <3>4
  <2>2. CASE ~RemoveTempFolders(s)
    BY <2>2 DEF ScanNames, ScanRecords, Unknown, Rescan, SweeperKilled
  <2> QED
    BY <2>1, <2>2
<1>7. TypeOK'
  <2>1. folder' \in {"none", "noted", "removed"} /\ hidden' \in BOOLEAN
    BY <1>6 DEF IInv, TypeOK
  <2> QED
    BY <1>1, <1>4, <1>5, <2>1 DEF IInv, TypeOK
<1>8. Launched' /\ Occupied' /\ StrangersSpared'
  BY <1>1, <1>2, <1>6 DEF IInv, Launched, Occupied, StrangersSpared
<1>9. FolderOutlivesCommands'
  <2>1. CASE UNCHANGED <<folder, hidden>>
    BY <1>1, <1>2, <2>1 DEF IInv, FolderOutlivesCommands
  <2>2. CASE \A l \in Launches : rec[l] = "none"
    BY <1>1, <1>2, <2>2 DEF IInv, TypeOK, Ended, Done, FolderOutlivesCommands
  <2> QED
    BY <1>1, <1>2, <1>6, <2>1, <2>2 DEF FolderOutlivesCommands
<1>10. AtHand' /\ Spared'
  BY <1>1, <1>2, <1>3, <1>4 DEF IInv, AtHand, Spared, Holding, Clear, Removing, Between
<1>11. Ended' /\ Watched' /\ RemovalIsFinal'
  <2>1. \A a \in Actors : pc'[a] \in Clear => a # s
    BY <1>4 DEF Clear, Removing
  <2>2. {"look1", "look2", "look3", "removed"} \subseteq Clear
    BY DEF Clear, Removing
  <2>3. Ended'
    BY <1>1, <1>2, <1>4, <2>1 DEF IInv, Ended
  <2>4. Watched' /\ RemovalIsFinal'
    BY <1>1, <1>2, <1>4, <2>1, <2>2 DEF IInv, Watched, RemovalIsFinal
  <2> QED
    BY <2>3, <2>4
<1>12. Unclaimed'
  <2>1. pc[s] \in Between => \A l \in Launches : rec[l] # s
    BY DEF IInv, Unclaimed, Between, Holding, Clear, Removing
  <2>2. \A t \in Sweepers : t \in Actors
    BY Jobs
  <2>3. "returning" \in Holding \ (Removing \ {"claims"})
    BY DEF Holding, Clear, Removing
  <2> SUFFICES ASSUME NEW t \in Sweepers, NEW l \in Launches, rec[l] = t
               PROVE  pc'[t] = "dead" \/ (job[t] = l /\ pc'[t] \in Holding \ (Removing \ {"claims"}))
    BY <1>1 DEF Unclaimed
  <2>4. pc[t] = "dead" \/ (job[t] = l /\ pc[t] \in Holding \ (Removing \ {"claims"}))
    BY DEF IInv, Unclaimed
  <2>5. CASE t # s
    BY <1>4, <2>2, <2>4, <2>5
  <2>6. CASE t = s
    <3>1. pc[s] # "dead" \/ to = "dead"
      BY <1>3 DEF Between
    <3> QED
      BY <1>3, <1>4, <2>1, <2>3, <2>4, <2>6, <3>1
  <2> QED
    BY <2>5, <2>6
<1> QED
  BY <1>7, <1>8, <1>9, <1>10, <1>11, <1>12 DEF IInv

(* A sweep goes on to a stop only if nobody else has the pid, and to the   *)
(* removal only if it has seen the launch end or has named what is left.   *)
LEMMA JudgeInv == ASSUME IInv, NEW s \in Sweepers, Judge(s) PROVE IInv'
<1> USE DEF sweeps, os, launcher
<1>1. /\ UNCHANGED <<kind, lead, kid, squat, restarted, rec, folder, owner, handle, leftSurvivors, job, snap, noted,
                     recorded, stuck, moves, hidden>>
      /\ pc[s] = "claimed" /\ s \in Actors
  BY Jobs DEF Judge
<1>2. Commands' = Commands /\ \A a : JobOf(a)' = JobOf(a)
  BY <1>1, JobsKept DEF Commands
<1>3. PICK l : l = job[s] /\ l = JobOf(s) /\ l \in Launches
  BY <1>1, Jobs DEF IInv, AtHand, Holding
<1>4. /\ squat[l] # "none" => lead[l] = "gone" /\ (l \in Commands => kid[l] # "reach")
      /\ squat[l] = "twin" => restarted
  BY <1>3 DEF IInv, Occupied
<1>5. /\ ~restarted /\ identify(l) = "same" => squat[l] = "none"
      /\ ~restarted /\ identify(l) # "same" => lead[l] # "alive"
      /\ l \in Commands /\ kid[l] = "reach" /\ ~restarted /\ identify(l) # "same" => identify(l) = "leaderless"
  <2>1. CASE squat[l] = "other"
    BY <1>4, <2>1 DEF identify
  <2>2. CASE squat[l] # "other" /\ l \notin Commands
    BY <1>4, <2>2 DEF identify
  <2>3. CASE squat[l] # "other" /\ l \in Commands
    <3>1. kid[l] = "reach" => groupMembers(l) # {}
      BY DEF groupMembers, Kid
    <3>2. squat[l] # "none" => lead[l] = "gone"
      BY <1>4
    <3> QED
      BY <1>4, <2>3, <3>1, <3>2 DEF identify
  <2> QED
    BY <2>1, <2>2, <2>3
<1>6. PICK to \in {"clear", "returning", "stopping"} :
         /\ pc' = [pc EXCEPT ![s] = to] /\ seen' \in [Actors -> BOOLEAN] /\ hit' = hit
         /\ told' = told \/ told' = told \cup {l}
         /\ to = "clear" => lead[l] # "alive" /\ (l \in Commands /\ kid[l] = "reach" => l \in told')
         /\ to = "stopping" => squat[l] = "none"
  <2>1. CASE restarted
    <3>1. lead[l] # "alive" /\ kid[l] # "reach"
      BY <1>3, <2>1 DEF IInv, Launched
    <3>2. pc' = [pc EXCEPT ![s] = "clear"] /\ UNCHANGED <<seen, told, hit>>
      BY <2>1 DEF Judge
    <3> QED
      BY <3>1, <3>2 DEF IInv, TypeOK
  <2>2. CASE ~restarted /\ owner # "dead"
    <3>1. pc' = [pc EXCEPT ![s] = "returning"] /\ UNCHANGED <<seen, told, hit>>
      BY <2>2 DEF Judge
    <3> QED
      BY <3>1 DEF IInv, TypeOK
  <2>3. CASE ~restarted /\ owner = "dead" /\ identify(l) = "same"
    <3>1. StopBegins(s, l) /\ told' = told
      BY <1>3, <2>3 DEF Judge
    <3>2. squat[l] = "none"
      BY <1>5, <2>3
    <3>3. hit' = hit
      BY <3>1, <3>2, <1>3, Collected DEF StopBegins, Signals
    <3>4. seen' \in [Actors -> BOOLEAN]
      BY <3>1 DEF StopBegins, Collects, IInv, TypeOK
    <3>5. pc' = [pc EXCEPT ![s] = Begins(s, l)] /\ Begins(s, l) \in {"clear", "stopping"}
      BY <3>1 DEF StopBegins, Begins
    <3>6. Begins(s, l) = "clear" => lead[l] # "alive" /\ (l \in Commands /\ kid[l] = "reach" => l \in told)
      BY <1>3, Collected DEF Begins, Done
    <3> QED
      BY <3>1, <3>2, <3>3, <3>4, <3>5, <3>6
  <2>4. CASE ~restarted /\ owner = "dead" /\ identify(l) # "same"
    <3>1. /\ pc' = [pc EXCEPT ![s] = "clear"] /\ UNCHANGED <<seen, hit>>
          /\ told' = IF identify(l) = "leaderless" THEN told \cup {l} ELSE told
      BY <1>3, <2>4 DEF Judge
    <3>2. lead[l] # "alive" /\ (l \in Commands /\ kid[l] = "reach" => l \in told')
      BY <1>5, <2>4, <3>1
    <3>3. seen' \in [Actors -> BOOLEAN]
      BY <3>1 DEF IInv, TypeOK
    <3> QED
      BY <3>1, <3>2, <3>3
  <2> QED
    BY <2>1, <2>2, <2>3, <2>4
<1>7. pc' \in [Actors -> Phases] /\ pc'[s] = to /\ \A a \in Actors : a # s => pc'[a] = pc[a]
  BY <1>1, <1>6 DEF IInv, TypeOK, Phases
<1>8. \A k : Done(k) => Done(k)'
  BY <1>1, <1>2, <1>6 DEF Done
<1>9. to = "clear" => Done(l)'
  BY <1>1, <1>2, <1>6 DEF Done
<1>10. TypeOK'
  <2>1. told' \subseteq Launches
    BY <1>3, <1>6 DEF IInv, TypeOK
  <2> QED
    BY <1>1, <1>6, <1>7, <2>1 DEF IInv, TypeOK
<1>11. Launched' /\ Occupied' /\ StrangersSpared' /\ FolderOutlivesCommands'
  BY <1>1, <1>2, <1>6 DEF IInv, Launched, Occupied, StrangersSpared, FolderOutlivesCommands
<1>12. AtHand'
  BY <1>1, <1>2, <1>7, Jobs DEF IInv, AtHand, Holding, Between
<1>13. Spared'
  BY <1>1, <1>2, <1>3, <1>6, <1>7 DEF IInv, Spared
<1>14. Ended'
  <2>1. ASSUME NEW a \in Actors, pc'[a] \in Clear PROVE Done(JobOf(a))'
    <3>1. CASE a = s
      <4>1. Done(l)'
        BY <1>7, <1>9, <2>1, <3>1 DEF Clear, Removing
      <4> QED
        BY <1>1, <1>2, <1>3, <3>1, <4>1 DEF Done
    <3>2. CASE a # s
      <4>1. Done(JobOf(a))
        BY <1>7, <2>1, <3>2 DEF IInv, Ended
      <4> QED
        BY <1>1, <1>2, <1>6, <4>1 DEF Done
    <3> QED
      BY <3>1, <3>2
  <2>2. \A k \in recorded' : rec'[k] = "none" \/ handle'[k] = "over" => Done(k)'
    BY <1>1, <1>8 DEF IInv, Ended
  <2> QED
    BY <2>1, <2>2 DEF Ended
<1>15. Watched' /\ RemovalIsFinal'
  <2>1. \A a \in Actors : pc'[a] \in {"look1", "look2", "look3", "removed"} => pc'[a] = pc[a]
    BY <1>7
  <2> QED
    BY <1>1, <1>2, <2>1 DEF IInv, Watched, RemovalIsFinal
<1>16. Unclaimed'
  <2>1. \A t \in Sweepers : t \in Actors
    BY Jobs
  <2>2. to \in Holding \ (Removing \ {"claims"})
    BY DEF Holding, Clear, Removing
  <2> QED
    BY <1>1, <1>7, <2>1, <2>2 DEF IInv, Unclaimed
<1> QED
  BY <1>10, <1>11, <1>12, <1>13, <1>14, <1>15, <1>16 DEF IInv

(* A rename of the record, to a claim or back: whoever looks for it counts *)
(* it, and has seen it gone only if there were two.                        *)
LEMMA MovedWatched ==
    ASSUME IInv, NEW s \in Sweepers, NEW l \in Launches, NEW to \in {"base"} \cup Sweepers,
           rec[l] # "none", to = "base" => rec[l] \in Sweepers, rec' = [rec EXCEPT ![l] = to], moves' = Moved(l),
           pc[s] \notin {"look2", "look3"}, pc'[s] \notin Removing,
           \A a \in Actors \ {s} : pc'[a] = pc[a] /\ JobOf(a)' = JobOf(a)
    PROVE  Watched' /\ RemovalIsFinal' /\ moves' \in [Actors -> 0..2]
<1>1. moves' \in [Actors -> 0..2]
  BY DEF Moved, IInv, TypeOK
<1>2. ASSUME NEW a \in Actors
      PROVE  /\ pc'[a] = "look1" => moves'[a] = 0
             /\ pc'[a] = "look2" /\ moves'[a] = 0 => rec'[JobOf(a)'] \in {"none", "base"}
             /\ pc'[a] = "look3" /\ moves'[a] = 0 => rec'[JobOf(a)'] = "none"
             /\ pc'[a] \in {"look2", "look3"} /\ moves'[a] = 1 => rec'[JobOf(a)'] # "base"
             /\ pc'[a] = "removed" => rec'[JobOf(a)'] = "none" \/ moves'[a] = 2
  <2>1. CASE a = s
    BY <2>1 DEF Removing
  <2>2. CASE a # s /\ JobOf(a) # l
    <3>1. pc'[a] = pc[a] /\ moves'[a] = moves[a] /\ JobOf(a)' = JobOf(a)
      BY <2>2 DEF Moved
    <3>2. pc[a] \in Removing => rec'[JobOf(a)] = rec[JobOf(a)]
      BY <2>2 DEF IInv, TypeOK
    <3> QED
      BY <3>1, <3>2 DEF IInv, Watched, RemovalIsFinal, Removing
  <2>3. CASE a # s /\ JobOf(a) = l
    <3>1. /\ pc'[a] = pc[a] /\ JobOf(a)' = l /\ rec'[l] = to /\ moves[a] \in 0..2
          /\ moves'[a] = IF pc[a] \in {"look2", "look3"} /\ moves[a] < 2 THEN moves[a] + 1 ELSE moves[a]
      BY <2>3 DEF Moved, IInv, TypeOK
    <3>2. /\ pc[a] = "look1" => moves[a] = 0
          /\ pc[a] = "look2" /\ moves[a] = 0 => rec[l] \in {"none", "base"}
          /\ pc[a] = "look3" /\ moves[a] = 0 => rec[l] = "none"
          /\ pc[a] \in {"look2", "look3"} /\ moves[a] = 1 => rec[l] # "base"
          /\ pc[a] = "removed" => rec[l] = "none" \/ moves[a] = 2
      BY <2>3 DEF IInv, Watched, RemovalIsFinal
    <3>3. CASE pc[a] \in {"look2", "look3"}
      <4>1. moves'[a] # 0 /\ (moves'[a] = 1 => moves[a] = 0)
        BY <3>1, <3>3
      <4>2. moves[a] = 0 => pc[a] = "look2" /\ rec[l] = "base"
        BY <3>2, <3>3
      <4>3. moves[a] = 0 => to # "base"
        BY <4>2, StopSweepAssumption
      <4> QED
        BY <3>1, <3>3, <4>1, <4>3
    <3>4. CASE pc[a] \notin {"look2", "look3"}
      BY <3>1, <3>2, <3>4
    <3> QED
      BY <3>3, <3>4
  <2> QED
    BY <2>1, <2>2, <2>3
<1> QED
  BY <1>1, <1>2 DEF Watched, RemovalIsFinal

(* A claim takes the record of a launch that was recorded.                 *)
LEMMA ClaimInv == ASSUME IInv, NEW s \in Sweepers, Claim(s) PROVE IInv'
<1> USE DEF os, launcher
<1>1. /\ UNCHANGED <<kind, lead, kid, squat, restarted, folder, owner, handle, leftSurvivors, seen, noted, recorded,
                     stuck, told, hit, hidden>>
      /\ pc[s] = "sweeping" /\ s \in Actors /\ s \notin Owners
  BY Jobs DEF Claim
<1>2. Commands' = Commands /\ \A l : Done(l)' <=> Done(l)
  BY <1>1 DEF Commands, Done
<1>3. PICK l \in Launches :
         /\ snap' = [snap EXCEPT ![s][l] = "none"] /\ snap[s][l] # "none"
         /\ \/ /\ rec[l] # "none" /\ rec' = [rec EXCEPT ![l] = s] /\ moves' = Moved(l)
               /\ job' = [job EXCEPT ![s] = l] /\ pc' = [pc EXCEPT ![s] = "claimed"]
            \/ UNCHANGED <<rec, moves, job, pc>>
  BY DEF Claim
<1>4. snap' \in [Sweepers -> [Launches -> {"none", "base"} \cup Sweepers]]
  BY <1>3 DEF IInv, TypeOK
<1>5. CASE UNCHANGED <<rec, moves, job, pc>>
  <2>1. \A a : JobOf(a)' = JobOf(a)
    BY <1>5, JobsKept
  <2>2. TypeOK'
    BY <1>1, <1>4, <1>5 DEF IInv, TypeOK
  <2>3. Launched' /\ AtHand' /\ Occupied' /\ Spared' /\ StrangersSpared' /\ FolderOutlivesCommands'
    BY <1>1, <1>2, <1>5, <2>1 DEF IInv, Launched, AtHand, Occupied, Spared, StrangersSpared, FolderOutlivesCommands
  <2>4. Ended' /\ Watched' /\ Unclaimed' /\ RemovalIsFinal'
    BY <1>1, <1>2, <1>5, <2>1 DEF IInv, Ended, Watched, Unclaimed, RemovalIsFinal
  <2> QED
    BY <2>2, <2>3, <2>4 DEF IInv
<1>6. CASE /\ rec[l] # "none" /\ rec' = [rec EXCEPT ![l] = s] /\ moves' = Moved(l)
           /\ job' = [job EXCEPT ![s] = l] /\ pc' = [pc EXCEPT ![s] = "claimed"]
  <2>1. /\ pc' \in [Actors -> Phases] /\ pc'[s] = "claimed" /\ \A a \in Actors \ {s} : pc'[a] = pc[a]
    BY <1>1, <1>6 DEF IInv, TypeOK, Phases
  <2>2. /\ job' \in [Sweepers -> Launches \cup {"none"}] /\ job'[s] = l
        /\ \A t \in Sweepers \ {s} : job'[t] = job[t]
    BY <1>6 DEF IInv, TypeOK
  <2>3. JobOf(s)' = l /\ \A a \in Actors \ {s} : JobOf(a)' = JobOf(a)
    BY <2>2 DEF JobOf
  <2>4. /\ rec' \in [Launches -> {"none", "base"} \cup Sweepers] /\ rec'[l] = s
        /\ \A k \in Launches : k # l => rec'[k] = rec[k]
    BY <1>6 DEF IInv, TypeOK
  <2>5. Watched' /\ RemovalIsFinal' /\ moves' \in [Actors -> 0..2]
    <3>1. \A a \in Actors \ {s} : pc'[a] = pc[a] /\ JobOf(a)' = JobOf(a)
      BY <2>1, <2>3
    <3>2. pc[s] \notin {"look2", "look3"} /\ pc'[s] \notin Removing
      BY <1>1, <2>1 DEF Removing
    <3>3. s \in {"base"} \cup Sweepers /\ s # "base"
      BY StopSweepAssumption
    <3> QED
      BY <1>6, <3>1, <3>2, <3>3, MovedWatched
  <2>6. TypeOK'
    BY <1>1, <1>4, <2>1, <2>2, <2>4, <2>5 DEF IInv, TypeOK
  <2>7. l \in recorded /\ handle[l] \in {"live", "over"}
    BY <1>6 DEF IInv, Launched
  <2>8. Launched' /\ Occupied' /\ StrangersSpared' /\ FolderOutlivesCommands'
    BY <1>1, <1>2, <2>4, <2>7 DEF IInv, Launched, Occupied, StrangersSpared, FolderOutlivesCommands
  <2>9. AtHand' /\ Spared'
    BY <1>1, <2>1, <2>2, <2>3, <2>7, Jobs DEF IInv, AtHand, Spared, Between
  <2>10. Ended'
    <3>1. \A a \in Actors : pc'[a] \in Clear => a # s
      BY <2>1 DEF Clear, Removing
    <3>2. s # "none"
      BY StopSweepAssumption
    <3>3. \A a \in Actors : pc'[a] \in Clear => Done(JobOf(a)')
      BY <2>1, <2>3, <3>1 DEF IInv, Ended
    <3>4. \A k \in recorded : rec'[k] = "none" \/ handle[k] = "over" => Done(k)
      BY <2>4, <3>2 DEF IInv, TypeOK, Ended
    <3> QED
      BY <1>1, <1>2, <3>3, <3>4 DEF Ended, Done
  <2>11. Unclaimed'
    <3>1. \A k \in Launches : rec[k] # s
      BY <1>1 DEF IInv, Unclaimed, Holding, Clear, Removing
    <3>2. "claimed" \in Holding \ (Removing \ {"claims"})
      BY DEF Holding, Removing
    <3> QED
      BY <2>1, <2>2, <2>4, <3>1, <3>2, Jobs DEF IInv, Unclaimed
  <2> QED
    BY <2>5, <2>6, <2>8, <2>9, <2>10, <2>11 DEF IInv
<1> QED
  BY <1>3, <1>5, <1>6

(* A claim that is given back had not been removed.                        *)
LEMMA PutBackInv == ASSUME IInv, NEW s \in Sweepers, PutBack(s) PROVE IInv'
<1> USE DEF os, launcher
<1>1. /\ UNCHANGED <<kind, lead, kid, squat, restarted, folder, owner, handle, leftSurvivors, seen, snap, noted,
                     recorded, stuck, told, hit, hidden>>
      /\ pc[s] = "returning" /\ s \in Actors /\ s \notin Owners
  BY Jobs DEF PutBack
<1>2. Commands' = Commands /\ \A l : Done(l)' <=> Done(l)
  BY <1>1 DEF Commands, Done
<1>3. PICK l \in Launches : l = job[s]
  BY <1>1, Jobs DEF IInv, AtHand, Holding
<1>4. /\ job' = [job EXCEPT ![s] = "none"] /\ pc' = [pc EXCEPT ![s] = "sweeping"]
      /\ \/ rec[l] = s /\ rec' = [rec EXCEPT ![l] = "base"] /\ moves' = Moved(l)
         \/ rec[l] # s /\ UNCHANGED <<rec, moves>>
  BY <1>3 DEF PutBack
<1>5. /\ pc' \in [Actors -> Phases] /\ pc'[s] = "sweeping" /\ \A a \in Actors \ {s} : pc'[a] = pc[a]
  BY <1>1, <1>4 DEF IInv, TypeOK, Phases
<1>6. /\ job' \in [Sweepers -> Launches \cup {"none"}] /\ job'[s] = "none"
      /\ \A t \in Sweepers \ {s} : job'[t] = job[t]
  BY <1>4 DEF IInv, TypeOK
<1>7. \A a \in Actors \ {s} : JobOf(a)' = JobOf(a)
  BY <1>6 DEF JobOf
<1>8. /\ rec' \in [Launches -> {"none", "base"} \cup Sweepers]
      /\ \A k \in Launches : rec'[k] = rec[k] \/ (k = l /\ rec[l] = s /\ rec'[l] = "base")
      /\ rec'[l] # s
  <2>1. s # "base" /\ s # "none"
    BY StopSweepAssumption
  <2> QED
    BY <1>4, <2>1 DEF IInv, TypeOK
<1>9. Watched' /\ RemovalIsFinal' /\ moves' \in [Actors -> 0..2]
  <2>1. pc[s] \notin {"look2", "look3"} /\ pc'[s] \notin Removing
    BY <1>1, <1>5 DEF Removing
  <2>2. \A a \in Actors \ {s} : pc'[a] = pc[a] /\ JobOf(a)' = JobOf(a)
    BY <1>5, <1>7
  <2>3. CASE rec[l] = s /\ rec' = [rec EXCEPT ![l] = "base"] /\ moves' = Moved(l)
    <3>1. rec[l] # "none" /\ rec[l] \in Sweepers
      BY <2>3, StopSweepAssumption
    <3> QED
      BY <2>1, <2>2, <2>3, <3>1, MovedWatched
  <2>4. CASE UNCHANGED <<rec, moves>>
    <3>1. \A a \in Actors : pc'[a] \in Removing => a # s
      BY <2>1
    <3> QED
      BY <2>2, <2>4, <3>1 DEF IInv, TypeOK, Watched, RemovalIsFinal, Removing
  <2> QED
    BY <1>4, <2>3, <2>4
<1>10. TypeOK'
  BY <1>1, <1>5, <1>6, <1>8, <1>9 DEF IInv, TypeOK
<1>11. Launched' /\ Occupied' /\ StrangersSpared' /\ FolderOutlivesCommands'
  <2>1. rec[l] = s => rec[l] # "none"
    BY StopSweepAssumption
  <2> QED
    BY <1>1, <1>2, <1>8, <2>1 DEF IInv, Launched, Occupied, StrangersSpared, FolderOutlivesCommands
<1>12. AtHand' /\ Spared'
  BY <1>1, <1>5, <1>6, <1>7, Jobs DEF IInv, AtHand, Spared, Holding, Clear, Removing
<1>13. Ended'
  <2>1. \A a \in Actors : pc'[a] \in Clear => a # s
    BY <1>5 DEF Clear, Removing
  <2>2. \A a \in Actors : pc'[a] \in Clear => Done(JobOf(a)')
    BY <1>5, <1>7, <2>1 DEF IInv, Ended
  <2>3. \A k \in recorded : rec'[k] = "none" \/ handle[k] = "over" => Done(k)
    BY <1>8 DEF IInv, TypeOK, Ended
  <2> QED
    BY <1>1, <1>2, <2>2, <2>3 DEF Ended, Done
<1>14. Unclaimed'
  <2>1. \A k \in Launches : rec[k] = s => k = l
    BY <1>1, <1>3 DEF IInv, Unclaimed
  <2>2. \A t \in Sweepers : t # "base"
    BY StopSweepAssumption
  <2> QED
    BY <1>5, <1>6, <1>8, <2>1, <2>2, Jobs DEF IInv, Unclaimed
<1> QED
  BY <1>9, <1>10, <1>11, <1>12, <1>13, <1>14 DEF IInv

----------------------------------------------------------------------------
LEMMA InitInv == Init => IInv
<1> SUFFICES ASSUME Init PROVE IInv
  OBVIOUS
<1>1. TypeOK
  <2>1. /\ job \in [Sweepers -> Launches \cup {"none"}] /\ noted \in [Sweepers -> BOOLEAN]
        /\ snap \in [Sweepers -> [Launches -> {"none", "base"} \cup Sweepers]]
    BY DEF Init
  <2>2. pc \in [Actors -> Phases] /\ seen \in [Actors -> BOOLEAN] /\ moves \in [Actors -> 0..2]
    BY DEF Init, Phases
  <2>3. /\ recorded \subseteq Launches /\ leftSurvivors \subseteq Launches /\ stuck \subseteq Launches
        /\ told \subseteq Launches /\ hit \subseteq Actors \X Launches /\ hidden \in BOOLEAN
    BY DEF Init
  <2> QED
    BY <2>1, <2>2, <2>3 DEF Init, TypeOK
<1>2. Launched /\ AtHand /\ Occupied /\ Spared /\ Ended
  BY StopSweepAssumption DEF Init, Launched, AtHand, Occupied, Spared, Ended, Holding, Clear, Removing, Actors, JobOf
<1>3. Watched /\ Unclaimed /\ RemovalIsFinal /\ StrangersSpared /\ FolderOutlivesCommands
  BY StopSweepAssumption DEF Init, Watched, Unclaimed, RemovalIsFinal, StrangersSpared, FolderOutlivesCommands
<1> QED
  BY <1>1, <1>2, <1>3 DEF IInv

LEMMA StepInv == IInv /\ [Next]_vars => IInv'
<1> SUFFICES ASSUME IInv, [Next]_vars PROVE IInv'
  OBVIOUS
<1>1. ASSUME NEW l \in Launches,
             \/ Fork(l) \/ LeadExits(l) \/ LeadReaped(l) \/ KidGoes(l) \/ Recycle(l)
             \/ Spawn(l) \/ Record(l) \/ RecordFails(l) \/ RunStops(l)
      PROVE  IInv'
  <2>1. CASE Fork(l) \/ LeadExits(l) \/ LeadReaped(l) \/ KidGoes(l) \/ Recycle(l)
    BY <2>1, ProcessInv
  <2>2. CASE Spawn(l) \/ Record(l) \/ RecordFails(l)
    BY <2>2, LaunchInv
  <2>3. CASE RunStops(l)
    BY <2>3, OwnerStopsInv
  <2> QED
    BY <1>1, <2>1, <2>2, <2>3
<1>2. CASE Restart \/ MakeFolder \/ StopSignal \/ Leave \/ Killed
  BY <1>2, RestartInv, LaunchInv, OwnerStopsInv, OwnerEndsInv
<1>3. ASSUME NEW a \in Actors, StopStep(a) PROVE IInv'
  BY <1>3, StopInv, RemoveInv DEF StopStep
<1>4. ASSUME NEW s \in Sweepers, ScanNames(s) \/ SweepStep(s) \/ SweeperKilled(s) PROVE IInv'
  BY <1>4, ScanInv, JudgeInv, ClaimInv, PutBackInv DEF SweepStep
<1>5. CASE UNCHANGED vars
  <2>1. /\ UNCHANGED <<kind, lead, kid, squat, restarted, rec, folder, owner, handle, leftSurvivors>>
        /\ UNCHANGED <<pc, seen, job, snap, noted, recorded, stuck, told, hit, moves, hidden>>
    BY <1>5 DEF vars
  <2>2. Commands' = Commands /\ (\A a : JobOf(a)' = JobOf(a)) /\ \A l : Done(l)' <=> Done(l)
    BY <2>1, JobsKept DEF Commands, Done
  <2>3. TypeOK'
    BY <2>1 DEF IInv, TypeOK
  <2>4. Launched' /\ AtHand' /\ Occupied' /\ Spared' /\ StrangersSpared' /\ FolderOutlivesCommands'
    BY <2>1, <2>2 DEF IInv, Launched, AtHand, Occupied, Spared, StrangersSpared, FolderOutlivesCommands
  <2>5. Ended' /\ Watched' /\ Unclaimed' /\ RemovalIsFinal'
    BY <2>1, <2>2 DEF IInv, Ended, Watched, Unclaimed, RemovalIsFinal
  <2> QED
    BY <2>3, <2>4, <2>5 DEF IInv
<1> QED
  BY <1>1, <1>2, <1>3, <1>4, <1>5 DEF Next

(* The inductive invariant holds in every reachable state.                 *)
THEOREM Inductive == Spec => []IInv
BY InitInv, StepInv, PTL DEF Spec

(* Every variable keeps its type, however many runs, sweeps and restarts.  *)
THEOREM SweepTypes == Spec => []TypeOK
<1>1. IInv => TypeOK
  BY DEF IInv
<1> QED
  BY <1>1, Inductive, PTL

(* A record is not removed while the launched process runs, or an unnamed  *)
(* member of its group, wherever owner, sweeps or the machine have died.   *)
THEOREM NoOrphanIsSilent == Spec => []NoSilentOrphan
<1>1. IInv => NoSilentOrphan
  BY DEF IInv, Ended, Done, NoSilentOrphan
<1> QED
  BY <1>1, Inductive, PTL

(* removeRecord is wrong about the record only after two renames of it     *)
(* within three looks, whatever the number of sweeps that rename it.       *)
THEOREM RemovedIsRemoved == Spec => []RemovalIsFinal
<1>1. IInv => RemovalIsFinal
  BY DEF IInv
<1> QED
  BY <1>1, Inductive, PTL

(* No sweep signals another's process, and the owner only in a second stop *)
(* of a launch that it could not end or release in the first.              *)
THEOREM NoStrangerIsHit == Spec => []StrangersSpared
<1>1. IInv => StrangersSpared
  BY DEF IInv
<1> QED
  BY <1>1, Inductive, PTL

(* The temp folder outlives the commands that the last scan could see.     *)
THEOREM FolderIsLast == Spec => []FolderOutlivesCommands
<1>1. IInv => FolderOutlivesCommands
  BY DEF IInv
<1> QED
  BY <1>1, Inductive, PTL

(* The only claims without a claimer are those of killed sweeps.           *)
THEOREM ClaimsAreHeld == Spec => []NoClaimLeft
<1>1. IInv => NoClaimLeft
  BY DEF IInv, TypeOK, Unclaimed, NoClaimLeft
<1> QED
  BY <1>1, Inductive, PTL
=============================================================================
