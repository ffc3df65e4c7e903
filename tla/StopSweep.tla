----------------------------- MODULE StopSweep -----------------------------
(***************************************************************************)
(* The processes one run launches, and the records by which the next Styre *)
(* command finds those that a killed run left behind.                      *)
(*                                                                         *)
(* A launch is an agent, in Styre's own process group, or a command that   *)
(* leads a group.  Its record is one file, which a sweep claims by a       *)
(* rename and gives back by another; the owner removes it under either     *)
(* name.  The owner stops a launch from two places, the run code and the   *)
(* stop handler, which take turns at their awaits; other processes come    *)
(* between any two system calls.  A listing of the process table and the   *)
(* signals sent by it are one step.                                        *)
(***************************************************************************)
EXTENDS Integers, FiniteSets

CONSTANTS
    Launches,       \* what the run launches
    Sweepers        \* Styre commands, each of which sweeps first

ASSUME StopSweepAssumption ==
    /\ Launches # {} /\ Sweepers # {} /\ "none" \notin Launches
    /\ {"none", "base"} \cap Sweepers = {} /\ Sweepers \cap ({"run", "handler"} \X Launches) = {}

VARIABLES
    (* the operating system, by launch *)
    kind,           \* of the launch
    lead,           \* the launched process
    kid,            \* a process that it started: "reach" in its group or tree,
                    \* "loose" out of the tree, "gone" ended or out of every reach
    squat,          \* who has the launch's pid, as a process or a group id, after it
    restarted,      \* has the machine restarted?
    (* the records folder *)
    rec,            \* where the record is: "none", "base", or the sweeper whose claim it bears
    folder,         \* the command temp folder with its note
    (* the owner of the launches, and the sweepers *)
    owner,          \* "stopping": its stop handler runs
    handle,         \* what the owner knows of a launch
    leftSurvivors,  \* launches of which a stop of the owner left something alive
    pc, seen,       \* of an actor: where it is; was the kid collected by its stop?
    job, snap, noted, \* of a sweeper: the launch at hand, names it has listed, saw it the note?
    (* observers *)
    recorded,       \* launches that have had a record
    stuck,          \* launches whose record the owner could not remove
    told,           \* launches whose remaining members a sweep has named
    hit,            \* actors that signalled a stranger, with the launch
    moves,          \* renames of the record since an actor first looked for it, up to two
    hidden          \* did the temp folder go by a scan that had missed a record?

os == <<kind, lead, kid, squat, restarted>>
sweeps == <<job, snap, noted>>
observed == <<recorded, stuck, told, hit, moves, hidden>>
launcher == <<owner, handle, leftSurvivors>>
vars == <<kind, lead, kid, squat, restarted, rec, folder, owner, handle, leftSurvivors, pc, seen, job, snap,
          noted, recorded, stuck, told, hit, moves, hidden>>

(* The run code, and the stop handler with one stop for each launch.       *)
Owners == {"run", "handler"} \X Launches
Actors == Owners \cup Sweepers
Removing == {"claims", "look1", "look2", "look3", "again", "removed"}
Phases == {"idle", "names", "sweeping", "claimed", "returning", "stopping", "forced", "clear", "rescan",
           "done", "dead"} \cup Removing

Commands == {l \in Launches : kind[l] = "group"}
JobOf(a) == IF a \in Sweepers THEN job[a] ELSE a[2]

Init ==
    /\ kind = [l \in Launches |-> "none"] /\ lead = [l \in Launches |-> "none"]
    /\ kid = [l \in Launches |-> "none"] /\ squat = [l \in Launches |-> "none"] /\ restarted = FALSE
    /\ rec = [l \in Launches |-> "none"] /\ folder = "none"
    /\ owner = "up" /\ handle = [l \in Launches |-> "none"]
    /\ pc = [a \in Actors |-> "idle"] /\ seen = [a \in Actors |-> FALSE]
    /\ job = [s \in Sweepers |-> "none"] /\ noted = [s \in Sweepers |-> FALSE]
    /\ snap = [s \in Sweepers |-> [l \in Launches |-> "none"]]
    /\ recorded = {} /\ leftSurvivors = {} /\ stuck = {} /\ told = {} /\ hit = {} /\ hidden = FALSE
    /\ moves = [a \in Actors |-> 0]

-----------------------------------------------------------------------------
(* The processes.  Those of a launch may end by themselves or by a signal. *)

Fork(l) ==
    /\ lead[l] = "alive" /\ kid[l] = "none"
    /\ kid' = [kid EXCEPT ![l] = "reach"]
    /\ UNCHANGED <<kind, lead, squat, restarted, rec, folder, launcher, pc, seen, sweeps, observed>>

(* What an agent leaves running is adopted by init: only a stop that has   *)
(* collected it still has it.                                              *)
LeadExits(l) ==
    /\ lead[l] = "alive"
    /\ lead' = [lead EXCEPT ![l] = "zombie"]
    /\ kid' = IF l \in Commands \/ kid[l] # "reach" THEN kid
              ELSE [kid EXCEPT ![l] = IF \E a \in Actors : JobOf(a) = l /\ seen[a] THEN "loose" ELSE "gone"]
    /\ UNCHANGED <<kind, squat, restarted, rec, folder, launcher, pc, seen, sweeps, observed>>

LeadReaped(l) ==
    /\ lead[l] = "zombie"
    /\ lead' = [lead EXCEPT ![l] = "gone"]
    /\ UNCHANGED <<kind, kid, squat, restarted, rec, folder, launcher, pc, seen, sweeps, observed>>

(* It ends, or leaves the group for a session of its own.                  *)
KidGoes(l) ==
    /\ kid[l] \in {"reach", "loose"}
    /\ kid' = [kid EXCEPT ![l] = "gone"]
    /\ UNCHANGED <<kind, lead, squat, restarted, rec, folder, launcher, pc, seen, sweeps, observed>>

StopUnderWay(l) == \E a \in Actors : JobOf(a) = l /\ pc[a] \in {"stopping", "forced"}

(* The pid is in use as long as the leader or a member of its group is     *)
(* there.  It is not handed out again within a stop, whose listings are    *)
(* milliseconds apart, nor between the exit of a command and its finish(). *)
IdFree(l) == lead[l] = "gone" /\ squat[l] = "none" /\ ~(l \in Commands /\ kid[l] = "reach")

(* Another program gets the pid; or a daemon does that left a group of     *)
(* that id without its leader; or, after a restart, one with the recorded  *)
(* start time too.                                                         *)
Recycle(l) ==
    /\ IdFree(l) /\ ~StopUnderWay(l)
    /\ owner = "dead" \/ handle[l] = "over" \/ l \in leftSurvivors \cup stuck
    /\ \E who \in {"other", "daemon", "twin"} :
          /\ who = "twin" <=> restarted
          /\ who = "daemon" => l \in Commands
          /\ squat' = [squat EXCEPT ![l] = who]
    /\ UNCHANGED <<kind, lead, kid, restarted, rec, folder, launcher, pc, seen, sweeps, observed>>

Silenced(keep) == [a \in Actors |-> IF a \in keep THEN pc[a] ELSE IF a \in Sweepers THEN "dead" ELSE "idle"]

Restart ==
    /\ ~restarted /\ restarted' = TRUE
    /\ lead' = [l \in Launches |-> IF lead[l] = "none" THEN "none" ELSE "gone"]
    /\ kid' = [l \in Launches |-> IF kid[l] = "none" THEN "none" ELSE "gone"]
    /\ squat' = [l \in Launches |-> "none"]
    /\ owner' = "dead"
    /\ pc' = Silenced({s \in Sweepers : pc[s] = "idle"})
    /\ UNCHANGED <<kind, rec, folder, handle, leftSurvivors, seen, sweeps, observed>>

-----------------------------------------------------------------------------
(* What a stop sees, and whom it signals.                                  *)

Strangers(l) == IF squat[l] = "none" THEN {} ELSE {"stranger"}
Lead(l) == IF lead[l] = "alive" THEN {"lead"} ELSE {}
Kid(l, where) == IF kid[l] \in where THEN {"kid"} ELSE {}

groupMembers(l) == Lead(l) \cup Kid(l, {"reach"}) \cup Strangers(l)

(* The first listing.  An agent that is gone or whose pid is another's     *)
(* collects nothing.                                                       *)
collect(l) ==
    IF l \in Commands THEN groupMembers(l)
    ELSE IF lead[l] = "alive" THEN Lead(l) \cup Kid(l, {"reach"}) ELSE {}

(* A later listing: a group is listed anew, of a tree what was collected.  *)
stillAlive(a) ==
    LET l == JobOf(a) IN
    IF l \in Commands THEN groupMembers(l)
    ELSE Lead(l) \cup (IF seen[a] THEN Kid(l, {"reach", "loose"}) ELSE {})

Signals(a, l, targets) == IF "stranger" \in targets THEN {<<a, l>>} ELSE {}

(* stopTree and stopGroup up to their first await, by actor a.             *)
Begins(a, l) == IF collect(l) = {} THEN "clear" ELSE "stopping"
Collects(l) == l \notin Commands /\ "kid" \in collect(l)

StopBegins(a, l) ==
    /\ pc' = [pc EXCEPT ![a] = Begins(a, l)]
    /\ seen' = [seen EXCEPT ![a] = Collects(l)]
    /\ hit' = hit \cup Signals(a, l, collect(l))

(* A poll finds nothing alive.                                             *)
StopEnds(a) ==
    /\ pc[a] \in {"stopping", "forced"} /\ stillAlive(a) = {}
    /\ pc' = [pc EXCEPT ![a] = "clear"]
    /\ seen' = [seen EXCEPT ![a] = FALSE]
    /\ UNCHANGED <<os, rec, folder, launcher, sweeps, observed>>

(* The grace period is over or cut short: list again, SIGKILL.             *)
StopForces(a) ==
    LET l == JobOf(a) IN
    /\ pc[a] = "stopping" /\ stillAlive(a) # {}
    /\ pc' = [pc EXCEPT ![a] = "forced"]
    /\ seen' = [seen EXCEPT ![a] = @ \/ (lead[l] = "alive" /\ Collects(l))]
    /\ hit' = hit \cup Signals(a, l, stillAlive(a))
    /\ UNCHANGED <<os, rec, folder, launcher, sweeps, recorded, stuck, told, moves, hidden>>

Survivors(a) == IF a \in Sweepers THEN "returning" ELSE "idle"

StopGivesUp_Quiet(a) ==
    /\ pc[a] = "forced" /\ stillAlive(a) # {}
    /\ pc' = [pc EXCEPT ![a] = "clear"]
    /\ UNCHANGED <<os, rec, folder, launcher, seen, sweeps, observed>>

(* The last listing still shows some: they are named, the record is kept.  *)
StopGivesUp(a) ==
    /\ pc[a] = "forced" /\ stillAlive(a) # {}
    /\ pc' = [pc EXCEPT ![a] = Survivors(a)]
    /\ seen' = [seen EXCEPT ![a] = FALSE]
    /\ leftSurvivors' = IF a \in Owners THEN leftSurvivors \cup {JobOf(a)} ELSE leftSurvivors
    /\ UNCHANGED <<os, rec, folder, owner, handle, sweeps, observed>>

-----------------------------------------------------------------------------
(* removeRecord.  It is synchronous, so the owner does one at a time.      *)

OwnerFree == \A a \in Owners : pc[a] \notin Removing

UnlinkRecord(a) ==
    LET l == JobOf(a) IN
    /\ pc[a] = "again" \/ (pc[a] = "clear" /\ (a \in Owners => OwnerFree))
    /\ rec' = [rec EXCEPT ![l] = IF @ = "base" THEN "none" ELSE @]
    /\ pc' = [pc EXCEPT ![a] = "claims"]
    /\ UNCHANGED <<os, folder, launcher, seen, sweeps, observed>>

UnlinkClaims(a) ==
    LET l == JobOf(a) IN
    /\ pc[a] = "claims"
    /\ rec' = [rec EXCEPT ![l] = IF @ \in Sweepers THEN "none" ELSE @]
    /\ pc' = [pc EXCEPT ![a] = "look1"]
    /\ moves' = [moves EXCEPT ![a] = 0]
    /\ UNCHANGED <<os, folder, launcher, seen, sweeps, recorded, stuck, told, hit, hidden>>

(* neitherNameExists: the claims, the record, the claims once more.        *)
NoClaim(l) == rec[l] \notin Sweepers
NoRecord(l) == rec[l] # "base"

neitherNameExists_Once(look, l) ==
    CASE look = "look1" -> IF NoClaim(l) THEN "look2" ELSE "again"
      [] look = "look2" -> IF NoRecord(l) THEN "removed" ELSE "again"
      [] look = "look3" -> "removed"

neitherNameExists(look, l) ==
    CASE look = "look1" -> IF NoClaim(l) THEN "look2" ELSE "again"
      [] look = "look2" -> IF NoRecord(l) THEN "look3" ELSE "again"
      [] look = "look3" -> IF NoClaim(l) THEN "removed" ELSE "again"

Look(a) ==
    /\ pc[a] \in {"look1", "look2", "look3"}
    /\ pc' = [pc EXCEPT ![a] = neitherNameExists(pc[a], JobOf(a))]
    /\ UNCHANGED <<os, rec, folder, launcher, seen, sweeps, observed>>

(* The deadline has passed.                                                *)
RemoveGivesUp(a) ==
    /\ pc[a] = "again"
    /\ pc' = [pc EXCEPT ![a] = Survivors(a)]
    /\ stuck' = IF a \in Owners THEN stuck \cup {JobOf(a)} ELSE stuck
    /\ UNCHANGED <<os, rec, folder, launcher, seen, sweeps, recorded, told, hit, moves, hidden>>

(* The owner lets go of the launch; a sweep takes the next.                *)
Removed(a) ==
    /\ pc[a] = "removed"
    /\ IF a \in Owners
         THEN /\ handle' = [handle EXCEPT ![a[2]] = "over"] /\ pc' = [pc EXCEPT ![a] = "idle"]
              /\ UNCHANGED job
         ELSE /\ job' = [job EXCEPT ![a] = "none"] /\ pc' = [pc EXCEPT ![a] = "sweeping"]
              /\ UNCHANGED handle
    /\ moves' = [moves EXCEPT ![a] = 0]
    /\ UNCHANGED <<os, rec, folder, owner, leftSurvivors, seen, snap, noted, recorded, stuck, told, hit, hidden>>

StopStep(a) ==
    \/ StopEnds(a) \/ StopForces(a) \/ StopGivesUp(a)
    \/ UnlinkRecord(a) \/ UnlinkClaims(a) \/ Look(a) \/ RemoveGivesUp(a) \/ Removed(a)

-----------------------------------------------------------------------------
(* The owner.                                                              *)

Alone == OwnerFree /\ \A l \in Launches : handle[l] # "spawned"
live(l) == handle[l] = "live"

(* commandTempDir, for the first command.                                  *)
MakeFolder ==
    /\ owner = "up" /\ Alone /\ folder = "none" /\ folder' = "noted"
    /\ UNCHANGED <<os, rec, launcher, pc, seen, sweeps, observed>>

Spawn(l) ==
    /\ owner = "up" /\ Alone /\ handle[l] = "none"
    /\ \E k \in {"agent", "group"} :
          /\ k = "group" => folder = "noted"
          /\ kind' = [kind EXCEPT ![l] = k]
    /\ handle' = [handle EXCEPT ![l] = "spawned"]
    /\ lead' = [lead EXCEPT ![l] = "alive"]
    /\ UNCHANGED <<kid, squat, restarted, rec, folder, owner, leftSurvivors, pc, seen, sweeps, observed>>

(* A process that is already gone has nothing to record.                   *)
Record(l) ==
    /\ owner # "dead" /\ handle[l] = "spawned"
    /\ handle' = [handle EXCEPT ![l] = "live"]
    /\ IF lead[l] # "gone"
         THEN rec' = [rec EXCEPT ![l] = "base"] /\ recorded' = recorded \cup {l}
         ELSE UNCHANGED <<rec, recorded>>
    /\ UNCHANGED <<os, folder, owner, leftSurvivors, pc, seen, sweeps, stuck, told, hit, moves, hidden>>

(* The record cannot be written: what was started is killed.               *)
RecordFails(l) ==
    /\ owner # "dead" /\ handle[l] = "spawned"
    /\ handle' = [handle EXCEPT ![l] = "over"]
    /\ UNCHANGED <<os, rec, folder, owner, leftSurvivors, pc, seen, sweeps, observed>>

(* A timeout, finish() after the launch has exited, or the exit check.     *)
RunStops(l) ==
    LET a == <<"run", l>> IN
    /\ owner # "dead" /\ OwnerFree /\ live(l) /\ l \notin leftSurvivors /\ pc[a] = "idle"
    /\ StopBegins(a, l)
    /\ UNCHANGED <<os, rec, folder, launcher, sweeps, recorded, stuck, told, moves, hidden>>

(* handleStopSignal: the door closes, and every live launch is signalled   *)
(* before the first await.                                                 *)
StopSignal ==
    LET Mine == {a \in Owners : a[1] = "handler" /\ live(a[2])} IN
    /\ owner = "up" /\ Alone
    /\ owner' = "stopping"
    /\ pc' = [a \in Actors |-> IF a \in Mine THEN Begins(a, a[2]) ELSE pc[a]]
    /\ seen' = [a \in Actors |-> IF a \in Mine THEN Collects(a[2]) ELSE seen[a]]
    /\ hit' = hit \cup UNION {Signals(a, a[2], collect(a[2])) : a \in Mine}
    /\ UNCHANGED <<os, rec, folder, handle, leftSurvivors, sweeps, recorded, stuck, told, moves, hidden>>

(* The exit check, or the end of the handler whether its stops have ended  *)
(* or not: the temp folder goes unless a command is live or time is out.   *)
Leave ==
    /\ owner # "dead" /\ Alone
    /\ owner = "up" => \A l \in Launches : live(l) => l \in leftSurvivors \cup stuck
    /\ owner' = "dead"
    /\ folder' \in IF folder = "noted" /\ \A l \in Commands : ~live(l) THEN {"noted", "removed"} ELSE {folder}
    /\ pc' = Silenced(Sweepers)
    /\ UNCHANGED <<os, rec, handle, leftSurvivors, seen, sweeps, observed>>

Killed ==
    /\ owner # "dead" /\ owner' = "dead"
    /\ pc' = Silenced(Sweepers)
    /\ UNCHANGED <<os, rec, folder, handle, leftSurvivors, seen, sweeps, observed>>

-----------------------------------------------------------------------------
(* The sweep.                                                              *)

aliveSweeper(s) == pc[s] \notin {"idle", "dead"}

(* The directory is read, then every file in it: one that a peer has       *)
(* renamed in between is in no list.                                       *)
ScanNames(s) ==
    /\ pc[s] = "idle"
    /\ pc' = [pc EXCEPT ![s] = "names"]
    /\ snap' = [snap EXCEPT ![s] = rec]
    /\ noted' = [noted EXCEPT ![s] = folder = "noted"]
    /\ UNCHANGED <<os, rec, folder, launcher, seen, job, observed>>

Listed(s) == [l \in Launches |-> IF rec[l] = snap[s][l] THEN rec[l] ELSE "none"]

ScanRecords(s) ==
    /\ pc[s] = "names"
    /\ pc' = [pc EXCEPT ![s] = "sweeping"]
    /\ snap' = [snap EXCEPT ![s] = Listed(s)]
    /\ UNCHANGED <<os, rec, folder, launcher, seen, job, noted, observed>>

Moved(l) == [a \in Actors |->
    IF JobOf(a) = l /\ pc[a] \in {"look2", "look3"} /\ moves[a] < 2 THEN moves[a] + 1 ELSE moves[a]]

(* A live claimer's record is its own; a file that is gone was another's.  *)
Claim(s) ==
    /\ pc[s] = "sweeping"
    /\ \E l \in Launches :
          LET from == snap[s][l] IN
          /\ from # "none"
          /\ snap' = [snap EXCEPT ![s][l] = "none"]
          /\ IF rec[l] = from /\ ~(from \in Sweepers /\ aliveSweeper(from))
               THEN /\ rec' = [rec EXCEPT ![l] = s] /\ moves' = Moved(l)
                    /\ job' = [job EXCEPT ![s] = l] /\ pc' = [pc EXCEPT ![s] = "claimed"]
               ELSE UNCHANGED <<rec, moves, job, pc>>
    /\ UNCHANGED <<os, folder, launcher, seen, noted, recorded, stuck, told, hit, hidden>>

(* What the sweep makes of an orphan.                                      *)
identify_ByGroup(l) ==
    CASE squat[l] = "other" -> "reused"
      [] squat[l] # "other" /\ l \notin Commands -> IF lead[l] = "alive" THEN "same" ELSE "exited"
      [] squat[l] # "other" /\ l \in Commands -> IF groupMembers(l) # {} THEN "same" ELSE "exited"

identify(l) ==
    CASE squat[l] = "other" -> "reused"
      [] squat[l] # "other" /\ l \notin Commands ->
            IF lead[l] = "alive" \/ squat[l] = "twin" THEN "same" ELSE "exited"
      [] squat[l] # "other" /\ l \in Commands ->
            IF lead[l] # "gone" \/ squat[l] = "twin" THEN "same"
            ELSE IF groupMembers(l) # {} THEN "leaderless" ELSE "exited"

(* A record of before the restart goes; one of a live owner is put back;   *)
(* of an orphan it depends on who has its pid now.                         *)
Judge(s) ==
    LET l == job[s]  verdict == identify(l) IN
    /\ pc[s] = "claimed"
    /\ CASE restarted -> pc' = [pc EXCEPT ![s] = "clear"] /\ UNCHANGED <<seen, told, hit>>
         [] ~restarted /\ owner # "dead" ->
                pc' = [pc EXCEPT ![s] = "returning"] /\ UNCHANGED <<seen, told, hit>>
         [] ~restarted /\ owner = "dead" /\ verdict = "same" -> StopBegins(s, l) /\ UNCHANGED told
         [] ~restarted /\ owner = "dead" /\ verdict # "same" ->
                /\ pc' = [pc EXCEPT ![s] = "clear"]
                /\ told' = IF verdict = "leaderless" THEN told \cup {l} ELSE told
                /\ UNCHANGED <<seen, hit>>
    /\ UNCHANGED <<os, rec, folder, launcher, sweeps, recorded, stuck, moves, hidden>>

(* It may not look at the process, or refuses to stop it.                  *)
Unknown(s) ==
    /\ pc[s] = "claimed" /\ ~restarted /\ owner = "dead"
    /\ pc' = [pc EXCEPT ![s] = "returning"]
    /\ UNCHANGED <<os, rec, folder, launcher, seen, sweeps, observed>>

(* putBack: fails quietly when the owner has removed the record.           *)
PutBack(s) ==
    LET l == job[s] IN
    /\ pc[s] = "returning"
    /\ IF rec[l] = s THEN rec' = [rec EXCEPT ![l] = "base"] /\ moves' = Moved(l)
       ELSE UNCHANGED <<rec, moves>>
    /\ job' = [job EXCEPT ![s] = "none"]
    /\ pc' = [pc EXCEPT ![s] = "sweeping"]
    /\ UNCHANGED <<os, folder, launcher, seen, snap, noted, recorded, stuck, told, hit, hidden>>

(* removeTempFolders: the names are read again if there was a note.        *)
Rescan(s) ==
    /\ pc[s] = "sweeping" /\ \A l \in Launches : snap[s][l] = "none"
    /\ pc' = [pc EXCEPT ![s] = IF noted[s] THEN "rescan" ELSE "done"]
    /\ snap' = IF noted[s] THEN [snap EXCEPT ![s] = rec] ELSE snap
    /\ UNCHANGED <<os, rec, folder, launcher, seen, job, noted, observed>>

Unrecorded_Any(s) == TRUE
Unrecorded(s) == \A l \in Launches : Listed(s)[l] = "none"

RemoveTempFolders(s) ==
    LET goes == folder = "noted" /\ (restarted \/ owner = "dead") /\ Unrecorded(s) IN
    /\ pc[s] = "rescan"
    /\ pc' = [pc EXCEPT ![s] = "done"]
    /\ snap' = [snap EXCEPT ![s] = [l \in Launches |-> "none"]]
    /\ folder' = IF goes THEN "removed" ELSE folder
    /\ hidden' = (hidden \/ (goes /\ \E l \in Launches : rec[l] # "none" /\ Listed(s)[l] = "none"))
    /\ UNCHANGED <<os, rec, launcher, seen, job, noted, recorded, stuck, told, hit, moves>>

SweeperKilled(s) ==
    /\ aliveSweeper(s) /\ pc[s] # "done"
    /\ pc' = [pc EXCEPT ![s] = "dead"]
    /\ UNCHANGED <<os, rec, folder, launcher, seen, sweeps, observed>>

SweepStep(s) ==
    \/ ScanRecords(s) \/ Claim(s) \/ Judge(s) \/ Unknown(s) \/ PutBack(s)
    \/ Rescan(s) \/ RemoveTempFolders(s)

-----------------------------------------------------------------------------
Next ==
    \/ \E l \in Launches :
          \/ Fork(l) \/ LeadExits(l) \/ LeadReaped(l) \/ KidGoes(l) \/ Recycle(l)
          \/ Spawn(l) \/ Record(l) \/ RecordFails(l) \/ RunStops(l)
    \/ Restart \/ MakeFolder \/ StopSignal \/ Leave \/ Killed
    \/ \E a \in Actors : StopStep(a)
    \/ \E s \in Sweepers : ScanNames(s) \/ SweepStep(s) \/ SweeperKilled(s)

Spec == Init /\ [][Next]_vars

-----------------------------------------------------------------------------
TypeOK ==
    /\ kind \in [Launches -> {"none", "agent", "group"}]
    /\ lead \in [Launches -> {"none", "alive", "zombie", "gone"}]
    /\ kid \in [Launches -> {"none", "reach", "loose", "gone"}]
    /\ squat \in [Launches -> {"none", "other", "daemon", "twin"}] /\ restarted \in BOOLEAN
    /\ rec \in [Launches -> {"none", "base"} \cup Sweepers] /\ folder \in {"none", "noted", "removed"}
    /\ owner \in {"up", "stopping", "dead"} /\ handle \in [Launches -> {"none", "spawned", "live", "over"}]
    /\ pc \in [Actors -> Phases] /\ seen \in [Actors -> BOOLEAN]
    /\ job \in [Sweepers -> Launches \cup {"none"}] /\ noted \in [Sweepers -> BOOLEAN]
    /\ snap \in [Sweepers -> [Launches -> {"none", "base"} \cup Sweepers]]
    /\ recorded \subseteq Launches /\ leftSurvivors \subseteq Launches /\ stuck \subseteq Launches /\ told \subseteq Launches
    /\ hit \subseteq Actors \X Launches /\ moves \in [Actors -> 0..2] /\ hidden \in BOOLEAN

(* A launch that has had a record and has none any more is over: the       *)
(* launched process is not running, nor is a member of its group, unless a *)
(* sweep named that member because the leader was gone (conventions.md:    *)
(* "Removed only once the process, or for a group every member, is         *)
(* confirmed gone").  Holds through every crash of owner and sweepers.     *)
NoSilentOrphan ==
    \A l \in recorded : rec[l] = "none" =>
        /\ lead[l] # "alive"
        /\ l \in Commands /\ kid[l] = "reach" => l \in told

(* removeRecord returns although the record is there only if the copy was  *)
(* renamed twice within its last three observations (records.ts, on        *)
(* neitherNameExists).                                                     *)
RemovalIsFinal ==
    \A a \in Actors : pc[a] = "removed" => rec[JobOf(a)] = "none" \/ moves[a] = 2

(* No sweep signals a process that is not of the launch it has the record  *)
(* of, whoever has got its pid or the id of its group.  The owner does so  *)
(* only in a second stop of a group that it could not end or release in    *)
(* the first.                                                              *)
StrangersSpared ==
    \A h \in hit : h[1] \in Owners /\ h[2] \in leftSurvivors \cup stuck

(* The temp folder of the commands is not removed while a recorded command *)
(* may be using it, except for members whose leader is gone, which were    *)
(* named, and when the second scan missed a record: a peer renamed it      *)
(* under the scan, or the owner wrote it, and died, between the scan and   *)
(* the question whether the owner is alive.                                *)
FolderOutlivesCommands ==
    folder = "removed" => \A l \in Commands \cap recorded :
        (lead[l] = "alive" \/ kid[l] = "reach") => l \in told \/ hidden

(* A sweep that goes on, or is over, has no claim but the one at hand: a   *)
(* claim without its claimer is one of a killed sweep, which the next      *)
(* retakes.                                                                *)
NoClaimLeft ==
    \A l \in Launches : rec[l] \in Sweepers => pc[rec[l]] = "dead" \/ job[rec[l]] = l
=============================================================================
