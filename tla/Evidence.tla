------------------------------ MODULE Evidence ------------------------------
(***************************************************************************)
(* What a run may claim to have verified.  Every command that a verify     *)
(* step runs leaves a signal in an append-only ledger, under the commit it *)
(* was measured at; the evidence floor at the end of `implement`, the      *)
(* required suites at publication and the report in the pull request are   *)
(* all computed from that ledger.  The model keeps the newest signal of    *)
(* each key, which is the only one the code reads, and beside it what the  *)
(* commands really did (`good`, `met`), by version of the code: a commit   *)
(* of documents does not change the code.                                  *)
(*                                                                         *)
(* Commands run at the tip of the branch, but their signals carry the head *)
(* of the latest dispatch row.  The two part when the operator commits to  *)
(* the branch of a stopped run and has it resumed with --accept-head       *)
(* (`ahead`); the next dispatch, of whatever step, records the tip.        *)
(*                                                                         *)
(* The rounds of gate, arbiter and re-author and their caps are those of   *)
(* module ControlLoop; here a failed gate has one of their outcomes.  A    *)
(* step that throws and is tried again changes nothing and is left out.    *)
(***************************************************************************)
EXTENDS Integers, Sequences, FiniteSets, FiniteSetsExt

CONSTANTS
    Components,     \* the components of the profile, as strings
    Planned,        \* number of work units
    Criteria,       \* sets of acceptance criteria that a ticket may have
    Classes,        \* what a criterion's check may have been classified as
    Diffs,          \* cumulative diffs of a unit: components, "unowned" and "inert" files
    Profiles,       \* what setup may have written, read anew by every process
    InPlace,        \* does the run work in the operator's own checkout?
    MaxCommits, MaxRuns, MaxLoops       \* bounds of the model

Kinds == {"build", "test", "repo"}
Job == [comp : Components \cup {"repo"}, kind : Kinds, cmd : Nat, structured : BOOLEAN]

ASSUME EvidenceAssumption ==
    /\ Planned \in Nat \ {0} /\ Classes \subseteq {"assertion", "environmental", "satisfied"}
    /\ Components \subseteq STRING \ {"repo", "unowned", "inert"} /\ InPlace \in BOOLEAN
    /\ MaxCommits \in Nat \ {0} /\ MaxRuns \in Nat \ {0} /\ MaxLoops \in Nat
    /\ \A p \in Profiles : /\ DOMAIN p = {"jobs", "unavailable", "required"}
                           /\ p.jobs \in Seq(Job) \ {<<>>}
                           /\ p.unavailable \subseteq Components /\ p.required \subseteq Components

Units == 1..Planned
All == UNION Criteria

VARIABLES
    (* git, the profile and the installed dependencies *)
    log,            \* the recorded heads, as commits: [kind, manifest: does it touch a
                    \* dependency manifest?]; "operator" was recorded by no coding dispatch
    ahead,          \* has the branch accepted commits of the operator on top?
    profile,
    installed,      \* the commit at which `provision` last installed
    (* the run database *)
    stage, units,   \* ticket.stage; work_unit.status
    behavioral,     \* the units with work_unit.behavioral = 1
    diff,           \* base_sha..head of each unit
    measuredAt,     \* branch_head_sha of each unit's latest dispatch
    provisioned,    \* is the step `provision` done?
    docs,           \* "no" needs_docs, or is docs:revise "due" or "done"?
    acs, class, rejected, tampered,     \* criteria; class of the active check; rejected re-authors;
                                        \* checks whose file differs from the authored one
    integration,    \* the newest integration signal, by commit
    sweep,          \* the newest `test` signal of a unit, by commit
    gates,          \* commits with a passing ac-check-gate
    carriedGates,   \* those of them that were carried forward
    post,           \* the newest ac-check-post-implement, by commit and criterion
    red,            \* what the newest gate left red, until it is decided
    (* the process *)
    up, runs, loops,
    (* observers *)
    good,           \* <<"suite" | "unit" | "ac", name, commit>>: the last run of it was really green
    met,            \* <<job, commit>>: likewise, for the jobs of the integration sweep
    stale           \* was anything ever run on dependencies older than the manifest?

branch == <<log, ahead>>
workspace == <<branch, profile, installed>>
design == <<behavioral, acs, class, rejected, tampered>>
ledger == <<integration, sweep, gates, carriedGates, post, red>>
process == <<up, runs, loops>>
observers == <<good, met, stale>>
vars == <<log, ahead, profile, installed, stage, units, behavioral, diff, measuredAt, provisioned, docs, acs, class,
          rejected, tampered, integration, sweep, gates, carriedGates, post, red, up,
          runs, loops, good, met, stale>>

Commits == 1..MaxCommits
head == Len(log)
Coded == {"code", "checks"}
codeOf(h) == Max({j \in 1..h : log[j].kind \in Coded})
sameCode == {h \in 1..head : codeOf(h) = codeOf(head)}       \* head, and what no coding dispatch parts from it
checked == {a \in acs : class[a] # "none"}                  \* criteria with an active check
Results == {"pass", "fail", "error"}
NotRun == [result |-> "none"]
NoPost == [a \in All |-> "none"]

TypeOK ==
    /\ log \in Seq([kind : {"code", "docs", "checks", "operator"}, manifest : BOOLEAN])
    /\ ahead \in BOOLEAN /\ head \in Commits /\ profile \in Profiles /\ installed \in 0..head
    /\ stage \in {"implement", "review", "merge", "published"}
    /\ units \in [Units -> {"pending", "verifying", "verified"}]
    /\ diff \in [Units -> Diffs \cup {{}}] /\ measuredAt \in [Units -> 0..head]
    /\ provisioned \in BOOLEAN /\ docs \in {"no", "due", "done"}
    /\ behavioral \subseteq Units /\ acs \in Criteria /\ class \in [All -> Classes \cup {"none", "assertion"}]
    /\ rejected \subseteq acs /\ tampered \subseteq acs
    /\ \A h \in Commits : integration[h] = NotRun \/ integration[h].result \in Results
    /\ \A u \in Units, h \in Commits : sweep[u][h].result \in Results \cup {"none"}
    /\ gates \subseteq 1..head /\ carriedGates \subseteq gates
    /\ post \in [Commits -> [All -> {"none", "green", "red"}]]
    /\ red \subseteq acs
    /\ up \in BOOLEAN /\ runs \in 0..MaxRuns /\ loops \in 0..MaxLoops /\ stale \in BOOLEAN

(* The design stage is over: the checks are authored, classified and      *)
(* committed, and `provision` ran before it.                               *)
Init ==
    /\ log = <<[kind |-> "checks", manifest |-> FALSE]>> /\ ahead = FALSE
    /\ profile \in Profiles /\ installed = 1 /\ provisioned = TRUE
    /\ stage = "implement" /\ units = [u \in Units |-> "pending"]
    /\ diff = [u \in Units |-> {}] /\ measuredAt = [u \in Units |-> 0]
    /\ docs \in {"no", "due"}
    /\ behavioral \in SUBSET Units /\ acs \in Criteria
    /\ class \in [All -> Classes \cup {"none"}]
    /\ \A a \in All : a \notin acs => class[a] = "none"
    /\ rejected = {} /\ tampered = {}
    /\ integration = [h \in Commits |-> NotRun]
    /\ sweep = [u \in Units |-> [h \in Commits |-> NotRun]]
    /\ gates = {} /\ carriedGates = {} /\ post = [h \in Commits |-> NoPost]
    /\ red = {}
    /\ up = TRUE /\ runs = 1 /\ loops = 0
    /\ good = {} /\ met = {} /\ stale = FALSE

-----------------------------------------------------------------------------
(* Commands and what their results mean *)

(* commandFor: the component's test command, if it is a real one.          *)
testJob(c) == {profile.jobs[i] : i \in {j \in DOMAIN profile.jobs :
                                          profile.jobs[j].comp = c /\ profile.jobs[j].kind = "test"}}

(* suiteResult: an exit code is the verdict of a plain command; a suite    *)
(* with a structured report needs the report too.                          *)
suiteResult_ByExit(job, how) ==             \* a bug: exit zero without a report is a pass
    IF how = "failed" THEN "fail" ELSE IF how = "cut off" THEN "error" ELSE "pass"
suiteResult(job, how) ==
    CASE how = "passed" -> "pass"
      [] how = "failed" -> "fail"
      [] how = "unreported" -> IF job.structured THEN "error" ELSE "pass"
      [] how = "cut off" -> "error"

(* The runs of a list of jobs, one after the other up to the first that    *)
(* does not pass; `truly` are the green ones.                              *)
Hows == {"passed", "failed", "unreported", "cut off"}
Runs(jobs) ==
    {LET upTo(m) == {jobs[i] : i \in 1..m}
         silent == IF how = "unreported" /\ jobs[n].structured THEN {jobs[n]} ELSE {}
     IN IF suiteResult(jobs[n], how) = "pass"
        THEN [ran |-> upTo(Len(jobs)), bad |-> {}, result |-> "pass", truly |-> upTo(Len(jobs)) \ silent]
        ELSE [ran |-> upTo(n), bad |-> {jobs[n]}, result |-> suiteResult(jobs[n], how), truly |-> upTo(n - 1)] :
     n \in DOMAIN jobs, how \in Hows}

(* The dependencies are gone, or older than the manifest that names them.  *)
Outdated == installed = 0 \/ \E j \in (installed + 1)..head : log[j].manifest
Ran == stale' = (stale \/ Outdated)
Seen(what, names, green) ==
    (good \ {<<what, n, head>> : n \in names}) \cup {<<what, n, head>> : n \in green}

-----------------------------------------------------------------------------
(* The readers of the ledger *)

(* isExecutedPass: a signal that passed and can name what it ran.          *)
isExecutedPass(signal) == signal.result = "pass" /\ signal.ran # {}

exercisesBehaviour(job) == job.kind \in {"test", "repo"}
newestUnitSweepPassed(h) == \E u \in Units : isExecutedPass(sweep[u][h])

executedTestEvidenceAt(h) ==
    \/ /\ isExecutedPass(integration[h])
       /\ \E job \in integration[h].ran : exercisesBehaviour(job)
    \/ newestUnitSweepPassed(h)
    \/ /\ integration[h] # NotRun /\ integration[h].carriedFrom # 0
       /\ newestUnitSweepPassed(integration[h].carriedFrom)

(* declaredSuiteRequirements, written before every step of a process.      *)
Required(p) == {p.jobs[i] : i \in {j \in DOMAIN p.jobs : p.jobs[j].kind = "test"
                                                        /\ p.jobs[j].comp \in p.required}}

(* requiredSuiteProblem: what is declared now must have been run and have  *)
(* passed at this commit, or at the one whose documents alone differ.      *)
requiredSuiteProblem_AnyContract(h) ==      \* a bug: the contract of the run is not compared
    /\ Required(profile) # {}
    /\ \/ integration[h] = NotRun
       \/ \E job \in Required(profile) :
            ~ \E r \in integration[h].ran : r.comp = job.comp /\ r.kind = "test" /\ r \notin integration[h].bad
requiredSuiteProblem(h) ==
    /\ Required(profile) # {}
    /\ \/ integration[h] = NotRun
       \/ integration[h].contract # Required(profile)
       \/ integration[h].ahead             \* the receipt names the tip, not the recorded head
       \/ /\ integration[h].carriedFrom # 0
          /\ LET source == integration[integration[h].carriedFrom]
             IN \/ integration[h].carriedFrom = h \/ source = NotRun
                \/ source.carriedFrom # 0
                \/ [source EXCEPT !.carriedFrom = integration[h].carriedFrom] # integration[h]
       \/ \E job \in Required(profile) : job \notin integration[h].ran \ integration[h].bad

(* acEvidenceSha: measurements at the head, however partial, or those of   *)
(* the one commit that a complete carry names.                             *)
acEvidenceSha(h) ==
    IF post[h] # NoPost THEN h
    ELSE IF /\ integration[h] # NotRun /\ integration[h].carriedFrom # 0
            /\ h \in carriedGates
            /\ post[integration[h].carriedFrom] # NoPost
         THEN integration[h].carriedFrom
         ELSE 0

(* isGatingCheck; "satisfied" stands for both dispositions, which are      *)
(* never run.                                                              *)
gating(a) == class[a] = "assertion"
Rerun == {a \in checked : class[a] # "satisfied"}
green(h, a) == h # 0 /\ post[h][a] = "green"

(* reauthorProvenance: the last word on the active check was a rejected    *)
(* re-author, so a check that was found wrong is still there.              *)
unreplaced(a) == class[a] # "none" /\ a \in rejected

AcsProven(h) ==
    /\ acs # {}
    /\ \A a \in acs : ~unreplaced(a) /\ gating(a) /\ green(acEvidenceSha(h), a)

evidenceFloor(h) == ~requiredSuiteProblem(h) /\ (executedTestEvidenceAt(h) \/ AcsProven(h))

(* buildVerifyReport: what the pull request says of a criterion.           *)
Label(a) ==
    CASE class[a] = "none" -> "no-check"
      [] unreplaced(a) -> "check-unreplaced"
      [] ~unreplaced(a) /\ gating(a) ->
            IF green(acEvidenceSha(head), a) THEN "verified" ELSE "still-red"
      [] OTHER -> class[a]

-----------------------------------------------------------------------------
(* Units: implement, provision, verify *)

Drives == up /\ stage = "implement"
Verified == \A u \in Units : units[u] = "verified"
Actionable(u) == units[u] # "verified" /\ \A v \in Units : v < u => units[v] = "verified"

(* A dispatch row names the tip of the branch: commits of the operator are *)
(* recorded with the dispatch's own, or alone.  The files of the checks    *)
(* are compared at the recorded head.                                      *)
Tampering == \E t \in SUBSET checked : Cardinality(t) <= 1 /\ tampered' = t
Records(kind, manifest) ==
    /\ head < MaxCommits
    /\ log' = Append(log, [kind |-> kind, manifest |-> manifest])
    /\ ahead' = FALSE
NothingCommitted ==
    \/ ~ahead /\ UNCHANGED <<log, ahead, tampered>>
    \/ ahead /\ Records("operator", FALSE) /\ Tampering

(* implement:dispatch commits, or finds nothing to commit; the diff of the *)
(* unit counts from its first dispatch, others' commits included.          *)
Committed(u) ==
    /\ Drives /\ Actionable(u) /\ units[u] = "pending"
    /\ \/ ~ahead /\ UNCHANGED <<log, ahead, tampered>>
       \/ Tampering /\ \E manifest \in BOOLEAN : Records("code", manifest)
    /\ \E d \in Diffs : diff[u] \subseteq d /\ diff' = [diff EXCEPT ![u] = d]
    /\ measuredAt' = [measuredAt EXCEPT ![u] = Len(log')]

(* resetProvisionIfManifestTouched looks at the files of the head commit.  *)
rearmed_Never == provisioned                \* a bug: the new manifest is not looked at
rearmed == provisioned /\ ~log'[Len(log')].manifest

Implement(u) ==
    /\ Committed(u)
    /\ units' = [units EXCEPT ![u] = "verifying"]
    /\ provisioned' = rearmed
    /\ UNCHANGED <<profile, installed, stage, docs, behavioral, acs, class, rejected, ledger, process, observers>>

(* The process dies after the dispatch is complete, before or after the    *)
(* unit's status is written, and before `provision` is armed again.        *)
ImplementCut(u) ==
    /\ Committed(u)
    /\ units' \in {units, [units EXCEPT ![u] = "verifying"]}
    /\ up' = FALSE
    /\ UNCHANGED <<profile, installed, stage, provisioned, docs, behavioral, acs, class,
                   rejected, ledger, runs, loops, observers>>

(* What is served needs the dependencies, which are not there.             *)
Provision ==
    /\ Drives /\ ~provisioned
    /\ Verified \/ \E u \in Units : Actionable(u) /\ units[u] = "verifying"
    /\ provisioned' = TRUE /\ installed' = head
    /\ UNCHANGED <<branch, profile, stage, units, diff, measuredAt, docs, design, ledger, process, observers>>

touched(u) == diff[u] \cap Components
toRun(u) == SelectSeq(profile.jobs, LAMBDA j : j.kind = "test" /\ j.comp \in touched(u))
Verifies(u) ==
    /\ Drives /\ Actionable(u) /\ units[u] = "verifying" /\ provisioned
    /\ sweep[u][measuredAt[u]].result \notin {"pass", "fail"}
Record(u, result, ran) ==
    sweep' = [sweep EXCEPT ![u][measuredAt[u]] = [result |-> result, ran |-> ran]]

(* verify:check of a change to documents alone: nothing to run, and a      *)
(* behavioral unit is sent back.                                           *)
VerifyInert(u) ==
    /\ Verifies(u) /\ diff[u] = {"inert"}
    /\ Record(u, IF u \in behavioral THEN "fail" ELSE "pass", {})
    /\ IF u \in behavioral
       THEN /\ loops < MaxLoops /\ loops' = loops + 1
            /\ units' = [units EXCEPT ![u] = "pending"]
       ELSE UNCHANGED <<units, loops>>
    /\ UNCHANGED <<workspace, stage, diff, measuredAt, provisioned, docs, design, integration, gates,
                   carriedGates, post, red, up, runs, observers>>

(* Every component touched has no test to run, or nobody owns the files:   *)
(* a pass that ran nothing.  A component with neither a command nor the    *)
(* word `unavailable` fails the step.                                      *)
VerifyNothing(u) ==
    /\ Verifies(u) /\ diff[u] # {"inert"} /\ touched(u) \subseteq profile.unavailable
    /\ Record(u, "pass", {})
    /\ UNCHANGED <<workspace, stage, units, diff, measuredAt, provisioned, docs, design, integration,
                   gates, carriedGates, post, red, process, observers>>

(* The commands of the touched components; a behavioral unit must deliver  *)
(* tests that fail at the baseline, or its pass becomes a fail.            *)
VerifyRun(u) ==
    /\ Verifies(u) /\ toRun(u) # <<>>
    /\ \A c \in touched(u) : testJob(c) # {} \/ c \in profile.unavailable
    /\ \E r \in Runs(toRun(u)), bound \in IF u \in behavioral THEN BOOLEAN ELSE {TRUE} :
          LET result == IF r.result = "pass" /\ ~bound THEN "fail" ELSE r.result
          IN /\ Record(u, result, r.ran)
             /\ good' = Seen("unit", {u}, IF result = "pass" /\ r.truly = r.ran THEN {u} ELSE {})
    /\ Ran
    /\ UNCHANGED <<workspace, stage, units, diff, measuredAt, provisioned, docs, design, integration,
                   gates, carriedGates, post, red, process, met>>

MarkVerified(u) ==
    /\ Drives /\ Actionable(u) /\ units[u] = "verifying" /\ provisioned
    /\ sweep[u][measuredAt[u]].result \in {"pass", "fail"}
    /\ units' = [units EXCEPT ![u] = "verified"]
    /\ UNCHANGED <<workspace, stage, diff, measuredAt, provisioned, docs, design, ledger, process, observers>>

-----------------------------------------------------------------------------
(* The gate, the integration sweep and the documents *)

Gated == checked = {} \/ head \in gates

(* verify:checks-gate: tampered checks, gating checks that are not green,  *)
(* and environmental ones whose blocker is gone while they are still red.  *)
blocked_ByRerun(up2) == up2                 \* a bug: the files of the checks are not compared
blocked(reruns) == tampered \cup reruns
Gate ==
    /\ Drives /\ Verified /\ ~Gated /\ red = {} /\ provisioned
    /\ \E ok, gone \in SUBSET Rerun :
          LET reds == {a \in Rerun \ ok : gating(a) \/ a \in gone}
          IN /\ gone \subseteq Rerun \ ok
             /\ red' = blocked(reds)
             /\ gates' = IF blocked(reds) = {} THEN gates \cup {head} ELSE gates
             /\ carriedGates' = carriedGates \ {head}
             /\ post' = [post EXCEPT ![head] =
                    [a \in All |-> IF a \in ok THEN "green" ELSE IF a \in Rerun THEN "red" ELSE @[a]]]
             /\ good' = Seen("ac", Rerun, ok \ tampered)
    /\ Ran
    /\ UNCHANGED <<workspace, stage, units, diff, measuredAt, provisioned, docs, design, integration,
                   sweep, process, met>>

(* The arbiter blames the code, or the check: then its author commits      *)
(* another, which is installed as a new row or rejected, and the old one   *)
(* stays.  Both may have been blamed; a check that was tampered with is    *)
(* not arbitrated.  Commits of the operator that the author's dispatch     *)
(* records were accepted after the arbiter's (DispatchFails has the rest). *)
Arbitrate ==
    /\ Drives /\ red # {} /\ loops < MaxLoops
    /\ \E installed2, refused \in SUBSET (red \ tampered), again \in BOOLEAN :
          /\ installed2 \cap refused = {}
          /\ again <=> refused # {} \/ installed2 # red
          /\ rejected' = (rejected \cup refused) \ installed2
          /\ class' = [a \in All |-> IF a \in installed2 THEN "assertion" ELSE class[a]]
          /\ post' = [h \in Commits |-> [a \in All |-> IF a \in installed2 THEN "none" ELSE post[h][a]]]
          /\ \/ installed2 = {} /\ ~ahead /\ UNCHANGED <<log, ahead>>
             \/ installed2 \cup refused # {} /\ Records("checks", FALSE)
          /\ units' = IF again THEN [u \in Units |-> "pending"] ELSE units
    /\ red' = {} /\ loops' = loops + 1
    /\ IF ahead THEN Tampering ELSE UNCHANGED tampered
    /\ UNCHANGED <<profile, installed, stage, diff, measuredAt, provisioned, docs, behavioral, acs, integration,
                    sweep, gates, carriedGates, up, runs, observers>>

(* verify:integration: every build and test command of the profile, and    *)
(* the commands of the repository; an error is not a verdict.              *)
Swept == integration[head].result \in {"pass", "fail"}
Integrate ==
    /\ Drives /\ Verified /\ Gated /\ ~Swept /\ provisioned
    /\ \E r \in Runs(profile.jobs) :
          /\ integration' = [integration EXCEPT ![head] =
                [result |-> r.result, ran |-> r.ran, bad |-> r.bad, carriedFrom |-> 0,
                 contract |-> Required(profile), ahead |-> ahead]]
          /\ good' = Seen("suite", {0},
                IF r.truly = r.ran /\ \E job \in r.ran : exercisesBehaviour(job) THEN {0} ELSE {})
          /\ met' = (met \ {<<job, head>> : job \in r.ran}) \cup {<<job, head>> : job \in r.truly}
    /\ Ran
    /\ UNCHANGED <<workspace, stage, units, diff, measuredAt, provisioned, docs, design, sweep, gates,
                   carriedGates, post, red, process>>

(* carryVerifiedVerdictForward: the newest integration signal, which is    *)
(* that of the head before, copied to the new head; and a passing gate.    *)
carryVerifiedVerdictForward(from, to) ==
    /\ integration' = [integration EXCEPT ![to] = [integration[from] EXCEPT !.carriedFrom = from]]
    /\ IF checked = {} THEN UNCHANGED <<gates, carriedGates>>
       ELSE gates' = gates \cup {to} /\ carriedGates' = carriedGates \cup {to}

DocsDue == Drives /\ Verified /\ Gated /\ Swept /\ docs = "due"
Documented ==
    /\ Records("docs", FALSE)
    /\ IF ahead THEN Tampering ELSE UNCHANGED tampered

Docs ==
    /\ DocsDue /\ docs' = "done"
    /\ \/ Documented /\ carryVerifiedVerdictForward(head, head + 1)
       \/ NothingCommitted /\ UNCHANGED <<integration, gates, carriedGates>>
    /\ UNCHANGED <<profile, installed, stage, units, diff, measuredAt, provisioned, behavioral, acs, class,
                   rejected, sweep, post, red, process, observers>>

(* The process dies after the commit, or after the carry: the documents    *)
(* are written again.                                                      *)
DocsCut ==
    /\ DocsDue /\ Documented
    /\ \/ carryVerifiedVerdictForward(head, head + 1)
       \/ UNCHANGED <<integration, gates, carriedGates>>
    /\ up' = FALSE
    /\ UNCHANGED <<profile, installed, stage, units, diff, measuredAt, provisioned, docs, behavioral, acs,
                   class, rejected, sweep, post, red, runs, loops, observers>>

(* A dispatch that is due fails, or what it finds is of the head before:   *)
(* its row names the tip all the same.                                     *)
DispatchFails ==
    /\ up /\ ahead
    /\ \/ Drives /\ \E u \in Units : Actionable(u) /\ units[u] = "pending"
       \/ Drives /\ red # {}
       \/ DocsDue
       \/ stage = "review" /\ ~requiredSuiteProblem(head)
    /\ NothingCommitted
    /\ red' = {}
    /\ UNCHANGED <<profile, installed, stage, units, diff, measuredAt, provisioned, docs, behavioral, acs,
                   class, rejected, integration, sweep, gates, carriedGates, post, process, observers>>

-----------------------------------------------------------------------------
(* The floor, review and publication *)

Advance ==
    /\ Drives /\ Verified /\ Gated /\ Swept /\ docs # "due"
    /\ evidenceFloor(head)
    /\ stage' = "review"
    /\ UNCHANGED <<workspace, units, diff, measuredAt, provisioned, docs, design, ledger, process, observers>>

(* In review and merge the registry refuses every step of a run whose      *)
(* required suites, declared anew, are not met; the review itself writes   *)
(* nothing but its dispatch row.                                           *)
Approve ==
    /\ up /\ stage = "review" /\ ~requiredSuiteProblem(head)
    /\ stage' = "merge"
    /\ NothingCommitted
    /\ UNCHANGED <<profile, installed, units, diff, measuredAt, provisioned, docs, behavioral, acs, class,
                   rejected, ledger, process, observers>>

(* The review sends some of the units back.                                *)
LoopBack ==
    /\ up /\ stage = "review" /\ ~requiredSuiteProblem(head) /\ loops < MaxLoops
    /\ \E named \in (SUBSET Units) \ {{}} :
          units' = [u \in Units |-> IF u \in named THEN "pending" ELSE units[u]]
    /\ stage' = "implement" /\ loops' = loops + 1
    /\ NothingCommitted
    /\ UNCHANGED <<profile, installed, diff, measuredAt, provisioned, docs, behavioral, acs, class, rejected,
                   ledger, up, runs, observers>>

Publish ==
    /\ up /\ stage = "merge" /\ ~requiredSuiteProblem(head)
    /\ stage' = "published"
    /\ UNCHANGED <<workspace, units, diff, measuredAt, provisioned, docs, design, ledger, process, observers>>

(* The process dies, or a step gives up and asks a person.                 *)
Stop ==
    /\ up /\ stage # "published"
    /\ up' = FALSE
    /\ UNCHANGED <<workspace, stage, units, diff, measuredAt, provisioned, docs, design, ledger, runs,
                   loops, observers>>

(* The next process reads the profile again and, except in place, makes a  *)
(* new worktree, without dependencies.                                     *)
Restarted ==
    /\ ~up /\ runs < MaxRuns
    /\ up' = TRUE /\ runs' = runs + 1
    /\ profile' \in Profiles
    /\ IF InPlace THEN UNCHANGED <<installed, provisioned>>
       ELSE installed' = 0 /\ provisioned' = FALSE
    /\ UNCHANGED <<log, diff, measuredAt, docs, design, ledger, loops, observers>>

Resume == Restarted /\ UNCHANGED <<ahead, stage, units>>

(* --accept-head, after the operator committed to the branch: in implement *)
(* it is an event and no more; out of review and merge every unit is coded *)
(* again (codeLoopback).                                                   *)
AcceptHead ==
    /\ Restarted
    /\ ahead' = TRUE
    /\ IF stage = "implement" THEN UNCHANGED <<stage, units>>
       ELSE stage' = "implement" /\ units' = [u \in Units |-> "pending"]

Next ==
    \/ \E u \in Units : \/ Implement(u) \/ ImplementCut(u) \/ VerifyInert(u) \/ VerifyNothing(u)
                        \/ VerifyRun(u) \/ MarkVerified(u)
    \/ Provision \/ Gate \/ Arbitrate \/ Integrate \/ Docs \/ DocsCut \/ DispatchFails
    \/ Advance \/ Approve \/ LoopBack \/ Publish \/ Stop \/ Resume \/ AcceptHead

Spec == Init /\ [][Next]_vars

-----------------------------------------------------------------------------
(* Properties *)

Earned ==
    \/ \E h \in sameCode : <<"suite", 0, h>> \in good \/ \E u \in Units : <<"unit", u, h>> \in good
    \/ acs # {} /\ \A a \in acs : \E h \in sameCode : <<"ac", a, h>> \in good

(* A ticket leaves implement only if, at the code that the last coding     *)
(* dispatch recorded, the suite, or the sweep of one unit, or the check of *)
(* every criterion was run and was really green: through empty passes,     *)
(* carries, re-authors, loopbacks and crashes (the evidence floor, which   *)
(* reads signals by recorded head).  Commits that the operator had         *)
(* accepted since that dispatch are excepted, here and in the next two:    *)
(* such a run may have been without them (see AcceptedIsMeasured).         *)
ShippedIsMeasured == [][stage = "implement" /\ stage' = "review" => Earned]_vars

(* What is published has had each suite run to a complete green end that   *)
(* the profile of the publishing process requires, with the very command   *)
(* it declares, at the code of the last coding dispatch, whatever profile  *)
(* the sweep ran under.                                                    *)
RequiredAreMet ==
    stage = "published" => \A job \in Required(profile) : \E h \in sameCode : <<job, h>> \in met

(* The report calls a criterion verified only if its check passed at the   *)
(* code of the last coding dispatch, in the form in which it was authored  *)
(* or the operator accepted it, and nobody found it wrong without          *)
(* replacing it.                                                           *)
ReportIsTrue ==
    stage = "published" => \A a \in acs : Label(a) = "verified" =>
        a \notin rejected /\ \E h \in sameCode : <<"ac", a, h>> \in good

(* Nothing is ever verified on dependencies older than the manifest of the *)
(* commit: a changed manifest and a new worktree arm `provision` again.    *)
NothingRunsStale == ~stale

(* Not so: a ticket leaves implement with commits of the operator on top   *)
(* only if the sweep it leaves on was run with them.  In implement         *)
(* --accept-head is an event only, and nothing that was done is due again. *)
AcceptedIsMeasured == [][stage = "implement" /\ stage' = "review" /\ ahead => integration[head].ahead]_vars
=============================================================================
