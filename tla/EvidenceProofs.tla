--------------------------- MODULE EvidenceProofs ---------------------------
(***************************************************************************)
(* The properties of module Evidence, for any profiles, criteria, number   *)
(* of units, commits, processes and loopbacks.                             *)
(*                                                                         *)
(* The argument: a signal of the ledger says what a command really did at  *)
(* its commit (Truthful), or, when it was carried forward, at a commit     *)
(* from which no coding dispatch parts it; so whatever the readers make of     *)
(* the signals of the head was earned at this very code.  Commands run     *)
(* only at the head and only when a step is due there (Placed), which is   *)
(* why a signal is never about another commit than it is recorded under.   *)
(***************************************************************************)
EXTENDS Evidence, TLAPS

Same(g, h) == g \in 1..h /\ codeOf(g) = codeOf(h)

(* What the ledger holds.                                                  *)
Measured == [result : Results, ran : SUBSET Job, bad : SUBSET Job, carriedFrom : 0..MaxCommits,
             contract : SUBSET Job, ahead : BOOLEAN]
Shaped ==
    /\ integration \in [Commits -> Measured \cup {NotRun}]
    /\ DOMAIN sweep = Units /\ \A u \in Units : DOMAIN sweep[u] = Commits

(* Where the steps of `implement` stand: a unit is verified at the head    *)
(* and in order, and what the gate left red waits for the arbiter.  Past   *)
(* `implement` the head passed the gate, or a review's row recorded it,    *)
(* which measured nothing.                                                 *)
Placed ==
    /\ log[1].kind \in Coded
    /\ \A u \in Units : units[u] = "verifying" =>
           measuredAt[u] = head /\ \A v \in Units : v < u => units[v] = "verified"
    /\ red # {} => stage = "implement" /\ Verified /\ ~Gated
    /\ stage # "implement" => Verified /\ (Gated \/ post[head] = NoPost)
    /\ stage = "published" => up

(* Nothing was run at a commit that is not there yet.                      *)
Fresh ==
    \A h \in Commits : h > head =>
        post[h] = NoPost /\ integration[h] = NotRun /\ \A u \in Units : sweep[u][h] = NotRun

(* Only checks that are run have results; a gate that was carried forward  *)
(* has none of its own, and follows a gate.                                *)
Gatekept ==
    /\ tampered \cup red \subseteq checked
    /\ \A h \in carriedGates :
           /\ post[h] = NoPost
           /\ integration[h].carriedFrom # 0 => integration[h].carriedFrom \in gates
    /\ \A h \in Commits, a \in All : post[h][a] # "none" => a \in Rerun

(* Every signal that counts was earned.                                    *)
Truthful ==
    /\ \A h \in 1..head : integration[h] # NotRun =>
           /\ integration[h].carriedFrom # 0 => Same(integration[h].carriedFrom, h)
           /\ isExecutedPass(integration[h]) /\ (\E job \in integration[h].ran : exercisesBehaviour(job)) =>
                  \E g \in 1..head : Same(g, h) /\ <<"suite", 0, g>> \in good
           /\ \A job \in integration[h].ran \ integration[h].bad :
                  \E g \in 1..head : Same(g, h) /\ <<job, g>> \in met
    /\ \A u \in Units, h \in 1..head : isExecutedPass(sweep[u][h]) => <<"unit", u, h>> \in good
    /\ \A h \in gates, a \in All : post[h][a] = "green" => <<"ac", a, h>> \in good

(* Except in the operator's own checkout.                                  *)
Installed ==
    ~InPlace => /\ ~stale
                /\ up /\ provisioned => ~Outdated

IInv ==
    /\ TypeOK /\ Shaped /\ Placed /\ Fresh /\ Gatekept /\ Truthful /\ Installed /\ RequiredAreMet

----------------------------------------------------------------------------
(* What a list of commands leaves: a pass means that each was really       *)
(* green, and so was each that the result does not blame.                  *)
LEMMA RunsTrue ==
    ASSUME NEW jobs, NEW r \in Runs(jobs)
    PROVE  /\ r.result \in Results
           /\ r.result = "pass" => r.truly = r.ran /\ r.bad = {}
<1> DEFINE upTo(m) == {jobs[i] : i \in 1..m}
           silent(n, how) == IF how = "unreported" /\ jobs[n].structured THEN {jobs[n]} ELSE {}
<1>1. PICK n \in DOMAIN jobs, how \in Hows :
         r = IF suiteResult(jobs[n], how) = "pass"
             THEN [ran |-> upTo(Len(jobs)), bad |-> {}, result |-> "pass",
                   truly |-> upTo(Len(jobs)) \ silent(n, how)]
             ELSE [ran |-> upTo(n), bad |-> {jobs[n]}, result |-> suiteResult(jobs[n], how),
                   truly |-> upTo(n - 1)]
  BY DEF Runs
<1> HIDE DEF upTo
<1>2. suiteResult(jobs[n], how) \in Results
  BY DEF suiteResult, Results, Hows
<1>3. CASE suiteResult(jobs[n], how) = "pass"
  <2>1. silent(n, how) = {}
    BY <1>3 DEF suiteResult, Hows
  <2> HIDE DEF silent
  <2> QED
    BY <1>1, <1>3, <2>1 DEF Results
<1>4. CASE suiteResult(jobs[n], how) # "pass"
  BY <1>1, <1>2, <1>4
<1> QED
  BY <1>3, <1>4

LEMMA RunsMet ==
    ASSUME NEW jobs \in Seq(Job), NEW r \in Runs(jobs)
    PROVE  r.ran \subseteq Job /\ r.bad \subseteq Job /\ r.ran \ r.bad \subseteq r.truly
<1> DEFINE upTo(m) == {jobs[i] : i \in 1..m}
           silent(n, how) == IF how = "unreported" /\ jobs[n].structured THEN {jobs[n]} ELSE {}
<1>1. PICK n \in DOMAIN jobs, how \in Hows :
         r = IF suiteResult(jobs[n], how) = "pass"
             THEN [ran |-> upTo(Len(jobs)), bad |-> {}, result |-> "pass",
                   truly |-> upTo(Len(jobs)) \ silent(n, how)]
             ELSE [ran |-> upTo(n), bad |-> {jobs[n]}, result |-> suiteResult(jobs[n], how),
                   truly |-> upTo(n - 1)]
  BY DEF Runs
<1>2. upTo(Len(jobs)) \subseteq Job /\ upTo(n) \subseteq Job /\ jobs[n] \in Job
  OBVIOUS
<1>3. upTo(n) \ {jobs[n]} \subseteq upTo(n - 1)
  <2>1. n \in 1..Len(jobs) /\ Len(jobs) \in Nat
    OBVIOUS
  <2>2. ASSUME NEW i \in 1..n, jobs[i] # jobs[n] PROVE i \in 1..(n - 1)
    BY <2>1, <2>2
  <2> QED
    BY <2>2
<1> HIDE DEF upTo
<1>4. CASE suiteResult(jobs[n], how) = "pass"
  <2>1. silent(n, how) = {}
    BY <1>4 DEF suiteResult, Hows
  <2> HIDE DEF silent
  <2> QED
    BY <1>1, <1>2, <1>4, <2>1
<1>5. CASE suiteResult(jobs[n], how) # "pass"
  BY <1>1, <1>2, <1>3, <1>5
<1> QED
  BY <1>4, <1>5

(* A commit leaves the code of the earlier ones alone, and one that no     *)
(* coding dispatch recorded has the code of the one before.                *)
Commit == [kind : {"code", "docs", "checks", "operator"}, manifest : BOOLEAN]

LEMMA Appended ==
    ASSUME log \in Seq(Commit), NEW c \in Commit, log' = Append(log, c)
    PROVE  /\ log' \in Seq(Commit) /\ head' = head + 1 /\ head \in Nat /\ log'[head + 1] = c
           /\ \A j \in 1..head : log'[j] = log[j]
           /\ \A h \in 1..head : codeOf(h)' = codeOf(h)
           /\ c.kind \notin Coded => codeOf(head)' = codeOf(head)
<1>1. /\ log' \in Seq(Commit) /\ head' = head + 1 /\ head \in Nat /\ log'[head + 1] = c
      /\ \A j \in 1..head : log'[j] = log[j]
  BY DEF head
<1>2. ASSUME NEW h \in 1..head PROVE codeOf(h)' = codeOf(h)
  <2>1. \A j \in 1..h : log'[j] = log[j]
    <3>1. 1..h \subseteq 1..head
      BY <1>1
    <3> QED
      BY <1>1, <3>1
  <2>2. {j \in 1..h : log'[j].kind \in Coded} = {j \in 1..h : log[j].kind \in Coded}
    BY <2>1
  <2> QED
    BY <2>2 DEF codeOf
<1>3. ASSUME c.kind \notin Coded
      PROVE  Max({j \in 1..(head + 1) : log'[j].kind \in Coded}) = codeOf(head)
  <2>1. ASSUME NEW j
        PROVE  (j \in 1..(head + 1) /\ log'[j].kind \in Coded) <=> (j \in 1..head /\ log[j].kind \in Coded)
    <3>1. j \in 1..(head + 1) <=> j \in 1..head \/ j = head + 1
      BY <1>1
    <3>2. head + 1 \notin 1..head
      BY <1>1
    <3> QED
      BY <1>1, <1>3, <3>1, <3>2
  <2>2. {j \in 1..(head + 1) : log'[j].kind \in Coded} = {j \in 1..head : log[j].kind \in Coded}
    BY <2>1
  <2> QED
    BY <2>2 DEF codeOf
<1>4. c.kind \notin Coded => codeOf(head)' = codeOf(head)
  <2>1. codeOf(head)' = Max({j \in 1..(head') : log'[j].kind \in Coded})
    BY DEF codeOf
  <2> QED
    BY <1>1, <1>3, <2>1
<1> QED
  BY <1>1, <1>2, <1>4

-----------------------------------------------------------------------------
(* Steps that measure nothing.                                             *)

Longer == log' = log \/ \E c \in Commit : log' = Append(log, c)

LEMMA Lengthened ==
    ASSUME IInv, Longer
    PROVE  /\ log \in Seq(Commit) /\ log' \in Seq(Commit)
           /\ head \in Commits /\ head' \in {head, head + 1} /\ 1..head \subseteq 1..(head')
           /\ head' = head => log' = log
           /\ \A j \in 1..head : log'[j] = log[j]
           /\ \A h \in 1..head : codeOf(h)' = codeOf(h)
           /\ \A g, h \in 1..head : Same(g, h) => Same(g, h)'
<1>1. log \in Seq(Commit) /\ head \in Commits /\ head \in Nat
  BY EvidenceAssumption DEF IInv, TypeOK, Commit, Commits
<1>2. CASE log' = log
  <2>1. head' = head /\ \A h : codeOf(h)' = codeOf(h)
    BY <1>2 DEF head, codeOf
  <2> QED
    BY <1>1, <1>2, <2>1 DEF Same
<1>3. ASSUME NEW c \in Commit, log' = Append(log, c)
      PROVE  /\ log' \in Seq(Commit) /\ head' = head + 1
             /\ \A j \in 1..head : log'[j] = log[j]
             /\ \A h \in 1..head : codeOf(h)' = codeOf(h)
  BY <1>1, <1>3, Appended
<1>4. ASSUME NEW c \in Commit, log' = Append(log, c)
      PROVE  1..head \subseteq 1..(head') /\ head' # head
  BY <1>1, <1>3, <1>4
<1>5. ASSUME NEW c \in Commit, log' = Append(log, c), NEW g \in 1..head, NEW h \in 1..head, Same(g, h)
      PROVE  Same(g, h)'
  BY <1>3, <1>4, <1>5 DEF Same
<1> QED
  BY <1>1, <1>2, <1>3, <1>4, <1>5 DEF Longer

LEMMA TruthKept ==
    ASSUME IInv, Longer, UNCHANGED <<integration, sweep, gates, good, met>>,
           \A h \in gates, a \in All : post'[h][a] = "green" => post[h][a] = "green",
           head' \in Commits
    PROVE  Truthful'
<1>1. /\ 1..head \subseteq 1..(head') /\ head' \in {head, head + 1} /\ head \in Nat
      /\ \A g, h \in 1..head : Same(g, h) => Same(g, h)'
  BY Lengthened DEF Commits
<1>2. ASSUME NEW h \in 1..(head'), h \notin 1..head
      PROVE  integration[h] = NotRun /\ \A u \in Units : ~isExecutedPass(sweep[u][h])
  <2>1. h \in Commits /\ h > head
    BY <1>1, <1>2 DEF Commits
  <2>2. integration[h] = NotRun /\ \A u \in Units : sweep[u][h] = NotRun
    BY <2>1 DEF IInv, Fresh
  <2> QED
    BY <2>2 DEF isExecutedPass, NotRun
<1>3. ASSUME NEW h \in 1..head, integration[h] # NotRun
      PROVE  /\ integration[h].carriedFrom # 0 => Same(integration[h].carriedFrom, h)'
             /\ isExecutedPass(integration[h]) /\ (\E job \in integration[h].ran : exercisesBehaviour(job)) =>
                    \E g \in 1..(head') : Same(g, h)' /\ <<"suite", 0, g>> \in good
             /\ \A job \in integration[h].ran \ integration[h].bad :
                    \E g \in 1..(head') : Same(g, h)' /\ <<job, g>> \in met
  <2>1. integration[h].carriedFrom # 0 => integration[h].carriedFrom \in 1..head
    BY <1>1, <1>3 DEF IInv, Truthful, Same
  <2> QED
    BY <1>1, <1>3, <2>1 DEF IInv, Truthful
<1>4. \A h \in 1..(head') : integration'[h] # NotRun => h \in 1..head
  BY <1>2
<1> QED
  BY <1>1, <1>2, <1>3, <1>4 DEF IInv, Truthful, isExecutedPass, exercisesBehaviour

(* A dispatch row adds one head at most, within the bound; only a coding   *)
(* dispatch of a unit brings a manifest with it.                           *)
LEMMA Recorded ==
    ASSUME IInv, NEW k \in {"code", "docs", "checks", "operator"}, NEW m \in BOOLEAN, Records(k, m)
    PROVE  /\ Longer /\ head' = head + 1 /\ head' \in Commits /\ log'[head + 1] = [kind |-> k, manifest |-> m]
           /\ log' = Append(log, [kind |-> k, manifest |-> m]) /\ ahead' = FALSE
           /\ log'[head + 1].manifest = m
<1>1. /\ head < MaxCommits /\ log' = Append(log, [kind |-> k, manifest |-> m]) /\ ahead' = FALSE
      /\ [kind |-> k, manifest |-> m] \in Commit /\ log \in Seq(Commit) /\ head \in Commits
  BY DEF Records, Commit, IInv, TypeOK
<1>2. head' = head + 1 /\ log'[head + 1] = [kind |-> k, manifest |-> m]
  BY <1>1, Appended
<1>4. log'[head + 1].manifest = m
  BY <1>2
<1>3. head' \in Commits
  BY <1>1, <1>2, EvidenceAssumption DEF Commits
<1> QED
  BY <1>1, <1>2, <1>3, <1>4 DEF Longer

LEMMA Rowed ==
    ASSUME IInv, NothingCommitted
    PROVE  /\ Longer /\ head' \in {head, head + 1} /\ head' \in Commits /\ ahead' \in BOOLEAN
           /\ tampered' \in {tampered} \cup SUBSET checked
           /\ head' # head => ~log'[head + 1].manifest
<1>1. CASE ~ahead /\ UNCHANGED <<log, ahead, tampered>>
  BY <1>1 DEF Longer, head, IInv, TypeOK
<1>2. CASE ahead /\ Records("operator", FALSE) /\ Tampering
  <2>1. Longer /\ head' = head + 1 /\ head' \in Commits /\ ahead' = FALSE
        /\ ~log'[head + 1].manifest
    BY <1>2, Recorded
  <2>2. tampered' \in SUBSET checked
    BY <1>2 DEF Tampering
  <2> QED
    BY <2>1, <2>2
<1> QED
  BY <1>1, <1>2 DEF NothingCommitted

(* Dependencies that were not older than the manifest are not so after a   *)
(* commit without one.                                                     *)
LEMMA StillInstalled ==
    ASSUME IInv, Longer, installed' = installed, ~Outdated, head' # head => ~log'[head + 1].manifest
    PROVE  ~Outdated'
<1>1. /\ head \in Nat /\ head' \in {head, head + 1} /\ installed \in 0..head
      /\ \A j \in 1..head : log'[j] = log[j]
  <2>1. head \in Commits /\ head' \in {head, head + 1} /\ \A j \in 1..head : log'[j] = log[j]
    BY Lengthened
  <2> QED
    BY <2>1 DEF IInv, TypeOK, Commits
<1>2. \A j \in (installed + 1)..(head') : (j = head + 1 /\ head' # head) \/ (j \in (installed + 1)..head /\ j \in 1..head)
  BY <1>1
<1> QED
  BY <1>1, <1>2 DEF Outdated

(* A dispatch takes the first unit that is not verified.                   *)
LEMMA DispatchInv == ASSUME IInv, NEW u \in Units, Implement(u) \/ ImplementCut(u) PROVE IInv'
<1> USE DEF branch, workspace, design, ledger, process, observers
<1>1. Committed(u) /\ stage = "implement" /\ Actionable(u) /\ units[u] = "pending" /\ up
      /\ UNCHANGED <<profile, installed, stage, docs, behavioral, acs, class, rejected, integration, sweep,
                     gates, carriedGates, post, red, runs, loops, good, met, stale>>
      /\ units' \in {units, [units EXCEPT ![u] = "verifying"]}
      /\ measuredAt' = [measuredAt EXCEPT ![u] = head']
  BY DEF Implement, ImplementCut, Committed, Drives, head
<1>2. Longer /\ head' \in Commits /\ tampered' \in {tampered} \cup SUBSET checked /\ ahead' \in BOOLEAN
  <2>1. CASE UNCHANGED <<log, ahead, tampered>>
    BY <2>1 DEF Longer, head, IInv, TypeOK
  <2>2. CASE ~UNCHANGED <<log, ahead, tampered>>
    <3>1. tampered' \in SUBSET checked /\ \E m \in BOOLEAN : Records("code", m)
      BY <1>1, <2>2 DEF Committed, Tampering
    <3>2. PICK m \in BOOLEAN : Records("code", m)
      BY <3>1
    <3> QED
      BY <3>1, <3>2, Recorded
  <2> QED
    BY <2>1, <2>2
<1>3. /\ log' \in Seq(Commit) /\ head \in Nat \ {0} /\ head' \in {head, head + 1}
      /\ \A j \in 1..head : log'[j] = log[j]
  BY <1>2, Lengthened DEF Commits
<1>4. red = {} /\ \A v \in Units : units[v] # "verifying" /\ (v < u => units[v] = "verified")
  <2>1. red = {}
    BY <1>1 DEF IInv, Placed, Verified
  <2>2. \A v \in Units : v < u => units[v] = "verified"
    BY <1>1 DEF Actionable
  <2>3. ASSUME NEW v \in Units, units[v] = "verifying" PROVE FALSE
    <3>1. v # u /\ ~(v < u) /\ ~(u < v)
      BY <1>1, <2>2, <2>3 DEF IInv, Placed
    <3> QED
      BY <3>1, EvidenceAssumption DEF Units
  <2> QED
    BY <2>1, <2>2, <2>3
<1>5. TypeOK'
  <2>1. units' \in [Units -> {"pending", "verifying", "verified"}] /\ measuredAt' \in [Units -> 0..(head')]
    <3>1. measuredAt \in [Units -> 0..(head')] /\ head' \in 0..(head')
      BY <1>3 DEF IInv, TypeOK
    <3> QED
      BY <1>1, <3>1 DEF IInv, TypeOK
  <2>2. diff' \in [Units -> Diffs \cup {{}}]
    BY <1>1 DEF Committed, IInv, TypeOK
  <2>3. tampered' \subseteq acs /\ provisioned' \in BOOLEAN /\ up' \in BOOLEAN
    BY <1>2 DEF Implement, ImplementCut, rearmed, checked, IInv, TypeOK
  <2>4. installed \in 0..(head') /\ gates \subseteq 1..(head')
    BY <1>3 DEF IInv, TypeOK
  <2> QED
    BY <1>1, <1>2, <1>3, <2>1, <2>2, <2>3, <2>4 DEF IInv, TypeOK, Commit
<1>6. Placed'
  <2>1. ASSUME NEW v \in Units, units'[v] = "verifying"
        PROVE  measuredAt'[v] = head' /\ \A w \in Units : w < v => units'[w] = "verified"
    <3>1. v = u /\ units' = [units EXCEPT ![u] = "verifying"]
      BY <1>1, <1>4, <2>1 DEF IInv, TypeOK
    <3> QED
      BY <1>1, <1>4, <3>1, EvidenceAssumption DEF IInv, TypeOK, Units
  <2>2. log'[1].kind \in Coded
    BY <1>3 DEF IInv, Placed
  <2> QED
    BY <1>1, <1>4, <2>1, <2>2 DEF Placed
<1>7. Fresh'
  BY <1>1, <1>3 DEF IInv, Fresh, Commits
<1>8. Gatekept' /\ Shaped' /\ RequiredAreMet'
  BY <1>1, <1>2 DEF IInv, Gatekept, Shaped, RequiredAreMet, checked, Rerun
<1>9. Truthful'
  BY <1>1, <1>2, TruthKept
<1>10. Installed'
  <2> SUFFICES ASSUME ~InPlace, up', provisioned' PROVE ~Outdated'
    BY <1>1 DEF Installed, IInv
  <2>1. provisioned /\ ~log'[head'].manifest /\ ~Outdated
    BY <1>1 DEF Implement, ImplementCut, rearmed, head, Installed, IInv
  <2>2. installed' = installed /\ installed \in 0..head
    BY <1>1 DEF IInv, TypeOK
  <2>3. \A j \in (installed + 1)..head' : j = head' \/ (j \in (installed + 1)..head /\ j \in 1..head)
    BY <1>3, <2>2
  <2> QED
    BY <1>3, <2>1, <2>2, <2>3 DEF Outdated
<1> QED
  BY <1>5, <1>6, <1>7, <1>8, <1>9, <1>10 DEF IInv

LEMMA Still ==
    ASSUME log' = log
    PROVE  head' = head /\ (\A h : codeOf(h)' = codeOf(h)) /\ (\A g, h : Same(g, h)' <=> Same(g, h))
<1>1. head' = head /\ \A h : codeOf(h)' = codeOf(h)
  BY DEF head, codeOf
<1> QED
  BY <1>1 DEF Same

(* Only the first unit that is not verified is ever being verified.        *)
LEMMA Alone ==
    ASSUME IInv, NEW u \in Units, units[u] = "verifying"
    PROVE  /\ red = {} /\ stage = "implement" /\ measuredAt[u] = head
           /\ \A v \in Units : v < u => units[v] = "verified"
           /\ \A v \in Units : units[v] = "verifying" => v = u
<1>1. red = {} /\ stage = "implement" /\ measuredAt[u] = head
      /\ \A v \in Units : v < u => units[v] = "verified"
  BY DEF IInv, Placed, Verified
<1>2. ASSUME NEW v \in Units, units[v] = "verifying" PROVE v = u
  <2>1. ~(v < u) /\ ~(u < v)
    BY <1>1, <1>2 DEF IInv, Placed
  <2> QED
    BY <2>1, EvidenceAssumption DEF Units
<1> QED
  BY <1>1, <1>2

(* Steps that leave the ledger and the recorded heads as they are.         *)
LEMMA QuietInv ==
    ASSUME IInv, \/ Provision \/ (\E u \in Units : MarkVerified(u)) \/ Advance \/ Stop
                 \/ Resume \/ AcceptHead
    PROVE  IInv'
<1> USE DEF branch, workspace, design, ledger, process, observers
<1>1. /\ UNCHANGED <<log, diff, measuredAt, docs, design, ledger, good, met, stale>>
      /\ stage # "published" /\ stage' # "published"
      /\ ahead' \in BOOLEAN
  BY DEF Provision, MarkVerified, Advance, Stop, Restarted, Resume, AcceptHead, Drives, IInv, Placed, TypeOK
<1>2. /\ head' = head /\ (Verified' <=> \A u \in Units : units'[u] = "verified") /\ (Gated' <=> Gated)
      /\ Longer /\ head \in Nat /\ head' \in Commits /\ post'[head'] = post[head]
  BY <1>1, Still DEF Verified, Gated, checked, Longer, IInv, TypeOK, Commits
<1>3. TypeOK' /\ Placed'
  <2>1. CASE Provision
    <3>1. UNCHANGED <<profile, stage, units, up, runs, loops>> /\ installed' = head /\ provisioned' = TRUE
      BY <2>1 DEF Provision
    <3>2. head \in 0..head
      BY <1>2
    <3> QED
      BY <1>1, <1>2, <3>1, <3>2 DEF IInv, TypeOK, Placed, Verified, Gated
  <2>2. ASSUME NEW u \in Units, MarkVerified(u) PROVE TypeOK' /\ Placed'
    <3>1. /\ UNCHANGED <<profile, installed, stage, provisioned, up, runs, loops>>
          /\ units[u] = "verifying" /\ units' = [units EXCEPT ![u] = "verified"]
      BY <2>2 DEF MarkVerified
    <3>2. /\ red = {} /\ stage = "implement"
          /\ \A v \in Units : v < u => units[v] = "verified"
          /\ \A v \in Units : units[v] = "verifying" => v = u
      BY <3>1, Alone
    <3> QED
      BY <1>1, <1>2, <3>1, <3>2 DEF IInv, TypeOK, Placed
  <2>3. CASE Advance
    <3>1. UNCHANGED <<profile, installed, units, provisioned, up, runs, loops>> /\ stage' = "review"
          /\ Verified /\ Gated
      BY <2>3 DEF Advance
    <3> QED
      BY <1>1, <1>2, <3>1 DEF IInv, TypeOK, Placed, Verified
  <2>4. CASE Stop
    <3>1. UNCHANGED <<profile, installed, stage, units, provisioned, runs, loops>> /\ up' = FALSE
      BY <2>4 DEF Stop
    <3> QED
      BY <1>1, <1>2, <3>1 DEF IInv, TypeOK, Placed, Verified
  <2>5. CASE Resume \/ AcceptHead
    <3>1. /\ UNCHANGED loops /\ up' = TRUE /\ runs' = runs + 1 /\ runs < MaxRuns
          /\ profile' \in Profiles
          /\ installed' \in {installed, 0} /\ provisioned' \in {provisioned, FALSE}
          /\ \/ UNCHANGED <<stage, units>>
             \/ stage' = "implement" /\ units' = [u \in Units |-> "pending"] /\ red = {}
      BY <2>5 DEF Restarted, Resume, AcceptHead, IInv, Placed
    <3>2. runs' \in 0..MaxRuns /\ 0 \in 0..head
      BY <1>2, <3>1, EvidenceAssumption DEF IInv, TypeOK
    <3>3. TypeOK'
      BY <1>1, <1>2, <3>1, <3>2 DEF IInv, TypeOK
    <3>4. CASE UNCHANGED <<stage, units>>
      BY <1>1, <1>2, <3>1, <3>3, <3>4 DEF IInv, TypeOK, Placed, Verified
    <3>5. CASE stage' = "implement" /\ units' = [u \in Units |-> "pending"] /\ red = {}
      BY <1>1, <1>2, <3>1, <3>3, <3>5 DEF IInv, TypeOK, Placed
    <3> QED
      BY <3>1, <3>3, <3>4, <3>5
  <2> QED
    BY <2>1, <2>2, <2>3, <2>4, <2>5
<1>4. Fresh' /\ Gatekept' /\ Shaped' /\ RequiredAreMet'
  BY <1>1, <1>2 DEF IInv, Fresh, Gatekept, Shaped, RequiredAreMet, checked, Rerun
<1>5. Truthful'
  BY <1>1, <1>2, TruthKept
<1>6. Installed'
  <2> SUFFICES ASSUME ~InPlace, up', provisioned' PROVE ~Outdated'
    BY <1>1 DEF Installed, IInv
  <2>1. CASE Provision
    <3>1. installed' = head
      BY <2>1 DEF Provision
    <3>2. (installed' + 1)..head' = {} /\ head # 0
      BY <1>2, <3>1 DEF Commits
    <3> QED
      BY <1>2, <3>1, <3>2 DEF Outdated
  <2>2. CASE Resume \/ AcceptHead \/ Stop
    BY <2>2 DEF Restarted, Resume, AcceptHead, Stop
  <2>3. CASE (\E u \in Units : MarkVerified(u)) \/ Advance
    <3>1. UNCHANGED <<installed, provisioned, up>>
      BY <2>3 DEF MarkVerified, Advance
    <3> QED
      BY <1>1, <1>2, <3>1 DEF Outdated, Installed, IInv
  <2> QED
    BY <2>1, <2>2, <2>3
<1> QED
  BY <1>3, <1>4, <1>5, <1>6 DEF IInv

(* A review's row, or that of a dispatch that fails, signs nothing: if it  *)
(* records the operator's commits, the new head has no evidence at all.    *)
LEMMA RowInv == ASSUME IInv, Approve \/ LoopBack \/ DispatchFails PROVE IInv'
<1> USE DEF branch, workspace, ledger, process, observers
<1>1. /\ UNCHANGED <<profile, installed, diff, measuredAt, provisioned, docs, behavioral, acs, class, rejected,
                     integration, sweep, gates, carriedGates, post, up, runs, good, met, stale>>
      /\ NothingCommitted /\ red' = {} /\ stage # "published" /\ stage' # "published"
      /\ DispatchFails => UNCHANGED <<stage, units, loops>>
      /\ Approve => UNCHANGED <<units, loops>> /\ stage' = "merge" /\ stage = "review"
      /\ LoopBack => stage' = "implement" /\ stage = "review" /\ loops < MaxLoops /\ loops' = loops + 1
  BY DEF Approve, LoopBack, DispatchFails, DocsDue, Drives, IInv, Placed
<1>2. /\ Longer /\ head' \in {head, head + 1} /\ head' \in Commits /\ ahead' \in BOOLEAN
      /\ tampered' \in {tampered} \cup SUBSET checked
      /\ head' # head => ~log'[head + 1].manifest
  BY <1>1, Rowed
<1>3. /\ log' \in Seq(Commit) /\ head \in Nat \ {0} /\ 0..head \subseteq 0..(head') /\ 1..head \subseteq 1..(head')
      /\ \A j \in 1..head : log'[j] = log[j]
      /\ head' = head => log' = log
  <2>1. head \in Nat \ {0}
    BY DEF IInv, TypeOK, Commits
  <2> QED
    BY <1>2, <2>1, Lengthened
<1>4. /\ units' \in [Units -> {"pending", "verifying", "verified"}] /\ loops' \in 0..MaxLoops
      /\ \A u \in Units : units'[u] = "verifying" => DispatchFails /\ units[u] = "verifying"
  <2>1. CASE DispatchFails
    BY <1>1, <2>1 DEF IInv, TypeOK
  <2>2. CASE Approve
    BY <1>1, <2>2 DEF IInv, TypeOK, Placed, Verified
  <2>3. CASE LoopBack
    <3>1. PICK named \in (SUBSET Units) \ {{}} :
              units' = [u \in Units |-> IF u \in named THEN "pending" ELSE units[u]]
      BY <2>3 DEF LoopBack
    <3>2. loops' \in 0..MaxLoops
      BY <1>1, <2>3, EvidenceAssumption DEF IInv, TypeOK
    <3> QED
      BY <1>1, <2>3, <3>1, <3>2 DEF IInv, TypeOK, Placed, Verified
  <2> QED
    BY <1>1, <2>1, <2>2, <2>3 DEF Approve, LoopBack, DispatchFails
<1>5. TypeOK'
  <2>1. gates \subseteq 1..(head') /\ installed \in 0..(head') /\ measuredAt \in [Units -> 0..(head')]
    BY <1>3 DEF IInv, TypeOK
  <2>2. tampered' \subseteq acs
    BY <1>2 DEF checked, IInv, TypeOK
  <2>3. stage' \in {"implement", "review", "merge", "published"}
    BY <1>1 DEF IInv, TypeOK
  <2> QED
    BY <1>1, <1>2, <1>3, <1>4, <2>1, <2>2, <2>3 DEF IInv, TypeOK, Commit
<1>6. Placed'
  <2>1. ASSUME NEW u \in Units, units'[u] = "verifying"
        PROVE  measuredAt'[u] = head' /\ \A v \in Units : v < u => units'[v] = "verified"
    <3>1. DispatchFails /\ units[u] = "verifying" /\ units' = units /\ stage = "implement"
      BY <1>1, <1>4, <2>1 DEF IInv, Placed, Verified
    <3>2. red = {} /\ ~Verified /\ \A v \in Units : v < u => units[v] = "verified"
      BY <3>1, Alone DEF Verified
    <3>3. PICK w \in Units : Actionable(w) /\ units[w] = "pending"
      BY <3>1, <3>2 DEF DispatchFails, DocsDue
    <3>4. w # u /\ ~(u < w) /\ ~(w < u)
      BY <3>1, <3>2, <3>3 DEF Actionable
    <3> QED
      BY <3>4, EvidenceAssumption DEF Units
  <2>2. log'[1].kind \in Coded
    BY <1>3 DEF IInv, Placed
  <2>3. stage' # "implement" => Verified' /\ (Gated' \/ post'[head'] = NoPost)
    <3> SUFFICES ASSUME stage' # "implement" PROVE Verified' /\ (Gated' \/ post'[head'] = NoPost)
      OBVIOUS
    <3>1. units' = units /\ stage # "implement"
      BY <1>1 DEF Approve, LoopBack, DispatchFails
    <3>2. CASE head' = head
      BY <1>1, <3>1, <3>2 DEF Verified, Gated, checked, IInv, Placed
    <3>3. CASE head' = head + 1
      <4>1. post[head + 1] = NoPost
        BY <1>2, <1>3, <3>3 DEF IInv, Fresh
      <4> QED
        BY <1>1, <3>1, <3>3, <4>1 DEF Verified, IInv, Placed
    <3> QED
      BY <1>2, <3>2, <3>3
  <2> QED
    BY <1>1, <2>1, <2>2, <2>3 DEF Placed
<1>7. Fresh'
  BY <1>1, <1>2, <1>3 DEF IInv, Fresh, Commits
<1>8. Gatekept' /\ Shaped' /\ RequiredAreMet'
  BY <1>1, <1>2 DEF IInv, Gatekept, Shaped, RequiredAreMet, checked, Rerun
<1>9. Truthful'
  BY <1>1, <1>2, TruthKept
<1>10. Installed'
  <2> SUFFICES ASSUME ~InPlace, up', provisioned' PROVE ~Outdated'
    BY <1>1 DEF Installed, IInv
  <2> QED
    BY <1>1, <1>2, StillInstalled DEF Installed, IInv
<1> QED
  BY <1>5, <1>6, <1>7, <1>8, <1>9, <1>10 DEF IInv

(* The sweep of a unit signs the head, where the unit was dispatched.      *)
LEMMA SweepInv ==
    ASSUME IInv, NEW u \in Units, VerifyInert(u) \/ VerifyNothing(u) \/ VerifyRun(u)
    PROVE  IInv'
<1> USE DEF branch, workspace, design, process, observers
<1>1. /\ UNCHANGED <<branch, profile, installed, stage, diff, measuredAt, provisioned, docs, design, integration,
                     gates, carriedGates, post, red, up, runs, met>>
      /\ Verifies(u) /\ units[u] = "verifying" /\ up /\ provisioned
  BY DEF VerifyInert, VerifyNothing, VerifyRun, Verifies, Drives
<1>2. /\ head' = head /\ Gated' = Gated /\ head \in Nat /\ head \in Commits /\ head \in 1..head
      /\ \A g, h : Same(g, h)' <=> Same(g, h)
  BY <1>1, Still DEF Gated, checked, IInv, TypeOK, Commits
<1>3. /\ red = {} /\ stage = "implement" /\ measuredAt[u] = head
      /\ \A v \in Units : v < u => units[v] = "verified"
      /\ \A v \in Units : units[v] = "verifying" => v = u
  BY <1>1, Alone
<1>4. PICK signal :
         /\ signal.result \in Results
         /\ sweep' = [sweep EXCEPT ![u][head] = signal]
         /\ isExecutedPass(signal) => <<"unit", u, head>> \in good'
         /\ \A x : x \in good /\ x # <<"unit", u, head>> => x \in good'
  <2>1. CASE VerifyInert(u) \/ VerifyNothing(u)
    <3>1. PICK result \in {"pass", "fail"} : Record(u, result, {}) /\ good' = good
      BY <2>1 DEF VerifyInert, VerifyNothing
    <3> DEFINE signal == [result |-> result, ran |-> {}]
    <3>2. signal.result \in Results /\ ~isExecutedPass(signal)
      BY DEF Results, isExecutedPass
    <3>3. sweep' = [sweep EXCEPT ![u][head] = signal]
      BY <1>3, <3>1 DEF Record
    <3> HIDE DEF signal
    <3> QED
      BY <3>1, <3>2, <3>3
  <2>2. CASE VerifyRun(u)
    <3>1. PICK r \in Runs(toRun(u)), bound \in BOOLEAN :
             LET result == IF r.result = "pass" /\ ~bound THEN "fail" ELSE r.result
             IN /\ Record(u, result, r.ran)
                /\ good' = Seen("unit", {u}, IF result = "pass" /\ r.truly = r.ran THEN {u} ELSE {})
      BY <2>2 DEF VerifyRun
    <3> DEFINE result == IF r.result = "pass" /\ ~bound THEN "fail" ELSE r.result
    <3>2. r.result \in Results /\ (r.result = "pass" => r.truly = r.ran)
      BY RunsTrue
    <3>5. result \in Results /\ (result = "pass" => r.truly = r.ran)
      BY <3>2 DEF Results
    <3>6. Record(u, result, r.ran) /\ good' = Seen("unit", {u}, IF result = "pass" /\ r.truly = r.ran THEN {u} ELSE {})
      BY <3>1
    <3> HIDE DEF result
    <3> DEFINE signal == [result |-> result, ran |-> r.ran]
    <3>7. signal.result \in Results /\ (isExecutedPass(signal) => result = "pass")
      BY <3>5 DEF isExecutedPass
    <3>8. sweep' = [sweep EXCEPT ![u][head] = signal]
      BY <1>3, <3>6 DEF Record
    <3> HIDE DEF signal
    <3> QED
      BY <3>5, <3>6, <3>7, <3>8 DEF Seen
  <2> QED
    BY <2>1, <2>2
<1>5. units' \in {units, [units EXCEPT ![u] = "pending"]} /\ loops' \in 0..MaxLoops
  <2>1. units' \in {units, [units EXCEPT ![u] = "pending"]}
        /\ (loops' = loops \/ (loops < MaxLoops /\ loops' = loops + 1))
    BY DEF VerifyInert, VerifyNothing, VerifyRun
  <2> QED
    BY <2>1, EvidenceAssumption DEF IInv, TypeOK
<1>6. stale' \in BOOLEAN /\ (stale' => stale \/ Outdated)
  <2>1. stale' = stale \/ stale' = (stale \/ Outdated)
    BY DEF VerifyInert, VerifyNothing, VerifyRun, Ran
  <2>2. stale \in BOOLEAN
    BY DEF IInv, TypeOK
  <2>3. CASE Outdated
    BY <2>1, <2>2, <2>3
  <2>4. CASE ~Outdated
    BY <2>1, <2>2, <2>4
  <2> QED
    BY <2>3, <2>4
<1>7. Shaped'
  BY <1>1, <1>2, <1>4 DEF IInv, Shaped
<1>8. \A v \in Units, h \in Commits : v # u \/ h # head => sweep'[v][h] = sweep[v][h]
  BY <1>2, <1>4 DEF IInv, Shaped
<1>9. TypeOK'
  <2>1. \A v \in Units, h \in Commits : sweep'[v][h].result \in Results \cup {"none"}
    BY <1>2, <1>4, <1>8 DEF IInv, Shaped, TypeOK
  <2>2. units' \in [Units -> {"pending", "verifying", "verified"}]
    BY <1>5 DEF IInv, TypeOK
  <2> QED
    BY <1>1, <1>2, <1>5, <1>6, <2>1, <2>2 DEF IInv, TypeOK
<1>10. Placed'
  <2>1. \A v \in Units : units'[v] = "verifying" =>
            units[v] = "verifying" /\ \A w \in Units : w < v => units'[w] = "verified"
    BY <1>3, <1>5, EvidenceAssumption DEF IInv, TypeOK, Units
  <2> QED
    BY <1>1, <1>2, <1>3, <2>1 DEF IInv, Placed
<1>11. Fresh'
  BY <1>1, <1>2, <1>8 DEF IInv, Fresh
<1>12. Gatekept' /\ RequiredAreMet'
  BY <1>1, <1>3 DEF IInv, Gatekept, RequiredAreMet, checked, Rerun
<1>13. Truthful'
  <2>1. \A v \in Units, h \in 1..head : isExecutedPass(sweep'[v][h]) => <<"unit", v, h>> \in good'
    <3>1. \A v \in Units, h \in 1..head : h \in Commits
      BY <1>2, EvidenceAssumption DEF Commits
    <3>2. sweep'[u][head] = signal
      BY <1>2, <1>4 DEF IInv, Shaped
    <3> QED
      BY <1>4, <1>8, <3>1, <3>2 DEF IInv, Truthful
  <2>2. \A x, y : <<"suite", x, y>> \in good => <<"suite", x, y>> \in good'
    BY <1>4
  <2>3. \A x, y : <<"ac", x, y>> \in good => <<"ac", x, y>> \in good'
    BY <1>4
  <2>4. \A h \in 1..head : integration[h] # NotRun =>
            /\ integration[h].carriedFrom # 0 => Same(integration[h].carriedFrom, h)
            /\ isExecutedPass(integration[h]) /\ (\E job \in integration[h].ran : exercisesBehaviour(job)) =>
                   \E g \in 1..head : Same(g, h) /\ <<"suite", 0, g>> \in good'
            /\ \A job \in integration[h].ran \ integration[h].bad :
                   \E g \in 1..head : Same(g, h) /\ <<job, g>> \in met
    BY <2>2 DEF IInv, Truthful
  <2>5. \A h \in gates, a \in All : post[h][a] = "green" => <<"ac", a, h>> \in good'
    BY <2>3 DEF IInv, Truthful
  <2> QED
    BY <1>1, <1>2, <2>1, <2>4, <2>5 DEF Truthful, isExecutedPass, exercisesBehaviour
<1>14. Installed'
  BY <1>1, <1>2, <1>6 DEF IInv, Installed, Outdated
<1> QED
  BY <1>7, <1>9, <1>10, <1>11, <1>12, <1>13, <1>14 DEF IInv

(* The gate signs the head with what its checks did there, in the form in  *)
(* which they were authored.                                               *)
LEMMA GateInv == ASSUME IInv, Gate PROVE IInv'
<1> USE DEF branch, workspace, design, process
<1>1. /\ UNCHANGED <<branch, profile, installed, stage, units, diff, measuredAt, provisioned, docs, design, integration,
                     sweep, up, runs, loops, met>>
      /\ up /\ stage = "implement" /\ Verified /\ ~Gated /\ provisioned
      /\ stale' = (stale \/ Outdated)
  BY DEF Gate, Drives, Ran
<1>2. /\ head' = head /\ head \in Nat /\ head \in Commits /\ head \in 1..head /\ 1..head \subseteq Commits
      /\ checked' = checked /\ checked \subseteq acs /\ Rerun \subseteq checked /\ Rerun' = Rerun
      /\ \A g, h : Same(g, h)' <=> Same(g, h)
  BY <1>1, Still, EvidenceAssumption DEF IInv, TypeOK, Commits, checked, Rerun
<1>3. PICK ok \in SUBSET Rerun, gone \in SUBSET Rerun :
         LET reds == {a \in Rerun \ ok : gating(a) \/ a \in gone}
         IN /\ red' = blocked(reds)
            /\ gates' = IF blocked(reds) = {} THEN gates \cup {head} ELSE gates
            /\ carriedGates' = carriedGates \ {head}
            /\ post' = [post EXCEPT ![head] =
                   [a \in All |-> IF a \in ok THEN "green" ELSE IF a \in Rerun THEN "red" ELSE @[a]]]
            /\ good' = Seen("ac", Rerun, ok \ tampered)
  BY DEF Gate
<1>4. /\ tampered \subseteq red' /\ red' \subseteq checked
      /\ gates' = IF red' = {} THEN gates \cup {head} ELSE gates
      /\ carriedGates' = carriedGates \ {head}
      /\ good' = Seen("ac", Rerun, ok \ tampered)
  BY <1>2, <1>3 DEF blocked, IInv, Gatekept
<1>5. post' = [post EXCEPT ![head] =
                  [a \in All |-> IF a \in ok THEN "green" ELSE IF a \in Rerun THEN "red" ELSE post[head][a]]]
  BY <1>2, <1>3 DEF IInv, TypeOK
<1>6. /\ post' \in [Commits -> [All -> {"none", "green", "red"}]]
      /\ \A h \in Commits : h # head => post'[h] = post[h]
      /\ \A a \in All : post'[head][a] = IF a \in ok THEN "green" ELSE IF a \in Rerun THEN "red" ELSE post[head][a]
  BY <1>2, <1>5 DEF IInv, TypeOK
<1>7. stale' \in BOOLEAN /\ (stale' => stale \/ Outdated)
  <2>1. stale \in BOOLEAN
    BY DEF IInv, TypeOK
  <2>2. CASE Outdated
    BY <1>1, <2>1, <2>2
  <2>3. CASE ~Outdated
    BY <1>1, <2>1, <2>3
  <2> QED
    BY <2>2, <2>3
<1>8. TypeOK'
  <2>1. gates' \subseteq 1..head /\ carriedGates' \subseteq gates' /\ red' \subseteq acs
    BY <1>2, <1>4 DEF IInv, TypeOK
  <2> QED
    BY <1>1, <1>2, <1>6, <1>7, <2>1 DEF IInv, TypeOK
<1>9. Placed'
  <2>1. Verified' /\ (red' # {} => ~Gated')
    BY <1>1, <1>2, <1>4 DEF Verified, Gated
  <2> QED
    BY <1>1, <1>2, <2>1 DEF IInv, Placed
<1>10. Fresh' /\ Shaped' /\ RequiredAreMet'
  <2>1. Fresh'
    BY <1>1, <1>2, <1>6 DEF IInv, Fresh
  <2>2. Shaped' /\ RequiredAreMet'
    BY <1>1 DEF IInv, Shaped, RequiredAreMet
  <2> QED
    BY <2>1, <2>2
<1>11. Gatekept'
  <2>1. \A h \in carriedGates' : h \in carriedGates /\ h \in Commits /\ h # head
    BY <1>2, <1>4 DEF IInv, TypeOK
  <2>2. \A h \in Commits, a \in All : post'[h][a] # "none" => a \in Rerun
    BY <1>2, <1>6 DEF IInv, Gatekept
  <2> QED
    BY <1>1, <1>2, <1>4, <1>6, <2>1, <2>2 DEF IInv, Gatekept
<1>12. Truthful'
  <2>1. /\ \A x, y : <<"suite", x, y>> \in good => <<"suite", x, y>> \in good'
        /\ \A x, y : <<"unit", x, y>> \in good => <<"unit", x, y>> \in good'
        /\ \A x, y : <<"ac", x, y>> \in good /\ y # head => <<"ac", x, y>> \in good'
        /\ \A x \in ok \ tampered : <<"ac", x, head>> \in good'
    BY <1>4 DEF Seen
  <2>2. \A h \in gates', a \in All : post'[h][a] = "green" => <<"ac", a, h>> \in good'
    <3> SUFFICES ASSUME NEW h \in gates', NEW a \in All, post'[h][a] = "green" PROVE <<"ac", a, h>> \in good'
      OBVIOUS
    <3>1. CASE h = head
      <4>1. head \notin gates
        BY <1>1 DEF Gated
      <4>2. tampered = {} /\ (a \in ok \/ (a \notin Rerun /\ post[head][a] = "green"))
        BY <1>4, <1>6, <3>1, <4>1
      <4>3. a \in ok
        BY <1>2, <4>2 DEF IInv, Gatekept
      <4> QED
        BY <2>1, <3>1, <4>2, <4>3
    <3>2. CASE h # head
      BY <1>2, <1>4, <1>6, <2>1, <3>2 DEF IInv, Truthful, TypeOK
    <3> QED
      BY <3>1, <3>2
  <2>3. \A h \in 1..head : integration[h] # NotRun =>
            /\ integration[h].carriedFrom # 0 => Same(integration[h].carriedFrom, h)
            /\ isExecutedPass(integration[h]) /\ (\E job \in integration[h].ran : exercisesBehaviour(job)) =>
                   \E g \in 1..head : Same(g, h) /\ <<"suite", 0, g>> \in good'
            /\ \A job \in integration[h].ran \ integration[h].bad :
                   \E g \in 1..head : Same(g, h) /\ <<job, g>> \in met
    BY <2>1 DEF IInv, Truthful
  <2>4. \A u \in Units, h \in 1..head : isExecutedPass(sweep[u][h]) => <<"unit", u, h>> \in good'
    BY <2>1 DEF IInv, Truthful
  <2> QED
    BY <1>1, <1>2, <2>2, <2>3, <2>4 DEF Truthful, isExecutedPass, exercisesBehaviour
<1>13. Installed'
  BY <1>1, <1>2, <1>7 DEF IInv, Installed, Outdated
<1> QED
  BY <1>8, <1>9, <1>10, <1>11, <1>12, <1>13 DEF IInv

(* The integration sweep signs the head with what each of its commands     *)
(* did there.                                                              *)
LEMMA IntegrateInv == ASSUME IInv, Integrate PROVE IInv'
<1> USE DEF branch, workspace, design, process
<1>1. /\ UNCHANGED <<branch, profile, installed, stage, units, diff, measuredAt, provisioned, docs, design, sweep,
                     gates, carriedGates, post, red, up, runs, loops>>
      /\ up /\ stage = "implement" /\ provisioned
      /\ stale' = (stale \/ Outdated)
  BY DEF Integrate, Drives, Ran
<1>2. /\ head' = head /\ head \in Nat /\ head \in Commits /\ head \in 1..head /\ 1..head \subseteq Commits
      /\ Verified' = Verified /\ Gated' = Gated
      /\ \A g, h : Same(g, h)' <=> Same(g, h)
  BY <1>1, Still, EvidenceAssumption DEF IInv, TypeOK, Commits, Verified, Gated, checked
<1>3. PICK r \in Runs(profile.jobs) :
          /\ integration' = [integration EXCEPT ![head] =
                [result |-> r.result, ran |-> r.ran, bad |-> r.bad, carriedFrom |-> 0,
                 contract |-> Required(profile), ahead |-> ahead]]
          /\ good' = Seen("suite", {0},
                IF r.truly = r.ran /\ (\E job \in r.ran : exercisesBehaviour(job)) THEN {0} ELSE {})
          /\ met' = (met \ {<<job, head>> : job \in r.ran}) \cup {<<job, head>> : job \in r.truly}
  BY DEF Integrate
<1>4. profile.jobs \in Seq(Job)
  BY EvidenceAssumption DEF IInv, TypeOK
<1>5. /\ r.ran \subseteq Job /\ r.bad \subseteq Job /\ r.ran \ r.bad \subseteq r.truly
      /\ r.result \in Results /\ (r.result = "pass" => r.truly = r.ran)
  BY <1>4, RunsTrue, RunsMet
<1>6. Required(profile) \subseteq Job
  BY <1>4 DEF Required
<1> DEFINE signal == [result |-> r.result, ran |-> r.ran, bad |-> r.bad, carriedFrom |-> 0,
                      contract |-> Required(profile), ahead |-> ahead]
<1>7. /\ signal \in Measured /\ signal.carriedFrom = 0 /\ signal.ran = r.ran /\ signal.bad = r.bad
      /\ signal.result = r.result
  BY <1>5, <1>6, EvidenceAssumption DEF Measured, IInv, TypeOK
<1>8. integration' = [integration EXCEPT ![head] = signal]
  BY <1>3
<1> HIDE DEF signal
<1>9. /\ integration' \in [Commits -> Measured \cup {NotRun}]
      /\ integration'[head] = signal /\ \A h \in Commits : h # head => integration'[h] = integration[h]
  BY <1>2, <1>7, <1>8 DEF IInv, Shaped
<1>10. stale' \in BOOLEAN /\ (stale' => stale \/ Outdated)
  <2>1. stale \in BOOLEAN
    BY DEF IInv, TypeOK
  <2>2. CASE Outdated
    BY <1>1, <2>1, <2>2
  <2>3. CASE ~Outdated
    BY <1>1, <2>1, <2>3
  <2> QED
    BY <2>2, <2>3
<1>11. TypeOK'
  <2>1. \A h \in Commits : integration'[h] = NotRun \/ integration'[h].result \in Results
    BY <1>9 DEF Measured
  <2> QED
    BY <1>1, <1>2, <1>10, <2>1 DEF IInv, TypeOK
<1>12. Placed'
  BY <1>1, <1>2 DEF IInv, Placed
<1>13. Fresh' /\ Shaped' /\ RequiredAreMet'
  <2>1. \A h \in Commits : h > head => integration'[h] = integration[h]
    BY <1>2, <1>9 DEF Commits
  <2>2. Fresh'
    BY <1>1, <1>2, <2>1 DEF IInv, Fresh
  <2>3. Shaped' /\ RequiredAreMet'
    BY <1>1, <1>9 DEF IInv, Shaped, RequiredAreMet
  <2> QED
    BY <2>2, <2>3
<1>14. Gatekept'
  <2>1. \A h \in carriedGates : h \in Commits /\ (integration'[h].carriedFrom # 0 =>
                                   integration'[h].carriedFrom \in gates)
    BY <1>2, <1>7, <1>9 DEF IInv, Gatekept, TypeOK
  <2> QED
    BY <1>1, <2>1 DEF IInv, Gatekept, checked, Rerun
<1>15. Truthful'
  <2>1. /\ \A x, y : <<"suite", x, y>> \in good /\ y # head => <<"suite", x, y>> \in good'
        /\ \A x, y : <<"unit", x, y>> \in good => <<"unit", x, y>> \in good'
        /\ \A x, y : <<"ac", x, y>> \in good => <<"ac", x, y>> \in good'
    BY <1>3 DEF Seen
  <2>2. \A u \in Units, h \in 1..head : isExecutedPass(sweep[u][h]) => <<"unit", u, h>> \in good'
    BY <2>1 DEF IInv, Truthful
  <2>3. \A h \in gates, a \in All : post[h][a] = "green" => <<"ac", a, h>> \in good'
    BY <2>1 DEF IInv, Truthful
  <2>4. ASSUME NEW h \in 1..head, integration'[h] # NotRun
        PROVE  /\ integration'[h].carriedFrom # 0 => Same(integration'[h].carriedFrom, h)
               /\ isExecutedPass(integration'[h]) /\ (\E job \in integration'[h].ran : exercisesBehaviour(job)) =>
                      \E g \in 1..head : Same(g, h) /\ <<"suite", 0, g>> \in good'
               /\ \A job \in integration'[h].ran \ integration'[h].bad :
                      \E g \in 1..head : Same(g, h) /\ <<job, g>> \in met'
    <3>1. CASE h = head
      <4>1. integration'[h] = signal /\ Same(head, h)
        BY <1>2, <1>9, <3>1 DEF Same
      <4>2. isExecutedPass(signal) /\ (\E job \in signal.ran : exercisesBehaviour(job)) => <<"suite", 0, head>> \in good'
        BY <1>3, <1>5, <1>7 DEF isExecutedPass, Seen
      <4>3. \A job \in signal.ran \ signal.bad : <<job, head>> \in met'
        BY <1>3, <1>5, <1>7
      <4> QED
        BY <1>2, <1>7, <4>1, <4>2, <4>3
    <3>2. CASE h # head
      <4>1. integration'[h] = integration[h]
        BY <1>2, <1>9, <3>2
      <4>2. \A g : Same(g, h) => g # head
        BY <1>2, <3>2 DEF Same
      <4>3. \A job, g : <<job, g>> \in met /\ g # head => <<job, g>> \in met'
        BY <1>3
      <4> QED
        BY <2>1, <2>4, <4>1, <4>2, <4>3 DEF IInv, Truthful
    <3> QED
      BY <3>1, <3>2
  <2> QED
    BY <1>1, <1>2, <2>2, <2>3, <2>4 DEF Truthful, isExecutedPass, exercisesBehaviour
<1>16. Installed'
  BY <1>1, <1>2, <1>10 DEF IInv, Installed, Outdated
<1> QED
  BY <1>11, <1>12, <1>13, <1>14, <1>15, <1>16 DEF IInv

(* A commit of documents takes what was measured before it along: it does  *)
(* not change the code.                                                    *)
LEMMA DocsInv == ASSUME IInv, Docs \/ DocsCut PROVE IInv'
<1> USE DEF branch, workspace, design, ledger, process, observers
<1>1. /\ UNCHANGED <<profile, installed, stage, units, diff, measuredAt, provisioned, behavioral, acs, class,
                     rejected, sweep, post, red, runs, loops, good, met, stale>>
      /\ up' \in {up, FALSE} /\ docs' \in {"no", "due", "done"}
      /\ stage = "implement" /\ Verified /\ Gated /\ Swept /\ up
  BY DEF Docs, DocsCut, DocsDue, Drives, IInv, TypeOK
<1>2. red = {} /\ checked' = checked /\ Verified'
  BY <1>1 DEF IInv, Placed, checked, Verified
<1>3. PICK n \in Nat \ {0} : n = head /\ n \in Commits
  BY DEF IInv, TypeOK, Commits
<1>4. \/ NothingCommitted /\ UNCHANGED <<integration, gates, carriedGates>>
      \/ /\ Documented
         /\ \/ carryVerifiedVerdictForward(n, n + 1)
            \/ UNCHANGED <<integration, gates, carriedGates>>
  BY <1>3 DEF Docs, DocsCut
<1>5. /\ Longer /\ head' \in Commits /\ ahead' \in BOOLEAN
      /\ tampered' \in {tampered} \cup SUBSET checked
      /\ head' # head => ~log'[head + 1].manifest
  <2>1. CASE NothingCommitted
    BY <2>1, Rowed
  <2>2. CASE Documented
    <3>1. Records("docs", FALSE) /\ tampered' \in {tampered} \cup SUBSET checked
      BY <2>2 DEF Documented, Tampering
    <3> QED
      BY <3>1, Recorded
  <2> QED
    BY <1>4, <2>1, <2>2
<1>6. /\ log' \in Seq(Commit) /\ head' \in {n, n + 1} /\ 1..n \subseteq 1..(head')
      /\ \A j \in 1..n : log'[j] = log[j]
      /\ \A g, h \in 1..n : Same(g, h) => Same(g, h)'
  BY <1>3, <1>5, Lengthened
<1>7. Placed'
  BY <1>1, <1>2, <1>3, <1>6 DEF IInv, Placed, Verified
<1>8. Installed'
  <2> SUFFICES ASSUME ~InPlace, up', provisioned' PROVE ~Outdated'
    BY <1>1 DEF Installed, IInv
  <2> QED
    BY <1>1, <1>5, StillInstalled DEF Installed, IInv
<1>9. tampered' \subseteq acs
  BY <1>5 DEF checked, IInv, TypeOK
<1>10. CASE UNCHANGED <<integration, gates, carriedGates>>
  <2>1. TypeOK'
    <3>1. gates \subseteq 1..(head') /\ installed \in 0..(head') /\ measuredAt \in [Units -> 0..(head')]
      <4>1. 0..n \subseteq 0..(head')
        BY <1>3, <1>6
      <4> QED
        BY <1>3, <1>6, <4>1 DEF IInv, TypeOK
    <3> QED
      BY <1>1, <1>5, <1>6, <1>10, <1>9, <3>1 DEF IInv, TypeOK, Commit
  <2>2. Fresh'
    BY <1>1, <1>3, <1>6, <1>10 DEF IInv, Fresh, Commits
  <2>3. Gatekept' /\ Shaped' /\ RequiredAreMet'
    BY <1>1, <1>2, <1>5, <1>10 DEF IInv, Gatekept, Shaped, RequiredAreMet, checked, Rerun
  <2>4. Truthful'
    BY <1>1, <1>5, <1>10, TruthKept
  <2> QED
    BY <1>7, <1>8, <2>1, <2>2, <2>3, <2>4 DEF IInv
<1>11. CASE Documented /\ carryVerifiedVerdictForward(n, n + 1)
  <2>1. /\ log' = Append(log, [kind |-> "docs", manifest |-> FALSE]) /\ n < MaxCommits
        /\ integration' = [integration EXCEPT ![n + 1] = [integration[n] EXCEPT !.carriedFrom = n]]
        /\ gates' = IF checked = {} THEN gates ELSE gates \cup {n + 1}
        /\ carriedGates' = IF checked = {} THEN carriedGates ELSE carriedGates \cup {n + 1}
    BY <1>3, <1>11 DEF Documented, Records, carryVerifiedVerdictForward
  <2>2. /\ head' = n + 1 /\ \A h \in 1..n : codeOf(h)' = codeOf(h)
        /\ codeOf(head)' = codeOf(head)
    <3>1. [kind |-> "docs", manifest |-> FALSE] \in Commit /\ log \in Seq(Commit)
      BY DEF Commit, IInv, TypeOK
    <3>2. [kind |-> "docs", manifest |-> FALSE].kind \notin Coded
      BY DEF Coded
    <3> QED
      BY <1>3, <2>1, <3>1, <3>2, Appended
  <2>3. codeOf(n + 1)' = codeOf(n)
    BY <1>3, <2>2
  <2>4. \A g \in 1..n : Same(g, n) => Same(g, n + 1)'
    BY <2>2, <2>3 DEF Same
  <2>5. integration[n] \in Measured /\ n \in 0..MaxCommits /\ n + 1 \in Commits /\ n \in 1..n
    <3>1. integration[n] \in Measured
      BY <1>1, <1>3 DEF IInv, Shaped, Swept, NotRun
    <3> QED
      BY <2>1, <3>1, <1>3, EvidenceAssumption DEF Commits
  <2> DEFINE carried == [integration[n] EXCEPT !.carriedFrom = n]
  <2>6. /\ carried \in Measured /\ carried.carriedFrom = n /\ carried.ran = integration[n].ran
        /\ carried.bad = integration[n].bad /\ carried.result = integration[n].result
    BY <2>5 DEF Measured
  <2>7. integration' = [integration EXCEPT ![n + 1] = carried]
    BY <2>1
  <2> HIDE DEF carried
  <2>8. /\ integration' \in [Commits -> Measured \cup {NotRun}] /\ integration'[n + 1] = carried
        /\ \A h \in Commits : h # n + 1 => integration'[h] = integration[h]
    BY <2>5, <2>6, <2>7 DEF IInv, Shaped
  <2>9. /\ post[n + 1] = NoPost /\ (\A u \in Units : sweep[u][n + 1] = NotRun)
        /\ (checked # {} => n \in gates)
    BY <1>1, <1>3, <2>5 DEF IInv, Fresh, Gated
  <2>10. TypeOK'
    <3>1. gates' \subseteq 1..(head') /\ carriedGates' \subseteq gates'
      BY <1>3, <1>6, <2>1, <2>2 DEF IInv, TypeOK
    <3>2. installed \in 0..(head') /\ measuredAt \in [Units -> 0..(head')]
      <4>1. 0..n \subseteq 0..(head')
        BY <2>2
      <4> QED
        BY <1>3, <4>1 DEF IInv, TypeOK
    <3>3. \A h \in Commits : integration'[h] = NotRun \/ integration'[h].result \in Results
      BY <2>8 DEF Measured
    <3> QED
      BY <1>1, <1>5, <1>6, <1>9, <3>1, <3>2, <3>3 DEF IInv, TypeOK, Commit
  <2>11. Fresh'
    BY <1>1, <1>3, <2>2, <2>8 DEF IInv, Fresh, Commits
  <2>12. Shaped' /\ RequiredAreMet'
    BY <1>1, <2>8 DEF IInv, Shaped, RequiredAreMet
  <2>13. Gatekept'
    <3>1. ASSUME NEW h \in carriedGates'
          PROVE  post'[h] = NoPost /\ (integration'[h].carriedFrom # 0 => integration'[h].carriedFrom \in gates')
      <4>1. CASE h = n + 1
        BY <1>1, <1>3, <2>1, <2>5, <2>6, <2>8, <2>9, <3>1, <4>1 DEF IInv, TypeOK
      <4>2. CASE h # n + 1
        <5>1. h \in carriedGates /\ h \in Commits
          BY <2>1, <2>5, <3>1, <4>2, <1>3, EvidenceAssumption DEF IInv, TypeOK, Commits
        <5> QED
          BY <1>1, <2>1, <2>8, <4>2, <5>1 DEF IInv, Gatekept
      <4> QED
        BY <4>1, <4>2
    <3> QED
      BY <1>1, <1>2, <1>5, <3>1 DEF IInv, Gatekept, checked, Rerun
  <2>14. Truthful'
    <3>1. \A h \in 1..(head') : h \in 1..n \/ h = n + 1
      BY <2>2
    <3>2. ASSUME NEW h \in 1..(head'), integration'[h] # NotRun
          PROVE  /\ integration'[h].carriedFrom # 0 => Same(integration[h].carriedFrom, h)'
                 /\ isExecutedPass(integration'[h]) /\ (\E job \in integration'[h].ran : exercisesBehaviour(job)) =>
                        \E g \in 1..(head') : Same(g, h)' /\ <<"suite", 0, g>> \in good
                 /\ \A job \in integration'[h].ran \ integration'[h].bad :
                        \E g \in 1..(head') : Same(g, h)' /\ <<job, g>> \in met
      <4>1. CASE h = n + 1
        <5>1. integration[n] # NotRun
          BY <1>1, <1>3 DEF Swept, NotRun
        <5>2. Same(n, n + 1)'
          BY <2>2, <2>3 DEF Same
        <5>3. /\ isExecutedPass(integration[n]) /\ (\E job \in integration[n].ran : exercisesBehaviour(job)) =>
                    \E g \in 1..n : Same(g, n) /\ <<"suite", 0, g>> \in good
              /\ \A job \in integration[n].ran \ integration[n].bad :
                    \E g \in 1..n : Same(g, n) /\ <<job, g>> \in met
          BY <1>3, <2>5, <5>1 DEF IInv, Truthful
        <5> QED
          BY <1>6, <2>4, <2>6, <2>8, <4>1, <5>2, <5>3 DEF isExecutedPass
      <4>2. CASE h \in 1..n
        <5>1. integration'[h] = integration[h]
          BY <1>3, <2>5, <2>8, <4>2, EvidenceAssumption DEF Commits
        <5>2. integration[h].carriedFrom # 0 => integration[h].carriedFrom \in 1..n
          BY <1>3, <3>2, <4>2, <5>1 DEF IInv, Truthful, Same
        <5> QED
          BY <1>3, <1>6, <3>2, <4>2, <5>1, <5>2 DEF IInv, Truthful
      <4> QED
        BY <3>1, <4>1, <4>2
    <3>3. \A u \in Units, h \in 1..(head') : isExecutedPass(sweep[u][h]) => <<"unit", u, h>> \in good
      <4>1. \A u \in Units : ~isExecutedPass(sweep[u][n + 1])
        BY <2>9 DEF isExecutedPass, NotRun
      <4> QED
        BY <1>3, <3>1, <4>1 DEF IInv, Truthful
    <3>4. \A h \in gates', a \in All : post[h][a] = "green" => <<"ac", a, h>> \in good
      <4>1. \A a \in All : post[n + 1][a] # "green"
        BY <2>9 DEF NoPost
      <4>2. \A h \in gates' : h \in gates \/ h = n + 1
        BY <2>1
      <4> QED
        BY <4>1, <4>2 DEF IInv, Truthful
    <3> QED
      BY <1>1, <3>2, <3>3, <3>4 DEF Truthful, isExecutedPass, exercisesBehaviour
  <2> QED
    BY <1>7, <1>8, <2>10, <2>11, <2>12, <2>13, <2>14 DEF IInv
<1> QED
  BY <1>4, <1>10, <1>11

(* The arbiter drops the results of a check that is authored again.        *)
LEMMA ArbitrateInv == ASSUME IInv, Arbitrate PROVE IInv'
<1> USE DEF branch, process, observers
<1>1. /\ UNCHANGED <<profile, installed, stage, diff, measuredAt, provisioned, docs, behavioral, acs,
                     integration, sweep, gates, carriedGates, up, runs, good, met, stale>>
      /\ stage = "implement" /\ red # {} /\ Verified /\ red' = {} /\ red \subseteq checked
      /\ loops < MaxLoops /\ loops' = loops + 1 /\ tampered' \in {tampered} \cup SUBSET checked
  BY DEF Arbitrate, Drives, IInv, Placed, Gatekept, Tampering
<1>2. PICK installed2 \in SUBSET (red \ tampered), refused \in SUBSET (red \ tampered), again \in BOOLEAN :
          /\ rejected' = (rejected \cup refused) \ installed2
          /\ class' = [a \in All |-> IF a \in installed2 THEN "assertion" ELSE class[a]]
          /\ post' = [h \in Commits |-> [a \in All |-> IF a \in installed2 THEN "none" ELSE post[h][a]]]
          /\ UNCHANGED <<log, ahead>> \/ Records("checks", FALSE)
          /\ units' = IF again THEN [u \in Units |-> "pending"] ELSE units
  BY DEF Arbitrate
<1>3. PICK n \in Nat \ {0} : n = head /\ n \in Commits
  BY DEF IInv, TypeOK, Commits
<1>5. Longer /\ head' \in Commits /\ ahead' \in BOOLEAN /\ (head' # head => ~log'[head + 1].manifest)
  <2>1. CASE UNCHANGED <<log, ahead>>
    BY <1>3, <2>1 DEF Longer, head, IInv, TypeOK
  <2>2. CASE Records("checks", FALSE)
    BY <2>2, Recorded
  <2> QED
    BY <1>2, <2>1, <2>2
<1>6. /\ log' \in Seq(Commit) /\ head' \in {n, n + 1} /\ 1..n \subseteq 1..(head')
      /\ \A j \in 1..n : log'[j] = log[j]
  BY <1>3, <1>5, Lengthened
<1>7. acs \subseteq All /\ installed2 \subseteq checked /\ refused \subseteq acs
      /\ \A a \in All : class'[a] = IF a \in installed2 THEN "assertion" ELSE class[a]
  BY <1>1, <1>2 DEF IInv, TypeOK, checked, All
<1>8. checked' = checked /\ Rerun \subseteq Rerun'
  BY <1>1, <1>7 DEF checked, Rerun
<1>9. \A h \in Commits, a \in All : post'[h][a] = IF a \in installed2 THEN "none" ELSE post[h][a]
  BY <1>2
<1>10. \A u \in Units : units'[u] # "verifying"
  BY <1>1, <1>2 DEF Verified
<1>11. TypeOK'
  <2>1. /\ class' \in [All -> Classes \cup {"none", "assertion"}]
        /\ post' \in [Commits -> [All -> {"none", "green", "red"}]]
        /\ units' \in [Units -> {"pending", "verifying", "verified"}]
        /\ rejected' \subseteq acs
    <3>1. class' \in [All -> Classes \cup {"none", "assertion"}]
      BY <1>2 DEF IInv, TypeOK
    <3>2. post' \in [Commits -> [All -> {"none", "green", "red"}]]
      BY <1>2 DEF IInv, TypeOK
    <3>3. units' \in [Units -> {"pending", "verifying", "verified"}]
      BY <1>2 DEF IInv, TypeOK
    <3>4. rejected' \subseteq acs
      BY <1>2, <1>7 DEF IInv, TypeOK
    <3> QED
      BY <3>1, <3>2, <3>3, <3>4
  <2>2. loops' \in 0..MaxLoops
    BY <1>1, EvidenceAssumption DEF IInv, TypeOK
  <2>3. gates \subseteq 1..(head') /\ installed \in 0..(head') /\ measuredAt \in [Units -> 0..(head')]
    <3>1. 0..n \subseteq 0..(head')
      BY <1>3, <1>6
    <3> QED
      BY <1>3, <1>6, <3>1 DEF IInv, TypeOK
  <2>4. tampered' \subseteq acs
    BY <1>1 DEF checked, IInv, TypeOK
  <2> QED
    BY <1>1, <1>5, <1>6, <2>1, <2>2, <2>3, <2>4 DEF IInv, TypeOK, Commit
<1>12. Placed'
  BY <1>1, <1>3, <1>6, <1>10 DEF IInv, Placed
<1>13. Fresh'
  <2>1. \A h \in Commits : post[h] = NoPost => post'[h] = NoPost
    BY <1>2 DEF NoPost
  <2> QED
    BY <1>1, <1>3, <1>6, <2>1 DEF IInv, Fresh, Commits
<1>14. Gatekept'
  <2>1. \A h \in Commits : post[h] = NoPost => post'[h] = NoPost
    BY <1>2 DEF NoPost
  <2>2. carriedGates \subseteq Commits
    BY <1>3, EvidenceAssumption DEF IInv, TypeOK, Commits
  <2>3. \A h \in Commits, a \in All : post'[h][a] # "none" => a \in Rerun
    BY <1>9 DEF IInv, Gatekept
  <2> QED
    BY <1>1, <1>8, <2>1, <2>2, <2>3 DEF IInv, Gatekept
<1>15. Shaped' /\ RequiredAreMet'
  BY <1>1 DEF IInv, Shaped, RequiredAreMet
<1>16. Truthful'
  <2>1. \A h \in gates, a \in All : post'[h][a] = "green" => post[h][a] = "green"
    <3>1. gates \subseteq Commits
      BY <1>3, EvidenceAssumption DEF IInv, TypeOK, Commits
    <3> QED
      BY <1>9, <3>1
  <2> QED
    BY <1>1, <1>5, <2>1, TruthKept
<1>17. Installed'
  <2> SUFFICES ASSUME ~InPlace, up', provisioned' PROVE ~Outdated'
    BY <1>1 DEF Installed, IInv
  <2> QED
    BY <1>1, <1>5, StillInstalled DEF Installed, IInv
<1> QED
  BY <1>11, <1>12, <1>13, <1>14, <1>15, <1>16, <1>17 DEF IInv

-----------------------------------------------------------------------------
(* What the readers make of the ledger.                                    *)

(* The measurements of the head, or those that a carry names, are of this  *)
(* very code, of checks as they were authored.                             *)
LEMMA CriterionEarned ==
    ASSUME IInv, Gated \/ post[head] = NoPost, NEW a \in checked, green(acEvidenceSha(head), a)
    PROVE  \E h \in sameCode : <<"ac", a, h>> \in good
<1>1. a \in All /\ head \in 1..head /\ (head \in gates \/ post[head] = NoPost)
  BY EvidenceAssumption DEF Gated, checked, IInv, TypeOK, All, Commits
<1>2. PICK e : e = acEvidenceSha(head) /\ post[e][a] = "green" /\ e # 0
  BY DEF green
<1>3. e \in gates /\ e \in sameCode
  <2>1. CASE post[head] # NoPost
    BY <1>1, <1>2, <2>1 DEF acEvidenceSha, sameCode
  <2>2. CASE post[head] = NoPost
    <3>1. integration[head] # NotRun /\ head \in carriedGates /\ e = integration[head].carriedFrom
      BY <1>2, <2>2 DEF acEvidenceSha
    <3>2. e \in gates /\ Same(e, head)
      BY <1>1, <1>2, <3>1 DEF IInv, Gatekept, Truthful
    <3> QED
      BY <3>2 DEF Same, sameCode
  <2> QED
    BY <2>1, <2>2
<1> QED
  BY <1>1, <1>2, <1>3 DEF IInv, Truthful

LEMMA SuiteEarned ==
    ASSUME IInv, executedTestEvidenceAt(head)
    PROVE  \E h \in sameCode : <<"suite", 0, h>> \in good \/ \E u \in Units : <<"unit", u, h>> \in good
<1>1. head \in 1..head /\ \A g : Same(g, head) => g \in sameCode
  BY EvidenceAssumption DEF IInv, TypeOK, Commits, Same, sameCode
<1>2. head \in sameCode
  BY <1>1 DEF sameCode
<1>3. CASE isExecutedPass(integration[head]) /\ \E job \in integration[head].ran : exercisesBehaviour(job)
  <2>1. integration[head] # NotRun
    BY <1>3 DEF isExecutedPass, NotRun
  <2> QED
    BY <1>1, <1>3, <2>1 DEF IInv, Truthful
<1>4. CASE newestUnitSweepPassed(head)
  BY <1>1, <1>2, <1>4 DEF newestUnitSweepPassed, IInv, Truthful
<1>5. CASE /\ integration[head] # NotRun /\ integration[head].carriedFrom # 0
           /\ newestUnitSweepPassed(integration[head].carriedFrom)
  <2>1. Same(integration[head].carriedFrom, head)
    BY <1>1, <1>5 DEF IInv, Truthful
  <2>2. integration[head].carriedFrom \in 1..head
    BY <2>1 DEF Same
  <2> QED
    BY <1>1, <1>5, <2>1, <2>2 DEF newestUnitSweepPassed, IInv, Truthful
<1> QED
  BY <1>3, <1>4, <1>5 DEF executedTestEvidenceAt

LEMMA RequiredEarned ==
    ASSUME IInv, ~requiredSuiteProblem(head)
    PROVE  \A job \in Required(profile) : \E h \in sameCode : <<job, h>> \in met
<1>1. head \in 1..head /\ \A g : Same(g, head) => g \in sameCode
  BY EvidenceAssumption DEF IInv, TypeOK, Commits, Same, sameCode
<1> SUFFICES ASSUME NEW job \in Required(profile) PROVE \E h \in sameCode : <<job, h>> \in met
  OBVIOUS
<1>2. integration[head] # NotRun /\ job \in integration[head].ran \ integration[head].bad
  BY DEF requiredSuiteProblem
<1> QED
  BY <1>1, <1>2 DEF IInv, Truthful

LEMMA PublishInv == ASSUME IInv, Publish PROVE IInv'
<1> USE DEF branch, workspace, design, ledger, process, observers
<1>1. /\ UNCHANGED <<workspace, units, diff, measuredAt, provisioned, docs, design, ledger, process, observers>>
      /\ up /\ stage = "merge" /\ ~requiredSuiteProblem(head) /\ stage' = "published"
  BY DEF Publish
<1>2. /\ head' = head /\ Longer /\ Verified' = Verified /\ Gated' = Gated /\ head' \in Commits
      /\ sameCode' = sameCode /\ Required(profile)' = Required(profile)
  BY <1>1, Still DEF Verified, Gated, checked, Longer, IInv, TypeOK, sameCode, Required
<1>3. TypeOK' /\ Placed' /\ Fresh' /\ Gatekept' /\ Shaped'
  BY <1>1, <1>2 DEF IInv, TypeOK, Placed, Fresh, Gatekept, Shaped, checked, Rerun
<1>4. Truthful'
  BY <1>1, <1>2, TruthKept
<1>5. Installed'
  BY <1>1, <1>2 DEF IInv, Installed, Outdated
<1>6. RequiredAreMet'
  BY <1>1, <1>2, RequiredEarned DEF RequiredAreMet
<1> QED
  BY <1>3, <1>4, <1>5, <1>6 DEF IInv

-----------------------------------------------------------------------------
(* The invariant and what follows from it.                                 *)

LEMMA InitInv == Init => IInv
<1> SUFFICES ASSUME Init PROVE IInv
  OBVIOUS
<1>1. log \in Seq(Commit) /\ head = 1 /\ log[1].kind = "checks"
  BY DEF Init, Commit, head
<1>2. 1 \in Commits /\ 1 \in 0..MaxRuns /\ 0 \in 0..MaxLoops /\ 0 \in 0..1 /\ 1 \in 0..1
  BY EvidenceAssumption DEF Commits
<1>3. TypeOK
  <2>1. /\ units \in [Units -> {"pending", "verifying", "verified"}] /\ measuredAt \in [Units -> 0..head]
        /\ diff \in [Units -> Diffs \cup {{}}] /\ class \in [All -> Classes \cup {"none", "assertion"}]
    BY <1>1, <1>2 DEF Init
  <2>2. /\ \A h \in Commits : integration[h] = NotRun
        /\ \A u \in Units, h \in Commits : sweep[u][h].result \in Results \cup {"none"}
        /\ post \in [Commits -> [All -> {"none", "green", "red"}]]
    BY DEF Init, NotRun, NoPost
  <2> QED
    BY <1>1, <1>2, <2>1, <2>2 DEF Init, TypeOK, Commit
<1>4. Shaped /\ Placed /\ Fresh
  BY <1>1, <1>2 DEF Init, Shaped, Placed, Fresh, Verified, Coded
<1>5. Gatekept
  BY DEF Init, Gatekept, NoPost
<1>6. Truthful
  <2>1. \A h \in 1..head : h \in Commits
    BY <1>1, <1>2
  <2> QED
    BY <2>1 DEF Init, Truthful, isExecutedPass, NotRun
<1>7. Installed
  <2>1. (1 + 1)..1 = {}
    OBVIOUS
  <2> QED
    BY <1>1, <2>1 DEF Init, Installed, Outdated
<1> QED
  BY <1>3, <1>4, <1>5, <1>6, <1>7 DEF IInv, Init, RequiredAreMet

LEMMA StepInv == IInv /\ [Next]_vars => IInv'
<1> SUFFICES ASSUME IInv, [Next]_vars PROVE IInv'
  OBVIOUS
<1>1. CASE UNCHANGED vars
  <2>1. /\ head' = head /\ checked' = checked /\ Rerun' = Rerun /\ Verified' = Verified /\ Gated' = Gated
        /\ sameCode' = sameCode /\ Required(profile)' = Required(profile) /\ Outdated' = Outdated
    BY <1>1 DEF vars, head, checked, Rerun, Verified, Gated, sameCode, codeOf, Required, Outdated
  <2>2. TypeOK' /\ Shaped' /\ Placed' /\ Fresh' /\ Gatekept' /\ Installed'
    BY <1>1, <2>1 DEF vars, IInv, TypeOK, Shaped, Placed, Fresh, Gatekept, Installed
  <2>3. RequiredAreMet'
    BY <1>1, <2>1 DEF vars, IInv, RequiredAreMet
  <2>4. Truthful'
    BY <1>1, <2>1, TruthKept DEF vars, Longer, IInv, TypeOK
  <2> QED
    BY <2>2, <2>3, <2>4 DEF IInv
<1>2. ASSUME NEW u \in Units, \/ Implement(u) \/ ImplementCut(u) \/ VerifyInert(u) \/ VerifyNothing(u)
                              \/ VerifyRun(u) \/ MarkVerified(u)
      PROVE  IInv'
  BY <1>2, DispatchInv, SweepInv, QuietInv
<1>3. CASE Gate \/ Arbitrate \/ Integrate \/ Docs \/ DocsCut \/ Publish
  BY <1>3, GateInv, ArbitrateInv, IntegrateInv, DocsInv, PublishInv
<1>4. CASE DispatchFails \/ Approve \/ LoopBack
  BY <1>4, RowInv
<1>5. CASE Provision \/ Advance \/ Stop \/ Resume \/ AcceptHead
  BY <1>5, QuietInv
<1> QED
  BY <1>1, <1>2, <1>3, <1>4, <1>5 DEF Next

(* The inductive invariant holds in every reachable state.                 *)
THEOREM Inductive == Spec => []IInv
  BY InitInv, StepInv, PTL DEF Spec

(* The ticket, the ledger and the process keep to their types.             *)
THEOREM EvidenceTypes == Spec => []TypeOK
<1>1. IInv => TypeOK
  BY DEF IInv
<1> QED
  BY <1>1, Inductive, PTL

(* What is published has had every suite that the profile of the           *)
(* publishing process requires run to a green end at the code of the last  *)
(* coding dispatch (requiredSuiteProblem, by the registry at every step).  *)
THEOREM RequiredSuitesRan == Spec => []RequiredAreMet
<1>1. IInv => RequiredAreMet
  BY DEF IInv
<1> QED
  BY <1>1, Inductive, PTL

(* What the report in the pull request calls verified was: by its own      *)
(* check, green at the code of the last coding dispatch, untampered with   *)
(* by it and not since found wrong (buildVerifyReport over signals that    *)
(* may have been carried forward).                                         *)
THEOREM ReportIsEarned == Spec => []ReportIsTrue
<1>1. IInv => ReportIsTrue
  <2> SUFFICES ASSUME IInv, stage = "published", NEW a \in acs, Label(a) = "verified"
               PROVE  a \notin rejected /\ \E h \in sameCode : <<"ac", a, h>> \in good
    BY DEF ReportIsTrue
  <2>1. Gated \/ post[head] = NoPost
    BY DEF IInv, Placed
  <2>2. class[a] = "assertion" /\ ~unreplaced(a) /\ green(acEvidenceSha(head), a)
    <3>1. class[a] \in {"none", "assertion", "environmental", "satisfied"}
      BY EvidenceAssumption DEF IInv, TypeOK, All
    <3>2. CASE class[a] = "none"
      BY <3>2 DEF Label, gating, unreplaced
    <3>3. CASE unreplaced(a)
      BY <3>3 DEF Label, unreplaced
    <3>4. CASE ~unreplaced(a) /\ class[a] \in {"environmental", "satisfied"}
      BY <3>4 DEF Label, gating
    <3>5. CASE ~unreplaced(a) /\ class[a] = "assertion"
      <4>1. Label(a) = IF green(acEvidenceSha(head), a) THEN "verified" ELSE "still-red"
        BY <3>5 DEF Label, gating
      <4> QED
        BY <3>5, <4>1
    <3> QED
      BY <3>1, <3>2, <3>3, <3>4, <3>5
  <2>3. a \in checked /\ a \notin rejected
    BY <2>2 DEF checked, unreplaced
  <2> QED
    BY <2>1, <2>2, <2>3, CriterionEarned
<1> QED
  BY <1>1, Inductive, PTL

(* With a worktree of its own, a run never verifies on dependencies older  *)
(* than the manifest: the commit that touches it and the new worktree both *)
(* arm `provision` (resetProvisionIfManifestTouched, worktree creation).   *)
THEOREM InstalledFirst == ASSUME ~InPlace PROVE Spec => []NothingRunsStale
<1>1. IInv => NothingRunsStale
  BY DEF IInv, Installed, NothingRunsStale
<1> QED
  BY <1>1, Inductive, PTL

(* A ticket leaves `implement` only on evidence really produced at the     *)
(* code of the last coding dispatch (evidenceFloor), whatever the operator *)
(* had accepted on top of it.                                              *)
THEOREM FloorIsEarned == Spec => ShippedIsMeasured
<1>1. IInv /\ [Next]_vars => [stage = "implement" /\ stage' = "review" => Earned]_vars
  <2> SUFFICES ASSUME IInv, Next, stage = "implement", stage' = "review" PROVE Earned
    OBVIOUS
  <2>1. Advance
    BY DEF Next, Implement, ImplementCut, VerifyInert, VerifyNothing, VerifyRun, MarkVerified, Provision, Gate,
           Arbitrate, Integrate, Docs, DocsCut, DispatchFails, Approve, LoopBack, Publish, Stop, Resume, AcceptHead,
           Restarted
  <2>2. Gated /\ (executedTestEvidenceAt(head) \/ AcsProven(head))
    BY <2>1 DEF Advance, evidenceFloor
  <2>3. CASE executedTestEvidenceAt(head)
    BY <2>3, SuiteEarned DEF Earned
  <2>4. CASE AcsProven(head)
    <3>1. \A a \in acs : a \in checked /\ green(acEvidenceSha(head), a)
      BY <2>4 DEF AcsProven, gating, checked
    <3> QED
      BY <2>2, <2>4, <3>1, CriterionEarned DEF Earned, AcsProven
  <2> QED
    BY <2>2, <2>3, <2>4
<1> QED
  BY <1>1, Inductive, PTL DEF Spec, ShippedIsMeasured
=============================================================================
