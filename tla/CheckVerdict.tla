---------------------------- MODULE CheckVerdict ----------------------------
(***************************************************************************)
(* From what a test runner did to what Styre records of it.  A criterion's *)
(* check is one named test, run before the code exists (it must fail) and  *)
(* after (it must pass); a delivered test file is run against the code it  *)
(* was not written for (it must fail there, by its own assertion).  Styre  *)
(* sees neither the test nor the failure: it sees an exit status and a     *)
(* report of a runner that may run other tests too, fail in a hook, skip,  *)
(* or die before it reports.                                               *)
(*                                                                         *)
(* A "world" says what the tests would do at a revision, a "fault" what    *)
(* went wrong around them; the report is what the runner makes of both.    *)
(* Text is left out: the summary line, the rows and the sections of a      *)
(* report are there or they are not.                                       *)
(***************************************************************************)
EXTENDS Naturals, FiniteSets

CONSTANTS
    Components,     \* configurations of the component that owns the tests, one per `styre setup`
    MaxSetups       \* bound of the model: changes of the configuration

(* "generic" stands for the frameworks that are judged by their exit       *)
(* status: jest, vitest, go, cargo, junit, rspec, minitest, phpunit.       *)
Frameworks == {"mocha", "django-runtests", "pytest", "generic"}
Reporting == {"mocha", "django-runtests"}       \* a verdict needs the named test in the report
Launchers == {"plain", "wrapped"}

ASSUME VerdictAssumption ==
    /\ Components \subseteq [framework : Frameworks, launcher : Launchers, qualified : BOOLEAN, dir : BOOLEAN]
    /\ MaxSetups \in Nat

VARIABLES
    comp,       \* the component, as the profile of this process describes it
    ready,      \* would its test environment qualify in the checkout now?
    setups,
    check,      \* the active check: its plan, its RED-first result, and what really happened then
    last        \* the last run after the code was written: its purpose, its verdict, what happened

verdictVars == <<comp, ready, setups, check, last>>

----------------------------------------------------------------------------
(* What the tests do (the runner, and the repository under test).          *)

Tests == {"ours", "sibling", "other"}   \* sibling: of the same file, or of the same name in it

(* How a test fails: its own assertion, with a message or without, another *)
(* exception of its body, or one that came out of a failed assertion       *)
(* ("chained"); an assertion of unittest's setUp, or any other error of a  *)
(* hook or fixture around it.                                              *)
Asserting == {"assert", "message", "chained", "setup"}
Failures == Asserting \cup {"throw", "fixture"}
Outcomes == Failures \cup {"pass", "skip", "absent"}
Worlds == [Tests -> Outcomes]

(* "interrupted" is pytest's exit 2 (the file could not be collected, or   *)
(* the session was stopped), "usage" its exits 3 and 4.                    *)
Faults == {"none", "killed", "silent", "unlaunched", "lost", "garbled", "exit", "interrupted", "usage"}

Present(w) == {t \in Tests : w[t] # "absent"}
With(w, kinds) == {t \in Present(w) : w[t] \in kinds}

(* Mocha and unittest name the exception that ended the test, so that a    *)
(* message or a chain makes no difference; only unittest tells a setUp by  *)
(* its assertion, and pytest runs unittest's cases.                        *)
Kinds(framework) ==
    Outcomes \ CASE framework = "pytest" -> {}
                 [] framework = "django-runtests" -> {"message", "chained"}
                 [] OTHER -> {"message", "chained", "setup"}

(* A selector names our file or our test.  Only a wrapper with globs of    *)
(* its own, or a pattern that is a regex, brings in another file, whose    *)
(* test may pass or fail.                                                  *)
Runnable(plan, w) ==
    /\ \A t \in Tests : w[t] \in Kinds(plan.framework)
    /\ w["other"] # "absent" => plan.framework # "pytest" /\ w["other"] \in {"pass", "assert", "fixture"}

(* What a fault leaves of a run.  Pytest's exit status is its own; that of *)
(* another runner may be overruled by a wrapper.                           *)
Possible(plan, fault) ==
    IF plan.framework = "pytest" THEN fault # "exit" ELSE fault \notin {"interrupted", "usage"}

Began(fault) == fault \notin {"killed", "silent", "unlaunched"}
ExitsZero(w, fault) == (With(w, Failures) = {}) # (fault = "exit")

(* What really happened to the tests that were asked for.                  *)
Targets == {"ours", "sibling"}
Saw(w) == {w[t] : t \in Targets} \ {"absent"}

----------------------------------------------------------------------------
(* interpretCheckExecution.                                                *)

Verdict(coarse, behavioral) == [coarse |-> coarse, behavioral |-> behavioral]
Error == Verdict("error", FALSE)
NoneSelected == Verdict("selected-none", FALSE)
Green == Verdict("green", FALSE)

(* A bug: whoever ran is taken for the test that was asked for.            *)
mochaMatches_Anyone(t) == TRUE

(* Rows are matched by file, and by title when a test is named.            *)
mochaMatches(t) == t \in Targets

(* A hook's failure is an event without a completed test; two tests of one *)
(* title have one identity; and the exit status must agree.                *)
mochaTrusted(plan, w, fault) ==
    /\ fault \notin {"lost", "garbled"}
    /\ With(w, {"fixture"}) = {}
    /\ (With(w, Failures) = {}) = ExitsZero(w, fault)
    /\ plan.named => /\ \A t \in Present(w) : mochaMatches(t)
                     /\ Cardinality(Present(w)) <= 1

mochaVerdict(plan, w, fault) ==
    LET rows == {t \in Present(w) : mochaMatches(t)}
        failed == {t \in rows : w[t] \in Failures}
    IN  IF ~mochaTrusted(plan, w, fault) THEN Error
        ELSE IF \A t \in rows : w[t] = "skip" THEN NoneSelected
        ELSE IF failed # {} THEN Verdict("red", \A t \in failed : w[t] = "assert")
        ELSE IF \E t \in rows : w[t] = "skip" THEN Error
        ELSE Green

(* unittest reports an assertion of setUp as FAIL as well, and any other   *)
(* exception, there or in the body, as ERROR; an unresolved label runs a   *)
(* test of another name.                                                   *)
djangoTrusted(plan, w, fault) ==
    /\ fault \notin {"lost", "garbled"}
    /\ With(w, Outcomes) \subseteq Targets
    /\ plan.named => Cardinality(Present(w)) = 1

(* The last traceback of every FAIL must pass through the test's own body. *)
djangoBody(w) == With(w, {"setup"}) = {}

djangoVerdict(plan, w, fault) ==
    IF ~djangoTrusted(plan, w, fault) THEN Error
    ELSE IF With(w, Outcomes \ {"skip"}) = {} THEN NoneSelected
    ELSE IF With(w, {"throw", "fixture"}) # {} THEN Error
    ELSE IF With(w, Failures) # {} /\ ~ExitsZero(w, fault) THEN Verdict("red", djangoBody(w))
    ELSE IF With(w, Outcomes \ {"pass"}) = {} /\ ExitsZero(w, fault) THEN Green
    ELSE Error

(* Pytest's text is counted, not read: the tests it calls failed, which    *)
(* are all but those whose fixture failed, and the lines that begin with   *)
(* "E  assert" or "E  AssertionError", of which an assertion with a message*)
(* prints two, and a chained exception one.  The counts must agree.        *)
assertionLines(w) == Cardinality(With(w, Asserting)) + Cardinality(With(w, {"message"}))

countsAssertions(w, fault) ==
    /\ fault \notin {"lost", "garbled"}
    /\ With(w, {"fixture"}) = {}
    /\ With(w, Failures) # {}
    /\ Cardinality(With(w, Failures)) = assertionLines(w)

(* Its exit status alone: 4 with "not found" and 5 say that nothing was    *)
(* selected.                                                               *)
pytestExit(w, fault) ==
    IF fault \in {"usage", "unlaunched"} THEN Error
    ELSE IF fault = "interrupted" THEN Verdict("red", countsAssertions(w, fault))
    ELSE IF Present(w) = {} THEN NoneSelected
    ELSE IF ExitsZero(w, fault) THEN Green
    ELSE Verdict("red", countsAssertions(w, fault))

(* Exit 0 needs a passing test in the summary.                             *)
pytestVerdict(w, fault) ==
    IF pytestExit(w, fault) = Green /\ (With(w, {"pass"}) = {} \/ fault = "lost") THEN NoneSelected
    ELSE pytestExit(w, fault)

(* The rest of interpretRunOutput: the exit status, and a phrase that says *)
(* that nothing was selected.                                              *)
exitVerdict(w, fault) ==
    IF Present(w) = {} /\ fault # "lost" THEN NoneSelected
    ELSE IF ExitsZero(w, fault) THEN Green ELSE Verdict("red", FALSE)

Launched(fault) == fault \notin {"killed", "silent", "unlaunched"}

interpretCheckExecution(plan, w, fault) ==
    IF ~Launched(fault) THEN Error
    ELSE CASE plan.framework = "mocha" -> mochaVerdict(plan, w, fault)
           [] plan.framework = "django-runtests" -> djangoVerdict(plan, w, fault)
           [] plan.framework = "pytest" -> pytestVerdict(w, fault)
           [] plan.framework = "generic" -> exitVerdict(w, fault)

(* A bug: a nonzero exit proves a regression.                              *)
provesBehavioralFailure_Red(plan, v) == v.coarse = "red"

provesBehavioralFailure(plan, v) ==
    v.coarse = "red" /\ plan.framework # "generic" /\ v.behavioral

(* A check of before plans were stored: what interpretRunOutput alone      *)
(* makes of an exit status: a failed launch (126) is red, but for pytest.  *)
runCheckForRed(plan, w, fault) ==
    IF fault \in {"killed", "silent"} THEN Error
    ELSE IF plan.framework = "pytest" THEN pytestExit(w, fault)
    ELSE IF fault = "unlaunched" THEN Verdict("red", FALSE)
    ELSE exitVerdict(w, fault)

----------------------------------------------------------------------------
(* Plans.                                                                  *)

NoStoredPlan == [framework |-> "none", launcher |-> "none", qualified |-> FALSE, named |-> FALSE]

(* The plan is what the component is now; it is stored with the check.     *)
resolveCheckExecution(named) ==
    [framework |-> comp.framework, launcher |-> comp.launcher, qualified |-> comp.qualified, named |-> named]

(* runCheckExecution refuses a plan that was made in a qualified           *)
(* environment unless the component still has the same one, and it         *)
(* qualifies again in this checkout.                                       *)
Executable(plan) ==
    /\ plan.qualified => comp.qualified
    /\ comp.qualified => /\ comp.launcher = plan.launcher /\ comp.framework = plan.framework
                         /\ ready

runCheckExecution(plan, w, fault) ==
    IF Executable(plan) THEN interpretCheckExecution(plan, w, fault) ELSE Error

(* An observed run: what was run for what, and what happened.              *)
Seen(plan, w, fault) ==
    [plan |-> plan, saw |-> Saw(w), alone |-> Present(w) \subseteq Targets,
     launched |-> Began(fault) /\ Executable(plan), env |-> comp.qualified /\ ready,
     interrupted |-> fault = "interrupted"]
Unseen ==
    [plan |-> NoStoredPlan, saw |-> {}, alone |-> FALSE, launched |-> FALSE, env |-> FALSE, interrupted |-> FALSE]

NoCheck == [exists |-> FALSE, result |-> "none", run |-> Unseen]
NoRun == [purpose |-> "none", verdict |-> "none", run |-> Unseen]

VerdictTypeOK ==
    /\ comp \in Components /\ ready \in BOOLEAN /\ setups \in 0..MaxSetups
    /\ check.exists \in BOOLEAN /\ check.result \in {"none", "green", "red", "error"}
    /\ last.purpose \in {"none", "gate", "bind"}
    /\ last.verdict \in {"none", "green", "red", "error", "binds", "does-not-bind", "unknown"}
    /\ {check.run.saw, last.run.saw} \subseteq SUBSET Outcomes

(* A ticket starts without a check, or is an older one whose check has no  *)
(* plan and was seen to fail by the version that made it.                  *)
VerdictInit ==
    /\ comp \in Components /\ ready \in BOOLEAN
    /\ setups = 0
    /\ check \in {NoCheck, [NoCheck EXCEPT !.exists = TRUE, !.result = "red"]}
    /\ last = NoRun

----------------------------------------------------------------------------
(* checks:dispatch runs what the author committed, before any code.  An    *)
(* answer that shows nothing is sent back: a selector that selects         *)
(* nothing, a report that cannot be trusted, a runner that was not         *)
(* launched, or one that was stopped and said nothing.                     *)

Shows(plan, v, fault) ==
    /\ v.coarse # "selected-none"
    /\ ~(v.coarse = "error" /\ plan.framework \in Reporting)
    /\ fault # "unlaunched" \/ ~Executable(plan)
    /\ ~(v.coarse = "error" /\ fault = "silent" /\ Executable(plan))

AuthorCheck ==
    /\ last = NoRun
    /\ ~check.exists
    /\ LET plan == resolveCheckExecution(TRUE)
       IN  \E w \in Worlds, fault \in Faults :
              /\ Runnable(plan, w) /\ Possible(plan, fault)
              /\ LET v == runCheckExecution(plan, w, fault)
                 IN  /\ Shows(plan, v, fault)
                     /\ check' = [exists |-> TRUE, result |-> v.coarse, run |-> Seen(plan, w, fault)]
    /\ UNCHANGED <<comp, ready, setups, last>>

(* checks:reauthor: the new check is run at the baseline of the first one, *)
(* under a plan of its own, and replaces the old one, plan and result in   *)
(* one transaction, if it fails there.                                     *)
ReauthorCheck ==
    /\ last = NoRun
    /\ check.exists
    /\ LET plan == resolveCheckExecution(TRUE)
       IN  \E w \in Worlds, fault \in Faults :
              /\ Runnable(plan, w) /\ Possible(plan, fault)
              /\ runCheckExecution(plan, w, fault).coarse = "red"
              /\ check' = [exists |-> TRUE, result |-> "red", run |-> Seen(plan, w, fault)]
    /\ UNCHANGED <<comp, ready, setups, last>>

(* The launcher and the selector of the RED-first run, or an error.  A     *)
(* check without a plan is run only where its old invocation is the only   *)
(* one there could be.                                                     *)
GatePlan_Resolved(plan) == resolveCheckExecution(TRUE)      \* a bug: rebuilt from the component
GatePlan(plan) == IF plan = NoStoredPlan THEN resolveCheckExecution(TRUE) ELSE plan

LegacyRefused == comp.qualified \/ comp.dir \/ comp.framework \in Reporting

(* verify:checks-gate on the code; a check that was green from the start   *)
(* is settled and not run.  The verdict of a run depends on no earlier run *)
(* but the first, so the model follows one at a time.                      *)
Gate ==
    /\ last = NoRun
    /\ check.exists /\ check.result # "green"
    /\ LET legacy == check.run.plan = NoStoredPlan
           plan == GatePlan(check.run.plan)
       IN  \E w \in Worlds, fault \in Faults :
              /\ Runnable(plan, w) /\ Possible(plan, fault)
              /\ LET v == IF ~legacy THEN runCheckExecution(plan, w, fault)
                          ELSE IF LegacyRefused THEN Error ELSE runCheckForRed(plan, w, fault)
                 IN  last' = [purpose |-> "gate",
                              verdict |-> IF v.coarse = "selected-none" THEN "error" ELSE v.coarse,
                              run |-> Seen(plan, w, fault)]
    /\ UNCHANGED <<comp, ready, setups, check>>

(* behavioral-test-presence: a test file that the code came with is laid   *)
(* over the baseline and run there as a whole.                             *)
Bind ==
    /\ last = NoRun
    /\ LET plan == resolveCheckExecution(FALSE)
       IN  \E w \in Worlds, fault \in Faults :
              /\ Runnable(plan, w) /\ Possible(plan, fault)
              /\ LET v == runCheckExecution(plan, w, fault)
                 IN  last' = [purpose |-> "bind",
                              verdict |-> IF provesBehavioralFailure(plan, v) THEN "binds"
                                          ELSE IF v.coarse = "green" THEN "does-not-bind" ELSE "unknown",
                              run |-> Seen(plan, w, fault)]
    /\ UNCHANGED <<comp, ready, setups, check>>

(* The operator runs `styre setup` between two processes; dependencies     *)
(* break or are provisioned.                                               *)
Setup ==
    /\ setups < MaxSetups /\ setups' = setups + 1
    /\ comp' \in Components \ {comp}
    /\ UNCHANGED <<ready, check, last>>

Drift == ready' = ~ready /\ UNCHANGED <<comp, setups, check, last>>

VerdictNext == AuthorCheck \/ ReauthorCheck \/ Gate \/ Bind \/ Setup \/ Drift

VerdictSpec == VerdictInit /\ [][VerdictNext]_verdictVars

----------------------------------------------------------------------------
(* "Another file/title (or a hook failure) cannot stand in for evidence    *)
(* about ours" (check-execution.ts): under mocha and the Django runner a   *)
(* green gate means that the one test of that name ran, alone, and passed; *)
(* under pytest that some test of that name passed and none failed.        *)
GreenIsOurs ==
    last.purpose = "gate" /\ last.verdict = "green" /\ check.run.plan # NoStoredPlan =>
        /\ last.run.plan.framework \in Reporting => last.run.saw = {"pass"} /\ last.run.alone
        /\ last.run.plan.framework = "pytest" => "pass" \in last.run.saw /\ last.run.saw \cap Failures = {}

(* A delivered file is said to bind only if it ran at the baseline and a   *)
(* test of its own failed there: under mocha and the Django runner each    *)
(* failure by the test's own assertion; under pytest, where the lines are  *)
(* counted, no failure in a fixture and some assertion that failed.  It is *)
(* said not to bind only if it ran and passed.  Everything else is         *)
(* "unknown".                                                              *)
BindsByAssertion ==
    /\ last.verdict = "binds" =>
          /\ last.run.launched
          /\ last.run.plan.framework \in Reporting => last.run.saw \cap Failures = {"assert"}
          /\ last.run.plan.framework = "pytest" => last.run.saw \cap Asserting # {} /\ "fixture" \notin last.run.saw
    /\ last.verdict = "does-not-bind" /\ last.run.plan.framework # "generic" =>
          "pass" \in last.run.saw /\ last.run.saw \cap Failures = {} /\ last.run.launched

(* The code does not promise this: that under pytest, too, a file binds by *)
(* assertions of its tests and nothing else.  An assertion of setUp and an *)
(* exception out of a failed assertion have a line as well, and the second *)
(* line of an assertion with a message pays for a test that threw.         *)
BindsByItsOwn ==
    last.verdict = "binds" => last.run.saw \cap Failures \subseteq {"assert", "message"}

(* RED then GREEN is one experiment: "never reconstruct a selector under a *)
(* different cwd or launcher" (check-execution.ts).  When a check that was *)
(* seen to fail is green at the gate, both runs were of the same plan; one *)
(* made in a qualified environment ran in a qualified one both times (one  *)
(* made without may be answered by a qualified run); and the test itself   *)
(* failed before it passed, unless pytest could not collect it or was      *)
(* interrupted, which is red as well.                                      *)
RedThenGreen ==
    last.purpose = "gate" /\ last.verdict = "green" /\ check.result = "red" /\ check.run.plan # NoStoredPlan =>
        /\ last.run.plan = check.run.plan
        /\ check.run.plan.qualified => check.run.env /\ last.run.env
        /\ \/ last.run.plan.framework = "generic"
           \/ check.run.saw \cap Failures # {}
           \/ last.run.plan.framework = "pytest" /\ check.run.interrupted

(* The code does not promise these: that the environment of both runs was  *)
(* qualified or that of neither, and that a test failed at all.            *)
SameEnvironment ==
    last.purpose = "gate" /\ last.verdict = "green" /\ check.result = "red" /\ check.run.plan # NoStoredPlan =>
        last.run.env = check.run.env
RedWasAFailure ==
    check.result = "red" /\ check.run.plan.framework = "pytest" => check.run.saw \cap Failures # {}

(* A criterion is never covered by a check whose runner did not start (exit *)
(* 126 or 127), nor does such a run ever count as RED; only a refused plan *)
(* or a run that was stopped while it talked may be kept, as an error.     *)
NeverRanNeverRed == check.exists /\ check.run.plan # NoStoredPlan /\ ~check.run.launched => check.result = "error"
=============================================================================
