---------------------------- MODULE MCCheckVerdict ----------------------------
EXTENDS CheckVerdict
Comp(framework, launcher, qualified, dir) ==
    [framework |-> framework, launcher |-> launcher, qualified |-> qualified, dir |-> dir]
MCComponents ==
    {Comp("mocha", "plain", TRUE, FALSE), Comp("mocha", "wrapped", TRUE, FALSE),
     Comp("django-runtests", "plain", FALSE, FALSE), Comp("pytest", "plain", TRUE, FALSE),
     Comp("pytest", "plain", FALSE, FALSE), Comp("generic", "wrapped", FALSE, FALSE),
     Comp("generic", "wrapped", FALSE, TRUE)}
=============================================================================
