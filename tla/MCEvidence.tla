------------------------------ MODULE MCEvidence ------------------------------
EXTENDS Evidence
Command(comp, kind, cmd, structured) ==
    [comp |-> comp, kind |-> kind, cmd |-> cmd, structured |-> structured]
MCProfiles ==
    {[jobs |-> <<Command("web", "build", 1, FALSE), Command("web", "test", 2, TRUE)>>,
      unavailable |-> {}, required |-> {"web"}],
     [jobs |-> <<Command("web", "test", 3, TRUE), Command("repo", "repo", 4, FALSE)>>,
      unavailable |-> {}, required |-> {"web"}],
     [jobs |-> <<Command("web", "build", 1, FALSE)>>, unavailable |-> {"web"}, required |-> {}]}
MCDiffs == {{"web"}, {"inert"}, {"unowned"}}
=============================================================================
