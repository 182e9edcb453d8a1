------------------------------ MODULE MCBrowser -------------------------------
(* TLC instance of Browser: a periodic job and its child, which has two    *)
(* versions, and enough of the rest for every page and link.               *)
EXTENDS Browser, TLC

CONSTANTS j1, j2, n1, n2, a1, e1, e2, d1, m1, h1, s1, x1

MCJobOf == (a1 :> j2) @@ (e1 :> j2) @@ (e2 :> j2) @@ (d1 :> j2)
MCNodeOf == a1 :> n1
MCRelated == (e1 :> {e2}) @@ (e2 :> {e1})
MCParentOf == (j1 :> None) @@ (j2 :> j1)
MCLatest == (j1 :> 1) @@ (j2 :> 2)
MCVersionOf == a1 :> 1
MCKnown == {Page("cluster"), Page("services"), Page("nomad"), Page("consul"),
            Item("client", n2, "info"), Item("evaluation", e1, "info"),
            Address("job", j2, "info", 1)}
MCLooseKnown == {Page("jobs"), Item("job", j2, "info"),
                 Address("job", j2, "info", 1)}
=============================================================================
