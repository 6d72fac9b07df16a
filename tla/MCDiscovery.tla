----------------------------- MODULE MCDiscovery -----------------------------
(* Discovery for TLC: the bodies b1 and b2 of a scrape config differ in the   *)
(* regex of a relabel config only, so that they find the same addresses, keep *)
(* different ones and have one hash; the CRs may define a job of the file.    *)
EXTENDS Discovery

Job(j, b) == [k \in {j} |-> b]
MCFileConfigs == {Job("j1", "b1"), Job("j1", "b2"), Broken}
MCCRConfigs == {NoJobs, Job("j2", "b3"), Job("j1", "b2")}
MCBodies == {"b1", "b2", "b3"}
MCHashOf == [b \in MCBodies |-> IF b = "b3" THEN "h2" ELSE "h1"]
MCFound == [b \in MCBodies |-> IF b = "b3" THEN {"a1"} ELSE {"a1", "a2"}]
MCKeeps == [b \in MCBodies |-> IF b = "b2" THEN {"a2"} ELSE {"a1"}]

=============================================================================
