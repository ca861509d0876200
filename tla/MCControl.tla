------------------------------ MODULE MCControl ------------------------------
\* Instances of the control plane for TLC.
EXTENDS Control, TLC

\* The operations of the requests 2, 3, 4 and 5.
Plan(a, b, c, d) == 2 :> a @@ 3 :> b @@ 4 :> c @@ 5 :> d

\* A change that names the bundle, its removal, a new bundle, its deletion.
CertPlan == {Plan("put", "clear", "cert", "none")}
DeletePlan == {Plan("put", "clear", "none", "uncert")}
\* ... the module, and the requests that change nothing.
ScriptPlan == {Plan("put", "script", "unscript", "none")}
ReadPlan == {Plan("restart", "listcert", "all", "cert")}
AllPlans == CertPlan \cup DeletePlan \cup ScriptPlan \cup ReadPlan

\* The request 5 stores what the state directory had before.
Bodies == [r \in Requests |-> IF r = 5 THEN 1 ELSE r]
FileUsers == [f \in Files |-> IF f = "cert" THEN {1, 2} ELSE {2}]
CertUsers == [f \in Files |-> IF f = "cert" THEN {1, 2} ELSE {}]

=============================================================================
