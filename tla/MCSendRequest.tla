--------------------------- MODULE MCSendRequest ---------------------------
(***************************************************************************)
(* Small instances of SendRequest: two blocks, three requests of which two *)
(* wait for the same report, so that pool, list order and matching matter. *)
(***************************************************************************)
EXTENDS SendRequest

Report(n, k) == [node |-> n, kind |-> k, scheme |-> "S0"]
\* Two requests for the same report of node 1, and one for another of node 2.
ThreeTargets == <<Report(1, "version"), Report(1, "version"), Report(2, "version")>>
TwoTargets == <<Report(1, "version"), Report(1, "wakeup")>>
============================================================================
