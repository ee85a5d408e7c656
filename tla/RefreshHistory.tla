---------------------------- MODULE RefreshHistory ----------------------------
(* Freshness with a history of the refresh that is asked for.              *)
EXTENDS MCFreshness

VARIABLE asked  \* what was current and on disk when it was requested

HistoryInit == Init /\ asked = [generation |-> 0, disk |-> disk]

HistoryNext ==
  /\ Next
  /\ asked' = IF RequestRefresh THEN [generation |-> current, disk |-> disk]
                                ELSE asked

HistorySpec == HistoryInit /\ [][HistoryNext]_<<vars, asked>>

(* workspace-freshness: a refresh that completes "reports the new project  *)
(* revision": it ends ready only with a newer generation, one that has     *)
(* everything saved before the refresh was requested.                      *)
RefreshCompletes ==
  [][(phase = "reconciling" /\ phase' = "idle" /\ state' = "ready")
       => /\ current' > asked.generation
          /\ \A f \in Files : manifest'[f] >= asked.disk[f]]_vars
===============================================================================
