----------------------------- MODULE MCTransfer -----------------------------
(* Two migrations of pods with the same container name: one in Direct mode  *)
(* from n1 to n2, one by the registry from n2 to n1.  The second finds an   *)
(* agent on its source node, or falls back to the Job while that agent is   *)
(* down.                                                                    *)
EXTENDS Transfer

CONSTANTS posted, pushed, n1, n2, p1, p2, app

Source == [g \in Migs |-> IF g = posted THEN n1 ELSE n2]
Dest   == [g \in Migs |-> IF g = posted THEN n2 ELSE n1]
PodOf  == [g \in Migs |-> IF g = posted THEN p1 ELSE p2]
AppOf  == [g \in Migs |-> app]
=============================================================================
