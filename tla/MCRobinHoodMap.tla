--------------------------- MODULE MCRobinHoodMap ---------------------------
(***************************************************************************)
(* Five keys for a table of two buckets that grows to four and to eight:   *)
(* k1 and k2 have the same home in every table, k3 shares it in the tables *)
(* up to four, k4 is at home in the last bucket of four.                   *)
(***************************************************************************)
EXTENDS RobinHoodMap

CONSTANTS k1, k2, k3, k4, k5, v1, v2

MCHash == [k \in Keys |-> CASE k = k1 -> 3 [] k = k2 -> 3 [] k = k3 -> 7 [] k = k4 -> 6 [] k = k5 -> 8]
=============================================================================
