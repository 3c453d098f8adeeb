----------------------------- MODULE MCFirstBoot -----------------------------
(* A run that is cut short, a run by hand and a retry, in any order.       *)
EXTENDS FirstBoot
=============================================================================
