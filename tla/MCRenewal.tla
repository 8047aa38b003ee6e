---- MODULE MCRenewal ----
(* LoginRenewal for TLC: one reader and one fired timer. *)
EXTENDS LoginRenewal

CONSTANTS a1, t1

OneAgent == {a1}
OneTimer == {t1}
EveryLife == {"fresh", "near"}
EveryFault == {"hangup", "restart", "unclear", "refused", "outage", "delete", "pause"}
====
