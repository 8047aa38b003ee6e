---- MODULE MCHost ----
(* HostLifecycle for TLC: one project and two requests, one of which may be
   anything and the other starts or stops. *)
EXTENDS HostLifecycle

CONSTANTS p1, r1, r2

OneProject == {p1}
TwoRequests == {r1, r2}
AnyBesideAStart == ({r1} \X Ops) \cup ({r2} \X {"start", "stop"})
====
