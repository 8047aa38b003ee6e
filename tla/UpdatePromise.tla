---- MODULE UpdatePromise ----
(***************************************************************************)
(* What the self-updater promises of the installed daemon, whatever fails: *)
(* one build at a time is on trial; outside a trial the daemon that boots  *)
(* is one that has answered for itself, and a trial that ends leaves such  *)
(* a daemon behind, the candidate or an earlier one.  It promises nothing  *)
(* once an update has overtaken a trial, until that has come to rest.      *)
(***************************************************************************)
CONSTANTS Versions, First, None

VARIABLES
  current,    \* the build that boots when no trial is open
  candidate,  \* the build on trial, or None
  proven,     \* the builds that answered their own health check
  overtaken   \* an update was installed over an open trial

promiseVars == <<current, candidate, proven, overtaken>>

Init == current = First /\ candidate = None /\ proven = {First} /\ ~overtaken

\* An update is installed over a build that has nothing left to prove.
Try(v) ==
  /\ candidate = None
  /\ candidate' = v
  /\ UNCHANGED <<current, proven>>

Prove ==
  /\ candidate # None
  /\ proven' = proven \cup {candidate}
  /\ UNCHANGED <<current, candidate>>

\* Kept, rolled back, interrupted: a proven build boots from here on.
End ==
  /\ candidate' = None
  /\ current' \in proven
  /\ UNCHANGED proven

InTurn ==
  /\ ~overtaken /\ UNCHANGED overtaken
  /\ (\E v \in Versions : Try(v)) \/ Prove \/ End

\* An update is installed before the last one has proved itself: only here.
Overtake(v) == candidate' = v /\ overtaken' /\ UNCHANGED proven

Unsettled == overtaken /\ overtaken' /\ proven \subseteq proven'

\* It comes to rest as a trial does.
Recover == overtaken /\ ~overtaken' /\ End

Next == InTurn \/ (\E v \in Versions : Overtake(v)) \/ Unsettled \/ Recover

Spec == Init /\ [][Next]_promiseVars
====
