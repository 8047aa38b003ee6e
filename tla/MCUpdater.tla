---- MODULE MCUpdater ----
(* Updater for TLC: three commits, the last of which changes the CI. *)
EXTENDS Updater

CONSTANT e1

OneEngine == {e1}
LastTouchesCi == {3}
====
