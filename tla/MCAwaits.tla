---- MODULE MCAwaits ----
(* AwaitGraph for TLC: three agents that can close a ring of two or three, and
   an operator who asks one of them. *)
EXTENDS AwaitGraph

CONSTANTS a1, a2, a3, h1, h2, h3, operator

ThreeAgents == {a1, a2, a3}
ThreeCalls == {h1, h2, h3}
OneLook == {h3}
Rings == {<<h1, a1, a2>>, <<h2, a2, a3>>, <<h2, a1, a3>>, <<h3, a3, a1>>,
          <<h2, operator, a2>>}
====
