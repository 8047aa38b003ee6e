---- MODULE MCBoard ----
(* BoardStore for TLC: two tables and a plain node that want the same names, or
   two vaults and an agent that reads them; the ids of the other half are spent
   on nodes that are gone. *)
EXTENDS BoardStore, TLC

CONSTANTS t1, t2, t3, c1, a1, a2, v1, v2, x, y, z, ax, bx, vx, vy

NamesApart == [n \in {t1, t2, t3, c1} |-> {x, y, z}] @@ (a1 :> {ax}) @@ (a2 :> {bx}) @@ (v1 :> {vx}) @@ (v2 :> {vy})
TablesOrVaults == {{t1, t2, t3, c1}, {a1, a2, v1, v2}}
TableSymmetry ==
  Permutations({t1, t2, t3}) \cup Permutations({x, y, z})
====
