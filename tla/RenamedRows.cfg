\* What a rename that is refused does to the rows of a table node.
SPECIFICATION Spec
CONSTANTS
  t1 = t1 t2 = t2 t3 = t3 c1 = c1 a1 = a1 a2 = a2 v1 = v1 v2 = v2
  x = x y = y z = z bx = bx ax = ax vx = vx vy = vy
  None = None
  Tables = {t1, t2, t3}
  Agents = {a1, a2}
  Vaults = {v1, v2}
  Plain = {c1}
  Names = {x, y, z, ax, bx, vx, vy}
  NamesOf <- NamesApart
  RowKeys = {1}
  Keys = {"session", "token"}
  Histories <- TablesOrVaults
  Crashes = FALSE
SYMMETRY TableSymmetry
INVARIANT RowsFollowTheNode
