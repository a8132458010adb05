CONSTANTS
  Calls = {c1, c2}
  Accessors = {a1, a2}
  Roles = {r1, r2, r3}
  Logins = {l1, l2}
  RoleNames = {n1, n2}
SPECIFICATION Spec
SYMMETRY Symmetry
INVARIANTS TypeOK TablesAreSound
PROPERTIES ConfirmedWhenAlone
