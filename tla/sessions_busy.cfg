SPECIFICATION Spec
CONSTANTS
  Client = {c1, c2}
  Login = {l1, l2}
  Pass = {p1}
  Patient = FALSE
  MaxToken = 1
  MaxBacklog = 2
  MaxHooks = 1
SYMMETRY Symmetry
INVARIANTS TypeOK
PROPERTIES LogOutsAreOwn
