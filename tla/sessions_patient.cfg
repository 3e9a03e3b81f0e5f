SPECIFICATION FairSpec
CONSTANTS
  Client = {c1, c2}
  Login = {l1}
  Pass = {p1, p2}
  Patient = TRUE
  MaxToken = 2
  MaxBacklog = 2
  MaxHooks = 1
INVARIANTS SessionsAgree
PROPERTIES LogOutTakesEffect
