SPECIFICATION MCSpec
CONSTANTS
  root = root
  u1 = u1
  e1 = e1
  e2 = e2
  t1 = t1
  Users <- MCUsers
  Root <- root
  Editors <- MCEditors
  Tokens <- MCTokens
  Forms <- MCForms
  Idles <- MCIdles
  MaxAttempts = 1
  Window = 0
  BlockFor = 2
  MaxClock = 2
INVARIANTS AccessInv
PROPERTIES DeadStaysDead
SYMMETRY Symmetry
\* Nothing is followed up after two forms raced.
CHECK_DEADLOCK FALSE
