SPECIFICATION Spec
CONSTANTS
  n1 = n1
  a = a
  u1 = u1
  u2 = u2
  foot = foot
  m1 = m1
  m2 = m2
  c1 = c1
  c2 = c2
  None = None
  Notice = {n1}
  Family = {a}
  Url = {u1, u2, foot}
  Message = {m1, m2}
  Connection = {c1, c2}
  Families <- MCFamilies
  Names <- MCNames
  Boilerplate = {foot}
  To <- MCTo
  Text <- MCText
  Html <- MCHtml
  HasId = {m1}
  MaxLinks = 2
  MaxDeliveries = 2
  MaxFailures = 1
SYMMETRY Symmetry
CHECK_DEADLOCK FALSE
INVARIANTS TypeOK OneWorkspace TeamDecides OneWatch EveryLinkOpened
PROPERTY TakesEffectAtOnce
