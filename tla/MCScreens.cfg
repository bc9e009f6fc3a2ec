SPECIFICATION ScreensSpec
CONSTANTS
  amy = amy
  bob = bob
  sue = sue
  Tabs = {tablet}
  Users = {amy, bob, sue}
  Role <- MCRole
  Codes = {c1, c2}
  Visits = {c1, c2}
  Reservations = {i1}
  Contents = {c1, c2, i1}
  Owner <- MCOwner
  Slots = {k1, k2}
  Nobody = Nil
  Nil = Nil
SYMMETRY Symmetry
CONSTRAINT Bound
INVARIANTS
  TypeOK
  PagesFitTheUser
  CodesStayWithTheirMember
  PanelTellsTheTruth
  OneScanAtATime
