SPECIFICATION TournamentSpec
CONSTANTS
  Requests = {r1}
  Enrolled = {e1, e2}
  Users = {u1, u2, u3}
  Teams = {t1}
  e1 = e1
  u1 = u1
  u2 = u2
  u3 = u3
  t1 = t1
  Nil = Nil
  Leader <- MCLeader
  Entry0 <- MCEntry0
  Scores = {0, 1}
  Ops = {"Draw"}
CHECK_DEADLOCK FALSE
INVARIANT DrawnPairsHaveMatches
