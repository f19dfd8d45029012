CONSTANTS
  Tasks = {t1}
  Runs = {r1, r2}
  Keys = {k1, k2}
  Users = {u1}
  Threads = {th1}
  Turns = {tn1, tn2}
  Cards = {c1}
  None = None
  MaxStarts = 1
  Env = {"steer", "call"}
SPECIFICATION Spec
SYMMETRY MCSymmetry
INVARIANT OwnTurnIsRecorded
CHECK_DEADLOCK FALSE
