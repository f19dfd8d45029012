CONSTANTS
  Tasks = {t1}
  Runs = {r1, r2}
  Keys = {k1, k2}
  Users = {u1}
  Threads = {th1}
  Turns = {tn1}
  Cards = {c1, c2}
  None = None
  MaxStarts = 2
  Env = {"crash", "loss", "restart", "store", "card", "project", "attach", "shutdown"}
SPECIFICATION Spec
SYMMETRY MCSymmetry
INVARIANT LossFailsEveryRun
PROPERTY ImplementsStore
CHECK_DEADLOCK FALSE
