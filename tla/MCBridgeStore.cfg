CONSTANTS
  Tasks = {t1, t2}
  Runs = {r1, r2}
  Keys = {k1, k2, k3}
  Users = {u1, u2}
  Threads = {th1, th2}
  Turns = {tn1}
  Cards = {c1}
  None = None
SPECIFICATION Spec
SYMMETRY MCSymmetry
INVARIANTS
  TypeOK
  OneActiveRunPerTask
  TaskMirrorsActiveRun
  EventOpenIffRunActive
  ActiveRunOnTaskThread
  ActiveRunsAreOfEnabledUsers
  OwedIffActive
PROPERTIES
  ThreadNeverLost
  ImplementsLifecycle
