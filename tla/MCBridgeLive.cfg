CONSTANTS
  Tasks = {t1}
  Runs = {r1}
  Keys = {k1, k2}
  Users = {u1}
  Threads = {th1}
  Turns = {tn1}
  Cards = {c1}
  None = None
  MaxStarts = 1
  Env = {"stop", "steer", "call", "loss", "shutdown"}
SPECIFICATION FairSpec

INVARIANTS
  TypeOK
  InterruptedAtMostOnce
PROPERTIES
  StopEndsRun
  EndedTurnIsRecorded
  LossEndsProcess
CHECK_DEADLOCK FALSE
