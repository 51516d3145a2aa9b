CONSTANTS
  Ops = {o1, o2}
  IdemOps = {o1}
  MaxLength = 3
SPECIFICATION JournalSpec
INVARIANT AllAcksSurvive
CHECK_DEADLOCK FALSE
