SPECIFICATION FairSpec
CONSTANTS
  Addr <- MCAddr
  Val = {0, 1}
  Slot = {0, 1}
  Hash <- MCHash
  Inst <- ProgOwnCode
  Handlers = {}
  InitMem <- MCMem
  FrmVal = {0}
  Period = 1
  RepeatDiv = 1
  MaxInst = 5
  Jump = Jump
  Hole = Hole
  ScResult = {TRUE}
INVARIANTS ReplayFaithful
CHECK_DEADLOCK FALSE
