SPECIFICATION FairSpec
CONSTANTS
  Addr <- MCAddr
  Val = {0, 1}
  Slot = {0, 1}
  Hash <- MCHash
  Inst <- ProgRepeat
  Handlers = {"read"}
  InitMem <- MCMem
  FrmVal = {0}
  Period = 2
  RepeatDiv = 1
  MaxInst = 5
  Jump = Jump
  Hole = Hole
  ScResult = {TRUE}
CHECK_DEADLOCK FALSE
INVARIANTS RerunFindsBreak RecordInv ReplayInv
PROPERTIES ReplayEnds
