SPECIFICATION FairSpec
CONSTANTS
  Addr <- MCAddr
  Val = {0, 1}
  Slot = {0, 1}
  Hash <- MCHash
  Inst <- ProgCalls
  Handlers = {"read", "exit"}
  InitMem <- MCMem
  FrmVal = {0}
  Period = 1
  RepeatDiv = 1
  MaxInst = 5
  Jump = Jump
  Hole = Hole
  ScResult = {TRUE}
CHECK_DEADLOCK FALSE
INVARIANTS TypeOK ReplayFaithful ReplayStopsAtBreak StoreAssertionsHold LogWellFormed
PROPERTIES Concatenates
