\* The external interrupt test: timer off, do_ext_intr registered, two rounds a stage.
CONSTANTS
  Src = {irq1, irq2}
  Contexts = {"M", "S"}
  TimerOn = FALSE
  Inc = 2
  MaxLag = 0
  ExtHandlers = {"claim"}
  KlibLock = FALSE
  Iter = 2
  NoClaim = NoClaim
CHECK_DEADLOCK FALSE  \* the test ends
SPECIFICATION TestFairSpec
INVARIANTS NoCheckFails RoundsAreClean
PROPERTIES Delivered MaskingEnds ProgramResumes TestPasses
