\* The external interrupt with a second-level handler that only prints.
CONSTANTS
  Src = {irq1}
  Contexts = {"M"}
  TimerOn = FALSE
  Inc = 2
  MaxLag = 0
  ExtHandlers = {"ignore"}
  KlibLock = FALSE
SPECIFICATION FairSpec
PROPERTY HandlerClears
