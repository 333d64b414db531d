\* A tick that machine mode passes on while another supervisor interrupt is handled.
CONSTANTS
  Src = {irq1}
  Contexts = {"M"}
  TimerOn = TRUE
  Inc = 2
  MaxLag = 0
  ExtHandlers = {"claim"}
  KlibLock = FALSE
SPECIFICATION Spec
PROPERTY TickIsHandled
