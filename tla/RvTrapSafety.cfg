\* Timer and PLIC together, both PLIC contexts; handlers and program call klib's
\* lock; the registered external handler changes.
CONSTANTS
  Src = {irq1, irq2}
  Contexts = {"M", "S"}
  TimerOn = TRUE
  Inc = 2
  MaxLag = 2
  ExtHandlers = {"claim", "ignore", "none"}
  KlibLock = TRUE
SPECIFICATION Spec
INVARIANTS VectorsReady MaskedRecoverable ClaimFinds
PROPERTY DeliverySpec
