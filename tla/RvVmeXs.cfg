\* Segments and user area as riscv64-xs has them, under one root entry.
CONSTANTS
  Idx = {0, 1}
  User = {u1, u2}
  Kas = kas
  NoSpace = NoSpace
  Fault = Fault
  Junk = Junk
  KernelVa <- XsKernelVa
  ExtraVa = {}
  HugeVa = {}
  UserVa <- XsUserVa
  Pa = {p1}
  MaxTables = 9
CHECK_DEADLOCK FALSE
SPECIFICATION Spec
PROPERTY MapIsLocal
