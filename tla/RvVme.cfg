\* Three kinds of programs.  One uses the page tables in any order: the kernel's tables
\* take four pages and two spaces with a user page three each, so that both can have one;
\* with the second user page, a later kernel page or huge pages the pool runs dry sooner.
\* One in machine mode uses PMP in any order, with registers in both configuration words.
\* The others are the tests of amtest.
CONSTANTS
  Idx <- MCIdx
  User = {u1, u2}
  Kas = kas
  NoSpace = NoSpace
  Fault = Fault
  Junk = Junk
  KernelVa <- MCKernelVa
  ExtraVa <- MCExtraVa
  HugeVa <- MCHugeVa
  UserVa <- MCUserVa
  Pa = {p1, p2}
  MaxTables = 10
  Width = 30
  Use = {0, 1, 2, 7, 8}
  Region <- MCRegion
  Probe <- MCAllProbe
  NoRequest = NoRequest
  Page <- MCPage
  Faults = 2
CHECK_DEADLOCK FALSE
SPECIFICATION MemSpec
INVARIANTS MemTypeOK KernelStays RequestsHold ChecksPass FaultsAreSeen
PROPERTY SpacesSpec
