\* One processor; a space holds each page at most once, as callers that never
\* map a page twice leave it.  Three nodes give one space two pages and the other one.
\* Below traps, two processes, a kernel thread and the boot thread, whose handlers
\* trap once more, and one page in one of the spaces.
\* Devices: an audio ring of three units, which wraps in the middle of a copy of two, with
\* players that ask for less than a write and for all of the ring; a key queue of three
\* slots, overrun by the third unread event, perhaps twice; two keys on the serial line, so
\* that a third character can be the first or the second again.
CONSTANTS
  Cpu = {cpu0}
  Space = {s1, s2}
  Va = {v1, v2}
  Pa = {p1, p2}
  MaxNodes = 3
  Remap = FALSE
  Nil = Nil
  Boot = boot
  KThread = {k1}
  CteVa = {v1}
  CteNodes = 1
  MaxDepth = 2
  Native = {TRUE, FALSE}
  Size = 3
  Chunk = {2}
  PlayLen = {1, 3}
  Total = 5
  Polls = {TRUE, FALSE}
  Touched = {TRUE, FALSE}
  QueueLen = 3
  MaxEvents = 8
  Key = {j, k}
  Other = {newline}
  High = {umlaut}
  None = None
  Timeout = 1
  FifoLen = 2
  MaxTyped = 4
SPECIFICATION MCSpec
INVARIANTS PortTypeOK NoStale Enforced RunsAtHome UserIsWalled CountInRange PlaysInOrder NoKeyLost
PROPERTIES SpacesSpec OpReturns TrapReturns TestEnds QueueSpec  KeysComeUp
