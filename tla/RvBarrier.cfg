\* Three harts, so that one can leave while another waits and the third enters
\* again; four barriers, so that sense and count go through two full periods; two
\* additions each, so that a hart can add between those of another.
CONSTANTS
  Hart = {h1, h2, h3}
  MaxRounds = 4
  BootHart = h1
  Adds = 2
SPECIFICATION MpFairSpec
INVARIANTS CloserIsAlone PrintExclusive SumsAreFinal
PROPERTIES BarrierContract MpEnds
