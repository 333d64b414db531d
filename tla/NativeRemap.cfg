\* A page of a space is mapped again.
CONSTANTS
  Cpu = {cpu0}
  Space = {s1}
  Va = {v1, v2}
  Pa = {p1, p2}
  MaxNodes = 3
  Remap = TRUE
  Nil = Nil
SPECIFICATION FairSpec
PROPERTY OpReturns
