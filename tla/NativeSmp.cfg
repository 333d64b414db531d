\* Two processors run the same space.
CONSTANTS
  Cpu = {cpu0, cpu1}
  Space = {s1}
  Va = {v1}
  Pa = {p1}
  MaxNodes = 1
  Remap = FALSE
  Nil = Nil
SPECIFICATION Spec
INVARIANT NoStale
