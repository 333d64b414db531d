\* Machine mode enables regions and disables them again.
CONSTANTS
  Width = 6
  Use = {1, 2}
  Region <- MCRegion
  Probe <- MCProbe
  NoRequest = NoRequest
SPECIFICATION PmpSpec
INVARIANT RequestsHold
