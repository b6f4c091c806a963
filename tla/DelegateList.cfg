SPECIFICATION ListSpec
CONSTANTS
  d1 = d1
  d2 = d2
  d3 = d3
  d4 = d4
  d5 = d5
  d6 = d6
  Delegate = {d1, d2, d3, d4, d5, d6}
  Key <- MCKey
  Votes = {0, 1}
  Slots = 5
  Byte = {0, 1, 3, 255}
INVARIANTS
  ListIsElected
  OneSlotEach
CHECK_DEADLOCK FALSE
