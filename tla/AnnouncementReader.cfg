SPECIFICATION ReaderSpec
CONSTANTS
  Slots = {s1, s2}
  None = None
  Notes = {n1}
  Important = {n1}
  Timed = {n1}
  ReaderSteps = 3
INVARIANTS ReaderIsSound
PROPERTIES ReadBeforeAck ReaderKeepsUp
CHECK_DEADLOCK FALSE
