\* Replies of up to three blocks with up to two pieces of text each.
SPECIFICATION Spec
CONSTANTS
  MaxBlocks = 3
  MaxPieces = 2
INVARIANTS TypeOK StreamAgreesWithSend EventsTellResponse FinalEvent CutIsVisible
CHECK_DEADLOCK FALSE
