CONSTANTS
  Lengths = {0, 1, 2, 4}
  Wrap = 5
  MaxPlays = 2

SPECIFICATION FairSpec

INVARIANTS InSync InsideClip VectorRestored
PROPERTIES HeardInOrder SwitchedOff

CHECK_DEADLOCK FALSE
