CONSTANTS
  MaxPresses = 1

SPECIFICATION Spec

INVARIANT ClicksBounded
