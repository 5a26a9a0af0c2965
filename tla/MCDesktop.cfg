CONSTANTS
  MaxPresses = 2
  Items <- OneMenu
  Span <- Under
  MaxInputs = 4

SPECIFICATION DesktopSpec

INVARIANTS ReleasesBounded EachCounted MenuServed ChoiceShown DesktopListens
PROPERTIES NoneLost WaitEnds Served
