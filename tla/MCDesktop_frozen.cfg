CONSTANTS
  MaxPresses = 2
  Items <- OneMenu
  Span <- Under
  MaxInputs = 4

SPECIFICATION DesktopSpec

INVARIANT MenuReadded
