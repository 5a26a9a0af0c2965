CONSTANTS
  MaxPresses = 2
  Items <- TwoMenus
  Span <- Overlapping
  MaxInputs = 4

SPECIFICATION DesktopSpec

INVARIANT ChoiceOfOpenMenu
