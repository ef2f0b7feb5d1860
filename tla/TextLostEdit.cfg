SPECIFICATION TextSpec
CONSTANTS
  old = old
  new = new
  p1 = p1
  p2 = p2
  s1 = s1
  s2 = s2
  c1 = c1
  c2 = c2
  Nothing = Nothing
  Wordings <- TwoWordings
  Passages <- TwoPassages
  Suggestions <- OneSuggestion
  Servers <- TwoServers
  Cap = 2
  MaxSnapshots = 3
SYMMETRY Symmetry
CHECK_DEADLOCK FALSE
PROPERTIES OnlyThePassage
