SPECIFICATION Spec
CONSTANTS
  Runs = {r1, r2}
  Recipes = {c1, c2}
  Packages = {p1, p2}
  Documentable = {p1}
  Nothing = Nothing
  Torn = Torn
  Reuse = Reuse
  MaxEdits = 1
SYMMETRY RunSymmetry
PROPERTY RefreshIsCurrent
PROPERTY CheckIsHonest
CHECK_DEADLOCK FALSE
