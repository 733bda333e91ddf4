CONSTANTS
  x = x
  y = y
  Nul = nul
  Chars = {x, y, nul}
  N = 4
  Objects = {a, b}
  HeapChars = 8
  Texts <- MCTextSet
  DisplayNames = {"name", "other", "unnamed"}
  Unnamed = "unnamed"
  Numbers = {"7"}
  MaxLines = 5
SPECIFICATION MCSpec
INVARIANT EndIdEndsTheText
CHECK_DEADLOCK FALSE
