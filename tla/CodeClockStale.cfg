SPECIFICATION Spec
CONSTANTS
  MaxLate = 1
  MaxLag = 1
  FoldShift = 0
  Horizon = 160
  NoCode = NoCode
INVARIANTS CodeIsCurrent
