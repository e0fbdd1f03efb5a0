CONSTANTS
  Values = {a, b}
  Cells = {n1, n2, n3, n4, n5}
  Nil = Nil
  Garbage = Garbage
  SizeMod = 8
SPECIFICATION Spec
INVARIANTS CellsInUse SizeCountsCalls
PROPERTY ImplementsFifo
SYMMETRY CellSymmetry
