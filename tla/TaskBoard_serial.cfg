SPECIFICATION Spec
CONSTANTS
  None = None
  c1 = c1
  c2 = c2
  c3 = c3
  c4 = c4
  todo = todo
  done = done
  w1 = w1
  w2 = w2
  Cards = {c1, c2, c3, c4}
  Columns = {todo, done}
  Workers = {w1}
INVARIANT GaplessUnlessTorn
PROPERTY ImplementsColumns
SYMMETRY BoardSymmetry
