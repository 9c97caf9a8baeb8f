SPECIFICATION Spec
CONSTANTS
  Shapes <- MCShapes
  Scores = {0, 2}
  NegInf = NegInf  NaN = NaN
INVARIANTS RunningSoftmax SoftmaxWhenDone
