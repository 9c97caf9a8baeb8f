SPECIFICATION Spec
CONSTANTS
  ConfigNames = {c1}
  INSTANTIATED_HEAD_NUMS = {1, 4}
INVARIANT SuccessIsComplete
