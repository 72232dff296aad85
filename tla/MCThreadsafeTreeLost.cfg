CONSTANTS
  a = a  b = b
  NULL = NULL
  Threads = {t1, t2}
  Values = {a, b}
  Keys = {1, 2, 3, 4, 5}
  Nodes = {0, 1, 2, 3, 4, 5}
  ROOT = 0
  Trees <- MCTrees
  MaxOps = 3
SPECIFICATION Spec
CHECK_DEADLOCK FALSE
PROPERTY OnlyItsKey
