CONSTANTS
  Pubkeys = {1, 2, 3}
  Weights = {1}
  Nodes = {n1, n2}
  Absent = Absent
  n1 = n1
  n2 = n2
SPECIFICATION Spec
INVARIANT NodesAgree
CHECK_DEADLOCK FALSE
