CONSTANTS
  None = None
  Pubkeys = {1, 2, 3}
  Weights = {0, 1, 2, 150}
  WeightOf <- SumWeights
  MaxUint128 = 200
  Deltas <- SomeDeltas
  Agreements <- SomeAgreements
  Thresholds = {66, 100}
  Heights = {1}
  Roots = {1}
  MaxId = 1
SPECIFICATION Spec
INVARIANTS OperatorSetConsistent AgreementHasQuorum NeverUnderflows
PROPERTY ImplementsCopy
CHECK_DEADLOCK FALSE
