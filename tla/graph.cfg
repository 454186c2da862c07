SPECIFICATION Spec
CONSTANTS
  Shapes <- MCShapes
  Weights <- MCWeights
INVARIANTS GraphKept StructureFound LeastFound FlowsExact
CHECK_DEADLOCK FALSE
