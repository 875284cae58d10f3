SPECIFICATION Spec
CONSTANT
  Role = "execution"
INVARIANTS
  GracefulStop
