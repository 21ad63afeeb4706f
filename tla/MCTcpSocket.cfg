SPECIFICATION Spec
CONSTANT NUM_SOCKETS = 4
INVARIANTS
  TypeOK
  OneDescriptor
PROPERTIES
  ServesNetwork
  LossNoticed
