SPECIFICATION Spec
CONSTANTS
  Size = 4
  Bytes = {1, 2}
INVARIANT TypeOK
INVARIANT Ownership
PROPERTY ImplementsFifo
