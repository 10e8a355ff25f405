SPECIFICATION Spec
CONSTANTS
    Capacity = 4
    Byte = {0, 1}
    MaxBlock = 5
INVARIANTS TypeOK IndicesOrdered
PROPERTY RefinesByteFifo
