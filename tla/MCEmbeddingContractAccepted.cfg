\* An output that is stored or refused takes no further step.
CHECK_DEADLOCK FALSE
CONSTANTS
  Dimensions = {0, 1, 31, 32, 127, 128, 255, 256, 257, 512, 1024, 1535, 1536, 1537,
                2048, 2049, 3072, 3073, 4000, 4001, 4096, 4097}
  None = None
SPECIFICATION Spec
INVARIANT AcceptedIsStored
