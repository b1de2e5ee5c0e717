SPECIFICATION Spec
CONSTANTS
  MaxHandlers = 4
  MaxQueue = 3
  Prompt = TRUE
INVARIANT TypeOK
INVARIANT OneLiveHandler
PROPERTY ImplementsAccessoryGadget
PROPERTY TrueMeansAccessory
