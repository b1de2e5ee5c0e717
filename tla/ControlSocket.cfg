SPECIFICATION Spec
CONSTANTS
  Others = {o1}
  Args = {{}, {"disconnect"}, {"switch"}, {"ota"}, {"switch", "ota"}}
  Waiting = 1
  None = None
INVARIANT TypeOK
INVARIANT AsksWhatWasSaid
INVARIANT ActsOnItsClient
PROPERTY UnavailableMeansDown
PROPERTY OnlySilenceBlocks
