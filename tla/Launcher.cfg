SPECIFICATION Spec
CONSTANTS
  Links = {link1, link2}
  FdFree = 1
  MaxWire = 2
INVARIANT TypeOK
INVARIANT DescriptorsFollowThreads
INVARIANT PoliteNotAborted
PROPERTY PoliteCompletes
PROPERTY ThreadsEndWithPhone
