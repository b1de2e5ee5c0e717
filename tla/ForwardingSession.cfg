SPECIFICATION Spec
CONSTANTS
  HeaderLength = 2
  ExtraLength = 2
  BufferLen = 6
INVARIANT TypeOK
INVARIANT NoUseAfterClose
INVARIANT SignalHandled
INVARIANT WholeMessages
PROPERTY TcpReaderEnds
PROPERTY SessionEnds
