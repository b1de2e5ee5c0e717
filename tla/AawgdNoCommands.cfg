SPECIFICATION Spec
CONSTANTS
  phone1 = phone1
  phone2 = phone2
  Devices = {phone1, phone2}
  NoDevice = NoDevice
  Strategy = "PHONE_FIRST"
  HasAdapter = TRUE
  Commands = {}
  LateStart = TRUE
  FdLimit = 3
SYMMETRY PhoneSymmetry
INVARIANT AcceptingMeansReachable
INVARIANT KeepsCalling
PROPERTY ProxyStopIsSafe
