SPECIFICATION Spec
CONSTANTS
  phone1 = phone1
  phone2 = phone2
  Devices = {phone1, phone2}
  NoDevice = NoDevice
  Strategy = "PHONE_FIRST"
  HasAdapter = TRUE
  Commands = {"SWITCH"}
  LateStart = FALSE
  FdLimit = 2
SYMMETRY PhoneSymmetry
INVARIANT AcceptingMeansReachable
