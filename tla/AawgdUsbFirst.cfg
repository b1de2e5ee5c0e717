SPECIFICATION Spec
CONSTANTS
  phone1 = phone1
  phone2 = phone2
  Devices = {phone1, phone2}
  NoDevice = NoDevice
  Strategy = "USB_FIRST"
  HasAdapter = TRUE
  Commands = {"SWITCH", "DISCONNECT"}
  LateStart = FALSE
  FdLimit = 2
INVARIANT UsbBeforeBluetooth
PROPERTY ListensAgain
PROPERTY StopTakesEffect
