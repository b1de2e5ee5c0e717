SPECIFICATION Spec
CONSTANTS
  Ssids = {"home"}
  Keys = {"key1", "key2"}
  Bssids = {"router"}
  Randoms = {"random1", "random2"}
  NoNet = NoNet
  NoEnv = NoEnv
INVARIANT TypeOK
INVARIANT ModeServed
INVARIANT ToldWhatIsServed
