SPECIFICATION Spec
CONSTANTS
  Ssids = {"home"}
  Keys = {"key"}
  Bssids = {"router"}
  Randoms = {"random1"}
  NoNet = NoNet
  NoEnv = NoEnv
INVARIANT RecoveryOffered
