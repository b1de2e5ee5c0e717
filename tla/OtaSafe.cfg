SPECIFICATION Spec
CONSTANTS
  SlotA = SlotA
  SlotB = SlotB
  None = None
  Installers = {i1}
  Bundles = {"good", "sick", "dead"}
  Patient = TRUE
  TornFiles = {"state", "cmdline"}
  Failing = {"boot", "readonly", "persist"}
  CutsInBoot = TRUE
  MaxBoots = 2
INVARIANT TypeOK
INVARIANT BootTargetIntact
INVARIANT FallbackReady
PROPERTY OtherSlotOnly
PROPERTY SickRollsBack
PROPERTY GoodUpdateSettles
