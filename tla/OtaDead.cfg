SPECIFICATION Spec
CONSTANTS
  SlotA = SlotA
  SlotB = SlotB
  None = None
  Installers = {i1}
  Bundles = {"good", "sick", "dead"}
  Patient = TRUE
  TornFiles = {}
  Failing = {}
  CutsInBoot = FALSE
  MaxBoots = 2
PROPERTY UnbootableRollsBack
