SPECIFICATION Spec
CONSTANTS
  None = None
  Secrets = {m1, m2, m3}
  MaxDialogues = 3
SYMMETRY SecretSymmetry
INVARIANTS
  TypeOK
  OneDialogue
  ConnectsOnce
  NothingLeft
  SecretIsUsed
CHECK_DEADLOCK FALSE
