SPECIFICATION Spec
CONSTANTS
  None = None
  Entities <- MCEntities
  MaxLabel = 1000
  MaxParens = 32
  Families <- MCFamilies
  Defs <- MCDefs
  Notes <- MCNotes
CHECK_DEADLOCK FALSE
INVARIANTS
  EveryCharacterOnce
  NoLinkInLink
  AtomsBindTightest
  EmphasisAsSpecified
