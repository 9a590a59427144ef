SPECIFICATION FairSpec
CONSTANTS
  Expire = 2
  Drain = 5
  MaxQueue = 2
  Texts <- MCTexts
INVARIANTS
  TypeOK
  KeyboardHasField
  ConfirmStaysOut
PROPERTIES
  KeyboardKeepsField
  KeyboardCloses
  TextModeEnds
