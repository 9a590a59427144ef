SPECIFICATION Spec
CONSTANTS
  Expire = 2
  Drain = 5
  MaxQueue = 2
  Texts <- MCTexts
INVARIANT KeysArriveAsText
