SPECIFICATION Spec
CONSTANTS
  Texts <- MCTexts
  MaxQueue = 2
  MaxSaved = 2
INVARIANTS CameraOnlyOnScreen
PROPERTIES SavesWhatWasScanned UrisNeverTrap OnlyTheBacklogIsSaved FreezesOnlyUnreadable
