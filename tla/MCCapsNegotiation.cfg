CONSTANTS
  AUDIO = AUDIO
  VIDEO = VIDEO
  Sources <- MCSources
  Fields <- MCFields
  Values <- MCValues
  MaxUpdates = 4
SPECIFICATION Spec
INVARIANT TypeOK
INVARIANT CapsRefsBalanced
