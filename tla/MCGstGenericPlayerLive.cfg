\* Underflow recovery under the fairness of GstGenericPlayer!Fairness.
CONSTANTS
  AUDIO = AUDIO
  Sources <- MCSources
  MaxSamples = 2
  MaxPerHaveData = 1
  MaxQueue = 2
SPECIFICATION FairSpec

PROPERTY UnderflowRecovers
