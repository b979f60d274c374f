CONSTANTS
  AUDIO = AUDIO
  VIDEO = VIDEO
  Sources <- MCSources
  MaxSamples = 2
  MaxPerHaveData = 2
  MaxQueue = 2
SPECIFICATION Spec
INVARIANT BufferedOncePerEpisode
