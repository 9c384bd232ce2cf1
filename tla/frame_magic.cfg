SPECIFICATION StreamSpec
CONSTANTS
  FRAME_MAGIC <- MCMagic
  MAX_PAYLOAD_SIZE = 2
  MessageTypes = {1, 2}
  Cell <- MCCell
  Frames <- MCFrames
  Noise <- MCNoise
  BadType = 3
  BadLengths <- MCBadLengths
  ErrorType = 2
  MaxItems = 3
PROPERTY DropsOnBadMagic
CHECK_DEADLOCK FALSE
