SPECIFICATION Spec
CONSTANTS
  MaxLine = 2
  Ids = {i1, i2}
  NoId = NoId
  MaxInput = 6
  MaxOut = 2
INVARIANTS TypeOK FramesInStep AnswersWritten
CHECK_DEADLOCK FALSE
