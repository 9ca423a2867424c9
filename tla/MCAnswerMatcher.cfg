CONSTANTS
  Chars <- MCChars
  Nul = "nul"
  Cr = "cr"
  Lf = "lf"
  Table <- MCTable
  Masks <- MCMasks
  Streams <- MCStreams
  RxBuffSiz = 12
SPECIFICATION Spec
INVARIANTS TypeOK AnswerIsReal AnswerIsFirst LineIsWhole
CHECK_DEADLOCK FALSE
