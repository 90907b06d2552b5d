SPECIFICATION FairSpec
CONSTANTS
  Keys = {"a"}
  MaxCount = 1
  Slots = {1}
  LoopMovie = TRUE
  InOrder = FALSE
  Patient <- AllButStops
  AnySeek = FALSE
  FirstEdit = 2
  MaxFrames = 5
  MaxMovies = 2
  MaxOps = 4
  Sessions <- Waits

PROPERTIES SeekCompletes Answered
