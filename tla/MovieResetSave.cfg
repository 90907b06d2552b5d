SPECIFICATION Spec
CONSTANTS
  Keys = {"a"}
  MaxCount = 1
  Slots = {1}
  LoopMovie = FALSE
  InOrder = TRUE
  Patient <- AllButStops
  AnySeek = FALSE
  FirstEdit = 2
  MaxFrames = 3
  MaxMovies = 2
  MaxOps = 4
  Sessions <- Resets
PROPERTY SavesFit
