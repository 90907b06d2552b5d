SPECIFICATION Spec
CONSTANTS
  Keys = {"a", "b"}
  MaxCount = 1
  Slots = {1}
  LoopMovie = FALSE
  InOrder = FALSE
  Patient <- AllButStops
  AnySeek = FALSE
  FirstEdit = 2
  MaxFrames = 4
  MaxMovies = 2
  MaxOps = 4
  Sessions <- All
INVARIANTS TypeOK InSync SampleInRange
PROPERTIES SeekFits SeekFinds RecordingFlushed
