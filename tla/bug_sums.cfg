SPECIFICATION Spec
CONSTANTS
  Murmur <- SomeMurmur
  Lossy <- LossyUpTo46
  Scenarios <- MeasuringRuns
  Divergence = {0}
  Junk <- SomeJunk
  MaxRuns = 1
INVARIANT First8AddsUp
CHECK_DEADLOCK FALSE
