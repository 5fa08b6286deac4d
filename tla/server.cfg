CONSTANTS
  Malformed = Malformed
  Conns = {c1, c2}
  MaxSignals = 2
  Inputs <- Starts
SPECIFICATION FairSpec
INVARIANTS TypeOK StartedSound OrderlyExit
PROPERTIES CutOnlyBeforeNotify ProcessEnds
