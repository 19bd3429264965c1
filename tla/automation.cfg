\* Every mode, with every max up to 2, and three triggers.
SPECIFICATION Spec
CONSTANTS
  Runs = {t1, t2, t3}
  None = None
  Maxima = {0, 1, 2}
INVARIANTS TypeOK ActiveCounts NoneStranded OneUncancelled
PROPERTIES EveryRunEnds SlotsImplemented
CHECK_DEADLOCK FALSE
