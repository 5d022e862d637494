CONSTANTS
  tune = tune
  tab1 = tab1
  tab2 = tab2
  run1 = run1
  Jobs = {tune}
  Streams = {tab1, tab2}
  Callers = {run1}
  PersistEvery = 2
  MaxLines = 2
  MaxCrashes = 1
SPECIFICATION JobsSpec
INVARIANTS JobsTypeOK EachLineOnce FinalMeansEnded LoneClientGotAll
PROPERTIES ImplementsJobLifecycle LoneClientIsTold
CHECK_DEADLOCK FALSE
