\* Two sessions and two flows in one directory, with one mishap: a call that fails, a
\* restart, or an act of a client or of others.
CONSTANTS
  MaxSession = 2
  MaxFlow = 2
  Work = {{"mod", "new"}}
  MaxMishap = 1
SPECIFICATION FairSpec
INVARIANTS ServedIsOnOrigin RevertedStaysOff 
PROPERTY PipelineEnds
CHECK_DEADLOCK FALSE
