\* Five calls, a hard cap of two, energy caps below, at and above it, one restart.
SPECIFICATION Spec
CONSTANTS
  Fork = {f1, f2, f3, f4, f5}
  HardCap = 2
  EnergyCaps = {0, 1, 2, 3}
  MaxCrash = 1
SYMMETRY Forks
INVARIANT ExcessIsOverlap
PROPERTIES AdmissionWithinEnergyCap
CHECK_DEADLOCK FALSE
