CONSTANTS
  MaxUp = 2
  MaxDown = 2
  Window = 1
SPECIFICATION Spec
INVARIANTS
  IInv
  OKMeansWhole
  FailureHasCause
PROPERTIES
  Transparent
  NoLeak
  Released
  HalfCloseArrives
  StatusArrives
\* A finished call stops: both forwarders exited, the status written.
CHECK_DEADLOCK FALSE
