\* Three concurrent round trips to the one authority of a connection, under
\* the fairness of the scheduler.
SPECIFICATION FairSpec
CONSTANTS
  Trips = {t1, t2, t3}
  Authorities = {a}
  None = None
INVARIANTS
  TypeOK
  NoSpeculativeQuic
  UpgradeHonoured
PROPERTIES
  EveryTripReturns
