CONSTANTS
  Processes = {p1, p2}
  Keys = {k1, k2, k3}
  ServerIds = {s1, s2}
  Launches <- AllLaunches
SPECIFICATION FairLife
INVARIANTS
  ServesWhatIsStored PairingSurvives RevokedNeverServed QrIsCurrent
PROPERTIES
  NewPairCompletes
