SPECIFICATION FairSpec
CONSTANTS
  Shots = {s1, s2}
  Threads = {t1, t2, t3}
  Main = main
  NoThread = NoThread
  NoShot = NoShot
INVARIANTS
  TypeOK
  NoCrash
  NoLeak
PROPERTIES
  Reclaimed
  ImplementsFireOnce
CHECK_DEADLOCK FALSE
