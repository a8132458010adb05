CONSTANTS
  Calls = {c1, c2}
  Tools = {t1, t2}
SPECIFICATION FairSpec
INVARIANTS TypeOK SceneFollows
PROPERTIES SwapEnds
