SPECIFICATION FairSpec
CONSTANTS
  Key = {k1, k2}
  Client = {c1}
  Token = {t1}
  Member = {m1}
INVARIANTS TypeOK AnswersWitnessed OnePlace
PROPERTY CommandsFinish
CHECK_DEADLOCK FALSE
