\* Two workers, a notification, its email and the scan of a file.
SPECIFICATION FairSpec
CONSTANTS
  Workers = {w1, w2}
  Messages = {"notice", "mail", "scan"}
  Topic <- MCTopic
  Parent <- MCParent
  MaxAttempts <- MCMaxAttempts
  MaxFaults = 2
INVARIANTS
  EffectOnce
PROPERTIES
  FinishedForGood
  Settles
CHECK_DEADLOCK FALSE
