SPECIFICATION FairSpec
CONSTANTS
  Receiver = r
  s1 = s1
  s2 = s2
  Senders = {s1, s2}
  Linked = {}
  Owner = s2
  Kinds = {"a", "b"}
  KindsOf <- MixedKinds
  Mortal = {s1, s2}
  OpsSets = {{"a"}, {"a", "b", "priority"}}
  Limits = {0, 1}
  Behaviors = {"block", "ignore"}
  LateLimits = TRUE
  MaxSends <- ThreeSends
  CanClose = TRUE
INVARIANTS InOrder PutQueueExact NotOvertaken
CHECK_DEADLOCK FALSE
PROPERTIES ImplementsMailbox SendsEnd MailboxDrained
