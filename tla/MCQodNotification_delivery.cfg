\* Three notifications, a queue of two, two workers; stopped and started again.
SPECIFICATION FairSpec
CONSTANTS
  Null = Null  n1 = n1  n2 = n2  n3 = n3  s1 = s1
  Notifications = {n1, n2, n3}
  Sessions = {s1}
  SessionOf <- AllOfOne
  Workers = {w1, w2}
  MaxQueue = 2
  MaxRetries = 2
  InitialDelay = 1
  Multiplier = 2
  MaxDelay = 3
  Valid = {n1, n2, n3}
  Answers = {TRUE, FALSE}
  MaxStarts = 2
  MayStop = TRUE
INVARIANTS TypeOK ExactlyOnePlace AttemptsExact TakenInOrder PendingUntilDelivered
PROPERTY AcceptedSettles
CHECK_DEADLOCK FALSE
