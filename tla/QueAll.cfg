SPECIFICATION Spec
CONSTANTS
  Users = {"alice"}
  Guests = {"guest"}
  Extractions = {"lease"}
  NotifyEmail = {}
  Consumers = {"c1"}
  NONE = NONE
  MaxBatch = 2
  MaxRetries = 1
  MaxFaults = 2
CHECK_DEADLOCK FALSE
INVARIANT TypeOK
INVARIANT RepeatedOnlyAfterLoss
INVARIANT DeadOnlyAfterRetries
INVARIANT UploadersAreMailed
INVARIANT CleanedBeforeAck
PROPERTY QueuesDrain
