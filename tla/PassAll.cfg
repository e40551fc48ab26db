SPECIFICATION Spec
CONSTANTS
  NONE = NONE
  Chain <- Fallbacks
  Answers <- SomeAnswers
  Registered <- SomeFields
  CamFields <- SomeCamFields
  Prices = {1, 2}
  Ceiling = 4
  Threshold = 60
  Retries = 1
CHECK_DEADLOCK FALSE
INVARIANT TypeOK
INVARIANT ConfidentUndisturbed
INVARIANT CostRecorded
INVARIANT ThirdWithinBudget
INVARIANT ResponsesKept
INVARIANT ShareReadEitherWay
INVARIANT OverallBetween
PROPERTY ExtractionEnds
