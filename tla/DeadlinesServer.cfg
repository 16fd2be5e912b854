CONSTANTS
  Starts <- JustLong
  ServerTimeout = 60
  MaxDuration = 1000
  MaxReading = 1
SPECIFICATION Spec
INVARIANT StayingClientIsAnswered
