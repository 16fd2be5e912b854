CONSTANTS
  Starts <- Changed
  ServerTimeout = 30
  MaxDuration = 30
  MaxReading = 1
SPECIFICATION Spec
INVARIANTS TypeOK AnsweredInTime TimeoutsHonoured TimesTrue SettingsAsGiven
