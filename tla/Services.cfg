CONSTANTS
  AuthKeys = {"api_keys_csv"}
  LimiterKeys = {"rate_limit_backend"}
  ServiceKeys = {"review_threshold_default"}
  LiveKeys = {"fast_mode_enabled"}
  ImportedKeys = {}
  Backend = "rate_limit_backend"
  Strict = "redis"
  Values = {"env", "redis"}
  Bad = "bad"
  None = "none"
  Envs <- MCEnvs
  MaxPayload = 2
  OldKeys = {"fast_mode_enabled"}
  MaxUpdates = 2
  MaxStops = 1
  MaxOutages = 1
  s1 = s1
  s2 = s2
  s3 = s3
  Attempts <- MCAttempts
  Waits = {0, 1, 5}
  Schedules = {s1, s2, s3}
  Interval <- MCInterval
  Limit = 1
  MaxTick = 1
  MaxCrashes = 1
SPECIFICATION ServicesSpec
INVARIANTS ServicesTypeOK SettingsAgree PausesHold
PROPERTIES ServerComesBack AlertedOnce DueGetsDispatched
CHECK_DEADLOCK FALSE
