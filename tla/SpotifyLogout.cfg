SPECIFICATION SpotifySpec
CONSTANTS
  Secrets = {app1, app2}
  NoSecret = NoSecret
  Torn = Torn
  MaxConfigs = 2
  MaxRestarts = 2
INVARIANT LogoutForgets
CHECK_DEADLOCK FALSE
