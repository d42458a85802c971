\* One provider whose limit is raised to 2 and lowered to 1 under load.
CONSTANTS
  Providers = {ollama}
  Waiters = {r1, r2, r3}
  Limits = {1, 2}
SPECIFICATION Spec
PROPERTY LoweredLimitStopsGrants
