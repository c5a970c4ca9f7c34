\* Two hosts that share the panel, three attempts, two retries at a time.
\* Attempts run out, so the system may stop.
SPECIFICATION FairSpec
CHECK_DEADLOCK FALSE
CONSTANTS
  Hosts = {h1, h2}
  MaxAttempts = 3
  MaxWaiting = 2
  None = None
INVARIANTS
  Consistent
PROPERTIES
  SilentReuse
  RequestsAnswered
