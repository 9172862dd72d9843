\* The token that waits for the code is not admitted where the code is asked for.
SPECIFICATION LoginSpec
CONSTANTS
  Attempts = {1}
  Refreshes = {}
INVARIANT
  SentCodeAdmits
