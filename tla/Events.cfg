\* A page through drafts, retries, cuts and restarts; two pages on one subscription.
SPECIFICATION Spec
CONSTANTS
  None = None
  p1 = p1
  p2 = p2
  c1 = c1
  c2 = c2
  reader = reader
  line = line
SYMMETRY PagesAndConnections
INVARIANTS
  PageMirrorsChannel
  ReducerNeverRefuses
  ShownOutcomeIsPersisted
  StreamsAccounted
