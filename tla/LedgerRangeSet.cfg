\* Every set of integers between 0 and 6, built in every order, loaded from
\* every list of up to three ids, and every span scanned.
SPECIFICATION RangeSpec
CONSTANTS
  Low = 0
  High = 6
  MaxIds = 3
INVARIANTS
  Normalised
  ContainsExactly
  MissingExactly
  NothingMissed
