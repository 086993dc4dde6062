SPECIFICATION VenueSpec
CONSTANTS
  None = None
  Quantity = 3
  Ids = {}
  Delivered <- NoEvents
  MaxUncertain = 2
  MaxQueries = 2
INVARIANTS
  FilledIsWhole
  NeverAheadOfVenue
  EndedHereMeansEndedThere
PROPERTIES
  EconomicFactsStay
CHECK_DEADLOCK FALSE
