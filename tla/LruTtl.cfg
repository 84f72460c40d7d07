SPECIFICATION Spec
CONSTANTS
  Text <- Words
  QueryKey <- Params
  TrackingKeys = {2}
  Raw <- Urls
  None = None
  MaxEntries = 2
  Ttl = 1
  MaxNow = 3
  MaxUses = 5
INVARIANT SamePageSameKey
PROPERTIES L1IsABoundedMap VictimIsLeastRecent
CHECK_DEADLOCK FALSE
