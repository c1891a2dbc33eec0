SPECIFICATION SpecSettles
CONSTANTS
  Proc = {p1, p2}
  big = big
  CacheKey = {a, big, post}
  Cacheable = {a, big}
  Size <- MCSize
  MaxBytes = 1
  Concurrency = 1
  MaxSeq = 3
  MaxOpen = 2
  MaxReports = 1
INVARIANTS CacheExact SingleFlight SharedBodyOutlivesReaders
PROPERTY EveryFetchSettles
CHECK_DEADLOCK FALSE
