SPECIFICATION PartsSpec
CHECK_DEADLOCK FALSE
CONSTANTS
  code = code secret = secret deps = deps c1 = c1 link = link a = a
  Absent = Absent Dangling = link None = None
  Paths = {code, secret, deps}
  Contents = {c1, link}
  Class <- MCClass
  Callers = {a1, a2}
  BackgroundWrites = FALSE
  MaxCommits = 2
  MaxFaults = 1
  Blank = Blank Gone = Gone
  Names = {x, y}
  Line = {a, Blank}
  Readers = {r1, r2}
  Drafts <- MCDrafts
  Window = 3
  MaxLines = 3
  MaxStamp = 3
  MaxTorn = 1
  Probed <- MCProbes
  MaxRetries = 1
  Files = {"f"}
  Lookups = {"k", "l"}
  MaxVersions = 2
  MaxLookups = 3
  NoText = NoText
INVARIANT FreshIsShown
INVARIANT ReverseRestores
INVARIANT CertifiesProven
INVARIANT LookupFresh
INVARIANT StrictFits
INVARIANT NothingExcluded
PROPERTY KeepsPromise
