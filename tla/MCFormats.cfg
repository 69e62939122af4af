CONSTANTS
  Ids <- MCIds
  Parts = {"codec", "parse", "script", "digest", "edit", "name", "log"}
SPECIFICATION MCSpec
INVARIANTS
  RoundTrip
  BlocksAreRead
  OneOwner
  HashesWholeMessage
  ManifestReadsBack
  NamesAreOwn
  FileIsExact
  LogReadsBack
CHECK_DEADLOCK FALSE
