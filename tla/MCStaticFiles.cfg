SPECIFICATION FilesSpec
CONSTANTS
  Targets <- MCTargets
  Preferences <- MCPreferences
  Files <- MCFiles
  Index <- MCIndex
  AssetsPrefix <- MCAssets
  Fingerprinted <- MCFingerprinted
  DotNames <- MCDotNames
  WellKnown = ".well-known"
  HealthNames <- MCHealth
  DenyDotfiles = TRUE
  BrotliEnabled = TRUE
  GzipEnabled = TRUE
  MaxVersion = 2
  Mtime <- MCMtime
  Missing = Missing
  Broken = Broken
INVARIANTS DotfilesDenied FallbackIsRight CachedSafely NotModifiedIsTrue BestServed
