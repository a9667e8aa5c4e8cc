SPECIFICATION FairWalkSpec
CONSTANTS
  Dirs <- MCDirs
  Regulars <- MCFiles
  Links <- MCLinks
  Fifos <- MCFifos
  LinkTarget <- MCTarget
  NoAccess = {hidden}
  Inside <- MCInside
  Root = root
  Names = {a, b}
  Paths <- MCPaths
  Initial <- MCInitial
  Scopes <- MCScopes
  MaxChanges = 3
  None = None
  root = root
  old = old
  new = new
  out = out
  page = page
  secret = secret
  hidden = hidden
  toDir = toDir
  toFile = toFile
  pipe = pipe
  a = a
  b = b
INVARIANTS Confined
PROPERTIES WalkEnds OpensAtomically
