SPECIFICATION Spec
CONSTANTS
  c1 = c1
  c2 = c2
  memory = memory
  remote = remote
  Resolvers = {c1}
  Registrars = {c2}
  Letters = {"m", "e", "q", "r", "f", "v", "c", ":", "/", "#"}
  Schemes = {"m", "e"}
  Vaults = {memory, remote}
  Closable = {memory}
  Slow = {remote}
  Paths <- MCPaths
  Field <- MCField
  ValueName <- MCValueName
  Secrets <- MCSecrets
  Plain <- MCPlain
  Asks <- MCAsks
  None = None
  Error = Error
  MaxChanges = 1
INVARIANTS
  MutexInv
PROPERTIES
  AnswersAreRight
  FailuresAreReal
  MutexIsGranted
