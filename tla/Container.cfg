CONSTANTS
  Threads = {m1, c1}
  Managers = {m1}
  Clients = {c1}
  Names = {a, b}
  NoName = NoName
  NoConfig = NoConfig
  MaxLoggers = 3
  RunRetries = 2
  MaxSame = 1
  MaxOwn = 1
SPECIFICATION Spec
SYMMETRY Symmetry
INVARIANTS
  TypeOK
  ReferencesRight
  DependenciesFirst
