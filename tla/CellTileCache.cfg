SPECIFICATION Spec
CONSTANTS
  Host = host
  fork = fork
  Empty = Empty
  x = x
  Vms = {host, fork}
  NumTiles = 2
  MaxTiles = 1
  MaxIncremental = 1
  Slots <- OneCell
  Values <- EmptyOrX
  Requests <- SingleTiles
  Writes <- SmallAndLarge
  FormulaCells <- LastIsFormula
INVARIANTS
  TypeOK
  CacheBounded
  PrivateCacheCoherent
  PrivateReadsAreCurrent
