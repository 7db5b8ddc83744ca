SPECIFICATION Spec
CONSTANTS
  Host = host
  Empty = Empty
  x = x
  Vms = {host}
  NumTiles = 3
  MaxTiles = 2
  MaxIncremental = 1
  Slots <- OneCell
  Values <- EmptyOrX
  Requests <- Spans
  Writes <- SmallAndLarge
  FormulaCells <- NoFormulas
INVARIANTS
  PrivateReadsAreCurrent
