\* Two programs in one directory, three additions.
CONSTANTS
  Program = {p1, p2}
  Connection = {c1, c2}
  Foreign = foreign
  MaxAdds = 3
SPECIFICATION Spec
INVARIANTS
  Durable
  MenuShowsFile
PROPERTIES
  TornIsFatal
