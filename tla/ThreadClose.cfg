CONSTANTS
  Static = {s}
  Heap = {h}
  Users = {u, v}
  Names = {n}
  PrioMax = 2
  Usages = {"both"}
  None = None
SPECIFICATION Spec
INVARIANTS ListsAgree
