\* Every tree of three entries below the folder.
SPECIFICATION Spec
CONSTANTS
  Entries = 3
INVARIANTS
  TypeOK
  LinksHonest
  FilesCounted
