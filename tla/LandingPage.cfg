\* Two visitors, three files in two directories, pages of two links.
SPECIFICATION Spec
CONSTANTS
  Visitors = {v1, v2}
  EntryCount = 5
  Dirs = {1, 3}
  DirOf <- Tree
  Limit = 2
  NoPage = NoPage
  MaxRestarts = 1
SYMMETRY Same
INVARIANTS
  TypeOK
  OnePage
  NoFilesIsTrue
