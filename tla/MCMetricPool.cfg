SPECIFICATION Spec
CONSTANTS
  Handlers = {h1, h2}
  Requests <- MCRequests
  Objects = {1, 2, 3, 4}
  Arrays = {1, 2, 3, 4, 5, 6}
  NoArray = NoArray
  NoRequest = NoRequest
  MaxServed = 3
SYMMETRY Symmetry
INVARIANTS
  TypeOK
  SharedTagsExact
  OpenTSDBTagsExact
