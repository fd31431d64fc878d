CONSTANTS
  c1 = c1
  c2 = c2
  None = None
  Client = {c1, c2}
  FileCount = 1
  BlobOf <- MCLFSBlob
  Listed <- MCLFSListed
  Length <- MCLFSLength
  Troubles = {"cut", "sizes", "source"}
  MaxRequests = 2
SPECIFICATION Spec
INVARIANTS
  TypeOK
  WholeAnswersConsistent
SYMMETRY Symmetry
