CONSTANTS
  c1 = c1
  c2 = c2
  None = None
  Client = {c1, c2}
  FileCount = 2
  BlobOf <- MCBlobs
  Listed <- MCSizes
  Length <- MCSizes
  Troubles = {"cut"}
  MaxRequests = 1
SPECIFICATION Spec
INVARIANTS
  ManifestComplete
