SPECIFICATION Spec
CONSTANTS
  Texts = {"", "a", "?"}
  Encoded = {"", "a"}
  Contents <- SomeContents
  MaxCopies = 2
  MaxRequests = 2
  MaxHides = 1
INVARIANTS OneReadPerRequest
PROPERTIES CopiesInOrder PastesInOrder CopiesArrive RequestsServed PastesTaken
CHECK_DEADLOCK FALSE
