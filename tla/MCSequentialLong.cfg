\* One PUT of 5000 bytes.
CONSTANTS
  Requests <- LongRequests
  Kind0 <- FileKinds
  Content0 <- FileContents
  MaxRequests = 1
  ReadSize = 2030
  Unset = {0, 1}
  InHead = InHead
  Junk = Junk
  Phrase = Phrase
  NoRequest = NoRequest
  Old = Old
SPECIFICATION Spec
INVARIANT WithinBuffer
