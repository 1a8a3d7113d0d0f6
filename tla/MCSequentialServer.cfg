\* Two clients, each with any request.
CONSTANTS
  Requests <- AllRequests
  Kind0 <- FileKinds
  Content0 <- FileContents
  MaxRequests = 2
  ReadSize = 2030
  Unset = {0, 1}
  InHead = InHead
  Junk = Junk
  Phrase = Phrase
  NoRequest = NoRequest
  Old = Old
SPECIFICATION Spec
INVARIANTS TypeOK ListenerKept BodyOffset StoredExactly RoundTrip CodesTell
