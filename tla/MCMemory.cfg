\* Every split of every input into reads of up to four bytes.
CONSTANTS
  g = g
  s = s
  t = t
  x = x
  Bytes <- AllBytes
  Inputs <- AllInputs
  InitialFiles <- AllFiles
  GetWord <- GetBytes
  SetWord <- SetBytes
  PathMax = 2
  BufferSize = 4
  Space = Space
  Newline = Newline
  Slash = Slash
  Backslash = Backslash
  Zero = Zero
  Null = Null
  Missing = Missing
  Dir = Dir
  Denied = Denied
SPECIFICATION Spec
INVARIANTS TypeOK ResultOfInput FirstPart
