SPECIFICATION Spec
CONSTANTS
  Tokens <- Ascii
  MaxTokens = 4
  Paths = 2
  MaxSnippet = 9
  Unreadable = Unreadable
INVARIANTS TypeOK LintsAreExact OkMeansAllRead
