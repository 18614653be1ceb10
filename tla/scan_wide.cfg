SPECIFICATION Spec
CONSTANTS
  Tokens = {"CREATE POLICY", "word", "wide", ";"}
  MaxTokens = 4
  Paths = 1
  MaxSnippet = 2
  Unreadable = Unreadable
INVARIANTS SnippetIsTrimmed
