SPECIFICATION Spec
CONSTANTS
  Methods = {"GET", "POST"}
  Texts = {"GET", "POST", "TRACE"}
  Patterns <- MCPatterns
  Paths <- MCPaths
  IntTexts <- MCIntTexts
  FloatTexts <- MCFloatTexts
  Names <- MCNames
  Begins <- MCBegins
  MaxRoutes = 3
INVARIANTS MatchIsRight ParamsAreOwn
