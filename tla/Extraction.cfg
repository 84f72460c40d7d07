SPECIFICATION Spec
CONSTANTS
  None = None
  StaticDocs <- Pages
  RenderedDocs <- Rendered
  OembedCards <- Answers
INVARIANTS SourceMapTrue ImageLeadsImages ScoreIsOfTheCard FirstOfferedWins
