SPECIFICATION MCSpec
CONSTANTS
  NL = NL
  CR = CR
  Bom = Bom
  x = x
  y = y
  Symbols <- MCSymbols
  Starts <- MCStarts
  Edits <- MCEdits
  MaxLength = 4
  MdLines <- MCMdLines
  MdEdits <- MCMdEdits
  Trees <- MCTrees
  TreeEdits <- MCTreeEdits
  JsonTokenSet <- MCJsonTokens
  YamlLineSet <- MCYamlLines
  HtmlTags <- MCHtmlTags
  HtmlEdits <- MCHtmlEdits
  VoidTags = {"br"}
  AttrTexts <- MCAttrTexts
  AttrEdits <- MCAttrEdits
  LongerTags <- MCLongerTags
  LongerNames <- MCLongerNames
  MaxLines = 4
  MaxTags = 5
  MaxTokens = 5
INVARIANTS
  CandidatesAreNumbered
  RangeReplacementKeepsText
  StagingAgrees
  BytesAreKept
  SectionEditIsLocal
  JsonIsKept
  TreeEditIsLocal
  YamlIsKept
  
CHECK_DEADLOCK FALSE
