CONSTANTS
  Formats <- MCFormats
  NativeFormats <- MCNativeFormats
  BridgeFormats <- MCBridgeFormats
  Upstream <- MCUpstream
  Request = "fr"
  Atoms <- MCAtoms
  Ids <- MCIds
  Props <- MCProps
  Scans <- MCScans
  Corpora <- MCCorpora
SPECIFICATION Spec
INVARIANTS
  TypeOK
  GreenMeansJudged
  CoverageSeesEveryFixture
  TablesAgree
  GateIsSound
  EnginesTranslateAlike
  TargetsAreWhole
  IgnorablesComeThrough
