SPECIFICATION MCSpec
CONSTANTS
  NoUrl = NoUrl
  Null = Null
  Url <- MCUrl
  Web <- MCWeb
  Bare <- MCBare
  Href <- MCHref
  Local <- MCLocal
  Scripts <- MCScripts
  Join <- MCJoin
  Response <- MCResponse
  Empty = ""
  Selector <- MCSelector
  Parsed <- MCParsed
  File <- MCFile
  Document <- MCDocument
  NoFile = NoFile
  Invalid = Invalid
  ConfigFile <- MCConfigFile
  Environment <- MCEnvironment
INVARIANTS
  ParserInv
  LinksAreTheMentioned
  DocumentOrder
  GoodFilesAreLoaded
  RecordsAreIndependent
  FieldsFollowTheRules
  OverridesSpoilNothing
