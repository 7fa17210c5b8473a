SPECIFICATION Spec
CONSTANTS
  b1 = b1
  b2 = b2
  Builds <- MCBuilds
  Texts <- MCTexts
  Accepted <- MCAccepted
  Sources <- MCSources
  Stems <- MCStems
  StemOf <- MCStemOf
  Dirs <- MCDirs
  Commands <- MCCommands
  Source <- MCSource
  NoOutput = NoOutput
  MaxEdits = 1
SYMMETRY Symmetry
\* Builds and the clean end.
CHECK_DEADLOCK FALSE
INVARIANTS
  TypeOK
  QuietDirectoriesAgree
  OrderDoesNotMatter
  LayoutsAreLLVMs
  NativeTypesAgree
PROPERTY ArtifactsAreFresh
