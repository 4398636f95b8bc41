CONSTANTS
  w = w
  Names = {w}
  Default = Default
  Loops = {1, 2}
  Unset = Unset
  Absent = Absent
  Malformed = Malformed
  Leaked = Leaked
  Texts <- MCTexts
  Answers <- MCAnswers
  Flags <- MCFlags
  MaxBackups = 2
SPECIFICATION Spec
INVARIANTS
  TypeOK
  FirstLayerWins
  ApplyIsAskedOrAnnounced
  InitLosesNoConfig
