\* Every table of up to three languages, every order of the replies, up to two of
\* them no translation.  A parser that has its replies stops.
CONSTANTS
  Abrvs <- MCAbrvs
  Sources <- MCSources
  MaxLanguages = 3
  MaxErrors = 2
SPECIFICATION FairSpec
INVARIANTS
  EndsOnceOnLastReply
  EndedMeansTranslated
  SlotLeaksOnlyIf
PROPERTY ProductEnds
CHECK_DEADLOCK FALSE
