SPECIFICATION Spec
CONSTANTS
  Animes = {a, b}
  Fields = {f, g}
  Episodes = {e}
  Pasts = {p}
  Rows = {r}
  Grades = {g1, g2}
  None = None
  Off = Off
INVARIANTS
  TypeOK
  ShownIsPrefix
  PaneIsOfOneAnime
  RowsOnce
  ListSettles
  PaneSettles
  FeedbackIsHonest
  ShowsWhatIsViewed
  SeasonSettles
  EditsSurvive
  OthersSurvive
  AppliedIsTheDraft
  DraftKept
  DraftsAreTaken
  CommandsAnswer
  ConfirmedIsShown
  NobodyIsStranded
  RowsSettle
PROPERTIES
  KeepsItsPromise
  HandValuesStay
  WaitsEnd
CHECK_DEADLOCK FALSE
