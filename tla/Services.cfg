SPECIFICATION MCSpec
CONSTANTS
  walk = walk
  menu = menu
  dialog = dialog
  t1 = t1
  t2 = t2
  a1 = a1
  a2 = a2
  None = None
  Web = Web
  Watcher = Watcher
  Main = Main
  Callers = {Web, Watcher, Main}
  Blocking = {}
  Threads = {t1}
  Entries = {a1, a2}
  Macros <- MCMacros
  Delays <- MCOneFrame
  Triggers <- MCMenuOnly
  Macro <- MCMacro
  Loops <- MCLoops
  Screens <- AnyScreen
  SlowPoster = FALSE
  Buttons = {"play", "stop", "files"}
  short = short
  long = long
  Policies = {short, long}
  SeqLen <- MCSeqLen
  Kinds <- MCKinds
  Inputs <- MCInputs
  Clients = {c1, c2}
  Models = {m1, m2}
  NoState = NoState
  Reloader = Reloader
  Hasty = {c1}
  MaxUnread = 1
INVARIANTS
  DisarmHolds
  AnswersFit
  EpisodeClosed
  StepsOnItsModel
  AnswersInStep
PROPERTIES
  InferenceContinues
  EveryRequestIsServed
CHECK_DEADLOCK FALSE
