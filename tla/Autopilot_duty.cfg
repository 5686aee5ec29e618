SPECIFICATION MCSpec
CONSTANTS
  walk = walk
  menu = menu
  dialog = dialog
  t1 = t1
  t2 = t2
  a1 = a1
  a2 = a2
  cli = cli
  tap = tap
  empty = empty
  None = None
  Web = Web
  Watcher = Watcher
  Main = Main
  Callers = {Web, Watcher, Main}
  Blocking = {}
  Threads = {t1}
  Entries = {a1, a2}
  Macros <- MCMacros
  Delays <- MCOneFrame
  Triggers <- MCTriggers
  Macro <- MCMacro
  Loops <- MCLoops
  Screens <- MenuScreen
  SlowPoster = FALSE
  Buttons = {}
INVARIANTS MacroDisplacesTick OneScript QuietAfterShutdown
PROPERTIES StopWorks ShutdownEnds ScreenIsAnswered
