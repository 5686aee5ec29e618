SPECIFICATION Spec
CONSTANTS
  walk = walk
  menu = menu
  dialog = dialog
  t1 = t1
  t2 = t2
  a1 = a1
  a2 = a2
  None = None
  Web = Web
  Watcher = Watcher
  Main = Main
  Callers = {Web, Watcher, Main}
  Blocking = {}
  Threads = {t1, t2}
  Entries = {a1, a2}
  Macros <- MCMacros
  Delays <- MCDelays
  Triggers <- MCTriggers
  Macro <- MCMacro
  Loops <- MCLoops
  Screens <- AnyScreen
  SlowPoster = FALSE
  Buttons = {"files", "stop"}
SYMMETRY Objects
INVARIANT MacroDisplacesTick
