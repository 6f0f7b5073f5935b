SPECIFICATION Spec
CONSTANTS
  p1 = p1
  p2 = p2
  t1 = t1
  Threads <- MCThreads
  MaxResources = 2
  Programs <- MCPrograms
  MaxWrites = 2
  MaxRedirects = 2
  URLs <- MCURLs
  SetCookies <- MCSetCookies
  OwnCookies <- MCOwnCookies
  Calls <- MCCalls
  MaxCookies = 2
  LambdaWorkers = {"w1", "w2"}
  Window = 3
  TimeLimit = 2
  MaxClock = 5
  Runtimes = {"r1", "r2"}
  MaxStarts = 4
SYMMETRY ProgramsPermuted
INVARIANTS CookiesStay RequestsSound ResourcesKept FilesKept LoadedIfAlone
 
CHECK_DEADLOCK FALSE
