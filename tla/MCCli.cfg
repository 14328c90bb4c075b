\* Two clients and the processes they start, from several situations.
SPECIFICATION Spec
CONSTANTS
  p1 = p1  p2 = p2  c1 = c1  c2 = c2
  None = None  Main = Main
  Procs = {p1, p2}
  Callers = {c1, c2}
  Clients = {c1, c2}
  MaxCommands = 3
  Situations <- MCSituations
  Cwd <- Wd
  IdOf <- Ids
SYMMETRY Symmetry
INVARIANTS TypeOK ServingIsReachable StoppedMeansStopped RunAtMostOnce ActsOnFound SelectorsAgree LocalRunIsDocumented
PROPERTIES NoTheft
\* Clients may have nothing more to ask.
CHECK_DEADLOCK FALSE
