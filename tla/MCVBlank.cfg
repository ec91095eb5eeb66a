SPECIFICATION Spec
CONSTANTS
  Callers = {"main", "vint"}
  Planes = {"A"}
  Values = {0, 1}
  Ranges = {"P0", "P1"}
  Levels = {0, 7}
  NumFrames = {3}
  CallbackScrolls = FALSE
  WaitsForQueue = TRUE
INVARIANTS ScrollIsKept FadesComplete
PROPERTIES TasksAreDone
