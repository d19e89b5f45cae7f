\* Two connections, handed between two reactor threads and two pool
\* threads, with clients that send ahead or a request in two parts, and a stop().
CONSTANTS
  Conns = {c1, c2}
  Fds = {1, 2}
  Reactors = {r1, r2}
  Workers = {w1, w2}
  Dbs = {d1}
  Query = Query
  Rest = Rest
  Blank = Blank
  Others = {Rest}
  NoDb = NoDb
  None = None
  Listen = Listen
  MaxParts = 2
  Window = 2
  AddMayFail = TRUE
SPECIFICATION Spec
SYMMETRY Symmetry
INVARIANTS
  TypeOK
  OneHandlerPerConnection
  TaskDescriptorIsLive
  SomeReactorFree
  SessionsOutliveHandlers
  FirstOwnerKeepsDatabase
  RepliesInOrder
CHECK_DEADLOCK FALSE
