\* A client that is alone is served.
CONSTANTS
  Conns = {c1}
  Fds = {1}
  Reactors = {r1, r2}
  Workers = {w1, w2}
  Dbs = {d1}
  Query = Query
  Rest = Rest
  Blank = Blank
  Others = {Query, Rest, Blank}
  NoDb = NoDb
  None = None
  Listen = Listen
  MaxParts = 3
  Window = 2
  AddMayFail = FALSE
SPECIFICATION ServingSpec
PROPERTIES
  RequestsServed
CHECK_DEADLOCK FALSE
