\* One reader walks through a log of up to three events, on pages from the server and
\* from the cache; INSERTs fail, and another client asks for a page whose offset wraps.
SPECIFICATION Spec
CONSTANTS
  NULL = NULL
  Events = {ev1, ev2, ev3}
  Readers = {rd1}
  Handlers = {h1}
  PageSizes = {1, 3}
  FirstSize = 1
  StaleTime = 1
  AskedPages = {3}
  AskedSizes <- MCAskedSizes
  DefaultSize = 2
  Half = 4
  MaxTime = 2
  Faults = {"failed"}
SYMMETRY Symmetry
INVARIANTS
  TypeOK
  WalkFindsEveryEvent
  TotalCoversPage
