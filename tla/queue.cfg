\* Two readers, one of which opens and closes the queue, and a writer, which wait in
\* every way.
SPECIFICATION FairSpec
CONSTANTS
  None = None
  Readers = {r1, o}
  Writers = {w}
  Owners = {o}
  N = 2
  MaxOps = 4
  Modes = {"try", "timed", "forever", "select"}
CHECK_DEADLOCK FALSE
INVARIANTS
  TypeOK
  SlotsConserved
  DownIsEmpty
  NeverInconsistent
PROPERTIES
  WriterServed
  OwnerReturns
  ReaderServed
