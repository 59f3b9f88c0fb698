SPECIFICATION FairSpec
CONSTANTS
  Count = 4
  Empty = Empty
  Session = {s1, s2}
  Message = {a, b}
  RXFLOW_MIN = 1
  RXFLOW_MAX = 2
  Reading = {s1}
INVARIANTS RingIsSound
PROPERTIES ImplementsQueues FlowResumes
