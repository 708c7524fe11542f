\* One mutation of the queue is for a work order the server does not have.
SPECIFICATION Spec
CONSTANTS
  m1 = m1
  m2 = m2
  m3 = m3
  c1 = c1
  c2 = c2
  None = None
  Queue <- DeletedThenResolve
  Action <- ActionsAfterDelete
  Unknown = {m1}
  Connections = {c1}
  MaxFaults = 0
PROPERTIES
  EveryMutationIsAnswered
CHECK_DEADLOCK FALSE
