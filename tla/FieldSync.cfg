\* A device that starts and resolves an order offline, over two connections:
\* retries that race each other, lost messages and a dispatcher's cancellation.
SPECIFICATION Spec
CONSTANTS
  m1 = m1
  m2 = m2
  m3 = m3
  c1 = c1
  c2 = c2
  None = None
  Queue <- StartThenResolve
  Action <- Actions
  Unknown = {}
  Connections = {c1, c2}
  MaxFaults = 2
INVARIANTS
  TypeOK
  EffectsAreLogged
PROPERTIES
  ExactlyOnceSpec
  EveryMutationIsAnswered
CHECK_DEADLOCK FALSE
