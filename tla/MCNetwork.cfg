SPECIFICATION Spec
CONSTANTS
  Ctxs = {c1, c2}
  Requests = {q1, q2}
SYMMETRY Symmetry
INVARIANTS
  ResolverAnswers
  UpstreamFair
  PipeWhole
  MethodsAgree
  SignalsKept
  SendExact
  OutputExact
PROPERTIES
  NotLockedOut
CHECK_DEADLOCK FALSE
