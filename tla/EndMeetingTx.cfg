SPECIFICATION ResolverSpec
CONSTANTS
  Enders = {e1, e2, e3}
  Nobody = Nobody
PROPERTY EndReturns
CHECK_DEADLOCK FALSE
