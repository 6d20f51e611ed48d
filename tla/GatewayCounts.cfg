SPECIFICATION GatewaySpec
CONSTANTS
  None = None
  Calls = {c1, c2}
  Methods = {"exec", "plain"}
  MaxSteps = 1
INVARIANT
  CountsEveryCall
CHECK_DEADLOCK FALSE
