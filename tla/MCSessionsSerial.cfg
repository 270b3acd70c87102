SPECIFICATION Spec
CONSTANTS
  Sessions = {p1}
  Tool = tool
  MaxRows = 3
PROPERTY ImplementsRegister
