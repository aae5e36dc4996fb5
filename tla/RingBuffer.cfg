SPECIFICATION Spec
CONSTANTS
  a = a  b = b
  Byte = {a, b}
  Zero = a
  Size = 4
  MaxLen = 5
INVARIANTS IndicesAgree
PROPERTIES ImplementsByteQueue
