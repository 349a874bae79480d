\* Integer types of two, four and eight bits, with every layout of their bits.
CONSTANT
  Widths = {2, 4, 8}
SPECIFICATION Spec
INVARIANT
  UnpacksToParts
