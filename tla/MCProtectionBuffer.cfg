CONSTANTS
  Segments <- MCSegments
  MaxBuffers = 3
SPECIFICATION Spec
INVARIANT TypeOK ProtectionRefsBalanced
