CONSTANTS
  Names <- MCNames
  Excludable <- MCExcludable
SPECIFICATION Spec
INVARIANT
  RoundTrip
