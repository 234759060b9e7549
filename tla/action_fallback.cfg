SPECIFICATION Spec
CONSTANTS
  MaxSteps = 3
  Credentials <- MCCredentials
  Legacy <- MCLegacy
INVARIANTS AllIsAuditable
