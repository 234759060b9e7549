SPECIFICATION Spec
CONSTANTS
  MaxSteps = 3
  Credentials <- MCCredentials
  Legacy <- MCLegacy
INVARIANTS NothingPaidFor OutcomeIsHonest SecretStaysOut EffortIsBounded WhatWasDoneIsKept
