CONSTANTS
  Accounts   = {a1, a2}
  Bare       = a1
  Remote     = {r1}
  Keys       = {k1, k2}
  NoKey      = NoKey
  Specs      = {"auto:high", "high:auto"}
  ValidSpecs = {"auto:high"}
  MaxRuns    = 3
SYMMETRY KeySymmetry
SPECIFICATION Spec
CHECK_DEADLOCK FALSE
INVARIANTS
  SavedConfigUsable
  EnteredKeyTakesEffect
  LaunchVetted
