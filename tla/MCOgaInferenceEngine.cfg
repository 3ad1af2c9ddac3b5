SPECIFICATION Spec
CONSTANTS
  Models = {m1, m2}
  NoModel = NoModel
  MaxPrompt = 2
  IntMax = 5
INVARIANT
  TypeOK
  OneModel
  FinishIsTrue
PROPERTY
  ImplementsGeneration
  CallsReturn
