CONSTANTS
  InputLength = 6
  OutputLength = 6
  SIZE = 5
  Lengths = {0, 1, 3}
  Inputs <- MCInputs
  Outputs <- MCOutputs
SPECIFICATION Spec
INVARIANTS TypeOK LinesAsSent BodyExact OutputExact
