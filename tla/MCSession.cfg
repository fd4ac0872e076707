\* Two commands at once, on one service or not, failing, interrupted or killed at any stage.
SPECIFICATION Spec
CONSTANTS
  p1 = p1
  p2 = p2
  Procs = {p1, p2}
  Services = {a}
  a = a
  Operator = Operator
  None = None
  Torn = Torn
  Blank = Blank
  Setups <- MCSetups
  MaxKeys = 2
SYMMETRY Interchangeable
INVARIANTS TypeOK NothingLeft TerraformHasAgent SecretsReadable KeyOpensVM CollectionsReady
