SPECIFICATION Spec
CONSTANTS
  e1 = e1
  e2 = e2
  e3 = e3
  laptop = laptop
  my_laptop = my_laptop
  desk = desk
  Envs = {e1, e2, e3}
  Names <- MCNames
  Label <- MCLabel
  Typed = {my_laptop, desk}
  SecretName <- MCSecretName
  Callers = {c1}
  Asked = {e1, desk, None}
  MaxCommands = 2
  None = None
INVARIANTS TypeOK StoresAgree CarriesItsToken ListedAreReachable
