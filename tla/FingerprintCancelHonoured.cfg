SPECIFICATION Spec
CONSTANTS
  Clients = {c1}
  NoClient = NoClient
  MaxCount = 8
PROPERTY CancelHonoured
