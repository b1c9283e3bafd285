CONSTANTS
  Daemons = {d1, d2, d3}
  c1 = c1
  c2 = c2
  Clients <- MCClients
  Nobody = nobody
  Uses <- MCUses
  MaxMishaps = 1
SPECIFICATION Spec
PROPERTIES SecondIsRefused
CHECK_DEADLOCK FALSE
