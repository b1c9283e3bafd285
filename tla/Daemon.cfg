CONSTANTS
  Daemons = {d1, d2}
  c1 = c1
  c2 = c2
  Clients <- MCClients
  Nobody = nobody
  Uses <- MCUses
  MaxMishaps = 1
SPECIFICATION Spec
INVARIANTS OneServes Reachable SessionsServed
PROPERTIES SwapsUndisturbed WaitEnds LeavingEnds
