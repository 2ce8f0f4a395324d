SPECIFICATION Spec
CONSTANTS
  a = a
  b = b
  c = c
  RxN = 4
  NoFrame = NoFrame
  MaxCrossed = 1
  Clients = {a, b, c}
  UsbHost = a
  Nobody = Nobody
  NoAddr = NoAddr
  Leases = 3
  Interfaces = {"ap"}
  Octets = {0, 1, 2, 3}
  MaxRestarts = 1
INVARIANT AddressesApart
