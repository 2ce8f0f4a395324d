SPECIFICATION Spec
CONSTANTS
  a = a
  b = b
  c = c
  RxN = 4
  NoFrame = NoFrame
  MaxCrossed = 3
  Clients = {a}
  UsbHost = a
  Nobody = Nobody
  NoAddr = NoAddr
  Leases = 1
  Interfaces = {"usb"}
  Octets = {0, 1}
  MaxRestarts = 0
INVARIANT RingNeverStuck
