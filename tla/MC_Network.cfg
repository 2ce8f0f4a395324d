SPECIFICATION FairSpec
CONSTANTS
  a = a
  b = b
  c = c
  RxN = 3
  NoFrame = NoFrame
  MaxCrossed = 1
  Clients = {a, b, c}
  UsbHost = a
  Nobody = Nobody
  NoAddr = NoAddr
  Leases = 3
  Interfaces = {"usb", "ap"}
  Octets = {0, 3}
  MaxRestarts = 1
INVARIANTS RingAligned RingNeverStuck AddressesApart
PROPERTY AddressGained
