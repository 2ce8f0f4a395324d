----------------------------- MODULE DhcpServer -----------------------------
(***************************************************************************)
(* The lease table of dhcpserver.c.  A slot is an address; a lease has no  *)
(* end, and a client is known by its MAC.  Times, options and the bytes of *)
(* the messages are left out.                                              *)
(***************************************************************************)
EXTENDS Naturals, FiniteSetsExt

CONSTANTS Clients, Nobody,
          Leases,           \* DHCP_SERVER_MAX_LEASES
          NoAddr            \* no requested-IP option in a REQUEST

ASSUME DhcpAssumption ==
    /\ Nobody \notin Clients
    /\ Leases \in Nat \ {0}
    /\ NoAddr \notin 0..Leases

VARIABLE lease

\* An address is known by its last octet alone, counted from DHCPS_BASE_IP: a
\* slot, or an octet that is none.
Slots   == 0..(Leases - 1)
Outside == Leases
NoLeases == [i \in Slots |-> Nobody]

Message(c, type, req) == [mac |-> c, type |-> type, req |-> req]

\* The client's own slot, else the first empty one, else the first.
SlotFor(l, c) ==
    LET mine  == { i \in Slots : l[i] = c }
        empty == { i \in Slots : l[i] = Nobody }
    IN  IF mine # {} THEN Min(mine) ELSE IF empty # {} THEN Min(empty) ELSE 0

\* A REQUEST gets the slot that its last octet names, whoever holds it and
\* whichever network the address is of.
Named(m) == m.type = "request" /\ m.req \in Slots

Given(l, m) == IF Named(m) THEN m.req ELSE SlotFor(l, m.mac)

\* Mutant: an offer reserves nothing.
HandleRequestOnly(l, m) == IF m.type = "discover" THEN l ELSE [l EXCEPT ![Given(l, m)] = m.mac]

\* dhcp_handle_bootp: a DISCOVER takes its slot as well.
HandleBootp(l, m) == [l EXCEPT ![Given(l, m)] = m.mac]

\* A message comes twice, from the hook on the frames (dhcp_try_eth_input or
\* ap_input_log) and from the UDP port (dhcp_cb).
HandleTwice(l, m) == HandleBootp(HandleBootp(l, m), m)

\* The table is full and a client that is not in it gets the first slot.
Evicts(l, m) == ~Named(m) /\ \A i \in Slots : l[i] \notin {m.mac, Nobody}
=============================================================================
