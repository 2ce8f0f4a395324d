------------------------------ MODULE Network ------------------------------
(***************************************************************************)
(* How a host gets its address: over USB, where its frames go through the  *)
(* receive ring (NcmRing) and the host may reset the interface at any      *)
(* moment, or over SoftAP, where a frame is handled as it comes and the    *)
(* server is started anew with every start of SoftAP.  Each interface has  *)
(* a server of its own; `link' says which one a behaviour is about.  Any   *)
(* answer may be lost.  A late answer and the one awaited do not differ.   *)
(***************************************************************************)
EXTENDS NcmRing, DhcpServer

CONSTANTS UsbHost,
          Interfaces,   \* those that behaviours are about: "usb", "ap"
          Octets,       \* how addresses end that hosts bring from other networks
          MaxRestarts   \* bound: resets of the interface, starts of SoftAP

ASSUME NetworkAssumption ==
    /\ UsbHost \in Clients /\ Interfaces \subseteq {"usb", "ap"} /\ MaxRestarts \in Nat
    /\ Octets \subseteq Slots \cup {Outside}

VARIABLES
    link,       \* "usb" or "ap"
    host,       \* what each host does: st, and the address it holds or remembers
    restarts,
    brought,    \* history: hosts that asked for an address not of this server's giving
    evicted     \* history: a full table has made the server give out slot 0

vars == <<rx, lease, link, host, restarts, brought, evicted>>

Hosts == IF link = "usb" THEN {UsbHost} ELSE Clients

Init ==
    /\ RingInit /\ lease = NoLeases
    /\ link \in Interfaces
    /\ host = [c \in Clients |-> [st |-> "off", addr |-> NoAddr]]
    /\ restarts = 0 /\ brought = {} /\ evicted = FALSE

----------------------------------------------------------------------------
(* Hosts: DHCP clients as of RFC 2131 *)

Become(c, st, addr) == host' = [host EXCEPT ![c] = [st |-> st, addr |-> addr]]
HostOnly == UNCHANGED <<rx, lease, link, restarts, evicted>>

Discover(c) ==
    /\ c \in Hosts /\ host[c].st = "off"
    /\ Become(c, "discover", host[c].addr) /\ UNCHANGED brought /\ HostOnly

\* A host that comes back asks for the address it had, ...
Rejoin(c) ==
    /\ c \in Hosts /\ host[c].st = "off" /\ host[c].addr # NoAddr
    /\ Become(c, "request", host[c].addr) /\ UNCHANGED brought /\ HostOnly

\* ... or for the one it had on another network, which may end like a slot.
Arrive(c) ==
    /\ c \in Hosts /\ host[c].st = "off"
    /\ \E octet \in Octets \ {host[c].addr} :
         /\ Become(c, "request", octet)
         /\ brought' = IF octet \in Slots THEN brought \cup {c} ELSE brought
    /\ HostOnly

\* It leaves, or gives up for a time.
Leave(c) ==
    /\ c \in Hosts /\ host[c].st # "off"
    /\ Become(c, "off", host[c].addr) /\ UNCHANGED brought /\ HostOnly

\* What a host sends, again and again; a renewal names no slot.
Asks(c) ==
    CASE host[c].st = "discover" -> {Message(c, "discover", NoAddr)}
      [] host[c].st = "request"  -> {Message(c, "request", host[c].addr)}
      [] host[c].st = "bound"    -> {Message(c, "request", NoAddr)}
      [] host[c].st = "off"      -> {}

\* An OFFER is requested, an ACK says which address to use.
Told(m, addr) ==
    LET st == host[m.mac].st
    IN  IF st = "discover" /\ m.type = "discover" THEN Become(m.mac, "request", addr)
        ELSE IF st \in {"request", "bound"} /\ m.type = "request" THEN Become(m.mac, "bound", addr)
        ELSE UNCHANGED host

----------------------------------------------------------------------------
(* The server behind its interface *)

Serve(m, heard) ==
    /\ lease' = HandleTwice(lease, m)
    /\ evicted' = (evicted \/ Evicts(lease, m))
    /\ IF heard THEN Told(m, Given(lease, m)) ELSE UNCHANGED host

\* SoftAP: ap_input_log.
ApInput(c, heard) ==
    /\ link = "ap" /\ c \in Hosts
    /\ \E m \in Asks(c) : Serve(m, heard)
    /\ UNCHANGED <<rx, link, restarts, brought>>

\* USB: into the ring, ...
UsbSend ==
    /\ link = "usb"
    /\ \E m \in Asks(UsbHost) : RecvCb(m)
    /\ UNCHANGED <<lease, link, host, restarts, brought, evicted>>

\* ... also from main, ...
UsbRenew ==
    /\ link = "usb"
    /\ \E m \in Asks(UsbHost) : RenewBegin(m)
    /\ UNCHANGED <<lease, link, host, restarts, brought, evicted>>

\* ... and out of it: ncm_input, unless there is no pbuf.
UsbInput(heard) ==
    /\ PollInput
    /\ Serve(Frame, heard)
    /\ UNCHANGED <<link, restarts, brought>>

UsbInputFails == PollInput /\ UNCHANGED <<lease, link, host, restarts, brought, evicted>>

UsbPoll == Poll /\ UNCHANGED <<lease, link, host, restarts, brought, evicted>>

UsbReset ==
    /\ link = "usb" /\ restarts < MaxRestarts
    /\ InitCb /\ restarts' = restarts + 1
    /\ UNCHANGED <<lease, link, host, brought, evicted>>

\* start_ap: dhcp_server_init clears the table; the hosts may not notice.
StartAp ==
    /\ link = "ap" /\ restarts < MaxRestarts
    /\ lease' = NoLeases /\ restarts' = restarts + 1
    /\ brought' = { c \in Clients : host[c].addr \in Slots } /\ evicted' = FALSE
    /\ UNCHANGED <<rx, link, host>>

Next ==
    \/ UsbSend \/ UsbRenew \/ UsbPoll \/ UsbInputFails \/ UsbReset \/ StartAp
    \/ \E heard \in BOOLEAN : UsbInput(heard) \/ \E c \in Clients : ApInput(c, heard)
    \/ \E c \in Clients : Discover(c) \/ Rejoin(c) \/ Arrive(c) \/ Leave(c)

Spec == Init /\ [][Next]_vars

\* main runs on; a host repeats its question, TinyUSB offers its frame again, and
\* not every answer is lost.
FairSpec ==
    /\ Spec
    /\ WF_vars(UsbPoll) /\ WF_vars(UsbSend)
    /\ SF_vars(UsbInput(TRUE)) /\ WF_vars(UsbInput(FALSE) \/ UsbInputFails)

----------------------------------------------------------------------------
(* Properties *)

\* Two hosts have one address only when one of them asked for an address that
\* the present table had not given it, of another network or from before the last
\* start of SoftAP, or a full table has made the server evict a host.
AddressesApart ==
    \A c, d \in Clients :
        /\ c # d /\ host[c].st = "bound" /\ host[d].st = "bound"
        /\ host[c].addr = host[d].addr
        => evicted \/ c \in brought \/ d \in brought

\* A USB host that keeps asking gets an address, also when a reset has put the
\* ring out of step, so that a frame is read only after later ones.
Asking == link = "usb" /\ host[UsbHost].st \in {"discover", "request"}
AddressGained == Asking ~> ~Asking
=============================================================================
