------------------------------ MODULE NcmRing ------------------------------
(***************************************************************************)
(* The receive ring of the USB network, usb_ncm.c.  The USB interrupt      *)
(* fills the slot at w and refuses a frame when it is taken; usb_ncm_poll, *)
(* in the main loop, empties the slot at r, and at its end asks TinyUSB    *)
(* for a frame that was refused, so that main fills a slot too.  A slot is *)
(* taken while its length is not 0.  The host may reset the interface at   *)
(* any moment, also between two steps of usb_ncm_poll.                     *)
(***************************************************************************)
EXTENDS Naturals, FiniteSets

CONSTANTS RxN,         \* NCM_RX_N
          NoFrame,     \* what a slot holds before its first frame
          MaxCrossed   \* bound: frames that interrupt main's tud_network_recv_cb

ASSUME RingAssumption == RxN \in Nat \ {0} /\ MaxCrossed \in Nat

VARIABLE rx

Slot == 0..(RxN - 1)
After(i) == (i + 1) % RxN

\* at: the slot that usb_ncm_poll has cleared or is filling; cut: a reset came
\* inside it; frame: what main is filling a slot with; crossed: the frames that
\* have come meanwhile.
RingInit == rx = [data |-> [i \in Slot |-> NoFrame], taken |-> {}, w |-> 0, r |-> 0,
                  pc |-> "idle", at |-> 0, cut |-> FALSE,
                  frame |-> NoFrame, crossed |-> 0]

\* tud_network_recv_cb in the interrupt; TinyUSB keeps a frame that is refused,
\* and offers it again.  In the slot that main is filling, either frame's bytes
\* may be the last.
RecvCb(f) ==
    /\ rx.w \notin rx.taken
    /\ rx.pc = "renew" => rx.crossed < MaxCrossed
    /\ \E last \in IF rx.pc = "renew" /\ rx.w = rx.at THEN {f, rx.frame} ELSE {rx.frame} :
         rx' = [rx EXCEPT !.data[rx.w] = f, !.taken = @ \cup {rx.w}, !.w = After(@),
                          !.frame = last,
                          !.crossed = IF rx.pc = "renew" THEN @ + 1 ELSE @]

\* tud_network_recv_cb in main, through tud_network_recv_renew: w is read and its
\* slot found empty, ...
RenewBegin(f) ==
    /\ rx.pc = "idle" /\ rx.r \notin rx.taken
    /\ rx.w \notin rx.taken
    /\ rx' = [rx EXCEPT !.pc = "renew", !.at = rx.w, !.frame = f]

\* ... the slot is filled, and w steps on from where it was read.
RenewEnd ==
    /\ rx.pc = "renew"
    /\ rx' = [rx EXCEPT !.data[rx.at] = rx.frame, !.taken = @ \cup {rx.at},
                        !.w = After(rx.at), !.pc = "idle", !.at = 0,
                        !.frame = NoFrame, !.crossed = 0]

\* Mutants: w is not reset; the frames are kept.
InitCbKeepsW == rx' = [rx EXCEPT !.taken = {}, !.r = 0, !.cut = rx.pc # "idle"]
InitCbKeepsFrames == rx' = [rx EXCEPT !.w = 0, !.r = 0, !.cut = rx.pc # "idle"]

\* tud_network_init_cb; the frames' bytes stay.
InitCb == rx' = [rx EXCEPT !.taken = {}, !.w = 0, !.r = 0, !.cut = rx.pc # "idle"]

\* usb_ncm_poll: the length is read, ...
PollTake == rx.pc = "idle" /\ rx.r \in rx.taken /\ rx' = [rx EXCEPT !.pc = "take"]

\* ... the frame is copied and handed to lwIP, ...
PollInput == rx.pc = "take" /\ rx' = [rx EXCEPT !.pc = "input"]
Frame == rx.data[rx.r]

\* Mutant: r steps on before the length is cleared.
PollClearLate ==
    /\ rx.pc = "input"
    /\ rx' = [rx EXCEPT !.pc = "clear", !.at = rx.r, !.taken = @ \ {After(rx.r)}]

\* ... the length is cleared, and r steps on: it is not volatile, and may be read
\* once for both or twice.
PollClear ==
    /\ rx.pc = "input"
    /\ rx' = [rx EXCEPT !.pc = "clear", !.at = rx.r, !.taken = @ \ {rx.r}]
PollNext ==
    /\ rx.pc = "clear"
    /\ \E i \in {rx.at, rx.r} : rx' = [rx EXCEPT !.pc = "idle", !.at = 0, !.r = After(i)]

Poll == PollTake \/ PollClear \/ PollNext \/ RenewEnd

----------------------------------------------------------------------------
(* Properties *)

\* The frames wait in the slots from r to w, so that they are read in order,
\* unless a reset came between two steps of usb_ncm_poll.
RingAligned ==
    LET r == IF rx.pc = "clear" THEN After(rx.r) ELSE rx.r
    IN  ~rx.cut => /\ (rx.w - r) % RxN = Cardinality(rx.taken) % RxN
                   /\ \A k \in 0..(Cardinality(rx.taken) - 1) : (r + k) % RxN \in rx.taken

\* Whatever resets came, the two sides never wait for each other: usb_ncm_poll for
\* a frame at r while the interrupt refuses every frame for want of room at w.
RingNeverStuck == rx.pc = "idle" /\ rx.w \in rx.taken => rx.r \in rx.taken
=============================================================================
