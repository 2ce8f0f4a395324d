# A verification of the pm220-pico2w firmware

The firmware turns a Pico 2 W into a dongle for a Bluetooth label printer: it
finds and connects the printer over Classic Bluetooth (SPP), serves an HTTP API
and a small web editor over a SoftAP, a WiFi station link and USB Ethernet, and
keeps labels and settings in LittleFS.  It has no threads: a main loop that
runs every 10 ms, and callbacks (lwIP, BTstack, the WiFi driver, USB) that
interrupt it almost anywhere.  Nearly all of what can go wrong is in the order
in which these two touch the same statics, and in radios, links, peers and
files that come and go; that is what the modules here are about.

Paths below are those of the repository, with `src/` in front of the firmware's
directories (`src/bt/bt_core.c`).

## 1. Inventory

### Contexts

| context | runs | can be interrupted |
|---|---|---|
| main loop (`main.c` 46-74) | `wifi_poll`, `bt_poll`, an inquiry every 15 s without a printer, the USER button's test print, `usb_ncm_poll` | between any two steps, except inside `cyw43_arch_lwip_begin/end` |
| background callbacks | lwIP (`http_*`), BTstack (`packet_handler`), the driver's scan results | not by each other, nor by main |
| USB interrupt | `tud_network_recv_cb`, `tud_network_init_cb` | - |

HTTP requests over USB run in main, inside the lock, where they are not
interrupted: for the modules they are callbacks too.

### Components

| component | state | operations | talks to |
|---|---|---|---|
| print channel (`bt_core.c` 714-814, `http.c` 163-201, 655-687) | `tx_job/tx_len/tx_off`, `pumping`, `pending_battery_query`, `print_job` | print, test print, pump, keepalive, channel opened / closed / can send | RFCOMM |
| printer link (`bt_core.c`) | `state`, `rfcomm_cid`, `acl_handle`, `peer_addr`, the retry flags, the page backoff, the scan list | scan, connect, disconnect, inquiry, page, SDP, RFCOMM, pairing retry, `bt_poll` | BTstack; holds the WiFi radio (`wifi_bt_radio_hold`) |
| WiFi radio (`wifi.c`) | `state`, `ap_up`, `connecting`, `pending_*`, `scanning`, `bt_hold`, `bt_hold_resume_ap`, deadlines | `wifi_poll`'s sections, `start_ap`, `begin_join`, `begin_scan`, requests, hold and release | the driver; reads `bt_is_connected` |
| HTTP server (`http.c`) | 8 connections, each a header, an upload, a download or a parked download | recv, sent, poll, err | files, printer, WiFi |
| littlefs (`fs/littlefs/lfs.c`, vendored) | directories: pairs of blocks with logs of tags; the list of pairs; the global state; the allocator's window; open handles | open, write, close, remove, rename, mount, format; inside them commit, compaction, relocation, allocation, recovery | flash; called by `fs.c` only |
| files (`fs.c`) | one write handle, `FS_READS` read handles | begin/write/end/abort, begin/read/rewind/end, delete, rename, list | littlefs; used by HTTP (callbacks) and by settings (main) |
| settings (`wifi.c` 169-300, `bt_core.c` 89-160, `job.c` 131-187) | known networks, policy, printer address, calibration | load, save, deferred save | files |
| USB network (`usb_ncm.c`) | a ring of 4 frames | receive (interrupt), poll (main), reset | lwIP, DHCP |
| DHCP server (`dhcpserver.c`) | 8 leases per interface | discover, request, restart with SoftAP | lwIP |
| mDNS (`mdns.c`) | the interfaces it answers on | add, remove, rename | lwIP |
| job layout (`job.c`, `tspl.c`) | calibration, safe rectangle | layout, crop, build | files |
| web UI (`web/*.js`) | document, undo history, pickers, dialogs | asynchronous requests with retries | HTTP API |

### Where it is hard, and what would be correct

* *One job buffer, two writers, no lock.*  `print_pump` runs in main and in an
  event; jobs are stored by HTTP requests and by the button; drops clear the
  buffer.  Correct: what reaches the printer is whole jobs in order, each
  packet once, no query inside a job; an accepted job is printed or its channel
  was lost; no job stays for ever.
* *A link made of five things that end separately* (inquiry, ACL link, SDP
  query, RFCOMM channel, the user's wish), with retries.  Correct:
  `rfcomm_cid` names a live channel, no attempt lasts for ever, a remembered
  printer is connected again, requests are not forgotten.
* *One radio.*  Paging needs SoftAP off; a station join needs the printer
  connected.  Correct: the radio is held from before a page or an inquiry until
  after it, never for nothing; SoftAP is down under a hold; SoftAP and a
  station link exclude each other; the board is on the air in the end.
* *Handles of which there are few.*  One write handle for uploads and settings,
  a read handle per download, eight connections, peers that stop, break and
  reconnect.  Correct: handles have exactly one owner and come back on every
  way out, partial files disappear, downloads are whole or fail.

* *Power that goes at any moment.*  Settings and labels live in a file system
  without a journal: a directory is a pair of logs, a rename between two
  directories and the move of a worn pair are several commits.  Correct: every
  call has happened as a whole or not at all, directory tree and list agree
  after the next mount, and what exists is never formatted away.
* *No table of free blocks.*  An upload's blocks are in no directory until it is
  closed; the allocator derives what is free from the tree and the open handle.
  Correct: no block has two owners, "no space" is said only when it is true.
* *A ring between an interrupt and main, and a table that forgets.*  The host
  resets the interface in the middle of `usb_ncm_poll`; SoftAP restarts and
  DHCP's leases are gone while the clients keep theirs.  Correct: frames once
  and in order, no deadlock, an address for a host that asks, addresses apart
  as far as the table can know.

`PROJECT.json` lists these hazards one by one, each at its line, with the
properties that would show it going wrong or the reason why none does yet.

## 2. The modules

```
PrintService  <==implements==  PrintChannel        PrintChannelProofs
                               JobLayout                "
BtService     <==implements==  BtLink              BtLinkProofs
     ^ environment of
WifiRadio                                          WifiRadioProofs
HttpFiles  -- what it takes for granted of         HttpFilesProofs
     |        littlefs -->
     DirStore  <==implements==  LfsDir (on LfsTags)  LfsDirProofs
               <==implements==  LfsTree              LfsTreeProofs
                                LfsFile            LfsFileProofs
Network  =  NcmRing + DhcpServer + hosts           NetworkProofs
```

Every module with code has an `MC_` module that gives TLC its constants.  The
`Mutant` operators are changes a plausible bug would make; each property is
known to fail when its mutant replaces the definition after it.

### PrintChannel, PrintService

`PrintService` is the promise: packets of an accepted job reach the printer in
order, each once, nothing in between; only losing the channel ends a job early.
`PrintChannel` is the code, one action per read or write of a shared static,
because main can be interrupted at each of them: `PumpEnter` ... `PumpRequest`
are `print_pump` line by line (`PumpNeed` reads what is left, `PumpUnlock` clears
`pumping`), `StartPrint` ... `Accept` a submission through `bt_print_job`: from
`dispatch`, where a test print is refused only by `bt_print_job` itself, or from
the button, which looks first whether anything is printing.  `Poll` ... `PollKeepalive` the
connected part of `bt_poll`, and the RFCOMM events and `bt_disconnect` are
atomic callbacks.  A cell of a buffer is one packet.  `pc["main"]` and
`pc["irq"]` say where the two contexts are; a callback starts whenever none is
running, and main moves only when none is.

### BtLink, BtService

`b` holds the statics of `bt_core.c` and what the firmware can observe of
BTstack: the inquiry, the SDP client, links paged, up and leaving, the one
RFCOMM channel (`RFCOMM_CHANNELS 1`).  The code's helpers (`begin_sdp`,
`connect_failed`, `bt_connect` ...) are functions of the state, because they
call each other; the events of `packet_handler` and the HTTP requests are
actions that apply them.  `l2cap` registers its event handler before
`bt_core_init` does, so when a link ends the query and the channel on it end
first: `UpperLayersEnd` is part of the link's actions.  `bt_poll` and
`bt_scan_start` in main take several steps (`mpc`), between which callbacks
come in when `Preempt` is TRUE.

A board starts with a printer to page or with none (`PeerLoad`).

`BtService` is what `wifi.c` may rely on: a phase, and a hold that begins
before a page or an inquiry does.  `BtLink` implements it.

### WifiRadio

`wifi_poll` is a chain of sections (`After` gives their order), `start_ap` and
`begin_join` are calls with their own steps (`at`, `back`), because an
interruption inside them matters.  Its environment is `BtService` (every step
of it, with `wifi_bt_radio_hold/release` as part of the step), the HTTP
requests of `wifi.c`, and the driver.  Known networks are one bit (`HaveKnown`)
and a scan may or may not see one.  The word `connecting` in the status that the
web page reads is set and cleared in a dozen places; `ConnectingShown` says that
they fit what the radio does.

### HttpFiles

`h` holds the connections, the handles of `fs.c` and the files, because a
callback changes several of them at once.  A connection's `st` stands for the
flags of `http_conn_t`: `hdr` (a header or a small body is coming), `put`
(`taking_fs_body`), `file`, `pending`, `closing`.  A file is counted in chunks.
What littlefs does is modelled by its result: a file's content changes at its
close (`LfsDir.FileClose`, `LfsFile.Close`), a file
that failed a write or was deleted or renamed meanwhile is not committed, a
reader of a replaced file may read anything (`stale`).  `http_kick_pending`
runs to its end before anything else (`kick`).  Main saves settings in three
calls of `fs.c` (`mpc`), and requests come in between.

### LfsTags, LfsDir, DirStore: one directory

A directory is a log of tags (create, delete, name, contents), and a file is an
*id*, its place in the sorted directory, that moves with every creation and
deletion before it.  `LfsTags` has the three ways the code reads a log, each
with its own correction of ids: `Find` forwards (`lfs_dir_fetchmatch`), `Get`
backwards (`lfs_dir_getslice`), `Compacted` tag against later tags
(`lfs_dir_traverse_filter`), and `HeldId`, the id an open file carries along.
`Replayed` is the reference: the log applied to a sequence of files.  Each reader
is a function of the number of tags read (`Scan`, `Got`, `Kept`, `Written`), so
that one can follow it tag by tag; `Got` recurs from the end, as the code does.

`LfsDir` drives them with the logs that littlefs writes.  `flash` holds two
blocks, each a revision, its whole commits and what follows them (`erased` or
`junk`).  A call of the program puts its tags into `attrs`; `CommitAppend`,
`Erase` and `Program` are `lfs_dir_commit` down to the writes of flash, and
`PowerLoss` may come at each of them and leave any of `Remains`.  `Mount` is
`fs_init`: it formats only when no block has a commit.  `h` is the file open for
writing, of which the close commits with the position it remembered.

`DirStore` is the promise: a change happens as a whole or not at all, it has
happened when the call returns, and stays; only a power loss, which stops the
program (`up`), ends a change without its effect.  A directory is never formatted
away.  `LfsDir` implements it by name (`Decoded`), `LfsTree` by path.

### LfsTree: the tree, the list, and what is half done

Commits are atomic here (that is what `LfsDir` shows).  A pair is reachable from
its entry in the root and from its predecessor in the list; `Commit` appends,
compacts, or moves the pair to a new block, and `FixParent` and `FixPred` are
the two commits that must follow a move (`lfs_dir_orphaningcommit`), each of
which may move in turn.  `Rename` between directories is two commits with a mark
in the global state, which is spread over the pairs as differences (`Delta`)
and is a set of marks here, its sum being the symmetric difference.  `Mount`,
`Demove`, `Deorphan`, `Mkdir` and `Link` are the boot: `lfs_mount`, the
recovery before the first write, and `fs_init`'s directories.  The contents of
blocks that no one reads again before they are written are forgotten (`Kept`).

`Coincide` is about one step.  After a cut that left both a rename half done and a
pair to be relinked, `Demove` is the first to commit; when its pair is worn at just
that moment (`Coincidence`) the code goes wrong, see *A file is lost* below.
With `Coincide = FALSE` this one step does not happen; everything else does.

### LfsFile: the allocator under an upload

`la` is `lfs->lookahead`, `Alloc` is `lfs_alloc` with its eager step and
checkpoint, `w` the one write handle.  A commit that moves the directory
(`CommitRelocated`) allocates without a checkpoint of its own.

### NcmRing, DhcpServer, Network

`NcmRing` has the ring of `usb_ncm.c`.  `usb_ncm_poll` takes several steps, because
`tud_network_init_cb` may come between any two.  At its end
`tud_network_recv_renew` may run `tud_network_recv_cb` in main (`RenewBegin`,
`RenewEnd`): the interrupt may then come between its read of `w` and its step to
the next slot.  `MaxCrossed` bounds how often it does so in one such call.

`DhcpServer` is the lease table: `SlotFor` and `HandleBootp` are the code's, every
message is handled twice as the code does, and a REQUEST gets the slot its last
octet names, whoever holds it and whichever network the address is of.  An
address is therefore its last octet, a slot or `Outside`.  `Network` adds the
hosts (clients as of RFC 2131): they discover, come back with the address they
had (`Rejoin`), or come from another network and ask for the one they had there,
with a last octet of `Octets` (`Arrive`); answers get lost, the interface is reset, SoftAP
starts again.  The history variable `brought` has the hosts that asked for an
address which the present table had not given them.  The two interfaces have a
server each; a behaviour is about one of them (`Interfaces`).

### JobLayout

`job_compute_layout` treats both axes alike, so `Axis` is one of them; `Sent` and
`Place` say which dots of a label `layout_and_build` sends and where they land.
These are pure operators: `MC_Print` evaluates their properties over small pages
in each of its runs, `PrintChannelProofs` proves them for all.

### Time and counters

Deadlines are not counted: one that is armed may be due at any later moment
(page backoff, 60 s boot search, 6 s/14 s join, 2 s loss, 30 s scan, 25 s
keepalive).  That includes every real timing.  Only `retries` (downloads) and
`backoff` are numbers, with the code's own limits; `MaxCredits`, `MaxSize`,
`Cap`, `MaxRetries`, `Slots`, `Reads` are the bounds, all constants; for
littlefs and the network `MaxCalls`, `MaxMoves`, `MaxCuts`, `MaxBlocks`,
`MaxRestarts`, `MaxCrossed`.  Revisions are counted modulo `Revs`, as the code does modulo
2^32.

## 3. The runs

| run | question | bounds | result |
|---|---|---|---|
| `print_channel` | does what reaches the printer follow `PrintService`; does every job leave the buffer | 2 HTTP jobs of 1 and 3 packets, 2 credits, drops, disconnects, reconnects | holds |
| `print_button` | types, one pump at a time, no read past the job, when main submits too | the 3-packet job is the button's | holds |
| `bt_requests` | is `rfcomm_cid` ever stale; is a connect request forgotten; does `BtLink` implement `BtService` | 2 printers, all requests, the stack may refuse a query, callbacks between calls of main | holds |
| `bt_live` | is the radio held when needed and never for nothing, given back, do attempts end, does it reconnect | 1 printer, a user who disconnects, fairness below | holds |
| `wifi_radio` | one role at a time, SoftAP paused under the hold, joins after the printer, the status says `connecting` only while a join runs or waits, joins and AP requests end | known networks, two policies, every `BtService` behaviour, callbacks between calls of `wifi_poll` | holds |
| `files_stored` | owners of handles, no partial files, downloads whole | 3 peers for 2 slots, 2 files of up to 2 chunks, 1 retry, every request, main's save preempted | holds |
| `files_live` | do downloads free their slots | 2 peers, 1 chunk, 2 retries | holds |
| `lfs_dir` | do lookup, read and compaction agree on every log; does an open file stay in step; is every change atomic under power loss, and done when its call returns | 2 names, 2 commits to a block, revisions modulo 4, a cut at every write | holds |
| `lfs_tree` | does recovery mend tree and list; does the global state add up; are renames between directories atomic, and done when the call returns | 9 blocks, the 2 directories of `fs_init`, 2 calls, 3 moves of worn pairs, 1 cut; without the coincidence of the next run | holds |
| `lfs_tree_tired` | does the repair after a mount change nothing, if it may find two pairs worn at once | as `lfs_tree`, with the coincidence | violated: a file is lost |
| `lfs_file` | has every block one owner; is "no space" true | 7 blocks, 2 files of at most 2 blocks, window of 7, every call, moves and cuts without bound | holds |
| `network` | is the ring in step, and alive after a reset; are addresses apart but for those that hosts bring along and for a full table; does a USB host get one | 3 slots, 1 frame of the interrupt inside main's own receive, 1 reset; 3 hosts, 3 leases, 1 restart of SoftAP, hosts from other networks ask for slot 0 or for none; lost answers | holds |

Why the bounds are enough.  Two jobs are what the buffer can confuse, three
packets are a first, a middle and a last.  A second printer is needed only to
confuse addresses (`bt_requests`); one is enough for the order of events of one
link.  Three peers for two slots make one wait, one be refused and one parked;
two chunks let a download be refused after the first.  Downloads beyond one
retry differ only in the count.

Two names are a first and a second id, so that every correction of an id has a
file before and one behind; two commits to a block make every other commit a
compaction, and revisions modulo 4 wrap after a few of them, the same signed
comparison deciding.  Nine blocks hold the root, both directories and one to
move to for each of three moves; two calls are one that is half done and one that
meets what it left, three moves let the move of a pair move its predecessor in
turn, before a cut and in the recovery from it.  A recovery that is cut again
(`MaxCuts = 2`) takes four minutes; it holds, but is left to the proofs, which
bound nothing.  With eight blocks the file of `lfs_tree_tired` would not be lost:
the stale pair has nowhere to move to.  Seven blocks are four for the root and a
directory, and three for two files that would take four: the allocator meets its
limit, and its window is as large as its checkpoint.  The disk of the board has
252 blocks and a window of 256 bits, so that there too the window covers the disk.
Three leases for three hosts make a table that is just full, and overfull with an
address that a host brought along: slot 0, the one that a
full table gives out again, or an octet beyond the pool.  Three slots of the ring are a frame ahead of main, one
behind it, and the one in hand; a reset falls between any two steps.

Three more are run by hand and hold.  `MC_UsbRing.cfg` (2 min) has the ring with its
four slots (`NCM_RX_N`) and two resets, `MC_ApAddresses.cfg` (2 min) hosts from other
networks with every octet.  `MC_BtPreempted.cfg` (10 s): scan and connect requests also between
the steps of main, where `HoldJustified` and `ConnectNotForgotten` hold; both are
proved with such callbacks.

### A file is lost: `lfs_tree_tired`

littlefs repairs what a cut left before the first write after a mount
(`lfs_fs_forceconsistency`), and `lfs.h:736-742` says that this comes "without
other filesystem changes".  It makes up for a cut rename first (`lfs_fs_demove`)
and relinks pairs that moved afterwards (`lfs_fs_deorphan`).  TLC shows that in
this order it can lose the renamed file:

1. `labels/f` is renamed to `settings/f` (`fs_rename`).  The commit to `settings`
   meets a full and tired block (`block_cycles = 500`), so its pair moves.  The
   root's entry of `settings` is changed, and the power goes before the
   predecessor in the list, the root too, is told.
2. After the mount `lfs_fs_demove` commits to `labels`.  This pair is full and tired
   as well and moves; its entry is changed, then its predecessor is looked for in
   the list, where the stale pair of `settings` still stands.
3. The commit goes to that stale pair.  It is as full and as tired as it was in
   step 1, so it moves.  `lfs_fs_parent` compares pairs by overlap and takes the
   entry of the new pair of `settings`, which shares a block, for its entry.
4. `settings` is now the copy of what it was before the rename, and `labels` is
   without the file.

Two directories must get tired within one rename and the power must go at one
point of it; this is rare, but nothing excludes it.  No later mount sees the
damage: tree and list agree again, and by TLC `RecoveredTree`, `GStateRight` and
`OldMDirCurrent` hold with the coincidence too.

### Known weaknesses of the code

Met while modelling.  No text of the repository promises the opposite in most of
these, so they are kept here and under the hazards, not as runs.  The five
configurations named are run by hand, and TLC ends each with a counterexample.

* An accepted job is lost (`MC_PrintLost.cfg`, `AcceptedJobKept`):
  `print_pump` in main finds the job finished, logs, and then clears `tx_len`
  and `tx_off` (`bt_core.c:735`).  A print request in between is accepted (202)
  and wiped.
* The board pages a printer that is connected (`MC_BtPageRace.cfg`,
  `Reconnects`): `begin_sdp` in main writes `ST_CONNECTING` after the state was
  tested (`bt_core.c:357`); a channel that opens in between is forgotten, and
  the next `rfcomm_create_channel` fails because the only channel is open.
* A station link stays up during a page (`MC_WifiStaKept.cfg`, `StaTornDown`),
  against the comment at `src/net/wifi.h:24`: when the drop and the next page
  come before `wifi_poll` has run, `start_ap` is only deferred.
* The board stays off the air (`MC_WifiOffAir.cfg`, `OnAir`): a join request
  while the board is a station, then a drop and a page; the hold gives up the
  station link but does not note that SoftAP must come back, and `wifi_poll`
  drops the join (`wifi.c:922`).
* With callbacks inside `wifi_poll`, SoftAP can be started under a page
  (`start_ap` tests `bt_hold` first and takes many milliseconds), and with
  callbacks inside `bt_poll` the 400 ms resume may be applied to the next page,
  when a drop and a connect request come there;
  a scan request during an inquiry releases the radio under it; settings
  changed while an upload has the write handle are not written.
* Two hosts may hold one address: after SoftAP was restarted, because the server
  forgets and the hosts do not; when a host asks for the address it had on another
  network, because the last octet alone decides (`dhcpserver.c:150-157`) and its
  slot is taken from whoever holds it; and when the table is full, because slot 0
  is given out again.  `AddressesApart` says that these are the only ways.
* The USB ring may stop for ever (`MC_UsbCrossed.cfg`, `RingNeverStuck`): at the end
  of `usb_ncm_poll`, `tud_network_recv_renew` may run `tud_network_recv_cb` in main
  (`usb_ncm.c:116`).  If the interrupt fills two slots or more between its read of
  `ncm_rx_w` and its last line, `ncm_rx_w` steps back in front of a slot that is
  full; when this has happened twice, main may wait at an empty slot while every
  frame is refused for a full one, until the host resets the interface.
  One such frame does no such harm, which is what the runs and the proofs say.
* Columns of a label are lost when an offset cuts it at the left edge and the
  correction then moves it right (`NothingLost` excludes just this).

### Fairness

* Main goes on (`WF MainStep`): the loop has no blocking call.  In `PrintChannel`
  this is strong, `SF MainStep`: requests and events may be without end, but they
  do not follow each other so closely that main never has a turn.
* A callback that has started ends (`IrqStep`, `KickStep`).
* The printer returns credits and the stack reports that it can send
  (`SF` of `Grant` and `CanSendNow`, for the same reason): otherwise BTstack
  reports a closed channel, which then comes (`ChannelClosed`).
* BTstack answers: an inquiry, a page, a query, an open, a close and a
  disconnection it was asked for end one way or the other; each has a timeout
  there.  These are strong, because callbacks wait while main is in a section
  and a page that is started again and again still ends each time.
* The driver's scan ends; deadlines of `wifi_poll` pass (`JoinOver`, `StaLost`,
  `BootOver`: the section is executed again and again with the deadline due).
* Over USB main keeps polling the ring (`WF UsbPoll`), a host repeats its question
  (`WF UsbSend`), and not every answer is lost (`SF UsbInput(TRUE)`).
* lwIP polls every connection (`SF Poll`); the fairness does not say that a
  peer reads, sends or closes anything.

`Reconnects` says "once failures stop", `ApServed` "unless
Bluetooth takes the radio again and again": printers that are switched off keep
the radio held through every backoff, which a comment in `bt_core.c` says is
meant.

## 4. What is proved

TLAPS checks these for every value of the constants (any jobs and sizes, any
credits; any policies; a number of steps without bound).

`PrintChannelProofs` (assuming `ChannelAssumption`):

* `TypeCorrect`, `PumpIsExclusive`, `SendStaysInside`, all from the inductive
  invariant `IInv`.  The properties are not inductive.  Exclusion needs
  `PumpingInv` (a context inside the pump has set `pumping`), which holds
  although `pumping` is read and set without a lock only because a callback
  runs to its end before main continues.  `SendStaysInside` needs `SendInv`,
  which says that a context about to send sees a job with something left or a
  buffer that a drop has just cleared, and this in turn `CopyInv`: a callback
  that copies a job has found none in progress and nothing can start one before
  it ends.  `AdvanceInv` keeps `tx_off` within the buffer across the gap
  between `rfcomm_send` and `tx_off += n`.
* `ChannelServes`: `PrintChannel` implements `PrintService`, step by step, for
  jobs that come from HTTP requests (`TestJobs = {}` is its hypothesis).  The
  USER button submits from main, where a request may come between the test of
  the buffer and the copy; `print_button` checks what remains true then.  The
  invariant ties the packets on the wire to `tx_job` and `tx_off` and to where
  each context is in the pump: between `rfcomm_send` and `tx_off += n` the wire
  is one packet ahead.

`WifiRadioProofs` (assuming `RadioAssumption`):

* `TypeCorrect`, `OneRoleAlways` and `ConnectingIsShown` (`ConnectingShown`) hold
  also when callbacks come inside `wifi_poll`.  `ShownInv` says where on the way
  through `start_ap` and `begin_join` the word `connecting` may differ from what
  the radio does.  `OneRole` alone is not inductive: `RoleInv` adds what is true
  half way through `start_ap` and `begin_join` (SoftAP is down from `joinCall`
  to its return, the link is down between leaving the station and raising
  SoftAP).
* `ApPausedWhenPolled` and `JoinsWaitForPrinter` are proved for callbacks
  between calls of `wifi_poll` (`Preempt = FALSE` is a hypothesis of both;
  without it TLC refutes the first).  `HoldInv` says that once `start_ap` is
  past its test, or `begin_join` has been called, the hold is off and, for the
  join, the printer connected.

At its end, about `JobLayout` (sizes any positive numbers, offsets and corrections
any integers):

* `LayoutInsidePage`, `LayoutInPlace`, `LayoutLosesNothing`: what is sent of a
  label lies on the page, where offset and correction put it, and nothing that
  belongs on the page is missing.  Of the centring only that it is a natural
  number is used (`CentreNat`); the rest is linear arithmetic.
* `LayoutFitsBuffer`: the cropped bitmap fits its buffer, from the ranges of both
  axes and a bound of their product.
* `SafeRectangleInside`: `safe_clamp` puts any four corners on the label.

`BtLinkProofs` (`LinkInvariant`, for any printers, any requests, a stack that
refuses queries or not; callbacks between any two steps of main unless said):

* `LinkTyped`, `CidAlwaysNamed` (`CidNamesChannel`) and `ConnectKept`
  (`ConnectNotForgotten`).  They rely on the order in which a link's end is
  reported (query, channel, link) and on `RFCOMM_CHANNELS 1`.  `Unused` says
  that without a printer to page nothing of the stack is in use but the inquiry,
  `Inquiring` that a scan, and a connect request that waits for its end, have an
  inquiry running or about to be started by main.  Most events end something and
  give the radio back; `Quiet` states once what they do at most, and it composes
  as the code's helpers do.
* `HoldServes` (`HoldJustified`) for users who do not ask for a disconnect, which
  races with main and with the end of an inquiry; `HoldOk` looks into main's
  steps.  `RadioKept` (`RadioHeld`) for users who ask for nothing else: a scan
  request during an inquiry releases the radio under it (section 3).  `HeldOk`
  says who may give the radio back, with a printer and without one.
* `LinkServes`: `BtLink` implements `BtService`, on which `WifiRadio` builds,
  with callbacks between the calls of main (`~Preempt`), as for the run; inside
  them a page may begin in a state that has been tested and is past.

`HttpFilesProofs` (any peers, slots, handles, files and sizes; `MaxSize > 0`):

* `FilesTyped`, `OneWriter` (`WriterOwned`), `OneReader` (`ReadsOwned`),
  `FilesWhole` (`StoredWhole`) and `DownloadsWhole` (`DownloadWhole`), from
  `FilesInvariant`.  `Writing` and `Reading` relate each open handle to the one
  connection (or the save in main) that has it, in both directions, and the
  handle's position to what the client has sent or been given: a download's
  chunks are those up to where its handle stands, a stored file is as long as
  its upload announced.

`NetworkProofs` (any ring size, any hosts and leases; `NoAddr` is no address;
`MaxCrossed <= 1` for the two theorems about the ring, no bound for the others):

* `FramesInOrder` (`RingAligned`), `RingMovesOn` (`RingNeverStuck`) and
  `OneHostPerAddress` (`AddressesApart`).  `RingInv` says that
  from the slot main reads, and, while main is between `netif->input` and
  clearing the slot, from each slot it may read next, the ring has room or
  frames (`TurnInv`), and that the frames are those between the two ends
  (`QueueInv`).  `RenewInv` does the same for main's own receive, during which `w`
  has moved by one slot or by none, whatever reset comes.  `NetInvariant`, with
  `ApartInv`: while no table was full, a host that asked for nothing but what this
  table gave it has its lease, or one that brought an address has taken it, and no
  other host of its kind has the same address.

`LfsFileProofs` (any disk of at least four blocks, any window, any files;
`Absent` is no sequence of blocks):

* `OneOwner` (`BlocksOwned`), `FullIsFull` (`NoSpaceTrue`) and `FileTyped`, from
  `FileInvariant`.  What the properties leave out is the window: between two
  calls it stands at a free block or at its end (the eager step of `lfs_alloc`),
  what it shows as free is needed by no one, and it has no more left than the
  checkpoint (`WindowInv`), so that the walk ends before it meets a block handed
  out since.  `HandleInv` says which blocks the open file alone keeps alive,
  `WantInv` that the commit under way is that of a call.  `Walked` follows
  `lfs_alloc` around the disk: while it finds nothing, each free block is still
  ahead within the checkpoint (`Unseen`), hence none is left when it gives up.
  It is an induction over the steps of the walk, made with a least
  counterexample.

`LfsDirProofs` (any finite set of names, fewer than littlefs has ids; any
contents, revisions and commits to a block; `Absent` is no directory):

* `DirLookupRight` (`LookupRight`), `DirHandleFresh` (`HandleFresh`) and
  `DirImplementsStore`: `LfsDir` implements `DirStore` through `Decoded`; when a
  call returns its change is on the flash, and only `PowerLoss` ends one without.
* Their core is `Reads(L, F)`: the log `L` reads as the files `F`, whichever way
  it is read.  Replaying gives `F`; the match of `lfs_dir_fetchmatch` for each
  name is at its place in `F` (`Placed`); what `lfs_dir_getslice` has for each id
  is what `F` holds (`Holds`); the tags a compaction would write are those of `F`,
  each name once and before its contents (`Lists`).  `ReadsAfter` carries it over
  a tag that `Suits` the directory: an id that exists, a name in order, a created
  file named at once.  Each of the four parts has its own lemma, because each
  reader corrects ids in its own way (`PlacedAfter`, `HoldsAfter`, `ListsAfter`;
  `HeldAfter` for the id an open file carries).
* `CompactedReads`: what a compaction writes reads as the same files again.  It
  follows the written tags one by one (`Part`, `KeptSuits`).
* `LeadsWith`, `LeadsWithout` and `LeadsRewritten`: the tags littlefs appends to
  create, remove and rewrite a file suit every good log; `CreateUnderway`,
  `RemoveUnderway`, `RenameUnderway` and `WriteUnderway` say so of the calls,
  with the change that each makes by name.
* `DirInv` is the inductive invariant: the pair has one block with a good log,
  and the other is empty or one revision older (`Current`, from which
  `lfs_dir_fetchmatch` takes the right one although revisions wrap,
  `LaterNext`); a commit under way leads from the files that are there to those
  after the change (`Underway`); an open file stands for its entry, or for none.
  `AppendedClean` and `ProgrammedClean` are the two writes that make a change,
  `CleanKept` says that an erase or a cut makes none.
* Inductions over logs are made with `Induction` and `Agree` (two readers that
  start alike and do the same with each tag agree), from well-foundedness.

`LfsTreeProofs` (any finite disk with room for the directories, any directories,
files and contents; any number of calls, relocations and power losses;
`Coincide = FALSE`, without which the last of these is false):

* `TreeRecovered` (`RecoveredTree`), `TreeGState` (`GStateRight`), `TreeOldMDir`
  (`OldMDirCurrent`), `TreeImplementsStore`: `LfsTree` implements `DirStore` by
  path, a rename being done when its call returns; and `TreeRepair` (`RepairChangesNothing`).
* The difficulty is to say what a half repaired tree looks like.  `Shape(disk, m, b,
  E, W)`: `m` directories are made; at position `k` of the list the root's entries
  have the pair `E[k]` and the list has `W[k]`.  They are the same up to the break
  `b`.  Behind it the list goes through stale pairs, which share a block with those
  that replaced them (`Side`), and no block is at two positions (`Apart`), so that
  `lfs_fs_parent` and `lfs_fs_pred`, which compare by overlap, find the right pair
  (`ParentsIs`, `PredsIs`).  Of the pairs that the entries have, one at most has a
  tail that is out of date: that is what the coincidence breaks.
* One lemma for what each kind of commit makes of a shape: the same links
  (`Remains`), a new tail at the break (`Relinked`), a pair that moves (`Departs`),
  its new entry (`Reenters`), a new directory (`Enters`).  They rest on what is read
  of a pair after a write (`Wrote`) and after blocks are forgotten (`Forgets`).
* A mark counts when an odd number of pairs has it, so that the global state is a
  sum: `OddXor`, `OddMore` and `OddMap` say how it changes with one pair, with one
  pair more, and under another numbering; `GStateXor`, `GStateSame` and
  `GStateEnter` say so of the disk.
* `At` adds what littlefs knows: which pair waits to be linked and where
  (`RelocRight`), that memory and disk agree on the marks, but while a pair waits
  for its entry (`MarksRight`), and what a program would find once all is linked
  (`Soon`, `DirRight`): the change of a call, whichever of its commits is next.
  One lemma `Keeps...` per action; `Settles` and `Wanders` are what the actions
  that commit have in common.

The proofs follow one plan: an invariant that is a conjunction of named parts,
checked by TLC on the configuration of the run first; a lemma for the initial
states, one lemma per action or group of actions that share what they leave
alone, then `PTL` for the temporal step.  Facts about one slot, handle, host or
file that most steps leave alone are lemmas of their own.

The hypotheses on constants are those of the modules' `ASSUME`s (TLC evaluates
them in the runs) and, where a theorem has an `ASSUME`, those it names; each of
the latter is met by a run (that of `HoldServes` by `MC_BtPreempted.cfg`), and TLC
refutes the property without it.

Only model-checked: all liveness (`JobEnds`, `ConnectingEnds`, `RadioReturned`,
`Reconnects`, `JoinEnds`, `ApServed`, `DownloadEnds`, `AddressGained`), because
fairness and `ENABLED` are out of the prover's reach.  Every safety property of
the runs is proved.

## 5. Not modelled

* Of littlefs: directories that outgrow their pair (`lfs_dir_split`,
  `LFS_OK_DROPPED`) and what only nested directories reach (a parent that moves
  too, `rmdir`; the web API makes no directory below another); the expansion of
  the superblock, a pair that is compacted in place because the disk is full;
  caches, checksums (a commit is whole or not) and the skip list of a file's
  blocks (a sequence here).  Power loss is in these modules but not in
  `HttpFiles`: a cut between `fs_abort_write` and the deletion leaves a part of
  a file, as the hazards say.
* A callback that enters littlefs while main is inside it: undefined, nothing
  locks it.
* Of DHCP and the network: options, times, ARP entries, the frames' bytes; mDNS,
  whose only state is a flag per interface set in the sections of `wifi_poll`.
* The known-network list and its JSON text (entries beyond 1024 bytes of text are
  silently not saved, `wifi.c:239`), the listing of `fs_list_json`, path
  checks and JSON replies, the upload of a bitmap into the shared
  `print_bitmap`, the PIN digits, the choice from the scan list.
* Floats and pixels of the job layout, TSPL texts, USB descriptors (tables),
  `qrcodegen` (third-party, a pure function), the web UI, tools and tests.

## 6. Plan

1. *Done*: `PrintChannel` with `PrintService`, `BtLink` with `BtService`,
   `WifiRadio` on top of `BtService`, `HttpFiles`; the littlefs modules with
   `DirStore`; `NcmRing`, `DhcpServer` and `Network`; `JobLayout`; proofs of
   every safety property.
2. `KnownNetworks` (the list of eight and its text), the listing over lengths,
   the file picker and undo history of the web UI: late answers and retries.
