# MHSnet: specifications of the message network's daemons

MHSnet (the Message Handling System) is a store-and-forward message network.
A host hands messages to its neighbours over *virtual circuits* (modem lines,
TCP connections, ...); each neighbour routes them on or delivers them. This
directory holds TLA+ specifications of the parts of it that are hardest to get
right: the daemons that move a message across a circuit that breaks, loses and
repeats things, and go on where they stopped after a crash; the router that
hands a message on and must not lose it when it is stopped half way; the lock
that keeps two daemons off one link; and the supervisor that keeps them all
running.

Every definition is translated from the C source; `PROJECT.json` maps each one
to the lines it stands for. "The code" below is `src/`.

## 1. The system

| part | state | operations | talks to |
|---|---|---|---|
| link daemon `VCdaemon`, reader process (`receiver.c`, `gap.c`, `bufferio.c`, `reader.c`, `status.c`) | four inbound channels (state, message id, address reached, gap list, good address, write buffer); a status file; message files in the spool directory | one handler per packet type (`RecvData`, `Recv_EOM`, `Recv_SOM`, `RecvRMQE`, ...); `EndMesg`; flush, abort, finish, restart | the writer process through a pipe; the router through commands files |
| link daemon, writer process (`transmitter.c`, `writer.c`, `message.c`, `commands.c`) | four outbound channels (state, address sent, window count, retry times); its status file; queued commands files | `StartMessage`, `WriteChan`, `Send_EOM`, `SendSOM`, `RecvEOMA`, `RecvNAK`, `RecvSOMA`, `DoTime`, `FindMessage` | the circuit; the reader through a pipe |
| packet layer (`packet.c`, `cook.c`, `crc.c`) | a byte buffer | frame, check, resynchronise | the circuit |
| `HTdaemon` | as `VCdaemon`, half duplex; shares `bufferio.c`, `gap.c`, `message.c` | | |
| node-to-node daemon (`NNdaemon/NNproto`, `NNdaemon/Daemon`) | a window of packets, sequence numbers modulo 8; two message channels | send, receive, acknowledge, NAK, reset, time out | |
| router and handlers (`Handlers`) | directories of commands files; routing tables | take a commands file, read the message, route or deliver it, unlink it | the link daemons' spool directories |
| supervisor (`Init/RunProgs.c`) | a table of processes | start, reap, reschedule, shut down | its children |
| library (`Lib`): locks (`SetLock`, `MakeLock`, `DaemonActive`), message database (`MsgsDB`), names | lock files; a hashed file | | every daemon |
| state and routing (`State`, `Route`) | the map of the network | merge updates, compute paths | the router |
| headers (`Header`, `FtHeader`), user and operator programs (`Control`, `Utilities`, `Admin`), circuit set-up (`VCsetup`) | none that lasts, or interactive | formatting, parsing, dialogue | |

A message crosses a link like this. The transmitter sends SOM (start of
message, with id and size); the receiver makes a file and answers SOMA with the
address to start from. DATA packets carry an address each. When all are sent
the transmitter sends EOM, and repeats it. The receiver NAKs every gap it
notices, at once and again for each EOM; the transmitter sends the gap again.
When nothing is missing the receiver flushes and closes the file, writes a
commands file for the router, answers EOMA, and the transmitter deletes its
copy. Four channels do this side by side. A session ends when the circuit does;
a later one resumes half-sent messages, from what both ends kept in their
status files.

When a message is whole, the receiver leaves a commands file in the routing
directory. A router (there may be several) lists the directory, locks a
commands file, reads the message's header, looks the message up in a data-base
of broadcasts it has seen, gives it to a local handler, links it into the
queues of the links it goes out on, and unlinks data and commands file. When it
is told to finish in the middle, or a handler fails, it leaves the commands
file for the next router, with flags that say what was done.

Daemons and routers are started by netinit, from a table it reads from
`initfile`; it starts each again when it ends, takes commands through a file
and a signal, and stops everything on SIGTERM. A link daemon may also be started
by a call from the other end, or by hand: a lock file, `cmds/lock`, is to keep
a second one off the link.

### What is hard

* **Recovery.** A daemon resumes from two things written at different times,
  the length of the message file and the saved `goodaddr`. Data behind a hole
  makes the file long; a status file can be old, or newer than the data (an
  error exit saves the status without flushing the buffer).
* **Atomicity.** Passing a message on, acknowledging it and recording that are
  three writes to three places, and the daemon can die between any two. It can
  also end there in good order: a handler writes its answers into a pipe, and when
  the writer has gone, or does not empty the pipe, the reader leaves the handler
  half way and saves the status that it has reached.
* **Order and repetition.** Packets are lost; NAKs, SOMs and EOMs are repeated
  because the answer was late. Data arrives in any order and many times.
* **Arithmetic over addresses.** The gap list and the write buffer split and
  merge ranges; one wrong boundary shows for one alignment only.
* **Sequence numbers of three bits**, with packets held that came too early,
  resets of either end that may cross, and control packets that go ahead of data
  queued before them.
* **The file system as shared memory.** Locks, queues and process numbers are
  files; a name can be removed and made again between any two system calls, and
  a file lives on, locked, without its name.
* **Signals and wait(2).** Children end at any time, their ends are reported
  once, to whoever waits first; SIGTERM runs the whole shutdown in its handler.
* **Limits.** The spool file system fills up; the NAK budget is a measured rate
  that can be 0, and an unsigned number that can wrap; one call of `SendNAK` asks
  for a limited number of bytes.

`PROJECT.json` lists each hazard at its line, with the properties that cover it
or the reason none does yet.

### What makes the parts correct

* receiver: a message passed to the router is whole; an acknowledged message
  has been passed on and is not lost before it is routed; a message is passed on
  once, or marked as a possible duplicate; whatever is missing is known to be;
  no file is left behind.
* gap list: exactly what is missing, in order, and asked for as far as the limits
  on NAKs let it.
* write buffer: every byte in its place; nothing overwritten; a crash loses
  only what was buffered.
* transmitter: a copy is deleted only after an honest acknowledgement (one way to a
  dishonest one is in the code, section 3); every message is sent in the end, or
  given up.
* packet protocol: in-order delivery without loss or duplication in spite of
  sequence numbers modulo 8, between two resets that do not meet other traffic.
* router: until a message has been everywhere it is to go, a copy that will
  take it there is in the directory; what goes anywhere a second time is marked.
* lock: one daemon is active on a link, and its lock can be found.
* supervisor: one process for each entry; none forgotten, missed or left behind;
  what is to run is started again.

## 2. Modules

| module | models | correspondence |
|---|---|---|
| `Gaps` | `gap.c` | the linked list as a sequence of records `[s, e, n]` (`start_gap`, `end_gap`, `send_gap`); the loops are functions of how many gaps they have passed: `Fill` what the walk of `FillGap` has made of them, `StopsAt` and `Swallows` where those of `QueueGap` end, `Left` the budget `NAKGaps` has left; `SendNAK` how much of a gap one call asks for: `MaxNAKs` NAKs of `MAXNAKSIZE` bytes each (`4*OutDataSize`, and as many NAKs as fit in `OutDataSize` bytes: some 85 at 1024), or one NAK for a whole message |
| `MCGaps` | the calls that `RecvData` and `Recv_EOM` make of it | `list`, `good`, `msgaddr`, `eoms` are `ch_gaplist`, `ch_goodaddr`, `ch_msgaddr`, `ch_eomcount`; `missing` is the set the list should stand for; `asked` what the last handler did: budget, count, the addresses its NAKs name, the end of the message. A budget can be 0 (`Budgets`): the rate `receiver.c:411` uses can be |
| `MCGaps_proofs` | | theorems about `Gaps` and `MCGaps` |
| `MessageFile` | the abstract specification of a message file | a packet is handed over and stored bit by bit; what is safe stays; a crash loses the rest |
| `WriteBuffer` | `WriteData`, `FlushWData` (`bufferio.c`) | an action is the code from one change of the file to the next; the write point is the kernel's file offset; the content of a byte is the address it belongs at |
| `ReadBuffer` | `ReadData` and `FlushRData`, under `SendData`, `RecvNAK`, `RecvSOMA`, `WriteChan` and the set-up of a message | below |
| `Relay` | a message's way through a node: `WriteBuffer`, the router's `LinkCmds`, `ReadBuffer` | below |
| `Relay_proofs` | | theorems about `WriteBuffer` and `Relay` |
| `VCReceiver` | one channel of the reader process, its status file and message files, the router and the transmitter as far as the receiver sees them | below |
| `VCReceiver_proofs` | | theorems about `VCReceiver`: the file of a message; what becomes of the messages passed on |
| `MCReceiver` | | instances of `VCReceiver`, symmetric in the message ids |
| `HandOver` | the abstract specification of a link | messages queued at one host are received at the other, each once and in order; a host forgets a message only when the other has it |
| `VCLink` | the transmitter, the circuit, and `VCReceiver` at the other end | below |
| `VCLink_proofs`, `MCLink` | | theorems, also about the receiver in the form its run checks; instances of `VCLink` |
| `PacketProtocol` | both ends of a packet channel of `NNproto`, with the daemon's queues of packets | below |
| `PacketProtocol_proofs` | | theorems about `PacketProtocol` |
| `Router` | the routers of one node and their directory | below |
| `Router_proofs`, `MCRouter` | | theorems; an instance: two copies of a broadcast |
| `LinkLock` | a link's lock file and everything that handles it | below |
| `LinkLock_proofs`, `MCLinkLock` | | theorems; an instance: three callers |
| `Supervisor` | netinit, its table and its children | below |
| `Supervisor_proofs`, `MCSupervisor` | | theorems; an instance: a RESTART and a CRON entry |

`VCLink` extends `VCReceiver`; `Relay` extends `WriteBuffer` and instantiates
`ReadBuffer`, whose files are those of the former; `MCGaps`, `WriteBuffer` and `VCReceiver` meet in
what they say of one data packet (below). `PacketProtocol`, `Router`, `LinkLock`
and `Supervisor` stand alone: they touch the link only through files, and what
one assumes of another is said with it (`VCReceiver`'s router takes a message
when its commands file is there; `VCLink` is restarted by somebody).

### ReadBuffer and Relay

`parts` is `ch_partlist` as `getcommand` builds it; `current`, `msgfile`,
`msgaddr`, `obufstart`, `obufend`, `obuffer`, `outstate`, `eof` are the fields and
flags of the channel; `fileaddr` is `fileaddr_part` of the current part, where the
code believes the open file to stand, and `seekpos` where it stands; `nak` is what
`RecvNAK` keeps on its stack (with `CH_IGNBUF`), `packet` what `SendData` has
collected. A step is one call of `ReadData`, of `SendData`'s loop, or of a handler.

| code | actions |
|---|---|
| `ReadData`, by its three ways | `FromBuffer`; `FromFile` (large, or for a NAK); `Refill` (a block) |
| an error of `open`, `read` or `lseek` | `IOError` (`BadMesg`) |
| `SendData`, `WriteChan` | `WriteChan`, `StopAhead`, `FirstEOM`, `WritePacket` |
| `RecvSOMA` with `FlushRData`; `RecvNAK`; `RecvEOMA` with `FindMessage` | `RecvSOMA`; `RecvNAK`, `RecvNAKAll`; `RecvEOMA` |
| `setactive`; `InitStatus` | `SetActive`; `Resume` |

SOMA and NAK packets with any address come at any time, the size of a packet
changes from one to the next as `AdjPktSize` has it, and `Ulong` wraps at `ULONG`:
`bufstart` lies below 0 when the data of a message does not begin at a block of
its file. That happens when the router returns a message that is too large and
cuts off its beginning (`router.c:3144-3170`): `Starts` of `Relay`. In `Relay` the
file that `WriteBuffer` has filled is the first part of the outgoing message and
a header of the router's the second (`Outgoing`), and a byte is known by the place
it belongs at, so `RelayedRight` speaks of the whole way.

### VCReceiver

State: `chan` holds the fields of `Chan` that survive in the status file
(`ch_state`, `ch_msgid`, `ch_goodaddr`, the flag `CH_RDUP`); `msgaddr`, `open`
(`CH_MSGFILE`), `bufstart`, `bufend`, `gaps` are those that do not; `saved` is
the status file; `files` and `disk` the message files; `passed`, `taken`,
`routed` the router's queue and what it found; `tmsg`, `somad` the
transmitter; `acked`, `halfway`, `resumed`, `lives` are history. Each branch of a
handler that runs to its end is one action. `EndMesg` is three (`PassMessage` in
the handler that calls it, `SendEOMA`, `EndMesgDone`), because an end of the
daemon between its writes makes a difference.

Most signals only set a flag or leave the read (`main.c:1040`), but two things end
a handler half way, both in `WritePkt`, where it hands a packet to the writer. The
writer has gone: `write` fails with EPIPE, and `Syserror` calls `finish`, which saves
the status and does not flush (`io.c:266-274`, `main.c:677`). The writer does not read
from the pipe: the alarm that `WritePkt` has set finds `WriterBlocked` and jumps to
`read_cleanup`, which flushes, and to `finish` (`reader.c:66-79`, `:244-258`). Where the
channel is then as `ErrorExit` or `Stop` leaves it, nothing is added; elsewhere there
is an action: `ExitCreating` for the SOMA of a new file, `ExitPassing` for the EOMA,
`ExitNAKing` for the NAKs of `QueueGap`, `RecvData` and `Recv_EOM`. `halfway` collects
the messages that `ExitCreating` saves in a channel that has ended: their id is
taken at `receiver.c:849`, the state is changed at `:909`, and the SOMA is written
between the two.

| code | actions |
|---|---|
| `RecvData` | `DuplicateData`, `FillingData` (below `ch_msgaddr`), `NextData`, `AheadData`, `DroppedData` (no space) |
| `EndMesg` | `PassMessage`, `SendEOMA`, `EndMesgDone` |
| `Recv_EOM` | `EOMAgain`, `EOMOfNothing`, `EOMOfSome`, `EOMWhileStarting` |
| `Recv_SOM` | `SOMAgain`, `SOMRepeated`, `SOMResumed`, `SOMNoFile`, `SOMNew`, `Echo` |
| `RecvRMQE` | `RecvMQE` |
| `Write_Status` by the clock or another channel | `Checkpoint` |
| `read_cleanup`; end of the session; `Error()`; death | `Flush`; `Stop`; `ErrorExit`; `Kill`, `KillCreating` |
| `WritePkt` to a writer that has gone or does not read | `ExitCreating`, `ExitPassing`, `ExitNAKing` |
| `InitStatus` | `Restart` |

Two abstractions are justified elsewhere: a gap list is the set of its addresses
(`MCGaps!ListIsRuns`, `NeverGrumbles`, proved in `MCGaps_proofs`: the list is the ordered
list of the maximal runs of that set, and the merging loop of `QueueGap` never
runs), and `WriteData` is one step whose result is given in closed form
(`WriteBuffer` has the steps; between two system calls a kill leaves a subset of
the packet, which is a packet cut short).

The environment is as free as the circuit can make it: a data packet of the
transmitter's message with any address arrives at any time, any number of
times or never; SOM at any time; EOM once a SOM of this session was answered, or
again after its message was acknowledged; the transmitter takes another message
once this one was acknowledged. Its own
timers and windows only restrict this.

`Faults` chooses what may go wrong: `"kill"`, `"create"` (a kill between
creating a file and saving the status), `"error"` (an `Error()` exit before a
handler has changed anything: status saved, buffer not flushed), `"pipe"` (an exit
inside a handler, as above), `"echo"`, `"space"`, `"slow"` (the NAK budget is 0).
A broken circuit (`Stop`) is always possible. `SendNAK` splits a gap into NAKs of
`MAXNAKSIZE` bytes and stops after `MaxNAKs` of them, as in `Gaps`.

`MCReceiver` adds a variable that does not change, `calm`: a behaviour meets
either all of `Faults`, or none but `"error"`: its sessions end between two handlers,
with the status saved. Some properties (`SpoolWhenCalm`, `NoneTwiceWhenCalm`) hold
only of the latter, and one run checks both. `"pipe"` breaks them: after
`ExitPassing` the channel saved is still `ENDING`, and the message is passed on
again; after `ExitCreating` the new message's file is nobody's.

### VCLink

`VCLink` extends `VCReceiver` with the writer process of the daemon that sends:
`has` and `tmsg` (`ch_msgid`), `outstate` (`ch_state`), `outaddr`
(`ch_msgaddr`), `eof` (`CH_EOF`), `count` (`ch_count`), `somdue`
(`ch_cntrltime` is 0), `outsaved` (its status file), `queue` (its commands
files); and with the circuit: `fwd` and `back` are first in, first out, and
include the pipes between the two processes of each daemon. A packet is lost
at the head of a queue, as a damaged one is dropped by its CRC on arrival.

| code | actions |
|---|---|
| `FindMessage`, `setactive`, `StartMessage` | `CleanUp`, `FindMessage` (apart, since a death between them leaves a queue without the message) |
| `WriteChan` | `SendSOM`, `SendAhead`; `SendNext`, `FirstEOM`; `RepeatEOM`, `TooManyEOMs`, one for each branch |
| `RecvEOMA`, `RecvSOMA`, `RecvNAK` | of the same names |
| `DoTime` | `SendMQE`; the conditions on the time of the other actions |
| `PassPackets` and the receiver's handlers | `DeliverSOM`, `DeliverDATA`, `DeliverEOM`, `DeliverMQE`: a packet arrives, the handler of `VCReceiver` runs, its answers leave in any order |
| `SendEOMA`, `EndMesg`'s end | `Acknowledge`, `Finish` |
| `checkactive`, `BadMesg` | `Cancel` |
| `finish`, `SigCatch`, `InitStatus` | `Break`, `HangUp`, `ReceiverFails` (the receiver's exits inside a handler), `KillReceiver`, `KillTransmitter`, `Connect` |

A session ends for both daemons together: the circuit is gone and what was on
it is lost; `Connect` starts both from their status files. A packet in the
model names its message only where the code's does: the id in a DATA packet is
history, read by `mixed` alone. The messages have one size.

`KeepsReceiverSpec` says that every behaviour of the link is one of
`VCReceiver`: what that module assumes of its environment is what the
transmitter does, so the receiver's properties and theorems hold in the link
(with no message cancelled). The run leaves out deaths of the receiver and its exits
inside a handler, the theorem `LinkKeepsReceiverSpec` does not. It is
what showed that an EOM can be answered after the transmitter has gone on to
another message.

### PacketProtocol

`xmit[e]` is the transmitter of end `e` (`chn_xstate`, `chn_xseq`, `chn_nxpkt`,
`chn_xpkts`), `recv[e]` its receiver (`chn_rstate`, `chn_rseq`, `chn_rpkts`: the
packets held because they came too early). The daemon has two queues (`PQ.h`,
`queue.c`) and writes a data packet only when no control packet waits
(`driver.c:392-480`): ACK, NAK, TIMEOUT and the resets go onto the circuit at once,
`wire`, and data into `pktq[e]`, from where `Transmit` takes them, one by one, at any
later time. `qPkt` queues a data packet by its buffer: one that is sent again while
it waits moves to the end of the queue. `wire[e]` is what is on its way to `e`, in
order. `epoch`, `freed`, `got` and `crossed` are history. Precv is called from
one loop, so a packet's handler is one action; a timer goes off whenever its
condition holds. The walks of Rack, Rnak and Movenak through slots and numbers are functions of
how many they have passed. A `Reply` carries a sequence number, and as history the
packet its sender means by it. Of the receivers in `crossed` nothing is claimed. One gets
there in two ways: it sends a reset while another of its exchanges is under way (no
packet tells which reset it answers), or its reset is answered by an end that has
data queued (`RecvXMT_RESET`): the answer overtakes them, no reset empties the queue
(`PXreset`, `Pinit.c:207-232`), and what was numbered in the old epoch arrives in the
new one, where its numbers are good.

| code | actions |
|---|---|
| `Psendc` | `Send` |
| `qPkt`; the loop of `driver` that writes | `qPkt`, `Queue`; `Transmit` |
| `Precv`, by type of packet | `NextData`, `RetriedData`, `SkippedData`, `DataWhileReset`; `RecvACK`, `RecvNAK` |
| `Rcontrol` | `RecvTIMEOUT`, `TimeoutWhileReset`, `RecvXMT_RESET`, `RecvACK_RESET`, `RecvREQ_RESET` |
| `Rack`, `Rnak`, `Skipseq`, `Movenak`, `Retry`, `Psend`, `Preset` | operators of these names, `Hold`, `Accept` |
| `Ptimo` | `RequestAgain`, `ResetAgain`, `SendTIMEOUT` |
| `Pinit` | `Init`, `Restart` |
| the circuit | `Lose` |

### Router

`router[r]` holds where router `r` is and its variables (`CmdFlags`, `Cleanup`,
`Finish`, the list of the directory, ...); `queue`, `flags`, `data`, `bad` and
`lock` are the directory, `known` the data-base of broadcasts. `lock[m]` is a
set, because a commands file that was opened before another router unlinked it
can still be locked and read. A step is what lies between two changes that
another router, or one that comes after a death, can see.

| code | actions |
|---|---|
| `listbuild`, the main loop | `ListBuild`, `EndPass`, `Finished`, `Open`, `Locked`, `Lock` |
| `route`: header, filters, `NetReroute`, errors | `Accept`, `Bad`, `FilterStops`, `LeaveUnrouted`, `RouteFails`, `NoHeader` |
| `LookupMsgsDB`, `CloseMsgsDB` | `Lookup`, `EndPass` |
| `deliver` and a handler's exits | `NoDelivery`, `Delivered`, `HandlerFails` |
| `doroute`, `filter`, `spool` to a link | `LeaveLinks`, `DoRoute`, `Spool`, `FilterOut` |
| `cleanup` | `UnlinkData`, `Cleared`, `UnlinkCmds` |
| `leave_cmds`, `handlebad`, `finish` | operators of these names, in the actions that call them |
| signals, death, a new router | `Term`, `Die`, `Start` |

`given[i][p]` is how often message `i` went to place `p` without a mark that it
may be a duplicate. `spoilt` collects messages to which one of the known
exceptions (section 3) has happened.

### LinkLock

A caller `c` (`VCsetup/call.c`, or `shell.c` when the other end calls) becomes
the daemon's reader, `Reader(c)`, which forks `Writer(c)`. `file` is the file
that has the name, `lck_pid[f]` what is written in file `f`, `lock[f]` who has
it locked. One action per system call that matters.

| code | actions |
|---|---|
| `SetLock`, `MakeLock`, `lockfile`, `write_lock` | `Start`, `Stat`, `MakeLock`, `Open`, `LockFile`, `Alarm`, `Refused`, `Granted`, `write_lock` |
| `ReSetLock` (the writer) | `ReSetTest`, `ReSetWrite` with `Open`, `LockFile` |
| `call.c` `finish` when the call fails | `GiveUp`, `Unlinking` |
| `VCdaemon/main.c`: fork, `finish` | `Fork`; `WriterEnds`, `Finish`, `FinishLock`, `Reap`, `FinishUnLock`, `FinishUnlink`, `Exit` |
| death of any process | `Die` |

### Supervisor

`Procs` is the table (`OldProcs` while it is rescanned); `status`, `pid`, `check`
are fields of an entry; `ProgsActive`, `loops`, `count`, `active` the code's
variables; `proc[p]` and `of[p]` the kernel's view of process `p` and the entry
it was started for. `reaped` is what wait(2) returned, to RunProgs and to
netshutdown: the two can both have one, when SIGTERM comes. `resume` says where
netinit goes on after netshutdown, which newtime calls at four places.

| code | actions |
|---|---|
| `RunProgs`, top; `doscan`, `parse` | `Top`, `doscan` |
| `NetMessage`, `perform` | `ChangeStatus` (stop, kill, curtail, start), `Scan`, `ShutdownCommand` |
| the loop over the table, by branch | `Begin`, `Skip`, `Remove`, `Disable`, `Stop`, `Watch`, `End` |
| `Run1Prog` | `Fork`, `Record` (SIGTERM can come between fork(2) and the assignment) |
| wait, pause, their ends | `Reap`, `Interrupt`, `NoChild` |
| `exhume` | `Exhume`, and in `Downed` |
| `inter`, with `geterrors`' mail and the wait of its `ExClose` | `Inter`, `Lose`, `Mailed` |
| `newtime`; `netshutdown` | `TimeBack`; `KillAll`, `Timeout`, `AllDown`, `Downed` |
| `NetSig`, `termin` | actions of these names |

A number of a process is taken as the least that is free, as numbers have no
meaning; the loop visits entries in a fixed order. A start is due or not
(`Fork` or `Skip`): the delays are not modelled.

## 3. Runs

Deadlock is checked in `relay`; the others stop by design (all messages
have ended, or a bound is reached).

| run | bounds | shows |
|---|---|---|
| `gap_list` | 6 bytes, packets of 1 to 6, 3 EOMs, two NAKs of one byte for a gap (less than most gaps), budgets 0, 1, 3 and 7 (none, less than a gap, less than all, more than all); `Huge` = 100 stands for the wrapped budget | `ListIsRuns`, `NeverGrumbles`, `EndsWhole`, `SecondEOMAsks` |
| `relay` | 6 bytes, blocks of 4, packets of 1 to 4 coming in: at most half a block and above, aligned or not, spanning a boundary, a partial last block; a header of 2, data handed on from byte 0 or 1, packets of 1 to 3 going out, any NAK, SOMA, read error and restart, any number of messages after each other; 404,000 states, 2 minutes | `NothingMisplaced`, `NothingLost`, `StoresInPlace`, `RelayedRight`, `NeverRunsDry` |
| `receiver` | 2 messages of 3 bytes, blocks of 2, packets of 1, one NAK of one byte for a gap, 3 lives, all faults but `slow`; 478,000 states | `NoFatal`, `Tracked`, `ResumePointSafe`, `WholeWhenPassed`, `RoutedWhole`; calm: `SpoolWhenCalm`, `NoneTwiceWhenCalm` |
| `link` | 2 messages of 3 bytes in packets of at most 2, 1 packet sent ahead, 2 lost packets, queues of 2, timers at any time, NAKs for one byte of a gap, `MAX_EOMS` 2, one break or death of the transmitter; 227,000 states | `NotMixed`, `KeepsReceiverSpec`, `HandsOver` |
| `link_kill` | the same with messages of 1 byte; either daemon may be killed, the receiver may end inside a handler, any message may be cancelled; 1,888,000 states | `Kept`, `NoUnexpectedEOM`, `EOMAHonest` |
| `link_fair` | 2 messages of 3 bytes in packets of 1, 2 lost packets, one break, patient timers, three NAKs of one byte for a gap, `MAX_EOMS` 3; 186,000 states | `NeverGivesUp`, `HandsOverAll` (liveness) |
| `packets` | sequence numbers modulo 8, 2 buffers, 9 packets, data queued for any time, 3 losses, 1 restart or timed reset; 769,000 states | `PacketTypeOK`, `InOrder`, `FreedIsGiven`, `NAKedIsHeld` |
| `packets_fair` | 2 buffers, 3 packets, 3 losses, patient timers; 33,000 states | `AllGiven` (liveness) |
| `router` | 2 routers, 2 copies of a broadcast with a handler here and a link, filters, one SIGTERM or death | `RouterTypeOK`, `NothingLost`, `RepeatsMarked` |
| `link_lock` | 3 callers, 3 lock files, 2 waits broken off, 2 deaths, with or without an old lock file; 68,000 states | `LockTypeOK`, `OneDaemonUnlessRaced`, `LockIsThere` |
| `supervisor` | a RESTART entry and a CRON entry that netinit may not signal, 3 process numbers, 2 events (commands, new initfiles, clocks set back, lost ends, SIGTERM); 178,000 states | `SupervisorTypeOK`, `OneCopy`, `NeverPausesInVain`, `NoneLeft`, `StartsAgain` (liveness) |
| `receiver_twice` | 4 bytes, no fault but broken circuits, 3 lives | violates `RoutedAlwaysWhole` |

### Why the bounds are enough

The queues of a circuit hold two packets (a handler's answers, and the packets
for one NAK, may add to that), enough for a packet to arrive after the state
it answers to has changed; two losses are what it takes to lose a packet and
the one that would repair it. `FILEBUFFERSIZE` is 2 in the receiver runs so that
a packet of one byte is buffered (it is not more than half a block) and a message
spans two blocks. `MaxLives` bounds the number of daemons started; three let a
message be resumed twice. The bound on EOMs in `gap_list` is one more than the
number that makes the count of NAKs per gap differ from gap to gap.

Nine packets are one more than there are sequence numbers, so a number is used
again; three losses can hit a packet, the answer and the timer's packet. In
`packets_fair` three packets in two buffers use one buffer twice.
`MAXNAKSIZE` and `MaxNAKs` are so small that most gaps are larger than one call of
`SendNAK` asks for; only `link_fair` gives one call enough for the message.
A router run needs two copies of one id for the data-base to matter, two routers
for the window between opening and locking a file, and one end; `OneEnd` and
`NoRace` are constraints that stop following a behaviour once the properties
except it. Three callers let one remove a file that a second has taken from
under a third. Two events let a command, a rescan, a lost end or a
clock that is set back meet SIGTERM or another of them, and two entries of
different type and owner let one end while netinit handles the other. Deaths of
children are not bounded.

### Fairness

`link_fair` assumes weak fairness of the writer (`Transmit`, `Answers`), of the
delivery of packets and the reader's steps, of the end of a daemon whose circuit
is gone (it gets a read or write error) and of its restart (the supervisor's
work); not of losses, breaks or status saves. `Patient` adds that a SOM or EOM
is repeated only when no packet is under way and that the NAK budget allows
for all gaps at a second EOM, as `NAKGaps` does when the measured data rate is
that of the circuit, each as far as `SendNAK` goes (`AllAskedFor`); with it
`LinkAssumption` asks for messages no longer than one call of `SendNAK` can ask
for (`MsgSize <= MAXNAKSIZE * MaxNAKs`, some 340 kB in the code at packets of 1024):
a larger gap takes several EOMs though nothing is lost. Under it `TooManyEOMs` never happens while `MAX_EOMS` is
more than the number of packets lost; it is 20 in the code (with `MAX_EOMS`
equal to that number it does, so the bound is the best possible). Without
patience the daemon may end after 20 answered EOMs; that is why `link` has
impatient timers and a small `MAX_EOMS`.

`packets_fair` assumes weak fairness of handling what arrives, of sending and of
writing what is queued, and
strong fairness of the timers (`Ptimo` is called again and again from the loop
that reads the circuit, and finds its condition true if it often is), and, by `Patient`, that a timer outlasts a round trip. Losses are
finitely many; they are not fair.

`supervisor` assumes weak fairness of netinit's steps; strong fairness of
`Interrupt` (an alarm is set before every wait and pause, so a wait that other
children keep ending is interrupted at some time), of the start of a RESTART
entry (its delay is bounded by `MAXDELAY`), of `Skip` for the other entries
(`CRONDELAY` lies between two starts of one, so they do not keep netinit in the
loop), and of `Reap` for each process (wait(2) returns every child that has
ended). Nothing is assumed of children, operators or the clock.

### Mutants

Each property is known to be able to fail: `PROJECT.json` names for each a
changed definition (the operators commented "Wrong:") under which its run
reports a violation.

### What was found

The run `receiver_twice` shows a disagreement with what the documents say of
the program; `PROJECT.json` "findings" has the lines. *Two interruptions lose a
hole*: `FillGap` sets `goodaddr` to the message size when the gap list empties;
after a resume the list does not know of the holes that were in the file
already beyond the address reached. Interrupted again, the message is resumed
at the end of its file. Hence the restriction of `WholeWhenPassed`,
`RoutedWhole` and `Tracked` to messages resumed at most once.

Other behaviours the properties had to except, and how to see each with TLC:

* link daemon
  * A NAK budget of 0 (`"slow"` in `Faults`, `WholeWhenPassed`): after a long
    silence the measured rate is 0 and the first EOM ends a message with gaps.
  * An aborted message (`"echo"`, `"space"` in `Receiver.cfg`, `EOMAHonest`) is
    left in the state of a received one, and is acknowledged when it is started
    again.
  * A SOMA that cannot be written (`"pipe"`; `EOMAHonest` and `Kept` without their
    `halfway`): the id and size of a new message are in the channel
    (`receiver.c:849-855`), its state is still that of the one before, and `finish`
    saves that. The next SOM of the message is answered with an EOMA
    (`receiver.c:770-782`), and the sender deletes a message that nobody has received.
    The comment above `SendEOMA` is "Signal successful message reception by writing
    EOMA packet to writer's output pipe" (`receiver.c:919-921`).
  * An EOMA that cannot be written (`"pipe"`; `NoneTwiceWhenCalm` with it among the calm
    faults): the message was passed on (`receiver.c:129`), `ENDING` is saved, and it
    is received and passed on again.
  * A gap of a message that `SendNAK` does not ask for in full waits for the next
    EOM or the checkpoint in `RecvData` (`SecondEOMAsks` says how much is asked for).
  * Killed between EOMA and status (`NeverLost` with `"kill"`): the file of a
    message that was acknowledged is removed before the router takes it
    (`receiver.c:131-139`, `:846`).
  * Two messages mixed (`NotMixed` in `LinkKill.cfg`): DATA packets do not name
    their message (`receiver.c:185`). When one whose end was sent is cancelled
    (`message.c:486-491`) and the next one's SOM is lost, the data sent ahead of it
    fills the first one's gaps.
* read buffer
  * A later part that does not begin at a block of its file (in `Relay`, a header
    with `start` 1): the buffer filled from it also claims the addresses before the
    part, and a NAK for those is answered from the buffer with bytes of the wrong
    file. `CH_IGNBUF` (``Bypass current buffer'', `transmitter.c:391`) is only looked
    at when the address is not in the buffer (`bufferio.c:102`, `:147`). The
    router's own commands files have no such part; `getcommand` accepts them.
  * After an error of `read` in `RecvNAK`, `OutDataSize` stays as small as the NAK
    was (`transmitter.c:386`, `:397` is jumped over). Packets of every size are
    modelled, so no property depends on it.
* packet protocol
  * Resets that cross, and data overtaken by the answer to a reset (`crossed`): an
    answer does not say which reset it answers, and data queued before it is taken
    for data of the new epoch. `InOrder` and `FreedIsGiven` without the exception
    fail, the second way even without a loss.
  * With as many buffers as half the sequence numbers (`Pnbufs` 4) a packet that is
    held twice is given a wrap later. The daemon's default is 3 (`Daemon/main.c:68`).
* router
  * A broadcast that the router leaves for the next one on an orderly shutdown:
    its id was noted (`router.c:2741-2763`), and `leave_cmds(MESG_DUP)` does not set
    `RE_ROUTE` (`router.c:1748` says "Leave CmdsFile for later processing."), so
    the next router drops it as a duplicate. The same after a death behind
    `LookupMsgsDB`.
  * What `handlebad` keeps as evidence is lost when the commands file was left
    before; several routers (`-N`) can open a commands file that another has
    just finished, and a router finds a message without its data.
  * `MsgsDB` does not mark a page it has just made as real (`MDB_real`), and the
    router does not come back to commands files that were locked in its list.
  `spoilt` marks the messages these happen to; without `OneEnd`'s `spoilt = {}`
  TLC goes on from there.
* lock (`races`; drop `NoRace` from the cfg and check `OneDaemon`, which is what
  `Manuals/netdaemon.8:374-377` says of the file)
  * `"create"`: stat(2) finds no file, and creat(2) then empties one that another
    caller has made, locked, written and unlocked (`SetLock.c:147-154`).
  * `"unlink"`: the daemon unlocks the file and then unlinks it
    (`main.c:679-686`); so does a call that fails.
  * `"unlinked"`: a file that was opened before it was unlinked is locked and
    taken. `"half"`: the process in it has ended before the other one of its
    daemon. `"move"`: it was locked for so long that it is moved away.
* supervisor
  * ExClose's wait(2) takes the ends of other children (`Lib/Execute.c:214`). The
    entry is given up by `check`, which goes from 1 to 2 only when a wait is
    interrupted: `StartsAgain` needs the alarm.
  * exhumepp does not subtract from ProgsActive, which may stay too high until
    the next `exhume`; it is never too low (`NeverPausesInVain`).
  * SIGTERM between fork(2) and the assignment of its result, or while doscan has
    the table in a local variable, leaves children behind (`caught` excepts it
    from `NoneLeft`).
  * An entry that was dropped from initfile and comes back while its process
    ends keeps status REMOVE (doscan copies it) and vanishes from the table at
    its end. "start" or "stop" for such an entry revives it.
  * A rescan sends SIGKILL to what was dropped, and new RESTART entries are
    enabled (`netcontrol.8:108`, `netinit.8:43` read differently); an entry that
    dumps core is delayed, not disabled (`netinit.8:211`); "stop" of a CRON entry
    lasts until it next is due; of two entries with one name a rescan forgets a
    child.

## 4. Proofs

Each argument below is an inductive invariant. TLC confirmed it on a small
instance before it was proved; the theorems then hold for every value of the
constants that the module's named assumption allows.

### Gaps

For every message size, number of EOMs, limits of `SendNAK` and set of budgets, 0
among them (`NAKAssumption`, `GapsAssumption`), `MCGaps_proofs` proves the three
invariants and the action property that the run `gap_list` checks: `ListIsRuns`,
`NeverGrumbles`, `EndsWhole` (a message that ends with a budget of 0 is its
exception, since then no gap is visited), `SecondEOMAsks`. The invariant `IInv` has

| Conjunct | Says | Why it is needed |
|---|---|---|
| `Ordered` | no gap is empty, each ends before the next starts | every walk: it is what lets one stop early |
| `Within` | every gap starts at ch_msgaddr or below, ends within the message, and was NAKed for no more EOMs than came | only the last gap can reach what `QueueGap` queues, so it never grumbles or swallows one; at a new EOM each is due again |
| `Covered(list) = missing` | the list stands for what is missing | `ListIsRuns`, and that an ended message is whole |
| `good = GoodFor(list)` | goodaddr is the start of the first gap, the message's size when there is none | `ListIsRuns`: with an empty list the next gap has to lower it |

The proofs are about the loops first. `FilledRight`: what `FillGap` leaves of an
ordered list is ordered and covers what it did without the data. It rests on
`PieceRight`, of one gap, and on `FillRight`, by induction over the gaps
passed, whose hypothesis also says that what was made so far ends before the next gap
starts. `StopsAtLast` and `QueueGapRight`: where the walk of `QueueGap` stops, and
that the gap is added or joined to the last. `NAKWalkRight`, and `NAKsAll`: a budget
larger than the message is never used up, because what is left after a gap is at
least the budget less that gap's end; so the unsigned wrap-round cannot happen. What is
asked for is said of the set, not of the list: of each maximal run of missing
addresses the first ones, as far as `SendNAK` goes (`WithinReach`).
The induction theorems of the library take a predicate, which no prover here can
instantiate; `SetInduction` is stated for a set instead, from the library's
well-founded minimum (`WFMin`), and a proof by it names the set of numbers for which
its hypothesis holds.

### WriteBuffer

For all `MsgSize`, `FILEBUFFERSIZE`, `MaxPkt` in `Nat \ {0}`
(`SizeAssumption`), `Relay_proofs` proves of the writing half each property the run checks, the
invariants `TypeOK`, `WritePoint` (bufstart is the file's write point, as a
comment in the code says) and `BufferFits`, the action property `Durable` (what
is in the file is not overwritten), and that `WriteBuffer` implements
`MessageFile` (`BufferRefinement`). The invariants are not inductive alone. `IInv` adds that
the buffer holds its own range's bytes (`BufferRight`: a flush puts them where
they belong because bufstart is the write point) and what is known inside a
call (`InStep`: the data pointer moves with the address, and in the loop the
buffer is empty and starts at the address). There is one lemma per action, and
one step in it per conjunct; `FillBlock`, the loop body, is first reduced to its
effect (`FillBlockEffect`). The refinement rests on `Progress`, proved per
action: a step stores exactly the part of the packet it takes off the rest.

### Relay

For every size of message, header, block and packet, and every set of places
from which the router may hand data on, `Relay_proofs` proves every property of the
run `relay`: `RelayedRight`, `NeverRunsDry`, and what `WriteBuffer` promises
(`RelayNothingMisplaced`, `RelayNothingLost`, `RelayStoresInPlace`: the relay
implements `MessageFile` until the file is handed on, and does not touch it
afterwards). `RelayInv` says that nothing is sent while the message comes in, that
the file is whole when it is handed on, and of the sending half:

| Conjunct | Says | Why it is needed |
|---|---|---|
| `OutTypes` | types; the parts are data from some place of `Starts`, then a header | which bytes belong at an address |
| `IdleRight` | an idle channel collects no packet and answers no NAK | the start of a message |
| `FileRight` | the open file stands where `fileaddr_part` has it | a read without a seek |
| `BlockRight` | every address in the buffer is one of the message's and has its byte there | data from the buffer; that a block which begins before the message (an address that wrapped) claims nothing |
| `PacketRight`, `NakRight` | a packet ends at the message address, and a NAK lies within the message | `RelayedRight`, and the restored address |
| `EndRight` | the message is flagged ended exactly when the address, or the one kept during a NAK, is its end | `NeverRunsDry` |

The proof goes branch by branch through `ReadData`; its arithmetic modulo `ULONG`
is settled in lemmas of its own. Only the first part may begin within a block: for a
later one the code is wrong (section 3), and `Outgoing` has none.

### VCReceiver

`VCReceiver_proofs` proves five of the receiver's invariants for every number of
messages, message and buffer size, number of lives and set of faults, and every
behaviour of the transmitter the environment assumption allows. TLC first
confirmed the inductive invariant `IInv` on the runs. Its conjuncts:

| Conjunct | Says | Why it is needed |
|---|---|---|
| `TypeOK` | types | sizes and addresses in the arithmetic |
| `Phase` | which states of process, channel and status file go together | a file is open exactly while its message is incomplete: `NoFatal` |
| `GoodBelowGaps` | goodaddr is below every gap, the status file's no higher | what a crash leaves is a safe resume point |
| `Behind` | the buffer is below msgaddr, and the file below the buffer until the message is resumed | the file's length is where its data stops |
| `Known` | a byte is in the file, buffered, a gap, or yet to come | `Tracked`, in the form the steps use |
| `Resumable` | `ResumePointSafe`, whether or not the daemon runs | carries it over Restart to SOMResumed |
| `Whole` | `WholeWhenPassed`, given a NAK budget | the property itself |

There is one lemma per action. The ones everything else rests on: `WriteDataEffect`
(whichever of its branches WriteData takes, nothing is lost between buffer and
file), `OpenSafe` (from the first four conjuncts, while a file is open any
address up to goodaddr is safe to resume from, with the buffer flushed or lost:
the case for Stop, ErrorExit, the exits inside a handler and Kill), `FillGapGoodRises` (goodaddr stays below
the gaps; it needs that a set of addresses has a least element, `LeastGap`, by
well-founded induction) and `DataStored`, the common part of the three handlers
of new data. The theorems are `ReceiverTypeOK`, `ReceiverNoFatal`,
`ReceiverTracked`, `ReceiverResumePointSafe` and, for fault sets without "slow"
(with it TLC refutes it), `ReceiverWholeWhenPassed`. They
assume `ReceiverAssumption` only. As in the runs, they speak of messages that
were interrupted at most once (`resumed`): for two interruptions TLC has a
counterexample (`receiver_twice`).

A second part adds what becomes of the messages passed on, from `IInv` and three
further invariants:

* `RouteInv` (any faults): the channel, its status file and the commands files that
  the router has not taken speak of the transmitter's message or of acknowledged
  ones (`KnownIds`, `SavedSame`, `PassedCurrent`), an open file that is gone was
  routed (`OpenHas`), and what waits for the router is whole (`WaitingWhole`).
  From it `ReceiverRoutedWhole`, without "slow".
* `EndInv` (neither "space" nor "echo"): what the channel or its status file takes
  for received was passed on, or is in `halfway`. From it `ReceiverEOMAHonest`; with
  either fault TLC refutes it (section 3). Without "pipe" `halfway` stays empty, and
  `ReceiverEOMAStrict` has no exception.
* `SpoolInv` (`Faults \subseteq {"error"}`, the calm behaviours): a message is passed
  on once, what is being received was not passed on yet, what was is routed or has
  its file, and there is no other file. From it `ReceiverSpool` (`NeverLost` and
  `NoOrphan`) and `ReceiverPassesOnce`.

The end of `VCLink_proofs` restates the last two as the run has them: `MCReceiver`'s
instance `P` of the proofs, with the faults a calm behaviour may meet, gives
`SpoolWhenCalm` and `NoneTwiceWhenCalm`.

### VCLink

For any number of messages (finitely many: `LinkAssumption`), sizes, windows, losses
and lives of either daemon, `VCLink_proofs` proves what is in step between the two
ends of a link. `LinkInv` is `RouteInv` and

| Conjunct | Says | Why it is needed |
|---|---|---|
| `QueueRight` | the transmitter's message is at the head of its queue, or acknowledged; whoever restarts finds it there | only acknowledged messages are let go of |
| `DataLeft` | while it has not reached the end there is data to send | the types of the packets |
| `Together` | with a circuit both daemons are up; the receiver assembles the transmitter's message, after a SOM of this session; an idle transmitter has only EOMAs coming | `NotMixed`, and the receiver's assumption about EOMs |
| `FwdRight` | a packet of a message that is done with finds the receiver still at it, because all packets of the next are behind it | `KeepsReceiverSpec`: a late DATA or EOM is answered as that of a received message |
| `BackRight` | behind an EOMA come only EOMAs | the transmitter does not take an old NAK or SOMA for the next message's |

Queues change in three ways only (nothing, packets behind, the oldest gone), which
`Grown` and `Shortened` say; each conjunct has a lemma for either, and each action
shows which it is. The theorems, with no message cancelled ("cancel" not in
`LinkFaults`): `LinkKeepsReceiverSpec`, `LinkNotMixed`, `LinkRoutedWhole`; with
`EndInv` and `Accounted` (each message is queued or acknowledged), without "space"
and "echo": `LinkKept`, `LinkEOMAHonest`, `LinkNoUnexpectedEOM`; and if moreover the
receiver meets no fault but "error" (it ends between two handlers, its status saved):
`LinkImplementsHandOver`. `Kept` and `EOMAHonest` except the messages of `halfway`; the
other theorems, but for this last, hold with exits inside a handler as they stand. There a step that
passes a message on is `HandOver`'s Receive (the message is the head of the queue
and not passed on before), one that shortens the queue its Forget, and every other a
stutter.

`LinkNeverGivesUp` is a counting argument. `TooManyEOMs` needs `MAX_EOMS` EOMs for one
message, and with `Patient` an EOM is repeated only when nothing is on its way. So
each EOM sent is charged either to a lost packet or to something that is still due
(`Due`: an EOM, its EOMA, a call for the whole message, or all that is missing,
asked for or on its way), and to the first EOM the receiver saw, which alone need not
make it ask for every gap (`AllAskedFor` starts at the second). The invariant is
`PaidFor`: `KeptInv` and

| Conjunct | Says | Why it is needed |
|---|---|---|
| `StartRight` | nothing that answers an earlier SOM is under way when one goes out, so no SOM or SOMA of the message arrives once it is being sent | a late SOMA would set the count back, a late SOM the receiver |
| `Heard` | a receiver whose SOMA was sent is at the transmitter's message | every packet that arrives is of that message, so a NAK or an EOMA answers it |
| `EOFRight` | the end of the file is reached when all was sent | no NAK asks for more than was sent |
| `CountRight` | the EOMs sent are at most the packets lost, one for what is due, one for the first EOM seen | the property |

`Due` survives each step that loses nothing: data that arrive fill gaps (`DATADue`), a
NAK that is taken becomes data that cover it (`ChunksCover`), an EOM that arrives is
acknowledged or has every gap asked for, since the runs of a set of addresses cover it
(`RunsCover`, `EOMDue`), and with `Patient` one call of `SendNAK` covers a run
(`SendNAKCovers`). The theorem needs `MAX_EOMS > MaxLosses + 1`. The run
`link_fair` checks the property at the sharper `MAX_EOMS = MaxLosses + 1`: there the first
EOM costs nothing either, because a gap that is not asked for was itself a lost
packet. That is only model-checked.

### PacketProtocol

`PacketProtocol_proofs` proves the four invariants of the run `packets` for any even number of
sequence numbers, any data, losses, repeats, timers and resets (`ProtocolAssumption`). It
has two parts. One end alone, with any number of buffers (`PacketsAlone`):

| Conjunct | Says | Why it is needed |
|---|---|---|
| `Typed` | types, with sequences as such | `PacketsTypes`, and the types of heads and tails |
| `WindowOf` | slot `i` from the next to be acknowledged on holds packet `freed + i + 1` of this epoch with its number, or is free if there is none | Rack and Rnak compare numbers only: they meet the packet they mean |
| `DataRight` | the number of every packet of data is that of its place in its epoch | a number names one packet within a window |

The walks of `Rack`, `Rnak`, `PsendAll` and `Resent` keep this by induction over the numbers passed
(`RackKeeps`, ..., over `BoundedInduction`, which is stated for a set, as for the gap
list), and what is proved of a walk is all that the second part uses: what it
frees was acknowledged, what it marks was NAKed, and what it sends is in the window.

The second part is about one direction, the queues both ways between a transmitter and
the receiver of its data (`Pair`). What goes to `e` is `flow[e]`, `wire[e]` and behind it
the data its peer has queued. That is what keeps one order in spite of two
queues: data are given to the circuit in the order of the queue, so a step of
`Transmit` leaves `flow` as it is, and a control packet takes a place before all queued
data (`Grows`). Only an ACK_RESET must not, and an end that answers a reset with data
queued puts its peer in `crossed`:

| Conjunct | Says | Why it is needed |
|---|---|---|
| `ResetsRight` | one reset is under way at a time, none when the receiver is idle | which reset an ACK_RESET answers |
| `Silent` | a receiver that sent its reset answers nothing behind it | no answer of an old epoch meets the new one |
| `EpochsRight` | ACK_RESET parts the data of old epochs from those of the new | the receiver takes data of one epoch |
| `DeliveredRight` | what was given is the first packets of one epoch | `InOrder` |
| `HeldRight` | what is held comes after a gap, within the window, once, and in the first slots | Movenak gives the right ones; there is room |
| `FlightRight` | data on their way are less than a window from what is expected, from what is held and from what is behind them | a number is taken for one packet: old and new are told apart (`DataPlaced`) |
| `WindowRight` | acknowledgements and NAKs on their way lie between what was freed and what was given or is held, in order, and so do the marked slots | `FreedIsGiven`, `NAKedIsHeld` |

Each kind of step has a lemma about one direction (`PairSends`, `PairAcks`, `PairHolds`, `PairTakes`,
`PairAnswers`, `PairBegins`, `PairAsks`, `PairRestarts`, and `PairShrinks` for packets that are taken or
lost), and each action shows which of them it is for its two directions (`StepsKeep`).
That two numbers are equal only when the packets are (`NumberSame`) is where the window, at
most half of the numbers, comes in.

The second part assumes `Pnbufs <= 3`. That is the code's default (`Nbufs` in
`NNdaemon/Daemon/main.c`), and all but one of the settings three-bit numbers
allow; with the fourth a packet may be held twice (section 3), so that `HeldRight`, on
which `Room` rests (one of the slots is free or has the packet), fails. The
theorems are then `PacketsTogether` (`Pair` at every receiver that is not in
`crossed`), `PacketsInOrder`, `PacketsFreedIsGiven` and `PacketsNAKedIsHeld`.

### Router

For any number of routers, copies, links and ends, `Router_proofs` proves
`RouterTypeOK`, `NothingLost` and `RepeatsMarked`. The invariant `IInv` adds to
`NothingLost`, that a message not yet at a place is in a copy that will take it there:

| Conjunct | Says |
|---|---|
| `AtHand`, `Progress` | what a router that is at a step has done and still has in its variables |
| `Whereabouts` | a commands file is coming, in the directory, or dealt with; its data are there until they are unlinked |
| `FlagTrue` | a flag in a commands file says what was done: no DELIVERED without delivery |
| `NotedIsFirm` | an id is noted only while a copy is there that does not depend on being new |
| `BadIsOver` | what is kept for inspection is no longer at hand |
| `IsPresent` | each place is reached or has its copy |

The heart is `NotedIsFirm`: a copy that is dropped as a duplicate relies on
another one, and that one must not be dropped for the same reason, be it in
hand of a router that may be stopped, or left. Steps within one message are
reduced to two lemmas (`HandleStep`, `OtherStep`) of what they do to a place.

`RepeatsMarked` is about the opposite danger, and rests on `IInv` and `MarkInv`:

| Conjunct | Says | Why it is needed |
|---|---|---|
| `BufferLocked` | who has ids in its buffer has the data-base locked | an id that is found new is noted nowhere |
| `TakenIsNoted`, `OneTaken` | of the copies of a broadcast one at most is past the data-base, and its id is noted | two copies do not go to one place |
| `GivenIsNoted` | what was given unmarked is noted | a later copy is dropped |
| `OneActive` | one router at a time is at a copy without MESG_DUP; once it has let go of the file the flag is in it | two routers do not serve one file |
| `FileIsNew` | a file that nobody has at hand, without MESG_DUP, may still go only where nothing was given unmarked: all its links, and its handler unless it says DELIVERED | the router that takes it up next |
| `HandIsNew` | the same of what a router at work has still to serve | the step that gives |

These are about the flags of `leave_cmds` being the right ones at each way out, for
a router that is stopped anywhere. Messages that are `spoilt`, or that a router had
at hand when it died, are excepted, as in the property. The theorem assumes
`SingleCopies`: a message that is not a broadcast from another node has one commands
file. The code looks only broadcasts up in the data-base (`router.c:2741`), so two
copies of anything else both go on, unmarked; the run's messages are broadcasts.
`HandMark` and `IdleMark` say what a step has to do for `MarkInv`, one for a step with a
message at hand and one for every other.

### LinkLock

For any number of callers, files, broken-off waits and deaths,
`LinkLock_proofs` proves `LockTypeOK`, `OneDaemonUnlessRaced` and `LockIsThere`.
The invariant: who is between test and write has the file locked that has the
name (`Locked`), the writer of an ended daemon has ended (`WriterEnded`), a file
whose number is that of no living process is free to take and nobody is active
on it (`TakenFree`), and `LockIsThere` itself; mutual exclusion follows, since
the file names one process.

### Supervisor

For any number of entries and processes and any number of events,
`Supervisor_proofs` proves `SupervisorTypeOK` (the counters do not go below 0),
`OneCopy`, `NeverPausesInVain` and `NoneLeft`, from `SupervisorAssumption` (entries are
finitely many). The invariant:

| Conjunct | Says | Why it is needed |
|---|---|---|
| `Flow` | where RunProgs and netshutdown can be, with what table | every step of the others |
| `InTable` | only an entry of the table has a process | a new entry found by doscan has none |
| `ForkIsOpen`, `Held` | a living process of an entry is recorded there or was just forked for an entry that has none | `OneCopy` |
| `ReapedIsGone` | a number that wait(2) returned is not in use | inter gives up a number: it must not be a living process's |
| `ActiveIsEnough` | ProgsActive is at least the number of entries yet to be subtracted from it | `NeverPausesInVain`, and that it does not go below 0 |
| `UndeadAreActive` | the same for netshutdown's `active` | that it does not go below 0 |
| `KilledOrCounted` | netshutdown gives up only after its SIGKILLs, or when nobody is left; after them no process of its table lives | `NoneLeft` |

The two bounds are inequalities: a lost end leaves ProgsActive too high. They are
about cardinalities of sets of entries (`Uncounted`, `Undead`), so each action
shows how it changes the set, and `FewerUncounted`, `FewerUndead`, `EntryTaken`
do the counting.

`NoneLeft` also needs that a living process of an entry is in the table that
netshutdown walks (`LiveIsKnown`, from `Held`), so the exceptions of the property,
`caught`, are exactly the two moments at which it is not.

### Only model-checked

* `PacketProtocol` with four buffers, and that it gives everything in the end (`AllGiven`).
  Nothing is claimed of resets that cross or overtake queued data.
* `NeverGivesUp` at `MAX_EOMS = MaxLosses + 1`, the least bound at which it can hold;
  the theorem has one more.
* `Kept`, `EOMAHonest` and `NoUnexpectedEOM` when messages are cancelled: with
  "cancel" the run checks them, the theorems leave it out. A cancelled message
  lets the transmitter go on without an acknowledgement, which is not what
  `VCReceiver` assumes of it, and then messages do mix (section 3), so the proof,
  which goes through `KeepsReceiverSpec`, has no counterpart.
* Liveness under fairness (`HandsOverAll`, `AllGiven`, `StartsAgain`) is out of the
  proof system's reach.

## 5. Plan

1. Done: `Gaps`, `WriteBuffer`, `VCReceiver`, `VCLink` and `HandOver`,
   `ReadBuffer` and `Relay`, `PacketProtocol`, `Router`, `LinkLock`,
   `Supervisor`; theorems for all of them.
2. `Session`: the SYNC exchange, MQE and EOT, batch and turn-around modes, and the
   four bounded queues on which the processes of two daemons can all wait
   (`writer.c:683`).
3. `MessageQueue` (the lists of
   `message.c` with four channels, order flags and priorities); `Resync`
   (`PassPackets`).
4. Theorems: the sharper bound of `NeverGivesUp`; what is left of the link's
   properties when messages are cancelled.

## 6. Not modelled

* Messages of different sizes on one link, and messages that time out.
* The other three channels of a link: they share only the status file, which
  any of them writes at any time (`Checkpoint`), and the abort, which is the same
  for each.
* SYNC, EOT, batch mode and idle timers (planned); of the reader's `alarm` only that
  it ends a write to a writer that does not read.
* That a possible duplicate is marked: `CH_RDUP` is modelled, but `InitStatus`
  drops it from a channel that was STARTING (`status.c:170`), so a daemon that
  starts twice before its message is restarted forgets it. No property claims it.
* The content of messages, the names of files, reports and statistics.
* Failure of the file system other than lack of space (a disk error in the middle
  of `Recv_SOM` or `EndMesg` would be another way out of a handler), and of the
  machine (a kill keeps what was written).
* `PacketProtocol`: ACKs held back for a packet that carries them, the
  negotiation of sizes, IDLE packets, and the bytes of a packet.
* `Router`: messages that expire or name the link to take, link reports,
  sub-routers, loops and the special spoolers, the trace flag, and that a node
  with one link skips the data-base. What an address matches is a constant.
* `MsgsDB` beyond what a lookup answers and when its pages are written.
* `LinkLock`: other nodes on a shared file system, process numbers that are used
  again, the options to ignore or keep an old lock (`-p`, `-l`), forkdaemon.
* `Supervisor`: time (delays, which times a CRON entry matches), the answers to
  commands, the lexer of initfile, the second netshutdown of the shutdown command,
  process numbers used again while they are recorded, two entries of one name.
* `ReadBuffer`: files that change while they are sent, and packets handled between
  an acknowledgement and `FindMessage` (`VCLink` has those).
* The packet layer's resynchronisation on the byte stream: a circuit loses whole
  packets here.
* The other handlers, the state and routing tables, headers, call scripts, and
  the programs of users and operators: most of the lines of the repository, and
  sequential processing of one message or of text, without the concurrency or
  recovery that models are for.
