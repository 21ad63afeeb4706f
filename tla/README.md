# TLA+ verification of onlineProgram

onlineProgram is the firmware of an FRDM-K64F board that programs LPC1125 target
boards over a UART.  In *code mode* it writes a bin file from an SD card to the
target; in *UID mode* it fetches an identifier from a server over TCP and writes it
to the target's last flash sector.  SW2 starts and confirms jobs, SW3 switches the
mode.  This directory holds TLA+ models of the firmware's own code, the TLC
configurations that check them and TLAPS proofs about them.

All paths below are relative to `src/`; "OP" is `OnlineProgram.cpp`.

## 1. Inventory

| component | state it keeps | operations | interacts through | hard behaviour |
|---|---|---|---|---|
| network session, `network.cpp` | `networkEvent`, `msgHandle`, `sendMsgTime`, `uid`, the socket | `checkNetwork`, `msgTransceiverHandle`, `sendMsgHandle`, `msgRecvHandle`, `parseRecvMsgInfo` | flags of `networkEvent` and `eventFlags`; TCP | lost connections found out by a failed heartbeat, resends, merged replies, a request that outlives its connection |
| application loop, OP 586-749 | `devStatus`, `deviceMode`, `eventFlags` | `mainThread`, `updateDeviceStatus`, `resetEventFlags` | calls everything else once per 200 ms turn | button interrupts at every point of a turn |
| buttons, OP 68-100 | none of their own | `sw2_release`, `sw3_release` | write `eventFlags`, `networkEvent`, `deviceMode` | SW3 changes `deviceMode` at once, the loop notices it a turn later |
| timer thread, OP 58-66 | `systemTimer` | `sysTickThread` | raises `heartbeatFlag` | its count, its test and its store are three steps |
| burning a board, OP 153-282, 415-462 and `Program/program.cpp` | the job's position; lock, prepared sectors, RAM buffer and flash of the target | `programBinFileV1`, `programUID`, the `ISP_*` commands | UART with the boot loader | late answers read as another command's, erase before write, partial failures |
| socket wrappers, `EthernetInterface/Socket` | `_sock_fd`, `_is_connected` | `connect`, `send`, `receive`, `close` | called by the session and by the mode switch; lwIP below | a flag that survives `close`, results nobody looks at, few descriptors |
| uuencode, `UUencode/UUencode.cpp` | line buffers | `UUencodeLine`, `UUdecodeLine` | the data of write and read commands | odd lengths, fixed line distance |
| baud-rate handshake, `program.cpp` 31-95 | its state machine | `ISP_syncBaudRate` | detects a board every turn | a board that is already synchronised, half synchronised or in the middle of a write; late answers |
| start-up and configuration, OP 482-569, 751-792 | `ISPcfg`, the threads, memory and files | `main`, `initNetwork`, `getISPCfg`, `test` | starts the threads | interrupts are enabled before the state is set; exits that keep memory |
| indicator, LCD, log; SD card and FAT; mbed, RTX, lwIP, cJSON | - | output or vendored | - | not modelled, see section 8 |

What makes them correct, in short: authorisation belongs to the connection it was
granted on; no request but AUTH is begun without it, and only the answer to a copy sent
on the present connection settles one; every result is
reported and every report acknowledged; a mode switch, whenever it comes, leaves no
socket, session, start request or status of the old mode behind; a burn touches only
its own sectors, reports success only for flash that was verified, ends, and can be
repeated after any failure; the data the lines carry is the data of the buffer; the
handshake succeeds only with a boot loader that listens; the socket holds one
descriptor, and a peer that is gone is noticed; a press of SW3 during start-up is not
lost; a failed job gives back its memory, and the heap loses only known leaks.
`PROJECT.json` lists the hazards line by line with the properties that catch them.

## 2. Modules

| module | models |
|---|---|
| `Network` | actions of the network session, timer thread, socket, server and link, shared by the next two |
| `NetworkSession` | `Network` under the most general application (any order of SW2, jobs and results), with fairness |
| `OnlineProgram` | `Network` composed with `mainThread`, `updateDeviceStatus` and both interrupts, boards that come and go at any moment |
| `Session` | abstract specification of the session: one question at a time, nothing but the authorisation begun before it is given, resends as steps |
| `ReportLedger` | `NetworkSession` plus an observer of where the report of a result has got to |
| `StartLedger` | `OnlineProgram` plus an observer of the one press of SW2 that a mode switch does not discard |
| `JobLedger` | `OnlineProgram` plus two observers: what a job was asked for, what the last burn did |
| `Burn` | abstract specification: a burn as one job with a result |
| `IspBurn` | both jobs one ISP command at a time against a boot loader; refines `Burn` |
| `UUencode`, `IspData` | the encoding on real bytes, and the loops of `ISP_WriteToRAM` and `ISP_readMemory` that use it |
| `IspSync` | `ISP_syncBaudRate` and the boot loader it talks to |
| `Connection` | abstract specification: the TCP connection as `Network` takes it |
| `TcpSocket` | `TCPSocketConnection` and `Socket` under their callers; refines `Connection` |
| `Firmware` | `main` and `getISPCfg` with SW3 pressed at any moment, then `programBinFileV1` and `parseRecvMsgInfo` on the one heap |
| `MC*` | the instances TLC checks |
| `*Proofs` | the TLAPS proofs |

### Network

A C struct of `bool`s is the set of the names of its true flags.  `mainPc` is the
place of the main thread in a turn: `net` (`checkNetwork`), `dial` (its `connect`),
`transceive` (the sending half of `msgTransceiverHandle`), `receive`.  Each action is
one call, with every state change in it.  `wire` holds the requests the connection
has accepted; `conn` tells apart a connection the server can be reached on, one that
is down and still buffers, one the peer has dropped, and no socket.  A heartbeat that
the server does not answer takes no room while the server can be reached.  One
`receive` call may return the replies to several requests; `cJSON_Parse` sees only
the first (`ReceiveReply` with k > 1), and may also find no reply in what came
(`ReceiveGarbage`).  `msgRecvId` keeps its value over a heartbeat reply, as in the
code.  `sendRespCode` and `recvRespCode` are written and never read across calls and
are left out.  `systemTimer` is kept modulo the heartbeat period and `sinceSend` up
to the resend period, which is all the code's tests can see.

`sysTickThread` has the lower priority: it moves only at the labels where the main
thread can block (the socket calls, the 200 ms sleep and the output around a mode switch).
Counting (`Tick`), which prints, testing (`TickTest`) and storing (`TickRaise`) are
three steps, and another thread or an interrupt can come between them.

### OnlineProgram

An interrupt can come at every label.  Two accesses to state that an interrupt can
change stand at different labels unless the interrupt commutes with what is between
them.  `resetEventFlags` is two steps.  Of its eight stores, those to `startProgramFlag`,
`resetDevStatusFlag` and `modeSwitchFlag` are to flags the interrupts set, and
`modeSwitchFlag` is the last of the three: a press before its store and after the others
is kept (label `reset`), except for what SW3 stores in `modeSwitchFlag`.  Between the
stores to the other two SW2 can set only one of them, since `devStatus` stands still: for
that flag the press falls before or after the first step.  So SW2 followed by SW3 at
`reset` leaves a start in UID mode with no switch pending; `StartLedger` marks it as
`stray`, and `NoStartInUidMode` and `BurnHasUid` say that nothing else does.  `Gate` reads
the mode twice, and SW3 between the two can hide both modes from it.  `Detect` has the
outcomes of the handshake and of `detectFile`; `ProgramBinFile` and `ProgramUID`
succeed or fail, as `Burn` allows.  Which board is plugged in is no state of the model: it
may change between any two steps, so every handshake finds one or not and every burn may fail.

`Init` is what lines 782-785 of `main` leave to the threads, with any number of
presses of SW3 since line 756 in it: mode, status and pending switch need not agree.
At this commit `main` calls `test()` on line 779 and then loops on line 780, so that
those lines and the threads are not reached.  The program that is modelled is the one
without line 780, which `readme.txt` describes ("the system will work in mode 1 at
default", line 29; its mode 1 is the UID mode, numbered 2 in the code).

### Session and ReportLedger

`KeepsPromise` says that `NetworkSession` implements `Session`.  `link` is what the device
believes (`Believed`): down, up, authorised, or `givenUp`, online with nothing that still
asks for the authorisation.  `asked` is the pending request, `line` which requests are in
the buffers of the present connection, resent ones included, and `last` the answer that
was read and settled nothing.  A request other than AUTH is *begun* on an authorised
connection only.  One that was pending when the connection was lost is repeated on the
next one before AUTH is asked (`network.cpp:175`): `Session!Repeat` is that step, and no
authorisation guards it.  A question is settled, and the device authorised, only by an
answer to a copy that was sent on the present connection.

A server that answers heartbeats weakens this (`Session!Abandon`).  Their reply has no
branch in `parseRecvMsgInfo` and leaves `msgRecvId` as it was, so the comparison on
`network.cpp:150` makes good an earlier answer to the pending request that had settled
nothing: a refusal, above all.  `network_safety` is run with such a server, and the
theorem covers both kinds.

`ReportLedger` observes `report`: a result that is there is due until the server has
read a NOTIFY sent after it.  `notifyDoneFlag` has no identity, so a report that was
sent twice may be acknowledged twice, and the second acknowledgement lets the next
result be left unreported.  `LeftOnceDelivered` says that this is the only way:
`twice` becomes true when a copy is sent while one is unread, and stays so until no
trace of a report is left.  Without `twice` the property fails.

### IspSync

An exchange sends a text and reads a window.  `late` holds the texts the board has
sent and no window has read, in order.  A text can get lost on its way to the board
(`heard`), its answer can get lost (`lost`), and the window can close before all that
is on the line has come (`n`); each costs a fault.  The boot loader's echo shows only
once it handles commands, which is what the ESC case of the code relies on.  Whether
a boot loader begins a broken handshake again with a new "?" is not known from the
source: `restarts` is either.  `SuccessfulJob` and `FailedJob` are what the jobs of
`IspBurn` leave behind; the echo of the "OK" that confirms a block (`program.cpp:294`) is
late without any fault.  A board is taken to be changed in more time than a turn takes,
whose windows empty the line.

### TcpSocket

`sock_fd`, `_is_connected` and lwIP's descriptors, with the calls where
`checkNetwork`, `msgTransceiverHandle` and `mainThread` make them.  The peer can
finish, in which case `receive` returns 0 and `_is_connected` goes down, or abort,
which no result shows but that of a send.  `room` is whether the send buffer takes a
text.  `Standing` is the state of the connection, `Connection` what its users may count
on.  `Network` keeps a `conn` of its own in the same spirit, but draws it by the number
of requests in the buffers and not by their bytes; that the two agree is an argument.
The session itself, what is sent and answered, stays in `Network`.

### Firmware

The heap is a number of free units and `Size` what an item takes; an allocation fails
without room and may fail with it.  `held` is what the running function has taken,
`lost` what it leaves behind when it returns.  `getISPCfg` is reduced to that: its
values are printed and used nowhere.  The 64 bytes that `ISP_WriteToRAM` takes for an
encoded line and gives back at once are not followed here, nor is `programUID`, which
takes nothing else; that they can be refused is a `LocalFailure` of `IspBurn`, for both
jobs.  `LossIsKnown` bounds what is gone by the leaks the code has (the configuration,
the buffers of a success, the file of an early return, the tree of a reply), so that a
further one breaks it and a repair does not.
`initNetwork` returns on every path: with a static address its test for a link
(`network.cpp:31`) compares with NULL, and the models take it as not reached with the
outcome that resets the processor.

### IspBurn

The skeleton unlock, prepare, erase, unlock, {write, data, prepare, copy}*, {read}*
is the same in `programBinFileV1` and `programUID`; one set of actions has the job as
a parameter (which sectors are erased, which blocks are written).  An exchange is a
record of what the line does with it: whether the command is `heard`, whether its
`own` answer falls into the window, which `stale` answers of earlier commands fall
into the same window and which are `left` on their way.  `ISP_getResp` reads until
the line is silent and the callers look for a substring, so a stale answer is as good
as the right one.  The echo of the data lines may contain either answer by chance.
Error codes, noise and silence are all "no answer".  `ISP_readMemory` looks for the
data right behind the first `0\r\n`: a stale one there makes it decode the wrong
place, which its own checksum does not survive.  The late answer to another *read* would
carry a checksum of its own; it is assumed not to come in a later verification, for a
read without its answer ends the job, and the boot loader, which answers in order, would
have to hold that answer back through a handshake, an erasure and all writes.  A boot
loader left waiting for data, or for the confirmation of a block, waits until the next
handshake.

The image of a job is what is to be in each 512-byte block, the vector checksum of
lines 225-234 (computed in `IspData`) and the 0xff padding included.  The boot loader copies to flash only in
prepared sectors and forgets them after each copy or erasure; copying over a block
that is not blank leaves garbage.  `faults` counts what went wrong on the line, on
the heap or the card in the present job; it bounds the model and lets `RetryWorks`
say "for no reason of its own".  A job starts on a board that answered the handshake
in the same turn, so its boot loader waits for a command and not for data.

### UUencode and IspData

Bytes are numbers below 256 with the masks and shifts of the source (`char` is
unsigned on this target).  A line and a buffer are functions, so that the proofs speak
of each position.  The buffer may hold any bytes (`Buffers`), and two more behind the
data, which the encoder reads and the decoder overwrites.  The first block of a
program is signed before it is sent: `tmp`, of 32 bits, is a pair of halves with a
carry, its sum is taken by columns, and `FirstBlockIsValid` adds up the words of what
was read back instead.

## 3. Runs

| run | instance | shows |
|---|---|---|
| `network_safety` | `ReportLedger`: 2 UIDs, 2 requests in flight, both periods 1 s, stalls and resets, a server that insists on authorisation and answers heartbeats; 5.0 M states | `AuthIsCurrent`, `AvailableUidIsIssued`, `KeepsPromise`, `LeftOnceDelivered` |
| `network_live` | 1 UID, 1 in flight, both periods 1, heartbeats unanswered; 116 k states | `AuthNotForgotten`, `AuthorizedAgain`, `ResultDelivered` |
| `program_safety` | `StartLedger`: 1 UID, 1 in flight, resets, heartbeats unanswered; 7.6 M states | `OfflineNotAuthorized`, `SocketClosedInCodeMode`, `SessionBehindGate`, `ResultHasReport`, `BurnHasUid`, `NoStartInUidMode`, `NoBinWaitInUidMode` |
| `isp_burn` | 4 blocks, the last two the UID's sector; two bin files, one of which reaches it; two blocks of equal checksum; 2 faults per job; 70 k states | `SuccessIsVerified`, `RetryWorks`, `AbstractBurn`, `JobEnds` |
| `isp_data` | lengths 4, 44, 48, 92, 256, 512; six byte patterns; 576 states | `LinesCarryData`, `ReadBackIsData`, `FirstBlockIsValid`, `ChecksumFound` |
| `isp_sync` | 8 faults; 3994 states | `DoneMeansListening`, `MistakeTakesSix`, `FoundAgain` |
| `firmware` | a heap of 24 units, items of 1 and 2; 58 k states | `HandsOver`, `FailureKeepsOnlyTheFile`, `LossIsKnown` |
| `tcp_socket` | 4 descriptors, as lwIP's default; 5356 states | `OneDescriptor`, `ServesNetwork`, `LossNoticed` |
| `job_mode`, `job_report`, `isp_whole_lines`, `memory_freed` | small | findings, section 7 |

Every passing run also checks a type invariant.  `PROJECT.json` gives for every
property a mutation of the modelled code that breaks it.

**Why the bounds are enough.**  Two UIDs tell "the identifier burned" from "a later
one"; two requests in flight are needed for a merged reply and for a request that is
resent while its first copy is still unanswered; with both periods 1 the timer thread,
which may rest or run whenever the main thread blocks, makes heartbeats and resends come
apart and together, and a resend overtake an answer.  `program_safety` asks about
mode switches, which do not involve resend timing: resends are possible every turn.
Four blocks give each job a sector it must not touch, a loop of more than one block
and a shared last sector; two faults give a late answer and the loss that makes it
look right.  No job-level property relates more than two faults.  Six faults are what
a mistaken handshake takes; eight let two more happen around it.  The heap of
`firmware` is used up by six jobs that succeed or by twelve replies, so that every
allocation also fails for want of room.

Nothing in the repository says whether the server answers heartbeats, and
`parseRecvMsgInfo` has no branch for such a reply.  `network_safety` has a server that
does, which is the harder case for what it checks.  `AuthNotForgotten`, the liveness
properties and `ResultHasReport` are about one that does not: with such replies a refused
AUTH or NOTIFY can be taken for settled by the heartbeat reply that follows it, and
they do not hold.

## 4. Fairness

`NetworkSession!FairSpec` assumes: the main loop goes on (its calls all have
timeouts: WF); the timer thread gets the processor, since the main thread sleeps
200 ms in every turn (SF, for it can run only while the other sleeps); a server that
is dialled for ever is reached eventually, and a request that is asked for ever is
granted eventually (SF, assumptions about the server, the second one per kind of
request); a held-up heartbeat is read (WF).  The liveness properties also presuppose
that the link stops changing.  `AuthorizedAgain` is checked with a server that serves
an old request before authorisation (`ServerRequiresAuth = FALSE`): with one that
does not, a GET_UID that was pending when the connection was lost is resent for ever
and AUTH is never sent, as `msgTransceiverHandle` starts nothing while a request is
pending.  `IspBurn!FairSpec` assumes only that an exchange ends, which `ISP_getResp`
guarantees by its counter once the line is silent.  `IspSync!Spec` assumes that
exchanges end and the loop turns (WF); `FoundAgain` is about a board that stays and is
quiet of itself, for the faults are bounded.  It excludes a half synchronised boot
loader that does not begin again: nothing the code sends gets it out of that state.
`TcpSocket!Spec` assumes the main loop (WF) and that the timer thread raises
`heartbeatFlag` again and again while the device believes it is online (SF, as the
believed state may change in between).

## 5. Proofs

| module | theorem | statement |
|---|---|---|
| `SessionProofs` | `SessionTypeCorrect`, `SessionOfflineNotAuthorized`, `SessionAuthIsCurrent`, `AvailableIsIssued` | `TypeOK`, `OfflineNotAuthorized`, `AuthIsCurrent`, `AvailableUidIsIssued` of `NetworkSession` |
| | `SessionKeepsPromise`, `ResultsAreDelivered`, `NeverForgotten` | that `NetworkSession` implements `Session`, `LeftOnceDelivered` of `ReportLedger`, and, for a server that leaves heartbeats unanswered, `AuthNotForgotten` |
| `OnlineProgramProofs` | `ProgramTypeCorrect`, `CodeModeIsOffline`, `GateNeedsSession`, `UidModeNeverWaitsForBin` | `TypeOK`, `SocketClosedInCodeMode`, `SessionBehindGate`, `NoBinWaitInUidMode` of `OnlineProgram` |
| | `StartBelongsToCodeMode`, `BurnsAreBacked` | `NoStartInUidMode`, `BurnHasUid` of `StartLedger` |
| | `ProgramKeepsPromise`, `ResultsAreReported` | that the whole program implements `Session`, and, for a server that leaves heartbeats unanswered, `ResultHasReport` |
| `IspBurnProofs` | `BurnTypes`, `SuccessVerified`, `RetryAlwaysWorks`, `BurnRefines` | `TypeOK`, `SuccessIsVerified`, `RetryWorks`, and that `IspBurn` implements `Burn` |
| `IspDataProofs` | `DataTypes`, `BlockIsReadBack`, `ChecksumIsFound`, `FirstBlockStarts`, `LinesArrive` | `TypeOK`, `ReadBackIsData`, `ChecksumFound`, `FirstBlockIsValid`, and `LinesCarryData` unless a size is a multiple of 45 (finding 3) |
| `IspSyncProofs` | `SyncTypes`, `SyncMeansListening`, `SixFaultsForAMistake` | `TypeOK`, `DoneMeansListening`, `MistakeTakesSix` of `IspSync` |
| `TcpSocketProofs` | `SocketTypes`, `DescriptorKept`, `SocketServesNetwork` | `TypeOK`, `OneDescriptor`, and that `TcpSocket` implements `Connection` |
| `FirmwareProofs` | `FirmwareTypes`, `HandOver`, `FailureKeeps`, `OnlyKnownLosses` | `TypeOK`, `HandsOver`, `FailureKeepsOnlyTheFile`, `LossIsKnown` of `Firmware` |

They hold for every set of UIDs, all periods, any number of requests in
flight, either server unless said otherwise, any number of blocks, faults and
descriptors, every content of a buffer and every length the checks accept, and every
heap and size of its items, under the named assumptions of the modules, which TLC
evaluates in the runs.

* **Network.**  `AuthIsCurrent` is not inductive: a dial that succeeds starts a
  connection the server has not authorised, and could find `authorizePassFlag` set.
  `SessionInv` adds `OfflineNotAuthorized` and `SocketUse`: the dial is made without a
  socket by a device that knows it is offline, the receive call by one that believes
  it is online.  The lemmas about the network's actions are in `NetworkProofs` and
  used by both programs, as is the mapping of each action to a step of `Session` below.
* **OnlineProgram.**  `ModeInv` adds what each place of the loop remembers of the
  mode it has read (`ModeAtPc`): at `dial` the mode is UID *or SW3 has been pressed
  since*.  Every property about modes follows the same argument: a press that
  overtakes the loop is still pending, and the switch that handles it withdraws what
  the old mode left.  `StartInv` adds for `StartBelongsToCodeMode` that a start flagged
  between the two steps of `resetEventFlags` is the stray one.  `BurnsAreBacked` has an
  invariant of its own, on top: a job under way in UID mode has a session, and an
  identifier unless the stray press began it.  `ReportInv` says that a bin
  file is programmed in UID mode only when SW3 has been pressed since, so that the
  result without a report belongs to a mode that is about to end.  For
  `ProgramKeepsPromise` the mode switch is the one step outside the network code that
  touches the session: it ends it, which `Session` allows at any time.
* **IspBurn.**  `PassedBlocks` says that the blocks of the image before the present
  one match during the verification; the flash does not change any more in that
  phase, whichever answers come.  `ImageShape` keeps the image inside the blocks
  the job owns and is what makes the steps of the job steps of `Burn`: an erasure or
  a copy is `Work`, the last read is `Succeed`, every abort is `Fail`.  `RetryWorks`
  says that a job without a fault succeeds; `OnTrack` says where such a job is at each
  command (nothing late, sectors prepared, blocks behind it written and those before
  it blank), from which no command can be refused.  It holds from any flash and any
  state in which an earlier job left the board.
* **IspData.**  A character is the sum of 32 and six bits, or the grave accent, which
  decodes to a seventh bit that the masks drop (`Sextet`); a group is the inverse of
  its decoding by the arithmetic of masks and shifts (`GroupInverse`); lines and texts
  follow position by position.  `DataInv` adds to the types that the lines sent are the
  encodings of their parts, and that all bytes decoded so far are right: the NUL and
  the padding behind a line are overwritten by the next line or lie behind the data.
  The first line end at or behind the last line is its own, since characters are at
  least 33.  `NegatedSum` follows the carry of `~tmp + 1` between the halves.
* **Session.**  `SessionInv` is enough.  `ReplyEffect` sums up what one `receive` call
  does for either kind of reply: the answer to a request on the connection is a `Settle`
  or a `Note`, that to a heartbeat a `Drop` or an `Abandon`.  `Believed` tells `givenUp`
  from `up`, and `GivenUp` shows that this is where the authorisation is forgotten:
  `AuthNotForgotten` says that the abstract session has not given up, which only
  `Abandon` does.  So `NeverForgotten` needs `~HeartbeatAcked`, and the promise does not.
* **ReportLedger.**  `LedgerInv`: of the present result there is one report and it goes
  one way, flagged, pending, acknowledged, and its copy in the buffers is the pending
  request and younger than the result; or a copy was sent while one was unread
  (`twice`), and then nothing is promised until all traces are gone.  So a flag that
  says acknowledged speaks of this result.  It holds for any number of requests in
  flight.
* **IspSync.**  `LineInv` says what can be on the line in each state of the boot
  loader that does not begin again: nothing before the first "?", then
  "Synchronized" only, then at most one "OK" and it is the last.  An "OK" that is read
  for the frequency was therefore sent after it, and an "ESC" only by the echo of a
  command handler.  That a mistake takes six faults is proved by a potential: `Debt`
  is what an "OK" on the line must already have cost while the boot loader does not
  listen yet, three before the handshake and four, five and six as it proceeds.
  `Sendable` is what can be on the line of either kind of boot loader.  The bound on the
  line is one text per fault and one more, the echo of an "OK" that confirmed a block.
* **TcpSocket.**  `SockInv`: every descriptor taken from lwIP is the one the
  socket knows, `_is_connected` holds wherever the peer is open, and a socket without a
  descriptor has room in its send buffer.
* **Firmware.**  `LifeInv` accounts for every unit (`Balance`): what is free, what the
  running function holds and what is gone for good, by the configuration, early returns,
  successes and replies, is exactly the heap at power-on.  `HandsOver`
  needs only what each place of `main` knows of the mode and the pending switch.

Every safety and action property and every refinement that a passing run checks is
stated by a theorem.  Only model-checked: the liveness properties `AuthorizedAgain`,
`ResultDelivered`, `JobEnds`, `FoundAgain` and `LossNoticed`, which rest on fairness.
The four findings are counterexamples of TLC.  Two hypotheses are not assumptions of
the modules but of the theorems that need them: `~HeartbeatAcked` in `NeverForgotten` and
`ResultsAreReported`, which are false without it (section 3), and no multiple of 45 in `LinesArrive`, which holds of
every size the firmware asks for.

## 6. Link between the levels

`OnlineProgram` treats a burn as one action with an outcome, `Burn` as a job on blocks,
`IspBurn` as commands.  `IspBurn` implements `Burn` (checked and proved).  That
`ProgramBinFile` and `ProgramUID` are `Burn` without its flash is an argument, not a
checked mapping: a `Burn` ends, succeeds or fails whatever happens to the board, and a
success leaves the flash as its image says, up to a block of the same checksum.

The other seams are checked.  `Firmware!HandsOver`: `main` hands `OnlineProgram` one
of its initial states.  `TcpSocket!ServesNetwork`: the socket wrappers give `Network`
the connection it assumes, where a send is refused without a peer and accepted with
room.  `KeepsPromise`: the session code gives the server the session, under the most general
application (checked and proved) and in the whole program (proved; `program_safety`
is too large to check it as well).
`IspSync!DoneMeansListening` is what lets a job of `IspBurn` start with a boot loader
that waits for a command, and lets `Detect` in `OnlineProgram` be one step.

## 7. Findings

1. `job_mode`: the mode is read again when a job runs (OP 627).  SW3 between the
   mode-switch test and that line makes a job that was started for a UID enter
   `programBinFileV1`, without SW2 in code mode; if there is a bin file, it begins by
   erasing the board.
2. `job_report`: the report is formatted from the global `uid` when it is sent
   (`network.cpp:94`).  A second UID that arrives between the burn and the report
   makes the report name an identifier that was never burned.
3. `isp_whole_lines`: `ISP_WriteToRAM` accepts sizes that are multiples of 45 and
   sends their last line wrong (`program.cpp:215`); the callers use 512 only.
4. `memory_freed`: `programBinFileV1` returns on success before the label `Exit`, under
   which "free memory here" (OP 273) frees its three buffers.  `LossIsKnown` and
   its proof say what that and the other known leaks amount to.

Seen and not claimed as a disagreement, since no document says otherwise: a report
acknowledged twice (`LeftOnceDelivered`); a start that outlives a mode switch and runs
`programUID` with the `uid` of an earlier request or with none (`stray` in `StartLedger`,
which takes SW2 and SW3 between two stores of `resetEventFlags`); a request carried over to a server that
refuses it (section 4); a boot loader that begins a broken handshake again can be
taken for synchronised after six faults in a row (`MistakeTakesSix`).

## 8. Not modelled

Indicator, LCD, LEDs, debug output and the log file have no effect on control: no
branch reads them.  The one shared access, the blue LED that SW3 toggles between two
writes of the loop, shows a wrong colour for at most a turn.

The SD card and FAT code, mbed, RTX, lwIP and cJSON are vendored libraries, more than
98% of the lines of the repository.  They are not this program's logic; what the
firmware sees of them are inputs of the models: a file that is there or not, a thread
that runs while another sleeps, a descriptor, a result of a call, a first reply that is
parsed.  `programBinFileV2` (a copy of V1), `strFlit`, `ISP_getPartID`,
`ISP_disableEcho`, `send_all`, `receive_all`, CRC16, FreeScaleIAP and C12832 are not
called.  Writes behind the end of fixed buffers are listed as hazards; the models
abstract from the length of a reply.

Of the firmware's own code, every function that is called and changes state is an
action of some module.

## 9. Plan

1. A mapping from `OnlineProgram`'s two burn actions to `Burn`, which needs the flash of
   the board beside `devStatus`.
2. The two hazards without a property that involve more than one job: a program that
   reaches the sector of the UID, and a request carried over to a server that refuses
   it.
