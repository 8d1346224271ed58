# blobly_emb in TLA+

A verification development for blobly_emb, an embedded ECU platform written in
V with C where two cores, two threads or an interrupt share memory: CAN and
Ethernet diagnostics, an append journal over raw flash, a bootloader, trace,
and the lock-free cells that carry signals between threads and between the two
cores of an STM32H7.

| subsystem | code | modules | run |
|---|---|---|---|
| persistence journal | `nvm/journal.v` | `DurableStore`, `Journal`, `JournalProofs` | `journal_*` |
| bulk transport | `boards/common/bulk.h` and its two users | `BulkQueue`, `Bulk`, `BulkProofs` | `bulk_*`, `rest` |
| ISO-TP | `comm/isotp/isotp.v`, `comm/diag/step.v` | `IsoTp`, `IsoTpProofs` | `node`, `rest`, `isotp_blend` |
| same-core signal cell | `boards/common/ioc.h`, `iocb.c`, `comm_glue.c` | `Ioc`, `NodeProofs` | `node` |
| cross-core signal cell | `boards/common/xioc.h`, `boards/h755zi/xcore*` | `XCore`, `XCoreProofs` | `node` |
| the host's signal cells | `osal/osal_native.c` | `OsalIoc`, `NodeProofs` | `node` |
| CAN drivers and ring | `driver/can/*`, `comm_glue.c` | `Can`, `CanIf`, `NodeProofs` | `node`, `rest` |
| trace of two cores, recorder | `target_ext.c`, `m4_glue.c`, `trace_hooks.c` | `XTrace`, `Recorder` | `node` |
| IO points | `driver/io/io_stm32.c` | `Io`, `NodeProofs` | `node`, `io_shared` |
| DoIP mailbox and server pass | `driver/eth/doip_mb.h`, `doip_netx.c`, `doipnet/`, `boot/prog.v` | `DoipMb`, `Doip`, `NetworkProofs` | `network` |
| gateway route channel | `doip_netx.c`, `comm/diagroute` | `DoipRoute`, `NetworkProofs` | `network` |
| inactivity deadlines | `driver/eth/doip_idle.h` | `DoipIdle`, `NetworkProofs` | `network` |
| Ethernet rings and NetX driver | `boards/*/eth.c`, `net/nx_driver_stm32h7.c` | `EthDma`, `NetworkProofs` | `network` |
| network bring-up, link, ARP | `driver/eth/netx_up.c`, `eth_netx.c`, `arp_glean.h` | `NetUp`, `NetworkProofs` | `network` |
| bootloader | `boot/boot.v`, `boot/prog.v`, `flash_h72x.c`, `bootcell.h` | `Boot`, `BootProofs` | `journal_chain` |
| SecurityAccess over two transports | `comm/uds/uds.v`, `comm/diag/diag.v`, `diag_board.c` | `Diag`, `NetworkProofs` | `network` |

`MCJournal`, `MCBulk`, `MCIsoTp` hold the values a configuration cannot write
down. `MCNode`, `MCNetwork`, `MCRest` and `MCCut` compose parts that share no state, so
that one run explores each alone: `part` (`runs` in `MCCut`) names the one that
moves. Where parts do share state (the two cores, the doip thread and the
server, the driver and its hardware, the bus tester and the network tester)
they are one module. The `*Proofs` modules hold what TLAPS proves.

Paths below are relative to the repository.


## 1. The system

### Components

**Persistence journal** (`nvm/journal.v`). State: two flash sectors of equal
slots; in RAM a table of the newest record of each block, the active sector, a
cursor, the sector awaiting erase, two flags (partner known erased, tail
clean). Operations: `mount`, `prune`, `put`, `mark_clean`, `compact`,
`erase_pending`, `get`. Called by the memory task on behalf of the parameter,
fault and shell modules. Hard: power may go between any two flash programs, or
inside one; a program or erase may fail; compaction and re-homing copy the
newest values while the old ones are about to be erased. Correct when an
acknowledged value survives everything, no word is programmed twice, and the
clean-shutdown verdict is honest.

**Bulk transport** (`boards/common/bulk.h`; producer
`examples/h755_m4_app/m4_glue.c`, consumer `examples/h755_threadx/target_ext.c`).
State: a magic, four cursors each written by one core, a free ring and a ready
ring, lengths, buffers. Operations: `bulk_init`, `bulk_valid`, `bulk_loan`,
`bulk_publish`, `bulk_take`, `bulk_release`. Hard: the two cores share no atomic
read-modify-write and their stores become visible in an order only the barriers
fix; one core may restart alone; the 32-bit cursors wrap. Correct when every
buffer has one owner and the pair is a lossless queue.

**ISO-TP transport** (`comm/isotp/isotp.v`; owners in `comm/diag/step.v`,
`comm/diagroute/diagroute.v`). State per Link: a reception (buffer, sequence
number, block count, N_Cr deadline, flow control owed) and a transmission
(phase, position, block left, N_Bs deadline). Operations: `send`, `on_frame`,
`poll`, `tick`, `take`, `abort_tx`, `abort_rx`. Hard: lost and late frames,
timeouts racing them, abandonment. Correct when messages arrive intact and no
end stays busy for ever.

**Signal cells and rings** (`boards/common/xioc.h`, `boards/common/ioc.h`,
`osal/osal_native.c`, `driver/can/can_ring.h`). Across cores a four-slot cell
stamped with a sequence number; on one core a triple buffer with one exchanged
index; on a host a seqlock, a triple and a double buffer; between an interrupt
and a task a single-producer ring. Hard: every interleaving of single loads and
stores, and a core that restarts alone. Correct when a reader gets a value that
was written, whole, and never an older one than before.

**CAN drivers** (`driver/can/can_fdcan.c`, `can_sthal.c`, `can_socket.c`,
`can_canif.c`) with the wake of the comm thread (`boards/common/comm_glue.c`).
State: FIFO and flags of the controller, tallies of loss and recoveries, the
semaphore, the interrupt's mask. Operations: open, close, recv, send, poll. Hard:
frames arrive and the controller goes bus-off between any two register accesses.
Correct when no frame waits with nobody woken and every loss is told.

**Ethernet** (`boards/*/eth.c`, `net/nx_driver_stm32h7.c`) and the **network's
bring-up** (`driver/eth/netx_up.c`, `eth_netx.c`). State: descriptor rings,
ownership bits, tail pointers, a packet pool; whether NetX is up, the link's mode,
an ARP entry. Hard: the DMA runs beside the driver and suspends; the PHY
renegotiates between two polls. Correct when both directions go on for ever and
the MAC follows the link.

**IO points** (`driver/io/io_stm32.c`): outputs, PWM on shared timers, a scanning
converter. Correct when a live pad shows what was asked of it.

**Fault memory** (`comm/fault/fault.v`, `entry.v`). State: a report cell written
by the supervised task, a control cell written by the memory, the DTC status
bytes, a 16-bit generation. Operations: `consume`, `cycle_start`, `cycle_end`,
`clear`, `set_setting`, `renew`. Hard: a report of before a clear arriving after
it, the generation wrapping, 0x85 changing within an off window. Correct when a
cleared DTC comes back only for a failure seen after the clear.

**Fault persistence** (`comm/fault/persist.v`). A status image and snapshot
blocks over the journal. Operations: `persist`, `persist_clear`, `restore`,
`load_snapshot`. Hard: several puts make one change and power may go, or the
store refuse, between them. Correct when what is restored is one of the states
acknowledged, with snapshots only of DTCs the image claims.

**UDS server and diagnostic connection** (`comm/uds/uds.v`, `uds/remote.v`,
`comm/diag/diag.v`). State: session, security level, S3, a reset waiting for its
answer, and which of two transports (bus, network) is being served. Operations:
`serve`, `serve_remote`, `remote_sent`, `remote_dropped`, `housekeep`,
`functional`, `reset_due`. Hard: two transports alternate over one server.
Wrong keys and a lockout go through the node's own reset in a keep cell
(`boards/common/diag_board.c`). Correct when a reset follows its answer, no unlock
outlives its session or serves the other transport, and a reset buys no attempts.

**Gateway and DoIP** (`comm/diagroute/diagroute.v`, `comm/doip`), and the
**DoIP mailbox** (`driver/eth/doip_mb.h`) between network thread and main loop:
post, serve, withdraw, collect, queue, drop, push. Hard: a connection that drops
while its request is served. Correct when an answer goes to the tester that
asked, once.

**Bootloader** (`boot/boot.v`, `boot/prog.v`). State: image headers and valid
marks in flash, the programming session, a stepped erase or check. Hard: power
cuts while an image is replaced; two transports; lost responsePending. Correct
when only a checked image is ever started.

**Network management** (`comm/nm/nm.v`) with **lifecycle** (`ecu/lifecycle.v`):
nodes on a broadcast bus that must sleep together and none while one needs the
bus. **Watchdog sentinel** (`wdg/sentinel.v`): alive and deadline supervision.

**Signals, monitors and protection** (`comm/com`, `comm/e2e`, `comm/secoc`),
**parameters** (`comm/param/param.v`), **trace** (`comm/trace`), **scheduling**
(`loom`, `osal`), **shell, telemetry, SOME/IP**, **cryptography** (`bcrypto`),
**drivers and board glue**, **generators and tools**, **examples**.

### How they interact

- Parameters and fault persistence call the journal's `put` and `get` by block
  id; generated boot code calls `mount` and `prune`; the quiet points call
  `compact` and `erase_pending`; an orderly shutdown ends in `mark_clean`.
- The diagnostic connection owns one Link per bus and feeds the UDS server;
  the UDS server clears and controls the fault memory and schedules resets; the
  bootloader runs the same Link and the same server pass (`serve_step`) with its
  own handler; the gateway owns one further Link towards the ECUs behind it.
- The network thread reaches the UDS server only through the mailbox.
- Application threads and the second core reach the communication stack only
  through the signal cells, the bulk transport and the CAN ring.
- Network management asks the lifecycle for the bus and is asked by it.

### What is not modelled, and why

Cryptography is arithmetic on 256- and 512-bit integers, covered by test
vectors. Shell, telemetry and SOME/IP parse and format with little state.
Generators run on a host: what they emit enters as the callers of the modelled
parts. `boards/h735dk/lv_conf.h`, a fifth of the C lines, configures a display
library. Fault memory and its persistence, network management with the
lifecycle, the sentinel, reception monitors, end-to-end protection, parameters
and the offset scheduler are sequential V; they are in the plan (section 10).
What each modelled part leaves out is said with it.


## 2. The journal

### From code to model

`DurableStore` is the promise to the callers: each block serves a value, and
`inDoubt` is the set of values the next mount may come back with. An attempt
adds its value to the set; an acknowledgement makes it the only member; a mount
picks one member. A block dropped by `prune` is promised nothing any more: it may
come back with anything ever tried for it (`past`), or not at all. `degraded` is the store's own word (`pool_overflow`) that it
could not take every block in.

`Journal` is `nvm/journal.v`. Its correspondence with the source:

| model | code |
|---|---|
| `flash[s][i]` | the slot's bytes, as blank, torn, a marker or a record (block, value, seq, part) |
| `table[b]` | the block's row, with the value `get` would return and where it lies |
| `active`, `cursor`, `pendingErase`, `partnerClean`, `tailClean`, `maxSeq`, `poolOverflow` | the fields of those names |
| `job`, `phase`, `todo`, `cur`, `part`, `moved`, `savedCursor` | the open call's program counter and locals |
| `PutBegin`, `MarkBegin`, `CompactBegin`, `ErasePendingBegin`, `Mount`, `Prune` | the entry of each public call, with every early return |
| `SpaceFound`, `SpaceCompact`, `SpaceRefused` | `ensure_space`, with its inline compaction |
| `EmitNext`, `EmitMarker`, `PartWritten`, `PutWritten`, `RehomeWritten`, `CopyWritten`, `MarkWritten`, `RehomeMarked`, `CopyMarked`, `Commit` | one flash program each, and what the code does once it succeeded |
| `ProgramFails`, `EraseDone`, `EraseFails` | a program that fails with the slot burned, an erase, an erase that stops half way |
| `PowerCut` | power goes while nothing, or a program, or an erase is under way: RAM is lost |

All calls run on one thread, so a call is open alone; what interleaves with it
is the flash. A failing program leaves the word torn, blank, or landed but
unreadable; a program over a word that is not blank leaves it torn, which is what
makes programming one twice visible. A value is `Parts[v]` records. CRC and
layout are abstracted to the kinds of cells.

### Runs

| run | asks | instance |
|---|---|---|
| `journal_cut` | type, `PartnerAccounted`, `ImplementsStore`, `CleanPreserved` | 4 slots, 3 blocks with one value each over 2 table rows, the schema changing at each boot, 2 power cuts |
| `journal_chain` | `NextWordBlank`, `SeqNamesOneWrite`, `LoopFits`, `NoFalseClean`, `RefsValid`, `JournalInv`, `ImplementsStore` (and `BootHonest`, section 7) | 5 slots, 1 block, a plain value and a two-record chain, no `prune`, 1 flash failure and 1 cut |
| `journal_wedge` | `NeverWedged` is violated | no fault, no cut |
| `journal_honest` | `CleanIsHonest` is violated | 1 failure, 1 cut |

Why these bounds: four slots are the least in which the capacity check admits
two blocks and a rewrite (marker, two values, headroom), so that compaction and
re-homing have something to move and something to leave; five admit the chain. A
third block that the table has no row for makes mount drop one, and a changing
schema makes `prune` free a row, which is when compaction and erase could destroy
the only copy. Two cuts let the second one fall into the recovery from the first.
A stale value that returns shows in `journal_chain`, which has two values; a lost
one also in `journal_cut`; what `prune` brings back is left to the theorem below, as two
values beside a changing schema make too many states. `SeqCeiling` bounds the number of appends exactly as
the code's `seq_ceiling` does, so at the bound the model takes the code's own
refusal path. Blocks, and values of one length, are interchangeable in the code,
hence the symmetry sets. Deadlock is not checked: at the sequence ceiling, or with
power gone for the last time, the journal may stop. There are no liveness
properties: the journal promises nothing unless called.

### What is proved

`JournalProofs` proves, for any sector size, number of blocks and rows, value
lengths, schemas, faults and cuts, under `JournalAssumption` alone:

- from `Invariance` (`Spec => []JournalInv`): `TypeCorrect`, `NeverProgrammedTwice`
  (`NextWordBlank`), `PartnerAlwaysAccounted` (`PartnerAccounted`), `RowsAlwaysLead`
  (`RefsValid`);
- from `WholeInvariance` (`Spec => [](JournalInv /\ WholeInv)`): `OneWritePerNumber`
  (`SeqNamesOneWrite`), `StoreIsImplemented` (`ImplementsStore`, the refinement of
  `DurableStore`), `NeverFalselyClean` (`NoFalseClean`), `CleanTailKept`
  (`CleanPreserved`).

`JournalInv` is about what the RAM leads to. None of the first four is inductive alone. That the word under the cursor is blank
needs the blank frontier of the active sector *and*, since a failing compaction
goes back, of the sector it came from (`FrontierBlank`); that the cursor stays
inside needs the value being written to fit with the parts already on flash
(`WriteShape`); that a row leads to its value needs no row to lead into a sector
being erased or filled (`StraysSafe`) and the deferred table updates of `compact`
to point at copies that exist (`CopiesValid`); and `CallShape` says what each
control point may assume of the open call. `journal_chain` checks the
conjunction with TLC.

The argument: one lemma per group of actions (`OpenSteps`, `SpaceSteps`,
`EmitSteps`, `PartStep`, `LastPartSteps`, `MarkSteps`, `CommitSteps`,
`FailureSteps`, `EraseSteps`, `PowerSteps`, `MountStep`), each with a step per
action and under it one per conjunct it can disturb. `ProgramFacts` and
`ProgramKeeps` say what one program changes and what it leaves;
`FrontierFacts`, `FoundFacts`, `NewestFacts` and `MaxSeqFacts` say what mount's
scan returns for any flash content whatever, which is why the invariant holds
again after any power cut. `InitInv` and `NextInv` collect them.

`WholeInv` is about every record left on flash, those of lost rows and interrupted
calls too:

- `SeqInv`: no record is newer than `max_seq`, and while a record is being written
  only the parts of the same value bear its number. So a fresh number names one
  write, and mount, taking over the highest number it reads, keeps it so; a number
  whose record was torn may be used again because nothing readable bears it.
- `StoreInv`: each block is `Settled`. With a row, every complete record at least as
  new holds a value in doubt (`DoubtedFrom`); without power, some complete record is
  such that this holds from its number on (`Held`), or absence is in doubt as well
  (`Loose`). `Newer`, that a compacted copy is newer than its original, keeps this
  over `Commit`, and `NoneHidden`, that nothing is compacted or erased while mount
  left a block without a row, keeps the hidden one.
- `AckInv`: while the last marker is older than an acknowledged put, a complete
  record newer than every marker is on flash (`Unmarked`), served or hidden.
- `CleanInv`: a compaction leaves no gap behind it, and on a clean tail the marker
  is the last record before the partner is erased.

The argument for the refinement: `ServedIsRow` reduces what `get` answers to the
row; `AttemptIs`, `AcknowledgeIs`, `PowerLossIs`, `ForgetIs` and `RecoverIs` map the
five steps that are the store's, and `StoreRests` all others to a stutter.
`RecoverIs` is where `Settled` is needed: mount's choice is one of the values in
doubt. For `CleanPreserved`, `CleanMounts` computes the sector mount will pick.

Proving it corrected the model. A prune used to leave the dropped block in doubt
between its last value and nothing. That is not what the code does: `prune` frees the
row, so nothing re-homes the newest record, an erase then takes that one and leaves an
older one in the other sector, or a power cut inside the erase does, and a schema that
names the block again meets the old value. Hence `past`. (`prune` is for blocks the
schema has dropped; a caller that brings an id back gets this.)

Only model-checked: `LoopFits`. It compares a sum over a set with the records each
step appends; what such a fold returns when an element leaves its set can only be
proved by induction over the set.

### Findings

- `journal_wedge`: `rehome_strays` with nothing to re-home re-appends the marker,
  and answers false when the active sector is full. After `compact`, `put`,
  `mark_clean` with the marker in the last slot, the partner is never erased and
  every later put is refused, for ever; docs/nvm.md:263 promises appends at any
  moment.
- `journal_honest`: a reverted compaction leaves a readable marker in the sector
  mount does not pick; a put torn behind the older marker is then not seen and
  mount reports an orderly shutdown. `NoFalseClean`, the weaker property that
  *acknowledged* puts are never overlooked, holds.


## 3. The bulk transport

### From code to model

`BulkQueue` is the promise: a pool, a queue of published messages, and messages
the consumer holds, which do not change until released. `Bulk` is `bulk.h`, every
load and store a step. A store waits in its core's buffer and reaches memory by
`Drain`, in any order; `XIOC_DMB` is the guard `Fenced` (buffer empty); a core
sees its own waiting stores (`Own`). `Put` is `XIOC_ST`. Cursors count modulo
`CursorMod`, for 2^32. A payload is two words stored and loaded apart, plus its
length, so a mixture of two messages shows. The order of actions is the order of
statements: `LoanCursors, LoanEntry, LoanAdvance` is `bulk_loan`, and so on; each
DMB of the code is a `Fenced` in the guard of the step after it.

The producer is any interleaving of loans, fills and publications that
`xcore_bulk_produce` allows, the consumer any of takes, reads and releases.
Before the first `bulk_init` memory looks like a full ready ring under no magic.

A load takes effect at its step. That is enough: a load whose order matters is
followed by a DMB in the code, and the others read a cell only their own core
writes. Not modelled: the read-only queries, the statistics counters and the
hardware semaphore that rings the other core's doorbell (the services poll).

### Runs

| run | asks | instance |
|---|---|---|
| `bulk_pool` | `PoolSound` (type, `OneOwner`), `ImplementsQueue` | 2 buffers, cursors modulo 4, 4 messages |
| `rest` | `PoolRecovers`, `OldestTaken` | the same pool, failed loans counted up to 1, messages indistinct |
| `bulk_wrap` | `SlotsDistinct` is violated | 3 buffers, cursors modulo 4 |
| `bulk_restart` | `HeldNotLent` is violated | `RestartSpec`: the producer restarts once, alone |

Two buffers and cursors that wrap every two turns of the rings put every pair of
operations beside every other, at every cursor, with the wrap. Four messages are
more than the transport can hold, so an old one is never taken for a new one. The
refinement linearises a publication at the store of the ready head, a take at the
store of the ready tail, a release at the store of the free head.

Fairness: weak on the producer and on the consumer, both service loops that
run unconditionally (`m4_glue.c:177`, `target_ext.c:329`), and on each side's
stores reaching memory. None on a failed loan. `RestartSpec` asks safety alone. Loads act at their step, so
the barriers between stores are put to the test (a dropped one breaks `PoolSound` or
the refinement), and those between a load and a later store are not.

### What is proved

`BulkProofs` proves, for a pool of any size and any number of messages:
`PoolStaysSound` (`PoolSound`), `SlotsStayDistinct`, `HeldIsNeverLent`, and
`PoolIsQueue`: `Spec => ImplementsQueue`, the refinement of `BulkQueue`. All four
assume `Divides`, that the pool's size divides the cursors' range. The two pools that
exist have four buffers (m4_glue.c:186 of `h755_m4_app`, :196 of `system_full`'s
`domain_m4`), and four divides 2^32; `bulk_wrap` shows what happens without. They are
about `Spec`: a producer that restarts alone is `RestartSpec`, and `bulk_restart`
shows that there `HeldIsNeverLent` is false.

`PoolSound` is not inductive, because what is in memory is not what the cores have
stored. The invariant (`BulkInv`) says that there are six counts: buffers loaned,
released and shown as released, taken, published and shown as published. The four
cursors, in memory or still in a store buffer, are their remainders (`Turns`); the only
entry a core has waiting is the one it is about to show (`Waiting`); a call that is
half done has read what still holds (`Loaning`, `Publishing`, `Taking`, `Releasing`);
and every buffer is in the free ring, lent, in the ready ring or held (`Somewhere`),
and in one of them once (`NotTwice`). Stores land in any order, so each landing is a
step of the invariant too (`ProducerLands`, `ConsumerLands`). That the pool's size
divides the range is used where a slot is computed from a wrapped cursor.

The refinement adds what the buffers say (`Content`): only the producer's buffers have
words waiting, what is published is whole in memory, and what is held says what it
said when it was taken. Each action has its lemma: `LoanRefines`, `PublishRefines`,
`TakeRefines`, `ReadRefines`, `ReleaseRefines` are steps of the queue, `QuietRefines`,
`DrainRefines` and `BootRefines` stutter. A store that lands late changes nothing
abstract, because the mapping reads a ring's head where its own core sees it: that is
why the barriers are where they are.

### Findings

- `bulk_wrap`: slot numbers are `cursor % nbuf`. Unless `nbuf` divides 2^32 the
  sequence jumps when a cursor wraps and two descriptors in flight share a slot.
  The configuration accepts any `nbuf` from 1 to 1024
  (`tools/cfgschema/ecu.v:262`). Where it divides, all is
  well (`PoolIsQueue`).
- `bulk_restart`: `bulk_init` of a restarted M4 resets the rings under a consumer
  that holds a buffer; the consumer only asks for the magic
  (`target_ext.c:331`). `m4_glue.c:82` guards the signal channels against exactly
  this.


## 4. ISO-TP

### From code to model

`IsoTp` is two Links, `tester` and `ecu`, over a wire that keeps the order of
each direction. A message is a number and a length in frames; what its frames
carry are pieces `<<message, position>>`; only the four-bit number (`SnMod`) and
the type are visible to `on_frame`, as in the code. Deadlines are ticks left.

| model | code |
|---|---|
| `OnSingleFrame`, `OnFirstFrame`, `OnConsecutiveFrame`, `OnFlowControl` | the arms of `on_frame`, with the expiry checks inside them |
| `PollFrame`, `AfterPoll` | `poll`: flow control first, then the transmission |
| `Receive` | `take_frame` and `take_request`, which a pass calls in one go: a request that completes while an answer is being sent is dropped |
| `Poll`, `PollLost`, `PollRefused` | `pump`: the frame arrives, is lost on the way, or is refused and the transmission is aborted |
| `Tick` | `tick`; also `poll`'s own N_Bs check, which has the same effect |
| `EndExchange` | `end_exchange` of the gateway: `abort_tx` and `abort_rx` |
| `PeerWaits`, `Time` | external: a peer that answers WAIT as often as it likes; the clock |

`stale` is a history variable: some transmission was given up while the flow
control meant for it was still to come. Two ends of different buffer size make
overflow happen; in the field the tester is any ISO 15765-2 implementation.

### Runs

| run | asks | instance |
|---|---|---|
| `node` | `ExchangedIntact`, `GrantsKept` | three messages one way or one each way, of 1, 3 or 4 frames; 2 frames lost or refused, 1 exchange abandoned |
| `rest` | `ExchangeRests` (`ComesToRest`) | two messages from the tester, the same losses |
| `isotp_blend` | `AlwaysIntact` is violated | two messages, 1 lost frame, 1 abandonment, numbers modulo 16 |

A block size of one at the ECU and of zero at the tester, a message longer than
the ECU's buffer, and numbers modulo 3 for 16 (so that a number recurs within a
message) make each arm of the code happen. Two losses let the repair of the first
be lost. `GrantsKept` compares what a sender sends with
what flow control granted it. `ExchangedIntact` says what the code guarantees: intact as long as
nothing is lost, whatever is late or abandoned; and intact whatever is lost, as
long as no flow control outlives its transmission. The run is a whole
exchange that ends, so deadlock is not checked; `ComesToRest` says that it ends
at rest.

Fairness: weak on receiving, sending and ticking at each end, which every owner
does in each pass (`step.v:99`), and on time. None on a peer that waits: that
`ComesToRest` holds against an endless WAIT is WFTmax's doing.

### What is proved

`IsoTpProofs` proves `GrantsStayKept` (`IsoSpec => []GrantsKept`), `ExchangeStaysIntact`
(`IsoSpec => []ExchangedIntact`) and, of the run's own specification,
`GrantsStayKeptInNode` and `ExchangeStaysIntactInNode`: for messages and buffers of any
length, any block sizes, any `WftMax`, deadlines, losses and abandonments.

`NoRunAhead` speaks of the moment a flow control is owed. The invariant (`IsoInv`)
follows it round, for each direction: the first frame, the answer that is owed and the
answer on its way are one token, of which there is at most one, and the sender waits for
it (`FirstAwaits`, `OwedAwaits`, `RefusalAwaits`, `AnswerAwaits`). What makes the token
pass on is that the two ends count the same block: no piece in flight lies past what was
granted, and the one that ends the block left its sender waiting (`BlockKept`, from
`ClearKept` while it sends); so when the receiver counts its block full, it lost none
of it and nothing of it is left on the wire. Lost frames only shorten what arrives
(`DirectionKept`); a sender that gives up leaves no token behind it precisely as long as
`stale` is false (`SenderStops`), which is why the property is conditional.

`ExchangedIntact` speaks of what an owner has taken. Its invariant (`WholeInv`) adds to
`IsoInv` where everything that was sent belongs (`Place`: which message of the sender,
which piece of it) and goes through a direction in two halves. The first needs no
condition (`Stream`): the sender is at the last message it accepted (`TxBook`), what is
in flight rises towards what it sends next, and what has arrived lies before all of it.
So no message is delivered twice or out of order. The second (`Content`) holds as long
as nothing is lost or no flow control is stale: the consecutive frames behind a first
frame, or behind the reception in progress, are of its message (`Joins`). Where no
answer outlives its transmission, a sender that is cleared to send has nothing but its
own consecutive frames on the way and a receiver that is at its message (`ClearKept`,
from `IsoInv`); where nothing is lost, the newest first frame on the way is of the
message being sent (`Current`), whatever let the sender go on. A reception then holds
rising pieces of one message, and the full one holds as many as there are
(`ShareIsWhole`): the whole message. The proof never compares sequence numbers: they end
a broken reception early, and a longer loss than they can tell leaves one short.

### Finding

- `isotp_blend`: the tester's first message is abandoned with its clear-to-send
  under way, the first frame of the next is lost, the clear-to-send starts the
  next message's consecutive frames, and the ECU delivers the first frame of one
  with the rest of the other. requirements/tp.toml:22 promises an intact exchange.
  ISO-TP itself offers no remedy but time; the code's `end_exchange` lets the next
  exchange start at once.


## 5. Signal cells

### `Ioc`: two threads of one core

`ioc.h`'s triple buffer with the pools of `comm_glue.c` on top. Slots `wr`, `rd`
and `middle` partition three buffers of `Size` bytes; `fresh` is the flag in the
exchanged word. `WriteBegin, WriteByte, WriteSwap` is `ioc_write`; `ReadBegin,
LookFresh` or `LookStale, ReadSwap, ReadByte, ReadEnd` is `ioc_read` with the
sticky "ever" flag of `ioc_get_ever`. Each byte and each exchange is a step, and
either thread may be preempted between any two. The k-th value has k in every
byte, so a mixture shows.

`NodeProofs` proves for every size and any number of writes, under
`IocAssumption`: `Invariance` (`Spec => []IocInv`), and from it `NeverTorn`
(`ReadsLatest`) and `EverIsHonest` (`EverHonest`). Neither property is inductive:
a read is whole only because the writer is never in the reader's slot
(`ThreeSlots`), because the newest value is in the middle while fresh and in the
reader's slot otherwise (`NewestHeld`), because what the writer has filled of its
own slot is the value to come (`FillGrows`), and because only the reader clears
the flag it saw (`FlagStays`). `WritesKeep` and `ReadsKeep` hold one step per
action and under it one per conjunct that the action can disturb.

### `XCore`: two cores

`xioc.h` and both ends' glue, every load and store of shared memory a step, either
core restarting at any of them. `dir` is the channel: the two-word pair, the wide
up-channel seeded per boot, the down-channel behind the gate its reader checks
before and after. Memory survives a reset, so a boot starts on what the one before
left. The satellite or the owner may come back with another build (`ours` in
`source`). The ack is a 32-bit word, nonce xor layout; the model takes it for the pair
of the two, so words of two different pairs that happen to be equal are left out.

`HeldWhole`: what the reader holds is one value of the writer. `NeverBack`: never an
older one after a newer. `DownOfThisBoot`: what the satellite is told is fresh is of
the owner's boot and of its own build, with no exception, because it looks at the gate
again after the copy. Two exceptions are the code's, and the properties name them: the
pair cell's numbers start over with the satellite, so a restart inside one poll can
blend (xioc.h:174); a satellite flashed with another build inside one poll can show one
value of it, because the up-channels are not gated again. Loads and stores take effect in program order: the regions are not
cached and each side orders them with barriers (the bulk transport, whose order
is subtler, is modelled with store buffers).

`XCoreProofs` proves `XCoreStaysHonest` (`HeldHonest`) and `XCoreNeverBack`
(`NeverBack`) for any number of boots, publications, slots and words, and
`NodeProofs` the same of the run's specification. They rest on one thing the
memory's contents cannot give: that a boot's numbers are not those of another boot
(`XNumbersAssumption`). The code argues it where it chooses the seeds: "consecutive
epochs land far apart in the sequence space" (m4_glue.c:95), and a coincidence across
boots is one in 2^32 (xioc.h:177). TLC evaluates the assumption for the constants of
the run. The argument is about the numbers that are spent (`Spent`: given by a boot
that is over, or published): none is given again, and a slot loses its number before a
word of it is written, so a slot that still has the number with which a read began
holds the words the read copied from it (`XCopied`). Which boot and which build a value
is of follows from the gate instead: what a reader that has passed it still sees of it
when it looks again has stood all the while (`GateShows`, `GateHeld`), in both
directions: until the writer retracts the gate, a reader that has passed it reads what
a writer of its own build left (`XPassed`, `FromBoot`). The pair cell,
whose numbers start over with each boot of the satellite, has only the gate, which is
why a restart inside a poll is excepted. `NeverBack` needs in addition that the
values the newest slot and the slot being read hold are no older than the one the
reader has (`Newer`).

### `OsalIoc`: the host

`osal_native.c`'s three variants over shared memory: `LoadSeq`, copies, `Stable` are
the seqlock; `LoadShared`, `Swaps` the triple buffer; `LoadActive` the double one.
`CellWhole` (one message and its length), `CellLatest` (what was the newest when the
read chose), `FreshOnce` (the fresh flag is consumed exactly once). The atomics'
orders are taken at their word; the sequence number does not wrap within the
bound. The double buffer is whole only while its reader keeps up, as its comment
says: an overrun is excepted from `CellWhole`.

`NodeProofs` proves `OsalStaysHonest` (`OsalSpec => []OsalHonest`) for any number of
messages, by one invariant for each variant: under the seqlock, what the
reader has copied while the number was stable is the message of that number; in the
triple buffer the three slots are apart and hold the messages their owners wrote; in
the double buffer the reader's slot is whole unless it was overrun. `CellsStayHonest`
puts it beside the two properties of `Ioc`, for the specification that is run.


## 6. CAN, trace, IO

### `Can` and `CanIf`

`Can` is one bus behind `can_port.h`, in one module because driver, controller and
comm thread share the FIFO, the flags and the semaphore. `cback` chooses the
register driver (`can_fdcan.c`), ST's HAL (`can_sthal.c`) or SocketCAN
(`can_socket.c`). Hardware moves between any two accesses: `Arrives`, `GoesOff`,
`ComesBack`, `GoesOut`, `Isr`.

| model | code |
|---|---|
| `OpenInit`, `OpenStart`, `OpenSocket`, `OpenClear`, `OpenLeave`, `ArmSem`, `ArmIe` | `can_open` and the arming of the receive wake |
| `CloseMark`, `CloseStop` | `can_close` |
| `Wakes`, `RecvPoll`, `NoteLost`, `ClearLost`, `Look`, `TakeFrame`, `RecvMsg`, `PassEnds` | the comm thread's pass: bus-off poll, loss flags, draining |
| `BusoffPoll` | the recovery state machine inside `can_recv` |

`LossIsTold`: no loss is silent. When the frame behind a loss is given, the overrun
count has grown since the call of `recv` in which the last of the lost frames was
lost, and it never exceeds what was lost. One event may stand for several losses: a
flag has one bit, and docs/porting.md:36 says so. (That losses are told
one by one, which an earlier form of the property said, is not so; the attempt to
prove it showed that.) `RecoveriesHonest`: what is counted as a recovery is one. `ClosedStaysOff`: a poll after close does not bring the bus back.
`NoFrameWaits`: a blocked thread with a frame in the FIFO has been woken or will
be. `BackOnBus` (run `rest`): an open bus that went off comes back. Two things
are the code's and excepted by name: with the HAL, frames lost between `HAL_Start`
and its flag clear are never told (`CountAtLoss`); a bus-off carried over an open may
go uncounted (`carried`). The host polls, so it has no wake.

`CanIf` is the back end over AUTOSAR's CanIf: callbacks run at any point of the
task. `RingIntact` says that the ring between them neither blends nor reorders
frames; `WireDone` that `tx_pending` never claims the wire is done while a frame is
in flight, although a confirmation may come before the transmit call returns. A
reopen clears the tally and keeps the ring, and a stopped controller's unconfirmed
frames keep `tx_pending` up; the model does the same. Filters, bit timing and the
V wrapper are not modelled.

#### What is proved

`NodeProofs` proves, for queues, rings and sessions of any size and number,
`CanStaysHonest` and `CanIfStaysHonest`, and from them `BusStaysHonest`, the property
`BusHonest` of the run's own specification.

The invariant of `Can` adds to the four properties which steps each back end has
(`CanPlaces`), when the controller is off the bus (`CanStopped`, `CanFresh`), and where
a loss is between the drop and the caller: counted, or in a flag that is noted before
the frame behind it can be taken (`LossFlagged`), or riding with that frame in the
kernel's count (`LossRides`). The HAL and the register driver differ from the socket
exactly there.

`CanIf` has free-running indices modulo 2^32 over a ring whose size divides that. Its
invariant therefore speaks of the unwrapped counts: there are numbers of frames
pushed, popped and left from before the open (`Ring(h, t, o)`) of which `head` and
`tail` are the remainders; the slots between them hold indications in order, whole
(`Contents`, `Ordered`), the two open calls have copied what they should (`Copies`),
and every indication is given, held, spilled or being pushed (`Accounted`).
`Remainders` supplies what two numbers less than a ring apart do modulo its size.

### `XTrace` and `Recorder`

`XTrace` is the trace of two cores: the owner posts `arm` or `snapshot` in a shared
cell, the satellite acts and stamps, and the round trip measures its clock against
the owner's. `OffsetBounded`: an offset the dump claims is within half the round
trip plus the microsecond the halves drop, wrapped clocks included, whichever
requests overtook each other. `ImportWhole`: the records imported answer the last
request. `NeverUnmeasured`, that no offset is claimed without an exchange since the
owner started (target_ext.c:147), is defined and checked by no run, because it does
not hold: after a reset of the owner the cell's acknowledgement still equals its
request, the first poll latches a closing stamp, and a dump claims an offset if the
old stamp happens to lie in the plausible window. `TraceHonest` is about dumps of a
boot that asked. The omission of bounds above 0xffff is not modelled.

`Recorder` is ThreadX's execution hooks: `ThreadEnter`, `ThreadExit`, `IsrEnter`,
`IsrExit`, with the comm thread's `CoreLoadTick`, `Arm`, `Freeze`, `Snapshot` cut at
each point an interrupt can enter. `LoadCounted`: a window's load is what ran, up to
what an interrupt inside the hook's own gap adds (it is counted twice, as in the
code). `SnapshotWhole`: a snapshot is a contiguous run of what was pushed.
`StaysFrozen`: only an arm or the snapshot's own end resumes capture. Interrupts do
not nest on these boards. `core_thread_permille` and the tick fallback of QEMU are
not modelled.

### `Io`

`io_stm32.c` as generated boot code calls it: `Declare`, `Start`, then the bring-up
store by store while pads already show what they are told, writes, the scanning
converter (`Convert` at any step), stop and restart. `OutputsHold`, `OutputsReached`,
`CarriersKept`, `OwnDutiesKept`, `SamplesReal`: a live pad shows what was asked of
it, a later point never retunes the timer of an earlier one, and no sample is
returned before one was converted. Pads are exclusive, as the generator makes
them; a stream stops within close's waits; the counter glitch of a second
channel's update event and reads of gpio (no state) are left out. A point whose
PWM is rejected keeps its timer entry: the node halts.

**Finding, `io_shared`.** The loop over the timers seen leaves at the timer's first
entry (`io_stm32.c:463`), so a third point on the second one's channel is accepted
and both write one compare register. `io_stm32.c:449` says that no two points may
claim the same (timer, channel). `OwnDutiesKept`, which `node` checks, says the same
of the points whose channel nobody else got; a point has its channel from the write of
the compare register on, before its pad is muxed (`Driven`).

#### What is proved

`NodeProofs` proves `IoStaysHonest` (`IoSpec => []IoHonest`) and, of the run's own
specification, `IoStaysHonestInNode`: for images of any length over the declarations
of `Declarable`, and any number of starts and writes, under `IoAssumption`.

`IoHonest` speaks of live pads and says nothing of how they became so. The invariant
(`IoInv`) adds, in the order of the bring-up: what is configured is what was declared
and accepted, and nothing else, so a rejected output is a fault (`IoPoints`); the scan's
slots are the converter points', one each (`IoSlots`), and a slot is filled since this
start once the flag is up or the rank has passed it (`IoScan`); a muxed pad belongs to
an accepted point, and between the store of its level and the store of its mode the
level is already the declared one (`IoPads`); what the loops have passed is driven or a
fault is noted that will halt the node (`IoReach`).

The timers are the hard part, because pads stay live over a close and the next start
forgets which timers it has seen. A timer's carrier must then be chosen again as it
was: by the lowest point on that timer that a carrier exists for, which is the same in
every start of one image (`Leads`). `IoTimers` says that all entries of a timer have
its carrier and that the leading point's is the one; `IoDuties` that a driven point was
found to agree with it (`Tuned`), so that the start after sets what is already set.


## 7. The network

### `DoipMb`, `Doip`, `DoipRoute`, `DoipIdle`

`DoipMb` holds `doip_mb.h`'s operations on a mailbox record, used by both modules.
`Doip` is a tester that pipelines, pauses its acknowledgements, closes or resets
its connection and comes back; the doip thread (`Accept`, `Receives`, `Activate`,
`Post`, `TimesOut`, `Collect`, `Withdraw`, `Send`, `Recycle` and the two report
steps); and the server thread's pass (`TakeSent`, `TakeDropped`, `Take`, `Serve`,
`TakePushSent`, `Step`, `Due`). `urgent` is the priority order the nodes are
generated with; without it (`urgent = FALSE`) the threads run in any order and only
plain requests are asked, for the properties that must hold whatever the
priorities.

`ResetAnswered`: no reset overtakes the answer that announces it. `OwnAnswers`: an
answer goes to the tester that asked. `FailedNotActed`: a request reported as
failed is never served, nor forwarded. `NothingInherited`: no session and no
unlock passes to the next connection. `NothingStuck`: nothing waits for a
connection that is gone. `StepAfterAck`: an erase stalls the chip only once the
response before it is out. A divergence without a consequence: `doip_mb.h:91` says
that an answer of a gone connection is never acknowledged whatever the next one
queues, but `doip_netx.c:543` calls `doip_mb_queue` for every message it sends, so the
next connection's activation reply, once acknowledged, reports the old answer as
sent. By then its drop was told and nothing waits for it: `ResetAnswered` holds.

`DoipRoute` is a gateway: the request goes to the router on the comm thread, which
judges it at once and delivers its answers later through one slot; `AnswersOwn`
says that a delivered answer is the latest request's of the connection it goes to.
Until the router says that it holds the exchange no longer, or its word is too old to be
believed, the doip thread does not give up (`GivesUp`): where the comm thread runs first
its word is never old, where the threads run in any order it may always be.
The router's several ECU slots are one, and the ISO-TP exchange behind it is `OnBus`
(`IsoTp` is its model). `DoipIdle` is the inactivity deadline over a tick that
wraps: `DeadlinesKept`, closed neither early nor late. Header parsing, packet
reassembly and UDP announcements are not modelled.

### `EthDma` and `NetUp`

`EthDma` is the descriptor rings with the driver of NetX over them, the DMA moving
at any step; one thread is in the driver at a time (the IP mutex), the interrupt
only defers. `ReceptionLives`, `TransmissionLives`: whenever the DMA is suspended
and descriptors are its own, somebody is still to ring the bell; `PacketsKept`: no
packet is lost from or given twice to the pool. Receive's tail pointer is only a
doorbell: the DMA stops at a descriptor that is not its own, not at the pointer, so a
wrong value in it would not show. The code has two copies: receive is
mapped to `h735dk/eth.c`, transmit to `h723/eth.c`. As in the code, a `GET_STATUS`
after a disable sets the link up while no receive callback is registered.

`NetUp` is one NetX for two services at one address, the link poll over MDIO in
several steps, and the glean of a tester's ARP entry before it is answered.
`ModeFollows`: once a poll is done the MAC has the mode of the link.
`ResolvedKept`: a resolved entry is never overwritten. `PoolWhole`, `OneEndpoint`.
A failed read of PSCSR falls back to 100 Mbit full until the next poll, and
`net_link_up` is stored after the mutex is given back; both are in the model.
`blob_eth_open` after a close makes the service thread again; that is modelled
once.

### `Boot`

The request cell, the decision after a reset, the programming session over two
transports, and the flash under it. A slot is two sectors and three words (header,
mark, image); `EraseEnds`, `ProgramEnds` give what a word may be when the operation
ends, fails or loses power. `AppVerified`: only a whole signed image is ever
started. `UnlockOwn`: an unlock is of the transport that proved, in its session.
`SilenceEnds`: a session, and a stay over a good application, end when the tester
falls silent, whatever the other one sends. `misread`: a request is taken once and
as it was left.

What the model shows of the code and does not state as a property: after a flash
word that failed, `stage_len` stays 32 and a `TransferData` sent again writes on
behind the stage buffer (`prog.v`'s `program_stage`; the boot image is built
without bounds checks, boot.mk:89), so the model stops following there; `erased`
stays true after a download; a check asked again after a torn mark programs it
without reading back; no application ever sees `BOOT_REASON_PROGRAMMED` (main.v:96); `g_app_ok` is not refreshed by an erase, so the idle return resets once
and then stays; a dropped connection can defer a reset. Torn words read as zeros,
and a torn mark is assumed not to read as VALD. The default and the programming
session, whole-word transfers, and downloads of all or of the image alone are
modelled; certificates and formats are not.

### `Diag`

0x27 over two transports: one server whose session both share, an unlock each, and
`diag.v`'s hiding of the one while the other is served (`Hides`, `Seen`, `Leaves`,
`ComesBack`). Wrong keys are counted per level; a lockout runs; the node's own reset
saves both in the keep cell word by word (`BeginsReset`, `KeepSaves`, `KeepReset`),
and power may go between two words. `UnlockOfItsOwn`: a transport sees the unlock it
earned in this session entry and no other, and does not lose it to what the other
asks. `early`: no seed is given in a lockout, whatever resets came between.
`misled`: a start finds exactly what the reset saved, or nothing.

Counts are lost with a watchdog or a power reset, as the docs say; an unlock on one
transport replaces the other's; a key for a seed drawn before a lockout began on
the other transport is still compared. Garbage in the cell at power-on is assumed
not to match both magic and check. Data services and the table's gates are not
modelled.


### What is proved

Every property of the run `network`, and `BootHonest`, is a theorem too: for every
value of the constants that the modules' named assumptions admit, in particular for
any number of connections, requests and resets. None of them is inductive; what
follows is what their invariants add, and why.

**The DoIP mailbox and the route channel** (`NetworkProofs`), of the run's own
specification: `MailboxTyped`, `ResetIsAnswered`,
`AnswersAreOwn`, `FailedIsNotActed`, `NothingPassesOn`, `NothingIsLeft`, and the
action properties `UnitsAfterAck` and `AnswersComeBack`. The invariant of the mailbox
(`MailboxInvariance`) has two halves. What holds in any order of the threads is that
the mailbox's numbers never run ahead of what they follow (`Shape`), that a request
given up on is withdrawn before it can be taken (`Fates`), and that what is on its
way on a connection is that connection's (`OnConnection`, `MessagesOwn`); that alone
gives `FailedIsNotActed`. The rest needs the priorities, and says why: a posted
request is served in the pass that the post wakes, before the doip thread moves
(`ServedAtOnce`), and a drop is taken likewise (`TakenAtOnce`), after which nothing of
the connection is left (`NothingLeft`); an answer sent on a connection that lives is
still with TCP or with the tester (`AnswersSent`), and no queue report covers it
before it is (`NotQueuedYet`, `InFlight`). Only so does an acknowledgement that covers
the queue count mean that the tester has the answer the reset (`ResetWaits`) or the
routine (`RoutineOwn`, `PushesSent`) waits for. Of the route channel
(`RouteInvariance`): a ticket belongs to one connection (`TicketsOwn`), a request is
judged while its tester waits (`JudgedAtOnce`), and a connection's end has been heard
before the next accept (`HeardAtOnce`), by which its unlock, its grant and whatever
the channel holds are gone (`UnlockOwn`, `GrantOwn`, `ChannelClear`).

**The deadlines, the driver and the bring-up** (`NetworkProofs`): `DeadlinesAreKept`, for any limits below the range of the tick
counter: the age and the silence that the property counts are the differences of
the counter the code computes, because neither reaches its range before the
connection is closed (`BeforeActivation`, `AfterActivation`). `EthStaysAlive`, for
rings of any size: the filled descriptors are an arc of the ring from the driver's
index to the DMA's (`RxKept`, `TxKept`), a suspended DMA has filled them all, and the
tail pointer is at the driver's index or a doorbell behind it. `NetUpStaysHonest`:
the link flag, the mode and the mutex are tied to the place of the thread that holds
it (`OwnerPolls`, `ModeKept`), and whoever is past the bring-up was let past it at
the one address (`EndpointKept`). `NetworkStaysUsable` says the last two of the run.

`DiagIsHonest`, in the same module. The server's lockout outlasts what is owed and
counts every wrong key, in whichever place of a reset it is (`Locks`), the words
saved so far are those of the counts, and a start finds a whole save or none
(`Saving`); an unlock that a pending reset hides is the only one there is
(`HeldByReset`).

**`BootProofs`**: `BootIsHonest`. A mark stands over a verified image or what is left
of one (`FlashOrder`: nothing is downloaded under a mark, and a check runs with no
download open); the time the server measures is never short of the silence of its
tester (`Clocks`); the cell holds a whole request or none (`CellKept`).

## 8. The composed runs

`node`, `network`, `rest` and `journal_chain` explore independent parts, one per
initial value of `part` (`runs` in `MCCut`, whose other run, `journal_cut`, leaves the boot manager at rest); a part that does not move rests in
its initial state, so the state space is the sum and not the product, and a
property of one part is about that part alone.

| run | part | why its bound is enough |
|---|---|---|
| `node` | `Ioc` | two bytes make a blend, four writes pass every slot twice |
| | `IsoTp` | section 4 |
| | `XCore` | two slots are lapped by three publications; two boots of the writer, two of the reader; numbers that wrap at 16 |
| | `Can` | a FIFO of two overrun by five frames, a bus-off in each of two sessions |
| | `CanIf` | a ring of two whose indices wrap at 4 for 2^32, filled by five indications over two sessions |
| | `XTrace` | two requests, one reset, clocks that wrap |
| | `Recorder` | a ring of two that is overwritten, one table entry for two threads, two interrupts and two switches |
| | `Io` | three points over two timers and two starts: the least that shares a channel behind another |
| | `OsalIoc` | five messages over three slots, of two lengths |
| `network` | `Doip`, `DoipRoute` | two connections, so that something can be inherited; a request pipelined behind another |
| | `DoipIdle` | ticks modulo 8 against deadlines of 2 and 4: the count wraps inside one |
| | `EthDma` | rings of two and three with a pool of two: full, empty and wrapped |
| | `NetUp` | two renegotiations, or one and a close; a pool of two packets |
| | `Diag` | two wrong keys to a lockout of two ticks, one reset that is not the node's own, one level |
| `journal_chain` | journal | section 2 |
| | `Boot` | deadlines of one and two ticks, one response lost and sent again, one power cut or flash failure |
| `rest` | `Bulk` | section 3 |
| | `IsoTp` | two messages from the tester, two losses |
| | `Can` | thrown off the bus twice |
| `io_shared` | `Io` | three points on one timer |

Deadlock is not checked in these runs: each counts frames, writes, requests or
resets up to its bound and then may stop, and a node that reset or halted stays so.
What must go on is stated instead: `NoFrameWaits`, `NothingStuck`, `EthAlive` as
invariants, and the four liveness properties of `rest`.

Fairness in `rest`: weak for each service loop of the bulk transport and for the
draining of stores (section 3); weak for receiving, sending and ticking at each
ISO-TP end and for time (section 4); on the bus, weak for the comm thread's pass,
for an open or close that was begun, and for the controller coming back once it
was told to (128 idle sequences always come on a bus that lives). None for
arriving frames, for the interrupt or for going off.


## 9. What stays with TLC

By nature: liveness under fairness and anything with ENABLED (the four properties of
`rest`); what a recursive definition computes for every input, as there is no
induction over data. No module uses a `RECURSIVE` operator; sums are the folds of
the community modules.

Not proved yet, and model-checked on the instances above:

| module | property | what a proof needs |
|---|---|---|
| `Journal` | `LoopFits` | induction over the set whose sizes are summed: out of reach |
| `XTrace` | `TraceHonest` | the order of four clock readings, both clocks wrapped |
| `Recorder` | `RecorderHonest` | sums over a window against what ran: that part is out of reach as well |


## 10. Plan

In this order; a module that will be proved about takes its sizes as CONSTANTS with
a named assumption and its invariants as named conjuncts.

1. **The other parts of the run `node`**: proofs of `TraceHonest` and of what of
   `RecorderHonest` is no sum.
2. **`FaultMemory`**, producer and memory over two cells of the kind `Ioc` models,
   with the generation modulo a small number and a history variable for what was
   seen since the clear. Property: a cleared DTC comes back only for a failure seen
   after the clear. Then **`FaultStore`** over `DurableStore` (the abstract journal:
   that is what the refinement is for), with refused puts and cuts.
3. **`Nm`** with the lifecycle: three nodes on a lossy broadcast bus. Nobody sleeps
   while someone requests; once nobody requests, all sleep.
4. Sentinel, reception monitors, freshness and counter windows, parameters over
   `DurableStore`, the offset scheduler.


## 11. Running it

Each `.cfg` names its specification and constants; `MC*` modules hold the values
a `.cfg` cannot write down. `tlc -config BulkPool.cfg MCBulk` runs one,
`tlc -config Network.cfg MCNetwork` the network, `tlc -config JournalChain.cfg MCCut`
the journal over power cuts beside the boot manager. `tlapm` checks the proofs of
one module: `JournalProofs`, `BulkProofs`, `NodeProofs`, `XCoreProofs`, `IsoTpProofs`,
`NetworkProofs`, `BootProofs`, and `Remainders`, the arithmetic that
`BulkProofs`, `NodeProofs` and `XCoreProofs` share. `PROJECT.json` lists the runs with their
modules, the source lines each definition stands for, the mutations each property
detects, the hazards and the theorems.
