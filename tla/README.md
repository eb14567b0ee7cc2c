# Verification of the aic7xxx / aic79xx StorPort drivers

`src/win7-11` holds two Windows StorPort miniports, ports of the Linux drivers
for Adaptec's parallel SCSI adapters: `aic7xxx` (up to Ultra160) and `aic79xx`
(Ultra320). Each consists of a *core* (chip set-up, queues, error recovery,
message protocol), a *port layer* (`*_storport.c`, `*_osm.h`: what Linux or
FreeBSD gave the core, rebuilt on StorPort), PCI and SEEPROM code, and a
*firmware* (`*.seq`), a program for the sequencer on the chip, which the core
downloads and which executes concurrently with the driver. `common/aicasm` is the
assembler of that firmware.

This directory models that system in TLA+, checks it with TLC on small instances
and proves what it can for all instances with TLAPS.

## 1. Inventory

Target mode (`AHC_TARGET_MODE`) is not compiled in this port and is left out of
every model. StorPort runs HwStartIo, HwInterrupt and HwResetBus of a
half-duplex miniport under one lock, so the host side is one process; the
concurrency is between that process, the sequencer, the DMA engine, the PCI bus
with its posted writes, and the targets on the SCSI bus.

| component | state it keeps | hard behaviour | modules |
|---|---|---|---|
| SCB pool, hardware SCB exchange and input queue (aic7xxx) | `free_scbs`, `scbindex`, `scb->hscb`, `next_queued_scb`; `qinfifo`, `qinfifonext`, `HNSCB_QOFF`, `SNSCB_QOFF`, `NEXT_QUEUED_SCB` | the card knows in advance which hardware SCB it fetches next, so a new command exchanges its SCB with the reserved one; removal races the DMA of the queue's head; 8 bit counters wrap | `AhcQinfifo`, `RequestQueue` |
| output queue and completion interrupt (aic7xxx) | `qoutfifo`, `qoutfifonext`, `SDSCB_QOFF`, `INTSTAT` | posted register writes; the ring is wiped four bytes at a time; the sequencer never checks for room | `AhcQoutfifo`, `CompletionChannel` |
| on-card SCBs (aic7xxx) | SCB RAM, `FREE_SCBH`, `DISCONNECTED_SCBH`, `WAITING_SCBH`, `SCBPTR` | lists threaded through SCB RAM by both sides; the host edits them while the sequencer is paused at any instruction outside a critical section | `AhcCardScbs` |
| completion status (port layer) | CAM status and flags of each SCB, the SRB | status is read again after other steps have changed it; several commands are completed in one pass | `AhcStatus` |
| shared DMA memory (both) | the uncached extension, what is left of its pages | the size asked for is ignored; allocation may fail between any two steps | `AhcDmaLayout`, `AhdDmaLayout` |
| data pointers and residuals (aic7xxx) | `sgptr`, `dataptr`, the residual fields, `SHADDR` | disconnection, save and restore in mid transfer, a byte that is taken back | `AhcDataPointers` |
| data FIFOs and residuals of packetized commands (aic79xx) | both FIFOs, the pointers in the SCB, the good status FIFO | status overtakes data; firmware and host take turns in serving a FIFO | `AhdDataFifo` |
| negotiation and messages (both) | settings current and aimed at, their copies in every SCB and on the chip, the message buffers and the kind of session | a session may turn, break off or be spoilt at every byte; both ends must agree on the outcome | `AhcNegotiation`, `AhdMessages` |
| execution queues (aic79xx) | a list per target, the list of targets, the MK_MESSAGE SCB that waits, the freeze counts | lists are joined, split and searched by both sides; a bad status must stop selection until it is handled | `AhdQueues` |
| firmware assembler | the scopes, the patch table, the sections, the labels | counts over nested and chained conditionals | `Aicasm` |
| firmware download and critical sections (both) | `cur_patch`, `skip_addr`, the relocated sections | skipped instructions move jump targets and sections; a pause may fall anywhere | `SeqLoad` |
| configuration and chip start (both) | settings in EEPROM, scratch RAM and driver, termination, external SRAM, registers a reset clears | four sources of settings in three encodings; a restart has to bring back what a reset lost | `AhcConfig`, `AhdConfig` |
| SEEPROM access (aic7xxx) | the serial bus, the part | nobody knows which part is fitted | `Seeprom93cx6` |

`PROJECT.json` lists these with what each leaves out. How they interact: the port
layer queues commands (`AhcQinfifo`, `AhdQueues`) in memory that was laid out at
the start (`Ah?DmaLayout`), the firmware fetches them into the card
(`AhcCardScbs`), executes them on the bus (`Ah?Negotiation`/`Messages`,
`Ah?DataPointers`/`DataFifo`) and posts their completion (`AhcQoutfifo`), and the
port layer translates it (`AhcStatus`). Everything runs on a chip that was
configured (`Ah?Config`) and a firmware that was assembled and downloaded
(`Aicasm`, `SeqLoad`).

## 2. Plan

Modelled, most important first: the completion path, the submission path, the
SCBs on the card, statuses, memory; then data, messages, the queues of the
aic79xx, the firmware's way to the chip, and configuration. Each module is
parameterised by constants and, where it shall be proved about, free of
`RECURSIVE` operators (`SeqLoad` and `Aicasm` are for TLC alone). Each proof
module EXTENDS the module it is about, or its MC module where the property is
stated for both chip families.

Left to prove, in this order:

1. the rest of `SessionHasMessage`: types, and that the host is never asked for a
   byte it does not have (`ActiveMessage`), in both families;
2. the lists of `AhdQueues` (`ListsConsistent`, then `InOrder`);
3. `AlwaysAScb`, `SlotsConsistent` and `DataPointersSurvive` of `AhcCardScbs`, once
   its lists are written without recursive operators.

A further step would be to compose `AhcQinfifo`, `AhcCardScbs` and `AhcStatus` by
shared tags, for what needs two of them (which channel
`ahc_handle_proto_violation` resets, core 3113; that a status belongs to its SCB).
Their product is too large for the bounds below.

## 3. Modules

All line numbers are in `PROJECT.json`, under "map". Every module makes the
same reduction of concurrency: a host action is a whole handler, because StorPort
serialises HwStartIo, HwInterrupt and HwResetBus and the handlers pause the
sequencer before they touch its state; the sequencer's actions are split
wherever it can be paused or where DMA or the bus lets something else in. An MC
module instantiates one or two of them; where both chip families are in one run,
a behaviour is one of either family and the other stands still. An operator that
is said to be "mutated" is a bug the run is known to find; the specification does
not use it.

### AhcQoutfifo: the completion path

`qoutfifo` is a ring of tags in host memory. The firmware takes a position
(`TakePosition`: `SDSCB_QOFF` moves), posts the tag by DMA (`PostByte`) and then
raises `CMDCMPLT` (`RaiseCmdCmplt`). The host's handler writes `CLRCMDINT`, a
posted write (`Interrupt`, `DeliverClrint`), reads a register to flush it
(`FlushDeviceWrites`), takes entries one by one and wipes them four at a time
(`RunQoutfifo`, `Wipe`) until it meets an empty one (`QoutfifoEmpty`).
`ResetChannel` is a bus reset: it pauses the sequencer, drains the ring, ends
all commands, and restarts the sequencer from the top. Nothing in the ring says
how full it is: there is an entry for every tag and a few to spare, which is
`QueueDepthAssumption`.

`CompletionChannel` is what this is for: finished commands are delivered in
order, once each, and eventually.

### AhcQinfifo: the submission path

The queue is a linked list of hardware SCBs in host memory (`mem`), whose last
link names a reserved hardware SCB (`hscb[next_queued_scb]`), repeated in the
ring `qinfifo` between `SNSCB_QOFF` (the card's position) and `qinfifonext` (the
driver's; `HNSCB_QOFF` is the card's copy, written by a posted write,
`DeliverQoff`). `StartIo` is HwStartIo to the end: get an SCB, fill the reserved
hardware SCB, exchange the two, put the tag into the ring. The sequencer's
`dma_queued_scb` is four actions: see that there is work (`TestQueue`), DMA the
SCB (`DmaScb`, and its link `DmaScbNext`, which may be older or newer than the
command), and the check that nobody removed it meanwhile (`TakeQinscb`,
`AbortQinscb`). `Search` is `ahc_search_qinfifo`, including the swap that makes
room for the reserved SCB when the head goes; every recovery handler that
calls it is an action. Twin adapters are modelled by `ChannelB`: a reset of the
channel the sequencer does not serve edits the queue and lets a fetch go on.

What a search leaves of the queue is said by positions (`Subsequences`), so that
it can be reasoned about.

`RequestQueue` is the abstract queue: commands start in order, each once, and
only commands of the device in error are taken back.

### AhcCardScbs: SCB paging

The few SCB slots of the chip are threaded into a free, a waiting and a
disconnected list through SCB RAM (`ram`). `GetFreeOrDiscScb`, `PageOut` and
`Dma` move SCBs between slots and host memory; `Reselect` is `findSCB`;
`AbortScbs` is the host's sweep (queue, waiting list, disconnected list, then
every slot by its tag) and `Restart` is `ahc_restart`, which frees the slot in
use if `SCB_DMA` is set. Data pointers are one bit: has the target saved them?

The code loses slots and frees slots twice, and the model follows it there. Four
history variables take down what it has done: `left` are the slots of rejected
negotiations, which nobody gives back; `forgotten` those that a restart left on no
list because neither the sweep found a tag nor `SCB_DMA` was set; `unsaved` the
commands whose SCB was on its way to host memory at a restart that did free the
slot, so that it is paged in again from an old copy; `doubled` says that a slot was
freed that was on a list or in use. The properties say that nothing *else* happens to
slots, and nothing of the lists after a slot has been freed twice. `Twin` allows
resets of another channel. Not modelled: chips without paging, the busy-target
table, targets that reselect for a command nobody sent.

### AhcStatus: how a command ends

One byte of `cmd->result` holds the CAM status and the bit `CAM_DEV_QFRZN`; the
module keeps it as the number it is, because it is the arithmetic on it that
matters (`SetStatus`, `GetStatus`, `Freeze`). The actions are the handlers that
set it, each with the search of the device's queue it makes, and `AhcDone`, which
translates it. `bus` records what the device really did. The pause
`ahc_platform_freeze_devq` asks StorPort for is left out.

### AhcDmaLayout, AhdDmaLayout: the shared memory

`ahc_ucext_alloc` hands out the 64 KB uncached extension page by page,
whatever size was asked for. `AhcDmaLayout` has the real sizes and addresses:
`AllocFifos`, `AllocHscbs` and `AllocSense` take a page each, for arrays that
would need one, four and two; `FirstScbs` and `MoreScbs` are
`ahc_alloc_scbs`, four S/G lists a page, with the failures of pool memory that
end a batch early. That 13 pages are left for S/G lists, so that there are at
most 52 SCBs and not `AHC_SCB_MAX_ALLOC` (254), is what keeps the arrays apart.

`AhdDmaLayout` is the aic79xx's, whose `ahd_alloc_scbs` remembers what is left of
the newest page of hardware SCBs, S/G lists and sense buffers, and resumes an
attempt that failed anywhere. Here a failure loses nothing. The extension holds
at most 44 SCBs (40 if it is not aligned, 22 with 64 bit S/G elements), so that
tags never collide in their low eight bits and the collision lists, which
HwStartIo switches off anyway (`AHD_NEVER_COL_IDX`), are not needed.

### AhcDataPointers: data phases of the aic7xxx

One reading command on a wide bus, its buffer a list of segments, each given by
the number of its last byte. The target
sends as much as it likes in each `DataPhase`, disconnects, saves and restores
pointers, and may declare the last byte to be padding (`IgnoreWideResidue`:
`ahc_handle_ign_wide_residue`, which steps back, across a segment if it must).
Bytes are numbered, so that `memory` tells which byte went where. `Reinitialized`
is `ahc_reinitialize_dataptrs`, `CalcResidual` is `ahc_calc_residual`.
`AfterResidue` says what a target may do once an IGNORE WIDE RESIDUE has taken a byte
back: "save" its pointers before the next data phase, or "restore" a place it saved
before the residue. With either the code goes wrong (section 6); everything else, a
save behind the next data phase or a disconnection included, a target may do
in every run. Left out: writing, the prefetch of S/G elements.

### AhdDataFifo: packetized data of the aic79xx

A packetized target sends data in contexts, each of which takes one of two FIFOs
(`BeginContext`, `Receive`, `EndContext`, `Drain`). The firmware serves them from
its idle loop (`Cfg4Data`, `LoadSegment`, `SavePointers`, `Drained`,
`LastSegDone`, `ContextDone`), and each segment it loads carries how many bytes
have been loaded up to its end (`upto`); the good status may be there first
(`GoodStatus`, `TakeGoodStatus`). A host that pauses the sequencer does the firmware's work
itself, at any time and for any number of contexts (`Flush`, `RunDataFifo`,
`FlushEnds`). The history variable `misled` is set when it begins a context whose
segment it takes for the last of the list by mistake. Left out: overruns, writing, chips
without `AHD_RTI`, the non-packetized data phase.

### AhcNegotiation, AhdMessages: messages and transfer settings

The handlers are operators from the record of the driver's and the chip's state
to the record after them, composed as the code calls them: `HostMsgLoop` is
`ahc_handle_message_phase` with `ahc_parse_msg`, the construction of an answer
(`BuildTransferMsg`), `ahc_handle_msg_reject` and `ahc_set_syncrate`,
`ahc_set_width`, `ahc_update_pending_scbs` under them. `Select`, `Reselect`,
`Mesgout` and the like are the firmware's share. The target is the environment:
it chooses phases and messages, and breaks off (`BusFree`). A bounded number of
faults (`MaxErrors`) brings parity errors, protocol violations and reselections
nobody knows. Of a period, an offset or an option only the order matters. In this
port nothing sets a goal other than asynchronous, and the `spi_populate_*`
helpers write no message; the models do what the code does then, which is to send
what the buffer holds. `ChannelReset` and `PuntMessage` are handlers of phases the
target should not have gone to; ABORT TASK and ABORT TASK SET have the same number in
this port, so that a bus free after either takes back one SCB only. `Taking` and `Sensing` name record updates
that both families, or two actions, make, so that proofs can cite them. `AhdMessages` is written along the aic79xx code: NEGTABLE,
transmission errors, a sequencer that takes COMMAND COMPLETE while ATN is up.

### AhdQueues: the execution queues of the aic79xx

The sequencer fetches SCBs from the input queue (`Fetch`) onto one list per
target; the heads of these lists form the list of targets to be selected. A
selection (`StartSelection`, `Arbitrate`, `Selected`, `SelectOut`) sends as much
of a list as the target takes. An SCB with a message waits until its target's
list is empty (`q.mk`). A bad status freezes the queue (`FreezeQueue`) until
`ahd_handle_scsi_status` has taken the commands of the device off the lists and
caught up (`RunQoutfifo`, `Thaw`). `SelectionTimeout`, `BusFree`,
`NegotiationRejected` and `ResetChannel` are the recovery. A search may put a
MK_MESSAGE SCB in the place of another target's list, as the code does; `strayed`
holds its target from then on until no list of it is left. `MaxLost` bounds the freezes
that nobody will handle.
Left out: the coalescing of interrupts, the order inside the completion lists;
DMA to the host is one step.

### Aicasm, SeqLoad: the firmware on its way to the chip

An action of `Aicasm` is a production of the assembler's grammar, so that a
behaviour first writes a program, any within the bounds; `EndOfSource` is
`process_scope`, `back_patch` and `emit_patch`. `SeqLoad` continues it: the driver
meets a chip with some set of features, `LoadInstr` is a round of `ahc_loadseq`
(`ahd_loadseq`) with `check_patch`, the relocation of a jump (`resolve_seqaddr`)
and the walk through the critical sections. Then the sequencer runs, the host
pauses it anywhere (`Pause`) and steps it out of critical sections (`Step`). Left
out: expressions, macros, registers, the encoding of instructions, S/G prefetch
constants.

### AhcConfig, AhdConfig, Seeprom93cx6: the start of day

A *board* is a record of what it has: chip, EEPROM, settings of each target,
cables, external SRAM, what a BIOS left. `SoundBoard` and `SoundAhdBoard` say which
boards there are: what fits on which chip, settings of legal values, and what a BIOS
leaves behind being something it could have meant. `Extras` are boards they do not cover,
on which the code does not do what it says (section 6). One action is one function of the start
(`ahc_pci_config`, `check_extport`, `ahc_init`, `ahc_chip_init` and so on), and
then the board is stopped, put to sleep, restarted (`ScsiStopAdapter`, `LosePower`,
`ScsiRestartAdapter`) or loaded a second time (`LoadAgain`). The settings travel
through the scratch RAM in the chip's own encodings, modelled as the numbers they
are. `AhdConfig` has its state machine for the EEPROM and the flexport, both of
which may time out, and goes on to queue and complete commands, because some chips
are reset, with both queue positions, in the middle of a bus reset
(`HwResetBus`). `Seeprom93cx6` reads and writes the EEPROM bit by bit, against a
model of the part, and with the wrong number of address bits as well.

Left out: the AIC-7895 and twin boards, EISA and VL boards, chip bugs, cache and
PCI-X settings, VPD, current sensing, PCI error interrupts, suspend and resume
(nothing calls them).

## 4. Runs

| run | bounds | states | shows |
|---|---|---|---|
| `QueuesLive` | output queue: 3 tags, ring of 8; input queue: 2 requests, 3 hardware SCBs, ring of 3, negotiations rejected; fair | 341 000 | a post never hits an entry not wiped yet, the handler never meets a tag without a command, no completion waits without an interrupt, `ahc_check_cmdcmpltqueues` sees what is there, and the ring implements `CompletionChannel`, delivery included; what is queued leaves the input queue |
| `QinfifoSafety` | 3 requests, 2 devices on 2 channels, one of which rejects negotiations, 4 hardware SCBs, ring of 4 | 73 000 | list, ring and pool agree (`QueueConsistent`), nothing cancelled is run, a REQUEST SENSE is not overtaken (but where its device rejects a negotiation), and the queue implements `RequestQueue` |
| `CardListsSafety` | aic7xxx: 3 tags, 2 devices, 3 slots, any restart and any number of rejected negotiations until a slot is freed twice or only one is left; aic79xx: 3 SCBs, 2 targets of 2 units, one forgotten freeze | 205 000 | no slot shared or lost but as the history says, one slot per command (`SlotsConsistent`), always a slot for the sequencer, data pointers survive paging; commands of a target in order and once, lists well formed (`ListsConsistent`) but for an SCB misplaced, a selection under way is not cut, selection frozen until every bad status is handled |
| `CommandsSafety` | data: 5 lists of up to 3 segments, 3 data phases (aic7xxx), 4 lists, 3 contexts (aic79xx), fair; status: 3 commands of one device | 85 000 | every byte at its place, the residual right; both FIFOs idle and, unless the host was misled, the data in memory before the command is completed, an uploaded SCB tells the exact residual, a good status completes its command; no error is answered with SUCCESS, a failed REQUEST SENSE is answered with the check condition |
| `StartSafety` | memory: 4 alignments, one failure of pool memory (aic7xxx), two (aic79xx), both sizes of S/G lists; firmware: programs of up to 8 units, 5 instructions, 4 scopes, 2 sections, 1 jump, 3 conditions | 848 000 | nothing overlaps, nothing is outside the extension, no piece of the aic79xx belongs to two SCBs, and its failures cost none; the chip gets the instructions the source selects, jumps reach their labels, a paused sequencer is stepped out of critical sections |
| `NegotiationSafety` | 2 commands of one target (aic7xxx), 1 (aic79xx), one fault each | 687 000 | a message session has a message, ATN says when there is one and when it ends, unknown settings are negotiated and the chip follows the others, errors are reported on the connection they happened on |
| `ConfigSafety` | 2 targets; every setting of one target in every format, every cabling, every external SRAM on five aic7xxx chips; three revisions of aic79xx; one restart; EEPROM calls of 2 words | 938 000 | the settings are taken as asked from whatever source, but for the rates that `Misread` names; a running board is set up so after every stop, restart and reset, quiet until then; the EEPROM returns and keeps what was written |
| `QoutfifoRaceReset` | 3 tags, ring of 8, `RaceReset = TRUE` | violation | a reset between taking a position and the post leaves a hole in the ring |
| `CardRestartLeak` | 3 tags of one device, 3 slots | violation | a restart while the SCB of a reselecting target is paged in loses the slot |
| `DataResidueSaved` | as `CommandsSafety`, `AfterResidue = {"save"}` | violation | after a residue and a save the data go on one byte too high |
| `DataFlush` | as `CommandsSafety` | violation | a host that flushes completes a command of two contexts without its last data |
| `ConfigReload` | as `ConfigSafety`, `Reload = {"bios"}` | violation | a driver loaded again reads command lengths as transfer rates |

Six of the passing runs hold two or more parts of the system that share nothing: a behaviour is
one of these parts and the others stand still at one of their initial states, so that
the run asks of each what a run of its own would ask (`MCQueues`, `MCCardLists`,
`MCCommands`, `MCStart`, and the families in `MCNegotiation` and `MCConfig`).

**Bounds.** The ring of 8 has two groups of four, so positions wrap from one
into the other; that a ring with room for every tag and three more is never
full is proved for every size. In `AhcQinfifo` the ring is as small as the
code's arithmetic allows and wraps every four commands; three requests give a
head, a middle and a tail to remove, two devices something to keep.
`ResetsPerFetch` bounds the resets of the other channel during one DMA; one is
what the code's check survives, two is what it does not. Three slots, of which
rejected negotiations and restarts lose some, page with three commands; `Followed`, a
CONSTRAINT, ends a behaviour where two of the three are lost or a slot has been freed
twice, of whose lists the properties say nothing; with two devices an abort has something
to leave alone. Three commands of one device are the one in error, one behind it on
the bus and one in the queue. A list of three segments has a first, a middle and a
last; segments of one byte make IGNORE WIDE RESIDUE cross a boundary, and three
phases (contexts) leave, return and end. Two commands of a target give
`ahc_update_pending_scbs` another SCB to update than the one connected. Three
SCBs on two targets make lists that are joined, split and searched at the head,
the middle and the tail. The programs of `StartSafety` nest two conditionals
and chain a third with `else`, inside or across a section. In `ConfigSafety` only
one thing about a board is unusual at a time, except where the code combines two
(rate and width; every SRAM property; sensed and manual termination);
`MCAhdBoards` gives most boards one command, negotiation, reset or stop and six
boards `MaxOps` of them, which is enough to wrap a ring of three. `Words` and
`Starts` are arbitrary.

**Symmetry and views.** Symmetric sets are only permuted in runs without
liveness; SCBs, slots, devices and conditions are compared, never ordered.
`LiveState` in `MCQinfifo`, `MCCardScbs` and `MCAhdQueues` is a VIEW without what
nobody reads again: ring entries outside the queue, links of slots and SCBs on no
list, the data of free slots, the registers of a fetch that has ended, the message
of a command already sent, the order between commands of different targets. Every
property is a function of what is left.

**Fairness.** `AhcQoutfifo`: the firmware finishes a post it has begun, the bus
delivers posted writes, an asserted interrupt is taken and the handler runs to its
end; a target need never finish. `AhcQinfifo`: the firmware's fetch goes on (it
polls), posted writes are delivered, and a selection ends, with the target or
with SELTO, which the chip's timer guarantees. `AhdDataFifo`: the chip drains its
FIFOs, the firmware's idle loop serves each FIFO that has something to do, and a
host that flushes goes on; a target need not send anything. No fairness is assumed
of the port driver, of devices or of errors, and all of it is weak. The part of a run that
stands still has no fair action enabled in its initial states. The handlers
are taken to return; loops in them (`ahc_run_qoutfifo`, `ahc_search_qinfifo`) are
bounded by the ring.

**Deadlock** is checked in the runs of the queues and of the card's lists. It is not in
`NegotiationSafety` (the model ends at a panic, which `SessionHasMessage` is about, or
with a target that stays away), `CommandsSafety` (the command has ended),
`StartSafety` (a program the chip has no room for) and
`ConfigSafety` (a board that is refused).

## 5. Proofs

Eight modules, each for every value of the constants that the assumptions
of the model allow. Where a theorem has a further hypothesis it is a constant
of the run, and the run that sets it otherwise shows what goes wrong
(section 6).

**`AhcQoutfifo_proofs`**, under `RaceReset = FALSE` (no reset between taking a position
and posting): `TypeCorrect`, `PostsNeverCollide`, `CompletionsAreGenuine`,
`NothingIsMissed`, `InterruptsAreNotLost`, `ImplementsChannelSafety`. None of the
safety properties is inductive, since none says what the entries between the
host's and the sequencer's positions hold. `IInv` does, by distance from the
host's position: first `Pending` different finished tags, all there are
(`PendingEntries`), then empty entries up to those that the host has taken and
not wiped (`EmptyEntries`). That the sequencer never gets that far is a
pigeonhole: the pending entries are different tags, and one more tag is still
running (`PendingBound`). For the interrupt, `InterruptState` says that a clear is
only outstanding until the flush, and that with something pending the interrupt
is asserted, unless the sequencer is about to assert it or the handler is still
walking: clear, flush, walk is the order this needs. The abstract queue of `CompletionChannel` is the pending
entries in order; posting appends, taking removes the head, all other steps
stutter.

**`AhcQinfifo_proofs`**, under `ResetsPerFetch <= 1`: `ViewsAgree`,
`CardRunsNoStaleCommand`. The driver has three views of a command, and the
invariant joins them: whose hardware SCB is whose (`Owners`), which one place
each command is in (`Places`), and that the hardware SCB of a queued tag holds
its command (`Contents`); `ListMatchesRing` follows the links along the ring. A
search moves the command at the head to another hardware SCB. So the proof goes
through what any search returns (`Sound`: the list is what is kept, in order, its
links end in the reserved SCB) and shows once that installing such a result
keeps the invariant (`InstalledSettles`). `FetchIsFresh` is about the
sequencer in the middle of a fetch: what it has read is the head of the queue,
or the head has changed and the check after the DMA sees it. With a second reset
the head may change and change back; that is the hypothesis.

In the same module, under the same hypothesis: `ImplementsQueueSafety`, with
the commands at the queue's positions as the abstract queue: `StartIo` submits,
`TakeQinscb` starts, the handlers that search take back, `CheckCondition` and
`NegotiationRejected` queue again. `SenseIsNotOvertaken` is then shown of the
abstract steps, of every device outside `Rejecting`: a device whose negotiation
is cut off gets its REQUEST SENSE queued again behind other commands. Those retries
do the other devices no harm.

**`AhcStatus_proofs`** (of `StatusSpec`, whose operators have "Status" in their names because
a run composes them with the data): `AnswersHold`, `CheckConditionIsReported`, for any number of
commands. `CommandOK` says which result words a command can have in each place:
in progress, the one status that is set without freezing, or a status with the
freeze bit. `AhcDone` masks with 0xFF, so a frozen word never compares equal to
`CAM_REQ_CMP`; only a word still in progress is answered with SUCCESS, and such a
command, on the bus, has met nothing but its selection.

**`DmaLayout_proofs`**, for all addresses of the extension and any number of
failures of pool memory. Of the aic7xxx: `TypeCorrect`, `StructuresAreDisjoint`,
`WritesStayInside`. `Layout` says where the three fixed pages are, `Lists` that
S/G lists lie behind them, one behind the other; so there are at most 52, and 52
hardware SCBs or sense buffers fit in a page (`ArraysFit`).

Of the aic79xx, for both sizes of an S/G list: `ScbPiecesAreApart`, `NoScbIsLost`. Of each of the three kinds one page has pieces
left, at its end; the pages in use differ (`Current`), what was given out lies
elsewhere (`Behind`), and a refill takes pages behind all of it. That nothing
is lost is bookkeeping (`Counted`): pages handed out equal pieces given out
plus pieces left, whatever failed. It also bounds the SCBs by the pages there are,
hence well below 256, hence tags that differ in their low eight bits.

**`DataPointers_proofs`**, for every list of segments and any number of data phases
or contexts.

- aic7xxx, under `AfterResidue = {}`: `TransferInPlace`, `TransferResidual`. The SCB and
  the residual are addresses and counts; the invariant reads them as places in the
  buffer (`PlaceAt`, `ResidualAt`), where the SCB says where the target's saved
  place is and the residual where the chip stands, one byte ahead of the target
  when it has stored a byte of padding (`Synced`). Then every byte goes to its
  place, or is padding at the place of the byte that will overwrite it
  (`InMemory`). SCB_XFERLEN_ODD tells whether there is padding, because its
  parity is that of what remains to be sent (`Paired`), or of what the target saved
  while no byte was taken back since. A target that saves before the next data phase, or
  goes back over a byte taken back, makes the SCB wrong, which is the hypothesis.
- aic79xx, without a hypothesis: `FifoDataFirst`, `FifoUploadTells`. Two
  contexts lie one behind the other in the buffer (`Ordered`), so memory
  holds what has left both FIFOs (`Stored`). The place in the SCB is that of the
  first context that has not put its own back (`Based`), and the target's when
  there is none (`AtTarget`); a second context is announced only then, so that its
  segments are loaded from the right place on (`Covers`). Who completes the command
  has seen that no FIFO is in use and no context announced (`View`). The mark of the
  last segment in the SCB is right while the host is away; when it flushes, the
  SCB may carry a wrong one (`ScbNear`), and once the host has begun a context with it
  (`misled`) another invariant takes over (`Adrift`): nothing is loaded any more, what has
  gone to memory is at its place, and the command is completed without an upload. How
  many bytes are missing then is not claimed; `DataFlush` shows that some are.

**`Config_proofs`**, for any boards, number of targets, SCBs and ring entries that
`BoardsAssumption`, `AhdBoardsAssumption` and `RingAssumption` allow, under
`Extras = {}`:

- `BoardsAreQuiet`: no interrupt is enabled, on the chip or in either value the driver
  keeps for HCNTRL (`pause`, `unpause`), unless the board runs. Types are part of it
  (`Kept`), and need that what was found on the board is sound, since a rate that no
  table has would not be of its type.
- `SettingsReachTheTable`, under `Reload` within {"seeprom"} as well, and except the
  rates of `Misread`. What the driver
  knows of the settings at each stage is `Staged` and `AhdStaged`: the EEPROM's words,
  then their encoding in scratch RAM, then the table. That decoding undoes encoding is
  shown rate by rate (`BiosMeans`, `NewPeriod`, `FastPeriod`), because three families
  of chips use three encodings and `ahc_find_period` searches a common table.
- `BoardsRunAsAsked`, under `LostInSleep = {}` too. `SetUp` and `AhdSetUp` follow each
  latch and register from where it is written to where the board runs. The queues
  of the aic79xx need `AhdAgree`: each hardware SCB belongs to one SCB or is the next
  (`Perm`); the valid bit of an entry tells on which side of the chip's position
  it is (`Marks`), and an entry between the two positions names a pending command
  of its own (`Named`), as does each SCB on the way from the one the chip
  fetches next to the one the driver fills next (`OnPath`). That the chip does not
  overtake the driver in the ring is the pigeonhole of `Room`.

**`AhdQueues_proofs`**, for any number of SCBs, targets and units:
`SelectionStaysFrozen`. `QFREEZE_COUNT` leads the kernel's count by at least the
number of bad statuses not handled yet; every handler that lowers the lead
handles that many in the same step.

**`Negotiation_proofs`** has one lemma for every operator a handler is composed of,
and a relation between the state before and after for each family.

- aic79xx: `ReportsStay`, `ErrorIsReported`. Building a message leaves the report
  of an error, the bus and the settings alone (`Plain`); setting what was agreed
  keeps the chip's table in step (`Tuned`); a byte of a session clears the report
  only together with the session or when it has been sent (`Handled`); recovery
  ends the session (`Calm`). The invariant `AhdOK` says that a report waits for the
  target that was told, or belongs to an open session.
- aic7xxx: `AtnIsFollowed`, `DoubtIsNegotiated` (both families),
  `SessionHasAReason`. `AtnFollowsTheMessage` needs the length and position of
  the message that goes out, and these what a handler may leave in the buffer;
  `Sound` has that, with the settings and SCBs. `ScbOK` ties three things: an SCB
  asks for a message only while it is flagged to negotiate, and its copy on the
  card only while the SCB does, so that `ahc_update_pending_scbs` must take back
  all of them. `AhcOpen` says what the sequencer may announce when no session is
  open. `Steady` is a helper that leaves the session where it was, `AhcByte` a
  byte of one.

Only model-checked:

- liveness, and the liveness half of both refinements: fairness and ENABLED are
  outside what TLAPS proves;
- what recursive definitions compute: the assembler and the download (`Aicasm`,
  `SeqLoad`: `ImageIsSelected`, `JumpsReachTheirLabel`, `PausedOutsideSections`), and
  the lists threaded through SCB RAM (`AhcCardScbs`: `SlotsConsistent`, `AlwaysAScb`,
  `DataPointersSurvive`), which are walked by recursive operators and would need an
  induction;
- the lists of `AhdQueues` (`InOrder`, `ListsConsistent`, `SelectionStays`), which are
  searched by filters of sequences, and would need one too;
- `EepromHolds`: the serial protocol is followed bit by bit, and what it computes
  is again an induction over the bits;
- of `SessionHasMessage`, the types of the negotiation and `ActiveMessage`.

## 6. What the code does that its comments do not say

Shown by a run of its own:

- *A hole in the output queue* (`QoutfifoRaceReset`): the comment at the head of
  `ahc_intr`'s check is not true after a reset that comes between
  `SDSCB_QOFF`'s step and the post: the entry stays empty, and the host waits at
  it while later completions are posted behind.
- *A slot leaked by a restart* (`CardRestartLeak`): `ahc_restart` puts the slot of an SCB
  that is being moved back on the free list, but knows of the move by `SCB_DMA`, which
  only `dma_queued_scb` sets; `findSCB_notFound` (`aic7xxx.seq`:2067-2074) moves an SCB in
  without it.
- *A byte too high* (`DataResidueSaved`): `ahc_handle_ign_wide_residue` steps `data_addr`
  back (`aic7xxx_core.c`:4187, 4190) and never writes it, so that a SAVE DATA POINTERS
  before the next data phase stores an address one byte too high.
- *A flush that ends too early* (`DataFlush`): `ahd_run_data_fifo` writes SCB_DATACNT from
  the value it read before it cleared the last-segment byte (`aic79xx_core.c`:1533). The
  next context then counts as the last segment, and its FIFO is released with data in
  it, against `aic79xx.seq`:2046-2048.
- *Command lengths for rates* (`ConfigReload`): the command length table that
  `ahc_chip_init` writes over the transfer rates is taken by the next load of the driver
  for what a BIOS left (`aic7xxx_pci.c`:890-891).

In the models of the passing runs, where a history variable or a predicate says which
case it is, and the properties claim everything but that:

- `doubled`: `SCB_DMA` is still set when the sweep of `ahc_abort_scbs` has already freed
  the slot by its tag, or long after, because `abort_qinscb` (`aic7xxx.seq`:354-356) leaves it
  set; `ahc_restart` then frees a slot that is on a list. A sweep for the other channel
  frees the slot in use, if it still has the tag of an SCB just paged out of it.
- `unsaved`: with `SCB_DMA` left set like this a restart in the middle of a page-out frees
  the slot whose SCB is on its way. The command's SCB is gone from the card, and what the
  target later reselects for is paged in from an old copy.
- `left`: a rejected negotiation does not give its slot back, and with none left the
  driver panics.
- `strayed`: `ahd_search_qinfifo` (`aic79xx_core.c`:8296-8315) puts a MK_MESSAGE SCB that
  waits in the place of any list it emptied, another target's too. Its target then has
  two lists, and gets its commands out of order.
- `Misread`: the precedence of `|` and `?:` at `aic7xxx_core.c`:5467-5470 takes the rate of an
  Ultra2 target that has not negotiated for 10 MHz, or loses its width.

Obtained from the same models by checking one more property or changing a
constant:

*Queues and slots of the aic7xxx.*

- `ResetsPerFetch = 2` violates `NoStaleCommand`: on a twin adapter the
  cancellation check compares a tag that has come back, and a cancelled command is
  run.
- `SenseComesFirst` leaves out the devices in `Rejecting`, for which it is violated: a
  REQUEST SENSE queued again after a bus free goes behind commands the port
  driver, whose queue nothing froze, sent meanwhile.

*Statuses of the aic7xxx.*

- `SenseArrives` is violated: `CAM_STATUS_MASK` (0xFF, `aic7xxx_osm.h`:271) includes
  `CAM_DEV_QFRZN` (0x40), so `ahc_done` never recognises the status of a frozen SCB
  and drops sense data, although `aic7xxx_storport.c`:657-658 says that
  enumeration then stalls. For the same reason a command taken back
  from the queue is answered with ERROR, not BUSY (`doc/PORTING.md`:266), a
  selection timeout pauses the device for 30 seconds (`doc/PORTING.md`:268), and a
  data overrun freezes the queue before it sets its status (`doc/PORTING.md`:280).
- `ahc_freeze_scb` increments through `platform_data->dev`, which nothing
  initialises (`aic7xxx_core.c`:4973).

*Data.*

- `AfterResidue = {"restore"}` violates `BytesInPlace` too: `ahc_handle_ign_wide_residue`
  turns SCB_XFERLEN_ODD over (`aic7xxx_core.c`:4223-4230) and a RESTORE POINTERS to a place
  before the residue, which takes everything else back, does not.
- `NoResidualForgotten` is violated: `idle_loop_gsfifo` (`aic79xx.seq`:188) calls
  `complete` where `queue_scb_completion` would upload the SCB, and
  `aic79xx_core.c`:9065-9066 takes such a command for a full transfer.
- The test at the end of `ahd_flush_qoutfifo` (`aic79xx_core.c`:1241-1244) is the
  reverse of the firmware's (`aic79xx.seq`:1249-1251). An overrun in the first data
  phase of an aic7xxx command leaves SG_FULL_RESID set.

*Messages.*

- `ActiveMessage` of `AhcNegotiation` is violated: after a parity error inside a
  message the target began, `ahc_handle_message_phase` changes direction because of
  `send_msg_perror` (`aic7xxx_core.c`:3326) and panics over the length 0 (3228)
  before it looks at `send_msg_perror`. The aic79xx code has the test right, but
  not the one `AlwaysAReason` is about: MSG_OUT may still say HOST_MSG from a session
  that is over, and `ahd_setup_initiator_msgout` panics.
- `send_msg_perror` of the aic7xxx is not cleared when a session ends, so that a
  report of an error may be sent to another target (`ReportsStay` is checked of the
  aic79xx only).
- `spi_populate_*` write nothing and return 0: an answer to a negotiation the target
  begins is an empty message on the aic7xxx; whatever the buffer holds is what is
  sent when the length is not 0. `aic79xx_osm.h`:951-959 says they "should never be
  called".
- After a target-initiated WDTR the unknown offset 0xFF goes to the chip
  (`aic7xxx_core.c`:2688-2691; NEGTABLE on the aic79xx).
- `ahc_handle_msg_reject` and its twin may be entered with no SCB (`aic7xxx_core.c`:4062; `aic79xx_core.c`:5572).
- `PuntMessage` of the aic79xx (`aic79xx_core.c`:2062-2076) loses the SCB of the
  connection; a
  second bus reset while BUS_RESET_ACTIVE is set is ignored
  (`aic79xx_storport.c`:462-479).

*Queues of the aic79xx.*

- `NoFreezeForgotten` is violated: a data overrun freezes selection
  (`aic79xx.seq`:2245) for a command whose status may be good, and `cfg4istat_intr`
  (1941) does long before the command is completed, so that an abort in between
  forgets it. `aic79xx_core.c`:8826-8832 promises that every freeze is counted off;
  only `ahd_chip_init` puts it right (7448-7450).
- `jz batch_scb` (`aic79xx.seq`:377-383) lets a MK_MESSAGE SCB follow others of its
  target, against the comment above it (355-376).

*Firmware.*

- `EmptyBodies = TRUE` violates `TypeOK` and `LoadedIsSelected`: `process_scope`
  counts a patch for a conditional without instructions that `emit_patch` does not
  write. No conditional of the firmware is empty.
- The grammar accepts `else if` behind an `else` (`aicasm_gram.y`:1108 compares with
  T_ELSE, which is a token and not a kind of scope), and code between `}` and `else`.
- `ahd_loadseq` does not compare the program with the size of the RAM.

*Configuration.*

- `Reload = {"defaults"}` violates `SettingsTaken` as `Reload = {"bios"}` does.
- `LostInSleep = {"latch", "scratch"}` violates `BoardRuns`: `ScsiRestartAdapter`
  calls `ahc_reset` and no more; the latches of the termination are not written
  again, and SCSICONF is read back from scratch RAM. The same of the aic79xx's latch.
- `ScsiRestartAdapter` of the aic79xx (`aic79xx_storport.c`:508-512) does not start the
  sequencer again, as `ahd_resume` does (`aic79xx_core.c`:7882-7887) and as the comment
  of `ahd_reset`, "fully reinitialized to a runable state", has it: without the
  condition `ops = 0`, `RunsAsAsked` is violated. Nothing runs until a bus reset or a
  recovery restarts the sequencer.
- `Extras` with a Speedflex board with two cables shows that it is not "always terminated"
  (`aic7xxx_pci.c`:1616-1623).
- Neither HwFindAdapter nor HwInitialize resets the bus, and the flag that asks for
  it, RESET_BUS_A, is read nowhere. A HwFindAdapter that fails leaks what it had.

By reading: the driver has 51 commands at most (47 if the extension is not page
aligned), not 253, since the extension ends before `AHC_SCB_MAX_ALLOC` does.

## 7. Not modelled

Target mode (not compiled); register definitions and generated tables; headers,
build scripts and the toolchain. Of the modelled parts, what their "note" in
`PROJECT.json` names: writing commands and S/G prefetch, the bytes of a CDB, the
encoding of instructions, the transfer rates as frequencies, chip bug workarounds,
BRKADRINT, PCI errors, and the code nothing calls. Hazards that no property
covers are listed in `PROJECT.json` with a note.

The handlers that run with the sequencer paused are single steps everywhere; that
the chip really stops where `ahc_pause` says is an assumption about the hardware,
as are the order of DMA and posted writes on one bus and the atomicity of a byte
written by DMA.
