# A verification project for pico.mod

`pico.mod` is the Raspberry Pi Pico platform layer of BlitzMax NG: native C
(`runtime.mod/native/pico_runtime.c`, `network.mod/*/native/*.c`,
`storage.mod/littlefs.mod/glue.c`) under BlitzMax modules that own resources and
turn hardware activity into events. The file system on
the flash is the vendored littlefs (`storage.mod/littlefs.mod/littlefs/lfs.c`).
Programs call all of it from core 0, one call at a time. Interrupt handlers of
core 0, callbacks of the radio driver and of the Bluetooth stack, the DMA and PIO
hardware and, for the mailbox, the second core run beside it. Nothing here is
pre-emptively threaded; what is difficult is what a handler, a callback or the
hardware does between two statements of a call, and, for the file system, what is
on the flash when an operation is refused or the power fails between two of them.

Below: the inventory, how the modules follow the code, what the runs and the
theorems show, what they assume, and the plan.

## 1. Inventory

Sources are relative to `src/`; RT is `runtime.mod/native/pico_runtime.c`.

| Component | State it keeps | Operations | Hard behaviour | What makes it correct |
| --- | --- | --- | --- | --- |
| Deferred-event mailbox (RT 3586-3734, 4019) | ring of 32 entries, free-running `put`/`get`, drop counter, spin flag, WFE/SEV | post (from code or handler, either core), take, pending, wait, wake | two cores, handlers that pre-empt lock holders, wrap, sleep race | bounded FIFO; no self-deadlock; caller's interrupt state kept; no lost wake-up |
| Managed DMA (RT 3736-3970, `hardware.mod/dma.mod/dma.bmx`) | channels, per-line enables, counters, tokens; transfers and reference-counted buffers | claim, configure, start, abort, close, take completions; handler | failures half way, chains that restart a closed channel, spurious completion of an abort (RP2040-E13), reuse of channels | resources balanced, no DMA into freed storage, no foreign or false completion, every completion announced |
| Buffered UART (RT 2579-2813) | two rings with 32-bit counters, interrupt enables, drop counter | open, close, read, write, handler | calls and handler share the rings and the FIFO; bytes arrive inside the loops; wrap | each direction is a byte pipe; data never waits unannounced; accepted bytes are sent |
| PIO interrupt sources (RT 3417-3584, `hardware.mod/pio.mod/pio.bmx` 466-600) | masks in use, latch of triggers, token and mask of the line; source objects | enable, take, rearm, create, close, handler | level-sensitive sources masked by the handler, two objects compete for one line, stale records | no trigger lost or left over, only the owner gets events, each trigger is announced |
| Alarms (RT 798-953) | eight slots with generation, pending count, SDK alarm id | schedule, cancel, take, callback | stale handles, wrap of the generation, refusal by the pool, callback against reuse | slots agree with the pool; a handle names its own alarm; expiries exact |
| Wi-Fi and shared radio (`network.mod/wifi.mod/native/pico_wifi.c`) | claims, scan flag, last link status, event queue of driver and program | initialise, deinitialise, scan, join, service, access point | driver callbacks inside calls, full queue, Wi-Fi and BLE leaving in any order | power follows the claims; scans and links form a history; nothing delayed is lost |
| BLE (`network.mod/ble.mod/native/pico_ble.c`) | session, scan, advertising, connect and connection flags, deadlines, one GATT query, subscriptions, two event queues | start, stop, connect, cancel, disconnect, query, write, notify, poll; stack callbacks | flags tested before and set after the stack is entered; callbacks in between; two queues in a fixed order | links told in order, nothing forgotten, queries answered once and in order |
| PIO programs and state machines (RT 2915-3095, `pio.bmx` 225-315) | instruction memory, claims | add and remove program, create, close | failure half way through Create | claims and memory balanced |
| GPIO interrupts (RT 671-738, `gpioevents.bmx`) | an event word and a token per pin | listen, take, close, handler | same pattern as the PIO line | no edge lost or foreign |
| Calendar (RT 955-1174) | always-on timer, one alarm, a count | convert, start, stop, set and disable alarm, take | replacing an alarm while it fires | conversions invert; each alarm that came due counts once, none after it was given up |
| Portable PWM (RT 1248-1262, 1307-1491) | pins, shared slices, frequencies | init, deinit, set frequency, duty, polarity, enabled | two pins share a slice | every pin puts out what was last asked of it |
| Vendored littlefs, directory tree (`lfs.c`) | pairs on a threaded list, global state on the flash and in RAM, open files | create, mkdir, remove, rename, stamps, mount; relocation and recovery | calls of several commits, power failure between them, entries that move under an open file | a call happens at once or not at all; nothing half done is forgotten; a handle keeps its entry |
| Vendored littlefs, metadata pair (`lfs.c`) | two blocks of commits, revisions, program cache | commit by appending or compacting, relocation, fetch, allocation of a pair | torn pages, pages that only look erased, bad blocks, wrap of the revision | a commit is atomic; only erased pages are programmed; wear moves |
| Vendored littlefs, files and allocator (`lfs.c`) | inline files, lists of blocks, handles and caches, lookahead | open, read, write, seek, truncate, sync, close, allocation | several handles on a file, errors half way, blocks freed while in use, a full disk | a file is what was last saved; a handle shows its own words; no used block is handed out |
| LittleFS glue, flash region (`glue.c`, RT 420-490) | mount state, open files, stamps; none | the calls above for a program; program and erase of the region | stamping after a create or a close is a second call; refusal to program a 0 to 1 | the calls above keep their promises with the stamps in them |
| GC worker on core 1 (RT) | one launch flag | launch, join | launch window | joined before relaunch |
| Watchdog, ADC, I2C, SPI, blocking UART, power, PSRAM, time, memory, text, console | none of note | argument checks around SDK calls | none reachable here | pure input and output |
| Facades of portable modules, build files, tests, examples | – | – | – | outside this model |

How they interact. Handlers and callbacks never call the program. They put a
record in a queue: the mailbox for DMA, UART, PIO and GPIO, a queue of its own in
Wi-Fi and in BLE. `PollSystem` takes records from the mailbox, looks the token up
in a registry (in another repository, `embedded.mod`) and emits an event; Wi-Fi
and BLE events are taken by their own `take_event`. Alarms and the calendar keep
counts that the program takes. BLE and Wi-Fi share the radio's power through
claims. UART and DMA, like everything that masks interrupts, rely on the mailbox
restoring and not enabling them. The file system is entered from the glue only and
calls nothing but the flash region; inside it, files stand on the directory tree,
the tree on metadata pairs, and pairs on pages.

## 2. Modules

| Module | Models |
| --- | --- |
| `EventQueue` | abstract: bounded FIFO with saturating drop counter |
| `RingArithmetic` | free-running unsigned counters: advance and distance |
| `EventMailbox` | the mailbox, its lock and the WFE/SEV handshake |
| `DmaTransfer` | DMA channels, lines, transfer and buffer objects, hardware, mailbox as `EventQueue` |
| `BytePipe` | abstract: one direction of a serial stream |
| `BufferedUart` | one controller with both rings, its handler and its wire |
| `PioIrq` | one interrupt line of a PIO controller and its source objects |
| `PioPrograms` | instruction memory and state machines of a PIO controller, their objects, and a driver beside them |
| `Alarms` | the slot table and the SDK's pool |
| `CivilDates` | the calendar arithmetic, as operators with a reference |
| `Calendar` | the alarm of the calendar clock and the count of its handler |
| `PwmPins` | PWM pins and the slices two of them share |
| `Radio` | claims on the CYW43, station, scan, access point, Wi-Fi event queue |
| `BleEvents` | the two queues of the BLE module |
| `BleLink` | BLE session, scan, advertising, connect, connection (extends `BleEvents`) |
| `BleGatt` | GATT client query, server writes, subscriptions, notifications (extends `BleEvents`) |
| `AtomicTree` | abstract: a tree of names on which a call happens at once or not at all |
| `LfsTree` | directories of littlefs: list of pairs, global state, relocation, recovery |
| `AtomicCell` | abstract: a content that one commit at a time replaces, or does not |
| `LfsPair` | one metadata pair on the pages of the flash |
| `AtomicFile` | abstract: files as words, handles with their own changes |
| `LfsFile` | file contents, handles, block lists and the allocator of littlefs, under the glue's calls |
| `MC…` | instances for TLC: concrete cores, threads, requests, symmetry |
| `EventMailboxProofs`, `DmaTransferProofs`, `BufferedUartProofs`, `PioProofs`, `AlarmsProofs`, `RadioProofs`, `BleProofs`, `LfsPairProofs` | theorems |

Composition. `EventMailbox` is shown to implement `EventQueue`; `DmaTransfer`,
`PioIrq` and `Radio` then use `EventQueue`'s actions for their queues by INSTANCE
(`Mail!Accept`, `Mail!Refuse`, `Mail!Take`), so that a post is one step of the
handler that makes it. `BufferedUart` refines `BytePipe` once per direction.
`Radio` holds the claim that `BleLink`'s Initialize and PowerOff make and give up.
The three littlefs modules are layers: `LfsPair` shows that a commit is one step,
which is what `LfsTree` and `LfsFile` take a commit to be; each layer refines its
own abstract module. `MCLfsFlash` extends both `LfsFile` and `LfsPair`: the initial
state chooses which of them moves, the variable `runs` says which, and the other
keeps its initial values. `MCAlarms`, which extends `Alarms`, `Calendar` and
`PwmPins`, and `MCPioIrq`, which extends `PioIrq` and `PioPrograms`, do the same.
`CivilDates` has no state; its assumptions are checked by the run of `MCAlarms`,
which extends it.
`Bad…` operators, each under a comment "A fault" or "Faulty variant", are wrong
forms of the operator that follows them and are used by no action.

### EventMailbox
`slots`, `put`, `get`, `dropped`, `lock`, `irqOn` are the C variables and the
cores' interrupt enables, `signal` the event registers, `pc`/`op`/`arg`/`saved`
each thread's place, call and locals. A post is BeginPost, DisableInterrupts,
Acquire, then PostIgnored (token 0), PostRefused, or PostFill and PostPublish
(the slot is written before `put` is advanced), Release, RestoreInterrupts,
SendEvent. Take and wait share the lock steps. A handler runs to completion
while it is active and starts only with interrupts enabled; ordinary code may
have disabled them before it posts (Mask), as a buffered write does. `Wrap` stands
for 2^32, `Capacity` for 32.

### DmaTransfer
`hw` is a channel's registers with the SDK's claim, `irq` the native tables per
line and channel, `obj` and `buf` the fields of TDMATransfer and TDMABuffer,
`source` the registry. Configuration, start, abort and close are cut where the
hardware (Finish, which also triggers the chained channel) or the handler can
act. AbortStop may raise a completion flag, as the erratum says. `Request` is the
set of configurations a program asks for. Content of memory, strides and
transfer counts are abstracted.

### BufferedUart
A step moves one byte. Reads and writes run with interrupts disabled (`masked`)
as in the code; the handler can start at any other point. WriteTransmit
and WriteAdvance separate the store into the data register from the advance of
`get`. Posted events are a set, because the mailbox is modelled elsewhere; a
dropped post is therefore not in this module (listed as a hazard).

### PioIrq
Native calls run with interrupts disabled and are one action each. Create and
Close are several calls, so the handler may run between them. `known` and `heard`
record what the program took or was told; no code reads them.

### Alarms
Every call masks interrupts and is one action. `alarm` is the SDK's pool, which
may refuse. `issued` is every handle returned with the expiries not yet taken,
`holder` and `uses` are history. Handles are `generation * Base + slot`, as in
the code; `MaxGeneration` and `Base` stand for 0x7fffff and 2^8.

### PioPrograms
`loaded` is the module's own table, `used` and `claimed` are the SDK's. A
TPIOStateMachine claims, copies its program and is set up in one call;
CreateMachine is the success, CreateMachineFailed the failure of the set-up, which
closes the object with what it has. A direct removal may name any range the caller does not know to be
an object's (`Kept`); the driver stands for SDK code, as the radio's, that takes
words and a machine behind this module's back.

### Calendar and CivilDates
The handler may come between clearing the count and replacing the alarm, and
between giving the alarm up and clearing the count. Time is not modelled: a set
alarm may come due at any moment, a replacement may be refused. `CivilDates` is
checked for every day of the years in `Alarms.cfg`, which hold each kind of leap
and century year, era boundaries and the last year, and for times before 1970.

### PwmPins
A call is one action, as nothing interrupts these calls. It is a function of the
whole state: each helper takes the state and returns it changed, with what the
call returns in `ret`, so that a call that fails half way keeps what it did.
`asked` is what the program asked of each pin in calls that did not fail. Clock,
divider and period are scaled down; the formulas are the code's.

### Radio
Driver callbacks come between the steps of a call: StartScan starts the
driver and NoteScan sets the flag; service reads the link under the lock and
reports it outside. Results of scan n are ranked 2n and its completion 2n+1.

### BleLink and BleGatt
The stack's callbacks are kept out only while a call is inside the stack, so a
call that tests a flag, enters the stack and sets a flag is several steps, and
`take_event` looks at its deadlines one after the other. Deadlines are "armed"
or "passed". Handles are numbered: the controller is taken not to reuse the
handle of a connection that ended in the middle of a call. The stack has one
connection at most (`btstack_config.h`, MAX_NR_HCI_CONNECTIONS 1).
stop_advertising tests the flag (TestAdvertising), asks the stack to stop
(SilenceAdvertising) and clears the flag (EndAdvertising). A central may connect before
the stack is asked, and after it, while `stack.airing` is "ending": the controller may
have accepted it already. `heard` also notes when the flag for the end of an older
advertisement is still to be taken as a new one begins (`older`), and when a stop has
reported an end although the advertisement will be back on the air (`stray`).

BleGatt has
one local characteristic, three discoveries that are alike, and both orders in
which the stack may give up a query with its connection.

### LfsTree
`disk` is what a fetch of each block reads: a list of entries in the order of
their ids, the tail and whether it is a split, and the pair's part of the global
state. `ram` holds `gstate`, `gdisk` and `gdelta`. A call of the program (`job`)
goes through the places of the code, each of which makes at most one commit:
mkdir commits the new pair, then its predecessor's tail, then the entry; remove
commits the entry, then drops the pair; rename commits the new entry, then forgets
the old one. Commit is `lfs_dir_commit`: it applies its edits, and then is written
in place, or compacted, or split into a second pair, or relocated to new blocks, or
refused by the flash. A relocation leaves repairs on `stack` (FixParent, FixPred)
that run before the call goes on. Every writing call starts with the repairs of
lfs_fs_forceconsistency: Demove, RemoveHalfOrphan, RemoveOrphan, EndPass. `handle`
is an open file as the list of open files keeps it, and Track moves it through
every commit. A refusal keeps what came before it (Refusals): the preparations of the
call; the share of the global state and the moved handles of a pair about to be
dropped; the new pair of a split, with all that was pending. `spent.left` notes which. A
failed LFS_ASSERT stops the program (Halt), as a power failure does. PowerLoss may come between any two steps and Mount recovers.
`promise` refines `AtomicTree`.

### LfsPair
A commit is started (CommitPair, or AllocPair for a new pair), takes its pages one by
one (Program), is read back (Verify), is named by the parent (Publish) if it went to
new blocks, and is reported (Return, NoSpace). When it does not fit (NoRoom) it goes
to the other block after an EraseBlock; when that block is bad or its turn has come,
a new block takes its place. AllocPair aligns the revision so that both blocks of a
pair take their turns. `held` is the copy an open directory keeps (OpenDir). A program
or an erase is refused, reads back wrong, or is cut by PowerLoss and leaves one of the
pages in `Broken`. Fetch finds the newer block, the last commit that is whole, and whether what follows is
erased, from the `next` part of that commit (the forward checksum of the code).

### LfsFile
A call of the glue is one action and a function of the state, as in `PwmPins`:
`Then` runs the next part only if the one before it did not fail, and the fuse in
`s` says after which flash operation the call meets its fault, so that every
place is reached. A word stands for four bytes, a block has six, a page and a cache
three. Blocks hold the pointers of the code at their start (CtzExtend), the handle's
cache and the shared program cache are kept apart, and a word is read from them
before the flash. The allocator is lookahead, checkpoint and window. `view` is what
the files hold, read through a mount, and what the handles show: it refines
`AtomicFile`.

## 3. What the runs check

| Run | Question | States |
| --- | --- | --- |
| `mailbox` | Two cores, one handler: is the ring the FIFO of `EventQueue` with every event taken (ImplementsQueue, ImplementsFairQueue)? Can a handler meet the lock of the code it interrupted, or a post enable its caller's interrupts (LockDiscipline)? Can core 0 sleep on an event (NoLostWakeup)? | 397 k |
| `dma` | Two transfers, two lines, chains: are channels and retain counts balanced on every path (ResourcesBalanced), do tokens and events belong to the channel's owner and mean that its transfer ran (EventsOwned), does running hardware only touch allocated storage (DmaTargetsAllocated), is each completion announced (CompletionDelivered)? | 517 k |
| `uart_receive` | Is receiving the byte pipe (ReceivePipe)? Do bytes ever wait unannounced (NewsOfBytes)? | 1.85 M |
| `uart_transmit` | Is sending the byte pipe, nothing twice, out of order or left out (TransmitPipe)? Is every accepted byte sent (BytesAreSent)? | 1.25 M |
| `pio_irq` | Two objects and direct calls on one line: is every trigger latched, known or rearmed (TriggersAccounted), does only the owner get events (EventsOwned), is each trigger announced (TriggerDelivered)? Does each word and each machine have one owner (ProgramsOwned)? | 606 k |
| `alarms` | AlarmMatchesSlot, HandleNamesItsAlarm, SlotReachable, ExpiriesReported across a wrap of the generation; DueAlarmsCounted of the calendar, PinsShowTheirWave of the PWM pins, and the arithmetic of `CivilDates` | 433 k |
| `radio` | Does power follow the claims (RadioClaimed)? Are the events of scans and links a history (EventHistory), and is every outcome reported in the end (OutcomesReported)? | 270 k |
| `ble_link` | Are links told in order and never twice (EventHistory), is a program that waits for its advertisement to end never forgotten, and told only once except for what a stop left to resume (AdvertisingAccounted), does a connect end (ConnectResolved)? | 1.2 M |
| `ble_gatt` | Is each query answered once and in order (AnswersInOrder), is the query flag the stack's (QueryAccounted), does it end (QueryAnswered)? | 456 k |
| `lfs_tree` | Does a call happen at once or not at all (ImplementsAtomicTree)? Does the global state add up and is nothing left half done without a flag, but for what a refused commit left in RAM (MetadataConsistent)? Does an open file keep its entry (HandleNamesItsEntry)? | 108 k |
| `lfs_flash` | Are files and handles what `AtomicFile` says (ImplementsAtomicFile), is a free block free and a full disk full (FreeBlocksAreFree, NoSpaceMeansFull)? Is a commit atomic (ImplementsCell), only appended to erased pages (AppendsToErased), and does wear move through both blocks (WearLevelled)? | 575 k |
| `lfs_rename` | finding: a rename the flash refuses loses the file (CallsAreAtomic) | violation |

CompletionDelivered and TriggerDelivered hold until the mailbox drops a record: a dropped
record is not posted again, and only the drop count shows it.

Type invariants are proved for the mailbox, DMA, the UART, both parts of PIO, the
alarms, the calendar, PWM, the radio, BLE and the metadata pair (`Typed` of
`LfsPairProofs`); elsewhere the named invariants hold their state to its types. Each property has a fault in
`PROJECT.json` under which TLC finds it violated.

**Bounds.** They are as small as the cases that matter allow. A ring of two with
counters modulo four fills, empties and wraps, and has distinct writer and reader
slots; one handler, one thread on the other core and core 0 give every
pairing of the lock. Two DMA channels make one chain and its reuse by a third
transfer. One FIFO entry makes the UART's rings and FIFO full and empty within a
call. Two sources and two objects are the smallest competition for a line. Two
alarm slots with two generations wrap after three uses. Two scans,
connections or queries are one and its successor, and a third connection meets what
the second left behind. In `ble_link` scans, advertisements and connects share the bound of
two starts a session (three take TLC more than the time a run should); the theorems
about its invariants have no such bound. An event queue of one or two
fills. Two slices with two and three pins on them, one of those pins on a channel
that another may hold, give every sharing; the wrap of eight makes a duty round.
Four words and two programs, one of which must start at 0, fill a memory and leave
a hole. Two directories, one of which is split over two pairs, and paths in both
are the smallest tree in which a rename crosses pairs, a remove drops a pair and an
open file's entry moves; two calls after the set-up let one meet what the other
left, two power failures interrupt a recovery, and one relocation or one refused
commit comes at any commit. Six blocks and a cycle limit of one make the pair of
`LfsPair` move, its revision wraps at 16, and three commits follow each other: enough
for one relocation, while the alternation over many is the theorem WearMovesThroughBoth.
Eight blocks of six words hold an inline file, one of two blocks and what a rewrite
needs, and are full after that. Bounds that end a behaviour (`MaxPosts`, `MaxTokens`, `MaxUses`,
`MaxUnseen`, `MaxScans`, `MaxConns`, `MaxStarts`, `MaxQueries`, `MaxPeer`, `MaxAlarms`,
`MaxOps`, `MaxCommits`, `MaxCalls` and those on faults, moves and losses) are
marked "bound" where they are declared. When they are used up, the system may
have nothing left to do, therefore `CHECK_DEADLOCK FALSE` in those runs; the
mailbox and UART runs, whose models need no end, check deadlock. Symmetry is used
in `alarms` (identifiers of the pool) and `lfs_flash` (files, handles), which check
safety only.

Some constants keep a run away from what section 5 describes, so that the rest can
be checked. `DustyUse` and `NewBlockFails` (`LfsFile`) and `ParentFails` (`LfsPair`)
are FALSE, `FaultyKinds` (`LfsTree`) holds create and remove in `lfs_tree` and only
rename in `lfs_rename`, and stamps are only set while the tree is built. After a
refusal that left a share of the global state in RAM, GstateAccounted says
nothing of it any more, and OrphansFlagged nothing of the flag after a refusal that left
anything. The other properties of `lfs_tree` are checked after such a refusal too, but for
one more call at most (`MaxOps`): with ten operations instead of nine TLC finds ImplementsAtomicTree
violated in the way section 5 describes. Each may
be turned on to see the behaviour; `FirstPairSetup` and `NestedSetup` of
`MCLfsTree` are trees to start from for two of them.

**Fairness.** Weak fairness of a call's or handler's next step: a core
executes its instructions, and each call returns. Strong fairness of polling,
because polling is enabled only between other calls and every example's main
loop comes back to it. Weak fairness of hardware that
finishes, sends and interrupts, and of the passing of a deadline. In
`BufferedUart` the entry of the handler is strongly fair, since calls that mask
interrupts may follow each other, and so is the end of its receive loop: the
handler empties the FIFO faster than the wire fills it. In `BleGatt` the stack
ends every query (ATT has a transaction timeout), and a peer sends finitely many
ordinary events (`MaxPeer`): under an endless flood of them the critical queue is
never reached. `ConnectResolved` names the same exception for an endless scan.

**Finding.** `lfs_rename`: littlefs/README.md:112 says that all operations, rename
among them, are atomic. lfs_rename records the pending move before the commit that
makes the new entry (lfs.c:4058). When the flash refuses that commit the call
returns the error and the move stays recorded in RAM, so the next call that writes
completes it, by deleting the old entry: the file is gone under both names.

## 4. What is proved

All theorems hold for every value of the constants that satisfies the module's
named assumption.

* `EventMailboxProofs` (assuming MailboxAssumption: the range of the counters is
  a multiple of the capacity, at most one ordinary thread per core, the consumer
  is ordinary). NoLostWakeup, HolderRuns and the refinement are not
  inductive. The invariant adds that interrupts are disabled on the core of every
  thread between enter and restore and at most one such thread exists per core
  (Disabled, Preemption), that the lock is held by the thread inside it
  (Locking), that a masked thread saves "disabled" (Masking), and that a
  publisher has filled the next slot of a ring that is not full (Ring). Its lemmas
  on counters say that distinct counters within a ring index distinct slots, that a
  wrap moves no slot, and what advancing either end does to slots and distance;
  `BufferedUartProofs` has its own. From it:
  TypeCorrect, HolderAlwaysRuns, CallerMaskAlwaysKept, their conjunction
  LockDisciplineKept, WakeupNeverLost, and
  MailboxIsQueue: every step maps to a step of `EventQueue` or to a stutter. A fill
  changes nothing visible, a publish appends, a take removes the head.
* `AlarmsProofs` (assuming AlarmAssumption: more handle codes than slots). That a
  handle names only its own alarm is not inductive: the invariant adds what
  handles are made of (Handles), how far a slot's generation has moved since
  (Ages), that no two handles stem from one use (Distinct), that a slot in use
  belongs to its latest use (Holding), and the exact counts (Counts). From it:
  Invariance, TypeCorrect, SlotsMatchPool, StaleHandlesSafe, NoSlotStranded,
  ExpiriesExact.
* `AlarmsProofs`, on Calendar (assuming CalendarAssumption: its bounds are numbers).
  The count keeps up with the alarms that came due because an alarm comes due once:
  the timer holds none that did, and the one about to replace it is new (DueOnce).
  From it: DueAlarmsExact.
* `AlarmsProofs`, on CivilDates: for every year from 1 on, the day after a date has
  the next number (NextDayCounted), the number of a date leads back to it
  (DateFound), and so do its seconds (TimeFound, with a day of at least one second).
  A year has the length the calendar says (YearLength), and the year within an era is
  found because the leap days before it are counted exactly (YearFound); neither
  needs an induction. Numbers of days that stem from no date and offsets from UTC
  are left to TLC.
* `AlarmsProofs`, on PwmPins (assuming PwmAssumption: pins and duties are numbers, and
  none of the slices, frequencies and limits is 0). Between calls the tables of pins and slices agree
  (Tables), a slice in use has the divider and period of its frequency (Clocked), the
  registers say what the tables say (Programmed), and what was asked of a pin is what
  its tables hold. Each call keeps that and the wave of every other pin. From it:
  WavesShown, whose hypothesis Reachable excludes a clock too slow for a frequency
  (section 5).
* `PioProofs`, on PioPrograms (its theorems assume Sizes: the memory and the machines are
  counted, and no object is called as a direct call or the driver). ProgramsOwned
  with the types is inductive. Two lemmas carry it, that something free may be
  given to a holder (Given) and that a holder's own may be taken back (TakenBack);
  a place and a machine that are found are free, because a set of numbers has a
  least one (from WFMin of WellFoundedInduction). From it: TypeCorrect, OneOwner.

* `DmaTransferProofs` (assuming DmaAssumption: tokens and lines are not empty).
  None of the three properties is inductive, and they need each other: whether a
  buffer may be freed depends on which transfer keeps a reference, which depends on
  who owns the channel, which depends on where a call is. The invariant says what
  each step of a call may rely on (Calls), that a claimed channel has one owner and
  a free one is quiet (Channels), that the enables of a line and its running
  channels agree (Hardware), that references count the transfers that hold them
  (Retained), that a token in the tables is its owner's and is absent while a
  channel is set up (Tokens), and that a completion on its way was made by a
  transfer that ran (Done). The absence of tokens during a set-up was the
  strengthening that took longest to find: without it a handler that
  runs in a set-up could post for the channel's last owner. From it:
  NothingLeaks, EventsTellTheTruth, NoUseAfterFree.
* `BufferedUartProofs` (assuming UartAssumption: the range of the counters is a
  multiple of the capacity, there are bytes to send and to receive). Two facts
  carry both refinements: storing at the writer's index and
  advancing it appends to the content of a ring, and advancing the reader removes
  its head. NewsOfBytes is not inductive, since a handler may be half way through
  the FIFO: the invariant adds what it still owes then (Announced), and where each
  call is in its loop (Calls), so that the bytes copied and those left never exceed
  the request. From it: BytesAnnounced; ReceivesInOrder and SendsInOrder, by which
  every step maps to a step of `BytePipe` or a stutter. The send pipe counts the
  transmit register too, so that WriteTransmit moves nothing and WriteAdvance,
  which only advances the reader, is not seen.
* `PioProofs`, on PioIrq (assuming PioAssumption: finitely many sources, and None is
  neither a token nor an object). That a trigger is
  accounted for depends on what the call in progress holds in its locals (Holding),
  who is registered for the line (Registered) and what Create and Close still have
  to do (Calls). From it: NoTriggerMissed, EventsReachOwner.
* `BleProofs`, on BleGatt (assuming QueueAssumption: the queue holds at least one event;
  and GattAssumption: a peer's events are bounded, None is no outcome and NoEvent no event).
  That answers come in order is a statement about everything the program was ever told,
  so the induction needs the order of any two events that wait, and that what a step
  adds to a queue belongs to the present connection and query (Timely, Completed); the
  ordinary queue never holds a disconnection, so a connection is told as gone only after
  everything that went before it. That a query is accounted for needs what a call
  knows while the handler runs between its steps: the connection it looked up may
  be gone by then, with its query already given up (Linked, Queried), and a read that
  is under way has no answer yet (Reading). From it: AnswersComeInOrder,
  QueriesAccounted.
* `BleProofs`, on BleLink (assuming QueueAssumption and LinkAssumption). EventHistory says of
  every link event that waits that the program will know what it presupposes when it is
  taken (LinkHistory). The induction follows the last event before each, and needs that nothing
  in a queue or told is of a session, scan or connection that has not begun
  (Sessions, ScansBegun). An advertisement the program waits for is on the air, waits
  for its central to leave, or has its completion waiting, and each of the three is
  waited for or stray, also when the stack changes one of them between the steps of a
  call (AdvertisingKnown). That needs two more facts: a stop between its test and its end
  reports what is waited for or stray (Stopping), and a completion that waits is the end of
  the last advertisement unless it is older or stray (EndKnown). From it: LinkEventsInOrder, AdvertisingNeverForgotten.
* `LfsPairProofs` (assuming RegionAssumption and RevisionAssumption of `LfsPair`). What a
  fetch reads of a block is a recursive function over its pages. Its value is
  described by the set of pages at which commits begin (Ends): two such sets that
  differ would differ at a greatest page, and there is none. Behind the log there is
  at most the rest of one commit that was cut short, then erased pages (Leftover), and
  programming, spoiling or erasing a page keeps that. The invariant PairInv adds to the types
  that the block found by its revision, which may have wrapped, is the one that
  was written last (Sound), where the commit in progress goes and what of it is on the
  flash (Placed, Progress), what its outcome was (Results), that an open
  directory's copy names that block (Follows), and what holds until the flash first
  refuses something (FaultFree). It holds as long as no refusal came (`used.faults = 0`)
  or refusals spare the parent (Regular); section 5 says what happens otherwise. From it:
  PairOrdered; ErasedBehindAppend, without a hypothesis, as AppendsToErased only
  speaks of a flash that has refused nothing so far; and CommitsAreAtomic,
  that the pair refines `AtomicCell` when `ParentFails` is FALSE: every step is a
  step of the cell or a stutter, and the cell changes at the last page of a commit
  in place, or when the parent names the moved pair.
  WearMovesThroughBoth (WearLevelled) has an invariant of its own, WearInv: a pair moves
  at an even place in the period and its blocks take turns in between, an odd number
  of times, so the block that entered the pair last is the newer one exactly at the
  even places (Levelled). At the wrap of the revision the places start again, which keeps the parity only if the last
  revision has an even place: its hypothesis WrapIsEven. The glue's 500 cycles and
  32 bits satisfy it (GlueWrapsEven).
* `RadioProofs` (assuming RadioAssumption: a link has a state when it is down, and the
  queue holds at least one event).
  RadioClaimed needs what `Initialize` holds while it is under way (Held), also when the
  power-up fails. EventHistory speaks of the order of all past events; the induction
  needs that no event in a queue or told is newer than its source (Fresh), and that the
  completion of a scan is owed exactly as long as no one has reported it
  (ScanHistory): a scan the driver still runs is always owed, which is why the
  completion of one scan is never told after the first result of the next, although
  the driver can finish before NoteScan sets the flag. From it: RadioOnWhileClaimed,
  HistoryUnbroken.

Only model-checked:

* all liveness, which the prover does not treat under fairness (ImplementsFairQueue,
  CompletionDelivered, BytesAreSent, TriggerDelivered, OutcomesReported,
  ConnectResolved, QueryAnswered);
* `LfsTree` and `LfsFile`: MetadataConsistent, HandleNamesItsEntry, FreeBlocksAreFree,
  NoSpaceMeansFull and the refinements of `AtomicTree` and `AtomicFile`. Their operators
  are RECURSIVE, as the code is: walks of lists of pairs and of blocks, and calls that
  repeat themselves after a relocation. The prover cannot be used in a module
  that declares such operators.

Induction over data is out of the prover's reach as a rule with an operator
parameter. Where a theorem needs one over numbers, as for Log of `LfsPair` or the search for
a free place in PIO memory, it argues from a least or greatest counterexample
(LeastNatural, GreatestNatural, from WFMin of WellFoundedInduction).

## 5. Observed while modelling

No property is attached to these; they are the places to look at first when the
code is changed.

* Alarms: time.bmx:28 lists when an alarm call returns zero. The code also returns
  zero when the SDK's pool refuses the alarm (RT 859), because it is full or the
  delay has passed before the alarm is in place; the slot stays usable.
* Calendar: the old alarm may come due after set_alarm cleared the count (RT 1139)
  and before it is replaced, and is then counted; the program cannot tell it from
  the new one.
* PWM: with a slow system clock the achieved frequency rounds to 0; the call then
  returns 0 as if refused, but divider and wrap were already written (RT 1259).
  A full duty at the longest wrap is level 65535 of 65536.
* PIO: a direct removal is refused unless this module loaded every word of it, but
  a direct unclaim (RT 3082) gives up any claimed machine, also a driver's.
* DMA: TDMATransfer.Wait (dma.bmx:543) keeps its deadline in signed 32-bit
  milliseconds and misjudges a timeout that crosses their wrap.
* DMA: `Close` (dma.bmx:566) clears token and source before the channel may
  refuse to be given up; the transfer then stays open and never announces
  completion. The properties name the case.
* UART: a post that the full mailbox drops is not repeated until the ring has
  run empty. The transmit event is posted only by the step that empties the
  ring: by the handler, or by a write that stored at least one byte (RT 2742). A
  write that stores none, because the ring was full, and yet empties the ring into
  the FIFO posts no event. Receiving has the same gap (RT 2622).
* Wi-Fi: the drop counter also counts each retry of a completion or link change
  that finds the queue full.
* BLE: stop_advertising tests `advertising` outside the stack's lock and, when it was set,
  does not look at advertising_resume_pending. A central that connects before line 616
  sets it; so may an older advertisement, when a new one was started while the old one
  waited for its central to leave. The program is told of the end, and when the central leaves
  the advertisement is on the air again. If it leaves before line 616, the flag is
  cleared under an advertisement the stack has resumed. Likewise a stop that only forgets
  the resume (607-610) may do so just after it happened. These are the stray ends that
  AdvertisingAccounted excepts. A central that connects before line 598 is handled with the
  auto_restart of the advertisement before. The end of an advertisement that was not
  yet taken and that of the next one are told by one event.
* BLE: a connect can end
  with both a connection and a timeout event; `connecting` can stay set after a
  connection that was complete before the call returned. deinitialize tests the
  connection before it powers off. Pending completions survive a deinitialize and
  are delivered by take_event. Events of a new connection in the ordinary queue
  are taken before the one that announces it. A handle reused by the controller
  within one call would leave a query without its flag.
* LittleFS glue: an interrupted format leaves a region that is neither blank nor
  mountable (glue.c:202). Close stamps the path a file was opened under (glue.c:299),
  whatever has that name by then. Unmount does not flush or close open files;
  littlefs.bmx says "Flushes and unmounts".

The rest concerns lfs.c. Each was met as a counterexample of a larger instance, or
of a constant of section 3 turned on.

* When the revision wraps, the place in the relocation period starts again. If the last
  revision (2^32 - 1) has an odd place in the period, the relocation after
  the wrap replaces the block that came last (lfs.c:1941-1948), and wear stays on the
  other for one more period. The 500 cycles the glue sets (glue.c:152) are not such a
  value.

* As in the finding: the orphan count raised before a commit that is refused
  (lfs_fs_preporphans) is taken back by a call that did not make the orphan. When the
  commit that drops a removed directory is refused, the count is already back at zero, and
  the next commit clears the flag with the orphan still on the list.
* Dropping a pair takes its share of the global state into `gdelta` (2451) before the
  pair in front of it is written (2460). If that is refused (2465), the share stays in RAM
  and the next commit writes it a second time. After a rename between two pairs of
  a directory such a share names the move that is over: when the remove of the last entry
  of the pair is then refused, the next successful call makes a pending move of that
  entry out of it, which the next mount hides and the next writing call deletes. (Two calls
  after the set-up reach the refusal, a third the loss.)
* A split that is refused after its new pair was written (2181, 2230) has already set gdisk
  to gstate (2087-2091), although nothing leads to the new pair. What was
  pending, such as an orphan flag to clear after recovery, is then wrong in RAM until the
  next mount, and the next orphan to announce clears the flag instead of setting it.
* lfs_dir_orphaningcommit finishes a pending move in the pair in front of a relocated
  one (2565-2584) with no room for a dropped pair. If the moved entry was the last
  of that pair, LFS_ASSERT(pdir) fails (2260); without assertions a null pointer is written
  through. It takes a rename whose target pair is worn and follows on the list a pair
  that holds nothing but the moved entry. TLC reaches it in `lfs_tree` (Halt in FixPred).
* After a power failure between the two commits of a rename into another directory,
  the entry behind the moved one cannot be read until the next call that writes:
  lfs_dir_getslice (727-736) shifts the id that lfs_dir_fetchmatch (1360-1367)
  already shifted.
* lfs_setattr (lfs_commitattr, 4149) does not run the pending repairs first, unlike
  every other call that writes, and may then set the attribute on another entry.
* A refused program leaves the program cache set (lfs_bd_flush); the next append to
  another block fails the assertion at lfs.c:263.
* mkdir's first commit (2666) may store a change of the orphan flag in the pair that
  is not on the list yet; a power failure then loses the flag (DESIGN.md:1812).
* Removing an open file whose entry is the last of a split pair moves its handle to
  the first entry of the next pair (2391-2400).
* When a pair was relocated and its parent's commit is refused, open files keep the
  new pair and go on from there (`ParentFails`).
* When the first page of a new block goes wrong, lfs_file_relocate takes the file to
  be where it was before the block was added, and blocks of the list may be handed
  out again (3622-3650, `NewBlockFails`).
* lfs_file_write and sync clear the mark that another handle saved the file
  (LFS_F_DUSTY, lfs.h:139; lfs.c:3495, 3703), while the handle still reads blocks
  the flash no longer names (`DustyUse`).
* A write refused at a new block's first page leaves the handle with a wrong size; a
  flush after that would save it. In `LfsFile` a handle with an error is only
  closed, as the comment at 3250 expects.
* Moving a directory into its own subtree is not refused. Calls that only change
  metadata never reset the allocator's checkpoint. A handle of a removed file may
  read blocks reused since. A seek or read whose flush fails leaves the position moved.

## 6. Not modelled

Argument checks, formatting, addresses, UUIDs, payloads, durations and priorities;
the SDK, CYW43 driver and BTstack beyond what the code relies on; the registry of
event sources in `embedded.mod`; the building of the GATT table and BLE values
and MTU; access-point client lists; SSID checks.

In littlefs: growing the chain of superblocks and moving the root, rewriting the
minor version, reading a directory by position, user attributes other than the
stamps, lfs_migrate, lfs_fs_grow, lfs_fs_gc and lfs_fs_mkconsistent. A rename
of a directory into its own subtree is left out. Read caches are left out: the flash is read
through nothing but what is not programmed yet. In the glue: mounting a blank
region, formatting, directory handles and what time a stamp holds.

Components without a module are in the inventory with their reason in
`PROJECT.json`.

## 7. Plan

Done, in this order: the mailbox, since everything else reports through it; what
shares hardware with handlers (DMA, UART, PIO); reused slots (alarms); drivers with
callbacks (radio, BLE); the file system from the tree down to the pages; calendar,
PWM and PIO memory. Left:

1. `GpioEvents`, the smaller sibling of `PioIrq`, and a module of mount, format and
   unmount over a region that may be blank, torn or mountable.
2. Proofs about `LfsTree` and `LfsFile`. Their RECURSIVE operators would become recursive
   functions over numbers (of pairs on a list, of blocks of a file), whose values are
   then described as `LfsPairProofs` describes Log; MetadataConsistent and
   FreeBlocksAreFree come first, as the refinements rest on them.
