# A TLA+ verification project for VICE (WinVICE-plus)

This directory holds TLA+ models of the machine-independent core of VICE, the
Commodore emulator in `src/vice/src`, the TLC configurations that check them on
small instances, and proofs, checked by TLAPS, of the properties that matter
most.  VICE is a single-threaded simulator: what makes it hard is not threads
but that dozens of emulated chips, two or more CPUs, a tape, an event log and a
network peer are interleaved on one thread by cycle counts, callbacks and
counters that have to stay consistent with each other over hours of emulated
time.

Paths below are relative to `src/vice/src` unless they say otherwise.

## 1. Inventory

### 1.1 Components

| Component | Source | State it keeps | Operations | Talks to |
|---|---|---|---|---|
| Alarm contexts | `alarm.c`, `alarm.h` | array of pending alarms, `pending_idx` per alarm, cached next clock and index | new, set, unset, destroy, dispatch, time warp | every chip (callbacks), the CPU loops |
| Clock guard | `clkguard.c` | pointer to a clock, limit, base, callback list | prevent overflow, clock sub | contexts, interrupt status, chips holding clock copies |
| Interrupt status | `interrupt.c`, `interrupt.h` | per-source flags, `nirq`, `nnmi`, global flags, clocks of the edges | set/ack IRQ, NMI, reset, traps, DMA, monitor, snapshot, warp | CPU loops, chips |
| CPU loops | `maincpu.c`, `mainc64cpu.c`, `6510core.c` | registers, clock, flags | process alarms, take interrupts, fetch, execute | alarms, interrupts, memory |
| Drive CPUs | `drive/drivecpu.c`, `drivesync.c`, `drive-overflow.c`, `drive.c` | drive clock, `stop_clk`, `last_clk`, cycle accumulator | execute up to a main clock, wake, enable, disable, exchange, reset, warp | main clock, IEC bus |
| Netplay | `network.c` | mode, frame ring of event lists, sockets | start server, connect, hook per frame, suspend, disconnect | event lists, a remote VICE |
| Event log | `event.c` | lists of timestamped events, playback position | record, playback, milestone, alarm | snapshot, alarms, clock guard |
| Keyboard buffer | `kbdbuf.c` | ring of characters, delayed RETURN alarm | feed, flush, reset | kernal buffer in RAM, autostart, alarms |
| Flip list | `fliplist.c` | circular list of images per unit | add, remove, attach next/previous, clear, load, save | attach |
| Image attach | `attach.c`, `vdrive/` | drive unit table | attach, detach | flip list, drives, autostart |
| Autostart | `autostart.c` | mode, saved resources | advance per frame | kernal screen memory, traps, kbdbuf |
| Datasette | `datasette.c`, `tape/` | counter, motor, mode, pending alarm | motor, control, read/write alarm | alarms, CIA |
| Virtual IEC device | `serial/serial-iec-device.c`, `serial/fsdrive.c` | listener/talker state machine with a time limit, status per channel; name buffer of OPEN | one step per access of the computer, reset, enable, disable | IEC bus, vdrive |
| Flash and EEPROM | `core/flash040core.c`, `ser-eeprom.c`, `m93c86.c` | command state machine | store, read, erase alarm | alarms, cartridges |
| CIA, VIA, RIOT, TPI | `core/*.c` | timers, ports, interrupt flags | store, read, alarms | alarms, interrupts |
| ACIA, RS232 | `aciacore.c`, `rs232drv/` | shift registers, alarms | store, read, alarms | host serial |
| Virtual drive DOS | `vdrive/*.c` | BAM, channels, buffers | open, read, write, close, commands | disk images |
| Snapshots | `snapshot.c` | module list in a file | create, read modules | every chip |
| Monitor | `monitor/` | checkpoints, modes | break, step | interrupt status |
| Video, sound | `vicii*/`, `raster/`, `sound.c`, `resid*/` | chip state, buffers | per-line drawing, per-sample mixing | alarms, host |
| User interfaces, host glue | `arch/` | windows, menus | — | resources, attach |
| Vendored libraries | `lib/` | — | — | screenshots, sound recording |


### 1.2 How the components interact

Everything runs on one thread.  The main CPU's loop (`6510core.c`, included by
`maincpu.c` and by every drive CPU) compares its clock with the next pending
alarm before each opcode and calls what is due; the callbacks are the chips.
A callback may set, move or withdraw any alarm of its context, pull or release
an interrupt line, run a drive CPU up to the present clock, and, in the case of
the raster alarm at the end of a frame, run everything that happens once a
frame: the clock guard, the keyboard buffer, autostart, the sound, the user
interface and the netplay hook.  So code that looks sequential is re-entered
from its own middle: `DO_INTERRUPT` works on a copy of the interrupt flags
while the alarms it runs change the original, and the dispatch loop finds its
array rearranged and its clock turned back when a callback returns.  The callback
of the video chip's fetch alarm also turns the clock forward: it steals cycles from
the CPU (`dma_maincpu_steal_cycles`), so that alarms come due, and late, while it runs.

The interrupt status is also the only way for the rest of the emulator to get
the CPU's attention.  Whatever needs a machine that is between two opcodes
(snapshots, the event log, netplay, autostart, the monitor) asks for a trap, and
there is one slot for it.

Clocks are 32 bits wide and are turned back by the clock guard every 71 minutes
or so.  Each copy of a clock, in an alarm, in the interrupt status, in a drive or
in a chip, has to be turned back with it, and by a function of its own.

Two emulators in a netplay session share nothing but a TCP connection.  Each
runs at its own speed, sends what its user did in every frame, and plays what
both users did a few frames later.

### 1.3 What is hard about each, and what makes it correct

*Alarm contexts and clock guard.*  The array is unordered, the alarm that is
removed is replaced by the last one, and the minimum is cached both as a clock
and as a position.  Correct means: the cache is the minimum after every
sequence of operations, no alarm is forgotten or called twice, nothing that is
due is passed over or starved, and no chip notices that the clock was turned
back.

*Interrupt status and CPU loop.*  IRQ is a level that several sources pull and
that the CPU may still see for three cycles after its end; NMI is the edge of
the wired-or of several sources; both are kept as counts, flags and dates, and
the CPU combines them with what the last opcode was.  Correct means: the counts
are those of the sources, one NMI per edge, no IRQ without a pull, no date that
a warp, reset or load has left behind, no vector fetch without a cause, no
program that is held back for ever, and a snapshot that brings back the pins it
was written with.

*Netplay.*  The ring's indices, the frame being recorded, the frame being
played and the frame that arrives are four different frames; a side may be a
whole ring ahead.  Correct means: both machines play the same pairs of lists in
the same order, each exactly once and with the agreed delay, no false alarm of
the sync test and no difference that goes unnoticed, no side waiting for ever.
Setting the session up is a conversation whose messages have no type, with the
number of test packets counted on each side.  Correct means: both sides are at
the same step, agree on the delay, hold the sockets their mode says, and find
out when the other side is gone.

*Drive CPUs.*  A drive is run in arrears.  Its clock is derived from the main
clock with a 16-bit fraction, compared as a signed difference, and warped by two
guards, its own and the main CPU's, the latter telling the drives one by one
when the main clock is already reduced.  Correct means: no main cycle is given
to a drive twice or not at all, a drive is never ahead of what it was given by
more than an opcode, and its clock never wraps by itself.

*Event log.*  Recording, milestones, and playback that starts from a snapshot
written in the recording.  Correct means: played back, each event happens at the
clock it was recorded at, over warps and milestones.

*Keyboard buffer and autostart.*  A ring of characters emptied into the
kernal's buffer only while the kernal reads it; a RETURN delayed by an alarm of
its own; autostart waits for texts on the emulated screen.  Correct means:
characters arrive once and in order, a RETURN after its command, and no wait
that neither ends nor times out.

*Flip list and attach.*  Circular lists with one iterator and removals during
iteration.  Correct means: lists stay circular, heads are members, no freed
entry is reachable.

*Virtual IEC device.*  A listener and talker that times every edge of the bus,
but is only run when the computer looks.  The computer's kernal waits in loops
that have no other way out.  Correct means: bytes arrive once and in order, EOI
belongs to the last one, every wait on the bus ends, a device that nobody
addresses leaves the lines alone, and a session that was broken off does not
reach into the next.

*Datasette.*  Motor, mode and counter follow the user, the computer and the
tape's end, with one alarm between them.  Correct means: the alarm is pending
exactly while the tape moves.

*Flash and EEPROM.*  Command state machines, one with an erase alarm.  Correct
means: only an unlocked sequence writes, and an erase that was suspended ends.

*The rest* (chip cores, RS232, DOS, snapshots as files, monitor, video, sound,
user interfaces) is cycle tables, formats, data structures on disk or host
I/O.  `PROJECT.json` lists every part with the reason why it is or is not
modelled.  The hazards each is exposed to are listed there too, at their lines.

## 2. Plan

### 2.1 Order

| | Module | Of | State |
|---|---|---|---|
| 1 | `AlarmQueue`, `AlarmContext` | alarm contexts, clock guard | modelled, checked, proved |
| 2 | `AlarmTimers` | what a context promises | refinement checked and proved |
| 3 | `Interrupt` | interrupt status, CPU loop | modelled, checked, proved |
| 4 | `InterruptPins` | what the status promises | refinement checked and proved |
| 5 | `Netplay`, `LockStep` | frames of a session, and their promise | modelled, checked, invariants and refinement proved |
| 6 | `NetSession` | setting up and ending a session | modelled, checked, proved |
| 7 | `DriveClock`, `DriveRate` | clocks of the drive CPUs, and their promise | modelled, checked, refinement proved |
| 8 | `FsDrive`, `IecDevice` | file side and state machine of a virtual device | modelled |
| 9 | `IecBus`, `SerialBus` | devices and kernal on the bus, and their promise | modelled, invariants proved, refinement checked |
| 10 | `KeyBuf` | keyboard buffer, with autostart as its environment | planned |
| 11 | `EventLog` | recording, milestones, playback | planned |
| 12 | `FlipList` | flip list and attach | planned |
| 13 | `Datasette` | motor, mode, counter, alarm | planned |
| 14 | `FlashCore`, `SerEeprom` | command state machines | planned |

### 2.2 Compositions

`AlarmContext` is `AlarmQueue`, an array as a value, together with a CPU loop
and a guard.  `Interrupt` contains its CPU loop, and sees the alarms only as
callbacks that may come at the points where the loop processes alarms: what
`AlarmContext` proves of them (none is late by more than an opcode) is the
constant `Lag` there.  `DriveClock` puts a clock and guard like those of
`AlarmContext`, the drive's, under the main CPU's.  `IecBus` composes
`IecDevice`, which holds the devices as operators on records, and `FsDrive`
below it with the computer above.  `NetSession` and `Netplay` meet at
`network_init_frame_event_list`: the first ends with both sides agreeing on
`delta`, which is where the second begins.

### 2.3 Theorems to come

Every invariant that a run checks is proved, and every action property and refinement
but two, liveness apart (§5).  The two are of `IecBus`: `NameIsWhole` and
`ImplementsSerialBus`.  Where the devices are in a session is proved (`SessionKept`);
what these two need besides is where the bytes are: that at each place of the kernal
`sent` is `taken` or one byte ahead of it, `gave` is `recv` or one byte ahead of it, a
talker's register and `rx` share out the bits of the byte under way, and the name
buffer holds what was left in it and the bytes of the name taken so far.

### 2.4 Runs

A run asks one question of one component.  Runs that ask the same of the same
instance have been made one, and each of the planned modules gets at most one
run for its safety and one for its liveness.  Two runs about losses that no
property of the repository's own can be held against in more than a sentence (a
trap request that overwrites another, a close that looks like silence) have made
room for the drives and the bus; both remain hazards, and their steps are in the
models (`Trigger` in `Interrupt`; `Comes` in `NetSession` and `HookAsksForEver` in
`Netplay`).

## 3. The modules

`PROJECT.json` maps each definition to its lines.  What follows is how state
and actions correspond to the code.

### 3.1 `AlarmQueue` and `AlarmContext`

`AlarmQueue` has the operations of `alarm.h` and `alarm.c` on
`alarm_context_t` as operators on a record: `num`, `slot` (the live part of
`pending_alarms`), `idx` (each alarm's `pending_idx`), `nextClk` and `nextIdx`
(`next_pending_alarm_clk`, `next_pending_alarm_idx`).  `UpdateNext` ends on the
last of several minima, as the scan does, whose test is `<=`, and leaves
`nextIdx` alone when nothing is pending, as the code does.  Clock arithmetic is
unsigned, modulo `ClkMax + 1`.

`AlarmContext` has the clock, the context, the alarms that exist, the callback that runs
and the cycles stolen since the last opcode.  Chip code (`New`, `Destroy`, `Set`,
`Unset`) runs inside an opcode or inside a callback; `Execute` and `EndInstruction` are
an opcode; `Dispatch` and `Return` are a turn of `PROCESS_ALARMS`; `Steal` is
`dma_maincpu_steal_cycles` called by the fetch callback (`vicii/vicii-fetch.c:160`,
`:474`), once or more often in a call, `PreventOverflow` is `clk_guard_prevent_overflow`
with its callback, `alarm_context_time_warp`.  A callback ends by unsetting its alarm or
setting it for later than the deadline it was called for: this is what the callbacks do,
which are called with the offset from their deadline and add a period to it.  `Raster` is
the alarm that is always pending once a machine has been set up (`raster_draw_alarm` of
the video chips); a context without it is the object of a run of its own.  `Fetch` is the
alarm whose callback steals cycles, `NoAlarm` in the context of a drive.  Cycles stolen
inside an opcode, by a register write that makes a bad line
(`vicii/vicii-badline.c:103`), are part of the opcode's (`Step`).  The TED's fetch
callback in fast mode, which may also give cycles back (`plus4/ted-fetch.c:228`, with a
negative count), is not modelled.

`AlarmTimers` is what a chip may rely on: a number of cycles left for each
alarm, that goes down when the CPU runs, which it does only between callbacks and
only when nothing is due, and when the fetch callback steals cycles; the most
overdue is called first and told how late it is.  There is no clock in it, so a warp
must be invisible.

### 3.2 `Interrupt`

`cs` is `interrupt_cpu_status_t`: `irq` and `nmi` are the sources whose
`pending_int` has `IK_IRQ` or `IK_NMI`, the other fields have the code's names
(`global` is `global_pending_int` as a set of flags).  `last` is
`last_opcode_info`, `mask` the I flag, `ik` the local copy of the flags in
`DO_INTERRUPT`, and `at` the place in the loop:

| `at` | place |
|---|---|
| `opcode` | the opcode has not begun |
| `ended` | behind it, before the flags are read |
| `brk` | in `BRK`, which processes alarms and takes interrupts itself |
| `vector` | the vector is not yet chosen, alarms run |
| `requests`, `trap` | the rest of `DO_INTERRUPT`, a trap function |

`Opcodes` are the kinds the loop tells apart: `CLI` and `SEI` that change the flag
(`OPINFO_ENABLES_IRQ`, `OPINFO_DISABLES_IRQ`), a taken branch that delays interrupts by
a cycle, `BRK`, `RTI`, and the rest.  `SetIrq` to `ClearNmi` are `interrupt_set_irq` and
`interrupt_set_nmi`, dated with any clock a callback can give.  `Steal` is
`dma_maincpu_steal_cycles` (`dma.c:39`), called by the fetch callback or by a store that
makes a bad line: the clock goes on by cycles that the CPU does not run, and the dates
of the IRQ and of the NMI move with it (`StolenDate`), so that cycles in which the CPU
stood still do not count towards the delay after which it serves them.  A snapshot is a trap
function, as in the code: `SaveSnapshot` copies the status, `LoadSnapshot` is `Loaded`,
which clears all lines, takes the counts from the file and lets each chip restore its
line; `LoadFails` stops in the middle and resets the machine, as `c64_snapshot_read`
does.

`InterruptPins` is the promise to those who pull the lines: a level with a
pulse, an edge with a latch, and a saved copy.

### 3.3 `Netplay` and `LockStep`

For each peer: `ring` is `frame_event_list`, `current`, `toPlay` and `full` are
`current_frame`, `frame_to_play` and `frame_buffer_full`.  `HookSend` is
`network_hook` up to where it may wait, the other `Hook` actions are what it does
then.  `Record` and `RecordSyncTest` are `network_event_record` of a user's input
and of the registers, the latter as the trap it is, which comes late
(another event is first in the list) or not at all (somebody else took the slot
of `interrupt_maincpu_trigger_trap`; this is the trap finding of §6 seen from the
other side).  The registers are abstracted to what the machine has been shown,
so two machines have the same registers exactly when they are in step; this is
what makes `NoFalseAlarm` a statement about the code.

A connection that is down is met in one of three ways, as in the code.
`HookReceiveFails`: the length of a list cannot be received, and the hook disconnects
(`network.c:830`).  `HookBodyFails`: the list itself cannot be received, and the hook
returns without disconnecting and without finishing the frame (`network.c:850`; the
side is then `cut`).  `HookAsksForEver`: the other side closed in order, `recv` gives 0,
and `network_recv_buffer` asks again without end (the side is `asking`).  Nothing
follows the latter two in the model, and no property promises that a side gets out of
them.

`LockStep` is the promise: each machine is shown the pairs of turns in order.

### 3.4 `NetSession`

For each host: `mode` is `network_mode`, `listen` and `sock` are `listen_socket`
and `network_socket`, with the difference between NULL, a socket that is open,
and a pointer to one that was closed; `delta` is 0 while `frame_event_list` is
NULL.  `trap` is the connect trap that waits, `at` the receive call it is in.
TCP is external: `net` has for each connection which ends are open, where it is
queued, whether it was reset, and the messages under way.  Each action is a
handler up to its next receive.  The frames of the session are there as opaque
messages: `Netplay` has their contents.

### 3.5 `DriveClock` and `DriveRate`

`dr[d]` is what `drivecpu_context_t` and the drive hold of clocks: `clk`
(`*clk_ptr`), `stop_clk`, `last_clk`, `cycle_accum`, and whether `IK_RESET` is
pending.  `Execute` is `drivecpu_execute` in its three parts: `WakeUp`
(`drivecpu_wake_up`, which forgives a long lag), `Feed` (the conversion in
chunks) and `Opcodes` (the loop up to `stop_clk`; an opcode is its length, and
how far the last one goes beyond is chosen).  The drive of the 65C02 kind has the
same code in `drivecpu65c02.c`.

The end of a frame is several steps, because it is in the code: `VsyncHook` runs
the drives that do not skip cycles and then reduces the main clock;
`PreventOverflow` is one turn of `drive_cpu_prevent_clk_overflow_all`, `turn`
being the drive it has come to and `sub` what was taken off.  `ClockOf(d)` is
therefore the main clock as drive `d` knows it.  The other actions are the
resources (`DriveTrueEmulation`, `DriveNType`, `DriveNIdleMethod`), a machine
reset, and a snapshot that was written at some other time, which also brings the
types of its drives, hence their speeds, and their idling methods (`ReadSnapshot`).

`DriveRate` has no clocks: a drive falls behind while the computer goes on, and
gets `rate / One` cycles for each cycle of its lag when it is run, with the
fraction kept and the overrun of the last opcode held against it.  The warps are
invisible in it, as a drive's program must not notice them.

### 3.6 `FsDrive`, `IecDevice`, `IecBus` and `SerialBus`

`FsDrive` is `fsdrive.c` for one channel of each device: `isopen`, the name
buffer `SerialBuffer` (one for all, with `Len` for `SerialPtr`) and the status
that every call hands to `set_st`.  The file system below it is external and is
a file to read, a file to write or none.  Closing a file is delayed until the next
name is complete (`DELAYEDCLOSE`), so the channel that an OPEN has prepared still has
the old file, and a DATA in place of the name puts what the buffer holds into it
(`SerialCommand`, `PutF`).  Three histories say what happened: `since`, the bytes of a
name received since its OPEN, and, for the last access, `opened`, the name a file
was opened with, and `put`, the bytes a file was given.

`IecDevice` is the state machine.  The record of a device has the fields of
`serial_iec_device_state_s`, with `flags` taken apart, and the lines it leaves
alone; `timeout` is what is left until the deadline, so that the clock need not
be in the state.  `P_BITn` and `P_BITnw` are `BIT` and `BITw` with a bit number.
A byte is the set of its 1-bits, so that nothing but the width `NBits` is said of
it, and the commands under ATN and the secondary addresses are constants that
differ; 0, which the code uses for "no byte yet", is the empty set.
`Flanks`, `ListenStep` and `TalkStep` are the three parts of
`serial_iec_device_exec_main`; `Listened` and `Talked` are the cases of the latter two
that concern the device alone, and `DataIsHere` and `Fetches` tell the two that do
not: a byte of data handed to the file side, and one fetched from it.  `Exec` runs
all devices, in order, each seeing the lines as those before it left them.

`IecBus` adds the computer.  The devices are run when it reads or writes its port and at
no other time, with the lines as they were before a write: so every action is one
access, after one of the times in `Delays`.  `pc` is where the serial routines of the
kernal are; of the kernal the repository has a binary image (`data/C64/kernal`) and no
source, so they are modelled as external, loop by loop.  `Abandon` is RUN/STOP and
RESTORE, which let go of the bus without telling the devices; `Reset` is
`serial_traps_reset`; `Switch` is the resource `IECDeviceN`.

`SerialBus` is the promise of the bus: the bytes sent and those the devices handed to
the file side, those given and those received, each once, in order, before the next.
What the file side makes of a byte is another question, which `NameIsWhole` asks: a
file is opened with the name this session sent and with nothing else, and given the
bytes of this session and no others.  It holds but after a session broken off in a
name (`stray` is what that left in the buffer), where the code opens a name nobody sent:
`NameSinceOpen`, which says what a comment of the code says, fails.

## 4. The runs

| Run | Question | Verdict |
|---|---|---|
| `alarm_context` | Three alarms, one of them always pending, one whose callback steals cycles, set, moved, unset, destroyed and dispatched in every order around warps. Are the array and its cache right, does the context implement `AlarmTimers`, is what is due called? | holds, 135 thousand states |
| `alarm_empty_warp` | The same without the alarm that is always pending. | `NextIsEarliest` fails |
| `interrupt_lines` | Two sources on each line, all kinds of opcodes, resets, monitor checks and warps. | holds, 1.6 million states |
| `interrupt_requests` | Snapshots, resets and DMA requests, with traps in each other's way. | holds, 4.1 million states |
| `interrupt_served` | Is every NMI, and every IRQ that stays pulled, served, and nothing served without a cause, when cycles are stolen in between? | holds, 690 thousand states |
| `interrupt_acia_load` | The source that is restored with `interrupt_set_int`. | `LinesCounted` fails |
| `netplay_frames` | Players who do what they like, sync tests late or lost; or emulation suspended, connections closed, machines gone astray. Rings of one to three lists, any difference in speed. | holds, 1.3 million states |
| `session_states` | Two hosts that start, connect, disconnect, quit and start again, in either role, while everything that can fail fails. | holds, 28 thousand states |
| `session_close_twice` | Is a socket closed once? | `ClosedOnce` fails |
| `drive_clock` | A drive run at accesses and frames, with its speed changed, switched, exchanged, reset, loaded and skipping cycles, around the wraps of both clocks. | holds, 710 thousand states |
| `iec_transfer` | OPEN, CLOSE, writing and reading on a bus of two devices, at varying speed, broken off in a byte or behind it. | holds, 1.5 million states |
| `iec_stale_name` | Is a file opened with the name received since the OPEN? | `NameSinceOpen` fails |

The properties are explained where they are defined.  Every property of a run
that holds has been confronted with a plausible slip in the code (the operators
named "Mutated form", put in place of the definition that follows them), and
the run finds each of them.

### 4.1 Bounds, and why they are enough

*Alarms.*  Three are needed: the one removed, the last one that takes its place
and the one that is next can all be different.  `MaxPending` is the number of
alarms, in the code it is 0x100 for a few dozen.  The clock has 15 values; it is
warped by `Sub` when it reaches `MaxValue`, and with opcodes of one or two
cycles, up to two stolen after each (`Dma`; the code steals up to 43 for a line of
characters and a few for each sprite) and deadlines from one cycle in the past to three
in the future every relation between deadlines, clock and warp occurs.

*Interrupts.*  Two sources are the least for a wired-or.  Dates lie up to `Lag`
behind the clock.  `Limit` and `Sub` are small so that a warp comes within a few
opcodes, and `CLOCK_MAX` is out of reach, as it is in the code: the guard acts
a million cycles before it.  `interrupt_requests` has one source and one kind of opcode, and
snapshots are only written at a clock in `SnapClocks`, so that the file is not a
second copy of the state space; loads happen at any clock.  Cycles are stolen, two at a
time and any number of times, in `interrupt_served`, which has one source on each line
for it; in the other runs `Dma` is empty, and the theorems hold for every `Dma`.

*Netplay.*  Rings of one, two and three lists are the edge, the first that
wraps, and the first with a list that is neither written nor played.
`MaxFrames` lets each wrap.  An input is made once in a session by each peer, in
any frame.  What may happen in a session is chosen at its beginning (`Sessions`, a
delta with a set of happenings), so that each session has few kinds of trouble
and all kinds occur: inputs with lost sync tests, and suspensions and closed
connections with machines that go astray, the largest ring with fewer of them at once.
A difference is found in the frame after next, for which four frames leave room with
rings of one and two lists; a machine goes astray only with these.

*Sessions.*  `NUM_OF_TESTPACKETS` is 50 in the code and 2 here: a first and a
last.  Three connections let a host join, leave, serve, and join again.  The user
does one thing at a time: while a connect trap waits for the next opcode no
second session is started.

*Drives.*  One drive: the drives share nothing but the main clock, and the one
place where telling one runs the others (`drivecpu.c:269`) is where two or more
go wrong, see below.  `One` is 2 and the rates 2 and 3, so there are fractions; a
conversion takes up to two chunks.  Both clocks have 28 values and wrap after a
few frames.  `CLKGUARD_SUB_MIN` keeps its relation to a frame (`Frame < SubMin`);
`SkipAfter` does not keep its own, it is below the margin here and above in the
code.  What the model assumes of these numbers is `DriveAssumption` and
`RateAssumption` of `DriveClock`, which the code's fulfil: a guard's limit is three
times the margin or more away from zero (`clkguard.c:54` with 0xfffff of 32 bits); a
frame, 20 thousand cycles, is less than the margin and than what the guard takes off;
`cycle_accum` has room for a chunk of 10000 cycles at the highest `sync_factor`, 4 times
65536; and what a drive is given for `MaxLag` cycles, or for a frame in which every
cycle ran it by an opcode too far, is less than the signed difference and the margin
hold.  Three bounds leave cases out on purpose:
`MaxLag` is how long the computer may leave a drive alone;
`LagAtWrap` how far one may lag behind when the main clock is turned back, the
one case of a single sleeping drive, which `drivecpu.c:269` is for, excepted;
`SnapClocks` the clocks in snapshots.  `TurnedBackByGuard` leaves out drives
that have skipped cycles (`idled`).

*Bus.*  Two devices, of which the second is switched on and off, with a file to read on
the first and one to write on the second, or one to write on the first alone; bytes of
three bits, the least that hold all commands; names of two bytes in a buffer for three,
so that what a broken session left fits, and what two left overflows.  A session is
broken off, or a device switched, once.  The time limits keep their order (60 < 80 <= 100
< 200 < EOI < 1000 microseconds, `TimeAssumption`: two of the device's 200 are within
its 1000); `Delays` are an access every 20 or 60 microseconds, mixed at will, so each
limit is hit and passed. A computer is late with an answer by `Late`, more than the
device's millisecond.

Deadlock is checked in the alarm, interrupt, drive and bus runs.  In the netplay and session
runs a state without a successor is legitimate: the frames are bounded, a process
ends, a host waits for a user of the other host who does nothing more.  That a
host does not wait when it should not is `FramesGoOn` and `AstrayIsFound`.

### 4.2 Fairness

`AlarmContext`: opcodes end, the dispatch loop runs on, callbacks return; all are
plain sequential code.  Nothing is assumed of the chips, which may set, move and
unset alarms for ever (`DueAlarmIsCalled` allows for that).

`Interrupt`: the CPU loop runs (`Step`, as a whole: no opcode in particular is
promised), and the clock is looked at once a frame (`PreventOverflow`).  The
sources are not fair.  `HeldIrqIsServed` is about a program that allows IRQs
again and again, if only between two opcodes.  `RTI` is left out of that run: it
changes the I flag at once, and a program may well consist of nothing but `CLI`,
each undone by an `RTI` that pulls a set flag before the IRQ was looked at; the
6510 does the same.

`Netplay`: both emulators run.  Users and failures are not fair.

`NetSession`, `DriveClock` and `IecBus` state no fairness.  That the waits on the
bus end is stated more strongly, as a bound: `AnsweredInTime` counts how long
each loop of the kernal has waited, and is an invariant.

## 5. What is proved

All by `tlapm`, for every value of the constants that the named assumptions
allow: any number of alarms, sources or drives, any width of the clock, any lengths
of opcodes, rings and sessions.  Every invariant that is proved inductive has been
checked by TLC first on the instance of the component's run.

### 5.1 The alarm context (`AlarmQueueProofs`, `AlarmContextProofs`)

`AlarmQueueProofs` has, for each operation on the array, the lemma that it keeps
the three parts of its invariant (`QueueType`, `QueueLinked`, `QueueNext`) and
what it does to the deadlines.  The heart is the removal: that the last entry
is moved, that its index follows, and that the cached position follows when it
was the one that moved.

`AlarmContextProofs` has the inductive invariant `IInv`.  `TypeOK` and
`NextIsEarliest` are not inductive: after a warp a deadline may have wrapped, and
then the minimum is wrong.  So `IInv` adds that all deadlines are within reach of
the clock, that the clock leaves the guard a margin, that the deadline a
callback was called for is within reach as well, also when the callback steals cycles,
and that the raster alarm is pending.  That last part is an assumption of the theorems
(`Raster \in Alarms`), and has to be: without it the run `alarm_empty_warp`
shows the invariant false.

From it follow `TypeCorrect`, `IndexCorrect`, `NextCorrect`, `ReachCorrect`,
`RoomCorrect` (which needs an array with a slot for every alarm), and
`ContextImplementsTimers`: every step of the context is a step of `AlarmTimers`
or leaves it alone, the warp being the one that leaves it alone.

### 5.2 The interrupt status (`InterruptProofs`)

`IInv` consists of `TypeOK`, the bound on the clock, the three statements about
the status (counts, ends, dates), the same about the snapshot that may be loaded,
what is known of a trap on its way, that a reset which was seen is served, and
`EntryJustified`.  The snapshot has to be in it: a load makes the status what the
file says.  The proof is by the actions, with the changes of a line as lemmas on
the status.  It assumes that no source is the `Acia`, for which the statement is
false.  Stolen cycles move a date by as much as the clock or to the end of the theft
(`StolenDateLate`), so a date stays within reach and a level or latch is what it was
(`StealInv`, `StealPins`).

The theorems `TypeCorrect`, `LinesCorrect`, `EndsCorrect`, `DatesCorrect`,
`EntryCorrect` and `TrapCorrect` state `TypeOK`, `LinesCounted`, `PulseEnds`,
`DatesInReach`, `EntryJustified` and `NoNullTrap`.

`PinsImplemented` is the refinement: every step of the loop and of the sources is a step
of `InterruptPins` or leaves the pins alone.  What a pin is follows from whether the sets
of sources are empty and whether two flags are set, and a snapshot's pins from the saved
status, so the step lemmas are those four facts for each action.  The invariant is what
says that a count is zero exactly when nobody pulls, that a flag in the local copy was
one of the status, and, for a load, that the lines which the chips restore are those the
file counts; a reset that has been seen makes the machine quiet (`Doomed`) whatever else
happens until it is served.

### 5.3 The frames of a session (`NetplayProofs`)

The invariant ties everything to two numbers per peer, the lists it has sent and those
it has played.  `Counts` says how far apart they are and where `current` and `toPlay`
stand for them; `RingHolds` which list the ring has at each distance from `current`;
`InTransit` that the wire holds the other side's lists that have not been played, in
order and without a gap, while the connection stands; `InStep` that the pairs played are
the lists of both; `Recorded` that registers in a list are those of its frame and its
machine.  A side that was cut off, or that asks for ever, is in the middle of a frame
like one that has sent.  The number of the next list on the wire is a function along the
wire (`Numbers`), as suspend messages lie between lists.

`TypeCorrect`, `InTime`, `NeverApart` and `AlarmIsTrue` state `TypeOK`,
`PlayedInTime`, `NeverFarApart` and `NoFalseAlarm`; `ShowsTheSame` is that `Netplay`
implements `LockStep`.  The `delta` may be any positive number.

### 5.4 Setting up and ending a session (`NetSessionProofs`)

The protocol has no message types, so a message that was left over or is missing
shifts the whole conversation.  `Phase` is what a host waits for or will do next on
its connection; `Fits` says what may be on its way to a host in a phase, `Together`
which phases two hosts at the ends of a connection may be in at once and with which
messages between them, and `Quiet` what a host may still find when the other one has
left.  Sockets that were closed but not cleared, and connections in the queue of a
port, are part of it (`Held`, `Queue`).  The way a session is torn down, which closes
a socket, the port, or both and leaves the host in the middle of a handler, is a
lemma of its own (`HangUp`, `StopListening`, `Disconnected`).

`TypeCorrect`, `PortMatchesMode`, `DeltaAgreed` and `StreamCorrect` state `TypeOK`,
`ModeMatchesSockets`, `SameDelta` and `StreamInStep`, for any number of connections
and of test packets.

### 5.5 The clocks of the drives (`SetInduction`, `DriveClockProofs`)

The conversion loop of `drivecpu_execute` is a recursive function.  The library's
induction is out of reach, but a set of naturals that is not empty has a least
member, by the well-foundedness of `<`: `SetInduction` has induction for a property
that is given as a set, and the turns of the loop are followed with it.

In `DriveClockProofs`, `TypeOK` and `LastInPast` are not inductive.  `Room` adds how far
the main clock is from its guard, in a frame and between the turns at its end;
`Untold` that a drive which has not been told of the wrap has a `last_clk` that can be
set back, the single drive that is run first excepted.  `TypeCorrect` and `NeverAhead`
state the two.

For the refinement, clocks are numbers up to their width (`Same`), and the invariant
`Debts` says that a drive's lag, what it is owed and what it is ahead are small enough to
be read off them again, through the chunks of the loop, the fraction, and the warp of
either clock.  `RateImplemented` is that the clocks implement `DriveRate`.
`OnlyTheGuard` states `TurnedBackByGuard`: a drive's clock never wraps by itself.  That
needs `Slack`, which is what the comment at `drivecpu.c:259` relies on: for a drive that
is run once a frame, the clock and its fraction are beyond the guard's limit by no more
than the main cycles since the guard was asked, less those the drive lags behind, are
worth at the highest rate with an opcode too far for each (`PerCycle`).

### 5.6 The devices on the bus (`IecBusProofs`)

`Exec` runs the devices one after the other, again a recursive function: `SweepTaken`
says, by `SetInduction`, that the world after k of them is the one before, but for the
devices up to k, each of which was run once (`ExecIs`).  What one of them does is
followed by lemmas on its record and the file side (`ListenedType`, `DataByteIs`,
`FetchIs`, `ReleasedIs`, ...).  `TypesKept` gives all variables their types, with what
the type of `bit` rests on: wherever a bit is put out or read there is one, and
wherever a byte is sent there is a byte; the name buffer and the histories of the
file side hold bytes as well.  `TypeCorrect` is `TypeOK`.

Who follows whom.  A device is not told where the kernal is; it sees three lines, when
the kernal looks at its port, after a time nobody chose.  That no handshake is missed
and no line held by a device that has nothing to say is therefore a statement about
the devices and the kernal together, at every place of the session at once.  This is
the invariant `SessInv`:

- the kernal's own lines are those of its place (`CpuOk`), it has not waited too long
  (`Patient`), and the end of a file belongs to what it reads (`Ended`);
- a device that is switched off leaves the lines alone (`Away`), and at most one
  device talks;
- between sessions and at their end a device holds at most the data line, and only if
  it listens or is under ATN (`Loose`, in `Apart`);
- under ATN either all devices follow the first byte (`AllFirst`), or nobody was meant
  by it (`AllRefused`), or the one that was called follows the second while the others
  are silent (`AllSecond`; together `Called`);
- after it, those that listen follow and the others are silent (`AllHear`), or one
  device talks and the others are silent (`OneSpeaks`; together `Spoken`).

To follow (`Keeps`) is to be in the one state that the kernal's place allows, with the
bits received so far, and where a time is being measured, with as much of it left as
the kernal has not waited yet; so `eoi1` ends with the talker's pulse, and not before
the listener has seen its 200 microseconds.  A talker (`Voice`) leads, and has more
freedom: each place of the kernal allows the states that a delay may leave it in, with
the sum of what the kernal has waited and of what is left until the deadline bounded.
After a late answer it may also be in the states of the frame error, and that is why
`AnsweredInTime` exempts such a session.

`RunAll` reduces a step of the bus to single devices: what each of them makes of the
lines (`Becomes`, `ExecBecomes`) is shown for the lines it may see, given what those
run before it have done and those after it have not (`Sees`).  One lemma for each kind
of device at each place follows, on one record (`FollowOne`, `AckOne`, `VoiceClock`,
...), then one for each action of the kernal (`AttendKeeps`, `SendKeeps`, `AckFirst`,
`ClockLowKeeps`, ...).  `SessionKept` is the invariant; `BusFree` (`BusIsFree`) and
`NeverKeptWaiting` (`AnsweredInTime`) follow from it.  They hold for any number of
devices and delays shorter than `T200`, and under the bound of `Abandon`: a session is
not broken off while a device talks or is told to, which the code does allow (§6).

### 5.7 Only model-checked

Liveness (`DueAlarmIsCalled`, `NmiIsServed`, `HeldIrqIsServed`, `FramesGoOn`,
`AstrayIsFound`), which is out of the prover's reach, and of `IecBus` the two about
the bytes, `ImplementsSerialBus` and `NameIsWhole` (§2.3).

## 6. Findings

1. `alarm_context_time_warp` turns the "nothing pending" clock into one that will
   be reached (`alarm.c:96`; run `alarm_empty_warp`).  The CPU then dispatches
   position -1.  Machines whose video chip always has an alarm pending are safe
   from it; a drive's context may be empty.
2. The ACIA is restored from a snapshot by pulling its line
   (`aciacore.c:834`; run `interrupt_acia_load`): the IRQ is counted twice and is
   served for ever once the ACIA lets go.
3. Losing a session closes its socket twice (`network.c:802`; run
   `session_close_twice`), which an assertion in `socket.c` forbids.
4. A file is opened with what an OPEN that was broken off left in the name buffer, and
   the name of this one behind it (`fsdrive.c:253`; run `iec_stale_name`):
   `serial-iec-device.c:471` says the name received since the OPEN.  Nothing empties
   the buffer but its use, not even a reset.  A DATA that follows instead of a name
   puts these bytes into the file that is still open on the channel (`fsdrive.c:88`).

What was met besides, and is excluded from the runs by the bounds named, or has
no document to be held against:

- A trap takes the place of another that waits (`interrupt.c:321`).
- An orderly close of the other side is not noticed: `recv` gives 0, which
  `socket.c:1000` documents, and `network_recv_buffer` (`network.c:352`) takes it for
  nothing received yet and asks again for ever.
- When a list's body cannot be received the hook returns without disconnecting
  (`network.c:850`), unlike for its length: the frame is not finished, and the next
  hook ends and sends its list once more.
- When the main clock wraps while a drive lags behind by more than the clock that
  is left, `drivecpu.c:269` runs all drives; those told before it get as many
  cycles too many as the clock was turned back by, and those that skip cycles are
  woken against a clock already reduced (`LagAtWrap`).
- A drive that skips cycles may be run for 0xffffff main cycles at once, more than
  the guard's margin of 0xfffff: its clock can wrap in spite of the comment at
  `drivecpu.c:259` (`idled`).
- `drive-snapshot.c:666` enables each drive after its module has been read, which
  replaces the loaded `stop_clk` by the clock: a machine that loads a snapshot
  forgives its drives the overrun of an opcode that the machine which wrote it
  goes on to count.
- A device that talks when the computer lets go of the bus goes on talking when
  another is addressed, since only its own LISTEN, UNTALK or the end of the file
  makes it stop; `BusIsFree` fails without the bound in `Abandon`.
- After an acknowledgement later than a millisecond the device announces a frame
  error with a clock pulse that the kernal takes for a bit, and both may wait for
  each other (`late` in `AnsweredInTime`).  The comment at `serial-iec-device.c:842`
  says the byte can be sent again; the code goes on with the next one, as the model
  does.  No run is made of it, as in the model, where a frame error is nothing but a
  late acknowledgement, the computer has received the byte and must not get it twice.

## 7. What the models leave out

- `JAM` opcodes, and what the monitor does when it is entered.
- `interrupt_fixup_int_clk`, which computes the date of an interrupt pulled while or
  after cycles are stolen: any date within `Lag` stands for its result.  What stealing
  does to the dates of interrupts pulled before is in the model (`Steal`).
- The trap function a reset may have, which nothing sets.
- Traps that trap functions ask for, other than resets and monitor checks.
- That a second source moves the date of an IRQ that is already pending is in the
  model; whether it may hold that IRQ back for ever is not asked, as
  `interrupt_served` has one IRQ source.
- In `Netplay`, which events `network_control` lets each side make, and what
  events contain.
- In `NetSession`, suspending, and the case in which the user starts a second
  session while a connect trap waits.
- In `DriveClock`, the reset of a drive alone (`drivecpu.c:200`), whose clock then
  has no relation to `stop_clk`; the idle trap, which moves a drive's clock forward
  within an opcode; the 6510 loop itself.
- In `IecDevice`, the clock guard's callback, which warps time limits that have
  long passed below zero (`serial-iec-device.c:225`): with what is left of a limit
  as the state, a limit that has passed stays passed.  Channels other than one;
  that `memset` at `:269` spares the last channel is therefore not visible.
- In `IecBus`, true drives on the same bus, and a device switched off in the middle
  of a session.
- The components whose status is `not_modelled`, those of §2.1 that are planned
  among them.
