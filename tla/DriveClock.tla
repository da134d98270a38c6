------------------------------ MODULE DriveClock ------------------------------
(***************************************************************************)
(* The clocks of the emulated drives (drivecpu.c, drivecpu65c02.c,         *)
(* drive.c, drive-overflow.c, clkguard.c).  A drive's CPU is run in        *)
(* arrears: when the computer looks at the bus, and at the end of a frame, *)
(* the main cycles since last_clk are turned into drive cycles, which move *)
(* stop_clk, and the drive is run until its clock reaches stop_clk.  Both  *)
(* clocks are unsigned and are set back by clock guards at the end of a    *)
(* frame, the main clock first and then, drive by drive, all that refers   *)
(* to it or to the drive's own clock.                                      *)
(***************************************************************************)
EXTENDS Integers

CONSTANTS
    NumDrives,       \* DRIVE_NUM
    CLOCK_MAX,
    SubMin,          \* CLKGUARD_SUB_MIN
    ClkBase,         \* clk_base of the main clock guard, 0 when it has none
    One,             \* 65536, a drive cycle in cycle_accum
    Rates,           \* the sync_factor values of the drives
    Chunk,           \* 10000, the main cycles converted in one go
    SkipAfter,       \* 0xffffff, the lag that lets a drive skip cycles
    AwakeClk,        \* 934639, the drive clock below which it does not
    ResetClk,        \* 6, either clock after a reset
    MaxOp,           \* the longest opcode of a drive
    Frame,           \* the main cycles of a frame
    MaxLag,          \* bound: the main cycles a drive is left alone
    LagAtWrap,       \* bound: the same when the main clock wraps
    SnapClocks       \* bound: the clocks in the snapshots that are read

Drives   == 0 .. NumDrives - 1
Clock    == 0 .. CLOCK_MAX
MaxClk   == CLOCK_MAX - SubMin     \* clk_max_value of every guard
MainSub  == LET sub == MaxClk - SubMin
            IN  IF ClkBase = 0 THEN sub ELSE (sub \div ClkBase) * ClkBase
DriveSub == MaxClk - SubMin

ASSUME DriveAssumption ==
    /\ {NumDrives, CLOCK_MAX, SubMin, One, Chunk, MaxOp, Frame} \subseteq Nat \ {0}
    /\ {ClkBase, SkipAfter, AwakeClk, ResetClk, MaxLag, LagAtWrap} \subseteq Nat
    /\ Rates \subseteq Nat \ {0}
    /\ SnapClocks \subseteq 0 .. MaxClk - 1
    /\ 3 * SubMin < CLOCK_MAX /\ ResetClk + MaxOp <= SubMin
    /\ Frame < SubMin /\ Frame <= MainSub /\ LagAtWrap <= MaxClk - MainSub

(* The rates for which the arithmetic of drivecpu_execute is meant: a turn of the
   conversion loop fits in cycle_accum, what a drive is given after it was left
   alone fits in a signed difference, and what it is given in a frame, an opcode
   beyond each main cycle included, fits in what its guard leaves free. *)
ASSUME RateAssumption ==
    \A f \in Rates : /\ One - 1 + f * Chunk <= CLOCK_MAX
                     /\ 2 * ((One - 1 + MaxLag * f) \div One) <= CLOCK_MAX + 1
                     /\ Frame * (f + One * (MaxOp - 1)) <= One * (SubMin + 1)

VARIABLES
    maincpu_clk,
    since,           \* main cycles since the last end of a frame
    sub,             \* what the main clock guard took off at the end of this frame
    turn,            \* the drive to be told of it next, NumDrives when all are
    enable,          \* the drives with drive->enable
    skipping,        \* the drives with DRIVE_IDLE_SKIP_CYCLES
    sync_factor,
    dr,              \* per drive: clk, stop_clk, last_clk, cycle_accum, reset pending
    idled            \* history: the drives that skipped cycles since their clock was set

vars == <<maincpu_clk, since, sub, turn, enable, skipping, sync_factor, dr, idled>>
main == <<maincpu_clk, since, sub, turn>>

Running == turn = NumDrives     \* not within machine_vsync_hook
-----------------------------------------------------------------------------
(* CLOCK arithmetic, and the difference of two clocks cast to int. *)
ClockAdd(x, y) == (x + y) % (CLOCK_MAX + 1)
ClockSub(x, y) == (x - y) % (CLOCK_MAX + 1)
Diff(x, y)     == LET d == ClockSub(x, y)
                  IN  IF 2 * d > CLOCK_MAX THEN d - (CLOCK_MAX + 1) ELSE d

WakeUp(r, now) ==
    IF ClockSub(now, r.last_clk) > SkipAfter /\ r.clk > AwakeClk
    THEN [r EXCEPT !.last_clk = now]
    ELSE r

(* Mutated form: the whole cycles stay in the accumulator. *)
ConvertKept(r, f, t) ==
    LET accum == ClockAdd(r.cycle_accum, f * t)
    IN  [r EXCEPT !.stop_clk = ClockAdd(@, accum \div One), !.cycle_accum = accum]

(* One turn of the conversion loop, for t main cycles at factor f. *)
Convert(r, f, t) ==
    LET accum == ClockAdd(r.cycle_accum, f * t)
    IN  [r EXCEPT !.stop_clk = ClockAdd(@, accum \div One),
                  !.cycle_accum = accum % One]

(* The conversion loop: cycles n are taken off in chunks. *)
Feed(r, f, n) ==
    LET size(k) == IF n - (k - 1) * Chunk > Chunk THEN Chunk ELSE n - (k - 1) * Chunk
        fed[k \in 0 .. (n + Chunk - 1) \div Chunk] ==
            IF k = 0 THEN r ELSE Convert(fed[k - 1], f, size(k))
    IN  fed[(n + Chunk - 1) \div Chunk]

(* Opcodes are executed until the clock has reached stop_clk, over is what the
   last one takes beyond; a pending reset comes before the first. *)
Opcodes(r, over) ==
    IF Diff(r.clk, r.stop_clk) >= 0 THEN r
    ELSE IF r.reset /\ Diff(ResetClk, r.stop_clk) >= 0
         THEN [r EXCEPT !.clk = ClockAdd(ResetClk, over + 1), !.reset = FALSE]
         ELSE [r EXCEPT !.clk = ClockAdd(r.stop_clk, over), !.reset = FALSE]

Lag(r, clk_value) == IF clk_value > r.last_clk THEN clk_value - r.last_clk ELSE 0

(* drivecpu_execute *)
Execute(r, f, clk_value, now, over) ==
    LET w == WakeUp(r, now)
    IN  [Opcodes(Feed(w, f, Lag(w, clk_value)), over) EXCEPT !.last_clk = clk_value]

(* drive_cpu_execute_one and drive_cpu_execute_all, ds being the drives run. *)
ExecuteAll(ds, clk_value, now, over) ==
    [d \in Drives |-> IF d \in ds
                      THEN Execute(dr[d], sync_factor[d], clk_value, now, over[d])
                      ELSE dr[d]]

(* What the last opcodes of the drives ds take beyond their stop_clk. *)
Overs(ds) == [ds -> 0 .. MaxOp - 1]
-----------------------------------------------------------------------------
Restarted(now) == [clk |-> 0, stop_clk |-> 0, last_clk |-> now, cycle_accum |-> 0,
                   reset |-> TRUE]

Init == /\ maincpu_clk = ResetClk /\ since = 0 /\ sub = 0 /\ turn = NumDrives
        /\ enable = {} /\ skipping = {} /\ idled = {}
        /\ sync_factor \in [Drives -> Rates]
        /\ dr = [d \in Drives |-> Restarted(ResetClk)]

(* The main CPU executes n cycles; the frame's end is not passed. *)
Elapse(n) == /\ Running /\ since + n <= Frame
             /\ \A d \in enable : ClockSub(maincpu_clk + n, dr[d].last_clk) <= MaxLag
             /\ maincpu_clk' = maincpu_clk + n
             /\ since' = since + n
             /\ UNCHANGED <<sub, turn, enable, skipping, sync_factor, dr, idled>>

(* The computer reads or writes the bus: iecbus_cpu_read_conf1, 2 and 3 and
   most others run all drives, iecbus_cpu_write_conf1 and 2 one of them. *)
CpuAccess == /\ Running
             /\ \E ds \in {enable} \cup {{d} : d \in enable} : \E over \in Overs(ds) :
                   dr' = ExecuteAll(ds, maincpu_clk, maincpu_clk, over)
             /\ UNCHANGED <<main, enable, skipping, sync_factor, idled>>

(* The drive's program changes its speed: drivesync_set_1571, _set_4000. *)
SetSpeed(d) == /\ Running /\ d \in enable
               /\ \E f \in Rates : sync_factor' = [sync_factor EXCEPT ![d] = f]
               /\ UNCHANGED <<main, enable, skipping, dr, idled>>

(* machine_vsync_hook up to the main clock guard: drive_vsync_hook runs the
   drives that do not skip cycles, then the guard looks at the clock. *)
VsyncHook ==
    /\ Running /\ since = Frame
    /\ \E over \in Overs(enable \ skipping) :
          dr' = ExecuteAll(enable \ skipping, maincpu_clk, maincpu_clk, over)
    /\ sub' = IF maincpu_clk < MaxClk THEN 0 ELSE MainSub
    /\ maincpu_clk' = maincpu_clk - sub'
    /\ \A d \in enable : sub' # 0 => \/ ClockSub(maincpu_clk, dr'[d].last_clk) <= LagAtWrap
                                     \/ enable = {d} /\ dr'[d].clk <= AwakeClk
    /\ since' = 0 /\ turn' = 0
    /\ UNCHANGED <<enable, skipping, sync_factor, idled>>

(* Mutated form: stop_clk is forgotten. *)
ClkOverflowHalf(r) == r

(* drive_clk_overflow_callback, as far as it concerns these clocks. *)
ClkOverflow(r) == [r EXCEPT !.stop_clk = ClockSub(@, DriveSub)]

(* Mutated form: the guard counts up to the last value of the clock. *)
DriveGuardLate(r) ==
    IF r.clk < CLOCK_MAX THEN r
    ELSE ClkOverflow([r EXCEPT !.clk = @ - DriveSub])

(* clk_guard_prevent_overflow of a drive's guard. *)
DriveGuard(r) ==
    IF r.clk < MaxClk THEN r
    ELSE ClkOverflow([r EXCEPT !.clk = @ - DriveSub])

(* Mutated form: a drive that is not enabled is left alone. *)
MainWrappedHalf(d) ==
    IF sub = 0 THEN {dr}
    ELSE IF d \in enable THEN {[dr EXCEPT ![d].last_clk = ClockSub(@, sub)]}
    ELSE {dr}

(* The first half of drivecpu_prevent_clk_overflow: what it may leave. *)
MainWrapped(d) ==
    IF sub = 0 THEN {dr}
    ELSE IF d \notin enable THEN {[dr EXCEPT ![d].last_clk = maincpu_clk]}
    ELSE {[run EXCEPT ![d].last_clk = ClockSub(@, sub)] :
             run \in IF dr[d].last_clk < sub
                     THEN {ExecuteAll(enable, ClockAdd(maincpu_clk, sub), maincpu_clk, over) :
                              over \in Overs(enable)}
                     ELSE {dr}}

(* drivecpu_prevent_clk_overflow for the drive whose turn it is. *)
PreventOverflow ==
    /\ turn < NumDrives
    /\ \E after \in MainWrapped(turn) : dr' = [after EXCEPT ![turn] = DriveGuard(@)]
    /\ turn' = turn + 1
    /\ sub' = IF turn' = NumDrives THEN 0 ELSE sub
    /\ UNCHANGED <<maincpu_clk, since, enable, skipping, sync_factor, idled>>
-----------------------------------------------------------------------------
(* set_drive_true_emulation(1): drivecpu_reset_clk, then drive_enable, for all
   the drives ds that have a type. *)
TrueEmulationOn(ds) ==
    /\ Running
    /\ enable' = ds
    /\ dr' = [d \in Drives |-> IF d \in ds
                               THEN [dr[d] EXCEPT !.last_clk = maincpu_clk, !.stop_clk = dr[d].clk]
                               ELSE dr[d]]
    /\ UNCHANGED <<main, skipping, sync_factor, idled>>

(* drive_disable, for all drives (set_drive_true_emulation(0)) or for one whose
   type is now DRIVE_TYPE_NONE. *)
Disable == /\ Running
           /\ \E ds \in {Drives} \cup {{d} : d \in Drives} : enable' = enable \ ds
           /\ UNCHANGED <<main, skipping, sync_factor, dr, idled>>

(* drive_resources_type with another type: drive_set_disk_drive_type ends in
   drivecpu_init.  Without true emulation no drive is enabled and this one
   neither. *)
SetType(d) == /\ Running
              /\ enable' \in {enable \cup {d}} \cup (IF enable = {} THEN {{}} ELSE {})
              /\ \E f \in Rates : sync_factor' = [sync_factor EXCEPT ![d] = f]
              /\ dr' = [dr EXCEPT ![d] = [Restarted(maincpu_clk) EXCEPT
                                            !.cycle_accum = dr[d].cycle_accum]]
              /\ idled' = (idled \ {d}) \cup (skipping \cap {d})
              /\ UNCHANGED <<main, skipping>>

(* cpu_reset of the main CPU with drive_reset. *)
MachineReset == /\ Running
                /\ maincpu_clk' = ResetClk
                /\ dr' = [d \in Drives |-> [Restarted(ResetClk) EXCEPT
                                              !.cycle_accum = dr[d].cycle_accum]]
                /\ idled' = skipping
                /\ UNCHANGED <<since, sub, turn, enable, skipping, sync_factor>>

(* set_drive_idling_method *)
SetIdling(d) == /\ Running
                /\ \E s \in {skipping \cup {d}, skipping \ {d}} : skipping' = s
                /\ idled' = idled \cup skipping'
                /\ UNCHANGED <<main, enable, sync_factor, dr>>

(* Reading a snapshot, written at any time of another session after all enabled
   drives had been run; drive_enable then moves stop_clk to the clock.  The idling
   methods are the file's; the rates follow its frequencies and its video standard
   if setting that, or reading a VIA, works them out again. *)
ReadSnapshot ==
    /\ Running
    /\ \E now, clk \in SnapClocks, accum \in 0 .. One - 1, ds \in SUBSET Drives :
          /\ maincpu_clk' = now
          /\ enable' = ds
          /\ dr' = [d \in Drives |-> [clk |-> clk, stop_clk |-> clk, last_clk |-> now,
                                      cycle_accum |-> accum, reset |-> FALSE]]
    /\ skipping' \in SUBSET Drives /\ idled' = skipping'
    /\ sync_factor' \in [Drives -> Rates]
    /\ UNCHANGED <<since, sub, turn>>

Next == \/ \E n \in 1 .. Frame : Elapse(n)
        \/ CpuAccess \/ VsyncHook \/ PreventOverflow
        \/ \E ds \in SUBSET Drives \ {{}} : TrueEmulationOn(ds)
        \/ \E d \in Drives : SetSpeed(d) \/ SetType(d) \/ SetIdling(d)
        \/ Disable \/ MachineReset \/ ReadSnapshot

Spec == Init /\ [][Next]_vars
-----------------------------------------------------------------------------
DriveState == [clk : Clock, stop_clk : Clock, last_clk : Clock,
               cycle_accum : 0 .. One - 1, reset : BOOLEAN]

TypeOK == /\ maincpu_clk \in Clock
          /\ since \in 0 .. Frame
          /\ sub \in {0, MainSub}
          /\ turn \in 0 .. NumDrives
          /\ enable \subseteq Drives
          /\ skipping \subseteq idled /\ idled \subseteq Drives
          /\ sync_factor \in [Drives -> Rates]
          /\ dr \in [Drives -> DriveState]

(* The main clock as the last_clk of drive d has it. *)
ClockOf(d) == IF d >= turn THEN maincpu_clk + sub ELSE maincpu_clk

(* drivecpu_execute compares unsigned clocks: a drive whose last_clk is ahead
   of the main clock gets no cycles and loses the time. *)
LastInPast == \A d \in enable : dr[d].last_clk <= ClockOf(d)

(* drivecpu.c:259 promises that the drive's clock does not overflow: while it
   is run it goes back by what its guard takes off and in no other way.  That is
   asked of drives that are run once a frame: one that skips cycles while idle
   may be run for SkipAfter cycles at once, many times what the guard leaves
   free. *)
TurnedBackByGuard ==
    [][(CpuAccess \/ VsyncHook \/ PreventOverflow) =>
          \A d \in Drives \ idled :
             dr'[d].clk < dr[d].clk => dr'[d].clk + DriveSub >= dr[d].clk]_vars

(* A drive gets the cycles that belong to the time the computer took and no
   others, through both guards, whatever is done to it in between. *)
Exact == INSTANCE DriveRate WITH
            on <- enable, rate <- sync_factor,
            lag <- [d \in Drives |-> IF d \in enable THEN ClockSub(ClockOf(d), dr[d].last_clk)
                                                     ELSE 0],
            frac <- [d \in Drives |-> dr[d].cycle_accum],
            ahead <- [d \in Drives |-> IF d \in enable THEN Diff(dr[d].clk, dr[d].stop_clk)
                                                       ELSE 0],
            restart <- {d \in Drives : dr[d].reset},
            Steps <- 1 .. Frame, ResetCycles <- ResetClk

ImplementsRate == Exact!RSpec
=============================================================================
