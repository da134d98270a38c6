------------------------------- MODULE Interrupt ------------------------------
(***************************************************************************)
(* The interrupt status of a 6510 (interrupt.h, interrupt.c) and the part  *)
(* of the CPU loop that reads it (6510core.c): chips pull and release IRQ  *)
(* and NMI, the emulator asks for traps, resets, monitor checks and DMA,   *)
(* and between two opcodes the CPU decides what it serves.  Alarm          *)
(* callbacks, which do most of the pulling, run in the middle of that:     *)
(* before the decision, while the CPU is on its way to a vector, and       *)
(* between the decision and the next opcode.                               *)
(***************************************************************************)
EXTENDS Naturals, FiniteSets

CONSTANTS
    IrqSources, NmiSources,  \* the sources that pull each line
    Acia,          \* a source restored with interrupt_set_int, or no source
    TrapFuncs,     \* functions passed to interrupt_maincpu_trigger_trap
    NoTrap,        \* the NULL trap_func
    Requests,      \* the requests that occur: RESET, MONITOR, DMA
    Opcodes,       \* the kinds of opcode the program uses
    Cycles,        \* the lengths of an opcode
    Dma,           \* the cycles a video chip steals at a time
    SnapClocks,    \* bound: the clocks at which a snapshot is written
    Lag,           \* how far in the past a callback may date a change
    Limit,         \* clk_max_value of the clock guard
    Sub,           \* what the guard takes off the clock
    CLOCK_MAX

Kinds == {"plain", "cli", "sei", "rti", "branch", "brk"}

ASSUME InterruptAssumption ==
    /\ IsFiniteSet(IrqSources) /\ IsFiniteSet(NmiSources)
    /\ NoTrap \notin TrapFuncs
    /\ Requests \subseteq {"RESET", "MONITOR", "DMA"}
    /\ Opcodes \subseteq Kinds
    /\ Cycles \subseteq 2 .. 8 /\ Dma \subseteq Nat \ {0} /\ SnapClocks \subseteq Nat
    /\ {Lag, Limit, Sub, CLOCK_MAX} \subseteq Nat
    /\ Limit > 6 /\ Limit >= Sub + 3
    /\ CLOCK_MAX > Limit + 25

Clock  == 0 .. CLOCK_MAX
Flags  == {"NMI", "IRQ", "RESET", "TRAP", "MONITOR", "DMA", "IRQPEND"}
Infos  == {"plain", "brk", "enables", "disables", "delays"}
Stages == {"opcode", "ended", "brk", "vector", "requests", "trap"}

INTERRUPT_DELAY == 2

VARIABLES cs,      \* maincpu_int_status
          clk,     \* maincpu_clk
          mask,    \* the I flag
          last,    \* last_opcode_info
          at,      \* where the CPU loop is
          ik,      \* the requests it read before it began to serve them
          snap     \* the last snapshot written

vars == <<cs, clk, mask, last, at, ik, snap>>
cpu  == <<clk, mask, last, at, ik>>
-----------------------------------------------------------------------------
(* interrupt_cpu_status_reset.  irq and nmi are the sources whose pending_int
   has IK_IRQ and IK_NMI. *)
ResetStatus == [irq |-> {}, nmi |-> {}, nirq |-> 0, nnmi |-> 0, global |-> {},
                irq_clk |-> 0, nmi_clk |-> 0, irq_pending_clk |-> CLOCK_MAX,
                trap_func |-> NoTrap]

Has(c, f)  == f \in c.global
IrqSeen(c) == Has(c, "IRQ") \/ Has(c, "IRQPEND")

(* Mutated form: only the first source that pulls the line is counted. *)
RaiseIrqOnce(c, s, t) ==
    IF s \in c.irq THEN c
    ELSE [c EXCEPT !.irq = @ \cup {s}, !.nirq = IF @ = 0 THEN 1 ELSE @,
                   !.global = @ \cup {"IRQ", "IRQPEND"},
                   !.irq_pending_clk = CLOCK_MAX, !.irq_clk = t]

RaiseIrq(c, s, t) ==
    IF s \in c.irq THEN c
    ELSE [c EXCEPT !.irq = @ \cup {s}, !.nirq = @ + 1,
                   !.global = @ \cup {"IRQ", "IRQPEND"},
                   !.irq_pending_clk = CLOCK_MAX, !.irq_clk = t]

(* Mutated form: the end of the IRQ does not start its last three cycles. *)
LowerIrqNoDeadline(c, s, t) ==
    IF s \notin c.irq \/ c.nirq = 0 THEN c
    ELSE [c EXCEPT !.irq = @ \ {s}, !.nirq = @ - 1,
                   !.global = IF c.nirq = 1 THEN @ \ {"IRQ"} ELSE @]

LowerIrq(c, s, t) ==
    IF s \notin c.irq \/ c.nirq = 0 THEN c
    ELSE [c EXCEPT !.irq = @ \ {s}, !.nirq = @ - 1,
                   !.global = IF c.nirq = 1 THEN @ \ {"IRQ"} ELSE @,
                   !.irq_pending_clk = IF c.nirq = 1 THEN t + 3 ELSE @]

(* Mutated form: every source that pulls the line arms the latch. *)
RaiseNmiLevel(c, s, t) ==
    IF s \in c.nmi THEN c
    ELSE [c EXCEPT !.nmi = @ \cup {s}, !.nnmi = @ + 1,
                   !.global = @ \cup {"NMI"}, !.nmi_clk = t]

(* A second source on the line, or an edge before the last was served, leaves
   the request and its clock as they are. *)
RaiseNmi(c, s, t) ==
    IF s \in c.nmi THEN c
    ELSE LET edge == c.nnmi = 0 /\ ~Has(c, "NMI")
         IN [c EXCEPT !.nmi = @ \cup {s}, !.nnmi = @ + 1,
                      !.global  = IF edge THEN @ \cup {"NMI"} ELSE @,
                      !.nmi_clk = IF edge THEN t ELSE @]

(* Mutated form: the end of the NMI condition takes the request back. *)
LowerNmiForgets(c, s) ==
    IF s \notin c.nmi \/ c.nnmi = 0 THEN c
    ELSE [c EXCEPT !.nmi = @ \ {s}, !.nnmi = @ - 1, !.global = @ \ {"NMI"}]

(* Only interrupt_ack_nmi takes the request back. *)
LowerNmi(c, s) ==
    IF s \notin c.nmi \/ c.nnmi = 0 THEN c
    ELSE [c EXCEPT !.nmi = @ \ {s}, !.nnmi = @ - 1]

AckNmi(c) == [c EXCEPT !.global = @ \ {"NMI"}]
AckIrq(c) == [c EXCEPT !.global = @ \ {"IRQPEND"}, !.irq_pending_clk = CLOCK_MAX]

SubOrZero(t, n) == IF t > n THEN t - n ELSE 0

(* Mutated form: the warp forgets the NMI's clock. *)
TimeWarpKeepsNmi(c, n) ==
    [c EXCEPT !.irq_clk = SubOrZero(@, n),
              !.irq_pending_clk = IF @ < CLOCK_MAX THEN SubOrZero(@, n) ELSE @]

(* Mutated form: a clock older than the warp goes below zero. *)
TimeWarpNoFloor(c, n) ==
    [c EXCEPT !.irq_clk = @ - n, !.nmi_clk = @ - n,
              !.irq_pending_clk = IF @ < CLOCK_MAX THEN @ - n ELSE @]

TimeWarp(c, n) ==
    [c EXCEPT !.irq_clk = SubOrZero(@, n), !.nmi_clk = SubOrZero(@, n),
              !.irq_pending_clk = IF @ < CLOCK_MAX THEN SubOrZero(@, n) ELSE @]
-----------------------------------------------------------------------------
(* A snapshot file: what maincpu_snapshot_write_module and the chips' own
   modules put into it; trap_func is not in it. *)
Snapshot == [status |-> cs, clk |-> clk, mask |-> mask, last |-> last]

(* Mutated form: a file without the counts and the requests is accepted. *)
CpuModuleReadOldFormat ==
    [snap.status EXCEPT !.irq = {}, !.nmi = {}, !.trap_func = cs.trap_func,
                        !.nirq = 0, !.nnmi = 0, !.global = {}]

(* The CPU's module first, which clears every source and takes the counts from
   the file, then the modules of the chips, each with interrupt_restore_irq or
   interrupt_restore_nmi for its own line, the ACIA with interrupt_set_int. *)
CpuModuleRead ==
    [snap.status EXCEPT !.irq = {}, !.nmi = {}, !.trap_func = cs.trap_func]

(* Mutated form: a chip drives its line instead of restoring it. *)
LoadedBySetInt ==
    LET c == [CpuModuleRead EXCEPT !.nmi = snap.status.nmi]
    IN IF snap.status.irq = {} THEN c
       ELSE LET s == CHOOSE s \in snap.status.irq : TRUE
            IN RaiseIrq([c EXCEPT !.irq = snap.status.irq \ {s}], s, snap.clk)

Loaded ==
    LET c == [CpuModuleRead EXCEPT !.irq = snap.status.irq \ {Acia}, !.nmi = snap.status.nmi]
    IN IF Acia \in snap.status.irq THEN RaiseIrq(c, Acia, snap.clk) ELSE c

(* The machine is reset once when it starts. *)
Init == /\ cs = [ResetStatus EXCEPT !.global = {"RESET"}]
        /\ clk = 6 /\ mask = FALSE /\ last = "brk"
        /\ at = "ended" /\ ik = {}
        /\ snap = [status |-> ResetStatus, clk |-> 6, mask |-> FALSE, last |-> "brk"]

(* Chips change their lines from alarm callbacks and from the opcode's own
   stores, dated with the deadline or with the clock of the access; with stolen
   cycles interrupt_fixup_int_clk picks the date, in the same range. *)
Callbacks == at \in {"opcode", "ended", "brk", "vector"}
Dates     == {t \in Clock : t <= clk /\ t + Lag >= clk}

SetIrq(s, t)   == Callbacks /\ cs' = RaiseIrq(cs, s, t) /\ UNCHANGED <<cpu, snap>>
ClearIrq(s, t) == Callbacks /\ cs' = LowerIrq(cs, s, t) /\ UNCHANGED <<cpu, snap>>
SetNmi(s, t)   == Callbacks /\ cs' = RaiseNmi(cs, s, t) /\ UNCHANGED <<cpu, snap>>
ClearNmi(s)    == Callbacks /\ cs' = LowerNmi(cs, s)    /\ UNCHANGED <<cpu, snap>>

(* There is one trap_func: a second trap takes the place of one that waits. *)
TriggerTrap(f) == /\ Callbacks
                  /\ cs' = [cs EXCEPT !.global = @ \cup {"TRAP"}, !.trap_func = f]
                  /\ UNCHANGED <<cpu, snap>>

(* interrupt_trigger_reset, interrupt_monitor_trap_on, interrupt_trigger_dma. *)
Trigger(r) == /\ Callbacks \/ at = "trap"
              /\ cs' = [cs EXCEPT !.global = @ \cup {r}]
              /\ UNCHANGED <<cpu, snap>>

MonitorOff == /\ Callbacks \/ at = "trap"
              /\ "MONITOR" \in Requests
              /\ cs' = [cs EXCEPT !.global = @ \ {"MONITOR"}]
              /\ UNCHANGED <<cpu, snap>>

(* Mutated form: what came before the theft counts as having come after it. *)
StolenDateSwapped(t, start, n, early) ==
    (IF t < start THEN start ELSE t) + n
        - (IF early /\ start + (IF last = "delays" THEN 2 ELSE 1) = clk THEN 1 ELSE 0)

(* The date of an IRQ or NMI when n cycles are stolen from clock start on: one that
   came while the CPU stands still begins with the end of that; a cycle is given
   back if the first theft of an opcode (early) comes at the cycle that looks. *)
StolenDate(t, start, n, early) ==
    (IF t > start THEN start ELSE t) + n
        - (IF early /\ start + (IF last = "delays" THEN 2 ELSE 1) = clk THEN 1 ELSE 0)

(* dma_maincpu_steal_cycles, from the callback of a fetch alarm or from a store.
   Bound: within the frame, as far as it had come when the sequence began. *)
Steal(n) == /\ Callbacks
            /\ clk + n < Limit + (IF at \in {"brk", "vector"} THEN 6 ELSE 0)
            /\ clk' = clk + n
            /\ \E start \in Dates, irq, nmi \in BOOLEAN :
                  cs' = [cs EXCEPT !.irq_clk = StolenDate(@, start, n, irq),
                                   !.nmi_clk = StolenDate(@, start, n, nmi)]
            /\ UNCHANGED <<mask, last, at, ik, snap>>

(* clk_guard_prevent_overflow, from a callback. *)
PreventOverflow == /\ Callbacks /\ clk >= Limit
                   /\ clk' = clk - Sub
                   /\ cs' = TimeWarp(cs, Sub)
                   /\ UNCHANGED <<mask, last, at, ik, snap>>
-----------------------------------------------------------------------------
Delay == IF last = "delays" THEN INTERRUPT_DELAY + 1 ELSE INTERRUPT_DELAY

(* interrupt_check_nmi_delay, and what DO_INTERRUPT asks before it. *)
NmiReady(c) == Has(c, "NMI") /\ last # "brk" /\ clk >= c.nmi_clk + Delay

(* Mutated form: the SEI that has just ended already holds the IRQ off. *)
IrqReadyNotAfterSei(c) == IrqSeen(c) /\ ~mask /\ clk >= c.irq_clk + Delay

(* The conditions on an IRQ other than that the last opcode was a CLI. *)
IrqReady(c) == /\ IrqSeen(c)
               /\ ~mask \/ last = "disables"
               /\ clk >= c.irq_clk + Delay

(* The status the boundary works on: an IRQ that ended is forgotten when its
   three cycles are over. *)
AtBoundary == IF ~Has(cs, "IRQ") /\ Has(cs, "IRQPEND") /\ cs.irq_pending_clk <= clk
              THEN AckIrq(cs) ELSE cs

(* One opcode.  PLP does what CLI or SEI does, as the flag it pulls says. *)
Run(op, n) ==
    /\ at = "opcode" /\ op \in Opcodes
    /\ clk < Limit              \* bound: a frame ends before the counter does
    /\ clk' = clk + n
    /\ \/ op = "plain"  /\ last' = "plain" /\ mask' = mask
       \/ op = "branch" /\ last' = "delays" /\ mask' = mask /\ n >= 3
       \/ op = "rti"    /\ last' = "plain" /\ mask' \in BOOLEAN
       \/ op = "cli"    /\ last' = (IF mask THEN "enables" ELSE "plain") /\ mask' = FALSE
       \/ op = "sei"    /\ last' = (IF mask THEN "plain" ELSE "disables") /\ mask' = TRUE
    /\ at' = "ended"
    /\ UNCHANGED <<cs, ik, snap>>

(* BRK pushes the PC, runs what is due, and then looks for interrupts. *)
RunBrk == /\ at = "opcode" /\ "brk" \in Opcodes
          /\ clk < Limit
          /\ clk' = clk + 5 /\ last' = "brk" /\ at' = "brk"
          /\ UNCHANGED <<cs, mask, ik, snap>>

(* Mutated form: a BRK that has begun cannot be taken over. *)
BrkNeverTakesNmi == FALSE

BrkTakesNmi == Has(cs, "NMI") /\ clk >= cs.nmi_clk + INTERRUPT_DELAY
BrkTakesIrq == IrqSeen(cs) /\ ~mask /\ clk >= cs.irq_clk + INTERRUPT_DELAY

EndBrk == /\ at = "brk"
          /\ \/ BrkTakesNmi /\ cs' = AckNmi(cs)
             \/ ~BrkTakesNmi /\ BrkTakesIrq /\ cs' = AckIrq(cs)
             \/ ~BrkTakesNmi /\ ~BrkTakesIrq /\ cs' = cs
          /\ mask' = TRUE /\ clk' = clk + 2 /\ at' = "ended"
          /\ UNCHANGED <<last, ik, snap>>

(* The boundary between two opcodes: the requests are read once. *)
Enters(c) == NmiReady(c) \/ (IrqReady(c) /\ last # "enables")

NoRequest == /\ at = "ended" /\ AtBoundary.global = {}
             /\ cs' = AtBoundary /\ at' = "opcode"
             /\ UNCHANGED <<clk, mask, last, ik, snap>>

(* DO_INTERRUPT, its first part, up to the alarms that may still bring an NMI. *)
Enter == /\ at = "ended" /\ Enters(AtBoundary)
         /\ cs' = AtBoundary /\ ik' = AtBoundary.global
         /\ clk' = clk + 5 /\ mask' = TRUE /\ at' = "vector"
         /\ UNCHANGED <<last, snap>>

(* The CLI that has just ended holds the IRQ back for one opcode, and sees to
   it that the IRQ is not forgotten meanwhile. *)
HoldBack == /\ at = "ended" /\ AtBoundary.global # {} /\ ~Enters(AtBoundary)
            /\ cs' = IF IrqReady(AtBoundary)
                     THEN [AtBoundary EXCEPT !.global = @ \cup {"IRQPEND"}]
                     ELSE AtBoundary
            /\ ik' = AtBoundary.global /\ at' = "requests"
            /\ UNCHANGED <<clk, mask, last, snap>>

(* The NMI takes over the sequence an IRQ has begun. *)
TakeNmi == Has(cs, "NMI") /\ clk >= cs.nmi_clk + INTERRUPT_DELAY

Vector == /\ at = "vector"
          /\ cs' = IF TakeNmi THEN AckNmi(cs) ELSE AckIrq(cs)
          /\ clk' = clk + 2 /\ last' = "brk" /\ at' = "requests"
          /\ UNCHANGED <<mask, ik, snap>>

(* interrupt_do_trap clears the flag and calls the function. *)
DoTrap == /\ at = "requests" /\ "TRAP" \in ik
          /\ cs' = [cs EXCEPT !.global = @ \ {"TRAP"}]
          /\ ik' = ik \ {"TRAP"} /\ at' = "trap"
          /\ UNCHANGED <<clk, mask, last, snap>>

(* A reset the function asked for is served at once. *)
Return(c) == /\ at = "trap" /\ at' = "requests"
             /\ ik' = ik \cup (c.global \cap {"RESET"})
             /\ cs' = c

SaveSnapshot == /\ cs.trap_func = "save" /\ Return(cs)
                /\ clk \in SnapClocks
                /\ snap' = Snapshot
                /\ UNCHANGED <<clk, mask, last>>

LoadSnapshot == /\ cs.trap_func = "load" /\ Return(Loaded)
                /\ clk' = snap.clk /\ mask' = snap.mask /\ last' = snap.last
                /\ UNCHANGED snap

(* A chip's module is missing or wrong: some chips have been restored, and the
   machine is reset. *)
LoadFails == /\ cs.trap_func = "load"
             /\ \E irq \in SUBSET snap.status.irq, nmi \in SUBSET snap.status.nmi :
                    Return([CpuModuleRead EXCEPT !.irq = irq, !.nmi = nmi,
                                                 !.global = @ \cup {"RESET"}])
             /\ clk' = snap.clk /\ mask' = snap.mask /\ last' = snap.last
             /\ UNCHANGED snap

OtherTrap == /\ Return(cs)
             /\ cs.trap_func # "load" /\ (cs.trap_func = "save" => clk \notin SnapClocks)
             /\ UNCHANGED <<clk, mask, last, snap>>

(* Mutated form: the reset does not wait for the trap. *)
DoResetFirst == /\ at = "requests" /\ "RESET" \in ik
                /\ cs' = [ResetStatus EXCEPT !.global = cs.global \cap {"MONITOR"}]
                /\ clk' = 6 /\ ik' = ik \ {"RESET"}
                /\ UNCHANGED <<mask, last, at, snap>>

(* interrupt_ack_reset and cpu_reset: everything but the monitor's flag. *)
DoReset == /\ at = "requests" /\ "TRAP" \notin ik /\ "RESET" \in ik
           /\ cs' = [ResetStatus EXCEPT !.global = cs.global \cap {"MONITOR"}]
           /\ clk' = 6 /\ ik' = ik \ {"RESET"}
           /\ UNCHANGED <<mask, last, at, snap>>

(* The rest of DO_INTERRUPT, DMA, and the check behind it: an IRQ that has
   ended and was not served is forgotten. *)
EndRequests == /\ at = "requests" /\ ik \cap {"TRAP", "RESET"} = {}
               /\ LET c == [cs EXCEPT !.global = @ \ (ik \cap {"DMA"})]
                  IN cs' = IF Has(c, "IRQ") THEN c
                           ELSE [c EXCEPT !.global = @ \ {"IRQPEND"}]
               /\ at' = "opcode" /\ ik' = {}
               /\ UNCHANGED <<clk, mask, last, snap>>
-----------------------------------------------------------------------------
Step == \/ \E op \in Kinds, n \in Cycles : Run(op, n)
        \/ RunBrk \/ EndBrk
        \/ NoRequest \/ Enter \/ HoldBack \/ Vector
        \/ DoTrap \/ SaveSnapshot \/ LoadSnapshot \/ LoadFails \/ OtherTrap
        \/ DoReset \/ EndRequests

Next == \/ Step
        \/ PreventOverflow
        \/ \E n \in Dma : Steal(n)
        \/ \E s \in IrqSources, t \in Dates : SetIrq(s, t) \/ ClearIrq(s, t)
        \/ \E s \in NmiSources : ClearNmi(s) \/ \E t \in Dates : SetNmi(s, t)
        \/ \E f \in TrapFuncs : TriggerTrap(f)
        \/ \E r \in Requests : Trigger(r)
        \/ MonitorOff

Spec == Init /\ [][Next]_vars

(* The CPU loop runs, and every frame looks at the clock. *)
FairSpec == Spec /\ WF_vars(Step) /\ WF_vars(PreventOverflow)
-----------------------------------------------------------------------------
Status == [irq : SUBSET IrqSources, nmi : SUBSET NmiSources, nirq : Nat, nnmi : Nat,
           global : SUBSET Flags, irq_clk : Clock, nmi_clk : Clock,
           irq_pending_clk : Clock, trap_func : TrapFuncs \cup {NoTrap}]

(* Every variable has the type its declaration gives it, the clocks theirs
   also after a warp that takes off more than they are. *)
TypeOK == /\ cs \in Status
          /\ clk \in Clock /\ mask \in BOOLEAN /\ last \in Infos
          /\ at \in Stages /\ ik \in SUBSET Flags
          /\ snap \in [status : Status, clk : Clock, mask : BOOLEAN, last : Infos]

(* A reset is bound to follow before the program or a chip runs again. *)
Doomed == at \in {"requests", "trap"} /\ "RESET" \in ik

(* nirq is the "Number of active IRQ lines" (interrupt.h:66), nnmi that of the
   NMI lines, and the CPU sees an IRQ exactly while somebody pulls it: else an
   IRQ whose source is gone is served for ever, or a pulled one never.  Through
   every order of changes, resets and snapshots; a load that failed half way
   may leave anything, but then the machine is reset before anything runs. *)
Counted(c) == /\ c.nirq = Cardinality(c.irq) /\ c.nnmi = Cardinality(c.nmi)
              /\ Has(c, "IRQ") <=> c.irq # {}
LinesCounted == Doomed \/ Counted(cs)

(* The IRQ the CPU may still serve after its end has an end too, and one that
   is pulled again or still has none: no IRQ is served long after its source
   let go, and none is dropped while it is pulled. *)
Ends(c) == /\ Has(c, "IRQ") => c.irq_pending_clk = CLOCK_MAX
           /\ Has(c, "IRQPEND") /\ ~Has(c, "IRQ") => c.irq_pending_clk < CLOCK_MAX
PulseEnds == Doomed \/ Ends(cs)

(* No date is in the future of the clock it is compared with, after any warp,
   reset or load: a date that a warp left behind would hold an interrupt back
   for an hour, an end that stayed behind would keep an IRQ alive as long. *)
InReach(c, now) == /\ c.irq_clk <= now /\ c.nmi_clk <= now
                   /\ c.irq_pending_clk < CLOCK_MAX => c.irq_pending_clk <= now + 3
DatesInReach == InReach(cs, clk)

(* The CPU is never on its way to a vector with nothing to serve: if no IRQ was
   read, the NMI that started the sequence is still there to be taken when the
   alarms in its middle have run, whatever they pulled, released or warped. *)
EntryJustified == at = "vector" => TakeNmi \/ ik \cap {"IRQ", "IRQPEND"} # {}

(* interrupt_do_trap always has a function to call. *)
NoNullTrap == "TRAP" \in cs.global \cup ik => cs.trap_func \in TrapFuncs

(* The pins as the chips and a snapshot know them.  A machine that is about to
   be reset, or a snapshot that is when it is loaded, has none. *)
Quiet     == [level |-> FALSE, pulse |-> FALSE, line |-> FALSE, latch |-> FALSE]
PinsOf(c) == [level |-> c.irq # {}, pulse |-> Has(c, "IRQPEND"),
              line  |-> c.nmi # {}, latch |-> Has(c, "NMI")]
PinsNow   == IF Doomed THEN Quiet ELSE PinsOf(cs)
PinsSaved == IF Has(snap.status, "RESET") THEN Quiet ELSE PinsOf(snap.status)

Pins == INSTANCE InterruptPins WITH
    level <- PinsNow.level, pulse <- PinsNow.pulse,
    line <- PinsNow.line, latch <- PinsNow.latch, saved <- PinsSaved

(* One NMI is served for every edge of the wired-or of its sources, and none
   else; an IRQ pulse begins only with a pull: the status implements the pins. *)
ImplementsPins == Pins!PSpec

(* An NMI that has come is served, whatever the program does: BRK after BRK,
   branches that delay it by a cycle, or interrupts in a row. *)
NmiIsServed == Has(cs, "NMI") ~> ~Has(cs, "NMI")

(* An IRQ that stays pulled is served again and again by a program that again
   and again allows it, be it only between a CLI and the SEI that follows.  A BRK
   will do as well, which goes through the same vector. *)
HeldIrqIsServed == []<>(~mask) /\ <>[](cs.irq # {} /\ ~Has(cs, "NMI"))
                        => []<>(at \in {"vector", "brk"})
=============================================================================
