----------------------------- MODULE AlarmContext -----------------------------
(***************************************************************************)
(* One alarm context and the clock it is compared with: the main CPU's, or *)
(* that of one drive CPU.  Chips create, set, unset and destroy alarms     *)
(* from the code the CPU runs and from callbacks; the CPU loop calls what  *)
(* is due before every instruction (PROCESS_ALARMS); the callback of the   *)
(* video chip's fetch alarm steals cycles, so the clock goes on under the  *)
(* dispatch; the clock guard warps the clock and every deadline back       *)
(* before the counter can overflow.                                        *)
(***************************************************************************)
EXTENDS AlarmQueue, FiniteSets

CONSTANTS NoAlarm,     \* not an alarm
          MaxValue,    \* clk_max_value of the clock guard
          Sub,         \* what clk_guard_clock_sub answers
          Step,        \* most cycles one instruction adds to the clock, with
                       \* those its register writes make the video chip steal
          Lag,         \* how far behind the clock a deadline may be set
          Ahead,       \* how far ahead of the clock a deadline may be set
          Raster,      \* the alarm of the video chip that is always pending
                       \* (raster_draw_alarm), NoAlarm in a context without one
          Fetch,       \* the alarm whose callback steals cycles from the CPU
                       \* (raster_fetch_alarm), NoAlarm in a context without one
          Dma          \* bound: most cycles stolen between two instructions

ASSUME ContextAssumption ==
    /\ NoAlarm \notin Alarms
    /\ {MaxValue, Sub, Step, Lag, Ahead, Dma} \subseteq Nat
    /\ Step > 0 /\ Step <= Lag + 1
    /\ Sub > 0 /\ Sub + Lag + Dma <= MaxValue
    /\ MaxValue + Step + Dma + Ahead <= ClkMax
    /\ {Raster, Fetch} \subseteq Alarms \cup {NoAlarm}

VARIABLES clk,       \* *clk_ptr: maincpu_clk, or the drive's clock
          q,         \* the context
          created,   \* alarms that exist (the context's alarm list)
          running,   \* the callback alarm_context_dispatch is in, and for when
          inLoop,    \* the CPU is in PROCESS_ALARMS, not in an instruction
          stolen     \* cycles stolen since the last instruction

vars == <<clk, q, created, running, inLoop, stolen>>

NoCall == [alarm |-> NoAlarm, due |-> 0]

(* Deadlines are computed from the clock or from the deadline that fired, and
   cycles stolen in between leave them where they are. *)
Reach == {t \in Clock : t >= clk - Lag - stolen /\ t <= clk + Ahead}

Init == /\ clk = 0 /\ running = NoCall /\ inLoop = FALSE /\ stolen = 0
        /\ IF Raster = NoAlarm
           THEN created = {} /\ q = EmptyQueue
           ELSE created = {Raster} /\ \E t \in Reach : q = AlarmSet(EmptyQueue, Raster, t)

(* Chip code runs in an instruction, in a callback, or before the CPU starts. *)
ChipCode == ~inLoop \/ running # NoCall

New(a) == /\ ChipCode
          /\ a \in Alarms \ created
          /\ created' = created \cup {a}
          /\ q' = [q EXCEPT !.idx[a] = NotPending]
          /\ UNCHANGED <<clk, running, inLoop, stolen>>

(* alarm_destroy; no callback destroys the alarm it was called for. *)
Destroy(a) == /\ ChipCode
              /\ a \in created \ {Raster} /\ running.alarm # a
              /\ created' = created \ {a}
              /\ q' = AlarmUnset(q, a)
              /\ UNCHANGED <<clk, running, inLoop, stolen>>

(* A callback that sets another alarm sets it for later than now, and its own
   for later than the deadline it was called for. *)
Set(a, t) == /\ ChipCode /\ a \in created
             /\ running # NoCall => t > clk \/ (a = running.alarm /\ t > running.due)
             /\ q' = AlarmSet(q, a, t)
             /\ UNCHANGED <<clk, created, running, inLoop, stolen>>

Unset(a) == /\ ChipCode /\ a \in created \ {Raster}
            /\ q' = AlarmUnset(q, a)
            /\ UNCHANGED <<clk, created, running, inLoop, stolen>>

(* Mutated form: an alarm due on this very cycle waits for the next one. *)
ExecuteOnDeadline(n) == /\ inLoop /\ running = NoCall
                        /\ clk <= q.nextClk /\ clk < MaxValue
                        /\ clk' = ClockAdd(clk, n)
                        /\ inLoop' = FALSE /\ stolen' = 0
                        /\ UNCHANGED <<q, created, running>>

(* The CPU executes an instruction once PROCESS_ALARMS has nothing to do. *)
Execute(n) == /\ inLoop /\ running = NoCall
              /\ clk < q.nextClk
              /\ clk < MaxValue      \* bound: a vsync comes before the overflow
              /\ clk' = ClockAdd(clk, n)
              /\ inLoop' = FALSE /\ stolen' = 0
              /\ UNCHANGED <<q, created, running>>

EndInstruction == ~inLoop /\ inLoop' = TRUE /\ UNCHANGED <<clk, q, created, running, stolen>>

(* while (CLK >= next_pending_alarm_clk) alarm_context_dispatch().  An index
   outside the live array reads a pointer nothing wrote: any alarm, or none. *)
Dispatch == /\ inLoop /\ running = NoCall
            /\ clk >= q.nextClk
            /\ IF q.nextIdx \in Slots(q)
               THEN running' = [alarm |-> q.slot[q.nextIdx].alarm, due |-> q.nextClk]
               ELSE \E a \in Alarms : running' = [alarm |-> a, due |-> q.nextClk]
            /\ UNCHANGED <<clk, q, created, inLoop, stolen>>

(* Mutated form: a periodic callback rearms its alarm with a period of zero. *)
ReturnSameDeadline(a) == /\ running.alarm = a
                         /\ running' = NoCall
                         /\ \/ a # Raster /\ q' = AlarmUnset(q, a)
                            \/ \E t \in Reach : t >= running.due /\ q' = AlarmSet(q, a, t)
                         /\ UNCHANGED <<clk, created, inLoop, stolen>>

(* The end of the callback: its alarm is unset, or set for later. *)
Return(a) == /\ running.alarm = a
             /\ running' = NoCall
             /\ \/ a # Raster /\ q' = AlarmUnset(q, a)
                \/ \E t \in Reach : t > running.due /\ q' = AlarmSet(q, a, t)
             /\ UNCHANGED <<clk, created, inLoop, stolen>>

(* dma_maincpu_steal_cycles from the fetch callback: the clock goes on inside
   alarm_context_dispatch and leaves other deadlines behind. *)
Steal(n) == /\ running # NoCall /\ running.alarm = Fetch
            /\ stolen + n <= Dma      \* bound
            /\ clk' = ClockAdd(clk, n) /\ stolen' = stolen + n
            /\ UNCHANGED <<q, created, running, inLoop>>

(* clk_guard_prevent_overflow, at the end of a frame: from the raster alarm's
   handler for the main CPU (the fetch callback calls it too), between
   instructions for a drive. *)
PreventOverflow == /\ clk >= MaxValue
                   /\ clk' = ClockSub(clk, Sub)
                   /\ q' = TimeWarp(q, Sub)
                   /\ running' = IF running = NoCall THEN NoCall
                                 ELSE [running EXCEPT !.due = ClockSub(@, Sub)]
                   /\ UNCHANGED <<created, inLoop, stolen>>

Next == \/ \E a \in Alarms : New(a) \/ Destroy(a) \/ Unset(a) \/ Return(a)
        \/ \E a \in Alarms, t \in Reach : Set(a, t)
        \/ \E n \in 1 .. Step : Execute(n)
        \/ EndInstruction
        \/ Dispatch
        \/ \E n \in 1 .. Dma : Steal(n)
        \/ PreventOverflow

Spec == Init /\ [][Next]_vars

(* Instructions end, PROCESS_ALARMS calls what is due, callbacks return. *)
FairSpec == /\ Spec
            /\ WF_vars(EndInstruction)
            /\ WF_vars(Dispatch)
            /\ \A a \in Alarms : WF_vars(Return(a))
-----------------------------------------------------------------------------
(* Every variable and every field of the context has the C type it has. *)
TypeOK == /\ clk \in Clock /\ QueueType(q) /\ stolen \in 0 .. Dma
          /\ created \subseteq Alarms /\ inLoop \in BOOLEAN
          /\ running \in [alarm : Alarms \cup {NoAlarm}, due : Clock]

(* pending_idx of every alarm and the alarm of every live slot point at each
   other, and only alarms that exist are pending: the swap that fills the hole
   alarm_unset leaves forgets no alarm and leaves no slot behind. *)
IndexConsistent == /\ QueueLinked(q)
                   /\ \A a \in Alarms : IsPending(q, a) => a \in created

(* The cached clock and index are those of an earliest pending alarm, or the
   sentinel CLOCK_MAX when nothing is pending ("Clock tick for the next pending
   alarm", alarm.h:82): what every CPU loop compares its clock with. *)
NextIsEarliest == QueueNext(q)

(* No deadline is ever carried across the counter's overflow by the warp, and
   none is left behind by more than one instruction and the cycles stolen since:
   all stay within reach of the clock they are compared with. *)
DeadlinesInReach == \A a \in Alarms : IsPending(q, a) => Deadline(q, a) \in Reach

(* An alarm_set never meets a full array, whose only answer is a log line and
   a chip that stops, when the array has a slot for every alarm. *)
RoomForEveryAlarm == \A a \in Alarms : ~IsPending(q, a) => q.num < MaxPending

(* What a chip sees of the context: the cycles its alarms have left. *)
CyclesLeft == [a \in {b \in Alarms : IsPending(q, b)} |-> Deadline(q, a) - clk]
Firing     == [alarm |-> running.alarm,
               late  |-> IF running = NoCall THEN 0 ELSE clk - running.due]

Timers == INSTANCE AlarmTimers WITH
    Span <- -(Lag + Dma) .. Ahead + Step + Dma, left <- CyclesLeft, firing <- Firing

(* The CPU never executes past an alarm that is due, a callback is called for
   an alarm that is pending, earliest first, with the offset the clock has on
   its deadline, only cycles stolen in the fetch callback make others late, and
   a clock warp is invisible to every chip: the context implements AlarmTimers. *)
ImplementsTimers == Timers!TSpec

(* An alarm that is due is called, or some code moves it or withdraws it: no
   other alarm can keep the dispatch loop to itself. *)
DueAlarmIsCalled ==
    \A a \in Alarms : (IsPending(q, a) /\ Deadline(q, a) <= clk) ~>
                      (running.alarm = a \/ ~IsPending(q, a) \/ Deadline(q, a) > clk)
=============================================================================
