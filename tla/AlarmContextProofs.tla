--------------------------- MODULE AlarmContextProofs --------------------------
(***************************************************************************)
(* The invariants of an alarm context that always has the video chip's     *)
(* alarm pending, for every number of alarms and every clock width.        *)
(***************************************************************************)
EXTENDS AlarmContext, AlarmQueueProofs, FiniteSetTheorems

(* The state of the queue, between or inside callbacks. *)
QueueInv == /\ QueueOK(q)
            /\ \A a \in Alarms : IsPending(q, a) => a \in created /\ Deadline(q, a) \in Reach
            /\ IsPending(q, Raster)

(* The inductive invariant: the clock has run into the margin by no more than
   an instruction and the cycles stolen since, and the deadline a callback was called for is within reach of the clock. *)
IInv == /\ QueueInv
        /\ clk \in Clock /\ clk < MaxValue + Step + stolen /\ stolen \in 0 .. Dma
        /\ created \subseteq Alarms /\ inLoop \in BOOLEAN
        /\ running \in [alarm : Alarms \cup {NoAlarm}, due : Clock]
        /\ running.alarm = NoAlarm => running = NoCall
        /\ running # NoCall => /\ running.alarm \in created
                               /\ running.due \in Reach /\ running.due <= clk

(* The constants as arithmetic facts. *)
LEMMA Constants ==
    /\ MaxValue \in Nat /\ Sub \in Nat /\ Step \in Nat /\ Lag \in Nat /\ Ahead \in Nat
    /\ Dma \in Nat
    /\ ClkMax \in Nat /\ Step > 0 /\ Step <= Lag + 1 /\ Sub > 0
    /\ Sub + Lag + Dma <= MaxValue /\ MaxValue + Step + Dma + Ahead <= ClkMax
    /\ NoAlarm \notin Alarms
BY ContextAssumption, QueueAssumption

(* A deadline within reach is below the sentinel CLOCK_MAX. *)
LEMMA ReachBelowMax ==
    ASSUME clk \in Clock, stolen \in 0 .. Dma, clk < MaxValue + Step + stolen,
           NEW t \in Reach
    PROVE  t \in Clock /\ t < ClkMax
BY Constants DEF Reach, Clock

(* alarm_set within reach keeps the queue's invariant, full array included. *)
LEMMA SetKeeps ==
    ASSUME QueueInv, clk \in Clock, stolen \in 0 .. Dma, clk < MaxValue + Step + stolen,
           Raster \in Alarms, created \subseteq Alarms, NEW a \in created, NEW t \in Reach
    PROVE  LET p == AlarmSet(q, a, t)
           IN  /\ QueueOK(p) /\ IsPending(p, Raster)
               /\ \A b \in Alarms : IsPending(p, b) => b \in created /\ Deadline(p, b) \in Reach
<1>1. t \in Clock /\ t < ClkMax /\ a \in Alarms
  BY ReachBelowMax
<1>2. CASE IsPending(q, a) \/ q.num < MaxPending
  <2> DEFINE p == AlarmSet(q, a, t)
  <2>1. /\ QueueOK(p) /\ IsPending(p, a) /\ Deadline(p, a) = t
        /\ OthersKept(q, p, a)
    BY <1>1, <1>2, AlarmSetCorrect DEF QueueInv
  <2> HIDE DEF p
  <2> QED BY <2>1 DEF QueueInv, OthersKept, p
<1>3. CASE ~(IsPending(q, a) \/ q.num < MaxPending)
  <2>1. AlarmSet(q, a, t) = q
    BY <1>3, AlarmSetFull DEF QueueInv, QueueOK
  <2> QED BY <2>1 DEF QueueInv
<1> QED BY <1>2, <1>3

(* alarm_unset of any other alarm keeps it too. *)
LEMMA UnsetKeeps ==
    ASSUME QueueInv, NEW a \in Alarms, a # Raster, Raster \in Alarms
    PROVE  LET p == AlarmUnset(q, a)
           IN  /\ QueueOK(p) /\ IsPending(p, Raster) /\ ~IsPending(p, a)
               /\ \A b \in Alarms : IsPending(p, b) => b \in created /\ Deadline(p, b) \in Reach
<1> DEFINE p == AlarmUnset(q, a)
<1>1. QueueOK(p) /\ ~IsPending(p, a) /\ OthersKept(q, p, a)
  BY AlarmUnsetCorrect DEF QueueInv
<1> HIDE DEF p
<1> QED BY <1>1 DEF QueueInv, OthersKept, p
-----------------------------------------------------------------------------
LEMMA InitIInv == ASSUME Raster \in Alarms PROVE Init => IInv
<1> SUFFICES ASSUME Init PROVE IInv
  OBVIOUS
<1>1. /\ clk = 0 /\ clk \in Clock /\ stolen \in 0 .. Dma /\ clk < MaxValue + Step + stolen
      /\ NoCall.alarm = NoAlarm
  BY Constants DEF Init, Clock, NoCall
<1>2. PICK t \in Reach : q = AlarmSet(EmptyQueue, Raster, t)
  BY Constants DEF Init
<1>3. created = {Raster} /\ running = NoCall /\ inLoop = FALSE
  BY Constants DEF Init
<1>4. QueueOK(EmptyQueue)
  <2> DEFINE e == EmptyQueue
  <2>1. /\ e.num = 0 /\ e.slot = [i \in 0 .. -1 |-> 0]
        /\ e.idx = [a \in Alarms |-> -1] /\ e.nextClk = ClkMax /\ e.nextIdx = -1
        /\ e = [num |-> e.num, slot |-> e.slot, idx |-> e.idx,
                nextClk |-> e.nextClk, nextIdx |-> e.nextIdx]
    BY DEF EmptyQueue, NotPending
  <2> HIDE DEF e
  <2>2. e.slot \in [0 .. e.num - 1 -> [alarm : Alarms, clk : Clock]]
    BY <2>1
  <2>3. -1 \in -1 .. MaxPending - 1 /\ 0 \in 0 .. MaxPending /\ ClkMax \in Clock
    BY QueueAssumption DEF Clock
  <2>4. /\ e.num \in 0 .. MaxPending /\ e.idx \in [Alarms -> -1 .. MaxPending - 1]
        /\ e.nextClk \in Clock /\ e.nextIdx \in -1 .. MaxPending - 1
    BY <2>1, <2>3
  <2>5. QueueType(e)
    BY <2>1, <2>2, <2>4, QueueFromFields
  <2> QED BY <2>1, <2>5 DEF QueueOK, QueueLinked, QueueNext, Slots, IsPending, NotPending, e
<1>5. EmptyQueue.num < MaxPending /\ \A b \in Alarms : ~IsPending(EmptyQueue, b)
  BY QueueAssumption DEF EmptyQueue, IsPending
<1>6. t \in Clock /\ t < ClkMax
  BY <1>1, ReachBelowMax
<1>7. /\ QueueOK(q) /\ IsPending(q, Raster) /\ Deadline(q, Raster) = t
      /\ OthersKept(EmptyQueue, q, Raster)
  BY <1>2, <1>4, <1>5, <1>6, AlarmSetCorrect
<1>8. QueueInv
  BY <1>3, <1>5, <1>7 DEF QueueInv, OthersKept
<1>9. NoCall \in [alarm : Alarms \cup {NoAlarm}, due : Clock]
  BY Constants DEF NoCall, Clock
<1> QED BY <1>1, <1>3, <1>8, <1>9 DEF IInv

(* A new queue whose alarms exist and are within reach, at the same clock. *)
LEMMA SameClock ==
    ASSUME QueueOK(q'), IsPending(q', Raster), UNCHANGED <<clk, stolen>>,
           \A b \in Alarms : IsPending(q', b) => b \in created' /\ Deadline(q', b) \in Reach
    PROVE  QueueInv' /\ Reach' = Reach
<1>1. Reach' = Reach
  BY DEF Reach
<1> QED BY <1>1 DEF QueueInv

LEMMA NewKeeps ==
    ASSUME IInv, Raster \in Alarms, NEW a \in Alarms, New(a) PROVE IInv'
<1>1. q' = q
  <2>1. QueueType(q) /\ ~IsPending(q, a)
    BY DEF IInv, QueueInv, New, QueueOK
  <2>2. q.idx \in [Alarms -> -1 .. MaxPending - 1] /\ q.idx[a] = NotPending
    BY <2>1, QueueFields DEF IsPending
  <2>3. [q.idx EXCEPT ![a] = NotPending] = q.idx
    BY <2>2
  <2> QED BY <2>1, <2>3 DEF New, QueueType
<1>2. QueueInv' /\ Reach' = Reach
  BY <1>1, SameClock DEF IInv, QueueInv, New
<1> QED BY <1>2 DEF IInv, New, NoCall

LEMMA DestroyKeeps ==
    ASSUME IInv, Raster \in Alarms, NEW a \in Alarms, Destroy(a) PROVE IInv'
<1>1. a # Raster /\ q' = AlarmUnset(q, a) /\ created' = created \ {a}
  BY DEF Destroy
<1>2. /\ QueueOK(q') /\ IsPending(q', Raster) /\ ~IsPending(q', a)
      /\ \A b \in Alarms : IsPending(q', b) => b \in created /\ Deadline(q', b) \in Reach
  BY <1>1, UnsetKeeps DEF IInv
<1>3. QueueInv' /\ Reach' = Reach
  BY <1>1, <1>2, SameClock DEF Destroy
<1> QED BY <1>3 DEF IInv, Destroy, NoCall

LEMMA SetStepKeeps ==
    ASSUME IInv, Raster \in Alarms, NEW a \in Alarms, NEW t \in Reach, Set(a, t)
    PROVE  IInv'
<1>1. a \in created /\ q' = AlarmSet(q, a, t)
  BY DEF Set
<1>2. /\ QueueOK(q') /\ IsPending(q', Raster)
      /\ \A b \in Alarms : IsPending(q', b) => b \in created /\ Deadline(q', b) \in Reach
  BY <1>1, SetKeeps DEF IInv
<1>3. QueueInv' /\ Reach' = Reach
  BY <1>2, SameClock DEF Set
<1> QED BY <1>3 DEF IInv, Set, NoCall

LEMMA UnsetStepKeeps ==
    ASSUME IInv, Raster \in Alarms, NEW a \in Alarms, Unset(a) PROVE IInv'
<1>1. a # Raster /\ q' = AlarmUnset(q, a)
  BY DEF Unset
<1>2. /\ QueueOK(q') /\ IsPending(q', Raster)
      /\ \A b \in Alarms : IsPending(q', b) => b \in created /\ Deadline(q', b) \in Reach
  BY <1>1, UnsetKeeps DEF IInv
<1>3. QueueInv' /\ Reach' = Reach
  BY <1>2, SameClock DEF Unset
<1> QED BY <1>3 DEF IInv, Unset, NoCall

LEMMA ReturnKeeps ==
    ASSUME IInv, Raster \in Alarms, NEW a \in Alarms, Return(a) PROVE IInv'
<1>1. a \in created
  BY Constants DEF Return, IInv, NoCall
<1>2. /\ QueueOK(q') /\ IsPending(q', Raster)
      /\ \A b \in Alarms : IsPending(q', b) => b \in created /\ Deadline(q', b) \in Reach
  <2>1. CASE a # Raster /\ q' = AlarmUnset(q, a)
    BY <2>1, UnsetKeeps DEF IInv
  <2>2. CASE \E t \in Reach : q' = AlarmSet(q, a, t)
    BY <1>1, <2>2, SetKeeps DEF IInv
  <2> QED BY <2>1, <2>2 DEF Return
<1>3. QueueInv' /\ Reach' = Reach
  BY <1>2, SameClock DEF Return
<1>4. NoCall \in [alarm : Alarms \cup {NoAlarm}, due : Clock] /\ NoCall.alarm = NoAlarm
  BY Constants DEF NoCall, Clock
<1> QED BY <1>3, <1>4 DEF IInv, Return, NoCall

LEMMA ExecuteKeeps ==
    ASSUME IInv, Raster \in Alarms, NEW n \in 1 .. Step, Execute(n) PROVE IInv'
<1>1. /\ clk \in Nat /\ n \in Nat /\ n > 0 /\ n <= Step /\ clk < MaxValue
      /\ clk < q.nextClk /\ clk' = ClockAdd(clk, n)
      /\ stolen' = 0 /\ stolen \in Nat
  BY Constants DEF IInv, Execute, Clock
<1>2. clk + n \in Clock
  BY <1>1, Constants DEF Clock
<1>3. clk' = clk + n
  BY <1>1, <1>2, NoWrap DEF ClockAdd
<1>4. ASSUME NEW a \in Alarms, IsPending(q, a) PROVE Deadline(q, a) \in Reach'
  <2>1. Deadline(q, a) \in Reach /\ QueueType(q) /\ QueueLinked(q) /\ QueueNext(q)
    BY <1>4 DEF IInv, QueueInv, QueueOK
  <2>2. q.idx[a] \in 0 .. q.num - 1 /\ q.num > 0 /\ q.num \in Nat
    BY <1>4, <2>1, PendingSlot, QueueFields
  <2>3. q.nextClk <= Deadline(q, a)
    BY <2>1, <2>2, NextOfNonempty DEF Deadline
  <2>4. Deadline(q, a) \in Nat /\ q.nextClk \in Nat
    BY <2>1, QueueFields, Constants DEF Clock, Reach
  <2> QED BY <1>1, <1>3, <2>1, <2>3, <2>4, Constants DEF Reach, Clock
<1>5. QueueInv'
  BY <1>4 DEF IInv, QueueInv, Execute
<1>6. stolen' = 0 /\ stolen' \in 0 .. Dma /\ clk' < MaxValue + Step + stolen'
  BY <1>1, <1>3, Constants DEF Execute
<1> QED BY <1>2, <1>3, <1>5, <1>6 DEF IInv, Execute, NoCall

LEMMA DispatchKeeps ==
    ASSUME IInv, Raster \in Alarms, Dispatch PROVE IInv'
<1>1. QueueType(q) /\ QueueLinked(q) /\ QueueNext(q) /\ IsPending(q, Raster)
  BY DEF IInv, QueueInv, QueueOK
<1>2. q.num > 0 /\ q.num \in Nat
  BY <1>1, PendingSlot, QueueFields
<1>3. q.nextIdx \in 0 .. q.num - 1 /\ q.nextClk = q.slot[q.nextIdx].clk
  BY <1>1, <1>2, NextOfNonempty
<1> DEFINE a == q.slot[q.nextIdx].alarm
<1>4. a \in Alarms /\ q.idx[a] = q.nextIdx /\ IsPending(q, a)
  BY <1>1, <1>3, QueueFields DEF QueueLinked, Slots, IsPending, NotPending
<1>5. a \in created /\ q.nextClk \in Reach
  BY <1>3, <1>4 DEF IInv, QueueInv, Deadline
<1>6. running' = [alarm |-> a, due |-> q.nextClk] /\ clk >= q.nextClk
  BY <1>3 DEF Dispatch, Slots
<1>7. q.nextClk \in Clock /\ q.nextClk <= clk
  BY <1>1, <1>6, QueueFields, Constants DEF IInv, Clock
<1>8. QueueInv' /\ Reach' = Reach
  BY SameClock DEF IInv, QueueInv, Dispatch
<1>9. /\ running' \in [alarm : Alarms \cup {NoAlarm}, due : Clock]
      /\ running'.alarm # NoAlarm /\ running'.alarm = a /\ running'.due = q.nextClk
  BY <1>4, <1>6, <1>7, Constants
<1> QED BY <1>5, <1>7, <1>8, <1>9 DEF IInv, Dispatch, NoCall

(* What an earlier clock reaches is still within reach after a steal. *)
LEMMA StealReaches ==
    ASSUME IInv, NEW n \in 1 .. Dma, Steal(n)
    PROVE  /\ clk \in Nat /\ n \in Nat /\ n > 0 /\ clk' = clk + n /\ clk' \in Clock
           /\ stolen' \in 0 .. Dma /\ clk' < MaxValue + Step + stolen'
           /\ \A t \in Reach : t \in Reach'
<1>1. /\ clk \in Nat /\ n \in Nat /\ n > 0 /\ stolen \in Nat /\ stolen + n <= Dma
      /\ clk < MaxValue + Step + stolen
      /\ clk' = ClockAdd(clk, n) /\ stolen' = stolen + n
  BY Constants DEF IInv, Steal, Clock
<1>2. clk + n \in Clock
  BY <1>1, Constants DEF Clock
<1>3. clk' = clk + n
  BY <1>1, <1>2, NoWrap DEF ClockAdd
<1>4. stolen' \in 0 .. Dma /\ clk' < MaxValue + Step + stolen'
  BY <1>1, <1>3, Constants
<1> QED BY <1>1, <1>2, <1>3, <1>4, Constants DEF Reach, Clock

LEMMA StealKeeps ==
    ASSUME IInv, Raster \in Alarms, NEW n \in 1 .. Dma, Steal(n) PROVE IInv'
<1>1. UNCHANGED <<q, created, running, inLoop>>
  BY DEF Steal
<1>2. QueueInv'
  BY <1>1, StealReaches DEF IInv, QueueInv
<1>3. running # NoCall => running.due <= clk'
  BY StealReaches, Constants DEF IInv, Reach, Clock
<1> QED BY <1>1, <1>2, <1>3, StealReaches DEF IInv, NoCall

LEMMA PreventOverflowKeeps ==
    ASSUME IInv, Raster \in Alarms, PreventOverflow PROVE IInv'
<1>1. /\ clk \in Nat /\ clk >= MaxValue /\ clk < MaxValue + Step + stolen
      /\ stolen \in 0 .. Dma /\ stolen' = stolen
      /\ clk' = ClockSub(clk, Sub) /\ q' = TimeWarp(q, Sub)
  BY Constants DEF IInv, PreventOverflow, Clock
<1>2. \A x \in Clock : Sub <= x => ClockSub(x, Sub) = x - Sub /\ x - Sub \in Clock
  BY NoWrap, Constants DEF ClockSub, Clock
<1>3. clk' = clk - Sub /\ clk' \in Clock /\ clk' < MaxValue + Step + stolen'
  BY <1>1, <1>2, Constants DEF IInv
<1>4. \A t \in Reach : Sub <= t /\ t \in Clock /\ t - Sub \in Reach'
  BY <1>1, <1>2, <1>3, Constants DEF Reach, Clock
<1>5. QueueOK(q) /\ q.num > 0
  BY PendingSlot DEF IInv, QueueInv, QueueOK
<1>6. \A a \in Alarms : IsPending(q, a) => Sub <= Deadline(q, a)
  BY <1>4 DEF IInv, QueueInv
<1>7. /\ QueueOK(q') /\ q'.num = q.num /\ q'.idx = q.idx
      /\ \A a \in Alarms : IsPending(q, a) => Deadline(q', a) = Deadline(q, a) - Sub
  BY <1>1, <1>5, <1>6, TimeWarpCorrect, Constants
<1>8. QueueInv'
  BY <1>4, <1>7 DEF IInv, QueueInv, IsPending, PreventOverflow
<1>9. CASE running = NoCall
  BY <1>3, <1>8, <1>9 DEF IInv, PreventOverflow, NoCall
<1>10. CASE running # NoCall
  <2>1. /\ running' = [running EXCEPT !.due = ClockSub(running.due, Sub)]
        /\ running.due \in Reach /\ running.due <= clk
    BY <1>10 DEF IInv, PreventOverflow
  <2>2. ClockSub(running.due, Sub) = running.due - Sub
    BY <1>2, <1>4, <2>1
  <2>3. running'.alarm = running.alarm /\ running'.due = running.due - Sub
    BY <2>1, <2>2 DEF IInv
  <2>4. running.due - Sub \in Reach' /\ running.due - Sub \in Clock
    BY <1>2, <1>4, <2>1
  <2>5. running' \in [alarm : Alarms \cup {NoAlarm}, due : Clock]
    BY <2>1, <2>2, <2>4 DEF IInv
  <2>6. running.due - Sub <= clk - Sub
    BY <1>1, <1>4, <2>1, Constants DEF Clock
  <2> QED BY <1>3, <1>8, <1>10, <2>3, <2>4, <2>5, <2>6 DEF IInv, PreventOverflow, NoCall
<1> QED BY <1>9, <1>10
-----------------------------------------------------------------------------
LEMMA NextKeeps == ASSUME IInv, Raster \in Alarms, [Next]_vars PROVE IInv'
<1>1. CASE UNCHANGED vars
  BY <1>1 DEF vars, IInv, QueueInv, Reach, NoCall
<1>2. ASSUME NEW a \in Alarms, New(a) \/ Destroy(a) \/ Unset(a) \/ Return(a) PROVE IInv'
  BY <1>2, NewKeeps, DestroyKeeps, UnsetStepKeeps, ReturnKeeps
<1>3. ASSUME NEW a \in Alarms, NEW t \in Reach, Set(a, t) PROVE IInv'
  BY <1>3, SetStepKeeps
<1>4. ASSUME NEW n \in 1 .. Step, Execute(n) PROVE IInv'
  BY <1>4, ExecuteKeeps
<1>5. CASE EndInstruction
  BY <1>5 DEF EndInstruction, IInv, QueueInv, Reach, NoCall
<1>6. CASE Dispatch
  BY <1>6, DispatchKeeps
<1>7. ASSUME NEW n \in 1 .. Dma, Steal(n) PROVE IInv'
  BY <1>7, StealKeeps
<1>8. CASE PreventOverflow
  BY <1>8, PreventOverflowKeeps
<1> QED BY <1>1, <1>2, <1>3, <1>4, <1>5, <1>6, <1>7, <1>8 DEF Next

LEMMA Inductive == ASSUME Raster \in Alarms PROVE Spec => []IInv
<1>1. Init => IInv
  BY InitIInv
<1>2. IInv /\ [Next]_vars => IInv'
  BY NextKeeps
<1> QED BY <1>1, <1>2, PTL DEF Spec

(* Every variable keeps its C type; in particular no index leaves the array
   and no clock leaves the width of CLOCK (alarm.h:60, types.h:44). *)
THEOREM TypeCorrect == ASSUME Raster \in Alarms PROVE Spec => []TypeOK
<1>1. IInv => TypeOK
  BY DEF IInv, QueueInv, QueueOK, TypeOK
<1> QED BY <1>1, Inductive, PTL

(* alarm_unset's swap and alarm_set's append keep pending_idx and the array
   inverse to each other, and no destroyed alarm stays in the array. *)
THEOREM IndexCorrect == ASSUME Raster \in Alarms PROVE Spec => []IndexConsistent
<1>1. IInv => IndexConsistent
  BY DEF IInv, QueueInv, QueueOK, IndexConsistent
<1> QED BY <1>1, Inductive, PTL

(* What the CPU loop compares its clock with is the least pending deadline,
   through any sequence of sets, unsets, callbacks and clock warps. *)
THEOREM NextCorrect == ASSUME Raster \in Alarms PROVE Spec => []NextIsEarliest
<1>1. IInv => NextIsEarliest
  BY DEF IInv, QueueInv, QueueOK, NextIsEarliest
<1> QED BY <1>1, Inductive, PTL

(* The warp carries no deadline across the counter's overflow. *)
THEOREM ReachCorrect == ASSUME Raster \in Alarms PROVE Spec => []DeadlinesInReach
<1>1. IInv => DeadlinesInReach
  BY DEF IInv, QueueInv, DeadlinesInReach
<1> QED BY <1>1, Inductive, PTL

(* No alarm_set is lost to a full array when the array is as large as the
   number of alarms: each live slot holds another alarm (alarm.h:149). *)
THEOREM RoomCorrect ==
    ASSUME Raster \in Alarms, IsFiniteSet(Alarms), Cardinality(Alarms) <= MaxPending
    PROVE  Spec => []RoomForEveryAlarm
<1>1. IInv => RoomForEveryAlarm
  <2> SUFFICES ASSUME IInv, NEW a \in Alarms, ~IsPending(q, a) PROVE q.num < MaxPending
    BY DEF RoomForEveryAlarm
  <2> DEFINE S == 0 .. q.num - 1
             T == Alarms \ {a}
             f == [i \in S |-> q.slot[i].alarm]
  <2>1. QueueType(q) /\ QueueLinked(q) /\ q.num \in Nat
    BY QueueFields DEF IInv, QueueInv, QueueOK
  <2>2. \A i \in S : q.slot[i].alarm \in T /\ q.idx[q.slot[i].alarm] = i
    BY <2>1, QueueFields DEF QueueLinked, Slots, IsPending, NotPending
  <2>3. f \in [S -> T] /\ \A i, j \in S : f[i] = f[j] => i = j
    BY <2>2
  <2>4. IsFiniteSet(T) /\ Cardinality(T) = Cardinality(Alarms) - 1
    BY FS_RemoveElement
  <2>5. IsFiniteSet(S) /\ Cardinality(S) = q.num
    <3> DEFINE m == q.num - 1
    <3>1. m \in Int /\ 0 \in Int /\ q.num = m + 1 /\ m >= -1
      BY <2>1
    <3> HIDE DEF m
    <3>2. IsFiniteSet(0 .. m) /\ Cardinality(0 .. m) = IF 0 > m THEN 0 ELSE m - 0 + 1
      BY <3>1, FS_Interval
    <3>3. Cardinality(0 .. m) = q.num
      BY <3>1, <3>2
    <3> QED BY <3>2, <3>3 DEF m
  <2> HIDE DEF S, T, f
  <2>6. ~(Cardinality(T) < Cardinality(S))
    BY <2>3, <2>4, <2>5, FS_PigeonHole
  <2> QED BY <2>1, <2>4, <2>5, <2>6, FS_CardinalityType, QueueAssumption
<1> QED BY <1>1, Inductive, PTL
-----------------------------------------------------------------------------
(* The refinement: what each step of the context is for a chip. *)
Pending == {a \in Alarms : IsPending(q, a)}

LEMMA CyclesLeftOf ==
    /\ DOMAIN CyclesLeft = Pending
    /\ \A a \in Pending : CyclesLeft[a] = Deadline(q, a) - clk
BY DEF CyclesLeft, Pending

(* Setting one alarm and keeping the others is Arm. *)
LEMMA ArmStep ==
    ASSUME NEW a \in Alarms, NEW t, OthersKept(q, q', a), UNCHANGED clk,
           IsPending(q', a), Deadline(q', a) = t
    PROVE  Timers!Arm(a, t - clk)
<1>1. Pending' = Pending \cup {a}
  BY DEF Pending, OthersKept
<1>2. CyclesLeft' = [b \in Pending' |-> Deadline(q', b) - clk']
  BY DEF CyclesLeft, Pending
<1>3. \A b \in Pending' : Deadline(q', b) - clk' = IF b = a THEN t - clk ELSE CyclesLeft[b]
  BY <1>1, CyclesLeftOf DEF Pending, OthersKept
<1>4. CyclesLeft' = [b \in Pending \cup {a} |-> IF b = a THEN t - clk ELSE CyclesLeft[b]]
  BY <1>1, <1>2, <1>3
<1> QED BY <1>4, CyclesLeftOf DEF Timers!Arm, Timers!Armed

(* Withdrawing one alarm and keeping the others is Disarm. *)
LEMMA DisarmStep ==
    ASSUME NEW a \in Alarms, OthersKept(q, q', a), UNCHANGED clk, ~IsPending(q', a)
    PROVE  Timers!Disarm(a)
<1>1. Pending' = Pending \ {a}
  BY DEF Pending, OthersKept
<1>2. CyclesLeft' = [b \in Pending' |-> Deadline(q', b) - clk']
  BY DEF CyclesLeft, Pending
<1>3. \A b \in Pending' : Deadline(q', b) - clk' = CyclesLeft[b]
  BY <1>1, CyclesLeftOf DEF Pending, OthersKept
<1>4. CyclesLeft' = [b \in Pending \ {a} |-> CyclesLeft[b]]
  BY <1>1, <1>2, <1>3
<1> QED BY <1>4, CyclesLeftOf DEF Timers!Disarm, Timers!Armed

(* A step that changes neither the deadlines, the clock nor the callback. *)
LEMMA SameView ==
    ASSUME q' = q, UNCHANGED <<clk, running>>
    PROVE  CyclesLeft' = CyclesLeft /\ Firing' = Firing
BY DEF CyclesLeft, Firing, NoCall

(* alarm_set is Arm, or nothing when the array is full. *)
LEMMA SetIsArm ==
    ASSUME IInv, Raster \in Alarms, NEW a \in created, NEW t \in Reach,
           q' = AlarmSet(q, a, t), UNCHANGED clk
    PROVE  \/ Timers!Arm(a, t - clk)
           \/ q' = q /\ ~IsPending(q, a)
<1>1. t \in Clock /\ t < ClkMax /\ a \in Alarms /\ QueueOK(q)
  BY ReachBelowMax DEF IInv, QueueInv
<1>2. CASE IsPending(q, a) \/ q.num < MaxPending
  BY <1>1, <1>2, AlarmSetCorrect, ArmStep
<1>3. CASE ~(IsPending(q, a) \/ q.num < MaxPending)
  BY <1>1, <1>3, AlarmSetFull DEF QueueOK
<1> QED BY <1>2, <1>3

LEMMA UnsetIsDisarm ==
    ASSUME IInv, NEW a \in Alarms, q' = AlarmUnset(q, a), UNCHANGED clk
    PROVE  Timers!Disarm(a)
BY AlarmUnsetCorrect, DisarmStep DEF IInv, QueueInv

LEMMA InitRefines == ASSUME Raster \in Alarms PROVE Init => Timers!TInit
<1> SUFFICES ASSUME Init PROVE Timers!TInit
  OBVIOUS
<1>1. IInv /\ running = NoCall
  BY InitIInv, Constants DEF Init
<1>2. Pending \subseteq Alarms /\ \A a \in Pending : Deadline(q, a) - clk \in -(Lag + Dma) .. Ahead + Step + Dma
  BY <1>1, Constants DEF Pending, IInv, QueueInv, Reach, Clock
<1>3. CyclesLeft \in [Pending -> -(Lag + Dma) .. Ahead + Step + Dma]
  BY <1>2 DEF CyclesLeft, Pending
<1>4. Firing = Timers!NoCall
  BY <1>1 DEF Firing, Timers!NoCall, NoCall
<1> QED BY <1>2, <1>3, <1>4, CyclesLeftOf DEF Timers!TInit, Timers!Armed

(* The instruction lets time pass, and nothing was due. *)
LEMMA ExecuteIsElapse ==
    ASSUME IInv, NEW n \in 1 .. Step, Execute(n)
    PROVE  Timers!Elapse(n) /\ n \in -(Lag + Dma) .. Ahead + Step + Dma /\ n > 0
<1>1. /\ clk \in Nat /\ n \in Nat /\ n > 0 /\ n <= Step /\ clk < MaxValue
      /\ clk < q.nextClk /\ clk' = ClockAdd(clk, n) /\ q' = q /\ running = NoCall
      /\ running' = running
  BY Constants DEF IInv, Execute, Clock
<1>2. clk + n \in Clock
  BY <1>1, Constants DEF Clock
<1>3. clk' = clk + n
  BY <1>1, <1>2, NoWrap DEF ClockAdd
<1>4. ASSUME NEW a \in Pending
      PROVE  /\ Deadline(q, a) \in Nat /\ Deadline(q, a) - clk > 0
             /\ Deadline(q, a) - clk' = CyclesLeft[a] - n
  <2>1. IsPending(q, a) /\ a \in Alarms /\ QueueType(q) /\ QueueLinked(q) /\ QueueNext(q)
    BY DEF Pending, IInv, QueueInv, QueueOK
  <2>2. q.idx[a] \in 0 .. q.num - 1 /\ q.num > 0 /\ q.num \in Nat /\ Deadline(q, a) \in Clock
    BY <2>1, PendingSlot, QueueFields
  <2>3. q.nextClk <= Deadline(q, a)
    BY <2>1, <2>2, NextOfNonempty DEF Deadline
  <2>4. Deadline(q, a) \in Nat /\ q.nextClk \in Nat
    BY <2>1, <2>2, QueueFields, Constants DEF Clock
  <2> QED BY <1>1, <1>3, <2>3, <2>4, CyclesLeftOf
<1>5. CyclesLeft' = [a \in Pending |-> Deadline(q, a) - clk']
  BY <1>1 DEF CyclesLeft, Pending
<1>6. CyclesLeft' = [a \in Pending |-> CyclesLeft[a] - n]
  BY <1>4, <1>5
<1>7. \A a \in Pending : CyclesLeft[a] > 0
  BY <1>4, CyclesLeftOf
<1>8. Firing = Timers!NoCall /\ Firing' = Firing
  BY <1>1 DEF Firing, Timers!NoCall, NoCall
<1>9. n \in -(Lag + Dma) .. Ahead + Step + Dma
  BY <1>1, Constants
<1> QED BY <1>1, <1>6, <1>7, <1>8, <1>9, CyclesLeftOf DEF Timers!Elapse, Timers!Armed

(* Stolen cycles pass for every alarm, the one that is called included. *)
LEMMA StealIsSteal ==
    ASSUME IInv, NEW n \in 1 .. Dma, Steal(n)
    PROVE  Timers!Steal(n) /\ n \in -(Lag + Dma) .. Ahead + Step + Dma /\ n > 0
<1>1. /\ running # NoCall /\ running.alarm = Fetch /\ q' = q /\ running' = running
      /\ clk \in Int /\ n \in Int /\ n > 0 /\ n <= Dma /\ clk' = clk + n /\ running.due \in Int
  BY StealReaches, Constants DEF IInv, Steal, Clock
<1>2. \A a \in Pending : Deadline(q, a) \in Int /\ CyclesLeft[a] = Deadline(q, a) - clk
  <2>1. \A a \in Pending : Deadline(q, a) \in Reach
    BY DEF Pending, IInv, QueueInv
  <2>2. \A t \in Reach : t \in Int
    BY Constants DEF Reach, Clock
  <2> QED BY <2>1, <2>2, CyclesLeftOf
<1>3. CyclesLeft' = [a \in Pending |-> Deadline(q, a) - clk']
  BY <1>1 DEF CyclesLeft, Pending
<1>4. CyclesLeft' = [a \in Pending |-> CyclesLeft[a] - n]
  BY <1>1, <1>2, <1>3
<1>5. /\ Firing = [alarm |-> running.alarm, late |-> clk - running.due]
      /\ Firing' = [alarm |-> running.alarm, late |-> (clk - running.due) + n]
  BY <1>1 DEF Firing, NoCall
<1>6. Firing # Timers!NoCall
  BY <1>1, <1>5, Constants DEF IInv, Timers!NoCall
<1>7. n \in -(Lag + Dma) .. Ahead + Step + Dma
  BY <1>1, Constants
<1> QED BY <1>1, <1>4, <1>5, <1>6, <1>7, CyclesLeftOf DEF Timers!Steal, Timers!Armed

(* The dispatch calls the most overdue alarm with the right offset. *)
LEMMA DispatchIsFire ==
    ASSUME IInv, Raster \in Alarms, Dispatch
    PROVE  \E a \in Alarms : Timers!Fire(a)
<1>1. QueueType(q) /\ QueueLinked(q) /\ QueueNext(q) /\ IsPending(q, Raster)
  BY DEF IInv, QueueInv, QueueOK
<1>2. q.num > 0 /\ q.num \in Nat
  BY <1>1, PendingSlot, QueueFields
<1>3. /\ q.nextIdx \in 0 .. q.num - 1 /\ q.nextClk = q.slot[q.nextIdx].clk
      /\ \A j \in 0 .. q.num - 1 : q.nextClk <= q.slot[j].clk
  BY <1>1, <1>2, NextOfNonempty
<1> DEFINE a == q.slot[q.nextIdx].alarm
<1>4. a \in Alarms /\ q.idx[a] = q.nextIdx /\ IsPending(q, a)
  BY <1>1, <1>3, QueueFields DEF QueueLinked, Slots, IsPending, NotPending
<1>5. running' = [alarm |-> a, due |-> q.nextClk] /\ clk >= q.nextClk
      /\ running = NoCall /\ UNCHANGED <<clk, q>>
  BY <1>3 DEF Dispatch, Slots
<1>6. clk \in Int /\ q.nextClk \in Int
  BY <1>1, QueueFields, Constants DEF IInv, Clock
<1> HIDE DEF a
<1>7. a \in Pending /\ CyclesLeft[a] = q.nextClk - clk
  BY <1>3, <1>4, CyclesLeftOf DEF Pending, Deadline
<1>8. \A b \in Pending : CyclesLeft[a] <= CyclesLeft[b]
  <2> SUFFICES ASSUME NEW b \in Pending PROVE CyclesLeft[a] <= CyclesLeft[b]
    OBVIOUS
  <2>1. b \in Alarms /\ IsPending(q, b) /\ q.idx[b] \in 0 .. q.num - 1 /\ Deadline(q, b) \in Clock
    BY <1>1, PendingSlot DEF Pending
  <2>2. q.nextClk <= Deadline(q, b) /\ Deadline(q, b) \in Int
    BY <1>3, <2>1, Constants DEF Deadline, Clock
  <2> QED BY <1>6, <1>7, <2>2, CyclesLeftOf
<1>9. Firing = Timers!NoCall
  BY <1>5 DEF Firing, Timers!NoCall, NoCall
<1>10. running' # NoCall
  BY <1>4, <1>5, Constants DEF NoCall
<1>11. Firing' = [alarm |-> a, late |-> clk - q.nextClk]
  BY <1>5, <1>10 DEF Firing, NoCall
<1>12. clk - q.nextClk = -CyclesLeft[a] /\ CyclesLeft[a] <= 0
  BY <1>5, <1>6, <1>7
<1>13. CyclesLeft' = CyclesLeft
  BY <1>5 DEF CyclesLeft
<1> QED BY <1>4, <1>7, <1>8, <1>9, <1>11, <1>12, <1>13, CyclesLeftOf
        DEF Timers!Fire, Timers!Armed

LEMMA ReturnIsFinish ==
    ASSUME IInv, Raster \in Alarms, NEW a \in Alarms, Return(a)
    PROVE  Timers!Finish(a)
<1>1. /\ a \in created /\ running # NoCall /\ running.alarm = a
      /\ running.due \in Int /\ clk \in Int /\ running' = NoCall /\ UNCHANGED clk
      /\ stolen \in 0 .. Dma
  BY Constants DEF Return, IInv, NoCall, Clock
<1>2. Firing.alarm = a /\ Firing.late = clk - running.due
  BY <1>1 DEF Firing
<1>3. Firing' = Timers!NoCall
  BY <1>1 DEF Firing, Timers!NoCall, NoCall
<1>4. CASE q' = AlarmUnset(q, a)
  BY <1>1, <1>2, <1>3, <1>4, UnsetIsDisarm DEF Timers!Finish
<1>5. ASSUME NEW t \in Reach, t > running.due, q' = AlarmSet(q, a, t)
      PROVE  Timers!Finish(a)
  <2>1. t \in Int /\ t - clk \in -(Lag + Dma) .. Ahead + Step + Dma /\ t - clk > -(clk - running.due)
    BY <1>1, <1>5, Constants DEF Reach, Clock
  <2>2. CASE Timers!Arm(a, t - clk)
    BY <1>2, <1>3, <2>1, <2>2 DEF Timers!Finish
  <2>3. CASE q' = q /\ ~IsPending(q, a)
    <3>1. Timers!Disarm(a)
      BY <1>1, <2>3, DisarmStep DEF OthersKept
    <3> QED BY <1>2, <1>3, <3>1 DEF Timers!Finish
  <2> QED BY <1>1, <1>5, <2>2, <2>3, SetIsArm
<1> QED BY <1>4, <1>5 DEF Return

(* Nobody can tell that the clock was warped. *)
LEMMA WarpIsInvisible ==
    ASSUME IInv, Raster \in Alarms, PreventOverflow
    PROVE  CyclesLeft' = CyclesLeft /\ Firing' = Firing
<1>1. /\ clk \in Nat /\ clk >= MaxValue /\ clk' = ClockSub(clk, Sub) /\ q' = TimeWarp(q, Sub)
  BY Constants DEF IInv, PreventOverflow, Clock
<1>2. \A x \in Clock : Sub <= x => ClockSub(x, Sub) = x - Sub
  BY NoWrap, Constants DEF ClockSub, Clock
<1>3. clk' = clk - Sub
  BY <1>1, <1>2, Constants DEF IInv
<1>4. \A t \in Reach : Sub <= t /\ t \in Clock /\ t \in Int
  BY <1>1, Constants DEF Reach, Clock, IInv
<1>5. QueueOK(q) /\ q.num > 0
  BY PendingSlot DEF IInv, QueueInv, QueueOK
<1>6. \A a \in Pending : Sub <= Deadline(q, a) /\ Deadline(q, a) \in Int
  BY <1>4 DEF IInv, QueueInv, Pending
<1>7. /\ q'.idx = q.idx
      /\ \A a \in Pending : Deadline(q', a) = Deadline(q, a) - Sub
  BY <1>1, <1>5, <1>6, TimeWarpCorrect, Constants DEF Pending
<1>8. Pending' = Pending
  BY <1>7 DEF Pending, IsPending
<1>9. CyclesLeft' = [a \in Pending' |-> Deadline(q', a) - clk']
  BY DEF CyclesLeft, Pending
<1>10. \A a \in Pending : Deadline(q', a) - clk' = Deadline(q, a) - clk
  BY <1>1, <1>3, <1>6, <1>7, Constants
<1>11. CyclesLeft' = CyclesLeft
  BY <1>8, <1>9, <1>10 DEF CyclesLeft, Pending
<1>12. CASE running = NoCall
  BY <1>11, <1>12 DEF PreventOverflow, Firing, NoCall
<1>13. CASE running # NoCall
  <2>1. /\ running' = [running EXCEPT !.due = ClockSub(running.due, Sub)]
        /\ running.due \in Reach
    BY <1>13 DEF IInv, PreventOverflow
  <2>2. ClockSub(running.due, Sub) = running.due - Sub /\ running.due \in Int
    BY <1>2, <1>4, <2>1
  <2>3. running'.alarm = running.alarm /\ running'.due = running.due - Sub
    BY <2>1, <2>2 DEF IInv
  <2>4. running' # NoCall
    BY <1>13, <2>3 DEF IInv, NoCall
  <2>5. clk' - running'.due = clk - running.due
    BY <1>1, <1>3, <2>2, <2>3, Constants
  <2> QED BY <1>11, <1>13, <2>3, <2>4, <2>5 DEF Firing, NoCall
<1> QED BY <1>12, <1>13

LEMMA StepRefines ==
    ASSUME IInv, Raster \in Alarms, [Next]_vars
    PROVE  [Timers!TNext]_(Timers!tvars)
<1>1. CASE UNCHANGED vars
  BY <1>1, SameView DEF vars, Timers!tvars
<1>2. ASSUME NEW a \in Alarms, New(a) PROVE UNCHANGED Timers!tvars
  <2>1. QueueType(q) /\ q.idx[a] = NotPending
    BY <1>2 DEF IInv, QueueInv, New, QueueOK, IsPending
  <2>2. q' = q
    BY <1>2, <2>1, QueueFields DEF New
  <2> QED BY <1>2, <2>2, SameView DEF New, Timers!tvars
<1>3. ASSUME NEW a \in Alarms, Destroy(a) \/ Unset(a) PROVE Timers!TNext
  <2>1. q' = AlarmUnset(q, a) /\ UNCHANGED <<clk, running>>
    BY <1>3 DEF Destroy, Unset
  <2>2. Timers!Disarm(a) /\ Firing' = Firing
    BY <2>1, UnsetIsDisarm DEF Firing, NoCall
  <2> QED BY <2>2 DEF Timers!TNext
<1>4. ASSUME NEW a \in Alarms, Return(a) PROVE Timers!TNext
  BY <1>4, ReturnIsFinish DEF Timers!TNext
<1>5. ASSUME NEW a \in Alarms, NEW t \in Reach, Set(a, t) PROVE [Timers!TNext]_(Timers!tvars)
  <2>1. a \in created /\ q' = AlarmSet(q, a, t) /\ UNCHANGED <<clk, running>>
    BY <1>5 DEF Set
  <2>2. CASE Timers!Arm(a, t - clk)
    <3>1. t - clk \in -(Lag + Dma) .. Ahead + Step + Dma
      BY Constants DEF Reach, Clock, IInv
    <3>2. Firing' = Firing
      BY <2>1 DEF Firing, NoCall
    <3> QED BY <2>2, <3>1, <3>2 DEF Timers!TNext
  <2>3. CASE q' = q
    BY <2>1, <2>3, SameView DEF Timers!tvars
  <2> QED BY <2>1, <2>2, <2>3, SetIsArm
<1>6. ASSUME NEW n \in 1 .. Step, Execute(n) PROVE Timers!TNext
  BY <1>6, ExecuteIsElapse DEF Timers!TNext
<1>7. CASE EndInstruction
  BY <1>7, SameView DEF EndInstruction, Timers!tvars
<1>8. CASE Dispatch
  BY <1>8, DispatchIsFire DEF Timers!TNext
<1>9. ASSUME NEW n \in 1 .. Dma, Steal(n) PROVE Timers!TNext
  BY <1>9, StealIsSteal DEF Timers!TNext
<1>10. CASE PreventOverflow
  BY <1>10, WarpIsInvisible DEF Timers!tvars
<1> QED BY <1>1, <1>2, <1>3, <1>4, <1>5, <1>6, <1>7, <1>8, <1>9, <1>10 DEF Next

(* The alarm context implements its promise: no instruction executes past a
   due alarm, the most overdue alarm is called first and with the offset the
   clock has on it, only cycles stolen in the fetch callback make others late,
   and the overflow guard is invisible. *)
THEOREM ContextImplementsTimers ==
    ASSUME Raster \in Alarms PROVE Spec => ImplementsTimers
<1>1. Init => Timers!TInit
  BY InitRefines
<1>2. IInv /\ [Next]_vars => [Timers!TNext]_(Timers!tvars)
  BY StepRefines
<1> QED BY <1>1, <1>2, Inductive, PTL DEF Spec, ImplementsTimers, Timers!TSpec
=============================================================================
