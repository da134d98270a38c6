------------------------------ MODULE AlarmQueue ------------------------------
(***************************************************************************)
(* The pending-alarm array of an alarm context (alarm.h, alarm.c) as a     *)
(* value, and the operations on it as operators.                           *)
(*                                                                         *)
(* A context value q is a record:                                          *)
(*   num      num_pending_alarms                                           *)
(*   slot     pending_alarms[0 .. num-1], the live part of the array       *)
(*   idx      pending_idx of every alarm, NotPending when it has none      *)
(*   nextClk  next_pending_alarm_clk                                       *)
(*   nextIdx  next_pending_alarm_idx                                       *)
(***************************************************************************)
EXTENDS Integers

CONSTANTS Alarms,       \* the alarm_t objects that can exist in the context
          MaxPending,   \* ALARM_CONTEXT_MAX_PENDING_ALARMS
          ClkMax        \* CLOCK_MAX: CLOCK is an unsigned integer 0..ClkMax

ASSUME QueueAssumption == MaxPending \in Nat \ {0} /\ ClkMax \in Nat

Clock      == 0 .. ClkMax
NotPending == -1

(* Arithmetic on CLOCK values is unsigned and wraps. *)
ClockAdd(x, y) == (x + y) % (ClkMax + 1)
ClockSub(x, y) == (x - y) % (ClkMax + 1)

Slots(q) == 0 .. q.num - 1

(* The pending_alarms that alarm_context_update_next_pending may select. *)
Earliest(q) == {i \in Slots(q) : \A j \in Slots(q) : q.slot[i].clk <= q.slot[j].clk}

IsPending(q, a) == q.idx[a] # NotPending

Deadline(q, a) == q.slot[q.idx[a]].clk

EmptyQueue == [num |-> 0, slot |-> [i \in 0 .. -1 |-> 0],
               idx |-> [a \in Alarms |-> NotPending],
               nextClk |-> ClkMax, nextIdx |-> NotPending]

(* The scan ends on the last of them: its test is <=. *)
LastEarliest(q) == CHOOSE i \in Earliest(q) : \A j \in Earliest(q) : j <= i

(* Mutated form: the index is counted from one. *)
UpdateNextFromOne(q) ==
    IF q.num = 0
    THEN [q EXCEPT !.nextClk = ClkMax]
    ELSE [q EXCEPT !.nextClk = q.slot[LastEarliest(q)].clk,
                   !.nextIdx = LastEarliest(q) + 1]

UpdateNext(q) ==
    IF q.num = 0
    THEN [q EXCEPT !.nextClk = ClkMax]
    ELSE [q EXCEPT !.nextClk = q.slot[LastEarliest(q)].clk,
                   !.nextIdx = LastEarliest(q)]

(* alarm_set of an alarm that is not pending; it only logs when full. *)
Insert(q, a, t) ==
    IF q.num >= MaxPending
    THEN q
    ELSE [num  |-> q.num + 1,
          slot |-> [i \in 0 .. q.num |-> IF i = q.num THEN [alarm |-> a, clk |-> t]
                                                      ELSE q.slot[i]],
          idx  |-> [q.idx EXCEPT ![a] = q.num],
          nextClk |-> IF t < q.nextClk THEN t ELSE q.nextClk,
          nextIdx |-> IF t < q.nextClk THEN q.num ELSE q.nextIdx]

(* alarm_set of an alarm that is already pending. *)
Modify(q, a, t) ==
    LET i == q.idx[a]
        p == [q EXCEPT !.slot[i].clk = t]
    IN  IF q.nextClk > t \/ i = q.nextIdx THEN UpdateNext(p) ELSE p

AlarmSet(q, a, t) == IF IsPending(q, a) THEN Modify(q, a, t) ELSE Insert(q, a, t)

(* Mutated form: the entry is overwritten and the count is kept. *)
SwapRemoveLeak(q, i) ==
    LET last == q.num - 1
    IN  [q EXCEPT !.slot[i] = q.slot[last],
                  !.idx = [b \in Alarms |-> IF b = q.slot[i].alarm THEN NotPending
                                             ELSE IF b = q.slot[last].alarm THEN i
                                             ELSE q.idx[b]]]

(* Mutated form: the alarm that moves keeps its old pending_idx. *)
SwapRemoveStale(q, i) ==
    LET last == q.num - 1
    IN  [q EXCEPT !.num  = last,
                  !.slot = [j \in 0 .. last - 1 |-> IF j = i THEN q.slot[last] ELSE q.slot[j]],
                  !.idx[q.slot[i].alarm] = NotPending]

(* The array after slot i is given up: the last entry moves into it. *)
SwapRemove(q, i) ==
    LET last == q.num - 1
    IN  [q EXCEPT !.num  = last,
                  !.slot = [j \in 0 .. last - 1 |-> IF j = i THEN q.slot[last] ELSE q.slot[j]],
                  !.idx  = [b \in Alarms |-> IF b = q.slot[i].alarm THEN NotPending
                                             ELSE IF b = q.slot[last].alarm THEN i
                                             ELSE q.idx[b]]]

(* Mutated form: the next alarm may be the one that moves, and is not followed. *)
AlarmUnsetLosesNext(q, a) ==
    LET i == q.idx[a]
        p == SwapRemove(q, i)
    IN  IF ~IsPending(q, a) THEN q
        ELSE IF q.num > 1
        THEN IF q.nextIdx = i THEN UpdateNext(p) ELSE p
        ELSE [p EXCEPT !.nextClk = ClkMax, !.nextIdx = NotPending]

AlarmUnset(q, a) ==
    LET i == q.idx[a]
        p == SwapRemove(q, i)
    IN  IF ~IsPending(q, a) THEN q
        ELSE IF q.num > 1
        THEN IF q.nextIdx = i THEN UpdateNext(p)
             ELSE IF q.nextIdx = q.num - 1 THEN [p EXCEPT !.nextIdx = i]
             ELSE p
        ELSE [p EXCEPT !.nextClk = ClkMax, !.nextIdx = NotPending]

(* Mutated form: only the cached clock is warped. *)
TimeWarpNextOnly(q, sub) == [q EXCEPT !.nextClk = ClockSub(@, sub)]

(* alarm_context_time_warp with warp_direction < 0, the only one in use. *)
TimeWarp(q, sub) ==
    [q EXCEPT !.slot    = [i \in Slots(q) |-> [q.slot[i] EXCEPT !.clk = ClockSub(@, sub)]],
              !.nextClk = ClockSub(@, sub)]
-----------------------------------------------------------------------------
(* The C types of the fields. *)
QueueType(q) ==
    q \in [num : 0 .. MaxPending, slot : [Slots(q) -> [alarm : Alarms, clk : Clock]],
           idx : [Alarms -> NotPending .. MaxPending - 1],
           nextClk : Clock, nextIdx : NotPending .. MaxPending - 1]

(* pending_idx of the alarms and alarm of the live slots are inverse. *)
QueueLinked(q) ==
    /\ \A i \in Slots(q) : q.idx[q.slot[i].alarm] = i
    /\ \A a \in Alarms : IsPending(q, a) => /\ q.idx[a] \in Slots(q)
                                            /\ q.slot[q.idx[a]].alarm = a

(* The cached minimum is the minimum, CLOCK_MAX when nothing is pending. *)
QueueNext(q) ==
    IF q.num = 0 THEN q.nextClk = ClkMax
    ELSE q.nextIdx \in Earliest(q) /\ q.nextClk = q.slot[q.nextIdx].clk
=============================================================================
