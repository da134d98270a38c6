----------------------------- MODULE AlarmTimers ------------------------------
(***************************************************************************)
(* What an alarm context promises to the chips that use it, with no array, *)
(* no index, no cached minimum and no clock counter: every armed alarm has *)
(* a number of cycles left, the CPU does not run past an alarm that is     *)
(* due, only the callback that steals cycles makes the others late, and of *)
(* the alarms that are due the most overdue one is called first.           *)
(***************************************************************************)
EXTENDS Integers

CONSTANTS Alarms,
          NoAlarm,   \* not an alarm: no callback is running
          Fetch,     \* the alarm whose callback steals cycles, or NoAlarm
          Span       \* the numbers of cycles an alarm may be set ahead by

VARIABLES left,    \* cycles left of every armed alarm, its domain the armed ones
          firing   \* NoCall, or the alarm whose callback runs and how late it is

NoCall == [alarm |-> NoAlarm, late |-> 0]
tvars  == <<left, firing>>

Armed == DOMAIN left

TInit == Armed \subseteq Alarms /\ left \in [Armed -> Span] /\ firing = NoCall

Arm(a, n)  == left' = [b \in Armed \cup {a} |-> IF b = a THEN n ELSE left[b]]
Disarm(a)  == left' = [b \in Armed \ {a} |-> left[b]]

(* The CPU runs between callbacks and only when nothing is due. *)
Elapse(n) == /\ firing = NoCall
             /\ \A a \in Armed : left[a] > 0
             /\ left' = [a \in Armed |-> left[a] - n]
             /\ UNCHANGED firing

(* Cycles stolen in a callback pass for every alarm, and make the callback as
   much later than the deadline it was called for. *)
Steal(n) == /\ firing # NoCall /\ firing.alarm = Fetch
            /\ left' = [a \in Armed |-> left[a] - n]
            /\ firing' = [firing EXCEPT !.late = @ + n]

(* The alarm that is called is due and none is due before it. *)
Fire(a) == /\ firing = NoCall
           /\ a \in Armed /\ left[a] <= 0
           /\ \A b \in Armed : left[a] <= left[b]
           /\ firing' = [alarm |-> a, late |-> -left[a]]
           /\ UNCHANGED left

(* A callback leaves its alarm off or armed for later than the call. *)
Finish(a) == /\ firing.alarm = a
             /\ firing' = NoCall
             /\ \/ Disarm(a)
                \/ \E n \in Span : n > -firing.late /\ Arm(a, n)

TNext == \/ \E a \in Alarms, n \in Span : Arm(a, n) /\ UNCHANGED firing
         \/ \E a \in Alarms : Disarm(a) /\ UNCHANGED firing
         \/ \E n \in Span : n > 0 /\ (Elapse(n) \/ Steal(n))
         \/ \E a \in Alarms : Fire(a) \/ Finish(a)

TSpec == TInit /\ [][TNext]_tvars
=============================================================================
