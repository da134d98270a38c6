---------------------------- MODULE AlarmQueueProofs ---------------------------
(***************************************************************************)
(* What the operations on the pending-alarm array preserve and what they   *)
(* do to the set of pending alarms and their deadlines, for every queue.   *)
(***************************************************************************)
EXTENDS AlarmQueue, TLAPS, NaturalsInduction, WellFoundedInduction

QueueOK(q) == QueueType(q) /\ QueueLinked(q) /\ QueueNext(q)

(* A nonempty set of naturals has a least element. *)
LEMMA LeastNat ==
    ASSUME NEW S \in SUBSET Nat, S # {}
    PROVE  \E m \in S : \A x \in S : m <= x
<1>1. PICK m \in S : \A x \in S : <<x, m>> \notin OpToRel(<, Nat)
  BY WFMin, NatLessThanWellFounded, Zenon
<1>2. \A x \in S : ~(x < m)
  BY <1>1, Zenon DEF OpToRel
<1> QED BY <1>2

(* A nonempty set of naturals below n has a greatest element. *)
LEMMA GreatestBelow ==
    ASSUME NEW n \in Nat, NEW S \in SUBSET (0 .. n - 1), S # {}
    PROVE  \E m \in S : \A x \in S : x <= m
<1> DEFINE T == {n - x : x \in S}
<1>1. \A x \in S : n - x \in Nat
  OBVIOUS
<1>2. T \in SUBSET Nat /\ T # {}
  BY <1>1
<1>3. PICK k \in T : \A y \in T : k <= y
  BY <1>2, LeastNat
<1>4. PICK m \in S : k = n - m
  BY <1>3
<1>5. \A x \in S : n - m <= n - x
  BY <1>3, <1>4
<1> QED BY <1>5

(* What the type says of each field. *)
LEMMA QueueFields ==
    ASSUME NEW q, QueueType(q)
    PROVE  /\ q = [num |-> q.num, slot |-> q.slot, idx |-> q.idx,
                   nextClk |-> q.nextClk, nextIdx |-> q.nextIdx]
           /\ q.num \in 0 .. MaxPending /\ q.num \in Nat /\ q.num <= MaxPending
           /\ q.slot \in [0 .. q.num - 1 -> [alarm : Alarms, clk : Clock]]
           /\ \A i \in 0 .. q.num - 1 : q.slot[i].alarm \in Alarms /\ q.slot[i].clk \in Clock
           /\ q.idx \in [Alarms -> -1 .. MaxPending - 1]
           /\ q.nextClk \in Clock /\ q.nextIdx \in -1 .. MaxPending - 1
<1>1. /\ q = [num |-> q.num, slot |-> q.slot, idx |-> q.idx,
              nextClk |-> q.nextClk, nextIdx |-> q.nextIdx]
      /\ q.num \in 0 .. MaxPending
      /\ q.slot \in [0 .. q.num - 1 -> [alarm : Alarms, clk : Clock]]
      /\ q.idx \in [Alarms -> -1 .. MaxPending - 1]
      /\ q.nextClk \in Clock
      /\ q.nextIdx \in -1 .. MaxPending - 1
  BY DEF QueueType, NotPending, Slots
<1> QED BY <1>1, QueueAssumption

(* A record with fields of these types is a queue. *)
LEMMA QueueFromFields ==
    ASSUME NEW q,
           q = [num |-> q.num, slot |-> q.slot, idx |-> q.idx,
                nextClk |-> q.nextClk, nextIdx |-> q.nextIdx],
           q.num \in 0 .. MaxPending,
           q.slot \in [0 .. q.num - 1 -> [alarm : Alarms, clk : Clock]],
           q.idx \in [Alarms -> -1 .. MaxPending - 1],
           q.nextClk \in Clock, q.nextIdx \in -1 .. MaxPending - 1
    PROVE  QueueType(q)
BY DEF QueueType, Slots, NotPending

(* What the cached minimum of a queue that is not empty says, both ways. *)
LEMMA NextOfNonempty ==
    ASSUME NEW q, q.num \in Nat, q.num > 0
    PROVE  QueueNext(q) <=> /\ q.nextIdx \in 0 .. q.num - 1
                            /\ q.nextClk = q.slot[q.nextIdx].clk
                            /\ \A j \in 0 .. q.num - 1 : q.nextClk <= q.slot[j].clk
<1>1. q.num # 0
  OBVIOUS
<1> QED BY <1>1 DEF QueueNext, Earliest, Slots

(* Some pending alarm is earliest. *)
LEMMA EarliestExists ==
    ASSUME NEW q, QueueType(q), q.num > 0
    PROVE  Earliest(q) # {}
<1> DEFINE Clks == {q.slot[i].clk : i \in Slots(q)}
<1>1. q.num \in Nat /\ \A i \in Slots(q) : q.slot[i].clk \in Nat
  BY QueueFields, QueueAssumption DEF Slots, Clock
<1>2. 0 \in Slots(q)
  BY <1>1 DEF Slots
<1>3. Clks \in SUBSET Nat /\ Clks # {}
  BY <1>1, <1>2
<1>4. PICK m \in Clks : \A x \in Clks : m <= x
  BY <1>3, LeastNat
<1>5. PICK i \in Slots(q) : m = q.slot[i].clk
  BY <1>4
<1>6. i \in Earliest(q)
  BY <1>4, <1>5 DEF Earliest
<1> QED BY <1>6

(* alarm_context_update_next_pending changes only the cached minimum, and
   makes it right. *)
LEMMA UpdateNextCorrect ==
    ASSUME NEW q, QueueType(q), QueueLinked(q)
    PROVE  /\ QueueOK(UpdateNext(q))
           /\ UpdateNext(q).num = q.num
           /\ UpdateNext(q).slot = q.slot
           /\ UpdateNext(q).idx = q.idx
<1> DEFINE p == UpdateNext(q)
<1>1. CASE q.num = 0
  <2>1. p = [q EXCEPT !.nextClk = ClkMax]
    BY <1>1 DEF UpdateNext
  <2>2. /\ p.num = q.num /\ p.slot = q.slot /\ p.idx = q.idx
        /\ p.nextClk = ClkMax /\ p.nextIdx = q.nextIdx
    BY <2>1 DEF QueueType
  <2>3. QueueType(p)
    BY <2>1, QueueAssumption DEF QueueType, Slots, Clock
  <2>4. QueueLinked(p) /\ QueueNext(p)
    BY <2>2, <1>1 DEF QueueLinked, QueueNext, Slots, IsPending
  <2> QED BY <2>2, <2>3, <2>4 DEF QueueOK
<1>2. CASE q.num # 0
  <2> DEFINE e == LastEarliest(q)
  <2>1. q.num \in Nat /\ q.num > 0 /\ q.num <= MaxPending
    BY <1>2, QueueFields
  <2>2. Earliest(q) \in SUBSET (0 .. q.num - 1) /\ Earliest(q) # {}
    BY <2>1, EarliestExists DEF Earliest, Slots
  <2>3. \E i \in Earliest(q) : \A j \in Earliest(q) : j <= i
    BY <2>1, <2>2, GreatestBelow
  <2>4. e \in Earliest(q)
    BY <2>3 DEF LastEarliest
  <2>6. p = [q EXCEPT !.nextClk = q.slot[e].clk, !.nextIdx = e]
    BY <1>2 DEF UpdateNext
  <2> HIDE DEF e
  <2>5. /\ e \in Slots(q) /\ e \in 0 .. MaxPending - 1
        /\ q.slot[e].clk \in Clock
    <3>1. e \in 0 .. q.num - 1
      BY <2>2, <2>4
    <3> QED BY <3>1, <2>1, QueueAssumption, QueueFields DEF Slots
  <2>7. /\ p.num = q.num /\ p.slot = q.slot /\ p.idx = q.idx
        /\ p.nextClk = q.slot[e].clk /\ p.nextIdx = e
    BY <2>6 DEF QueueType
  <2>8. QueueType(p)
    <3>1. p = [num |-> p.num, slot |-> p.slot, idx |-> p.idx,
               nextClk |-> p.nextClk, nextIdx |-> p.nextIdx]
      BY <2>6 DEF QueueType
    <3>2. /\ q.num \in 0 .. MaxPending
          /\ q.slot \in [0 .. q.num - 1 -> [alarm : Alarms, clk : Clock]]
          /\ q.idx \in [Alarms -> -1 .. MaxPending - 1]
          /\ q.slot[e].clk \in Clock /\ e \in -1 .. MaxPending - 1
      BY <2>5, QueueFields
    <3> QED BY <2>7, <3>1, <3>2, QueueFromFields
  <2>9. QueueLinked(p)
    BY <2>7 DEF QueueLinked, Slots, IsPending
  <2>10. QueueNext(p)
    BY <2>7, <2>4, <2>1 DEF QueueNext, Earliest, Slots
  <2> QED BY <2>7, <2>8, <2>9, <2>10 DEF QueueOK
<1> QED BY <1>1, <1>2
-----------------------------------------------------------------------------
(* Every alarm other than a has in p the deadline it has in q, or none. *)
OthersKept(q, p, a) ==
    \A b \in Alarms \ {a} : /\ IsPending(p, b) <=> IsPending(q, b)
                            /\ IsPending(q, b) => Deadline(p, b) = Deadline(q, b)

(* A pending alarm has a live slot of its own. *)
LEMMA PendingSlot ==
    ASSUME NEW q, QueueType(q), QueueLinked(q), NEW a \in Alarms, IsPending(q, a)
    PROVE  /\ q.idx[a] \in 0 .. q.num - 1 /\ q.slot[q.idx[a]].alarm = a
           /\ Deadline(q, a) \in Clock /\ q.num > 0
BY QueueFields DEF QueueLinked, Deadline, Slots

(* alarm_set of an alarm that is not pending appends it and keeps the rest. *)
LEMMA InsertCorrect ==
    ASSUME NEW q, QueueOK(q), NEW a \in Alarms, ~IsPending(q, a),
           q.num < MaxPending, NEW t \in Clock, t < ClkMax
    PROVE  /\ QueueOK(Insert(q, a, t))
           /\ IsPending(Insert(q, a, t), a) /\ Deadline(Insert(q, a, t), a) = t
           /\ OthersKept(q, Insert(q, a, t), a)
<1> DEFINE p == Insert(q, a, t)
           n == q.num
<1>1. /\ n \in Nat /\ n + 1 \in 0 .. MaxPending /\ n \in 0 .. MaxPending - 1
      /\ QueueType(q) /\ QueueLinked(q) /\ QueueNext(q)
  BY QueueFields, QueueAssumption DEF QueueOK
<1>0. p = [num  |-> n + 1,
           slot |-> [i \in 0 .. n |-> IF i = n THEN [alarm |-> a, clk |-> t] ELSE q.slot[i]],
           idx  |-> [q.idx EXCEPT ![a] = n],
           nextClk |-> IF t < q.nextClk THEN t ELSE q.nextClk,
           nextIdx |-> IF t < q.nextClk THEN n ELSE q.nextIdx]
  <2>1. ~(q.num >= MaxPending)
    BY <1>1, QueueAssumption
  <2> QED BY <2>1, Zenon DEF Insert
<1> HIDE DEF p
<1>2. /\ p.num = n + 1
      /\ p.slot = [i \in 0 .. n |-> IF i = n THEN [alarm |-> a, clk |-> t] ELSE q.slot[i]]
      /\ p.idx = [q.idx EXCEPT ![a] = n]
      /\ p.nextClk = IF t < q.nextClk THEN t ELSE q.nextClk
      /\ p.nextIdx = IF t < q.nextClk THEN n ELSE q.nextIdx
      /\ p = [num |-> p.num, slot |-> p.slot, idx |-> p.idx,
              nextClk |-> p.nextClk, nextIdx |-> p.nextIdx]
  BY <1>0
<1>3. /\ p.slot \in [0 .. p.num - 1 -> [alarm : Alarms, clk : Clock]]
      /\ p.idx \in [Alarms -> -1 .. MaxPending - 1]
      /\ p.nextClk \in Clock /\ p.nextIdx \in -1 .. MaxPending - 1
  <2>1. 0 .. p.num - 1 = 0 .. n
    BY <1>1, <1>2
  <2>2. \A i \in 0 .. n : i = n \/ i \in 0 .. n - 1
    BY <1>1
  <2>3. p.slot \in [0 .. n -> [alarm : Alarms, clk : Clock]]
    BY <1>1, <1>2, <2>2, QueueFields
  <2>4. p.idx \in [Alarms -> -1 .. MaxPending - 1]
    BY <1>1, <1>2, QueueFields, QueueAssumption
  <2>5. p.nextClk \in Clock /\ p.nextIdx \in -1 .. MaxPending - 1
    BY <1>1, <1>2, QueueFields, QueueAssumption
  <2> QED BY <2>1, <2>3, <2>4, <2>5
<1>4. QueueType(p)
  BY <1>1, <1>2, <1>3, QueueFromFields
<1>5. p.idx[a] = n /\ \A b \in Alarms \ {a} : p.idx[b] = q.idx[b]
  BY <1>1, <1>2, QueueFields
<1>6. p.slot[n] = [alarm |-> a, clk |-> t] /\ \A i \in 0 .. n - 1 : p.slot[i] = q.slot[i]
  BY <1>1, <1>2
<1>7. \A i \in 0 .. n - 1 : q.slot[i].alarm \in Alarms \ {a}
  BY <1>1, QueueFields DEF QueueLinked, Slots, IsPending, NotPending
<1>8. QueueLinked(p)
  <2>1. ASSUME NEW i \in Slots(p) PROVE p.idx[p.slot[i].alarm] = i
    BY <1>1, <1>2, <1>5, <1>6, <1>7 DEF QueueLinked, Slots
  <2>2. ASSUME NEW b \in Alarms, IsPending(p, b)
        PROVE  p.idx[b] \in Slots(p) /\ p.slot[p.idx[b]].alarm = b
    BY <1>1, <1>2, <1>5, <1>6, <2>2 DEF QueueLinked, Slots, IsPending
  <2> QED BY <2>1, <2>2 DEF QueueLinked
<1>9. QueueNext(p)
  <2>0. p.num \in Nat /\ p.num > 0 /\ 0 .. p.num - 1 = 0 .. n
    BY <1>1, <1>2
  <2>1. CASE t < q.nextClk
    <3>1. \A i \in 0 .. n - 1 : q.nextClk <= q.slot[i].clk
      <4>1. CASE n = 0
        BY <4>1
      <4>2. CASE n > 0
        BY <1>1, <4>2, NextOfNonempty
      <4> QED BY <1>1, <4>1, <4>2
    <3>2. \A i \in 0 .. n - 1 : q.slot[i].clk \in Nat
      BY <1>1, QueueFields, QueueAssumption DEF Clock
    <3>3. t \in Nat /\ q.nextClk \in Nat
      BY <1>1, QueueFields, QueueAssumption DEF Clock
    <3>4. \A j \in 0 .. n : p.slot[n].clk <= p.slot[j].clk
      BY <1>1, <1>6, <2>1, <3>1, <3>2, <3>3
    <3>5. p.nextClk = p.slot[n].clk /\ p.nextIdx = n /\ n \in 0 .. n
      BY <1>1, <1>2, <1>6, <2>1
    <3> QED BY <2>0, <3>4, <3>5, NextOfNonempty
  <2>2. CASE ~(t < q.nextClk)
    <3>1. t \in Nat /\ q.nextClk \in Nat /\ ClkMax \in Nat
      BY <1>1, QueueFields, QueueAssumption DEF Clock
    <3>2. n > 0
      BY <1>1, <2>2, <3>1 DEF QueueNext
    <3>3. /\ q.nextIdx \in 0 .. n - 1 /\ q.nextClk = q.slot[q.nextIdx].clk
          /\ \A j \in 0 .. n - 1 : q.nextClk <= q.slot[j].clk
      BY <1>1, <3>2, NextOfNonempty
    <3>4. \A j \in 0 .. n : q.nextClk <= p.slot[j].clk
      BY <1>1, <1>6, <2>2, <3>1, <3>3
    <3>5. p.nextClk = q.nextClk /\ p.nextIdx = q.nextIdx
      BY <1>2, <2>2
    <3>6. q.nextIdx \in 0 .. n /\ p.nextClk = p.slot[q.nextIdx].clk
      BY <1>1, <1>6, <3>3, <3>5
    <3> QED BY <2>0, <3>4, <3>5, <3>6, NextOfNonempty
  <2> QED BY <2>1, <2>2
<1>10. IsPending(p, a) /\ Deadline(p, a) = t
  BY <1>1, <1>5, <1>6 DEF IsPending, NotPending, Deadline
<1>11. OthersKept(q, p, a)
  <2> SUFFICES ASSUME NEW b \in Alarms \ {a}
               PROVE  /\ IsPending(p, b) <=> IsPending(q, b)
                      /\ IsPending(q, b) => Deadline(p, b) = Deadline(q, b)
    BY DEF OthersKept
  <2> QED BY <1>1, <1>5, <1>6, PendingSlot DEF IsPending, Deadline
<1> QED BY <1>4, <1>8, <1>9, <1>10, <1>11 DEF QueueOK, p

(* alarm_set of a pending alarm moves its deadline and keeps the rest. *)
LEMMA ModifyCorrect ==
    ASSUME NEW q, QueueOK(q), NEW a \in Alarms, IsPending(q, a), NEW t \in Clock
    PROVE  /\ QueueOK(Modify(q, a, t))
           /\ IsPending(Modify(q, a, t), a) /\ Deadline(Modify(q, a, t), a) = t
           /\ OthersKept(q, Modify(q, a, t), a)
<1> DEFINE i == q.idx[a]
           p == [q EXCEPT !.slot[i].clk = t]
           m == Modify(q, a, t)
<1>1. /\ QueueType(q) /\ QueueLinked(q) /\ QueueNext(q)
      /\ i \in 0 .. q.num - 1 /\ q.slot[i].alarm = a /\ q.num \in Nat /\ q.num > 0
  BY QueueFields, PendingSlot DEF QueueOK
<1>2. /\ p.num = q.num /\ p.idx = q.idx
      /\ p.nextClk = q.nextClk /\ p.nextIdx = q.nextIdx
      /\ p.slot = [q.slot EXCEPT ![i].clk = t]
      /\ p = [num |-> p.num, slot |-> p.slot, idx |-> p.idx,
              nextClk |-> p.nextClk, nextIdx |-> p.nextIdx]
  BY <1>1 DEF QueueType
<1>3. m = IF q.nextClk > t \/ i = q.nextIdx THEN UpdateNext(p) ELSE p
  BY DEF Modify
<1> HIDE DEF p, m
<1>4. /\ p.slot[i].clk = t
      /\ \A j \in 0 .. q.num - 1 : /\ p.slot[j].alarm = q.slot[j].alarm
                                   /\ j # i => p.slot[j] = q.slot[j]
  BY <1>1, <1>2, QueueFields
<1>5. QueueType(p)
  <2> DEFINE e == [q.slot[i] EXCEPT !.clk = t]
  <2>1. q.slot \in [0 .. q.num - 1 -> [alarm : Alarms, clk : Clock]]
    BY <1>1, QueueFields
  <2>2. e \in [alarm : Alarms, clk : Clock]
    BY <1>1, <2>1
  <2>3. p.slot = [q.slot EXCEPT ![i] = e]
    BY <1>2
  <2> HIDE DEF e
  <2>4. p.slot \in [0 .. p.num - 1 -> [alarm : Alarms, clk : Clock]]
    BY <1>2, <2>1, <2>2, <2>3
  <2> QED BY <1>1, <1>2, <2>4, QueueFields, QueueFromFields
<1>6. QueueLinked(p)
  BY <1>1, <1>2, <1>4 DEF QueueLinked, Slots, IsPending
<1>7. OthersKept(q, p, a) /\ IsPending(p, a) /\ Deadline(p, a) = t
  <2>1. ASSUME NEW b \in Alarms \ {a}, IsPending(q, b)
        PROVE  Deadline(p, b) = Deadline(q, b)
    <3>1. q.idx[b] \in 0 .. q.num - 1 /\ q.slot[q.idx[b]].alarm = b
      BY <1>1, <2>1, PendingSlot
    <3>2. q.idx[b] # i
      BY <1>1, <3>1
    <3> QED BY <1>2, <1>4, <3>1, <3>2 DEF Deadline
  <2> QED BY <1>2, <1>4, <2>1 DEF OthersKept, IsPending, Deadline
<1>8. CASE q.nextClk > t \/ i = q.nextIdx
  <2>1. m = UpdateNext(p)
    BY <1>3, <1>8
  <2>2. QueueOK(m) /\ m.slot = p.slot /\ m.idx = p.idx
    BY <1>5, <1>6, <2>1, UpdateNextCorrect
  <2> QED BY <1>7, <2>2 DEF m, OthersKept, IsPending, Deadline
<1>9. CASE ~(q.nextClk > t \/ i = q.nextIdx)
  <2>1. m = p
    BY <1>3, <1>9
  <2>2. /\ q.nextIdx \in 0 .. q.num - 1 /\ q.nextClk = q.slot[q.nextIdx].clk
        /\ \A j \in 0 .. q.num - 1 : q.nextClk <= q.slot[j].clk
    BY <1>1, NextOfNonempty
  <2>3. q.nextClk <= t
    BY <1>1, <1>9, QueueFields, QueueAssumption DEF Clock
  <2>4. \A j \in 0 .. q.num - 1 : q.nextClk <= p.slot[j].clk
    BY <1>4, <2>2, <2>3
  <2>5. q.nextClk = p.slot[q.nextIdx].clk
    BY <1>4, <1>9, <2>2
  <2>6. QueueNext(p)
    BY <1>1, <1>2, <2>2, <2>4, <2>5, NextOfNonempty
  <2> QED BY <1>5, <1>6, <1>7, <2>1, <2>6 DEF QueueOK, m
<1> QED BY <1>8, <1>9

(* alarm_set, as long as the array is not full: the alarm is pending at the
   clock asked for, and no other alarm has moved. *)
LEMMA AlarmSetCorrect ==
    ASSUME NEW q, QueueOK(q), NEW a \in Alarms, NEW t \in Clock, t < ClkMax,
           IsPending(q, a) \/ q.num < MaxPending
    PROVE  /\ QueueOK(AlarmSet(q, a, t))
           /\ IsPending(AlarmSet(q, a, t), a) /\ Deadline(AlarmSet(q, a, t), a) = t
           /\ OthersKept(q, AlarmSet(q, a, t), a)
<1>1. CASE IsPending(q, a)
  <2>1. AlarmSet(q, a, t) = Modify(q, a, t)
    BY <1>1 DEF AlarmSet
  <2> QED BY <1>1, <2>1, ModifyCorrect
<1>2. CASE ~IsPending(q, a)
  <2>1. AlarmSet(q, a, t) = Insert(q, a, t)
    BY <1>2 DEF AlarmSet
  <2> QED BY <1>2, <2>1, InsertCorrect
<1> QED BY <1>1, <1>2

(* alarm_set of one more alarm than the array holds changes nothing. *)
LEMMA AlarmSetFull ==
    ASSUME NEW q, QueueType(q), NEW a, NEW t, ~IsPending(q, a), ~(q.num < MaxPending)
    PROVE  AlarmSet(q, a, t) = q
<1>1. q.num >= MaxPending
  BY QueueFields, QueueAssumption
<1> QED BY <1>1 DEF AlarmSet, Insert

(* Taking slot i out moves the last entry into it and nothing else. *)
LEMMA SwapRemoveCorrect ==
    ASSUME NEW q, QueueType(q), QueueLinked(q), NEW a \in Alarms, IsPending(q, a)
    PROVE  LET p == SwapRemove(q, q.idx[a])
           IN  /\ QueueType(p) /\ QueueLinked(p)
               /\ p.num = q.num - 1
               /\ p.nextClk = q.nextClk /\ p.nextIdx = q.nextIdx
               /\ \A j \in 0 .. p.num - 1 :
                     p.slot[j] = IF j = q.idx[a] THEN q.slot[q.num - 1] ELSE q.slot[j]
               /\ ~IsPending(p, a) /\ OthersKept(q, p, a)
<1> DEFINE i == q.idx[a]
           last == q.num - 1
           p == SwapRemove(q, i)
           z == q.slot[last].alarm
           S == [j \in 0 .. last - 1 |-> IF j = i THEN q.slot[last] ELSE q.slot[j]]
           X == [b \in Alarms |-> IF b = a THEN NotPending ELSE IF b = z THEN i ELSE q.idx[b]]
<1>1. /\ i \in 0 .. q.num - 1 /\ q.slot[i].alarm = a /\ q.num \in Nat /\ q.num > 0
      /\ last \in Nat /\ last \in 0 .. q.num - 1 /\ q.num <= MaxPending
      /\ z \in Alarms /\ q.idx[z] = last
  BY QueueFields, PendingSlot DEF QueueLinked, Slots
<1>a. p = [q EXCEPT !.num = last, !.slot = S, !.idx = X]
  BY <1>1, Zenon DEF SwapRemove
<1> HIDE DEF S, X, p
<1>b. /\ p.num = last /\ p.slot = S /\ p.idx = X
      /\ p.nextClk = q.nextClk /\ p.nextIdx = q.nextIdx
      /\ p = [num |-> p.num, slot |-> p.slot, idx |-> p.idx,
              nextClk |-> p.nextClk, nextIdx |-> p.nextIdx]
  BY <1>a DEF QueueType
<1>2. /\ p.num = last
      /\ p.slot = [j \in 0 .. last - 1 |-> IF j = i THEN q.slot[last] ELSE q.slot[j]]
      /\ p.idx = [b \in Alarms |-> IF b = a THEN NotPending ELSE IF b = z THEN i ELSE q.idx[b]]
      /\ p.nextClk = q.nextClk /\ p.nextIdx = q.nextIdx
      /\ p = [num |-> p.num, slot |-> p.slot, idx |-> p.idx,
              nextClk |-> p.nextClk, nextIdx |-> p.nextIdx]
  BY <1>b DEF S, X
<1>3. QueueType(p)
  <2>1. p.slot \in [0 .. p.num - 1 -> [alarm : Alarms, clk : Clock]]
    <3>1. \A j \in 0 .. last - 1 : j \in 0 .. q.num - 1
      BY <1>1
    <3> QED BY <1>1, <1>2, <3>1, QueueFields
  <2>2. p.idx \in [Alarms -> -1 .. MaxPending - 1]
    <3>1. i \in -1 .. MaxPending - 1 /\ -1 \in -1 .. MaxPending - 1
      BY <1>1, QueueAssumption
    <3> QED BY <1>2, <3>1, QueueFields DEF NotPending
  <2>3. p.num \in 0 .. MaxPending
    BY <1>1, <1>2, QueueAssumption
  <2> QED BY <1>2, <2>1, <2>2, <2>3, QueueFields, QueueFromFields
<1>4. \A j \in 0 .. last - 1 : p.slot[j] = IF j = i THEN q.slot[last] ELSE q.slot[j]
  BY <1>2
<1>5. \A b \in Alarms : p.idx[b] = IF b = a THEN -1 ELSE IF b = z THEN i ELSE q.idx[b]
  BY <1>2 DEF NotPending
<1>6. \A j \in 0 .. q.num - 1 : q.slot[j].alarm \in Alarms /\ q.idx[q.slot[j].alarm] = j
  BY QueueFields DEF QueueLinked, Slots
<1>7. \A b \in Alarms : q.idx[b] # -1 => /\ q.idx[b] \in 0 .. q.num - 1
                                         /\ q.slot[q.idx[b]].alarm = b
  BY DEF QueueLinked, Slots, IsPending, NotPending
<1>8. z = a <=> i = last
  BY <1>1
<1>9. QueueLinked(p)
  <2>1. ASSUME NEW j \in Slots(p) PROVE p.idx[p.slot[j].alarm] = j
    <3>1. j \in 0 .. last - 1 /\ j \in 0 .. q.num - 1 /\ j # last
      BY <1>1, <1>2 DEF Slots
    <3>2. CASE j = i
      BY <1>1, <1>4, <1>5, <1>8, <3>1, <3>2
    <3>3. CASE j # i
      <4>1. p.slot[j] = q.slot[j]
        BY <1>4, <3>1, <3>3
      <4>2. q.slot[j].alarm # a /\ q.slot[j].alarm # z
        BY <1>1, <1>6, <3>1, <3>3
      <4> QED BY <1>5, <1>6, <3>1, <4>1, <4>2
    <3> QED BY <3>2, <3>3
  <2>2. ASSUME NEW b \in Alarms, IsPending(p, b)
        PROVE  p.idx[b] \in Slots(p) /\ p.slot[p.idx[b]].alarm = b
    <3>1. b # a
      BY <1>5, <2>2 DEF IsPending, NotPending
    <3>2. CASE b = z
      <4>1. p.idx[b] = i /\ i # last
        BY <1>5, <1>8, <3>1, <3>2
      <4>2. i \in 0 .. last - 1
        BY <1>1, <4>1
      <4> QED BY <1>2, <1>4, <3>2, <4>1, <4>2 DEF Slots
    <3>3. CASE b # z
      <4>1. p.idx[b] = q.idx[b] /\ q.idx[b] # -1
        BY <1>5, <2>2, <3>1, <3>3 DEF IsPending, NotPending
      <4>2. q.idx[b] # i /\ q.idx[b] # last
        BY <1>1, <1>7, <3>1, <3>3, <4>1
      <4>3. q.idx[b] \in 0 .. last - 1
        BY <1>1, <1>7, <4>1, <4>2
      <4> QED BY <1>2, <1>4, <1>7, <4>1, <4>2, <4>3 DEF Slots
    <3> QED BY <3>2, <3>3
  <2> QED BY <2>1, <2>2 DEF QueueLinked
<1>10. ~IsPending(p, a)
  BY <1>5 DEF IsPending, NotPending
<1>11. OthersKept(q, p, a)
  <2> SUFFICES ASSUME NEW b \in Alarms \ {a}
               PROVE  /\ IsPending(p, b) <=> IsPending(q, b)
                      /\ IsPending(q, b) => Deadline(p, b) = Deadline(q, b)
    BY DEF OthersKept
  <2>1. CASE b = z
    BY <1>1, <1>4, <1>5, <1>8, <2>1 DEF IsPending, NotPending, Deadline
  <2>2. CASE b # z
    <3>1. p.idx[b] = q.idx[b]
      BY <1>5, <2>2
    <3>2. ASSUME q.idx[b] # -1 PROVE p.slot[q.idx[b]] = q.slot[q.idx[b]]
      <4>1. q.idx[b] # i /\ q.idx[b] # last /\ q.idx[b] \in 0 .. q.num - 1
        BY <1>1, <1>7, <2>2, <3>2
      <4>2. q.idx[b] \in 0 .. last - 1
        BY <1>1, <4>1
      <4> QED BY <1>4, <4>1, <4>2
    <3> QED BY <3>1, <3>2 DEF IsPending, NotPending, Deadline
  <2> QED BY <2>1, <2>2
<1>12. \A j \in 0 .. p.num - 1 : p.slot[j] = IF j = i THEN q.slot[last] ELSE q.slot[j]
  BY <1>2, <1>4
<1> QED BY <1>2, <1>3, <1>9, <1>10, <1>11, <1>12 DEF p

(* alarm_unset leaves the alarm off and every other alarm where it was. *)
LEMMA AlarmUnsetCorrect ==
    ASSUME NEW q, QueueOK(q), NEW a \in Alarms
    PROVE  /\ QueueOK(AlarmUnset(q, a))
           /\ ~IsPending(AlarmUnset(q, a), a)
           /\ OthersKept(q, AlarmUnset(q, a), a)
<1> DEFINE i == q.idx[a]
           r == SwapRemove(q, i)
           p == AlarmUnset(q, a)
<1>1. QueueType(q) /\ QueueLinked(q) /\ QueueNext(q) /\ q.num \in Nat
  BY QueueFields DEF QueueOK
<1>2. CASE ~IsPending(q, a)
  <2>1. p = q
    BY <1>2 DEF AlarmUnset
  <2> QED BY <1>2, <2>1 DEF OthersKept
<1>3. CASE IsPending(q, a)
  <2>1. /\ QueueType(r) /\ QueueLinked(r) /\ r.num = q.num - 1
        /\ r.nextClk = q.nextClk /\ r.nextIdx = q.nextIdx
        /\ \A j \in 0 .. r.num - 1 : r.slot[j] = IF j = i THEN q.slot[q.num - 1] ELSE q.slot[j]
        /\ ~IsPending(r, a) /\ OthersKept(q, r, a)
    BY <1>1, <1>3, SwapRemoveCorrect
  <2>2. i \in 0 .. q.num - 1 /\ q.num > 0
    BY <1>1, <1>3, PendingSlot
  <2>3. p = IF q.num > 1
            THEN IF q.nextIdx = i THEN UpdateNext(r)
                 ELSE IF q.nextIdx = q.num - 1 THEN [r EXCEPT !.nextIdx = i]
                 ELSE r
            ELSE [r EXCEPT !.nextClk = ClkMax, !.nextIdx = NotPending]
    BY <1>3 DEF AlarmUnset
  <2>4. /\ q.nextIdx \in 0 .. q.num - 1 /\ q.nextClk = q.slot[q.nextIdx].clk
        /\ \A j \in 0 .. q.num - 1 : q.nextClk <= q.slot[j].clk
    BY <1>1, <2>2, NextOfNonempty
  <2> HIDE DEF r, p
  <2>5. SUFFICES QueueOK(p) /\ p.num = r.num /\ p.slot = r.slot /\ p.idx = r.idx
    BY <2>1 DEF IsPending, OthersKept, Deadline, p
  <2>6. r = [num |-> r.num, slot |-> r.slot, idx |-> r.idx,
             nextClk |-> r.nextClk, nextIdx |-> r.nextIdx]
    BY <2>1, QueueFields
  <2>7. CASE q.num > 1
    <3>1. \A j \in 0 .. r.num - 1 : q.nextClk <= r.slot[j].clk
      BY <1>1, <2>1, <2>2, <2>4
    <3>2. CASE q.nextIdx = i
      BY <2>1, <2>3, <2>7, <3>2, UpdateNextCorrect
    <3>3. CASE q.nextIdx # i /\ q.nextIdx = q.num - 1
      <4>1. p = [r EXCEPT !.nextIdx = i]
        BY <2>3, <2>7, <3>3
      <4>2. /\ p.num = r.num /\ p.slot = r.slot /\ p.idx = r.idx
            /\ p.nextClk = r.nextClk /\ p.nextIdx = i
            /\ p = [num |-> p.num, slot |-> p.slot, idx |-> p.idx,
                    nextClk |-> p.nextClk, nextIdx |-> p.nextIdx]
        BY <2>6, <4>1
      <4>3. i \in 0 .. r.num - 1 /\ i \in -1 .. MaxPending - 1 /\ r.slot[i].clk = q.nextClk
        <5>1. i \in 0 .. r.num - 1
          BY <1>1, <2>1, <2>2, <2>4, <3>3
        <5>2. i \in -1 .. MaxPending - 1
          BY <1>1, <2>2, QueueFields, QueueAssumption
        <5>3. r.slot[i].clk = q.nextClk
          BY <2>1, <2>4, <3>3, <5>1
        <5> QED BY <5>1, <5>2, <5>3
      <4>4. QueueType(p)
        BY <2>1, <4>2, <4>3, QueueFields, QueueFromFields
      <4>5. QueueNext(p)
        BY <1>1, <2>1, <2>7, <3>1, <4>2, <4>3, NextOfNonempty
      <4> QED BY <2>1, <4>2, <4>4, <4>5 DEF QueueOK, QueueLinked, Slots, IsPending
    <3>4. CASE q.nextIdx # i /\ q.nextIdx # q.num - 1
      <4>1. p = r
        BY <2>3, <2>7, <3>4
      <4>2. q.nextIdx \in 0 .. r.num - 1
        BY <1>1, <2>1, <2>4, <3>4
      <4>3. r.nextClk = r.slot[r.nextIdx].clk
        BY <2>1, <2>4, <3>4, <4>2
      <4>4. QueueNext(r)
        BY <1>1, <2>1, <2>7, <3>1, <4>2, <4>3, NextOfNonempty
      <4> QED BY <2>1, <4>1, <4>4 DEF QueueOK
    <3> QED BY <3>2, <3>3, <3>4
  <2>8. CASE ~(q.num > 1)
    <3>1. p = [r EXCEPT !.nextClk = ClkMax, !.nextIdx = NotPending]
      BY <2>3, <2>8
    <3>2. /\ p.num = r.num /\ p.slot = r.slot /\ p.idx = r.idx
          /\ p.nextClk = ClkMax /\ p.nextIdx = -1
          /\ p = [num |-> p.num, slot |-> p.slot, idx |-> p.idx,
                  nextClk |-> p.nextClk, nextIdx |-> p.nextIdx]
      BY <2>6, <3>1 DEF NotPending
    <3>3. r.num = 0
      BY <1>1, <2>1, <2>2, <2>8
    <3>4. ClkMax \in Clock /\ -1 \in -1 .. MaxPending - 1
      BY QueueAssumption DEF Clock
    <3>5. QueueType(p)
      BY <2>1, <3>2, <3>4, QueueFields, QueueFromFields
    <3> QED BY <2>1, <3>2, <3>3, <3>5
            DEF QueueOK, QueueLinked, QueueNext, Slots, IsPending
  <2> QED BY <2>7, <2>8
<1> QED BY <1>2, <1>3

(* Clock arithmetic that does not leave the width of CLOCK does not wrap. *)
LEMMA NoWrap == \A x \in Clock : x % (ClkMax + 1) = x
BY QueueAssumption DEF Clock

(* A warp by no more than any deadline moves them all alike, and the cached
   minimum with them, provided something is pending. *)
LEMMA TimeWarpCorrect ==
    ASSUME NEW q, QueueOK(q), q.num > 0, NEW sub \in Nat,
           \A a \in Alarms : IsPending(q, a) => sub <= Deadline(q, a)
    PROVE  /\ QueueOK(TimeWarp(q, sub))
           /\ TimeWarp(q, sub).num = q.num /\ TimeWarp(q, sub).idx = q.idx
           /\ \A a \in Alarms : IsPending(q, a) =>
                 Deadline(TimeWarp(q, sub), a) = Deadline(q, a) - sub
<1> DEFINE p == TimeWarp(q, sub)
           S == [i \in Slots(q) |-> [q.slot[i] EXCEPT !.clk = ClockSub(@, sub)]]
           c == ClockSub(q.nextClk, sub)
<1>1. /\ QueueType(q) /\ QueueLinked(q) /\ QueueNext(q)
      /\ q.num \in Nat /\ q.num <= MaxPending
  BY QueueFields DEF QueueOK
<1>2. /\ q.nextIdx \in 0 .. q.num - 1 /\ q.nextClk = q.slot[q.nextIdx].clk
      /\ \A j \in 0 .. q.num - 1 : q.nextClk <= q.slot[j].clk
  BY <1>1, NextOfNonempty
<1>3. \A j \in 0 .. q.num - 1 : /\ q.slot[j].clk \in Clock /\ q.slot[j].alarm \in Alarms
                               /\ sub <= q.slot[j].clk
  BY <1>1, QueueFields DEF QueueLinked, Slots, IsPending, NotPending, Deadline
<1>4. \A x \in Clock : sub <= x => /\ ClockSub(x, sub) = x - sub
                                   /\ ClockSub(x, sub) \in Clock
  BY NoWrap, QueueAssumption DEF ClockSub, Clock
<1>a. p = [q EXCEPT !.slot = S, !.nextClk = c]
  BY Zenon DEF TimeWarp
<1> HIDE DEF p, S, c
<1>b. /\ p.num = q.num /\ p.idx = q.idx /\ p.nextIdx = q.nextIdx
      /\ p.slot = S /\ p.nextClk = c
      /\ p = [num |-> p.num, slot |-> p.slot, idx |-> p.idx,
              nextClk |-> p.nextClk, nextIdx |-> p.nextIdx]
  BY <1>1, <1>a DEF QueueType
<1>5. /\ p.num = q.num /\ p.idx = q.idx /\ p.nextIdx = q.nextIdx
      /\ p.slot = [i \in 0 .. q.num - 1 |-> [q.slot[i] EXCEPT !.clk = ClockSub(@, sub)]]
      /\ p.nextClk = ClockSub(q.nextClk, sub)
      /\ p = [num |-> p.num, slot |-> p.slot, idx |-> p.idx,
              nextClk |-> p.nextClk, nextIdx |-> p.nextIdx]
  BY <1>b DEF S, c, Slots
<1>6. \A j \in 0 .. q.num - 1 : /\ p.slot[j] \in [alarm : Alarms, clk : Clock]
                               /\ p.slot[j].alarm = q.slot[j].alarm
                               /\ p.slot[j].clk = q.slot[j].clk - sub
  <2> SUFFICES ASSUME NEW j \in 0 .. q.num - 1
               PROVE  /\ p.slot[j] \in [alarm : Alarms, clk : Clock]
                      /\ p.slot[j].alarm = q.slot[j].alarm
                      /\ p.slot[j].clk = q.slot[j].clk - sub
    OBVIOUS
  <2>1. p.slot[j] = [q.slot[j] EXCEPT !.clk = ClockSub(q.slot[j].clk, sub)]
    BY <1>5
  <2>2. q.slot[j] \in [alarm : Alarms, clk : Clock]
    BY <1>1, QueueFields
  <2> QED BY <1>3, <1>4, <2>1, <2>2
<1>7. p.nextClk = q.nextClk - sub /\ p.nextClk \in Clock
  BY <1>2, <1>3, <1>4, <1>5
<1>8. QueueType(p)
  BY <1>1, <1>5, <1>6, <1>7, QueueFields, QueueFromFields
<1>9. QueueLinked(p)
  BY <1>1, <1>5, <1>6 DEF QueueLinked, Slots, IsPending
<1>10. QueueNext(p)
  <2>1. \A j \in 0 .. q.num - 1 : p.nextClk <= p.slot[j].clk
    BY <1>2, <1>3, <1>6, <1>7, QueueAssumption DEF Clock
  <2>2. p.nextClk = p.slot[p.nextIdx].clk
    BY <1>2, <1>5, <1>6, <1>7
  <2> QED BY <1>1, <1>2, <1>5, <2>1, <2>2, NextOfNonempty
<1>11. \A a \in Alarms : IsPending(q, a) => Deadline(p, a) = Deadline(q, a) - sub
  BY <1>1, <1>5, <1>6, PendingSlot DEF Deadline
<1> QED BY <1>5, <1>8, <1>9, <1>10, <1>11 DEF QueueOK, p
=============================================================================
