---------------------------- MODULE InterruptProofs ---------------------------
(***************************************************************************)
(* The safety properties of the interrupt status for every set of sources, *)
(* every program and every clock.  Each operation of interrupt.h is shown  *)
(* to keep a status sound; the state of the CPU loop says how far the      *)
(* clock can be ahead of the guard, which of the requests the loop has     *)
(* read are still there, and that a status which is not sound, the one a   *)
(* failed load leaves, is one a reset is about to replace.                 *)
(***************************************************************************)
EXTENDS Interrupt, FiniteSetTheorems, TLAPS

(* The clock never gets further than this past the guard's limit. *)
Slack == 14

Sound(c, now) == c \in Status /\ InReach(c, now) /\ Counted(c) /\ Ends(c)

LEMMA Consts ==
    /\ Lag \in Nat /\ Limit \in Nat /\ Sub \in Nat /\ CLOCK_MAX \in Nat
    /\ Limit > 6 /\ Limit >= Sub + 3 /\ CLOCK_MAX > Limit + 25
    /\ NoTrap \notin TrapFuncs
    /\ \A n \in Cycles : n \in Nat /\ n >= 2 /\ n <= 8
  BY InterruptAssumption

LEMMA StatusFields ==
    ASSUME NEW c \in Status
    PROVE  /\ c.irq \in SUBSET IrqSources /\ c.nmi \in SUBSET NmiSources
           /\ c.nirq \in Nat /\ c.nnmi \in Nat /\ c.global \in SUBSET Flags
           /\ c.irq_clk \in Clock /\ c.nmi_clk \in Clock /\ c.irq_pending_clk \in Clock
           /\ c.trap_func \in TrapFuncs \cup {NoTrap}
           /\ IsFiniteSet(c.irq) /\ IsFiniteSet(c.nmi)
           /\ Cardinality(c.irq) \in Nat /\ Cardinality(c.nmi) \in Nat
           /\ Cardinality(c.irq) = 0 <=> c.irq = {}
           /\ Cardinality(c.nmi) = 0 <=> c.nmi = {}
<1>1. /\ c.irq \in SUBSET IrqSources /\ c.nmi \in SUBSET NmiSources
      /\ c.nirq \in Nat /\ c.nnmi \in Nat /\ c.global \in SUBSET Flags
      /\ c.irq_clk \in Clock /\ c.nmi_clk \in Clock /\ c.irq_pending_clk \in Clock
      /\ c.trap_func \in TrapFuncs \cup {NoTrap}
  BY DEF Status
<1>2. IsFiniteSet(c.irq) /\ IsFiniteSet(c.nmi)
  BY <1>1, InterruptAssumption, FS_Subset
<1>3. /\ Cardinality(c.irq) \in Nat /\ Cardinality(c.nmi) \in Nat
      /\ Cardinality(c.irq) = 0 <=> c.irq = {}
      /\ Cardinality(c.nmi) = 0 <=> c.nmi = {}
  BY <1>2, FS_CardinalityType, FS_EmptySet
<1> QED
  BY <1>1, <1>2, <1>3

(* A change of the flags that leaves IRQ alone and adds IRQPEND only to IRQ. *)
LEMMA FlagsSound ==
    ASSUME NEW c, NEW now \in Nat, Sound(c, now), NEW G \in SUBSET Flags,
           "IRQ" \in G <=> Has(c, "IRQ"),
           "IRQPEND" \in G => IrqSeen(c)
    PROVE  Sound([c EXCEPT !.global = G], now)
<1> DEFINE d == [c EXCEPT !.global = G]
<1>1. c \in Status
  BY DEF Sound
<1>2. d \in Status
  BY <1>1 DEF Status
<1>3. /\ d.irq = c.irq /\ d.nmi = c.nmi /\ d.nirq = c.nirq /\ d.nnmi = c.nnmi
      /\ d.irq_clk = c.irq_clk /\ d.nmi_clk = c.nmi_clk
      /\ d.irq_pending_clk = c.irq_pending_clk /\ d.global = G
  BY <1>1 DEF Status
<1> HIDE DEF d
<1>4. InReach(d, now) /\ Counted(d) /\ Ends(d)
  BY <1>3 DEF Sound, InReach, Counted, Ends, Has, IrqSeen
<1> QED
  BY <1>2, <1>4 DEF Sound, d

LEMMA RaiseIrqSound ==
    ASSUME NEW c, NEW now \in Nat, Sound(c, now), NEW s \in IrqSources,
           NEW t \in Clock, t <= now
    PROVE  /\ Sound(RaiseIrq(c, s, t), now)
           /\ RaiseIrq(c, s, t).irq = c.irq \cup {s}
           /\ RaiseIrq(c, s, t).global \in {c.global, c.global \cup {"IRQ", "IRQPEND"}}
           /\ s \notin c.irq => Has(RaiseIrq(c, s, t), "IRQPEND")
           /\ s \in c.irq => RaiseIrq(c, s, t) = c
           /\ RaiseIrq(c, s, t).nmi = c.nmi
           /\ RaiseIrq(c, s, t).nmi_clk = c.nmi_clk
           /\ RaiseIrq(c, s, t).trap_func = c.trap_func
<1>1. CASE s \in c.irq
  BY <1>1 DEF RaiseIrq
<1>2. CASE s \notin c.irq
  <2> DEFINE d == RaiseIrq(c, s, t)
  <2>1. c \in Status
    BY DEF Sound
  <2>2. d = [c EXCEPT !.irq = c.irq \cup {s}, !.nirq = c.nirq + 1,
                      !.global = c.global \cup {"IRQ", "IRQPEND"},
                      !.irq_pending_clk = CLOCK_MAX, !.irq_clk = t]
    BY <1>2 DEF RaiseIrq
  <2>3. /\ CLOCK_MAX \in Clock /\ c.global \cup {"IRQ", "IRQPEND"} \in SUBSET Flags
        /\ c.irq \cup {s} \in SUBSET IrqSources /\ c.nirq + 1 \in Nat
    BY <2>1, StatusFields, Consts DEF Clock, Flags
  <2> HIDE DEF d
  <2>4. d \in Status
    BY <2>1, <2>2, <2>3 DEF Status
  <2>5. /\ d.irq = c.irq \cup {s} /\ d.nmi = c.nmi
        /\ d.nirq = c.nirq + 1 /\ d.nnmi = c.nnmi
        /\ d.irq_clk = t /\ d.nmi_clk = c.nmi_clk
        /\ d.irq_pending_clk = CLOCK_MAX /\ d.trap_func = c.trap_func
        /\ d.global = c.global \cup {"IRQ", "IRQPEND"}
    BY <2>1, <2>2 DEF Status
  <2>6. Cardinality(c.irq \cup {s}) = Cardinality(c.irq) + 1
    BY <1>2, <2>1, StatusFields, FS_AddElement
  <2>7. InReach(d, now)
    BY <2>5, Consts DEF Sound, InReach
  <2>8. Counted(d)
    BY <2>5, <2>6 DEF Sound, Counted, Has
  <2>9. Ends(d)
    BY <2>5 DEF Ends, Has
  <2> QED
    BY <1>2, <2>4, <2>5, <2>7, <2>8, <2>9 DEF Sound, Has, d
<1> QED
  BY <1>1, <1>2

LEMMA LowerIrqSound ==
    ASSUME NEW c, NEW now \in Nat, Sound(c, now), NEW s \in IrqSources,
           NEW t \in Clock, t <= now, now <= Limit + Slack
    PROVE  /\ Sound(LowerIrq(c, s, t), now)
           /\ LowerIrq(c, s, t).irq \subseteq c.irq
           /\ LowerIrq(c, s, t).global \in {c.global, c.global \ {"IRQ"}}
           /\ LowerIrq(c, s, t).nmi = c.nmi
           /\ LowerIrq(c, s, t).nmi_clk = c.nmi_clk
           /\ LowerIrq(c, s, t).trap_func = c.trap_func
<1>1. CASE s \notin c.irq \/ c.nirq = 0
  BY <1>1 DEF LowerIrq
<1>2. CASE s \in c.irq /\ c.nirq # 0
  <2> DEFINE d == LowerIrq(c, s, t)
             G == IF c.nirq = 1 THEN c.global \ {"IRQ"} ELSE c.global
             e == IF c.nirq = 1 THEN t + 3 ELSE c.irq_pending_clk
  <2>1. c \in Status
    BY DEF Sound
  <2>2. d = [c EXCEPT !.irq = c.irq \ {s}, !.nirq = c.nirq - 1,
                      !.global = G, !.irq_pending_clk = e]
    BY <1>2 DEF LowerIrq
  <2>3. /\ t \in Nat /\ t + 3 \in Clock /\ t + 3 < CLOCK_MAX
        /\ c.nirq \in Nat /\ c.nirq - 1 \in Nat
    BY <1>2, <2>1, StatusFields, Consts DEF Clock, Slack
  <2>4. G \in SUBSET Flags /\ e \in Clock
    BY <2>1, <2>3, StatusFields
  <2>5. Cardinality(c.irq \ {s}) = Cardinality(c.irq) - 1
    <3>1. IsFiniteSet(c.irq)
      BY <2>1, StatusFields
    <3> QED
      BY <3>1, <1>2, FS_RemoveElement
  <2>6. c.irq \ {s} = {} <=> c.nirq = 1
    <3>1. IsFiniteSet(c.irq \ {s})
      BY <2>1, StatusFields, FS_RemoveElement
    <3>2. Cardinality(c.irq \ {s}) = 0 <=> c.irq \ {s} = {}
      BY <3>1, FS_EmptySet
    <3> QED
      BY <3>2, <2>3, <2>5 DEF Sound, Counted
  <2> HIDE DEF d, G, e
  <2>7. d \in Status
    BY <2>1, <2>2, <2>3, <2>4, StatusFields DEF Status
  <2>8. /\ d.irq = c.irq \ {s} /\ d.nmi = c.nmi
        /\ d.nirq = c.nirq - 1 /\ d.nnmi = c.nnmi
        /\ d.irq_clk = c.irq_clk /\ d.nmi_clk = c.nmi_clk
        /\ d.irq_pending_clk = e /\ d.global = G /\ d.trap_func = c.trap_func
    BY <2>1, <2>2 DEF Status
  <2>9. InReach(d, now)
    BY <2>8, <2>3 DEF Sound, InReach, e
  <2>10. Counted(d)
    BY <2>8, <2>5, <2>6, <1>2 DEF Sound, Counted, Has, G
  <2>11. Ends(d)
    BY <2>8, <2>3, <1>2 DEF Sound, Counted, Ends, Has, G, e
  <2> QED
    BY <2>7, <2>8, <2>9, <2>10, <2>11 DEF Sound, d, G
<1> QED
  BY <1>1, <1>2

LEMMA RaiseNmiSound ==
    ASSUME NEW c, NEW now \in Nat, Sound(c, now), NEW s \in NmiSources,
           NEW t \in Clock, t <= now
    PROVE  /\ Sound(RaiseNmi(c, s, t), now)
           /\ RaiseNmi(c, s, t).irq = c.irq
           /\ RaiseNmi(c, s, t).trap_func = c.trap_func
           /\ RaiseNmi(c, s, t).global \in {c.global, c.global \cup {"NMI"}}
           /\ Has(c, "NMI") => /\ RaiseNmi(c, s, t).global = c.global
                               /\ RaiseNmi(c, s, t).nmi_clk = c.nmi_clk
           /\ s \notin c.nmi /\ c.nmi = {} => Has(RaiseNmi(c, s, t), "NMI")
           /\ c.nmi # {} => RaiseNmi(c, s, t).global = c.global
           /\ RaiseNmi(c, s, t).nmi = c.nmi \cup {s}
<1>1. CASE s \in c.nmi
  BY <1>1, StatusFields DEF RaiseNmi, Sound
<1>2. CASE s \notin c.nmi
  <2> DEFINE d == RaiseNmi(c, s, t)
             edge == c.nnmi = 0 /\ ~Has(c, "NMI")
             G == IF edge THEN c.global \cup {"NMI"} ELSE c.global
             e == IF edge THEN t ELSE c.nmi_clk
  <2>1. c \in Status
    BY DEF Sound
  <2>2. d = [c EXCEPT !.nmi = c.nmi \cup {s}, !.nnmi = c.nnmi + 1,
                      !.global = G, !.nmi_clk = e]
    BY <1>2 DEF RaiseNmi
  <2>3. /\ G \in SUBSET Flags /\ e \in Clock
        /\ c.nmi \cup {s} \in SUBSET NmiSources /\ c.nnmi + 1 \in Nat
    BY <2>1, StatusFields DEF Flags
  <2>4. Cardinality(c.nmi \cup {s}) = Cardinality(c.nmi) + 1
    BY <1>2, <2>1, StatusFields, FS_AddElement
  <2>5. edge <=> c.nmi = {} /\ ~Has(c, "NMI")
    BY <2>1, StatusFields DEF Sound, Counted
  <2> HIDE DEF d, G, e
  <2>6. d \in Status
    BY <2>1, <2>2, <2>3 DEF Status
  <2>7. /\ d.irq = c.irq /\ d.nmi = c.nmi \cup {s}
        /\ d.nirq = c.nirq /\ d.nnmi = c.nnmi + 1
        /\ d.irq_clk = c.irq_clk /\ d.nmi_clk = e
        /\ d.irq_pending_clk = c.irq_pending_clk /\ d.global = G
        /\ d.trap_func = c.trap_func
    BY <2>1, <2>2 DEF Status
  <2>8. InReach(d, now)
    BY <2>7 DEF Sound, InReach, e
  <2>9. Counted(d) /\ Ends(d)
    BY <2>7, <2>4 DEF Sound, Counted, Ends, Has, G
  <2>10. Sound(d, now)
    BY <2>6, <2>8, <2>9 DEF Sound
  <2>11. /\ G \in {c.global, c.global \cup {"NMI"}}
         /\ Has(c, "NMI") => G = c.global /\ e = c.nmi_clk
         /\ c.nmi = {} => "NMI" \in G
         /\ c.nmi # {} => G = c.global
    BY <2>5 DEF G, e, Has
  <2> QED
    BY <2>7, <2>10, <2>11 DEF d, Has
<1> QED
  BY <1>1, <1>2

LEMMA LowerNmiSound ==
    ASSUME NEW c, NEW now \in Nat, Sound(c, now), NEW s \in NmiSources
    PROVE  /\ Sound(LowerNmi(c, s), now)
           /\ LowerNmi(c, s).irq = c.irq
           /\ LowerNmi(c, s).global = c.global
           /\ LowerNmi(c, s).nmi_clk = c.nmi_clk
           /\ LowerNmi(c, s).trap_func = c.trap_func
           /\ LowerNmi(c, s).nmi \subseteq c.nmi
<1>1. CASE s \notin c.nmi \/ c.nnmi = 0
  BY <1>1 DEF LowerNmi
<1>2. CASE s \in c.nmi /\ c.nnmi # 0
  <2> DEFINE d == LowerNmi(c, s)
  <2>1. c \in Status
    BY DEF Sound
  <2>2. d = [c EXCEPT !.nmi = c.nmi \ {s}, !.nnmi = c.nnmi - 1]
    BY <1>2 DEF LowerNmi
  <2>3. c.nmi \ {s} \in SUBSET NmiSources /\ c.nnmi - 1 \in Nat
    BY <1>2, <2>1, StatusFields
  <2>4. Cardinality(c.nmi \ {s}) = Cardinality(c.nmi) - 1
    <3>1. IsFiniteSet(c.nmi)
      BY <2>1, StatusFields
    <3> QED
      BY <3>1, <1>2, FS_RemoveElement
  <2> HIDE DEF d
  <2>5. d \in Status
    BY <2>1, <2>2, <2>3 DEF Status
  <2>6. /\ d.irq = c.irq /\ d.nmi = c.nmi \ {s}
        /\ d.nirq = c.nirq /\ d.nnmi = c.nnmi - 1
        /\ d.irq_clk = c.irq_clk /\ d.nmi_clk = c.nmi_clk
        /\ d.irq_pending_clk = c.irq_pending_clk /\ d.global = c.global
        /\ d.trap_func = c.trap_func
    BY <2>1, <2>2 DEF Status
  <2>7. InReach(d, now) /\ Counted(d) /\ Ends(d)
    BY <2>6, <2>4 DEF Sound, InReach, Counted, Ends, Has
  <2> QED
    BY <2>5, <2>6, <2>7 DEF Sound, d
<1> QED
  BY <1>1, <1>2

LEMMA AckNmiSound ==
    ASSUME NEW c, NEW now \in Nat, Sound(c, now)
    PROVE  Sound(AckNmi(c), now)
<1>1. c.global \ {"NMI"} \in SUBSET Flags
  BY StatusFields DEF Sound
<1>2. /\ "IRQ" \in c.global \ {"NMI"} <=> Has(c, "IRQ")
      /\ "IRQPEND" \in c.global \ {"NMI"} => IrqSeen(c)
  BY DEF Has, IrqSeen
<1> QED
  BY <1>1, <1>2, FlagsSound DEF AckNmi

LEMMA AckIrqSound ==
    ASSUME NEW c, NEW now \in Nat, Sound(c, now)
    PROVE  Sound(AckIrq(c), now)
<1> DEFINE d == AckIrq(c)
<1>1. c \in Status
  BY DEF Sound
<1>2. c.global \ {"IRQPEND"} \in SUBSET Flags /\ CLOCK_MAX \in Clock
  BY <1>1, StatusFields, Consts DEF Clock
<1>3. d \in Status
  BY <1>1, <1>2 DEF Status, AckIrq
<1>4. /\ d.irq = c.irq /\ d.nmi = c.nmi /\ d.nirq = c.nirq /\ d.nnmi = c.nnmi
      /\ d.irq_clk = c.irq_clk /\ d.nmi_clk = c.nmi_clk
      /\ d.irq_pending_clk = CLOCK_MAX /\ d.global = c.global \ {"IRQPEND"}
  BY <1>1 DEF Status, AckIrq
<1> HIDE DEF d
<1>5. InReach(d, now) /\ Counted(d) /\ Ends(d)
  BY <1>4, Consts DEF Sound, InReach, Counted, Ends, Has
<1> QED
  BY <1>3, <1>5 DEF Sound, d

LEMMA SubOrZeroClock ==
    ASSUME NEW t \in Clock, NEW n \in Nat
    PROVE  /\ SubOrZero(t, n) \in Clock /\ SubOrZero(t, n) <= t
           /\ \A u \in Nat : t <= u /\ n <= u => SubOrZero(t, n) <= u - n
  BY Consts DEF SubOrZero, Clock

LEMMA TimeWarpSound ==
    ASSUME NEW c, NEW now \in Nat, Sound(c, now), now >= Limit
    PROVE  /\ Sound(TimeWarp(c, Sub), now - Sub)
           /\ TimeWarp(c, Sub).irq = c.irq /\ TimeWarp(c, Sub).nmi = c.nmi
           /\ TimeWarp(c, Sub).global = c.global
           /\ TimeWarp(c, Sub).trap_func = c.trap_func
           /\ TimeWarp(c, Sub).nmi_clk = SubOrZero(c.nmi_clk, Sub)
<1> DEFINE d == TimeWarp(c, Sub)
           e == IF c.irq_pending_clk < CLOCK_MAX
                THEN SubOrZero(c.irq_pending_clk, Sub) ELSE c.irq_pending_clk
<1>1. c \in Status
  BY DEF Sound
<1>2. /\ SubOrZero(c.irq_clk, Sub) \in Clock /\ SubOrZero(c.nmi_clk, Sub) \in Clock
      /\ e \in Clock
      /\ SubOrZero(c.irq_pending_clk, Sub) <= c.irq_pending_clk
  BY <1>1, StatusFields, SubOrZeroClock, Consts
<1>3. d = [c EXCEPT !.irq_clk = SubOrZero(c.irq_clk, Sub),
                    !.nmi_clk = SubOrZero(c.nmi_clk, Sub),
                    !.irq_pending_clk = e]
  BY DEF TimeWarp
<1>4. /\ SubOrZero(c.irq_clk, Sub) <= now - Sub /\ SubOrZero(c.nmi_clk, Sub) <= now - Sub
      /\ c.irq_pending_clk < CLOCK_MAX =>
             SubOrZero(c.irq_pending_clk, Sub) <= now + 3 - Sub
  <2>1. now + 3 \in Nat /\ Sub <= now /\ Sub <= now + 3
    BY Consts
  <2>2. /\ c.irq_clk \in Clock /\ c.nmi_clk \in Clock /\ c.irq_pending_clk \in Clock
        /\ c.irq_clk <= now /\ c.nmi_clk <= now
        /\ c.irq_pending_clk < CLOCK_MAX => c.irq_pending_clk <= now + 3
    BY <1>1, StatusFields DEF Sound, InReach
  <2> QED
    BY <2>1, <2>2, SubOrZeroClock, Consts
<1>5. e < CLOCK_MAX <=> c.irq_pending_clk < CLOCK_MAX
  <2>1. c.irq_pending_clk \in Nat /\ SubOrZero(c.irq_pending_clk, Sub) \in Nat
    <3>1. c.irq_pending_clk \in Clock
      BY <1>1, StatusFields
    <3>2. SubOrZero(c.irq_pending_clk, Sub) \in Clock
      BY <3>1, SubOrZeroClock, Consts
    <3> QED
      BY <3>1, <3>2 DEF Clock
  <2> QED
    BY <2>1, <1>2, Consts
<1>6. c.irq_pending_clk = CLOCK_MAX => e = CLOCK_MAX
  BY Consts
<1> HIDE DEF d
<1>7. d \in Status
  BY <1>1, <1>2, <1>3 DEF Status
<1>8. /\ d.irq = c.irq /\ d.nmi = c.nmi /\ d.nirq = c.nirq /\ d.nnmi = c.nnmi
      /\ d.irq_clk = SubOrZero(c.irq_clk, Sub) /\ d.nmi_clk = SubOrZero(c.nmi_clk, Sub)
      /\ d.irq_pending_clk = e /\ d.global = c.global /\ d.trap_func = c.trap_func
  BY <1>1, <1>3 DEF Status
<1>9. e < CLOCK_MAX => e <= now - Sub + 3
  BY <1>4, <1>5, Consts
<1> HIDE DEF e
<1>10. InReach(d, now - Sub)
  BY <1>8, <1>4, <1>9 DEF InReach
<1>11. Counted(d) /\ Ends(d)
  BY <1>8, <1>5, <1>6 DEF Sound, Counted, Ends, Has
<1> QED
  BY <1>7, <1>8, <1>10, <1>11 DEF Sound, d
-----------------------------------------------------------------------------
(* How far the clock can be past the limit at each place of the loop. *)
ClkBound == /\ clk <= Limit + Slack
            /\ at = "ended"  => clk <= Limit + 7
            /\ at = "brk"    => clk <= Limit + 5
            /\ at = "vector" => clk <= Limit + 12

(* The only place where a status may be unsound: behind a load that failed. *)
Broken == at = "requests" /\ "RESET" \in ik /\ "TRAP" \notin ik

StatusOK == /\ cs \in Status /\ InReach(cs, clk)
            /\ Broken \/ (Counted(cs) /\ Ends(cs))

SnapOK == /\ snap.status \in Status /\ Sound(snap.status, snap.clk)
          /\ snap.clk <= Limit + Slack /\ "TRAP" \notin snap.status.global

TrapOK == NoNullTrap /\ (at = "trap" => "TRAP" \notin cs.global \cup ik)

(* A reset that was read has not been lost before the trap is served. *)
ResetSeen == /\ at \in {"vector", "trap"} \/ (at = "requests" /\ "TRAP" \in ik)
             /\ "RESET" \in ik
             => "RESET" \in cs.global

IInv == /\ TypeOK /\ ClkBound /\ StatusOK /\ SnapOK /\ TrapOK
        /\ ResetSeen /\ EntryJustified

LEMMA InvFacts ==
    ASSUME IInv
    PROVE  /\ clk \in Nat /\ clk <= Limit + Slack
           /\ ~Broken => Sound(cs, clk)
           /\ cs \in Status /\ cs.global \in SUBSET Flags
           /\ cs.trap_func \in TrapFuncs \cup {NoTrap}
<1>1. clk \in Nat /\ clk <= Limit + Slack /\ cs \in Status
  BY DEF IInv, TypeOK, ClkBound, Clock
<1>2. ~Broken => Sound(cs, clk)
  BY DEF IInv, StatusOK, Sound
<1>3. cs.global \in SUBSET Flags /\ cs.trap_func \in TrapFuncs \cup {NoTrap}
  BY <1>1, StatusFields
<1> QED
  BY <1>1, <1>2, <1>3

LEMMA InitInv == Init => IInv
<1> SUFFICES ASSUME Init PROVE IInv
  OBVIOUS
<1> DEFINE r == ResetStatus
<1>0. 0 \in Clock /\ CLOCK_MAX \in Clock /\ 6 \in Clock /\ NoTrap \notin TrapFuncs
  BY Consts DEF Clock
<1>1. r \in Status
  BY <1>0 DEF Status, ResetStatus, Flags
<1>2. Sound(r, 6)
  BY <1>1, FS_EmptySet, Consts
     DEF Sound, ResetStatus, InReach, Counted, Ends, Has
<1>3. cs = [r EXCEPT !.global = {"RESET"}]
  BY DEF Init
<1>4. Sound(cs, 6) /\ cs.global = {"RESET"}
  <2>1. /\ {"RESET"} \in SUBSET Flags /\ r.global = {}
        /\ ~Has(r, "IRQ") /\ ~IrqSeen(r)
    BY DEF Flags, ResetStatus, Has, IrqSeen
  <2>2. Sound(cs, 6)
    BY <2>1, <1>2, <1>3, FlagsSound
  <2>3. cs.global = {"RESET"}
    BY <1>1, <1>3 DEF Status
  <2> QED
    BY <2>2, <2>3
<1>5. TypeOK
  BY <1>0, <1>1, <1>4 DEF TypeOK, Init, Sound, Infos, Stages
<1>6. ClkBound /\ StatusOK /\ TrapOK /\ ResetSeen /\ EntryJustified
  BY <1>4, Consts DEF Init, Sound, ClkBound, StatusOK, TrapOK, NoNullTrap, ResetSeen,
     EntryJustified, Slack
<1>7. SnapOK
  BY <1>1, <1>2, Consts DEF Init, SnapOK, Slack, ResetStatus
<1> QED
  BY <1>5, <1>6, <1>7 DEF IInv

(* What a callback, or the function of a trap, may do to the status. *)
LEMMA StatusStep ==
    ASSUME IInv, Callbacks \/ at = "trap", UNCHANGED <<cpu, snap>>, Sound(cs', clk),
           at = "trap" => "TRAP" \notin cs'.global,
           "TRAP" \in cs'.global => cs'.trap_func \in TrapFuncs,
           cs.trap_func \in TrapFuncs => cs'.trap_func \in TrapFuncs,
           "RESET" \in cs.global => "RESET" \in cs'.global,
           Has(cs, "NMI") => Has(cs', "NMI") /\ cs'.nmi_clk = cs.nmi_clk
    PROVE  IInv'
<1>1. TypeOK'
  BY DEF IInv, TypeOK, Sound, cpu
<1>2. ClkBound'
  BY DEF IInv, ClkBound, cpu
<1>3. StatusOK'
  BY DEF StatusOK, Sound, cpu
<1>4. SnapOK'
  BY DEF IInv, SnapOK
<1>5. TrapOK'
  BY DEF IInv, TrapOK, NoNullTrap, cpu, Callbacks
<1>6. ResetSeen'
  BY DEF IInv, ResetSeen, cpu
<1>7. EntryJustified'
  BY DEF IInv, EntryJustified, TakeNmi, Has, cpu
<1> QED
  BY <1>1, <1>2, <1>3, <1>4, <1>5, <1>6, <1>7 DEF IInv

LEMMA CallbackStep ==
    ASSUME IInv, Callbacks, UNCHANGED <<cpu, snap>>, Sound(cs', clk),
           "TRAP" \in cs'.global => cs'.trap_func \in TrapFuncs,
           cs.trap_func \in TrapFuncs => cs'.trap_func \in TrapFuncs,
           "RESET" \in cs.global => "RESET" \in cs'.global,
           Has(cs, "NMI") => Has(cs', "NMI") /\ cs'.nmi_clk = cs.nmi_clk
    PROVE  IInv'
<1>1. at # "trap"
  BY DEF Callbacks
<1> QED
  BY <1>1, StatusStep

LEMMA CallbackSound ==
    ASSUME IInv, Callbacks
    PROVE  Sound(cs, clk) /\ at \in {"opcode", "ended", "brk", "vector"} /\ ~Broken
  BY InvFacts DEF Callbacks, Broken

LEMMA DatesFacts ==
    ASSUME IInv, NEW t \in Dates
    PROVE  t \in Clock /\ t <= clk
  BY DEF Dates

LEMMA SetIrqInv ==
    ASSUME IInv, NEW s \in IrqSources, NEW t \in Dates, SetIrq(s, t)
    PROVE  IInv'
<1>1. Callbacks /\ cs' = RaiseIrq(cs, s, t) /\ UNCHANGED <<cpu, snap>>
  BY DEF SetIrq
<1>2. Sound(cs, clk) /\ clk \in Nat /\ t \in Clock /\ t <= clk
  BY <1>1, CallbackSound, InvFacts, DatesFacts
<1>3. /\ Sound(cs', clk) /\ cs'.global \in {cs.global, cs.global \cup {"IRQ", "IRQPEND"}}
      /\ cs'.nmi_clk = cs.nmi_clk /\ cs'.trap_func = cs.trap_func
  BY <1>1, <1>2, RaiseIrqSound
<1>4. "TRAP" \in cs'.global => cs'.trap_func \in TrapFuncs
  BY <1>3 DEF IInv, TrapOK, NoNullTrap
<1> QED
  BY <1>1, <1>3, <1>4, CallbackStep DEF Has

LEMMA ClearIrqInv ==
    ASSUME IInv, NEW s \in IrqSources, NEW t \in Dates, ClearIrq(s, t)
    PROVE  IInv'
<1>1. Callbacks /\ cs' = LowerIrq(cs, s, t) /\ UNCHANGED <<cpu, snap>>
  BY DEF ClearIrq
<1>2. /\ Sound(cs, clk) /\ clk \in Nat /\ clk <= Limit + Slack
      /\ t \in Clock /\ t <= clk
  BY <1>1, CallbackSound, InvFacts, DatesFacts
<1>3. /\ Sound(cs', clk) /\ cs'.global \in {cs.global, cs.global \ {"IRQ"}}
      /\ cs'.nmi_clk = cs.nmi_clk /\ cs'.trap_func = cs.trap_func
  BY <1>1, <1>2, LowerIrqSound
<1>4. "TRAP" \in cs'.global => cs'.trap_func \in TrapFuncs
  BY <1>3 DEF IInv, TrapOK, NoNullTrap
<1> QED
  BY <1>1, <1>3, <1>4, CallbackStep DEF Has

LEMMA SetNmiInv ==
    ASSUME IInv, NEW s \in NmiSources, NEW t \in Dates, SetNmi(s, t)
    PROVE  IInv'
<1>1. Callbacks /\ cs' = RaiseNmi(cs, s, t) /\ UNCHANGED <<cpu, snap>>
  BY DEF SetNmi
<1>2. Sound(cs, clk) /\ clk \in Nat /\ t \in Clock /\ t <= clk
  BY <1>1, CallbackSound, InvFacts, DatesFacts
<1>3. /\ Sound(cs', clk) /\ cs'.global \in {cs.global, cs.global \cup {"NMI"}}
      /\ cs'.trap_func = cs.trap_func
      /\ Has(cs, "NMI") => cs'.global = cs.global /\ cs'.nmi_clk = cs.nmi_clk
  BY <1>1, <1>2, RaiseNmiSound
<1>4. "TRAP" \in cs'.global => cs'.trap_func \in TrapFuncs
  BY <1>3 DEF IInv, TrapOK, NoNullTrap
<1> QED
  BY <1>1, <1>3, <1>4, CallbackStep DEF Has

LEMMA ClearNmiInv ==
    ASSUME IInv, NEW s \in NmiSources, ClearNmi(s)
    PROVE  IInv'
<1>1. Callbacks /\ cs' = LowerNmi(cs, s) /\ UNCHANGED <<cpu, snap>>
  BY DEF ClearNmi
<1>2. Sound(cs, clk) /\ clk \in Nat
  BY <1>1, CallbackSound, InvFacts
<1>3. /\ Sound(cs', clk) /\ cs'.global = cs.global
      /\ cs'.nmi_clk = cs.nmi_clk /\ cs'.trap_func = cs.trap_func
  BY <1>1, <1>2, LowerNmiSound
<1>4. "TRAP" \in cs'.global => cs'.trap_func \in TrapFuncs
  BY <1>3 DEF IInv, TrapOK, NoNullTrap
<1> QED
  BY <1>1, <1>3, <1>4, CallbackStep DEF Has

LEMMA TriggerTrapInv ==
    ASSUME IInv, NEW f \in TrapFuncs, TriggerTrap(f)
    PROVE  IInv'
<1> DEFINE G == cs.global \cup {"TRAP"}
           d == [cs EXCEPT !.global = G]
<1>1. Callbacks /\ cs' = [cs EXCEPT !.global = G, !.trap_func = f] /\ UNCHANGED <<cpu, snap>>
  BY DEF TriggerTrap
<1>2. Sound(cs, clk) /\ cs \in Status /\ clk \in Nat
  BY <1>1, CallbackSound, InvFacts
<1>3. /\ G \in SUBSET Flags
      /\ "IRQ" \in G <=> Has(cs, "IRQ")
      /\ "IRQPEND" \in G => IrqSeen(cs)
  BY InvFacts DEF Flags, Has, IrqSeen
<1>4. Sound(d, clk)
  BY <1>2, <1>3, FlagsSound
<1> HIDE DEF G
<1>5. /\ cs'.irq = d.irq /\ cs'.nmi = d.nmi /\ cs'.nirq = d.nirq /\ cs'.nnmi = d.nnmi
      /\ cs'.irq_clk = d.irq_clk /\ cs'.nmi_clk = d.nmi_clk /\ d.nmi_clk = cs.nmi_clk
      /\ cs'.irq_pending_clk = d.irq_pending_clk /\ cs'.global = G /\ d.global = G
      /\ cs'.trap_func = f
  BY <1>1, <1>2 DEF Status
<1>6. cs' \in Status
  BY <1>1, <1>2, <1>3 DEF Status
<1> HIDE DEF d
<1>7. Sound(cs', clk)
  BY <1>4, <1>5, <1>6 DEF Sound, InReach, Counted, Ends, Has
<1> QED
  BY <1>1, <1>5, <1>7, CallbackStep DEF Has, G

LEMMA RequestStep ==
    ASSUME IInv, Callbacks \/ at = "trap", UNCHANGED <<cpu, snap>>,
           NEW r \in {"RESET", "MONITOR", "DMA"}, NEW G,
           G = cs.global \cup {r} \/ (G = cs.global \ {r} /\ r # "RESET"),
           cs' = [cs EXCEPT !.global = G]
    PROVE  IInv'
<1>1. Sound(cs, clk) /\ cs \in Status /\ clk \in Nat /\ cs.global \in SUBSET Flags
  BY InvFacts DEF Callbacks, Broken
<1>2. /\ G \in SUBSET Flags
      /\ "IRQ" \in G <=> Has(cs, "IRQ")
      /\ "IRQPEND" \in G => IrqSeen(cs)
      /\ "TRAP" \in G <=> "TRAP" \in cs.global
      /\ "NMI" \in G <=> "NMI" \in cs.global
      /\ "RESET" \in cs.global => "RESET" \in G
  BY <1>1 DEF Flags, Has, IrqSeen
<1>3. Sound(cs', clk)
  BY <1>1, <1>2, FlagsSound
<1>4. cs'.global = G /\ cs'.nmi_clk = cs.nmi_clk /\ cs'.trap_func = cs.trap_func
  BY <1>1 DEF Status
<1>5. "TRAP" \in cs.global => cs.trap_func \in TrapFuncs
  BY DEF IInv, TrapOK, NoNullTrap
<1>6. at = "trap" => "TRAP" \notin cs.global
  BY DEF IInv, TrapOK
<1> QED
  BY <1>2, <1>3, <1>4, <1>5, <1>6, StatusStep DEF Has

LEMMA TriggerInv ==
    ASSUME IInv, NEW r \in Requests, Trigger(r)
    PROVE  IInv'
<1>1. r \in {"RESET", "MONITOR", "DMA"}
  BY InterruptAssumption
<1> QED
  BY <1>1, RequestStep DEF Trigger

LEMMA MonitorOffInv == ASSUME IInv, MonitorOff PROVE IInv'
  BY RequestStep DEF MonitorOff

LEMMA PreventOverflowInv == ASSUME IInv, PreventOverflow PROVE IInv'
<1>1. /\ Callbacks /\ clk >= Limit /\ clk' = clk - Sub /\ cs' = TimeWarp(cs, Sub)
      /\ UNCHANGED <<mask, last, at, ik, snap>>
  BY DEF PreventOverflow
<1>2. Sound(cs, clk) /\ clk \in Nat /\ at # "requests" /\ at # "trap"
  BY <1>1, CallbackSound, InvFacts
<1>3. /\ Sound(cs', clk') /\ cs'.global = cs.global /\ cs'.trap_func = cs.trap_func
      /\ cs'.nmi_clk = SubOrZero(cs.nmi_clk, Sub)
  BY <1>1, <1>2, TimeWarpSound
<1>4. clk' \in Clock /\ clk' \in Nat /\ clk' <= clk
  BY <1>1, <1>2, Consts DEF IInv, TypeOK, Clock
<1>5. TypeOK'
  BY <1>1, <1>3, <1>4 DEF IInv, TypeOK, Sound
<1>6. ClkBound'
  BY <1>1, <1>2, <1>4, Consts DEF IInv, ClkBound, Slack
<1>7. StatusOK' /\ SnapOK' /\ TrapOK' /\ ResetSeen'
  BY <1>1, <1>2, <1>3
     DEF IInv, StatusOK, Sound, SnapOK, TrapOK, NoNullTrap, ResetSeen, Broken
<1>8. EntryJustified'
  <2>1. ASSUME TakeNmi PROVE TakeNmi'
    <3>1. cs.nmi_clk \in Nat /\ clk >= cs.nmi_clk + 2 /\ Has(cs', "NMI")
      BY <2>1, <1>2, <1>3, StatusFields DEF TakeNmi, INTERRUPT_DELAY, Sound, Clock, Has
    <3>2. clk' >= cs'.nmi_clk + 2
      BY <3>1, <1>1, <1>2, <1>3, Consts DEF SubOrZero
    <3> QED
      BY <3>1, <3>2 DEF TakeNmi, INTERRUPT_DELAY
  <2> QED
    BY <1>1, <2>1 DEF IInv, EntryJustified
<1> QED
  BY <1>5, <1>6, <1>7, <1>8 DEF IInv

(* A theft leaves a date at most as close to the clock as it was. *)
LEMMA StolenDateLate ==
    ASSUME NEW now \in Nat, clk = now, NEW t \in Clock, t <= now, NEW start \in Clock, start <= now,
           NEW n \in Nat \ {0}, now + n <= CLOCK_MAX, NEW early \in BOOLEAN
    PROVE  LET u == StolenDate(t, start, n, early)
           IN  u \in Clock /\ u <= now + n /\ u <= t + n
<1> DEFINE less == IF early /\ start + (IF last = "delays" THEN 2 ELSE 1) = clk THEN 1 ELSE 0
           since == IF t > start THEN start ELSE t
<1>1. less \in {0, 1}
  OBVIOUS
<1>2. since \in Nat /\ since <= t /\ since <= now
  BY DEF Clock
<1>3. StolenDate(t, start, n, early) = since + n - less
  BY DEF StolenDate
<1> HIDE DEF less, since
<1> QED
  BY <1>1, <1>2, <1>3, Consts DEF Clock

LEMMA StealInv == ASSUME IInv, NEW n \in Dma, Steal(n) PROVE IInv'
<1>1. PICK start \in Dates, irq \in BOOLEAN, nmi \in BOOLEAN :
          cs' = [cs EXCEPT !.irq_clk = StolenDate(cs.irq_clk, start, n, irq),
                           !.nmi_clk = StolenDate(cs.nmi_clk, start, n, nmi)]
  BY DEF Steal
<1>2. /\ Callbacks /\ clk' = clk + n
      /\ clk + n < Limit + (IF at \in {"brk", "vector"} THEN 6 ELSE 0)
      /\ UNCHANGED <<mask, last, at, ik, snap>>
  BY DEF Steal
<1>3. /\ Sound(cs, clk) /\ clk \in Nat /\ at \in {"opcode", "ended", "brk", "vector"}
      /\ n \in Nat \ {0} /\ cs \in Status /\ start \in Clock /\ start <= clk
  BY <1>2, CallbackSound, InvFacts, DatesFacts, InterruptAssumption
<1>4. clk' \in Clock /\ clk' \in Nat /\ clk' > clk /\ ClkBound'
  BY <1>2, <1>3, Consts DEF ClkBound, Slack, Clock
<1>5. /\ cs.irq_clk \in Clock /\ cs.nmi_clk \in Clock /\ cs.irq_pending_clk \in Clock
      /\ cs.irq_clk <= clk /\ cs.nmi_clk <= clk
      /\ cs.irq_pending_clk < CLOCK_MAX => cs.irq_pending_clk <= clk + 3
  BY <1>3, StatusFields DEF Sound, InReach
<1> DEFINE i == StolenDate(cs.irq_clk, start, n, irq)
           m == StolenDate(cs.nmi_clk, start, n, nmi)
<1>6. i \in Clock /\ i <= clk' /\ m \in Clock /\ m <= clk' /\ m <= cs.nmi_clk + n
  BY <1>2, <1>3, <1>4, <1>5, StolenDateLate DEF Clock
<1> HIDE DEF i, m
<1>7. cs' = [cs EXCEPT !.irq_clk = i, !.nmi_clk = m]
  BY <1>1 DEF i, m
<1>8. cs' \in Status
  BY <1>3, <1>6, <1>7 DEF Status
<1>9. /\ cs'.irq = cs.irq /\ cs'.nmi = cs.nmi /\ cs'.nirq = cs.nirq /\ cs'.nnmi = cs.nnmi
      /\ cs'.irq_clk = i /\ cs'.nmi_clk = m /\ cs'.irq_pending_clk = cs.irq_pending_clk
      /\ cs'.global = cs.global /\ cs'.trap_func = cs.trap_func
  BY <1>3, <1>7 DEF Status
<1>10. InReach(cs', clk')
  <2>1. cs.irq_pending_clk < CLOCK_MAX => cs.irq_pending_clk <= clk' + 3
    BY <1>2, <1>3, <1>4, <1>5, Consts DEF Clock
  <2> QED
    BY <1>6, <1>9, <2>1 DEF InReach
<1>11. Counted(cs') /\ Ends(cs')
  BY <1>3, <1>9 DEF Sound, Counted, Ends, Has
<1>12. TypeOK'
  BY <1>2, <1>4, <1>8 DEF IInv, TypeOK
<1>13. StatusOK' /\ SnapOK' /\ TrapOK' /\ ResetSeen'
  BY <1>2, <1>3, <1>8, <1>9, <1>10, <1>11
     DEF IInv, StatusOK, SnapOK, TrapOK, NoNullTrap, ResetSeen
<1>14. EntryJustified'
  <2>1. ASSUME TakeNmi PROVE TakeNmi'
    <3>1. cs.nmi_clk \in Nat /\ clk >= cs.nmi_clk + 2 /\ Has(cs', "NMI")
      BY <2>1, <1>5, <1>9 DEF TakeNmi, INTERRUPT_DELAY, Clock, Has
    <3>2. clk' >= cs'.nmi_clk + 2
      BY <3>1, <1>2, <1>3, <1>6, <1>9, Consts DEF Clock
    <3> QED
      BY <3>1, <3>2 DEF TakeNmi, INTERRUPT_DELAY
  <2> QED
    BY <1>2, <2>1 DEF IInv, EntryJustified
<1> QED
  BY <1>4, <1>12, <1>13, <1>14 DEF IInv

LEMMA RunInv ==
    ASSUME IInv, NEW op \in Kinds, NEW n \in Cycles, Run(op, n)
    PROVE  IInv'
<1>1. /\ at = "opcode" /\ clk < Limit /\ clk' = clk + n /\ at' = "ended"
      /\ cs' = cs /\ ik' = ik /\ snap' = snap
      /\ last' \in Infos /\ mask' \in BOOLEAN
  BY DEF Run, Infos, IInv, TypeOK
<1>2. clk \in Nat /\ n \in Nat /\ n <= 8 /\ Sound(cs, clk)
  BY <1>1, InvFacts, Consts DEF Broken
<1>3. clk' \in Clock /\ clk' \in Nat /\ clk' >= clk /\ clk' <= Limit + 7
  BY <1>1, <1>2, Consts DEF Clock
<1>4. InReach(cs, clk')
  <2>1. cs.irq_clk \in Nat /\ cs.nmi_clk \in Nat /\ cs.irq_pending_clk \in Nat
    BY <1>2, StatusFields DEF Sound, Clock
  <2> QED
    BY <1>2, <1>3, <2>1, Consts DEF Sound, InReach
<1>5. TypeOK' /\ ClkBound'
  BY <1>1, <1>3, Consts DEF IInv, TypeOK, Stages, ClkBound, Slack
<1>6. StatusOK'
  BY <1>1, <1>2, <1>4 DEF StatusOK, Sound
<1>7. SnapOK' /\ TrapOK' /\ ResetSeen' /\ EntryJustified'
  BY <1>1 DEF IInv, SnapOK, TrapOK, NoNullTrap, ResetSeen, EntryJustified
<1> QED
  BY <1>5, <1>6, <1>7 DEF IInv

LEMMA ReachLater ==
    ASSUME NEW c, NEW now \in Nat, NEW n \in Nat, Sound(c, now)
    PROVE  Sound(c, now + n)
<1>1. c.irq_clk \in Nat /\ c.nmi_clk \in Nat /\ c.irq_pending_clk \in Nat
  BY StatusFields DEF Sound, Clock
<1> QED
  BY <1>1, Consts DEF Sound, InReach

(* The steps that change no snapshot and end where no reset can be lost. *)
LEMMA PlainStep ==
    ASSUME IInv, snap' = snap, Sound(cs', clk'), clk' \in Clock, ClkBound',
           mask' \in BOOLEAN, last' \in Infos,
           at' \in {"opcode", "ended", "brk"},
           ik' \in SUBSET Flags,
           cs'.trap_func = cs.trap_func,
           "TRAP" \in cs'.global \cup ik' => "TRAP" \in cs.global \cup ik
    PROVE  IInv'
<1>1. TypeOK'
  BY DEF IInv, TypeOK, Sound, Stages
<1>2. StatusOK' /\ SnapOK'
  BY DEF IInv, StatusOK, SnapOK, Sound
<1>3. TrapOK' /\ ResetSeen' /\ EntryJustified'
  BY DEF IInv, TrapOK, NoNullTrap, ResetSeen, EntryJustified
<1> QED
  BY <1>1, <1>2, <1>3 DEF IInv

LEMMA RunBrkInv == ASSUME IInv, RunBrk PROVE IInv'
<1>1. /\ at = "opcode" /\ clk < Limit /\ clk' = clk + 5 /\ at' = "brk" /\ last' = "brk"
      /\ cs' = cs /\ ik' = ik /\ snap' = snap /\ mask' = mask
  BY DEF RunBrk
<1>2. clk \in Nat /\ Sound(cs, clk)
  BY <1>1, InvFacts DEF Broken
<1>3. Sound(cs', clk')
  BY <1>1, <1>2, ReachLater
<1>4. clk' \in Clock /\ ClkBound'
  BY <1>1, <1>2, Consts DEF Clock, ClkBound, Slack
<1>5. mask' \in BOOLEAN /\ last' \in Infos /\ ik' \in SUBSET Flags
  BY <1>1 DEF IInv, TypeOK, Infos
<1> QED
  BY <1>1, <1>3, <1>4, <1>5, PlainStep

LEMMA AckFields ==
    ASSUME NEW c \in Status
    PROVE  /\ AckNmi(c).global = c.global \ {"NMI"}
           /\ AckNmi(c).trap_func = c.trap_func
           /\ AckNmi(c).irq = c.irq /\ AckNmi(c).nmi = c.nmi
           /\ AckNmi(c).nmi_clk = c.nmi_clk
           /\ AckIrq(c).global = c.global \ {"IRQPEND"}
           /\ AckIrq(c).trap_func = c.trap_func
           /\ AckIrq(c).irq = c.irq /\ AckIrq(c).nmi = c.nmi
           /\ AckIrq(c).nmi_clk = c.nmi_clk
  BY DEF AckNmi, AckIrq, Status

LEMMA EndBrkInv == ASSUME IInv, EndBrk PROVE IInv'
<1>1. /\ at = "brk" /\ clk' = clk + 2 /\ at' = "ended" /\ last' = last /\ mask' = TRUE
      /\ cs' \in {cs, AckNmi(cs), AckIrq(cs)} /\ ik' = ik /\ snap' = snap
  BY DEF EndBrk
<1>2. clk \in Nat /\ Sound(cs, clk) /\ cs \in Status
  BY <1>1, InvFacts DEF Broken
<1>3. Sound(cs', clk)
  BY <1>1, <1>2, AckNmiSound, AckIrqSound
<1>4. Sound(cs', clk')
  BY <1>1, <1>2, <1>3, ReachLater
<1>5. cs'.trap_func = cs.trap_func /\ cs'.global \subseteq cs.global
  BY <1>1, <1>2, AckFields
<1>6. clk' \in Clock /\ ClkBound'
  BY <1>1, <1>2, Consts DEF IInv, Clock, ClkBound, Slack
<1>7. mask' \in BOOLEAN /\ last' \in Infos /\ ik' \in SUBSET Flags
  BY <1>1 DEF IInv, TypeOK
<1> QED
  BY <1>1, <1>4, <1>5, <1>6, <1>7, PlainStep

LEMMA BoundaryFacts ==
    ASSUME IInv, at = "ended"
    PROVE  /\ Sound(AtBoundary, clk) /\ clk \in Nat /\ cs \in Status
           /\ AtBoundary.trap_func = cs.trap_func
           /\ AtBoundary.global \in {cs.global, cs.global \ {"IRQPEND"}}
           /\ AtBoundary.irq = cs.irq /\ AtBoundary.nmi = cs.nmi
           /\ Has(AtBoundary, "NMI") <=> Has(cs, "NMI")
           /\ AtBoundary.nmi_clk = cs.nmi_clk
<1>1. clk \in Nat /\ Sound(cs, clk) /\ cs \in Status
  BY InvFacts DEF Broken
<1>2. AtBoundary \in {cs, AckIrq(cs)}
  BY DEF AtBoundary
<1> QED
  BY <1>1, <1>2, AckIrqSound, AckFields DEF Has

LEMMA NoRequestInv == ASSUME IInv, NoRequest PROVE IInv'
<1>1. /\ at = "ended" /\ at' = "opcode" /\ cs' = AtBoundary
      /\ UNCHANGED <<clk, mask, last, ik, snap>>
  BY DEF NoRequest
<1>2. /\ Sound(cs', clk) /\ cs'.trap_func = cs.trap_func
      /\ cs'.global \in {cs.global, cs.global \ {"IRQPEND"}}
  BY <1>1, BoundaryFacts
<1>3. ClkBound'
  BY <1>1, Consts DEF IInv, ClkBound
<1>4. /\ mask' \in BOOLEAN /\ last' \in Infos /\ ik' \in SUBSET Flags
      /\ clk' \in Clock
  BY <1>1 DEF IInv, TypeOK
<1> QED
  BY <1>1, <1>2, <1>3, <1>4, PlainStep

LEMMA EnterInv == ASSUME IInv, Enter PROVE IInv'
<1>1. /\ at = "ended" /\ Enters(AtBoundary)
      /\ cs' = AtBoundary /\ ik' = AtBoundary.global
      /\ clk' = clk + 5 /\ mask' = TRUE /\ at' = "vector"
      /\ last' = last /\ snap' = snap
  BY DEF Enter
<1>2. /\ Sound(cs', clk) /\ clk \in Nat /\ cs'.trap_func = cs.trap_func
      /\ cs'.global \in {cs.global, cs.global \ {"IRQPEND"}}
  BY <1>1, BoundaryFacts
<1>3. Sound(cs', clk')
  BY <1>1, <1>2, ReachLater
<1>4. clk' \in Clock /\ ClkBound'
  BY <1>1, <1>2, Consts DEF IInv, Clock, ClkBound, Slack
<1>5. cs' \in Status /\ cs'.global \in SUBSET Flags /\ ik' = cs'.global
  BY <1>1, <1>3, StatusFields DEF Sound
<1>6. TypeOK'
  BY <1>1, <1>4, <1>5 DEF IInv, TypeOK, Stages
<1>7. StatusOK' /\ SnapOK'
  BY <1>1, <1>3 DEF IInv, StatusOK, SnapOK, Sound
<1>8. TrapOK' /\ ResetSeen'
  BY <1>1, <1>2, <1>5 DEF IInv, TrapOK, NoNullTrap, ResetSeen
<1>9. EntryJustified'
  <2>1. CASE NmiReady(AtBoundary)
    <3>1. Has(cs', "NMI") /\ clk >= cs'.nmi_clk + Delay
      BY <1>1, <2>1 DEF NmiReady
    <3>2. cs'.nmi_clk \in Nat
      BY <1>5, StatusFields DEF Clock
    <3>3. clk' >= cs'.nmi_clk + INTERRUPT_DELAY
      BY <1>1, <1>2, <3>1, <3>2 DEF Delay, INTERRUPT_DELAY
    <3> QED
      BY <3>1, <3>3 DEF EntryJustified, TakeNmi
  <2>2. CASE IrqReady(AtBoundary)
    BY <1>1, <2>2 DEF IrqReady, IrqSeen, Has, EntryJustified
  <2> QED
    BY <1>1, <2>1, <2>2 DEF Enters
<1> QED
  BY <1>4, <1>6, <1>7, <1>8, <1>9 DEF IInv

LEMMA HoldBackFacts ==
    ASSUME IInv, HoldBack
    PROVE  /\ Sound(cs', clk) /\ cs'.trap_func = cs.trap_func
           /\ cs'.irq = cs.irq /\ cs'.nmi = cs.nmi
           /\ cs'.global \in SUBSET Flags
           /\ cs'.global \subseteq cs.global \cup {"IRQPEND"}
           /\ cs.global \subseteq cs'.global \cup {"IRQPEND"}
           /\ Has(cs', "IRQPEND") => IrqSeen(cs)
           /\ ik' \in SUBSET Flags /\ ik' \subseteq cs.global /\ ik' \subseteq cs'.global
<1> DEFINE b == AtBoundary
           G == b.global \cup {"IRQPEND"}
<1>1. /\ at = "ended" /\ ik' = b.global
      /\ cs' = IF IrqReady(b) THEN [b EXCEPT !.global = G] ELSE b
  BY DEF HoldBack
<1>2. /\ Sound(b, clk) /\ clk \in Nat /\ b \in Status /\ b.trap_func = cs.trap_func
      /\ b.global \in {cs.global, cs.global \ {"IRQPEND"}}
      /\ b.irq = cs.irq /\ b.nmi = cs.nmi /\ b.global \in SUBSET Flags
  BY <1>1, BoundaryFacts, StatusFields DEF Sound
<1> HIDE DEF b
<1>3. CASE IrqReady(b)
  <2>1. cs' = [b EXCEPT !.global = G] /\ IrqSeen(b)
    BY <1>1, <1>3 DEF IrqReady
  <2>2. G \in SUBSET Flags
    BY <1>2 DEF Flags
  <2>3. /\ "IRQ" \in G <=> Has(b, "IRQ")
        /\ "IRQPEND" \in G => IrqSeen(b)
    BY <2>1 DEF Has
  <2>4. /\ cs'.global = G /\ cs'.trap_func = b.trap_func
        /\ cs'.irq = b.irq /\ cs'.nmi = b.nmi
    BY <1>2, <2>1 DEF Status
  <2>5. IrqSeen(cs)
    BY <1>2, <2>1 DEF IrqSeen, Has
  <2>6. /\ G \subseteq cs.global \cup {"IRQPEND"}
        /\ cs.global \subseteq G \cup {"IRQPEND"}
        /\ b.global \subseteq cs.global /\ b.global \subseteq G
    BY <1>2
  <2> HIDE DEF G
  <2>7. Sound(cs', clk)
    BY <2>1, <2>2, <2>3, <1>2, FlagsSound
  <2> QED
    BY <1>1, <1>2, <2>2, <2>4, <2>5, <2>6, <2>7
<1>4. CASE ~IrqReady(b)
  <2>1. cs' = b
    BY <1>1, <1>4
  <2>2. /\ b.global \subseteq cs.global
        /\ cs.global \subseteq b.global \cup {"IRQPEND"}
    BY <1>2
  <2>3. Has(cs', "IRQPEND") => IrqSeen(cs)
    BY <2>1, <2>2 DEF IrqSeen, Has
  <2> QED
    BY <1>1, <1>2, <2>1, <2>2, <2>3
<1> QED
  BY <1>3, <1>4

(* The steps between the places where requests are served. *)
LEMMA RequestsStep ==
    ASSUME IInv, snap' = snap, UNCHANGED <<clk, mask>>, last' \in Infos,
           at \notin {"brk", "opcode"},
           at' \in {"requests", "trap"}, Sound(cs', clk),
           cs'.trap_func = cs.trap_func, ik' \in SUBSET Flags,
           "TRAP" \in cs'.global \cup ik' => "TRAP" \in cs.global \cup ik,
           at' = "trap" => "TRAP" \notin cs'.global \cup ik',
           at' = "trap" \/ "TRAP" \in ik' => ("RESET" \in ik' => "RESET" \in cs'.global)
    PROVE  IInv'
<1>1. TypeOK' /\ ClkBound'
  BY DEF IInv, TypeOK, Sound, Stages, ClkBound
<1>2. StatusOK' /\ SnapOK'
  BY DEF IInv, StatusOK, SnapOK, Sound
<1>3. TrapOK' /\ ResetSeen' /\ EntryJustified'
  BY DEF IInv, TrapOK, NoNullTrap, ResetSeen, EntryJustified
<1> QED
  BY <1>1, <1>2, <1>3 DEF IInv

LEMMA HoldBackInv == ASSUME IInv, HoldBack PROVE IInv'
<1>1. at = "ended" /\ at' = "requests" /\ UNCHANGED <<clk, mask, last, snap>>
  BY DEF HoldBack
<1>2. last' \in Infos
  BY <1>1 DEF IInv, TypeOK
<1> QED
  BY <1>1, <1>2, HoldBackFacts, RequestsStep

LEMMA VectorInv == ASSUME IInv, Vector PROVE IInv'
<1>1. /\ at = "vector" /\ at' = "requests" /\ clk' = clk + 2 /\ last' = "brk"
      /\ cs' \in {AckNmi(cs), AckIrq(cs)} /\ UNCHANGED <<mask, ik, snap>>
  BY DEF Vector
<1>2. clk \in Nat /\ Sound(cs, clk) /\ cs \in Status
  BY <1>1, InvFacts DEF Broken
<1>3. /\ Sound(cs', clk') /\ cs'.trap_func = cs.trap_func
      /\ cs'.global \subseteq cs.global
      /\ ("RESET" \in cs.global => "RESET" \in cs'.global)
  BY <1>1, <1>2, AckNmiSound, AckIrqSound, ReachLater, AckFields
<1>4. TypeOK' /\ ClkBound'
  BY <1>1, <1>2, <1>3, Consts
     DEF IInv, TypeOK, Sound, Stages, Infos, ClkBound, Slack, Clock
<1>5. StatusOK' /\ SnapOK' /\ EntryJustified'
  BY <1>1, <1>3 DEF IInv, StatusOK, Sound, SnapOK, EntryJustified
<1>6. TrapOK'
  BY <1>1, <1>3 DEF IInv, TrapOK, NoNullTrap
<1>7. ResetSeen'
  BY <1>1, <1>3 DEF IInv, ResetSeen
<1> QED
  BY <1>4, <1>5, <1>6, <1>7 DEF IInv

LEMMA DoTrapFacts ==
    ASSUME IInv, DoTrap
    PROVE  /\ Sound(cs', clk) /\ cs'.global = cs.global \ {"TRAP"}
           /\ cs'.irq = cs.irq /\ cs'.nmi = cs.nmi
           /\ cs'.trap_func = cs.trap_func
<1> DEFINE G == cs.global \ {"TRAP"}
<1>1. cs' = [cs EXCEPT !.global = G] /\ at = "requests" /\ "TRAP" \in ik
  BY DEF DoTrap
<1>2. Sound(cs, clk) /\ clk \in Nat /\ cs \in Status /\ G \in SUBSET Flags
  BY <1>1, InvFacts DEF Broken
<1>3. ("IRQ" \in G <=> Has(cs, "IRQ")) /\ ("IRQPEND" \in G => IrqSeen(cs))
  BY DEF Has, IrqSeen
<1>4. Sound(cs', clk)
  BY <1>1, <1>2, <1>3, FlagsSound
<1> QED
  BY <1>1, <1>2, <1>4 DEF Status

LEMMA DoTrapInv == ASSUME IInv, DoTrap PROVE IInv'
<1>1. /\ at = "requests" /\ at' = "trap" /\ "TRAP" \in ik /\ ik' = ik \ {"TRAP"}
      /\ UNCHANGED <<clk, mask, last, snap>>
  BY DEF DoTrap
<1>2. last' \in Infos /\ ik' \in SUBSET Flags
  BY <1>1 DEF IInv, TypeOK
<1>3. "RESET" \in ik => "RESET" \in cs.global
  BY <1>1 DEF IInv, ResetSeen
<1> QED
  BY <1>1, <1>2, <1>3, DoTrapFacts, RequestsStep

LEMMA ReturnFacts ==
    ASSUME IInv, NEW c, Return(c)
    PROVE  /\ at = "trap" /\ at' = "requests" /\ cs' = c
           /\ ik' = ik \cup (c.global \cap {"RESET"})
           /\ ik' \in SUBSET Flags /\ "TRAP" \notin ik'
           /\ "TRAP" \notin cs.global
           /\ Sound(cs, clk) /\ cs \in Status
<1>1. /\ at = "trap" /\ at' = "requests" /\ cs' = c
      /\ ik' = ik \cup (c.global \cap {"RESET"})
  BY DEF Return
<1>2. Sound(cs, clk) /\ cs \in Status
  BY <1>1, InvFacts DEF Broken
<1>3. "TRAP" \notin ik /\ "TRAP" \notin cs.global
  BY <1>1 DEF IInv, TrapOK
<1>4. ik' \in SUBSET Flags
  BY <1>1 DEF IInv, TypeOK, Flags
<1> QED
  BY <1>1, <1>2, <1>3, <1>4

LEMMA SaveSnapshotInv == ASSUME IInv, SaveSnapshot PROVE IInv'
<1>1. /\ Return(cs) /\ UNCHANGED <<clk, mask, last>>
      /\ snap' = [status |-> cs, clk |-> clk, mask |-> mask, last |-> last]
  BY DEF SaveSnapshot, Snapshot
<1>2. /\ at = "trap" /\ at' = "requests" /\ cs' = cs /\ ik' \in SUBSET Flags
      /\ "TRAP" \notin ik' /\ "TRAP" \notin cs.global
      /\ Sound(cs, clk) /\ cs \in Status
  BY <1>1, ReturnFacts
<1>3. TypeOK' /\ ClkBound'
  BY <1>1, <1>2 DEF IInv, TypeOK, Stages, ClkBound
<1>4. StatusOK' /\ SnapOK'
  BY <1>1, <1>2, InvFacts DEF StatusOK, SnapOK, Sound
<1>5. TrapOK' /\ ResetSeen' /\ EntryJustified'
  BY <1>1, <1>2 DEF IInv, TrapOK, NoNullTrap, ResetSeen, EntryJustified
<1> QED
  BY <1>3, <1>4, <1>5 DEF IInv

LEMMA OtherTrapInv == ASSUME IInv, OtherTrap PROVE IInv'
<1>1. Return(cs) /\ UNCHANGED <<clk, mask, last, snap>>
  BY DEF OtherTrap
<1>2. /\ at = "trap" /\ at' = "requests" /\ cs' = cs /\ ik' \in SUBSET Flags
      /\ "TRAP" \notin ik' /\ "TRAP" \notin cs.global /\ Sound(cs, clk)
  BY <1>1, ReturnFacts
<1>3. last' \in Infos
  BY <1>1 DEF IInv, TypeOK
<1> QED
  BY <1>1, <1>2, <1>3, RequestsStep

(* With every chip restoring its own line, a load brings the saved status back. *)
LEMMA LoadedFacts ==
    ASSUME IInv, Acia \notin IrqSources
    PROVE  Loaded = [snap.status EXCEPT !.trap_func = cs.trap_func]
<1> DEFINE d == snap.status
           c == [[d EXCEPT !.irq = {}, !.nmi = {}, !.trap_func = cs.trap_func]
                   EXCEPT !.irq = d.irq, !.nmi = d.nmi]
<1>1. d \in Status
  BY DEF IInv, SnapOK
<1>2. Acia \notin d.irq /\ d.irq \ {Acia} = d.irq
  BY <1>1, StatusFields
<1>3. Loaded = c
  BY <1>2 DEF Loaded, CpuModuleRead
<1> HIDE DEF d
<1>4. c = [d EXCEPT !.trap_func = cs.trap_func]
  BY <1>1 DEF Status
<1> QED
  BY <1>3, <1>4 DEF d

LEMMA LoadedSound ==
    ASSUME IInv, Acia \notin IrqSources
    PROVE  /\ Sound(Loaded, snap.clk) /\ Loaded.global = snap.status.global
           /\ Loaded.irq = snap.status.irq /\ Loaded.nmi = snap.status.nmi
           /\ snap.clk \in Clock /\ snap.clk <= Limit + Slack
<1> DEFINE d == Loaded
           c == snap.status
<1>1. d = [c EXCEPT !.trap_func = cs.trap_func]
  BY LoadedFacts
<1>2. /\ c \in Status /\ InReach(c, snap.clk) /\ Counted(c) /\ Ends(c)
      /\ snap.clk \in Clock /\ snap.clk <= Limit + Slack
      /\ cs.trap_func \in TrapFuncs \cup {NoTrap}
  BY InvFacts DEF IInv, SnapOK, Sound, TypeOK
<1> HIDE DEF d, c
<1>3. d \in Status
  BY <1>1, <1>2 DEF Status
<1>4. /\ d.irq = c.irq /\ d.nmi = c.nmi /\ d.nirq = c.nirq /\ d.nnmi = c.nnmi
      /\ d.irq_clk = c.irq_clk /\ d.nmi_clk = c.nmi_clk
      /\ d.irq_pending_clk = c.irq_pending_clk /\ d.global = c.global
  BY <1>1, <1>2 DEF Status
<1>5. InReach(d, snap.clk) /\ Counted(d) /\ Ends(d)
  BY <1>2, <1>4 DEF InReach, Counted, Ends, Has
<1> QED
  BY <1>2, <1>3, <1>4, <1>5 DEF Sound, d, c

LEMMA LoadSnapshotInv ==
    ASSUME IInv, LoadSnapshot, Acia \notin IrqSources
    PROVE  IInv'
<1>1. /\ Return(Loaded) /\ clk' = snap.clk /\ mask' = snap.mask
      /\ last' = snap.last /\ snap' = snap
  BY DEF LoadSnapshot
<1>2. /\ at' = "requests" /\ cs' = Loaded /\ ik' \in SUBSET Flags
      /\ "TRAP" \notin ik'
  BY <1>1, ReturnFacts
<1>3. /\ Sound(cs', clk') /\ cs'.global = snap.status.global
      /\ clk' \in Clock /\ clk' <= Limit + Slack
  BY <1>1, <1>2, LoadedSound
<1>4. TypeOK' /\ ClkBound'
  BY <1>1, <1>2, <1>3 DEF IInv, TypeOK, Sound, Stages, ClkBound
<1>5. StatusOK' /\ SnapOK'
  BY <1>1, <1>3 DEF IInv, StatusOK, SnapOK, Sound
<1>6. "TRAP" \notin cs'.global \cup ik'
  BY <1>2, <1>3 DEF IInv, SnapOK
<1>7. TrapOK' /\ ResetSeen' /\ EntryJustified'
  BY <1>2, <1>6 DEF TrapOK, NoNullTrap, ResetSeen, EntryJustified
<1> QED
  BY <1>4, <1>5, <1>7 DEF IInv

LEMMA LoadFailsFacts ==
    ASSUME IInv, LoadFails
    PROVE  /\ at' = "requests" /\ ik' \in SUBSET Flags
           /\ "TRAP" \notin ik' /\ "RESET" \in ik'
           /\ cs' \in Status /\ InReach(cs', snap.clk) /\ "TRAP" \notin cs'.global
           /\ clk' = snap.clk /\ mask' = snap.mask
           /\ last' = snap.last /\ snap' = snap
<1>1. PICK irq \in SUBSET snap.status.irq, nmi \in SUBSET snap.status.nmi :
          Return([CpuModuleRead EXCEPT !.irq = irq, !.nmi = nmi,
                                       !.global = @ \cup {"RESET"}])
  BY DEF LoadFails
<1> DEFINE c == snap.status
           r == CpuModuleRead
           G == c.global \cup {"RESET"}
           d == [r EXCEPT !.irq = irq, !.nmi = nmi, !.global = r.global \cup {"RESET"}]
<1>2. /\ c \in Status /\ InReach(c, snap.clk) /\ "TRAP" \notin c.global
      /\ cs.trap_func \in TrapFuncs \cup {NoTrap}
  BY InvFacts DEF IInv, SnapOK, Sound
<1>3. Return(d)
  BY <1>1
<1>4. r = [c EXCEPT !.irq = {}, !.nmi = {}, !.trap_func = cs.trap_func]
  BY DEF CpuModuleRead
<1>5. irq \in SUBSET IrqSources /\ nmi \in SUBSET NmiSources /\ G \in SUBSET Flags
  BY <1>2, StatusFields DEF Flags
<1> HIDE DEF c, r
<1>6. r.global = c.global
  BY <1>2, <1>4 DEF Status
<1>7. d = [c EXCEPT !.irq = irq, !.nmi = nmi, !.global = G,
                    !.trap_func = cs.trap_func]
  BY <1>2, <1>4, <1>6 DEF Status
<1> HIDE DEF d
<1>8. d \in Status
  BY <1>2, <1>5, <1>7 DEF Status
<1>9. /\ d.global = G /\ d.irq_clk = c.irq_clk /\ d.nmi_clk = c.nmi_clk
      /\ d.irq_pending_clk = c.irq_pending_clk
  BY <1>2, <1>7 DEF Status
<1>10. InReach(d, snap.clk) /\ "TRAP" \notin d.global /\ "RESET" \in d.global
  BY <1>2, <1>9 DEF InReach
<1>11. /\ at' = "requests" /\ cs' = d /\ ik' = ik \cup (d.global \cap {"RESET"})
       /\ ik' \in SUBSET Flags /\ "TRAP" \notin ik'
  BY <1>3, ReturnFacts
<1>12. clk' = snap.clk /\ mask' = snap.mask /\ last' = snap.last /\ snap' = snap
  BY DEF LoadFails
<1> QED
  BY <1>8, <1>10, <1>11, <1>12

LEMMA LoadFailsInv == ASSUME IInv, LoadFails PROVE IInv'
<1>1. snap.clk \in Clock /\ snap.clk <= Limit + Slack
  BY DEF IInv, TypeOK, SnapOK
<1>2. TypeOK' /\ ClkBound'
  BY <1>1, LoadFailsFacts DEF IInv, TypeOK, Stages, ClkBound
<1>3. StatusOK' /\ SnapOK'
  BY LoadFailsFacts DEF IInv, StatusOK, SnapOK, Broken
<1>4. TrapOK' /\ ResetSeen' /\ EntryJustified'
  BY LoadFailsFacts DEF TrapOK, NoNullTrap, ResetSeen, EntryJustified
<1> QED
  BY <1>2, <1>3, <1>4 DEF IInv

LEMMA DoResetInv == ASSUME IInv, DoReset PROVE IInv'
<1> DEFINE r == ResetStatus
           G == cs.global \cap {"MONITOR"}
<1>1. /\ at = "requests" /\ at' = "requests" /\ "TRAP" \notin ik
      /\ cs' = [r EXCEPT !.global = G] /\ clk' = 6 /\ ik' = ik \ {"RESET"}
      /\ UNCHANGED <<mask, last, snap>>
  BY DEF DoReset
<1>2. 0 \in Clock /\ CLOCK_MAX \in Clock /\ 6 \in Clock
  BY Consts DEF Clock
<1>3. r \in Status
  BY <1>2 DEF Status, ResetStatus, Flags
<1>4. Sound(r, 6) /\ ~Has(r, "IRQ")
  BY <1>3, FS_EmptySet, Consts
     DEF Sound, ResetStatus, InReach, Counted, Ends, Has
<1>5. G \in SUBSET Flags /\ "IRQ" \notin G /\ "IRQPEND" \notin G /\ "TRAP" \notin G
  BY DEF Flags
<1> HIDE DEF r, G
<1>6. Sound(cs', 6)
  BY <1>1, <1>4, <1>5, FlagsSound
<1>7. cs'.global = G
  BY <1>1, <1>3 DEF Status
<1>8. TypeOK' /\ ClkBound'
  BY <1>1, <1>2, <1>6, Consts DEF IInv, TypeOK, Sound, ClkBound, Slack
<1>9. StatusOK' /\ SnapOK'
  BY <1>1, <1>6 DEF IInv, StatusOK, SnapOK, Sound
<1>10. TrapOK' /\ ResetSeen' /\ EntryJustified'
  BY <1>1, <1>5, <1>7 DEF TrapOK, NoNullTrap, ResetSeen, EntryJustified
<1> QED
  BY <1>8, <1>9, <1>10 DEF IInv

LEMMA EndRequestsFacts ==
    ASSUME IInv, EndRequests
    PROVE  /\ Sound(cs', clk) /\ cs'.trap_func = cs.trap_func
           /\ cs'.irq = cs.irq /\ cs'.nmi = cs.nmi
           /\ cs'.global \in {cs.global \ (ik \cap {"DMA"}),
                              (cs.global \ (ik \cap {"DMA"})) \ {"IRQPEND"}}
<1> DEFINE A == cs.global \ (ik \cap {"DMA"})
           c == [cs EXCEPT !.global = A]
           G == IF "IRQ" \in A THEN A ELSE A \ {"IRQPEND"}
<1>1. /\ at = "requests" /\ "RESET" \notin ik
      /\ cs' = IF Has(c, "IRQ") THEN c ELSE [c EXCEPT !.global = c.global \ {"IRQPEND"}]
  BY DEF EndRequests
<1>2. Sound(cs, clk) /\ clk \in Nat /\ cs \in Status /\ cs.global \in SUBSET Flags
  BY <1>1, InvFacts DEF Broken
<1>3. c.global = A
  BY <1>2 DEF Status
<1>4. cs' = [cs EXCEPT !.global = G]
  BY <1>1, <1>2, <1>3 DEF Status, Has
<1>5. /\ G \in SUBSET Flags
      /\ "IRQ" \in G <=> Has(cs, "IRQ")
      /\ "IRQPEND" \in G => IrqSeen(cs)
      /\ G \in {A, A \ {"IRQPEND"}}
  BY <1>2 DEF Has, IrqSeen
<1> HIDE DEF G, c
<1>6. Sound(cs', clk)
  BY <1>2, <1>4, <1>5, FlagsSound
<1>7. /\ cs'.global = G /\ cs'.trap_func = cs.trap_func
      /\ cs'.irq = cs.irq /\ cs'.nmi = cs.nmi
  BY <1>2, <1>4 DEF Status
<1> QED
  BY <1>5, <1>6, <1>7

LEMMA EndRequestsInv == ASSUME IInv, EndRequests PROVE IInv'
<1>1. /\ at' = "opcode" /\ ik' = {} /\ UNCHANGED <<clk, mask, last, snap>>
  BY DEF EndRequests
<1>2. TypeOK' /\ ClkBound'
  BY <1>1, EndRequestsFacts DEF IInv, TypeOK, Sound, Stages, ClkBound
<1>3. StatusOK' /\ SnapOK'
  BY <1>1, EndRequestsFacts DEF IInv, StatusOK, SnapOK, Sound
<1>4. TrapOK' /\ ResetSeen' /\ EntryJustified'
  BY <1>1, EndRequestsFacts
     DEF IInv, TrapOK, NoNullTrap, ResetSeen, EntryJustified
<1> QED
  BY <1>2, <1>3, <1>4 DEF IInv
-----------------------------------------------------------------------------
LEMMA StutterInv == ASSUME IInv, UNCHANGED vars PROVE IInv'
<1>1. UNCHANGED <<cs, clk, mask, last, at, ik, snap>>
  BY DEF vars
<1>2. TypeOK' /\ ClkBound'
  BY <1>1 DEF IInv, TypeOK, ClkBound
<1>3. StatusOK' /\ SnapOK'
  BY <1>1 DEF IInv, StatusOK, SnapOK, Broken
<1>4. TrapOK' /\ ResetSeen' /\ EntryJustified'
  BY <1>1 DEF IInv, TrapOK, NoNullTrap, ResetSeen, EntryJustified, TakeNmi, Has
<1> QED
  BY <1>2, <1>3, <1>4 DEF IInv

LEMMA StepInv ==
    ASSUME IInv, Step, Acia \notin IrqSources
    PROVE  IInv'
<1>1. CASE \E op \in Kinds, n \in Cycles : Run(op, n)
  BY <1>1, RunInv
<1>2. CASE RunBrk
  BY <1>2, RunBrkInv
<1>3. CASE EndBrk
  BY <1>3, EndBrkInv
<1>4. CASE NoRequest \/ Enter \/ HoldBack \/ Vector
  BY <1>4, NoRequestInv, EnterInv, HoldBackInv, VectorInv
<1>5. CASE DoTrap \/ SaveSnapshot \/ OtherTrap
  BY <1>5, DoTrapInv, SaveSnapshotInv, OtherTrapInv
<1>6. CASE LoadSnapshot
  BY <1>6, LoadSnapshotInv
<1>7. CASE LoadFails
  BY <1>7, LoadFailsInv
<1>8. CASE DoReset \/ EndRequests
  BY <1>8, DoResetInv, EndRequestsInv
<1> QED
  BY <1>1, <1>2, <1>3, <1>4, <1>5, <1>6, <1>7, <1>8 DEF Step

LEMMA NextInv ==
    ASSUME IInv, [Next]_vars, Acia \notin IrqSources
    PROVE  IInv'
<1>1. CASE Step
  BY <1>1, StepInv
<1>2. CASE PreventOverflow
  BY <1>2, PreventOverflowInv
<1>3. CASE \E s \in IrqSources, t \in Dates : SetIrq(s, t) \/ ClearIrq(s, t)
  BY <1>3, SetIrqInv, ClearIrqInv
<1>4. CASE \E s \in NmiSources : ClearNmi(s) \/ \E t \in Dates : SetNmi(s, t)
  BY <1>4, SetNmiInv, ClearNmiInv
<1>5. CASE \E f \in TrapFuncs : TriggerTrap(f)
  BY <1>5, TriggerTrapInv
<1>6. CASE \E r \in Requests : Trigger(r)
  BY <1>6, TriggerInv
<1>7. CASE MonitorOff
  BY <1>7, MonitorOffInv
<1>8. CASE \E n \in Dma : Steal(n)
  BY <1>8, StealInv
<1>9. CASE UNCHANGED vars
  BY <1>9, StutterInv
<1> QED
  BY <1>1, <1>2, <1>3, <1>4, <1>5, <1>6, <1>7, <1>8, <1>9 DEF Next

(* The inductive invariant, for a machine whose chips all restore their lines
   with interrupt_restore_irq: with an ACIA it does not hold. *)
THEOREM Invariance == ASSUME Acia \notin IrqSources PROVE Spec => []IInv
<1>1. Init => IInv
  BY InitInv
<1>2. IInv /\ [Next]_vars => IInv'
  BY NextInv
<1> QED
  BY <1>1, <1>2, PTL DEF Spec

(* Every variable keeps its type: no clock goes below zero in a warp, and none
   above CLOCK_MAX however late the guard looks. *)
THEOREM TypeCorrect == ASSUME Acia \notin IrqSources PROVE Spec => []TypeOK
<1>1. IInv => TypeOK
  BY DEF IInv
<1> QED
  BY <1>1, Invariance, PTL

(* nirq and nnmi count the lines that are pulled, and the CPU sees an IRQ
   exactly while one is, through interrupts, warps, resets and snapshots. *)
THEOREM LinesCorrect == ASSUME Acia \notin IrqSources PROVE Spec => []LinesCounted
<1>1. IInv => LinesCounted
  BY DEF IInv, StatusOK, Broken, LinesCounted, Doomed
<1> QED
  BY <1>1, Invariance, PTL

(* The IRQ the CPU may still serve after its end has an end. *)
THEOREM EndsCorrect == ASSUME Acia \notin IrqSources PROVE Spec => []PulseEnds
<1>1. IInv => PulseEnds
  BY DEF IInv, StatusOK, Broken, PulseEnds, Doomed
<1> QED
  BY <1>1, Invariance, PTL

(* No date of the status is ever in the future of the CPU's clock. *)
THEOREM DatesCorrect == ASSUME Acia \notin IrqSources PROVE Spec => []DatesInReach
<1>1. IInv => DatesInReach
  BY DEF IInv, StatusOK, DatesInReach
<1> QED
  BY <1>1, Invariance, PTL

(* The CPU never jumps through a vector with nothing to serve. *)
THEOREM EntryCorrect == ASSUME Acia \notin IrqSources PROVE Spec => []EntryJustified
<1>1. IInv => EntryJustified
  BY DEF IInv
<1> QED
  BY <1>1, Invariance, PTL

(* interrupt_do_trap never calls a NULL trap_func. *)
THEOREM TrapCorrect == ASSUME Acia \notin IrqSources PROVE Spec => []NoNullTrap
<1>1. IInv => NoNullTrap
  BY DEF IInv, TrapOK
<1> QED
  BY <1>1, Invariance, PTL
-----------------------------------------------------------------------------
(* What the pins of a status, and those of a machine in reset, are. *)
LEMMA PinValues ==
    ASSUME NEW c
    PROVE  /\ c.irq # {} => PinsOf(c).level = TRUE
           /\ c.irq = {} => PinsOf(c).level = FALSE
           /\ c.nmi # {} => PinsOf(c).line = TRUE
           /\ c.nmi = {} => PinsOf(c).line = FALSE
           /\ Has(c, "IRQPEND") => PinsOf(c).pulse = TRUE
           /\ ~Has(c, "IRQPEND") => PinsOf(c).pulse = FALSE
           /\ Has(c, "NMI") => PinsOf(c).latch = TRUE
           /\ ~Has(c, "NMI") => PinsOf(c).latch = FALSE
<1>1. /\ PinsOf(c).level = (c.irq # {}) /\ PinsOf(c).pulse = Has(c, "IRQPEND")
      /\ PinsOf(c).line = (c.nmi # {}) /\ PinsOf(c).latch = Has(c, "NMI")
  BY DEF PinsOf
<1>2. Has(c, "IRQPEND") \in BOOLEAN /\ Has(c, "NMI") \in BOOLEAN
  BY DEF Has
<1>3. /\ c.irq # {} => (c.irq # {}) = TRUE
      /\ c.irq = {} => (c.irq # {}) = FALSE
      /\ c.nmi # {} => (c.nmi # {}) = TRUE
      /\ c.nmi = {} => (c.nmi # {}) = FALSE
  OBVIOUS
<1>4. /\ Has(c, "IRQPEND") => Has(c, "IRQPEND") = TRUE
      /\ ~Has(c, "IRQPEND") => Has(c, "IRQPEND") = FALSE
      /\ Has(c, "NMI") => Has(c, "NMI") = TRUE
      /\ ~Has(c, "NMI") => Has(c, "NMI") = FALSE
  BY <1>2
<1> QED
  BY <1>1, <1>3, <1>4

LEMMA PinsEqual ==
    ASSUME NEW c, NEW d
    PROVE  /\ (c.irq = {} <=> d.irq = {}) => PinsOf(c).level = PinsOf(d).level
           /\ (c.nmi = {} <=> d.nmi = {}) => PinsOf(c).line = PinsOf(d).line
           /\ (Has(c, "IRQPEND") <=> Has(d, "IRQPEND")) => PinsOf(c).pulse = PinsOf(d).pulse
           /\ (Has(c, "NMI") <=> Has(d, "NMI")) => PinsOf(c).latch = PinsOf(d).latch
  BY PinValues

LEMMA PinsAlike ==
    ASSUME NEW c, NEW d, c.irq = {} <=> d.irq = {}, c.nmi = {} <=> d.nmi = {},
           Has(c, "IRQPEND") <=> Has(d, "IRQPEND"), Has(c, "NMI") <=> Has(d, "NMI")
    PROVE  PinsOf(c) = PinsOf(d)
  BY PinsEqual DEF PinsOf

LEMMA NoPins ==
    /\ Quiet.level = FALSE /\ Quiet.pulse = FALSE
    /\ Quiet.line = FALSE /\ Quiet.latch = FALSE
    /\ Pins!Quiet = Quiet
  BY DEF Quiet, Pins!Quiet

(* A step that changes no pin of a machine that runs on. *)
LEMMA PinsStutter ==
    ASSUME PinsNow' = PinsNow, snap' = snap
    PROVE  UNCHANGED Pins!pvars
  BY DEF PinsSaved, Pins!pvars

(* While nothing is served the machine is not about to be reset. *)
LEMMA CallbackPins ==
    ASSUME IInv, Callbacks, UNCHANGED <<cpu, snap>>
    PROVE  /\ PinsNow = PinsOf(cs) /\ PinsNow' = PinsOf(cs')
           /\ PinsSaved' = PinsSaved
<1>1. ~Doomed
  BY DEF Callbacks, Doomed
<1>2. ~Doomed'
  BY <1>1 DEF Doomed, cpu
<1> QED
  BY <1>1, <1>2 DEF PinsNow, PinsSaved, PinsOf, Has

LEMMA SetIrqPins ==
    ASSUME IInv, NEW s \in IrqSources, NEW t \in Dates, SetIrq(s, t)
    PROVE  [Pins!PNext]_(Pins!pvars)
<1>1. Callbacks /\ cs' = RaiseIrq(cs, s, t) /\ UNCHANGED <<cpu, snap>>
  BY DEF SetIrq
<1>2. /\ PinsNow = PinsOf(cs) /\ PinsNow' = PinsOf(cs') /\ PinsSaved' = PinsSaved
  BY <1>1, CallbackPins
<1>3. Sound(cs, clk) /\ clk \in Nat /\ t \in Clock /\ t <= clk
  BY <1>1, CallbackSound, InvFacts, DatesFacts
<1>4. CASE s \in cs.irq
  <2>1. cs' = cs
    BY <1>1, <1>3, <1>4, RaiseIrqSound
  <2> QED
    BY <2>1, <1>1, <1>2, PinsStutter
<1>5. CASE s \notin cs.irq
  <2>1. /\ cs'.irq # {} /\ Has(cs', "IRQPEND") /\ cs'.nmi = cs.nmi
        /\ Has(cs', "NMI") <=> Has(cs, "NMI")
    BY <1>1, <1>3, <1>5, RaiseIrqSound DEF Has
  <2>2. /\ PinsNow'.level = TRUE /\ PinsNow'.pulse = TRUE
        /\ PinsNow'.line = PinsNow.line /\ PinsNow'.latch = PinsNow.latch
    BY <2>1, <1>2, PinValues, PinsEqual
  <2> QED
    BY <2>2, <1>2 DEF Pins!PNext, Pins!PullIrq, Pins!nmiPin
<1> QED
  BY <1>4, <1>5

LEMMA ClearIrqPins ==
    ASSUME IInv, NEW s \in IrqSources, NEW t \in Dates, ClearIrq(s, t)
    PROVE  [Pins!PNext]_(Pins!pvars)
<1>1. Callbacks /\ cs' = LowerIrq(cs, s, t) /\ UNCHANGED <<cpu, snap>>
  BY DEF ClearIrq
<1>2. PinsNow = PinsOf(cs) /\ PinsNow' = PinsOf(cs') /\ PinsSaved' = PinsSaved
  BY <1>1, CallbackPins
<1>3. Sound(cs, clk) /\ clk \in Nat /\ t \in Clock /\ t <= clk /\ clk <= Limit + Slack
  BY <1>1, CallbackSound, InvFacts, DatesFacts
<1>4. /\ cs'.irq \subseteq cs.irq /\ cs'.nmi = cs.nmi
      /\ Has(cs', "IRQPEND") <=> Has(cs, "IRQPEND")
      /\ Has(cs', "NMI") <=> Has(cs, "NMI")
  BY <1>1, <1>3, LowerIrqSound DEF Has
<1>5. /\ PinsNow'.pulse = PinsNow.pulse
      /\ PinsNow'.line = PinsNow.line /\ PinsNow'.latch = PinsNow.latch
  BY <1>2, <1>4, PinsEqual
<1>6. CASE cs'.irq = {}
  <2>1. PinsNow'.level = FALSE
    BY <1>2, <1>6, PinValues
  <2> QED
    BY <2>1, <1>2, <1>5 DEF Pins!PNext, Pins!ReleaseIrq, Pins!nmiPin
<1>7. CASE cs'.irq # {}
  <2>1. PinsNow'.level = PinsNow.level
    BY <1>2, <1>4, <1>7, PinsEqual
  <2> QED
    BY <2>1, <1>2, <1>5 DEF Pins!pvars
<1> QED
  BY <1>6, <1>7

LEMMA SetNmiPins ==
    ASSUME IInv, NEW s \in NmiSources, NEW t \in Dates, SetNmi(s, t)
    PROVE  [Pins!PNext]_(Pins!pvars)
<1>1. Callbacks /\ cs' = RaiseNmi(cs, s, t) /\ UNCHANGED <<cpu, snap>>
  BY DEF SetNmi
<1>2. PinsNow = PinsOf(cs) /\ PinsNow' = PinsOf(cs') /\ PinsSaved' = PinsSaved
  BY <1>1, CallbackPins
<1>3. Sound(cs, clk) /\ clk \in Nat /\ t \in Clock /\ t <= clk
  BY <1>1, CallbackSound, InvFacts, DatesFacts
<1>4. /\ cs'.irq = cs.irq /\ cs'.nmi # {}
      /\ Has(cs', "IRQPEND") <=> Has(cs, "IRQPEND")
      /\ cs.nmi # {} => (Has(cs', "NMI") <=> Has(cs, "NMI"))
      /\ cs.nmi = {} => Has(cs', "NMI")
  BY <1>1, <1>3, RaiseNmiSound DEF Has
<1>5. PinsNow'.level = PinsNow.level /\ PinsNow'.pulse = PinsNow.pulse
  BY <1>2, <1>4, PinsEqual
<1>6. CASE cs.nmi = {}
  <2>1. PinsNow.line = FALSE /\ PinsNow'.line = TRUE /\ PinsNow'.latch = TRUE
    BY <1>2, <1>4, <1>6, PinValues
  <2> QED
    BY <2>1, <1>2, <1>5 DEF Pins!PNext, Pins!Edge, Pins!irqPin
<1>7. CASE cs.nmi # {}
  <2>1. PinsNow'.line = PinsNow.line /\ PinsNow'.latch = PinsNow.latch
    BY <1>2, <1>4, <1>7, PinsEqual
  <2> QED
    BY <2>1, <1>2, <1>5 DEF Pins!pvars
<1> QED
  BY <1>6, <1>7

LEMMA ClearNmiPins ==
    ASSUME IInv, NEW s \in NmiSources, ClearNmi(s)
    PROVE  [Pins!PNext]_(Pins!pvars)
<1>1. Callbacks /\ cs' = LowerNmi(cs, s) /\ UNCHANGED <<cpu, snap>>
  BY DEF ClearNmi
<1>2. PinsNow = PinsOf(cs) /\ PinsNow' = PinsOf(cs') /\ PinsSaved' = PinsSaved
  BY <1>1, CallbackPins
<1>3. Sound(cs, clk) /\ clk \in Nat
  BY <1>1, CallbackSound, InvFacts
<1>4. /\ cs'.irq = cs.irq /\ cs'.nmi \subseteq cs.nmi
      /\ Has(cs', "IRQPEND") <=> Has(cs, "IRQPEND")
      /\ Has(cs', "NMI") <=> Has(cs, "NMI")
  BY <1>1, <1>3, LowerNmiSound DEF Has
<1>5. /\ PinsNow'.level = PinsNow.level /\ PinsNow'.pulse = PinsNow.pulse
      /\ PinsNow'.latch = PinsNow.latch
  BY <1>2, <1>4, PinsEqual
<1>6. CASE cs'.nmi = {}
  <2>1. PinsNow'.line = FALSE
    BY <1>2, <1>6, PinValues
  <2> QED
    BY <2>1, <1>2, <1>5 DEF Pins!PNext, Pins!ReleaseNmi, Pins!irqPin
<1>7. CASE cs'.nmi # {}
  <2>1. PinsNow'.line = PinsNow.line
    BY <1>2, <1>4, <1>7, PinsEqual
  <2> QED
    BY <2>1, <1>2, <1>5 DEF Pins!pvars
<1> QED
  BY <1>6, <1>7

(* A step of a machine that runs on, which may forget an IRQ that has ended. *)
LEMMA ForgetStep ==
    ASSUME ~Doomed, ~Doomed', snap' = snap,
           cs'.irq = cs.irq, cs'.nmi = cs.nmi, Has(cs', "NMI") <=> Has(cs, "NMI"),
           Has(cs', "IRQPEND") => Has(cs, "IRQPEND")
    PROVE  [Pins!PNext]_(Pins!pvars)
<1>1. PinsNow = PinsOf(cs) /\ PinsNow' = PinsOf(cs') /\ PinsSaved' = PinsSaved
  BY DEF PinsNow, PinsSaved, PinsOf, Has
<1>2. /\ PinsNow'.level = PinsNow.level
      /\ PinsNow'.line = PinsNow.line /\ PinsNow'.latch = PinsNow.latch
  BY <1>1, PinsEqual
<1>3. CASE Has(cs', "IRQPEND")
  <2>1. PinsNow'.pulse = PinsNow.pulse
    BY <1>1, <1>3, PinsEqual
  <2> QED
    BY <2>1, <1>1, <1>2 DEF Pins!pvars
<1>4. CASE ~Has(cs', "IRQPEND")
  <2>1. PinsNow'.pulse = FALSE
    BY <1>1, <1>4, PinValues
  <2> QED
    BY <2>1, <1>1, <1>2 DEF Pins!PNext, Pins!Forget, Pins!nmiPin
<1> QED
  BY <1>3, <1>4

(* A step after which a reset is bound to follow: it is the reset's. *)
LEMMA ResetStep ==
    ASSUME PinsNow' = Quiet, PinsSaved' \in {PinsSaved, Quiet}
    PROVE  [Pins!PNext]_(Pins!pvars)
<1>1. Pins!Become(Pins!Quiet)
  BY NoPins DEF Pins!Become
<1> QED
  BY <1>1, NoPins DEF Pins!PNext, Pins!PReset

LEMMA SavedPins == ASSUME snap' = snap PROVE PinsSaved' = PinsSaved
  BY DEF PinsSaved, PinsOf, Has

LEMMA DoomedStep ==
    ASSUME Doomed', snap' = snap
    PROVE  [Pins!PNext]_(Pins!pvars)
<1>1. PinsNow' = Quiet
  BY DEF PinsNow, Quiet
<1> QED
  BY <1>1, SavedPins, ResetStep

(* A step that changes no pin, but that it may forget an IRQ. *)
LEMMA QuietStep ==
    ASSUME Doomed => Doomed', snap' = snap,
           cs'.irq = cs.irq, cs'.nmi = cs.nmi, Has(cs', "NMI") <=> Has(cs, "NMI"),
           Has(cs', "IRQPEND") => Has(cs, "IRQPEND")
    PROVE  [Pins!PNext]_(Pins!pvars)
  BY DoomedStep, ForgetStep

LEMMA TriggerPins ==
    ASSUME IInv, \/ \E f \in TrapFuncs : TriggerTrap(f)
                 \/ \E r \in Requests : Trigger(r)
                 \/ MonitorOff
    PROVE  [Pins!PNext]_(Pins!pvars)
<1>1. cs \in Status
  BY InvFacts
<1>2. UNCHANGED <<cpu, snap>>
  BY DEF TriggerTrap, Trigger, MonitorOff
<1>3. CASE \E f \in TrapFuncs : TriggerTrap(f)
  <2>1. PICK f \in TrapFuncs : TriggerTrap(f)
    BY <1>3
  <2>2. cs' = [cs EXCEPT !.global = @ \cup {"TRAP"}, !.trap_func = f]
    BY <2>1 DEF TriggerTrap
  <2>3. cs'.irq = cs.irq /\ cs'.nmi = cs.nmi /\ cs'.global = cs.global \cup {"TRAP"}
    BY <1>1, <2>2 DEF Status
  <2> QED
    BY <2>3, <1>2, QuietStep DEF Has, Doomed, cpu
<1>4. CASE MonitorOff \/ \E r \in Requests : Trigger(r)
  <2>1. PICK r \in {"RESET", "MONITOR", "DMA"} :
            \/ cs' = [cs EXCEPT !.global = @ \cup {r}]
            \/ cs' = [cs EXCEPT !.global = @ \ {r}]
    BY <1>4, InterruptAssumption DEF MonitorOff, Trigger
  <2>2. /\ cs'.irq = cs.irq /\ cs'.nmi = cs.nmi
        /\ cs'.global \in {cs.global \cup {r}, cs.global \ {r}}
    BY <1>1, <2>1 DEF Status
  <2>3. (Has(cs', "NMI") <=> Has(cs, "NMI")) /\ (Has(cs', "IRQPEND") <=> Has(cs, "IRQPEND"))
    BY <2>2 DEF Has
  <2> QED
    BY <2>2, <2>3, <1>2, QuietStep DEF Doomed, cpu
<1> QED
  BY <1>3, <1>4

LEMMA PreventOverflowPins ==
    ASSUME IInv, PreventOverflow
    PROVE  [Pins!PNext]_(Pins!pvars)
<1>1. /\ Callbacks /\ clk >= Limit /\ cs' = TimeWarp(cs, Sub)
      /\ UNCHANGED <<at, ik, snap>>
  BY DEF PreventOverflow
<1>2. Sound(cs, clk) /\ clk \in Nat
  BY <1>1, CallbackSound, InvFacts
<1>3. cs'.irq = cs.irq /\ cs'.nmi = cs.nmi /\ cs'.global = cs.global
  BY <1>1, <1>2, TimeWarpSound
<1> QED
  BY <1>1, <1>3, QuietStep DEF Has, Doomed

LEMMA StealPins ==
    ASSUME IInv, NEW n \in Dma, Steal(n)
    PROVE  [Pins!PNext]_(Pins!pvars)
<1>1. PICK i, m : cs' = [cs EXCEPT !.irq_clk = i, !.nmi_clk = m]
  BY DEF Steal
<1>2. Callbacks /\ UNCHANGED <<at, ik, snap>> /\ cs \in Status
  BY InvFacts DEF Steal
<1>3. cs'.irq = cs.irq /\ cs'.nmi = cs.nmi /\ cs'.global = cs.global
  BY <1>1, <1>2 DEF Status
<1> QED
  BY <1>2, <1>3, QuietStep DEF Has, Doomed

LEMMA RunPins ==
    ASSUME IInv, RunBrk \/ \E op \in Kinds, n \in Cycles : Run(op, n)
    PROVE  [Pins!PNext]_(Pins!pvars)
<1>1. at = "opcode" /\ cs' = cs /\ snap' = snap
  BY DEF RunBrk, Run
<1> QED
  BY <1>1, QuietStep DEF Doomed

(* Whoever takes the vector of a NMI or of an IRQ acknowledges that one. *)
LEMMA AckStep ==
    ASSUME ~Doomed, ~Doomed', snap' = snap, cs \in Status,
           \/ cs' = cs \/ cs' = AckIrq(cs)
           \/ Has(cs, "NMI") /\ cs' = AckNmi(cs)
    PROVE  [Pins!PNext]_(Pins!pvars)
<1>1. CASE cs' = cs \/ cs' = AckIrq(cs)
  BY <1>1, AckFields, ForgetStep DEF Has
<1>2. CASE Has(cs, "NMI") /\ cs' = AckNmi(cs)
  <2>1. PinsNow = PinsOf(cs) /\ PinsNow' = PinsOf(cs') /\ PinsSaved' = PinsSaved
    BY SavedPins DEF PinsNow, PinsOf, Has
  <2>2. /\ cs'.irq = cs.irq /\ cs'.nmi = cs.nmi
        /\ Has(cs', "IRQPEND") <=> Has(cs, "IRQPEND")
        /\ ~Has(cs', "NMI")
    BY <1>2, AckFields DEF Has
  <2>3. /\ PinsNow'.level = PinsNow.level /\ PinsNow'.pulse = PinsNow.pulse
        /\ PinsNow'.line = PinsNow.line
    BY <2>1, <2>2, PinsEqual
  <2>4. PinsNow.latch = TRUE /\ PinsNow'.latch = FALSE
    BY <1>2, <2>1, <2>2, PinValues
  <2> QED
    BY <2>1, <2>3, <2>4 DEF Pins!PNext, Pins!ServeNmi, Pins!irqPin
<1> QED
  BY <1>1, <1>2

LEMMA EndBrkPins ==
    ASSUME IInv, EndBrk
    PROVE  [Pins!PNext]_(Pins!pvars)
<1>1. /\ at = "brk" /\ at' = "ended" /\ snap' = snap
      /\ \/ cs' = cs \/ cs' = AckIrq(cs)
         \/ Has(cs, "NMI") /\ cs' = AckNmi(cs)
  BY DEF EndBrk, BrkTakesNmi
<1> QED
  BY <1>1, InvFacts, AckStep DEF Doomed

LEMMA VectorPins ==
    ASSUME IInv, Vector
    PROVE  [Pins!PNext]_(Pins!pvars)
<1>1. /\ at = "vector" /\ snap' = snap
      /\ \/ cs' = AckIrq(cs)
         \/ Has(cs, "NMI") /\ cs' = AckNmi(cs)
  BY DEF Vector, TakeNmi
<1>2. ~Doomed
  BY <1>1 DEF Doomed
<1> QED
  BY <1>1, <1>2, InvFacts, AckStep, DoomedStep

LEMMA BoundaryPins ==
    ASSUME IInv, NoRequest \/ Enter
    PROVE  [Pins!PNext]_(Pins!pvars)
<1>1. at = "ended" /\ cs' = AtBoundary /\ snap' = snap
  BY DEF NoRequest, Enter
<1>2. cs'.irq = cs.irq /\ cs'.nmi = cs.nmi
      /\ cs'.global \in {cs.global, cs.global \ {"IRQPEND"}}
  BY <1>1, BoundaryFacts
<1> QED
  BY <1>1, <1>2, QuietStep DEF Has, Doomed

LEMMA HoldBackPins ==
    ASSUME IInv, HoldBack
    PROVE  [Pins!PNext]_(Pins!pvars)
<1>1. at = "ended" /\ snap' = snap /\ ~Doomed
  BY DEF HoldBack, Doomed
<1>2. /\ cs'.irq = cs.irq /\ cs'.nmi = cs.nmi
      /\ Has(cs', "NMI") <=> Has(cs, "NMI")
      /\ Has(cs', "IRQPEND") => IrqSeen(cs)
  BY HoldBackFacts DEF Has
<1>3. CASE Has(cs', "IRQPEND") => Has(cs, "IRQPEND")
  BY <1>1, <1>2, <1>3, QuietStep
<1>4. CASE Has(cs', "IRQPEND") /\ ~Has(cs, "IRQPEND")
  <2>1. CASE Doomed'
    BY <2>1, <1>1, DoomedStep
  <2>2. CASE ~Doomed'
    <3>1. PinsNow = PinsOf(cs) /\ PinsNow' = PinsOf(cs') /\ PinsSaved' = PinsSaved
      BY <1>1, <2>2, SavedPins DEF PinsNow, PinsOf, Has
    <3>2. cs.irq # {}
      <4>1. Sound(cs, clk) /\ Has(cs, "IRQ")
        BY <1>1, <1>2, <1>4, InvFacts DEF Broken, IrqSeen
      <4> QED
        BY <4>1 DEF Sound, Counted
    <3>3. PinsNow.level = TRUE /\ PinsNow'.pulse = TRUE
      BY <3>1, <3>2, <1>4, PinValues
    <3>4. /\ PinsNow'.level = PinsNow.level
          /\ PinsNow'.line = PinsNow.line /\ PinsNow'.latch = PinsNow.latch
      BY <3>1, <1>2, PinsEqual
    <3> QED
      BY <3>1, <3>3, <3>4 DEF Pins!PNext, Pins!Resample, Pins!nmiPin
  <2> QED
    BY <2>1, <2>2
<1> QED
  BY <1>3, <1>4

LEMMA DoTrapPins ==
    ASSUME IInv, DoTrap
    PROVE  [Pins!PNext]_(Pins!pvars)
<1>1. /\ at = "requests" /\ at' = "trap" /\ ik' = ik \ {"TRAP"} /\ snap' = snap
  BY DEF DoTrap
<1>2. (Doomed => Doomed') /\ (Has(cs', "NMI") <=> Has(cs, "NMI"))
      /\ (Has(cs', "IRQPEND") <=> Has(cs, "IRQPEND"))
  BY <1>1, DoTrapFacts DEF Doomed, Has
<1> QED
  BY <1>1, <1>2, DoTrapFacts, QuietStep

LEMMA EndRequestsPins ==
    ASSUME IInv, EndRequests
    PROVE  [Pins!PNext]_(Pins!pvars)
<1>1. "RESET" \notin ik /\ snap' = snap
  BY DEF EndRequests
<1>2. (Has(cs', "NMI") <=> Has(cs, "NMI"))
      /\ (Has(cs', "IRQPEND") => Has(cs, "IRQPEND"))
  BY EndRequestsFacts DEF Has
<1> QED
  BY <1>1, <1>2, EndRequestsFacts, QuietStep DEF Doomed

(* A reset leaves no pin pulled. *)
LEMMA DoResetPins ==
    ASSUME IInv, DoReset
    PROVE  [Pins!PNext]_(Pins!pvars)
<1>1. cs' = [ResetStatus EXCEPT !.global = cs.global \cap {"MONITOR"}] /\ snap' = snap
  BY DEF DoReset
<1>2. /\ cs'.irq = {} /\ cs'.nmi = {}
      /\ ~Has(cs', "IRQPEND") /\ ~Has(cs', "NMI")
  BY <1>1 DEF ResetStatus, Has
<1>3. PinsOf(cs') = Quiet
  BY <1>2, PinValues DEF PinsOf, Quiet
<1>4. PinsNow' = Quiet
  BY <1>3 DEF PinsNow, PinsOf, Has, Quiet
<1> QED
  BY <1>1, <1>4, SavedPins, ResetStep

LEMMA OtherTrapPins ==
    ASSUME IInv, OtherTrap
    PROVE  [Pins!PNext]_(Pins!pvars)
<1>1. Return(cs) /\ snap' = snap
  BY DEF OtherTrap
<1>2. /\ at = "trap" /\ at' = "requests" /\ cs' = cs
      /\ ik' = ik \cup (cs.global \cap {"RESET"})
  BY <1>1, ReturnFacts
<1> QED
  BY <1>1, <1>2, QuietStep DEF Doomed

(* A snapshot holds the pins of the moment, or those of a reset that waits. *)
LEMMA SaveSnapshotPins ==
    ASSUME IInv, SaveSnapshot
    PROVE  [Pins!PNext]_(Pins!pvars)
<1>1. Return(cs) /\ snap' = [status |-> cs, clk |-> clk, mask |-> mask, last |-> last]
  BY DEF SaveSnapshot, Snapshot
<1>2. /\ at = "trap" /\ at' = "requests" /\ cs' = cs
      /\ ik' = ik \cup (cs.global \cap {"RESET"})
  BY <1>1, ReturnFacts
<1>3. snap'.status = cs
  BY <1>1
<1>4. CASE Has(cs, "RESET")
  <2>1. PinsSaved' = Quiet
    BY <1>3, <1>4 DEF PinsSaved, Quiet, Has
  <2>2. PinsNow' = Quiet
    BY <1>2, <1>4 DEF PinsNow, Doomed, Quiet, Has
  <2> QED
    BY <2>1, <2>2, ResetStep
<1>5. CASE ~Has(cs, "RESET")
  <2>1. ~Doomed
    BY <1>2, <1>5 DEF IInv, ResetSeen, Doomed, Has
  <2>2. ~Doomed'
    BY <1>2, <1>5, <2>1 DEF Doomed, Has
  <2>3. PinsNow = PinsOf(cs) /\ PinsNow' = PinsOf(cs)
    BY <1>2, <2>1, <2>2 DEF PinsNow, PinsOf, Has
  <2>4. PinsSaved' = PinsOf(cs)
    BY <1>3, <1>5 DEF PinsSaved, PinsOf, Has
  <2>5. PinsSaved' = Pins!Pins
    BY <2>3, <2>4 DEF Pins!Pins, PinsOf
  <2> QED
    BY <2>3, <2>5 DEF Pins!PNext, Pins!PSave, Pins!irqPin, Pins!nmiPin
<1> QED
  BY <1>4, <1>5

LEMMA LoadSnapshotPins ==
    ASSUME IInv, LoadSnapshot, Acia \notin IrqSources
    PROVE  [Pins!PNext]_(Pins!pvars)
<1>1. Return(Loaded) /\ snap' = snap
  BY DEF LoadSnapshot
<1>2. /\ at = "trap" /\ at' = "requests" /\ cs' = Loaded
      /\ ik' = ik \cup (Loaded.global \cap {"RESET"})
  BY <1>1, ReturnFacts
<1>3. /\ cs'.global = snap.status.global
      /\ cs'.irq = snap.status.irq /\ cs'.nmi = snap.status.nmi
  BY <1>2, LoadedSound
<1>4. CASE Doomed'
  BY <1>1, <1>4, DoomedStep
<1>5. CASE ~Doomed'
  <2>1. PinsNow' = PinsOf(cs')
    BY <1>5 DEF PinsNow, PinsOf, Has
  <2>2. ~Has(snap.status, "RESET")
    BY <1>2, <1>3, <1>5 DEF Doomed, Has
  <2>3. PinsSaved = PinsOf(snap.status)
    BY <2>2 DEF PinsSaved
  <2>4. PinsOf(cs') = PinsOf(snap.status)
    BY <1>3, PinsAlike DEF Has
  <2> QED
    BY <1>1, <2>1, <2>3, <2>4, SavedPins DEF Pins!PNext, Pins!PLoad, Pins!Become
<1> QED
  BY <1>4, <1>5

LEMMA LoadFailsPins ==
    ASSUME IInv, LoadFails
    PROVE  [Pins!PNext]_(Pins!pvars)
<1>1. at' = "requests" /\ "RESET" \in ik' /\ snap' = snap
  BY LoadFailsFacts
<1> QED
  BY <1>1, DoomedStep DEF Doomed

LEMMA StepPins ==
    ASSUME IInv, Step, Acia \notin IrqSources
    PROVE  [Pins!PNext]_(Pins!pvars)
<1>1. CASE RunBrk \/ \E op \in Kinds, n \in Cycles : Run(op, n)
  BY <1>1, RunPins
<1>2. CASE EndBrk \/ Vector
  BY <1>2, EndBrkPins, VectorPins
<1>3. CASE NoRequest \/ Enter \/ HoldBack
  BY <1>3, BoundaryPins, HoldBackPins
<1>4. CASE DoTrap \/ OtherTrap \/ DoReset \/ EndRequests
  BY <1>4, DoTrapPins, OtherTrapPins, DoResetPins, EndRequestsPins
<1>5. CASE SaveSnapshot \/ LoadSnapshot \/ LoadFails
  BY <1>5, SaveSnapshotPins, LoadSnapshotPins, LoadFailsPins
<1> QED
  BY <1>1, <1>2, <1>3, <1>4, <1>5 DEF Step

LEMMA NextPins ==
    ASSUME IInv, [Next]_vars, Acia \notin IrqSources
    PROVE  [Pins!PNext]_(Pins!pvars)
<1>1. CASE Step
  BY <1>1, StepPins
<1>2. CASE PreventOverflow
  BY <1>2, PreventOverflowPins
<1>3. CASE \E s \in IrqSources, t \in Dates : SetIrq(s, t) \/ ClearIrq(s, t)
  BY <1>3, SetIrqPins, ClearIrqPins
<1>4. CASE \E s \in NmiSources : ClearNmi(s) \/ \E t \in Dates : SetNmi(s, t)
  BY <1>4, SetNmiPins, ClearNmiPins
<1>5. CASE \/ \E f \in TrapFuncs : TriggerTrap(f)
           \/ \E r \in Requests : Trigger(r)
           \/ MonitorOff
  BY <1>5, TriggerPins
<1>6. CASE \E n \in Dma : Steal(n)
  BY <1>6, StealPins
<1>7. CASE UNCHANGED vars
  BY <1>7, QuietStep DEF vars, Doomed, Has
<1> QED
  BY <1>1, <1>2, <1>3, <1>4, <1>5, <1>6, <1>7 DEF Next

LEMMA InitPins == Init => Pins!PInit
<1> SUFFICES ASSUME Init PROVE Pins!PInit
  OBVIOUS
<1>1. cs.irq = {} /\ cs.nmi = {} /\ ~Has(cs, "IRQPEND") /\ ~Has(cs, "NMI") /\ ~Doomed
  BY DEF Init, ResetStatus, Has, Doomed
<1>2. /\ snap.status.irq = {} /\ snap.status.nmi = {}
      /\ ~Has(snap.status, "IRQPEND") /\ ~Has(snap.status, "NMI")
      /\ ~Has(snap.status, "RESET")
  BY DEF Init, ResetStatus, Has
<1>3. \A c : c.irq = {} /\ c.nmi = {} /\ ~Has(c, "IRQPEND") /\ ~Has(c, "NMI")
                 => PinsOf(c) = Quiet
  BY PinValues DEF PinsOf, Quiet
<1>4. PinsNow = Quiet /\ PinsSaved = Quiet
  BY <1>1, <1>2, <1>3 DEF PinsNow, PinsSaved
<1> QED
  BY <1>4, NoPins DEF Pins!PInit, Pins!Pins, Pins!Quiet

(* The counts, the flag word, the dates and the snapshots implement two pins:
   every edge of the wired-or of the NMI sources is served once and nothing
   else is, an IRQ the CPU looks at began with a pull and is remembered until
   it is served or over, and a load brings back the pins that were saved. *)
THEOREM PinsImplemented == ASSUME Acia \notin IrqSources PROVE Spec => ImplementsPins
<1>1. IInv /\ [Next]_vars => [Pins!PNext]_(Pins!pvars)
  BY NextPins
<1> QED
  BY <1>1, InitPins, Invariance, PTL DEF Spec, ImplementsPins, Pins!PSpec
=============================================================================
