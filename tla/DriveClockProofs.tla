--------------------------- MODULE DriveClockProofs ---------------------------
(***************************************************************************)
(* The clocks of the drives for every number of drives, every width of the *)
(* clock and every rate.  The conversion loop of drivecpu_execute is a     *)
(* recursive function: that it is one, and what it leaves alone, is shown  *)
(* by induction on its turns.  The rest follows the end of a frame: what   *)
(* the main guard took off, and which drives have been told.               *)
(***************************************************************************)
EXTENDS DriveClock, SetInduction

LEMMA Consts ==
    /\ NumDrives \in Nat /\ NumDrives > 0 /\ CLOCK_MAX \in Nat /\ CLOCK_MAX > 0
    /\ SubMin \in Nat /\ SubMin > 0 /\ 3 * SubMin < CLOCK_MAX /\ 2 * SubMin < CLOCK_MAX
    /\ One \in Nat /\ One > 0 /\ Chunk \in Nat /\ Chunk > 0
    /\ MaxOp \in Nat /\ MaxOp > 0 /\ Frame \in Nat /\ Frame > 0 /\ Frame < SubMin
    /\ ClkBase \in Nat /\ SkipAfter \in Nat /\ AwakeClk \in Nat
    /\ ResetClk \in Nat /\ ResetClk + MaxOp <= SubMin /\ ResetClk < MaxClk
    /\ MaxLag \in Nat /\ LagAtWrap \in Nat
    /\ Rates \in SUBSET Nat /\ \A f \in Rates : f > 0
    /\ SnapClocks \subseteq 0 .. MaxClk - 1
    /\ Frame <= MainSub /\ LagAtWrap <= MaxClk - MainSub
<1>1. /\ {NumDrives, CLOCK_MAX, SubMin, One, Chunk, MaxOp, Frame} \subseteq Nat \ {0}
      /\ {ClkBase, SkipAfter, AwakeClk, ResetClk, MaxLag, LagAtWrap} \subseteq Nat
      /\ Rates \subseteq Nat \ {0}
      /\ SnapClocks \subseteq 0 .. MaxClk - 1
      /\ 3 * SubMin < CLOCK_MAX /\ ResetClk + MaxOp <= SubMin
      /\ Frame < SubMin /\ Frame <= MainSub /\ LagAtWrap <= MaxClk - MainSub
  BY DriveAssumption
<1>2. ResetClk < MaxClk /\ 2 * SubMin < CLOCK_MAX
  BY <1>1 DEF MaxClk
<1> QED
  BY <1>1, <1>2

(* What the guards take off is less than what they wait for. *)
LEMMA Guards ==
    /\ MaxClk \in Nat /\ MaxClk + SubMin = CLOCK_MAX
    /\ DriveSub \in Nat /\ DriveSub + SubMin = MaxClk
    /\ MainSub \in Nat /\ MainSub > 0 /\ MainSub <= DriveSub
<1>1. /\ MaxClk \in Nat /\ MaxClk + SubMin = CLOCK_MAX
      /\ DriveSub \in Nat /\ DriveSub + SubMin = MaxClk
  BY Consts DEF MaxClk, DriveSub
<1>2. CASE ClkBase = 0
  BY <1>1, <1>2, Consts DEF MainSub, DriveSub
<1>3. CASE ClkBase # 0
  <2>1. MainSub = (DriveSub \div ClkBase) * ClkBase
    BY <1>3 DEF MainSub, DriveSub
  <2>2. /\ DriveSub \div ClkBase \in Nat
        /\ DriveSub = ClkBase * (DriveSub \div ClkBase) + (DriveSub % ClkBase)
        /\ DriveSub % ClkBase \in Nat
    BY <1>1, <1>3, Consts
  <2> DEFINE q == DriveSub \div ClkBase
             r == DriveSub % ClkBase
  <2>3. /\ MainSub = q * ClkBase /\ DriveSub = ClkBase * q + r
        /\ q \in Nat /\ r \in Nat /\ q * ClkBase \in Nat
    BY <2>1, <2>2, Consts
  <2> HIDE DEF q, r
  <2>4. MainSub \in Nat /\ MainSub <= DriveSub
    BY <2>3, Consts
  <2>5. MainSub > 0
    BY <2>4, Consts
  <2> QED
    BY <1>1, <2>4, <2>5
<1> QED
  BY <1>2, <1>3

(* Clocks are added and subtracted modulo their width. *)
LEMMA ClockArithmetic ==
    ASSUME NEW x \in Int, NEW y \in Int
    PROVE  /\ ClockAdd(x, y) \in Clock /\ ClockSub(x, y) \in Clock
           /\ x + y \in Clock => ClockAdd(x, y) = x + y
           /\ x - y \in Clock => ClockSub(x, y) = x - y
  BY Consts DEF ClockAdd, ClockSub, Clock

LEMMA DriveFields ==
    ASSUME NEW r \in DriveState
    PROVE  /\ r.clk \in Clock /\ r.stop_clk \in Clock /\ r.last_clk \in Clock
           /\ r.clk \in Int /\ r.stop_clk \in Int /\ r.last_clk \in Int
           /\ r.cycle_accum \in 0 .. One - 1 /\ r.reset \in BOOLEAN
  BY DEF DriveState, Clock
-----------------------------------------------------------------------------
(* The conversion loop touches stop_clk and cycle_accum only. *)
SameBut(r, c) == /\ c \in DriveState /\ c.clk = r.clk /\ c.last_clk = r.last_clk
                 /\ c.reset = r.reset

LEMMA ConvertFacts ==
    ASSUME NEW r, NEW c, SameBut(r, c), NEW f \in Nat, NEW t \in Int
    PROVE  SameBut(r, Convert(c, f, t))
<1> DEFINE accum == ClockAdd(c.cycle_accum, f * t)
           s == ClockAdd(c.stop_clk, accum \div One)
           a == accum % One
<1>1. c \in DriveState /\ c.cycle_accum \in Int /\ c.stop_clk \in Int /\ f * t \in Int
  BY DriveFields DEF SameBut
<1>2. accum \in Clock
  BY <1>1, ClockArithmetic
<1>3. accum \in Nat /\ accum \div One \in Int /\ a \in 0 .. One - 1
  BY <1>2, Consts DEF Clock
<1>4. s \in Clock
  BY <1>1, <1>3, ClockArithmetic
<1>5. Convert(c, f, t) = [c EXCEPT !.stop_clk = s, !.cycle_accum = a]
  BY DEF Convert
<1> HIDE DEF s, a
<1>6. /\ [c EXCEPT !.stop_clk = s, !.cycle_accum = a] \in DriveState
      /\ [c EXCEPT !.stop_clk = s, !.cycle_accum = a].clk = c.clk
      /\ [c EXCEPT !.stop_clk = s, !.cycle_accum = a].last_clk = c.last_clk
      /\ [c EXCEPT !.stop_clk = s, !.cycle_accum = a].reset = c.reset
  BY <1>1, <1>3, <1>4 DEF DriveState
<1> QED
  BY <1>5, <1>6 DEF SameBut

(* Turn k of the loop for n main cycles, and the turns it takes. *)
Size(n, k) == IF n - (k - 1) * Chunk > Chunk THEN Chunk ELSE n - (k - 1) * Chunk
Turns(n)   == (n + Chunk - 1) \div Chunk
IsFed(g, r, f, n, m) ==
    g = [k \in 0 .. m |-> IF k = 0 THEN r ELSE Convert(g[k - 1], f, Size(n, k))]

(* The recursive definition of the loop has a function for every number of its
   turns. *)
LEMMA FedExists ==
    ASSUME NEW r, NEW f, NEW n, NEW m \in Nat
    PROVE  \E g : IsFed(g, r, f, n, m)
<1> DEFINE T == {j \in Nat : \E g : IsFed(g, r, f, n, j)}
<1>1. 0 \in T
  <2> DEFINE g == [k \in 0 .. 0 |-> r]
  <2>1. g = [k \in 0 .. 0 |-> IF k = 0 THEN r ELSE Convert(g[k - 1], f, Size(n, k))]
    OBVIOUS
  <2> QED
    BY <2>1 DEF IsFed
<1>2. ASSUME NEW j \in Nat, j \in T PROVE j + 1 \in T
  <2>1. PICK g : g = [k \in 0 .. j |-> IF k = 0 THEN r ELSE Convert(g[k - 1], f, Size(n, k))]
    BY <1>2 DEF IsFed
  <2> DEFINE h == [k \in 0 .. j + 1 |-> IF k = 0 THEN r ELSE Convert(g[k - 1], f, Size(n, k))]
  <2>2. \A k \in 0 .. j : h[k] = g[k]
    BY <2>1
  <2>3. \A k \in 0 .. j + 1 : k # 0 => k - 1 \in 0 .. j
    OBVIOUS
  <2>4. h = [k \in 0 .. j + 1 |-> IF k = 0 THEN r ELSE Convert(g[k - 1], f, Size(n, k))]
    OBVIOUS
  <2> HIDE DEF h
  <2>5. \A k \in 0 .. j + 1 : (IF k = 0 THEN r ELSE Convert(g[k - 1], f, Size(n, k)))
                               = (IF k = 0 THEN r ELSE Convert(h[k - 1], f, Size(n, k)))
    BY <2>2, <2>3
  <2>6. h = [k \in 0 .. j + 1 |-> IF k = 0 THEN r ELSE Convert(h[k - 1], f, Size(n, k))]
    BY <2>4, <2>5
  <2>7. \E w : IsFed(w, r, f, n, j + 1)
    BY <2>6 DEF IsFed
  <2> QED
    BY <2>7
<1> HIDE DEF T
<1>3. Nat \subseteq T
  BY <1>1, <1>2, SetOfAll
<1> QED
  BY <1>3 DEF T

(* So the loop is that function, taken at its last turn. *)
LEMMA FeedIsFed ==
    ASSUME NEW r, NEW f, NEW n \in Nat
    PROVE  Turns(n) \in Nat /\ \E g : IsFed(g, r, f, n, Turns(n)) /\ Feed(r, f, n) = g[Turns(n)]
<1> DEFINE N == (n + Chunk - 1) \div Chunk
           fed[k \in 0 .. N] == IF k = 0 THEN r ELSE Convert(fed[k - 1], f, Size(n, k))
<1>1. N \in Nat /\ N = Turns(n)
  BY Consts DEF Turns
<1>2. Feed(r, f, n) = fed[N]
  BY DEF Feed, Size
<1>3. fed = [k \in 0 .. N |-> IF k = 0 THEN r ELSE Convert(fed[k - 1], f, Size(n, k))]
  <2> HIDE DEF N
  <2>1. \E g : IsFed(g, r, f, n, N)
    BY <1>1, FedExists
  <2>2. \E g : g = [k \in 0 .. N |-> IF k = 0 THEN r ELSE Convert(g[k - 1], f, Size(n, k))]
    BY <2>1 DEF IsFed
  <2> QED
    BY <2>2
<1> HIDE DEF fed
<1>4. IsFed(fed, r, f, n, N)
  BY <1>3 DEF IsFed
<1> QED
  BY <1>1, <1>2, <1>4

LEMMA FeedFacts ==
    ASSUME NEW r \in DriveState, NEW f \in Nat, NEW n \in Nat
    PROVE  SameBut(r, Feed(r, f, n))
<1>1. PICK g : IsFed(g, r, f, n, Turns(n)) /\ Feed(r, f, n) = g[Turns(n)]
  BY FeedIsFed
<1> DEFINE N == Turns(n)
<1>2. N \in Nat
  BY FeedIsFed
<1>3. \A k \in 0 .. N : g[k] = IF k = 0 THEN r ELSE Convert(g[k - 1], f, Size(n, k))
  BY <1>1 DEF IsFed
<1> HIDE DEF N
<1> DEFINE T == {k \in 0 .. N : SameBut(r, g[k])}
<1>4. 0 \in T
  BY <1>2, <1>3 DEF SameBut
<1>5. ASSUME NEW k \in 0 .. N - 1, k \in T PROVE k + 1 \in T
  <2>1. Size(n, k + 1) \in Int
    BY Consts, <1>2 DEF Size
  <2>2. g[k + 1] = Convert(g[k], f, Size(n, k + 1))
    BY <1>2, <1>3
  <2>3. SameBut(r, g[k + 1])
    BY <1>5, <2>1, <2>2, ConvertFacts
  <2> QED
    BY <2>3, <1>2
<1> HIDE DEF T
<1>6. 0 .. N \subseteq T
  BY <1>2, <1>4, <1>5, SetUpTo
<1> QED
  BY <1>1, <1>2, <1>6 DEF T, N
-----------------------------------------------------------------------------
LEMMA WakeUpFacts ==
    ASSUME NEW r \in DriveState, NEW now \in Clock
    PROVE  /\ WakeUp(r, now) \in DriveState
           /\ WakeUp(r, now).last_clk \in {r.last_clk, now}
  BY DEF WakeUp, DriveState

LEMMA OpcodesFacts ==
    ASSUME NEW r \in DriveState, NEW over \in 0 .. MaxOp - 1
    PROVE  Opcodes(r, over) \in DriveState
<1>1. /\ ClockAdd(ResetClk, over + 1) \in Clock /\ ClockAdd(r.stop_clk, over) \in Clock
  BY Consts, DriveFields, ClockArithmetic
<1> QED
  BY <1>1 DEF Opcodes, DriveState

(* Whatever the loop does, a drive that was run is up to the clock it was run
   to. *)
LEMMA ExecuteFacts ==
    ASSUME NEW r \in DriveState, NEW f \in Rates, NEW clk_value \in Clock,
           NEW now \in Clock, NEW over \in 0 .. MaxOp - 1
    PROVE  /\ Execute(r, f, clk_value, now, over) \in DriveState
           /\ Execute(r, f, clk_value, now, over).last_clk = clk_value
<1> DEFINE w == WakeUp(r, now)
           n == Lag(w, clk_value)
           c == Feed(w, f, n)
           o == Opcodes(c, over)
<1>1. w \in DriveState
  BY WakeUpFacts
<1>2. n \in Nat /\ f \in Nat
  BY <1>1, DriveFields, Consts DEF Lag, Clock
<1> HIDE DEF w, n
<1>3. c \in DriveState
  BY <1>1, <1>2, FeedFacts DEF SameBut
<1> HIDE DEF c
<1>4. o \in DriveState
  BY <1>3, OpcodesFacts
<1>5. Execute(r, f, clk_value, now, over) = [o EXCEPT !.last_clk = clk_value]
  BY DEF Execute, w, n, c
<1> HIDE DEF o
<1> QED
  BY <1>4, <1>5 DEF DriveState

LEMMA ExecuteAllFacts ==
    ASSUME dr \in [Drives -> DriveState], sync_factor \in [Drives -> Rates],
           NEW ds \in SUBSET Drives, NEW clk_value \in Clock, NEW now \in Clock,
           NEW over \in Overs(ds)
    PROVE  /\ ExecuteAll(ds, clk_value, now, over) \in [Drives -> DriveState]
           /\ \A d \in ds : ExecuteAll(ds, clk_value, now, over)[d].last_clk = clk_value
           /\ \A d \in Drives \ ds : ExecuteAll(ds, clk_value, now, over)[d] = dr[d]
<1> DEFINE e(d) == Execute(dr[d], sync_factor[d], clk_value, now, over[d])
<1>1. ASSUME NEW d \in ds
      PROVE  e(d) \in DriveState /\ e(d).last_clk = clk_value
  <2>1. dr[d] \in DriveState /\ sync_factor[d] \in Rates /\ over[d] \in 0 .. MaxOp - 1
    BY DEF Overs
  <2> QED
    BY <2>1, ExecuteFacts
<1>2. ExecuteAll(ds, clk_value, now, over) = [d \in Drives |-> IF d \in ds THEN e(d) ELSE dr[d]]
  BY DEF ExecuteAll
<1> HIDE DEF e
<1> QED
  BY <1>1, <1>2

LEMMA DriveGuardFacts ==
    ASSUME NEW r \in DriveState
    PROVE  DriveGuard(r) \in DriveState /\ DriveGuard(r).last_clk = r.last_clk
<1>1. CASE r.clk < MaxClk
  BY <1>1 DEF DriveGuard
<1>2. CASE r.clk >= MaxClk
  <2> DEFINE a == r.clk - DriveSub
             s == ClockSub(r.stop_clk, DriveSub)
  <2>1. r.clk \in Nat /\ r.clk <= CLOCK_MAX
    BY DriveFields, Consts DEF Clock
  <2>2. a \in Clock
    BY <2>1, <1>2, Guards, Consts DEF Clock
  <2>3. s \in Clock
    BY Guards, DriveFields, ClockArithmetic
  <2>4. ~(r.clk < MaxClk)
    BY <1>2, <2>1, Guards
  <2>5. DriveGuard(r) = [[r EXCEPT !.clk = a] EXCEPT !.stop_clk = ClockSub(@, DriveSub)]
    BY <2>4 DEF DriveGuard, ClkOverflow
  <2>6. [[r EXCEPT !.clk = a] EXCEPT !.stop_clk = ClockSub(@, DriveSub)]
            = [r EXCEPT !.clk = a, !.stop_clk = s]
    BY DEF DriveState
  <2> HIDE DEF a, s
  <2> QED
    BY <2>2, <2>3, <2>5, <2>6 DEF DriveState
<1>3. r.clk \in Int /\ MaxClk \in Int
  BY DriveFields, Guards
<1> QED
  BY <1>1, <1>2, <1>3
-----------------------------------------------------------------------------
(* The main clock has room for the frame; at its end, for what was taken off. *)
Room == IF Running THEN sub = 0 /\ maincpu_clk < MaxClk + since
        ELSE since = 0 /\ maincpu_clk < MaxClk /\ maincpu_clk + sub \in Clock

(* A drive that has not been told can be set back by what was taken off, but for
   one that is alone and lags further: that one is run first, and its clock is
   too low for it to be woken up. *)
Untold == ~Running /\ sub # 0 =>
              \A d \in enable : d >= turn => \/ sub <= dr[d].last_clk
                                             \/ enable = {d} /\ dr[d].clk <= AwakeClk

IInv == TypeOK /\ Room /\ LastInPast /\ Untold

LEMMA InvFacts ==
    ASSUME IInv
    PROVE  /\ maincpu_clk \in Nat /\ maincpu_clk <= CLOCK_MAX /\ maincpu_clk \in Clock
           /\ sub \in Nat /\ since \in Nat /\ turn \in Nat /\ turn <= NumDrives
           /\ enable \in SUBSET Drives
           /\ dr \in [Drives -> DriveState] /\ sync_factor \in [Drives -> Rates]
           /\ \A d \in Drives : d \in Nat /\ d < NumDrives
  BY Guards, Consts DEF IInv, TypeOK, Clock, Drives

LEMMA InitInv == Init => IInv
<1> SUFFICES ASSUME Init PROVE IInv
  OBVIOUS
<1>1. 0 \in Clock /\ ResetClk \in Clock
  BY Consts, Guards DEF Clock
<1>2. Restarted(ResetClk) \in DriveState
  BY <1>1, Consts DEF Restarted, DriveState
<1>3. TypeOK
  BY <1>1, <1>2, Consts DEF Init, TypeOK, Clock
<1>4. Room /\ LastInPast /\ Untold
  BY Consts, Guards DEF Init, Room, Running, LastInPast, Untold
<1> QED
  BY <1>3, <1>4 DEF IInv

(* A step between two ends of a frame. *)
LEMMA RunningStep ==
    ASSUME IInv, Running, UNCHANGED <<sub, turn>>,
           maincpu_clk' \in Clock, since' \in 0 .. Frame, maincpu_clk' < MaxClk + since',
           enable' \in SUBSET Drives, skipping' \subseteq idled', idled' \in SUBSET Drives,
           sync_factor' \in [Drives -> Rates], dr' \in [Drives -> DriveState],
           \A d \in enable' : dr'[d].last_clk <= maincpu_clk'
    PROVE  IInv'
<1>1. TypeOK'
  BY DEF IInv, TypeOK
<1>2. Room' /\ Untold'
  BY DEF IInv, Room, Running, Untold
<1>3. LastInPast'
  <2> SUFFICES ASSUME NEW d \in enable' PROVE dr'[d].last_clk <= ClockOf(d)'
    BY DEF LastInPast
  <2>1. d \in Nat /\ d < NumDrives /\ turn' = NumDrives
    BY Consts DEF Drives, Running
  <2>2. ~(d >= turn')
    BY <2>1, Consts
  <2> QED
    BY <2>2 DEF ClockOf
<1> QED
  BY <1>1, <1>2, <1>3 DEF IInv

LEMMA RunningFacts ==
    ASSUME IInv, Running
    PROVE  /\ maincpu_clk < MaxClk + since /\ since \in 0 .. Frame /\ sub = 0
           /\ skipping \subseteq idled /\ idled \in SUBSET Drives
           /\ \A d \in enable : dr[d].last_clk <= maincpu_clk /\ dr[d] \in DriveState
<1>1. \A d \in enable : ~(d >= turn) /\ dr[d] \in DriveState
  BY InvFacts, Consts DEF Running
<1> QED
  BY <1>1 DEF IInv, Room, TypeOK, LastInPast, ClockOf

LEMMA ElapseInv == ASSUME IInv, NEW n \in 1 .. Frame, Elapse(n) PROVE IInv'
<1>1. /\ Running /\ since + n <= Frame /\ maincpu_clk' = maincpu_clk + n
      /\ since' = since + n
      /\ UNCHANGED <<sub, turn, enable, skipping, sync_factor, dr, idled>>
  BY DEF Elapse
<1>2. /\ maincpu_clk < MaxClk + since /\ since \in Nat /\ n \in Nat
      /\ maincpu_clk \in Nat /\ Frame \in Nat
  BY <1>1, RunningFacts, InvFacts, Consts
<1>3. /\ maincpu_clk' \in Clock /\ since' \in 0 .. Frame
      /\ maincpu_clk' < MaxClk + since' /\ maincpu_clk <= maincpu_clk'
  BY <1>1, <1>2, Guards, Consts DEF Clock
<1>4. \A d \in enable' : dr'[d].last_clk <= maincpu_clk'
  <2> SUFFICES ASSUME NEW d \in enable PROVE dr[d].last_clk <= maincpu_clk'
    BY <1>1
  <2>1. dr[d].last_clk <= maincpu_clk /\ dr[d].last_clk \in Int /\ maincpu_clk' \in Int
    BY <1>1, <1>2, RunningFacts, DriveFields
  <2> QED
    BY <2>1, <1>2, <1>3
<1> QED
  BY <1>1, <1>3, <1>4, RunningFacts, InvFacts, RunningStep

LEMMA CpuAccessInv == ASSUME IInv, CpuAccess PROVE IInv'
<1>1. PICK ds \in {enable} \cup {{d} : d \in enable} : \E over \in Overs(ds) :
          dr' = ExecuteAll(ds, maincpu_clk, maincpu_clk, over)
  BY DEF CpuAccess
<1>2. PICK over \in Overs(ds) : dr' = ExecuteAll(ds, maincpu_clk, maincpu_clk, over)
  BY <1>1
<1>3. Running /\ UNCHANGED <<maincpu_clk, since, sub, turn, enable, skipping, sync_factor, idled>>
  BY DEF CpuAccess, main
<1>4. ds \in SUBSET Drives
  BY InvFacts
<1>5. /\ dr' \in [Drives -> DriveState]
      /\ \A d \in ds : dr'[d].last_clk = maincpu_clk
      /\ \A d \in Drives \ ds : dr'[d] = dr[d]
  BY <1>2, <1>4, InvFacts, ExecuteAllFacts
<1>6. \A d \in enable' : dr'[d].last_clk <= maincpu_clk'
  BY <1>3, <1>5, InvFacts, RunningFacts
<1> QED
  BY <1>3, <1>5, <1>6, RunningFacts, InvFacts, RunningStep

LEMMA SetSpeedInv == ASSUME IInv, NEW d \in Drives, SetSpeed(d) PROVE IInv'
<1>1. PICK f \in Rates : sync_factor' = [sync_factor EXCEPT ![d] = f]
  BY DEF SetSpeed
<1>2. /\ Running
      /\ UNCHANGED <<maincpu_clk, since, sub, turn, enable, skipping, dr, idled>>
  BY DEF SetSpeed, main
<1>3. sync_factor' \in [Drives -> Rates]
  BY <1>1, InvFacts
<1> QED
  BY <1>2, <1>3, RunningFacts, InvFacts, RunningStep

LEMMA TrueEmulationOnInv ==
    ASSUME IInv, NEW ds \in SUBSET Drives, TrueEmulationOn(ds)
    PROVE  IInv'
<1>1. /\ Running /\ enable' = ds
      /\ dr' = [d \in Drives |-> IF d \in ds
                   THEN [dr[d] EXCEPT !.last_clk = maincpu_clk, !.stop_clk = dr[d].clk]
                   ELSE dr[d]]
      /\ UNCHANGED <<maincpu_clk, since, sub, turn, skipping, sync_factor, idled>>
  BY DEF TrueEmulationOn, main
<1>2. ASSUME NEW d \in Drives
      PROVE  /\ [dr[d] EXCEPT !.last_clk = maincpu_clk, !.stop_clk = dr[d].clk] \in DriveState
             /\ [dr[d] EXCEPT !.last_clk = maincpu_clk, !.stop_clk = dr[d].clk].last_clk
                    = maincpu_clk
  <2>1. dr[d] \in DriveState /\ maincpu_clk \in Clock
    BY InvFacts
  <2> QED
    BY <2>1 DEF DriveState
<1>3. dr' \in [Drives -> DriveState] /\ \A d \in ds : dr'[d].last_clk = maincpu_clk
  BY <1>1, <1>2, InvFacts
<1>4. \A d \in enable' : dr'[d].last_clk <= maincpu_clk'
  <2>1. maincpu_clk' = maincpu_clk /\ enable' = ds /\ maincpu_clk \in Nat
    BY <1>1, InvFacts
  <2>2. maincpu_clk <= maincpu_clk
    BY <2>1
  <2> QED
    BY <1>3, <2>1, <2>2
<1>5. maincpu_clk' < MaxClk + since' /\ since' \in 0 .. Frame /\ maincpu_clk' \in Clock
  BY <1>1, RunningFacts, InvFacts
<1>6. /\ enable' \in SUBSET Drives /\ sync_factor' \in [Drives -> Rates]
      /\ skipping' \subseteq idled' /\ idled' \in SUBSET Drives
  BY <1>1, RunningFacts, InvFacts
<1> QED
  BY <1>1, <1>3, <1>4, <1>5, <1>6, RunningStep

LEMMA DisableInv == ASSUME IInv, Disable PROVE IInv'
<1>1. /\ Running /\ enable' \subseteq enable
      /\ UNCHANGED <<maincpu_clk, since, sub, turn, skipping, sync_factor, dr, idled>>
  BY DEF Disable, main
<1> QED
  BY <1>1, RunningFacts, InvFacts, RunningStep

LEMMA RestartedType ==
    ASSUME NEW now \in Clock, NEW a \in 0 .. One - 1
    PROVE  /\ [Restarted(now) EXCEPT !.cycle_accum = a] \in DriveState
           /\ [Restarted(now) EXCEPT !.cycle_accum = a].last_clk = now
<1>1. 0 \in Clock
  BY Consts DEF Clock
<1> QED
  BY <1>1 DEF Restarted, DriveState

LEMMA SetTypeInv == ASSUME IInv, NEW d \in Drives, SetType(d) PROVE IInv'
<1> DEFINE r == [Restarted(maincpu_clk) EXCEPT !.cycle_accum = dr[d].cycle_accum]
<1>1. /\ Running /\ enable' \in {enable \cup {d}} \cup {{}}
      /\ \E f \in Rates : sync_factor' = [sync_factor EXCEPT ![d] = f]
      /\ dr' = [dr EXCEPT ![d] = r]
      /\ idled' = (idled \ {d}) \cup (skipping \cap {d})
      /\ UNCHANGED <<maincpu_clk, since, sub, turn, skipping>>
  BY DEF SetType, main
<1>2. r \in DriveState /\ r.last_clk = maincpu_clk
  BY InvFacts, DriveFields, RestartedType
<1> HIDE DEF r
<1>3. /\ dr' \in [Drives -> DriveState] /\ dr'[d].last_clk = maincpu_clk
      /\ \A e \in Drives \ {d} : dr'[e] = dr[e]
  BY <1>1, <1>2, InvFacts
<1>4. sync_factor' \in [Drives -> Rates]
  BY <1>1, InvFacts
<1>5. \A e \in enable' : dr'[e].last_clk <= maincpu_clk'
  BY <1>1, <1>3, InvFacts, RunningFacts
<1>6. enable' \in SUBSET Drives /\ skipping' \subseteq idled' /\ idled' \in SUBSET Drives
  BY <1>1, InvFacts, RunningFacts
<1> QED
  BY <1>1, <1>3, <1>4, <1>5, <1>6, RunningFacts, InvFacts, RunningStep

LEMMA MachineResetInv == ASSUME IInv, MachineReset PROVE IInv'
<1>1. /\ Running /\ maincpu_clk' = ResetClk
      /\ dr' = [d \in Drives |-> [Restarted(ResetClk) EXCEPT !.cycle_accum = dr[d].cycle_accum]]
      /\ idled' = skipping
      /\ UNCHANGED <<since, sub, turn, enable, skipping, sync_factor>>
  BY DEF MachineReset
<1>2. ResetClk \in Clock /\ ResetClk \in Nat
  BY Consts, Guards DEF Clock
<1>3. ASSUME NEW d \in Drives
      PROVE  /\ [Restarted(ResetClk) EXCEPT !.cycle_accum = dr[d].cycle_accum] \in DriveState
             /\ [Restarted(ResetClk) EXCEPT !.cycle_accum = dr[d].cycle_accum].last_clk = ResetClk
  <2>1. dr[d].cycle_accum \in 0 .. One - 1
    BY InvFacts, DriveFields
  <2> QED
    BY <1>2, <2>1, RestartedType
<1>4. /\ dr' \in [Drives -> DriveState]
      /\ \A d \in enable' : dr'[d].last_clk <= maincpu_clk'
  BY <1>1, <1>2, <1>3, InvFacts
<1>5. /\ maincpu_clk' \in Clock /\ since' \in 0 .. Frame
      /\ maincpu_clk' < MaxClk + since'
  BY <1>1, <1>2, RunningFacts, Consts, Guards
<1>6. /\ enable' \in SUBSET Drives /\ sync_factor' \in [Drives -> Rates]
      /\ skipping' \subseteq idled' /\ idled' \in SUBSET Drives
  BY <1>1, RunningFacts, InvFacts
<1> QED
  BY <1>1, <1>4, <1>5, <1>6, RunningStep

LEMMA SetIdlingInv == ASSUME IInv, NEW d \in Drives, SetIdling(d) PROVE IInv'
<1>1. /\ Running /\ skipping' \in {skipping \cup {d}, skipping \ {d}}
      /\ idled' = idled \cup skipping'
      /\ UNCHANGED <<maincpu_clk, since, sub, turn, enable, sync_factor, dr>>
  BY DEF SetIdling, main
<1>2. skipping' \subseteq idled' /\ idled' \in SUBSET Drives
  BY <1>1, RunningFacts
<1> QED
  BY <1>1, <1>2, RunningFacts, InvFacts, RunningStep

LEMMA ReadSnapshotInv == ASSUME IInv, ReadSnapshot PROVE IInv'
<1>1. PICK now \in SnapClocks, clk \in SnapClocks, accum \in 0 .. One - 1, ds \in SUBSET Drives :
          /\ maincpu_clk' = now /\ enable' = ds
          /\ dr' = [d \in Drives |-> [clk |-> clk, stop_clk |-> clk, last_clk |-> now,
                                      cycle_accum |-> accum, reset |-> FALSE]]
  BY DEF ReadSnapshot
<1>2. /\ Running /\ skipping' \in SUBSET Drives /\ idled' = skipping'
      /\ sync_factor' \in [Drives -> Rates] /\ UNCHANGED <<since, sub, turn>>
  BY DEF ReadSnapshot
<1>3. now \in Clock /\ clk \in Clock /\ now \in Nat /\ now < MaxClk
  BY Consts, Guards DEF Clock
<1>4. [clk |-> clk, stop_clk |-> clk, last_clk |-> now,
       cycle_accum |-> accum, reset |-> FALSE] \in DriveState
  BY <1>3 DEF DriveState
<1>5. /\ dr' \in [Drives -> DriveState]
      /\ \A d \in enable' : dr'[d].last_clk <= maincpu_clk'
  BY <1>1, <1>3, <1>4
<1>6. maincpu_clk' < MaxClk + since' /\ since' \in 0 .. Frame
  BY <1>1, <1>2, <1>3, RunningFacts, Guards
<1>7. /\ enable' \in SUBSET Drives /\ sync_factor' \in [Drives -> Rates]
      /\ skipping' \subseteq idled' /\ idled' \in SUBSET Drives
  BY <1>1, <1>2, RunningFacts, InvFacts
<1> QED
  BY <1>1, <1>2, <1>3, <1>5, <1>6, <1>7, RunningStep

(* The end of the frame: no drive that is run once a frame lags so far that it
   could not be set back with the main clock. *)
LEMMA VsyncHookInv == ASSUME IInv, VsyncHook PROVE IInv'
<1> DEFINE ds == enable \ skipping
<1>1. PICK over \in Overs(ds) : dr' = ExecuteAll(ds, maincpu_clk, maincpu_clk, over)
  BY DEF VsyncHook
<1>2. /\ Running /\ since = Frame /\ since' = 0 /\ turn' = 0
      /\ sub' = IF maincpu_clk < MaxClk THEN 0 ELSE MainSub
      /\ maincpu_clk' = maincpu_clk - sub'
      /\ UNCHANGED <<enable, skipping, sync_factor, idled>>
  BY DEF VsyncHook
<1>3. \A d \in enable : sub' # 0 => \/ ClockSub(maincpu_clk, dr'[d].last_clk) <= LagAtWrap
                                    \/ enable = {d} /\ dr'[d].clk <= AwakeClk
  BY DEF VsyncHook
<1>4. /\ dr' \in [Drives -> DriveState]
      /\ \A d \in ds : dr'[d].last_clk = maincpu_clk
      /\ \A d \in Drives \ ds : dr'[d] = dr[d]
  <2>1. ds \in SUBSET Drives
    BY InvFacts
  <2> HIDE DEF ds
  <2> QED
    BY <1>1, <2>1, InvFacts, ExecuteAllFacts
<1>5. ASSUME NEW d \in enable
      PROVE  dr'[d].last_clk <= maincpu_clk /\ dr'[d].last_clk \in Nat
  <2>1. d \in Drives /\ dr[d].last_clk <= maincpu_clk /\ maincpu_clk \in Nat
    BY <1>2, InvFacts, RunningFacts
  <2>2. dr'[d].last_clk = maincpu_clk \/ dr'[d].last_clk = dr[d].last_clk
    BY <2>1, <1>4
  <2>3. dr[d].last_clk \in Clock
    BY <2>1, InvFacts, DriveFields
  <2> QED
    BY <2>1, <2>2, <2>3 DEF Clock
<1>6. /\ maincpu_clk \in Nat /\ maincpu_clk < MaxClk + Frame /\ maincpu_clk <= CLOCK_MAX
      /\ MainSub \in Nat /\ Frame \in Nat /\ MaxClk \in Nat /\ Frame <= MainSub
      /\ MainSub <= MaxClk
  BY <1>2, RunningFacts, InvFacts, Guards, Consts
<1>7. /\ sub' \in {0, MainSub} /\ maincpu_clk' \in Nat /\ maincpu_clk' < MaxClk
      /\ maincpu_clk' + sub' = maincpu_clk
      /\ sub' # 0 => sub' = MainSub /\ maincpu_clk >= MaxClk
  BY <1>2, <1>6
<1>8. maincpu_clk' \in Clock /\ 0 \in 0 .. Frame /\ 0 \in 0 .. NumDrives /\ 0 # NumDrives
  BY <1>7, Guards, Consts DEF Clock
<1>9. TypeOK'
  BY <1>2, <1>4, <1>7, <1>8 DEF IInv, TypeOK
<1>10. Room'
  BY <1>2, <1>7, <1>8, InvFacts DEF Room, Running
<1>11. LastInPast'
  <2> SUFFICES ASSUME NEW d \in enable PROVE dr'[d].last_clk <= ClockOf(d)'
    BY <1>2 DEF LastInPast
  <2>1. d >= turn'
    BY <1>2, InvFacts
  <2> QED
    BY <2>1, <1>5, <1>7 DEF ClockOf
<1>12. Untold'
  <2> SUFFICES ASSUME sub' # 0, NEW d \in enable,
                      ~(enable = {d} /\ dr'[d].clk <= AwakeClk)
               PROVE  sub' <= dr'[d].last_clk
    BY <1>2 DEF Untold
  <2>1. ClockSub(maincpu_clk, dr'[d].last_clk) <= LagAtWrap
    BY <1>3
  <2>2. maincpu_clk - dr'[d].last_clk \in Clock
    BY <1>5, <1>6, Consts DEF Clock
  <2>3. ClockSub(maincpu_clk, dr'[d].last_clk) = maincpu_clk - dr'[d].last_clk
    <3>1. maincpu_clk \in Int /\ dr'[d].last_clk \in Int
      BY <1>5, <1>6, InvFacts
    <3> QED
      BY <2>2, <3>1, ClockArithmetic
  <2>4. LagAtWrap \in Nat /\ LagAtWrap <= MaxClk - MainSub
    BY Consts
  <2> QED
    BY <2>1, <2>3, <2>4, <1>5, <1>6, <1>7
<1> QED
  BY <1>9, <1>10, <1>11, <1>12 DEF IInv

(* What a drive that is told of the main guard is left with. *)
LEMMA MainWrappedFacts ==
    ASSUME IInv, ~Running, NEW after \in MainWrapped(turn)
    PROVE  /\ turn \in Drives /\ after \in [Drives -> DriveState]
           /\ turn \in enable => after[turn].last_clk <= maincpu_clk
           /\ \A d \in enable \ {turn} : after[d] = dr[d]
<1>1. /\ turn \in Drives /\ sub \in Nat /\ maincpu_clk \in Nat
      /\ maincpu_clk + sub \in Clock /\ maincpu_clk \in Clock
  BY InvFacts, Consts DEF IInv, Room, Running, Drives
<1>2. dr[turn] \in DriveState
  BY <1>1, InvFacts
<1>3. turn \in enable => dr[turn].last_clk <= maincpu_clk + sub
  <2>1. turn >= turn
    BY InvFacts
  <2> QED
    BY <2>1 DEF IInv, LastInPast, ClockOf
<1>4. CASE sub = 0
  <2>1. after = dr
    BY <1>4 DEF MainWrapped
  <2> QED
    BY <2>1, <1>1, <1>2, <1>3, <1>4, InvFacts
<1>5. CASE sub # 0 /\ turn \notin enable
  <2>1. after = [dr EXCEPT ![turn] = [dr[turn] EXCEPT !.last_clk = maincpu_clk]]
    BY <1>5 DEF MainWrapped
  <2>2. [dr[turn] EXCEPT !.last_clk = maincpu_clk] \in DriveState
    BY <1>1, <1>2 DEF DriveState
  <2> QED
    BY <2>1, <2>2, <1>1, <1>5, InvFacts
<1>6. CASE sub # 0 /\ turn \in enable
  <2>1. PICK run \in IF dr[turn].last_clk < sub
                     THEN {ExecuteAll(enable, ClockAdd(maincpu_clk, sub), maincpu_clk, over) :
                              over \in Overs(enable)}
                     ELSE {dr} :
             after = [run EXCEPT ![turn].last_clk = ClockSub(@, sub)]
    BY <1>6 DEF MainWrapped
  <2>2. /\ run \in [Drives -> DriveState]
        /\ run[turn].last_clk \in Nat /\ sub <= run[turn].last_clk
        /\ run[turn].last_clk <= maincpu_clk + sub
        /\ \A d \in enable \ {turn} : run[d] = dr[d]
    <3>1. CASE dr[turn].last_clk < sub
      <4>1. enable = {turn}
        <5>1. turn >= turn
          BY InvFacts
        <5>2. sub <= dr[turn].last_clk \/ enable = {turn}
          BY <5>1, <1>6 DEF IInv, Untold
        <5> QED
          BY <5>2, <3>1, <1>1, <1>2, DriveFields
      <4>2. PICK over \in Overs(enable) :
                run = ExecuteAll(enable, ClockAdd(maincpu_clk, sub), maincpu_clk, over)
        BY <2>1, <3>1
      <4>3. ClockAdd(maincpu_clk, sub) = maincpu_clk + sub
        BY <1>1, ClockArithmetic
      <4>4. run \in [Drives -> DriveState] /\ run[turn].last_clk = maincpu_clk + sub
        <5>1. run = ExecuteAll(enable, maincpu_clk + sub, maincpu_clk, over)
          BY <4>2, <4>3
        <5>2. /\ dr \in [Drives -> DriveState] /\ sync_factor \in [Drives -> Rates]
              /\ enable \in SUBSET Drives
          BY InvFacts
        <5>3. /\ run \in [Drives -> DriveState]
              /\ \A d \in enable : run[d].last_clk = maincpu_clk + sub
          BY <5>1, <5>2, <1>1, ExecuteAllFacts
        <5> QED
          BY <5>3, <1>6
      <4> QED
        BY <4>1, <4>4, <1>1
    <3>2. CASE ~(dr[turn].last_clk < sub)
      <4>1. run = dr
        BY <2>1, <3>2
      <4>2. dr[turn].last_clk \in Nat
        BY <1>2, DriveFields DEF Clock
      <4> QED
        BY <4>1, <4>2, <3>2, <1>1, <1>3, <1>6, InvFacts
    <3> QED
      BY <3>1, <3>2
  <2>3. /\ ClockSub(run[turn].last_clk, sub) = run[turn].last_clk - sub
        /\ run[turn].last_clk - sub \in Clock /\ run[turn].last_clk - sub <= maincpu_clk
    <3>1. run[turn].last_clk - sub \in Clock
      BY <2>2, <1>1, Consts DEF Clock
    <3> QED
      BY <3>1, <2>2, <1>1, ClockArithmetic
  <2> DEFINE r == [run[turn] EXCEPT !.last_clk = run[turn].last_clk - sub]
  <2>4. after = [run EXCEPT ![turn] = r]
    BY <2>1, <2>3
  <2>5. r \in DriveState /\ r.last_clk = run[turn].last_clk - sub
    BY <2>2, <2>3, <1>1 DEF DriveState
  <2> HIDE DEF r
  <2> QED
    BY <2>2, <2>3, <2>4, <2>5, <1>1
<1> QED
  BY <1>4, <1>5, <1>6

LEMMA PreventOverflowInv == ASSUME IInv, PreventOverflow PROVE IInv'
<1>1. PICK after \in MainWrapped(turn) : dr' = [after EXCEPT ![turn] = DriveGuard(@)]
  BY DEF PreventOverflow
<1>2. /\ ~Running /\ turn < NumDrives /\ turn' = turn + 1
      /\ sub' = IF turn' = NumDrives THEN 0 ELSE sub
      /\ UNCHANGED <<maincpu_clk, since, enable, skipping, sync_factor, idled>>
  BY InvFacts, Consts DEF PreventOverflow, Running
<1>3. /\ turn \in Drives /\ after \in [Drives -> DriveState]
      /\ turn \in enable => after[turn].last_clk <= maincpu_clk
      /\ \A d \in enable \ {turn} : after[d] = dr[d]
  BY <1>2, MainWrappedFacts
<1>4. after[turn] \in DriveState
  BY <1>3
<1>5. /\ DriveGuard(after[turn]) \in DriveState
      /\ DriveGuard(after[turn]).last_clk = after[turn].last_clk
  BY <1>4, DriveGuardFacts
<1>6. dr' = [after EXCEPT ![turn] = DriveGuard(after[turn])]
  BY <1>1
<1>7. /\ dr' \in [Drives -> DriveState]
      /\ turn \in enable => dr'[turn].last_clk <= maincpu_clk
      /\ \A d \in enable \ {turn} : dr'[d] = dr[d]
  BY <1>3, <1>5, <1>6, InvFacts
<1>8. /\ turn \in Nat /\ turn' \in 0 .. NumDrives /\ sub' \in {0, sub}
      /\ maincpu_clk \in Nat /\ sub \in Nat
  BY <1>2, InvFacts, Consts
<1>9. TypeOK'
  BY <1>2, <1>7, <1>8 DEF IInv, TypeOK
<1>10. since = 0 /\ maincpu_clk < MaxClk /\ maincpu_clk + sub \in Clock /\ maincpu_clk \in Clock
  BY <1>2, InvFacts DEF IInv, Room
<1>11. Room'
  <2>1. Running' => sub' = 0
    BY <1>2 DEF Running
  <2>2. maincpu_clk' + sub' \in Clock
    BY <1>2, <1>8, <1>10
  <2>3. maincpu_clk' < MaxClk + since' /\ since' = 0
    BY <1>2, <1>8, <1>10, Guards
  <2> QED
    BY <1>2, <1>10, <2>1, <2>2, <2>3 DEF Room
<1>12. LastInPast'
  <2> SUFFICES ASSUME NEW d \in enable PROVE dr'[d].last_clk <= ClockOf(d)'
    BY <1>2 DEF LastInPast
  <2>1. d \in Nat /\ d < NumDrives /\ dr'[d].last_clk \in Int
    BY <1>7, InvFacts, DriveFields
  <2>2. CASE d = turn
    <3>1. ClockOf(d)' = maincpu_clk
      BY <2>2, <1>2, <1>8 DEF ClockOf
    <3> QED
      BY <3>1, <2>2, <1>7
  <2>3. CASE d # turn
    <3>1. dr'[d] = dr[d] /\ dr[d].last_clk <= ClockOf(d)
      BY <2>3, <1>7 DEF IInv, LastInPast
    <3>2. CASE d >= turn
      <4>1. d >= turn' /\ turn' # NumDrives
        BY <2>1, <2>3, <3>2, <1>2, <1>8, Consts
      <4>2. ClockOf(d)' = ClockOf(d)
        BY <3>2, <4>1, <1>2 DEF ClockOf
      <4> QED
        BY <3>1, <4>2
    <3>3. CASE ~(d >= turn)
      <4>1. ~(d >= turn')
        BY <2>1, <3>3, <1>2, <1>8
      <4>2. ClockOf(d)' = ClockOf(d)
        BY <3>3, <4>1, <1>2 DEF ClockOf
      <4> QED
        BY <3>1, <4>2
    <3> QED
      BY <3>2, <3>3
  <2> QED
    BY <2>2, <2>3
<1>13. Untold'
  <2> SUFFICES ASSUME ~Running', sub' # 0, NEW d \in enable, d >= turn'
               PROVE  \/ sub' <= dr'[d].last_clk
                      \/ enable = {d} /\ dr'[d].clk <= AwakeClk
    BY <1>2 DEF Untold
  <2>1. d \in Nat /\ d # turn /\ d >= turn /\ sub' = sub
    BY <1>2, <1>8, InvFacts
  <2>2. sub <= dr[d].last_clk \/ (enable = {d} /\ dr[d].clk <= AwakeClk)
    BY <2>1, <1>2 DEF IInv, Untold
  <2> QED
    BY <2>1, <2>2, <1>7
<1> QED
  BY <1>9, <1>11, <1>12, <1>13 DEF IInv
-----------------------------------------------------------------------------
LEMMA StutterInv == ASSUME IInv, UNCHANGED vars PROVE IInv'
<1>1. UNCHANGED <<maincpu_clk, since, sub, turn, enable, skipping, sync_factor, dr, idled>>
  BY DEF vars
<1>2. TypeOK' /\ Room'
  BY <1>1 DEF IInv, TypeOK, Room, Running
<1>3. LastInPast' /\ Untold'
  BY <1>1 DEF IInv, LastInPast, ClockOf, Untold, Running
<1> QED
  BY <1>2, <1>3 DEF IInv

LEMMA NextInv == IInv /\ [Next]_vars => IInv'
<1> SUFFICES ASSUME IInv, [Next]_vars PROVE IInv'
  OBVIOUS
<1>1. CASE \E n \in 1 .. Frame : Elapse(n)
  BY <1>1, ElapseInv
<1>2. CASE CpuAccess \/ VsyncHook \/ PreventOverflow
  BY <1>2, CpuAccessInv, VsyncHookInv, PreventOverflowInv
<1>3. CASE \E ds \in SUBSET Drives \ {{}} : TrueEmulationOn(ds)
  BY <1>3, TrueEmulationOnInv
<1>4. CASE \E d \in Drives : SetSpeed(d) \/ SetType(d) \/ SetIdling(d)
  BY <1>4, SetSpeedInv, SetTypeInv, SetIdlingInv
<1>5. CASE Disable \/ MachineReset \/ ReadSnapshot
  BY <1>5, DisableInv, MachineResetInv, ReadSnapshotInv
<1>6. CASE UNCHANGED vars
  BY <1>6, StutterInv
<1> QED
  BY <1>1, <1>2, <1>3, <1>4, <1>5, <1>6 DEF Next

(* The inductive invariant: between two frames the main clock has room, and
   while the drives are told one by one what was taken off it, each of them is
   still where that can be taken off as well. *)
THEOREM Invariance == Spec => []IInv
  BY InitInv, NextInv, PTL DEF Spec

(* No clock, deadline or accumulator of a drive leaves its range, however often
   the two guards set them back. *)
THEOREM TypeCorrect == Spec => []TypeOK
<1>1. IInv => TypeOK
  BY DEF IInv
<1> QED
  BY <1>1, Invariance, PTL

(* drivecpu_execute never finds last_clk ahead of the clock it is run to, through
   the two guards, resets, snapshots and drives switched on and off. *)
THEOREM NeverAhead == Spec => []LastInPast
<1>1. IInv => LastInPast
  BY DEF IInv
<1> QED
  BY <1>1, Invariance, PTL
-----------------------------------------------------------------------------
(***************************************************************************)
(* That the clocks of the drives implement DriveRate.  Clocks are unsigned *)
(* and wrap, so most is said up to their width (Same); what a drive is     *)
(* owed, its lag and what it is ahead are small enough to be read off the  *)
(* clocks again (DiffIs, OwedFits).  The conversion loop is followed turn  *)
(* by turn, then the opcodes, then each action of DriveClock.  The last    *)
(* part is the drive's own guard: how far a drive that is run once a frame *)
(* gets with its clock before the guard looks at it.                       *)
(***************************************************************************)
(* Two numbers that are the same clock. *)
Same(x, y) == \E j \in Int : x = y + j * (CLOCK_MAX + 1)

LEMMA SameReflexive == ASSUME NEW x \in Int PROVE Same(x, x)
<1>1. 0 \in Int /\ x = x + 0 * (CLOCK_MAX + 1)
  BY Consts
<1> QED
  BY <1>1 DEF Same

LEMMA SameSymmetric ==
    ASSUME NEW x \in Int, NEW y \in Int, Same(x, y) PROVE Same(y, x)
<1>1. PICK j \in Int : x = y + j * (CLOCK_MAX + 1)
  BY DEF Same
<1>2. -j \in Int /\ y = x + (-j) * (CLOCK_MAX + 1)
  BY <1>1, Consts
<1> QED
  BY <1>2 DEF Same

LEMMA SameAdd ==
    ASSUME NEW x \in Int, NEW y \in Int, NEW u \in Int, NEW v \in Int,
           Same(x, y), Same(u, v)
    PROVE  Same(x + u, y + v) /\ Same(x - u, y - v)
<1>1. PICK j \in Int : x = y + j * (CLOCK_MAX + 1)
  BY DEF Same
<1>2. PICK k \in Int : u = v + k * (CLOCK_MAX + 1)
  BY DEF Same
<1> DEFINE M == CLOCK_MAX + 1
<1>3. M \in Int
  BY Consts
<1> HIDE DEF M
<1>4. /\ j + k \in Int /\ j - k \in Int
      /\ (j + k) * M = j * M + k * M /\ (j - k) * M = j * M - k * M
      /\ j * M \in Int /\ k * M \in Int
  BY <1>3
<1>5. x + u = (y + v) + (j + k) * M /\ x - u = (y - v) + (j - k) * M
  BY <1>1, <1>2, <1>3, <1>4 DEF M
<1> QED
  BY <1>4, <1>5 DEF Same, M

LEMMA SameTransitive ==
    ASSUME NEW x \in Int, NEW y \in Int, NEW z \in Int, Same(x, y), Same(y, z)
    PROVE  Same(x, z)
<1>1. Same(x + y, y + z)
  BY SameAdd
<1>2. Same((x + y) - y, (y + z) - y)
  BY <1>1, SameReflexive, SameAdd
<1>3. (x + y) - y = x /\ (y + z) - y = z
  OBVIOUS
<1> QED
  BY <1>2, <1>3

(* The remainder is the only one of its class in the range of a clock. *)
LEMMA SameInRange ==
    ASSUME NEW x \in Clock, NEW y \in Clock, Same(x, y) PROVE x = y
<1>1. PICK j \in Int : x = y + j * (CLOCK_MAX + 1)
  BY DEF Same
<1> DEFINE M == CLOCK_MAX + 1
<1>2. /\ M \in Int /\ M > 0 /\ x \in Int /\ y \in Int /\ x >= 0 /\ y >= 0
      /\ x < M /\ y < M /\ x = y + j * M
  BY <1>1, Consts DEF Clock
<1> HIDE DEF M
<1>3. j * M < M /\ j * M > -M
  BY <1>2
<1>4. CASE j >= 1
  <2>1. j * M >= M
    BY <1>2, <1>4
  <2> QED
    BY <2>1, <1>3, <1>2
<1>5. CASE j <= -1
  <2>1. j * M <= -M
    BY <1>2, <1>5
  <2> QED
    BY <2>1, <1>3, <1>2
<1>6. CASE j = 0
  BY <1>2, <1>6
<1> QED
  BY <1>4, <1>5, <1>6

LEMMA ClockSame ==
    ASSUME NEW x \in Int, NEW y \in Int
    PROVE  /\ Same(ClockAdd(x, y), x + y) /\ Same(x + y, ClockAdd(x, y))
           /\ Same(ClockSub(x, y), x - y) /\ Same(x - y, ClockSub(x, y))
<1>1. ASSUME NEW z \in Int PROVE Same(z % (CLOCK_MAX + 1), z) /\ z % (CLOCK_MAX + 1) \in Int
  <2> DEFINE M == CLOCK_MAX + 1
  <2>1. M \in Int /\ M > 0
    BY Consts
  <2> HIDE DEF M
  <2>2. z \div M \in Int /\ z = M * (z \div M) + (z % M) /\ z % M \in Int
    BY <2>1
  <2>3. -(z \div M) \in Int /\ z % M = z + (-(z \div M)) * M
    BY <2>1, <2>2
  <2> QED
    BY <2>2, <2>3 DEF Same, M
<1>2. /\ Same(ClockAdd(x, y), x + y) /\ Same(ClockSub(x, y), x - y)
      /\ ClockAdd(x, y) \in Int /\ ClockSub(x, y) \in Int
  <2>1. x + y \in Int /\ x - y \in Int
    OBVIOUS
  <2> QED
    BY <1>1, <2>1 DEF ClockAdd, ClockSub
<1> QED
  BY <1>2, SameSymmetric

(* The difference of two clocks as the code takes it. *)
LEMMA DiffType ==
    ASSUME NEW x \in Clock, NEW y \in Clock
    PROVE  /\ Diff(x, y) \in Int /\ Same(x - y, Diff(x, y))
           /\ 2 * Diff(x, y) <= CLOCK_MAX /\ 2 * Diff(x, y) >= -(CLOCK_MAX + 1)
<1> DEFINE d == ClockSub(x, y)
<1>0. x \in Int /\ y \in Int
  BY DEF Clock
<1>1. d \in Clock /\ d \in Int
  <2>1. d \in Clock
    BY <1>0, ClockArithmetic
  <2> HIDE DEF d
  <2> QED
    BY <2>1, Consts DEF Clock
<1>2. Same(x - y, d)
  BY <1>0, <1>1, ClockSame
<1>3. Diff(x, y) = IF 2 * d > CLOCK_MAX THEN d - (CLOCK_MAX + 1) ELSE d
  BY DEF Diff
<1> HIDE DEF d
<1>4. Same(d, d - (CLOCK_MAX + 1))
  <2>1. d = (d - (CLOCK_MAX + 1)) + 1 * (CLOCK_MAX + 1)
    BY <1>0, <1>1, Consts
  <2> QED
    BY <2>1 DEF Same
<1>5. d - (CLOCK_MAX + 1) \in Int /\ x - y \in Int
  BY <1>0, <1>1, Consts
<1>6. Same(x - y, d - (CLOCK_MAX + 1))
  BY <1>0, <1>1, <1>2, <1>4, <1>5, SameTransitive
<1>7. Diff(x, y) \in Int /\ 2 * Diff(x, y) <= CLOCK_MAX /\ 2 * Diff(x, y) >= -(CLOCK_MAX + 1)
  <2>1. d >= 0 /\ d <= CLOCK_MAX /\ CLOCK_MAX \in Nat
    BY <1>1, Consts DEF Clock
  <2> QED
    BY <1>1, <1>3, <2>1
<1> QED
  BY <1>7, <1>0, <1>1, <1>2, <1>3, <1>5, <1>6

LEMMA DiffIs ==
    ASSUME NEW x \in Clock, NEW y \in Clock, NEW b \in Int, Same(x - y, b),
           2 * b <= CLOCK_MAX, 2 * b >= -(CLOCK_MAX + 1)
    PROVE  Diff(x, y) = b
<1> DEFINE d == ClockSub(x, y)
<1>0. x \in Int /\ y \in Int /\ CLOCK_MAX \in Nat
  BY Consts DEF Clock
<1>1. d \in Clock /\ d \in Int
  <2>1. d \in Clock
    BY <1>0, ClockArithmetic
  <2> HIDE DEF d
  <2> QED
    BY <2>1, Consts DEF Clock
<1>2. Same(d, x - y)
  BY <1>0, <1>1, ClockSame
<1>3. Diff(x, y) = IF 2 * d > CLOCK_MAX THEN d - (CLOCK_MAX + 1) ELSE d
  BY DEF Diff
<1> HIDE DEF d
<1>4. Same(d, b)
  <2>1. x - y \in Int
    BY <1>0, <1>1
  <2> QED
    BY <1>0, <1>1, <1>2, <2>1, SameTransitive
<1>5. CASE b >= 0
  <2>1. b \in Clock
    BY <1>0, <1>1, <1>5 DEF Clock
  <2>2. d = b
    BY <1>0, <1>1, <1>4, <2>1, SameInRange
  <2> QED
    BY <1>0, <1>1, <1>3, <2>2
<1>6. CASE b < 0
  <2>1. b + (CLOCK_MAX + 1) \in Clock /\ b + (CLOCK_MAX + 1) \in Int
    BY <1>0, <1>1, <1>6 DEF Clock
  <2>2. Same(b, b + (CLOCK_MAX + 1))
    <3>1. b = (b + (CLOCK_MAX + 1)) + (-1) * (CLOCK_MAX + 1)
      BY <1>0, <1>1
    <3> QED
      BY <3>1 DEF Same
  <2>3. Same(d, b + (CLOCK_MAX + 1))
    BY <1>0, <1>1, <1>4, <2>1, <2>2, SameTransitive
  <2>4. d = b + (CLOCK_MAX + 1)
    BY <1>0, <1>1, <2>1, <2>3, SameInRange
  <2> QED
    BY <1>0, <1>1, <1>3, <1>6, <2>4
<1> QED
  BY <1>5, <1>6

(* Cycles and the fraction that is kept. *)
LEMMA Division ==
    ASSUME NEW x \in Nat
    PROVE  /\ x \div One \in Nat /\ x % One \in 0 .. One - 1
           /\ x = One * (x \div One) + (x % One)
           /\ \A q \in Nat, a \in 0 .. One - 1 :
                 x = One * q + a => x \div One = q /\ x % One = a
  BY Consts
-----------------------------------------------------------------------------
(* What the first k turns of the loop for n main cycles take off. *)
Fed(n, k) == IF k * Chunk <= n THEN k * Chunk ELSE n

LEMMA FedFacts ==
    ASSUME NEW n \in Nat
    PROVE  /\ Turns(n) \in Nat /\ Fed(n, 0) = 0 /\ Fed(n, Turns(n)) = n
           /\ \A k \in 0 .. Turns(n) - 1 :
                 /\ Fed(n, k) \in Nat /\ Size(n, k + 1) \in 0 .. Chunk
                 /\ Fed(n, k + 1) = Fed(n, k) + Size(n, k + 1)
<1> DEFINE N == (n + Chunk - 1) \div Chunk
           rem == (n + Chunk - 1) % Chunk
<1>1. /\ N \in Nat /\ rem \in 0 .. Chunk - 1 /\ n + Chunk - 1 = Chunk * N + rem
  BY Consts
<1>2. N = Turns(n)
  BY DEF Turns
<1> HIDE DEF N, rem
<1>3. N * Chunk >= n /\ N * Chunk <= n + Chunk - 1 /\ N * Chunk \in Nat
  BY <1>1, Consts
<1>4. Fed(n, 0) = 0 /\ Fed(n, N) = n
  BY <1>1, <1>3, Consts DEF Fed
<1>5. ASSUME NEW k \in 0 .. N - 1
      PROVE  /\ Fed(n, k) \in Nat /\ Size(n, k + 1) \in 0 .. Chunk
             /\ Fed(n, k + 1) = Fed(n, k) + Size(n, k + 1)
  <2>1. /\ k \in Nat /\ k + 1 <= N /\ (k + 1) - 1 = k
    BY <1>1
  <2>2. /\ k * Chunk \in Nat /\ (k + 1) * Chunk = k * Chunk + Chunk
        /\ (k + 1) * Chunk <= N * Chunk
    BY <1>1, <2>1, Consts
  <2> DEFINE p == k * Chunk
  <2>3. p \in Nat /\ p + Chunk <= n + Chunk - 1 /\ (k + 1) * Chunk = p + Chunk
    BY <1>3, <2>2, Consts
  <2>4. /\ Size(n, k + 1) = IF n - p > Chunk THEN Chunk ELSE n - p
        /\ Fed(n, k) = IF p <= n THEN p ELSE n
        /\ Fed(n, k + 1) = IF p + Chunk <= n THEN p + Chunk ELSE n
    BY <2>1, <2>3 DEF Size, Fed
  <2> HIDE DEF p
  <2> QED
    BY <2>3, <2>4, Consts
<1> QED
  BY <1>1, <1>2, <1>4, <1>5

(* One turn: the accumulator does not overflow, and what leaves it as whole
   cycles reaches stop_clk. *)
LEMMA ConvertExact ==
    ASSUME NEW c \in DriveState, NEW f \in Rates, NEW t \in 0 .. Chunk
    PROVE  \E q \in Nat : /\ One * q + Convert(c, f, t).cycle_accum = c.cycle_accum + t * f
                          /\ Same(Convert(c, f, t).stop_clk, c.stop_clk + q)
<1> DEFINE accum == ClockAdd(c.cycle_accum, f * t)
           q == accum \div One
           a == accum % One
           s == ClockAdd(c.stop_clk, q)
<1>1. c.cycle_accum \in 0 .. One - 1 /\ c.stop_clk \in Int /\ f \in Nat /\ t \in Nat
  BY DriveFields, Consts
<1>2. f * t \in Nat /\ f * t <= f * Chunk /\ f * t = t * f
  BY <1>1, Consts
<1>3. One - 1 + f * Chunk <= CLOCK_MAX /\ f * Chunk \in Nat
  BY <1>1, RateAssumption, Consts
<1>4. c.cycle_accum + f * t \in Clock /\ c.cycle_accum \in Int /\ f * t \in Int
  BY <1>1, <1>2, <1>3, Consts DEF Clock
<1>5. accum = c.cycle_accum + t * f /\ accum \in Nat
  <2>1. accum = c.cycle_accum + f * t
    BY <1>4, ClockArithmetic
  <2> HIDE DEF accum
  <2> QED
    BY <2>1, <1>1, <1>2
<1> HIDE DEF accum
<1>6. q \in Nat /\ q \in Int /\ accum = One * q + a
  BY <1>5, Division
<1>7. Convert(c, f, t) = [c EXCEPT !.stop_clk = s, !.cycle_accum = a]
  BY DEF Convert, accum
<1> HIDE DEF q, a
<1>8. Same(s, c.stop_clk + q)
  <2>1. q \in Int /\ c.stop_clk \in Int
    BY <1>1, <1>6
  <2> QED
    BY <2>1, ClockSame
<1> HIDE DEF s
<1>9. Convert(c, f, t).stop_clk = s /\ Convert(c, f, t).cycle_accum = a
  BY <1>7 DEF DriveState
<1> QED
  BY <1>5, <1>6, <1>8, <1>9

(* The loop, after any number of its turns. *)
Progress(r, c, f, m) ==
    \E q \in Nat : /\ One * q + c.cycle_accum = r.cycle_accum + m * f
                   /\ Same(c.stop_clk, r.stop_clk + q)

LEMMA ProgressStep ==
    ASSUME NEW r \in DriveState, NEW c \in DriveState, NEW f \in Rates, NEW m \in Nat,
           Progress(r, c, f, m), NEW t \in 0 .. Chunk
    PROVE  Progress(r, Convert(c, f, t), f, m + t)
<1> DEFINE e == Convert(c, f, t)
<1>1. PICK p \in Nat : /\ One * p + c.cycle_accum = r.cycle_accum + m * f
                       /\ Same(c.stop_clk, r.stop_clk + p)
  BY DEF Progress
<1>2. PICK q \in Nat : /\ One * q + e.cycle_accum = c.cycle_accum + t * f
                       /\ Same(e.stop_clk, c.stop_clk + q)
  BY ConvertExact
<1>3. e \in DriveState /\ f \in Nat /\ t \in Int
  <2>1. SameBut(c, c) /\ f \in Nat /\ t \in Int
    BY Consts DEF SameBut
  <2> QED
    BY <2>1, ConvertFacts DEF SameBut
<1> HIDE DEF e
<1>4. /\ r.stop_clk \in Int /\ c.stop_clk \in Int /\ e.stop_clk \in Int
      /\ r.cycle_accum \in Int /\ c.cycle_accum \in Int /\ e.cycle_accum \in Int
  BY <1>3, DriveFields
<1>5. /\ One * p \in Int /\ One * q \in Int /\ One * (p + q) = One * p + One * q
      /\ m * f \in Int /\ t * f \in Int /\ (m + t) * f = m * f + t * f
  BY <1>3, Consts
<1>6. One * (p + q) + e.cycle_accum = r.cycle_accum + (m + t) * f
  BY <1>1, <1>2, <1>4, <1>5
<1>7. Same(e.stop_clk, r.stop_clk + (p + q))
  <2>1. Same(q, q) /\ q \in Int
    BY SameReflexive
  <2>5. r.stop_clk + p \in Int /\ c.stop_clk \in Int /\ Same(c.stop_clk, r.stop_clk + p)
    BY <1>1, <1>4
  <2>2. Same(c.stop_clk + q, (r.stop_clk + p) + q)
    BY <2>1, <2>5, SameAdd
  <2>3. (r.stop_clk + p) + q = r.stop_clk + (p + q)
    BY <1>4
  <2>4. c.stop_clk + q \in Int /\ (r.stop_clk + p) + q \in Int
    BY <1>4
  <2> QED
    BY <1>2, <1>4, <2>2, <2>3, <2>4, SameTransitive
<1>8. p + q \in Nat
  OBVIOUS
<1> QED
  BY <1>6, <1>7, <1>8 DEF Progress, e

(* The conversion loop gives the cycles that belong to n main cycles, and keeps
   the fraction. *)
LEMMA FeedExact ==
    ASSUME NEW r \in DriveState, NEW f \in Rates, NEW n \in Nat
    PROVE  LET owed == r.cycle_accum + n * f
           IN  /\ owed \in Nat /\ owed \div One \in Nat
               /\ Feed(r, f, n).cycle_accum = owed % One
               /\ Same(Feed(r, f, n).stop_clk, r.stop_clk + owed \div One)
<1>1. PICK g : IsFed(g, r, f, n, Turns(n)) /\ Feed(r, f, n) = g[Turns(n)]
  BY FeedIsFed
<1> DEFINE N == Turns(n)
<1>2. /\ N \in Nat /\ Fed(n, 0) = 0 /\ Fed(n, N) = n
      /\ \A k \in 0 .. N - 1 : /\ Fed(n, k) \in Nat /\ Size(n, k + 1) \in 0 .. Chunk
                               /\ Fed(n, k + 1) = Fed(n, k) + Size(n, k + 1)
  BY FedFacts
<1>3. \A k \in 0 .. N : g[k] = IF k = 0 THEN r ELSE Convert(g[k - 1], f, Size(n, k))
  BY <1>1 DEF IsFed
<1> HIDE DEF N
<1>4. f \in Nat /\ r.cycle_accum \in 0 .. One - 1 /\ r.stop_clk \in Int
  BY DriveFields, Consts
<1> DEFINE ok(k) == g[k] \in DriveState /\ Progress(r, g[k], f, Fed(n, k))
           T == {k \in 0 .. N : ok(k)}
<1>5. 0 \in T
  <2>1. g[0] = r /\ 0 \in 0 .. N
    BY <1>2, <1>3
  <2>2. One * 0 + r.cycle_accum = r.cycle_accum + 0 * f /\ r.stop_clk + 0 = r.stop_clk
    BY <1>4, Consts
  <2>3. Progress(r, r, f, 0)
    BY <1>4, <2>2, SameReflexive DEF Progress
  <2> QED
    BY <1>2, <2>1, <2>3
<1>6. ASSUME NEW k \in 0 .. N - 1, k \in T PROVE k + 1 \in T
  <2>1. g[k + 1] = Convert(g[k], f, Size(n, k + 1)) /\ k + 1 \in 0 .. N
    BY <1>2, <1>3
  <2>2. /\ Fed(n, k) \in Nat /\ Size(n, k + 1) \in 0 .. Chunk
        /\ Fed(n, k + 1) = Fed(n, k) + Size(n, k + 1)
    BY <1>2
  <2>3. Progress(r, g[k + 1], f, Fed(n, k + 1))
    BY <1>6, <2>1, <2>2, ProgressStep
  <2>4. g[k + 1] \in DriveState
    <3>1. SameBut(g[k], g[k]) /\ Size(n, k + 1) \in Int
      BY <1>6, <2>2, Consts DEF SameBut
    <3>2. SameBut(g[k], Convert(g[k], f, Size(n, k + 1)))
      BY <1>4, <3>1, ConvertFacts
    <3> QED
      BY <2>1, <3>2 DEF SameBut
  <2>5. ok(k + 1) /\ k + 1 \in 0 .. N
    BY <2>1, <2>3, <2>4
  <2> HIDE DEF ok
  <2> QED
    BY <2>5
<1> HIDE DEF T
<1>7. 0 .. N \subseteq T
  BY <1>2, <1>5, <1>6, SetUpTo
<1>8. g[N] \in DriveState /\ Progress(r, g[N], f, n)
  BY <1>2, <1>7 DEF T
<1>9. PICK q \in Nat : /\ One * q + g[N].cycle_accum = r.cycle_accum + n * f
                       /\ Same(g[N].stop_clk, r.stop_clk + q)
  BY <1>8 DEF Progress
<1> DEFINE owed == r.cycle_accum + n * f
           a == g[N].cycle_accum
<1>10. owed \in Nat /\ a \in 0 .. One - 1 /\ owed = One * q + a
  <2>1. n * f \in Nat
    BY <1>4
  <2> QED
    BY <1>4, <1>8, <1>9, <2>1, DriveFields, Consts
<1> HIDE DEF a, owed
<1>11. owed \div One = q /\ owed % One = a
  BY <1>10, Consts
<1> QED
  BY <1>1, <1>9, <1>10, <1>11 DEF owed, a, N
-----------------------------------------------------------------------------
(* What a drive is ahead of what it was given, what it is owed, in parts of a
   cycle, once m main cycles more are counted, and what it is ahead then. *)
Ahead(r)      == Diff(r.clk, r.stop_clk)
Owed(r, f, m) == r.cycle_accum + m * f
Left(r, f, m) == Ahead(r) - (Owed(r, f, m) \div One)

(* A drive as it is found whenever it is run. *)
InStep(r) == /\ Ahead(r) \in 0 .. ResetClk + MaxOp - 1
             /\ r.reset => r.clk = 0

(* The drive r was run for m main cycles and is e now: what it was given, and
   where its clock went. *)
Gave(r, f, m, e) ==
    /\ e.cycle_accum = Owed(r, f, m) % One
    /\ (e.reset <=> r.reset /\ Left(r, f, m) >= 0)
    /\ \/ Left(r, f, m) >= 0 /\ Ahead(e) = Left(r, f, m)
       \/ /\ Left(r, f, m) < 0 /\ r.reset /\ Left(r, f, m) + ResetClk >= 0
          /\ Ahead(e) \in Left(r, f, m) + ResetClk + 1 .. Left(r, f, m) + ResetClk + MaxOp
       \/ /\ Left(r, f, m) < 0 /\ ~(r.reset /\ Left(r, f, m) + ResetClk >= 0)
          /\ Ahead(e) \in 0 .. MaxOp - 1

Went(r, f, m, e) ==
    \/ Left(r, f, m) >= 0 /\ e.clk = r.clk
    \/ r.reset /\ e.clk <= ResetClk + MaxOp
    \/ /\ Left(r, f, m) < 0
       /\ \E over \in 0 .. MaxOp - 1 : Same(e.clk, r.clk - Left(r, f, m) + over)

Ran(r, f, m, e) == Gave(r, f, m, e) /\ Went(r, f, m, e)

(* The opcodes after the conversion: b is what the drive is ahead of stop_clk. *)
LEMMA OpcodesExact ==
    ASSUME NEW c \in DriveState, NEW over \in 0 .. MaxOp - 1, NEW b \in Int,
           Same(c.clk - c.stop_clk, b), c.reset => c.clk = 0,
           b <= ResetClk + MaxOp - 1, 2 * b >= -(CLOCK_MAX + 1)
    PROVE  LET e == Opcodes(c, over)
           IN  /\ e.cycle_accum = c.cycle_accum
               /\ (e.reset <=> c.reset /\ b >= 0)
               /\ \/ b >= 0 /\ Ahead(e) = b /\ e.clk = c.clk
                  \/ /\ b < 0 /\ c.reset /\ b + ResetClk >= 0
                     /\ Ahead(e) = b + ResetClk + over + 1
                     /\ e.clk = ResetClk + over + 1
                  \/ /\ b < 0 /\ ~(c.reset /\ b + ResetClk >= 0)
                     /\ Ahead(e) = over /\ Same(e.clk, c.clk - b + over)
<1>1. /\ c.clk \in Clock /\ c.stop_clk \in Clock /\ c.clk \in Int /\ c.stop_clk \in Int
      /\ c.reset \in BOOLEAN
  BY DriveFields
<1>2. /\ CLOCK_MAX \in Nat /\ 2 * (ResetClk + MaxOp) <= CLOCK_MAX /\ ResetClk \in Nat
      /\ over \in Nat /\ over < MaxOp /\ MaxOp \in Nat
  BY Consts
<1>3. Diff(c.clk, c.stop_clk) = b
  <2>1. 2 * b <= CLOCK_MAX
    BY <1>2
  <2> QED
    BY <1>1, <2>1, DiffIs
<1>4. CASE b >= 0
  <2>1. Opcodes(c, over) = c
    BY <1>3, <1>4 DEF Opcodes
  <2> QED
    BY <2>1, <1>1, <1>3, <1>4 DEF Ahead
<1>5. CASE b < 0
  <2>1. c.reset => Same(ResetClk - c.stop_clk, b + ResetClk)
    <3>1. Same(ResetClk, ResetClk) /\ c.clk - c.stop_clk \in Int
      BY <1>1, <1>2, SameReflexive
    <3>2. Same((c.clk - c.stop_clk) + ResetClk, b + ResetClk)
      BY <1>2, <3>1, SameAdd
    <3>3. c.clk = 0 => (c.clk - c.stop_clk) + ResetClk = ResetClk - c.stop_clk
      BY <1>1, <1>2
    <3> QED
      BY <3>2, <3>3
  <2>2. c.reset => Diff(ResetClk, c.stop_clk) = b + ResetClk
    <3>1. ResetClk \in Clock /\ b + ResetClk \in Int
      BY <1>2, Guards, Consts DEF Clock
    <3>2. 2 * (b + ResetClk) <= CLOCK_MAX /\ 2 * (b + ResetClk) >= -(CLOCK_MAX + 1)
      BY <1>2, <1>5
    <3> QED
      BY <1>1, <2>1, <3>1, <3>2, DiffIs
  <2>3. CASE c.reset /\ b + ResetClk >= 0
    <3>1. ClockAdd(ResetClk, over + 1) = ResetClk + over + 1 /\ ResetClk + over + 1 \in Clock
      <4>1. ResetClk + (over + 1) \in Clock
        BY <1>2, Consts DEF Clock
      <4> QED
        BY <1>2, <4>1, ClockArithmetic
    <3> DEFINE e == [c EXCEPT !.clk = ResetClk + over + 1, !.reset = FALSE]
    <3>2. Opcodes(c, over) = e
      <4>1. ~(Diff(c.clk, c.stop_clk) >= 0) /\ c.reset /\ Diff(ResetClk, c.stop_clk) >= 0
        BY <1>3, <1>5, <2>2, <2>3
      <4>2. Opcodes(c, over) = [c EXCEPT !.clk = ClockAdd(ResetClk, over + 1), !.reset = FALSE]
        BY <4>1 DEF Opcodes
      <4> QED
        BY <3>1, <4>2
    <3>3. /\ e.clk = ResetClk + over + 1 /\ e.stop_clk = c.stop_clk
          /\ e.cycle_accum = c.cycle_accum /\ e.reset = FALSE
      BY DEF DriveState
    <3> HIDE DEF e
    <3>4. Ahead(e) = b + ResetClk + over + 1
      <4>1. over + 1 \in Int /\ ResetClk - c.stop_clk \in Int /\ b + ResetClk \in Int
        BY <1>1, <1>2
      <4>5. Same(over + 1, over + 1) /\ Same(ResetClk - c.stop_clk, b + ResetClk)
        BY <2>1, <2>3, <4>1, SameReflexive
      <4>2. Same((ResetClk - c.stop_clk) + (over + 1), (b + ResetClk) + (over + 1))
        BY <4>1, <4>5, SameAdd
      <4>3. Same(e.clk - e.stop_clk, b + ResetClk + over + 1)
        <5>1. /\ (ResetClk - c.stop_clk) + (over + 1) = e.clk - e.stop_clk
              /\ (b + ResetClk) + (over + 1) = b + ResetClk + over + 1
          BY <1>1, <1>2, <3>3
        <5> QED
          BY <4>2, <5>1
      <4>4. /\ e.clk \in Clock /\ e.stop_clk \in Clock /\ b + ResetClk + over + 1 \in Int
            /\ 2 * (b + ResetClk + over + 1) <= CLOCK_MAX
            /\ 2 * (b + ResetClk + over + 1) >= -(CLOCK_MAX + 1)
        BY <1>1, <1>2, <1>5, <2>3, <3>1, <3>3
      <4> QED
        BY <4>3, <4>4, DiffIs DEF Ahead
    <3>5. ~(b >= 0)
      BY <1>5
    <3> QED
      BY <1>5, <2>3, <3>2, <3>3, <3>4, <3>5, Zenon
  <2>4. CASE ~(c.reset /\ b + ResetClk >= 0)
    <3> DEFINE s == ClockAdd(c.stop_clk, over)
               e == [c EXCEPT !.clk = s, !.reset = FALSE]
    <3>1. Opcodes(c, over) = e
      BY <1>1, <1>3, <1>5, <2>2, <2>4 DEF Opcodes
    <3>2. /\ e.clk = s /\ e.stop_clk = c.stop_clk
          /\ e.cycle_accum = c.cycle_accum /\ e.reset = FALSE
      BY DEF DriveState
    <3>3. s \in Clock /\ Same(s, c.stop_clk + over)
      <4>1. over \in Int
        BY <1>2
      <4> QED
        BY <1>1, <4>1, ClockArithmetic, ClockSame
    <3> HIDE DEF s
    <3>4. s \in Int
      BY <3>3, Consts DEF Clock
    <3> HIDE DEF e
    <3>5. Ahead(e) = over
      <4>1. Same(c.stop_clk, c.stop_clk) /\ c.stop_clk + over \in Int
        BY <1>1, <1>2, SameReflexive
      <4>2. Same(s - c.stop_clk, (c.stop_clk + over) - c.stop_clk)
        BY <1>1, <3>3, <3>4, <4>1, SameAdd
      <4>3. Same(e.clk - e.stop_clk, over)
        <5>1. (c.stop_clk + over) - c.stop_clk = over
          BY <1>1, <1>2
        <5> QED
          BY <3>2, <4>2, <5>1
      <4>4. over \in Int /\ 2 * over <= CLOCK_MAX /\ 2 * over >= -(CLOCK_MAX + 1)
        BY <1>2
      <4> QED
        BY <1>1, <3>2, <3>3, <4>3, <4>4, DiffIs DEF Ahead
    <3>6. Same(e.clk, c.clk - b + over)
      <4>1. Same(c.clk + over, c.clk + over) /\ c.clk + over \in Int /\ c.clk - c.stop_clk \in Int
        BY <1>1, <1>2, SameReflexive
      <4>2. Same((c.clk + over) - (c.clk - c.stop_clk), (c.clk + over) - b)
        BY <4>1, SameAdd
      <4>3. /\ (c.clk + over) - (c.clk - c.stop_clk) = c.stop_clk + over
            /\ (c.clk + over) - b = c.clk - b + over
            /\ c.stop_clk + over \in Int /\ c.clk - b + over \in Int
        BY <1>1, <1>2
      <4>4. Same(c.stop_clk + over, c.clk - b + over)
        BY <4>2, <4>3
      <4> QED
        BY <3>2, <3>3, <3>4, <4>3, <4>4, SameTransitive
    <3>7. ~(b >= 0)
      BY <1>5
    <3> QED
      BY <1>5, <2>4, <3>1, <3>2, <3>5, <3>6, <3>7, Zenon
  <2> QED
    BY <2>3, <2>4
<1> QED
  BY <1>4, <1>5

(* The cycles that a drive is given fit in a signed difference. *)
LEMMA OwedFits ==
    ASSUME NEW r \in DriveState, NEW f \in Rates, NEW m \in 0 .. MaxLag
    PROVE  /\ Owed(r, f, m) \in Nat /\ Owed(r, f, m) \div One \in Nat
           /\ 2 * (Owed(r, f, m) \div One) <= CLOCK_MAX + 1
<1> DEFINE x == Owed(r, f, m)
           y == One - 1 + MaxLag * f
<1>1. r.cycle_accum \in 0 .. One - 1 /\ f \in Nat /\ m \in Nat /\ MaxLag \in Nat /\ One \in Nat
  BY DriveFields, Consts
<1>2. x \in Nat /\ y \in Nat /\ x <= y
  <2>1. m * f \in Nat /\ MaxLag * f \in Nat /\ m * f <= MaxLag * f
    BY <1>1
  <2> QED
    BY <1>1, <2>1, Consts DEF Owed
<1>3. 2 * (y \div One) <= CLOCK_MAX + 1
  BY RateAssumption
<1> HIDE DEF x, y
<1> DEFINE p == x \div One
           q == y \div One
<1>4. /\ p \in Nat /\ q \in Nat /\ x = One * p + (x % One) /\ y = One * q + (y % One)
      /\ x % One \in 0 .. One - 1 /\ y % One \in 0 .. One - 1
  BY <1>2, Division
<1>5. p <= q
  <2> HIDE DEF p, q
  <2> SUFFICES ASSUME p >= q + 1 PROVE FALSE
    BY <1>4
  <2>1. One * p >= One * q + One
    BY <1>1, <1>4
  <2>2. One * p \in Nat /\ One * q \in Nat
    BY <1>1, <1>4
  <2> QED
    BY <1>1, <1>2, <1>4, <2>1, <2>2
<1> QED
  BY <1>2, <1>3, <1>4, <1>5, Consts DEF x
-----------------------------------------------------------------------------
LEMMA RunExact ==
    ASSUME NEW r \in DriveState, NEW f \in Rates, NEW m \in 0 .. MaxLag, InStep(r),
           NEW over \in 0 .. MaxOp - 1
    PROVE  LET e == Opcodes(Feed(r, f, m), over)
           IN  e \in DriveState /\ Ran(r, f, m, e) /\ InStep(e)
<1> DEFINE c == Feed(r, f, m)
           e == Opcodes(c, over)
           q == Owed(r, f, m) \div One
           b == Left(r, f, m)
<1>1. m \in Nat /\ f \in Nat
  BY Consts
<1>2. /\ q \in Nat /\ c.cycle_accum = Owed(r, f, m) % One
      /\ Same(c.stop_clk, r.stop_clk + q)
  BY <1>1, FeedExact DEF Owed
<1>3. c \in DriveState /\ c.clk = r.clk /\ (c.reset <=> r.reset)
  BY <1>1, FeedFacts DEF SameBut
<1>4. 2 * q <= CLOCK_MAX + 1
  BY OwedFits
<1> HIDE DEF q
<1>5. /\ r.clk \in Clock /\ r.stop_clk \in Clock /\ r.clk \in Int /\ r.stop_clk \in Int
      /\ c.stop_clk \in Int
  BY <1>3, DriveFields
<1>6. /\ Ahead(r) \in 0 .. ResetClk + MaxOp - 1 /\ Ahead(r) \in Int
      /\ Same(r.clk - r.stop_clk, Ahead(r)) /\ b = Ahead(r) - q
      /\ (c.reset => c.clk = 0)
  <2>1. Ahead(r) \in Int /\ Same(r.clk - r.stop_clk, Ahead(r))
    BY <1>5, DiffType DEF Ahead
  <2> QED
    BY <1>3, <2>1 DEF InStep, Left, q
<1> HIDE DEF b
<1>7. b \in Int /\ b <= ResetClk + MaxOp - 1 /\ 2 * b >= -(CLOCK_MAX + 1)
  BY <1>2, <1>4, <1>6, Consts
<1>8. Same(c.clk - c.stop_clk, b)
  <2>1. c.stop_clk \in Int /\ r.stop_clk + q \in Int /\ r.clk \in Int /\ q \in Int
        /\ r.clk - r.stop_clk \in Int
    BY <1>2, <1>5
  <2>2. Same(r.clk, r.clk) /\ Same(q, q)
    BY <2>1, SameReflexive
  <2>3. Same(r.clk - c.stop_clk, r.clk - (r.stop_clk + q))
    BY <1>2, <2>1, <2>2, SameAdd
  <2>4. Same((r.clk - r.stop_clk) - q, Ahead(r) - q)
    BY <1>6, <2>1, <2>2, SameAdd
  <2>5. (r.clk - r.stop_clk) - q \in Int /\ r.clk - c.stop_clk \in Int
    BY <2>1
  <2>6. r.clk - (r.stop_clk + q) = (r.clk - r.stop_clk) - q
    <3>1. \A x, y, z \in Int : x - (y + z) = (x - y) - z
      OBVIOUS
    <3> QED
      BY <1>2, <1>5, <3>1
  <2> QED
    BY <1>3, <1>6, <1>7, <2>3, <2>4, <2>5, <2>6, SameTransitive
<1> HIDE DEF c
<1>9. /\ e.cycle_accum = c.cycle_accum
      /\ (e.reset <=> c.reset /\ b >= 0)
      /\ \/ b >= 0 /\ Ahead(e) = b /\ e.clk = c.clk
         \/ /\ b < 0 /\ c.reset /\ b + ResetClk >= 0
            /\ Ahead(e) = b + ResetClk + over + 1
            /\ e.clk = ResetClk + over + 1
         \/ /\ b < 0 /\ ~(c.reset /\ b + ResetClk >= 0)
            /\ Ahead(e) = over /\ Same(e.clk, c.clk - b + over)
  BY <1>3, <1>6, <1>7, <1>8, OpcodesExact
<1>10. e \in DriveState
  BY <1>3, OpcodesFacts
<1> HIDE DEF e
<1>11. /\ over \in Nat /\ over < MaxOp /\ MaxOp \in Nat /\ ResetClk \in Nat
  BY Consts
<1>12. Ran(r, f, m, e)
  <2>1. b = Left(r, f, m)
    BY DEF b
  <2>2. CASE b >= 0 /\ Ahead(e) = b /\ e.clk = c.clk
    BY <1>2, <1>3, <1>9, <2>1, <2>2 DEF Ran, Gave, Went
  <2>3. CASE /\ b < 0 /\ c.reset /\ b + ResetClk >= 0
             /\ Ahead(e) = b + ResetClk + over + 1 /\ e.clk = ResetClk + over + 1
    <3>1. /\ Ahead(e) \in b + ResetClk + 1 .. b + ResetClk + MaxOp
          /\ e.clk <= ResetClk + MaxOp
      BY <1>7, <1>11, <2>3
    <3> QED
      BY <1>2, <1>3, <1>9, <2>1, <2>3, <3>1 DEF Ran, Gave, Went
  <2>4. CASE /\ b < 0 /\ ~(c.reset /\ b + ResetClk >= 0)
             /\ Ahead(e) = over /\ Same(e.clk, c.clk - b + over)
    <3>1. Ahead(e) \in 0 .. MaxOp - 1
      BY <2>4
    <3>2. \E w \in 0 .. MaxOp - 1 : Same(e.clk, r.clk - b + w)
      BY <2>4, <1>3
    <3> QED
      BY <1>2, <1>3, <1>9, <2>1, <2>4, <3>1, <3>2 DEF Ran, Gave, Went
  <2> QED
    BY <1>9, <2>2, <2>3, <2>4
<1>13. InStep(e)
  <2>1. Ahead(e) \in 0 .. ResetClk + MaxOp - 1
    BY <1>7, <1>9, <1>11
  <2>2. e.reset => e.clk = 0
    BY <1>6, <1>7, <1>9
  <2> QED
    BY <2>1, <2>2 DEF InStep
<1> QED
  BY <1>10, <1>12, <1>13 DEF e, c

(* What is said of a drive does not depend on its last_clk. *)
LEMMA OtherLast ==
    ASSUME NEW r \in DriveState, NEW l \in Clock
    PROVE  LET w == [r EXCEPT !.last_clk = l]
           IN  /\ w \in DriveState /\ w.last_clk = l /\ Ahead(w) = Ahead(r)
               /\ w.cycle_accum = r.cycle_accum /\ w.clk = r.clk /\ w.reset = r.reset
               /\ InStep(w) <=> InStep(r)
<1> DEFINE w == [r EXCEPT !.last_clk = l]
<1>1. /\ w \in DriveState /\ w.last_clk = l /\ w.stop_clk = r.stop_clk
      /\ w.cycle_accum = r.cycle_accum /\ w.clk = r.clk /\ w.reset = r.reset
  BY DEF DriveState
<1> HIDE DEF w
<1>2. Ahead(w) = Ahead(r)
  BY <1>1 DEF Ahead
<1>3. InStep(w) <=> InStep(r)
  BY <1>1, <1>2 DEF InStep
<1> QED
  BY <1>1, <1>2, <1>3 DEF w

(* drivecpu_execute: the drive gets the cycles of all the main cycles it lags,
   or, when it is woken up, none. *)
LEMMA ExecuteExact ==
    ASSUME NEW r \in DriveState, NEW f \in Rates, NEW clk_value \in Clock, NEW now \in Clock,
           NEW over \in 0 .. MaxOp - 1, InStep(r),
           r.last_clk <= clk_value, clk_value - r.last_clk <= MaxLag,
           now = clk_value \/ r.clk <= AwakeClk
    PROVE  LET e == Execute(r, f, clk_value, now, over)
               n == clk_value - r.last_clk
           IN  /\ InStep(e)
               /\ \E m \in {n} \cup (IF n > SkipAfter THEN {0} ELSE {}) : Ran(r, f, m, e)
<1> DEFINE n == clk_value - r.last_clk
           w == WakeUp(r, now)
           m == Lag(w, clk_value)
           o == Opcodes(Feed(w, f, m), over)
<1>1. /\ r.last_clk \in Clock /\ r.last_clk \in Int /\ clk_value \in Int /\ now \in Int
      /\ n \in 0 .. MaxLag /\ n \in Clock /\ r.clk \in Int
  BY DriveFields, Consts DEF Clock
<1>2. /\ m \in {n} \cup (IF n > SkipAfter THEN {0} ELSE {}) /\ m \in 0 .. MaxLag
      /\ w \in DriveState /\ InStep(w) /\ Ahead(w) = Ahead(r) /\ w.clk = r.clk
      /\ w.cycle_accum = r.cycle_accum /\ w.reset = r.reset
  <2>1. CASE ClockSub(now, r.last_clk) > SkipAfter /\ r.clk > AwakeClk
    <3>1. now = clk_value
      BY <2>1, <1>1, Consts
    <3>2. ClockSub(now, r.last_clk) = n
      BY <1>1, <3>1, ClockArithmetic
    <3>3. w = [r EXCEPT !.last_clk = now]
      BY <2>1 DEF WakeUp
    <3>4. m = 0
      <4>1. w.last_clk = now
        BY <3>3 DEF DriveState
      <4> QED
        BY <1>1, <3>1, <4>1 DEF Lag
    <3> HIDE DEF m, n, w
    <3>5. m \in {n} \cup (IF n > SkipAfter THEN {0} ELSE {}) /\ m \in 0 .. MaxLag
      BY <2>1, <3>2, <3>4, Consts
    <3> QED
      BY <3>3, <3>5, OtherLast
  <2>2. CASE ~(ClockSub(now, r.last_clk) > SkipAfter /\ r.clk > AwakeClk)
    <3>1. w = r
      BY <2>2 DEF WakeUp
    <3>2. m = n
      <4>1. m = Lag(r, clk_value)
        BY <3>1
      <4> QED
        BY <1>1, <4>1 DEF Lag
    <3> HIDE DEF w, m, n
    <3> QED
      BY <1>1, <3>1, <3>2
  <2> QED
    BY <2>1, <2>2
<1> HIDE DEF m, n, w
<1>3. o \in DriveState /\ Ran(w, f, m, o) /\ InStep(o)
  BY <1>2, RunExact
<1>4. Execute(r, f, clk_value, now, over) = [o EXCEPT !.last_clk = clk_value]
  BY DEF Execute, w, m
<1> DEFINE e == [o EXCEPT !.last_clk = clk_value]
<1> HIDE DEF o
<1>5. /\ Ahead(e) = Ahead(o) /\ e.cycle_accum = o.cycle_accum /\ e.clk = o.clk
      /\ e.reset = o.reset /\ InStep(e)
  BY <1>3, OtherLast
<1> HIDE DEF e
<1>6. Ran(r, f, m, e)
  <2>1. Owed(w, f, m) = Owed(r, f, m)
    BY <1>2 DEF Owed
  <2>2. Left(w, f, m) = Left(r, f, m)
    BY <1>2, <2>1 DEF Left
  <2> QED
    BY <1>2, <1>3, <1>5, <2>1, <2>2 DEF Ran, Gave, Went
<1> QED
  BY <1>2, <1>4, <1>5, <1>6 DEF e, n
-----------------------------------------------------------------------------
(* The guard of a drive takes the same off both of its clocks. *)
LEMMA DriveGuardExact ==
    ASSUME NEW r \in DriveState
    PROVE  LET e == DriveGuard(r)
           IN  /\ Ahead(e) = Ahead(r) /\ e.cycle_accum = r.cycle_accum /\ e.reset = r.reset
               /\ InStep(r) => InStep(e)
               /\ IF r.clk < MaxClk THEN e.clk = r.clk ELSE e.clk = r.clk - DriveSub
<1>1. /\ r.clk \in Clock /\ r.stop_clk \in Clock /\ r.clk \in Int /\ r.stop_clk \in Int
  BY DriveFields
<1>2. CASE r.clk < MaxClk
  BY <1>2 DEF DriveGuard
<1>3. CASE ~(r.clk < MaxClk)
  <2> DEFINE a == r.clk - DriveSub
             s == ClockSub(r.stop_clk, DriveSub)
             e == [r EXCEPT !.clk = a, !.stop_clk = s]
  <2>1. DriveSub \in Int /\ DriveSub \in Nat
    BY Guards
  <2>2. a \in Clock /\ a \in Int
    BY <1>1, <1>3, Guards, Consts DEF Clock
  <2>3. s \in Clock /\ Same(s, r.stop_clk - DriveSub)
    BY <1>1, <2>1, ClockArithmetic, ClockSame
  <2>4. DriveGuard(r) = [[r EXCEPT !.clk = a] EXCEPT !.stop_clk = ClockSub(@, DriveSub)]
    BY <1>3 DEF DriveGuard, ClkOverflow
  <2>5. [[r EXCEPT !.clk = a] EXCEPT !.stop_clk = ClockSub(@, DriveSub)] = e
    BY DEF DriveState
  <2>6. /\ e.clk = a /\ e.stop_clk = s /\ e.cycle_accum = r.cycle_accum /\ e.reset = r.reset
    BY DEF DriveState
  <2> HIDE DEF s, e
  <2>7. s \in Int
    BY <2>3, Consts DEF Clock
  <2>8. Same(a - s, Ahead(r))
    <3>1. Same(a, a) /\ r.stop_clk - DriveSub \in Int
      BY <1>1, <2>1, <2>2, SameReflexive
    <3>2. Same(a - s, a - (r.stop_clk - DriveSub))
      BY <2>2, <2>3, <2>7, <3>1, SameAdd
    <3>3. a - (r.stop_clk - DriveSub) = r.clk - r.stop_clk
      BY <1>1, <2>1
    <3>4. Same(r.clk - r.stop_clk, Ahead(r)) /\ Ahead(r) \in Int
      BY <1>1, DiffType DEF Ahead
    <3>5. a - s \in Int /\ r.clk - r.stop_clk \in Int
      BY <1>1, <2>2, <2>7
    <3> QED
      BY <3>2, <3>3, <3>4, <3>5, SameTransitive
  <2>9. Ahead(e) = Ahead(r)
    <3>1. /\ Ahead(r) \in Int /\ 2 * Ahead(r) <= CLOCK_MAX
          /\ 2 * Ahead(r) >= -(CLOCK_MAX + 1)
      BY <1>1, DiffType DEF Ahead
    <3>2. Diff(a, s) = Ahead(r)
      BY <2>2, <2>3, <2>8, <3>1, DiffIs
    <3> QED
      BY <2>6, <3>2 DEF Ahead
  <2>10. InStep(r) => InStep(e)
    <3>1. ~(r.clk = 0)
      BY <1>3, Guards, Consts
    <3> QED
      BY <2>6, <2>9, <3>1 DEF InStep
  <2> QED
    BY <1>3, <2>4, <2>5, <2>6, <2>9, <2>10
<1> QED
  BY <1>2, <1>3
-----------------------------------------------------------------------------
(* What the variables of DriveRate stand for. *)
LagOf     == [d \in Drives |-> IF d \in enable THEN ClockSub(ClockOf(d), dr[d].last_clk) ELSE 0]
FracOf    == [d \in Drives |-> dr[d].cycle_accum]
AheadOf   == [d \in Drives |-> IF d \in enable THEN Diff(dr[d].clk, dr[d].stop_clk) ELSE 0]
RestartOf == {d \in Drives : dr[d].reset}

(* No drive lags further than it is left alone, and each is in step. *)
Debts == /\ \A d \in enable : ClockOf(d) - dr[d].last_clk <= MaxLag
         /\ \A d \in Drives : InStep(dr[d])

RInv == IInv /\ Debts

LEMMA ClockOfType ==
    ASSUME IInv, NEW d \in enable
    PROVE  /\ ClockOf(d) \in Clock /\ ClockOf(d) \in Int /\ dr[d].last_clk \in Int
           /\ ClockOf(d) - dr[d].last_clk \in Clock /\ ClockOf(d) - dr[d].last_clk \in Nat
           /\ ClockSub(ClockOf(d), dr[d].last_clk) = ClockOf(d) - dr[d].last_clk
<1>1. ClockOf(d) \in Clock /\ ClockOf(d) \in Int
  BY InvFacts DEF IInv, Room, ClockOf
<1>2. dr[d].last_clk \in Clock /\ dr[d].last_clk \in Int /\ dr[d].last_clk <= ClockOf(d)
  BY InvFacts, DriveFields DEF IInv, LastInPast
<1>3. ClockOf(d) - dr[d].last_clk \in Clock /\ ClockOf(d) - dr[d].last_clk \in Nat
  BY <1>1, <1>2, Consts DEF Clock
<1> QED
  BY <1>1, <1>2, <1>3, ClockArithmetic

(* Drives that are run: each gets what it is owed for its lag, or is forgiven. *)
RunFor(d, m) == Gave(dr[d], sync_factor[d], m, dr'[d])

LEMMA ServeStep ==
    ASSUME IInv, NEW ds \in SUBSET enable, UNCHANGED <<enable, sync_factor>>,
           dr' \in [Drives -> DriveState],
           \A d \in ds : LagOf'[d] = 0 /\
              \E m \in {LagOf[d]} \cup (IF LagOf[d] > SkipAfter THEN {0} ELSE {}) : RunFor(d, m),
           \A d \in Drives \ ds : /\ LagOf'[d] = LagOf[d] /\ Ahead(dr'[d]) = Ahead(dr[d])
                                  /\ dr'[d].cycle_accum = dr[d].cycle_accum
                                  /\ dr'[d].reset = dr[d].reset
    PROVE  Exact!Serve(ds)
<1> DEFINE forgiven == {d \in ds : LagOf[d] > SkipAfter /\ RunFor(d, 0)}
           n(d) == IF d \in forgiven THEN 0 ELSE LagOf[d]
<1>1. \A d \in ds : RunFor(d, n(d))
  OBVIOUS
<1>2. forgiven \in SUBSET {d \in ds : LagOf[d] > SkipAfter}
  OBVIOUS
<1> HIDE DEF forgiven
<1>3. ds \in SUBSET Drives /\ dr \in [Drives -> DriveState] /\ enable \in SUBSET Drives
  BY InvFacts
<1>4. \A d \in ds : AheadOf[d] = Ahead(dr[d]) /\ FracOf[d] = dr[d].cycle_accum
  BY <1>3 DEF AheadOf, FracOf, Ahead
<1> DEFINE bal(d) == AheadOf[d] - ((FracOf[d] + n(d) * sync_factor[d]) \div One)
<1>5. \A d \in ds : bal(d) = Left(dr[d], sync_factor[d], n(d))
  BY <1>4 DEF Left, Owed
<1>11. \A d \in ds : bal(d) \in Int
  <2> SUFFICES ASSUME NEW d \in ds PROVE bal(d) \in Int
    OBVIOUS
  <2>1. Ahead(dr[d]) \in Int /\ dr[d].cycle_accum \in Nat
    BY <1>3, DriveFields, DiffType, Consts DEF Ahead
  <2>2. LagOf[d] \in Nat /\ sync_factor[d] \in Nat
    <3>1. d \in enable /\ d \in Drives
      BY <1>3
    <3>2. LagOf[d] = ClockOf(d) - dr[d].last_clk
      BY <3>1, ClockOfType DEF LagOf
    <3> QED
      BY <3>1, <3>2, ClockOfType, InvFacts, Consts
  <2>3. n(d) \in Nat
    BY <2>2
  <2> HIDE DEF n
  <2>4. FracOf[d] + n(d) * sync_factor[d] \in Nat
    <3>1. n(d) * sync_factor[d] \in Nat
      BY <2>2, <2>3
    <3> QED
      BY <1>4, <2>1, <3>1
  <2>5. (FracOf[d] + n(d) * sync_factor[d]) \div One \in Nat
    BY <2>4, Division
  <2> QED
    BY <1>4, <2>1, <2>5
<1>6. FracOf' = [d \in Drives |-> IF d \in ds THEN (FracOf[d] + n(d) * sync_factor[d]) % One
                                           ELSE FracOf[d]]
  <2>1. \A d \in ds : dr'[d].cycle_accum = (FracOf[d] + n(d) * sync_factor[d]) % One
    BY <1>1, <1>4 DEF RunFor, Gave, Owed
  <2> HIDE DEF n
  <2>2. FracOf' = [d \in Drives |-> dr'[d].cycle_accum]
    BY DEF FracOf
  <2>3. \A d \in Drives \ ds : dr'[d].cycle_accum = FracOf[d]
    BY DEF FracOf
  <2> QED
    BY <2>1, <2>2, <2>3
<1>7. AheadOf' \in [Drives -> Int]
  <2>1. \A d \in Drives : Diff(dr'[d].clk, dr'[d].stop_clk) \in Int
    <3> SUFFICES ASSUME NEW d \in Drives PROVE Diff(dr'[d].clk, dr'[d].stop_clk) \in Int
      OBVIOUS
    <3>1. dr'[d].clk \in Clock /\ dr'[d].stop_clk \in Clock
      BY DriveFields
    <3> QED
      BY <3>1, DiffType
  <2> QED
    BY <2>1 DEF AheadOf
<1>8. \A d \in Drives : AheadOf'[d] \in IF d \in ds THEN Exact!Ends(d, n(d)) ELSE {AheadOf[d]}
  <2>1. ASSUME NEW d \in ds PROVE AheadOf'[d] \in Exact!Ends(d, n(d))
    <3>1. AheadOf'[d] = Ahead(dr'[d]) /\ d \in Drives
      BY <1>3 DEF AheadOf, Ahead
    <3> DEFINE b == Left(dr[d], sync_factor[d], n(d))
    <3>2. Exact!Balance(d, n(d)) = b
      <4>1. Exact!Balance(d, n(d)) = bal(d)
        BY DEF Exact!Balance, AheadOf, FracOf
      <4> QED
        BY <4>1, <1>5
    <3>3. /\ \/ b >= 0 /\ Ahead(dr'[d]) = b
             \/ /\ b < 0 /\ dr[d].reset /\ b + ResetClk >= 0
                /\ Ahead(dr'[d]) \in b + ResetClk + 1 .. b + ResetClk + MaxOp
             \/ /\ b < 0 /\ ~(dr[d].reset /\ b + ResetClk >= 0)
                /\ Ahead(dr'[d]) \in 0 .. MaxOp - 1
      BY <1>1 DEF RunFor, Gave
    <3>4. Exact!Ends(d, n(d)) =
             IF b >= 0 THEN {b}
             ELSE IF d \notin RestartOf THEN 0 .. MaxOp - 1
             ELSE IF b + ResetClk < 0 THEN 0 .. MaxOp - 1
             ELSE b + ResetClk + 1 .. b + ResetClk + MaxOp
      BY <3>2 DEF Exact!Ends, RestartOf
    <3>5. d \in RestartOf <=> dr[d].reset
      BY <3>1 DEF RestartOf
    <3>6. b \in Int /\ ResetClk \in Nat
      BY <1>5, <1>11, Consts
    <3> HIDE DEF b, n
    <3> QED
      BY <3>1, <3>3, <3>4, <3>5, <3>6
  <2>2. ASSUME NEW d \in Drives \ ds PROVE AheadOf'[d] = AheadOf[d]
    BY <2>2 DEF AheadOf, Ahead
  <2> QED
    BY <2>1, <2>2
<1>9. LagOf' = [d \in Drives |-> IF d \in ds THEN 0 ELSE LagOf[d]]
  <2>1. LagOf' = [d \in Drives |-> LagOf'[d]]
    BY DEF LagOf
  <2> QED
    BY <1>3, <2>1
<1>10. RestartOf' = RestartOf \ {d \in ds : bal(d) < 0}
  <2>1. ASSUME NEW d \in Drives
        PROVE  dr'[d].reset <=> dr[d].reset /\ ~(d \in ds /\ bal(d) < 0)
    <3>1. CASE d \in ds
      <4>1. dr'[d].reset <=> dr[d].reset /\ bal(d) >= 0
        BY <1>1, <1>5, <3>1 DEF RunFor, Gave
      <4>2. bal(d) \in Int
        BY <1>11, <3>1
      <4>3. bal(d) >= 0 <=> ~(bal(d) < 0)
        BY <4>2
      <4> QED
        BY <3>1, <4>1, <4>3, Zenon
    <3>2. CASE d \notin ds
      BY <3>2
    <3> QED
      BY <3>1, <3>2
  <2> HIDE DEF bal
  <2>2. RestartOf' = {d \in Drives : dr'[d].reset}
    BY DEF RestartOf
  <2> QED
    BY <2>1, <2>2 DEF RestartOf
<1> HIDE DEF n
<1>12. /\ enable' = enable /\ sync_factor' = sync_factor
  OBVIOUS
<1>13. forgiven \in SUBSET {d \in ds : LagOf[d] > SkipAfter}
  BY <1>2
<1>14. FracOf' = [d \in Drives |-> IF d \in ds
                        THEN (FracOf[d] + (IF d \in forgiven THEN 0 ELSE LagOf[d]) * sync_factor[d]) % One
                        ELSE FracOf[d]]
  BY <1>6 DEF n
<1>15. \A d \in Drives : AheadOf'[d] \in
            IF d \in ds THEN Exact!Ends(d, IF d \in forgiven THEN 0 ELSE LagOf[d]) ELSE {AheadOf[d]}
  BY <1>8 DEF n
<1>16. RestartOf' = RestartOf \ {d \in ds :
              Exact!Balance(d, IF d \in forgiven THEN 0 ELSE LagOf[d]) < 0}
  <2>1. \A d \in ds : Exact!Balance(d, n(d)) = bal(d)
    BY <1>3 DEF Exact!Balance, AheadOf, FracOf
  <2>2. {d \in ds : bal(d) < 0} = {d \in ds : Exact!Balance(d, n(d)) < 0}
    BY <2>1
  <2> HIDE DEF bal
  <2>3. RestartOf' = RestartOf \ {d \in ds : Exact!Balance(d, n(d)) < 0}
    BY <1>10, <2>2
  <2> QED
    BY <2>3 DEF n
<1>17. Exact!Drives = Drives
  BY DEF Exact!Drives, Drives
<1> QED
  BY <1>7, <1>9, <1>12, <1>13, <1>14, <1>15, <1>16, <1>17, ZenonT(40)
     DEF Exact!Serve, FracOf, AheadOf, LagOf, RestartOf
-----------------------------------------------------------------------------
Forgivable(n) == {n} \cup (IF n > SkipAfter THEN {0} ELSE {})

LEMMA ExecuteAllExact ==
    ASSUME RInv, NEW ds \in SUBSET enable, NEW clk_value \in Clock, NEW now \in Clock,
           NEW over \in Overs(ds),
           \A d \in ds : ClockOf(d) = clk_value /\ (now = clk_value \/ dr[d].clk <= AwakeClk)
    PROVE  \A d \in ds :
              /\ InStep(ExecuteAll(ds, clk_value, now, over)[d])
              /\ \E m \in Forgivable(LagOf[d]) :
                    Ran(dr[d], sync_factor[d], m, ExecuteAll(ds, clk_value, now, over)[d])
<1> SUFFICES ASSUME NEW d \in ds
             PROVE  /\ InStep(ExecuteAll(ds, clk_value, now, over)[d])
                    /\ \E m \in Forgivable(LagOf[d]) :
                         Ran(dr[d], sync_factor[d], m, ExecuteAll(ds, clk_value, now, over)[d])
  OBVIOUS
<1>1. /\ d \in enable /\ d \in Drives /\ dr[d] \in DriveState /\ sync_factor[d] \in Rates
      /\ over[d] \in 0 .. MaxOp - 1
  BY InvFacts DEF RInv, Overs
<1>2. /\ LagOf[d] = clk_value - dr[d].last_clk /\ dr[d].last_clk <= clk_value
      /\ clk_value - dr[d].last_clk <= MaxLag /\ InStep(dr[d])
  <2>1. LagOf[d] = ClockOf(d) - dr[d].last_clk /\ ClockOf(d) - dr[d].last_clk \in Nat
    BY <1>1, ClockOfType DEF RInv, LagOf
  <2>2. dr[d].last_clk <= ClockOf(d)
    BY <1>1 DEF RInv, IInv, LastInPast
  <2> QED
    BY <1>1, <2>1, <2>2 DEF RInv, Debts
<1>3. ExecuteAll(ds, clk_value, now, over)[d]
         = Execute(dr[d], sync_factor[d], clk_value, now, over[d])
  BY <1>1 DEF ExecuteAll
<1>4. now = clk_value \/ dr[d].clk <= AwakeClk
  OBVIOUS
<1>5. /\ InStep(Execute(dr[d], sync_factor[d], clk_value, now, over[d]))
      /\ \E m \in {clk_value - dr[d].last_clk} \cup
                  (IF clk_value - dr[d].last_clk > SkipAfter THEN {0} ELSE {}) :
            Ran(dr[d], sync_factor[d], m, Execute(dr[d], sync_factor[d], clk_value, now, over[d]))
  BY <1>1, <1>2, <1>4, ExecuteExact
<1> QED
  BY <1>2, <1>3, <1>5 DEF Forgivable

LEMMA NoLag == ASSUME NEW x \in Clock PROVE ClockSub(x, x) = 0
<1>1. x \in Int /\ x - x = 0 /\ 0 \in Clock
  BY Consts DEF Clock
<1> QED
  BY <1>1, ClockArithmetic

(* Between two ends of a frame every drive goes by the main clock. *)
LEMMA RunningClock ==
    ASSUME IInv, Running, turn' = turn, NEW d \in Drives
    PROVE  ClockOf(d) = maincpu_clk /\ ClockOf(d)' = maincpu_clk'
<1>1. ~(d >= turn)
  BY InvFacts, Consts DEF Running
<1> QED
  BY <1>1 DEF ClockOf

(* Drives that are left alone. *)
LEMMA SameLag ==
    ASSUME IInv, NEW d \in Drives, d \in enable' <=> d \in enable,
           ClockOf(d)' = ClockOf(d), dr'[d].last_clk = dr[d].last_clk
    PROVE  LagOf'[d] = LagOf[d]
  BY DEF LagOf

LEMMA SameRate ==
    ASSUME IInv, enable' = enable, sync_factor' = sync_factor, dr' = dr,
           \A d \in Drives : ClockOf(d)' = ClockOf(d)
    PROVE  UNCHANGED Exact!rvars /\ (Debts => Debts')
<1>1. LagOf' = LagOf
  BY DEF LagOf
<1>2. FracOf' = FracOf /\ AheadOf' = AheadOf /\ RestartOf' = RestartOf
  BY DEF FracOf, AheadOf, RestartOf
<1>3. UNCHANGED Exact!rvars
  BY <1>1, <1>2 DEF Exact!rvars, LagOf, FracOf, AheadOf, RestartOf
<1>4. Debts => Debts'
  BY InvFacts DEF Debts
<1> QED
  BY <1>3, <1>4

LEMMA ElapseRate == ASSUME RInv, NEW n \in 1 .. Frame, Elapse(n) PROVE Debts' /\ Exact!Pass(n)
<1>1. /\ Running /\ maincpu_clk' = maincpu_clk + n /\ turn' = turn
      /\ UNCHANGED <<sub, turn, enable, skipping, sync_factor, dr, idled>>
      /\ \A d \in enable : ClockSub(maincpu_clk + n, dr[d].last_clk) <= MaxLag
  BY DEF Elapse
<1>2. IInv /\ IInv'
  BY ElapseInv DEF RInv
<1>3. maincpu_clk' \in Clock /\ maincpu_clk \in Nat /\ n \in Nat /\ enable \in SUBSET Drives
  BY <1>2, InvFacts DEF IInv, TypeOK
<1>4. ASSUME NEW d \in enable
      PROVE  /\ ClockOf(d)' = maincpu_clk'
             /\ ClockOf(d)' - dr'[d].last_clk <= MaxLag
             /\ LagOf'[d] = LagOf[d] + n
  <2>1. d \in Drives /\ ClockOf(d)' = maincpu_clk' /\ ClockOf(d) = maincpu_clk
    BY <1>1, <1>2, <1>3, RunningClock
  <2>2. /\ dr[d].last_clk \in Int /\ dr[d].last_clk >= 0 /\ dr[d].last_clk <= maincpu_clk
        /\ LagOf[d] = maincpu_clk - dr[d].last_clk
    <3>1. /\ LagOf[d] = maincpu_clk - dr[d].last_clk
          /\ maincpu_clk - dr[d].last_clk \in Nat /\ dr[d].last_clk \in Int
      BY <1>2, <2>1, ClockOfType DEF LagOf
    <3>2. dr[d].last_clk \in Clock
      BY <1>2, <2>1, InvFacts, DriveFields
    <3> QED
      BY <1>3, <3>1, <3>2 DEF Clock
  <2>3. maincpu_clk' - dr[d].last_clk \in Clock
    BY <1>1, <1>3, <2>2, Consts DEF Clock
  <2>4. ClockSub(maincpu_clk', dr[d].last_clk) = maincpu_clk' - dr[d].last_clk
    <3>1. maincpu_clk' \in Int
      BY <1>1, <1>3
    <3> QED
      BY <2>2, <2>3, <3>1, ClockArithmetic
  <2>5. maincpu_clk' - dr[d].last_clk <= MaxLag
    BY <1>1, <2>4
  <2>6. LagOf'[d] = maincpu_clk' - dr[d].last_clk
    BY <1>1, <2>1, <2>4 DEF LagOf
  <2> QED
    BY <1>1, <1>3, <2>1, <2>2, <2>5, <2>6
<1>5. Debts'
  BY <1>1, <1>4 DEF RInv, Debts
<1>6. LagOf' = [d \in Drives |-> IF d \in enable THEN LagOf[d] + n ELSE 0]
  BY <1>1, <1>3, <1>4 DEF LagOf
<1>7. FracOf' = FracOf /\ AheadOf' = AheadOf /\ RestartOf' = RestartOf
  BY <1>1 DEF FracOf, AheadOf, RestartOf
<1>8. Exact!Drives = Drives
  BY DEF Exact!Drives, Drives
<1>9. Exact!Pass(n)
  BY <1>1, <1>6, <1>7, <1>8 DEF Exact!Pass, LagOf, FracOf, AheadOf, RestartOf
<1> QED
  BY <1>5, <1>9

(* The drives ds are run, each for its lag; the others are left alone. *)
Runs(ds) ==
    /\ \A d \in ds : /\ LagOf'[d] = 0 /\ InStep(dr'[d])
                     /\ \E m \in Forgivable(LagOf[d]) : Ran(dr[d], sync_factor[d], m, dr'[d])
    /\ \A d \in Drives \ ds : LagOf'[d] = LagOf[d] /\ dr'[d] = dr[d]

LEMMA RunsExact ==
    ASSUME RInv, Running, NEW ds \in SUBSET enable, NEW over \in Overs(ds),
           dr' = ExecuteAll(ds, maincpu_clk, maincpu_clk, over),
           UNCHANGED <<enable, sync_factor>>,
           \A d \in Drives : ClockOf(d)' = maincpu_clk
    PROVE  Debts' /\ Runs(ds) /\ Exact!Serve(ds)
<1>1. /\ IInv /\ maincpu_clk \in Clock /\ enable \in SUBSET Drives /\ ds \in SUBSET Drives
      /\ dr \in [Drives -> DriveState] /\ sync_factor \in [Drives -> Rates]
      /\ enable' = enable /\ sync_factor' = sync_factor
  BY InvFacts DEF RInv
<1>2. \A d \in Drives : ClockOf(d) = maincpu_clk
  <2> SUFFICES ASSUME NEW d \in Drives PROVE ~(d >= turn)
    BY DEF ClockOf
  <2> QED
    BY <1>1, InvFacts, Consts DEF Running
<1>3. /\ dr' \in [Drives -> DriveState]
      /\ \A d \in ds : dr'[d].last_clk = maincpu_clk
      /\ \A d \in Drives \ ds : dr'[d] = dr[d]
  BY <1>1, ExecuteAllFacts
<1>4. \A d \in ds : /\ InStep(dr'[d])
                    /\ \E m \in Forgivable(LagOf[d]) : Ran(dr[d], sync_factor[d], m, dr'[d])
  BY <1>1, <1>2, ExecuteAllExact
<1>5. \A d \in ds : LagOf'[d] = 0
  <2> SUFFICES ASSUME NEW d \in ds PROVE LagOf'[d] = 0
    OBVIOUS
  <2>1. LagOf'[d] = ClockSub(maincpu_clk, maincpu_clk)
    BY <1>1, <1>3 DEF LagOf
  <2> QED
    BY <2>1, <1>1, NoLag
<1>6. \A d \in Drives \ ds : LagOf'[d] = LagOf[d]
  BY <1>1, <1>2, <1>3, SameLag
<1>7. Exact!Serve(ds)
  BY <1>1, <1>3, <1>4, <1>5, <1>6, ServeStep DEF Forgivable, RunFor, Ran
<1>8. Debts'
  <2>1. ASSUME NEW d \in Drives PROVE InStep(dr'[d])
    BY <1>3, <1>4 DEF RInv, Debts
  <2>2. ASSUME NEW d \in enable' PROVE ClockOf(d)' - dr'[d].last_clk <= MaxLag
    <3>1. CASE d \in ds
      BY <1>1, <1>3, <3>1, Consts DEF Clock
    <3>2. CASE d \notin ds
      BY <1>1, <1>2, <1>3, <2>2, <3>2 DEF RInv, Debts
    <3> QED
      BY <3>1, <3>2
  <2> QED
    BY <2>1, <2>2 DEF Debts
<1> QED
  BY <1>3, <1>4, <1>5, <1>6, <1>7, <1>8 DEF Runs

LEMMA CpuAccessRate ==
    ASSUME RInv, CpuAccess
    PROVE  Debts' /\ \E ds \in SUBSET enable : Runs(ds) /\ Exact!Serve(ds)
<1>1. PICK ds \in {enable} \cup {{d} : d \in enable} : \E over \in Overs(ds) :
          dr' = ExecuteAll(ds, maincpu_clk, maincpu_clk, over)
  BY DEF CpuAccess
<1>2. PICK over \in Overs(ds) : dr' = ExecuteAll(ds, maincpu_clk, maincpu_clk, over)
  BY <1>1
<1>3. Running /\ UNCHANGED <<maincpu_clk, turn>> /\ UNCHANGED <<enable, sync_factor>>
  BY DEF CpuAccess, main
<1>4. ds \in SUBSET enable
  OBVIOUS
<1>5. \A d \in Drives : ClockOf(d)' = maincpu_clk
  BY <1>3, RunningClock DEF RInv
<1> QED
  BY <1>2, <1>3, <1>4, <1>5, RunsExact
-----------------------------------------------------------------------------
LEMMA SetSpeedRate ==
    ASSUME RInv, NEW d \in Drives, SetSpeed(d) PROVE Debts' /\ Exact!SetRate(d)
<1>1. /\ Running /\ UNCHANGED <<maincpu_clk, sub, turn, enable, dr>>
      /\ \E f \in Rates : sync_factor' = [sync_factor EXCEPT ![d] = f]
  BY DEF SetSpeed, main
<1>2. IInv /\ enable \in SUBSET Drives
  BY InvFacts DEF RInv
<1>3. \A e \in Drives : ClockOf(e)' = ClockOf(e)
  BY <1>1, <1>2, RunningClock
<1>4. LagOf' = LagOf /\ FracOf' = FracOf /\ AheadOf' = AheadOf /\ RestartOf' = RestartOf
  BY <1>1, <1>3 DEF LagOf, FracOf, AheadOf, RestartOf
<1>5. Debts'
  BY <1>1, <1>2, <1>3 DEF RInv, Debts
<1>6. Exact!SetRate(d)
  BY <1>1, <1>4 DEF Exact!SetRate, LagOf, FracOf, AheadOf, RestartOf
<1> QED
  BY <1>5, <1>6

(* Drives that start afresh: they are up to the main clock and to stop_clk. *)
Afresh(d) == /\ d \in enable' => ClockOf(d)' = dr'[d].last_clk
             /\ Ahead(dr'[d]) = 0 \/ d \notin enable'

LEMMA FreshStep ==
    ASSUME IInv, NEW ds \in SUBSET Drives, enable' \in SUBSET Drives,
           dr' \in [Drives -> DriveState],
           \A d \in ds : Afresh(d),
           \A d \in Drives \ ds : /\ d \in enable' <=> d \in enable
                                  /\ d \in enable => ClockOf(d)' = ClockOf(d)
                                  /\ dr'[d] = dr[d]
    PROVE  Exact!Fresh(ds)
<1>1. ASSUME NEW d \in ds PROVE LagOf'[d] = 0 /\ AheadOf'[d] = 0
  <2>1. CASE d \in enable'
    <3>1. LagOf'[d] = ClockSub(dr'[d].last_clk, dr'[d].last_clk)
      BY <2>1 DEF LagOf, Afresh
    <3>2. dr'[d].last_clk \in Clock
      BY <2>1, DriveFields
    <3> QED
      BY <2>1, <3>1, <3>2, NoLag DEF AheadOf, Ahead, Afresh
  <2>2. CASE d \notin enable'
    BY <2>2 DEF LagOf, AheadOf
  <2> QED
    BY <2>1, <2>2
<1>2. ASSUME NEW d \in Drives \ ds PROVE LagOf'[d] = LagOf[d] /\ AheadOf'[d] = AheadOf[d]
  BY <1>2 DEF LagOf, AheadOf
<1>3. /\ LagOf' = [d \in Drives |-> LagOf'[d]] /\ AheadOf' = [d \in Drives |-> AheadOf'[d]]
  BY DEF LagOf, AheadOf
<1>4. /\ LagOf' = [d \in Drives |-> IF d \in ds THEN 0 ELSE LagOf[d]]
      /\ AheadOf' = [d \in Drives |-> IF d \in ds THEN 0 ELSE AheadOf[d]]
  BY <1>1, <1>2, <1>3
<1>5. Exact!Drives = Drives
  BY DEF Exact!Drives, Drives
<1> QED
  BY <1>4, <1>5 DEF Exact!Fresh, LagOf, AheadOf

LEMMA NowUpToDate ==
    ASSUME NEW x \in Clock, \A d \in enable' : ClockOf(d)' = x /\ dr'[d].last_clk = x
    PROVE  \A d \in enable' : ClockOf(d)' - dr'[d].last_clk <= MaxLag
<1>1. x \in Int /\ x - x = 0 /\ 0 <= MaxLag
  BY Consts DEF Clock
<1>2. x - x <= MaxLag
  BY <1>1
<1> QED
  BY <1>2

LEMMA NoDiff == ASSUME NEW x \in Clock PROVE Diff(x, x) = 0
  BY NoLag, Consts DEF Diff

LEMMA TrueEmulationOnRate ==
    ASSUME RInv, NEW ds \in SUBSET Drives, TrueEmulationOn(ds)
    PROVE  Debts' /\ Exact!SwitchOn(ds)
<1>1. /\ Running /\ enable' = ds
      /\ dr' = [d \in Drives |-> IF d \in ds
                   THEN [dr[d] EXCEPT !.last_clk = maincpu_clk, !.stop_clk = dr[d].clk]
                   ELSE dr[d]]
      /\ UNCHANGED <<maincpu_clk, sub, turn, sync_factor>>
  BY DEF TrueEmulationOn, main
<1>2. IInv /\ IInv' /\ maincpu_clk \in Clock /\ dr \in [Drives -> DriveState]
  BY InvFacts, TrueEmulationOnInv DEF RInv
<1>3. dr' \in [Drives -> DriveState]
  BY <1>2 DEF IInv, TypeOK
<1>4. \A d \in Drives : ClockOf(d)' = maincpu_clk
  BY <1>1, <1>2, RunningClock
<1>5. ASSUME NEW d \in ds
      PROVE  /\ dr'[d].last_clk = maincpu_clk /\ Ahead(dr'[d]) = 0 /\ InStep(dr'[d])
             /\ dr'[d].cycle_accum = dr[d].cycle_accum /\ dr'[d].reset = dr[d].reset
  <2> DEFINE r == [dr[d] EXCEPT !.last_clk = maincpu_clk, !.stop_clk = dr[d].clk]
  <2>1. d \in Drives /\ dr'[d] = r /\ dr[d] \in DriveState
    BY <1>1, <1>2
  <2>2. /\ r.last_clk = maincpu_clk /\ r.stop_clk = dr[d].clk /\ r.clk = dr[d].clk
        /\ r.cycle_accum = dr[d].cycle_accum /\ r.reset = dr[d].reset
    BY <2>1 DEF DriveState
  <2> HIDE DEF r
  <2>3. Ahead(r) = 0
    <3>1. dr[d].clk \in Clock
      BY <2>1, DriveFields
    <3> QED
      BY <2>2, <3>1, NoDiff DEF Ahead
  <2>4. r.reset => r.clk = 0
    BY <2>1, <2>2 DEF RInv, Debts, InStep
  <2>5. InStep(r)
    BY <2>3, <2>4, Consts DEF InStep
  <2> QED
    BY <2>1, <2>2, <2>3, <2>5
<1>6. \A d \in Drives \ ds : dr'[d] = dr[d]
  BY <1>1
<1>7. Exact!Fresh(Drives)
  <2>1. \A d \in Drives : Afresh(d)
    BY <1>1, <1>4, <1>5 DEF Afresh
  <2> QED
    BY <1>1, <1>2, <1>3, <2>1, FreshStep
<1>8. FracOf' = FracOf /\ RestartOf' = RestartOf
  BY <1>5, <1>6 DEF FracOf, RestartOf
<1>9. Exact!SwitchOn(ds)
  <2>1. Exact!Drives = Drives
    BY DEF Exact!Drives, Drives
  <2> QED
    BY <1>1, <1>7, <1>8, <2>1 DEF Exact!SwitchOn, FracOf, RestartOf
<1>10. Debts'
  <2>1. \A d \in Drives : InStep(dr'[d])
    BY <1>5, <1>6 DEF RInv, Debts
  <2>2. \A d \in enable' : ClockOf(d)' = maincpu_clk /\ dr'[d].last_clk = maincpu_clk
    BY <1>1, <1>4, <1>5
  <2>3. \A d \in enable' : ClockOf(d)' - dr'[d].last_clk <= MaxLag
    BY <1>2, <2>2, NowUpToDate
  <2> QED
    BY <2>1, <2>3 DEF Debts
<1> QED
  BY <1>9, <1>10

LEMMA DisableRate ==
    ASSUME RInv, Disable
    PROVE  Debts' /\ \E ds \in SUBSET Drives : Exact!SwitchOff(ds)
<1>1. PICK ds \in {Drives} \cup {{d} : d \in Drives} : enable' = enable \ ds
  BY DEF Disable
<1>2. Running /\ UNCHANGED <<maincpu_clk, sub, turn, sync_factor, dr>>
  BY DEF Disable, main
<1>3. /\ IInv /\ ds \in SUBSET Drives /\ enable \in SUBSET Drives /\ enable' \in SUBSET Drives
      /\ dr' \in [Drives -> DriveState]
  BY <1>1, <1>2, InvFacts DEF RInv
<1>4. \A d \in Drives : ClockOf(d)' = ClockOf(d)
  BY <1>2, <1>3, RunningClock
<1>5. Exact!Fresh(ds)
  <2>1. \A d \in ds : Afresh(d)
    BY <1>1 DEF Afresh
  <2> QED
    BY <1>1, <1>2, <1>3, <1>4, <2>1, FreshStep
<1>6. Exact!SwitchOff(ds)
  BY <1>1, <1>2, <1>5 DEF Exact!SwitchOff
<1>7. Debts'
  BY <1>1, <1>2, <1>3, <1>4 DEF RInv, Debts
<1> QED
  BY <1>3, <1>6, <1>7

LEMMA AtZero ==
    ASSUME NEW r, r.clk = 0, r.stop_clk = 0 PROVE Ahead(r) = 0 /\ InStep(r)
<1>1. 0 \in Clock
  BY Consts DEF Clock
<1>2. Ahead(r) = 0
  BY <1>1, NoDiff DEF Ahead
<1> QED
  BY <1>2, Consts DEF InStep

LEMMA SetTypeRate ==
    ASSUME RInv, NEW d \in Drives, SetType(d)
    PROVE  Debts' /\ Exact!Exchange(d)
<1> DEFINE r == [Restarted(maincpu_clk) EXCEPT !.cycle_accum = dr[d].cycle_accum]
<1>1. /\ Running /\ enable' \in {enable \cup {d}} \cup (IF enable = {} THEN {{}} ELSE {})
      /\ \E f \in Rates : sync_factor' = [sync_factor EXCEPT ![d] = f]
      /\ dr' = [dr EXCEPT ![d] = r]
      /\ UNCHANGED <<maincpu_clk, sub, turn>>
  BY DEF SetType, main
<1>2. /\ IInv /\ IInv' /\ maincpu_clk \in Clock /\ enable \in SUBSET Drives
      /\ dr[d] \in DriveState /\ dr \in [Drives -> DriveState]
  BY InvFacts, SetTypeInv DEF RInv
<1>3. /\ r.last_clk = maincpu_clk /\ r.cycle_accum = dr[d].cycle_accum /\ r.reset = TRUE
      /\ Ahead(r) = 0 /\ InStep(r)
  <2>1. /\ r.last_clk = maincpu_clk /\ r.cycle_accum = dr[d].cycle_accum /\ r.reset = TRUE
        /\ r.clk = 0 /\ r.stop_clk = 0
    BY DEF Restarted
  <2> QED
    BY <2>1, AtZero
<1> HIDE DEF r
<1>4. /\ dr' \in [Drives -> DriveState] /\ enable' \in SUBSET Drives
      /\ dr'[d] = r /\ \A e \in Drives \ {d} : dr'[e] = dr[e]
  BY <1>1, <1>2 DEF IInv, TypeOK
<1>5. \A e \in Drives : ClockOf(e)' = maincpu_clk /\ ClockOf(e) = maincpu_clk
  BY <1>1, <1>2, RunningClock
<1>6. \A e \in Drives \ {d} : e \in enable' <=> e \in enable
  BY <1>1
<1>7. Exact!Fresh({d})
  <2>1. Afresh(d)
    BY <1>3, <1>4, <1>5 DEF Afresh
  <2> QED
    BY <1>2, <1>4, <1>5, <1>6, <2>1, FreshStep
<1>8. FracOf' = FracOf /\ RestartOf' = RestartOf \cup {d}
  BY <1>3, <1>4 DEF FracOf, RestartOf
<1>9. Exact!Exchange(d)
  <2>1. enable' \in {enable \cup {d}} \cup (IF enable = {} THEN {enable} ELSE {})
    BY <1>1
  <2> QED
    BY <1>1, <1>7, <1>8, <2>1 DEF Exact!Exchange, FracOf, RestartOf
<1>10. Debts'
  <2>1. \A e \in Drives : InStep(dr'[e])
    BY <1>3, <1>4 DEF RInv, Debts
  <2>2. ASSUME NEW e \in enable' PROVE ClockOf(e)' - dr'[e].last_clk <= MaxLag
    <3>1. CASE e = d
      BY <1>2, <1>3, <1>4, <1>5, <3>1, Consts DEF Clock
    <3>2. CASE e # d
      BY <1>4, <1>5, <1>6, <2>2, <3>2 DEF RInv, Debts
    <3> QED
      BY <3>1, <3>2
  <2> QED
    BY <2>1, <2>2 DEF Debts
<1> QED
  BY <1>9, <1>10

LEMMA MachineResetRate ==
    ASSUME RInv, MachineReset
    PROVE  Debts' /\ Exact!Restart
<1>1. /\ Running /\ maincpu_clk' = ResetClk
      /\ dr' = [d \in Drives |-> [Restarted(ResetClk) EXCEPT !.cycle_accum = dr[d].cycle_accum]]
      /\ UNCHANGED <<sub, turn, enable, sync_factor>>
  BY DEF MachineReset
<1>2. IInv /\ IInv' /\ ResetClk \in Clock /\ enable \in SUBSET Drives
  BY InvFacts, MachineResetInv, Consts, Guards DEF RInv, Clock
<1>3. dr' \in [Drives -> DriveState] /\ dr \in [Drives -> DriveState]
  BY <1>2 DEF IInv, TypeOK
<1>4. \A d \in Drives : ClockOf(d)' = ResetClk
  BY <1>1, <1>2, RunningClock
<1>5. ASSUME NEW d \in Drives
      PROVE  /\ dr'[d].last_clk = ResetClk /\ Ahead(dr'[d]) = 0 /\ InStep(dr'[d])
             /\ dr'[d].cycle_accum = dr[d].cycle_accum /\ dr'[d].reset = TRUE
  <2>1. /\ dr'[d].last_clk = ResetClk /\ dr'[d].cycle_accum = dr[d].cycle_accum
        /\ dr'[d].reset = TRUE /\ dr'[d].clk = 0 /\ dr'[d].stop_clk = 0
    BY <1>1 DEF Restarted
  <2> QED
    BY <2>1, AtZero
<1>6. Exact!Fresh(Drives)
  <2>1. \A d \in Drives : Afresh(d)
    BY <1>4, <1>5 DEF Afresh
  <2> QED
    BY <1>1, <1>2, <1>3, <2>1, FreshStep
<1>7. FracOf' = FracOf /\ RestartOf' = Drives
  BY <1>5 DEF FracOf, RestartOf
<1>8. Exact!Restart
  <2>1. Exact!Drives = Drives
    BY DEF Exact!Drives, Drives
  <2> QED
    BY <1>1, <1>6, <1>7, <2>1 DEF Exact!Restart, FracOf, RestartOf
<1>9. Debts'
  <2>1. \A d \in enable' : ClockOf(d)' - dr'[d].last_clk <= MaxLag
    BY <1>1, <1>2, <1>4, <1>5, NowUpToDate
  <2> QED
    BY <1>5, <2>1 DEF Debts
<1> QED
  BY <1>8, <1>9

LEMMA SetIdlingRate ==
    ASSUME RInv, NEW d \in Drives, SetIdling(d)
    PROVE  Debts' /\ UNCHANGED Exact!rvars
<1>1. Running /\ UNCHANGED <<maincpu_clk, sub, turn, enable, sync_factor, dr>>
  BY DEF SetIdling, main
<1>2. \A e \in Drives : ClockOf(e)' = ClockOf(e)
  BY <1>1, RunningClock DEF RInv
<1> QED
  BY <1>1, <1>2, SameRate DEF RInv

LEMMA ReadSnapshotRate ==
    ASSUME RInv, ReadSnapshot
    PROVE  Debts' /\ Exact!Load
<1>1. PICK now \in SnapClocks, clk \in SnapClocks, accum \in 0 .. One - 1, ds \in SUBSET Drives :
          /\ maincpu_clk' = now /\ enable' = ds
          /\ dr' = [d \in Drives |-> [clk |-> clk, stop_clk |-> clk, last_clk |-> now,
                                      cycle_accum |-> accum, reset |-> FALSE]]
  BY DEF ReadSnapshot
<1>2. /\ Running /\ UNCHANGED <<sub, turn>> /\ IInv /\ IInv'
      /\ sync_factor' \in [Drives -> Rates]
  BY ReadSnapshotInv DEF ReadSnapshot, RInv
<1>3. now \in Clock /\ clk \in Clock
  BY Consts, Guards DEF Clock
<1>4. \A d \in Drives : ClockOf(d)' = now
  BY <1>1, <1>2, RunningClock
<1>5. ASSUME NEW d \in Drives
      PROVE  /\ dr'[d].last_clk = now /\ Ahead(dr'[d]) = 0 /\ InStep(dr'[d])
             /\ dr'[d].cycle_accum = accum /\ dr'[d].reset = FALSE
  <2>1. /\ dr'[d].last_clk = now /\ dr'[d].clk = clk /\ dr'[d].stop_clk = clk
        /\ dr'[d].cycle_accum = accum /\ dr'[d].reset = FALSE
    BY <1>1
  <2>2. Ahead(dr'[d]) = 0
    BY <1>3, <2>1, NoDiff DEF Ahead
  <2> QED
    BY <2>1, <2>2, Consts DEF InStep
<1>6. dr' \in [Drives -> DriveState] /\ enable' \in SUBSET Drives
  BY <1>2 DEF IInv, TypeOK
<1>7. Exact!Fresh(Drives)
  <2>1. \A d \in Drives : Afresh(d)
    BY <1>4, <1>5 DEF Afresh
  <2> QED
    BY <1>2, <1>6, <2>1, FreshStep
<1>8. Exact!Drives = Drives
  BY DEF Exact!Drives, Drives
<1>9. FracOf' \in [Drives -> 0 .. One - 1] /\ RestartOf' \in SUBSET Drives
  BY <1>5 DEF FracOf, RestartOf
<1>10. LagOf' = [d \in Drives |-> 0] /\ AheadOf' = [d \in Drives |-> 0]
  BY <1>7, <1>8 DEF Exact!Fresh, LagOf, AheadOf
<1>11. Exact!Load
  BY <1>2, <1>6, <1>8, <1>9, <1>10 DEF Exact!Load, Exact!Zero, FracOf, RestartOf, LagOf, AheadOf
<1>12. Debts'
  <2>1. \A d \in enable' : ClockOf(d)' - dr'[d].last_clk <= MaxLag
    BY <1>3, <1>4, <1>5, <1>6, NowUpToDate
  <2> QED
    BY <1>5, <2>1 DEF Debts
<1> QED
  BY <1>11, <1>12
-----------------------------------------------------------------------------
LEMMA VsyncHookRate ==
    ASSUME RInv, VsyncHook
    PROVE  Debts' /\ \E ds \in SUBSET enable : /\ ds = enable \ skipping
                                              /\ Runs(ds) /\ Exact!Serve(ds)
<1>1. PICK ds \in SUBSET enable : ds = enable \ skipping
  OBVIOUS
<1>2. PICK over \in Overs(ds) : dr' = ExecuteAll(ds, maincpu_clk, maincpu_clk, over)
  BY <1>1 DEF VsyncHook
<1>3. /\ Running /\ turn' = 0 /\ maincpu_clk' = maincpu_clk - sub'
      /\ sub' = IF maincpu_clk < MaxClk THEN 0 ELSE MainSub
      /\ UNCHANGED <<enable, sync_factor>>
  BY DEF VsyncHook
<1>4. \A d \in Drives : ClockOf(d)' = maincpu_clk
  <2> SUFFICES ASSUME NEW d \in Drives PROVE ClockOf(d)' = maincpu_clk
    OBVIOUS
  <2>1. d \in Nat /\ maincpu_clk \in Nat /\ sub' \in Nat
    BY <1>3, InvFacts, Guards DEF RInv
  <2>2. ClockOf(d)' = maincpu_clk' + sub'
    BY <1>3, <2>1 DEF ClockOf
  <2>3. \A x, y \in Nat : (x - y) + y = x
    OBVIOUS
  <2>4. (maincpu_clk - sub') + sub' = maincpu_clk
    BY <2>1, <2>3
  <2> QED
    BY <1>3, <2>2, <2>4
<1> QED
  BY <1>1, <1>2, <1>3, <1>4, RunsExact

(* A drive that is told of the main guard keeps its lag, or is run for it. *)
LEMMA MainWrappedExact ==
    ASSUME RInv, ~Running, NEW after \in MainWrapped(turn)
    PROVE  LET r == dr[turn]
               a == after[turn]
           IN  /\ InStep(a)
               /\ \A d \in Drives \ {turn} : after[d] = dr[d]
               /\ \/ /\ Ahead(a) = Ahead(r) /\ a.cycle_accum = r.cycle_accum
                     /\ a.reset = r.reset /\ a.clk = r.clk
                     /\ turn \in enable => maincpu_clk - a.last_clk = ClockOf(turn) - r.last_clk
                  \/ /\ turn \in enable /\ a.last_clk = maincpu_clk
                     /\ \E m \in Forgivable(LagOf[turn]) : Ran(r, sync_factor[turn], m, a)
<1> DEFINE r == dr[turn]
           a == after[turn]
<1>1. /\ IInv /\ turn \in Drives /\ turn \in Nat /\ sub \in Nat /\ maincpu_clk \in Nat
      /\ maincpu_clk + sub \in Clock /\ maincpu_clk \in Clock
      /\ dr \in [Drives -> DriveState] /\ sync_factor \in [Drives -> Rates]
      /\ enable \in SUBSET Drives
  BY InvFacts, Consts DEF RInv, IInv, Room, Running, Drives
<1>2. r \in DriveState /\ InStep(r) /\ r.last_clk \in Clock /\ r.last_clk \in Nat
  BY <1>1, DriveFields DEF RInv, Debts, Clock
<1>3. ClockOf(turn) = maincpu_clk + sub
  <2>1. turn >= turn
    BY <1>1
  <2> QED
    BY <2>1 DEF ClockOf
<1>4. turn \in enable => r.last_clk <= maincpu_clk + sub
  BY <1>1, <1>3 DEF IInv, LastInPast
<1>5. CASE sub = 0
  <2>1. after = dr
    BY <1>5 DEF MainWrapped
  <2> QED
    BY <2>1, <1>1, <1>2, <1>3, <1>5
<1>6. CASE sub # 0 /\ turn \notin enable
  <2>1. after = [dr EXCEPT ![turn] = [r EXCEPT !.last_clk = maincpu_clk]]
    BY <1>6 DEF MainWrapped
  <2>2. a = [r EXCEPT !.last_clk = maincpu_clk] /\ \A d \in Drives \ {turn} : after[d] = dr[d]
    BY <2>1, <1>1
  <2> HIDE DEF a, r
  <2>3. /\ Ahead(a) = Ahead(r) /\ a.cycle_accum = r.cycle_accum /\ a.clk = r.clk
        /\ a.reset = r.reset /\ InStep(a)
    BY <1>1, <1>2, <2>2, OtherLast
  <2> QED
    BY <2>2, <2>3, <1>6 DEF a, r
<1>7. CASE sub # 0 /\ turn \in enable
  <2>1. PICK run \in IF r.last_clk < sub
                     THEN {ExecuteAll(enable, ClockAdd(maincpu_clk, sub), maincpu_clk, over) :
                              over \in Overs(enable)}
                     ELSE {dr} :
             after = [run EXCEPT ![turn].last_clk = ClockSub(@, sub)]
    BY <1>7 DEF MainWrapped
  <2> DEFINE g == run[turn]
  <2>2. /\ run \in [Drives -> DriveState] /\ \A d \in Drives \ {turn} : run[d] = dr[d]
        /\ InStep(g) /\ sub <= g.last_clk
        /\ \/ g = r
           \/ /\ g.last_clk = maincpu_clk + sub
              /\ \E m \in Forgivable(LagOf[turn]) : Ran(r, sync_factor[turn], m, g)
    <3>1. CASE r.last_clk < sub
      <4>1. enable = {turn} /\ r.clk <= AwakeClk
        <5>1. turn >= turn
          BY <1>1
        <5>2. sub <= r.last_clk \/ (enable = {turn} /\ r.clk <= AwakeClk)
          BY <1>1, <1>7, <5>1 DEF IInv, Untold
        <5> QED
          BY <5>2, <3>1, <1>1, <1>2
      <4>2. PICK over \in Overs(enable) :
                run = ExecuteAll(enable, ClockAdd(maincpu_clk, sub), maincpu_clk, over)
        BY <2>1, <3>1
      <4>3. run = ExecuteAll(enable, maincpu_clk + sub, maincpu_clk, over)
        BY <1>1, <4>2, ClockArithmetic
      <4>4. /\ run \in [Drives -> DriveState]
            /\ \A d \in enable : run[d].last_clk = maincpu_clk + sub
            /\ \A d \in Drives \ enable : run[d] = dr[d]
        BY <1>1, <4>3, ExecuteAllFacts
      <4>5. /\ InStep(run[turn])
            /\ \E m \in Forgivable(LagOf[turn]) : Ran(r, sync_factor[turn], m, run[turn])
        <5>1. \A d \in enable : ClockOf(d) = maincpu_clk + sub /\ dr[d].clk <= AwakeClk
          BY <1>3, <4>1
        <5>2. enable \in SUBSET enable
          OBVIOUS
        <5> QED
          BY <1>1, <1>7, <4>3, <5>1, <5>2, ExecuteAllExact
      <4> QED
        BY <1>1, <1>7, <4>1, <4>4, <4>5
    <3>2. CASE ~(r.last_clk < sub)
      <4>1. run = dr
        BY <2>1, <3>2
      <4> QED
        BY <4>1, <3>2, <1>1, <1>2
    <3> QED
      BY <3>1, <3>2
  <2>3. g \in DriveState /\ g.last_clk \in Nat /\ g.last_clk <= maincpu_clk + sub
    <3>1. g \in DriveState /\ g.last_clk \in Clock
      BY <1>1, <2>2, DriveFields
    <3> QED
      BY <1>1, <1>2, <1>4, <1>7, <2>2, <3>1 DEF Clock
  <2>4. ClockSub(g.last_clk, sub) = g.last_clk - sub /\ g.last_clk - sub \in Clock
    <3>1. g.last_clk - sub \in Clock
      BY <2>2, <2>3, <1>1, Consts DEF Clock
    <3> QED
      BY <3>1, <2>3, <1>1, ClockArithmetic
  <2>5. /\ a = [g EXCEPT !.last_clk = g.last_clk - sub]
        /\ \A d \in Drives \ {turn} : after[d] = dr[d]
    BY <2>1, <2>2, <2>4, <1>1
  <2> HIDE DEF a, g, r
  <2>6. /\ a.last_clk = g.last_clk - sub /\ Ahead(a) = Ahead(g) /\ a.cycle_accum = g.cycle_accum
        /\ a.clk = g.clk /\ a.reset = g.reset /\ InStep(a)
    BY <2>2, <2>3, <2>4, <2>5, OtherLast
  <2>7. CASE g = r
    <3>1. maincpu_clk - a.last_clk = ClockOf(turn) - r.last_clk
      BY <2>6, <2>7, <1>1, <1>2, <1>3
    <3> QED
      BY <2>5, <2>6, <2>7, <3>1 DEF a, r
  <2>8. CASE /\ g.last_clk = maincpu_clk + sub
             /\ \E m \in Forgivable(LagOf[turn]) : Ran(r, sync_factor[turn], m, g)
    <3>1. PICK m \in Forgivable(LagOf[turn]) : Ran(r, sync_factor[turn], m, g)
      BY <2>8
    <3>2. Ran(r, sync_factor[turn], m, a)
      BY <2>6, <3>1 DEF Ran, Gave, Went
    <3>3. a.last_clk = maincpu_clk
      BY <2>6, <2>8, <1>1
    <3> QED
      BY <2>5, <2>6, <1>7, <3>2, <3>3 DEF a, r
  <2> QED
    BY <2>2, <2>7, <2>8
<1> QED
  BY <1>5, <1>6, <1>7

(* Drive t is told of the main guard, which leaves it as a, and asks its own. *)
Told(t, a) ==
    /\ t = turn /\ InStep(a) /\ dr'[t] = DriveGuard(a)
    /\ \/ a.clk = dr[t].clk /\ a.cycle_accum = dr[t].cycle_accum /\ LagOf'[t] = LagOf[t]
       \/ /\ LagOf'[t] = 0
          /\ \E m \in Forgivable(LagOf[t]) : Ran(dr[t], sync_factor[t], m, a)
    /\ \A d \in Drives \ {t} : LagOf'[d] = LagOf[d] /\ dr'[d] = dr[d]

LEMMA PreventOverflowRate ==
    ASSUME RInv, PreventOverflow
    PROVE  /\ Debts' /\ \E ds \in SUBSET enable : Exact!Serve(ds)
           /\ \E t \in Drives, a \in DriveState : Told(t, a)
<1>1. PICK after \in MainWrapped(turn) : dr' = [after EXCEPT ![turn] = DriveGuard(@)]
  BY DEF PreventOverflow
<1>2. /\ ~Running /\ turn < NumDrives /\ turn' = turn + 1
      /\ sub' = IF turn' = NumDrives THEN 0 ELSE sub
      /\ UNCHANGED <<maincpu_clk, enable, sync_factor>> /\ IInv /\ IInv'
  <2>1. IInv /\ IInv'
    BY PreventOverflowInv DEF RInv
  <2>2. turn < NumDrives => ~Running
    BY <2>1, InvFacts, Consts DEF Running
  <2> QED
    BY <2>1, <2>2 DEF PreventOverflow
<1>3. /\ turn \in Drives /\ after \in [Drives -> DriveState]
      /\ dr \in [Drives -> DriveState] /\ dr' \in [Drives -> DriveState]
      /\ enable \in SUBSET Drives /\ turn \in Nat /\ maincpu_clk \in Nat /\ maincpu_clk \in Clock
      /\ \A d \in Drives : d \in Nat /\ d < NumDrives
  BY <1>2, InvFacts, MainWrappedFacts DEF IInv, TypeOK
<1>4. PICK t \in Drives : t = turn /\ t \in Nat
  BY <1>3
<1> DEFINE r == dr[t]
           a == after[t]
           e == dr'[t]
<1>5. /\ InStep(a)
      /\ \A d \in Drives \ {t} : after[d] = dr[d]
      /\ \/ /\ Ahead(a) = Ahead(r) /\ a.cycle_accum = r.cycle_accum
            /\ a.reset = r.reset /\ a.clk = r.clk
            /\ t \in enable => maincpu_clk - a.last_clk = ClockOf(t) - r.last_clk
         \/ /\ t \in enable /\ a.last_clk = maincpu_clk
            /\ \E m \in Forgivable(LagOf[t]) : Ran(r, sync_factor[t], m, a)
  BY <1>2, <1>4, MainWrappedExact
<1>6. e = DriveGuard(a) /\ \A d \in Drives \ {t} : dr'[d] = dr[d]
  BY <1>1, <1>3, <1>5, <1>4
<1>7. a \in DriveState
  BY <1>3, <1>4
<1> HIDE DEF r, a, e
<1>8. /\ Ahead(e) = Ahead(a) /\ e.cycle_accum = a.cycle_accum /\ e.reset = a.reset
      /\ InStep(e) /\ e.last_clk = a.last_clk
  BY <1>5, <1>6, <1>7, DriveGuardExact, DriveGuardFacts
<1>9. ClockOf(t)' = maincpu_clk /\ \A d \in Drives \ {t} : ClockOf(d)' = ClockOf(d)
  <2>1. ~(t >= turn')
    BY <1>2, <1>3, <1>4
  <2>2. ASSUME NEW d \in Drives \ {t} PROVE ClockOf(d)' = ClockOf(d)
    <3>1. CASE d >= t
      <4>1. d >= turn' /\ turn' # NumDrives
        BY <1>2, <1>3, <1>4, <3>1, Consts
      <4> QED
        BY <1>2, <1>4, <3>1, <4>1 DEF ClockOf
    <3>2. CASE ~(d >= t)
      <4>1. ~(d >= turn')
        BY <1>2, <1>3, <1>4, <3>2
      <4> QED
        BY <1>2, <1>4, <3>2, <4>1 DEF ClockOf
    <3> QED
      BY <3>1, <3>2
  <2>3. ClockOf(t)' = maincpu_clk
    BY <1>2, <2>1 DEF ClockOf
  <2> QED
    BY <2>2, <2>3
<1>10. \A d \in Drives \ {t} : LagOf'[d] = LagOf[d]
  BY <1>2, <1>6, <1>9, SameLag
<1>11. ASSUME t \in enable
       PROVE  /\ LagOf[t] = ClockOf(t) - r.last_clk
              /\ LagOf'[t] = maincpu_clk - e.last_clk
  <2>1. LagOf[t] = ClockOf(t) - r.last_clk
    BY <1>2, <1>3, <1>11, ClockOfType DEF LagOf, r
  <2>2. ClockSub(ClockOf(t)', dr'[t].last_clk) = ClockOf(t)' - dr'[t].last_clk
    <3>1. /\ dr'[t].last_clk \in Clock /\ dr'[t].last_clk \in Int
          /\ dr'[t].last_clk <= ClockOf(t)'
      BY <1>2, <1>3, <1>11, DriveFields DEF IInv, LastInPast
    <3>2. maincpu_clk - dr'[t].last_clk \in Clock
      BY <1>3, <1>9, <3>1, Consts DEF Clock
    <3>3. ClockSub(maincpu_clk, dr'[t].last_clk) = maincpu_clk - dr'[t].last_clk
      BY <1>3, <3>1, <3>2, ClockArithmetic
    <3> QED
      BY <1>9, <3>3
  <2>3. LagOf'[t] = ClockSub(ClockOf(t)', dr'[t].last_clk)
    BY <1>2, <1>3, <1>11 DEF LagOf
  <2> QED
    BY <1>9, <2>1, <2>2, <2>3 DEF e
<1>12. t \notin enable => LagOf'[t] = LagOf[t]
  BY <1>2, <1>3 DEF LagOf
<1>13. \E ds \in SUBSET enable : Exact!Serve(ds)
  <2>1. CASE /\ Ahead(a) = Ahead(r) /\ a.cycle_accum = r.cycle_accum
             /\ a.reset = r.reset /\ a.clk = r.clk
             /\ t \in enable => maincpu_clk - a.last_clk = ClockOf(t) - r.last_clk
    <3>1. LagOf'[t] = LagOf[t]
      BY <1>8, <1>11, <1>12, <2>1
    <3>2. \A d \in Drives : /\ LagOf'[d] = LagOf[d] /\ Ahead(dr'[d]) = Ahead(dr[d])
                            /\ dr'[d].cycle_accum = dr[d].cycle_accum
                            /\ dr'[d].reset = dr[d].reset
      BY <1>6, <1>8, <1>10, <2>1, <3>1 DEF e, r
    <3>3. Exact!Serve({})
      BY <1>2, <1>3, <3>2, ServeStep
    <3> QED
      BY <3>3
  <2>2. CASE /\ t \in enable /\ a.last_clk = maincpu_clk
             /\ \E m \in Forgivable(LagOf[t]) : Ran(r, sync_factor[t], m, a)
    <3>1. PICK m \in Forgivable(LagOf[t]) : Ran(r, sync_factor[t], m, a)
      BY <2>2
    <3>2. RunFor(t, m)
      <4>1. Gave(r, sync_factor[t], m, e)
        BY <1>8, <3>1 DEF Ran, Gave
      <4> QED
        BY <4>1 DEF RunFor, e, r
    <3>3. LagOf'[t] = 0
      BY <1>3, <1>8, <1>11, <2>2
    <3>4. {t} \in SUBSET enable /\ \A d \in Drives \ {t} : dr'[d] = dr[d]
      BY <1>6, <2>2
    <3>5. Exact!Serve({t})
      BY <1>2, <1>3, <1>10, <3>1, <3>2, <3>3, <3>4, ServeStep DEF Forgivable
    <3> QED
      BY <3>4, <3>5
  <2> QED
    BY <1>5, <2>1, <2>2
<1>14. Debts'
  <2>1. \A d \in Drives : InStep(dr'[d])
    BY <1>2, <1>6, <1>8 DEF RInv, Debts, e
  <2>2. ASSUME NEW d \in enable' PROVE ClockOf(d)' - dr'[d].last_clk <= MaxLag
    <3>1. CASE d = t
      <4>1. t \in enable /\ ClockOf(t) - r.last_clk <= MaxLag
        BY <1>2, <2>2, <3>1 DEF RInv, Debts, r
      <4>2. \/ maincpu_clk - e.last_clk = ClockOf(t) - r.last_clk
            \/ e.last_clk = maincpu_clk
        BY <1>5, <1>8, <4>1
      <4>3. maincpu_clk - e.last_clk <= MaxLag
        BY <1>3, <4>1, <4>2, Consts
      <4> QED
        BY <1>9, <3>1, <4>3 DEF e
    <3>2. CASE d # t
      BY <1>2, <1>3, <1>6, <1>9, <2>2, <3>2 DEF RInv, Debts
    <3> QED
      BY <3>1, <3>2
  <2> QED
    BY <2>1, <2>2 DEF Debts
<1>15. Told(t, a)
  <2>1. CASE /\ Ahead(a) = Ahead(r) /\ a.cycle_accum = r.cycle_accum
             /\ a.reset = r.reset /\ a.clk = r.clk
             /\ t \in enable => maincpu_clk - a.last_clk = ClockOf(t) - r.last_clk
    <3>1. LagOf'[t] = LagOf[t]
      BY <1>8, <1>11, <1>12, <2>1
    <3> QED
      BY <1>4, <1>5, <1>6, <1>10, <2>1, <3>1 DEF Told, r, e
  <2>2. CASE /\ t \in enable /\ a.last_clk = maincpu_clk
             /\ \E m \in Forgivable(LagOf[t]) : Ran(r, sync_factor[t], m, a)
    <3>1. LagOf'[t] = 0
      BY <1>3, <1>8, <1>11, <2>2
    <3> QED
      BY <1>4, <1>5, <1>6, <1>10, <2>2, <3>1 DEF Told, r, e
  <2> QED
    BY <1>5, <2>1, <2>2
<1> QED
  BY <1>7, <1>13, <1>14, <1>15
-----------------------------------------------------------------------------
LEMMA InitRate == Init => RInv /\ Exact!RInit
<1> SUFFICES ASSUME Init PROVE RInv /\ Exact!RInit
  OBVIOUS
<1>1. /\ enable = {} /\ sync_factor \in [Drives -> Rates]
      /\ dr = [d \in Drives |-> Restarted(ResetClk)]
  BY DEF Init
<1>2. \A d \in Drives : dr[d].clk = 0 /\ dr[d].stop_clk = 0 /\ dr[d].cycle_accum = 0 /\ dr[d].reset
  BY <1>1 DEF Restarted
<1>3. \A d \in Drives : InStep(dr[d])
  BY <1>2, AtZero
<1>4. RInv
  BY <1>1, <1>3, InitInv DEF RInv, Debts
<1>5. Exact!Drives = Drives
  BY DEF Exact!Drives, Drives
<1>6. /\ LagOf = [d \in Drives |-> 0] /\ FracOf = [d \in Drives |-> 0]
      /\ AheadOf = [d \in Drives |-> 0] /\ RestartOf = Drives
  BY <1>1, <1>2 DEF LagOf, FracOf, AheadOf, RestartOf
<1>7. Exact!RInit
  BY <1>1, <1>5, <1>6 DEF Exact!RInit, Exact!Zero, LagOf, FracOf, AheadOf, RestartOf
<1> QED
  BY <1>4, <1>7

LEMMA StutterRate == ASSUME RInv, UNCHANGED vars PROVE Debts' /\ UNCHANGED Exact!rvars
<1>1. UNCHANGED <<maincpu_clk, sub, turn, enable, sync_factor, dr>>
  BY DEF vars
<1>2. \A d \in Drives : ClockOf(d)' = ClockOf(d)
  BY <1>1 DEF ClockOf
<1> QED
  BY <1>1, <1>2, SameRate DEF RInv

LEMMA NextRate == RInv /\ [Next]_vars => RInv' /\ [Exact!RNext]_(Exact!rvars)
<1> SUFFICES ASSUME RInv, [Next]_vars PROVE Debts' /\ [Exact!RNext]_(Exact!rvars)
  BY NextInv DEF RInv
<1> USE DEF Exact!RNext
<1>1. CASE \E n \in 1 .. Frame : Elapse(n)
  BY <1>1, ElapseRate
<1>2. CASE CpuAccess \/ VsyncHook \/ PreventOverflow
  BY <1>2, CpuAccessRate, VsyncHookRate, PreventOverflowRate
<1>3. CASE \E ds \in SUBSET Drives \ {{}} : TrueEmulationOn(ds)
  BY <1>3, TrueEmulationOnRate DEF Exact!Drives, Drives
<1>4. CASE \E d \in Drives : SetSpeed(d) \/ SetType(d) \/ SetIdling(d)
  BY <1>4, SetSpeedRate, SetTypeRate, SetIdlingRate DEF Exact!Drives, Drives
<1>5. CASE Disable \/ MachineReset \/ ReadSnapshot
  BY <1>5, DisableRate, MachineResetRate, ReadSnapshotRate DEF Exact!Drives, Drives
<1>6. CASE UNCHANGED vars
  BY <1>6, StutterRate
<1> QED
  BY <1>1, <1>2, <1>3, <1>4, <1>5, <1>6 DEF Next

(* A drive gets exactly the cycles that belong to the time the computer took:
   what drivecpu_execute does with clocks of finite width, two guards and chunks
   of 10000 cycles is a behaviour of DriveRate, which has none of these. *)
THEOREM RateImplemented == Spec => ImplementsRate
<1>1. Spec => Exact!RInit /\ [][Exact!RNext]_(Exact!rvars)
  BY InitRate, NextRate, PTL DEF Spec
<1> QED
  BY <1>1 DEF ImplementsRate, Exact!RSpec
-----------------------------------------------------------------------------
(* The parts of a cycle that a main cycle can move a drive's clock by, an opcode
   beyond each included, and where its clock and the fraction are. *)
PerCycle == (One * (SubMin + 1)) \div Frame
Place(r) == One * r.clk + r.cycle_accum

(* The main cycles since the guard of drive d was asked. *)
Passed(d) == IF d < turn THEN since ELSE Frame

(* A drive that was never left alone for more than a frame is where it has room
   for the main cycles it lags, and for the rest of the frame. *)
HasSlack(d) ==
    /\ LagOf[d] <= since
    /\ Place(dr[d]) <= One * MaxClk - 1 + (Passed(d) - LagOf[d]) * PerCycle

Slack == \A d \in Drives \ idled : HasSlack(d)

SInv == RInv /\ Slack

LEMMA Budget ==
    /\ PerCycle \in Nat
    /\ \A f \in Rates : f + One * (MaxOp - 1) <= PerCycle
    /\ \A p \in 0 .. Frame : One * MaxClk - 1 + p * PerCycle <= One * (CLOCK_MAX + 1) - 1
<1> DEFINE y == One * (SubMin + 1)
           k == y \div Frame
<1>1. y \in Nat /\ Frame \in Nat /\ Frame > 0 /\ One \in Nat /\ One > 0
  BY Consts
<1>2. k \in Nat /\ y = Frame * k + (y % Frame) /\ y % Frame \in 0 .. Frame - 1
  <2> HIDE DEF y
  <2> QED
    BY <1>1
<1>3. ASSUME NEW f \in Rates PROVE f + One * (MaxOp - 1) <= k
  <2> DEFINE x == f + One * (MaxOp - 1)
  <2>1. x \in Nat
    BY Consts
  <2>2. Frame * x <= y
    BY RateAssumption
  <2> HIDE DEF x, y, k
  <2> SUFFICES ASSUME x >= k + 1 PROVE FALSE
    BY <1>2, <2>1 DEF x
  <2>3. Frame * x >= Frame * k + Frame
    BY <1>1, <1>2, <2>1
  <2>4. Frame * k \in Nat /\ Frame * x \in Nat
    BY <1>1, <1>2, <2>1
  <2> QED
    BY <1>1, <1>2, <2>2, <2>3, <2>4
<1>4. ASSUME NEW p \in 0 .. Frame
      PROVE  One * MaxClk - 1 + p * k <= One * (CLOCK_MAX + 1) - 1
  <2>1. One * MaxClk + y = One * (CLOCK_MAX + 1) /\ One * MaxClk \in Int
    <3>1. CLOCK_MAX + 1 = MaxClk + (SubMin + 1) /\ MaxClk \in Nat /\ SubMin + 1 \in Nat
      BY Guards, Consts
    <3>2. One * (MaxClk + (SubMin + 1)) = One * MaxClk + One * (SubMin + 1)
      BY <3>1, <1>1
    <3> QED
      BY <3>1, <3>2, <1>1
  <2> HIDE DEF y, k
  <2>2. p * k <= Frame * k /\ p * k \in Nat /\ Frame * k \in Nat
    BY <1>1, <1>2
  <2>3. p * k <= y
    BY <1>1, <1>2, <2>2
  <2> QED
    BY <1>1, <2>1, <2>2, <2>3
<1> QED
  BY <1>2, <1>3, <1>4 DEF PerCycle

(* A drive that is run for m of p main cycles has room for the others. *)
LEMMA RunRoom ==
    ASSUME NEW r \in DriveState, InStep(r), NEW f \in Rates, NEW p \in 0 .. Frame,
           NEW m \in 0 .. p, NEW e \in DriveState, Ran(r, f, m, e),
           Place(r) <= One * MaxClk - 1 + (p - m) * PerCycle
    PROVE  e.clk >= r.clk /\ Place(e) <= One * MaxClk - 1 + p * PerCycle
<1> DEFINE w == Owed(r, f, m)
           b == Left(r, f, m)
           K == PerCycle
<1>1. /\ One \in Nat /\ One > 0 /\ f \in Nat /\ m \in Nat /\ p \in Nat /\ K \in Nat
      /\ p - m \in Nat /\ MaxOp \in Nat /\ MaxOp > 0 /\ MaxClk \in Nat
  BY Consts, Budget, Guards
<1>2. /\ r.clk \in Nat /\ e.clk \in Nat /\ r.cycle_accum \in 0 .. One - 1
      /\ e.cycle_accum \in 0 .. One - 1 /\ r.clk \in Clock /\ e.clk \in Clock
  BY DriveFields, Consts DEF Clock
<1>3. /\ w \in Nat /\ w = r.cycle_accum + m * f /\ w \div One \in Nat
      /\ w = One * (w \div One) + (w % One) /\ w % One \in 0 .. One - 1
  <2>1. w \in Nat /\ w = r.cycle_accum + m * f
    BY <1>1, <1>2 DEF Owed
  <2> HIDE DEF w
  <2> QED
    BY <2>1, Division
<1>4. b = Ahead(r) - (w \div One) /\ Ahead(r) \in Nat
  BY Consts DEF Left, InStep
<1>5. e.cycle_accum = w % One
  BY DEF Ran, Gave
<1>6. m * f + m * (One * (MaxOp - 1)) <= m * K /\ m * f \in Nat /\ m * K \in Nat
      /\ m * (One * (MaxOp - 1)) \in Nat
  <2> DEFINE g == One * (MaxOp - 1)
  <2>1. g \in Nat /\ f + g <= K
    BY <1>1, Budget
  <2> HIDE DEF g, K
  <2>2. m * (f + g) <= m * K /\ m * (f + g) = m * f + m * g
    BY <1>1, <2>1
  <2> QED
    BY <1>1, <2>1, <2>2 DEF g
<1>7. (p - m) * K + m * K = p * K /\ (p - m) * K \in Nat /\ p * K \in Nat
  <2> HIDE DEF K
  <2> QED
    BY <1>1
<1>8. One * r.clk \in Nat /\ One * e.clk \in Nat /\ One * MaxClk \in Nat
  BY <1>1, <1>2
<1> HIDE DEF w, b, K
<1>9. One * r.clk + r.cycle_accum <= One * MaxClk - 1 + (p - m) * K
  BY DEF Place, K
<1>10. CASE b >= 0 /\ e.clk = r.clk
  <2>1. e.cycle_accum <= r.cycle_accum + m * f
    <3>1. One * (w \div One) \in Nat
      <4>1. \A u \in Nat : One * u \in Nat
        BY <1>1
      <4> QED
        BY <1>3, <4>1
    <3> QED
      BY <1>2, <1>3, <1>5, <1>6, <3>1
  <2>2. One * e.clk + e.cycle_accum <= One * MaxClk - 1 + p * K
    BY <1>2, <1>6, <1>7, <1>8, <1>9, <1>10, <2>1
  <2> QED
    BY <1>2, <1>10, <2>2 DEF Place, K
<1>11. CASE r.reset /\ e.clk <= ResetClk + MaxOp
  <2>1. r.clk = 0
    BY <1>11 DEF InStep
  <2>2. e.clk <= SubMin /\ SubMin + 1 <= MaxClk /\ SubMin \in Nat
    BY <1>2, <1>11, Consts, Guards DEF MaxClk
  <2>3. One * (e.clk + 1) <= One * MaxClk /\ One * (e.clk + 1) = One * e.clk + One
    BY <1>1, <1>2, <2>2
  <2>4. One * e.clk + e.cycle_accum <= One * MaxClk - 1 + p * K
    BY <1>1, <1>2, <1>7, <1>8, <2>3
  <2> QED
    BY <1>2, <2>1, <2>4 DEF Place, K
<1>12. CASE b < 0 /\ \E over \in 0 .. MaxOp - 1 : Same(e.clk, r.clk - b + over)
  <2>1. PICK over \in 0 .. MaxOp - 1 : Same(e.clk, r.clk - b + over)
    BY <1>12
  <2> DEFINE q == w \div One
             a == Ahead(r)
             x == r.clk - b + over
  <2>2. q \in Nat /\ a \in Nat /\ b = a - q /\ over \in Nat /\ over <= MaxOp - 1
        /\ w = One * q + e.cycle_accum
    BY <1>1, <1>3, <1>4, <1>5
  <2> HIDE DEF q, a
  <2>3. x \in Int /\ x > r.clk /\ x = r.clk + q - a + over
    <3>1. b \in Int /\ b < 0
      BY <1>12, <2>2
    <3>2. x \in Int /\ x > r.clk
      BY <1>2, <2>2, <3>1
    <3>3. r.clk - (a - q) + over = r.clk + q - a + over
      BY <1>2, <2>2
    <3> QED
      BY <2>2, <3>2, <3>3
  <2>4. m >= 1
    <3> SUFFICES ASSUME m = 0 PROVE FALSE
      BY <1>1
    <3>1. w = r.cycle_accum
      <4>1. m * f = 0
        BY <1>1
      <4>2. r.cycle_accum \in Int /\ w = r.cycle_accum + m * f
        BY <1>2, <1>3
      <4> QED
        BY <4>1, <4>2
    <3>2. q >= 1
      BY <1>12, <2>2
    <3>3. One * q >= One
      BY <1>1, <2>2, <3>2
    <3> QED
      BY <1>1, <1>2, <2>2, <3>1, <3>3
  <2> HIDE DEF x
  <2>5. One * x + e.cycle_accum <= One * MaxClk - 1 + p * K
    <3>1. One * x = One * r.clk + One * q - One * a + One * over
      BY <1>1, <1>2, <2>2, <2>3
    <3>2. One * a \in Nat /\ One * q \in Nat /\ One * over \in Nat
      BY <1>1, <2>2
    <3>3. One * over <= m * (One * (MaxOp - 1))
      <4>1. One * over <= One * (MaxOp - 1) /\ One * (MaxOp - 1) \in Nat
        BY <1>1, <2>2
      <4>2. \A u \in Nat : m * u >= u
        BY <1>1, <2>4
      <4> QED
        BY <3>2, <4>1, <4>2, <1>6
    <3> QED
      BY <1>2, <1>3, <1>6, <1>7, <1>8, <1>9, <2>2, <3>1, <3>2, <3>3
  <2>6. x \in Clock
    <3>1. One * x + e.cycle_accum <= One * (CLOCK_MAX + 1) - 1
      <4>1. One * MaxClk - 1 + p * K <= One * (CLOCK_MAX + 1) - 1
        BY Budget DEF K
      <4>2. One * x \in Int /\ One * (CLOCK_MAX + 1) \in Int
        BY <1>1, <2>3, Consts
      <4> QED
        BY <1>2, <1>7, <1>8, <2>5, <4>1, <4>2
    <3>2. x <= CLOCK_MAX
      <4> SUFFICES ASSUME x >= CLOCK_MAX + 1 PROVE FALSE
        BY <2>3, Consts
      <4>1. One * x >= One * (CLOCK_MAX + 1)
        BY <1>1, <2>3, Consts
      <4>2. One * x \in Int /\ One * (CLOCK_MAX + 1) \in Int
        BY <1>1, <2>3, Consts
      <4> QED
        BY <1>2, <3>1, <4>1, <4>2
    <3> QED
      BY <1>2, <2>3, <3>2, Consts DEF Clock
  <2>7. e.clk = x
    BY <1>2, <2>1, <2>6, SameInRange DEF x
  <2> QED
    BY <1>2, <2>3, <2>5, <2>7 DEF Place, K
<1> QED
  BY <1>10, <1>11, <1>12 DEF Ran, Went, b

LEMMA SlackTypes ==
    ASSUME IInv
    PROVE  \A d \in Drives : LagOf[d] \in Nat /\ Passed(d) \in 0 .. Frame
                            /\ Place(dr[d]) \in Nat /\ dr[d] \in DriveState
<1> SUFFICES ASSUME NEW d \in Drives
             PROVE  LagOf[d] \in Nat /\ Passed(d) \in 0 .. Frame
                    /\ Place(dr[d]) \in Nat /\ dr[d] \in DriveState
  OBVIOUS
<1>1. LagOf[d] \in Nat
  <2>1. CASE d \in enable
    BY <2>1, ClockOfType DEF LagOf
  <2>2. CASE d \notin enable
    BY <2>2 DEF LagOf
  <2> QED
    BY <2>1, <2>2
<1>2. Passed(d) \in 0 .. Frame
  BY Consts DEF IInv, TypeOK, Passed
<1>3. dr[d] \in DriveState
  BY InvFacts
<1>4. Place(dr[d]) \in Nat
  <2>1. dr[d].clk \in Nat /\ dr[d].cycle_accum \in Nat
    BY <1>3, DriveFields, Consts DEF Clock
  <2>2. One * dr[d].clk \in Nat
    BY <2>1, Consts
  <2> QED
    BY <2>1, <2>2 DEF Place
<1> QED
  BY <1>1, <1>2, <1>3, <1>4

(* A drive whose clock was set below what its guard waits for. *)
LEMMA FreshSlack ==
    ASSUME NEW d \in Drives, dr'[d] \in DriveState, dr'[d].clk < MaxClk, LagOf'[d] = 0,
           since' \in 0 .. Frame
    PROVE  HasSlack(d)'
<1> DEFINE r == dr'[d]
<1>1. /\ r.clk \in Nat /\ r.cycle_accum \in 0 .. One - 1 /\ MaxClk \in Nat
      /\ One \in Nat /\ One > 0
  BY DriveFields, Consts, Guards DEF Clock
<1>2. Passed(d)' \in Nat /\ PerCycle \in Nat
  BY Consts, Budget DEF Passed
<1> HIDE DEF r
<1>3. One * (r.clk + 1) <= One * MaxClk /\ One * (r.clk + 1) = One * r.clk + One
      /\ One * MaxClk \in Nat /\ One * r.clk \in Nat
  BY <1>1 DEF r
<1>4. Place(r) <= One * MaxClk - 1
  BY <1>1, <1>3 DEF Place
<1>5. Place(r) \in Nat
  BY <1>1, <1>3 DEF Place
<1>6. (Passed(d)' - 0) * PerCycle \in Nat
  BY <1>2
<1>7. Place(r) <= One * MaxClk - 1 + (Passed(d)' - 0) * PerCycle
  BY <1>3, <1>4, <1>5, <1>6
<1> QED
  BY <1>7 DEF HasSlack, r

(* A drive whose clock stays, while its lag grows no more than the time. *)
LEMMA KeptSlack ==
    ASSUME IInv, NEW d \in Drives, HasSlack(d), NEW l \in Nat,
           dr'[d].clk = dr[d].clk, dr'[d].cycle_accum = dr[d].cycle_accum,
           LagOf'[d] = l, l <= since', Passed(d)' \in Nat,
           Passed(d)' - l >= Passed(d) - LagOf[d]
    PROVE  HasSlack(d)'
<1> DEFINE u == Passed(d) - LagOf[d]
           v == Passed(d)' - l
           K == PerCycle
<1>1. u \in Int /\ v \in Int /\ u <= v /\ K \in Nat
  BY SlackTypes, Budget
<1>2. Place(dr[d]) <= One * MaxClk - 1 + u * K /\ Place(dr[d]) \in Nat /\ One * MaxClk \in Nat
  BY SlackTypes, Consts, Guards DEF HasSlack
<1> HIDE DEF u, v, K
<1>3. u * K <= v * K /\ u * K \in Int /\ v * K \in Int
  BY <1>1
<1>4. Place(dr[d]) <= One * MaxClk - 1 + v * K
  BY <1>2, <1>3
<1>5. Place(dr'[d]) = Place(dr[d])
  BY DEF Place
<1> QED
  BY <1>4, <1>5 DEF HasSlack, v, K

(* A drive that is run is given the room of its lag. *)
LEMMA RunSlack ==
    ASSUME RInv, NEW d \in Drives, HasSlack(d), NEW e \in DriveState,
           \E m \in Forgivable(LagOf[d]) : Ran(dr[d], sync_factor[d], m, e)
    PROVE  e.clk >= dr[d].clk /\ Place(e) <= One * MaxClk - 1 + Passed(d) * PerCycle
<1>1. /\ IInv /\ dr[d] \in DriveState /\ InStep(dr[d]) /\ sync_factor[d] \in Rates
      /\ LagOf[d] \in Nat /\ Passed(d) \in 0 .. Frame /\ since \in 0 .. Frame
      /\ Place(dr[d]) \in Nat
  BY InvFacts, SlackTypes DEF RInv, Debts, IInv, TypeOK
<1>2. PICK m \in Forgivable(LagOf[d]) : Ran(dr[d], sync_factor[d], m, e)
  OBVIOUS
<1>3. m \in Nat /\ m <= LagOf[d]
  BY <1>1, <1>2 DEF Forgivable
<1>4. LagOf[d] <= Passed(d)
  BY <1>1, Consts DEF HasSlack, Passed
<1> DEFINE p == Passed(d)
           l == LagOf[d]
           K == PerCycle
<1>5. /\ p \in 0 .. Frame /\ p \in Nat /\ l \in Nat /\ l <= p /\ m <= l /\ K \in Nat
      /\ Place(dr[d]) <= One * MaxClk - 1 + (p - l) * K /\ One * MaxClk \in Nat
  BY <1>1, <1>3, <1>4, Budget, Consts, Guards DEF HasSlack
<1> HIDE DEF p, l, K
<1>6. (p - l) * K <= (p - m) * K /\ (p - l) * K \in Int /\ (p - m) * K \in Int
  BY <1>3, <1>5
<1>7. Place(dr[d]) <= One * MaxClk - 1 + (p - m) * K
  BY <1>1, <1>5, <1>6
<1>8. m \in 0 .. p
  BY <1>3, <1>5
<1> QED
  BY <1>1, <1>2, <1>5, <1>7, <1>8, RunRoom DEF p, K
-----------------------------------------------------------------------------
LEMMA FreshLag ==
    ASSUME NEW ds \in SUBSET Drives, Exact!Fresh(ds)
    PROVE  \A d \in Drives : LagOf'[d] = IF d \in ds THEN 0 ELSE LagOf[d]
<1>1. Exact!Drives = Drives
  BY DEF Exact!Drives, Drives
<1>2. LagOf' = [d \in Drives |-> IF d \in ds THEN 0 ELSE LagOf[d]]
  BY <1>1 DEF Exact!Fresh, LagOf
<1> QED
  BY <1>2

(* Between two ends of a frame, a drive whose clock stays. *)
LEMMA KeptRunning ==
    ASSUME IInv, NEW d \in Drives, HasSlack(d), UNCHANGED <<turn, since>>,
           dr'[d].clk = dr[d].clk, dr'[d].cycle_accum = dr[d].cycle_accum,
           LagOf'[d] = LagOf[d] \/ LagOf'[d] = 0
    PROVE  HasSlack(d)'
<1>1. /\ LagOf[d] \in Nat /\ Passed(d) \in Nat /\ since \in Nat
      /\ since' = since /\ turn' = turn /\ LagOf[d] <= since
  BY SlackTypes, InvFacts, Consts DEF HasSlack
<1>2. Passed(d)' = Passed(d)
  BY <1>1 DEF Passed
<1>3. PICK l \in Nat : LagOf'[d] = l /\ l <= LagOf[d]
  BY <1>1
<1>4. l <= since' /\ Passed(d)' - l >= Passed(d) - LagOf[d] /\ Passed(d)' \in Nat
  BY <1>1, <1>2, <1>3
<1> QED
  BY <1>3, <1>4, KeptSlack

LEMMA ElapseSlack == ASSUME SInv, NEW n \in 1 .. Frame, Elapse(n) PROVE Slack'
<1>1. /\ Running /\ since' = since + n /\ turn' = turn /\ enable' = enable
      /\ idled' = idled /\ dr' = dr
  BY DEF Elapse
<1>2. RInv /\ IInv /\ n \in Nat
  BY DEF SInv, RInv
<1>3. Exact!Drives = Drives
  BY DEF Exact!Drives, Drives
<1>4. LagOf' = [d \in Drives |-> IF d \in enable THEN LagOf[d] + n ELSE 0]
  BY <1>2, <1>3, ElapseRate DEF Exact!Pass, LagOf
<1>5. ASSUME NEW d \in Drives \ idled PROVE HasSlack(d)'
  <2>1. HasSlack(d) /\ LagOf[d] \in Nat /\ since \in Nat /\ Passed(d) \in Nat
    BY <1>2, SlackTypes, InvFacts, Consts DEF SInv, Slack
  <2>2. d < turn
    BY <1>1, <1>2, InvFacts DEF Running
  <2>3. Passed(d) = since /\ Passed(d)' = since + n
    BY <1>1, <2>2 DEF Passed
  <2>4. d \notin enable => LagOf[d] = 0
    BY DEF LagOf
  <2>5. PICK l \in Nat : LagOf'[d] = l /\ l <= LagOf[d] + n
    BY <1>2, <1>4, <2>1
  <2>6. LagOf[d] <= since
    BY <2>1 DEF HasSlack
  <2>7. l <= since' /\ Passed(d)' - l >= Passed(d) - LagOf[d] /\ Passed(d)' \in Nat
    BY <1>1, <1>2, <2>1, <2>3, <2>5, <2>6
  <2> QED
    BY <1>1, <1>2, <2>1, <2>5, <2>7, KeptSlack
<1> QED
  BY <1>1, <1>5 DEF Slack

(* Drives that are run: their clocks do not go back. *)
LEMMA RunsSlack ==
    ASSUME RInv, NEW ds \in SUBSET enable, Runs(ds), dr' \in [Drives -> DriveState],
           NEW d \in Drives, HasSlack(d)
    PROVE  /\ dr'[d].clk >= dr[d].clk /\ LagOf'[d] \in Nat /\ LagOf'[d] <= LagOf[d]
           /\ Place(dr'[d]) <= One * MaxClk - 1 + (Passed(d) - LagOf'[d]) * PerCycle
<1>1. LagOf[d] \in Nat /\ Passed(d) \in Nat /\ dr[d] \in DriveState /\ dr'[d] \in DriveState
  BY SlackTypes, Consts DEF RInv
<1>2. CASE d \in ds
  <2>1. LagOf'[d] = 0 /\ \E m \in Forgivable(LagOf[d]) : Ran(dr[d], sync_factor[d], m, dr'[d])
    BY <1>2 DEF Runs
  <2>2. /\ dr'[d].clk >= dr[d].clk
        /\ Place(dr'[d]) <= One * MaxClk - 1 + Passed(d) * PerCycle
    BY <1>1, <2>1, RunSlack
  <2>3. Passed(d) - 0 = Passed(d) /\ 0 <= LagOf[d] /\ 0 \in Nat
    BY <1>1
  <2> QED
    BY <2>1, <2>2, <2>3
<1>3. CASE d \notin ds
  <2>1. LagOf'[d] = LagOf[d] /\ dr'[d] = dr[d]
    BY <1>3 DEF Runs
  <2>2. dr[d].clk \in Int
    BY <1>1, DriveFields
  <2>3. dr[d].clk >= dr[d].clk /\ LagOf[d] <= LagOf[d]
    BY <1>1, <2>2
  <2> QED
    BY <1>1, <2>1, <2>3 DEF HasSlack
<1> QED
  BY <1>2, <1>3

(* What TurnedBackByGuard asks of a step. *)
TurnsBack == \A d \in Drives \ idled :
                dr'[d].clk < dr[d].clk => dr'[d].clk + DriveSub >= dr[d].clk

LEMMA Advanced ==
    ASSUME NEW x \in Int, NEW y \in Int, x >= y, NEW z \in Int
    PROVE  x < y => x + z >= y
  OBVIOUS

LEMMA CpuAccessSlack == ASSUME SInv, CpuAccess PROVE Slack' /\ TurnsBack
<1>1. /\ Running /\ UNCHANGED <<since, turn>> /\ idled' = idled
  BY DEF CpuAccess, main
<1>2. RInv /\ IInv /\ IInv' /\ dr' \in [Drives -> DriveState] /\ dr \in [Drives -> DriveState]
  BY CpuAccessInv, InvFacts DEF SInv, RInv, IInv, TypeOK
<1>3. PICK ds \in SUBSET enable : Runs(ds)
  BY <1>2, CpuAccessRate
<1>4. ASSUME NEW d \in Drives \ idled
      PROVE  HasSlack(d)' /\ (dr'[d].clk < dr[d].clk => dr'[d].clk + DriveSub >= dr[d].clk)
  <2>1. HasSlack(d)
    BY DEF SInv, Slack
  <2>2. /\ dr'[d].clk >= dr[d].clk /\ LagOf'[d] \in Nat /\ LagOf'[d] <= LagOf[d]
        /\ Place(dr'[d]) <= One * MaxClk - 1 + (Passed(d) - LagOf'[d]) * PerCycle
    BY <1>2, <1>3, <2>1, RunsSlack
  <2>3. Passed(d)' = Passed(d)
    BY <1>1 DEF Passed
  <2>4. LagOf[d] \in Nat /\ since \in Nat /\ since' = since
    BY <1>1, <1>2, SlackTypes, InvFacts
  <2>5. LagOf'[d] <= since'
    BY <2>1, <2>2, <2>4 DEF HasSlack
  <2>6. dr'[d].clk \in Int /\ dr[d].clk \in Int /\ DriveSub \in Int
    BY <1>2, DriveFields, Guards
  <2>7. HasSlack(d)'
    BY <2>2, <2>3, <2>5 DEF HasSlack
  <2> QED
    BY <2>2, <2>6, <2>7
<1> QED
  BY <1>1, <1>4 DEF Slack, TurnsBack

LEMMA VsyncHookSlack == ASSUME SInv, VsyncHook PROVE Slack' /\ TurnsBack
<1>1. /\ Running /\ since = Frame /\ since' = 0 /\ turn' = 0 /\ idled' = idled
      /\ UNCHANGED enable
  BY DEF VsyncHook
<1>2. RInv /\ IInv /\ IInv' /\ dr' \in [Drives -> DriveState] /\ dr \in [Drives -> DriveState]
  BY VsyncHookInv, InvFacts DEF SInv, RInv, IInv, TypeOK
<1>3. PICK ds \in SUBSET enable : ds = enable \ skipping /\ Runs(ds)
  BY <1>2, VsyncHookRate
<1>4. ASSUME NEW d \in Drives \ idled
      PROVE  HasSlack(d)' /\ (dr'[d].clk < dr[d].clk => dr'[d].clk + DriveSub >= dr[d].clk)
  <2>1. HasSlack(d)
    BY DEF SInv, Slack
  <2>2. /\ dr'[d].clk >= dr[d].clk
        /\ Place(dr'[d]) <= One * MaxClk - 1 + (Passed(d) - LagOf'[d]) * PerCycle
    BY <1>2, <1>3, <2>1, RunsSlack
  <2>3. LagOf'[d] = 0
    <3>1. CASE d \in enable
      <4>1. d \in ds
        BY <1>2, <1>3, <3>1 DEF IInv, TypeOK
      <4> QED
        BY <1>3, <4>1 DEF Runs
    <3>2. CASE d \notin enable
      BY <1>1, <3>2 DEF LagOf
    <3> QED
      BY <3>1, <3>2
  <2>4. Passed(d) = Frame /\ Passed(d)' = Frame
    <3>1. d \in Nat /\ d < turn
      BY <1>1, <1>2, InvFacts DEF Running
    <3>2. ~(d < turn')
      BY <1>1, <3>1
    <3> QED
      BY <1>1, <3>1, <3>2 DEF Passed
  <2>5. LagOf'[d] <= since'
    BY <1>1, <2>3
  <2>6. dr'[d].clk \in Int /\ dr[d].clk \in Int /\ DriveSub \in Int
    BY <1>2, DriveFields, Guards
  <2>7. HasSlack(d)'
    BY <2>2, <2>4, <2>5 DEF HasSlack
  <2> QED
    BY <2>2, <2>6, <2>7
<1> QED
  BY <1>1, <1>4 DEF Slack, TurnsBack

(* At the end of the frame no such drive lags, and its guard takes off what it
   has more than it waits for. *)
LEMMA PreventOverflowSlack == ASSUME SInv, PreventOverflow PROVE Slack' /\ TurnsBack
<1>1. /\ turn < NumDrives /\ turn' = turn + 1 /\ since' = since /\ idled' = idled
  BY DEF PreventOverflow
<1>2. RInv /\ IInv /\ IInv' /\ dr' \in [Drives -> DriveState] /\ dr \in [Drives -> DriveState]
  BY PreventOverflowInv, InvFacts DEF SInv, RInv, IInv, TypeOK
<1>3. PICK t \in Drives, a \in DriveState : Told(t, a)
  BY <1>2, PreventOverflowRate
<1>4. /\ t = turn /\ dr'[t] = DriveGuard(a) /\ turn \in Nat /\ NumDrives \in Nat
      /\ \A d \in Drives \ {t} : LagOf'[d] = LagOf[d] /\ dr'[d] = dr[d]
  BY <1>2, <1>3, InvFacts, Consts DEF Told
<1>5. since = 0 /\ since' = 0
  <2>1. turn # NumDrives
    BY <1>1, <1>4
  <2> QED
    BY <1>1, <1>2, <2>1 DEF IInv, Room, Running
<1>6. ASSUME t \notin idled PROVE HasSlack(t)' /\ dr'[t].clk + DriveSub >= dr[t].clk
  <2>1. HasSlack(t) /\ LagOf[t] \in Nat /\ dr[t] \in DriveState /\ dr'[t] \in DriveState
    BY <1>2, <1>6, SlackTypes DEF SInv, Slack
  <2>2. LagOf[t] = 0
    BY <1>5, <2>1 DEF HasSlack
  <2>3. LagOf'[t] = 0 /\ a.clk >= dr[t].clk
    <3>1. CASE a.clk = dr[t].clk /\ a.cycle_accum = dr[t].cycle_accum /\ LagOf'[t] = LagOf[t]
      <4>1. dr[t].clk \in Int
        BY <2>1, DriveFields
      <4> QED
        BY <2>2, <3>1, <4>1
    <3>2. CASE /\ LagOf'[t] = 0
               /\ \E m \in Forgivable(LagOf[t]) : Ran(dr[t], sync_factor[t], m, a)
      BY <1>2, <2>1, <3>2, RunSlack
    <3> QED
      BY <1>3, <3>1, <3>2 DEF Told
  <2>4. IF a.clk < MaxClk THEN dr'[t].clk = a.clk ELSE dr'[t].clk = a.clk - DriveSub
    BY <1>4, DriveGuardExact
  <2>5. /\ a.clk \in Nat /\ a.clk <= CLOCK_MAX /\ MaxClk \in Nat /\ DriveSub \in Nat
        /\ dr[t].clk \in Nat
        /\ MaxClk + SubMin = CLOCK_MAX /\ DriveSub + SubMin = MaxClk /\ SubMin \in Nat
        /\ 3 * SubMin < CLOCK_MAX /\ CLOCK_MAX \in Nat
    BY <2>1, DriveFields, Guards, Consts DEF Clock
  <2>6. dr'[t].clk < MaxClk /\ dr'[t].clk + DriveSub >= dr[t].clk
    BY <2>3, <2>4, <2>5
  <2>7. since' \in 0 .. Frame
    BY <1>5, Consts
  <2> QED
    BY <2>1, <2>3, <2>6, <2>7, FreshSlack
<1>7. ASSUME NEW d \in Drives \ idled, d # t PROVE HasSlack(d)' /\ dr'[d].clk = dr[d].clk
  <2>1. HasSlack(d) /\ LagOf'[d] = LagOf[d] /\ dr'[d] = dr[d] /\ LagOf[d] \in Nat
        /\ Passed(d) \in Nat
    BY <1>2, <1>4, <1>7, SlackTypes, Consts DEF SInv, Slack
  <2>2. Passed(d)' = Passed(d)
    <3>1. d \in Nat
      BY <1>2, InvFacts
    <3>2. d < turn' <=> d < turn
      BY <1>1, <1>4, <1>7, <3>1
    <3> QED
      BY <1>1, <3>2 DEF Passed
  <2>3. LagOf[d] <= since'
    BY <1>1, <2>1 DEF HasSlack
  <2>4. Passed(d)' - LagOf[d] >= Passed(d) - LagOf[d] /\ Passed(d)' \in Nat
    BY <2>1, <2>2
  <2> QED
    BY <1>2, <2>1, <2>3, <2>4, KeptSlack
<1>8. Slack'
  BY <1>1, <1>6, <1>7 DEF Slack
<1>9. TurnsBack
  <2> SUFFICES ASSUME NEW d \in Drives \ idled, dr'[d].clk < dr[d].clk
               PROVE  dr'[d].clk + DriveSub >= dr[d].clk
    BY DEF TurnsBack
  <2>1. dr'[d].clk \in Int /\ dr[d].clk \in Int
    BY <1>2, DriveFields
  <2> QED
    BY <1>6, <1>7, <2>1
<1> QED
  BY <1>8, <1>9
-----------------------------------------------------------------------------
(* A step between two ends of a frame that runs no drive: the clock of a drive
   stays or is set. *)
LEMMA QuietSlack ==
    ASSUME SInv, IInv', UNCHANGED <<turn, since>>,
           \A d \in Drives \ idled' :
              \/ /\ d \notin idled /\ dr'[d].clk = dr[d].clk
                 /\ dr'[d].cycle_accum = dr[d].cycle_accum
                 /\ LagOf'[d] = LagOf[d] \/ LagOf'[d] = 0
              \/ dr'[d].clk < MaxClk /\ LagOf'[d] = 0
    PROVE  Slack'
<1>1. IInv /\ dr' \in [Drives -> DriveState] /\ since' \in 0 .. Frame
  BY DEF SInv, RInv, IInv, TypeOK
<1> SUFFICES ASSUME NEW d \in Drives, d \notin idled' PROVE HasSlack(d)'
  BY DEF Slack
<1>2. CASE /\ d \notin idled /\ dr'[d].clk = dr[d].clk
           /\ dr'[d].cycle_accum = dr[d].cycle_accum
           /\ LagOf'[d] = LagOf[d] \/ LagOf'[d] = 0
  <2>1. HasSlack(d)
    BY <1>2 DEF SInv, Slack
  <2> QED
    BY <1>1, <1>2, <2>1, KeptRunning
<1>3. CASE dr'[d].clk < MaxClk /\ LagOf'[d] = 0
  BY <1>1, <1>3, FreshSlack
<1> QED
  BY <1>2, <1>3

LEMMA SetSpeedSlack == ASSUME SInv, NEW d \in Drives, SetSpeed(d) PROVE Slack'
<1>1. UNCHANGED <<turn, since>> /\ dr' = dr /\ idled' = idled
  BY DEF SetSpeed, main
<1>2. RInv /\ IInv /\ IInv'
  BY SetSpeedInv DEF SInv, RInv
<1>3. LagOf' = LagOf
  BY <1>2, SetSpeedRate DEF Exact!SetRate, LagOf
<1> QED
  BY <1>1, <1>2, <1>3, QuietSlack

LEMMA TrueEmulationOnSlack ==
    ASSUME SInv, NEW ds \in SUBSET Drives, TrueEmulationOn(ds) PROVE Slack'
<1>1. /\ UNCHANGED <<turn, since>> /\ idled' = idled
      /\ dr' = [d \in Drives |-> IF d \in ds
                   THEN [dr[d] EXCEPT !.last_clk = maincpu_clk, !.stop_clk = dr[d].clk]
                   ELSE dr[d]]
  BY DEF TrueEmulationOn, main
<1>2. RInv /\ IInv /\ IInv' /\ dr \in [Drives -> DriveState]
  BY TrueEmulationOnInv, InvFacts DEF SInv, RInv
<1>3. Exact!Fresh(Drives)
  <2>1. Exact!Drives = Drives
    BY DEF Exact!Drives, Drives
  <2> QED
    BY <1>2, <2>1, TrueEmulationOnRate DEF Exact!SwitchOn
<1>4. \A d \in Drives : LagOf'[d] = 0
  BY <1>3, FreshLag
<1>5. \A d \in Drives : dr'[d].clk = dr[d].clk /\ dr'[d].cycle_accum = dr[d].cycle_accum
  BY <1>1, <1>2 DEF DriveState
<1> QED
  BY <1>1, <1>2, <1>4, <1>5, QuietSlack

LEMMA DisableSlack == ASSUME SInv, Disable PROVE Slack'
<1>1. UNCHANGED <<turn, since>> /\ dr' = dr /\ idled' = idled
  BY DEF Disable, main
<1>2. RInv /\ IInv /\ IInv'
  BY DisableInv DEF SInv, RInv
<1>3. PICK ds \in SUBSET Drives : Exact!SwitchOff(ds)
  BY <1>2, DisableRate
<1>4. \A d \in Drives : LagOf'[d] = LagOf[d] \/ LagOf'[d] = 0
  BY <1>3, FreshLag DEF Exact!SwitchOff
<1> QED
  BY <1>1, <1>2, <1>4, QuietSlack

LEMMA SetTypeSlack == ASSUME SInv, NEW d \in Drives, SetType(d) PROVE Slack'
<1>1. /\ UNCHANGED <<turn, since>> /\ idled' = (idled \ {d}) \cup (skipping \cap {d})
      /\ dr' = [dr EXCEPT ![d] = [Restarted(maincpu_clk) EXCEPT
                                    !.cycle_accum = dr[d].cycle_accum]]
  BY DEF SetType, main
<1>2. RInv /\ IInv /\ IInv' /\ dr \in [Drives -> DriveState]
  BY SetTypeInv, InvFacts DEF SInv, RInv
<1>3. \A e \in Drives : LagOf'[e] = IF e = d THEN 0 ELSE LagOf[e]
  <2>1. Exact!Fresh({d})
    BY <1>2, SetTypeRate DEF Exact!Exchange
  <2>2. {d} \in SUBSET Drives
    OBVIOUS
  <2>3. \A e \in Drives : LagOf'[e] = IF e \in {d} THEN 0 ELSE LagOf[e]
    BY <2>1, <2>2, FreshLag
  <2> QED
    BY <2>3
<1>4. dr'[d].clk < MaxClk
  <2>1. dr'[d].clk = 0
    BY <1>1, <1>2 DEF Restarted
  <2> QED
    BY <2>1, Consts, Guards
<1>5. \A e \in Drives \ {d} : dr'[e] = dr[e] /\ (e \in idled' <=> e \in idled)
  BY <1>1, <1>2
<1> QED
  BY <1>1, <1>2, <1>3, <1>4, <1>5, QuietSlack

LEMMA MachineResetSlack == ASSUME SInv, MachineReset PROVE Slack'
<1>1. /\ UNCHANGED <<turn, since>>
      /\ dr' = [d \in Drives |-> [Restarted(ResetClk) EXCEPT !.cycle_accum = dr[d].cycle_accum]]
  BY DEF MachineReset
<1>2. RInv /\ IInv /\ IInv'
  BY MachineResetInv DEF SInv, RInv
<1>3. \A d \in Drives : LagOf'[d] = 0
  <2>1. Exact!Drives = Drives
    BY DEF Exact!Drives, Drives
  <2> QED
    BY <1>2, <2>1, MachineResetRate, FreshLag DEF Exact!Restart
<1>4. \A d \in Drives : dr'[d].clk < MaxClk
  <2>1. \A d \in Drives : dr'[d].clk = 0
    BY <1>1 DEF Restarted
  <2> QED
    BY <2>1, Consts, Guards
<1> QED
  BY <1>1, <1>2, <1>3, <1>4, QuietSlack

LEMMA SetIdlingSlack == ASSUME SInv, NEW d \in Drives, SetIdling(d) PROVE Slack'
<1>1. /\ UNCHANGED <<turn, since>> /\ dr' = dr /\ idled \subseteq idled' /\ enable' = enable
      /\ UNCHANGED <<maincpu_clk, sub>>
  BY DEF SetIdling, main
<1>2. IInv /\ IInv'
  BY SetIdlingInv DEF SInv, RInv
<1>3. LagOf' = LagOf
  BY <1>1 DEF LagOf, ClockOf
<1> QED
  BY <1>1, <1>2, <1>3, QuietSlack

LEMMA ReadSnapshotSlack == ASSUME SInv, ReadSnapshot PROVE Slack'
<1>1. UNCHANGED <<turn, since>> /\ \A d \in Drives : dr'[d].clk \in SnapClocks
  BY DEF ReadSnapshot
<1>2. RInv /\ IInv /\ IInv'
  BY ReadSnapshotInv DEF SInv, RInv
<1>3. \A d \in Drives : LagOf'[d] = 0
  <2>1. Exact!Drives = Drives
    BY DEF Exact!Drives, Drives
  <2>2. LagOf' = [d \in Drives |-> 0]
    BY <1>2, <2>1, ReadSnapshotRate DEF Exact!Load, Exact!Zero, LagOf
  <2> QED
    BY <2>2
<1>4. \A d \in Drives : dr'[d].clk < MaxClk
  <2>1. \A x \in SnapClocks : x < MaxClk
    BY Consts, Guards
  <2> QED
    BY <1>1, <2>1
<1> QED
  BY <1>1, <1>2, <1>3, <1>4, QuietSlack

LEMMA StutterSlack == ASSUME SInv, UNCHANGED vars PROVE Slack'
<1>1. UNCHANGED <<maincpu_clk, since, sub, turn, enable, dr, idled>>
  BY DEF vars
<1>2. LagOf' = LagOf
  BY <1>1 DEF LagOf, ClockOf
<1> QED
  BY <1>1, <1>2 DEF SInv, Slack, HasSlack, Passed

LEMMA InitSlack == Init => SInv
<1> SUFFICES ASSUME Init PROVE SInv
  OBVIOUS
<1>1. RInv
  BY InitRate
<1>2. /\ since = 0 /\ turn = NumDrives /\ enable = {}
      /\ dr = [d \in Drives |-> Restarted(ResetClk)]
  BY DEF Init
<1>3. ASSUME NEW d \in Drives PROVE HasSlack(d)
  <2>1. d < turn /\ LagOf[d] = 0
    BY <1>1, <1>2, InvFacts DEF RInv, LagOf
  <2>2. dr[d].clk = 0 /\ dr[d].cycle_accum = 0
    BY <1>2 DEF Restarted
  <2>3. Passed(d) = 0
    BY <1>2, <2>1 DEF Passed
  <2>4. One * 0 + 0 = 0 /\ (0 - 0) * PerCycle = 0 /\ One * MaxClk >= 1
    <3>1. MaxClk \in Nat /\ MaxClk >= 1 /\ One \in Nat /\ One >= 1
      BY Guards, Consts
    <3>2. One * MaxClk >= 1
      BY <3>1
    <3>3. PerCycle \in Nat
      BY Budget
    <3> QED
      BY <3>1, <3>2, <3>3
  <2>5. One * MaxClk \in Int
    BY Guards, Consts
  <2>6. Place(dr[d]) <= One * MaxClk - 1 + (Passed(d) - LagOf[d]) * PerCycle
    BY <2>1, <2>2, <2>3, <2>4, <2>5 DEF Place
  <2> QED
    BY <1>2, <2>1, <2>6 DEF HasSlack
<1> QED
  BY <1>1, <1>3 DEF SInv, Slack

LEMMA NextSlack == SInv /\ [Next]_vars => SInv'
<1> SUFFICES ASSUME SInv, [Next]_vars PROVE Slack'
  BY NextRate DEF SInv
<1>1. CASE \E n \in 1 .. Frame : Elapse(n)
  BY <1>1, ElapseSlack
<1>2. CASE CpuAccess \/ VsyncHook \/ PreventOverflow
  BY <1>2, CpuAccessSlack, VsyncHookSlack, PreventOverflowSlack
<1>3. CASE \E ds \in SUBSET Drives \ {{}} : TrueEmulationOn(ds)
  BY <1>3, TrueEmulationOnSlack
<1>4. CASE \E d \in Drives : SetSpeed(d) \/ SetType(d) \/ SetIdling(d)
  BY <1>4, SetSpeedSlack, SetTypeSlack, SetIdlingSlack
<1>5. CASE Disable \/ MachineReset \/ ReadSnapshot
  BY <1>5, DisableSlack, MachineResetSlack, ReadSnapshotSlack
<1>6. CASE UNCHANGED vars
  BY <1>6, StutterSlack
<1> QED
  BY <1>1, <1>2, <1>3, <1>4, <1>5, <1>6 DEF Next

(* While a drive is run its clock goes back by what its guard takes off and in no
   other way, as drivecpu_prevent_clk_overflow promises: what a drive can be given
   in a frame fits in what the guard leaves free. *)
THEOREM OnlyTheGuard == Spec => TurnedBackByGuard
<1>1. Spec => []SInv
  BY InitSlack, NextSlack, PTL DEF Spec
<1>2. ASSUME SInv, CpuAccess \/ VsyncHook \/ PreventOverflow PROVE TurnsBack
  BY <1>2, CpuAccessSlack, VsyncHookSlack, PreventOverflowSlack
<1>3. SInv /\ [Next]_vars =>
          [(CpuAccess \/ VsyncHook \/ PreventOverflow) =>
             \A d \in Drives \ idled :
                dr'[d].clk < dr[d].clk => dr'[d].clk + DriveSub >= dr[d].clk]_vars
  BY <1>2 DEF TurnsBack
<1> QED
  BY <1>1, <1>3, PTL DEF Spec, TurnedBackByGuard
=============================================================================
