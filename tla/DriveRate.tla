------------------------------ MODULE DriveRate -------------------------------
(***************************************************************************)
(* What the emulator promises of a drive's time, with no clock counters:   *)
(* while the computer goes on a drive that is switched on falls behind,    *)
(* and when it is run it gets exactly the cycles that belong to the time   *)
(* it fell behind, rate / One for each, the fraction being kept for the    *)
(* next time.  It stops with the first opcode that reaches what it was     *)
(* given; what that opcode takes more is held against it.                  *)
(***************************************************************************)
EXTENDS Integers

CONSTANTS NumDrives,     \* the number of drives
          One,           \* a rate of one drive cycle in a main cycle
          Rates,         \* the rates a drive can have
          Steps,         \* the numbers of main cycles between two accesses
          MaxOp,         \* the longest opcode of a drive
          ResetCycles,   \* what a reset takes of a drive
          SkipAfter      \* a lag that may be forgiven

Drives == 0 .. NumDrives - 1

VARIABLES on,       \* the drives that are emulated
          rate,     \* drive cycles for One main cycles
          lag,      \* main cycles a drive has not been run for
          frac,     \* the part of a cycle, in One, it is still owed
          ahead,    \* how many cycles more it has had than it was given
          restart   \* the drives whose reset is pending

rvars == <<on, rate, lag, frac, ahead, restart>>

Zero == [d \in Drives |-> 0]

RInit == /\ on = {} /\ restart = Drives
         /\ rate \in [Drives -> Rates]
         /\ lag = Zero /\ frac = Zero /\ ahead = Zero

Pass(n) == /\ lag' = [d \in Drives |-> IF d \in on THEN lag[d] + n ELSE 0]
           /\ UNCHANGED <<on, rate, frac, ahead, restart>>

(* The cycles drive d has too many once it has been given those that belong
   to n main cycles; where it ends if it is then run. *)
Balance(d, n) == ahead[d] - (frac[d] + n * rate[d]) \div One

Ends(d, n) ==
    LET b == Balance(d, n)
    IN  IF b >= 0 THEN {b}
        ELSE IF d \notin restart THEN 0 .. MaxOp - 1
        ELSE IF b + ResetCycles < 0 THEN 0 .. MaxOp - 1
        ELSE b + ResetCycles + 1 .. b + ResetCycles + MaxOp

(* The drives ds are run up to now; long lags may be forgiven. *)
Serve(ds) ==
    \E forgiven \in SUBSET {d \in ds : lag[d] > SkipAfter} :
       LET n(d) == IF d \in forgiven THEN 0 ELSE lag[d]
       IN  /\ frac' = [d \in Drives |-> IF d \in ds THEN (frac[d] + n(d) * rate[d]) % One
                                                    ELSE frac[d]]
           /\ ahead' \in [Drives -> Int]
           /\ \A d \in Drives : ahead'[d] \in IF d \in ds THEN Ends(d, n(d)) ELSE {ahead[d]}
           /\ lag' = [d \in Drives |-> IF d \in ds THEN 0 ELSE lag[d]]
           /\ restart' = restart \ {d \in ds : Balance(d, n(d)) < 0}
           /\ UNCHANGED <<on, rate>>

(* Drives that are switched on, off, exchanged or reset begin with no debt. *)
Fresh(ds) == /\ lag' = [d \in Drives |-> IF d \in ds THEN 0 ELSE lag[d]]
             /\ ahead' = [d \in Drives |-> IF d \in ds THEN 0 ELSE ahead[d]]

SwitchOn(ds)  == on' = ds /\ Fresh(Drives) /\ UNCHANGED <<rate, frac, restart>>
SwitchOff(ds) == on' = on \ ds /\ Fresh(ds) /\ UNCHANGED <<rate, frac, restart>>
Exchange(d)   == /\ on' \in {on \cup {d}} \cup (IF on = {} THEN {on} ELSE {})
                 /\ Fresh({d}) /\ restart' = restart \cup {d}
                 /\ (\E r \in Rates : rate' = [rate EXCEPT ![d] = r]) /\ UNCHANGED frac
Restart       == Fresh(Drives) /\ restart' = Drives /\ UNCHANGED <<on, rate, frac>>
SetRate(d)    == (\E r \in Rates : rate' = [rate EXCEPT ![d] = r])
                 /\ UNCHANGED <<on, lag, frac, ahead, restart>>

(* A snapshot brings drives that are in step, whatever they were before, at the
   rates that it names. *)
Load == /\ on' \in SUBSET Drives /\ restart' \in SUBSET Drives
        /\ lag' = Zero /\ ahead' = Zero
        /\ frac' \in [Drives -> 0 .. One - 1]
        /\ rate' \in [Drives -> Rates]

RNext == \/ \E n \in Steps : Pass(n)
         \/ \E ds \in SUBSET on : Serve(ds)
         \/ \E ds \in SUBSET Drives : SwitchOn(ds) \/ SwitchOff(ds)
         \/ \E d \in Drives : Exchange(d) \/ SetRate(d)
         \/ Restart \/ Load

RSpec == RInit /\ [][RNext]_rvars
=============================================================================
