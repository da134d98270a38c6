----------------------------- MODULE InterruptPins ----------------------------
(***************************************************************************)
(* What the interrupt logic promises to whoever pulls the two pins of the  *)
(* CPU, with no counters, no clocks and no flag word.  IRQ is a level that *)
(* the CPU may also see for a moment after its end; NMI is an edge: pulling *)
(* a line that nobody pulls arms the latch, once, and serving the NMI, or  *)
(* a reset, disarms it.                                                    *)
(***************************************************************************)

VARIABLES level,    \* some source pulls IRQ
          pulse,    \* the CPU still has an IRQ to look at
          line,     \* some source pulls NMI
          latch,    \* an edge of NMI has not been served
          saved     \* the pins in the last snapshot

pvars == <<level, pulse, line, latch, saved>>
irqPin == <<level, pulse>>
nmiPin == <<line, latch>>

Quiet == [level |-> FALSE, pulse |-> FALSE, line |-> FALSE, latch |-> FALSE]
Pins  == [level |-> level, pulse |-> pulse, line |-> line, latch |-> latch]
Become(p) == /\ level' = p.level /\ pulse' = p.pulse
             /\ line'  = p.line  /\ latch' = p.latch

PInit == Pins = Quiet /\ saved = Quiet

PullIrq    == level' = TRUE /\ pulse' = TRUE /\ UNCHANGED <<nmiPin, saved>>
ReleaseIrq == level' = FALSE /\ UNCHANGED <<pulse, nmiPin, saved>>
Resample   == (level \/ pulse) /\ pulse' = TRUE /\ UNCHANGED <<level, nmiPin, saved>>
Forget     == pulse' = FALSE /\ UNCHANGED <<level, nmiPin, saved>>

Edge       == ~line /\ line' = TRUE /\ latch' = TRUE /\ UNCHANGED <<irqPin, saved>>
ReleaseNmi == line' = FALSE /\ UNCHANGED <<latch, irqPin, saved>>
ServeNmi   == latch /\ latch' = FALSE /\ UNCHANGED <<line, irqPin, saved>>

(* A snapshot written while a reset waits is one of a machine in reset. *)
PReset == Become(Quiet) /\ saved' \in {saved, Quiet}
PSave  == saved' = Pins /\ UNCHANGED <<irqPin, nmiPin>>
PLoad  == Become(saved) /\ UNCHANGED saved

PNext == \/ PullIrq \/ ReleaseIrq \/ Resample \/ Forget
         \/ Edge \/ ReleaseNmi \/ ServeNmi
         \/ PReset \/ PSave \/ PLoad

PSpec == PInit /\ [][PNext]_pvars
=============================================================================
