------------------------------- MODULE IecBus ---------------------------------
(***************************************************************************)
(* The virtual devices and the computer on the serial bus.  The devices    *)
(* are run when the computer accesses its port and not otherwise           *)
(* (iecbus.c: iecbus_cpu_read_conf3, iecbus_cpu_write_conf3): every step   *)
(* below is one access, for which the devices are run first, with the      *)
(* lines as they were before.  The computer is the serial code of its      *)
(* kernal, of which this repository has the binary image only.             *)
(***************************************************************************)
EXTENDS IecDevice

CONSTANTS
    Sessions,       \* bound: the jobs the computer has, and for which devices
    BreakAt,        \* bound: where a session is broken off
    MaxBreaks,      \* bound: how often
    Switchable,     \* bound: the devices the user switches on and off
    Disks,          \* the files the devices may have, one each
    Delays,         \* the times between two accesses
    Late,           \* the time after which an interrupted computer answers
    TEOI,           \* the time the kernal waits for the clock to go low
    Patience,       \* the longest a loop of the kernal is to wait for a device
    Name, Msg       \* the bytes of a name and the longest message

Jobs == {"open", "write", "read", "close"}

ASSUME BusAssumption ==
    /\ Disks \subseteq [Devs -> {"none", "read", "write"}]
    /\ Delays \subseteq Nat \ {0} /\ \A n \in Delays : n < T200
    /\ Sessions \subseteq Jobs \X Devs /\ Switchable \subseteq Devs
    /\ {Late, TEOI, Patience} \subseteq Nat \ {0} /\ T1000 < Patience /\ T200 <= TEOI /\ TEOI < Patience
    /\ Name \in Seq(Byte) /\ Msg \in Seq(Byte)

VARIABLES
    dev, fs,         \* the devices and the file side
    cpu,             \* the lines as the computer leaves them: atn, clk, data
    pc,              \* where the kernal is
    job,       \* what it does, and to which device
    cmds, msg,       \* the bytes to send under ATN and after
    bit, rx,         \* the bit of the byte under way, and what was read of it
    wait,            \* how long it has waited
    eoi,             \* the talker signalled its last byte
    late,            \* history: the computer answered late in this session
    breaks,          \* how often that happened
    stray,           \* history: what of a name a broken-off session left in the buffer
    sent, taken, gave, recv   \* histories of the data of this session

kernal == <<cpu, pc, job, cmds, msg, bit, rx, wait, eoi>>
vars   == <<dev, fs, kernal, late, breaks, stray, sent, taken, gave, recv>>

(* The devices after an access n units after the last one. *)
World(n) == Exec([dev |-> Aged(dev, n), fs |-> Quiet(fs), taken |-> taken, gave |-> gave], cpu)

(* The devices are run; see' is what the computer can read then. *)
Moved(w)  == dev' = w.dev /\ fs' = w.fs
Noted(w)  == Moved(w) /\ taken' = w.taken /\ gave' = w.gave
Run(n)    == Noted(World(n)) /\ UNCHANGED <<stray, breaks>>

ClkHigh  == cpu.clk  /\ \A d \in Devs : dev'[d].clk
DataHigh == cpu.data /\ \A d \in Devs : dev'[d].data

Go(label)     == pc' = label
Set(a, c, d)  == cpu' = [atn |-> a, clk |-> c, data |-> d]

(* A turn of a loop that waits for a line. *)
Poll(n, seen, label) ==
    IF seen THEN Go(label) /\ wait' = 0
    ELSE UNCHANGED pc /\ wait' = IF wait + n < Patience THEN wait + n ELSE Patience
-----------------------------------------------------------------------------
Init == /\ \E off \in SUBSET Switchable :
              dev = [d \in Devs |-> [NewDevice EXCEPT !.enabled = d \notin off]]
        /\ \E disk \in Disks : fs = FsInit(disk)
        /\ cpu = [atn |-> TRUE, clk |-> TRUE, data |-> TRUE]
        /\ pc = "idle" /\ job = "unlisten"
        /\ cmds = <<>> /\ msg = <<>> /\ bit = 0 /\ rx = {} /\ wait = 0 /\ eoi = FALSE
        /\ late = FALSE /\ breaks = 0 /\ stray = <<>>
        /\ sent = <<>> /\ taken = <<>> /\ gave = <<>> /\ recv = <<>>

(* No session: nothing is kept of the last one. *)
Idle == /\ Set(TRUE, TRUE, TRUE) /\ Go("idle")
        /\ job' = "unlisten" /\ cmds' = <<>> /\ msg' = <<>> /\ bit' = 0 /\ rx' = {}
        /\ wait' = 0 /\ eoi' = FALSE /\ late' = FALSE
        /\ sent' = <<>> /\ taken' = <<>> /\ gave' = <<>> /\ recv' = <<>>

CommandsOf(j, d) == CASE j = "open"     -> <<LISTEN(d), OPEN>>
                      [] j = "write"    -> <<LISTEN(d), DATA>>
                      [] j = "close"    -> <<LISTEN(d), CLOSE>>
                      [] j = "read"     -> <<TALK(d), DATA>>

Messages(j) == CASE j = "open"  -> {Name}
                 [] j = "write" -> {SubSeq(Msg, 1, n) : n \in 1 .. Len(Msg)}
                 [] OTHER       -> {<<>>}

(* ATN is pulled, the session begins; then the clock, with an access that shows
   the devices ATN before the millisecond starts. *)
Start(j, d) ==
    /\ pc = "idle"
    /\ \E n \in Delays : Moved(World(n))
    /\ job' = j /\ cmds' = CommandsOf(j, d) /\ msg' \in Messages(j)
    /\ Set(FALSE, TRUE, TRUE) /\ Go("attend")
    /\ bit' = 0 /\ rx' = {} /\ wait' = 0 /\ eoi' = FALSE /\ late' = FALSE
    /\ UNCHANGED <<stray, breaks>>
    /\ sent' = <<>> /\ taken' = <<>> /\ gave' = <<>> /\ recv' = <<>>

Attend == /\ pc = "attend" /\ (\E n \in Delays : Run(n)) /\ Go("hold")
          /\ cpu' = [cpu EXCEPT !.clk = FALSE]
          /\ UNCHANGED <<job, cmds, msg, bit, rx, wait, eoi, late, sent, recv>>

(* A millisecond passes under ATN; then the port is looked at twice, and a bus
   on which nobody pulls the data line has no device. *)
Hold == /\ pc = "hold" /\ Run(T1000) /\ Go("look")
        /\ UNCHANGED <<cpu, job, cmds, msg, bit, rx, wait, eoi, late, sent, recv>>

Look == /\ pc = "look" /\ (\E n \in Delays : Run(n)) /\ Go("present")
        /\ UNCHANGED <<cpu, job, cmds, msg, bit, rx, wait, eoi, late, sent, recv>>

Present == /\ pc = "present" /\ (\E n \in Delays : Run(n))
           /\ Go(IF DataHigh THEN "finish" ELSE "offer")
           /\ UNCHANGED <<cpu, job, cmds, msg, bit, rx, wait, eoi, late, sent, recv>>

(* Sending a byte: the clock is let go, the listeners let the data line go; the
   last byte of a message waits until they have pulled it and let it go again. *)
Offer == /\ pc = "offer" /\ (\E n \in Delays : Run(n)) /\ Go("await")
         /\ cpu' = [cpu EXCEPT !.clk = TRUE]
         /\ UNCHANGED <<job, cmds, msg, bit, rx, wait, eoi, late, sent, recv>>

Last == cmds = <<>> /\ Len(msg) = 1

Await == /\ \E n \in Delays :
               /\ Run(n)
               /\ \/ pc = "await" /\ Poll(n, DataHigh, IF Last THEN "eoi1" ELSE "begin")
                  \/ pc = "eoi1"  /\ Poll(n, ~DataHigh, "eoi2")
                  \/ pc = "eoi2"  /\ Poll(n, DataHigh, "begin")
         /\ UNCHANGED <<cpu, job, cmds, msg, bit, rx, eoi, late, sent, recv>>

Begin == /\ pc = "begin" /\ (\E n \in Delays : Run(n)) /\ Go("bit")
         /\ cpu' = [cpu EXCEPT !.clk = FALSE]
         /\ bit' = 0
         /\ sent' = IF cmds = <<>> THEN Append(sent, Head(msg)) ELSE sent
         /\ UNCHANGED <<job, cmds, msg, rx, wait, eoi, late, recv>>

Sending == IF cmds # <<>> THEN Head(cmds) ELSE Head(msg)

(* The bit is put out, the clock is let go, and pulled again. *)
PutBit == /\ pc = "bit" /\ (\E n \in Delays : Run(n)) /\ Go("valid")
          /\ cpu' = [cpu EXCEPT !.data = Bit(Sending, bit)]
          /\ UNCHANGED <<job, cmds, msg, bit, rx, wait, eoi, late, sent, recv>>

Valid == /\ pc = "valid" /\ (\E n \in Delays : Run(n)) /\ Go("pull")
         /\ cpu' = [cpu EXCEPT !.clk = TRUE]
         /\ UNCHANGED <<job, cmds, msg, bit, rx, wait, eoi, late, sent, recv>>

Pull == /\ pc = "pull" /\ (\E n \in Delays : Run(n))
        /\ cpu' = [cpu EXCEPT !.clk = FALSE, !.data = TRUE]
        /\ bit' = bit + 1 /\ wait' = 0
        /\ Go(IF bit' = NBits THEN "ack" ELSE "bit")
        /\ UNCHANGED <<job, cmds, msg, rx, eoi, late, sent, recv>>

(* What follows a byte that was acknowledged. *)
Following == IF cmds' # <<>> \/ (msg' # <<>> /\ cmds = <<>>) THEN "offer"
             ELSE IF cmds = <<>> THEN "off"
             ELSE CASE job = "read" -> "turn1"
                    [] job = "unlisten" -> "finish"
                    [] OTHER -> "release"

Ack == /\ pc = "ack"
       /\ \E n \in Delays :
             /\ Run(n)
             /\ IF ~DataHigh
                THEN /\ cmds' = IF cmds # <<>> THEN Tail(cmds) ELSE <<>>
                     /\ msg' = IF cmds # <<>> THEN msg ELSE Tail(msg)
                     /\ Go(Following) /\ wait' = 0
                ELSE /\ Go(IF wait + n >= T1000 THEN "finish" ELSE "ack")
                     /\ wait' = IF wait + n >= T1000 THEN 0 ELSE wait + n
                     /\ UNCHANGED <<cmds, msg>>
       /\ UNCHANGED <<cpu, job, bit, rx, eoi, late, sent, recv>>

(* ATN is let go: the devices that were addressed listen. *)
Release == /\ pc = "release" /\ (\E n \in Delays : Run(n))
           /\ cpu' = [cpu EXCEPT !.atn = TRUE]
           /\ Go(IF msg = <<>> THEN "off" ELSE "present")
           /\ UNCHANGED <<job, cmds, msg, bit, rx, wait, eoi, late, sent, recv>>

(* UNLISTEN or UNTALK. *)
Off == /\ pc = "off" /\ (\E n \in Delays : Run(n)) /\ Go("attend")
       /\ Set(FALSE, FALSE, TRUE)
       /\ cmds' = <<IF job = "read" THEN UNTALK ELSE UNLISTEN>>
       /\ job' = "unlisten" /\ msg' = <<>>
       /\ UNCHANGED <<bit, rx, wait, eoi, late, sent, recv>>

(* The end, also after an error: ATN is let go, then the other lines. *)
Finish == /\ pc = "finish" /\ (\E n \in Delays : Run(n)) /\ Go("letgo")
          /\ cpu' = [cpu EXCEPT !.atn = TRUE]
          /\ UNCHANGED <<job, cmds, msg, bit, rx, wait, eoi, late, sent, recv>>

LetGo == /\ pc = "letgo"
         /\ \E n \in Delays : Moved(World(n))
         /\ stray' = IF fs'.SerialBuffer = <<>> THEN <<>> ELSE stray
         /\ UNCHANGED breaks
         /\ Idle
-----------------------------------------------------------------------------
(* The turnaround: data pulled, ATN and the clock let go; the talker pulls it. *)
Turn == /\ \E n \in Delays : Run(n)
        /\ \/ pc = "turn1" /\ cpu' = [cpu EXCEPT !.data = FALSE] /\ Go("turn2")
           \/ pc = "turn2" /\ cpu' = [cpu EXCEPT !.atn = TRUE] /\ Go("turn3")
           \/ pc = "turn3" /\ cpu' = [cpu EXCEPT !.clk = TRUE] /\ Go("turned")
        /\ UNCHANGED <<job, cmds, msg, bit, rx, wait, eoi, late, sent, recv>>

(* Receiving a byte: the talker lets the clock go, the computer the data line;
   the clock stays high when it was the last byte, which the computer answers by
   pulling the data line once, or when the talker has nothing. *)
Ready == /\ \E n \in Delays :
               /\ Run(n)
               /\ \/ pc = "turned" /\ Poll(n, ~ClkHigh, "ready")
                  \/ pc = "ready"  /\ Poll(n, ClkHigh, "accept")
         /\ UNCHANGED <<cpu, job, cmds, msg, bit, rx, eoi, late, sent, recv>>

Accept == /\ pc = "accept" /\ (\E n \in Delays : Run(n)) /\ Go("clock")
          /\ cpu' = [cpu EXCEPT !.data = TRUE]
          /\ wait' = 0 /\ bit' = 0 /\ rx' = {}
          /\ UNCHANGED <<job, cmds, msg, eoi, late, sent, recv>>

ClockLow == /\ pc = "clock"
            /\ \E n \in Delays :
                  /\ Run(n)
                  /\ Go(CASE ~ClkHigh -> "high"
                          [] ClkHigh /\ wait + n >= TEOI -> IF eoi THEN "finish" ELSE "answer"
                          [] OTHER -> "clock")
                  /\ wait' = IF ClkHigh /\ wait + n < TEOI THEN wait + n ELSE 0
            /\ UNCHANGED <<cpu, job, cmds, msg, bit, rx, eoi, late, sent, recv>>

Answer == /\ pc = "answer" /\ (\E n \in Delays : Run(n)) /\ Go("accept")
          /\ cpu' = [cpu EXCEPT !.data = FALSE]
          /\ eoi' = TRUE
          /\ UNCHANGED <<job, cmds, msg, bit, rx, wait, late, sent, recv>>

(* The bits: read while the clock is high. *)
GetBit == /\ pc = "high"
          /\ \E n \in Delays : Run(n) /\ Poll(n, ClkHigh, "low")
          /\ IF ClkHigh THEN rx' = WithBit(rx, bit, DataHigh) /\ bit' = bit + 1
                        ELSE UNCHANGED <<rx, bit>>
          /\ UNCHANGED <<cpu, job, cmds, msg, eoi, late, sent, recv>>

Low == /\ pc = "low"
       /\ \E n \in Delays :
             Run(n) /\ Poll(n, ~ClkHigh, IF bit = NBits THEN "answered" ELSE "high")
       /\ UNCHANGED <<cpu, job, cmds, msg, bit, rx, eoi, late, sent, recv>>

(* The byte is acknowledged, in time or not; the program goes on or stops. *)
Answered == /\ pc = "answered"
            /\ \E n \in Delays \cup {Late} : Run(n) /\ late' = (late \/ n = Late)
            /\ cpu' = [cpu EXCEPT !.data = FALSE]
            /\ recv' = Append(recv, [byte |-> rx, last |-> eoi])
            /\ bit' = 0 /\ rx' = {}
            /\ \E next \in {"ready", "off"} : (eoi => next = "off") /\ Go(next)
            /\ UNCHANGED <<job, cmds, msg, wait, eoi, sent>>
-----------------------------------------------------------------------------
Break == /\ pc \in BreakAt /\ breaks < MaxBreaks /\ breaks' = breaks + 1
         /\ stray' = fs'.SerialBuffer
         /\ Idle

(* RUN/STOP and RESTORE: the computer lets go of the bus and the devices are
   not told.  Bound: not while a device talks or is told to. *)
Abandon == /\ UNTALK \notin {cmds[k] : k \in 1 .. Len(cmds)}
           /\ job # "read" /\ \A d \in Devs : ~dev[d].talking
           /\ UNCHANGED dev /\ fs' = Quiet(fs)
           /\ Break

(* machine_reset: serial_traps_reset. *)
Reset == /\ dev' = [d \in Devs |-> ResetDevice(dev[d])]
         /\ fs' = Quiet(FsReset(fs))
         /\ Break

(* The resource IECDeviceN.  Bound: changed between sessions, and as
   seldom as sessions are broken off. *)
Switch(d) == /\ pc = "idle" /\ breaks < MaxBreaks /\ breaks' = breaks + 1
             /\ dev' = [dev EXCEPT ![d] = IF @.enabled THEN DisableDevice(@) ELSE EnableDevice(@)]
             /\ fs' = Quiet(fs)
             /\ UNCHANGED <<kernal, late, stray, sent, taken, gave, recv>>

Session == \/ Attend \/ Hold \/ Look \/ Present \/ Offer \/ Await \/ Begin \/ PutBit \/ Valid \/ Pull \/ Ack
           \/ Release \/ Off \/ Finish \/ LetGo \/ Turn \/ Ready \/ Accept \/ ClockLow \/ Answer
           \/ GetBit \/ Low \/ Answered

Next == \/ Session \/ Abandon \/ Reset
        \/ \E s \in Sessions : Start(s[1], s[2])
        \/ \E d \in Switchable : Switch(d)

Spec == Init /\ [][Next]_vars
-----------------------------------------------------------------------------
TypeOK == /\ dev \in [Devs -> Device]
          /\ cpu \in [atn : BOOLEAN, clk : BOOLEAN, data : BOOLEAN]
          /\ bit \in 0 .. NBits /\ rx \in Byte

(* A byte sent is taken by the file side once and in order, and a byte given is
   received once and in order, whatever the delays. *)
Bytes == INSTANCE SerialBus
ImplementsSerialBus == Bytes!SSpec

(* What a file gets is what this session has sent: the name to be opened with, as
   far as the buffer has room for it, and each byte of data once it was sent. *)
Fits(name) == SubSeq(name, 1, IF Len(name) < NameLength THEN Len(name) ELSE NameLength)

OnlyWhatIsSent == /\ fs'.opened \in {<<>>, Fits(sent)}
                  /\ fs'.put # <<>> => sent # <<>> /\ fs'.put = <<sent[Len(sent)]>>

(* That is so unless a session before was broken off in a name. *)
NameIsWhole == [][stray = <<>> => OnlyWhatIsSent]_vars

(* "iec_bus_unlisten will try to open the file with the filename that was received
   in between the OPEN and now": it opens what the buffer held before, too. *)
NameSinceOpen == [][fs'.opened \in {<<>>, Fits(fs.since)}]_vars

(* A device that is neither addressed nor under ATN leaves both lines alone, and
   only a talker pulls the clock. *)
BusIsFree ==
    \A d \in Devs :
       /\ ~dev[d].atn /\ ~dev[d].listening /\ ~dev[d].talking => dev[d].clk /\ dev[d].data
       /\ ~dev[d].clk => dev[d].talking /\ \A e \in Devs \ {d} : ~dev[e].talking

(* The kernal's loops have no way out but the line they wait for (but for the two
   it times itself): the devices answer each of them before Patience is over,
   unless the computer was late with an answer of its own. *)
AnsweredInTime == wait < Patience \/ late
=============================================================================
