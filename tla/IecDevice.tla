------------------------------ MODULE IecDevice -------------------------------
(***************************************************************************)
(* A virtual device on the serial bus (serial/serial-iec-device.c): the    *)
(* state machine that follows the three lines, once for every access of    *)
(* the computer to its port, as a listener, a talker or under ATN.         *)
(* Lines are TRUE when nobody pulls them.  A byte is the set of its bits   *)
(* that are 1, so that 0 is {}; a deadline is what is left until it.       *)
(***************************************************************************)
EXTENDS FsDrive

CONSTANTS NBits,                        \* 8, the bits of a byte
          UNLISTEN, UNTALK,             \* 0x3f and 0x5f under ATN
          LISTEN(_), TALK(_),           \* 0x20 + d and 0x40 + d under ATN
          T60, T80, T100, T200, T1000   \* US2CYCLES of these

Byte == SUBSET (0 .. NBits - 1)

ASSUME IecAssumption ==
    /\ {NumDevs, NBits, NameLength, T60, T80, T100, T200, T1000} \subseteq Nat \ {0}
    /\ {DATA, CLOSE, OPEN, UNLISTEN, UNTALK} \subseteq Byte \ {{}} /\ UNLISTEN # UNTALK
    /\ DATA # CLOSE /\ DATA # OPEN /\ CLOSE # OPEN
    /\ \A d \in Devs : {LISTEN(d), TALK(d)} \subseteq Byte \ {{}, UNLISTEN, UNTALK}
    /\ \A d, e \in Devs : LISTEN(d) # TALK(e)
    /\ \A d, e \in Devs : d # e => LISTEN(d) # LISTEN(e) /\ TALK(d) # TALK(e)
    /\ File \in Seq(Byte)

(* The order of these times. *)
ASSUME TimeAssumption == T60 <= T80 /\ T80 <= T100 /\ T100 <= T200 /\ 2 * T200 <= T1000

(* P_BITn and P_BITnw are "BIT" and "BITw" with the field bit. *)
States == {"PRE0", "PRE1", "PRE2", "READY", "EOI", "EOIw", "BIT", "BITw",
           "DONE0", "DONE1", "FRAMEERR0", "FRAMEERR1"}

(* atn, listening and talking are the bits of flags, clk and data the lines the
   device leaves alone. *)
Device == [enabled : BOOLEAN, atn : BOOLEAN, listening : BOOLEAN, talking : BOOLEAN,
           state : States, bit : 0 .. NBits - 1, byte : Byte,
           primary : Byte, secondary : Byte, secondary_prev : Byte,
           st : {SERIAL_OK, SERIAL_ERROR, SERIAL_EOF}, timeout : 0 .. T1000,
           clk : BOOLEAN, data : BOOLEAN]

NewDevice == [enabled |-> TRUE, atn |-> FALSE, listening |-> FALSE, talking |-> FALSE,
              state |-> "PRE0", bit |-> 0, byte |-> {},
              primary |-> {}, secondary |-> {}, secondary_prev |-> {},
              st |-> SERIAL_OK, timeout |-> 0, clk |-> TRUE, data |-> TRUE]

Bit(b, k)        == k \in b
WithBit(b, k, v) == IF v THEN b \cup {k} ELSE b \ {k}

Lines(r, clk, data) == [r EXCEPT !.clk = clk, !.data = data]
Goto(r, state)      == [r EXCEPT !.state = state]
After(r, time)      == [r EXCEPT !.timeout = time]
Free(r)             == Lines(r, TRUE, TRUE)

(* w is what an access changes: the devices dev, the file side fs, and two
   histories, the bytes handed to the file side and those it gave. *)
Put(w, d, r) == [w EXCEPT !.dev[d] = r]
-----------------------------------------------------------------------------
(* The falling flank on ATN. *)
Attention(r) ==
    Goto(After([Lines(r, TRUE, FALSE) EXCEPT !.atn = TRUE, !.primary = {}, !.secondary = {},
                                             !.secondary_prev = r.secondary], T100), "PRE0")

(* The command that the two bytes under ATN were, given to the file side. *)
Command(w, d) ==
    LET r == w.dev[d]
    IN  CASE r.secondary = DATA  -> [w EXCEPT !.fs = SerialCommand(@, d, DATA)]
          [] r.secondary = CLOSE -> [w EXCEPT !.fs = SerialCommand(@, d, CLOSE),
                                              !.dev[d].st = SERIAL_OK]
          [] r.secondary = OPEN  -> [w EXCEPT !.fs = FsOpen(SetSt(@, SERIAL_OK), d),
                                              !.dev[d].st = SERIAL_OK]
          [] OTHER               -> w

(* LISTEN, refused when the channel has a status, and TALK. *)
ToListen(r) ==
    LET heard == [Lines(r, TRUE, FALSE) EXCEPT !.talking = FALSE]
    IN  IF r.st = SERIAL_OK THEN [heard EXCEPT !.listening = TRUE, !.state = "PRE1"] ELSE heard

(* Mutated form: a device that listened goes on listening. *)
ToTalkListening(r) == [r EXCEPT !.talking = TRUE, !.state = "PRE0"]

ToTalk(r) == [r EXCEPT !.listening = FALSE, !.talking = TRUE, !.state = "PRE0"]

(* UNLISTEN: after an OPEN the file is opened now. *)
Unlistened(w, d) ==
    LET fs == FsUnlisten(SetSt(w.fs, w.dev[d].st), d, w.dev[d].secondary_prev)
    IN  [w EXCEPT !.fs = fs, !.dev[d].listening = FALSE, !.dev[d].st = fs.st]

(* Both are read under ATN only, and set again by its falling flank. *)
Forget(r) == [r EXCEPT !.primary = {}, !.secondary_prev = {}]

(* The rising flank on ATN: what the device is told, and whether it then has
   anything to do with the lines. *)
Told(w, d) == Put(w, d, IF w.dev[d].primary = LISTEN(d) THEN ToListen(w.dev[d])
                                                        ELSE ToTalk(w.dev[d]))

Addressed(w, d) ==
    LET r == w.dev[d]
    IN  CASE r.primary \in {LISTEN(d), TALK(d)} -> Told(Command(w, d), d)
          [] r.primary = UNLISTEN /\ r.listening -> Unlistened(w, d)
          [] r.primary = UNTALK /\ r.talking -> [w EXCEPT !.dev[d].talking = FALSE]
          [] OTHER -> w

Settled(w, d) ==
    Put(w, d, Forget(IF ~w.dev[d].listening /\ ~w.dev[d].talking THEN Free(w.dev[d])
                     ELSE w.dev[d]))

Released(w, d) == Settled(Addressed([w EXCEPT !.dev[d].atn = FALSE], d), d)

Flanks(w, d, bus) ==
    IF ~w.dev[d].atn /\ ~bus.atn THEN Put(w, d, Attention(w.dev[d]))
    ELSE IF w.dev[d].atn /\ bus.atn THEN Released(w, d)
    ELSE w
-----------------------------------------------------------------------------
(* The last bit of a byte under ATN has been received.  The byte is kept in the
   code until the bits of the next one overwrite it. *)
CommandByte(r, d) ==
    LET s == [r EXCEPT !.primary   = IF r.primary = {} THEN r.byte ELSE @,
                       !.secondary = IF r.primary # {} /\ @ = {} THEN r.byte ELSE @,
                       !.byte      = {}]
    IN  IF s.primary \in {UNLISTEN, UNTALK, LISTEN(d), TALK(d)}
        THEN Goto(Lines(s, TRUE, FALSE), "PRE2") ELSE Goto(s, "DONE0")

(* Mutated form: a byte that could not be written is acknowledged. *)
DataByteAcked(w, d) ==
    LET r  == w.dev[d]
        fs == FsWrite(SetSt(w.fs, r.st), d, r.byte)
    IN  [w EXCEPT !.fs = fs,
                  !.taken = IF fs.st = SERIAL_OK THEN Append(@, r.byte) ELSE @,
                  !.dev[d] = Goto(Lines([r EXCEPT !.st = fs.st, !.byte = {}], TRUE, FALSE), "PRE2")]

(* The last bit of a byte of data has been received. *)
DataByte(w, d) ==
    LET r  == w.dev[d]
        fs == FsWrite(SetSt(w.fs, r.st), d, r.byte)
        s  == [r EXCEPT !.st = fs.st, !.byte = {}]
    IN  [w EXCEPT !.fs = fs,
                  !.taken = IF fs.st = SERIAL_OK THEN Append(@, r.byte) ELSE @,
                  !.dev[d] = IF fs.st = SERIAL_OK THEN Goto(Lines(s, TRUE, FALSE), "PRE2")
                             ELSE Goto(s, "DONE0")]

(* Under ATN, or listening: all but the end of a byte of data concerns the
   device alone. *)
Listened(r, d, bus) ==
    CASE r.state = "PRE0" /\ r.timeout = 0 -> Goto(r, "PRE1")
      [] r.state = "PRE1" /\ ~bus.clk -> Goto(r, "PRE2")
      [] r.state = "PRE2" /\ bus.clk -> Goto(After(Free(r), T200), "READY")
      [] r.state \in {"READY", "EOIw"} /\ ~bus.clk -> [Goto(r, "BIT") EXCEPT !.bit = 0, !.byte = {}]
      [] r.state = "READY" /\ bus.clk /\ ~r.atn /\ r.timeout = 0 ->
            Goto(After(Lines(r, TRUE, FALSE), T60), "EOI")
      [] r.state = "EOI" /\ r.timeout = 0 -> Goto(Free(r), "EOIw")
      [] r.state = "BIT" /\ bus.clk ->
            [Goto(r, "BITw") EXCEPT !.byte = WithBit(@, r.bit, bus.data)]
      [] r.state = "BITw" /\ ~bus.clk /\ r.bit < NBits - 1 -> [Goto(r, "BIT") EXCEPT !.bit = @ + 1]
      [] r.state = "BITw" /\ ~bus.clk /\ r.bit = NBits - 1 /\ r.atn -> CommandByte(r, d)
      [] OTHER -> r

DataIsHere(r, bus) == r.state = "BITw" /\ ~bus.clk /\ r.bit = NBits - 1 /\ ~r.atn

ListenStep(w, d, bus) == IF DataIsHere(w.dev[d], bus) THEN DataByte(w, d)
                         ELSE Put(w, d, Listened(w.dev[d], d, bus))
-----------------------------------------------------------------------------
(* The talker's READY: the receiver is ready, the next byte is fetched. *)
Fetch(w, d) ==
    LET r  == w.dev[d]
        b  == NextByte(w.fs, d)
        fs == FsRead(SetSt(w.fs, r.st), d)
        s  == [r EXCEPT !.byte = b, !.st = fs.st]
    IN  [w EXCEPT !.fs = fs,
                  !.gave = IF fs.st = SERIAL_ERROR THEN @
                           ELSE Append(@, [byte |-> b, last |-> fs.st = SERIAL_EOF]),
                  !.dev[d] = CASE fs.st = SERIAL_OK  -> [Goto(After(s, 0), "BIT") EXCEPT !.bit = 0]
                               [] fs.st = SERIAL_EOF -> Goto(s, "EOI")
                               [] OTHER              -> [s EXCEPT !.talking = FALSE]]

(* Mutated form: the last byte leaves the clock line as it is. *)
AcknowledgedHeld(r) ==
    IF r.st = SERIAL_EOF THEN [r EXCEPT !.talking = FALSE, !.st = SERIAL_OK, !.byte = {}]
    ELSE [Goto(After(r, 0), "PRE1") EXCEPT !.byte = {}]

(* The talker's DONE1: acknowledged, or not in time. *)
Acknowledged(r) ==
    IF r.st = SERIAL_EOF THEN [Free(r) EXCEPT !.talking = FALSE, !.st = SERIAL_OK, !.byte = {}]
    ELSE [Goto(After(r, 0), "PRE1") EXCEPT !.byte = {}]

(* Mutated form: a bit is sent after the last one. *)
TalkBitMore(r, bus) ==
    IF r.state = "BIT"
    THEN Goto(After(Lines(r, FALSE, Bit(r.byte, r.bit)), T60), "BITw")
    ELSE LET s == After(Lines(r, TRUE, bus.data), T60)
         IN  IF r.bit = NBits THEN Goto(s, "DONE0") ELSE [Goto(s, "BIT") EXCEPT !.bit = @ + 1]

(* BIT and BITw put the bit out with the clock pulled and let the clock go;
   P_BITn after the last bit is P_DONE0. *)
TalkBit(r, bus) ==
    IF r.state = "BIT"
    THEN Goto(After(Lines(r, FALSE, Bit(r.byte, r.bit)), T60), "BITw")
    ELSE LET s == After(Lines(r, TRUE, bus.data), T60)
         IN  IF r.bit = NBits - 1 THEN Goto(s, "DONE0")
             ELSE [Goto(s, "BIT") EXCEPT !.bit = @ + 1]

(* Talking: all but the fetching of a byte concerns the device alone. *)
Talked(r, bus) ==
    CASE r.state = "PRE0" /\ bus.clk -> Goto(After(Lines(r, FALSE, TRUE), T80), "PRE1")
      [] r.state = "PRE1" /\ r.timeout = 0 -> Goto(Free(r), "READY")
      [] r.state = "EOI" /\ ~bus.data -> Goto(r, "EOIw")
      [] r.state = "EOIw" /\ bus.data -> [Goto(After(r, 0), "BIT") EXCEPT !.bit = 0]
      [] r.state \in {"BIT", "BITw"} /\ r.timeout = 0 -> TalkBit(r, bus)
      [] r.state = "DONE0" /\ r.timeout = 0 -> Goto(After(Lines(r, FALSE, TRUE), T1000), "DONE1")
      [] r.state = "DONE1" /\ ~bus.data -> Acknowledged(r)
      [] r.state = "DONE1" /\ bus.data /\ r.timeout = 0 -> Goto(After(Free(r), T100), "FRAMEERR0")
      [] r.state = "FRAMEERR0" /\ r.timeout = 0 -> Goto(Lines(r, FALSE, TRUE), "FRAMEERR1")
      [] r.state = "FRAMEERR1" /\ ~bus.data -> Goto(After(r, 0), "PRE1")
      [] OTHER -> r

Fetches(r, bus) == bus.data /\ (r.state = "READY" \/ (r.state = "PRE1" /\ r.timeout # 0))

TalkStep(w, d, bus) == IF Fetches(w.dev[d], bus) THEN Fetch(w, d)
                       ELSE Put(w, d, Talked(w.dev[d], bus))
-----------------------------------------------------------------------------
(* The lines all sides leave alone, iecbus.drv_port. *)
Bus(w, cpu) == [atn  |-> cpu.atn,
                clk  |-> cpu.clk  /\ \A d \in Devs : w.dev[d].clk,
                data |-> cpu.data /\ \A d \in Devs : w.dev[d].data]

(* serial_iec_device_exec_main, and serial_iec_device_exec for all devices in
   the order of their numbers, each seeing what those before it did.  The status
   that the file side left is not read again. *)
Act(w, d, bus) == IF w.dev[d].atn \/ w.dev[d].listening THEN ListenStep(w, d, bus)
                  ELSE IF w.dev[d].talking THEN TalkStep(w, d, bus)
                  ELSE w

ExecMain(w, d, bus) == Act(Flanks(w, d, bus), d, bus)

ExecOne(w, d, cpu) == IF w.dev[d].enabled THEN ExecMain(w, d, Bus(w, cpu)) ELSE w

Exec(w, cpu) ==
    LET done[k \in 0 .. NumDevs] == IF k = 0 THEN w ELSE ExecOne(done[k - 1], k, cpu)
    IN  [done[NumDevs] EXCEPT !.fs.st = SERIAL_OK]

(* n units of time pass. *)
Aged(dev, n) == [d \in Devs |-> After(dev[d], IF dev[d].timeout > n THEN dev[d].timeout - n ELSE 0)]

(* serial_iec_device_reset, _enable and _disable. *)
Cleared(r) == [After(r, 0) EXCEPT !.atn = FALSE, !.listening = FALSE, !.talking = FALSE,
                                  !.st = SERIAL_OK]
ResetDevice(r)   == IF r.enabled THEN Cleared(Free(r)) ELSE r
EnableDevice(r)  == [Cleared(r) EXCEPT !.enabled = TRUE]
DisableDevice(r) == [After(Free(r), 0) EXCEPT !.enabled = FALSE]
=============================================================================
