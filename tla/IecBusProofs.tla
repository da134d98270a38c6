----------------------------- MODULE IecBusProofs -----------------------------
(***************************************************************************)
(* The serial bus for every number of virtual devices, every width of a    *)
(* byte and all times between two accesses.  All devices are run at each   *)
(* access of the computer, so that a session is a walk in step: for each   *)
(* place of the kernal the invariant says where the devices are.           *)
(***************************************************************************)
EXTENDS IecBus, SetInduction, SequenceTheorems

Status == {SERIAL_OK, SERIAL_ERROR, SERIAL_EOF}
Given  == [byte : Byte, last : BOOLEAN]

FileSide == [disk : [Devs -> {"none", "read", "write"}], isopen : [Devs -> 0 .. 2],
             chan : [Devs -> {"closed", "read", "write"}], pos : [Devs -> Nat \ {0}],
             SerialBuffer : Seq(Byte), st : Status,
             since : Seq(Byte), opened : Seq(Byte), put : Seq(Byte)]

Worlds == [dev : [Devs -> Device], fs : FileSide, taken : Seq(Byte), gave : Seq(Given)]

LEMMA Consts ==
    /\ NumDevs \in Nat /\ NumDevs > 0 /\ NBits \in Nat /\ NBits > 0 /\ NameLength \in Nat
    /\ T60 \in Nat /\ T80 \in Nat /\ T100 \in Nat /\ T200 \in Nat /\ T1000 \in Nat
    /\ T60 > 0 /\ T60 <= T80 /\ T80 <= T100 /\ T100 <= T200 /\ T200 <= T1000 /\ 2 * T200 <= T1000
    /\ TEOI \in Nat /\ Patience \in Nat /\ Late \in Nat
    /\ T1000 < Patience /\ T200 <= TEOI /\ TEOI < Patience
    /\ \A n \in Delays : n \in Nat /\ n > 0 /\ n < T200
  BY IecAssumption, TimeAssumption, BusAssumption

LEMMA Codes ==
    /\ {} \in Byte /\ \A b \in {DATA, CLOSE, OPEN, UNLISTEN, UNTALK} : b \in Byte /\ b # {}
    /\ DATA # CLOSE /\ DATA # OPEN /\ CLOSE # OPEN /\ UNLISTEN # UNTALK
    /\ \A d \in Devs : /\ LISTEN(d) \in Byte /\ LISTEN(d) # {} /\ LISTEN(d) # UNLISTEN
                       /\ LISTEN(d) # UNTALK
                       /\ TALK(d) \in Byte /\ TALK(d) # {} /\ TALK(d) # UNLISTEN
                       /\ TALK(d) # UNTALK
    /\ \A d, e \in Devs : /\ LISTEN(d) # TALK(e)
                          /\ d # e => LISTEN(d) # LISTEN(e) /\ TALK(d) # TALK(e)
<1>1. {} \in Byte
  BY DEF Byte
<1>2. \A b \in {DATA, CLOSE, OPEN, UNLISTEN, UNTALK} : b \in Byte /\ b # {}
  BY IecAssumption
<1>3. /\ DATA # CLOSE /\ DATA # OPEN /\ CLOSE # OPEN /\ UNLISTEN # UNTALK
      /\ \A d, e \in Devs : /\ LISTEN(d) # TALK(e)
                            /\ d # e => LISTEN(d) # LISTEN(e) /\ TALK(d) # TALK(e)
  BY IecAssumption
<1>4. \A d \in Devs : LISTEN(d) \in Byte \ {{}, UNLISTEN, UNTALK} /\ TALK(d) \in Byte \ {{}, UNLISTEN, UNTALK}
  BY IecAssumption
<1> QED
  BY <1>1, <1>2, <1>3, <1>4
-----------------------------------------------------------------------------
(* The types of what the file side and a device become. *)

LEMMA FsFields ==
    ASSUME NEW f \in FileSide
    PROVE  /\ f.disk \in [Devs -> {"none", "read", "write"}] /\ f.isopen \in [Devs -> 0 .. 2]
           /\ f.chan \in [Devs -> {"closed", "read", "write"}] /\ f.pos \in [Devs -> Nat \ {0}]
           /\ f.SerialBuffer \in Seq(Byte) /\ f.st \in Status
           /\ f.since \in Seq(Byte) /\ f.opened \in Seq(Byte) /\ f.put \in Seq(Byte)
           /\ \A s \in Status : SetSt(f, s) \in FileSide
           /\ Quiet(f) \in FileSide
<1>1. <<>> \in Seq(Byte)
  OBVIOUS
<1> QED
  BY <1>1 DEF FileSide, SetSt, Quiet

LEMMA PutFType ==
    ASSUME NEW f \in FileSide, NEW d \in Devs, NEW s \in Seq(Byte)
    PROVE  PutF(f, d, s) \in FileSide
<1> DEFINE more == f.put \o s
<1>0. f.put \in Seq(Byte)
  BY FsFields
<1>1. more \in Seq(Byte) /\ SERIAL_OK \in Status /\ SERIAL_ERROR \in Status
  BY <1>0 DEF Status
<1>2. PutF(f, d, s) \in {[f EXCEPT !.put = more, !.st = SERIAL_OK], SetSt(f, SERIAL_ERROR)}
  BY DEF PutF
<1> HIDE DEF more
<1> QED
  BY <1>1, <1>2 DEF FileSide, SetSt

LEMMA FsOpenNamedType ==
    ASSUME NEW f \in FileSide, NEW d \in Devs
    PROVE  OpenNamed(f, d) \in FileSide
<1> DEFINE io(v) == [f.isopen EXCEPT ![d] = v]
           ch(v) == [f.chan EXCEPT ![d] = v]
           po    == [f.pos EXCEPT ![d] = 1]
           nm    == f.SerialBuffer
<1>1. <<>> \in Seq(Byte) /\ SERIAL_ERROR \in Status /\ SERIAL_OK \in Status
  BY DEF Status
<1>0. nm \in Seq(Byte)
  BY FsFields
<1>2. f.disk[d] \in {"none", "read", "write"}
  BY FsFields
<1>3. /\ io(0) \in [Devs -> 0 .. 2] /\ io(2) \in [Devs -> 0 .. 2] /\ po \in [Devs -> Nat \ {0}]
      /\ \A v \in {"closed", "read", "write"} : ch(v) \in [Devs -> {"closed", "read", "write"}]
  BY FsFields
<1>4. CASE f.disk[d] = "none"
  <2>1. OpenNamed(f, d) = [f EXCEPT !.SerialBuffer = <<>>, !.since = <<>>,
                                    !.opened = nm, !.isopen = io(0),
                                    !.chan = ch("closed"), !.pos = po, !.st = SERIAL_ERROR]
    BY <1>4 DEF OpenNamed
  <2> HIDE DEF io, ch, po, nm
  <2> QED
    BY <2>1, <1>0, <1>1, <1>3 DEF FileSide
<1>5. CASE f.disk[d] # "none"
  <2>1. OpenNamed(f, d) = [f EXCEPT !.SerialBuffer = <<>>, !.since = <<>>,
                                    !.opened = nm, !.isopen = io(2),
                                    !.chan = ch(f.disk[d]), !.pos = po, !.st = SERIAL_OK]
    BY <1>5 DEF OpenNamed
  <2>2. f.disk[d] \in {"closed", "read", "write"}
    BY <1>2, <1>5
  <2>3. ch(f.disk[d]) \in [Devs -> {"closed", "read", "write"}]
    BY <2>2, <1>3
  <2> HIDE DEF io, ch, po, nm
  <2> QED
    BY <2>1, <2>3, <1>0, <1>1, <1>3 DEF FileSide
<1> QED
  BY <1>4, <1>5

LEMMA SerialCommandType ==
    ASSUME NEW f \in FileSide, NEW d \in Devs, NEW s \in {DATA, CLOSE, OPEN}
    PROVE  SerialCommand(f, d, s) \in FileSide
<1> DEFINE io(v) == [f.isopen EXCEPT ![d] = v]
           ch    == [f.chan EXCEPT ![d] = "closed"]
<1>1. <<>> \in Seq(Byte) /\ SERIAL_ERROR \in Status /\ SERIAL_OK \in Status
  BY DEF Status
<1>2. /\ io(0) \in [Devs -> 0 .. 2] /\ io(2) \in [Devs -> 0 .. 2]
      /\ ch \in [Devs -> {"closed", "read", "write"}]
  BY FsFields
<1>3. CASE s = DATA
  <2>1. CASE f.isopen[d] = 1
    <3> DEFINE g == PutF(f, d, f.SerialBuffer)
    <3>1. g \in FileSide
      BY FsFields, PutFType
    <3>2. [g.isopen EXCEPT ![d] = 2] \in [Devs -> 0 .. 2]
      BY <3>1, FsFields
    <3>3. SerialCommand(f, d, s) = [g EXCEPT !.isopen = [g.isopen EXCEPT ![d] = 2],
                                             !.SerialBuffer = <<>>, !.since = <<>>,
                                             !.st = SERIAL_ERROR]
      BY <1>3, <2>1, Codes DEF SerialCommand
    <3> HIDE DEF g
    <3> QED
      BY <3>1, <3>2, <3>3, <1>1 DEF FileSide
  <2>2. CASE f.isopen[d] # 1
    BY <1>3, <2>2, <1>1, FsFields, Codes DEF SerialCommand
  <2> QED
    BY <2>1, <2>2
<1>4. CASE s = CLOSE
  <2>1. SerialCommand(f, d, s) = [f EXCEPT !.chan = ch, !.isopen = io(0), !.st = SERIAL_OK]
    BY <1>4, Codes DEF SerialCommand, Closed
  <2> HIDE DEF io, ch
  <2> QED
    BY <2>1, <1>1, <1>2 DEF FileSide
<1>5. CASE s = OPEN
  BY <1>1, <1>5, FsFields, Codes, FsOpenNamedType DEF SerialCommand
<1> QED
  BY <1>3, <1>4, <1>5

LEMMA FsTypes ==
    ASSUME NEW f \in FileSide, NEW d \in Devs
    PROVE  /\ FsOpen(f, d) \in FileSide
           /\ \A s : FsUnlisten(f, d, s) \in FileSide
           /\ \A b \in Byte : FsWrite(f, d, b) \in FileSide
           /\ FsRead(f, d) \in FileSide /\ NextByte(f, d) \in Byte
           /\ FsReset(f) \in FileSide
<1>1. SERIAL_ERROR \in Status /\ SERIAL_OK \in Status /\ SERIAL_EOF \in Status
  BY DEF Status
<1>2. FsOpen(f, d) \in FileSide
  <2>1. FsOpen(f, d) = [f EXCEPT !.isopen = [f.isopen EXCEPT ![d] = 1], !.since = <<>>]
    BY DEF FsOpen
  <2>2. [f.isopen EXCEPT ![d] = 1] \in [Devs -> 0 .. 2]
    BY FsFields
  <2> QED
    <3>1. <<>> \in Seq(Byte)
      OBVIOUS
    <3> QED
      BY <2>1, <2>2, <3>1 DEF FileSide
<1>3. \A s : FsUnlisten(f, d, s) \in FileSide
  BY SerialCommandType DEF FsUnlisten
<1>4. ASSUME NEW b \in Byte PROVE FsWrite(f, d, b) \in FileSide
  <2> DEFINE more == Append(f.since, b)
             held == IF Len(f.SerialBuffer) < NameLength THEN Append(f.SerialBuffer, b)
                                                         ELSE f.SerialBuffer
  <2>1. more \in Seq(Byte) /\ held \in Seq(Byte) /\ PutF(f, d, <<b>>) \in FileSide
    <3>1. f.since \in Seq(Byte) /\ f.SerialBuffer \in Seq(Byte)
      BY FsFields
    <3>2. <<b>> \in Seq(Byte)
      OBVIOUS
    <3>3. more \in Seq(Byte) /\ Append(f.SerialBuffer, b) \in Seq(Byte)
      BY <3>1
    <3> QED
      BY <3>1, <3>2, <3>3, PutFType
  <2>2. FsWrite(f, d, b) \in {[f EXCEPT !.since = more, !.SerialBuffer = held],
                               PutF(f, d, <<b>>)}
    BY DEF FsWrite
  <2> HIDE DEF more, held
  <2> QED
    BY <2>1, <2>2 DEF FileSide
<1>5. FsRead(f, d) \in FileSide
  <2>1. [f.pos EXCEPT ![d] = @ + 1] \in [Devs -> Nat \ {0}]
    BY FsFields
  <2>2. \/ FsRead(f, d) = SetSt(f, SERIAL_ERROR)
        \/ \E s \in Status :
               FsRead(f, d) = [f EXCEPT !.pos = [f.pos EXCEPT ![d] = @ + 1], !.st = s]
    BY <1>1 DEF FsRead
  <2> QED
    BY <2>1, <2>2, <1>1 DEF FileSide, SetSt
<1>6. NextByte(f, d) \in Byte
  <2>1. CASE Readable(f, d)
    <3>1. f.pos[d] \in 1 .. Len(File) /\ File \in Seq(Byte)
      BY <2>1, FsFields, IecAssumption DEF Readable
    <3> QED
      BY <3>1, <2>1 DEF NextByte
  <2> QED
    BY <2>1, Codes DEF NextByte
<1>7. FsReset(f) \in FileSide
  <2> DEFINE io == [e \in Devs |-> 0]
             ch == [e \in Devs |-> IF f.isopen[e] # 0 THEN "closed" ELSE f.chan[e]]
  <2>1. io \in [Devs -> 0 .. 2] /\ ch \in [Devs -> {"closed", "read", "write"}]
    BY FsFields
  <2>2. FsReset(f) = [f EXCEPT !.isopen = io, !.chan = ch]
    BY DEF FsReset
  <2> HIDE DEF io, ch
  <2> QED
    BY <2>1, <2>2 DEF FileSide
<1> QED
  BY <1>2, <1>3, <1>4, <1>5, <1>6, <1>7
-----------------------------------------------------------------------------
(* The same of a device. *)

LEMMA Fields ==
    ASSUME NEW r \in Device
    PROVE  /\ r.enabled \in BOOLEAN /\ r.atn \in BOOLEAN /\ r.listening \in BOOLEAN
           /\ r.talking \in BOOLEAN /\ r.state \in States /\ r.bit \in 0 .. NBits - 1
           /\ r.byte \in Byte /\ r.primary \in Byte /\ r.secondary \in Byte
           /\ r.secondary_prev \in Byte /\ r.st \in Status /\ r.timeout \in 0 .. T1000
           /\ r.clk \in BOOLEAN /\ r.data \in BOOLEAN
           /\ r.timeout \in Nat /\ r.bit \in Nat
  BY Consts DEF Device, Status

LEMMA Times ==
    /\ 0 \in 0 .. T1000 /\ T60 \in 0 .. T1000 /\ T80 \in 0 .. T1000 /\ T100 \in 0 .. T1000
    /\ T200 \in 0 .. T1000 /\ T1000 \in 0 .. T1000 /\ 0 \in 0 .. NBits - 1
    /\ {} \in Byte
    /\ SERIAL_OK \in Status /\ SERIAL_ERROR \in Status /\ SERIAL_EOF \in Status
    /\ SERIAL_OK # SERIAL_ERROR /\ SERIAL_OK # SERIAL_EOF /\ SERIAL_ERROR # SERIAL_EOF
  BY Consts, Codes DEF Status, SERIAL_OK, SERIAL_ERROR, SERIAL_EOF

LEMMA Updates ==
    ASSUME NEW r \in Device
    PROVE  /\ \A c, d \in BOOLEAN : Lines(r, c, d) \in Device
           /\ \A s \in States : Goto(r, s) \in Device
           /\ \A t \in 0 .. T1000 : After(r, t) \in Device
           /\ Free(r) \in Device
  BY DEF Device, Lines, Goto, After, Free

LEMMA BitType ==
    ASSUME NEW b \in Byte, NEW k \in 0 .. NBits - 1, NEW v
    PROVE  WithBit(b, k, v) \in Byte
  BY DEF WithBit, Byte

LEMMA AttentionType == ASSUME NEW r \in Device PROVE Attention(r) \in Device
  BY Times, Fields DEF Attention, Goto, After, Lines, Device, States

LEMMA AddressTypes ==
    ASSUME NEW r \in Device
    PROVE  ToListen(r) \in Device /\ ToTalk(r) \in Device /\ Forget(r) \in Device
  BY Times, Fields DEF ToListen, ToTalk, Forget, Lines, Device, States

LEMMA CommandByteType ==
    ASSUME NEW r \in Device, NEW d
    PROVE  CommandByte(r, d) \in Device
<1> DEFINE p == IF r.primary = {} THEN r.byte ELSE r.primary
           s == IF r.primary # {} /\ r.secondary = {} THEN r.byte ELSE r.secondary
           q == [r EXCEPT !.primary = p, !.secondary = s, !.byte = {}]
<1>1. p \in Byte /\ s \in Byte
  BY Fields
<1>2. q \in Device
  BY <1>1, Times DEF Device
<1>3. CommandByte(r, d) \in {Goto(Lines(q, TRUE, FALSE), "PRE2"), Goto(q, "DONE0")}
  BY DEF CommandByte
<1> HIDE DEF q
<1> QED
  BY <1>2, <1>3, Updates DEF States

LEMMA ListenedType ==
    ASSUME NEW r \in Device, NEW d, NEW bus
    PROVE  Listened(r, d, bus) \in Device
<1>1. /\ Goto(r, "PRE1") \in Device /\ Goto(r, "PRE2") \in Device
      /\ Goto(After(Free(r), T200), "READY") \in Device
      /\ Goto(After(Lines(r, TRUE, FALSE), T60), "EOI") \in Device
      /\ Goto(Free(r), "EOIw") \in Device
  BY Updates, Times DEF States
<1>2. [Goto(r, "BIT") EXCEPT !.bit = 0, !.byte = {}] \in Device
  BY Times DEF Goto, Device, States
<1>3. [Goto(r, "BITw") EXCEPT !.byte = WithBit(@, r.bit, bus.data)] \in Device
  <2>1. WithBit(r.byte, r.bit, bus.data) \in Byte
    BY Fields, BitType
  <2> QED
    BY <2>1 DEF Goto, Device, States
<1>4. r.bit < NBits - 1 => [Goto(r, "BIT") EXCEPT !.bit = @ + 1] \in Device
  <2>1. r.bit < NBits - 1 => r.bit + 1 \in 0 .. NBits - 1
    BY Fields, Consts
  <2> QED
    BY <2>1 DEF Goto, Device, States
<1>5. CommandByte(r, d) \in Device
  BY CommandByteType
<1> QED
  BY <1>1, <1>2, <1>3, <1>4, <1>5, Zenon DEF Listened

LEMMA TalkBitType ==
    ASSUME NEW r \in Device, NEW bus, bus.data \in BOOLEAN
    PROVE  TalkBit(r, bus) \in Device
<1>1. Bit(r.byte, r.bit) \in BOOLEAN
  BY DEF Bit
<1>2. Goto(After(Lines(r, FALSE, Bit(r.byte, r.bit)), T60), "BITw") \in Device
  BY <1>1, Updates, Times DEF States
<1> DEFINE s == After(Lines(r, TRUE, bus.data), T60)
<1>3. s \in Device /\ s.bit = r.bit
  BY Updates, Times DEF After, Lines, Device
<1> HIDE DEF s
<1>4. r.bit # NBits - 1 => [Goto(s, "BIT") EXCEPT !.bit = @ + 1] \in Device
  <2>1. r.bit # NBits - 1 => r.bit + 1 \in 0 .. NBits - 1
    BY Fields, Consts
  <2> QED
    BY <1>3, <2>1 DEF Goto, Device, States
<1>5. Goto(s, "DONE0") \in Device
  BY <1>3, Updates DEF States
<1>6. TalkBit(r, bus) = IF r.state = "BIT"
                        THEN Goto(After(Lines(r, FALSE, Bit(r.byte, r.bit)), T60), "BITw")
                        ELSE IF r.bit = NBits - 1 THEN Goto(s, "DONE0")
                             ELSE [Goto(s, "BIT") EXCEPT !.bit = @ + 1]
  BY DEF TalkBit, s
<1> QED
  BY <1>2, <1>4, <1>5, <1>6

LEMMA AcknowledgedType == ASSUME NEW r \in Device PROVE Acknowledged(r) \in Device
<1>1. [Free(r) EXCEPT !.talking = FALSE, !.st = SERIAL_OK, !.byte = {}] \in Device
  BY Times DEF Free, Lines, Device, Status
<1>2. [Goto(After(r, 0), "PRE1") EXCEPT !.byte = {}] \in Device
  BY Times DEF Goto, After, Device, States
<1> QED
  BY <1>1, <1>2 DEF Acknowledged

LEMMA TalkedType ==
    ASSUME NEW r \in Device, NEW bus, bus.data \in BOOLEAN
    PROVE  Talked(r, bus) \in Device
<1>1. /\ Goto(After(Lines(r, FALSE, TRUE), T80), "PRE1") \in Device
      /\ Goto(Free(r), "READY") \in Device /\ Goto(r, "EOIw") \in Device
      /\ Goto(After(Lines(r, FALSE, TRUE), T1000), "DONE1") \in Device
      /\ Goto(After(Free(r), T100), "FRAMEERR0") \in Device
      /\ Goto(Lines(r, FALSE, TRUE), "FRAMEERR1") \in Device
      /\ Goto(After(r, 0), "PRE1") \in Device
  BY Updates, Times DEF States
<1>2. [Goto(After(r, 0), "BIT") EXCEPT !.bit = 0] \in Device
  BY Times DEF Goto, After, Device, States
<1>3. TalkBit(r, bus) \in Device /\ Acknowledged(r) \in Device
  BY TalkBitType, AcknowledgedType
<1> QED
  BY <1>1, <1>2, <1>3, Zenon DEF Talked

LEMMA UserTypes ==
    ASSUME NEW r \in Device
    PROVE  /\ ResetDevice(r) \in Device /\ EnableDevice(r) \in Device
           /\ DisableDevice(r) \in Device
<1>1. \A s \in Device : Cleared(s) \in Device /\ [Cleared(s) EXCEPT !.enabled = TRUE] \in Device
  BY Times DEF Cleared, After, Device, Status
<1>2. Free(r) \in Device
  BY Updates
<1>3. DisableDevice(r) \in Device
  BY <1>2, Times DEF DisableDevice, After, Device
<1> QED
  BY <1>1, <1>2, <1>3 DEF ResetDevice, EnableDevice
-----------------------------------------------------------------------------
(* What the steps of device d do to the devices, the file side and the two
   histories. *)

LEMMA WorldFields ==
    ASSUME NEW w \in Worlds
    PROVE  /\ w.dev \in [Devs -> Device] /\ w.fs \in FileSide
           /\ w.taken \in Seq(Byte) /\ w.gave \in Seq(Given)
           /\ \A d \in Devs : w.dev[d] \in Device
  BY DEF Worlds

(* A world of which d has become r, and the file side f. *)
Turned(w, d, r, f) == [dev |-> [w.dev EXCEPT ![d] = r], fs |-> f,
                       taken |-> w.taken, gave |-> w.gave]

LEMMA TurnedType ==
    ASSUME NEW w \in Worlds, NEW d \in Devs, NEW r \in Device, NEW f \in FileSide
    PROVE  Turned(w, d, r, f) \in Worlds
<1>1. [w.dev EXCEPT ![d] = r] \in [Devs -> Device]
  BY WorldFields
<1> QED
  BY <1>1, WorldFields DEF Turned, Worlds

LEMMA TurnedFacts ==
    ASSUME NEW w \in Worlds, NEW d \in Devs, NEW r, NEW f
    PROVE  /\ Turned(w, d, r, f).dev[d] = r /\ Turned(w, d, r, f).fs = f
           /\ \A e \in Devs : e # d => Turned(w, d, r, f).dev[e] = w.dev[e]
           /\ Turned(w, d, r, f).taken = w.taken /\ Turned(w, d, r, f).gave = w.gave
  BY DEF Turned, Worlds

LEMMA TurnedTwice ==
    ASSUME NEW w \in Worlds, NEW d \in Devs, NEW r, NEW f, NEW q, NEW g
    PROVE  Turned(Turned(w, d, r, f), d, q, g) = Turned(w, d, q, g)
<1>1. [[w.dev EXCEPT ![d] = r] EXCEPT ![d] = q] = [w.dev EXCEPT ![d] = q]
  BY DEF Worlds
<1> QED
  BY <1>1 DEF Turned

LEMMA PutIs ==
    ASSUME NEW w \in Worlds, NEW d \in Devs, NEW r \in Device
    PROVE  Put(w, d, r) = Turned(w, d, r, w.fs)
  BY DEF Put, Turned, Worlds

LEMMA StUpdate ==
    ASSUME NEW r \in Device, NEW s \in Status
    PROVE  [r EXCEPT !.st = s] \in Device
  BY DEF Device, Status

LEMMA CommandIs ==
    ASSUME NEW w \in Worlds, NEW d \in Devs
    PROVE  \E r \in {w.dev[d], [w.dev[d] EXCEPT !.st = SERIAL_OK]}, f \in FileSide :
               Command(w, d) = Turned(w, d, r, f) /\ r \in Device
<1> DEFINE r == w.dev[d]
           q == [r EXCEPT !.st = SERIAL_OK]
<1>1. r \in Device /\ q \in Device /\ w.fs \in FileSide
  BY WorldFields, StUpdate, Times
<1>2. CASE r.secondary = DATA
  <2>1. SerialCommand(w.fs, d, DATA) \in FileSide
    BY <1>1, SerialCommandType
  <2>2. Command(w, d) = [w EXCEPT !.fs = SerialCommand(w.fs, d, DATA)]
    BY <1>2, Codes DEF Command
  <2>3. [w.dev EXCEPT ![d] = r] = w.dev
    BY WorldFields
  <2>4. Command(w, d) = Turned(w, d, r, SerialCommand(w.fs, d, DATA))
    BY <2>2, <2>3 DEF Turned, Worlds
  <2> QED
    BY <2>1, <2>4, <1>1
<1>3. CASE r.secondary = CLOSE
  <2>1. SerialCommand(w.fs, d, CLOSE) \in FileSide
    BY <1>1, SerialCommandType
  <2>2. Command(w, d) = Turned(w, d, q, SerialCommand(w.fs, d, CLOSE))
    BY <1>3, Codes DEF Command, Turned, Worlds
  <2> QED
    BY <2>1, <2>2, <1>1
<1>4. CASE r.secondary = OPEN
  <2>1. FsOpen(SetSt(w.fs, SERIAL_OK), d) \in FileSide
    BY <1>1, FsTypes, FsFields, Times
  <2>2. Command(w, d) = Turned(w, d, q, FsOpen(SetSt(w.fs, SERIAL_OK), d))
    BY <1>4, Codes DEF Command, Turned, Worlds
  <2> QED
    BY <2>1, <2>2, <1>1
<1>5. CASE r.secondary \notin {DATA, CLOSE, OPEN}
  <2>1. Command(w, d) = Turned(w, d, r, w.fs)
    BY <1>5 DEF Command, Turned, Worlds
  <2> QED
    BY <2>1, <1>1
<1> QED
  BY <1>2, <1>3, <1>4, <1>5

LEMMA UnlistenedIs ==
    ASSUME NEW w \in Worlds, NEW d \in Devs
    PROVE  LET f == FsUnlisten(SetSt(w.fs, w.dev[d].st), d, w.dev[d].secondary_prev)
               r == [w.dev[d] EXCEPT !.listening = FALSE, !.st = f.st]
           IN  Unlistened(w, d) = Turned(w, d, r, f) /\ r \in Device /\ f \in FileSide
<1> DEFINE f == FsUnlisten(SetSt(w.fs, w.dev[d].st), d, w.dev[d].secondary_prev)
           r == [w.dev[d] EXCEPT !.listening = FALSE, !.st = f.st]
<1>1. w.dev[d] \in Device /\ w.fs \in FileSide
  BY WorldFields
<1>2. SetSt(w.fs, w.dev[d].st) \in FileSide
  BY <1>1, Fields, FsFields
<1>3. f \in FileSide
  BY <1>2, FsTypes
<1>4. f.st \in Status
  BY <1>3, FsFields
<1>5. r \in Device
  <2> HIDE DEF f
  <2> QED
    BY <1>1, <1>4 DEF Device, Status
<1>6. Unlistened(w, d) = Turned(w, d, r, f)
  <2>1. Unlistened(w, d) = [w EXCEPT !.fs = f, !.dev = [w.dev EXCEPT ![d] = r]]
    BY DEF Unlistened
  <2> HIDE DEF f, r
  <2> QED
    BY <2>1 DEF Turned, Worlds
<1> QED
  BY <1>3, <1>5, <1>6

LEMMA DataByteIs ==
    ASSUME NEW w \in Worlds, NEW d \in Devs
    PROVE  LET r == w.dev[d]
               f == FsWrite(SetSt(w.fs, r.st), d, r.byte)
               s == [r EXCEPT !.st = f.st, !.byte = {}]
               y == DataByte(w, d)
           IN  /\ f \in FileSide /\ y \in Worlds
               /\ y.dev = [w.dev EXCEPT ![d] = IF f.st = SERIAL_OK
                                               THEN Goto(Lines(s, TRUE, FALSE), "PRE2")
                                               ELSE Goto(s, "DONE0")]
               /\ y.fs = f /\ y.gave = w.gave
               /\ y.taken = IF f.st = SERIAL_OK THEN Append(w.taken, r.byte) ELSE w.taken
<1> DEFINE r == w.dev[d]
           f == FsWrite(SetSt(w.fs, r.st), d, r.byte)
           s == [r EXCEPT !.st = f.st, !.byte = {}]
           q == IF f.st = SERIAL_OK THEN Goto(Lines(s, TRUE, FALSE), "PRE2") ELSE Goto(s, "DONE0")
           t == IF f.st = SERIAL_OK THEN Append(w.taken, r.byte) ELSE w.taken
           v == [w.dev EXCEPT ![d] = q]
<1>1. r \in Device /\ w.fs \in FileSide /\ r.byte \in Byte
  BY WorldFields, Fields
<1>2. SetSt(w.fs, r.st) \in FileSide
  BY <1>1, Fields, FsFields
<1>3. f \in FileSide
  BY <1>1, <1>2, FsTypes
<1>4. f.st \in Status
  BY <1>3, FsFields
<1>5. s \in Device
  <2> HIDE DEF f, r
  <2> QED
    BY <1>1, <1>4, Times DEF Device, Status
<1>6. q \in Device
  <2> HIDE DEF s
  <2> QED
    BY <1>5, Updates DEF States
<1>7. t \in Seq(Byte)
  BY <1>1, WorldFields
<1>8. DataByte(w, d) = [w EXCEPT !.dev = v, !.fs = f, !.taken = t]
  BY DEF DataByte, Worlds
<1>9. v \in [Devs -> Device]
  <2> HIDE DEF q
  <2> QED
    BY <1>6, WorldFields
<1>10. /\ [w EXCEPT !.dev = v, !.fs = f, !.taken = t] \in Worlds
       /\ [w EXCEPT !.dev = v, !.fs = f, !.taken = t].dev = v
       /\ [w EXCEPT !.dev = v, !.fs = f, !.taken = t].fs = f
       /\ [w EXCEPT !.dev = v, !.fs = f, !.taken = t].taken = t
       /\ [w EXCEPT !.dev = v, !.fs = f, !.taken = t].gave = w.gave
  <2> HIDE DEF v, f, t
  <2> QED
    BY <1>3, <1>7, <1>9 DEF Worlds
<1> HIDE DEF v, f, t, q
<1> QED
  BY <1>3, <1>8, <1>10 DEF v, f, t, q

LEMMA FetchIs ==
    ASSUME NEW w \in Worlds, NEW d \in Devs
    PROVE  LET r == w.dev[d]
               b == NextByte(w.fs, d)
               f == FsRead(SetSt(w.fs, r.st), d)
               s == [r EXCEPT !.byte = b, !.st = f.st]
               y == Fetch(w, d)
           IN  /\ f \in FileSide /\ y \in Worlds /\ b \in Byte /\ f.st \in Status /\ s \in Device
               /\ y.dev = [w.dev EXCEPT ![d] =
                              IF f.st = SERIAL_OK THEN [Goto(After(s, 0), "BIT") EXCEPT !.bit = 0]
                              ELSE IF f.st = SERIAL_EOF THEN Goto(s, "EOI")
                              ELSE [s EXCEPT !.talking = FALSE]]
               /\ y.fs = f /\ y.taken = w.taken
               /\ y.gave = IF f.st = SERIAL_ERROR THEN w.gave
                           ELSE Append(w.gave, [byte |-> b, last |-> f.st = SERIAL_EOF])
<1> DEFINE r == w.dev[d]
           b == NextByte(w.fs, d)
           f == FsRead(SetSt(w.fs, r.st), d)
           s == [r EXCEPT !.byte = b, !.st = f.st]
           q == IF f.st = SERIAL_OK THEN [Goto(After(s, 0), "BIT") EXCEPT !.bit = 0]
                ELSE IF f.st = SERIAL_EOF THEN Goto(s, "EOI")
                ELSE [s EXCEPT !.talking = FALSE]
           t == IF f.st = SERIAL_ERROR THEN w.gave
                ELSE Append(w.gave, [byte |-> b, last |-> f.st = SERIAL_EOF])
           v == [w.dev EXCEPT ![d] = q]
<1>1. r \in Device /\ w.fs \in FileSide
  BY WorldFields
<1>2. SetSt(w.fs, r.st) \in FileSide
  BY <1>1, Fields, FsFields
<1>3. f \in FileSide /\ b \in Byte
  BY <1>1, <1>2, FsTypes
<1>4. f.st \in Status
  BY <1>3, FsFields
<1>5. s \in Device
  <2> HIDE DEF f, r, b
  <2> QED
    BY <1>1, <1>3, <1>4, Times DEF Device, Status
<1>6. q \in Device
  <2>1. [Goto(After(s, 0), "BIT") EXCEPT !.bit = 0] \in Device
    <3> HIDE DEF s
    <3> QED
      BY <1>5, Times DEF Goto, After, Device, States
  <2>2. Goto(s, "EOI") \in Device
    <3> HIDE DEF s
    <3> QED
      BY <1>5, Updates DEF States
  <2>3. [s EXCEPT !.talking = FALSE] \in Device
    <3> HIDE DEF s
    <3> QED
      BY <1>5 DEF Device
  <2> HIDE DEF s
  <2> QED
    BY <2>1, <2>2, <2>3
<1>7. t \in Seq(Given)
  <2>1. [byte |-> b, last |-> f.st = SERIAL_EOF] \in Given
    <3> HIDE DEF f, b
    <3> QED
      BY <1>3 DEF Given
  <2> HIDE DEF f, b
  <2> QED
    BY <2>1, WorldFields
<1>8. Fetch(w, d) = [w EXCEPT !.dev = v, !.fs = f, !.gave = t]
  <2>1. q = CASE f.st = SERIAL_OK  -> [Goto(After(s, 0), "BIT") EXCEPT !.bit = 0]
              [] f.st = SERIAL_EOF -> Goto(s, "EOI")
              [] OTHER              -> [s EXCEPT !.talking = FALSE]
    <3> HIDE DEF s, f
    <3> QED
      BY Times
  <2> HIDE DEF q
  <2>2. Fetch(w, d) = [w EXCEPT !.fs = f, !.gave = t, !.dev = [w.dev EXCEPT ![d] = q]]
    BY <2>1 DEF Fetch, Worlds
  <2> QED
    BY <2>2, WorldFields DEF Worlds
<1>9. v \in [Devs -> Device]
  <2> HIDE DEF q
  <2> QED
    BY <1>6, WorldFields
<1>10. /\ [w EXCEPT !.dev = v, !.fs = f, !.gave = t] \in Worlds
       /\ [w EXCEPT !.dev = v, !.fs = f, !.gave = t].dev = v
       /\ [w EXCEPT !.dev = v, !.fs = f, !.gave = t].fs = f
       /\ [w EXCEPT !.dev = v, !.fs = f, !.gave = t].gave = t
       /\ [w EXCEPT !.dev = v, !.fs = f, !.gave = t].taken = w.taken
  <2> HIDE DEF v, f, t
  <2> QED
    BY <1>3, <1>7, <1>9 DEF Worlds
<1> HIDE DEF v, f, t, q, s, b
<1> QED
  BY <1>3, <1>4, <1>5, <1>8, <1>10 DEF v, f, t, q, s, b
-----------------------------------------------------------------------------
(* The rising flank on ATN.  What does not change in it: *)
Same(r, q) == /\ q.enabled = r.enabled /\ q.bit = r.bit /\ q.byte = r.byte
              /\ q.timeout = r.timeout /\ q.secondary = r.secondary

(* The device and the file side after what the device was told. *)
Heeded(r, d, q) ==
    /\ r.primary = LISTEN(d) =>
          /\ ~q.talking /\ q.clk /\ ~q.data
          /\ \/ q.listening /\ q.state = "PRE1"
             \/ q.listening = r.listening /\ q.state = r.state
    /\ r.primary = TALK(d) =>
          /\ q.talking /\ ~q.listening /\ q.state = "PRE0"
          /\ q.clk = r.clk /\ q.data = r.data
    /\ r.primary \notin {LISTEN(d), TALK(d)} =>
          /\ q.listening = (r.listening /\ r.primary # UNLISTEN)
          /\ q.talking = (r.talking /\ r.primary # UNTALK)
          /\ q.state = r.state /\ q.clk = r.clk /\ q.data = r.data

LEMMA AddressedIs ==
    ASSUME NEW v \in Worlds, NEW d \in Devs
    PROVE  \E q \in Device, f \in FileSide :
               /\ Addressed(v, d) = Turned(v, d, q, f)
               /\ q.atn = v.dev[d].atn /\ Same(v.dev[d], q) /\ Heeded(v.dev[d], d, q)
<1> DEFINE r == v.dev[d]
<1>1. r \in Device /\ v.fs \in FileSide
  BY WorldFields
<1>2. Turned(v, d, r, v.fs) = v
  BY DEF Turned, Worlds
<1>3. CASE r.primary \in {LISTEN(d), TALK(d)}
  <2>1. PICK c \in {r, [r EXCEPT !.st = SERIAL_OK]}, f \in FileSide :
            Command(v, d) = Turned(v, d, c, f) /\ c \in Device
    BY CommandIs
  <2>2. /\ c.atn = r.atn /\ Same(r, c) /\ c.listening = r.listening /\ c.state = r.state
        /\ c.primary = r.primary /\ c.clk = r.clk /\ c.data = r.data
    BY <1>1, <2>1 DEF Device, Same
  <2> DEFINE u == Turned(v, d, c, f)
             q == IF r.primary = LISTEN(d) THEN ToListen(c) ELSE ToTalk(c)
  <2>3. u \in Worlds /\ u.dev[d] = c /\ u.fs = f
    BY <2>1, TurnedType, TurnedFacts
  <2>4. q \in Device
    BY <2>1, AddressTypes
  <2>5. Addressed(v, d) = Told(u, d)
    <3>1. Addressed(v, d) = Told(Command(v, d), d)
      <4>1. r.primary # UNLISTEN /\ r.primary # UNTALK
        BY <1>3, Codes
      <4> QED
        BY <1>3, <4>1 DEF Addressed
    <3> QED
      BY <2>1, <3>1
  <2>6. Told(u, d) = Put(u, d, q)
    <3> HIDE DEF u
    <3> QED
      BY <2>2, <2>3 DEF Told
  <2>7. Put(u, d, q) = Turned(u, d, q, f)
    <3> HIDE DEF u, q
    <3> QED
      BY <2>3, <2>4, PutIs
  <2>8. Turned(u, d, q, f) = Turned(v, d, q, f)
    <3> HIDE DEF q
    <3> QED
      BY TurnedTwice
  <2>9. q.atn = r.atn /\ Same(r, q) /\ Heeded(r, d, q)
    <3>1. CASE r.primary = LISTEN(d)
      <4>1. q = ToListen(c) /\ r.primary # TALK(d)
        BY <3>1, Codes
      <4> HIDE DEF q
      <4> QED
        BY <1>1, <2>1, <2>2, <3>1, <4>1 DEF ToListen, Lines, Device, Same, Heeded
    <3>2. CASE r.primary = TALK(d)
      <4>1. q = ToTalk(c) /\ r.primary # LISTEN(d)
        BY <3>2, Codes
      <4> HIDE DEF q
      <4> QED
        BY <1>1, <2>1, <2>2, <3>2, <4>1 DEF ToTalk, Device, Same, Heeded
    <3> QED
      BY <1>3, <3>1, <3>2
  <2> HIDE DEF u, q
  <2> QED
    BY <2>4, <2>5, <2>6, <2>7, <2>8, <2>9
<1>4. CASE r.primary = UNLISTEN /\ r.listening
  <2> DEFINE f == FsUnlisten(SetSt(v.fs, v.dev[d].st), d, v.dev[d].secondary_prev)
             q == [v.dev[d] EXCEPT !.listening = FALSE, !.st = f.st]
  <2>1. Unlistened(v, d) = Turned(v, d, q, f) /\ q \in Device /\ f \in FileSide
    BY UnlistenedIs
  <2>2. r.primary # LISTEN(d) /\ r.primary # TALK(d) /\ r.primary # UNTALK
    BY <1>4, Codes
  <2>3. Addressed(v, d) = Unlistened(v, d)
    BY <1>4, <2>2 DEF Addressed
  <2>4. q.atn = r.atn /\ Same(r, q) /\ Heeded(r, d, q)
    <3> HIDE DEF f
    <3> QED
      BY <1>1, <1>4, <2>2 DEF Device, Same, Heeded
  <2> HIDE DEF f, q
  <2> QED
    BY <2>1, <2>3, <2>4
<1>5. CASE r.primary = UNTALK /\ r.talking
  <2> DEFINE q == [r EXCEPT !.talking = FALSE]
  <2>1. q \in Device
    BY <1>1 DEF Device
  <2>2. r.primary # LISTEN(d) /\ r.primary # TALK(d) /\ r.primary # UNLISTEN
    BY <1>5, Codes
  <2>3. Addressed(v, d) = [v EXCEPT !.dev[d].talking = FALSE]
    BY <1>5, <2>2 DEF Addressed
  <2>4. Addressed(v, d) = Turned(v, d, q, v.fs)
    BY <2>3 DEF Turned, Worlds
  <2>5. q.atn = r.atn /\ Same(r, q) /\ Heeded(r, d, q)
    BY <1>1, <1>5, <2>2 DEF Device, Same, Heeded
  <2> HIDE DEF q
  <2> QED
    BY <1>1, <2>1, <2>4, <2>5
<1>6. CASE /\ r.primary \notin {LISTEN(d), TALK(d)}
           /\ ~(r.primary = UNLISTEN /\ r.listening) /\ ~(r.primary = UNTALK /\ r.talking)
  <2>1. Addressed(v, d) = v
    BY <1>6 DEF Addressed
  <2>2. Same(r, r) /\ Heeded(r, d, r)
    BY <1>1, <1>6, Fields DEF Same, Heeded
  <2> HIDE DEF r
  <2> QED
    BY <1>1, <1>2, <2>1, <2>2 DEF r
<1> QED
  BY <1>3, <1>4, <1>5, <1>6

Rose(r) == [r EXCEPT !.atn = FALSE]

(* The lines are let go by a device that is neither to listen nor to talk. *)
LEMMA ReleasedIs ==
    ASSUME NEW w \in Worlds, NEW d \in Devs
    PROVE  \E q \in Device, f \in FileSide :
               /\ Released(w, d) = Turned(w, d, q, f) /\ ~q.atn /\ Same(w.dev[d], q)
               /\ \E p \in Device :
                     /\ Heeded(w.dev[d], d, p)
                     /\ q.listening = p.listening /\ q.talking = p.talking /\ q.state = p.state
                     /\ q.clk = (p.clk \/ (~p.listening /\ ~p.talking))
                     /\ q.data = (p.data \/ (~p.listening /\ ~p.talking))
<1> DEFINE r == w.dev[d]
           v == Turned(w, d, Rose(r), w.fs)
<1>1. r \in Device /\ w.fs \in FileSide
  BY WorldFields
<1>2. Rose(r) \in Device
  BY <1>1 DEF Rose, Device
<1>3. v \in Worlds /\ v.dev[d] = Rose(r) /\ v.fs = w.fs
  BY <1>1, <1>2, TurnedType, TurnedFacts
<1>4. [w EXCEPT !.dev[d].atn = FALSE] = v
  <2>1. [w EXCEPT !.dev[d].atn = FALSE] = [w EXCEPT !.dev = [w.dev EXCEPT ![d] = Rose(r)]]
    BY DEF Rose
  <2>2. [w EXCEPT !.dev = [w.dev EXCEPT ![d] = Rose(r)]] = v
    BY DEF Turned, Worlds
  <2> QED
    BY <2>1, <2>2
<1>5. PICK p \in Device, f \in FileSide :
          /\ Addressed(v, d) = Turned(v, d, p, f)
          /\ p.atn = v.dev[d].atn /\ Same(v.dev[d], p) /\ Heeded(v.dev[d], d, p)
  BY <1>3, AddressedIs
<1> DEFINE u == Turned(v, d, p, f)
           t == IF ~p.listening /\ ~p.talking THEN Free(p) ELSE p
           q == Forget(t)
<1>6. u \in Worlds /\ u.dev[d] = p /\ u.fs = f
  <2> HIDE DEF v
  <2> QED
    BY <1>3, TurnedType, TurnedFacts
<1>7. t \in Device
  BY Updates
<1>8. q \in Device
  <2> HIDE DEF t
  <2> QED
    BY <1>7, AddressTypes
<1>9. Settled(u, d) = Put(u, d, q)
  <2> HIDE DEF u
  <2> QED
    BY <1>6 DEF Settled
<1>10. Released(w, d) = Put(u, d, q)
  BY <1>4, <1>5, <1>9 DEF Released
<1>11. Put(u, d, q) = Turned(w, d, q, f)
  <2>1. Put(u, d, q) = Turned(u, d, q, f)
    <3> HIDE DEF u, q
    <3> QED
      BY <1>6, <1>8, PutIs
  <2>2. Turned(u, d, q, f) = Turned(v, d, q, f)
    <3> HIDE DEF q, v
    <3> QED
      BY <1>3, TurnedTwice
  <2>3. Turned(v, d, q, f) = Turned(w, d, q, f)
    <3> HIDE DEF q
    <3> QED
      BY TurnedTwice
  <2> QED
    BY <2>1, <2>2, <2>3
<1>12. ~p.atn /\ Same(r, p) /\ Heeded(r, d, p)
  <2> HIDE DEF v
  <2> QED
    BY <1>1, <1>3, <1>5 DEF Rose, Device, Same, Heeded
<1>13. /\ ~q.atn /\ Same(p, q)
       /\ q.listening = p.listening /\ q.talking = p.talking /\ q.state = p.state
       /\ q.clk = (p.clk \/ (~p.listening /\ ~p.talking))
       /\ q.data = (p.data \/ (~p.listening /\ ~p.talking))
  <2>1. CASE ~p.listening /\ ~p.talking
    <3>1. q = Forget(Free(p))
      BY <2>1
    <3> HIDE DEF q
    <3> QED
      BY <1>12, <2>1, <3>1 DEF Forget, Free, Lines, Device, Same
  <2>2. CASE p.listening \/ p.talking
    <3>1. q = Forget(p)
      BY <2>2
    <3> HIDE DEF q
    <3> QED
      BY <1>12, <2>2, <3>1 DEF Forget, Device, Same
  <2> QED
    BY <2>1, <2>2
<1>14. Same(r, q)
  BY <1>12, <1>13 DEF Same
<1> HIDE DEF q
<1> QED
  BY <1>8, <1>10, <1>11, <1>12, <1>13, <1>14
-----------------------------------------------------------------------------
(* One device. *)

(* x is w but for device d, which is still switched on or off. *)
Alone(w, x, d) == /\ x \in Worlds /\ x.dev[d].enabled = w.dev[d].enabled
                  /\ \A e \in Devs : e # d => x.dev[e] = w.dev[e]

LEMMA AloneTwice ==
    ASSUME NEW w, NEW x, NEW y, NEW d \in Devs, Alone(w, x, d), Alone(x, y, d)
    PROVE  Alone(w, y, d)
  BY DEF Alone

LEMMA PutAlone ==
    ASSUME NEW w \in Worlds, NEW d \in Devs, NEW r \in Device, r.enabled = w.dev[d].enabled
    PROVE  /\ Alone(w, Put(w, d, r), d) /\ Put(w, d, r).dev[d] = r
           /\ Put(w, d, r).fs = w.fs /\ Put(w, d, r).taken = w.taken /\ Put(w, d, r).gave = w.gave
<1>1. Put(w, d, r) = Turned(w, d, r, w.fs)
  BY PutIs
<1>2. Turned(w, d, r, w.fs) \in Worlds
  BY WorldFields, TurnedType
<1> DEFINE y == Turned(w, d, r, w.fs)
<1>3. /\ y.dev[d] = r /\ \A e \in Devs : e # d => y.dev[e] = w.dev[e]
      /\ y.fs = w.fs /\ y.taken = w.taken /\ y.gave = w.gave
  BY TurnedFacts
<1> HIDE DEF y
<1> QED
  BY <1>1, <1>2, <1>3 DEF Alone, y

LEMMA StaysEnabled ==
    ASSUME NEW r \in Device, NEW d, NEW bus
    PROVE  /\ Attention(r).enabled = r.enabled /\ CommandByte(r, d).enabled = r.enabled
           /\ Listened(r, d, bus).enabled = r.enabled /\ Talked(r, bus).enabled = r.enabled
<1>1. Attention(r).enabled = r.enabled
  BY DEF Attention, Goto, After, Lines, Device
<1>2. CommandByte(r, d).enabled = r.enabled
  BY DEF CommandByte, Goto, Lines, Device
<1>3. Listened(r, d, bus).enabled = r.enabled
  <2>1. /\ \A s : Goto(r, s).enabled = r.enabled
        /\ Goto(After(Free(r), T200), "READY").enabled = r.enabled
        /\ Goto(After(Lines(r, TRUE, FALSE), T60), "EOI").enabled = r.enabled
        /\ Goto(Free(r), "EOIw").enabled = r.enabled
        /\ [Goto(r, "BIT") EXCEPT !.bit = 0, !.byte = {}].enabled = r.enabled
        /\ [Goto(r, "BITw") EXCEPT !.byte = WithBit(@, r.bit, bus.data)].enabled = r.enabled
        /\ [Goto(r, "BIT") EXCEPT !.bit = @ + 1].enabled = r.enabled
    BY DEF Goto, After, Free, Lines, Device
  <2> QED
    BY <1>2, <2>1, Zenon DEF Listened
<1>4. Talked(r, bus).enabled = r.enabled
  <2>1. /\ \A s : Goto(r, s).enabled = r.enabled
        /\ Goto(After(Lines(r, FALSE, TRUE), T80), "PRE1").enabled = r.enabled
        /\ Goto(Free(r), "READY").enabled = r.enabled
        /\ [Goto(After(r, 0), "BIT") EXCEPT !.bit = 0].enabled = r.enabled
        /\ Goto(After(Lines(r, FALSE, TRUE), T1000), "DONE1").enabled = r.enabled
        /\ Goto(After(Free(r), T100), "FRAMEERR0").enabled = r.enabled
        /\ Goto(Lines(r, FALSE, TRUE), "FRAMEERR1").enabled = r.enabled
        /\ Goto(After(r, 0), "PRE1").enabled = r.enabled
    BY DEF Goto, After, Free, Lines, Device
  <2>2. TalkBit(r, bus).enabled = r.enabled
    BY DEF TalkBit, Goto, After, Lines, Device
  <2>3. Acknowledged(r).enabled = r.enabled
    BY DEF Acknowledged, Goto, After, Free, Lines, Device
  <2> QED
    BY <2>1, <2>2, <2>3, Zenon DEF Talked
<1> QED
  BY <1>1, <1>2, <1>3, <1>4

LEMMA ActAlone ==
    ASSUME NEW w \in Worlds, NEW d \in Devs, NEW bus, bus.data \in BOOLEAN
    PROVE  Alone(w, Act(w, d, bus), d)
<1> DEFINE r == w.dev[d]
<1>1. r \in Device
  BY WorldFields
<1>2. Alone(w, w, d)
  BY DEF Alone
<1>3. Alone(w, ListenStep(w, d, bus), d)
  <2>1. CASE DataIsHere(r, bus)
    <3> DEFINE f == FsWrite(SetSt(w.fs, r.st), d, r.byte)
               s == [r EXCEPT !.st = f.st, !.byte = {}]
               q == IF f.st = SERIAL_OK THEN Goto(Lines(s, TRUE, FALSE), "PRE2")
                                        ELSE Goto(s, "DONE0")
    <3>1. ListenStep(w, d, bus) = DataByte(w, d)
      BY <2>1 DEF ListenStep
    <3>2. DataByte(w, d) \in Worlds /\ DataByte(w, d).dev = [w.dev EXCEPT ![d] = q]
      BY DataByteIs
    <3>3. q.enabled = r.enabled
      BY <1>1 DEF Goto, Lines, Device
    <3> HIDE DEF q
    <3> QED
      BY <3>1, <3>2, <3>3, WorldFields DEF Alone
  <2>2. CASE ~DataIsHere(r, bus)
    <3>1. ListenStep(w, d, bus) = Put(w, d, Listened(r, d, bus))
      BY <2>2 DEF ListenStep
    <3>2. Listened(r, d, bus) \in Device /\ Listened(r, d, bus).enabled = r.enabled
      BY <1>1, ListenedType, StaysEnabled
    <3> QED
      BY <3>1, <3>2, PutAlone
  <2> QED
    BY <2>1, <2>2
<1>4. Alone(w, TalkStep(w, d, bus), d)
  <2>1. CASE Fetches(r, bus)
    <3> DEFINE b == NextByte(w.fs, d)
               f == FsRead(SetSt(w.fs, r.st), d)
               s == [r EXCEPT !.byte = b, !.st = f.st]
               q == IF f.st = SERIAL_OK THEN [Goto(After(s, 0), "BIT") EXCEPT !.bit = 0]
                    ELSE IF f.st = SERIAL_EOF THEN Goto(s, "EOI")
                    ELSE [s EXCEPT !.talking = FALSE]
    <3>1. TalkStep(w, d, bus) = Fetch(w, d)
      BY <2>1 DEF TalkStep
    <3>2. Fetch(w, d) \in Worlds /\ Fetch(w, d).dev = [w.dev EXCEPT ![d] = q]
      BY FetchIs
    <3>3. q.enabled = r.enabled
      BY <1>1 DEF Goto, After, Device
    <3> HIDE DEF q
    <3> QED
      BY <3>1, <3>2, <3>3, WorldFields DEF Alone
  <2>2. CASE ~Fetches(r, bus)
    <3>1. TalkStep(w, d, bus) = Put(w, d, Talked(r, bus))
      BY <2>2 DEF TalkStep
    <3>2. Talked(r, bus) \in Device /\ Talked(r, bus).enabled = r.enabled
      <4> HIDE DEF r
      <4>1. Talked(r, bus) \in Device
        BY <1>1, TalkedType
      <4>2. Talked(r, bus).enabled = r.enabled
        BY <1>1, StaysEnabled
      <4> QED
        BY <4>1, <4>2
    <3> QED
      BY <3>1, <3>2, PutAlone
  <2> QED
    BY <2>1, <2>2
<1> QED
  BY <1>2, <1>3, <1>4 DEF Act

LEMMA FlanksAlone ==
    ASSUME NEW w \in Worlds, NEW d \in Devs, NEW bus
    PROVE  Alone(w, Flanks(w, d, bus), d)
<1>1. Alone(w, w, d)
  BY DEF Alone
<1>2. Alone(w, Put(w, d, Attention(w.dev[d])), d)
  BY WorldFields, AttentionType, StaysEnabled, PutAlone
<1>3. Alone(w, Released(w, d), d)
  <2>1. PICK q \in Device, f \in FileSide :
            Released(w, d) = Turned(w, d, q, f) /\ Same(w.dev[d], q)
    BY ReleasedIs
  <2> DEFINE y == Turned(w, d, q, f)
  <2>2. y \in Worlds /\ y.dev[d] = q /\ \A e \in Devs : e # d => y.dev[e] = w.dev[e]
    BY TurnedType, TurnedFacts
  <2> HIDE DEF y
  <2> QED
    BY <2>1, <2>2 DEF Alone, Same, y
<1> QED
  BY <1>1, <1>2, <1>3 DEF Flanks

Computers == [atn : BOOLEAN, clk : BOOLEAN, data : BOOLEAN]

LEMMA BusType ==
    ASSUME NEW w \in Worlds, NEW c \in Computers
    PROVE  Bus(w, c) \in Computers
<1>1. /\ c.atn \in BOOLEAN /\ (c.clk /\ \A d \in Devs : w.dev[d].clk) \in BOOLEAN
      /\ (c.data /\ \A d \in Devs : w.dev[d].data) \in BOOLEAN
  BY DEF Computers
<1> QED
  BY <1>1 DEF Bus, Computers

LEMMA ExecOneAlone ==
    ASSUME NEW w \in Worlds, NEW d \in Devs, NEW c \in Computers
    PROVE  Alone(w, ExecOne(w, d, c), d)
<1> DEFINE b == Bus(w, c)
<1>1. b.data \in BOOLEAN
  BY BusType DEF Computers
<1>2. Alone(w, Flanks(w, d, b), d)
  BY FlanksAlone
<1>3. Flanks(w, d, b) \in Worlds
  BY <1>2 DEF Alone
<1>4. Alone(Flanks(w, d, b), Act(Flanks(w, d, b), d, b), d)
  <2> HIDE DEF b
  <2> QED
    BY <1>1, <1>3, ActAlone
<1>5. Alone(w, ExecMain(w, d, b), d)
  BY <1>2, <1>4, AloneTwice DEF ExecMain
<1>6. Alone(w, w, d)
  BY DEF Alone
<1> QED
  BY <1>5, <1>6 DEF ExecOne
-----------------------------------------------------------------------------
(* serial_iec_device_exec: all devices, one after the other. *)

IsSweep(g, w, c, m) == g = [k \in 0 .. m |-> IF k = 0 THEN w ELSE ExecOne(g[k - 1], k, c)]

LEMMA SweepExists ==
    ASSUME NEW w, NEW c, NEW m \in Nat
    PROVE  \E g : IsSweep(g, w, c, m)
<1> DEFINE T == {j \in Nat : \E g : IsSweep(g, w, c, j)}
<1>1. 0 \in T
  <2> DEFINE g == [k \in 0 .. 0 |-> w]
  <2>1. g = [k \in 0 .. 0 |-> IF k = 0 THEN w ELSE ExecOne(g[k - 1], k, c)]
    OBVIOUS
  <2> QED
    BY <2>1 DEF IsSweep
<1>2. ASSUME NEW j \in Nat, j \in T PROVE j + 1 \in T
  <2>1. PICK g : g = [k \in 0 .. j |-> IF k = 0 THEN w ELSE ExecOne(g[k - 1], k, c)]
    BY <1>2 DEF IsSweep
  <2> DEFINE h == [k \in 0 .. j + 1 |-> IF k = 0 THEN w ELSE ExecOne(g[k - 1], k, c)]
  <2>2. \A k \in 0 .. j : h[k] = g[k]
    BY <2>1
  <2>3. \A k \in 0 .. j + 1 : k # 0 => k - 1 \in 0 .. j
    OBVIOUS
  <2>4. h = [k \in 0 .. j + 1 |-> IF k = 0 THEN w ELSE ExecOne(g[k - 1], k, c)]
    OBVIOUS
  <2> HIDE DEF h
  <2>5. \A k \in 0 .. j + 1 : (IF k = 0 THEN w ELSE ExecOne(g[k - 1], k, c))
                               = (IF k = 0 THEN w ELSE ExecOne(h[k - 1], k, c))
    BY <2>2, <2>3
  <2>6. h = [k \in 0 .. j + 1 |-> IF k = 0 THEN w ELSE ExecOne(h[k - 1], k, c)]
    BY <2>4, <2>5
  <2>7. \E x : IsSweep(x, w, c, j + 1)
    BY <2>6 DEF IsSweep
  <2> QED
    BY <2>7
<1> HIDE DEF T
<1>3. Nat \subseteq T
  BY <1>1, <1>2, SetOfAll
<1> QED
  BY <1>3 DEF T

(* The worlds g[0], g[1], ... that the devices see and leave, each device turned
   by its own number only. *)
Sweeps(g, w, c) ==
    /\ g[0] = w /\ \A k \in 0 .. NumDevs : g[k] \in Worlds
    /\ \A k \in Devs : g[k] = ExecOne(g[k - 1], k, c)
    /\ \A k \in 0 .. NumDevs, e \in Devs :
          /\ g[k].dev[e].enabled = w.dev[e].enabled
          /\ e > k => g[k].dev[e] = w.dev[e]
          /\ e <= k => g[k].dev[e] = g[NumDevs].dev[e]

LEMMA SweepTaken ==
    ASSUME NEW w \in Worlds, NEW c \in Computers, NEW g, IsSweep(g, w, c, NumDevs)
    PROVE  Sweeps(g, w, c)
<1> DEFINE N == NumDevs
<1>1. \A k \in 0 .. N : g[k] = IF k = 0 THEN w ELSE ExecOne(g[k - 1], k, c)
  BY DEF IsSweep
<1>2. N \in Nat /\ Devs = 1 .. N
  BY Consts DEF Devs
<1>3. g[0] = w /\ \A k \in 1 .. N : g[k] = ExecOne(g[k - 1], k, c)
  BY <1>1, <1>2
<1> HIDE DEF N
<1> DEFINE Fine(k) == /\ g[k] \in Worlds
                      /\ \A e \in Devs : /\ g[k].dev[e].enabled = w.dev[e].enabled
                                         /\ e > k => g[k].dev[e] = w.dev[e]
           T == {k \in 0 .. N : Fine(k)}
<1>4. 0 \in T
  BY <1>2, <1>3
<1>5. ASSUME NEW k \in 0 .. N - 1 PROVE g[k] \in Worlds => Alone(g[k], g[k + 1], k + 1)
  <2>1. k + 1 \in Devs /\ g[k + 1] = ExecOne(g[k], k + 1, c)
    BY <1>2, <1>3
  <2> QED
    BY <2>1, ExecOneAlone
<1>6. ASSUME NEW k \in 0 .. N - 1, k \in T PROVE k + 1 \in T
  <2>1. Fine(k) /\ Alone(g[k], g[k + 1], k + 1) /\ k + 1 \in 0 .. N
    BY <1>2, <1>5, <1>6
  <2>2. g[k + 1] \in Worlds
    BY <2>1 DEF Alone
  <2>3. ASSUME NEW e \in Devs PROVE g[k + 1].dev[e].enabled = w.dev[e].enabled
    BY <2>1, <2>3 DEF Alone
  <2>4. ASSUME NEW e \in Devs, e > k + 1 PROVE g[k + 1].dev[e] = w.dev[e]
    BY <2>1, <2>4, <1>2 DEF Alone
  <2> QED
    BY <2>1, <2>2, <2>3, <2>4
<1>7. 0 .. N \subseteq T
  <2> HIDE DEF T
  <2> QED
    BY <1>2, <1>4, <1>6, SetUpTo
<1>8. \A k \in 0 .. N : Fine(k)
  BY <1>7
<1>9. ASSUME NEW e \in Devs, NEW k \in 0 .. N, e <= k PROVE g[k].dev[e] = g[N].dev[e]
  <2> DEFINE U == {j \in 0 .. N : j >= e => g[j].dev[e] = g[e].dev[e]}
  <2>1. 0 \in U
    BY <1>2
  <2>2. ASSUME NEW j \in 0 .. N - 1, j \in U PROVE j + 1 \in U
    <3>1. j + 1 \in 0 .. N /\ Alone(g[j], g[j + 1], j + 1)
      BY <1>2, <1>5, <1>8
    <3>2. CASE e <= j
      <4>1. g[j].dev[e] = g[e].dev[e] /\ e # j + 1
        BY <1>2, <2>2, <3>2
      <4> QED
        BY <3>1, <4>1 DEF Alone
    <3>3. CASE e = j + 1
      BY <3>1, <3>3
    <3>4. CASE e > j + 1
      BY <1>2, <3>1, <3>4
    <3> QED
      BY <1>2, <3>2, <3>3, <3>4
  <2> HIDE DEF U
  <2>3. 0 .. N \subseteq U
    BY <1>2, <2>1, <2>2, SetUpTo
  <2>4. k \in U /\ N \in U
    BY <1>2, <2>3
  <2> QED
    BY <1>2, <1>9, <2>4 DEF U
<1> QED
  BY <1>2, <1>3, <1>8, <1>9 DEF Sweeps, N

(* What all of them leave. *)
LEMMA ExecIs ==
    ASSUME NEW w \in Worlds, NEW c \in Computers
    PROVE  \E g : /\ Sweeps(g, w, c) /\ Exec(w, c) \in Worlds
                  /\ Exec(w, c).dev = g[NumDevs].dev
                  /\ Exec(w, c).fs = [g[NumDevs].fs EXCEPT !.st = SERIAL_OK]
                  /\ Exec(w, c).taken = g[NumDevs].taken /\ Exec(w, c).gave = g[NumDevs].gave
<1> DEFINE N == NumDevs
           done[k \in 0 .. N] == IF k = 0 THEN w ELSE ExecOne(done[k - 1], k, c)
<1>1. Exec(w, c) = [done[N] EXCEPT !.fs.st = SERIAL_OK]
  BY DEF Exec
<1>2. done = [k \in 0 .. N |-> IF k = 0 THEN w ELSE ExecOne(done[k - 1], k, c)]
  <2>1. \E g : IsSweep(g, w, c, N)
    BY Consts, SweepExists
  <2>2. \E g : g = [k \in 0 .. N |-> IF k = 0 THEN w ELSE ExecOne(g[k - 1], k, c)]
    BY <2>1 DEF IsSweep
  <2> QED
    BY <2>2
<1> HIDE DEF done
<1>3. IsSweep(done, w, c, N)
  BY <1>2 DEF IsSweep
<1>4. Sweeps(done, w, c)
  BY <1>3, SweepTaken
<1> DEFINE y == done[N]
           f == [y.fs EXCEPT !.st = SERIAL_OK]
<1>5. y \in Worlds
  BY <1>4, Consts DEF Sweeps
<1> HIDE DEF y
<1>6. f \in FileSide
  BY <1>5, WorldFields, Times DEF FileSide, Status
<1>7. [y EXCEPT !.fs.st = SERIAL_OK] = [y EXCEPT !.fs = f]
  OBVIOUS
<1> HIDE DEF f
<1>8. /\ [y EXCEPT !.fs = f] \in Worlds /\ [y EXCEPT !.fs = f].dev = y.dev
      /\ [y EXCEPT !.fs = f].fs = f /\ [y EXCEPT !.fs = f].taken = y.taken
      /\ [y EXCEPT !.fs = f].gave = y.gave
  BY <1>5, <1>6 DEF Worlds
<1> QED
  BY <1>1, <1>4, <1>7, <1>8 DEF y, f
-----------------------------------------------------------------------------
(* The types of all variables.  The bit under way is one of a byte wherever it
   is read or written, and there is a byte wherever one is sent. *)

Sends == {"offer", "await", "eoi1", "eoi2", "begin", "bit", "valid", "pull", "ack"}
Pcs   == Sends \cup {"idle", "attend", "hold", "look", "present", "release", "off", "finish",
                     "letgo", "turn1", "turn2", "turn3", "turned", "ready", "accept", "clock",
                     "answer", "high", "low", "answered"}

TypeInv ==
    /\ dev \in [Devs -> Device] /\ fs \in FileSide /\ cpu \in Computers
    /\ pc \in Pcs /\ job \in Jobs \cup {"unlisten"}
    /\ cmds \in Seq(Byte) /\ msg \in Seq(Byte)
    /\ bit \in 0 .. NBits /\ rx \in Byte /\ wait \in 0 .. Patience
    /\ eoi \in BOOLEAN /\ late \in BOOLEAN /\ stray \in Seq(Byte)
    /\ sent \in Seq(Byte) /\ taken \in Seq(Byte) /\ gave \in Seq(Given) /\ recv \in Seq(Given)
    /\ pc \in {"bit", "valid", "pull", "clock", "high"} => bit < NBits
    /\ pc = "low" => bit > 0
    /\ pc \in {"attend", "hold", "look"} => cmds # <<>>
    /\ pc \in Sends \cup {"present"} => cmds # <<>> \/ msg # <<>>

LEMMA AgedType ==
    ASSUME NEW f \in [Devs -> Device], NEW n \in Nat
    PROVE  Aged(f, n) \in [Devs -> Device]
<1>1. ASSUME NEW d \in Devs
      PROVE  After(f[d], IF f[d].timeout > n THEN f[d].timeout - n ELSE 0) \in Device
  <2>1. f[d] \in Device /\ f[d].timeout \in 0 .. T1000
    BY Fields
  <2>2. (IF f[d].timeout > n THEN f[d].timeout - n ELSE 0) \in 0 .. T1000
    BY <2>1, Consts
  <2> QED
    BY <2>1, <2>2, Updates
<1> QED
  BY <1>1 DEF Aged

LEMMA WorldType ==
    ASSUME TypeInv, NEW n \in Nat
    PROVE  /\ World(n) \in Worlds
           /\ Moved(World(n)) => dev' \in [Devs -> Device] /\ fs' \in FileSide
           /\ Run(n) => /\ dev' \in [Devs -> Device] /\ fs' \in FileSide
                        /\ taken' \in Seq(Byte) /\ gave' \in Seq(Given) /\ stray' \in Seq(Byte)
<1> DEFINE w == [dev |-> Aged(dev, n), fs |-> Quiet(fs), taken |-> taken, gave |-> gave]
<1>1. Aged(dev, n) \in [Devs -> Device]
  BY AgedType DEF TypeInv
<1>2. w \in Worlds
  BY <1>1, FsFields DEF Worlds, TypeInv
<1> HIDE DEF w
<1>3. Exec(w, cpu) \in Worlds
  BY <1>2, ExecIs DEF TypeInv
<1>4. World(n) = Exec(w, cpu)
  BY DEF World, w
<1>5. World(n) \in Worlds
  BY <1>3, <1>4
<1> QED
  BY <1>5, WorldFields DEF Moved, Noted, Run, TypeInv

(* A step of the kernal, but for what it does to its own variables. *)
LEMMA RunDelays ==
    ASSUME TypeInv, \E n \in Delays : Run(n)
    PROVE  /\ dev' \in [Devs -> Device] /\ fs' \in FileSide
           /\ taken' \in Seq(Byte) /\ gave' \in Seq(Given) /\ stray' \in Seq(Byte)
<1>1. PICK n \in Delays : Run(n)
  OBVIOUS
<1> QED
  BY <1>1, Consts, WorldType

LEMMA WaitType ==
    ASSUME TypeInv, NEW n \in Delays, NEW seen, NEW label, Poll(n, seen, label)
    PROVE  wait' \in 0 .. Patience /\ (pc' = label \/ pc' = pc)
  BY Consts DEF Poll, Go, TypeInv

LEMMA EmptyTypes ==
    /\ <<>> \in Seq(Byte) /\ <<>> \in Seq(Given) /\ FALSE \in BOOLEAN /\ TRUE \in BOOLEAN
    /\ 0 \in 0 .. NBits /\ 0 < NBits /\ 0 \in 0 .. Patience /\ {} \in Byte
  BY Consts, Codes

LEMMA InitType == Init => TypeInv
<1> SUFFICES ASSUME Init PROVE TypeInv
  OBVIOUS
<1>1. NewDevice \in Device
  BY Times, Consts, Codes DEF NewDevice, Device, States, Status
<1>2. \A b \in BOOLEAN : [NewDevice EXCEPT !.enabled = b] \in Device
  BY <1>1 DEF Device
<1>3. dev \in [Devs -> Device]
  BY <1>2 DEF Init
<1>4. fs \in FileSide
  <2>1. PICK disk \in Disks : fs = FsInit(disk)
    BY DEF Init
  <2>2. disk \in [Devs -> {"none", "read", "write"}]
    BY BusAssumption
  <2> QED
    BY <2>1, <2>2, Times, EmptySeq DEF FsInit, FileSide
<1>5. cpu \in Computers /\ pc \in Pcs /\ job = "unlisten" /\ pc = "idle" /\ pc \notin Sends
  BY DEF Init, Computers, Pcs, Sends
<1>6. bit = 0 /\ bit \in 0 .. NBits /\ rx \in Byte /\ wait \in 0 .. Patience
  BY Consts, Codes DEF Init
<1>7. /\ cmds \in Seq(Byte) /\ msg \in Seq(Byte) /\ stray \in Seq(Byte)
      /\ sent \in Seq(Byte) /\ taken \in Seq(Byte) /\ gave \in Seq(Given) /\ recv \in Seq(Given)
      /\ eoi \in BOOLEAN /\ late \in BOOLEAN
  BY EmptyTypes, Zenon DEF Init
<1> QED
  BY <1>3, <1>4, <1>5, <1>6, <1>7 DEF TypeInv

LEMMA TailType ==
    ASSUME NEW s \in Seq(Byte), s # <<>>
    PROVE  Head(s) \in Byte /\ Tail(s) \in Seq(Byte)
  OBVIOUS

(* The steps under which a byte is sent or waited for. *)
LEMMA SendingTypes ==
    ASSUME TypeInv, Attend \/ Hold \/ Look \/ Present \/ Offer \/ Await \/ PutBit \/ Valid
    PROVE  TypeInv'
<1>1. CASE Attend
  BY <1>1, RunDelays, Consts DEF Attend, Go, TypeInv, Computers, Pcs, Sends
<1>2. CASE Hold
  BY <1>2, WorldType, Consts DEF Hold, Go, TypeInv, Pcs, Sends
<1>3. CASE Look
  BY <1>3, RunDelays DEF Look, Go, TypeInv, Pcs, Sends
<1>4. CASE Present
  BY <1>4, RunDelays DEF Present, Go, TypeInv, Pcs, Sends
<1>5. CASE Offer
  BY <1>5, RunDelays DEF Offer, Go, TypeInv, Computers, Pcs, Sends
<1>6. CASE Await
  <2>1. PICK n \in Delays :
            /\ Run(n)
            /\ \/ pc = "await" /\ Poll(n, DataHigh, IF Last THEN "eoi1" ELSE "begin")
               \/ pc = "eoi1"  /\ Poll(n, ~DataHigh, "eoi2")
               \/ pc = "eoi2"  /\ Poll(n, DataHigh, "begin")
    BY <1>6 DEF Await
  <2>2. /\ pc \in {"await", "eoi1", "eoi2"} /\ pc' \in {"await", "eoi1", "eoi2", "begin"}
        /\ wait' \in 0 .. Patience
    BY <2>1, WaitType
  <2>3. /\ dev' \in [Devs -> Device] /\ fs' \in FileSide
        /\ taken' \in Seq(Byte) /\ gave' \in Seq(Given) /\ stray' \in Seq(Byte)
    BY <2>1, RunDelays
  <2>4. /\ cmds # <<>> \/ msg # <<>>
        /\ pc' \in Pcs /\ pc' \notin {"bit", "valid", "pull", "clock", "high", "low"}
        /\ pc' \notin {"attend", "hold", "look"}
    BY <2>2 DEF TypeInv, Pcs, Sends
  <2>5. UNCHANGED <<cpu, job, cmds, msg, bit, rx, eoi, late, sent, recv>>
    BY <1>6 DEF Await
  <2> QED
    BY <2>2, <2>3, <2>4, <2>5 DEF TypeInv
<1>7. CASE PutBit
  <2>1. cpu' \in Computers
    <3>1. Bit(Sending, bit) \in BOOLEAN
      BY DEF Bit
    <3>2. cpu' = [cpu EXCEPT !.data = Bit(Sending, bit)] /\ cpu \in Computers
      BY <1>7 DEF PutBit, TypeInv
    <3> QED
      BY <3>1, <3>2 DEF Computers
  <2>2. pc' = "valid" /\ bit < NBits /\ (cmds # <<>> \/ msg # <<>>)
    BY <1>7 DEF PutBit, Go, TypeInv, Sends
  <2> QED
    BY <1>7, <2>1, <2>2, RunDelays DEF PutBit, TypeInv, Pcs, Sends
<1>8. CASE Valid
  BY <1>8, RunDelays DEF Valid, Go, TypeInv, Computers, Pcs, Sends
<1> QED
  BY <1>1, <1>2, <1>3, <1>4, <1>5, <1>6, <1>7, <1>8

LEMMA BeginTypes == ASSUME TypeInv, Begin PROVE TypeInv'
<1>1. cmds = <<>> => Append(sent, Head(msg)) \in Seq(Byte)
  <2> SUFFICES ASSUME cmds = <<>> PROVE Append(sent, Head(msg)) \in Seq(Byte)
    OBVIOUS
  <2>1. msg # <<>> /\ msg \in Seq(Byte) /\ sent \in Seq(Byte)
    BY DEF Begin, TypeInv, Sends
  <2>2. Head(msg) \in Byte
    BY <2>1
  <2> QED
    BY <2>1, <2>2
<1>2. sent' \in Seq(Byte)
  BY <1>1 DEF Begin, TypeInv
<1>3. cpu' \in Computers /\ bit' = 0 /\ bit' \in 0 .. NBits /\ bit' < NBits /\ pc' = "bit"
  <2>1. cpu' \in Computers
    BY DEF Begin, TypeInv, Computers
  <2> QED
    BY <2>1, EmptyTypes DEF Begin, Go
<1>4. cmds # <<>> \/ msg # <<>>
  BY DEF Begin, TypeInv, Sends
<1> QED
  BY <1>2, <1>3, <1>4, RunDelays DEF Begin, TypeInv, Pcs, Sends

LEMMA PullTypes == ASSUME TypeInv, Pull PROVE TypeInv'
<1>1. bit < NBits /\ bit \in Nat
  BY DEF Pull, TypeInv
<1>2. bit' \in 0 .. NBits /\ wait' \in 0 .. Patience /\ (pc' = "bit" => bit' < NBits)
      /\ pc' \in {"bit", "ack"}
  BY <1>1, Consts DEF Pull, Go
<1> QED
  BY <1>2, RunDelays DEF Pull, TypeInv, Computers, Pcs, Sends

LEMMA AckTypes == ASSUME TypeInv, Ack PROVE TypeInv'
<1>1. PICK n \in Delays :
          /\ Run(n)
          /\ IF ~DataHigh
             THEN /\ cmds' = IF cmds # <<>> THEN Tail(cmds) ELSE <<>>
                  /\ msg' = IF cmds # <<>> THEN msg ELSE Tail(msg)
                  /\ Go(Following) /\ wait' = 0
             ELSE /\ Go(IF wait + n >= T1000 THEN "finish" ELSE "ack")
                  /\ wait' = IF wait + n >= T1000 THEN 0 ELSE wait + n
                  /\ UNCHANGED <<cmds, msg>>
  BY DEF Ack
<1>2. /\ dev' \in [Devs -> Device] /\ fs' \in FileSide
      /\ taken' \in Seq(Byte) /\ gave' \in Seq(Given) /\ stray' \in Seq(Byte)
  BY <1>1, RunDelays
<1>3. CASE ~DataHigh
  <2>1. cmds' \in Seq(Byte) /\ msg' \in Seq(Byte)
    <3>1. cmds # <<>> \/ msg # <<>>
      BY DEF Ack, TypeInv, Sends
    <3>2. cmds \in Seq(Byte) /\ msg \in Seq(Byte) /\ <<>> \in Seq(Byte)
      BY DEF TypeInv
    <3>3. (cmds # <<>> => Tail(cmds) \in Seq(Byte)) /\ (msg # <<>> => Tail(msg) \in Seq(Byte))
      BY <3>2, TailType
    <3> QED
      BY <1>1, <1>3, <3>1, <3>2, <3>3, Zenon
  <2>2. /\ pc' \in {"offer", "off", "turn1", "finish", "release"}
        /\ pc' = "offer" => cmds' # <<>> \/ msg' # <<>>
    BY <1>1, <1>3, Zenon DEF Following, Go
  <2> QED
    BY <1>1, <1>2, <1>3, <2>1, <2>2, Consts DEF Ack, TypeInv, Pcs, Sends
<1>4. CASE DataHigh
  <2>1. wait' \in 0 .. Patience /\ pc' \in {"finish", "ack"}
    BY <1>1, <1>4, Consts DEF Go, TypeInv
  <2> QED
    BY <1>1, <1>2, <1>4, <2>1 DEF Ack, TypeInv, Pcs, Sends
<1> QED
  BY <1>3, <1>4

(* The end of what is sent, the turnaround, and a session that ends. *)
LEMMA EndTypes ==
    ASSUME TypeInv, Release \/ Off \/ Finish \/ Turn
    PROVE  TypeInv'
<1>1. CASE Release
  <2>1. pc' \in {"off", "present"} /\ (pc' = "present" => msg # <<>>) /\ cpu' \in Computers
    BY <1>1 DEF Release, Go, TypeInv, Computers
  <2> QED
    BY <1>1, <2>1, RunDelays DEF Release, TypeInv, Pcs, Sends
<1>2. CASE Off
  <2>1. cpu' \in Computers /\ pc' = "attend"
    BY <1>2 DEF Off, Set, Go, Computers
  <2>2. cmds' \in Seq(Byte) /\ cmds' # <<>> /\ msg' \in Seq(Byte)
    BY <1>2, Codes DEF Off
  <2> QED
    BY <1>2, <2>1, <2>2, RunDelays DEF Off, TypeInv, Pcs, Sends
<1>3. CASE Finish
  BY <1>3, RunDelays DEF Finish, Go, TypeInv, Computers, Pcs, Sends
<1>4. CASE Turn
  <2>1. pc' \in {"turn2", "turn3", "turned"} /\ cpu' \in Computers
    BY <1>4 DEF Turn, Go, TypeInv, Computers
  <2> QED
    BY <1>4, <2>1, RunDelays DEF Turn, TypeInv, Pcs, Sends
<1> QED
  BY <1>1, <1>2, <1>3, <1>4

LEMMA IdleTypes ==
    ASSUME TypeInv, Idle, dev' \in [Devs -> Device], fs' \in FileSide, stray' \in Seq(Byte)
    PROVE  TypeInv'
<1>1. cpu' \in Computers /\ pc' = "idle" /\ job' = "unlisten" /\ bit' = 0 /\ bit' \in 0 .. NBits
      /\ rx' \in Byte /\ wait' \in 0 .. Patience
  BY Consts, Codes DEF Idle, Set, Go, Computers
<1>2. /\ cmds' \in Seq(Byte) /\ msg' \in Seq(Byte) /\ eoi' \in BOOLEAN /\ late' \in BOOLEAN
      /\ sent' \in Seq(Byte) /\ taken' \in Seq(Byte) /\ gave' \in Seq(Given)
      /\ recv' \in Seq(Given)
  BY EmptyTypes, Zenon DEF Idle
<1> QED
  BY <1>1, <1>2 DEF TypeInv, Pcs, Sends

LEMMA StopTypes ==
    ASSUME TypeInv, LetGo \/ Abandon \/ Reset
    PROVE  TypeInv'
<1>1. CASE LetGo
  <2>1. stray' \in Seq(Byte)
    BY <1>1, EmptySeq DEF LetGo, TypeInv
  <2> QED
    BY <1>1, <2>1, Consts, WorldType, IdleTypes DEF LetGo
<1>2. CASE Abandon
  <2>1. dev' \in [Devs -> Device] /\ fs' \in FileSide
    BY <1>2, FsFields DEF Abandon, TypeInv
  <2>2. stray' \in Seq(Byte)
    BY <1>2, <2>1, FsFields DEF Abandon, Break
  <2> QED
    BY <1>2, <2>1, <2>2, IdleTypes DEF Abandon, Break
<1>3. CASE Reset
  <2>1. dev' \in [Devs -> Device]
    BY <1>3, UserTypes DEF Reset, TypeInv
  <2>2. fs' \in FileSide
    <3>1. 1 \in Devs
      BY Consts DEF Devs
    <3> QED
      BY <1>3, <3>1, FsTypes, FsFields DEF Reset, TypeInv
  <2>3. stray' \in Seq(Byte)
    BY <1>3, <2>2, FsFields DEF Reset, Break
  <2> QED
    BY <1>3, <2>1, <2>2, <2>3, IdleTypes DEF Reset, Break
<1> QED
  BY <1>1, <1>2, <1>3

LEMMA StartTypes ==
    ASSUME TypeInv, NEW s \in Sessions, Start(s[1], s[2])
    PROVE  TypeInv'
<1>1. s[1] \in Jobs /\ s[2] \in Devs
  BY BusAssumption
<1>2. cmds' \in Seq(Byte) /\ cmds' # <<>>
  BY <1>1, Codes DEF Start, CommandsOf, Jobs
<1>3. msg' \in Seq(Byte)
  <2>1. \A k \in 1 .. Len(Msg) : SubSeq(Msg, 1, k) \in Seq(Byte)
    BY BusAssumption
  <2>2. \A j : Messages(j) \subseteq Seq(Byte)
    <3>1. Name \in Seq(Byte)
      BY BusAssumption
    <3> QED
      BY <2>1, <3>1, EmptyTypes DEF Messages
  <2> QED
    BY <2>2 DEF Start
<1>4. dev' \in [Devs -> Device] /\ fs' \in FileSide
  BY Consts, WorldType DEF Start
<1>5. cpu' \in Computers /\ pc' = "attend" /\ bit' = 0 /\ bit' \in 0 .. NBits /\ rx' \in Byte
      /\ wait' \in 0 .. Patience /\ job' \in Jobs
  BY <1>1, Consts, Codes DEF Start, Set, Go, Computers
<1>6. /\ eoi' \in BOOLEAN /\ late' \in BOOLEAN /\ stray' \in Seq(Byte)
      /\ sent' \in Seq(Byte) /\ taken' \in Seq(Byte) /\ gave' \in Seq(Given)
      /\ recv' \in Seq(Given)
  BY EmptyTypes, Zenon DEF Start, TypeInv
<1> QED
  BY <1>2, <1>3, <1>4, <1>5, <1>6 DEF TypeInv, Pcs, Sends

LEMMA SwitchTypes ==
    ASSUME TypeInv, NEW d \in Switchable, Switch(d)
    PROVE  TypeInv'
<1>1. dev' \in [Devs -> Device]
  BY UserTypes DEF Switch, TypeInv
<1>2. fs' \in FileSide
  BY FsFields DEF Switch, TypeInv
<1> QED
  BY <1>1, <1>2 DEF Switch, kernal, TypeInv

(* Receiving. *)
LEMMA ReceivingTypes ==
    ASSUME TypeInv, Ready \/ Accept \/ ClockLow \/ Answer
    PROVE  TypeInv'
<1>1. CASE Ready
  <2>1. PICK n \in Delays :
            /\ Run(n)
            /\ \/ pc = "turned" /\ Poll(n, ~ClkHigh, "ready")
               \/ pc = "ready"  /\ Poll(n, ClkHigh, "accept")
    BY <1>1 DEF Ready
  <2>2. pc' \in {"turned", "ready", "accept"} /\ wait' \in 0 .. Patience
    BY <2>1, WaitType
  <2>3. /\ dev' \in [Devs -> Device] /\ fs' \in FileSide
        /\ taken' \in Seq(Byte) /\ gave' \in Seq(Given) /\ stray' \in Seq(Byte)
    BY <2>1, RunDelays
  <2> QED
    BY <1>1, <2>2, <2>3 DEF Ready, TypeInv, Pcs, Sends
<1>2. CASE Accept
  <2>1. /\ cpu' \in Computers /\ bit' \in 0 .. NBits /\ bit' < NBits /\ rx' \in Byte
        /\ wait' \in 0 .. Patience /\ pc' = "clock"
    <3>1. cpu' \in Computers
      BY <1>2 DEF Accept, TypeInv, Computers
    <3> QED
      BY <1>2, <3>1, EmptyTypes DEF Accept, Go
  <2> QED
    BY <1>2, <2>1, RunDelays DEF Accept, TypeInv, Pcs, Sends
<1>3. CASE ClockLow
  <2>1. PICK n \in Delays :
            /\ Run(n)
            /\ Go(CASE ~ClkHigh -> "high"
                    [] ClkHigh /\ wait + n >= TEOI -> IF eoi THEN "finish" ELSE "answer"
                    [] OTHER -> "clock")
            /\ wait' = IF ClkHigh /\ wait + n < TEOI THEN wait + n ELSE 0
    BY <1>3 DEF ClockLow
  <2>2. pc' \in {"high", "finish", "answer", "clock"} /\ wait' \in 0 .. Patience
    <3>1. CASE ~ClkHigh
      <4>1. pc' = "high" /\ wait' = 0
        BY <2>1, <3>1, Zenon DEF Go
      <4> QED
        BY <4>1, EmptyTypes
    <3>2. CASE ClkHigh /\ wait + n >= TEOI
      <4>1. wait \in Nat /\ n \in Nat
        BY Consts DEF TypeInv
      <4>2. ~(wait + n < TEOI)
        BY <3>2, <4>1, Consts
      <4>3. pc' = (IF eoi THEN "finish" ELSE "answer")
        BY <2>1, <3>2, Zenon DEF Go
      <4>4. wait' = 0
        BY <2>1, <4>2, Zenon
      <4> QED
        BY <4>3, <4>4, EmptyTypes
    <3>3. CASE ClkHigh /\ ~(wait + n >= TEOI)
      <4>1. wait \in Nat /\ n \in Nat
        BY Consts DEF TypeInv
      <4>2. wait + n < TEOI /\ wait + n \in 0 .. Patience
        BY <3>3, <4>1, Consts
      <4> QED
        BY <2>1, <3>3, <4>2 DEF Go
    <3> QED
      BY <3>1, <3>2, <3>3
  <2>3. /\ dev' \in [Devs -> Device] /\ fs' \in FileSide
        /\ taken' \in Seq(Byte) /\ gave' \in Seq(Given) /\ stray' \in Seq(Byte)
    BY <2>1, RunDelays
  <2> QED
    BY <1>3, <2>2, <2>3 DEF ClockLow, TypeInv, Pcs, Sends
<1>4. CASE Answer
  BY <1>4, RunDelays DEF Answer, Go, TypeInv, Computers, Pcs, Sends
<1> QED
  BY <1>1, <1>2, <1>3, <1>4

LEMMA GetBitTypes == ASSUME TypeInv, GetBit PROVE TypeInv'
<1>1. PICK n \in Delays : Run(n) /\ Poll(n, ClkHigh, "low")
  BY DEF GetBit
<1>2. /\ dev' \in [Devs -> Device] /\ fs' \in FileSide
      /\ taken' \in Seq(Byte) /\ gave' \in Seq(Given) /\ stray' \in Seq(Byte)
  BY <1>1, RunDelays
<1>3. wait' \in 0 .. Patience /\ (pc' = "low" => ClkHigh) /\ pc' \in {"high", "low"}
      /\ (ClkHigh => pc' = "low")
  BY <1>1, WaitType DEF Poll, Go, GetBit
<1>4. bit \in 0 .. NBits /\ bit < NBits /\ rx \in Byte
  BY DEF GetBit, TypeInv
<1>5. bit \in 0 .. NBits - 1 /\ bit + 1 \in 0 .. NBits /\ bit + 1 > 0
  BY <1>4, Consts
<1>6. WithBit(rx, bit, DataHigh) \in Byte
  BY <1>4, <1>5, BitType
<1>7. rx' \in Byte /\ bit' \in 0 .. NBits /\ (pc' = "low" => bit' > 0) /\ (pc' = "high" => bit' < NBits)
  BY <1>3, <1>4, <1>5, <1>6 DEF GetBit
<1> QED
  BY <1>2, <1>3, <1>7 DEF GetBit, TypeInv, Pcs, Sends

LEMMA LowTypes ==
    ASSUME TypeInv, Low
    PROVE  TypeInv'
<1>1. PICK n \in Delays :
          Run(n) /\ Poll(n, ~ClkHigh, IF bit = NBits THEN "answered" ELSE "high")
  BY DEF Low
<1>2. /\ dev' \in [Devs -> Device] /\ fs' \in FileSide
      /\ taken' \in Seq(Byte) /\ gave' \in Seq(Given) /\ stray' \in Seq(Byte)
  BY <1>1, RunDelays
<1>3. /\ wait' \in 0 .. Patience /\ pc' \in {"low", "answered", "high"}
      /\ pc' = "high" => bit # NBits
  BY <1>1, WaitType DEF Low
<1>4. bit \in 0 .. NBits /\ bit > 0 /\ (pc' = "high" => bit < NBits)
  BY <1>3, Consts DEF Low, TypeInv
<1> QED
  BY <1>2, <1>3, <1>4 DEF Low, TypeInv, Pcs, Sends

LEMMA AnsweredTypes == ASSUME TypeInv, Answered PROVE TypeInv'
<1>1. PICK n \in Delays \cup {Late} : Run(n) /\ late' = (late \/ n = Late)
  BY DEF Answered
<1>2. n \in Nat
  BY Consts
<1>3. /\ dev' \in [Devs -> Device] /\ fs' \in FileSide
      /\ taken' \in Seq(Byte) /\ gave' \in Seq(Given) /\ stray' \in Seq(Byte)
  BY <1>1, <1>2, WorldType
<1>4. late' \in BOOLEAN
  BY <1>1
<1>5. [byte |-> rx, last |-> eoi] \in Given
  BY DEF TypeInv, Given
<1>6. recv' \in Seq(Given)
  BY <1>5 DEF Answered, TypeInv
<1>7. /\ cpu' \in Computers /\ bit' = 0 /\ bit' \in 0 .. NBits /\ rx' \in Byte
      /\ pc' \in {"ready", "off"}
  <2>1. cpu' \in Computers
    BY DEF Answered, TypeInv, Computers
  <2>2. pc' \in {"ready", "off"}
    BY DEF Answered, Go
  <2> QED
    BY <2>1, <2>2, EmptyTypes DEF Answered
<1> QED
  BY <1>3, <1>4, <1>6, <1>7 DEF Answered, TypeInv, Pcs, Sends

(* The variables have their types, also those that the model checker does not
   look at: what is handed over, given and received is bytes. *)
THEOREM TypesKept == Spec => []TypeInv
<1>1. ASSUME TypeInv, [Next]_vars PROVE TypeInv'
  <2>1. CASE Next
    <3>1. CASE Session
      BY <1>1, <3>1, SendingTypes, BeginTypes, PullTypes, AckTypes, EndTypes, StopTypes,
         ReceivingTypes, GetBitTypes, LowTypes, AnsweredTypes DEF Session
    <3> QED
      BY <1>1, <2>1, <3>1, StopTypes, StartTypes, SwitchTypes DEF Next
  <2>2. CASE UNCHANGED vars
    BY <1>1, <2>2 DEF vars, kernal, TypeInv
  <2> QED
    BY <1>1, <2>1, <2>2
<1> QED
  BY <1>1, InitType, PTL DEF Spec

(* TypeOK: the devices, the lines and the byte under way are of their types; the
   bit counted by the kernal never passes the width of a byte. *)
THEOREM TypeCorrect == Spec => []TypeOK
<1>1. TypeInv => TypeOK
  BY DEF TypeInv, TypeOK, Computers
<1> QED
  BY <1>1, TypesKept, PTL
-----------------------------------------------------------------------------
(* What one run makes of the record r of device d with the lines as in bus,
   whatever the file side answers. *)

Heard(r, s) ==
    LET q == [r EXCEPT !.st = s, !.byte = {}]
    IN  IF s = SERIAL_OK THEN Goto(Lines(q, TRUE, FALSE), "PRE2") ELSE Goto(q, "DONE0")

Fetched(r, b, s) ==
    LET q == [r EXCEPT !.byte = b, !.st = s]
    IN  IF s = SERIAL_OK THEN [Goto(After(q, 0), "BIT") EXCEPT !.bit = 0]
        ELSE IF s = SERIAL_EOF THEN Goto(q, "EOI")
        ELSE [q EXCEPT !.talking = FALSE]

Acts(r, q, d, bus) ==
    /\ r.atn \/ r.listening =>
          IF DataIsHere(r, bus) THEN \E s \in Status : q = Heard(r, s) ELSE q = Listened(r, d, bus)
    /\ ~r.atn /\ ~r.listening /\ r.talking =>
          IF Fetches(r, bus) THEN \E b \in Byte, s \in Status : q = Fetched(r, b, s)
                             ELSE q = Talked(r, bus)
    /\ ~r.atn /\ ~r.listening /\ ~r.talking => q = r

Rises(r, d, q) ==
    /\ ~q.atn /\ Same(r, q)
    /\ \E p \in Device :
          /\ Heeded(r, d, p)
          /\ q.listening = p.listening /\ q.talking = p.talking /\ q.state = p.state
          /\ q.clk = (p.clk \/ (~p.listening /\ ~p.talking))
          /\ q.data = (p.data \/ (~p.listening /\ ~p.talking))

Becomes(r, q, d, bus) ==
    /\ ~r.atn /\ ~bus.atn => q = Listened(Attention(r), d, bus)
    /\ r.atn /\ bus.atn => \E p \in Device : Rises(r, d, p) /\ Acts(p, q, d, bus)
    /\ r.atn # bus.atn => Acts(r, q, d, bus)

LEMMA ActActs ==
    ASSUME NEW v \in Worlds, NEW d \in Devs, NEW bus \in Computers
    PROVE  Acts(v.dev[d], Act(v, d, bus).dev[d], d, bus)
<1> DEFINE r == v.dev[d]
           q == Act(v, d, bus).dev[d]
<1>1. r \in Device /\ bus.data \in BOOLEAN
  BY WorldFields DEF Computers
<1>2. CASE r.atn \/ r.listening
  <2>1. Act(v, d, bus) = ListenStep(v, d, bus)
    BY <1>2 DEF Act
  <2>2. CASE DataIsHere(r, bus)
    <3> DEFINE f == FsWrite(SetSt(v.fs, r.st), d, r.byte)
    <3>1. ListenStep(v, d, bus) = DataByte(v, d)
      BY <2>2 DEF ListenStep
    <3>2. f.st \in Status
      BY DataByteIs, FsFields
    <3>3. DataByte(v, d).dev = [v.dev EXCEPT ![d] = Heard(r, f.st)]
      BY DataByteIs DEF Heard
    <3> HIDE DEF f
    <3>4. q = Heard(r, f.st)
      BY <2>1, <3>1, <3>3, WorldFields
    <3> QED
      BY <1>2, <2>2, <3>2, <3>4 DEF Acts
  <2>3. CASE ~DataIsHere(r, bus)
    <3>1. ListenStep(v, d, bus) = Put(v, d, Listened(r, d, bus))
      BY <2>3 DEF ListenStep
    <3>2. Listened(r, d, bus) \in Device /\ Listened(r, d, bus).enabled = r.enabled
      BY <1>1, ListenedType, StaysEnabled
    <3>3. q = Listened(r, d, bus)
      BY <2>1, <3>1, <3>2, PutAlone
    <3>4. ASSUME NEW z, z = Listened(r, d, bus) PROVE Acts(r, z, d, bus)
      BY <1>2, <2>3, <3>4 DEF Acts
    <3> QED
      BY <3>3, <3>4
  <2> QED
    BY <2>2, <2>3
<1>3. CASE ~r.atn /\ ~r.listening /\ r.talking
  <2>1. Act(v, d, bus) = TalkStep(v, d, bus)
    BY <1>3 DEF Act
  <2>2. CASE Fetches(r, bus)
    <3> DEFINE b == NextByte(v.fs, d)
               f == FsRead(SetSt(v.fs, r.st), d)
    <3>1. TalkStep(v, d, bus) = Fetch(v, d)
      BY <2>2 DEF TalkStep
    <3>2. f.st \in Status /\ b \in Byte
      BY FetchIs
    <3>3. Fetch(v, d).dev = [v.dev EXCEPT ![d] = Fetched(r, b, f.st)]
      BY FetchIs DEF Fetched
    <3> HIDE DEF f, b
    <3>4. q = Fetched(r, b, f.st)
      BY <2>1, <3>1, <3>3, WorldFields
    <3> QED
      BY <1>3, <2>2, <3>2, <3>4 DEF Acts
  <2>3. CASE ~Fetches(r, bus)
    <3>1. TalkStep(v, d, bus) = Put(v, d, Talked(r, bus))
      BY <2>3 DEF TalkStep
    <3>2. Talked(r, bus) \in Device
      <4> HIDE DEF r
      <4> QED
        BY <1>1, TalkedType
    <3>3. Talked(r, bus).enabled = r.enabled
      BY <1>1, StaysEnabled
    <3>4. q = Talked(r, bus)
      BY <2>1, <3>1, <3>2, <3>3, PutAlone
    <3>5. ASSUME NEW z, z = Talked(r, bus) PROVE Acts(r, z, d, bus)
      BY <1>3, <2>3, <3>5 DEF Acts
    <3> QED
      BY <3>4, <3>5
  <2> QED
    BY <2>2, <2>3
<1>4. CASE ~r.atn /\ ~r.listening /\ ~r.talking
  BY <1>4 DEF Acts, Act
<1> QED
  BY <1>2, <1>3, <1>4

LEMMA ExecBecomes ==
    ASSUME NEW v \in Worlds, NEW d \in Devs, NEW bus \in Computers
    PROVE  Becomes(v.dev[d], ExecMain(v, d, bus).dev[d], d, bus)
<1> DEFINE r == v.dev[d]
           f == Flanks(v, d, bus)
<1>1. r \in Device /\ r.atn \in BOOLEAN /\ bus.atn \in BOOLEAN
  BY WorldFields, Fields DEF Computers
<1>2. f \in Worlds
  BY FlanksAlone DEF Alone
<1>3. PICK q : q = ExecMain(v, d, bus).dev[d] /\ Acts(f.dev[d], q, d, bus)
  BY <1>2, ActActs DEF ExecMain
<1> SUFFICES Becomes(r, q, d, bus)
  BY <1>3
<1>4. CASE ~r.atn /\ ~bus.atn
  <2>1. f = Put(v, d, Attention(r))
    BY <1>4 DEF Flanks
  <2>2. Attention(r) \in Device /\ Attention(r).enabled = r.enabled
    BY <1>1, AttentionType, StaysEnabled
  <2>3. f.dev[d] = Attention(r)
    BY <2>1, <2>2, PutAlone
  <2>4. Attention(r).atn /\ Attention(r).state = "PRE0"
    BY <1>1 DEF Attention, Goto, After, Lines, Device
  <2>5. q = Listened(Attention(r), d, bus)
    <3> HIDE DEF f
    <3> QED
      BY <1>3, <2>3, <2>4 DEF Acts, DataIsHere
  <2> QED
    BY <1>1, <1>3, <1>4, <2>5 DEF Becomes
<1>5. CASE r.atn /\ bus.atn
  <2>1. f = Released(v, d)
    BY <1>5 DEF Flanks
  <2>2. PICK p \in Device, g \in FileSide : Released(v, d) = Turned(v, d, p, g) /\ Rises(r, d, p)
    BY ReleasedIs DEF Rises
  <2>3. f.dev[d] = p
    BY <2>1, <2>2, TurnedFacts
  <2> QED
    BY <1>3, <1>5, <2>2, <2>3 DEF Becomes
<1>6. CASE r.atn # bus.atn
  <2>1. f = v
    BY <1>1, <1>6 DEF Flanks
  <2> QED
    BY <1>1, <1>3, <1>6, <2>1 DEF Becomes
<1> QED
  BY <1>1, <1>4, <1>5, <1>6

(* r when n units of time have passed. *)
Later(r, n) == After(r, IF r.timeout > n THEN r.timeout - n ELSE 0)

LEMMA LaterIs ==
    ASSUME NEW r \in Device, NEW n \in Nat
    PROVE  /\ Later(r, n) \in Device /\ Same([r EXCEPT !.timeout = Later(r, n).timeout], Later(r, n))
           /\ Later(r, n).timeout = IF r.timeout > n THEN r.timeout - n ELSE 0
           /\ Later(r, n).enabled = r.enabled /\ Later(r, n).atn = r.atn
           /\ Later(r, n).listening = r.listening /\ Later(r, n).talking = r.talking
           /\ Later(r, n).state = r.state /\ Later(r, n).bit = r.bit /\ Later(r, n).byte = r.byte
           /\ Later(r, n).primary = r.primary /\ Later(r, n).secondary = r.secondary
           /\ Later(r, n).clk = r.clk /\ Later(r, n).data = r.data /\ Later(r, n).st = r.st
<1>1. (IF r.timeout > n THEN r.timeout - n ELSE 0) \in 0 .. T1000
  BY Fields, Consts
<1> QED
  BY <1>1, Updates DEF Later, After, Device, Same

(* The lines that device d is shown: those of the computer, and of the devices
   either as they were or as they have become. *)
Shown(bus, d, N) ==
    /\ bus \in Computers /\ bus.atn = cpu.atn
    /\ (\A e \in Devs \ {d} : dev[e].clk /\ \A r \in N[e] : r.clk) => bus.clk = (cpu.clk /\ dev[d].clk)
    /\ (\A e \in Devs \ {d} : dev[e].data /\ \A r \in N[e] : r.data) =>
          bus.data = (cpu.data /\ dev[d].data)

(* From what each device becomes by itself to what all of them do in one access. *)
LEMMA RunTo ==
    ASSUME TypeInv, NEW n \in Nat, Moved(World(n)), NEW N,
           \A d \in Devs : ~dev[d].enabled => Later(dev[d], n) \in N[d],
           \A d \in Devs, q \in Device, bus \in Computers :
               /\ dev[d].enabled /\ q.enabled /\ Shown(bus, d, N)
               /\ Becomes(Later(dev[d], n), q, d, bus)
               => q \in N[d]
    PROVE  \A d \in Devs : dev'[d] \in N[d] /\ dev'[d].enabled = dev[d].enabled
<1> DEFINE w == [dev |-> Aged(dev, n), fs |-> Quiet(fs), taken |-> taken, gave |-> gave]
<1>1. Aged(dev, n) \in [Devs -> Device]
  BY AgedType DEF TypeInv
<1>2. w \in Worlds
  BY <1>1, FsFields DEF Worlds, TypeInv
<1>3. \A d \in Devs : w.dev[d] = Later(dev[d], n)
  BY DEF Aged, Later
<1>4. \A d \in Devs : dev[d] \in Device /\ Later(dev[d], n) \in Device
                      /\ Later(dev[d], n).enabled = dev[d].enabled
                      /\ Later(dev[d], n).clk = dev[d].clk /\ Later(dev[d], n).data = dev[d].data
  BY LaterIs DEF TypeInv
<1> HIDE DEF w
<1>5. cpu \in Computers
  BY DEF TypeInv
<1>6. PICK g : Sweeps(g, w, cpu) /\ Exec(w, cpu).dev = g[NumDevs].dev
  BY <1>2, <1>5, ExecIs
<1>7. World(n) = Exec(w, cpu)
  BY DEF World, w
<1>8. dev' = g[NumDevs].dev
  BY <1>6, <1>7 DEF Moved
<1> DEFINE T == {k \in 0 .. NumDevs : \A e \in Devs : e <= k => g[k].dev[e] \in N[e]}
<1>9. 0 \in T
  BY Consts DEF Devs
<1>10. ASSUME NEW k \in 0 .. NumDevs - 1, k \in T PROVE k + 1 \in T
  <2> DEFINE d == k + 1
             v == g[k]
             y == g[k + 1]
  <2>1. d \in Devs /\ k \in 0 .. NumDevs /\ d \in 0 .. NumDevs /\ d - 1 = k
    BY Consts DEF Devs
  <2>2. v \in Worlds /\ y = ExecOne(v, d, cpu) /\ y \in Worlds
    BY <1>6, <2>1 DEF Sweeps
  <2>3. \A e \in Devs : /\ e > k => v.dev[e] = Later(dev[e], n)
                        /\ e <= k => v.dev[e] \in N[e]
    BY <1>3, <1>6, <1>10, <2>1 DEF Sweeps
  <2>4. v.dev[d] = Later(dev[d], n) /\ v.dev[d] \in Device /\ y.dev[d] \in Device
    BY <2>1, <2>2, <2>3, WorldFields
  <2>5. \A e \in Devs : e # d => y.dev[e] = v.dev[e]
    <3> HIDE DEF d
    <3> QED
      BY <1>5, <2>1, <2>2, ExecOneAlone DEF Alone
  <2>6. y.dev[d] \in N[d]
    <3>1. CASE ~dev[d].enabled
      <4>1. y = v
        BY <1>4, <2>1, <2>2, <2>4, <3>1 DEF ExecOne
      <4> QED
        BY <2>1, <2>4, <3>1, <4>1
    <3>2. CASE dev[d].enabled
      <4> DEFINE bus == Bus(v, cpu)
      <4>1. y = ExecMain(v, d, bus)
        BY <1>4, <2>1, <2>2, <2>4, <3>2 DEF ExecOne
      <4>2. bus \in Computers /\ bus.atn = cpu.atn
            /\ bus.clk = (cpu.clk /\ \A e \in Devs : v.dev[e].clk)
            /\ bus.data = (cpu.data /\ \A e \in Devs : v.dev[e].data)
        BY <1>5, <2>2, BusType DEF Bus
      <4>3. Becomes(v.dev[d], y.dev[d], d, bus)
        <5> HIDE DEF bus, d, v
        <5> QED
          BY <2>1, <2>2, <4>1, <4>2, ExecBecomes
      <4>4. v.dev[d].clk = dev[d].clk /\ v.dev[d].data = dev[d].data
        BY <1>4, <2>1, <2>4
      <4> HIDE DEF bus, v, d, y
      <4>5. \A e \in Devs \ {d} : v.dev[e] \in N[e] \/ v.dev[e] = Later(dev[e], n)
        BY <2>1, <2>3, Consts DEF Devs
      <4>6. Shown(bus, d, N)
        <5>1. ASSUME \A e \in Devs \ {d} : dev[e].clk /\ \A r \in N[e] : r.clk
              PROVE  bus.clk = (cpu.clk /\ dev[d].clk)
          <6>1. \A e \in Devs \ {d} : v.dev[e].clk
            BY <1>4, <4>5, <5>1
          <6> QED
            BY <2>1, <4>2, <4>4, <6>1
        <5>2. ASSUME \A e \in Devs \ {d} : dev[e].data /\ \A r \in N[e] : r.data
              PROVE  bus.data = (cpu.data /\ dev[d].data)
          <6>1. \A e \in Devs \ {d} : v.dev[e].data
            BY <1>4, <4>5, <5>2
          <6> QED
            BY <2>1, <4>2, <4>4, <6>1
        <5> QED
          BY <4>2, <5>1, <5>2 DEF Shown
      <4>7. y.dev[d].enabled
        <5>1. y.dev[d].enabled = v.dev[d].enabled
          BY <1>5, <2>1, <2>2, ExecOneAlone DEF Alone
        <5> QED
          BY <1>4, <2>1, <2>4, <3>2, <5>1
      <4> QED
        BY <2>1, <2>4, <3>2, <4>2, <4>3, <4>6, <4>7
    <3> QED
      BY <3>1, <3>2
  <2>7. \A e \in Devs : e <= d => y.dev[e] \in N[e]
    BY <2>1, <2>3, <2>5, <2>6 DEF Devs
  <2> QED
    BY <2>1, <2>7
<1> HIDE DEF T
<1>11. 0 .. NumDevs \subseteq T
  BY <1>9, <1>10, Consts, SetUpTo
<1>12. NumDevs \in T
  BY <1>11, Consts
<1>13. \A d \in Devs : d <= NumDevs /\ d \in 0 .. NumDevs /\ NumDevs \in 0 .. NumDevs
  BY Consts DEF Devs
<1>14. \A d \in Devs : dev'[d] \in N[d]
  BY <1>8, <1>12, <1>13 DEF T
<1>15. \A d \in Devs : dev'[d].enabled = dev[d].enabled
  BY <1>3, <1>4, <1>6, <1>8, <1>13 DEF Sweeps
<1> QED
  BY <1>14, <1>15
-----------------------------------------------------------------------------
(* Where the devices are.  A follower is in step with the kernal: at label l, of
   bit b of the byte s, having waited t, it is in one state. *)

Part(b, k) == {i \in b : i < k}

DataLow == {"hold", "look", "present", "offer", "await", "eoi2",
            "release", "turn1", "turn2", "turn3", "off"}

Keeps(r, l, b, s, t) ==
    /\ r.clk /\ r.data = (l \notin DataLow)
    /\ l = "hold" => r.state = "PRE0" /\ r.timeout = T100
    /\ l = "look" => r.state = "PRE1"
    /\ l \in {"present", "offer", "await", "release", "turn1", "turn2", "turn3", "off"} =>
          r.state = "PRE2"
    /\ l = "eoi1" => r.state = "READY" /\ r.timeout > 0 /\ t + r.timeout = T200
    /\ l = "eoi2" => r.state = "EOI" /\ r.timeout > 0 /\ t + r.timeout = T60
    /\ l = "begin" => r.state = "EOIw" \/ (r.state = "READY" /\ r.timeout = T200)
    /\ l = "bit" /\ b = 0 => r.state \in {"READY", "EOIw"}
    /\ l = "bit" /\ b # 0 => r.state = "BITw" /\ r.bit = b - 1 /\ r.byte = Part(s, b)
    /\ l \in {"valid", "pull"} => r.state = "BIT" /\ r.bit = b /\ r.byte = Part(s, b)
    /\ l = "ack" => r.state = "BITw" /\ r.bit = NBits - 1 /\ r.byte = s

Follows(r) == Keeps(r, pc, bit, Sending, wait)

(* A device that takes no part, or has had enough. *)
Silent(r) == r.clk /\ r.data /\ (r.atn \/ r.listening => r.state = "DONE0")

Used == {d \in Devs : dev[d].enabled}

(* A device that is switched off. *)
Away(r) == ~r.enabled /\ r.clk /\ r.data /\ ~r.talking

(* No session, or its end: *)
Loose(r, d) == /\ r.clk /\ (~r.atn /\ ~r.listening => r.data)
               /\ r.atn => r.primary # TALK(d)
               /\ r.talking => r.atn /\ r.primary = UNTALK

Calm(r) == ~r.atn /\ ~r.talking /\ r.clk /\ (~r.listening => r.data)

(* ATN has just been pulled. *)
Fresh(r) == ~r.atn /\ (IF r.talking THEN cmds = <<UNTALK>> ELSE Calm(r))

StageOne == \/ job = "unlisten" /\ cmds \in {<<UNLISTEN>>, <<UNTALK>>}
            \/ job \in Jobs /\ \E x \in Devs : cmds = CommandsOf(job, x)

First(r) == /\ r.atn /\ (r.talking => cmds = <<UNTALK>>) /\ r.primary = {} /\ Follows(r)

Refused(r, d) == /\ r.atn /\ ~r.talking /\ Silent(r) /\ r.primary = Head(cmds)
                 /\ r.primary \notin {UNLISTEN, UNTALK, LISTEN(d), TALK(d)}

Call(x) == IF job = "read" THEN TALK(x) ELSE LISTEN(x)

Second(r, d, x) == /\ r.atn /\ ~r.talking /\ r.primary = Call(x)
                   /\ IF d = x THEN Follows(r) ELSE Silent(r)

Inert(r) == ~r.atn /\ ~r.talking /\ Silent(r)

Hears(r) == ~r.atn /\ r.listening /\ ~r.talking /\ Follows(r)

(* The talker at label l, having been waited for for t, with bit b to come, e if
   its end was signalled, and f if the computer has been late. *)
Voice(r, l, t, b, e, f) ==
    LET fits == r.st = IF e THEN SERIAL_EOF ELSE SERIAL_OK
        free == r.clk /\ r.data
        held == ~r.clk /\ r.data
    IN  /\ ~r.atn /\ ~r.listening /\ r.talking
        /\ l = "turned" => r.state = "PRE0" /\ r.clk
        /\ l = "ready" =>
              /\ ~e
              /\ \/ /\ r.state = "PRE1" /\ held
                    /\ \/ t + r.timeout <= T80
                       \/ r.timeout = 0 /\ (t <= T200 \/ f)
                 \/ r.state = "DONE1" /\ held /\ t = 0 /\ fits
                 \/ f /\ r.state = "FRAMEERR0" /\ free /\ r.timeout <= T100
                 \/ f /\ r.state = "FRAMEERR1" /\ held
        /\ l = "accept" =>
              /\ free
              /\ \/ r.state = "READY" /\ ~e
                 \/ r.state = "EOI" /\ e /\ fits
                 \/ f /\ r.state = "FRAMEERR0" /\ r.timeout <= T100
        /\ l = "clock" =>
              /\ b = 0
              /\ \/ r.state = "READY" /\ free /\ ~e /\ t = 0
                 \/ r.state = "BIT" /\ r.bit = b /\ r.timeout = 0 /\ free /\ t < T200 /\ fits
                 \/ r.state = "EOI" /\ free /\ ~e /\ r.st = SERIAL_EOF
                 \/ r.state = "EOIw" /\ free /\ t = 0 /\ e /\ fits
                 \/ f /\ r.state = "FRAMEERR0" /\ free /\ t + r.timeout <= T100
                 \/ f /\ r.state = "FRAMEERR1" /\ held
        /\ l = "answer" => r.state = "EOI" /\ free /\ ~e /\ r.st = SERIAL_EOF
        /\ l = "high" =>
              \/ r.state = "BITw" /\ ~r.clk /\ r.bit = b /\ t + r.timeout <= T60 /\ fits
              \/ f /\ r.state = "FRAMEERR1" /\ held
        /\ l = "low" => /\ r.clk /\ t + r.timeout <= T60 /\ fits
                        /\ \/ r.state = "BIT" /\ r.bit = b
                           \/ r.state = "DONE0" /\ b = NBits
        /\ l = "answered" => r.state = "DONE1" /\ held /\ r.timeout = T1000 /\ t = 0 /\ fits
        /\ l = "off" => r.state \in {"DONE1", "FRAMEERR0"}

Speaks(r) == Voice(r, pc, wait, bit, eoi, late)

Reading == {"turned", "ready", "accept", "clock", "answer", "high", "low", "answered"}

InAtn == \/ pc \in {"attend", "hold", "look", "release", "turn1", "turn2"}
         \/ pc \in Sends \cup {"present"} /\ cmds # <<>>

CpuOk ==
    /\ pc # "finish" => cpu.atn = ~InAtn
    /\ pc \in {"hold", "look", "present", "offer", "bit", "valid", "ack",
               "release", "turn1", "turn2", "turn3"} => ~cpu.clk
    /\ pc \in Reading \cup {"idle", "await", "eoi1", "eoi2", "begin", "pull"} => cpu.clk
    /\ pc \in {"valid", "pull"} => cpu.data = Bit(Sending, bit)
    /\ pc = "off" /\ job = "read" => ~cpu.data
    /\ pc \in {"turn2", "turn3", "turned", "ready", "accept"} => ~cpu.data
    /\ pc \in {"idle", "clock", "answer", "high", "low", "answered",
               "attend", "hold", "look", "present", "release", "turn1"}
              \cup (Sends \ {"valid", "pull"}) => cpu.data

AllFirst   == StageOne /\ \A d \in Used : First(dev[d])
AllRefused == StageOne /\ \A d \in Used : Refused(dev[d], d)
AllSecond  == job \in Jobs /\ \E x \in Used : \A d \in Used : Second(dev[d], d, x)
AllHear    == job \in Jobs \ {"read"} /\ \A d \in Used : Hears(dev[d]) \/ Inert(dev[d])
OneSpeaks  == /\ job = "read"
              /\ \E x \in Used : /\ \/ Speaks(dev[x])
                                    \/ pc \in {"accept", "clock", "answer"} /\ Inert(dev[x])
                                 /\ \A d \in Used : d # x => Inert(dev[d])

Apart ==
    /\ pc \in {"idle", "letgo", "finish"} => \A d \in Used : Loose(dev[d], d)
    /\ pc = "idle" => \A d \in Devs : ~dev[d].talking
    /\ pc = "finish" /\ ~cpu.atn =>
          ~cpu.clk /\ \A d \in Used : dev[d].atn /\ dev[d].state \in {"PRE2", "DONE0"}
Called ==
    /\ pc = "attend" => StageOne /\ \A d \in Used : Fresh(dev[d])
    /\ pc \in {"hold", "look"} => AllFirst
    /\ pc \in Sends \cup {"present"} /\ cmds # <<>> =>
          \/ AllFirst
          \/ pc = "ack" /\ AllRefused
          \/ pc # "present" /\ Len(cmds) = 1 /\ AllSecond
    /\ pc \in {"eoi1", "eoi2"} => cmds = <<>>
    /\ pc \in {"release", "turn1", "turn2", "turn3"} \/ (pc = "present" /\ cmds = <<>>) =>
          cmds = <<>> /\ AllSecond /\ (pc \in {"release", "present"} <=> job # "read")
Spoken ==
    /\ pc \in Sends /\ cmds = <<>> =>
          /\ AllHear
          /\ pc \in {"offer", "await", "eoi1", "eoi2"} => \E d \in Used : Hears(dev[d])
    /\ pc \in Reading => cmds = <<>> /\ OneSpeaks /\ (pc \in {"turned", "ready"} => ~eoi)
    /\ pc = "off" => OneSpeaks \/ AllHear \/ (job # "read" /\ AllSecond)

(* The computer is patient, and the end of a file belongs to what it reads. *)
Patient == wait < Patience \/ late
Ended   == eoi => job = "unlisten" \/ pc \in Reading \cup {"off", "finish", "letgo"}

SessInv ==
  /\ CpuOk
  /\ \A d, e \in Devs : dev[d].talking /\ dev[e].talking => d = e
  /\ \A d \in Devs : ~dev[d].enabled => Away(dev[d])
  /\ Apart /\ Called /\ Spoken /\ Patient /\ Ended
-----------------------------------------------------------------------------
(* The lines that device d sees, when the others do with them as N says. *)
Sees(d, bus, N) ==
    /\ bus \in Computers /\ bus.atn = cpu.atn
    /\ (\A e \in Used \ {d} : dev[e].clk /\ \A r \in N[e] : r.clk) => bus.clk = (cpu.clk /\ dev[d].clk)
    /\ (\A e \in Used \ {d} : dev[e].data /\ \A r \in N[e] : r.data) =>
          bus.data = (cpu.data /\ dev[d].data)

LEMMA RunAll ==
    ASSUME TypeInv, \A d \in Devs : ~dev[d].enabled => Away(dev[d]),
           NEW n \in Nat, Moved(World(n)), NEW N,
           \A d \in Used, q \in Device, bus \in Computers :
               q.enabled /\ Sees(d, bus, N) /\ Becomes(Later(dev[d], n), q, d, bus) => q \in N[d]
    PROVE  /\ Used' = Used /\ dev' \in [Devs -> Device]
           /\ \A d \in Devs : ~dev'[d].enabled => Away(dev'[d])
           /\ \A d \in Devs : ~dev'[d].clk \/ ~dev'[d].data \/ dev'[d].talking => d \in Used
           /\ \A d \in Used : dev'[d] \in N[d]
<1> DEFINE M == [d \in Devs |-> IF dev[d].enabled THEN N[d] ELSE {Later(dev[d], n)}]
<1>1. \A d \in Devs : dev[d] \in Device /\ dev[d].enabled \in BOOLEAN
  BY Fields DEF TypeInv
<1>2. \A d \in Devs : ~dev[d].enabled => Later(dev[d], n) \in M[d]
  BY <1>1
<1>3. ASSUME NEW d \in Devs, ~dev[d].enabled PROVE Away(Later(dev[d], n))
  <2> DEFINE r == dev[d]
             s == Later(r, n)
  <2>1. /\ s.enabled = r.enabled /\ s.clk = r.clk /\ s.data = r.data /\ s.talking = r.talking
    BY <1>1, LaterIs
  <2>2. Away(r)
    BY <1>3
  <2> HIDE DEF r, s
  <2>3. Away(s)
    BY <2>1, <2>2 DEF Away
  <2> QED
    BY <2>3 DEF r, s
<1>4. ASSUME NEW d \in Devs, NEW q \in Device, NEW bus \in Computers, dev[d].enabled, q.enabled,
             Shown(bus, d, M), Becomes(Later(dev[d], n), q, d, bus)
      PROVE  q \in M[d]
  <2>1. d \in Used
    BY <1>4 DEF Used
  <2>2. ASSUME \A e \in Used \ {d} : dev[e].clk /\ \A r \in N[e] : r.clk
        PROVE  \A e \in Devs \ {d} : dev[e].clk /\ \A r \in M[e] : r.clk
    BY <1>1, <1>3, <2>2 DEF Used, Away
  <2>3. ASSUME \A e \in Used \ {d} : dev[e].data /\ \A r \in N[e] : r.data
        PROVE  \A e \in Devs \ {d} : dev[e].data /\ \A r \in M[e] : r.data
    BY <1>1, <1>3, <2>3 DEF Used, Away
  <2> HIDE DEF M
  <2>4. Sees(d, bus, N)
    BY <1>4, <2>2, <2>3 DEF Sees, Shown
  <2>5. q \in N[d]
    BY <1>4, <2>1, <2>4
  <2> QED
    BY <1>4, <2>5 DEF M
<1>5. \A d \in Devs : dev'[d] \in M[d] /\ dev'[d].enabled = dev[d].enabled
  <2> HIDE DEF M
  <2> QED
    BY <1>2, <1>4, RunTo
<1>6. dev' \in [Devs -> Device]
  BY WorldType
<1>7. \A d \in Devs : ~dev'[d].enabled => Away(dev'[d])
  BY <1>1, <1>3, <1>5
<1>8. Used' = Used
  BY <1>5 DEF Used
<1>9. \A d \in Devs : ~dev'[d].clk \/ ~dev'[d].data \/ dev'[d].talking => d \in Used
  BY <1>5, <1>7 DEF Used, Away
<1>10. \A d \in Used : dev'[d] \in N[d]
  BY <1>5 DEF Used
<1> QED
  BY <1>6, <1>7, <1>8, <1>9, <1>10
-----------------------------------------------------------------------------
LEMMA Parts ==
    ASSUME NEW s \in Byte, NEW k \in Nat
    PROVE  /\ Part(s, 0) = {} /\ Part(s, NBits) = s
           /\ WithBit(Part(s, k), k, k \in s) = Part(s, k + 1)
<1>1. \A i \in s : i \in Nat /\ i < NBits
  BY Consts DEF Byte
<1>2. Part(s, 0) = {} /\ Part(s, NBits) = s
  BY <1>1 DEF Part
<1>3. ASSUME NEW i PROVE i \in WithBit(Part(s, k), k, k \in s) <=> i \in Part(s, k + 1)
  <2>1. i \in Part(s, k) <=> i \in s /\ i < k
    BY DEF Part
  <2>2. i \in Part(s, k + 1) <=> i \in s /\ i < k + 1
    BY DEF Part
  <2>3. i \in WithBit(Part(s, k), k, k \in s) <=> (i = k /\ k \in s) \/ (i # k /\ i \in Part(s, k))
    BY DEF WithBit
  <2>4. i \in s => (i < k + 1 <=> i < k \/ i = k) /\ ~(i < k /\ i = k)
    BY <1>1
  <2> QED
    BY <2>1, <2>2, <2>3, <2>4
<1> QED
  BY <1>2, <1>3

LEMMA SendingType ==
    ASSUME TypeInv, pc \in Sends
    PROVE  Sending \in Byte
<1>1. cmds # <<>> \/ msg # <<>>
  BY DEF TypeInv
<1> QED
  BY <1>1, TailType DEF Sending, TypeInv
-----------------------------------------------------------------------------
(* One device, one access. *)

(* The flags and the byte that r was called with. *)
Carries(r, q) == /\ q.enabled = r.enabled /\ q.atn = r.atn /\ q.listening = r.listening
                 /\ q.talking = r.talking /\ q.primary = r.primary

LEMMA LaterCarries ==
    ASSUME NEW r \in Device, NEW n \in Nat
    PROVE  /\ Later(r, n) \in Device /\ Carries(r, Later(r, n))
           /\ Later(r, n).state = r.state /\ Later(r, n).bit = r.bit /\ Later(r, n).byte = r.byte
           /\ Later(r, n).clk = r.clk /\ Later(r, n).data = r.data /\ Later(r, n).st = r.st
           /\ Later(r, n).timeout = IF r.timeout > n THEN r.timeout - n ELSE 0
           /\ Later(r, n).timeout \in Nat
  BY LaterIs, Consts, Fields DEF Carries

LEMMA UnderAtn ==
    ASSUME NEW r \in Device, NEW n \in Nat, NEW q, NEW d, NEW bus \in Computers,
           r.atn, ~bus.atn, Becomes(Later(r, n), q, d, bus)
    PROVE  q = Listened(Later(r, n), d, bus)
<1> DEFINE s == Later(r, n)
<1>1. s.atn
  BY LaterCarries DEF Carries
<1> HIDE DEF s
<1> SUFFICES ASSUME Becomes(s, q, d, bus) PROVE q = Listened(s, d, bus)
  BY DEF s
<1>2. ~DataIsHere(s, bus)
  BY <1>1 DEF DataIsHere
<1>3. Acts(s, q, d, bus)
  BY <1>1 DEF Becomes
<1> QED
  BY <1>1, <1>2, <1>3 DEF Acts

LEMMA Listening ==
    ASSUME NEW r \in Device, NEW n \in Nat, NEW q, NEW d, NEW bus \in Computers,
           ~r.atn, r.listening, bus.atn, Becomes(Later(r, n), q, d, bus)
    PROVE  IF DataIsHere(Later(r, n), bus) THEN \E st \in Status : q = Heard(Later(r, n), st)
           ELSE q = Listened(Later(r, n), d, bus)
<1> DEFINE s == Later(r, n)
<1>1. ~s.atn /\ s.listening
  BY LaterCarries DEF Carries
<1> HIDE DEF s
<1> SUFFICES ASSUME Becomes(s, q, d, bus)
             PROVE  IF DataIsHere(s, bus) THEN \E st \in Status : q = Heard(s, st)
                    ELSE q = Listened(s, d, bus)
  BY DEF s
<1>3. Acts(s, q, d, bus)
  BY <1>1 DEF Becomes
<1> QED
  BY <1>1, <1>3 DEF Acts

LEMMA Talking ==
    ASSUME NEW r \in Device, NEW n \in Nat, NEW q, NEW d, NEW bus \in Computers,
           ~r.atn, ~r.listening, r.talking, bus.atn, Becomes(Later(r, n), q, d, bus)
    PROVE  IF Fetches(Later(r, n), bus)
           THEN \E b \in Byte, st \in Status : q = Fetched(Later(r, n), b, st)
           ELSE q = Talked(Later(r, n), bus)
<1> DEFINE s == Later(r, n)
<1>1. ~s.atn /\ ~s.listening /\ s.talking
  BY LaterCarries DEF Carries
<1> HIDE DEF s
<1> SUFFICES ASSUME Becomes(s, q, d, bus)
             PROVE  IF Fetches(s, bus) THEN \E b \in Byte, st \in Status : q = Fetched(s, b, st)
                    ELSE q = Talked(s, bus)
  BY DEF s
<1>3. Acts(s, q, d, bus)
  BY <1>1 DEF Becomes
<1> QED
  BY <1>1, <1>3 DEF Acts

LEMMA Idling ==
    ASSUME NEW r \in Device, NEW n \in Nat, NEW q, NEW d, NEW bus \in Computers,
           ~r.atn, ~r.listening, ~r.talking, bus.atn, Becomes(Later(r, n), q, d, bus)
    PROVE  q = Later(r, n)
<1> DEFINE s == Later(r, n)
<1>1. ~s.atn /\ ~s.listening /\ ~s.talking
  BY LaterCarries DEF Carries
<1> HIDE DEF s
<1> SUFFICES ASSUME Becomes(s, q, d, bus) PROVE q = s
  BY DEF s
<1>3. Acts(s, q, d, bus)
  BY <1>1 DEF Becomes
<1> QED
  BY <1>1, <1>3 DEF Acts

(* The device stays as it is. *)
Stays(r, q) == Carries(r, q) /\ q.state = r.state /\ q.clk = r.clk /\ q.data = r.data

LEMMA LaterStays == ASSUME NEW r \in Device, NEW n \in Nat PROVE Stays(r, Later(r, n))
  BY LaterCarries DEF Stays

Rests(r, q) ==
    Stays(r, q) /\ Silent(q)

LEMMA SilentStays ==
    ASSUME NEW r \in Device, NEW n \in Nat, NEW q, NEW d, NEW bus \in Computers,
           r.atn = ~bus.atn, Silent(r), ~r.atn => ~r.talking, Becomes(Later(r, n), q, d, bus)
    PROVE  Rests(r, q)
<1> USE DEF Rests
<1>1. r.atn \in BOOLEAN /\ r.listening \in BOOLEAN /\ r.talking \in BOOLEAN /\ bus.atn \in BOOLEAN
  BY Fields DEF Computers
<1>2. q = Later(r, n)
  <2> DEFINE s == Later(r, n)
  <2>1. s \in Device /\ s.state = r.state
    BY LaterCarries
  <2> HIDE DEF s
  <2>2. r.atn \/ r.listening => s.state = "DONE0" /\ ~DataIsHere(s, bus)
    BY <2>1 DEF Silent, DataIsHere
  <2>3. s.state = "DONE0" => Listened(s, d, bus) = s
    BY <2>1 DEF Listened
  <2>4. CASE r.atn
    BY <1>1, <2>2, <2>3, <2>4, UnderAtn DEF s
  <2>5. CASE ~r.atn /\ r.listening
    BY <1>1, <2>2, <2>3, <2>5, Listening DEF s
  <2>6. CASE ~r.atn /\ ~r.listening
    BY <1>1, <2>6, Idling
  <2> QED
    BY <1>1, <2>4, <2>5, <2>6
<1>3. Stays(r, q)
  BY <1>2, LaterStays
<1> QED
  BY <1>3 DEF Stays, Carries, Silent

(* A listener that waits for the clock, which stays pulled. *)
LEMMA AtnStays ==
    ASSUME NEW r \in Device, NEW n \in Nat, NEW q, NEW d, NEW bus \in Computers,
           r.atn, ~bus.atn, ~bus.clk, r.state \in {"PRE2", "DONE0"}, Becomes(Later(r, n), q, d, bus)
    PROVE  Stays(r, q)
<1> DEFINE s == Later(r, n)
<1>1. s \in Device /\ s.state = r.state
  BY LaterCarries
<1>2. q = Listened(s, d, bus)
  BY UnderAtn
<1> HIDE DEF s
<1>3. q = s
  BY <1>1, <1>2 DEF Listened
<1> QED
  BY <1>3, LaterStays DEF s
(* From the kernal's place to the next, l with bit b. *)
Moves(l, b) ==
    \/ pc = "offer" /\ l = "await" /\ b = bit
    \/ pc = "await" /\ (l = "begin" \/ (l = "eoi1" /\ cmds = <<>>)) /\ b = bit
    \/ pc = "begin" /\ l = "bit" /\ b = 0
    \/ pc = "bit" /\ l = "valid" /\ b = bit
    \/ pc = "valid" /\ l = "pull" /\ b = bit
    \/ pc = "pull" /\ b = bit + 1 /\ l = (IF b = NBits THEN "ack" ELSE "bit")

(* A byte is sent: who follows does so at the next place. *)
Steps(r, q, l, b) ==
    Carries(r, q) /\ Keeps(q, l, b, Sending, 0)

LEMMA FollowOne ==
    ASSUME TypeInv, CpuOk, NEW r \in Device, NEW n \in Delays, NEW q, NEW d,
           NEW bus \in Computers, bus.clk = cpu.clk, pc = "pull" => bus.data = cpu.data,
           r.atn = ~bus.atn, ~r.atn => r.listening, Follows(r),
           Becomes(Later(r, n), q, d, bus), NEW l, NEW b, Moves(l, b)
    PROVE  Steps(r, q, l, b)
<1> USE DEF Steps
<1> DEFINE s == Later(r, n)
<1>1. n \in Nat /\ n > 0 /\ n < T200
  BY Consts
<1>2. /\ s \in Device /\ Carries(r, s) /\ s.state = r.state /\ s.bit = r.bit /\ s.byte = r.byte
      /\ s.clk = r.clk /\ s.data = r.data
      /\ s.timeout = IF r.timeout > n THEN r.timeout - n ELSE 0
  BY <1>1, LaterCarries
<1>3. pc \in {"offer", "await", "begin", "bit", "valid", "pull"}
  BY DEF Moves
<1>4. r.atn \in BOOLEAN /\ bus.atn \in BOOLEAN /\ cpu.clk \in BOOLEAN /\ bit \in Nat /\ r.bit \in Nat
      /\ NBits \in Nat /\ (pc = "bit" => bit < NBits) /\ s.bit = r.bit
      /\ r.clk \in BOOLEAN /\ r.data \in BOOLEAN
  BY <1>2, Fields, Consts DEF Computers, TypeInv
<1>5. ~DataIsHere(s, bus) => q = Listened(s, d, bus)
  <2>1. CASE r.atn
    BY <1>1, <1>4, <2>1, UnderAtn
  <2>2. CASE ~r.atn
    <3>1. bus.atn /\ r.listening
      BY <1>4, <2>2
    <3> QED
      BY <1>1, <2>2, <3>1, Listening
  <2> QED
    BY <2>1, <2>2
<1>6. pc = "bit" /\ bit # 0 => r.bit = bit - 1 /\ r.bit < NBits - 1
  BY <1>4 DEF Follows, Keeps
<1>7. ~DataIsHere(s, bus)
  BY <1>2, <1>3, <1>4, <1>6 DEF DataIsHere, Follows, Keeps, CpuOk, Reading
<1>8. q = Listened(s, d, bus)
  BY <1>5, <1>7
<1>9. Sending \in Byte
  BY <1>3, SendingType DEF Sends
<1>10. bus.clk = (pc \in {"await", "begin", "pull"})
  BY <1>3, <1>4 DEF CpuOk, Reading
<1> HIDE DEF s
<1>11. CASE pc = "offer"
  <2>1. r.state = "PRE2" /\ r.clk /\ ~r.data
    BY <1>11 DEF Follows, Keeps, DataLow
  <2>2. q = s
    BY <1>2, <1>8, <1>10, <1>11, <2>1 DEF Listened
  <2> QED
    BY <1>2, <1>4, <1>11, <2>1, <2>2 DEF Moves, Keeps, DataLow
<1>12. CASE pc = "await"
  <2>1. r.state = "PRE2" /\ r.clk /\ ~r.data
    BY <1>12 DEF Follows, Keeps, DataLow
  <2>2. q = Goto(After(Free(s), T200), "READY")
    BY <1>2, <1>8, <1>10, <1>12, <2>1 DEF Listened
  <2>3. Carries(s, q) /\ q.clk = TRUE /\ q.data = TRUE /\ q.state = "READY" /\ q.timeout = T200
    BY <1>2, <2>2 DEF Goto, After, Free, Lines, Device, Carries
  <2> QED
    <3>1. Carries(r, q)
      BY <1>2, <2>3 DEF Carries
    <3>2. T200 \in Nat /\ q.timeout > 0 /\ 0 + q.timeout = T200
      BY <2>3, Consts
    <3>3. l \in {"begin", "eoi1"}
      BY <1>12 DEF Moves
    <3>4. Keeps(q, "begin", b, Sending, 0)
      BY <2>3 DEF Keeps, DataLow
    <3>5. Keeps(q, "eoi1", b, Sending, 0)
      BY <2>3, <3>2 DEF Keeps, DataLow
    <3> QED
      BY <3>1, <3>3, <3>4, <3>5
<1>13. CASE pc = "begin"
  <2>1. r.state = "EOIw" \/ (r.state = "READY" /\ r.timeout = T200)
    BY <1>13 DEF Follows, Keeps
  <2>2. r.clk /\ r.data
    BY <1>13 DEF Follows, Keeps, DataLow
  <2>3. s.state = "READY" => s.timeout # 0
    BY <1>1, <1>2, <2>1, Consts
  <2>4. q = s
    BY <1>2, <1>8, <1>10, <1>13, <2>1, <2>3 DEF Listened
  <2> QED
    BY <1>2, <1>13, <2>1, <2>2, <2>4 DEF Moves, Keeps, DataLow
<1>14. CASE pc = "bit"
  <2>0. r.clk /\ r.data
    BY <1>14 DEF Follows, Keeps, DataLow
  <2>1. CASE bit = 0
    <3>1. r.state \in {"READY", "EOIw"}
      BY <1>14, <2>1 DEF Follows, Keeps
    <3>2. q = [Goto(s, "BIT") EXCEPT !.bit = 0, !.byte = {}]
      BY <1>2, <1>8, <1>10, <1>14, <3>1 DEF Listened
    <3>3. Carries(s, q) /\ q.clk = s.clk /\ q.data = s.data /\ q.state = "BIT" /\ q.bit = 0 /\ q.byte = {}
      BY <1>2, <3>2 DEF Goto, Device, Carries
    <3> QED
      BY <1>2, <1>9, <1>14, <2>0, <2>1, <3>3, Parts DEF Moves, Keeps, DataLow, Carries
  <2>2. CASE bit # 0
    <3>1. r.state = "BITw" /\ r.byte = Part(Sending, bit)
      BY <1>14, <2>2 DEF Follows, Keeps
    <3>2. s.state = "BITw" /\ ~bus.clk /\ s.bit < NBits - 1 /\ s.bit # NBits - 1
      <4>1. s.state = "BITw" /\ s.bit = r.bit
        BY <1>2, <3>1
      <4>2. ~bus.clk
        BY <1>10, <1>14
      <4>3. r.bit < NBits - 1
        BY <1>6, <1>14, <2>2
      <4> QED
        BY <1>4, <4>1, <4>2, <4>3
    <3>5. q = [Goto(s, "BIT") EXCEPT !.bit = @ + 1]
      BY <1>8, <3>2 DEF Listened
    <3>3. Carries(s, q) /\ q.clk = s.clk /\ q.data = s.data /\ q.state = "BIT" /\ q.bit = s.bit + 1
          /\ q.byte = s.byte
      BY <1>2, <3>5 DEF Goto, Device, Carries
    <3>4. q.bit = bit
      BY <1>2, <1>4, <1>6, <1>14, <2>2, <3>3
    <3> QED
      BY <1>2, <1>14, <2>0, <3>1, <3>3, <3>4 DEF Moves, Keeps, DataLow, Carries
  <2> QED
    BY <2>1, <2>2
<1>15. CASE pc = "valid"
  <2>1. r.state = "BIT" /\ r.clk /\ r.data /\ r.bit = bit /\ r.byte = Part(Sending, bit)
    BY <1>15 DEF Follows, Keeps, DataLow
  <2>2. q = s
    BY <1>2, <1>8, <1>10, <1>15, <2>1 DEF Listened
  <2> QED
    BY <1>2, <1>15, <2>1, <2>2 DEF Moves, Keeps, DataLow
<1>16. CASE pc = "pull"
  <2>1. r.state = "BIT" /\ r.clk /\ r.data /\ r.bit = bit /\ r.byte = Part(Sending, bit)
    BY <1>16 DEF Follows, Keeps, DataLow
  <2>2. bus.data = (bit \in Sending)
    BY <1>16 DEF CpuOk, Bit
  <2>3. q = [Goto(s, "BITw") EXCEPT !.byte = WithBit(@, s.bit, bus.data)]
    BY <1>2, <1>8, <1>10, <1>16, <2>1 DEF Listened
  <2>4. Carries(s, q) /\ q.clk = s.clk /\ q.data = s.data /\ q.state = "BITw" /\ q.bit = s.bit
        /\ q.byte = WithBit(s.byte, s.bit, bus.data)
    BY <1>2, <2>3 DEF Goto, Device, Carries
  <2>5. q.byte = Part(Sending, bit + 1)
    BY <1>2, <1>4, <1>9, <2>1, <2>2, <2>4, Parts
  <2>6. b = bit + 1 /\ l = (IF b = NBits THEN "ack" ELSE "bit")
    BY <1>16 DEF Moves
  <2>7. /\ q.clk /\ q.data /\ q.state = "BITw" /\ q.bit = b - 1
        /\ q.byte = Part(Sending, b)
    BY <1>2, <1>4, <2>1, <2>4, <2>5, <2>6
  <2>8. Part(Sending, NBits) = Sending /\ b # 0
    BY <1>4, <1>9, <2>6, Parts
  <2>9. Keeps(q, l, b, Sending, 0)
    BY <1>4, <2>6, <2>7, <2>8 DEF Keeps, DataLow
  <2> QED
    BY <1>2, <2>4, <2>9 DEF Carries
<1> QED
  BY <1>3, <1>11, <1>12, <1>13, <1>14, <1>15, <1>16
(* The last byte of a message: the listeners pull the data line for a while. *)
Signals(r, q, n) ==
    LET limit == IF pc = "eoi1" THEN T200 ELSE T60
        l     == IF pc = "eoi1" THEN "eoi2" ELSE "begin"
    IN  /\ Carries(r, q)
        /\ wait + n < limit => Keeps(q, pc, bit, Sending, wait + n)
        /\ wait + n >= limit => Keeps(q, l, bit, Sending, 0)

LEMMA EoiOne ==
    ASSUME TypeInv, NEW r \in Device, NEW n \in Delays, NEW q, NEW d, NEW bus \in Computers,
           bus.clk, bus.atn, ~r.atn, r.listening, Follows(r),
           Becomes(Later(r, n), q, d, bus), pc \in {"eoi1", "eoi2"}
    PROVE  Signals(r, q, n)
<1> USE DEF Signals
<1> DEFINE s == Later(r, n)
<1>1. n \in Nat /\ n > 0 /\ wait \in Nat /\ T60 \in Nat /\ T200 \in Nat /\ T60 > 0
  BY Consts DEF TypeInv
<1>2. /\ s \in Device /\ Carries(r, s) /\ s.state = r.state
      /\ s.clk = r.clk /\ s.data = r.data
      /\ s.timeout = IF r.timeout > n THEN r.timeout - n ELSE 0
  BY <1>1, LaterCarries
<1>3. r.clk \in BOOLEAN /\ r.data \in BOOLEAN /\ r.timeout \in Nat /\ ~s.atn
  BY <1>2, Fields, Consts DEF Carries
<1>4. ~DataIsHere(s, bus)
  BY DEF DataIsHere
<1>5. q = Listened(s, d, bus)
  BY <1>1, <1>4, Listening
<1> HIDE DEF s
<1>6. CASE pc = "eoi1"
  <2>1. r.state = "READY" /\ r.timeout > 0 /\ wait + r.timeout = T200 /\ r.clk /\ r.data
    BY <1>6 DEF Follows, Keeps, DataLow
  <2>2. CASE wait + n < T200
    <3>1. s.timeout # 0 /\ s.timeout > 0 /\ (wait + n) + s.timeout = T200
      BY <1>1, <1>2, <1>3, <2>1, <2>2
    <3>2. q = s
      BY <1>2, <1>5, <2>1, <3>1 DEF Listened
    <3>3. Keeps(q, "eoi1", bit, Sending, wait + n)
      BY <1>2, <2>1, <3>1, <3>2 DEF Keeps, DataLow
    <3> QED
      BY <1>1, <1>2, <1>6, <2>2, <3>2, <3>3
  <2>3. CASE wait + n >= T200
    <3>1. s.timeout = 0
      BY <1>1, <1>2, <1>3, <2>1, <2>3
    <3>2. q = Goto(After(Lines(s, TRUE, FALSE), T60), "EOI")
      BY <1>2, <1>3, <1>5, <2>1, <3>1 DEF Listened
    <3>3. Carries(s, q) /\ q.clk = TRUE /\ q.data = FALSE /\ q.state = "EOI" /\ q.timeout = T60
      BY <1>2, <3>2 DEF Goto, After, Lines, Device, Carries
    <3>4. q.timeout > 0 /\ 0 + q.timeout = T60
      BY <1>1, <3>3
    <3>5. Keeps(q, "eoi2", bit, Sending, 0)
      BY <3>3, <3>4 DEF Keeps, DataLow
    <3>6. Carries(r, q)
      BY <1>2, <3>3 DEF Carries
    <3> QED
      BY <1>1, <1>6, <2>3, <3>5, <3>6
  <2> QED
    BY <1>1, <2>2, <2>3
<1>7. CASE pc = "eoi2"
  <2>1. r.state = "EOI" /\ r.timeout > 0 /\ wait + r.timeout = T60 /\ r.clk /\ ~r.data
    BY <1>7 DEF Follows, Keeps, DataLow
  <2>2. CASE wait + n < T60
    <3>1. s.timeout # 0 /\ s.timeout > 0 /\ (wait + n) + s.timeout = T60
      BY <1>1, <1>2, <1>3, <2>1, <2>2
    <3>2. q = s
      BY <1>2, <1>5, <2>1, <3>1 DEF Listened
    <3>3. Keeps(q, "eoi2", bit, Sending, wait + n)
      BY <1>2, <1>3, <2>1, <3>1, <3>2 DEF Keeps, DataLow
    <3> QED
      BY <1>1, <1>2, <1>7, <2>2, <3>2, <3>3
  <2>3. CASE wait + n >= T60
    <3>1. s.timeout = 0
      BY <1>1, <1>2, <1>3, <2>1, <2>3
    <3>2. q = Goto(Free(s), "EOIw")
      BY <1>2, <1>5, <2>1, <3>1 DEF Listened
    <3>3. Carries(s, q) /\ q.clk = TRUE /\ q.data = TRUE /\ q.state = "EOIw"
      BY <1>2, <3>2 DEF Goto, Free, Lines, Device, Carries
    <3>5. Keeps(q, "begin", bit, Sending, 0)
      BY <3>3 DEF Keeps, DataLow
    <3>6. Carries(r, q)
      BY <1>2, <3>3 DEF Carries
    <3> QED
      BY <1>1, <1>7, <2>3, <3>5, <3>6
  <2> QED
    BY <1>1, <2>2, <2>3
<1> QED
  BY <1>6, <1>7

(* A listener never pulls the clock. *)
LEMMA ListenedClk ==
    ASSUME NEW r \in Device, NEW d, NEW bus \in Computers, r.clk, ~r.atn
    PROVE  LET q == Listened(r, d, bus)
           IN  q.clk /\ ~q.atn /\ q.listening = r.listening /\ q.talking = r.talking
<1>1. ~(r.state = "BITw" /\ r.atn)
  OBVIOUS
<1> DEFINE Good(q) == q.clk /\ ~q.atn /\ q.listening = r.listening /\ q.talking = r.talking
<1>2. /\ \A st : Good(Goto(r, st)) /\ Good(r)
      /\ Good(Goto(After(Free(r), T200), "READY"))
      /\ Good([Goto(r, "BIT") EXCEPT !.bit = 0, !.byte = {}])
      /\ Good(Goto(After(Lines(r, TRUE, FALSE), T60), "EOI"))
      /\ Good(Goto(Free(r), "EOIw"))
      /\ Good([Goto(r, "BITw") EXCEPT !.byte = WithBit(@, r.bit, bus.data)])
      /\ Good([Goto(r, "BIT") EXCEPT !.bit = @ + 1])
  BY DEF Goto, After, Free, Lines, Device
<1> HIDE DEF Good
<1>3. Good(Listened(r, d, bus))
  BY <1>1, <1>2, Zenon DEF Listened
<1> QED
  BY <1>3 DEF Good

LEMMA ActsCalm ==
    ASSUME NEW r \in Device, NEW d, NEW bus \in Computers, NEW q, Calm(r), Acts(r, q, d, bus)
    PROVE  Calm(q)
<1>1. r.listening \in BOOLEAN /\ r.clk \in BOOLEAN
  BY Fields
<1>2. CASE r.listening /\ DataIsHere(r, bus)
  <2>1. PICK st \in Status : q = Heard(r, st)
    BY <1>2 DEF Acts
  <2>2. q.clk = r.clk \/ q.clk = TRUE
    BY <2>1 DEF Heard, Goto, Lines, Device
  <2>3. q.atn = r.atn /\ q.listening = r.listening /\ q.talking = r.talking
    BY <2>1 DEF Heard, Goto, Lines, Device
  <2> QED
    BY <1>2, <2>2, <2>3 DEF Calm
<1>3. CASE r.listening /\ ~DataIsHere(r, bus)
  <2>1. q = Listened(r, d, bus)
    BY <1>3 DEF Acts
  <2> QED
    BY <1>3, <2>1, ListenedClk DEF Calm
<1>4. CASE ~r.listening
  BY <1>4 DEF Acts, Calm
<1> QED
  BY <1>1, <1>2, <1>3, <1>4

(* Without ATN, a device that is not to talk leaves the clock alone, and the
   data line unless it listens. *)
LEMMA CalmOne ==
    ASSUME NEW r \in Device, NEW n \in Nat, NEW q, NEW d \in Devs, NEW bus \in Computers,
           bus.atn, Loose(r, d), Becomes(Later(r, n), q, d, bus)
    PROVE  Calm(q)
<1> DEFINE s == Later(r, n)
<1>1. s \in Device /\ Stays(r, s)
  BY LaterCarries, LaterStays
<1>2. Loose(s, d)
  BY <1>1 DEF Loose, Stays, Carries
<1>3. s.atn \in BOOLEAN /\ s.listening \in BOOLEAN /\ s.talking \in BOOLEAN
  BY <1>1, Fields
<1> HIDE DEF s
<1> SUFFICES ASSUME Becomes(s, q, d, bus) PROVE Calm(q)
  BY DEF s
<1>4. CASE s.atn
  <2>1. PICK p \in Device : Rises(s, d, p) /\ Acts(p, q, d, bus)
    BY <1>4 DEF Becomes
  <2>2. PICK h \in Device :
          /\ Heeded(s, d, h)
          /\ p.listening = h.listening /\ p.talking = h.talking /\ p.state = h.state
          /\ p.clk = (h.clk \/ (~h.listening /\ ~h.talking))
          /\ p.data = (h.data \/ (~h.listening /\ ~h.talking))
    BY <2>1 DEF Rises
  <2>3. ~h.talking /\ h.clk
    BY <1>2, <1>4, <2>2, Codes DEF Heeded, Loose
  <2>4. Calm(p)
    BY <2>1, <2>2, <2>3 DEF Calm, Rises
  <2> QED
    BY <2>1, <2>4, ActsCalm
<1>5. CASE ~s.atn
  <2>1. Calm(s)
    BY <1>2, <1>5 DEF Calm, Loose
  <2>2. Acts(s, q, d, bus)
    BY <1>5 DEF Becomes
  <2> QED
    BY <1>1, <2>1, <2>2, ActsCalm
<1> QED
  BY <1>3, <1>4, <1>5
(* ATN is pulled; a millisecond passes; the clock is seen to be pulled. *)
Notices(r, q) ==
    /\ q.atn /\ q.talking = r.talking /\ q.primary = {}
    /\ q.state = "PRE0" /\ q.timeout = T100 /\ q.clk = TRUE /\ q.data = FALSE

LEMMA FreshOne ==
    ASSUME NEW r \in Device, NEW n \in Nat, NEW q, NEW d \in Devs, NEW bus \in Computers,
           ~bus.atn, ~r.atn, Becomes(Later(r, n), q, d, bus)
    PROVE  Notices(r, q)
<1> USE DEF Notices
<1> DEFINE s == Later(r, n)
           a == Attention(s)
<1>1. s \in Device /\ ~s.atn /\ s.talking = r.talking
  BY LaterCarries DEF Carries
<1> HIDE DEF s
<1>2. /\ a.atn /\ a.talking = s.talking /\ a.primary = {}
      /\ a.state = "PRE0" /\ a.timeout = T100 /\ a.clk = TRUE /\ a.data = FALSE
  BY <1>1 DEF Attention, Goto, After, Lines, Device
<1>3. q = Listened(a, d, bus)
  BY <1>1 DEF Becomes, s
<1> HIDE DEF a
<1>4. q = a
  <2>1. T100 # 0
    BY Consts
  <2> QED
    BY <1>2, <1>3, <2>1 DEF Listened
<1> QED
  BY <1>1, <1>2, <1>4

Attends(r, q) ==
    Carries(r, q) /\ q.state = "PRE1" /\ q.clk = r.clk /\ q.data = r.data

LEMMA HoldOne ==
    ASSUME NEW r \in Device, NEW q, NEW d \in Devs, NEW bus \in Computers,
           ~bus.atn, r.atn, r.state = "PRE0", r.timeout = T100, Becomes(Later(r, T1000), q, d, bus)
    PROVE  Attends(r, q)
<1> USE DEF Attends
<1> DEFINE s == Later(r, T1000)
<1>1. T1000 \in Nat /\ T100 \in Nat /\ T100 <= T1000
  BY Consts
<1>2. s \in Device /\ Stays(r, s) /\ s.timeout = 0
  BY <1>1, LaterCarries, LaterStays
<1>3. q = Listened(s, d, bus)
  BY <1>1, UnderAtn
<1> HIDE DEF s
<1>4. q = Goto(s, "PRE1")
  BY <1>2, <1>3 DEF Listened, Stays
<1> QED
  BY <1>2, <1>4 DEF Goto, Device, Stays, Carries

Looks(r, q) ==
    Carries(r, q) /\ q.state = "PRE2" /\ q.clk = r.clk /\ q.data = r.data

LEMMA LookOne ==
    ASSUME NEW r \in Device, NEW n \in Nat, NEW q, NEW d \in Devs, NEW bus \in Computers,
           ~bus.atn, ~bus.clk, r.atn, r.state = "PRE1", Becomes(Later(r, n), q, d, bus)
    PROVE  Looks(r, q)
<1> USE DEF Looks
<1> DEFINE s == Later(r, n)
<1>2. s \in Device /\ Stays(r, s)
  BY LaterCarries, LaterStays
<1>3. q = Listened(s, d, bus)
  BY UnderAtn
<1> HIDE DEF s
<1>4. q = Goto(s, "PRE2")
  BY <1>2, <1>3 DEF Listened, Stays
<1> QED
  BY <1>2, <1>4 DEF Goto, Device, Stays, Carries

(* The end of a byte under ATN: who is meant pulls the data line. *)
Replies(r, q, d, s) ==
    /\ q.atn /\ q.talking = r.talking /\ q.clk /\ q.data \in BOOLEAN
    /\ q.primary = IF r.primary = {} THEN s ELSE r.primary
    /\ IF q.primary \in {UNLISTEN, UNTALK, LISTEN(d), TALK(d)}
       THEN q.state = "PRE2" /\ ~q.data ELSE q.state = "DONE0" /\ q.data

LEMMA AckOne ==
    ASSUME NEW r \in Device, NEW n \in Nat, NEW q, NEW d \in Devs, NEW bus \in Computers, NEW s,
           ~bus.atn, ~bus.clk, r.atn, r.state = "BITw", r.bit = NBits - 1, r.byte = s,
           r.clk, r.data, Becomes(Later(r, n), q, d, bus)
    PROVE  Replies(r, q, d, s)
<1> USE DEF Replies
<1> DEFINE t == Later(r, n)
           b == [t EXCEPT !.primary   = IF t.primary = {} THEN t.byte ELSE @,
                          !.secondary = IF t.primary # {} /\ @ = {} THEN t.byte ELSE @,
                          !.byte      = {}]
<1>2. t \in Device /\ Stays(r, t) /\ t.bit = r.bit /\ t.byte = s
  BY LaterCarries, LaterStays
<1>3. q = Listened(t, d, bus)
  BY UnderAtn
<1>4. t.atn /\ t.state = "BITw" /\ t.clk /\ t.data /\ t.primary = r.primary /\ t.talking = r.talking
  BY <1>2 DEF Stays, Carries
<1> HIDE DEF t
<1>5. q = CommandByte(t, d)
  BY <1>2, <1>3, <1>4, Consts DEF Listened
<1>6. /\ b.primary = (IF r.primary = {} THEN s ELSE r.primary)
      /\ b.atn /\ b.talking = r.talking /\ b.clk /\ b.data
      /\ b \in Device
  BY <1>2, <1>4, Codes DEF Device
<1>7. q = IF b.primary \in {UNLISTEN, UNTALK, LISTEN(d), TALK(d)}
          THEN Goto(Lines(b, TRUE, FALSE), "PRE2") ELSE Goto(b, "DONE0")
  BY <1>5 DEF CommandByte
<1> HIDE DEF b
<1>8. CASE b.primary \in {UNLISTEN, UNTALK, LISTEN(d), TALK(d)}
  <2>1. /\ q.atn /\ q.talking = b.talking /\ q.clk = TRUE /\ q.data = FALSE /\ q.primary = b.primary
        /\ q.state = "PRE2"
    BY <1>6, <1>7, <1>8 DEF Goto, Lines, Device
  <2> QED
    BY <1>6, <1>8, <2>1
<1>9. CASE b.primary \notin {UNLISTEN, UNTALK, LISTEN(d), TALK(d)}
  <2>1. /\ q.atn /\ q.talking = b.talking /\ q.clk /\ q.data /\ q.primary = b.primary
        /\ q.state = "DONE0" /\ q.data \in BOOLEAN
    BY <1>6, <1>7, <1>9, Fields DEF Goto, Device
  <2> QED
    BY <1>6, <1>9, <2>1
<1> QED
  BY <1>8, <1>9

(* The end of a byte of data: it could be written, or not. *)
Writes(r, q) ==
    /\ Carries(r, q) /\ q.clk
    /\ (q.state = "PRE2" /\ q.data = FALSE) \/ (q.state = "DONE0" /\ q.data)

LEMMA AckData ==
    ASSUME NEW r \in Device, NEW n \in Nat, NEW q, NEW d \in Devs, NEW bus \in Computers,
           bus.atn, ~bus.clk, ~r.atn, r.listening, r.state = "BITw", r.bit = NBits - 1,
           r.clk, r.data, Becomes(Later(r, n), q, d, bus)
    PROVE  Writes(r, q)
<1> USE DEF Writes
<1> DEFINE t == Later(r, n)
<1>2. t \in Device /\ Stays(r, t) /\ t.bit = r.bit
  BY LaterCarries, LaterStays
<1>3. DataIsHere(t, bus)
  BY <1>2 DEF DataIsHere, Stays, Carries
<1>4. PICK st \in Status : q = Heard(t, st)
  BY <1>3, Listening
<1> HIDE DEF t
<1>5. CASE st = SERIAL_OK
  <2>1. q = Goto(Lines([t EXCEPT !.st = st, !.byte = {}], TRUE, FALSE), "PRE2")
    BY <1>4, <1>5 DEF Heard
  <2> QED
    BY <1>2, <2>1 DEF Goto, Lines, Device, Stays, Carries
<1>6. CASE st # SERIAL_OK
  <2>1. q = Goto([t EXCEPT !.st = st, !.byte = {}], "DONE0")
    BY <1>4, <1>6 DEF Heard
  <2> QED
    BY <1>2, <2>1 DEF Goto, Lines, Device, Stays, Carries
<1> QED
  BY <1>5, <1>6
(* ATN is let go: a device that was not called takes no part, *)
LEMMA LeftOut ==
    ASSUME NEW r \in Device, NEW n \in Nat, NEW q, NEW d \in Devs, NEW bus \in Computers,
           bus.atn, r.atn, ~r.talking, Silent(r), r.primary \notin {LISTEN(d), TALK(d)},
           Becomes(Later(r, n), q, d, bus)
    PROVE  Inert(q)
<1> DEFINE s == Later(r, n)
<1>1. s \in Device /\ Stays(r, s)
  BY LaterCarries, LaterStays
<1>2. s.atn /\ ~s.talking /\ s.clk /\ s.data /\ s.state = "DONE0" /\ s.primary = r.primary
  BY <1>1 DEF Stays, Carries, Silent
<1> HIDE DEF s
<1> SUFFICES ASSUME Becomes(s, q, d, bus) PROVE Inert(q)
  BY DEF s
<1>3. PICK p \in Device : Rises(s, d, p) /\ Acts(p, q, d, bus)
  BY <1>2 DEF Becomes
<1>4. PICK h \in Device :
        /\ Heeded(s, d, h)
        /\ p.listening = h.listening /\ p.talking = h.talking /\ p.state = h.state
        /\ p.clk = (h.clk \/ (~h.listening /\ ~h.talking))
        /\ p.data = (h.data \/ (~h.listening /\ ~h.talking))
  BY <1>3 DEF Rises
<1>5. ~h.talking /\ h.state = "DONE0" /\ h.clk /\ h.data
  BY <1>2, <1>4 DEF Heeded
<1>6. ~p.atn /\ ~p.talking /\ p.state = "DONE0" /\ p.clk /\ p.data
  BY <1>3, <1>4, <1>5 DEF Rises
<1>7. ~DataIsHere(p, bus)
  BY <1>6 DEF DataIsHere
<1>8. Listened(p, d, bus) = p
  BY <1>6 DEF Listened
<1>9. q = p
  BY <1>3, <1>6, <1>7, <1>8 DEF Acts
<1> QED
  BY <1>6, <1>9 DEF Inert, Silent

(* a device that is to listen does so, or refuses, *)
Joins(q) ==
    \/ Inert(q)
    \/ ~q.atn /\ q.listening /\ ~q.talking /\ q.state = "PRE2" /\ q.clk /\ q.data = FALSE

LEMMA TakesUp ==
    ASSUME NEW r \in Device, NEW n \in Nat, NEW q, NEW d \in Devs, NEW bus \in Computers,
           bus.atn, ~bus.clk, r.atn, ~r.talking, r.primary = LISTEN(d), r.state = "PRE2",
           Becomes(Later(r, n), q, d, bus)
    PROVE  Joins(q)
<1> USE DEF Joins
<1> DEFINE s == Later(r, n)
<1>1. s \in Device /\ Stays(r, s)
  BY LaterCarries, LaterStays
<1>2. s.atn /\ ~s.talking /\ s.state = "PRE2" /\ s.primary = LISTEN(d)
  BY <1>1 DEF Stays, Carries
<1> HIDE DEF s
<1> SUFFICES ASSUME Becomes(s, q, d, bus)
             PROVE  \/ Inert(q)
                    \/ ~q.atn /\ q.listening /\ ~q.talking /\ q.state = "PRE2" /\ q.clk /\ q.data = FALSE
  BY DEF s
<1>3. PICK p \in Device : Rises(s, d, p) /\ Acts(p, q, d, bus)
  BY <1>2 DEF Becomes
<1>4. PICK h \in Device :
        /\ Heeded(s, d, h)
        /\ p.listening = h.listening /\ p.talking = h.talking /\ p.state = h.state
        /\ p.clk = (h.clk \/ (~h.listening /\ ~h.talking))
        /\ p.data = (h.data \/ (~h.listening /\ ~h.talking))
  BY <1>3 DEF Rises
<1>5. ~h.talking /\ h.state \in {"PRE1", "PRE2"} /\ h.clk /\ ~h.data
  BY <1>2, <1>4 DEF Heeded
<1>6. ~p.atn /\ ~p.talking /\ p.state \in {"PRE1", "PRE2"} /\ p.clk
  BY <1>3, <1>4, <1>5 DEF Rises
<1>7. CASE p.listening
  <2>1. ~DataIsHere(p, bus)
    BY <1>6 DEF DataIsHere
  <2>2. q = Listened(p, d, bus)
    BY <1>3, <1>7, <2>1 DEF Acts
  <2>3. p.data = FALSE
    BY <1>4, <1>5, <1>7, Fields
  <2>4. q = p \/ q = Goto(p, "PRE2")
    BY <1>6, <2>2 DEF Listened
  <2>5. q.state = "PRE2"
    BY <1>6, <2>2 DEF Listened, Goto, Device
  <2>6. ~q.atn /\ q.listening /\ ~q.talking /\ q.clk /\ q.data = FALSE
    BY <1>6, <1>7, <2>3, <2>4 DEF Goto, Device
  <2> QED
    BY <2>5, <2>6
<1>8. CASE ~p.listening
  <2>1. q = p
    BY <1>3, <1>6, <1>8 DEF Acts
  <2>2. p.data
    BY <1>4, <1>5, <1>8
  <2> QED
    BY <1>6, <1>8, <2>1, <2>2 DEF Inert, Silent
<1> QED
  BY <1>7, <1>8

(* and one that is to talk waits for the clock. *)
Waits(q) ==
    ~q.atn /\ ~q.listening /\ q.talking /\ q.state = "PRE0" /\ q.clk

LEMMA TurnsRound ==
    ASSUME NEW r \in Device, NEW n \in Nat, NEW q, NEW d \in Devs, NEW bus \in Computers,
           bus.atn, ~bus.clk, r.atn, r.primary = TALK(d), r.clk, Becomes(Later(r, n), q, d, bus)
    PROVE  Waits(q)
<1> USE DEF Waits
<1> DEFINE s == Later(r, n)
<1>1. s \in Device /\ Stays(r, s)
  BY LaterCarries, LaterStays
<1>2. s.atn /\ s.clk /\ s.primary = TALK(d)
  BY <1>1 DEF Stays, Carries
<1> HIDE DEF s
<1> SUFFICES ASSUME Becomes(s, q, d, bus)
             PROVE  ~q.atn /\ ~q.listening /\ q.talking /\ q.state = "PRE0" /\ q.clk
  BY DEF s
<1>3. PICK p \in Device : Rises(s, d, p) /\ Acts(p, q, d, bus)
  BY <1>2 DEF Becomes
<1>4. PICK h \in Device :
        /\ Heeded(s, d, h)
        /\ p.listening = h.listening /\ p.talking = h.talking /\ p.state = h.state
        /\ p.clk = (h.clk \/ (~h.listening /\ ~h.talking))
        /\ p.data = (h.data \/ (~h.listening /\ ~h.talking))
  BY <1>3 DEF Rises
<1>5. h.talking /\ ~h.listening /\ h.state = "PRE0" /\ h.clk
  BY <1>2, <1>4 DEF Heeded
<1>6. ~p.atn /\ p.talking /\ ~p.listening /\ p.state = "PRE0" /\ p.clk
  BY <1>3, <1>4, <1>5 DEF Rises
<1>7. ~Fetches(p, bus) /\ Talked(p, bus) = p
  BY <1>6 DEF Fetches, Talked
<1>8. q = p
  BY <1>3, <1>6, <1>7 DEF Acts
<1> QED
  BY <1>6, <1>8
(* The talker; what it does with the clock is what the kernal waits for. *)
LEMMA VoiceLater ==
    ASSUME NEW r \in Device, NEW n \in Nat, NEW l, NEW t, NEW b, NEW e, NEW f, Voice(r, l, t, b, e, f)
    PROVE  /\ Later(r, n) \in Device /\ ~Later(r, n).atn /\ ~Later(r, n).listening /\ Later(r, n).talking
           /\ Later(r, n).state = r.state /\ Later(r, n).bit = r.bit /\ Later(r, n).st = r.st
           /\ Later(r, n).clk = r.clk /\ Later(r, n).data = r.data
           /\ Later(r, n).clk \in BOOLEAN /\ Later(r, n).data \in BOOLEAN
           /\ Later(r, n).timeout \in Nat
           /\ Later(r, n).timeout = IF r.timeout > n THEN r.timeout - n ELSE 0
           /\ r.timeout \in Nat /\ r.bit \in 0 .. NBits - 1
<1>1. r.atn = FALSE /\ r.listening = FALSE /\ r.talking
  BY Fields DEF Voice
<1>2. /\ r.timeout \in Nat /\ r.bit \in 0 .. NBits - 1 /\ r.clk \in BOOLEAN /\ r.data \in BOOLEAN
  BY Fields
<1> DEFINE s == Later(r, n)
<1>3. /\ s \in Device /\ Carries(r, s)
      /\ s.state = r.state /\ s.bit = r.bit
      /\ s.clk = r.clk /\ s.data = r.data /\ s.st = r.st
      /\ s.timeout = (IF r.timeout > n THEN r.timeout - n ELSE 0)
      /\ s.timeout \in Nat
  BY LaterCarries
<1> HIDE DEF s
<1>4. ~s.atn /\ ~s.listening /\ s.talking
  BY <1>1, <1>3 DEF Carries
<1>5. s.clk \in BOOLEAN /\ s.data \in BOOLEAN
  BY <1>2, <1>3
<1> QED
  BY <1>2, <1>3, <1>4, <1>5 DEF s

LEMMA TalkerIs ==
    ASSUME NEW r \in Device, NEW n \in Nat, NEW q, NEW d, NEW bus \in Computers,
           NEW l, NEW t, NEW b, NEW e, NEW f, Voice(r, l, t, b, e, f),
           bus.atn, Becomes(Later(r, n), q, d, bus)
    PROVE  /\ ~Fetches(Later(r, n), bus) => q = Talked(Later(r, n), bus)
           /\ Fetches(Later(r, n), bus) =>
                 \E c \in Byte, st \in Status : q = Fetched(Later(r, n), c, st)
<1>1. ~r.atn /\ ~r.listening /\ r.talking
  BY DEF Voice
<1> QED
  BY <1>1, Talking

Begins(q, b, f) ==
    Voice(q, "ready", 0, b, FALSE, f) /\ ~q.clk

LEMMA VoiceTurned ==
    ASSUME NEW r \in Device, NEW n \in Nat, NEW q, NEW d, NEW bus \in Computers,
           NEW t, NEW b, NEW f, Voice(r, "turned", t, b, FALSE, f),
           bus.atn, bus.clk, Becomes(Later(r, n), q, d, bus)
    PROVE  Begins(q, b, f)
<1> USE DEF Begins
<1> DEFINE s == Later(r, n)
<1>1. s \in Device /\ ~s.atn /\ ~s.listening /\ s.talking /\ s.state = "PRE0"
  BY VoiceLater DEF Voice
<1>2. ~Fetches(s, bus)
  BY <1>1 DEF Fetches
<1>3. q = Talked(s, bus)
  BY <1>2, TalkerIs
<1> HIDE DEF s
<1>4. q = Goto(After(Lines(s, FALSE, TRUE), T80), "PRE1")
  BY <1>1, <1>3 DEF Talked
<1>5. ~q.atn /\ ~q.listening /\ q.talking /\ q.state = "PRE1" /\ q.clk = FALSE /\ q.data = TRUE
      /\ q.timeout = T80
  BY <1>1, <1>4 DEF Goto, After, Lines, Device
<1>6. 0 + q.timeout <= T80
  BY <1>5, Consts
<1> QED
  BY <1>5, <1>6 DEF Voice

Readies(q, n, t, b, f) ==
    IF q.clk THEN Voice(q, "accept", 0, b, FALSE, f)
    ELSE /\ t + n < Patience \/ f
         /\ \A u \in Nat : u <= t + n => Voice(q, "ready", u, b, FALSE, f)

LEMMA VoiceReady ==
    ASSUME NEW r \in Device, NEW n \in Delays, NEW q, NEW d, NEW bus \in Computers,
           NEW t \in Nat, NEW b, NEW f, Voice(r, "ready", t, b, FALSE, f),
           bus.atn, ~bus.data, Becomes(Later(r, n), q, d, bus)
    PROVE  Readies(q, n, t, b, f)
<1> USE DEF Readies
<1> DEFINE s == Later(r, n)
<1>1. n \in Nat /\ n > 0 /\ n < T200 /\ T80 \in Nat /\ T100 \in Nat /\ T200 \in Nat /\ Patience \in Nat
      /\ T80 < Patience /\ T200 < Patience
  BY Consts
<1>2. /\ s \in Device /\ ~s.atn /\ ~s.listening /\ s.talking /\ s.state = r.state /\ s.st = r.st
      /\ s.clk = r.clk /\ s.data = r.data /\ s.clk \in BOOLEAN /\ s.data \in BOOLEAN
      /\ s.timeout = (IF r.timeout > n THEN r.timeout - n ELSE 0) /\ r.timeout \in Nat
      /\ s.timeout \in Nat
  BY <1>1, VoiceLater
<1>3. r.state \in {"PRE1", "DONE1", "FRAMEERR0", "FRAMEERR1"}
  BY DEF Voice
<1>4. ~Fetches(s, bus)
  BY DEF Fetches
<1>5. q = Talked(s, bus)
  BY <1>1, <1>4, TalkerIs
<1> HIDE DEF s
<1>6. CASE r.state = "PRE1"
  <2>1. ~s.clk /\ s.data /\ (t + r.timeout <= T80 \/ (r.timeout = 0 /\ (t <= T200 \/ f)))
    BY <1>2, <1>6 DEF Voice
  <2>2. CASE s.timeout = 0
    <3>1. q = Goto(Free(s), "READY")
      BY <1>2, <1>5, <1>6, <2>2 DEF Talked
    <3>2. ~q.atn /\ ~q.listening /\ q.talking /\ q.state = "READY" /\ q.clk = TRUE /\ q.data = TRUE
      BY <1>2, <3>1 DEF Goto, Free, Lines, Device
    <3> QED
      BY <3>2 DEF Voice
  <2>3. CASE s.timeout # 0
    <3>1. q = s
      BY <1>2, <1>5, <1>6, <2>3 DEF Talked
    <3>2. r.timeout > n /\ s.timeout = r.timeout - n
      BY <1>2, <2>3
    <3>3. t + r.timeout <= T80
      BY <1>1, <1>2, <2>1, <3>2
    <3>4. t + n < Patience /\ \A u \in Nat : u <= t + n => u + s.timeout <= T80
      BY <1>1, <1>2, <3>2, <3>3
    <3> QED
      BY <1>2, <1>6, <2>1, <3>1, <3>4 DEF Voice
  <2> QED
    BY <2>2, <2>3
<1>7. CASE r.state = "DONE1"
  <2>1. ~s.clk /\ s.data /\ t = 0 /\ s.st = SERIAL_OK
    BY <1>2, <1>7 DEF Voice
  <2>2. q = Acknowledged(s)
    BY <1>2, <1>5, <1>7 DEF Talked
  <2>3. q = [Goto(After(s, 0), "PRE1") EXCEPT !.byte = {}]
    BY <2>1, <2>2, Times DEF Acknowledged
  <2>4. ~q.atn /\ ~q.listening /\ q.talking /\ q.state = "PRE1" /\ q.clk = s.clk /\ q.data = s.data
        /\ q.timeout = 0
    BY <1>2, <2>3 DEF Goto, After, Device
  <2>5. t + n < Patience /\ \A u \in Nat : u <= t + n => u <= T200
    BY <1>1, <2>1
  <2> QED
    BY <2>1, <2>4, <2>5 DEF Voice
<1>8. CASE r.state = "FRAMEERR0"
  <2>1. s.clk /\ s.data /\ f /\ s.timeout <= T100
    BY <1>1, <1>2, <1>8 DEF Voice
  <2>2. CASE s.timeout = 0
    <3>1. q = Goto(Lines(s, FALSE, TRUE), "FRAMEERR1")
      BY <1>2, <1>5, <1>8, <2>2 DEF Talked
    <3>2. ~q.atn /\ ~q.listening /\ q.talking /\ q.state = "FRAMEERR1" /\ q.clk = FALSE /\ q.data = TRUE
      BY <1>2, <3>1 DEF Goto, Lines, Device
    <3> QED
      BY <2>1, <3>2 DEF Voice
  <2>3. CASE s.timeout # 0
    <3>1. q = s
      BY <1>2, <1>5, <1>8, <2>3 DEF Talked
    <3> QED
      BY <1>2, <1>8, <2>1, <3>1 DEF Voice
  <2> QED
    BY <2>2, <2>3
<1>9. CASE r.state = "FRAMEERR1"
  <2>1. ~s.clk /\ s.data /\ f
    BY <1>2, <1>9 DEF Voice
  <2>2. q = Goto(After(s, 0), "PRE1")
    BY <1>2, <1>5, <1>9 DEF Talked
  <2>3. ~q.atn /\ ~q.listening /\ q.talking /\ q.state = "PRE1" /\ q.clk = s.clk /\ q.data = s.data
        /\ q.timeout = 0
    BY <1>2, <2>2 DEF Goto, After, Device
  <2> QED
    BY <2>1, <2>3 DEF Voice
<1> QED
  BY <1>3, <1>6, <1>7, <1>8, <1>9

LEMMA VoiceAccept ==
    ASSUME NEW r \in Device, NEW n \in Nat, NEW q, NEW d, NEW bus \in Computers,
           NEW t, NEW b, NEW e \in BOOLEAN, NEW f, Voice(r, "accept", t, b, e, f),
           bus.atn, ~bus.data, Becomes(Later(r, n), q, d, bus)
    PROVE  Voice(q, "clock", 0, 0, e, f)
<1> DEFINE s == Later(r, n)
<1>1. T100 \in Nat
  BY Consts
<1>2. /\ s \in Device /\ ~s.atn /\ ~s.listening /\ s.talking /\ s.state = r.state /\ s.st = r.st
      /\ s.clk = r.clk /\ s.data = r.data /\ s.clk \in BOOLEAN /\ s.data \in BOOLEAN
      /\ s.timeout = (IF r.timeout > n THEN r.timeout - n ELSE 0) /\ r.timeout \in Nat
      /\ s.timeout \in Nat
  BY VoiceLater
<1>3. r.state \in {"READY", "EOI", "FRAMEERR0"} /\ s.clk /\ s.data
  BY <1>2 DEF Voice
<1>4. ~Fetches(s, bus)
  BY DEF Fetches
<1>5. q = Talked(s, bus)
  BY <1>4, TalkerIs
<1> HIDE DEF s
<1>6. CASE r.state = "READY"
  <2>1. ~e
    BY <1>6 DEF Voice
  <2>2. q = s
    BY <1>2, <1>5, <1>6 DEF Talked
  <2> QED
    BY <1>2, <1>3, <1>6, <2>1, <2>2 DEF Voice
<1>7. CASE r.state = "EOI"
  <2>1. e /\ s.st = SERIAL_EOF
    BY <1>2, <1>7 DEF Voice
  <2>2. q = Goto(s, "EOIw")
    BY <1>2, <1>5, <1>7 DEF Talked
  <2>3. ~q.atn /\ ~q.listening /\ q.talking /\ q.state = "EOIw" /\ q.clk /\ q.data /\ q.st = SERIAL_EOF
    BY <1>2, <1>3, <2>1, <2>2 DEF Goto, Device
  <2> QED
    BY <2>1, <2>3 DEF Voice
<1>8. CASE r.state = "FRAMEERR0"
  <2>1. f /\ 0 + s.timeout <= T100
    BY <1>1, <1>2, <1>8 DEF Voice
  <2>2. CASE s.timeout = 0
    <3>1. q = Goto(Lines(s, FALSE, TRUE), "FRAMEERR1")
      BY <1>2, <1>5, <1>8, <2>2 DEF Talked
    <3>2. ~q.atn /\ ~q.listening /\ q.talking /\ q.state = "FRAMEERR1" /\ q.clk = FALSE /\ q.data = TRUE
      BY <1>2, <3>1 DEF Goto, Lines, Device
    <3> QED
      BY <2>1, <3>2 DEF Voice
  <2>3. CASE s.timeout # 0
    <3>1. q = s
      BY <1>2, <1>5, <1>8, <2>3 DEF Talked
    <3> QED
      BY <1>2, <1>3, <1>8, <2>1, <3>1 DEF Voice
  <2> QED
    BY <2>2, <2>3
<1> QED
  BY <1>3, <1>6, <1>7, <1>8

Clocks(q, n, t, b, e, f) ==
    \/ Inert(q)
    \/ ~q.clk /\ Voice(q, "high", 0, b, e, f)
    \/ /\ q.clk /\ Voice(q, "clock", t + n, b, e, f)
       /\ t + n >= TEOI => ~e /\ Voice(q, "answer", 0, b, e, f)

LEMMA VoiceClock ==
    ASSUME NEW r \in Device, NEW n \in Delays, NEW q, NEW d, NEW bus \in Computers,
           NEW t \in Nat, NEW b, NEW e \in BOOLEAN, NEW f, Voice(r, "clock", t, b, e, f),
           bus.atn, bus.data = r.data, Becomes(Later(r, n), q, d, bus)
    PROVE  Clocks(q, n, t, b, e, f)
<1> USE DEF Clocks
<1> DEFINE s == Later(r, n)
<1>1. n \in Nat /\ n > 0 /\ n < T200 /\ T60 \in Nat /\ T100 \in Nat /\ T200 \in Nat /\ TEOI \in Nat
      /\ T100 <= T200 /\ T200 <= TEOI
  BY Consts
<1>2. /\ s \in Device /\ ~s.atn /\ ~s.listening /\ s.talking /\ s.state = r.state /\ s.st = r.st
      /\ s.clk = r.clk /\ s.data = r.data /\ s.clk \in BOOLEAN /\ s.data \in BOOLEAN
      /\ s.timeout = (IF r.timeout > n THEN r.timeout - n ELSE 0) /\ r.timeout \in Nat
      /\ s.timeout \in Nat /\ s.bit = r.bit
  BY <1>1, VoiceLater
<1>3. /\ r.state \in {"READY", "BIT", "EOI", "EOIw", "FRAMEERR0", "FRAMEERR1"}
      /\ s.data = TRUE /\ bus.data = TRUE /\ b = 0
  BY <1>2 DEF Voice
<1>4. r.state # "READY" => q = Talked(s, bus)
  <2>1. r.state # "READY" => ~Fetches(s, bus)
    BY <1>2, <1>3 DEF Fetches
  <2> QED
    BY <1>1, <2>1, TalkerIs
<1>5. r.state = "READY" => \E c \in Byte, st \in Status : q = Fetched(s, c, st)
  <2>1. r.state = "READY" => Fetches(s, bus)
    BY <1>2, <1>3 DEF Fetches
  <2> QED
    BY <1>1, <2>1, TalkerIs
<1> HIDE DEF s
<1>6. CASE r.state = "READY"
  <2>1. s.clk = TRUE /\ ~e /\ t = 0
    BY <1>2, <1>6 DEF Voice
  <2>2. PICK c \in Byte, st \in Status : q = Fetched(s, c, st)
    BY <1>5, <1>6
  <2>3. t + n < T200 /\ ~(t + n >= TEOI)
    BY <1>1, <2>1
  <2>4. CASE st = SERIAL_OK
    <3>1. q = [Goto(After([s EXCEPT !.byte = c, !.st = st], 0), "BIT") EXCEPT !.bit = 0]
      BY <2>2, <2>4 DEF Fetched
    <3>2. ~q.atn /\ ~q.listening /\ q.talking /\ q.state = "BIT" /\ q.clk = TRUE /\ q.data = TRUE
          /\ q.bit = 0 /\ q.timeout = 0 /\ q.st = SERIAL_OK
      BY <1>2, <1>3, <2>1, <2>4, <3>1 DEF Goto, After, Device
    <3> QED
      BY <1>3, <2>1, <2>3, <3>2 DEF Voice
  <2>5. CASE st = SERIAL_EOF
    <3>1. q = Goto([s EXCEPT !.byte = c, !.st = st], "EOI")
      BY <2>2, <2>5, Times DEF Fetched
    <3>2. ~q.atn /\ ~q.listening /\ q.talking /\ q.state = "EOI" /\ q.clk = TRUE /\ q.data = TRUE
          /\ q.st = SERIAL_EOF
      BY <1>2, <1>3, <2>1, <2>5, <3>1 DEF Goto, Device
    <3> QED
      BY <1>3, <2>1, <2>3, <3>2 DEF Voice
  <2>6. CASE st # SERIAL_OK /\ st # SERIAL_EOF
    <3>1. q = [s EXCEPT !.byte = c, !.st = st, !.talking = FALSE]
      BY <2>2, <2>6 DEF Fetched
    <3>2. ~q.atn /\ ~q.listening /\ ~q.talking /\ q.clk = TRUE /\ q.data = TRUE
      BY <1>2, <1>3, <2>1, <3>1 DEF Device
    <3> QED
      BY <3>2 DEF Inert, Silent
  <2> QED
    BY <2>4, <2>5, <2>6
<1>7. CASE r.state = "BIT"
  <2>1. r.bit = b /\ s.timeout = 0 /\ s.st = IF e THEN SERIAL_EOF ELSE SERIAL_OK
    BY <1>1, <1>2, <1>7 DEF Voice
  <2>2. q = TalkBit(s, bus)
    BY <1>2, <1>4, <1>7, <2>1 DEF Talked
  <2>3. q = Goto(After(Lines(s, FALSE, Bit(s.byte, s.bit)), T60), "BITw")
    BY <1>2, <1>7, <2>2 DEF TalkBit
  <2>4. ~q.atn /\ ~q.listening /\ q.talking /\ q.state = "BITw" /\ q.clk = FALSE
        /\ q.bit = b /\ q.timeout = T60 /\ q.st = s.st
    BY <1>2, <2>1, <2>3 DEF Goto, After, Lines, Device
  <2>5. 0 + q.timeout <= T60
    BY <1>1, <2>4
  <2> QED
    BY <2>1, <2>4, <2>5 DEF Voice
<1>8. CASE r.state = "EOI"
  <2>1. s.clk /\ ~e /\ s.st = SERIAL_EOF
    BY <1>2, <1>8 DEF Voice
  <2>2. q = s
    BY <1>2, <1>3, <1>4, <1>8 DEF Talked
  <2>3. ~q.atn /\ ~q.listening /\ q.talking /\ q.state = "EOI" /\ q.clk /\ q.data /\ q.st = SERIAL_EOF
    BY <1>2, <1>3, <1>8, <2>1, <2>2
  <2> QED
    BY <1>3, <2>1, <2>3 DEF Voice
<1>9. CASE r.state = "EOIw"
  <2>1. s.clk = TRUE /\ e /\ t = 0 /\ s.st = SERIAL_EOF
    BY <1>2, <1>9 DEF Voice
  <2>2. q = [Goto(After(s, 0), "BIT") EXCEPT !.bit = 0]
    BY <1>2, <1>3, <1>4, <1>9 DEF Talked
  <2>3. ~q.atn /\ ~q.listening /\ q.talking /\ q.state = "BIT" /\ q.clk = TRUE /\ q.data = TRUE
        /\ q.bit = 0 /\ q.timeout = 0 /\ q.st = SERIAL_EOF
    BY <1>2, <1>3, <2>1, <2>2 DEF Goto, After, Device
  <2>4. t + n < T200 /\ ~(t + n >= TEOI)
    BY <1>1, <2>1
  <2> QED
    BY <1>3, <2>1, <2>3, <2>4 DEF Voice
<1>10. CASE r.state = "FRAMEERR0"
  <2>1. f /\ s.clk /\ t + r.timeout <= T100
    BY <1>2, <1>10 DEF Voice
  <2>2. CASE s.timeout = 0
    <3>1. q = Goto(Lines(s, FALSE, TRUE), "FRAMEERR1")
      BY <1>2, <1>4, <1>10, <2>2 DEF Talked
    <3>2. ~q.atn /\ ~q.listening /\ q.talking /\ q.state = "FRAMEERR1" /\ q.clk = FALSE /\ q.data = TRUE
      BY <1>2, <3>1 DEF Goto, Lines, Device
    <3> QED
      BY <2>1, <3>2 DEF Voice
  <2>3. CASE s.timeout # 0
    <3>1. q = s
      BY <1>2, <1>4, <1>10, <2>3 DEF Talked
    <3>2. (t + n) + s.timeout <= T100 /\ ~(t + n >= TEOI)
      BY <1>1, <1>2, <2>1, <2>3
    <3> QED
      BY <1>2, <1>3, <1>10, <2>1, <3>1, <3>2 DEF Voice
  <2> QED
    BY <2>2, <2>3
<1>11. CASE r.state = "FRAMEERR1"
  <2>1. f /\ ~s.clk
    BY <1>2, <1>11 DEF Voice
  <2>2. q = s
    BY <1>2, <1>3, <1>4, <1>11 DEF Talked
  <2> QED
    BY <1>2, <1>3, <1>11, <2>1, <2>2 DEF Voice
<1> QED
  BY <1>3, <1>6, <1>7, <1>8, <1>9, <1>10, <1>11

LEMMA VoiceAnswer ==
    ASSUME NEW r \in Device, NEW n \in Nat, NEW q, NEW d, NEW bus \in Computers,
           NEW t, NEW b, NEW e, NEW f, Voice(r, "answer", t, b, e, f), NEW u,
           bus.atn, bus.data, Becomes(Later(r, n), q, d, bus)
    PROVE  Voice(q, "accept", u, b, TRUE, f)
<1> DEFINE s == Later(r, n)
<1>1. /\ s \in Device /\ ~s.atn /\ ~s.listening /\ s.talking /\ s.state = r.state /\ s.st = r.st
      /\ s.clk = r.clk /\ s.data = r.data
  BY VoiceLater
<1>2. s.state = "EOI" /\ s.clk /\ s.data /\ s.st = SERIAL_EOF
  BY <1>1 DEF Voice
<1>3. ~Fetches(s, bus)
  BY <1>2 DEF Fetches
<1>4. q = Talked(s, bus)
  BY <1>3, TalkerIs
<1> HIDE DEF s
<1>5. q = s
  BY <1>2, <1>4 DEF Talked
<1> QED
  BY <1>1, <1>2, <1>5 DEF Voice

Shows(q, n, t, b, e, f) ==
    IF q.clk THEN Voice(q, "low", 0, b + 1, e, f)
    ELSE /\ t + n < Patience \/ f
         /\ \A u \in Nat : u <= t + n => Voice(q, "high", u, b, e, f)

LEMMA VoiceHigh ==
    ASSUME NEW r \in Device, NEW n \in Delays, NEW q, NEW d, NEW bus \in Computers,
           NEW t \in Nat, NEW b \in Nat, NEW e \in BOOLEAN, NEW f, Voice(r, "high", t, b, e, f),
           bus.atn, bus.data = r.data, Becomes(Later(r, n), q, d, bus)
    PROVE  Shows(q, n, t, b, e, f)
<1> USE DEF Shows
<1> DEFINE s == Later(r, n)
<1>1. n \in Nat /\ T60 \in Nat /\ Patience \in Nat /\ T60 < Patience /\ NBits \in Nat
  BY Consts
<1>2. /\ s \in Device /\ ~s.atn /\ ~s.listening /\ s.talking /\ s.state = r.state /\ s.st = r.st
      /\ s.clk = r.clk /\ s.data = r.data /\ s.clk \in BOOLEAN /\ s.data \in BOOLEAN
      /\ s.timeout = (IF r.timeout > n THEN r.timeout - n ELSE 0) /\ r.timeout \in Nat
      /\ s.timeout \in Nat /\ s.bit = r.bit
  BY <1>1, VoiceLater
<1>3. r.state \in {"BITw", "FRAMEERR1"}
  BY DEF Voice
<1>4. q = Talked(s, bus)
  <2>1. ~Fetches(s, bus)
    BY <1>2, <1>3 DEF Fetches
  <2> QED
    BY <1>1, <2>1, TalkerIs
<1> HIDE DEF s
<1>5. CASE r.state = "BITw"
  <2>1. /\ s.clk = FALSE /\ r.bit = b /\ t + r.timeout <= T60
        /\ s.st = IF e THEN SERIAL_EOF ELSE SERIAL_OK
    BY <1>2, <1>5 DEF Voice
  <2>2. CASE s.timeout = 0
    <3> DEFINE g == After(Lines(s, TRUE, bus.data), T60)
    <3>1. q = TalkBit(s, bus)
      BY <1>2, <1>4, <1>5, <2>2 DEF Talked
    <3>2. q = IF s.bit = NBits - 1 THEN Goto(g, "DONE0") ELSE [Goto(g, "BIT") EXCEPT !.bit = @ + 1]
      BY <1>2, <1>5, <3>1 DEF TalkBit
    <3>3. /\ g \in Device /\ ~g.atn /\ ~g.listening /\ g.talking /\ g.clk = TRUE
          /\ g.timeout = T60 /\ g.st = s.st /\ g.bit = b
      BY <1>2, <2>1, Times DEF After, Lines, Device, Computers
    <3> HIDE DEF g
    <3>4. CASE s.bit = NBits - 1
      <4>1. /\ ~q.atn /\ ~q.listening /\ q.talking /\ q.state = "DONE0" /\ q.clk = TRUE
            /\ q.timeout = T60 /\ q.st = s.st
        BY <3>2, <3>3, <3>4 DEF Goto, Device
      <4>2. 0 + q.timeout <= T60 /\ b + 1 = NBits
        BY <1>1, <1>2, <2>1, <3>4, <4>1
      <4> QED
        BY <2>1, <4>1, <4>2 DEF Voice
    <3>5. CASE s.bit # NBits - 1
      <4>1. /\ ~q.atn /\ ~q.listening /\ q.talking /\ q.state = "BIT" /\ q.clk = TRUE
            /\ q.timeout = T60 /\ q.st = s.st /\ q.bit = b + 1
        BY <3>2, <3>3, <3>5 DEF Goto, Device
      <4>2. 0 + q.timeout <= T60
        BY <1>1, <4>1
      <4> QED
        BY <2>1, <4>1, <4>2 DEF Voice
    <3> QED
      BY <3>4, <3>5
  <2>3. CASE s.timeout # 0
    <3>1. q = s
      BY <1>2, <1>4, <1>5, <2>3 DEF Talked
    <3>2. t + n < Patience /\ \A u \in Nat : u <= t + n => u + s.timeout <= T60
      BY <1>1, <1>2, <2>1, <2>3
    <3> QED
      BY <1>2, <1>5, <2>1, <3>1, <3>2 DEF Voice
  <2> QED
    BY <2>2, <2>3
<1>6. CASE r.state = "FRAMEERR1"
  <2>1. f /\ s.clk = FALSE /\ s.data
    BY <1>2, <1>6 DEF Voice
  <2>2. q = s
    BY <1>2, <1>4, <1>6, <2>1 DEF Talked
  <2> QED
    BY <1>2, <1>6, <2>1, <2>2 DEF Voice
<1> QED
  BY <1>3, <1>5, <1>6

Hides(q, n, t, b, e, f) ==
    IF ~q.clk THEN Voice(q, IF b = NBits THEN "answered" ELSE "high", 0, b, e, f)
    ELSE /\ t + n < Patience
         /\ \A u \in Nat : u <= t + n => Voice(q, "low", u, b, e, f)

LEMMA VoiceLow ==
    ASSUME NEW r \in Device, NEW n \in Delays, NEW q, NEW d, NEW bus \in Computers,
           NEW t \in Nat, NEW b \in Nat, NEW e \in BOOLEAN, NEW f, Voice(r, "low", t, b, e, f),
           bus.atn, Becomes(Later(r, n), q, d, bus)
    PROVE  Hides(q, n, t, b, e, f)
<1> USE DEF Hides
<1> DEFINE s == Later(r, n)
<1>1. n \in Nat /\ T60 \in Nat /\ Patience \in Nat /\ T60 < Patience /\ NBits \in Nat
  BY Consts
<1>2. /\ s \in Device /\ ~s.atn /\ ~s.listening /\ s.talking /\ s.state = r.state /\ s.st = r.st
      /\ s.clk = r.clk /\ s.data = r.data /\ s.clk \in BOOLEAN /\ s.data \in BOOLEAN
      /\ s.timeout = (IF r.timeout > n THEN r.timeout - n ELSE 0) /\ r.timeout \in Nat
      /\ s.timeout \in Nat /\ s.bit = r.bit /\ r.bit \in 0 .. NBits - 1
  BY <1>1, VoiceLater
<1>3. /\ s.clk = TRUE /\ t + r.timeout <= T60 /\ s.st = IF e THEN SERIAL_EOF ELSE SERIAL_OK
      /\ (r.state = "BIT" /\ r.bit = b) \/ (r.state = "DONE0" /\ b = NBits)
  BY <1>2 DEF Voice
<1>4. q = Talked(s, bus)
  <2>1. ~Fetches(s, bus)
    BY <1>2, <1>3 DEF Fetches
  <2> QED
    BY <1>1, <2>1, TalkerIs
<1> HIDE DEF s
<1>5. CASE s.timeout # 0
  <2>1. q = s
    BY <1>2, <1>3, <1>4, <1>5 DEF Talked
  <2>2. t + n < Patience /\ \A u \in Nat : u <= t + n => u + s.timeout <= T60
    BY <1>1, <1>2, <1>3, <1>5
  <2> QED
    BY <1>2, <1>3, <2>1, <2>2 DEF Voice
<1>6. CASE s.timeout = 0 /\ r.state = "BIT"
  <2>1. q = TalkBit(s, bus)
    BY <1>2, <1>4, <1>6 DEF Talked
  <2>2. q = Goto(After(Lines(s, FALSE, Bit(s.byte, s.bit)), T60), "BITw")
    BY <1>2, <1>6, <2>1 DEF TalkBit
  <2>3. ~q.atn /\ ~q.listening /\ q.talking /\ q.state = "BITw" /\ q.clk = FALSE
        /\ q.bit = s.bit /\ q.timeout = T60 /\ q.st = s.st
    BY <1>2, <2>2 DEF Goto, After, Lines, Device
  <2>4. 0 + q.timeout <= T60 /\ q.bit = b /\ b # NBits
    BY <1>1, <1>2, <1>3, <1>6, <2>3
  <2> QED
    BY <1>3, <2>3, <2>4 DEF Voice
<1>7. CASE s.timeout = 0 /\ r.state = "DONE0"
  <2>1. q = Goto(After(Lines(s, FALSE, TRUE), T1000), "DONE1")
    BY <1>2, <1>4, <1>7 DEF Talked
  <2>2. ~q.atn /\ ~q.listening /\ q.talking /\ q.state = "DONE1" /\ q.clk = FALSE /\ q.data = TRUE
        /\ q.timeout = T1000 /\ q.st = s.st
    BY <1>2, <2>1 DEF Goto, After, Lines, Device
  <2>3. b = NBits
    BY <1>3, <1>7
  <2> QED
    BY <1>3, <2>2, <2>3 DEF Voice
<1> QED
  BY <1>3, <1>5, <1>6, <1>7

Goes(q, t, c, e, g) ==
    /\ Voice(q, "off", t, c, e, g)
    /\ ~e => Voice(q, "ready", t, c, e, g)

LEMMA VoiceAnswered ==
    ASSUME NEW r \in Device, NEW n \in Delays \cup {Late}, NEW q, NEW d, NEW bus \in Computers,
           NEW t, NEW b, NEW e \in BOOLEAN, NEW f, NEW c, Voice(r, "answered", t, b, e, f),
           bus.atn, bus.data, Becomes(Later(r, n), q, d, bus), NEW g, g = (f \/ n = Late)
    PROVE  Goes(q, t, c, e, g)
<1> USE DEF Goes
<1> DEFINE s == Later(r, n)
<1>1. n \in Nat /\ T1000 \in Nat /\ T200 \in Nat /\ T200 <= T1000 /\ (n \in Delays => n < T200)
  BY Consts
<1>2. /\ s \in Device /\ ~s.atn /\ ~s.listening /\ s.talking /\ s.state = r.state /\ s.st = r.st
      /\ s.clk = r.clk /\ s.data = r.data /\ s.clk \in BOOLEAN /\ s.data \in BOOLEAN
      /\ s.timeout = (IF r.timeout > n THEN r.timeout - n ELSE 0) /\ r.timeout \in Nat
      /\ s.timeout \in Nat
  BY <1>1, VoiceLater
<1>3. /\ s.state = "DONE1" /\ s.clk = FALSE /\ s.data /\ r.timeout = T1000 /\ t = 0
      /\ s.st = IF e THEN SERIAL_EOF ELSE SERIAL_OK
  BY <1>2 DEF Voice
<1>4. q = Talked(s, bus)
  <2>1. ~Fetches(s, bus)
    BY <1>3 DEF Fetches
  <2> QED
    BY <1>1, <2>1, TalkerIs
<1> HIDE DEF s
<1>5. CASE s.timeout # 0
  <2>1. q = s
    BY <1>3, <1>4, <1>5 DEF Talked
  <2> QED
    BY <1>2, <1>3, <2>1 DEF Voice
<1>6. CASE s.timeout = 0
  <2>1. q = Goto(After(Free(s), T100), "FRAMEERR0")
    BY <1>3, <1>4, <1>6 DEF Talked
  <2>2. ~q.atn /\ ~q.listening /\ q.talking /\ q.state = "FRAMEERR0" /\ q.clk = TRUE /\ q.data = TRUE
        /\ q.timeout = T100
    BY <1>2, <2>1 DEF Goto, After, Free, Lines, Device
  <2>3. n = Late
    BY <1>1, <1>2, <1>3, <1>6
  <2>4. g
    BY <2>3, Zenon
  <2>5. q.timeout <= T100
    BY <2>2, Consts
  <2> QED
    BY <2>2, <2>4, <2>5 DEF Voice
<1> QED
  BY <1>5, <1>6

(* The program stops reading: the talker goes on, or that was its last byte. *)
Leaves(q) ==
    ~q.atn /\ (~q.talking => Calm(q))

LEMMA VoiceOff ==
    ASSUME NEW r \in Device, NEW n \in Nat, NEW q, NEW d, NEW bus \in Computers,
           NEW t, NEW b, NEW e, NEW f, Voice(r, "off", t, b, e, f),
           bus.atn, ~bus.data, Becomes(Later(r, n), q, d, bus)
    PROVE  Leaves(q)
<1> USE DEF Leaves
<1> DEFINE s == Later(r, n)
<1>1. /\ s \in Device /\ ~s.atn /\ ~s.listening /\ s.talking /\ s.state = r.state
  BY VoiceLater
<1>2. s.state \in {"DONE1", "FRAMEERR0"}
  BY <1>1 DEF Voice
<1>3. q = Talked(s, bus)
  <2>1. ~Fetches(s, bus)
    BY DEF Fetches
  <2> QED
    BY <2>1, TalkerIs
<1> HIDE DEF s
<1>4. CASE s.state = "DONE1"
  <2>1. q = Acknowledged(s)
    BY <1>3, <1>4 DEF Talked
  <2> QED
    BY <1>1, <2>1 DEF Acknowledged, Free, Lines, Goto, After, Device, Calm
<1>5. CASE s.state = "FRAMEERR0"
  <2>1. q = s \/ q = Goto(Lines(s, FALSE, TRUE), "FRAMEERR1")
    BY <1>3, <1>5 DEF Talked
  <2> QED
    BY <1>1, <2>1 DEF Goto, Lines, Device
<1> QED
  BY <1>2, <1>4, <1>5
-----------------------------------------------------------------------------
(* What is to be shown of the devices at each place. *)

LEMMA PlaceFirst ==
    ASSUME pc' \in (Sends \ {"eoi1", "eoi2"}) \cup {"hold", "look", "present"}, cmds' # <<>>, AllFirst'
    PROVE  Apart' /\ Called' /\ Spoken'
  BY DEF Apart, Called, Spoken, Sends, Reading

LEMMA PlaceSecond ==
    ASSUME pc' \in Sends \ {"eoi1", "eoi2"}, cmds' # <<>>, Len(cmds') = 1, AllSecond'
    PROVE  Apart' /\ Called' /\ Spoken'
  BY DEF Apart, Called, Spoken, Sends, Reading

LEMMA PlaceTurn ==
    ASSUME pc' \in {"release", "turn1", "turn2", "turn3", "present"}, cmds' = <<>>, AllSecond',
           pc' \in {"release", "present"} <=> job' # "read"
    PROVE  Apart' /\ Called' /\ Spoken'
  BY DEF Apart, Called, Spoken, Sends, Reading

LEMMA PlaceHear ==
    ASSUME pc' \in Sends, cmds' = <<>>, AllHear',
           pc' \in {"offer", "await", "eoi1", "eoi2"} => (\E d \in Used : Hears(dev[d]))'
    PROVE  Apart' /\ Called' /\ Spoken'
  BY DEF Apart, Called, Spoken, Sends, Reading

LEMMA PlaceSpeak ==
    ASSUME pc' \in Reading, cmds' = <<>>, OneSpeaks', pc' \in {"turned", "ready"} => ~eoi'
    PROVE  Apart' /\ Called' /\ Spoken'
  BY DEF Apart, Called, Spoken, Sends, Reading

LEMMA PlaceOff ==
    ASSUME pc' = "off", OneSpeaks' \/ AllHear' \/ (job' # "read" /\ AllSecond')
    PROVE  Apart' /\ Called' /\ Spoken'
  BY DEF Apart, Called, Spoken, Sends, Reading

LEMMA PlaceAttend ==
    ASSUME pc' = "attend", StageOne', (\A d \in Used : Fresh(dev[d]))'
    PROVE  Apart' /\ Called' /\ Spoken'
  BY DEF Apart, Called, Spoken, Sends, Reading

LEMMA PlaceLoose ==
    ASSUME pc' \in {"idle", "letgo", "finish"}, (\A d \in Used : Loose(dev[d], d))',
           pc' = "idle" => (\A d \in Devs : ~dev[d].talking)',
           pc' = "finish" => cpu'.atn \/ (~cpu.clk /\ \A d \in Used : dev[d].atn /\ dev[d].state \in {"PRE2", "DONE0"})'
    PROVE  Apart' /\ Called' /\ Spoken'
  BY DEF Apart, Called, Spoken, Sends, Reading

(* What an access that brings device d from dev[d] into N[d] leaves to be shown. *)
LEMMA OneTalker ==
    ASSUME SessInv, \A d \in Devs : ~dev'[d].clk \/ ~dev'[d].data \/ dev'[d].talking => d \in Used,
           \A d \in Used : dev'[d].talking => dev[d].talking
    PROVE  \A d, e \in Devs : dev'[d].talking /\ dev'[e].talking => d = e
<1> SUFFICES ASSUME NEW d \in Devs, NEW e \in Devs, dev'[d].talking, dev'[e].talking PROVE d = e
  OBVIOUS
<1>1. dev[d].talking /\ dev[e].talking
  OBVIOUS
<1> QED
  BY <1>1 DEF SessInv

LEMMA UsedDevices ==
    ASSUME TypeInv
    PROVE  \A d \in Used : d \in Devs /\ dev[d] \in Device
  BY DEF Used, TypeInv

LEMMA ClkSeen ==
    ASSUME TypeInv, NEW N, \A e \in Used : dev[e].clk /\ \A r \in N[e] : r.clk,
           NEW d \in Used, NEW bus, Sees(d, bus, N)
    PROVE  bus.clk = cpu.clk /\ bus.atn = cpu.atn
<1>1. cpu.clk \in BOOLEAN /\ dev[d].clk
  BY DEF TypeInv, Computers
<1> QED
  BY <1>1 DEF Sees

LEMMA DataSeen ==
    ASSUME TypeInv, NEW N, NEW d \in Used, NEW bus, Sees(d, bus, N),
           \A e \in Used \ {d} : dev[e].data /\ \A r \in N[e] : r.data
    PROVE  bus.data = (cpu.data /\ dev[d].data)
  BY DEF Sees

(* The session goes on: ATN is noticed, a millisecond passes, the clock is seen. *)
LEMMA AttendKeeps == ASSUME TypeInv, SessInv, Attend PROVE SessInv'
<1> DEFINE N == [d \in Devs |-> {q \in Device : Notices(dev[d], q)}]
<1> HIDE DEF N
<1>1. PICK n \in Delays : Run(n)
  BY DEF Attend
<1>2. n \in Nat /\ Moved(World(n))
  BY <1>1, Consts DEF Run, Noted
<1>3. pc = "attend" /\ pc' = "hold" /\ cpu' = [cpu EXCEPT !.clk = FALSE]
      /\ UNCHANGED <<job, cmds, msg, bit, wait, eoi, late>>
  BY DEF Attend, Go
<1>4. /\ StageOne /\ cpu.atn = FALSE /\ cpu.data /\ \A d \in Devs : ~dev[d].enabled => Away(dev[d])
      /\ cpu \in Computers
  BY <1>3 DEF SessInv, Called, CpuOk, InAtn, TypeInv, Computers
<1>5. \A d \in Used : Fresh(dev[d])
  BY <1>3 DEF SessInv, Called
<1>6. ASSUME NEW d \in Used, NEW q \in Device, NEW bus \in Computers, Sees(d, bus, N),
             Becomes(Later(dev[d], n), q, d, bus)
      PROVE  q \in N[d]
  <2>1. ~bus.atn /\ d \in Devs /\ dev[d] \in Device /\ ~dev[d].atn
    BY <1>4, <1>5, <1>6, UsedDevices DEF Sees, Fresh
  <2>2. Notices(dev[d], q)
    BY <1>2, <1>6, <2>1, FreshOne
  <2> QED
    BY <2>1, <2>2 DEF N
<1>7. /\ Used' = Used /\ \A d \in Devs : ~dev'[d].enabled => Away(dev'[d])
      /\ \A d \in Devs : ~dev'[d].clk \/ ~dev'[d].data \/ dev'[d].talking => d \in Used
      /\ \A d \in Used : dev'[d] \in N[d]
  BY <1>2, <1>4, <1>6, RunAll
<1>8. \A d \in Used : Notices(dev[d], dev'[d])
  BY <1>7, UsedDevices DEF N
<1>9. AllFirst'
  <2>1. \A d \in Used : /\ dev'[d].atn /\ (dev'[d].talking => cmds' = <<UNTALK>>)
                        /\ dev'[d].primary = {} /\ Keeps(dev'[d], "hold", bit, Sending, wait)
    BY <1>3, <1>5, <1>8 DEF Notices, Fresh, Calm, Keeps, DataLow
  <2>2. StageOne' /\ Sending' = Sending
    BY <1>3, <1>4 DEF StageOne, Sending
  <2>3. \A d \in Used : Keeps(dev'[d], pc', bit', Sending', wait')
    BY <1>3, <2>1, <2>2
  <2> QED
    BY <1>7, <2>1, <2>2, <2>3 DEF AllFirst, First, Follows
<1>10. CpuOk'
  BY <1>3, <1>4 DEF CpuOk, InAtn, Reading, Sends, Computers
<1>11. Apart' /\ Called' /\ Spoken'
  BY <1>3, <1>9, PlaceFirst DEF TypeInv
<1>12. \A d, e \in Devs : dev'[d].talking /\ dev'[e].talking => d = e
  BY <1>7, <1>8, OneTalker DEF Notices
<1>13. Patient' /\ Ended'
  BY <1>3 DEF SessInv, Patient, Ended, Reading
<1> QED
  BY <1>7, <1>10, <1>11, <1>12, <1>13 DEF SessInv

LEMMA HoldKeeps == ASSUME TypeInv, SessInv, Hold PROVE SessInv'
<1> DEFINE N == [d \in Devs |-> {q \in Device : Attends(dev[d], q)}]
<1> HIDE DEF N
<1>2. T1000 \in Nat /\ Moved(World(T1000))
  BY Consts DEF Hold, Run, Noted
<1>3. pc = "hold" /\ pc' = "look" /\ UNCHANGED <<cpu, job, cmds, msg, bit, wait, eoi, late>>
  BY DEF Hold, Go
<1>4. /\ AllFirst /\ cpu.atn = FALSE /\ ~cpu.clk /\ cpu.data
      /\ \A d \in Devs : ~dev[d].enabled => Away(dev[d])
  BY <1>3 DEF SessInv, Called, CpuOk, InAtn, TypeInv, Computers
<1>5. \A d \in Used : First(dev[d]) /\ Keeps(dev[d], "hold", bit, Sending, wait)
  BY <1>3, <1>4 DEF AllFirst, First, Follows
<1>6. ASSUME NEW d \in Used, NEW q \in Device, NEW bus \in Computers, Sees(d, bus, N),
             Becomes(Later(dev[d], T1000), q, d, bus)
      PROVE  q \in N[d]
  <2>1. ~bus.atn /\ d \in Devs /\ dev[d] \in Device /\ dev[d].atn
    BY <1>4, <1>5, <1>6, UsedDevices DEF Sees, First
  <2>2. dev[d].state = "PRE0" /\ dev[d].timeout = T100
    BY <1>5 DEF Keeps
  <2>3. Attends(dev[d], q)
    BY <1>6, <2>1, <2>2, HoldOne
  <2> QED
    BY <2>1, <2>3 DEF N
<1>7. /\ Used' = Used /\ \A d \in Devs : ~dev'[d].enabled => Away(dev'[d])
      /\ \A d \in Devs : ~dev'[d].clk \/ ~dev'[d].data \/ dev'[d].talking => d \in Used
      /\ \A d \in Used : dev'[d] \in N[d]
  BY <1>2, <1>4, <1>6, RunAll
<1>8. \A d \in Used : Attends(dev[d], dev'[d])
  BY <1>7, UsedDevices DEF N
<1>9. AllFirst'
  <2>1. \A d \in Used : /\ dev'[d].atn /\ (dev'[d].talking => cmds' = <<UNTALK>>)
                        /\ dev'[d].primary = {} /\ Keeps(dev'[d], "look", bit, Sending, wait)
    BY <1>3, <1>5, <1>8 DEF Attends, Carries, First, Keeps, DataLow
  <2>2. StageOne' /\ Sending' = Sending
    BY <1>3, <1>4 DEF AllFirst, StageOne, Sending
  <2>3. \A d \in Used : Keeps(dev'[d], pc', bit', Sending', wait')
    BY <1>3, <2>1, <2>2
  <2> QED
    BY <1>7, <2>1, <2>2, <2>3 DEF AllFirst, First, Follows
<1>10. CpuOk'
  BY <1>3, <1>4 DEF CpuOk, InAtn, Reading, Sends
<1>11. Apart' /\ Called' /\ Spoken'
  BY <1>3, <1>9, PlaceFirst DEF TypeInv
<1>12. \A d, e \in Devs : dev'[d].talking /\ dev'[e].talking => d = e
  BY <1>7, <1>8, OneTalker DEF Attends, Carries
<1>13. Patient' /\ Ended'
  BY <1>3 DEF SessInv, Patient, Ended, Reading
<1> QED
  BY <1>7, <1>10, <1>11, <1>12, <1>13 DEF SessInv

LEMMA LookKeeps == ASSUME TypeInv, SessInv, Look PROVE SessInv'
<1> DEFINE N == [d \in Devs |-> {q \in Device : Looks(dev[d], q)}]
<1> HIDE DEF N
<1>1. PICK n \in Delays : Run(n)
  BY DEF Look
<1>2. n \in Nat /\ Moved(World(n))
  BY <1>1, Consts DEF Run, Noted
<1>3. pc = "look" /\ pc' = "present" /\ UNCHANGED <<cpu, job, cmds, msg, bit, wait, eoi, late>>
  BY DEF Look, Go
<1>4. /\ AllFirst /\ cpu.atn = FALSE /\ ~cpu.clk /\ cpu.data /\ cmds # <<>>
      /\ \A d \in Devs : ~dev[d].enabled => Away(dev[d])
  BY <1>3 DEF SessInv, Called, CpuOk, InAtn, TypeInv, Computers
<1>5. \A d \in Used : First(dev[d]) /\ Keeps(dev[d], "look", bit, Sending, wait)
  BY <1>3, <1>4 DEF AllFirst, First, Follows
<1>51. \A e \in Used : dev[e].clk /\ \A r \in N[e] : r.clk
  BY <1>5, UsedDevices DEF N, Keeps, Looks
<1>6. ASSUME NEW d \in Used, NEW q \in Device, NEW bus \in Computers, Sees(d, bus, N),
             Becomes(Later(dev[d], n), q, d, bus)
      PROVE  q \in N[d]
  <2>1. ~bus.atn /\ ~bus.clk
    BY <1>4, <1>6, <1>51, ClkSeen
  <2>2. d \in Devs /\ dev[d] \in Device /\ dev[d].atn /\ dev[d].state = "PRE1"
    BY <1>5, UsedDevices DEF First, Keeps
  <2>3. Looks(dev[d], q)
    BY <1>2, <1>6, <2>1, <2>2, LookOne
  <2> QED
    BY <2>2, <2>3 DEF N
<1>7. /\ Used' = Used /\ \A d \in Devs : ~dev'[d].enabled => Away(dev'[d])
      /\ \A d \in Devs : ~dev'[d].clk \/ ~dev'[d].data \/ dev'[d].talking => d \in Used
      /\ \A d \in Used : dev'[d] \in N[d]
  BY <1>2, <1>4, <1>6, RunAll
<1>8. \A d \in Used : Looks(dev[d], dev'[d])
  BY <1>7, UsedDevices DEF N
<1>9. AllFirst'
  <2>1. \A d \in Used : /\ dev'[d].atn /\ (dev'[d].talking => cmds' = <<UNTALK>>)
                        /\ dev'[d].primary = {} /\ Keeps(dev'[d], "present", bit, Sending, wait)
    BY <1>3, <1>5, <1>8 DEF Looks, Carries, First, Keeps, DataLow
  <2>2. StageOne' /\ Sending' = Sending
    BY <1>3, <1>4 DEF AllFirst, StageOne, Sending
  <2>3. \A d \in Used : Keeps(dev'[d], pc', bit', Sending', wait')
    BY <1>3, <2>1, <2>2
  <2> QED
    BY <1>7, <2>1, <2>2, <2>3 DEF AllFirst, First, Follows
<1>10. CpuOk'
  BY <1>3, <1>4 DEF CpuOk, InAtn, Reading, Sends
<1>11. Apart' /\ Called' /\ Spoken'
  BY <1>3, <1>4, <1>9, PlaceFirst DEF TypeInv
<1>12. \A d, e \in Devs : dev'[d].talking /\ dev'[e].talking => d = e
  BY <1>7, <1>8, OneTalker DEF Looks, Carries
<1>13. Patient' /\ Ended'
  BY <1>3 DEF SessInv, Patient, Ended, Reading
<1> QED
  BY <1>7, <1>10, <1>11, <1>12, <1>13 DEF SessInv
(* Whether any device is there: first under ATN, *)
LEMMA PresentFirst == ASSUME TypeInv, SessInv, Present, cmds # <<>> PROVE SessInv'
<1> DEFINE N == [d \in Devs |-> {q \in Device : Stays(dev[d], q)}]
<1> HIDE DEF N
<1>1. PICK n \in Delays : Run(n)
  BY DEF Present
<1>2. n \in Nat /\ Moved(World(n))
  BY <1>1, Consts DEF Run, Noted
<1>3. pc = "present" /\ pc' = (IF DataHigh THEN "finish" ELSE "offer")
      /\ UNCHANGED <<cpu, job, cmds, msg, bit, wait, eoi, late>>
  BY DEF Present, Go
<1>4. /\ AllFirst /\ cpu.atn = FALSE /\ ~cpu.clk /\ cpu.data
      /\ \A d \in Devs : ~dev[d].enabled => Away(dev[d])
  BY <1>3 DEF SessInv, Called, CpuOk, InAtn, TypeInv, Computers, Sends
<1>5. \A d \in Used : First(dev[d]) /\ Keeps(dev[d], "present", bit, Sending, wait)
  BY <1>3, <1>4 DEF AllFirst, First, Follows
<1>51. \A e \in Used : dev[e].clk /\ \A r \in N[e] : r.clk
  BY <1>5, UsedDevices DEF N, Keeps, Stays
<1>6. ASSUME NEW d \in Used, NEW q \in Device, NEW bus \in Computers, Sees(d, bus, N),
             Becomes(Later(dev[d], n), q, d, bus)
      PROVE  q \in N[d]
  <2>1. ~bus.atn /\ ~bus.clk
    BY <1>4, <1>6, <1>51, ClkSeen
  <2>2. d \in Devs /\ dev[d] \in Device /\ dev[d].atn /\ dev[d].state = "PRE2"
    BY <1>5, UsedDevices DEF First, Keeps
  <2>3. Stays(dev[d], q)
    BY <1>2, <1>6, <2>1, <2>2, AtnStays
  <2> QED
    BY <2>2, <2>3 DEF N
<1>7. /\ Used' = Used /\ \A d \in Devs : ~dev'[d].enabled => Away(dev'[d])
      /\ \A d \in Devs : ~dev'[d].clk \/ ~dev'[d].data \/ dev'[d].talking => d \in Used
      /\ \A d \in Used : dev'[d] \in N[d]
  BY <1>2, <1>4, <1>6, RunAll
<1>8. \A d \in Used : Stays(dev[d], dev'[d])
  BY <1>7, UsedDevices DEF N
<1>9. \A d \in Used : /\ dev'[d].atn /\ (dev'[d].talking => cmds' = <<UNTALK>>)
                      /\ dev'[d].primary = {} /\ Keeps(dev'[d], "offer", bit, Sending, wait)
  BY <1>3, <1>5, <1>8 DEF Stays, Carries, First, Keeps, DataLow
<1>10. CpuOk'
  BY <1>3, <1>4 DEF CpuOk, InAtn, Reading, Sends
<1>11. ASSUME DataHigh PROVE Apart' /\ Called' /\ Spoken'
  <2>1. \A d \in Used : ~dev'[d].data /\ d \in Devs
    BY <1>9, UsedDevices DEF Keeps, DataLow
  <2>2. \A d \in Used : FALSE
    BY <1>11, <2>1 DEF DataHigh
  <2> QED
    BY <1>3, <1>4, <1>7, <1>11, <2>2, PlaceLoose
<1>12. ASSUME ~DataHigh PROVE Apart' /\ Called' /\ Spoken'
  <2>1. StageOne' /\ Sending' = Sending
    BY <1>3, <1>4 DEF AllFirst, StageOne, Sending
  <2>2. \A d \in Used : Keeps(dev'[d], pc', bit', Sending', wait')
    BY <1>3, <1>9, <1>12, <2>1
  <2>3. AllFirst'
    BY <1>7, <1>9, <2>1, <2>2 DEF AllFirst, First, Follows
  <2> QED
    BY <1>3, <1>12, <2>3, PlaceFirst DEF Sends
<1>13. \A d, e \in Devs : dev'[d].talking /\ dev'[e].talking => d = e
  BY <1>7, <1>8, OneTalker DEF Stays, Carries
<1>14. Patient' /\ Ended'
  BY <1>3 DEF SessInv, Patient, Ended, Reading
<1>15. Apart' /\ Called' /\ Spoken'
  BY <1>11, <1>12
<1> QED
  BY <1>7, <1>10, <1>13, <1>14, <1>15 DEF SessInv

(* then without it: who was called and did not refuse pulls the data line. *)
LEMMA PresentSecond == ASSUME TypeInv, SessInv, Present, cmds = <<>> PROVE SessInv'
<1> DEFINE N == [d \in Devs |-> {q \in Device : Joins(q)}]
<1> HIDE DEF N
<1>1. PICK n \in Delays : Run(n)
  BY DEF Present
<1>2. n \in Nat /\ Moved(World(n))
  BY <1>1, Consts DEF Run, Noted
<1>3. pc = "present" /\ pc' = (IF DataHigh THEN "finish" ELSE "offer")
      /\ UNCHANGED <<cpu, job, cmds, msg, bit, wait, eoi, late>>
  BY DEF Present, Go
<1>4. /\ AllSecond /\ job # "read" /\ job \in Jobs /\ cpu.atn /\ ~cpu.clk /\ cpu.data
      /\ \A d \in Devs : ~dev[d].enabled => Away(dev[d])
  BY <1>3 DEF SessInv, Called, CpuOk, InAtn, TypeInv, Computers, Sends, AllSecond
<1>5. PICK x \in Used : \A d \in Used : Second(dev[d], d, x)
  BY <1>4 DEF AllSecond
<1>50. \A d \in Used : /\ dev[d].atn /\ ~dev[d].talking /\ dev[d].clk /\ dev[d].primary = LISTEN(x)
                       /\ IF d = x THEN dev[d].state = "PRE2" ELSE Silent(dev[d])
  BY <1>3, <1>4, <1>5 DEF Second, Call, Follows, Keeps, Silent
<1>51. \A e \in Used : dev[e].clk /\ \A r \in N[e] : r.clk
  BY <1>50, UsedDevices DEF N, Joins, Inert, Silent
<1>6. ASSUME NEW d \in Used, NEW q \in Device, NEW bus \in Computers, Sees(d, bus, N),
             Becomes(Later(dev[d], n), q, d, bus)
      PROVE  q \in N[d]
  <2>1. bus.atn /\ ~bus.clk
    BY <1>4, <1>6, <1>51, ClkSeen
  <2>2. d \in Devs /\ x \in Devs /\ dev[d] \in Device /\ dev[d].atn /\ ~dev[d].talking
    BY <1>50, UsedDevices
  <2>3. Joins(q)
    <3>1. CASE d = x
      <4>1. dev[d].primary = LISTEN(d) /\ dev[d].state = "PRE2"
        BY <1>50, <3>1
      <4> QED
        BY <1>2, <1>6, <2>1, <2>2, <4>1, TakesUp
    <3>2. CASE d # x
      <4>1. dev[d].primary \notin {LISTEN(d), TALK(d)} /\ Silent(dev[d])
        BY <1>50, <2>2, <3>2, Codes
      <4>2. Inert(q)
        BY <1>2, <1>6, <2>1, <2>2, <4>1, LeftOut
      <4> QED
        BY <4>2 DEF Joins
    <3> QED
      BY <3>1, <3>2
  <2> QED
    BY <2>2, <2>3 DEF N
<1>7. /\ Used' = Used /\ \A d \in Devs : ~dev'[d].enabled => Away(dev'[d])
      /\ \A d \in Devs : ~dev'[d].clk \/ ~dev'[d].data \/ dev'[d].talking => d \in Used
      /\ \A d \in Used : dev'[d] \in N[d]
  BY <1>2, <1>4, <1>6, RunAll
<1>8. \A d \in Used : Joins(dev'[d])
  BY <1>7, UsedDevices DEF N
<1>10. CpuOk'
  BY <1>3, <1>4 DEF CpuOk, InAtn, Reading, Sends
<1>11. ASSUME DataHigh PROVE Apart' /\ Called' /\ Spoken'
  <2>1. \A d \in Used : dev'[d].data
    BY <1>11, UsedDevices DEF DataHigh
  <2>2. \A d \in Used : Loose(dev'[d], d)
    BY <1>8, <2>1 DEF Joins, Inert, Silent, Loose
  <2> QED
    BY <1>3, <1>4, <1>7, <1>11, <2>2, PlaceLoose
<1>12. ASSUME ~DataHigh PROVE Apart' /\ Called' /\ Spoken'
  <2>1. PICK d \in Devs : ~dev'[d].data
    BY <1>4, <1>12 DEF DataHigh
  <2>2. d \in Used /\ ~Inert(dev'[d])
    BY <1>7, <2>1 DEF Inert, Silent
  <2>3. \A e \in Used : Inert(dev'[e]) \/
                        (/\ ~dev'[e].atn /\ dev'[e].listening /\ ~dev'[e].talking
                         /\ Keeps(dev'[e], pc', bit', Sending', wait'))
    BY <1>3, <1>8, <1>12 DEF Joins, Keeps, DataLow
  <2>4. AllHear' /\ (\E e \in Used : Hears(dev[e]))'
    BY <1>3, <1>4, <1>7, <2>2, <2>3 DEF AllHear, Hears, Follows
  <2> QED
    BY <1>3, <1>12, <2>4, PlaceHear DEF Sends
<1>13. \A d, e \in Devs : dev'[d].talking /\ dev'[e].talking => d = e
  BY <1>7, <1>8, OneTalker DEF Joins, Inert
<1>14. Patient' /\ Ended'
  BY <1>3 DEF SessInv, Patient, Ended, Reading
<1>15. Apart' /\ Called' /\ Spoken'
  BY <1>11, <1>12
<1> QED
  BY <1>7, <1>10, <1>13, <1>14, <1>15 DEF SessInv
-----------------------------------------------------------------------------
(* A byte is sent: F are the devices that follow, the others stay silent. *)

Roles(F) ==
    \A d \in Used :
        /\ dev[d].atn = ~cpu.atn
        /\ IF d \in F THEN (~dev[d].atn => dev[d].listening) /\ Follows(dev[d])
           ELSE Silent(dev[d]) /\ ~dev[d].talking

LEMMA SendOn ==
    ASSUME TypeInv, SessInv, NEW n \in Delays, Moved(World(n)), NEW l, NEW b, Moves(l, b),
           NEW F, Roles(F)
    PROVE  /\ Used' = Used /\ \A d \in Devs : ~dev'[d].enabled => Away(dev'[d])
           /\ \A d \in Devs : ~dev'[d].clk \/ ~dev'[d].data \/ dev'[d].talking => d \in Used
           /\ \A d \in Used : IF d \in F THEN Steps(dev[d], dev'[d], l, b)
                              ELSE Rests(dev[d], dev'[d])
<1> DEFINE N == [d \in Devs |-> {q \in Device : IF d \in F THEN Steps(dev[d], q, l, b)
                                                ELSE Rests(dev[d], q)}]
<1> HIDE DEF N
<1>1. n \in Nat
  BY Consts
<1>2. CpuOk /\ \A d \in Devs : ~dev[d].enabled => Away(dev[d])
  BY DEF SessInv
<1>3. \A d \in Used : dev[d].clk /\ (pc = "pull" => dev[d].data)
  BY DEF Roles, Follows, Keeps, Silent, DataLow
<1>4. \A e \in Used : dev[e].clk /\ \A r \in N[e] : r.clk
  BY <1>3, UsedDevices DEF N, Steps, Rests, Keeps, Silent
<1>5. pc = "pull" => \A e \in Used : dev[e].data /\ \A r \in N[e] : r.data
  BY <1>3, UsedDevices DEF N, Steps, Rests, Keeps, Silent, Moves, DataLow
<1>6. ASSUME NEW d \in Used, NEW q \in Device, NEW bus \in Computers, Sees(d, bus, N),
             Becomes(Later(dev[d], n), q, d, bus)
      PROVE  q \in N[d]
  <2>1. bus.atn = cpu.atn /\ bus.clk = cpu.clk
    BY <1>4, <1>6, ClkSeen
  <2>2. pc = "pull" => bus.data = cpu.data
    <3>1. cpu.data \in BOOLEAN
      BY DEF TypeInv, Computers
    <3>2. pc = "pull" => bus.data = (cpu.data /\ dev[d].data)
      BY <1>5, <1>6, DataSeen
    <3> QED
      BY <1>5, <3>1, <3>2
  <2>3. d \in Devs /\ dev[d] \in Device /\ dev[d].atn = ~bus.atn
    BY <2>1, UsedDevices DEF Roles
  <2>4. CASE d \in F
    <3>1. (~dev[d].atn => dev[d].listening) /\ Follows(dev[d])
      BY <2>4 DEF Roles
    <3>2. Steps(dev[d], q, l, b)
      BY <1>2, <1>6, <2>1, <2>2, <2>3, <3>1, FollowOne
    <3> QED
      BY <2>3, <2>4, <3>2 DEF N
  <2>5. CASE d \notin F
    <3>1. Silent(dev[d]) /\ ~dev[d].talking
      BY <2>5 DEF Roles
    <3>2. Rests(dev[d], q)
      BY <1>1, <1>6, <2>3, <3>1, SilentStays
    <3> QED
      BY <2>3, <2>5, <3>2 DEF N
  <2> QED
    BY <2>4, <2>5
<1>7. /\ Used' = Used /\ \A d \in Devs : ~dev'[d].enabled => Away(dev'[d])
      /\ \A d \in Devs : ~dev'[d].clk \/ ~dev'[d].data \/ dev'[d].talking => d \in Used
      /\ \A d \in Used : dev'[d] \in N[d]
  BY <1>1, <1>2, <1>6, RunAll
<1>8. \A d \in Used : IF d \in F THEN Steps(dev[d], dev'[d], l, b) ELSE Rests(dev[d], dev'[d])
  BY <1>7, UsedDevices DEF N
<1> QED
  BY <1>7, <1>8

(* Who follows: all devices, the one that was called, or those that hear. *)
LEMMA RolesAre ==
    ASSUME TypeInv, SessInv, pc \in Sends \ {"ack", "eoi1", "eoi2"}
    PROVE  /\ cmds # <<>> => \/ AllFirst /\ Roles(Used)
                             \/ /\ Len(cmds) = 1 /\ job \in Jobs
                                /\ \E x \in Used : /\ \A d \in Used : Second(dev[d], d, x)
                                                   /\ Roles({x})
           /\ cmds = <<>> => AllHear /\ Roles({d \in Used : Hears(dev[d])})
<1>1. /\ cmds # <<>> => AllFirst \/ (Len(cmds) = 1 /\ AllSecond)
      /\ cmds = <<>> => AllHear
      /\ cpu.atn = (cmds = <<>>)
  BY DEF SessInv, Called, Spoken, CpuOk, InAtn, Sends
<1>2. \A d \in Used : dev[d] \in Device /\ dev[d].atn \in BOOLEAN
  BY UsedDevices, Fields
<1>3. ASSUME cmds # <<>>, AllFirst PROVE Roles(Used)
  BY <1>1, <1>2, <1>3 DEF Roles, AllFirst, First
<1>4. ASSUME cmds # <<>>, NEW x \in Used, \A d \in Used : Second(dev[d], d, x) PROVE Roles({x})
  BY <1>1, <1>2, <1>4 DEF Roles, Second
<1>5. ASSUME cmds = <<>>, AllHear PROVE Roles({d \in Used : Hears(dev[d])})
  BY <1>1, <1>2, <1>5 DEF Roles, AllHear, Hears, Inert
<1>6. AllSecond => job \in Jobs /\ \E x \in Used : \A d \in Used : Second(dev[d], d, x)
  BY DEF AllSecond
<1> QED
  BY <1>1, <1>3, <1>4, <1>5, <1>6
LEMMA SendKeeps ==
    ASSUME TypeInv, SessInv, pc \in Sends \ {"ack", "eoi1", "eoi2"},
           NEW n \in Delays, Moved(World(n)), Moves(pc', bit'), UNCHANGED <<job, cmds, msg>>,
           pc' = "eoi1" => wait' = 0, CpuOk', Patient', Ended'
    PROVE  SessInv'
<1>1. Sending' = Sending /\ cmds' = cmds /\ job' = job
  BY DEF Sending
<1>2. pc' \in Sends \ {"eoi2"} /\ (pc' = "eoi1" => cmds = <<>>)
  BY DEF Moves, Sends
<1>3. \A q : Keeps(q, pc', bit', Sending, 0) => Keeps(q, pc', bit', Sending', wait')
  BY <1>1, <1>2 DEF Keeps
<1> DEFINE Frame == /\ Used' = Used /\ \A d \in Devs : ~dev'[d].enabled => Away(dev'[d])
                    /\ \A d \in Devs : ~dev'[d].clk \/ ~dev'[d].data \/ dev'[d].talking => d \in Used
           Result(F) == \A d \in Used : IF d \in F THEN Steps(dev[d], dev'[d], pc', bit')
                                        ELSE Rests(dev[d], dev'[d])
<1>4. \A F : Roles(F) => Frame /\ Result(F)
  BY SendOn
<1>5. \A F : Result(F) => \A d \in Used : Carries(dev[d], dev'[d])
  BY DEF Steps, Rests, Stays
<1>6. \A F : Result(F) => /\ \A d \in Used : d \in F => Keeps(dev'[d], pc', bit', Sending', wait')
                          /\ \A d \in Used : d \notin F => Silent(dev'[d])
  BY <1>3 DEF Steps, Rests
<1> HIDE DEF Frame, Result
<1>7. ASSUME NEW F, Roles(F), Apart' /\ Called' /\ Spoken' PROVE SessInv'
  <2>1. Frame /\ \A d \in Used : dev'[d].talking => dev[d].talking
    BY <1>4, <1>5, <1>7 DEF Carries
  <2>2. \A d, e \in Devs : dev'[d].talking /\ dev'[e].talking => d = e
    BY <2>1, OneTalker DEF Frame
  <2> QED
    BY <1>7, <2>1, <2>2 DEF Frame, SessInv
<1>8. CASE cmds # <<>> /\ AllFirst /\ Roles(Used)
  <2>1. Frame /\ Result(Used)
    BY <1>4, <1>8
  <2>2. \A d \in Used : Carries(dev[d], dev'[d]) /\ Keeps(dev'[d], pc', bit', Sending', wait')
    BY <1>5, <1>6, <2>1
  <2>3. StageOne'
    BY <1>1, <1>8 DEF AllFirst, StageOne
  <2>4. \A d \in Used : dev'[d].atn /\ (dev'[d].talking => cmds' = <<UNTALK>>) /\ dev'[d].primary = {}
    BY <1>1, <1>8, <2>2 DEF AllFirst, First, Carries
  <2>5. AllFirst'
    BY <2>1, <2>2, <2>3, <2>4 DEF Frame, AllFirst, First, Follows
  <2> QED
    BY <1>1, <1>2, <1>7, <1>8, <2>5, PlaceFirst
<1>9. ASSUME cmds # <<>>, Len(cmds) = 1, job \in Jobs, NEW x \in Used,
             \A d \in Used : Second(dev[d], d, x), Roles({x})
      PROVE  SessInv'
  <2>1. Frame /\ Result({x})
    BY <1>4, <1>9
  <2>2. \A d \in Used : /\ Carries(dev[d], dev'[d])
                        /\ IF d = x THEN Keeps(dev'[d], pc', bit', Sending', wait') ELSE Silent(dev'[d])
    BY <1>5, <1>6, <2>1
  <2>3. \A d \in Used : dev'[d].atn /\ ~dev'[d].talking /\ dev'[d].primary = IF job' = "read" THEN TALK(x) ELSE LISTEN(x)
    BY <1>1, <1>9, <2>2 DEF Second, Call, Carries
  <2>5. AllSecond'
    BY <1>1, <1>9, <2>1, <2>2, <2>3 DEF Frame, AllSecond, Second, Follows, Call
  <2> QED
    BY <1>1, <1>2, <1>7, <1>9, <2>5, PlaceSecond
<1>10. CASE cmds = <<>> /\ AllHear /\ Roles({d \in Used : Hears(dev[d])})
  <2> DEFINE F == {d \in Used : Hears(dev[d])}
  <2>1. Frame /\ Result(F)
    BY <1>4, <1>10
  <2> HIDE DEF F
  <2>2. \A d \in Used : Carries(dev[d], dev'[d]) /\ (d \in F => Keeps(dev'[d], pc', bit', Sending', wait'))
                        /\ (d \notin F => Silent(dev'[d]))
    BY <1>5, <1>6, <2>1
  <2>3. \A d \in Used : d \in F => ~dev'[d].atn /\ dev'[d].listening /\ ~dev'[d].talking
    BY <2>2 DEF F, Hears, Carries
  <2>4. \A d \in Used : d \notin F => Inert(dev'[d])
    BY <1>10, <2>2 DEF F, AllHear, Inert, Carries
  <2>5. AllHear' /\ (F # {} => (\E d \in Used : Hears(dev[d]))')
    <3>1. \A d \in Used : d \in F => /\ ~dev'[d].atn /\ dev'[d].listening /\ ~dev'[d].talking
                                     /\ Keeps(dev'[d], pc', bit', Sending', wait')
      BY <2>2, <2>3
    <3>2. F \subseteq Used
      BY DEF F
    <3> QED
      BY <1>1, <1>10, <2>1, <2>4, <3>1, <3>2 DEF Frame, AllHear, Hears, Follows
  <2>6. pc' \in {"offer", "await", "eoi1", "eoi2"} => F # {}
    BY <1>10 DEF Moves, SessInv, Spoken, Sends, F
  <2>7. Apart' /\ Called' /\ Spoken'
    BY <1>1, <1>2, <1>10, <2>5, <2>6, PlaceHear
  <2> QED
    BY <1>7, <1>10, <2>7
<1> QED
  BY <1>8, <1>9, <1>10, RolesAre
LEMMA SendingKeeps == ASSUME TypeInv, SessInv, Offer \/ Begin \/ PutBit \/ Valid \/ Pull PROVE SessInv'
<1>1. PICK n \in Delays : Run(n)
  BY DEF Offer, Begin, PutBit, Valid, Pull
<1>2. Moved(World(n)) /\ UNCHANGED <<job, cmds, msg, eoi, late>>
  BY <1>1 DEF Run, Noted, Offer, Begin, PutBit, Valid, Pull
<1>3. CpuOk /\ cpu \in Computers /\ bit \in Nat /\ (pc = "bit" => bit # NBits)
  BY DEF SessInv, TypeInv
<1>4. Sending' = Sending
  BY <1>2 DEF Sending
<1>5. Patient' /\ Ended'
  <2>1. wait' = wait \/ wait' = 0
    BY DEF Offer, Begin, PutBit, Valid, Pull
  <2>2. wait < Patience \/ late
    BY DEF SessInv, Patient
  <2>3. 0 < Patience
    BY Consts
  <2>4. pc \in Sends
    BY DEF Offer, Begin, PutBit, Valid, Pull, Sends
  <2>5. eoi => job = "unlisten"
    BY <2>4 DEF SessInv, Ended, Sends, Reading
  <2> QED
    BY <1>2, <2>1, <2>2, <2>3, <2>5 DEF Patient, Ended
<1>6. CASE Offer
  <2>1. pc = "offer" /\ pc' = "await" /\ cpu' = [cpu EXCEPT !.clk = TRUE] /\ bit' = bit
    BY <1>6 DEF Offer, Go
  <2>2. CpuOk'
    BY <1>2, <1>3, <1>4, <2>1 DEF CpuOk, InAtn, Reading, Sends, Computers
  <2>3. Moves(pc', bit')
    BY <2>1 DEF Moves
  <2> QED
    BY <1>2, <1>5, <2>1, <2>2, <2>3, SendKeeps DEF Sends
<1>7. CASE Begin
  <2>1. pc = "begin" /\ pc' = "bit" /\ cpu' = [cpu EXCEPT !.clk = FALSE] /\ bit' = 0
    BY <1>7 DEF Begin, Go
  <2>2. CpuOk'
    BY <1>2, <1>3, <1>4, <2>1 DEF CpuOk, InAtn, Reading, Sends, Computers
  <2>3. Moves(pc', bit')
    BY <2>1 DEF Moves
  <2> QED
    BY <1>2, <1>5, <2>1, <2>2, <2>3, SendKeeps DEF Sends
<1>8. CASE PutBit
  <2>1. pc = "bit" /\ pc' = "valid" /\ cpu' = [cpu EXCEPT !.data = Bit(Sending, bit)] /\ bit' = bit
    BY <1>8 DEF PutBit, Go
  <2>2. CpuOk'
    BY <1>2, <1>3, <1>4, <2>1 DEF CpuOk, InAtn, Reading, Sends, Computers
  <2>3. Moves(pc', bit')
    BY <2>1 DEF Moves
  <2> QED
    BY <1>2, <1>5, <2>1, <2>2, <2>3, SendKeeps DEF Sends
<1>9. CASE Valid
  <2>1. pc = "valid" /\ pc' = "pull" /\ cpu' = [cpu EXCEPT !.clk = TRUE] /\ bit' = bit
    BY <1>9 DEF Valid, Go
  <2>2. CpuOk'
    BY <1>2, <1>3, <1>4, <2>1 DEF CpuOk, InAtn, Reading, Sends, Computers
  <2>3. Moves(pc', bit')
    BY <2>1 DEF Moves
  <2> QED
    BY <1>2, <1>5, <2>1, <2>2, <2>3, SendKeeps DEF Sends
<1>10. CASE Pull
  <2>1. /\ pc = "pull" /\ pc' = (IF bit' = NBits THEN "ack" ELSE "bit") /\ bit' = bit + 1
        /\ cpu' = [cpu EXCEPT !.clk = FALSE, !.data = TRUE]
    BY <1>10 DEF Pull, Go
  <2>2. CpuOk'
    BY <1>2, <1>3, <1>4, <2>1 DEF CpuOk, InAtn, Reading, Sends, Computers
  <2>3. Moves(pc', bit')
    BY <2>1 DEF Moves
  <2> QED
    BY <1>2, <1>5, <2>1, <2>2, <2>3, SendKeeps DEF Sends
<1> QED
  BY <1>6, <1>7, <1>8, <1>9, <1>10

(* The listeners have let the data line go after one access. *)
LEMMA AwaitKeeps == ASSUME TypeInv, SessInv, Await, pc = "await" PROVE SessInv'
<1>1. PICK n \in Delays : Run(n) /\ Poll(n, DataHigh, IF Last THEN "eoi1" ELSE "begin")
  BY DEF Await
<1>2. Moved(World(n)) /\ UNCHANGED <<cpu, job, cmds, msg, bit, eoi, late>>
  BY <1>1 DEF Run, Noted, Await
<1>3. CpuOk /\ cpu.data
  BY DEF SessInv, CpuOk, Sends
<1>4. DataHigh
  <2>1. Moves("begin", bit)
    BY DEF Moves
  <2>2. PICK F : Roles(F)
    BY RolesAre DEF Sends
  <2>3. /\ \A d \in Devs : ~dev'[d].data => d \in Used
        /\ \A d \in Used : Steps(dev[d], dev'[d], "begin", bit) \/ Rests(dev[d], dev'[d])
    BY <1>2, <2>1, <2>2, SendOn
  <2>4. \A d \in Used : dev'[d].data
    BY <2>3 DEF Steps, Rests, Keeps, Silent, DataLow
  <2> QED
    BY <1>2, <1>3, <2>3, <2>4 DEF DataHigh
<1>5. pc' = (IF Last THEN "eoi1" ELSE "begin") /\ wait' = 0
  BY <1>1, <1>4 DEF Poll, Go
<1>6. Moves(pc', bit')
  BY <1>2, <1>5 DEF Moves, Last
<1>7. Sending' = Sending
  BY <1>2 DEF Sending
<1>8. CpuOk'
  BY <1>2, <1>3, <1>5, <1>7 DEF CpuOk, InAtn, Reading, Sends, Last
<1>9. Patient' /\ Ended'
  <2>1. eoi => job = "unlisten"
    BY DEF SessInv, Ended, Reading
  <2> QED
    BY <1>2, <1>5, <2>1, Consts DEF Patient, Ended
<1> QED
  BY <1>2, <1>5, <1>6, <1>8, <1>9, SendKeeps DEF Sends

(* The last byte is signalled: all who hear wait, pull the data line, let it go. *)
LEMMA EoiKeeps == ASSUME TypeInv, SessInv, Await, pc \in {"eoi1", "eoi2"} PROVE SessInv'
<1> DEFINE limit == IF pc = "eoi1" THEN T200 ELSE T60
<1>1. PICK n \in Delays : /\ Run(n)
                          /\ \/ pc = "eoi1" /\ Poll(n, ~DataHigh, "eoi2")
                             \/ pc = "eoi2" /\ Poll(n, DataHigh, "begin")
  BY DEF Await
<1> DEFINE N == [d \in Devs |-> {q \in Device : IF Hears(dev[d]) THEN Signals(dev[d], q, n)
                                                ELSE Rests(dev[d], q)}]
<1> HIDE DEF N
<1>2. /\ n \in Nat /\ Moved(World(n)) /\ UNCHANGED <<cpu, job, cmds, msg, bit, eoi, late>>
      /\ wait \in Nat /\ limit \in Nat /\ limit < Patience /\ Patience \in Nat
  BY <1>1, Consts DEF Run, Noted, Await, TypeInv
<1>3. /\ AllHear /\ cmds = <<>> /\ cpu.atn /\ cpu.clk /\ cpu.data
      /\ \A d \in Devs : ~dev[d].enabled => Away(dev[d])
  BY DEF SessInv, Called, Spoken, CpuOk, InAtn, Sends
<1>4. PICK x \in Used : Hears(dev[x])
  BY <1>3 DEF SessInv, Spoken, Sends
<1>5. \A d \in Used : Hears(dev[d]) \/ Inert(dev[d])
  BY <1>3 DEF AllHear
<1>51. \A e \in Used : dev[e].clk /\ \A r \in N[e] : r.clk
  <2>1. \A r, q : Signals(r, q, n) => q.clk
    BY <1>2 DEF Signals, Keeps
  <2> QED
    BY <1>5, <2>1, UsedDevices DEF N, Hears, Follows, Keeps, Inert, Silent, Rests
<1>6. ASSUME NEW d \in Used, NEW q \in Device, NEW bus \in Computers, Sees(d, bus, N),
             Becomes(Later(dev[d], n), q, d, bus)
      PROVE  q \in N[d]
  <2>1. bus.atn /\ bus.clk /\ d \in Devs /\ dev[d] \in Device
    BY <1>3, <1>6, <1>51, ClkSeen, UsedDevices
  <2>2. CASE Hears(dev[d])
    <3>1. ~dev[d].atn /\ dev[d].listening /\ Follows(dev[d])
      BY <2>2 DEF Hears
    <3>2. Signals(dev[d], q, n)
      BY <1>6, <2>1, <3>1, EoiOne
    <3> QED
      BY <2>1, <2>2, <3>2 DEF N
  <2>3. CASE ~Hears(dev[d])
    <3>1. Inert(dev[d])
      BY <1>5, <2>3
    <3>2. dev[d].atn = FALSE /\ bus.atn = TRUE
      BY <2>1, <3>1, Fields DEF Inert, Computers
    <3>3. dev[d].atn = ~bus.atn /\ Silent(dev[d]) /\ ~dev[d].talking
      BY <3>1, <3>2 DEF Inert
    <3>4. Rests(dev[d], q)
      BY <1>2, <1>6, <2>1, <3>3, SilentStays
    <3> QED
      BY <2>1, <2>3, <3>4 DEF N
  <2> QED
    BY <2>2, <2>3
<1>7. /\ Used' = Used /\ \A d \in Devs : ~dev'[d].enabled => Away(dev'[d])
      /\ \A d \in Devs : ~dev'[d].clk \/ ~dev'[d].data \/ dev'[d].talking => d \in Used
      /\ \A d \in Used : dev'[d] \in N[d]
  BY <1>2, <1>3, <1>6, RunAll
<1>8. \A d \in Used : IF Hears(dev[d]) THEN Signals(dev[d], dev'[d], n) ELSE Rests(dev[d], dev'[d])
  BY <1>7, UsedDevices DEF N
<1>9. \A d \in Used : Carries(dev[d], dev'[d])
  BY <1>8 DEF Signals, Rests, Stays
<1>10. \A d \in Used : ~Hears(dev[d]) => Inert(dev'[d])
  BY <1>5, <1>8, <1>9 DEF Rests, Carries, Inert
<1>11. /\ \A d \in Used : Hears(dev[d]) => Keeps(dev'[d], pc', bit', Sending, wait')
       /\ pc' \in {"eoi1", "eoi2", "begin"} /\ wait' < Patience
  <2>1. CASE wait + n < limit
    <3>1. \A d \in Used : Hears(dev[d]) => Keeps(dev'[d], pc, bit, Sending, wait + n)
      BY <1>8, <2>1 DEF Signals
    <3>2. pc = "eoi1" => DataHigh
      <4>1. ASSUME pc = "eoi1" PROVE \A d \in Used : dev'[d].data
        BY <1>10, <3>1, <4>1 DEF Keeps, DataLow, Inert, Silent
      <4> QED
        BY <1>2, <1>3, <1>7, <4>1 DEF DataHigh
    <3>3. pc = "eoi2" => ~DataHigh
      <4>1. x \in Devs
        BY UsedDevices
      <4> QED
        BY <1>4, <3>1, <4>1 DEF Keeps, DataLow, DataHigh
    <3>4. pc' = pc /\ wait' = wait + n
      BY <1>1, <1>2, <2>1, <3>2, <3>3 DEF Poll
    <3> QED
      BY <1>2, <2>1, <3>1, <3>4
  <2>2. CASE wait + n >= limit
    <3> DEFINE l == IF pc = "eoi1" THEN "eoi2" ELSE "begin"
    <3>1. \A d \in Used : Hears(dev[d]) => Keeps(dev'[d], l, bit, Sending, 0)
      BY <1>8, <2>2 DEF Signals
    <3>2. pc = "eoi2" => DataHigh
      <4>1. ASSUME pc = "eoi2" PROVE \A d \in Used : dev'[d].data
        BY <1>10, <3>1, <4>1 DEF Keeps, DataLow, Inert, Silent
      <4> QED
        BY <1>2, <1>3, <1>7, <4>1 DEF DataHigh
    <3>3. pc = "eoi1" => ~DataHigh
      <4>1. x \in Devs
        BY UsedDevices
      <4> QED
        BY <1>4, <3>1, <4>1 DEF Keeps, DataLow, DataHigh
    <3>4. pc' = l /\ wait' = 0
      BY <1>1, <3>2, <3>3 DEF Poll, Go
    <3> QED
      BY <1>2, <3>1, <3>4, Consts
  <2> QED
    BY <1>2, <2>1, <2>2
<1>12. Sending' = Sending
  BY <1>2 DEF Sending
<1>13. AllHear' /\ (\E d \in Used : Hears(dev[d]))'
  <2>1. \A d \in Used : Hears(dev[d]) => /\ ~dev'[d].atn /\ dev'[d].listening /\ ~dev'[d].talking
                                         /\ Keeps(dev'[d], pc', bit', Sending', wait')
    BY <1>9, <1>11, <1>12 DEF Hears, Carries
  <2>2. AllHear'
    BY <1>2, <1>3, <1>7, <1>10, <2>1 DEF AllHear, Hears, Follows
  <2> QED
    BY <1>4, <1>7, <2>1, <2>2 DEF Hears, Follows
<1>14. Apart' /\ Called' /\ Spoken'
  BY <1>2, <1>3, <1>11, <1>13, PlaceHear DEF Sends
<1>15. \A d, e \in Devs : dev'[d].talking /\ dev'[e].talking => d = e
  BY <1>7, <1>9, OneTalker DEF Carries
<1>16. CpuOk'
  BY <1>2, <1>3, <1>11, <1>12 DEF SessInv, CpuOk, InAtn, Reading, Sends
<1>17. Patient' /\ Ended'
  <2>1. eoi => job = "unlisten"
    BY DEF SessInv, Ended, Reading
  <2> QED
    BY <1>2, <1>11, <2>1 DEF Patient, Ended
<1> QED
  BY <1>7, <1>14, <1>15, <1>16, <1>17 DEF SessInv
-----------------------------------------------------------------------------
(* The end of a byte: acknowledged, or nobody pulls the data line. *)

LEMMA PlaceRefused ==
    ASSUME pc' = "ack", cmds' # <<>>, AllRefused'
    PROVE  Apart' /\ Called' /\ Spoken'
  BY DEF Apart, Called, Spoken, Sends, Reading

LEMMA CommandsAre ==
    ASSUME NEW j \in Jobs, NEW x \in Devs, NEW c, c = CommandsOf(j, x)
    PROVE  /\ c # <<>> /\ c # <<UNTALK>> /\ Tail(c) # <<>> /\ Len(Tail(c)) = 1
           /\ Head(c) = IF j = "read" THEN TALK(x) ELSE LISTEN(x)
<1>1. \E a : c = <<IF j = "read" THEN TALK(x) ELSE LISTEN(x), a>>
  BY DEF CommandsOf, Jobs
<1> QED
  BY <1>1

(* What the kernal does with the acknowledgement. *)
LEMMA AckIs ==
    ASSUME TypeInv, SessInv, Ack
    PROVE  /\ \E n \in Delays : n \in Nat /\ Moved(World(n))
           /\ pc = "ack" /\ UNCHANGED <<cpu, job, bit, eoi, late>>
           /\ cpu.atn = (cmds = <<>>) /\ ~cpu.clk /\ cpu.data
           /\ \A d \in Devs : ~dev[d].enabled => Away(dev[d])
           /\ ~DataHigh => /\ cmds' = (IF cmds # <<>> THEN Tail(cmds) ELSE <<>>)
                           /\ msg' = (IF cmds # <<>> THEN msg ELSE Tail(msg))
                           /\ pc' = Following
           /\ DataHigh => pc' \in {"ack", "finish"} /\ UNCHANGED <<cmds, msg>>
           /\ Patient' /\ Ended'
<1>1. PICK n \in Delays :
             /\ Run(n)
             /\ IF ~DataHigh
                THEN /\ cmds' = IF cmds # <<>> THEN Tail(cmds) ELSE <<>>
                     /\ msg' = IF cmds # <<>> THEN msg ELSE Tail(msg)
                     /\ Go(Following) /\ wait' = 0
                ELSE /\ Go(IF wait + n >= T1000 THEN "finish" ELSE "ack")
                     /\ wait' = IF wait + n >= T1000 THEN 0 ELSE wait + n
                     /\ UNCHANGED <<cmds, msg>>
  BY DEF Ack
<1>2. n \in Nat /\ Moved(World(n)) /\ pc = "ack" /\ UNCHANGED <<cpu, job, bit, eoi, late>>
  BY <1>1, Consts DEF Run, Noted, Ack
<1>3. /\ cpu.atn = (cmds = <<>>) /\ ~cpu.clk /\ cpu.data
      /\ \A d \in Devs : ~dev[d].enabled => Away(dev[d])
  BY <1>2 DEF SessInv, CpuOk, InAtn, Sends
<1>4. wait \in Nat /\ T1000 \in Nat /\ Patience \in Nat /\ T1000 < Patience
  BY Consts DEF TypeInv
<1>5. wait' < Patience
  <2>1. wait' = 0 \/ (wait' = wait + n /\ ~(wait + n >= T1000))
    BY <1>1
  <2> QED
    BY <1>2, <1>4, <2>1
<1>6. eoi => job = "unlisten"
  BY <1>2 DEF SessInv, Ended, Reading
<1>7. Patient' /\ Ended'
  BY <1>2, <1>5, <1>6 DEF Patient, Ended
<1>8. DataHigh => pc' \in {"ack", "finish"} /\ UNCHANGED <<cmds, msg>>
  BY <1>1 DEF Go
<1>9. ~DataHigh => /\ cmds' = (IF cmds # <<>> THEN Tail(cmds) ELSE <<>>)
                   /\ msg' = (IF cmds # <<>> THEN msg ELSE Tail(msg))
                   /\ pc' = Following
  BY <1>1 DEF Go
<1> QED
  BY <1>2, <1>3, <1>7, <1>8, <1>9

(* The first byte under ATN: all have received it. *)
LEMMA AckFirst == ASSUME TypeInv, SessInv, Ack, cmds # <<>>, AllFirst PROVE SessInv'
<1> DEFINE N == [d \in Devs |-> {q \in Device : Replies(dev[d], q, d, Sending)}]
<1> HIDE DEF N
<1>1. PICK n \in Delays : n \in Nat /\ Moved(World(n))
  BY AckIs
<1>2. /\ pc = "ack" /\ UNCHANGED <<cpu, job, bit, eoi, late>> /\ cpu.atn = FALSE /\ ~cpu.clk /\ cpu.data
      /\ \A d \in Devs : ~dev[d].enabled => Away(dev[d])
      /\ ~DataHigh => cmds' = Tail(cmds) /\ pc' = Following
      /\ DataHigh => pc' \in {"ack", "finish"} /\ cmds' = cmds
      /\ Patient' /\ Ended'
  BY AckIs
<1>3. \A d \in Used : /\ dev[d].atn /\ dev[d].primary = {} /\ (dev[d].talking => cmds = <<UNTALK>>)
                      /\ dev[d].clk /\ dev[d].data /\ dev[d].state = "BITw"
                      /\ dev[d].bit = NBits - 1 /\ dev[d].byte = Sending
  BY <1>2 DEF AllFirst, First, Follows, Keeps, DataLow
<1>4. \A e \in Used : dev[e].clk /\ \A r \in N[e] : r.clk
  BY <1>3, UsedDevices DEF N, Replies
<1>5. ASSUME NEW d \in Used, NEW q \in Device, NEW bus \in Computers, Sees(d, bus, N),
             Becomes(Later(dev[d], n), q, d, bus)
      PROVE  q \in N[d]
  <2>1. ~bus.atn /\ ~bus.clk /\ d \in Devs /\ dev[d] \in Device
    BY <1>2, <1>4, <1>5, ClkSeen, UsedDevices
  <2>2. Replies(dev[d], q, d, Sending)
    BY <1>1, <1>3, <1>5, <2>1, AckOne
  <2> QED
    BY <2>1, <2>2 DEF N
<1>6. /\ Used' = Used /\ \A d \in Devs : ~dev'[d].enabled => Away(dev'[d])
      /\ \A d \in Devs : ~dev'[d].clk \/ ~dev'[d].data \/ dev'[d].talking => d \in Used
      /\ \A d \in Used : dev'[d] \in N[d]
  BY <1>1, <1>2, <1>5, RunAll
<1>7. \A d \in Used : Replies(dev[d], dev'[d], d, Sending)
  BY <1>6, UsedDevices DEF N
<1> DEFINE Meant(d) == Head(cmds) \in {UNLISTEN, UNTALK, LISTEN(d), TALK(d)}
<1>8. \A d \in Used : /\ dev'[d].atn /\ dev'[d].talking = dev[d].talking /\ dev'[d].clk
                      /\ dev'[d].primary = Head(cmds)
                      /\ IF Meant(d) THEN dev'[d].state = "PRE2" /\ dev'[d].data = FALSE
                         ELSE dev'[d].state = "DONE0" /\ dev'[d].data
  BY <1>3, <1>7 DEF Replies, Sending
<1>9. StageOne
  BY DEF AllFirst
<1>10. cpu' = cpu /\ Used' = Used
  BY <1>2, <1>6
<1>11. \A d \in Used : dev[d].talking => cmds = <<UNTALK>>
  BY <1>3
<1>12. ASSUME DataHigh PROVE Apart' /\ Called' /\ Spoken' /\ CpuOk'
  <2>1. cmds' = cmds /\ pc' \in {"ack", "finish"}
    BY <1>2, <1>12
  <2>2. \A d \in Used : ~Meant(d)
    <3>1. \A d \in Used : dev'[d].data
      BY <1>12, UsedDevices DEF DataHigh
    <3> QED
      BY <1>8, <3>1
  <2>3. \A d \in Used : ~dev[d].talking
    <3>1. cmds = <<UNTALK>> => Head(cmds) = UNTALK
      OBVIOUS
    <3> QED
      BY <1>11, <2>2, <3>1
  <2>4. \A d \in Used : /\ dev'[d].atn /\ ~dev'[d].talking /\ Silent(dev'[d])
                        /\ dev'[d].primary = Head(cmds') /\ ~Meant(d)
                        /\ Loose(dev'[d], d) /\ dev'[d].state \in {"PRE2", "DONE0"}
    BY <1>8, <2>1, <2>2, <2>3 DEF Silent, Loose
  <2>5. StageOne'
    BY <1>2, <1>9, <2>1 DEF StageOne
  <2>6. CASE pc' = "ack"
    <3>1. AllRefused'
      BY <1>10, <2>1, <2>4, <2>5 DEF AllRefused, Refused
    <3>2. CpuOk'
      BY <1>2, <2>1, <2>6 DEF CpuOk, InAtn, Reading, Sends
    <3> QED
      BY <2>1, <2>6, <3>1, <3>2, PlaceRefused
  <2>7. CASE pc' = "finish"
    <3>1. Apart' /\ Called' /\ Spoken'
      BY <1>2, <1>10, <2>4, <2>7, PlaceLoose
    <3>2. CpuOk'
      BY <2>7 DEF CpuOk, InAtn, Reading, Sends
    <3> QED
      BY <3>1, <3>2
  <2> QED
    BY <2>1, <2>6, <2>7
<1>13. ASSUME ~DataHigh, job = "unlisten", cmds \in {<<UNLISTEN>>, <<UNTALK>>}
       PROVE  Apart' /\ Called' /\ Spoken' /\ CpuOk'
  <2>1. Tail(cmds) = <<>> /\ Head(cmds) \in {UNLISTEN, UNTALK} /\ (cmds = <<UNTALK>> => Head(cmds) = UNTALK)
    <3>1. CASE cmds = <<UNLISTEN>>
      BY <3>1
    <3>2. CASE cmds = <<UNTALK>>
      BY <3>2
    <3> QED
      BY <1>13, <3>1, <3>2
  <2>2. pc' = "finish"
    BY <1>2, <1>13, <2>1 DEF Following
  <2>3. \A d \in Used : Head(cmds) # TALK(d)
    BY <2>1, UsedDevices, Codes
  <2>4. \A d \in Used : Loose(dev'[d], d) /\ dev'[d].atn /\ dev'[d].state \in {"PRE2", "DONE0"}
    BY <1>3, <1>8, <2>1, <2>3 DEF Loose
  <2>5. Apart' /\ Called' /\ Spoken'
    BY <1>2, <1>10, <2>2, <2>4, PlaceLoose
  <2>6. CpuOk'
    BY <2>2 DEF CpuOk, InAtn, Reading, Sends
  <2> QED
    BY <2>5, <2>6
<1>14. ASSUME ~DataHigh, job \in Jobs, NEW x \in Devs, cmds = CommandsOf(job, x)
       PROVE  Apart' /\ Called' /\ Spoken' /\ CpuOk'
  <2>1. /\ cmds # <<UNTALK>> /\ cmds' = Tail(cmds) /\ cmds' # <<>> /\ Len(cmds') = 1
        /\ Head(cmds) = Call(x)
    BY <1>2, <1>14, CommandsAre DEF Call
  <2>2. pc' = "offer"
    BY <1>2, <1>14, <2>1 DEF Following
  <2>3. \A d \in Devs : Meant(d) => d = x
    BY <1>14, <2>1, Codes DEF Call
  <2>4. x \in Used /\ Meant(x)
    <3>1. PICK d \in Devs : ~dev'[d].data
      BY <1>2, <1>14 DEF DataHigh
    <3>2. d \in Used
      BY <1>6, <3>1
    <3>3. Meant(d)
      BY <1>8, <3>1, <3>2
    <3> QED
      BY <2>3, <3>2, <3>3
  <2>5. \A d \in Used : /\ dev'[d].atn /\ ~dev'[d].talking /\ dev'[d].primary = Call(x)
                        /\ IF d = x THEN Keeps(dev'[d], "offer", bit', Sending', wait')
                           ELSE Silent(dev'[d])
    <3>1. \A d \in Used : d # x => ~Meant(d)
      BY <2>3, UsedDevices
    <3> QED
      BY <1>8, <1>11, <2>1, <2>4, <3>1 DEF Keeps, DataLow, Silent
  <2>6. AllSecond'
    BY <1>2, <1>10, <1>14, <2>2, <2>4, <2>5 DEF AllSecond, Second, Follows, Call
  <2>7. CpuOk'
    BY <1>2, <2>1, <2>2 DEF CpuOk, InAtn, Reading, Sends
  <2>8. Apart' /\ Called' /\ Spoken'
    BY <2>1, <2>2, <2>6, PlaceSecond DEF Sends
  <2> QED
    BY <2>7, <2>8
<1>15. Apart' /\ Called' /\ Spoken' /\ CpuOk'
  BY <1>9, <1>12, <1>13, <1>14 DEF StageOne
<1>16. \A d, e \in Devs : dev'[d].talking /\ dev'[e].talking => d = e
  BY <1>6, <1>8, OneTalker
<1> QED
  BY <1>2, <1>6, <1>15, <1>16 DEF SessInv

(* Nobody was meant: the data line is watched until the kernal gives up. *)
LEMMA AckRefusedKeeps == ASSUME TypeInv, SessInv, Ack, cmds # <<>>, AllRefused PROVE SessInv'
<1> DEFINE N == [d \in Devs |-> {q \in Device : Rests(dev[d], q)}]
<1> HIDE DEF N
<1>1. PICK n \in Delays : n \in Nat /\ Moved(World(n))
  BY AckIs
<1>2. /\ pc = "ack" /\ UNCHANGED <<cpu, job, bit, eoi, late>> /\ cpu.atn = FALSE /\ ~cpu.clk /\ cpu.data
      /\ \A d \in Devs : ~dev[d].enabled => Away(dev[d])
      /\ DataHigh => pc' \in {"ack", "finish"} /\ cmds' = cmds
      /\ Patient' /\ Ended'
  BY AckIs
<1>3. \A d \in Used : Refused(dev[d], d)
  BY DEF AllRefused
<1>6. ASSUME NEW d \in Used, NEW q \in Device, NEW bus \in Computers, Sees(d, bus, N),
             Becomes(Later(dev[d], n), q, d, bus)
      PROVE  q \in N[d]
  <2>1. bus.atn = FALSE /\ d \in Devs /\ dev[d] \in Device /\ dev[d].atn = TRUE /\ Silent(dev[d])
    BY <1>2, <1>3, <1>6, UsedDevices, Fields DEF Sees, Refused
  <2>2. Rests(dev[d], q)
    BY <1>1, <1>6, <2>1, SilentStays
  <2> QED
    BY <2>1, <2>2 DEF N
<1>7. /\ Used' = Used /\ \A d \in Devs : ~dev'[d].enabled => Away(dev'[d])
      /\ \A d \in Devs : ~dev'[d].clk \/ ~dev'[d].data \/ dev'[d].talking => d \in Used
      /\ \A d \in Used : dev'[d] \in N[d]
  BY <1>1, <1>2, <1>6, RunAll
<1>8. \A d \in Used : Carries(dev[d], dev'[d]) /\ Silent(dev'[d])
  BY <1>7, UsedDevices DEF N, Rests, Stays
<1>9. DataHigh
  BY <1>2, <1>7, <1>8 DEF DataHigh, Silent
<1>10. cpu' = cpu /\ Used' = Used /\ cmds' = cmds /\ pc' \in {"ack", "finish"}
  BY <1>2, <1>7, <1>9
<1>11. \A d \in Used : /\ dev'[d].atn /\ ~dev'[d].talking /\ Silent(dev'[d]) /\ dev'[d].primary = Head(cmds')
                       /\ dev'[d].primary \notin {UNLISTEN, UNTALK, LISTEN(d), TALK(d)}
  BY <1>3, <1>8, <1>10 DEF Refused, Carries
<1>12. Apart' /\ Called' /\ Spoken' /\ CpuOk'
  <2>1. StageOne'
    BY <1>2, <1>10 DEF AllRefused, StageOne
  <2>2. CASE pc' = "ack"
    <3>1. AllRefused'
      BY <1>10, <1>11, <2>1 DEF AllRefused, Refused
    <3>2. CpuOk'
      BY <1>2, <1>10, <2>2 DEF CpuOk, InAtn, Reading, Sends
    <3> QED
      BY <1>10, <2>2, <3>1, <3>2, PlaceRefused
  <2>3. CASE pc' = "finish"
    <3>1. \A d \in Used : Loose(dev'[d], d) /\ dev'[d].atn /\ dev'[d].state \in {"PRE2", "DONE0"}
      BY <1>11 DEF Loose, Silent
    <3>2. Apart' /\ Called' /\ Spoken'
      BY <1>2, <1>10, <2>3, <3>1, PlaceLoose
    <3>3. CpuOk'
      BY <2>3 DEF CpuOk, InAtn, Reading, Sends
    <3> QED
      BY <3>2, <3>3
  <2> QED
    BY <1>10, <2>2, <2>3
<1>13. \A d, e \in Devs : dev'[d].talking /\ dev'[e].talking => d = e
  BY <1>7, <1>8, OneTalker DEF Carries
<1> QED
  BY <1>2, <1>7, <1>12, <1>13 DEF SessInv

(* The second byte under ATN: the device that was called has received it. *)
LEMMA AckSecondKeeps ==
    ASSUME TypeInv, SessInv, Ack, Len(cmds) = 1, AllSecond
    PROVE  SessInv'
<1>1. PICK n \in Delays : n \in Nat /\ Moved(World(n))
  BY AckIs
<1>0. cmds # <<>> /\ Tail(cmds) = <<>>
  <2>1. cmds \in Seq(Byte) /\ cmds # <<>>
    <3>1. Len(<<>>) = 0
      BY EmptySeq
    <3>2. cmds # <<>>
      BY <3>1
    <3> QED
      BY <3>2 DEF TypeInv
  <2>2. Tail(cmds) \in Seq(Byte) /\ Len(Tail(cmds)) = 0
    BY <2>1, HeadTailProperties
  <2> QED
    BY <2>1, <2>2, EmptySeq
<1>2. /\ pc = "ack" /\ UNCHANGED <<cpu, job, bit, eoi, late>> /\ cpu.atn = FALSE /\ ~cpu.clk /\ cpu.data
      /\ \A d \in Devs : ~dev[d].enabled => Away(dev[d])
      /\ ~DataHigh => cmds' = <<>> /\ pc' = Following
      /\ Patient' /\ Ended'
  BY <1>0, AckIs
<1>3. PICK x \in Used : \A d \in Used : Second(dev[d], d, x)
  BY DEF AllSecond
<1> DEFINE N == [d \in Devs |-> {q \in Device : IF d = x THEN Replies(dev[d], q, d, Sending)
                                                ELSE Rests(dev[d], q)}]
<1> HIDE DEF N
<1>4. /\ \A d \in Used : /\ dev[d].atn /\ ~dev[d].talking /\ dev[d].primary = Call(x)
                         /\ dev[d].clk /\ (d # x => Silent(dev[d]))
      /\ dev[x].data /\ dev[x].state = "BITw" /\ dev[x].bit = NBits - 1 /\ dev[x].byte = Sending
  BY <1>2, <1>3 DEF Second, Follows, Keeps, DataLow, Silent
<1>5. \A e \in Used : dev[e].clk /\ \A r \in N[e] : r.clk
  BY <1>4, UsedDevices DEF N, Replies, Rests, Silent
<1>6. ASSUME NEW d \in Used, NEW q \in Device, NEW bus \in Computers, Sees(d, bus, N),
             Becomes(Later(dev[d], n), q, d, bus)
      PROVE  q \in N[d]
  <2>1. bus.atn = FALSE /\ ~bus.clk /\ d \in Devs /\ dev[d] \in Device
    BY <1>2, <1>5, <1>6, ClkSeen, UsedDevices
  <2>2. CASE d = x
    <3>1. Replies(dev[d], q, d, Sending)
      BY <1>1, <1>4, <1>6, <2>1, <2>2, AckOne
    <3> QED
      BY <2>1, <2>2, <3>1 DEF N
  <2>3. CASE d # x
    <3>1. dev[d].atn = TRUE /\ Silent(dev[d])
      BY <1>4, <2>1, <2>3, Fields
    <3>2. Rests(dev[d], q)
      BY <1>1, <1>6, <2>1, <3>1, SilentStays
    <3> QED
      BY <2>1, <2>3, <3>2 DEF N
  <2> QED
    BY <2>2, <2>3
<1>7. /\ Used' = Used /\ \A d \in Devs : ~dev'[d].enabled => Away(dev'[d])
      /\ \A d \in Devs : ~dev'[d].clk \/ ~dev'[d].data \/ dev'[d].talking => d \in Used
      /\ \A d \in Used : dev'[d] \in N[d]
  BY <1>1, <1>2, <1>6, RunAll
<1>8. \A d \in Used : IF d = x THEN Replies(dev[d], dev'[d], d, Sending) ELSE Rests(dev[d], dev'[d])
  BY <1>7, UsedDevices DEF N
<1>9. x \in Devs /\ Call(x) # {} /\ Call(x) \in {UNLISTEN, UNTALK, LISTEN(x), TALK(x)} /\ job \in Jobs
      /\ job # "unlisten"
  BY UsedDevices, Codes DEF Call, AllSecond, Jobs
<1>10. \A d \in Used : /\ dev'[d].atn /\ ~dev'[d].talking /\ dev'[d].primary = Call(x)
                       /\ IF d = x THEN dev'[d].clk /\ dev'[d].data = FALSE /\ dev'[d].state = "PRE2"
                          ELSE Silent(dev'[d])
  BY <1>4, <1>8, <1>9 DEF Replies, Rests, Stays, Carries
<1>11. /\ cmds' = <<>> /\ pc' = (IF job = "read" THEN "turn1" ELSE "release")
       /\ job' = job /\ cpu' = cpu
  <2>1. ~DataHigh
    BY <1>9, <1>10 DEF DataHigh
  <2> QED
    BY <1>0, <1>2, <1>9, <2>1 DEF Following
<1>12. AllSecond'
  <2>1. Keeps(dev'[x], pc', bit', Sending', wait')
    BY <1>10, <1>11 DEF Keeps, DataLow
  <2> QED
    BY <1>7, <1>9, <1>10, <1>11, <2>1 DEF AllSecond, Second, Follows, Call
<1>13. Apart' /\ Called' /\ Spoken'
  BY <1>11, <1>12, PlaceTurn
<1>14. CpuOk'
  BY <1>2, <1>11 DEF CpuOk, InAtn, Reading, Sends
<1>15. \A d, e \in Devs : dev'[d].talking /\ dev'[e].talking => d = e
  BY <1>4, <1>7, <1>10, OneTalker
<1> QED
  BY <1>2, <1>7, <1>13, <1>14, <1>15 DEF SessInv

(* A byte of data: each device that heard it has written it, or has not. *)
LEMMA AckHearKeeps == ASSUME TypeInv, SessInv, Ack, cmds = <<>> PROVE SessInv'
<1> DEFINE N == [d \in Devs |-> {q \in Device : IF Hears(dev[d]) THEN Writes(dev[d], q)
                                                ELSE Rests(dev[d], q)}]
<1> HIDE DEF N
<1>1. PICK n \in Delays : n \in Nat /\ Moved(World(n))
  BY AckIs
<1>2. /\ pc = "ack" /\ UNCHANGED <<cpu, job, bit, eoi, late>> /\ cpu.atn = TRUE /\ ~cpu.clk /\ cpu.data
      /\ \A d \in Devs : ~dev[d].enabled => Away(dev[d])
      /\ ~DataHigh => pc' = Following
      /\ DataHigh => pc' \in {"ack", "finish"}
      /\ cmds' = <<>> /\ Patient' /\ Ended'
  BY AckIs
<1>3. job \in Jobs \ {"read"} /\ \A d \in Used : Hears(dev[d]) \/ Inert(dev[d])
  BY <1>2 DEF SessInv, Spoken, Sends, AllHear
<1>4. \A d \in Used : /\ dev[d].atn = FALSE /\ ~dev[d].talking /\ dev[d].clk
                      /\ Hears(dev[d]) => /\ dev[d].listening /\ dev[d].data /\ dev[d].state = "BITw"
                                          /\ dev[d].bit = NBits - 1
                      /\ ~Hears(dev[d]) => Silent(dev[d])
  BY <1>2, <1>3, UsedDevices, Fields DEF Hears, Inert, Follows, Keeps, DataLow, Silent
<1>5. \A e \in Used : dev[e].clk /\ \A r \in N[e] : r.clk
  BY <1>4, UsedDevices DEF N, Writes, Rests, Silent
<1>6. ASSUME NEW d \in Used, NEW q \in Device, NEW bus \in Computers, Sees(d, bus, N),
             Becomes(Later(dev[d], n), q, d, bus)
      PROVE  q \in N[d]
  <2>1. bus.atn = TRUE /\ ~bus.clk /\ d \in Devs /\ dev[d] \in Device
    BY <1>2, <1>5, <1>6, ClkSeen, UsedDevices
  <2>2. CASE Hears(dev[d])
    <3>1. Writes(dev[d], q)
      BY <1>1, <1>4, <1>6, <2>1, <2>2, AckData
    <3> QED
      BY <2>1, <2>2, <3>1 DEF N
  <2>3. CASE ~Hears(dev[d])
    <3>1. Rests(dev[d], q)
      BY <1>1, <1>4, <1>6, <2>1, <2>3, SilentStays
    <3> QED
      BY <2>1, <2>3, <3>1 DEF N
  <2> QED
    BY <2>2, <2>3
<1>7. /\ Used' = Used /\ \A d \in Devs : ~dev'[d].enabled => Away(dev'[d])
      /\ \A d \in Devs : ~dev'[d].clk \/ ~dev'[d].data \/ dev'[d].talking => d \in Used
      /\ \A d \in Used : dev'[d] \in N[d]
  BY <1>1, <1>2, <1>6, RunAll
<1>8. \A d \in Used : IF Hears(dev[d]) THEN Writes(dev[d], dev'[d]) ELSE Rests(dev[d], dev'[d])
  BY <1>7, UsedDevices DEF N
<1>9. \A d \in Used : /\ ~dev'[d].atn /\ ~dev'[d].talking /\ dev'[d].clk
                      /\ \/ Inert(dev'[d]) /\ dev'[d].data
                         \/ dev'[d].listening /\ dev'[d].state = "PRE2" /\ dev'[d].data = FALSE
  <2>1. ASSUME NEW d \in Used, Hears(dev[d])
        PROVE  /\ ~dev'[d].atn /\ ~dev'[d].talking /\ dev'[d].clk
               /\ \/ Inert(dev'[d]) /\ dev'[d].data
                  \/ dev'[d].listening /\ dev'[d].state = "PRE2" /\ dev'[d].data = FALSE
    BY <1>4, <1>8, <2>1 DEF Writes, Carries, Inert, Silent
  <2>2. ASSUME NEW d \in Used, ~Hears(dev[d])
        PROVE  ~dev'[d].atn /\ ~dev'[d].talking /\ dev'[d].clk /\ Inert(dev'[d]) /\ dev'[d].data
    BY <1>4, <1>8, <2>2 DEF Rests, Stays, Carries, Inert, Silent
  <2> QED
    BY <2>1, <2>2
<1>10. cpu' = cpu /\ job' = job /\ Used' = Used /\ cmds' = <<>>
  BY <1>2, <1>7
<1>11. ASSUME DataHigh PROVE Apart' /\ Called' /\ Spoken' /\ CpuOk'
  <2>1. \A d \in Used : Inert(dev'[d])
    BY <1>9, <1>11, UsedDevices DEF DataHigh
  <2>2. CASE pc' = "ack"
    <3>1. AllHear'
      BY <1>3, <1>10, <2>1 DEF AllHear
    <3>2. Apart' /\ Called' /\ Spoken'
      BY <1>10, <2>2, <3>1, PlaceHear DEF Sends
    <3>3. CpuOk'
      BY <1>2, <1>10, <2>2 DEF CpuOk, InAtn, Reading, Sends
    <3> QED
      BY <3>2, <3>3
  <2>3. CASE pc' = "finish"
    <3>1. \A d \in Used : Loose(dev'[d], d)
      BY <2>1 DEF Loose, Inert, Silent
    <3>2. Apart' /\ Called' /\ Spoken'
      BY <1>2, <1>10, <2>3, <3>1, PlaceLoose
    <3>3. CpuOk'
      BY <2>3 DEF CpuOk, InAtn, Reading, Sends
    <3> QED
      BY <3>2, <3>3
  <2> QED
    BY <1>2, <1>11, <2>2, <2>3
<1>12. ASSUME ~DataHigh PROVE Apart' /\ Called' /\ Spoken' /\ CpuOk'
  <2>1. pc' \in {"offer", "off"}
    BY <1>2, <1>10, <1>12 DEF Following
  <2>2. PICK x \in Devs : ~dev'[x].data
    BY <1>2, <1>12 DEF DataHigh
  <2>3. x \in Used
    BY <1>7, <2>2
  <2>4. \A d \in Used : ~dev'[d].data => /\ ~dev'[d].atn /\ dev'[d].listening /\ ~dev'[d].talking
                                         /\ Keeps(dev'[d], pc', bit', Sending', wait')
    BY <1>9, <2>1 DEF Keeps, DataLow
  <2>5. \A d \in Used : dev'[d].data => Inert(dev'[d])
    BY <1>9
  <2>6. AllHear'
    BY <1>3, <1>10, <2>4, <2>5 DEF AllHear, Hears, Follows
  <2>7. (\E d \in Used : Hears(dev[d]))'
    BY <1>10, <2>2, <2>3, <2>4 DEF Hears, Follows
  <2>8. Apart' /\ Called' /\ Spoken'
    BY <1>10, <2>1, <2>6, <2>7, PlaceHear, PlaceOff DEF Sends
  <2>9. CpuOk'
    BY <1>2, <1>3, <1>10, <2>1 DEF CpuOk, InAtn, Reading, Sends
  <2> QED
    BY <2>8, <2>9
<1>13. \A d, e \in Devs : dev'[d].talking /\ dev'[e].talking => d = e
  BY <1>7, <1>9, OneTalker
<1>14. Apart' /\ Called' /\ Spoken' /\ CpuOk'
  BY <1>11, <1>12
<1> QED
  BY <1>2, <1>7, <1>13, <1>14 DEF SessInv

LEMMA AckKeeps == ASSUME TypeInv, SessInv, Ack PROVE SessInv'
<1>1. pc = "ack" /\ (cmds # <<>> => AllFirst \/ AllRefused \/ (Len(cmds) = 1 /\ AllSecond))
  BY DEF Ack, SessInv, Called, Sends
<1> QED
  BY <1>1, AckFirst, AckRefusedKeeps, AckSecondKeeps, AckHearKeeps
-----------------------------------------------------------------------------
(* ATN is let go, or the turnaround begins: under ATN nobody moves. *)
LEMMA HeldUnderAtn ==
    ASSUME TypeInv, SessInv, pc \in {"release", "turn1", "turn2"},
           NEW n \in Nat, Moved(World(n)), pc' \in {"present", "off", "turn2", "turn3"},
           UNCHANGED <<job, cmds, bit, wait, late, eoi>>
    PROVE  /\ Used' = Used /\ AllSecond' /\ cmds' = <<>> /\ (pc = "release" <=> job # "read")
           /\ \A d \in Devs : ~dev'[d].enabled => Away(dev'[d])
           /\ \A d, e \in Devs : dev'[d].talking /\ dev'[e].talking => d = e
           /\ Patient' /\ (pc' # "off" => Ended')
           /\ eoi => job = "unlisten"
           /\ cpu.atn = FALSE /\ cpu.clk = FALSE /\ (pc # "turn2" => cpu.data) /\ (pc = "turn2" => ~cpu.data)
<1> DEFINE N == [d \in Devs |-> {q \in Device : Stays(dev[d], q)}]
<1> HIDE DEF N
<1>1. /\ cpu.atn = FALSE /\ cpu.clk = FALSE /\ (pc # "turn2" => cpu.data) /\ (pc = "turn2" => ~cpu.data)
      /\ \A d \in Devs : ~dev[d].enabled => Away(dev[d])
  BY DEF SessInv, CpuOk, InAtn, TypeInv, Computers
<1>2. cmds = <<>> /\ AllSecond /\ (pc = "release" <=> job # "read")
  BY DEF SessInv, Called
<1>3. PICK x \in Used : \A d \in Used : Second(dev[d], d, x)
  BY <1>2 DEF AllSecond
<1>4. \A d \in Used : /\ dev[d].atn /\ ~dev[d].talking /\ dev[d].primary = Call(x) /\ dev[d].clk
                      /\ d = x => dev[d].state = "PRE2" /\ dev[d].data = FALSE
                      /\ d # x => Silent(dev[d]) /\ dev[d].state = "DONE0"
  BY <1>3 DEF Second, Follows, Keeps, DataLow, Silent
<1>5. \A e \in Used : dev[e].clk /\ \A r \in N[e] : r.clk
  BY <1>4, UsedDevices DEF N, Stays
<1>6. ASSUME NEW d \in Used, NEW q \in Device, NEW bus \in Computers, Sees(d, bus, N),
             Becomes(Later(dev[d], n), q, d, bus)
      PROVE  q \in N[d]
  <2>1. ~bus.atn /\ ~bus.clk /\ d \in Devs /\ dev[d] \in Device
    BY <1>1, <1>5, <1>6, ClkSeen, UsedDevices
  <2>2. dev[d].atn /\ dev[d].state \in {"PRE2", "DONE0"}
    BY <1>4
  <2>3. Stays(dev[d], q)
    BY <1>6, <2>1, <2>2, AtnStays
  <2> QED
    BY <2>1, <2>3 DEF N
<1>7. /\ Used' = Used /\ \A d \in Devs : ~dev'[d].enabled => Away(dev'[d])
      /\ \A d \in Devs : ~dev'[d].clk \/ ~dev'[d].data \/ dev'[d].talking => d \in Used
      /\ \A d \in Used : dev'[d] \in N[d]
  BY <1>1, <1>6, RunAll
<1>8. \A d \in Used : Stays(dev[d], dev'[d])
  BY <1>7, UsedDevices DEF N
<1>9. \A d \in Used : /\ dev'[d].atn /\ ~dev'[d].talking /\ dev'[d].primary = Call(x)
                      /\ IF d = x THEN Keeps(dev'[d], pc', bit', Sending', wait')
                                  ELSE Silent(dev'[d])
  <2>1. \A d \in Used : dev'[d].atn /\ ~dev'[d].talking /\ dev'[d].primary = Call(x)
    BY <1>4, <1>8 DEF Stays, Carries
  <2>2. dev'[x].clk /\ dev'[x].data = FALSE /\ dev'[x].state = "PRE2"
    BY <1>4, <1>8 DEF Stays
  <2>3. Keeps(dev'[x], pc', bit', Sending', wait')
    BY <2>2 DEF Keeps, DataLow
  <2>4. \A d \in Used : d # x => Silent(dev'[d])
    BY <1>4, <1>8 DEF Stays, Carries, Silent
  <2> QED
    BY <2>1, <2>3, <2>4
<1>10. AllSecond'
  BY <1>2, <1>7, <1>9 DEF AllSecond, Second, Follows, Call
<1>11. \A d, e \in Devs : dev'[d].talking /\ dev'[e].talking => d = e
  BY <1>4, <1>7, <1>9, OneTalker
<1>12. Patient' /\ (pc' # "off" => Ended') /\ (eoi => job = "unlisten")
  BY DEF SessInv, Patient, Ended, Reading
<1> QED
  BY <1>1, <1>2, <1>7, <1>10, <1>11, <1>12

LEMMA ReleaseKeeps == ASSUME TypeInv, SessInv, Release PROVE SessInv'
<1>1. PICK n \in Delays : Run(n)
  BY DEF Release
<1>2. n \in Nat /\ Moved(World(n))
  BY <1>1, Consts DEF Run, Noted
<1>3. /\ pc = "release" /\ pc' = (IF msg = <<>> THEN "off" ELSE "present")
      /\ UNCHANGED <<job, cmds, bit, wait, late, eoi>>
  BY DEF Release, Go
<1>4. cpu' = [cpu EXCEPT !.atn = TRUE] /\ cpu \in Computers
  BY DEF Release, TypeInv
<1>5. /\ Used' = Used /\ AllSecond' /\ cmds' = <<>> /\ job # "read"
      /\ \A d \in Devs : ~dev'[d].enabled => Away(dev'[d])
      /\ \A d, e \in Devs : dev'[d].talking /\ dev'[e].talking => d = e
      /\ Patient' /\ (eoi => job = "unlisten")
      /\ cpu.clk = FALSE /\ cpu.data
  BY <1>2, <1>3, HeldUnderAtn
<1>6. Ended'
  BY <1>3, <1>5 DEF Ended
<1>7. CpuOk'
  BY <1>3, <1>4, <1>5 DEF CpuOk, InAtn, Reading, Sends, Computers
<1>8. Apart' /\ Called' /\ Spoken'
  BY <1>3, <1>5, PlaceTurn, PlaceOff
<1> QED
  BY <1>5, <1>6, <1>7, <1>8 DEF SessInv

LEMMA TurnAtnKeeps == ASSUME TypeInv, SessInv, Turn, pc \in {"turn1", "turn2"} PROVE SessInv'
<1>1. PICK n \in Delays : Run(n)
  BY DEF Turn
<1>2. n \in Nat /\ Moved(World(n))
  BY <1>1, Consts DEF Run, Noted
<1>3. /\ pc' = (IF pc = "turn1" THEN "turn2" ELSE "turn3")
      /\ UNCHANGED <<job, cmds, bit, wait, late, eoi>>
  BY DEF Turn, Go
<1>4. /\ cpu' = IF pc = "turn1" THEN [cpu EXCEPT !.data = FALSE] ELSE [cpu EXCEPT !.atn = TRUE]
      /\ cpu \in Computers
  BY DEF Turn, TypeInv
<1>5. /\ Used' = Used /\ AllSecond' /\ cmds' = <<>> /\ job = "read"
      /\ \A d \in Devs : ~dev'[d].enabled => Away(dev'[d])
      /\ \A d, e \in Devs : dev'[d].talking /\ dev'[e].talking => d = e
      /\ Patient' /\ Ended'
      /\ cpu.atn = FALSE /\ cpu.clk = FALSE /\ (pc = "turn2" => ~cpu.data)
  BY <1>2, <1>3, HeldUnderAtn
<1>7. CpuOk'
  BY <1>3, <1>4, <1>5 DEF CpuOk, InAtn, Reading, Sends, Computers
<1>8. Apart' /\ Called' /\ Spoken'
  BY <1>3, <1>5, PlaceTurn
<1> QED
  BY <1>5, <1>7, <1>8 DEF SessInv

(* ATN has been let go: the device that was told to talks, the others rest. *)
LEMMA TurnedRoundKeeps == ASSUME TypeInv, SessInv, Turn, pc = "turn3" PROVE SessInv'
<1>1. PICK n \in Delays : Run(n)
  BY DEF Turn
<1>2. n \in Nat /\ Moved(World(n))
  BY <1>1, Consts DEF Run, Noted
<1>3. pc' = "turned" /\ UNCHANGED <<job, cmds, bit, wait, late, eoi>>
  BY DEF Turn, Go
<1>4. cpu' = [cpu EXCEPT !.clk = TRUE] /\ cpu \in Computers
  BY DEF Turn, TypeInv
<1>5. /\ cpu.atn = TRUE /\ cpu.clk = FALSE /\ ~cpu.data
      /\ \A d \in Devs : ~dev[d].enabled => Away(dev[d])
      /\ cmds = <<>> /\ AllSecond /\ job = "read" /\ ~eoi
  BY DEF SessInv, CpuOk, InAtn, TypeInv, Computers, Called, Ended, Reading, Sends
<1>6. PICK x \in Used : \A d \in Used : Second(dev[d], d, x)
  BY <1>5 DEF AllSecond
<1> DEFINE N == [d \in Devs |-> {q \in Device : IF d = x THEN Waits(q) ELSE Inert(q)}]
<1> HIDE DEF N
<1>7. /\ \A d \in Used : /\ dev[d].atn /\ ~dev[d].talking /\ dev[d].clk
                         /\ dev[d].primary = TALK(x)
                         /\ d # x => Silent(dev[d])
  BY <1>5, <1>6 DEF Second, Follows, Keeps, Silent, Call
<1>8. \A e \in Used : dev[e].clk /\ \A r \in N[e] : r.clk
  BY <1>7, UsedDevices DEF N, Waits, Inert, Silent
<1>9. ASSUME NEW d \in Used, NEW q \in Device, NEW bus \in Computers, Sees(d, bus, N),
             Becomes(Later(dev[d], n), q, d, bus)
      PROVE  q \in N[d]
  <2>1. bus.atn /\ ~bus.clk /\ d \in Devs /\ x \in Devs /\ dev[d] \in Device
    BY <1>5, <1>8, <1>9, ClkSeen, UsedDevices
  <2>2. CASE d = x
    <3>1. Waits(q)
      BY <1>2, <1>7, <1>9, <2>1, <2>2, TurnsRound
    <3> QED
      BY <2>1, <2>2, <3>1 DEF N
  <2>3. CASE d # x
    <3>1. dev[d].primary \notin {LISTEN(d), TALK(d)}
      BY <1>7, <2>1, <2>3, Codes
    <3>2. Inert(q)
      BY <1>2, <1>7, <1>9, <2>1, <2>3, <3>1, LeftOut
    <3> QED
      BY <2>1, <2>3, <3>2 DEF N
  <2> QED
    BY <2>2, <2>3
<1>10. /\ Used' = Used /\ \A d \in Devs : ~dev'[d].enabled => Away(dev'[d])
       /\ \A d \in Devs : ~dev'[d].clk \/ ~dev'[d].data \/ dev'[d].talking => d \in Used
       /\ \A d \in Used : dev'[d] \in N[d]
  BY <1>2, <1>5, <1>9, RunAll
<1>11. Waits(dev'[x]) /\ \A d \in Used : d # x => Inert(dev'[d])
  BY <1>10, UsedDevices DEF N
<1>12. OneSpeaks'
  <2>1. Voice(dev'[x], pc', wait', bit', eoi', late')
    BY <1>3, <1>11 DEF Voice, Waits
  <2> QED
    BY <1>3, <1>5, <1>10, <1>11, <2>1 DEF OneSpeaks, Speaks
<1>13. Apart' /\ Called' /\ Spoken'
  BY <1>3, <1>5, <1>12, PlaceSpeak DEF Reading
<1>14. \A d, e \in Devs : dev'[d].talking /\ dev'[e].talking => d = e
  BY <1>10, <1>11 DEF Inert
<1>15. Patient' /\ Ended'
  BY <1>3, <1>5 DEF SessInv, Patient, Ended
<1>16. CpuOk'
  BY <1>3, <1>4, <1>5 DEF CpuOk, InAtn, Reading, Sends, Computers
<1> QED
  BY <1>10, <1>13, <1>14, <1>15, <1>16 DEF SessInv

LEMMA TurnKeeps == ASSUME TypeInv, SessInv, Turn PROVE SessInv'
<1>1. pc \in {"turn1", "turn2", "turn3"}
  BY DEF Turn
<1> QED
  BY <1>1, TurnAtnKeeps, TurnedRoundKeeps
-----------------------------------------------------------------------------
(* While a device talks the others rest, and nothing but its own lines is on the
   bus with those of the computer. *)
LEMMA TalkOn ==
    ASSUME TypeInv, SessInv, pc \in Reading \cup {"off"}, NEW n \in Nat, Moved(World(n)),
           NEW x \in Used, \A d \in Used : d # x => Inert(dev[d]), NEW G,
           \A q \in Device, bus \in Computers :
              /\ bus.atn = TRUE /\ (pc # "off" => bus.clk = dev[x].clk)
              /\ bus.data = (cpu.data /\ dev[x].data)
              /\ Becomes(Later(dev[x], n), q, x, bus)
              => q \in G
    PROVE  /\ Used' = Used /\ \A d \in Devs : ~dev'[d].enabled => Away(dev'[d])
           /\ \A d \in Used : d # x => Inert(dev'[d])
           /\ dev'[x] \in G /\ x \in Devs /\ dev[x] \in Device /\ dev'[x] \in Device
           /\ \A d, e \in Devs : dev'[d].talking /\ dev'[e].talking => d = e
           /\ \A d \in Devs : d # x => dev'[d].clk /\ dev'[d].data
<1> DEFINE N == [d \in Devs |-> {q \in Device : IF d = x THEN q \in G ELSE Inert(q)}]
<1> HIDE DEF N
<1>1. cpu.atn = TRUE /\ (pc # "off" => cpu.clk) /\ \A d \in Devs : ~dev[d].enabled => Away(dev[d])
  BY DEF SessInv, CpuOk, InAtn, Reading, Sends
<1>2. \A d \in Used : d # x => dev[d].clk /\ dev[d].data /\ dev[d].atn = FALSE /\ Silent(dev[d]) /\ ~dev[d].talking
  BY UsedDevices, Fields DEF Inert, Silent
<1>3. \A e \in Used \ {x} : /\ dev[e].clk /\ \A r \in N[e] : r.clk
                            /\ dev[e].data /\ \A r \in N[e] : r.data
  BY <1>2, UsedDevices DEF N, Inert, Silent
<1>4. ASSUME NEW d \in Used, NEW q \in Device, NEW bus \in Computers, Sees(d, bus, N),
             Becomes(Later(dev[d], n), q, d, bus)
      PROVE  q \in N[d]
  <2>1. bus.atn = TRUE /\ d \in Devs /\ dev[d] \in Device
    BY <1>1, <1>4, UsedDevices DEF Sees
  <2>2. CASE d = x
    <3>1. bus.data = (cpu.data /\ dev[x].data)
      BY <1>3, <1>4, <2>2 DEF Sees
    <3>2. bus.clk = (cpu.clk /\ dev[x].clk)
      BY <1>3, <1>4, <2>2 DEF Sees
    <3>3. dev[x].clk \in BOOLEAN
      BY <2>1, <2>2, Fields
    <3>4. q \in G
      BY <1>1, <1>4, <2>1, <2>2, <3>1, <3>2, <3>3
    <3> QED
      BY <2>1, <2>2, <3>4 DEF N
  <2>3. CASE d # x
    <3>1. Rests(dev[d], q)
      BY <1>2, <1>4, <2>1, <2>3, SilentStays
    <3>2. Inert(q)
      BY <1>2, <2>3, <3>1 DEF Inert, Rests, Stays, Carries
    <3> QED
      BY <2>1, <2>3, <3>2 DEF N
  <2> QED
    BY <2>2, <2>3
<1>5. /\ Used' = Used /\ \A d \in Devs : ~dev'[d].enabled => Away(dev'[d])
      /\ \A d \in Devs : ~dev'[d].clk \/ ~dev'[d].data \/ dev'[d].talking => d \in Used
      /\ \A d \in Used : dev'[d] \in N[d]
  BY <1>1, <1>4, RunAll
<1>6. dev'[x] \in G /\ x \in Devs /\ dev[x] \in Device /\ dev'[x] \in Device
      /\ \A d \in Used : d # x => Inert(dev'[d])
  BY <1>5, UsedDevices DEF N
<1>7. \A d, e \in Devs : dev'[d].talking /\ dev'[e].talking => d = e
  BY <1>5, <1>6 DEF Inert
<1>8. \A d \in Devs : d # x => dev'[d].clk /\ dev'[d].data
  BY <1>5, <1>6 DEF Inert, Silent
<1> QED
  BY <1>5, <1>6, <1>7, <1>8

(* What is known when the computer reads. *)
LEMMA ReadingIs ==
    ASSUME TypeInv, SessInv, pc \in Reading
    PROVE  /\ cmds = <<>> /\ job = "read" /\ cpu.atn = TRUE /\ cpu.clk = TRUE
           /\ (pc \in {"turned", "ready"} => eoi = FALSE)
           /\ (pc \in {"turned", "ready", "accept"} => cpu.data = FALSE)
           /\ (pc \notin {"turned", "ready", "accept"} => cpu.data = TRUE)
           /\ wait \in Nat /\ bit \in Nat /\ eoi \in BOOLEAN /\ late \in BOOLEAN
           /\ \E x \in Used : /\ \/ Speaks(dev[x])
                                 \/ pc \in {"accept", "clock", "answer"} /\ Inert(dev[x])
                              /\ \A d \in Used : d # x => Inert(dev[d])
  BY DEF SessInv, Spoken, OneSpeaks, CpuOk, InAtn, Reading, Sends, TypeInv, Computers

(* What is to be shown then. *)
LEMMA ReadingOn ==
    ASSUME SessInv, pc \in Reading, pc' \in Reading, UNCHANGED <<job, cmds>>, job = "read", cmds = <<>>,
           NEW x \in Used, Used' = Used, \A d \in Devs : ~dev'[d].enabled => Away(dev'[d]),
           \A d \in Used : d # x => Inert(dev'[d]),
           \A d, e \in Devs : dev'[d].talking /\ dev'[e].talking => d = e,
           \/ Voice(dev'[x], pc', wait', bit', eoi', late')
           \/ pc' \in {"accept", "clock", "answer"} /\ Inert(dev'[x]),
           pc' \in {"turned", "ready"} => ~eoi', Patient',
           cpu'.atn = TRUE, cpu'.clk = TRUE,
           pc' \in {"turned", "ready", "accept"} => ~cpu'.data,
           pc' \notin {"turned", "ready", "accept"} => cpu'.data
    PROVE  SessInv'
<1>1. OneSpeaks'
  BY DEF OneSpeaks, Speaks
<1>2. Apart' /\ Called' /\ Spoken'
  BY <1>1, PlaceSpeak
<1>3. CpuOk'
  BY DEF CpuOk, InAtn, Reading, Sends
<1>4. Ended'
  BY DEF Ended
<1> QED
  BY <1>2, <1>3, <1>4 DEF SessInv

LEMMA InertOne ==
    ASSUME NEW r \in Device, NEW n \in Nat, NEW q, NEW d, NEW bus \in Computers,
           bus.atn = TRUE, Inert(r), Becomes(Later(r, n), q, d, bus)
    PROVE  Inert(q)
<1>1. r.atn = FALSE /\ Silent(r) /\ ~r.talking
  BY Fields DEF Inert
<1>2. Rests(r, q)
  BY <1>1, SilentStays
<1> QED
  BY <1>1, <1>2 DEF Rests, Stays, Carries, Inert

LEMMA ClkIs ==
    ASSUME cpu.clk = TRUE, NEW x \in Devs, \A d \in Devs : d # x => dev'[d].clk
    PROVE  ClkHigh <=> dev'[x].clk
  BY DEF ClkHigh

(* The talker pulls the clock: the turnaround is over. *)
LEMMA ReadyTurned == ASSUME TypeInv, SessInv, Ready, pc = "turned" PROVE SessInv'
<1>1. PICK n \in Delays : Run(n) /\ Poll(n, ~ClkHigh, "ready")
  BY DEF Ready
<1>2. n \in Nat /\ Moved(World(n)) /\ UNCHANGED <<cpu, job, cmds, bit, eoi, late>>
  BY <1>1, Consts DEF Run, Noted, Ready
<1>3. /\ cmds = <<>> /\ job = "read" /\ cpu.atn = TRUE /\ cpu.clk = TRUE /\ cpu.data = FALSE
      /\ eoi = FALSE
      /\ \E x \in Used : Speaks(dev[x]) /\ \A d \in Used : d # x => Inert(dev[d])
  BY ReadingIs DEF Reading
<1>4. PICK x \in Used : Speaks(dev[x]) /\ \A d \in Used : d # x => Inert(dev[d])
  BY <1>3
<1> DEFINE G == {q \in Device : Begins(q, bit, late)}
<1>5. ASSUME NEW q \in Device, NEW bus \in Computers, bus.atn = TRUE, bus.clk = dev[x].clk,
             Becomes(Later(dev[x], n), q, x, bus)
      PROVE  q \in G
  <2>1. dev[x] \in Device /\ Voice(dev[x], "turned", wait, bit, FALSE, late)
    BY <1>3, <1>4, UsedDevices DEF Speaks
  <2>2. bus.atn /\ bus.clk
    BY <1>5, <2>1 DEF Voice
  <2>3. Begins(q, bit, late)
    BY <1>2, <1>5, <2>1, <2>2, VoiceTurned
  <2> QED
    BY <2>3
<1> HIDE DEF G
<1>6. /\ Used' = Used /\ \A d \in Devs : ~dev'[d].enabled => Away(dev'[d])
      /\ \A d \in Used : d # x => Inert(dev'[d])
      /\ dev'[x] \in G /\ x \in Devs
      /\ \A d, e \in Devs : dev'[d].talking /\ dev'[e].talking => d = e
      /\ \A d \in Devs : d # x => dev'[d].clk
  BY <1>2, <1>4, <1>5, TalkOn DEF Reading
<1>7. Voice(dev'[x], "ready", 0, bit, FALSE, late) /\ ~dev'[x].clk
  BY <1>6 DEF G, Begins
<1>8. pc' = "ready" /\ wait' = 0
  BY <1>1, <1>3, <1>6, <1>7, ClkIs DEF Poll, Go
<1>9. Patient'
  BY <1>8, Consts DEF Patient
<1> QED
  BY <1>2, <1>3, <1>6, <1>7, <1>8, <1>9, ReadingOn DEF Reading

(* The talker is about to let the clock go. *)
LEMMA ReadyHeld == ASSUME TypeInv, SessInv, Ready, pc = "ready" PROVE SessInv'
<1>1. PICK n \in Delays : Run(n) /\ Poll(n, ClkHigh, "accept")
  BY DEF Ready
<1>2. n \in Nat /\ Moved(World(n)) /\ UNCHANGED <<cpu, job, cmds, bit, eoi, late>>
  BY <1>1, Consts DEF Run, Noted, Ready
<1>3. /\ cmds = <<>> /\ job = "read" /\ cpu.atn = TRUE /\ cpu.clk = TRUE /\ cpu.data = FALSE
      /\ eoi = FALSE /\ wait \in Nat
      /\ \E x \in Used : Speaks(dev[x]) /\ \A d \in Used : d # x => Inert(dev[d])
  BY ReadingIs DEF Reading
<1>4. PICK x \in Used : Speaks(dev[x]) /\ \A d \in Used : d # x => Inert(dev[d])
  BY <1>3
<1> DEFINE G == {q \in Device : Readies(q, n, wait, bit, late)}
<1>5. ASSUME NEW q \in Device, NEW bus \in Computers, bus.atn = TRUE, bus.data = (cpu.data /\ dev[x].data),
             Becomes(Later(dev[x], n), q, x, bus)
      PROVE  q \in G
  <2>1. dev[x] \in Device /\ Voice(dev[x], "ready", wait, bit, FALSE, late)
    BY <1>3, <1>4, UsedDevices DEF Speaks
  <2>2. bus.atn /\ ~bus.data
    BY <1>3, <1>5
  <2>3. Readies(q, n, wait, bit, late)
    BY <1>3, <1>5, <2>1, <2>2, VoiceReady
  <2> QED
    BY <2>3
<1> HIDE DEF G
<1>6. /\ Used' = Used /\ \A d \in Devs : ~dev'[d].enabled => Away(dev'[d])
      /\ \A d \in Used : d # x => Inert(dev'[d])
      /\ dev'[x] \in G /\ x \in Devs
      /\ \A d, e \in Devs : dev'[d].talking /\ dev'[e].talking => d = e
      /\ \A d \in Devs : d # x => dev'[d].clk
  BY <1>2, <1>4, <1>5, TalkOn DEF Reading
<1>7. Readies(dev'[x], n, wait, bit, late) /\ (ClkHigh <=> dev'[x].clk)
  BY <1>3, <1>6, ClkIs DEF G
<1>8. CASE dev'[x].clk
  <2>1. pc' = "accept" /\ wait' = 0 /\ Voice(dev'[x], "accept", 0, bit, FALSE, late)
    BY <1>1, <1>7, <1>8 DEF Poll, Go, Readies
  <2>2. Patient'
    BY <2>1, Consts DEF Patient
  <2> QED
    BY <1>2, <1>3, <1>6, <2>1, <2>2, ReadingOn DEF Reading
<1>9. CASE ~dev'[x].clk
  <2>1. pc' = "ready" /\ wait' = IF wait + n < Patience THEN wait + n ELSE Patience
    BY <1>1, <1>7, <1>9 DEF Poll
  <2>2. Patience \in Nat
    BY Consts
  <2>3. wait' \in Nat /\ wait' <= wait + n /\ (wait + n < Patience => wait' < Patience)
    BY <1>2, <1>3, <2>1, <2>2
  <2>4. Voice(dev'[x], "ready", wait', bit, FALSE, late) /\ (wait + n < Patience \/ late)
    BY <1>7, <1>9, <2>3 DEF Readies
  <2>5. Patient'
    BY <1>2, <2>3, <2>4 DEF Patient
  <2> QED
    BY <1>2, <1>3, <1>6, <2>1, <2>4, <2>5, ReadingOn DEF Reading
<1> QED
  BY <1>8, <1>9

LEMMA ReadyKeeps == ASSUME TypeInv, SessInv, Ready PROVE SessInv'
  BY ReadyTurned, ReadyHeld DEF Ready

(* The computer is ready for the byte. *)
LEMMA AcceptKeeps == ASSUME TypeInv, SessInv, Accept PROVE SessInv'
<1>1. PICK n \in Delays : Run(n)
  BY DEF Accept
<1>2. /\ n \in Nat /\ Moved(World(n)) /\ UNCHANGED <<job, cmds, eoi, late>>
      /\ pc = "accept" /\ pc' = "clock" /\ wait' = 0 /\ bit' = 0
  BY <1>1, Consts DEF Run, Noted, Accept, Go
<1>3. /\ cmds = <<>> /\ job = "read" /\ cpu.atn = TRUE /\ cpu.clk = TRUE /\ cpu.data = FALSE
      /\ eoi \in BOOLEAN /\ wait \in Nat
  BY <1>2, ReadingIs DEF Reading
<1>4. PICK x \in Used : /\ Speaks(dev[x]) \/ Inert(dev[x])
                        /\ \A d \in Used : d # x => Inert(dev[d])
  BY <1>2, ReadingIs DEF Reading
<1>10. cpu'.atn = TRUE /\ cpu'.clk = TRUE /\ cpu'.data = TRUE
  BY <1>3 DEF Accept, TypeInv, Computers
<1> DEFINE G == {q \in Device : Voice(q, "clock", 0, 0, eoi, late) \/ Inert(q)}
<1>5. ASSUME NEW q \in Device, NEW bus \in Computers, bus.atn = TRUE, bus.data = (cpu.data /\ dev[x].data),
             Becomes(Later(dev[x], n), q, x, bus)
      PROVE  q \in G
  <2>1. dev[x] \in Device
    BY UsedDevices
  <2>2. CASE Speaks(dev[x])
    <3>1. Voice(dev[x], "accept", wait, bit, eoi, late)
      BY <1>2, <2>2 DEF Speaks
    <3>2. bus.atn /\ ~bus.data
      BY <1>3, <1>5
    <3>3. Voice(q, "clock", 0, 0, eoi, late)
      BY <1>2, <1>3, <1>5, <2>1, <3>1, <3>2, VoiceAccept
    <3> QED
      BY <3>3
  <2>3. CASE Inert(dev[x])
    <3>1. Inert(q)
      BY <1>2, <1>5, <2>1, <2>3, InertOne
    <3> QED
      BY <3>1
  <2> QED
    BY <1>4, <2>2, <2>3
<1> HIDE DEF G
<1>6. /\ Used' = Used /\ \A d \in Devs : ~dev'[d].enabled => Away(dev'[d])
      /\ \A d \in Used : d # x => Inert(dev'[d])
      /\ dev'[x] \in G
      /\ \A d, e \in Devs : dev'[d].talking /\ dev'[e].talking => d = e
  BY <1>2, <1>4, <1>5, TalkOn DEF Reading
<1>7. Voice(dev'[x], "clock", 0, 0, eoi, late) \/ Inert(dev'[x])
  BY <1>6 DEF G
<1>8. Patient'
  BY <1>2, Consts DEF Patient
<1> QED
  BY <1>2, <1>3, <1>6, <1>7, <1>8, <1>10, ReadingOn DEF Reading

(* The clock goes low for the first bit, or the computer has waited for long. *)
LEMMA ClockLowKeeps == ASSUME TypeInv, SessInv, ClockLow PROVE SessInv'
<1>1. PICK n \in Delays : /\ Run(n)
                          /\ pc' = (CASE ~ClkHigh -> "high"
                                      [] ClkHigh /\ wait + n >= TEOI -> IF eoi THEN "finish" ELSE "answer"
                                      [] OTHER -> "clock")
                          /\ wait' = IF ClkHigh /\ wait + n < TEOI THEN wait + n ELSE 0
  BY DEF ClockLow, Go
<1>2. /\ n \in Nat /\ Moved(World(n)) /\ UNCHANGED <<cpu, job, cmds, bit, eoi, late>>
      /\ pc = "clock"
  BY <1>1, Consts DEF Run, Noted, ClockLow
<1>3. /\ cmds = <<>> /\ job = "read" /\ cpu.atn = TRUE /\ cpu.clk = TRUE /\ cpu.data = TRUE
      /\ eoi \in BOOLEAN /\ wait \in Nat
  BY <1>2, ReadingIs DEF Reading
<1>4. PICK x \in Used : /\ Speaks(dev[x]) \/ Inert(dev[x])
                        /\ \A d \in Used : d # x => Inert(dev[d])
  BY <1>2, ReadingIs DEF Reading
<1> DEFINE G == {q \in Device : Clocks(q, n, wait, bit, eoi, late)}
<1>5. ASSUME NEW q \in Device, NEW bus \in Computers, bus.atn = TRUE, bus.data = (cpu.data /\ dev[x].data),
             Becomes(Later(dev[x], n), q, x, bus)
      PROVE  q \in G
  <2>1. dev[x] \in Device
    BY UsedDevices
  <2>2. CASE Speaks(dev[x])
    <3>1. Voice(dev[x], "clock", wait, bit, eoi, late)
      BY <1>2, <2>2 DEF Speaks
    <3>2. bus.atn /\ bus.data = dev[x].data
      BY <1>3, <1>5, <2>1, Fields
    <3>3. Clocks(q, n, wait, bit, eoi, late)
      BY <1>3, <1>5, <2>1, <3>1, <3>2, VoiceClock
    <3> QED
      BY <3>3
  <2>3. CASE Inert(dev[x])
    <3>1. Inert(q)
      BY <1>2, <1>5, <2>1, <2>3, InertOne
    <3> QED
      BY <3>1 DEF Clocks
  <2> QED
    BY <1>4, <2>2, <2>3
<1> HIDE DEF G
<1>6. /\ Used' = Used /\ \A d \in Devs : ~dev'[d].enabled => Away(dev'[d])
      /\ \A d \in Used : d # x => Inert(dev'[d])
      /\ dev'[x] \in G /\ x \in Devs
      /\ \A d, e \in Devs : dev'[d].talking /\ dev'[e].talking => d = e
      /\ \A d \in Devs : d # x => dev'[d].clk
  BY <1>2, <1>4, <1>5, TalkOn DEF Reading
<1>7. Clocks(dev'[x], n, wait, bit, eoi, late) /\ (ClkHigh <=> dev'[x].clk)
  BY <1>3, <1>6, ClkIs DEF G
<1>8. TEOI \in Nat /\ TEOI < Patience /\ Patience \in Nat /\ 0 < Patience
  BY Consts
<1>9. Patient'
  <2>1. wait' = 0 \/ (wait' = wait + n /\ wait + n < TEOI)
    BY <1>1
  <2> QED
    BY <1>2, <1>3, <1>8, <2>1 DEF Patient
<1>10. CASE ~ClkHigh
  <2>1. pc' = "high" /\ wait' = 0
    BY <1>1, <1>10
  <2>2. Voice(dev'[x], "high", 0, bit, eoi, late)
    BY <1>7, <1>10 DEF Clocks, Inert, Silent
  <2> QED
    BY <1>2, <1>3, <1>6, <1>9, <2>1, <2>2, ReadingOn DEF Reading
<1>11. CASE ClkHigh /\ wait + n >= TEOI
  <2>1. wait' = 0 /\ pc' = IF eoi THEN "finish" ELSE "answer"
    BY <1>1, <1>2, <1>3, <1>8, <1>11
  <2>2. Inert(dev'[x]) \/ (~eoi /\ Voice(dev'[x], "answer", 0, bit, eoi, late))
    BY <1>7, <1>11 DEF Clocks
  <2>3. CASE ~eoi
    <3>1. pc' = "answer"
      BY <2>1, <2>3
    <3> QED
      BY <1>2, <1>3, <1>6, <1>9, <2>1, <2>2, <3>1, ReadingOn DEF Reading
  <2>4. CASE eoi
    <3>1. pc' = "finish"
      BY <2>1, <2>4
    <3>2. \A d \in Used : Inert(dev'[d])
      BY <1>6, <2>2, <2>4
    <3>3. \A d \in Used : Loose(dev'[d], d)
      BY <3>2 DEF Loose, Inert, Silent
    <3>4. Apart' /\ Called' /\ Spoken'
      BY <1>2, <1>3, <1>6, <3>1, <3>3, PlaceLoose
    <3>5. CpuOk' /\ Ended'
      BY <3>1 DEF CpuOk, InAtn, Reading, Sends, Ended
    <3> QED
      BY <1>6, <1>9, <3>4, <3>5 DEF SessInv
  <2> QED
    BY <2>3, <2>4
<1>12. CASE ClkHigh /\ ~(wait + n >= TEOI)
  <2>1. pc' = "clock" /\ wait' = wait + n
    BY <1>1, <1>2, <1>3, <1>8, <1>12
  <2>2. Inert(dev'[x]) \/ Voice(dev'[x], "clock", wait + n, bit, eoi, late)
    BY <1>7, <1>12 DEF Clocks
  <2> QED
    BY <1>2, <1>3, <1>6, <1>9, <2>1, <2>2, ReadingOn DEF Reading
<1> QED
  BY <1>10, <1>11, <1>12

(* The computer answers the end of the file by pulling the data line once. *)
LEMMA AnswerKeeps == ASSUME TypeInv, SessInv, Answer PROVE SessInv'
<1>1. PICK n \in Delays : Run(n)
  BY DEF Answer
<1>2. /\ n \in Nat /\ Moved(World(n)) /\ UNCHANGED <<job, cmds, bit, wait, late>>
      /\ pc = "answer" /\ pc' = "accept" /\ eoi' = TRUE
  BY <1>1, Consts DEF Run, Noted, Answer, Go
<1>3. /\ cmds = <<>> /\ job = "read" /\ cpu.atn = TRUE /\ cpu.clk = TRUE /\ cpu.data = TRUE
  BY <1>2, ReadingIs DEF Reading
<1>4. PICK x \in Used : /\ Speaks(dev[x]) \/ Inert(dev[x])
                        /\ \A d \in Used : d # x => Inert(dev[d])
  BY <1>2, ReadingIs DEF Reading
<1>10. cpu'.atn = TRUE /\ cpu'.clk = TRUE /\ cpu'.data = FALSE
  BY <1>3 DEF Answer, TypeInv, Computers
<1> DEFINE G == {q \in Device : Voice(q, "accept", wait, bit, TRUE, late) \/ Inert(q)}
<1>5. ASSUME NEW q \in Device, NEW bus \in Computers, bus.atn = TRUE, bus.data = (cpu.data /\ dev[x].data),
             Becomes(Later(dev[x], n), q, x, bus)
      PROVE  q \in G
  <2>1. dev[x] \in Device
    BY UsedDevices
  <2>2. CASE Speaks(dev[x])
    <3>1. Voice(dev[x], "answer", wait, bit, eoi, late)
      BY <1>2, <2>2 DEF Speaks
    <3>2. bus.atn /\ bus.data
      BY <1>3, <1>5, <3>1 DEF Voice
    <3>3. Voice(q, "accept", wait, bit, TRUE, late)
      BY <1>2, <1>5, <2>1, <3>1, <3>2, VoiceAnswer
    <3> QED
      BY <3>3
  <2>3. CASE Inert(dev[x])
    <3>1. Inert(q)
      BY <1>2, <1>5, <2>1, <2>3, InertOne
    <3> QED
      BY <3>1
  <2> QED
    BY <1>4, <2>2, <2>3
<1> HIDE DEF G
<1>6. /\ Used' = Used /\ \A d \in Devs : ~dev'[d].enabled => Away(dev'[d])
      /\ \A d \in Used : d # x => Inert(dev'[d])
      /\ dev'[x] \in G
      /\ \A d, e \in Devs : dev'[d].talking /\ dev'[e].talking => d = e
  BY <1>2, <1>4, <1>5, TalkOn DEF Reading
<1>7. Voice(dev'[x], "accept", wait, bit, TRUE, late) \/ Inert(dev'[x])
  BY <1>6 DEF G
<1>8. Patient'
  BY <1>2 DEF Patient, SessInv
<1> QED
  BY <1>2, <1>3, <1>6, <1>7, <1>8, <1>10, ReadingOn DEF Reading

(* A bit is read when the clock goes high. *)
LEMMA GetBitKeeps == ASSUME TypeInv, SessInv, GetBit PROVE SessInv'
<1>1. PICK n \in Delays : Run(n) /\ Poll(n, ClkHigh, "low")
  BY DEF GetBit
<1>2. n \in Nat /\ Moved(World(n)) /\ UNCHANGED <<cpu, job, cmds, eoi, late>> /\ pc = "high"
  BY <1>1, Consts DEF Run, Noted, GetBit
<1>3. /\ cmds = <<>> /\ job = "read" /\ cpu.atn = TRUE /\ cpu.clk = TRUE /\ cpu.data = TRUE
      /\ eoi \in BOOLEAN /\ wait \in Nat /\ bit \in Nat
      /\ \E x \in Used : Speaks(dev[x]) /\ \A d \in Used : d # x => Inert(dev[d])
  BY <1>2, ReadingIs DEF Reading
<1>4. PICK x \in Used : Speaks(dev[x]) /\ \A d \in Used : d # x => Inert(dev[d])
  BY <1>3
<1> DEFINE G == {q \in Device : Shows(q, n, wait, bit, eoi, late)}
<1>5. ASSUME NEW q \in Device, NEW bus \in Computers, bus.atn = TRUE, bus.data = (cpu.data /\ dev[x].data),
             Becomes(Later(dev[x], n), q, x, bus)
      PROVE  q \in G
  <2>1. dev[x] \in Device /\ Voice(dev[x], "high", wait, bit, eoi, late)
    BY <1>2, <1>4, UsedDevices DEF Speaks
  <2>2. bus.atn /\ bus.data = dev[x].data
    BY <1>3, <1>5, <2>1, Fields
  <2>3. Shows(q, n, wait, bit, eoi, late)
    BY <1>3, <1>5, <2>1, <2>2, VoiceHigh
  <2> QED
    BY <2>3
<1> HIDE DEF G
<1>6. /\ Used' = Used /\ \A d \in Devs : ~dev'[d].enabled => Away(dev'[d])
      /\ \A d \in Used : d # x => Inert(dev'[d])
      /\ dev'[x] \in G /\ x \in Devs
      /\ \A d, e \in Devs : dev'[d].talking /\ dev'[e].talking => d = e
      /\ \A d \in Devs : d # x => dev'[d].clk
  BY <1>2, <1>4, <1>5, TalkOn DEF Reading
<1>7. Shows(dev'[x], n, wait, bit, eoi, late) /\ (ClkHigh <=> dev'[x].clk)
  BY <1>3, <1>6, ClkIs DEF G
<1>8. CASE dev'[x].clk
  <2>1. pc' = "low" /\ wait' = 0 /\ Voice(dev'[x], "low", 0, bit + 1, eoi, late)
    BY <1>1, <1>7, <1>8 DEF Poll, Go, Shows
  <2>2. bit' = bit + 1
    BY <1>7, <1>8 DEF GetBit
  <2>3. Patient'
    BY <2>1, Consts DEF Patient
  <2> QED
    BY <1>2, <1>3, <1>6, <2>1, <2>2, <2>3, ReadingOn DEF Reading
<1>9. CASE ~dev'[x].clk
  <2>1. pc' = "high" /\ bit' = bit /\ wait' = IF wait + n < Patience THEN wait + n ELSE Patience
    BY <1>1, <1>2, <1>7, <1>9 DEF Poll, GetBit
  <2>2. Patience \in Nat
    BY Consts
  <2>3. wait' \in Nat /\ wait' <= wait + n /\ (wait + n < Patience => wait' < Patience)
    BY <1>2, <1>3, <2>1, <2>2
  <2>4. Voice(dev'[x], "high", wait', bit, eoi, late) /\ (wait + n < Patience \/ late)
    BY <1>7, <1>9, <2>3 DEF Shows
  <2>5. Patient'
    BY <1>2, <2>3, <2>4 DEF Patient
  <2> QED
    BY <1>2, <1>3, <1>6, <2>1, <2>4, <2>5, ReadingOn DEF Reading
<1> QED
  BY <1>8, <1>9

(* The clock goes low again, for the next bit or after the last. *)
LEMMA LowKeeps == ASSUME TypeInv, SessInv, Low PROVE SessInv'
<1>1. PICK n \in Delays : Run(n) /\ Poll(n, ~ClkHigh, IF bit = NBits THEN "answered" ELSE "high")
  BY DEF Low
<1>2. n \in Nat /\ Moved(World(n)) /\ UNCHANGED <<cpu, job, cmds, bit, eoi, late>> /\ pc = "low"
  BY <1>1, Consts DEF Run, Noted, Low
<1>3. /\ cmds = <<>> /\ job = "read" /\ cpu.atn = TRUE /\ cpu.clk = TRUE /\ cpu.data = TRUE
      /\ eoi \in BOOLEAN /\ wait \in Nat /\ bit \in Nat
      /\ \E x \in Used : Speaks(dev[x]) /\ \A d \in Used : d # x => Inert(dev[d])
  BY <1>2, ReadingIs DEF Reading
<1>4. PICK x \in Used : Speaks(dev[x]) /\ \A d \in Used : d # x => Inert(dev[d])
  BY <1>3
<1> DEFINE G == {q \in Device : Hides(q, n, wait, bit, eoi, late)}
<1>5. ASSUME NEW q \in Device, NEW bus \in Computers, bus.atn = TRUE,
             Becomes(Later(dev[x], n), q, x, bus)
      PROVE  q \in G
  <2>1. dev[x] \in Device /\ Voice(dev[x], "low", wait, bit, eoi, late)
    BY <1>2, <1>4, UsedDevices DEF Speaks
  <2>3. Hides(q, n, wait, bit, eoi, late)
    BY <1>3, <1>5, <2>1, VoiceLow
  <2> QED
    BY <2>3
<1> HIDE DEF G
<1>6. /\ Used' = Used /\ \A d \in Devs : ~dev'[d].enabled => Away(dev'[d])
      /\ \A d \in Used : d # x => Inert(dev'[d])
      /\ dev'[x] \in G /\ x \in Devs
      /\ \A d, e \in Devs : dev'[d].talking /\ dev'[e].talking => d = e
      /\ \A d \in Devs : d # x => dev'[d].clk
  BY <1>2, <1>4, <1>5, TalkOn DEF Reading
<1>7. Hides(dev'[x], n, wait, bit, eoi, late) /\ (ClkHigh <=> dev'[x].clk)
  BY <1>3, <1>6, ClkIs DEF G
<1>8. CASE ~dev'[x].clk
  <2>1. /\ pc' = (IF bit = NBits THEN "answered" ELSE "high") /\ wait' = 0
        /\ Voice(dev'[x], pc', 0, bit, eoi, late)
    BY <1>1, <1>7, <1>8 DEF Poll, Go, Hides
  <2>3. Patient'
    BY <2>1, Consts DEF Patient
  <2> QED
    BY <1>2, <1>3, <1>6, <2>1, <2>3, ReadingOn DEF Reading
<1>9. CASE dev'[x].clk
  <2>1. pc' = "low" /\ wait' = IF wait + n < Patience THEN wait + n ELSE Patience
    BY <1>1, <1>2, <1>7, <1>9 DEF Poll
  <2>2. Patience \in Nat
    BY Consts
  <2>3. wait' \in Nat /\ wait' <= wait + n /\ (wait + n < Patience => wait' < Patience)
    BY <1>2, <1>3, <2>1, <2>2
  <2>4. Voice(dev'[x], "low", wait', bit, eoi, late) /\ wait + n < Patience
    BY <1>7, <1>9, <2>3 DEF Hides
  <2>5. Patient'
    BY <1>2, <2>3, <2>4 DEF Patient
  <2> QED
    BY <1>2, <1>3, <1>6, <2>1, <2>4, <2>5, ReadingOn DEF Reading
<1> QED
  BY <1>8, <1>9

(* The byte is acknowledged, in time or not. *)
LEMMA AnsweredKeeps == ASSUME TypeInv, SessInv, Answered PROVE SessInv'
<1>1. PICK n \in Delays \cup {Late} : Run(n) /\ late' = (late \/ n = Late)
  BY DEF Answered
<1>2. /\ n \in Nat /\ Moved(World(n)) /\ UNCHANGED <<job, cmds, eoi, wait>> /\ pc = "answered"
      /\ pc' \in {"ready", "off"} /\ (eoi => pc' = "off")
  BY <1>1, Consts DEF Run, Noted, Answered, Go
<1>3. /\ cmds = <<>> /\ job = "read" /\ cpu.atn = TRUE /\ cpu.clk = TRUE /\ cpu.data = TRUE
      /\ eoi \in BOOLEAN /\ late \in BOOLEAN
      /\ \E x \in Used : Speaks(dev[x]) /\ \A d \in Used : d # x => Inert(dev[d])
  BY <1>2, ReadingIs DEF Reading
<1>4. PICK x \in Used : Speaks(dev[x]) /\ \A d \in Used : d # x => Inert(dev[d])
  BY <1>3
<1>10. cpu'.atn = TRUE /\ cpu'.clk = TRUE /\ cpu'.data = FALSE
  BY <1>3 DEF Answered, TypeInv, Computers
<1> DEFINE G == {q \in Device : Goes(q, wait, bit', eoi, late')}
<1>5. ASSUME NEW q \in Device, NEW bus \in Computers, bus.atn = TRUE, bus.data = (cpu.data /\ dev[x].data),
             Becomes(Later(dev[x], n), q, x, bus)
      PROVE  q \in G
  <2>1. dev[x] \in Device /\ Voice(dev[x], "answered", wait, bit, eoi, late)
    BY <1>2, <1>4, UsedDevices DEF Speaks
  <2>2. bus.atn /\ bus.data
    BY <1>3, <1>5, <2>1 DEF Voice
  <2>3. Goes(q, wait, bit', eoi, late')
    BY <1>1, <1>3, <1>5, <2>1, <2>2, VoiceAnswered
  <2> QED
    BY <2>3
<1> HIDE DEF G
<1>6. /\ Used' = Used /\ \A d \in Devs : ~dev'[d].enabled => Away(dev'[d])
      /\ \A d \in Used : d # x => Inert(dev'[d])
      /\ dev'[x] \in G
      /\ \A d, e \in Devs : dev'[d].talking /\ dev'[e].talking => d = e
  BY <1>2, <1>4, <1>5, TalkOn DEF Reading
<1>7. Goes(dev'[x], wait, bit', eoi, late')
  BY <1>6 DEF G
<1>8. Patient'
  BY <1>1, <1>2, <1>3 DEF Patient, SessInv
<1>9. CASE pc' = "ready"
  <2>1. ~eoi /\ Voice(dev'[x], "ready", wait, bit', eoi, late')
    BY <1>2, <1>7, <1>9 DEF Goes
  <2> QED
    BY <1>2, <1>3, <1>6, <1>8, <1>9, <1>10, <2>1, ReadingOn DEF Reading
<1>11. CASE pc' = "off"
  <2>1. Voice(dev'[x], "off", wait, bit', eoi, late')
    BY <1>7 DEF Goes
  <2>2. OneSpeaks'
    BY <1>2, <1>3, <1>6, <1>11, <2>1 DEF OneSpeaks, Speaks
  <2>3. Apart' /\ Called' /\ Spoken'
    BY <1>11, <2>2, PlaceOff
  <2>4. CpuOk'
    BY <1>10, <1>11 DEF CpuOk, InAtn, Reading, Sends
  <2>5. Ended'
    BY <1>11 DEF Ended
  <2> QED
    BY <1>6, <1>8, <2>3, <2>4, <2>5 DEF SessInv
<1> QED
  BY <1>2, <1>9, <1>11
-----------------------------------------------------------------------------
(* The end of a session.  Without ATN the devices that were not told to talk come
   to rest. *)
LEMMA ComeToRest ==
    ASSUME TypeInv, \A d \in Devs : ~dev[d].enabled => Away(dev[d]), cpu.atn = TRUE,
           \A d \in Used : Loose(dev[d], d), NEW n \in Nat, Moved(World(n))
    PROVE  /\ Used' = Used /\ \A d \in Devs : ~dev'[d].enabled => Away(dev'[d])
           /\ \A d \in Used : Calm(dev'[d])
           /\ \A d \in Devs : ~dev'[d].talking
<1> DEFINE N == [d \in Devs |-> {q \in Device : Calm(q)}]
<1> HIDE DEF N
<1>1. ASSUME NEW d \in Used, NEW q \in Device, NEW bus \in Computers, Sees(d, bus, N),
             Becomes(Later(dev[d], n), q, d, bus)
      PROVE  q \in N[d]
  <2>1. bus.atn /\ d \in Devs /\ dev[d] \in Device
    BY <1>1, UsedDevices DEF Sees
  <2>2. Calm(q)
    BY <1>1, <2>1, CalmOne
  <2> QED
    BY <2>1, <2>2 DEF N
<1>2. /\ Used' = Used /\ \A d \in Devs : ~dev'[d].enabled => Away(dev'[d])
      /\ \A d \in Devs : ~dev'[d].clk \/ ~dev'[d].data \/ dev'[d].talking => d \in Used
      /\ \A d \in Used : dev'[d] \in N[d]
  BY <1>1, RunAll
<1>3. \A d \in Used : Calm(dev'[d])
  BY <1>2, UsedDevices DEF N
<1>4. \A d \in Devs : ~dev'[d].talking
  BY <1>2, <1>3 DEF Calm
<1> QED
  BY <1>2, <1>3, <1>4

LEMMA CalmLoose == ASSUME NEW r, NEW d, Calm(r) PROVE Loose(r, d)
  BY DEF Calm, Loose

(* Whatever the computer does, nobody holds the clock who was not told to talk. *)
LEMMA LooseHere ==
    ASSUME TypeInv, SessInv, job # "read", \A d \in Devs : ~dev[d].talking
    PROVE  \A d \in Used : Loose(dev[d], d)
<1>1. ASSUME AllFirst PROVE \A d \in Used : Loose(dev[d], d)
  <2>1. \A d \in Used : dev[d].atn /\ dev[d].clk /\ dev[d].primary = {} /\ ~dev[d].talking /\ TALK(d) # {}
    BY <1>1, UsedDevices, Codes DEF AllFirst, First, Follows, Keeps
  <2> QED
    BY <2>1 DEF Loose
<1>2. ASSUME AllRefused PROVE \A d \in Used : Loose(dev[d], d)
  BY <1>2 DEF AllRefused, Refused, Silent, Loose
<1>3. ASSUME AllSecond PROVE \A d \in Used : Loose(dev[d], d)
  <2>1. PICK x \in Used : \A d \in Used : Second(dev[d], d, x)
    BY <1>3 DEF AllSecond
  <2>2. \A d \in Used : dev[d].atn /\ dev[d].clk /\ dev[d].primary = LISTEN(x) /\ ~dev[d].talking
    BY <2>1 DEF Second, Follows, Keeps, Silent, Call
  <2>3. \A d \in Used : LISTEN(x) # TALK(d)
    BY UsedDevices, Codes
  <2> QED
    BY <2>2, <2>3 DEF Loose
<1>4. ASSUME AllHear PROVE \A d \in Used : Loose(dev[d], d)
  BY <1>4 DEF AllHear, Hears, Follows, Keeps, Inert, Silent, Loose
<1>5. ~OneSpeaks
  BY DEF OneSpeaks
<1>6. CASE pc \in {"idle", "letgo", "finish"}
  BY <1>6 DEF SessInv, Apart
<1>7. CASE pc = "attend"
  <2>1. \A d \in Used : Calm(dev[d])
    BY <1>7, UsedDevices DEF SessInv, Called, Fresh
  <2> QED
    BY <2>1, CalmLoose
<1>8. CASE pc \in {"hold", "look", "present"} \cup Sends
  BY <1>1, <1>2, <1>3, <1>4, <1>8 DEF SessInv, Called, Spoken
<1>9. CASE pc \in {"release", "turn1", "turn2", "turn3"}
  BY <1>3, <1>9 DEF SessInv, Called
<1>10. CASE pc \in Reading \cup {"off"}
  BY <1>3, <1>4, <1>5, <1>10 DEF SessInv, Spoken
<1>11. pc \in Pcs
  BY DEF TypeInv
<1> QED
  BY <1>6, <1>7, <1>8, <1>9, <1>10, <1>11 DEF Pcs, Reading, Sends

(* UNLISTEN or UNTALK is sent next. *)
LEMMA OffKeeps == ASSUME TypeInv, SessInv, Off PROVE SessInv'
<1>1. PICK n \in Delays : Run(n)
  BY DEF Off
<1>2. n \in Nat /\ Moved(World(n)) /\ UNCHANGED <<wait, eoi, late>>
  BY <1>1, Consts DEF Run, Noted, Off
<1>3. /\ pc = "off" /\ pc' = "attend" /\ job' = "unlisten"
      /\ cmds' = <<IF job = "read" THEN UNTALK ELSE UNLISTEN>>
      /\ cpu' = [atn |-> FALSE, clk |-> FALSE, data |-> TRUE]
  BY DEF Off, Go, Set
<1>4. /\ cpu.atn = TRUE /\ \A d \in Devs : ~dev[d].enabled => Away(dev[d])
      /\ job = "read" => OneSpeaks /\ ~cpu.data
      /\ job # "read" => AllHear \/ AllSecond
  BY <1>3 DEF SessInv, CpuOk, InAtn, Sends, Spoken, OneSpeaks, AllHear
<1>5. ASSUME job = "read"
      PROVE  /\ Used' = Used /\ \A d \in Devs : ~dev'[d].enabled => Away(dev'[d])
             /\ \A d, e \in Devs : dev'[d].talking /\ dev'[e].talking => d = e
             /\ (\A d \in Used : Fresh(dev[d]))'
  <2>1. PICK x \in Used : Speaks(dev[x]) /\ \A d \in Used : d # x => Inert(dev[d])
    BY <1>3, <1>4, <1>5 DEF OneSpeaks
  <2> DEFINE G == {q \in Device : Leaves(q)}
  <2>2. ASSUME NEW q \in Device, NEW bus \in Computers, bus.atn = TRUE, bus.data = (cpu.data /\ dev[x].data),
               Becomes(Later(dev[x], n), q, x, bus)
        PROVE  q \in G
    <3>1. dev[x] \in Device /\ Voice(dev[x], "off", wait, bit, eoi, late)
      BY <1>3, <2>1, UsedDevices DEF Speaks
    <3>2. bus.atn /\ ~bus.data
      BY <1>4, <1>5, <2>2
    <3>3. Leaves(q)
      BY <1>2, <2>2, <3>1, <3>2, VoiceOff
    <3> QED
      BY <3>3
  <2> HIDE DEF G
  <2>3. /\ Used' = Used /\ \A d \in Devs : ~dev'[d].enabled => Away(dev'[d])
        /\ \A d \in Used : d # x => Inert(dev'[d])
        /\ dev'[x] \in G
        /\ \A d, e \in Devs : dev'[d].talking /\ dev'[e].talking => d = e
    BY <1>2, <1>3, <2>1, <2>2, TalkOn DEF Reading
  <2>4. cmds' = <<UNTALK>>
    BY <1>3, <1>5
  <2>5. Leaves(dev'[x])
    BY <2>3 DEF G
  <2>6. \A d \in Used : d # x => ~dev'[d].atn /\ ~dev'[d].talking /\ Calm(dev'[d])
    BY <2>3 DEF Inert, Silent, Calm
  <2>7. (\A d \in Used : Fresh(dev[d]))'
    BY <2>3, <2>4, <2>5, <2>6 DEF Fresh, Leaves
  <2> QED
    BY <2>3, <2>7
<1>6. ASSUME job # "read"
      PROVE  /\ Used' = Used /\ \A d \in Devs : ~dev'[d].enabled => Away(dev'[d])
             /\ \A d, e \in Devs : dev'[d].talking /\ dev'[e].talking => d = e
             /\ (\A d \in Used : Fresh(dev[d]))'
  <2>1. \A d \in Devs : ~dev[d].talking
    <3>1. \A d \in Used : ~dev[d].talking
      BY <1>4, <1>6 DEF AllHear, Hears, Inert, AllSecond, Second
    <3> QED
      BY <1>4, <3>1 DEF Used, Away
  <2>2. \A d \in Used : Loose(dev[d], d)
    BY <1>6, <2>1, LooseHere
  <2>3. /\ Used' = Used /\ \A d \in Devs : ~dev'[d].enabled => Away(dev'[d])
        /\ \A d \in Used : Calm(dev'[d])
        /\ \A d \in Devs : ~dev'[d].talking
    BY <1>2, <1>4, <2>2, ComeToRest
  <2>4. (\A d \in Used : Fresh(dev[d]))'
    BY <2>3 DEF Fresh, Calm
  <2>5. \A d, e \in Devs : dev'[d].talking /\ dev'[e].talking => d = e
    BY <2>3
  <2>6. Used' = Used /\ \A d \in Devs : ~dev'[d].enabled => Away(dev'[d])
    BY <2>3
  <2> QED
    BY <2>4, <2>5, <2>6
<1>7. StageOne'
  BY <1>3 DEF StageOne
<1>8. Apart' /\ Called' /\ Spoken'
  BY <1>3, <1>5, <1>6, <1>7, PlaceAttend
<1>9. CpuOk'
  BY <1>3 DEF CpuOk, InAtn, Reading, Sends
<1>10. Patient' /\ Ended'
  BY <1>2, <1>3 DEF SessInv, Patient, Ended
<1> QED
  BY <1>5, <1>6, <1>8, <1>9, <1>10 DEF SessInv

(* ATN is let go. *)
LEMMA FinishKeeps == ASSUME TypeInv, SessInv, Finish PROVE SessInv'
<1>1. PICK n \in Delays : Run(n)
  BY DEF Finish
<1>2. /\ n \in Nat /\ Moved(World(n)) /\ UNCHANGED <<wait, eoi, late>>
      /\ pc = "finish" /\ pc' = "letgo"
  BY <1>1, Consts DEF Run, Noted, Finish, Go
<1>3. cpu' = [cpu EXCEPT !.atn = TRUE] /\ cpu.atn \in BOOLEAN /\ cpu'.atn = TRUE
  BY DEF Finish, TypeInv, Computers
<1>4. /\ \A d \in Devs : ~dev[d].enabled => Away(dev[d])
      /\ \A d \in Used : Loose(dev[d], d)
      /\ ~cpu.atn => ~cpu.clk /\ \A d \in Used : dev[d].atn /\ dev[d].state \in {"PRE2", "DONE0"}
  BY <1>2 DEF SessInv, Apart
<1>5. ASSUME cpu.atn = TRUE
      PROVE  /\ Used' = Used /\ \A d \in Devs : ~dev'[d].enabled => Away(dev'[d])
             /\ \A d, e \in Devs : dev'[d].talking /\ dev'[e].talking => d = e
             /\ \A d \in Used : Loose(dev'[d], d)
  <2>1. /\ Used' = Used /\ \A d \in Devs : ~dev'[d].enabled => Away(dev'[d])
        /\ \A d \in Used : Calm(dev'[d])
        /\ \A d \in Devs : ~dev'[d].talking
    BY <1>2, <1>4, <1>5, ComeToRest
  <2> QED
    BY <2>1, CalmLoose
<1>6. ASSUME cpu.atn = FALSE
      PROVE  /\ Used' = Used /\ \A d \in Devs : ~dev'[d].enabled => Away(dev'[d])
             /\ \A d, e \in Devs : dev'[d].talking /\ dev'[e].talking => d = e
             /\ \A d \in Used : Loose(dev'[d], d)
  <2> DEFINE N == [d \in Devs |-> {q \in Device : Stays(dev[d], q)}]
  <2> HIDE DEF N
  <2>1. \A e \in Used : dev[e].clk /\ \A r \in N[e] : r.clk
    BY <1>4, UsedDevices DEF N, Loose, Stays
  <2>2. ASSUME NEW d \in Used, NEW q \in Device, NEW bus \in Computers, Sees(d, bus, N),
               Becomes(Later(dev[d], n), q, d, bus)
        PROVE  q \in N[d]
    <3>1. ~bus.atn /\ ~bus.clk /\ d \in Devs /\ dev[d] \in Device
      BY <1>4, <1>6, <2>1, <2>2, ClkSeen, UsedDevices
    <3>2. dev[d].atn /\ dev[d].state \in {"PRE2", "DONE0"}
      BY <1>4, <1>6
    <3>3. Stays(dev[d], q)
      BY <1>2, <2>2, <3>1, <3>2, AtnStays
    <3> QED
      BY <3>1, <3>3 DEF N
  <2>3. /\ Used' = Used /\ \A d \in Devs : ~dev'[d].enabled => Away(dev'[d])
        /\ \A d \in Devs : ~dev'[d].clk \/ ~dev'[d].data \/ dev'[d].talking => d \in Used
        /\ \A d \in Used : dev'[d] \in N[d]
    BY <1>2, <1>4, <2>2, RunAll
  <2>4. \A d \in Used : Stays(dev[d], dev'[d])
    BY <2>3, UsedDevices DEF N
  <2>5. \A d \in Used : Loose(dev'[d], d)
    BY <1>4, <2>4 DEF Stays, Carries, Loose
  <2>6. \A d, e \in Devs : dev'[d].talking /\ dev'[e].talking => d = e
    BY <2>3, <2>4, OneTalker DEF Stays, Carries
  <2> QED
    BY <2>3, <2>5, <2>6
<1>7. Apart' /\ Called' /\ Spoken'
  BY <1>2, <1>3, <1>5, <1>6, PlaceLoose
<1>8. CpuOk'
  BY <1>2, <1>3 DEF CpuOk, InAtn, Reading, Sends
<1>9. Patient' /\ Ended'
  BY <1>2 DEF SessInv, Patient, Ended
<1> QED
  BY <1>3, <1>5, <1>6, <1>7, <1>8, <1>9 DEF SessInv

(* The session is over: the lines are let go and nothing is kept. *)
LEMMA IdleKeeps ==
    ASSUME Idle, \A d \in Devs : ~dev'[d].enabled => Away(dev'[d]),
           (\A d \in Used : Loose(dev[d], d))', \A d \in Devs : ~dev'[d].talking
    PROVE  SessInv'
<1>1. /\ pc' = "idle" /\ wait' = 0 /\ eoi' = FALSE
      /\ cpu' = [atn |-> TRUE, clk |-> TRUE, data |-> TRUE]
  BY DEF Idle, Go, Set
<1>2. Apart' /\ Called' /\ Spoken'
  BY <1>1, PlaceLoose
<1>3. CpuOk'
  BY <1>1 DEF CpuOk, InAtn, Reading, Sends
<1>4. Patient' /\ Ended'
  BY <1>1, Consts DEF Patient, Ended
<1> QED
  BY <1>2, <1>3, <1>4 DEF SessInv

LEMMA LetGoKeeps == ASSUME TypeInv, SessInv, LetGo PROVE SessInv'
<1>1. PICK n \in Delays : Moved(World(n))
  BY DEF LetGo
<1>2. pc = "letgo" /\ Idle /\ n \in Nat
  BY Consts DEF LetGo
<1>3. /\ \A d \in Devs : ~dev[d].enabled => Away(dev[d])
      /\ \A d \in Used : Loose(dev[d], d)
      /\ cpu.atn = TRUE
  BY <1>2 DEF SessInv, Apart, CpuOk, InAtn, Sends
<1>4. /\ Used' = Used /\ \A d \in Devs : ~dev'[d].enabled => Away(dev'[d])
      /\ \A d \in Used : Calm(dev'[d])
      /\ \A d \in Devs : ~dev'[d].talking
  BY <1>1, <1>2, <1>3, ComeToRest
<1>5. (\A d \in Used : Loose(dev[d], d))'
  BY <1>4, CalmLoose
<1> QED
  BY <1>2, <1>4, <1>5, IdleKeeps

(* ATN is pulled for a new session. *)
LEMMA StartKeeps ==
    ASSUME TypeInv, SessInv, NEW s \in Sessions, Start(s[1], s[2])
    PROVE  SessInv'
<1>1. PICK n \in Delays : Moved(World(n))
  BY DEF Start
<1>2. /\ pc = "idle" /\ pc' = "attend" /\ n \in Nat /\ wait' = 0 /\ eoi' = FALSE
      /\ job' = s[1] /\ cmds' = CommandsOf(s[1], s[2])
      /\ cpu' = [atn |-> FALSE, clk |-> TRUE, data |-> TRUE]
  BY Consts DEF Start, Go, Set
<1>3. /\ \A d \in Devs : ~dev[d].enabled => Away(dev[d])
      /\ \A d \in Used : Loose(dev[d], d)
      /\ cpu.atn = TRUE
  BY <1>2 DEF SessInv, Apart, CpuOk, InAtn, Sends
<1>4. /\ Used' = Used /\ \A d \in Devs : ~dev'[d].enabled => Away(dev'[d])
      /\ \A d \in Used : Calm(dev'[d])
      /\ \A d \in Devs : ~dev'[d].talking
  BY <1>1, <1>2, <1>3, ComeToRest
<1>5. (\A d \in Used : Fresh(dev[d]))'
  BY <1>4 DEF Fresh, Calm
<1>6. s[1] \in Jobs /\ s[2] \in Devs
  BY BusAssumption
<1>7. StageOne'
  BY <1>2, <1>6 DEF StageOne
<1>8. Apart' /\ Called' /\ Spoken'
  BY <1>2, <1>5, <1>7, PlaceAttend
<1>9. CpuOk'
  BY <1>2 DEF CpuOk, InAtn, Reading, Sends
<1>10. Patient' /\ Ended'
  BY <1>2, Consts DEF Patient, Ended
<1> QED
  BY <1>4, <1>8, <1>9, <1>10 DEF SessInv

(* A session is broken off, with the devices left as they are or reset. *)
LEMMA AbandonKeeps == ASSUME TypeInv, SessInv, Abandon PROVE SessInv'
<1>1. /\ job # "read" /\ dev' = dev /\ Idle
      /\ \A d \in Devs : ~dev[d].talking
  BY DEF Abandon, Break
<1>2. /\ \A d \in Used : Loose(dev[d], d)
      /\ \A d \in Devs : ~dev[d].enabled => Away(dev[d])
  BY <1>1, LooseHere DEF SessInv
<1>3. (\A d \in Used : Loose(dev[d], d))' /\ \A d \in Devs : ~dev'[d].enabled => Away(dev'[d])
  BY <1>1, <1>2 DEF Used
<1> QED
  BY <1>1, <1>3, IdleKeeps

LEMMA ResetKeeps == ASSUME TypeInv, SessInv, Reset PROVE SessInv'
<1>1. dev' = [d \in Devs |-> ResetDevice(dev[d])] /\ Idle
  BY DEF Reset, Break
<1>2. ASSUME NEW d \in Devs
      PROVE  /\ ~dev'[d].enabled => Away(dev'[d])
             /\ ~dev'[d].talking
             /\ dev'[d].enabled => Loose(dev'[d], d)
  <2>1. dev[d] \in Device /\ (~dev[d].enabled => Away(dev[d])) /\ dev'[d] = ResetDevice(dev[d])
    BY <1>1 DEF TypeInv, SessInv
  <2>2. CASE dev[d].enabled
    <3> DEFINE r == dev[d]
    <3>1. dev'[d] = Cleared(Free(r)) /\ r \in Device /\ r.enabled
      BY <2>1, <2>2 DEF ResetDevice
    <3> HIDE DEF r
    <3>2. /\ Cleared(Free(r)).enabled /\ ~Cleared(Free(r)).talking /\ ~Cleared(Free(r)).atn
          /\ ~Cleared(Free(r)).listening /\ Cleared(Free(r)).clk /\ Cleared(Free(r)).data
      BY <3>1 DEF Cleared, Free, Lines, After, Device
    <3> QED
      BY <3>1, <3>2 DEF Loose
  <2>3. CASE ~dev[d].enabled
    <3>1. dev'[d] = dev[d]
      BY <2>1, <2>3 DEF ResetDevice
    <3> QED
      BY <2>1, <2>3, <3>1 DEF Away
  <2> QED
    BY <2>2, <2>3
<1>3. (\A d \in Used : Loose(dev[d], d))'
  BY <1>2 DEF Used
<1> QED
  BY <1>1, <1>2, <1>3, IdleKeeps

(* The user switches a device on or off. *)
LEMMA SwitchKeeps ==
    ASSUME TypeInv, SessInv, NEW x \in Switchable, Switch(x)
    PROVE  SessInv'
<1>1. /\ pc = "idle" /\ UNCHANGED <<cpu, pc, job, cmds, msg, bit, wait, eoi, late>>
      /\ dev' = [dev EXCEPT ![x] = IF @.enabled THEN DisableDevice(@) ELSE EnableDevice(@)]
      /\ x \in Devs /\ dev \in [Devs -> Device]
  BY BusAssumption DEF Switch, kernal, TypeInv
<1>2. /\ \A d \in Used : Loose(dev[d], d)
      /\ \A d \in Devs : ~dev[d].talking
      /\ \A d \in Devs : ~dev[d].enabled => Away(dev[d])
  BY <1>1 DEF SessInv, Apart
<1>3. ASSUME NEW d \in Devs
      PROVE  /\ ~dev'[d].enabled => Away(dev'[d])
             /\ ~dev'[d].talking
             /\ dev'[d].enabled => Loose(dev'[d], d)
  <2>1. CASE d # x
    <3>1. dev'[d] = dev[d]
      BY <1>1, <2>1
    <3> QED
      BY <1>2, <3>1 DEF Used
  <2>2. CASE d = x /\ dev[d].enabled
    <3> DEFINE r == dev[d]
    <3>1. dev'[d] = DisableDevice(r) /\ r \in Device /\ ~r.talking
      BY <1>1, <1>2, <2>2
    <3> HIDE DEF r
    <3>2. /\ ~DisableDevice(r).enabled /\ ~DisableDevice(r).talking
          /\ DisableDevice(r).clk /\ DisableDevice(r).data
      BY <3>1 DEF DisableDevice, Free, Lines, After, Device
    <3> QED
      BY <3>1, <3>2 DEF Away
  <2>3. CASE d = x /\ ~dev[d].enabled
    <3> DEFINE r == dev[d]
    <3>1. dev'[d] = EnableDevice(r) /\ r \in Device /\ r.clk /\ r.data
      BY <1>1, <1>2, <2>3 DEF Away
    <3> HIDE DEF r
    <3>2. /\ EnableDevice(r).enabled /\ ~EnableDevice(r).talking /\ ~EnableDevice(r).atn
          /\ EnableDevice(r).clk /\ EnableDevice(r).data
      BY <3>1 DEF EnableDevice, Cleared, After, Device
    <3> QED
      BY <3>1, <3>2 DEF Loose
  <2> QED
    BY <2>1, <2>2, <2>3
<1>4. (\A d \in Used : Loose(dev[d], d))'
  BY <1>3 DEF Used
<1>5. Apart' /\ Called' /\ Spoken'
  BY <1>1, <1>3, <1>4, PlaceLoose
<1>6. CpuOk'
  BY <1>1 DEF SessInv, CpuOk, InAtn, Reading, Sends
<1>7. Patient' /\ Ended'
  BY <1>1 DEF SessInv, Patient, Ended
<1> QED
  BY <1>3, <1>5, <1>6, <1>7 DEF SessInv
-----------------------------------------------------------------------------
(* The session in every reachable state. *)
LEMMA InitKeeps == Init => SessInv
<1> SUFFICES ASSUME Init PROVE SessInv
  OBVIOUS
<1>1. \A d \in Devs : /\ dev[d].clk /\ dev[d].data /\ ~dev[d].talking /\ ~dev[d].atn
  BY DEF Init, NewDevice
<1>2. /\ pc = "idle" /\ wait = 0 /\ eoi = FALSE
      /\ cpu = [atn |-> TRUE, clk |-> TRUE, data |-> TRUE]
  BY DEF Init
<1>3. \A d \in Devs : Loose(dev[d], d) /\ (~dev[d].enabled => Away(dev[d]))
  BY <1>1 DEF Loose, Away
<1>4. Apart /\ Called /\ Spoken
  BY <1>1, <1>2, <1>3 DEF Apart, Called, Spoken, Used, Reading, Sends
<1>5. CpuOk
  BY <1>2 DEF CpuOk, InAtn, Reading, Sends
<1>6. Patient /\ Ended
  BY <1>2, Consts DEF Patient, Ended
<1> QED
  BY <1>1, <1>3, <1>4, <1>5, <1>6 DEF SessInv

LEMMA StutterKeeps == ASSUME SessInv, UNCHANGED vars PROVE SessInv'
<1>1. UNCHANGED <<dev, cpu, pc, job, cmds, msg, bit, wait, eoi, late>>
  BY DEF vars, kernal
<1>2. /\ Used' = Used /\ Sending' = Sending /\ InAtn' = InAtn /\ StageOne' = StageOne
      /\ \A r : /\ Follows(r)' = Follows(r) /\ Speaks(r)' = Speaks(r) /\ Fresh(r)' = Fresh(r)
  BY <1>1 DEF Used, Sending, InAtn, StageOne, Follows, Speaks, Fresh
<1> QED
  BY <1>1, <1>2
  DEF SessInv, CpuOk, Apart, Called, Spoken, Patient, Ended, AllFirst, AllRefused, AllSecond,
      AllHear, OneSpeaks, First, Refused, Second, Call, Hears

LEMMA SessionSteps == ASSUME TypeInv, SessInv, [Next]_vars PROVE SessInv'
<1>1. CASE Session
  BY <1>1, AttendKeeps, HoldKeeps, LookKeeps, PresentFirst, PresentSecond, SendingKeeps,
     AwaitKeeps, EoiKeeps, AckKeeps, ReleaseKeeps, OffKeeps, FinishKeeps, LetGoKeeps, TurnKeeps,
     ReadyKeeps, AcceptKeeps, ClockLowKeeps, AnswerKeeps, GetBitKeeps, LowKeeps, AnsweredKeeps
  DEF Session, Await
<1>2. CASE Next
  BY <1>1, <1>2, StartKeeps, AbandonKeeps, ResetKeeps, SwitchKeeps DEF Next
<1>3. CASE UNCHANGED vars
  BY <1>3, StutterKeeps
<1> QED
  BY <1>2, <1>3

(* Where the computer is in a session, the devices are too: at every label of the
   kernal the state of each device is one that the label allows, whatever the
   delays, the jobs, the number of the devices and where sessions were broken
   off.  This is the inductive invariant of the two theorems below. *)
THEOREM SessionKept == Spec => []SessInv
<1>1. TypeInv /\ SessInv /\ [Next]_vars => SessInv'
  BY SessionSteps
<1> QED
  BY <1>1, InitKeeps, TypesKept, PTL DEF Spec

LEMMA NobodyInTheWay ==
    ASSUME TypeInv, SessInv, NEW d \in Used
    PROVE  /\ ~dev[d].atn /\ ~dev[d].listening /\ ~dev[d].talking => dev[d].clk /\ dev[d].data
           /\ ~dev[d].clk => dev[d].talking
<1> DEFINE Good(r) == /\ ~r.atn /\ ~r.listening /\ ~r.talking => r.clk /\ r.data
                      /\ ~r.clk => r.talking
<1>1. AllFirst => Good(dev[d])
  BY DEF AllFirst, First, Follows, Keeps
<1>2. AllRefused => Good(dev[d])
  BY DEF AllRefused, Refused, Silent
<1>3. AllSecond => Good(dev[d])
  BY DEF AllSecond, Second, Follows, Keeps, Silent
<1>4. AllHear => Good(dev[d])
  BY DEF AllHear, Hears, Follows, Keeps, Inert, Silent
<1>5. OneSpeaks => Good(dev[d])
  BY DEF OneSpeaks, Speaks, Voice, Inert, Silent
<1>6. Loose(dev[d], d) => Good(dev[d])
  BY DEF Loose
<1>7. Fresh(dev[d]) => Good(dev[d])
  BY DEF Fresh, Calm
<1>8. \/ Loose(dev[d], d) \/ Fresh(dev[d])
      \/ AllFirst \/ AllRefused \/ AllSecond \/ AllHear \/ OneSpeaks
  <2>1. CASE pc \in {"idle", "letgo", "finish", "attend"}
    BY <2>1 DEF SessInv, Apart, Called
  <2>2. CASE pc \in {"hold", "look", "present"} \cup Sends
    BY <2>2 DEF SessInv, Called, Spoken
  <2>3. CASE pc \in {"release", "turn1", "turn2", "turn3"}
    BY <2>3 DEF SessInv, Called
  <2>4. CASE pc \in Reading \cup {"off"}
    BY <2>4 DEF SessInv, Spoken
  <2> QED
    BY <2>1, <2>2, <2>3, <2>4 DEF TypeInv, Pcs, Reading, Sends
<1> HIDE DEF Good
<1>9. Good(dev[d])
  BY <1>1, <1>2, <1>3, <1>4, <1>5, <1>6, <1>7, <1>8
<1> QED
  BY <1>9 DEF Good

(* BusIsFree: a device that is neither addressed nor under ATN leaves both lines
   alone, and only a talker pulls the clock; there is never a second talker. *)
THEOREM BusFree == Spec => []BusIsFree
<1>1. ASSUME TypeInv, SessInv PROVE BusIsFree
  <2>1. ASSUME NEW d \in Devs
        PROVE  /\ ~dev[d].atn /\ ~dev[d].listening /\ ~dev[d].talking => dev[d].clk /\ dev[d].data
               /\ ~dev[d].clk => dev[d].talking
    <3>1. CASE dev[d].enabled
      <4>1. d \in Used
        BY <3>1 DEF Used
      <4> QED
        BY <1>1, <4>1, NobodyInTheWay
    <3>2. CASE ~dev[d].enabled
      BY <1>1, <3>2 DEF SessInv, Away
    <3> QED
      BY <3>1, <3>2
  <2>2. \A d \in Devs : dev[d].talking => \A e \in Devs \ {d} : ~dev[e].talking
    BY <1>1 DEF SessInv
  <2> QED
    BY <2>1, <2>2 DEF BusIsFree
<1> QED
  BY <1>1, TypesKept, SessionKept, PTL

(* AnsweredInTime: no loop of the kernal that has no way out but the line it waits
   for waits for as long as Patience, unless the computer itself was late with the
   acknowledgement of a byte in this session. *)
THEOREM NeverKeptWaiting == Spec => []AnsweredInTime
<1>1. SessInv => AnsweredInTime
  BY DEF SessInv, Patient, AnsweredInTime
<1> QED
  BY <1>1, SessionKept, PTL
=============================================================================
