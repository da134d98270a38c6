------------------------------- MODULE FsDrive --------------------------------
(***************************************************************************)
(* The file side of the serial bus (serial/fsdrive.c): what a device that  *)
(* is not emulated as a drive does with the commands and bytes that the    *)
(* bus hands it.  One channel of each device is modelled.  The name of an  *)
(* OPEN is collected in one buffer that all devices share.                 *)
(* The file system below it (vdrive, external) is reduced to a channel     *)
(* that is closed, reads the bytes of File or takes bytes; an open without *)
(* a name is answered by SERIAL_NO_DEVICE, and leaves the channel alone.   *)
(***************************************************************************)
EXTENDS Integers, Sequences

CONSTANTS NumDevs,        \* the devices with IECDeviceN on
          File,           \* the bytes of the file a device has to read
          DATA, CLOSE, OPEN,   \* the secondary addresses 0x60, 0xe0 and 0xf0
          NameLength      \* SERIAL_NAMELENGTH

Devs == 1 .. NumDevs

SERIAL_OK    == 0
SERIAL_ERROR == 2
SERIAL_EOF   == 64

(* disk[d] is what the file of device d may be used for, if it has one; st is
   serial_iec_device_st, which the st_func of every call sets; pos and chan are
   the vdrive's.  Three histories: since, what a name has received since its OPEN;
   opened and put, the name that a file was opened with in the last access of the
   computer, and the bytes that were put into a file. *)
FsInit(disk) == [disk |-> disk, isopen |-> [d \in Devs |-> 0],
                 chan |-> [d \in Devs |-> "closed"], pos |-> [d \in Devs |-> 1],
                 SerialBuffer |-> <<>>, st |-> SERIAL_OK,
                 since |-> <<>>, opened |-> <<>>, put |-> <<>>]

Quiet(fs) == [fs EXCEPT !.opened = <<>>, !.put = <<>>]

SetSt(fs, st) == [fs EXCEPT !.st = st]
Closed(fs, d) == [fs EXCEPT !.chan[d] = "closed"]

(* putf of one byte or, one after the other, of several. *)
PutF(fs, d, bytes) ==
    IF fs.chan[d] = "write" THEN [fs EXCEPT !.put = @ \o bytes, !.st = SERIAL_OK]
                            ELSE SetSt(fs, SERIAL_ERROR)

(* Mutated form: the buffer is not emptied. *)
OpenNamedKeeps(fs, d) ==
    [fs EXCEPT !.since = <<>>, !.opened = fs.SerialBuffer,
               !.isopen[d] = IF fs.disk[d] = "none" THEN 0 ELSE 2,
               !.chan[d]   = IF fs.disk[d] = "none" THEN "closed" ELSE fs.disk[d],
               !.pos[d]    = 1,
               !.st        = IF fs.disk[d] = "none" THEN SERIAL_ERROR ELSE SERIAL_OK]

(* serialcommand(OPEN) for a channel fsdrive_open has prepared, when a name was
   received: the old file is closed and the new one opened. *)
OpenNamed(fs, d) ==
    [fs EXCEPT !.SerialBuffer = <<>>, !.since = <<>>, !.opened = fs.SerialBuffer,
               !.isopen[d] = IF fs.disk[d] = "none" THEN 0 ELSE 2,
               !.chan[d]   = IF fs.disk[d] = "none" THEN "closed" ELSE fs.disk[d],
               !.pos[d]    = 1,
               !.st        = IF fs.disk[d] = "none" THEN SERIAL_ERROR ELSE SERIAL_OK]

(* serialcommand: the three commands.  DATA on a channel whose file has not been
   opened yet opens one without a name, which fails, and puts what the buffer
   holds into the file that the channel still has: with DELAYEDCLOSE that may be
   the one of the OPEN before. *)
SerialCommand(fs, d, secondary) ==
    CASE secondary = DATA ->
           IF fs.isopen[d] = 1
           THEN [PutF(fs, d, fs.SerialBuffer) EXCEPT !.isopen[d] = 2, !.SerialBuffer = <<>>,
                                                     !.since = <<>>, !.st = SERIAL_ERROR]
           ELSE SetSt(fs, SERIAL_OK)
      [] secondary = CLOSE ->
           [Closed(fs, d) EXCEPT !.isopen[d] = 0, !.st = SERIAL_OK]
      [] secondary = OPEN ->
           IF fs.isopen[d] # 0 /\ fs.SerialBuffer # <<>>
           THEN OpenNamed(fs, d) ELSE SetSt(fs, SERIAL_OK)

FsOpen(fs, d) == [fs EXCEPT !.isopen[d] = 1, !.since = <<>>]

FsUnlisten(fs, d, secondary) ==
    IF secondary = OPEN THEN SerialCommand(fs, d, OPEN) ELSE fs

FsWrite(fs, d, data) ==
    IF fs.isopen[d] = 1
    THEN [fs EXCEPT !.since = Append(@, data),
                    !.SerialBuffer = IF Len(@) < NameLength THEN Append(@, data) ELSE @]
    ELSE PutF(fs, d, <<data>>)

(* The byte that fsdrive_read returns, {} with an error, and what it leaves. *)
Readable(fs, d) == fs.chan[d] = "read" /\ fs.pos[d] <= Len(File)
NextByte(fs, d) == IF Readable(fs, d) THEN File[fs.pos[d]] ELSE {}
FsRead(fs, d)   ==
    IF ~Readable(fs, d) THEN SetSt(fs, SERIAL_ERROR)
    ELSE [fs EXCEPT !.pos[d] = @ + 1,
                    !.st = IF fs.pos[d] = Len(File) THEN SERIAL_EOF ELSE SERIAL_OK]

(* fsdrive_reset closes what is open; the buffer is left as it is. *)
FsReset(fs) ==
    [fs EXCEPT !.isopen = [d \in Devs |-> 0],
               !.chan   = [d \in Devs |-> IF fs.isopen[d] # 0 THEN "closed" ELSE fs.chan[d]]]
=============================================================================
