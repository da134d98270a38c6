-------------------------------- MODULE Netplay -------------------------------
(***************************************************************************)
(* The frames of a netplay session (network.c): two emulators that have    *)
(* agreed on a delay of frame_delta frames, each with a ring of as many    *)
(* event lists, send the list of every frame to each other and play both   *)
(* lists frame_delta - 1 frames later.  Nothing but the lists keeps the    *)
(* two machines alike; the first entry of a list may hold the registers    *)
(* of the CPU, by which a machine that has gone astray is found out.       *)
(***************************************************************************)
EXTENDS Naturals, Sequences, Functions

CONSTANTS
    Inputs,       \* what a player does, each of it once in a session
    Sessions,     \* the sessions there may be: the frame delta that
                  \* network_test_delay chooses, and what happens in it
    MaxFrames     \* bound: the frames of a session

Happenings == {"input", "trap", "suspend", "astray", "close"}

ASSUME NetplayAssumption ==
    /\ Sessions \subseteq [delta : Nat \ {0}, may : SUBSET Happenings]
    /\ MaxFrames \in Nat

Peers    == {"server", "client"}
Other(p) == CHOOSE q \in Peers : q # p

VARIABLES
    may,         \* what may happen in this session
    delta,       \* frame_delta, the same on both sides
    ring,        \* frame_event_list
    current,     \* current_frame
    toPlay,      \* frame_to_play
    full,        \* frame_buffer_full
    suspended,
    trap,        \* the trap that records the registers has not run yet
    at,          \* "frame": emulating; "sent": in network_hook; "cut":
                 \* emulating after half a list; "asking": receiving what
                 \* will never come; "over"
    wire,        \* what is on its way to each peer
    up,          \* the connection stands
    world,       \* whether a machine is still the one they started with
    alarm,       \* a peer has found that the machines are out of sync
    sent, played \* history: the lists a peer has sent, the pairs it has played

own  == <<ring, current, toPlay, full, suspended, trap, at>>
vars == <<may, delta, own, wire, up, world, alarm, sent, played>>
-----------------------------------------------------------------------------
(* network_init_frame_event_list, on both sides. *)
Init == /\ \E s \in Sessions : delta = s.delta /\ may = s.may
        /\ ring      = [p \in Peers |-> [i \in 0 .. delta - 1 |-> <<>>]]
        /\ current   = [p \in Peers |-> 0]
        /\ toPlay    = [p \in Peers |-> 0]
        /\ full      = [p \in Peers |-> FALSE]
        /\ suspended = [p \in Peers |-> FALSE]
        /\ trap      = [p \in Peers |-> TRUE]
        /\ at        = [p \in Peers |-> "frame"]
        /\ wire      = [p \in Peers |-> <<>>]
        /\ up        = TRUE
        /\ world     = [p \in Peers |-> "shared"]
        /\ alarm     = FALSE
        /\ sent      = [p \in Peers |-> <<>>]
        /\ played    = [p \in Peers |-> <<>>]

(* The registers show what a machine has been through: which lists those were
   is in played, and the same on both sides by ImplementsLockStep. *)
Registers(p) == <<"sync", <<Len(sent[p]), Len(played[p])>>, world[p]>>

(* The emulator runs, and not network_hook. *)
Emulating(p) == at[p] \in {"frame", "cut"}

(* network_event_record: an event goes into the list of the current frame, and
   takes effect only when it comes back out of the ring. *)
Put(p, e) == ring' = [ring EXCEPT ![p][current[p]] = Append(@, e)]

Done(p) == UNION {Range(l) : l \in Range(sent[p]) \cup {ring[p][current[p]]}}

Record(p, e) == /\ "input" \in may
                /\ Emulating(p) /\ <<"input", e>> \notin Done(p)
                /\ Put(p, <<"input", e>>)
                /\ UNCHANGED <<may, delta, current, toPlay, full, suspended, trap, at, wire, up,
                               world, alarm, sent, played>>

(* The trap runs before the first opcode of the frame, but the user interface
   may have been asked for events before that. *)
RecordSyncTest(p) == /\ at[p] = "frame" /\ trap[p]
                     /\ Put(p, Registers(p))
                     /\ trap' = [trap EXCEPT ![p] = FALSE]
                     /\ UNCHANGED <<may, delta, current, toPlay, full, suspended, at, wire, up,
                                    world, alarm, sent, played>>

(* Somebody else asks for a trap, and there is only one. *)
LoseSyncTest(p) == /\ "trap" \in may
                   /\ at[p] = "frame" /\ trap[p]
                   /\ trap' = [trap EXCEPT ![p] = FALSE]
                   /\ UNCHANGED <<may, delta, ring, current, toPlay, full, suspended, at, wire,
                                  up, world, alarm, sent, played>>

(* A change that no event carries, and that the registers show. *)
GoAstray(p) == /\ "astray" \in may
               /\ Emulating(p) /\ world[p] = "shared"
               /\ world' = [world EXCEPT ![p] = p]
               /\ UNCHANGED <<may, delta, own, wire, up, alarm, sent, played>>

Send(p, m) == wire' = IF up THEN [wire EXCEPT ![Other(p)] = Append(@, m)] ELSE wire

(* network_suspend: the other side will have to wait. *)
Suspend(p) == /\ "suspend" \in may
              /\ Emulating(p) /\ ~suspended[p]
              /\ Send(p, <<"suspend">>)
              /\ suspended' = [suspended EXCEPT ![p] = TRUE]
              /\ UNCHANGED <<may, delta, ring, current, toPlay, full, trap, at, up,
                             world, alarm, sent, played>>

(* network_disconnect, asked for by the user. *)
Disconnect(p) == /\ "close" \in may
                 /\ Emulating(p)
                 /\ up' = FALSE /\ at' = [at EXCEPT ![p] = "over"]
                 /\ UNCHANGED <<may, delta, ring, current, toPlay, full, suspended, trap, wire,
                                world, alarm, sent, played>>
-----------------------------------------------------------------------------
(* Mutated form: the list to play is the one that is being written. *)
NextFramePlaysCurrent(p) ==
    LET n == (current[p] + 1) % delta
    IN /\ current' = [current EXCEPT ![p] = n]
       /\ toPlay'  = [toPlay EXCEPT ![p] = n]
       /\ ring'    = [ring EXCEPT ![p][n] = <<>>]
       /\ trap'    = [trap EXCEPT ![p] = TRUE]

(* Mutated form: the index of the list to play does not wrap. *)
NextFrameNoWrap(p) ==
    LET n == (current[p] + 1) % delta
    IN /\ current' = [current EXCEPT ![p] = n]
       /\ toPlay'  = [toPlay EXCEPT ![p] = n + 1]
       /\ ring'    = [ring EXCEPT ![p][n] = <<>>]
       /\ trap'    = [trap EXCEPT ![p] = TRUE]

(* network_prepare_next_frame *)
NextFrame(p) ==
    LET n == (current[p] + 1) % delta
    IN /\ current' = [current EXCEPT ![p] = n]
       /\ toPlay'  = [toPlay EXCEPT ![p] = (n + 1) % delta]
       /\ ring'    = [ring EXCEPT ![p][n] = <<>>]
       /\ trap'    = [trap EXCEPT ![p] = TRUE]

(* Mutated form: the ring is taken for full one frame too late. *)
FilledLate(p) == full[p] \/ current[p] = delta

Filled(p) == full[p] \/ current[p] = delta - 1

(* network_hook at the end of a frame, up to the point where it may wait. *)
HookSend(p) ==
    /\ at[p] = "frame" /\ ~trap[p]
    /\ Len(sent[p]) < MaxFrames
    /\ Send(p, <<"list", ring[p][current[p]]>>)
    /\ sent'      = [sent EXCEPT ![p] = Append(@, ring[p][current[p]])]
    /\ suspended' = [suspended EXCEPT ![p] = FALSE]
    /\ full'      = [full EXCEPT ![p] = Filled(p)]
    /\ at'        = [at EXCEPT ![p] = "sent"]
    /\ UNCHANGED <<may, delta, ring, current, toPlay, trap, up, world, alarm, played>>

(* The other side is gone: after network_disconnect the hook goes on, and does
   what it can do without a connection. *)
HookSendFails(p) ==
    /\ Emulating(p) /\ ~trap[p] /\ ~up
    /\ suspended' = [suspended EXCEPT ![p] = FALSE]
    /\ full'      = [full EXCEPT ![p] = Filled(p)]
    /\ at'        = [at EXCEPT ![p] = "over"]
    /\ IF Filled(p) THEN UNCHANGED <<ring, current, toPlay, trap>> ELSE NextFrame(p)
    /\ UNCHANGED <<may, delta, wire, up, world, alarm, sent, played>>

(* Mutated form: a side that has received nothing yet goes on. *)
HookNotFullNoWait(p) ==
    /\ at[p] = "sent" /\ (~full[p] \/ wire[p] = <<>>)
    /\ NextFrame(p)
    /\ at' = [at EXCEPT ![p] = "frame"]
    /\ UNCHANGED <<may, delta, full, suspended, wire, up, world, alarm, sent, played>>

(* In the first frames there is nothing to receive. *)
HookNotFull(p) ==
    /\ at[p] = "sent" /\ ~full[p]
    /\ NextFrame(p)
    /\ at' = [at EXCEPT ![p] = "frame"]
    /\ UNCHANGED <<may, delta, full, suspended, wire, up, world, alarm, sent, played>>

(* Mutated form: both sides play their own list first. *)
PairOwnFirst(p, remote) == <<ring[p][toPlay[p]], remote>>

(* "replay the event_lists; server first, then client" *)
Pair(p, remote) == IF p = "server" THEN <<ring[p][toPlay[p]], remote>>
                                   ELSE <<remote, ring[p][toPlay[p]]>>

(* Mutated form: the message stays in the socket. *)
HookWaitsForEver(p) ==
    /\ at[p] = "sent" /\ full[p]
    /\ wire[p] # <<>> /\ Head(wire[p]) = <<"suspend">>
    /\ suspended' = [suspended EXCEPT ![p] = TRUE]
    /\ UNCHANGED <<may, delta, ring, current, toPlay, full, trap, at, wire, up, world, alarm,
                   sent, played>>

(* Mutated form: the message is taken for the list of an idle frame. *)
HookWaitsNot(p) ==
    /\ at[p] = "sent" /\ full[p]
    /\ wire[p] # <<>> /\ Head(wire[p]) = <<"suspend">>
    /\ wire' = [wire EXCEPT ![p] = Tail(@)]
    /\ played' = [played EXCEPT ![p] = Append(@, Pair(p, <<>>))]
    /\ NextFrame(p)
    /\ at' = [at EXCEPT ![p] = "frame"]
    /\ UNCHANGED <<may, delta, full, suspended, up, world, alarm, sent>>

(* A list of no length says that the other side has suspended emulation. *)
HookWaits(p) ==
    /\ at[p] = "sent" /\ full[p]
    /\ wire[p] # <<>> /\ Head(wire[p]) = <<"suspend">>
    /\ wire' = [wire EXCEPT ![p] = Tail(@)]
    /\ suspended' = [suspended EXCEPT ![p] = TRUE]
    /\ UNCHANGED <<may, delta, ring, current, toPlay, full, trap, at, up, world, alarm,
                   sent, played>>

(* Mutated form: the registers of a machine are compared with themselves. *)
OutOfSyncNever(pair) == pair[1] # pair[1]

OutOfSync(pair) == /\ pair[1] # <<>> /\ pair[2] # <<>>
                   /\ pair[1][1][1] = "sync" /\ pair[2][1][1] = "sync"
                   /\ pair[1][1] # pair[2][1]

(* Machines out of sync are parted, but play the two lists all the same. *)
HookReceive(p) ==
    /\ at[p] = "sent" /\ full[p]
    /\ wire[p] # <<>> /\ Head(wire[p])[1] = "list"
    /\ wire' = [wire EXCEPT ![p] = Tail(@)]
    /\ LET pair == Pair(p, Head(wire[p])[2])
       IN /\ played' = [played EXCEPT ![p] = Append(@, pair)]
          /\ alarm'  = (alarm \/ OutOfSync(pair))
          /\ up'     = (up /\ ~OutOfSync(pair))
          /\ at'     = [at EXCEPT ![p] = IF OutOfSync(pair) THEN "over" ELSE "frame"]
    /\ NextFrame(p)
    /\ UNCHANGED <<may, delta, full, suspended, world, sent>>

(* The connection was reset, which may cost what was still on its way: the hook
   learns of it when it asks for the length of a list. *)
HookReceiveFails(p) ==
    /\ at[p] = "sent" /\ full[p] /\ ~up
    /\ at' = [at EXCEPT ![p] = "over"]
    /\ UNCHANGED <<may, delta, ring, current, toPlay, full, suspended, trap, wire, up, world,
                   alarm, sent, played>>

(* It learns of it between the length and the list, and returns at once: it does
   not disconnect, and the frame is not finished. *)
HookBodyFails(p) ==
    /\ at[p] = "sent" /\ full[p] /\ ~up
    /\ wire[p] # <<>> /\ Head(wire[p])[1] = "list"
    /\ wire' = [wire EXCEPT ![p] = <<>>]
    /\ at' = [at EXCEPT ![p] = "cut"]
    /\ UNCHANGED <<may, delta, ring, current, toPlay, full, suspended, trap, up, world,
                   alarm, sent, played>>

(* The connection was closed in order: a result of 0 is taken for nothing
   received, and network_recv_buffer asks again, for ever. *)
HookAsksForEver(p) ==
    /\ at[p] = "sent" /\ full[p] /\ ~up
    /\ wire[p] = <<>>
    /\ at' = [at EXCEPT ![p] = "asking"]
    /\ UNCHANGED <<may, delta, ring, current, toPlay, full, suspended, trap, wire, up, world,
                   alarm, sent, played>>
-----------------------------------------------------------------------------
Emulate(p) == \/ RecordSyncTest(p) \/ HookSend(p) \/ HookSendFails(p)
              \/ HookNotFull(p) \/ HookWaits(p) \/ HookReceive(p)
              \/ HookReceiveFails(p) \/ HookBodyFails(p) \/ HookAsksForEver(p)

Next == \E p \in Peers :
            \/ Emulate(p)
            \/ \E e \in Inputs : Record(p, e)
            \/ LoseSyncTest(p) \/ GoAstray(p) \/ Suspend(p) \/ Disconnect(p)

Spec == Init /\ [][Next]_vars

(* Both emulators run. *)
FairSpec == Spec /\ \A p \in Peers : WF_vars(Emulate(p))
-----------------------------------------------------------------------------
Events == {<<"input", e>> : e \in Inputs}
              \cup {"sync"} \X ((0 .. MaxFrames) \X (0 .. MaxFrames)) \X ({"shared"} \cup Peers)

IsList(l) == \A i \in DOMAIN l : l[i] \in Events

(* The indices stay within the ring, and nothing but lists and suspend messages
   is ever on the wire. *)
TypeOK ==
    /\ [delta |-> delta, may |-> may] \in Sessions
    /\ up \in BOOLEAN /\ alarm \in BOOLEAN
    /\ \A p \in Peers :
           /\ DOMAIN ring[p] = 0 .. delta - 1 /\ \A i \in DOMAIN ring[p] : IsList(ring[p][i])
           /\ current[p] \in 0 .. delta - 1 /\ toPlay[p] \in 0 .. delta - 1
           /\ full[p] \in BOOLEAN /\ suspended[p] \in BOOLEAN /\ trap[p] \in BOOLEAN
           /\ at[p] \in {"frame", "sent", "cut", "asking", "over"}
           /\ world[p] \in {"shared", p}
           /\ \A i \in DOMAIN wire[p] :
                  wire[p][i] = <<"suspend">> \/ (wire[p][i][1] = "list" /\ IsList(wire[p][i][2]))
           /\ \A i \in DOMAIN sent[p] : IsList(sent[p][i])

(* A frame's list is played exactly frame_delta - 1 frames after it was made,
   so the delay a player feels is the one that was agreed on. *)
PlayedInTime ==
    \A p \in Peers : at[p] = "frame" =>
        Len(played[p]) = IF Len(sent[p]) < delta THEN 0 ELSE Len(sent[p]) - (delta - 1)

(* However fast one machine is, the ring keeps the two together. *)
NeverFarApart == \A p \in Peers : Len(sent[p]) <= Len(sent[Other(p)]) + delta

(* Machines that are shown the same inputs are never called out of sync,
   however far one is ahead of the other when it records its registers. *)
NoFalseAlarm == alarm => world["server"] # world["client"]

Lists == INSTANCE LockStep WITH turns <- sent, shown <- played

(* Both machines are shown the same pairs of lists, each once, in the order in
   which they were made: the ring and the wire implement lockstep. *)
ImplementsLockStep == Lists!LSpec

(* As long as the connection stands no side waits for the other for ever. *)
FramesGoOn == \A p \in Peers : <>(~up \/ Len(played[p]) = MaxFrames - (delta - 1))

(* Machines that differ are told apart, if no player does anything and no test is
   lost: "test for sync" needs the registers to come first in both lists.  It is
   done on the second frame from now, when that is played. *)
Astray == /\ world["server"] # world["client"] /\ ~\E p \in Peers : at[p] = "over"
          /\ may \cap {"input", "trap"} = {}
Early  == \A p \in Peers : Len(sent[p]) < MaxFrames - delta
AstrayIsFound == (Astray /\ Early) ~> \E p \in Peers : at[p] = "over"
=============================================================================
