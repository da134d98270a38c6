------------------------------ MODULE NetSession ------------------------------
(***************************************************************************)
(* How two emulators get into a netplay session and out of it (network.c   *)
(* over socket.c): network_mode, the two sockets, the transfer of the      *)
(* snapshot and the measurement of the delay, and what becomes of all that *)
(* when the other side goes away, or one of the many steps of it fails.    *)
(* What the frames carry is in Netplay; here a frame is a message.         *)
(***************************************************************************)
EXTENDS Naturals, Sequences

CONSTANTS
    Deltas,      \* the frame deltas network_test_delay may choose
    Tests,       \* NUM_OF_TESTPACKETS
    Acts,        \* what the users do: "disconnect", "quit", "again"
    Failures,    \* what may fail: "write" or "read" a snapshot
    MaxConns     \* bound: connections made

ASSUME NetSessionAssumption ==
    /\ Deltas \subseteq Nat \ {0} /\ Tests \in Nat \ {0} /\ MaxConns \in Nat
    /\ Acts \subseteq {"disconnect", "quit", "again"} /\ Failures \subseteq {"write", "read"}

Hosts    == {"a", "b"}
Other(h) == CHOOSE g \in Hosts : g # h
Conns    == 1 .. MaxConns

VARIABLES host,   \* each emulator: mode, sockets, trap, and where it waits
          net,    \* each connection: the ends that are open and the data in it
          made    \* the connections made

vars == <<host, net, made>>

(* at: "run", or the message it waits for, or one of the ends of a process:
   "quit", "crashed" (a NULL frame_event_list is used), "asserted". *)
Waits == {"snapshot", "settings", "test", "echo", "delta", "frame"}
Ends  == {"quit", "crashed", "asserted"}

Fresh == [mode |-> "idle", listen |-> "null", sock |-> 0, freed |-> FALSE,
          trap |-> "none", at |-> "run", count |-> 0, delta |-> 0, left |-> 0]

(* What is sent: the delay is the only message whose contents matter here. *)
Snapshot == <<"snapshot">>
Settings == <<"settings">>
Test     == <<"test">>
Echo     == <<"echo">>
Frame    == <<"frame">>
Delta(d) == <<"delta", d>>
Messages == {Snapshot, Settings, Test, Echo, Frame} \cup {Delta(d) : d \in Deltas}

(* queued: the host whose listening socket holds the connection. *)
NoConn == [ends |-> {}, queued |-> "none", reset |-> FALSE,
           wire |-> [h \in Hosts |-> <<>>]]

Init == /\ host = [h \in Hosts |-> Fresh]
        /\ net = [c \in Conns |-> NoConn]
        /\ made = 0
-----------------------------------------------------------------------------
(* TCP.  A host that closes its end with unread data in it, or is sent data
   afterwards, resets the connection.  A send fails on a connection known to be
   reset or a socket that is closed; a receive gets what has been sent, or
   fails, or, at the end of a connection that was closed in an orderly way,
   gets nothing for ever. *)
Usable(h) == host[h].sock # 0 /\ ~host[h].freed
Reset(h)  == Usable(h) /\ net[host[h].sock].reset
Fails(h)  == ~Usable(h) \/ Reset(h)
Conn(h)   == net[host[h].sock]
Comes(h, m) == Usable(h) /\ Conn(h).wire[h] # <<>> /\ Head(Conn(h).wire[h]) = m

Sent(c, h, ms) == IF Other(h) \in c.ends THEN [c EXCEPT !.wire[Other(h)] = @ \o ms]
                                         ELSE [c EXCEPT !.reset = TRUE]
Taken(c, h) == [c EXCEPT !.wire[h] = Tail(@)]
Shut(c, h)  == [c EXCEPT !.ends = @ \ {h}, !.wire[h] = <<>>,
                         !.reset = @ \/ c.wire[h] # <<>> \/ c.queued = h,
                         !.queued = IF @ = h THEN "none" ELSE @]
-----------------------------------------------------------------------------
(* vice_network_socket_close asserts that the socket is in use.  s holds a host
   and the connections, as they are in the middle of a handler. *)
Dead(s) == s.me.at \in Ends

HangUp(s, h) ==
    IF s.me.sock = 0 THEN s
    ELSE IF s.me.freed THEN [s EXCEPT !.me.at = "asserted"]
    ELSE [s EXCEPT !.me.freed = TRUE, !.net[s.me.sock] = Shut(@, h)]

StopListening(s, h) ==
    IF s.me.listen = "null" THEN s
    ELSE IF s.me.listen = "freed" THEN [s EXCEPT !.me.at = "asserted"]
    ELSE [s EXCEPT !.me.listen = "freed",
                   !.net = [c \in Conns |-> IF @[c].queued = h THEN Shut(@[c], h) ELSE @[c]]]

(* Mutated form: the port is kept. *)
DisconnectedKeepsPort(s, h) ==
    LET t == HangUp(s, h)
    IN IF Dead(t) THEN t ELSE [t EXCEPT !.me.mode = "idle"]

(* network_disconnect *)
Disconnected(s, h) ==
    LET t == HangUp(s, h)
    IN IF Dead(t) THEN t
       ELSE IF t.me.mode = "connected" THEN [t EXCEPT !.me.mode = "server"]
       ELSE LET u == StopListening(t, h)
            IN IF Dead(u) THEN u ELSE [u EXCEPT !.me.mode = "idle"]
-----------------------------------------------------------------------------
(* The host waits for m no more, and carries on as me, with connections n. *)
Goes(h, me, n) == host' = [host EXCEPT ![h] = me] /\ net' = n

Running(h) == host[h].at = "run"
Me(h)      == [me |-> host[h], net |-> net]
Wire(h, c) == [net EXCEPT ![host[h].sock] = c]

(* network_start_server *)
StartServer(h) ==
    /\ Running(h) /\ host[h].mode = "idle" /\ host[h].trap = "none"
    /\ host[h].listen = "null" \/ "again" \in Acts
    /\ Goes(h, [host[h] EXCEPT !.listen = "open", !.mode = "server"], net)
    /\ UNCHANGED made

(* The port is in use: listen_socket is NULL again. *)
StartServerFails(h) ==
    /\ Running(h) /\ host[h].mode = "idle" /\ host[h].trap = "none"
    /\ "again" \in Acts /\ host[h].listen # "null"
    /\ Goes(h, [host[h] EXCEPT !.listen = "null"], net)
    /\ UNCHANGED made

(* network_connect_client, up to the snapshot. *)
Connect(h) ==
    /\ Running(h) /\ host[h].mode = "idle" /\ host[h].trap = "none"
    /\ host[h].sock = 0 \/ "again" \in Acts
    /\ host[Other(h)].listen = "open" /\ made < MaxConns
    /\ made' = made + 1
    /\ Goes(h, [host[h] EXCEPT !.sock = made', !.freed = FALSE, !.at = "snapshot"],
            [net EXCEPT ![made'] = [NoConn EXCEPT !.ends = Hosts, !.queued = Other(h)]])

(* Nobody listens: network_socket is NULL again. *)
ConnectRefused(h) ==
    /\ Running(h) /\ host[h].mode = "idle" /\ host[h].trap = "none"
    /\ "again" \in Acts /\ host[h].sock # 0
    /\ host[Other(h)].listen # "open"
    /\ Goes(h, [host[h] EXCEPT !.sock = 0, !.freed = FALSE], net)
    /\ UNCHANGED made

GetSnapshot(h) ==
    /\ host[h].at = "snapshot"
    /\ \/ /\ Comes(h, Snapshot)
          /\ Goes(h, [host[h] EXCEPT !.at = "run", !.trap = "join"], Wire(h, Taken(Conn(h), h)))
       \/ /\ Fails(h)
          /\ LET s == HangUp([me |-> [host[h] EXCEPT !.at = "run"], net |-> net], h)
             IN Goes(h, s.me, s.net)
    /\ UNCHANGED made

(* network_hook of a server that has no client: the trap runs before the next
   frame, the user interface possibly before that. *)
Accept(h) ==
    /\ Running(h) /\ host[h].mode = "server" /\ host[h].trap = "none"
    /\ \E c \in Conns :
           /\ net[c].queued = h /\ \A d \in Conns : net[d].queued = h => c <= d
           /\ Goes(h, [host[h] EXCEPT !.sock = c, !.freed = FALSE, !.trap = "serve"],
                   [net EXCEPT ![c].queued = "none"])
    /\ UNCHANGED made

(* network_server_connect_trap up to the first test packet.  The snapshot cannot
   be written, or not be sent; or it is sent, and then a test packet cannot be:
   either way nobody is told. *)
ServeWritesNothing(h) ==
    /\ Running(h) /\ host[h].trap = "serve" /\ "write" \in Failures
    /\ Goes(h, [host[h] EXCEPT !.trap = "none"], net)
    /\ UNCHANGED made

ServeSendsNothing(h) ==
    /\ Running(h) /\ host[h].trap = "serve" /\ Fails(h)
    /\ Goes(h, [host[h] EXCEPT !.trap = "none"], net)
    /\ UNCHANGED made

ServeTestFails(h) ==
    /\ Running(h) /\ host[h].trap = "serve"
    /\ Usable(h) /\ (Reset(h) \/ Other(h) \notin Conn(h).ends)
    /\ Goes(h, [host[h] EXCEPT !.trap = "none", !.mode = "connected"],
            Wire(h, Sent(Conn(h), h, <<>>)))
    /\ UNCHANGED made

Serve(h) ==
    /\ Running(h) /\ host[h].trap = "serve" /\ Usable(h)
    /\ Goes(h, [host[h] EXCEPT !.trap = "none", !.mode = "connected",
                               !.at = "echo", !.count = 1],
            Wire(h, Sent(Conn(h), h, <<Snapshot, Settings, Test>>)))
    /\ UNCHANGED made

(* Mutated form: one frame more than there are lists. *)
PreparedLate(me, d) == [me EXCEPT !.at = "run", !.delta = d, !.left = d]

(* network_init_frame_event_list: the buffer is full after d - 1 frames. *)
Prepared(me, d) == [me EXCEPT !.at = "run", !.delta = d, !.left = d - 1]

(* Mutated form: the server takes a delta of its own. *)
GetEchoOwnDelta(h) ==
    /\ host[h].at = "echo" /\ Comes(h, Echo)
    /\ LET c == Taken(Conn(h), h)
       IN IF host[h].count < Tests
          THEN Goes(h, [host[h] EXCEPT !.count = @ + 1], Wire(h, Sent(c, h, <<Test>>)))
          ELSE \E d, e \in Deltas : Goes(h, Prepared(host[h], e), Wire(h, Sent(c, h, <<Delta(d)>>)))
    /\ UNCHANGED made

(* Mutated form: one test packet too many. *)
GetEchoOnceMore(h) ==
    /\ host[h].at = "echo" /\ Comes(h, Echo)
    /\ LET c == Taken(Conn(h), h)
       IN IF host[h].count <= Tests
          THEN Goes(h, [host[h] EXCEPT !.count = @ + 1], Wire(h, Sent(c, h, <<Test>>)))
          ELSE \E d \in Deltas : Goes(h, Prepared(host[h], d), Wire(h, Sent(c, h, <<Delta(d)>>)))
    /\ UNCHANGED made

(* One more test packet, or the delta, which is as good as sent. *)
GetEcho(h) ==
    /\ host[h].at = "echo" /\ Comes(h, Echo)
    /\ LET c == Taken(Conn(h), h)
       IN IF host[h].count < Tests
          THEN Goes(h, [host[h] EXCEPT !.count = @ + 1], Wire(h, Sent(c, h, <<Test>>)))
          ELSE \E d \in Deltas : Goes(h, Prepared(host[h], d), Wire(h, Sent(c, h, <<Delta(d)>>)))
    /\ UNCHANGED made

(* network_client_connect_trap *)
Join(h) ==
    /\ Running(h) /\ host[h].trap = "join"
    /\ Goes(h, [host[h] EXCEPT !.trap = "none", !.at = "settings"], net)
    /\ UNCHANGED made

GetSettings(h) ==
    /\ host[h].at = "settings" /\ Comes(h, Settings)
    /\ \/ Goes(h, [host[h] EXCEPT !.mode = "client", !.at = "test", !.count = 1],
               Wire(h, Taken(Conn(h), h)))
       \/ /\ "read" \in Failures
          /\ Goes(h, [host[h] EXCEPT !.at = "run"], Wire(h, Taken(Conn(h), h)))
    /\ UNCHANGED made

GetTest(h) ==
    /\ host[h].at = "test" /\ Comes(h, Test)
    /\ Goes(h, [host[h] EXCEPT !.count = @ + 1,
                               !.at = IF host[h].count = Tests THEN "delta" ELSE "test"],
            Wire(h, Sent(Taken(Conn(h), h), h, <<Echo>>)))
    /\ UNCHANGED made

(* The result of the last receive is not looked at: the delta may be anything. *)
GetDelta(h) ==
    /\ host[h].at = "delta"
    /\ \E d \in Deltas :
           \/ Comes(h, Delta(d)) /\ Goes(h, Prepared(host[h], d), Wire(h, Taken(Conn(h), h)))
           \/ Fails(h) /\ Goes(h, Prepared(host[h], d), net)
    /\ UNCHANGED made

(* The other steps of connecting just end when a send or a receive fails. *)
ConnectingFails(h) ==
    /\ host[h].at \in {"settings", "echo", "test"} /\ Fails(h)
    /\ Goes(h, [host[h] EXCEPT !.at = "run"], net)
    /\ UNCHANGED made
-----------------------------------------------------------------------------
Playing(h) == Running(h) /\ host[h].trap = "none" /\ host[h].mode \in {"connected", "client"}

(* network_hook of a session: the event lists may not be there. *)
HookWithoutLists(h) ==
    /\ Playing(h) /\ host[h].delta = 0
    /\ Goes(h, [host[h] EXCEPT !.at = "crashed"], net)
    /\ UNCHANGED made

HookSend(h) ==
    /\ Playing(h) /\ host[h].delta # 0 /\ Usable(h)
    /\ Goes(h, IF host[h].left = 0 THEN [host[h] EXCEPT !.at = "frame"]
                                   ELSE [host[h] EXCEPT !.left = @ - 1],
            Wire(h, Sent(Conn(h), h, <<Frame>>)))
    /\ UNCHANGED made

(* network_disconnect, and then the receiving half of the hook all the same,
   which fails, and disconnects once more. *)
HookSendFails(h) ==
    /\ Playing(h) /\ host[h].delta # 0 /\ Fails(h)
    /\ LET s == Disconnected(Me(h), h)
           t == IF Dead(s) THEN s
                ELSE IF s.me.left = 0 THEN Disconnected(s, h)
                ELSE [s EXCEPT !.me.left = @ - 1]
       IN Goes(h, t.me, t.net)
    /\ UNCHANGED made

(* With machines out of sync the session ends. *)
GetFrame(h) ==
    /\ host[h].at = "frame" /\ Comes(h, Frame)
    /\ LET s == [me |-> [host[h] EXCEPT !.at = "run"], net |-> Wire(h, Taken(Conn(h), h))]
       IN \/ Goes(h, s.me, s.net)
          \/ LET t == Disconnected(s, h) IN Goes(h, t.me, t.net)
    /\ UNCHANGED made

(* Without the length of a list the session ends, without the list the hook. *)
GetFrameFails(h) ==
    /\ host[h].at = "frame" /\ Fails(h)
    /\ LET s == [me |-> [host[h] EXCEPT !.at = "run"], net |-> net]
       IN \/ Goes(h, s.me, s.net)
          \/ LET t == Disconnected(s, h) IN Goes(h, t.me, t.net)
    /\ UNCHANGED made
-----------------------------------------------------------------------------
UserDisconnects(h) ==
    /\ "disconnect" \in Acts /\ Running(h)
    /\ LET s == Disconnected(Me(h), h) IN Goes(h, s.me, s.net)
    /\ UNCHANGED made

(* The process ends, wherever it is, and with it its sockets. *)
Quit(h) ==
    /\ "quit" \in Acts /\ host[h].at \notin Ends
    /\ host' = [host EXCEPT ![h] = [Fresh EXCEPT !.at = "quit"]]
    /\ net' = [c \in Conns |-> IF h \in net[c].ends THEN Shut(net[c], h) ELSE net[c]]
    /\ UNCHANGED made

Step(h) == \/ GetSnapshot(h) \/ Accept(h)
           \/ ServeWritesNothing(h) \/ ServeSendsNothing(h) \/ ServeTestFails(h) \/ Serve(h)
           \/ GetEcho(h) \/ Join(h) \/ GetSettings(h) \/ GetTest(h) \/ GetDelta(h)
           \/ ConnectingFails(h)
           \/ HookWithoutLists(h) \/ HookSend(h) \/ HookSendFails(h)
           \/ GetFrame(h) \/ GetFrameFails(h)

Next == \E h \in Hosts :
            \/ Step(h)
            \/ StartServer(h) \/ StartServerFails(h) \/ Connect(h) \/ ConnectRefused(h)
            \/ UserDisconnects(h) \/ Quit(h)

Spec == Init /\ [][Next]_vars
-----------------------------------------------------------------------------
Alive(h) == host[h].at \notin Ends
Linked == \E c \in Conns :
              /\ net[c].ends = Hosts /\ ~net[c].reset
              /\ \A h \in Hosts : Usable(h) /\ host[h].sock = c
InSession(h) == host[h].mode \in {"connected", "client"}

(* Every field keeps its range, and a NULL socket is never a closed one. *)
TypeOK ==
    /\ \A h \in Hosts :
           /\ host[h].mode \in {"idle", "server", "connected", "client"}
           /\ host[h].listen \in {"null", "open", "freed"}
           /\ host[h].sock \in 0 .. made /\ (host[h].freed => host[h].sock # 0)
           /\ host[h].trap \in {"none", "serve", "join"}
           /\ host[h].at \in {"run"} \cup Waits \cup Ends
           /\ host[h].count \in 0 .. Tests + 1
           /\ host[h].delta \in {0} \cup Deltas 
           /\ host[h].delta # 0 => host[h].left < host[h].delta
    /\ made \in 0 .. MaxConns
    /\ \A c \in Conns : /\ net[c].ends \subseteq Hosts
                        /\ net[c].queued \in Hosts \cup {"none"}
                        /\ \A h \in Hosts : net[c].wire[h] \in Seq(Messages)

(* The mode says which sockets there are: the port is held while the mode is
   one of a server's, and free again when the emulator can become one. *)
ModeMatchesSockets ==
    \A h \in Hosts : Alive(h) =>
        (host[h].listen = "open" <=> host[h].mode \in {"server", "connected"})

(* Two emulators that are linked agree on the delay as soon as both have set up
   their lists, whatever either of them went through before. *)
SameDelta == Linked /\ (\A h \in Hosts : InSession(h) /\ host[h].at \in {"run", "frame"})
                 => host["a"].delta = host["b"].delta

(* What comes first on a connection is what the host is waiting for: no failure
   and no second attempt makes one read what was meant for another step. *)
StreamInStep ==
    \A h \in Hosts :
        Usable(h) /\ Conn(h).wire[h] # <<>> /\ host[h].at \in Waits
            => Head(Conn(h).wire[h])[1] = host[h].at

(* "assert(sockfd->used == 1)" (socket.c:935): no socket is closed twice. *)
ClosedOnce == \A h \in Hosts : host[h].at # "asserted"
=============================================================================
