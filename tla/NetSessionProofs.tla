---------------------------- MODULE NetSessionProofs ---------------------------
(***************************************************************************)
(* The safety properties of netplay sessions for every number of           *)
(* connections, test packets and delays, and whatever fails or is done     *)
(* again.  Each host is in a phase of the protocol on the connection of    *)
(* its socket, or has none; a phase says what may be on its way to the     *)
(* host, and the phases of two hosts at the ends of one connection go      *)
(* together in only a few ways.  Most of the invariant is about hosts that *)
(* are left alone: what closing an end may leave for the other one.        *)
(***************************************************************************)
EXTENDS NetSession, SequenceTheorems, TLAPS

HostRec == [mode : {"idle", "server", "connected", "client"},
            listen : {"null", "open", "freed"}, sock : Nat, freed : BOOLEAN,
            trap : {"none", "serve", "join"}, at : {"run"} \cup Waits \cup Ends,
            count : 0 .. Tests + 1, delta : {0} \cup Deltas, left : Nat]

ConnRec == [ends : SUBSET Hosts, queued : Hosts \cup {"none"}, reset : BOOLEAN,
            wire : [Hosts -> Seq(Messages)]]

(* The socket is one of a connection made, and the event lists are as many as
   the delta. *)
Fields(r, m) == /\ r.sock <= m /\ (r.freed => r.sock # 0)
                /\ r.delta # 0 => r.left < r.delta

Types == /\ host \in [Hosts -> HostRec] /\ net \in [Conns -> ConnRec] /\ made \in 0 .. MaxConns
         /\ \A h \in Hosts : Fields(host[h], made)

(* The phase of the protocol a host is in: what it waits for, or, while it runs,
   what it will do on its connection when the trap or the hook runs. *)
Phase(r) ==
    IF r.at \in {"snapshot", "settings", "test", "delta", "echo"} THEN r.at
    ELSE IF r.at \notin {"run", "frame"} THEN "none"
    ELSE IF r.trap = "join" THEN "settings"
    ELSE IF r.trap = "serve" THEN "serve"
    ELSE IF r.mode = "client" THEN "client"
    ELSE IF r.mode = "connected" THEN "server" ELSE "none"

InPlay == {"client", "server"}

On(h, c) == Usable(h) /\ host[h].sock = c /\ Phase(host[h]) # "none"

(* What a host does not do in a mode, and the port. *)
Steady(r) ==
    r.at \notin Ends =>
    /\ r.listen = "open" <=> r.mode \in {"server", "connected"}
    /\ r.at \in {"snapshot", "settings"} => r.mode = "idle"
    /\ r.at \in {"test", "delta"} => r.mode = "client"
    /\ r.at = "echo" => r.mode = "connected"
    /\ r.at = "frame" => r.mode \in {"connected", "client"}
    /\ r.trap = "join" => r.mode = "idle"
    /\ r.trap = "serve" => r.sock # 0 /\ (r.freed \/ r.mode = "server")
    /\ r.trap # "none" => r.at = "run" /\ r.mode \in {"idle", "server"}
    /\ r.at \in {"test", "echo"} => r.count \in 1 .. Tests

Held(h) == Usable(h) => h \in Conn(h).ends

(* A connection that waits to be accepted: nothing has been sent on it, and the
   client, if it is still there, waits for the snapshot. *)
Queue(c) ==
    /\ net[c].queued # "none" =>
           /\ c <= made /\ net[c].queued \in net[c].ends /\ \A h \in Hosts : net[c].wire[h] = <<>>
           /\ host[net[c].queued].sock # c
           /\ On(Other(net[c].queued), c) => Phase(host[Other(net[c].queued)]) = "snapshot"
    /\ net[c].reset => net[c].ends # Hosts

FramesFrom(w, i) == \A j \in i .. Len(w) : w[j] = Frame

(* What may be on its way to a host in a phase. *)
Fits(p, w, reset) ==
    /\ p = "snapshot" => w = <<>> \/ w = <<Snapshot, Settings, Test>>
    /\ p = "settings" => w = <<Settings, Test>>
    /\ p = "test" => w = <<>> \/ w = <<Test>>
    /\ p = "delta" /\ w # <<>> => (\E d \in Deltas : w[1] = Delta(d)) /\ FramesFrom(w, 2)
    /\ p = "serve" => w = <<>>
    /\ p = "echo" => w = <<>> \/ w = <<Echo>>
    /\ p \in InPlay => FramesFrom(w, 1)
    /\ p \notin InPlay /\ reset => w = <<>>

(* A host whose other side neither takes part nor has closed its end gets
   nothing before it plays. *)
Quiet(h) ==
    Other(h) \in Conn(h).ends /\ ~On(Other(h), host[h].sock) /\ Phase(host[h]) \notin InPlay
        => Conn(h).wire[h] = <<>>

Good(h) ==
    On(h, host[h].sock) =>
        Fits(Phase(host[h]), Conn(h).wire[h], Conn(h).reset) /\ Quiet(h)

(* How far a client k and a server s are at the ends of a connection, by what is
   on its way to them. *)
Joint(k, s, wk, ws) ==
    \/ Phase(k) = "snapshot" /\ Phase(s) = "serve" /\ wk = <<>> /\ ws = <<>>
    \/ Phase(k) = "snapshot" /\ Phase(s) = "echo" /\ wk # <<>> /\ ws = <<>> /\ s.count = 1
    \/ Phase(k) = "settings" /\ Phase(s) = "echo" /\ ws = <<>> /\ s.count = 1
    \/ Phase(k) = "test" /\ Phase(s) = "echo" /\ wk # <<>> /\ ws = <<>> /\ k.count = s.count
    \/ Phase(k) = "test" /\ Phase(s) = "echo" /\ wk = <<>> /\ ws # <<>> /\ k.count = s.count + 1
    \/ Phase(k) = "delta" /\ Phase(s) = "echo" /\ wk = <<>> /\ ws # <<>> /\ s.count = Tests
    \/ Phase(k) = "delta" /\ Phase(s) = "server" /\ wk # <<>> /\ ws = <<>>
          /\ s.delta # 0 /\ wk[1] = Delta(s.delta)
    \/ Phase(k) = "client" /\ Phase(s) = "server" /\ s.delta # 0 /\ k.delta = s.delta

Match(x, y, wx, wy) == Joint(x, y, wx, wy) \/ Joint(y, x, wy, wx)

Together(h) ==
    On(h, host[h].sock) /\ On(Other(h), host[h].sock) =>
        Match(host[h], host[Other(h)], Conn(h).wire[h], Conn(h).wire[Other(h)])

(* A connection whose end of h is closed, and one of which h has read. *)
Closed(n, m, h) ==
    /\ m \in ConnRec /\ h \in n.ends /\ m.ends = n.ends \ {h}
    /\ m.wire[h] = <<>> /\ m.wire[Other(h)] = n.wire[Other(h)]
    /\ m.queued = IF n.queued = h THEN "none" ELSE n.queued
    /\ m.reset => n.reset \/ n.wire[h] # <<>> \/ n.queued = h

Near(n, m, h) ==
    /\ m \in ConnRec /\ m.ends = n.ends /\ m.queued = n.queued /\ m.reset = n.reset
    /\ m.wire[h] # <<>> => n.wire[h] # <<>>
    /\ m.wire[Other(h)] = n.wire[Other(h)]

(* s is a host and the connections in the middle of a handler that closes. *)
Gone(r) == r.sock = 0 \/ r.freed

Leaving(s, h) ==
    /\ s \in [me : HostRec, net : [Conns -> ConnRec]]
    /\ Fields(s.me, made) /\ s.me.sock \in {0, host[h].sock}
    /\ \A c \in Conns : \/ s.net[c] = net[c] \/ Closed(net[c], s.net[c], h)
                        \/ ~Gone(s.me) /\ c = s.me.sock
    /\ Usable(h) /\ Gone(s.me) => Closed(Conn(h), s.net[host[h].sock], h)
    /\ ~Gone(s.me) => Usable(h) /\ Near(Conn(h), s.net[host[h].sock], h)

(* What a step on its connection must leave to be right: h becomes r, and the
   connection d. *)
Right(h, r, d) ==
    /\ Phase(r) # "none" => Fits(Phase(r), d.wire[h], d.reset)
    /\ Other(h) \in d.ends /\ ~On(Other(h), host[h].sock) /\ Phase(r) \notin InPlay \cup {"none"}
          => d.wire[h] = <<>>
    /\ On(Other(h), host[h].sock) =>
          /\ Fits(Phase(host[Other(h)]), d.wire[Other(h)], FALSE)
          /\ Phase(r) # "none" => Match(r, host[Other(h)], d.wire[h], d.wire[Other(h)])
          /\ Phase(r) = "none" => Phase(host[Other(h)]) \in InPlay \/ d.wire[Other(h)] = <<>>

IInv == /\ Types /\ \A c \in Conns : Queue(c)
        /\ \A h \in Hosts : Steady(host[h]) /\ Held(h) /\ Good(h) /\ Together(h)
-----------------------------------------------------------------------------
(* The other of two hosts. *)
LEMMA Others ==
    /\ Hosts = {"a", "b"} /\ Other("a") = "b" /\ Other("b") = "a"
    /\ \A h \in Hosts : Other(h) \in Hosts /\ Other(h) # h /\ Other(Other(h)) = h
                        /\ Hosts = {h, Other(h)}
<1>1. Other("a") = "b"
  BY DEF Other, Hosts
<1>2. Other("b") = "a"
  BY DEF Other, Hosts
<1> QED
  BY <1>1, <1>2 DEF Hosts

(* The connection of a usable socket. *)
LEMMA SockConn ==
    ASSUME Types, NEW h \in Hosts, Usable(h)
    PROVE  host[h].sock \in Conns /\ Conn(h) \in ConnRec /\ host[h] \in HostRec
<1>1. host[h] \in HostRec /\ host[h].sock \in Nat /\ host[h].sock <= made /\ host[h].sock # 0
  BY DEF Types, HostRec, Fields, Usable
<1>2. made <= MaxConns /\ made \in Nat /\ MaxConns \in Nat
  BY NetSessionAssumption DEF Types
<1>3. host[h].sock \in Conns
  BY <1>1, <1>2 DEF Conns
<1> QED
  BY <1>1, <1>3 DEF Types, Conn

(* The messages of the protocol, and the streams they come in. *)
LEMMA Messages1 ==
    /\ Snapshot \in Messages /\ Settings \in Messages /\ Test \in Messages
    /\ Echo \in Messages /\ Frame \in Messages /\ \A d \in Deltas : Delta(d) \in Messages
    /\ Snapshot # Settings /\ Snapshot # Test /\ Settings # Test /\ Echo # Frame
    /\ Snapshot # Frame /\ Settings # Frame /\ Test # Frame
    /\ Snapshot[1] = "snapshot" /\ Settings[1] = "settings" /\ Test[1] = "test"
    /\ Echo[1] = "echo" /\ Frame[1] = "frame"
    /\ \A d : Delta(d)[1] = "delta" /\ Delta(d)[2] = d
  BY DEF Messages, Snapshot, Settings, Test, Echo, Frame, Delta

LEMMA Streams ==
    /\ <<>> \in Seq(Messages) /\ <<Test>> \in Seq(Messages) /\ <<Echo>> \in Seq(Messages)
    /\ <<Frame>> \in Seq(Messages) /\ \A d \in Deltas : <<Delta(d)>> \in Seq(Messages)
    /\ <<Snapshot, Settings, Test>> \in Seq(Messages)
    /\ Head(<<Snapshot, Settings, Test>>) = Snapshot
    /\ Tail(<<Snapshot, Settings, Test>>) = <<Settings, Test>>
    /\ Head(<<Settings, Test>>) = Settings /\ Tail(<<Settings, Test>>) = <<Test>>
    /\ Head(<<Test>>) = Test /\ Tail(<<Test>>) = <<>>
    /\ Head(<<Echo>>) = Echo /\ Tail(<<Echo>>) = <<>>
    /\ <<Snapshot, Settings, Test>> # <<>> /\ <<Settings, Test>> # <<>>
    /\ <<Test>> # <<>> /\ <<Echo>> # <<>> /\ <<Frame>> # <<>> /\ \A d : <<Delta(d)>> # <<>>
<1>1. /\ Snapshot \in Messages /\ Settings \in Messages /\ Test \in Messages
      /\ Echo \in Messages /\ Frame \in Messages /\ \A d \in Deltas : Delta(d) \in Messages
  BY Messages1
<1> HIDE DEF Snapshot, Settings, Test, Echo, Frame, Delta
<1>2. /\ <<>> \in Seq(Messages) /\ <<Test>> \in Seq(Messages) /\ <<Echo>> \in Seq(Messages)
      /\ <<Frame>> \in Seq(Messages) /\ <<Snapshot, Settings, Test>> \in Seq(Messages)
  BY <1>1
<1>3. ASSUME NEW d \in Deltas PROVE <<Delta(d)>> \in Seq(Messages)
  <2>1. Delta(d) \in Messages
    BY <1>1
  <2> QED
    BY <2>1
<1>4. /\ Head(<<Snapshot, Settings, Test>>) = Snapshot
      /\ Head(<<Settings, Test>>) = Settings /\ Head(<<Test>>) = Test /\ Head(<<Echo>>) = Echo
  OBVIOUS
<1>5. /\ Tail(<<Snapshot, Settings, Test>>) = <<Settings, Test>>
      /\ Tail(<<Settings, Test>>) = <<Test>>
      /\ Tail(<<Test>>) = <<>> /\ Tail(<<Echo>>) = <<>>
  OBVIOUS
<1>6. /\ <<Snapshot, Settings, Test>> # <<>> /\ <<Settings, Test>> # <<>>
      /\ <<Test>> # <<>> /\ <<Echo>> # <<>> /\ <<Frame>> # <<>> /\ \A d : <<Delta(d)>> # <<>>
  OBVIOUS
<1> QED
  BY <1>2, <1>3, <1>4, <1>5, <1>6

(* What is appended to an empty stream, and to one of frames. *)
LEMMA Appended ==
    ASSUME NEW w \in Seq(Messages), NEW ms \in Seq(Messages)
    PROVE  /\ w \o ms \in Seq(Messages)
           /\ w = <<>> => w \o ms = ms
           /\ ms = <<>> => w \o ms = w
           /\ w # <<>> => w \o ms # <<>> /\ (w \o ms)[1] = w[1]
           /\ \A i \in Nat \ {0} : FramesFrom(w, i) /\ ms = <<Frame>> => FramesFrom(w \o ms, i)
<1>1. /\ w \o ms \in Seq(Messages) /\ Len(w \o ms) = Len(w) + Len(ms)
      /\ Len(w) \in Nat /\ Len(ms) \in Nat
      /\ \A i \in 1 .. Len(w) : (w \o ms)[i] = w[i]
      /\ \A i \in 1 .. Len(ms) : (w \o ms)[Len(w) + i] = ms[i]
  BY ConcatProperties, LenProperties
<1>2. (w = <<>> => w \o ms = ms) /\ (ms = <<>> => w \o ms = w)
  BY ConcatEmptySeq
<1>3. w # <<>> => w \o ms # <<>> /\ (w \o ms)[1] = w[1]
  BY <1>1, EmptySeq
<1>4. ASSUME NEW i \in Nat \ {0}, FramesFrom(w, i), ms = <<Frame>>,
             NEW j \in i .. Len(w \o ms)
      PROVE  (w \o ms)[j] = Frame
  <2>1. Len(ms) = 1 /\ ms[1] = Frame
    BY <1>4
  <2>2. j \in 1 .. Len(w) \/ j = Len(w) + 1
    BY <1>1, <2>1
  <2>3. CASE j \in 1 .. Len(w)
    BY <1>1, <1>4, <2>3 DEF FramesFrom
  <2>4. CASE j = Len(w) + 1
    BY <1>1, <2>1, <2>4
  <2> QED
    BY <2>2, <2>3, <2>4
<1> QED
  BY <1>1, <1>2, <1>3, <1>4 DEF FramesFrom

(* What a message taken leaves. *)
LEMMA Shortened ==
    ASSUME NEW w \in Seq(Messages), w # <<>>
    PROVE  /\ Tail(w) \in Seq(Messages) /\ Head(w) = w[1]
           /\ FramesFrom(w, 1) => FramesFrom(Tail(w), 1)
           /\ FramesFrom(w, 2) => FramesFrom(Tail(w), 1)
<1>1. /\ Tail(w) \in Seq(Messages) /\ Len(Tail(w)) = Len(w) - 1 /\ Len(w) \in Nat
      /\ \A i \in 1 .. Len(Tail(w)) : Tail(w)[i] = w[i + 1]
  BY HeadTailProperties, LenProperties
<1>2. \A i \in 1 .. Len(Tail(w)) : i + 1 \in 2 .. Len(w) /\ i + 1 \in 1 .. Len(w)
  BY <1>1
<1>3. Head(w) = w[1]
  BY <1>1
<1> QED
  BY <1>1, <1>2, <1>3 DEF FramesFrom

(* A stream whose first message is that of a step, and the phase it fits. *)
LEMMA Firsts ==
    ASSUME NEW p, NEW w \in Seq(Messages), NEW reset, w # <<>>, Fits(p, w, reset), p \notin InPlay
    PROVE  /\ ~reset
           /\ p = "snapshot" => w = <<Snapshot, Settings, Test>>
           /\ p = "settings" => w = <<Settings, Test>>
           /\ p = "test" => w = <<Test>>
           /\ p = "echo" => w = <<Echo>>
           /\ p # "serve"
  BY DEF Fits

(* The connection after a send: the other end has the messages, or nobody. *)
LEMMA SentFields ==
    ASSUME NEW n \in ConnRec, NEW h \in Hosts, NEW ms \in Seq(Messages)
    PROVE  /\ Sent(n, h, ms) \in ConnRec
           /\ Sent(n, h, ms).ends = n.ends /\ Sent(n, h, ms).queued = n.queued
           /\ Sent(n, h, ms).wire[h] = n.wire[h]
           /\ Other(h) \in n.ends =>
                 /\ Sent(n, h, ms).wire[Other(h)] = n.wire[Other(h)] \o ms
                 /\ Sent(n, h, ms).reset = n.reset
           /\ Other(h) \notin n.ends =>
                 /\ Sent(n, h, ms).wire[Other(h)] = n.wire[Other(h)]
                 /\ Sent(n, h, ms).reset
<1>1. Other(h) \in Hosts /\ Other(h) # h
  BY Others
<1>2. n.wire \in [Hosts -> Seq(Messages)] /\ n.wire[Other(h)] \o ms \in Seq(Messages)
  BY <1>1, Appended DEF ConnRec
<1>3. CASE Other(h) \in n.ends
  <2> DEFINE w == [n.wire EXCEPT ![Other(h)] = n.wire[Other(h)] \o ms]
  <2>1. Sent(n, h, ms) = [n EXCEPT !.wire = w]
    BY <1>3 DEF Sent, ConnRec
  <2>2. w \in [Hosts -> Seq(Messages)] /\ w[h] = n.wire[h] /\ w[Other(h)] = n.wire[Other(h)] \o ms
    BY <1>1, <1>2
  <2> HIDE DEF w
  <2> QED
    BY <1>3, <2>1, <2>2 DEF ConnRec
<1>4. CASE Other(h) \notin n.ends
  BY <1>4 DEF Sent, ConnRec
<1> QED
  BY <1>3, <1>4

(* The connection after a receive. *)
LEMMA TakenFields ==
    ASSUME NEW n \in ConnRec, NEW h \in Hosts, n.wire[h] # <<>>
    PROVE  /\ Taken(n, h) \in ConnRec
           /\ Taken(n, h).ends = n.ends /\ Taken(n, h).queued = n.queued
           /\ Taken(n, h).reset = n.reset
           /\ Taken(n, h).wire[h] = Tail(n.wire[h])
           /\ Taken(n, h).wire[Other(h)] = n.wire[Other(h)]
<1>1. Other(h) \in Hosts /\ Other(h) # h
  BY Others
<1>2. n.wire \in [Hosts -> Seq(Messages)] /\ Tail(n.wire[h]) \in Seq(Messages)
  BY Shortened DEF ConnRec
<1> DEFINE w == [n.wire EXCEPT ![h] = Tail(n.wire[h])]
<1>3. Taken(n, h) = [n EXCEPT !.wire = w]
  BY DEF Taken, ConnRec
<1>4. /\ w \in [Hosts -> Seq(Messages)] /\ w[h] = Tail(n.wire[h])
      /\ w[Other(h)] = n.wire[Other(h)]
  BY <1>1, <1>2
<1> HIDE DEF w
<1> QED
  BY <1>3, <1>4 DEF ConnRec

(* The connection after its end is closed. *)
LEMMA ShutFields ==
    ASSUME NEW n \in ConnRec, NEW m, NEW h \in Hosts, Near(n, m, h), h \in n.ends
    PROVE  Closed(n, Shut(m, h), h)
<1>1. Other(h) \in Hosts /\ Other(h) # h
  BY Others
<1>2. m \in ConnRec /\ m.wire \in [Hosts -> Seq(Messages)] /\ <<>> \in Seq(Messages)
  BY Streams DEF ConnRec, Near
<1> DEFINE w == [m.wire EXCEPT ![h] = <<>>]
           r == m.reset \/ m.wire[h] # <<>> \/ m.queued = h
           q == IF m.queued = h THEN "none" ELSE m.queued
<1>3. Shut(m, h) = [m EXCEPT !.ends = m.ends \ {h}, !.wire = w, !.reset = r, !.queued = q]
  BY <1>2 DEF Shut, ConnRec
<1>4. w \in [Hosts -> Seq(Messages)] /\ w[h] = <<>> /\ w[Other(h)] = m.wire[Other(h)]
  BY <1>1, <1>2
<1>5. r \in BOOLEAN /\ q \in Hosts \cup {"none"} /\ m.ends \ {h} \in SUBSET Hosts
  BY <1>2 DEF ConnRec
<1>6. r => n.reset \/ n.wire[h] # <<>> \/ n.queued = h
  BY DEF Near
<1>7. q = IF n.queued = h THEN "none" ELSE n.queued
  BY DEF Near
<1> HIDE DEF w, r, q
<1>8. /\ Shut(m, h) \in ConnRec /\ Shut(m, h).ends = m.ends \ {h} /\ Shut(m, h).wire = w
      /\ Shut(m, h).reset = r /\ Shut(m, h).queued = q
  BY <1>2, <1>3, <1>4, <1>5 DEF ConnRec
<1> QED
  BY <1>4, <1>6, <1>7, <1>8 DEF Closed, Near

(* A host that hangs up has no socket that is in use; only the assertion may
   end its run. *)
LEMMA HangingUp ==
    ASSUME IInv, NEW h \in Hosts, NEW s, Leaving(s, h), s.me.at = "run"
    PROVE  LET t == HangUp(s, h)
           IN /\ Leaving(t, h) /\ Gone(t.me) /\ t.me.at \in {"run", "asserted"}
              /\ \A f \in {"mode", "listen", "trap", "count", "delta", "left", "sock"} :
                     t.me[f] = s.me[f]
<1> DEFINE t == HangUp(s, h)
<1>1. CASE s.me.sock = 0
  BY <1>1 DEF HangUp, Gone
<1>2. CASE s.me.sock # 0 /\ s.me.freed
  BY <1>2 DEF HangUp, Gone, Leaving, HostRec, Ends, Fields
<1>3. CASE s.me.sock # 0 /\ ~s.me.freed
  <2>1. /\ Usable(h) /\ host[h].sock = s.me.sock /\ s.me.sock \in Conns
        /\ Conn(h) \in ConnRec /\ Conn(h) = net[s.me.sock] /\ h \in Conn(h).ends
    BY <1>3, SockConn DEF IInv, Leaving, Gone, Held, Conn
  <2>2. Closed(Conn(h), Shut(s.net[s.me.sock], h), h)
    BY <1>3, <2>1, ShutFields DEF Leaving, Gone
  <2>3. t = [me |-> [s.me EXCEPT !.freed = TRUE],
             net |-> [s.net EXCEPT ![s.me.sock] = Shut(s.net[s.me.sock], h)]]
    BY <1>3 DEF HangUp, Leaving
  <2>r. s.me \in HostRec /\ t.me = [s.me EXCEPT !.freed = TRUE]
    BY <2>3 DEF Leaving
  <2>4. t.me \in HostRec /\ Fields(t.me, made) /\ Gone(t.me) /\ t.me.sock = s.me.sock
    BY <1>3, <2>r DEF Leaving, HostRec, Fields, Gone
  <2>5. t.net \in [Conns -> ConnRec] /\ t.net[s.me.sock] = Shut(s.net[s.me.sock], h)
    BY <2>1, <2>2, <2>3 DEF Leaving, Closed
  <2>6. \A c \in Conns : t.net[c] = net[c] \/ Closed(net[c], t.net[c], h)
    BY <2>1, <2>2, <2>3, <2>5 DEF Leaving
  <2>7. Leaving(t, h)
    BY <2>1, <2>2, <2>3, <2>4, <2>5, <2>6 DEF Leaving
  <2> QED
    BY <2>r, <2>4, <2>7 DEF HostRec
<1> QED
  BY <1>1, <1>2, <1>3

(* A host that stops listening closes what waits to be accepted by it. *)
LEMMA Stopping ==
    ASSUME IInv, NEW h \in Hosts, NEW s, Leaving(s, h), Gone(s.me), s.me.at = "run"
    PROVE  LET t == StopListening(s, h)
           IN /\ Leaving(t, h) /\ Gone(t.me) /\ t.me.at \in {"run", "asserted"}
              /\ t.me.at = "run" => t.me.listen # "open"
              /\ \A f \in {"mode", "trap", "count", "delta", "left", "sock", "freed"} :
                     t.me[f] = s.me[f]
<1> DEFINE t == StopListening(s, h)
<1>1. CASE s.me.listen = "null"
  BY <1>1 DEF StopListening
<1>2. CASE s.me.listen = "freed"
  BY <1>2 DEF StopListening, Gone, Leaving, HostRec, Ends, Fields
<1>3. CASE s.me.listen \notin {"null", "freed"}
  <2>1. t = [me |-> [s.me EXCEPT !.listen = "freed"],
             net |-> [c \in Conns |-> IF s.net[c].queued = h THEN Shut(s.net[c], h) ELSE s.net[c]]]
    BY <1>3 DEF StopListening, Leaving
  <2>2. t.me \in HostRec /\ Fields(t.me, made) /\ Gone(t.me) /\ t.me.sock = s.me.sock
    BY <2>1 DEF Leaving, HostRec, Fields, Gone
  <2>3. ASSUME NEW c \in Conns, s.net[c].queued = h
        PROVE  Closed(net[c], t.net[c], h)
    <3>1. h # "none" /\ net[c] \in ConnRec
      BY DEF Hosts, IInv, Types
    <3>2. s.net[c] = net[c]
      BY <2>3, <3>1 DEF Leaving, Closed
    <3>3. h \in net[c].ends
      BY <2>3, <3>1, <3>2 DEF IInv, Queue
    <3> QED
      BY <2>1, <2>3, <3>1, <3>2, <3>3, ShutFields DEF Near
  <2>4. \A c \in Conns : t.net[c] = net[c] \/ Closed(net[c], t.net[c], h)
    BY <2>1, <2>3 DEF Leaving
  <2>5. t.net \in [Conns -> ConnRec]
    BY <2>1, <2>3 DEF Leaving, Closed
  <2>6. Usable(h) => Closed(Conn(h), t.net[host[h].sock], h)
    BY <2>1, <2>3, SockConn DEF Leaving, Conn, IInv
  <2>7. Leaving(t, h)
    BY <2>1, <2>2, <2>4, <2>5, <2>6 DEF Leaving
  <2> QED
    BY <1>3, <2>1, <2>2, <2>7 DEF Leaving, HostRec
<1> QED
  BY <1>1, <1>2, <1>3

(* network_disconnect leaves a host without a connection, and with a port that
   its mode accounts for. *)
LEMMA Disconnecting ==
    ASSUME IInv, NEW h \in Hosts, NEW s, Leaving(s, h), s.me.at = "run", Steady(s.me)
    PROVE  LET t == Disconnected(s, h)
           IN /\ Leaving(t, h) /\ Gone(t.me) /\ t.me.at \in {"run", "asserted"}
              /\ Steady(t.me) /\ t.me.left = s.me.left /\ t.me.delta = s.me.delta
<1> DEFINE t == HangUp(s, h)
           u == StopListening(t, h)
           v == Disconnected(s, h)
<1>1. /\ Leaving(t, h) /\ Gone(t.me) /\ t.me.at \in {"run", "asserted"}
      /\ t.me.mode = s.me.mode /\ t.me.listen = s.me.listen /\ t.me.trap = s.me.trap
      /\ t.me.delta = s.me.delta /\ t.me.left = s.me.left /\ t.me.sock = s.me.sock
  BY HangingUp
<1>2. CASE t.me.at = "asserted"
  <2>1. v = t
    BY <1>2 DEF Disconnected, Dead, Ends
  <2>2. Steady(t.me)
    BY <1>2 DEF Steady, Ends
  <2> QED
    BY <1>1, <2>1, <2>2
<1>3. CASE t.me.at = "run" /\ t.me.mode = "connected"
  <2>1. v = [me |-> [t.me EXCEPT !.mode = "server"], net |-> t.net]
    BY <1>1, <1>3 DEF Disconnected, Dead, Ends, Leaving
  <2>2. Leaving(v, h) /\ Gone(v.me)
    BY <1>1, <2>1 DEF Leaving, Gone, HostRec, Fields
  <2>3. Steady(v.me)
    BY <1>1, <1>3, <2>1 DEF Steady, Ends, Leaving, HostRec
  <2> QED
    BY <1>1, <2>1, <2>2, <2>3 DEF Leaving, HostRec
<1>4. CASE t.me.at = "run" /\ t.me.mode # "connected"
  <2>1. /\ Leaving(u, h) /\ Gone(u.me) /\ u.me.at \in {"run", "asserted"}
        /\ u.me.at = "run" => u.me.listen # "open"
        /\ u.me.trap = s.me.trap /\ u.me.sock = s.me.sock
        /\ u.me.delta = s.me.delta /\ u.me.left = s.me.left
    BY <1>1, <1>4, Stopping
  <2>2. CASE u.me.at = "asserted"
    <3>1. v = u
      BY <1>4, <2>2 DEF Disconnected, Dead, Ends
    <3>2. Steady(u.me)
      BY <2>2 DEF Steady, Ends
    <3> QED
      BY <2>1, <3>1, <3>2
  <2>3. CASE u.me.at = "run"
    <3>1. v = [me |-> [u.me EXCEPT !.mode = "idle"], net |-> u.net]
      BY <1>4, <2>1, <2>3 DEF Disconnected, Dead, Ends, Leaving
    <3>2. Leaving(v, h) /\ Gone(v.me)
      BY <2>1, <3>1 DEF Leaving, Gone, HostRec, Fields
    <3>3. Steady(v.me)
      BY <2>1, <2>3, <3>1 DEF Steady, Ends, Leaving, HostRec, Gone
    <3> QED
      BY <2>1, <3>1, <3>2, <3>3 DEF Leaving, HostRec
  <2> QED
    BY <2>1, <2>2, <2>3
<1> QED
  BY <1>1, <1>2, <1>3, <1>4
-----------------------------------------------------------------------------
(* A host on its connection: nobody waits to accept it once something is on it,
   and with both there neither has been reset. *)
LEMMA Ours ==
    ASSUME IInv, NEW h \in Hosts, Usable(h), Phase(host[h]) # "none"
    PROVE  /\ host[h] \in HostRec /\ host[h].sock \in Conns
           /\ Conn(h) \in ConnRec /\ Conn(h) = net[host[h].sock]
           /\ Conn(h).wire[h] \in Seq(Messages) /\ Conn(h).wire[Other(h)] \in Seq(Messages)
           /\ h \in Conn(h).ends /\ On(h, host[h].sock)
           /\ Fits(Phase(host[h]), Conn(h).wire[h], Conn(h).reset) /\ Quiet(h)
           /\ Conn(h).reset => Other(h) \notin Conn(h).ends
           /\ Phase(host[h]) # "snapshot" \/ Conn(h).wire[h] # <<>> => Conn(h).queued = "none"
           /\ On(Other(h), host[h].sock) =>
                 /\ host[Other(h)].sock = host[h].sock /\ Usable(Other(h))
                 /\ Phase(host[Other(h)]) # "none" /\ host[Other(h)] \in HostRec
                 /\ Other(h) \in Conn(h).ends /\ ~Conn(h).reset
                 /\ Fits(Phase(host[Other(h)]), Conn(h).wire[Other(h)], FALSE)
                 /\ Match(host[h], host[Other(h)], Conn(h).wire[h], Conn(h).wire[Other(h)])
<1> DEFINE g == Other(h)
           c == host[h].sock
<1>1. g \in Hosts /\ g # h /\ Other(g) = h /\ Hosts = {h, g}
  BY Others
<1>2. /\ host[h] \in HostRec /\ c \in Conns /\ Conn(h) \in ConnRec /\ Conn(h) = net[c]
      /\ host[g] \in HostRec
  BY <1>1, SockConn DEF IInv, Types, Conn
<1>3. Conn(h).wire[h] \in Seq(Messages) /\ Conn(h).wire[g] \in Seq(Messages)
  BY <1>1, <1>2 DEF ConnRec
<1>4. On(h, c) /\ h \in Conn(h).ends
  BY DEF IInv, Held, On
<1>5. Fits(Phase(host[h]), Conn(h).wire[h], Conn(h).reset) /\ Quiet(h)
  BY <1>4 DEF IInv, Good
<1>6. Queue(c)
  BY <1>2 DEF IInv
<1>7. Conn(h).reset => g \notin Conn(h).ends
  <2>1. Conn(h).ends \subseteq {h, g}
    BY <1>1, <1>2 DEF ConnRec
  <2>2. Conn(h).reset => Conn(h).ends # {h, g}
    BY <1>1, <1>2, <1>6 DEF Queue
  <2> QED
    BY <1>4, <2>1, <2>2
<1>8. Phase(host[h]) # "snapshot" \/ Conn(h).wire[h] # <<>> => Conn(h).queued = "none"
  <2>1. Conn(h).queued \in {h, g, "none"}
    BY <1>1, <1>2 DEF ConnRec
  <2>2. Conn(h).queued # h
    BY <1>2, <1>6 DEF Queue, Hosts
  <2>3. CASE Conn(h).queued = g
    BY <1>1, <1>2, <1>4, <1>6, <2>3 DEF Queue, Hosts
  <2> QED
    BY <2>1, <2>2, <2>3
<1>9. ASSUME On(g, c)
      PROVE  /\ host[g].sock = c /\ Usable(g) /\ Phase(host[g]) # "none"
             /\ g \in Conn(h).ends /\ ~Conn(h).reset
             /\ Fits(Phase(host[g]), Conn(h).wire[g], FALSE)
             /\ Match(host[h], host[g], Conn(h).wire[h], Conn(h).wire[g])
  <2>1. host[g].sock = c /\ Usable(g) /\ Phase(host[g]) # "none" /\ Conn(g) = Conn(h)
    BY <1>9 DEF On, Conn
  <2>2. g \in Conn(h).ends
    BY <1>1, <2>1 DEF IInv, Held
  <2>3. ~Conn(h).reset /\ Conn(h).reset \in BOOLEAN
    BY <1>2, <1>7, <2>2 DEF ConnRec
  <2>4. Fits(Phase(host[g]), Conn(h).wire[g], Conn(h).reset)
    BY <1>1, <1>9, <2>1 DEF IInv, Good
  <2>5. Match(host[h], host[g], Conn(h).wire[h], Conn(h).wire[g])
    BY <1>4, <1>9 DEF IInv, Together
  <2> QED
    BY <2>1, <2>2, <2>3, <2>4, <2>5
<1> QED
  BY <1>2, <1>3, <1>4, <1>5, <1>7, <1>8, <1>9

(* A step of a host on its connection, and on nothing else. *)
LEMMA StepOwn ==
    ASSUME IInv, NEW h \in Hosts, NEW r \in HostRec, NEW d \in ConnRec,
           Usable(h), Phase(host[h]) # "none",
           Fields(r, made), Steady(r), r.sock = host[h].sock, ~r.freed,
           host' = [host EXCEPT ![h] = r], net' = [net EXCEPT ![host[h].sock] = d], made' = made,
           d.ends = Conn(h).ends, d.queued = "none",
           d.reset => Conn(h).reset \/ Other(h) \notin Conn(h).ends,
           Right(h, r, d)
    PROVE  IInv'
<1> DEFINE g == Other(h)
           c == host[h].sock
<1>1. g \in Hosts /\ g # h /\ Other(g) = h /\ Hosts = {h, g} /\ Other(h) = g
  BY Others
<1>2. /\ c \in Conns /\ Conn(h) = net[c] /\ h \in Conn(h).ends /\ Conn(h) \in ConnRec
      /\ Conn(h).reset => g \notin Conn(h).ends
      /\ On(g, c) => g \in Conn(h).ends /\ ~Conn(h).reset
  BY Ours
<1>3. /\ host' \in [Hosts -> HostRec] /\ net' \in [Conns -> ConnRec]
      /\ host'[h] = r /\ host'[g] = host[g] /\ net'[c] = d
      /\ \A e \in Conns : e # c => net'[e] = net[e]
  BY <1>1, <1>2 DEF IInv, Types
<1>4. Types'
  BY <1>1, <1>3 DEF IInv, Types
<1>5. /\ \A e : On(g, e)' <=> On(g, e)
      /\ \A e : On(h, e)' <=> e = c /\ Phase(r) # "none"
      /\ Usable(h)' /\ (Usable(g)' <=> Usable(g))
  BY <1>3 DEF On, Usable
<1> HIDE DEF g, c
<1>6. ASSUME NEW e \in Conns PROVE Queue(e)'
  <2>1. CASE e = c
    BY <1>1, <1>2, <1>3, <2>1 DEF Queue
  <2>2. CASE e # c
    <3>1. net'[e] = net[e] /\ Queue(e) /\ host'[h].sock = host[h].sock /\ ~On(h, e)'
      BY <1>3, <1>5, <2>2 DEF IInv, c
    <3>2. CASE net[e].queued = h
      BY <1>1, <1>3, <1>5, <3>1, <3>2 DEF Queue
    <3>3. CASE net[e].queued = g
      BY <1>1, <1>3, <1>5, <3>1, <3>3 DEF Queue
    <3>4. CASE net[e].queued = "none"
      BY <3>1, <3>4 DEF Queue
    <3>5. net[e].queued \in {h, g, "none"}
      BY <1>1 DEF IInv, Types, ConnRec
    <3> QED
      BY <3>2, <3>3, <3>4, <3>5
  <2> QED
    BY <2>1, <2>2
<1>7. Steady(host[h])' /\ Steady(host[g])'
  BY <1>1, <1>3 DEF IInv
<1>8. Conn(h)' = d
  BY <1>3 DEF Conn, c
<1>9. Held(h)'
  BY <1>2, <1>8 DEF Held
<1>10. CASE host[g].sock = c
  <2>1. Conn(g)' = d /\ Conn(g) = Conn(h) /\ host'[g].sock = c /\ host'[h].sock = c
    BY <1>2, <1>3, <1>10 DEF Conn, c
  <2>2. Held(g)'
    BY <1>1, <1>2, <1>5, <2>1 DEF Held, IInv
  <2>3. Good(h)'
    BY <1>1, <1>3, <1>5, <1>8, <2>1 DEF Good, Quiet, Right, c
  <2>4. ASSUME On(g, c)
        PROVE  Fits(Phase(host[g]), d.wire[g], d.reset)
    <3>1. ~d.reset /\ d.reset \in BOOLEAN
      BY <1>1, <1>2, <2>4 DEF ConnRec, c
    <3> QED
      BY <1>1, <2>4, <3>1 DEF Right, c
  <2>5. Good(g)'
    BY <1>1, <1>3, <1>5, <1>8, <2>1, <2>4 DEF Good, Quiet, Right, c
  <2>6. ASSUME On(g, c), Phase(r) # "none"
        PROVE  Match(r, host[g], d.wire[h], d.wire[g]) /\ Match(host[g], r, d.wire[g], d.wire[h])
    BY <1>1, <2>6 DEF Right, Match, c
  <2>7. Together(h)' /\ Together(g)'
    BY <1>1, <1>3, <1>5, <1>8, <2>1, <2>6 DEF Together
  <2> QED
    BY <1>1, <1>4, <1>6, <1>7, <1>9, <2>2, <2>3, <2>5, <2>7 DEF IInv
<1>11. CASE host[g].sock # c
  <2>1. ~On(g, c) /\ host'[g].sock = host[g].sock /\ host'[h].sock = c
    BY <1>3, <1>11 DEF On, c
  <2>2. Good(h)'
    BY <1>1, <1>3, <1>5, <1>8, <2>1 DEF Good, Quiet, Right, c
  <2>3. Together(h)' /\ Together(g)'
    BY <1>1, <1>5, <2>1, <1>11 DEF Together
  <2>4. CASE ~Usable(g)
    BY <1>1, <1>4, <1>5, <1>6, <1>7, <1>9, <2>2, <2>3, <2>4 DEF IInv, Held, Good, On
  <2>5. CASE Usable(g)
    <3>1. Conn(g)' = Conn(g) /\ host[g].sock \in Conns
      BY <1>1, <1>3, <1>11, <2>5, SockConn DEF Conn, IInv
    <3>2. Held(g)'
      BY <1>1, <1>5, <3>1 DEF Held, IInv
    <3>3. ~On(h, host[g].sock) /\ ~On(h, host[g].sock)'
      BY <1>5, <1>11 DEF On, c
    <3>4. Good(g)'
      BY <1>1, <1>3, <1>5, <3>1, <3>3 DEF Good, Quiet, IInv
    <3> QED
      BY <1>1, <1>4, <1>6, <1>7, <1>9, <2>2, <2>3, <3>2, <3>4 DEF IInv
  <2> QED
    BY <2>4, <2>5
<1> QED
  BY <1>10, <1>11

(* A step that leaves the connections alone, of a host that takes part in none
   before it or after it. *)
LEMMA StepOff ==
    ASSUME IInv, NEW h \in Hosts, NEW r \in HostRec, Fields(r, made), Steady(r),
           ~Usable(h) \/ Phase(host[h]) = "none",
           (r.sock = host[h].sock /\ r.freed = host[h].freed) \/ r.sock = 0,
           r.sock = 0 \/ r.freed \/ Phase(r) = "none",
           host' = [host EXCEPT ![h] = r], net' = net, made' = made
    PROVE  IInv'
<1> DEFINE g == Other(h)
<1>1. g \in Hosts /\ g # h /\ Other(g) = h /\ Hosts = {h, g} /\ Other(h) = g
  BY Others
<1>2. /\ host' \in [Hosts -> HostRec] /\ host'[h] = r /\ host'[g] = host[g]
      /\ Fields(host[g], made) /\ Steady(host[g])
  BY <1>1 DEF IInv, Types
<1>3. Types' /\ Steady(host[h])' /\ Steady(host[g])'
  BY <1>1, <1>2 DEF IInv, Types
<1>4. /\ \A e : On(g, e)' <=> On(g, e)
      /\ \A e : ~On(h, e) /\ ~On(h, e)'
      /\ Usable(h)' => Usable(h) /\ host'[h].sock = host[h].sock
      /\ Usable(g)' <=> Usable(g)
  BY <1>2 DEF On, Usable
<1>5. Conn(g)' = Conn(g) /\ (Usable(h)' => Conn(h)' = Conn(h))
  BY <1>2, <1>4 DEF Conn
<1> HIDE DEF g
<1>6. ASSUME NEW e \in Conns PROVE Queue(e)'
  <2>1. Queue(e) /\ net[e].queued \in {h, g, "none"} /\ e # 0
    BY <1>1 DEF IInv, Types, ConnRec, Conns
  <2>2. CASE net[e].queued = h
    BY <1>1, <1>2, <1>4, <2>1, <2>2 DEF Queue
  <2>3. CASE net[e].queued = g
    BY <1>1, <1>2, <1>4, <2>1, <2>3 DEF Queue
  <2>4. CASE net[e].queued = "none"
    BY <2>1, <2>4 DEF Queue
  <2> QED
    BY <2>1, <2>2, <2>3, <2>4
<1>7. Held(h)' /\ Held(g)'
  BY <1>1, <1>4, <1>5 DEF Held, IInv
<1>8. Good(h)' /\ Together(h)' /\ Together(g)'
  BY <1>1, <1>4 DEF Good, Together
<1>9. Good(g)'
  BY <1>1, <1>2, <1>4, <1>5 DEF Good, Quiet, IInv
<1> QED
  BY <1>1, <1>3, <1>6, <1>7, <1>8, <1>9 DEF IInv

(* A step that closes.  What the other side is to get has not come yet, or is of
   a session it plays: both can be left as they are. *)
LEMMA StepClose ==
    ASSUME IInv, NEW h \in Hosts, NEW s, Leaving(s, h), Gone(s.me), Steady(s.me),
           host' = [host EXCEPT ![h] = s.me], net' = s.net, made' = made
    PROVE  IInv'
<1> DEFINE g == Other(h)
<1>1. g \in Hosts /\ g # h /\ Other(g) = h /\ Hosts = {h, g} /\ Other(h) = g
  BY Others
<1>2. /\ host' \in [Hosts -> HostRec] /\ host'[h] = s.me /\ host'[g] = host[g]
      /\ Fields(host[g], made) /\ Steady(host[g]) /\ Fields(s.me, made)
      /\ net' \in [Conns -> ConnRec]
  BY <1>1 DEF IInv, Types, Leaving
<1>3. Types' /\ Steady(host[h])' /\ Steady(host[g])'
  BY <1>1, <1>2 DEF IInv, Types
<1>4. /\ \A e : On(g, e)' <=> On(g, e)
      /\ \A e : ~On(h, e)'
      /\ ~Usable(h)'
      /\ Usable(g)' <=> Usable(g)
  BY <1>2 DEF On, Usable, Gone
<1>5. ASSUME NEW e \in Conns
      PROVE  /\ net'[e] = net[e] \/ Closed(net[e], net'[e], h)
             /\ On(h, e) => Closed(net[e], net'[e], h)
  BY DEF Leaving, On, Conn
<1> HIDE DEF g
<1>6. ASSUME NEW e \in Conns PROVE Queue(e)'
  <2>1. /\ Queue(e) /\ net[e].queued \in {h, g, "none"} /\ e # 0
        /\ net[e].ends \subseteq Hosts /\ h # "none" /\ g # "none"
    BY <1>1 DEF IInv, Types, ConnRec, Conns, Hosts
  <2>2. CASE net'[e] = net[e]
    <3>1. CASE net[e].queued = h
      BY <1>1, <1>2, <1>4, <2>1, <2>2, <3>1 DEF Queue, Leaving
    <3>2. CASE net[e].queued = g
      BY <1>1, <1>2, <1>4, <2>1, <2>2, <3>2 DEF Queue
    <3>3. CASE net[e].queued = "none"
      BY <2>1, <2>2, <3>3 DEF Queue
    <3> QED
      BY <2>1, <3>1, <3>2, <3>3
  <2>3. CASE Closed(net[e], net'[e], h)
    <3>1. h \notin net'[e].ends /\ net'[e].queued # h
      BY <2>1, <2>3 DEF Closed
    <3>2. CASE net[e].queued = g
      BY <1>1, <1>2, <1>4, <2>1, <2>3, <3>1, <3>2 DEF Queue, Closed
    <3>3. CASE net[e].queued # g
      BY <1>1, <2>1, <2>3, <3>1, <3>3 DEF Queue, Closed
    <3> QED
      BY <3>2, <3>3
  <2> QED
    BY <1>5, <2>2, <2>3
<1>7. Held(h)' /\ Good(h)' /\ Together(h)' /\ Together(g)'
  BY <1>1, <1>4 DEF Held, Good, Together, On
<1>8. CASE ~Usable(g)
  BY <1>1, <1>3, <1>4, <1>6, <1>7, <1>8 DEF IInv, Held, Good, On
<1>9. CASE Usable(g)
  <2> DEFINE e == host[g].sock
  <2>1. /\ e \in Conns /\ Conn(g) = net[e] /\ Conn(g)' = net'[e] /\ Conn(g) \in ConnRec
        /\ g \in net[e].ends /\ host'[g].sock = e
    BY <1>1, <1>2, <1>9, SockConn DEF IInv, Held, Conn
  <2>2. net'[e] = net[e] \/ Closed(net[e], net'[e], h)
    BY <1>5, <2>1
  <2>3. Held(g)'
    BY <1>1, <2>1, <2>2 DEF Held, Closed
  <2>4. ASSUME On(g, e) PROVE Good(g)'
    <3>1. CASE Closed(net[e], net'[e], h)
      <4>1. Phase(host[g]) # "none"
        BY <2>4 DEF On
      <4>2. /\ Fits(Phase(host[g]), net[e].wire[g], net[e].reset) /\ Quiet(g)
            /\ Phase(host[g]) # "snapshot" \/ net[e].wire[g] # <<>> => net[e].queued = "none"
            /\ On(h, e) => Match(host[g], host[h], net[e].wire[g], net[e].wire[h])
        BY <1>1, <1>9, <2>1, <4>1, Ours
      <4>3. net'[e].wire[g] = net[e].wire[g] /\ h \in net[e].ends /\ h \notin net'[e].ends
        BY <1>1, <3>1 DEF Closed
      <4>4. ASSUME Phase(host[g]) \notin InPlay, net'[e].reset PROVE net[e].wire[g] = <<>>
        <5>1. SUFFICES ASSUME net[e].wire[g] # <<>> PROVE FALSE
          OBVIOUS
        <5>2. net[e].queued = "none" /\ h # "none"
          BY <4>2, <5>1 DEF Hosts
        <5>3. On(h, e) /\ Phase(host[h]) # "none"
          <6>1. Quiet(g) /\ Conn(g) = net[e] /\ Other(g) = h /\ h \in net[e].ends
            BY <1>1, <2>1, <4>2, <4>3
          <6> QED
            BY <4>4, <5>1, <6>1 DEF Quiet, On
        <5>4. net[e].wire[h] = <<>>
          <6>1. Match(host[g], host[h], net[e].wire[g], net[e].wire[h])
            BY <4>2, <5>3
          <6> QED
            BY <4>4, <5>1, <6>1 DEF Match, Joint, InPlay
        <5>5. net[e].reset
          BY <3>1, <4>4, <5>2, <5>4 DEF Closed
        <5> QED
          BY <4>2, <4>4, <5>1, <5>5 DEF Fits
      <4>5. Fits(Phase(host[g]), net'[e].wire[g], net'[e].reset)
        BY <4>2, <4>3, <4>4 DEF Fits
      <4> QED
        BY <1>1, <1>2, <1>4, <2>1, <4>3, <4>5 DEF Good, Quiet
    <3>2. CASE net'[e] = net[e] /\ ~On(h, e)
      BY <1>1, <1>2, <1>4, <2>1, <2>4, <3>2 DEF Good, Quiet, IInv
    <3> QED
      BY <1>5, <2>1, <3>1, <3>2
  <2>5. Good(g)'
    BY <1>2, <1>4, <2>1, <2>4 DEF Good
  <2> QED
    BY <1>1, <1>3, <1>6, <1>7, <2>3, <2>5 DEF IInv
<1> QED
  BY <1>8, <1>9
-----------------------------------------------------------------------------
(* Nothing has been done. *)
LEMMA Start == Init => IInv
<1> SUFFICES ASSUME Init PROVE IInv
  OBVIOUS
<1>1. /\ Fresh \in HostRec /\ Fields(Fresh, 0) /\ Steady(Fresh)
      /\ Fresh.sock = 0 /\ Fresh.at = "run"
  BY NetSessionAssumption DEF Fresh, HostRec, Fields, Steady, Ends, Waits
<1>2. NoConn \in ConnRec /\ NoConn.queued = "none" /\ ~NoConn.reset
  BY Streams DEF NoConn, ConnRec
<1>3. Types
  BY <1>1, <1>2, NetSessionAssumption DEF Init, Types
<1>4. \A h \in Hosts : ~Usable(h) /\ Steady(host[h])
  BY <1>1 DEF Init, Usable
<1>5. \A c \in Conns : Queue(c)
  BY <1>2 DEF Init, Queue
<1> QED
  BY <1>3, <1>4, <1>5 DEF IInv, Held, Good, Together, On

(* A host without a connection opens its port, or does not get it. *)
LEMMA Starting ==
    ASSUME IInv, NEW h \in Hosts, StartServer(h) \/ StartServerFails(h) PROVE IInv'
<1> DEFINE r == [host[h] EXCEPT !.listen = "open", !.mode = "server"]
           q == [host[h] EXCEPT !.listen = "null"]
<1>1. /\ host[h] \in HostRec /\ Fields(host[h], made) /\ Steady(host[h])
      /\ host[h].at = "run" /\ host[h].mode = "idle" /\ host[h].trap = "none" /\ made' = made
      /\ net' = net
  BY DEF IInv, Types, StartServer, StartServerFails, Running, Goes
<1>2. Phase(host[h]) = "none"
  BY <1>1 DEF Phase
<1>3. CASE StartServer(h)
  <2>1. /\ r \in HostRec /\ Fields(r, made) /\ Steady(r) /\ Phase(r) = "none"
        /\ r.sock = host[h].sock /\ r.freed = host[h].freed
    BY <1>1 DEF HostRec, Fields, Steady, Phase, Ends
  <2>2. host' = [host EXCEPT ![h] = r]
    BY <1>3 DEF StartServer, Goes
  <2> HIDE DEF r
  <2> QED
    BY <1>1, <1>2, <2>1, <2>2, StepOff
<1>4. CASE StartServerFails(h)
  <2>1. /\ q \in HostRec /\ Fields(q, made) /\ Steady(q) /\ Phase(q) = "none"
        /\ q.sock = host[h].sock /\ q.freed = host[h].freed
    BY <1>1 DEF HostRec, Fields, Steady, Phase, Ends
  <2>2. host' = [host EXCEPT ![h] = q]
    BY <1>4 DEF StartServerFails, Goes
  <2> HIDE DEF q
  <2> QED
    BY <1>1, <1>2, <2>1, <2>2, StepOff
<1> QED
  BY <1>3, <1>4

(* Nobody listens. *)
LEMMA Refused ==
    ASSUME IInv, NEW h \in Hosts, ConnectRefused(h) PROVE IInv'
<1> DEFINE r == [host[h] EXCEPT !.sock = 0, !.freed = FALSE]
<1>1. /\ host[h] \in HostRec /\ Fields(host[h], made) /\ Steady(host[h])
      /\ host[h].at = "run" /\ host[h].mode = "idle" /\ host[h].trap = "none" /\ made' = made
      /\ net' = net /\ host' = [host EXCEPT ![h] = r] /\ made \in Nat
  BY DEF IInv, Types, ConnectRefused, Running, Goes
<1>2. /\ r \in HostRec /\ r.sock = 0 /\ ~r.freed
      /\ \A f \in {"mode", "listen", "trap", "at", "count", "delta", "left"} : r[f] = host[h][f]
  BY <1>1 DEF HostRec
<1> HIDE DEF r
<1>3. Fields(r, made) /\ Phase(r) = "none" /\ Phase(host[h]) = "none"
  BY <1>1, <1>2 DEF Fields, Phase
<1>4. Steady(r)
  BY <1>1, <1>2 DEF Steady, Ends
<1> QED
  BY <1>1, <1>2, <1>3, <1>4, StepOff

(* A client asks for a connection: a new one, on which there is nobody else. *)
LEMMA Connecting ==
    ASSUME IInv, NEW h \in Hosts, Connect(h) PROVE IInv'
<1> DEFINE g == Other(h)
           c == made + 1
           r == [host[h] EXCEPT !.sock = c, !.freed = FALSE, !.at = "snapshot"]
           d == [NoConn EXCEPT !.ends = Hosts, !.queued = g]
<1>1. g \in Hosts /\ g # h /\ Other(g) = h /\ Hosts = {h, g} /\ Other(h) = g /\ g # "none"
  BY Others DEF Hosts
<1>2. /\ host[h] \in HostRec /\ Steady(host[h]) /\ Fields(host[h], made)
      /\ host[g] \in HostRec /\ Steady(host[g]) /\ Fields(host[g], made)
      /\ host[h].at = "run" /\ host[h].mode = "idle" /\ host[h].trap = "none"
      /\ made \in Nat /\ made < MaxConns /\ MaxConns \in Nat /\ made' = c /\ c \in Conns
  BY <1>1, NetSessionAssumption DEF IInv, Types, Connect, Running, Conns
<1>3. /\ r \in HostRec /\ Fields(r, c) /\ Steady(r) /\ Phase(r) = "snapshot"
      /\ r.sock = c /\ ~r.freed
  <2> HIDE DEF c
  <2>0. c \in Nat /\ c = made + 1
    BY <1>2 DEF c
  <2>1. /\ r \in HostRec /\ r.sock = c /\ ~r.freed /\ r.at = "snapshot"
        /\ \A f \in {"mode", "listen", "trap", "count", "delta", "left"} : r[f] = host[h][f]
    BY <1>2, <2>0 DEF HostRec, Waits
  <2> HIDE DEF r
  <2>2. Fields(r, c) /\ Phase(r) = "snapshot"
    BY <1>2, <2>0, <2>1 DEF Fields, Phase
  <2>3. Steady(r)
    BY <1>2, <2>1 DEF Steady, Ends
  <2> QED
    BY <2>1, <2>2, <2>3
<1>4. /\ d \in ConnRec /\ d.ends = Hosts /\ d.queued = g /\ ~d.reset
      /\ \A k \in Hosts : d.wire[k] = <<>>
  BY <1>1, Streams DEF NoConn, ConnRec
<1>5. host' = [host EXCEPT ![h] = r] /\ net' = [net EXCEPT ![c] = d]
  BY <1>2 DEF Connect, Goes
<1> HIDE DEF r, d
<1>6. /\ host' \in [Hosts -> HostRec] /\ host'[h] = r /\ host'[g] = host[g]
      /\ net' \in [Conns -> ConnRec] /\ net'[c] = d
      /\ \A e \in Conns : e # c => net'[e] = net[e]
  BY <1>1, <1>2, <1>3, <1>4, <1>5 DEF IInv, Types
<1>7. Types'
  <2>1. Fields(host'[h], c) /\ Fields(host'[g], c)
    BY <1>2, <1>3, <1>6 DEF Fields, HostRec
  <2>2. c \in 0 .. MaxConns
    BY <1>2
  <2> QED
    BY <1>1, <1>2, <1>6, <2>1, <2>2 DEF Types
<1>8. /\ Phase(host[h]) = "none" /\ host[g].sock # c /\ host[g].sock \in Nat
      /\ host[g].sock <= made
  BY <1>2 DEF Phase, Fields, HostRec
<1>9. /\ \A e : On(g, e)' <=> On(g, e)
      /\ \A e : ~On(h, e) /\ (On(h, e)' => e = c)
      /\ Usable(h)' /\ Conn(h)' = d /\ host'[h].sock = c /\ host'[g].sock = host[g].sock
      /\ Usable(g)' <=> Usable(g)
  BY <1>2, <1>3, <1>6, <1>8 DEF On, Usable, Conn
<1>10. ASSUME Usable(g) PROVE Conn(g)' = Conn(g)
  <2>1. host[g].sock \in Conns
    BY <1>1, <1>10, SockConn DEF IInv
  <2> QED
    BY <1>6, <1>8, <1>9, <2>1 DEF Conn
<1>e. c <= made' /\ \A e \in Conns : e <= made => e <= made'
  BY <1>2 DEF Conns
<1> HIDE DEF g, c
<1>11. ASSUME NEW e \in Conns PROVE Queue(e)'
  <2>1. CASE e = c
    BY <1>1, <1>3, <1>4, <1>6, <1>8, <1>9, <1>e, <2>1 DEF Queue
  <2>2. CASE e # c
    <3>1. Queue(e) /\ net[e].queued \in {h, g, "none"} /\ net'[e] = net[e] /\ ~On(h, e)'
      BY <1>1, <1>6, <1>9, <2>2 DEF IInv, Types, ConnRec
    <3>2. CASE net[e].queued = h
      BY <1>1, <1>6, <1>9, <1>e, <2>2, <3>1, <3>2 DEF Queue
    <3>3. CASE net[e].queued = g
      BY <1>1, <1>6, <1>9, <1>e, <3>1, <3>3 DEF Queue
    <3>4. CASE net[e].queued = "none"
      BY <3>1, <3>4 DEF Queue
    <3> QED
      BY <3>1, <3>2, <3>3, <3>4
  <2> QED
    BY <2>1, <2>2
<1>12. Held(h)' /\ Held(g)'
  BY <1>1, <1>4, <1>9, <1>10 DEF Held, IInv
<1>13. Good(h)'
  BY <1>1, <1>3, <1>4, <1>6, <1>9 DEF Good, Quiet, Fits, InPlay
<1>14. Good(g)'
  <2>1. ASSUME On(g, host[g].sock) PROVE Good(g)'
    <3>1. Usable(g) /\ Good(g)
      BY <1>1, <2>1 DEF On, IInv
    <3> QED
      BY <1>1, <1>6, <1>8, <1>9, <1>10, <2>1, <3>1 DEF Good, Quiet
  <2> QED
    BY <1>1, <1>6, <1>9, <2>1 DEF Good
<1>15. Together(h)' /\ Together(g)'
  BY <1>1, <1>8, <1>9 DEF Together, On
<1> QED
  BY <1>1, <1>2, <1>3, <1>6, <1>7, <1>11, <1>12, <1>13, <1>14, <1>15 DEF IInv

(* A server takes the oldest connection that waits for it: nothing has been sent
   on it yet. *)
LEMMA Accepting ==
    ASSUME IInv, NEW h \in Hosts, Accept(h) PROVE IInv'
<1> DEFINE g == Other(h)
<1>1. /\ g \in Hosts /\ g # h /\ Other(g) = h /\ Hosts = {h, g} /\ Other(h) = g
      /\ g # "none" /\ h # "none"
  BY Others DEF Hosts
<1>2. PICK c \in Conns :
          /\ net[c].queued = h
          /\ host' = [host EXCEPT ![h] = [host[h] EXCEPT !.sock = c, !.freed = FALSE,
                                                        !.trap = "serve"]]
          /\ net' = [net EXCEPT ![c].queued = "none"]
  BY DEF Accept, Goes
<1> DEFINE r == [host[h] EXCEPT !.sock = c, !.freed = FALSE, !.trap = "serve"]
           d == [net[c] EXCEPT !.queued = "none"]
<1>3. /\ host[h] \in HostRec /\ Steady(host[h]) /\ Fields(host[h], made)
      /\ host[g] \in HostRec /\ Steady(host[g]) /\ Fields(host[g], made)
      /\ host[h].at = "run" /\ host[h].mode = "server" /\ host[h].trap = "none"
      /\ made \in Nat /\ made' = made /\ net[c] \in ConnRec
  BY <1>1, NetSessionAssumption DEF IInv, Types, Accept, Running, Conns
<1>4. Queue(c) /\ c <= made /\ c \in Nat \ {0}
  BY <1>1, <1>2 DEF IInv, Queue, Conns
<1>5. /\ r \in HostRec /\ Fields(r, made) /\ Steady(r) /\ Phase(r) = "serve"
      /\ r.sock = c /\ ~r.freed
  BY <1>3, <1>4 DEF HostRec, Fields, Steady, Phase, Ends, Waits
<1>6. /\ d \in ConnRec /\ d.ends = net[c].ends /\ d.queued = "none" /\ d.reset = net[c].reset
      /\ d.wire = net[c].wire
  BY <1>3 DEF ConnRec
<1>7. /\ h \in d.ends /\ d.wire[h] = <<>> /\ d.wire[g] = <<>> /\ host[h].sock # c
      /\ On(g, c) => Phase(host[g]) = "snapshot"
      /\ d.reset => d.ends # Hosts
  BY <1>1, <1>2, <1>4, <1>6 DEF Queue
<1>8. host' = [host EXCEPT ![h] = r] /\ net' = [net EXCEPT ![c] = d]
  BY <1>2
<1> HIDE DEF r, d
<1>9. /\ host' \in [Hosts -> HostRec] /\ host'[h] = r /\ host'[g] = host[g]
      /\ net' \in [Conns -> ConnRec] /\ net'[c] = d
      /\ \A e \in Conns : e # c => net'[e] = net[e]
  BY <1>1, <1>5, <1>6, <1>8 DEF IInv, Types
<1>10. Types'
  BY <1>1, <1>3, <1>5, <1>9 DEF IInv, Types
<1>11. Phase(host[h]) = "none"
  BY <1>3 DEF Phase
<1>12. /\ \A e : On(g, e)' <=> On(g, e)
       /\ \A e : ~On(h, e) /\ (On(h, e)' <=> e = c)
       /\ Usable(h)' /\ Conn(h)' = d /\ host'[h].sock = c /\ host'[g].sock = host[g].sock
       /\ Usable(g)' <=> Usable(g)
  BY <1>4, <1>5, <1>9, <1>11 DEF On, Usable, Conn
<1>13. ASSUME Usable(g)
       PROVE  /\ host[g].sock \in Conns
              /\ Conn(g)' = IF host[g].sock = c THEN d ELSE Conn(g)
              /\ host[g].sock = c => Conn(g) = net[c]
  <2>1. host[g].sock \in Conns
    BY <1>1, <1>13, SockConn DEF IInv
  <2> QED
    BY <1>9, <1>12, <2>1 DEF Conn
<1> HIDE DEF g
<1>14. ASSUME NEW e \in Conns PROVE Queue(e)'
  <2>1. CASE e = c
    BY <1>6, <1>7, <1>9, <2>1 DEF Queue
  <2>2. CASE e # c
    <3>1. Queue(e) /\ net[e].queued \in {h, g, "none"} /\ net'[e] = net[e] /\ ~On(h, e)'
      BY <1>1, <1>9, <1>12, <2>2 DEF IInv, Types, ConnRec
    <3>2. CASE net[e].queued = h
      BY <1>1, <1>3, <1>9, <1>12, <2>2, <3>1, <3>2 DEF Queue
    <3>3. CASE net[e].queued = g
      BY <1>1, <1>3, <1>9, <1>12, <3>1, <3>3 DEF Queue
    <3>4. CASE net[e].queued = "none"
      BY <3>1, <3>4 DEF Queue
    <3> QED
      BY <3>1, <3>2, <3>3, <3>4
  <2> QED
    BY <2>1, <2>2
<1>15. Held(h)' /\ Held(g)'
  BY <1>1, <1>6, <1>7, <1>12, <1>13 DEF Held, IInv
<1>16. Good(h)'
  BY <1>5, <1>7, <1>9, <1>12 DEF Good, Quiet, Fits, InPlay
<1>17. ASSUME On(g, host[g].sock) PROVE Good(g)'
  <2>1. Usable(g) /\ Good(g)
    BY <1>1, <1>17 DEF On, IInv
  <2>2. CASE host[g].sock = c
    <3>1. Fits(Phase(host[g]), d.wire[g], d.reset)
      BY <1>6, <1>13, <1>17, <2>1, <2>2 DEF Good
    <3> QED
      BY <1>1, <1>7, <1>9, <1>12, <1>13, <2>1, <2>2, <3>1 DEF Good, Quiet
  <2>3. CASE host[g].sock # c
    BY <1>1, <1>9, <1>12, <1>13, <1>17, <2>1, <2>3 DEF Good, Quiet
  <2> QED
    BY <2>2, <2>3
<1>18. Good(g)'
  BY <1>12, <1>17 DEF Good
<1>19. ASSUME host[g].sock = c, On(g, c)
       PROVE  /\ Match(r, host[g], d.wire[h], d.wire[g])
              /\ Match(host[g], r, d.wire[g], d.wire[h])
  BY <1>5, <1>7, <1>19 DEF Match, Joint
<1>20. Together(h)' /\ Together(g)'
  BY <1>1, <1>9, <1>12, <1>13, <1>19 DEF Together, On
<1>21. Steady(host[h])' /\ Steady(host[g])'
  BY <1>3, <1>5, <1>9
<1> QED
  BY <1>1, <1>10, <1>14, <1>15, <1>16, <1>18, <1>20, <1>21 DEF IInv

(* A host at the beginning of a handler that closes. *)
LEMMA Leaves ==
    ASSUME IInv, NEW h \in Hosts, NEW r \in HostRec, Fields(r, made),
           r.sock = host[h].sock, r.freed = host[h].freed
    PROVE  /\ Leaving([me |-> r, net |-> net], h)
           /\ \A d \in ConnRec : Usable(h) /\ Near(Conn(h), d, h)
                 => Leaving([me |-> r, net |-> [net EXCEPT ![host[h].sock] = d]], h)
<1>1. Gone(r) <=> ~Usable(h)
  BY DEF Gone, Usable
<1>2. net \in [Conns -> ConnRec]
  BY DEF IInv, Types
<1>3. Usable(h) => host[h].sock \in Conns /\ Conn(h) \in ConnRec /\ Conn(h) = net[host[h].sock]
  BY SockConn DEF IInv, Conn
<1>4. Usable(h) => Near(Conn(h), net[host[h].sock], h)
  BY <1>3 DEF Near
<1>5. Leaving([me |-> r, net |-> net], h)
  BY <1>1, <1>2, <1>4 DEF Leaving
<1>6. ASSUME NEW d \in ConnRec, Usable(h), Near(Conn(h), d, h)
      PROVE  Leaving([me |-> r, net |-> [net EXCEPT ![host[h].sock] = d]], h)
  <2> DEFINE n == [net EXCEPT ![host[h].sock] = d]
  <2>0. SUFFICES Leaving([me |-> r, net |-> n], h)
    OBVIOUS
  <2>1. /\ n \in [Conns -> ConnRec] /\ n[host[h].sock] = d
        /\ \A c \in Conns : c # host[h].sock => n[c] = net[c]
    BY <1>2, <1>3, <1>6
  <2> HIDE DEF n
  <2> QED
    BY <1>1, <1>6, <2>1 DEF Leaving
<1> QED
  BY <1>5, <1>6

(* A host that hears of its connection that it is gone, or that the other side
   is, is alone on it. *)
LEMMA Alone ==
    ASSUME IInv, NEW h \in Hosts, Usable(h), Phase(host[h]) # "none",
           Fails(h) \/ Other(h) \notin Conn(h).ends
    PROVE  ~On(Other(h), host[h].sock) /\ (Fails(h) => Conn(h).reset)
  BY Ours DEF Fails, Reset, Conn

(* The client has the snapshot, or hangs up. *)
LEMMA StepGetSnapshot ==
    ASSUME IInv, NEW h \in Hosts, GetSnapshot(h) PROVE IInv'
<1> DEFINE c == Conn(h)
           d == Taken(c, h)
<1>1. /\ host[h] \in HostRec /\ Fields(host[h], made) /\ Steady(host[h])
      /\ host[h].at = "snapshot" /\ made' = made
  BY DEF IInv, Types, GetSnapshot
<1>2. /\ Phase(host[h]) = "snapshot" /\ host[h].mode = "idle" /\ host[h].trap = "none"
      /\ host[h].listen # "open"
  BY <1>1 DEF Phase, Steady, Ends, HostRec
<1>3. CASE Comes(h, Snapshot) /\ Goes(h, [host[h] EXCEPT !.at = "run", !.trap = "join"], Wire(h, d))
  <2> DEFINE r == [host[h] EXCEPT !.at = "run", !.trap = "join"]
  <2>1. Usable(h) /\ c.wire[h] # <<>>
    BY <1>3 DEF Comes
  <2>2. /\ r \in HostRec /\ r.at = "run" /\ r.trap = "join" /\ r.mode = "idle"
        /\ \A f \in {"mode", "listen", "sock", "freed", "count", "delta", "left"} : r[f] = host[h][f]
    BY <1>1, <1>2 DEF HostRec
  <2>3. host' = [host EXCEPT ![h] = r] /\ net' = [net EXCEPT ![host[h].sock] = d]
    BY <1>3 DEF Goes, Wire
  <2> HIDE DEF r, c
  <2>4. Fields(r, made) /\ Phase(r) = "settings" /\ Steady(r) /\ r.sock = host[h].sock /\ ~r.freed
    BY <1>1, <1>2, <2>1, <2>2 DEF Fields, Phase, Steady, Ends, Usable
  <2>5. /\ c \in ConnRec /\ c.queued = "none" /\ ~c.reset /\ Fits("snapshot", c.wire[h], c.reset)
        /\ c.wire[h] = <<Snapshot, Settings, Test>>
        /\ On(Other(h), host[h].sock) \/ Other(h) \notin c.ends
    BY <1>2, <2>1, Ours, Firsts DEF Quiet, InPlay, c
  <2>6. /\ d \in ConnRec /\ d.ends = c.ends /\ d.queued = "none" /\ d.reset = c.reset
        /\ d.wire[h] = <<Settings, Test>> /\ d.wire[Other(h)] = c.wire[Other(h)]
    BY <2>1, <2>5, TakenFields, Streams
  <2> HIDE DEF d
  <2>7. Right(h, r, d)
    <3>1. Fits("settings", d.wire[h], d.reset)
      BY <2>5, <2>6 DEF Fits, InPlay
    <3>2. ASSUME On(Other(h), host[h].sock)
          PROVE  /\ Fits(Phase(host[Other(h)]), d.wire[Other(h)], FALSE)
                 /\ Match(r, host[Other(h)], d.wire[h], d.wire[Other(h)])
      <4>1. /\ Fits(Phase(host[Other(h)]), c.wire[Other(h)], FALSE)
            /\ Match(host[h], host[Other(h)], c.wire[h], c.wire[Other(h)])
        BY <1>2, <2>1, <3>2, Ours DEF c
      <4>2. c.wire[h] # <<>> /\ d.wire[Other(h)] = c.wire[Other(h)]
        BY <2>1, <2>6 DEF c
      <4>3. Phase(host[Other(h)]) = "echo" /\ c.wire[Other(h)] = <<>> /\ host[Other(h)].count = 1
        BY <1>2, <4>1, <4>2 DEF Match, Joint
      <4> QED
        BY <2>4, <4>1, <4>2, <4>3 DEF Match, Joint
    <3> QED
      BY <2>4, <2>5, <2>6, <3>1, <3>2 DEF Right
  <2> QED
    BY <1>1, <1>2, <2>1, <2>2, <2>3, <2>4, <2>5, <2>6, <2>7, StepOwn DEF c
<1>4. CASE LET s == HangUp([me |-> [host[h] EXCEPT !.at = "run"], net |-> net], h)
           IN Goes(h, s.me, s.net)
  <2> DEFINE r == [host[h] EXCEPT !.at = "run"]
             t == [me |-> r, net |-> net]
             s == HangUp(t, h)
  <2>1. /\ r \in HostRec /\ r.at = "run" /\ r.trap = "none" /\ r.mode = "idle"
        /\ \A f \in {"mode", "listen", "sock", "freed", "count", "delta", "left"} : r[f] = host[h][f]
    BY <1>1, <1>2 DEF HostRec
  <2>2. host' = [host EXCEPT ![h] = s.me] /\ net' = s.net /\ t.me = r
    BY <1>4 DEF Goes
  <2> HIDE DEF r
  <2>3. Fields(r, made)
    BY <1>1, <2>1 DEF Fields
  <2>4. Leaving(t, h)
    BY <2>1, <2>3, Leaves
  <2> HIDE DEF t
  <2>5. /\ Leaving(s, h) /\ Gone(s.me) /\ s.me.at \in {"run", "asserted"}
        /\ s.me.mode = r.mode /\ s.me.listen = r.listen /\ s.me.trap = r.trap
    BY <2>1, <2>2, <2>4, HangingUp
  <2> HIDE DEF s
  <2>6. Steady(s.me)
    BY <1>2, <2>1, <2>5 DEF Steady, Ends
  <2> QED
    BY <1>1, <2>2, <2>5, <2>6, StepClose
<1> QED
  BY <1>3, <1>4 DEF GetSnapshot

(* The snapshot is not written, or not sent: the connection is forgotten. *)
LEMMA ServingNothing ==
    ASSUME IInv, NEW h \in Hosts, ServeWritesNothing(h) \/ ServeSendsNothing(h) PROVE IInv'
<1> DEFINE r == [host[h] EXCEPT !.trap = "none"]
<1>1. /\ host[h] \in HostRec /\ Fields(host[h], made) /\ Steady(host[h])
      /\ host[h].at = "run" /\ host[h].trap = "serve" /\ made' = made /\ net' = net
      /\ host' = [host EXCEPT ![h] = r]
  BY DEF IInv, Types, ServeWritesNothing, ServeSendsNothing, Running, Goes
<1>2. Phase(host[h]) = "serve" /\ (Usable(h) => host[h].mode = "server")
  BY <1>1 DEF Phase, Steady, Ends, HostRec, Usable
<1>3. /\ r \in HostRec /\ r.trap = "none"
      /\ \A f \in {"at", "mode", "listen", "sock", "freed", "count", "delta", "left"} :
             r[f] = host[h][f]
  BY <1>1 DEF HostRec
<1> HIDE DEF r
<1>4. Fields(r, made) /\ Steady(r)
  BY <1>1, <1>3 DEF Fields, Steady, Ends
<1>5. CASE ~Usable(h)
  BY <1>1, <1>3, <1>4, <1>5, StepOff DEF Usable
<1>6. CASE Usable(h)
  <2> DEFINE c == Conn(h)
  <2>1. Phase(r) = "none" /\ r.sock = host[h].sock /\ ~r.freed
    BY <1>1, <1>2, <1>3, <1>6 DEF Phase, Usable
  <2>2. /\ c \in ConnRec /\ c.queued = "none" /\ c = net[host[h].sock]
        /\ host[h].sock \in Conns
    BY <1>2, <1>6, Ours
  <2>3. net' = [net EXCEPT ![host[h].sock] = c]
    BY <1>1, <2>2 DEF IInv, Types
  <2>4. Right(h, r, c)
    <3>1. ASSUME On(Other(h), host[h].sock)
          PROVE  /\ Fits(Phase(host[Other(h)]), c.wire[Other(h)], FALSE)
                 /\ c.wire[Other(h)] = <<>>
      <4>1. /\ Fits(Phase(host[Other(h)]), c.wire[Other(h)], FALSE)
            /\ Match(host[h], host[Other(h)], c.wire[h], c.wire[Other(h)])
        BY <1>2, <1>6, <3>1, Ours
      <4> QED
        BY <1>2, <4>1 DEF Match, Joint
    <3> QED
      BY <2>1, <3>1 DEF Right
  <2> QED
    BY <1>1, <1>2, <1>3, <1>4, <1>6, <2>1, <2>2, <2>3, <2>4, StepOwn
<1> QED
  BY <1>5, <1>6

(* The snapshot is sent, but the client is gone before the test. *)
LEMMA StepServeTestFails ==
    ASSUME IInv, NEW h \in Hosts, ServeTestFails(h) PROVE IInv'
<1> DEFINE r == [host[h] EXCEPT !.trap = "none", !.mode = "connected"]
           c == Conn(h)
           d == Sent(c, h, <<>>)
<1>1. /\ host[h] \in HostRec /\ Fields(host[h], made) /\ Steady(host[h])
      /\ host[h].at = "run" /\ host[h].trap = "serve" /\ made' = made /\ Usable(h)
      /\ Reset(h) \/ Other(h) \notin c.ends
      /\ host' = [host EXCEPT ![h] = r] /\ net' = [net EXCEPT ![host[h].sock] = d]
  BY DEF IInv, Types, ServeTestFails, Running, Goes, Wire
<1>2. Phase(host[h]) = "serve" /\ host[h].mode = "server" /\ host[h].listen = "open"
  BY <1>1 DEF Phase, Steady, Ends, HostRec, Usable
<1>3. /\ r \in HostRec /\ r.trap = "none" /\ r.mode = "connected"
      /\ \A f \in {"at", "listen", "sock", "freed", "count", "delta", "left"} : r[f] = host[h][f]
  BY <1>1 DEF HostRec
<1> HIDE DEF r
<1>4. Fields(r, made) /\ Steady(r) /\ Phase(r) = "server" /\ r.sock = host[h].sock /\ ~r.freed
  BY <1>1, <1>2, <1>3 DEF Fields, Steady, Ends, Phase, Usable
<1>5. /\ c \in ConnRec /\ c.queued = "none" /\ c.wire[h] = <<>>
      /\ c.reset => Other(h) \notin c.ends
  BY <1>1, <1>2, Ours DEF Fits
<1>6. Other(h) \notin c.ends /\ ~On(Other(h), host[h].sock)
  BY <1>1, <1>2, <1>5, Alone DEF Reset, Fails, Conn
<1>7. /\ d \in ConnRec /\ d.ends = c.ends /\ d.queued = "none" /\ d.wire[h] = <<>>
  <2> HIDE DEF c
  <2>1. <<>> \in Seq(Messages) /\ c \in ConnRec
    BY <1>5, Streams
  <2>2. d \in ConnRec /\ d.ends = c.ends /\ d.queued = c.queued /\ d.wire[h] = c.wire[h]
    BY <2>1, SentFields
  <2> HIDE DEF d
  <2> QED
    BY <1>5, <2>2
<1> HIDE DEF d
<1>8. Right(h, r, d)
  BY <1>4, <1>6, <1>7 DEF Right, Fits, InPlay, FramesFrom
<1> QED
  BY <1>1, <1>2, <1>3, <1>4, <1>5, <1>6, <1>7, <1>8, StepOwn

(* The server sends what the client waits for, and waits for the echo. *)
LEMMA StepServe ==
    ASSUME IInv, NEW h \in Hosts, Serve(h) PROVE IInv'
<1> DEFINE r == [host[h] EXCEPT !.trap = "none", !.mode = "connected", !.at = "echo", !.count = 1]
           c == Conn(h)
           ms == <<Snapshot, Settings, Test>>
           d == Sent(c, h, ms)
<1>1. /\ host[h] \in HostRec /\ Fields(host[h], made) /\ Steady(host[h])
      /\ host[h].at = "run" /\ host[h].trap = "serve" /\ made' = made /\ Usable(h)
      /\ host' = [host EXCEPT ![h] = r] /\ net' = [net EXCEPT ![host[h].sock] = d]
  BY DEF IInv, Types, Serve, Running, Goes, Wire
<1>2. Phase(host[h]) = "serve" /\ host[h].mode = "server" /\ host[h].listen = "open"
  BY <1>1 DEF Phase, Steady, Ends, HostRec, Usable
<1>3. /\ r \in HostRec /\ r.trap = "none" /\ r.mode = "connected" /\ r.at = "echo" /\ r.count = 1
      /\ \A f \in {"listen", "sock", "freed", "delta", "left"} : r[f] = host[h][f]
  <2>1. 1 \in 0 .. Tests + 1
    BY NetSessionAssumption
  <2> HIDE DEF c
  <2>2. r \in HostRec
    BY <1>1, <2>1 DEF HostRec, Waits
  <2> QED
    BY <1>1, <2>2 DEF HostRec
<1> HIDE DEF r
<1>4. Fields(r, made) /\ Steady(r) /\ Phase(r) = "echo" /\ r.sock = host[h].sock /\ ~r.freed
  <2>1. 1 \in 1 .. Tests
    BY NetSessionAssumption
  <2> QED
    BY <1>1, <1>2, <1>3, <2>1 DEF Fields, Steady, Ends, Phase, Usable
<1>5. /\ c \in ConnRec /\ c.queued = "none" /\ c.wire[h] = <<>>
      /\ c.reset => Other(h) \notin c.ends
      /\ On(Other(h), host[h].sock) =>
             /\ Other(h) \in c.ends
             /\ Match(host[h], host[Other(h)], c.wire[h], c.wire[Other(h)])
  BY <1>1, <1>2, Ours DEF Fits
<1>6. /\ ms \in Seq(Messages) /\ <<>> \o ms = ms /\ ms # <<>>
  BY Streams, Appended
<1>7. /\ d \in ConnRec /\ d.ends = c.ends /\ d.queued = "none" /\ d.wire[h] = <<>>
      /\ d.reset => c.reset \/ Other(h) \notin c.ends
      /\ Other(h) \in c.ends => d.wire[Other(h)] = c.wire[Other(h)] \o ms
  <2> HIDE DEF c, ms
  <2> QED
    BY <1>5, <1>6, SentFields
<1> HIDE DEF d
<1>8. Right(h, r, d)
  <2>1. ASSUME On(Other(h), host[h].sock)
        PROVE  /\ Fits(Phase(host[Other(h)]), d.wire[Other(h)], FALSE)
               /\ Match(r, host[Other(h)], d.wire[h], d.wire[Other(h)])
    <3>1. Phase(host[Other(h)]) = "snapshot" /\ c.wire[Other(h)] = <<>>
      BY <1>2, <1>5, <2>1 DEF Match, Joint
    <3>2. d.wire[Other(h)] = ms /\ ms # <<>>
      BY <1>5, <1>6, <1>7, <2>1, <3>1
    <3>3. Match(r, host[Other(h)], d.wire[h], d.wire[Other(h)])
      BY <1>3, <1>4, <1>7, <3>1, <3>2 DEF Match, Joint
    <3>4. Fits(Phase(host[Other(h)]), d.wire[Other(h)], FALSE)
      BY <3>1, <3>2 DEF Fits, InPlay
    <3> QED
      BY <3>3, <3>4
  <2> QED
    BY <1>4, <1>7, <2>1 DEF Right, Fits, InPlay
<1> QED
  BY <1>1, <1>2, <1>3, <1>4, <1>5, <1>7, <1>8, StepOwn

(* The server has the echo: there is one more test, or the delay is sent. *)
LEMMA StepGetEcho ==
    ASSUME IInv, NEW h \in Hosts, GetEcho(h) PROVE IInv'
<1> DEFINE c == Conn(h)
           t == Taken(c, h)
           g == Other(h)
<1>1. /\ host[h] \in HostRec /\ Fields(host[h], made) /\ Steady(host[h])
      /\ host[h].at = "echo" /\ made' = made /\ Usable(h) /\ c.wire[h] # <<>>
  BY DEF IInv, Types, GetEcho, Comes
<1>2. /\ Phase(host[h]) = "echo" /\ host[h].mode = "connected" /\ host[h].listen = "open"
      /\ host[h].trap = "none" /\ host[h].count \in 1 .. Tests /\ Tests \in Nat
  BY <1>1, NetSessionAssumption DEF Phase, Steady, Ends, HostRec
<1>3. /\ c \in ConnRec /\ c.queued = "none" /\ c.wire[h] = <<Echo>> /\ ~c.reset
      /\ On(g, host[h].sock) \/ g \notin c.ends
      /\ On(g, host[h].sock) =>
             /\ g \in c.ends /\ Match(host[h], host[g], c.wire[h], c.wire[g])
             /\ host[g] \in HostRec /\ Phase(host[g]) # "none"
  <2>1. /\ c \in ConnRec /\ c.queued = "none" /\ Fits("echo", c.wire[h], c.reset) /\ Quiet(h)
        /\ c.wire[h] \in Seq(Messages)
        /\ On(g, host[h].sock) =>
               /\ g \in c.ends /\ Match(host[h], host[g], c.wire[h], c.wire[g])
               /\ host[g] \in HostRec /\ Phase(host[g]) # "none"
    BY <1>1, <1>2, Ours
  <2>2. c.wire[h] = <<Echo>> /\ ~c.reset
    BY <1>1, <2>1, Firsts DEF InPlay
  <2>3. On(g, host[h].sock) \/ g \notin c.ends
    BY <1>1, <1>2, <2>1 DEF Quiet, InPlay
  <2> QED
    BY <2>1, <2>2, <2>3
<1>4. /\ t \in ConnRec /\ t.ends = c.ends /\ t.queued = "none" /\ ~t.reset
      /\ t.wire[h] = <<>> /\ t.wire[g] = c.wire[g]
  BY <1>1, <1>3, TakenFields, Streams
<1> HIDE DEF t, c
<1>5. ASSUME NEW ms \in Seq(Messages), ms # <<>>, NEW d, d = Sent(t, h, ms)
      PROVE  /\ d \in ConnRec /\ d.ends = c.ends /\ d.queued = "none" /\ d.wire[h] = <<>>
             /\ d.reset => g \notin c.ends
             /\ g \in c.ends /\ c.wire[g] = <<>> => d.wire[g] = ms
  <2>1. <<>> \o ms = ms
    BY <1>5, Appended, Streams
  <2> HIDE DEF g
  <2>2. /\ Sent(t, h, ms) \in ConnRec /\ Sent(t, h, ms).ends = t.ends
        /\ Sent(t, h, ms).queued = t.queued /\ Sent(t, h, ms).wire[h] = t.wire[h]
        /\ g \in t.ends => /\ Sent(t, h, ms).wire[g] = t.wire[g] \o ms
                           /\ Sent(t, h, ms).reset = t.reset
    BY <1>4, <1>5, SentFields DEF g
  <2> QED
    BY <1>4, <1>5, <2>1, <2>2
<1>6. CASE host[h].count < Tests /\ Goes(h, [host[h] EXCEPT !.count = @ + 1], Wire(h, Sent(t, h, <<Test>>)))
  <2> DEFINE r == [host[h] EXCEPT !.count = @ + 1]
             d == Sent(t, h, <<Test>>)
  <2>1. host' = [host EXCEPT ![h] = r] /\ net' = [net EXCEPT ![host[h].sock] = d]
    BY <1>6 DEF Goes, Wire
  <2>2. /\ r \in HostRec /\ r.count = host[h].count + 1 /\ r.count \in 1 .. Tests
        /\ \A f \in {"at", "mode", "trap", "listen", "sock", "freed", "delta", "left"} :
               r[f] = host[h][f]
    BY <1>1, <1>2, <1>6 DEF HostRec
  <2> HIDE DEF r
  <2>3. Fields(r, made) /\ Steady(r) /\ Phase(r) = "echo" /\ r.sock = host[h].sock /\ ~r.freed
    BY <1>1, <1>2, <2>2 DEF Fields, Steady, Ends, Phase, Usable
  <2>4. /\ d \in ConnRec /\ d.ends = c.ends /\ d.queued = "none" /\ d.wire[h] = <<>>
        /\ d.reset => g \notin c.ends
        /\ g \in c.ends /\ c.wire[g] = <<>> => d.wire[g] = <<Test>>
    BY <1>5, Streams
  <2> HIDE DEF d
  <2>5. ASSUME On(g, host[h].sock)
        PROVE  /\ Fits(Phase(host[g]), d.wire[g], FALSE)
               /\ Match(r, host[g], d.wire[h], d.wire[g])
    <3>1. Phase(host[g]) = "test" /\ c.wire[g] = <<>> /\ host[g].count = host[h].count + 1
      BY <1>1, <1>2, <1>3, <1>6, <2>5 DEF Match, Joint
    <3>2. d.wire[g] = <<Test>> /\ <<Test>> # <<>>
      BY <1>3, <2>4, <2>5, <3>1, Streams
    <3>3. Match(r, host[g], d.wire[h], d.wire[g])
      BY <2>2, <2>3, <2>4, <3>1, <3>2 DEF Match, Joint
    <3> QED
      BY <3>1, <3>2, <3>3 DEF Fits, InPlay
  <2>6. Right(h, r, d)
    BY <2>3, <2>4, <2>5 DEF Right, Fits, InPlay
  <2> QED
    BY <1>1, <1>2, <1>3, <2>1, <2>2, <2>3, <2>4, <2>6, StepOwn DEF c
<1>7. ASSUME host[h].count >= Tests, NEW k \in Deltas,
             Goes(h, Prepared(host[h], k), Wire(h, Sent(t, h, <<Delta(k)>>)))
      PROVE  IInv'
  <2> DEFINE r == Prepared(host[h], k)
             d == Sent(t, h, <<Delta(k)>>)
  <2>1. host' = [host EXCEPT ![h] = r] /\ net' = [net EXCEPT ![host[h].sock] = d]
    BY <1>7 DEF Goes, Wire
  <2>2. k \in Nat \ {0} /\ k - 1 \in Nat /\ k - 1 < k
    BY NetSessionAssumption
  <2>3. /\ r \in HostRec /\ r.at = "run" /\ r.delta = k /\ r.left = k - 1
        /\ \A f \in {"mode", "trap", "listen", "sock", "freed", "count"} : r[f] = host[h][f]
    BY <1>1, <2>2 DEF HostRec, Prepared
  <2> HIDE DEF r
  <2>4. Fields(r, made) /\ Steady(r) /\ Phase(r) = "server" /\ r.sock = host[h].sock /\ ~r.freed
    BY <1>1, <1>2, <2>2, <2>3 DEF Fields, Steady, Ends, Phase, Usable
  <2>5. /\ d \in ConnRec /\ d.ends = c.ends /\ d.queued = "none" /\ d.wire[h] = <<>>
        /\ d.reset => g \notin c.ends
        /\ g \in c.ends /\ c.wire[g] = <<>> => d.wire[g] = <<Delta(k)>>
    BY <1>5, Streams
  <2> HIDE DEF d
  <2>6. ASSUME On(g, host[h].sock)
        PROVE  /\ Fits(Phase(host[g]), d.wire[g], FALSE)
               /\ Match(r, host[g], d.wire[h], d.wire[g])
    <3>1. host[g].count # Tests + 1 \/ Phase(host[g]) # "test"
      BY <1>2, <1>3, <2>6, Others DEF IInv, Steady, Phase, Ends
    <3>2. Phase(host[g]) = "delta" /\ c.wire[g] = <<>>
      BY <1>1, <1>2, <1>3, <1>7, <2>6, <3>1 DEF Match, Joint
    <3>3. d.wire[g] = <<Delta(k)>> /\ <<Delta(k)>> # <<>>
      BY <1>3, <2>5, <2>6, <3>2, Streams
    <3>4. Match(r, host[g], d.wire[h], d.wire[g])
      BY <2>2, <2>3, <2>4, <2>5, <3>2, <3>3 DEF Match, Joint
    <3>5. FramesFrom(<<Delta(k)>>, 2) /\ <<Delta(k)>>[1] = Delta(k)
      BY DEF FramesFrom
    <3> QED
      BY <3>2, <3>3, <3>4, <3>5 DEF Fits, InPlay
  <2>7. Right(h, r, d)
    BY <2>4, <2>5, <2>6 DEF Right, Fits, InPlay, FramesFrom
  <2> QED
    BY <1>1, <1>2, <1>3, <2>1, <2>3, <2>4, <2>5, <2>7, StepOwn DEF c
<1>8. \/ host[h].count < Tests /\ Goes(h, [host[h] EXCEPT !.count = @ + 1], Wire(h, Sent(t, h, <<Test>>)))
      \/ ~(host[h].count < Tests) /\ \E k \in Deltas : Goes(h, Prepared(host[h], k), Wire(h, Sent(t, h, <<Delta(k)>>)))
  BY DEF GetEcho, t, c
<1>9. ~(host[h].count < Tests) => host[h].count >= Tests
  BY <1>2
<1> QED
  BY <1>6, <1>7, <1>8, <1>9

(* The client begins to read the settings. *)
LEMMA StepJoin ==
    ASSUME IInv, NEW h \in Hosts, Join(h) PROVE IInv'
<1> DEFINE r == [host[h] EXCEPT !.trap = "none", !.at = "settings"]
           c == Conn(h)
<1>1. /\ host[h] \in HostRec /\ Fields(host[h], made) /\ Steady(host[h])
      /\ host[h].at = "run" /\ host[h].trap = "join" /\ made' = made
      /\ host' = [host EXCEPT ![h] = r] /\ net' = net
  BY DEF IInv, Types, Join, Running, Goes
<1>2. Phase(host[h]) = "settings" /\ host[h].mode = "idle" /\ host[h].listen # "open"
  BY <1>1 DEF Phase, Steady, Ends
<1>3. /\ r \in HostRec /\ r.trap = "none" /\ r.at = "settings"
      /\ \A f \in {"mode", "listen", "sock", "freed", "count", "delta", "left"} : r[f] = host[h][f]
  BY <1>1 DEF HostRec, Waits
<1> HIDE DEF r, c
<1>4. Fields(r, made) /\ Steady(r) /\ Phase(r) = "settings"
  BY <1>1, <1>2, <1>3 DEF Fields, Steady, Ends, Phase
<1>5. CASE ~Usable(h)
  BY <1>1, <1>3, <1>4, <1>5, StepOff DEF Usable
<1>6. CASE Usable(h)
  <2>1. /\ c \in ConnRec /\ c.queued = "none" /\ c = net[host[h].sock] /\ host[h].sock \in Conns
        /\ Fits("settings", c.wire[h], c.reset) /\ Quiet(h)
        /\ On(Other(h), host[h].sock) =>
               /\ Fits(Phase(host[Other(h)]), c.wire[Other(h)], FALSE)
               /\ Match(host[h], host[Other(h)], c.wire[h], c.wire[Other(h)])
    BY <1>2, <1>6, Ours DEF c
  <2>2. net' = [net EXCEPT ![host[h].sock] = c] /\ r.sock = host[h].sock /\ ~r.freed
    BY <1>1, <1>3, <1>6, <2>1 DEF IInv, Types, Usable
  <2>3. Match(host[h], host[Other(h)], c.wire[h], c.wire[Other(h)])
            => Match(r, host[Other(h)], c.wire[h], c.wire[Other(h)])
    BY <1>2, <1>4 DEF Match, Joint
  <2>4. Right(h, r, c)
    BY <1>2, <1>4, <2>1, <2>3 DEF Right, Quiet, InPlay, c
  <2> QED
    BY <1>1, <1>2, <1>3, <1>4, <1>6, <2>1, <2>2, <2>4, StepOwn DEF c
<1> QED
  BY <1>5, <1>6

(* The client has the settings and the snapshot is read: the tests begin.  Or it
   is not, and the client gives up. *)
LEMMA StepGetSettings ==
    ASSUME IInv, NEW h \in Hosts, GetSettings(h) PROVE IInv'
<1> DEFINE c == Conn(h)
           d == Taken(c, h)
           g == Other(h)
           q == [host[h] EXCEPT !.mode = "client", !.at = "test", !.count = 1]
           p == [host[h] EXCEPT !.at = "run"]
<1>1. /\ host[h] \in HostRec /\ Fields(host[h], made) /\ Steady(host[h])
      /\ host[h].at = "settings" /\ made' = made /\ Usable(h) /\ c.wire[h] # <<>>
      /\ net' = [net EXCEPT ![host[h].sock] = d]
      /\ host' = [host EXCEPT ![h] = q] \/ host' = [host EXCEPT ![h] = p]
  BY DEF IInv, Types, GetSettings, Comes, Goes, Wire
<1>2. /\ Phase(host[h]) = "settings" /\ host[h].mode = "idle" /\ host[h].listen # "open"
      /\ host[h].trap = "none"
  BY <1>1 DEF Phase, Steady, Ends, HostRec
<1> HIDE DEF c, g
<1>3. /\ c \in ConnRec /\ c.queued = "none" /\ Fits("settings", c.wire[h], c.reset)
      /\ c.wire[h] = <<Settings, Test>> /\ ~c.reset
      /\ On(g, host[h].sock) \/ g \notin c.ends
      /\ On(g, host[h].sock) =>
             /\ Fits(Phase(host[g]), c.wire[g], FALSE)
             /\ Match(host[h], host[g], c.wire[h], c.wire[g])
  <2>1. /\ c \in ConnRec /\ c.queued = "none" /\ Fits("settings", c.wire[h], c.reset) /\ Quiet(h)
        /\ c.wire[h] \in Seq(Messages)
        /\ On(g, host[h].sock) =>
               /\ Fits(Phase(host[g]), c.wire[g], FALSE)
               /\ Match(host[h], host[g], c.wire[h], c.wire[g])
    BY <1>1, <1>2, Ours DEF c, g
  <2>2. c.wire[h] = <<Settings, Test>> /\ ~c.reset
    BY <1>1, <2>1, Firsts DEF InPlay
  <2>3. On(g, host[h].sock) \/ g \notin c.ends
    BY <1>1, <1>2, <2>1 DEF Quiet, InPlay, c, g
  <2> QED
    BY <2>1, <2>2, <2>3
<1>4. /\ d \in ConnRec /\ d.ends = c.ends /\ d.queued = "none" /\ ~d.reset
      /\ d.wire[h] = <<Test>> /\ d.wire[g] = c.wire[g] /\ <<Test>> # <<>>
  BY <1>1, <1>3, TakenFields, Streams DEF g
<1> HIDE DEF d
<1>5. ASSUME On(g, host[h].sock)
      PROVE  /\ Phase(host[g]) = "echo" /\ d.wire[g] = <<>> /\ host[g].count = 1
             /\ Fits(Phase(host[g]), d.wire[g], FALSE)
  BY <1>2, <1>3, <1>4, <1>5 DEF Match, Joint
<1>6. CASE host' = [host EXCEPT ![h] = q]
  <2>1. 1 \in 0 .. Tests + 1 /\ 1 \in 1 .. Tests
    BY NetSessionAssumption
  <2>2. q \in HostRec
    BY <1>1, <2>1 DEF HostRec, Waits
  <2>3. /\ q.mode = "client" /\ q.at = "test" /\ q.count = 1
        /\ \A f \in {"trap", "listen", "sock", "freed", "delta", "left"} : q[f] = host[h][f]
    BY <1>1, <2>2 DEF HostRec
  <2>4. host' = [host EXCEPT ![h] = q]
    BY <1>6
  <2> HIDE DEF q
  <2>5. Fields(q, made) /\ Steady(q) /\ Phase(q) = "test" /\ q.sock = host[h].sock /\ ~q.freed
    BY <1>1, <1>2, <2>1, <2>3 DEF Fields, Steady, Ends, Phase, Usable
  <2>6. On(g, host[h].sock) => Match(q, host[g], d.wire[h], d.wire[g])
    BY <1>4, <1>5, <2>3, <2>5 DEF Match, Joint
  <2>7. Right(h, q, d)
    BY <1>3, <1>4, <1>5, <2>5, <2>6 DEF Right, Fits, InPlay, g
  <2> QED
    BY <1>1, <1>2, <1>3, <1>4, <2>2, <2>4, <2>5, <2>7, StepOwn DEF c, g
<1>7. CASE host' = [host EXCEPT ![h] = p]
  <2>1. p \in HostRec
    BY <1>1 DEF HostRec
  <2>2. /\ p.at = "run"
        /\ \A f \in {"mode", "trap", "listen", "sock", "freed", "count", "delta", "left"} :
               p[f] = host[h][f]
    BY <1>1 DEF HostRec
  <2>3. host' = [host EXCEPT ![h] = p]
    BY <1>7
  <2> HIDE DEF p
  <2>4. Fields(p, made) /\ Steady(p) /\ Phase(p) = "none" /\ p.sock = host[h].sock /\ ~p.freed
    BY <1>1, <1>2, <2>2 DEF Fields, Steady, Ends, Phase, Usable
  <2>5. Right(h, p, d)
    BY <1>5, <2>4 DEF Right, g
  <2> QED
    BY <1>1, <1>2, <1>3, <1>4, <2>1, <2>3, <2>4, <2>5, StepOwn DEF c, g
<1> QED
  BY <1>1, <1>6, <1>7

(* The client answers a test packet; after the last one it waits for the delay. *)
LEMMA StepGetTest ==
    ASSUME IInv, NEW h \in Hosts, GetTest(h) PROVE IInv'
<1> DEFINE c == Conn(h)
           t == Taken(c, h)
           d == Sent(t, h, <<Echo>>)
           g == Other(h)
           w == IF host[h].count = Tests THEN "delta" ELSE "test"
           r == [host[h] EXCEPT !.count = @ + 1, !.at = w]
<1>1. /\ host[h] \in HostRec /\ Fields(host[h], made) /\ Steady(host[h])
      /\ host[h].at = "test" /\ made' = made /\ Usable(h) /\ c.wire[h] # <<>>
      /\ net' = [net EXCEPT ![host[h].sock] = d] /\ host' = [host EXCEPT ![h] = r]
  BY DEF IInv, Types, GetTest, Comes, Goes, Wire
<1>2. /\ Phase(host[h]) = "test" /\ host[h].mode = "client" /\ host[h].listen # "open"
      /\ host[h].trap = "none" /\ host[h].count \in 1 .. Tests /\ Tests \in Nat
  BY <1>1, NetSessionAssumption DEF Phase, Steady, Ends, HostRec
<1> HIDE DEF c, g
<1>3. /\ c \in ConnRec /\ c.queued = "none" /\ c.wire[h] = <<Test>> /\ ~c.reset
      /\ On(g, host[h].sock) \/ g \notin c.ends
      /\ On(g, host[h].sock) =>
             g \in c.ends /\ Match(host[h], host[g], c.wire[h], c.wire[g])
  <2>1. /\ c \in ConnRec /\ c.queued = "none" /\ Fits("test", c.wire[h], c.reset) /\ Quiet(h)
        /\ c.wire[h] \in Seq(Messages)
        /\ On(g, host[h].sock) =>
               g \in c.ends /\ Match(host[h], host[g], c.wire[h], c.wire[g])
    BY <1>1, <1>2, Ours DEF c, g
  <2>2. c.wire[h] = <<Test>> /\ ~c.reset
    BY <1>1, <2>1, Firsts DEF InPlay
  <2>3. On(g, host[h].sock) \/ g \notin c.ends
    BY <1>1, <1>2, <2>1 DEF Quiet, InPlay, c, g
  <2> QED
    BY <2>1, <2>2, <2>3
<1>4. /\ t \in ConnRec /\ t.ends = c.ends /\ t.queued = "none" /\ ~t.reset
      /\ t.wire[h] = <<>> /\ t.wire[g] = c.wire[g]
  BY <1>1, <1>3, TakenFields, Streams DEF g
<1> HIDE DEF t
<1>5. /\ d \in ConnRec /\ d.ends = c.ends /\ d.queued = "none" /\ d.wire[h] = <<>>
      /\ d.reset => g \notin c.ends
      /\ g \in c.ends /\ c.wire[g] = <<>> => d.wire[g] = <<Echo>>
  <2>1. <<Echo>> \in Seq(Messages) /\ <<>> \o <<Echo>> = <<Echo>>
    BY Appended, Streams
  <2>2. /\ d \in ConnRec /\ d.ends = t.ends /\ d.queued = t.queued /\ d.wire[h] = t.wire[h]
        /\ g \in t.ends => d.wire[g] = t.wire[g] \o <<Echo>> /\ d.reset = t.reset
    BY <1>4, <2>1, SentFields DEF g
  <2> QED
    BY <1>4, <2>1, <2>2
<1> HIDE DEF d
<1>6. /\ r \in HostRec /\ r.count = host[h].count + 1 /\ r.at = w
      /\ \A f \in {"mode", "trap", "listen", "sock", "freed", "delta", "left"} : r[f] = host[h][f]
  <2>1. host[h].count + 1 \in 0 .. Tests + 1
    BY <1>2
  <2>2. r \in HostRec
    BY <1>1, <2>1 DEF HostRec, Waits
  <2> QED
    BY <1>1, <2>2 DEF HostRec
<1> HIDE DEF r
<1>7. Fields(r, made) /\ Phase(r) = w /\ r.sock = host[h].sock /\ ~r.freed
  BY <1>1, <1>2, <1>6 DEF Fields, Ends, Phase, Usable
<1>8. Steady(r)
  BY <1>1, <1>2, <1>6 DEF Steady, Ends
<1>9. ASSUME On(g, host[h].sock)
      PROVE  /\ Fits(Phase(host[g]), d.wire[g], FALSE)
             /\ Match(r, host[g], d.wire[h], d.wire[g])
  <2>1. Phase(host[g]) = "echo" /\ c.wire[g] = <<>> /\ host[g].count = host[h].count
    BY <1>1, <1>2, <1>3, <1>9 DEF Match, Joint
  <2>2. d.wire[g] = <<Echo>> /\ <<Echo>> # <<>>
    BY <1>3, <1>5, <1>9, <2>1, Streams
  <2>3. Match(r, host[g], d.wire[h], d.wire[g])
    BY <1>5, <1>6, <1>7, <2>1, <2>2 DEF Match, Joint
  <2> QED
    BY <2>1, <2>2, <2>3 DEF Fits, InPlay
<1>10. Fits(Phase(r), d.wire[h], d.reset)
  BY <1>5, <1>7 DEF Fits, InPlay
<1>11. Right(h, r, d)
  BY <1>5, <1>7, <1>9, <1>10 DEF Right, g
<1> QED
  BY <1>1, <1>2, <1>3, <1>5, <1>6, <1>7, <1>8, <1>11, StepOwn DEF c, g

(* The client has the delay, and what follows it are frames; or it has what was
   in its buffer, which nobody but itself uses. *)
LEMMA StepGetDelta ==
    ASSUME IInv, NEW h \in Hosts, GetDelta(h) PROVE IInv'
<1> DEFINE c == Conn(h)
           d == Taken(c, h)
           g == Other(h)
<1>1. /\ host[h] \in HostRec /\ Fields(host[h], made) /\ Steady(host[h])
      /\ host[h].at = "delta" /\ made' = made
  BY DEF IInv, Types, GetDelta
<1>2. /\ Phase(host[h]) = "delta" /\ host[h].mode = "client" /\ host[h].listen # "open"
      /\ host[h].trap = "none"
  BY <1>1 DEF Phase, Steady, Ends, HostRec
<1>3. PICK k \in Deltas :
          \/ Comes(h, Delta(k)) /\ Goes(h, Prepared(host[h], k), Wire(h, d))
          \/ Fails(h) /\ Goes(h, Prepared(host[h], k), net)
  BY DEF GetDelta
<1> DEFINE r == Prepared(host[h], k)
<1>4. host' = [host EXCEPT ![h] = r]
  BY <1>3 DEF Goes
<1>5. /\ r \in HostRec /\ r.at = "run" /\ r.delta = k /\ r.left = k - 1
      /\ \A f \in {"mode", "trap", "listen", "sock", "freed", "count"} : r[f] = host[h][f]
  <2>1. k \in Nat \ {0} /\ k - 1 \in Nat
    BY NetSessionAssumption
  <2> QED
    BY <1>1, <2>1 DEF HostRec, Prepared
<1> HIDE DEF r
<1>6. Fields(r, made) /\ Steady(r) /\ Phase(r) = "client"
  <2>1. k - 1 < k
    BY NetSessionAssumption
  <2> QED
    BY <1>1, <1>2, <1>5, <2>1 DEF Fields, Steady, Ends, Phase
<1>7. CASE ~Usable(h)
  <2>1. net' = net
    BY <1>3, <1>7 DEF Comes, Goes
  <2> QED
    BY <1>1, <1>4, <1>5, <1>6, <1>7, <2>1, StepOff DEF Usable
<1> HIDE DEF c, d, g
<1>8. ASSUME Usable(h)
      PROVE  /\ c \in ConnRec /\ c.queued = "none" /\ c = net[host[h].sock]
             /\ host[h].sock \in Conns
             /\ Fits("delta", c.wire[h], c.reset) /\ c.wire[h] \in Seq(Messages)
             /\ On(g, host[h].sock) =>
                    /\ Fits(Phase(host[g]), c.wire[g], FALSE)
                    /\ Match(host[h], host[g], c.wire[h], c.wire[g])
             /\ r.sock = host[h].sock /\ ~r.freed
  BY <1>2, <1>5, <1>8, Ours DEF c, g, Usable
<1>9. CASE Comes(h, Delta(k)) /\ Goes(h, Prepared(host[h], k), Wire(h, d))
  <2>1. Usable(h) /\ c.wire[h] # <<>> /\ Head(c.wire[h]) = Delta(k)
    BY <1>9 DEF Comes, c
  <2>2. net' = [net EXCEPT ![host[h].sock] = d]
    BY <1>9 DEF Goes, Wire
  <2>3. /\ d \in ConnRec /\ d.ends = c.ends /\ d.queued = "none" /\ d.reset = c.reset
        /\ d.wire[h] = Tail(c.wire[h]) /\ d.wire[g] = c.wire[g]
    BY <1>8, <2>1, TakenFields DEF d, g
  <2>4. FramesFrom(c.wire[h], 2) /\ c.wire[h][1] = Delta(k) /\ FramesFrom(d.wire[h], 1)
    BY <1>8, <2>1, <2>3, Shortened DEF Fits
  <2>5. ASSUME On(g, host[h].sock)
        PROVE  Match(r, host[g], d.wire[h], d.wire[g]) /\ Fits(Phase(host[g]), d.wire[g], FALSE)
    <3>1. /\ Phase(host[g]) = "server" /\ host[g].delta # 0
          /\ Delta(host[g].delta) = Delta(k)
      BY <1>2, <1>8, <2>1, <2>4, <2>5 DEF Match, Joint
    <3>2. host[g].delta = k
      BY <3>1, Messages1
    <3> QED
      BY <1>5, <1>6, <1>8, <2>1, <2>3, <2>5, <3>1, <3>2 DEF Match, Joint
  <2>6. Right(h, r, d)
    BY <1>6, <2>4, <2>5 DEF Right, Fits, InPlay, g
  <2> QED
    BY <1>1, <1>2, <1>4, <1>5, <1>6, <1>8, <2>1, <2>2, <2>3, <2>6, StepOwn DEF c
<1>10. CASE Usable(h) /\ Fails(h) /\ Goes(h, Prepared(host[h], k), net)
  <2>1. net' = [net EXCEPT ![host[h].sock] = c]
    BY <1>8, <1>10 DEF Goes, IInv, Types
  <2>2. ~On(g, host[h].sock) /\ c.reset
    BY <1>2, <1>10, Alone DEF g, c
  <2>3. c.wire[h] = <<>>
    BY <1>8, <1>10, <2>2 DEF Fits, InPlay
  <2>4. Right(h, r, c)
    BY <1>6, <2>2, <2>3 DEF Right, Fits, InPlay, FramesFrom, g
  <2> QED
    BY <1>1, <1>2, <1>4, <1>5, <1>6, <1>8, <1>10, <2>1, <2>4, StepOwn DEF c
<1> QED
  BY <1>3, <1>7, <1>9, <1>10

(* The other steps of connecting end: a host that is in a session by then plays
   it, on a connection that is reset. *)
LEMMA StepConnectingFails ==
    ASSUME IInv, NEW h \in Hosts, ConnectingFails(h) PROVE IInv'
<1> DEFINE r == [host[h] EXCEPT !.at = "run"]
           c == Conn(h)
<1>1. /\ host[h] \in HostRec /\ Fields(host[h], made) /\ Steady(host[h])
      /\ host[h].at \in {"settings", "echo", "test"} /\ made' = made /\ net' = net
      /\ host' = [host EXCEPT ![h] = r] /\ Fails(h)
  BY DEF IInv, Types, ConnectingFails, Goes
<1>2. /\ Phase(host[h]) = host[h].at /\ host[h].trap = "none"
      /\ host[h].at = "settings" => host[h].mode = "idle"
      /\ host[h].at = "test" => host[h].mode = "client"
      /\ host[h].at = "echo" => host[h].mode = "connected"
      /\ host[h].listen = "open" <=> host[h].mode \in {"server", "connected"}
  BY <1>1 DEF Phase, Steady, Ends, HostRec
<1>3. /\ r \in HostRec /\ r.at = "run"
      /\ \A f \in {"mode", "trap", "listen", "sock", "freed", "count", "delta", "left"} :
             r[f] = host[h][f]
  BY <1>1 DEF HostRec
<1> HIDE DEF r, c
<1>4. Fields(r, made) /\ Steady(r) /\ Phase(r) \in InPlay \cup {"none"}
  BY <1>1, <1>2, <1>3 DEF Fields, Steady, Ends, Phase, InPlay
<1>5. CASE ~Usable(h)
  BY <1>1, <1>3, <1>4, <1>5, StepOff DEF Usable
<1>6. CASE Usable(h)
  <2>1. /\ c \in ConnRec /\ c.queued = "none" /\ c = net[host[h].sock] /\ host[h].sock \in Conns
        /\ Fits(Phase(host[h]), c.wire[h], c.reset) /\ Phase(host[h]) \notin InPlay
        /\ Phase(host[h]) # "none"
    BY <1>1, <1>2, <1>6, Ours DEF c, InPlay
  <2>2. net' = [net EXCEPT ![host[h].sock] = c] /\ r.sock = host[h].sock /\ ~r.freed
    BY <1>1, <1>3, <1>6, <2>1 DEF IInv, Types, Usable
  <2>3. ~On(Other(h), host[h].sock) /\ c.reset
    BY <1>1, <1>6, <2>1, Alone DEF c
  <2>4. c.wire[h] = <<>>
    BY <2>1, <2>3 DEF Fits
  <2>5. Right(h, r, c)
    BY <1>4, <2>3, <2>4 DEF Right, Fits, InPlay, FramesFrom
  <2> QED
    BY <1>1, <1>3, <1>4, <1>6, <2>1, <2>2, <2>5, StepOwn DEF c
<1> QED
  BY <1>5, <1>6

(* The hook crashes: a host without lists is in a session by itself. *)
LEMMA StepHookWithoutLists ==
    ASSUME IInv, NEW h \in Hosts, HookWithoutLists(h) PROVE IInv'
<1> DEFINE r == [host[h] EXCEPT !.at = "crashed"]
           c == Conn(h)
<1>1. /\ host[h] \in HostRec /\ Fields(host[h], made) /\ Steady(host[h])
      /\ host[h].at = "run" /\ host[h].trap = "none" /\ host[h].mode \in {"connected", "client"}
      /\ host[h].delta = 0 /\ made' = made /\ net' = net /\ host' = [host EXCEPT ![h] = r]
  BY DEF IInv, Types, HookWithoutLists, Playing, Running, Goes
<1>2. Phase(host[h]) \in InPlay
  BY <1>1 DEF Phase, InPlay
<1>3. /\ r \in HostRec /\ r.at = "crashed"
      /\ \A f \in {"mode", "trap", "listen", "sock", "freed", "count", "delta", "left"} :
             r[f] = host[h][f]
  BY <1>1 DEF HostRec, Ends
<1> HIDE DEF r, c
<1>4. Fields(r, made) /\ Steady(r) /\ Phase(r) = "none"
  BY <1>1, <1>3 DEF Fields, Steady, Ends, Phase
<1>5. CASE ~Usable(h)
  BY <1>1, <1>3, <1>4, <1>5, StepOff DEF Usable
<1>6. CASE Usable(h)
  <2>1. /\ c \in ConnRec /\ c.queued = "none" /\ c = net[host[h].sock] /\ host[h].sock \in Conns
        /\ On(Other(h), host[h].sock) =>
               Match(host[h], host[Other(h)], c.wire[h], c.wire[Other(h)])
    BY <1>2, <1>6, Ours DEF c, InPlay
  <2>2. net' = [net EXCEPT ![host[h].sock] = c] /\ r.sock = host[h].sock /\ ~r.freed
    BY <1>1, <1>3, <1>6, <2>1 DEF IInv, Types, Usable
  <2>3. ~On(Other(h), host[h].sock)
    BY <1>1, <1>2, <2>1 DEF Match, Joint, InPlay
  <2>4. Right(h, r, c)
    BY <1>4, <2>3 DEF Right
  <2> QED
    BY <1>1, <1>2, <1>3, <1>4, <1>6, <2>1, <2>2, <2>4, StepOwn DEF c, InPlay
<1> QED
  BY <1>5, <1>6

(* The hook sends a frame.  A client may not have its delay yet: the frames come
   after it. *)
LEMMA StepHookSend ==
    ASSUME IInv, NEW h \in Hosts, HookSend(h) PROVE IInv'
<1> DEFINE r == IF host[h].left = 0 THEN [host[h] EXCEPT !.at = "frame"]
                                    ELSE [host[h] EXCEPT !.left = @ - 1]
           c == Conn(h)
           d == Sent(c, h, <<Frame>>)
           g == Other(h)
<1>1. /\ host[h] \in HostRec /\ Fields(host[h], made) /\ Steady(host[h])
      /\ host[h].at = "run" /\ host[h].trap = "none" /\ host[h].mode \in {"connected", "client"}
      /\ host[h].delta # 0 /\ made' = made /\ host' = [host EXCEPT ![h] = r] /\ Usable(h)
      /\ net' = [net EXCEPT ![host[h].sock] = d]
  BY DEF IInv, Types, HookSend, Playing, Running, Goes, Wire
<1>2. /\ Phase(host[h]) \in InPlay
      /\ host[h].listen = "open" <=> host[h].mode \in {"server", "connected"}
  BY <1>1 DEF Phase, InPlay, Steady, Ends
<1>3. /\ r \in HostRec /\ r.at \in {"run", "frame"} /\ r.left <= host[h].left
      /\ \A f \in {"mode", "trap", "listen", "sock", "freed", "count", "delta"} : r[f] = host[h][f]
  <2>1. CASE host[h].left = 0
    <3>1. [host[h] EXCEPT !.at = "frame"] \in HostRec
      BY <1>1 DEF HostRec, Waits
    <3> QED
      BY <1>1, <2>1, <3>1 DEF HostRec
  <2>2. CASE host[h].left # 0
    <3>1. host[h].left \in Nat /\ host[h].left - 1 \in Nat
      BY <1>1, <2>2 DEF HostRec
    <3>2. [host[h] EXCEPT !.left = @ - 1] \in HostRec
      BY <1>1, <3>1 DEF HostRec
    <3> QED
      BY <1>1, <2>2, <3>1, <3>2 DEF HostRec
  <2> QED
    BY <2>1, <2>2
<1> HIDE DEF r, c, g
<1>4. /\ Fields(r, made) /\ Steady(r) /\ Phase(r) = Phase(host[h])
      /\ r.sock = host[h].sock /\ ~r.freed
  <2>1. host[h].left \in Nat /\ r.left \in Nat /\ host[h].delta \in Nat
    BY <1>1, <1>3, NetSessionAssumption DEF HostRec
  <2>2. Fields(r, made)
    BY <1>1, <1>3, <2>1 DEF Fields
  <2> QED
    BY <1>1, <1>2, <1>3, <2>2 DEF Steady, Ends, Phase, Usable
<1>5. /\ c \in ConnRec /\ c.queued = "none" /\ Fits(Phase(host[h]), c.wire[h], c.reset)
      /\ c.wire[g] \in Seq(Messages)
      /\ On(g, host[h].sock) =>
             /\ g \in c.ends /\ Fits(Phase(host[g]), c.wire[g], FALSE)
             /\ Match(host[h], host[g], c.wire[h], c.wire[g])
  BY <1>1, <1>2, Ours DEF c, g, InPlay
<1>6. <<Frame>> \in Seq(Messages)
  BY Streams
<1>7. /\ d \in ConnRec /\ d.ends = c.ends /\ d.queued = "none" /\ d.wire[h] = c.wire[h]
      /\ g \in c.ends => d.wire[g] = c.wire[g] \o <<Frame>> /\ d.reset = c.reset
  <2>1. c \in ConnRec
    BY <1>5
  <2>2. /\ d \in ConnRec /\ d.ends = c.ends /\ d.queued = c.queued /\ d.wire[h] = c.wire[h]
        /\ g \in c.ends => d.wire[g] = c.wire[g] \o <<Frame>> /\ d.reset = c.reset
    BY <1>6, <2>1, SentFields DEF g
  <2> HIDE DEF d
  <2> QED
    BY <1>5, <2>2
<1> HIDE DEF d
<1>8. ASSUME On(g, host[h].sock)
      PROVE  /\ Fits(Phase(host[g]), d.wire[g], FALSE)
             /\ Match(r, host[g], d.wire[h], d.wire[g])
  <2> DEFINE w == c.wire[g]
             v == w \o <<Frame>>
  <2>1. /\ w \in Seq(Messages) /\ d.wire[g] = v
        /\ w # <<>> => v # <<>> /\ v[1] = w[1]
        /\ \A i \in Nat \ {0} : FramesFrom(w, i) => FramesFrom(v, i)
    BY <1>5, <1>6, <1>7, <1>8, Appended
  <2> HIDE DEF v
  <2>2. /\ Match(host[h], host[g], c.wire[h], w) /\ Fits(Phase(host[g]), w, FALSE)
    BY <1>5, <1>8
  <2>3. CASE Phase(host[g]) = "delta"
    <3>1. Phase(host[h]) = "server" /\ w # <<>> /\ c.wire[h] = <<>>
          /\ host[h].delta # 0 /\ w[1] = Delta(host[h].delta)
      BY <1>2, <2>2, <2>3 DEF Match, Joint, InPlay
    <3>2. Match(r, host[g], d.wire[h], v)
      BY <1>3, <1>4, <1>7, <2>1, <2>3, <3>1 DEF Match, Joint
    <3>3. Fits("delta", v, FALSE)
      BY <2>1, <2>2, <2>3, <3>1 DEF Fits, InPlay
    <3> QED
      BY <2>1, <2>3, <3>2, <3>3
  <2>4. CASE Phase(host[g]) # "delta"
    <3>1. Phase(host[g]) \in InPlay
      BY <1>2, <2>2, <2>4 DEF Match, Joint, InPlay
    <3>2. Match(r, host[g], d.wire[h], v)
      BY <1>2, <1>3, <1>4, <2>2, <3>1 DEF Match, Joint, InPlay
    <3>3. Fits(Phase(host[g]), v, FALSE)
      BY <2>1, <2>2, <3>1 DEF Fits, InPlay
    <3> QED
      BY <2>1, <3>2, <3>3
  <2> QED
    BY <2>3, <2>4
<1>9. Fits(Phase(r), d.wire[h], d.reset)
  BY <1>2, <1>4, <1>5, <1>7 DEF Fits, InPlay
<1>10. Right(h, r, d)
  BY <1>2, <1>4, <1>8, <1>9 DEF Right, InPlay, g
<1> QED
  BY <1>1, <1>2, <1>3, <1>4, <1>5, <1>7, <1>10, StepOwn DEF c, g, InPlay

(* The hook cannot send: the host disconnects, and perhaps once more. *)
LEMMA StepHookSendFails ==
    ASSUME IInv, NEW h \in Hosts, HookSendFails(h) PROVE IInv'
<1> DEFINE s == Disconnected(Me(h), h)
           t == IF Dead(s) THEN s
                ELSE IF s.me.left = 0 THEN Disconnected(s, h)
                ELSE [s EXCEPT !.me.left = @ - 1]
<1>1. /\ host[h] \in HostRec /\ Fields(host[h], made) /\ Steady(host[h]) /\ host[h].at = "run"
      /\ made' = made /\ host' = [host EXCEPT ![h] = t.me] /\ net' = t.net
      /\ Me(h) = [me |-> host[h], net |-> net]
  BY DEF IInv, Types, HookSendFails, Playing, Running, Goes, Me
<1>2. Leaving(Me(h), h) /\ Me(h).me = host[h]
  BY <1>1, Leaves
<1> HIDE DEF t
<1>3. /\ Leaving(s, h) /\ Gone(s.me) /\ s.me.at \in {"run", "asserted"} /\ Steady(s.me)
  BY <1>1, <1>2, Disconnecting
<1> HIDE DEF s
<1>4. Leaving(t, h) /\ Gone(t.me) /\ Steady(t.me)
  <2>1. CASE Dead(s)
    BY <1>3, <2>1 DEF t
  <2>2. CASE ~Dead(s) /\ s.me.left = 0
    <3>1. s.me.at = "run" /\ t = Disconnected(s, h)
      BY <1>3, <2>2 DEF t, Dead, Ends
    <3> QED
      BY <1>3, <3>1, Disconnecting
  <2>3. CASE ~Dead(s) /\ s.me.left # 0
    <3>1. s \in [me : HostRec, net : [Conns -> ConnRec]] /\ Fields(s.me, made)
      BY <1>3 DEF Leaving
    <3>2. t = [me |-> [s.me EXCEPT !.left = s.me.left - 1], net |-> s.net]
      BY <2>3, <3>1 DEF t
    <3>3. /\ t.net = s.net /\ s.me \in HostRec
          /\ t.me = [s.me EXCEPT !.left = s.me.left - 1]
      BY <3>1, <3>2
    <3>4. s.me.left \in Nat /\ s.me.left - 1 \in Nat
      BY <2>3, <3>3 DEF HostRec
    <3>5. /\ t.me \in HostRec /\ t.me.left = s.me.left - 1
          /\ \A f \in {"mode", "trap", "at", "listen", "sock", "freed", "count", "delta"} :
                 t.me[f] = s.me[f]
      BY <3>3, <3>4 DEF HostRec
    <3>6. s.me.delta \in Nat
      BY <3>3, NetSessionAssumption DEF HostRec
    <3>7. t \in [me : HostRec, net : [Conns -> ConnRec]]
      BY <3>1, <3>2, <3>3, <3>5
    <3>8. Fields(t.me, made)
      BY <3>1, <3>4, <3>5, <3>6 DEF Fields
    <3>9. Leaving(t, h) /\ Gone(t.me)
      BY <1>3, <3>3, <3>5, <3>7, <3>8 DEF Leaving, Gone
    <3> QED
      BY <1>3, <3>5, <3>9 DEF Steady
  <2> QED
    BY <2>1, <2>2, <2>3
<1> QED
  BY <1>1, <1>4, StepClose

(* A host that waits for a frame, and what it is when it has stopped to. *)
LEMMA Waiting ==
    ASSUME IInv, NEW h \in Hosts, host[h].at = "frame"
    PROVE  LET r == [host[h] EXCEPT !.at = "run"]
           IN /\ r \in HostRec /\ Fields(r, made) /\ Steady(r) /\ r.at = "run"
              /\ Phase(r) = Phase(host[h]) /\ Phase(r) \in InPlay
              /\ r.sock = host[h].sock /\ r.freed = host[h].freed
              /\ r.delta = host[h].delta
<1> DEFINE r == [host[h] EXCEPT !.at = "run"]
<1>1. host[h] \in HostRec /\ Fields(host[h], made) /\ Steady(host[h])
  BY DEF IInv, Types
<1>2. /\ r \in HostRec /\ r.at = "run"
      /\ \A f \in {"mode", "trap", "listen", "sock", "freed", "count", "delta", "left"} :
             r[f] = host[h][f]
  BY <1>1 DEF HostRec
<1> HIDE DEF r
<1>3. /\ host[h].trap = "none" /\ host[h].mode \in {"connected", "client"}
      /\ host[h].listen = "open" <=> host[h].mode \in {"server", "connected"}
  BY <1>1 DEF Steady, Ends, HostRec
<1>4. Fields(r, made) /\ Steady(r) /\ Phase(r) = Phase(host[h]) /\ Phase(r) \in InPlay
  BY <1>1, <1>2, <1>3 DEF Fields, Steady, Ends, Phase, InPlay
<1> QED
  BY <1>2, <1>4 DEF r

(* A frame arrives: the session goes on, or ends because of what is in it. *)
LEMMA StepGetFrame ==
    ASSUME IInv, NEW h \in Hosts, GetFrame(h) PROVE IInv'
<1> DEFINE r == [host[h] EXCEPT !.at = "run"]
           c == Conn(h)
           d == Taken(c, h)
           g == Other(h)
           n == [net EXCEPT ![host[h].sock] = d]
           s == [me |-> r, net |-> n]
           t == Disconnected(s, h)
<1>1. /\ host[h].at = "frame" /\ made' = made /\ Usable(h) /\ c.wire[h] # <<>>
      /\ \/ host' = [host EXCEPT ![h] = s.me] /\ net' = s.net
         \/ host' = [host EXCEPT ![h] = t.me] /\ net' = t.net
  BY DEF GetFrame, Comes, Goes, Wire
<1>2. /\ r \in HostRec /\ Fields(r, made) /\ Steady(r) /\ r.at = "run"
      /\ Phase(r) = Phase(host[h]) /\ Phase(r) \in InPlay
      /\ r.sock = host[h].sock /\ r.freed = host[h].freed /\ r.delta = host[h].delta
  BY <1>1, Waiting
<1>3. s.me = r /\ s.net = n
  OBVIOUS
<1> HIDE DEF r, c, g
<1>4. /\ c \in ConnRec /\ c.queued = "none" /\ Fits(Phase(host[h]), c.wire[h], c.reset)
      /\ c.wire[h] \in Seq(Messages) /\ ~r.freed
      /\ On(g, host[h].sock) =>
             /\ Fits(Phase(host[g]), c.wire[g], FALSE)
             /\ Match(host[h], host[g], c.wire[h], c.wire[g])
  BY <1>1, <1>2, Ours DEF c, g, InPlay, Usable
<1>5. /\ d \in ConnRec /\ d.ends = c.ends /\ d.queued = c.queued /\ d.reset = c.reset
      /\ d.wire[h] = Tail(c.wire[h]) /\ d.wire[g] = c.wire[g]
  BY <1>1, <1>4, TakenFields DEF g
<1> HIDE DEF d
<1>6. CASE host' = [host EXCEPT ![h] = s.me] /\ net' = s.net
  <2>1. FramesFrom(d.wire[h], 1)
    BY <1>1, <1>2, <1>4, <1>5, Shortened DEF Fits
  <2>2. Fits(Phase(r), d.wire[h], d.reset)
    BY <1>2, <2>1 DEF Fits, InPlay
  <2>3. ASSUME On(g, host[h].sock)
        PROVE  Match(r, host[g], d.wire[h], d.wire[g]) /\ Fits(Phase(host[g]), d.wire[g], FALSE)
    <3>1. Match(host[h], host[g], c.wire[h], c.wire[g])
      BY <1>4, <2>3
    <3>2. \/ Phase(host[h]) = "client" /\ Phase(host[g]) = "server"
             /\ host[g].delta # 0 /\ host[h].delta = host[g].delta
          \/ Phase(host[g]) = "client" /\ Phase(host[h]) = "server"
             /\ host[h].delta # 0 /\ host[h].delta = host[g].delta
      BY <1>1, <1>2, <3>1 DEF Match, Joint, InPlay
    <3> QED
      BY <1>2, <1>4, <1>5, <2>3, <3>2 DEF Match, Joint
  <2>4. Right(h, r, d)
    BY <1>2, <2>2, <2>3 DEF Right, InPlay, g
  <2>5. host' = [host EXCEPT ![h] = r] /\ net' = [net EXCEPT ![host[h].sock] = d]
    BY <1>3, <1>6
  <2> QED
    BY <1>1, <1>2, <1>4, <1>5, <2>4, <2>5, StepOwn DEF c, InPlay
<1>7. CASE host' = [host EXCEPT ![h] = t.me] /\ net' = t.net
  <2>1. Near(c, d, h)
    BY <1>1, <1>5 DEF Near, g
  <2>2. Leaving(s, h)
    BY <1>1, <1>2, <1>5, <2>1, Leaves DEF c
  <2> HIDE DEF s
  <2>3. Leaving(t, h) /\ Gone(t.me) /\ Steady(t.me)
    BY <1>2, <1>3, <2>2, Disconnecting
  <2> QED
    BY <1>1, <1>7, <2>3, StepClose
<1> QED
  BY <1>1, <1>6, <1>7

(* The frame is not received: the session ends, or the hook returns as it is. *)
LEMMA StepGetFrameFails ==
    ASSUME IInv, NEW h \in Hosts, GetFrameFails(h) PROVE IInv'
<1> DEFINE r == [host[h] EXCEPT !.at = "run"]
           c == Conn(h)
           s == [me |-> r, net |-> net]
           t == Disconnected(s, h)
<1>1. /\ host[h].at = "frame" /\ made' = made /\ Fails(h)
      /\ \/ host' = [host EXCEPT ![h] = s.me] /\ net' = s.net
         \/ host' = [host EXCEPT ![h] = t.me] /\ net' = t.net
  BY DEF GetFrameFails, Goes
<1>2. /\ r \in HostRec /\ Fields(r, made) /\ Steady(r) /\ r.at = "run"
      /\ Phase(r) = Phase(host[h]) /\ Phase(r) \in InPlay
      /\ r.sock = host[h].sock /\ r.freed = host[h].freed
  BY <1>1, Waiting
<1>3. s.me = r /\ s.net = net
  OBVIOUS
<1> HIDE DEF r, c
<1>4. CASE host' = [host EXCEPT ![h] = s.me] /\ net' = s.net
  <2>1. CASE ~Usable(h)
    BY <1>1, <1>2, <1>3, <1>4, <2>1, StepOff DEF Usable
  <2>2. CASE Usable(h)
    <3>1. /\ c \in ConnRec /\ c.queued = "none" /\ c = net[host[h].sock] /\ host[h].sock \in Conns
          /\ Fits(Phase(host[h]), c.wire[h], c.reset)
      BY <1>2, <2>2, Ours DEF c, InPlay
    <3>2. net' = [net EXCEPT ![host[h].sock] = c] /\ ~r.freed
      BY <1>2, <1>3, <1>4, <2>2, <3>1 DEF IInv, Types, Usable
    <3>3. ~On(Other(h), host[h].sock)
      BY <1>1, <1>2, <2>2, Alone DEF InPlay
    <3>4. Right(h, r, c)
      BY <1>2, <3>1, <3>3 DEF Right
    <3> QED
      BY <1>1, <1>2, <1>3, <1>4, <2>2, <3>1, <3>2, <3>4, StepOwn DEF c, InPlay
  <2> QED
    BY <2>1, <2>2
<1>5. CASE host' = [host EXCEPT ![h] = t.me] /\ net' = t.net
  <2>1. Leaving(s, h)
    BY <1>2, Leaves
  <2> HIDE DEF s
  <2>2. Leaving(t, h) /\ Gone(t.me) /\ Steady(t.me)
    BY <1>2, <1>3, <2>1, Disconnecting
  <2> QED
    BY <1>1, <1>5, <2>2, StepClose
<1> QED
  BY <1>1, <1>4, <1>5

(* The user ends the session. *)
LEMMA StepUserDisconnects ==
    ASSUME IInv, NEW h \in Hosts, UserDisconnects(h) PROVE IInv'
<1> DEFINE t == Disconnected(Me(h), h)
<1>1. /\ host[h] \in HostRec /\ Fields(host[h], made) /\ Steady(host[h]) /\ host[h].at = "run"
      /\ made' = made /\ host' = [host EXCEPT ![h] = t.me] /\ net' = t.net
      /\ Me(h) = [me |-> host[h], net |-> net]
  BY DEF IInv, Types, UserDisconnects, Running, Goes, Me
<1>2. Leaving(Me(h), h) /\ Me(h).me = host[h]
  BY <1>1, Leaves
<1>3. Leaving(t, h) /\ Gone(t.me) /\ Steady(t.me)
  BY <1>1, <1>2, Disconnecting
<1> QED
  BY <1>1, <1>3, StepClose

(* The process ends, and every end it holds is closed. *)
LEMMA StepQuit ==
    ASSUME IInv, NEW h \in Hosts, Quit(h) PROVE IInv'
<1> DEFINE r == [Fresh EXCEPT !.at = "quit"]
           n == [c \in Conns |-> IF h \in net[c].ends THEN Shut(net[c], h) ELSE net[c]]
           s == [me |-> r, net |-> n]
<1>1. host' = [host EXCEPT ![h] = r] /\ net' = n /\ made' = made
  BY DEF Quit, Goes
<1>2. /\ r \in HostRec /\ Fields(r, made) /\ Steady(r) /\ Gone(r) /\ r.sock = 0
  <2>1. Fresh \in HostRec
    BY NetSessionAssumption DEF Fresh, HostRec
  <2>2. /\ r \in HostRec /\ r.at = "quit" /\ r.sock = 0 /\ ~r.freed /\ r.delta = 0
    BY <2>1 DEF Fresh, HostRec, Ends
  <2>3. made \in Nat
    BY DEF IInv, Types
  <2> HIDE DEF r
  <2> QED
    BY <2>2, <2>3 DEF Fields, Steady, Gone, Ends
<1>3. ASSUME NEW c \in Conns
      PROVE  /\ n[c] \in ConnRec
             /\ n[c] = net[c] \/ Closed(net[c], n[c], h)
             /\ h \in net[c].ends => Closed(net[c], n[c], h)
  <2>1. net[c] \in ConnRec /\ Near(net[c], net[c], h)
    BY DEF IInv, Types, Near
  <2>2. h \in net[c].ends => Closed(net[c], n[c], h)
    BY <2>1, ShutFields
  <2> QED
    BY <2>1, <2>2 DEF Closed
<1>4. s.me = r /\ s.net = n
  OBVIOUS
<1>5. n \in [Conns -> ConnRec]
  BY <1>3
<1> HIDE DEF r, n
<1>6. s \in [me : HostRec, net : [Conns -> ConnRec]]
  BY <1>2, <1>5
<1>7. Usable(h) => host[h].sock \in Conns /\ h \in net[host[h].sock].ends /\ Conn(h) = net[host[h].sock]
  BY SockConn DEF IInv, Held, Conn
<1> HIDE DEF s
<1>8. Leaving(s, h)
  BY <1>2, <1>3, <1>4, <1>6, <1>7 DEF Leaving
<1> QED
  BY <1>1, <1>2, <1>4, <1>8, StepClose
-----------------------------------------------------------------------------
(* Every step keeps the invariant. *)
LEMMA Preserved == IInv /\ [Next]_vars => IInv'
<1> SUFFICES ASSUME IInv, [Next]_vars PROVE IInv'
  OBVIOUS
<1>1. ASSUME NEW h \in Hosts, Step(h) PROVE IInv'
  <2>1. CASE GetSnapshot(h)
    BY <2>1, StepGetSnapshot
  <2>2. CASE Accept(h)
    BY <2>2, Accepting
  <2>3. CASE ServeWritesNothing(h) \/ ServeSendsNothing(h)
    BY <2>3, ServingNothing
  <2>4. CASE ServeTestFails(h)
    BY <2>4, StepServeTestFails
  <2>5. CASE Serve(h)
    BY <2>5, StepServe
  <2>6. CASE GetEcho(h)
    BY <2>6, StepGetEcho
  <2>7. CASE Join(h)
    BY <2>7, StepJoin
  <2>8. CASE GetSettings(h)
    BY <2>8, StepGetSettings
  <2>9. CASE GetTest(h)
    BY <2>9, StepGetTest
  <2>10. CASE GetDelta(h)
    BY <2>10, StepGetDelta
  <2>11. CASE ConnectingFails(h)
    BY <2>11, StepConnectingFails
  <2>12. CASE HookWithoutLists(h)
    BY <2>12, StepHookWithoutLists
  <2>13. CASE HookSend(h)
    BY <2>13, StepHookSend
  <2>14. CASE HookSendFails(h)
    BY <2>14, StepHookSendFails
  <2>15. CASE GetFrame(h)
    BY <2>15, StepGetFrame
  <2>16. CASE GetFrameFails(h)
    BY <2>16, StepGetFrameFails
  <2> QED
    BY <1>1, <2>1, <2>2, <2>3, <2>4, <2>5, <2>6, <2>7, <2>8, <2>9, <2>10, <2>11, <2>12,
       <2>13, <2>14, <2>15, <2>16 DEF Step
<1>2. CASE UNCHANGED vars
  BY <1>2 DEF vars, IInv, Types, Queue, Held, Good, Quiet, Together, On, Usable, Conn
<1>3. ASSUME NEW h \in Hosts,
             \/ StartServer(h) \/ StartServerFails(h) \/ Connect(h) \/ ConnectRefused(h)
             \/ UserDisconnects(h) \/ Quit(h)
      PROVE  IInv'
  BY <1>3, Starting, Connecting, Refused, StepUserDisconnects, StepQuit
<1> QED
  BY <1>1, <1>2, <1>3 DEF Next

(* The invariant of the session holds always. *)
THEOREM Invariance == Spec => []IInv
  BY Start, Preserved, PTL DEF Spec

(* Every field keeps its range, however a session begins and ends. *)
THEOREM TypeCorrect == Spec => []TypeOK
<1>1. IInv => TypeOK
  <2> SUFFICES ASSUME IInv PROVE TypeOK
    OBVIOUS
  <2>1. Types
    BY DEF IInv
  <2>2. ASSUME NEW h \in Hosts
        PROVE  /\ host[h].mode \in {"idle", "server", "connected", "client"}
               /\ host[h].listen \in {"null", "open", "freed"}
               /\ host[h].sock \in 0 .. made /\ (host[h].freed => host[h].sock # 0)
               /\ host[h].trap \in {"none", "serve", "join"}
               /\ host[h].at \in {"run"} \cup Waits \cup Ends
               /\ host[h].count \in 0 .. Tests + 1
               /\ host[h].delta \in {0} \cup Deltas
               /\ host[h].delta # 0 => host[h].left < host[h].delta
    <3>1. host[h] \in HostRec /\ Fields(host[h], made) /\ made \in Nat
      BY <2>1 DEF Types
    <3>2. host[h].sock \in 0 .. made
      BY <3>1 DEF HostRec, Fields
    <3> QED
      BY <3>1, <3>2 DEF HostRec, Fields
  <2>3. ASSUME NEW c \in Conns
        PROVE  /\ net[c].ends \subseteq Hosts
               /\ net[c].queued \in Hosts \cup {"none"}
               /\ \A h \in Hosts : net[c].wire[h] \in Seq(Messages)
    BY <2>1 DEF Types, ConnRec
  <2>4. made \in 0 .. MaxConns
    BY <2>1 DEF Types
  <2> QED
    BY <2>2, <2>3, <2>4 DEF TypeOK
<1> QED
  BY Invariance, <1>1, PTL

(* The port is held exactly while the mode is one of a server's: none of the
   ways out of a session keeps it or gives it up too early. *)
THEOREM PortMatchesMode == Spec => []ModeMatchesSockets
<1>1. IInv => ModeMatchesSockets
  BY DEF IInv, Steady, ModeMatchesSockets, Alive
<1> QED
  BY Invariance, <1>1, PTL

(* Two emulators at the ends of one connection have the same delay once both
   have set up their lists. *)
THEOREM DeltaAgreed == Spec => []SameDelta
<1>1. IInv => SameDelta
  <2> SUFFICES ASSUME IInv, Linked,
                      \A h \in Hosts : InSession(h) /\ host[h].at \in {"run", "frame"}
               PROVE  host["a"].delta = host["b"].delta
    BY DEF SameDelta
  <2>1. PICK c \in Conns : \A h \in Hosts : Usable(h) /\ host[h].sock = c
    BY DEF Linked
  <2>2. "a" \in Hosts /\ "b" \in Hosts /\ Other("a") = "b"
    BY Others
  <2>3. ASSUME NEW h \in Hosts PROVE On(h, c) /\ Phase(host[h]) \in InPlay
    <3>1. host[h] \in HostRec /\ Steady(host[h])
      BY DEF IInv, Types
    <3>2. host[h].trap = "none"
      BY <3>1 DEF Steady, HostRec, Ends, InSession
    <3>3. Phase(host[h]) \in InPlay
      BY <3>1, <3>2 DEF Phase, InPlay, InSession
    <3> QED
      BY <2>1, <3>3 DEF On, InPlay
  <2>4. Match(host["a"], host["b"], Conn("a").wire["a"], Conn("a").wire["b"])
    BY <2>1, <2>2, <2>3 DEF IInv, Together
  <2>5. Phase(host["a"]) \in InPlay /\ Phase(host["b"]) \in InPlay
    BY <2>2, <2>3
  <2> QED
    BY <2>4, <2>5 DEF Match, Joint, InPlay
<1> QED
  BY Invariance, <1>1, PTL

(* Whatever a host waits for is what comes first on its connection: no failure
   and no second attempt shifts the stream. *)
THEOREM StreamCorrect == Spec => []StreamInStep
<1>1. IInv => StreamInStep
  <2> SUFFICES ASSUME IInv, NEW h \in Hosts, Usable(h), Conn(h).wire[h] # <<>>, host[h].at \in Waits
               PROVE  Head(Conn(h).wire[h])[1] = host[h].at
    BY DEF StreamInStep
  <2> DEFINE w == Conn(h).wire[h]
  <2>1. CASE host[h].at = "frame"
    <3>1. Phase(host[h]) \in InPlay
      BY <2>1, Waiting
    <3>2. w \in Seq(Messages) /\ FramesFrom(w, 1)
      BY <3>1, Ours DEF InPlay, Fits
    <3> HIDE DEF w
    <3>3. Head(w) = w[1] /\ 1 \in 1 .. Len(w)
      BY <3>2 DEF w
    <3>4. w[1] = Frame
      BY <3>2, <3>3 DEF FramesFrom
    <3> QED
      BY <2>1, <3>3, <3>4, Messages1 DEF w
  <2>2. CASE host[h].at # "frame"
    <3>1. Phase(host[h]) = host[h].at /\ Phase(host[h]) \notin InPlay \cup {"none"}
      BY <2>2 DEF Phase, Waits, InPlay
    <3>2. w \in Seq(Messages) /\ Fits(host[h].at, w, Conn(h).reset) /\ host[h].at \notin InPlay
      BY <3>1, Ours
    <3> HIDE DEF w
    <3>3. w # <<>>
      BY DEF w
    <3>4. CASE host[h].at = "delta"
      <4>1. \E k \in Deltas : Head(w) = Delta(k)
        BY <3>2, <3>3, <3>4, Shortened DEF Fits
      <4> QED
        BY <3>4, <4>1, Messages1 DEF w
    <3>5. CASE host[h].at \in {"snapshot", "settings", "test", "echo"}
      <4>1. /\ host[h].at = "snapshot" => w = <<Snapshot, Settings, Test>>
            /\ host[h].at = "settings" => w = <<Settings, Test>>
            /\ host[h].at = "test" => w = <<Test>>
            /\ host[h].at = "echo" => w = <<Echo>>
        BY <3>2, <3>3, Firsts
      <4> QED
        BY <3>5, <4>1, Streams, Messages1 DEF w
    <3> QED
      BY <2>2, <3>4, <3>5 DEF Waits
  <2> QED
    BY <2>1, <2>2
<1> QED
  BY Invariance, <1>1, PTL
=============================================================================
