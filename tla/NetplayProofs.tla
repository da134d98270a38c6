------------------------------ MODULE NetplayProofs ----------------------------
(***************************************************************************)
(* The safety properties of the frames of a netplay session for every      *)
(* delta, every length of a session and everything players do, and the     *)
(* refinement of LockStep.  The argument ties the ring of a peer and the   *)
(* messages on their way to it to the lists that were sent: where each     *)
(* list of the ring comes from, by its distance from the current index,    *)
(* and the number of each list on the wire.                                *)
(***************************************************************************)
EXTENDS Netplay, SequenceTheorems, TLAPS

List == Seq(Events)
Places == {"frame", "sent", "cut", "asking", "over"}
Msg  == {<<"suspend">>} \cup {"list"} \X List

Types ==
    /\ [delta |-> delta, may |-> may] \in Sessions /\ up \in BOOLEAN /\ alarm \in BOOLEAN
    /\ ring \in [Peers -> [0 .. delta - 1 -> List]]
    /\ current \in [Peers -> 0 .. delta - 1] /\ toPlay \in [Peers -> 0 .. delta - 1]
    /\ full \in [Peers -> BOOLEAN] /\ suspended \in [Peers -> BOOLEAN]
    /\ trap \in [Peers -> BOOLEAN]
    /\ at \in [Peers -> Places]
    /\ world \in [Peers -> {"shared"} \cup Peers]
    /\ \A p \in Peers : world[p] \in {"shared", p}
    /\ wire \in [Peers -> Seq(Msg)]
    /\ sent \in [Peers -> Seq(List)]
    /\ played \in [Peers -> Seq(List \X List)]

(* How many lists a peer has played when it begins a frame after n frames. *)
Seen(n) == IF n < delta THEN 0 ELSE n - (delta - 1)

(* How far a peer is: the lists it has sent and played, and its indices.  In
   the hook, a list has been sent and the indices have not been moved yet. *)
Counts(p) ==
    /\ Len(sent[p]) <= MaxFrames
    /\ Len(played[p]) <= Len(sent[p]) /\ Len(sent[p]) <= Len(played[p]) + delta
    /\ Len(played[p]) <= Len(sent[Other(p)])
    /\ at[p] \in {"frame", "sent"} => (full[p] <=> Len(sent[p]) >= delta)
    /\ at[p] = "frame" =>
           /\ Len(played[p]) = Seen(Len(sent[p]))
           /\ ~full[p] => current[p] = Len(sent[p])
           /\ toPlay[p] = (current[p] + 1) % delta \/ (Len(sent[p]) = 0 /\ toPlay[p] = 0)
    /\ at[p] = "sent" =>
           /\ Len(sent[p]) > 0
           /\ Len(played[p]) = Seen(Len(sent[p]) - 1)
           /\ ~full[p] => current[p] = Len(sent[p]) - 1
           /\ toPlay[p] = (current[p] + 1) % delta \/ (Len(sent[p]) = 1 /\ toPlay[p] = 0)

(* The index of the list that was current j frames ago. *)
Back(c, j) == IF c >= j THEN c - j ELSE c - j + delta

(* The ring holds the last lists sent, at their distance from the current one. *)
RingHolds(p) ==
    /\ at[p] = "frame" => \A j \in 1 .. delta - 1 :
           j <= Len(sent[p]) => ring[p][Back(current[p], j)] = sent[p][Len(sent[p]) + 1 - j]
    /\ at[p] = "sent" => \A j \in 0 .. delta - 1 :
           j < Len(sent[p]) => ring[p][Back(current[p], j)] = sent[p][Len(sent[p]) - j]

(* f[i] lists of s come before message i of w, of which the first m are not in
   w any more: list i of w is the next one of s. *)
Numbers(f, w, m, s) ==
    /\ f \in [1 .. Len(w) + 1 -> Nat] /\ f[1] = m
    /\ \A i \in 1 .. Len(w) :
           \/ w[i] = <<"suspend">> /\ f[i + 1] = f[i]
           \/ f[i] < Len(s) /\ w[i] = <<"list", s[f[i] + 1]>> /\ f[i + 1] = f[i] + 1

(* What is on its way to a peer are the lists the other one has sent since
   those the peer has played, and while the connection stands, all of them. *)
InTransit(p) ==
    \E f : /\ Numbers(f, wire[p], Len(played[p]), sent[Other(p)])
           /\ up => f[Len(wire[p]) + 1] = Len(sent[Other(p)])

(* The pairs a peer has played are the lists of both, frame by frame. *)
InStep(p) == \A i \in 1 .. Len(played[p]) :
                 played[p][i] = <<sent["server"][i], sent["client"][i]>>

(* Registers in the list of frame k were recorded in that frame. *)
Tagged(p, l, k) ==
    \A i \in 1 .. Len(l) : l[i][1] = "sync" =>
        \E w \in {"shared", world[p]} : l[i] = <<"sync", <<k - 1, Seen(k - 1)>>, w>>

Recorded(p) == /\ \A k \in 1 .. Len(sent[p]) : Tagged(p, sent[p][k], k)
               /\ at[p] = "frame" => Tagged(p, ring[p][current[p]], Len(sent[p]) + 1)

IInv == /\ Types /\ NoFalseAlarm
        /\ \A p \in Peers : Counts(p) /\ RingHolds(p) /\ InTransit(p) /\ InStep(p) /\ Recorded(p)
-----------------------------------------------------------------------------
(* The other of two peers. *)
LEMMA Others ==
    /\ Peers = {"server", "client"} /\ Other("server") = "client" /\ Other("client") = "server"
    /\ \A p \in Peers : Other(p) \in Peers /\ Other(p) # p /\ Other(Other(p)) = p
    /\ \A p, r \in Peers : r = p \/ r = Other(p)
<1>1. Other("server") = "client"
  BY DEF Other, Peers
<1>2. Other("client") = "server"
  BY DEF Other, Peers
<1> QED
  BY <1>1, <1>2 DEF Peers

(* The delta is a positive number. *)
LEMMA DeltaPositive == ASSUME Types PROVE delta \in Nat /\ delta >= 1
<1>1. [delta |-> delta, may |-> may] \in [delta : Nat \ {0}, may : SUBSET Happenings]
  BY NetplayAssumption DEF Types
<1>2. [delta |-> delta, may |-> may].delta = delta
  OBVIOUS
<1> QED
  BY <1>1, <1>2

(* The index of the next list. *)
LEMMA Wraps ==
    ASSUME NEW d \in Nat, d >= 1, NEW c \in 0 .. d - 1
    PROVE  /\ (c + 1) % d = IF c = d - 1 THEN 0 ELSE c + 1
           /\ (c + 1) % d \in 0 .. d - 1
<1>1. CASE c = d - 1
  BY <1>1, SMT
<1>2. CASE c # d - 1
  BY <1>2, SMT
<1> QED BY <1>1, <1>2

(* Two lists of the ring less than a ring apart are not the same, and the one of
   j - 1 frames ago is that of j frames ago when the next frame begins. *)
LEMMA BackFacts ==
    ASSUME delta \in Nat, NEW c \in 0 .. delta - 1, NEW j \in 1 .. delta - 1,
           NEW c2, c2 = IF c = delta - 1 THEN 0 ELSE c + 1
    PROVE  /\ Back(c, j) \in 0 .. delta - 1 /\ Back(c, j) # c
           /\ Back(c, j - 1) \in 0 .. delta - 1
           /\ Back(c2, j) = Back(c, j - 1) /\ Back(c2, j) # c2
<1>1. CASE c >= j
  BY <1>1 DEF Back
<1>2. CASE c < j /\ c >= j - 1
  BY <1>2 DEF Back
<1>3. CASE c < j - 1
  BY <1>3 DEF Back
<1> QED
  BY <1>1, <1>2, <1>3

(* A list sent is numbered by the lists sent before it. *)
LEMMA NumbersList ==
    ASSUME NEW w \in Seq(Msg), NEW m \in Nat, NEW s \in Seq(List), NEW l \in List,
           NEW f, Numbers(f, w, m, s), f[Len(w) + 1] = Len(s)
    PROVE  \E g : /\ Numbers(g, Append(w, <<"list", l>>), m, Append(s, l))
                  /\ g[Len(Append(w, <<"list", l>>)) + 1] = Len(Append(s, l))
<1> DEFINE n == Len(w)
           w2 == Append(w, <<"list", l>>)
           s2 == Append(s, l)
           g == [i \in 1 .. n + 2 |-> IF i <= n + 1 THEN f[i] ELSE Len(s) + 1]
<1>1. n \in Nat /\ Len(s) \in Nat
  BY LenProperties
<1>2. /\ Len(w2) = n + 1 /\ w2[n + 1] = <<"list", l>>
      /\ \A i \in 1 .. n : w2[i] = w[i]
  BY AppendProperties DEF Msg
<1>3. /\ Len(s2) = Len(s) + 1 /\ s2[Len(s) + 1] = l
      /\ \A i \in 1 .. Len(s) : s2[i] = s[i]
  BY AppendProperties
<1>4. f \in [1 .. n + 1 -> Nat] /\ f[1] = m
  BY DEF Numbers
<1>5. /\ g \in [1 .. n + 2 -> Nat] /\ g[n + 2] = Len(s) + 1
      /\ \A i \in 1 .. n + 1 : g[i] = f[i]
  BY <1>1, <1>4
<1> HIDE DEF g, n, w2, s2
<1>6. ASSUME NEW i \in 1 .. n + 1
      PROVE  \/ w2[i] = <<"suspend">> /\ g[i + 1] = g[i]
             \/ g[i] < Len(s2) /\ w2[i] = <<"list", s2[g[i] + 1]>> /\ g[i + 1] = g[i] + 1
  <2>1. CASE i = n + 1
    <3>1. g[i] = Len(s) /\ g[i + 1] = Len(s) + 1
      BY <2>1, <1>1, <1>5 DEF n
    <3> QED
      BY <2>1, <3>1, <1>1, <1>2, <1>3
  <2>2. CASE i \in 1 .. n
    <3>1. i \in 1 .. n + 1 /\ i + 1 \in 1 .. n + 1
      BY <2>2, <1>1
    <3>2. /\ g[i] = f[i] /\ g[i + 1] = f[i + 1] /\ w2[i] = w[i] /\ f[i] \in Nat
      BY <3>1, <2>2, <1>2, <1>4, <1>5
    <3>3. f[i] < Len(s) => s2[f[i] + 1] = s[f[i] + 1] /\ f[i] < Len(s2)
      <4>1. f[i] < Len(s) => f[i] + 1 \in 1 .. Len(s)
        BY <3>2, <1>1
      <4> QED
        BY <3>2, <4>1, <1>1, <1>3
    <3>4. \/ w[i] = <<"suspend">> /\ f[i + 1] = f[i]
          \/ f[i] < Len(s) /\ w[i] = <<"list", s[f[i] + 1]>> /\ f[i + 1] = f[i] + 1
      BY <2>2 DEF Numbers, n
    <3> QED
      BY <3>2, <3>3, <3>4
  <2> QED
    BY <2>1, <2>2, <1>1
<1>7. Numbers(g, w2, m, s2)
  <2>1. Len(w2) + 1 = n + 2 /\ g[1] = m
    BY <1>1, <1>2, <1>4, <1>5
  <2>2. g \in [1 .. Len(w2) + 1 -> Nat]
    BY <2>1, <1>5
  <2> QED
    BY <2>1, <2>2, <1>2, <1>6 DEF Numbers
<1> QED
  BY <1>1, <1>2, <1>3, <1>5, <1>7 DEF w2, s2

(* A suspend message leaves the numbers as they are. *)
LEMMA NumbersSuspend ==
    ASSUME NEW w \in Seq(Msg), NEW m \in Nat, NEW s \in Seq(List), NEW f, Numbers(f, w, m, s)
    PROVE  \E g : /\ Numbers(g, Append(w, <<"suspend">>), m, s)
                  /\ g[Len(Append(w, <<"suspend">>)) + 1] = f[Len(w) + 1]
<1> DEFINE n == Len(w)
           w2 == Append(w, <<"suspend">>)
           g == [i \in 1 .. n + 2 |-> IF i <= n + 1 THEN f[i] ELSE f[n + 1]]
<1>1. n \in Nat
  BY LenProperties
<1>2. /\ Len(w2) = n + 1 /\ w2[n + 1] = <<"suspend">>
      /\ \A i \in 1 .. n : w2[i] = w[i]
  BY AppendProperties DEF Msg
<1>3. f \in [1 .. n + 1 -> Nat] /\ f[1] = m
  BY DEF Numbers
<1>4. /\ g \in [1 .. n + 2 -> Nat] /\ g[n + 2] = f[n + 1]
      /\ \A i \in 1 .. n + 1 : g[i] = f[i]
  BY <1>1, <1>3
<1> HIDE DEF g, n, w2
<1>5. ASSUME NEW i \in 1 .. n + 1
      PROVE  \/ w2[i] = <<"suspend">> /\ g[i + 1] = g[i]
             \/ g[i] < Len(s) /\ w2[i] = <<"list", s[g[i] + 1]>> /\ g[i + 1] = g[i] + 1
  <2>1. CASE i = n + 1
    BY <2>1, <1>1, <1>2, <1>4
  <2>2. CASE i \in 1 .. n
    <3>1. i \in 1 .. n + 1 /\ i + 1 \in 1 .. n + 1
      BY <2>2, <1>1
    <3>2. g[i] = f[i] /\ g[i + 1] = f[i + 1] /\ w2[i] = w[i]
      BY <3>1, <2>2, <1>2, <1>4
    <3> QED
      BY <2>2, <3>2 DEF Numbers, n
  <2> QED
    BY <2>1, <2>2, <1>1
<1>6. Numbers(g, w2, m, s)
  <2>1. Len(w2) + 1 = n + 2 /\ g[1] = m
    BY <1>1, <1>2, <1>3, <1>4
  <2>2. g \in [1 .. Len(w2) + 1 -> Nat]
    BY <2>1, <1>4
  <2> QED
    BY <2>1, <2>2, <1>2, <1>5 DEF Numbers
<1> QED
  BY <1>1, <1>2, <1>4, <1>6 DEF w2, n

(* Lists sent when nothing can be put on the wire change no number. *)
LEMMA NumbersGrow ==
    ASSUME NEW w \in Seq(Msg), NEW m \in Nat, NEW s \in Seq(List), NEW l \in List,
           NEW f, Numbers(f, w, m, s)
    PROVE  Numbers(f, w, m, Append(s, l))
<1> DEFINE s2 == Append(s, l)
<1>1. /\ Len(s) \in Nat /\ Len(s2) = Len(s) + 1
      /\ \A i \in 1 .. Len(s) : s2[i] = s[i]
  BY AppendProperties, LenProperties
<1> HIDE DEF s2
<1>2. ASSUME NEW i \in 1 .. Len(w)
      PROVE  f[i] < Len(s) => f[i] < Len(s2) /\ s2[f[i] + 1] = s[f[i] + 1]
  <2>1. f[i] \in Nat
    BY LenProperties DEF Numbers
  <2>2. f[i] < Len(s) => f[i] + 1 \in 1 .. Len(s)
    BY <2>1, <1>1
  <2> QED
    BY <2>1, <2>2, <1>1
<1>3. Numbers(f, w, m, s2)
  BY <1>2 DEF Numbers
<1> QED
  BY <1>3 DEF s2

(* The message at the head of the wire: a suspend message or the next list. *)
LEMMA NumbersHead ==
    ASSUME NEW w \in Seq(Msg), w # <<>>, NEW m \in Nat, NEW s \in Seq(List), NEW f,
           Numbers(f, w, m, s)
    PROVE  \/ Head(w) = <<"suspend">> /\ f[2] = m
           \/ m < Len(s) /\ Head(w) = <<"list", s[m + 1]>> /\ f[2] = m + 1
<1>1. Len(w) \in Nat /\ Len(w) # 0 /\ Head(w) = w[1]
  BY EmptySeq, LenProperties
<1>2. 1 \in 1 .. Len(w)
  BY <1>1
<1> QED
  BY <1>1, <1>2 DEF Numbers

(* What is left when the head is taken: the numbers of the rest. *)
LEMMA NumbersTail ==
    ASSUME NEW w \in Seq(Msg), w # <<>>, NEW m \in Nat, NEW s \in Seq(List), NEW f,
           Numbers(f, w, m, s)
    PROVE  \E g : Numbers(g, Tail(w), f[2], s) /\ g[Len(Tail(w)) + 1] = f[Len(w) + 1]
<1> DEFINE n == Len(w)
           t == Tail(w)
           g == [i \in 1 .. n |-> f[i + 1]]
<1>1. n \in Nat /\ n # 0
  BY EmptySeq, LenProperties
<1>2. Len(t) = n - 1 /\ \A i \in 1 .. n - 1 : t[i] = w[i + 1]
  BY HeadTailProperties
<1>3. f \in [1 .. n + 1 -> Nat]
  BY DEF Numbers
<1>4. g \in [1 .. n -> Nat] /\ \A i \in 1 .. n : g[i] = f[i + 1]
  BY <1>1, <1>3
<1>5. \A i \in 1 .. n :
           \/ w[i] = <<"suspend">> /\ f[i + 1] = f[i]
           \/ f[i] < Len(s) /\ w[i] = <<"list", s[f[i] + 1]>> /\ f[i + 1] = f[i] + 1
  BY DEF Numbers
<1> HIDE DEF g, t, n
<1>6. ASSUME NEW i \in 1 .. n - 1
      PROVE  \/ t[i] = <<"suspend">> /\ g[i + 1] = g[i]
             \/ g[i] < Len(s) /\ t[i] = <<"list", s[g[i] + 1]>> /\ g[i + 1] = g[i] + 1
  <2>1. i + 1 \in 1 .. n /\ i \in 1 .. n /\ t[i] = w[i + 1]
    BY <1>1, <1>2
  <2>2. g[i] = f[i + 1] /\ g[i + 1] = f[(i + 1) + 1]
    BY <2>1, <1>4
  <2> QED
    BY <2>1, <2>2, <1>5
<1>7. g[1] = f[2] /\ g[n] = f[n + 1]
  BY <1>1, <1>4
<1>8. Numbers(g, t, f[2], s)
  <2>1. Len(t) + 1 = n
    BY <1>1, <1>2
  <2>2. g \in [1 .. Len(t) + 1 -> Nat]
    BY <2>1, <1>4
  <2> QED
    BY <2>2, <1>2, <1>6, <1>7 DEF Numbers
<1> QED
  BY <1>1, <1>2, <1>7, <1>8 DEF t, n
-----------------------------------------------------------------------------
(* Each part of the invariant looks only at some of the state. *)
LEMMA Kept ==
    ASSUME NEW r \in Peers, delta' = delta
    PROVE  /\ Counts(r) /\ sent' = sent /\ UNCHANGED <<full[r], current[r], toPlay[r], at[r], played[r]>>
                  => Counts(r)'
           /\ RingHolds(r) /\ UNCHANGED <<ring[r], current[r], at[r], sent[r]>> => RingHolds(r)'
           /\ InTransit(r) /\ UNCHANGED <<wire[r], played[r], sent, up>> => InTransit(r)'
           /\ InStep(r) /\ UNCHANGED <<played[r], sent>> => InStep(r)'
           /\ Recorded(r) /\ UNCHANGED <<sent[r], ring[r], current[r], at[r], world[r]>>
                  => Recorded(r)'
<1>1. Counts(r) /\ sent' = sent /\ UNCHANGED <<full[r], current[r], toPlay[r], at[r], played[r]>>
         => Counts(r)'
  BY DEF Counts, Seen
<1>2. RingHolds(r) /\ UNCHANGED <<ring[r], current[r], at[r], sent[r]>> => RingHolds(r)'
  BY DEF RingHolds, Back
<1>3. InTransit(r) /\ UNCHANGED <<wire[r], played[r], sent, up>> => InTransit(r)'
  BY DEF InTransit
<1>4. InStep(r) /\ UNCHANGED <<played[r], sent>> => InStep(r)'
  BY DEF InStep
<1>5. Recorded(r) /\ UNCHANGED <<sent[r], ring[r], current[r], at[r], world[r]>> => Recorded(r)'
  BY DEF Recorded, Tagged, Seen
<1> QED
  BY <1>1, <1>2, <1>3, <1>4, <1>5

(* The initial states. *)
LEMMA InitIInv == Init => IInv
<1> SUFFICES ASSUME Init PROVE IInv
  OBVIOUS
<1>0. [delta |-> delta, may |-> may] \in Sessions
  <2>1. PICK s \in Sessions : delta = s.delta /\ may = s.may
    BY DEF Init
  <2>2. s \in [delta : Nat \ {0}, may : SUBSET Happenings]
    BY NetplayAssumption
  <2> QED
    BY <2>1, <2>2
<1>1. <<>> \in List /\ delta \in Nat /\ delta >= 1
  <2>1. [delta |-> delta, may |-> may] \in [delta : Nat \ {0}, may : SUBSET Happenings]
    BY <1>0, NetplayAssumption
  <2>2. [delta |-> delta, may |-> may].delta = delta
    OBVIOUS
  <2> QED
    BY <2>1, <2>2, EmptySeq DEF List
<1>2. Types
  <2>1. <<>> \in Seq(Msg) /\ <<>> \in Seq(List) /\ <<>> \in Seq(List \X List)
    BY EmptySeq
  <2>2. 0 \in 0 .. delta - 1 /\ [i \in 0 .. delta - 1 |-> <<>>] \in [0 .. delta - 1 -> List]
    BY <1>1 DEF Init
  <2> QED
    BY <1>0, <2>1, <2>2 DEF Init, Types, Places
<1>3. NoFalseAlarm
  BY DEF Init, NoFalseAlarm
<1> SUFFICES ASSUME NEW p \in Peers
             PROVE  Counts(p) /\ RingHolds(p) /\ InTransit(p) /\ InStep(p) /\ Recorded(p)
  BY <1>2, <1>3 DEF IInv
<1>4. /\ sent[p] = <<>> /\ played[p] = <<>> /\ wire[p] = <<>> /\ at[p] = "frame"
      /\ sent[Other(p)] = <<>> /\ current[p] = 0 /\ toPlay[p] = 0 /\ full[p] = FALSE
      /\ ring[p] = [i \in 0 .. delta - 1 |-> <<>>] /\ Len(<<>>) = 0
  BY Others DEF Init
<1>5. ring[p][current[p]] = <<>>
  BY <1>1, <1>4
<1>6. Counts(p)
  BY <1>1, <1>4, NetplayAssumption DEF Counts, Seen
<1>7. RingHolds(p)
  BY <1>1, <1>4 DEF RingHolds
<1>8. InTransit(p)
  <2> DEFINE f == [i \in 1 .. 1 |-> 0]
  <2>1. Numbers(f, <<>>, 0, <<>>) /\ f[Len(<<>>) + 1] = 0
    BY <1>4 DEF Numbers
  <2> QED
    BY <2>1, <1>4 DEF InTransit
<1>9. InStep(p) /\ Recorded(p)
  BY <1>4, <1>5 DEF InStep, Recorded, Tagged
<1> QED
  BY <1>6, <1>7, <1>8, <1>9

(* An entry goes into the list of the frame. *)
LEMMA PutKeeps ==
    ASSUME IInv, NEW p \in Peers, Emulating(p), NEW e \in Events, Put(p, e),
           e[1] = "sync" => e = <<"sync", <<Len(sent[p]), Seen(Len(sent[p]))>>, world[p]>>,
           trap' \in [Peers -> BOOLEAN],
           UNCHANGED <<may, delta, current, toPlay, full, suspended, at, wire, up, world, alarm,
                       sent, played>>
    PROVE  IInv'
<1> DEFINE c == current[p]
           l == ring[p][c]
<1>1. Types /\ delta \in Nat /\ delta >= 1
  BY DeltaPositive DEF IInv
<1>2. c \in 0 .. delta - 1 /\ l \in List /\ Append(l, e) \in List
  BY <1>1, AppendProperties DEF Types, List
<1>3. /\ ring' \in [Peers -> [0 .. delta - 1 -> List]]
      /\ ring'[p][c] = Append(l, e)
      /\ \A i \in 0 .. delta - 1 : i # c => ring'[p][i] = ring[p][i]
      /\ \A r \in Peers : r # p => ring'[r] = ring[r]
  BY <1>1, <1>2 DEF Put, Types
<1>4. Types' /\ NoFalseAlarm'
  BY <1>3 DEF IInv, Types, NoFalseAlarm
<1>5. ASSUME at[p] = "frame"
      PROVE  RingHolds(p)'
  <2>1. ASSUME NEW j \in 1 .. delta - 1
        PROVE  Back(c, j) \in 0 .. delta - 1 /\ Back(c, j) # c
    BY <1>1, <1>2, BackFacts
  <2>2. RingHolds(p)
    BY DEF IInv
  <2> QED
    BY <2>1, <2>2, <1>3, <1>5 DEF RingHolds, Back
<1>6. ASSUME at[p] = "frame"
      PROVE  Recorded(p)'
  <2>1. Recorded(p) /\ Tagged(p, l, Len(sent[p]) + 1) /\ Len(sent[p]) \in Nat
    BY <1>1, <1>6, LenProperties DEF IInv, Recorded, Types
  <2>2. Tagged(p, Append(l, e), Len(sent[p]) + 1)
    <3>1. /\ Len(Append(l, e)) = Len(l) + 1 /\ Append(l, e)[Len(l) + 1] = e /\ Len(l) \in Nat
          /\ \A i \in 1 .. Len(l) : Append(l, e)[i] = l[i]
      BY <1>2, AppendProperties, LenProperties DEF List
    <3>2. (Len(sent[p]) + 1) - 1 = Len(sent[p])
      BY <2>1
    <3> SUFFICES ASSUME NEW i \in 1 .. Len(Append(l, e)), Append(l, e)[i][1] = "sync"
                 PROVE  \E w \in {"shared", world[p]} :
                          Append(l, e)[i] = <<"sync", <<(Len(sent[p]) + 1) - 1, Seen((Len(sent[p]) + 1) - 1)>>, w>>
      BY DEF Tagged
    <3>3. CASE i = Len(l) + 1
      BY <3>1, <3>2, <3>3
    <3>4. CASE i \in 1 .. Len(l)
      BY <3>1, <3>4, <2>1 DEF Tagged
    <3>5. i = Len(l) + 1 \/ i \in 1 .. Len(l)
      BY <3>1
    <3> QED
      BY <3>3, <3>4, <3>5
  <2>3. Tagged(p, ring'[p][c], Len(sent[p]) + 1)
    BY <2>2, <1>3
  <2>4. /\ Recorded(p)' <=> /\ \A k \in 1 .. Len(sent[p]) : Tagged(p, sent[p][k], k)
                           /\ Tagged(p, ring'[p][c], Len(sent[p]) + 1)
    BY <1>6 DEF Recorded, Tagged, Seen
  <2> QED
    BY <2>1, <2>3, <2>4 DEF Recorded
<1>7. \A r \in Peers : Counts(r)' /\ InTransit(r)' /\ InStep(r)'
  BY Kept DEF IInv
<1>8. \A r \in Peers : r # p => RingHolds(r)' /\ Recorded(r)'
  BY <1>3, Kept DEF IInv
<1>9. ASSUME at[p] = "cut"
      PROVE  RingHolds(p)' /\ Recorded(p)'
  BY <1>9 DEF IInv, Recorded, RingHolds, Tagged, Seen
<1> QED
  BY <1>4, <1>5, <1>6, <1>7, <1>8, <1>9 DEF IInv, Emulating

(* What a player does is recorded without registers. *)
LEMMA RecordKeeps ==
    ASSUME IInv, NEW p \in Peers, NEW e \in Inputs, Record(p, e)
    PROVE  IInv'
<1>1. <<"input", e>> \in Events /\ <<"input", e>>[1] # "sync"
  BY DEF Events
<1>2. trap' \in [Peers -> BOOLEAN]
  BY DEF IInv, Types, Record
<1> QED
  BY <1>1, <1>2, PutKeeps DEF Record

(* The trap records the registers of this very frame. *)
LEMMA RecordSyncTestKeeps ==
    ASSUME IInv, NEW p \in Peers, RecordSyncTest(p)
    PROVE  IInv'
<1>1. Types /\ Counts(p) /\ at[p] = "frame"
  BY DEF IInv, RecordSyncTest
<1>2. /\ Len(sent[p]) \in 0 .. MaxFrames /\ Len(played[p]) \in 0 .. MaxFrames
      /\ Len(played[p]) = Seen(Len(sent[p])) /\ world[p] \in {"shared"} \cup Peers
  BY <1>1, LenProperties, NetplayAssumption DEF Counts, Types
<1>3. /\ Registers(p) = <<"sync", <<Len(sent[p]), Seen(Len(sent[p]))>>, world[p]>>
      /\ Registers(p) \in Events
  BY <1>2 DEF Registers, Events
<1>4. trap' \in [Peers -> BOOLEAN]
  BY <1>1 DEF Types, RecordSyncTest
<1> QED
  BY <1>1, <1>3, <1>4, PutKeeps DEF RecordSyncTest, Emulating

(* A sync test that is lost records nothing. *)
LEMMA LoseSyncTestKeeps ==
    ASSUME IInv, NEW p \in Peers, LoseSyncTest(p)
    PROVE  IInv'
<1>1. Types' /\ NoFalseAlarm'
  BY DEF IInv, Types, NoFalseAlarm, LoseSyncTest
<1>2. \A r \in Peers : Counts(r)' /\ RingHolds(r)' /\ InTransit(r)' /\ InStep(r)' /\ Recorded(r)'
  BY Kept DEF IInv, LoseSyncTest
<1> QED
  BY <1>1, <1>2 DEF IInv

(* A machine that goes astray is not what its registers were, and never again
   like the other one. *)
LEMMA GoAstrayKeeps ==
    ASSUME IInv, NEW p \in Peers, GoAstray(p)
    PROVE  IInv'
<1>1. /\ Types /\ world[p] = "shared" /\ world'[p] = p
      /\ \A r \in Peers : r # p => world'[r] = world[r]
  BY DEF IInv, Types, GoAstray
<1>2. Types'
  BY <1>1 DEF Types, GoAstray, own
<1>3. NoFalseAlarm'
  BY <1>1, Others DEF IInv, NoFalseAlarm, GoAstray, Types
<1>4. \A r \in Peers : Counts(r)' /\ RingHolds(r)' /\ InTransit(r)' /\ InStep(r)'
  BY Kept DEF IInv, GoAstray, own
<1>5. ASSUME NEW r \in Peers
      PROVE  Recorded(r)'
  <2>1. Recorded(r) /\ world[r] \in {"shared", world'[r]}
    BY <1>1 DEF IInv
  <2> QED
    BY <2>1 DEF Recorded, Tagged, Seen, GoAstray, own
<1> QED
  BY <1>2, <1>3, <1>4, <1>5 DEF IInv

(* A suspend message follows the lists on the wire. *)
LEMMA SuspendKeeps ==
    ASSUME IInv, NEW p \in Peers, Suspend(p)
    PROVE  IInv'
<1> DEFINE q == Other(p)
           w2 == Append(wire[q], <<"suspend">>)
<1>1. Types /\ q \in Peers /\ Other(q) = p /\ q # p
  BY Others DEF IInv
<1>2. wire[q] \in Seq(Msg) /\ w2 \in Seq(Msg)
  BY <1>1, AppendProperties DEF Types, Msg
<1>3. /\ wire' \in [Peers -> Seq(Msg)] /\ wire'[p] = wire[p]
      /\ wire'[q] = IF up THEN w2 ELSE wire[q]
  BY <1>1, <1>2 DEF Suspend, Send, Types
<1>4. Types' /\ NoFalseAlarm'
  BY <1>3 DEF IInv, Types, NoFalseAlarm, Suspend
<1>5. \A r \in Peers : Counts(r)' /\ RingHolds(r)' /\ InStep(r)' /\ Recorded(r)'
  BY Kept DEF IInv, Suspend
<1>6. InTransit(p)'
  BY <1>3, Kept DEF IInv, Suspend
<1>7. InTransit(q)'
  <2>1. PICK f : /\ Numbers(f, wire[q], Len(played[q]), sent[p])
                 /\ up => f[Len(wire[q]) + 1] = Len(sent[p])
    BY <1>1 DEF IInv, InTransit
  <2>2. sent[p] \in Seq(List) /\ Len(played[q]) \in Nat
    BY <1>1, LenProperties DEF Types
  <2>3. CASE up
    <3>1. \E g : /\ Numbers(g, w2, Len(played[q]), sent[p])
                 /\ g[Len(w2) + 1] = f[Len(wire[q]) + 1]
      BY <1>2, <2>1, <2>2, NumbersSuspend, ZenonT(30)
    <3> QED
      BY <1>1, <1>3, <2>1, <2>3, <3>1 DEF InTransit, Suspend
  <2>4. CASE ~up
    BY <1>1, <1>3, <2>1, <2>4 DEF InTransit, Suspend
  <2> QED
    BY <2>3, <2>4
<1> QED
  BY <1>4, <1>5, <1>6, <1>7, Others DEF IInv

(* The session ends for a peer, or comes to nothing: of what is on its way to it
   the rest may be lost with the connection. *)
LEMMA OverKeeps ==
    ASSUME IInv, NEW p \in Peers, Types', NEW a \in {"cut", "asking", "over"},
           at' = [at EXCEPT ![p] = a], up' \in {up, FALSE},
           wire' = wire \/ (~up' /\ wire' = [wire EXCEPT ![p] = <<>>]),
           \A r \in Peers \ {p} : UNCHANGED <<full[r], current[r], toPlay[r], ring[r]>>,
           UNCHANGED <<may, delta, world, alarm, sent, played>>
    PROVE  IInv'
<1>1. NoFalseAlarm'
  BY DEF IInv, NoFalseAlarm
<1>2. at'[p] = a /\ a \notin {"frame", "sent"} /\ \A r \in Peers \ {p} : at'[r] = at[r]
  BY DEF IInv, Types
<1>3. Counts(p)' /\ RingHolds(p)' /\ Recorded(p)'
  <2>1. Counts(p) /\ Recorded(p)
    BY DEF IInv
  <2>2. Counts(p)' /\ RingHolds(p)'
    BY <1>2, <2>1 DEF Counts, RingHolds
  <2>3. Recorded(p)'
    BY <1>2, <2>1 DEF Recorded, Tagged, Seen
  <2> QED
    BY <2>2, <2>3
<1>4. \A r \in Peers \ {p} : Counts(r)' /\ RingHolds(r)' /\ Recorded(r)'
  BY <1>2, Kept DEF IInv
<1>5. \A r \in Peers : InStep(r)'
  BY Kept DEF IInv
<1>6. ASSUME NEW r \in Peers, wire'[r] = wire[r]
      PROVE  InTransit(r)'
  <2>1. PICK f : /\ Numbers(f, wire[r], Len(played[r]), sent[Other(r)])
                 /\ up => f[Len(wire[r]) + 1] = Len(sent[Other(r)])
    BY DEF IInv, InTransit
  <2>2. up' => up
    BY DEF IInv, Types
  <2> QED
    BY <1>6, <2>1, <2>2 DEF InTransit
<1>7. ASSUME wire' = [wire EXCEPT ![p] = <<>>], ~up'
      PROVE  \A r \in Peers : InTransit(r)'
  <2>1. wire'[p] = <<>> /\ \A r \in Peers \ {p} : wire'[r] = wire[r]
    BY <1>7 DEF IInv, Types
  <2>2. InTransit(p)'
    <3> DEFINE f == [i \in 1 .. 1 |-> Len(played[p])]
    <3>1. Len(<<>>) = 0 /\ Len(played[p]) \in Nat
      BY EmptySeq, LenProperties DEF IInv, Types
    <3>2. Numbers(f, <<>>, Len(played[p]), sent[Other(p)])
      BY <3>1 DEF Numbers
    <3> QED
      BY <1>7, <2>1, <3>2 DEF InTransit
  <2> QED
    BY <1>6, <2>1, <2>2
<1> QED
  BY <1>1, <1>3, <1>4, <1>5, <1>6, <1>7 DEF IInv

(* What network_prepare_next_frame does to the types, and to the other side. *)
LEMMA NextFrameTypes ==
    ASSUME Types, NEW p \in Peers, NextFrame(p)
    PROVE  /\ ring' \in [Peers -> [0 .. delta - 1 -> List]]
           /\ current' \in [Peers -> 0 .. delta - 1] /\ toPlay' \in [Peers -> 0 .. delta - 1]
           /\ trap' \in [Peers -> BOOLEAN]
           /\ current'[p] = IF current[p] = delta - 1 THEN 0 ELSE current[p] + 1
           /\ toPlay'[p] = (current'[p] + 1) % delta
           /\ ring'[p][current'[p]] = <<>>
           /\ \A i \in 0 .. delta - 1 : i # current'[p] => ring'[p][i] = ring[p][i]
           /\ \A r \in Peers \ {p} : UNCHANGED <<current[r], toPlay[r], ring[r]>>
<1> DEFINE n == (current[p] + 1) % delta
<1>1. delta \in Nat /\ delta >= 1 /\ current[p] \in 0 .. delta - 1
  BY DeltaPositive DEF Types
<1>2. n = (IF current[p] = delta - 1 THEN 0 ELSE current[p] + 1) /\ n \in 0 .. delta - 1
  BY <1>1, Wraps
<1>3. (n + 1) % delta \in 0 .. delta - 1
  BY <1>1, <1>2, Wraps
<1>4. <<>> \in List
  BY EmptySeq DEF List
<1>5. /\ current' = [current EXCEPT ![p] = n]
      /\ toPlay' = [toPlay EXCEPT ![p] = (n + 1) % delta]
      /\ ring' = [ring EXCEPT ![p][n] = <<>>]
      /\ trap' = [trap EXCEPT ![p] = TRUE]
  BY DEF NextFrame
<1> HIDE DEF n
<1> QED
  BY <1>2, <1>3, <1>4, <1>5 DEF Types

(* The user ends the session. *)
LEMMA DisconnectKeeps ==
    ASSUME IInv, NEW p \in Peers, Disconnect(p)
    PROVE  IInv'
<1>1. Types' /\ up' = FALSE
  BY DEF IInv, Types, Disconnect, Places
<1> QED
  BY <1>1, OverKeeps DEF Disconnect

(* The hook ends the session while it waits for a list. *)
LEMMA HookReceiveFailsKeeps ==
    ASSUME IInv, NEW p \in Peers, HookReceiveFails(p)
    PROVE  IInv'
<1>1. Types'
  BY DEF IInv, Types, HookReceiveFails, Places
<1> QED
  BY <1>1, OverKeeps DEF HookReceiveFails

(* The hook gives up in the middle of a list. *)
LEMMA HookBodyFailsKeeps ==
    ASSUME IInv, NEW p \in Peers, HookBodyFails(p)
    PROVE  IInv'
<1>1. <<>> \in Seq(Msg)
  BY EmptySeq
<1>2. Types'
  BY <1>1 DEF IInv, Types, HookBodyFails, Places
<1>3. ~up'
  BY DEF HookBodyFails
<1> QED
  BY <1>2, <1>3, OverKeeps DEF HookBodyFails

(* The hook waits for what will never come. *)
LEMMA HookAsksForEverKeeps ==
    ASSUME IInv, NEW p \in Peers, HookAsksForEver(p)
    PROVE  IInv'
<1>1. Types'
  BY DEF IInv, Types, HookAsksForEver, Places
<1> QED
  BY <1>1, OverKeeps DEF HookAsksForEver

(* The hook ends the session when it cannot send. *)
LEMMA HookSendFailsKeeps ==
    ASSUME IInv, NEW p \in Peers, HookSendFails(p)
    PROVE  IInv'
<1>1. Types /\ Filled(p) \in BOOLEAN
  BY DEF IInv, Types, Filled
<1>2. /\ full' = [full EXCEPT ![p] = Filled(p)]
      /\ suspended' = [suspended EXCEPT ![p] = FALSE] /\ at' = [at EXCEPT ![p] = "over"]
      /\ UNCHANGED <<may, delta, wire, up, world, alarm, sent, played>>
      /\ NextFrame(p) \/ UNCHANGED <<ring, current, toPlay, trap>>
  BY DEF HookSendFails
<1>3. /\ ring' \in [Peers -> [0 .. delta - 1 -> List]]
      /\ current' \in [Peers -> 0 .. delta - 1] /\ toPlay' \in [Peers -> 0 .. delta - 1]
      /\ trap' \in [Peers -> BOOLEAN]
      /\ \A r \in Peers \ {p} : UNCHANGED <<current[r], toPlay[r], ring[r]>>
  BY <1>1, <1>2, NextFrameTypes DEF Types
<1>4. Types'
  BY <1>1, <1>2, <1>3 DEF Types, Places
<1>5. \A r \in Peers \ {p} : UNCHANGED <<full[r], current[r], toPlay[r], ring[r]>>
  BY <1>1, <1>2, <1>3 DEF Types
<1> QED
  BY <1>2, <1>4, <1>5, OverKeeps

(* A list is sent: it is numbered, and is the current one of the ring. *)
LEMMA HookSendKeeps ==
    ASSUME IInv, NEW p \in Peers, HookSend(p)
    PROVE  IInv'
<1> DEFINE q == Other(p)
           n == Len(sent[p])
           l == ring[p][current[p]]
           s2 == Append(sent[p], l)
           w2 == Append(wire[q], <<"list", l>>)
<1>1. /\ Types /\ delta \in Nat /\ delta >= 1 /\ q \in Peers /\ Other(q) = p /\ q # p
      /\ Peers = {p, q} /\ at[p] = "frame" /\ n < MaxFrames
  BY DeltaPositive, Others DEF IInv, HookSend
<1>2. /\ l \in List /\ sent[p] \in Seq(List) /\ wire[q] \in Seq(Msg) /\ n \in Nat
      /\ current[p] \in 0 .. delta - 1
  BY <1>1, LenProperties DEF Types
<1>3. /\ s2 \in Seq(List) /\ Len(s2) = n + 1 /\ s2[n + 1] = l
      /\ \A i \in 1 .. n : s2[i] = sent[p][i]
  BY <1>2, AppendProperties
<1>4. w2 \in Seq(Msg)
  BY <1>2, AppendProperties DEF Msg
<1>5. /\ wire' \in [Peers -> Seq(Msg)] /\ wire'[p] = wire[p]
      /\ wire'[q] = IF up THEN w2 ELSE wire[q]
      /\ sent' \in [Peers -> Seq(List)] /\ sent'[p] = s2 /\ sent'[q] = sent[q]
      /\ full' \in [Peers -> BOOLEAN] /\ full'[p] = Filled(p) /\ full'[q] = full[q]
      /\ at' \in [Peers -> Places] /\ at'[p] = "sent" /\ at'[q] = at[q]
      /\ suspended' \in [Peers -> BOOLEAN]
      /\ UNCHANGED <<may, delta, ring, current, toPlay, trap, up, world, alarm, played>>
  BY <1>1, <1>2, <1>3, <1>4 DEF HookSend, Send, Types, Filled, Places
<1> HIDE DEF s2, w2, q, n
<1>6. Types' /\ NoFalseAlarm'
  BY <1>5 DEF IInv, Types, NoFalseAlarm
<1>7. Counts(p)'
  <2>1. Counts(p) /\ Len(played[p]) \in Nat
    BY <1>1, LenProperties DEF IInv, Types
  <2>2. /\ n + 1 <= MaxFrames
        /\ Len(played[p]) = Seen(n) /\ Len(played[p]) <= n + 1 /\ n + 1 <= Len(played[p]) + delta
    <3>1. Len(played[p]) = Seen(n)
      BY <1>1, <2>1 DEF Counts, n
    <3>2. n + 1 <= MaxFrames
      BY <1>1, <1>2, NetplayAssumption
    <3> QED
      BY <3>1, <3>2, <1>1, <1>2 DEF Seen
  <2>3. full'[p] <=> n + 1 >= delta
    <3>1. full[p] \in BOOLEAN /\ full'[p] = (full[p] \/ current[p] = delta - 1)
      BY <1>1, <1>5 DEF Types, Filled
    <3>2. full[p] <=> n >= delta
      BY <1>1, <2>1 DEF Counts, n
    <3>3. ~full[p] => current[p] = n
      BY <1>1, <2>1 DEF Counts, n
    <3>4. CASE full[p]
      <4>1. full'[p] = TRUE
        BY <3>1, <3>4
      <4>2. n + 1 >= delta
        BY <1>1, <1>2, <3>2, <3>4
      <4> QED
        BY <4>1, <4>2
    <3>5. CASE ~full[p]
      <4>1. full'[p] <=> n = delta - 1
        BY <3>1, <3>3, <3>5
      <4>2. n = delta - 1 <=> n + 1 >= delta
        BY <1>1, <1>2, <3>2, <3>5
      <4> QED
        BY <4>1, <4>2
    <3> QED
      BY <3>4, <3>5
  <2>4. ~full'[p] => current[p] = n
    BY <1>1, <1>5, <2>1 DEF Counts, Filled, n
  <2>5. (n + 1) - 1 = n
    BY <1>2
  <2>6. toPlay[p] = (current[p] + 1) % delta \/ (n + 1 = 1 /\ toPlay[p] = 0)
    BY <1>1, <2>1 DEF Counts, n
  <2> QED
    BY <1>1, <1>2, <1>3, <1>5, <2>1, <2>2, <2>3, <2>4, <2>5, <2>6 DEF Counts, Seen, q
<1>8. Counts(q)'
  <2>1. Counts(q) /\ Len(played[q]) \in Nat
    BY <1>1, LenProperties DEF IInv, Types
  <2> QED
    BY <1>1, <1>2, <1>3, <1>5, <2>1 DEF Counts, Seen, n
<1>9. RingHolds(p)'
  <2>1. RingHolds(p)
    BY DEF IInv
  <2> SUFFICES ASSUME NEW j \in 0 .. delta - 1, j < n + 1
               PROVE  ring[p][Back(current[p], j)] = s2[(n + 1) - j]
    BY <1>3, <1>5 DEF RingHolds, Back
  <2>2. CASE j = 0
    BY <1>2, <1>3, <2>2 DEF Back
  <2>3. CASE j # 0
    <3>1. j \in 1 .. delta - 1 /\ j <= n /\ (n + 1) - j \in 1 .. n
      BY <1>1, <1>2, <2>3
    <3> QED
      <4>1. \A i \in 1 .. delta - 1 :
                 i <= n => ring[p][Back(current[p], i)] = sent[p][(n + 1) - i]
        BY <1>1, <2>1 DEF RingHolds, n
      <4>2. ring[p][Back(current[p], j)] = sent[p][(n + 1) - j]
        BY <3>1, <4>1
      <4> QED
        BY <1>3, <3>1, <4>2
  <2> QED
    BY <2>2, <2>3
<1>10. RingHolds(q)'
  BY <1>1, <1>5, Kept DEF IInv
<1>11. InTransit(p)'
  BY <1>1, <1>5 DEF IInv, InTransit, q
<1>12. InTransit(q)'
  <2>1. PICK f : /\ Numbers(f, wire[q], Len(played[q]), sent[p])
                 /\ up => f[Len(wire[q]) + 1] = Len(sent[p])
    BY <1>1 DEF IInv, InTransit
  <2>2. Len(played[q]) \in Nat
    BY <1>1, LenProperties DEF Types
  <2>3. CASE up
    <3>1. PICK g : Numbers(g, w2, Len(played[q]), s2) /\ g[Len(w2) + 1] = Len(s2)
      BY <1>2, <2>1, <2>2, <2>3, NumbersList DEF w2, s2
    <3> QED
      BY <1>1, <1>5, <2>3, <3>1 DEF InTransit
  <2>4. CASE ~up
    <3>1. Numbers(f, wire[q], Len(played[q]), s2)
      BY <1>2, <2>1, <2>2, NumbersGrow DEF s2
    <3> QED
      BY <1>1, <1>5, <2>4, <3>1 DEF InTransit
  <2> QED
    BY <2>3, <2>4
<1>13. ASSUME NEW r \in Peers
       PROVE  InStep(r)'
  <2>1. /\ InStep(r) /\ Len(played[r]) <= n /\ Len(played[r]) \in Nat
    BY <1>1, LenProperties DEF IInv, Counts, Types, n
  <2>2. \A i \in 1 .. Len(played[r]) : i \in 1 .. n
    BY <1>2, <2>1
  <2>3. \A i \in 1 .. Len(played[r]), r2 \in Peers : sent'[r2][i] = sent[r2][i]
    BY <1>1, <1>3, <1>5, <2>2
  <2> QED
    BY <1>5, <2>1, <2>3 DEF InStep, Peers
<1>14. Recorded(p)'
  <2>1. Recorded(p) /\ Tagged(p, l, n + 1)
    BY <1>1 DEF IInv, Recorded, n
  <2>2. \A k \in 1 .. n + 1 : Tagged(p, s2[k], k)
    BY <1>2, <1>3, <2>1 DEF Recorded, n
  <2> QED
    BY <1>3, <1>5, <2>2 DEF Recorded, Tagged, Seen
<1>15. Recorded(q)'
  BY <1>1, <1>5, Kept DEF IInv
<1> QED
  BY <1>1, <1>6, <1>7, <1>8, <1>9, <1>10, <1>11, <1>12, <1>13, <1>14, <1>15 DEF IInv

(* The ring after network_prepare_next_frame: what was current j - 1 frames ago
   was so j frames ago, and the oldest list has made room for a new one. *)
LEMMA NextFrameRing ==
    ASSUME Types, NEW p \in Peers, NextFrame(p), RingHolds(p), at[p] = "sent",
           at'[p] # "sent", UNCHANGED <<delta, sent>>
    PROVE  RingHolds(p)'
<1> DEFINE c == current[p]
           n == Len(sent[p])
<1>1. /\ delta \in Nat /\ delta >= 1 /\ c \in 0 .. delta - 1 /\ n \in Nat
      /\ current'[p] = IF c = delta - 1 THEN 0 ELSE c + 1
      /\ \A i \in 0 .. delta - 1 : i # current'[p] => ring'[p][i] = ring[p][i]
  BY DeltaPositive, NextFrameTypes, LenProperties DEF Types
<1>2. ASSUME NEW j \in 1 .. delta - 1, j <= n
      PROVE  ring'[p][Back(current'[p], j)] = sent[p][n + 1 - j]
  <2>1. /\ j - 1 \in 0 .. delta - 1 /\ j - 1 < n /\ n - (j - 1) = n + 1 - j
        /\ Back(current'[p], j) = Back(c, j - 1)
        /\ Back(c, j - 1) \in 0 .. delta - 1 /\ Back(c, j - 1) # current'[p]
    <3>1. j - 1 \in 0 .. delta - 1 /\ j - 1 < n /\ n - (j - 1) = n + 1 - j
      BY <1>1, <1>2
    <3>2. /\ Back(current'[p], j) = Back(c, j - 1) /\ Back(current'[p], j) # current'[p]
          /\ Back(c, j - 1) \in 0 .. delta - 1
      BY <1>1, BackFacts
    <3> QED
      BY <3>1, <3>2
  <2>2. ring[p][Back(c, j - 1)] = sent[p][n - (j - 1)]
    BY <2>1 DEF RingHolds
  <2> QED
    BY <1>1, <2>1, <2>2
<1> QED
  BY <1>2 DEF RingHolds, Back

(* A frame before the ring is full: nothing is played. *)
LEMMA HookNotFullKeeps ==
    ASSUME IInv, NEW p \in Peers, HookNotFull(p)
    PROVE  IInv'
<1> DEFINE n == Len(sent[p])
<1>1. /\ Types /\ delta \in Nat /\ delta >= 1 /\ at[p] = "sent" /\ ~full[p] /\ NextFrame(p)
      /\ Counts(p) /\ RingHolds(p) /\ Recorded(p) /\ n \in Nat
      /\ current[p] \in 0 .. delta - 1
  BY DeltaPositive, LenProperties DEF IInv, HookNotFull, Types
<1>2. /\ ring' \in [Peers -> [0 .. delta - 1 -> List]]
      /\ current' \in [Peers -> 0 .. delta - 1] /\ toPlay' \in [Peers -> 0 .. delta - 1]
      /\ trap' \in [Peers -> BOOLEAN]
      /\ current'[p] = IF current[p] = delta - 1 THEN 0 ELSE current[p] + 1
      /\ toPlay'[p] = (current'[p] + 1) % delta
      /\ ring'[p][current'[p]] = <<>>
      /\ \A r \in Peers \ {p} : UNCHANGED <<current[r], toPlay[r], ring[r]>>
  BY <1>1, NextFrameTypes
<1>3. /\ at' = [at EXCEPT ![p] = "frame"] /\ at'[p] = "frame"
      /\ \A r \in Peers \ {p} : at'[r] = at[r]
      /\ UNCHANGED <<may, delta, full, suspended, wire, up, world, alarm, sent, played>>
  BY <1>1 DEF HookNotFull, Types
<1>4. Types' /\ NoFalseAlarm'
  BY <1>2, <1>3 DEF IInv, Types, NoFalseAlarm, Places
<1>5. Counts(p)'
  <2>1. n < delta /\ n > 0 /\ current[p] = n - 1 /\ Len(played[p]) = Seen(n - 1)
    BY <1>1 DEF Counts
  <2>2. current'[p] = n /\ Seen(n - 1) = 0 /\ Seen(n) = 0
    BY <1>1, <1>2, <2>1 DEF Seen
  <2> QED
    BY <1>1, <1>2, <1>3, <2>1, <2>2 DEF Counts, Seen
<1>6. RingHolds(p)'
  BY <1>1, <1>3, NextFrameRing
<1>7. Recorded(p)'
  <2>1. \A k \in 1 .. Len(sent'[p]) : Tagged(p, sent[p][k], k)'
    BY <1>1, <1>3 DEF Recorded, Tagged, Seen
  <2>2. Tagged(p, ring[p][current[p]], Len(sent[p]) + 1)'
    BY <1>2, EmptySeq DEF Tagged
  <2> QED
    BY <2>1, <2>2 DEF Recorded
<1>8. \A r \in Peers \ {p} : Counts(r)' /\ RingHolds(r)' /\ Recorded(r)'
  BY <1>2, <1>3, Kept DEF IInv
<1>9. \A r \in Peers : InTransit(r)' /\ InStep(r)'
  BY <1>3, Kept DEF IInv
<1> QED
  BY <1>4, <1>5, <1>6, <1>7, <1>8, <1>9 DEF IInv

(* A suspend message is taken. *)
LEMMA HookWaitsKeeps ==
    ASSUME IInv, NEW p \in Peers, HookWaits(p)
    PROVE  IInv'
<1> DEFINE q == Other(p)
           t == Tail(wire[p])
<1>1. /\ Types /\ q \in Peers /\ wire[p] \in Seq(Msg) /\ sent[q] \in Seq(List)
      /\ Len(played[p]) \in Nat /\ wire[p] # <<>> /\ Head(wire[p]) = <<"suspend">>
  BY LenProperties, Others DEF IInv, Types, HookWaits
<1>2. t \in Seq(Msg)
  BY <1>1, HeadTailProperties
<1>3. /\ wire' \in [Peers -> Seq(Msg)] /\ wire'[p] = t
      /\ \A r \in Peers \ {p} : wire'[r] = wire[r]
      /\ suspended' \in [Peers -> BOOLEAN]
  BY <1>1, <1>2 DEF HookWaits, Types
<1>4. Types' /\ NoFalseAlarm'
  BY <1>3 DEF IInv, Types, NoFalseAlarm, HookWaits
<1>5. InTransit(p)'
  <2>1. PICK f : /\ Numbers(f, wire[p], Len(played[p]), sent[q])
                 /\ up => f[Len(wire[p]) + 1] = Len(sent[q])
    BY DEF IInv, InTransit
  <2>2. f[2] = Len(played[p])
    BY <1>1, <2>1, NumbersHead
  <2>3. PICK g : Numbers(g, t, f[2], sent[q]) /\ g[Len(t) + 1] = f[Len(wire[p]) + 1]
    BY <1>1, <2>1, NumbersTail
  <2> QED
    BY <1>3, <2>1, <2>2, <2>3 DEF InTransit, HookWaits
<1>6. \A r \in Peers \ {p} : InTransit(r)'
  BY <1>3, Kept DEF IInv, HookWaits
<1>7. \A r \in Peers : Counts(r)' /\ RingHolds(r)' /\ InStep(r)' /\ Recorded(r)'
  BY Kept DEF IInv, HookWaits
<1> QED
  BY <1>4, <1>5, <1>6, <1>7 DEF IInv

(* Registers that differ in the same frame are those of machines that differ. *)
LEMMA TrueAlarm ==
    ASSUME IInv, NEW k \in 1 .. Len(sent["server"]), k \in 1 .. Len(sent["client"]),
           OutOfSync(<<sent["server"][k], sent["client"][k]>>)
    PROVE  world["server"] # world["client"]
<1> DEFINE a == sent["server"][k]
           b == sent["client"][k]
<1>1. /\ "server" \in Peers /\ "client" \in Peers
      /\ sent["server"] \in Seq(List) /\ sent["client"] \in Seq(List)
      /\ world["server"] \in {"shared", "server"} /\ world["client"] \in {"shared", "client"}
  BY DEF IInv, Types, Peers
<1>2. a \in List /\ b \in List
  BY <1>1, ElementOfSeq
<1>3. /\ a # <<>> /\ b # <<>> /\ a[1][1] = "sync" /\ b[1][1] = "sync" /\ a[1] # b[1]
  BY DEF OutOfSync
<1>4. 1 \in 1 .. Len(a) /\ 1 \in 1 .. Len(b)
  BY <1>2, <1>3, EmptySeq, LenProperties DEF List
<1>5. Tagged("server", a, k) /\ Tagged("client", b, k)
  BY <1>1 DEF IInv, Recorded
<1>6. PICK v \in {"shared", world["server"]} : a[1] = <<"sync", <<k - 1, Seen(k - 1)>>, v>>
  BY <1>3, <1>4, <1>5 DEF Tagged
<1>7. PICK w \in {"shared", world["client"]} : b[1] = <<"sync", <<k - 1, Seen(k - 1)>>, w>>
  BY <1>3, <1>4, <1>5 DEF Tagged
<1>8. v # w
  BY <1>3, <1>6, <1>7
<1> QED
  BY <1>1, <1>8

(* The pair a peer plays: the lists of both sides of the next frame. *)
LEMMA NextPair ==
    ASSUME IInv, NEW p \in Peers, HookReceive(p)
    PROVE  /\ Len(played[p]) + 1 \in 1 .. Len(sent["server"])
           /\ Len(played[p]) + 1 \in 1 .. Len(sent["client"])
           /\ Pair(p, Head(wire[p])[2]) =
                 <<sent["server"][Len(played[p]) + 1], sent["client"][Len(played[p]) + 1]>>
<1> DEFINE q == Other(p)
           m == Len(played[p])
           n == Len(sent[p])
<1>1. /\ Types /\ delta \in Nat /\ delta >= 1 /\ q \in Peers /\ Counts(p) /\ RingHolds(p)
      /\ at[p] = "sent" /\ full[p] /\ wire[p] # <<>> /\ Head(wire[p])[1] = "list"
      /\ wire[p] \in Seq(Msg) /\ sent[q] \in Seq(List) /\ m \in Nat /\ n \in Nat
      /\ Len(sent[q]) \in Nat /\ current[p] \in 0 .. delta - 1
  BY DeltaPositive, Others, LenProperties DEF IInv, Types, HookReceive
<1>2. m < Len(sent[q]) /\ Head(wire[p])[2] = sent[q][m + 1]
  <2>1. PICK f : Numbers(f, wire[p], m, sent[q])
    BY DEF IInv, InTransit
  <2>2. Head(wire[p]) # <<"suspend">>
    BY <1>1
  <2>3. m < Len(sent[q]) /\ Head(wire[p]) = <<"list", sent[q][m + 1]>>
    BY <1>1, <2>1, <2>2, NumbersHead
  <2> QED
    BY <2>3
<1>3. n >= delta /\ m = n - delta
  <2>1. n >= delta /\ m = Seen(n - 1)
    BY <1>1 DEF Counts
  <2> QED
    BY <1>1, <2>1 DEF Seen
<1>4. toPlay[p] = Back(current[p], delta - 1)
  <2>1. \/ toPlay[p] = (current[p] + 1) % delta
        \/ n = 1 /\ toPlay[p] = 0
    BY <1>1 DEF Counts
  <2>2. (current[p] + 1) % delta = IF current[p] = delta - 1 THEN 0 ELSE current[p] + 1
    BY <1>1, Wraps
  <2>3. Back(current[p], delta - 1) = IF current[p] = delta - 1 THEN 0 ELSE current[p] + 1
    BY <1>1 DEF Back
  <2>4. n = 1 => current[p] = delta - 1
    BY <1>1, <1>3
  <2> QED
    BY <2>1, <2>2, <2>3, <2>4
<1>5. ring[p][toPlay[p]] = sent[p][m + 1]
  <2>1. delta - 1 \in 0 .. delta - 1 /\ delta - 1 < n /\ n - (delta - 1) = m + 1
    BY <1>1, <1>3
  <2>2. ring[p][Back(current[p], delta - 1)] = sent[p][n - (delta - 1)]
    BY <1>1, <2>1 DEF RingHolds
  <2> QED
    BY <1>4, <2>1, <2>2
<1>6. m + 1 \in 1 .. n /\ m + 1 \in 1 .. Len(sent[q])
  BY <1>1, <1>2, <1>3
<1>7. CASE p = "server"
  BY <1>2, <1>5, <1>6, <1>7, Others DEF Pair
<1>8. CASE p = "client"
  BY <1>2, <1>5, <1>6, <1>8, Others DEF Pair
<1> QED
  BY <1>7, <1>8 DEF Peers

(* Both lists are played, and a difference parts the machines. *)
LEMMA HookReceiveKeeps ==
    ASSUME IInv, NEW p \in Peers, HookReceive(p)
    PROVE  IInv'
<1> DEFINE q == Other(p)
           m == Len(played[p])
           n == Len(sent[p])
           t == Tail(wire[p])
           pair == Pair(p, Head(wire[p])[2])
           pl2 == Append(played[p], pair)
<1>1. /\ Types /\ delta \in Nat /\ delta >= 1 /\ q \in Peers /\ at[p] = "sent" /\ full[p]
      /\ NextFrame(p) /\ Counts(p) /\ RingHolds(p) /\ Recorded(p)
      /\ wire[p] # <<>> /\ wire[p] \in Seq(Msg) /\ Head(wire[p])[1] = "list"
      /\ sent[q] \in Seq(List) /\ played[p] \in Seq(List \X List)
      /\ m \in Nat /\ n \in Nat /\ current[p] \in 0 .. delta - 1
  BY DeltaPositive, LenProperties, Others DEF IInv, HookReceive, Types
<1>2. /\ m + 1 \in 1 .. Len(sent["server"]) /\ m + 1 \in 1 .. Len(sent["client"])
      /\ pair = <<sent["server"][m + 1], sent["client"][m + 1]>>
  BY NextPair
<1>3. pair \in List \X List
  <2>1. sent["server"] \in Seq(List) /\ sent["client"] \in Seq(List)
    BY <1>1 DEF Types, Peers
  <2>2. sent["server"][m + 1] \in List /\ sent["client"][m + 1] \in List
    BY <1>2, <2>1, ElementOfSeq
  <2> QED
    BY <1>2, <2>2
<1>4. /\ pl2 \in Seq(List \X List) /\ Len(pl2) = m + 1 /\ pl2[m + 1] = pair
      /\ \A i \in 1 .. m : pl2[i] = played[p][i]
  BY <1>1, <1>3, AppendProperties
<1>5. t \in Seq(Msg)
  BY <1>1, HeadTailProperties
<1>6. /\ ring' \in [Peers -> [0 .. delta - 1 -> List]]
      /\ current' \in [Peers -> 0 .. delta - 1] /\ toPlay' \in [Peers -> 0 .. delta - 1]
      /\ trap' \in [Peers -> BOOLEAN]
      /\ toPlay'[p] = (current'[p] + 1) % delta
      /\ ring'[p][current'[p]] = <<>>
      /\ \A r \in Peers \ {p} : UNCHANGED <<current[r], toPlay[r], ring[r]>>
  BY <1>1, NextFrameTypes
<1>7. /\ wire' = [wire EXCEPT ![p] = t] /\ played' = [played EXCEPT ![p] = pl2]
      /\ alarm' = (alarm \/ OutOfSync(pair)) /\ up' = (up /\ ~OutOfSync(pair))
      /\ at' = [at EXCEPT ![p] = IF OutOfSync(pair) THEN "over" ELSE "frame"]
      /\ UNCHANGED <<may, delta, full, suspended, world, sent>>
  BY DEF HookReceive
<1> HIDE DEF pair, pl2, t
<1>8. /\ wire' \in [Peers -> Seq(Msg)] /\ wire'[p] = t
      /\ played' \in [Peers -> Seq(List \X List)] /\ played'[p] = pl2
      /\ at' \in [Peers -> Places] /\ at'[p] \in {"frame", "over"}
      /\ alarm' \in BOOLEAN /\ up' \in BOOLEAN /\ (up' => up)
      /\ \A r \in Peers \ {p} : UNCHANGED <<wire[r], played[r], at[r]>>
  <2>1. /\ wire' \in [Peers -> Seq(Msg)] /\ wire'[p] = t
        /\ played' \in [Peers -> Seq(List \X List)] /\ played'[p] = pl2
        /\ \A r \in Peers \ {p} : UNCHANGED <<wire[r], played[r]>>
    BY <1>1, <1>4, <1>5, <1>7 DEF Types
  <2>2. /\ at' \in [Peers -> Places] /\ at'[p] \in {"frame", "over"}
        /\ \A r \in Peers \ {p} : at'[r] = at[r]
    BY <1>1, <1>7 DEF Types, Places
  <2>3. alarm' \in BOOLEAN /\ up' \in BOOLEAN /\ (up' => up)
    BY <1>1, <1>7 DEF Types
  <2> QED
    BY <2>1, <2>2, <2>3
<1>9. Types'
  BY <1>1, <1>6, <1>7, <1>8 DEF Types
<1>10. NoFalseAlarm'
  <2>1. CASE alarm
    BY <1>7, <2>1 DEF IInv, NoFalseAlarm
  <2>2. CASE OutOfSync(pair)
    BY <1>2, <1>7, <2>2, TrueAlarm DEF NoFalseAlarm
  <2>3. CASE ~alarm /\ ~OutOfSync(pair)
    BY <1>7, <2>3 DEF NoFalseAlarm
  <2> QED
    BY <2>1, <2>2, <2>3
<1>11. Counts(p)'
  <2>1. /\ n >= delta /\ m = Seen(n - 1) /\ m <= n /\ n <= MaxFrames
        /\ m + 1 <= n /\ m + 1 <= Len(sent[q])
    BY <1>1, <1>2, Others DEF Counts, Peers
  <2>2. m + 1 = Seen(n) /\ n <= m + 1 + delta
    BY <1>1, <2>1 DEF Seen
  <2>3. /\ sent' = sent /\ delta' = delta /\ full' = full /\ Len(played'[p]) = m + 1
        /\ at'[p] \in {"frame", "over"} /\ toPlay'[p] = (current'[p] + 1) % delta
    BY <1>4, <1>6, <1>7, <1>8
  <2>4. full[p] /\ (m + 1 <= n + delta)
    BY <1>1, <2>1
  <2> QED
    BY <2>1, <2>2, <2>3, <2>4 DEF Counts, Seen
<1>12. RingHolds(p)'
  BY <1>1, <1>7, <1>8, NextFrameRing
<1>13. InTransit(p)'
  <2>1. PICK f : /\ Numbers(f, wire[p], m, sent[q])
                 /\ up => f[Len(wire[p]) + 1] = Len(sent[q])
    BY DEF IInv, InTransit
  <2>2. Head(wire[p]) # <<"suspend">>
    BY <1>1
  <2>3. f[2] = m + 1
    BY <1>1, <2>1, <2>2, NumbersHead
  <2>4. PICK g : Numbers(g, t, f[2], sent[q]) /\ g[Len(t) + 1] = f[Len(wire[p]) + 1]
    BY <1>1, <2>1, NumbersTail DEF t
  <2> QED
    BY <1>4, <1>7, <1>8, <2>1, <2>3, <2>4 DEF InTransit
<1>14. InStep(p)'
  <2>1. \A i \in 1 .. m : played[p][i] = <<sent["server"][i], sent["client"][i]>>
    BY DEF IInv, InStep
  <2>2. ASSUME NEW i \in 1 .. m + 1
        PROVE  pl2[i] = <<sent["server"][i], sent["client"][i]>>
    <3>1. CASE i = m + 1
      BY <1>2, <1>4, <3>1
    <3>2. CASE i \in 1 .. m
      BY <1>4, <2>1, <3>2
    <3>3. i = m + 1 \/ i \in 1 .. m
      BY <1>1
    <3> QED
      BY <3>1, <3>2, <3>3
  <2> QED
    BY <1>4, <1>7, <1>8, <2>2 DEF InStep
<1>15. Recorded(p)'
  <2>1. sent' = sent /\ world' = world /\ delta' = delta /\ ring'[p][current'[p]] = <<>>
    BY <1>6, <1>7
  <2>2. \A k \in 1 .. Len(sent[p]) : Tagged(p, sent[p][k], k)
    BY <1>1 DEF Recorded
  <2>3. \A k \in 1 .. Len(sent'[p]) : Tagged(p, sent[p][k], k)'
    BY <2>1, <2>2 DEF Tagged, Seen
  <2>4. Tagged(p, ring[p][current[p]], Len(sent[p]) + 1)'
    BY <2>1, EmptySeq DEF Tagged
  <2> QED
    BY <2>3, <2>4 DEF Recorded
<1>16. ASSUME NEW r \in Peers \ {p}
       PROVE  Counts(r)' /\ RingHolds(r)' /\ InTransit(r)' /\ InStep(r)' /\ Recorded(r)'
  <2>1. /\ UNCHANGED <<delta, sent, full[r], current[r], toPlay[r], at[r], played[r], ring[r],
                       wire[r], world[r]>>
        /\ r \in Peers
    BY <1>6, <1>7, <1>8
  <2>2. Counts(r)' /\ RingHolds(r)' /\ InStep(r)' /\ Recorded(r)'
    BY <2>1, Kept DEF IInv
  <2>3. InTransit(r)'
    BY <1>8, <2>1 DEF IInv, InTransit
  <2> QED
    BY <2>2, <2>3
<1> QED
  BY <1>9, <1>10, <1>11, <1>12, <1>13, <1>14, <1>15, <1>16 DEF IInv
-----------------------------------------------------------------------------
(* Every step keeps the inductive invariant. *)
LEMMA NextIInv == IInv /\ [Next]_vars => IInv'
<1> SUFFICES ASSUME IInv, [Next]_vars PROVE IInv'
  OBVIOUS
<1>1. CASE UNCHANGED vars
  <2>1. UNCHANGED <<may, delta, ring, current, toPlay, full, suspended, trap, at, wire, up, world,
                    alarm, sent, played>>
    BY <1>1 DEF vars, own
  <2>2. Types' /\ NoFalseAlarm'
    BY <2>1 DEF IInv, Types, NoFalseAlarm
  <2>3. \A r \in Peers : Counts(r)' /\ RingHolds(r)' /\ InTransit(r)' /\ InStep(r)' /\ Recorded(r)'
    BY <2>1, Kept DEF IInv
  <2> QED
    BY <2>2, <2>3 DEF IInv
<1>2. ASSUME NEW p \in Peers, Emulate(p)
      PROVE  IInv'
  BY <1>2, RecordSyncTestKeeps, HookSendKeeps, HookSendFailsKeeps, HookNotFullKeeps,
     HookWaitsKeeps, HookReceiveKeeps, HookReceiveFailsKeeps,
     HookBodyFailsKeeps, HookAsksForEverKeeps DEF Emulate
<1>3. ASSUME NEW p \in Peers,
             \/ \E e \in Inputs : Record(p, e)
             \/ LoseSyncTest(p) \/ GoAstray(p) \/ Suspend(p) \/ Disconnect(p)
      PROVE  IInv'
  BY <1>3, RecordKeeps, LoseSyncTestKeeps, GoAstrayKeeps, SuspendKeeps, DisconnectKeeps
<1> QED
  BY <1>1, <1>2, <1>3 DEF Next

(* The inductive invariant. *)
THEOREM Invariance == Spec => []IInv
  BY InitIInv, NextIInv, PTL DEF Spec

(* The types and the indices: nothing but lists and suspend messages is ever on
   the wire, and network_prepare_next_frame keeps both indices in the ring. *)
THEOREM TypeCorrect == Spec => []TypeOK
<1>1. IInv => TypeOK
  <2> SUFFICES ASSUME IInv PROVE TypeOK
    OBVIOUS
  <2>1. Types
    BY DEF IInv
  <2>2. \A l \in List : IsList(l)
    BY ElementOfSeq, LenProperties DEF List, IsList
  <2>3. \A p \in Peers : \A i \in DOMAIN sent[p] : sent[p][i] \in List
    BY <2>1, ElementOfSeq, LenProperties DEF Types
  <2>4. \A p \in Peers : \A i \in DOMAIN wire[p] : wire[p][i] \in Msg
    BY <2>1, ElementOfSeq, LenProperties DEF Types
  <2>5. \A m \in Msg : m = <<"suspend">> \/ (m[1] = "list" /\ m[2] \in List)
    BY DEF Msg
  <2>6. ASSUME NEW p \in Peers
        PROVE  /\ DOMAIN ring[p] = 0 .. delta - 1
               /\ \A i \in DOMAIN ring[p] : ring[p][i] \in List
    <3>1. ring \in [Peers -> [0 .. delta - 1 -> List]]
      BY <2>1 DEF Types
    <3> QED
      BY <3>1
  <2>7. ASSUME NEW p \in Peers
        PROVE  /\ current[p] \in 0 .. delta - 1 /\ toPlay[p] \in 0 .. delta - 1
               /\ full[p] \in BOOLEAN /\ suspended[p] \in BOOLEAN /\ trap[p] \in BOOLEAN
               /\ at[p] \in Places /\ world[p] \in {"shared", p}
    BY <2>1 DEF Types, Places
  <2>8. [delta |-> delta, may |-> may] \in Sessions /\ up \in BOOLEAN /\ alarm \in BOOLEAN
    BY <2>1 DEF Types
  <2> QED
    BY <2>2, <2>3, <2>4, <2>5, <2>6, <2>7, <2>8 DEF TypeOK, Places
<1> QED
  BY <1>1, Invariance, PTL

(* A list is played frame_delta - 1 frames after its own, by network_hook. *)
THEOREM InTime == Spec => []PlayedInTime
<1>1. IInv => PlayedInTime
  BY DEF IInv, Counts, Seen, PlayedInTime
<1> QED
  BY <1>1, Invariance, PTL

(* The hook of a peer waits before it is a ring ahead of the other. *)
THEOREM NeverApart == Spec => []NeverFarApart
<1>1. IInv => NeverFarApart
  <2> SUFFICES ASSUME IInv, NEW p \in Peers
               PROVE  Len(sent[p]) <= Len(sent[Other(p)]) + delta
    BY DEF NeverFarApart
  <2>1. /\ Counts(p) /\ Other(p) \in Peers /\ delta \in Nat /\ Types
    BY Others, DeltaPositive DEF IInv
  <2>2. Len(sent[p]) \in Nat /\ Len(played[p]) \in Nat /\ Len(sent[Other(p)]) \in Nat
    BY <2>1, LenProperties DEF Types
  <2> QED
    BY <2>1, <2>2 DEF Counts
<1> QED
  BY <1>1, Invariance, PTL

(* The sync test tells only machines apart that are. *)
THEOREM AlarmIsTrue == Spec => []NoFalseAlarm
<1>1. IInv => NoFalseAlarm
  BY DEF IInv
<1> QED
  BY <1>1, Invariance, PTL
-----------------------------------------------------------------------------
(* Sending a list is a turn made; receiving one is a pair of turns shown. *)
LEMMA StepRefines == IInv /\ [Next]_vars => [Lists!LNext]_Lists!lvars
<1> SUFFICES ASSUME IInv, [Next]_vars PROVE [Lists!LNext]_Lists!lvars
  OBVIOUS
<1> USE DEF Lists!Peers, Lists!LNext, Lists!lvars
<1>1. ASSUME NEW p \in Peers, HookSend(p)
      PROVE  Lists!Make(p)
  <2> DEFINE l == ring[p][current[p]]
             n == Len(sent[p])
  <2>1. Types
    BY DEF IInv
  <2>2. l \in List /\ sent[p] \in Seq(List) /\ n \in Nat
    BY <2>1, LenProperties DEF Types
  <2>3. Append(sent[p], l) \in Seq(List)
        /\ Len(Append(sent[p], l)) = n + 1 /\ Append(sent[p], l)[n + 1] = l
    BY <2>2, AppendProperties
  <2>4. sent' = [sent EXCEPT ![p] = Append(sent[p], l)] /\ sent'[p] = Append(sent[p], l)
        /\ played' = played
    BY <1>1, <2>1 DEF HookSend, Types
  <2>5. n + 1 \in DOMAIN sent'[p] /\ sent'[p][n + 1] = l
    BY <2>2, <2>3, <2>4, LenProperties
  <2>6. sent' = [sent EXCEPT ![p] = Append(@, sent'[p][n + 1])]
    BY <2>4, <2>5
  <2> QED
    BY <2>4, <2>5, <2>6 DEF Lists!Make
<1>2. ASSUME NEW p \in Peers, HookReceive(p)
      PROVE  Lists!Show(p)
  <2> DEFINE n == Len(played[p]) + 1
  <2>1. /\ n \in 1 .. Len(sent["server"]) /\ n \in 1 .. Len(sent["client"])
        /\ Pair(p, Head(wire[p])[2]) = <<sent["server"][n], sent["client"][n]>>
    BY <1>2, NextPair
  <2>2. /\ played' = [played EXCEPT ![p] = Append(@, Pair(p, Head(wire[p])[2]))]
        /\ sent' = sent
    BY <1>2 DEF HookReceive
  <2>3. \A r \in Peers : n <= Len(sent[r])
    BY <2>1 DEF Peers
  <2> QED
    BY <2>1, <2>2, <2>3 DEF Lists!Show, Peers
<1>3. ASSUME NEW p \in Peers,
             \/ RecordSyncTest(p) \/ HookSendFails(p) \/ HookNotFull(p) \/ HookWaits(p)
             \/ HookReceiveFails(p) \/ HookBodyFails(p) \/ HookAsksForEver(p)
             \/ \E e \in Inputs : Record(p, e)
             \/ LoseSyncTest(p) \/ GoAstray(p) \/ Suspend(p) \/ Disconnect(p)
      PROVE  UNCHANGED <<sent, played>>
  BY <1>3 DEF RecordSyncTest, HookSendFails, HookNotFull, HookWaits, HookReceiveFails,
              HookBodyFails, HookAsksForEver, Record,
              LoseSyncTest, GoAstray, Suspend, Disconnect
<1>4. CASE UNCHANGED vars
  BY <1>4 DEF vars
<1> QED
  BY <1>1, <1>2, <1>3, <1>4 DEF Next, Emulate, Peers

(* The ring and the wire implement lockstep: every pair of lists is played by
   both machines once, in the order of the frames, the server's list first. *)
THEOREM ShowsTheSame == Spec => ImplementsLockStep
<1>1. Init => Lists!LInit
  BY DEF Init, Lists!LInit, Lists!Peers, Peers
<1> QED
  BY <1>1, StepRefines, Invariance, PTL DEF Spec, ImplementsLockStep, Lists!LSpec
=============================================================================
