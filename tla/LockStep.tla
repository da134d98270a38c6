------------------------------- MODULE LockStep -------------------------------
(***************************************************************************)
(* What netplay promises: two machines that start alike stay alike,        *)
(* because each is shown the same inputs in the same order.  A turn is     *)
(* what one player did in one frame; the machines are shown the turns of   *)
(* both players in pairs, the server's first, and none of them twice,      *)
(* late, or not at all.  How far a machine is depends on its own speed.    *)
(***************************************************************************)
EXTENDS Naturals, Sequences

Peers == {"server", "client"}

VARIABLES turns,   \* the turns each player has made
          shown    \* the pairs of turns each machine has been shown

lvars == <<turns, shown>>

LInit == /\ turns = [p \in Peers |-> <<>>]
         /\ shown = [p \in Peers |-> <<>>]

(* A player makes one more turn, whatever it is. *)
Make(p) == /\ \E i \in DOMAIN turns'[p] :
                  turns' = [turns EXCEPT ![p] = Append(@, turns'[p][i])]
           /\ UNCHANGED shown

Show(p) == LET n == Len(shown[p]) + 1
           IN /\ \A q \in Peers : n <= Len(turns[q])
              /\ shown' = [shown EXCEPT ![p] =
                     Append(@, <<turns["server"][n], turns["client"][n]>>)]
              /\ UNCHANGED turns

LNext == \E p \in Peers : Show(p) \/ Make(p)

LSpec == LInit /\ [][LNext]_lvars
=============================================================================
