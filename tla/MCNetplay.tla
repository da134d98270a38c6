------------------------------- MODULE MCNetplay ------------------------------
(* Small instances of Netplay for TLC: sessions in which the players do what  *)
(* they like, and sessions that are disturbed.                                *)
EXTENDS Netplay

Played    == [delta : {1, 2}, may : {{"input", "trap"}}]
                 \cup [delta : {3}, may : {{"input"}, {"trap"}}]
Disturbed == [delta : {1, 2}, may : {{"suspend", "astray", "close"}}]
                 \cup [delta : {3}, may : {{"suspend", "close"}}]

AllSessions == Played \cup Disturbed
=============================================================================
