------------------------------- MODULE MCIecBus -------------------------------
EXTENDS IecBus

TheData  == {0}
TheClose == {1}
TheOpen  == {0, 1}
TheUnlisten  == {0}
TheUntalk    == {1}
TheListen(d) == <<{0, 1}, {0, 2}>>[d]
TheTalk(d)   == <<{2}, {1, 2}>>[d]

TheFile == <<{0, 2}, {1}>>
TheDisks == {<<"read", "write">>, <<"write", "none">>}
TheSessions == {"open", "write", "read", "close"} \X {1, 2}
TheName == <<{0, 1}, {0, 2}>>
TheMsg  == <<{1, 2}, {0}>>
=============================================================================
