----------------------------- MODULE MCDriveClock -----------------------------
EXTENDS DriveClock
=============================================================================
