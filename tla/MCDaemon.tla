------------------------------- MODULE MCDaemon -------------------------------
(* Small instances of Daemon for TLC. *)
EXTENDS Daemon

CONSTANTS p1, curl, line1, byte1, byte2, noSession, noMatch

OnePid   == {p1}
OneExe   == {curl}
OnePtr   == {1}
OneLine  == {line1}
TwoBytes == {byte1, byte2}
TwoTimes == {1, 2}
OneTime  == {1}
Walls23  == {2, 3}
===============================================================================
