------------------------------ MODULE MCArtifacts ------------------------------
(* Small instances of Artifacts for TLC. *)
EXTENDS Artifacts

CONSTANTS p1, curl, line1, byte1, noSession, noMatch

OnePid   == {p1}
OneExe   == {curl}
OnePtr   == {1}
OneLine  == {line1}
OneByte  == {byte1}

OneTime  == {1}
AfterGrace == {2}
===============================================================================
