---------------------------- MODULE MCSharedBus ----------------------------
EXTENDS SharedBus

(* Neighbouring ids, as in the launch file, and ids that are themselves    *)
(* mode or function identifiers of the protocol.                           *)
LaunchIds   == {2, 3}
AwkwardIds  == {1, 4}
CurrentModes == {MODE_CURRENT, MODE_POSITION}
=============================================================================
