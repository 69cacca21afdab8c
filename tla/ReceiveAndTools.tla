---------------------------- MODULE ReceiveAndTools ----------------------------
(***************************************************************************)
(* For TLC: either the assembly and the decoders of a satellite pass           *)
(* (SatelliteReceive), or one of the programs beside a pass (OfflineTools).   *)
(***************************************************************************)
EXTENDS SatelliteReceive, OfflineTools

\* The pairs of factors the audio of a capture is resampled by.
UpDown == {<<1, 1>>, <<1, 2>>, <<2, 3>>, <<3, 2>>, <<3, 4>>}

\* A receive half that is not looked at.
ReceiveStill ==
    part = "decoders" /\ Graph!GraphInit /\ engine = "satellites" /\ DecodersInit /\ profile = "legacy"

EitherInit ==
    \/ ReceiveInit /\ NoTool
    \/ ReceiveStill /\ OfflineInit

EitherNext ==
    \/ tool = "none" /\ ReceiveNext /\ UNCHANGED offlineVars
    \/ OfflineNext /\ UNCHANGED receiveVars

EitherSpec == EitherInit /\ [][EitherNext]_<<receiveVars, offlineVars>>
=============================================================================
