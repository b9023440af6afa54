-------------------------- MODULE OtaClientStorage --------------------------
(***************************************************************************)
(* The upgrade client keeps to the legal order of the flash operations     *)
(* that OtaStorage states: what OtaStorage promises then holds of it.      *)
(***************************************************************************)
EXTENDS OtaClient

(* A file is known from the first block request until it is given up; its   *)
(* download is over once the status is another one.                         *)
Phase ==
    IF dfv = NoVersion THEN "idle"
    ELSE IF status = "downloading" THEN "receiving" ELSE "finished"

Storage == INSTANCE OtaStorage WITH
    MaxBlock <- MaxData,
    phase <- Phase,
    ver <- dfv,
    size <- IF Phase = "idle" THEN 0 ELSE FileSize,
    offset <- IF Phase = "idle" THEN 0 ELSE offset

(* Every handler of the client is one storage operation, called where the   *)
(* storage expects it, or leaves the storage alone, as long as the server   *)
(* has one version.                                                         *)
StoresTheFile ==
    Storage!Init /\ []["versions" \in env \/ Storage!Next]_(Storage!vars)

=============================================================================
