------------------------------ MODULE MCBackup ------------------------------
(***************************************************************************)
(* Backup on small instances.                                              *)
(***************************************************************************)
EXTENDS Backup, TLC

MCFaceValue == [s \in Foreign |-> 1]

\* One caller, who receives, pays and recovers.
MCCalls == [t \in Task |-> {"insert", "pay", "recover"}]

MCOpening == <<1>>
============================================================================
