------------------------------ MODULE MCIpcServer ------------------------------
(***************************************************************************)
(* Instances of IpcServer for TLC: one waiting client against one that     *)
(* pipelines, shuts down its side or never reads.                          *)
(***************************************************************************)
EXTENDS IpcServer

\* The messages of clients and of agents.
Mixed == {"request", "heartbeat"}
===============================================================================
