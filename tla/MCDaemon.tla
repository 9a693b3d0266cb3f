------------------------------ MODULE MCDaemon ------------------------------
(* Instances of Daemon for TLC; the network is that of MCDeviceList. *)
EXTENDS MCDeviceList, Daemon
=============================================================================
