----------------------------- MODULE MCReconnection -----------------------------
(* Instances of Reconnection with the documents of MCDdpCollection.        *)
EXTENDS Reconnection, MCDdpCollection
=============================================================================
