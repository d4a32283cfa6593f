---------------------------- MODULE MCRendezvous ----------------------------
(***************************************************************************)
(* Instances of Rendezvous for TLC.  Peer ids are numbers because the      *)
(* election compares them.                                                 *)
(***************************************************************************)
EXTENDS Rendezvous

FullMesh == [a \in Agents |-> Agents]
=============================================================================
