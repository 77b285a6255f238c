---------------------------- MODULE HsIndexerMC ----------------------------
(* Small instances of the primary-homeserver loop for TLC.                 *)
EXTENDS HsIndexer

(* One user owns every event.                                              *)
OneUser == {"a"}
AllOfOneUser == [p \in Positions |-> "a"]
=============================================================================
