------------------------- MODULE KeyBasedIndexerMC -------------------------
(* Small instances of the external-homeserver processor for TLC.           *)
EXTENDS KeyBasedIndexer

(* The second event of user 1 belongs to another key, on a path that Nexus *)
(* does not handle.                                                        *)
ForeignEvents == {<<1, 2>>}
IgnoredForeign == {<<1, 2>>}
=============================================================================
