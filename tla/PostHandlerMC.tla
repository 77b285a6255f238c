--------------------------- MODULE PostHandlerMC ---------------------------
(* Small instances of PostHandler for TLC. *)
EXTENDS PostHandler, TLC

CONSTANTS a, b, P, R, note, list, empty, main, other

MCAuthor == P :> a @@ R :> b
MCReplied == P :> {} @@ R :> {P}
MCReposted == P :> {} @@ R :> {P}
MCItems == note :> {} @@ list :> {P} @@ empty :> {}
MCMentions == note :> {} @@ list :> {a} @@ empty :> {}
MCNoScore == -99
MCHome == a :> main @@ b :> other
MCModerator == main :> FALSE @@ other :> TRUE
=============================================================================
