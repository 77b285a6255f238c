-------------------------- MODULE SocialHandlerMC --------------------------
(* Small instances of SocialHandler for TLC: two users, a post of the one  *)
(* that is not known at first, and one record of every kind.               *)
EXTENDS SocialHandler, TLC

CONSTANTS a, b, P, site, app, main, other

MCKind == [r \in Records |->
    CASE r \in {"ab", "ba"} -> "follow" [] r \in {"tagP", "appP", "tagA", "tagS"} -> "tag"
      [] r = "mark" -> "bookmark" [] r = "meA" -> "profile" [] r = "file" -> "file"]
MCBy == [r \in Records |-> IF r \in {"ba", "tagA"} THEN b ELSE a]
MCTo == [r \in Records |->
    CASE r = "ab" -> b [] r \in {"ba", "tagA"} -> a
      [] r \in {"tagP", "appP", "mark"} -> P [] OTHER -> site]
MCLabel == [r \in Records |-> "cool"]
MCApp == [r \in Records |-> IF r \in {"appP", "tagS"} THEN app ELSE NoApp]
MCAuthor == P :> b
MCIsReply == P :> FALSE
MCHome == a :> main @@ b :> other
=============================================================================
