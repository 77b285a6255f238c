------------------------------ MODULE ReadsMC ------------------------------
EXTENDS ReadProperties

(* Users 1 to 3, posts 11 to 15, labels 21 and 22, a resource 31.  11 and  *)
(* 12 have one id; 15 replies to 11, 13 reposts 11, 14 is a collection.    *)
MCAuthor    == [p \in Posts |-> CASE p = 11 -> 1 [] p \in {12, 13} -> 2 [] p \in {14, 15} -> 3]
MCPostId    == [p \in Posts |-> CASE p = 11 -> 1 [] p = 15 -> 4 [] p = 12 -> 1 [] p = 13 -> 3 [] p = 14 -> 2]
MCPostAt    == [p \in Posts |-> CASE p = 11 -> 1 [] p = 15 -> 4 [] p = 12 -> 2 [] p = 13 -> 5 [] p = 14 -> 3]
MCParent    == [p \in Posts |-> IF p = 15 THEN {11} ELSE {}]
MCEmbed     == [p \in Posts |-> IF p = 13 THEN {11} ELSE {}]
MCMentioned == [p \in Posts |-> IF p = 14 THEN {1} ELSE {}]
MCKindOf    == [p \in Posts |-> IF p = 14 THEN "collection" ELSE IF p = 12 THEN "long" ELSE "short"]
MCItems     == [p \in Posts |-> IF p = 14 THEN <<12, 11>> ELSE <<>>]
MCTrust     == [u \in Users |-> IF u = 3 THEN 0 ELSE u]
MCMatches   == [x \in {"a", "b"} |-> IF x = "a" THEN {1, 2} ELSE {21}]

MCFirstEvents ==
    <<<<"user", 1>>, <<"user", 2>>, <<"user", 3>>, <<"post", 11>>, <<"post", 12>>,
      <<"post", 14>>, <<"post", 15>>, <<"tag", 2, 11, 21, 0>>, <<"tag", 3, 2, 21, 0>>,
      <<"follow", 1, 2>>, <<"follow", 2, 1>>, <<"follow", 3, 1>>, <<"mark", 3, 12>>>>
MCEvents ==
    {<<"post", 13>>, <<"delpost", 13>>, <<"delpost", 11>>, <<"delpost", 15>>, <<"post", 14>>, <<"delpost", 14>>,
     <<"tag", 3, 11, 22, 0>>, <<"tag", 1, 15, 21, 0>>, <<"deltag", 2, 11, 21, 0>>, <<"tag", 1, 2, 22, 0>>,
     <<"deltag", 3, 2, 21, 0>>, <<"tag", 1, 31, 21, 1>>, <<"deltag", 1, 31, 21, 1>>,
     <<"deluser", 2>>, <<"user", 2>>, <<"follow", 1, 3>>, <<"unfollow", 2, 1>>,
     <<"mark", 1, 11>>, <<"unmark", 3, 12>>}
=============================================================================
