------------------------------ MODULE StoresMC ------------------------------
(***************************************************************************)
(* Stores that several processes share without a transaction around what   *)
(* they do: the retry queue, the rankings, the posts the trust filter      *)
(* shows and the variants of a file.  They share nothing with one another: *)
(* part names the one that a behaviour is about, the others stand still.   *)
(***************************************************************************)
EXTENDS RetryQueue, Rankings, TrustFilter, Media, TLC

VARIABLE part

storeVars == <<part, vars, rankVars, trustVars, mediaVars>>

(* URIs and replicas are interchangeable: no definition orders them.       *)
Symmetry == Permutations(Uris) \cup Permutations(Procs)

StoresInit ==
    /\ part \in {"retry", "rankings", "trust", "media"}
    /\ Init      /\ (part # "retry" => \A u \in Uris : json[u] = NoEntry)
    /\ RankInit  /\ (part # "rankings" => family = "allTime" /\ graph = [u \in Ranked |-> 1])
    /\ TrustInit /\ (part # "trust" => stored = Authors)
    /\ MediaInit /\ (part # "media" => kind = "other" /\ capacity = 1)

StoresNext ==
    \/ part = "retry"    /\ Next      /\ UNCHANGED <<part, rankVars, trustVars, mediaVars>>
    \/ part = "rankings" /\ RankNext  /\ UNCHANGED <<part, vars, trustVars, mediaVars>>
    \/ part = "trust"    /\ TrustNext /\ UNCHANGED <<part, vars, rankVars, mediaVars>>
    \/ part = "media"    /\ MediaNext /\ UNCHANGED <<part, vars, rankVars, trustVars>>

StoresSpec == StoresInit /\ [][StoresNext]_storeVars
=============================================================================
