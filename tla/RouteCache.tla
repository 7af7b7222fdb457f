---------------------------- MODULE RouteCache ----------------------------
(***************************************************************************)
(* What the edge's route table promises: it is a cache of the database.    *)
(*                                                                         *)
(* An entry names a version that was published, a mode that was in force   *)
(* and a host that was registered, at some moment up to now; entries       *)
(* change one host at a time; in the end every entry follows the row.      *)
(***************************************************************************)
CONSTANTS Host, None

VARIABLES
    row,          \* what the database routes each host to
    published,    \* the versions published so far
    modes,        \* the modes in force so far
    registered,   \* the hosts registered so far
    cache         \* each host's entry

cacheVars == <<row, published, modes, registered, cache>>

CacheInit ==
    /\ row = [h \in Host |-> None] /\ cache = row
    /\ published = {}

\* The database changes and the past grows.
Commit ==
    /\ published \subseteq published' /\ modes \subseteq modes' /\ registered \subseteq registered'
    /\ \A h \in Host : row'[h] # None =>
        row'[h].version \in published' /\ row'[h].mode \in modes' /\ h \in registered'
    /\ UNCHANGED cache

Fill(h) ==
    /\ \E e \in [version : published, mode : modes] :
        h \in registered /\ cache' = [cache EXCEPT ![h] = e]
    /\ UNCHANGED <<row, published, modes, registered>>

Drop(h) ==
    /\ cache' = [cache EXCEPT ![h] = None]
    /\ UNCHANGED <<row, published, modes, registered>>

CacheNext == Commit \/ \E h \in Host : Fill(h) \/ Drop(h)

CacheSpec == CacheInit /\ [][CacheNext]_cacheVars

CacheSettles == <>[](cache = row)
=============================================================================
