---------------------------- MODULE MCEdgeServe ----------------------------
(* EdgeServe on two versions of one site and two requests that overlap,    *)
(* the two parts of EdgeCaches, and EdgeAccess.  They share no state: a    *)
(* behaviour is one of the four.                                           *)
EXTENDS EdgeServe, EdgeCaches, MCEdgeAccess

CONSTANTS q1, q2
VARIABLE part      \* which of the four this behaviour is

File(sha, utf8, big) == [sha |-> sha, utf8 |-> utf8, big |-> big]
Index == <<IndexHtml>>
Doc == << <<"a", "md">> >>

\* v1 has a folder without an index and a page without its extension; v2 has
\* a 404 page, an index that is not UTF-8 and a document too big to render.
MCManifest ==
    [v1 |-> (Index :> File("s1", TRUE, FALSE)) @@ (Doc :> File("s2", TRUE, FALSE))
            @@ (<< <<"d", "">>, <<"x", "md">> >> :> File("s2", TRUE, FALSE))
            @@ (<< <<"page", "html">> >> :> File("s1", TRUE, FALSE)),
     v2 |-> (Index :> File("s3", FALSE, FALSE)) @@ (Doc :> File("s2", TRUE, TRUE))
            @@ (NotFoundPath :> File("s4", TRUE, FALSE))]

Route(access, version, tier, chat, expires) ==
    [mode |-> access, version |-> version, tier |-> tier, chat |-> chat, expires |-> expires]
MCRoutes ==
    {Route("public", "v1", "free", "none", 0), Route("public", "v1", "pro", "none", 0),
     Route("org_only", "v1", "free", "c1", 0), Route("public", "v2", "none", "c1", 0),
     Route("public", "v1", "free", "c1", 1)}

Get == [method |-> "GET", path |-> <<>>, slash |-> FALSE, raw |-> FALSE, embed |-> FALSE,
        at |-> 0, limited |-> FALSE, badge |-> "1", crawler |-> FALSE, sw |-> FALSE, token |-> "none"]
Pages == {Get, [Get EXCEPT !.path = Doc]}
Others ==
    {[Get EXCEPT !.path = Doc, !.raw = TRUE], [Get EXCEPT !.method = "HEAD"],
     [Get EXCEPT !.token = "org_only"], [Get EXCEPT !.at = 1], [Get EXCEPT !.limited = TRUE],
     [Get EXCEPT !.embed = TRUE, !.badge = "0"],
     [Get EXCEPT !.path = << <<"d", "">> >>, !.slash = TRUE],
     [Get EXCEPT !.path = << <<".", "">>, <<"page", "">> >>],
     [Get EXCEPT !.path = ChatPath, !.token = "org_only"],
     [Get EXCEPT !.path = CallbackPath], [Get EXCEPT !.crawler = TRUE],
     [Get EXCEPT !.method = "POST"], [Get EXCEPT !.sw = TRUE],
     [Get EXCEPT !.path = << <<"robots", "txt">> >>],
     [Get EXCEPT !.path = << <<"llms", "txt">> >>],
     [Get EXCEPT !.path = << <<"..", "">> >>], [Get EXCEPT !.path = << <<"sw", "js">> >>]}
MCInputs == (q1 :> Pages) @@ (q2 :> Pages \cup Others)

\* The parts at rest start in one state; v2 and the expiring link are written.
MCInit ==
    /\ part \in {"serve", "keys", "limit", "access"}
    /\ Init /\ kv["route"].version = "v1" /\ kv["route"].expires = 0
       /\ (part # "serve" => kv["route"].tier = "pro")
    /\ BoundedInit
    /\ CachesInit /\ (part # "keys" => \A v \in Verification : ver[v].kid = CHOOSE k \in Kid : TRUE)
MCNext ==
    /\ UNCHANGED part
    /\ \/ part = "serve" /\ Next /\ UNCHANGED <<cachesVars, accessVars, begun>>
       \/ part = "keys" /\ (Tick \/ KeysNext) /\ UNCHANGED <<vars, accessVars, begun>>
       \/ part = "limit" /\ (Tick \/ LimitNext) /\ UNCHANGED <<vars, accessVars, begun>>
       \/ part = "access" /\ BoundedNext /\ UNCHANGED <<vars, cachesVars>>
MCSpec == MCInit /\ [][MCNext]_<<vars, cachesVars, accessVars, begun, part>>
=============================================================================
