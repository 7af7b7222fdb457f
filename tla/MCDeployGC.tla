----------------------------- MODULE MCDeployGC -----------------------------
(***************************************************************************)
(* DeployGC on one site, one skill and one preset.  All the uploads at     *)
(* once are too many states; a behaviour is one of five parts, which says  *)
(* who uploads what, whose requests seed, and which items may be deleted.  *)
(***************************************************************************)
EXTENDS DeployGC

CONSTANTS s1, k1, p1, b1, b2, b3, c1, c2,
          Parts     \* the parts a run looks at

VARIABLE part

MCContent == {{b1}, {b2}, {b3}}
MCPreset == {b3}

\* versions: one client, two contents of which the quota admits one at a time;
\* race: two clients, a content each, and room for one of them;
\* shared: a site and a skill that share a blob, two clients;
\* presets: one client deploys while another's request seeds;
\* seeders: two requests seed.
Offers ==
    [versions |-> {<<c1, s1, {b1}>>, <<c1, s1, {b2}>>},
     race     |-> {<<c1, s1, {b1}>>, <<c2, s1, {b2}>>},
     shared   |-> {c1, c2} \X {s1, k1} \X {{b1}},
     presets  |-> {<<c1, s1, {b1}>>},
     seeders  |-> {}]

Seeds == [versions |-> {}, race |-> {}, shared |-> {}, presets |-> {c2}, seeders |-> {c1, c2}]

MCInit == Init /\ part \in Parts

\* An upload that begins is one the part offers.
Begins(c) ==
    req[c].pc = "idle" /\ req'[c].pc # "idle"
    => IF req'[c].pc = "seedPut" THEN c \in Seeds[part]
       ELSE <<c, req'[c].item, req'[c].content>> \in Offers[part]

\* Which rows may be deleted, and where the site is published.
Deleted == [versions |-> {}, race |-> {s1}, shared |-> {k1}, presets |-> {}, seeders |-> {k1, p1}]

MCNext ==
    /\ UNCHANGED part
    /\ Next
    /\ \A c \in Client : Begins(c)
    /\ live \ live' \subseteq Deleted[part]
    /\ part \notin {"versions", "shared"} /\ s1 \in live' => current'[s1] = current[s1]
    /\ \A m \in Content : preview'[s1][m] # preview[s1][m] => part = "versions" /\ m = {b1}

MCSpec == MCInit /\ [][MCNext]_<<vars, part>>
=============================================================================
