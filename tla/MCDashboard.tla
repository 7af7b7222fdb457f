---------------------------- MODULE MCDashboard ----------------------------
(***************************************************************************)
(* The dashboard: its controls, its two upload components, how a request   *)
(* gets its token and how the OAuth provider widens an allowlist.  They    *)
(* share no state; a behaviour runs one of them while the others rest in   *)
(* one initial state.                                                      *)
(***************************************************************************)
EXTENDS UploadDialogs, OAuthRedirects, DashSession, DashViews

VARIABLE part

U(kind, host, id, path, form) ==
    [kind |-> kind, host |-> host, id |-> id, path |-> path, form |-> form]

MCText == {"gpt", "none", "A", "B", "1", "2", "localhost", "127.0.0.1", "/callback", "/x"}

\* Two callback ids and two spellings of ChatGPT's, four loopback callbacks.
MCUris ==
    {U("callback", "gpt", "A", "none", "canonical"), U("callback", "gpt", "B", "none", "canonical"),
     U("callback", "gpt", "A", "none", "folded"), U("stable", "gpt", "none", "none", "slash"),
     U("loopback", "localhost", "1", "/callback", "canonical"),
     U("loopback", "127.0.0.1", "1", "/callback", "canonical"),
     U("loopback", "127.0.0.1", "2", "/callback", "canonical"),
     U("loopback", "localhost", "1", "/x", "canonical")}

MCRegistered ==
    {U("stable", "gpt", "none", "none", "canonical"),
     U("loopback", "localhost", "1", "/callback", "canonical")}

vars == <<part, dialogsVars, oauthVars, sessionVars, viewsVars>>

Init ==
    /\ part \in {"dialogs", "oauth", "session", "views"}
    /\ DialogsInit /\ OAuthInit /\ SessionInit /\ ViewsInit
    /\ part = "oauth" \/ \A a, b \in Authorize : auth[a].uri = auth[b].uri /\ auth[a].uri.id = "B"
    /\ part = "views" \/ ctl = VoteControl
    /\ IF part = "session" /\ first = 0 THEN clock = MaxClock - 1 ELSE first = 1 /\ clock = 0
    /\ part = "session" \/ active = 1

Next ==
    /\ UNCHANGED part
    /\ \/ part = "dialogs" /\ (ZoneNext \/ SkillNext) /\ UNCHANGED <<oauthVars, sessionVars, viewsVars>>
       \/ part = "oauth" /\ OAuthNext /\ UNCHANGED <<dialogsVars, sessionVars, viewsVars>>
       \/ part = "session" /\ SessionNext /\ UNCHANGED <<dialogsVars, oauthVars, viewsVars>>
       \/ part = "views" /\ ViewsNext /\ UNCHANGED <<dialogsVars, oauthVars, sessionVars>>

\* The fairness of the controls, while they are the part that runs.
Fairness ==
    /\ WF_viewsVars(part = "views" /\ Wire(1))
    /\ WF_viewsVars(part = "views" /\ PollPlan)

Spec == Init /\ [][Next]_vars /\ Fairness

(* The type invariants of the four parts.                                  *)
DashTypeOK == DialogsTypeOK /\ OAuthTypeOK /\ SessionTypeOK /\ ViewsTypeOK
=============================================================================
