--------------------------- MODULE OAuthRedirects ---------------------------
(***************************************************************************)
(* The before-hook of the OAuth provider (lib/auth.ts) that widens a       *)
(* client's redirect allowlist before the provider's exact match.          *)
(*                                                                         *)
(* An /authorize whose redirect_uri is a sibling of a registered one is    *)
(* appended to the client: ChatGPT's stable callback, one per-connection   *)
(* callback id per host, or a loopback callback with a registered path.    *)
(* Each authorize reads the client, asks whether anyone consented, reads   *)
(* and asks again, and overwrites the whole list; authorizes overlap.  At  *)
(* /token one spelling of a loopback host may stand for the other.         *)
(***************************************************************************)
EXTENDS Naturals, FiniteSets

CONSTANTS
    Authorize,    \* authorize requests under way
    Text,         \* hosts, callback ids, ports and paths
    Uris,         \* redirect URIs they may ask for
    Registered,   \* the URIs sent at dynamic registration
    SkipConsent   \* the client's skipConsent

(* A URI is a record: its kind after the URL parser, host, callback id or   *)
(* port, path, and how the raw string is spelt: "canonical", "slash" (one   *)
(* trailing slash), or "folded" (the parser changed it).                    *)
Uri == [kind : {"stable", "callback", "loopback", "other"}, host : Text, id : Text,
        path : Text, form : {"canonical", "slash", "folded"}]

ASSUME OAuthAssumption ==
    /\ SkipConsent \in BOOLEAN
    /\ Uris \subseteq Uri /\ Registered \subseteq Uri /\ "none" \in Text

VARIABLES
    allow,        \* redirectUris of the client
    consent,      \* somebody consented to the client
    auth,         \* the authorize requests
    redeemed      \* history: <<bound, sent>> of the codes exchanged

oauthVars == <<allow, consent, auth, redeemed>>

-----------------------------------------------------------------------------
(* The decisions.                                                          *)

\* parseChatgptRedirect: a slash after a callback id is another path.
IsChatgpt(u) == u.kind = "stable" \/ (u.kind = "callback" /\ u.form # "slash")

\* acceptableRequestedRedirect: only the canonical string, or the stable
\* callback with a trailing slash.
Acceptable(u) == IsChatgpt(u) /\ u.form # "folded"

SameHost(u, uris) == {r \in uris : IsChatgpt(r) /\ r.host = u.host}
Ids(u, uris) == {r.id : r \in {s \in SameHost(u, uris) : s.kind = "callback"}}

\* Mutant: another callback id on the client is no obstacle.
RedirectToRegister_SecondId(u, uris) ==
    Acceptable(u) /\ u \notin uris /\ SameHost(u, uris) # {}

\* redirectToRegister: a sibling on this host, and no second callback id.
RedirectToRegister(u, uris) ==
    /\ Acceptable(u) /\ u \notin uris /\ SameHost(u, uris) # {}
    /\ u.kind = "callback" => Ids(u, uris) \subseteq {u.id}

IsNewCallbackId(u, uris) == u.kind = "callback" /\ u.id \notin Ids(u, uris)

\* parseLoopbackRedirect and loopbackRedirectToRegister: the raw string is
\* the parser's, and a registered loopback URI has the same path.
IsLoopback(u) == u.kind = "loopback" /\ u.form # "folded"
LoopbackToRegister(u, uris) ==
    IsLoopback(u) /\ u \notin uris /\ \E r \in uris : IsLoopback(r) /\ r.path = u.path

\* nextRedirectUris or nextLoopbackRedirectUris would add this URI.
Adds(u, uris) == RedirectToRegister(u, uris) \/ LoopbackToRegister(u, uris)

\* expandChatgptRegistrationRedirects at /register adds the stable callback
\* of each host.
Expanded(uris) ==
    uris \cup {[kind |-> "stable", host |-> r.host, id |-> "none", path |-> "none", form |-> "canonical"] :
               r \in {s \in uris : IsChatgpt(s)}}

\* equivalentCodexLoopbackCallbacks: localhost for 127.0.0.1 or the reverse,
\* on the same port and callback path.
Equivalent(a, b) ==
    a.kind = "loopback" /\ b.kind = "loopback" /\ a.form = "canonical" /\ b.form = "canonical"
    /\ a.host # b.host /\ {a.host, b.host} \subseteq {"localhost", "127.0.0.1"}
    /\ a.id = b.id /\ a.path = b.path /\ a.path = "/callback"

-----------------------------------------------------------------------------

OAuthInit ==
    /\ allow = Expanded(Registered) /\ consent = FALSE /\ redeemed = {}
    /\ auth \in [Authorize -> {[pc |-> "idle", uri |-> u, seen |-> {}, late |-> FALSE] : u \in Uris}]

Goto(a, pc) == auth' = [auth EXCEPT ![a].pc = pc]

\* registerChatgptAuthorizeRedirect and registerLoopbackAuthorizeRedirect:
\* findClient.  Nothing to add leaves the provider's match to decide; a new
\* callback id asks for consents first.  history: late, the consent existed.
FindClient(a) ==
    LET u == auth[a].uri IN
    /\ auth[a].pc \in {"idle", "again"}
    /\ auth' = [auth EXCEPT
          ![a].late = IF auth[a].pc = "idle" THEN consent ELSE @,
          ![a].seen = allow,
          ![a].pc = IF ~Adds(u, allow) THEN "match"
                    ELSE IF IsNewCallbackId(u, allow)
                         THEN IF SkipConsent THEN "match"
                              ELSE IF auth[a].pc = "idle" THEN "ask" ELSE "askAgain"
                    ELSE IF auth[a].pc = "idle" THEN "again" ELSE "write"]
    /\ UNCHANGED <<allow, consent, redeemed>>

\* Mutant: a consent is no obstacle.
ClientHasConsent_Ignored(a) ==
    /\ auth[a].pc \in {"ask", "askAgain"}
    /\ Goto(a, IF auth[a].pc = "ask" THEN "again" ELSE "write")
    /\ UNCHANGED <<allow, consent, redeemed>>

\* mayStoreRedirect: clientHasConsent; a lookup that fails refuses.
ClientHasConsent(a) ==
    /\ auth[a].pc \in {"ask", "askAgain"}
    /\ \/ ~consent /\ Goto(a, IF auth[a].pc = "ask" THEN "again" ELSE "write")
       \/ Goto(a, "match")
    /\ UNCHANGED <<allow, consent, redeemed>>

\* updateRedirects overwrites the list with the one read, and this URI; a
\* failure is swallowed by the hook.
UpdateRedirects(a) ==
    /\ auth[a].pc = "write"
    /\ \/ allow' = auth[a].seen \cup {auth[a].uri}
       \/ UNCHANGED allow
    /\ Goto(a, "match")
    /\ UNCHANGED <<consent, redeemed>>

\* External: the provider's exact match; somebody's consent gives the code at
\* once, bound to the URI, and otherwise the user is asked.
Match(a) ==
    /\ auth[a].pc = "match"
    /\ Goto(a, IF auth[a].uri \notin allow THEN "end" ELSE IF consent THEN "code" ELSE "screen")
    /\ UNCHANGED <<allow, consent, redeemed>>

\* OAuthConsentPage's decide; a denial, or a screen left, ends the request.
Decide(a) ==
    /\ auth[a].pc = "screen"
    /\ \/ consent' = TRUE /\ Goto(a, "code")
       \/ Goto(a, "end") /\ UNCHANGED consent
    /\ UNCHANGED <<allow, redeemed>>

\* /token: authorizedCodexLoopbackRedirect replaces an equivalent spelling;
\* then the provider compares.
Token(a, u) ==
    LET sent == IF Equivalent(auth[a].uri, u) THEN auth[a].uri ELSE u IN
    /\ auth[a].pc = "code"
    /\ redeemed' = IF sent = auth[a].uri THEN redeemed \cup {<<auth[a].uri, u>>} ELSE redeemed
    /\ Goto(a, "end")
    /\ UNCHANGED <<allow, consent>>

OAuthNext ==
    \E a \in Authorize :
        \/ FindClient(a) \/ ClientHasConsent(a) \/ UpdateRedirects(a) \/ Match(a) \/ Decide(a)
        \/ \E u \in Uris : Token(a, u)

OAuthSpec == OAuthInit /\ [][OAuthNext]_oauthVars

-----------------------------------------------------------------------------
(* Properties.                                                             *)

\* The type invariant.
OAuthTypeOK ==
    /\ allow \subseteq Uri /\ consent \in BOOLEAN /\ redeemed \subseteq Uri \X Uri
    /\ auth \in [Authorize -> [pc : {"idle", "ask", "again", "askAgain", "write", "match", "screen", "code", "end"},
                               uri : Uris, seen : SUBSET Uri, late : BOOLEAN]]

\* A registered URI has this host (ChatGPT) or this path (loopback).
Vouched(u) ==
    \/ u \in Expanded(Registered)
    \/ \E r \in Registered : IsChatgpt(u) /\ IsChatgpt(r) /\ u.host = r.host
    \/ \E r \in Registered : IsLoopback(u) /\ IsLoopback(r) /\ u.path = r.path

(* However authorizes overlap and overwrite each other's list, it keeps    *)
(* what was registered, gains no second callback id of a ChatGPT host and  *)
(* nothing a registered URI does not vouch for; and a code, exchanged      *)
(* perhaps after its URI was overwritten, was bound to such a URI and came *)
(* from it or from the other spelling of that local port.                  *)
AllowlistSound ==
    /\ Expanded(Registered) \subseteq allow
    /\ \A u, v \in allow :
         u.kind = "callback" /\ v.kind = "callback" /\ u.host = v.host
         /\ u.form # "slash" /\ v.form # "slash" => u.id = v.id \/ {u, v} \subseteq Registered
    /\ \A u \in allow : Vouched(u)
    /\ \A p \in redeemed :
         Vouched(p[1]) /\ (p[1] = p[2] \/ (p[1].id = p[2].id /\ p[1].path = p[2].path))

(* An authorize that began when somebody had consented never adds a new    *)
(* callback id ("an existing consent would send the code there with no new *)
(* approval screen").                                                      *)
ConsentedGainsNoCallback ==
    [][\A a \in Authorize : auth[a].late /\ auth[a].pc = "write" /\ auth'[a].pc # "write"
          => Ids(auth[a].uri, allow') \subseteq Ids(auth[a].uri, allow \cup auth[a].seen)]_oauthVars
=============================================================================
