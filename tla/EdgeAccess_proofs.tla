------------------------- MODULE EdgeAccess_proofs -------------------------
(***************************************************************************)
(* Proofs about the edge gate for any number of users and admins, any      *)
(* clock bound and any token lifetime.                                     *)
(*                                                                         *)
(* RevokedTokensRejected speaks of the history variable settled; it is     *)
(* inductive only together with SettledInv: the stored entry is never      *)
(* below settled, and neither is the min_iat of any write in flight, for   *)
(* it was stamped by a clock that had already reached settled.             *)
(***************************************************************************)
EXTENDS EdgeAccess, TLAPS

USE EdgeAssumption

(* An admin request past its start has a denylist key to write, and one      *)
(* that is about to write routes has a mode to put there.                  *)
OpWellFormed == \A a \in Admin :
    /\ op[a].pc = "routes" => op[a].route \in Mode
    /\ op[a].pc # "idle" => op[a].key \in DenyKey

EdgeTypeInv == AccessTypeOK /\ OpWellFormed

(* A request that begins is well typed.                                    *)
LEMMA BeginTyped ==
    ASSUME AccessTypeOK, NEW a \in Admin, NEW k \in DenyKey, NEW r \in Mode \cup {"none"},
           NEW pc \in {"routes", "stamp"}, Begin(a, pc, k, r)
    PROVE  op' \in [Admin -> AdminRequest] /\ \A b \in Admin : op'[b].minIAT <= now
<1>1. [pc |-> pc, key |-> k, route |-> r, minIAT |-> 0, removal |-> FALSE] \in AdminRequest
  BY DEF AdminRequest, Second
<1>2. QED
  BY <1>1 DEF Begin, AccessTypeOK, Second

(* A request that takes its min_iat keeps its key and stays well typed.     *)
LEMMA Stamped ==
    ASSUME AccessTypeOK, NEW a \in Admin, Stamp(a)
    PROVE  /\ op'[a] \in AdminRequest /\ op'[a].minIAT = now
           /\ op[a].pc = "stamp" /\ op'[a].pc = "read" /\ op'[a].key = op[a].key
<1>1. op[a] \in AdminRequest /\ now \in Second
  BY DEF AccessTypeOK
<1>2. op'[a] = [op[a] EXCEPT !.pc = "read", !.minIAT = now]
  BY DEF Stamp, AccessTypeOK
<1>3. [op[a] EXCEPT !.pc = "read", !.minIAT = now] \in AdminRequest
  BY <1>1 DEF AdminRequest
<1>4. QED
  BY <1>1, <1>2, <1>3, ZenonT(30) DEF AdminRequest, Stamp

(* Every step keeps the type invariant of the edge gate.                   *)
LEMMA EdgeTypeStep == EdgeTypeInv /\ [AccessNext]_accessVars => AccessTypeOK'
<1> SUFFICES ASSUME AccessTypeOK, OpWellFormed, [AccessNext]_accessVars PROVE AccessTypeOK'
  BY DEF EdgeTypeInv
<1> USE DEF AccessTypeOK
<1>0. now \in Nat /\ now \in 0..now /\ now \in Second
  BY DEF Second
<1>1. CASE UNCHANGED accessVars
  BY <1>1 DEF accessVars, policyVars, storeVars, viewerVars
<1>2. CASE ViewerNext
  <2>1. PICK u \in User : \/ SignIn(u) \/ AuthorizeMint(u) \/ ResolveForPassword(u)
                          \/ LookupRevoked(u) \/ Mint(u) \/ MintFails(u)
    BY <1>2 DEF ViewerNext
  <2>2. CASE SignIn(u)
    BY <1>0, <2>2 DEF SignIn, policyVars, storeVars
  <2>3. CASE AuthorizeMint(u)
    <3>1. mint'[u] \in MintRequest
      BY <2>3 DEF AuthorizeMint, Authorized, MintRequest, Subject, DenyKey, DenylistKeys, TokenMode, Second
    <3>2. QED
      BY <3>1, <2>3 DEF AuthorizeMint, policyVars, storeVars
  <2>4. CASE ResolveForPassword(u)
    <3>1. mint'[u] \in MintRequest
      BY <2>4 DEF ResolveForPassword, MintRequest, Subject, TokenMode, Second
    <3>2. QED
      BY <3>1, <2>4 DEF ResolveForPassword, policyVars, storeVars
  <2>5. CASE LookupRevoked(u)
    <3>1. mint'[u] \in MintRequest
      BY <2>5 DEF LookupRevoked, NextLookup, IdleMint, MintRequest, Subject, Second
    <3>2. QED
      BY <3>1, <2>5 DEF LookupRevoked, policyVars, storeVars
  <2>6. CASE Mint(u)
    <3>1. /\ mint'[u] \in MintRequest
          /\ cookie'[u] \in Cookie
          /\ cookie'[u].iat = now
      BY <2>6 DEF Mint, IdleMint, MintRequest, Cookie, Subject, Second
    <3>2. QED
      BY <1>0, <3>1, <2>6 DEF Mint, policyVars, storeVars
  <2>7. CASE MintFails(u)
    <3>1. mint'[u] \in MintRequest
      BY <2>7 DEF MintFails, IdleMint, MintRequest, Subject, Second
    <3>2. QED
      BY <3>1, <2>7 DEF MintFails, policyVars, storeVars
  <2>8. QED
    BY <2>1, <2>2, <2>3, <2>4, <2>5, <2>6, <2>7
<1>3. CASE AdminBegins
  <2>1. ASSUME NEW a \in Admin, NEW k \in User \cup {SiteKey, OrgKey}, RevokeAccess(a, k)
        PROVE  AccessTypeOK'
    BY <2>1 DEF RevokeAccess, Begin, AdminRequest, DenyKey, Subject, Second,
                policyVars, storeVars, viewerVars
  <2>2. ASSUME NEW a \in Admin, NEW m \in Mode, SetSiteAccess(a, m)
        PROVE  AccessTypeOK'
    BY <2>2 DEF SetSiteAccess, Begin, AdminRequest, DenyKey, Second, storeVars, viewerVars
  <2>3. ASSUME NEW a \in Admin, EnableExternalSharing(a)
        PROVE  AccessTypeOK'
    BY <2>3 DEF EnableExternalSharing, storeVars, viewerVars
  <2>4. ASSUME NEW a \in Admin, DisableExternalSharing(a)
        PROVE  AccessTypeOK'
    <3>1. op' \in [Admin -> AdminRequest] /\ \A b \in Admin : op'[b].minIAT <= now
      <4>1. CASE mode = "public"
        <5>1. "org_only" \in Mode /\ OrgKey \in DenyKey /\ Begin(a, "routes", OrgKey, "org_only")
          BY <2>4, <4>1 DEF DisableExternalSharing, Mode, TokenMode, DenyKey
        <5>2. QED
          BY <5>1, BeginTyped
      <4>2. CASE mode # "public"
        <5>1. OrgKey \in DenyKey /\ Begin(a, "stamp", OrgKey, "none")
          BY <2>4, <4>2 DEF DisableExternalSharing, DenyKey
        <5>2. QED
          BY <5>1, BeginTyped
      <4>3. QED
        BY <4>1, <4>2
    <3>2. mode' \in Mode
      BY <2>4 DEF DisableExternalSharing, Mode, TokenMode
    <3>3. QED
      BY <2>4, <3>1, <3>2 DEF DisableExternalSharing, storeVars, viewerVars
  <2>5. ASSUME NEW a \in Admin, NEW u \in User, RemoveMember(a, u)
        PROVE  AccessTypeOK'
    BY <2>5 DEF RemoveMember, AdminRequest, DenyKey, Subject, Second, storeVars, viewerVars
  <2>6. ASSUME NEW u \in User, AddAllowlistEntry(u) \/ RemoveAllowlistEntry(u) \/ Join(u)
        PROVE  AccessTypeOK'
    BY <2>6 DEF AddAllowlistEntry, RemoveAllowlistEntry, Join, storeVars, viewerVars
  <2>7. QED
    BY <1>3, <2>1, <2>2, <2>3, <2>4, <2>5, <2>6 DEF AdminBegins
<1>4. CASE AdminContinues
  <2>1. PICK a \in Admin :
           \/ FinalizeMemberRevocation(a) \/ PutRoute(a)
           \/ Stamp(a) \/ RevokeKept(a) \/ RevokeRead(a) \/ RevokeWrite(a)
           \/ RevokeAnswerLost(a) \/ RequestFails(a)
    BY <1>4 DEF AdminContinues
  <2>2. IdleOp \in AdminRequest /\ IdleOp.minIAT = 0
    BY DEF IdleOp, AdminRequest, Second
  <2>3. CASE FinalizeMemberRevocation(a)
    <3>1. op'[a] \in AdminRequest /\ op'[a].minIAT <= now
      BY <2>2, <2>3 DEF FinalizeMemberRevocation, AdminRequest, Second
    <3>2. QED
      BY <3>1, <2>3 DEF FinalizeMemberRevocation, policyVars, storeVars, viewerVars
  <2>4. CASE PutRoute(a)
    <3>1. op'[a] \in AdminRequest /\ op'[a].minIAT <= now
      BY <2>4, ZenonT(30) DEF PutRoute, AdminRequest, Second
    <3>2. route' \in Mode
      BY <2>4 DEF PutRoute, OpWellFormed
    <3>3. QED
      BY <3>1, <3>2, <2>4 DEF PutRoute, policyVars, viewerVars
  <2>5. CASE Stamp(a)
    <3>1. op'[a] \in AdminRequest /\ op'[a].minIAT <= now
      BY <1>0, <2>5, Stamped
    <3>2. QED
      BY <3>1, <2>5 DEF Stamp, policyVars, storeVars, viewerVars
  <2>6. op[a].minIAT \in 0..now
    BY <1>0 DEF AdminRequest, Second
  <2>7. Acknowledge(a) => settled' \in [DenyKey -> 0..now]
    BY <2>6 DEF Acknowledge
  <2>8. CASE RevokeRead(a)
    <3>1. op'[a] \in AdminRequest /\ op'[a].minIAT <= now
      BY <2>6, <2>8 DEF RevokeRead, AdminRequest
    <3>2. QED
      BY <3>1, <2>8 DEF RevokeRead, policyVars, storeVars, viewerVars
  <2>9. CASE op' = [op EXCEPT ![a] = IdleOp]
    <3>1. op' \in [Admin -> AdminRequest] /\ \A b \in Admin : op'[b].minIAT <= now
      BY <1>0, <2>2, <2>9
    <3>2. CASE RevokeKept(a)
      BY <2>7, <3>1, <3>2 DEF RevokeKept, policyVars, storeVars, viewerVars
    <3>3. CASE RevokeWrite(a)
      <4>1. denylist' \in [DenyKey -> 0..now]
        BY <2>6, <3>3 DEF RevokeWrite
      <4>2. QED
        BY <2>7, <3>1, <3>3, <4>1 DEF RevokeWrite, policyVars, viewerVars
    <3>4. CASE RevokeAnswerLost(a)
      <4>1. denylist' \in [DenyKey -> 0..now]
        BY <2>6, <3>4 DEF RevokeAnswerLost
      <4>2. QED
        BY <3>1, <3>4, <4>1 DEF RevokeAnswerLost, policyVars, viewerVars
    <3>5. CASE RequestFails(a)
      BY <3>1, <3>5 DEF RequestFails, policyVars, storeVars, viewerVars
    <3>6. QED
      BY <2>1, <2>3, <2>4, <2>5, <2>8, <3>2, <3>3, <3>4, <3>5
  <2>10. QED
    BY <2>1, <2>3, <2>4, <2>5, <2>8, <2>9 DEF RevokeKept, RevokeWrite, RevokeAnswerLost, RequestFails
<1>5. CASE AccessTick
  <2>1. now' \in Second \ {0} /\ now <= now' /\ 0..now \subseteq 0..now'
    BY <1>5 DEF AccessTick, Second
  <2>2. /\ denylist' \in [DenyKey -> 0..now'] /\ settled' \in [DenyKey -> 0..now']
        /\ jwt' \in [User -> 0..now']
    BY <1>5, <2>1 DEF AccessTick, storeVars, viewerVars
  <2>3. /\ \A u \in User : cookie'[u].iat <= now'
        /\ \A a \in Admin : op'[a].minIAT <= now'
    BY <1>0, <1>5 DEF AccessTick, Second, Cookie, AdminRequest, viewerVars
  <2>4. QED
    BY <1>5, <2>1, <2>2, <2>3 DEF AccessTick, policyVars, storeVars, viewerVars
<1>6. QED
  BY <1>1, <1>2, <1>3, <1>4, <1>5 DEF AccessNext

(* Every step keeps admin requests well formed.                            *)
LEMMA OpWellFormedStep == EdgeTypeInv /\ [AccessNext]_accessVars => OpWellFormed'
<1> SUFFICES ASSUME AccessTypeOK, OpWellFormed, [AccessNext]_accessVars PROVE OpWellFormed'
  BY DEF EdgeTypeInv
<1> USE DEF OpWellFormed
<1>1. CASE UNCHANGED op
  BY <1>1
<1>2. ASSUME NEW a \in Admin, NEW k \in DenyKey, NEW pc, NEW r,
             pc = "routes" => r \in Mode, Begin(a, pc, k, r)
      PROVE  OpWellFormed'
  BY <1>2 DEF Begin, AccessTypeOK
<1>3. ASSUME NEW a \in Admin, op' = [op EXCEPT ![a] = IdleOp]
      PROVE  OpWellFormed'
  BY <1>3 DEF IdleOp, AccessTypeOK
<1>4. CASE AdminBegins
  <2>1. ASSUME NEW a \in Admin, NEW k \in User \cup {SiteKey, OrgKey}, RevokeAccess(a, k)
        PROVE  OpWellFormed'
    BY <1>2, <2>1 DEF RevokeAccess, DenyKey, Subject
  <2>2. ASSUME NEW a \in Admin, NEW m \in Mode, SetSiteAccess(a, m)
        PROVE  OpWellFormed'
    BY <1>2, <2>2 DEF SetSiteAccess, DenyKey
  <2>3. ASSUME NEW a \in Admin, DisableExternalSharing(a)
        PROVE  OpWellFormed'
    BY <1>2, <2>3 DEF DisableExternalSharing, DenyKey, Mode, TokenMode
  <2>4. ASSUME NEW a \in Admin, NEW u \in User, RemoveMember(a, u)
        PROVE  OpWellFormed'
    BY <2>4 DEF RemoveMember, DenyKey, Subject, AccessTypeOK
  <2>5. QED
    BY <1>1, <1>4, <2>1, <2>2, <2>3, <2>4
       DEF AdminBegins, EnableExternalSharing, AddAllowlistEntry, RemoveAllowlistEntry, Join
<1>5. CASE AdminContinues
  <2>1. ASSUME NEW a \in Admin, FinalizeMemberRevocation(a)
        PROVE  OpWellFormed'
    BY <2>1 DEF FinalizeMemberRevocation, IdleOp, AccessTypeOK, AdminRequest
  <2>2. ASSUME NEW a \in Admin, PutRoute(a) \/ Stamp(a) \/ RevokeRead(a)
        PROVE  OpWellFormed'
    <3>1. op'[a].pc \in {"stamp", "read", "write"} /\ op'[a].key = op[a].key /\ op[a].pc # "idle"
      BY <2>2, Stamped DEF PutRoute, RevokeRead, AccessTypeOK, AdminRequest
    <3>2. \A b \in Admin \ {a} : op'[b] = op[b]
      BY <2>2 DEF PutRoute, Stamp, RevokeRead, AccessTypeOK
    <3>3. QED
      BY <3>1, <3>2
  <2>3. QED
    BY <1>3, <1>5, <2>1, <2>2
       DEF AdminContinues, RevokeKept, RevokeWrite, RevokeAnswerLost, RequestFails
<1>6. CASE ViewerNext \/ AccessTick \/ UNCHANGED accessVars
  BY <1>1, <1>6 DEF ViewerNext, SignIn, AuthorizeMint, ResolveForPassword, LookupRevoked,
                    Mint, MintFails, AccessTick, accessVars
<1>7. QED
  BY <1>4, <1>5, <1>6 DEF AccessNext

(* Initially the requests are idle and nothing is revoked.                 *)
LEMMA EdgeTypeInit == AccessInit => EdgeTypeInv
<1> SUFFICES ASSUME AccessInit PROVE AccessTypeOK /\ OpWellFormed
  BY DEF EdgeTypeInv
<1> USE DEF AccessInit
<1>1. IdleMint \in MintRequest /\ NoCookie \in Cookie /\ NoCookie.iat = 0
  BY DEF IdleMint, MintRequest, NoCookie, Cookie, Subject, Second
<1>2. IdleOp \in AdminRequest /\ IdleOp.minIAT = 0 /\ IdleOp.pc = "idle"
  BY DEF IdleOp, AdminRequest, Second
<1>3. now \in Second \ {0} /\ 0 \in 0..now
  BY DEF Second
<1>4. AccessTypeOK
  <2>1. /\ denylist \in [DenyKey -> 0..now] /\ settled \in [DenyKey -> 0..now]
        /\ jwt \in [User -> 0..now]
    BY <1>3
  <2>2. /\ mint \in [User -> MintRequest]
        /\ cookie \in [User -> Cookie] /\ \A u \in User : cookie[u].iat <= now
    BY <1>1, <1>3
  <2>3. op \in [Admin -> AdminRequest] /\ \A a \in Admin : op[a].minIAT <= now
    BY <1>2, <1>3
  <2>4. QED
    BY <1>3, <2>1, <2>2, <2>3 DEF AccessTypeOK, Mode, TokenMode
<1>5. OpWellFormed
  BY <1>2 DEF OpWellFormed
<1>6. QED
  BY <1>4, <1>5

(* The edge gate's state keeps its type: no denylist entry and no token is  *)
(* ever dated after the clock (revoke.go, edgetoken.go: both are time.Now).*)
THEOREM EdgeTypeCorrect == AccessSpec => []AccessTypeOK
<1>1. EdgeTypeInv /\ [AccessNext]_accessVars => EdgeTypeInv'
  BY EdgeTypeStep, OpWellFormedStep DEF EdgeTypeInv
<1>2. EdgeTypeInv => AccessTypeOK
  BY DEF EdgeTypeInv
<1>3. QED
  BY EdgeTypeInit, <1>1, <1>2, PTL DEF AccessSpec
-----------------------------------------------------------------------------
(* No entry, and no write in flight, is below what has settled.            *)
SettledInv ==
    /\ \A k \in DenyKey : settled[k] <= denylist[k]
    /\ \A a \in Admin : op[a].pc \in {"read", "write"} => settled[op[a].key] <= op[a].minIAT

(* What an acknowledgement does to settled: only the key of the request     *)
(* rises, to its min_iat, and then no write in flight is below it.         *)
LEMMA Acknowledged ==
    ASSUME EdgeTypeInv, SettledInv, NEW a \in Admin, op[a].pc \in {"read", "write"}, Acknowledge(a)
    PROVE  /\ \A k \in DenyKey : settled[k] <= settled'[k]
           /\ \A k \in DenyKey \ {op[a].key} : settled'[k] = settled[k]
           /\ settled'[op[a].key] <= op[a].minIAT
           /\ \A b \in Admin \ {a} : op[b].pc \in {"read", "write"}
                                        => settled'[op[b].key] <= op[b].minIAT
<1> DEFINE k == op[a].key
           alone == \A b \in Admin \ {a} :
              op[b].pc \in {"read", "write"} /\ op[b].key = k => op[b].minIAT >= op[a].minIAT
<1> USE DEF EdgeTypeInv
<1>1. /\ k \in DenyKey
      /\ \A b \in Admin : op[b].minIAT \in Int
      /\ \A j \in DenyKey : settled[j] \in Int
      /\ \A b \in Admin : op[b].pc \in {"read", "write"} => op[b].key \in DenyKey
  BY DEF AccessTypeOK, OpWellFormed, AdminRequest, Second
<1>2. settled' = IF alone /\ settled[k] < op[a].minIAT
                 THEN [settled EXCEPT ![k] = op[a].minIAT] ELSE settled
  BY DEF Acknowledge
<1>3. settled[k] <= op[a].minIAT
  BY DEF SettledInv
<1>4. CASE alone /\ settled[k] < op[a].minIAT
  <2> HIDE DEF k
  <2>1. settled' = [settled EXCEPT ![k] = op[a].minIAT] /\ settled \in [DenyKey -> 0..now]
    BY <1>2, <1>4 DEF AccessTypeOK
  <2>2. /\ settled'[k] = op[a].minIAT
        /\ \A j \in DenyKey \ {k} : settled'[j] = settled[j]
    BY <1>1, <2>1
  <2>3. \A b \in Admin \ {a} : op[b].pc \in {"read", "write"}
                                  => settled'[op[b].key] <= op[b].minIAT
    BY <1>1, <1>4, <2>2 DEF SettledInv
  <2>4. QED
    BY <1>1, <1>4, <2>2, <2>3 DEF k
<1>5. CASE ~(alone /\ settled[k] < op[a].minIAT)
  <2>1. settled' = settled
    BY <1>2, <1>5
  <2>2. QED
    BY <1>1, <1>3, <2>1 DEF SettledInv
<1>6. QED
  BY <1>4, <1>5

(* Every step keeps SettledInv, and what has settled stays settled.        *)
LEMMA SettledStep ==
    EdgeTypeInv /\ SettledInv /\ [AccessNext]_accessVars
        => SettledInv' /\ \A k \in DenyKey : settled[k] <= settled'[k]
<1> SUFFICES ASSUME EdgeTypeInv, SettledInv, [AccessNext]_accessVars
             PROVE  SettledInv' /\ \A k \in DenyKey : settled[k] <= settled'[k]
  OBVIOUS
<1>0. /\ now \in Int
      /\ \A k \in DenyKey : settled[k] \in Int /\ settled[k] <= now /\ denylist[k] \in Int
      /\ \A a \in Admin : op[a].minIAT \in Int
      /\ \A a \in Admin : op[a].pc # "idle" => op[a].key \in DenyKey
  BY DEF EdgeTypeInv, AccessTypeOK, OpWellFormed, AdminRequest, Second
<1>t. op \in [Admin -> AdminRequest] /\ denylist \in [DenyKey -> 0..now]
  BY DEF EdgeTypeInv, AccessTypeOK
<1>1. ASSUME UNCHANGED <<denylist, settled>>,
             \A a \in Admin : \/ op'[a] = op[a]
                              \/ op'[a].pc \notin {"read", "write"}
                              \/ /\ op[a].pc # "idle" /\ op'[a].key = op[a].key
                                 /\ settled[op[a].key] <= op'[a].minIAT
      PROVE  SettledInv' /\ \A k \in DenyKey : settled[k] <= settled'[k]
  BY <1>0, <1>1 DEF SettledInv
<1>2. ASSUME NEW a \in Admin, NEW o, op' = [op EXCEPT ![a] = o], UNCHANGED <<denylist, settled>>,
             o.pc \notin {"read", "write"}
      PROVE  SettledInv' /\ \A k \in DenyKey : settled[k] <= settled'[k]
  BY <1>1, <1>2, <1>t
<1>3. CASE AdminBegins
  <2>1. ASSUME NEW a \in Admin, NEW pc \in {"routes", "stamp"}, NEW k, NEW r, Begin(a, pc, k, r),
               UNCHANGED <<denylist, settled>>
        PROVE  SettledInv' /\ \A j \in DenyKey : settled[j] <= settled'[j]
    <3> DEFINE o == [pc |-> pc, key |-> k, route |-> r, minIAT |-> 0, removal |-> FALSE]
    <3>1. op' = [op EXCEPT ![a] = o] /\ o.pc \notin {"read", "write"}
      BY <2>1 DEF Begin
    <3>2. QED
      BY <1>2, <2>1, <3>1
  <2>2. ASSUME NEW a \in Admin, NEW k \in User \cup {SiteKey, OrgKey}, RevokeAccess(a, k)
        PROVE  SettledInv' /\ \A j \in DenyKey : settled[j] <= settled'[j]
    BY <2>1, <2>2 DEF RevokeAccess, storeVars
  <2>3. ASSUME NEW a \in Admin, NEW m \in Mode, SetSiteAccess(a, m)
        PROVE  SettledInv' /\ \A j \in DenyKey : settled[j] <= settled'[j]
    BY <2>1, <2>3 DEF SetSiteAccess, storeVars
  <2>4. ASSUME NEW a \in Admin, DisableExternalSharing(a)
        PROVE  SettledInv' /\ \A j \in DenyKey : settled[j] <= settled'[j]
    BY <2>1, <2>4 DEF DisableExternalSharing, storeVars
  <2>5. ASSUME NEW a \in Admin, NEW u \in User, RemoveMember(a, u)
        PROVE  SettledInv' /\ \A j \in DenyKey : settled[j] <= settled'[j]
    BY <1>2, <2>5 DEF RemoveMember, storeVars
  <2>6. ASSUME UNCHANGED <<op, denylist, settled>>
        PROVE  SettledInv' /\ \A j \in DenyKey : settled[j] <= settled'[j]
    BY <1>1, <2>6
  <2>7. QED
    BY <1>3, <2>2, <2>3, <2>4, <2>5, <2>6 DEF AdminBegins, EnableExternalSharing,
       AddAllowlistEntry, RemoveAllowlistEntry, Join, storeVars
<1>4. CASE AdminContinues
  <2>1. PICK a \in Admin :
           \/ FinalizeMemberRevocation(a) \/ PutRoute(a)
           \/ Stamp(a) \/ RevokeKept(a) \/ RevokeRead(a) \/ RevokeWrite(a)
           \/ RevokeAnswerLost(a) \/ RequestFails(a)
    BY <1>4 DEF AdminContinues
  <2>2. CASE FinalizeMemberRevocation(a) \/ PutRoute(a) \/ RequestFails(a)
    <3>1. op'[a].pc \notin {"read", "write"} /\ \A b \in Admin \ {a} : op'[b] = op[b]
      BY <1>t, <2>2 DEF FinalizeMemberRevocation, PutRoute, RequestFails, IdleOp, AdminRequest
    <3>2. QED
      BY <1>1, <2>2, <3>1 DEF FinalizeMemberRevocation, PutRoute, RequestFails, storeVars
  <2>3. CASE Stamp(a)
    <3>1. \A b \in Admin \ {a} : op'[b] = op[b]
      BY <1>t, <2>3 DEF Stamp
    <3>2. op[a].pc # "idle" /\ op'[a].key = op[a].key /\ op'[a].minIAT = now
      BY <2>3, Stamped DEF EdgeTypeInv
    <3>3. QED
      BY <1>0, <1>1, <2>3, <3>1, <3>2 DEF Stamp, storeVars
  <2>4. CASE RevokeRead(a)
    <3>1. /\ op'[a].pc = "write" /\ op[a].pc = "read"
          /\ op'[a].key = op[a].key /\ op'[a].minIAT = op[a].minIAT
      BY <1>t, <2>4 DEF RevokeRead, AdminRequest
    <3>2. \A b \in Admin \ {a} : op'[b] = op[b]
      BY <1>t, <2>4 DEF RevokeRead
    <3>3. QED
      BY <1>1, <2>4, <3>1, <3>2 DEF RevokeRead, SettledInv, storeVars
  <2>5. ASSUME op' = [op EXCEPT ![a] = IdleOp]
        PROVE  op'[a].pc = "idle" /\ \A b \in Admin \ {a} : op'[b] = op[b]
    BY <1>t, <2>5 DEF IdleOp
  <2>6. CASE RevokeKept(a)
    <3>1. Acknowledge(a) /\ op[a].pc = "read" /\ denylist' = denylist
          /\ op[a].minIAT <= denylist[op[a].key] /\ op[a].key \in DenyKey
      BY <1>0, <2>6 DEF RevokeKept, RevokeMustWrite, storeVars
    <3>2. QED
      <4>1. \A k \in DenyKey : settled'[k] \in Int
        BY EdgeTypeStep DEF AccessTypeOK
      <4>2. \A k \in DenyKey : settled'[k] <= denylist'[k]
        BY <1>0, <3>1, <4>1, Acknowledged DEF SettledInv
      <4>3. \A b \in Admin : op'[b].pc \in {"read", "write"} => settled'[op'[b].key] <= op'[b].minIAT
        BY <2>5, <2>6, <3>1, Acknowledged DEF RevokeKept
      <4>4. QED
        BY <3>1, <4>2, <4>3, Acknowledged DEF SettledInv
  <2>7. CASE RevokeWrite(a)
    <3>1. Acknowledge(a) /\ op[a].pc = "write" /\ op[a].key \in DenyKey
          /\ denylist' = [denylist EXCEPT ![op[a].key] = op[a].minIAT]
      BY <1>0, <2>7 DEF RevokeWrite
    <3>2. \A k \in DenyKey : settled'[k] <= denylist'[k]
      BY <1>0, <1>t, <3>1, Acknowledged DEF SettledInv
    <3>3. \A b \in Admin : op'[b].pc \in {"read", "write"} => settled'[op'[b].key] <= op'[b].minIAT
      BY <2>5, <2>7, <3>1, Acknowledged DEF RevokeWrite
    <3>4. QED
      BY <3>1, <3>2, <3>3, Acknowledged DEF SettledInv
  <2>8. CASE RevokeAnswerLost(a)
    <3>1. op[a].pc = "write" /\ op[a].key \in DenyKey /\ settled' = settled
          /\ denylist' = [denylist EXCEPT ![op[a].key] = op[a].minIAT]
      BY <1>0, <2>8 DEF RevokeAnswerLost
    <3>2. \A k \in DenyKey : settled'[k] <= denylist'[k]
      BY <1>t, <3>1 DEF SettledInv
    <3>3. \A b \in Admin : op'[b].pc \in {"read", "write"} => settled'[op'[b].key] <= op'[b].minIAT
      BY <2>5, <2>8, <3>1 DEF RevokeAnswerLost, SettledInv
    <3>4. QED
      BY <1>0, <3>1, <3>2, <3>3 DEF SettledInv
  <2>9. QED
    BY <2>1, <2>2, <2>3, <2>4, <2>6, <2>7, <2>8
<1>5. CASE ViewerNext \/ AccessTick \/ UNCHANGED accessVars
  <2>1. UNCHANGED <<op, denylist, settled>>
    BY <1>5 DEF ViewerNext, SignIn, AuthorizeMint, ResolveForPassword, LookupRevoked,
                Mint, MintFails, AccessTick, accessVars, storeVars
  <2>2. QED
    BY <1>1, <2>1
<1>6. QED
  BY <1>3, <1>4, <1>5 DEF AccessNext

(* What an exchange in progress owes to the keys it has looked up: the      *)
(* keys that were settled above its JWT when it began are still above it,   *)
(* so a lookup that let it pass was of a key not among them.               *)
MintInv == \A u \in User :
    /\ mint[u].due \subseteq DenylistKeys(mint[u].sub)
    /\ \A k \in mint[u].due : mint[u].jwt < settled[k]
    /\ mint[u].pc = "site" => mint[u].sub \notin mint[u].due
    /\ mint[u].pc = "org" => mint[u].due \cap {mint[u].sub, SiteKey} = {}
    /\ mint[u].pc \in {"sign", "idle"} => mint[u].due = {}

(* Every step keeps MintInv.                                               *)
LEMMA MintStep == EdgeTypeInv /\ SettledInv /\ MintInv /\ [AccessNext]_accessVars => MintInv'
<1> SUFFICES ASSUME EdgeTypeInv, SettledInv, MintInv, [AccessNext]_accessVars PROVE MintInv'
  OBVIOUS
<1>0. /\ mint \in [User -> MintRequest]
      /\ \A k \in DenyKey : settled[k] \in Int /\ denylist[k] \in Int /\ settled[k] <= denylist[k]
      /\ \A u \in User : mint[u].jwt \in Int
      /\ \A u \in User : DenylistKeys(mint[u].sub) \subseteq DenyKey
  BY DEF EdgeTypeInv, AccessTypeOK, SettledInv, MintRequest, Second, DenylistKeys, DenyKey
<1>1. \A k \in DenyKey : settled[k] <= settled'[k] /\ settled'[k] \in Int
  BY SettledStep, EdgeTypeStep DEF AccessTypeOK
<1>2. CASE UNCHANGED mint
  BY <1>0, <1>1, <1>2 DEF MintInv
<1>3. ASSUME NEW u \in User, mint' = [mint EXCEPT ![u] = IdleMint], UNCHANGED settled
      PROVE  MintInv'
  BY <1>0, <1>3 DEF MintInv, IdleMint
<1>4. CASE ViewerNext
  <2>1. PICK u \in User : \/ SignIn(u) \/ AuthorizeMint(u) \/ ResolveForPassword(u)
                          \/ LookupRevoked(u) \/ Mint(u) \/ MintFails(u)
    BY <1>4 DEF ViewerNext
  <2>2. CASE AuthorizeMint(u)
    <3>1. /\ mint'[u] = [pc |-> "user", sub |-> u, mode |-> mode, jwt |-> jwt[u],
                         due |-> {k \in DenylistKeys(u) : settled[k] > jwt[u]}]
          /\ \A v \in User \ {u} : mint'[v] = mint[v]
          /\ settled' = settled
      BY <1>0, <2>2 DEF AuthorizeMint
    <3>2. jwt[u] \in Int /\ DenylistKeys(u) \subseteq DenyKey
      BY DEF EdgeTypeInv, AccessTypeOK, DenylistKeys, DenyKey, Subject
    <3>3. QED
      BY <1>0, <3>1, <3>2 DEF MintInv
  <2>3. CASE ResolveForPassword(u)
    <3>1. /\ mint'[u] = [pc |-> "sign", sub |-> Anon, mode |-> mode, jwt |-> 0, due |-> {}]
          /\ \A v \in User \ {u} : mint'[v] = mint[v]
          /\ settled' = settled
      BY <1>0, <2>3 DEF ResolveForPassword
    <3>2. QED
      BY <3>1 DEF MintInv
  <2>4. CASE LookupRevoked(u) /\ LookupBlocks(mint[u])
    BY <1>3, <2>4 DEF LookupRevoked
  <2>5. CASE LookupRevoked(u) /\ ~LookupBlocks(mint[u])
    <3>1. /\ mint'[u] = [mint[u] EXCEPT !.pc = NextLookup(mint[u].pc)]
          /\ \A v \in User \ {u} : mint'[v] = mint[v]
          /\ settled' = settled
          /\ mint[u].pc \in {"user", "site", "org"}
      BY <1>0, <2>5 DEF LookupRevoked
    <3>2. LookupKey(mint[u]) \notin mint[u].due
      <4>1. LookupKey(mint[u]) \in DenyKey
        BY <1>0 DEF LookupKey, DenylistKeys, DenyKey
      <4>2. QED
        BY <1>0, <2>5, <4>1 DEF LookupBlocks, MintInv
    <3>3. /\ mint'[u].due = mint[u].due /\ mint'[u].sub = mint[u].sub /\ mint'[u].jwt = mint[u].jwt
          /\ mint'[u].pc = NextLookup(mint[u].pc)
      BY <1>0, <3>1 DEF MintRequest
    <3>4. /\ mint'[u].pc = "site" => mint[u].sub \notin mint[u].due
          /\ mint'[u].pc = "org" => mint[u].due \cap {mint[u].sub, SiteKey} = {}
          /\ mint'[u].pc \in {"sign", "idle"} => mint[u].due = {}
      BY <3>1, <3>2, <3>3 DEF MintInv, NextLookup, LookupKey, DenylistKeys
    <3>5. QED
      BY <3>1, <3>3, <3>4 DEF MintInv
  <2>6. CASE Mint(u) \/ MintFails(u)
    BY <1>3, <2>6 DEF Mint, MintFails
  <2>7. QED
    BY <1>2, <2>1, <2>2, <2>3, <2>4, <2>5, <2>6 DEF SignIn, LookupRevoked
<1>5. CASE AdminBegins \/ AdminContinues \/ AccessTick \/ UNCHANGED accessVars
  <2>1. UNCHANGED mint
    BY <1>5 DEF AdminBegins, RevokeAccess, SetSiteAccess, EnableExternalSharing,
       DisableExternalSharing, RemoveMember, AddAllowlistEntry, RemoveAllowlistEntry, Join,
       AdminContinues, FinalizeMemberRevocation, PutRoute, Stamp, RevokeKept, RevokeRead,
       RevokeWrite, RevokeAnswerLost, RequestFails, AccessTick, accessVars, viewerVars
  <2>2. QED
    BY <1>2, <2>1
<1>6. QED
  BY <1>4, <1>5 DEF AccessNext

-----------------------------------------------------------------------------
EdgeInv == EdgeTypeInv /\ SettledInv /\ MintInv

(* EdgeInv is inductive.                                                   *)
LEMMA EdgeInvariance == AccessSpec => []EdgeInv
<1>1. AccessInit => EdgeInv
  <2>1. AccessInit => SettledInv
    BY DEF AccessInit, SettledInv, IdleOp, DenyKey
  <2>2. AccessInit => MintInv
    <3>1. IdleMint.due = {} /\ IdleMint.pc = "idle"
      BY DEF IdleMint
    <3>2. QED
      BY <3>1 DEF AccessInit, MintInv
  <2>3. QED
    BY <2>1, <2>2, EdgeTypeInit DEF EdgeInv
<1>2. EdgeInv /\ [AccessNext]_accessVars => EdgeInv'
  BY EdgeTypeStep, OpWellFormedStep, SettledStep, MintStep DEF EdgeInv, EdgeTypeInv
<1>3. QED
  BY <1>1, <1>2, PTL DEF AccessSpec

(* A settled revocation is final: the serving Worker never again accepts a  *)
(* token issued before its min_iat, whatever later revocations overlap,     *)
(* fail or lose their answer (cloudflare.go Revoke, revoke.ts isRevoked).  *)
THEOREM RevocationSticks == AccessSpec => []RevokedTokensRejected
<1>1. EdgeInv => RevokedTokensRejected
  <2> SUFFICES ASSUME EdgeInv, NEW u \in User, NEW k \in DenylistKeys(cookie[u].sub),
                      cookie[u].iat < settled[k]
               PROVE  ~ServeGated(cookie[u])
    BY DEF RevokedTokensRejected
  <2>1. /\ k \in DenyKey /\ cookie[u].iat \in Int
        /\ settled[k] \in Int /\ denylist[k] \in Int /\ settled[k] <= denylist[k]
    BY DEF EdgeInv, EdgeTypeInv, AccessTypeOK, SettledInv, Cookie, Second, DenylistKeys, DenyKey
  <2>2. denylist[k] > cookie[u].iat
    BY <2>1
  <2>3. QED
    BY <2>2 DEF ServeGated, IsRevoked
<1>2. QED
  BY <1>1, EdgeInvariance, PTL

(* A session JWT older than a settled revocation never buys a new token     *)
(* (authz.go mintBlockedByRevocation).                                     *)
THEOREM NoRemint == AccessSpec => NoRemintAfterRevocation
<1>1. EdgeInv /\ [AccessNext]_accessVars
        => [\A u \in User : mint[u].due # {} => cookie'[u] = cookie[u]]_accessVars
  <2> SUFFICES ASSUME EdgeInv, AccessNext, NEW u \in User, mint[u].due # {}
               PROVE  cookie'[u] = cookie[u]
    OBVIOUS
  <2>1. mint[u].pc # "sign" /\ cookie \in [User -> Cookie]
    BY DEF EdgeInv, EdgeTypeInv, AccessTypeOK, MintInv
  <2>2. ASSUME NEW v \in User, Mint(v)
        PROVE  cookie'[u] = cookie[u]
    BY <2>1, <2>2 DEF Mint
  <2>3. CASE ViewerNext
    <3>1. UNCHANGED cookie \/ \E v \in User : Mint(v)
      BY <2>3 DEF ViewerNext, SignIn, AuthorizeMint, ResolveForPassword, LookupRevoked, MintFails
    <3>2. QED
      BY <2>2, <3>1
  <2>4. CASE AdminBegins \/ AdminContinues \/ AccessTick
    BY <2>4 DEF AdminBegins, RevokeAccess, SetSiteAccess, EnableExternalSharing,
       DisableExternalSharing, RemoveMember, AddAllowlistEntry, RemoveAllowlistEntry, Join,
       AdminContinues, FinalizeMemberRevocation, PutRoute, Stamp, RevokeKept, RevokeRead,
       RevokeWrite, RevokeAnswerLost, RequestFails, AccessTick, viewerVars
  <2>5. QED
    BY <2>3, <2>4 DEF AccessNext
<1>2. QED
  BY <1>1, EdgeInvariance, PTL DEF AccessSpec, NoRemintAfterRevocation

(* Signing in again always helps: a token signed in the current second is   *)
(* served (revoke.go stamps time.Now, revoke.ts compares strictly).        *)
THEOREM FreshTokensServed == AccessSpec => []FreshTokenServed
<1>1. EdgeInv => FreshTokenServed
  <2> SUFFICES ASSUME EdgeInv, NEW u \in User, cookie[u].iat = now, cookie[u].mode = route, TTL > 0,
                      \A k \in DenylistKeys(cookie[u].sub) : denylist[k] # now
               PROVE  ServeGated(cookie[u])
    BY DEF FreshTokenServed
  <2>1. now \in Int /\ \A k \in DenylistKeys(cookie[u].sub) : denylist[k] \in Int /\ denylist[k] <= now
    BY DEF EdgeInv, EdgeTypeInv, AccessTypeOK, Cookie, Second, DenylistKeys, DenyKey
  <2>2. QED
    BY <2>1 DEF ServeGated, IsRevoked, VerifyEdgeToken
<1>2. QED
  BY <1>1, EdgeInvariance, PTL
=============================================================================
