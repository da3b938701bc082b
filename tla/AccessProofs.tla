---------------------------- MODULE AccessProofs ----------------------------
(***************************************************************************)
(* Four components that decide what a person may do and see: the tokens of *)
(* the three realms (module Sessions), the roles and permissions of a      *)
(* company (Permissions), the database a request is sent to                *)
(* (TenantRouting) and the rows it sees there (TenantIsolation).  The last *)
(* two are introduced where their part begins.                             *)
(*                                                                         *)
(* Sessions, for any accounts, companies, lifetimes and requests: a barred *)
(* account holds only tokens, and is served only by requests, that go back *)
(* to the time before it was barred.  SessionsBacked is not inductive: a   *)
(* request that has read the account and not yet issued its tokens carries *)
(* what the row said.  RowRead says of every request, at whatever step,    *)
(* what SessionsBacked says of served ones, for the row alone; the portal  *)
(* is asked for once more, between the row and the tokens.  TokenType ties *)
(* a token's realm to its account, so that a contact's token opens no      *)
(* session of another realm.                                               *)
(*                                                                         *)
(* Permissions, for any users, sites, rows, requests and handlers.  The    *)
(* invariant RoleInv adds to DecisionsStand what a handler holds between   *)
(* its read and its commit (TaskRead: the row an approval found is still   *)
(* one of that user, and of that site unless the user is contested; a      *)
(* count that found room is kept with its limit), that a user is known     *)
(* before anything is kept of it (Known: so a new user has no row), and    *)
(* that a user that is not contested has at most one row for a site        *)
(* (OneRow), without which an approval could change one row of two.        *)
(***************************************************************************)
EXTENDS Sessions, Permissions, TenantRouting, TenantIsolation, FiniteSetTheorems, TLAPS


Realms == {"tenant", "portal", "platform"}

TokenType ==
  [use : {"access", "refresh"}, typ : Realms, sub : Accounts,
   home : {HomeOf[a] : a \in Accounts}, exp : Nat, old : BOOLEAN]

VisitType ==
  [step : {"idle"}] \cup [step : {"pair", "known", "serving"}, sub : Accounts, old : BOOLEAN]

SessionTypeOK ==
  /\ minute \in Nat
  /\ active \subseteq Accounts
  /\ portal \subseteq Shops
  /\ issued \subseteq TokenType
  /\ visit \in [Visits -> VisitType]

RealmKept == \A t \in issued : t.typ = RealmOf[t.sub]

RowRead == \A v \in Visits : visit[v].step # "idle" /\ visit[v].sub \notin active => visit[v].old

SessionInv == SessionTypeOK /\ RealmKept /\ RowRead /\ SessionsBacked

USE RealmAssumption, HomeAssumption, LifeAssumption

----------------------------------------------------------------------------
(* What a request does to its own entry *)

\* A request that is put down in a well-typed entry leaves the table well-typed and every
\* other entry alone.
LEMMA BecomeEffect ==
  ASSUME NEW v \in Visits, NEW x \in VisitType, visit \in [Visits -> VisitType], Become(v, x)
  PROVE  /\ visit' \in [Visits -> VisitType]
         /\ visit'[v] = x
         /\ \A w \in Visits : w # v => visit'[w] = visit[w]
BY DEF Become

\* A request whose entry is explained keeps the invariant, when nothing else changes: the
\* tokens, the rows and the portals stay.
LEMMA EntryStep ==
  ASSUME SessionInv, NEW v \in Visits, NEW x \in VisitType, Become(v, x),
         UNCHANGED <<minute, active, portal, issued>>,
         x.step # "idle" /\ x.sub \notin active => x.old,
         x.step = "serving" /\ Barred(x.sub) => x.old
  PROVE  SessionInv'
<1>1. /\ visit' \in [Visits -> VisitType]
      /\ visit'[v] = x
      /\ \A w \in Visits : w # v => visit'[w] = visit[w]
  BY BecomeEffect DEF SessionInv, SessionTypeOK
<1>2. SessionTypeOK'
  BY <1>1 DEF SessionInv, SessionTypeOK
<1>3. RealmKept'
  BY DEF SessionInv, RealmKept
<1>4. RowRead'
  BY <1>1 DEF SessionInv, RowRead
<1>5. SessionsBacked'
  BY <1>1 DEF SessionInv, SessionsBacked, Barred
<1> QED BY <1>2, <1>3, <1>4, <1>5 DEF SessionInv

\* A login or a renewal: the row that was read was set.
LEMMA BeginStep ==
  ASSUME SessionInv, NEW v \in Visits, NEW a \in active, Begin(v, a)
  PROVE  SessionInv'
<1>1. a \in Accounts
  BY DEF SessionInv, SessionTypeOK
<1>2. Reading("pair", a) \in VisitType
  BY <1>1 DEF Reading, VisitType
<1>3. Reading("pair", a).step = "pair" /\ Reading("pair", a).sub = a
  BY DEF Reading
<1> QED BY <1>2, <1>3, EntryStep DEF Begin

----------------------------------------------------------------------------
(* The tokens that are issued *)

\* Both tokens of a pair are well-typed, name the account they are made for and its realm,
\* and carry the mark they are given.
LEMMA PairFacts ==
  ASSUME NEW a \in Accounts, NEW life \in Lifetimes, NEW old \in BOOLEAN, minute \in Nat
  PROVE  \A t \in TokenPair(a, life, old) :
            t \in TokenType /\ t.sub = a /\ t.typ = RealmOf[a] /\ t.old = old
<1>1. RealmOf[a] \in Realms /\ life.access \in Nat /\ life.refresh \in Nat
  BY DEF Realms
<1>2. minute + life.access \in Nat /\ minute + life.refresh \in Nat
  BY <1>1
<1>3. ASSUME NEW use \in {"access", "refresh"}, NEW exp \in Nat
      PROVE  /\ Token(use, a, exp, old) \in TokenType
             /\ Token(use, a, exp, old).sub = a
             /\ Token(use, a, exp, old).typ = RealmOf[a]
             /\ Token(use, a, exp, old).old = old
  BY <1>1, <1>3 DEF Token, TokenType
<1> QED BY <1>2, <1>3 DEF TokenPair, create_access_token, create_refresh_token

\* Tokens issued from an explained request keep the invariant.
LEMMA IssueStep ==
  ASSUME SessionInv, NEW v \in Visits, NEW life \in Lifetimes, Issue(v, life),
         Barred(visit[v].sub) => visit[v].old
  PROVE  SessionInv'
<1>1. visit[v].sub \in Accounts /\ visit[v].old \in BOOLEAN
  BY DEF SessionInv, SessionTypeOK, Issue, VisitType
<1>2. NoVisit \in VisitType /\ NoVisit.step = "idle"
  BY DEF NoVisit, VisitType
<1>3. /\ visit' \in [Visits -> VisitType]
      /\ visit'[v] = NoVisit
      /\ \A w \in Visits : w # v => visit'[w] = visit[w]
  BY <1>2, BecomeEffect DEF SessionInv, SessionTypeOK, Issue
<1>4. PICK a \in Accounts, o \in BOOLEAN : a = visit[v].sub /\ o = visit[v].old
  BY <1>1
<1>5. issued' = issued \cup TokenPair(a, life, o)
  BY <1>4 DEF Issue
<1>6. \A t \in TokenPair(a, life, o) :
         t \in TokenType /\ t.sub = a /\ t.typ = RealmOf[a] /\ t.old = o
  BY PairFacts DEF SessionInv, SessionTypeOK
<1>7. UNCHANGED <<minute, active, portal>>
  BY DEF Issue
<1>8. SessionTypeOK'
  BY <1>3, <1>5, <1>6, <1>7 DEF SessionInv, SessionTypeOK
<1>9. RealmKept'
  BY <1>5, <1>6 DEF SessionInv, RealmKept
<1>10. RowRead'
  BY <1>2, <1>3, <1>7 DEF SessionInv, RowRead
<1>11. SessionsBacked'
  <2>1. Barred(a) => o
    BY <1>4
  <2>2. ASSUME NEW t \in issued', Barred(t.sub)' PROVE t.old
    <3>1. Barred(t.sub)
      BY <2>2, <1>7 DEF Barred
    <3>2. CASE t \in issued
      BY <3>1, <3>2 DEF SessionInv, SessionsBacked
    <3>3. CASE t \in TokenPair(a, life, o)
      BY <3>1, <3>3, <1>6, <2>1
    <3> QED BY <3>2, <3>3, <1>5
  <2>3. ASSUME NEW w \in Visits, visit'[w].step = "serving", Barred(visit[w].sub)'
        PROVE  visit'[w].old
    BY <2>3, <1>2, <1>3, <1>7 DEF SessionInv, SessionsBacked, Barred
  <2> QED BY <2>2, <2>3, <1>7 DEF SessionsBacked, Barred
<1> QED BY <1>8, <1>9, <1>10, <1>11 DEF SessionInv

----------------------------------------------------------------------------
(* What ends a session *)

\* Marking what goes back to an earlier time keeps the types and the realms, marks all of
\* it, and takes no mark away.
LEMMA AgeEffect ==
  ASSUME SessionTypeOK, NEW who \in SUBSET Accounts, Age(who)
  PROVE  /\ issued' \subseteq TokenType
         /\ visit' \in [Visits -> VisitType]
         /\ \A t \in issued' : \E s \in issued :
               /\ t.sub = s.sub /\ t.typ = s.typ
               /\ t.old <=> (s.old \/ s.sub \in who)
         /\ \A w \in Visits : /\ visit'[w].step = visit[w].step
                              /\ visit[w].step # "idle" =>
                                   /\ visit'[w].sub = visit[w].sub
                                   /\ visit'[w].old <=> (visit[w].old \/ visit[w].sub \in who)
<1>1. ASSUME NEW t \in issued'
      PROVE  /\ t \in TokenType
             /\ \E s \in issued : /\ t.sub = s.sub /\ t.typ = s.typ
                                  /\ t.old <=> (s.old \/ s.sub \in who)
  <2>1. PICK s \in issued : t = IF s.sub \in who THEN [s EXCEPT !.old = TRUE] ELSE s
    BY DEF Age
  <2>2. s \in TokenType
    BY DEF SessionTypeOK
  <2>3. CASE s.sub \in who
    BY <2>1, <2>2, <2>3 DEF TokenType
  <2>4. CASE s.sub \notin who
    BY <2>1, <2>2, <2>4
  <2> QED BY <2>3, <2>4
<1>2. ASSUME NEW w \in Visits
      PROVE  /\ visit'[w] \in VisitType
             /\ visit'[w].step = visit[w].step
             /\ visit[w].step # "idle" =>
                  /\ visit'[w].sub = visit[w].sub
                  /\ visit'[w].old <=> (visit[w].old \/ visit[w].sub \in who)
  <2>1. visit[w] \in VisitType
    BY DEF SessionTypeOK
  <2>2. CASE visit[w].step = "idle"
    BY <2>1, <2>2 DEF Age, Free
  <2>3. CASE visit[w].step # "idle"
    <3>1. visit[w] \in [step : {"pair", "known", "serving"}, sub : Accounts, old : BOOLEAN]
      BY <2>1, <2>3 DEF VisitType
    <3>2. CASE visit[w].sub \in who
      <4>1. visit'[w] = [visit[w] EXCEPT !.old = TRUE]
        BY <2>3, <3>2 DEF Age, Free
      <4> QED BY <3>1, <3>2, <4>1 DEF VisitType
    <3>3. CASE visit[w].sub \notin who
      <4>1. visit'[w] = visit[w]
        BY <2>3, <3>3 DEF Age, Free
      <4> QED BY <3>1, <3>3, <4>1 DEF VisitType
    <3> QED BY <3>2, <3>3
  <2> QED BY <2>2, <2>3
<1>3. visit' = [w \in Visits |-> visit'[w]]
  BY DEF Age
<1>4. visit' \in [Visits -> VisitType]
  BY <1>2, <1>3
<1> QED BY <1>1, <1>2, <1>4

\* Whoever is barred by a step that marks them, and whoever was barred before, is marked.
LEMMA AgeStep ==
  ASSUME SessionInv, NEW who \in SUBSET Accounts, Age(who), minute' = minute,
         active' \subseteq Accounts, portal' \subseteq Shops,
         \A a \in Accounts : a \notin who => (a \in active' <=> a \in active),
         \A a \in Accounts : a \notin who => (Barred(a)' <=> Barred(a))
  PROVE  SessionInv'
<1>1. /\ issued' \subseteq TokenType
      /\ visit' \in [Visits -> VisitType]
      /\ \A t \in issued' : \E s \in issued :
            /\ t.sub = s.sub /\ t.typ = s.typ
            /\ t.old <=> (s.old \/ s.sub \in who)
      /\ \A w \in Visits : /\ visit'[w].step = visit[w].step
                           /\ visit[w].step # "idle" =>
                                /\ visit'[w].sub = visit[w].sub
                                /\ visit'[w].old <=> (visit[w].old \/ visit[w].sub \in who)
  BY AgeEffect DEF SessionInv
<1>2. SessionTypeOK'
  BY <1>1 DEF SessionInv, SessionTypeOK
<1>3. RealmKept'
  BY <1>1 DEF SessionInv, RealmKept
<1>4. \A w \in Visits : visit[w].step # "idle" => visit[w].sub \in Accounts
  BY DEF SessionInv, SessionTypeOK, VisitType
<1>5. RowRead'
  BY <1>1, <1>4 DEF SessionInv, RowRead
<1>6. SessionsBacked'
  <2>1. ASSUME NEW t \in issued', Barred(t.sub)' PROVE t.old
    <3>1. PICK s \in issued : t.sub = s.sub /\ (t.old <=> (s.old \/ s.sub \in who))
      BY <1>1
    <3>2. t.sub \in Accounts
      BY <1>1 DEF TokenType
    <3>3. CASE t.sub \in who
      BY <3>1, <3>3
    <3>4. CASE t.sub \notin who
      <4>1. Barred(s.sub)
        BY <2>1, <3>1, <3>2, <3>4
      <4> QED BY <3>1, <4>1 DEF SessionInv, SessionsBacked
    <3> QED BY <3>3, <3>4
  <2>2. ASSUME NEW w \in Visits, visit'[w].step = "serving", Barred(visit[w].sub)'
        PROVE  visit'[w].old
    <3>1. visit[w].step = "serving" /\ visit[w].step # "idle"
      BY <2>2, <1>1
    <3>2. PICK a \in Accounts : a = visit[w].sub /\ a = visit'[w].sub
      BY <3>1, <1>1, <1>4
    <3>3. CASE a \in who
      BY <3>1, <3>2, <3>3, <1>1
    <3>4. CASE a \notin who
      <4>1. Barred(a)'
        BY <2>2, <3>2 DEF Barred
      <4>2. Barred(a)
        BY <3>4, <4>1
      <4>3. visit[w].old
        BY <3>1, <3>2, <4>2 DEF SessionInv, SessionsBacked
      <4> QED BY <3>1, <4>3, <1>1
    <3> QED BY <3>3, <3>4
  <2> QED BY <2>1, <2>2 DEF SessionsBacked, Barred
<1> QED BY <1>2, <1>3, <1>5, <1>6 DEF SessionInv

\* A flag that is set, or a portal that opens, bars nobody.
LEMMA UnbarStep ==
  ASSUME SessionInv, UNCHANGED <<minute, issued, visit>>,
         active \subseteq active', active' \subseteq Accounts,
         portal \subseteq portal', portal' \subseteq Shops
  PROVE  SessionInv'
<1>1. SessionTypeOK'
  BY DEF SessionInv, SessionTypeOK
<1>2. RealmKept' /\ RowRead'
  BY DEF SessionInv, RealmKept, RowRead
<1>3. SessionsBacked'
  BY DEF SessionInv, SessionsBacked, Barred
<1> QED BY <1>1, <1>2, <1>3 DEF SessionInv

\* An account's flag is set or cleared.
LEMMA FlagStep ==
  ASSUME SessionInv, NEW a \in Accounts, patch_portal_user(a)
  PROVE  SessionInv'
<1>1. active \subseteq Accounts /\ portal \subseteq Shops
  BY DEF SessionInv, SessionTypeOK
<1>2. CASE a \in active
  <2>1. active' = active \ {a} /\ Age({a}) /\ minute' = minute /\ portal' = portal
    BY <1>2 DEF patch_portal_user
  <2>2. \A b \in Accounts : b \notin {a} => (Barred(b)' <=> Barred(b))
    BY <2>1 DEF Barred
  <2> QED BY <1>1, <2>1, <2>2, AgeStep
<1>3. CASE a \notin active
  <2>1. active' = active \cup {a} /\ UNCHANGED <<minute, portal, issued, visit>>
    BY <1>3 DEF patch_portal_user
  <2> QED BY <1>1, <2>1, UnbarStep
<1> QED BY <1>2, <1>3

\* A company's portal closes or opens.
LEMMA PortalStep ==
  ASSUME SessionInv, NEW c \in Shops, SwitchPortal(c)
  PROVE  SessionInv'
<1> DEFINE contacts == {a \in Accounts : HomeOf[a].company = c}
<1>1. active \subseteq Accounts /\ portal \subseteq Shops
  BY DEF SessionInv, SessionTypeOK
<1>2. CASE c \in portal
  <2>1. portal' = portal \ {c} /\ Age(contacts) /\ minute' = minute /\ active' = active
    BY <1>2 DEF SwitchPortal
  <2>2. \A b \in Accounts : b \notin contacts => (Barred(b)' <=> Barred(b))
    BY <2>1 DEF Barred
  <2> HIDE DEF contacts
  <2>3. contacts \in SUBSET Accounts
    BY DEF contacts
  <2> QED BY <1>1, <2>1, <2>2, <2>3, AgeStep
<1>3. CASE c \notin portal
  <2>1. portal' = portal \cup {c} /\ UNCHANGED <<minute, active, issued, visit>>
    BY <1>3 DEF SwitchPortal
  <2> QED BY <1>1, <2>1, UnbarStep
<1> QED BY <1>2, <1>3

\* Time passes and tokens expire.
LEMMA ExpireStep ==
  ASSUME SessionInv, Expire
  PROVE  SessionInv'
<1>1. minute' \in Nat /\ issued' \subseteq issued /\ UNCHANGED <<active, portal, visit>>
  BY DEF SessionInv, SessionTypeOK, Expire
<1>2. SessionTypeOK' /\ RealmKept' /\ RowRead'
  BY <1>1 DEF SessionInv, SessionTypeOK, RealmKept, RowRead
<1>3. SessionsBacked'
  BY <1>1 DEF SessionInv, SessionsBacked, Barred
<1> QED BY <1>2, <1>3 DEF SessionInv

----------------------------------------------------------------------------
(* The steps of a request *)

\* A login reads an account that is active.
LEMMA LoginStep ==
  ASSUME SessionInv, NEW v \in Visits, NEW a \in Accounts,
         login_json(v, a) \/ portal_login(v, a) \/ platform_login(v, a)
  PROVE  SessionInv'
<1>1. a \in active /\ Begin(v, a)
  BY DEF login_json, portal_login, platform_login, authenticate_user,
         authenticate_portal_user, authenticate_platform_user
<1> QED BY <1>1, BeginStep

\* A renewal reads the account of the token it shows.
LEMMA RenewalStep ==
  ASSUME SessionInv, NEW v \in Visits, NEW t \in issued,
         refresh_access_token(v, t) \/ portal_refresh(v, t) \/ platform_refresh(v, t)
  PROVE  SessionInv'
<1>1. t.sub \in active /\ Begin(v, t.sub)
  BY DEF refresh_access_token, portal_refresh, platform_refresh,
         refresh_tenant_tokens, refresh_portal_tokens, refresh_platform_tokens
<1> QED BY <1>1, BeginStep

\* A pair of tokens goes to the account that was read.
LEMMA PairStep ==
  ASSUME SessionInv, NEW v \in Visits, NEW life \in Lifetimes,
         \/ create_tenant_token_pair(v, life) \/ create_portal_token_pair(v, life)
         \/ create_platform_token_pair(v, life)
  PROVE  SessionInv'
<1>1. Issue(v, life) /\ visit[v].step = "pair"
  BY DEF create_tenant_token_pair, create_portal_token_pair, create_platform_token_pair
<1>2. visit[v].sub \notin active => visit[v].old
  BY <1>1 DEF SessionInv, RowRead
<1>3. Barred(visit[v].sub) => visit[v].sub \notin active
  BY DEF create_tenant_token_pair, create_portal_token_pair, create_platform_token_pair,
         assert_portal_module_enabled, Barred
<1> QED BY <1>1, <1>2, <1>3, IssueStep

\* A call reads the account of the access token it shows.
LEMMA CallStep ==
  ASSUME SessionInv, NEW v \in Visits, NEW t \in issued, Call(v, t) \/ PortalCall(v, t)
  PROVE  SessionInv'
<1>1. t.sub \in Accounts /\ t.typ = RealmOf[t.sub]
  BY DEF SessionInv, SessionTypeOK, RealmKept, TokenType
<1>2. CASE Call(v, t)
  <2>1. t.sub \in active /\ RealmOf[t.sub] # "portal"
    BY <1>1, <1>2 DEF Call, get_current_user, get_current_platform_user
  <2>2. ~Barred(t.sub)
    BY <2>1 DEF Barred
  <2>3. Reading("serving", t.sub) \in VisitType
    BY <1>1 DEF Reading, VisitType
  <2>4. Reading("serving", t.sub).sub = t.sub
    BY DEF Reading
  <2>5. Become(v, Reading("serving", t.sub)) /\ UNCHANGED <<minute, active, portal, issued>>
    BY <1>2 DEF Call
  <2> QED BY <2>1, <2>2, <2>3, <2>4, <2>5, EntryStep
<1>3. CASE PortalCall(v, t)
  <2>1. t.sub \in active
    BY <1>3 DEF PortalCall, get_current_portal_user
  <2>2. Reading("known", t.sub) \in VisitType
    BY <1>1 DEF Reading, VisitType
  <2>3. Reading("known", t.sub).sub = t.sub /\ Reading("known", t.sub).step = "known"
    BY DEF Reading
  <2>4. Become(v, Reading("known", t.sub)) /\ UNCHANGED <<minute, active, portal, issued>>
    BY <1>3 DEF PortalCall
  <2> QED BY <2>1, <2>2, <2>3, <2>4, EntryStep
<1> QED BY <1>2, <1>3

\* A request is served for the account it has read.
LEMMA ContextStep ==
  ASSUME SessionInv, NEW v \in Visits, get_portal_context(v)
  PROVE  SessionInv'
<1> DEFINE x == [visit[v] EXCEPT !.step = "serving"]
<1>1. visit[v] \in [step : {"pair", "known", "serving"}, sub : Accounts, old : BOOLEAN]
  BY DEF SessionInv, SessionTypeOK, VisitType, get_portal_context
<1>2. x \in VisitType /\ x.step = "serving" /\ x.sub = visit[v].sub /\ x.old = visit[v].old
  BY <1>1 DEF VisitType
<1>3. x.sub \notin active => x.old
  BY <1>2 DEF SessionInv, RowRead, get_portal_context
<1>4. Barred(x.sub) => x.sub \notin active
  BY <1>2 DEF Barred, get_portal_context, assert_portal_module_enabled
<1>5. Become(v, x) /\ UNCHANGED <<minute, active, portal, issued>>
  BY DEF get_portal_context
<1> HIDE DEF x
<1> QED BY <1>2, <1>3, <1>4, <1>5, EntryStep

\* An answer ends the request.
LEMMA AnswerStep ==
  ASSUME SessionInv, NEW v \in Visits, Answer(v)
  PROVE  SessionInv'
<1>1. NoVisit \in VisitType /\ NoVisit.step = "idle"
  BY DEF NoVisit, VisitType
<1> QED BY <1>1, EntryStep DEF Answer

----------------------------------------------------------------------------
(* The theorems *)

\* At first there are no tokens and no requests.
LEMMA InitSession == SessionInit => SessionInv
<1> SUFFICES ASSUME SessionInit PROVE SessionInv
  OBVIOUS
<1>1. SessionTypeOK
  BY DEF SessionInit, SessionTypeOK, NoVisit, VisitType
<1>2. RealmKept /\ RowRead /\ SessionsBacked
  BY DEF SessionInit, NoVisit, RealmKept, RowRead, SessionsBacked
<1> QED BY <1>1, <1>2 DEF SessionInv

\* Every step keeps the invariant.
LEMMA NextSession == SessionInv /\ [SessionNext]_sessionVars => SessionInv'
<1> SUFFICES ASSUME SessionInv, [SessionNext]_sessionVars PROVE SessionInv'
  OBVIOUS
<1>1. CASE UNCHANGED sessionVars
  BY <1>1 DEF sessionVars, SessionInv, SessionTypeOK, RealmKept, RowRead, SessionsBacked, Barred
<1>2. ASSUME NEW v \in Visits, VisitStep(v) PROVE SessionInv'
  <2>1. CASE \E a \in Accounts : login_json(v, a) \/ portal_login(v, a) \/ platform_login(v, a)
    BY <2>1, LoginStep
  <2>2. CASE \E t \in issued :
                refresh_access_token(v, t) \/ portal_refresh(v, t) \/ platform_refresh(v, t)
    BY <2>2, RenewalStep
  <2>3. CASE \E life \in Lifetimes :
                \/ create_tenant_token_pair(v, life) \/ create_portal_token_pair(v, life)
                \/ create_platform_token_pair(v, life)
    BY <2>3, PairStep
  <2>4. CASE \E t \in issued : Call(v, t) \/ PortalCall(v, t)
    BY <2>4, CallStep
  <2>5. CASE get_portal_context(v)
    BY <2>5, ContextStep
  <2>6. CASE Answer(v)
    BY <2>6, AnswerStep
  <2> QED BY <1>2, <2>1, <2>2, <2>3, <2>4, <2>5, <2>6 DEF VisitStep
<1>3. ASSUME NEW a \in Accounts, patch_portal_user(a) PROVE SessionInv'
  BY <1>3, FlagStep
<1>4. ASSUME NEW c \in Shops, SwitchPortal(c) PROVE SessionInv'
  BY <1>4, PortalStep
<1>5. CASE Expire
  BY <1>5, ExpireStep
<1> QED BY <1>1, <1>2, <1>3, <1>4, <1>5 DEF SessionNext

\* The strengthened invariant of the sessions.
THEOREM SessionInvariant == SessionSpec => []SessionInv
<1>1. SessionInit => SessionInv
  BY InitSession
<1>2. SessionInv /\ [SessionNext]_sessionVars => SessionInv'
  BY NextSession
<1> QED BY <1>1, <1>2, PTL DEF SessionSpec

\* Neither a token nor a chain of renewals outlasts the account's row, for any number of
\* accounts, companies and requests (auth_service.py:56-79, portal_auth_service.py:44-69).
THEOREM BarredHoldNothingNew == SessionSpec => []SessionsBacked
<1>1. SessionInv => SessionsBacked
  BY DEF SessionInv
<1> QED BY <1>1, SessionInvariant, PTL

\* The types of the state of the sessions.
THEOREM SessionTypes == SessionSpec => []SessionTypeOK
<1>1. SessionInv => SessionTypeOK
  BY DEF SessionInv
<1> QED BY <1>1, SessionInvariant, PTL

----------------------------------------------------------------------------
(* Roles and permissions: the invariant *)

Places == Sites \cup {Anywhere}

UserType == [exists : {FALSE}] \cup [exists : {TRUE}, active : BOOLEAN, role : Roles]
RowType  == [exists : {FALSE}]
              \cup [exists : {TRUE}, active : BOOLEAN, user : Users, site : Places, role : Roles]
ChangeType == [status : {"none"}]
                \cup [status : {"pending", "approved", "rejected"}, user : Users,
                      site : Places, role : Roles]
TaskType ==
  [step : {"start", "admitted", "counted", "pushed", "read"},
   work : UNION {{work[h] : h \in Handlers} : work \in RoleWork},
   count : Nat, limit : Nat \cup {None},
   found : Rows \cup {"none"}, role : Roles \cup {"none"}, legacy : Roles \cup {"none"}]

RoleTypeOK ==
  /\ licence \in Licences
  /\ user \in [Users -> UserType]
  /\ row \in [Rows -> RowType]
  /\ change \in [Changes -> ChangeType]
  /\ task \in [Handlers -> TaskType]
  /\ last \in [Users -> [Places -> Roles \cup {"none"}]]
  /\ granted \subseteq Changes
  /\ contested \subseteq Users
  /\ overrun \in BOOLEAN

\* What is kept of a user is kept of one that exists: users are not deleted.
Known ==
  /\ \A i \in Rows : row[i].exists => user[row[i].user].exists
  /\ \A k \in Changes : change[k].status # "none" => user[change[k].user].exists
  /\ \A u \in Users : \A s \in Places : last[u][s] # "none" => user[u].exists
  /\ \A k \in granted : change[k].status # "none"

\* A handler that has read holds what its kind reads, and an approval that found a row
\* found one of that user, of that site unless a desktop moved it since.
TaskRead(t) ==
  /\ t.step = "counted" => t.work.kind = "create"
  /\ t.step = "pushed" => t.work.kind = "push"
  /\ t.step \in {"counted", "pushed"} => HasRoom(t.limit, t.count)
  /\ t.step # "read" => t.found = "none"
  /\ t.step = "read" =>
       /\ t.work.kind \in {"approve", "reject"}
       /\ change[t.work.change].status # "none"
       /\ t.found # "none" =>
            /\ row[t.found].exists
            /\ row[t.found].user = change[t.work.change].user
            /\ change[t.work.change].user \notin contested =>
                 row[t.found].site = change[t.work.change].site

\* Of a user that is not contested, whatever the step of the handlers.
OneRow(u) ==
  \A i, j \in Rows :
    /\ row[i].exists /\ row[i].user = u
    /\ row[j].exists /\ row[j].user = u
    /\ row[i].site = row[j].site
    => i = j

InForce(u, s) ==
  last[u][s] # "none" =>
    /\ \E i \in Rows : /\ row[i].exists /\ row[i].user = u /\ row[i].site = s
                       /\ row[i].role = last[u][s]
    /\ s = Anywhere => user[u].role = last[u][s]

Counted(k) == k \in granted <=> change[k].status = "approved"

RoleInv ==
  /\ RoleTypeOK
  /\ Known
  /\ \A h \in Handlers : TaskRead(task[h])
  /\ \A u \in Users \ contested : OneRow(u) /\ \A s \in Places : InForce(u, s)
  /\ \A k \in Changes :
       change[k].status # "none" /\ change[k].user \notin contested => Counted(k)

USE UsersAssumption, SitesAssumption, StaffAssumption, StaffRolesAssumption, RowsAssumption,
    LicencesAssumption

----------------------------------------------------------------------------
(* Types, and what a handler does to its own entry *)

\* What a handler is asked to do names users, sites, roles and requests that there are.
LEMMA WorkAsked ==
  ASSUME NEW t \in TaskType
  PROVE  LET w == t.work
         IN /\ w.kind \in {"create", "activity", "ask", "grant"} => w.user \in Users
            /\ w.kind \in {"create", "push", "ask"} => w.role \in Roles
            /\ w.kind = "create" => w.roles \in Seq([site : Places, role : Roles])
            /\ w.kind = "push" => w.users \subseteq Users
            /\ w.kind = "activity" => w.active \in BOOLEAN
            /\ w.kind = "ask" => w.site \in Places
            /\ w.kind \in {"approve", "reject"} => w.change \in Changes
<1>1. PICK work \in RoleWork, h \in Handlers : t.work = work[h]
  BY DEF TaskType
<1> QED BY <1>1, RoleWorkAssumption DEF Places

\* A handler that is over, or that gave up, is back where it started.
LEMMA DoneEffect ==
  ASSUME RoleTypeOK, NEW h \in Handlers, Done(h)
  PROVE  /\ Waiting(Task(h)) \in TaskType
         /\ Waiting(Task(h)).step = "start"
         /\ Waiting(Task(h)).found = "none"
         /\ task' = [task EXCEPT ![h] = Waiting(Task(h))]
<1>1. task[h] \in TaskType
  BY DEF RoleTypeOK
<1>2. Waiting(Task(h)) \in TaskType
  BY <1>1 DEF Waiting, Task, TaskType, None
<1> QED BY <1>2 DEF Done, Waiting

\* An entry that is put in the table leaves the table well-typed and the others alone.
LEMMA PutEffect ==
  ASSUME RoleTypeOK, NEW h \in Handlers, NEW t \in TaskType, task' = [task EXCEPT ![h] = t]
  PROVE  /\ task' \in [Handlers -> TaskType]
         /\ task'[h] = t
         /\ \A g \in Handlers : g # h => task'[g] = task[g]
BY DEF RoleTypeOK

\* What a handler has read stays true when requests and rows are kept: a row stays with its
\* user, and at its site unless the user is contested.
LEMMA ReadKept ==
  ASSUME NEW t \in TaskType, TaskRead(t), RoleTypeOK,
         \A k \in Changes : change[k].status # "none" =>
           /\ change'[k].status # "none"
           /\ change'[k].user = change[k].user /\ change'[k].site = change[k].site,
         \A i \in Rows : row[i].exists =>
           /\ row'[i].exists /\ row'[i].user = row[i].user
           /\ row[i].user \notin contested' => row'[i].site = row[i].site,
         contested \subseteq contested'
  PROVE  TaskRead(t)'
<1>1. CASE t.step = "read"
  <2>1. /\ t.work.kind \in {"approve", "reject"}
        /\ change[t.work.change].status # "none"
    BY <1>1 DEF TaskRead
  <2>2. t.work.change \in Changes
    BY <2>1, WorkAsked
  <2>3. t.found # "none" => t.found \in Rows
    BY DEF TaskType
  <2> QED BY <1>1, <2>1, <2>2, <2>3 DEF TaskRead
<1>2. CASE t.step # "read"
  BY <1>2 DEF TaskRead, HasRoom
<1> QED BY <1>1, <1>2

\* All of them, when one handler has put down an entry of its own.
LEMMA TableKept ==
  ASSUME RoleInv, NEW h \in Handlers, NEW t \in TaskType, task' = [task EXCEPT ![h] = t],
         TaskRead(t)',
         \A k \in Changes : change[k].status # "none" =>
           /\ change'[k].status # "none"
           /\ change'[k].user = change[k].user /\ change'[k].site = change[k].site,
         \A i \in Rows : row[i].exists =>
           /\ row'[i].exists /\ row'[i].user = row[i].user
           /\ row[i].user \notin contested' => row'[i].site = row[i].site,
         contested \subseteq contested'
  PROVE  \A g \in Handlers : TaskRead(task[g])'
<1> SUFFICES ASSUME NEW g \in Handlers PROVE TaskRead(task[g])'
  OBVIOUS
<1>0. RoleTypeOK
  BY DEF RoleInv
<1>1. /\ task'[h] = t
      /\ g # h => task'[g] = task[g]
  BY <1>0, PutEffect
<1>2. CASE g = h
  BY <1>1, <1>2 DEF TaskRead
<1>3. CASE g # h
  <2>1. task[g] \in TaskType /\ TaskRead(task[g])
    BY DEF RoleInv, RoleTypeOK
  <2>2. PICK s \in TaskType : TaskRead(s) /\ task'[g] = s
    BY <2>1, <1>1, <1>3
  <2>3. TaskRead(s)'
    BY <2>2, <1>0, ReadKept
  <2> QED BY <2>2, <2>3 DEF TaskRead
<1> QED BY <1>2, <1>3

\* A step that only reads, and leaves what it read in its own entry, keeps the invariant.
LEMMA QuietStep ==
  ASSUME RoleInv, NEW h \in Handlers, NEW t \in TaskType, task' = [task EXCEPT ![h] = t],
         TaskRead(t),
         UNCHANGED <<licence, user, row, change, history>>
  PROVE  RoleInv'
<1>1. UNCHANGED <<licence, user, row, change, last, granted, contested, overrun>>
  BY DEF history
<1>2. RoleTypeOK'
  BY <1>1, PutEffect DEF RoleInv, RoleTypeOK
<1>3. TaskRead(t)'
  BY <1>1 DEF TaskRead, HasRoom
<1>4. \A g \in Handlers : TaskRead(task[g])'
  BY <1>1, <1>3, TableKept
<1>5. Known'
  BY <1>1 DEF RoleInv, Known
<1>6. \A u \in (Users \ contested)' : OneRow(u)' /\ \A s \in Places : InForce(u, s)'
  BY <1>1 DEF RoleInv, OneRow, InForce
<1>7. \A k \in Changes : change'[k].status # "none" /\ change'[k].user \notin contested'
        => Counted(k)'
  BY <1>1 DEF RoleInv, Counted
<1> QED BY <1>2, <1>4, <1>5, <1>6, <1>7 DEF RoleInv

----------------------------------------------------------------------------
(* The steps that only read *)

\* Admission, and giving up, keep the invariant.
LEMMA AdmissionStep ==
  ASSUME RoleInv, NEW h \in Handlers, Authorise(h) \/ GiveUp(h)
  PROVE  RoleInv'
<1>0. RoleTypeOK /\ task[h] \in TaskType /\ TaskRead(task[h])
  BY DEF RoleInv, RoleTypeOK
<1>1. CASE GiveUp(h)
  <2>1. Done(h) /\ UNCHANGED <<licence, user, row, change, history>>
    BY <1>1 DEF GiveUp, people
  <2> QED BY <1>0, <2>1, DoneEffect, QuietStep DEF TaskRead
<1>2. CASE Authorise(h)
  <2> DEFINE t == [task[h] EXCEPT !.step = "admitted"]
  <2>0. task[h].found = "none"
    BY <1>0, <1>2 DEF Authorise, Doing, TaskRead
  <2>1. t \in TaskType /\ t.step = "admitted" /\ t.found = "none"
    BY <1>0, <2>0 DEF TaskType
  <2>2. task' = [task EXCEPT ![h] = t] /\ UNCHANGED <<licence, user, row, change, history>>
    BY <1>2, <1>0 DEF Authorise, Move, people, RoleTypeOK
  <2>3. TaskRead(t)
    BY <2>1 DEF TaskRead
  <2> HIDE DEF t
  <2> QED BY <2>1, <2>2, <2>3, QuietStep
<1> QED BY <1>1, <1>2

\* The users that are active are finitely many.
LEMMA ActiveFinite == IsFiniteSet(ActiveUsers) /\ Cardinality(ActiveUsers) \in Nat
BY FS_Subset, FS_CardinalityType DEF ActiveUsers

\* A count that found room is remembered with the limit it was held against.
LEMMA CountStep ==
  ASSUME RoleInv, NEW h \in Handlers, CountUsers(h) \/ CountPushed(h)
  PROVE  RoleInv'
<1>0. RoleTypeOK /\ task[h] \in TaskType
  BY DEF RoleInv, RoleTypeOK
<1>1. licence.users \in Nat \cup {None}
  BY <1>0 DEF RoleTypeOK
<1>2. PICK step \in {"counted", "pushed"} :
        /\ task' = [task EXCEPT ![h].step = step, ![h].count = Cardinality(ActiveUsers),
                                ![h].limit = licence.users]
        /\ HasRoom(licence.users, Cardinality(ActiveUsers))
        /\ step = "counted" => Task(h).kind = "create"
        /\ step = "pushed" => Task(h).kind = "push"
        /\ UNCHANGED <<licence, user, row, change, history>>
  BY DEF CountUsers, CountPushed, Ready, people
<1>7. task[h].found = "none"
  BY <1>0 DEF CountUsers, CountPushed, Ready, Doing, RoleInv, TaskRead
<1> DEFINE n == Cardinality(ActiveUsers)
           t == [task[h] EXCEPT !.step = step, !.count = n, !.limit = licence.users]
<1>3. n \in Nat
  BY ActiveFinite
<1> HIDE DEF n
<1>4. t \in TaskType /\ t.step = step /\ t.count = n /\ t.limit = licence.users
        /\ t.work = task[h].work /\ t.found = "none"
  BY <1>0, <1>1, <1>3, <1>7 DEF TaskType
<1>5. task' = [task EXCEPT ![h] = t]
  BY <1>0, <1>2 DEF RoleTypeOK, n
<1>6. TaskRead(t)
  BY <1>2, <1>4 DEF TaskRead, Task, n
<1> HIDE DEF t
<1> QED BY <1>2, <1>4, <1>5, <1>6, QuietStep

\* A decision reads a request that is there, and a row of its user and site.
LEMMA ReadStep ==
  ASSUME RoleInv, NEW h \in Handlers, ReadChange(h)
  PROVE  RoleInv'
<1>0. RoleTypeOK /\ task[h] \in TaskType
  BY DEF RoleInv, RoleTypeOK
<1> DEFINE k == Task(h).change
           c == change[k]
<1>1. /\ Task(h).kind \in {"approve", "reject"}
      /\ c.status = "pending"
      /\ UNCHANGED <<licence, user, row, change, history>>
  BY DEF ReadChange, Ready, people
<1>2. k \in Changes
  BY <1>0, <1>1, WorkAsked DEF Task
<1>3. c.user \in Users /\ c.site \in Places /\ c \in ChangeType
  BY <1>0, <1>1, <1>2 DEF RoleTypeOK, ChangeType
<1>4. user[c.user].role \in Roles
  <2>1. user[c.user].exists /\ user[c.user] \in UserType
    BY <1>0, <1>1, <1>2, <1>3 DEF RoleInv, Known, RoleTypeOK
  <2> QED BY <2>1 DEF UserType
<1>5. task[h].step = "admitted"
  BY DEF ReadChange, Ready, Doing
<1>6. CASE task' = [task EXCEPT ![h].step = "read", ![h].legacy = user[c.user].role]
  <2> DEFINE r == user[c.user].role
             t == [task[h] EXCEPT !.step = "read", !.legacy = r]
  <2>1. r \in Roles
    BY <1>4
  <2>2. task' = [task EXCEPT ![h] = t]
    BY <1>0, <1>6 DEF RoleTypeOK
  <2> HIDE DEF r
  <2>3. t \in TaskType /\ t.step = "read" /\ t.work = task[h].work /\ t.found = task[h].found
    BY <1>0, <2>1 DEF TaskType
  <2>4. task[h].found = "none"
    BY <1>0, <1>5 DEF RoleInv, TaskRead
  <2>5. TaskRead(t)
    BY <1>1, <2>3, <2>4 DEF TaskRead, Task
  <2> HIDE DEF t
  <2> QED BY <1>1, <2>2, <2>3, <2>5, QuietStep
<1>7. ASSUME NEW i \in RowsAt(c.user, c.site),
             task' = [task EXCEPT ![h].step = "read", ![h].found = i, ![h].role = row[i].role,
                                  ![h].legacy = user[c.user].role]
      PROVE  RoleInv'
  <2> DEFINE r == user[c.user].role
             q == row[i].role
             t == [task[h] EXCEPT !.step = "read", !.found = i, !.role = q, !.legacy = r]
  <2>1. i \in Rows /\ row[i].exists /\ row[i].user = c.user /\ row[i].site = c.site
    BY DEF RowsAt
  <2>2. r \in Roles /\ q \in Roles
    BY <1>0, <1>4, <2>1 DEF RoleTypeOK, RowType
  <2>3. task' = [task EXCEPT ![h] = t]
    BY <1>0, <1>7 DEF RoleTypeOK
  <2> HIDE DEF r, q
  <2>4. t \in TaskType /\ t.step = "read" /\ t.work = task[h].work /\ t.found = i
    BY <1>0, <2>1, <2>2 DEF TaskType
  <2>5. TaskRead(t)
    BY <1>1, <2>1, <2>4 DEF TaskRead, Task
  <2> HIDE DEF t
  <2> QED BY <1>1, <2>3, <2>4, <2>5, QuietStep
<1> QED BY <1>6, <1>7 DEF ReadChange

----------------------------------------------------------------------------
(* The steps that write *)

\* The history of the limit is a truth value.
LEMMA ExplainType ==
  ASSUME NEW cause, Explain(cause)
  PROVE  overrun' \in BOOLEAN
BY DEF Explain

\* Users that come, or go and come back, leave what is kept of the others alone.
LEMMA UsersStep ==
  ASSUME RoleInv, NEW h \in Handlers, Done(h),
         user' \in [Users -> UserType], overrun' \in BOOLEAN,
         \A u \in Users : user[u].exists => user'[u].exists /\ user'[u].role = user[u].role,
         UNCHANGED <<licence, row, change, last, granted, contested>>
  PROVE  RoleInv'
<1>0. RoleTypeOK
  BY DEF RoleInv
<1>1. PICK t \in TaskType : t.step = "start" /\ t.found = "none" /\ task' = [task EXCEPT ![h] = t]
  BY <1>0, DoneEffect
<1>2. RoleTypeOK'
  BY <1>0, <1>1, PutEffect DEF RoleTypeOK
<1>3. \A g \in Handlers : TaskRead(task[g])'
  <2>1. TaskRead(t)'
    BY <1>1 DEF TaskRead
  <2> QED BY <1>1, <2>1, TableKept
<1>4. Known'
  <2>1. \A i \in Rows : row[i].exists => row[i].user \in Users
    BY <1>0 DEF RoleTypeOK, RowType
  <2>2. \A k \in Changes : change[k].status # "none" => change[k].user \in Users
    BY <1>0 DEF RoleTypeOK, ChangeType
  <2> QED BY <2>1, <2>2 DEF RoleInv, Known
<1>5. \A u \in (Users \ contested)' : OneRow(u)' /\ \A s \in Places : InForce(u, s)'
  <2> SUFFICES ASSUME NEW u \in Users \ contested
               PROVE  OneRow(u)' /\ \A s \in Places : InForce(u, s)'
    OBVIOUS
  <2>1. OneRow(u)'
    BY DEF RoleInv, OneRow
  <2>2. ASSUME NEW s \in Places PROVE InForce(u, s)'
    BY DEF RoleInv, InForce, Known
  <2> QED BY <2>1, <2>2
<1>6. \A k \in Changes : change'[k].status # "none" /\ change'[k].user \notin contested'
        => Counted(k)'
  BY DEF RoleInv, Counted
<1> QED BY <1>2, <1>3, <1>4, <1>5, <1>6 DEF RoleInv

\* A switch sets one column of a user that exists.
LEMMA SwitchStep ==
  ASSUME RoleInv, NEW h \in Handlers, SetUserActive(h)
  PROVE  RoleInv'
<1>0. RoleTypeOK /\ task[h] \in TaskType
  BY DEF RoleInv, RoleTypeOK
<1> DEFINE w == Task(h)
<1>1. /\ w.kind = "activity" /\ user[w.user].exists
      /\ user' = [user EXCEPT ![w.user].active = w.active]
      /\ Done(h) /\ UNCHANGED <<licence, row, change, last, granted, contested>>
      /\ Explain(w.active)
  BY DEF SetUserActive, Ready
<1>2. w.user \in Users /\ w.active \in BOOLEAN
  BY <1>0, <1>1, WorkAsked DEF Task
<1>3. overrun' \in BOOLEAN
  BY <1>1, ExplainType
<1>4. \A u \in Users : /\ user'[u] \in UserType
                       /\ user[u].exists => user'[u].exists /\ user'[u].role = user[u].role
  <2>1. user[w.user] \in UserType /\ user[w.user].exists
    BY <1>0, <1>1, <1>2 DEF RoleTypeOK
  <2> DEFINE e == [user[w.user] EXCEPT !.active = w.active]
  <2>2. e \in UserType /\ e.exists /\ e.role = user[w.user].role
    BY <2>1, <1>2 DEF UserType
  <2>3. user' = [user EXCEPT ![w.user] = e]
    BY <1>0, <1>1 DEF RoleTypeOK
  <2> HIDE DEF e, w
  <2> QED BY <1>0, <1>2, <2>2, <2>3 DEF RoleTypeOK
<1>5. user' \in [Users -> UserType]
  BY <1>0, <1>1, <1>4 DEF RoleTypeOK
<1> QED BY <1>1, <1>3, <1>4, <1>5, UsersStep

\* A push inserts users that did not exist.
LEMMA PushedStep ==
  ASSUME RoleInv, NEW h \in Handlers, CommitPushed(h)
  PROVE  RoleInv'
<1>0. RoleTypeOK /\ task[h] \in TaskType /\ TaskRead(task[h])
  BY DEF RoleInv, RoleTypeOK
<1> DEFINE w == Task(h)
<1>1. w.kind = "push"
  BY <1>0 DEF CommitPushed, Doing, TaskRead, Task
<1>2. w.users \subseteq Users /\ w.role \in Roles
  BY <1>0, <1>1, WorkAsked DEF Task
<1>3. Done(h) /\ UNCHANGED <<licence, row, change, last, granted, contested>>
  BY DEF CommitPushed
<1>4. CASE \E u \in w.users : user[u].exists
  BY <1>0, <1>3, <1>4, UsersStep DEF CommitPushed, RoleTypeOK
<1>5. CASE ~ \E u \in w.users : user[u].exists
  <2>1. PICK cause : Explain(cause)
    BY <1>5 DEF CommitPushed
  <2>2. user' = [u \in Users |-> IF u \in w.users THEN User(TRUE, w.role) ELSE user[u]]
    BY <1>5 DEF CommitPushed
  <2>3. User(TRUE, w.role) \in UserType
    BY <1>2 DEF User, UserType
  <2>4. user' \in [Users -> UserType]
    BY <1>0, <2>2, <2>3 DEF RoleTypeOK
  <2>5. \A u \in Users : user[u].exists => user'[u] = user[u]
    BY <1>5, <2>2
  <2>6. overrun' \in BOOLEAN
    BY <2>1, ExplainType
  <2> QED BY <1>3, <2>4, <2>5, <2>6, UsersStep
<1> QED BY <1>4, <1>5

\* The roles that are put down for a new user are roles at places there are.
LEMMA SiteRolesType ==
  ASSUME NEW t \in TaskType, t.work.kind = "create"
  PROVE  /\ \A n \in DOMAIN SiteRoles(t.work) :
              SiteRoles(t.work)[n] \in [site : Places, role : Roles]
         /\ t.work.user \in Users /\ t.work.role \in Roles
<1>1. /\ t.work.user \in Users /\ t.work.role \in Roles
      /\ t.work.roles \in Seq([site : Places, role : Roles])
  BY WorkAsked
<1>2. Principal \in Places /\ Anywhere \in Places
  BY DEF Places
<1> DEFINE one == [site |-> IF t.work.role = "admin" THEN Anywhere ELSE Principal,
                   role |-> t.work.role]
<1>3. one \in [site : Places, role : Roles]
  BY <1>1, <1>2
<1>4. SiteRoles(t.work) = IF t.work.roles # <<>> THEN t.work.roles ELSE <<one>>
  BY DEF SiteRoles
<1> HIDE DEF one
<1>5. CASE t.work.roles # <<>>
  <2> DEFINE S == [site : Places, role : Roles]
  <2>1. PICK q \in Seq(S) : q = t.work.roles
    BY <1>1
  <2> HIDE DEF S
  <2>2. \A n \in DOMAIN q : q[n] \in S
    BY <2>1
  <2>3. SiteRoles(t.work) = q
    BY <1>4, <1>5, <2>1
  <2> QED BY <1>1, <2>2, <2>3 DEF S
<1>6. CASE t.work.roles = <<>>
  <2>1. SiteRoles(t.work) = <<one>> /\ DOMAIN <<one>> = {1} /\ <<one>>[1] = one
    BY <1>4, <1>6
  <2> QED BY <1>1, <1>3, <2>1
<1> QED BY <1>5, <1>6

\* A creation inserts a user that did not exist, and so had no row and no role in force.
LEMMA CreateStep ==
  ASSUME RoleInv, NEW h \in Handlers, CommitUser(h)
  PROVE  RoleInv'
<1>0. RoleTypeOK /\ task[h] \in TaskType /\ TaskRead(task[h])
  BY DEF RoleInv, RoleTypeOK
<1>1. Done(h) /\ UNCHANGED <<licence, change, last, granted>>
  BY DEF CommitUser
<1> DEFINE w == Task(h)
           roles == SiteRoles(w)
<1>2. CASE user[w.user].exists
  BY <1>0, <1>1, <1>2, UsersStep DEF CommitUser, RoleTypeOK
<1>3. CASE ~user[w.user].exists
  <2>1. w.kind = "create"
    BY <1>0 DEF CommitUser, Doing, TaskRead, Task
  <2>2. /\ w.user \in Users /\ w.role \in Roles
        /\ \A n \in DOMAIN roles : roles[n] \in [site : Places, role : Roles]
    BY <1>0, <2>1, SiteRolesType DEF Task
  <2>3. user' = [user EXCEPT ![w.user] = User(TRUE, w.role)]
    BY <1>3 DEF CommitUser
  <2>4. PICK id \in [DOMAIN roles -> Unused(Rows)] :
          /\ \A n, m \in DOMAIN roles : id[n] = id[m] => n = m
          /\ row' = [i \in Rows |->
               IF \E n \in DOMAIN roles : id[n] = i
               THEN LET n == CHOOSE n \in DOMAIN roles : id[n] = i
                    IN Assignment(w.user, roles[n].site, roles[n].role)
               ELSE row[i]]
    BY <1>3 DEF CommitUser
  <2>5. contested' = IF \E n, m \in DOMAIN roles : n # m /\ roles[n].site = roles[m].site
                     THEN contested \cup {w.user} ELSE contested
    BY <1>3 DEF CommitUser
  <2>6. \E cause : Explain(cause)
    BY <1>3 DEF CommitUser
  <2> DEFINE v == w.user
             New(i) == \E n \in DOMAIN roles : /\ id[n] = i /\ ~row[i].exists
                                               /\ row'[i] = Assignment(v, roles[n].site, roles[n].role)
  <2>7. v \in Users /\ ~user[v].exists
    BY <1>3, <2>2
  <2>8. ASSUME NEW i \in Rows PROVE row'[i] = row[i] \/ New(i)
    <3>1. CASE \E n \in DOMAIN roles : id[n] = i
      <4> DEFINE n == CHOOSE n \in DOMAIN roles : id[n] = i
      <4>1. n \in DOMAIN roles /\ id[n] = i
        BY <3>1
      <4>2. row'[i] = Assignment(v, roles[n].site, roles[n].role)
        BY <2>4, <3>1
      <4>3. ~row[i].exists
        BY <4>1 DEF Unused
      <4> HIDE DEF n
      <4> QED BY <4>1, <4>2, <4>3
    <3>2. CASE ~ \E n \in DOMAIN roles : id[n] = i
      BY <2>4, <3>2
    <3> QED BY <3>1, <3>2
  <2>9. /\ \A i \in Rows : row[i].exists => row'[i] = row[i]
        /\ \A i \in Rows : row'[i] # row[i] => row'[i].exists /\ row'[i].user = v
    <3> SUFFICES ASSUME NEW i \in Rows, row'[i] # row[i]
                 PROVE  ~row[i].exists /\ row'[i].exists /\ row'[i].user = v
      OBVIOUS
    <3>1. PICK n \in DOMAIN roles :
            ~row[i].exists /\ row'[i] = Assignment(v, roles[n].site, roles[n].role)
      BY <2>8
    <3> QED BY <3>1 DEF Assignment
  <2>10. row' \in [Rows -> RowType]
    <3>1. ASSUME NEW i \in Rows PROVE row'[i] \in RowType
      <4>1. row[i] \in RowType
        BY <1>0 DEF RoleTypeOK
      <4>2. ASSUME NEW n \in DOMAIN roles
            PROVE  Assignment(v, roles[n].site, roles[n].role) \in RowType
        BY <2>2, <4>2 DEF Assignment, RowType
      <4> QED BY <2>8, <4>1, <4>2
    <3> QED BY <2>4, <3>1
  <2>11. user' \in [Users -> UserType] /\ user'[v].exists
         /\ \A u \in Users : u # v => user'[u] = user[u]
    BY <1>0, <2>2, <2>3 DEF RoleTypeOK, User, UserType
  <2>12. /\ contested \subseteq contested' /\ contested' \subseteq contested \cup {v}
         /\ v \in contested' \/ \A n, m \in DOMAIN roles : roles[n].site = roles[m].site => n = m
    BY <2>5
  <2>13. /\ \A i \in Rows : row[i].exists => row[i].user # v
         /\ \A k \in Changes : change[k].status # "none" => change[k].user # v
         /\ \A s \in Places : last[v][s] = "none"
    BY <2>7 DEF RoleInv, Known
  <2>14. PICK t \in TaskType :
           t.step = "start" /\ t.found = "none" /\ task' = [task EXCEPT ![h] = t]
    BY <1>0, <1>1, DoneEffect
  <2> HIDE DEF v, w, roles
  <2>15. RoleTypeOK'
    <3>1. overrun' \in BOOLEAN
      BY <2>6, ExplainType
    <3> QED BY <1>0, <1>1, <2>7, <2>10, <2>11, <2>12, <2>14, <3>1, PutEffect DEF RoleTypeOK
  <2>16. \A g \in Handlers : TaskRead(task[g])'
    <3>1. TaskRead(t)'
      BY <2>14 DEF TaskRead
    <3> QED BY <1>1, <2>9, <2>12, <2>14, <3>1, TableKept
  <2>17. Known'
    <3>1. \A i \in Rows : row[i].exists => row[i].user \in Users
      BY <1>0 DEF RoleTypeOK, RowType
    <3>2. \A k \in Changes : change[k].status # "none" => change[k].user \in Users
      BY <1>0 DEF RoleTypeOK, ChangeType
    <3>3. \A u \in Users : user[u].exists => user'[u].exists
      BY <2>7, <2>11
    <3>4. \A i \in Rows : row'[i].exists => user'[row'[i].user].exists
      <4> SUFFICES ASSUME NEW i \in Rows, row'[i].exists PROVE user'[row'[i].user].exists
        OBVIOUS
      <4>1. CASE row'[i] = row[i]
        BY <4>1, <3>1, <3>3 DEF RoleInv, Known
      <4>2. CASE row'[i] # row[i]
        BY <4>2, <2>9, <2>11
      <4> QED BY <4>1, <4>2
    <3> QED BY <1>1, <3>2, <3>3, <3>4 DEF RoleInv, Known
  <2>18. ASSUME NEW u \in Users, u \notin contested'
         PROVE  OneRow(u)' /\ \A s \in Places : InForce(u, s)'
    <3>1. CASE u = v
      <4>1. ASSUME NEW i \in Rows, NEW j \in Rows,
                   row'[i].exists, row'[i].user = v, row'[j].exists, row'[j].user = v,
                   row'[i].site = row'[j].site
            PROVE  i = j
        <5>1. New(i) /\ New(j)
          BY <2>8, <2>13, <4>1
        <5>2. PICK n \in DOMAIN roles : id[n] = i /\ row'[i].site = roles[n].site
          BY <5>1 DEF Assignment
        <5>3. PICK m \in DOMAIN roles : id[m] = j /\ row'[j].site = roles[m].site
          BY <5>1 DEF Assignment
        <5> QED BY <2>12, <3>1, <4>1, <5>2, <5>3, <2>18
      <4> QED BY <1>1, <2>13, <3>1, <4>1 DEF OneRow, InForce
    <3>2. CASE u # v
      <4>1. u \in Users \ contested /\ user'[u] = user[u]
        BY <2>11, <2>12, <2>18, <3>2
      <4>2. \A i \in Rows : /\ row'[i].exists /\ row'[i].user = u => row'[i] = row[i]
                            /\ row[i].exists => row'[i] = row[i]
        BY <2>9, <3>2
      <4>3. OneRow(u)'
        BY <4>1, <4>2 DEF RoleInv, OneRow
      <4>4. ASSUME NEW s \in Places PROVE InForce(u, s)'
        BY <1>1, <4>1, <4>2 DEF RoleInv, InForce
      <4> QED BY <4>3, <4>4
    <3> QED BY <3>1, <3>2
  <2>19. \A k \in Changes : change'[k].status # "none" /\ change'[k].user \notin contested'
           => Counted(k)'
    BY <1>1, <2>12 DEF RoleInv, Counted
  <2> QED BY <2>15, <2>16, <2>17, <2>18, <2>19 DEF RoleInv
<1> QED BY <1>2, <1>3

\* A decision that was asked for is pending, of a user that exists.
LEMMA AskStep ==
  ASSUME RoleInv, NEW h \in Handlers, AskForRole(h)
  PROVE  RoleInv'
<1>0. RoleTypeOK /\ task[h] \in TaskType
  BY DEF RoleInv, RoleTypeOK
<1>1. PICK k \in Changes, u \in Users, s \in Places, r \in Roles :
        /\ change[k].status = "none" /\ user[u].exists
        /\ change' = [change EXCEPT ![k] = [status |-> "pending", user |-> u,
                                            site |-> s, role |-> r]]
  <2>1. Task(h).kind = "ask" /\ user[Task(h).user].exists
    BY DEF AskForRole, Ready
  <2>2. Task(h).user \in Users /\ Task(h).site \in Places /\ Task(h).role \in Roles
    BY <1>0, <2>1, WorkAsked DEF Task
  <2>3. PICK k \in Changes :
          /\ change[k].status = "none"
          /\ change' = [change EXCEPT ![k] = [status |-> "pending", user |-> Task(h).user,
                                              site |-> Task(h).site, role |-> Task(h).role]]
    BY DEF AskForRole
  <2> QED BY <2>1, <2>2, <2>3
<1>2. Done(h) /\ UNCHANGED <<licence, user, row, last, granted, contested, overrun>>
  BY DEF AskForRole, history
<1>3. PICK t \in TaskType : t.step = "start" /\ t.found = "none" /\ task' = [task EXCEPT ![h] = t]
  BY <1>0, <1>2, DoneEffect
<1> DEFINE c == [status |-> "pending", user |-> u, site |-> s, role |-> r]
<1>4. c \in ChangeType /\ c.status = "pending" /\ c.user = u
  BY DEF ChangeType
<1>5. /\ change' = [change EXCEPT ![k] = c]
      /\ change' \in [Changes -> ChangeType] /\ change'[k] = c
      /\ \A j \in Changes : j # k => change'[j] = change[j]
  BY <1>0, <1>1, <1>4 DEF RoleTypeOK
<1> HIDE DEF c
<1>6. RoleTypeOK'
  BY <1>0, <1>2, <1>3, <1>5, PutEffect DEF RoleTypeOK
<1>7. \A g \in Handlers : TaskRead(task[g])'
  <2>1. TaskRead(t)'
    BY <1>3 DEF TaskRead
  <2>2. \A j \in Changes : change[j].status # "none" => change'[j] = change[j]
    BY <1>1, <1>5
  <2> QED BY <1>2, <1>3, <2>1, <2>2, TableKept
<1>8. Known'
  BY <1>1, <1>2, <1>4, <1>5 DEF RoleInv, Known
<1>9. \A v \in (Users \ contested)' : OneRow(v)' /\ \A p \in Places : InForce(v, p)'
  BY <1>2 DEF RoleInv, OneRow, InForce
<1>10. \A j \in Changes : change'[j].status # "none" /\ change'[j].user \notin contested'
         => Counted(j)'
  <2>1. k \notin granted
    BY <1>1 DEF RoleInv, Known
  <2> QED BY <1>2, <1>4, <1>5, <2>1 DEF RoleInv, Counted
<1> QED BY <1>6, <1>7, <1>8, <1>9, <1>10 DEF RoleInv

\* A request that is decided keeps its user, its site and its role.
LEMMA DecidedEffect ==
  ASSUME RoleTypeOK, NEW k \in Changes, change[k].status # "none",
         NEW d \in {"approved", "rejected"}, change' = [change EXCEPT ![k].status = d]
  PROVE  /\ change' \in [Changes -> ChangeType]
         /\ change'[k].status = d
         /\ \A j \in Changes : j # k => change'[j] = change[j]
         /\ \A j \in Changes : change[j].status # "none" =>
              /\ change'[j].status # "none" /\ change'[j].user = change[j].user
              /\ change'[j].site = change[j].site /\ change'[j].role = change[j].role
         /\ \A j \in Changes : change'[j].status # "none" => change[j].status # "none"
<1>1. change[k] \in ChangeType
  BY DEF RoleTypeOK
<1> DEFINE e == [change[k] EXCEPT !.status = d]
<1>2. /\ e \in ChangeType /\ e.status = d /\ d # "none"
      /\ e.user = change[k].user /\ e.site = change[k].site /\ e.role = change[k].role
  BY <1>1 DEF ChangeType
<1>3. change' = [change EXCEPT ![k] = e]
  BY DEF RoleTypeOK
<1> HIDE DEF e
<1>4. change'[k] = e /\ \A j \in Changes : j # k => change'[j] = change[j]
  BY <1>3 DEF RoleTypeOK
<1>5. change' \in [Changes -> ChangeType]
  BY <1>2, <1>3 DEF RoleTypeOK
<1> QED BY <1>2, <1>4, <1>5

\* A rejection takes nobody's role away; one of a request that was decided meanwhile is known.
LEMMA RejectionStep ==
  ASSUME RoleInv, NEW h \in Handlers, CommitRejection(h)
  PROVE  RoleInv'
<1>0. RoleTypeOK /\ task[h] \in TaskType /\ TaskRead(task[h])
  BY DEF RoleInv, RoleTypeOK
<1>1. PICK k \in Changes :
        /\ change[k].status # "none"
        /\ change' = [change EXCEPT ![k].status = "rejected"]
        /\ contested' = IF change[k].status # "pending" THEN contested \cup {change[k].user}
                        ELSE contested
  <2>1. Task(h).change \in Changes
    BY <1>0, WorkAsked DEF CommitRejection, Task
  <2>2. change[Task(h).change].status # "none"
    BY <1>0 DEF CommitRejection, Doing, TaskRead, Task
  <2> QED BY <2>1, <2>2 DEF CommitRejection
<1>2. Done(h) /\ UNCHANGED <<licence, user, row, last, granted, overrun>>
  BY DEF CommitRejection
<1>3. PICK t \in TaskType : t.step = "start" /\ t.found = "none" /\ task' = [task EXCEPT ![h] = t]
  BY <1>0, <1>2, DoneEffect
<1>4. /\ change' \in [Changes -> ChangeType]
      /\ change'[k].status = "rejected"
      /\ \A j \in Changes : j # k => change'[j] = change[j]
      /\ \A j \in Changes : change[j].status # "none" =>
           /\ change'[j].status # "none" /\ change'[j].user = change[j].user
           /\ change'[j].site = change[j].site
      /\ \A j \in Changes : change'[j].status # "none" => change[j].status # "none"
  BY <1>0, <1>1, DecidedEffect
<1>5. change[k].user \in Users
  BY <1>0, <1>1 DEF RoleTypeOK, ChangeType
<1>6. contested \subseteq contested' /\ contested' \subseteq Users
  BY <1>0, <1>1, <1>5 DEF RoleTypeOK
<1>7. RoleTypeOK'
  BY <1>0, <1>2, <1>3, <1>4, <1>6, PutEffect DEF RoleTypeOK
<1>8. \A g \in Handlers : TaskRead(task[g])'
  <2>1. TaskRead(t)'
    BY <1>3 DEF TaskRead
  <2> QED BY <1>2, <1>3, <1>4, <1>6, <2>1, TableKept
<1>9. Known'
  <2>1. \A j \in granted : j \in Changes
    BY <1>0 DEF RoleTypeOK
  <2> QED BY <1>2, <1>4, <2>1 DEF RoleInv, Known
<1>10. \A v \in (Users \ contested)' : OneRow(v)' /\ \A p \in Places : InForce(v, p)'
  BY <1>2, <1>6 DEF RoleInv, OneRow, InForce
<1>11. ASSUME NEW j \in Changes, change'[j].status # "none", change'[j].user \notin contested'
       PROVE  Counted(j)'
  <2>1. change[j].status # "none" /\ change[j].user \notin contested'
    BY <1>4, <1>11
  <2>2. Counted(j)
    BY <1>6, <2>1 DEF RoleInv
  <2>3. CASE j # k
    BY <1>2, <1>4, <2>2, <2>3 DEF Counted
  <2>4. CASE j = k
    <3>1. change[k].status = "pending"
      BY <1>1, <2>1, <2>4
    <3> QED BY <1>2, <1>4, <2>2, <2>4, <3>1 DEF Counted
  <2> QED BY <2>3, <2>4
<1> QED BY <1>7, <1>8, <1>9, <1>10, <1>11 DEF RoleInv

\* An approval changes the role of one row of its user, or inserts one, and leaves every
\* other row alone.  When it was not overtaken, its user has exactly that role there.
LEMMA ApprovalRows ==
  ASSUME NEW u \in Users, NEW s \in Places, NEW r \in Roles, NEW f \in Rows \cup {"none"},
         NEW q \in Roles \cup {"none"},
         row \in [Rows -> RowType],
         IF f = "none"
         THEN \E i \in Unused(Rows) : row' = [row EXCEPT ![i] = Assignment(u, s, r)]
         ELSE row' = IF q = r THEN row ELSE [row EXCEPT ![f].role = r],
         f # "none" => f \in Rows /\ row[f].exists /\ row[f].user = u
  PROVE  /\ row' \in [Rows -> RowType]
         /\ \A i \in Rows : row[i].exists => /\ row'[i].exists /\ row'[i].user = row[i].user
                                             /\ row'[i].site = row[i].site
         /\ \A i \in Rows : row'[i] # row[i] => row'[i].user = u
         /\ \A i \in Rows : ~row[i].exists /\ row'[i].exists =>
              /\ f = "none" /\ row'[i].user = u /\ row'[i].site = s
              /\ \A j \in Rows : ~row[j].exists /\ row'[j].exists => i = j
         /\ f = "none" => \E i \in Rows : row'[i] = Assignment(u, s, r)
         /\ f = "none" => \A i \in Rows : row[i].exists => row'[i] = row[i]
         /\ f # "none" => \A i \in Rows : i # f => row'[i] = row[i]
         /\ f # "none" /\ row[f].role = q => row'[f].role = r
<1>1. CASE f = "none"
  <2>1. PICK i \in Rows : ~row[i].exists /\ row' = [row EXCEPT ![i] = Assignment(u, s, r)]
    BY <1>1 DEF Unused
  <2> DEFINE e == Assignment(u, s, r)
  <2>2. e \in RowType /\ e.exists /\ e.user = u /\ e.site = s
    BY DEF Assignment, RowType
  <2> HIDE DEF e
  <2>3. /\ row' = [row EXCEPT ![i] = e] /\ row'[i] = e
        /\ \A j \in Rows : j # i => row'[j] = row[j]
    BY <2>1 DEF e
  <2>4. row' \in [Rows -> RowType]
    BY <2>2, <2>3
  <2>5. /\ \A j \in Rows : row[j].exists => row'[j] = row[j]
        /\ \A j \in Rows : ~row[j].exists /\ row'[j].exists => j = i
    BY <2>1, <2>3
  <2> QED BY <1>1, <2>2, <2>3, <2>4, <2>5 DEF e
<1>2. CASE f # "none" /\ q = r
  BY <1>2
<1>3. CASE f # "none" /\ q # r
  <2> DEFINE e == [row[f] EXCEPT !.role = r]
  <2>1. row[f] \in RowType /\ row[f].exists /\ f \in Rows
    BY <1>3
  <2>2. /\ e \in RowType /\ e.exists /\ e.user = row[f].user /\ e.site = row[f].site
        /\ e.role = r
    BY <2>1 DEF RowType
  <2>3. row' = [row EXCEPT ![f] = e]
    BY <1>3
  <2> HIDE DEF e
  <2>4. row'[f] = e /\ \A j \in Rows : j # f => row'[j] = row[j]
    BY <2>1, <2>3
  <2>5. row' \in [Rows -> RowType]
    BY <2>2, <2>3
  <2>6. \A j \in Rows : ~row[j].exists => row'[j] = row[j]
    BY <2>1, <2>4
  <2> QED BY <1>3, <2>1, <2>2, <2>4, <2>5, <2>6
<1> QED BY <1>1, <1>2, <1>3

\* An approval puts its role in force, and takes no other role out of it, unless it was
\* overtaken.
LEMMA ApprovalStep ==
  ASSUME RoleInv, NEW h \in Handlers, CommitApproval(h)
  PROVE  RoleInv'
<1>0. RoleTypeOK /\ task[h] \in TaskType /\ TaskRead(task[h])
  BY DEF RoleInv, RoleTypeOK
<1>1. Task(h).change \in Changes
  BY <1>0, WorkAsked DEF CommitApproval, Task
<1>2. PICK k \in Changes : k = Task(h).change
  BY <1>1
<1>3. change[k].status # "none" /\ change[k] \in ChangeType
  BY <1>0, <1>2 DEF CommitApproval, Doing, TaskRead, Task, RoleTypeOK
<1>4. PICK u \in Users, s \in Places, r \in Roles :
        u = change[k].user /\ s = change[k].site /\ r = change[k].role
  BY <1>3 DEF ChangeType
<1>5. PICK f \in Rows \cup {"none"}, q \in Roles \cup {"none"}, l \in Roles \cup {"none"} :
        f = task[h].found /\ q = task[h].role /\ l = task[h].legacy
  BY <1>0 DEF TaskType
<1>6. /\ IF f = "none"
         THEN \E i \in Unused(Rows) : row' = [row EXCEPT ![i] = Assignment(u, s, r)]
         ELSE row' = IF q = r THEN row ELSE [row EXCEPT ![f].role = r]
      /\ user' = IF s = Anywhere /\ l # r THEN [user EXCEPT ![u].role = r] ELSE user
      /\ change' = [change EXCEPT ![k].status = "approved"]
      /\ last' = [last EXCEPT ![u][s] = r]
      /\ granted' = granted \cup {k}
      /\ contested' = IF Overtaken(h, k) THEN contested \cup {u} ELSE contested
      /\ Done(h)
      /\ UNCHANGED <<licence, overrun>>
  BY <1>2, <1>4, <1>5 DEF CommitApproval
<1>7. /\ f # "none" => f \in Rows /\ row[f].exists /\ row[f].user = u
      /\ f # "none" /\ u \notin contested => row[f].site = s
  BY <1>0, <1>2, <1>4, <1>5 DEF CommitApproval, Doing, TaskRead, Task
<1>8. user[u].exists
  BY <1>3, <1>4 DEF RoleInv, Known
<1>9. /\ row' \in [Rows -> RowType]
      /\ \A i \in Rows : row[i].exists => /\ row'[i].exists /\ row'[i].user = row[i].user
                                          /\ row'[i].site = row[i].site
      /\ \A i \in Rows : row'[i] # row[i] => row'[i].user = u
      /\ \A i \in Rows : ~row[i].exists /\ row'[i].exists =>
           /\ f = "none" /\ row'[i].user = u /\ row'[i].site = s
           /\ \A j \in Rows : ~row[j].exists /\ row'[j].exists => i = j
      /\ f = "none" => \E i \in Rows : row'[i] = Assignment(u, s, r)
      /\ f = "none" => \A i \in Rows : row[i].exists => row'[i] = row[i]
      /\ f # "none" => \A i \in Rows : i # f => row'[i] = row[i]
      /\ f # "none" /\ row[f].role = q => row'[f].role = r
  <2>1. row \in [Rows -> RowType]
    BY <1>0 DEF RoleTypeOK
  <2>2. IF f = "none"
        THEN \E i \in Unused(Rows) : row' = [row EXCEPT ![i] = Assignment(u, s, r)]
        ELSE row' = IF q = r THEN row ELSE [row EXCEPT ![f].role = r]
    BY <1>6
  <2>3. f # "none" => f \in Rows /\ row[f].exists /\ row[f].user = u
    BY <1>7
  <2> QED BY <2>1, <2>2, <2>3, ApprovalRows
<1>10. /\ user' \in [Users -> UserType]
       /\ \A v \in Users : user'[v].exists <=> user[v].exists
       /\ \A v \in Users : v # u => user'[v] = user[v]
       /\ s # Anywhere => user' = user
       /\ s = Anywhere /\ user[u].role = l => user'[u].role = r
  <2>1. user \in [Users -> UserType]
    BY <1>0 DEF RoleTypeOK
  <2>2. user' = IF s = Anywhere /\ l # r THEN [user EXCEPT ![u].role = r] ELSE user
    BY <1>6
  <2>3. CASE s = Anywhere /\ l # r
    <3> DEFINE e == [user[u] EXCEPT !.role = r]
    <3>1. e \in UserType /\ (e.exists <=> user[u].exists) /\ e.role = r
      BY <1>8, <2>1 DEF UserType
    <3>2. user' = [user EXCEPT ![u] = e]
      BY <2>2, <2>3
    <3> HIDE DEF e
    <3> QED BY <2>1, <2>3, <3>1, <3>2
  <2>4. CASE ~(s = Anywhere /\ l # r)
    BY <2>1, <2>2, <2>4
  <2> QED BY <2>3, <2>4
<1>11. /\ change' \in [Changes -> ChangeType]
       /\ change'[k].status = "approved"
       /\ \A j \in Changes : j # k => change'[j] = change[j]
       /\ \A j \in Changes : change[j].status # "none" =>
            /\ change'[j].status # "none" /\ change'[j].user = change[j].user
            /\ change'[j].site = change[j].site
       /\ \A j \in Changes : change'[j].status # "none" => change[j].status # "none"
  BY <1>0, <1>3, <1>6, DecidedEffect
<1>12. /\ last' \in [Users -> [Places -> Roles \cup {"none"}]]
       /\ last'[u][s] = r
       /\ \A v \in Users, p \in Places : v # u \/ p # s => last'[v][p] = last[v][p]
  <2>1. last \in [Users -> [Places -> Roles \cup {"none"}]]
    BY <1>0 DEF RoleTypeOK
  <2> DEFINE e == [last[u] EXCEPT ![s] = r]
  <2>2. /\ e \in [Places -> Roles \cup {"none"}] /\ e[s] = r
        /\ \A p \in Places : p # s => e[p] = last[u][p]
    BY <2>1
  <2>3. last' = [last EXCEPT ![u] = e]
    BY <1>6
  <2> HIDE DEF e
  <2> QED BY <2>1, <2>2, <2>3
<1>13. contested \subseteq contested' /\ contested' \subseteq Users
  BY <1>0, <1>6 DEF RoleTypeOK
<1>14. u \notin contested' =>
         /\ u \notin contested
         /\ user[u].role = l
         /\ f = "none" => \A i \in Rows : row[i].exists /\ row[i].user = u => row[i].site # s
         /\ f # "none" => row[f].role = q
  BY <1>4, <1>5, <1>6 DEF Overtaken, RowsAt
<1>15. PICK t \in TaskType : t.step = "start" /\ t.found = "none" /\ task' = [task EXCEPT ![h] = t]
  BY <1>0, <1>6, DoneEffect
<1>16. RoleTypeOK'
  BY <1>0, <1>6, <1>9, <1>10, <1>11, <1>12, <1>13, <1>15, PutEffect DEF RoleTypeOK
<1>17. \A g \in Handlers : TaskRead(task[g])'
  <2>1. TaskRead(t)'
    BY <1>15 DEF TaskRead
  <2> QED BY <1>9, <1>11, <1>13, <1>15, <2>1, TableKept
<1>18. Known'
  <2>1. \A i \in Rows : row'[i].exists => user'[row'[i].user].exists
    <3> SUFFICES ASSUME NEW i \in Rows, row'[i].exists PROVE user'[row'[i].user].exists
      OBVIOUS
    <3>1. CASE row[i].exists
      <4>1. row[i].user \in Users /\ user[row[i].user].exists
        BY <1>0, <3>1 DEF RoleInv, Known, RoleTypeOK, RowType
      <4> QED BY <1>9, <1>10, <3>1, <4>1
    <3>2. CASE ~row[i].exists
      BY <1>8, <1>9, <1>10, <3>2
    <3> QED BY <3>1, <3>2
  <2>2. \A j \in Changes : change'[j].status # "none" => user'[change'[j].user].exists
    <3>1. \A j \in Changes : change[j].status # "none" =>
            change[j].user \in Users /\ user[change[j].user].exists
      BY <1>0 DEF RoleInv, Known, RoleTypeOK, ChangeType
    <3> QED BY <1>10, <1>11, <3>1
  <2>3. \A v \in Users : \A p \in Places : last'[v][p] # "none" => user'[v].exists
    BY <1>8, <1>10, <1>12 DEF RoleInv, Known
  <2>4. \A j \in granted' : change'[j].status # "none"
    <3>1. granted \subseteq Changes
      BY <1>0 DEF RoleTypeOK
    <3> QED BY <1>6, <1>11, <3>1 DEF RoleInv, Known
  <2> QED BY <2>1, <2>2, <2>3, <2>4 DEF Known
<1>19. ASSUME NEW v \in Users, v \notin contested' PROVE OneRow(v)'
  <2>1. OneRow(v)
    BY <1>13, <1>19 DEF RoleInv
  <2> SUFFICES ASSUME NEW i \in Rows, NEW j \in Rows,
                      row'[i].exists, row'[i].user = v, row'[j].exists, row'[j].user = v,
                      row'[i].site = row'[j].site
               PROVE  i = j
    BY DEF OneRow
  <2>2. CASE row[i].exists /\ row[j].exists
    BY <1>9, <2>1, <2>2 DEF OneRow
  <2>3. CASE ~row[i].exists /\ ~row[j].exists
    BY <1>9, <2>3
  <2>4. CASE row[i].exists /\ ~row[j].exists
    BY <1>9, <1>14, <1>19, <2>4
  <2>5. CASE ~row[i].exists /\ row[j].exists
    BY <1>9, <1>14, <1>19, <2>5
  <2> QED BY <2>2, <2>3, <2>4, <2>5
<1>20. ASSUME NEW v \in Users, v \notin contested', NEW p \in Places PROVE InForce(v, p)'
  <2>1. InForce(v, p)
    BY <1>13, <1>20 DEF RoleInv
  <2>2. CASE v # u
    <3>1. \A i \in Rows : row[i].exists /\ row[i].user = v => row'[i] = row[i]
      BY <1>9, <2>2
    <3> QED BY <1>10, <1>12, <2>1, <2>2, <3>1 DEF InForce
  <2>3. CASE v = u /\ p # s
    <3>1. \A i \in Rows : row[i].exists /\ row[i].user = u /\ row[i].site = p => row'[i] = row[i]
      BY <1>7, <1>9, <1>14, <1>20, <2>3
    <3>2. last'[v][p] = last[v][p]
      BY <1>12, <2>3
    <3>3. p = Anywhere => user'[v] = user[v]
      BY <1>10, <2>3
    <3> QED BY <2>1, <2>3, <3>1, <3>2, <3>3 DEF InForce
  <2>4. CASE v = u /\ p = s
    <3>1. \E i \in Rows : /\ row'[i].exists /\ row'[i].user = u /\ row'[i].site = s
                          /\ row'[i].role = r
      <4>1. CASE f = "none"
        BY <1>9, <4>1 DEF Assignment
      <4>2. CASE f # "none"
        BY <1>7, <1>9, <1>14, <1>20, <2>4, <4>2
      <4> QED BY <4>1, <4>2
    <3>2. s = Anywhere => user'[u].role = r
      BY <1>10, <1>14, <1>20, <2>4
    <3> QED BY <1>12, <2>4, <3>1, <3>2 DEF InForce
  <2> QED BY <2>2, <2>3, <2>4
<1>21. ASSUME NEW j \in Changes, change'[j].status # "none", change'[j].user \notin contested'
       PROVE  Counted(j)'
  <2>1. CASE j = k
    BY <1>6, <1>11, <2>1 DEF Counted
  <2>2. CASE j # k
    <3>1. Counted(j)
      BY <1>11, <1>13, <1>21, <2>2 DEF RoleInv
    <3> QED BY <1>6, <1>11, <2>2, <3>1 DEF Counted
  <2> QED BY <2>1, <2>2
<1> QED BY <1>16, <1>17, <1>18, <1>19, <1>20, <1>21 DEF RoleInv

\* Temporary permissions leave users, rows and decisions alone.
LEMMA TemporaryStep ==
  ASSUME RoleInv, NEW h \in Handlers, GrantTemporary(h) \/ RevokeTemporary(h)
  PROVE  RoleInv'
<1>1. Done(h) /\ UNCHANGED <<licence, user, row, change, history>>
  BY DEF GrantTemporary, RevokeTemporary
<1>2. RoleTypeOK
  BY DEF RoleInv
<1> QED BY <1>1, <1>2, DoneEffect, QuietStep DEF TaskRead

\* A step of the calendar or of the licence does too.
LEMMA CalendarStep ==
  ASSUME RoleInv, licence' \in Licences, overrun' \in BOOLEAN,
         UNCHANGED <<user, row, change, task, last, granted, contested>>
  PROVE  RoleInv'
<1>1. RoleTypeOK'
  BY DEF RoleInv, RoleTypeOK
<1>2. ASSUME NEW g \in Handlers PROVE TaskRead(task[g])'
  BY DEF RoleInv, TaskRead, HasRoom
<1>3. Known'
  BY DEF RoleInv, Known
<1>4. \A v \in (Users \ contested)' : OneRow(v)' /\ \A p \in Places : InForce(v, p)'
  BY DEF RoleInv, OneRow, InForce
<1>5. \A k \in Changes : change'[k].status # "none" /\ change'[k].user \notin contested'
        => Counted(k)'
  BY DEF RoleInv, Counted
<1> QED BY <1>1, <1>2, <1>3, <1>4, <1>5 DEF RoleInv

\* A desktop that gives a user another role, another site or another row makes it contested;
\* a row never changes hands.
LEMMA PushStep ==
  ASSUME RoleInv, NEW i \in Rows, NEW new \in RolePushes, PushRole(i, new)
  PROVE  RoleInv'
<1>0. RoleTypeOK
  BY DEF RoleInv
<1>1. /\ new \in RowType /\ new.exists /\ new.user \in Users
  BY RolePushesAssumption DEF RowType, Places
<1>2. /\ row[i].exists => row[i].user = new.user
      /\ user[new.user].exists
      /\ row' = [row EXCEPT ![i] = new]
      /\ contested' = IF row[i].exists /\ row[i].role = new.role /\ row[i].site = new.site
                      THEN contested ELSE contested \cup {new.user}
      /\ UNCHANGED <<licence, user, change, task, last, granted, overrun>>
  BY DEF PushRole
<1>3. /\ row' \in [Rows -> RowType] /\ row'[i] = new
      /\ \A j \in Rows : j # i => row'[j] = row[j]
  BY <1>0, <1>1, <1>2 DEF RoleTypeOK
<1>4. contested \subseteq contested' /\ contested' \subseteq Users
  BY <1>0, <1>1, <1>2 DEF RoleTypeOK
<1>5. new.user \notin contested' =>
        row[i].exists /\ row[i].role = new.role /\ row[i].site = new.site
  BY <1>2
<1>6. RoleTypeOK'
  BY <1>0, <1>2, <1>3, <1>4 DEF RoleTypeOK
<1>7. ASSUME NEW g \in Handlers PROVE TaskRead(task[g])'
  <2>1. PICK t \in TaskType : t = task[g] /\ TaskRead(t) /\ task'[g] = t
    BY <1>0, <1>2 DEF RoleInv, RoleTypeOK
  <2>2. \A j \in Rows : row[j].exists =>
          /\ row'[j].exists /\ row'[j].user = row[j].user
          /\ row[j].user \notin contested' => row'[j].site = row[j].site
    BY <1>1, <1>2, <1>3, <1>5
  <2>3. TaskRead(t)'
    BY <1>0, <1>2, <1>4, <2>1, <2>2, ReadKept
  <2> QED BY <2>1, <2>3 DEF TaskRead
<1>8. Known'
  BY <1>1, <1>2, <1>3 DEF RoleInv, Known
<1>9. ASSUME NEW v \in Users, v \notin contested'
      PROVE  OneRow(v)' /\ \A p \in Places : InForce(v, p)'
  <2>1. OneRow(v) /\ \A p \in Places : InForce(v, p)
    BY <1>4, <1>9 DEF RoleInv
  <2>2. \A j \in Rows : row[j].exists /\ row[j].user = v =>
          /\ row'[j].exists /\ row'[j].user = v
          /\ row'[j].site = row[j].site /\ row'[j].role = row[j].role
    BY <1>1, <1>2, <1>3, <1>5, <1>9
  <2>3. \A j \in Rows : row'[j].exists /\ row'[j].user = v => row[j].exists /\ row[j].user = v
    BY <1>2, <1>3, <1>5, <1>9
  <2>4. OneRow(v)'
    BY <2>1, <2>2, <2>3 DEF OneRow
  <2>5. ASSUME NEW p \in Places PROVE InForce(v, p)'
    BY <1>2, <2>1, <2>2 DEF InForce
  <2> QED BY <2>4, <2>5
<1>10. \A k \in Changes : change'[k].status # "none" /\ change'[k].user \notin contested'
         => Counted(k)'
  BY <1>2, <1>4 DEF RoleInv, Counted
<1> QED BY <1>6, <1>7, <1>8, <1>9, <1>10 DEF RoleInv

----------------------------------------------------------------------------
(* The invariant *)

\* At first nobody has a row, nothing was decided, and every handler is to be admitted.
LEMMA RoleStart == RoleInit => RoleInv
<1> SUFFICES ASSUME RoleInit PROVE RoleInv
  OBVIOUS
<1>1. PICK work \in RoleWork : task = [h \in Handlers |-> Waiting(work[h])]
  BY DEF RoleInit
<1>2. ASSUME NEW h \in Handlers PROVE task[h] \in TaskType /\ TaskRead(task[h])
  <2> DEFINE w == work[h]
  <2>1. w \in UNION {{f[g] : g \in Handlers} : f \in RoleWork}
    OBVIOUS
  <2> HIDE DEF w
  <2>2. Waiting(w) \in TaskType
    BY <2>1 DEF Waiting, TaskType, None
  <2>3. Waiting(w).step = "start" /\ Waiting(w).found = "none"
    BY DEF Waiting
  <2>4. task[h] = Waiting(w)
    BY <1>1 DEF w
  <2> QED BY <2>2, <2>3, <2>4 DEF TaskRead
<1>3. user \in [Users -> UserType]
  <2>1. \A u \in DOMAIN Staff : User(TRUE, Staff[u]) \in UserType
    BY DEF User, UserType
  <2>2. NoUser \in UserType
    BY DEF NoUser, UserType
  <2> QED BY <2>1, <2>2 DEF RoleInit
<1>4. NoAssignment \in RowType /\ ~NoAssignment.exists
  BY DEF NoAssignment, RowType
<1>5. NoChange \in ChangeType /\ NoChange.status = "none"
  BY DEF NoChange, ChangeType
<1>6. RoleTypeOK
  <2>1. task \in [Handlers -> TaskType]
    BY <1>1, <1>2
  <2> QED BY <1>3, <1>4, <1>5, <2>1 DEF RoleInit, RoleTypeOK, Places
<1>7. Known
  BY <1>4, <1>5 DEF RoleInit, Known, Places
<1>8. \A u \in Users \ contested : OneRow(u) /\ \A s \in Places : InForce(u, s)
  BY <1>4 DEF RoleInit, OneRow, InForce, Places
<1>9. \A k \in Changes : change[k].status = "none"
  BY <1>5 DEF RoleInit
<1> QED BY <1>2, <1>6, <1>7, <1>8, <1>9 DEF RoleInv

\* Every step keeps the invariant.
LEMMA RoleKept == RoleInv /\ [RoleNext]_roleVars => RoleInv'
<1> SUFFICES ASSUME RoleInv, [RoleNext]_roleVars PROVE RoleInv'
  OBVIOUS
<1>0. licence \in Licences /\ overrun \in BOOLEAN
  BY DEF RoleInv, RoleTypeOK
<1>1. ASSUME NEW h \in Handlers, HandlerStep(h) PROVE RoleInv'
  BY <1>1, AdmissionStep, CountStep, CreateStep, PushedStep, SwitchStep, AskStep, ReadStep,
     ApprovalStep, RejectionStep, TemporaryStep DEF HandlerStep
<1>2. ASSUME NEW i \in Rows, NEW new \in RolePushes, PushRole(i, new) PROVE RoleInv'
  BY <1>2, PushStep
<1>3. ASSUME NEW l \in Licences, ChangeLicence(l) PROVE RoleInv'
  BY <1>3, ExplainType, CalendarStep DEF ChangeLicence, people
<1>4. CASE NextDay
  BY <1>0, <1>4, CalendarStep DEF NextDay, people, history
<1>5. CASE UNCHANGED roleVars
  BY <1>0, <1>5, CalendarStep DEF roleVars
<1> QED BY <1>1, <1>2, <1>3, <1>4, <1>5 DEF RoleNext

\* Whatever handlers and desktops do, the invariant holds.
THEOREM RolesKept == RoleSpec => []RoleInv
BY RoleStart, RoleKept, PTL DEF RoleSpec

\* A permission in force belongs to the plan and comes from a row, a temporary permission or
\* users.role, for that site or for the whole company (permission_service.py:98-178).
THEOREM PermissionsHaveBacking == RoleSpec => []PermissionsBacked
<1>1. RoleInv => PermissionsBacked
  <2> SUFFICES ASSUME RoleInv, NEW u \in Users, NEW s \in Sites \cup {Anywhere}, NEW p \in Asked,
                      MayAct(u, s, p)
               PROVE  LET mine == {i \in Rows : row[i].exists /\ row[i].active /\ row[i].user = u}
                      IN /\ is_company_subscription_usable /\ InPlan(p) /\ user[u].active
                         /\ \/ \E i \in mine : /\ row[i].site \in {s, Anywhere}
                                              /\ p \in TENANT_ROLE_PERMISSIONS[row[i].role]
                            \/ \E g \in Grants : /\ grant[g].exists /\ grant[g].user = u
                                                 /\ grant[g].until > day
                                                 /\ grant[g].site \in {s, Anywhere}
                                                 /\ grant[g].perm = p
                            \/ mine = {} /\ s = Anywhere
                                 /\ p \in TENANT_ROLE_PERMISSIONS[user[u].role]
    BY DEF PermissionsBacked
  <2> DEFINE mine == {i \in Rows : row[i].exists /\ row[i].active /\ row[i].user = u}
  <2>1. PICK role \in resolve_role_for_site(u, s) : p \in get_user_permissions(u, s, role)
    BY DEF MayAct, get_permission_context
  <2>2. user[u].active
    BY DEF MayAct, get_permission_context
  <2>3. is_company_subscription_usable /\ InPlan(p)
        /\ (p \in TENANT_ROLE_PERMISSIONS[role] \/ p \in _active_temporary_permissions(u, s))
    BY <2>1 DEF get_user_permissions
  <2>4. CASE p \in _active_temporary_permissions(u, s)
    BY <2>2, <2>3, <2>4 DEF _active_temporary_permissions
  <2>5. CASE p \in TENANT_ROLE_PERMISSIONS[role]
    <3>1. \A q \in Sites \cup {Anywhere} : \A i \in ActiveAt(u, q) : i \in mine /\ row[i].site = q
      BY DEF ActiveAt, RowsAt
    <3>2. CASE \E i \in mine : row[i].site \in {s, Anywhere} /\ role = row[i].role
      BY <2>2, <2>3, <2>5, <3>2
    <3>3. CASE /\ ~ \E i \in mine : row[i].site \in {s, Anywhere} /\ role = row[i].role
      <4>1. /\ ActiveAt(u, s) = {} /\ ~has_company_wide_role(u)
            /\ s = Anywhere /\ ~has_any_site_role(u) /\ role = user[u].role
        BY <2>1, <3>1, <3>3 DEF resolve_role_for_site, RolesOf, has_company_wide_role
      <4>2. mine = {}
        <5> SUFFICES ASSUME NEW i \in mine PROVE FALSE
          OBVIOUS
        <5>1. row[i].site \in Sites \cup {Anywhere}
          BY DEF RoleInv, RoleTypeOK, RowType, Places
        <5>2. i \in ActiveAt(u, row[i].site)
          BY DEF ActiveAt, RowsAt
        <5> QED BY <4>1, <5>1, <5>2 DEF has_company_wide_role, has_any_site_role
      <4> QED BY <2>2, <2>3, <2>5, <4>1, <4>2
    <3> QED BY <3>2, <3>3
  <2> QED BY <2>3, <2>4, <2>5
<1> QED BY <1>1, RolesKept, PTL

\* A decision stands, unless decisions overlapped, a desktop pushed a row of that user, or
\* the user was created with a site listed twice (admin_rbac.py:209-283).
THEOREM DecisionsAreKept == RoleSpec => []DecisionsStand
<1>1. RoleInv => DecisionsStand
  <2> SUFFICES ASSUME RoleInv, NEW u \in Users \ contested
               PROVE  /\ \A s \in Sites \cup {Anywhere} : last[u][s] # "none" =>
                           /\ RolesOf(RowsAt(u, s)) = {last[u][s]}
                           /\ Cardinality(RowsAt(u, s)) = 1
                           /\ s = Anywhere => user[u].role = last[u][s]
                      /\ \A k \in Changes : change[k].status # "none" /\ change[k].user = u =>
                           (k \in granted <=> change[k].status = "approved")
    BY DEF DecisionsStand
  <2>1. ASSUME NEW s \in Sites \cup {Anywhere}, last[u][s] # "none"
        PROVE  /\ RolesOf(RowsAt(u, s)) = {last[u][s]}
               /\ Cardinality(RowsAt(u, s)) = 1
               /\ s = Anywhere => user[u].role = last[u][s]
    <3>1. OneRow(u) /\ InForce(u, s)
      BY DEF RoleInv, Places
    <3>2. PICK i \in Rows : /\ row[i].exists /\ row[i].user = u /\ row[i].site = s
                            /\ row[i].role = last[u][s]
      BY <2>1, <3>1 DEF InForce
    <3>3. RowsAt(u, s) = {i}
      BY <3>1, <3>2 DEF OneRow, RowsAt
    <3>4. Cardinality({i}) = 1
      BY FS_Singleton
    <3>5. RolesOf({i}) = {last[u][s]}
      BY <3>2 DEF RolesOf
    <3> QED BY <2>1, <3>1, <3>3, <3>4, <3>5 DEF InForce
  <2>2. ASSUME NEW k \in Changes, change[k].status # "none", change[k].user = u
        PROVE  k \in granted <=> change[k].status = "approved"
    BY <2>2 DEF RoleInv, Counted
  <2> QED BY <2>1, <2>2
<1> QED BY <1>1, RolesKept, PTL

----------------------------------------------------------------------------
(* The limit of users *)

Excess == licence.users # None /\ Cardinality(ActiveUsers) > licence.users

\* What is explained stays explained: an excess comes with a cause, or was there before.
LEMMA ExplainStep ==
  ASSUME NEW cause, Explain(cause), LimitExplained, cause \/ (Excess' => Excess)
  PROVE  LimitExplained'
<1> SUFFICES ASSUME Excess' PROVE overrun'
  BY DEF LimitExplained, Excess
<1>1. overrun' = (Excess' /\ (overrun \/ cause))
  BY DEF Explain, Excess, ActiveUsers
<1>2. overrun \/ cause
  BY DEF LimitExplained, Excess
<1> QED BY <1>1, <1>2

\* A count that is still the one that found room leaves room for one more.
LEMMA RoomForOne ==
  ASSUME RoleInv, NEW h \in Handlers, Doing(h, "counted") \/ Doing(h, "pushed"),
         task[h].count = Cardinality(ActiveUsers), task[h].limit = licence.users,
         UNCHANGED licence, NEW n \in Nat, n <= Cardinality(ActiveUsers) + 1,
         Cardinality(ActiveUsers)' = n
  PROVE  ~Excess'
<1>1. HasRoom(licence.users, Cardinality(ActiveUsers))
  BY DEF RoleInv, TaskRead, Doing
<1>2. licence.users \in Nat \cup {None}
  BY DEF RoleInv, RoleTypeOK
<1> QED BY <1>1, <1>2, ActiveFinite DEF HasRoom, Excess, None

\* One user more, and no other, is one more at most.
LEMMA OneMore ==
  ASSUME NEW u \in Users, \A v \in Users : v # u => user'[v] = user[v]
  PROVE  Cardinality(ActiveUsers)' \in Nat
         /\ Cardinality(ActiveUsers)' <= Cardinality(ActiveUsers) + 1
<1> DEFINE A == ActiveUsers
           B == {v \in Users : user'[v].exists /\ user'[v].active}
<1>1. B = ActiveUsers'
  BY DEF ActiveUsers
<1>2. IsFiniteSet(A) /\ IsFiniteSet(B) /\ IsFiniteSet(A \cup {u})
  BY FS_Subset, FS_AddElement, ActiveFinite
<1>3. B \subseteq A \cup {u}
  BY DEF ActiveUsers
<1>4. Cardinality(B) <= Cardinality(A \cup {u}) /\ Cardinality(B) \in Nat
  BY <1>2, <1>3, FS_Subset, FS_CardinalityType
<1>5. Cardinality(A \cup {u}) <= Cardinality(A) + 1
  BY <1>2, FS_AddElement, FS_CardinalityType
<1>6. Cardinality(A) \in Nat /\ Cardinality(A \cup {u}) \in Nat
  BY <1>2, FS_CardinalityType
<1> HIDE DEF A, B
<1>7. Cardinality(B) <= Cardinality(A) + 1
  BY <1>4, <1>5, <1>6
<1> QED BY <1>1, <1>4, <1>7 DEF A

\* A step that leaves users, licence and history alone leaves the limit alone.
LEMMA LimitSame ==
  ASSUME LimitExplained, UNCHANGED <<licence, user, overrun>>
  PROVE  LimitExplained'
BY DEF LimitExplained, ActiveUsers

\* A creation that finds the count it was admitted with stays within the limit.
LEMMA LimitCreate ==
  ASSUME RoleInv, LimitExplained, NEW h \in Handlers, CommitUser(h)
  PROVE  LimitExplained'
<1>0. RoleTypeOK /\ task[h] \in TaskType /\ TaskRead(task[h])
  BY DEF RoleInv, RoleTypeOK
<1> DEFINE u == Task(h).user
           cause == task[h].count # Cardinality(ActiveUsers) \/ task[h].limit # licence.users
<1>1. CASE user[u].exists
  BY <1>1, LimitSame DEF CommitUser
<1>2. CASE ~user[u].exists
  <2>1. /\ user' = [user EXCEPT ![u] = User(TRUE, Task(h).role)]
        /\ Explain(cause) /\ UNCHANGED licence /\ Doing(h, "counted")
    BY <1>2 DEF CommitUser
  <2>2. u \in Users
    <3>1. Task(h).kind = "create"
      BY <1>0, <2>1 DEF Doing, TaskRead, Task
    <3> QED BY <1>0, <3>1, WorkAsked DEF Task
  <2>3. \A v \in Users : v # u => user'[v] = user[v]
    BY <1>0, <2>1 DEF RoleTypeOK
  <2>4. PICK n \in Nat : n = Cardinality(ActiveUsers)' /\ n <= Cardinality(ActiveUsers) + 1
    BY <2>2, <2>3, OneMore
  <2>5. ~cause => ~Excess'
    BY <2>1, <2>4, RoomForOne
  <2> QED BY <2>1, <2>5, ExplainStep
<1> QED BY <1>1, <1>2

\* So does a push of at most one user that finds the count it was admitted with.
LEMMA LimitPush ==
  ASSUME RoleInv, LimitExplained, NEW h \in Handlers, CommitPushed(h)
  PROVE  LimitExplained'
<1>0. RoleTypeOK /\ task[h] \in TaskType /\ TaskRead(task[h])
  BY DEF RoleInv, RoleTypeOK
<1> DEFINE us == Task(h).users
           cause == \/ Cardinality(us) > 1
                    \/ task[h].count # Cardinality(ActiveUsers) \/ task[h].limit # licence.users
<1>1. CASE \E u \in us : user[u].exists
  BY <1>1, LimitSame DEF CommitPushed
<1>2. CASE ~ \E u \in us : user[u].exists
  <2>1. /\ user' = [u \in Users |-> IF u \in us THEN User(TRUE, Task(h).role) ELSE user[u]]
        /\ Explain(cause) /\ UNCHANGED licence /\ Doing(h, "pushed")
    BY <1>2 DEF CommitPushed
  <2>2. us \subseteq Users
    <3>1. Task(h).kind = "push"
      BY <1>0, <2>1 DEF Doing, TaskRead, Task
    <3> QED BY <1>0, <3>1, WorkAsked DEF Task
  <2>3. \A v \in Users \ us : user'[v] = user[v]
    BY <2>1
  <2>4. ASSUME ~cause PROVE ~Excess'
    <3>1. IsFiniteSet(us) /\ Cardinality(us) \in Nat
      BY <2>2, FS_Subset, FS_CardinalityType
    <3>2. Cardinality(us) = 0 \/ Cardinality(us) = 1
      BY <2>4, <3>1
    <3>3. PICK n \in Nat : n = Cardinality(ActiveUsers)' /\ n <= Cardinality(ActiveUsers) + 1
      <4>1. CASE Cardinality(us) = 0
        <5>1. us = {}
          BY <3>1, <4>1, FS_EmptySet
        <5>2. ActiveUsers' = ActiveUsers
          BY <2>3, <5>1 DEF ActiveUsers
        <5> QED BY <5>2, ActiveFinite
      <4>2. CASE Cardinality(us) = 1
        <5>1. PICK u : us = {u}
          BY <3>1, <4>2, FS_Singleton
        <5> QED BY <2>2, <2>3, <5>1, OneMore
      <4> QED BY <3>2, <4>1, <4>2
    <3> QED BY <2>1, <2>4, <3>3, RoomForOne
  <2> QED BY <2>1, <2>4, ExplainStep
<1> QED BY <1>1, <1>2

\* Switching a user off frees a place; switching one on is a cause.
LEMMA LimitSwitch ==
  ASSUME RoleInv, LimitExplained, NEW h \in Handlers, SetUserActive(h)
  PROVE  LimitExplained'
<1>0. RoleTypeOK /\ task[h] \in TaskType
  BY DEF RoleInv, RoleTypeOK
<1> DEFINE u == Task(h).user
<1>1. /\ user' = [user EXCEPT ![u].active = Task(h).active]
      /\ Explain(Task(h).active) /\ UNCHANGED licence
  BY DEF SetUserActive
<1>2. u \in Users /\ Task(h).active \in BOOLEAN /\ user[u].exists
  BY <1>0, WorkAsked DEF SetUserActive, Ready, Task
<1>3. ASSUME ~Task(h).active, Excess' PROVE Excess
  <2>1. user[u] \in UserType
    BY <1>0, <1>2 DEF RoleTypeOK
  <2>2. ~user'[u].active /\ \A v \in Users : v # u => user'[v] = user[v]
    BY <1>0, <1>1, <1>2, <1>3, <2>1 DEF RoleTypeOK, UserType
  <2> DEFINE B == {v \in Users : user'[v].exists /\ user'[v].active}
  <2>3. B \subseteq ActiveUsers /\ B = ActiveUsers'
    BY <1>2, <2>2 DEF ActiveUsers
  <2>4. Cardinality(B) <= Cardinality(ActiveUsers) /\ Cardinality(B) \in Nat
    BY <2>3, ActiveFinite, FS_Subset, FS_CardinalityType
  <2>5. licence.users \in Nat \cup {None}
    BY <1>0 DEF RoleTypeOK
  <2> HIDE DEF B
  <2>6. licence.users # None /\ Cardinality(B) > licence.users
    BY <1>1, <1>3, <2>3 DEF Excess
  <2>7. licence.users \in Nat
    BY <2>5, <2>6
  <2>8. Cardinality(ActiveUsers) > licence.users
    BY <2>4, <2>6, <2>7, ActiveFinite
  <2> QED BY <2>6, <2>8 DEF Excess
<1> QED BY <1>1, <1>2, <1>3, ExplainStep

\* Every step leaves an excess explained.
LEMMA LimitKept == RoleInv /\ LimitExplained /\ [RoleNext]_roleVars => LimitExplained'
<1> SUFFICES ASSUME RoleInv, LimitExplained, [RoleNext]_roleVars PROVE LimitExplained'
  OBVIOUS
<1>1. ASSUME NEW h \in Handlers, HandlerStep(h) PROVE LimitExplained'
  <2>1. CASE CommitUser(h)
    BY <2>1, LimitCreate
  <2>2. CASE CommitPushed(h)
    BY <2>2, LimitPush
  <2>3. CASE SetUserActive(h)
    BY <2>3, LimitSwitch
  <2>4. CASE CommitApproval(h)
    <3>1. ActiveUsers' = ActiveUsers /\ UNCHANGED <<licence, overrun>>
      <4>1. PICK v \in Users, r \in Roles : user' = user \/ user' = [user EXCEPT ![v].role = r]
        <5>1. /\ task[h] \in TaskType /\ TaskRead(task[h]) /\ RoleTypeOK
              /\ Task(h).kind \in {"approve", "reject"} /\ Doing(h, "read")
          BY <2>4 DEF RoleInv, RoleTypeOK, CommitApproval
        <5>2. Task(h).change \in Changes /\ change[Task(h).change].status # "none"
          BY <5>1, WorkAsked DEF Task, Doing, TaskRead
        <5>3. change[Task(h).change].user \in Users /\ change[Task(h).change].role \in Roles
          BY <5>1, <5>2 DEF RoleTypeOK, ChangeType
        <5> QED BY <2>4, <5>3 DEF CommitApproval
      <4>2. \A w \in Users : (user'[w].exists <=> user[w].exists) /\
              (user[w].exists => (user'[w].active <=> user[w].active))
        <5>1. user \in [Users -> UserType]
          BY DEF RoleInv, RoleTypeOK
        <5>2. CASE user' = [user EXCEPT ![v].role = r]
          <6> DEFINE e == [user[v] EXCEPT !.role = r]
          <6>1. user[v] \in UserType
            BY <5>1
          <6>2. (e.exists <=> user[v].exists) /\ (user[v].exists => (e.active <=> user[v].active))
            BY <6>1 DEF UserType
          <6>3. user' = [user EXCEPT ![v] = e]
            BY <5>2
          <6> HIDE DEF e
          <6> QED BY <5>1, <6>2, <6>3
        <5> QED BY <4>1, <5>2
      <4> QED BY <2>4, <4>2 DEF ActiveUsers, CommitApproval
    <3> QED BY <3>1 DEF LimitExplained
  <2>5. CASE Authorise(h) \/ CountUsers(h) \/ CountPushed(h) \/ AskForRole(h) \/ ReadChange(h)
    BY <2>5, LimitSame DEF Authorise, CountUsers, CountPushed, AskForRole, ReadChange, people,
       history
  <2>6. CASE CommitRejection(h) \/ GrantTemporary(h) \/ RevokeTemporary(h) \/ GiveUp(h)
    BY <2>6, LimitSame DEF CommitRejection, GrantTemporary, RevokeTemporary, GiveUp, people,
       history
  <2> QED BY <1>1, <2>1, <2>2, <2>3, <2>4, <2>5, <2>6 DEF HandlerStep
<1>2. ASSUME NEW i \in Rows, NEW new \in RolePushes, PushRole(i, new) PROVE LimitExplained'
  BY <1>2, LimitSame DEF PushRole
<1>3. ASSUME NEW l \in Licences, ChangeLicence(l) PROVE LimitExplained'
  BY <1>3, ExplainStep DEF ChangeLicence
<1>4. CASE NextDay \/ UNCHANGED roleVars
  BY <1>4, LimitSame DEF NextDay, roleVars, people, history
<1> QED BY <1>1, <1>2, <1>3, <1>4 DEF RoleNext

\* More active users than the plan allows have a cause the limit knows (admin.py:47-50,
\* push.py:156-176).
THEOREM LimitHasCause == RoleSpec => []LimitExplained
<1>1. RoleInit => LimitExplained
  <2> SUFFICES ASSUME RoleInit PROVE ~Excess
    BY DEF LimitExplained, Excess
  <2>1. ActiveUsers = DOMAIN Staff
    BY DEF RoleInit, ActiveUsers, User, NoUser
  <2>2. licence \in Licences /\ (licence.users = None \/ Cardinality(DOMAIN Staff) <= licence.users)
    BY DEF RoleInit
  <2> QED BY <2>1, <2>2, ActiveFinite DEF Excess, None
<1> QED BY <1>1, LimitKept, RolesKept, PTL DEF RoleSpec

-----------------------------------------------------------------------------
(***************************************************************************)
(* For any companies, slugs, databases, threads, time to live and pool of  *)
(* engines: whatever is cached, suspended, created or abandoned, a route   *)
(* leads to a database that holds its company, a login is served only to a *)
(* company that is active or was less than a time to live ago, and a slug  *)
(* leads to one company unless two creations ran into each other.          *)
(*                                                                         *)
(* None of the three is inductive.  ThreadOK says what a request carries   *)
(* from one of its steps to the next, EntryOK what a cached route does,    *)
(* and both are kept by whatever the others do (Grows): a database never   *)
(* loses a company, and a route that loses is_active is stamped with the   *)
(* time.  SlugOnce adds that a creation under way still finds no route of  *)
(* its slug, as long as it is the only one.                                *)
(***************************************************************************)

Steps == {"start", "query", "fill", "served", "refused", "end", "checked", "admitted", "stored"}
Works == UNION {{work[t] : t \in Threads} : work \in RouteWork}
Nits  == Companies \cup {w.nit : w \in {x \in Works : x.kind = "create"}}

RouteType == {NoRow} \cup [exists : {TRUE}, slug : Slugs, url : Urls, active : BOOLEAN]
HomeType  == {NoRow} \cup [exists : {TRUE}, url : Urls, nit : Nits]
EntryType == {NoEntry} \cup [at : Nat, url : Urls, company : Companies]
CallType  == [step : Steps, work : Works, at : Nat, resolved : Nat,
              company : Companies \cup {"none"}, url : Urls \cup {NoUrl}]

RoutingTypeOK ==
  /\ clock \in Nat
  /\ route \in [Companies -> RouteType]
  /\ home \in [Companies -> HomeType]
  /\ bySlug \in [Keys -> EntryType]
  /\ byCompany \in [Companies -> EntryType]
  /\ tokens \subseteq Companies
  /\ call \in [Threads -> CallType]
  /\ stopped \in [Companies -> Nat]
  /\ overlapped \in BOOLEAN

\* The company was active after the moment `m`, if it is not active now.
Since(c, m) == Active(c) \/ m <= stopped[c]

ThreadOK(x) ==
  /\ x.at <= clock /\ x.resolved <= clock
  /\ x.step \in {"checked", "admitted", "stored"} => x.work.kind = "create"
  /\ x.step = "stored" => x.company \in Companies /\ Lives(x.company, x.work.url)
  /\ x.step \in {"fill", "served"} =>
       x.company \in Companies /\ x.url \in Urls /\ Lives(x.company, x.url)
  /\ x.step = "fill" /\ x.work.kind = "login" =>
       Since(x.company, x.at) /\ Since(x.company, x.resolved)
  /\ x.step = "served" /\ x.work.kind = "login" =>
       Active(x.company) \/ x.resolved < stopped[x.company] + TTL

EntryOK(e) == e.url # NoUrl => e.at <= clock /\ Lives(e.company, e.url)

ThreadsOK == \A t \in Threads : ThreadOK(call[t])

SlugCacheOK ==
  \A k \in Keys : EntryOK(bySlug[k]) /\ (bySlug[k].url # NoUrl => Since(bySlug[k].company, bySlug[k].at))

CompanyCacheOK ==
  \A c \in Companies : EntryOK(byCompany[c]) /\ (byCompany[c].url # NoUrl => byCompany[c].company = c)

RoutesOK ==
  /\ \A c \in Companies : Routed(c) => Lives(c, route[c].url)
  /\ \A c \in DOMAIN Seeded : Lives(c, Seeded[c].url)
  /\ \A c \in Companies : stopped[c] <= clock

SlugOnce ==
  ~overlapped =>
    /\ \A c, d \in Companies :
         Routed(c) /\ Routed(d) /\ KeyOf[route[c].slug] = KeyOf[route[d].slug] => c = d
    /\ \A t, u \in Threads : Creating(t) /\ Creating(u) => t = u
    /\ \A t \in Threads : Creating(t) =>
         \A c \in Companies : ~(Routed(c) /\ KeyOf[route[c].slug] = KeyOf[Work(t).slug])

RoutingInv ==
  RoutingTypeOK /\ ThreadsOK /\ SlugCacheOK /\ CompanyCacheOK /\ RoutesOK /\ SlugOnce

USE TTLAssumption, NoUrlAssumption

----------------------------------------------------------------------------
(* What every step does to the world *)

Grows ==
  /\ clock <= clock'
  /\ \A c \in Companies : home[c].exists => home'[c].exists /\ home'[c].url = home[c].url
  /\ \A c \in Companies : Active(c) => Active(c)' \/ stopped'[c] = clock'
  /\ \A c \in Companies : stopped[c] <= stopped'[c]

\* A step that leaves the rows and the clock alone changes nothing that matters.
LEMMA SameWorld ==
  ASSUME RoutingTypeOK, UNCHANGED <<clock, route, home, stopped>>
  PROVE  Grows
BY DEF RoutingTypeOK, Grows, Active, Routed

\* What a request carries stays good in a world that grows.
LEMMA ThreadKept ==
  ASSUME RoutingTypeOK, RoutingTypeOK', Grows, NEW x \in CallType, ThreadOK(x)
  PROVE  ThreadOK(x)'
<1>1. /\ clock \in Nat /\ clock' \in Nat /\ clock <= clock'
      /\ stopped \in [Companies -> Nat] /\ stopped' \in [Companies -> Nat]
  BY DEF RoutingTypeOK, Grows
<1>2. x.at \in Nat /\ x.resolved \in Nat
  BY DEF CallType
<1>3. x.at <= clock' /\ x.resolved <= clock'
  BY <1>1, <1>2 DEF ThreadOK
<1>4. ASSUME NEW c \in Companies, NEW m \in Nat, m <= clock, Since(c, m)
      PROVE  Since(c, m)'
  <2>1. CASE Active(c)
    BY <1>1, <1>4, <2>1 DEF Grows, Since
  <2>2. CASE m <= stopped[c]
    <3>1. stopped[c] \in Nat /\ stopped'[c] \in Nat /\ stopped[c] <= stopped'[c]
      BY <1>1 DEF Grows
    <3> QED BY <2>2, <3>1 DEF Since
  <2> QED BY <1>4, <2>1, <2>2 DEF Since
<1>5. x.step \in {"checked", "admitted", "stored"} => x.work.kind = "create"
  BY DEF ThreadOK
<1>6. x.step = "stored" => x.company \in Companies /\ Lives(x.company, x.work.url)'
  BY DEF ThreadOK, Grows, Lives
<1>7. x.step \in {"fill", "served"} =>
        x.company \in Companies /\ x.url \in Urls /\ Lives(x.company, x.url)'
  BY DEF ThreadOK, Grows, Lives
<1>8. x.step = "fill" /\ x.work.kind = "login" =>
        Since(x.company, x.at)' /\ Since(x.company, x.resolved)'
  BY <1>2, <1>4 DEF ThreadOK
<1>9. x.step = "served" /\ x.work.kind = "login" =>
        Active(x.company)' \/ x.resolved < stopped'[x.company] + TTL
  <2> SUFFICES ASSUME x.step = "served", x.work.kind = "login"
               PROVE  Active(x.company)' \/ x.resolved < stopped'[x.company] + TTL
    OBVIOUS
  <2>1. /\ x.company \in Companies /\ x.resolved <= clock
        /\ Active(x.company) \/ x.resolved < stopped[x.company] + TTL
    BY DEF ThreadOK
  <2>2. PICK c \in Companies : c = x.company
    BY <2>1
  <2>3. stopped[c] \in Nat /\ stopped'[c] \in Nat /\ stopped[c] <= stopped'[c] /\ TTL \in Nat \ {0}
    BY <1>1 DEF Grows
  <2>4. CASE Active(c)
    <3>1. Active(c)' \/ stopped'[c] = clock'
      BY <2>4 DEF Grows
    <3> QED BY <1>1, <1>2, <2>1, <2>2, <2>3, <3>1
  <2>5. CASE x.resolved < stopped[c] + TTL
    BY <1>2, <2>2, <2>3, <2>5
  <2> QED BY <2>1, <2>2, <2>4, <2>5
<1> QED BY <1>3, <1>5, <1>6, <1>7, <1>8, <1>9 DEF ThreadOK

\* What is cached stays good in a world that grows.
LEMMA EntryKept ==
  ASSUME RoutingTypeOK, RoutingTypeOK', Grows, NEW e \in EntryType, EntryOK(e)
  PROVE  /\ EntryOK(e)'
         /\ e.url # NoUrl /\ Since(e.company, e.at) => Since(e.company, e.at)'
<1> SUFFICES ASSUME e.url # NoUrl
             PROVE  EntryOK(e)' /\ (Since(e.company, e.at) => Since(e.company, e.at)')
  BY DEF EntryOK
<1>1. e.at \in Nat /\ e.url \in Urls /\ e.company \in Companies
  BY DEF EntryType, NoEntry
<1>2. e.at <= clock /\ Lives(e.company, e.url)
  BY DEF EntryOK
<1>3. clock \in Nat /\ clock' \in Nat /\ clock <= clock'
  BY DEF RoutingTypeOK, Grows
<1>4. EntryOK(e)'
  BY <1>1, <1>2, <1>3 DEF Grows, EntryOK, Lives
<1>5. ASSUME Since(e.company, e.at) PROVE Since(e.company, e.at)'
  <2>1. PICK c \in Companies, m \in Nat : c = e.company /\ m = e.at
    BY <1>1
  <2>2. stopped[c] \in Nat /\ stopped'[c] \in Nat /\ stopped[c] <= stopped'[c]
    BY DEF RoutingTypeOK, Grows
  <2>3. CASE Active(c)
    <3>1. Active(c)' \/ stopped'[c] = clock'
      BY <2>3 DEF Grows
    <3> QED BY <1>2, <1>3, <2>1, <2>2, <3>1 DEF Since
  <2>4. CASE m <= stopped[c]
    BY <2>1, <2>2, <2>4 DEF Since
  <2> QED BY <1>5, <2>1, <2>3, <2>4 DEF Since
<1> QED BY <1>4, <1>5

\* The requests after a step of one of them, whose entry is good.
LEMMA ThreadsStep ==
  ASSUME RoutingTypeOK, RoutingTypeOK', ThreadsOK, Grows, NEW t \in Threads,
         \A o \in Threads : o # t => call'[o] = call[o],
         ThreadOK(call[t])'
  PROVE  ThreadsOK'
<1> SUFFICES ASSUME NEW o \in Threads PROVE ThreadOK(call[o])'
  BY DEF ThreadsOK
<1>1. CASE o = t
  BY <1>1
<1>2. CASE o # t
  <2>1. PICK x \in CallType : x = call[o] /\ x = call'[o]
    BY <1>2 DEF RoutingTypeOK
  <2>2. ThreadOK(x)
    BY <2>1 DEF ThreadsOK
  <2>3. ThreadOK(x)'
    BY <2>2, ThreadKept
  <2> QED BY <2>1, <2>3 DEF ThreadOK, Since, Lives, Active, Routed
<1> QED BY <1>1, <1>2

\* The requests after a step of none of them.
LEMMA ThreadsSame ==
  ASSUME RoutingTypeOK, RoutingTypeOK', ThreadsOK, Grows, call' = call
  PROVE  ThreadsOK'
<1> SUFFICES ASSUME NEW o \in Threads PROVE ThreadOK(call[o])'
  BY DEF ThreadsOK
<1>1. PICK x \in CallType : x = call[o] /\ x = call'[o]
  BY DEF RoutingTypeOK
<1>2. ThreadOK(x)'
  BY <1>1, ThreadKept DEF ThreadsOK
<1> QED BY <1>1, <1>2 DEF ThreadOK, Since, Lives, Active, Routed

\* The caches after a step that does not write them.
LEMMA CachesSame ==
  ASSUME RoutingTypeOK, RoutingTypeOK', SlugCacheOK, CompanyCacheOK, Grows,
         UNCHANGED <<bySlug, byCompany>>
  PROVE  SlugCacheOK' /\ CompanyCacheOK'
<1>1. ASSUME NEW k \in Keys
      PROVE  EntryOK(bySlug[k])' /\ (bySlug'[k].url # NoUrl => Since(bySlug[k].company, bySlug[k].at)')
  <2>1. PICK e \in EntryType : e = bySlug[k] /\ e = bySlug'[k]
    BY DEF RoutingTypeOK
  <2>2. EntryOK(e) /\ (e.url # NoUrl => Since(e.company, e.at))
    BY <2>1 DEF SlugCacheOK
  <2>3. EntryOK(e)' /\ (e.url # NoUrl => Since(e.company, e.at)')
    BY <2>2, EntryKept
  <2> QED BY <2>1, <2>3 DEF EntryOK, Since, Lives, Active, Routed
<1>2. ASSUME NEW c \in Companies
      PROVE  EntryOK(byCompany[c])' /\ (byCompany'[c].url # NoUrl => byCompany'[c].company = c)
  <2>1. PICK e \in EntryType : e = byCompany[c] /\ e = byCompany'[c]
    BY DEF RoutingTypeOK
  <2>2. EntryOK(e) /\ (e.url # NoUrl => e.company = c)
    BY <2>1 DEF CompanyCacheOK
  <2>3. EntryOK(e)'
    BY <2>2, EntryKept
  <2> QED BY <2>1, <2>2, <2>3 DEF EntryOK, Lives
<1> QED BY <1>1, <1>2 DEF SlugCacheOK, CompanyCacheOK

\* The rows after a step that leaves them and the clock alone.
LEMMA RoutesSame ==
  ASSUME RoutesOK, UNCHANGED <<clock, route, home, stopped>>
  PROVE  RoutesOK'
BY DEF RoutesOK, Routed, Lives

\* A step that routes no slug anew and lets no creation begin keeps the slugs apart.
LEMMA SlugsKept ==
  ASSUME SlugOnce, overlapped' = overlapped,
         \A c \in Companies : Routed(c)' <=> Routed(c),
         \A c \in Companies : Routed(c) => route'[c].slug = route[c].slug,
         \A t \in Threads : Creating(t)' => Creating(t) /\ call'[t].work = call[t].work
  PROVE  SlugOnce'
BY DEF SlugOnce, Work

----------------------------------------------------------------------------
(* What a step of a request does to its own entry *)

\* The entry of t after a step: the work stays, and so do the other entries.
Moved(t, step, at, resolved, company, url) ==
  /\ call' \in [Threads -> CallType]
  /\ call'[t].step = step /\ call'[t].work = call[t].work /\ call'[t].at = at
  /\ call'[t].resolved = resolved /\ call'[t].company = company /\ call'[t].url = url
  /\ \A o \in Threads : o # t => call'[o] = call[o]

LEMMA GoToMoves ==
  ASSUME RoutingTypeOK, NEW t \in Threads, NEW s \in Steps, GoTo(t, s)
  PROVE  Moved(t, s, call[t].at, call[t].resolved, call[t].company, call[t].url)
BY DEF RoutingTypeOK, GoTo, Moved, CallType

LEMMA RefuseMoves ==
  ASSUME RoutingTypeOK, NEW t \in Threads, Refuse(t)
  PROVE  Moved(t, "refused", call[t].at, call[t].resolved, call[t].company, call[t].url)
BY GoToMoves DEF Refuse, Steps

LEMMA ServeMoves ==
  ASSUME RoutingTypeOK, NEW t \in Threads, NEW c \in Companies, NEW u \in Urls, NEW m \in Nat,
         Serve(t, c, u, m)
  PROVE  /\ Moved(t, "served", call[t].at, m, c, u)
         /\ tokens' \subseteq Companies
<1>1. call[t] = [step |-> call[t].step, work |-> call[t].work, at |-> call[t].at,
                 resolved |-> call[t].resolved, company |-> call[t].company, url |-> call[t].url]
      /\ call[t].work \in Works /\ call[t].at \in Nat /\ call \in [Threads -> CallType]
  BY DEF RoutingTypeOK, CallType
<1> DEFINE e == [step |-> "served", work |-> call[t].work, at |-> call[t].at, resolved |-> m,
                 company |-> c, url |-> u]
<1>2. call'[t] = e /\ DOMAIN call' = Threads /\ \A o \in Threads : o # t => call'[o] = call[o]
  BY <1>1 DEF Serve
<1>3. e \in CallType
  BY <1>1 DEF CallType, Steps
<1>4. tokens' \subseteq Companies
  BY DEF Serve, RoutingTypeOK
<1>5. call' \in [Threads -> CallType]
  <2>1. call' = [o \in Threads |-> call'[o]]
    BY <1>1 DEF Serve
  <2> QED BY <1>1, <1>2, <1>3, <2>1
<1> QED BY <1>1, <1>2, <1>4, <1>5 DEF Moved

LEMMA LookMoves ==
  ASSUME RoutingTypeOK, NEW t \in Threads,
         call' = [call EXCEPT ![t].step = "query", ![t].at = clock]
  PROVE  Moved(t, "query", clock, call[t].resolved, call[t].company, call[t].url)
BY DEF RoutingTypeOK, Moved, CallType, Steps

LEMMA FoundMoves ==
  ASSUME RoutingTypeOK, NEW t \in Threads, NEW c \in Companies, NEW u \in Urls,
         call' = [call EXCEPT ![t].step = "fill", ![t].company = c, ![t].url = u,
                              ![t].resolved = clock]
  PROVE  Moved(t, "fill", call[t].at, clock, c, u)
<1>1. call[t] = [step |-> call[t].step, work |-> call[t].work, at |-> call[t].at,
                 resolved |-> call[t].resolved, company |-> call[t].company, url |-> call[t].url]
      /\ call[t].work \in Works /\ call[t].at \in Nat /\ call \in [Threads -> CallType]
      /\ clock \in Nat
  BY DEF RoutingTypeOK, CallType
<1> DEFINE e == [step |-> "fill", work |-> call[t].work, at |-> call[t].at, resolved |-> clock,
                 company |-> c, url |-> u]
<1>2. call'[t] = e /\ DOMAIN call' = Threads /\ \A o \in Threads : o # t => call'[o] = call[o]
  BY <1>1
<1>3. e \in CallType
  BY <1>1 DEF CallType, Steps
<1>4. call' \in [Threads -> CallType]
  <2>1. call' = [o \in Threads |-> call'[o]]
    BY <1>1
  <2> QED BY <1>1, <1>2, <1>3, <2>1
<1> QED BY <1>1, <1>2, <1>4 DEF Moved

LEMMA StoreMoves ==
  ASSUME RoutingTypeOK, NEW t \in Threads, NEW c \in Companies,
         call' = [call EXCEPT ![t].step = "stored", ![t].company = c]
  PROVE  Moved(t, "stored", call[t].at, call[t].resolved, c, call[t].url)
BY DEF RoutingTypeOK, Moved, CallType, Steps

\* A step to which no row, no cache and no route belongs: enough that the entry is good.
LEMMA QuietRouteStep ==
  ASSUME RoutingInv, NEW t \in Threads, NEW s, NEW a, NEW m, NEW c, NEW u,
         Moved(t, s, a, m, c, u), tokens' \subseteq Companies, ThreadOK(call[t])',
         UNCHANGED <<clock, route, home, bySlug, byCompany, stopped, overlapped>>,
         Creating(t)' => Creating(t)
  PROVE  RoutingInv'
<1>1. RoutingTypeOK'
  BY DEF RoutingInv, RoutingTypeOK, Moved
<1>2. Grows
  BY SameWorld DEF RoutingInv
<1>3. ThreadsOK'
  BY <1>1, <1>2, ThreadsStep DEF RoutingInv, Moved
<1>4. SlugCacheOK' /\ CompanyCacheOK'
  BY <1>1, <1>2, CachesSame DEF RoutingInv
<1>5. RoutesOK'
  BY RoutesSame DEF RoutingInv
<1>6. \A o \in Threads : Creating(o)' => Creating(o) /\ call'[o].work = call[o].work
  BY DEF Moved, Creating, Work
<1>7. SlugOnce'
  BY <1>6, SlugsKept DEF RoutingInv, Routed
<1> QED BY <1>1, <1>3, <1>4, <1>5, <1>7 DEF RoutingInv

\* A step to a place where a request carries nothing but its times.
LEMMA PlainStep ==
  ASSUME RoutingInv, NEW t \in Threads, NEW s \in {"start", "refused", "end", "query"},
         NEW a \in {call[t].at, clock},
         Moved(t, s, a, call[t].resolved, call[t].company, call[t].url),
         tokens' \subseteq Companies,
         UNCHANGED <<clock, route, home, bySlug, byCompany, stopped, overlapped>>
  PROVE  RoutingInv'
<1>1. call'[t].at <= clock /\ call'[t].resolved <= clock /\ call'[t].step = s
  BY DEF RoutingInv, RoutingTypeOK, ThreadsOK, ThreadOK, Moved
<1>2. ThreadOK(call[t])'
  BY <1>1 DEF ThreadOK
<1>3. Creating(t)' => Creating(t)
  BY <1>1 DEF Creating
<1> QED BY <1>2, <1>3, QuietRouteStep

\* A request is served with a company and a database that holds it, from a lookup of the
\* moment `m`.
LEMMA ServedStep ==
  ASSUME RoutingInv, NEW t \in Threads, NEW c \in Companies, NEW u \in Urls, NEW m \in Nat,
         Serve(t, c, u, m), Lives(c, u), m <= clock,
         Work(t).kind = "login" => Active(c) \/ m < stopped[c] + TTL,
         UNCHANGED <<clock, route, home, bySlug, byCompany, stopped, overlapped>>
  PROVE  RoutingInv'
<1>1. Moved(t, "served", call[t].at, m, c, u) /\ tokens' \subseteq Companies
  BY ServeMoves DEF RoutingInv
<1>2. call[t].at <= clock
  BY DEF RoutingInv, ThreadsOK, ThreadOK
<1>3. /\ call'[t].step = "served" /\ call'[t].work = Work(t) /\ call'[t].at = call[t].at
      /\ call'[t].resolved = m /\ call'[t].company = c /\ call'[t].url = u
  BY <1>1 DEF Moved, Work
<1>4. ThreadOK(call[t])'
  BY <1>2, <1>3 DEF ThreadOK, Lives, Active, Routed
<1>5. Creating(t)' => Creating(t)
  BY <1>3 DEF Creating
<1> QED BY <1>1, <1>4, <1>5, QuietRouteStep

\* What a cached route says of its company.
LEMMA SlugEntry ==
  ASSUME RoutingInv, NEW k \in Keys, bySlug[k].url # NoUrl
  PROVE  /\ bySlug[k].at \in Nat /\ bySlug[k].url \in Urls /\ bySlug[k].company \in Companies
         /\ Lives(bySlug[k].company, bySlug[k].url)
         /\ Active(bySlug[k].company) \/ bySlug[k].at <= stopped[bySlug[k].company]
<1>1. bySlug[k] \in EntryType
  BY DEF RoutingInv, RoutingTypeOK
<1>2. bySlug[k].at \in Nat /\ bySlug[k].url \in Urls /\ bySlug[k].company \in Companies
  BY <1>1 DEF EntryType, NoEntry
<1> QED BY <1>2 DEF RoutingInv, SlugCacheOK, EntryOK, Since

LEMMA CompanyEntry ==
  ASSUME RoutingInv, NEW c \in Companies, byCompany[c].url # NoUrl
  PROVE  byCompany[c].url \in Urls /\ Lives(c, byCompany[c].url)
<1>1. byCompany[c] \in EntryType
  BY DEF RoutingInv, RoutingTypeOK
<1>2. byCompany[c].url \in Urls
  BY <1>1 DEF EntryType, NoEntry
<1> QED BY <1>2 DEF RoutingInv, CompanyCacheOK, EntryOK

\* What a request may be asked to do.
LEMMA WorkFacts ==
  ASSUME RoutingInv, NEW t \in Threads
  PROVE  /\ Work(t).kind \in {"login", "create"} => Work(t).slug \in Slugs
         /\ Work(t).kind = "create" => Work(t).url \in Urls /\ Work(t).nit \in Nits
         /\ Work(t).kind \in {"call", "impersonate"} => Work(t).company \in Companies
<1>1. Work(t) \in Works
  BY DEF RoutingInv, RoutingTypeOK, CallType, Work
<1>2. PICK work \in RouteWork, o \in Threads : Work(t) = work[o]
  BY <1>1 DEF Works
<1>3. Work(t).kind = "create" => Work(t).nit \in Nits
  BY <1>1 DEF Nits
<1> QED BY <1>2, <1>3, WorkAssumption

----------------------------------------------------------------------------
(* Logins and calls *)

LEMMA LookupSlugStep ==
  ASSUME RoutingInv, NEW t \in Threads, LookupSlug(t)
  PROVE  RoutingInv'
<1>1. Work(t).kind = "login" /\ Work(t).slug \in Slugs
  BY WorkFacts DEF LookupSlug
<1>2. PICK k \in Keys : k = KeyOf[Work(t).slug]
  BY <1>1 DEF Keys
<1>3. UNCHANGED <<clock, route, home, bySlug, byCompany, stopped, overlapped>>
  BY DEF LookupSlug
<1>4. CASE Fresh(bySlug[k])
  <2>1. /\ bySlug[k].at \in Nat /\ bySlug[k].url \in Urls /\ bySlug[k].company \in Companies
        /\ Lives(bySlug[k].company, bySlug[k].url)
        /\ Active(bySlug[k].company) \/ bySlug[k].at <= stopped[bySlug[k].company]
    BY <1>4, SlugEntry DEF Fresh
  <2>2. PICK c \in Companies, u \in Urls, a \in Nat :
           c = bySlug[k].company /\ u = bySlug[k].url /\ a = bySlug[k].at
    BY <2>1
  <2>3. Serve(t, c, u, clock)
    BY <1>2, <1>4, <2>2 DEF LookupSlug
  <2>4. clock \in Nat /\ stopped[c] \in Nat /\ TTL \in Nat
    BY DEF RoutingInv, RoutingTypeOK
  <2>5. clock - a < TTL
    BY <1>4, <2>2 DEF Fresh
  <2>6. Active(c) \/ a <= stopped[c]
    BY <2>1, <2>2
  <2>7. Active(c) \/ clock < stopped[c] + TTL
    BY <2>2, <2>4, <2>5, <2>6
  <2>8. Lives(c, u) /\ clock <= clock
    BY <2>1, <2>2, <2>4
  <2> QED BY <1>3, <2>3, <2>4, <2>7, <2>8, ServedStep
<1>5. CASE ~Fresh(bySlug[k])
  <2>1. call' = [call EXCEPT ![t].step = "query", ![t].at = clock] /\ tokens' = tokens
    BY <1>2, <1>5 DEF LookupSlug
  <2>2. Moved(t, "query", clock, call[t].resolved, call[t].company, call[t].url)
    BY <2>1, LookMoves DEF RoutingInv
  <2>3. tokens' \subseteq Companies
    BY <2>1 DEF RoutingInv, RoutingTypeOK
  <2> QED BY <1>3, <2>2, <2>3, PlainStep
<1> QED BY <1>4, <1>5

LEMMA LookupCompanyStep ==
  ASSUME RoutingInv, NEW t \in Threads, LookupCompany(t)
  PROVE  RoutingInv'
<1>1. Work(t).kind = "call" /\ Work(t).company \in Companies
  BY WorkFacts DEF LookupCompany
<1>2. PICK c \in Companies : c = Work(t).company
  BY <1>1
<1>3. UNCHANGED <<clock, route, home, bySlug, byCompany, stopped, overlapped>>
  BY DEF LookupCompany
<1>4. CASE Fresh(byCompany[c])
  <2>1. byCompany[c].url \in Urls /\ Lives(c, byCompany[c].url)
    BY <1>4, CompanyEntry DEF Fresh
  <2>2. Serve(t, c, byCompany[c].url, clock)
    BY <1>2, <1>4 DEF LookupCompany
  <2>3. clock \in Nat /\ clock <= clock
    BY DEF RoutingInv, RoutingTypeOK
  <2> QED BY <1>1, <1>3, <2>1, <2>2, <2>3, ServedStep
<1>5. CASE ~Fresh(byCompany[c])
  <2>1. call' = [call EXCEPT ![t].step = "query", ![t].at = clock] /\ tokens' = tokens
    BY <1>2, <1>5 DEF LookupCompany
  <2>2. Moved(t, "query", clock, call[t].resolved, call[t].company, call[t].url)
    BY <2>1, LookMoves DEF RoutingInv
  <2>3. tokens' \subseteq Companies
    BY <2>1 DEF RoutingInv, RoutingTypeOK
  <2> QED BY <1>3, <2>2, <2>3, PlainStep
<1> QED BY <1>4, <1>5

\* A request gives up, or is refused: nothing else changes.
LEMMA RefuseStep ==
  ASSUME RoutingInv, NEW t \in Threads, Refuse(t), tokens' = tokens,
         UNCHANGED <<clock, route, home, bySlug, byCompany, stopped, overlapped>>
  PROVE  RoutingInv'
<1>1. Moved(t, "refused", call[t].at, call[t].resolved, call[t].company, call[t].url)
  BY RefuseMoves DEF RoutingInv
<1>2. tokens' \subseteq Companies
  BY DEF RoutingInv, RoutingTypeOK
<1> QED BY <1>1, <1>2, PlainStep

\* A route is found: its company lives there, and a login's company is active.
LEMMA FoundStep ==
  ASSUME RoutingInv, NEW t \in Threads, NEW c \in Companies, NEW u \in Urls,
         call' = [call EXCEPT ![t].step = "fill", ![t].company = c, ![t].url = u,
                              ![t].resolved = clock],
         Lives(c, u), Work(t).kind = "login" => Active(c), tokens' = tokens,
         UNCHANGED <<clock, route, home, bySlug, byCompany, stopped, overlapped>>
  PROVE  RoutingInv'
<1>1. Moved(t, "fill", call[t].at, clock, c, u)
  BY FoundMoves DEF RoutingInv
<1>2. tokens' \subseteq Companies /\ clock <= clock /\ call[t].at <= clock
  BY DEF RoutingInv, RoutingTypeOK, ThreadsOK, ThreadOK
<1>3. /\ call'[t].step = "fill" /\ call'[t].work = Work(t) /\ call'[t].at = call[t].at
      /\ call'[t].resolved = clock /\ call'[t].company = c /\ call'[t].url = u
  BY <1>1 DEF Moved, Work
<1>4. ThreadOK(call[t])'
  BY <1>2, <1>3 DEF ThreadOK, Since, Lives, Active, Routed
<1>5. Creating(t)' => Creating(t)
  BY <1>3 DEF Creating
<1> QED BY <1>1, <1>2, <1>4, <1>5, QuietRouteStep

LEMMA RouteFacts ==
  ASSUME RoutingInv, NEW c \in Companies, Routed(c)
  PROVE  route[c].url \in Urls /\ route[c].active \in BOOLEAN /\ Lives(c, route[c].url)
<1>1. route[c] \in RouteType
  BY DEF RoutingInv, RoutingTypeOK
<1>2. route[c].url \in Urls /\ route[c].active \in BOOLEAN
  <2>1. route[c] # NoRow
    BY DEF NoRow, Routed
  <2> QED BY <1>1, <2>1 DEF RouteType
<1> QED BY <1>2 DEF RoutingInv, RoutesOK

LEMMA QuerySlugStep ==
  ASSUME RoutingInv, NEW t \in Threads, QuerySlug(t)
  PROVE  RoutingInv'
<1>1. tokens' = tokens /\ UNCHANGED <<clock, route, home, bySlug, byCompany, stopped, overlapped>>
  BY DEF QuerySlug, data, caches
<1>2. CASE Refuse(t)
  BY <1>1, <1>2, RefuseStep
<1>3. CASE \E c \in Companies :
             /\ Routed(c) /\ route[c].active
             /\ call' = [call EXCEPT ![t].step = "fill", ![t].company = c,
                                     ![t].url = route[c].url, ![t].resolved = clock]
  <2>1. PICK c \in Companies :
             /\ Routed(c) /\ route[c].active
             /\ call' = [call EXCEPT ![t].step = "fill", ![t].company = c,
                                     ![t].url = route[c].url, ![t].resolved = clock]
    BY <1>3
  <2>2. route[c].url \in Urls /\ Lives(c, route[c].url) /\ Active(c)
    BY <2>1, RouteFacts DEF Active
  <2> QED BY <1>1, <2>1, <2>2, FoundStep
<1> QED BY <1>2, <1>3 DEF QuerySlug

LEMMA QueryCompanyStep ==
  ASSUME RoutingInv, NEW t \in Threads, QueryCompany(t)
  PROVE  RoutingInv'
<1>1. tokens' = tokens /\ UNCHANGED <<clock, route, home, bySlug, byCompany, stopped, overlapped>>
  BY DEF QueryCompany, data, caches
<1>2. Work(t).kind = "call" /\ Work(t).company \in Companies
  BY WorkFacts DEF QueryCompany
<1>3. PICK c \in Companies : c = Work(t).company
  BY <1>2
<1> DEFINE u == IF EnvUrl[c] # NoUrl THEN EnvUrl[c] ELSE IF Routed(c) THEN route[c].url ELSE NoUrl
<1>4. CASE u = NoUrl
  <2>1. Refuse(t)
    BY <1>3, <1>4 DEF QueryCompany
  <2> QED BY <1>1, <2>1, RefuseStep
<1>5. CASE u # NoUrl
  <2>1. call' = [call EXCEPT ![t].step = "fill", ![t].company = c, ![t].url = u,
                             ![t].resolved = clock]
    BY <1>3, <1>5 DEF QueryCompany
  <2>2. u \in Urls /\ Lives(c, u)
    <3>1. CASE EnvUrl[c] # NoUrl
      <4>1. c \in DOMAIN Seeded /\ Seeded[c].url = EnvUrl[c]
        BY <3>1, EnvAssumption
      <4>2. Seeded[c].url \in Urls
        BY <4>1, SeededAssumption
      <4>3. Lives(c, Seeded[c].url)
        BY <4>1 DEF RoutingInv, RoutesOK
      <4> QED BY <3>1, <4>1, <4>2, <4>3
    <3>2. CASE EnvUrl[c] = NoUrl
      BY <1>5, <3>2, RouteFacts
    <3> QED BY <3>1, <3>2
  <2> HIDE DEF u
  <2> QED BY <1>1, <1>2, <2>1, <2>2, FoundStep
<1> QED BY <1>4, <1>5

\* The entries a lookup writes, of the company and the database it has found.
LEMMA FillFacts ==
  ASSUME RoutingInv, NEW t \in Threads, At(t, "fill")
  PROVE  /\ call[t].company \in Companies /\ call[t].url \in Urls /\ call[t].at \in Nat
         /\ call[t].resolved \in Nat /\ call[t].at <= clock /\ call[t].resolved <= clock
         /\ Lives(call[t].company, call[t].url)
         /\ Work(t).kind = "login" => /\ Since(call[t].company, call[t].at)
                                      /\ Since(call[t].company, call[t].resolved)
<1>1. call[t] \in CallType /\ ThreadOK(call[t])
  BY DEF RoutingInv, RoutingTypeOK, ThreadsOK
<1>2. call[t].at \in Nat /\ call[t].resolved \in Nat
  BY <1>1 DEF CallType
<1> QED BY <1>1, <1>2 DEF ThreadOK, At, Work

\* The caches are written first, and then the request is served.
LEMMA FillBySlugStep ==
  ASSUME RoutingInv, NEW t \in Threads, FillBySlug(t)
  PROVE  RoutingInv'
<1>1. Work(t).kind = "login" /\ Work(t).slug \in Slugs /\ At(t, "fill")
  BY WorkFacts DEF FillBySlug
<1>2. PICK k \in Keys, c \in Companies, u \in Urls, a \in Nat, m \in Nat :
         /\ k = KeyOf[Work(t).slug] /\ c = call[t].company /\ u = call[t].url
         /\ a = call[t].at /\ m = call[t].resolved
  BY <1>1, FillFacts DEF Keys
<1>3. Lives(c, u) /\ a <= clock /\ m <= clock /\ Since(c, a) /\ Since(c, m)
  BY <1>1, <1>2, FillFacts
<1> DEFINE e == [at |-> a, url |-> u, company |-> c]
<1>4. e \in EntryType /\ e.at = a /\ e.url = u /\ e.company = c
  BY DEF EntryType
<1>5. /\ bySlug' = [bySlug EXCEPT ![k] = e] /\ byCompany' = [byCompany EXCEPT ![c] = e]
      /\ Serve(t, c, u, m)
      /\ UNCHANGED <<clock, route, home, stopped, overlapped>>
  BY <1>2 DEF FillBySlug
<1> HIDE DEF e
<1>6. Moved(t, "served", call[t].at, m, c, u) /\ tokens' \subseteq Companies
  BY <1>5, ServeMoves DEF RoutingInv
<1>7. RoutingTypeOK'
  BY <1>4, <1>5, <1>6 DEF RoutingInv, RoutingTypeOK, Moved
<1>8. Grows
  BY <1>5, SameWorld DEF RoutingInv
<1>9. ThreadsOK'
  <2>1. /\ call'[t].step = "served" /\ call'[t].work = Work(t) /\ call'[t].at = a
        /\ call'[t].resolved = m /\ call'[t].company = c /\ call'[t].url = u
    BY <1>2, <1>6 DEF Moved, Work
  <2>2. stopped[c] \in Nat /\ TTL \in Nat \ {0}
    BY DEF RoutingInv, RoutingTypeOK
  <2>3. Active(c) \/ m < stopped[c] + TTL
    BY <1>3, <2>2 DEF Since
  <2>4. ThreadOK(call[t])'
    BY <1>3, <1>5, <2>1, <2>3 DEF ThreadOK, Lives, Active, Routed
  <2> QED BY <1>6, <1>7, <1>8, <2>4, ThreadsStep DEF RoutingInv, Moved
<1>10. SlugCacheOK'
  BY <1>3, <1>4, <1>5
     DEF RoutingInv, RoutingTypeOK, SlugCacheOK, EntryOK, Since, Lives, Active, Routed
<1>11. CompanyCacheOK'
  BY <1>3, <1>4, <1>5 DEF RoutingInv, RoutingTypeOK, CompanyCacheOK, EntryOK, Lives
<1>12. RoutesOK'
  BY <1>5, RoutesSame DEF RoutingInv
<1>13. SlugOnce'
  <2>1. \A o \in Threads : Creating(o)' => Creating(o) /\ call'[o].work = call[o].work
    BY <1>6 DEF Moved, Creating, Work
  <2> QED BY <1>5, <2>1, SlugsKept DEF RoutingInv, Routed
<1> QED BY <1>7, <1>9, <1>10, <1>11, <1>12, <1>13 DEF RoutingInv

LEMMA FillByCompanyStep ==
  ASSUME RoutingInv, NEW t \in Threads, FillByCompany(t)
  PROVE  RoutingInv'
<1>1. Work(t).kind = "call" /\ At(t, "fill")
  BY DEF FillByCompany
<1>2. PICK c \in Companies, u \in Urls, a \in Nat, m \in Nat :
         /\ c = call[t].company /\ u = call[t].url /\ a = call[t].at /\ m = call[t].resolved
  BY <1>1, FillFacts
<1>3. Lives(c, u) /\ a <= clock /\ m <= clock
  BY <1>1, <1>2, FillFacts
<1> DEFINE e == [at |-> a, url |-> u, company |-> c]
<1>4. e \in EntryType /\ e.at = a /\ e.url = u /\ e.company = c
  BY DEF EntryType
<1>5. /\ byCompany' = [byCompany EXCEPT ![c] = e]
      /\ Serve(t, c, u, m)
      /\ UNCHANGED <<clock, route, home, bySlug, stopped, overlapped>>
  BY <1>2 DEF FillByCompany
<1> HIDE DEF e
<1>6. Moved(t, "served", call[t].at, m, c, u) /\ tokens' \subseteq Companies
  BY <1>5, ServeMoves DEF RoutingInv
<1>7. RoutingTypeOK'
  BY <1>4, <1>5, <1>6 DEF RoutingInv, RoutingTypeOK, Moved
<1>8. Grows
  BY <1>5, SameWorld DEF RoutingInv
<1>9. ThreadsOK'
  <2>1. /\ call'[t].step = "served" /\ call'[t].work = Work(t) /\ call'[t].at = a
        /\ call'[t].resolved = m /\ call'[t].company = c /\ call'[t].url = u
    BY <1>2, <1>6 DEF Moved, Work
  <2>2. ThreadOK(call[t])'
    BY <1>1, <1>3, <1>5, <2>1 DEF ThreadOK, Lives
  <2> QED BY <1>6, <1>7, <1>8, <2>2, ThreadsStep DEF RoutingInv, Moved
<1>10. SlugCacheOK'
  BY <1>5 DEF RoutingInv, SlugCacheOK, EntryOK, Since, Lives, Active, Routed
<1>11. CompanyCacheOK'
  BY <1>3, <1>4, <1>5 DEF RoutingInv, RoutingTypeOK, CompanyCacheOK, EntryOK, Lives
<1>12. RoutesOK'
  BY <1>5, RoutesSame DEF RoutingInv
<1>13. SlugOnce'
  <2>1. \A o \in Threads : Creating(o)' => Creating(o) /\ call'[o].work = call[o].work
    BY <1>6 DEF Moved, Creating, Work
  <2> QED BY <1>5, <2>1, SlugsKept DEF RoutingInv, Routed
<1> QED BY <1>7, <1>9, <1>10, <1>11, <1>12, <1>13 DEF RoutingInv

LEMMA ImpersonateStep ==
  ASSUME RoutingInv, NEW t \in Threads, Impersonate(t)
  PROVE  RoutingInv'
<1>1. UNCHANGED <<clock, route, home, bySlug, byCompany, stopped, overlapped>>
  BY DEF Impersonate, caches
<1>2. CASE Refuse(t) /\ tokens' = tokens
  BY <1>1, <1>2, RefuseStep
<1>3. CASE tokens' = tokens \cup {Work(t).company} /\ GoTo(t, "end")
  <2>1. Work(t).company \in Companies
    BY WorkFacts DEF Impersonate
  <2>2. tokens' \subseteq Companies
    BY <1>3, <2>1 DEF RoutingInv, RoutingTypeOK
  <2>3. Moved(t, "end", call[t].at, call[t].resolved, call[t].company, call[t].url)
    BY <1>3, GoToMoves DEF RoutingInv, Steps
  <2> QED BY <1>1, <2>2, <2>3, PlainStep
<1> QED BY <1>2, <1>3 DEF Impersonate

LEMMA NextRequestStep ==
  ASSUME RoutingInv, NEW t \in Threads, NextRequest(t)
  PROVE  RoutingInv'
<1>1. Moved(t, "start", call[t].at, call[t].resolved, call[t].company, call[t].url)
  BY GoToMoves DEF RoutingInv, NextRequest, Steps
<1>2. tokens' \subseteq Companies
  BY DEF RoutingInv, RoutingTypeOK, NextRequest, data
<1>3. UNCHANGED <<clock, route, home, bySlug, byCompany, stopped, overlapped>>
  BY DEF NextRequest, data, caches
<1> QED BY <1>1, <1>2, <1>3, PlainStep

LEMMA AbandonStep ==
  ASSUME RoutingInv, NEW t \in Threads, Abandon(t)
  PROVE  RoutingInv'
BY RefuseStep DEF Abandon, data, caches

----------------------------------------------------------------------------
(* The creation of a company *)

LEMMA CheckSlugStep ==
  ASSUME RoutingInv, NEW t \in Threads, CheckSlug(t)
  PROVE  RoutingInv'
<1>1. /\ At(t, "start") /\ Work(t).kind = "create"
      /\ UNCHANGED <<clock, route, home, bySlug, byCompany, tokens, stopped>>
      /\ overlapped' = (overlapped \/ \E o \in Threads : Creating(o))
  BY DEF CheckSlug, caches
<1>2. PICK s \in {"refused", "checked"} :
         /\ GoTo(t, s)
         /\ s = "checked" =>
              \A c \in Companies : ~(Routed(c) /\ KeyOf[route[c].slug] = KeyOf[Work(t).slug])
  BY DEF CheckSlug, Refuse
<1>3. Moved(t, s, call[t].at, call[t].resolved, call[t].company, call[t].url)
  BY <1>2, GoToMoves DEF RoutingInv, Steps
<1>4. RoutingTypeOK'
  BY <1>1, <1>3 DEF RoutingInv, RoutingTypeOK, Moved
<1>5. Grows
  BY <1>1, SameWorld DEF RoutingInv
<1>6. /\ call'[t].step = s /\ call'[t].work = Work(t) /\ call'[t].at = call[t].at
      /\ call'[t].resolved = call[t].resolved
  BY <1>3 DEF Moved, Work
<1>7. call[t].at <= clock /\ call[t].resolved <= clock
  BY DEF RoutingInv, ThreadsOK, ThreadOK
<1>8. ThreadOK(call[t])'
  BY <1>1, <1>2, <1>6, <1>7 DEF ThreadOK
<1>9. ThreadsOK'
  BY <1>3, <1>4, <1>5, <1>8, ThreadsStep DEF RoutingInv, Moved
<1>10. SlugCacheOK' /\ CompanyCacheOK'
  BY <1>1, <1>4, <1>5, CachesSame DEF RoutingInv
<1>11. RoutesOK'
  BY <1>1, RoutesSame DEF RoutingInv
<1>12. SlugOnce'
  <2> SUFFICES ASSUME ~overlapped' PROVE SlugOnce'
    BY DEF SlugOnce
  <2>1. ~overlapped /\ \A o \in Threads : ~Creating(o)
    BY <1>1
  <2>2. \A o \in Threads : Creating(o)' => o = t /\ s = "checked"
    BY <2>1, <1>2, <1>3, <1>6 DEF Moved, Creating, Work
  <2>3. \A c, d \in Companies :
           Routed(c) /\ Routed(d) /\ KeyOf[route[c].slug] = KeyOf[route[d].slug] => c = d
    BY <2>1 DEF RoutingInv, SlugOnce
  <2> QED BY <1>1, <1>2, <1>6, <2>2, <2>3 DEF SlugOnce, Routed, Work
<1> QED BY <1>4, <1>9, <1>10, <1>11, <1>12 DEF RoutingInv

LEMMA CheckNitStep ==
  ASSUME RoutingInv, NEW t \in Threads, CheckNit(t)
  PROVE  RoutingInv'
<1>1. /\ At(t, "checked")
      /\ tokens' = tokens
      /\ UNCHANGED <<clock, route, home, bySlug, byCompany, stopped, overlapped>>
  BY DEF CheckNit, data
<1>2. CASE Refuse(t)
  BY <1>1, <1>2, RefuseStep
<1>3. CASE GoTo(t, "admitted")
  <2>1. Moved(t, "admitted", call[t].at, call[t].resolved, call[t].company, call[t].url)
    BY <1>3, GoToMoves DEF RoutingInv, Steps
  <2>2. /\ call[t].at <= clock /\ call[t].resolved <= clock /\ Work(t).kind = "create"
    BY <1>1 DEF RoutingInv, ThreadsOK, ThreadOK, At, Work
  <2>3. /\ call'[t].step = "admitted" /\ call'[t].work = Work(t) /\ call'[t].at = call[t].at
        /\ call'[t].resolved = call[t].resolved
    BY <2>1 DEF Moved, Work
  <2>4. ThreadOK(call[t])'
    BY <1>1, <2>2, <2>3 DEF ThreadOK
  <2>5. Creating(t)
    BY <1>1, <2>2 DEF Creating, At
  <2>6. tokens' \subseteq Companies
    BY <1>1 DEF RoutingInv, RoutingTypeOK
  <2> QED BY <1>1, <2>1, <2>4, <2>5, <2>6, QuietRouteStep
<1> QED BY <1>2, <1>3 DEF CheckNit

\* What a creation carries once the company is stored.
LEMMA StoredFacts ==
  ASSUME RoutingInv, NEW t \in Threads, call[t].step \in {"checked", "admitted", "stored"}
  PROVE  /\ Work(t).kind = "create" /\ Creating(t)
         /\ Work(t).slug \in Slugs /\ Work(t).url \in Urls /\ Work(t).nit \in Nits
         /\ call[t].at <= clock /\ call[t].resolved <= clock
         /\ call[t].step = "stored" =>
              call[t].company \in Companies /\ Lives(call[t].company, Work(t).url)
<1>1. Work(t).kind = "create"
  BY DEF RoutingInv, ThreadsOK, ThreadOK, Work
<1>2. Work(t).slug \in Slugs /\ Work(t).url \in Urls /\ Work(t).nit \in Nits
  BY <1>1, WorkFacts
<1> QED BY <1>1, <1>2 DEF RoutingInv, ThreadsOK, ThreadOK, Work, Creating

LEMMA CommitCompanyStep ==
  ASSUME RoutingInv, NEW t \in Threads, CommitCompany(t)
  PROVE  RoutingInv'
<1>1. /\ At(t, "admitted") /\ tokens' = tokens
      /\ UNCHANGED <<clock, route, bySlug, byCompany, stopped, overlapped>>
  BY DEF CommitCompany, caches
<1>2. CASE Refuse(t) /\ home' = home
  BY <1>1, <1>2, RefuseStep
<1>3. CASE \E c \in Companies :
             /\ ~home[c].exists
             /\ home' = [home EXCEPT ![c] = [exists |-> TRUE, url |-> Work(t).url,
                                             nit |-> Work(t).nit]]
             /\ call' = [call EXCEPT ![t].step = "stored", ![t].company = c]
  <2>1. PICK c \in Companies :
             /\ ~home[c].exists
             /\ home' = [home EXCEPT ![c] = [exists |-> TRUE, url |-> Work(t).url,
                                             nit |-> Work(t).nit]]
             /\ call' = [call EXCEPT ![t].step = "stored", ![t].company = c]
    BY <1>3
  <2>2. /\ Work(t).kind = "create" /\ Creating(t)
        /\ Work(t).url \in Urls /\ Work(t).nit \in Nits
        /\ call[t].at <= clock /\ call[t].resolved <= clock
    BY <1>1, StoredFacts DEF At
  <2>3. Moved(t, "stored", call[t].at, call[t].resolved, c, call[t].url)
    BY <2>1, StoreMoves DEF RoutingInv
  <2>4. PICK entry \in HomeType : /\ home' = [home EXCEPT ![c] = entry]
                               /\ entry.exists /\ entry.url = Work(t).url
    <3> DEFINE r == [exists |-> TRUE, url |-> Work(t).url, nit |-> Work(t).nit]
    <3>1. r \in HomeType /\ r.exists /\ r.url = Work(t).url
      BY <2>2 DEF HomeType
    <3>2. home' = [home EXCEPT ![c] = r]
      BY <2>1
    <3> HIDE DEF r
    <3> QED BY <3>1, <3>2
  <2>5. home \in [Companies -> HomeType]
    BY DEF RoutingInv, RoutingTypeOK
  <2>6. /\ home'[c].exists /\ home'[c].url = Work(t).url
        /\ \A d \in Companies : d # c => home'[d] = home[d]
        /\ home' \in [Companies -> HomeType]
    BY <2>4, <2>5
  <2>7. RoutingTypeOK'
    BY <1>1, <2>3, <2>6 DEF RoutingInv, RoutingTypeOK, Moved
  <2>8. Grows
    BY <1>1, <2>1, <2>6 DEF RoutingInv, RoutingTypeOK, Grows, Active, Routed
  <2>9. ThreadsOK'
    <3>1. /\ call'[t].step = "stored" /\ call'[t].work = Work(t) /\ call'[t].at = call[t].at
          /\ call'[t].resolved = call[t].resolved /\ call'[t].company = c
      BY <2>3 DEF Moved, Work
    <3>2. ThreadOK(call[t])'
      BY <1>1, <2>2, <2>6, <3>1 DEF ThreadOK, Lives
    <3> QED BY <2>3, <2>7, <2>8, <3>2, ThreadsStep DEF RoutingInv, Moved
  <2>10. SlugCacheOK' /\ CompanyCacheOK'
    BY <1>1, <2>7, <2>8, CachesSame DEF RoutingInv
  <2>11. RoutesOK'
    <3>1. \A d \in Companies, u \in Urls : Lives(d, u) => Lives(d, u)'
      BY <2>1, <2>6 DEF Lives
    <3>2. \A d \in DOMAIN Seeded : d \in Companies /\ Seeded[d].url \in Urls
      BY SeededAssumption
    <3>3. \A d \in Companies : Routed(d) => route[d].url \in Urls /\ Lives(d, route[d].url)
      BY RouteFacts
    <3>4. \A d \in DOMAIN Seeded : Lives(d, Seeded[d].url)'
      BY <3>1, <3>2 DEF RoutingInv, RoutesOK
    <3>5. \A d \in Companies : Routed(d)' => Lives(d, route[d].url)'
      BY <1>1, <2>1, <2>6, <3>3 DEF Routed, Lives
    <3>6. \A d \in Companies : stopped'[d] <= clock'
      BY <1>1 DEF RoutingInv, RoutesOK
    <3> QED BY <3>4, <3>5, <3>6 DEF RoutesOK
  <2>12. SlugOnce'
    <3>1. \A o \in Threads : Creating(o)' => Creating(o) /\ call'[o].work = call[o].work
      BY <2>2, <2>3 DEF Moved, Creating, Work
    <3> QED BY <1>1, <3>1, SlugsKept DEF RoutingInv, Routed
  <2> QED BY <2>7, <2>9, <2>10, <2>11, <2>12 DEF RoutingInv
<1> QED BY <1>2, <1>3 DEF CommitCompany

LEMMA CommitRouteStep ==
  ASSUME RoutingInv, NEW t \in Threads, CommitRoute(t)
  PROVE  RoutingInv'
<1>1. /\ At(t, "stored") /\ tokens' = tokens
      /\ UNCHANGED <<clock, home, bySlug, byCompany, stopped, overlapped>>
  BY DEF CommitRoute, caches
<1>2. CASE Refuse(t) /\ route' = route
  BY <1>1, <1>2, RefuseStep
<1>3. CASE /\ route' = [route EXCEPT ![call[t].company] = Route(Work(t).slug, Work(t).url, TRUE)]
           /\ GoTo(t, "end")
  <2>1. /\ Work(t).kind = "create" /\ Creating(t)
        /\ Work(t).slug \in Slugs /\ Work(t).url \in Urls
        /\ call[t].at <= clock /\ call[t].resolved <= clock
        /\ call[t].company \in Companies /\ Lives(call[t].company, Work(t).url)
    BY <1>1, StoredFacts DEF At
  <2>2. PICK c \in Companies : c = call[t].company
    BY <2>1
  <2>3. Moved(t, "end", call[t].at, call[t].resolved, call[t].company, call[t].url)
    BY <1>3, GoToMoves DEF RoutingInv, Steps
  <2>4. PICK entry \in RouteType : /\ route' = [route EXCEPT ![c] = entry]
                                /\ entry.exists /\ entry.active
                                /\ entry.url = Work(t).url /\ entry.slug = Work(t).slug
    <3> DEFINE r == [exists |-> TRUE, slug |-> Work(t).slug, url |-> Work(t).url, active |-> TRUE]
    <3>1. /\ r \in RouteType /\ r.exists /\ r.active
          /\ r.url = Work(t).url /\ r.slug = Work(t).slug
      BY <2>1 DEF RouteType
    <3>2. route' = [route EXCEPT ![c] = r]
      BY <1>3, <2>2 DEF Route
    <3> HIDE DEF r
    <3> QED BY <3>1, <3>2
  <2>5. route \in [Companies -> RouteType]
    BY DEF RoutingInv, RoutingTypeOK
  <2>6. /\ route'[c] = entry
        /\ \A d \in Companies : d # c => route'[d] = route[d]
        /\ route' \in [Companies -> RouteType]
    BY <2>4, <2>5
  <2>7. RoutingTypeOK'
    BY <1>1, <2>3, <2>6 DEF RoutingInv, RoutingTypeOK, Moved
  <2>8. Grows
    BY <1>1, <2>4, <2>6 DEF RoutingInv, RoutingTypeOK, Grows, Active, Routed
  <2>9. ThreadsOK'
    <3>1. /\ call'[t].step = "end" /\ call'[t].at = call[t].at
          /\ call'[t].resolved = call[t].resolved
      BY <2>3 DEF Moved
    <3>2. ThreadOK(call[t])'
      BY <1>1, <2>1, <3>1 DEF ThreadOK
    <3> QED BY <2>3, <2>7, <2>8, <3>2, ThreadsStep DEF RoutingInv, Moved
  <2>10. SlugCacheOK' /\ CompanyCacheOK'
    BY <1>1, <2>7, <2>8, CachesSame DEF RoutingInv
  <2>11. RoutesOK'
    <3>1. \A d \in Companies : Routed(d)' => Lives(d, route[d].url)'
      BY <1>1, <2>1, <2>2, <2>4, <2>6 DEF RoutingInv, RoutesOK, Routed, Lives
    <3> QED BY <1>1, <3>1 DEF RoutingInv, RoutesOK, Lives
  <2>12. SlugOnce'
    <3> SUFFICES ASSUME ~overlapped' PROVE SlugOnce'
      BY DEF SlugOnce
    <3>1. /\ \A d, e \in Companies :
               Routed(d) /\ Routed(e) /\ KeyOf[route[d].slug] = KeyOf[route[e].slug] => d = e
          /\ \A o \in Threads : Creating(o) => o = t
          /\ \A d \in Companies : ~(Routed(d) /\ KeyOf[route[d].slug] = KeyOf[Work(t).slug])
      BY <1>1, <2>1 DEF RoutingInv, SlugOnce
    <3>2. \A o \in Threads : ~Creating(o)'
      BY <2>3, <3>1 DEF Moved, Creating, Work
    <3>3. \A d, e \in Companies :
             Routed(d)' /\ Routed(e)' /\ KeyOf[route'[d].slug] = KeyOf[route'[e].slug] => d = e
      BY <2>4, <2>6, <3>1 DEF Routed
    <3> QED BY <3>2, <3>3 DEF SlugOnce
  <2> QED BY <2>7, <2>9, <2>10, <2>11, <2>12 DEF RoutingInv
<1> QED BY <1>2, <1>3 DEF CommitRoute

----------------------------------------------------------------------------
(* Suspensions and time *)

LEMMA SetActiveStep ==
  ASSUME RoutingInv, NEW c \in Companies, NEW on \in BOOLEAN, SetActive(c, on)
  PROVE  RoutingInv'
<1>1. /\ Routed(c) /\ call' = call /\ tokens' = tokens
      /\ route' = [route EXCEPT ![c].active = on]
      /\ stopped' = IF on THEN stopped ELSE [stopped EXCEPT ![c] = clock]
      /\ UNCHANGED <<clock, home, bySlug, byCompany, overlapped>>
  BY DEF SetActive, caches
<1>2. /\ route \in [Companies -> RouteType] /\ stopped \in [Companies -> Nat] /\ clock \in Nat
      /\ \A d \in Companies : stopped[d] <= clock
  BY DEF RoutingInv, RoutingTypeOK, RoutesOK
<1>3. route[c] \in [exists : {TRUE}, slug : Slugs, url : Urls, active : BOOLEAN]
  <2>1. route[c] # NoRow
    BY <1>1 DEF NoRow, Routed
  <2> QED BY <1>2, <2>1 DEF RouteType
<1>4. PICK entry \in RouteType : /\ route' = [route EXCEPT ![c] = entry]
                              /\ entry.exists /\ entry.active = on
                              /\ entry.slug = route[c].slug /\ entry.url = route[c].url
  <2> DEFINE r == [route[c] EXCEPT !.active = on]
  <2>1. /\ r \in RouteType /\ r.exists /\ r.active = on
        /\ r.slug = route[c].slug /\ r.url = route[c].url
    BY <1>3 DEF RouteType
  <2>2. route' = [route EXCEPT ![c] = r]
    BY <1>1
  <2> HIDE DEF r
  <2> QED BY <2>1, <2>2
<1>5. /\ route'[c] = entry
      /\ \A d \in Companies : d # c => route'[d] = route[d]
      /\ route' \in [Companies -> RouteType]
  BY <1>2, <1>4
<1>6. /\ stopped' \in [Companies -> Nat]
      /\ ~on => stopped'[c] = clock
      /\ \A d \in Companies : d # c => stopped'[d] = stopped[d]
      /\ \A d \in Companies : stopped[d] <= stopped'[d] /\ stopped'[d] <= clock
  <2>1. CASE on
    BY <1>1, <1>2, <2>1
  <2>2. CASE ~on
    BY <1>1, <1>2, <2>2
  <2> QED BY <2>1, <2>2
<1>7. RoutingTypeOK'
  BY <1>1, <1>5, <1>6 DEF RoutingInv, RoutingTypeOK
<1>8. Grows
  <2>1. \A d \in Companies : Active(d) => Active(d)' \/ stopped'[d] = clock'
    BY <1>1, <1>4, <1>5, <1>6 DEF Active, Routed
  <2> QED BY <1>1, <1>2, <1>6, <2>1 DEF Grows
<1>9. ThreadsOK'
  BY <1>1, <1>7, <1>8, ThreadsSame DEF RoutingInv
<1>10. SlugCacheOK' /\ CompanyCacheOK'
  BY <1>1, <1>7, <1>8, CachesSame DEF RoutingInv
<1>11. \A d \in Companies : (Routed(d)' <=> Routed(d)) /\ route'[d].slug = route[d].slug
                             /\ route'[d].url = route[d].url
  BY <1>1, <1>4, <1>5 DEF Routed
<1>12. RoutesOK'
  BY <1>1, <1>6, <1>11 DEF RoutingInv, RoutesOK, Lives
<1>13. SlugOnce'
  <2>1. \A o \in Threads : Creating(o)' => Creating(o) /\ call'[o].work = call[o].work
    BY <1>1 DEF Creating, Work
  <2> QED BY <1>1, <1>11, <2>1, SlugsKept DEF RoutingInv
<1> QED BY <1>7, <1>9, <1>10, <1>12, <1>13 DEF RoutingInv

LEMMA ElapseStep ==
  ASSUME RoutingInv, Elapse
  PROVE  RoutingInv'
<1>1. /\ clock \in Nat /\ clock' = clock + 1
      /\ UNCHANGED <<route, home, bySlug, byCompany, tokens, call, stopped, overlapped>>
  BY DEF RoutingInv, RoutingTypeOK, Elapse, data, caches
<1>2. RoutingTypeOK'
  BY <1>1 DEF RoutingInv, RoutingTypeOK
<1>3. Grows
  BY <1>1 DEF RoutingInv, RoutingTypeOK, Grows, Active, Routed
<1>4. ThreadsOK' /\ SlugCacheOK' /\ CompanyCacheOK'
  BY <1>1, <1>2, <1>3, ThreadsSame, CachesSame DEF RoutingInv
<1>5. \A c \in Companies : stopped[c] \in Nat /\ stopped[c] <= clock
  BY DEF RoutingInv, RoutingTypeOK, RoutesOK
<1>6. RoutesOK'
  BY <1>1, <1>5 DEF RoutingInv, RoutesOK, Routed, Lives
<1>7. SlugOnce'
  <2>1. \A o \in Threads : Creating(o)' => Creating(o) /\ call'[o].work = call[o].work
    BY <1>1 DEF Creating, Work
  <2> QED BY <1>1, <2>1, SlugsKept DEF RoutingInv, Routed
<1> QED BY <1>2, <1>4, <1>6, <1>7 DEF RoutingInv

----------------------------------------------------------------------------
(* The theorems *)

LEMMA InitRouting == RoutingInit => RoutingInv
<1> SUFFICES ASSUME RoutingInit PROVE RoutingInv
  OBVIOUS
<1>1. PICK work \in RouteWork : call = [t \in Threads |-> Idle(work[t])]
  BY DEF RoutingInit
<1>2. \A t \in Threads : /\ call[t] \in CallType /\ call[t].step = "start"
                         /\ call[t].at = 0 /\ call[t].resolved = 0
  <2>1. \A t \in Threads : work[t] \in Works
    BY DEF Works
  <2> QED BY <1>1, <2>1 DEF Idle, CallType, Steps
<1>3. \A c \in DOMAIN Seeded : /\ c \in Companies
                               /\ Seeded[c] \in RouteType /\ Seeded[c].exists
                               /\ Seeded[c].url \in Urls
  BY SeededAssumption DEF RouteType
<1>4. route \in [Companies -> RouteType]
  BY <1>3 DEF RoutingInit, RouteType
<1>5. home \in [Companies -> HomeType]
  BY <1>3 DEF RoutingInit, HomeType, Nits
<1>6. RoutingTypeOK
  <2>1. call \in [Threads -> CallType]
    BY <1>1, <1>2
  <2> QED BY <1>4, <1>5, <2>1 DEF RoutingInit, RoutingTypeOK, EntryType
<1>7. ThreadsOK
  BY <1>2 DEF RoutingInit, ThreadsOK, ThreadOK
<1>8. SlugCacheOK /\ CompanyCacheOK
  BY DEF RoutingInit, SlugCacheOK, CompanyCacheOK, EntryOK, NoEntry
<1>9. \A c \in Companies : /\ Routed(c) => c \in DOMAIN Seeded
                           /\ c \in DOMAIN Seeded => route[c] = Seeded[c] /\ Lives(c, Seeded[c].url)
  BY DEF RoutingInit, Routed, NoRow, Lives
<1>10. RoutesOK
  <2>1. \A c \in Companies : stopped[c] <= clock
    BY DEF RoutingInit
  <2> QED BY <1>3, <1>9, <2>1 DEF RoutesOK
<1>11. SlugOnce
  <2>1. \A t \in Threads : ~Creating(t)
    BY <1>2 DEF Creating
  <2>2. ASSUME NEW c \in Companies, NEW d \in Companies, Routed(c), Routed(d),
               KeyOf[route[c].slug] = KeyOf[route[d].slug]
        PROVE  c = d
    <3>1. /\ c \in DOMAIN Seeded /\ route[c] = Seeded[c]
          /\ d \in DOMAIN Seeded /\ route[d] = Seeded[d]
      BY <1>9, <2>2
    <3> QED BY <2>2, <3>1, SeededAssumption
  <2> QED BY <2>1, <2>2 DEF SlugOnce
<1> QED BY <1>6, <1>7, <1>8, <1>10, <1>11 DEF RoutingInv

LEMMA NextRouting == RoutingInv /\ [RoutingNext]_routingVars => RoutingInv'
<1> SUFFICES ASSUME RoutingInv, [RoutingNext]_routingVars PROVE RoutingInv'
  OBVIOUS
<1>1. CASE UNCHANGED routingVars
  <2>1. UNCHANGED <<clock, route, home, bySlug, byCompany, tokens, call, stopped, overlapped>>
    BY <1>1 DEF routingVars
  <2>2. RoutingTypeOK' /\ Grows
    BY <2>1, SameWorld DEF RoutingInv, RoutingTypeOK
  <2>3. ThreadsOK' /\ SlugCacheOK' /\ CompanyCacheOK' /\ RoutesOK'
    BY <2>1, <2>2, ThreadsSame, CachesSame, RoutesSame DEF RoutingInv
  <2>4. \A o \in Threads : Creating(o)' => Creating(o) /\ call'[o].work = call[o].work
    BY <2>1 DEF Creating, Work
  <2>5. SlugOnce'
    BY <2>1, <2>4, SlugsKept DEF RoutingInv, Routed
  <2> QED BY <2>2, <2>3, <2>5 DEF RoutingInv
<1>2. CASE Elapse
  BY <1>2, ElapseStep
<1>3. ASSUME NEW t \in Threads, RouteStep(t) PROVE RoutingInv'
  BY <1>3, LookupSlugStep, QuerySlugStep, FillBySlugStep, LookupCompanyStep, QueryCompanyStep,
     FillByCompanyStep, ImpersonateStep, CheckSlugStep, CheckNitStep, CommitCompanyStep,
     CommitRouteStep, AbandonStep, NextRequestStep DEF RouteStep
<1>4. ASSUME NEW c \in Companies, NEW on \in BOOLEAN, SetActive(c, on) PROVE RoutingInv'
  BY <1>4, SetActiveStep
<1> QED BY <1>1, <1>2, <1>3, <1>4 DEF RoutingNext

\* The strengthened invariant of routing and provisioning.
THEOREM RoutingInvariant == RoutingSpec => []RoutingInv
<1>1. RoutingInit => RoutingInv
  BY InitRouting
<1>2. RoutingInv /\ [RoutingNext]_routingVars => RoutingInv'
  BY NextRouting
<1> QED BY <1>1, <1>2, PTL DEF RoutingSpec

\* Routes, cached routes and opened sessions lead to a database that holds the company, for
\* any number of companies, threads and databases (companies.py:190-278, resolver.py:46-147).
THEOREM RoutesHome == RoutingSpec => []RoutesLeadHome
<1>1. RoutingInv => RoutesLeadHome
  <2> SUFFICES ASSUME RoutingInv PROVE RoutesLeadHome
    OBVIOUS
  <2>1. \A c \in Companies : Routed(c) => Lives(c, route[c].url)
    BY RouteFacts
  <2>2. \A k \in Keys : bySlug[k].url # NoUrl => Lives(bySlug[k].company, bySlug[k].url)
    BY SlugEntry
  <2>3. \A c \in Companies : byCompany[c].url # NoUrl => Lives(c, byCompany[c].url)
    BY CompanyEntry
  <2>4. \A t \in Threads : call[t].step \in {"fill", "served"} =>
           Lives(call[t].company, call[t].url)
    BY DEF RoutingInv, ThreadsOK, ThreadOK
  <2> QED BY <2>1, <2>2, <2>3, <2>4 DEF RoutesLeadHome
<1> QED BY <1>1, RoutingInvariant, PTL

\* No login is served a time to live or more after the suspension of its company, however
\* long a lookup pauses (resolver.py:96-127).
THEOREM LoginsWhileActive == RoutingSpec => []LoginWasActive
<1>1. RoutingInv => LoginWasActive
  BY DEF RoutingInv, ThreadsOK, ThreadOK, LoginWasActive, At, Work
<1> QED BY <1>1, RoutingInvariant, PTL

\* Only creations that ran into each other put two companies under one slug
\* (companies.py:200-205).
THEOREM SlugsApart == RoutingSpec => []OneRoutePerSlug
<1>1. RoutingInv => OneRoutePerSlug
  BY DEF RoutingInv, SlugOnce, OneRoutePerSlug
<1> QED BY <1>1, RoutingInvariant, PTL

-----------------------------------------------------------------------------

(***************************************************************************)
(* For any companies, requests, connections and keys: what the triggers    *)
(* leave in a shared database, and what the row policies show of it and    *)
(* let through, stays within one company.                                  *)
(*                                                                         *)
(* LinksApart is kept by every statement on its own account, because what  *)
(* decides the company of a row (its kind, its company and the row it      *)
(* hangs from) is never rewritten.  ShownOwn is not inductive: it needs    *)
(* ContextOK, that a connection carries the context of the one session     *)
(* that holds it, or none.                                                 *)
(***************************************************************************)

\* The table as a value: the operators of the model, for any table t.
RowsIn(t) == {i \in Ids : t[i] # Absent}
OwnerIn(t, r) == IF IsChild(r.kind) THEN t[r.home].company ELSE r.company
FitsIn(t, r) ==
  /\ r.kind \in Kinds
  /\ IF IsChild(r.kind)
     THEN /\ r.home \in RowsIn(t) /\ t[r.home].kind = HomeKind[r.kind]
          /\ r.company = NoTenant
     ELSE r.home = NoHome /\ r.company \in Tenants
  /\ r.refs \subseteq RowsIn(t)
  /\ \A j \in r.refs : t[j].kind \in RefKinds[r.kind]
  /\ r.kind \in {"order", "line"} => r.refs # {}
ApartIn(t) ==
  \A i \in RowsIn(t) : /\ FitsIn(t, t[i])
                     /\ \A j \in t[i].refs : OwnerIn(t, t[j]) = OwnerIn(t, t[i])

Tables == [Ids -> Record \cup {Absent}]

IsolationTypeOK ==
  /\ table \in Tables
  /\ ctx \in [Pool -> [all : BOOLEAN, company : Tenants \cup {NoTenant}]]
  /\ client \in [Clients -> [open : BOOLEAN, token : Bearer, conn : Pool \cup {NoConnection}]]
  /\ bypass \in BOOLEAN

\* A connection has at most one holder, and the context of its holder's token or none.
ContextOK ==
  /\ \A c \in Pool : FreeConnection(c) => ctx[c] = Blank
  /\ \A q \in Clients : Holds(q) =>
       ctx[client[q].conn] \in {Blank, apply_rls_session_context(client[q].token)}
  /\ \A p, q \in Clients :
       client[p].conn = client[q].conn /\ client[p].conn # NoConnection => p = q
  /\ \A q \in Clients : ~client[q].open => client[q] = NoSession

IsolationInv == IsolationTypeOK /\ LinksApart /\ ContextOK

-----------------------------------------------------------------------------
(* Kinds *)

\* RowsIn hang from rows that hang from nothing, nothing refers to a line or hangs from
\* one, and what is referred to hangs from nothing either.
LEMMA KindFacts ==
  /\ \A k \in Kinds : IsChild(k) <=> k \in {"entry", "movement"}
  /\ \A k \in Kinds : IsChild(k) => HomeKind[k] \in Kinds /\ ~IsChild(HomeKind[k]) /\ HomeKind[k] # "line"
  /\ \A k \in Kinds : \A r \in RefKinds[k] : r \in Kinds /\ ~IsChild(r) /\ r # "line"
  /\ "absent" \notin Kinds
BY DEF Kinds, IsChild, HomeKind, RefKinds

\* A row whose kind is one of the table's is there.
LEMMA RecordsArePresent == ASSUME NEW r, r.kind \in Kinds PROVE r # Absent
BY DEF Kinds, Absent

\* The company of a row that fits is a company.
LEMMA OwnersAreTenants ==
  ASSUME NEW t, ApartIn(t), NEW r, FitsIn(t, r)
  PROVE  OwnerIn(t, r) \in Tenants
<1>1. CASE IsChild(r.kind)
  <2>1. r.home \in RowsIn(t) /\ t[r.home].kind = HomeKind[r.kind] /\ r.kind \in Kinds
    BY <1>1 DEF FitsIn
  <2>2. FitsIn(t, t[r.home]) /\ ~IsChild(t[r.home].kind)
    BY <2>1, <1>1, KindFacts DEF ApartIn
  <2> QED BY <2>2, <1>1 DEF FitsIn, OwnerIn
<1>2. CASE ~IsChild(r.kind)
  BY <1>2 DEF FitsIn, OwnerIn
<1> QED BY <1>1, <1>2

\* What a row hangs from and refers to decides whether it fits and whose it is.
LEMMA SameCompany ==
  ASSUME NEW t, NEW u, NEW r, FitsIn(t, r),
         IsChild(r.kind) => r.home \in RowsIn(u),
         r.refs \subseteq RowsIn(u),
         \A j \in RowsIn(t) \cap RowsIn(u) : u[j].kind = t[j].kind /\ u[j].company = t[j].company
  PROVE  FitsIn(u, r) /\ OwnerIn(u, r) = OwnerIn(t, r)
<1>1. IsChild(r.kind) => r.home \in RowsIn(t) \cap RowsIn(u)
  BY DEF FitsIn
<1>2. r.refs \subseteq RowsIn(t) \cap RowsIn(u)
  BY DEF FitsIn
<1>3. \A j \in r.refs : u[j].kind \in RefKinds[r.kind]
  BY <1>2 DEF FitsIn
<1>4. FitsIn(u, r)
  BY <1>1, <1>2, <1>3 DEF FitsIn
<1>5. OwnerIn(u, r) = OwnerIn(t, r)
  BY <1>1 DEF OwnerIn
<1> QED BY <1>4, <1>5

\* An accepted insertion keeps companies apart.
LEMMA InsertApart ==
  ASSUME NEW t \in Tables, ApartIn(t), NEW f \in Ids, t[f] = Absent,
         NEW r, FitsIn(t, r), \A j \in r.refs : t[j].company = OwnerIn(t, r)
  PROVE  ApartIn([t EXCEPT ![f] = r]) /\ OwnerIn([t EXCEPT ![f] = r], r) = OwnerIn(t, r)
<1> DEFINE u == [t EXCEPT ![f] = r]
<1>1. u[f] = r /\ \A j \in Ids : j # f => u[j] = t[j]
  BY DEF Tables
<1>2. \A j \in RowsIn(t) : j \in RowsIn(u) /\ u[j] = t[j]
  BY <1>1 DEF RowsIn
<1>3. \A j \in RowsIn(u) : j = f \/ j \in RowsIn(t)
  BY <1>1 DEF RowsIn
<1> HIDE DEF u
<1>4. ASSUME NEW x, FitsIn(t, x) PROVE FitsIn(u, x) /\ OwnerIn(u, x) = OwnerIn(t, x)
  <2>1. IsChild(x.kind) => x.home \in RowsIn(u)
    BY <1>2, <1>4 DEF FitsIn
  <2>2. x.refs \subseteq RowsIn(u)
    BY <1>2, <1>4 DEF FitsIn
  <2> QED BY <2>1, <2>2, <1>2, <1>4, SameCompany
<1>5. ASSUME NEW i \in RowsIn(u)
      PROVE  FitsIn(u, u[i]) /\ \A j \in u[i].refs : OwnerIn(u, u[j]) = OwnerIn(u, u[i])
  <2>1. FitsIn(t, u[i]) /\ \A j \in u[i].refs : j \in RowsIn(t) /\ OwnerIn(t, t[j]) = OwnerIn(t, u[i])
    <3>1. CASE i = f
      <4>1. FitsIn(t, u[i])
        BY <3>1, <1>1
      <4>2. ASSUME NEW j \in r.refs PROVE j \in RowsIn(t) /\ OwnerIn(t, t[j]) = OwnerIn(t, r)
        <5>1. j \in RowsIn(t) /\ t[j].kind \in RefKinds[r.kind] /\ r.kind \in Kinds
          BY <4>2 DEF FitsIn
        <5>2. ~IsChild(t[j].kind)
          BY <5>1, KindFacts
        <5> QED BY <5>1, <5>2, <4>2 DEF OwnerIn
      <4> QED BY <4>1, <4>2, <3>1, <1>1
    <3>2. CASE i # f
      <4>1. i \in RowsIn(t) /\ u[i] = t[i]
        BY <3>2, <1>2, <1>3
      <4>2. FitsIn(t, t[i]) /\ \A j \in t[i].refs : OwnerIn(t, t[j]) = OwnerIn(t, t[i])
        BY <4>1 DEF ApartIn
      <4> QED BY <4>1, <4>2 DEF FitsIn
    <3> QED BY <3>1, <3>2
  <2>2. FitsIn(u, u[i]) /\ OwnerIn(u, u[i]) = OwnerIn(t, u[i])
    BY <2>1, <1>4
  <2>3. ASSUME NEW j \in u[i].refs PROVE OwnerIn(u, u[j]) = OwnerIn(u, u[i])
    <3>1. j \in RowsIn(t) /\ OwnerIn(t, t[j]) = OwnerIn(t, u[i])
      BY <2>1, <2>3
    <3>2. u[j] = t[j] /\ FitsIn(t, t[j])
      BY <3>1, <1>2 DEF ApartIn
    <3> QED BY <3>1, <3>2, <2>2, <1>4
  <2> QED BY <2>2, <2>3
<1>6. ApartIn(u)
  BY <1>5 DEF ApartIn
<1> QED BY <1>6, <1>4 DEF u

\* So does a change of what a row refers to.
LEMMA RelinkApart ==
  ASSUME NEW t \in Tables, ApartIn(t), NEW f \in RowsIn(t), NEW refs \in SUBSET Ids,
         FitsIn(t, [t[f] EXCEPT !.refs = refs]),
         \A j \in refs : t[j].company = OwnerIn(t, [t[f] EXCEPT !.refs = refs])
  PROVE  /\ ApartIn([t EXCEPT ![f] = [t[f] EXCEPT !.refs = refs]])
         /\ OwnerIn([t EXCEPT ![f] = [t[f] EXCEPT !.refs = refs]], [t[f] EXCEPT !.refs = refs])
              = OwnerIn(t, [t[f] EXCEPT !.refs = refs])
<1> DEFINE r == [t[f] EXCEPT !.refs = refs]
           u == [t EXCEPT ![f] = r]
<1>0. f \in Ids /\ t[f] \in Record
  BY DEF RowsIn, Tables
<1>1. u[f] = r /\ \A j \in Ids : j # f => u[j] = t[j]
  BY <1>0 DEF Tables
<1>2. r.kind = t[f].kind /\ r.company = t[f].company /\ r.home = t[f].home /\ r.refs = refs
  BY <1>0 DEF Record
<1> HIDE DEF r
<1>3. r # Absent
  BY RecordsArePresent DEF FitsIn, r
<1>4. RowsIn(u) = RowsIn(t)
  BY <1>1, <1>3, <1>0 DEF RowsIn
<1>5. \A j \in RowsIn(t) : u[j].kind = t[j].kind /\ u[j].company = t[j].company
                         /\ OwnerIn(t, u[j]) = OwnerIn(t, t[j])
  BY <1>1, <1>2, <1>0 DEF RowsIn, OwnerIn
<1> HIDE DEF u
<1>6. ASSUME NEW x, FitsIn(t, x) PROVE FitsIn(u, x) /\ OwnerIn(u, x) = OwnerIn(t, x)
  <2>1. (IsChild(x.kind) => x.home \in RowsIn(u)) /\ x.refs \subseteq RowsIn(u)
    BY <1>4, <1>6 DEF FitsIn
  <2> QED BY <2>1, <1>4, <1>5, <1>6, SameCompany
<1>7. ASSUME NEW i \in RowsIn(u)
      PROVE  FitsIn(t, u[i]) /\ \A j \in u[i].refs : j \in RowsIn(t) /\ OwnerIn(t, t[j]) = OwnerIn(t, u[i])
  <2>1. CASE i = f
    <3>1. FitsIn(t, r) /\ u[i] = r
      BY <2>1, <1>1 DEF r
    <3>2. ASSUME NEW j \in r.refs PROVE j \in RowsIn(t) /\ OwnerIn(t, t[j]) = OwnerIn(t, r)
      <4>1. j \in RowsIn(t) /\ t[j].kind \in RefKinds[r.kind] /\ r.kind \in Kinds
        BY <3>1, <3>2 DEF FitsIn
      <4>2. ~IsChild(t[j].kind)
        BY <4>1, KindFacts
      <4>3. t[j].company = OwnerIn(t, r)
        BY <3>2, <1>2 DEF r
      <4> QED BY <4>1, <4>2, <4>3 DEF OwnerIn
    <3> QED BY <3>1, <3>2
  <2>2. CASE i # f
    <3>1. i \in RowsIn(t) /\ u[i] = t[i]
      BY <2>2, <1>1, <1>4 DEF RowsIn
    <3>2. FitsIn(t, t[i]) /\ \A j \in t[i].refs : OwnerIn(t, t[j]) = OwnerIn(t, t[i])
      BY <3>1 DEF ApartIn
    <3> QED BY <3>1, <3>2 DEF FitsIn
  <2> QED BY <2>1, <2>2
<1>8. ASSUME NEW i \in RowsIn(u)
      PROVE  FitsIn(u, u[i]) /\ \A j \in u[i].refs : OwnerIn(u, u[j]) = OwnerIn(u, u[i])
  <2>1. FitsIn(u, u[i]) /\ OwnerIn(u, u[i]) = OwnerIn(t, u[i])
    BY <1>6, <1>7
  <2>2. ASSUME NEW j \in u[i].refs PROVE OwnerIn(u, u[j]) = OwnerIn(u, u[i])
    <3>1. j \in RowsIn(t) /\ OwnerIn(t, t[j]) = OwnerIn(t, u[i])
      BY <1>7, <2>2
    <3>2. FitsIn(t, u[j])
      BY <3>1, <1>4, <1>7
    <3>3. OwnerIn(u, u[j]) = OwnerIn(t, u[j]) /\ OwnerIn(t, u[j]) = OwnerIn(t, t[j])
      BY <3>1, <3>2, <1>5, <1>6
    <3> QED BY <3>1, <3>3, <2>1
  <2> QED BY <2>1, <2>2
<1>9. ApartIn(u)
  BY <1>8 DEF ApartIn
<1>10. OwnerIn(u, r) = OwnerIn(t, r)
  BY <1>6 DEF r
<1> QED BY <1>9, <1>10 DEF u, r

\* So does a deletion: nothing that is left hangs from a deleted row or refers to one.
LEMMA DeleteApart ==
  ASSUME NEW t \in Tables, ApartIn(t), NEW f \in RowsIn(t), NEW lines,
         lines = {j \in RowsIn(t) : t[j].kind = "line" /\ f \in t[j].refs},
         \A j \in RowsIn(t) \ lines : f \notin t[j].refs /\ t[j].home # f
  PROVE  ApartIn([j \in Ids |-> IF j = f \/ j \in lines THEN Absent ELSE t[j]])
<1> DEFINE u == [j \in Ids |-> IF j = f \/ j \in lines THEN Absent ELSE t[j]]
<1>1. RowsIn(u) = RowsIn(t) \ ({f} \cup lines)
  BY DEF RowsIn
<1>2. \A j \in RowsIn(u) : j \in RowsIn(t) /\ u[j] = t[j]
  BY DEF RowsIn
<1> HIDE DEF u
<1>3. ASSUME NEW i \in RowsIn(u)
      PROVE  /\ FitsIn(u, t[i]) /\ OwnerIn(u, t[i]) = OwnerIn(t, t[i])
             /\ t[i].refs \subseteq RowsIn(u)
  <2>1. i \in RowsIn(t) \ lines /\ FitsIn(t, t[i])
    BY <1>1, <1>3 DEF ApartIn
  <2>2. t[i].refs \subseteq RowsIn(u)
    <3>1. ASSUME NEW j \in t[i].refs PROVE j \in RowsIn(u)
      <4>1. j \in RowsIn(t) /\ t[j].kind \in RefKinds[t[i].kind] /\ t[i].kind \in Kinds
        BY <2>1, <3>1 DEF FitsIn
      <4>2. t[j].kind # "line" /\ j # f
        BY <4>1, <2>1, <3>1, KindFacts
      <4> QED BY <4>1, <4>2, <1>1
    <3> QED BY <3>1
  <2>3. IsChild(t[i].kind) => t[i].home \in RowsIn(u)
    <3>1. SUFFICES ASSUME IsChild(t[i].kind) PROVE t[i].home \in RowsIn(u)
      OBVIOUS
    <3>2. t[i].home \in RowsIn(t) /\ t[t[i].home].kind = HomeKind[t[i].kind] /\ t[i].kind \in Kinds
      BY <2>1, <3>1 DEF FitsIn
    <3>3. t[t[i].home].kind # "line" /\ t[i].home # f
      BY <3>1, <3>2, <2>1, KindFacts
    <3> QED BY <3>2, <3>3, <1>1
  <2>4. \A j \in RowsIn(u) : u[j] = t[j]
    BY <1>2
  <2> QED BY <2>1, <2>2, <2>3, <2>4, SameCompany
<1>4. ASSUME NEW i \in RowsIn(u)
      PROVE  FitsIn(u, u[i]) /\ \A j \in u[i].refs : OwnerIn(u, u[j]) = OwnerIn(u, u[i])
  <2>1. u[i] = t[i] /\ i \in RowsIn(t)
    BY <1>2, <1>4
  <2>2. ASSUME NEW j \in t[i].refs PROVE OwnerIn(u, u[j]) = OwnerIn(u, t[i])
    <3>1. j \in RowsIn(u) /\ u[j] = t[j]
      BY <1>2, <1>3, <1>4, <2>2
    <3>2. OwnerIn(t, t[j]) = OwnerIn(t, t[i])
      BY <2>1, <2>2 DEF ApartIn
    <3> QED BY <3>1, <3>2, <1>3, <1>4
  <2> QED BY <2>1, <2>2, <1>3, <1>4
<1> QED BY <1>4 DEF ApartIn, u
-----------------------------------------------------------------------------
(* The table as a state *)

\* The operators of the model are those above, over the table.
LEMMA TableOperators ==
  /\ Present = RowsIn(table)
  /\ \A r : Owner(r) = OwnerIn(table, r)
  /\ \A r : WellFormed(r) <=> FitsIn(table, r)
  /\ LinksApart <=> ApartIn(table)
<1>1. Present = RowsIn(table)
  BY DEF Present, RowsIn
<1>2. \A r : Owner(r) = OwnerIn(table, r)
  BY DEF Owner, OwnerIn
<1>3. \A r : WellFormed(r) <=> FitsIn(table, r)
  BY <1>1 DEF WellFormed, FitsIn
<1> QED BY <1>1, <1>2, <1>3 DEF LinksApart, ApartIn

\* The same after a step.
LEMMA TableOperatorsAfter ==
  /\ Present' = RowsIn(table')
  /\ LinksApart' <=> ApartIn(table')
  /\ \A i \in Ids : Owner(table[i])' = OwnerIn(table', table'[i])
<1>1. Present' = RowsIn(table')
  BY DEF Present, RowsIn
<1>2. \A i \in Ids : Owner(table[i])' = OwnerIn(table', table'[i])
  BY DEF Owner, OwnerIn
<1>3. LinksApart' <=> ApartIn(table')
  BY <1>1 DEF LinksApart, ApartIn, WellFormed, FitsIn, Owner, OwnerIn
<1> QED BY <1>1, <1>2, <1>3

\* What a request that does not work for the console is shown, or may write, is of the
\* company of its token.
LEMMA OwnContext ==
  ASSUME IsolationInv, ~bypass, NEW q \in Clients, Holds(q), client[q].token.typ # "platform",
         NEW r, WellFormed(r), _tenant_visible_sql(client[q].conn, Owner(r))
  PROVE  client[q].token.typ = "tenant" /\ Owner(r) = client[q].token.company
<1> DEFINE c == client[q].conn
<1>1. Owner(r) \in Tenants
  BY TableOperators, OwnersAreTenants DEF IsolationInv
<1>2. ctx[c] \in {Blank, apply_rls_session_context(client[q].token)}
  BY DEF IsolationInv, ContextOK
<1>3. ctx[c].all \/ ctx[c].company = Owner(r)
  BY DEF _tenant_visible_sql
<1>4. ctx[c] # Blank
  BY <1>1, <1>3, NoTenantAssumption DEF Blank
<1>5. client[q].token.typ = "tenant"
  BY <1>2, <1>4 DEF apply_rls_session_context
<1>6. ctx[c] = [all |-> FALSE, company |-> client[q].token.company]
  BY <1>2, <1>4, <1>5 DEF apply_rls_session_context
<1> QED BY <1>3, <1>5, <1>6

-----------------------------------------------------------------------------
(* Connections *)

\* Every step that ends a transaction leaves its connection blank and free.
LEMMA EndKeepsContext ==
  ASSUME IsolationTypeOK, ContextOK, NEW q \in Clients, Holds(q), EndTransaction(q), bypass' = bypass
  PROVE  /\ ContextOK'
         /\ ctx' \in [Pool -> [all : BOOLEAN, company : Tenants \cup {NoTenant}]]
         /\ client' \in [Clients -> [open : BOOLEAN, token : Bearer, conn : Pool \cup {NoConnection}]]
<1> DEFINE c == client[q].conn
<1>1. c \in Pool /\ client[q].open
  BY DEF IsolationTypeOK, Holds
<1>2. /\ ctx'[c] = Blank /\ \A d \in Pool : d # c => ctx'[d] = ctx[d]
      /\ ctx' \in [Pool -> [all : BOOLEAN, company : Tenants \cup {NoTenant}]]
  BY <1>1 DEF EndTransaction, IsolationTypeOK, Blank
<1>3. /\ client'[q].open = client[q].open /\ client'[q].token = client[q].token
      /\ client'[q].conn = NoConnection
      /\ \A p \in Clients : p # q => client'[p] = client[p]
      /\ client' \in [Clients -> [open : BOOLEAN, token : Bearer, conn : Pool \cup {NoConnection}]]
  BY DEF EndTransaction, IsolationTypeOK
<1>4. \A d \in Pool : FreeConnection(d)' => ctx'[d] = Blank
  <2>1. SUFFICES ASSUME NEW d \in Pool, FreeConnection(d)', d # c PROVE ctx'[d] = Blank
    BY <1>2
  <2>2. FreeConnection(d)
    BY <2>1, <1>3 DEF FreeConnection
  <2> QED BY <2>1, <2>2, <1>2 DEF ContextOK
<1>5. \A p \in Clients : Holds(p)' =>
        ctx'[client'[p].conn] \in {Blank, apply_rls_session_context(client'[p].token)}
  <2>1. SUFFICES ASSUME NEW p \in Clients, Holds(p)'
                 PROVE  ctx'[client'[p].conn] \in {Blank, apply_rls_session_context(client'[p].token)}
    OBVIOUS
  <2>2. p # q /\ client'[p] = client[p]
    BY <2>1, <1>3 DEF Holds
  <2>3. Holds(p) /\ client[p].conn # c /\ client[p].conn \in Pool
    BY <2>1, <2>2 DEF Holds, ContextOK, IsolationTypeOK
  <2>4. ctx'[client'[p].conn] = ctx[client[p].conn]
    BY <2>2, <2>3, <1>2
  <2> QED BY <2>2, <2>3, <2>4 DEF ContextOK
<1>6. \A p, o \in Clients :
        client'[p].conn = client'[o].conn /\ client'[p].conn # NoConnection => p = o
  BY <1>3 DEF ContextOK
<1>7. \A p \in Clients : ~client'[p].open => client'[p] = NoSession
  BY <1>1, <1>3 DEF ContextOK
<1>8. ContextOK'
  BY <1>4, <1>5, <1>6, <1>7 DEF ContextOK
<1> QED BY <1>2, <1>3, <1>8

\* A statement that writes keeps the invariant if what it leaves is still apart.
LEMMA WriteKeeps ==
  ASSUME IsolationInv, NEW q \in Clients, Holds(q), EndTransaction(q), bypass' = bypass,
         table' \in Tables, ApartIn(table')
  PROVE  IsolationInv'
<1>1. LinksApart'
  BY TableOperatorsAfter
<1>2. ContextOK' /\ IsolationTypeOK'
  BY EndKeepsContext DEF IsolationInv, IsolationTypeOK
<1> QED BY <1>1, <1>2 DEF IsolationInv

\* Steps that only take or give back a connection leave every row as it is.
LEMMA RowsStayApart ==
  ASSUME LinksApart, table' = table PROVE LinksApart'
BY TableOperators, TableOperatorsAfter

-----------------------------------------------------------------------------
(* Statements *)

\* An inserted row is new, fits, is within what the request may write, and stays where it is.
LEMMA InsertStep ==
  ASSUME IsolationInv, NEW q \in Clients, Insert(q)
  PROVE  /\ table' \in Tables /\ ApartIn(table')
         /\ \A i \in Ids : table'[i] # table[i] =>
              /\ i \notin Present
              /\ WellFormed(table'[i])
              /\ _tenant_visible_sql(client[q].conn, OwnerIn(table, table'[i]))
              /\ OwnerIn(table', table'[i]) = OwnerIn(table, table'[i])
<1>1. PICK kind \in Kinds, k \in Tenants \cup {NoTenant}, house \in Present \cup {NoHome} :
        \E refs \in SUBSET Present :
          LET rec == [kind |-> kind, company |-> k, home |-> house, refs |-> refs]
          IN Accepted(q, rec) /\ table' = [table EXCEPT ![FreshId] = rec]
  BY DEF Insert
<1>2. PICK refs \in SUBSET Present :
          LET rec == [kind |-> kind, company |-> k, home |-> house, refs |-> refs]
          IN Accepted(q, rec) /\ table' = [table EXCEPT ![FreshId] = rec]
  BY <1>1
<1> DEFINE r == [kind |-> kind, company |-> k, home |-> house, refs |-> refs]
           f == FreshId
<1>3. f \in Ids /\ f \notin Present /\ table[f] = Absent
  BY DEF Insert, FreshId, Present
<1>4. r \in Record
  BY DEF Record, Present
<1>5. Accepted(q, r) /\ table' = [table EXCEPT ![f] = r]
  BY <1>2
<1> HIDE DEF r, f
<1>6. FitsIn(table, r) /\ \A j \in r.refs : table[j].company = OwnerIn(table, r)
  BY <1>5, TableOperators DEF Accepted, Trigger
<1>7. table \in Tables /\ ApartIn(table)
  BY TableOperators DEF IsolationInv, IsolationTypeOK
<1>8. ApartIn(table') /\ OwnerIn(table', r) = OwnerIn(table, r)
  BY <1>3, <1>5, <1>6, <1>7, InsertApart
<1>9. table' \in Tables
  BY <1>3, <1>4, <1>5, <1>7 DEF Tables
<1>10. \A i \in Ids : table'[i] # table[i] => i = f /\ table'[i] = r
  BY <1>3, <1>5, <1>7 DEF Tables
<1>11. _tenant_visible_sql(client[q].conn, OwnerIn(table, r)) /\ WellFormed(r)
  BY <1>5, TableOperators DEF Accepted
<1> QED BY <1>3, <1>8, <1>9, <1>10, <1>11

\* A changed row was visible, and what it has become is within what the request may write.
LEMMA RelinkStep ==
  ASSUME IsolationInv, NEW q \in Clients, Relink(q)
  PROVE  /\ table' \in Tables /\ ApartIn(table')
         /\ \A i \in Ids : table'[i] # table[i] =>
              /\ i \in Visible(q)
              /\ WellFormed(table'[i])
              /\ _tenant_visible_sql(client[q].conn, OwnerIn(table, table'[i]))
              /\ OwnerIn(table', table'[i]) = OwnerIn(table, table'[i])
<1>1. PICK f \in Visible(q), refs \in SUBSET Present :
          LET rec == [table[f] EXCEPT !.refs = refs]
          IN Accepted(q, rec) /\ table' = [table EXCEPT ![f] = rec]
  BY DEF Relink
<1> DEFINE r == [table[f] EXCEPT !.refs = refs]
<1>2. table \in Tables /\ ApartIn(table)
  BY TableOperators DEF IsolationInv, IsolationTypeOK
<1>3. f \in Ids /\ f \in RowsIn(table) /\ refs \in SUBSET Ids /\ table[f] \in Record
  BY <1>2, TableOperators DEF Visible, Present, Tables
<1>4. r \in Record /\ r.refs = refs
  BY <1>3 DEF Record
<1>5. Accepted(q, r) /\ table' = [table EXCEPT ![f] = r]
  BY <1>1
<1>6. FitsIn(table, r) /\ \A j \in refs : table[j].company = OwnerIn(table, r)
  <2> HIDE DEF r
  <2> QED BY <1>4, <1>5, TableOperators DEF Accepted, Trigger
<1>7. ApartIn(table') /\ OwnerIn(table', r) = OwnerIn(table, r)
  BY <1>2, <1>3, <1>5, <1>6, RelinkApart
<1> HIDE DEF r
<1>9. table' \in Tables
  BY <1>2, <1>3, <1>4, <1>5 DEF Tables
<1>10. \A i \in Ids : table'[i] # table[i] => i = f /\ table'[i] = r
  BY <1>2, <1>3, <1>5 DEF Tables
<1>11. _tenant_visible_sql(client[q].conn, OwnerIn(table, r)) /\ WellFormed(r)
  BY <1>5, TableOperators DEF Accepted
<1> QED BY <1>1, <1>7, <1>9, <1>10, <1>11

\* A deleted row was visible, and so was every line that goes with it.
LEMMA DeleteStep ==
  ASSUME IsolationInv, NEW q \in Clients, Delete(q)
  PROVE  /\ table' \in Tables /\ ApartIn(table')
         /\ \A i \in Ids : table'[i] # table[i] =>
              /\ i \notin RowsIn(table')
              /\ i \in Present /\ _tenant_visible_sql(client[q].conn, Owner(table[i]))
<1>1. PICK f \in Visible(q) :
       LET lines == {j \in Present : table[j].kind = "line" /\ f \in table[j].refs}
       IN /\ \A j \in Present \ lines : f \notin table[j].refs /\ table[j].home # f
          /\ table' = [j \in Ids |-> IF j = f \/ j \in lines THEN Absent ELSE table[j]]
  BY DEF Delete
<1> DEFINE lines == {j \in Present : table[j].kind = "line" /\ f \in table[j].refs}
<1>2. table \in Tables /\ ApartIn(table) /\ Present = RowsIn(table)
  BY TableOperators DEF IsolationInv, IsolationTypeOK
<1>3. f \in RowsIn(table) /\ _tenant_visible_sql(client[q].conn, Owner(table[f]))
  BY <1>2 DEF Visible
<1>4. ApartIn(table')
  BY <1>1, <1>2, <1>3, DeleteApart
<1>5. table' \in Tables
  BY <1>1, <1>2 DEF Tables
<1>6. \A j \in lines : Owner(table[j]) = Owner(table[f]) /\ j \in Present
  BY <1>2, TableOperators DEF ApartIn
<1>7. \A i \in Ids : table'[i] # table[i] => (i = f \/ i \in lines) /\ table'[i] = Absent
  BY <1>1
<1>8. \A i \in Ids : table'[i] = Absent => i \notin RowsIn(table')
  BY DEF RowsIn
<1> QED BY <1>2, <1>3, <1>4, <1>5, <1>6, <1>7, <1>8

-----------------------------------------------------------------------------
(* The invariant *)

\* The empty database satisfies the invariant.
LEMMA InitHolds == IsolationInit => IsolationInv
<1> SUFFICES ASSUME IsolationInit PROVE IsolationInv
  OBVIOUS
<1>1. IsolationTypeOK
  BY DEF IsolationInit, IsolationTypeOK, Tables, Blank, NoSession, NoBearer, Bearer
<1>2. LinksApart
  BY DEF IsolationInit, LinksApart, Present
<1>3. ContextOK
  BY DEF IsolationInit, ContextOK, Holds, NoSession
<1> QED BY <1>1, <1>2, <1>3 DEF IsolationInv

\* A session of get_db takes a free connection and gives it its own context.
LEMMA OpenStep ==
  ASSUME IsolationInv, NEW q \in Clients, OpenSession(q) PROVE IsolationInv'
<1>1. PICK token \in Bearer, c \in Pool :
       /\ FreeConnection(c)
       /\ client' = [client EXCEPT ![q] = [open |-> TRUE, token |-> token, conn |-> c]]
       /\ ctx' = [ctx EXCEPT ![c] = apply_rls_session_context(token)]
  BY DEF OpenSession
<1> DEFINE given == apply_rls_session_context(token)
<1>2. given \in [all : BOOLEAN, company : Tenants \cup {NoTenant}]
  BY DEF apply_rls_session_context, Blank, Bearer
<1> HIDE DEF given
<1>3. IsolationTypeOK /\ ContextOK /\ table' = table /\ bypass' = bypass
  BY DEF IsolationInv, OpenSession
<1>4. /\ ctx'[c] = given /\ \A d \in Pool : d # c => ctx'[d] = ctx[d]
      /\ ctx' \in [Pool -> [all : BOOLEAN, company : Tenants \cup {NoTenant}]]
  BY <1>1, <1>2, <1>3 DEF IsolationTypeOK, given
<1>5. /\ client'[q] = [open |-> TRUE, token |-> token, conn |-> c]
      /\ \A p \in Clients : p # q => client'[p] = client[p]
      /\ client' \in [Clients -> [open : BOOLEAN, token : Bearer, conn : Pool \cup {NoConnection}]]
  BY <1>1, <1>3 DEF IsolationTypeOK
<1>6. \A p \in Clients : client[p].conn # c
  BY <1>1 DEF FreeConnection
<1>7. client[q].conn = NoConnection
  BY <1>3 DEF ContextOK, NoSession, OpenSession
<1>8. \A d \in Pool : FreeConnection(d)' => ctx'[d] = Blank
  <2>1. SUFFICES ASSUME NEW d \in Pool, FreeConnection(d)' PROVE ctx'[d] = Blank
    OBVIOUS
  <2>2. d # c /\ FreeConnection(d)
    BY <2>1, <1>5, <1>7, NoConnectionAssumption DEF FreeConnection
  <2> QED BY <2>2, <1>3, <1>4 DEF ContextOK
<1>9. \A p \in Clients : Holds(p)' =>
        ctx'[client'[p].conn] \in {Blank, apply_rls_session_context(client'[p].token)}
  <2>1. SUFFICES ASSUME NEW p \in Clients, Holds(p)'
                 PROVE  ctx'[client'[p].conn] \in {Blank, apply_rls_session_context(client'[p].token)}
    OBVIOUS
  <2>2. CASE p = q
    BY <2>2, <1>4, <1>5 DEF given
  <2>3. CASE p # q
    <3>1. Holds(p) /\ client'[p] = client[p] /\ client[p].conn # c /\ client[p].conn \in Pool
      BY <2>1, <2>3, <1>3, <1>5, <1>6 DEF Holds, IsolationTypeOK
    <3> QED BY <3>1, <1>3, <1>4 DEF ContextOK
  <2> QED BY <2>2, <2>3
<1>10. \A p, o \in Clients :
        client'[p].conn = client'[o].conn /\ client'[p].conn # NoConnection => p = o
  BY <1>3, <1>5, <1>6 DEF ContextOK
<1>11. \A p \in Clients : ~client'[p].open => client'[p] = NoSession
  BY <1>3, <1>5 DEF ContextOK
<1>12. ContextOK'
  BY <1>8, <1>9, <1>10, <1>11 DEF ContextOK
<1>13. IsolationTypeOK'
  BY <1>3, <1>4, <1>5 DEF IsolationTypeOK
<1>14. LinksApart'
  BY <1>3, RowsStayApart DEF IsolationInv
<1> QED BY <1>12, <1>13, <1>14 DEF IsolationInv

\* A session without a request's token takes no connection yet.
LEMMA BareStep ==
  ASSUME IsolationInv, NEW q \in Clients, OpenBareSession(q) PROVE IsolationInv'
<1>1. IsolationTypeOK /\ ContextOK /\ table' = table /\ bypass' = bypass /\ ctx' = ctx
  BY DEF IsolationInv, OpenBareSession
<1>2. client[q] = NoSession
  BY <1>1 DEF ContextOK, OpenBareSession
<1>3. /\ client'[q].open /\ client'[q].token = NoBearer /\ client'[q].conn = NoConnection
      /\ \A p \in Clients : p # q => client'[p] = client[p]
      /\ client' \in [Clients -> [open : BOOLEAN, token : Bearer, conn : Pool \cup {NoConnection}]]
  <2>1. client[q] \in [open : BOOLEAN, token : Bearer, conn : Pool \cup {NoConnection}]
    BY <1>1 DEF IsolationTypeOK
  <2>2. client'[q] = [client[q] EXCEPT !.open = TRUE]
    BY <1>1 DEF OpenBareSession, IsolationTypeOK
  <2>3. /\ client'[q] \in [open : BOOLEAN, token : Bearer, conn : Pool \cup {NoConnection}]
        /\ client'[q].open /\ client'[q].token = client[q].token
        /\ client'[q].conn = client[q].conn
    BY <2>1, <2>2
  <2>4. /\ \A p \in Clients : p # q => client'[p] = client[p]
        /\ client' \in [Clients -> [open : BOOLEAN, token : Bearer, conn : Pool \cup {NoConnection}]]
    BY <1>1, <2>3 DEF OpenBareSession, IsolationTypeOK
  <2> QED BY <1>2, <2>3, <2>4 DEF NoSession
<1>4. \A p \in Clients : client'[p].conn = client[p].conn /\ client'[p].token = client[p].token
  BY <1>2, <1>3 DEF NoSession
<1>5. \A p \in Clients : Holds(p)' <=> Holds(p)
  BY <1>2, <1>3, <1>4 DEF Holds, NoSession
<1>6. \A d \in Pool : FreeConnection(d)' => ctx'[d] = Blank
  BY <1>1, <1>4 DEF ContextOK, FreeConnection
<1>7. \A p \in Clients : Holds(p)' =>
        ctx'[client'[p].conn] \in {Blank, apply_rls_session_context(client'[p].token)}
  BY <1>1, <1>4, <1>5 DEF ContextOK
<1>8. ContextOK'
  BY <1>1, <1>3, <1>4, <1>6, <1>7 DEF ContextOK
<1>9. IsolationTypeOK'
  BY <1>1, <1>3 DEF IsolationTypeOK
<1>10. LinksApart'
  BY <1>1, RowsStayApart DEF IsolationInv
<1> QED BY <1>8, <1>9, <1>10 DEF IsolationInv

\* A later transaction finds its connection blank.
LEMMA BeginRunStep ==
  ASSUME IsolationInv, NEW q \in Clients, BeginTransaction(q) PROVE IsolationInv'
<1>1. PICK c \in Pool : FreeConnection(c) /\ client' = [client EXCEPT ![q].conn = c]
  BY DEF BeginTransaction
<1>2. IsolationTypeOK /\ ContextOK /\ table' = table /\ bypass' = bypass /\ ctx' = ctx
  BY DEF IsolationInv, BeginTransaction
<1>3. /\ client'[q].open /\ client'[q].token = client[q].token /\ client'[q].conn = c
      /\ \A p \in Clients : p # q => client'[p] = client[p]
      /\ client' \in [Clients -> [open : BOOLEAN, token : Bearer, conn : Pool \cup {NoConnection}]]
  BY <1>1, <1>2 DEF BeginTransaction, IsolationTypeOK
<1>4. ctx[c] = Blank /\ \A p \in Clients : client[p].conn # c
  BY <1>1, <1>2 DEF ContextOK, FreeConnection
<1>5. \A d \in Pool : FreeConnection(d)' => ctx'[d] = Blank
  <2>1. SUFFICES ASSUME NEW d \in Pool, FreeConnection(d)' PROVE ctx'[d] = Blank
    OBVIOUS
  <2>2. FreeConnection(d)
    BY <2>1, <1>3, NoConnectionAssumption DEF FreeConnection, BeginTransaction
  <2> QED BY <2>2, <1>2 DEF ContextOK
<1>6. \A p \in Clients : Holds(p)' =>
        ctx'[client'[p].conn] \in {Blank, apply_rls_session_context(client'[p].token)}
  <2>1. SUFFICES ASSUME NEW p \in Clients, Holds(p)'
                 PROVE  ctx'[client'[p].conn] \in {Blank, apply_rls_session_context(client'[p].token)}
    OBVIOUS
  <2>2. CASE p = q
    BY <2>2, <1>2, <1>3, <1>4
  <2>3. CASE p # q
    BY <2>1, <2>3, <1>2, <1>3 DEF Holds, ContextOK
  <2> QED BY <2>2, <2>3
<1>7. \A p, o \in Clients :
        client'[p].conn = client'[o].conn /\ client'[p].conn # NoConnection => p = o
  BY <1>2, <1>3, <1>4 DEF ContextOK
<1>8. ContextOK'
  BY <1>2, <1>3, <1>5, <1>6, <1>7 DEF ContextOK
<1>9. IsolationTypeOK'
  BY <1>2, <1>3 DEF IsolationTypeOK
<1>10. LinksApart'
  BY <1>2, RowsStayApart DEF IsolationInv
<1> QED BY <1>8, <1>9, <1>10 DEF IsolationInv

\* The connection of a closed session is given back as at the end of a transaction.
LEMMA CloseStep ==
  ASSUME IsolationInv, NEW q \in Clients, CloseSession(q) PROVE IsolationInv'
<1>1. IsolationTypeOK /\ ContextOK /\ table' = table /\ bypass' = bypass
  BY DEF IsolationInv, CloseSession
<1>2. /\ client'[q] = NoSession
      /\ \A p \in Clients : p # q => client'[p] = client[p]
      /\ client' \in [Clients -> [open : BOOLEAN, token : Bearer, conn : Pool \cup {NoConnection}]]
  BY <1>1 DEF CloseSession, IsolationTypeOK, NoSession, NoBearer, Bearer
<1>3. /\ ctx' \in [Pool -> [all : BOOLEAN, company : Tenants \cup {NoTenant}]]
      /\ Holds(q) => ctx'[client[q].conn] = Blank
      /\ \A d \in Pool : d # client[q].conn => ctx'[d] = ctx[d]
  <2>1. CASE Holds(q)
    <3>1. client[q].conn \in Pool /\ ctx' = [ctx EXCEPT ![client[q].conn] = Blank]
      BY <2>1, <1>1 DEF CloseSession, Holds, IsolationTypeOK
    <3> QED BY <3>1, <1>1 DEF IsolationTypeOK, Blank
  <2>2. CASE ~Holds(q)
    BY <2>2, <1>1 DEF CloseSession, IsolationTypeOK
  <2> QED BY <2>1, <2>2
<1>4. \A d \in Pool : FreeConnection(d)' => ctx'[d] = Blank
  <2>1. SUFFICES ASSUME NEW d \in Pool, FreeConnection(d)' PROVE ctx'[d] = Blank
    OBVIOUS
  <2>2. CASE d = client[q].conn
    BY <2>2, <1>3, NoConnectionAssumption DEF Holds, CloseSession
  <2>3. CASE d # client[q].conn
    <3>1. FreeConnection(d)
      BY <2>1, <2>3, <1>2 DEF FreeConnection
    <3> QED BY <3>1, <2>3, <1>1, <1>3 DEF ContextOK
  <2> QED BY <2>2, <2>3
<1>5. \A p \in Clients : Holds(p)' =>
        ctx'[client'[p].conn] \in {Blank, apply_rls_session_context(client'[p].token)}
  <2>1. SUFFICES ASSUME NEW p \in Clients, Holds(p)'
                 PROVE  ctx'[client'[p].conn] \in {Blank, apply_rls_session_context(client'[p].token)}
    OBVIOUS
  <2>2. p # q /\ client'[p] = client[p]
    BY <2>1, <1>2 DEF Holds, NoSession
  <2>3. Holds(p) /\ client[p].conn # client[q].conn /\ client[p].conn \in Pool
    BY <2>1, <2>2, <1>1 DEF Holds, ContextOK, IsolationTypeOK
  <2>4. ctx'[client'[p].conn] = ctx[client[p].conn]
    BY <2>2, <2>3, <1>3
  <2> QED BY <2>2, <2>3, <2>4, <1>1 DEF ContextOK
<1>6. \A p, o \in Clients :
        client'[p].conn = client'[o].conn /\ client'[p].conn # NoConnection => p = o
  BY <1>1, <1>2 DEF ContextOK, NoSession
<1>7. \A p \in Clients : ~client'[p].open => client'[p] = NoSession
  BY <1>1, <1>2 DEF ContextOK
<1>8. ContextOK'
  BY <1>4, <1>5, <1>6, <1>7 DEF ContextOK
<1>9. IsolationTypeOK'
  BY <1>1, <1>2, <1>3 DEF IsolationTypeOK
<1>10. LinksApart'
  BY <1>1, RowsStayApart DEF IsolationInv
<1> QED BY <1>8, <1>9, <1>10 DEF IsolationInv

\* Every step keeps the invariant.
LEMMA NextHolds == IsolationInv /\ [IsolationNext]_isolationVars => IsolationInv'
<1> SUFFICES ASSUME IsolationInv, [IsolationNext]_isolationVars PROVE IsolationInv'
  OBVIOUS
<1>1. CASE UNCHANGED isolationVars
  BY <1>1 DEF isolationVars, IsolationInv, IsolationTypeOK, LinksApart, ContextOK, Present,
              WellFormed, Owner, FreeConnection, Holds
<1>2. ASSUME NEW q \in Clients, OpenSession(q) PROVE IsolationInv'
  BY <1>2, OpenStep
<1>3. ASSUME NEW q \in Clients, OpenBareSession(q) PROVE IsolationInv'
  BY <1>3, BareStep
<1>4. ASSUME NEW q \in Clients, BeginTransaction(q) PROVE IsolationInv'
  BY <1>4, BeginRunStep
<1>5. ASSUME NEW q \in Clients, Insert(q) PROVE IsolationInv'
  BY <1>5, InsertStep, WriteKeeps DEF Insert
<1>6. ASSUME NEW q \in Clients, Relink(q) PROVE IsolationInv'
  BY <1>6, RelinkStep, WriteKeeps DEF Relink
<1>7. ASSUME NEW q \in Clients, Delete(q) PROVE IsolationInv'
  BY <1>7, DeleteStep, WriteKeeps DEF Delete
<1>8. ASSUME NEW q \in Clients, Rollback(q) PROVE IsolationInv'
  BY <1>8, WriteKeeps, TableOperators DEF Rollback, IsolationInv, IsolationTypeOK
<1>9. ASSUME NEW q \in Clients, CloseSession(q) PROVE IsolationInv'
  BY <1>9, CloseStep
<1> QED BY <1>1, <1>2, <1>3, <1>4, <1>5, <1>6, <1>7, <1>8, <1>9 DEF IsolationNext

\* Every reachable state satisfies the inductive invariant.
THEOREM IsolationInvariant == IsolationSpec => []IsolationInv
BY InitHolds, NextHolds, PTL DEF IsolationSpec

-----------------------------------------------------------------------------
(* What it gives *)

\* Under the row policies and triggers of the migrations, rows refer to rows of their
\* own company, and a request is shown its own company only.
THEOREM CompaniesApart == IsolationSpec => []TenantsApart
<1>1. IsolationInv => ShownOwn
  <2>1. SUFFICES ASSUME IsolationInv, ~bypass, NEW q \in Clients, Holds(q),
                        client[q].token.typ # "platform", NEW i \in Visible(q)
                 PROVE  client[q].token.typ = "tenant" /\ Owner(table[i]) = client[q].token.company
    BY DEF ShownOwn
  <2>2. WellFormed(table[i]) /\ _tenant_visible_sql(client[q].conn, Owner(table[i]))
    BY <2>1 DEF Visible, IsolationInv, LinksApart
  <2> QED BY <2>1, <2>2, OwnContext
<1>2. IsolationInv => TenantsApart
  BY <1>1 DEF IsolationInv, TenantsApart
<1> QED BY <1>2, IsolationInvariant, PTL

\* A request that does not work for the console never changes a row of another company.
THEOREM WritesAtHome == IsolationSpec => WritesStayHome
<1> DEFINE Home == \A q \in Clients, i \in Ids :
       (/\ ~bypass /\ Holds(q) /\ client'[q].conn = NoConnection
        /\ client[q].token.typ # "platform"
        /\ table'[i] # table[i])
       => /\ client[q].token.typ = "tenant"
          /\ i \in Present => Owner(table[i]) = client[q].token.company
          /\ i \in Present' => Owner(table[i])' = client[q].token.company
<1>1. IsolationInv /\ [IsolationNext]_isolationVars => Home
  <2>1. SUFFICES ASSUME IsolationInv, IsolationNext, NEW q \in Clients, NEW i \in Ids,
                        ~bypass, Holds(q), client'[q].conn = NoConnection,
                        client[q].token.typ # "platform", table'[i] # table[i]
                 PROVE  /\ client[q].token.typ = "tenant"
                        /\ i \in Present => Owner(table[i]) = client[q].token.company
                        /\ i \in Present' => Owner(table[i])' = client[q].token.company
    BY DEF isolationVars
  <2>2. PICK p \in Clients : Insert(p) \/ Relink(p) \/ Delete(p)
    BY <2>1 DEF IsolationNext, OpenSession, OpenBareSession, BeginTransaction, Rollback, CloseSession
  <2>3. p = q
    <3>1. client' = [client EXCEPT ![p].conn = NoConnection]
      BY <2>2 DEF Insert, Relink, Delete, EndTransaction
    <3> QED BY <3>1, <2>1 DEF Holds, IsolationInv, IsolationTypeOK
  <2>4. (i \in Present' <=> i \in RowsIn(table')) /\ Owner(table[i])' = OwnerIn(table', table'[i])
    BY TableOperatorsAfter
  <2>5. ASSUME NEW r, WellFormed(r), _tenant_visible_sql(client[q].conn, Owner(r))
        PROVE  client[q].token.typ = "tenant" /\ Owner(r) = client[q].token.company
    BY <2>1, <2>5, OwnContext
  <2>6. \A r : Owner(r) = OwnerIn(table, r)
    BY TableOperators
  <2>7. \A j \in Present : WellFormed(table[j])
    BY <2>1 DEF IsolationInv, LinksApart
  <2>8. CASE Insert(q)
    <3>1. /\ i \notin Present /\ WellFormed(table'[i])
          /\ _tenant_visible_sql(client[q].conn, Owner(table'[i]))
          /\ OwnerIn(table', table'[i]) = Owner(table'[i])
      BY <2>1, <2>6, <2>8, InsertStep
    <3> QED BY <3>1, <2>4, <2>5
  <2>9. CASE Relink(q)
    <3>1. /\ i \in Visible(q) /\ WellFormed(table'[i])
          /\ _tenant_visible_sql(client[q].conn, Owner(table'[i]))
          /\ OwnerIn(table', table'[i]) = Owner(table'[i])
      BY <2>1, <2>6, <2>9, RelinkStep
    <3>2. i \in Present /\ _tenant_visible_sql(client[q].conn, Owner(table[i]))
      BY <3>1 DEF Visible
    <3> QED BY <3>1, <3>2, <2>4, <2>5, <2>7
  <2>10. CASE Delete(q)
    <3>1. i \notin RowsIn(table') /\ i \in Present /\ _tenant_visible_sql(client[q].conn, Owner(table[i]))
      BY <2>1, <2>10, DeleteStep
    <3> QED BY <3>1, <2>4, <2>5, <2>7
  <2> QED BY <2>2, <2>3, <2>8, <2>9, <2>10
<1>2. IsolationInv /\ [IsolationNext]_isolationVars => [Home]_isolationVars
  BY <1>1
<1> QED BY <1>2, IsolationInvariant, PTL DEF IsolationSpec, WritesStayHome
=============================================================================
