--------------------------- MODULE TenantIsolation ---------------------------
(***************************************************************************)
(* What the database itself does to keep companies apart where they share  *)
(* one: the row security policies and the triggers of the migrations, over *)
(* the context that get_db puts into a request's transaction (db/rls.py).  *)
(*                                                                         *)
(* Requests borrow connections from a pool, one transaction at a time.     *)
(* They are taken to issue any statement at all: which rows a handler asks *)
(* for is its own affair, what it gets is the database's.  A statement     *)
(* that writes is one step with the commit after it, since nothing it      *)
(* depends on can change in between: no statement of the program changes   *)
(* the company of a row.                                                   *)
(***************************************************************************)
EXTENDS Integers, FiniteSets

CONSTANTS Tenants,      \* companies
          Pool,         \* connections of the engine's pool
          Clients,      \* running requests
          Ids,          \* primary keys
          NoTenant,
          NoConnection,
          NoHome

ASSUME NoTenantAssumption     == NoTenant \notin Tenants
ASSUME NoConnectionAssumption == NoConnection \notin Pool
ASSUME NoHomeAssumption       == NoHome \notin Ids

VARIABLES
  table,   \* table[i]: the row with key i, or Absent
  ctx,     \* ctx[c]: app.platform_access and app.tenant_company_id on connection c
  client,  \* client[q]: token and connection of the request
  bypass   \* whether the role of the program is above row security, as a superuser is

isolationVars == <<table, ctx, client, bypass>>

(* Tables.  "account" stands for users, customers and equipment, which     *)
(* orders refer to.  Rows of a child table have no company_id: they belong *)
(* to the company of the row they hang from.                               *)
Kinds    == {"account", "order", "line", "paper", "entry", "item", "movement"}
HomeKind == [entry |-> "order", movement |-> "item"]
RefKinds == [account |-> {}, item |-> {}, order |-> {"account"}, line |-> {"order"},
             entry |-> {"account"}, paper |-> {"order", "account"},
             movement |-> {"order", "account"}]
IsChild(kind) == kind \in DOMAIN HomeKind

Absent == [kind |-> "absent", company |-> NoTenant, home |-> NoHome, refs |-> {}]
Record == [kind : Kinds, company : Tenants \cup {NoTenant}, home : Ids \cup {NoHome},
           refs : SUBSET Ids]
Present == {i \in Ids : table[i] # Absent}

Owner(rec) == IF IsChild(rec.kind) THEN table[rec.home].company ELSE rec.company

\* Columns and foreign keys.
WellFormed(rec) ==
  /\ rec.kind \in Kinds
  /\ IF IsChild(rec.kind)
     THEN /\ rec.home \in Present /\ table[rec.home].kind = HomeKind[rec.kind]
          /\ rec.company = NoTenant
     ELSE rec.home = NoHome /\ rec.company \in Tenants
  /\ rec.refs \subseteq Present
  /\ \A j \in rec.refs : table[j].kind \in RefKinds[rec.kind]
  /\ rec.kind \in {"order", "line"} => rec.refs # {}

-----------------------------------------------------------------------------
(* A definition named ..._Faulty is the one after it with a plausible       *)
(* mistake; no formula uses it.                                            *)

Bearer == [typ : {"none", "tenant", "portal", "platform"}, company : Tenants \cup {NoTenant}]
NoBearer == [typ |-> "none", company |-> NoTenant]

Blank == [all |-> FALSE, company |-> NoTenant]

\* The context of an access token: all companies for the console, even while it acts
\* for one; that of the token for a workshop's user; none for the portal.
apply_rls_session_context(token) ==
  CASE token.typ = "platform" -> [all |-> TRUE, company |-> token.company]
    [] token.typ = "tenant"   -> [all |-> FALSE, company |-> token.company]
    [] OTHER                  -> Blank

\* _tenant_visible_sql: USING and WITH CHECK of every policy, for rows of company k.
_tenant_visible_sql(c, k) == bypass \/ ctx[c].all \/ ctx[c].company = k

\* The user who moved stock is not compared.
Trigger_Faulty(rec) ==
  \A j \in rec.refs :
    \/ rec.kind = "movement" /\ table[j].kind = "account"
    \/ table[j].company = Owner(rec)

\* The functions fn_enforce_...: what a row refers to is of its company.
Trigger(rec) == \A j \in rec.refs : table[j].company = Owner(rec)

-----------------------------------------------------------------------------
NoSession == [open |-> FALSE, token |-> NoBearer, conn |-> NoConnection]

IsolationInit ==
  /\ table = [i \in Ids |-> Absent]
  /\ ctx = [c \in Pool |-> Blank]
  /\ client = [q \in Clients |-> NoSession]
  /\ bypass \in BOOLEAN

FreeConnection(c) == \A q \in Clients : client[q].conn # c
Holds(q)          == client[q].open /\ client[q].conn # NoConnection

\* get_db: the session's first transaction sets the context for itself.
OpenSession(q) ==
  /\ ~client[q].open
  /\ \E token \in Bearer, c \in Pool :
       /\ token.typ \in {"tenant", "portal"} => token.company # NoTenant
       /\ token.typ = "none" => token = NoBearer
       /\ FreeConnection(c)
       /\ client' = [client EXCEPT ![q] = [open |-> TRUE, token |-> token, conn |-> c]]
       /\ ctx' = [ctx EXCEPT ![c] = apply_rls_session_context(token)]
  /\ UNCHANGED <<table, bypass>>

\* Logins and renewals open their session without a request's token.
OpenBareSession(q) ==
  /\ ~client[q].open
  /\ client' = [client EXCEPT ![q].open = TRUE]
  /\ UNCHANGED <<table, ctx, bypass>>

\* A statement after a commit, or the first of a bare session, begins another
\* transaction, on whatever connection the pool hands out.
BeginTransaction(q) ==
  /\ client[q].open /\ client[q].conn = NoConnection
  /\ \E c \in Pool : FreeConnection(c) /\ client' = [client EXCEPT ![q].conn = c]
  /\ UNCHANGED <<table, ctx, bypass>>

\* set_config(..., false): the setting stays on the connection.
EndTransaction_Faulty(q) ==
  /\ UNCHANGED ctx
  /\ client' = [client EXCEPT ![q].conn = NoConnection]

\* COMMIT or ROLLBACK: settings made with set_config(..., true) end with the
\* transaction, and the session gives the connection back.
EndTransaction(q) ==
  /\ ctx' = [ctx EXCEPT ![client[q].conn] = Blank]
  /\ client' = [client EXCEPT ![q].conn = NoConnection]

\* What a query of q can return, with any filter or none.
Visible(q) == {i \in Present : _tenant_visible_sql(client[q].conn, Owner(table[i]))}

Accepted(q, rec) ==
  /\ WellFormed(rec)
  /\ _tenant_visible_sql(client[q].conn, Owner(rec))
  /\ Trigger(rec)

\* A generated key: which one makes no difference.
FreshId == CHOOSE i \in Ids : i \notin Present

Insert(q) ==
  /\ Holds(q)
  /\ Ids \ Present # {}
  /\ \E kind \in Kinds, k \in Tenants \cup {NoTenant},
        home \in Present \cup {NoHome}, refs \in SUBSET Present :
       LET rec == [kind |-> kind, company |-> k, home |-> home, refs |-> refs]
       IN Accepted(q, rec) /\ table' = [table EXCEPT ![FreshId] = rec]
  /\ EndTransaction(q)
  /\ UNCHANGED bypass

\* A technician assigned, a movement's order corrected: other references, same row.
Relink(q) ==
  /\ Holds(q)
  /\ \E i \in Visible(q), refs \in SUBSET Present :
       LET rec == [table[i] EXCEPT !.refs = refs]
       IN Accepted(q, rec) /\ table' = [table EXCEPT ![i] = rec]
  /\ EndTransaction(q)
  /\ UNCHANGED bypass

\* Foreign keys refuse the deletion of a row that others need; the cost lines of an
\* order go with it.
Delete(q) ==
  /\ Holds(q)
  /\ \E i \in Visible(q) :
       LET lines == {j \in Present : table[j].kind = "line" /\ i \in table[j].refs}
       IN /\ \A j \in Present \ lines : i \notin table[j].refs /\ table[j].home # i
          /\ table' = [j \in Ids |-> IF j = i \/ j \in lines THEN Absent ELSE table[j]]
  /\ EndTransaction(q)
  /\ UNCHANGED bypass

Rollback(q) ==
  /\ Holds(q)
  /\ EndTransaction(q)
  /\ UNCHANGED <<table, bypass>>

CloseSession(q) ==
  /\ client[q].open
  /\ ctx' = IF Holds(q) THEN [ctx EXCEPT ![client[q].conn] = Blank] ELSE ctx
  /\ client' = [client EXCEPT ![q] = NoSession]
  /\ UNCHANGED <<table, bypass>>

IsolationNext ==
  \E q \in Clients :
    \/ OpenSession(q) \/ OpenBareSession(q) \/ BeginTransaction(q)
    \/ Insert(q) \/ Relink(q) \/ Delete(q) \/ Rollback(q) \/ CloseSession(q)

IsolationSpec == IsolationInit /\ [][IsolationNext]_isolationVars

-----------------------------------------------------------------------------
(* Properties                                                              *)

\* Rows refer to rows of their own company only, whatever the console or a role
\* above row security has written.
LinksApart ==
  \A i \in Present :
    /\ WellFormed(table[i])
    /\ \A j \in table[i].refs : Owner(table[j]) = Owner(table[i])

\* Under row security a query returns rows of the token's company only, and none if
\* there is no such token, on whatever connection it runs and whoever had it before;
\* the console may see all.
ShownOwn ==
  ~bypass => \A q \in Clients : Holds(q) /\ client[q].token.typ # "platform" =>
    \A i \in Visible(q) :
      client[q].token.typ = "tenant" /\ Owner(table[i]) = client[q].token.company

TenantsApart == LinksApart /\ ShownOwn

\* Under row security a step of a request changes rows of its token's company only,
\* before the step and after it.
WritesStayHome ==
  [][\A q \in Clients, i \in Ids :
       (/\ ~bypass /\ Holds(q) /\ client'[q].conn = NoConnection
        /\ client[q].token.typ # "platform"
        /\ table'[i] # table[i])
       => /\ client[q].token.typ = "tenant"
          /\ i \in Present => Owner(table[i]) = client[q].token.company
          /\ i \in Present' => Owner(table[i])' = client[q].token.company]_isolationVars
=============================================================================
