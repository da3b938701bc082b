# TLA+ models of LM-Taller-Backend

LM-Taller is the backend of a repair-workshop product: a FastAPI application over
SQLAlchemy 2.0 and PostgreSQL. A *catalogue* database holds the platform's tenants,
plans, subscriptions and desktop installations; each company (tenant) has its data in a
database (or in rows) of its own. Browsers, a customer portal, a platform console and a
desktop client that works offline and synchronises all write the same rows.

This directory holds TLA+ models of the parts where requests meet, the TLC
configurations that check them on small instances, and proofs, checked by TLAPS, of what
matters most. Sources are cited as `app/...`, which is `src/app/...` here.

Contents: [1 The program's execution model](#1-the-programs-execution-model) ·
[2 Inventory](#2-inventory-of-the-system) · [3 Modules](#3-modules-and-their-correspondence-to-the-code) ·
[4 Runs](#4-runs-and-what-they-show) · [5 Bounds](#5-bounds-and-why-they-are-enough) ·
[6 Fairness](#6-fairness) · [7 Proofs](#7-what-is-proved) ·
[8 Only model-checked](#8-what-is-only-model-checked) · [9 Findings](#9-where-the-code-and-its-words-part) ·
[10 Not modelled](#10-not-modelled) · [11 Plan](#11-plan)

## 1 The program's execution model

Everything below rests on five facts of the code, which every module follows.

* **A request is one thread and one transaction.** Endpoints are plain functions that
  FastAPI runs in a thread pool; `get_db` (`app/db/session.py:176`) opens a session and
  rolls back and closes it at the end. Sessions do not autoflush.
* **READ COMMITTED.** Each query sees what was committed before it. Nothing is
  re-read or re-checked at the commit, and no table has a version column.
* **Row locks are rare.** `with_for_update` occurs in `allocate_order_number`,
  `allocate_tracking_code` and `register_or_touch_installation`; registrations also take an
  advisory lock. Every other handler reads, decides, and writes later.
* **The database refuses little by itself**: unique constraints and foreign keys where a
  table has them, row policies and company triggers on the older tables.
* **An UPDATE names only the columns whose value changed** in the session. A request
  that "changes" a column to the value it had loaded writes nothing, even if the column
  has another value by then.

Hence the usual shape of a model: a committed state, and for each running request what
it has read; one step for the reads and checks, more steps where the code takes locks,
and one step for the commit. `Rollback` may end any request at any point: it stands for
errors, lost connections and crashes of a worker.

## 2 Inventory of the system

| Component | State | Operations | Meets | Hard behaviour | What makes it correct |
|---|---|---|---|---|---|
| **Order lifecycle** `order_service`, `orders`, `portal/orders`, `order_document_registry` | status, timeline, slips of an order | create (with intake slips), PATCH status, portal cancel, generate document, delete | requests; desktop pushes | status checked, then written without a lock; slips in a second transaction; deletion of loaded children | recorded moves legal and grounded; status is where the timeline ended; terminal means terminal |
| **Order numbering** `allocate_order_number`, `allocate_tracking_code`, site endpoints | next number per site and kind, the tracking row, site codes, orders | create order, create/rename site, new year | creations, through two row locks | the first row of a sequence cannot be locked; lock order; renamed sites | numbers unique, consecutive, reserved to the commit; nobody waits for ever |
| **Order costs** `recompute_total_cost` and its callers | cost lines; three total columns | add, update, delete line; PUT, PATCH; pushed totals | requests; desktop pushes | totals computed from what one transaction sees | what an overlap spoils, the next request repairs |
| **Stock** `inventory_service`, `inventory`, push | stock, movements | create, adjust, delete; pushed quantity, pushed delete | requests; desktop pushes | read-modify-write of an absolute quantity | stock explained by movements |
| **Master data** `customers`, `equipment`, `inventory_categories`, contracts, items | rows with names, codes, keys | create, change, delete, push | requests; desktop pushes | looked up, then inserted | duplicates only where two writers crossed and no constraint stands behind them |
| **Receiving orders** `contract_service`, `sla_policy_service`, `orders` | contracts, SLA policies, orders of a month | portal, desk and pushed orders; contract and policy changes | requests; the calendar | counted, then inserted; dates compared as loaded | quotas passed only by the known ways; the most specific policy applies |
| **Printed documents** `order_document_registry`, `order_pdf_service`, `public_tracking_service` | document rows, files, tracking codes | generate, fail, print a summary | two printers | revision is a count plus one; file before row; a code flushed and never committed | revisions count, files are their rows', codes lead to their order |
| **Desktop installations** `installation_service` and its callers | rows of `tenant_installations`, an advisory lock | register/touch, revoke | plan changes | count then insert; limit read before the lock | seat limit; revocation final; everyone answered |
| **Desktop synchronisation** `sync_admin` | rows with client dates, company revision, cursors | push a batch, pull, register | console requests, installations, events | last writer wins by client clocks; stored before announced and registered | no older version wins; when a pull is complete |
| **Company configuration** `tenant_config_events`, `tenant_events`, `redis_client` | `settings_json`, revision | change a setting or policy, count the revision, publish, stream | Redis, browsers, desktops | whole JSON rewritten; publish after commit, at most once | a revision tells its content; an open stream catches up |
| **Subscriptions, entitlements, licences** `subscription_service`, `effective_entitlements_service`, `license_manifest_service` | plan of the company, catalogue subscription, overrides | assign, patch, renew, cancel, suspend; read a manifest | two databases, the platform's file | commits one after another; a manifest read piecewise | both databases agree; a current licence says what holds |
| **Platform configuration, plan catalogue** `platform_config_service`, `plan_catalog_service` | one JSON file, rows of plans | save a section, edit a plan | platform requests, manifests | unlocked read-modify-write of a file that is truncated first | serial saves survive |
| **Session policies** `session_policy_service` | layered policies | resolve, change | company configuration | cascade and clamping | a policy concerns those it is set for |
| **Permissions and roles** `permission_service`, `admin_rbac`, `admin`, `deps/permissions` | users, role rows, requests, temporary permissions | create, switch, ask, approve, reject, grant, revoke, push | requests; desktop pushes; the licence | PENDING read and overwritten later; users counted then inserted; fall-back of roles | every permission backed; a decision stands; limit passed only by the known ways |
| **Tenant routing and provisioning** `tenancy/*`, `db/session`, `platform/companies`, `impersonate` | routes, two caches, engine pool | login, call, suspend, create a company, impersonate | every request | time-to-live; two databases without a common transaction | routes lead home; logins end with the suspension |
| **Authentication** `auth_service`, `portal_auth_service`, `platform_auth_service`, `deps/*_auth` | tokens nobody keeps; account rows | login, renew, call, switch accounts and portals off | account changes | row read before the pair is issued | a barred account gets nothing new |
| **Rate limiting** `rate_limit_service` | window per address, Redis or memory | is_allowed | logins, restarts | times taken before counting; fall-back | at most N per window |
| **Tenant isolation** `db/rls`, `db/session`, migrations 002, 004–006, 010 | rows, context of a connection | any statement of any request | requests on pooled connections | context set for one transaction; the console sees all | links and writes stay within a company |
| Field reports; analytics; e-mail, audit; middleware; scripts | – | – | – | – | see [section 10](#10-not-modelled) |

How the parts interact: the desktop push (`app/services/sync_admin/push.py`) writes
orders, totals, stock, master data, users and policies next to the ordinary endpoints,
then counts the company revision and registers the installation; registrations and
manifests read the plan catalogue, which the console changes; creations of orders read
site codes and contracts, which their endpoints change. Every interaction is shared rows
(or the one file), never a direct call between running requests, except Redis events.

The hazards this code has, each at its line, with the properties that watch it, are under
`hazards` in `PROJECT.json`.

## 3 Modules and their correspondence to the code

`PROJECT.json` maps each definition to its lines; this is the overview. A definition
named `..._Faulty` is the definition after it with a plausible mistake: it is used to
see that a property notices the mistake, and no formula refers to it. Names such as
`overlapped`, `crossed`, `lapse`, `excused`, `contested`, `overrun` are *history*
variables: they record that one of the races this code permits has happened, so that a
property can say "never otherwise".

### Desktop installations: `SeatPool`, `Seats`, `SeatsProofs`, `MCSeats`

`SeatPool` is the promise: an indivisible `Grant` below a ceiling, an indivisible
`Revoke`, and a ceiling that only rises. `Seats` is the code. A registration is
`ReadPolicy` (the limit is read first) → `AdvisoryLock` → `FindExisting`
(`SELECT … FOR UPDATE`: 403 for a revoked row, touch for an active one) → `CountSeats`
(403 at the limit) → `CommitGrant`. Revocation is `ReadSeatToRevoke` → `CommitRevoke`,
without the advisory lock, but waiting for a registration that holds the row.
`ChangePlan` changes the limit at any moment. `lockHolder` is the advisory lock of a
*key*: two companies may share one (`company_id.int % (2**63 - 1)`).

### Orders: `OrderStatuses`, `OrderHistory`, `OrderLifecycle`, `OrderLifecycleProofs`, `MCOrderLifecycle`

`OrderStatuses` is `ALLOWED_TRANSITIONS`. `OrderHistory` is the promise: a timeline that
grows only by legal moves from a status the order *has held*. It does not promise that a
move starts from the current status, because the code does not keep that.
`OrderLifecycle` has, for each endpoint, a `LoadFor…` (what it reads and checks) and a
`Commit…`; `CommitIntakeSlips` is the second transaction of a creation;
`PortalCancelFails` is what a portal cancellation comes to; `PushCreate`, `PushStatus`,
`PushDelete` and their commits are `apply_service_order`, enabled by `SyncEnabled`. A
pushed delete calls `db.delete` and then `db.add` on the same order: the order stays and
the timeline rows that were loaded go, and the model does the same.

### Numbering: `NumberRegister`, `OrderNumbering`, `OrderNumberingProofs`, `MCOrderNumbering`

`NumberRegister` issues 1, 2, 3, … for each site and kind. `OrderNumbering` models the
creating transaction from the read of the site code (`ReadSite`) through the two rows it
locks: `SelectSequence` waits for the holder of an existing row, finds nothing if no row
is committed, and then `InsertSequence` waits for a concurrent insert of the same key and
fails if that one commits; `SelectTracking` and `InsertTracking` do the same for the
company's tracking row; `CommitOrder` makes order, counter and tracking row visible
together, unless the unique constraint on the number refuses it. `CreateSite`,
`RenameSite` and `NewYear` are the environment. Renames belong only to
`SpecWithRenames`, since they break the uniqueness that the other properties rest on.

### Costs: `OrderCosts`, `OrderCostsProofs`, `MCOrderCosts`

`Load` → `Recompute` → `Commit`. `View` is what the transaction sees (committed lines and
its own change), `Recomputed` is `recompute_total_cost`, `Written` and `WrittenLines`
write only the columns that differ from the loaded ones, `LineLocked` is the row lock of
a flushed delete. `Push` is a mutation with cost fields.

### Synchronisation: `AdminSync`, `AdminSyncProofs`, `MCAdminSync`

One row of each kind a rule of its own exists for, and the company. A push reads
(`StartPush`, or `RefusePush`), applies its batch one mutation after the other against
what it has in its session (`ApplyMutation` with `reject_if_stale`), commits
(`StoreBatch`, or `StoreFails`), then counts the company revision in a transaction of its
own (`ReadForBump`, `CommitBump`), announces it, and registers the installation last
(`Register`, which may answer 403). `LosePush` cuts it off anywhere. `StartPull` and
`FinishPull` are the two reads of a snapshot; the cursor is the latest date seen.
`RestWrite` and `RestRemove` are the console. `orderly` says that rows were committed in
the order of their dates, after every cursor and never between a pull's reads.

### The platform: `Entitlements`, `SessionPolicies`, `PlatformConfig`, `CompanyConfig`, `Subscriptions`, `PlatformProofs`, `MCPlatform`

`Entitlements` and `SessionPolicies` are pure operators: effective entitlements from
override, plan row and file, the subscription's life, and the cascade from user to site,
company and platform. `PlatformConfig` is the file: a save reads it, opens it (which
truncates it) and writes it; a saver may die between. `CompanyConfig` is the company row
with its whole `settings_json`, the requests that change it, the count of the revision as
a second commit, the event, and clients (browser with a stream, or desktop). `lapse`
records a lost update or a request that died between change and revision.
`Subscriptions` puts the three together: a request on a subscription commits to the
tenant database, then to the catalogue, then counts the revision; a manifest is
`StartManifest` → `ReadEntitlements` → `FinishManifest`.

### Access: `TenantRouting`, `Permissions`, `Sessions`, `LoginLimiter`, `TenantIsolation`, `AccessProofs`, `MCAccess`

`TenantRouting` has the three steps of a lookup (cache, query, fill) for slugs and for
companies, the creation of a company over two databases (`CheckSlug`, `CheckNit`,
`CommitCompany`, `CommitRoute`, or `Abandon` half way), suspension and impersonation.
An entry carries the time *before* its query. Calls by company do not look at
`is_active`; only logins do. `invalidate_cache` has no callers and is no action.

`Permissions` has the users, role rows, role requests and temporary permissions of one
company. A handler is authorised first (`Authorise`, the whole of
`get_user_permissions` with its fall-backs), counts or reads, and commits later;
`PushRole` is the desktop. No unique index keeps a user from having two rows for a site;
users whose rows or decisions two handlers have crossed on are `contested`.

`Sessions` keeps every token ever issued, with an `old` mark set when its account is
barred. Logins and renewals of the three realms read the account row and then issue the
pair; a contact's company is asked for once more in between. Renewal revokes nothing.

`LoginLimiter` is `is_allowed`: the time is taken (`Stamp`), the attempt is counted in
Redis (every attempt) or in the process (admitted ones), and processes restart with
another store.

`TenantIsolation` is what the database does by itself where companies share one. A
request takes a pooled connection, `get_db` sets the context for the first transaction
(`OpenSession`), the context ends with the transaction (`EndTransaction`,
`set_config(…, true)`), and what follows runs without (`BeginTransaction`). Requests may
issue any statement: `Insert`, `Relink`, `Delete`; `Visible` is what a query may return
under the policies, `Trigger` what the functions `fn_enforce_…` demand. `bypass` is a
role above row security, as the one of `docker-compose.yml` is; then only the triggers
are left.

### Records: `Records`, `OrderIntake`, `OrderDocuments`, `Inventory`, `RecordsProofs`, `MCRecords`

`Records` treats all master data alike: look whether the name is free, insert or change
later, refused only by a unique constraint; deletions ask for dependants first; pushes skip
the lookup. `OrderIntake` receives orders through portal (`CheckContract`,
`can_create_order`, `Settle`, `CommitOrder`), desk (which asks neither dates nor quota)
and push, with updates of contracts and SLA policies in between. `OrderDocuments`
generates documents: count, code, file, row, each a step. `Inventory` is the stock of one
item: `LoadForAdjust`/`CommitAdjust` write the absolute quantity computed earlier,
`LoadForPush`/`CommitPush` set it without a movement.

## 4 Runs and what they show

| Run | States | Shows |
|---|---|---|
| `seats` | 16,572 | Two requests, three installations, limits 1 and 2, plan changes at any time: the number of active seats never passes the largest limit the plan has carried (`SeatCap`); the inductive invariant `RegistrationInv`; a revoked seat never comes back (`RevocationIsFinal`); the steps implement `SeatPool` (`PoolSpec`); every request ends (`RequestsEnd`). |
| `orders` | 65,154 | The API alone. `HistoryInv`: every recorded move is legal and starts from a status held before; the status is the last entry; a delivery slip only for an order recorded as completed. `TerminalSettles`: once every PATCH that read an earlier status has ended, a delivered or cancelled order stays so. `HistorySpec`: refinement. |
| `order_sync` | 1.8 M | With pushes overwriting statuses and emptying timelines in between, `EntriesLegal` still holds: the timeline never *records* an illegal move. |
| `portal_cancel` | violation | `PortalCancelCancels`: a portal cancellation never cancels. |
| `numbering` | 8,810 | `NumberingInv`, `NoGaps`, refinement of `NumberRegister`, and `CreationsEnd`: two locks, always taken in the same order, and the races of first inserts never leave creations waiting. |
| `numbering_reuse` | violation | `NumberReserved` fails when a site takes a code that another gave up. |
| `costs` | 632,979 | `UndisturbedRestores`: whatever overlapping requests and pushed totals have left, the next request that nothing overlaps leaves columns and lines in agreement. |
| `sync` | 1.2 M | `AcceptedNotOlder`: a push replaces a row by an older version only if somebody committed that row since the push read it. `StoredIsAnnounced`: what is stored and not cut off is announced, even when the answer is 403. `OrderlyPullsComplete`: exactly when rows are committed in the order of their dates, incremental pulls leave nothing out. |
| `platform` | 499,690 | `RevisionTellsAll` and `LicenceTellsAll`: who holds the current revision holds the current content, but for a lost update, a request that died before its count, or one that has it still to do. `CatalogueAgrees`: the two databases agree when no request is under way and no two of one kind ran. `SavesSurvive`: serial, complete saves keep the file whole. `PolicyScope`: a policy changes no session but those it is set for. `StreamsCatchUp`: an open stream that misses no event reaches the current revision. |
| `plan_edit` | violation | `PlanEditReaches`: an edited plan does not reach a company whose subscription was assigned. |
| `access` | 154,030 | `LoginWasActive`, `RoutesLeadHome`, `OneRoutePerSlug` (routing); `PermissionsBacked`, `DecisionsStand`, `LimitExplained` (roles); `SessionsBacked` (tokens); `AttemptsBounded` (limiter); `TenantsApart`, `WritesStayHome` (isolation). |
| `records` | 446,225 | `DuplicatesExplained`, `TermsExplained`, `MatchIsMostSpecific`, `DocumentsExplained`, `StockExplained`, `UndisturbedAddsUp`: duplicates, exceeded quotas, wrong revisions and lost stock arise in the ways the history variables name, and in no other. |

`access`, `platform` and `records` hold several components that share no row in the
code; a variable of the MC module (`part`) or the chosen workload decides which of them
moves, so that one instance asks each its own question without a product of the state
spaces. Each passing property has been seen to fail when one definition is replaced by
its `_Faulty` neighbour (`mutants` in `PROJECT.json`).

## 5 Bounds and why they are enough

* **Two requests** on one row in most modules, three where a hazard has three parts (a
  role request, its approval and its rejection; two takers and an update of the
  contract). The hazards here are pairs: a check, and another commit between check and
  write. The proofs of section 7 are for any number.
* **One order, one item, one company** where rows of different ones never meet; two
  orders for documents (files share a directory and codes are global), three companies
  for routing, two for isolation.
* **`MaxEntries`** (orders): 6 for the API, because the shortest history that reaches a
  delivery has five entries and a race adds one; 3 with pushes, where the property is
  about each entry by itself.
* **`MaxNext`** = 3 and **two years** (numbering): the first order of a sequence
  (insert), the second (select) and one after the change of year.
* **`Amounts`** = {1}, two lines and two of the three categories (costs): the sums only
  have to tell which lines were counted. **`Quantities`** = {0, 2}, deltas −2 … 1,
  **`MaxMoves`** = 3 (stock): a withdrawal that empties the stock, one that fails and one
  that adds.
* **`MaxTime`** = 3 (sync): before, at and after a cursor; 10 batches of one or two
  mutations; a run has two pushes, or a push and a pull (`PushesOrPulls`). **`MaxTime`**
  = 1 (platform): within and after a period. A client is a browser or a desktop
  (`OneRole`).
* **`MaxClock`** = 3, **`TTL`** = 2, **`MaxEngines`** = 1 (routing): an entry expires and
  the pool evicts. **`LastDay`** = 1 (roles): a grant of one day ends. **`MaxMinute`** = 2,
  **`MaxIssued`** = 4 (sessions): a chain of two renewals and its expiry; accounts meet
  nowhere, so a run follows one at a time (`Followed`). **`Window`** = 2,
  **`MaxRequests`** = 2, **`MaxTick`** = 2, **`MaxTried`** = 4 (limiter): a window fills,
  refuses and slides.
* **Three keys**, one pooled connection (isolation): a movement with its item and user is
  the largest thing a trigger looks at; one connection passed between two requests is
  where a context could be left behind. `Followed` explores one request over two rows or
  two over one; states with a row more are checked and not continued.
* **`PlanLimit`** = 2, **`DaysPerMonth`** = 2, **`LastDay`** = 2, **`MaxPolicies`** = 3,
  **`MaxPushed`** = 1 (intake): a full month and the first day of the next; three
  policies out of the nine forms. **`LastSecond`** = 1, three codes (documents): the same
  second and the next, and a code to spare.
* Symmetry is used for requests, cost lines, rows and stock requests, only in runs
  without liveness properties.

`CHECK_DEADLOCK FALSE` is set where the bound or the end of all requests, not the code,
stops the system. The other runs check deadlock.

## 6 Fairness

Only the three liveness properties use it. A started request is run by its thread until
it ends: weak fairness of its steps. Steps that wait for a lock have strong fairness:
PostgreSQL queues the waiters of a row or advisory lock in order of arrival, so a lock
that is released again and again is eventually granted. `StreamsCatchUp` assumes weak
fairness of the step that hands an event to an open stream: the generator of
`tenant_events.py` runs on the server's event loop as long as its client stays connected.
Nothing is assumed of `Rollback`, of lost events, of the arrival of requests or of plan
changes.

## 7 What is proved

The proofs hold for all values of the constants under the named assumptions of the
modules (for example, limits are natural numbers, `None` is not a request).

**`SeatsProofs`.** `TypeCorrect`; `RegistrationSafe`, from which `SeatCapHolds`;
`RevocationHolds`; `PoolRefinement`. `SeatCap` is not inductive: a registration that is
about to insert must be known to have a count that still bounds the active seats. That is
`CountStillBounds`, which holds because a registration past the lock holds it
(`LockHeld`), so no other registration of the company inserts in between, while
revocations only lower the count. `PolicyWasInForce` ties the limit a request has read to
the ceiling although the plan may have changed since. `SeatStillFree` carries the
refinement and the finality of revocation.

**`OrderNumberingProofs`.** `NumberingTypeCorrect` and `NoGapsAlways`, for the
specification *with* changes of codes; `NumberingSafe` and `NumberingRefinesRegister` for
fixed codes. A request that has its number holds the row of its sequence and the number is
the one the row still shows (`SequenceHeld`). A step of another request touches only rows
that are free or its own (`OthersHeld`), also in the case of the first row, where both
requests believe that they insert it. A commit therefore takes exactly `NextNumber`
(`CommitTakesNext`). That the unique constraint is never met (`NumberReserved`) needs two
facts that *are* lost by a rename: codes are distinct and orders carry the code of their
site (`CodesFixed`).

**`OrderLifecycleProofs`.** `LifecycleTypeCorrect` and `EntriesAlwaysLegal`, with pushes;
`HistoryAlwaysSound`, `TerminalAlwaysSettles` and `HistoryRefinement`, assuming
`~SyncEnabled`. With pushes only `LegalInv` survives: a request carries a target that is
legal from the status it read, whatever became of the order. Without them `ApiInv` adds
that what a request read is part of its order's history (`Grounded`) and that the history
tells the status (`Told`); it survives the steps of others because an order is never
created again and its history only grows while it exists (`Advances`).

**`AdminSyncProofs`.** `StoredAnnounced` and `AcceptedForward`. Both are about the end of
a push and rest on what it carries until then: its row and company are as loaded or later
(`Forward`), it has stored nothing while it applies its batch and has announced what it
stored when it registers (`Progress`). `PullsComplete` is about the other direction: while
rows are committed in the order of their dates, each client is known to have every row that
is not dated after its cursor, and a running pull to have read the company row that is still
there (`Holds`). A commit dates what it changes after every cursor (`OrderlyCommit`), so it
can only move a row to the side the filter lets through; a bootstrap starts before all dates.

**`OrderCostsProofs`.** `UndisturbedAgree`. What is computed agrees with the lines it is
computed from, whatever the columns were before (`RecomputedAgrees`), but the commit writes
only what differs from what was loaded. `CostsInv` says what a request carries while nothing
has overlapped it: the columns it loaded are those there are, an edited line is as it was
read, and what it computed agrees with the lines it sees (`Carries`). A commit marks every
request under way as overlapped, so it disturbs no other.

**`AccessProofs`.** *Sessions*: `SessionTypes`, `BarredHoldNothingNew`. `SessionsBacked`
speaks of tokens and served requests; the request between reading the account and issuing
is covered by `RowRead`, and `RealmKept` keeps a contact's token out of the other realms.
*Roles*: `PermissionsHaveBacking`, `DecisionsAreKept`, `LimitHasCause`. `RoleInv` says
that a handler that has read holds what its kind reads (`TaskRead`), that what is kept of
a user is of one that exists (`Known`), and of every user that is not contested: one row at
each site (`OneRow`), the decided role in that row and in `users.role` (`InForce`). It
survives overlapping handlers because an approval changes the row it found or inserts one,
and the second of two decisions marks its user as contested (`Counted`: a request is
approved exactly when its decision was counted). The
limit is an argument about sizes: a count that is still the one that found room leaves room
for one more (`RoomForOne`), and every step that adds more than one user, or adds one to
another count, is a cause the property names (`Explain`).
*Routing*: `RoutesHome`, `LoginsWhileActive`, `SlugsApart`, for any time to live
and any pool. `ThreadOK` says what a request carries between its steps, `SlugCacheOK` and
`CompanyCacheOK` what a cached route says; both survive because a database never loses a
company and a suspension is stamped with its time (`Grows`). `SlugOnce` adds that a
creation under way still finds no route of its slug while it is the only one.
*Isolation*: `CompaniesApart` and `WritesAtHome`, for any rows, connections and requests: `LinksApart`
is kept by every statement on its own account, for kind, company and home of a row are
never rewritten (`InsertApart`, `RelinkApart`, `DeleteApart`); what a request is shown or
writes needs `ContextOK`, that a connection carries the context of the one session that
holds it, or none.

**`PlatformProofs`.** `SavesAreKept`, `PlatformTypeCorrect`, `RevisionsTellAll`,
`PoliciesScoped`, `LicencesTellAll`, `DatabasesAgree`.
*The file*: while saves are serial, at most one request is under way, it is hindered by
nobody, and the text it has read, or the file, holds what has landed (`SerialInv`); the
revision of a text is the *number* of changes that were counted.
*The company*: what a request is about to store are the settings there are, unless the
history says they have changed since (`FreshInv`, inductive together with the types).
`RevisionTellsAll` is not inductive: between the commit of a change and the commit of its
revision, a client that reads the row has the new content under the old number. `RevInv`
therefore allows a request that `Owes` the count, and adds that no copy is ahead of the
company. `LicenceInv` does the same for what a desktop holds, where the change may also
come from an edit of a plan (`PlanOwes`) and the platform's revision has to be read from a
file that is open (`GlobalInv`, `Current`).
*The two databases*: with one patch, or one assignment, each place of that request has its
own relation between the two (`PatchAt`, `AssignAt`); nobody else writes those columns.
*Policies*: a store changes one scope of one document (`ScopeKept`), and resolving is
independent of the scopes it does not reach, with the bounds of `resolve_tenant_session`
proved for every document.

**`RecordsProofs`.** `StockAddsUp`, `UndisturbedMovesCount`, `LoginAttemptsBounded`,
`NamesApart`, `QuotasHold`, `PolicyMatches`, `DocumentsTell`.
*Finite sums.* Stock and limiter add up with a fold, and the policy is found by one. The
provers cannot instantiate an induction theorem, so induction is done by hand: a recursion
over the subsets of a finite set has one solution (`AddsUnique`) and has one at all
(`AddsExists`), in each case by taking a least set where it fails, which exists because
strict inclusion is well-founded on the finite subsets (`FinMin`, `NatMin`). From there on
the sums obey the laws the proofs use: `SumRemove`, `SumUnder`, `SumPlusOne`.
*Stock*: `StockExplained` covers the quantity and what every adjustment is about to write;
`ItemInv` adds that an adjustment nothing has overlapped has read the quantity there is.
An overlapped one writes an older quantity and its own change, which is again a sum of
some movements (`MakesUpAppend`).
*Limiter*: of a store nothing has overtaken, the stamps that are left are exactly what the
window counts (`WhatIsLeft`), so an attempt is let in exactly when the window has room;
`Full` covers the attempts that were refused and have not been answered.
*Names*: what a check found must last until the commit. A key is of one table
(`OneTable`), a kind two requests have checked at once is `crossed`, and for any other kind
the one request that has checked still finds its name free (`StillFree`): another kind's
rows do not collide with it, its own kind's unique index refuses, and a push of an
unindexed kind does not exist.
*Quotas*: a request that has counted has room for one more order, or its contract is
excused (`MayRely`); a commit takes that room and excuses the others that had counted. That
a new month starts empty is arithmetic (`MonthsPass`). An update has compared the terms
there are, or its contract is `tangled` (`ComparedWith`).
*Policies*: the loop of `find_matching_sla_policy` equals a description without a loop,
the earliest of the best candidates (`Found`, `FoundStep`, `LoopFinds`), and scores are the
levels of the precedence (`SaysIs`), read from the other end (`Mirrored`).
*Documents*: the number of a document is a count plus one, so the proof is about sizes. Until
its commit a request carries the number the rows still give it (unless its topic is
`overlapped`), a code that is its order's or in nobody else's hands (unless the order is
`recoded`), and files that show that code (unless their path is `crowded`); this is
`EntryOK`, and `PairOK` says what two requests may share. Committed rows are numbered by
their rank in their topic (`RevsOK`), so a commit adds the next rank and leaves the others.
What is assumed of the constants is what a configuration means: months have days, quotas
are numbers or none, a contract does not start backwards (the schema checks it at
creation), the work of a request names contracts there are (`IntakeWorkAssumption`), a
primary key is of one table and the rows at the start have names of their own
(`KeptAssumption`, `RecordWorkAssumption`, `RecordPushesAssumption`), no kind or
priority is the value that stands for every one (`UnsetAssumption`), orders start without
a code or with codes of their own (`FreshAssumption`), and a printing names an order and
formats there are, none twice (`PrintWorkAssumption`).

## 8 What is only model-checked

* Liveness (`RequestsEnd`, `CreationsEnd`, `StreamsCatchUp`): temporal reasoning about
  fairness and `ENABLED` is beyond this prover.
* The properties of the `violation` runs are false, so there is nothing to prove. Every
  other invariant, action property and refinement of section 4 has a theorem.

## 9 Where the code and its words part

The three `violation` runs each end in a trace of TLC; `findings` in `PROJECT.json`
quotes the line that says otherwise.

1. The portal's cancellation evaluates `changed_by.id` of `None`, and answers 500
   (`portal_cancel`).
2. A site that takes over a code meets the numbers issued under it (`numbering_reuse`).
3. A plan that is edited does not reach the licences of companies that were assigned it,
   because the assignment copied the plan's modules into the company (`plan_edit`).

Races the code permits, where nothing it says is contradicted, are not runs of their own:
they are the excuses in the properties of section 4. Two overlapping status changes can
move an order along a step the table forbids; a pushed status leaves no timeline entry;
overlapping changes of cost lines leave totals that match no set of lines until the next
request; two withdrawals can sell the last piece twice; quotas, user limits and names
without a constraint can be exceeded or doubled by requests that cross.

## 10 Not modelled

* **Field reports**: plain rows, every column set as it was sent.
* **Analytics, listings, exports**: read-only. **E-mail, audit, storage**: output.
* **Middleware, schemas, scripts, seed data, tests**: plumbing and declarations. Of the
  migrations only the row policies and company triggers.
* **Password hashing, signatures**: cryptography. **Billing and Stripe**: stubs.
* **Row policies** of tables that came after migration 010 do not exist; sites, roles,
  suppliers and the companies table follow the same policy as the tables modelled. That a
  session works on after its first commit without a context, and then sees nothing under a
  role that is subject to the policies, is in the model; that handlers then fail is not.
* Inside the modelled components: descriptive columns, wording of errors, images, barcodes,
  suppliers, parent equipment, the layout of documents, RUT formatting, metrics. The
  invitation of portal users is left out: it reads `ctx.user_id`, which no context has,
  and always fails.

## 11 Plan

Done: every component of the inventory that keeps state and rules of its own. Left, in the
order of what they would add:

1. The safety part of `StreamsCatchUp`: what an open stream has been sent and not yet read
   tells it of every revision it lacks.
2. Order images with their upload limit, and the backfill of sequences from existing
   orders (`_sync_sequences_from_existing_orders`).
3. An abstract last-writer-wins register for `AdminSync`, refined under the condition
   `orderly`.
4. Field reports and suppliers, as far as their rows refer to orders and items.
