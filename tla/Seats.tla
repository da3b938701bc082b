-------------------------------- MODULE Seats --------------------------------
(***************************************************************************)
(* The register of desktop installations ("puestos") in the catalogue      *)
(* database: app/services/installation_service.py and the transactions its *)
(* callers run it in.  Several requests run at once, each in a PostgreSQL  *)
(* READ COMMITTED transaction of its own: a request's queries see what was *)
(* committed before each of them, and its writes appear when it commits.   *)
(* Registrations of one company are serialised by an advisory lock held to *)
(* the end of the transaction; revocations and plan changes are not.       *)
(***************************************************************************)
EXTENDS Integers, FiniteSets

CONSTANTS Companies,      \* tenants
          Installations,  \* identifiers of desktop installations
          Requests,       \* concurrently running requests
          Limits,         \* seat limits a plan definition may carry
          LockKeys,       \* values of the advisory lock key
          LockKeyOf,      \* the key of each company: company_id.int % (2**63 - 1)
          None            \* no request, no company, no installation

ASSUME LimitsAssumption   == Limits \subseteq Nat
ASSUME LockKeyAssumption  == LockKeyOf \in [Companies -> LockKeys]
ASSUME NoneAssumption     == None \notin Requests
ASSUME InstallAssumption  == IsFiniteSet(Installations)

VARIABLES
  seats,       \* seats[c][i]: committed row of tenant_installations
  limit,       \* limit[c]: active_seats_limit of the plan in force
  ceiling,     \* ceiling[c]: largest limit in force so far (history)
  lockHolder,  \* lockHolder[k]: transaction holding advisory lock k, or None
  req          \* req[r]: progress and local reads of request r

vars == <<seats, limit, ceiling, lockHolder, req>>

SeatState == {"free", "active", "revoked"}

RegisterPC == {"waiting", "locked", "touching", "counting", "granting"}
LockedPC   == RegisterPC \ {"waiting"}
PC         == RegisterPC \cup {"idle", "revoking"}

IdleRequest == [pc |-> "idle", company |-> None, installation |-> None,
                limit |-> 0, counted |-> 0]

ActiveSeats(c) == {i \in Installations : seats[c][i] = "active"}

\* The seat and the lock key a request works on.
SeatOf(r) == seats[req[r].company][req[r].installation]
KeyOf(r)  == LockKeyOf[req[r].company]

TypeOK ==
  /\ seats \in [Companies -> [Installations -> SeatState]]
  /\ limit \in [Companies -> Nat]
  /\ ceiling \in [Companies -> Nat]
  /\ lockHolder \in [LockKeys -> Requests \cup {None}]
  /\ req \in [Requests -> [pc : PC,
                           company : Companies \cup {None},
                           installation : Installations \cup {None},
                           limit : Nat,
                           counted : Nat]]
  /\ \A r \in Requests : req[r].pc # "idle" =>
        req[r].company \in Companies /\ req[r].installation \in Installations

Init ==
  /\ seats = [c \in Companies |-> [i \in Installations |-> "free"]]
  /\ limit \in [Companies -> Limits]
  /\ ceiling = limit
  /\ lockHolder = [k \in LockKeys |-> None]
  /\ req = [r \in Requests |-> IdleRequest]

-----------------------------------------------------------------------------
(* Registration: register_or_touch_installation and the commit after it.   *)

(* A definition named ..._Faulty is the definition that follows it with a   *)
(* plausible mistake; no formula uses it.                                  *)

\* A session-level advisory lock, which the end of the transaction keeps.
Finish_Faulty(r) ==
  /\ req' = [req EXCEPT ![r] = IdleRequest]
  /\ UNCHANGED lockHolder

\* The end of a transaction releases the locks it holds.
Finish(r) ==
  /\ req' = [req EXCEPT ![r] = IdleRequest]
  /\ lockHolder' = [k \in LockKeys |-> IF lockHolder[k] = r THEN None
                                                           ELSE lockHolder[k]]

Goto(r, step) == req' = [req EXCEPT ![r].pc = step]

\* The plan's limit is read first, before the lock is asked for.
ReadPolicy(r, c, i) ==
  /\ req[r].pc = "idle"
  /\ req' = [req EXCEPT ![r] = [pc |-> "waiting", company |-> c, installation |-> i,
                                limit |-> limit[c], counted |-> 0]]
  /\ UNCHANGED <<seats, limit, ceiling, lockHolder>>

\* No waiting for the lock.
AdvisoryLock_Faulty(r) ==
  /\ req[r].pc = "waiting"
  /\ lockHolder' = [lockHolder EXCEPT ![KeyOf(r)] = r]
  /\ Goto(r, "locked")
  /\ UNCHANGED <<seats, limit, ceiling>>

AdvisoryLock(r) ==
  /\ req[r].pc = "waiting"
  /\ lockHolder[KeyOf(r)] = None
  /\ lockHolder' = [lockHolder EXCEPT ![KeyOf(r)] = r]
  /\ Goto(r, "locked")
  /\ UNCHANGED <<seats, limit, ceiling>>

\* A revoked row is taken for a missing one.
FindExisting_Faulty(r) ==
  /\ req[r].pc = "locked"
  /\ Goto(r, IF SeatOf(r) = "active" THEN "touching" ELSE "counting")
  /\ UNCHANGED <<seats, limit, ceiling, lockHolder>>

\* SELECT ... FOR UPDATE of the installation's row: a revoked row is refused
\* (403), an active one is only touched, a missing one goes on to the count.
FindExisting(r) ==
  /\ req[r].pc = "locked"
  /\ \/ /\ SeatOf(r) = "revoked"
        /\ Finish(r)
     \/ /\ SeatOf(r) = "active"
        /\ Goto(r, "touching")
        /\ UNCHANGED lockHolder
     \/ /\ SeatOf(r) = "free"
        /\ Goto(r, "counting")
        /\ UNCHANGED lockHolder
  /\ UNCHANGED <<seats, limit, ceiling>>

\* last_seen_at, hostname and last_successful_sync_at are all a touch writes.
CommitTouch(r) ==
  /\ req[r].pc = "touching"
  /\ Finish(r)
  /\ UNCHANGED <<seats, limit, ceiling>>

\* > for >= in the comparison with the limit.
CountSeats_Faulty(r) ==
  /\ req[r].pc = "counting"
  /\ LET active == Cardinality(ActiveSeats(req[r].company))
     IN  \/ /\ active > req[r].limit
            /\ Finish(r)
         \/ /\ active <= req[r].limit
            /\ req' = [req EXCEPT ![r].pc = "granting", ![r].counted = active]
            /\ UNCHANGED lockHolder
  /\ UNCHANGED <<seats, limit, ceiling>>

CountSeats(r) ==
  /\ req[r].pc = "counting"
  /\ LET active == Cardinality(ActiveSeats(req[r].company))
     IN  \/ /\ active >= req[r].limit
            /\ Finish(r)
         \/ /\ active < req[r].limit
            /\ req' = [req EXCEPT ![r].pc = "granting", ![r].counted = active]
            /\ UNCHANGED lockHolder
  /\ UNCHANGED <<seats, limit, ceiling>>

CommitGrant(r) ==
  /\ req[r].pc = "granting"
  /\ seats' = [seats EXCEPT ![req[r].company][req[r].installation] = "active"]
  /\ Finish(r)
  /\ UNCHANGED <<limit, ceiling>>

\* A request that fails or loses its connection is rolled back.
Rollback(r) ==
  /\ req[r].pc # "idle"
  /\ Finish(r)
  /\ UNCHANGED <<seats, limit, ceiling>>

-----------------------------------------------------------------------------
(* Revocation and plan changes: neither takes the advisory lock.           *)

\* 404 when there is no row; nothing is written when it is already revoked.
ReadSeatToRevoke(r, c, i) ==
  /\ req[r].pc = "idle"
  /\ seats[c][i] = "active"
  /\ req' = [req EXCEPT ![r] = [IdleRequest EXCEPT !.pc = "revoking", !.company = c,
                                                   !.installation = i]]
  /\ UNCHANGED <<seats, limit, ceiling, lockHolder>>

\* The UPDATE waits for a transaction that holds the row FOR UPDATE.
CommitRevoke(r) ==
  /\ req[r].pc = "revoking"
  /\ \A q \in Requests : req[q].pc = "touching" =>
        <<req[q].company, req[q].installation>> # <<req[r].company, req[r].installation>>
  /\ seats' = [seats EXCEPT ![req[r].company][req[r].installation] = "revoked"]
  /\ Finish(r)
  /\ UNCHANGED <<limit, ceiling>>

\* Another plan, or another definition of the plan, comes into force.
ChangePlan(c, n) ==
  /\ limit' = [limit EXCEPT ![c] = n]
  /\ ceiling' = [ceiling EXCEPT ![c] = IF n > @ THEN n ELSE @]
  /\ UNCHANGED <<seats, lockHolder, req>>

-----------------------------------------------------------------------------
Advance(r) == \/ AdvisoryLock(r) \/ FindExisting(r) \/ CommitTouch(r)
              \/ CountSeats(r)   \/ CommitGrant(r)  \/ CommitRevoke(r)

Next ==
  \/ \E r \in Requests : Advance(r) \/ Rollback(r)
  \/ \E r \in Requests, c \in Companies, i \in Installations :
        ReadPolicy(r, c, i) \/ ReadSeatToRevoke(r, c, i)
  \/ \E c \in Companies, n \in Limits : ChangePlan(c, n)

Spec == Init /\ [][Next]_vars

\* A started request is run by a server thread until it ends, and PostgreSQL
\* queues the waiters of an advisory lock and of a row lock in arrival order.
Fairness == \A r \in Requests : /\ SF_vars(AdvisoryLock(r))
                                /\ SF_vars(CommitRevoke(r))
                                /\ WF_vars(Advance(r))

FairSpec == Spec /\ Fairness

-----------------------------------------------------------------------------
(* Properties                                                              *)

\* The company never has more active seats than the largest limit its plan has
\* carried, whatever registrations, revocations and plan changes overlap: the
\* race the lock of _advisory_lock_company_seats exists to prevent.
SeatCap == \A c \in Companies : Cardinality(ActiveSeats(c)) <= ceiling[c]

\* A revoked installation is never active again, not even through a
\* registration that was in flight while it was revoked (the 403 of
\* register_or_touch_installation).
RevocationIsFinal ==
  [][\A c \in Companies, i \in Installations :
        seats[c][i] = "revoked" => seats'[c][i] = "revoked"]_vars

\* Every request that starts is answered: no registration waits for ever on the
\* advisory lock and no revocation on a row lock.
RequestsEnd == \A r \in Requests : (req[r].pc # "idle") ~> (req[r].pc = "idle")

\* The parts of the inductive invariant: a registration past the lock holds it,
\* works with a limit that was in force, and its count still bounds the active
\* seats of its company when it grants a seat that is still free.
LockHeld == \A r \in Requests : req[r].pc \in LockedPC => lockHolder[KeyOf(r)] = r

PolicyWasInForce ==
  /\ \A c \in Companies : limit[c] <= ceiling[c]
  /\ \A r \in Requests : req[r].pc \in RegisterPC => req[r].limit <= ceiling[req[r].company]

CountStillBounds ==
  \A r \in Requests : req[r].pc = "granting" =>
     /\ Cardinality(ActiveSeats(req[r].company)) <= req[r].counted
     /\ req[r].counted < req[r].limit

SeatStillFree ==
  \A r \in Requests : /\ req[r].pc \in {"counting", "granting"} => SeatOf(r) = "free"
                      /\ req[r].pc = "revoking" => SeatOf(r) # "free"

\* Inductive: the count a registration took under the lock is still an upper
\* bound when it inserts its row (register_or_touch_installation).
RegistrationInv ==
  /\ TypeOK
  /\ LockHeld
  /\ PolicyWasInForce
  /\ CountStillBounds
  /\ SeatStillFree
  /\ SeatCap

\* The interleaved register implements the indivisible one: each step of a
\* registration or a revocation is one abstract step or none.
Pool == INSTANCE SeatPool
PoolSpec == Pool!Spec
=============================================================================
