----------------------------- MODULE SeatsProofs -----------------------------
(***************************************************************************)
(* Proofs about the seat register for any number of companies, requests    *)
(* and installations, any limits and any assignment of lock keys: type     *)
(* correctness, the inductive invariant behind the seat cap, the finality  *)
(* of revocations, and the refinement of SeatPool.                         *)
(***************************************************************************)
EXTENDS Seats, FiniteSetTheorems, TLAPS

\* The active seats of a company are a finite set, so counting them is
\* meaningful (_active_seat_count).
LEMMA ActiveSeatsFinite ==
  ASSUME NEW c \in Companies
  PROVE  /\ IsFiniteSet(ActiveSeats(c))
         /\ Cardinality(ActiveSeats(c)) \in Nat
<1>1. ActiveSeats(c) \subseteq Installations
  BY DEF ActiveSeats
<1>2. IsFiniteSet(ActiveSeats(c))
  BY <1>1, InstallAssumption, FS_Subset
<1>3. QED
  BY <1>2, FS_CardinalityType

\* Writing one seat changes the active seats of its company by that seat only
\* (the INSERT of a registration, the UPDATE of a revocation).
LEMMA OneSeatWritten ==
  ASSUME seats \in [Companies -> [Installations -> SeatState]],
         NEW c \in Companies, NEW i \in Installations, NEW s \in SeatState,
         seats' = [seats EXCEPT ![c][i] = s]
  PROVE  /\ seats' \in [Companies -> [Installations -> SeatState]]
         /\ \A d \in Companies : d # c => ActiveSeats(d)' = ActiveSeats(d)
         /\ ActiveSeats(c)' = IF s = "active" THEN ActiveSeats(c) \cup {i}
                                              ELSE ActiveSeats(c) \ {i}
BY DEF ActiveSeats

\* After any write of a seat the count grows by at most one, and only when a
\* free seat is granted (register_or_touch_installation, revoke_installation).
LEMMA CountAfterWrite ==
  ASSUME seats \in [Companies -> [Installations -> SeatState]],
         NEW c \in Companies, NEW i \in Installations, NEW s \in {"active", "revoked"},
         seats' = [seats EXCEPT ![c][i] = s]
  PROVE  /\ \A d \in Companies : Cardinality(ActiveSeats(d)') \in Nat
         /\ \A d \in Companies \ {c} : Cardinality(ActiveSeats(d)') = Cardinality(ActiveSeats(d))
         /\ s = "revoked" => Cardinality(ActiveSeats(c)') <= Cardinality(ActiveSeats(c))
         /\ s = "active" => Cardinality(ActiveSeats(c)') <= Cardinality(ActiveSeats(c)) + 1
<1>1. /\ \A d \in Companies \ {c} : ActiveSeats(d)' = ActiveSeats(d)
      /\ ActiveSeats(c)' = IF s = "active" THEN ActiveSeats(c) \cup {i}
                                           ELSE ActiveSeats(c) \ {i}
  BY OneSeatWritten DEF SeatState
<1>2. IsFiniteSet(ActiveSeats(c)) /\ Cardinality(ActiveSeats(c)) \in Nat
  BY ActiveSeatsFinite
<1>3. CASE s = "revoked"
  <2>1. ActiveSeats(c)' \subseteq ActiveSeats(c)
    BY <1>1, <1>3
  <2>2. /\ Cardinality(ActiveSeats(c)') \in Nat
        /\ Cardinality(ActiveSeats(c)') <= Cardinality(ActiveSeats(c))
    BY <2>1, <1>2, FS_Subset, FS_CardinalityType
  <2>3. QED
    BY <1>1, <1>3, <2>2, ActiveSeatsFinite
<1>4. CASE s = "active"
  <2>1. ActiveSeats(c)' = ActiveSeats(c) \cup {i}
    BY <1>1, <1>4
  <2>2. Cardinality(ActiveSeats(c) \cup {i}) =
           IF i \in ActiveSeats(c) THEN Cardinality(ActiveSeats(c))
                                   ELSE Cardinality(ActiveSeats(c)) + 1
    BY <1>2, FS_AddElement, Zenon
  <2>3. /\ Cardinality(ActiveSeats(c)') \in Nat
        /\ Cardinality(ActiveSeats(c)') <= Cardinality(ActiveSeats(c)) + 1
    BY <2>1, <2>2, <1>2
  <2>4. QED
    BY <1>1, <1>4, <2>3, ActiveSeatsFinite
<1>5. QED
  BY <1>3, <1>4

\* A request that moves on keeps its type, its company and its installation
\* (the steps inside register_or_touch_installation).
LEMMA GotoTyped ==
  ASSUME TypeOK, NEW r \in Requests, NEW step \in PC, req[r].pc # "idle",
         NEW n \in Nat, req' = [req EXCEPT ![r].pc = step, ![r].counted = n]
                        \/ req' = [req EXCEPT ![r].pc = step]
  PROVE  /\ req' \in [Requests -> [pc : PC,
                                   company : Companies \cup {None},
                                   installation : Installations \cup {None},
                                   limit : Nat,
                                   counted : Nat]]
         /\ \A q \in Requests :
               /\ req'[q].pc = IF q = r THEN step ELSE req[q].pc
               /\ req'[q].company = req[q].company
               /\ req'[q].installation = req[q].installation
               /\ req'[q].limit = req[q].limit
<1>1. req \in [Requests -> [pc : PC, company : Companies \cup {None},
                            installation : Installations \cup {None},
                            limit : Nat, counted : Nat]]
  BY DEF TypeOK
<1>2. QED
  BY <1>1

\* A request that ends is idle and holds no lock; every other request keeps
\* what it had (commit and rollback in the callers of installation_service).
LEMMA FinishTyped ==
  ASSUME TypeOK, NEW r \in Requests, Finish(r)
  PROVE  /\ req' \in [Requests -> [pc : PC,
                                   company : Companies \cup {None},
                                   installation : Installations \cup {None},
                                   limit : Nat,
                                   counted : Nat]]
         /\ lockHolder' \in [LockKeys -> Requests \cup {None}]
         /\ req'[r].pc = "idle"
         /\ \A q \in Requests \ {r} : req'[q] = req[q]
         /\ \A l \in LockKeys : lockHolder[l] # r => lockHolder'[l] = lockHolder[l]
BY DEF TypeOK, Finish, IdleRequest, PC

-----------------------------------------------------------------------------
\* The catalogue starts with no installation and no request running.
LEMMA TypeInit ==
  ASSUME Init
  PROVE  TypeOK
<1>1. limit \in [Companies -> Nat] /\ ceiling \in [Companies -> Nat]
  BY LimitsAssumption DEF Init
<1>2. req \in [Requests -> {IdleRequest}]
  BY DEF Init
<1>3. QED
  BY <1>1, <1>2 DEF Init, TypeOK, IdleRequest, PC, SeatState

\* Every step of every handler keeps the state well typed.
LEMMA TypeStep ==
  ASSUME TypeOK, [Next]_vars
  PROVE  TypeOK'
<1>1. ASSUME NEW r \in Requests, AdvisoryLock(r) PROVE TypeOK'
  <2>1. "locked" \in PC /\ req[r].pc # "idle" /\ 0 \in Nat
    BY <1>1 DEF AdvisoryLock, PC, RegisterPC
  <2>2. KeyOf(r) \in LockKeys
    BY <2>1, LockKeyAssumption DEF KeyOf, TypeOK
  <2>3. lockHolder' \in [LockKeys -> Requests \cup {None}]
    BY <1>1, <2>2 DEF AdvisoryLock, TypeOK
  <2>4. QED
    BY <1>1, <2>1, <2>3, GotoTyped DEF AdvisoryLock, Goto, TypeOK
<1>2. ASSUME NEW r \in Requests, FindExisting(r) PROVE TypeOK'
  <2>1. /\ "touching" \in PC /\ "counting" \in PC
        /\ req[r].pc # "idle" /\ 0 \in Nat
    BY <1>2 DEF FindExisting, PC, RegisterPC
  <2>2. CASE Finish(r)
    BY <1>2, <2>2, FinishTyped DEF FindExisting, TypeOK
  <2>3. CASE Goto(r, "touching") /\ UNCHANGED lockHolder
    BY <1>2, <2>1, <2>3, GotoTyped DEF FindExisting, Goto, TypeOK
  <2>4. CASE Goto(r, "counting") /\ UNCHANGED lockHolder
    BY <1>2, <2>1, <2>4, GotoTyped DEF FindExisting, Goto, TypeOK
  <2>5. QED
    BY <1>2, <2>2, <2>3, <2>4 DEF FindExisting
<1>3. ASSUME NEW r \in Requests, CommitTouch(r) PROVE TypeOK'
  BY <1>3, FinishTyped DEF CommitTouch, TypeOK
<1>4. ASSUME NEW r \in Requests, CountSeats(r) PROVE TypeOK'
  <2>1. req[r].company \in Companies /\ req[r].pc # "idle" /\ "granting" \in PC
    BY <1>4 DEF CountSeats, TypeOK, PC, RegisterPC
  <2>2. Cardinality(ActiveSeats(req[r].company)) \in Nat
    BY <2>1, ActiveSeatsFinite
  <2>3. CASE Finish(r)
    BY <1>4, <2>3, FinishTyped DEF CountSeats, TypeOK
  <2>4. CASE /\ req' = [req EXCEPT ![r].pc = "granting",
                          ![r].counted = Cardinality(ActiveSeats(req[r].company))]
             /\ UNCHANGED lockHolder
    BY <1>4, <2>1, <2>2, <2>4, GotoTyped DEF CountSeats, TypeOK
  <2>5. QED
    BY <1>4, <2>3, <2>4 DEF CountSeats
<1>5. ASSUME NEW r \in Requests, CommitGrant(r) PROVE TypeOK'
  BY <1>5, FinishTyped DEF CommitGrant, TypeOK, SeatState
<1>6. ASSUME NEW r \in Requests, CommitRevoke(r) PROVE TypeOK'
  BY <1>6, FinishTyped DEF CommitRevoke, TypeOK, SeatState
<1>7. ASSUME NEW r \in Requests, Rollback(r) PROVE TypeOK'
  BY <1>7, FinishTyped DEF Rollback, TypeOK
<1>8. ASSUME NEW r \in Requests, NEW c \in Companies, NEW i \in Installations,
             ReadPolicy(r, c, i)
      PROVE  TypeOK'
  BY <1>8 DEF ReadPolicy, TypeOK, PC, RegisterPC
<1>9. ASSUME NEW r \in Requests, NEW c \in Companies, NEW i \in Installations,
             ReadSeatToRevoke(r, c, i)
      PROVE  TypeOK'
  BY <1>9 DEF ReadSeatToRevoke, TypeOK, PC, IdleRequest
<1>10. ASSUME NEW c \in Companies, NEW n \in Limits, ChangePlan(c, n) PROVE TypeOK'
  BY <1>10, LimitsAssumption DEF ChangePlan, TypeOK
<1>11. CASE UNCHANGED vars
  BY <1>11 DEF vars, TypeOK
<1>12. QED
  BY <1>1, <1>2, <1>3, <1>4, <1>5, <1>6, <1>7, <1>8, <1>9, <1>10, <1>11 DEF Next, Advance

\* Every reachable state is well typed, and a request in progress works on an
\* existing company and installation (Seats, all handlers).
THEOREM TypeCorrect == Spec => []TypeOK
<1>1. Init => TypeOK
  BY TypeInit
<1>2. TypeOK /\ [Next]_vars => TypeOK'
  BY TypeStep
<1>3. QED
  BY <1>1, <1>2, PTL DEF Spec

-----------------------------------------------------------------------------
\* While the seats do not change, neither do the sets of active ones.
LEMMA SeatsKept ==
  ASSUME UNCHANGED seats
  PROVE  \A c \in Companies : ActiveSeats(c)' = ActiveSeats(c)
BY DEF ActiveSeats

\* Two registrations past the advisory lock work on different companies: the
\* lock of a company's key has one holder (_advisory_lock_company_seats).
LEMMA Exclusive ==
  ASSUME LockHeld, NEW r \in Requests, NEW q \in Requests,
         req[r].pc \in LockedPC, req[q].pc \in LockedPC,
         req[r].company = req[q].company
  PROVE  r = q
BY DEF LockHeld, KeyOf

\* Ending a request leaves the locks and the limits of the others as they were.
LEMMA FinishLocks ==
  ASSUME TypeOK, LockHeld, PolicyWasInForce, NEW r \in Requests, Finish(r),
         UNCHANGED <<limit, ceiling>>
  PROVE  LockHeld' /\ PolicyWasInForce'
<1>1. /\ req'[r].pc = "idle"
      /\ \A q \in Requests \ {r} : req'[q] = req[q]
      /\ \A l \in LockKeys : lockHolder[l] # r => lockHolder'[l] = lockHolder[l]
  BY FinishTyped
<1>2. LockHeld'
  <2> SUFFICES ASSUME NEW q \in Requests, req'[q].pc \in LockedPC
               PROVE  lockHolder'[LockKeyOf[req'[q].company]] = q
    BY DEF LockHeld, KeyOf
  <2>1. q # r /\ req'[q] = req[q]
    BY <1>1 DEF LockedPC, RegisterPC
  <2>2. lockHolder[LockKeyOf[req[q].company]] = q /\ LockKeyOf[req[q].company] \in LockKeys
    BY <2>1, LockKeyAssumption DEF LockHeld, KeyOf, TypeOK, LockedPC, RegisterPC
  <2>3. QED
    BY <1>1, <2>1, <2>2
<1>3. PolicyWasInForce'
  BY <1>1 DEF PolicyWasInForce, RegisterPC
<1>4. QED
  BY <1>2, <1>3

\* Ending a request without writing a seat keeps the invariant: the refusals,
\* the touch and the rollback of register_or_touch_installation.
LEMMA FinishKeeps ==
  ASSUME RegistrationInv, TypeOK', NEW r \in Requests, Finish(r),
         UNCHANGED <<seats, limit, ceiling>>
  PROVE  RegistrationInv'
<1>1. /\ req'[r].pc = "idle"
      /\ \A q \in Requests \ {r} : req'[q] = req[q]
  BY FinishTyped DEF RegistrationInv
<1>2. LockHeld' /\ PolicyWasInForce'
  BY FinishLocks DEF RegistrationInv
<1>3. CountStillBounds'
  <2> SUFFICES ASSUME NEW q \in Requests, req'[q].pc = "granting"
               PROVE  (/\ Cardinality(ActiveSeats(req[q].company)) <= req[q].counted
                       /\ req[q].counted < req[q].limit)'
    BY DEF CountStillBounds
  <2>1. req'[q] = req[q] /\ req[q].pc = "granting"
    BY <1>1
  <2>2. ActiveSeats(req[q].company)' = ActiveSeats(req[q].company)
    BY <2>1 DEF ActiveSeats
  <2>3. QED
    BY <2>1, <2>2 DEF RegistrationInv, CountStillBounds
<1>4. SeatStillFree'
  BY <1>1 DEF RegistrationInv, SeatStillFree, SeatOf
<1>5. SeatCap'
  BY SeatsKept DEF RegistrationInv, SeatCap
<1>6. QED
  BY <1>2, <1>3, <1>4, <1>5 DEF RegistrationInv

\* Moving on inside a transaction, without writing a seat, keeps the invariant
\* when what the new step relies on holds: the lock for a step past it, a free
\* seat for the count, a count below the limit for the grant.
LEMMA GotoKeeps ==
  ASSUME RegistrationInv, TypeOK', UNCHANGED <<seats, limit, ceiling>>,
         NEW r \in Requests, NEW step \in LockedPC, NEW n \in Nat,
         req[r].pc \in RegisterPC,
         req' = [req EXCEPT ![r].pc = step, ![r].counted = n]
           \/ (req' = [req EXCEPT ![r].pc = step] /\ step # "granting"),
         lockHolder'[KeyOf(r)] = r,
         \A l \in LockKeys : lockHolder[l] # None => lockHolder'[l] = lockHolder[l],
         step \in {"counting", "granting"} => SeatOf(r) = "free",
         step = "granting" => /\ req'[r].counted = n
                              /\ Cardinality(ActiveSeats(req[r].company)) = n
                              /\ n < req[r].limit
  PROVE  RegistrationInv'
<1>1. \A q \in Requests :
         /\ req'[q].pc = IF q = r THEN step ELSE req[q].pc
         /\ req'[q].company = req[q].company
         /\ req'[q].installation = req[q].installation
         /\ req'[q].limit = req[q].limit
         /\ q # r => req'[q].counted = req[q].counted
  <2>1. TypeOK /\ step \in PC /\ req[r].pc # "idle"
    BY DEF RegistrationInv, LockedPC, PC, RegisterPC
  <2>2. QED
    BY <2>1, GotoTyped DEF TypeOK
<1>2. LockHeld'
  <2> SUFFICES ASSUME NEW q \in Requests, req'[q].pc \in LockedPC
               PROVE  lockHolder'[LockKeyOf[req'[q].company]] = q
    BY DEF LockHeld, KeyOf
  <2>1. CASE q = r
    BY <1>1, <2>1 DEF KeyOf
  <2>2. CASE q # r
    <3>1. /\ lockHolder[LockKeyOf[req[q].company]] = q
          /\ LockKeyOf[req[q].company] \in LockKeys
      BY <1>1, <2>2, LockKeyAssumption
      DEF RegistrationInv, LockHeld, KeyOf, TypeOK, LockedPC, RegisterPC
    <3>2. QED
      BY <1>1, <3>1, NoneAssumption
  <2>3. QED
    BY <2>1, <2>2
<1>3. PolicyWasInForce'
  BY <1>1 DEF RegistrationInv, PolicyWasInForce, RegisterPC, LockedPC
<1>4. CountStillBounds'
  <2> SUFFICES ASSUME NEW q \in Requests, req'[q].pc = "granting"
               PROVE  (/\ Cardinality(ActiveSeats(req[q].company)) <= req[q].counted
                       /\ req[q].counted < req[q].limit)'
    BY DEF CountStillBounds
  <2>1. ActiveSeats(req[q].company)' = ActiveSeats(req[q].company)
    BY <1>1 DEF ActiveSeats
  <2>2. CASE q = r
    BY <1>1, <2>1, <2>2
  <2>3. CASE q # r
    BY <1>1, <2>1, <2>3 DEF RegistrationInv, CountStillBounds
  <2>4. QED
    BY <2>2, <2>3
<1>5. SeatStillFree'
  <2> SUFFICES ASSUME NEW q \in Requests
               PROVE  /\ req'[q].pc \in {"counting", "granting"} => SeatOf(q) = "free"
                      /\ req'[q].pc = "revoking" => SeatOf(q) # "free"
    BY <1>1 DEF SeatStillFree, SeatOf
  <2>1. QED
    BY <1>1 DEF RegistrationInv, SeatStillFree, LockedPC, RegisterPC
<1>6. SeatCap'
  BY SeatsKept DEF RegistrationInv, SeatCap
<1>7. QED
  BY <1>2, <1>3, <1>4, <1>5, <1>6 DEF RegistrationInv

-----------------------------------------------------------------------------
\* Before any request has run there is nothing to count.
LEMMA RegistrationInit ==
  ASSUME Init
  PROVE  RegistrationInv
<1>1. TypeOK
  BY TypeInit
<1>2. \A r \in Requests : req[r].pc = "idle"
  BY DEF Init, IdleRequest
<1>3. \A c \in Companies : ActiveSeats(c) = {}
  BY DEF Init, ActiveSeats
<1>4. SeatCap
  <2> SUFFICES ASSUME NEW c \in Companies
               PROVE  Cardinality(ActiveSeats(c)) <= ceiling[c]
    BY DEF SeatCap
  <2>1. Cardinality(ActiveSeats(c)) = 0 /\ ceiling[c] \in Nat
    BY <1>1, <1>3, FS_EmptySet DEF TypeOK
  <2>2. QED
    BY <2>1
<1>5. \A c \in Companies : limit[c] <= ceiling[c]
  BY <1>1 DEF Init, TypeOK
<1>6. QED
  BY <1>1, <1>2, <1>4, <1>5 DEF RegistrationInv, LockHeld, PolicyWasInForce, CountStillBounds,
     SeatStillFree, LockedPC, RegisterPC

\* The INSERT of a registration: no other registration of the company is past
\* the lock, so the count it took still bounds the active seats.
LEMMA GrantKeeps ==
  ASSUME RegistrationInv, TypeOK', NEW r \in Requests, CommitGrant(r)
  PROVE  RegistrationInv'
<1>0. PICK c \in Companies, i \in Installations :
         c = req[r].company /\ i = req[r].installation
  BY DEF CommitGrant, RegistrationInv, TypeOK
<1>1. /\ TypeOK /\ c \in Companies /\ i \in Installations
      /\ req[r].pc = "granting" /\ req[r].pc \in LockedPC /\ req[r].pc \in RegisterPC
      /\ Finish(r) /\ UNCHANGED <<limit, ceiling>>
      /\ seats' = [seats EXCEPT ![c][i] = "active"]
  BY <1>0 DEF CommitGrant, RegistrationInv, TypeOK, LockedPC, RegisterPC
<1>2. /\ req'[r].pc = "idle"
      /\ \A q \in Requests \ {r} : req'[q] = req[q]
  BY <1>1, FinishTyped
<1>3. LockHeld' /\ PolicyWasInForce'
  BY <1>1, FinishLocks DEF RegistrationInv
<1>4. \A q \in Requests \ {r} : req[q].pc \in LockedPC => req[q].company # c
  BY <1>0, <1>1, Exclusive DEF RegistrationInv
<1>5. \A d \in Companies \ {c} : ActiveSeats(d)' = ActiveSeats(d)
  BY <1>1 DEF ActiveSeats, TypeOK
<1>6. CountStillBounds'
  <2> SUFFICES ASSUME NEW q \in Requests, req'[q].pc = "granting"
               PROVE  (/\ Cardinality(ActiveSeats(req[q].company)) <= req[q].counted
                       /\ req[q].counted < req[q].limit)'
    BY DEF CountStillBounds
  <2>1. q # r /\ req'[q] = req[q] /\ req[q].pc = "granting"
    BY <1>2
  <2>2. req[q].company \in Companies \ {c}
    BY <1>1, <1>4, <2>1 DEF TypeOK, LockedPC, RegisterPC
  <2>3. ActiveSeats(req[q].company)' = ActiveSeats(req[q].company)
    BY <1>1, <2>1, <2>2 DEF ActiveSeats, TypeOK
  <2>4. QED
    BY <2>1, <2>3 DEF RegistrationInv, CountStillBounds
<1>7. SeatStillFree'
  <2> SUFFICES ASSUME NEW q \in Requests
               PROVE  (/\ req[q].pc \in {"counting", "granting"} => SeatOf(q) = "free"
                       /\ req[q].pc = "revoking" => SeatOf(q) # "free")'
    BY DEF SeatStillFree
  <2>1. CASE q = r
    BY <1>2, <2>1
  <2>2. CASE q # r /\ req[q].pc \in {"counting", "granting"}
    <3>1. req[q].company \in Companies \ {c} /\ req[q].installation \in Installations
      BY <1>1, <1>4, <2>2 DEF TypeOK, LockedPC, RegisterPC
    <3>2. SeatOf(q)' = SeatOf(q)
      BY <1>1, <1>2, <2>2, <3>1 DEF SeatOf, TypeOK
    <3>3. QED
      BY <1>2, <2>2, <3>2 DEF RegistrationInv, SeatStillFree
  <2>3. CASE q # r /\ req[q].pc = "revoking"
    <3>1. req[q].company \in Companies /\ req[q].installation \in Installations
      BY <1>1, <2>3 DEF TypeOK
    <3>2. SeatOf(q)' \in {SeatOf(q), "active"}
      BY <1>1, <1>2, <2>3, <3>1 DEF SeatOf, TypeOK
    <3>3. QED
      BY <1>2, <2>3, <3>2 DEF RegistrationInv, SeatStillFree
  <2>4. CASE q # r /\ req[q].pc \notin {"counting", "granting", "revoking"}
    BY <1>2, <2>4
  <2>5. QED
    BY <2>1, <2>2, <2>3, <2>4
<1>8. SeatCap'
  <2>1. /\ Cardinality(ActiveSeats(c)) <= req[r].counted
        /\ req[r].counted < req[r].limit
        /\ req[r].limit <= ceiling[c]
        /\ Cardinality(ActiveSeats(c)) \in Nat
        /\ req[r].counted \in Nat /\ req[r].limit \in Nat /\ ceiling[c] \in Nat
    BY <1>0, <1>1, ActiveSeatsFinite
    DEF RegistrationInv, CountStillBounds, PolicyWasInForce, TypeOK
  <2>2. Cardinality(ActiveSeats(c)') \in Nat
        /\ Cardinality(ActiveSeats(c)') <= Cardinality(ActiveSeats(c)) + 1
    BY <1>1, CountAfterWrite DEF TypeOK
  <2>3. \A d \in Companies : Cardinality(ActiveSeats(d)') <= ceiling[d]
    <3> SUFFICES ASSUME NEW d \in Companies PROVE Cardinality(ActiveSeats(d)') <= ceiling[d]
      OBVIOUS
    <3>1. CASE d = c
      BY <2>1, <2>2, <3>1
    <3>2. CASE d # c
      BY <1>5, <3>2 DEF RegistrationInv, SeatCap
    <3>3. QED
      BY <3>1, <3>2
  <2>4. QED
    BY <1>1, <2>3 DEF SeatCap
<1>9. QED
  BY <1>3, <1>6, <1>7, <1>8 DEF RegistrationInv

\* The UPDATE of a revocation: the seat was not free, so no registration was
\* about to take it, and the counts of the company can only shrink.
LEMMA RevokeKeeps ==
  ASSUME RegistrationInv, TypeOK', NEW r \in Requests, CommitRevoke(r)
  PROVE  RegistrationInv'
<1>0. PICK c \in Companies, i \in Installations :
         c = req[r].company /\ i = req[r].installation
  BY DEF CommitRevoke, RegistrationInv, TypeOK
<1>1. /\ TypeOK /\ c \in Companies /\ i \in Installations
      /\ req[r].pc = "revoking" /\ Finish(r) /\ UNCHANGED <<limit, ceiling>>
      /\ seats' = [seats EXCEPT ![c][i] = "revoked"]
      /\ seats[c][i] # "free"
  BY <1>0 DEF CommitRevoke, RegistrationInv, TypeOK, SeatStillFree, SeatOf
<1>2. /\ req'[r].pc = "idle"
      /\ \A q \in Requests \ {r} : req'[q] = req[q]
  BY <1>1, FinishTyped
<1>3. LockHeld' /\ PolicyWasInForce'
  BY <1>1, FinishLocks DEF RegistrationInv
<1>4. \A d \in Companies : /\ Cardinality(ActiveSeats(d)') \in Nat
                           /\ Cardinality(ActiveSeats(d)) \in Nat
                           /\ Cardinality(ActiveSeats(d)') <= Cardinality(ActiveSeats(d))
  <2>1. \A d \in Companies : Cardinality(ActiveSeats(d)) \in Nat
    BY ActiveSeatsFinite
  <2>2. /\ \A d \in Companies : Cardinality(ActiveSeats(d)') \in Nat
        /\ \A d \in Companies \ {c} : Cardinality(ActiveSeats(d)') = Cardinality(ActiveSeats(d))
        /\ Cardinality(ActiveSeats(c)') <= Cardinality(ActiveSeats(c))
    <3>1. seats \in [Companies -> [Installations -> SeatState]] /\ "revoked" \in {"active", "revoked"}
      BY <1>1 DEF TypeOK
    <3>2. QED
      BY <1>1, <3>1, CountAfterWrite
  <2> SUFFICES ASSUME NEW d \in Companies
               PROVE  Cardinality(ActiveSeats(d)') <= Cardinality(ActiveSeats(d))
    BY <2>1, <2>2
  <2>3. CASE d = c
    BY <2>2, <2>3
  <2>4. CASE d # c
    BY <2>1, <2>2, <2>4
  <2>5. QED
    BY <2>3, <2>4
<1>5. CountStillBounds'
  <2> SUFFICES ASSUME NEW q \in Requests, req'[q].pc = "granting"
               PROVE  (/\ Cardinality(ActiveSeats(req[q].company)) <= req[q].counted
                       /\ req[q].counted < req[q].limit)'
    BY DEF CountStillBounds
  <2>1. q # r /\ req'[q] = req[q] /\ req[q].pc = "granting" /\ req[q].company \in Companies
    BY <1>1, <1>2 DEF TypeOK
  <2>2. PICK d \in Companies : d = req[q].company
    BY <2>1
  <2>3. ActiveSeats(req[q].company)' = ActiveSeats(d)'
    BY <2>1, <2>2 DEF ActiveSeats
  <2>4. /\ Cardinality(ActiveSeats(d)) <= req[q].counted
        /\ req[q].counted < req[q].limit
        /\ req[q].counted \in Nat
    BY <1>1, <2>1, <2>2 DEF RegistrationInv, CountStillBounds, TypeOK
  <2>5. Cardinality(ActiveSeats(d)') <= req[q].counted
    BY <1>4, <2>4
  <2>6. QED
    BY <2>1, <2>3, <2>4, <2>5
<1>6. SeatStillFree'
  <2> SUFFICES ASSUME NEW q \in Requests
               PROVE  (/\ req[q].pc \in {"counting", "granting"} => SeatOf(q) = "free"
                       /\ req[q].pc = "revoking" => SeatOf(q) # "free")'
    BY DEF SeatStillFree
  <2>1. CASE q = r
    BY <1>2, <2>1
  <2>2. CASE q # r /\ req[q].pc \in {"counting", "granting", "revoking"}
    <3>1. req[q].company \in Companies /\ req[q].installation \in Installations
      BY <1>1, <2>2 DEF TypeOK
    <3>2. SeatOf(q)' = IF req[q].company = c /\ req[q].installation = i
                         THEN "revoked" ELSE SeatOf(q)
      BY <1>1, <1>2, <2>2, <3>1 DEF SeatOf, TypeOK
    <3>3. (req[q].company = c /\ req[q].installation = i) => SeatOf(q) # "free"
      BY <1>0, <1>1 DEF SeatOf
    <3>4. QED
      BY <1>2, <2>2, <3>2, <3>3 DEF RegistrationInv, SeatStillFree
  <2>3. CASE q # r /\ req[q].pc \notin {"counting", "granting", "revoking"}
    BY <1>2, <2>3
  <2>4. QED
    BY <2>1, <2>2, <2>3
<1>7. SeatCap'
  <2>1. \A d \in Companies : Cardinality(ActiveSeats(d)') <= ceiling[d]
    BY <1>1, <1>4 DEF RegistrationInv, SeatCap, TypeOK
  <2>2. QED
    BY <1>1, <2>1 DEF SeatCap
<1>8. QED
  BY <1>3, <1>5, <1>6, <1>7 DEF RegistrationInv

\* A request that starts holds no lock yet; the limit it reads is in force.
LEMMA StartKeeps ==
  ASSUME RegistrationInv, TypeOK', NEW r \in Requests, NEW c \in Companies,
         NEW i \in Installations, ReadPolicy(r, c, i) \/ ReadSeatToRevoke(r, c, i)
  PROVE  RegistrationInv'
<1>1. /\ TypeOK /\ UNCHANGED <<seats, limit, ceiling, lockHolder>>
      /\ req'[r].pc \in {"waiting", "revoking"}
      /\ req'[r].company = c /\ req'[r].installation = i
      /\ req'[r].pc = "waiting" => req'[r].limit = limit[c]
      /\ req'[r].pc = "revoking" => seats[c][i] = "active"
      /\ \A q \in Requests \ {r} : req'[q] = req[q]
  <2>1. CASE ReadPolicy(r, c, i)
    BY <2>1 DEF ReadPolicy, RegistrationInv, TypeOK
  <2>2. CASE ReadSeatToRevoke(r, c, i)
    BY <2>2 DEF ReadSeatToRevoke, RegistrationInv, TypeOK, IdleRequest
  <2>3. QED
    BY <2>1, <2>2
<1>2. LockHeld'
  BY <1>1 DEF RegistrationInv, LockHeld, KeyOf, LockedPC, RegisterPC
<1>3. PolicyWasInForce'
  BY <1>1 DEF RegistrationInv, PolicyWasInForce, RegisterPC
<1>4. CountStillBounds'
  <2> SUFFICES ASSUME NEW q \in Requests, req'[q].pc = "granting"
               PROVE  (/\ Cardinality(ActiveSeats(req[q].company)) <= req[q].counted
                       /\ req[q].counted < req[q].limit)'
    BY DEF CountStillBounds
  <2>1. req'[q] = req[q]
    BY <1>1
  <2>2. ActiveSeats(req[q].company)' = ActiveSeats(req[q].company)
    BY <1>1, <2>1 DEF ActiveSeats
  <2>3. QED
    BY <2>1, <2>2 DEF RegistrationInv, CountStillBounds
<1>5. SeatStillFree'
  BY <1>1 DEF RegistrationInv, SeatStillFree, SeatOf
<1>6. SeatCap'
  BY <1>1, SeatsKept DEF RegistrationInv, SeatCap
<1>7. QED
  BY <1>2, <1>3, <1>4, <1>5, <1>6 DEF RegistrationInv

\* A plan change can only raise the ceiling.
LEMMA PlanKeeps ==
  ASSUME RegistrationInv, TypeOK', NEW c \in Companies, NEW n \in Limits, ChangePlan(c, n)
  PROVE  RegistrationInv'
<1>1. /\ TypeOK /\ n \in Nat /\ UNCHANGED <<seats, lockHolder, req>>
      /\ limit' = [limit EXCEPT ![c] = n]
      /\ ceiling' = [ceiling EXCEPT ![c] = IF n > ceiling[c] THEN n ELSE ceiling[c]]
  BY LimitsAssumption DEF ChangePlan, RegistrationInv
<1>2. \A d \in Companies : ceiling[d] \in Nat /\ ceiling'[d] \in Nat /\ ceiling'[d] >= ceiling[d]
  BY <1>1 DEF TypeOK
<1>3. LockHeld' /\ SeatStillFree'
  BY <1>1 DEF RegistrationInv, LockHeld, KeyOf, SeatStillFree, SeatOf
<1>4. PolicyWasInForce'
  <2>1. \A d \in Companies : limit'[d] <= ceiling'[d]
    BY <1>1, <1>2 DEF RegistrationInv, PolicyWasInForce, TypeOK
  <2>2. \A q \in Requests : req[q].pc \in RegisterPC =>
           /\ req[q].limit \in Nat /\ req[q].company \in Companies
           /\ req[q].limit <= ceiling[req[q].company]
    BY <1>1 DEF RegistrationInv, PolicyWasInForce, TypeOK, RegisterPC
  <2>3. \A q \in Requests : req[q].pc \in RegisterPC =>
           req[q].limit <= ceiling'[req[q].company]
    BY <1>2, <2>2
  <2>4. QED
    BY <1>1, <2>1, <2>3 DEF PolicyWasInForce
<1>5. CountStillBounds'
  BY <1>1 DEF RegistrationInv, CountStillBounds, ActiveSeats
<1>6. SeatCap'
  <2>1. \A d \in Companies : /\ Cardinality(ActiveSeats(d)) \in Nat
                             /\ ActiveSeats(d)' = ActiveSeats(d)
    BY <1>1, SeatsKept, ActiveSeatsFinite
  <2>2. QED
    BY <1>2, <2>1 DEF RegistrationInv, SeatCap
<1>7. QED
  BY <1>3, <1>4, <1>5, <1>6 DEF RegistrationInv

\* No step of any handler disturbs the invariant.
LEMMA RegistrationStep ==
  ASSUME RegistrationInv, [Next]_vars
  PROVE  RegistrationInv'
<1>1. TypeOK /\ TypeOK'
  BY TypeStep DEF RegistrationInv
<1>2. ASSUME NEW r \in Requests, AdvisoryLock(r) PROVE RegistrationInv'
  <2>1. /\ UNCHANGED <<seats, limit, ceiling>>
        /\ "locked" \in LockedPC
        /\ req[r].pc \in RegisterPC
        /\ req' = [req EXCEPT ![r].pc = "locked"]
    BY <1>2 DEF AdvisoryLock, Goto, LockedPC, RegisterPC
  <2>2. KeyOf(r) \in LockKeys
    BY <1>1, <1>2, LockKeyAssumption DEF AdvisoryLock, KeyOf, TypeOK
  <2>3. /\ lockHolder'[KeyOf(r)] = r
        /\ \A l \in LockKeys : lockHolder[l] # None => lockHolder'[l] = lockHolder[l]
    BY <1>1, <1>2, <2>2 DEF AdvisoryLock, TypeOK
  <2>4. QED
    BY <1>1, <2>1, <2>3, GotoKeeps
<1>3. ASSUME NEW r \in Requests, FindExisting(r) PROVE RegistrationInv'
  <2>1. /\ UNCHANGED <<seats, limit, ceiling>>
        /\ req[r].pc \in RegisterPC /\ req[r].pc \in LockedPC
        /\ {"touching", "counting"} \subseteq LockedPC
    BY <1>3 DEF FindExisting, LockedPC, RegisterPC
  <2>2. lockHolder[KeyOf(r)] = r
    BY <2>1 DEF RegistrationInv, LockHeld
  <2>3. CASE Finish(r)
    BY <1>1, <2>1, <2>3, FinishKeeps
  <2>4. CASE Goto(r, "touching") /\ UNCHANGED lockHolder
    BY <1>1, <2>1, <2>2, <2>4, GotoKeeps DEF Goto
  <2>5. CASE SeatOf(r) = "free" /\ Goto(r, "counting") /\ UNCHANGED lockHolder
    BY <1>1, <2>1, <2>2, <2>5, GotoKeeps DEF Goto
  <2>6. QED
    BY <1>3, <2>3, <2>4, <2>5 DEF FindExisting
<1>4. ASSUME NEW r \in Requests, CommitTouch(r) PROVE RegistrationInv'
  BY <1>1, <1>4, FinishKeeps DEF CommitTouch
<1>5. ASSUME NEW r \in Requests, CountSeats(r) PROVE RegistrationInv'
  <2> DEFINE active == Cardinality(ActiveSeats(req[r].company))
  <2>1. /\ UNCHANGED <<seats, limit, ceiling>>
        /\ req[r].pc \in RegisterPC /\ req[r].pc \in LockedPC
        /\ "granting" \in LockedPC
        /\ req[r].company \in Companies
    BY <1>1, <1>5 DEF CountSeats, LockedPC, RegisterPC, TypeOK
  <2>2. active \in Nat
    BY <2>1, ActiveSeatsFinite
  <2>3. CASE Finish(r)
    BY <1>1, <2>1, <2>3, FinishKeeps
  <2>4. CASE /\ active < req[r].limit
             /\ req' = [req EXCEPT ![r].pc = "granting", ![r].counted = active]
             /\ UNCHANGED lockHolder
    <3>1. lockHolder'[KeyOf(r)] = r /\ SeatOf(r) = "free"
      BY <1>5, <2>1, <2>4 DEF CountSeats, RegistrationInv, LockHeld, SeatStillFree
    <3>2. req'[r].counted = active
      BY <1>1, <2>4 DEF TypeOK
    <3>3. \A l \in LockKeys : lockHolder[l] # None => lockHolder'[l] = lockHolder[l]
      BY <2>4
    <3> HIDE DEF active
    <3>4. QED
      BY <1>1, <2>1, <2>2, <2>4, <3>1, <3>2, <3>3, GotoKeeps DEF active
  <2>5. QED
    BY <1>5, <2>3, <2>4 DEF CountSeats
<1>6. ASSUME NEW r \in Requests, CommitGrant(r) PROVE RegistrationInv'
  BY <1>1, <1>6, GrantKeeps
<1>7. ASSUME NEW r \in Requests, CommitRevoke(r) PROVE RegistrationInv'
  BY <1>1, <1>7, RevokeKeeps
<1>8. ASSUME NEW r \in Requests, Rollback(r) PROVE RegistrationInv'
  BY <1>1, <1>8, FinishKeeps DEF Rollback
<1>9. ASSUME NEW r \in Requests, NEW c \in Companies, NEW i \in Installations,
             ReadPolicy(r, c, i) \/ ReadSeatToRevoke(r, c, i)
      PROVE  RegistrationInv'
  BY <1>1, <1>9, StartKeeps
<1>10. ASSUME NEW c \in Companies, NEW n \in Limits, ChangePlan(c, n) PROVE RegistrationInv'
  BY <1>1, <1>10, PlanKeeps
<1>11. CASE UNCHANGED vars
  <2>1. UNCHANGED <<seats, limit, ceiling, lockHolder, req>>
    BY <1>11 DEF vars
  <2>2. \A c \in Companies : ActiveSeats(c)' = ActiveSeats(c)
    BY <2>1, SeatsKept
  <2>3. CountStillBounds' /\ SeatCap'
    BY <2>1, <2>2 DEF RegistrationInv, CountStillBounds, SeatCap, ActiveSeats
  <2>4. LockHeld' /\ PolicyWasInForce' /\ SeatStillFree'
    BY <2>1 DEF RegistrationInv, LockHeld, KeyOf, PolicyWasInForce, SeatStillFree, SeatOf
  <2>5. QED
    BY <1>1, <2>3, <2>4 DEF RegistrationInv
<1>12. QED
  BY <1>2, <1>3, <1>4, <1>5, <1>6, <1>7, <1>8, <1>9, <1>10, <1>11 DEF Next, Advance

\* RegistrationInv holds in every reachable state, for every number of
\* companies, installations and concurrent requests.
THEOREM RegistrationSafe == Spec => []RegistrationInv
<1>1. Init => RegistrationInv
  BY RegistrationInit
<1>2. RegistrationInv /\ [Next]_vars => RegistrationInv'
  BY RegistrationStep
<1>3. QED
  BY <1>1, <1>2, PTL DEF Spec

\* No company ever has more active seats than the largest limit its plan has
\* carried: _advisory_lock_company_seats closes the race to the last seat.
THEOREM SeatCapHolds == Spec => []SeatCap
<1>1. RegistrationInv => SeatCap
  BY DEF RegistrationInv
<1>2. QED
  BY <1>1, RegistrationSafe, PTL

-----------------------------------------------------------------------------
\* What a step may do to a seat: grant a free one below the ceiling, revoke one
\* that has a row, or leave them all alone.
LEMMA SeatSteps ==
  ASSUME RegistrationInv, [Next]_vars
  PROVE  \/ UNCHANGED seats
         \/ \E c \in Companies, i \in Installations :
               \/ /\ seats[c][i] = "free"
                  /\ Cardinality(ActiveSeats(c)) < ceiling[c]
                  /\ seats' = [seats EXCEPT ![c][i] = "active"]
                  /\ UNCHANGED ceiling
               \/ /\ seats[c][i] \in {"active", "revoked"}
                  /\ seats' = [seats EXCEPT ![c][i] = "revoked"]
                  /\ UNCHANGED ceiling
<1>1. ASSUME NEW r \in Requests, CommitGrant(r)
      PROVE  \E c \in Companies, i \in Installations :
                /\ seats[c][i] = "free"
                /\ Cardinality(ActiveSeats(c)) < ceiling[c]
                /\ seats' = [seats EXCEPT ![c][i] = "active"]
                /\ UNCHANGED ceiling
  <2>1. PICK c \in Companies, i \in Installations :
           c = req[r].company /\ i = req[r].installation
    BY <1>1 DEF CommitGrant, RegistrationInv, TypeOK
  <2>2. /\ seats[c][i] = "free"
        /\ seats' = [seats EXCEPT ![c][i] = "active"]
        /\ UNCHANGED ceiling
    BY <1>1, <2>1 DEF CommitGrant, RegistrationInv, SeatStillFree, SeatOf
  <2>3. /\ Cardinality(ActiveSeats(c)) \in Nat
        /\ req[r].counted \in Nat /\ req[r].limit \in Nat /\ ceiling[c] \in Nat
        /\ Cardinality(ActiveSeats(c)) <= req[r].counted
        /\ req[r].counted < req[r].limit
        /\ req[r].limit <= ceiling[c]
    BY <1>1, <2>1, ActiveSeatsFinite
    DEF CommitGrant, RegistrationInv, TypeOK, CountStillBounds, PolicyWasInForce, RegisterPC
  <2>4. Cardinality(ActiveSeats(c)) < ceiling[c]
    BY <2>3
  <2>5. QED
    BY <2>2, <2>4
<1>2. ASSUME NEW r \in Requests, CommitRevoke(r)
      PROVE  \E c \in Companies, i \in Installations :
                /\ seats[c][i] \in {"active", "revoked"}
                /\ seats' = [seats EXCEPT ![c][i] = "revoked"]
                /\ UNCHANGED ceiling
  <2>1. PICK c \in Companies, i \in Installations :
           c = req[r].company /\ i = req[r].installation
    BY <1>2 DEF CommitRevoke, RegistrationInv, TypeOK
  <2>2. /\ seats[c][i] # "free"
        /\ seats' = [seats EXCEPT ![c][i] = "revoked"]
        /\ UNCHANGED ceiling
    BY <1>2, <2>1 DEF CommitRevoke, RegistrationInv, SeatStillFree, SeatOf
  <2>3. seats[c][i] \in {"active", "revoked"}
    BY <2>2 DEF RegistrationInv, TypeOK, SeatState
  <2>4. QED
    BY <2>2, <2>3
<1>3. CASE UNCHANGED vars
  BY <1>3 DEF vars
<1>4. QED
  BY <1>1, <1>2, <1>3
  DEF Next, Advance, AdvisoryLock, FindExisting, CommitTouch, CountSeats, Rollback,
      ReadPolicy, ReadSeatToRevoke, ChangePlan

\* A revoked installation is never active again: only a free seat is granted,
\* although a registration looked at the seat several steps earlier and
\* revocations do not take the advisory lock.
THEOREM RevocationHolds == Spec => RevocationIsFinal
<1>1. ASSUME RegistrationInv, [Next]_vars
      PROVE  \A c \in Companies, i \in Installations :
                seats[c][i] = "revoked" => seats'[c][i] = "revoked"
  <2> SUFFICES ASSUME NEW c \in Companies, NEW i \in Installations, seats[c][i] = "revoked"
               PROVE  seats'[c][i] = "revoked"
    OBVIOUS
  <2>1. seats \in [Companies -> [Installations -> SeatState]]
    BY <1>1 DEF RegistrationInv, TypeOK
  <2>2. CASE UNCHANGED seats
    BY <2>2
  <2>3. ASSUME NEW d \in Companies, NEW j \in Installations, seats[d][j] = "free",
               seats' = [seats EXCEPT ![d][j] = "active"]
        PROVE  seats'[c][i] = "revoked"
    BY <2>1, <2>3
  <2>4. ASSUME NEW d \in Companies, NEW j \in Installations,
               seats' = [seats EXCEPT ![d][j] = "revoked"]
        PROVE  seats'[c][i] = "revoked"
    BY <2>1, <2>4
  <2>5. QED
    BY <1>1, <2>2, <2>3, <2>4, SeatSteps
<1>2. QED
  BY <1>1, RegistrationSafe, PTL DEF Spec, RevocationIsFinal

\* The ceiling never falls.
LEMMA CeilingSteps ==
  ASSUME RegistrationInv, [Next]_vars
  PROVE  \/ UNCHANGED ceiling
         \/ /\ ceiling' \in [Companies -> Nat]
            /\ \A c \in Companies : ceiling'[c] >= ceiling[c]
            /\ UNCHANGED seats
<1>1. ASSUME NEW c \in Companies, NEW n \in Limits, ChangePlan(c, n)
      PROVE  /\ ceiling' \in [Companies -> Nat]
             /\ \A d \in Companies : ceiling'[d] >= ceiling[d]
             /\ UNCHANGED seats
  <2>1. ceiling \in [Companies -> Nat] /\ n \in Nat
    BY LimitsAssumption DEF RegistrationInv, TypeOK
  <2>2. ceiling' = [ceiling EXCEPT ![c] = IF n > ceiling[c] THEN n ELSE ceiling[c]]
    BY <1>1 DEF ChangePlan
  <2>3. QED
    BY <1>1, <2>1, <2>2 DEF ChangePlan
<1>2. QED
  BY <1>1
  DEF Next, vars, Advance, AdvisoryLock, FindExisting, CommitTouch, CountSeats, Rollback,
      CommitGrant, CommitRevoke, ReadPolicy, ReadSeatToRevoke

\* The interleaved register refines the indivisible one of SeatPool: every step
\* of every request is one grant, one revocation, one raise of the ceiling, or
\* invisible.
THEOREM PoolRefinement == Spec => PoolSpec
<1>1. Init => Pool!Init
  BY LimitsAssumption DEF Init, Pool!Init
<1>2. ASSUME RegistrationInv, [Next]_vars
      PROVE  [Pool!Next]_Pool!vars
  <2>0. \A c \in Companies : Pool!ActiveSeats(c) = ActiveSeats(c)
    BY DEF ActiveSeats, Pool!ActiveSeats
  <2>1. ASSUME NEW c \in Companies, NEW i \in Installations, seats[c][i] = "free",
               Cardinality(ActiveSeats(c)) < ceiling[c],
               seats' = [seats EXCEPT ![c][i] = "active"], UNCHANGED ceiling
        PROVE  Pool!Next
    <3>0. Pool!Cardinality(ActiveSeats(c)) = Cardinality(ActiveSeats(c))
      BY DEF Pool!Cardinality, Cardinality, Pool!IsFiniteSet, IsFiniteSet
    <3>1. Pool!Grant(c, i)
      BY <2>0, <2>1, <3>0 DEF Pool!Grant
    <3>2. QED
      BY <3>1 DEF Pool!Next
  <2>2. ASSUME NEW c \in Companies, NEW i \in Installations,
               seats[c][i] \in {"active", "revoked"},
               seats' = [seats EXCEPT ![c][i] = "revoked"], UNCHANGED ceiling
        PROVE  [Pool!Next]_Pool!vars
    <3>1. CASE seats[c][i] = "active"
      BY <2>2, <3>1 DEF Pool!Next, Pool!Revoke
    <3>2. CASE seats[c][i] = "revoked"
      <4>1. seats \in [Companies -> [Installations -> SeatState]]
        BY <1>2 DEF RegistrationInv, TypeOK
      <4>2. seats' = seats
        BY <2>2, <3>2, <4>1
      <4>3. QED
        BY <2>2, <4>2 DEF Pool!vars
    <3>3. QED
      BY <2>2, <3>1, <3>2
  <2>3. CASE UNCHANGED seats
    BY <1>2, <2>3, CeilingSteps DEF Pool!Next, Pool!RaiseCeiling, Pool!vars
  <2>4. QED
    BY <1>2, <2>1, <2>2, <2>3, SeatSteps
<1>3. QED
  BY <1>1, <1>2, RegistrationSafe, PTL DEF Spec, PoolSpec, Pool!Spec
=============================================================================
