----------------------------- MODULE OrderIntake -----------------------------
(* Receiving a service order, from the desk or from a customer's portal: the *)
(* contract that covers it, the monthly quota of the contract, the monthly   *)
(* limit of the plan, and the date the SLA policies promise.                 *)
EXTENDS Integers, SequencesExt

CONSTANTS OrderKinds, Priorities,
          MaxPolicies,
          Contracts,     \* contract -> the terms it starts with
          Takers,        \* the requests that run at the same time
          IntakeWork,    \* what they may be asked: a set of functions
          PlanLimit,     \* orders a month of the plan, or Unlimited
          Plan,          \* stands for the plan where contracts are named
          DaysPerMonth, LastDay, MaxPushed,
          Unset,         \* the kind of a policy for every kind; likewise its priority
          NoTerms,       \* no contract
          Unlimited, Never

VARIABLES policies, \* the SLA policies, in the order they were created
          terms,    \* contract -> [customer, kinds, max, from, to, active]
          received, \* the orders, in the order they were committed
          today,
          taker,    \* request -> [work, at, due, seen]
          excused,  \* history: the contracts, or the plan, counted this month in
                    \* a way the code leaves open
          tangled   \* history: contracts that two updates changed at once

intakeVars == <<policies, terms, received, today, taker, excused, tangled>>

ContractKinds == {"workshop_intake_contract", "field_service_contract"}
WorkshopKinds == {"workshop_intake", "workshop_intake_contract"}

\* The columns of a contract, and what an update may carry.
TermColumns == {"customer", "kinds", "max", "from", "to", "active"}
Backwards(k) == k.from # Never /\ k.to # Never /\ k.to < k.from

Quotas == Nat \union {Unlimited}

ASSUME UnsetAssumption == Unset \notin OrderKinds \union Priorities
ASSUME MonthsAssumption == DaysPerMonth \in Nat \ {0} /\ PlanLimit \in Quotas
ASSUME ContractsAssumption ==
  /\ NoTerms \notin DOMAIN Contracts
  /\ Contracts = [k \in DOMAIN Contracts |-> Contracts[k]]
  /\ \A k \in DOMAIN Contracts :
       DOMAIN Contracts[k] = TermColumns /\ Contracts[k].max \in Quotas /\ ~ Backwards(Contracts[k])
ASSUME IntakeWorkAssumption ==
  \A work \in IntakeWork : \A t \in Takers :
    /\ work[t].by = "portal" => work[t].contract \in DOMAIN Contracts
    /\ work[t].by = "office" =>
         /\ work[t].contract \in DOMAIN Contracts
         /\ "max" \in DOMAIN work[t].data => work[t].data.max \in Quotas

----------------------------------------------------------------------------
(* Policies *)

Candidates == Reverse(policies)

Applies(p, kind, priority) ==
  p.active /\ p.kind \in {Unset, kind} /\ p.priority \in {Unset, priority}

Score(p, kind, priority) ==
  (IF p.kind = kind THEN 2 ELSE 0) + (IF p.priority = priority THEN 1 ELSE 0)

\* A later candidate of the same score replaces the one that was found.
find_matching_sla_policy_Faulty(kind, priority) ==
  FoldLeft(LAMBDA best, p :
             IF Applies(p, kind, priority) /\ Score(p, kind, priority) >= best.score
             THEN [policy |-> p, score |-> Score(p, kind, priority)]
             ELSE best,
           [policy |-> Never, score |-> -1], Candidates).policy

\* The loop over the candidates, newest first, keeps the first one of the best score.
find_matching_sla_policy(kind, priority) ==
  FoldLeft(LAMBDA best, p :
             IF Applies(p, kind, priority) /\ Score(p, kind, priority) > best.score
             THEN [policy |-> p, score |-> Score(p, kind, priority)]
             ELSE best,
           [policy |-> Never, score |-> -1], Candidates).policy

compute_estimated_completion(kind, priority, day) ==
  LET p == find_matching_sla_policy(kind, priority)
  IN IF p = Never \/ p.span = 0 THEN Never ELSE day + p.span

\* A manager goes on editing: every create, update and delete is one request.
Edits(t) == IF taker[t].work.by = "manager" THEN taker[t].work.forms ELSE {}

create_sla_policy(t) ==
  \E f \in Edits(t) :
    /\ Len(policies) < MaxPolicies
    /\ policies' = Append(policies, f)
    /\ UNCHANGED <<terms, received, today, taker, excused, tangled>>

\* An update writes the columns it is given.
update_sla_policy(t) ==
  \E i \in DOMAIN policies, f \in Edits(t) :
    \E given \in {{"span"}, {"active"}, {"kind", "priority"}} :
      /\ policies' = [policies EXCEPT ![i] = [c \in DOMAIN @ |-> IF c \in given THEN f[c] ELSE @[c]]]
      /\ UNCHANGED <<terms, received, today, taker, excused, tangled>>

delete_sla_policy(t) ==
  \E i \in DOMAIN policies :
    /\ Edits(t) # {}
    /\ policies' = RemoveAt(policies, i)
    /\ UNCHANGED <<terms, received, today, taker, excused, tangled>>

----------------------------------------------------------------------------
(* Orders *)

Task(t) == taker[t].work
Stands(t, place) == taker[t].at = place
Reply(t, place) == taker' = [taker EXCEPT ![t].at = place]

MonthOf(day) == day \div DaysPerMonth
ThisMonth == {i \in DOMAIN received : MonthOf(received[i].day) = MonthOf(today)}
count_contract_orders_this_month(k) == Cardinality({i \in ThisMonth : received[i].contract = k})
count_orders_current_month == Cardinality(ThisMonth)

contract_is_active(k) ==
  /\ terms[k].active
  /\ terms[k].from # Never => today >= terms[k].from
  /\ terms[k].to # Never => today <= terms[k].to

IntakeInit ==
  /\ policies = <<>> /\ terms = Contracts /\ received = <<>> /\ today = 0
  /\ excused = {} /\ tangled = {}
  /\ \E w \in IntakeWork :
       taker = [t \in Takers |-> [work |-> w[t], at |-> "start", due |-> Never, seen |-> NoTerms]]

\* A portal request is refused unless its customer's contract is in force, allows the
\* kind and has quota left; a quota of nothing is no quota.
CheckContract(t) ==
  /\ Stands(t, "start") /\ Task(t).by = "portal"
  /\ LET k == Task(t).contract
     IN IF /\ Task(t).kind \in ContractKinds
           /\ terms[k].customer = Task(t).customer /\ contract_is_active(k)
           /\ Task(t).kind \in terms[k].kinds
           /\ terms[k].max \notin {0, Unlimited} => count_contract_orders_this_month(k) < terms[k].max
        THEN Reply(t, "covered")
        ELSE Reply(t, "refused")
  /\ UNCHANGED <<policies, terms, received, today, excused, tangled>>

can_create_order(t) ==
  /\ \/ Stands(t, "covered")
     \/ Stands(t, "start") /\ Task(t).by = "desk"
  /\ IF PlanLimit = Unlimited \/ count_orders_current_month < PlanLimit
     THEN Reply(t, "admitted")
     ELSE Reply(t, "refused")
  /\ UNCHANGED <<policies, terms, received, today, excused, tangled>>

\* An order by contract names an active contract of its customer, no other order names
\* one; the desk asks neither the dates nor the quota nor the kinds of the contract.
ContractHolds(t) ==
  IF Task(t).kind \in ContractKinds
  THEN /\ Task(t).contract # NoTerms
       /\ terms[Task(t).contract].active /\ terms[Task(t).contract].customer = Task(t).customer
  ELSE Task(t).contract = NoTerms

\* When the equipment came in: a workshop order that says nothing came in now.
IntakeAt(t) == IF Task(t).kind \in WorkshopKinds /\ Task(t).came = Never THEN today ELSE Task(t).came

Settle(t) ==
  /\ Stands(t, "admitted")
  /\ LET in == IntakeAt(t)
         promised == Task(t).promised
     IN IF ~ ContractHolds(t) \/ (promised # Never /\ in # Never /\ promised < in)
        THEN Reply(t, "refused")
        ELSE taker' = [taker EXCEPT ![t].at = "settled",
                         ![t].due = IF promised # Never \/ in = Never THEN promised
                                    ELSE compute_estimated_completion(Task(t).kind, Task(t).priority, in)]
  /\ UNCHANGED <<policies, terms, received, today, excused, tangled>>

\* Requests that have counted and not yet committed.
CountedQuota(t) == Task(t).by = "portal" /\ taker[t].at \in {"covered", "admitted", "settled"}
CountedPlan(t)  == taker[t].at \in {"admitted", "settled"}

CommitOrder(t) ==
  /\ Stands(t, "settled")
  /\ received' = Append(received, [kind |-> Task(t).kind, contract |-> Task(t).contract,
                                   customer |-> Task(t).customer, day |-> today, due |-> taker[t].due])
  /\ Reply(t, "done")
  /\ LET k == Task(t).contract
         rivals == Takers \ {t}
     IN excused' = excused
          \union (IF \/ Task(t).by = "desk"
                     \/ \E u \in rivals : CountedQuota(u) /\ Task(u).contract = k THEN {k} \ {NoTerms} ELSE {})
          \union (IF \E u \in rivals : CountedPlan(u) THEN {Plan} ELSE {})
  /\ UNCHANGED <<policies, terms, today, tangled>>

\* A desktop pushes an order: no limit is asked.
PushOrder ==
  /\ Cardinality({i \in DOMAIN received : received[i].kind = "pushed"}) < MaxPushed
  /\ received' = Append(received, [kind |-> "pushed", contract |-> NoTerms,
                                   customer |-> NoTerms, day |-> today, due |-> Never])
  /\ excused' = excused \union {Plan}
  /\ UNCHANGED <<policies, terms, today, taker, tangled>>

Tomorrow ==
  /\ today < LastDay
  /\ today' = today + 1
  /\ excused' = IF MonthOf(today') = MonthOf(today) THEN excused ELSE {}
  /\ UNCHANGED <<policies, terms, received, taker, tangled>>

----------------------------------------------------------------------------
(* Contracts *)

Given(t, seen) == [c \in DOMAIN seen |-> IF c \in DOMAIN Task(t).data THEN Task(t).data[c] ELSE seen[c]]

\* The dates are not compared at all.
CheckContractUpdate_Faulty(t) ==
  /\ Stands(t, "start") /\ Task(t).by = "office"
  /\ LET k == Task(t).contract
     IN /\ taker' = [taker EXCEPT ![t].at = "amending", ![t].seen = terms[k]]
        /\ tangled' = IF \E u \in Takers \ {t} : Stands(u, "amending") /\ Task(u).contract = k
                      THEN tangled \union {k} ELSE tangled
  /\ UNCHANGED <<policies, terms, received, today, excused>>

\* The dates of an update are compared with the ones that were loaded.
CheckContractUpdate(t) ==
  /\ Stands(t, "start") /\ Task(t).by = "office"
  /\ LET k == Task(t).contract
     IN IF Backwards(Given(t, terms[k]))
        THEN Reply(t, "refused") /\ UNCHANGED tangled
        ELSE /\ taker' = [taker EXCEPT ![t].at = "amending", ![t].seen = terms[k]]
             /\ tangled' = IF \E u \in Takers \ {t} : Stands(u, "amending") /\ Task(u).contract = k
                           THEN tangled \union {k} ELSE tangled
  /\ UNCHANGED <<policies, terms, received, today, excused>>

\* The columns that differ from what was loaded are written; deleting a contract is
\* switching it off.
CommitContractUpdate(t) ==
  /\ Stands(t, "amending")
  /\ LET k == Task(t).contract
         seen == taker[t].seen
         new == [c \in DOMAIN seen |-> IF Given(t, seen)[c] # seen[c] THEN Given(t, seen)[c] ELSE terms[k][c]]
     IN /\ terms' = [terms EXCEPT ![k] = new]
        /\ excused' = IF new.max # terms[k].max THEN excused \union {k} ELSE excused
  /\ Reply(t, "done")
  /\ UNCHANGED <<policies, received, today, tangled>>

IntakeNext ==
  \/ \E t \in Takers :
       create_sla_policy(t) \/ update_sla_policy(t) \/ delete_sla_policy(t)
         \/ CheckContract(t) \/ can_create_order(t) \/ Settle(t) \/ CommitOrder(t)
         \/ CheckContractUpdate(t) \/ CommitContractUpdate(t)
  \/ PushOrder \/ Tomorrow

IntakeSpec == IntakeInit /\ [][IntakeNext]_intakeVars

----------------------------------------------------------------------------

\* The precedence the documentation of the function states: both, the kind, the priority, neither.
Precedence(kind, priority) == <<<<kind, priority>>, <<kind, Unset>>, <<Unset, priority>>, <<Unset, Unset>>>>

Says(p, pattern) == p.active /\ <<p.kind, p.priority>> = pattern

(* The policy an order gets is the newest active one at the first level of    *)
(* the precedence that has one, whatever the policies are and whatever has    *)
(* been created, changed and deleted; with none the order gets none.          *)
MatchIsMostSpecific ==
  \A kind \in OrderKinds, priority \in Priorities :
    LET found == find_matching_sla_policy(kind, priority)
        level(n) == {i \in DOMAIN policies : Says(policies[i], Precedence(kind, priority)[n])}
    IN IF \A n \in 1..4 : level(n) = {}
       THEN found = Never
       ELSE \E n \in 1..4 :
              /\ \A m \in 1..(n - 1) : level(m) = {}
              /\ \E i \in level(n) : found = policies[i] /\ \A j \in level(n) : j <= i

QuotaExplained ==
  /\ \A k \in DOMAIN terms :
       terms[k].max \in {0, Unlimited} \/ k \in excused
         \/ count_contract_orders_this_month(k) <= terms[k].max
  /\ PlanLimit = Unlimited \/ Plan \in excused \/ count_orders_current_month <= PlanLimit

(* A month holds more orders than the contract's quota or the plan's limit    *)
(* only when a request committed while another had counted, when the desk or  *)
(* a desktop received the order (they do not ask), or when the quota itself   *)
(* changed; and a new month starts clean. A contract is valid backwards only  *)
(* when two updates of it overlapped.                                         *)
TermsExplained ==
  /\ QuotaExplained
  /\ \A k \in DOMAIN terms : Backwards(terms[k]) => k \in tangled
=============================================================================
