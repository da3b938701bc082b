---------------------------- MODULE MCAdminSync ----------------------------
(* Small instances of AdminSync.                                           *)
EXTENDS AdminSync, FiniteSets, TLC

CONSTANTS p1, p2, d1

Symmetry == Permutations(Requests)

\* Two pushes meet each other, or one push meets the pulls: the pushes do not look
\* at the clients, and to a pull a second push is another endpoint of the console.
PushesOrPulls ==
  \/ Cardinality({p \in Requests : req[p] # NoPush}) <= 1
  \/ \A c \in Clients : client[c] = NewClient

M(entity, op, at, val, bad) ==
  [entity |-> entity, op |-> op, at |-> at, val |-> val, bad |-> bad]

Create(at)     == M("record", "create", at, 1, FALSE)
Update(at, v)  == M("record", "update", at, v, FALSE)
Delete(at)     == M("record", "delete", at, 1, FALSE)
Company(at, v) == M("company", "update", at, v, FALSE)
Policy(at)     == M("session_policy", "update", at, 2, FALSE)

\* Single mutations; pairs that meet each other in one session; the payloads and
\* entities that are refused.
MCBatches ==
  {<<Create(2)>>, <<Update(1, 1)>>, <<Update(3, 2)>>, <<Delete(2)>>, <<Policy(2)>>,
   <<Create(1), Create(1)>>, <<Update(3, 2), Update(2, 1)>>,
   <<Company(2, 1), M("refused", "update", 2, 1, FALSE)>>,
   <<M("record", "update", 2, 2, TRUE)>>, <<M("record", "create", 2, 2, TRUE)>>}
=============================================================================
