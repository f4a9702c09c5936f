------------------------- MODULE HostAdmissionProofs -------------------------
(***************************************************************************)
(* The slot accounting of HostAdmission and the order of its grants, for   *)
(* any number of admissions, any number of slots and any interleaving.     *)
(***************************************************************************)
EXTENDS HostAdmission, FiniteSetTheorems, TLAPS

\* Where the life of an admission with a claim, or with a binding, can be.
InClaims == {"attaching", "permit"}
InBindings == {"consuming", "registered", "finished", "retiring"}

\* Where an admission's life is decides which table its record is in, and a
\* revoked claim is still in its table.
Tables ==
  /\ pc \in [Op -> Label]
  /\ claims \subseteq Op /\ bindings \subseteq Op
  /\ \A o \in Op : o \in claims <=> pc[o] \in InClaims
  /\ \A o \in Op : o \in bindings <=> pc[o] \in InBindings
  /\ released \subseteq claims

\* Only an operation that was finished retires, and only the thread that won
\* its retirement takes it out of the table.
Retirement ==
  /\ \A o \in Op : o \in sealed => pc[o] = "finished" \/ o \in retired
  /\ \A o \in Op : pc[o] = "retiring" => o \in retired

\* The strengthening: SlotsExact is not inductive alone, because a step that
\* decrements the counter must know its record was in a table.
IInv == Tables /\ Retirement /\ active \in Nat /\ SlotsExact

-----------------------------------------------------------------------------

\* Cardinalities of the two tables are natural numbers.
LEMMA TablesFinite ==
  ASSUME Tables
  PROVE  /\ IsFiniteSet(claims) /\ IsFiniteSet(bindings) /\ IsFiniteSet(claims \ released)
         /\ Cardinality(claims) \in Nat /\ Cardinality(bindings) \in Nat
         /\ Cardinality(claims \ released) \in Nat
<1>1. claims \subseteq Op /\ bindings \subseteq Op /\ claims \ released \subseteq Op
  BY DEF Tables
<1>2. IsFiniteSet(claims) /\ IsFiniteSet(bindings) /\ IsFiniteSet(claims \ released)
  BY <1>1, HostAssumption, FS_Subset
<1>. QED
  BY <1>2, FS_CardinalityType

\* One life moves to another label, and no other.
LEMMA Relabel ==
  ASSUME Tables, NEW o \in Op, NEW l \in Label, pc' = [pc EXCEPT ![o] = l]
  PROVE  /\ pc' \in [Op -> Label]
         /\ pc'[o] = l
         /\ \A x \in Op : x # o => pc'[x] = pc[x]
  BY DEF Tables

\* Taking o out of the unreleased claims, or putting it in, moves their number
\* by one exactly when it changes them.
LEMMA Unreleased ==
  ASSUME Tables, NEW o
  PROVE  /\ Cardinality((claims \ released) \ {o}) =
              IF o \in claims \ released THEN Cardinality(claims \ released) - 1
                                        ELSE Cardinality(claims \ released)
         /\ Cardinality((claims \ released) \cup {o}) =
              IF o \in claims \ released THEN Cardinality(claims \ released)
                                        ELSE Cardinality(claims \ released) + 1
         /\ Cardinality((claims \ released) \ {o}) \in Nat
<1>. DEFINE C == claims \ released
<1>1. IsFiniteSet(C)
  BY TablesFinite
<1>. HIDE DEF C
<1>2. /\ IsFiniteSet(C \ {o})
      /\ Cardinality(C \ {o}) = IF o \in C THEN Cardinality(C) - 1 ELSE Cardinality(C)
  BY <1>1, FS_RemoveElement
<1>3. Cardinality(C \cup {o}) = IF o \in C THEN Cardinality(C) ELSE Cardinality(C) + 1
  BY <1>1, FS_AddElement
<1>4. Cardinality(C \ {o}) \in Nat
  BY <1>2, FS_CardinalityType
<1>. QED
  BY <1>2, <1>3, <1>4 DEF C

\* A step that leaves the tables and the counter alone, and moves the life of
\* at most one admission between labels of no table, keeps the accounting.
LEMMA Bystander ==
  ASSUME IInv,
         UNCHANGED <<claims, released, bindings, active, sealed, retired>>,
         NEW o \in Op, NEW l \in Label \ (InClaims \cup InBindings),
         pc[o] \notin InClaims \cup InBindings,
         pc' = [pc EXCEPT ![o] = l]
  PROVE  IInv'
<1>1. pc' \in [Op -> Label] /\ \A x \in Op : pc'[x] = IF x = o THEN l ELSE pc[x]
  BY DEF IInv, Tables
<1>2. Tables'
  BY <1>1 DEF IInv, Tables
<1>3. Retirement'
  BY <1>1 DEF IInv, Retirement, Tables, InBindings
<1>. QED
  BY <1>2, <1>3 DEF IInv, SlotsExact

\* A host starts with no claim, no binding and no slot in use.
THEOREM InitSlots == Init => IInv
<1>. SUFFICES ASSUME Init PROVE IInv
  OBVIOUS
<1>1. Tables /\ Retirement
  BY DEF Init, Tables, Retirement, Label, InClaims, InBindings
<1>2. claims \ released = {} /\ bindings = {} /\ active = 0
  BY DEF Init
<1>3. Cardinality(claims \ released) = 0 /\ Cardinality(bindings) = 0
  BY <1>2, FS_EmptySet
<1>. QED
  BY <1>1, <1>2, <1>3, HostAssumption DEF IInv, SlotsExact

-----------------------------------------------------------------------------
(* The steps that touch a table. *)

\* take_slot adds a claim nobody held and counts it.
LEMMA GrantKeeps == ASSUME IInv, NEW o \in Op, Grant(o) PROVE IInv'
<1>1. /\ o \notin claims /\ o \notin bindings
      /\ pc' = [pc EXCEPT ![o] = "attaching"] /\ pc[o] = "waiting"
      /\ claims' = claims \cup {o} /\ active' = active + 1 /\ active < Slots
      /\ UNCHANGED <<released, bindings, sealed, retired>>
  BY DEF Grant, Polled, MayTake, Goto, IInv, Tables, InClaims, InBindings, bindingVars
<1>2. /\ pc' \in [Op -> Label] /\ pc'[o] = "attaching"
      /\ \A x \in Op : x # o => pc'[x] = pc[x]
  BY <1>1, Relabel DEF IInv, Label
<1>3. Tables'
  BY <1>1, <1>2 DEF IInv, Tables, InClaims, InBindings
<1>4. Retirement'
  BY <1>1, <1>2 DEF IInv, Retirement
<1>5. claims' \ released' = (claims \ released) \cup {o} /\ o \notin claims \ released
  BY <1>1 DEF IInv, Tables
<1>6. Cardinality(claims' \ released') = Cardinality(claims \ released) + 1
  BY <1>5, Unreleased DEF IInv
<1>. QED
  BY <1>1, <1>3, <1>4, <1>6, TablesFinite, HostAssumption DEF IInv, SlotsExact

\* drop_claim gives the slot back unless a revocation already did.
LEMMA DropClaimKeeps ==
  ASSUME IInv, NEW o \in Op, pc[o] \in InClaims, DropClaim(o) PROVE IInv'
<1>1. /\ o \in claims /\ pc[o] # "finished" /\ pc[o] # "retiring"
      /\ pc' = [pc EXCEPT ![o] = "ending"]
      /\ claims' = claims \ {o} /\ released' = released \ {o}
      /\ active' = IF o \in claims \ released THEN active - 1 ELSE active
      /\ UNCHANGED <<bindings, sealed, retired>>
  BY DEF DropClaim, Goto, IInv, Tables, InClaims, bindingVars
<1>2. /\ pc' \in [Op -> Label] /\ pc'[o] = "ending"
      /\ \A x \in Op : x # o => pc'[x] = pc[x]
  BY <1>1, Relabel DEF IInv, Label
<1>3. Tables'
  BY <1>1, <1>2 DEF IInv, Tables, InClaims, InBindings
<1>4. Retirement'
  BY <1>1, <1>2 DEF IInv, Retirement
<1>5. claims' \ released' = (claims \ released) \ {o}
  BY <1>1
<1>6. Cardinality(claims' \ released') =
        IF o \in claims \ released THEN Cardinality(claims \ released) - 1
                                  ELSE Cardinality(claims \ released)
  BY <1>5, Unreleased DEF IInv
<1>7. Cardinality(claims' \ released') \in Nat
  BY <1>5, Unreleased DEF IInv
<1>. QED
  BY <1>1, <1>3, <1>4, <1>6, <1>7, TablesFinite, HostAssumption DEF IInv, SlotsExact

\* publish moves the slot from the claim to the binding.
LEMMA PublishKeeps == ASSUME IInv, NEW o \in Op, Publish(o) PROVE IInv'
<1>. DEFINE l == IF IsSingle(o) THEN "consuming" ELSE "registered"
<1>1. /\ o \in claims \ released /\ o \notin bindings
      /\ pc' = [pc EXCEPT ![o] = l] /\ pc[o] = "permit"
      /\ claims' = claims \ {o} /\ bindings' = bindings \cup {o}
      /\ UNCHANGED <<released, active, sealed, retired>>
  BY DEF Publish, Goto, IInv, Tables, InBindings, bindingVars
<1>0. l \in {"consuming", "registered"}
  OBVIOUS
<1>. HIDE DEF l
<1>2. /\ pc' \in [Op -> Label] /\ pc'[o] = l
      /\ \A x \in Op : x # o => pc'[x] = pc[x]
  BY <1>0, <1>1, Relabel DEF IInv, Label
<1>3. Tables'
  BY <1>0, <1>1, <1>2 DEF IInv, Tables, InClaims, InBindings
<1>4. Retirement'
  BY <1>0, <1>1, <1>2 DEF IInv, Retirement
<1>5. claims' \ released' = (claims \ released) \ {o}
  BY <1>1
<1>6. /\ Cardinality(claims' \ released') = Cardinality(claims \ released) - 1
      /\ Cardinality(bindings') = Cardinality(bindings) + 1
  BY <1>1, <1>5, TablesFinite, Unreleased, FS_AddElement DEF IInv
<1>. QED
  BY <1>1, <1>3, <1>4, <1>6, TablesFinite DEF IInv, SlotsExact

\* The claim of a single-admission context is consumed outside the host's lock.
LEMMA ConsumeKeeps == ASSUME IInv, NEW o \in Op, ConsumeClaim(o) PROVE IInv'
<1>1. /\ pc[o] = "consuming" /\ pc' = [pc EXCEPT ![o] = "registered"]
      /\ UNCHANGED <<claims, released, bindings, active, sealed, retired>>
  BY DEF ConsumeClaim, Goto, hostVars, bindingVars
<1>2. /\ pc' \in [Op -> Label] /\ pc'[o] = "registered"
      /\ \A x \in Op : x # o => pc'[x] = pc[x]
  BY <1>1, Relabel DEF IInv, Label
<1>3. Tables'
  BY <1>1, <1>2 DEF IInv, Tables, InClaims, InBindings
<1>4. Retirement'
  BY <1>1, <1>2 DEF IInv, Retirement
<1>. QED
  BY <1>1, <1>3, <1>4 DEF IInv, SlotsExact

\* Winning the retirement changes no table; losing it changes nothing.
LEMMA WinRetirementKeeps == ASSUME IInv, NEW o \in Op, WinRetirement(o) PROVE IInv'
<1>1. UNCHANGED <<claims, released, bindings, active, sealed>>
  BY DEF WinRetirement, hostVars
<1>2. CASE o \in sealed /\ live[o] = 0 /\ o \notin retired
  <2>1. /\ pc[o] = "finished" /\ pc' = [pc EXCEPT ![o] = "retiring"]
        /\ retired' = retired \cup {o}
    BY <1>2 DEF WinRetirement, Goto, IInv, Retirement
  <2>2. /\ pc' \in [Op -> Label] /\ pc'[o] = "retiring"
        /\ \A x \in Op : x # o => pc'[x] = pc[x]
    BY <2>1, Relabel DEF IInv, Label
  <2>3. Tables'
    BY <1>1, <2>1, <2>2 DEF IInv, Tables, InClaims, InBindings
  <2>4. Retirement'
    BY <1>1, <2>1, <2>2 DEF IInv, Retirement
  <2>. QED
    BY <1>1, <2>3, <2>4 DEF IInv, SlotsExact
<1>3. CASE ~(o \in sealed /\ live[o] = 0 /\ o \notin retired)
  BY <1>1, <1>3 DEF WinRetirement, IInv, Tables, Retirement, SlotsExact
<1>. QED
  BY <1>2, <1>3

\* The winner takes the binding out and gives its slot back.
LEMMA RetireKeeps == ASSUME IInv, NEW o \in Op, Retire(o) PROVE IInv'
<1>1. /\ o \in bindings /\ o \in retired /\ pc[o] = "retiring"
      /\ pc' = [pc EXCEPT ![o] = "ending"]
      /\ bindings' = bindings \ {o} /\ active' = active - 1
      /\ UNCHANGED <<claims, released, sealed, retired>>
  BY DEF Retire, Goto, IInv, Tables, Retirement, InBindings
<1>2. /\ pc' \in [Op -> Label] /\ pc'[o] = "ending"
      /\ \A x \in Op : x # o => pc'[x] = pc[x]
  BY <1>1, Relabel DEF IInv, Label
<1>3. Tables'
  BY <1>1, <1>2 DEF IInv, Tables, InClaims, InBindings
<1>4. Retirement'
  BY <1>1, <1>2 DEF IInv, Retirement
<1>5. Cardinality(bindings') = Cardinality(bindings) - 1 /\ Cardinality(bindings') \in Nat
  BY <1>1, TablesFinite, FS_RemoveElement, FS_CardinalityType DEF IInv
<1>. QED
  BY <1>1, <1>3, <1>4, <1>5, TablesFinite, HostAssumption DEF IInv, SlotsExact

\* seal gives back, once, the slot of every claim still counted.
LEMMA SealKeeps == ASSUME IInv, Seal PROVE IInv'
<1>1. Tables' /\ Retirement'
  BY DEF Seal, IInv, Tables, Retirement
<1>2. claims' \ released' = {} /\ bindings' = bindings
      /\ active' = active - Cardinality(claims \ released)
  BY DEF Seal
<1>3. Cardinality(claims' \ released') = 0
  BY <1>2, FS_EmptySet
<1>. QED
  BY <1>1, <1>2, <1>3, TablesFinite, HostAssumption DEF IInv, SlotsExact

\* Finishing seals the binding of a registered operation.
LEMMA FinishKeeps == ASSUME IInv, NEW o \in Op, Finish(o) PROVE IInv'
<1>1. /\ pc[o] = "registered" /\ pc' = [pc EXCEPT ![o] = "finished"]
      /\ sealed' = sealed \cup {o}
      /\ UNCHANGED <<claims, released, bindings, active, retired>>
  BY DEF Finish, Goto, hostVars
<1>2. /\ pc' \in [Op -> Label] /\ pc'[o] = "finished"
      /\ \A x \in Op : x # o => pc'[x] = pc[x]
  BY <1>1, Relabel DEF IInv, Label
<1>3. Tables'
  BY <1>1, <1>2 DEF IInv, Tables, InClaims, InBindings
<1>4. Retirement'
  BY <1>1, <1>2 DEF IInv, Retirement
<1>. QED
  BY <1>1, <1>3, <1>4 DEF IInv, SlotsExact

\* attach_profile turns the claim's holder into a permit.
LEMMA AttachKeeps == ASSUME IInv, NEW o \in Op, Attach(o) PROVE IInv'
<1>1. /\ pc[o] = "attaching" /\ pc' = [pc EXCEPT ![o] = "permit"]
      /\ UNCHANGED <<claims, released, bindings, active, sealed, retired>>
  BY DEF Attach, Goto, hostVars, bindingVars
<1>2. /\ pc' \in [Op -> Label] /\ pc'[o] = "permit"
      /\ \A x \in Op : x # o => pc'[x] = pc[x]
  BY <1>1, Relabel DEF IInv, Label
<1>3. Tables'
  BY <1>1, <1>2 DEF IInv, Tables, InClaims, InBindings
<1>4. Retirement'
  BY <1>1, <1>2 DEF IInv, Retirement
<1>. QED
  BY <1>1, <1>3, <1>4 DEF IInv, SlotsExact

-----------------------------------------------------------------------------

\* Every step of the host keeps the accounting.
THEOREM NextSlots == IInv /\ [Next]_vars => IInv'
<1>. SUFFICES ASSUME IInv, [Next]_vars PROVE IInv'
  OBVIOUS
<1>1. ASSUME NEW o \in Op, Step(o) PROVE IInv'
  <2>1. CASE TakeClaim(o)
    <3>1. \E l \in {"gone", "charging"} : pc' = [pc EXCEPT ![o] = l]
      BY <2>1 DEF TakeClaim, Goto
    <3>. QED
      BY <2>1, <3>1, Bystander DEF TakeClaim, hostVars, bindingVars, Label, InClaims, InBindings
  <2>2. CASE ReserveCharge(o)
    <3>1. \E l \in {"gone", "ending", "joining"} : pc' = [pc EXCEPT ![o] = l]
      BY <2>2 DEF ReserveCharge, Goto
    <3>. QED
      BY <2>2, <3>1, Bystander DEF ReserveCharge, hostVars, bindingVars, Label, InClaims, InBindings
  <2>3. CASE Join(o)
    <3>1. \E l \in {"waiting", "ending"} : pc' = [pc EXCEPT ![o] = l]
      BY <2>3 DEF Join, Goto
    <3>. QED
      BY <2>3, <3>1, Bystander DEF Join, bindingVars, Label, InClaims, InBindings
  <2>4. CASE EndCharge(o)
    <3>1. \E l \in {"freeing", "gone"} : pc' = [pc EXCEPT ![o] = l]
      BY <2>4 DEF EndCharge, Goto
    <3>. QED
      BY <2>4, <3>1, Bystander DEF EndCharge, hostVars, bindingVars, Label, InClaims, InBindings
  <2>5. CASE Grant(o)
    BY <2>5, GrantKeeps
  <2>6. CASE Refuse(o)
    BY <2>6, Bystander DEF Refuse, Polled, Goto, bindingVars, Label, InClaims, InBindings
  <2>7. CASE Park(o)
    <3>1. CASE o \in expired
      BY <2>7, <3>1, Bystander DEF Park, Polled, Goto, bindingVars, Label, InClaims, InBindings
    <3>2. CASE o \notin expired
      BY <2>7, <3>2 DEF Park, bindingVars, IInv, Tables, Retirement, SlotsExact
    <3>. QED
      BY <3>1, <3>2
  <2>8. CASE TimeOut(o) \/ DropAcquire(o)
    BY <2>8, Bystander
       DEF TimeOut, DropAcquire, Dequeue, Goto, bindingVars, Label, InClaims, InBindings
  <2>9. CASE Attach(o)
    BY <2>9, AttachKeeps
  <2>10. CASE GiveUp(o) \/ PublishRevoked(o)
    BY <2>10, DropClaimKeeps DEF GiveUp, PublishRevoked, InClaims
  <2>11. CASE Publish(o)
    BY <2>11, PublishKeeps
  <2>12. CASE Expire(o) \/ Open(o) \/ EndLive(o) \/ CancelBinding(o)
    BY <2>12 DEF Expire, Open, EndLive, CancelBinding, hostVars, bindingVars, futureVars,
                 IInv, Tables, Retirement, SlotsExact
  <2>13. CASE Finish(o)
    BY <2>13, FinishKeeps
  <2>14. CASE WinRetirement(o)
    BY <2>14, WinRetirementKeeps
  <2>15. CASE Retire(o)
    BY <2>15, RetireKeeps
  <2>16. CASE EndClaim(o)
    BY <2>16, Bystander DEF EndClaim, Goto, hostVars, bindingVars, Label, InClaims, InBindings
  <2>17. CASE ConsumeClaim(o)
    BY <2>17, ConsumeKeeps
  <2>. QED
    BY <1>1, <2>1, <2>2, <2>3, <2>4, <2>5, <2>6, <2>7, <2>8, <2>9, <2>10, <2>11, <2>12,
       <2>13, <2>14, <2>15, <2>16, <2>17 DEF Step
<1>2. CASE Seal
  BY <1>2, SealKeeps
<1>3. CASE CloseJobDone \/ UNCHANGED vars
  BY <1>3 DEF CloseJobDone, vars, hostVars, bindingVars, futureVars,
              IInv, Tables, Retirement, SlotsExact
<1>. QED
  BY <1>1, <1>2, <1>3 DEF Next

\* HostShared's slot counter is exact and bounded in every reachable state:
\* no interleaving of acquire, drop, register, seal and retirement leaks a
\* slot, gives one back twice or underflows the counter.
THEOREM SlotAccounting == Spec => []SlotsExact
<1>1. IInv => SlotsExact
  BY DEF IInv
<1>. QED
  BY InitSlots, NextSlots, <1>1, PTL DEF Spec

-----------------------------------------------------------------------------
(* The order of grants. *)

\* The labels after the end of an admission, granted or not.
Over == {"ending", "freeing", "gone"}

Queued == {"waiting", "timing out"}
Unjoined == {"new", "charging", "joining"}
WithSerial == {"attaching", "permit", "consuming", "registered", "finished", "retiring"}

\* Serials: every grant has one, all different from those still to come.
Serials ==
  /\ nextSerial \in Nat \ {0} /\ serial \in [Op -> Nat]
  /\ \A o \in Op : /\ serial[o] < nextSerial
                   /\ pc[o] \in Queued \cup Unjoined => serial[o] = 0
                   /\ pc[o] \in WithSerial => serial[o] # 0

\* An admission joins once, and is in the queue at most once.
Once ==
  /\ queue \in Seq(Op) /\ joined \in Seq(Op)
  /\ \A i, j \in DOMAIN joined : joined[i] = joined[j] => i = j
  /\ \A i \in DOMAIN joined : pc[joined[i]] \notin Unjoined
  /\ \A k, l \in DOMAIN queue : queue[k] = queue[l] => k = l
  /\ \A k \in DOMAIN queue : pc[queue[k]] \notin Unjoined

\* While the host is open, every admission that waits is in the queue.
AllQueued ==
  phase = "Open" =>
    \A o \in Op : pc[o] \in Queued => \E k \in DOMAIN queue : queue[k] = o

\* The order of the queue is the order of joining.
QueueInOrder ==
  \A k, l \in DOMAIN queue : \A i, j \in DOMAIN joined :
    k < l /\ queue[k] = joined[i] /\ queue[l] = joined[j] => i < j

Order == Serials /\ Once /\ AllQueued /\ QueueInOrder /\ GrantedInOrder

\* r is what is left of q, in the same order.
Subsequence(r, q) ==
  \E h \in [DOMAIN r -> DOMAIN q] :
    /\ \A k, l \in DOMAIN r : k < l => h[k] < h[l]
    /\ \A k \in DOMAIN r : r[k] = q[h[k]]

\* Taking o out of a sequence keeps the others, in their order.
LEMMA WithoutKeepsOrder ==
  ASSUME NEW q \in Seq(Op), NEW o
  PROVE  /\ Without(q, o) \in Seq(Op)
         /\ Subsequence(Without(q, o), q)
         /\ \A n \in DOMAIN q : q[n] # o =>
              \E k \in DOMAIN Without(q, o) : Without(q, o)[k] = q[n]
<1>1. CASE o \notin Range(q)
  <2>1. Without(q, o) = q
    BY <1>1 DEF Without
  <2>2. Subsequence(q, q)
    <3>. DEFINE h == [k \in DOMAIN q |-> k]
    <3>1. /\ h \in [DOMAIN q -> DOMAIN q]
          /\ \A k, l \in DOMAIN q : k < l => h[k] < h[l]
          /\ \A k \in DOMAIN q : q[k] = q[h[k]]
      OBVIOUS
    <3>. QED
      BY <3>1 DEF Subsequence
  <2>. QED
    BY <2>1, <2>2
<1>2. CASE o \in Range(q)
  <2>. DEFINE i == CHOOSE i \in DOMAIN q : q[i] = o
              r == Without(q, o)
  <2>1. i \in DOMAIN q /\ q[i] = o
    BY <1>2 DEF Range
  <2>2. r = [k \in 1 .. Len(q) - 1 |-> q[IF k < i THEN k ELSE k + 1]]
    BY <1>2 DEF Without
  <2>. HIDE DEF i, r
  <2>3. DOMAIN q = 1 .. Len(q) /\ Len(q) \in Nat \ {0} /\ i \in 1 .. Len(q)
    BY <2>1
  <2>4. \A k \in 1 .. Len(q) - 1 : (IF k < i THEN k ELSE k + 1) \in 1 .. Len(q)
    BY <2>3
  <2>5. r \in Seq(Op) /\ DOMAIN r = 1 .. Len(q) - 1
    <3>1. Len(q) - 1 \in Nat
      BY <2>3
    <3>2. \A k \in 1 .. Len(q) - 1 : q[IF k < i THEN k ELSE k + 1] \in Op
      BY <2>3, <2>4
    <3>. QED
      BY <2>2, <3>1, <3>2
  <2>6. Subsequence(r, q)
    <3>. DEFINE h == [k \in 1 .. Len(q) - 1 |-> IF k < i THEN k ELSE k + 1]
    <3>1. h \in [DOMAIN r -> DOMAIN q]
      BY <2>3, <2>4, <2>5
    <3>2. \A k, l \in DOMAIN r : k < l => h[k] < h[l]
      BY <2>3, <2>5
    <3>3. \A k \in DOMAIN r : r[k] = q[h[k]]
      BY <2>2, <2>5
    <3>. QED
      BY <3>1, <3>2, <3>3 DEF Subsequence
  <2>7. ASSUME NEW n \in DOMAIN q, q[n] # o
        PROVE  \E k \in DOMAIN r : r[k] = q[n]
    <3>1. CASE n < i
      <4>1. n \in DOMAIN r /\ r[n] = q[n]
        BY <2>2, <2>3, <2>5, <3>1
      <4>. QED
        BY <4>1
    <3>2. CASE ~(n < i)
      <4>1. n # i
        BY <2>1, <2>7
      <4>2. n - 1 \in DOMAIN r /\ ~(n - 1 < i) /\ (n - 1) + 1 = n
        BY <2>3, <2>5, <3>2, <4>1
      <4>3. r[n - 1] = q[n]
        BY <2>2, <2>5, <4>2
      <4>. QED
        BY <4>2, <4>3
    <3>. QED
      BY <3>1, <3>2
  <2>. QED
    BY <2>5, <2>6, <2>7 DEF r
<1>. QED
  BY <1>1, <1>2

\* Taking the front leaves the rest, in its order.
LEMMA TailKeepsOrder ==
  ASSUME NEW q \in Seq(Op), q # <<>>
  PROVE  /\ Tail(q) \in Seq(Op)
         /\ Subsequence(Tail(q), q)
         /\ \A n \in DOMAIN q : q[n] # Head(q) =>
              \E k \in DOMAIN Tail(q) : Tail(q)[k] = q[n]
<1>1. /\ Tail(q) \in Seq(Op) /\ Len(q) \in Nat \ {0} /\ DOMAIN q = 1 .. Len(q)
      /\ DOMAIN Tail(q) = 1 .. Len(q) - 1
      /\ \A k \in 1 .. Len(q) - 1 : Tail(q)[k] = q[k + 1]
  OBVIOUS
<1>2. Subsequence(Tail(q), q)
  <2>. DEFINE h == [k \in 1 .. Len(q) - 1 |-> k + 1]
  <2>1. h \in [DOMAIN Tail(q) -> DOMAIN q]
    BY <1>1
  <2>2. /\ \A k, l \in DOMAIN Tail(q) : k < l => h[k] < h[l]
        /\ \A k \in DOMAIN Tail(q) : Tail(q)[k] = q[h[k]]
    BY <1>1
  <2>. QED
    BY <2>1, <2>2 DEF Subsequence
<1>3. ASSUME NEW n \in DOMAIN q, q[n] # Head(q)
      PROVE  \E k \in DOMAIN Tail(q) : Tail(q)[k] = q[n]
  <2>1. n # 1
    BY <1>3
  <2>2. n - 1 \in 1 .. Len(q) - 1 /\ (n - 1) + 1 = n
    BY <1>1, <2>1
  <2>. QED
    BY <1>1, <2>2
<1>. QED
  BY <1>1, <1>2, <1>3

\* What is left of the queue is in the order of joining.
LEMMA LeftInOrder ==
  ASSUME Order, NEW r, Subsequence(r, queue), \A k \in DOMAIN r : k \in Int
  PROVE  /\ \A k, l \in DOMAIN r : r[k] = r[l] => k = l
         /\ \A k \in DOMAIN r : pc[r[k]] \notin Unjoined
         /\ \A k, l \in DOMAIN r : \A i, j \in DOMAIN joined :
              k < l /\ r[k] = joined[i] /\ r[l] = joined[j] => i < j
<1>1. PICK h \in [DOMAIN r -> DOMAIN queue] :
        /\ \A k, l \in DOMAIN r : k < l => h[k] < h[l]
        /\ \A k \in DOMAIN r : r[k] = queue[h[k]]
  BY DEF Subsequence
<1>2. \A k \in DOMAIN r : h[k] \in DOMAIN queue /\ h[k] \in Int
  BY DEF Order, Once
<1>3. ASSUME NEW k \in DOMAIN r, NEW l \in DOMAIN r, r[k] = r[l] PROVE k = l
  <2>1. h[k] = h[l]
    BY <1>1, <1>2, <1>3 DEF Order, Once
  <2>. QED
    BY <1>1, <1>2, <2>1
<1>4. \A k \in DOMAIN r : pc[r[k]] \notin Unjoined
  BY <1>1, <1>2 DEF Order, Once
<1>5. ASSUME NEW k \in DOMAIN r, NEW l \in DOMAIN r,
             NEW i \in DOMAIN joined, NEW j \in DOMAIN joined,
             k < l, r[k] = joined[i], r[l] = joined[j]
      PROVE  i < j
  <2>1. h[k] < h[l] /\ queue[h[k]] = joined[i] /\ queue[h[l]] = joined[j]
    BY <1>1, <1>5
  <2>. QED
    BY <1>2, <2>1 DEF Order, QueueInOrder
<1>. QED
  BY <1>3, <1>4, <1>5

\* A life moves without a grant, and what leaves the queue is at most itself.
LEMMA OrderMoves ==
  ASSUME IInv, Order, NEW o \in Op, NEW l \in Label,
         UNCHANGED <<phase, joined, nextSerial, serial>>,
         pc' = [pc EXCEPT ![o] = l],
         queue' \in Seq(Op), Subsequence(queue', queue),
         \A n \in DOMAIN queue : queue[n] # o \/ l \in Queued =>
           \E k \in DOMAIN queue' : queue'[k] = queue[n],
         pc[o] \in Over => l \in Over, l \in Unjoined => pc[o] \in Unjoined,
         l \in Queued => pc[o] \in Queued, l \in WithSerial => pc[o] \in WithSerial
  PROVE  Order'
<1>1. pc'[o] = l /\ \A x \in Op : x # o => pc'[x] = pc[x]
  BY Relabel DEF IInv
<1>2. /\ \A k \in DOMAIN queue' : k \in Int /\ queue'[k] \in Op
      /\ \A i \in DOMAIN joined : joined[i] \in Op
  BY DEF Order, Once
<1>3. /\ \A k, m \in DOMAIN queue' : queue'[k] = queue'[m] => k = m
      /\ \A k \in DOMAIN queue' : pc[queue'[k]] \notin Unjoined
      /\ \A k, m \in DOMAIN queue' : \A i, j \in DOMAIN joined :
           k < m /\ queue'[k] = joined[i] /\ queue'[m] = joined[j] => i < j
  BY <1>2, LeftInOrder
<1>4. \A x \in Op : pc[x] \notin Unjoined => pc'[x] \notin Unjoined
  BY <1>1
<1>5. \A x \in Op : /\ pc'[x] \in Queued \cup Unjoined => serial[x] = 0
                    /\ pc'[x] \in WithSerial => serial[x] # 0
  BY <1>1 DEF Order, Serials
<1>6. ASSUME phase = "Open", NEW x \in Op, pc'[x] \in Queued
      PROVE  \E k \in DOMAIN queue' : queue'[k] = x
  <2>1. pc[x] \in Queued /\ (x = o => l \in Queued)
    BY <1>1, <1>6
  <2>2. PICK n \in DOMAIN queue : queue[n] = x
    BY <1>6, <2>1 DEF Order, AllQueued
  <2>. QED
    BY <2>1, <2>2
<1>7. GrantedInOrder'
  <2>1. \A x \in Op : pc[x] \in Over => pc'[x] \in Over
    BY <1>1
  <2>. QED
    BY <1>2, <2>1 DEF Order, GrantedInOrder, Over
<1>8. Serials' /\ AllQueued' /\ QueueInOrder'
  BY <1>3, <1>5, <1>6 DEF Order, Serials, AllQueued, QueueInOrder
<1>9. Once'
  BY <1>2, <1>3, <1>4 DEF Order, Once
<1>. QED
  BY <1>7, <1>8, <1>9 DEF Order

\* take_slot grants the oldest waiting admission, and no serial twice.
LEMMA GrantInOrder ==
  ASSUME IInv, Order, NEW o \in Op, Grant(o)
  PROVE  Order'
<1>1. /\ pc[o] = "waiting" /\ phase = "Open" /\ pc' = [pc EXCEPT ![o] = "attaching"]
      /\ queue # <<>> /\ Head(queue) = o /\ queue' = Tail(queue)
      /\ nextSerial' = nextSerial + 1 /\ serial' = [serial EXCEPT ![o] = nextSerial]
      /\ UNCHANGED <<phase, joined>>
  BY DEF Grant, Polled, MayTake, Foremost, Goto
<1>2. pc'[o] = "attaching" /\ \A x \in Op : x # o => pc'[x] = pc[x]
  BY <1>1, Relabel DEF IInv, Label
<1>3. /\ nextSerial \in Nat \ {0} /\ serial' \in [Op -> Nat] /\ serial'[o] = nextSerial
      /\ \A x \in Op : x # o => serial'[x] = serial[x]
      /\ \A x \in Op : serial[x] \in Nat /\ serial[x] < nextSerial
  BY <1>1 DEF Order, Serials
<1>4. /\ queue' \in Seq(Op) /\ Subsequence(queue', queue)
      /\ \A n \in DOMAIN queue : queue[n] # o =>
           \E k \in DOMAIN queue' : queue'[k] = queue[n]
  BY <1>1, TailKeepsOrder DEF Order, Once
<1>5. /\ \A k \in DOMAIN queue' : k \in Int /\ queue'[k] \in Op
      /\ \A i \in DOMAIN joined : joined[i] \in Op /\ i \in Int
  BY <1>4 DEF Order, Once
<1>6. /\ \A k, m \in DOMAIN queue' : queue'[k] = queue'[m] => k = m
      /\ \A k \in DOMAIN queue' : pc[queue'[k]] \notin Unjoined
      /\ \A k, m \in DOMAIN queue' : \A i, j \in DOMAIN joined :
           k < m /\ queue'[k] = joined[i] /\ queue'[m] = joined[j] => i < j
  BY <1>4, <1>5, LeftInOrder
<1>7. \A x \in Op : /\ pc[x] \notin Unjoined => pc'[x] \notin Unjoined
                    /\ pc'[x] \in Queued \cup Unjoined => serial'[x] = 0
                    /\ pc'[x] \in WithSerial => serial'[x] # 0
                    /\ serial'[x] < nextSerial'
  <2>1. ASSUME NEW x \in Op
        PROVE  /\ pc[x] \notin Unjoined => pc'[x] \notin Unjoined
               /\ pc'[x] \in Queued \cup Unjoined => serial'[x] = 0
               /\ pc'[x] \in WithSerial => serial'[x] # 0
               /\ serial'[x] < nextSerial'
    <3>1. CASE x = o
      <4>1. pc'[x] \notin Queued \cup Unjoined
        BY <1>2, <3>1 DEF Queued, Unjoined
      <4>2. serial'[x] # 0 /\ serial'[x] < nextSerial'
        BY <1>1, <1>3, <3>1
      <4>. QED
        BY <4>1, <4>2
    <3>2. CASE x # o
      BY <1>1, <1>2, <1>3, <3>2 DEF Order, Serials
    <3>. QED
      BY <3>1, <3>2
  <2>. QED
    BY <2>1
<1>8. ASSUME NEW x \in Op, pc'[x] \in Queued
      PROVE  \E k \in DOMAIN queue' : queue'[k] = x
  <2>1. x # o /\ pc[x] \in Queued
    BY <1>2, <1>8 DEF Queued
  <2>2. PICK n \in DOMAIN queue : queue[n] = x
    BY <1>1, <2>1 DEF Order, AllQueued
  <2>. QED
    BY <1>4, <2>1, <2>2
<1>9. ASSUME NEW i \in DOMAIN joined, NEW j \in DOMAIN joined,
             i < j, serial'[joined[j]] # 0
      PROVE  \/ 0 < serial'[joined[i]] /\ serial'[joined[i]] < serial'[joined[j]]
             \/ serial'[joined[i]] = 0 /\ pc'[joined[i]] \in Over
  <2>. DEFINE x == joined[i]
              y == joined[j]
  <2>0. x \in Op /\ y \in Op /\ x # y
    BY <1>5, <1>9 DEF Order, Once
  <2>1. CASE y = o
    <3>1. serial'[x] = serial[x] /\ pc'[x] = pc[x] /\ serial'[y] = nextSerial
      BY <1>2, <1>3, <2>0, <2>1
    <3>2. CASE serial[x] # 0
      BY <1>3, <2>0, <3>1, <3>2
    <3>3. CASE serial[x] = 0
      <4>1. pc[x] \in Label /\ pc[x] \notin Unjoined /\ pc[x] \notin WithSerial
        BY <2>0, <3>3 DEF Order, Serials, Once, IInv, Tables
      <4>2. pc[x] \notin Queued
        <5>. SUFFICES ASSUME pc[x] \in Queued PROVE FALSE
          OBVIOUS
        <5>1. PICK k \in DOMAIN queue : queue[k] = x
          BY <1>1, <2>0 DEF Order, AllQueued
        <5>2. 1 \in DOMAIN queue /\ queue[1] = y /\ 1 < k
          <6>1. 1 \in DOMAIN queue /\ queue[1] = o
            BY <1>1 DEF Order, Once
          <6>2. k # 1 /\ k \in DOMAIN queue
            BY <2>0, <2>1, <5>1, <6>1
          <6>. QED
            BY <2>1, <6>1, <6>2 DEF Order, Once
        <5>3. j < i
          BY <5>1, <5>2 DEF Order, QueueInOrder
        <5>. QED
          BY <1>5, <1>9, <5>3
      <4>3. pc[x] \in Over
        BY <4>1, <4>2 DEF Label, Unjoined, WithSerial, Queued, Over
      <4>. QED
        BY <3>1, <3>3, <4>3
    <3>. QED
      BY <3>2, <3>3
  <2>2. CASE y # o
    <3>1. serial'[y] = serial[y]
      BY <1>3, <2>0, <2>2
    <3>2. \/ 0 < serial[x] /\ serial[x] < serial[y]
          \/ serial[x] = 0 /\ pc[x] \in Over
      BY <1>9, <3>1 DEF Order, GrantedInOrder, Over
    <3>3. x # o
      <4>1. serial[o] = 0 /\ pc[o] \notin Over
        <5>1. pc[o] \in Queued /\ pc[o] \notin Over
          BY <1>1 DEF Queued, Over
        <5>. QED
          BY <5>1 DEF Order, Serials
      <4>. QED
        BY <3>2, <4>1
    <3>. QED
      BY <1>2, <1>3, <2>0, <3>1, <3>2, <3>3
  <2>. QED
    BY <2>1, <2>2
<1>10. GrantedInOrder'
  BY <1>1, <1>9 DEF GrantedInOrder, Over
<1>11. Serials'
  BY <1>1, <1>3, <1>7 DEF Serials
<1>12. Once'
  BY <1>1, <1>4, <1>5, <1>6, <1>7 DEF Order, Once
<1>13. AllQueued' /\ QueueInOrder'
  BY <1>1, <1>6, <1>8 DEF AllQueued, QueueInOrder
<1>. QED
  BY <1>10, <1>11, <1>12, <1>13 DEF Order

\* An admission that joins is the last to have joined, and the last in the queue.
LEMMA JoinInOrder ==
  ASSUME IInv, Order, NEW o \in Op, Join(o), phase = "Open", Len(queue) < Waiting
  PROVE  Order'
<1>1. /\ pc[o] = "joining" /\ pc' = [pc EXCEPT ![o] = "waiting"]
      /\ queue' = Append(queue, o) /\ joined' = Append(joined, o)
      /\ UNCHANGED <<phase, nextSerial, serial>>
  BY DEF Join, Goto
<1>2. pc'[o] = "waiting" /\ \A x \in Op : x # o => pc'[x] = pc[x]
  BY <1>1, Relabel DEF IInv, Label
<1>. DEFINE q == Len(queue)
            n == Len(joined)
<1>3. /\ q \in Nat /\ DOMAIN queue = 1 .. q /\ DOMAIN queue' = 1 .. (q + 1)
      /\ queue'[q + 1] = o /\ \A k \in 1 .. q : queue'[k] = queue[k] /\ queue[k] \in Op
      /\ queue' \in Seq(Op)
  BY <1>1 DEF Order, Once
<1>4. /\ n \in Nat /\ DOMAIN joined = 1 .. n /\ DOMAIN joined' = 1 .. (n + 1)
      /\ joined'[n + 1] = o /\ \A i \in 1 .. n : joined'[i] = joined[i] /\ joined[i] \in Op
      /\ joined' \in Seq(Op)
  BY <1>1 DEF Order, Once
<1>. HIDE DEF q, n
<1>5. /\ \A k \in 1 .. q : queue[k] # o
      /\ \A i \in 1 .. n : joined[i] # o
      /\ serial[o] = 0
  <2>1. pc[o] \in Unjoined
    BY <1>1 DEF Unjoined
  <2>2. serial[o] = 0
    BY <2>1 DEF Order, Serials
  <2>3. \A k \in 1 .. q : queue[k] # o
    BY <1>3, <2>1 DEF Order, Once
  <2>4. \A i \in 1 .. n : joined[i] # o
    BY <1>4, <2>1 DEF Order, Once
  <2>. QED
    BY <2>2, <2>3, <2>4
<1>6. \A i, j \in DOMAIN joined' : joined'[i] = joined'[j] => i = j
  BY <1>4, <1>5 DEF Order, Once
<1>7. \A k, l \in DOMAIN queue' : queue'[k] = queue'[l] => k = l
  BY <1>3, <1>5 DEF Order, Once
<1>8. \A x \in Op : /\ pc[x] \notin Unjoined => pc'[x] \notin Unjoined
                    /\ pc'[x] \in Queued \cup Unjoined => serial[x] = 0
                    /\ pc'[x] \in WithSerial => serial[x] # 0
                    /\ x # o /\ pc'[x] \in Queued => pc[x] \in Queued
  BY <1>1, <1>2, <1>5 DEF Order, Serials, Unjoined, WithSerial
<1>9. /\ \A i \in DOMAIN joined' : pc'[joined'[i]] \notin Unjoined
      /\ \A k \in DOMAIN queue' : pc'[queue'[k]] \notin Unjoined
  <2>1. pc'[o] \notin Unjoined
    BY <1>2 DEF Unjoined
  <2>2. /\ \A i \in 1 .. n : pc[joined[i]] \notin Unjoined
        /\ \A k \in 1 .. q : pc[queue[k]] \notin Unjoined
    BY <1>3, <1>4 DEF Order, Once
  <2>. QED
    BY <1>3, <1>4, <1>8, <2>1, <2>2
<1>10. ASSUME NEW x \in Op, pc'[x] \in Queued
       PROVE  \E k \in DOMAIN queue' : queue'[k] = x
  <2>1. CASE x = o
    BY <1>3, <2>1
  <2>2. CASE x # o
    <3>1. PICK k \in DOMAIN queue : queue[k] = x
      BY <1>8, <1>10, <2>2 DEF Order, AllQueued
    <3>. QED
      BY <1>3, <3>1
  <2>. QED
    BY <2>1, <2>2
<1>11. ASSUME NEW k \in DOMAIN queue', NEW l \in DOMAIN queue',
              NEW i \in DOMAIN joined', NEW j \in DOMAIN joined',
              k < l, queue'[k] = joined'[i], queue'[l] = joined'[j]
       PROVE  i < j
  <2>1. k \in 1 .. q /\ queue'[k] = queue[k] /\ i \in 1 .. n /\ joined'[i] = joined[i]
    BY <1>3, <1>4, <1>5, <1>11
  <2>2. CASE l = q + 1
    <3>1. j = n + 1
      BY <1>3, <1>4, <1>5, <1>11, <2>2
    <3>. QED
      BY <1>4, <2>1, <3>1
  <2>3. CASE l # q + 1
    <3>1. l \in 1 .. q /\ queue'[l] = queue[l] /\ j \in 1 .. n /\ joined'[j] = joined[j]
      BY <1>3, <1>4, <1>5, <1>11, <2>3
    <3>. QED
      BY <1>3, <1>4, <1>11, <2>1, <3>1 DEF Order, QueueInOrder
  <2>. QED
    BY <2>2, <2>3
<1>12. GrantedInOrder'
  <2>. SUFFICES ASSUME NEW i \in DOMAIN joined', NEW j \in DOMAIN joined',
                       i < j, serial[joined'[j]] # 0
                PROVE  \/ /\ 0 < serial[joined'[i]]
                          /\ serial[joined'[i]] < serial[joined'[j]]
                       \/ serial[joined'[i]] = 0 /\ pc'[joined'[i]] \in Over
    BY <1>1 DEF GrantedInOrder, Over
  <2>1. j \in 1 .. n /\ i \in 1 .. n
    BY <1>4, <1>5
  <2>2. joined'[i] = joined[i] /\ joined'[j] = joined[j] /\ joined[i] # o /\ joined[i] \in Op
    BY <1>4, <1>5, <2>1
  <2>3. \/ 0 < serial[joined[i]] /\ serial[joined[i]] < serial[joined[j]]
        \/ serial[joined[i]] = 0 /\ pc[joined[i]] \in Over
    BY <1>4, <2>1, <2>2 DEF Order, GrantedInOrder, Over
  <2>. QED
    BY <1>2, <2>2, <2>3
<1>13. Serials'
  BY <1>1, <1>8 DEF Order, Serials
<1>14. Once'
  BY <1>3, <1>4, <1>6, <1>7, <1>9 DEF Once
<1>15. AllQueued' /\ QueueInOrder'
  BY <1>10, <1>11 DEF AllQueued, QueueInOrder
<1>. QED
  BY <1>12, <1>13, <1>14, <1>15 DEF Order

\* A step that leaves the queue alone.
LEMMA OrderStays ==
  ASSUME IInv, Order, NEW o \in Op, NEW l \in Label,
         UNCHANGED <<phase, queue, joined, nextSerial, serial>>,
         pc' = [pc EXCEPT ![o] = l],
         pc[o] \in Over => l \in Over, l \in Unjoined => pc[o] \in Unjoined,
         l \in Queued => pc[o] \in Queued, l \in WithSerial => pc[o] \in WithSerial
  PROVE  Order'
<1>1. queue \in Seq(Op)
  BY DEF Order, Once
<1>2. Subsequence(queue, queue)
  <2>. DEFINE h == [k \in DOMAIN queue |-> k]
  <2>1. /\ h \in [DOMAIN queue -> DOMAIN queue]
        /\ \A k, m \in DOMAIN queue : k < m => h[k] < h[m]
        /\ \A k \in DOMAIN queue : queue[k] = queue[h[k]]
    OBVIOUS
  <2>. QED
    BY <2>1 DEF Subsequence
<1>3. /\ queue' \in Seq(Op) /\ Subsequence(queue', queue)
      /\ \A n \in DOMAIN queue : queue[n] # o \/ l \in Queued =>
           \E k \in DOMAIN queue' : queue'[k] = queue[n]
  BY <1>1, <1>2
<1>. QED
  BY <1>3, OrderMoves

\* HostShared::dequeue, and a refused poll: o leaves the queue and ends.
LEMMA OrderLeaves ==
  ASSUME IInv, Order, NEW o \in Op, pc[o] \in Queued,
         UNCHANGED <<phase, joined, nextSerial, serial>>,
         pc' = [pc EXCEPT ![o] = "ending"], queue' = Without(queue, o)
  PROVE  Order'
<1>1. queue \in Seq(Op)
  BY DEF Order, Once
<1>2. /\ queue' \in Seq(Op) /\ Subsequence(queue', queue)
      /\ \A n \in DOMAIN queue : queue[n] # o =>
           \E k \in DOMAIN queue' : queue'[k] = queue[n]
  BY <1>1, WithoutKeepsOrder
<1>3. /\ "ending" \in Label /\ "ending" \in Over /\ "ending" \notin Unjoined
      /\ "ending" \notin Queued /\ "ending" \notin WithSerial
  BY DEF Label, Over, Unjoined, Queued, WithSerial
<1>. QED
  BY <1>2, <1>3, OrderMoves

\* No label, no queue and no serial changes.
LEMMA OrderSame ==
  ASSUME Order, UNCHANGED <<queue, joined, nextSerial, serial, pc>>,
         phase' = "Open" => phase = "Open"
  PROVE  Order'
BY DEF Order, Serials, Once, AllQueued, QueueInOrder, GrantedInOrder

\* Every step of an admission keeps the order.
LEMMA OrderKept ==
  ASSUME IInv, Order, NEW o \in Op, Step(o)
  PROVE  Order'
<1>1. CASE TakeClaim(o)
  <2>1. PICK l \in {"gone", "charging"} : pc' = [pc EXCEPT ![o] = l]
    BY <1>1 DEF TakeClaim, Goto
  <2>. QED
    BY <1>1, <2>1, OrderStays
    DEF TakeClaim, hostVars, Label, Over, Unjoined, Queued, WithSerial
<1>2. CASE ReserveCharge(o)
  <2>1. PICK l \in {"gone", "ending", "joining"} : pc' = [pc EXCEPT ![o] = l]
    BY <1>2 DEF ReserveCharge, Goto
  <2>. QED
    BY <1>2, <2>1, OrderStays
    DEF ReserveCharge, hostVars, Label, Over, Unjoined, Queued, WithSerial
<1>3. CASE Join(o)
  <2>1. CASE phase = "Open" /\ Len(queue) < Waiting
    BY <1>3, <2>1, JoinInOrder
  <2>2. CASE ~(phase = "Open" /\ Len(queue) < Waiting)
    BY <1>3, <2>2, OrderStays
    DEF Join, Goto, Label, Over, Unjoined, Queued, WithSerial
  <2>. QED
    BY <2>1, <2>2
<1>4. CASE EndCharge(o)
  <2>1. PICK l \in {"freeing", "gone"} : pc' = [pc EXCEPT ![o] = l]
    BY <1>4 DEF EndCharge, Goto
  <2>. QED
    BY <1>4, <2>1, OrderStays
    DEF EndCharge, hostVars, Label, Over, Unjoined, Queued, WithSerial
<1>5. CASE EndClaim(o)
  BY <1>5, OrderStays
  DEF EndClaim, Goto, hostVars, Label, Over, Unjoined, Queued, WithSerial
<1>6. CASE Grant(o)
  BY <1>6, GrantInOrder
<1>7. CASE Refuse(o)
  BY <1>7, OrderLeaves DEF Refuse, Polled, Goto, Queued
<1>8. CASE Park(o)
  <2>1. CASE o \in expired
    BY <1>8, <2>1, OrderStays
    DEF Park, Polled, Goto, Label, Over, Unjoined, Queued, WithSerial
  <2>2. CASE o \notin expired
    BY <1>8, <2>2, OrderSame DEF Park
  <2>. QED
    BY <2>1, <2>2
<1>9. CASE TimeOut(o) \/ DropAcquire(o)
  BY <1>9, OrderLeaves DEF TimeOut, DropAcquire, Dequeue, Goto, Queued
<1>10. CASE Attach(o)
  BY <1>10, OrderStays
  DEF Attach, Goto, hostVars, Label, Over, Unjoined, Queued, WithSerial
<1>11. CASE GiveUp(o) \/ PublishRevoked(o)
  <2>1. /\ pc[o] \in {"attaching", "permit"} /\ pc' = [pc EXCEPT ![o] = "ending"]
        /\ UNCHANGED <<phase, queue, joined, nextSerial, serial>>
    BY <1>11 DEF GiveUp, PublishRevoked, DropClaim, Goto
  <2>. QED
    BY <2>1, OrderStays DEF Label, Over, Unjoined, Queued, WithSerial
<1>12. CASE Publish(o)
  <2>1. PICK l \in {"consuming", "registered"} : pc' = [pc EXCEPT ![o] = l]
    BY <1>12 DEF Publish, Goto
  <2>. QED
    BY <1>12, <2>1, OrderStays DEF Publish, Label, Over, Unjoined, Queued, WithSerial
<1>13. CASE ConsumeClaim(o)
  BY <1>13, OrderStays
  DEF ConsumeClaim, Goto, hostVars, Label, Over, Unjoined, Queued, WithSerial
<1>14. CASE Expire(o) \/ Open(o) \/ EndLive(o) \/ CancelBinding(o)
  BY <1>14, OrderSame DEF Expire, Open, EndLive, CancelBinding, hostVars, futureVars
<1>15. CASE Finish(o)
  BY <1>15, OrderStays
  DEF Finish, Goto, hostVars, Label, Over, Unjoined, Queued, WithSerial
<1>16. CASE WinRetirement(o)
  <2>1. CASE o \in sealed /\ live[o] = 0 /\ o \notin retired
    <3>1. pc[o] = "finished"
      BY <1>16, <2>1 DEF WinRetirement, IInv, Retirement
    <3>. QED
      BY <1>16, <2>1, <3>1, OrderStays
      DEF WinRetirement, Goto, hostVars, Label, Over, Unjoined, Queued, WithSerial
  <2>2. CASE ~(o \in sealed /\ live[o] = 0 /\ o \notin retired)
    BY <1>16, <2>2, OrderSame DEF WinRetirement, hostVars
  <2>. QED
    BY <2>1, <2>2
<1>17. CASE Retire(o)
  BY <1>17, OrderStays DEF Retire, Goto, Label, Over, Unjoined, Queued, WithSerial
<1>. QED
  BY <1>1, <1>2, <1>3, <1>4, <1>5, <1>6, <1>7, <1>8, <1>9, <1>10, <1>11, <1>12, <1>13,
     <1>14, <1>15, <1>16, <1>17 DEF Step

\* Admissions are granted in the order they joined: one that joined earlier has
\* the smaller serial, or it has left without a grant (take_slot, dequeue, seal).
THEOREM GrantsInOrder == Spec => []GrantedInOrder
<1>1. Init => Order
  BY DEF Init, Order, Serials, Once, AllQueued, QueueInOrder, GrantedInOrder, Queued,
         WithSerial
<1>2. IInv /\ Order /\ [Next]_vars => Order'
  <2>. SUFFICES ASSUME IInv, Order, [Next]_vars PROVE Order'
    OBVIOUS
  <2>1. CASE \E o \in Op : Step(o)
    BY <2>1, OrderKept
  <2>2. CASE Seal
    <3>1. queue' = <<>> /\ phase' # "Open" /\ UNCHANGED <<joined, nextSerial, serial, pc>>
      BY <2>2 DEF Seal
    <3>2. queue' \in Seq(Op) /\ DOMAIN queue' = {}
      BY <3>1
    <3>. QED
      BY <3>1, <3>2 DEF Order, Serials, Once, AllQueued, QueueInOrder, GrantedInOrder
  <2>3. CASE CloseJobDone \/ UNCHANGED vars
    BY <2>3, OrderSame DEF CloseJobDone, vars, hostVars, futureVars
  <2>. QED
    BY <2>1, <2>2, <2>3 DEF Next
<1>3. Order => GrantedInOrder
  BY DEF Order
<1>. QED
  BY <1>1, <1>2, <1>3, InitSlots, NextSlots, PTL DEF Spec

=============================================================================
