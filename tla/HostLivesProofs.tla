--------------------------- MODULE HostLivesProofs ---------------------------
(***************************************************************************)
(* The lives of HostAdmission's admissions, for any number of admissions   *)
(* and contexts, any limits and any interleaving: how they end, and what   *)
(* they hold of the single-admission contexts and of the charge budget.    *)
(***************************************************************************)
EXTENDS HostAdmissionProofs, SumTheorems

\* How lives end: EndIsFinal and NoForgottenBinding are not inductive alone.  A
\* step must know from its label that its operation has not been retired, and
\* that a registered operation is not sealed.
Ends ==
  /\ live \in [Op -> Nat] /\ checks \in [Op -> Nat]
  /\ retired \subseteq Op /\ done \subseteq Op
  /\ phase # "Open" => bindings \subseteq cancelled /\ claims \subseteq released
  /\ \A o \in retired :
       o \in sealed /\ live[o] = 0 /\ pc[o] \in Over \cup {"retiring"}
  /\ \A o \in done : pc[o] \in Over
  /\ NoForgottenBinding

\* The step changes the life of o only, and what it leaves alone keeps its end.
LEMMA EndsBystander ==
  ASSUME IInv, Ends, NEW o \in Op, NEW l \in Label,
         UNCHANGED <<phase, cancelled, sealed, live, retired, done, checks>>,
         pc' = [pc EXCEPT ![o] = l],
         pc[o] # "retiring", pc[o] \in Over => l \in Over,
         phase # "Open" => /\ bindings' \subseteq bindings
                           /\ claims' \ released' \subseteq claims \ released
  PROVE  Ends'
<1>1. pc'[o] = l /\ \A x \in Op : x # o => pc'[x] = pc[x]
  BY Relabel DEF IInv
<1>2. \A x \in retired : pc'[x] \in Over \cup {"retiring"}
  BY <1>1 DEF Ends
<1>3. \A x \in done : pc'[x] \in Over
  BY <1>1 DEF Ends
<1>. QED
  BY <1>2, <1>3 DEF Ends, NoForgottenBinding

\* Only the lives of a grant, a registration and a permit move between tables.
LEMMA EndsKept ==
  ASSUME IInv, Ends, NEW o \in Op, Step(o)
  PROVE  Ends'
<1>0. IInv /\ Ends /\ pc[o] \in Label
  BY DEF IInv, Tables
<1>1. CASE TakeClaim(o)
  <2>1. PICK l \in {"gone", "charging"} : pc' = [pc EXCEPT ![o] = l]
    BY <1>1 DEF TakeClaim, Goto
  <2>. QED
    BY <1>1, <2>1, EndsBystander DEF TakeClaim, hostVars, bindingVars, Label, Over
<1>2. CASE ReserveCharge(o)
  <2>1. PICK l \in {"gone", "ending", "joining"} : pc' = [pc EXCEPT ![o] = l]
    BY <1>2 DEF ReserveCharge, Goto
  <2>. QED
    BY <1>2, <2>1, EndsBystander DEF ReserveCharge, hostVars, bindingVars, Label, Over
<1>3. CASE Join(o)
  <2>1. PICK l \in {"waiting", "ending"} : pc' = [pc EXCEPT ![o] = l]
    BY <1>3 DEF Join, Goto
  <2>. QED
    BY <1>3, <2>1, EndsBystander DEF Join, hostVars, bindingVars, Label, Over
<1>4. CASE EndCharge(o)
  <2>1. PICK l \in {"freeing", "gone"} : pc' = [pc EXCEPT ![o] = l]
    BY <1>4 DEF EndCharge, Goto
  <2>. QED
    BY <1>4, <2>1, EndsBystander DEF EndCharge, hostVars, bindingVars, Label, Over
<1>5. CASE EndClaim(o)
  BY <1>5, EndsBystander DEF EndClaim, Goto, hostVars, bindingVars, Label, Over
<1>6. CASE Grant(o)
  BY <1>6, EndsBystander DEF Grant, Polled, MayTake, Goto, bindingVars, Label, Over
<1>7. CASE Refuse(o)
  BY <1>7, EndsBystander DEF Refuse, Polled, Goto, bindingVars, Label, Over
<1>8. CASE Park(o)
  <2>1. CASE o \in expired
    BY <1>8, <2>1, EndsBystander DEF Park, Polled, Goto, bindingVars, Label, Over
  <2>2. CASE o \notin expired
    BY <1>8, <2>2 DEF Park, bindingVars, Ends, NoForgottenBinding
  <2>. QED
    BY <2>1, <2>2
<1>9. CASE TimeOut(o) \/ DropAcquire(o)
  BY <1>9, EndsBystander DEF TimeOut, DropAcquire, Dequeue, Goto, bindingVars, Label, Over
<1>10. CASE Attach(o)
  BY <1>10, EndsBystander DEF Attach, Goto, hostVars, bindingVars, Label, Over
<1>11. CASE GiveUp(o) \/ PublishRevoked(o)
  <2>1. /\ pc[o] \in {"attaching", "permit"} /\ pc' = [pc EXCEPT ![o] = "ending"]
        /\ bindings' = bindings /\ claims' = claims \ {o} /\ released' = released \ {o}
        /\ UNCHANGED <<phase, cancelled, sealed, live, retired, done, checks>>
    BY <1>11 DEF GiveUp, PublishRevoked, DropClaim, Goto, bindingVars
  <2>. QED
    BY <2>1, EndsBystander DEF Label, Over
<1>12. CASE Publish(o)
  <2>1. PICK l \in {"consuming", "registered"} : pc' = [pc EXCEPT ![o] = l]
    BY <1>12 DEF Publish, Goto
  <2>. QED
    BY <1>12, <2>1, EndsBystander DEF Publish, bindingVars, Label, Over
<1>13. CASE ConsumeClaim(o)
  BY <1>13, EndsBystander DEF ConsumeClaim, Goto, hostVars, bindingVars, Label, Over
<1>14. CASE Expire(o)
  BY <1>14 DEF Expire, hostVars, bindingVars, Ends, NoForgottenBinding
<1>15. CASE Open(o)
  <2>1. /\ pc[o] = "registered" /\ live' = [live EXCEPT ![o] = live[o] + 1]
        /\ UNCHANGED <<phase, claims, released, bindings, cancelled, sealed, retired,
                       done, checks, pc>>
    BY <1>15 DEF Open, hostVars, futureVars
  <2>2. o \notin retired /\ o \notin sealed
    BY <2>1 DEF IInv, Retirement, Ends, Over
  <2>. QED
    BY <2>1, <2>2 DEF Ends, NoForgottenBinding
<1>16. CASE EndLive(o)
  <2>1. /\ live[o] > 0 /\ live' = [live EXCEPT ![o] = live[o] - 1]
        /\ checks' = [checks EXCEPT ![o] = checks[o] + 1]
        /\ UNCHANGED <<phase, claims, released, bindings, cancelled, sealed, retired,
                       done, pc>>
    BY <1>16 DEF EndLive, hostVars, futureVars
  <2>2. o \notin retired /\ checks'[o] # 0 /\ live' \in [Op -> Nat]
        /\ checks' \in [Op -> Nat] /\ \A x \in Op : x # o => live'[x] = live[x] /\ checks'[x] = checks[x]
    BY <2>1 DEF Ends
  <2>. QED
    BY <2>1, <2>2 DEF Ends, NoForgottenBinding
<1>17. CASE CancelBinding(o)
  BY <1>17 DEF CancelBinding, hostVars, futureVars, Ends, NoForgottenBinding
<1>18. CASE Finish(o)
  <2>1. /\ pc[o] = "registered" /\ pc' = [pc EXCEPT ![o] = "finished"]
        /\ sealed' = sealed \cup {o} /\ cancelled \subseteq cancelled'
        /\ checks' = [checks EXCEPT ![o] = checks[o] + 1]
        /\ UNCHANGED <<phase, claims, released, bindings, live, retired, done>>
    BY <1>18 DEF Finish, Goto, hostVars
  <2>2. checks' \in [Op -> Nat] /\ checks'[o] # 0
        /\ \A x \in Op : x # o => checks'[x] = checks[x]
    BY <2>1 DEF Ends
  <2>3. \A x \in Op : x # o => pc'[x] = pc[x]
    BY <2>1, Relabel DEF IInv, Label
  <2>4. o \notin retired /\ o \notin done
    BY <2>1 DEF Ends, Over
  <2>. QED
    BY <2>1, <2>2, <2>3, <2>4 DEF Ends, NoForgottenBinding
<1>19. CASE WinRetirement(o)
  <2>1. /\ checks[o] > 0 /\ checks' = [checks EXCEPT ![o] = checks[o] - 1]
        /\ UNCHANGED <<phase, claims, released, bindings, cancelled, sealed, live, done>>
    BY <1>19 DEF WinRetirement, hostVars
  <2>2. checks' \in [Op -> Nat] /\ \A x \in Op : x # o => checks'[x] = checks[x]
    BY <2>1 DEF Ends
  <2>3. CASE o \in sealed /\ live[o] = 0 /\ o \notin retired
    <3>1. /\ pc[o] = "finished" /\ pc' = [pc EXCEPT ![o] = "retiring"]
          /\ retired' = retired \cup {o}
      BY <1>19, <2>3 DEF WinRetirement, Goto, IInv, Retirement
    <3>2. pc'[o] = "retiring" /\ \A x \in Op : x # o => pc'[x] = pc[x]
      BY <3>1, Relabel DEF IInv, Label
    <3>3. o \notin done
      BY <3>1 DEF Ends, Over
    <3>. QED
      BY <2>1, <2>2, <2>3, <3>1, <3>2, <3>3 DEF Ends, NoForgottenBinding
  <2>4. CASE ~(o \in sealed /\ live[o] = 0 /\ o \notin retired)
    <3>1. UNCHANGED <<retired, pc>>
      BY <1>19, <2>4 DEF WinRetirement
    <3>. QED
      BY <2>1, <2>2, <2>4, <3>1 DEF Ends, NoForgottenBinding
  <2>. QED
    BY <2>3, <2>4
<1>20. CASE Retire(o)
  <2>1. /\ pc[o] = "retiring" /\ pc' = [pc EXCEPT ![o] = "ending"]
        /\ bindings' = bindings \ {o} /\ done' = done \cup {o}
        /\ UNCHANGED <<phase, claims, released, cancelled, sealed, live, retired, checks>>
    BY <1>20 DEF Retire, Goto
  <2>2. pc'[o] = "ending" /\ \A x \in Op : x # o => pc'[x] = pc[x]
    BY <2>1, Relabel DEF IInv, Label
  <2>. QED
    BY <2>1, <2>2 DEF Ends, NoForgottenBinding, Over
<1>. QED
  BY <1>1, <1>2, <1>3, <1>4, <1>5, <1>6, <1>7, <1>8, <1>9, <1>10, <1>11, <1>12, <1>13,
     <1>14, <1>15, <1>16, <1>17, <1>18, <1>19, <1>20 DEF Step

\* The ends are kept by every step of the host, its seal included.
LEMMA EndsInvariant == Spec => [](IInv /\ Ends)
<1>1. Init => Ends
  BY DEF Init, Ends, NoForgottenBinding
<1>2. IInv /\ Ends /\ [Next]_vars => Ends'
  <2>. SUFFICES ASSUME IInv, Ends, [Next]_vars PROVE Ends'
    OBVIOUS
  <2>1. CASE \E o \in Op : Step(o)
    BY <2>1, EndsKept
  <2>2. CASE Seal
    BY <2>2 DEF Seal, Ends, NoForgottenBinding
  <2>3. CASE CloseJobDone \/ UNCHANGED vars
    <3>1. CASE phase = "Open"
      BY <2>3, <3>1 DEF CloseJobDone, vars, hostVars, bindingVars, futureVars, Ends,
                        NoForgottenBinding
    <3>2. CASE phase # "Open"
      BY <2>3, <3>2 DEF CloseJobDone, vars, hostVars, bindingVars, futureVars, Ends,
                        NoForgottenBinding
    <3>. QED
      BY <3>1, <3>2
  <2>. QED
    BY <2>1, <2>2, <2>3 DEF Next
<1>. QED
  BY <1>1, <1>2, InitSlots, NextSlots, PTL DEF Spec

\* Ends are final: after a seal no binding escapes its cancellation and no claim
\* its revocation, and an operation that was retired has nothing left and is
\* reported only with its slot given back, whichever thread won the retirement.
THEOREM FinalEnds == Spec => []EndIsFinal
<1>1. IInv /\ Ends => EndIsFinal
  <2>. SUFFICES ASSUME IInv, Ends PROVE EndIsFinal
    OBVIOUS
  <2>1. ASSUME NEW o \in retired, o \in done PROVE o \notin bindings
    BY <2>1 DEF Ends, IInv, Tables, Over, InBindings
  <2>. QED
    BY <2>1 DEF Ends, EndIsFinal
<1>. QED
  BY <1>1, EndsInvariant, PTL

\* No registered operation is forgotten: once it is sealed, has nothing live and
\* no call of retire_if_done is on its way, its retirement was won.
THEOREM NoneForgotten == Spec => []NoForgottenBinding
<1>1. Ends => NoForgottenBinding
  BY DEF Ends
<1>. QED
  BY <1>1, EndsInvariant, PTL

-----------------------------------------------------------------------------
(* The single-admission contexts. *)

\* The labels of a life with its single-admission context held, or consumed.
Holding == {"charging", "joining", "waiting", "timing out", "attaching", "permit",
            "consuming"}
Consumed == {"registered", "finished", "retiring"}
Using(o) == pc[o] \notin {"new", "gone"}
Bound(o) == o \in bindings \cup retired

\* What a life says of its single-admission context: SingleAdmission counts the
\* lives, so two of them may never use a context together.
ContextLives ==
  /\ single \in [Context -> {"free", "held", "consumed"}]
  /\ \A o \in Op : IsSingle(o) =>
       /\ pc[o] \in Holding => single[ContextOf[o]] = "held"
       /\ pc[o] \in Consumed \/ o \in retired => single[ContextOf[o]] = "consumed"
       /\ pc[o] \in {"ending", "freeing"} /\ o \notin retired =>
            single[ContextOf[o]] = "held"
  /\ \A o, x \in Op :
       IsSingle(o) /\ ContextOf[x] = ContextOf[o] /\ Using(o) /\ Using(x) => x = o
  /\ \A o, x \in Op :
       IsSingle(o) /\ ContextOf[x] = ContextOf[o] /\ Bound(o) /\ Bound(x) => x = o
  /\ \A c \in Single :
       single[c] = "held" => \E o \in Op : ContextOf[o] = c /\ Using(o)

\* Lives that are not of a single-admission context are of no concern to one.
LEMMA SharedBystander ==
  ASSUME IInv, ContextLives, NEW o \in Op, ~IsSingle(o),
         single' \in [Context -> {"free", "held", "consumed"}],
         \A c \in Single : single'[c] = single[c],
         \A x \in Op : x # o => /\ pc'[x] = pc[x]
                                /\ x \in retired' <=> x \in retired
                                /\ x \in bindings' <=> x \in bindings
  PROVE  ContextLives'
<1>1. ASSUME NEW x \in Op, IsSingle(x)
      PROVE  x # o /\ \A y \in Op : ContextOf[y] = ContextOf[x] => y # o
  BY <1>1 DEF IsSingle
<1>2. ASSUME NEW c \in Single, single[c] = "held"
      PROVE  \E x \in Op : ContextOf[x] = c /\ Using(x)'
  <2>1. PICK x \in Op : ContextOf[x] = c /\ Using(x)
    BY <1>2 DEF ContextLives
  <2>2. x # o
    BY <2>1 DEF IsSingle
  <2>. QED
    BY <2>1, <2>2 DEF Using
<1>3. ASSUME NEW x \in Op, NEW y \in Op, IsSingle(x), ContextOf[y] = ContextOf[x]
      PROVE  /\ Using(x)' /\ Using(y)' => y = x
             /\ Bound(x)' /\ Bound(y)' => y = x
  <2>1. x # o /\ y # o
    BY <1>1, <1>3
  <2>2. /\ Using(x)' <=> Using(x)
        /\ Using(y)' <=> Using(y)
        /\ Bound(x)' <=> Bound(x)
        /\ Bound(y)' <=> Bound(y)
    BY <2>1 DEF Using, Bound
  <2>. QED
    BY <1>3, <2>2 DEF ContextLives
<1>4. ASSUME NEW x \in Op, IsSingle(x)
      PROVE  /\ pc'[x] \in Holding => single[ContextOf[x]] = "held"
             /\ pc'[x] \in Consumed \/ x \in retired' => single[ContextOf[x]] = "consumed"
             /\ pc'[x] \in {"ending", "freeing"} /\ x \notin retired' =>
                  single[ContextOf[x]] = "held"
  <2>1. pc'[x] = pc[x] /\ (x \in retired' <=> x \in retired)
    BY <1>1, <1>4
  <2>. QED
    BY <1>4, <2>1 DEF ContextLives
<1>. QED
  BY <1>2, <1>3, <1>4 DEF ContextLives, IsSingle

\* A life of a single-admission context goes on: it keeps what it holds.
LEMMA SingleMoves ==
  ASSUME IInv, Ends, ContextLives, NEW o \in Op, NEW l \in Label,
         IsSingle(o), UNCHANGED <<single, retired>>, bindings' \subseteq bindings,
         pc' = [pc EXCEPT ![o] = l],
         \/ pc[o] \in Holding /\ l \in Holding \cup {"ending"}
         \/ pc[o] \in Consumed /\ l \in Consumed
         \/ o \in retired /\ Using(o) /\ l \in {"ending", "freeing"}
         \/ pc[o] = "ending" /\ l = "freeing"
  PROVE  ContextLives'
<1>1. pc'[o] = l /\ \A x \in Op : x # o => pc'[x] = pc[x]
  BY Relabel DEF IInv
<1>2. Using(o) /\ l \notin {"new", "gone"}
  BY DEF Using, Holding, Consumed
<1>3. \A x \in Op : Using(x)' <=> Using(x)
  BY <1>1, <1>2 DEF Using
<1>4. \A x \in Op : Bound(x)' => Bound(x)
  BY DEF Bound
<1>5. pc[o] \in Holding => o \notin retired
  BY DEF Ends, Over, Holding
<1>6. /\ l \in Holding => single[ContextOf[o]] = "held"
      /\ l \in Consumed \/ o \in retired => single[ContextOf[o]] = "consumed"
      /\ l \in {"ending", "freeing"} /\ o \notin retired => single[ContextOf[o]] = "held"
  BY <1>5 DEF ContextLives, Holding, Consumed
<1>7. ASSUME NEW x \in Op, IsSingle(x)
      PROVE  /\ pc'[x] \in Holding => single[ContextOf[x]] = "held"
             /\ pc'[x] \in Consumed \/ x \in retired => single[ContextOf[x]] = "consumed"
             /\ pc'[x] \in {"ending", "freeing"} /\ x \notin retired =>
                  single[ContextOf[x]] = "held"
  BY <1>1, <1>6, <1>7 DEF ContextLives
<1>. QED
  BY <1>3, <1>4, <1>7 DEF ContextLives, IsSingle

\* A life of a single-admission context that is in use is the only one, and a
\* context is held or consumed while one is in use.
LEMMA OnlyUser ==
  ASSUME IInv, Ends, ContextLives, NEW o \in Op, IsSingle(o)
  PROVE  /\ Using(o) => single[ContextOf[o]] # "free"
         /\ Using(o) => \A x \in Op : ContextOf[x] = ContextOf[o] /\ x # o => ~Using(x)
         /\ single[ContextOf[o]] # "consumed" =>
              \A x \in Op : ContextOf[x] = ContextOf[o] => x \notin retired
         /\ single[ContextOf[o]] = "free" =>
              \A x \in Op : ContextOf[x] = ContextOf[o] => ~Using(x) /\ x \notin bindings
<1>1. \A x \in Op : pc[x] \in Label
  BY DEF IInv, Tables
<1>2. ASSUME NEW x \in Op, IsSingle(x), Using(x) PROVE single[ContextOf[x]] # "free"
  BY <1>1, <1>2 DEF ContextLives, Using, Label, Holding, Consumed
<1>3. \A x \in Op : ContextOf[x] = ContextOf[o] => IsSingle(x)
  BY DEF IsSingle
<1>4. \A x \in Op : x \in bindings => Using(x)
  BY DEF IInv, Tables, InBindings, Using
<1>. QED
  BY <1>2, <1>3, <1>4 DEF ContextLives

\* The context of a life that was refused, or ended unregistered, is free again.
LEMMA ClaimFreed ==
  ASSUME IInv, Ends, ContextLives, NEW o \in Op, IsSingle(o), Using(o),
         FreeClaim(o), pc' = [pc EXCEPT ![o] = "gone"], UNCHANGED <<retired, bindings>>,
         pc[o] \notin InBindings
  PROVE  ContextLives'
<1>. DEFINE c == ContextOf[o]
<1>1. /\ pc'[o] = "gone" /\ \A x \in Op : x # o => pc'[x] = pc[x]
  BY Relabel DEF IInv, Label
<1>2. c \in Context /\ c \in Single
  BY HostAssumption DEF IsSingle
<1>3. \A x \in Op : Using(x)' <=> Using(x) /\ x # o
  BY <1>1 DEF Using
<1>4. \A x \in Op : ContextOf[x] = c => ~Using(x)'
  BY <1>3, OnlyUser
<1>5. \A x \in Op : Bound(x)' <=> Bound(x)
  BY DEF Bound
<1>6. single[c] \in {"held", "consumed"}
  BY <1>2, OnlyUser DEF ContextLives
<1>7. CASE single[c] = "held"
  <2>1. single' = [single EXCEPT ![c] = "free"]
    BY <1>7 DEF FreeClaim
  <2>2. /\ single' \in [Context -> {"free", "held", "consumed"}] /\ single'[c] = "free"
        /\ \A d \in Context : d # c => single'[d] = single[d]
    BY <1>2, <2>1 DEF ContextLives
  <2>3. \A x \in Op : ContextOf[x] = c => x \notin retired
    BY <1>7, OnlyUser
  <2>4. ASSUME NEW x \in Op, IsSingle(x)
        PROVE  /\ pc'[x] \in Holding => single'[ContextOf[x]] = "held"
               /\ pc'[x] \in Consumed \/ x \in retired => single'[ContextOf[x]] = "consumed"
               /\ pc'[x] \in {"ending", "freeing"} /\ x \notin retired =>
                    single'[ContextOf[x]] = "held"
    <3>1. CASE ContextOf[x] = c
      BY <1>4, <2>3, <3>1 DEF Using, Holding, Consumed
    <3>2. CASE ContextOf[x] # c
      <4>1. x # o /\ single'[ContextOf[x]] = single[ContextOf[x]]
        BY <2>2, <3>2, HostAssumption
      <4>. QED
        BY <1>1, <2>4, <4>1 DEF ContextLives
    <3>. QED
      BY <3>1, <3>2
  <2>5. ASSUME NEW d \in Single, single'[d] = "held"
        PROVE  \E x \in Op : ContextOf[x] = d /\ Using(x)'
    <3>1. d # c /\ single[d] = "held"
      BY <2>2, <2>5, HostAssumption
    <3>. QED
      BY <1>3, <3>1 DEF ContextLives
  <2>. QED
    BY <1>3, <1>5, <2>2, <2>4, <2>5 DEF ContextLives, IsSingle
<1>8. CASE single[c] = "consumed"
  <2>1. single' = single
    BY <1>8 DEF FreeClaim
  <2>2. ASSUME NEW x \in Op, IsSingle(x)
        PROVE  /\ pc'[x] \in Holding => single[ContextOf[x]] = "held"
               /\ pc'[x] \in Consumed \/ x \in retired => single[ContextOf[x]] = "consumed"
               /\ pc'[x] \in {"ending", "freeing"} /\ x \notin retired =>
                    single[ContextOf[x]] = "held"
    BY <1>1, <2>2 DEF ContextLives, Holding, Consumed
  <2>3. ASSUME NEW d \in Single, single[d] = "held"
        PROVE  \E x \in Op : ContextOf[x] = d /\ Using(x)'
    BY <1>3, <1>8, <2>3 DEF ContextLives
  <2>. QED
    BY <1>3, <1>5, <2>1, <2>2, <2>3 DEF ContextLives, IsSingle
<1>. QED
  BY <1>6, <1>7, <1>8

\* take_claim takes a context only when nobody uses it.
LEMMA TakeKeepsContexts ==
  ASSUME IInv, Ends, ContextLives, NEW o \in Op, IsSingle(o), TakeClaim(o)
  PROVE  ContextLives'
<1>. DEFINE c == ContextOf[o]
<1>0. /\ pc[o] = "new" /\ UNCHANGED <<retired, bindings>>
      /\ c \in Context /\ c \in Single
  BY HostAssumption DEF TakeClaim, hostVars, bindingVars, IsSingle
<1>1. CASE single[c] # "free"
  <2>1. single' = single /\ pc' = [pc EXCEPT ![o] = "gone"]
    BY <1>1 DEF TakeClaim, Goto
  <2>2. pc'[o] = "gone" /\ \A x \in Op : x # o => pc'[x] = pc[x]
    BY <2>1, Relabel DEF IInv, Label
  <2>3. \A x \in Op : (Using(x)' <=> Using(x)) /\ (Bound(x)' <=> Bound(x))
    BY <1>0, <2>2 DEF Using, Bound
  <2>4. ASSUME NEW x \in Op, IsSingle(x)
        PROVE  /\ pc'[x] \in Holding => single[ContextOf[x]] = "held"
               /\ pc'[x] \in Consumed \/ x \in retired => single[ContextOf[x]] = "consumed"
               /\ pc'[x] \in {"ending", "freeing"} /\ x \notin retired =>
                    single[ContextOf[x]] = "held"
    BY <2>2, <2>4 DEF ContextLives, Holding, Consumed
  <2>. QED
    BY <1>0, <2>1, <2>3, <2>4 DEF ContextLives, IsSingle
<1>2. CASE single[c] = "free"
  <2>1. single' = [single EXCEPT ![c] = "held"] /\ pc' = [pc EXCEPT ![o] = "charging"]
    BY <1>2 DEF TakeClaim, Goto
  <2>2. pc'[o] = "charging" /\ \A x \in Op : x # o => pc'[x] = pc[x]
    BY <2>1, Relabel DEF IInv, Label
  <2>3. /\ single' \in [Context -> {"free", "held", "consumed"}] /\ single'[c] = "held"
        /\ \A d \in Context : d # c => single'[d] = single[d]
    BY <1>0, <2>1 DEF ContextLives
  <2>4. \A x \in Op : ContextOf[x] = c => ~Using(x) /\ x \notin bindings /\ x \notin retired
    BY <1>2, OnlyUser
  <2>5. /\ Using(o)'
        /\ \A x \in Op : x # o => (Using(x)' <=> Using(x))
        /\ \A x \in Op : Bound(x)' <=> Bound(x)
    BY <1>0, <2>2 DEF Using, Bound
  <2>6. ASSUME NEW x \in Op, IsSingle(x)
        PROVE  /\ pc'[x] \in Holding => single'[ContextOf[x]] = "held"
               /\ pc'[x] \in Consumed \/ x \in retired => single'[ContextOf[x]] = "consumed"
               /\ pc'[x] \in {"ending", "freeing"} /\ x \notin retired =>
                    single'[ContextOf[x]] = "held"
    <3>1. CASE ContextOf[x] = c
      <4>1. x \notin retired /\ (x # o => pc'[x] \in {"new", "gone"})
        BY <2>2, <2>4, <3>1 DEF Using
      <4>. QED
        BY <2>2, <2>3, <3>1, <4>1 DEF Holding, Consumed
    <3>2. CASE ContextOf[x] # c
      <4>1. x # o /\ single'[ContextOf[x]] = single[ContextOf[x]]
        BY <2>3, <3>2, HostAssumption
      <4>. QED
        BY <2>2, <2>6, <4>1 DEF ContextLives
    <3>. QED
      BY <3>1, <3>2
  <2>7. ASSUME NEW x \in Op, NEW y \in Op, IsSingle(x), ContextOf[y] = ContextOf[x]
        PROVE  /\ Using(x)' /\ Using(y)' => y = x
               /\ Bound(x)' /\ Bound(y)' => y = x
    BY <2>4, <2>5, <2>7 DEF ContextLives
  <2>8. ASSUME NEW d \in Single, single'[d] = "held"
        PROVE  \E x \in Op : ContextOf[x] = d /\ Using(x)'
    <3>1. CASE d = c
      BY <2>5, <3>1
    <3>2. CASE d # c
      <4>1. single[d] = "held"
        BY <2>3, <2>8, <3>2, HostAssumption
      <4>2. PICK x \in Op : ContextOf[x] = d /\ Using(x)
        BY <4>1 DEF ContextLives
      <4>. QED
        BY <2>5, <3>2, <4>2
    <3>. QED
      BY <3>1, <3>2
  <2>. QED
    BY <1>0, <2>3, <2>6, <2>7, <2>8 DEF ContextLives, IsSingle
<1>. QED
  BY <1>1, <1>2

\* publish binds the only life of the context, and consume_claim follows it.
LEMMA PublishKeepsContexts ==
  ASSUME IInv, Ends, ContextLives, NEW o \in Op, IsSingle(o), Publish(o)
  PROVE  ContextLives'
<1>. DEFINE c == ContextOf[o]
<1>1. /\ pc[o] = "permit" /\ pc' = [pc EXCEPT ![o] = "consuming"]
      /\ bindings' = bindings \cup {o} /\ UNCHANGED <<single, retired>>
  BY DEF Publish, Goto, chargeVars, bindingVars
<1>2. pc'[o] = "consuming" /\ \A x \in Op : x # o => pc'[x] = pc[x]
  BY <1>1, Relabel DEF IInv, Label
<1>3. Using(o) /\ single[c] = "held"
  BY <1>1 DEF Using, ContextLives, Holding
<1>4. \A x \in Op : Using(x)' <=> Using(x)
  BY <1>2, <1>3 DEF Using
<1>5. \A x \in Op : ContextOf[x] = c /\ x # o => ~Using(x) /\ x \notin retired
  BY <1>3, OnlyUser
<1>6. \A x \in Op : x \in bindings => Using(x)
  BY DEF IInv, Tables, InBindings, Using
<1>7. ASSUME NEW x \in Op, NEW y \in Op, IsSingle(x), ContextOf[y] = ContextOf[x],
             Bound(x)', Bound(y)'
      PROVE  y = x
  <2>1. CASE ContextOf[x] = c
    BY <1>1, <1>5, <1>6, <1>7, <2>1 DEF Bound
  <2>2. CASE ContextOf[x] # c
    <3>1. Bound(x) /\ Bound(y)
      BY <1>1, <1>7, <2>2 DEF Bound
    <3>. QED
      BY <1>7, <3>1 DEF ContextLives
  <2>. QED
    BY <2>1, <2>2
<1>8. ASSUME NEW x \in Op, IsSingle(x)
      PROVE  /\ pc'[x] \in Holding => single[ContextOf[x]] = "held"
             /\ pc'[x] \in Consumed \/ x \in retired => single[ContextOf[x]] = "consumed"
             /\ pc'[x] \in {"ending", "freeing"} /\ x \notin retired =>
                  single[ContextOf[x]] = "held"
  <2>1. CASE x = o
    <3>1. o \notin retired
      BY <1>1 DEF Ends, Over
    <3>. QED
      BY <1>2, <1>3, <2>1, <3>1 DEF Consumed
  <2>2. CASE x # o
    BY <1>2, <1>8, <2>2 DEF ContextLives
  <2>. QED
    BY <2>1, <2>2
<1>. QED
  BY <1>1, <1>4, <1>7, <1>8 DEF ContextLives, IsSingle

LEMMA ConsumeKeepsContexts ==
  ASSUME IInv, Ends, ContextLives, NEW o \in Op, IsSingle(o), ConsumeClaim(o)
  PROVE  ContextLives'
<1>. DEFINE c == ContextOf[o]
<1>1. /\ pc[o] = "consuming" /\ pc' = [pc EXCEPT ![o] = "registered"]
      /\ single' = [single EXCEPT ![c] = "consumed"] /\ UNCHANGED <<retired, bindings>>
      /\ c \in Context
  BY HostAssumption DEF ConsumeClaim, Goto, hostVars, bindingVars
<1>2. pc'[o] = "registered" /\ \A x \in Op : x # o => pc'[x] = pc[x]
  BY <1>1, Relabel DEF IInv, Label
<1>3. /\ single' \in [Context -> {"free", "held", "consumed"}] /\ single'[c] = "consumed"
      /\ \A d \in Context : d # c => single'[d] = single[d]
  BY <1>1 DEF ContextLives
<1>4. Using(o)
  BY <1>1 DEF Using
<1>5. \A x \in Op : (Using(x)' <=> Using(x)) /\ (Bound(x)' <=> Bound(x))
  BY <1>1, <1>2, <1>4 DEF Using, Bound
<1>6. \A x \in Op : ContextOf[x] = c /\ x # o => pc[x] \in {"new", "gone"}
  BY <1>4, OnlyUser DEF Using
<1>7. ASSUME NEW x \in Op, IsSingle(x)
      PROVE  /\ pc'[x] \in Holding => single'[ContextOf[x]] = "held"
             /\ pc'[x] \in Consumed \/ x \in retired => single'[ContextOf[x]] = "consumed"
             /\ pc'[x] \in {"ending", "freeing"} /\ x \notin retired =>
                  single'[ContextOf[x]] = "held"
  <2>1. CASE ContextOf[x] = c
    BY <1>2, <1>3, <1>6, <2>1 DEF Holding, Consumed
  <2>2. CASE ContextOf[x] # c
    <3>1. x # o /\ single'[ContextOf[x]] = single[ContextOf[x]]
      BY <1>3, <2>2, HostAssumption
    <3>. QED
      BY <1>2, <1>7, <3>1 DEF ContextLives
  <2>. QED
    BY <2>1, <2>2
<1>8. ASSUME NEW d \in Single, single'[d] = "held"
      PROVE  \E x \in Op : ContextOf[x] = d /\ Using(x)'
  <2>1. d # c /\ single[d] = "held"
    BY <1>3, <1>8, HostAssumption
  <2>. QED
    BY <1>5, <2>1 DEF ContextLives
<1>. QED
  BY <1>1, <1>3, <1>5, <1>7, <1>8 DEF ContextLives, IsSingle

\* The retirement is that of a registered life.
LEMMA WinKeepsContexts ==
  ASSUME IInv, Ends, ContextLives, NEW o \in Op, IsSingle(o), WinRetirement(o)
  PROVE  ContextLives'
<1>0. UNCHANGED <<single, bindings>>
  BY DEF WinRetirement, hostVars, chargeVars
<1>1. CASE o \in sealed /\ live[o] = 0 /\ o \notin retired
  <2>1. /\ pc[o] = "finished" /\ pc' = [pc EXCEPT ![o] = "retiring"]
        /\ retired' = retired \cup {o}
    BY <1>1 DEF WinRetirement, Goto, IInv, Retirement
  <2>2. pc'[o] = "retiring" /\ \A x \in Op : x # o => pc'[x] = pc[x]
    BY <2>1, Relabel DEF IInv, Label
  <2>3. o \in bindings
    BY <2>1 DEF IInv, Tables, InBindings
  <2>4. \A x \in Op : (Using(x)' <=> Using(x)) /\ (Bound(x)' <=> Bound(x))
    BY <1>0, <2>1, <2>2, <2>3 DEF Using, Bound
  <2>5. single[ContextOf[o]] = "consumed"
    BY <2>1 DEF ContextLives, Consumed
  <2>6. ASSUME NEW x \in Op, IsSingle(x)
        PROVE  /\ pc'[x] \in Holding => single[ContextOf[x]] = "held"
               /\ pc'[x] \in Consumed \/ x \in retired' => single[ContextOf[x]] = "consumed"
               /\ pc'[x] \in {"ending", "freeing"} /\ x \notin retired' =>
                    single[ContextOf[x]] = "held"
    BY <2>1, <2>2, <2>5, <2>6 DEF ContextLives, Holding
  <2>. QED
    BY <1>0, <2>4, <2>6 DEF ContextLives, IsSingle
<1>2. CASE ~(o \in sealed /\ live[o] = 0 /\ o \notin retired)
  <2>1. UNCHANGED <<retired, pc>>
    BY <1>2 DEF WinRetirement
  <2>. QED
    BY <1>0, <2>1 DEF ContextLives, Using, Bound, IsSingle
<1>. QED
  BY <1>1, <1>2

\* A step of a life that is not of a single-admission context.
LEMMA SharedSteps ==
  ASSUME IInv, ContextLives, NEW o \in Op, ~IsSingle(o), Step(o)
  PROVE  ContextLives'
<1>1. single' = single \/ single' = [single EXCEPT ![ContextOf[o]] = "consumed"]
  BY DEF Step, TakeClaim, ReserveCharge, Join, EndCharge, EndClaim, Grant, Refuse, Park,
         TimeOut, DropAcquire, Dequeue, Expire, Attach, GiveUp, Publish, ConsumeClaim,
         PublishRevoked, DropClaim, Open, EndLive, CancelBinding, Finish, WinRetirement,
         Retire, FreeClaim, chargeVars
<1>2. pc' = pc \/ \E l \in Label : pc' = [pc EXCEPT ![o] = l]
  BY DEF Step, TakeClaim, ReserveCharge, Join, EndCharge, EndClaim, Grant, Refuse, Park,
         TimeOut, DropAcquire, Dequeue, Expire, Attach, GiveUp, Publish, ConsumeClaim,
         PublishRevoked, DropClaim, Open, EndLive, CancelBinding, Finish, WinRetirement,
         Retire, Goto, futureVars, Label
<1>3. \A x \in Op : x # o => pc'[x] = pc[x]
  BY <1>2, Relabel DEF IInv
<1>4. /\ retired' = retired \/ retired' = retired \cup {o}
      /\ bindings' = bindings \/ bindings' = bindings \cup {o} \/ bindings' = bindings \ {o}
  BY DEF Step, TakeClaim, ReserveCharge, Join, EndCharge, EndClaim, Grant, Refuse, Park,
         TimeOut, DropAcquire, Dequeue, Expire, Attach, GiveUp, Publish, ConsumeClaim,
         PublishRevoked, DropClaim, Open, EndLive, CancelBinding, Finish, WinRetirement,
         Retire, hostVars, bindingVars
<1>5. /\ single' \in [Context -> {"free", "held", "consumed"}]
      /\ \A c \in Single : single'[c] = single[c]
  BY <1>1, HostAssumption DEF ContextLives, IsSingle
<1>. QED
  BY <1>5, <1>3, <1>4, SharedBystander

\* Every step of a life keeps the contexts.
LEMMA ContextsKept ==
  ASSUME IInv, Ends, ContextLives, NEW o \in Op, Step(o)
  PROVE  ContextLives'
<1>0. CASE ~IsSingle(o)
  BY <1>0, SharedSteps
<1>. SUFFICES ASSUME IsSingle(o) PROVE ContextLives'
  BY <1>0
<1>1. CASE TakeClaim(o)
  BY <1>1, TakeKeepsContexts
<1>2. CASE ReserveCharge(o)
  <2>0. pc[o] = "charging" /\ UNCHANGED <<retired, bindings>>
    BY <1>2 DEF ReserveCharge, hostVars, bindingVars
  <2>1. CASE Charge[o] > AdmissionCharge
    BY <1>2, <2>0, <2>1, ClaimFreed DEF ReserveCharge, Goto, InBindings, Using
  <2>2. CASE ~(Charge[o] > AdmissionCharge)
    <3>1. PICK l \in {"ending", "joining"} : pc' = [pc EXCEPT ![o] = l] /\ single' = single
      BY <1>2, <2>2 DEF ReserveCharge, Goto
    <3>. QED
      BY <2>0, <3>1, SingleMoves DEF Label, Holding
  <2>. QED
    BY <2>1, <2>2
<1>3. CASE Join(o)
  <2>1. PICK l \in {"waiting", "ending"} : pc' = [pc EXCEPT ![o] = l]
    BY <1>3 DEF Join, Goto
  <2>. QED
    BY <1>3, <2>1, SingleMoves DEF Join, chargeVars, bindingVars, Label, Holding
<1>4. CASE EndCharge(o)
  BY <1>4, SingleMoves DEF EndCharge, Goto, hostVars, bindingVars, Label
<1>5. CASE EndClaim(o)
  BY <1>5, ClaimFreed DEF EndClaim, Goto, hostVars, bindingVars, InBindings, Using
<1>6. CASE Grant(o) \/ Refuse(o)
  BY <1>6, SingleMoves DEF Grant, Refuse, Polled, Goto, chargeVars, bindingVars, Label, Holding
<1>7. CASE TimeOut(o) \/ DropAcquire(o)
  BY <1>7, SingleMoves DEF TimeOut, DropAcquire, Dequeue, Goto, chargeVars, bindingVars,
                           Label, Holding
<1>8. CASE Attach(o) \/ GiveUp(o) \/ PublishRevoked(o)
  BY <1>8, SingleMoves DEF Attach, GiveUp, PublishRevoked, DropClaim, Goto, chargeVars,
                           hostVars, bindingVars, Label, Holding
<1>9. CASE Publish(o)
  BY <1>9, PublishKeepsContexts
<1>10. CASE ConsumeClaim(o)
  BY <1>10, ConsumeKeepsContexts
<1>11. CASE Finish(o)
  BY <1>11, SingleMoves DEF Finish, Goto, hostVars, chargeVars, Label, Consumed
<1>12. CASE WinRetirement(o)
  BY <1>12, WinKeepsContexts
<1>13. CASE Retire(o)
  <2>1. /\ pc[o] = "retiring" /\ o \in retired /\ pc' = [pc EXCEPT ![o] = "ending"]
        /\ bindings' \subseteq bindings /\ UNCHANGED <<single, retired>>
    BY <1>13 DEF Retire, Goto, IInv, Retirement, chargeVars
  <2>. QED
    BY <2>1, SingleMoves DEF Label, Using
<1>14. CASE Park(o) /\ pc' # pc
  BY <1>14, SingleMoves DEF Park, Polled, Goto, chargeVars, bindingVars, Label, Holding
<1>15. CASE UNCHANGED <<pc, single, retired, bindings>>
  BY <1>15 DEF ContextLives, IsSingle, Using, Bound
<1>. QED
  BY <1>1, <1>2, <1>3, <1>4, <1>5, <1>6, <1>7, <1>8, <1>9, <1>10, <1>11, <1>12, <1>13,
     <1>14, <1>15
     DEF Step, Park, Expire, Open, EndLive, CancelBinding, chargeVars, hostVars, bindingVars,
         futureVars

\* A set whose elements are all the same has at most one.
LEMMA AtMostOne ==
  ASSUME NEW S, \A x, y \in S : x = y
  PROVE  Cardinality(S) <= 1
<1>1. CASE S = {}
  BY <1>1, FS_EmptySet
<1>2. CASE S # {}
  <2>1. PICK x : S = {x}
    BY <1>2
  <2>. QED
    BY <2>1, FS_Singleton
<1>. QED
  BY <1>1, <1>2

\* A single-admission context serves one admission at a time and one
\* registration ever, although its claim, its charge and its table entry are
\* taken and given back in separate atomic steps.
THEOREM SingleAdmissions == Spec => []SingleAdmission
<1>1. Init => ContextLives
  BY HostAssumption DEF Init, ContextLives, Holding, Consumed, Using, Bound
<1>2. IInv /\ Ends /\ ContextLives /\ [Next]_vars => ContextLives'
  <2>. SUFFICES ASSUME IInv, Ends, ContextLives, [Next]_vars PROVE ContextLives'
    OBVIOUS
  <2>1. CASE \E o \in Op : Step(o)
    BY <2>1, ContextsKept
  <2>2. CASE Seal \/ CloseJobDone \/ UNCHANGED vars
    <3>1. UNCHANGED <<single, pc, bindings, retired>>
      BY <2>2 DEF Seal, CloseJobDone, vars, hostVars, chargeVars, bindingVars, futureVars
    <3>2. \A o \in Op : (Using(o)' <=> Using(o)) /\ (Bound(o)' <=> Bound(o))
      BY <3>1 DEF Using, Bound
    <3>. QED
      BY <3>1, <3>2 DEF ContextLives, IsSingle
  <2>. QED
    BY <2>1, <2>2 DEF Next
<1>3. IInv /\ Ends /\ ContextLives => SingleAdmission
  <2>. SUFFICES ASSUME IInv, Ends, ContextLives, NEW c \in Single
                PROVE  LET Users == {o \in Op : ContextOf[o] = c /\ Using(o)}
                           Binds == {o \in Op : ContextOf[o] = c /\ Bound(o)}
                       IN  /\ Cardinality(Users) <= 1
                           /\ Cardinality(Binds) <= 1
                           /\ Binds # {} => single[c] # "free"
                           /\ single[c] = "free" => Users = {}
                           /\ single[c] = "held" => Users # {}
    BY DEF SingleAdmission, Using, Bound
  <2>. DEFINE Users == {o \in Op : ContextOf[o] = c /\ Using(o)}
              Binds == {o \in Op : ContextOf[o] = c /\ Bound(o)}
  <2>1. Cardinality(Users) <= 1 /\ Cardinality(Binds) <= 1
    <3>1. \A x, y \in Users : x = y
      BY DEF ContextLives, IsSingle
    <3>2. \A x, y \in Binds : x = y
      BY DEF ContextLives, IsSingle
    <3>. QED
      BY <3>1, <3>2, AtMostOne
  <2>2. ASSUME NEW o \in Op, ContextOf[o] = c
        PROVE  Using(o) \/ Bound(o) => single[c] # "free"
    <3>1. IsSingle(o)
      BY <2>2 DEF IsSingle
    <3>2. o \in bindings => Using(o)
      BY DEF IInv, Tables, InBindings, Using
    <3>. QED
      BY <2>2, <3>1, <3>2, OnlyUser DEF Bound, ContextLives
  <2>. QED
    BY <2>1, <2>2 DEF ContextLives
<1>. QED
  BY <1>1, <1>2, <1>3, EndsInvariant, PTL DEF Spec

-----------------------------------------------------------------------------
(* The charge budget. *)

\* The labels of a life that holds no charge, and the lives that hold one, or
\* hold one within the budget.
Unheld == {"new", "charging", "freeing", "gone"}
Holders == {o \in Op : pc[o] \notin Unheld}
Committed == {o \in Op : pc[o] \notin Unheld \cup {"ending"}}

LEMMA ChargeIs ==
  ChargeExact <=> charged = Sum(Charge, Holders) /\ Sum(Charge, Committed) <= HostCharge
<1>1. {o \in Op : pc[o] \notin {"new", "charging", "freeing", "gone"}} = Holders
  BY DEF Holders, Unheld
<1>2. {o \in Holders : pc[o] # "ending"} = Committed
  BY DEF Holders, Committed
<1>. QED
  BY <1>1, <1>2 DEF ChargeExact, Sum

LEMMA ChargeIsNext ==
  ChargeExact' <=>
    (charged = Sum(Charge, Holders) /\ Sum(Charge, Committed) <= HostCharge)'
  BY ChargeIs, PTL

\* Any set of lives is finite, and its charges add up.
LEMMA ChargesAdd ==
  ASSUME NEW S \in SUBSET Op
  PROVE  IsFiniteSet(S) /\ NatOn(Charge, S) /\ Sum(Charge, S) \in Nat
<1>1. IsFiniteSet(S) /\ NatOn(Charge, S)
  BY HostAssumption, FS_Subset DEF NatOn
<1>. QED
  BY <1>1, SumType

\* A life that keeps its charge, or goes on without one, leaves the counter true.
LEMMA ChargeBystander ==
  ASSUME IInv, ChargeExact, charged' = charged, NEW o \in Op, NEW l \in Label,
         pc' = [pc EXCEPT ![o] = l],
         pc[o] \in Unheld <=> l \in Unheld, pc[o] = "ending" => l = "ending"
  PROVE  ChargeExact'
<1>1. pc'[o] = l /\ \A x \in Op : x # o => pc'[x] = pc[x]
  BY Relabel DEF IInv
<1>2. Holders' = Holders
  BY <1>1 DEF Holders
<1>3. Committed' \subseteq Committed /\ Committed \in SUBSET Op /\ Committed' \in SUBSET Op
  BY <1>1 DEF Committed
<1>4. Sum(Charge, Committed') <= Sum(Charge, Committed)
  BY <1>3, ChargesAdd, SumMonotone
<1>5. Sum(Charge, Committed) \in Nat /\ Sum(Charge, Committed') \in Nat
  BY <1>3, ChargesAdd
<1>6. Sum(Charge, Committed') <= HostCharge
  BY <1>4, <1>5, ChargeIs, HostAssumption
<1>. QED
  BY <1>2, <1>6, ChargeIs, ChargeIsNext

\* The charge is added when it is reserved, and kept only within the budget.
LEMMA ReserveKeepsCharge ==
  ASSUME IInv, ChargeExact, NEW o \in Op, ReserveCharge(o)
  PROVE  ChargeExact'
<1>1. CASE Charge[o] > AdmissionCharge
  BY <1>1, ChargeBystander DEF ReserveCharge, Goto, Label, Unheld
<1>2. CASE ~(Charge[o] > AdmissionCharge)
  <2>. DEFINE l == IF charged + Charge[o] > HostCharge THEN "ending" ELSE "joining"
  <2>1. /\ pc[o] = "charging" /\ charged' = charged + Charge[o]
        /\ pc' = [pc EXCEPT ![o] = l]
    BY <1>2 DEF ReserveCharge, Goto
  <2>2. pc'[o] = l /\ \A x \in Op : x # o => pc'[x] = pc[x]
    BY <2>1, Relabel DEF IInv, Label
  <2>3. /\ o \notin Holders /\ Holders' = Holders \cup {o} /\ Holders \in SUBSET Op
    BY <2>1, <2>2 DEF Holders, Unheld
  <2>4. Charge[o] \in Nat
    BY HostAssumption
  <2>5. Sum(Charge, Holders') = Sum(Charge, Holders) + Charge[o]
    BY <2>3, <2>4, ChargesAdd, SumInsert
  <2>6. /\ o \notin Committed /\ Committed \subseteq Holders /\ Committed \in SUBSET Op
        /\ l = "ending" => Committed' = Committed
        /\ l = "joining" => Committed' = Committed \cup {o}
    BY <2>1, <2>2 DEF Committed, Holders, Unheld
  <2>7. /\ Sum(Charge, Committed) <= Sum(Charge, Holders)
        /\ Sum(Charge, Committed) \in Nat /\ Sum(Charge, Holders) \in Nat
    BY <2>3, <2>6, ChargesAdd, SumMonotone
  <2>8. l = "joining" => Sum(Charge, Committed') = Sum(Charge, Committed) + Charge[o]
    BY <2>4, <2>6, ChargesAdd, SumInsert
  <2>9. charged = Sum(Charge, Holders) /\ Sum(Charge, Committed) <= HostCharge
    BY ChargeIs
  <2>10. Sum(Charge, Committed') <= HostCharge
    BY <2>4, <2>6, <2>7, <2>8, <2>9, HostAssumption
  <2>. QED
    BY <2>1, <2>5, <2>9, <2>10, ChargeIsNext
<1>. QED
  BY <1>1, <1>2

\* The charge goes back exactly once, when its life ends.
LEMMA EndKeepsCharge ==
  ASSUME IInv, ChargeExact, NEW o \in Op, EndCharge(o)
  PROVE  ChargeExact'
<1>1. PICK l \in {"freeing", "gone"} :
        /\ pc[o] = "ending" /\ charged' = charged - Charge[o] /\ pc' = [pc EXCEPT ![o] = l]
  BY DEF EndCharge, Goto
<1>2. pc'[o] = l /\ \A x \in Op : x # o => pc'[x] = pc[x]
  BY <1>1, Relabel DEF IInv, Label
<1>3. o \in Holders /\ Holders' = Holders \ {o} /\ Holders \in SUBSET Op
  BY <1>1, <1>2 DEF Holders, Unheld
<1>4. Committed' = Committed
  BY <1>1, <1>2 DEF Committed, Unheld
<1>5. Sum(Charge, Holders) = Charge[o] + Sum(Charge, Holders')
  BY <1>3, ChargesAdd, SumRemove
<1>6. Charge[o] \in Nat /\ Sum(Charge, Holders') \in Nat
  BY <1>3, ChargesAdd, HostAssumption
<1>. QED
  BY <1>1, <1>4, <1>5, <1>6, ChargeIs, ChargeIsNext

\* No other step changes what is held.
LEMMA ChargeKept ==
  ASSUME IInv, ChargeExact, NEW o \in Op, Step(o)
  PROVE  ChargeExact'
<1>0. IInv /\ ChargeExact /\ pc[o] \in Label
  BY DEF IInv, Tables
<1>1. CASE TakeClaim(o)
  <2>1. PICK l \in {"gone", "charging"} : pc' = [pc EXCEPT ![o] = l]
    BY <1>1 DEF TakeClaim, Goto
  <2>. QED
    BY <1>1, <2>1, ChargeBystander DEF TakeClaim, Label, Unheld
<1>2. CASE ReserveCharge(o)
  BY <1>2, ReserveKeepsCharge
<1>3. CASE Join(o)
  <2>1. PICK l \in {"waiting", "ending"} : pc' = [pc EXCEPT ![o] = l]
    BY <1>3 DEF Join, Goto
  <2>. QED
    BY <1>3, <2>1, ChargeBystander DEF Join, chargeVars, Label, Unheld
<1>4. CASE EndCharge(o)
  BY <1>4, EndKeepsCharge
<1>5. CASE EndClaim(o)
  BY <1>5, ChargeBystander DEF EndClaim, Goto, Label, Unheld
<1>6. CASE Grant(o) \/ Refuse(o)
  BY <1>6, ChargeBystander DEF Grant, Refuse, Polled, Goto, chargeVars, Label, Unheld
<1>7. CASE TimeOut(o) \/ DropAcquire(o)
  BY <1>7, ChargeBystander DEF TimeOut, DropAcquire, Dequeue, Goto, chargeVars, Label, Unheld
<1>8. CASE Attach(o) \/ GiveUp(o) \/ PublishRevoked(o)
  BY <1>8, ChargeBystander DEF Attach, GiveUp, PublishRevoked, DropClaim, Goto, chargeVars,
                               Label, Unheld
<1>9. CASE Publish(o)
  <2>1. PICK l \in {"consuming", "registered"} : pc' = [pc EXCEPT ![o] = l]
    BY <1>9 DEF Publish, Goto
  <2>. QED
    BY <1>9, <2>1, ChargeBystander DEF Publish, chargeVars, Label, Unheld
<1>10. CASE ConsumeClaim(o) \/ Finish(o) \/ Retire(o)
  BY <1>10, ChargeBystander DEF ConsumeClaim, Finish, Retire, Goto, chargeVars, Label, Unheld
<1>11. CASE WinRetirement(o) /\ pc' # pc
  <2>1. pc[o] = "finished" /\ pc' = [pc EXCEPT ![o] = "retiring"] /\ charged' = charged
    BY <1>11 DEF WinRetirement, Goto, IInv, Retirement, chargeVars
  <2>. QED
    BY <2>1, ChargeBystander DEF Label, Unheld
<1>12. CASE Park(o) /\ pc' # pc
  BY <1>12, ChargeBystander DEF Park, Polled, Goto, chargeVars, Label, Unheld
<1>13. CASE UNCHANGED <<pc, charged>>
  BY <1>13 DEF ChargeExact
<1>. QED
  BY <1>1, <1>2, <1>3, <1>4, <1>5, <1>6, <1>7, <1>8, <1>9, <1>10, <1>11, <1>12, <1>13
     DEF Step, Park, WinRetirement, Expire, Open, EndLive, CancelBinding, chargeVars, futureVars

\* The charge counter is exact and the budget is kept, however many admissions
\* add their charge before they compare it, end, or are refused together.
THEOREM ChargesExact == Spec => []ChargeExact
<1>1. Init => ChargeExact
  <2>. SUFFICES ASSUME Init PROVE ChargeExact
    OBVIOUS
  <2>1. Holders = {} /\ Committed = {} /\ charged = 0
    BY DEF Init, Holders, Committed, Unheld
  <2>. QED
    BY <2>1, SumEmpty, ChargeIs, HostAssumption
<1>2. IInv /\ ChargeExact /\ [Next]_vars => ChargeExact'
  <2>. SUFFICES ASSUME IInv, ChargeExact, [Next]_vars PROVE ChargeExact'
    OBVIOUS
  <2>1. CASE \E o \in Op : Step(o)
    BY <2>1, ChargeKept
  <2>2. CASE Seal \/ CloseJobDone \/ UNCHANGED vars
    BY <2>2 DEF Seal, CloseJobDone, vars, chargeVars, futureVars, ChargeExact
  <2>. QED
    BY <2>1, <2>2 DEF Next
<1>. QED
  BY <1>1, <1>2, InitSlots, NextSlots, PTL DEF Spec
=============================================================================
