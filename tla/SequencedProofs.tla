--------------------------- MODULE SequencedProofs ---------------------------
(***************************************************************************)
(* The receiver of Sequenced implements SequencedOrder: for any streams,   *)
(* any limits, any frames submitted in any order and any answers of the    *)
(* callback, what is applied is in order, once, and not after an end.      *)
(***************************************************************************)
EXTENDS Sequenced, TLAPS

\* The shape of the tables, which no step changes.
Shape ==
  /\ applied \in [Stream -> Seq(Frame)]
  /\ expected \in [Stream -> Nat]
  /\ net \subseteq Frame /\ queue \in Seq(Frame) /\ next \in [Stream -> 1..(MaxSeq + 1)]
  /\ streams \subseteq Stream /\ direction \in Direction
  /\ terminal \in [Stream -> Frame \cup {None}]
  /\ pending = [s \in Stream |-> pending[s]]

\* What is held waits: it is at or after the expected frame, under its own
\* number, and nothing is held after the end.
Holds(s) ==
  /\ \A q \in DOMAIN pending[s] : q \in Nat /\ q >= expected[s]
  /\ \A q \in DOMAIN pending[s] : pending[s][q] \in Frame /\ pending[s][q].seq = q
  /\ terminal[s] # None => DOMAIN pending[s] = {}

\* The frames applied before the end are exactly the ones before the expected.
Follows(s) ==
  terminal[s] = None =>
    expected[s] = Len(applied[s]) + 1 /\ ~Order!Ended(applied[s])

\* The strengthening.  Once the receiver failed nothing is applied any more,
\* and its tables may be left half changed.
IInv == Shape /\ (failed = None => \A s \in Stream : Holds(s) /\ Follows(s))

-----------------------------------------------------------------------------

\* Initially nothing is held and nothing applied.
THEOREM InitOrder == Init => IInv /\ Order!Init
<1> SUFFICES ASSUME Init PROVE IInv /\ Order!Init
  OBVIOUS
<1>0. MaxSeq \in Nat
  BY LimitsAssumption
<1>1. Shape
  BY <1>0 DEF Init, Shape
<1>2. ASSUME NEW s \in Stream PROVE Holds(s) /\ Follows(s)
  BY DEF Init, Holds, Follows, EmptyMap, Order!Ended
<1> QED
  BY <1>1, <1>2 DEF IInv, Init, Order!Init

-----------------------------------------------------------------------------
(* The frames of one drain *)

\* Appending frames that are numbered on, and of which only the last may be
\* final, continues a sequence; the result has ended if the last one is final.
LEMMA BatchContinues ==
  ASSUME NEW a \in Seq(Frame), NEW b \in Seq(Frame), Len(b) > 0,
         \A j \in 1..Len(b) : b[j].seq = Len(a) + j,
         \A j \in 1..(Len(b) - 1) : b[j].kind \notin SenderFinal
  PROVE  /\ Order!Continues(a, a \o b)
         /\ Order!Ended(a \o b) <=> b[Len(b)].kind \in SenderFinal
<1> DEFINE r == a \o b
<1>1. r \in Seq(Frame) /\ Len(r) = Len(a) + Len(b) /\ Len(a) \in Nat /\ Len(b) \in Nat
  OBVIOUS
<1>2. \A i \in 1..Len(a) : r[i] = a[i]
  BY <1>1
<1>3. \A i \in (Len(a) + 1)..Len(r) : i - Len(a) \in 1..Len(b) /\ r[i] = b[i - Len(a)]
  BY <1>1
<1>4. r[Len(r)] = b[Len(b)] /\ r # <<>>
  BY <1>1, <1>3
<1> HIDE DEF r
<1>5. \A i \in (Len(a) + 1)..Len(r) : r[i].seq = i
  <2> TAKE i \in (Len(a) + 1)..Len(r)
  <2>1. i - Len(a) \in 1..Len(b) /\ r[i] = b[i - Len(a)]
    BY <1>3
  <2>2. r[i].seq = Len(a) + (i - Len(a))
    BY <2>1
  <2> QED
    BY <2>2, <1>1
<1>6. \A i \in (Len(a) + 1)..(Len(r) - 1) : r[i].kind \notin SenderFinal
  <2> TAKE i \in (Len(a) + 1)..(Len(r) - 1)
  <2>1. i \in (Len(a) + 1)..Len(r) /\ i - Len(a) \in 1..(Len(b) - 1)
    BY <1>1
  <2> QED
    BY <2>1, <1>3
<1>7. Order!Continues(a, r)
  BY <1>1, <1>2, <1>5, <1>6 DEF Order!Continues
<1>8. Order!Ended(r) <=> b[Len(b)].kind \in SenderFinal
  BY <1>4 DEF Order!Ended
<1> QED
  BY <1>7, <1>8 DEF r

\* What submit_inner hands to drain_pending: nothing, or the frame whose turn
\* it is, which is not held, and which is final only if nothing is.
Direct(s, direct) ==
  \/ direct = <<>>
  \/ \E m \in Frame :
       /\ direct = <<m>> /\ m.seq = expected[s] /\ terminal[s] = None
       /\ m.seq \notin DOMAIN pending[s]
       /\ m.kind \in SenderFinal => DOMAIN pending[s] = {}

Batch(s, direct, k) ==
  direct \o [i \in 1..k |-> pending[s][expected[s] + Len(direct) + i - 1]]

Run(s, direct, k) ==
  (expected[s] + Len(direct))..(expected[s] + Len(direct) + k - 1)

\* What a concatenation is made of.
LEMMA Concatenation ==
  ASSUME NEW S, NEW x \in Seq(S), NEW y \in Seq(S)
  PROVE  /\ x \o y \in Seq(S)
         /\ Len(x \o y) = Len(x) + Len(y)
         /\ \A j \in 1..Len(x) : (x \o y)[j] = x[j]
         /\ \A j \in (Len(x) + 1)..(Len(x) + Len(y)) :
              j - Len(x) \in 1..Len(y) /\ (x \o y)[j] = y[j - Len(x)]
  OBVIOUS

\* The frames a drain applies follow each other from the expected one, only the
\* last can be final, and then nothing stays held.
LEMMA BatchShape ==
  ASSUME NEW s \in Stream, NEW direct, NEW k \in Nat, Shape, Holds(s), Direct(s, direct),
         \A q \in Run(s, direct, k) : q \in DOMAIN pending[s] /\ ~Premature(s, q)
  PROVE  LET b == Batch(s, direct, k) IN
         /\ b \in Seq(Frame) /\ Len(b) = Len(direct) + k
         /\ \A j \in 1..Len(b) : b[j].seq = expected[s] + j - 1
         /\ \A j \in 1..(Len(b) - 1) : b[j].kind \notin SenderFinal
         /\ Len(b) > 0 => terminal[s] = None
         /\ Len(b) > 0 /\ b[Len(b)].kind \in SenderFinal =>
              DOMAIN pending[s] \ Run(s, direct, k) = {}
         /\ \A q \in DOMAIN pending[s] \ Run(s, direct, k) : q >= expected[s] + Len(b)
<1> DEFINE d == Len(direct)
           e == expected[s] + d
           tail == [i \in 1..k |-> pending[s][e + i - 1]]
           b == Batch(s, direct, k)
           held == DOMAIN pending[s]
<1>1. expected[s] \in Nat
  BY DEF Shape
<1>2. direct \in Seq(Frame) /\ d \in {0, 1}
  <2>1. CASE direct = <<>>
    BY <2>1
  <2>2. CASE direct # <<>>
    <3>1. PICK m \in Frame : direct = <<m>>
      BY <2>2 DEF Direct
    <3> QED
      BY <3>1
  <2> QED
    BY <2>1, <2>2
<1>a. d = 1 => /\ direct[1].seq = expected[s] /\ terminal[s] = None
               /\ expected[s] \notin held
               /\ direct[1].kind \in SenderFinal => held = {}
  <2> SUFFICES ASSUME d = 1 PROVE /\ direct[1].seq = expected[s] /\ terminal[s] = None
                                  /\ expected[s] \notin held
                                  /\ direct[1].kind \in SenderFinal => held = {}
    OBVIOUS
  <2>1. direct # <<>>
    OBVIOUS
  <2>2. PICK m \in Frame : /\ direct = <<m>> /\ m.seq = expected[s] /\ terminal[s] = None
                           /\ m.seq \notin held
                           /\ m.kind \in SenderFinal => held = {}
    BY <2>1 DEF Direct
  <2>3. direct[1] = m
    BY <2>2
  <2> QED
    BY <2>2, <2>3
<1>3. \A i \in 1..k : e + i - 1 \in Run(s, direct, k)
  BY <1>1, <1>2 DEF Run
<1>4. \A i \in 1..k : /\ e + i - 1 \in held /\ ~Premature(s, e + i - 1)
                      /\ tail[i] = pending[s][e + i - 1]
                      /\ tail[i] \in Frame /\ tail[i].seq = e + i - 1
  <2> TAKE i \in 1..k
  <2>1. e + i - 1 \in held /\ ~Premature(s, e + i - 1)
    BY <1>3
  <2> QED
    BY <2>1 DEF Holds
<1>5. tail \in Seq(Frame) /\ Len(tail) = k
  BY <1>4
<1>6. b = direct \o tail
  BY DEF Batch
<1> HIDE DEF tail, b
<1>7. b \in Seq(Frame) /\ Len(b) = d + k
  BY <1>2, <1>5, <1>6, Concatenation
<1>8. /\ \A j \in 1..d : b[j] = direct[j]
      /\ \A j \in (d + 1)..(d + k) : j - d \in 1..k /\ b[j] = tail[j - d]
  BY <1>2, <1>5, <1>6, Concatenation
<1>b. (d = 0 \/ d = 1) /\ e \in Nat /\ e = expected[s] + d /\ Len(direct) = d
  BY <1>1, <1>2
<1>c. Run(s, direct, k) = e..(e + k - 1)
  BY DEF Run
<1> HIDE DEF d, e
<1>9. \A j \in 1..Len(b) : b[j].seq = expected[s] + j - 1
  <2> TAKE j \in 1..Len(b)
  <2>1. CASE j <= d
    <3>1. j = 1 /\ d = 1
      BY <2>1, <1>b, <1>7
    <3> QED
      BY <3>1, <1>8, <1>a, <1>1
  <2>2. CASE j > d
    <3>1. j - d \in 1..k /\ b[j] = tail[j - d]
      BY <2>2, <1>b, <1>7, <1>8
    <3>2. b[j].seq = e + (j - d) - 1
      BY <3>1, <1>4
    <3> QED
      BY <3>2, <1>1, <1>b
  <2> QED
    BY <2>1, <2>2, <1>b
<1>10. \A q \in held : q \in Nat /\ q >= e
  <2> TAKE q \in held
  <2>1. q \in Nat /\ q >= expected[s]
    BY DEF Holds
  <2>2. d = 1 => q # expected[s]
    BY <1>a
  <2> QED
    BY <2>1, <2>2, <1>1, <1>b
<1>11. \A j \in 1..(Len(b) - 1) : b[j].kind \notin SenderFinal
  <2> TAKE j \in 1..(Len(b) - 1)
  <2>1. CASE j <= d
    <3>1. j = 1 /\ d = 1 /\ 1 \in 1..k
      BY <2>1, <1>b, <1>7
    <3>2. held # {}
      BY <3>1, <1>4
    <3> QED
      BY <3>1, <3>2, <1>8, <1>a
  <2>2. CASE j > d
    <3>1. j - d \in 1..k /\ j - d + 1 \in 1..k /\ b[j] = tail[j - d]
      BY <2>2, <1>b, <1>7, <1>8
    <3>2. e + (j - d + 1) - 1 \in held /\ e + (j - d + 1) - 1 > e + (j - d) - 1
      <4>1. e + (j - d + 1) - 1 \in held
        BY <3>1, <1>4
      <4>2. j \in Int /\ d \in Int /\ e \in Int
        BY <1>b, <1>7
      <4> QED
        BY <4>1, <4>2
    <3>3. ~Premature(s, e + (j - d) - 1) /\ b[j] = pending[s][e + (j - d) - 1]
      BY <3>1, <1>4
    <3> QED
      BY <3>2, <3>3 DEF Premature
  <2> QED
    BY <2>1, <2>2, <1>b
<1>12. Len(b) > 0 => terminal[s] = None
  <2> SUFFICES ASSUME Len(b) > 0, d # 1 PROVE terminal[s] = None
    BY <1>a
  <2>1. 1 \in 1..k
    BY <1>b, <1>7
  <2> QED
    BY <2>1, <1>4 DEF Holds
<1>13. Len(b) > 0 /\ b[Len(b)].kind \in SenderFinal => held \ Run(s, direct, k) = {}
  <2> SUFFICES ASSUME Len(b) > 0, b[Len(b)].kind \in SenderFinal
               PROVE  held \ Run(s, direct, k) = {}
    OBVIOUS
  <2>1. CASE k = 0
    <3>1. d = 1 /\ Len(b) = 1 /\ b[1] = direct[1]
      BY <2>1, <1>b, <1>7, <1>8
    <3> QED
      BY <3>1, <1>a
  <2>2. CASE k > 0
    <3>1. k \in 1..k /\ b[Len(b)] = tail[k]
      <4>1. Len(b) \in (d + 1)..(d + k) /\ Len(b) - d = k
        BY <2>2, <1>b, <1>7
      <4> QED
        BY <4>1, <2>2, <1>8
    <3>2. ~Premature(s, e + k - 1) /\ pending[s][e + k - 1].kind \in SenderFinal
      BY <3>1, <1>4
    <3>3. \A r \in held : ~(r > e + k - 1)
      BY <3>2 DEF Premature
    <3>4. \A r \in held : r \in Run(s, direct, k)
      BY <3>3, <1>10, <1>1, <1>b, <1>c
    <3> QED
      BY <3>4
  <2> QED
    BY <2>1, <2>2
<1>14. \A q \in held \ Run(s, direct, k) : q >= expected[s] + Len(b)
  BY <1>10, <1>7, <1>1, <1>b, <1>c
<1>15. b \in Seq(Frame) /\ Len(b) = Len(direct) + k
  BY <1>7, <1>b
<1> QED
  BY <1>15, <1>9, <1>11, <1>12, <1>13, <1>14, Zenon DEF b

-----------------------------------------------------------------------------
(* One step *)

\* A stream whose tables a step leaves alone keeps what holds of it.
LEMMA OthersKeep ==
  ASSUME NEW t \in Stream, Holds(t), Follows(t),
         expected'[t] = expected[t], pending'[t] = pending[t],
         terminal'[t] = terminal[t], applied'[t] = applied[t]
  PROVE  Holds(t)' /\ Follows(t)'
BY DEF Holds, Follows

\* drain_pending keeps the invariant and applies what comes next, or nothing.
LEMMA DrainKeeps ==
  ASSUME NEW s \in Stream, NEW direct, NEW k \in Nat, IInv, failed = None,
         Direct(s, direct), DrainTo(s, direct, k)
  PROVE  /\ applied' \in [Stream -> Seq(Frame)] /\ expected' \in [Stream -> Nat]
         /\ terminal' \in [Stream -> Frame \cup {None}]
         /\ pending' = [t \in Stream |-> pending'[t]] /\ streams' = streams
         /\ failed' = None => \A t \in Stream : Holds(t)' /\ Follows(t)'
         /\ Order!Next \/ applied' = applied
<1> DEFINE b == Batch(s, direct, k)
           n == Len(b)
           held == DOMAIN pending[s]
           left == held \ Run(s, direct, k)
<1>1. /\ \A q \in Run(s, direct, k) : q \in held /\ ~Premature(s, q)
      /\ MarkApplied(s, b) /\ streams' = streams
  BY DEF DrainTo, Run, Batch
<1>2. /\ Shape /\ Holds(s) /\ Follows(s)
      /\ \A t \in Stream : Holds(t) /\ Follows(t)
  BY DEF IInv
<1>3. /\ b \in Seq(Frame)
      /\ \A j \in 1..n : b[j].seq = expected[s] + j - 1
      /\ \A j \in 1..(n - 1) : b[j].kind \notin SenderFinal
      /\ n > 0 => terminal[s] = None
      /\ n > 0 /\ b[n].kind \in SenderFinal => left = {}
      /\ \A q \in left : q >= expected[s] + n
  BY <1>1, <1>2, BatchShape
<1> HIDE DEF b
<1>4. n \in Nat /\ (n > 0 => b[n] \in Frame)
  BY <1>3
<1>5. /\ expected' = [expected EXCEPT ![s] = expected[s] + n]
      /\ terminal' = [terminal EXCEPT ![s] =
           IF n > 0 /\ b[n].kind \in SenderFinal THEN b[n] ELSE terminal[s]]
      /\ applied' = [applied EXCEPT ![s] = applied[s] \o b]
  BY <1>1 DEF MarkApplied
<1>6. applied[s] \in Seq(Frame) /\ applied[s] \o b \in Seq(Frame)
  BY <1>2, <1>3 DEF Shape
<1>7. /\ applied' \in [Stream -> Seq(Frame)] /\ expected' \in [Stream -> Nat]
      /\ terminal' \in [Stream -> Frame \cup {None}]
  BY <1>2, <1>4, <1>5, <1>6 DEF Shape
<1>8. \E Q : Keep(s, Q)
  BY DEF DrainTo
<1>9. /\ pending' = [t \in Stream |-> pending'[t]]
      /\ \A t \in Stream \ {s} : pending'[t] = pending[t]
  BY <1>2, <1>8 DEF Shape, Keep
<1>10. Order!Next \/ applied' = applied
  <2>1. CASE n = 0
    <3>1. applied[s] \o b = applied[s]
      BY <2>1, <1>3, <1>6
    <3> QED
      BY <3>1, <1>5, <1>2 DEF Shape
  <2>2. CASE n > 0
    <3>1. expected[s] = Len(applied[s]) + 1 /\ ~Order!Ended(applied[s])
      BY <2>2, <1>2, <1>3 DEF Follows
    <3>2. \A j \in 1..n : b[j].seq = Len(applied[s]) + j
      BY <3>1, <1>3, <1>6
    <3>3. Order!Continues(applied[s], applied[s] \o b)
      BY <2>2, <3>2, <1>3, <1>6, BatchContinues
    <3>4. applied'[s] = applied[s] \o b /\ \A t \in Stream \ {s} : applied'[t] = applied[t]
      BY <1>5, <1>2 DEF Shape
    <3> QED
      BY <3>1, <3>3, <3>4 DEF Order!Next, Order!Apply
  <2> QED
    BY <2>1, <2>2, <1>4
<1>11. ASSUME failed' = None, NEW t \in Stream PROVE Holds(t)' /\ Follows(t)'
  <2>1. CASE t # s
    <3>1. /\ expected'[t] = expected[t] /\ pending'[t] = pending[t]
          /\ terminal'[t] = terminal[t] /\ applied'[t] = applied[t]
      BY <2>1, <1>2, <1>5, <1>9 DEF Shape
    <3> QED
      BY <3>1, <1>2, OthersKeep
  <2>2. CASE t = s
    <3>1. Keep(s, left)
      <4>1. None \notin Cause
        BY LimitsAssumption
      <4> QED
        BY <4>1, <1>11 DEF DrainTo, Run, Cause
    <3>2. pending'[s] = [q \in left |-> pending[s][q]]
      BY <3>1, <1>2 DEF Keep, Shape
    <3>3. /\ expected'[s] = expected[s] + n /\ applied'[s] = applied[s] \o b
          /\ terminal'[s] = IF n > 0 /\ b[n].kind \in SenderFinal THEN b[n] ELSE terminal[s]
      BY <1>2, <1>5 DEF Shape
    <3>4. Holds(s)'
      <4>1. DOMAIN pending'[s] = left /\ \A q \in left : pending'[s][q] = pending[s][q]
        BY <3>2
      <4>2. \A q \in left : q \in Nat /\ q >= expected'[s]
        BY <1>2, <1>3, <3>3 DEF Holds
      <4>3. \A q \in left : pending'[s][q] \in Frame /\ pending'[s][q].seq = q
        BY <4>1, <1>2 DEF Holds
      <4>4. terminal'[s] # None => left = {}
        BY <3>3, <1>3, <1>2 DEF Holds
      <4> QED
        BY <4>1, <4>2, <4>3, <4>4 DEF Holds
    <3>5. Follows(s)'
      <4> SUFFICES ASSUME terminal'[s] = None
                   PROVE  expected'[s] = Len(applied'[s]) + 1 /\ ~Order!Ended(applied'[s])
        BY DEF Follows
      <4>1. terminal[s] = None /\ ~(n > 0 /\ b[n].kind \in SenderFinal)
        BY <1>4, <3>3, LimitsAssumption
      <4>2. expected[s] = Len(applied[s]) + 1 /\ ~Order!Ended(applied[s])
        BY <4>1, <1>2 DEF Follows
      <4>3. Len(applied[s] \o b) = Len(applied[s]) + n
        BY <1>3, <1>6
      <4>4. ~Order!Ended(applied[s] \o b)
        <5>1. CASE n = 0
          BY <5>1, <4>2, <1>3, <1>6
        <5>2. CASE n > 0
          <6>1. \A j \in 1..n : b[j].seq = Len(applied[s]) + j
            BY <4>2, <1>3, <1>6
          <6> QED
            BY <6>1, <5>2, <4>1, <1>3, <1>6, BatchContinues
        <5> QED
          BY <5>1, <5>2, <1>4
      <4> QED
        BY <4>2, <4>3, <4>4, <3>3, <1>4, <1>6
    <3> QED
      BY <3>4, <3>5, <2>2
  <2> QED
    BY <2>1, <2>2
<1> QED
  BY <1>1, <1>7, <1>9, <1>10, <1>11

\* What a step of the receiver must keep, and what it may apply.
Kept ==
  /\ applied' \in [Stream -> Seq(Frame)] /\ expected' \in [Stream -> Nat]
  /\ terminal' \in [Stream -> Frame \cup {None}]
  /\ pending' = [t \in Stream |-> pending'[t]] /\ streams' \subseteq Stream
  /\ failed' = None => \A t \in Stream : Holds(t)' /\ Follows(t)'
  /\ Order!Next \/ applied' = applied

\* Buffering holds one frame more, at or after the expected one.
LEMMA BufferKeeps ==
  ASSUME IInv, failed = None, NEW m \in Frame, Fresh(m), Buffer(m)
  PROVE  Kept
<1> DEFINE s == m.stream
<1>1. s \in Stream /\ m.seq \in Nat
  BY LimitsAssumption DEF Frame
<1>2. Shape /\ \A t \in Stream : Holds(t) /\ Follows(t)
  BY DEF IInv
<1>3. /\ expected' = expected /\ terminal' = terminal /\ applied' = applied
      /\ streams' = streams
      /\ pending' = [pending EXCEPT ![s] =
            [q \in DOMAIN pending[s] \cup {m.seq} |-> IF q = m.seq THEN m ELSE pending[s][q]]]
  BY DEF Buffer
<1>4. terminal[s] = None /\ m.seq >= expected[s]
  BY DEF Fresh
<1> HIDE DEF s
<1>5. ASSUME NEW t \in Stream PROVE Holds(t)' /\ Follows(t)'
  <2>1. CASE t # s
    <3>1. pending'[t] = pending[t]
      BY <2>1, <1>2, <1>3 DEF Shape
    <3> QED
      BY <3>1, <1>1, <1>2, <1>3, OthersKeep
  <2>2. CASE t = s
    <3>1. pending'[s] = [q \in DOMAIN pending[s] \cup {m.seq} |->
                           IF q = m.seq THEN m ELSE pending[s][q]]
      BY <1>1, <1>2, <1>3 DEF Shape
    <3>2. Holds(s)'
      BY <3>1, <1>1, <1>2, <1>3, <1>4 DEF Holds
    <3>3. Follows(s)'
      BY <1>1, <1>2, <1>3 DEF Follows
    <3> QED
      BY <3>2, <3>3, <2>2
  <2> QED
    BY <2>1, <2>2
<1>6. pending' = [t \in Stream |-> pending'[t]]
  BY <1>2, <1>3 DEF Shape
<1> QED
  BY <1>2, <1>3, <1>5, <1>6 DEF Kept, Shape

\* An abortive frame overtakes what is held, and ends its stream.
LEMMA JumpKeeps ==
  ASSUME IInv, failed = None, NEW m \in Frame, Jump(m)
  PROVE  Kept
<1> DEFINE s == m.stream
<1>1. s \in Stream /\ m.seq \in Nat
  BY LimitsAssumption DEF Frame
<1>2. Shape /\ \A t \in Stream : Holds(t) /\ Follows(t)
  BY DEF IInv
<1>3. /\ expected' = expected /\ streams' = streams
      /\ terminal' = [terminal EXCEPT ![s] = m]
      /\ applied' = [applied EXCEPT ![s] = Append(applied[s], m)]
      /\ pending' = [pending EXCEPT ![s] = EmptyMap]
  BY DEF Jump
<1>4. terminal[s] = None /\ m.seq > expected[s] /\ m.kind \in Abortive
  BY DEF Jump, MayJump, Jumps, Fresh
<1>5. m # None
  BY LimitsAssumption
<1> HIDE DEF s
<1>6. /\ terminal'[s] = m /\ applied'[s] = Append(applied[s], m) /\ pending'[s] = EmptyMap
      /\ \A t \in Stream \ {s} : /\ terminal'[t] = terminal[t] /\ applied'[t] = applied[t]
                                 /\ pending'[t] = pending[t]
  BY <1>1, <1>2, <1>3 DEF Shape
<1>7. applied[s] \in Seq(Frame) /\ expected[s] \in Nat
  BY <1>1, <1>2 DEF Shape
<1>8. expected[s] = Len(applied[s]) + 1 /\ ~Order!Ended(applied[s])
  BY <1>1, <1>2, <1>4 DEF Follows
<1>9. Order!Overtakes(applied[s], applied'[s])
  BY <1>1, <1>4, <1>6, <1>7, <1>8 DEF Order!Overtakes
<1>10. Order!Next
  BY <1>1, <1>6, <1>8, <1>9 DEF Order!Next, Order!Apply
<1>11. ASSUME NEW t \in Stream PROVE Holds(t)' /\ Follows(t)'
  <2>1. CASE t # s
    BY <2>1, <1>1, <1>2, <1>3, <1>6, OthersKeep
  <2>2. CASE t = s
    BY <2>2, <1>5, <1>6 DEF Holds, Follows, EmptyMap
  <2> QED
    BY <2>1, <2>2
<1>12. /\ applied' \in [Stream -> Seq(Frame)] /\ terminal' \in [Stream -> Frame \cup {None}]
       /\ pending' = [t \in Stream |-> pending'[t]]
  <2>1. Append(applied[s], m) \in Seq(Frame)
    BY <1>7
  <2>2. applied' \in [Stream -> Seq(Frame)]
    BY <2>1, <1>2, <1>3 DEF Shape
  <2>3. terminal' \in [Stream -> Frame \cup {None}]
    BY <1>2, <1>3 DEF Shape
  <2>4. pending' = [t \in Stream |-> pending'[t]]
    BY <1>2, <1>3 DEF Shape
  <2> QED
    BY <2>2, <2>3, <2>4
<1> QED
  BY <1>2, <1>3, <1>10, <1>11, <1>12 DEF Kept, Shape

\* A step that leaves the tables alone.
LEMMA IdleKeeps ==
  ASSUME IInv, UNCHANGED <<expected, pending, terminal, applied>>,
         streams' \subseteq Stream, failed' = None => failed = None
  PROVE  Kept
<1>1. Shape /\ (failed' = None => \A t \in Stream : Holds(t) /\ Follows(t))
  BY DEF IInv
<1>2. failed' = None => \A t \in Stream : Holds(t)' /\ Follows(t)'
  BY <1>1 DEF Holds, Follows
<1> QED
  BY <1>1, <1>2 DEF Kept, Shape

\* Receiver::submit, for every frame and every answer of the callback.
LEMMA SubmitKeeps ==
  ASSUME IInv, NEW m \in Frame, Submit(m)
  PROVE  Kept
<1>1. failed = None /\ m.stream \in Stream /\ streams \subseteq Stream
  BY DEF Submit, Reaches, IInv, Shape, Frame
<1>2. None \notin Cause
  BY LimitsAssumption
<1>3. ASSUME NEW cause \in Cause, Fail(cause) PROVE Kept
  BY <1>1, <1>2, <1>3, IdleKeeps DEF Fail, streamVars
<1>4. CASE Refused(m)
  BY <1>3, <1>4 DEF Submit, Effect, Cause
<1>5. CASE ~Refused(m)
  <2>1. \/ TellSuperseded(m) \/ Jump(m) \/ BufferEarly(m) \/ BufferBlocked(m)
        \/ InTurn(m) /\ Drain(m.stream, <<m>>)
        \/ Fail("ApplyRejected")
    BY <1>5 DEF Submit, Effect
  <2>2. CASE TellSuperseded(m)
    BY <2>2, <1>1, IdleKeeps DEF TellSuperseded, streamVars
  <2>3. CASE Jump(m)
    BY <2>3, <1>1, JumpKeeps
  <2>4. CASE BufferEarly(m)
    BY <2>4, <1>1, BufferKeeps DEF BufferEarly
  <2>5. CASE BufferBlocked(m)
    BY <2>5, <1>1, BufferKeeps DEF BufferBlocked, InTurn
  <2>6. CASE InTurn(m) /\ Drain(m.stream, <<m>>)
    <3>1. Direct(m.stream, <<m>>)
      BY <1>5, <2>6 DEF Direct, InTurn, Fresh, Refused, EndsEarly
    <3>2. PICK k \in 0..Cardinality(DOMAIN pending[m.stream]) : DrainTo(m.stream, <<m>>, k)
      BY <2>6 DEF Drain
    <3>3. k \in Nat
      BY <3>2
    <3> QED
      BY <1>1, <3>1, <3>2, <3>3, DrainKeeps DEF Kept
  <2>7. CASE Fail("ApplyRejected")
    BY <2>7, <1>3 DEF Cause
  <2> QED
    BY <2>1, <2>2, <2>3, <2>4, <2>5, <2>6, <2>7
<1> QED
  BY <1>4, <1>5

\* Receiver::retry
LEMMA RetryKeeps ==
  ASSUME IInv, NEW s \in Stream, Retry(s)
  PROVE  Kept
<1>1. failed = None /\ Direct(s, <<>>) /\ streams \subseteq Stream
  BY DEF Retry, Direct, IInv, Shape
<1>2. PICK k \in 0..Cardinality(DOMAIN pending[s]) : DrainTo(s, <<>>, k)
  BY DEF Retry, Drain
<1>3. k \in Nat
  BY <1>2
<1> QED
  BY <1>1, <1>2, <1>3, DrainKeeps DEF Kept

\* Every step keeps the invariant, and applies as the abstract order allows.
THEOREM NextOrder == IInv /\ [Next]_vars => IInv' /\ [Order!Next]_applied
<1> SUFFICES ASSUME IInv, [Next]_vars PROVE IInv' /\ [Order!Next]_applied
  OBVIOUS
<1> DEFINE Carried == direction' \in Direction /\ net' \subseteq Frame /\ queue' \in Seq(Frame)
                       /\ next' \in [Stream -> 1..(MaxSeq + 1)]
<1>1. Shape /\ streams \subseteq Stream /\ MaxSeq \in Nat /\ Stray \subseteq Frame
  BY LimitsAssumption DEF IInv, Shape
<1>2. SUFFICES Kept /\ Carried
  BY DEF Kept, IInv, Shape
<1>3. ASSUME NEW s \in Stream, NEW k \in Sends[direction], Enqueue(s, k) PROVE Kept /\ Carried
  <2> DEFINE f == [stream |-> s, seq |-> next[s], kind |-> k, body |-> "sent"]
  <2>1. Kept
    BY <1>1, <1>3, IdleKeeps DEF Enqueue, recvVars, streamVars
  <2>2. k \in Kind
    BY <1>1, LimitsAssumption DEF Shape
  <2>3. next[s] \in 1..MaxSeq /\ next[s] \in Nat
    BY <1>1, <1>3 DEF Enqueue, MayEnqueue, Shape
  <2>4. f \in Frame
    BY <2>2, <2>3 DEF Frame
  <2>5. Append(queue, f) \in Seq(Frame)
    BY <2>4, <1>1 DEF Shape
  <2>6. next' = [next EXCEPT ![s] = next[s] + 1] /\ queue' = Append(queue, f)
        /\ net' = net /\ direction' = direction
    BY <1>3 DEF Enqueue
  <2> HIDE DEF f
  <2>7. next' \in [Stream -> 1..(MaxSeq + 1)]
    BY <2>3, <2>6, <1>1 DEF Shape
  <2> QED
    BY <2>1, <2>5, <2>6, <2>7, <1>1 DEF Shape
<1>4. CASE Pop
  <2>1. Kept
    BY <1>1, <1>4, IdleKeeps DEF Pop, recvVars, streamVars
  <2>2. Head(queue) \in Frame /\ Tail(queue) \in Seq(Frame)
    BY <1>1, <1>4 DEF Pop, Shape
  <2> QED
    BY <2>1, <2>2, <1>1, <1>4 DEF Pop, Shape
<1>5. ASSUME NEW s \in Stream, Register(s) PROVE Kept /\ Carried
  BY <1>1, <1>5, IdleKeeps DEF Register, streamVars, historyVars, outVars, Shape
<1>6. CASE Advance
  BY <1>1, <1>6, IdleKeeps DEF Advance, streamVars, historyVars, outVars, Shape
<1>7. CASE Tick
  BY <1>1, <1>7, IdleKeeps DEF Tick, recvVars, streamVars, outVars, Shape
<1>8. ASSUME NEW m \in net \cup Stray, Submit(m) PROVE Kept /\ Carried
  <2>1. m \in Frame
    BY <1>1 DEF Shape
  <2> QED
    BY <2>1, <1>1, <1>8, SubmitKeeps DEF Submit, outVars, Shape
<1>9. ASSUME NEW s \in Stream, Retry(s) PROVE Kept /\ Carried
  BY <1>1, <1>9, RetryKeeps DEF Retry, outVars, Shape
<1>10. CASE UNCHANGED vars
  BY <1>1, <1>10, IdleKeeps DEF vars, streamVars, historyVars, outVars, Shape
<1> QED
  BY <1>3, <1>4, <1>5, <1>6, <1>7, <1>8, <1>9, <1>10 DEF Next

\* The receiver implements the abstract order: submit and retry apply each
\* stream's frames in order, each once, an abortive one possibly early, and
\* nothing after the end, whatever is submitted and however the callback answers.
THEOREM ReceiverOrders == Spec => AppliedInOrder
<1>1. Init => IInv /\ Order!Init
  BY InitOrder
<1>2. IInv /\ [Next]_vars => IInv' /\ [Order!Next]_applied
  BY NextOrder
<1> QED
  BY <1>1, <1>2, PTL DEF Spec, AppliedInOrder, Order!Spec
=============================================================================
