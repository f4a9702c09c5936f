---------------------------- MODULE SequencedOrder ----------------------------
(***************************************************************************)
(* What ordered delivery of one direction of a session promises, whatever  *)
(* frames arrive, in whatever order and however often: on each stream the  *)
(* frames 1, 2, 3, ... are applied, each once, several at a time when they *)
(* were waiting; an abortive frame may overtake those before it; and after *)
(* a frame that ends the stream nothing more is applied to it.             *)
(***************************************************************************)
EXTENDS Integers, Sequences

CONSTANTS
  Stream,    \* the streams of the session
  Abortive,  \* kinds of frame that may overtake
  Final      \* kinds of frame that end a stream's direction

VARIABLE applied   \* applied[s]: the frames of s, in the order of their effects

Init == applied = [s \in Stream |-> <<>>]

Ended(q) == q # <<>> /\ q[Len(q)].kind \in Final

\* r adds to q the frames that come next, of which only the last may be final.
Continues(q, r) ==
  /\ Len(r) > Len(q)
  /\ \A i \in 1..Len(q) : r[i] = q[i]
  /\ \A i \in (Len(q) + 1)..Len(r) : r[i].seq = i
  /\ \A i \in (Len(q) + 1)..(Len(r) - 1) : r[i].kind \notin Final

\* r adds to q one abortive frame, which skips at least one.
Overtakes(q, r) ==
  /\ Len(r) = Len(q) + 1
  /\ \A i \in 1..Len(q) : r[i] = q[i]
  /\ r[Len(r)].seq > Len(r)
  /\ r[Len(r)].kind \in Abortive

Apply(s) ==
  /\ ~Ended(applied[s])
  /\ Continues(applied[s], applied'[s]) \/ Overtakes(applied[s], applied'[s])
  /\ \A t \in Stream \ {s} : applied'[t] = applied[t]

Next == \E s \in Stream : Apply(s)

Spec == Init /\ [][Next]_applied
=============================================================================
