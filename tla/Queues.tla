-------------------------------- MODULE Queues --------------------------------
(***************************************************************************)
(* What a queue is after a task or a message is added or taken: the facts  *)
(* the proofs about the event loop's tasks and about the messages of a     *)
(* socket rest on.                                                         *)
(***************************************************************************)
EXTENDS Naturals, Sequences, TLAPS

\* Adding to a queue leaves the elements before it where they are.
LEMMA AppendIs ==
  ASSUME NEW S, NEW q \in Seq(S), NEW e \in S
  PROVE  /\ Append(q, e) \in Seq(S)
         /\ Len(q) \in Nat
         /\ Len(Append(q, e)) = Len(q) + 1
         /\ \A i \in 1..Len(q) : Append(q, e)[i] = q[i]
         /\ Append(q, e)[Len(q) + 1] = e
OBVIOUS

\* Taking the first element moves the others one place forward.
LEMMA TailIs ==
  ASSUME NEW S, NEW q \in Seq(S), q # << >>
  PROVE  /\ Tail(q) \in Seq(S)
         /\ Len(q) \in Nat \ {0}
         /\ Len(Tail(q)) = Len(q) - 1
         /\ \A i \in 1..Len(Tail(q)) :
              i + 1 \in 1..Len(q) /\ Tail(q)[i] = q[i + 1]
         /\ Head(q) = q[1] /\ Head(q) \in S
OBVIOUS

\* A queue has a place for every number up to its length.
LEMMA DomainIs ==
  ASSUME NEW S, NEW q \in Seq(S) PROVE DOMAIN q = 1..Len(q)
OBVIOUS
=============================================================================
