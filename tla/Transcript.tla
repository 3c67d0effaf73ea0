----------------------------- MODULE Transcript -----------------------------
(***************************************************************************)
(* What the stream of an agent session promises the one who reads it: the  *)
(* messages shown are a stretch of the conversation without a gap, which   *)
(* grows at its end as the agent speaks and at its start as the reader     *)
(* scrolls back, and which is only ever replaced by one that ends with the *)
(* newest message.  After a restart of the host-service nothing is         *)
(* promised until it is replaced.                                          *)
(***************************************************************************)
EXTENDS Integers

VARIABLES
  incarnation,  \* of the session, counted from its first load
  said,         \* messages of this incarnation so far
  shown         \* nothing, messages from+1 to `to` of one incarnation, or a mix

vars == <<incarnation, said, shown>>

Mixed == [inc |-> 0, from |-> 0, to |-> 0, mixed |-> TRUE]
Stretch(inc, from, to) == [inc |-> inc, from |-> from, to |-> to,
                           mixed |-> FALSE]
\* A blank screen belongs to the incarnation the reader last heard of.
Blank(inc) == Stretch(inc, 0, 0)

\* What is shown belongs to a conversation that was loaded again since.
Outdated == shown.mixed \/ shown.inc # incarnation

Init ==
  /\ incarnation = 0
  /\ said = 0
  /\ shown = Blank(0)

Say ==
  /\ said' = said + 1
  /\ UNCHANGED <<incarnation, shown>>

Load ==
  /\ incarnation' = incarnation + 1
  /\ said' \in Nat
  /\ UNCHANGED shown

\* The next message, or the first on a blank screen.
Follow ==
  /\ ~Outdated
  /\ IF shown.to > 0
     THEN shown.to < said /\ shown' = [shown EXCEPT !.to = @ + 1]
     ELSE shown' \in {Stretch(incarnation, k - 1, k) : k \in 1..said}
  /\ UNCHANGED <<incarnation, said>>

LookBack ==
  /\ ~Outdated
  /\ shown' \in {Stretch(incarnation, k, shown.to) : k \in 0..shown.from}
  /\ UNCHANGED <<incarnation, said>>

Replace ==
  /\ shown' \in {Blank(inc) : inc \in 0..incarnation} \cup
                {Stretch(incarnation, k, said) : k \in 0..(said - 1)}
  /\ UNCHANGED <<incarnation, said>>

Drift ==
  /\ Outdated
  /\ UNCHANGED <<incarnation, said>>

Next == Say \/ Load \/ Follow \/ LookBack \/ Replace \/ Drift

Spec == Init /\ [][Next]_vars
=============================================================================
