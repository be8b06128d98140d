-------------------------------- MODULE Feed --------------------------------
(***************************************************************************)
(* What the live feed promises, without its buffers, connections and       *)
(* sequence numbers: events are published once, and each consumer is       *)
(* handed published events one at a time, never the same one twice.        *)
(***************************************************************************)
EXTENDS Naturals, Sequences, Functions

CONSTANT Consumers

VARIABLES
  published,   \* how many events exist; they are 1..published
  delivered    \* delivered[c]: the events handed to c, in order

vars == <<published, delivered>>

Init ==
  /\ published = 0
  /\ delivered = [c \in Consumers |-> <<>>]

Publish ==
  /\ published' = published + 1
  /\ UNCHANGED delivered

HandOver(c, e) ==
  /\ e \in (1..published) \ Range(delivered[c])
  /\ delivered' = [delivered EXCEPT ![c] = Append(@, e)]
  /\ UNCHANGED published

Next ==
  \/ Publish
  \/ \E c \in Consumers, e \in 1..published : HandOver(c, e)

Spec == Init /\ [][Next]_vars
=============================================================================
