-------------------------- MODULE EventStreamProofs --------------------------
(***************************************************************************)
(* Proofs about EventStream, for every number of producers and consumers,  *)
(* every capacity, and every behaviour of the clock across restarts.       *)
(***************************************************************************)
EXTENDS EventStream, SequenceTheorems, TLAPS

-----------------------------------------------------------------------------
(* Sequences that grow at the end and shrink at the front: queues, wires   *)
(* and histories.                                                          *)

\* Appending x adds x, and nothing else, to the elements of s.
LEMMA RangeAppend ==
  ASSUME NEW S, NEW s \in Seq(S), NEW x \in S
  PROVE  /\ Append(s, x) \in Seq(S)
         /\ Range(Append(s, x)) = Range(s) \cup {x}
<1>1. /\ Append(s, x) \in Seq(S)
      /\ Len(Append(s, x)) = Len(s) + 1
      /\ \A i \in 1..Len(s) : Append(s, x)[i] = s[i]
      /\ Append(s, x)[Len(s) + 1] = x
  BY AppendProperties
<1>2. /\ DOMAIN s = 1..Len(s)
      /\ DOMAIN Append(s, x) = 1..(Len(s) + 1)
      /\ Len(s) \in Nat
  BY <1>1, LenProperties
<1>3. ASSUME NEW y \in Range(Append(s, x))
      PROVE  y \in Range(s) \cup {x}
  BY <1>1, <1>2 DEF Range
<1>4. ASSUME NEW y \in Range(s)
      PROVE  y \in Range(Append(s, x))
  BY <1>1, <1>2 DEF Range
<1>5. x \in Range(Append(s, x))
  BY <1>1, <1>2 DEF Range
<1> QED
  BY <1>1, <1>3, <1>4, <1>5

\* A sequence without repetitions stays one when a new element is appended.
LEMMA InjectiveAppend ==
  ASSUME NEW S, NEW s \in Seq(S), NEW x \in S, IsInjective(s), x \notin Range(s)
  PROVE  IsInjective(Append(s, x))
<1>1. /\ Len(Append(s, x)) = Len(s) + 1
      /\ \A i \in 1..Len(s) : Append(s, x)[i] = s[i]
      /\ Append(s, x)[Len(s) + 1] = x
      /\ Append(s, x) \in Seq(S)
  BY AppendProperties
<1>2. /\ DOMAIN s = 1..Len(s)
      /\ DOMAIN Append(s, x) = 1..(Len(s) + 1)
      /\ Len(s) \in Nat
  BY <1>1, LenProperties
<1>3. \A i \in 1..Len(s) : s[i] # x
  BY <1>2 DEF Range
<1> QED
  BY <1>1, <1>2, <1>3 DEF IsInjective

\* The elements of a nonempty sequence are its head and those of its tail.
LEMMA RangeHeadTail ==
  ASSUME NEW S, NEW s \in Seq(S), s # <<>>
  PROVE  /\ Head(s) \in S
         /\ Tail(s) \in Seq(S)
         /\ Range(s) = {Head(s)} \cup Range(Tail(s))
<1>1. /\ Head(s) \in S /\ Head(s) = s[1]
      /\ Tail(s) \in Seq(S)
      /\ Len(Tail(s)) = Len(s) - 1
      /\ \A i \in 1..Len(Tail(s)) : Tail(s)[i] = s[i + 1]
  BY HeadTailProperties, ElementOfSeq, EmptySeq, LenProperties
<1>2. /\ DOMAIN s = 1..Len(s)
      /\ DOMAIN Tail(s) = 1..(Len(s) - 1)
      /\ Len(s) \in Nat \ {0}
  BY <1>1, LenProperties, EmptySeq
<1>3. ASSUME NEW y \in Range(s)
      PROVE  y \in {Head(s)} \cup Range(Tail(s))
  <2>1. PICK i \in 1..Len(s) : y = s[i]
    BY <1>2 DEF Range
  <2>2. CASE i = 1
    BY <2>1, <2>2, <1>1
  <2>3. CASE i # 1
    <3>1. i - 1 \in 1..(Len(s) - 1) /\ (i - 1) + 1 = i
      BY <2>3, <1>2
    <3>2. Tail(s)[i - 1] = y
      BY <3>1, <1>1, <1>2, <2>1
    <3> QED
      BY <3>1, <3>2, <1>2 DEF Range
  <2> QED
    BY <2>2, <2>3
<1>4. ASSUME NEW y \in Range(Tail(s))
      PROVE  y \in Range(s)
  <2>1. PICK i \in 1..(Len(s) - 1) : y = Tail(s)[i]
    BY <1>2 DEF Range
  <2>2. i + 1 \in 1..Len(s) /\ y = s[i + 1]
    BY <2>1, <1>1, <1>2
  <2> QED
    BY <2>2, <1>2 DEF Range
<1>5. Head(s) \in Range(s)
  BY <1>1, <1>2 DEF Range
<1> QED
  BY <1>1, <1>3, <1>4, <1>5

\* In a sequence without repetitions the head does not occur in the tail,
\* and the tail has no repetitions either.
LEMMA InjectiveTail ==
  ASSUME NEW S, NEW s \in Seq(S), s # <<>>, IsInjective(s)
  PROVE  IsInjective(Tail(s)) /\ Head(s) \notin Range(Tail(s))
<1>1. /\ Head(s) = s[1]
      /\ Tail(s) \in Seq(S)
      /\ Len(Tail(s)) = Len(s) - 1
      /\ \A i \in 1..Len(Tail(s)) : Tail(s)[i] = s[i + 1]
  BY HeadTailProperties, ElementOfSeq, EmptySeq, LenProperties
<1>2. /\ DOMAIN s = 1..Len(s)
      /\ DOMAIN Tail(s) = 1..(Len(s) - 1)
      /\ Len(s) \in Nat \ {0}
  BY <1>1, LenProperties, EmptySeq
<1>3. ASSUME NEW i \in DOMAIN Tail(s), NEW j \in DOMAIN Tail(s), Tail(s)[i] = Tail(s)[j]
      PROVE  i = j
  <2>1. i + 1 \in DOMAIN s /\ j + 1 \in DOMAIN s /\ s[i + 1] = s[j + 1]
    BY <1>1, <1>2, <1>3
  <2>2. i + 1 = j + 1
    BY <2>1 DEF IsInjective
  <2> QED
    BY <2>2, <1>2
<1>4. ASSUME NEW i \in DOMAIN Tail(s)
      PROVE  Tail(s)[i] # Head(s)
  <2>1. i + 1 \in DOMAIN s /\ 1 \in DOMAIN s /\ i + 1 # 1 /\ Tail(s)[i] = s[i + 1]
    BY <1>1, <1>2
  <2> QED
    BY <2>1, <1>1 DEF IsInjective
<1> QED
  BY <1>3, <1>4 DEF IsInjective, Range

\* The empty sequence has no elements.
LEMMA RangeEmpty ==
  Range(<<>>) = {} /\ IsInjective(<<>>)
BY EmptySeq DEF Range, IsInjective

\* The elements of a sequence are those at its positions.
LEMMA RangePositions ==
  ASSUME NEW S, NEW s \in Seq(S)
  PROVE  /\ \A i \in 1..Len(s) : s[i] \in Range(s)
         /\ \A y \in Range(s) : \E i \in 1..Len(s) : s[i] = y
<1>1. DOMAIN s = 1..Len(s)
  BY LenProperties
<1> QED
  BY <1>1 DEF Range

-----------------------------------------------------------------------------
(* Type correctness.                                                       *)

\* The larger of two numbers is one of them, and at least both.
LEMMA LargerFacts ==
  \A a, b \in Int : Larger(a, b) \in {a, b} /\ Larger(a, b) >= a /\ Larger(a, b) >= b
BY DEF Larger

\* A position of the ring's history holds an event, stamped with a number.
LEMMA PushedFacts ==
  ASSUME TypeOK, HubInv, NEW i \in 1..Len(pushed)
  PROVE  /\ pushed[i] \in Range(pushed)
         /\ pushed[i] \in Events
         /\ stamp[pushed[i]] \in Nat
<1>1. DOMAIN pushed = 1..Len(pushed)
  BY LenProperties DEF TypeOK
<1>2. pushed[i] \in Range(pushed)
  BY <1>1 DEF Range
<1>3. pushed[i] \in Events
  BY <1>2 DEF HubInv
<1> QED
  BY <1>2, <1>3, ElementOfSeq DEF TypeOK, Events

\* What a step that leaves the hub and consumer d alone does to d: nothing.
LEMMA OtherConsumer ==
  ASSUME IInv, NEW d \in Consumers, UNCHANGED hubVars,
         task'[d] = task[d], since'[d] = since[d], fill'[d] = fill[d],
         lastSent'[d] = lastSent[d], wire'[d] = wire[d],
         lastSeq'[d] = lastSeq[d], got'[d] = got[d]
  PROVE  ConsumerInv(d)'
<1>1. ConsumerInv(d)
  BY DEF IInv
<1> QED
  BY <1>1 DEF hubVars, ConsumerInv, Seen, InFill, FillLeft, Events

\* The hub's part of the invariant speaks of the hub's variables only.
LEMMA SameHub ==
  ASSUME IInv, UNCHANGED hubVars
  PROVE  HubInv'
BY DEF IInv, HubInv, hubVars, Events

-----------------------------------------------------------------------------
(* The initial state.                                                      *)

LEMMA InitInv == Init => IInv
<1> SUFFICES ASSUME Init PROVE IInv
  OBVIOUS
<1>1. <<>> \in Seq(Nat) /\ Len(<<>>) = 0 /\ Range(<<>>) = {} /\ IsInjective(<<>>)
  BY EmptySeq, RangeEmpty
<1>2. TypeOK
  BY <1>1, StreamAssumption
  DEF StreamAssumption, Init, TypeOK, Idle, NoFill, Step, Batch
<1>3. HubInv
  BY <1>1, StreamAssumption DEF StreamAssumption, Init, HubInv, Idle
<1>4. \A c \in Consumers : ConsumerInv(c)
  BY <1>1, StreamAssumption
  DEF StreamAssumption, Init, ConsumerInv, Seen, InFill, FillLeft, NoFill, Idle
<1> QED
  BY <1>2, <1>3, <1>4 DEF IInv

-----------------------------------------------------------------------------
(* Hub::ingest.                                                            *)

LEMMA StampInv ==
  ASSUME IInv, NEW p \in Producers, Stamp(p)
  PROVE  IInv'
<1> DEFINE new == Len(stamp) + 1
<1>1. TypeOK /\ HubInv /\ \A c \in Consumers : ConsumerInv(c)
  BY DEF IInv
<1>2. /\ stamp \in Seq(Nat) /\ Len(stamp) \in Nat /\ seq \in Nat
      /\ stamp' = Append(stamp, seq + 1) /\ seq' = seq + 1
  BY <1>1, LenProperties DEF TypeOK, Stamp
<1>n. seq \in Nat /\ seq' = seq + 1
  BY <1>2
<1>3. /\ pushed' = pushed /\ evicted' = evicted /\ sent' = sent /\ restarts' = restarts
      /\ task' = task /\ since' = since /\ fill' = fill /\ pos' = pos
      /\ lastSent' = lastSent /\ wire' = wire /\ lastSeq' = lastSeq /\ got' = got
      /\ bridgeLast' = bridgeLast /\ shown' = shown /\ slipped' = slipped
  BY DEF Stamp, taskVars, subVars
<1>4. /\ ingesting'[p] = [at |-> "stamped", event |-> new]
      /\ \A q \in Producers \ {p} : ingesting'[q] = ingesting[q]
      /\ ingesting' \in [Producers -> Step]
  BY <1>1, <1>2 DEF Stamp, TypeOK, Step
<1>5. /\ stamp' \in Seq(Nat)
      /\ \A e \in Events : stamp'[e] = stamp[e] /\ stamp[e] \in Nat
      /\ stamp'[new] = seq + 1
      /\ Events' = Events \cup {new}
      /\ new \notin Events
  BY <1>2, AppendProperties, ElementOfSeq DEF Events
<1>6. TypeOK'
  <2>1. seq' \in Nat
    BY <1>2
  <2> QED
    BY <1>1, <1>3, <1>4, <1>5, <2>1 DEF TypeOK
<1>7. HubInv'
  <2>1. ASSUME NEW e \in Events, 1 <= stamp[e], stamp[e] <= seq
        PROVE  1 <= stamp'[e] /\ stamp'[e] <= seq'
    BY <1>n, <1>5, <2>1
  <2>2. \A e \in Range(pushed) : 1 <= stamp'[e] /\ stamp'[e] <= seq'
    BY <1>1, <2>1 DEF HubInv
  <2>3. ASSUME NEW q \in Producers, ingesting'[q].at = "stamped"
        PROVE  /\ ingesting'[q].event \in Events' \ Range(pushed)
               /\ 1 <= stamp'[ingesting'[q].event] /\ stamp'[ingesting'[q].event] <= seq'
               /\ \A r \in Producers \ {q} : ingesting'[r].at = "stamped" =>
                    ingesting'[r].event # ingesting'[q].event
    <3>1. \A r \in Producers \ {p} : ingesting'[r].at = "stamped" => ingesting'[r].event \in Events
      BY <1>1, <1>4 DEF HubInv
    <3>2. CASE q = p
      <4>1. new \in Events' \ Range(pushed)
        BY <1>1, <1>5 DEF HubInv
      <4>2. 1 <= stamp'[new] /\ stamp'[new] <= seq'
        BY <1>2, <1>5
      <4> QED
        BY <1>4, <1>5, <3>1, <3>2, <4>1, <4>2
    <3>3. CASE q # p
      <4>1. ingesting'[q] = ingesting[q] /\ ingesting[q].at = "stamped"
        BY <1>4, <2>3, <3>3
      <4>2. /\ ingesting[q].event \in Events \ Range(pushed)
            /\ 1 <= stamp[ingesting[q].event] /\ stamp[ingesting[q].event] <= seq
            /\ \A r \in Producers \ {q} : ingesting[r].at = "stamped" =>
                 ingesting[r].event # ingesting[q].event
        BY <1>1, <4>1 DEF HubInv
      <4>3. \A r \in Producers \ {q} : ingesting'[r].at = "stamped" =>
              ingesting'[r].event # ingesting'[q].event
        BY <1>4, <1>5, <4>1, <4>2
      <4> QED
        BY <1>5, <2>1, <4>1, <4>2, <4>3
    <3> QED
      BY <3>2, <3>3
  <2>4. \A q \in Producers : ingesting'[q].at = "buffered" => ingesting'[q].event \in Range(pushed)
    BY <1>1, <1>4 DEF HubInv
  <2>5. seq' >= 1 /\ Range(pushed) \subseteq Events'
    BY <1>1, <1>2, <1>5 DEF HubInv
  <2>6. IsInjective(pushed) /\ Range(sent) \subseteq Range(pushed)
    BY <1>1 DEF HubInv
  <2> QED
    BY <1>3, <2>2, <2>3, <2>4, <2>5, <2>6 DEF HubInv
<1>8. ASSUME NEW c \in Consumers PROVE ConsumerInv(c)'
  <2>1. ConsumerInv(c) /\ lastSeq[c] \in Nat
    BY <1>1 DEF TypeOK
  <2>2. \A i \in 1..Len(pushed) : stamp'[pushed[i]] = stamp[pushed[i]]
    BY <1>1, <1>5, PushedFacts
  <2>3. fill[c].from..fill[c].to \subseteq 1..Len(pushed)
    <3>1. /\ fill[c].from \in Nat /\ fill[c].to \in Nat /\ Len(pushed) \in Nat
          /\ fill[c].from >= 1 /\ fill[c].to <= Len(pushed)
      BY <1>1, <2>1, LenProperties DEF ConsumerInv, TypeOK, Batch
    <3> QED
      BY <3>1
  <2>4. FillLeft(c)' = FillLeft(c)
    BY <1>3, <2>2, <2>3 DEF FillLeft
  <2>5. InFill(c)' = InFill(c)
    BY <1>3, <2>4 DEF InFill
  <2>6. \A e \in Range(pushed) : stamp'[e] = stamp[e]
    BY <1>1, <1>5 DEF HubInv
  <2>7. \A q \in Producers : ingesting'[q].at = "stamped" => ingesting'[q].event \notin Range(got[c])
    BY <1>4, <1>5, <2>1 DEF ConsumerInv
  <2>8. Seen(c)' = Seen(c) /\ Seen(c) \subseteq Range(pushed) /\ Range(wire[c]) \subseteq Range(pushed)
    BY <1>3, <2>1 DEF Seen, ConsumerInv
  <2>9. \A e \in Seen(c) : stamp'[e] <= lastSeq[c] /\ lastSeq[c] <= seq'
    BY <1>n, <2>1, <2>6, <2>8 DEF ConsumerInv
  <2>10. task[c] # "none" => lastSeq[c] <= seq'
    BY <1>2, <2>1 DEF ConsumerInv
  <2>11. /\ task[c] \in {"admitted", "snapshot"} => \A e \in Seen(c) : stamp'[e] <= since[c]
         /\ task[c] \in {"live", "lagged"} =>
              \A e \in Seen(c) \cup Range(wire[c]) : stamp'[e] <= lastSent[c]
    BY <2>1, <2>6, <2>8 DEF ConsumerInv
  <2>12. Range(got[c]) \subseteq Events'
    BY <1>5, <2>1 DEF ConsumerInv
  <2> QED
    BY <1>3, <2>1, <2>5, <2>7, <2>8, <2>9, <2>10, <2>11, <2>12 DEF ConsumerInv
<1> QED
  BY <1>6, <1>7, <1>8 DEF IInv

LEMMA BufferInv ==
  ASSUME IInv, NEW p \in Producers, Buffer(p)
  PROVE  IInv'
<1> DEFINE e == ingesting[p].event
<1>1. TypeOK /\ HubInv /\ \A c \in Consumers : ConsumerInv(c)
  BY DEF IInv
<1>2. /\ ingesting[p].at = "stamped"
      /\ seq' = seq /\ stamp' = stamp /\ sent' = sent /\ restarts' = restarts
      /\ task' = task /\ since' = since /\ fill' = fill /\ pos' = pos
      /\ lastSent' = lastSent /\ wire' = wire /\ lastSeq' = lastSeq /\ got' = got
      /\ bridgeLast' = bridgeLast /\ shown' = shown /\ slipped' = slipped
  BY DEF Buffer, taskVars, subVars
<1>3. /\ e \in Nat /\ e \in Events \ Range(pushed) /\ 1 <= stamp[e] /\ stamp[e] <= seq
      /\ \A q \in Producers \ {p} : ingesting[q].at = "stamped" => ingesting[q].event # e
  BY <1>1, <1>2 DEF HubInv, TypeOK, Step
<1>4. /\ ingesting'[p] = [at |-> "buffered", event |-> e]
      /\ \A q \in Producers \ {p} : ingesting'[q] = ingesting[q]
      /\ ingesting' \in [Producers -> Step]
  BY <1>1 DEF Buffer, TypeOK, Step
<1>5. /\ pushed \in Seq(Nat) /\ Len(pushed) \in Nat
      /\ pushed' \in Seq(Nat) /\ Len(pushed') = Len(pushed) + 1
      /\ \A i \in 1..Len(pushed) : pushed'[i] = pushed[i]
      /\ Range(pushed') = Range(pushed) \cup {e}
      /\ IsInjective(pushed')
  <2>1. pushed' = Append(pushed, e) /\ pushed \in Seq(Nat)
    BY <1>1 DEF Buffer, TypeOK
  <2>2. IsInjective(pushed)
    BY <1>1 DEF HubInv
  <2> QED
    BY <1>3, <2>1, <2>2, AppendProperties, RangeAppend, InjectiveAppend, LenProperties
<1>n. Len(pushed) \in Nat
  BY <1>5
<1>6. evicted' \in 0..Len(pushed') /\ Len(pushed') - evicted' <= BufferCap
  <2>1. /\ evicted' = Larger(evicted, Len(pushed) + 1 - BufferCap)
        /\ evicted \in Nat /\ evicted <= Len(pushed)
        /\ BufferCap \in Nat /\ BufferCap >= 1
    <3>1. evicted' = Larger(evicted, Len(pushed) + 1 - BufferCap)
      BY DEF Buffer, EvictedAfterPush
    <3>2. evicted \in Nat /\ evicted <= Len(pushed)
      BY <1>1, <1>5 DEF TypeOK
    <3>3. BufferCap \in Nat /\ BufferCap >= 1
      BY StreamAssumption DEF StreamAssumption
    <3> QED
      BY <3>1, <3>2, <3>3
  <2>2. Len(pushed) - evicted <= BufferCap
    BY <1>1 DEF TypeOK
  <2>3. Len(pushed) \in Nat /\ Len(pushed') = Len(pushed) + 1
    BY <1>5
  <2> QED
    BY <2>1, <2>2, <2>3 DEF Larger
<1>7. TypeOK'
  BY <1>1, <1>2, <1>4, <1>5, <1>6 DEF TypeOK
<1>8. HubInv'
  <2>1. \A x \in Range(pushed') : x \in Events /\ 1 <= stamp[x] /\ stamp[x] <= seq
    BY <1>1, <1>3, <1>5 DEF HubInv
  <2>2. ASSUME NEW q \in Producers, ingesting'[q].at = "stamped"
        PROVE  /\ ingesting'[q].event \in Events \ Range(pushed')
               /\ 1 <= stamp[ingesting'[q].event] /\ stamp[ingesting'[q].event] <= seq
               /\ \A r \in Producers \ {q} : ingesting'[r].at = "stamped" =>
                    ingesting'[r].event # ingesting'[q].event
    <3>1. q # p /\ ingesting'[q] = ingesting[q] /\ ingesting[q].at = "stamped"
      BY <1>4, <2>2
    <3>2. \A r \in Producers : ingesting'[r].at = "stamped" => ingesting'[r] = ingesting[r]
      BY <1>4
    <3>3. /\ ingesting[q].event \in Events \ Range(pushed)
          /\ 1 <= stamp[ingesting[q].event] /\ stamp[ingesting[q].event] <= seq
          /\ \A r \in Producers \ {q} : ingesting[r].at = "stamped" =>
               ingesting[r].event # ingesting[q].event
      BY <1>1, <3>1 DEF HubInv
    <3>4. \A r \in Producers \ {q} : ingesting'[r].at = "stamped" =>
            ingesting'[r].event # ingesting'[q].event
      BY <3>1, <3>2, <3>3
    <3>5. ingesting'[q].event \in Events \ Range(pushed')
      <4>1. ingesting[q].event # e
        BY <1>3, <3>1
      <4>2. Range(pushed') = Range(pushed) \cup {e}
        BY <1>5
      <4> HIDE DEF e
      <4> QED
        BY <4>1, <4>2, <3>1, <3>3, Zenon
    <3> QED
      BY <3>1, <3>3, <3>4, <3>5
  <2>3. \A q \in Producers : ingesting'[q].at = "buffered" => ingesting'[q].event \in Range(pushed')
    BY <1>1, <1>4, <1>5 DEF HubInv
  <2>4. seq >= 1 /\ Range(sent) \subseteq Range(pushed')
    BY <1>1, <1>5 DEF HubInv
  <2>5. Events' = Events
    BY <1>2 DEF Events
  <2> QED
    BY <1>2, <1>5, <2>1, <2>2, <2>3, <2>4, <2>5 DEF HubInv
<1>9. ASSUME NEW c \in Consumers PROVE ConsumerInv(c)'
  <2>1. ConsumerInv(c)
    BY <1>1
  <2>2. /\ fill[c].from \in Nat /\ fill[c].to \in Nat
        /\ fill[c].from >= 1 /\ fill[c].to <= Len(pushed)
    BY <1>1, <2>1 DEF ConsumerInv, TypeOK, Batch
  <2>3. \A i \in fill[c].from..fill[c].to : pushed'[i] = pushed[i]
    <3>1. ASSUME NEW i \in fill[c].from..fill[c].to PROVE i \in 1..Len(pushed)
      BY <1>n, <2>2
    <3> QED
      BY <1>5, <3>1
  <2>4. FillLeft(c)' = FillLeft(c)
    BY <1>2, <2>3 DEF FillLeft
  <2>5. InFill(c)' = InFill(c)
    BY <1>2, <2>3, <2>4 DEF InFill, FillLeft
  <2>6. e \notin Range(got[c])
    BY <1>2, <2>1 DEF ConsumerInv
  <2>7. Seen(c)' = Seen(c)
    BY <1>2, <1>5, <2>6 DEF Seen
  <2>8. \A q \in Producers : ingesting'[q].at = "stamped" => ingesting'[q].event \notin Range(got[c])
    BY <1>4, <2>1 DEF ConsumerInv
  <2>9. Range(wire[c]) \subseteq Range(pushed') \ Range(got[c])
    BY <1>5, <2>1 DEF ConsumerInv
  <2>10. fill[c].to <= Len(pushed')
    BY <1>5, <2>2
  <2>11. Events' = Events
    BY <1>2 DEF Events
  <2> QED
    BY <1>2, <2>1, <2>5, <2>7, <2>8, <2>9, <2>10, <2>11 DEF ConsumerInv
<1> QED
  BY <1>7, <1>8, <1>9 DEF IInv

LEMMA SendInv ==
  ASSUME IInv, NEW p \in Producers, Send(p)
  PROVE  IInv'
<1> DEFINE e == ingesting[p].event
<1>1. TypeOK /\ HubInv /\ \A c \in Consumers : ConsumerInv(c)
  BY DEF IInv
<1>2. /\ ingesting[p].at = "buffered"
      /\ seq' = seq /\ stamp' = stamp /\ pushed' = pushed /\ evicted' = evicted
      /\ restarts' = restarts
      /\ task' = task /\ since' = since /\ fill' = fill /\ pos' = pos
      /\ lastSent' = lastSent /\ wire' = wire /\ lastSeq' = lastSeq /\ got' = got
      /\ bridgeLast' = bridgeLast /\ shown' = shown
  BY DEF Send, taskVars, subVars
<1>3. e \in Nat /\ e \in Range(pushed)
  BY <1>1, <1>2 DEF HubInv, TypeOK, Step
<1>4. /\ ingesting'[p] = Idle
      /\ \A q \in Producers \ {p} : ingesting'[q] = ingesting[q]
      /\ ingesting' \in [Producers -> Step]
  BY <1>1 DEF Send, TypeOK, Step, Idle
<1>5. sent' \in Seq(Nat) /\ Range(sent') = Range(sent) \cup {e}
  <2>1. sent' = Append(sent, e) /\ sent \in Seq(Nat)
    BY <1>1 DEF Send, TypeOK
  <2> QED
    BY <1>3, <2>1, RangeAppend
<1>6. slipped' \in [Consumers -> SUBSET Nat]
  BY <1>1, <1>3 DEF Send, TypeOK
<1>7. TypeOK'
  BY <1>1, <1>2, <1>4, <1>5, <1>6 DEF TypeOK
<1>8. Events' = Events
  BY <1>2 DEF Events
<1>9. \A q \in Producers : ingesting'[q].at # "idle" => ingesting'[q] = ingesting[q]
  BY <1>4 DEF Idle
<1>10. HubInv'
  BY <1>1, <1>2, <1>3, <1>5, <1>8, <1>9 DEF HubInv
<1>11. ASSUME NEW c \in Consumers PROVE ConsumerInv(c)'
  <2>1. ConsumerInv(c)
    BY <1>1
  <2>2. \A q \in Producers : ingesting'[q].at = "stamped" => ingesting'[q].event \notin Range(got[c])
    BY <1>9, <2>1 DEF ConsumerInv
  <2>3. InFill(c)' = InFill(c) /\ Seen(c)' = Seen(c)
    BY <1>2 DEF InFill, FillLeft, Seen
  <2> QED
    BY <1>2, <1>8, <2>1, <2>2, <2>3 DEF ConsumerInv
<1> QED
  BY <1>7, <1>10, <1>11 DEF IInv

-----------------------------------------------------------------------------
(* handle_client, Hub::run_consumer and the subscriber.                    *)

LEMMA ConnectInv ==
  ASSUME IInv, NEW c \in Consumers, Connect(c)
  PROVE  IInv'
<1>1. TypeOK /\ HubInv /\ \A d \in Consumers : ConsumerInv(d)
  BY DEF IInv
<1>2. /\ UNCHANGED hubVars
      /\ task[c] = "none"
      /\ fill' = fill /\ pos' = pos /\ lastSent' = lastSent /\ wire' = wire
      /\ got' = got /\ bridgeLast' = bridgeLast /\ shown' = shown /\ slipped' = slipped
  BY DEF Connect
<1>3. /\ task'[c] = "admitted" /\ since'[c] = lastSeq[c]
      /\ lastSeq'[c] = IF seq < lastSeq[c] THEN 0 ELSE lastSeq[c]
      /\ \A d \in Consumers \ {c} :
           task'[d] = task[d] /\ since'[d] = since[d] /\ lastSeq'[d] = lastSeq[d]
      /\ task' \in [Consumers -> {"none", "admitted", "snapshot", "live", "lagged"}]
      /\ since' \in [Consumers -> Nat] /\ lastSeq' \in [Consumers -> Nat]
  BY <1>1 DEF Connect, TypeOK
<1>4. TypeOK'
  BY <1>1, <1>2, <1>3 DEF TypeOK, hubVars
<1>5. HubInv'
  BY <1>2, SameHub
<1>6. ASSUME NEW d \in Consumers, d # c PROVE ConsumerInv(d)'
  BY <1>2, <1>3, <1>6, OtherConsumer
<1>7. ConsumerInv(c)'
  <2>1. ConsumerInv(c) /\ lastSeq[c] \in Nat /\ seq \in Nat
    BY <1>1 DEF TypeOK
  <2>2. Seen(c)' = Seen(c) /\ InFill(c)' = InFill(c) /\ Events' = Events
    BY <1>2 DEF Seen, InFill, FillLeft, Events, hubVars
  <2>3. \A e \in Seen(c) : stamp[e] <= lastSeq[c] /\ lastSeq[c] <= seq
    BY <2>1 DEF ConsumerInv
  <2>4. \A e \in Seen(c) : stamp[e] <= lastSeq'[c] /\ lastSeq'[c] <= seq
    <3>1. CASE seq < lastSeq[c]
      BY <2>1, <2>3, <3>1
    <3>2. CASE ~(seq < lastSeq[c])
      BY <1>3, <2>3, <3>2
    <3> QED
      BY <3>1, <3>2
  <2>5. lastSeq'[c] <= seq
    BY <1>3, <2>1
  <2> QED
    BY <1>2, <1>3, <2>1, <2>2, <2>3, <2>4, <2>5 DEF ConsumerInv, hubVars
<1> QED
  BY <1>4, <1>5, <1>6, <1>7 DEF IInv

\* Both kinds of replay yield a vector within the ring's history.
LEMMA ReplayFacts ==
  ASSUME TypeOK, NEW s \in Nat
  PROVE  /\ ReplaySince(s) \in Batch /\ ReplaySince(s).from >= 1
         /\ ReplaySince(s).to = Len(pushed) /\ ReplaySince(s).after = s
         /\ ReplayLast(Replay) \in Batch /\ ReplayLast(Replay).from >= 1
         /\ ReplayLast(Replay).to = Len(pushed) /\ ReplayLast(Replay).after = 0
<1>1. Len(pushed) \in Nat /\ evicted \in Nat /\ Replay \in Nat
  BY LenProperties, StreamAssumption DEF TypeOK, StreamAssumption
<1>2. Larger(evicted, Len(pushed) - Replay) \in Nat
  BY <1>1 DEF Larger
<1> QED
  BY <1>1, <1>2 DEF ReplaySince, ReplayLast, Batch

\* The events of a replay vector that starts after s are in the ring's
\* history and stamped after s.
LEMMA InFillFacts ==
  ASSUME TypeOK, HubInv, NEW c \in Consumers, NEW f \in Batch,
         f.from >= 1, f.to <= Len(pushed),
         NEW i \in f.from..f.to
  PROVE  i \in 1..Len(pushed) /\ pushed[i] \in Range(pushed)
<1>1. Len(pushed) \in Nat /\ f.from \in Nat /\ f.to \in Nat
  BY LenProperties DEF TypeOK, Batch
<1>2. i \in 1..Len(pushed)
  BY <1>1
<1> QED
  BY <1>2, PushedFacts

LEMMA SnapshotInv ==
  ASSUME IInv, NEW c \in Consumers, Snapshot(c)
  PROVE  IInv'
<1>1. TypeOK /\ HubInv /\ \A d \in Consumers : ConsumerInv(d)
  BY DEF IInv
<1>2. /\ UNCHANGED hubVars
      /\ task[c] = "admitted"
      /\ since' = since /\ pos' = pos /\ lastSent' = lastSent /\ wire' = wire
      /\ lastSeq' = lastSeq /\ got' = got /\ bridgeLast' = bridgeLast /\ shown' = shown
      /\ slipped' = slipped
  BY DEF Snapshot, subVars
<1> DEFINE f == IF since[c] > 0 THEN ReplaySince(since[c]) ELSE ReplayLast(Replay)
<1>3. since[c] \in Nat
  BY <1>1 DEF TypeOK
<1>4. f \in Batch /\ f.from >= 1 /\ f.to = Len(pushed) /\ f.after = since[c]
  BY <1>1, <1>3, ReplayFacts
<1>5. /\ task'[c] = "snapshot" /\ fill'[c] = f
      /\ \A d \in Consumers \ {c} : task'[d] = task[d] /\ fill'[d] = fill[d]
      /\ task' \in [Consumers -> {"none", "admitted", "snapshot", "live", "lagged"}]
      /\ fill' \in [Consumers -> Batch]
  <2> HIDE DEF f
  <2>1. fill' = [fill EXCEPT ![c] = f] /\ task' = [task EXCEPT ![c] = "snapshot"]
    BY DEF Snapshot, f
  <2> QED
    BY <1>1, <1>4, <2>1 DEF TypeOK
<1> HIDE DEF f
<1>6. TypeOK'
  BY <1>1, <1>2, <1>5 DEF TypeOK, hubVars
<1>7. HubInv'
  BY <1>2, SameHub
<1>8. ASSUME NEW d \in Consumers, d # c PROVE ConsumerInv(d)'
  BY <1>2, <1>5, <1>8, OtherConsumer
<1>9. ConsumerInv(c)'
  <2>1. ConsumerInv(c)
    BY <1>1
  <2>2. Seen(c)' = Seen(c) /\ Events' = Events
    BY <1>2 DEF Seen, Events, hubVars
  <2>3. ASSUME NEW e \in InFill(c)' PROVE e \in Range(pushed) /\ e \notin Range(got[c])
    <3>1. PICK i \in f.from..f.to : e = pushed[i] /\ stamp[pushed[i]] > f.after
      BY <1>2, <1>5, <2>3 DEF InFill, FillLeft, hubVars
    <3>2. i \in 1..Len(pushed) /\ e \in Range(pushed)
      <4>1. Len(pushed) \in Nat /\ f.to <= Len(pushed)
        BY <1>1, <1>4, LenProperties DEF TypeOK
      <4> QED
        BY <1>1, <1>4, <3>1, <4>1, InFillFacts
    <3>3. stamp[e] \in Nat /\ stamp[e] > since[c]
      BY <1>1, <1>4, <3>1, <3>2, PushedFacts
    <3>4. e \notin Seen(c)
      BY <1>2, <1>3, <2>1, <3>3 DEF ConsumerInv
    <3> QED
      BY <3>2, <3>4 DEF Seen
  <2>4. Len(pushed) \in Nat /\ f.to <= Len(pushed)
    BY <1>1, <1>4, LenProperties DEF TypeOK
  <2>5. wire[c] = <<>> /\ Range(wire[c]) = {}
    BY <1>2, <2>1, RangeEmpty DEF ConsumerInv
  <2> QED
    BY <1>2, <1>4, <1>5, <2>1, <2>2, <2>3, <2>4, <2>5 DEF ConsumerInv, hubVars
<1> QED
  BY <1>6, <1>7, <1>8, <1>9 DEF IInv

LEMMA SubscribeInv ==
  ASSUME IInv, NEW c \in Consumers, Subscribe(c)
  PROVE  IInv'
<1>1. TypeOK /\ HubInv /\ \A d \in Consumers : ConsumerInv(d)
  BY DEF IInv
<1>2. /\ UNCHANGED hubVars
      /\ task[c] = "snapshot"
      /\ since' = since /\ fill' = fill /\ wire' = wire
      /\ lastSeq' = lastSeq /\ got' = got /\ bridgeLast' = bridgeLast /\ shown' = shown
      /\ slipped' = slipped
  BY DEF Subscribe, subVars
<1>3. since[c] \in Nat /\ Len(sent) \in Nat
  BY <1>1, LenProperties DEF TypeOK
<1>4. /\ task'[c] = "live" /\ lastSent'[c] = since[c]
      /\ \A d \in Consumers \ {c} : task'[d] = task[d] /\ lastSent'[d] = lastSent[d]
      /\ task' \in [Consumers -> {"none", "admitted", "snapshot", "live", "lagged"}]
      /\ lastSent' \in [Consumers -> Nat]
      /\ pos' \in [Consumers -> Nat]
  BY <1>1, <1>3 DEF Subscribe, FirstLastSent, TypeOK
<1>5. TypeOK'
  BY <1>1, <1>2, <1>4 DEF TypeOK, hubVars
<1>6. HubInv'
  BY <1>2, SameHub
<1>7. ASSUME NEW d \in Consumers, d # c PROVE ConsumerInv(d)'
  BY <1>2, <1>4, <1>7, OtherConsumer
<1>8. ConsumerInv(c)'
  <2>1. ConsumerInv(c)
    BY <1>1
  <2>2. Seen(c)' = Seen(c) /\ Events' = Events /\ InFill(c)' = InFill(c)
    BY <1>2 DEF Seen, Events, InFill, FillLeft, hubVars
  <2>3. wire[c] = <<>> /\ Range(wire[c]) = {}
    BY <1>2, <2>1, RangeEmpty DEF ConsumerInv
  <2> QED
    BY <1>2, <1>4, <2>1, <2>2, <2>3 DEF ConsumerInv, hubVars
<1> QED
  BY <1>5, <1>6, <1>7, <1>8 DEF IInv

LEMMA WriteFillInv ==
  ASSUME IInv, NEW c \in Consumers, WriteFill(c)
  PROVE  IInv'
<1>1. TypeOK /\ HubInv /\ ConsumerInv(c)
  BY DEF IInv
<1>2. /\ UNCHANGED hubVars
      /\ task[c] = "live"
      /\ task' = task /\ since' = since /\ pos' = pos
      /\ lastSeq' = lastSeq /\ got' = got /\ bridgeLast' = bridgeLast /\ shown' = shown
      /\ slipped' = slipped
  BY DEF WriteFill, subVars
<1>3. PICK i \in FillLeft(c) :
        /\ fill' = [fill EXCEPT ![c].from = i + 1]
        /\ wire' = [wire EXCEPT ![c] = Append(@, pushed[i])]
        /\ lastSent' = [lastSent EXCEPT ![c] = Larger(@, stamp[pushed[i]])]
  BY DEF WriteFill
<1> DEFINE e == pushed[i]
<1>4. /\ fill[c] \in Batch /\ fill[c].from >= 1 /\ fill[c].to <= Len(pushed)
      /\ fill[c].from \in Nat /\ fill[c].to \in Nat /\ Len(pushed) \in Nat
      /\ wire[c] \in Seq(Nat) /\ lastSent[c] \in Nat
  BY <1>1, LenProperties DEF TypeOK, Batch, ConsumerInv
<1>5. i \in Nat /\ i >= fill[c].from /\ i \in fill[c].from..fill[c].to
  BY <1>4 DEF FillLeft
<1>6. i \in 1..Len(pushed) /\ e \in Range(pushed)
  BY <1>1, <1>4, <1>5, InFillFacts
<1>7. stamp[e] \in Nat /\ e \in Nat
  BY <1>1, <1>6, PushedFacts DEF Events
<1>8. e \notin Range(got[c]) /\ e \notin Range(wire[c])
  <2>1. e \in InFill(c)
    BY <1>3 DEF InFill
  <2> QED
    BY <1>1, <1>2, <2>1 DEF ConsumerInv
<1>9. /\ fill'[c] = [fill[c] EXCEPT !.from = i + 1]
      /\ wire'[c] = Append(wire[c], e)
      /\ lastSent'[c] = Larger(lastSent[c], stamp[e])
      /\ \A d \in Consumers \ {c} :
           fill'[d] = fill[d] /\ wire'[d] = wire[d] /\ lastSent'[d] = lastSent[d]
  BY <1>1, <1>3 DEF TypeOK
<1>10. /\ lastSent'[c] \in Nat /\ lastSent'[c] >= lastSent[c] /\ lastSent'[c] >= stamp[e]
  BY <1>4, <1>7, <1>9 DEF Larger
<1>11. /\ wire'[c] \in Seq(Nat) /\ Range(wire'[c]) = Range(wire[c]) \cup {e}
       /\ IsInjective(wire'[c])
  <2>1. IsInjective(wire[c])
    BY <1>1 DEF ConsumerInv
  <2> QED
    BY <1>4, <1>7, <1>8, <1>9, <2>1, RangeAppend, InjectiveAppend
<1>12. /\ fill'[c] \in Batch /\ fill'[c].from = i + 1 /\ fill'[c].to = fill[c].to
       /\ fill'[c].after = fill[c].after
  <2>1. fill[c] \in [from : Nat, to : Nat, after : Nat] /\ i + 1 \in Nat
    BY <1>4, <1>5 DEF Batch
  <2>2. fill'[c] = [fill[c] EXCEPT !.from = i + 1]
    BY <1>9
  <2> QED
    BY <2>1, <2>2 DEF Batch
<1>13. TypeOK'
  <2>1. /\ fill' \in [Consumers -> Batch] /\ wire' \in [Consumers -> Seq(Nat)]
        /\ lastSent' \in [Consumers -> Nat]
    <3> HIDE DEF e
    <3> QED
      BY <1>1, <1>3, <1>10, <1>11, <1>12, <1>9 DEF TypeOK
  <2> QED
    BY <1>1, <1>2, <2>1 DEF TypeOK, hubVars
<1>14. HubInv'
  BY <1>2, SameHub
<1>15. ASSUME NEW d \in Consumers, d # c PROVE ConsumerInv(d)'
  BY <1>2, <1>9, <1>15, OtherConsumer
<1>16. ConsumerInv(c)'
  <2>1. Seen(c)' = Seen(c) /\ Events' = Events
    BY <1>2 DEF Seen, Events, hubVars
  <2>2. ASSUME NEW x \in InFill(c)' PROVE x \in InFill(c) /\ x # e
    <3>1. PICK j \in (i + 1)..fill[c].to : x = pushed[j] /\ stamp[pushed[j]] > fill[c].after
      BY <1>2, <1>12, <2>2 DEF InFill, FillLeft, hubVars
    <3>2. j \in fill[c].from..fill[c].to /\ j # i /\ j \in 1..Len(pushed)
      BY <1>4, <1>5, <3>1
    <3>3. x \in InFill(c)
      BY <3>1, <3>2 DEF InFill, FillLeft
    <3>4. pushed[j] # pushed[i]
      <4>1. IsInjective(pushed) /\ DOMAIN pushed = 1..Len(pushed)
        BY <1>1, LenProperties DEF HubInv, TypeOK
      <4> QED
        BY <1>6, <3>2, <4>1 DEF IsInjective
    <3> QED
      BY <3>1, <3>3, <3>4
  <2>3. InFill(c) \cap (Range(got[c]) \cup Range(wire[c])) = {}
    BY <1>1, <1>2 DEF ConsumerInv
  <2>4. InFill(c)' \cap (Range(got[c]) \cup Range(wire'[c])) = {}
    BY <1>11, <2>2, <2>3
  <2>5. ASSUME NEW x \in Seen(c) \cup Range(wire'[c]) PROVE stamp[x] <= lastSent'[c]
    <3>1. CASE x = e
      BY <1>10, <3>1
    <3>2. CASE x \in Seen(c) \cup Range(wire[c])
      <4>1. stamp[x] <= lastSent[c] /\ x \in Range(pushed)
        BY <1>1, <1>2, <3>2 DEF ConsumerInv, Seen
      <4>2. stamp[x] \in Nat
        BY <1>1, <4>1, ElementOfSeq DEF HubInv, TypeOK, Events
      <4> QED
        BY <1>4, <1>10, <4>1, <4>2
    <3> QED
      BY <1>11, <2>5, <3>1, <3>2
  <2>6. Range(wire'[c]) \subseteq Range(pushed) \ Range(got[c])
    BY <1>1, <1>6, <1>8, <1>11 DEF ConsumerInv
  <2>7. fill'[c].from >= 1 /\ fill'[c].to <= Len(pushed)
    BY <1>4, <1>5, <1>12
  <2> QED
    BY <1>1, <1>2, <1>11, <2>1, <2>4, <2>5, <2>6, <2>7 DEF ConsumerInv, hubVars
<1> QED
  BY <1>13, <1>14, <1>15, <1>16 DEF IInv

LEMMA ReceiveInv ==
  ASSUME IInv, NEW c \in Consumers, Receive(c)
  PROVE  IInv'
<1>1. TypeOK /\ HubInv /\ ConsumerInv(c)
  BY DEF IInv
<1>2. /\ UNCHANGED hubVars
      /\ task[c] = "live" /\ FillLeft(c) = {} /\ pos[c] < Len(sent)
      /\ task' = task /\ since' = since /\ fill' = fill
      /\ lastSeq' = lastSeq /\ got' = got /\ bridgeLast' = bridgeLast /\ shown' = shown
      /\ slipped' = slipped
  BY DEF Receive, subVars
<1> DEFINE e == sent[pos[c] + 1]
<1>3. /\ wire[c] \in Seq(Nat) /\ lastSent[c] \in Nat /\ pos[c] \in Nat
      /\ sent \in Seq(Nat) /\ Len(sent) \in Nat
  BY <1>1, LenProperties DEF TypeOK
<1>4. e \in Range(sent) /\ e \in Nat
  <2>1. pos[c] + 1 \in 1..Len(sent) /\ DOMAIN sent = 1..Len(sent)
    BY <1>2, <1>3, LenProperties
  <2> QED
    BY <1>3, <2>1, ElementOfSeq DEF Range
<1>5. e \in Range(pushed) /\ stamp[e] \in Nat
  BY <1>1, <1>4, ElementOfSeq DEF HubInv, TypeOK, Events
<1>6. pos' \in [Consumers -> Nat]
  <2>1. pos' = [pos EXCEPT ![c] = @ + 1] /\ pos \in [Consumers -> Nat]
    BY <1>1 DEF Receive, TypeOK
  <2> QED
    BY <2>1
<1>7. HubInv'
  BY <1>2, SameHub
<1>8. CASE stamp[e] <= lastSent[c]
  <2>1. wire' = wire /\ lastSent' = lastSent
    BY <1>8 DEF Receive, AlreadySent
  <2>2. TypeOK'
    BY <1>1, <1>2, <1>6, <2>1 DEF TypeOK, hubVars
  <2>3. \A d \in Consumers : ConsumerInv(d)'
    BY <1>2, <2>1, OtherConsumer
  <2> QED
    BY <1>7, <2>2, <2>3 DEF IInv
<1>9. CASE ~(stamp[e] <= lastSent[c])
  <2>1. /\ wire' = [wire EXCEPT ![c] = Append(@, e)]
        /\ lastSent' = [lastSent EXCEPT ![c] = stamp[e]]
    BY <1>9 DEF Receive, AlreadySent
  <2>2. e \notin Range(got[c]) /\ e \notin Range(wire[c])
    <3>1. e \notin Seen(c) \cup Range(wire[c])
      BY <1>1, <1>2, <1>9 DEF ConsumerInv
    <3> QED
      BY <1>5, <3>1 DEF Seen
  <2>3. /\ wire'[c] = Append(wire[c], e) /\ lastSent'[c] = stamp[e]
        /\ \A d \in Consumers \ {c} : wire'[d] = wire[d] /\ lastSent'[d] = lastSent[d]
    BY <1>1, <2>1 DEF TypeOK
  <2>4. /\ wire'[c] \in Seq(Nat) /\ Range(wire'[c]) = Range(wire[c]) \cup {e}
        /\ IsInjective(wire'[c])
    <3>1. IsInjective(wire[c])
      BY <1>1 DEF ConsumerInv
    <3> QED
      BY <1>3, <1>4, <2>2, <2>3, <3>1, RangeAppend, InjectiveAppend
  <2>5. TypeOK'
    <3>1. wire' \in [Consumers -> Seq(Nat)] /\ lastSent' \in [Consumers -> Nat]
      <4> HIDE DEF e
      <4> QED
        BY <1>1, <1>5, <2>1, <2>3, <2>4 DEF TypeOK
    <3> QED
      BY <1>1, <1>2, <1>6, <3>1 DEF TypeOK, hubVars
  <2>6. ASSUME NEW d \in Consumers, d # c PROVE ConsumerInv(d)'
    BY <1>2, <2>3, <2>6, OtherConsumer
  <2>7. ConsumerInv(c)'
    <3>1. Seen(c)' = Seen(c) /\ Events' = Events /\ InFill(c)' = {} /\ InFill(c) = {}
      BY <1>2 DEF Seen, Events, InFill, FillLeft, hubVars
    <3>2. ASSUME NEW x \in Seen(c) \cup Range(wire'[c]) PROVE stamp[x] <= lastSent'[c]
      <4>1. CASE x = e
        BY <1>5, <2>3, <4>1
      <4>2. CASE x \in Seen(c) \cup Range(wire[c])
        <5>1. stamp[x] <= lastSent[c] /\ x \in Range(pushed)
          BY <1>1, <1>2, <4>2 DEF ConsumerInv, Seen
        <5>2. stamp[x] \in Nat
          BY <1>1, <5>1, ElementOfSeq DEF HubInv, TypeOK, Events
        <5>3. lastSent[c] < stamp[e]
          BY <1>3, <1>5, <1>9
        <5> QED
          BY <1>3, <1>5, <2>3, <5>1, <5>2, <5>3
      <4> QED
        BY <2>4, <3>2, <4>1, <4>2
    <3>3. Range(wire'[c]) \subseteq Range(pushed) \ Range(got[c])
      BY <1>1, <1>5, <2>2, <2>4 DEF ConsumerInv
    <3> QED
      BY <1>1, <1>2, <2>4, <3>1, <3>2, <3>3 DEF ConsumerInv, hubVars
  <2> QED
    BY <1>7, <2>5, <2>6, <2>7 DEF IInv
<1> QED
  BY <1>8, <1>9

LEMMA LagInv ==
  ASSUME IInv, NEW c \in Consumers, Lag(c)
  PROVE  IInv'
<1>1. TypeOK /\ HubInv /\ ConsumerInv(c)
  BY DEF IInv
<1>2. /\ UNCHANGED hubVars
      /\ task[c] = "live" /\ Lagging(c)
      /\ since' = since /\ fill' = fill /\ lastSent' = lastSent /\ wire' = wire
      /\ lastSeq' = lastSeq /\ got' = got /\ bridgeLast' = bridgeLast /\ shown' = shown
      /\ slipped' = slipped
  BY DEF Lag, subVars
<1>3. Len(sent) - BroadcastCap \in Nat
  <2>1. Len(sent) \in Nat /\ BroadcastCap \in Nat /\ pos[c] \in Nat
    BY <1>1, LenProperties, StreamAssumption DEF TypeOK, StreamAssumption
  <2> QED
    BY <1>2, <2>1 DEF Lagging
<1>4. /\ task'[c] = "lagged"
      /\ \A d \in Consumers \ {c} : task'[d] = task[d]
      /\ task' \in [Consumers -> {"none", "admitted", "snapshot", "live", "lagged"}]
      /\ pos' \in [Consumers -> Nat]
  BY <1>1, <1>3 DEF Lag, TypeOK
<1>5. TypeOK'
  BY <1>1, <1>2, <1>4 DEF TypeOK, hubVars
<1>6. HubInv'
  BY <1>2, SameHub
<1>7. ASSUME NEW d \in Consumers, d # c PROVE ConsumerInv(d)'
  BY <1>2, <1>4, <1>7, OtherConsumer
<1>8. ConsumerInv(c)'
  <2>1. Seen(c)' = Seen(c) /\ Events' = Events /\ InFill(c)' = InFill(c)
    BY <1>2 DEF Seen, Events, InFill, FillLeft, hubVars
  <2> QED
    BY <1>1, <1>2, <1>4, <2>1 DEF ConsumerInv, hubVars
<1> QED
  BY <1>5, <1>6, <1>7, <1>8 DEF IInv

LEMMA RefillInv ==
  ASSUME IInv, NEW c \in Consumers, Refill(c)
  PROVE  IInv'
<1>1. TypeOK /\ HubInv /\ ConsumerInv(c)
  BY DEF IInv
<1>2. /\ UNCHANGED hubVars
      /\ task[c] = "lagged"
      /\ since' = since /\ pos' = pos /\ lastSent' = lastSent /\ wire' = wire
      /\ lastSeq' = lastSeq /\ got' = got /\ bridgeLast' = bridgeLast /\ shown' = shown
      /\ slipped' = slipped
  BY DEF Refill, subVars
<1> DEFINE f == ReplaySince(lastSent[c])
<1>3. lastSent[c] \in Nat /\ Len(pushed) \in Nat
  BY <1>1, LenProperties DEF TypeOK
<1>4. f \in Batch /\ f.from >= 1 /\ f.to = Len(pushed) /\ f.to <= Len(pushed)
      /\ f.after = lastSent[c]
  BY <1>1, <1>3, ReplayFacts
<1> HIDE DEF f
<1>5. /\ task'[c] = "live" /\ fill'[c] = f
      /\ \A d \in Consumers \ {c} : task'[d] = task[d] /\ fill'[d] = fill[d]
      /\ task' \in [Consumers -> {"none", "admitted", "snapshot", "live", "lagged"}]
      /\ fill' \in [Consumers -> Batch]
  <2>1. fill' = [fill EXCEPT ![c] = f] /\ task' = [task EXCEPT ![c] = "live"]
    BY DEF Refill, f
  <2> QED
    BY <1>1, <1>4, <2>1 DEF TypeOK
<1>6. TypeOK'
  BY <1>1, <1>2, <1>5 DEF TypeOK, hubVars
<1>7. HubInv'
  BY <1>2, SameHub
<1>8. ASSUME NEW d \in Consumers, d # c PROVE ConsumerInv(d)'
  BY <1>2, <1>5, <1>8, OtherConsumer
<1>9. ConsumerInv(c)'
  <2>1. Seen(c)' = Seen(c) /\ Events' = Events
    BY <1>2 DEF Seen, Events, hubVars
  <2>2. ASSUME NEW e \in InFill(c)' PROVE e \notin Range(got[c]) /\ e \notin Range(wire[c])
    <3>1. PICK i \in f.from..f.to : e = pushed[i] /\ stamp[pushed[i]] > f.after
      BY <1>2, <1>5, <2>2 DEF InFill, FillLeft, hubVars
    <3>2. i \in 1..Len(pushed) /\ e \in Range(pushed)
      BY <1>1, <1>4, <3>1, InFillFacts
    <3>3. stamp[e] \in Nat /\ stamp[e] > lastSent[c]
      BY <1>1, <1>4, <3>1, <3>2, PushedFacts
    <3>4. e \notin Seen(c) \cup Range(wire[c])
      BY <1>1, <1>2, <1>3, <3>3 DEF ConsumerInv
    <3> QED
      BY <3>2, <3>4 DEF Seen
  <2> QED
    BY <1>1, <1>2, <1>4, <1>5, <2>1, <2>2 DEF ConsumerInv, hubVars
<1> QED
  BY <1>6, <1>7, <1>8, <1>9 DEF IInv

LEMMA DeliverInv ==
  ASSUME IInv, NEW c \in Consumers, Deliver(c)
  PROVE  IInv'
<1>1. TypeOK /\ HubInv /\ ConsumerInv(c)
  BY DEF IInv
<1> DEFINE e == Head(wire[c])
<1>2. /\ UNCHANGED hubVars
      /\ wire[c] # <<>>
      /\ wire' = [wire EXCEPT ![c] = Tail(@)]
      /\ lastSeq' = [lastSeq EXCEPT ![c] = Larger(@, stamp[e])]
      /\ got' = [got EXCEPT ![c] = Append(@, e)]
      /\ task' = task /\ since' = since /\ fill' = fill /\ pos' = pos
      /\ lastSent' = lastSent /\ slipped' = slipped
  BY DEF Deliver
<1>3. /\ wire[c] \in Seq(Nat) /\ got[c] \in Seq(Nat) /\ lastSeq[c] \in Nat /\ seq \in Nat
      /\ IsInjective(wire[c]) /\ IsInjective(got[c])
      /\ Range(wire[c]) \subseteq Range(pushed) \ Range(got[c])
  BY <1>1 DEF TypeOK, ConsumerInv
<1>4. /\ e \in Nat /\ Tail(wire[c]) \in Seq(Nat)
      /\ Range(wire[c]) = {e} \cup Range(Tail(wire[c]))
      /\ IsInjective(Tail(wire[c])) /\ e \notin Range(Tail(wire[c]))
  BY <1>2, <1>3, RangeHeadTail, InjectiveTail
<1>5. e \in Range(pushed) /\ e \notin Range(got[c]) /\ e \in Events
  BY <1>1, <1>3, <1>4 DEF HubInv
<1>6. stamp[e] \in Nat /\ stamp[e] <= seq
  BY <1>1, <1>5, ElementOfSeq DEF HubInv, TypeOK, Events
<1>7. /\ Append(got[c], e) \in Seq(Nat)
      /\ Range(Append(got[c], e)) = Range(got[c]) \cup {e}
      /\ IsInjective(Append(got[c], e))
  BY <1>3, <1>4, <1>5, RangeAppend, InjectiveAppend
<1>8. /\ wire'[c] = Tail(wire[c]) /\ got'[c] = Append(got[c], e)
      /\ lastSeq'[c] = Larger(lastSeq[c], stamp[e])
      /\ \A d \in Consumers \ {c} :
           wire'[d] = wire[d] /\ got'[d] = got[d] /\ lastSeq'[d] = lastSeq[d]
  BY <1>1, <1>2 DEF TypeOK
<1>9. /\ lastSeq'[c] \in Nat /\ lastSeq'[c] >= lastSeq[c] /\ lastSeq'[c] >= stamp[e]
      /\ lastSeq'[c] \in {lastSeq[c], stamp[e]}
  BY <1>3, <1>6, <1>8 DEF Larger
<1>10. TypeOK'
  <2> HIDE DEF e
  <2>1. wire' \in [Consumers -> Seq(Nat)]
    BY <1>1, <1>2, <1>4, <1>8 DEF TypeOK
  <2>2. got' \in [Consumers -> Seq(Nat)]
    BY <1>1, <1>2, <1>7, <1>8 DEF TypeOK
  <2>3. lastSeq' \in [Consumers -> Nat]
    BY <1>1, <1>2, <1>8, <1>9 DEF TypeOK
  <2>4. bridgeLast' \in [Consumers -> Nat] /\ shown' \in [Consumers -> SUBSET Nat]
    <3>1. bridgeLast \in [Consumers -> Nat] /\ shown \in [Consumers -> SUBSET Nat]
      BY <1>1 DEF TypeOK
    <3>2. \/ bridgeLast' = bridgeLast /\ shown' = shown
          \/ /\ bridgeLast' = [bridgeLast EXCEPT ![c] = stamp[e]]
             /\ shown' = [shown EXCEPT ![c] = @ \cup {e}]
      BY DEF Deliver, Refuses, e
    <3>3. e \in Nat /\ stamp[e] \in Nat
      BY <1>4, <1>6 DEF e
    <3> QED
      BY <3>1, <3>2, <3>3
  <2> QED
    BY <1>1, <1>2, <2>1, <2>2, <2>3, <2>4 DEF TypeOK, hubVars
<1>11. HubInv'
  BY <1>2, SameHub
<1>12. ASSUME NEW d \in Consumers, d # c PROVE ConsumerInv(d)'
  BY <1>2, <1>8, <1>12, OtherConsumer
<1>13. ConsumerInv(c)'
  <2>1. /\ Seen(c)' = Seen(c) \cup {e} /\ Events' = Events /\ InFill(c)' = InFill(c)
    BY <1>2, <1>5, <1>7, <1>8 DEF Seen, Events, InFill, FillLeft, hubVars
  <2>2. task[c] \in {"live", "lagged"}
    BY <1>1, <1>2 DEF ConsumerInv, TypeOK
  <2>3. lastSeq[c] <= seq
    BY <1>1, <2>2 DEF ConsumerInv
  <2>4. lastSeq'[c] <= seq
    BY <1>6, <1>9, <2>3
  <2>5. ASSUME NEW x \in Seen(c) \cup {e} PROVE stamp[x] <= lastSeq'[c]
    <3>1. CASE x = e
      BY <1>9, <3>1
    <3>2. CASE x \in Seen(c)
      <4>1. stamp[x] <= lastSeq[c] /\ x \in Range(pushed)
        BY <1>1, <3>2 DEF ConsumerInv, Seen
      <4>2. stamp[x] \in Nat
        BY <1>1, <4>1, ElementOfSeq DEF HubInv, TypeOK, Events
      <4> QED
        BY <1>3, <1>9, <4>1, <4>2
    <3> QED
      BY <2>5, <3>1, <3>2
  <2>6. \A x \in (Seen(c) \cup {e}) \cup Range(wire'[c]) : stamp[x] <= lastSent[c]
    BY <1>1, <1>4, <1>8, <2>2 DEF ConsumerInv
  <2>7. \A p \in Producers : ingesting[p].at = "stamped" => ingesting[p].event \notin Range(got'[c])
    BY <1>1, <1>5, <1>7, <1>8 DEF ConsumerInv, HubInv
  <2>8. Range(wire'[c]) \subseteq Range(pushed) \ Range(got'[c])
    BY <1>3, <1>4, <1>7, <1>8
  <2>9. InFill(c) \cap (Range(got'[c]) \cup Range(wire'[c])) = {}
    BY <1>1, <1>4, <1>7, <1>8, <2>2 DEF ConsumerInv
  <2>10. Range(got'[c]) \subseteq Events
    BY <1>1, <1>5, <1>7, <1>8 DEF ConsumerInv
  <2> QED
    BY <1>1, <1>2, <1>4, <1>7, <1>8, <2>1, <2>2, <2>4, <2>5, <2>6, <2>7, <2>8, <2>9, <2>10
    DEF ConsumerInv, hubVars
<1> QED
  BY <1>10, <1>11, <1>12, <1>13 DEF IInv

LEMMA BreakInv ==
  ASSUME IInv, NEW c \in Consumers, Break(c)
  PROVE  IInv'
<1>1. TypeOK /\ HubInv /\ ConsumerInv(c)
  BY DEF IInv
<1>2. /\ UNCHANGED hubVars
      /\ task[c] # "none"
      /\ since' = since /\ pos' = pos /\ lastSent' = lastSent
      /\ lastSeq' = lastSeq /\ got' = got /\ bridgeLast' = bridgeLast /\ shown' = shown
      /\ slipped' = slipped
  BY DEF Break, subVars
<1>3. <<>> \in Seq(Nat) /\ Range(<<>>) = {} /\ IsInjective(<<>>)
  BY EmptySeq, RangeEmpty
<1>4. /\ task'[c] = "none" /\ wire'[c] = <<>> /\ fill'[c] = NoFill
      /\ \A d \in Consumers \ {c} : task'[d] = task[d] /\ wire'[d] = wire[d] /\ fill'[d] = fill[d]
      /\ task' \in [Consumers -> {"none", "admitted", "snapshot", "live", "lagged"}]
      /\ wire' \in [Consumers -> Seq(Nat)]
      /\ fill' \in [Consumers -> Batch]
  BY <1>1, <1>3 DEF Break, TypeOK, NoFill, Batch
<1>5. TypeOK'
  BY <1>1, <1>2, <1>4 DEF TypeOK, hubVars
<1>6. HubInv'
  BY <1>2, SameHub
<1>7. ASSUME NEW d \in Consumers, d # c PROVE ConsumerInv(d)'
  BY <1>2, <1>4, <1>7, OtherConsumer
<1>8. ConsumerInv(c)'
  <2>1. Seen(c)' = Seen(c) /\ Events' = Events
    BY <1>2 DEF Seen, Events, hubVars
  <2>2. Len(pushed) \in Nat
    BY <1>1, LenProperties DEF TypeOK
  <2>3. fill'[c].from = 1 /\ fill'[c].to = 0
    BY <1>4 DEF NoFill
  <2> QED
    BY <1>1, <1>2, <1>3, <1>4, <2>1, <2>2, <2>3 DEF ConsumerInv, hubVars
<1> QED
  BY <1>5, <1>6, <1>7, <1>8 DEF IInv

LEMMA RestartInv ==
  ASSUME IInv, Restart
  PROVE  IInv'
<1>1. TypeOK /\ HubInv /\ \A c \in Consumers : ConsumerInv(c)
  BY DEF IInv
<1>2. <<>> \in Seq(Nat) /\ Len(<<>>) = 0 /\ Range(<<>>) = {} /\ IsInjective(<<>>)
  BY EmptySeq, RangeEmpty
<1>3. seq' \in Nat /\ seq' >= 1 /\ restarts' \in 0..MaxRestarts
  BY <1>1, StreamAssumption DEF Restart, Seeds, TypeOK, StreamAssumption
<1>4. /\ pushed' = <<>> /\ evicted' = 0 /\ sent' = <<>>
      /\ ingesting' = [p \in Producers |-> Idle]
      /\ task' = [c \in Consumers |-> "none"]
      /\ fill' = [c \in Consumers |-> NoFill]
      /\ pos' = [c \in Consumers |-> 0]
      /\ wire' = [c \in Consumers |-> <<>>]
      /\ stamp' = stamp /\ since' = since /\ lastSent' = lastSent
      /\ lastSeq' = lastSeq /\ got' = got /\ bridgeLast' = bridgeLast /\ shown' = shown
      /\ slipped' = slipped
  BY DEF Restart, subVars
<1>5. TypeOK'
  BY <1>1, <1>2, <1>3, <1>4, StreamAssumption
  DEF TypeOK, Step, Batch, Idle, NoFill, StreamAssumption
<1>6. HubInv'
  BY <1>2, <1>3, <1>4 DEF HubInv, Idle
<1>7. ASSUME NEW c \in Consumers PROVE ConsumerInv(c)'
  <2>1. ConsumerInv(c) /\ Events' = Events
    BY <1>1, <1>4 DEF Events
  <2>2. Seen(c)' = {}
    BY <1>2, <1>4 DEF Seen
  <2> QED
    BY <1>2, <1>4, <2>1, <2>2 DEF ConsumerInv, Idle, NoFill
<1> QED
  BY <1>5, <1>6, <1>7 DEF IInv

-----------------------------------------------------------------------------
(* The theorems.                                                           *)

\* Every step of the specification preserves the inductive invariant.
LEMMA StepInv == IInv /\ [Next]_vars => IInv'
<1> SUFFICES ASSUME IInv, [Next]_vars PROVE IInv'
  OBVIOUS
<1>1. CASE Ingest
  BY <1>1, StampInv, BufferInv, SendInv DEF Ingest
<1>2. ASSUME NEW c \in Consumers, Connect(c) \/ RunConsumer(c) \/ Deliver(c) \/ Break(c)
      PROVE  IInv'
  BY <1>2, ConnectInv, SnapshotInv, SubscribeInv, WriteFillInv, ReceiveInv, LagInv,
     RefillInv, DeliverInv, BreakInv
  DEF RunConsumer
<1>3. CASE Restart
  BY <1>3, RestartInv
<1>4. CASE UNCHANGED vars
  <2>1. TypeOK'
    BY <1>4 DEF IInv, TypeOK, vars, hubVars, taskVars, subVars
  <2>2. HubInv'
    BY <1>4, SameHub DEF vars
  <2>3. \A d \in Consumers : ConsumerInv(d)'
    BY <1>4, OtherConsumer DEF vars, taskVars, subVars
  <2> QED
    BY <2>1, <2>2, <2>3 DEF IInv
<1> QED
  BY <1>1, <1>2, <1>3, <1>4 DEF Next

\* The inductive invariant holds of every behaviour of the feed.
THEOREM InvariantHolds == Spec => []IInv
<1>1. Init => IInv
  BY InitInv
<1>2. IInv /\ [Next]_vars => IInv'
  BY StepInv
<1> QED
  BY <1>1, <1>2, PTL DEF Spec

\* The feed is well typed, and the ring never holds more than buffer_cap
\* events, however many producers ingest at once.
THEOREM TypeCorrect == Spec => []TypeOK
<1>1. IInv => TypeOK
  BY DEF IInv
<1> QED
  BY <1>1, InvariantHolds, PTL

\* No subscriber is ever handed the same event twice: for any number of
\* producers racing in ingest, any ring and channel capacity, any sequence of
\* disconnects and lags, and gateway restarts whatever the clock reads.
THEOREM AtMostOnce == Spec => []NoDuplicates
<1>1. IInv => NoDuplicates
  BY DEF IInv, ConsumerInv, NoDuplicates
<1> QED
  BY <1>1, InvariantHolds, PTL

\* The gateway, its consumer tasks and the subscribers implement the abstract
\* feed: a stamp publishes an event, a delivery hands one over, and every
\* other step is invisible.
THEOREM ImplementsFeed == Spec => FeedSpec
<1>1. Init => Abstract!Init
  BY EmptySeq DEF Init, Abstract!Init
<1>2. IInv /\ [Next]_vars => [Abstract!Next]_(Abstract!vars)
  <2> SUFFICES ASSUME IInv, [Next]_vars PROVE [Abstract!Next]_(Abstract!vars)
    OBVIOUS
  <2>1. TypeOK /\ HubInv /\ \A c \in Consumers : ConsumerInv(c)
    BY DEF IInv
  <2>2. ASSUME NEW p \in Producers, Stamp(p)
        PROVE  Abstract!Publish
    <3>1. Len(stamp') = Len(stamp) + 1
      BY <2>1, <2>2, AppendProperties DEF Stamp, TypeOK
    <3>2. got' = got
      BY <2>2 DEF Stamp, subVars
    <3> QED
      BY <3>1, <3>2 DEF Abstract!Publish
  <2>3. ASSUME NEW c \in Consumers, Deliver(c)
        PROVE  \E e \in 1..Len(stamp) : Abstract!HandOver(c, e)
    <3> DEFINE e == Head(wire[c])
    <3>a. wire[c] \in Seq(Nat)
      BY <2>1 DEF TypeOK
    <3>b. wire[c] # <<>>
      BY <2>3 DEF Deliver
    <3>1. e \in Range(wire[c])
      <4> HIDE DEF e
      <4>1. Range(wire[c]) = {Head(wire[c])} \cup Range(Tail(wire[c]))
        BY <3>a, <3>b, RangeHeadTail
      <4> QED
        BY <4>1 DEF e
    <3>2. e \in Events \ Range(got[c])
      BY <2>1, <3>1 DEF ConsumerInv, HubInv
    <3>3. got' = [got EXCEPT ![c] = Append(@, e)] /\ stamp' = stamp
      BY <2>3 DEF Deliver, hubVars
    <3>4. e \in 1..Len(stamp) /\ Abstract!HandOver(c, e)
      BY <3>2, <3>3 DEF Abstract!HandOver, Events, Range, Abstract!Range
    <3> QED
      BY <3>4
  <2>4. ASSUME stamp' = stamp, got' = got
        PROVE  UNCHANGED Abstract!vars
    BY <2>4 DEF Abstract!vars
  <2>5. ASSUME NEW c \in Consumers, Connect(c) \/ RunConsumer(c) \/ Break(c)
        PROVE  stamp' = stamp /\ got' = got
    BY <2>5 DEF Connect, RunConsumer, Snapshot, Subscribe, WriteFill, Receive, Lag,
       Refill, Break, hubVars, subVars
  <2>6. ASSUME NEW p \in Producers, Buffer(p) \/ Send(p)
        PROVE  stamp' = stamp /\ got' = got
    BY <2>6 DEF Buffer, Send, subVars
  <2>7. Restart => stamp' = stamp /\ got' = got
    BY DEF Restart, subVars
  <2>8. UNCHANGED vars => stamp' = stamp /\ got' = got
    BY DEF vars, hubVars, subVars
  <2> QED
    BY <2>2, <2>3, <2>4, <2>5, <2>6, <2>7, <2>8 DEF Next, Ingest, Abstract!Next
<1> QED
  BY <1>1, <1>2, InvariantHolds, PTL DEF Spec, FeedSpec, Abstract!Spec

-----------------------------------------------------------------------------
(* One producer, and a clock that does not step back: what is skipped and  *)
(* what is lost.                                                           *)

OneProducer == \A p, q \in Producers : p = q

\* Then numbers are given in the order of events, and the ring and the channel
\* hold the events of this run in that order; at most one is in the ring and
\* not yet in the channel.
InOrder ==
  /\ \A e \in Events : 1 <= stamp[e] /\ stamp[e] <= seq
  /\ \A d, e \in Events : d < e => stamp[d] < stamp[e]
  /\ \A i, j \in 1..Len(pushed) : i < j => pushed[i] < pushed[j]
  /\ \A p \in Producers : ingesting[p].at = "stamped" => ingesting[p].event = Len(stamp)
  /\ \A p \in Producers : ingesting[p].at = "buffered" =>
       Len(pushed) = Len(sent) + 1 /\ ingesting[p].event = pushed[Len(pushed)]
  /\ Len(sent) = Len(pushed) \/ \E p \in Producers : ingesting[p].at = "buffered"
  /\ \A i \in 1..Len(sent) : sent[i] = pushed[i]
  /\ evicted = 0 \/ evicted <= Len(pushed) - BufferCap

Rising(s) == \A i, j \in 1..Len(s) : i < j => s[i] < s[j]

\* A number that c goes by is one that has been given out, and not to an event
\* that is still to come.
GivenOut(n) ==
  n <= seq /\ \A p \in Producers : ingesting[p].at = "stamped" => n < stamp[Len(stamp)]

\* The resume point is the number of the last event that c was handed, and so
\* is the bridge's; what is on the wire comes after it, in order.
InStep(c) ==
  /\ GivenOut(lastSeq[c]) /\ GivenOut(since[c]) /\ GivenOut(lastSent[c])
  /\ bridgeLast[c] = lastSeq[c]
  /\ \A e \in Range(got[c]) : stamp[e] <= lastSeq[c]
  /\ \A e \in Range(wire[c]) : lastSeq[c] < stamp[e]
  /\ Rising(wire[c])
  /\ Range(got[c]) \subseteq shown[c]
  /\ task[c] \in {"admitted", "snapshot"} => since[c] = lastSeq[c]
  /\ task[c] \in {"live", "lagged"} => lastSeq[c] <= lastSent[c] /\ pos[c] <= Len(sent)

\* What a task has written, or is going to, starts where the subscriber was.
Running(c) == task[c] \in {"live", "lagged"}
Through(c) == IF Running(c) THEN lastSent[c] ELSE lastSeq[c]
Taken(c)   == IF Running(c) THEN pos[c] ELSE Len(sent)
Has(c)     == Range(got[c]) \cup Range(wire[c]) \cup InFill(c)

\* A backfill is newer than what was written, and leaves nothing out from
\* what the ring held that the channel will not bring.
FillNewer(c) ==
  /\ task[c] \notin {"snapshot", "live"} => FillLeft(c) = {}
  /\ \A i \in FillLeft(c) : Through(c) < stamp[pushed[i]]
  /\ \A i \in FillLeft(c) : \A j \in 1..i :
       j \in FillLeft(c) \/ stamp[pushed[j]] <= Through(c) \/ j <= Taken(c) \/ j <= evicted

\* What may be missing: what slipped through before the subscription, and what
\* is older than all that c has.
Excused(c, e) == e \in slipped[c] \/ \A a \in Has(c) : ~(a < e)

\* Every event in the ring that c's task is past, by its number or by the
\* channel, c has, or it is excused.
Kept(c) ==
  \A j \in (evicted + 1)..Len(pushed) :
    stamp[pushed[j]] <= Through(c) \/ (task[c] \in {"snapshot", "live"} /\ j <= Taken(c)) =>
      pushed[j] \in Has(c) \/ (j <= Taken(c) /\ Excused(c, pushed[j]))

OneInv == InOrder /\ \A c \in Consumers : InStep(c) /\ FillNewer(c) /\ Kept(c)

-----------------------------------------------------------------------------
(* What follows from the order.                                            *)

LEMMA RisingAppend ==
  ASSUME NEW s \in Seq(Nat), NEW x \in Nat, Rising(s), \A y \in Range(s) : y < x
  PROVE  Rising(Append(s, x))
<1>1. /\ Len(Append(s, x)) = Len(s) + 1 /\ Len(s) \in Nat
      /\ \A i \in 1..Len(s) : Append(s, x)[i] = s[i]
      /\ Append(s, x)[Len(s) + 1] = x
  BY AppendProperties, LenProperties
<1>2. \A i \in 1..Len(s) : s[i] < x
  BY RangePositions
<1> QED
  BY <1>1, <1>2 DEF Rising

LEMMA RisingTail ==
  ASSUME NEW s \in Seq(Nat), s # <<>>, Rising(s)
  PROVE  Rising(Tail(s)) /\ \A y \in Range(Tail(s)) : Head(s) < y
<1>1. /\ Head(s) = s[1]
      /\ Tail(s) \in Seq(Nat)
      /\ Len(Tail(s)) = Len(s) - 1 /\ Len(s) \in Nat \ {0}
      /\ \A i \in 1..Len(Tail(s)) : Tail(s)[i] = s[i + 1]
  BY HeadTailProperties, ElementOfSeq, EmptySeq, LenProperties
<1>2. \A i \in 1..Len(Tail(s)) : i + 1 \in 1..Len(s) /\ 1 \in 1..Len(s) /\ 1 < i + 1
  BY <1>1
<1>3. Rising(Tail(s))
  BY <1>1, <1>2 DEF Rising
<1>4. \A i \in 1..Len(Tail(s)) : Head(s) < Tail(s)[i]
  BY <1>1, <1>2 DEF Rising
<1>5. \A y \in Range(Tail(s)) : Head(s) < y
  <2>1. ASSUME NEW y \in Range(Tail(s)) PROVE Head(s) < y
    <3>1. PICK i \in 1..Len(Tail(s)) : Tail(s)[i] = y
      BY <1>1, <2>1, RangePositions
    <3> QED
      BY <1>4, <3>1
  <2> QED
    BY <2>1
<1> QED
  BY <1>3, <1>5

\* The events of this run, by their place in the ring's history.
LEMMA PushedInOrder ==
  ASSUME TypeOK, HubInv, InOrder
  PROVE  /\ Len(pushed) \in Nat /\ Len(sent) \in Nat /\ seq \in Nat /\ evicted \in Nat
         /\ Len(sent) <= Len(pushed) /\ Len(pushed) <= Len(sent) + 1
         /\ \A i \in 1..Len(pushed) : pushed[i] \in Events /\ pushed[i] \in Nat
         /\ \A e \in Events : stamp[e] \in Nat /\ 1 <= stamp[e]
         /\ \A i, j \in 1..Len(pushed) :
              i < j => pushed[i] < pushed[j] /\ stamp[pushed[i]] < stamp[pushed[j]]
<1>1. Len(pushed) \in Nat /\ Len(sent) \in Nat /\ seq \in Nat /\ evicted \in Nat
  BY LenProperties DEF TypeOK
<1>2. Len(sent) <= Len(pushed) /\ Len(pushed) <= Len(sent) + 1
  BY <1>1 DEF InOrder
<1>3. \A i \in 1..Len(pushed) : pushed[i] \in Events /\ pushed[i] \in Nat
  BY PushedFacts DEF Events
<1>4. \A e \in Events : stamp[e] \in Nat /\ 1 <= stamp[e]
  BY ElementOfSeq DEF Events, TypeOK, InOrder
<1>5. \A i, j \in 1..Len(pushed) :
        i < j => pushed[i] < pushed[j] /\ stamp[pushed[i]] < stamp[pushed[j]]
  BY <1>3 DEF InOrder
<1> QED
  BY <1>1, <1>2, <1>3, <1>4, <1>5

\* Numbers and events are in the same order.
LEMMA SameOrder ==
  ASSUME TypeOK, InOrder, NEW d \in Events, NEW e \in Events
  PROVE  /\ stamp[d] \in Nat /\ stamp[e] \in Nat /\ d \in Nat /\ e \in Nat
         /\ d < e <=> stamp[d] < stamp[e]
         /\ d <= e <=> stamp[d] <= stamp[e]
<1>1. stamp[d] \in Nat /\ stamp[e] \in Nat /\ d \in Nat /\ e \in Nat
  BY ElementOfSeq DEF Events, TypeOK
<1>2. (d < e => stamp[d] < stamp[e]) /\ (e < d => stamp[e] < stamp[d])
  BY DEF InOrder
<1> QED
  BY <1>1, <1>2

\* The number of an event of the ring has been given out.
LEMMA PushedIsGivenOut ==
  ASSUME TypeOK, HubInv, InOrder, NEW e \in Range(pushed)
  PROVE  GivenOut(stamp[e]) /\ e \in Events
<1>1. e \in Events /\ stamp[e] <= seq
  BY DEF HubInv
<1>2. ASSUME NEW p \in Producers, ingesting[p].at = "stamped"
      PROVE  stamp[e] < stamp[Len(stamp)]
  <2>1. ingesting[p].event = Len(stamp) /\ Len(stamp) \in Events \ Range(pushed)
    BY <1>2 DEF InOrder, HubInv
  <2>2. Len(stamp) \in Nat /\ e <= Len(stamp) /\ e # Len(stamp) /\ e \in Nat
    BY <1>1, <2>1, LenProperties DEF Events, TypeOK
  <2>3. e < Len(stamp)
    BY <2>2
  <2> QED
    BY <1>1, <2>1, <2>3 DEF InOrder
<1> QED
  BY <1>1, <1>2 DEF GivenOut

\* The positions a task still has to write are positions of the history.
LEMMA FillPositions ==
  ASSUME TypeOK, NEW c \in Consumers, ConsumerInv(c)
  PROVE  /\ FillLeft(c) \subseteq 1..Len(pushed)
         /\ \A i \in FillLeft(c) : pushed[i] \in InFill(c)
         /\ \A e \in InFill(c) : \E i \in FillLeft(c) : e = pushed[i]
<1>1. /\ Len(pushed) \in Nat /\ fill[c].from \in Nat /\ fill[c].to \in Nat
      /\ fill[c].from >= 1 /\ fill[c].to <= Len(pushed)
  BY LenProperties DEF TypeOK, Batch, ConsumerInv
<1>2. FillLeft(c) \subseteq 1..Len(pushed)
  BY <1>1 DEF FillLeft
<1> QED
  BY <1>2 DEF InFill

-----------------------------------------------------------------------------
(* The order is kept by every step.                                        *)

LEMMA InitOne == Init => OneInv
<1> SUFFICES ASSUME Init PROVE OneInv
  OBVIOUS
<1>1. Len(<<>>) = 0 /\ Range(<<>>) = {}
  BY EmptySeq, RangeEmpty
<1>2. InOrder
  BY <1>1 DEF Init, InOrder, Idle, Events
<1>3. FirstSeq \in Nat
  BY StreamAssumption DEF StreamAssumption
<1>4. GivenOut(0)
  BY <1>3 DEF Init, GivenOut, Idle
<1>5. ASSUME NEW c \in Consumers PROVE InStep(c) /\ FillNewer(c) /\ Kept(c)
  <2>1. FillLeft(c) = {}
    BY <1>5 DEF Init, FillLeft, NoFill
  <2>2. InStep(c)
    BY <1>1, <1>4 DEF Init, InStep, Rising
  <2>3. FillNewer(c)
    BY <2>1 DEF FillNewer
  <2>4. Kept(c)
    BY <1>1 DEF Init, Kept
  <2> QED
    BY <2>2, <2>3, <2>4
<1> QED
  BY <1>2, <1>5 DEF OneInv

\* A step of a consumer leaves the order of the hub's events alone.
LEMMA SameOrderOfHub ==
  ASSUME InOrder, UNCHANGED hubVars
  PROVE  InOrder'
BY DEF InOrder, hubVars, Events

\* .. and so does it leave any other consumer.
LEMMA OtherKept ==
  ASSUME NEW d \in Consumers, InStep(d), FillNewer(d), Kept(d), UNCHANGED hubVars,
         task'[d] = task[d], since'[d] = since[d], fill'[d] = fill[d], pos'[d] = pos[d],
         lastSent'[d] = lastSent[d], wire'[d] = wire[d],
         lastSeq'[d] = lastSeq[d], got'[d] = got[d],
         bridgeLast'[d] = bridgeLast[d], shown'[d] = shown[d], slipped'[d] = slipped[d]
  PROVE  InStep(d)' /\ FillNewer(d)' /\ Kept(d)'
<1>1. /\ seq' = seq /\ stamp' = stamp /\ pushed' = pushed /\ evicted' = evicted
      /\ sent' = sent /\ ingesting' = ingesting
  BY DEF hubVars
<1>2. /\ FillLeft(d)' = FillLeft(d) /\ Running(d)' = Running(d)
  BY <1>1 DEF FillLeft, Running
<1>3. /\ InFill(d)' = InFill(d) /\ Through(d)' = Through(d) /\ Taken(d)' = Taken(d)
  BY <1>1, <1>2 DEF InFill, Through, Taken
<1>4. Has(d)' = Has(d)
  BY <1>3 DEF Has
<1>5. InStep(d)'
  BY <1>1 DEF InStep, GivenOut
<1>6. FillNewer(d)'
  BY <1>1, <1>2, <1>3 DEF FillNewer
<1>7. Kept(d)'
  BY <1>1, <1>3, <1>4 DEF Kept, Excused
<1> QED
  BY <1>5, <1>6, <1>7

-----------------------------------------------------------------------------
(* .. by Hub::ingest and by a restart.                                     *)

\* A step of the hub that gives old events no new numbers and moves nothing
\* in the ring's history leaves every vector as it is.
LEMMA SameFill ==
  ASSUME TypeOK, NEW c \in Consumers, ConsumerInv(c), fill'[c] = fill[c],
         \A i \in 1..Len(pushed) : pushed'[i] = pushed[i] /\ stamp'[pushed[i]] = stamp[pushed[i]]
  PROVE  FillLeft(c)' = FillLeft(c) /\ InFill(c)' = InFill(c)
<1>1. /\ Len(pushed) \in Nat /\ fill[c].from \in Nat /\ fill[c].to \in Nat
      /\ fill[c].from >= 1 /\ fill[c].to <= Len(pushed)
  BY LenProperties DEF TypeOK, Batch, ConsumerInv
<1>2. \A i \in fill[c].from..fill[c].to : i \in 1..Len(pushed)
  BY <1>1
<1>3. \A i \in fill[c].from..fill[c].to :
        pushed'[i] = pushed[i] /\ stamp'[pushed'[i]] = stamp[pushed[i]]
  BY <1>2
<1>4. FillLeft(c)' = FillLeft(c)
  BY <1>3 DEF FillLeft
<1>5. InFill(c)' = InFill(c)
  BY <1>3, <1>4 DEF InFill, FillLeft
<1> QED
  BY <1>4, <1>5

LEMMA StampOne ==
  ASSUME IInv, OneInv, OneProducer, NEW p \in Producers, Stamp(p)
  PROVE  OneInv'
<1>1. /\ TypeOK /\ HubInv /\ \A c \in Consumers : ConsumerInv(c)
      /\ InOrder /\ \A c \in Consumers : InStep(c) /\ FillNewer(c) /\ Kept(c)
  BY DEF IInv, OneInv
<1>2. /\ stamp \in Seq(Nat) /\ Len(stamp) \in Nat /\ seq \in Nat
      /\ stamp' = Append(stamp, seq + 1) /\ seq' = seq + 1
  BY <1>1, LenProperties DEF TypeOK, Stamp
<1>3. /\ pushed' = pushed /\ evicted' = evicted /\ sent' = sent
      /\ task' = task /\ since' = since /\ fill' = fill /\ pos' = pos
      /\ lastSent' = lastSent /\ wire' = wire /\ lastSeq' = lastSeq /\ got' = got
      /\ bridgeLast' = bridgeLast /\ shown' = shown /\ slipped' = slipped
  BY DEF Stamp, taskVars, subVars
<1>4. /\ Len(stamp') = Len(stamp) + 1
      /\ stamp'[Len(stamp')] = seq + 1
      /\ \A e \in Events : stamp'[e] = stamp[e] /\ stamp[e] \in Nat /\ e \in Nat /\ e <= Len(stamp)
      /\ Events' = Events \cup {Len(stamp')}
  BY <1>2, AppendProperties, ElementOfSeq DEF Events
<1>5. /\ ingesting[p].at = "idle"
      /\ \A q \in Producers : q = p
      /\ ingesting'[p] = [at |-> "stamped", event |-> Len(stamp')]
  BY <1>1, <1>2, <1>4 DEF OneProducer, Stamp, Idle, TypeOK
<1>6. \A e \in Events : 1 <= stamp[e] /\ stamp[e] <= seq
  BY <1>1 DEF InOrder
<1>n. seq \in Nat /\ seq' = seq + 1
  BY <1>2
<1>7. InOrder'
  <2>1. \A e \in Events' : 1 <= stamp'[e] /\ stamp'[e] <= seq'
    <3>1. ASSUME NEW e \in Events PROVE 1 <= stamp'[e] /\ stamp'[e] <= seq'
      <4>1. stamp'[e] = stamp[e] /\ stamp[e] \in Nat /\ 1 <= stamp[e] /\ stamp[e] <= seq
        BY <1>4, <1>6
      <4> QED
        BY <1>n, <4>1
    <3>2. 1 <= seq + 1 /\ seq + 1 <= seq'
      BY <1>2
    <3> QED
      BY <1>4, <3>1, <3>2
  <2>2. ASSUME NEW d \in Events', NEW e \in Events', d < e
        PROVE  stamp'[d] < stamp'[e]
    <3>1. CASE e \in Events
      <4>1. d \in Events
        BY <1>2, <1>4, <2>2, <3>1
      <4> QED
        BY <1>1, <1>4, <2>2, <3>1, <4>1 DEF InOrder
    <3>2. CASE e = Len(stamp')
      <4>1. d \in Events
        BY <1>2, <1>4, <2>2, <3>2
      <4>2. stamp'[d] = stamp[d] /\ stamp[d] \in Nat /\ stamp[d] <= seq
        BY <1>4, <1>6, <4>1
      <4>3. stamp'[e] = seq + 1
        BY <1>4, <3>2
      <4> QED
        BY <1>n, <4>2, <4>3
    <3> QED
      BY <1>4, <2>2, <3>1, <3>2
  <2>3. \A q \in Producers : ingesting'[q] = [at |-> "stamped", event |-> Len(stamp')]
    BY <1>5
  <2>4. Len(sent) = Len(pushed)
    BY <1>1, <1>5 DEF InOrder
  <2>5. /\ \A i, j \in 1..Len(pushed) : i < j => pushed[i] < pushed[j]
        /\ \A i \in 1..Len(sent) : sent[i] = pushed[i]
        /\ evicted = 0 \/ evicted <= Len(pushed) - BufferCap
    BY <1>1 DEF InOrder
  <2> QED
    BY <1>3, <2>1, <2>2, <2>3, <2>4, <2>5 DEF InOrder
<1>8. ASSUME NEW c \in Consumers PROVE InStep(c)' /\ FillNewer(c)' /\ Kept(c)'
  <2>1. ConsumerInv(c) /\ InStep(c) /\ FillNewer(c) /\ Kept(c)
    BY <1>1
  <2>2. \A i \in 1..Len(pushed) : pushed'[i] = pushed[i] /\ stamp'[pushed[i]] = stamp[pushed[i]]
    BY <1>1, <1>3, <1>4, PushedFacts
  <2>3. FillLeft(c)' = FillLeft(c) /\ InFill(c)' = InFill(c)
    BY <1>1, <1>3, <2>1, <2>2, SameFill
  <2>4. FillLeft(c) \subseteq 1..Len(pushed) /\ Len(pushed) \in Nat
    BY <1>1, <2>1, FillPositions, PushedInOrder
  <2>5. Through(c)' = Through(c) /\ Taken(c)' = Taken(c) /\ Has(c)' = Has(c)
    BY <1>3, <2>3 DEF Through, Taken, Has, Running
  <2>6. ASSUME NEW n \in Nat, GivenOut(n) PROVE GivenOut(n)'
    <3>1. n <= seq
      BY <2>6 DEF GivenOut
    <3>2. n <= seq' /\ n < stamp'[Len(stamp')]
      BY <1>2, <1>4, <3>1
    <3> QED
      BY <3>2 DEF GivenOut
  <2>7. GivenOut(lastSeq[c])' /\ GivenOut(since[c])' /\ GivenOut(lastSent[c])'
    <3>1. /\ lastSeq[c] \in Nat /\ GivenOut(lastSeq[c]) /\ since[c] \in Nat /\ GivenOut(since[c])
          /\ lastSent[c] \in Nat /\ GivenOut(lastSent[c])
      BY <1>1, <2>1 DEF TypeOK, InStep
    <3> QED
      BY <1>3, <2>6, <3>1 DEF GivenOut
  <2>8. \A e \in Range(got[c]) \cup Range(wire[c]) : stamp'[e] = stamp[e]
    BY <1>1, <1>4, <2>1 DEF ConsumerInv, HubInv
  <2>9. InStep(c)'
    BY <1>3, <2>1, <2>7, <2>8 DEF InStep, Rising
  <2>10. FillNewer(c)'
    <3>1. task[c] \notin {"snapshot", "live"} => FillLeft(c) = {}
      BY <2>1 DEF FillNewer
    <3>2. \A i \in FillLeft(c) : Through(c) < stamp'[pushed[i]]
      BY <2>1, <2>2, <2>4 DEF FillNewer
    <3>3. ASSUME NEW i \in FillLeft(c), NEW j \in 1..i
          PROVE  j \in FillLeft(c) \/ stamp'[pushed[j]] <= Through(c) \/ j <= Taken(c) \/ j <= evicted
      <4>1. j \in 1..Len(pushed)
        BY <2>4, <3>3
      <4> QED
        BY <2>1, <2>2, <3>3, <4>1 DEF FillNewer
    <3> QED
      BY <1>3, <2>3, <2>5, <3>1, <3>2, <3>3 DEF FillNewer
  <2>11. Kept(c)'
    <3>1. \A j \in (evicted + 1)..Len(pushed) : stamp'[pushed[j]] = stamp[pushed[j]]
      BY <1>1, <2>2, PushedInOrder
    <3> QED
      BY <1>3, <2>1, <2>5, <3>1 DEF Kept, Excused
  <2> QED
    BY <2>9, <2>10, <2>11
<1> QED
  BY <1>7, <1>8 DEF OneInv

LEMMA BufferOne ==
  ASSUME IInv, OneInv, OneProducer, NEW p \in Producers, Buffer(p)
  PROVE  OneInv'
<1> DEFINE e == ingesting[p].event
<1>1. /\ TypeOK /\ HubInv /\ \A c \in Consumers : ConsumerInv(c)
      /\ InOrder /\ \A c \in Consumers : InStep(c) /\ FillNewer(c) /\ Kept(c)
  BY DEF IInv, OneInv
<1>2. /\ ingesting[p].at = "stamped"
      /\ seq' = seq /\ stamp' = stamp /\ sent' = sent
      /\ task' = task /\ since' = since /\ fill' = fill /\ pos' = pos
      /\ lastSent' = lastSent /\ wire' = wire /\ lastSeq' = lastSeq /\ got' = got
      /\ bridgeLast' = bridgeLast /\ shown' = shown /\ slipped' = slipped
  BY DEF Buffer, taskVars, subVars
<1>3. /\ e = Len(stamp) /\ e \in Nat /\ e \in Events \ Range(pushed)
      /\ \A q \in Producers : q = p
  BY <1>1, <1>2 DEF InOrder, HubInv, TypeOK, Step, OneProducer
<1>4. /\ Len(pushed) \in Nat /\ Len(sent) \in Nat /\ seq \in Nat /\ evicted \in Nat
      /\ evicted <= Len(pushed) /\ Len(sent) = Len(pushed)
  <2>1. Len(sent) = Len(pushed)
    BY <1>2, <1>3, <1>1 DEF InOrder
  <2> QED
    BY <1>1, <2>1, PushedInOrder DEF TypeOK
<1>5. /\ Len(pushed') = Len(pushed) + 1
      /\ \A i \in 1..Len(pushed) : pushed'[i] = pushed[i]
      /\ pushed'[Len(pushed) + 1] = e
  <2>1. pushed' = Append(pushed, e) /\ pushed \in Seq(Nat)
    BY <1>1 DEF Buffer, TypeOK
  <2> QED
    BY <1>3, <2>1, AppendProperties
<1>6. ingesting'[p] = [at |-> "buffered", event |-> e]
  BY <1>1 DEF Buffer, TypeOK, Step
<1>7. /\ evicted' \in Nat /\ evicted <= evicted'
      /\ evicted' = 0 \/ evicted' <= Len(pushed') - BufferCap
  <2>1. /\ evicted' = Larger(evicted, Len(pushed) + 1 - BufferCap)
        /\ BufferCap \in Nat
    BY StreamAssumption DEF Buffer, EvictedAfterPush, StreamAssumption
  <2>2. evicted = 0 \/ evicted <= Len(pushed) - BufferCap
    BY <1>1 DEF InOrder
  <2> QED
    BY <1>4, <1>5, <2>1, <2>2 DEF Larger
<1> HIDE DEF e
<1>8. \A i \in 1..Len(pushed) : pushed[i] \in Nat /\ pushed[i] < e
  <2>1. ASSUME NEW i \in 1..Len(pushed) PROVE pushed[i] \in Nat /\ pushed[i] < e
    <3>1. pushed[i] \in 1..Len(stamp) /\ pushed[i] # e
      BY <1>1, <1>3, PushedFacts DEF Events
    <3> QED
      BY <1>3, <3>1
  <2> QED
    BY <2>1
<1>9. InOrder'
  <2>1. /\ \A x \in Events' : 1 <= stamp'[x] /\ stamp'[x] <= seq'
        /\ \A x, y \in Events' : x < y => stamp'[x] < stamp'[y]
    BY <1>1, <1>2 DEF InOrder, Events
  <2>2. ASSUME NEW i \in 1..Len(pushed'), NEW j \in 1..Len(pushed'), i < j
        PROVE  pushed'[i] < pushed'[j]
    <3>1. i \in 1..Len(pushed) /\ pushed'[i] = pushed[i]
      BY <1>4, <1>5, <2>2
    <3>2. CASE j \in 1..Len(pushed)
      BY <1>1, <1>5, <2>2, <3>1, <3>2 DEF InOrder
    <3>3. CASE j = Len(pushed) + 1
      BY <1>5, <1>8, <3>1, <3>3
    <3> QED
      BY <1>4, <1>5, <2>2, <3>2, <3>3
  <2>3. \A q \in Producers : ingesting'[q] = [at |-> "buffered", event |-> e]
    BY <1>3, <1>6
  <2>4. Len(pushed') = Len(sent) + 1 /\ e = pushed'[Len(pushed')]
    BY <1>4, <1>5
  <2>5. \A i \in 1..Len(sent) : sent[i] = pushed'[i]
    BY <1>1, <1>4, <1>5 DEF InOrder
  <2> QED
    BY <1>2, <1>6, <1>7, <2>1, <2>2, <2>3, <2>4, <2>5 DEF InOrder
<1>10. ASSUME NEW c \in Consumers PROVE InStep(c)' /\ FillNewer(c)' /\ Kept(c)'
  <2>1. ConsumerInv(c) /\ InStep(c) /\ FillNewer(c) /\ Kept(c)
    BY <1>1
  <2>2. \A i \in 1..Len(pushed) : pushed'[i] = pushed[i] /\ stamp'[pushed[i]] = stamp[pushed[i]]
    BY <1>2, <1>5
  <2>3. FillLeft(c)' = FillLeft(c) /\ InFill(c)' = InFill(c)
    BY <1>1, <1>2, <2>1, <2>2, SameFill
  <2>4. FillLeft(c) \subseteq 1..Len(pushed)
    BY <1>1, <2>1, FillPositions
  <2>5. Through(c)' = Through(c) /\ Taken(c)' = Taken(c) /\ Has(c)' = Has(c)
    BY <1>2, <2>3 DEF Through, Taken, Has, Running
  <2>6. /\ lastSeq[c] \in Nat /\ since[c] \in Nat /\ lastSent[c] \in Nat /\ pos[c] \in Nat
        /\ Through(c) \in Nat /\ Taken(c) \in Nat
    BY <1>1, <1>4 DEF TypeOK, Through, Taken
  <2>7. Taken(c) <= Len(pushed)
    BY <1>4, <2>1 DEF Taken, InStep, Running
  <2>8. Through(c) < stamp[e]
    BY <1>2, <1>3, <2>1 DEF Through, InStep, GivenOut
  <2>9. InStep(c)'
    <3>1. \A q \in Producers : ingesting'[q].at # "stamped"
      BY <1>3, <1>6
    <3>2. GivenOut(lastSeq[c])' /\ GivenOut(since[c])' /\ GivenOut(lastSent[c])'
      BY <1>2, <2>1, <3>1 DEF InStep, GivenOut
    <3> QED
      BY <1>2, <2>1, <3>2 DEF InStep, Rising
  <2>10. FillNewer(c)'
    <3>1. task[c] \notin {"snapshot", "live"} => FillLeft(c) = {}
      BY <2>1 DEF FillNewer
    <3>2. \A i \in FillLeft(c) : Through(c) < stamp[pushed'[i]]
      BY <2>1, <2>2, <2>4 DEF FillNewer
    <3>3. ASSUME NEW i \in FillLeft(c), NEW j \in 1..i
          PROVE  j \in FillLeft(c) \/ stamp[pushed'[j]] <= Through(c) \/ j <= Taken(c) \/ j <= evicted'
      <4>1. j \in 1..Len(pushed) /\ j \in Nat
        BY <1>4, <2>4, <3>3
      <4>2. j \in FillLeft(c) \/ stamp[pushed'[j]] <= Through(c) \/ j <= Taken(c) \/ j <= evicted
        BY <2>1, <2>2, <3>3, <4>1 DEF FillNewer
      <4> QED
        BY <1>4, <1>7, <4>1, <4>2
    <3> QED
      BY <1>2, <2>3, <2>5, <3>1, <3>2, <3>3 DEF FillNewer
  <2>11. Kept(c)'
    <3>0. (evicted' + 1)..Len(pushed') \subseteq (evicted + 1)..(Len(pushed) + 1)
      BY <1>4, <1>5, <1>7
    <3>1. ASSUME NEW j \in (evicted' + 1)..Len(pushed'),
                 stamp[pushed'[j]] <= Through(c) \/ (task[c] \in {"snapshot", "live"} /\ j <= Taken(c))
          PROVE  pushed'[j] \in Has(c) \/ (j <= Taken(c) /\ Excused(c, pushed'[j]))
      <4>1. CASE j \in (evicted + 1)..Len(pushed)
        <5>1. pushed'[j] = pushed[j]
          BY <1>4, <1>5, <4>1
        <5>2. stamp[pushed[j]] <= Through(c) \/ (task[c] \in {"snapshot", "live"} /\ j <= Taken(c)) =>
                pushed[j] \in Has(c) \/ (j <= Taken(c) /\ Excused(c, pushed[j]))
          BY <2>1, <4>1 DEF Kept
        <5>3. Excused(c, pushed[j]) => Excused(c, pushed'[j])
          BY <5>1 DEF Excused
        <5> QED
          BY <3>1, <5>1, <5>2, <5>3
      <4>2. CASE j = Len(pushed) + 1
        <5>1. pushed'[j] = e
          BY <1>5, <4>2
        <5>2. stamp[e] \in Nat
          BY <1>1, <1>3, PushedInOrder
        <5>3. ~(stamp[e] <= Through(c)) /\ ~(j <= Taken(c))
          BY <1>4, <2>6, <2>7, <2>8, <4>2, <5>2
        <5> QED
          BY <3>1, <5>1, <5>3
      <4>3. j \in (evicted + 1)..Len(pushed) \/ j = Len(pushed) + 1
        BY <1>4, <3>0, <3>1
      <4> QED
        BY <4>1, <4>2, <4>3
    <3>2. \A x : Excused(c, x)' <=> Excused(c, x)
      BY <1>2, <2>5 DEF Excused
    <3> QED
      BY <1>2, <2>5, <3>1, <3>2 DEF Kept
  <2> QED
    BY <2>9, <2>10, <2>11
<1> QED
  BY <1>9, <1>10 DEF OneInv

LEMMA SendOne ==
  ASSUME IInv, OneInv, OneProducer, NEW p \in Producers, Send(p)
  PROVE  OneInv'
<1> DEFINE e == ingesting[p].event
<1>1. /\ TypeOK /\ HubInv /\ \A c \in Consumers : ConsumerInv(c)
      /\ InOrder /\ \A c \in Consumers : InStep(c) /\ FillNewer(c) /\ Kept(c)
  BY DEF IInv, OneInv
<1>2. /\ ingesting[p].at = "buffered"
      /\ seq' = seq /\ stamp' = stamp /\ pushed' = pushed /\ evicted' = evicted
      /\ task' = task /\ since' = since /\ fill' = fill /\ pos' = pos
      /\ lastSent' = lastSent /\ wire' = wire /\ lastSeq' = lastSeq /\ got' = got
      /\ bridgeLast' = bridgeLast /\ shown' = shown
  BY DEF Send, taskVars, subVars
<1>3. /\ Len(pushed) = Len(sent) + 1 /\ e = pushed[Len(pushed)] /\ e \in Nat
      /\ \A q \in Producers : q = p
  BY <1>1, <1>2 DEF InOrder, TypeOK, Step, OneProducer
<1>4. Len(pushed) \in Nat /\ Len(sent) \in Nat /\ evicted \in Nat
  BY <1>1, PushedInOrder
<1>5. /\ Len(sent') = Len(sent) + 1
      /\ \A i \in 1..Len(sent) : sent'[i] = sent[i]
      /\ sent'[Len(sent) + 1] = e
  <2>1. sent' = Append(sent, e) /\ sent \in Seq(Nat)
    BY <1>1 DEF Send, TypeOK
  <2> QED
    BY <1>3, <2>1, AppendProperties
<1>6. ingesting'[p] = Idle
  BY <1>1 DEF Send, TypeOK
<1>7. InOrder'
  <2>1. /\ \A x \in Events' : 1 <= stamp'[x] /\ stamp'[x] <= seq'
        /\ \A x, y \in Events' : x < y => stamp'[x] < stamp'[y]
        /\ \A i, j \in 1..Len(pushed) : i < j => pushed[i] < pushed[j]
        /\ evicted = 0 \/ evicted <= Len(pushed) - BufferCap
    BY <1>1, <1>2 DEF InOrder, Events
  <2>2. \A q \in Producers : ingesting'[q].at = "idle"
    BY <1>3, <1>6 DEF Idle
  <2>3. ASSUME NEW i \in 1..Len(sent') PROVE sent'[i] = pushed[i]
    <3>1. CASE i \in 1..Len(sent)
      BY <1>1, <1>5, <3>1 DEF InOrder
    <3>2. CASE i = Len(sent) + 1
      BY <1>3, <1>5, <3>2
    <3> QED
      BY <1>4, <1>5, <2>3, <3>1, <3>2
  <2> QED
    BY <1>2, <1>3, <1>5, <2>1, <2>2, <2>3 DEF InOrder
<1>8. ASSUME NEW c \in Consumers PROVE InStep(c)' /\ FillNewer(c)' /\ Kept(c)'
  <2>1. ConsumerInv(c) /\ InStep(c) /\ FillNewer(c) /\ Kept(c)
    BY <1>1
  <2>2. /\ FillLeft(c)' = FillLeft(c) /\ InFill(c)' = InFill(c)
        /\ Through(c)' = Through(c) /\ Has(c)' = Has(c) /\ Running(c)' = Running(c)
    BY <1>2 DEF FillLeft, InFill, Through, Has, Running
  <2>3. /\ Taken(c)' = IF Running(c) THEN Taken(c) ELSE Len(pushed)
        /\ Taken(c) \in Nat /\ Taken(c)' \in Nat /\ Taken(c) <= Taken(c)'
        /\ ~Running(c) => Taken(c) = Len(sent)
    <3>1. task'[c] = task[c] /\ pos'[c] = pos[c] /\ pos[c] \in Nat
      BY <1>1, <1>2 DEF TypeOK
    <3>2. Len(sent') = Len(pushed) /\ Len(sent) \in Nat /\ Len(sent) <= Len(sent')
      BY <1>3, <1>4, <1>5
    <3> QED
      BY <1>3, <3>1, <3>2 DEF Taken, Running
  <2>4. slipped'[c] = IF task[c] = "snapshot" /\ e \notin InFill(c) THEN slipped[c] \cup {e} ELSE slipped[c]
    BY DEF Send
  <2>5. InStep(c)'
    <3>1. GivenOut(lastSeq[c])' /\ GivenOut(since[c])' /\ GivenOut(lastSent[c])'
      <4>1. \A q \in Producers : ingesting'[q].at # "stamped"
        BY <1>3, <1>6 DEF Idle
      <4> QED
        BY <1>2, <2>1, <4>1 DEF InStep, GivenOut
    <3>2. pos[c] \in Nat /\ (task[c] \in {"live", "lagged"} => pos[c] <= Len(sent'))
      BY <1>1, <1>4, <1>5, <2>1 DEF TypeOK, InStep
    <3> QED
      BY <1>2, <2>1, <3>1, <3>2 DEF InStep, Rising
  <2>6. FillNewer(c)'
    <3>1. FillLeft(c) \subseteq 1..Len(pushed)
      BY <1>1, <2>1, FillPositions
    <3>2. ASSUME NEW i \in FillLeft(c), NEW j \in 1..i
          PROVE  \/ j \in FillLeft(c) \/ stamp[pushed[j]] <= Through(c)
                 \/ j <= Taken(c)' \/ j <= evicted
      <4>1. \/ j \in FillLeft(c) \/ stamp[pushed[j]] <= Through(c)
            \/ j <= Taken(c) \/ j <= evicted
        BY <2>1, <3>2 DEF FillNewer
      <4>2. j \in Nat
        BY <1>4, <3>1, <3>2
      <4> QED
        BY <2>3, <4>1, <4>2
    <3> QED
      BY <1>2, <2>1, <2>2, <3>2 DEF FillNewer
  <2>7. Kept(c)'
    <3>1. ASSUME NEW j \in (evicted + 1)..Len(pushed),
                 \/ stamp[pushed[j]] <= Through(c)
                 \/ task[c] \in {"snapshot", "live"} /\ j <= Taken(c)'
          PROVE  pushed[j] \in Has(c) \/ (j <= Taken(c)' /\ Excused(c, pushed[j])')
      <4>1. j \in Nat /\ j <= Len(pushed)
        BY <1>4, <3>1
      <4>2. CASE \/ stamp[pushed[j]] <= Through(c)
                 \/ task[c] \in {"snapshot", "live"} /\ j <= Taken(c)
        <5>1. pushed[j] \in Has(c) \/ (j <= Taken(c) /\ Excused(c, pushed[j]))
          BY <2>1, <3>1, <4>2 DEF Kept
        <5>2. Excused(c, pushed[j]) => Excused(c, pushed[j])'
          BY <1>2, <2>2, <2>4 DEF Excused
        <5> QED
          BY <2>3, <4>1, <5>1, <5>2
      <4>3. CASE task[c] = "snapshot" /\ j = Len(pushed)
        <5>1. pushed[j] = e
          BY <1>3, <4>3
        <5>2. e \in Has(c) \/ e \in slipped'[c]
          BY <2>4, <4>3 DEF Has
        <5>3. e \in slipped'[c] => Excused(c, pushed[j])'
          BY <1>2, <5>1 DEF Excused
        <5>4. j <= Taken(c)'
          BY <2>3, <4>1, <4>3 DEF Running
        <5> QED
          BY <5>1, <5>2, <5>3, <5>4
      <4>4. task[c] = "snapshot" => ~Running(c)
        BY DEF Running
      <4>5. task[c] = "live" => Running(c)
        BY DEF Running
      <4>6. \/ stamp[pushed[j]] <= Through(c)
            \/ task[c] \in {"snapshot", "live"} /\ j <= Taken(c)
            \/ task[c] = "snapshot" /\ j = Len(pushed)
        BY <1>3, <1>4, <2>3, <3>1, <4>1, <4>4, <4>5
      <4> QED
        BY <4>2, <4>3, <4>6
    <3> QED
      BY <1>2, <2>2, <3>1 DEF Kept
  <2> QED
    BY <2>5, <2>6, <2>7
<1> QED
  BY <1>7, <1>8 DEF OneInv

LEMMA RestartOne ==
  ASSUME IInv, OneInv, ClockSkew = 0, Restart
  PROVE  OneInv'
<1>1. /\ TypeOK /\ HubInv /\ \A c \in Consumers : ConsumerInv(c)
      /\ InOrder /\ \A c \in Consumers : InStep(c)
  BY DEF IInv, OneInv
<1>2. Len(<<>>) = 0 /\ Range(<<>>) = {}
  BY EmptySeq, RangeEmpty
<1>3. seq \in Nat /\ seq' \in Nat /\ seq <= seq'
  BY <1>1, StreamAssumption DEF Restart, Seeds, TypeOK, StreamAssumption
<1>4. /\ pushed' = <<>> /\ evicted' = 0 /\ sent' = <<>>
      /\ ingesting' = [p \in Producers |-> Idle]
      /\ task' = [c \in Consumers |-> "none"]
      /\ fill' = [c \in Consumers |-> NoFill]
      /\ wire' = [c \in Consumers |-> <<>>]
      /\ stamp' = stamp /\ since' = since /\ lastSent' = lastSent
      /\ lastSeq' = lastSeq /\ got' = got /\ bridgeLast' = bridgeLast /\ shown' = shown
  BY DEF Restart, subVars
<1>5. InOrder'
  <2>1. \A e \in Events : 1 <= stamp[e] /\ stamp[e] <= seq'
    <3>1. ASSUME NEW e \in Events PROVE 1 <= stamp[e] /\ stamp[e] <= seq'
      <4>1. stamp[e] \in Nat /\ 1 <= stamp[e] /\ stamp[e] <= seq
        BY <1>1, PushedInOrder DEF InOrder
      <4> QED
        BY <1>3, <4>1
    <3> QED
      BY <3>1
  <2>2. \A d, e \in Events : d < e => stamp[d] < stamp[e]
    BY <1>1 DEF InOrder
  <2> QED
    BY <1>2, <1>4, <2>1, <2>2 DEF InOrder, Idle, Events
<1>6. ASSUME NEW c \in Consumers PROVE InStep(c)' /\ FillNewer(c)' /\ Kept(c)'
  <2>1. /\ lastSeq[c] \in Nat /\ lastSeq[c] <= seq' /\ since[c] \in Nat /\ since[c] <= seq'
        /\ lastSent[c] \in Nat /\ lastSent[c] <= seq'
    <3>1. /\ lastSeq[c] \in Nat /\ lastSeq[c] <= seq /\ since[c] \in Nat /\ since[c] <= seq
          /\ lastSent[c] \in Nat /\ lastSent[c] <= seq
      BY <1>1 DEF TypeOK, InStep, GivenOut
    <3> QED
      BY <1>3, <3>1
  <2>2. InStep(c)'
    <3>1. GivenOut(lastSeq[c])' /\ GivenOut(since[c])' /\ GivenOut(lastSent[c])'
      BY <1>4, <2>1 DEF GivenOut, Idle
    <3> QED
      BY <1>1, <1>2, <1>4, <3>1 DEF InStep, Rising
  <2>3. FillLeft(c)' = {}
    BY <1>4 DEF FillLeft, NoFill
  <2>4. FillNewer(c)'
    BY <2>3 DEF FillNewer
  <2>5. Kept(c)'
    BY <1>2, <1>4 DEF Kept
  <2> QED
    BY <2>2, <2>4, <2>5
<1> QED
  BY <1>5, <1>6 DEF OneInv

-----------------------------------------------------------------------------
(* .. by a consumer's task and its subscriber.                             *)

\* A reset by Ready never happens: the resume point has been given out.
LEMMA ConnectOne ==
  ASSUME IInv, OneInv, NEW c \in Consumers, Connect(c)
  PROVE  OneInv'
<1>1. /\ TypeOK /\ HubInv /\ ConsumerInv(c)
      /\ InOrder /\ \A d \in Consumers : InStep(d) /\ FillNewer(d) /\ Kept(d)
  BY DEF IInv, OneInv
<1>2. /\ UNCHANGED hubVars /\ task[c] = "none"
      /\ fill' = fill /\ pos' = pos /\ lastSent' = lastSent /\ wire' = wire
      /\ got' = got /\ bridgeLast' = bridgeLast /\ shown' = shown /\ slipped' = slipped
  BY DEF Connect
<1>3. lastSeq[c] \in Nat /\ seq \in Nat /\ ~(seq < lastSeq[c])
  <2>1. lastSeq[c] \in Nat /\ seq \in Nat /\ lastSeq[c] <= seq
    BY <1>1 DEF TypeOK, InStep, GivenOut
  <2> QED
    BY <2>1
<1>4. /\ task'[c] = "admitted" /\ since'[c] = lastSeq[c] /\ lastSeq'[c] = lastSeq[c]
      /\ \A d \in Consumers \ {c} :
           task'[d] = task[d] /\ since'[d] = since[d] /\ lastSeq'[d] = lastSeq[d]
  BY <1>1, <1>3 DEF Connect, TypeOK
<1>5. InOrder'
  BY <1>1, <1>2, SameOrderOfHub
<1>6. ASSUME NEW d \in Consumers, d # c PROVE InStep(d)' /\ FillNewer(d)' /\ Kept(d)'
  BY <1>1, <1>2, <1>4, <1>6, OtherKept
<1>7. InStep(c)' /\ FillNewer(c)' /\ Kept(c)'
  <2>1. InStep(c) /\ FillNewer(c) /\ Kept(c)
    BY <1>1
  <2>2. /\ seq' = seq /\ stamp' = stamp /\ pushed' = pushed /\ evicted' = evicted
        /\ sent' = sent /\ ingesting' = ingesting
    BY <1>2 DEF hubVars
  <2>3. FillLeft(c)' = FillLeft(c) /\ InFill(c)' = InFill(c) /\ Has(c)' = Has(c)
    BY <1>2, <2>2 DEF FillLeft, InFill, Has
  <2>4. Through(c)' = Through(c) /\ Taken(c)' = Taken(c)
    BY <1>2, <1>4, <2>2 DEF Through, Taken, Running
  <2>5. InStep(c)'
    BY <1>2, <1>4, <2>1, <2>2 DEF InStep, GivenOut
  <2>6. FillNewer(c)'
    BY <1>2, <1>4, <2>1, <2>2, <2>3, <2>4 DEF FillNewer
  <2>7. Kept(c)'
    BY <1>2, <1>4, <2>1, <2>2, <2>3, <2>4 DEF Kept, Excused
  <2> QED
    BY <2>5, <2>6, <2>7
<1> QED
  BY <1>5, <1>6, <1>7 DEF OneInv

LEMMA SnapshotOne ==
  ASSUME IInv, OneInv, NEW c \in Consumers, Snapshot(c)
  PROVE  OneInv'
<1> DEFINE f == IF since[c] > 0 THEN ReplaySince(since[c]) ELSE ReplayLast(Replay)
<1>1. /\ TypeOK /\ HubInv /\ ConsumerInv(c)
      /\ InOrder /\ \A d \in Consumers : InStep(d) /\ FillNewer(d) /\ Kept(d)
  BY DEF IInv, OneInv
<1>2. /\ UNCHANGED hubVars /\ task[c] = "admitted"
      /\ since' = since /\ pos' = pos /\ lastSent' = lastSent /\ wire' = wire
      /\ lastSeq' = lastSeq /\ got' = got /\ bridgeLast' = bridgeLast /\ shown' = shown
      /\ slipped' = slipped
  BY DEF Snapshot, subVars
<1>3. /\ task'[c] = "snapshot" /\ fill'[c] = f
      /\ \A d \in Consumers \ {c} : task'[d] = task[d] /\ fill'[d] = fill[d]
  <2> HIDE DEF f
  <2>1. fill' = [fill EXCEPT ![c] = f] /\ task' = [task EXCEPT ![c] = "snapshot"]
    BY DEF Snapshot, f
  <2> QED
    BY <1>1, <2>1 DEF TypeOK
<1>4. InOrder'
  BY <1>1, <1>2, SameOrderOfHub
<1>5. ASSUME NEW d \in Consumers, d # c PROVE InStep(d)' /\ FillNewer(d)' /\ Kept(d)'
  BY <1>1, <1>2, <1>3, <1>5, OtherKept
<1>6. /\ seq' = seq /\ stamp' = stamp /\ pushed' = pushed /\ evicted' = evicted
      /\ sent' = sent /\ ingesting' = ingesting
  BY <1>2 DEF hubVars
<1>7. InStep(c) /\ FillNewer(c) /\ Kept(c)
  BY <1>1
<1>8. /\ Len(pushed) \in Nat /\ Len(sent) \in Nat /\ evicted \in Nat /\ Replay \in Nat
      /\ Len(sent) <= Len(pushed) /\ Len(pushed) <= Len(sent) + 1
      /\ since[c] \in Nat /\ since[c] = lastSeq[c]
  BY <1>1, <1>2, <1>7, PushedInOrder, StreamAssumption DEF TypeOK, InStep, StreamAssumption
<1>9. /\ f.to = Len(pushed) /\ f.after = since[c]
      /\ f.from = IF since[c] > 0 THEN evicted + 1 ELSE Larger(evicted, Len(pushed) - Replay) + 1
  BY <1>8 DEF ReplaySince, ReplayLast
<1> HIDE DEF f
<1>10. FillLeft(c)' = {i \in f.from..f.to : stamp[pushed[i]] > f.after}
  BY <1>3, <1>6 DEF FillLeft
<1>11. /\ f.from \in Nat /\ evicted + 1 <= f.from
       /\ \A j \in 1..(f.from - 1) : j <= evicted \/ (since[c] = 0 /\ j <= Len(pushed) - Replay)
  BY <1>8, <1>9 DEF Larger
<1>12. /\ ~Running(c) /\ ~Running(c)'
       /\ Through(c) = since[c] /\ Through(c)' = since[c]
       /\ Taken(c) = Len(sent) /\ Taken(c)' = Len(sent)
  BY <1>2, <1>3, <1>6, <1>8 DEF Through, Taken, Running
<1>13. FillLeft(c) = {} /\ InFill(c) = {}
  BY <1>2, <1>7 DEF FillNewer, InFill
<1>14. Has(c) = Range(got[c]) /\ Has(c)' = Range(got[c]) \cup InFill(c)'
  <2>1. Range(wire[c]) = {}
    BY <1>1, <1>2, RangeEmpty DEF ConsumerInv
  <2> QED
    BY <1>2, <1>13, <2>1 DEF Has
<1>15. \A i \in 1..Len(pushed) : pushed[i] \in Events /\ stamp[pushed[i]] \in Nat /\ 1 <= stamp[pushed[i]]
  BY <1>1, PushedInOrder
<1>16. FillLeft(c)' \subseteq 1..Len(pushed)
  BY <1>8, <1>9, <1>10, <1>11
<1>17. \A i \in FillLeft(c)' : pushed[i] \in Has(c)'
  BY <1>6, <1>14 DEF InFill
<1>18. InStep(c)'
  BY <1>2, <1>3, <1>6, <1>7 DEF InStep, GivenOut
<1>19. FillNewer(c)'
  <2>1. \A i \in FillLeft(c)' : since[c] < stamp[pushed[i]]
    BY <1>8, <1>9, <1>10, <1>15, <1>16
  <2>2. ASSUME NEW i \in FillLeft(c)', NEW j \in 1..i
        PROVE  j \in FillLeft(c)' \/ stamp[pushed[j]] <= since[c] \/ j <= Len(sent) \/ j <= evicted
    <3>1. i \in Nat /\ j \in 1..Len(pushed) /\ f.from <= i /\ i <= Len(pushed) /\ j <= i
      BY <1>8, <1>9, <1>10, <1>11, <1>16, <2>2
    <3>2. CASE j < f.from
      <4>1. j <= evicted \/ j <= Len(pushed) - Replay
        BY <1>11, <3>1, <3>2
      <4>2. CASE Replay = 0 /\ since[c] = 0
        <5>1. f.from >= Len(pushed) + 1
          BY <1>8, <1>9, <4>2 DEF Larger
        <5> QED
          BY <1>8, <1>11, <3>1, <5>1
      <4>3. CASE ~(Replay = 0 /\ since[c] = 0)
        BY <1>8, <1>11, <3>1, <3>2, <4>3
      <4> QED
        BY <4>2, <4>3
    <3>3. CASE ~(j < f.from)
      <4>1. j \in f.from..f.to
        BY <1>8, <1>9, <1>11, <3>1, <3>3
      <4>2. stamp[pushed[j]] \in Nat
        BY <1>15, <3>1
      <4> QED
        BY <1>8, <1>9, <1>10, <4>1, <4>2
    <3> QED
      BY <3>2, <3>3
  <2> QED
    BY <1>3, <1>6, <1>12, <2>1, <2>2 DEF FillNewer
<1>20. Kept(c)'
  <2>1. ASSUME NEW j \in (evicted + 1)..Len(pushed), stamp[pushed[j]] <= since[c] \/ j <= Len(sent)
        PROVE  pushed[j] \in Has(c)' \/ (j <= Len(sent) /\ Excused(c, pushed[j])')
    <3>1. j \in 1..Len(pushed) /\ pushed[j] \in Events /\ stamp[pushed[j]] \in Nat /\ 1 <= stamp[pushed[j]]
      BY <1>8, <1>15, <2>1
    <3>2. CASE j \in FillLeft(c)'
      BY <1>17, <3>2
    <3>3. CASE j \notin FillLeft(c)' /\ stamp[pushed[j]] <= since[c]
      <4>1. pushed[j] \in Has(c) \/ (j <= Len(sent) /\ Excused(c, pushed[j]))
        BY <1>7, <1>12, <2>1, <3>3 DEF Kept
      <4>2. ASSUME NEW a \in InFill(c)' PROVE ~(a < pushed[j])
        <5>1. PICK i \in FillLeft(c)' : a = pushed[i]
          BY <1>6, <4>2 DEF InFill
        <5>2. a \in Events /\ stamp[a] \in Nat /\ stamp[a] > since[c]
          BY <1>9, <1>10, <1>15, <1>16, <5>1
        <5>3. ~(stamp[a] < stamp[pushed[j]])
          BY <1>8, <3>1, <3>3, <5>2
        <5> QED
          BY <1>1, <3>1, <5>2, <5>3, SameOrder
      <4>3. Excused(c, pushed[j]) => Excused(c, pushed[j])'
        BY <1>2, <1>6, <1>14, <4>2 DEF Excused
      <4> QED
        BY <1>14, <4>1, <4>3
    <3>4. CASE j \notin FillLeft(c)' /\ ~(stamp[pushed[j]] <= since[c])
      <4>1. stamp[pushed[j]] > since[c] /\ j \in Nat /\ j >= evicted + 1 /\ j <= Len(pushed)
        BY <1>8, <2>1, <3>1, <3>4
      <4>2. ~(j \in f.from..f.to)
        BY <1>9, <1>10, <3>4, <4>1
      <4>3. j < f.from
        BY <1>8, <1>9, <1>11, <4>1, <4>2
      <4>4. since[c] = 0
        BY <1>8, <1>9, <1>11, <4>1, <4>3
      <4>5. Range(got[c]) = {}
        <5>1. ASSUME NEW a \in Range(got[c]) PROVE FALSE
          <6>1. stamp[a] <= 0 /\ a \in Events
            BY <1>1, <1>7, <1>8, <4>4, <5>1 DEF InStep, ConsumerInv
          <6>2. stamp[a] \in Nat /\ 1 <= stamp[a]
            BY <1>1, <6>1, PushedInOrder
          <6> QED
            BY <6>1, <6>2
        <5> QED
          BY <5>1
      <4>6. ASSUME NEW a \in Has(c)' PROVE ~(a < pushed[j])
        <5>1. PICK i \in FillLeft(c)' : a = pushed[i]
          BY <1>6, <1>14, <4>5, <4>6 DEF InFill
        <5>2. i \in 1..Len(pushed) /\ j < i
          BY <1>8, <1>9, <1>10, <1>11, <1>16, <4>1, <4>3, <5>1
        <5>3. pushed[j] < pushed[i] /\ pushed[i] \in Nat /\ pushed[j] \in Nat
          BY <1>1, <3>1, <5>2, PushedInOrder
        <5> QED
          BY <5>1, <5>3
      <4>7. j <= Len(sent)
        BY <2>1, <3>4
      <4> QED
        BY <1>6, <4>6, <4>7 DEF Excused
    <3> QED
      BY <3>2, <3>3, <3>4
  <2> QED
    BY <1>3, <1>6, <1>12, <2>1 DEF Kept
<1> QED
  BY <1>4, <1>5, <1>18, <1>19, <1>20 DEF OneInv

LEMMA SubscribeOne ==
  ASSUME IInv, OneInv, NEW c \in Consumers, Subscribe(c)
  PROVE  OneInv'
<1>1. /\ TypeOK /\ HubInv /\ ConsumerInv(c)
      /\ InOrder /\ \A d \in Consumers : InStep(d) /\ FillNewer(d) /\ Kept(d)
  BY DEF IInv, OneInv
<1>2. /\ UNCHANGED hubVars /\ task[c] = "snapshot"
      /\ since' = since /\ fill' = fill /\ wire' = wire
      /\ lastSeq' = lastSeq /\ got' = got /\ bridgeLast' = bridgeLast /\ shown' = shown
      /\ slipped' = slipped
  BY DEF Subscribe, subVars
<1>3. /\ task'[c] = "live" /\ lastSent'[c] = since[c] /\ pos'[c] = Len(sent)
      /\ \A d \in Consumers \ {c} :
           task'[d] = task[d] /\ lastSent'[d] = lastSent[d] /\ pos'[d] = pos[d]
  BY <1>1 DEF Subscribe, FirstLastSent, TypeOK
<1>4. InOrder'
  BY <1>1, <1>2, SameOrderOfHub
<1>5. ASSUME NEW d \in Consumers, d # c PROVE InStep(d)' /\ FillNewer(d)' /\ Kept(d)'
  BY <1>1, <1>2, <1>3, <1>5, OtherKept
<1>6. InStep(c)' /\ FillNewer(c)' /\ Kept(c)'
  <2>1. InStep(c) /\ FillNewer(c) /\ Kept(c)
    BY <1>1
  <2>2. /\ seq' = seq /\ stamp' = stamp /\ pushed' = pushed /\ evicted' = evicted
        /\ sent' = sent /\ ingesting' = ingesting
    BY <1>2 DEF hubVars
  <2>3. FillLeft(c)' = FillLeft(c) /\ InFill(c)' = InFill(c) /\ Has(c)' = Has(c)
    BY <1>2, <2>2 DEF FillLeft, InFill, Has
  <2>4. since[c] = lastSeq[c] /\ lastSeq[c] \in Nat /\ Len(sent) \in Nat
    BY <1>1, <1>2, <2>1, LenProperties DEF InStep, TypeOK
  <2>5. Through(c)' = Through(c) /\ Taken(c)' = Taken(c)
    BY <1>2, <1>3, <2>2, <2>4 DEF Through, Taken, Running
  <2>6. InStep(c)'
    BY <1>2, <1>3, <2>1, <2>2, <2>4 DEF InStep, GivenOut
  <2>7. FillNewer(c)'
    BY <1>2, <1>3, <2>1, <2>2, <2>3, <2>5 DEF FillNewer
  <2>8. Kept(c)'
    BY <1>2, <1>3, <2>1, <2>2, <2>3, <2>5 DEF Kept, Excused
  <2> QED
    BY <2>6, <2>7, <2>8
<1> QED
  BY <1>4, <1>5, <1>6 DEF OneInv

\* A task writes an event of the ring that is newer than what it wrote: what
\* the wire holds stays in order, beyond where the subscriber is.
LEMMA WriteInStep ==
  ASSUME TypeOK, HubInv, InOrder, NEW c \in Consumers, ConsumerInv(c), InStep(c), Running(c),
         NEW e \in Range(pushed), lastSent[c] < stamp[e],
         UNCHANGED hubVars, task' = task, since' = since, lastSeq' = lastSeq, got' = got,
         bridgeLast' = bridgeLast, shown' = shown,
         wire'[c] = Append(wire[c], e), lastSent'[c] = stamp[e],
         pos'[c] \in Nat, pos'[c] <= Len(sent)
  PROVE  InStep(c)' /\ Range(wire'[c]) = Range(wire[c]) \cup {e}
<1>1. /\ seq' = seq /\ stamp' = stamp /\ sent' = sent /\ ingesting' = ingesting
  BY DEF hubVars
<1>2. /\ lastSeq[c] \in Nat /\ lastSent[c] \in Nat /\ lastSeq[c] <= lastSent[c]
      /\ wire[c] \in Seq(Nat)
  BY DEF TypeOK, InStep, Running
<1>3. GivenOut(stamp[e]) /\ e \in Events /\ e \in Nat /\ stamp[e] \in Nat
  BY PushedIsGivenOut, PushedInOrder DEF Events
<1>4. \A y \in Range(wire[c]) : y < e
  <2>1. ASSUME NEW y \in Range(wire[c]) PROVE y < e
    <3>1. stamp[y] <= lastSent[c] /\ y \in Events
      BY <2>1 DEF ConsumerInv, HubInv, Running
    <3>2. stamp[y] \in Nat
      BY <3>1, PushedInOrder
    <3>3. stamp[y] < stamp[e]
      BY <1>2, <1>3, <3>1, <3>2
    <3> QED
      BY <1>3, <3>1, <3>3, SameOrder
  <2> QED
    BY <2>1
<1>5. Range(wire'[c]) = Range(wire[c]) \cup {e} /\ Rising(wire'[c])
  <2>1. wire[c] \in Seq(Nat) /\ e \in Nat /\ Rising(wire[c])
    BY <1>2, <1>3 DEF InStep
  <2>2. Rising(Append(wire[c], e))
    BY <1>4, <2>1, RisingAppend
  <2> QED
    BY <2>1, <2>2, RangeAppend
<1>6. lastSeq[c] < stamp[e]
  BY <1>2, <1>3
<1>7. GivenOut(lastSeq[c])' /\ GivenOut(since[c])' /\ GivenOut(lastSent[c])'
  BY <1>1, <1>3 DEF InStep, GivenOut
<1>8. \A y \in Range(wire'[c]) : lastSeq[c] < stamp[y]
  BY <1>5, <1>6 DEF InStep
<1>9. lastSeq[c] <= lastSent'[c]
  BY <1>2, <1>3, <1>6
<1>10. Rising(wire[c])'
  BY <1>5 DEF Rising
<1> QED
  BY <1>1, <1>5, <1>7, <1>8, <1>9, <1>10 DEF InStep, Running

LEMMA WriteFillOne ==
  ASSUME IInv, OneInv, NEW c \in Consumers, WriteFill(c)
  PROVE  OneInv'
<1>1. /\ TypeOK /\ HubInv /\ ConsumerInv(c)
      /\ InOrder /\ \A d \in Consumers : InStep(d) /\ FillNewer(d) /\ Kept(d)
  BY DEF IInv, OneInv
<1>2. /\ UNCHANGED hubVars /\ task[c] = "live"
      /\ task' = task /\ since' = since /\ pos' = pos
      /\ lastSeq' = lastSeq /\ got' = got /\ bridgeLast' = bridgeLast /\ shown' = shown
      /\ slipped' = slipped
  BY DEF WriteFill, subVars
<1>3. PICK i \in FillLeft(c) :
        /\ \A j \in FillLeft(c) : i <= j
        /\ fill' = [fill EXCEPT ![c].from = i + 1]
        /\ wire' = [wire EXCEPT ![c] = Append(@, pushed[i])]
        /\ lastSent' = [lastSent EXCEPT ![c] = Larger(@, stamp[pushed[i]])]
  BY DEF WriteFill
<1> DEFINE e == pushed[i]
<1>4. /\ seq' = seq /\ stamp' = stamp /\ pushed' = pushed /\ evicted' = evicted
      /\ sent' = sent /\ ingesting' = ingesting
  BY <1>2 DEF hubVars
<1>5. InStep(c) /\ FillNewer(c) /\ Kept(c)
  BY <1>1
<1>6. FillLeft(c) \subseteq 1..Len(pushed) /\ Len(pushed) \in Nat /\ evicted \in Nat /\ i \in Nat
  BY <1>1, <1>3, FillPositions, PushedInOrder
<1>7. e \in Range(pushed) /\ e \in Events /\ stamp[e] \in Nat /\ lastSent[c] \in Nat
  BY <1>1, <1>3, <1>6, PushedFacts DEF TypeOK
<1>8. Running(c) /\ Through(c) = lastSent[c] /\ Taken(c) = pos[c] /\ lastSent[c] < stamp[e]
  BY <1>2, <1>3, <1>5 DEF Running, Through, Taken, FillNewer
<1>9. /\ fill'[c] = [fill[c] EXCEPT !.from = i + 1]
      /\ wire'[c] = Append(wire[c], e)
      /\ lastSent'[c] = stamp[e]
      /\ \A d \in Consumers \ {c} :
           fill'[d] = fill[d] /\ wire'[d] = wire[d] /\ lastSent'[d] = lastSent[d]
  <2>1. Larger(lastSent[c], stamp[e]) = stamp[e]
    BY <1>7, <1>8 DEF Larger
  <2>2. /\ fill \in [Consumers -> Batch] /\ wire \in [Consumers -> Seq(Nat)]
        /\ lastSent \in [Consumers -> Nat]
    BY <1>1 DEF TypeOK
  <2>3. wire'[c] = Append(wire[c], e) /\ lastSent'[c] = stamp[e]
    BY <1>3, <2>1, <2>2
  <2>4. fill'[c] = [fill[c] EXCEPT !.from = i + 1]
    <3>1. fill' = [fill EXCEPT ![c] = [@ EXCEPT !.from = i + 1]]
      BY <1>3
    <3> QED
      BY <2>2, <3>1
  <2>5. \A d \in Consumers \ {c} :
          fill'[d] = fill[d] /\ wire'[d] = wire[d] /\ lastSent'[d] = lastSent[d]
    BY <1>3, <2>2
  <2> QED
    BY <2>3, <2>4, <2>5
<1>10. FillLeft(c)' = FillLeft(c) \ {i}
  <2>1. /\ fill[c].from \in Nat /\ fill[c].to \in Nat /\ i >= fill[c].from
        /\ i \in fill[c].from..fill[c].to
    <3>1. fill[c] \in Batch
      BY <1>1 DEF TypeOK
    <3>2. i \in fill[c].from..fill[c].to
      BY <1>3 DEF FillLeft
    <3> QED
      BY <3>1, <3>2 DEF Batch
  <2>2. fill'[c].from = i + 1 /\ fill'[c].to = fill[c].to /\ fill'[c].after = fill[c].after
    <3>1. fill[c] \in Batch
      BY <1>1 DEF TypeOK
    <3> QED
      BY <1>9, <3>1 DEF Batch
  <2>3. ASSUME NEW j PROVE j \in FillLeft(c)' <=> j \in FillLeft(c) /\ j # i
    <3>1. j \in FillLeft(c)' <=> j \in (i + 1)..fill[c].to /\ stamp[pushed[j]] > fill[c].after
      BY <1>4, <2>2 DEF FillLeft
    <3>2. j \in FillLeft(c) <=> j \in fill[c].from..fill[c].to /\ stamp[pushed[j]] > fill[c].after
      BY DEF FillLeft
    <3>3. j \in (i + 1)..fill[c].to => j \in fill[c].from..fill[c].to /\ j # i
      BY <1>6, <2>1
    <3>4. j \in FillLeft(c) /\ j # i => j \in (i + 1)..fill[c].to
      BY <1>3, <1>6, <2>1, <3>2
    <3> QED
      BY <3>1, <3>2, <3>3, <3>4
  <2> QED
    BY <2>3
<1>11. InOrder'
  BY <1>1, <1>2, SameOrderOfHub
<1>12. ASSUME NEW d \in Consumers, d # c PROVE InStep(d)' /\ FillNewer(d)' /\ Kept(d)'
  BY <1>1, <1>2, <1>9, <1>12, OtherKept
<1>13. InStep(c)' /\ Range(wire'[c]) = Range(wire[c]) \cup {e}
  <2>1. pos'[c] \in Nat /\ pos'[c] <= Len(sent)
    BY <1>1, <1>2, <1>5 DEF TypeOK, InStep
  <2> QED
    BY <1>1, <1>2, <1>5, <1>7, <1>8, <1>9, <2>1, WriteInStep
<1>14. Through(c)' = stamp[e] /\ Taken(c)' = pos[c]
  BY <1>2, <1>8, <1>9 DEF Through, Taken, Running
<1>15. Has(c)' = Has(c)
  <2>1. InFill(c) = InFill(c)' \cup {e}
    BY <1>3, <1>4, <1>10 DEF InFill
  <2> QED
    BY <1>2, <1>13, <2>1 DEF Has
<1> HIDE DEF e
<1>16. e = pushed[i]
  BY DEF e
<1>17. FillNewer(c)'
  <2>1. ASSUME NEW k \in FillLeft(c)' PROVE stamp[e] < stamp[pushed[k]]
    <3>1. k \in FillLeft(c) /\ k # i /\ i <= k /\ k \in 1..Len(pushed)
      BY <1>3, <1>6, <1>10, <2>1
    <3>2. i < k /\ i \in 1..Len(pushed)
      BY <1>3, <1>6, <3>1
    <3> QED
      BY <1>1, <1>16, <3>1, <3>2, PushedInOrder
  <2>2. ASSUME NEW k \in FillLeft(c)', NEW j \in 1..k
        PROVE  j \in FillLeft(c)' \/ stamp[pushed[j]] <= stamp[e] \/ j <= pos[c] \/ j <= evicted
    <3>1. k \in FillLeft(c) /\ j \in 1..Len(pushed)
      BY <1>6, <1>10, <2>2
    <3>2. j \in FillLeft(c) \/ stamp[pushed[j]] <= lastSent[c] \/ j <= pos[c] \/ j <= evicted
      BY <1>5, <1>8, <2>2, <3>1 DEF FillNewer
    <3>3. stamp[pushed[j]] \in Nat
      BY <1>1, <3>1, PushedFacts
    <3>4. stamp[pushed[j]] <= lastSent[c] => stamp[pushed[j]] <= stamp[e]
      BY <1>7, <1>8, <3>3
    <3>5. j = i => stamp[pushed[j]] <= stamp[e]
      BY <1>7, <1>16
    <3> QED
      BY <1>10, <3>2, <3>4, <3>5
  <2> QED
    BY <1>2, <1>4, <1>14, <2>1, <2>2 DEF FillNewer
<1>18. Kept(c)'
  <2>1. ASSUME NEW j \in (evicted + 1)..Len(pushed), stamp[pushed[j]] <= stamp[e] \/ j <= pos[c]
        PROVE  pushed[j] \in Has(c) \/ (j <= pos[c] /\ Excused(c, pushed[j]))
    <3>1. j \in 1..Len(pushed) /\ stamp[pushed[j]] \in Nat /\ pos[c] \in Nat /\ ~(j <= evicted)
      <4>1. j \in 1..Len(pushed) /\ ~(j <= evicted)
        BY <1>6, <2>1
      <4>2. stamp[pushed[j]] \in Nat
        BY <1>1, <4>1, PushedFacts
      <4> QED
        BY <1>1, <4>1, <4>2 DEF TypeOK
    <3>2. stamp[pushed[j]] <= lastSent[c] \/ j <= pos[c] =>
            pushed[j] \in Has(c) \/ (j <= pos[c] /\ Excused(c, pushed[j]))
      BY <1>2, <1>5, <1>8, <2>1 DEF Kept
    <3>3. CASE stamp[pushed[j]] <= stamp[e]
      <4>1. ~(i < j)
        <5>1. i < j => stamp[e] < stamp[pushed[j]]
          BY <1>1, <1>3, <1>6, <1>16, <3>1, PushedInOrder
        <5> QED
          BY <1>7, <3>1, <3>3, <5>1
      <4>2. j \in 1..i
        BY <1>6, <3>1, <4>1
      <4>3. j \in FillLeft(c) \/ stamp[pushed[j]] <= lastSent[c] \/ j <= pos[c] \/ j <= evicted
        BY <1>3, <1>5, <1>8, <4>2 DEF FillNewer
      <4>4. j \in FillLeft(c) => pushed[j] \in Has(c)
        BY DEF InFill, Has
      <4> QED
        BY <3>1, <3>2, <4>3, <4>4
    <3> QED
      BY <2>1, <3>2, <3>3
  <2>2. \A x : Excused(c, x)' <=> Excused(c, x)
    BY <1>2, <1>15 DEF Excused
  <2> QED
    BY <1>2, <1>4, <1>14, <1>15, <2>1, <2>2 DEF Kept
<1> QED
  BY <1>11, <1>12, <1>13, <1>17, <1>18 DEF OneInv

LEMMA ReceiveOne ==
  ASSUME IInv, OneInv, NEW c \in Consumers, Receive(c)
  PROVE  OneInv'
<1> DEFINE k == pos[c] + 1
           e == sent[k]
<1>1. /\ TypeOK /\ HubInv /\ ConsumerInv(c)
      /\ InOrder /\ \A d \in Consumers : InStep(d) /\ FillNewer(d) /\ Kept(d)
  BY DEF IInv, OneInv
<1>2. /\ UNCHANGED hubVars /\ task[c] = "live" /\ FillLeft(c) = {} /\ pos[c] < Len(sent)
      /\ task' = task /\ since' = since /\ fill' = fill
      /\ lastSeq' = lastSeq /\ got' = got /\ bridgeLast' = bridgeLast /\ shown' = shown
      /\ slipped' = slipped
  BY DEF Receive, subVars
<1>3. /\ pos'[c] = k /\ \A d \in Consumers \ {c} : pos'[d] = pos[d]
  <2>1. pos' = [pos EXCEPT ![c] = @ + 1] /\ pos \in [Consumers -> Nat]
    BY <1>1 DEF Receive, TypeOK
  <2> QED
    BY <2>1
<1>4. /\ seq' = seq /\ stamp' = stamp /\ pushed' = pushed /\ evicted' = evicted
      /\ sent' = sent /\ ingesting' = ingesting
  BY <1>2 DEF hubVars
<1>5. InStep(c) /\ FillNewer(c) /\ Kept(c)
  BY <1>1
<1>6. /\ Len(pushed) \in Nat /\ Len(sent) \in Nat /\ Len(sent) <= Len(pushed)
      /\ evicted \in Nat /\ pos[c] \in Nat /\ lastSent[c] \in Nat
  BY <1>1, PushedInOrder DEF TypeOK
<1>7. k \in 1..Len(pushed) /\ k \in 1..Len(sent) /\ k \in Nat /\ k <= Len(sent)
  BY <1>2, <1>6
<1> HIDE DEF k
<1>8. e = pushed[k]
  BY <1>1, <1>7 DEF InOrder
<1>9. e \in Range(pushed) /\ e \in Events /\ stamp[e] \in Nat /\ e \in Nat
  BY <1>1, <1>7, <1>8, PushedFacts DEF Events
<1>10. InOrder'
  BY <1>1, <1>2, SameOrderOfHub
<1>11. InFill(c) = {} /\ FillLeft(c)' = {} /\ InFill(c)' = {}
  BY <1>2, <1>4 DEF FillLeft, InFill
<1>12. FillNewer(c)'
  BY <1>11 DEF FillNewer
<1>13. /\ Running(c) /\ Running(c)' /\ Through(c) = lastSent[c] /\ Taken(c) = pos[c]
       /\ Through(c)' = lastSent'[c] /\ Taken(c)' = k
  BY <1>2, <1>3 DEF Running, Through, Taken
<1>14. ASSUME NEW j \in (evicted + 1)..Len(pushed), stamp[pushed[j]] <= lastSent[c] \/ j <= pos[c]
       PROVE  pushed[j] \in Has(c) \/ (j <= pos[c] /\ Excused(c, pushed[j]))
  BY <1>2, <1>5, <1>13, <1>14 DEF Kept
<1>15. \A j \in (evicted + 1)..Len(pushed) :
         /\ j \in 1..Len(pushed) /\ j \in Nat /\ stamp[pushed[j]] \in Nat
         /\ j <= pos[c] <=> j < k
         /\ j <= pos[c] => j <= k
         /\ j <= k => j <= pos[c] \/ j = k
  <2>1. \A j \in (evicted + 1)..Len(pushed) : j \in 1..Len(pushed) /\ j \in Nat
    BY <1>6
  <2>2. \A j \in 1..Len(pushed) : stamp[pushed[j]] \in Nat
    BY <1>1, PushedFacts
  <2>3. \A j \in Nat : /\ j <= pos[c] <=> j < k
                       /\ j <= pos[c] => j <= k
                       /\ j <= k => j <= pos[c] \/ j = k
    BY <1>6 DEF k
  <2> QED
    BY <2>1, <2>2, <2>3
<1>16. CASE stamp[e] <= lastSent[c]
  <2>1. wire' = wire /\ lastSent' = lastSent
    BY <1>16 DEF Receive, AlreadySent, k
  <2>2. ASSUME NEW d \in Consumers, d # c PROVE InStep(d)' /\ FillNewer(d)' /\ Kept(d)'
    BY <1>1, <1>2, <1>3, <2>1, <2>2, OtherKept
  <2>3. InStep(c)'
    BY <1>2, <1>3, <1>4, <1>5, <1>7, <2>1 DEF InStep, GivenOut
  <2>4. Has(c)' = Has(c)
    BY <1>2, <1>11, <2>1 DEF Has
  <2>5. ASSUME NEW j \in (evicted + 1)..Len(pushed), stamp[pushed[j]] <= lastSent[c] \/ j <= k
        PROVE  pushed[j] \in Has(c) \/ (j <= k /\ Excused(c, pushed[j]))
    <3>1. stamp[pushed[j]] <= lastSent[c] \/ j <= pos[c]
      BY <1>8, <1>15, <1>16, <2>5
    <3> QED
      BY <1>14, <1>15, <3>1
  <2>6. \A x : Excused(c, x)' <=> Excused(c, x)
    BY <1>2, <2>4 DEF Excused
  <2>7. Kept(c)'
    BY <1>2, <1>4, <1>13, <2>1, <2>4, <2>5, <2>6 DEF Kept
  <2> QED
    BY <1>10, <1>12, <2>2, <2>3, <2>7 DEF OneInv
<1>17. CASE ~(stamp[e] <= lastSent[c])
  <2>1. /\ wire' = [wire EXCEPT ![c] = Append(@, e)]
        /\ lastSent' = [lastSent EXCEPT ![c] = stamp[e]]
    BY <1>17 DEF Receive, AlreadySent, k
  <2>2. /\ wire'[c] = Append(wire[c], e) /\ lastSent'[c] = stamp[e]
        /\ \A d \in Consumers \ {c} : wire'[d] = wire[d] /\ lastSent'[d] = lastSent[d]
    BY <1>1, <2>1 DEF TypeOK
  <2>3. lastSent[c] < stamp[e]
    BY <1>6, <1>9, <1>17
  <2>4. ASSUME NEW d \in Consumers, d # c PROVE InStep(d)' /\ FillNewer(d)' /\ Kept(d)'
    BY <1>1, <1>2, <1>3, <2>2, <2>4, OtherKept
  <2>5. InStep(c)' /\ Range(wire'[c]) = Range(wire[c]) \cup {e}
    <3>1. pos'[c] \in Nat /\ pos'[c] <= Len(sent)
      BY <1>3, <1>7
    <3> HIDE DEF e
    <3> QED
      BY <1>1, <1>2, <1>5, <1>9, <1>13, <2>2, <2>3, <3>1, WriteInStep
  <2>6. Has(c)' = Has(c) \cup {e}
    BY <1>2, <1>11, <2>5 DEF Has
  <2>7. ASSUME NEW j \in (evicted + 1)..Len(pushed), stamp[pushed[j]] <= stamp[e] \/ j <= k
        PROVE  pushed[j] \in Has(c) \cup {e} \/ (j <= k /\ Excused(c, pushed[j])')
    <3>1. CASE j = k
      BY <1>8, <3>1
    <3>2. CASE j # k
      <4>1. ~(k < j)
        <5>1. k < j => stamp[e] < stamp[pushed[j]]
          BY <1>1, <1>7, <1>8, <1>15, <2>7, PushedInOrder
        <5> QED
          BY <1>7, <1>9, <1>15, <2>7, <5>1
      <4>2. j < k /\ j <= pos[c] /\ j <= k
        BY <1>7, <1>15, <2>7, <3>2, <4>1
      <4>3. pushed[j] \in Has(c) \/ Excused(c, pushed[j])
        BY <1>14, <2>7, <4>2
      <4>4. ~(e < pushed[j])
        <5>1. pushed[j] < pushed[k] /\ pushed[j] \in Nat
          BY <1>1, <1>7, <1>15, <2>7, <4>2, PushedInOrder
        <5> QED
          BY <1>8, <1>9, <5>1
      <4>5. Excused(c, pushed[j]) => Excused(c, pushed[j])'
        BY <1>2, <1>4, <2>6, <4>4 DEF Excused
      <4> QED
        BY <4>2, <4>3, <4>5
    <3> QED
      BY <3>1, <3>2
  <2>8. Kept(c)'
    BY <1>2, <1>4, <1>13, <2>2, <2>6, <2>7 DEF Kept
  <2> QED
    BY <1>10, <1>12, <2>4, <2>5, <2>8 DEF OneInv
<1> QED
  BY <1>16, <1>17

LEMMA LagOne ==
  ASSUME IInv, OneInv, NEW c \in Consumers, Lag(c)
  PROVE  OneInv'
<1>1. /\ TypeOK /\ HubInv /\ ConsumerInv(c)
      /\ InOrder /\ \A d \in Consumers : InStep(d) /\ FillNewer(d) /\ Kept(d)
  BY DEF IInv, OneInv
<1>2. /\ UNCHANGED hubVars
      /\ task[c] = "live" /\ FillLeft(c) = {} /\ Lagging(c)
      /\ since' = since /\ fill' = fill /\ lastSent' = lastSent /\ wire' = wire
      /\ lastSeq' = lastSeq /\ got' = got /\ bridgeLast' = bridgeLast /\ shown' = shown
      /\ slipped' = slipped
  BY DEF Lag, subVars
<1>3. /\ task'[c] = "lagged" /\ pos'[c] = Len(sent) - BroadcastCap
      /\ \A d \in Consumers \ {c} : task'[d] = task[d] /\ pos'[d] = pos[d]
  BY <1>1 DEF Lag, TypeOK
<1>4. /\ Len(pushed) \in Nat /\ Len(sent) \in Nat /\ evicted \in Nat /\ pos[c] \in Nat
      /\ pos'[c] \in Nat /\ pos[c] <= pos'[c] /\ pos'[c] <= Len(sent)
  <2>1. /\ Len(pushed) \in Nat /\ Len(sent) \in Nat /\ evicted \in Nat /\ pos[c] \in Nat
        /\ BroadcastCap \in Nat
    BY <1>1, PushedInOrder, StreamAssumption DEF TypeOK, StreamAssumption
  <2> QED
    BY <1>2, <1>3, <2>1 DEF Lagging
<1>5. InOrder'
  BY <1>1, <1>2, SameOrderOfHub
<1>6. ASSUME NEW d \in Consumers, d # c PROVE InStep(d)' /\ FillNewer(d)' /\ Kept(d)'
  BY <1>1, <1>2, <1>3, <1>6, OtherKept
<1>7. InStep(c)' /\ FillNewer(c)' /\ Kept(c)'
  <2>1. InStep(c) /\ FillNewer(c) /\ Kept(c)
    BY <1>1
  <2>2. /\ seq' = seq /\ stamp' = stamp /\ pushed' = pushed /\ evicted' = evicted
        /\ sent' = sent /\ ingesting' = ingesting
    BY <1>2 DEF hubVars
  <2>3. FillLeft(c)' = {} /\ InFill(c)' = InFill(c) /\ Has(c)' = Has(c)
    BY <1>2, <2>2 DEF FillLeft, InFill, Has
  <2>4. /\ Through(c) = lastSent[c] /\ Through(c)' = lastSent[c]
        /\ Taken(c) = pos[c] /\ Taken(c)' = pos'[c]
    BY <1>2, <1>3 DEF Through, Taken, Running
  <2>5. InStep(c)'
    BY <1>2, <1>3, <1>4, <2>1, <2>2 DEF InStep, GivenOut
  <2>6. FillNewer(c)'
    BY <2>3 DEF FillNewer
  <2>7. Kept(c)'
    <3>1. ASSUME NEW j \in (evicted + 1)..Len(pushed), stamp[pushed[j]] <= lastSent[c]
          PROVE  pushed[j] \in Has(c) \/ (j <= pos'[c] /\ Excused(c, pushed[j]))
      <4>1. pushed[j] \in Has(c) \/ (j <= pos[c] /\ Excused(c, pushed[j]))
        BY <2>1, <2>4, <3>1 DEF Kept
      <4>2. j <= pos[c] => j <= pos'[c]
        BY <1>4, <3>1
      <4> QED
        BY <4>1, <4>2
    <3>2. \A x : Excused(c, x)' <=> Excused(c, x)
      BY <1>2, <2>3 DEF Excused
    <3> QED
      BY <1>3, <2>2, <2>3, <2>4, <3>1, <3>2 DEF Kept
  <2> QED
    BY <2>5, <2>6, <2>7
<1> QED
  BY <1>5, <1>6, <1>7 DEF OneInv

LEMMA RefillOne ==
  ASSUME IInv, OneInv, NEW c \in Consumers, Refill(c)
  PROVE  OneInv'
<1>1. /\ TypeOK /\ HubInv /\ ConsumerInv(c)
      /\ InOrder /\ \A d \in Consumers : InStep(d) /\ FillNewer(d) /\ Kept(d)
  BY DEF IInv, OneInv
<1>2. /\ UNCHANGED hubVars /\ task[c] = "lagged"
      /\ since' = since /\ pos' = pos /\ lastSent' = lastSent /\ wire' = wire
      /\ lastSeq' = lastSeq /\ got' = got /\ bridgeLast' = bridgeLast /\ shown' = shown
      /\ slipped' = slipped
  BY DEF Refill, subVars
<1>3. /\ task'[c] = "live" /\ fill'[c] = ReplaySince(lastSent[c])
      /\ \A d \in Consumers \ {c} : task'[d] = task[d] /\ fill'[d] = fill[d]
  BY <1>1 DEF Refill, TypeOK
<1>4. /\ seq' = seq /\ stamp' = stamp /\ pushed' = pushed /\ evicted' = evicted
      /\ sent' = sent /\ ingesting' = ingesting
  BY <1>2 DEF hubVars
<1>5. InStep(c) /\ FillNewer(c) /\ Kept(c)
  BY <1>1
<1>6. Len(pushed) \in Nat /\ evicted \in Nat /\ lastSent[c] \in Nat /\ pos[c] \in Nat
  BY <1>1, PushedInOrder DEF TypeOK
<1>7. FillLeft(c)' = {i \in (evicted + 1)..Len(pushed) : stamp[pushed[i]] > lastSent[c]}
  BY <1>3, <1>4 DEF FillLeft, ReplaySince
<1>8. InFill(c) = {} /\ InFill(c)' = {pushed[i] : i \in FillLeft(c)'}
  BY <1>2, <1>4, <1>5 DEF FillNewer, InFill
<1>9. Has(c)' = Has(c) \cup InFill(c)'
  BY <1>2, <1>8 DEF Has
<1>10. /\ Through(c) = lastSent[c] /\ Through(c)' = lastSent[c]
       /\ Taken(c) = pos[c] /\ Taken(c)' = pos[c]
  BY <1>2, <1>3 DEF Through, Taken, Running
<1>11. \A i \in 1..Len(pushed) : pushed[i] \in Events /\ stamp[pushed[i]] \in Nat
  BY <1>1, PushedInOrder
<1>12. \A i \in (evicted + 1)..Len(pushed) : i \in 1..Len(pushed)
  BY <1>6
<1>13. InOrder'
  BY <1>1, <1>2, SameOrderOfHub
<1>14. ASSUME NEW d \in Consumers, d # c PROVE InStep(d)' /\ FillNewer(d)' /\ Kept(d)'
  BY <1>1, <1>2, <1>3, <1>14, OtherKept
<1>15. InStep(c)'
  BY <1>2, <1>3, <1>4, <1>5 DEF InStep, GivenOut
<1>16. FillNewer(c)'
  <2>1. \A i \in FillLeft(c)' : lastSent[c] < stamp[pushed[i]]
    BY <1>6, <1>7, <1>11, <1>12
  <2>2. ASSUME NEW i \in FillLeft(c)', NEW j \in 1..i
        PROVE  j \in FillLeft(c)' \/ stamp[pushed[j]] <= lastSent[c] \/ j <= evicted
    <3>1. i \in 1..Len(pushed) /\ j \in 1..Len(pushed)
      BY <1>6, <1>7, <1>12, <2>2
    <3>2. j <= evicted \/ j \in (evicted + 1)..Len(pushed)
      BY <1>6, <3>1
    <3>3. stamp[pushed[j]] <= lastSent[c] \/ stamp[pushed[j]] > lastSent[c]
      BY <1>6, <1>11, <3>1
    <3> QED
      BY <1>7, <3>2, <3>3
  <2> QED
    BY <1>3, <1>4, <1>10, <2>1, <2>2 DEF FillNewer
<1>17. Kept(c)'
  <2>1. ASSUME NEW j \in (evicted + 1)..Len(pushed)
        PROVE  pushed[j] \in Has(c)' \/ (j <= pos[c] /\ Excused(c, pushed[j])')
    <3>1. j \in 1..Len(pushed) /\ pushed[j] \in Events /\ stamp[pushed[j]] \in Nat
      BY <1>11, <1>12, <2>1
    <3>2. CASE stamp[pushed[j]] > lastSent[c]
      BY <1>7, <1>8, <1>9, <2>1, <3>2
    <3>3. CASE stamp[pushed[j]] <= lastSent[c]
      <4>1. pushed[j] \in Has(c) \/ (j <= pos[c] /\ Excused(c, pushed[j]))
        BY <1>5, <1>10, <2>1, <3>3 DEF Kept
      <4>2. ASSUME NEW a \in InFill(c)' PROVE ~(a < pushed[j])
        <5>1. PICK i \in FillLeft(c)' : a = pushed[i]
          BY <1>8, <4>2
        <5>2. a \in Events /\ stamp[a] \in Nat /\ stamp[a] > lastSent[c]
          BY <1>7, <1>11, <1>12, <5>1
        <5>3. ~(stamp[a] < stamp[pushed[j]])
          BY <1>6, <3>1, <3>3, <5>2
        <5> QED
          BY <1>1, <3>1, <5>2, <5>3, SameOrder
      <4>3. Excused(c, pushed[j]) => Excused(c, pushed[j])'
        BY <1>2, <1>4, <1>9, <4>2 DEF Excused
      <4> QED
        BY <1>9, <4>1, <4>3
    <3> QED
      BY <1>6, <3>1, <3>2, <3>3
  <2> QED
    BY <1>4, <1>10, <2>1 DEF Kept
<1> QED
  BY <1>13, <1>14, <1>15, <1>16, <1>17 DEF OneInv

LEMMA DeliverOne ==
  ASSUME IInv, OneInv, NEW c \in Consumers, Deliver(c)
  PROVE  OneInv'
<1> DEFINE e == Head(wire[c])
<1>1. /\ TypeOK /\ HubInv /\ ConsumerInv(c)
      /\ InOrder /\ \A d \in Consumers : InStep(d) /\ FillNewer(d) /\ Kept(d)
  BY DEF IInv, OneInv
<1>2. /\ UNCHANGED hubVars /\ wire[c] # <<>>
      /\ wire' = [wire EXCEPT ![c] = Tail(@)]
      /\ lastSeq' = [lastSeq EXCEPT ![c] = Larger(@, stamp[e])]
      /\ got' = [got EXCEPT ![c] = Append(@, e)]
      /\ task' = task /\ since' = since /\ fill' = fill /\ pos' = pos
      /\ lastSent' = lastSent /\ slipped' = slipped
  BY DEF Deliver
<1>3. /\ wire[c] \in Seq(Nat) /\ got[c] \in Seq(Nat) /\ lastSeq[c] \in Nat
      /\ bridgeLast[c] = lastSeq[c] /\ lastSent[c] \in Nat
      /\ Rising(wire[c]) /\ Range(wire[c]) \subseteq Range(pushed)
      /\ \A x \in Range(wire[c]) : lastSeq[c] < stamp[x]
  BY <1>1 DEF TypeOK, ConsumerInv, InStep
<1>4. /\ e \in Nat /\ Tail(wire[c]) \in Seq(Nat)
      /\ Range(wire[c]) = {e} \cup Range(Tail(wire[c]))
      /\ Rising(Tail(wire[c])) /\ \A y \in Range(Tail(wire[c])) : e < y
  BY <1>2, <1>3, RangeHeadTail, RisingTail
<1>5. Range(Append(got[c], e)) = Range(got[c]) \cup {e}
  BY <1>3, <1>4, RangeAppend
<1> HIDE DEF e
<1>6. /\ e \in Range(pushed) /\ e \in Events /\ stamp[e] \in Nat /\ lastSeq[c] < stamp[e]
      /\ GivenOut(stamp[e])
  BY <1>1, <1>3, <1>4, PushedIsGivenOut, PushedInOrder
<1>7. /\ wire'[c] = Tail(wire[c]) /\ got'[c] = Append(got[c], e)
      /\ lastSeq'[c] = stamp[e]
      /\ \A d \in Consumers \ {c} :
           wire'[d] = wire[d] /\ got'[d] = got[d] /\ lastSeq'[d] = lastSeq[d]
  <2>1. Larger(lastSeq[c], stamp[e]) = stamp[e]
    BY <1>3, <1>6 DEF Larger
  <2> QED
    BY <1>1, <1>2, <2>1 DEF TypeOK
<1>8. /\ bridgeLast'[c] = stamp[e] /\ shown'[c] = shown[c] \cup {e}
      /\ \A d \in Consumers \ {c} : bridgeLast'[d] = bridgeLast[d] /\ shown'[d] = shown[d]
  <2>1. ~Refuses(c, e)
    BY <1>3, <1>6 DEF Refuses
  <2>2. /\ bridgeLast' = [bridgeLast EXCEPT ![c] = stamp[e]]
        /\ shown' = [shown EXCEPT ![c] = @ \cup {e}]
    BY <2>1 DEF Deliver, e
  <2> QED
    BY <1>1, <2>2 DEF TypeOK
<1>9. /\ seq' = seq /\ stamp' = stamp /\ pushed' = pushed /\ evicted' = evicted
      /\ sent' = sent /\ ingesting' = ingesting
  BY <1>2 DEF hubVars
<1>10. InOrder'
  BY <1>1, <1>2, SameOrderOfHub
<1>11. ASSUME NEW d \in Consumers, d # c PROVE InStep(d)' /\ FillNewer(d)' /\ Kept(d)'
  BY <1>1, <1>2, <1>7, <1>8, <1>11, OtherKept
<1>12. InStep(c) /\ FillNewer(c) /\ Kept(c)
  BY <1>1
<1>13. task[c] \in {"live", "lagged"} /\ stamp[e] <= lastSent[c]
  <2>1. task[c] \in {"live", "lagged"}
    BY <1>1, <1>2 DEF ConsumerInv, TypeOK
  <2> QED
    BY <1>1, <1>4, <2>1 DEF ConsumerInv
<1>14. /\ FillLeft(c)' = FillLeft(c) /\ InFill(c)' = InFill(c)
       /\ Through(c)' = Through(c) /\ Taken(c)' = Taken(c)
  BY <1>2, <1>9, <1>13 DEF FillLeft, InFill, Through, Taken, Running
<1>15. Has(c)' = Has(c)
  BY <1>4, <1>5, <1>7, <1>14 DEF Has
<1>16. InStep(c)'
  <2>1. ASSUME NEW x \in Range(got'[c]) PROVE stamp[x] <= stamp[e]
    <3>1. CASE x \in Range(got[c])
      <4>1. stamp[x] <= lastSeq[c] /\ x \in Events
        BY <1>1, <1>12, <3>1 DEF InStep, ConsumerInv
      <4>2. stamp[x] \in Nat
        BY <1>1, <4>1, PushedInOrder
      <4> QED
        BY <1>3, <1>6, <4>1, <4>2
    <3>2. CASE x = e
      BY <1>6, <3>2
    <3> QED
      BY <1>5, <1>7, <2>1, <3>1, <3>2
  <2>2. ASSUME NEW y \in Range(wire'[c]) PROVE stamp[e] < stamp[y]
    <3>1. y \in Range(pushed) /\ e < y
      BY <1>3, <1>4, <1>7, <2>2
    <3>2. y \in Events
      BY <1>1, <3>1 DEF HubInv
    <3> QED
      BY <1>1, <1>6, <3>1, <3>2 DEF InOrder
  <2>3. GivenOut(lastSeq[c])' /\ GivenOut(since[c])' /\ GivenOut(lastSent[c])'
    BY <1>2, <1>6, <1>7, <1>9, <1>12 DEF InStep, GivenOut
  <2>4. Range(got'[c]) \subseteq shown'[c]
    BY <1>5, <1>7, <1>8, <1>12 DEF InStep
  <2>5. Rising(wire[c])'
    BY <1>4, <1>7 DEF Rising
  <2> QED
    BY <1>2, <1>7, <1>8, <1>9, <1>12, <1>13, <2>1, <2>2, <2>3, <2>4, <2>5 DEF InStep
<1>17. FillNewer(c)'
  BY <1>2, <1>9, <1>12, <1>14 DEF FillNewer
<1>18. Kept(c)'
  BY <1>2, <1>9, <1>12, <1>14, <1>15 DEF Kept, Excused
<1> QED
  BY <1>10, <1>11, <1>16, <1>17, <1>18 DEF OneInv

LEMMA BreakOne ==
  ASSUME IInv, OneInv, NEW c \in Consumers, Break(c)
  PROVE  OneInv'
<1>1. /\ TypeOK /\ HubInv /\ ConsumerInv(c)
      /\ InOrder /\ \A d \in Consumers : InStep(d) /\ FillNewer(d) /\ Kept(d)
  BY DEF IInv, OneInv
<1>2. /\ UNCHANGED hubVars /\ task[c] # "none"
      /\ since' = since /\ pos' = pos /\ lastSent' = lastSent
      /\ lastSeq' = lastSeq /\ got' = got /\ bridgeLast' = bridgeLast /\ shown' = shown
      /\ slipped' = slipped
  BY DEF Break, subVars
<1>3. /\ task'[c] = "none" /\ wire'[c] = <<>> /\ fill'[c] = NoFill
      /\ \A d \in Consumers \ {c} : task'[d] = task[d] /\ wire'[d] = wire[d] /\ fill'[d] = fill[d]
  BY <1>1 DEF Break, TypeOK
<1>4. /\ seq' = seq /\ stamp' = stamp /\ pushed' = pushed /\ evicted' = evicted
      /\ sent' = sent /\ ingesting' = ingesting
  BY <1>2 DEF hubVars
<1>5. InOrder'
  BY <1>1, <1>2, SameOrderOfHub
<1>6. ASSUME NEW d \in Consumers, d # c PROVE InStep(d)' /\ FillNewer(d)' /\ Kept(d)'
  BY <1>1, <1>2, <1>3, <1>6, OtherKept
<1>7. InStep(c) /\ FillNewer(c) /\ Kept(c)
  BY <1>1
<1>8. Range(<<>>) = {} /\ Len(<<>>) = 0
  BY RangeEmpty, EmptySeq
<1>9. FillLeft(c)' = {} /\ InFill(c)' = {}
  BY <1>3 DEF FillLeft, InFill, NoFill
<1>10. Has(c)' = Range(got[c]) /\ Has(c)' \subseteq Has(c)
  BY <1>2, <1>3, <1>8, <1>9 DEF Has
<1>11. /\ lastSeq[c] \in Nat /\ lastSent[c] \in Nat /\ Len(sent) \in Nat /\ pos[c] \in Nat
       /\ Len(pushed) \in Nat /\ evicted \in Nat
  BY <1>1, PushedInOrder DEF TypeOK
<1>12. Through(c)' = lastSeq[c] /\ Taken(c)' = Len(sent)
  BY <1>2, <1>3, <1>4 DEF Through, Taken, Running
<1>13. Through(c) \in Nat /\ lastSeq[c] <= Through(c) /\ Taken(c) \in Nat /\ Taken(c) <= Len(sent)
  BY <1>7, <1>11 DEF Through, Taken, Running, InStep
<1>14. InStep(c)'
  BY <1>2, <1>3, <1>4, <1>7, <1>8 DEF InStep, GivenOut, Rising
<1>15. FillNewer(c)'
  BY <1>9 DEF FillNewer
<1>16. Kept(c)'
  <2>1. ASSUME NEW j \in (evicted + 1)..Len(pushed), stamp[pushed[j]] <= lastSeq[c]
        PROVE  pushed[j] \in Has(c)' \/ (j <= Len(sent) /\ Excused(c, pushed[j])')
    <3>1. j \in 1..Len(pushed) /\ j \in Nat
      BY <1>11, <2>1
    <3>2. stamp[pushed[j]] \in Nat
      BY <1>1, <3>1, PushedFacts
    <3>3. stamp[pushed[j]] <= Through(c)
      BY <1>11, <1>13, <2>1, <3>2
    <3>4. pushed[j] \in Has(c) \/ (j <= Taken(c) /\ Excused(c, pushed[j]))
      BY <1>7, <2>1, <3>3 DEF Kept
    <3>5. pushed[j] \notin Range(wire[c])
      <4>1. ~(lastSeq[c] < stamp[pushed[j]])
        BY <1>11, <2>1, <3>2
      <4> QED
        BY <1>7, <4>1 DEF InStep
    <3>6. pushed[j] \notin InFill(c)
      <4>1. ASSUME NEW i \in FillLeft(c), pushed[i] = pushed[j] PROVE FALSE
        <5>1. Through(c) < stamp[pushed[i]]
          BY <1>7, <4>1 DEF FillNewer
        <5> QED
          BY <1>13, <3>2, <3>3, <4>1, <5>1
      <4> QED
        BY <4>1 DEF InFill
    <3>7. pushed[j] \in Has(c) => pushed[j] \in Has(c)'
      BY <1>10, <3>5, <3>6 DEF Has
    <3>8. Excused(c, pushed[j]) => Excused(c, pushed[j])'
      BY <1>2, <1>4, <1>10 DEF Excused
    <3>9. j <= Taken(c) => j <= Len(sent)
      BY <1>11, <1>13, <3>1
    <3> QED
      BY <3>4, <3>7, <3>8, <3>9
  <2> QED
    BY <1>3, <1>4, <1>12, <2>1 DEF Kept
<1> QED
  BY <1>5, <1>6, <1>14, <1>15, <1>16 DEF OneInv

\* With one producer and a clock that does not step back every step keeps the
\* order, and what follows from it for the consumers.
LEMMA StepOne ==
  ASSUME OneProducer, ClockSkew = 0
  PROVE  IInv /\ OneInv /\ [Next]_vars => OneInv'
<1> SUFFICES ASSUME IInv, OneInv, [Next]_vars PROVE OneInv'
  OBVIOUS
<1>1. CASE Ingest
  BY <1>1, StampOne, BufferOne, SendOne DEF Ingest
<1>2. ASSUME NEW c \in Consumers, Connect(c) \/ RunConsumer(c) \/ Deliver(c) \/ Break(c)
      PROVE  OneInv'
  BY <1>2, ConnectOne, SnapshotOne, SubscribeOne, WriteFillOne, ReceiveOne, LagOne,
     RefillOne, DeliverOne, BreakOne
  DEF RunConsumer
<1>3. CASE Restart
  BY <1>3, RestartOne
<1>4. CASE UNCHANGED vars
  <2>1. UNCHANGED hubVars /\ InOrder'
    BY <1>4, SameOrderOfHub DEF OneInv, vars
  <2>2. ASSUME NEW d \in Consumers PROVE InStep(d)' /\ FillNewer(d)' /\ Kept(d)'
    <3>1. InStep(d) /\ FillNewer(d) /\ Kept(d)
      BY DEF OneInv
    <3> QED
      BY <1>4, <2>1, <3>1, OtherKept DEF vars, taskVars, subVars
  <2> QED
    BY <2>1, <2>2 DEF OneInv
<1> QED
  BY <1>1, <1>2, <1>3, <1>4 DEF Next

LEMMA OneInvHolds ==
  ASSUME OneProducer, ClockSkew = 0
  PROVE  Spec => [](IInv /\ OneInv)
<1>1. Init => OneInv
  BY InitOne
<1>2. IInv /\ OneInv /\ [Next]_vars => OneInv'
  BY StepOne
<1> QED
  BY <1>1, <1>2, InvariantHolds, PTL DEF Spec

\* One logger, a clock that does not step back and a ring larger than the
\* channel: what run_consumer skips as "already delivered" (hub.rs:850) has
\* been delivered.  The ring has to be the larger one, or a refill after a lag
\* starts beyond what the channel still holds.
THEOREM SkipsAreDelivered ==
  ASSUME OneProducer, ClockSkew = 0, BroadcastCap < BufferCap
  PROVE  Spec => []SkipsOnlyDelivered
<1>1. ASSUME IInv, OneInv PROVE SkipsOnlyDelivered
  <2> SUFFICES ASSUME NEW c \in Consumers, task[c] = "live", FillLeft(c) = {},
                      NEW i \in (Larger(pos[c], Len(sent) - BroadcastCap) + 1)..Len(sent),
                      AlreadySent(c, sent[i])
               PROVE  sent[i] \in Range(got[c]) \cup Range(wire[c])
    BY DEF SkipsOnlyDelivered
  <2>1. TypeOK /\ HubInv /\ InOrder /\ Kept(c)
    BY <1>1 DEF IInv, OneInv
  <2>2. /\ Len(pushed) \in Nat /\ Len(sent) \in Nat /\ evicted \in Nat /\ pos[c] \in Nat
        /\ Len(sent) <= Len(pushed) /\ Len(pushed) <= Len(sent) + 1
        /\ BufferCap \in Nat /\ BroadcastCap \in Nat
    BY <2>1, PushedInOrder, StreamAssumption DEF TypeOK, StreamAssumption
  <2>3. i \in Nat /\ pos[c] < i /\ Len(sent) - BroadcastCap < i /\ i <= Len(sent) /\ i >= 1
    BY <2>2 DEF Larger
  <2>4. evicted = 0 \/ evicted <= Len(pushed) - BufferCap
    BY <2>1 DEF InOrder
  <2>5. i \in (evicted + 1)..Len(pushed) /\ i \in 1..Len(sent)
    BY <2>2, <2>3, <2>4
  <2>6. sent[i] = pushed[i] /\ stamp[pushed[i]] <= lastSent[c]
    BY <2>1, <2>5 DEF InOrder, AlreadySent
  <2>7. Through(c) = lastSent[c] /\ Taken(c) = pos[c] /\ InFill(c) = {}
    BY DEF Through, Taken, Running, InFill
  <2>8. ~(i <= pos[c])
    BY <2>2, <2>3
  <2>9. pushed[i] \in Has(c)
    BY <2>1, <2>5, <2>6, <2>7, <2>8 DEF Kept
  <2> QED
    BY <2>6, <2>7, <2>9 DEF Has
<1>2. Spec => [](IInv /\ OneInv)
  BY OneInvHolds
<1> QED
  BY <1>1, <1>2, PTL

\* One logger and a clock that does not step back: the bridge shows whatever
\* its subscriber was handed, and an event of the ring that is missing between
\* two it was handed slipped through between the backfill's snapshot and the
\* subscription (hub.rs:782 and 838), whatever the sizes of ring and channel.
THEOREM FeedIsAccounted ==
  ASSUME OneProducer, ClockSkew = 0
  PROVE  Spec => []FeedAccounted
<1>1. ASSUME IInv, OneInv PROVE FeedAccounted
  <2>1. TypeOK /\ HubInv /\ InOrder
    BY <1>1 DEF IInv, OneInv
  <2>2. BridgeShowsAll
    BY <1>1 DEF OneInv, InStep, BridgeShowsAll
  <2>3. ASSUME NEW c \in Consumers, NEW j \in (evicted + 1)..Len(pushed),
               NEW a \in Range(got[c]), NEW b \in Range(got[c]), a < pushed[j], pushed[j] < b
        PROVE  pushed[j] \in Range(got[c]) \cup slipped[c]
    <3> DEFINE e == pushed[j]
    <3>1. InStep(c) /\ FillNewer(c) /\ Kept(c) /\ ConsumerInv(c)
      BY <1>1 DEF IInv, OneInv
    <3>2. Len(pushed) \in Nat /\ evicted \in Nat /\ lastSeq[c] \in Nat /\ lastSent[c] \in Nat
      BY <2>1, PushedInOrder DEF TypeOK
    <3>3. j \in 1..Len(pushed)
      BY <2>3, <3>2
    <3>4. e \in Events /\ b \in Events /\ stamp[e] \in Nat /\ stamp[b] \in Nat
      BY <2>1, <2>3, <3>1, <3>3, PushedInOrder DEF ConsumerInv
    <3>5. stamp[e] < stamp[b] /\ stamp[b] <= lastSeq[c]
      BY <2>1, <2>3, <3>1, <3>4 DEF InOrder, InStep
    <3>6. lastSeq[c] <= Through(c) /\ Through(c) \in Nat
      BY <3>1, <3>2 DEF InStep, Through, Running
    <3> HIDE DEF e
    <3>7. stamp[e] < lastSeq[c] /\ stamp[e] < Through(c) /\ stamp[e] <= Through(c)
      BY <3>2, <3>4, <3>5, <3>6
    <3>8. e \in Has(c) \/ Excused(c, e)
      BY <2>3, <3>1, <3>7 DEF Kept, e
    <3>9. e \notin Range(wire[c])
      <4>1. ~(lastSeq[c] < stamp[e])
        BY <3>2, <3>4, <3>7
      <4> QED
        BY <3>1, <4>1 DEF InStep
    <3>10. e \notin InFill(c)
      <4>1. ASSUME NEW i \in FillLeft(c), pushed[i] = e PROVE FALSE
        <5>1. Through(c) < stamp[e]
          BY <3>1, <4>1 DEF FillNewer
        <5> QED
          BY <3>4, <3>6, <3>7, <5>1
      <4> QED
        BY <4>1 DEF InFill
    <3>11. Excused(c, e) => e \in slipped[c]
      BY <2>3 DEF Excused, Has, e
    <3> QED
      BY <3>8, <3>9, <3>10, <3>11 DEF Has, e
  <2>4. LossAccounted
    BY <2>3 DEF LossAccounted, Ring
  <2> QED
    BY <2>2, <2>4 DEF FeedAccounted
<1>2. Spec => [](IInv /\ OneInv)
  BY OneInvHolds
<1> QED
  BY <1>1, <1>2, PTL

-----------------------------------------------------------------------------
(* Several producers, and any clock: what is skipped is accounted for.     *)

\* The events of this run of the gateway.
ThisRun ==
  Range(pushed) \cup {ingesting[p].event : p \in {q \in Producers : ingesting[q].at = "stamped"}}

\* Numbers are given in the order of events, within a run of the gateway, and
\* an event enters the channel once.
Numbered ==
  /\ \A d, e \in ThisRun : d < e => stamp[d] < stamp[e]
  /\ IsInjective(sent)
  /\ \A p \in Producers : ingesting[p].at = "buffered" =>
       /\ ingesting[p].event \notin Range(sent)
       /\ \A q \in Producers : ingesting[q].at = "buffered" /\ ingesting[q].event = ingesting[p].event => q = p

\* The events that one with a larger number overtook, and those that it is
\* going to overtake in the channel.
Overtaken == {e \in Range(pushed) : \E d \in Range(pushed) : Overtook(d, e)}
Behind    == {e \in Range(pushed) : e \notin Range(sent) /\ \E d \in Range(sent) : stamp[d] > stamp[e]}

\* The number that c's task goes by, or the next one will.
Mark(c) == IF Running(c) THEN lastSent[c] ELSE IF task[c] = "none" THEN lastSeq[c] ELSE since[c]

\* The events of the ring that c's task is past by their number, and that its
\* receiver has yet to bring.
Unread(c) == {e \in Range(pushed) : \A j \in 1..Taken(c) : sent[j] # e}
Past(c)   == {e \in Range(pushed) : stamp[e] <= Mark(c)}

\* What is older than all c has of this run.
Oldest(c) == {e \in Range(pushed) : \A d \in Has(c) \cap Range(pushed) : Precedes(pushed, e, d)}

\* The number that c goes by is not larger than all numbers of this run, once
\* c has anything of it; and what of a backfill or on the wire is not newer
\* than what c was handed before was overtaken.
Marked(c) ==
  /\ task[c] \notin {"snapshot", "live"} => FillLeft(c) = {}
  /\ lastSeq[c] <= Mark(c)
  /\ Taken(c) <= Len(sent)
  /\ Has(c) \cap Range(pushed) # {} => \E d \in Range(pushed) : Mark(c) <= stamp[d]
  /\ task[c] = "snapshot" => InFill(c) \cap Past(c) = {}
  /\ InFill(c) \cap Past(c) \subseteq Overtaken
  /\ \A i, j \in 1..Len(wire[c]) :
       i < j /\ stamp[wire[c][j]] < stamp[wire[c][i]] => wire[c][j] \in Overtaken
  /\ \A e \in Range(wire[c]) : stamp[e] <= lastSeq[c] => e \in Overtaken

\* A backfill leaves out nothing of the ring before an event it brings that is
\* newer than the mark, but what is older than all c has.
Whole(c) ==
  \A i \in FillLeft(c) : \A j \in (evicted + 1)..(i - 1) :
    pushed[j] \in Past(c) \cup Has(c) \cup Oldest(c)

SkipInv(c) ==
  /\ Marked(c)
  /\ Whole(c)
  /\ Ring \cap Unread(c) \cap Past(c) \subseteq Has(c) \cup Overtaken \cup Behind \cup Oldest(c)

ManyInv == Numbered /\ \A c \in Consumers : SkipInv(c)

-----------------------------------------------------------------------------
(* Who comes before whom.                                                  *)

LEMMA RunFacts ==
  ASSUME TypeOK, HubInv, Numbered
  PROVE  /\ \A e \in Range(pushed) : e \in Nat /\ stamp[e] \in Nat /\ stamp[e] >= 1
         /\ \A d, e \in Range(pushed) : d # e => stamp[d] # stamp[e]
         /\ \A i \in 1..Len(pushed) : pushed[i] \in Range(pushed)
         /\ \A e \in Range(pushed) : \E i \in 1..Len(pushed) : pushed[i] = e
         /\ Len(pushed) \in Nat /\ evicted \in Nat /\ Len(sent) \in Nat
         /\ Range(sent) \subseteq Range(pushed)
         /\ \A i \in 1..Len(sent) : sent[i] \in Range(sent)
         /\ \A e \in Range(sent) : \E i \in 1..Len(sent) : sent[i] = e
         /\ \A i, j \in 1..Len(sent) : sent[i] = sent[j] => i = j
<1>1. \A e \in Range(pushed) : e \in Nat /\ stamp[e] \in Nat /\ stamp[e] >= 1
  BY ElementOfSeq DEF HubInv, TypeOK, Events
<1>2. \A d, e \in Range(pushed) : d # e => stamp[d] # stamp[e]
  <2>1. ASSUME NEW d \in Range(pushed), NEW e \in Range(pushed), d # e PROVE stamp[d] # stamp[e]
    <3>1. d \in ThisRun /\ e \in ThisRun
      BY DEF ThisRun
    <3>2. d < e \/ e < d
      BY <1>1, <2>1
    <3>3. stamp[d] < stamp[e] \/ stamp[e] < stamp[d]
      BY <3>1, <3>2 DEF Numbered
    <3>4. stamp[d] \in Nat /\ stamp[e] \in Nat
      BY <1>1
    <3> QED
      BY <3>3, <3>4
  <2> QED
    BY <2>1
<1>3. /\ \A i \in 1..Len(pushed) : pushed[i] \in Range(pushed)
      /\ \A e \in Range(pushed) : \E i \in 1..Len(pushed) : pushed[i] = e
  BY RangePositions DEF TypeOK
<1>4. /\ \A i \in 1..Len(sent) : sent[i] \in Range(sent)
      /\ \A e \in Range(sent) : \E i \in 1..Len(sent) : sent[i] = e
  BY RangePositions DEF TypeOK
<1>5. Len(pushed) \in Nat /\ evicted \in Nat /\ Len(sent) \in Nat /\ DOMAIN sent = 1..Len(sent)
  BY LenProperties DEF TypeOK
<1>6. \A i, j \in 1..Len(sent) : sent[i] = sent[j] => i = j
  BY <1>5 DEF Numbered, IsInjective
<1>7. Range(sent) \subseteq Range(pushed)
  BY DEF HubInv
<1> QED
  BY <1>1, <1>2, <1>3, <1>4, <1>5, <1>6, <1>7

\* Of two events of the ring's history one entered first.
LEMMA OneIsFirst ==
  ASSUME TypeOK, HubInv, Numbered,
         NEW d \in Range(pushed), NEW e \in Range(pushed), d # e
  PROVE  Precedes(pushed, d, e) \/ Precedes(pushed, e, d)
<1>1. PICK i \in 1..Len(pushed) : pushed[i] = d
  BY RunFacts
<1>2. PICK j \in 1..Len(pushed) : pushed[j] = e
  BY RunFacts
<1>3. i < j \/ j < i
  BY <1>1, <1>2
<1> QED
  BY <1>1, <1>2, <1>3 DEF Precedes

\* An event entered before those with a larger number, or was overtaken.
LEMMA FirstOrOvertaken ==
  ASSUME TypeOK, HubInv, Numbered,
         NEW d \in Range(pushed), NEW e \in Range(pushed), stamp[e] < stamp[d]
  PROVE  e \in Overtaken \/ Precedes(pushed, e, d)
<1>1. stamp[d] \in Nat /\ stamp[e] \in Nat
  BY RunFacts
<1>2. d # e
  BY <1>1
<1>3. CASE Precedes(pushed, d, e)
  <2>1. Overtook(d, e)
    BY <1>3 DEF Overtook
  <2> QED
    BY <2>1 DEF Overtaken
<1> QED
  BY <1>2, <1>3, OneIsFirst

\* .. and so with the channel, which it may not have entered yet.
LEMMA BehindOrLater ==
  ASSUME TypeOK, HubInv, Numbered, NEW i \in 1..Len(sent), NEW e \in Range(pushed),
         stamp[e] < stamp[sent[i]], \A j \in 1..i : sent[j] # e
  PROVE  e \in Overtaken \cup Behind
<1>1. sent[i] \in Range(sent) /\ sent[i] \in Range(pushed)
  BY RunFacts
<1>2. CASE e \notin Range(sent)
  <2>1. stamp[sent[i]] > stamp[e]
    BY RunFacts, <1>1
  <2> QED
    BY <1>1, <1>2, <2>1 DEF Behind
<1>3. CASE e \in Range(sent)
  <2>1. PICK j \in 1..Len(sent) : sent[j] = e
    BY <1>3, RunFacts
  <2>2. i < j
    BY <2>1
  <2>3. Precedes(sent, sent[i], e)
    BY <2>1, <2>2 DEF Precedes
  <2>4. stamp[sent[i]] > stamp[e]
    BY RunFacts, <1>1
  <2>5. Overtook(sent[i], e)
    BY <2>3, <2>4 DEF Overtook
  <2> QED
    BY <1>1, <2>5 DEF Overtaken
<1> QED
  BY <1>2, <1>3

\* Precedence and a queue that grows at its end.
LEMMA PrecedesAppend ==
  ASSUME NEW s \in Seq(Nat), NEW x \in Nat
  PROVE  /\ \A d, e : Precedes(s, d, e) => Precedes(Append(s, x), d, e)
         /\ \A d \in Range(s) : Precedes(Append(s, x), d, x)
<1>1. /\ Len(Append(s, x)) = Len(s) + 1 /\ Len(s) \in Nat
      /\ \A i \in 1..Len(s) : Append(s, x)[i] = s[i]
      /\ Append(s, x)[Len(s) + 1] = x
  BY AppendProperties, LenProperties
<1>2. ASSUME NEW d, NEW e, Precedes(s, d, e)
      PROVE  Precedes(Append(s, x), d, e)
  <2>1. PICK i \in 1..Len(s), j \in 1..Len(s) : i < j /\ s[i] = d /\ s[j] = e
    BY <1>2 DEF Precedes
  <2>2. i \in 1..Len(Append(s, x)) /\ j \in 1..Len(Append(s, x))
    BY <1>1
  <2>3. Append(s, x)[i] = d /\ Append(s, x)[j] = e
    BY <1>1, <2>1
  <2> QED
    BY <2>1, <2>2, <2>3 DEF Precedes
<1>3. ASSUME NEW d \in Range(s)
      PROVE  Precedes(Append(s, x), d, x)
  <2>1. PICK i \in 1..Len(s) : s[i] = d
    BY <1>3, RangePositions
  <2>2. i \in 1..Len(Append(s, x)) /\ Len(s) + 1 \in 1..Len(Append(s, x)) /\ i < Len(s) + 1
    BY <1>1
  <2>3. Append(s, x)[i] = d
    BY <1>1, <2>1
  <2> QED
    BY <1>1, <2>2, <2>3 DEF Precedes
<1> QED
  BY <1>2, <1>3

-----------------------------------------------------------------------------
(* One lemma for each action.                                              *)

\* A step that leaves the ring, the channel and the numbers of this run as
\* they are takes nothing from those excuses.
LEMMA SameRun ==
  ASSUME TypeOK, HubInv, Numbered, pushed' = pushed, evicted' = evicted, sent' = sent,
         \A e \in Range(pushed) : stamp'[e] = stamp[e]
  PROVE  Overtaken' = Overtaken /\ Behind' = Behind /\ Ring' = Ring
<1>1. \A d, e \in Range(pushed) : Overtook(d, e)' <=> Overtook(d, e)
  BY DEF Overtook, Precedes
<1>2. Overtaken' = Overtaken
  BY <1>1 DEF Overtaken
<1>3. Behind' = Behind
  <2>1. Range(sent) \subseteq Range(pushed)
    BY DEF HubInv
  <2> QED
    BY <2>1 DEF Behind
<1> QED
  BY <1>2, <1>3 DEF Ring

LEMMA SameConsumer ==
  ASSUME TypeOK, HubInv, Numbered, NEW d \in Consumers, ConsumerInv(d), SkipInv(d),
         pushed' = pushed, evicted' = evicted, sent' = sent,
         \A e \in Range(pushed) : stamp'[e] = stamp[e],
         task'[d] = task[d], since'[d] = since[d], fill'[d] = fill[d], pos'[d] = pos[d],
         lastSent'[d] = lastSent[d], wire'[d] = wire[d], lastSeq'[d] = lastSeq[d],
         got'[d] = got[d]
  PROVE  SkipInv(d)'
<1>1. Overtaken' = Overtaken /\ Behind' = Behind /\ Ring' = Ring
  BY SameRun
<1>2. FillLeft(d)' = FillLeft(d) /\ InFill(d)' = InFill(d)
  <2>1. \A i \in 1..Len(pushed) : pushed'[i] = pushed[i] /\ stamp'[pushed[i]] = stamp[pushed[i]]
    BY RunFacts
  <2> QED
    BY <2>1, SameFill
<1>3. Running(d)' = Running(d) /\ Taken(d)' = Taken(d) /\ Mark(d)' = Mark(d)
  BY DEF Running, Taken, Mark
<1>4. Has(d)' = Has(d)
  BY <1>2 DEF Has
<1>5. Unread(d)' = Unread(d)
  BY <1>3 DEF Unread
<1>6. Past(d)' = Past(d)
  BY <1>3 DEF Past
<1>7. Oldest(d)' = Oldest(d)
  BY <1>4 DEF Oldest, Precedes
<1>8. Marked(d)'
  <2>1. Marked(d)
    BY DEF SkipInv
  <2>2. Range(wire[d]) \subseteq Range(pushed)
    BY DEF ConsumerInv
  <2>3. \A e \in Range(wire[d]) : stamp'[e] = stamp[e]
    BY <2>2
  <2>4. \A i \in 1..Len(wire[d]) : wire[d][i] \in Range(wire[d])
    BY RangePositions DEF TypeOK
  <2>5. \A i, j \in 1..Len(wire[d]) :
          i < j /\ stamp'[wire[d][j]] < stamp'[wire[d][i]] => wire[d][j] \in Overtaken
    BY <2>1, <2>3, <2>4 DEF Marked
  <2>6. \A e \in Range(wire[d]) : stamp'[e] <= lastSeq[d] => e \in Overtaken
    BY <2>1, <2>3 DEF Marked
  <2>7. Has(d) \cap Range(pushed) # {} => \E e \in Range(pushed) : Mark(d) <= stamp'[e]
    BY <2>1 DEF Marked
  <2>8. /\ task[d] \notin {"snapshot", "live"} => FillLeft(d) = {}
        /\ lastSeq[d] <= Mark(d) /\ Taken(d) <= Len(sent)
        /\ task[d] = "snapshot" => InFill(d) \cap Past(d) = {}
        /\ InFill(d) \cap Past(d) \subseteq Overtaken
    BY <2>1 DEF Marked
  <2> QED
    BY <1>1, <1>2, <1>3, <1>4, <1>6, <2>5, <2>6, <2>7, <2>8 DEF Marked
<1>9. Whole(d)'
  BY <1>2, <1>4, <1>6, <1>7 DEF SkipInv, Whole
<1> QED
  BY <1>1, <1>4, <1>5, <1>6, <1>7, <1>8, <1>9 DEF SkipInv

\* What c is handed or is going to write that is newer than an event does not
\* take from it that it is the oldest, unless the newer one overtook it.
LEMMA OldestStays ==
  ASSUME TypeOK, HubInv, Numbered, NEW c \in Consumers, pushed' = pushed,
         NEW e \in Oldest(c),
         \A d \in Has(c)' \cap Range(pushed) : d \in Has(c) \/ stamp[e] < stamp[d]
  PROVE  e \in Overtaken \cup Oldest(c)'
<1> SUFFICES ASSUME e \notin Overtaken
             PROVE  e \in Oldest(c)'
  OBVIOUS
<1>1. e \in Range(pushed) /\ \A d \in Has(c) \cap Range(pushed) : Precedes(pushed, e, d)
  BY DEF Oldest
<1>2. ASSUME NEW d \in Has(c)' \cap Range(pushed)
      PROVE  Precedes(pushed, e, d)
  <2>1. CASE d \in Has(c)
    BY <1>1, <1>2, <2>1
  <2>2. CASE stamp[e] < stamp[d]
    BY <1>1, <1>2, <2>2, FirstOrOvertaken
  <2> QED
    BY <1>2, <2>1, <2>2
<1> QED
  BY <1>1, <1>2 DEF Oldest, Precedes

\* A step of c that leaves its mark: what it has more is newer.
LEMMA SameMark ==
  ASSUME TypeOK, HubInv, Numbered, NEW c \in Consumers, SkipInv(c), UNCHANGED hubVars,
         Mark(c)' = Mark(c), Mark(c) \in Nat, Has(c) \subseteq Has(c)',
         Unread(c)' \subseteq Unread(c),
         \A d \in Has(c)' \cap Range(pushed) : d \in Has(c) \/ Mark(c) < stamp[d]
  PROVE  (Ring \cap Unread(c) \cap Past(c) \subseteq Has(c) \cup Overtaken \cup Behind \cup Oldest(c))'
<1>1. /\ pushed' = pushed /\ evicted' = evicted /\ sent' = sent /\ stamp' = stamp
  BY DEF hubVars
<1>2. Overtaken' = Overtaken /\ Behind' = Behind /\ Ring' = Ring
  BY <1>1, SameRun
<1>3. Past(c)' = Past(c)
  BY <1>1 DEF Past
<1>4. ASSUME NEW e \in Ring, e \in Unread(c), e \in Past(c)
      PROVE  e \in Has(c)' \cup Overtaken \cup Behind \cup Oldest(c)'
  <2>1. e \in Has(c) \cup Overtaken \cup Behind \cup Oldest(c)
    BY <1>4 DEF SkipInv
  <2>2. CASE e \in Oldest(c)
    <3>1. e \in Range(pushed) /\ stamp[e] <= Mark(c)
      BY <1>4 DEF Past
    <3>2. stamp[e] \in Nat /\ \A d \in Range(pushed) : stamp[d] \in Nat
      BY <3>1, RunFacts
    <3>3. \A d \in Has(c)' \cap Range(pushed) : d \in Has(c) \/ stamp[e] < stamp[d]
      BY <3>1, <3>2
    <3> QED
      BY <1>1, <2>2, <3>3, OldestStays
  <2> QED
    BY <2>1, <2>2
<1> QED
  BY <1>2, <1>3, <1>4

LEMMA ConnectMany ==
  ASSUME IInv, ManyInv, NEW c \in Consumers, Connect(c)
  PROVE  ManyInv'
<1>1. /\ TypeOK /\ HubInv /\ Numbered /\ \A d \in Consumers : ConsumerInv(d) /\ SkipInv(d)
  BY DEF IInv, ManyInv
<1>2. /\ UNCHANGED hubVars /\ task[c] = "none"
      /\ fill' = fill /\ pos' = pos /\ lastSent' = lastSent /\ wire' = wire /\ got' = got
  BY DEF Connect
<1>3. /\ seq' = seq /\ stamp' = stamp /\ pushed' = pushed /\ evicted' = evicted
      /\ sent' = sent /\ ingesting' = ingesting
  BY <1>2 DEF hubVars
<1>4. /\ task'[c] = "admitted" /\ since'[c] = lastSeq[c]
      /\ lastSeq'[c] \in {0, lastSeq[c]}
      /\ \A d \in Consumers \ {c} : task'[d] = task[d] /\ since'[d] = since[d] /\ lastSeq'[d] = lastSeq[d]
  BY <1>1 DEF Connect, TypeOK
<1>5. Numbered'
  BY <1>1, <1>3 DEF Numbered, ThisRun
<1>6. ASSUME NEW d \in Consumers \ {c} PROVE SkipInv(d)'
  BY <1>1, <1>2, <1>3, <1>4, <1>6, SameConsumer
<1>7. SkipInv(c)'
  <2>1. FillLeft(c) = {} /\ FillLeft(c)' = {} /\ InFill(c) = {} /\ InFill(c)' = {}
    <3>1. FillLeft(c) = {}
      BY <1>1, <1>2 DEF SkipInv, Marked
    <3> QED
      BY <1>2, <1>3, <3>1 DEF FillLeft, InFill
  <2>2. Mark(c) = lastSeq[c] /\ Mark(c)' = lastSeq[c] /\ lastSeq[c] \in Nat
    BY <1>1, <1>2, <1>4 DEF Mark, Running, TypeOK
  <2>3. Has(c)' = Has(c) /\ Unread(c)' = Unread(c)
    BY <1>2, <1>3, <1>4, <2>1 DEF Has, Unread, Taken, Running
  <2>4. wire[c] = <<>> /\ Range(wire[c]) = {} /\ Len(wire[c]) = 0
    BY <1>1, <1>2, RangeEmpty, EmptySeq DEF ConsumerInv
  <2>5. Marked(c)'
    <3>1. lastSeq'[c] <= lastSeq[c]
      BY <1>4, <2>2
    <3>3. Taken(c)' <= Len(sent)
      <4>1. Taken(c)' = Len(sent) /\ Len(sent) \in Nat
        BY <1>1, <1>3, <1>4, LenProperties DEF Taken, Running, TypeOK
      <4> QED
        BY <4>1
    <3>2. Has(c) \cap Range(pushed) # {} => \E d \in Range(pushed) : Mark(c) <= stamp[d]
      BY <1>1 DEF SkipInv, Marked
    <3> QED
      BY <1>2, <1>3, <2>1, <2>2, <2>3, <2>4, <3>1, <3>2, <3>3 DEF Marked
  <2>6. Whole(c)'
    BY <2>1 DEF Whole
  <2>7. (Ring \cap Unread(c) \cap Past(c) \subseteq Has(c) \cup Overtaken \cup Behind \cup Oldest(c))'
    BY <1>1, <1>2, <2>2, <2>3, SameMark
  <2> QED
    BY <2>5, <2>6, <2>7 DEF SkipInv
<1> QED
  BY <1>5, <1>6, <1>7 DEF ManyInv

\* A step of c that leaves its mark, its wire and its backfill as they are, and
\* may bring its receiver on.
LEMMA SameView ==
  ASSUME TypeOK, HubInv, Numbered, NEW c \in Consumers, ConsumerInv(c), SkipInv(c),
         UNCHANGED hubVars, fill'[c] = fill[c], wire'[c] = wire[c], got'[c] = got[c],
         lastSeq'[c] = lastSeq[c], Mark(c)' = Mark(c), Mark(c) \in Nat,
         Taken(c)' <= Len(sent), Unread(c)' \subseteq Unread(c),
         task'[c] = "live" \/ FillLeft(c) = {}
  PROVE  SkipInv(c)'
<1>1. /\ pushed' = pushed /\ evicted' = evicted /\ sent' = sent /\ stamp' = stamp
  BY DEF hubVars
<1>2. Overtaken' = Overtaken /\ Behind' = Behind /\ Ring' = Ring
  BY <1>1, SameRun
<1>3. FillLeft(c)' = FillLeft(c) /\ InFill(c)' = InFill(c)
  BY <1>1 DEF FillLeft, InFill
<1>4. Has(c)' = Has(c)
  BY <1>3 DEF Has
<1>5. Past(c)' = Past(c) /\ Oldest(c)' = Oldest(c)
  BY <1>1, <1>4 DEF Past, Oldest, Precedes
<1>6. Marked(c)'
  <2>1. Marked(c)
    BY DEF SkipInv
  <2>2. FillLeft(c) = {} => InFill(c) = {}
    BY DEF InFill
  <2> QED
    BY <1>1, <1>2, <1>3, <1>4, <1>5, <2>1, <2>2 DEF Marked
<1>7. Whole(c)'
  BY <1>1, <1>3, <1>4, <1>5 DEF SkipInv, Whole
<1>8. (Ring \cap Unread(c) \cap Past(c) \subseteq Has(c) \cup Overtaken \cup Behind \cup Oldest(c))'
  BY <1>2, <1>4, <1>5 DEF SkipInv
<1> QED
  BY <1>6, <1>7, <1>8 DEF SkipInv

\* What a step of c leaves of the hub and of the others.
LEMMA OthersMany ==
  ASSUME IInv, ManyInv, NEW c \in Consumers, UNCHANGED hubVars, SkipInv(c)',
         \A d \in Consumers \ {c} :
           /\ task'[d] = task[d] /\ since'[d] = since[d] /\ fill'[d] = fill[d] /\ pos'[d] = pos[d]
           /\ lastSent'[d] = lastSent[d] /\ wire'[d] = wire[d] /\ lastSeq'[d] = lastSeq[d]
           /\ got'[d] = got[d]
  PROVE  ManyInv'
<1>1. /\ TypeOK /\ HubInv /\ Numbered /\ \A d \in Consumers : ConsumerInv(d) /\ SkipInv(d)
  BY DEF IInv, ManyInv
<1>2. /\ stamp' = stamp /\ pushed' = pushed /\ evicted' = evicted
      /\ sent' = sent /\ ingesting' = ingesting
  BY DEF hubVars
<1>3. Numbered'
  BY <1>1, <1>2 DEF Numbered, ThisRun
<1>4. ASSUME NEW d \in Consumers \ {c} PROVE SkipInv(d)'
  BY <1>1, <1>2, <1>4, SameConsumer
<1> QED
  BY <1>3, <1>4 DEF ManyInv

LEMMA SubscribeMany ==
  ASSUME IInv, ManyInv, NEW c \in Consumers, Subscribe(c)
  PROVE  ManyInv'
<1>1. /\ TypeOK /\ HubInv /\ Numbered /\ ConsumerInv(c) /\ SkipInv(c)
  BY DEF IInv, ManyInv
<1>2. /\ UNCHANGED hubVars /\ sent' = sent /\ pushed' = pushed /\ task[c] = "snapshot"
      /\ since' = since /\ fill' = fill /\ wire' = wire /\ got' = got /\ lastSeq' = lastSeq
  BY DEF Subscribe, hubVars, subVars
<1>3. /\ task'[c] = "live" /\ lastSent'[c] = since[c] /\ pos'[c] = Len(sent)
      /\ \A d \in Consumers \ {c} : task'[d] = task[d] /\ lastSent'[d] = lastSent[d] /\ pos'[d] = pos[d]
  BY <1>1 DEF Subscribe, TypeOK, FirstLastSent
<1>4. Mark(c)' = since[c] /\ Mark(c) = since[c] /\ since[c] \in Nat
  BY <1>1, <1>2, <1>3 DEF Mark, Running, TypeOK
<1>5. Taken(c)' = Len(sent) /\ Taken(c) = Len(sent) /\ Len(sent) \in Nat
  BY <1>1, <1>2, <1>3, LenProperties DEF Taken, Running, TypeOK
<1>6. Unread(c)' = Unread(c)
  BY <1>2, <1>5 DEF Unread
<1>7. SkipInv(c)'
  BY <1>1, <1>2, <1>3, <1>4, <1>5, <1>6, SameView
<1> QED
  BY <1>2, <1>3, <1>7, OthersMany

LEMMA LagMany ==
  ASSUME IInv, ManyInv, NEW c \in Consumers, Lag(c)
  PROVE  ManyInv'
<1>1. /\ TypeOK /\ HubInv /\ Numbered /\ ConsumerInv(c) /\ SkipInv(c)
  BY DEF IInv, ManyInv
<1>2. /\ UNCHANGED hubVars /\ sent' = sent /\ pushed' = pushed /\ task[c] = "live" /\ FillLeft(c) = {}
      /\ since' = since /\ fill' = fill /\ wire' = wire /\ got' = got /\ lastSeq' = lastSeq
      /\ lastSent' = lastSent /\ Lagging(c)
  BY DEF Lag, hubVars, subVars
<1>3. /\ task'[c] = "lagged" /\ pos'[c] = Len(sent) - BroadcastCap
      /\ \A d \in Consumers \ {c} : task'[d] = task[d] /\ pos'[d] = pos[d]
  BY <1>1 DEF Lag, TypeOK
<1>4. Mark(c)' = lastSent[c] /\ Mark(c) = lastSent[c] /\ lastSent[c] \in Nat
  BY <1>1, <1>2, <1>3 DEF Mark, Running, TypeOK
<1>5. Len(sent) \in Nat /\ pos[c] \in Nat /\ BroadcastCap \in Nat
  BY <1>1, LenProperties, StreamAssumption DEF TypeOK, StreamAssumption
<1>6. Taken(c)' = Len(sent) - BroadcastCap /\ Taken(c) = pos[c]
  BY <1>2, <1>3 DEF Taken, Running
<1>7. Taken(c)' <= Len(sent) /\ Taken(c) <= Taken(c)' /\ Taken(c) \in Nat /\ Taken(c)' \in Int
  BY <1>2, <1>5, <1>6 DEF Lagging
<1>8. Unread(c)' \subseteq Unread(c)
  <2>1. \A j \in 1..Taken(c) : j \in 1..Taken(c)'
    BY <1>7
  <2> QED
    BY <1>2, <2>1 DEF Unread
<1>9. SkipInv(c)'
  BY <1>1, <1>2, <1>4, <1>7, <1>8, SameView
<1> QED
  BY <1>2, <1>3, <1>9, OthersMany

\* A backfill taken from the ring.
LEMMA NewFill ==
  ASSUME TypeOK, HubInv, Numbered, NEW c \in Consumers, ConsumerInv(c), SkipInv(c),
         UNCHANGED hubVars, FillLeft(c) = {}, wire'[c] = wire[c], got'[c] = got[c],
         lastSeq'[c] = lastSeq[c], Mark(c)' = Mark(c), Mark(c) \in Nat,
         Taken(c)' = Taken(c), task'[c] \in {"snapshot", "live"},
         fill'[c] \in Batch, fill'[c].to = Len(pushed), fill'[c].after = Mark(c),
         fill'[c].from >= 1,
         \/ fill'[c].from = evicted + 1
         \/ Mark(c) = 0 /\ Has(c) \cap Range(pushed) = {}
  PROVE  SkipInv(c)'
<1>1. /\ pushed' = pushed /\ evicted' = evicted /\ sent' = sent /\ stamp' = stamp
  BY DEF hubVars
<1>2. /\ \A e \in Range(pushed) : e \in Nat /\ stamp[e] \in Nat /\ stamp[e] >= 1
      /\ \A i \in 1..Len(pushed) : pushed[i] \in Range(pushed)
      /\ Len(pushed) \in Nat /\ evicted \in Nat
  BY RunFacts
<1>3. Overtaken' = Overtaken /\ Behind' = Behind /\ Ring' = Ring
  BY <1>1, SameRun
<1>4. FillLeft(c)' = {i \in fill'[c].from..Len(pushed) : stamp[pushed[i]] > Mark(c)}
  BY <1>1 DEF FillLeft
<1>5. fill'[c].from \in Nat
  BY DEF Batch
<1>6. \A i \in FillLeft(c)' : i \in 1..Len(pushed) /\ stamp[pushed[i]] > Mark(c)
  BY <1>2, <1>4, <1>5
<1>7. InFill(c)' = {pushed[i] : i \in FillLeft(c)'}
  BY <1>1 DEF InFill
<1>8. \A e \in InFill(c)' : e \in Range(pushed) /\ stamp[e] \in Nat /\ stamp[e] > Mark(c)
  BY <1>2, <1>6, <1>7
<1>9. Has(c)' = Has(c) \cup InFill(c)'
  <2>1. InFill(c) = {}
    BY DEF InFill
  <2> QED
    BY <2>1 DEF Has
<1>10. Past(c)' = Past(c) /\ Unread(c)' = Unread(c)
  BY <1>1 DEF Past, Unread
<1>11. InFill(c)' \cap Past(c) = {}
  BY <1>8 DEF Past
<1>12. Marked(c)'
  <2>1. Marked(c)
    BY DEF SkipInv
  <2>2. Has(c)' \cap Range(pushed) # {} => \E d \in Range(pushed) : Mark(c) <= stamp[d]
    <3>1. CASE Has(c) \cap Range(pushed) # {}
      BY <2>1, <3>1 DEF Marked
    <3>2. CASE InFill(c)' # {}
      BY <1>8, <3>2
    <3> QED
      BY <1>9, <3>1, <3>2
  <2> QED
    BY <1>1, <1>3, <1>10, <1>11, <2>1, <2>2 DEF Marked
<1>13. Whole(c)'
  <2>1. ASSUME NEW i \in FillLeft(c)', NEW j \in (evicted + 1)..(i - 1)
        PROVE  pushed[j] \in Past(c) \cup Has(c)' \cup Oldest(c)'
    <3>1. /\ i \in Nat /\ j \in Nat /\ j >= 1 /\ j < i /\ i <= Len(pushed)
          /\ j \in 1..Len(pushed) /\ j >= evicted + 1
      BY <1>2, <1>6, <2>1
    <3>2. CASE j >= fill'[c].from
      <4>1. j \in fill'[c].from..Len(pushed)
        BY <1>2, <1>5, <3>1, <3>2
      <4>2. CASE stamp[pushed[j]] > Mark(c)
        BY <1>4, <1>7, <1>9, <4>1, <4>2
      <4>3. CASE ~(stamp[pushed[j]] > Mark(c))
        BY <1>2, <3>1, <4>3 DEF Past
      <4> QED
        BY <4>2, <4>3
    <3>3. CASE j < fill'[c].from
      <4>1. Has(c) \cap Range(pushed) = {}
        BY <1>2, <1>5, <3>1, <3>3
      <4>2. \A k \in FillLeft(c)' : k \in Int /\ j < k
        BY <1>4, <1>5, <3>1, <3>3
      <4>3. \A k \in FillLeft(c)' : Precedes(pushed, pushed[j], pushed[k])
        BY <1>6, <3>1, <4>2 DEF Precedes
      <4>4. \A d \in Has(c)' \cap Range(pushed) : Precedes(pushed, pushed[j], d)
        BY <1>7, <1>9, <4>1, <4>3
      <4>5. pushed[j] \in Range(pushed)
        BY <1>2, <3>1
      <4>6. pushed[j] \in Oldest(c)'
        BY <1>1, <4>4, <4>5 DEF Oldest, Precedes
      <4> QED
        BY <4>6
    <3> QED
      BY <1>5, <3>1, <3>2, <3>3
  <2> QED
    BY <1>1, <1>10, <2>1 DEF Whole
<1>14. (Ring \cap Unread(c) \cap Past(c) \subseteq Has(c) \cup Overtaken \cup Behind \cup Oldest(c))'
  <2>1. Has(c) \subseteq Has(c)' /\ Unread(c)' \subseteq Unread(c)
    BY <1>9, <1>10
  <2>2. \A d \in Has(c)' \cap Range(pushed) : d \in Has(c) \/ Mark(c) < stamp[d]
    BY <1>8, <1>9
  <2> QED
    BY <2>1, <2>2, SameMark
<1> QED
  BY <1>12, <1>13, <1>14 DEF SkipInv

LEMMA SnapshotMany ==
  ASSUME IInv, ManyInv, NEW c \in Consumers, Snapshot(c)
  PROVE  ManyInv'
<1>1. /\ TypeOK /\ HubInv /\ Numbered /\ ConsumerInv(c) /\ SkipInv(c)
  BY DEF IInv, ManyInv
<1>2. /\ UNCHANGED hubVars /\ sent' = sent /\ pushed' = pushed /\ task[c] = "admitted"
      /\ since' = since /\ wire' = wire /\ got' = got /\ lastSeq' = lastSeq
      /\ pos' = pos /\ lastSent' = lastSent
  BY DEF Snapshot, hubVars, subVars
<1>3. /\ task'[c] = "snapshot"
      /\ fill'[c] = IF since[c] > 0 THEN ReplaySince(since[c]) ELSE ReplayLast(Replay)
      /\ \A d \in Consumers \ {c} : task'[d] = task[d] /\ fill'[d] = fill[d]
  BY <1>1 DEF Snapshot, TypeOK
<1>4. Mark(c)' = since[c] /\ Mark(c) = since[c] /\ since[c] \in Nat
  BY <1>1, <1>2, <1>3 DEF Mark, Running, TypeOK
<1>5. Taken(c)' = Taken(c)
  BY <1>2, <1>3 DEF Taken, Running
<1>6. FillLeft(c) = {} /\ InFill(c) = {}
  BY <1>1, <1>2 DEF SkipInv, Marked, InFill
<1>7. /\ fill'[c] \in Batch /\ fill'[c].to = Len(pushed)
      /\ fill'[c].after = since[c] /\ fill'[c].from >= 1
  BY <1>1, <1>3, <1>4, ReplayFacts
<1>8. \/ fill'[c].from = evicted + 1
      \/ since[c] = 0 /\ Has(c) \cap Range(pushed) = {}
  <2>1. CASE since[c] > 0
    BY <1>3, <2>1 DEF ReplaySince
  <2>2. CASE ~(since[c] > 0)
    <3>1. since[c] = 0
      BY <1>4, <2>2
    <3>2. \A e \in Range(got[c]) \cap Range(pushed) : stamp[e] <= 0
      BY <1>1, <1>2, <3>1 DEF ConsumerInv, Seen
    <3>3. \A e \in Range(pushed) : stamp[e] \in Nat /\ stamp[e] >= 1
      BY <1>1, RunFacts
    <3>4. Range(got[c]) \cap Range(pushed) = {}
      BY <3>2, <3>3
    <3>5. Range(wire[c]) = {}
      BY <1>1, <1>2, RangeEmpty DEF ConsumerInv
    <3> QED
      BY <1>6, <3>1, <3>4, <3>5 DEF Has
  <2> QED
    BY <2>1, <2>2
<1>9. SkipInv(c)'
  BY <1>1, <1>2, <1>3, <1>4, <1>5, <1>6, <1>7, <1>8, NewFill
<1> QED
  BY <1>2, <1>3, <1>9, OthersMany

LEMMA RefillMany ==
  ASSUME IInv, ManyInv, NEW c \in Consumers, Refill(c)
  PROVE  ManyInv'
<1>1. /\ TypeOK /\ HubInv /\ Numbered /\ ConsumerInv(c) /\ SkipInv(c)
  BY DEF IInv, ManyInv
<1>2. /\ UNCHANGED hubVars /\ sent' = sent /\ pushed' = pushed /\ task[c] = "lagged"
      /\ since' = since /\ wire' = wire /\ got' = got /\ lastSeq' = lastSeq
      /\ pos' = pos /\ lastSent' = lastSent
  BY DEF Refill, hubVars, subVars
<1>3. /\ task'[c] = "live" /\ fill'[c] = ReplaySince(lastSent[c])
      /\ \A d \in Consumers \ {c} : task'[d] = task[d] /\ fill'[d] = fill[d]
  BY <1>1 DEF Refill, TypeOK
<1>4. Mark(c)' = lastSent[c] /\ Mark(c) = lastSent[c] /\ lastSent[c] \in Nat
  BY <1>1, <1>2, <1>3 DEF Mark, Running, TypeOK
<1>5. Taken(c)' = Taken(c)
  BY <1>2, <1>3 DEF Taken, Running
<1>6. FillLeft(c) = {}
  BY <1>1, <1>2 DEF SkipInv, Marked
<1>7. /\ fill'[c] \in Batch /\ fill'[c].to = Len(pushed)
      /\ fill'[c].after = lastSent[c] /\ fill'[c].from >= 1
  BY <1>1, <1>3, <1>4, ReplayFacts
<1>8. fill'[c].from = evicted + 1
  BY <1>3 DEF ReplaySince
<1>9. SkipInv(c)'
  BY <1>1, <1>2, <1>3, <1>4, <1>5, <1>6, <1>7, <1>8, NewFill
<1> QED
  BY <1>2, <1>3, <1>9, OthersMany

LEMMA WriteFillMany ==
  ASSUME IInv, ManyInv, NEW c \in Consumers, WriteFill(c)
  PROVE  ManyInv'
<1>1. /\ TypeOK /\ HubInv /\ Numbered /\ ConsumerInv(c) /\ SkipInv(c) /\ Marked(c)
  BY DEF IInv, ManyInv, SkipInv
<1>2. PICK i \in FillLeft(c) :
        /\ \A j \in FillLeft(c) : i <= j
        /\ fill' = [fill EXCEPT ![c].from = i + 1]
        /\ wire' = [wire EXCEPT ![c] = Append(@, pushed[i])]
        /\ lastSent' = [lastSent EXCEPT ![c] = Larger(@, stamp[pushed[i]])]
  BY DEF WriteFill
<1>3. /\ UNCHANGED hubVars /\ task[c] = "live" /\ task' = task
      /\ since' = since /\ pos' = pos /\ got' = got /\ lastSeq' = lastSeq
  BY DEF WriteFill, subVars
<1>4. /\ pushed' = pushed /\ evicted' = evicted /\ sent' = sent /\ stamp' = stamp
  BY <1>3 DEF hubVars
<1> DEFINE w == pushed[i]
<1>5. /\ \A e \in Range(pushed) : e \in Nat /\ stamp[e] \in Nat /\ stamp[e] >= 1
      /\ \A d, e \in Range(pushed) : d # e => stamp[d] # stamp[e]
      /\ \A j \in 1..Len(pushed) : pushed[j] \in Range(pushed)
      /\ Len(pushed) \in Nat /\ evicted \in Nat /\ Len(sent) \in Nat
  BY <1>1, RunFacts
<1>6. /\ fill[c] \in Batch /\ fill[c].from \in Nat /\ fill[c].to \in Nat
      /\ fill[c].from >= 1 /\ fill[c].to <= Len(pushed)
  BY <1>1 DEF TypeOK, Batch, ConsumerInv
<1>7. \A j \in FillLeft(c) : j \in 1..Len(pushed) /\ j >= fill[c].from /\ j <= fill[c].to
  BY <1>5, <1>6 DEF FillLeft
<1>8. i \in 1..Len(pushed) /\ i \in Nat /\ w \in Range(pushed) /\ w \in InFill(c) /\ stamp[w] \in Nat
  BY <1>5, <1>7 DEF InFill
<1>9. /\ fill'[c].from = i + 1 /\ fill'[c].to = fill[c].to /\ fill'[c].after = fill[c].after
      /\ wire'[c] = Append(wire[c], w) /\ lastSent'[c] = Larger(lastSent[c], stamp[w])
      /\ \A d \in Consumers \ {c} :
           fill'[d] = fill[d] /\ wire'[d] = wire[d] /\ lastSent'[d] = lastSent[d]
  BY <1>1, <1>2, <1>6 DEF TypeOK, Batch
<1>10. lastSent[c] \in Nat /\ lastSent'[c] \in Nat
       /\ lastSent'[c] >= lastSent[c] /\ lastSent'[c] >= stamp[w]
       /\ (lastSent'[c] = lastSent[c] \/ lastSent'[c] = stamp[w])
  <2>1. lastSent[c] \in Nat
    BY <1>1 DEF TypeOK
  <2>2. lastSent'[c] = Larger(lastSent[c], stamp[w])
    BY <1>9
  <2> HIDE DEF w
  <2> QED
    BY <1>8, <2>1, <2>2 DEF Larger
<1>11. Mark(c) = lastSent[c] /\ Mark(c)' = lastSent'[c]
  BY <1>3 DEF Mark, Running
<1>12. Taken(c)' = Taken(c) /\ Unread(c)' = Unread(c)
  BY <1>3, <1>4 DEF Taken, Running, Unread
<1>13. FillLeft(c)' = FillLeft(c) \ {i}
  <2>1. FillLeft(c)' = {j \in (i + 1)..fill[c].to : stamp[pushed[j]] > fill[c].after}
    BY <1>4, <1>9 DEF FillLeft
  <2>2. ASSUME NEW j \in FillLeft(c) \ {i} PROVE j \in FillLeft(c)'
    <3>1. j >= i + 1 /\ j \in Nat /\ j <= fill[c].to
      BY <1>2, <1>7, <1>8, <2>2
    <3>2. stamp[pushed[j]] > fill[c].after
      BY <2>2 DEF FillLeft
    <3> QED
      BY <1>6, <1>8, <2>1, <3>1, <3>2
  <2>3. ASSUME NEW j \in FillLeft(c)' PROVE j \in FillLeft(c) \ {i}
    <3>1. /\ j \in (i + 1)..fill[c].to /\ stamp[pushed[j]] > fill[c].after
      BY <2>1, <2>3
    <3>2. j \in fill[c].from..fill[c].to /\ j # i
      BY <1>6, <1>7, <1>8, <3>1
    <3> QED
      BY <3>1, <3>2 DEF FillLeft
  <2> QED
    BY <2>2, <2>3
<1>14. InFill(c)' \subseteq InFill(c) /\ InFill(c) \subseteq InFill(c)' \cup {w}
  BY <1>4, <1>13 DEF InFill
<1>15. /\ wire[c] \in Seq(Nat) /\ w \in Nat /\ Range(wire'[c]) = Range(wire[c]) \cup {w}
       /\ Len(wire'[c]) = Len(wire[c]) + 1 /\ Len(wire[c]) \in Nat
       /\ \A j \in 1..Len(wire[c]) : wire'[c][j] = wire[c][j] /\ wire[c][j] \in Range(wire[c])
       /\ wire'[c][Len(wire[c]) + 1] = w
  <2>1. wire[c] \in Seq(Nat) /\ w \in Nat
    BY <1>1, <1>5, <1>8 DEF TypeOK
  <2> HIDE DEF w
  <2> QED
    BY <1>9, <2>1, RangeAppend, AppendProperties, RangePositions, LenProperties
<1> HIDE DEF w
<1>16. Has(c)' = Has(c)
  BY <1>3, <1>8, <1>14, <1>15 DEF Has
<1>17. Overtaken' = Overtaken /\ Behind' = Behind /\ Ring' = Ring
  BY <1>1, <1>4, SameRun
<1>18. Oldest(c)' = Oldest(c)
  BY <1>4, <1>16 DEF Oldest, Precedes
<1>19. Past(c) \subseteq Past(c)'
  BY <1>4, <1>5, <1>10, <1>11 DEF Past
<1>20. ASSUME NEW e \in Past(c)', e \notin Past(c)
       PROVE  e \in Range(pushed) /\ (e = w \/ stamp[e] < stamp[w])
  <2>1. e \in Range(pushed) /\ stamp[e] <= lastSent'[c] /\ ~(stamp[e] <= lastSent[c])
    BY <1>4, <1>11, <1>20 DEF Past
  <2>2. stamp[e] <= stamp[w] /\ stamp[e] \in Nat
    BY <1>5, <1>10, <2>1
  <2> QED
    BY <1>5, <1>8, <2>1, <2>2
<1>21. w \in Past(c) => w \in Overtaken
  BY <1>1, <1>8 DEF Marked
<1>22. Range(wire[c]) \subseteq Range(pushed) /\ \A e \in Range(wire[c]) : stamp[e] <= lastSent[c]
  BY <1>1, <1>3 DEF ConsumerInv
<1>23. Marked(c)'
  <2>1. lastSeq'[c] <= Mark(c)'
    BY <1>1, <1>3, <1>10, <1>11 DEF Marked, TypeOK
  <2>2. Has(c)' \cap Range(pushed) # {} => \E d \in Range(pushed) : Mark(c)' <= stamp[d]
    <3>1. CASE lastSent'[c] = stamp[w]
      BY <1>8, <1>11, <3>1
    <3>2. CASE lastSent'[c] = lastSent[c]
      BY <1>1, <1>11, <1>16, <3>2 DEF Marked
    <3> QED
      BY <1>10, <3>1, <3>2
  <2>3. ASSUME NEW e \in InFill(c)' \cap Past(c)' PROVE e \in Overtaken
    <3>1. CASE e \in Past(c)
      BY <1>1, <1>14, <2>3, <3>1 DEF Marked
    <3>2. CASE e \notin Past(c)
      <4>1. PICK j \in FillLeft(c) : j # i /\ e = pushed[j]
        BY <1>4, <1>13, <2>3 DEF InFill
      <4>2. i < j /\ j \in 1..Len(pushed)
        BY <1>2, <1>7, <1>8, <4>1
      <4>3. e # w
        BY <1>1, <1>8, <4>1, <4>2, LenProperties DEF HubInv, IsInjective, TypeOK, w
      <4>4. stamp[e] < stamp[w] /\ e \in Range(pushed)
        BY <1>20, <2>3, <3>2, <4>3
      <4>5. Precedes(pushed, w, e)
        BY <1>8, <4>1, <4>2 DEF Precedes, w
      <4>6. Overtook(w, e)
        BY <1>5, <1>8, <4>4, <4>5 DEF Overtook
      <4> QED
        BY <1>8, <4>4, <4>6 DEF Overtaken
    <3> QED
      BY <3>1, <3>2
  <2>4. ASSUME NEW k \in 1..Len(wire'[c]), NEW j \in 1..Len(wire'[c]),
               k < j, stamp[wire'[c][j]] < stamp[wire'[c][k]]
        PROVE  wire'[c][j] \in Overtaken
    <3>1. k \in 1..Len(wire[c])
      BY <1>15, <2>4
    <3>2. CASE j \in 1..Len(wire[c])
      BY <1>1, <1>15, <2>4, <3>1, <3>2 DEF Marked
    <3>3. CASE j \notin 1..Len(wire[c])
      <4>1. wire'[c][j] = w
        BY <1>15, <3>3
      <4>2. wire'[c][k] \in Range(wire[c])
        BY <1>15, <3>1
      <4>3. stamp[wire'[c][k]] \in Nat /\ stamp[wire'[c][k]] <= lastSent[c]
        BY <1>5, <1>22, <4>2
      <4>4. stamp[w] <= lastSent[c]
        BY <1>8, <1>10, <2>4, <4>1, <4>3
      <4> QED
        BY <1>8, <1>11, <1>21, <4>1, <4>4 DEF Past
    <3> QED
      BY <3>2, <3>3
  <2>5. ASSUME NEW e \in Range(wire'[c]), stamp[e] <= lastSeq[c] PROVE e \in Overtaken
    <3>1. CASE e = w
      <4>2. lastSeq[c] \in Nat /\ lastSeq[c] <= lastSent[c]
        BY <1>1, <1>11 DEF Marked, TypeOK
      <4>1. stamp[w] <= lastSent[c]
        BY <1>8, <1>10, <2>5, <3>1, <4>2
      <4> QED
        BY <1>8, <1>11, <1>21, <3>1, <4>1 DEF Past
    <3>2. CASE e \in Range(wire[c])
      BY <1>1, <2>5, <3>2 DEF Marked
    <3> QED
      BY <1>15, <3>1, <3>2
  <2>6. Taken(c)' <= Len(sent)
    BY <1>1, <1>12 DEF Marked
  <2>7. task'[c] = "live"
    BY <1>3
  <2> QED
    BY <1>3, <1>4, <1>17, <2>1, <2>2, <2>3, <2>4, <2>5, <2>6, <2>7 DEF Marked
<1>24. Whole(c)'
  BY <1>1, <1>4, <1>13, <1>16, <1>18, <1>19 DEF SkipInv, Whole
<1>25. ASSUME NEW e \in Ring, e \in Unread(c), e \in Past(c)'
       PROVE  e \in Has(c) \cup Overtaken \cup Behind \cup Oldest(c)
  <2>1. CASE e \in Past(c)
    BY <1>1, <1>25, <2>1 DEF SkipInv
  <2>2. CASE e \notin Past(c) /\ e = w
    BY <1>8, <2>2 DEF Has
  <2>3. CASE e \notin Past(c) /\ e # w
    <3>1. e \in Range(pushed) /\ stamp[e] < stamp[w]
      BY <1>20, <1>25, <2>3
    <3>2. e \in Overtaken \/ Precedes(pushed, e, w)
      BY <1>1, <1>8, <3>1, FirstOrOvertaken
    <3>3. CASE Precedes(pushed, e, w)
      <4>1. PICK j \in 1..Len(pushed), k \in 1..Len(pushed) : j < k /\ pushed[j] = e /\ pushed[k] = w
        BY <3>3 DEF Precedes
      <4>2. DOMAIN pushed = 1..Len(pushed)
        BY <1>1, LenProperties DEF TypeOK
      <4>3. k = i
        BY <1>1, <1>8, <4>1, <4>2 DEF HubInv, IsInjective, w
      <4>4. PICK l \in (evicted + 1)..Len(pushed) : e = pushed[l]
        BY <1>25 DEF Ring
      <4>5. l \in 1..Len(pushed)
        BY <1>5, <4>4
      <4>6. l = j
        BY <1>1, <4>1, <4>2, <4>4, <4>5 DEF HubInv, IsInjective
      <4>7. j \in (evicted + 1)..(i - 1)
        BY <1>5, <1>8, <4>1, <4>3, <4>4, <4>6
      <4>8. e \in Past(c) \cup Has(c) \cup Oldest(c)
        BY <1>1, <4>1, <4>7 DEF SkipInv, Whole
      <4> QED
        BY <2>3, <4>8
    <3> QED
      BY <3>2, <3>3
  <2> QED
    BY <2>1, <2>2, <2>3
<1>26. (Ring \cap Unread(c) \cap Past(c) \subseteq Has(c) \cup Overtaken \cup Behind \cup Oldest(c))'
  BY <1>12, <1>16, <1>17, <1>18, <1>25
<1>27. SkipInv(c)'
  BY <1>23, <1>24, <1>26 DEF SkipInv
<1> QED
  BY <1>3, <1>9, <1>27, OthersMany

LEMMA ReceiveMany ==
  ASSUME IInv, ManyInv, NEW c \in Consumers, Receive(c)
  PROVE  ManyInv'
<1> DEFINE w == sent[pos[c] + 1]
<1>1. /\ TypeOK /\ HubInv /\ Numbered /\ ConsumerInv(c) /\ SkipInv(c) /\ Marked(c)
  BY DEF IInv, ManyInv, SkipInv
<1>2. /\ UNCHANGED hubVars /\ task[c] = "live" /\ task' = task /\ FillLeft(c) = {}
      /\ since' = since /\ fill' = fill /\ got' = got /\ lastSeq' = lastSeq
      /\ pos[c] < Len(sent) /\ pos' = [pos EXCEPT ![c] = @ + 1]
      /\ IF AlreadySent(c, w)
         THEN wire' = wire /\ lastSent' = lastSent
         ELSE /\ wire' = [wire EXCEPT ![c] = Append(@, w)]
              /\ lastSent' = [lastSent EXCEPT ![c] = stamp[w]]
  BY DEF Receive, subVars
<1>3. /\ pushed' = pushed /\ evicted' = evicted /\ sent' = sent /\ stamp' = stamp
  BY <1>2 DEF hubVars
<1>4. /\ \A e \in Range(pushed) : e \in Nat /\ stamp[e] \in Nat /\ stamp[e] >= 1
      /\ \A d, e \in Range(pushed) : d # e => stamp[d] # stamp[e]
      /\ Len(sent) \in Nat /\ Range(sent) \subseteq Range(pushed)
      /\ \A j \in 1..Len(sent) : sent[j] \in Range(sent)
  BY <1>1, RunFacts
<1>5. pos[c] \in Nat /\ pos'[c] = pos[c] + 1 /\ pos[c] + 1 \in 1..Len(sent)
      /\ lastSent[c] \in Nat
  BY <1>1, <1>2, <1>4 DEF TypeOK
<1>6. w \in Range(pushed) /\ w \in Nat /\ stamp[w] \in Nat
  BY <1>4, <1>5
<1>7. Taken(c) = pos[c] /\ Taken(c)' = pos[c] + 1 /\ Mark(c) = lastSent[c] /\ Mark(c)' = lastSent'[c]
  BY <1>2, <1>5 DEF Taken, Running, Mark
<1>8. Unread(c)' \subseteq Unread(c) /\ \A e \in Unread(c)' : \A j \in 1..(pos[c] + 1) : sent[j] # e
  <2>1. \A j \in 1..pos[c] : j \in 1..(pos[c] + 1)
    BY <1>5
  <2> QED
    BY <1>3, <1>7, <2>1 DEF Unread
<1>9. Taken(c)' <= Len(sent)
  BY <1>4, <1>5, <1>7
<1>10. \A d \in Consumers \ {c} : pos'[d] = pos[d] /\ wire'[d] = wire[d] /\ lastSent'[d] = lastSent[d]
  BY <1>1, <1>2 DEF TypeOK
<1>11. CASE AlreadySent(c, w)
  <2>1. SkipInv(c)'
    BY <1>1, <1>2, <1>5, <1>7, <1>8, <1>9, <1>11, SameView
  <2> QED
    BY <1>2, <1>10, <2>1, OthersMany
<1>12. CASE ~AlreadySent(c, w)
  <2>1. wire'[c] = Append(wire[c], w) /\ lastSent'[c] = stamp[w]
    BY <1>1, <1>2, <1>12 DEF TypeOK
  <2>2. stamp[w] > lastSent[c]
    BY <1>5, <1>6, <1>12 DEF AlreadySent
  <2>3. wire[c] \in Seq(Nat)
    BY <1>1 DEF TypeOK
  <2> HIDE DEF w
  <2>4. /\ Range(wire'[c]) = Range(wire[c]) \cup {w}
        /\ Len(wire'[c]) = Len(wire[c]) + 1 /\ Len(wire[c]) \in Nat
        /\ \A j \in 1..Len(wire[c]) : wire'[c][j] = wire[c][j] /\ wire[c][j] \in Range(wire[c])
        /\ wire'[c][Len(wire[c]) + 1] = w
    <3>1. w \in Nat /\ wire'[c] = Append(wire[c], w)
      BY <1>6, <2>1
    <3> QED
      BY <2>3, <3>1, RangeAppend, AppendProperties, RangePositions, LenProperties
  <2>5. FillLeft(c)' = {} /\ InFill(c)' = {} /\ InFill(c) = {}
    BY <1>2, <1>3 DEF FillLeft, InFill
  <2>6. Overtaken' = Overtaken /\ Behind' = Behind /\ Ring' = Ring
    BY <1>1, <1>3, SameRun
  <2>7. Range(wire[c]) \subseteq Range(pushed) /\ \A e \in Range(wire[c]) : stamp[e] <= lastSent[c]
    BY <1>1, <1>2 DEF ConsumerInv
  <2>8. lastSeq[c] \in Nat /\ lastSeq[c] <= lastSent[c]
    BY <1>1, <1>7 DEF Marked, TypeOK
  <2>9. Marked(c)'
    <3>1. lastSeq'[c] <= Mark(c)'
      BY <1>2, <1>5, <1>6, <1>7, <2>1, <2>2, <2>8
    <3>2. \E d \in Range(pushed) : Mark(c)' <= stamp[d]
      BY <1>6, <1>7, <2>1
    <3>3. ASSUME NEW k \in 1..Len(wire'[c]), NEW j \in 1..Len(wire'[c]),
                 k < j, stamp[wire'[c][j]] < stamp[wire'[c][k]]
          PROVE  wire'[c][j] \in Overtaken
      <4>1. k \in 1..Len(wire[c])
        BY <2>4, <3>3
      <4>2. CASE j \in 1..Len(wire[c])
        BY <1>1, <2>4, <3>3, <4>1, <4>2 DEF Marked
      <4>3. CASE j \notin 1..Len(wire[c])
        <5>1. wire'[c][j] = w
          BY <2>4, <4>3
        <5>2. wire'[c][k] \in Range(wire[c])
          BY <2>4, <4>1
        <5>3. stamp[wire'[c][k]] \in Nat /\ stamp[wire'[c][k]] <= lastSent[c]
          BY <1>4, <2>7, <5>2
        <5> QED
          BY <1>5, <1>6, <2>2, <3>3, <5>1, <5>3
      <4> QED
        BY <4>2, <4>3
    <3>4. ASSUME NEW e \in Range(wire'[c]), stamp[e] <= lastSeq[c] PROVE e \in Overtaken
      <4>1. e # w
        BY <1>5, <1>6, <2>2, <2>8, <3>4
      <4> QED
        BY <1>1, <2>4, <3>4, <4>1 DEF Marked
    <3> QED
      BY <1>2, <1>3, <1>9, <2>5, <2>6, <3>1, <3>2, <3>3, <3>4 DEF Marked
  <2>10. Whole(c)'
    BY <2>5 DEF Whole
  <2>11. ASSUME NEW e \in Ring, e \in Unread(c)', e \in Past(c)'
         PROVE  e \in Overtaken \cup Behind
    <3>1. e \in Range(pushed) /\ stamp[e] <= stamp[w]
      BY <1>3, <1>7, <2>1, <2>11 DEF Past
    <3>2. \A j \in 1..(pos[c] + 1) : sent[j] # e
      BY <1>8, <2>11
    <3>3. e # w
      BY <1>5, <3>2 DEF w
    <3>4. stamp[e] < stamp[w]
      BY <1>4, <1>6, <3>1, <3>3
    <3> QED
      BY <1>1, <1>5, <3>1, <3>2, <3>4, BehindOrLater DEF w
  <2>12. SkipInv(c)'
    BY <2>6, <2>9, <2>10, <2>11 DEF SkipInv
  <2> QED
    BY <1>2, <1>10, <2>12, OthersMany
<1> QED
  BY <1>11, <1>12

LEMMA DeliverMany ==
  ASSUME IInv, ManyInv, NEW c \in Consumers, Deliver(c)
  PROVE  ManyInv'
<1> DEFINE w == Head(wire[c])
<1>1. /\ TypeOK /\ HubInv /\ Numbered /\ ConsumerInv(c) /\ SkipInv(c) /\ Marked(c)
  BY DEF IInv, ManyInv, SkipInv
<1>2. /\ UNCHANGED hubVars /\ wire[c] # <<>> /\ task' = task /\ since' = since /\ fill' = fill
      /\ pos' = pos /\ lastSent' = lastSent
      /\ wire' = [wire EXCEPT ![c] = Tail(@)]
      /\ lastSeq' = [lastSeq EXCEPT ![c] = Larger(@, stamp[w])]
      /\ got' = [got EXCEPT ![c] = Append(@, w)]
  BY DEF Deliver
<1>3. /\ pushed' = pushed /\ evicted' = evicted /\ sent' = sent /\ stamp' = stamp
  BY <1>2 DEF hubVars
<1>4. /\ wire'[c] = Tail(wire[c]) /\ lastSeq'[c] = Larger(lastSeq[c], stamp[w])
      /\ got'[c] = Append(got[c], w)
      /\ \A d \in Consumers \ {c} : wire'[d] = wire[d] /\ lastSeq'[d] = lastSeq[d] /\ got'[d] = got[d]
  BY <1>1, <1>2 DEF TypeOK
<1>5. task[c] \in {"live", "lagged"}
  BY <1>1, <1>2 DEF ConsumerInv, TypeOK
<1>6. wire[c] \in Seq(Nat) /\ got[c] \in Seq(Nat)
  BY <1>1 DEF TypeOK
<1>7. w \in Nat /\ Range(wire[c]) = {w} \cup Range(wire'[c])
  BY <1>2, <1>4, <1>6, RangeHeadTail
<1>8. Range(got'[c]) = Range(got[c]) \cup {w}
  BY <1>4, <1>6, <1>7, RangeAppend
<1>9. w \notin Range(wire'[c])
  BY <1>1, <1>2, <1>4, <1>6, InjectiveTail DEF ConsumerInv
<1>10. /\ Len(wire[c]) \in Nat \ {0} /\ wire[c][1] = w /\ Len(wire'[c]) = Len(wire[c]) - 1
       /\ \A j \in 1..(Len(wire[c]) - 1) : wire'[c][j] = wire[c][j + 1]
  <2>1. /\ Len(wire[c]) \in Nat \ {0}
    BY <1>2, <1>6, LenProperties, EmptySeq
  <2>2. /\ Len(Tail(wire[c])) = Len(wire[c]) - 1 /\ wire[c][1] = Head(wire[c])
        /\ \A j \in 1..Len(Tail(wire[c])) : Tail(wire[c])[j] = wire[c][j + 1]
    BY <1>2, <1>6, HeadTailProperties, ElementOfSeq, EmptySeq, LenProperties
  <2> QED
    BY <1>4, <2>1, <2>2
<1>11. wire'[c] \in Seq(Nat)
  BY <1>2, <1>4, <1>6, RangeHeadTail
<1> HIDE DEF w
<1>12. /\ \A e \in Range(pushed) : e \in Nat /\ stamp[e] \in Nat /\ stamp[e] >= 1
       /\ \A d, e \in Range(pushed) : d # e => stamp[d] # stamp[e]
  BY <1>1, RunFacts
<1>13. Range(wire[c]) \subseteq Range(pushed) /\ \A e \in Range(wire[c]) : stamp[e] <= lastSent[c]
  BY <1>1, <1>5 DEF ConsumerInv
<1>14. w \in Range(pushed) /\ stamp[w] \in Nat /\ stamp[w] <= lastSent[c]
  BY <1>7, <1>12, <1>13
<1>15. Mark(c) = lastSent[c] /\ Mark(c)' = lastSent[c]
  BY <1>2, <1>5 DEF Mark, Running
<1>16. lastSeq[c] \in Nat /\ lastSeq[c] <= lastSent[c] /\ lastSent[c] \in Nat
  BY <1>1, <1>15 DEF Marked, TypeOK
<1>17. lastSeq'[c] <= lastSent[c] /\ (lastSeq'[c] = lastSeq[c] \/ lastSeq'[c] = stamp[w])
  BY <1>4, <1>14, <1>16 DEF Larger
<1>18. FillLeft(c)' = FillLeft(c) /\ InFill(c)' = InFill(c)
  BY <1>2, <1>3 DEF FillLeft, InFill
<1>19. Has(c)' = Has(c)
  BY <1>7, <1>8, <1>18 DEF Has
<1>20. Taken(c)' = Taken(c) /\ Unread(c)' = Unread(c)
  BY <1>2, <1>3 DEF Taken, Running, Unread
<1>21. Past(c)' = Past(c) /\ Oldest(c)' = Oldest(c)
  BY <1>3, <1>15, <1>19 DEF Past, Oldest, Precedes
<1>22. Overtaken' = Overtaken /\ Behind' = Behind /\ Ring' = Ring
  BY <1>1, <1>3, SameRun
<1>23. Marked(c)'
  <2>1. ASSUME NEW k \in 1..Len(wire'[c]), NEW j \in 1..Len(wire'[c]),
               k < j, stamp[wire'[c][j]] < stamp[wire'[c][k]]
        PROVE  wire'[c][j] \in Overtaken
    <3>1. /\ wire'[c][k] = wire[c][k + 1] /\ wire'[c][j] = wire[c][j + 1]
          /\ k + 1 \in 1..Len(wire[c]) /\ j + 1 \in 1..Len(wire[c]) /\ k + 1 < j + 1
      BY <1>10, <2>1
    <3>2. stamp[wire[c][j + 1]] < stamp[wire[c][k + 1]]
      BY <2>1, <3>1
    <3>3. wire[c][j + 1] \in Overtaken
      BY <1>1, <3>1, <3>2 DEF Marked
    <3> QED
      BY <3>1, <3>3
  <2>2. ASSUME NEW e \in Range(wire'[c]), stamp[e] <= lastSeq'[c] PROVE e \in Overtaken
    <3>1. CASE lastSeq'[c] = lastSeq[c]
      BY <1>1, <1>7, <2>2, <3>1 DEF Marked
    <3>2. CASE lastSeq'[c] = stamp[w]
      <4>1. e # w /\ e \in Range(pushed)
        BY <1>7, <1>9, <1>13, <2>2
      <4>2. stamp[e] < stamp[w]
        BY <1>12, <1>14, <2>2, <3>2, <4>1
      <4>3. PICK j \in 1..Len(wire'[c]) : wire'[c][j] = e
        BY <1>11, <2>2, RangePositions
      <4>4. j + 1 \in 1..Len(wire[c]) /\ wire[c][j + 1] = e /\ 1 \in 1..Len(wire[c]) /\ 1 < j + 1
        BY <1>10, <4>3
      <4>5. stamp[wire[c][j + 1]] < stamp[wire[c][1]]
        BY <1>10, <4>2, <4>4
      <4>6. wire[c][j + 1] \in Overtaken
        BY <1>1, <4>4, <4>5 DEF Marked
      <4> QED
        BY <4>4, <4>6
    <3> QED
      BY <1>17, <3>1, <3>2
  <2>3. /\ lastSeq'[c] <= Mark(c)' /\ Taken(c)' <= Len(sent)
    BY <1>1, <1>15, <1>17, <1>20 DEF Marked
  <2>4. /\ Has(c) \cap Range(pushed) # {} => \E d \in Range(pushed) : Mark(c)' <= stamp[d]
        /\ InFill(c) \cap Past(c) \subseteq Overtaken
        /\ task[c] \notin {"snapshot", "live"} => FillLeft(c) = {}
        /\ task[c] # "snapshot"
    BY <1>1, <1>5, <1>15 DEF Marked
  <2> QED
    BY <1>2, <1>3, <1>18, <1>19, <1>21, <1>22, <2>1, <2>2, <2>3, <2>4 DEF Marked
<1>24. Whole(c)'
  BY <1>1, <1>3, <1>18, <1>19, <1>21 DEF SkipInv, Whole
<1>25. SkipInv(c)'
  BY <1>1, <1>19, <1>20, <1>21, <1>22, <1>23, <1>24 DEF SkipInv
<1> QED
  BY <1>2, <1>4, <1>25, OthersMany

LEMMA BreakMany ==
  ASSUME IInv, ManyInv, NEW c \in Consumers, Break(c)
  PROVE  ManyInv'
<1>1. /\ TypeOK /\ HubInv /\ Numbered /\ ConsumerInv(c) /\ SkipInv(c) /\ Marked(c)
  BY DEF IInv, ManyInv, SkipInv
<1>2. /\ UNCHANGED hubVars /\ task[c] # "none" /\ since' = since
      /\ pos' = pos /\ lastSent' = lastSent /\ got' = got /\ lastSeq' = lastSeq
  BY DEF Break, subVars
<1>3. /\ pushed' = pushed /\ evicted' = evicted /\ sent' = sent /\ stamp' = stamp
  BY <1>2 DEF hubVars
<1>4. /\ task'[c] = "none" /\ wire'[c] = <<>> /\ fill'[c] = NoFill
      /\ \A d \in Consumers \ {c} : task'[d] = task[d] /\ wire'[d] = wire[d] /\ fill'[d] = fill[d]
  BY <1>1 DEF Break, TypeOK
<1>5. FillLeft(c)' = {} /\ InFill(c)' = {}
  BY <1>4 DEF FillLeft, InFill, NoFill
<1>6. Range(wire'[c]) = {} /\ Len(wire'[c]) = 0
  BY <1>4, RangeEmpty, EmptySeq
<1>7. Has(c)' \subseteq Has(c) /\ Has(c)' = Range(got[c])
  BY <1>2, <1>5, <1>6 DEF Has
<1>8. Mark(c)' = lastSeq[c]
  BY <1>2, <1>4 DEF Mark, Running
<1>9. lastSeq[c] <= Mark(c) /\ lastSeq[c] \in Nat /\ Mark(c) \in Nat
  BY <1>1 DEF Marked, Mark, TypeOK
<1>10. /\ \A e \in Range(pushed) : stamp[e] \in Nat
       /\ Len(sent) \in Nat
  BY <1>1, RunFacts
<1>11. Past(c)' \subseteq Past(c) /\ \A e \in Past(c)' : e \in Range(pushed) /\ stamp[e] <= lastSeq[c]
  BY <1>3, <1>8, <1>9, <1>10 DEF Past
<1>12. Taken(c)' = Len(sent) /\ Taken(c) <= Len(sent) /\ Taken(c) \in Nat
  BY <1>1, <1>3, <1>4, <1>10 DEF Taken, Running, Marked, TypeOK
<1>13. Unread(c)' \subseteq Unread(c)
  <2>1. \A j \in 1..Taken(c) : j \in 1..Taken(c)'
    BY <1>10, <1>12
  <2> QED
    BY <1>3, <2>1 DEF Unread
<1>14. Oldest(c) \subseteq Oldest(c)'
  BY <1>3, <1>7 DEF Oldest, Precedes
<1>15. Overtaken' = Overtaken /\ Behind' = Behind /\ Ring' = Ring
  BY <1>1, <1>3, SameRun
<1>16. Marked(c)'
  <2>1. ASSUME Has(c)' \cap Range(pushed) # {} PROVE \E d \in Range(pushed) : Mark(c)' <= stamp[d]
    <3>1. PICK d \in Range(pushed) : Mark(c) <= stamp[d]
      BY <1>1, <1>7, <2>1 DEF Marked
    <3>2. Mark(c)' <= stamp[d]
      BY <1>8, <1>9, <1>10, <3>1
    <3> QED
      BY <3>2
  <2>2. lastSeq'[c] <= Mark(c)' /\ Taken(c)' <= Len(sent)
    BY <1>2, <1>8, <1>9, <1>10, <1>12
  <2> QED
    BY <1>3, <1>4, <1>5, <1>6, <2>1, <2>2 DEF Marked
<1>17. Whole(c)'
  BY <1>5 DEF Whole
<1>18. ASSUME NEW e \in Ring, e \in Unread(c)', e \in Past(c)'
       PROVE  e \in Has(c)' \cup Overtaken \cup Behind \cup Oldest(c)'
  <2>1. e \in Has(c) \cup Overtaken \cup Behind \cup Oldest(c)
    BY <1>1, <1>11, <1>13, <1>18 DEF SkipInv
  <2>2. CASE e \in Range(wire[c])
    BY <1>1, <1>11, <1>18, <2>2 DEF Marked
  <2>3. CASE e \in InFill(c)
    BY <1>1, <1>11, <1>18, <2>3 DEF Marked
  <2> QED
    BY <1>7, <1>14, <2>1, <2>2, <2>3 DEF Has
<1>19. SkipInv(c)'
  BY <1>15, <1>16, <1>17, <1>18 DEF SkipInv
<1> QED
  BY <1>2, <1>4, <1>19, OthersMany

LEMMA InitMany == Init => ManyInv
<1> SUFFICES ASSUME Init PROVE ManyInv
  OBVIOUS
<1>1. Range(pushed) = {} /\ Range(sent) = {} /\ IsInjective(sent) /\ Len(sent) = 0 /\ Len(pushed) = 0
  BY RangeEmpty, EmptySeq DEF Init
<1>2. \A p \in Producers : ingesting[p].at = "idle"
  BY DEF Init, Idle
<1>3. Numbered
  BY <1>1, <1>2 DEF Numbered, ThisRun
<1>4. ASSUME NEW c \in Consumers PROVE SkipInv(c)
  <2>1. /\ task[c] = "none" /\ fill[c] = NoFill /\ lastSeq[c] = 0
        /\ wire[c] = <<>> /\ evicted = 0
    BY DEF Init
  <2>2. FillLeft(c) = {} /\ InFill(c) = {}
    BY <2>1 DEF FillLeft, InFill, NoFill
  <2>3. Mark(c) = 0 /\ Taken(c) = 0
    BY <1>1, <2>1 DEF Mark, Taken, Running
  <2>4. Range(wire[c]) = {} /\ Len(wire[c]) = 0
    BY <2>1, RangeEmpty, EmptySeq
  <2>5. Marked(c)
    BY <1>1, <2>1, <2>2, <2>3, <2>4 DEF Marked
  <2>6. Whole(c)
    BY <2>2 DEF Whole
  <2>7. Ring = {}
    BY <1>1, <2>1 DEF Ring
  <2> QED
    BY <2>5, <2>6, <2>7 DEF SkipInv
<1> QED
  BY <1>3, <1>4 DEF ManyInv

LEMMA StampMany ==
  ASSUME IInv, ManyInv, NEW p \in Producers, Stamp(p)
  PROVE  ManyInv'
<1> DEFINE n == Len(stamp) + 1
<1>1. /\ TypeOK /\ HubInv /\ Numbered /\ \A d \in Consumers : ConsumerInv(d) /\ SkipInv(d)
  BY DEF IInv, ManyInv
<1>2. /\ ingesting[p] = Idle /\ seq' = seq + 1 /\ stamp' = Append(stamp, seq + 1)
      /\ ingesting' = [ingesting EXCEPT ![p] = [at |-> "stamped", event |-> n]]
      /\ pushed' = pushed /\ evicted' = evicted /\ sent' = sent
      /\ UNCHANGED <<taskVars, subVars>>
  BY DEF Stamp
<1>3. Len(stamp) \in Nat /\ seq \in Nat /\ stamp \in Seq(Nat)
  BY <1>1, LenProperties DEF TypeOK
<1>4. stamp'[n] = seq + 1 /\ \A e \in Events : stamp'[e] = stamp[e]
  BY <1>2, <1>3, AppendProperties DEF Events
<1>5. \A q \in Producers \ {p} : ingesting'[q] = ingesting[q]
  BY <1>1, <1>2 DEF TypeOK
<1>6. ingesting'[p] = [at |-> "stamped", event |-> n]
  BY <1>1, <1>2 DEF TypeOK
<1>7. Range(pushed) \subseteq Events /\ \A e \in Range(pushed) : stamp'[e] = stamp[e]
  BY <1>1, <1>4 DEF HubInv
<1>8. ThisRun \subseteq Events /\ \A e \in ThisRun : stamp[e] <= seq
  BY <1>1 DEF HubInv, ThisRun
<1>9. ThisRun' \subseteq ThisRun \cup {n}
  BY <1>2, <1>5, <1>6 DEF ThisRun
<1>10. \A e \in Events : e \in Nat /\ e < n /\ stamp[e] \in Nat
  BY <1>3, ElementOfSeq DEF Events
<1>11. Numbered'
  <2>1. ASSUME NEW d \in ThisRun', NEW e \in ThisRun', d < e PROVE stamp'[d] < stamp'[e]
    <3>1. CASE e = n
      <4>1. d \in ThisRun
        BY <1>3, <1>9, <2>1, <3>1
      <4>2. stamp'[d] = stamp[d] /\ stamp[d] <= seq /\ stamp[d] \in Nat
        BY <1>4, <1>8, <1>10, <4>1
      <4> QED
        BY <1>3, <1>4, <3>1, <4>2
    <3>2. CASE e # n
      <4>1. e \in ThisRun /\ e < n /\ e \in Nat
        BY <1>8, <1>9, <1>10, <3>2
      <4>2. d \in ThisRun
        BY <1>3, <1>9, <2>1, <4>1
      <4>3. stamp[d] < stamp[e]
        BY <1>1, <2>1, <4>1, <4>2 DEF Numbered
      <4> QED
        BY <1>4, <1>8, <4>1, <4>2, <4>3
    <3> QED
      BY <3>1, <3>2
  <2>2. \A q \in Producers : ingesting'[q].at = "buffered" =>
          q # p /\ ingesting'[q] = ingesting[q]
    BY <1>5, <1>6
  <2> HIDE DEF n
  <2>3. \A q \in Producers : ingesting'[q].at = "buffered" =>
          /\ ingesting'[q].event \notin Range(sent)
          /\ \A r \in Producers : ingesting'[r].at = "buffered" /\ ingesting'[r].event = ingesting'[q].event => r = q
    BY <1>1, <2>2 DEF Numbered
  <2>4. IsInjective(sent)
    BY <1>1 DEF Numbered
  <2> QED
    BY <1>2, <2>1, <2>3, <2>4 DEF Numbered
<1>12. ASSUME NEW d \in Consumers PROVE SkipInv(d)'
  <2>1. /\ task'[d] = task[d] /\ since'[d] = since[d] /\ fill'[d] = fill[d] /\ pos'[d] = pos[d]
        /\ lastSent'[d] = lastSent[d] /\ wire'[d] = wire[d] /\ lastSeq'[d] = lastSeq[d]
        /\ got'[d] = got[d]
    BY <1>2 DEF taskVars, subVars
  <2> QED
    BY <1>1, <1>2, <1>7, <2>1, SameConsumer
<1> QED
  BY <1>11, <1>12 DEF ManyInv

LEMMA RestartMany ==
  ASSUME IInv, ManyInv, Restart
  PROVE  ManyInv'
<1>1. /\ pushed' = <<>> /\ evicted' = 0 /\ sent' = <<>>
      /\ ingesting' = [p \in Producers |-> Idle] /\ lastSeq' = lastSeq
  BY DEF Restart, subVars
<1>2. Range(pushed') = {} /\ Range(sent') = {} /\ IsInjective(sent') /\ Len(sent') = 0 /\ Len(pushed') = 0
  BY <1>1, RangeEmpty, EmptySeq
<1>3. \A p \in Producers : ingesting'[p].at = "idle"
  BY <1>1 DEF Idle
<1>4. Numbered'
  BY <1>2, <1>3 DEF Numbered, ThisRun
<1>5. ASSUME NEW c \in Consumers PROVE SkipInv(c)'
  <2>1. /\ task'[c] = "none" /\ fill'[c] = NoFill /\ wire'[c] = <<>> /\ lastSeq'[c] = lastSeq[c]
        /\ lastSeq[c] \in Nat
    BY DEF Restart, subVars, IInv, TypeOK
  <2>2. FillLeft(c)' = {} /\ InFill(c)' = {}
    BY <2>1 DEF FillLeft, InFill, NoFill
  <2>3. Mark(c)' = lastSeq[c] /\ Taken(c)' = 0
    BY <1>2, <2>1 DEF Mark, Taken, Running
  <2>4. Range(wire'[c]) = {} /\ Len(wire'[c]) = 0
    BY <2>1, RangeEmpty, EmptySeq
  <2>5. Marked(c)'
    BY <1>2, <2>1, <2>2, <2>3, <2>4 DEF Marked
  <2>6. Whole(c)'
    BY <2>2 DEF Whole
  <2>7. Ring' = {}
    BY <1>1, <1>2 DEF Ring
  <2> QED
    BY <2>5, <2>6, <2>7 DEF SkipInv
<1> QED
  BY <1>4, <1>5 DEF ManyInv

LEMMA BufferMany ==
  ASSUME IInv, ManyInv, NEW p \in Producers, Buffer(p)
  PROVE  ManyInv'
<1> DEFINE w == ingesting[p].event
<1>1. /\ TypeOK /\ HubInv /\ Numbered /\ \A d \in Consumers : ConsumerInv(d) /\ SkipInv(d)
  BY DEF IInv, ManyInv
<1>2. /\ ingesting[p].at = "stamped" /\ pushed' = Append(pushed, w) /\ evicted' = EvictedAfterPush
      /\ ingesting' = [ingesting EXCEPT ![p].at = "buffered"]
      /\ seq' = seq /\ stamp' = stamp /\ sent' = sent /\ UNCHANGED <<taskVars, subVars>>
  BY DEF Buffer
<1>3. w \in Events /\ w \notin Range(pushed) /\ w \in Nat /\ w \in ThisRun /\ stamp[w] \in Nat
  <2>1. w \in Events \ Range(pushed) /\ w \in ThisRun
    BY <1>1, <1>2 DEF HubInv, ThisRun
  <2> QED
    BY <1>1, <2>1, ElementOfSeq DEF TypeOK, Events
<1>4. /\ ingesting'[p].at = "buffered" /\ ingesting'[p].event = w
      /\ \A q \in Producers \ {p} : ingesting'[q] = ingesting[q]
  <2>1. ingesting \in [Producers -> Step]
    BY <1>1 DEF TypeOK
  <2> QED
    BY <1>2, <2>1 DEF Step
<1>5. pushed \in Seq(Nat) /\ sent \in Seq(Nat) /\ Range(sent) \subseteq Range(pushed)
  BY <1>1 DEF TypeOK, HubInv
<1> HIDE DEF w
<1>6. /\ Len(pushed') = Len(pushed) + 1 /\ Len(pushed) \in Nat /\ evicted \in Nat
      /\ \A i \in 1..Len(pushed) : pushed'[i] = pushed[i] /\ pushed[i] \in Range(pushed)
      /\ pushed'[Len(pushed) + 1] = w
      /\ Range(pushed') = Range(pushed) \cup {w}
  <2>1. evicted \in Nat
    BY <1>1, <1>5, LenProperties DEF TypeOK
  <2>2. w \in Nat /\ pushed' = Append(pushed, w)
    BY <1>2, <1>3
  <2>3. /\ Len(pushed') = Len(pushed) + 1 /\ Len(pushed) \in Nat
        /\ \A i \in 1..Len(pushed) : pushed'[i] = pushed[i]
        /\ pushed'[Len(pushed) + 1] = w
    BY <1>5, <2>2, AppendProperties, LenProperties
  <2>4. Range(pushed') = Range(pushed) \cup {w}
    BY <1>5, <2>2, RangeAppend
  <2>5. \A i \in 1..Len(pushed) : pushed[i] \in Range(pushed)
    BY <1>5, RangePositions
  <2> QED
    BY <2>1, <2>3, <2>4, <2>5
<1>7. PICK ev \in Int : ev = evicted' /\ ev >= evicted
  <2>1. EvictedAfterPush \in Int /\ EvictedAfterPush >= evicted
    BY <1>6, StreamAssumption DEF EvictedAfterPush, Larger, StreamAssumption
  <2> QED
    BY <1>2, <2>1
<1>8. ThisRun' \subseteq ThisRun
  BY <1>3, <1>4, <1>6 DEF ThisRun
<1>9. Numbered'
  <2>1. \A d, e \in ThisRun : d < e => stamp[d] < stamp[e]
    BY <1>1 DEF Numbered
  <2>2. \A d, e \in ThisRun' : d < e => stamp[d] < stamp[e]
    BY <1>8, <2>1
  <2>3. \A q \in Producers \ {p} : ingesting[q].at = "buffered" =>
          ingesting[q].event \in Range(pushed) /\ ingesting[q].event # w
    BY <1>1, <1>3 DEF HubInv
  <2>4. ASSUME NEW q \in Producers, ingesting'[q].at = "buffered"
        PROVE  /\ ingesting'[q].event \notin Range(sent)
               /\ \A r \in Producers : ingesting'[r].at = "buffered" /\ ingesting'[r].event = ingesting'[q].event => r = q
    <3>1. CASE q = p
      BY <1>3, <1>4, <1>5, <2>3, <3>1
    <3>2. CASE q # p
      <4>1. ingesting'[q] = ingesting[q] /\ ingesting[q].event # w
        BY <1>4, <2>3, <2>4, <3>2
      <4> QED
        BY <1>1, <1>4, <2>4, <4>1 DEF Numbered
    <3> QED
      BY <3>1, <3>2
  <2>5. IsInjective(sent)
    BY <1>1 DEF Numbered
  <2> QED
    BY <1>2, <2>2, <2>4, <2>5 DEF Numbered
<1>10. /\ \A d, e : Precedes(pushed, d, e) => Precedes(pushed', d, e)
       /\ \A d \in Range(pushed) : Precedes(pushed', d, w)
  <2>1. w \in Nat /\ pushed' = Append(pushed, w)
    BY <1>2, <1>3
  <2> QED
    BY <1>5, <2>1, PrecedesAppend
<1>11. Overtaken \subseteq Overtaken' /\ Behind \subseteq Behind'
  <2>1. Overtaken \subseteq Overtaken'
    <3>1. \A d, e : Overtook(d, e) => stamp[d] > stamp[e] /\ (Precedes(pushed', d, e) \/ Precedes(sent, d, e))
      BY <1>10 DEF Overtook
    <3>2. \A d, e : Overtook(d, e) => Overtook(d, e)'
      BY <1>2, <3>1 DEF Overtook, Precedes
    <3> QED
      BY <1>6, <3>2 DEF Overtaken
  <2>2. Behind \subseteq Behind'
    BY <1>2, <1>6 DEF Behind
  <2> QED
    BY <2>1, <2>2
<1>12. Ring' \subseteq Ring \cup {w}
  <2>1. ASSUME NEW i \in (ev + 1)..(Len(pushed) + 1) PROVE pushed'[i] \in Ring \cup {w}
    <3>1. CASE i = Len(pushed) + 1
      BY <1>6, <3>1
    <3>2. CASE i # Len(pushed) + 1
      <4>1. i \in (evicted + 1)..Len(pushed) /\ i \in 1..Len(pushed)
        <5>1. Len(pushed) \in Nat /\ evicted \in Nat /\ ev >= evicted
          BY <1>6, <1>7
        <5> QED
          BY <2>1, <3>2, <5>1
      <4> QED
        BY <1>6, <4>1 DEF Ring
    <3> QED
      BY <3>1, <3>2
  <2>2. Ring' = {pushed'[i] : i \in (ev + 1)..(Len(pushed) + 1)}
    BY <1>6, <1>7 DEF Ring
  <2> QED
    BY <2>1, <2>2
<1>13. ASSUME NEW d \in Consumers PROVE SkipInv(d)'
  <2>1. /\ task'[d] = task[d] /\ since'[d] = since[d] /\ fill'[d] = fill[d] /\ pos'[d] = pos[d]
        /\ lastSent'[d] = lastSent[d] /\ wire'[d] = wire[d] /\ lastSeq'[d] = lastSeq[d]
        /\ got'[d] = got[d]
    BY <1>2 DEF taskVars, subVars
  <2>2. ConsumerInv(d) /\ Marked(d) /\ Whole(d) /\ SkipInv(d)
    BY <1>1 DEF SkipInv
  <2>3. FillLeft(d)' = FillLeft(d) /\ InFill(d)' = InFill(d)
    <3>1. \A i \in 1..Len(pushed) : pushed'[i] = pushed[i] /\ stamp'[pushed[i]] = stamp[pushed[i]]
      BY <1>2, <1>6
    <3> QED
      BY <1>1, <2>1, <3>1, SameFill
  <2>4. \A i \in FillLeft(d) : i \in 1..Len(pushed)
    <3>1. fill[d].from \in Nat /\ fill[d].to \in Nat
      BY <1>1 DEF IInv, TypeOK, Batch
    <3>2. fill[d].from >= 1 /\ fill[d].to <= Len(pushed)
      BY <2>2 DEF ConsumerInv
    <3>3. \A i \in FillLeft(d) : i \in fill[d].from .. fill[d].to
      BY DEF FillLeft
    <3> QED
      BY <1>6, <3>1, <3>2, <3>3
  <2>5. InFill(d) \subseteq Range(pushed)
    BY <1>6, <2>4 DEF InFill
  <2>6. w \notin Range(got[d]) /\ w \notin Range(wire[d]) /\ Range(wire[d]) \subseteq Range(pushed)
    BY <1>2, <1>3, <2>2 DEF ConsumerInv, w
  <2>7. Has(d)' = Has(d) /\ w \notin Has(d)
    BY <1>3, <2>1, <2>3, <2>5, <2>6 DEF Has
  <2>8. Has(d)' \cap Range(pushed') = Has(d) \cap Range(pushed)
    BY <1>6, <2>7
  <2>9. Mark(d)' = Mark(d) /\ Taken(d)' = Taken(d)
    BY <1>2, <2>1 DEF Mark, Taken, Running
  <2>10. Past(d) \subseteq Past(d)' /\ Past(d)' \subseteq Past(d) \cup {w}
    BY <1>2, <1>6, <2>9 DEF Past
  <2>11. Unread(d)' \subseteq Unread(d) \cup {w}
    BY <1>2, <1>6, <2>9 DEF Unread
  <2>12. Oldest(d) \subseteq Oldest(d)'
    <3>1. ASSUME NEW e \in Oldest(d) PROVE e \in Oldest(d)'
      <4>1. e \in Range(pushed') /\ \A a \in Has(d)' \cap Range(pushed') : Precedes(pushed', e, a)
        BY <1>6, <1>10, <2>8, <3>1 DEF Oldest
      <4> QED
        BY <4>1 DEF Oldest, Precedes
    <3> QED
      BY <3>1
  <2>13. Marked(d)'
    <3>1. InFill(d) \cap Past(d)' \subseteq InFill(d) \cap Past(d)
      BY <1>3, <2>5, <2>10
    <3>2. Has(d)' \cap Range(pushed') # {} => \E e \in Range(pushed') : Mark(d) <= stamp[e]
      BY <1>6, <2>2, <2>8 DEF Marked
    <3>3. /\ task[d] \notin {"snapshot", "live"} => FillLeft(d) = {}
          /\ lastSeq[d] <= Mark(d) /\ Taken(d) <= Len(sent)
          /\ task[d] = "snapshot" => InFill(d) \cap Past(d)' = {}
          /\ InFill(d) \cap Past(d)' \subseteq Overtaken'
      BY <1>11, <2>2, <3>1 DEF Marked
    <3>4. \A i, j \in 1..Len(wire[d]) :
            i < j /\ stamp[wire[d][j]] < stamp[wire[d][i]] => wire[d][j] \in Overtaken'
      BY <1>11, <2>2 DEF Marked
    <3>5. \A e \in Range(wire[d]) : stamp[e] <= lastSeq[d] => e \in Overtaken'
      BY <1>11, <2>2 DEF Marked
    <3> QED
      BY <1>2, <2>1, <2>3, <2>9, <3>2, <3>3, <3>4, <3>5 DEF Marked
  <2>14. Whole(d)'
    <3>1. ASSUME NEW i \in FillLeft(d), NEW j \in (ev + 1)..(i - 1)
          PROVE  pushed'[j] \in Past(d)' \cup Has(d)' \cup Oldest(d)'
      <4>1. i \in 1..Len(pushed)
        BY <2>4, <3>1
      <4>2. j \in (evicted + 1)..(i - 1) /\ j \in 1..Len(pushed)
        <5>1. Len(pushed) \in Nat /\ evicted \in Nat /\ ev >= evicted
          BY <1>6, <1>7
        <5> QED
          BY <3>1, <4>1, <5>1
      <4>3. pushed[j] \in Past(d) \cup Has(d) \cup Oldest(d)
        BY <2>2, <3>1, <4>2 DEF Whole
      <4> QED
        BY <1>6, <2>7, <2>10, <2>12, <4>2, <4>3
    <3> QED
      BY <1>7, <2>3, <3>1 DEF Whole
  <2>15. ASSUME NEW e \in Ring', e \in Unread(d)', e \in Past(d)'
         PROVE  e \in Has(d)' \cup Overtaken' \cup Behind' \cup Oldest(d)'
    <3>1. CASE e # w
      <4>1. e \in Ring \cap Unread(d) \cap Past(d)
        BY <1>12, <2>10, <2>11, <2>15, <3>1
      <4>2. e \in Has(d) \cup Overtaken \cup Behind \cup Oldest(d)
        BY <2>2, <4>1 DEF SkipInv
      <4> QED
        BY <1>11, <2>7, <2>12, <4>2
    <3>2. CASE e = w /\ Has(d) \cap Range(pushed) = {}
      <4>1. e \in Range(pushed') /\ Has(d)' \cap Range(pushed') = {}
        BY <1>6, <2>8, <3>2
      <4> QED
        BY <4>1 DEF Oldest
    <3>3. CASE e = w /\ Has(d) \cap Range(pushed) # {}
      <4>1. PICK a \in Range(pushed) : Mark(d) <= stamp[a]
        BY <2>2, <3>3 DEF Marked
      <4>2. stamp[w] <= Mark(d)
        BY <1>2, <2>9, <2>15, <3>3 DEF Past
      <4>3. Mark(d) \in Nat
        BY <1>1 DEF Mark, TypeOK
      <4>4. stamp[a] \in Nat /\ a \in Nat /\ a \in ThisRun
        BY <1>1, RunFacts DEF ThisRun
      <4>5. stamp[w] <= stamp[a]
        BY <1>3, <4>1, <4>2, <4>3, <4>4
      <4>6. a # w /\ (a < w \/ w < a)
        BY <1>3, <4>1, <4>4
      <4>7. stamp[a] < stamp[w] \/ stamp[w] < stamp[a]
        BY <1>1, <1>3, <4>4, <4>6 DEF Numbered
      <4>8. stamp[a] > stamp[w]
        BY <1>3, <4>4, <4>5, <4>7
      <4>9. Precedes(pushed', a, w)
        BY <1>10, <4>1
      <4>10. w \in Overtaken'
        BY <1>2, <1>6, <4>1, <4>8, <4>9 DEF Overtaken, Overtook, Precedes
      <4> QED
        BY <3>3, <4>10
    <3> QED
      BY <3>1, <3>2, <3>3
  <2> QED
    BY <2>13, <2>14, <2>15 DEF SkipInv
<1> QED
  BY <1>9, <1>13 DEF ManyInv

LEMMA SendMany ==
  ASSUME IInv, ManyInv, NEW p \in Producers, Send(p)
  PROVE  ManyInv'
<1> DEFINE w == ingesting[p].event
<1>1. /\ TypeOK /\ HubInv /\ Numbered /\ \A d \in Consumers : ConsumerInv(d) /\ SkipInv(d)
  BY DEF IInv, ManyInv
<1>2. /\ ingesting[p].at = "buffered" /\ sent' = Append(sent, w)
      /\ ingesting' = [ingesting EXCEPT ![p] = Idle]
      /\ seq' = seq /\ stamp' = stamp /\ pushed' = pushed /\ evicted' = evicted
      /\ UNCHANGED <<taskVars, subVars>>
  BY DEF Send
<1>3. w \in Range(pushed) /\ w \notin Range(sent) /\ w \in Nat
  <2>1. w \in Range(pushed) /\ w \notin Range(sent)
    BY <1>1, <1>2 DEF HubInv, Numbered
  <2> QED
    BY <1>1, <2>1, RunFacts
<1>4. ingesting'[p] = Idle /\ \A q \in Producers \ {p} : ingesting'[q] = ingesting[q]
  BY <1>1, <1>2 DEF TypeOK
<1>5. \A q \in Producers \ {p} : ingesting[q].at = "buffered" => ingesting[q].event # w
  BY <1>1, <1>2 DEF Numbered
<1>6. sent \in Seq(Nat)
  BY <1>1 DEF TypeOK
<1> HIDE DEF w
<1>7. /\ Len(sent') = Len(sent) + 1 /\ Len(sent) \in Nat
      /\ \A i \in 1..Len(sent) : sent'[i] = sent[i]
      /\ Range(sent') = Range(sent) \cup {w}
  BY <1>2, <1>3, <1>6, AppendProperties, LenProperties, RangeAppend
<1>8. Numbered'
  <2>1. \A d, e \in ThisRun' : d < e => stamp[d] < stamp[e]
    <3>1. ThisRun' \subseteq ThisRun
      BY <1>2, <1>4 DEF ThisRun, Idle
    <3>2. \A d, e \in ThisRun : d < e => stamp[d] < stamp[e]
      BY <1>1 DEF Numbered
    <3> QED
      BY <3>1, <3>2
  <2>2. IsInjective(sent')
    BY <1>1, <1>2, <1>3, <1>6, InjectiveAppend DEF Numbered
  <2>3. \A q \in Producers : ingesting'[q].at = "buffered" => q # p /\ ingesting'[q] = ingesting[q]
    BY <1>4 DEF Idle
  <2>4. \A q \in Producers : ingesting'[q].at = "buffered" =>
          /\ ingesting'[q].event \notin Range(sent')
          /\ \A r \in Producers : ingesting'[r].at = "buffered" /\ ingesting'[r].event = ingesting'[q].event => r = q
    BY <1>1, <1>5, <1>7, <2>3 DEF Numbered
  <2> QED
    BY <1>2, <2>1, <2>2, <2>4 DEF Numbered
<1>9. /\ \A d, e : Precedes(sent, d, e) => Precedes(sent', d, e)
      /\ \A d \in Range(sent) : Precedes(sent', d, w)
  BY <1>2, <1>3, <1>6, PrecedesAppend
<1>10. Overtaken \subseteq Overtaken'
  <2>1. \A d, e : Overtook(d, e) => stamp[d] > stamp[e] /\ (Precedes(pushed, d, e) \/ Precedes(sent', d, e))
    BY <1>9 DEF Overtook
  <2>2. \A d, e : Overtook(d, e) => Overtook(d, e)'
    BY <1>2, <2>1 DEF Overtook, Precedes
  <2> QED
    BY <1>2, <2>2 DEF Overtaken
<1>11. Behind \subseteq Behind' \cup Overtaken'
  <2>1. ASSUME NEW e \in Behind PROVE e \in Behind' \cup Overtaken'
    <3>1. e \in Range(pushed) /\ e \notin Range(sent)
      BY <2>1 DEF Behind
    <3>2. PICK d \in Range(sent) : stamp[d] > stamp[e]
      BY <2>1 DEF Behind
    <3>3. d \in Range(pushed) /\ d \in Range(sent')
      BY <1>1, <1>7, <3>2 DEF HubInv
    <3>4. CASE e = w
      <4>1. stamp[d] > stamp[e] /\ Precedes(sent', d, e)
        BY <1>9, <3>2, <3>4
      <4>2. Overtook(d, e)'
        BY <1>2, <4>1 DEF Overtook, Precedes
      <4> QED
        BY <1>2, <3>1, <3>3, <4>2 DEF Overtaken
    <3>5. CASE e # w
      <4>1. e \notin Range(sent')
        BY <1>7, <3>1, <3>5
      <4> QED
        BY <1>2, <3>1, <3>2, <3>3, <4>1 DEF Behind
    <3> QED
      BY <3>4, <3>5
  <2> QED
    BY <2>1
<1>12. Ring' = Ring
  BY <1>2 DEF Ring
<1>13. ASSUME NEW d \in Consumers PROVE SkipInv(d)'
  <2>1. /\ task'[d] = task[d] /\ since'[d] = since[d] /\ fill'[d] = fill[d] /\ pos'[d] = pos[d]
        /\ lastSent'[d] = lastSent[d] /\ wire'[d] = wire[d] /\ lastSeq'[d] = lastSeq[d]
        /\ got'[d] = got[d]
    BY <1>2 DEF taskVars, subVars
  <2>2. Marked(d) /\ Whole(d) /\ SkipInv(d)
    BY <1>1 DEF SkipInv
  <2>3. FillLeft(d)' = FillLeft(d) /\ InFill(d)' = InFill(d)
    BY <1>2, <2>1 DEF FillLeft, InFill
  <2>4. Has(d)' = Has(d)
    BY <2>1, <2>3 DEF Has
  <2>5. Mark(d)' = Mark(d)
    BY <2>1 DEF Mark, Running
  <2>6. Past(d)' = Past(d) /\ Oldest(d)' = Oldest(d)
    BY <1>2, <2>4, <2>5 DEF Past, Oldest, Precedes
  <2>7. Taken(d) \in Nat /\ Taken(d) <= Len(sent)
    BY <1>1, <1>7, <2>2 DEF Taken, Marked, TypeOK
  <2>8. Taken(d)' = Taken(d) \/ Taken(d)' = Len(sent) + 1
    BY <1>7, <2>1 DEF Taken, Running
  <2>9. Taken(d)' <= Len(sent') /\ Taken(d) <= Taken(d)' /\ Taken(d)' \in Nat
    BY <1>7, <2>7, <2>8
  <2>10. Unread(d)' \subseteq Unread(d)
    <3>1. \A j \in 1..Taken(d) : j \in 1..Taken(d)' /\ sent'[j] = sent[j]
      BY <1>7, <2>7, <2>9
    <3> QED
      BY <1>2, <3>1 DEF Unread
  <2>11. Marked(d)'
    <3>1. /\ task[d] \notin {"snapshot", "live"} => FillLeft(d) = {}
          /\ lastSeq[d] <= Mark(d)
          /\ Has(d) \cap Range(pushed) # {} => \E e \in Range(pushed) : Mark(d) <= stamp[e]
          /\ task[d] = "snapshot" => InFill(d) \cap Past(d) = {}
          /\ InFill(d) \cap Past(d) \subseteq Overtaken'
      BY <1>10, <2>2 DEF Marked
    <3>2. \A i, j \in 1..Len(wire[d]) :
            i < j /\ stamp[wire[d][j]] < stamp[wire[d][i]] => wire[d][j] \in Overtaken'
      BY <1>10, <2>2 DEF Marked
    <3>3. \A e \in Range(wire[d]) : stamp[e] <= lastSeq[d] => e \in Overtaken'
      BY <1>10, <2>2 DEF Marked
    <3> QED
      BY <1>2, <2>1, <2>3, <2>4, <2>5, <2>6, <2>9, <3>1, <3>2, <3>3 DEF Marked
  <2>12. Whole(d)'
    BY <1>2, <2>2, <2>3, <2>4, <2>6 DEF Whole
  <2>13. \A e \in Ring : e \in Unread(d)' /\ e \in Past(d) =>
           e \in Has(d) \cup Overtaken' \cup Behind' \cup Oldest(d)
    BY <1>10, <1>11, <2>2, <2>10 DEF SkipInv
  <2> QED
    BY <1>12, <2>4, <2>6, <2>11, <2>12, <2>13 DEF SkipInv
<1> QED
  BY <1>8, <1>13 DEF ManyInv

LEMMA StepMany == IInv /\ ManyInv /\ [Next]_vars => ManyInv'
<1> SUFFICES ASSUME IInv, ManyInv, [Next]_vars PROVE ManyInv'
  OBVIOUS
<1>1. CASE Ingest
  BY <1>1, StampMany, BufferMany, SendMany DEF Ingest
<1>2. ASSUME NEW c \in Consumers, Connect(c) \/ RunConsumer(c) \/ Deliver(c) \/ Break(c)
      PROVE  ManyInv'
  BY <1>2, ConnectMany, SnapshotMany, SubscribeMany, WriteFillMany, ReceiveMany, LagMany,
     RefillMany, DeliverMany, BreakMany
  DEF RunConsumer
<1>3. CASE Restart
  BY <1>3, RestartMany
<1>4. CASE UNCHANGED vars
  <2>1. /\ TypeOK /\ HubInv /\ Numbered /\ \A d \in Consumers : ConsumerInv(d) /\ SkipInv(d)
    BY DEF IInv, ManyInv
  <2>2. /\ stamp' = stamp /\ pushed' = pushed /\ evicted' = evicted
        /\ sent' = sent /\ ingesting' = ingesting /\ UNCHANGED <<taskVars, subVars>>
    BY <1>4 DEF vars, hubVars
  <2>3. Numbered'
    BY <2>1, <2>2 DEF Numbered, ThisRun
  <2>4. ASSUME NEW d \in Consumers PROVE SkipInv(d)'
    <3>1. /\ task'[d] = task[d] /\ since'[d] = since[d] /\ fill'[d] = fill[d] /\ pos'[d] = pos[d]
          /\ lastSent'[d] = lastSent[d] /\ wire'[d] = wire[d] /\ lastSeq'[d] = lastSeq[d]
          /\ got'[d] = got[d]
      BY <2>2 DEF taskVars, subVars
    <3> QED
      BY <2>1, <2>2, <3>1, SameConsumer
  <2> QED
    BY <2>3, <2>4 DEF ManyInv
<1> QED
  BY <1>1, <1>2, <1>3, <1>4 DEF Next

\* However many loggers ingest at once, whatever the clock of a restarted
\* gateway reads and whatever the sizes of ring and channel: an event that
\* run_consumer will skip as already delivered (hub.rs:850), and c does not
\* have, was overtaken in Hub::ingest, is older than all c has of this run, or
\* has left the ring.
THEOREM SkipsAreAccounted == Spec => []SkipsAccounted
<1>1. ASSUME IInv, ManyInv PROVE SkipsAccounted
  <2> SUFFICES ASSUME NEW c \in Consumers, task[c] = "live", FillLeft(c) = {},
                      NEW i \in (Larger(pos[c], Len(sent) - BroadcastCap) + 1)..Len(sent),
                      AlreadySent(c, sent[i])
               PROVE  \/ sent[i] \in Range(got[c]) \cup Range(wire[c])
                      \/ \E d \in Range(pushed) : Overtook(d, sent[i])
                      \/ \A d \in (Range(got[c]) \cup Range(wire[c])) \cap Range(pushed) :
                           Precedes(pushed, sent[i], d)
                      \/ sent[i] \notin Ring
    BY DEF SkipsAccounted
  <2> DEFINE e == sent[i]
  <2>1. TypeOK /\ HubInv /\ Numbered /\ SkipInv(c)
    BY <1>1 DEF IInv, ManyInv
  <2>2. /\ Len(sent) \in Nat /\ pos[c] \in Nat /\ BroadcastCap \in Nat
        /\ \A j, k \in 1..Len(sent) : sent[j] = sent[k] => j = k
        /\ \A j \in 1..Len(sent) : sent[j] \in Range(sent)
        /\ Range(sent) \subseteq Range(pushed)
    BY <2>1, RunFacts, StreamAssumption DEF TypeOK, StreamAssumption
  <2>3. i \in Nat /\ pos[c] < i /\ i <= Len(sent) /\ i \in 1..Len(sent)
    BY <2>2 DEF Larger
  <2>4. e \in Range(sent) /\ e \in Range(pushed)
    BY <2>2, <2>3
  <2>5. Taken(c) = pos[c] /\ Mark(c) = lastSent[c] /\ InFill(c) = {}
    BY DEF Taken, Mark, Running, InFill
  <2>6. e \in Unread(c)
    <3>1. \A j \in 1..pos[c] : j \in 1..Len(sent) /\ j # i
      BY <2>2, <2>3
    <3> QED
      BY <2>2, <2>3, <2>4, <2>5, <3>1 DEF Unread
  <2>7. e \in Past(c)
    BY <2>4, <2>5 DEF Past, AlreadySent
  <2>8. e \notin Behind
    BY <2>4 DEF Behind
  <2>9. e \notin Ring \/ e \in Has(c) \cup Overtaken \cup Oldest(c)
    BY <2>1, <2>6, <2>7, <2>8 DEF SkipInv
  <2>10. Has(c) = Range(got[c]) \cup Range(wire[c])
    BY <2>5 DEF Has
  <2> QED
    BY <2>9, <2>10 DEF Overtaken, Oldest
<1>2. Init => ManyInv
  BY InitMany
<1>3. IInv /\ ManyInv /\ [Next]_vars => ManyInv'
  BY StepMany
<1> QED
  BY <1>1, <1>2, <1>3, InvariantHolds, PTL DEF Spec

=============================================================================
