-------------------------- MODULE LiveBridgeProofs ---------------------------
(***************************************************************************)
(* Proofs about LiveBridge for any administrators, channels and bounds:    *)
(* what the bot keeps of its settings is what it was told (routes, feed    *)
(* and command channel), what it takes from the gateway is shown where it  *)
(* was routed, and a topic that is left as it is was the last one sent.    *)
(***************************************************************************)
EXTENDS LiveBridge, SequenceTheorems, FiniteSetTheorems, WellFoundedInduction, TLAPS

-----------------------------------------------------------------------------
(* The channel of commands.                                                *)

\* Unless two administrators wrote at the same time, what one of them has yet
\* to store is what the row says, and nobody else has anything to store.
GateInv ==
  /\ setting \in [GateAdmins -> SUBSET (GateChannels \cup {AnyChannel})]
  /\ IsFiniteSet(Setting)
  /\ ~raced => \A a, b \in Setting : a = b /\ setting[a] = {gateRow}
  /\ GateAccounted

LEMMA WriteGateKeeps ==
  ASSUME GateInv, NEW a \in GateAdmins, WriteGate(a)
  PROVE  GateInv'
<1>1. CASE UNCHANGED <<gateRow, setting, raced>>
  <2>1. UNCHANGED gate
    BY DEF WriteGate, StoreLater
  <2> QED
    BY <1>1, <2>1 DEF GateInv, Setting, GateAccounted
<1>2. CASE ~UNCHANGED <<gateRow, setting, raced>>
  <2>1. PICK c \in GateChannels \cup {AnyChannel} :
          /\ gateRow' = c
          /\ setting' = [setting EXCEPT ![a] = {c}]
          /\ raced' = (raced \/ Setting # {})
    BY <1>2 DEF WriteGate
  <2>2. Setting' = Setting \cup {a}
    BY <2>1 DEF GateInv, Setting
  <2>3. setting' \in [GateAdmins -> SUBSET (GateChannels \cup {AnyChannel})]
    BY <2>1 DEF GateInv
  <2>4. IsFiniteSet(Setting')
    BY <2>2, FS_AddElement DEF GateInv
  <2>5. ASSUME ~raced', NEW b \in Setting'
        PROVE  b = a /\ setting'[b] = {gateRow'}
    BY <2>1, <2>2, <2>5 DEF GateInv
  <2> QED
    BY <2>2, <2>3, <2>4, <2>5 DEF GateInv, GateAccounted
<1> QED
  BY <1>1, <1>2

LEMMA StoreGateKeeps ==
  ASSUME GateInv, NEW a \in GateAdmins, StoreGate(a)
  PROVE  GateInv'
<1>1. PICK c \in setting[a] : gate' = c
  BY DEF StoreGate
<1>2. /\ setting' = [setting EXCEPT ![a] = {}]
      /\ setting' \in [GateAdmins -> SUBSET (GateChannels \cup {AnyChannel})]
      /\ UNCHANGED gateRow
  BY DEF StoreGate, GateInv
<1>3. a \in Setting /\ Setting' = Setting \ {a}
  BY <1>1, <1>2 DEF GateInv, Setting
<1>4. IsFiniteSet(Setting')
  BY <1>3, FS_RemoveElement DEF GateInv
<1>5. CASE raced'
  BY <1>2, <1>4, <1>5 DEF GateInv, GateAccounted
<1>6. CASE ~raced /\ ~raced'
  <2>1. Setting' = {} /\ gate' = gateRow'
    BY <1>1, <1>2, <1>3, <1>6 DEF GateInv
  <2> QED
    BY <1>2, <1>4, <2>1 DEF GateInv, GateAccounted
<1>7. CASE raced /\ ~raced'
  <2>1. ~(Cardinality(Setting) > 1) /\ gate' = gateRow
    BY <1>7 DEF StoreGate
  <2>2. Cardinality(Setting') = Cardinality(Setting) - 1 /\ Cardinality(Setting) \in Nat
    BY <1>3, FS_RemoveElement, FS_CardinalityType DEF GateInv
  <2>3. Cardinality(Setting') \in Nat
    BY <1>4, FS_CardinalityType
  <2>4. Setting' = {}
    BY <2>1, <2>2, <2>3, <1>4, FS_EmptySet
  <2> QED
    BY <1>2, <1>4, <2>1, <2>4 DEF GateInv, GateAccounted
<1> QED
  BY <1>5, <1>6, <1>7

LEMMA GateStepKeeps ==
  ASSUME GateInv, GateStep
  PROVE  GateInv'
<1>1. CASE RestartGate
  <2>1. setting' \in [GateAdmins -> SUBSET (GateChannels \cup {AnyChannel})] /\ Setting' = {}
    BY <1>1 DEF RestartGate, Setting
  <2> QED
    BY <1>1, <2>1, FS_EmptySet DEF GateInv, GateAccounted, RestartGate
<1> QED
  BY <1>1, WriteGateKeeps, StoreGateKeeps DEF GateStep

LEMMA GateInitHolds ==
  ASSUME GateInit
  PROVE  GateInv
<1>1. setting \in [GateAdmins -> SUBSET (GateChannels \cup {AnyChannel})] /\ Setting = {}
  BY DEF GateInit, Setting
<1> QED
  BY <1>1, FS_EmptySet DEF GateInit, GateInv, GateAccounted

LEMMA GateStutters ==
  ASSUME GateInv, UNCHANGED gateVars
  PROVE  GateInv'
BY DEF GateInv, gateVars, Setting, GateAccounted

-----------------------------------------------------------------------------
(* The topic of the feed's channel.                                        *)

TopicTypes ==
  /\ feedChannel \in TopicChannels \cup {NoChannel}
  /\ DOMAIN topic = TopicChannels
  /\ DOMAIN update = Updaters
  /\ target \in [Updaters -> TopicChannels \cup {NoChannel}]
  /\ DOMAIN text = Updaters

\* The lock: one at a time edits a topic, and whoever does found last_text out
\* of date, which only he can change.
OneEditor ==
  /\ \A u, v \in Updaters : update[u] = "edits" /\ update[v] = "edits" => u = v
  /\ \A u \in Updaters : update[u] = "edits" => target[u] \in TopicChannels /\ cached # "current"

\* A last_text that is current is shown where it was set, unless somebody has
\* edited that channel's topic since.
CachedIsShown ==
  cached = "current" => cachedFor \in touched \/ topic[cachedFor] = "current"

TopicInv == TopicTypes /\ OneEditor /\ CachedIsShown

LEMMA TopicInitHolds ==
  ASSUME TopicInit
  PROVE  TopicInv
<1>1. TopicTypes
  BY DEF TopicInit, TopicTypes
<1>2. \A u \in Updaters : update[u] # "edits"
  BY DEF TopicInit
<1>3. OneEditor
  BY <1>2 DEF OneEditor
<1> QED
  BY <1>1, <1>3 DEF TopicInv, TopicInit, CachedIsShown

LEMMA MinuteKeeps ==
  ASSUME TopicInv, MinutePasses
  PROVE  TopicInv'
<1>1. cached' # "current" /\ UNCHANGED <<update, target>>
  BY DEF MinutePasses, Aged
<1>2. TopicTypes'
  BY DEF TopicInv, TopicTypes, MinutePasses
<1>3. OneEditor'
  BY <1>1 DEF TopicInv, OneEditor
<1> QED
  BY <1>1, <1>2, <1>3 DEF TopicInv, CachedIsShown

LEMMA SomebodyKeeps ==
  ASSUME TopicInv, SomebodyEdits
  PROVE  TopicInv'
<1>1. PICK c \in TopicChannels : topic' = [topic EXCEPT ![c] = "other"] /\ touched' = touched \cup {c}
  BY DEF SomebodyEdits
<1>2. UNCHANGED <<feedChannel, cached, update, target, text, cachedFor>>
  BY DEF SomebodyEdits, updateVars
<1>3. TopicTypes'
  BY <1>1, <1>2 DEF TopicInv, TopicTypes
<1>4. OneEditor'
  BY <1>2 DEF TopicInv, OneEditor
<1>5. CachedIsShown'
  BY <1>1, <1>2 DEF TopicInv, TopicTypes, CachedIsShown
<1> QED
  BY <1>3, <1>4, <1>5 DEF TopicInv

\* A step of u that begins no edit and sets no text: only what he has read and
\* how far he is change.
LEMMA QuietKeeps ==
  ASSUME TopicInv, NEW u \in Updaters, update[u] # "edits",
         NEW v, v # "edits", update' = [update EXCEPT ![u] = v],
         feedChannel' \in TopicChannels \cup {NoChannel},
         target' \in {target, [target EXCEPT ![u] = feedChannel]},
         UNCHANGED <<topic, cached, text, cachedFor, touched>>
  PROVE  TopicInv'
<1>1. TopicTypes'
  BY DEF TopicInv, TopicTypes
<1>2. ASSUME NEW w \in Updaters, update'[w] = "edits"
      PROVE  update[w] = "edits" /\ target'[w] = target[w]
  BY <1>2 DEF TopicInv, TopicTypes
<1>3. OneEditor'
  BY <1>2 DEF TopicInv, OneEditor
<1> QED
  BY <1>1, <1>3 DEF TopicInv, CachedIsShown

LEMMA BeginEditKeeps ==
  ASSUME TopicInv, NEW u \in Updaters, BeginEdit(u), UNCHANGED <<feedChannel, topic, target, touched>>
  PROVE  TopicInv'
<1>1. /\ update' = [update EXCEPT ![u] = "edits"] /\ text' = [text EXCEPT ![u] = "current"]
      /\ UNCHANGED <<cached, cachedFor>>
      /\ \A v \in Updaters : update[v] # "edits"
      /\ target[u] # NoChannel /\ cached # "current"
  BY DEF BeginEdit, CacheLater, Runs, TopicLocked, Same
<1>2. TopicTypes'
  BY <1>1 DEF TopicInv, TopicTypes
<1>3. ASSUME NEW w \in Updaters, update'[w] = "edits"
      PROVE  w = u
  BY <1>1, <1>3 DEF TopicInv, TopicTypes
<1>4. target'[u] \in TopicChannels
  BY <1>1 DEF TopicInv, TopicTypes
<1>5. OneEditor'
  BY <1>1, <1>3, <1>4 DEF OneEditor
<1> QED
  BY <1>1, <1>2, <1>5 DEF TopicInv, CachedIsShown

LEMMA EditedKeeps ==
  ASSUME TopicInv, NEW u \in Updaters, Edited(u)
  PROVE  TopicInv'
<1>1. /\ update[u] = "edits" /\ target[u] \in TopicChannels
      /\ update' = [update EXCEPT ![u] = "idle"]
      /\ topic' = [topic EXCEPT ![target[u]] = text[u]]
      /\ cached' = text[u] /\ cachedFor' = target[u]
      /\ UNCHANGED <<feedChannel, target, text>>
  BY DEF Edited, TopicInv, OneEditor
<1>2. TopicTypes'
  BY <1>1 DEF TopicInv, TopicTypes
<1>3. \A w \in Updaters : update'[w] # "edits"
  BY <1>1 DEF TopicInv, TopicTypes, OneEditor
<1>4. topic'[cachedFor'] = cached'
  BY <1>1 DEF TopicInv, TopicTypes
<1> QED
  BY <1>2, <1>3, <1>4 DEF TopicInv, OneEditor, CachedIsShown

LEMMA EditFailsKeeps ==
  ASSUME TopicInv, NEW u \in Updaters, EditFails(u)
  PROVE  TopicInv'
<1>1. /\ update[u] = "edits" /\ cached # "current"
      /\ update' = [update EXCEPT ![u] = "idle"]
      /\ topic' \in {topic, [topic EXCEPT ![target[u]] = text[u]]}
      /\ UNCHANGED <<feedChannel, cached, target, text, cachedFor, touched>>
  BY DEF EditFails, TopicInv, OneEditor
<1>2. TopicTypes'
  BY <1>1 DEF TopicInv, TopicTypes
<1>3. \A w \in Updaters : update'[w] # "edits"
  BY <1>1 DEF TopicInv, TopicTypes, OneEditor
<1> QED
  BY <1>1, <1>2, <1>3 DEF TopicInv, OneEditor, CachedIsShown

LEMMA TopicStepKeeps ==
  ASSUME TopicInv, TopicStep
  PROVE  TopicInv'
<1>1. CASE MinutePasses \/ SomebodyEdits
  BY <1>1, MinuteKeeps, SomebodyKeeps
<1>2. CASE NotDue
  <2>1. Tick \in Updaters
    BY DEF Updaters
  <2> QED
    BY <1>2, <2>1, QuietKeeps DEF NotDue, TopicInv, TopicTypes
<1>3. ASSUME NEW a \in TopicAdmins, SetFeedChannel(a)
      PROVE  TopicInv'
  <2>1. a \in Updaters
    BY DEF Updaters
  <2> QED
    BY <1>3, <2>1, QuietKeeps DEF SetFeedChannel
<1>4. ASSUME NEW u \in Updaters, ReadFeedChannel(u)
      PROVE  TopicInv'
  BY <1>4, QuietKeeps DEF ReadFeedChannel, TopicInv, TopicTypes
<1>5. ASSUME NEW u \in Updaters, Update(u)
      PROVE  TopicInv'
  <2>1. CASE BeginEdit(u)
    BY <1>5, <2>1, BeginEditKeeps DEF Update
  <2>2. CASE EndsEarly(u) /\ Runs(u)
    BY <1>5, <2>2, QuietKeeps DEF Update, EndsEarly, Runs, TopicInv, TopicTypes
  <2> QED
    BY <1>5, <2>1, <2>2 DEF Update, NoTopic, NumbersFail, UpToDate
<1>6. ASSUME NEW u \in Updaters, Edited(u) \/ EditFails(u)
      PROVE  TopicInv'
  BY <1>6, EditedKeeps, EditFailsKeeps
<1> QED
  BY <1>1, <1>2, <1>3, <1>4, <1>5, <1>6 DEF TopicStep

LEMMA TopicStutters ==
  ASSUME TopicInv, UNCHANGED topicVars
  PROVE  TopicInv'
BY DEF TopicInv, topicVars, updateVars, TopicTypes, OneEditor, CachedIsShown

\* "Topic already up to date" is said of what the channel shows.
LEMMA UpToDateIsTrue ==
  ASSUME TopicInv, NEW u \in Updaters, UpToDate(u)
  PROVE  target[u] # cachedFor \/ target[u] \in touched \/ topic[target[u]] = "current"
BY DEF UpToDate, Same, TopicInv, CachedIsShown

-----------------------------------------------------------------------------
(* The statements that somebody has before him, and what he means by them. *)

Statement ==
  {Ensure, Fill, Read, Reset, Clear, Delete}
    \cup {SetChannel(c) : c \in Channels \cup {None}} \cup {Send(c) : c \in Channels \cup {None}}
    \cup {SetEnabled(on) : on \in BOOLEAN} \cup {Show(on) : on \in BOOLEAN}

Meanings == {{}, {"missing"}, {"on"}, {"off"}, {"none"}}

\* Who executes s means i by it, where d is the default: only the statements
\* that every reader executes, and those about the feed, say nothing of it.
Meant(d, i, s) ==
  /\ Op(s) = "insert" => i = {"missing"} \/ i = {d}
  /\ Op(s) = "read"   => i = {"missing"} \/ i = {}
  /\ Op(s) = "channel" => i = {"missing"}
  /\ Op(s) = "show"   => i = {IF s[2] THEN "on" ELSE "off"}
  /\ Op(s) = "send"   => i = {"on"}
  /\ Op(s) = "reset"  => i = {d}
  /\ Op(s) \in {"clear", "delete"} => i = {"none"}

Has(w, op) == \E k \in 1..Len(w) : Op(w[k]) = op

\* The statements w of somebody who means i.  A read comes last, and a remove
\* ends with its DELETE.
Job(d, i, w) ==
  /\ w \in Seq(Statement)
  /\ \A k \in 1..Len(w) : Meant(d, i, w[k])
  /\ \A k \in 1..Len(w) : Op(w[k]) = "read" => k = Len(w)
  /\ w = <<>> => i = {}
  /\ i = {"none"} => Op(w[Len(w)]) = "delete"

\* What an answer to each statement is, and what its argument.
LEMMA StatementTypes ==
  ASSUME NEW s \in Statement
  PROVE  /\ Op(s) \in {"insert", "fill", "read", "channel", "enabled", "show", "send",
                       "reset", "clear", "delete"}
         /\ Op(s) \in {"channel", "send"} => s[2] \in Channels \cup {None}
         /\ Op(s) \in {"enabled", "show"} => s[2] \in BOOLEAN
<1>1. CASE s \in {Ensure, Fill, Read, Reset, Clear, Delete}
  BY <1>1 DEF Op, Ensure, Fill, Read, Reset, Clear, Delete
<1>2. CASE s \in {SetChannel(c) : c \in Channels \cup {None}}
  BY <1>2 DEF Op, SetChannel
<1>3. CASE s \in {Send(c) : c \in Channels \cup {None}}
  BY <1>3 DEF Op, Send
<1>4. CASE s \in {SetEnabled(on) : on \in BOOLEAN}
  BY <1>4 DEF Op, SetEnabled
<1>5. CASE s \in {Show(on) : on \in BOOLEAN}
  BY <1>5 DEF Op, Show
<1> QED
  BY <1>1, <1>2, <1>3, <1>4, <1>5 DEF Statement

\* After the first statement of a job comes the rest of it.
LEMMA JobTail ==
  ASSUME NEW d, NEW i, NEW w, Job(d, i, w), w # <<>>
  PROVE  /\ Len(w) \in Nat \ {0}
         /\ Head(w) \in Statement /\ Meant(d, i, Head(w))
         /\ Len(w) # 1 => Job(d, i, Tail(w)) /\ Tail(w) # <<>>
         /\ \A op : Has(w, op) <=> Op(Head(w)) = op \/ Has(Tail(w), op)
         /\ i = {"none"} /\ Len(w) = 1 => Op(Head(w)) = "delete"
         /\ Len(w) = 1 => \A op : ~Has(Tail(w), op)
<1>1. /\ Head(w) = w[1] /\ Head(w) \in Statement
      /\ Tail(w) \in Seq(Statement) /\ Len(Tail(w)) = Len(w) - 1
      /\ \A k \in 1..Len(Tail(w)) : Tail(w)[k] = w[k + 1]
      /\ Len(w) \in Nat \ {0}
  BY HeadTailProperties, ElementOfSeq, EmptySeq, LenProperties DEF Job
<1>2. Meant(d, i, Head(w))
  <2>1. 1 \in 1..Len(w)
    BY <1>1
  <2> QED
    BY <1>1, <2>1 DEF Job
<1>3. ASSUME Len(w) # 1
      PROVE  Job(d, i, Tail(w)) /\ Tail(w) # <<>>
  <2>1. \A k \in 1..Len(Tail(w)) : k + 1 \in 1..Len(w) /\ Tail(w)[k] = w[k + 1]
    BY <1>1
  <2>2. Tail(w) # <<>> /\ Len(Tail(w)) \in 1..Len(Tail(w))
    <3>1. Len(Tail(w)) \in Nat \ {0}
      BY <1>1, <1>3
    <3>2. Len(Tail(w)) \in 1..Len(Tail(w))
      BY <3>1
    <3>3. Len(Tail(w)) # 0
      BY <3>1
    <3>4. Tail(w) # <<>>
      BY <1>1, <3>3, EmptySeq
    <3> QED
      BY <3>2, <3>4
  <2>3. Tail(w)[Len(Tail(w))] = w[Len(w)]
    BY <1>1, <2>2
  <2>4. \A k \in 1..Len(Tail(w)) : Meant(d, i, Tail(w)[k])
    BY <2>1 DEF Job
  <2>5. \A k \in 1..Len(Tail(w)) : Op(Tail(w)[k]) = "read" => k = Len(Tail(w))
    <3> TAKE k \in 1..Len(Tail(w))
    <3> HAVE Op(Tail(w)[k]) = "read"
    <3>1. k + 1 \in 1..Len(w) /\ Op(w[k + 1]) = "read"
      BY <2>1
    <3>2. k + 1 = Len(w)
      BY <3>1 DEF Job
    <3> QED
      BY <3>2, <1>1
  <2> QED
    BY <1>1, <2>2, <2>3, <2>4, <2>5 DEF Job
<1>4. ASSUME NEW op
      PROVE  Has(w, op) <=> Op(Head(w)) = op \/ Has(Tail(w), op)
  <2>1. ASSUME NEW k \in 1..Len(w), Op(w[k]) = op, k # 1
        PROVE  Has(Tail(w), op)
    <3>1. k - 1 \in 1..Len(Tail(w)) /\ (k - 1) + 1 = k
      BY <1>1, <2>1
    <3>2. Tail(w)[k - 1] = w[k]
      BY <3>1, <1>1
    <3> QED
      BY <3>1, <3>2, <2>1 DEF Has
  <2>2. ASSUME NEW k \in 1..Len(Tail(w)), Op(Tail(w)[k]) = op
        PROVE  Has(w, op)
    <3>1. k + 1 \in 1..Len(w) /\ w[k + 1] = Tail(w)[k]
      BY <1>1
    <3> QED
      BY <3>1, <2>2 DEF Has
  <2>3. 1 \in 1..Len(w)
    BY <1>1
  <2>4. Has(w, op) => Op(Head(w)) = op \/ Has(Tail(w), op)
    BY <1>1, <2>1 DEF Has
  <2>5. Op(Head(w)) = op => Has(w, op)
    BY <1>1, <2>3 DEF Has
  <2>6. Has(Tail(w), op) => Has(w, op)
    BY <2>2 DEF Has
  <2> QED
    BY <2>4, <2>5, <2>6
<1>5. ASSUME Len(w) = 1, NEW op
      PROVE  ~Has(Tail(w), op)
  <2>1. ASSUME NEW k \in 1..Len(Tail(w))
        PROVE  FALSE
    <3>1. Len(Tail(w)) = Len(w) - 1
      BY <1>1
    <3>2. Len(Tail(w)) = 0
      BY <3>1, <1>5
    <3> QED
      BY <2>1, <3>2
  <2> QED
    BY <2>1 DEF Has
<1> QED
  BY <1>1, <1>2, <1>3, <1>4, <1>5 DEF Job

\* Who is idle has no job.
LEMMA NoJob ==
  ASSUME NEW d
  PROVE  Job(d, {}, <<>>) /\ ~Has(<<>>, "read")
<1>1. <<>> \in Seq(Statement) /\ Len(<<>>) = 0 /\ 1..0 = {}
  OBVIOUS
<1> QED
  BY <1>1 DEF Job, Has

\* Short jobs: what is to be shown of those that the commands begin.
LEMMA JobOfOne ==
  ASSUME NEW d, NEW i, NEW a \in Statement, Meant(d, i, a), i = {"none"} => Op(a) = "delete"
  PROVE  Job(d, i, <<a>>) /\ <<a>> # <<>> /\ \A op : Has(<<a>>, op) <=> Op(a) = op
<1>1. <<a>> \in Seq(Statement) /\ Len(<<a>>) = 1 /\ <<a>>[1] = a /\ <<a>> # <<>>
  OBVIOUS
<1>2. \A k \in 1..Len(<<a>>) : k = 1
  BY <1>1
<1>3. 1 \in 1..Len(<<a>>)
  BY <1>1
<1>4. Job(d, i, <<a>>)
  BY <1>1, <1>2 DEF Job
<1> QED
  BY <1>1, <1>2, <1>3, <1>4 DEF Has

LEMMA JobOfTwo ==
  ASSUME NEW d, NEW i, NEW a \in Statement, NEW b \in Statement,
         Meant(d, i, a), Meant(d, i, b), Op(a) # "read", i = {"none"} => Op(b) = "delete"
  PROVE  Job(d, i, <<a, b>>) /\ <<a, b>> # <<>>
         /\ \A op : Has(<<a, b>>, op) <=> Op(a) = op \/ Op(b) = op
<1>1. /\ <<a, b>> \in Seq(Statement) /\ Len(<<a, b>>) = 2 /\ <<a, b>> # <<>>
      /\ <<a, b>>[1] = a /\ <<a, b>>[2] = b
  OBVIOUS
<1>2. \A k \in 1..Len(<<a, b>>) : k = 1 \/ k = 2
  BY <1>1
<1>3. 1 \in 1..Len(<<a, b>>) /\ 2 \in 1..Len(<<a, b>>)
  BY <1>1
<1>4. Job(d, i, <<a, b>>)
  BY <1>1, <1>2 DEF Job
<1> QED
  BY <1>1, <1>2, <1>3, <1>4 DEF Has

LEMMA HasOfThree ==
  ASSUME NEW a \in Statement, NEW b \in Statement, NEW c \in Statement
  PROVE  Has(<<a, b, c>>, Op(a)) /\ Has(<<a, b, c>>, Op(b)) /\ Has(<<a, b, c>>, Op(c))
<1>1. /\ Len(<<a, b, c>>) = 3
      /\ <<a, b, c>>[1] = a /\ <<a, b, c>>[2] = b /\ <<a, b, c>>[3] = c
  OBVIOUS
<1>2. 1 \in 1..Len(<<a, b, c>>) /\ 2 \in 1..Len(<<a, b, c>>) /\ 3 \in 1..Len(<<a, b, c>>)
  BY <1>1
<1> QED
  BY <1>1, <1>2 DEF Has

LEMMA JobOfThree ==
  ASSUME NEW d, NEW i, NEW a \in Statement, NEW b \in Statement, NEW c \in Statement,
         Meant(d, i, a), Meant(d, i, b), Meant(d, i, c),
         Op(a) # "read", Op(b) # "read", i = {"none"} => Op(c) = "delete"
  PROVE  Job(d, i, <<a, b, c>>) /\ <<a, b, c>> # <<>>
         /\ \A op : Has(<<a, b, c>>, op) <=> Op(a) = op \/ Op(b) = op \/ Op(c) = op
<1>1. /\ <<a, b, c>> \in Seq(Statement) /\ Len(<<a, b, c>>) = 3 /\ <<a, b, c>> # <<>>
      /\ <<a, b, c>>[1] = a /\ <<a, b, c>>[2] = b /\ <<a, b, c>>[3] = c
  OBVIOUS
<1>2. \A k \in 1..Len(<<a, b, c>>) : k = 1 \/ k = 2 \/ k = 3
  BY <1>1
<1>3. 1 \in 1..Len(<<a, b, c>>) /\ 2 \in 1..Len(<<a, b, c>>) /\ 3 \in 1..Len(<<a, b, c>>)
  BY <1>1
<1>4. Job(d, i, <<a, b, c>>)
  BY <1>1, <1>2 DEF Job
<1> QED
  BY <1>1, <1>2, <1>3, <1>4 DEF Has

LEMMA JustThree ==
  ASSUME NEW d, NEW i, NEW a \in Statement, NEW b \in Statement, NEW c \in Statement,
         Meant(d, i, a), Meant(d, i, b), Meant(d, i, c),
         Op(a) # "read", Op(b) # "read", i = {"none"} => Op(c) = "delete"
  PROVE  Job(d, i, <<a, b, c>>)
BY JobOfThree

LEMMA JobOfFive ==
  ASSUME NEW d, NEW i, NEW a \in Statement, NEW b \in Statement, NEW c \in Statement,
         NEW e \in Statement, NEW f \in Statement,
         Meant(d, i, a), Meant(d, i, b), Meant(d, i, c), Meant(d, i, e), Meant(d, i, f),
         Op(a) # "read", Op(b) # "read", Op(c) # "read", Op(e) # "read", i # {"none"}
  PROVE  Job(d, i, <<a, b, c, e, f>>) /\ <<a, b, c, e, f>> # <<>>
         /\ Has(<<a, b, c, e, f>>, Op(b))
<1> DEFINE w == <<a, b, c, e, f>>
<1>1. /\ w \in Seq(Statement) /\ Len(w) = 5 /\ w # <<>>
      /\ w[1] = a /\ w[2] = b /\ w[3] = c /\ w[4] = e /\ w[5] = f
  OBVIOUS
<1> HIDE DEF w
<1>2. \A k \in 1..Len(w) : k = 1 \/ k = 2 \/ k = 3 \/ k = 4 \/ k = 5
  BY <1>1
<1>3. 2 \in 1..Len(w)
  BY <1>1
<1>4. Job(d, i, w)
  BY <1>1, <1>2 DEF Job
<1>5. Has(w, Op(b))
  BY <1>1, <1>3 DEF Has
<1> QED
  BY <1>1, <1>4, <1>5 DEF w

-----------------------------------------------------------------------------
(* The row of a kind and the settings.                                     *)

RouteTypes ==
  /\ default \in BOOLEAN
  /\ settings \in [channel : Channels \cup {None}, enabled : BOOLEAN]
  /\ route \in [row : BOOLEAN, on : BOOLEAN, channel : Channels \cup {None}]
  /\ DOMAIN work = Procs
  /\ intent \in [Procs -> Meanings]
  /\ overlap \in [Procs -> BOOLEAN]
  /\ asked \subseteq {"on", "off", "none"}
  /\ filled \in BOOLEAN /\ quiet \in BOOLEAN
  /\ got \in [channel : Channels \cup {None}, quiet : BOOLEAN]

\* Everybody executes a job, and knows of every command beside his own.  But
\* for the feed, who reads the settings is going to act on them.
Jobs ==
  \A p \in Procs :
    /\ Job(Default, intent[p], work[p])
    /\ p # Feed /\ intent[p] = {} => ~Has(work[p], "read")
Beside == \A p, q \in Procs : p # q /\ intent[p] # {} /\ intent[q] # {} => overlap[p]

\* What the commands under way are going to write has been asked for, the
\* default too if the row may be missing where it is to be inserted.
GoingToBe ==
  /\ \A p \in Procs : intent[p] \subseteq asked \cup {"missing"}
  /\ "none" \in asked /\ (\E p \in Procs : intent[p] = {"missing"}) => Default \in asked

\* What a command that none ran beside has done, once it has no such statement
\* before it any more: the row is there, it is what he means, the feed is gone.
Inserted ==
  \A p \in Procs : intent[p] = {"missing"} /\ ~overlap[p] /\ ~Has(work[p], "insert") => route.row
Writing(w) == \E op \in {"show", "send", "reset", "delete"} : Has(w, op)
Written ==
  \A p \in Procs : intent[p] # {} /\ intent[p] # {"missing"} /\ ~overlap[p] /\ ~Writing(work[p]) =>
    filled \/ intent[p] = {Value}
Cleared ==
  \A p \in Procs : intent[p] = {"none"} /\ ~overlap[p] /\ ~Has(work[p], "clear") => settings.channel = None

\* A feed that was removed has no channel, so that nobody begins to post.
Silent == (quiet => settings.channel = None) /\ ~got.quiet

RoutesInv ==
  /\ RouteTypes
  /\ Jobs /\ Beside /\ GoingToBe
  /\ Inserted /\ Written /\ Cleared
  /\ Silent
  /\ RoutesAccounted
  /\ filled => route.row

LEMMA RoutesInitHolds ==
  ASSUME RoutesInit
  PROVE  RoutesInv
<1>1. RouteTypes
  BY RoutesAssumption DEF RoutesInit, RoutesAssumption, RouteTypes, Meanings, Row, NotRead, Default
<1>2. \A p \in Procs : work[p] = <<>> /\ intent[p] = {} /\ work[p] \in Seq(Statement) /\ Len(work[p]) = 0
  BY DEF RoutesInit
<1>3. Jobs
  BY <1>2, NoJob DEF Jobs
<1>4. Value = Default
  BY <1>1 DEF RoutesInit, Row, Value, Default, RouteTypes
<1> QED
  BY <1>1, <1>2, <1>3, <1>4
  DEF RoutesInit, RoutesInv, Beside, GoingToBe, Inserted, Written, Cleared, Silent, RoutesAccounted, NotRead

\* Somebody sets out.
LEMMA BeginKeeps ==
  ASSUME RoutesInv, NEW p \in Procs, NEW st, NEW want \in Meanings, Begin(p, st, want),
         Job(Default, want, st),
         want = {"missing"} => Has(st, "insert"),
         want \notin {{}, {"missing"}} => Writing(st),
         want = {"none"} => Has(st, "clear"),
         p # Feed /\ want = {} => ~Has(st, "read"),
         UNCHANGED <<default, settings, route, filled, quiet>>,
         got' \in [channel : Channels \cup {None}, quiet : BOOLEAN], ~got'.quiet
  PROVE  RoutesInv'
<1>1. /\ work' = [work EXCEPT ![p] = st]
      /\ intent' = [intent EXCEPT ![p] = want]
      /\ overlap' = [q \in Procs |-> IF q = p THEN want # {} /\ \E r \in Procs \ {p} : intent[r] # {}
                                     ELSE overlap[q] \/ (want # {} /\ intent[q] # {})]
      /\ asked' = asked \cup (want \ {"missing"})
           \cup IF "none" \in asked \cup want /\ \E q \in Procs : intent'[q] = {"missing"}
                THEN {Default} ELSE {}
  BY DEF Begin
<1>2. Default \in {"on", "off"} /\ Default' = Default /\ Value' = Value
  BY DEF Default, Value
<1>3. /\ intent'[p] = want /\ work'[p] = st
      /\ \A q \in Procs \ {p} : intent'[q] = intent[q] /\ work'[q] = work[q] /\ (overlap[q] => overlap'[q])
  BY <1>1 DEF RoutesInv, RouteTypes
<1>4. asked' \subseteq {"on", "off", "none"} /\ asked \subseteq asked' /\ want \subseteq asked' \cup {"missing"}
  BY <1>1, <1>2 DEF RoutesInv, RouteTypes, Meanings
<1>5. RouteTypes'
  <2>1. intent' \in [Procs -> Meanings] /\ overlap' \in [Procs -> BOOLEAN] /\ DOMAIN work' = Procs
    BY <1>1 DEF RoutesInv, RouteTypes
  <2> QED
    BY <1>4, <2>1 DEF RoutesInv, RouteTypes
<1>6. Jobs'
  BY <1>2, <1>3 DEF RoutesInv, Jobs
<1>7. Beside'
  <2>1. ASSUME NEW q \in Procs, NEW r \in Procs, q # r, intent'[q] # {}, intent'[r] # {}
        PROVE  overlap'[q]
    <3>1. CASE q = p
      BY <1>1, <1>3, <2>1, <3>1
    <3>2. CASE q # p /\ r = p
      BY <1>1, <1>3, <2>1, <3>2
    <3>3. CASE q # p /\ r # p
      BY <1>3, <2>1, <3>3 DEF RoutesInv, Beside
    <3> QED
      BY <3>1, <3>2, <3>3
  <2> QED
    BY <2>1 DEF Beside
<1>8. GoingToBe'
  <2>1. \A q \in Procs : intent'[q] \subseteq asked' \cup {"missing"}
    BY <1>3, <1>4 DEF RoutesInv, GoingToBe
  <2>2. ASSUME "none" \in asked', NEW q \in Procs, intent'[q] = {"missing"}
        PROVE  Default \in asked'
    <3>1. "none" \in asked \cup want
      BY <1>1, <1>2, <2>2
    <3> QED
      BY <1>1, <2>2, <3>1
  <2> QED
    BY <1>2, <2>1, <2>2 DEF GoingToBe
<1>9. Inserted'
  BY <1>3 DEF RoutesInv, Inserted
<1>10. Written'
  BY <1>2, <1>3 DEF RoutesInv, Written
<1>11. Cleared'
  BY <1>3 DEF RoutesInv, Cleared
<1> QED
  BY <1>2, <1>4, <1>5, <1>6, <1>7, <1>8, <1>9, <1>10, <1>11 DEF RoutesInv, Silent, RoutesAccounted

\* Somebody is done, and the row is as the rest of the step leaves it: what is
\* asked for from now on is what it is.
LEMMA EndKeeps ==
  ASSUME RouteTypes, Beside, GoingToBe, NEW p \in Procs, End(p), UNCHANGED default,
         Value' \in asked \/ filled',
         intent[p] = {"missing"} /\ ~overlap[p] => Value' # "none",
         intent[p] \notin {{}, {"missing"}} /\ ~overlap[p] => filled' \/ intent[p] = {Value'}
  PROVE  /\ intent' \in [Procs -> Meanings] /\ overlap' \in [Procs -> BOOLEAN]
         /\ asked' \subseteq {"on", "off", "none"} /\ DOMAIN work' = Procs
         /\ intent'[p] = {} /\ work'[p] = <<>>
         /\ \A q \in Procs \ {p} : intent'[q] = intent[q] /\ work'[q] = work[q] /\ overlap'[q] = overlap[q]
         /\ Beside' /\ GoingToBe' /\ RoutesAccounted'
<1>1. /\ work' = [work EXCEPT ![p] = <<>>]
      /\ intent' = [intent EXCEPT ![p] = {}]
      /\ overlap' = [overlap EXCEPT ![p] = FALSE]
  BY DEF End
<1>2. /\ intent' \in [Procs -> Meanings] /\ overlap' \in [Procs -> BOOLEAN] /\ DOMAIN work' = Procs
      /\ intent'[p] = {} /\ work'[p] = <<>>
      /\ \A q \in Procs \ {p} : intent'[q] = intent[q] /\ work'[q] = work[q] /\ overlap'[q] = overlap[q]
  BY <1>1 DEF RouteTypes, Meanings
<1>3. Beside'
  BY <1>2 DEF Beside
<1>4. Default' = Default
  BY DEF Default
<1>5. CASE overlap[p] \/ intent[p] = {}
  <2>1. asked' = asked
    BY <1>5 DEF End
  <2> QED
    BY <1>2, <1>3, <1>4, <2>1 DEF RouteTypes, GoingToBe, RoutesAccounted
<1>6. CASE ~overlap[p] /\ intent[p] # {}
  <2>1. \A q \in Procs : intent'[q] = {}
    BY <1>2, <1>6 DEF Beside
  <2>2. CASE intent[p] = {"missing"}
    <3>1. asked' = asked \ {"none"}
      BY <1>6, <2>2 DEF End
    <3> QED
      BY <1>2, <1>3, <1>6, <2>1, <2>2, <3>1 DEF RouteTypes, GoingToBe, RoutesAccounted
  <2>3. CASE intent[p] # {"missing"}
    <3>1. asked' = intent[p]
      BY <1>6, <2>3 DEF End
    <3> QED
      BY <1>2, <1>3, <1>6, <2>1, <2>3, <3>1 DEF RouteTypes, GoingToBe, RoutesAccounted, Meanings
  <2> QED
    BY <2>2, <2>3
<1> QED
  BY <1>5, <1>6 DEF RouteTypes

\* What a statement makes of the row and of the feed's channel.
LEMMA StatementEffect ==
  ASSUME RouteTypes, NEW s \in Statement, route' = RouteAfter(s), settings' = SettingsAfter(s)
  PROVE  /\ route' \in [row : BOOLEAN, on : BOOLEAN, channel : Channels \cup {None}]
         /\ settings' \in [channel : Channels \cup {None}, enabled : BOOLEAN]
         /\ Op(s) \in {"insert", "fill"} => route'.row /\ (route.row => route' = route)
         /\ Op(s) = "insert" /\ ~route.row => Value' = Default
         /\ Op(s) = "show" => Value' = IF s[2] THEN "on" ELSE "off"
         /\ Op(s) = "send" => Value' = "on"
         /\ Op(s) = "reset" => Value' = Default
         /\ Op(s) = "delete" => Value' = "none"
         /\ Op(s) \in {"channel", "enabled", "clear", "read"} => route' = route
         /\ Op(s) # "channel" => settings'.channel \in {settings.channel, None}
         /\ Op(s) = "clear" => settings'.channel = None
<1> DEFINE R == [row : BOOLEAN, on : BOOLEAN, channel : Channels \cup {None}]
<1>1. /\ route \in R /\ default \in BOOLEAN
      /\ settings \in [channel : Channels \cup {None}, enabled : BOOLEAN]
  BY DEF RouteTypes
<1>2. settings' \in [channel : Channels \cup {None}, enabled : BOOLEAN]
  BY <1>1, StatementTypes DEF SettingsAfter
<1>3. /\ Op(s) # "channel" => settings'.channel \in {settings.channel, None}
      /\ Op(s) = "clear" => settings'.channel = None
  BY <1>1 DEF SettingsAfter
<1>4. CASE Op(s) = "insert"
  <2>1. route' = IF route.row THEN route ELSE Row(default, None)
    BY <1>4 DEF RouteAfter
  <2> QED
    BY <1>1, <1>2, <1>3, <1>4, <2>1 DEF Row, Value, Default
<1>5. CASE Op(s) = "fill"
  <2>1. route' = IF route.row THEN route ELSE Row(TRUE, None)
    BY <1>5 DEF RouteAfter
  <2> QED
    BY <1>1, <1>2, <1>3, <1>5, <2>1 DEF Row
<1>6. CASE Op(s) = "show"
  <2>1. route' = Row(s[2], route.channel) /\ s[2] \in BOOLEAN
    BY <1>6, StatementTypes DEF RouteAfter
  <2> QED
    BY <1>1, <1>2, <1>3, <1>6, <2>1 DEF Row, Value
<1>7. CASE Op(s) = "send"
  <2>1. route' = Row(TRUE, s[2]) /\ s[2] \in Channels \cup {None}
    BY <1>7, StatementTypes DEF RouteAfter
  <2> QED
    BY <1>1, <1>2, <1>3, <1>7, <2>1 DEF Row, Value
<1>8. CASE Op(s) = "reset"
  <2>1. route' = Row(default, None)
    BY <1>8 DEF RouteAfter
  <2> QED
    BY <1>1, <1>2, <1>3, <1>8, <2>1 DEF Row, Value, Default
<1>9. CASE Op(s) = "delete"
  <2>1. route' = NoRow
    BY <1>9 DEF RouteAfter
  <2> QED
    BY <1>1, <1>2, <1>3, <1>9, <2>1 DEF NoRow, Value
<1>10. CASE Op(s) \in {"channel", "enabled", "clear", "read"}
  <2>1. route' = route
    BY <1>10 DEF RouteAfter
  <2> QED
    BY <1>1, <1>2, <1>3, <1>10, <2>1
<1> QED
  BY <1>4, <1>5, <1>6, <1>7, <1>8, <1>9, <1>10, StatementTypes

\* The next statement of somebody, and what it makes true.
LEMMA ExecuteFacts ==
  ASSUME RoutesInv, NEW p \in Procs, Execute(p)
  PROVE  /\ route' \in [row : BOOLEAN, on : BOOLEAN, channel : Channels \cup {None}]
         /\ settings' \in [channel : Channels \cup {None}, enabled : BOOLEAN]
         /\ filled' \in BOOLEAN /\ quiet' \in BOOLEAN
         /\ filled' => route'.row
         /\ Value' \in asked \/ filled'
         /\ quiet' => settings'.channel = None
         /\ \A q \in Procs \ {p} : intent[q] # {} /\ ~overlap[q] =>
              /\ filled' \/ (filled = filled' /\ Value' = Value)
              /\ route.row => route'.row
              /\ settings.channel = None => settings'.channel = None
         /\ ~overlap[p] =>
              /\ intent[p] = {"missing"} /\ ~Has(Tail(work[p]), "insert") => route'.row
              /\ intent[p] \notin {{}, {"missing"}} /\ ~Writing(Tail(work[p])) => filled' \/ intent[p] = {Value'}
              /\ intent[p] = {"none"} /\ ~Has(Tail(work[p]), "clear") => settings'.channel = None
<1> DEFINE s == Head(work[p])
<1>1. Job(Default, intent[p], work[p]) /\ work[p] # <<>>
  BY DEF RoutesInv, Jobs, Execute
<1>2. s \in Statement /\ Meant(Default, intent[p], s)
  BY <1>1, JobTail
<1>3. \A op : Has(work[p], op) <=> Op(s) = op \/ Has(Tail(work[p]), op)
  BY <1>1, JobTail
<1>4. Len(work[p]) = 1 => (intent[p] = {"none"} => Op(s) = "delete") /\ \A op : ~Has(Tail(work[p]), op)
  BY <1>1, JobTail
<1>5. /\ Op(s) # "read"
      /\ route' = RouteAfter(s) /\ settings' = SettingsAfter(s)
      /\ filled' = (route'.row /\ IF Op(s) = "fill" THEN filled \/ ~route.row
                                  ELSE filled /\ Op(s) \notin {"show", "send", "reset"})
      /\ quiet' = (Op(s) # "channel" /\ (quiet \/ Removed(p)))
      /\ UNCHANGED default
  BY DEF Execute
<1> HIDE DEF s
<1>6. RouteTypes /\ Op(s) \in {"insert", "fill", "channel", "enabled", "show", "send", "reset", "clear", "delete"}
  BY <1>2, <1>5, StatementTypes DEF RoutesInv
<1>7. /\ route' \in [row : BOOLEAN, on : BOOLEAN, channel : Channels \cup {None}]
      /\ settings' \in [channel : Channels \cup {None}, enabled : BOOLEAN]
      /\ Op(s) \in {"insert", "fill"} => route'.row /\ (route.row => route' = route)
      /\ Op(s) = "insert" /\ ~route.row => Value' = Default
      /\ Op(s) = "show" => Value' = IF s[2] THEN "on" ELSE "off"
      /\ Op(s) = "send" => Value' = "on"
      /\ Op(s) = "reset" => Value' = Default
      /\ Op(s) = "delete" => Value' = "none"
      /\ Op(s) \in {"channel", "enabled", "clear", "read"} => route' = route
      /\ Op(s) # "channel" => settings'.channel \in {settings.channel, None}
      /\ Op(s) = "clear" => settings'.channel = None
  BY <1>2, <1>5, <1>6, StatementEffect
<1>8. /\ route' = route => Value' = Value
      /\ Value = "none" <=> ~route.row
      /\ Value' = "none" <=> ~route'.row
  BY <1>5, <1>6, <1>7 DEF Value, RouteTypes
<1>9. /\ intent[p] \in Meanings /\ Default \in {"on", "off"}
      /\ intent[p] \subseteq asked \cup {"missing"}
      /\ "none" \in asked /\ intent[p] = {"missing"} => Default \in asked
      /\ Value \in asked \/ filled
      /\ filled => route.row
  BY <1>6 DEF RoutesInv, RouteTypes, GoingToBe, RoutesAccounted, Default
<1>10. filled' \in BOOLEAN /\ quiet' \in BOOLEAN /\ (filled' => route'.row)
  BY <1>5, <1>6, <1>7 DEF RouteTypes
\* What the statement leaves is asked for, or was filled.
<1>11. Value' \in asked \/ filled'
  <2>1. CASE Op(s) \in {"insert", "fill"} /\ route.row
    <3>1. route' = route /\ Value' = Value /\ (filled => filled')
      BY <1>5, <1>7, <1>8, <2>1
    <3> QED
      BY <3>1, <1>9
  <2>2. CASE Op(s) = "fill" /\ ~route.row
    BY <1>5, <1>7, <2>2
  <2>3. CASE Op(s) = "insert" /\ ~route.row
    <3>1. Value' = Default /\ "none" \in asked
      BY <1>7, <1>8, <1>9, <2>3
    <3>2. intent[p] = {"missing"} \/ intent[p] = {Default}
      BY <1>2, <2>3 DEF Meant
    <3> QED
      BY <3>1, <3>2, <1>9
  <2>4. CASE Op(s) \in {"channel", "enabled", "clear"}
    <3>1. route' = route /\ Value' = Value
      BY <1>7, <1>8, <2>4
    <3>2. filled => filled'
      BY <3>1, <1>5, <1>9, <2>4
    <3> QED
      BY <3>1, <3>2, <1>9
  <2>5. CASE Op(s) \in {"show", "send", "reset", "delete"}
    <3>1. intent[p] = {Value'}
      BY <1>2, <1>7, <2>5 DEF Meant
    <3>2. Value' # "missing"
      BY DEF Value
    <3> QED
      BY <3>1, <3>2, <1>9
  <2> QED
    BY <1>6, <2>1, <2>2, <2>3, <2>4, <2>5
<1>12. quiet' => settings'.channel = None
  <2>1. quiet => settings.channel = None
    BY DEF RoutesInv, Silent
  <2>2. Removed(p) => settings.channel = None /\ Op(s) # "channel"
    <3>1. SUFFICES ASSUME Removed(p)
                   PROVE  settings.channel = None /\ Op(s) # "channel"
      OBVIOUS
    <3>2. intent[p] = {"none"} /\ ~overlap[p] /\ Len(work[p]) = 1
      BY <3>1 DEF Removed
    <3>3. Op(s) = "delete" /\ ~Has(work[p], "clear")
      BY <1>3, <1>4, <3>2
    <3> QED
      BY <3>2, <3>3 DEF RoutesInv, Cleared
  <2> QED
    BY <1>5, <1>7, <2>1, <2>2
\* Nobody else means anything, if a command is alone.
<1>13. ASSUME NEW q \in Procs \ {p}, intent[q] # {}, ~overlap[q]
       PROVE  /\ filled' \/ (filled = filled' /\ Value' = Value)
              /\ route.row => route'.row
              /\ settings.channel = None => settings'.channel = None
  <2>1. intent[p] = {}
    BY <1>13 DEF RoutesInv, Beside
  <2>2. Op(s) \in {"fill", "enabled"}
    BY <2>1, <1>2, <1>6 DEF Meant
  <2>3. CASE Op(s) = "fill" /\ ~route.row
    BY <1>5, <1>7, <2>3
  <2>4. CASE Op(s) = "enabled" \/ route.row
    <3>1. route' = route
      BY <1>7, <2>2, <2>4
    <3> QED
      BY <3>1, <1>5, <1>6, <1>7, <1>8, <1>9, <2>2, <2>4 DEF RouteTypes
  <2> QED
    BY <2>2, <2>3, <2>4
<1>14. ASSUME ~overlap[p], intent[p] = {"missing"}, ~Has(Tail(work[p]), "insert")
       PROVE  route'.row
  <2>1. Op(s) \in {"insert", "fill", "channel", "enabled"}
    BY <1>2, <1>6, <1>9, <1>14 DEF Meant
  <2>2. CASE Op(s) \in {"insert", "fill"}
    BY <1>7, <2>2
  <2>3. CASE Op(s) \in {"channel", "enabled"}
    <3>1. ~Has(work[p], "insert")
      BY <1>3, <1>14, <2>3
    <3>2. route.row
      BY <1>14, <3>1 DEF RoutesInv, Inserted
    <3> QED
      BY <3>2, <1>7, <2>3
  <2> QED
    BY <2>1, <2>2, <2>3
<1>15. ASSUME ~overlap[p], intent[p] \notin {{}, {"missing"}}, ~Writing(Tail(work[p]))
       PROVE  filled' \/ intent[p] = {Value'}
  <2>1. CASE Op(s) \in {"show", "send", "reset", "delete"}
    BY <1>2, <1>7, <2>1 DEF Meant
  <2>2. CASE Op(s) \notin {"show", "send", "reset", "delete"}
    <3>1. ~Writing(work[p])
      BY <1>3, <1>15, <2>2 DEF Writing
    <3>2. filled \/ intent[p] = {Value}
      BY <1>15, <3>1 DEF RoutesInv, Written
    <3>3. CASE Op(s) = "fill" /\ ~route.row
      BY <1>5, <1>7, <3>3
    <3>4. CASE Op(s) \in {"insert", "fill"} /\ route.row
      <4>1. route' = route /\ Value' = Value /\ (filled => filled')
        BY <1>5, <1>7, <1>8, <3>4
      <4> QED
        BY <4>1, <3>2
    <3>5. CASE Op(s) = "insert" /\ ~route.row
      <4>1. intent[p] = {"none"}
        BY <3>2, <3>5, <1>8, <1>9
      <4> QED
        BY <4>1, <3>5, <1>2, <1>9 DEF Meant
    <3>6. CASE Op(s) \in {"channel", "enabled", "clear"}
      <4>1. route' = route /\ Value' = Value
        BY <1>7, <1>8, <3>6
      <4>2. filled => filled'
        BY <4>1, <1>5, <1>9, <3>6
      <4> QED
        BY <4>1, <4>2, <3>2
    <3> QED
      BY <1>6, <2>2, <3>3, <3>4, <3>5, <3>6
  <2> QED
    BY <2>1, <2>2
<1>16. ASSUME ~overlap[p], intent[p] = {"none"}, ~Has(Tail(work[p]), "clear")
       PROVE  settings'.channel = None
  <2>1. Op(s) # "channel"
    BY <1>2, <1>16 DEF Meant
  <2>2. CASE Op(s) = "clear"
    BY <1>7, <2>2
  <2>3. CASE Op(s) # "clear"
    <3>1. ~Has(work[p], "clear")
      BY <1>3, <1>16, <2>3
    <3>2. settings.channel = None
      BY <1>16, <3>1 DEF RoutesInv, Cleared
    <3> QED
      BY <3>2, <1>7, <2>1
  <2> QED
    BY <2>2, <2>3
<1> QED
  BY <1>7, <1>10, <1>11, <1>12, <1>13, <1>14, <1>15, <1>16

LEMMA ExecuteKeeps ==
  ASSUME RoutesInv, NEW p \in Procs, Execute(p)
  PROVE  RoutesInv'
<1>1. /\ Job(Default, intent[p], work[p]) /\ work[p] # <<>>
      /\ UNCHANGED <<default, got>> /\ Default' = Default
      /\ intent[p] \in Meanings
  BY DEF RoutesInv, RouteTypes, Jobs, Execute, Default
<1>2. /\ route' \in [row : BOOLEAN, on : BOOLEAN, channel : Channels \cup {None}]
      /\ settings' \in [channel : Channels \cup {None}, enabled : BOOLEAN]
      /\ filled' \in BOOLEAN /\ quiet' \in BOOLEAN
      /\ filled' => route'.row
      /\ Value' \in asked \/ filled'
      /\ quiet' => settings'.channel = None
  BY ExecuteFacts
<1>3. \A q \in Procs \ {p} : intent[q] # {} /\ ~overlap[q] =>
        /\ filled' \/ (filled = filled' /\ Value' = Value)
        /\ route.row => route'.row
        /\ settings.channel = None => settings'.channel = None
  BY ExecuteFacts
<1>4. ~overlap[p] =>
        /\ intent[p] = {"missing"} /\ ~Has(Tail(work[p]), "insert") => route'.row
        /\ intent[p] \notin {{}, {"missing"}} /\ ~Writing(Tail(work[p])) => filled' \/ intent[p] = {Value'}
        /\ intent[p] = {"none"} /\ ~Has(Tail(work[p]), "clear") => settings'.channel = None
  BY ExecuteFacts
<1>5. Silent'
  BY <1>1, <1>2 DEF RoutesInv, Silent
\* The last statement.
<1>6. CASE Len(work[p]) = 1
  <2>1. End(p)
    BY <1>6 DEF Execute
  <2>2. \A op : ~Has(Tail(work[p]), op)
    BY <1>1, <1>6, JobTail
  <2>3. intent[p] = {"missing"} /\ ~overlap[p] => Value' # "none"
    <3>1. intent[p] = {"missing"} /\ ~overlap[p] => route'.row
      BY <1>4, <2>2
    <3> QED
      BY <3>1, <1>2 DEF Value
  <2>4. intent[p] \notin {{}, {"missing"}} /\ ~overlap[p] => filled' \/ intent[p] = {Value'}
    BY <1>4, <2>2 DEF Writing
  <2>5. RouteTypes /\ Beside /\ GoingToBe
    BY DEF RoutesInv
  <2>6. /\ intent' \in [Procs -> Meanings] /\ overlap' \in [Procs -> BOOLEAN]
        /\ asked' \subseteq {"on", "off", "none"} /\ DOMAIN work' = Procs
        /\ intent'[p] = {} /\ work'[p] = <<>>
        /\ \A q \in Procs \ {p} : intent'[q] = intent[q] /\ work'[q] = work[q] /\ overlap'[q] = overlap[q]
        /\ Beside' /\ GoingToBe' /\ RoutesAccounted'
    BY <1>1, <1>2, <2>1, <2>3, <2>4, <2>5, EndKeeps
  <2>7. RouteTypes'
    BY <1>1, <1>2, <2>5, <2>6 DEF RouteTypes
  <2>8. Job(Default, {}, <<>>) /\ ~Has(<<>>, "read")
    BY NoJob
  <2>9. Jobs'
    BY <1>1, <2>6, <2>8 DEF RoutesInv, Jobs
  <2>10. Inserted' /\ Cleared'
    BY <1>3, <2>6 DEF RoutesInv, Inserted, Cleared
  <2>11. Written'
    BY <1>3, <2>6 DEF RoutesInv, Written
  <2> QED
    BY <1>2, <1>5, <2>6, <2>7, <2>9, <2>10, <2>11 DEF RoutesInv
\* More are to come.
<1>7. CASE Len(work[p]) # 1
  <2>1. work' = [work EXCEPT ![p] = Tail(@)] /\ UNCHANGED <<intent, overlap, asked>>
    BY <1>7 DEF Execute
  <2>2. /\ DOMAIN work' = Procs /\ work'[p] = Tail(work[p])
        /\ \A q \in Procs \ {p} : work'[q] = work[q]
    BY <2>1 DEF RoutesInv, RouteTypes
  <2>3. RouteTypes'
    BY <1>1, <1>2, <2>1, <2>2 DEF RoutesInv, RouteTypes
  <2>4. Job(Default, intent[p], Tail(work[p])) /\ (Has(Tail(work[p]), "read") => Has(work[p], "read"))
    BY <1>1, <1>7, JobTail
  <2>5. Jobs'
    BY <1>1, <2>1, <2>2, <2>4 DEF RoutesInv, Jobs
  <2>6. Beside' /\ GoingToBe' /\ RoutesAccounted'
    BY <1>1, <1>2, <2>1 DEF RoutesInv, Beside, GoingToBe, RoutesAccounted
  <2>7. Inserted' /\ Cleared'
    BY <1>3, <1>4, <2>1, <2>2 DEF RoutesInv, Inserted, Cleared
  <2>8. Written'
    BY <1>3, <1>4, <2>1, <2>2 DEF RoutesInv, Written
  <2> QED
    BY <1>2, <1>5, <2>3, <2>5, <2>6, <2>7, <2>8 DEF RoutesInv
<1> QED
  BY <1>6, <1>7

\* What ends somebody's command unfinished: nobody knows of it any more, and
\* what it had asked for stays so.
LEMMA GivenUpKeeps ==
  ASSUME RoutesInv, NEW G \in SUBSET Procs,
         work' = [p \in Procs |-> IF p \in G THEN <<>> ELSE work[p]],
         intent' = [p \in Procs |-> IF p \in G THEN {} ELSE intent[p]],
         overlap' = [p \in Procs |-> IF p \in G THEN FALSE ELSE overlap[p]],
         got' \in {got, NotRead},
         UNCHANGED <<default, settings, route, asked, filled, quiet>>
  PROVE  RoutesInv'
<1>1. Default' = Default /\ Value' = Value
  BY DEF Default, Value
<1>2. /\ \A p \in G : intent'[p] = {} /\ work'[p] = <<>>
      /\ \A p \in Procs \ G : intent'[p] = intent[p] /\ work'[p] = work[p] /\ overlap'[p] = overlap[p]
  OBVIOUS
<1>3. RouteTypes'
  <2>1. intent' \in [Procs -> Meanings] /\ overlap' \in [Procs -> BOOLEAN] /\ DOMAIN work' = Procs
    BY DEF RoutesInv, RouteTypes, Meanings
  <2>2. got' \in [channel : Channels \cup {None}, quiet : BOOLEAN]
    <3>1. NotRead \in [channel : Channels \cup {None}, quiet : BOOLEAN]
      BY DEF NotRead
    <3> QED
      BY <3>1 DEF RoutesInv, RouteTypes
  <2> QED
    BY <2>1, <2>2 DEF RoutesInv, RouteTypes
<1>4. Job(Default, {}, <<>>) /\ ~Has(<<>>, "read")
  BY NoJob
<1>5. Jobs'
  BY <1>1, <1>2, <1>4 DEF RoutesInv, Jobs
<1>6. Beside'
  BY <1>2 DEF RoutesInv, Beside
<1>7. GoingToBe'
  BY <1>1, <1>2 DEF RoutesInv, GoingToBe
<1>8. Inserted' /\ Cleared'
  BY <1>2 DEF RoutesInv, Inserted, Cleared
<1>9. Written'
  BY <1>1, <1>2 DEF RoutesInv, Written
<1>10. Silent'
  BY DEF RoutesInv, Silent, NotRead
<1> QED
  BY <1>1, <1>3, <1>5, <1>6, <1>7, <1>8, <1>9, <1>10 DEF RoutesInv, RoutesAccounted

\* Who reads has inserted what was missing, and is at his last statement.
LEMMA ReadComesLast ==
  ASSUME RoutesInv, NEW p \in Procs, Reading(p)
  PROVE  (intent[p] = {"missing"} \/ intent[p] = {}) /\ ~Has(work[p], "insert") /\ Has(work[p], "read")
<1>1. Job(Default, intent[p], work[p]) /\ work[p] # <<>> /\ Op(Head(work[p])) = "read"
  BY DEF RoutesInv, Jobs, Reading
<1>2. intent[p] = {"missing"} \/ intent[p] = {}
  <2>1. Meant(Default, intent[p], Head(work[p]))
    BY <1>1, JobTail
  <2> QED
    BY <1>1, <2>1 DEF Meant
<1>3. ~Has(work[p], "insert") /\ Has(work[p], "read")
  <2>1. Head(work[p]) = work[p][1] /\ Len(work[p]) \in Nat \ {0}
    BY <1>1, HeadTailProperties, JobTail DEF Job
  <2>2. 1 \in 1..Len(work[p])
    BY <2>1
  <2>3. Len(work[p]) = 1
    BY <1>1, <2>1, <2>2 DEF Job
  <2>4. \A k \in 1..Len(work[p]) : k = 1
    BY <2>3
  <2> QED
    BY <1>1, <2>1, <2>2, <2>4 DEF Has
<1> QED
  BY <1>2, <1>3

\* A read that comes last, after which somebody is done.
LEMMA ReadEndsKeeps ==
  ASSUME RoutesInv, NEW p \in Procs, Reading(p), End(p),
         got' \in [channel : Channels \cup {None}, quiet : BOOLEAN], ~got'.quiet,
         UNCHANGED <<default, settings, route, filled, quiet>>
  PROVE  RoutesInv'
<1>1. Default' = Default /\ Value' = Value
  BY DEF Default, Value
<1>3. (intent[p] = {"missing"} \/ intent[p] = {}) /\ ~Has(work[p], "insert")
  BY ReadComesLast
<1>5. intent[p] = {"missing"} /\ ~overlap[p] => Value' # "none"
  <2>1. intent[p] = {"missing"} /\ ~overlap[p] => route.row
    BY <1>3 DEF RoutesInv, Inserted
  <2> QED
    BY <1>1, <2>1 DEF Value
<1>6. /\ intent' \in [Procs -> Meanings] /\ overlap' \in [Procs -> BOOLEAN]
      /\ asked' \subseteq {"on", "off", "none"} /\ DOMAIN work' = Procs
      /\ intent'[p] = {} /\ work'[p] = <<>>
      /\ \A q \in Procs \ {p} : intent'[q] = intent[q] /\ work'[q] = work[q] /\ overlap'[q] = overlap[q]
      /\ Beside' /\ GoingToBe' /\ RoutesAccounted'
  <2>1. RouteTypes /\ Beside /\ GoingToBe /\ (Value \in asked \/ filled)
    BY DEF RoutesInv, RoutesAccounted
  <2>2. default' = default /\ (Value' \in asked \/ filled')
    BY <1>1, <2>1
  <2>3. intent[p] \notin {{}, {"missing"}} /\ ~overlap[p] => filled' \/ intent[p] = {Value'}
    BY <1>3
  <2> QED
    BY <1>5, <2>1, <2>2, <2>3, EndKeeps
<1>7. RouteTypes'
  BY <1>6 DEF RoutesInv, RouteTypes
<1>8. Job(Default, {}, <<>>) /\ ~Has(<<>>, "read")
  BY NoJob
<1>9. Jobs'
  <2>1. Jobs
    BY DEF RoutesInv
  <2>2. ASSUME NEW q \in Procs, q # p
        PROVE  intent'[q] = intent[q] /\ work'[q] = work[q]
    BY <1>6, <2>2
  <2> QED
    BY <1>1, <1>6, <1>8, <2>1, <2>2 DEF Jobs
<1>10. Inserted' /\ Cleared'
  BY <1>6 DEF RoutesInv, Inserted, Cleared
<1>11. Written'
  BY <1>1, <1>6 DEF RoutesInv, Written
<1> QED
  BY <1>6, <1>7, <1>9, <1>10, <1>11 DEF RoutesInv, Silent

\* A read that comes last, after which there is another statement s to execute
\* for the same purpose.
LEMMA ReadGoesOnKeeps ==
  ASSUME RoutesInv, NEW p \in Procs, Reading(p), NEW s \in Statement,
         Op(s) \in {"fill", "channel"}, Op(s) = "channel" => intent[p] = {"missing"},
         work' = [work EXCEPT ![p] = <<s>>],
         UNCHANGED <<default, settings, route, got, intent, overlap, asked, filled, quiet>>
  PROVE  RoutesInv'
<1>1. Default' = Default /\ Value' = Value
  BY DEF Default, Value
<1>3. (intent[p] = {"missing"} \/ intent[p] = {}) /\ ~Has(work[p], "insert")
  BY ReadComesLast
<1>5. Job(Default, intent[p], <<s>>) /\ ~Has(<<s>>, "read")
  <2>1. Meant(Default, intent[p], s)
    BY DEF Meant
  <2> QED
    BY <1>3, <2>1, JobOfOne
<1>6. /\ DOMAIN work' = Procs /\ work'[p] = <<s>>
      /\ \A q \in Procs \ {p} : work'[q] = work[q]
  BY DEF RoutesInv, RouteTypes
<1>7. RouteTypes'
  BY <1>6 DEF RoutesInv, RouteTypes
<1>8. Jobs'
  BY <1>1, <1>5, <1>6 DEF RoutesInv, Jobs
<1>9. Beside' /\ GoingToBe' /\ RoutesAccounted'
  BY <1>1 DEF RoutesInv, Beside, GoingToBe, RoutesAccounted
<1>10. Inserted'
  BY <1>3, <1>6 DEF RoutesInv, Inserted
<1>11. Cleared' /\ Written'
  BY <1>1, <1>3, <1>6 DEF RoutesInv, Cleared, Written
<1> QED
  BY <1>7, <1>8, <1>9, <1>10, <1>11 DEF RoutesInv, Silent

\* The statements that the commands are made of.
LEMMA Statements ==
  /\ Ensure \in Statement /\ Op(Ensure) = "insert"
  /\ Fill \in Statement /\ Op(Fill) = "fill"
  /\ Read \in Statement /\ Op(Read) = "read"
  /\ Reset \in Statement /\ Op(Reset) = "reset"
  /\ Clear \in Statement /\ Op(Clear) = "clear"
  /\ Delete \in Statement /\ Op(Delete) = "delete"
  /\ \A c \in Channels \cup {None} :
       /\ SetChannel(c) \in Statement /\ Op(SetChannel(c)) = "channel"
       /\ Send(c) \in Statement /\ Op(Send(c)) = "send"
  /\ \A on \in BOOLEAN :
       /\ SetEnabled(on) \in Statement /\ Op(SetEnabled(on)) = "enabled"
       /\ Show(on) \in Statement /\ Op(Show(on)) = "show" /\ Show(on)[2] = on
<1>1. /\ Op(Ensure) = "insert" /\ Op(Fill) = "fill" /\ Op(Read) = "read"
      /\ Op(Reset) = "reset" /\ Op(Clear) = "clear" /\ Op(Delete) = "delete"
  BY DEF Op, Ensure, Fill, Read, Reset, Clear, Delete
<1>2. ASSUME NEW c \in Channels \cup {None}
      PROVE  Op(SetChannel(c)) = "channel" /\ Op(Send(c)) = "send"
  BY DEF Op, SetChannel, Send
<1>3. ASSUME NEW on \in BOOLEAN
      PROVE  Op(SetEnabled(on)) = "enabled" /\ Op(Show(on)) = "show" /\ Show(on)[2] = on
  BY DEF Op, SetEnabled, Show
<1> QED
  BY <1>1, <1>2, <1>3 DEF Statement

\* The jobs that are begun, with what their owners mean by them.
LEMMA Programs ==
  ASSUME NEW d \in {"on", "off"}
  PROVE  /\ \A on \in BOOLEAN : Job(d, {}, <<SetEnabled(on)>>) /\ ~Has(<<SetEnabled(on)>>, "read")
         /\ Job(d, {}, <<Fill>>) /\ ~Has(<<Fill>>, "read")
         /\ Job(d, {}, <<Fill, Read>>)
         /\ Job(d, {"missing"}, <<Ensure, Read>>) /\ Has(<<Ensure, Read>>, "insert")
         /\ \A c \in Channels : Job(d, {"missing"}, SetBridge(c)) /\ Has(SetBridge(c), "insert")
         /\ Job(d, {d}, ResetRoutes) /\ Writing(ResetRoutes)
         /\ Job(d, {"none"}, ClearBridge) /\ Writing(ClearBridge) /\ Has(ClearBridge, "clear")
         /\ \A on \in BOOLEAN : Job(d, {IF on THEN "on" ELSE "off"}, ShowOnly(on)) /\ Writing(ShowOnly(on))
         /\ \A c \in Channels \cup {None} :
              /\ Job(d, {"on"}, <<Fill, Send(c), Fill, Show(TRUE), Fill>>)
              /\ Writing(<<Fill, Send(c), Fill, Show(TRUE), Fill>>)
<1>1. \A on \in BOOLEAN : Job(d, {}, <<SetEnabled(on)>>) /\ ~Has(<<SetEnabled(on)>>, "read")
  BY Statements, JobOfOne DEF Meant
<1>2. Job(d, {}, <<Fill>>) /\ ~Has(<<Fill>>, "read")
  BY Statements, JobOfOne DEF Meant
<1>3. Job(d, {}, <<Fill, Read>>)
  BY Statements, JobOfTwo DEF Meant
<1>4. Job(d, {"missing"}, <<Ensure, Read>>) /\ Has(<<Ensure, Read>>, "insert")
  BY Statements, JobOfTwo DEF Meant
<1>5. ASSUME NEW c \in Channels
      PROVE  Job(d, {"missing"}, SetBridge(c)) /\ Has(SetBridge(c), "insert")
  <2> DEFINE i == {"missing"}
  <2>1. /\ Meant(d, i, SetChannel(c)) /\ Meant(d, i, SetEnabled(TRUE)) /\ Meant(d, i, Ensure)
        /\ SetChannel(c) \in Statement /\ SetEnabled(TRUE) \in Statement /\ Ensure \in Statement
        /\ Op(Ensure) = "insert" /\ Op(SetChannel(c)) # "read" /\ Op(SetEnabled(TRUE)) # "read"
        /\ i # {"none"}
    BY Statements DEF Meant
  <2> HIDE DEF i
  <2> DEFINE w == <<SetChannel(c), SetEnabled(TRUE), Ensure>>
  <2>2. Job(d, i, w)
    BY <2>1, JobOfThree
  <2>3. Has(w, Op(Ensure))
    BY <2>1, HasOfThree
  <2> QED
    BY <2>1, <2>2, <2>3 DEF i, SetBridge
<1>6. Job(d, {d}, ResetRoutes) /\ Has(ResetRoutes, "reset")
  <2> DEFINE i == {d}
  <2>1. /\ Meant(d, i, Ensure) /\ Meant(d, i, Reset) /\ Meant(d, i, SetEnabled(TRUE))
        /\ Ensure \in Statement /\ Reset \in Statement /\ SetEnabled(TRUE) \in Statement
        /\ Op(Reset) = "reset" /\ Op(Reset) # "read" /\ Op(Ensure) # "read"
        /\ i # {"none"}
    BY Statements DEF Meant
  <2> HIDE DEF i
  <2> DEFINE w == <<Ensure, Reset, SetEnabled(TRUE)>>
  <2>2. Job(d, i, w)
    <3>1. /\ Meant(d, i, Ensure) /\ Meant(d, i, Reset) /\ Meant(d, i, SetEnabled(TRUE))
          /\ Ensure \in Statement /\ Reset \in Statement /\ SetEnabled(TRUE) \in Statement
          /\ Op(Ensure) # "read" /\ Op(Reset) # "read"
          /\ i = {"none"} => Op(SetEnabled(TRUE)) = "delete"
      BY <2>1
    <3> QED
      BY <3>1, JustThree
  <2>3. Has(w, Op(Reset))
    BY <2>1, HasOfThree
  <2> QED
    BY <2>1, <2>2, <2>3 DEF i, ResetRoutes
<1>7. Job(d, {"none"}, ClearBridge) /\ Has(ClearBridge, "delete") /\ Has(ClearBridge, "clear")
  BY Statements, JobOfTwo DEF Meant, ClearBridge
<1>8. ASSUME NEW on \in BOOLEAN
      PROVE  Job(d, {IF on THEN "on" ELSE "off"}, ShowOnly(on)) /\ Has(ShowOnly(on), "show")
  <2> DEFINE i == {IF on THEN "on" ELSE "off"}
  <2>1. /\ Meant(d, i, Fill) /\ Meant(d, i, Show(on)) /\ i # {"none"}
        /\ Op(Fill) # "read" /\ Op(Show(on)) # "read"
    BY Statements DEF Meant
  <2> HIDE DEF i
  <2>2. Job(d, i, ShowOnly(on)) /\ Has(ShowOnly(on), "show")
    BY <2>1, Statements, JobOfThree DEF ShowOnly
  <2> QED
    BY <2>2 DEF i
<1>9. ASSUME NEW c \in Channels \cup {None}
      PROVE  /\ Job(d, {"on"}, <<Fill, Send(c), Fill, Show(TRUE), Fill>>)
             /\ Has(<<Fill, Send(c), Fill, Show(TRUE), Fill>>, "send")
  <2>1. /\ Meant(d, {"on"}, Fill) /\ Meant(d, {"on"}, Send(c)) /\ Meant(d, {"on"}, Show(TRUE))
        /\ Fill \in Statement /\ Send(c) \in Statement /\ Show(TRUE) \in Statement
        /\ Op(Fill) # "read" /\ Op(Send(c)) = "send" /\ Op(Show(TRUE)) # "read"
    BY Statements DEF Meant
  <2>2. /\ Job(d, {"on"}, <<Fill, Send(c), Fill, Show(TRUE), Fill>>)
        /\ Has(<<Fill, Send(c), Fill, Show(TRUE), Fill>>, Op(Send(c)))
    <3>1. {"on"} # {"none"}
      OBVIOUS
    <3> HIDE DEF Fill
    <3> QED
      BY <2>1, <3>1, JobOfFive
  <2> QED
    BY <2>1, <2>2
<1> QED
  BY <1>1, <1>2, <1>3, <1>4, <1>5, <1>6, <1>7, <1>8, <1>9 DEF Writing

LEMMA SlashKeeps ==
  ASSUME RoutesInv, NEW a \in Admins,
         SetFeed(a) \/ Pause(a) \/ Resume(a) \/ ResetFeed(a) \/ RemoveFeed(a)
  PROVE  RoutesInv'
<1>1. /\ a \in Procs /\ Default \in {"on", "off"}
      /\ {} \in Meanings /\ {"missing"} \in Meanings /\ {"none"} \in Meanings /\ {Default} \in Meanings
      /\ got \in [channel : Channels \cup {None}, quiet : BOOLEAN] /\ ~got.quiet
  BY DEF Procs, Default, Meanings, RoutesInv, RouteTypes, Silent
<1>2. ASSUME SetFeed(a)
      PROVE  RoutesInv'
  <2>1. PICK c \in Channels : Slash(a, SetBridge(c), {"missing"})
    BY <1>2 DEF SetFeed
  <2> QED
    BY <2>1, <1>1, Programs, BeginKeeps DEF Slash, Command
<1>3. ASSUME Pause(a) \/ Resume(a)
      PROVE  RoutesInv'
  BY <1>1, <1>3, Programs, BeginKeeps DEF Pause, Resume, Slash, Command
<1>4. ASSUME ResetFeed(a)
      PROVE  RoutesInv'
  <2>1. {Default} # {"missing"} /\ {Default} # {"none"}
    BY <1>1
  <2> QED
    BY <1>1, <1>4, <2>1, Programs, BeginKeeps DEF ResetFeed, Slash, Command
<1>5. ASSUME RemoveFeed(a)
      PROVE  RoutesInv'
  BY <1>1, <1>5, Programs, BeginKeeps DEF RemoveFeed, Slash, Command
<1> QED
  BY <1>2, <1>3, <1>4, <1>5

LEMMA PanelKeeps ==
  ASSUME RoutesInv, NEW a \in Admins,
         Customize(a) \/ PanelOpens(a) \/ Navigate(a) \/ Toggle(a) \/ ChooseChannel(a) \/ PanelTimesOut(a)
  PROVE  RoutesInv'
<1>1. /\ a \in Procs /\ Default \in {"on", "off"}
      /\ {} \in Meanings /\ {"missing"} \in Meanings /\ {"on"} \in Meanings /\ {"off"} \in Meanings
      /\ got \in [channel : Channels \cup {None}, quiet : BOOLEAN] /\ ~got.quiet
  BY DEF Procs, Default, Meanings, RoutesInv, RouteTypes, Silent
<1>2. ASSUME Customize(a)
      PROVE  RoutesInv'
  BY <1>1, <1>2, Programs, BeginKeeps DEF Customize, PanelUnchanged
<1>3. ASSUME PanelOpens(a)
      PROVE  RoutesInv'
  <2>1. CASE settings.channel = None
    BY <1>1, <1>3, <2>1, ReadEndsKeeps DEF PanelOpens, PanelUnchanged
  <2>2. CASE settings.channel # None
    BY <1>1, <1>3, <2>2, Statements, ReadGoesOnKeeps DEF PanelOpens, PanelUnchanged
  <2> QED
    BY <2>1, <2>2
<1>4. ASSUME Navigate(a)
      PROVE  RoutesInv'
  BY <1>1, <1>4, Programs, BeginKeeps DEF Navigate, PanelUnchanged
<1>5. ASSUME Toggle(a)
      PROVE  RoutesInv'
  <2>1. PICK on \in BOOLEAN : Command(a, ShowOnly(on), {IF on THEN "on" ELSE "off"})
    BY <1>5 DEF Toggle
  <2>2. {IF on THEN "on" ELSE "off"} \in Meanings \ {{}, {"missing"}, {"none"}}
    BY DEF Meanings
  <2> QED
    BY <1>1, <2>1, <2>2, Programs, BeginKeeps DEF Command
<1>6. ASSUME ChooseChannel(a)
      PROVE  RoutesInv'
  <2>1. PICK c \in Channels \cup {None} : Command(a, <<Fill, Send(c), Fill, Show(TRUE), Fill>>, {"on"})
    BY <1>6 DEF ChooseChannel
  <2>2. {"on"} # {"missing"} /\ {"on"} # {"none"}
    OBVIOUS
  <2> DEFINE st == <<Fill, Send(c), Fill, Show(TRUE), Fill>>
  <2>3. Job(Default, {"on"}, st) /\ Writing(st)
    BY <1>1, Programs
  <2>4. /\ Begin(a, st, {"on"})
        /\ UNCHANGED <<default, settings, route, got, filled, quiet>>
    BY <2>1 DEF Command
  <2> HIDE DEF st
  <2> QED
    BY <1>1, <2>2, <2>3, <2>4, BeginKeeps
<1>7. ASSUME PanelTimesOut(a)
      PROVE  RoutesInv'
  BY <1>7 DEF PanelTimesOut, PanelUnchanged, RoutesInv, RouteTypes, Jobs, Beside, GoingToBe,
              Inserted, Written, Cleared, Silent, RoutesAccounted, Default, Value
<1> QED
  BY <1>2, <1>3, <1>4, <1>5, <1>6, <1>7

LEMMA RoutesStutters ==
  ASSUME RoutesInv, got' = got \/ got' = NotRead,
         UNCHANGED <<default, settings, route, work, intent, overlap, asked, filled, quiet>>
  PROVE  RoutesInv'
<1>1. got' \in [channel : Channels \cup {None}, quiet : BOOLEAN] /\ ~got'.quiet
  <2>1. NotRead \in [channel : Channels \cup {None}, quiet : BOOLEAN] /\ ~NotRead.quiet
    BY DEF NotRead
  <2> QED
    BY <2>1 DEF RoutesInv, RouteTypes, Silent
<1> QED
  BY <1>1 DEF RoutesInv, RouteTypes, Jobs, Beside, GoingToBe, Inserted, Written, Cleared, Silent,
              RoutesAccounted, Default, Value

LEMMA FeedKeeps ==
  ASSUME RoutesInv, FeedReadsSettings \/ FeedReadsRoutes \/ Post
  PROVE  RoutesInv'
<1>1. Feed \in Procs /\ Default \in {"on", "off"} /\ {} \in Meanings
  BY DEF Procs, Default, Meanings
<1>2. CASE FeedReadsSettings
  <2>1. got' = [channel |-> settings.channel, quiet |-> quiet] /\ settings.channel # None
    BY <1>2 DEF FeedReadsSettings
  <2>2. got' \in [channel : Channels \cup {None}, quiet : BOOLEAN] /\ ~got'.quiet
    BY <2>1 DEF RoutesInv, RouteTypes, Silent
  <2> QED
    BY <1>1, <1>2, <2>2, Programs, BeginKeeps DEF FeedReadsSettings
<1>3. CASE FeedReadsRoutes
  <2>1. got' \in [channel : Channels \cup {None}, quiet : BOOLEAN] /\ ~got'.quiet
    <3>1. RouteChannel \in Channels \cup {None}
      BY DEF RouteChannel, RoutesInv, RouteTypes
    <3>2. got' = [got EXCEPT !.channel = RouteChannel] \/ got' = NotRead
      BY <1>3 DEF FeedReadsRoutes
    <3>3. NotRead \in [channel : Channels \cup {None}, quiet : BOOLEAN] /\ ~NotRead.quiet
      BY DEF NotRead
    <3>4. /\ [got EXCEPT !.channel = RouteChannel] \in [channel : Channels \cup {None}, quiet : BOOLEAN]
          /\ ~[got EXCEPT !.channel = RouteChannel].quiet
      BY <3>1 DEF RoutesInv, RouteTypes, Silent
    <3> QED
      BY <3>2, <3>3, <3>4
  <2> QED
    BY <1>1, <1>3, <2>1, ReadEndsKeeps DEF FeedReadsRoutes
<1>4. CASE Post
  BY <1>4, RoutesStutters DEF Post, history
<1> QED
  BY <1>2, <1>3, <1>4

LEMMA StartKeeps ==
  ASSUME RoutesInv, BeginStart \/ StartReads \/ Started
  PROVE  RoutesInv'
<1>1. /\ Start \in Procs /\ Default \in {"on", "off"} /\ {"missing"} \in Meanings
      /\ got \in [channel : Channels \cup {None}, quiet : BOOLEAN] /\ ~got.quiet
  BY DEF Procs, Default, Meanings, RoutesInv, RouteTypes, Silent
<1>2. CASE BeginStart
  <2>1. {"missing"} # {"none"}
    OBVIOUS
  <2> QED
    BY <1>1, <1>2, <2>1, Programs, BeginKeeps DEF BeginStart, StartUnchanged
<1>3. CASE StartReads
  <2>1. CASE settings.channel = None /\ settings.enabled /\ EnvChannel # None
    <3>1. EnvChannel \in Channels \cup {None}
      BY RoutesAssumption DEF RoutesAssumption
    <3>2. SetChannel(EnvChannel) \in Statement /\ Op(SetChannel(EnvChannel)) = "channel"
      BY <3>1, Statements
    <3>3. /\ work' = [work EXCEPT ![Start] = <<SetChannel(EnvChannel)>>]
          /\ UNCHANGED <<default, settings, route, got, intent, overlap, asked, filled, quiet>>
          /\ Reading(Start)
      BY <1>3, <2>1 DEF StartReads, StartUnchanged
    <3>4. intent[Start] = {"missing"}
      BY <1>1, <3>3, ReadComesLast DEF RoutesInv, Jobs, Start, Feed
    <3> QED
      BY <1>1, <3>2, <3>3, <3>4, ReadGoesOnKeeps
  <2>2. CASE ~(settings.channel = None /\ settings.enabled /\ EnvChannel # None)
    BY <1>1, <1>3, <2>2, ReadEndsKeeps DEF StartReads, StartUnchanged
  <2> QED
    BY <2>1, <2>2
<1>4. CASE Started
  BY <1>4, RoutesStutters DEF Started, StartUnchanged
<1> QED
  BY <1>2, <1>3, <1>4

LEMMA TroubleKeeps ==
  ASSUME RoutesInv, Crash \/ \E p \in Procs : Fail(p)
  PROVE  RoutesInv'
<1>1. CASE Crash
  <2>1. /\ work' = [p \in Procs |-> IF p \in Procs THEN <<>> ELSE work[p]]
        /\ intent' = [p \in Procs |-> IF p \in Procs THEN {} ELSE intent[p]]
        /\ overlap' = [p \in Procs |-> IF p \in Procs THEN FALSE ELSE overlap[p]]
        /\ got' = NotRead
        /\ UNCHANGED <<default, settings, route, asked, filled, quiet>>
    BY <1>1 DEF Crash
  <2> QED
    BY <2>1, GivenUpKeeps
<1>2. ASSUME NEW p \in Procs, Fail(p)
      PROVE  RoutesInv'
  <2>1. /\ work' = [q \in Procs |-> IF q \in {p} THEN <<>> ELSE work[q]]
        /\ intent' = [q \in Procs |-> IF q \in {p} THEN {} ELSE intent[q]]
        /\ overlap' = [q \in Procs |-> IF q \in {p} THEN FALSE ELSE overlap[q]]
        /\ got' \in {got, NotRead}
        /\ UNCHANGED <<default, settings, route, asked, filled, quiet>>
    <3>1. DOMAIN work = Procs /\ intent \in [Procs -> Meanings] /\ overlap \in [Procs -> BOOLEAN]
      BY DEF RoutesInv, RouteTypes
    <3>2. /\ work' = [work EXCEPT ![p] = <<>>] /\ intent' = [intent EXCEPT ![p] = {}]
          /\ overlap' = [overlap EXCEPT ![p] = FALSE]
          /\ got' = IF p = Feed THEN NotRead ELSE got
          /\ UNCHANGED <<default, settings, route, asked, filled, quiet>>
      BY <1>2 DEF Fail
    <3>3. work' = [q \in Procs |-> IF q \in {p} THEN <<>> ELSE work[q]]
      <4>1. [work EXCEPT ![p] = <<>>] = [q \in DOMAIN work |-> IF q = p THEN <<>> ELSE work[q]]
        OBVIOUS
      <4> QED
        BY <3>1, <3>2, <4>1
    <3>4. /\ intent' = [q \in Procs |-> IF q \in {p} THEN {} ELSE intent[q]]
          /\ overlap' = [q \in Procs |-> IF q \in {p} THEN FALSE ELSE overlap[q]]
      BY <3>1, <3>2
    <3> QED
      BY <3>2, <3>3, <3>4
  <2> QED
    BY <2>1, GivenUpKeeps
<1> QED
  BY <1>1, <1>2

LEMMA RoutesStepKeeps ==
  ASSUME RoutesInv, RoutesStep
  PROVE  RoutesInv'
BY ExecuteKeeps, TroubleKeeps, SlashKeeps, PanelKeeps, StartKeeps, FeedKeeps DEF RoutesStep

LEMMA SettingsFollow ==
  ASSUME RoutesInv, GateInv
  PROVE  SettingsAccounted
BY DEF RoutesInv, Silent, GateInv, SettingsAccounted, RemovedIsSilent

-----------------------------------------------------------------------------
(* The batches.                                                            *)

\* What arrives.
Received == {"line", "join line", "join"}

\* The events of the batch under way, or of the last one.
Batch == {e \in 1..taken : batchOf[e] = taken}

\* The events that something shows, or that have an excuse.
Settled == {e \in 1..taken : (e \in DOMAIN sentTo /\ Reached(e)) \/ Excused(e)}

\* The events that repeat an earlier one.
Repeated == {e \in 1..taken : \E f \in 1..e : <<e, f>> \in repeats}

\* The events that a channel's messages are still to show.
Waiting == {e \in DOMAIN sentTo : sentTo[e] # Hidden /\ e \in outbox[sentTo[e]]}

BatchTypes ==
  /\ events \in Seq(Received) /\ taken \in Nat
  /\ feed \in {"idle", "settings", "unique", "routes", "post", "cursor"}
  /\ rows \in SUBSET Nat
  /\ outbox \in [FeedChannels -> SUBSET Nat]
  /\ channel \in FeedChannels \cup {Hidden}
  /\ recent \in 0..taken
  /\ batchOf \in [1..taken -> 0..taken]
  /\ DOMAIN sentTo \subseteq 1..taken
  /\ sentTo \in [DOMAIN sentTo -> FeedChannels \cup {Hidden}]
  /\ shown \in [FeedChannels -> Seq(SUBSET Nat)]

\* Rows and messages are those of the batch, while it is under way; the rows
\* are later than all that was routed and than the join that is remembered.
RowsInv ==
  /\ rows \subseteq Batch
  /\ feed \notin {"settings", "unique", "routes"} => rows = {}
  /\ feed # "post" => outbox = NoPosts
  /\ channel # Hidden => feed = "post" /\ outbox[channel] # {}
  /\ \A e \in DOMAIN sentTo, f \in rows : e < f
  /\ feed \in {"settings", "unique"} => \A f \in rows : recent < f

\* What became of the events so far.
FateInv ==
  /\ \A e \in 1..taken : batchOf[e] # taken => e \in Settled
  /\ feed \in {"idle", "cursor"} => Batch \subseteq Settled
  /\ feed \in {"settings", "unique"} => Batch \subseteq rows
  /\ feed = "routes" => Batch \subseteq rows \cup Repeated
  /\ feed = "post" => Batch \subseteq Settled \cup Waiting

\* A message that is shown is earlier than the rows that are left, or is the
\* next one, and its post was answered with an error.
PostInv ==
  \A c \in FeedChannels :
    /\ outbox[c] \subseteq {e \in Batch \cap DOMAIN sentTo : sentTo[e] = c}
    /\ \A i \in DOMAIN shown[c] :
         /\ shown[c][i] \subseteq {e \in DOMAIN sentTo : sentTo[e] = c}
         /\ \/ \A e \in shown[c][i], f \in outbox[c] : e < f
            \/ shown[c][i] = Message(outbox[c]) /\ <<c, shown[c][i]>> \in unsure
         /\ \A j \in DOMAIN shown[c] : i < j =>
              \/ \A e \in shown[c][i], f \in shown[c][j] : e < f
              \/ shown[c][i] = shown[c][j] /\ <<c, shown[c][i]>> \in unsure

BatchesInv == BatchTypes /\ RowsInv /\ FateInv /\ PostInv

\* The earliest of a set's numbers, if it has any.
LEMMA EarliestOf ==
  ASSUME NEW S \in SUBSET Nat, S # {}
  PROVE  \E e \in S : \A f \in S : e <= f
<1>1. PICK e \in S : \A f \in S : <<f, e>> \notin OpToRel(<, Nat)
  BY NatLessThanWellFounded, WFMin
<1>2. \A f \in S : ~(f < e)
  BY <1>1 DEF OpToRel
<1> QED
  BY <1>2

\* A message shows the earliest rows.
LEMMA MessageFirst ==
  ASSUME NEW S \in SUBSET Nat
  PROVE  /\ Message(S) \subseteq S
         /\ \A e \in Message(S), f \in S \ Message(S) : e < f
<1>1. Message(S) \subseteq S
  BY DEF Message
<1>2. ASSUME NEW e \in Message(S), NEW f \in S \ Message(S), ~(e < f)
      PROVE  FALSE
  <2> DEFINE before(x) == {g \in S : g < x}
  <2>0. e \in S /\ f \in S
    BY <1>1, <1>2
  <2>1. e \in Nat /\ f \in Nat /\ f <= e
    BY <1>2, <2>0
  <2>2. before(f) \subseteq before(e)
    <3> SUFFICES ASSUME NEW g \in S, g < f
                 PROVE  g < e
      OBVIOUS
    <3> QED
      BY <2>1
  <2>3. before(e) \subseteq 0..e
    <3> SUFFICES ASSUME NEW g \in S, g < e
                 PROVE  g \in 0..e
      OBVIOUS
    <3> QED
      BY <2>1
  <2>4. IsFiniteSet(0..e)
    BY <2>1, FS_Interval
  <2>5. IsFiniteSet(before(e)) /\ IsFiniteSet(before(f))
    BY <2>2, <2>3, <2>4, FS_Subset
  <2>6. Cardinality(before(f)) <= Cardinality(before(e))
    BY <2>2, <2>5, FS_Subset
  <2>7. Cardinality(before(e)) \in Nat /\ Cardinality(before(f)) \in Nat
    BY <2>5, FS_CardinalityType
  <2>8. Cardinality(before(e)) < RowsPerPost
    BY <1>2 DEF Message
  <2>9. Cardinality(before(f)) < RowsPerPost
    <3> HIDE DEF before
    <3> QED
      BY <2>6, <2>7, <2>8, BatchesAssumption
  <2> QED
    BY <1>2, <2>1, <2>9 DEF Message
<1> QED
  BY <1>1, <1>2

\* What has an excuse or is shown stays so: nothing that was recorded is
\* taken back.
LEMMA SettledStays ==
  ASSUME BatchTypes, BatchTypes', taken <= taken',
         \A e \in 1..taken : batchOf'[e] = batchOf[e],
         off \subseteq off', failed \subseteq failed', repeats \subseteq repeats',
         broken \subseteq broken', DOMAIN sentTo \subseteq DOMAIN sentTo',
         \A e \in DOMAIN sentTo : sentTo'[e] = sentTo[e],
         \A c \in FeedChannels : \A i \in DOMAIN shown[c] :
           i \in DOMAIN shown'[c] /\ shown'[c][i] = shown[c][i]
  PROVE  Settled \subseteq Settled'
<1> SUFFICES ASSUME NEW e \in 1..taken, (e \in DOMAIN sentTo /\ Reached(e)) \/ Excused(e)
             PROVE  e \in Settled'
  BY DEF Settled
<1>1. e \in 1..taken' /\ batchOf'[e] = batchOf[e]
  BY DEF BatchTypes
<1>2. CASE e \in DOMAIN sentTo /\ Reached(e)
  <2>1. sentTo[e] \in FeedChannels
    BY <1>2 DEF Reached, BatchTypes
  <2>2. PICK i \in DOMAIN shown[sentTo[e]] : e \in shown[sentTo[e]][i]
    BY <1>2 DEF Reached, Shows
  <2>3. i \in DOMAIN shown'[sentTo[e]] /\ e \in shown'[sentTo[e]][i]
    BY <2>1, <2>2
  <2> QED
    BY <1>1, <1>2, <2>3 DEF Reached, Shows, Settled
<1>3. CASE Excused(e)
  BY <1>1, <1>3 DEF Excused, Settled
<1> QED
  BY <1>2, <1>3

LEMMA BatchesInitHolds ==
  ASSUME BatchesInit
  PROVE  BatchesInv
<1>1. BatchTypes
  <2>1. \A c \in FeedChannels : shown[c] = <<>>
    BY DEF BatchesInit
  <2> QED
    BY <2>1, BatchesAssumption DEF BatchesInit, BatchTypes, NoPosts
<1>2. RowsInv /\ FateInv
  BY BatchesAssumption DEF BatchesInit, RowsInv, FateInv, Batch, NoPosts
<1>3. PostInv
  BY BatchesAssumption DEF BatchesInit, PostInv, NoPosts
<1> QED
  BY <1>1, <1>2, <1>3 DEF BatchesInv

\* What a step leaves alone that is no part of posting.
LEMMA PostInvStays ==
  ASSUME PostInv, UNCHANGED <<taken, outbox, batchOf, sentTo, shown, unsure>>
  PROVE  PostInv'
BY DEF PostInv, Batch

LEMMA FateStays ==
  ASSUME UNCHANGED <<taken, batchOf, sentTo, outbox, shown, repeats, off, failed, broken>>
  PROVE  Batch' = Batch /\ Settled' = Settled /\ Repeated' = Repeated /\ Waiting' = Waiting
BY DEF Batch, Settled, Repeated, Waiting, Reached, Shows, Excused

LEMMA ArriveKeeps ==
  ASSUME BatchesInv, Arrive
  PROVE  BatchesInv'
<1>1. UNCHANGED <<taken, feed, rows, outbox, channel, recent, batchOf, sentTo, shown,
                  repeats, off, failed, broken, unsure>>
  BY DEF Arrive, feedVars, batchHistory
<1>2. events' \in Seq(Received)
  <2>1. PICK e \in Received : events' = Append(events, e)
    BY DEF Arrive, Received
  <2>2. events \in Seq(Received)
    BY DEF BatchesInv, BatchTypes
  <2> QED
    BY <2>1, <2>2, AppendProperties
<1>3. BatchTypes'
  BY <1>1, <1>2 DEF BatchesInv, BatchTypes
<1>4. RowsInv'
  BY <1>1, FateStays DEF BatchesInv, RowsInv
<1>5. FateInv'
  BY <1>1, FateStays DEF BatchesInv, FateInv
<1> QED
  BY <1>1, <1>3, <1>4, <1>5, PostInvStays DEF BatchesInv

\* The topic's lock, the join that is forgotten, and the cursor.
LEMMA AsideKeeps ==
  ASSUME BatchesInv, Forget \/ LockForTopic \/ TopicDone \/ MoveFeedCursor
  PROVE  BatchesInv'
<1>1. UNCHANGED <<events, taken, rows, outbox, channel, batchOf, sentTo, shown,
                  repeats, off, failed, broken, unsure>>
  BY DEF Forget, LockForTopic, TopicDone, MoveFeedCursor, feedVars, batchHistory
<1>2. feed' = feed \/ (feed = "cursor" /\ feed' = "idle")
  BY DEF Forget, LockForTopic, TopicDone, MoveFeedCursor, feedVars
<1>3. recent' = recent \/ recent' = 0
  BY DEF Forget, LockForTopic, TopicDone, MoveFeedCursor
<1>4. BatchTypes'
  BY <1>1, <1>2, <1>3 DEF BatchesInv, BatchTypes
<1>5. rows \subseteq 1..taken
  BY DEF BatchesInv, RowsInv, Batch
<1>6. feed \in {"settings", "unique"} => \A f \in rows : recent' < f
  BY <1>3, <1>5 DEF BatchesInv, BatchTypes, RowsInv
<1>7. RowsInv'
  BY <1>1, <1>2, <1>6, FateStays DEF BatchesInv, RowsInv
<1>8. FateInv'
  BY <1>1, <1>2, FateStays DEF BatchesInv, FateInv
<1> QED
  BY <1>1, <1>4, <1>7, <1>8, PostInvStays DEF BatchesInv

LEMMA PickChannelKeeps ==
  ASSUME BatchesInv, PickChannel
  PROVE  BatchesInv'
<1>1. UNCHANGED <<events, taken, feed, rows, outbox, recent, batchOf, sentTo, shown,
                  repeats, off, failed, broken, unsure>>
  BY DEF PickChannel, batchHistory
<1>2. channel' \in FeedChannels /\ feed = "post" /\ outbox[channel'] # {}
  BY DEF PickChannel, Unposted
<1>3. BatchTypes'
  BY <1>1, <1>2 DEF BatchesInv, BatchTypes
<1>4. RowsInv'
  BY <1>1, <1>2, FateStays DEF BatchesInv, RowsInv
<1>5. FateInv'
  BY <1>1, FateStays DEF BatchesInv, FateInv
<1> QED
  BY <1>1, <1>3, <1>4, <1>5, PostInvStays DEF BatchesInv

LEMMA AllPostedKeeps ==
  ASSUME BatchesInv, AllPosted
  PROVE  BatchesInv'
<1>1. UNCHANGED <<events, taken, rows, outbox, channel, recent, batchOf, sentTo, shown,
                  repeats, off, failed, broken, unsure>>
  BY DEF AllPosted, batchHistory
<1>2. feed = "post" /\ feed' = "cursor" /\ \A c \in FeedChannels : outbox[c] = {}
  BY DEF AllPosted, Unposted
<1>3. outbox = NoPosts
  BY <1>2 DEF BatchesInv, BatchTypes, NoPosts
<1>4. channel = Hidden
  BY <1>2 DEF BatchesInv, BatchTypes, RowsInv
<1>5. Waiting = {}
  <2> SUFFICES ASSUME NEW e \in Waiting
               PROVE  FALSE
    OBVIOUS
  <2>1. sentTo[e] \in FeedChannels
    BY DEF Waiting, BatchesInv, BatchTypes
  <2> QED
    BY <1>2, <2>1 DEF Waiting
<1>6. BatchTypes'
  BY <1>1, <1>2 DEF BatchesInv, BatchTypes
<1>7. RowsInv'
  BY <1>1, <1>2, <1>3, <1>4, FateStays DEF BatchesInv, RowsInv
<1>8. FateInv'
  BY <1>1, <1>2, <1>5, FateStays DEF BatchesInv, FateInv
<1> QED
  BY <1>1, <1>6, <1>7, <1>8, PostInvStays DEF BatchesInv

LEMMA TakeKeeps ==
  ASSUME BatchesInv, Take
  PROVE  BatchesInv'
<1> USE BatchesAssumption
<1>1. feed = "idle" /\ feed' = "settings" /\ rows' = taken + 1 .. taken'
  BY DEF Take
<1>2. taken' \in Nat /\ taken \in Nat /\ taken < taken'
  <2>1. taken \in Nat /\ Len(events) \in Nat /\ taken < Len(events)
    BY DEF Take, BatchesInv, BatchTypes
  <2> QED
    BY <2>1 DEF Take
<1>3. UNCHANGED <<events, outbox, channel, recent, sentTo, shown, repeats, off, failed, broken, unsure>>
  BY DEF Take
<1>4. /\ DOMAIN batchOf' = 1..taken'
      /\ \A e \in 1..taken : batchOf'[e] = batchOf[e] /\ batchOf[e] \in 0..taken
      /\ \A e \in taken + 1 .. taken' : batchOf'[e] = taken'
      /\ batchOf' = [e \in 1..taken' |-> batchOf'[e]]
  <2>1. batchOf' = [e \in 1..taken' |-> IF e <= taken THEN batchOf[e] ELSE taken']
    BY DEF Take
  <2>2. \A e \in 1..taken : batchOf[e] \in 0..taken
    BY DEF BatchesInv, BatchTypes
  <2> QED
    BY <1>2, <2>1, <2>2
<1>5. Batch' = rows'
  BY <1>1, <1>2, <1>4 DEF Batch
<1>6. BatchTypes'
  <2>1. batchOf' \in [1..taken' -> 0..taken']
    <3>1. \A e \in 1..taken' : batchOf'[e] \in 0..taken'
      BY <1>2, <1>4
    <3> QED
      BY <1>4, <3>1
  <2>2. DOMAIN sentTo' \subseteq 1..taken' /\ recent' \in 0..taken'
    BY <1>2, <1>3 DEF BatchesInv, BatchTypes
  <2>3. rows' \subseteq Nat
    BY <1>1, <1>2
  <2> QED
    BY <1>1, <1>2, <1>3, <2>1, <2>2, <2>3 DEF BatchesInv, BatchTypes
<1>7. RowsInv'
  <2>1. \A e \in DOMAIN sentTo, f \in rows' : e < f
    BY <1>1, <1>2 DEF BatchesInv, BatchTypes
  <2>2. \A f \in rows' : recent < f
    BY <1>1, <1>2 DEF BatchesInv, BatchTypes
  <2>3. outbox = NoPosts /\ channel = Hidden
    BY <1>1 DEF BatchesInv, RowsInv
  <2> QED
    BY <1>1, <1>3, <1>5, <2>1, <2>2, <2>3 DEF RowsInv
<1>8. FateInv'
  <2>1. Settled \subseteq Settled'
    BY <1>2, <1>3, <1>4, <1>6, SettledStays DEF BatchesInv
  <2>2. \A e \in 1..taken : e \in Settled
    BY <1>1 DEF BatchesInv, FateInv, Batch
  <2>3. \A e \in 1..taken' : batchOf'[e] # taken' => e \in 1..taken
    BY <1>2, <1>4
  <2> QED
    BY <1>1, <1>5, <2>1, <2>2, <2>3 DEF FateInv
<1>9. PostInv'
  <2>1. \A c \in FeedChannels : outbox[c] = {}
    BY <1>1 DEF BatchesInv, RowsInv, NoPosts
  <2> QED
    BY <1>3, <2>1 DEF BatchesInv, PostInv
<1> QED
  BY <1>6, <1>7, <1>8, <1>9 DEF BatchesInv

LEMMA ReadSettingsKeeps ==
  ASSUME BatchesInv, ReadSettings
  PROVE  BatchesInv'
<1>1. UNCHANGED <<events, taken, outbox, channel, recent, batchOf, sentTo, shown,
                  repeats, failed, broken, unsure>>
  BY DEF ReadSettings
<1>2. CASE feed' = "unique" /\ UNCHANGED <<rows, off>>
  <2>1. feed = "settings"
    BY DEF ReadSettings
  <2>2. BatchTypes'
    BY <1>1, <1>2 DEF BatchesInv, BatchTypes
  <2>3. RowsInv'
    BY <1>1, <1>2, <2>1, FateStays DEF BatchesInv, RowsInv
  <2>4. FateInv'
    BY <1>1, <1>2, <2>1, FateStays DEF BatchesInv, FateInv
  <2> QED
    BY <1>1, <2>2, <2>3, <2>4, PostInvStays DEF BatchesInv
<1>3. CASE feed' = "cursor" /\ rows' = {} /\ off' = off \cup {taken}
  <2>1. feed = "settings"
    BY DEF ReadSettings
  <2>2. BatchTypes'
    BY <1>1, <1>3 DEF BatchesInv, BatchTypes
  <2>3. RowsInv'
    BY <1>1, <1>3, <2>1 DEF BatchesInv, RowsInv
  <2>4. FateInv'
    <3>1. Settled \subseteq Settled'
      BY <1>1, <1>3, <2>2, SettledStays DEF BatchesInv, BatchTypes
    <3>2. Batch' \subseteq Settled'
      BY <1>1, <1>3 DEF Batch, Settled, Excused
    <3>3. \A e \in 1..taken : batchOf[e] # taken => e \in Settled
      BY DEF BatchesInv, FateInv
    <3> QED
      BY <1>1, <1>3, <3>1, <3>2, <3>3 DEF FateInv
  <2> QED
    BY <1>1, <2>2, <2>3, <2>4, PostInvStays DEF BatchesInv
<1> QED
  BY <1>2, <1>3 DEF ReadSettings

LEMMA QueryFailsKeeps ==
  ASSUME BatchesInv, QueryFails
  PROVE  BatchesInv'
<1>1. UNCHANGED <<events, taken, outbox, channel, recent, batchOf, sentTo, shown,
                  repeats, off, broken, unsure>>
  BY DEF QueryFails
<1>2. feed \in {"settings", "routes"} /\ feed' = "idle" /\ rows' = {} /\ failed' = failed \cup {taken}
  BY DEF QueryFails
<1>3. BatchTypes'
  BY <1>1, <1>2 DEF BatchesInv, BatchTypes
<1>4. RowsInv'
  BY <1>1, <1>2 DEF BatchesInv, RowsInv
<1>5. FateInv'
  <2>1. Settled \subseteq Settled'
    BY <1>1, <1>2, <1>3, SettledStays DEF BatchesInv, BatchTypes
  <2>2. Batch' \subseteq Settled'
    BY <1>1, <1>2 DEF Batch, Settled, Excused
  <2>3. \A e \in 1..taken : batchOf[e] # taken => e \in Settled
    BY DEF BatchesInv, FateInv
  <2> QED
    BY <1>1, <1>2, <2>1, <2>2, <2>3 DEF FateInv
<1> QED
  BY <1>1, <1>3, <1>4, <1>5, PostInvStays DEF BatchesInv

LEMMA DropRepeatsKeeps ==
  ASSUME BatchesInv, DropRepeats
  PROVE  BatchesInv'
<1>1. UNCHANGED <<events, taken, outbox, channel, batchOf, sentTo, shown, off, failed, broken, unsure>>
  BY DEF DropRepeats
<1>2. feed = "unique" /\ feed' = IF rows' = {} THEN "cursor" ELSE "routes"
  BY DEF DropRepeats
<1>3. rows \subseteq 1..taken /\ rows \subseteq Nat /\ taken \in Nat
  BY DEF BatchesInv, RowsInv, BatchTypes, Batch
<1>4. Joins(rows) \subseteq rows
  BY DEF Joins
<1> DEFINE first == IF recent # 0 THEN recent
                    ELSE IF Joins(rows) = {} THEN 0
                         ELSE CHOOSE e \in Joins(rows) : \A f \in Joins(rows) : e <= f
           Gone == Joins(rows) \ {first}
<1>5. /\ Gone = Joins(rows) \ {first}
      /\ recent' = first
      /\ rows' = rows \ Gone
      /\ repeats' = repeats \cup (Gone \X {first})
  BY DEF DropRepeats
<1>6. first \in 0..taken /\ \A e \in Gone : first \in 1..e
  <2>1. CASE recent # 0
    <3>1. first = recent /\ recent \in 1..taken
      BY <1>5, <2>1 DEF BatchesInv, BatchTypes
    <3>2. \A e \in rows : first < e /\ e \in Nat
      BY <1>2, <1>3, <3>1 DEF BatchesInv, RowsInv
    <3>3. \A e \in rows : first \in 1..e
      <4> HIDE DEF first
      <4> QED
        BY <1>3, <3>1, <3>2
    <3>4. Gone \subseteq rows
      BY <1>4
    <3> HIDE DEF first, Gone
    <3> QED
      BY <1>3, <3>1, <3>3, <3>4
  <2>2. CASE recent = 0 /\ Joins(rows) = {}
    BY <1>3, <1>5, <2>2
  <2>3. CASE recent = 0 /\ Joins(rows) # {}
    <3>1. \E e \in Joins(rows) : \A f \in Joins(rows) : e <= f
      BY <1>3, <1>4, <2>3, EarliestOf
    <3>2. first \in Joins(rows) /\ \A f \in Joins(rows) : first <= f
      BY <1>5, <2>3, <3>1
    <3>3. Joins(rows) \subseteq 1..taken
      BY <1>3, <1>4
    <3>4. \A e \in Joins(rows) : first \in 1..e
      <4> HIDE DEF first
      <4> QED
        BY <1>3, <3>2, <3>3
    <3>5. Gone \subseteq Joins(rows)
      OBVIOUS
    <3> HIDE DEF first, Gone
    <3> QED
      BY <1>3, <3>2, <3>3, <3>4, <3>5
  <2> QED
    BY <2>1, <2>2, <2>3
<1> HIDE DEF first, Gone
<1>7. BatchTypes'
  <2>1. rows' \in SUBSET Nat
    BY <1>3, <1>5
  <2> QED
    BY <1>1, <1>2, <1>5, <1>6, <2>1 DEF BatchesInv, BatchTypes
<1>8. RowsInv'
  <2>1. rows' \subseteq rows /\ Batch' = Batch
    BY <1>1, <1>5 DEF Batch
  <2>2. rows' = {} \/ feed' = "routes"
    BY <1>2
  <2>3. feed' \in {"cursor", "routes"}
    BY <1>2
  <2> QED
    BY <1>1, <1>2, <2>1, <2>2, <2>3 DEF BatchesInv, RowsInv
<1>9. FateInv'
  <2>1. Settled \subseteq Settled'
    BY <1>1, <1>5, <1>7, SettledStays DEF BatchesInv, BatchTypes
  <2>2. \A e \in 1..taken : batchOf[e] # taken => e \in Settled
    BY DEF BatchesInv, FateInv
  <2>3. Gone \subseteq Repeated'
    <3> SUFFICES ASSUME NEW e \in Gone
                 PROVE  e \in Repeated'
      OBVIOUS
    <3>1. first \in 1..e /\ <<e, first>> \in repeats'
      BY <1>5, <1>6
    <3>2. e \in 1..taken'
      BY <1>1, <1>3, <1>4, <1>5
    <3> QED
      BY <3>1, <3>2 DEF Repeated
  <2>4. Batch' \subseteq rows' \cup Repeated'
    BY <1>1, <1>2, <1>5, <2>3 DEF BatchesInv, FateInv, Batch
  <2>5. Repeated' \subseteq Settled'
    BY DEF Repeated, Settled, Excused
  <2>6. feed' = "cursor" => rows' = {}
    BY <1>2
  <2>7. feed' \in {"cursor", "routes"}
    BY <1>2
  <2> QED
    BY <1>1, <2>1, <2>2, <2>4, <2>5, <2>6, <2>7 DEF FateInv
<1> QED
  BY <1>1, <1>7, <1>8, <1>9, PostInvStays DEF BatchesInv

LEMMA ReadRoutesKeeps ==
  ASSUME BatchesInv, ReadRoutes
  PROVE  BatchesInv'
<1>1. UNCHANGED <<events, taken, channel, recent, batchOf, shown, repeats, off, failed, broken, unsure>>
  BY DEF ReadRoutes
<1>2. feed = "routes" /\ feed' = "post" /\ rows' = {}
  BY DEF ReadRoutes
<1>3. PICK to \in [rows -> FeedChannels \cup {Hidden}] :
        /\ outbox' = [c \in FeedChannels |-> {e \in rows : to[e] = c}]
        /\ sentTo' = [e \in DOMAIN sentTo \cup rows |-> IF e \in rows THEN to[e] ELSE sentTo[e]]
  BY DEF ReadRoutes
<1>4. rows \subseteq Batch /\ rows \subseteq 1..taken /\ rows \subseteq Nat
  BY DEF BatchesInv, RowsInv, BatchTypes, Batch
<1>5. \A e \in DOMAIN sentTo, f \in rows : e < f
  BY DEF BatchesInv, RowsInv
<1>6. DOMAIN sentTo \cap rows = {}
  <2> SUFFICES ASSUME NEW e \in DOMAIN sentTo, e \in rows
               PROVE  FALSE
    OBVIOUS
  <2>1. e < e /\ e \in Nat
    BY <1>4, <1>5
  <2> QED
    BY <2>1
<1>7. /\ DOMAIN sentTo' = DOMAIN sentTo \cup rows
      /\ \A e \in DOMAIN sentTo : sentTo'[e] = sentTo[e]
      /\ \A e \in rows : sentTo'[e] = to[e] /\ to[e] \in FeedChannels \cup {Hidden}
  BY <1>3, <1>6
<1>8. Batch' = Batch /\ Repeated' = Repeated
  BY <1>1 DEF Batch, Repeated
<1>9. BatchTypes'
  <2>1. outbox' \in [FeedChannels -> SUBSET Nat]
    BY <1>3, <1>4
  <2>2. DOMAIN sentTo' \subseteq 1..taken
    BY <1>4, <1>7 DEF BatchesInv, BatchTypes
  <2>3. sentTo' \in [DOMAIN sentTo' -> FeedChannels \cup {Hidden}]
    BY <1>3, <1>7 DEF BatchesInv, BatchTypes
  <2> QED
    BY <1>1, <1>2, <2>1, <2>2, <2>3 DEF BatchesInv, BatchTypes
<1>10. RowsInv'
  <2>1. channel = Hidden
    BY <1>2 DEF BatchesInv, RowsInv
  <2> QED
    BY <1>1, <1>2, <2>1 DEF RowsInv
<1>11. FateInv'
  <2>1. Settled \subseteq Settled'
    BY <1>1, <1>7, <1>9, SettledStays DEF BatchesInv, BatchTypes
  <2>2. \A e \in 1..taken : batchOf[e] # taken => e \in Settled
    BY DEF BatchesInv, FateInv
  <2>3. Repeated' \subseteq Settled'
    BY DEF Repeated, Settled, Excused
  <2>4. rows \subseteq Settled' \cup Waiting'
    <3> SUFFICES ASSUME NEW e \in rows
                 PROVE  e \in Settled' \cup Waiting'
      OBVIOUS
    <3>1. e \in 1..taken' /\ e \in DOMAIN sentTo' /\ sentTo'[e] = to[e]
      BY <1>1, <1>4, <1>7
    <3>2. CASE to[e] = Hidden
      BY <3>1, <3>2 DEF Settled, Excused
    <3>3. CASE to[e] \in FeedChannels
      <4>1. e \in outbox'[to[e]] /\ to[e] # Hidden
        BY <1>3, <3>3, BatchesAssumption
      <4> QED
        BY <3>1, <4>1 DEF Waiting
    <3> QED
      BY <1>7, <3>2, <3>3
  <2>5. Batch \subseteq rows \cup Repeated
    BY <1>2 DEF BatchesInv, FateInv
  <2>6. Batch' \subseteq Settled' \cup Waiting'
    BY <1>8, <2>3, <2>4, <2>5
  <2> QED
    BY <1>1, <1>2, <2>1, <2>2, <2>6 DEF FateInv
<1>12. PostInv'
  <2> SUFFICES ASSUME NEW c \in FeedChannels
               PROVE  /\ outbox'[c] \subseteq {e \in Batch' \cap DOMAIN sentTo' : sentTo'[e] = c}
                      /\ \A i \in DOMAIN shown[c] :
                           /\ shown[c][i] \subseteq {e \in DOMAIN sentTo' : sentTo'[e] = c}
                           /\ \A e \in shown[c][i], f \in outbox'[c] : e < f
                           /\ \A j \in DOMAIN shown[c] : i < j =>
                                \/ \A e \in shown[c][i], f \in shown[c][j] : e < f
                                \/ shown[c][i] = shown[c][j] /\ <<c, shown[c][i]>> \in unsure
    BY <1>1 DEF PostInv
  <2>1. outbox'[c] = {e \in rows : to[e] = c}
    BY <1>3
  <2>2. outbox'[c] \subseteq {e \in Batch' \cap DOMAIN sentTo' : sentTo'[e] = c}
    BY <1>4, <1>7, <1>8, <2>1
  <2>3. ASSUME NEW i \in DOMAIN shown[c]
        PROVE  /\ shown[c][i] \subseteq {e \in DOMAIN sentTo' : sentTo'[e] = c}
               /\ \A e \in shown[c][i], f \in outbox'[c] : e < f
    <3>1. shown[c][i] \subseteq {e \in DOMAIN sentTo : sentTo[e] = c}
      BY <2>3 DEF BatchesInv, PostInv
    <3> QED
      BY <1>5, <1>7, <2>1, <3>1
  <2> QED
    BY <2>2, <2>3 DEF BatchesInv, PostInv
<1> QED
  BY <1>9, <1>10, <1>11, <1>12 DEF BatchesInv

-----------------------------------------------------------------------------
(* Posting.                                                                *)

LEMMA ShownFacts ==
  ASSUME BatchTypes, channel \in FeedChannels, Shown
  PROVE  /\ shown' \in [FeedChannels -> Seq(SUBSET Nat)]
         /\ \A c \in FeedChannels \ {channel} : shown'[c] = shown[c]
         /\ Len(shown[channel]) \in Nat
         /\ DOMAIN shown[channel] = 1..Len(shown[channel])
         /\ DOMAIN shown'[channel] = 1..(Len(shown[channel]) + 1)
         /\ \A i \in DOMAIN shown[channel] : shown'[channel][i] = shown[channel][i]
         /\ shown'[channel][Len(shown[channel]) + 1] = Message(outbox[channel])
<1> DEFINE M == Message(outbox[channel])
           T == SUBSET Nat
<1>1. shown \in [FeedChannels -> Seq(T)] /\ outbox[channel] \in SUBSET Nat
  BY DEF BatchTypes
<1>2. M \in T
  BY <1>1, MessageFirst
<1>3. shown' = [shown EXCEPT ![channel] = Append(shown[channel], M)]
  BY DEF Shown
<1> HIDE DEF M, T
<1>4. shown[channel] \in Seq(T)
  BY <1>1
<1>5. /\ Append(shown[channel], M) \in Seq(T)
      /\ Len(Append(shown[channel], M)) = Len(shown[channel]) + 1
      /\ \A i \in 1..Len(shown[channel]) : Append(shown[channel], M)[i] = shown[channel][i]
      /\ Append(shown[channel], M)[Len(shown[channel]) + 1] = M
  BY <1>2, <1>4, AppendProperties
<1>6. shown'[channel] = Append(shown[channel], M)
  BY <1>1, <1>3
<1>7. \A c \in FeedChannels \ {channel} : shown'[c] = shown[c]
  BY <1>1, <1>3
<1>8. shown' \in [FeedChannels -> Seq(T)]
  BY <1>1, <1>3, <1>5
<1>9. /\ Len(shown[channel]) \in Nat
      /\ DOMAIN shown[channel] = 1..Len(shown[channel])
  BY <1>4, LenProperties
<1>10. DOMAIN shown'[channel] = 1..(Len(shown[channel]) + 1)
  BY <1>5, <1>6, LenProperties
<1>11. \A i \in DOMAIN shown[channel] : shown'[channel][i] = shown[channel][i]
  BY <1>5, <1>6, <1>9
<1>12. shown'[channel][Len(shown[channel]) + 1] = M
  BY <1>5, <1>6
<1> QED
  BY <1>7, <1>8, <1>9, <1>10, <1>11, <1>12 DEF M, T

\* What stays of PostInv for a channel nothing is posted to.
LEMMA OthersStay ==
  ASSUME PostInv, NEW c \in FeedChannels, UNCHANGED <<taken, batchOf, sentTo>>,
         outbox'[c] = outbox[c], shown'[c] = shown[c], unsure \subseteq unsure'
  PROVE  /\ outbox'[c] \subseteq {e \in Batch' \cap DOMAIN sentTo' : sentTo'[e] = c}
         /\ \A i \in DOMAIN shown'[c] :
              /\ shown'[c][i] \subseteq {e \in DOMAIN sentTo' : sentTo'[e] = c}
              /\ \/ \A e \in shown'[c][i], f \in outbox'[c] : e < f
                 \/ shown'[c][i] = Message(outbox'[c]) /\ <<c, shown'[c][i]>> \in unsure'
              /\ \A j \in DOMAIN shown'[c] : i < j =>
                   \/ \A e \in shown'[c][i], f \in shown'[c][j] : e < f
                   \/ shown'[c][i] = shown'[c][j] /\ <<c, shown'[c][i]>> \in unsure'
<1>1. Batch' = Batch
  BY DEF Batch
<1> QED
  BY <1>1 DEF PostInv

\* Nothing more is shown: the channel's rows are left, or given up.
LEMMA NotShownKeeps ==
  ASSUME BatchTypes, PostInv, channel \in FeedChannels,
         UNCHANGED <<taken, batchOf, sentTo, shown, unsure>>,
         \A c \in FeedChannels \ {channel} : outbox'[c] = outbox[c],
         outbox'[channel] \in {outbox[channel], {}}
  PROVE  PostInv'
<1>1. Batch' = Batch
  BY DEF Batch
<1>2. ASSUME NEW c \in FeedChannels, outbox'[c] = {}
      PROVE  /\ outbox'[c] \subseteq {e \in Batch' \cap DOMAIN sentTo' : sentTo'[e] = c}
             /\ \A i \in DOMAIN shown'[c] :
                  /\ shown'[c][i] \subseteq {e \in DOMAIN sentTo' : sentTo'[e] = c}
                  /\ \A e \in shown'[c][i], f \in outbox'[c] : e < f
                  /\ \A j \in DOMAIN shown'[c] : i < j =>
                       \/ \A e \in shown'[c][i], f \in shown'[c][j] : e < f
                       \/ shown'[c][i] = shown'[c][j] /\ <<c, shown'[c][i]>> \in unsure'
  BY <1>2 DEF PostInv
<1>3. \A c \in FeedChannels : outbox'[c] = outbox[c] \/ outbox'[c] = {}
  OBVIOUS
<1> QED
  BY <1>2, <1>3, OthersStay DEF PostInv

\* The next message is shown: it is not left, nothing is left, or it was
\* answered with an error.
LEMMA ShownKeeps ==
  ASSUME BatchTypes, PostInv, channel \in FeedChannels, Shown,
         UNCHANGED <<taken, batchOf, sentTo>>, unsure \subseteq unsure',
         \A c \in FeedChannels \ {channel} : outbox'[c] = outbox[c],
         \/ outbox'[channel] = outbox[channel] \ Message(outbox[channel])
         \/ outbox'[channel] = {}
         \/ /\ outbox'[channel] = outbox[channel]
            /\ <<channel, Message(outbox[channel])>> \in unsure'
  PROVE  PostInv'
<1> DEFINE S == outbox[channel]
           M == Message(S)
           n == Len(shown[channel])
<1>1. Batch' = Batch
  BY DEF Batch
<1>2. S \in SUBSET Nat /\ M \subseteq S /\ \A e \in M, f \in S \ M : e < f
  BY MessageFirst DEF BatchTypes
<1>3. S \subseteq {e \in Batch \cap DOMAIN sentTo : sentTo[e] = channel}
  BY DEF PostInv
<1>4. /\ \A c \in FeedChannels \ {channel} : shown'[c] = shown[c]
      /\ n \in Nat
      /\ DOMAIN shown[channel] = 1..n
      /\ DOMAIN shown'[channel] = 1..(n + 1)
      /\ \A i \in 1..n : shown'[channel][i] = shown[channel][i]
      /\ shown'[channel][n + 1] = M
  BY ShownFacts
<1>5. ASSUME NEW i \in 1..n
      PROVE  /\ shown[channel][i] \subseteq {e \in DOMAIN sentTo : sentTo[e] = channel}
             /\ \/ \A e \in shown[channel][i], f \in S : e < f
                \/ shown[channel][i] = M /\ <<channel, shown[channel][i]>> \in unsure
             /\ \A j \in 1..n : i < j =>
                  \/ \A e \in shown[channel][i], f \in shown[channel][j] : e < f
                  \/ shown[channel][i] = shown[channel][j] /\ <<channel, shown[channel][i]>> \in unsure
  BY <1>4 DEF PostInv
<1>6. \/ outbox'[channel] = S \ M
      \/ outbox'[channel] = {}
      \/ outbox'[channel] = S /\ Message(outbox'[channel]) = M /\ <<channel, M>> \in unsure'
  OBVIOUS
<1>7. \A i \in DOMAIN shown'[channel] : i \in 1..n \/ i = n + 1
  BY <1>4
<1> HIDE DEF M, S, n
<1>8. outbox'[channel] \subseteq {e \in Batch' \cap DOMAIN sentTo' : sentTo'[e] = channel}
  BY <1>1, <1>3, <1>6
<1>9. \A i \in DOMAIN shown'[channel] : shown'[channel][i] \subseteq {e \in DOMAIN sentTo' : sentTo'[e] = channel}
  BY <1>2, <1>3, <1>4, <1>5, <1>7
<1>10. ASSUME NEW i \in DOMAIN shown'[channel]
       PROVE  \/ \A e \in shown'[channel][i], f \in outbox'[channel] : e < f
              \/ /\ shown'[channel][i] = Message(outbox'[channel])
                 /\ <<channel, shown'[channel][i]>> \in unsure'
  <2>1. CASE i = n + 1
    BY <1>2, <1>4, <1>6, <2>1
  <2>2. CASE i \in 1..n
    <3>1. shown'[channel][i] = shown[channel][i]
      BY <1>4, <2>2
    <3>2. CASE \A e \in shown[channel][i], f \in S : e < f
      BY <1>6, <3>1, <3>2
    <3>3. CASE shown[channel][i] = M /\ <<channel, shown[channel][i]>> \in unsure
      BY <1>2, <1>6, <3>1, <3>3
    <3> QED
      BY <1>5, <2>2, <3>2, <3>3
  <2> QED
    BY <1>7, <2>1, <2>2
<1>11. ASSUME NEW i \in DOMAIN shown'[channel], NEW j \in DOMAIN shown'[channel], i < j
       PROVE  \/ \A e \in shown'[channel][i], f \in shown'[channel][j] : e < f
              \/ /\ shown'[channel][i] = shown'[channel][j]
                 /\ <<channel, shown'[channel][i]>> \in unsure'
  <2>1. i \in 1..n /\ (j \in 1..n \/ j = n + 1)
    BY <1>4, <1>11
  <2>2. shown'[channel][i] = shown[channel][i]
    BY <1>4, <2>1
  <2>3. CASE j \in 1..n
    <3>1. shown'[channel][j] = shown[channel][j]
      BY <1>4, <2>3
    <3> QED
      BY <1>5, <1>11, <2>1, <2>2, <2>3, <3>1
  <2>4. CASE j = n + 1
    BY <1>2, <1>4, <1>5, <2>1, <2>2, <2>4
  <2> QED
    BY <2>1, <2>3, <2>4
<1>12. \A c \in FeedChannels \ {channel} : shown'[c] = shown[c] /\ outbox'[c] = outbox[c]
  BY <1>4
<1>13. ASSUME NEW c \in FeedChannels
       PROVE  /\ outbox'[c] \subseteq {e \in Batch' \cap DOMAIN sentTo' : sentTo'[e] = c}
              /\ \A i \in DOMAIN shown'[c] :
                   /\ shown'[c][i] \subseteq {e \in DOMAIN sentTo' : sentTo'[e] = c}
                   /\ \/ \A e \in shown'[c][i], f \in outbox'[c] : e < f
                      \/ shown'[c][i] = Message(outbox'[c]) /\ <<c, shown'[c][i]>> \in unsure'
                   /\ \A j \in DOMAIN shown'[c] : i < j =>
                        \/ \A e \in shown'[c][i], f \in shown'[c][j] : e < f
                        \/ shown'[c][i] = shown'[c][j] /\ <<c, shown'[c][i]>> \in unsure'
  <2>1. CASE c = channel
    BY <1>8, <1>9, <1>10, <1>11, <2>1
  <2>2. CASE c # channel
    BY <1>12, <2>2, OthersStay
  <2> QED
    BY <2>1, <2>2
<1> QED
  BY <1>13 DEF PostInv

\* What is left of channel c is R, which the other channels do not notice.
LEMMA LeftFacts ==
  ASSUME BatchTypes, NEW c \in FeedChannels, NEW R \in SUBSET Nat, Left(c, R)
  PROVE  /\ outbox' \in [FeedChannels -> SUBSET Nat]
         /\ outbox'[c] = R
         /\ \A d \in FeedChannels \ {c} : outbox'[d] = outbox[d]
         /\ channel' \in {c, Hidden} /\ (channel' # Hidden => outbox'[channel'] # {})
BY DEF Left, BatchTypes

\* A step of posting, whatever comes of the message.
LEMMA PostingKeeps ==
  ASSUME BatchesInv, channel # Hidden, PostInv', SendUnchanged,
         broken \subseteq broken',
         shown' \in [FeedChannels -> Seq(SUBSET Nat)],
         \A c \in FeedChannels : \A i \in DOMAIN shown[c] :
           i \in DOMAIN shown'[c] /\ shown'[c][i] = shown[c][i],
         outbox' \in [FeedChannels -> SUBSET Nat],
         \A d \in FeedChannels \ {channel} : outbox'[d] = outbox[d],
         channel' \in {channel, Hidden}, channel' # Hidden => outbox'[channel'] # {},
         \A e \in outbox[channel] :
           e \in outbox'[channel] \/ <<taken, channel>> \in broken'
           \/ \E i \in DOMAIN shown'[channel] : e \in shown'[channel][i]
  PROVE  BatchesInv'
<1>1. UNCHANGED <<events, taken, feed, rows, recent, batchOf, sentTo, repeats, off, failed>>
  BY DEF SendUnchanged
<1>2. channel \in FeedChannels /\ feed = "post"
  BY DEF BatchesInv, BatchTypes, RowsInv
<1>3. BatchTypes'
  BY <1>1, <1>2 DEF BatchesInv, BatchTypes
<1>4. Batch' = Batch
  BY <1>1 DEF Batch
<1>5. RowsInv'
  BY <1>1, <1>2, <1>4 DEF BatchesInv, RowsInv
<1>6. Settled \subseteq Settled'
  <2>1. BatchTypes /\ taken <= taken'
    BY <1>1 DEF BatchesInv, BatchTypes
  <2> QED
    BY <1>1, <1>3, <2>1, SettledStays
<1>7. Batch \cap Waiting \subseteq Settled' \cup Waiting'
  <2> SUFFICES ASSUME NEW e \in Batch, e \in Waiting
               PROVE  e \in Settled' \cup Waiting'
    OBVIOUS
  <2>1. e \in DOMAIN sentTo /\ sentTo[e] \in FeedChannels /\ e \in outbox[sentTo[e]]
    BY DEF Waiting, BatchesInv, BatchTypes
  <2>2. sentTo[e] # Hidden
    BY DEF Waiting
  <2>3. e \in 1..taken' /\ batchOf'[e] = taken'
    BY <1>1 DEF Batch
  <2>4. CASE e \in outbox'[sentTo[e]]
    BY <1>1, <2>1, <2>2, <2>4 DEF Waiting
  <2>5. CASE sentTo[e] = channel /\ <<taken, channel>> \in broken'
    BY <1>1, <2>1, <2>3, <2>5 DEF Settled, Excused
  <2>6. CASE sentTo[e] = channel /\ (\E i \in DOMAIN shown'[channel] : e \in shown'[channel][i])
    BY <1>1, <2>1, <2>2, <2>3, <2>6 DEF Settled, Reached, Shows
  <2> QED
    BY <2>1, <2>4, <2>5, <2>6
<1>8. FateInv'
  <2>1. \A e \in 1..taken : batchOf[e] # taken => e \in Settled
    BY DEF BatchesInv, FateInv
  <2>2. Batch \subseteq Settled \cup Waiting
    BY <1>2 DEF BatchesInv, FateInv
  <2>3. Batch' \subseteq Settled' \cup Waiting'
    BY <1>4, <1>6, <1>7, <2>2
  <2> QED
    BY <1>1, <1>2, <1>6, <2>1, <2>3 DEF FateInv
<1> QED
  BY <1>3, <1>5, <1>8 DEF BatchesInv

\* What is shown of a message that was posted, and what stays of the rest.
LEMMA ShownShows ==
  ASSUME BatchTypes, channel \in FeedChannels, Shown
  PROVE  /\ \A c \in FeedChannels : \A i \in DOMAIN shown[c] :
              i \in DOMAIN shown'[c] /\ shown'[c][i] = shown[c][i]
         /\ \A e \in Message(outbox[channel]) : \E i \in DOMAIN shown'[channel] : e \in shown'[channel][i]
<1> DEFINE n == Len(shown[channel])
<1>1. /\ \A c \in FeedChannels \ {channel} : shown'[c] = shown[c]
      /\ n \in Nat
      /\ DOMAIN shown[channel] = 1..n
      /\ DOMAIN shown'[channel] = 1..(n + 1)
      /\ \A i \in DOMAIN shown[channel] : shown'[channel][i] = shown[channel][i]
      /\ shown'[channel][n + 1] = Message(outbox[channel])
  BY ShownFacts
<1> HIDE DEF n
<1>2. ASSUME NEW c \in FeedChannels, NEW i \in DOMAIN shown[c]
      PROVE  i \in DOMAIN shown'[c] /\ shown'[c][i] = shown[c][i]
  <2>1. CASE c = channel
    BY <1>1, <1>2, <2>1
  <2>2. CASE c # channel
    BY <1>1, <1>2, <2>2
  <2> QED
    BY <2>1, <2>2
<1>3. ASSUME NEW e \in Message(outbox[channel])
      PROVE  \E i \in DOMAIN shown'[channel] : e \in shown'[channel][i]
  <2>1. n + 1 \in DOMAIN shown'[channel]
    BY <1>1
  <2> QED
    BY <1>1, <1>3, <2>1 DEF Shows
<1> QED
  BY <1>2, <1>3

LEMMA SentKeeps ==
  ASSUME BatchesInv, Sent
  PROVE  BatchesInv'
<1> DEFINE M == Message(outbox[channel])
           R == outbox[channel] \ M
<1>1. channel # Hidden /\ channel \in FeedChannels /\ BatchTypes /\ PostInv
  BY DEF BatchesInv, BatchTypes, Sent
<1>2. Shown /\ Left(channel, R) /\ UNCHANGED <<broken, unsure>> /\ SendUnchanged
  BY DEF Sent
<1>3. R \in SUBSET Nat
  BY <1>1 DEF BatchTypes
<1>4. /\ outbox' \in [FeedChannels -> SUBSET Nat]
      /\ outbox'[channel] = R
      /\ \A d \in FeedChannels \ {channel} : outbox'[d] = outbox[d]
      /\ channel' \in {channel, Hidden} /\ (channel' # Hidden => outbox'[channel'] # {})
  <2> HIDE DEF R
  <2> QED
    BY <1>1, <1>2, <1>3, LeftFacts
<1>5. PostInv'
  BY <1>1, <1>2, <1>4, ShownKeeps DEF SendUnchanged
<1>6. /\ \A c \in FeedChannels : \A i \in DOMAIN shown[c] :
           i \in DOMAIN shown'[c] /\ shown'[c][i] = shown[c][i]
      /\ \A e \in M : \E i \in DOMAIN shown'[channel] : e \in shown'[channel][i]
  BY <1>1, <1>2, ShownShows
<1>7. shown' \in [FeedChannels -> Seq(SUBSET Nat)]
  BY <1>1, <1>2, ShownFacts
<1>8. \A e \in outbox[channel] : e \in outbox'[channel] \/ <<taken, channel>> \in broken'
           \/ \E i \in DOMAIN shown'[channel] : e \in shown'[channel][i]
  BY <1>4, <1>6
<1> QED
  BY <1>1, <1>2, <1>4, <1>5, <1>6, <1>7, <1>8, PostingKeeps

LEMMA SendFailsKeeps ==
  ASSUME BatchesInv, SendFails
  PROVE  BatchesInv'
<1> DEFINE M == Message(outbox[channel])
<1>1. channel # Hidden /\ channel \in FeedChannels /\ BatchTypes /\ PostInv
  BY DEF BatchesInv, BatchTypes, SendFails
<1>2. SendUnchanged
  BY DEF SendFails
<1>3. \/ Shown /\ unsure' = unsure \cup {<<channel, M>>}
      \/ UNCHANGED <<shown, unsure>>
  BY DEF SendFails
<1>4. GiveUp \/ UNCHANGED <<outbox, channel, broken>>
  BY DEF SendFails
<1>5. /\ outbox' \in [FeedChannels -> SUBSET Nat]
      /\ \A d \in FeedChannels \ {channel} : outbox'[d] = outbox[d]
      /\ channel' \in {channel, Hidden} /\ (channel' # Hidden => outbox'[channel'] # {})
      /\ broken \subseteq broken'
      /\ \/ outbox'[channel] = {} /\ <<taken, channel>> \in broken'
         \/ outbox'[channel] = outbox[channel]
  <2>1. CASE GiveUp
    BY <1>1, <2>1, LeftFacts DEF GiveUp
  <2>2. CASE UNCHANGED <<outbox, channel, broken>>
    BY <1>1, <2>2 DEF BatchesInv, BatchTypes, RowsInv
  <2> QED
    BY <1>4, <2>1, <2>2
<1>6. PostInv'
  <2>1. CASE Shown /\ unsure' = unsure \cup {<<channel, M>>}
    BY <1>1, <1>2, <1>5, <2>1, ShownKeeps DEF SendUnchanged
  <2>2. CASE UNCHANGED <<shown, unsure>>
    BY <1>1, <1>2, <1>5, <2>2, NotShownKeeps DEF SendUnchanged
  <2> QED
    BY <1>3, <2>1, <2>2
<1>7. /\ shown' \in [FeedChannels -> Seq(SUBSET Nat)]
      /\ \A c \in FeedChannels : \A i \in DOMAIN shown[c] :
           i \in DOMAIN shown'[c] /\ shown'[c][i] = shown[c][i]
  <2>1. CASE Shown
    BY <1>1, <2>1, ShownFacts, ShownShows
  <2>2. CASE UNCHANGED shown
    BY <1>1, <2>2 DEF BatchTypes
  <2> QED
    BY <1>3, <2>1, <2>2
<1>8. \A e \in outbox[channel] : e \in outbox'[channel] \/ <<taken, channel>> \in broken'
           \/ \E i \in DOMAIN shown'[channel] : e \in shown'[channel][i]
  BY <1>5
<1> QED
  BY <1>1, <1>2, <1>5, <1>6, <1>7, <1>8, PostingKeeps

LEMMA BatchesStepKeeps ==
  ASSUME BatchesInv, BatchesStep
  PROVE  BatchesInv'
BY TakeKeeps, ReadSettingsKeeps, QueryFailsKeeps, DropRepeatsKeeps, ReadRoutesKeeps,
   PickChannelKeeps, SentKeeps, SendFailsKeeps, AllPostedKeeps, ArriveKeeps, AsideKeeps
   DEF BatchesStep, FeedSteps, FeedSends

LEMMA BatchesStutter ==
  ASSUME BatchesInv, UNCHANGED batchVars
  PROVE  BatchesInv'
<1>1. UNCHANGED <<events, taken, feed, rows, outbox, channel, recent, batchOf, sentTo, shown,
                  repeats, off, failed, broken, unsure>>
  BY DEF batchVars, feedVars, batchHistory
<1>2. BatchTypes' /\ RowsInv'
  BY <1>1, FateStays DEF BatchesInv, BatchTypes, RowsInv
<1>3. FateInv'
  BY <1>1, FateStays DEF BatchesInv, FateInv
<1> QED
  BY <1>1, <1>2, <1>3, PostInvStays DEF BatchesInv

LEMMA BatchesFollow ==
  ASSUME BatchesInv
  PROVE  BatchesAccounted
<1>1. ASSUME NEW e \in 1..taken, batchOf[e] # taken \/ feed = "idle"
      PROVE  (e \in DOMAIN sentTo /\ Reached(e)) \/ Excused(e)
  <2>1. e \in Settled
    BY <1>1 DEF BatchesInv, FateInv, Batch
  <2> QED
    BY <2>1 DEF Settled
<1>2. ASSUME NEW c \in FeedChannels, NEW i \in DOMAIN shown[c], NEW j \in DOMAIN shown[c]
      PROVE  /\ \A e \in shown[c][i] : sentTo[e] = c
             /\ i < j => \/ \A e \in shown[c][i], f \in shown[c][j] : e < f
                         \/ shown[c][i] = shown[c][j] /\ <<c, shown[c][i]>> \in unsure
  BY <1>2 DEF BatchesInv, PostInv
<1> QED
  BY <1>1, <1>2 DEF BatchesAccounted

-----------------------------------------------------------------------------
(* The whole bot: a step of one part leaves the others as they are.        *)

LEMMA BridgeStep ==
  ASSUME RoutesInv, GateInv, TopicInv, [Next]_vars
  PROVE  RoutesInv' /\ GateInv' /\ TopicInv'
<1>1. CASE RoutesStep /\ UNCHANGED <<topicVars, gateVars>>
  BY <1>1, RoutesStepKeeps, TopicStutters, GateStutters
<1>2. CASE TopicStep /\ UNCHANGED <<routeVars, gateVars>>
  BY <1>2, RoutesStutters, TopicStepKeeps, GateStutters DEF routeVars, history
<1>3. CASE GateStep /\ UNCHANGED <<routeVars, topicVars>>
  BY <1>3, RoutesStutters, TopicStutters, GateStepKeeps DEF routeVars, history
<1>4. CASE UNCHANGED <<routeVars, topicVars, gateVars>>
  BY <1>4, RoutesStutters, TopicStutters, GateStutters DEF routeVars, history
<1> QED
  BY <1>1, <1>2, <1>3, <1>4 DEF Next, Only, vars

LEMMA BridgeInit ==
  ASSUME Init
  PROVE  RoutesInv /\ GateInv /\ TopicInv
BY RoutesInitHolds, GateInitHolds, TopicInitHolds DEF Init

\* What the bot keeps of a kind's route and of the channel for commands is
\* what it was told, whoever commands, reads, fails and restarts beside whom,
\* but for rows that a reader of the routes inserted (database/mod.rs:271) and
\* for channels set at the same time; and a feed that was removed is silent.
THEOREM SettingsKept == Spec => []SettingsAccounted
<1>1. Init => RoutesInv /\ GateInv /\ TopicInv
  BY BridgeInit
<1>2. RoutesInv /\ GateInv /\ TopicInv /\ [Next]_vars => (RoutesInv /\ GateInv /\ TopicInv)'
  BY BridgeStep
<1>3. RoutesInv /\ GateInv /\ TopicInv => SettingsAccounted
  BY SettingsFollow
<1> QED
  BY <1>1, <1>2, <1>3, PTL DEF Spec

\* Whoever is told that the topic is up to date is told the truth about the
\* channel that last_text was set in (topic.rs:142), whatever edits fail.
THEOREM TopicIsTrue == Spec => TopicAccounted
<1>1. Init => RoutesInv /\ GateInv /\ TopicInv
  BY BridgeInit
<1>2. RoutesInv /\ GateInv /\ TopicInv /\ [Next]_vars => (RoutesInv /\ GateInv /\ TopicInv)'
  BY BridgeStep
<1>3. TopicInv /\ [Next]_vars =>
        [\A u \in Updaters : UpToDate(u) =>
           target[u] # cachedFor \/ target[u] \in touched \/ topic[target[u]] = "current"]_topicVars
  BY UpToDateIsTrue
<1> QED
  BY <1>1, <1>2, <1>3, PTL DEF Spec, TopicAccounted

\* Every event that the bot took out of the gateway's queue is in the channel
\* it was routed to, in the stream's order and once for every post that
\* Discord confirmed, but for the batches that were dropped whole, the rows
\* that repeat one and the channels that refused (bridge.rs:788-794).
THEOREM BatchesKept == Spec => []BatchesAccounted
<1>1. Init => BatchesInv
  BY BatchesInitHolds DEF Init
<1>2. BatchesInv /\ [Next]_vars => BatchesInv'
  BY BatchesStepKeeps, BatchesStutter DEF Next, Only, vars
<1>3. BatchesInv => BatchesAccounted
  BY BatchesFollow
<1> QED
  BY <1>1, <1>2, <1>3, PTL DEF Spec
=============================================================================
