---------------------------- MODULE SeekerProofs ----------------------------
(***************************************************************************)
(* Proofs about Seeker for any hosts, queries, seeds, limits and permits:  *)
(* which targets a cycle leaves out, who is asked without consent, how     *)
(* many pings are in flight, and what the stores keep of a host.           *)
(***************************************************************************)
EXTENDS Seeker, SequenceTheorems, FiniteSetTheorems, WellFoundedInduction, TLAPS

-----------------------------------------------------------------------------
(* The invariant.                                                          *)

PassNames == {"masscan", "domains", "cidr", "rescan"}
Queries == (UNION QuerySets) \cup {AnyQuery, BySeed}
Row == [host : Hosts, query : Queries, named : BOOLEAN]
Target == [host : Hosts, named : BOOLEAN]
Task == [pass : PassNames, host : Hosts, named : BOOLEAN, seed : Nat, stray : Nat,
         left : (SUBSET Queries) \cup {Asking}]

SeekerTypes ==
  /\ setup \in Setups
  /\ pass \in PassNames \cup {"start", "sleep", "exit"}
  /\ seed \in Nat
  /\ todo \in SUBSET Target
  /\ tasks \in SUBSET Task /\ IsFiniteSet(tasks)
  /\ rows \in Seq(Row)
  /\ named \in SUBSET Hosts
  /\ pinged \in SUBSET (Hosts \X PassNames)
  /\ lookups \in Nat

\* The passes that are configured.
Chosen == {p \in PassNames : Configured(p)}

\* Only a pass that is configured is under way, and only with consent if it
\* needs any.
PassesAllowed ==
  /\ pass \in PassNames => pass \in Chosen
  /\ pass \notin PassNames => todo = {}
  /\ pass \notin {"start", "exit"} => ~Refused(setup)

\* Nobody asks what no pass asks that is configured.
AskedByPasses == \A x \in pinged : x[2] \in Chosen /\ ~Refused(setup)

\* A target of the pass under way is asked or is still to be asked; those of
\* the passes before it have been asked, unless the pass was cut short or its
\* CIDRs are bad.
Covered ==
  /\ "masscan" \notin aborted =>
       /\ pass = "masscan" =>
            \A h \in MassHosts : <<h, "masscan">> \in pinged \/ [host |-> h, named |-> FALSE] \in todo
       /\ pass \in {"domains", "cidr", "rescan", "sleep"} /\ "masscan" \in Chosen =>
            \A h \in MassHosts : <<h, "masscan">> \in pinged
  /\ "domains" \notin aborted =>
       /\ pass = "domains" /\ seed > 0 =>
            \E h \in SeedHosts : <<h, "domains">> \in pinged \/ \E x \in todo : x.host = h
       /\ pass \in {"cidr", "rescan", "sleep"} /\ "domains" \in Chosen =>
            \E h \in SeedHosts : <<h, "domains">> \in pinged
  /\ setup.cidrs = "good" =>
       /\ pass = "cidr" =>
            \A h \in CidrHosts : <<h, "cidr">> \in pinged \/ [host |-> h, named |-> FALSE] \in todo
       /\ pass \in {"rescan", "sleep"} /\ "cidr" \in Chosen =>
            \A h \in CidrHosts : <<h, "cidr">> \in pinged

\* A task is one of the pass under way, or a stray that a failed lookup of this
\* or an earlier cycle left running; of each lookup there are no more than the
\* permits.  T are the tasks, n the lookups that failed, p the pass.
Group(T, k) == {t \in T : t.stray = k}
Known(t, n, p) == (t.stray \in 1 .. n /\ t.pass = "domains") \/ (t.stray = 0 /\ t.pass = p)
PermitsOf(T, n, p) ==
  /\ \A k \in 0 .. n : Cardinality(Group(T, k)) <= Concurrency
  /\ \A t \in T : Known(t, n, p)
Permitted == PermitsOf(tasks, lookups, pass)

PassesInv == SeekerTypes /\ PassesAllowed /\ AskedByPasses /\ Covered /\ Permitted

\* No row is ever deleted, and with them the hosts that a seed has named.
RowsInv ==
  /\ SeekerTypes /\ RowsAccounted
  /\ \A h \in named : Places(h) # {}

-----------------------------------------------------------------------------
(* Sequences of rows.                                                      *)

LEMMA LastWorks ==
  ASSUME NEW k \in Nat, NEW P \in SUBSET (1 .. k), P # {}
  PROVE  (CHOOSE i \in P : \A j \in P : j <= i) \in P
<1> DEFINE Left == {k - i : i \in P}
<1>1. Left \in SUBSET Nat /\ Left # {}
  <2>1. \A i \in P : k - i \in Nat
    OBVIOUS
  <2> QED
    BY <2>1
<1>2. PICK m \in Left : \A n \in Left : <<n, m>> \notin OpToRel(<, Nat)
  BY <1>1, NatLessThanWellFounded, WFMin
<1>3. PICK i \in P : m = k - i
  BY <1>2
<1>4. \A j \in P : j <= i
  <2> TAKE j \in P
  <2>1. k - j \in Left /\ k - j \in Nat /\ k - i \in Nat
    BY <1>1
  <2>2. ~(k - j < k - i)
    BY <2>1, <1>2, <1>3 DEF OpToRel
  <2> QED
    BY <2>2
<1> QED
  BY <1>4

\* What a row that goes to the end leaves of the others.
LEMMA MovedFacts ==
  ASSUME rows \in Seq(Row), NEW i \in 1 .. Len(rows), NEW r \in Row
  PROVE  /\ Moved(i, r) \in Seq(Row)
         /\ Len(Moved(i, r)) = Len(rows)
         /\ Moved(i, r)[Len(rows)] = r
         /\ \A j \in 1 .. (Len(rows) - 1) :
              Moved(i, r)[j] = rows[IF j < i THEN j ELSE j + 1]
<1> DEFINE n == Len(rows)
           a == SubSeq(rows, 1, i - 1)
           b == SubSeq(rows, i + 1, n)
<1>1. n \in Nat \ {0} /\ i \in 1 .. n /\ \A j \in 1 .. n : rows[j] \in Row
  BY LenProperties, ElementOfSeq
<1>2. /\ a \in Seq(Row) /\ Len(a) = i - 1
      /\ \A j \in 1 .. (i - 1) : a[j] = rows[j]
  <2>1. \A j \in 1 .. (i - 1) : rows[j] \in Row
    BY <1>1
  <2>2. 1 \in Int /\ i - 1 \in Int
    BY <1>1
  <2>3. /\ a \in Seq(Row) /\ Len(a) = IF 1 <= i - 1 THEN (i - 1) - 1 + 1 ELSE 0
        /\ \A j \in 1 .. (i - 1) - 1 + 1 : a[j] = rows[1 + j - 1]
    BY <2>1, <2>2, SubSeqProperties
  <2>4. \A j \in 1 .. (i - 1) : j \in 1 .. (i - 1) - 1 + 1 /\ 1 + j - 1 = j
    BY <1>1
  <2> QED
    BY <1>1, <2>3, <2>4
<1>3. /\ b \in Seq(Row) /\ Len(b) = n - i
      /\ \A j \in 1 .. (n - i) : b[j] = rows[i + j]
  <2>1. \A j \in (i + 1) .. n : rows[j] \in Row
    BY <1>1
  <2>2. i + 1 \in Int /\ n \in Int
    BY <1>1
  <2>3. /\ b \in Seq(Row) /\ Len(b) = IF i + 1 <= n THEN n - (i + 1) + 1 ELSE 0
        /\ \A j \in 1 .. n - (i + 1) + 1 : b[j] = rows[(i + 1) + j - 1]
    BY <2>1, <2>2, SubSeqProperties
  <2>4. \A j \in 1 .. (n - i) : j \in 1 .. n - (i + 1) + 1 /\ (i + 1) + j - 1 = i + j
    BY <1>1
  <2> QED
    BY <1>1, <2>3, <2>4
<1> DEFINE c == a \o b
<1>4. Moved(i, r) = Append(c, r)
  BY DEF Moved, RemoveAt
<1> HIDE DEF n, a, b
<1>5. /\ c \in Seq(Row) /\ Len(c) = n - 1
      /\ \A j \in 1 .. (n - 1) : c[j] = IF j < i THEN rows[j] ELSE rows[j + 1]
  <2>1. /\ c \in Seq(Row) /\ Len(c) = Len(a) + Len(b)
        /\ \A j \in 1 .. Len(a) + Len(b) : c[j] = IF j <= Len(a) THEN a[j] ELSE b[j - Len(a)]
    BY <1>2, <1>3, ConcatProperties
  <2>2. Len(a) + Len(b) = n - 1
    BY <1>1, <1>2, <1>3
  <2>3. ASSUME NEW j \in 1 .. (n - 1)
        PROVE  c[j] = IF j < i THEN rows[j] ELSE rows[j + 1]
    <3>1. CASE j < i
      <4>1. j <= Len(a) /\ j \in 1 .. (i - 1)
        BY <3>1, <1>1, <1>2
      <4>2. c[j] = a[j] /\ a[j] = rows[j]
        BY <4>1, <1>2, <2>1, <2>2
      <4> QED
        BY <4>2, <3>1
    <3>2. CASE ~(j < i)
      <4>1. ~(j <= Len(a)) /\ j - Len(a) \in 1 .. (n - i) /\ i + (j - Len(a)) = j + 1
        BY <3>2, <1>1, <1>2
      <4>2. c[j] = b[j - Len(a)] /\ b[j - Len(a)] = rows[i + (j - Len(a))]
        BY <4>1, <1>3, <2>1, <2>2
      <4> QED
        BY <4>1, <4>2, <3>2
    <3> QED
      BY <3>1, <3>2
  <2> QED
    BY <2>1, <2>2, <2>3
<1> HIDE DEF c
<1>6. /\ Append(c, r) \in Seq(Row) /\ Len(Append(c, r)) = n
      /\ \A j \in 1 .. (n - 1) : Append(c, r)[j] = c[j]
      /\ Append(c, r)[n] = r
  <2>1. /\ Append(c, r) \in Seq(Row) /\ Len(Append(c, r)) = Len(c) + 1
        /\ \A j \in 1 .. Len(c) : Append(c, r)[j] = c[j]
        /\ Append(c, r)[Len(c) + 1] = r
    BY <1>5, AppendProperties
  <2>2. Len(c) + 1 = n
    BY <1>1, <1>5
  <2> QED
    BY <1>5, <2>1, <2>2
<1>7. \A j \in 1 .. (n - 1) : Moved(i, r)[j] = rows[IF j < i THEN j ELSE j + 1]
  BY <1>4, <1>5, <1>6
<1> QED
  BY <1>4, <1>6, <1>7 DEF n

-----------------------------------------------------------------------------
(* The store.                                                              *)

LEMMA SetupFacts ==
  ASSUME setup \in Setups
  PROVE  /\ setup.store \in {"sqlite", "postgres"}
         /\ setup.mode \in {"watch", "scanner", "rescanner", "cidr"}
         /\ setup.queries \in QuerySets /\ IsFiniteSet(setup.queries)
         /\ AnyQuery \notin setup.queries /\ "asking" \notin setup.queries
         /\ setup.seeds \in Nat /\ setup.limit \in Nat
         /\ setup.masscan \in BOOLEAN /\ setup.understood \in BOOLEAN
<1>1. /\ setup.store \in Stores /\ setup.mode \in Modes /\ setup.queries \in QuerySets
      /\ setup.limit \in Limits /\ setup.seeds \in {0, Seeds}
      /\ setup.masscan \in BOOLEAN /\ setup.understood \in BOOLEAN
  BY DEF Setups
<1>2. Stores \subseteq {"sqlite", "postgres"} /\ Modes \subseteq {"watch", "scanner", "rescanner", "cidr"}
  BY SeekerAssumption
<1>3. Limits \subseteq Nat /\ Seeds \in Nat
  BY SeekerAssumption
<1>4. \A Q \in QuerySets : IsFiniteSet(Q) /\ "*" \notin Q /\ "asking" \notin Q
  BY SeekerAssumption
<1>5. setup.seeds \in Nat /\ setup.limit \in Nat
  <2>1. setup.seeds = 0 \/ setup.seeds = Seeds
    BY <1>1, Zenon
  <2>2. setup.limit \in Nat
    BY <1>1, <1>3, Zenon
  <2>3. setup.seeds \in Nat
    BY <2>1, <1>3
  <2> QED
    BY <2>2, <2>3
<1>6. IsFiniteSet(setup.queries) /\ AnyQuery \notin setup.queries /\ "asking" \notin setup.queries
  BY <1>1, <1>4 DEF AnyQuery
<1>7. /\ setup.store \in {"sqlite", "postgres"}
      /\ setup.mode \in {"watch", "scanner", "rescanner", "cidr"}
  BY <1>1, <1>2
<1> QED
  BY <1>1, <1>5, <1>6, <1>7

\* A save adds a row for the host, or moves one of the host's to the end.
LEMMA UpsertedCases ==
  ASSUME SeekerTypes, NEW h \in Hosts, NEW q \in Queries, NEW b \in BOOLEAN
  PROVE  \E new \in Row :
           /\ new.host = h
           /\ \/ /\ Upserted(h, q, b) = Append(rows, new)
                 /\ setup.store = "postgres" => Places(h) = {}
                 /\ setup.store = "sqlite" =>
                      \A j \in Places(h) : rows[j].query = q => q = AnyQuery
              \/ \E i \in Places(h) :
                   /\ Upserted(h, q, b) = Moved(i, new)
                   /\ setup.store = "postgres" /\ rows[i].named => new.named
                   /\ setup.store = "sqlite" => rows[i].query = q
           /\ setup.store = "postgres" /\ b => new.named
           /\ setup.store = "sqlite" => new.query = q
<1> DEFINE plain == [host |-> h, query |-> q, named |-> b]
<1>1. plain \in Row /\ plain.host = h /\ plain.query = q /\ plain.named = b
  BY DEF Row
<1>2. /\ Places(h) \in SUBSET (1 .. Len(rows)) /\ Len(rows) \in Nat
      /\ \A i \in 1 .. Len(rows) : rows[i] \in Row
  BY LenProperties, ElementOfSeq DEF Places, SeekerTypes
<1>3. CASE setup.store = "postgres"
  <2> DEFINE i == CHOOSE j \in Places(h) : TRUE
             new == [host |-> h, query |-> IF q = AnyQuery THEN rows[i].query ELSE q,
                     named |-> b \/ rows[i].named]
  <2>1. Upserted(h, q, b) = IF Places(h) = {} THEN Append(rows, plain) ELSE Moved(i, new)
    BY <1>3 DEF Upserted, UpsertPostgres
  <2>2. CASE Places(h) = {}
    <3>1. Upserted(h, q, b) = Append(rows, plain)
      BY <2>1, <2>2
    <3> HIDE DEF plain
    <3> QED
      BY <3>1, <2>2, <1>1, <1>3
  <2>3. CASE Places(h) # {}
    <3>1. i \in Places(h)
      BY <2>3
    <3> HIDE DEF i
    <3>2. rows[i] \in Row
      BY <3>1, <1>2
    <3>3. new \in Row /\ new.host = h /\ (b => new.named) /\ (rows[i].named => new.named)
      BY <3>2 DEF Row
    <3>4. Upserted(h, q, b) = Moved(i, new)
      BY <2>1, <2>3
    <3> HIDE DEF new
    <3> QED
      BY <3>1, <3>3, <3>4, <1>3
  <2> QED
    BY <2>2, <2>3
<1>4. CASE setup.store = "sqlite"
  <2> DEFINE at == {i \in Places(h) : rows[i].query = q}
             last == CHOOSE i \in at : \A j \in at : j <= i
  <2>1. Upserted(h, q, b) = IF at = {} \/ (q = AnyQuery /\ at = {last})
                            THEN Append(rows, plain) ELSE Moved(last, plain)
    BY <1>4 DEF Upserted, UpsertSqlite
  <2>2. at # {} => last \in at
    <3>1. at \in SUBSET (1 .. Len(rows))
      BY <1>2
    <3> HIDE DEF at
    <3> QED
      BY <1>2, <3>1, LastWorks
  <2> HIDE DEF last
  <2>3. CASE at = {} \/ (q = AnyQuery /\ at = {last})
    <3>1. Upserted(h, q, b) = Append(rows, plain)
      BY <2>1, <2>3
    <3>2. \A j \in Places(h) : rows[j].query = q => q = AnyQuery
      BY <2>3
    <3> HIDE DEF plain, at
    <3> QED
      BY <3>1, <3>2, <1>1, <1>4
  <2>4. CASE ~(at = {} \/ (q = AnyQuery /\ at = {last}))
    <3>1. Upserted(h, q, b) = Moved(last, plain)
      BY <2>1, <2>4
    <3>2. last \in Places(h) /\ rows[last].query = q
      BY <2>2, <2>4
    <3> HIDE DEF plain, at
    <3> QED
      BY <3>1, <3>2, <1>1, <1>4
  <2> QED
    BY <2>3, <2>4
<1> QED
  BY <1>3, <1>4, SetupFacts DEF SeekerTypes

LEMMA UpsertedTyped ==
  ASSUME SeekerTypes, NEW h \in Hosts, NEW q \in Queries, NEW b \in BOOLEAN
  PROVE  Upserted(h, q, b) \in Seq(Row)
<1>1. rows \in Seq(Row)
  BY DEF SeekerTypes
<1>2. PICK new \in Row : \/ Upserted(h, q, b) = Append(rows, new)
                         \/ \E i \in Places(h) : Upserted(h, q, b) = Moved(i, new)
  BY UpsertedCases
<1>3. \A i \in Places(h) : i \in 1 .. Len(rows)
  BY DEF Places
<1>4. Append(rows, new) \in Seq(Row)
  BY <1>1, AppendProperties
<1>5. \A i \in 1 .. Len(rows) : Moved(i, new) \in Seq(Row)
  BY <1>1, MovedFacts
<1> QED
  BY <1>2, <1>3, <1>4, <1>5

\* What RowsInv says of the rows, named being the hosts that a seed has named.
RowsOf(s, hosts) ==
  /\ \A i, j \in 1 .. Len(s) :
       /\ setup.store = "postgres" =>
            /\ s[i].host \in hosts => s[i].named
            /\ s[i].host = s[j].host => i = j
       /\ setup.store = "sqlite" =>
            (s[i].host = s[j].host /\ s[i].query = s[j].query /\ i # j => s[i].query = AnyQuery)
  /\ \A h \in hosts : \E i \in 1 .. Len(s) : s[i].host = h

LEMMA RowsAgree ==
  /\ RowsInv <=> SeekerTypes /\ RowsOf(rows, named)
  /\ RowsInv' <=> SeekerTypes' /\ RowsOf(rows, named)'
BY DEF RowsInv, RowsOf, RowsAccounted, Places

LEMMA UpsertedRight ==
  ASSUME RowsInv, NEW h \in Hosts, NEW q \in Queries, NEW b \in BOOLEAN
  PROVE  RowsOf(Upserted(h, q, b), IF b THEN named \cup {h} ELSE named)
<1> DEFINE n == Len(rows)
           s == Upserted(h, q, b)
           hosts == IF b THEN named \cup {h} ELSE named
<1>1. SeekerTypes /\ RowsOf(rows, named) /\ rows \in Seq(Row) /\ n \in Nat
  BY RowsAgree, LenProperties DEF SeekerTypes
<1>2. PICK new \in Row :
           /\ new.host = h
           /\ \/ /\ s = Append(rows, new)
                 /\ setup.store = "postgres" => Places(h) = {}
                 /\ setup.store = "sqlite" =>
                      \A j \in Places(h) : rows[j].query = q => q = AnyQuery
              \/ \E i \in Places(h) :
                   /\ s = Moved(i, new)
                   /\ setup.store = "postgres" /\ rows[i].named => new.named
                   /\ setup.store = "sqlite" => rows[i].query = q
           /\ setup.store = "postgres" /\ b => new.named
           /\ setup.store = "sqlite" => new.query = q
  BY <1>1, UpsertedCases
<1>3. Places(h) = {i \in 1 .. n : rows[i].host = h}
  BY DEF Places
<1>4. ASSUME s = Append(rows, new),
             setup.store = "postgres" => Places(h) = {},
             setup.store = "sqlite" => \A j \in Places(h) : rows[j].query = q => q = AnyQuery
      PROVE  RowsOf(s, hosts)
  <2>1. /\ Len(s) = n + 1 /\ s[n + 1] = new /\ \A i \in 1 .. n : s[i] = rows[i]
    BY <1>1, <1>4, AppendProperties
  <2> HIDE DEF s
  <2>2. setup.store = "postgres" /\ h \in named => FALSE
    <3>1. \A x \in named : \E i \in 1 .. n : rows[i].host = x
      BY <1>1 DEF RowsOf
    <3> QED
      BY <3>1, <1>3, <1>4
  <2> HIDE DEF n
  <2>3. \A i \in 1 .. Len(s) : i \in 1 .. n \/ i = n + 1
    BY <1>1, <2>1
  <2>4. \A x \in hosts : x \in named \/ x = h
    OBVIOUS
  <2>5. \A i \in 1 .. n : i \in 1 .. Len(s) /\ n + 1 \in 1 .. Len(s)
    BY <1>1, <2>1
  <2>6. n + 1 \in 1 .. Len(s)
    BY <1>1, <2>1
  <2>7. ASSUME NEW i \in 1 .. Len(s), setup.store = "postgres", s[i].host \in hosts
        PROVE  s[i].named
    <3>1. \A k \in 1 .. n : rows[k].host \in named => rows[k].named
      BY <1>1, <2>7 DEF RowsOf, n
    <3>2. CASE i = n + 1
      <4>1. b
        BY <3>2, <1>2, <2>1, <2>2, <2>4, <2>7
      <4> QED
        BY <4>1, <3>2, <1>2, <2>1, <2>7
    <3>3. CASE i \in 1 .. n
      <4>1. s[i] = rows[i] /\ rows[i].host # h
        BY <3>3, <1>3, <1>4, <2>1, <2>7
      <4> QED
        BY <4>1, <3>1, <3>3, <2>4, <2>7
    <3> QED
      BY <3>2, <3>3, <2>3
  <2>8. ASSUME NEW i \in 1 .. Len(s), NEW j \in 1 .. Len(s), s[i].host = s[j].host,
               setup.store = "postgres"
        PROVE  i = j
    BY <1>1, <1>2, <1>3, <1>4, <2>1, <2>3, <2>8 DEF RowsOf, n
  <2>9. ASSUME NEW i \in 1 .. Len(s), NEW j \in 1 .. Len(s), s[i].host = s[j].host,
               s[i].query = s[j].query, i # j, setup.store = "sqlite"
        PROVE  s[i].query = AnyQuery
    BY <1>1, <1>2, <1>3, <1>4, <2>1, <2>3, <2>9 DEF RowsOf, n
  <2>10. \A x \in hosts : \E i \in 1 .. Len(s) : s[i].host = x
    BY <1>1, <1>2, <2>1, <2>4, <2>5, <2>6 DEF RowsOf, n
  <2> HIDE DEF hosts
  <2> QED
    BY <2>7, <2>8, <2>9, <2>10 DEF RowsOf
<1>5. ASSUME NEW k \in Places(h), s = Moved(k, new),
             setup.store = "postgres" /\ rows[k].named => new.named,
             setup.store = "sqlite" => rows[k].query = q
      PROVE  RowsOf(s, hosts)
  <2>1. k \in 1 .. n /\ rows[k].host = h
    BY <1>3
  <2> DEFINE F(i) == IF i = n THEN k ELSE IF i < k THEN i ELSE i + 1
  <2>2. /\ Len(s) = n /\ s[n] = new
        /\ \A i \in 1 .. (n - 1) : s[i] = rows[IF i < k THEN i ELSE i + 1]
    <3>1. /\ Len(Moved(k, new)) = n /\ Moved(k, new)[n] = new
          /\ \A i \in 1 .. (n - 1) : Moved(k, new)[i] = rows[IF i < k THEN i ELSE i + 1]
      BY <1>1, <2>1, MovedFacts
    <3> HIDE DEF s, n
    <3> QED
      BY <3>1, <1>5
  <2> HIDE DEF s
  <2>3. \A i \in 1 .. n : F(i) \in 1 .. n /\ (F(i) = k <=> i = n)
    BY <1>1, <2>1
  <2>4. \A i, j \in 1 .. n : F(i) = F(j) => i = j
    BY <1>1, <2>1
  <2>5. \A i \in 1 .. n : i # n => s[i] = rows[F(i)]
    <3> TAKE i \in 1 .. n
    <3> HAVE i # n
    <3>1. i \in 1 .. (n - 1) /\ F(i) = IF i < k THEN i ELSE i + 1
      BY <1>1
    <3> QED
      BY <3>1, <2>2
  <2>6. \A m \in 1 .. n : \E i \in 1 .. n : F(i) = m
    <3> TAKE m \in 1 .. n
    <3>1. CASE m = k
      BY <3>1, <1>1, <2>1
    <3>2. CASE m < k
      <4>1. m \in 1 .. n /\ F(m) = m
        BY <3>2, <1>1, <2>1
      <4> QED
        BY <4>1
    <3>3. CASE k < m
      <4>1. m - 1 \in 1 .. n /\ F(m - 1) = m
        BY <3>3, <1>1, <2>1
      <4> QED
        BY <4>1
    <3> QED
      BY <3>1, <3>2, <3>3, <2>1
  <2>7. \A i \in 1 .. n : s[i].host = rows[F(i)].host
    BY <1>2, <2>1, <2>2, <2>3, <2>5
  <2>8. setup.store = "sqlite" => \A i \in 1 .. n : s[i].query = rows[F(i)].query
    BY <1>2, <1>5, <2>1, <2>2, <2>3, <2>5
  <2>9. setup.store = "postgres" =>
          \A i \in 1 .. n : \/ rows[F(i)].named => s[i].named
                            \/ i = n
    BY <2>5
  <2> HIDE DEF F, n
  <2>10. ASSUME NEW i \in 1 .. Len(s), setup.store = "postgres", s[i].host \in hosts
         PROVE  s[i].named
    <3>1. i \in 1 .. n /\ F(i) \in 1 .. n
      BY <2>2, <2>3
    <3>2. CASE s[i].host \in named
      <4>1. rows[F(i)].named
        BY <3>1, <3>2, <2>7, <2>10, <1>1 DEF RowsOf, n
      <4>2. CASE i = n
        <5>1. F(i) = k
          BY <3>1, <4>2, <2>3
        <5> QED
          BY <4>1, <4>2, <5>1, <2>2, <2>10, <1>5
      <4>3. CASE i # n
        BY <4>1, <4>3, <3>1, <2>5
      <4> QED
        BY <4>2, <4>3
    <3>3. CASE s[i].host \notin named
      <4>1. b /\ s[i].host = h
        BY <3>3, <2>10
      <4>2. F(i) = k
        BY <4>1, <3>1, <2>1, <2>7, <2>10, <1>1 DEF RowsOf, n
      <4> QED
        BY <4>1, <4>2, <3>1, <2>2, <2>3, <2>10, <1>2
    <3> QED
      BY <3>2, <3>3
  <2>11. ASSUME NEW i \in 1 .. Len(s), NEW j \in 1 .. Len(s), s[i].host = s[j].host,
                setup.store = "postgres"
         PROVE  i = j
    <3>1. i \in 1 .. n /\ j \in 1 .. n /\ F(i) \in 1 .. n /\ F(j) \in 1 .. n
      BY <2>2, <2>3
    <3>2. rows[F(i)].host = rows[F(j)].host
      BY <3>1, <2>7, <2>11
    <3>3. F(i) = F(j)
      BY <3>1, <3>2, <2>11, <1>1 DEF RowsOf, n
    <3> QED
      BY <3>1, <3>3, <2>4
  <2>12. ASSUME NEW i \in 1 .. Len(s), NEW j \in 1 .. Len(s), s[i].host = s[j].host,
                s[i].query = s[j].query, i # j, setup.store = "sqlite"
         PROVE  s[i].query = AnyQuery
    <3>1. i \in 1 .. n /\ j \in 1 .. n /\ F(i) \in 1 .. n /\ F(j) \in 1 .. n /\ F(i) # F(j)
      BY <2>2, <2>3, <2>4, <2>12
    <3>2. rows[F(i)].host = rows[F(j)].host /\ rows[F(i)].query = rows[F(j)].query
      BY <3>1, <2>7, <2>8, <2>12
    <3>3. rows[F(i)].query = AnyQuery
      BY <3>1, <3>2, <2>12, <1>1 DEF RowsOf, n
    <3> QED
      BY <3>1, <3>3, <2>8, <2>12
  <2>13. ASSUME NEW x \in hosts
         PROVE  \E i \in 1 .. Len(s) : s[i].host = x
    <3>1. PICK m \in 1 .. n : rows[m].host = x
      BY <1>1, <2>1 DEF RowsOf, n
    <3>2. PICK i \in 1 .. n : F(i) = m
      BY <2>6
    <3> QED
      BY <3>1, <3>2, <2>2, <2>7
  <2> HIDE DEF hosts
  <2> QED
    BY <2>10, <2>11, <2>12, <2>13 DEF RowsOf
<1> QED
  BY <1>2, <1>4, <1>5

-----------------------------------------------------------------------------
(* The passes.                                                             *)

LEMMA OrderIs == /\ Order[1] = "masscan" /\ Order[2] = "domains"
                 /\ Order[3] = "cidr" /\ Order[4] = "rescan"
                 /\ \A j \in 1 .. 4 : Order[j] \in PassNames
<1>1. /\ Order[1] = "masscan" /\ Order[2] = "domains"
      /\ Order[3] = "cidr" /\ Order[4] = "rescan"
  BY DEF Order
<1>2. \A j \in 1 .. 4 : j = 1 \/ j = 2 \/ j = 3 \/ j = 4
  OBVIOUS
<1> QED
  BY <1>1, <1>2, Zenon DEF PassNames

\* The pass that follows is the first of those left that is configured.
LEMMA NextPassIs ==
  ASSUME NEW i \in 0 .. 4, NEW p, p = NextPass(i)
  PROVE  /\ \/ \E j \in i + 1 .. 4 :
                 /\ p = Order[j] /\ Configured(Order[j])
                 /\ \A k \in i + 1 .. j - 1 : ~Configured(Order[k])
            \/ /\ p \in {"sleep", "exit"}
               /\ \A k \in i + 1 .. 4 : ~Configured(Order[k])
<1> DEFINE later == {j \in i + 1 .. 4 : Configured(Order[j])}
<1>1. p = IF later = {} THEN IF setup.mode = "watch" THEN "sleep" ELSE "exit" ELSE Order[Min(later)]
  BY DEF NextPass
<1>2. CASE later = {}
  BY <1>1, <1>2
<1>3. CASE later # {}
  <2>1. later \in SUBSET Nat
    OBVIOUS
  <2> HIDE DEF later
  <2>2. PICK m \in later : \A n \in later : <<n, m>> \notin OpToRel(<, Nat)
    BY <1>3, <2>1, NatLessThanWellFounded, WFMin
  <2>3. \A n \in later : m <= n
    <3> TAKE n \in later
    <3>1. n \in Nat /\ m \in Nat
      BY <2>1
    <3>2. ~(n < m)
      BY <2>2, <3>1 DEF OpToRel
    <3> QED
      BY <3>1, <3>2
  <2>4. \A n \in later : Min(later) \in later /\ Min(later) <= n
    BY <2>2, <2>3 DEF Min
  <2> DEFINE j == Min(later)
  <2>5. j \in later /\ \A n \in later : j <= n
    BY <2>2, <2>4
  <2>6. p = Order[j]
    BY <1>1, <1>3
  <2> HIDE DEF j
  <2>7. j \in i + 1 .. 4 /\ Configured(Order[j])
    BY <2>5 DEF later
  <2>8. \A k \in i + 1 .. j - 1 : ~Configured(Order[k])
    <3> SUFFICES ASSUME NEW k \in i + 1 .. j - 1, Configured(Order[k])
                 PROVE  FALSE
      OBVIOUS
    <3>1. k \in i + 1 .. 4 /\ ~(j <= k)
      BY <2>7
    <3>2. k \in later
      BY <3>1 DEF later
    <3> QED
      BY <3>1, <3>2, <2>5
  <2> QED
    BY <2>6, <2>7, <2>8
<1> QED
  BY <1>2, <1>3

\* The same, pass by pass.
LEMMA FollowingPass ==
  ASSUME NEW i \in 0 .. 4, NEW p, p = NextPass(i)
  PROVE  /\ p \in Chosen \cup {"sleep", "exit"}
         /\ i = 0 /\ "masscan" \in Chosen => p = "masscan"
         /\ i <= 1 /\ "domains" \in Chosen => p \in {"masscan", "domains"}
         /\ i <= 2 /\ "cidr" \in Chosen => p \in {"masscan", "domains", "cidr"}
         /\ i >= 1 => p # "masscan"
         /\ i >= 2 => p # "domains"
         /\ i >= 3 => p # "cidr"
<1>1. CASE \E j \in i + 1 .. 4 : /\ p = Order[j] /\ Configured(Order[j])
                                 /\ \A k \in i + 1 .. j - 1 : ~Configured(Order[k])
  <2>1. PICK j \in i + 1 .. 4 : /\ p = Order[j] /\ Configured(Order[j])
                                /\ \A k \in i + 1 .. j - 1 : ~Configured(Order[k])
    BY <1>1
  <2>2. p \in Chosen
    BY <2>1, OrderIs DEF Chosen
  <2>3. j = 1 \/ j = 2 \/ j = 3 \/ j = 4
    OBVIOUS
  <2>4. /\ i = 0 /\ "masscan" \in Chosen => j = 1
        /\ i <= 1 /\ "domains" \in Chosen => j \in {1, 2}
        /\ i <= 2 /\ "cidr" \in Chosen => j \in {1, 2, 3}
    <3>1. i = 0 /\ j # 1 => ~Configured(Order[1])
      BY <2>1
    <3>2. i <= 1 /\ j \notin {1, 2} => ~Configured(Order[2])
      BY <2>1, <2>3
    <3>3. i <= 2 /\ j \notin {1, 2, 3} => ~Configured(Order[3])
      BY <2>1, <2>3
    <3> QED
      BY <3>1, <3>2, <3>3, OrderIs DEF Chosen
  <2>5. /\ i >= 1 => j # 1
        /\ i >= 2 => j # 2
        /\ i >= 3 => j # 3
    OBVIOUS
  <2>6. /\ j = 1 => p = "masscan"
        /\ j = 2 => p = "domains"
        /\ j = 3 => p = "cidr"
        /\ j = 4 => p = "rescan"
    BY <2>1, OrderIs
  <2> QED
    BY <2>2, <2>3, <2>4, <2>5, <2>6
<1>2. CASE /\ p \in {"sleep", "exit"}
           /\ \A k \in i + 1 .. 4 : ~Configured(Order[k])
  <2>1. /\ i = 0 => ~Configured(Order[1])
        /\ i <= 1 => ~Configured(Order[2])
        /\ i <= 2 => ~Configured(Order[3])
    BY <1>2
  <2> QED
    BY <1>2, <2>1, OrderIs DEF Chosen
<1> QED
  BY <1>1, <1>2, NextPassIs

LEMMA TargetsTyped ==
  ASSUME NEW p
  PROVE  TargetsOf(p) \in SUBSET Target
<1>1. Picked \subseteq Hosts
  BY DEF Picked, Limited, StoredHosts
<1>2. \A H \in SUBSET Hosts : Queue(H, FALSE) \in SUBSET Target
  <2> SUFFICES ASSUME NEW H \in SUBSET Hosts, NEW h \in H
               PROVE  [host |-> h, named |-> FALSE] \in Target
    BY DEF Queue
  <2> QED
    BY DEF Target
<1>3. MassHosts \in SUBSET Hosts /\ CidrHosts \in SUBSET Hosts
  BY SeekerAssumption
<1>4. /\ Queue(MassHosts, FALSE) \in SUBSET Target
      /\ Queue(CidrHosts, FALSE) \in SUBSET Target
      /\ Queue(Picked, FALSE) \in SUBSET Target
  BY <1>1, <1>2, <1>3
<1>5. TargetsOf(p) \in {Queue(MassHosts, FALSE), Queue(CidrHosts, FALSE), Queue(Picked, FALSE), {}}
  BY DEF TargetsOf
<1> QED
  BY <1>4, <1>5

LEMMA TargetsIs ==
  /\ \A h \in MassHosts : [host |-> h, named |-> FALSE] \in TargetsOf("masscan")
  /\ \A h \in CidrHosts : [host |-> h, named |-> FALSE] \in TargetsOf("cidr")
  /\ \A p : p \notin PassNames => TargetsOf(p) = {}
BY DEF TargetsOf, Queue, PassNames

\* The setup does not change.
LEMMA ChosenSame ==
  ASSUME setup' = setup
  PROVE  Chosen' = Chosen /\ Refused(setup)' = Refused(setup)
<1>1. \A p \in PassNames : Configured(p)' = Configured(p)
  BY DEF Configured
<1> QED
  BY <1>1 DEF Chosen, Refused

LEMMA AskingIsNone ==
  /\ "asking" \notin Queries
  /\ \A t \in Task : t.left # Asking => t.left \in SUBSET Queries
  /\ \A t \in Task : t.left \in SUBSET Queries => t.left # Asking \/ t.left = {}
<1>1. "asking" \notin Queries
  <2>1. \A Q \in QuerySets : "asking" \notin Q
    BY SeekerAssumption
  <2>2. \A x \in Queries : x = "*" \/ x = "seed" \/ \E Q \in QuerySets : x \in Q
    <3> TAKE x \in Queries
    <3>1. x \in UNION QuerySets \/ x = "*" \/ x = "seed"
      BY Zenon DEF Queries, AnyQuery, BySeed
    <3> QED
      BY <3>1, Zenon
  <2>3. "asking" # "*" /\ "asking" # "seed"
    OBVIOUS
  <2> QED
    BY <2>1, <2>2, <2>3, Zenon
<1> QED
  BY <1>1 DEF Task, Asking

LEMMA MatchedTyped ==
  ASSUME SeekerTypes, NEW t \in tasks
  PROVE  MatchedQueries(t) \in SUBSET Queries
<1>1. setup.queries \subseteq Queries
  BY SetupFacts DEF SeekerTypes, Queries
<1>2. QueriesOf(t) \subseteq Queries
  BY <1>1 DEF QueriesOf
<1>3. AnyQuery \in Queries /\ BySeed \in Queries
  BY DEF Queries
<1>4. {AnyQuery} \subseteq Queries /\ {BySeed} \subseteq Queries /\ {} \subseteq Queries
  BY <1>3, Zenon
<1>5. MatchedQueries(t) \in {QueriesOf(t), {AnyQuery}, {BySeed}, {}}
  BY DEF MatchedQueries
<1> QED
  BY <1>2, <1>4, <1>5, Zenon

LEMMA IndexIs ==
  /\ Index("masscan") = 1 /\ Index("domains") = 2
  /\ Index("cidr") = 3 /\ Index("rescan") = 4
<1>1. \A i \in 1 .. 4 : /\ Order[i] = "masscan" <=> i = 1
                        /\ Order[i] = "domains" <=> i = 2
                        /\ Order[i] = "cidr" <=> i = 3
                        /\ Order[i] = "rescan" <=> i = 4
  <2>1. \A i \in 1 .. 4 : i = 1 \/ i = 2 \/ i = 3 \/ i = 4
    OBVIOUS
  <2> QED
    BY <2>1, OrderIs
<1> QED
  BY <1>1 DEF Index

\* What entering the pass after the i-th does, when those of soFar have ended
\* in an error.
LEMMA Entering ==
  ASSUME NEW i \in 0 .. 4, NEW soFar, Enter(NextPass(i), soFar)
  PROVE  /\ pass' \in Chosen \cup {"sleep", "exit"} /\ pass' \notin {"start"}
         /\ i = 0 /\ "masscan" \in Chosen => pass' = "masscan"
         /\ i <= 1 /\ "domains" \in Chosen => pass' \in {"masscan", "domains"}
         /\ i <= 2 /\ "cidr" \in Chosen => pass' \in {"masscan", "domains", "cidr"}
         /\ i >= 1 => pass' # "masscan"
         /\ i >= 2 => pass' # "domains"
         /\ i >= 3 => pass' # "cidr"
         /\ todo' \in SUBSET Target /\ (pass' \notin PassNames => todo' = {})
         /\ pass' = "masscan" =>
              \A h \in MassHosts : [host |-> h, named |-> FALSE] \in todo'
         /\ pass' = "cidr" /\ setup.cidrs = "good" =>
              \A h \in CidrHosts : [host |-> h, named |-> FALSE] \in todo'
         /\ seed' = 0 /\ setup' = setup
         /\ \A p \in soFar : p \in aborted'
<1> DEFINE p == NextPass(i)
<1>1. /\ pass' = p /\ seed' = 0 /\ setup' = setup
      /\ \/ ~CannotStart(p) /\ todo' = TargetsOf(p) /\ aborted' = soFar
         \/ (CannotStart(p) \/ p = "rescan") /\ todo' = {} /\ aborted' = soFar \cup {p}
  BY DEF Enter
<1> HIDE DEF p
<1>2. p = NextPass(i)
  BY DEF p
<1>3. /\ p \in Chosen \cup {"sleep", "exit"}
      /\ i = 0 /\ "masscan" \in Chosen => p = "masscan"
      /\ i <= 1 /\ "domains" \in Chosen => p \in {"masscan", "domains"}
      /\ i <= 2 /\ "cidr" \in Chosen => p \in {"masscan", "domains", "cidr"}
      /\ i >= 1 => p # "masscan"
      /\ i >= 2 => p # "domains"
      /\ i >= 3 => p # "cidr"
  BY <1>2, FollowingPass
<1>4. p # "start"
  BY <1>3 DEF Chosen, PassNames
<1>5. /\ TargetsOf(p) \in SUBSET Target /\ (p \notin PassNames => TargetsOf(p) = {})
      /\ p = "masscan" => \A h \in MassHosts : [host |-> h, named |-> FALSE] \in TargetsOf(p)
      /\ p = "cidr" => \A h \in CidrHosts : [host |-> h, named |-> FALSE] \in TargetsOf(p)
  BY TargetsTyped, TargetsIs
<1>6. p = "masscan" \/ (p = "cidr" /\ setup.cidrs = "good") => todo' = TargetsOf(p)
  BY <1>1 DEF CannotStart
<1>7. \A x \in soFar : x \in aborted'
  BY <1>1
<1>8. todo' = {} \/ todo' = TargetsOf(p)
  BY <1>1
<1> QED
  BY <1>1, <1>3, <1>4, <1>5, <1>6, <1>7, <1>8

LEMMA Ending ==
  ASSUME PassesInv, EndPass
  PROVE  \E i \in 1 .. 4 :
           /\ Enter(NextPass(i), aborted)
           /\ i = 1 => pass = "masscan"
           /\ i = 2 => pass = "domains"
           /\ i = 3 => pass = "cidr"
           /\ i = 4 => pass = "rescan"
<1>1. pass \in {"masscan", "domains", "cidr", "rescan"} /\ Enter(NextPass(Index(pass)), aborted)
  BY DEF EndPass
<1> QED
  BY <1>1, IndexIs

LEMMA PassesEntered ==
  ASSUME NEW i \in 0 .. 4, NEW soFar, Enter(NextPass(i), soFar)
  PROVE  /\ pass' \in PassNames \cup {"start", "sleep", "exit"}
         /\ seed' \in Nat /\ todo' \in SUBSET Target /\ setup' = setup
<1>1. Chosen \subseteq PassNames
  BY DEF Chosen
<1> QED
  BY <1>1, Entering

\* The tasks after an answer or a save.
LEMMA TasksTyped ==
  ASSUME SeekerTypes, NEW t \in tasks, NEW Q \in SUBSET Queries,
         NEW T \in {{}, {[t EXCEPT !.left = Q]}}
  PROVE  (tasks \ {t}) \cup T \in SUBSET Task /\ IsFiniteSet((tasks \ {t}) \cup T)
<1>1. t \in Task /\ tasks \in SUBSET Task /\ IsFiniteSet(tasks)
  BY DEF SeekerTypes
<1>2. [t EXCEPT !.left = Q] \in Task
  BY <1>1 DEF Task
<1>3. IsFiniteSet(tasks \ {t})
  BY <1>1, FS_RemoveElement
<1>4. IsFiniteSet((tasks \ {t}) \cup {[t EXCEPT !.left = Q]})
  BY <1>3, FS_AddElement
<1>5. IsFiniteSet((tasks \ {t}) \cup {})
  <2>1. (tasks \ {t}) \cup {} = tasks \ {t}
    OBVIOUS
  <2> QED
    BY <1>3, <2>1
<1>6. T \in SUBSET Task
  BY <1>2
<1> QED
  BY <1>1, <1>4, <1>5, <1>6

\* What is left to be saved after an answer or a save.
LEMMA Answered ==
  ASSUME SeekerTypes, NEW t \in tasks, Answer(t)
  PROVE  \E Q \in SUBSET Queries : \E T \in {{}, {[t EXCEPT !.left = Q]}} :
           tasks' = (tasks \ {t}) \cup T
<1>1. MatchedQueries(t) \in SUBSET Queries
  BY MatchedTyped
<1> QED
  BY <1>1 DEF Answer

LEMMA Saved ==
  ASSUME SeekerTypes, NEW t \in tasks, NEW q \in t.left, Save(t, q)
  PROVE  /\ t.host \in Hosts /\ t.named \in BOOLEAN /\ q \in Queries
         /\ \E Q \in SUBSET Queries : \E T \in {{}, {[t EXCEPT !.left = Q]}} :
              tasks' = (tasks \ {t}) \cup T
<1>1. t \in Task /\ t.left # Asking
  BY DEF SeekerTypes, Save
<1>2. t.left \in SUBSET Queries
  BY <1>1, AskingIsNone
<1>3. t.left \ {q} \in SUBSET Queries
  BY <1>2
<1>4. tasks' = (tasks \ {t}) \cup IF t.left = {q} THEN {} ELSE {[t EXCEPT !.left = t.left \ {q}]}
  BY DEF Save
<1>5. t.host \in Hosts /\ t.named \in BOOLEAN
  BY <1>1 DEF Task
<1> QED
  BY <1>2, <1>3, <1>4, <1>5

LEMMA TypesKept ==
  ASSUME PassesInv, [Next]_vars
  PROVE  SeekerTypes'
<1> USE DEF SeekerTypes, PassesInv
<1>1. ASSUME rows' = rows, named' = named, tasks' = tasks, lookups' = lookups,
             pinged' \in {pinged, {}}, NEW i \in 0 .. 4, NEW soFar, Enter(NextPass(i), soFar)
      PROVE  SeekerTypes'
  BY <1>1, PassesEntered
<1>2. CASE Start
  <2>1. CASE pass' = "exit" /\ UNCHANGED <<todo, seed, aborted>> /\ Unchanged
    BY <1>2, <2>1 DEF Start, Unchanged
  <2>2. CASE Enter(NextPass(0), {})
    BY <1>1, <1>2, <2>2 DEF Start
  <2> QED
    BY <1>2, <2>1, <2>2 DEF Start
<1>3. CASE WakeUp
  BY <1>1, <1>3 DEF WakeUp
<1>4. CASE EndPass
  <2>1. PICK i \in 1 .. 4 : Enter(NextPass(i), aborted)
    BY <1>4, Ending
  <2>2. i \in 0 .. 4
    OBVIOUS
  <2>3. rows' = rows /\ named' = named /\ tasks' = tasks /\ pinged' = pinged /\ lookups' = lookups
    BY <1>4 DEF EndPass
  <2> QED
    BY <1>1, <2>1, <2>2, <2>3
<1>14. CASE MasscanFails
  BY <1>1, <1>14 DEF MasscanFails
<1>5. ASSUME NEW x \in todo, Spawn(x)
      PROVE  SeekerTypes'
  <2>1. x \in Target /\ pass \in PassNames
    BY DEF PassesAllowed
  <2>2. [pass |-> pass, host |-> x.host, named |-> x.named, seed |-> seed, stray |-> 0,
         left |-> Asking] \in Task
    BY <2>1 DEF Target, Task
  <2>3. tasks' \in SUBSET Task /\ IsFiniteSet(tasks')
    BY <1>5, <2>2, FS_AddElement DEF Spawn
  <2>4. pinged' \in SUBSET (Hosts \X PassNames)
    BY <1>5, <2>1 DEF Spawn, Target
  <2> QED
    BY <1>5, <2>3, <2>4 DEF Spawn, Unchanged
<1>6. ASSUME NEW hosts \in SUBSET SeedHosts, Resolve(hosts)
      PROVE  SeekerTypes'
  <2>1. hosts \subseteq Hosts
    BY SeekerAssumption
  <2>2. todo' \in SUBSET Target
    <3>1. \A h \in hosts : [host |-> h, named |-> TRUE] \in Target
      BY <2>1 DEF Target
    <3> QED
      BY <1>6, <3>1 DEF Resolve, Queue
  <2>3. seed' \in Nat
    BY <1>6 DEF Resolve
  <2> QED
    BY <1>6, <2>2, <2>3 DEF Resolve, Unchanged, histVars
<1>7. CASE ResolveFails
  <2> DEFINE f == [t \in tasks |-> [t EXCEPT !.stray = IF @ = 0 THEN lookups + 1 ELSE @]]
  <2>1. tasks' = {f[t] : t \in tasks}
    BY <1>7 DEF ResolveFails
  <2>2. f \in Surjection(tasks, tasks')
    BY <2>1 DEF Surjection
  <2>3. IsFiniteSet(tasks')
    BY <2>2, FS_Surjection
  <2>4. \A t \in Task : [t EXCEPT !.stray = IF @ = 0 THEN lookups + 1 ELSE @] \in Task
    BY DEF Task
  <2>5. tasks' \in SUBSET Task
    BY <2>1, <2>4
  <2>6. 2 \in 0 .. 4 /\ Enter(NextPass(2), aborted \cup {"domains"}) /\ lookups' \in Nat
    BY <1>7 DEF ResolveFails
  <2>7. /\ pass' \in PassNames \cup {"start", "sleep", "exit"}
        /\ seed' \in Nat /\ todo' \in SUBSET Target /\ setup' = setup
    BY <2>6, PassesEntered
  <2> QED
    BY <1>7, <2>3, <2>5, <2>6, <2>7 DEF ResolveFails
<1>8. ASSUME NEW t \in tasks, Answer(t)
      PROVE  SeekerTypes'
  <2>1. tasks' \in SUBSET Task /\ IsFiniteSet(tasks')
    <3>1. PICK Q \in SUBSET Queries : \E T \in {{}, {[t EXCEPT !.left = Q]}} : tasks' = (tasks \ {t}) \cup T
      BY <1>8, Answered
    <3>2. PICK T \in {{}, {[t EXCEPT !.left = Q]}} : tasks' = (tasks \ {t}) \cup T
      BY <3>1
    <3>3. (tasks \ {t}) \cup T \in SUBSET Task /\ IsFiniteSet((tasks \ {t}) \cup T)
      BY TasksTyped
    <3> QED
      BY <3>2, <3>3
  <2> QED
    BY <1>8, <2>1 DEF Answer, Unchanged, histVars
<1>9. ASSUME NEW t \in tasks, NEW q \in t.left, Save(t, q)
      PROVE  SeekerTypes'
  <2>1. t.host \in Hosts /\ t.named \in BOOLEAN /\ q \in Queries
    BY <1>9, Saved
  <2>2. tasks' \in SUBSET Task /\ IsFiniteSet(tasks')
    <3>1. PICK Q \in SUBSET Queries : \E T \in {{}, {[t EXCEPT !.left = Q]}} : tasks' = (tasks \ {t}) \cup T
      BY <1>9, Saved
    <3>2. PICK T \in {{}, {[t EXCEPT !.left = Q]}} : tasks' = (tasks \ {t}) \cup T
      BY <3>1
    <3>3. (tasks \ {t}) \cup T \in SUBSET Task /\ IsFiniteSet((tasks \ {t}) \cup T)
      BY TasksTyped
    <3> QED
      BY <3>2, <3>3
  <2>3. rows' \in Seq(Row)
    BY <1>9, <2>1, UpsertedTyped DEF Save
  <2>4. named' \in SUBSET Hosts
    BY <1>9, <2>1 DEF Save
  <2> QED
    BY <1>9, <2>2, <2>3, <2>4 DEF Save, Unchanged
<1>10. ASSUME NEW t \in tasks, TaskFails(t)
       PROVE  SeekerTypes'
  <2>1. tasks' \in SUBSET Task /\ IsFiniteSet(tasks')
    BY <1>10, FS_RemoveElement DEF TaskFails
  <2>2. todo' \in SUBSET Target
    BY <1>10 DEF TaskFails
  <2> QED
    BY <1>10, <2>1, <2>2 DEF TaskFails
<1>11. CASE (\E h \in Hosts : Change(h)) \/ LoseStore
  BY <1>11 DEF Change, LoseStore, progVars, histVars
<1>12. CASE UNCHANGED vars
  BY <1>12 DEF vars, progVars, histVars
<1>13. \A t \in tasks : PingFails(t) \/ SaveFails(t) => TaskFails(t)
  BY DEF PingFails, SaveFails
<1> QED
  BY <1>2, <1>3, <1>4, <1>5, <1>6, <1>7, <1>8, <1>9, <1>10, <1>11, <1>12, <1>13, <1>14
     DEF Next, PassStep, TaskStep

-----------------------------------------------------------------------------
(* What is asked.                                                          *)

LEMMA AllowedKept ==
  ASSUME PassesInv, [Next]_vars
  PROVE  PassesAllowed' /\ AskedByPasses'
<1>0. /\ pass \in PassNames => pass \in Chosen
      /\ pass \notin PassNames => todo = {}
      /\ pass \notin {"start", "exit"} => ~Refused(setup)
      /\ \A x \in pinged : x[2] \in Chosen /\ ~Refused(setup)
  BY DEF PassesInv, PassesAllowed, AskedByPasses
<1>1. ASSUME setup' = setup, pass' = pass,
             todo' \subseteq todo \/ pass \in PassNames,
             pinged' \subseteq pinged \/ pass' \in PassNames,
             \A x \in pinged' : x \in pinged \/ x[2] = pass
      PROVE  PassesAllowed' /\ AskedByPasses'
  <2>1. Chosen' = Chosen /\ Refused(setup)' = Refused(setup)
    BY <1>1, ChosenSame
  <2>2. PassesAllowed'
    BY <1>0, <1>1, <2>1 DEF PassesAllowed
  <2>3. pass \in PassNames => ~Refused(setup)
    BY <1>0 DEF PassNames
  <2>4. \A x \in pinged' : x[2] \in Chosen /\ ~Refused(setup)
    BY <1>0, <1>1, <2>3
  <2>5. AskedByPasses'
    BY <2>1, <2>4 DEF AskedByPasses
  <2> QED
    BY <2>2, <2>5
<1>2. ASSUME ~Refused(setup), pinged' \subseteq pinged,
             NEW i \in 0 .. 4, NEW soFar, Enter(NextPass(i), soFar)
      PROVE  PassesAllowed' /\ AskedByPasses'
  <2>1. setup' = setup /\ pass' \in Chosen \cup {"sleep", "exit"} /\ (pass' \notin PassNames => todo' = {})
    BY <1>2, Entering
  <2>2. Chosen' = Chosen /\ Refused(setup)' = Refused(setup)
    BY <2>1, ChosenSame
  <2>3. pass' \in PassNames => pass' \in Chosen
    BY <2>1 DEF PassNames
  <2> QED
    BY <1>0, <1>2, <2>1, <2>2, <2>3 DEF PassesAllowed, AskedByPasses
<1>3. CASE Start
  <2>1. pinged' = pinged /\ pass \notin PassNames
    BY <1>3 DEF Start, PassNames
  <2>2. CASE pass' = "exit" /\ UNCHANGED <<todo, seed, aborted>> /\ Unchanged
    <3>1. setup' = setup /\ todo' = todo
      BY <2>2 DEF Unchanged
    <3>2. Chosen' = Chosen /\ Refused(setup)' = Refused(setup)
      BY <3>1, ChosenSame
    <3> QED
      BY <1>0, <2>1, <2>2, <3>1, <3>2 DEF PassesAllowed, AskedByPasses, PassNames
  <2>3. CASE ~Refused(setup) /\ Enter(NextPass(0), {})
    BY <1>2, <2>1, <2>3
  <2> QED
    BY <1>3, <2>2, <2>3 DEF Start
<1>4. CASE WakeUp
  <2>1. ~Refused(setup) /\ pinged' \subseteq pinged /\ Enter(NextPass(0), {})
    BY <1>0, <1>4 DEF WakeUp
  <2> QED
    BY <1>2, <2>1
<1>5. CASE EndPass
  <2>1. PICK i \in 1 .. 4 : Enter(NextPass(i), aborted)
    BY <1>5, Ending
  <2>2. i \in 0 .. 4
    OBVIOUS
  <2>3. ~Refused(setup) /\ pinged' \subseteq pinged
    BY <1>0, <1>5 DEF EndPass
  <2> QED
    BY <1>2, <2>1, <2>2, <2>3
<1>6. CASE ResolveFails
  <2>1. ~Refused(setup) /\ pinged' \subseteq pinged /\ Enter(NextPass(2), aborted \cup {"domains"})
    BY <1>0, <1>6 DEF ResolveFails
  <2> QED
    BY <1>2, <2>1
<1>12. CASE MasscanFails
  <2>1. ~Refused(setup) /\ pinged' \subseteq pinged /\ Enter(NextPass(1), aborted \cup {"masscan"})
    BY <1>0, <1>12 DEF MasscanFails
  <2> QED
    BY <1>2, <2>1
<1>7. ASSUME NEW x \in todo, Spawn(x)
      PROVE  PassesAllowed' /\ AskedByPasses'
  <2>1. pass \in PassNames
    BY <1>0
  <2>2. setup' = setup /\ pass' = pass /\ pinged' = pinged \cup {<<x.host, pass>>}
    BY <1>7 DEF Spawn, Unchanged
  <2> QED
    BY <1>1, <2>1, <2>2
<1>8. ASSUME NEW hosts \in SUBSET SeedHosts, Resolve(hosts)
      PROVE  PassesAllowed' /\ AskedByPasses'
  <2>1. setup' = setup /\ pass' = pass /\ pass \in PassNames /\ pinged' = pinged
    BY <1>8 DEF Resolve, Unchanged, histVars, PassNames
  <2> QED
    BY <1>1, <2>1
<1>9. ASSUME NEW t \in tasks, Answer(t) \/ \E q \in t.left : Save(t, q)
      PROVE  PassesAllowed' /\ AskedByPasses'
  <2>1. setup' = setup /\ pass' = pass /\ todo' = todo /\ pinged' = pinged
    BY <1>9 DEF Answer, Save, Unchanged, histVars
  <2> QED
    BY <1>1, <2>1
<1>10. ASSUME NEW t \in tasks, PingFails(t) \/ SaveFails(t)
       PROVE  PassesAllowed' /\ AskedByPasses'
  <2>1. setup' = setup /\ pass' = pass /\ todo' \subseteq todo /\ pinged' = pinged
    BY <1>10 DEF PingFails, SaveFails, TaskFails, Unchanged
  <2> QED
    BY <1>1, <2>1
<1>11. CASE (\E h \in Hosts : Change(h)) \/ LoseStore \/ UNCHANGED vars
  <2>1. setup' = setup /\ pass' = pass /\ todo' = todo /\ pinged' = pinged
    BY <1>11 DEF Change, LoseStore, vars, progVars, histVars
  <2> QED
    BY <1>1, <2>1
<1> QED
  BY <1>3, <1>4, <1>5, <1>6, <1>7, <1>8, <1>9, <1>10, <1>11, <1>12 DEF Next, PassStep, TaskStep

\* Every pass whose targets are not the user's own needs consent.
LEMMA AskedWithConsent ==
  ASSUME PassesInv
  PROVE  ConsentAccounted
<1> SUFFICES ASSUME ~setup.understood, NEW x \in pinged
             PROVE  x[2] \in {"domains", "rescan"}
  BY DEF ConsentAccounted
<1>1. x[2] \in Chosen /\ ~Refused(setup)
  BY DEF PassesInv, AskedByPasses
<1>2. ~setup.masscan /\ setup.cidrs = "none" /\ setup.mode \notin {"scanner", "cidr"}
  BY <1>1 DEF Refused, NeedsUnderstanding
<1>3. ~Configured("masscan") /\ ~Configured("cidr")
  BY <1>2 DEF Configured
<1> QED
  BY <1>1, <1>3 DEF Chosen, PassNames

-----------------------------------------------------------------------------
(* What the passes have asked.                                             *)

LEMMA CoveredKept ==
  ASSUME PassesInv, [Next]_vars
  PROVE  Covered'
<1>0. SeekerTypes /\ PassesAllowed /\ Covered /\ Permitted
  BY DEF PassesInv
<1>1. ASSUME setup' = setup, pass' = pass, todo' = todo, seed' = seed,
             aborted' = aborted, pinged' = pinged
      PROVE  Covered'
  <2>1. Chosen' = Chosen
    BY <1>1, ChosenSame
  <2> QED
    BY <1>0, <1>1, <2>1 DEF Covered
\* A cycle starts with the first pass that is configured.
<1>2. ASSUME NEW soFar, Enter(NextPass(0), soFar)
      PROVE  Covered'
  <2>1. /\ setup' = setup
        /\ "masscan" \in Chosen => pass' = "masscan"
        /\ "domains" \in Chosen => pass' \in {"masscan", "domains"}
        /\ "cidr" \in Chosen => pass' \in {"masscan", "domains", "cidr"}
        /\ pass' = "masscan" => \A h \in MassHosts : [host |-> h, named |-> FALSE] \in todo'
        /\ pass' = "cidr" /\ setup.cidrs = "good" =>
             \A h \in CidrHosts : [host |-> h, named |-> FALSE] \in todo'
        /\ seed' = 0
    BY <1>2, Entering
  <2>2. Chosen' = Chosen
    BY <2>1, ChosenSame
  <2> QED
    BY <2>1, <2>2 DEF Covered
<1>3. CASE Start \/ WakeUp
  <2>1. CASE Enter(NextPass(0), {})
    BY <1>2, <2>1
  <2>2. CASE pass' = "exit"
    BY <2>2 DEF Covered
  <2> QED
    BY <1>3, <2>1, <2>2 DEF Start, WakeUp
\* The pass that ends has asked all of its targets.
<1>4. CASE EndPass
  <2>1. PICK i \in 1 .. 4 : /\ Enter(NextPass(i), aborted)
                            /\ i = 1 => pass = "masscan"
                            /\ i = 2 => pass = "domains"
                            /\ i = 3 => pass = "cidr"
                            /\ i = 4 => pass = "rescan"
    BY <1>4, Ending
  <2>2. pinged' = pinged /\ todo = {} /\ (pass = "domains" => seed = setup.seeds)
    BY <1>4 DEF EndPass
  <2>4. i \in 0 .. 4
    OBVIOUS
  <2>5. /\ setup' = setup /\ \A p \in aborted : p \in aborted'
        /\ i <= 1 /\ "domains" \in Chosen => pass' \in {"masscan", "domains"}
        /\ i <= 2 /\ "cidr" \in Chosen => pass' \in {"masscan", "domains", "cidr"}
        /\ i >= 1 => pass' # "masscan"
        /\ i >= 2 => pass' # "domains"
        /\ i >= 3 => pass' # "cidr"
        /\ pass' = "cidr" /\ setup.cidrs = "good" =>
             \A h \in CidrHosts : [host |-> h, named |-> FALSE] \in todo'
        /\ seed' = 0
    BY <2>1, <2>4, Entering
  <2>3. Chosen' = Chosen
    BY <2>5, ChosenSame
  <2>6. i = 1 \/ i = 2 \/ i = 3 \/ i = 4
    OBVIOUS
  <2>7. pass = "domains" /\ "domains" \in Chosen => seed > 0
    BY <1>0, <2>2, SetupFacts DEF SeekerTypes, Chosen, Configured
  <2>8. pass' # "masscan" /\ pass \in {"masscan", "domains", "cidr", "rescan"}
    BY <2>1, <2>5, <2>6
  <2>9. "masscan" \notin aborted' /\ "masscan" \in Chosen' => \A h \in MassHosts : <<h, "masscan">> \in pinged'
    BY <1>0, <2>2, <2>3, <2>5, <2>8 DEF Covered
  <2>10. "domains" \notin aborted' /\ pass' \in {"cidr", "rescan", "sleep"} /\ "domains" \in Chosen' =>
            \E h \in SeedHosts : <<h, "domains">> \in pinged'
    <3> SUFFICES ASSUME "domains" \notin aborted, pass' \in {"cidr", "rescan", "sleep"}, "domains" \in Chosen
                 PROVE  \E h \in SeedHosts : <<h, "domains">> \in pinged
      BY <2>2, <2>3, <2>5
    <3>1. i # 1
      BY <2>5
    <3>2. pass \in {"domains", "cidr", "rescan"}
      BY <2>1, <2>6, <3>1
    <3>3. pass = "domains" => \E h \in SeedHosts : <<h, "domains">> \in pinged \/ \E x \in todo : x.host = h
      BY <1>0, <2>7 DEF Covered
    <3>4. pass \in {"cidr", "rescan"} => \E h \in SeedHosts : <<h, "domains">> \in pinged
      BY <1>0 DEF Covered
    <3> QED
      BY <2>2, <3>2, <3>3, <3>4
  <2>11. setup'.cidrs = "good" /\ pass' \in {"rescan", "sleep"} /\ "cidr" \in Chosen' =>
            \A h \in CidrHosts : <<h, "cidr">> \in pinged'
    <3> SUFFICES ASSUME setup.cidrs = "good", pass' \in {"rescan", "sleep"}, "cidr" \in Chosen
                 PROVE  \A h \in CidrHosts : <<h, "cidr">> \in pinged
      BY <2>2, <2>3, <2>5
    <3>1. i # 1 /\ i # 2
      BY <2>5
    <3>2. pass \in {"cidr", "rescan"}
      BY <2>1, <2>6, <3>1
    <3> QED
      BY <1>0, <2>2, <3>2 DEF Covered
  <2> QED
    BY <2>5, <2>8, <2>9, <2>10, <2>11 DEF Covered
<1>5. CASE ResolveFails
  <2>1. pinged' = pinged /\ Enter(NextPass(2), aborted \cup {"domains"}) /\ pass = "domains"
    BY <1>5 DEF ResolveFails
  <2>2. /\ setup' = setup /\ \A p \in aborted \cup {"domains"} : p \in aborted'
        /\ "cidr" \in Chosen => pass' \in {"masscan", "domains", "cidr"}
        /\ pass' # "masscan" /\ pass' # "domains"
        /\ pass' = "cidr" /\ setup.cidrs = "good" =>
             \A h \in CidrHosts : [host |-> h, named |-> FALSE] \in todo'
    BY <2>1, Entering
  <2>3. Chosen' = Chosen
    BY <2>2, ChosenSame
  <2>4. "domains" \in aborted' /\ ("masscan" \notin aborted' => "masscan" \notin aborted)
    BY <2>2
  <2> QED
    BY <1>0, <2>1, <2>2, <2>3, <2>4 DEF Covered
<1>11. CASE MasscanFails
  <2>1. pinged' = pinged /\ Enter(NextPass(1), aborted \cup {"masscan"})
    BY <1>11 DEF MasscanFails
  <2>2. /\ setup' = setup /\ \A p \in aborted \cup {"masscan"} : p \in aborted'
        /\ "domains" \in Chosen => pass' \in {"masscan", "domains"}
        /\ "cidr" \in Chosen => pass' \in {"masscan", "domains", "cidr"}
        /\ pass' # "masscan"
        /\ pass' = "cidr" /\ setup.cidrs = "good" =>
             \A h \in CidrHosts : [host |-> h, named |-> FALSE] \in todo'
        /\ seed' = 0
    BY <2>1, Entering
  <2>3. Chosen' = Chosen
    BY <2>2, ChosenSame
  <2>4. "masscan" \in aborted'
    BY <2>2
  <2> QED
    BY <2>2, <2>3, <2>4 DEF Covered
<1>6. ASSUME NEW x \in todo, Spawn(x)
      PROVE  Covered'
  <2>1. /\ setup' = setup /\ pass' = pass /\ seed' = seed /\ aborted' = aborted
        /\ pinged' = pinged \cup {<<x.host, pass>>} /\ todo' = todo \ {x}
    BY <1>6 DEF Spawn, Unchanged
  <2>2. Chosen' = Chosen
    BY <2>1, ChosenSame
  <2>3. \A h : [host |-> h, named |-> FALSE] \in todo =>
                 <<h, pass>> \in pinged' \/ [host |-> h, named |-> FALSE] \in todo'
    BY <2>1
  <2>4. \A h : (\E y \in todo : y.host = h) =>
                 <<h, pass>> \in pinged' \/ \E y \in todo' : y.host = h
    BY <2>1
  <2>5. pinged \subseteq pinged'
    BY <2>1
  <2> HIDE <1>6
  <2>6. "masscan" \notin aborted' /\ pass' = "masscan" =>
          \A h \in MassHosts : <<h, "masscan">> \in pinged' \/ [host |-> h, named |-> FALSE] \in todo'
    BY <1>0, <2>1, <2>3, <2>5 DEF Covered
  <2>7. "masscan" \notin aborted' /\ pass' \in {"domains", "cidr", "rescan", "sleep"} /\ "masscan" \in Chosen' =>
            \A h \in MassHosts : <<h, "masscan">> \in pinged'
    BY <1>0, <2>1, <2>2, <2>5 DEF Covered
  <2>8. "domains" \notin aborted' /\ pass' = "domains" /\ seed' > 0 =>
            \E h \in SeedHosts : <<h, "domains">> \in pinged' \/ \E y \in todo' : y.host = h
    BY <1>0, <2>1, <2>4, <2>5 DEF Covered
  <2>9. "domains" \notin aborted' /\ pass' \in {"cidr", "rescan", "sleep"} /\ "domains" \in Chosen' =>
            \E h \in SeedHosts : <<h, "domains">> \in pinged'
    BY <1>0, <2>1, <2>2, <2>5 DEF Covered
  <2>10. setup'.cidrs = "good" /\ pass' = "cidr" =>
          \A h \in CidrHosts : <<h, "cidr">> \in pinged' \/ [host |-> h, named |-> FALSE] \in todo'
    BY <1>0, <2>1, <2>3, <2>5 DEF Covered
  <2>11. setup'.cidrs = "good" /\ pass' \in {"rescan", "sleep"} /\ "cidr" \in Chosen' =>
           \A h \in CidrHosts : <<h, "cidr">> \in pinged'
    BY <1>0, <2>1, <2>2, <2>5 DEF Covered
  <2> QED
    BY <2>6, <2>7, <2>8, <2>9, <2>10, <2>11 DEF Covered
<1>7. ASSUME NEW hosts \in SUBSET SeedHosts, hosts # {}, Resolve(hosts)
      PROVE  Covered'
  <2>1. /\ setup' = setup /\ pass' = pass /\ aborted' = aborted /\ pinged' = pinged
        /\ pass = "domains" /\ todo' = Queue(hosts, TRUE)
    BY <1>7 DEF Resolve, Unchanged, histVars
  <2>2. Chosen' = Chosen
    BY <2>1, ChosenSame
  <2>3. PICK h \in hosts : TRUE
    BY <1>7
  <2>4. [host |-> h, named |-> TRUE] \in todo'
    BY <2>1 DEF Queue
  <2>5. \E g \in SeedHosts : \E x \in todo' : x.host = g
    BY <2>4
  <2> QED
    BY <1>0, <2>1, <2>2, <2>5 DEF Covered
<1>8. ASSUME NEW t \in tasks, Answer(t) \/ \E q \in t.left : Save(t, q)
      PROVE  Covered'
  BY <1>1, <1>8 DEF Answer, Save, Unchanged, histVars
\* Only a hit that does not answer cuts a pass short.
<1>9. ASSUME NEW t \in tasks, PingFails(t) \/ SaveFails(t)
      PROVE  Covered'
  <2>1. /\ setup' = setup /\ pass' = pass /\ seed' = seed /\ pinged' = pinged
        /\ t.pass # "masscan" => todo' = todo /\ aborted' = aborted
        /\ t.pass = "masscan" => todo' = {} /\ aborted' = aborted \cup {"masscan"}
    BY <1>9 DEF PingFails, SaveFails, TaskFails
  <2>2. CASE t.pass # "masscan"
    BY <1>1, <2>1, <2>2
  <2>3. CASE t.pass = "masscan"
    <3>1. pass = "masscan"
      BY <1>0, <2>3 DEF Permitted, PermitsOf, Known
    <3> QED
      BY <2>1, <2>3, <3>1 DEF Covered
  <2> QED
    BY <2>2, <2>3
<1>10. CASE (\E h \in Hosts : Change(h)) \/ LoseStore \/ UNCHANGED vars
  BY <1>1, <1>10 DEF Change, LoseStore, vars, progVars, histVars
<1> QED
  BY <1>3, <1>4, <1>5, <1>6, <1>7, <1>8, <1>9, <1>10, <1>11 DEF Next, PassStep, TaskStep

-----------------------------------------------------------------------------
(* The permits.                                                            *)

\* A set of tasks when one of them ends or goes on as r.
LEMMA Replaced ==
  ASSUME NEW A, IsFiniteSet(A), NEW t \in A, NEW r, NEW B, B \subseteq (A \ {t}) \cup {r}
  PROVE  IsFiniteSet(B) /\ Cardinality(B) <= Cardinality(A)
<1> DEFINE C == A \ {t}
           D == C \cup {r}
<1>1. IsFiniteSet(C) /\ Cardinality(C) = Cardinality(A) - 1
  BY FS_RemoveElement
<1>2. Cardinality(A) \in Nat
  BY FS_CardinalityType
<1> HIDE DEF C
<1>3. /\ IsFiniteSet(D)
      /\ Cardinality(D) = IF r \in C THEN Cardinality(C) ELSE Cardinality(C) + 1
  BY <1>1, FS_AddElement
<1>4. B \in SUBSET D
  BY DEF C
<1> HIDE DEF D
<1>5. IsFiniteSet(B) /\ Cardinality(B) <= Cardinality(D)
  BY <1>3, <1>4, FS_Subset
<1>6. Cardinality(B) \in Nat
  BY <1>5, FS_CardinalityType
<1> QED
  BY <1>1, <1>2, <1>3, <1>5, <1>6

LEMMA PermittedFacts ==
  ASSUME PassesInv
  PROVE  /\ Concurrency \in Nat \ {0} /\ lookups \in Nat
         /\ IsFiniteSet(tasks) /\ tasks \in SUBSET Task
         /\ \A k : IsFiniteSet(Group(tasks, k)) /\ Cardinality(Group(tasks, k)) \in Nat
         /\ \A k \in 0 .. lookups : Cardinality(Group(tasks, k)) <= Concurrency
         /\ \A t \in tasks : Known(t, lookups, pass)
         /\ Own = Group(tasks, 0)
<1>1. /\ IsFiniteSet(tasks) /\ tasks \in SUBSET Task /\ lookups \in Nat
      /\ PermitsOf(tasks, lookups, pass)
  BY DEF PassesInv, SeekerTypes, Permitted
<1>2. ASSUME NEW k
      PROVE  IsFiniteSet(Group(tasks, k)) /\ Cardinality(Group(tasks, k)) \in Nat
  <2>1. Group(tasks, k) \in SUBSET tasks
    BY DEF Group
  <2> QED
    BY <1>1, <2>1, FS_Subset, FS_CardinalityType
<1> QED
  <2>1. Own = Group(tasks, 0)
    BY DEF Group, Own
  <2> QED
    BY <1>1, <1>2, <2>1, SeekerAssumption DEF PermitsOf

\* Permitted in the next state, group by group.
LEMMA PermittedNext ==
  ASSUME \A k \in 0 .. lookups' : Cardinality(Group(tasks', k)) <= Concurrency,
         \A t \in tasks' : Known(t, lookups', pass')
  PROVE  Permitted'
BY DEF Permitted, PermitsOf, Group, Known

\* A task that ends or goes on gives no other a permit.
LEMMA TaskPermitted ==
  ASSUME PassesInv, NEW t \in tasks,
         NEW R, R = {} \/ \E r : R = {r} /\ r.pass = t.pass /\ r.stray = t.stray,
         tasks' = (tasks \ {t}) \cup R, pass' = pass, lookups' = lookups
  PROVE  Permitted'
<1>1. PICK r : R \subseteq {r} /\ r.pass = t.pass /\ r.stray = t.stray
  <2>1. CASE R = {}
    BY <2>1
  <2>2. CASE R # {}
    BY <2>2
  <2> QED
    BY <2>1, <2>2
<1>2. \A u \in tasks' : Known(u, lookups, pass)
  BY <1>1, PermittedFacts DEF Known
<1>3. ASSUME NEW k \in 0 .. lookups
      PROVE  Cardinality(Group(tasks', k)) <= Concurrency
  <2> DEFINE A == Group(tasks, k)
             B == Group(tasks', k)
  <2>1. /\ IsFiniteSet(A) /\ Cardinality(A) \in Nat /\ Cardinality(A) <= Concurrency
        /\ Concurrency \in Nat
    BY PermittedFacts
  <2>2. t.stray = k => t \in A /\ B \subseteq (A \ {t}) \cup {r}
    BY <1>1 DEF Group
  <2>3. t.stray # k => B = A
    BY <1>1 DEF Group
  <2> HIDE DEF A, B
  <2>4. CASE t.stray = k
    <3>1. IsFiniteSet(B) /\ Cardinality(B) <= Cardinality(A)
      BY <2>1, <2>2, <2>4, Replaced
    <3>2. Cardinality(B) \in Nat
      BY <3>1, FS_CardinalityType
    <3>3. Cardinality(B) <= Concurrency
      BY <2>1, <3>1, <3>2
    <3> QED
      BY <3>3 DEF B
  <2>5. CASE t.stray # k
    BY <2>1, <2>3, <2>5 DEF B
  <2> QED
    BY <2>4, <2>5
<1>4. /\ \A k \in 0 .. lookups' : Cardinality(Group(tasks', k)) <= Concurrency
      /\ \A u \in tasks' : Known(u, lookups', pass')
  BY <1>2, <1>3
<1> QED
  BY <1>4, PermittedNext

\* A pass is entered when only strays are left.
LEMMA EnteredPermitted ==
  ASSUME PassesInv, tasks' = tasks, lookups' = lookups, Own = {}
  PROVE  Permitted'
<1>1. \A t \in tasks : t.stray \in 1 .. lookups /\ t.pass = "domains"
  BY PermittedFacts DEF Own, Known
<1>2. /\ \A k \in 0 .. lookups' : Cardinality(Group(tasks', k)) <= Concurrency
      /\ \A t \in tasks' : Known(t, lookups', pass')
  BY <1>1, PermittedFacts DEF Known
<1> QED
  BY <1>2, PermittedNext

\* The lookups in flight become strays, of a number of their own.
LEMMA StraysPermitted ==
  ASSUME PassesInv, ResolveFails
  PROVE  Permitted'
<1> DEFINE n == lookups + 1
           G == [t \in tasks |-> [t EXCEPT !.stray = IF @ = 0 THEN n ELSE @]]
<1>1. pass = "domains" /\ lookups' = n /\ tasks' = {G[t] : t \in tasks}
  BY DEF ResolveFails
<1>2. /\ lookups \in Nat /\ tasks \in SUBSET Task
      /\ \A t \in tasks : (t.stray \in 1 .. lookups \/ t.stray = 0) /\ t.pass = "domains"
  BY <1>1, PermittedFacts DEF Known
<1>3. \A t \in tasks : /\ G[t].pass = "domains"
                       /\ G[t].stray = IF t.stray = 0 THEN n ELSE t.stray
                       /\ t.stray # 0 => G[t] = t
  BY <1>2 DEF Task
<1>4. n \in Nat /\ n # 0 /\ \A k \in 0 .. n : k = 0 \/ k = n \/ k \in 1 .. lookups
  BY <1>2
<1>5. \A t \in tasks : G[t].stray \in 1 .. n
  BY <1>2, <1>3
<1> HIDE DEF n, G
<1>6. Cardinality(Group(tasks', 0)) <= Concurrency
  <2>1. \A t \in tasks : G[t].stray # 0
    BY <1>4, <1>5
  <2>2. Group(tasks', 0) = {}
    BY <1>1, <2>1 DEF Group
  <2> QED
    BY <2>2, FS_EmptySet, PermittedFacts
<1>7. ASSUME NEW k \in 1 .. lookups
      PROVE  Cardinality(Group(tasks', k)) <= Concurrency
  <2>1. k # 0 /\ k # n /\ k \in 0 .. lookups
    BY <1>2 DEF n
  <2>2. \A t \in tasks : G[t].stray = k <=> t.stray = k
    BY <1>3, <2>1
  <2>3. \A t \in tasks : t.stray = k => G[t] = t
    BY <1>3, <2>1
  <2>4. Group(tasks', k) = Group(tasks, k)
    BY <1>1, <2>2, <2>3 DEF Group
  <2> QED
    BY <2>1, <2>4, PermittedFacts
<1>8. Cardinality(Group(tasks', n)) <= Concurrency
  <2> DEFINE A == Group(tasks, 0)
             B == Group(tasks', n)
             f == [t \in A |-> G[t]]
  <2>1. \A t \in tasks : t.stray # n
    BY <1>2 DEF n
  <2>2. \A t \in tasks : t.stray = 0 <=> G[t].stray = n
    <3> TAKE t \in tasks
    <3>1. t.stray # n /\ G[t].stray = IF t.stray = 0 THEN n ELSE t.stray
      BY <1>3, <2>1
    <3> QED
      BY <3>1
  <2>3. B = {G[t] : t \in A}
    BY <1>1, <2>2 DEF Group
  <2>4. f \in Surjection(A, B)
    BY <2>3 DEF Surjection
  <2>5. /\ IsFiniteSet(A) /\ Cardinality(A) \in Nat /\ Cardinality(A) <= Concurrency
        /\ Concurrency \in Nat
    <3>1. 0 \in 0 .. lookups
      BY <1>2
    <3> QED
      BY <3>1, PermittedFacts
  <2> HIDE DEF A, B, f
  <2>6. IsFiniteSet(B) /\ Cardinality(B) <= Cardinality(A)
    BY <2>4, <2>5, FS_Surjection
  <2>7. Cardinality(B) \in Nat
    BY <2>6, FS_CardinalityType
  <2>8. Cardinality(B) <= Concurrency
    BY <2>5, <2>6, <2>7
  <2> QED
    BY <2>8 DEF B
<1>9. \A k \in 0 .. lookups' : Cardinality(Group(tasks', k)) <= Concurrency
  BY <1>1, <1>4, <1>6, <1>7, <1>8
<1>10. \A t \in tasks' : t.stray \in 1 .. lookups' /\ t.pass = "domains"
  BY <1>1, <1>3, <1>5
<1> QED
  BY <1>9, <1>10, PermittedNext DEF Known

LEMMA PermittedKept ==
  ASSUME PassesInv, [Next]_vars
  PROVE  Permitted'
<1>0. SeekerTypes /\ PassesAllowed /\ Permitted
  BY DEF PassesInv
<1>1. ASSUME tasks' = tasks, pass' = pass, lookups' = lookups
      PROVE  Permitted'
  BY <1>0, <1>1 DEF Permitted, PermitsOf, Group
\* Before the first pass and between two cycles nobody but strays is asked.
<1>2. CASE Start \/ WakeUp
  <2>1. tasks' = tasks /\ lookups' = lookups /\ pass \in {"start", "sleep"}
    BY <1>2 DEF Start, WakeUp
  <2>2. \A t \in tasks : t.stray # 0
    BY <1>0, <2>1, PermittedFacts DEF Task, PassNames, Known
  <2> QED
    BY <2>1, <2>2, EnteredPermitted DEF Own
<1>3. CASE EndPass \/ MasscanFails
  BY <1>3, EnteredPermitted DEF EndPass, MasscanFails
<1>4. CASE ResolveFails
  BY <1>4, StraysPermitted
<1>5. ASSUME NEW x \in todo, Spawn(x)
      PROVE  Permitted'
  <2> DEFINE t == [pass |-> pass, host |-> x.host, named |-> x.named, seed |-> seed,
                   stray |-> 0, left |-> Asking]
  <2>1. /\ tasks' = tasks \cup {t} /\ pass' = pass /\ lookups' = lookups
        /\ Cardinality(Own) < IF pass = "masscan" THEN 1 ELSE Concurrency
    BY <1>5 DEF Spawn, Permit
  <2>2. t.pass = pass /\ t.stray = 0
    OBVIOUS
  <2> HIDE DEF t
  <2>3. /\ Own = Group(tasks, 0) /\ Group(tasks', 0) = Own \cup {t}
        /\ \A k \in 1 .. lookups : Group(tasks', k) = Group(tasks, k)
    BY <2>1, <2>2, PermittedFacts DEF Group
  <2>4. Cardinality(Group(tasks', 0)) <= Concurrency
    <3>1. IsFiniteSet(Own) /\ Cardinality(Own) \in Nat /\ Concurrency \in Nat \ {0}
      BY <2>3, PermittedFacts
    <3>2. Cardinality(Own \cup {t}) = IF t \in Own THEN Cardinality(Own) ELSE Cardinality(Own) + 1
      BY <3>1, FS_AddElement
    <3> QED
      BY <2>1, <2>3, <3>1, <3>2
  <2>5. lookups \in Nat /\ \A k \in 0 .. lookups : k = 0 \/ k \in 1 .. lookups
    BY PermittedFacts
  <2>6. \A k \in 0 .. lookups' : Cardinality(Group(tasks', k)) <= Concurrency
    BY <2>1, <2>3, <2>4, <2>5, PermittedFacts
  <2>7. \A u \in tasks' : Known(u, lookups', pass')
    BY <2>1, <2>2, PermittedFacts DEF Known
  <2> QED
    BY <2>6, <2>7, PermittedNext
<1>6. ASSUME NEW hosts \in SUBSET SeedHosts, Resolve(hosts)
      PROVE  Permitted'
  BY <1>1, <1>6 DEF Resolve, histVars
<1>7. ASSUME NEW t \in tasks, Answer(t) \/ \E q \in t.left : Save(t, q)
      PROVE  Permitted'
  <2>1. PICK Q : \E T \in {{}, {[t EXCEPT !.left = Q]}} : tasks' = (tasks \ {t}) \cup T
    BY <1>0, <1>7, Answered, Saved
  <2>2. PICK T \in {{}, {[t EXCEPT !.left = Q]}} : tasks' = (tasks \ {t}) \cup T
    BY <2>1
  <2>3. [t EXCEPT !.left = Q].pass = t.pass /\ [t EXCEPT !.left = Q].stray = t.stray
    BY <1>0 DEF SeekerTypes, Task
  <2>4. T = {} \/ \E r : T = {r} /\ r.pass = t.pass /\ r.stray = t.stray
    BY <2>3
  <2>5. pass' = pass /\ lookups' = lookups
    BY <1>7 DEF Answer, Save, histVars
  <2> QED
    BY <2>2, <2>4, <2>5, TaskPermitted
<1>8. ASSUME NEW t \in tasks, PingFails(t) \/ SaveFails(t)
      PROVE  Permitted'
  <2>1. tasks' = (tasks \ {t}) \cup {} /\ pass' = pass /\ lookups' = lookups
    BY <1>8 DEF PingFails, SaveFails, TaskFails
  <2> QED
    BY <2>1, TaskPermitted
<1>9. CASE (\E h \in Hosts : Change(h)) \/ LoseStore \/ UNCHANGED vars
  BY <1>1, <1>9 DEF Change, LoseStore, vars, progVars, histVars
<1> QED
  BY <1>2, <1>3, <1>4, <1>5, <1>6, <1>7, <1>8, <1>9 DEF Next, PassStep, TaskStep

-----------------------------------------------------------------------------
(* The start.                                                              *)

\* What an earlier run has stored, in both stores.
LEMMA EarlierIs ==
  ASSUME Init, NEW pairs \in Earlier
  PROVE  \E Q \in SUBSET Queries :
           /\ IsFiniteSet(Q) /\ pairs \subseteq Before \X Q
           /\ setup.store = "postgres" => \A x, y \in pairs : x[1] = y[1] => x = y
<1> DEFINE Q == IF setup.queries = {} THEN {AnyQuery} ELSE setup.queries
<1>1. setup \in Setups
  BY DEF Init
<1>2. Q \in SUBSET Queries /\ IsFiniteSet(Q)
  BY <1>1, SetupFacts, FS_Singleton DEF Queries
<1>3. pairs \in IF setup.store = "sqlite" THEN {Before \X Q}
                ELSE {{<<h, last[h]>> : h \in Before} : last \in [Before -> Q]}
  BY DEF Earlier
<1> HIDE DEF Q
<1>4. CASE setup.store = "sqlite"
  BY <1>2, <1>3, <1>4
<1>5. CASE setup.store # "sqlite"
  <2>1. PICK last \in [Before -> Q] : pairs = {<<h, last[h]>> : h \in Before}
    BY <1>3, <1>5
  <2>2. pairs \subseteq Before \X Q
    BY <2>1
  <2>3. \A x, y \in pairs : x[1] = y[1] => x = y
    BY <2>1
  <2> QED
    BY <1>2, <2>2, <2>3
<1> QED
  BY <1>4, <1>5

LEMMA InitRight == Init => RowsInv /\ PassesInv
<1> SUFFICES ASSUME Init PROVE RowsInv /\ PassesInv
  OBVIOUS
<1>1. PICK pairs \in Earlier :
        rows \in SetToSeqs({[host |-> x[1], query |-> x[2], named |-> FALSE] : x \in pairs})
  BY DEF Init
<1>2. PICK Q \in SUBSET Queries :
        /\ IsFiniteSet(Q) /\ pairs \subseteq Before \X Q
        /\ setup.store = "postgres" => \A x, y \in pairs : x[1] = y[1] => x = y
  BY EarlierIs
<1> DEFINE R == {[host |-> x[1], query |-> x[2], named |-> FALSE] : x \in pairs}
           f == [x \in pairs |-> [host |-> x[1], query |-> x[2], named |-> FALSE]]
<1>3. IsFiniteSet(pairs)
  <2>1. IsFiniteSet(Before)
    BY SeekerAssumption, FS_Subset
  <2> QED
    BY <1>2, <2>1, FS_Product, FS_Subset
<1>4. f \in Surjection(pairs, R)
  BY DEF Surjection
<1>5. IsFiniteSet(R)
  BY <1>3, <1>4, FS_Surjection
<1>6. R \subseteq Row
  <2>1. Before \subseteq Hosts
    BY SeekerAssumption
  <2>2. \A x \in pairs : [host |-> x[1], query |-> x[2], named |-> FALSE] \in Row
    BY <1>2, <2>1 DEF Row
  <2> QED
    BY <2>2
<1>7. /\ rows \in [1 .. Cardinality(R) -> R] /\ Cardinality(R) \in Nat
      /\ \A i, j \in 1 .. Cardinality(R) : i # j => rows[i] # rows[j]
  BY <1>1, <1>5, FS_CardinalityType DEF SetToSeqs
<1>8. rows \in Seq(Row) /\ Len(rows) = Cardinality(R)
  BY <1>6, <1>7
<1>9. \A r, s \in R : /\ r.host = s.host /\ r.query = s.query => r = s
                      /\ setup.store = "postgres" /\ r.host = s.host => r = s
  <2> TAKE r, s \in R
  <2>1. PICK x \in pairs : r = [host |-> x[1], query |-> x[2], named |-> FALSE]
    OBVIOUS
  <2>2. PICK y \in pairs : s = [host |-> y[1], query |-> y[2], named |-> FALSE]
    OBVIOUS
  <2> QED
    BY <1>2, <2>1, <2>2
<1> HIDE DEF R
<1>10. \A i, j \in 1 .. Len(rows) :
         /\ rows[i].host = rows[j].host /\ rows[i].query = rows[j].query => i = j
         /\ setup.store = "postgres" /\ rows[i].host = rows[j].host => i = j
  BY <1>7, <1>8, <1>9
<1>11. SeekerTypes
  BY <1>8, FS_EmptySet DEF Init, SeekerTypes
<1>12. RowsInv
  BY <1>10, <1>11 DEF RowsInv, RowsAccounted, Init
<1>13. PassesAllowed /\ AskedByPasses /\ Covered
  BY DEF Init, PassesAllowed, AskedByPasses, Covered, PassNames
<1>14. Permitted
  BY FS_EmptySet, SeekerAssumption DEF Init, Permitted, PermitsOf, Group
<1> QED
  BY <1>11, <1>12, <1>13, <1>14 DEF PassesInv

-----------------------------------------------------------------------------
(* The theorems.                                                           *)

LEMMA PassesStep ==
  ASSUME PassesInv, [Next]_vars
  PROVE  PassesInv'
BY TypesKept, AllowedKept, CoveredKept, PermittedKept DEF PassesInv

\* Only a save changes the rows.
LEMMA RowsStep ==
  ASSUME PassesInv, RowsInv, [Next]_vars
  PROVE  RowsInv'
<1>1. SeekerTypes /\ SeekerTypes'
  BY TypesKept DEF PassesInv
<1>2. ASSUME rows' = rows, named' = named, setup' = setup
      PROVE  RowsInv'
  BY <1>1, <1>2 DEF RowsInv, RowsAccounted, Places
<1>3. ASSUME NEW t \in tasks, NEW q \in t.left, Save(t, q)
      PROVE  RowsInv'
  <2>1. t.host \in Hosts /\ t.named \in BOOLEAN /\ q \in Queries
    BY <1>1, <1>3, Saved
  <2>2. /\ rows' = Upserted(t.host, q, t.named)
        /\ named' = IF t.named THEN named \cup {t.host} ELSE named
        /\ setup' = setup
    BY <1>3 DEF Save, Unchanged
  <2>3. RowsOf(Upserted(t.host, q, t.named), IF t.named THEN named \cup {t.host} ELSE named)
    BY <2>1, UpsertedRight
  <2>4. RowsOf(rows, named)'
    BY <2>2, <2>3 DEF RowsOf
  <2> QED
    BY <1>1, <2>4, RowsAgree
<1>4. CASE Start \/ WakeUp \/ MasscanFails \/ EndPass \/ ResolveFails
  BY <1>2, <1>4 DEF Start, WakeUp, MasscanFails, EndPass, ResolveFails, Enter, Unchanged
<1>5. ASSUME NEW x \in todo, Spawn(x)
      PROVE  RowsInv'
  BY <1>2, <1>5 DEF Spawn, Unchanged
<1>6. ASSUME NEW hosts \in SUBSET SeedHosts, Resolve(hosts)
      PROVE  RowsInv'
  BY <1>2, <1>6 DEF Resolve, Unchanged, histVars
<1>7. ASSUME NEW t \in tasks, Answer(t) \/ PingFails(t) \/ SaveFails(t)
      PROVE  RowsInv'
  BY <1>2, <1>7 DEF Answer, PingFails, SaveFails, TaskFails, Unchanged, histVars
<1>8. CASE (\E h \in Hosts : Change(h)) \/ LoseStore \/ UNCHANGED vars
  BY <1>2, <1>8 DEF Change, LoseStore, vars, progVars, histVars
<1> QED
  BY <1>3, <1>4, <1>5, <1>6, <1>7, <1>8 DEF Next, PassStep, TaskStep

\* The inductive invariant of the passes: what may be under way, what has been
\* asked so far, and how many pings are in flight (main.rs, domains.rs,
\* masscan.rs, rescanner.rs).
THEOREM PassesInvariant == Spec => []PassesInv
<1>1. Init => PassesInv
  BY InitRight
<1>2. PassesInv /\ [Next]_vars => PassesInv'
  BY PassesStep
<1> QED
  BY <1>1, <1>2, PTL DEF Spec

\* What a pass does before it ends holds of the state between two cycles.
LEMMA PassesAccountedFor ==
  ASSUME PassesInv
  PROVE  PassesAccounted
<1>1. PassesAllowed /\ Covered /\ Permitted
  BY DEF PassesInv
<1>2. TargetsAsked
  <2>1. /\ Configured("masscan") => "masscan" \in Chosen
        /\ Configured("domains") => "domains" \in Chosen
        /\ Configured("cidr") => "cidr" \in Chosen
    BY DEF Chosen, PassNames
  <2> QED
    BY <1>1, <2>1 DEF TargetsAsked, Covered
<1>3. PermitsKept
  BY <1>1 DEF PermitsKept, Permitted, PermitsOf, Group, Known
<1> QED
  BY <1>2, <1>3 DEF PassesAccounted

\* Between two cycles of a watch every configured pass has asked all of its
\* targets, whatever failed in the others, unless masscan or a hit of it failed
\* (masscan.rs:29-69), a seed did not resolve (domains.rs:57) or the CIDRs are
\* bad (main.rs:406-409); and the pings in flight keep to the permits of the
\* pass, and those that a failed lookup left running to the permits of its own,
\* through any number of cycles (main.rs:263).
THEOREM PassesKept == Spec => []PassesAccounted
<1>1. PassesInv => PassesAccounted
  BY PassesAccountedFor
<1> QED
  BY <1>1, PassesInvariant, PTL

\* Without the user's consent no public address is asked but by the passes that
\* take the user's own seeds and what is stored already (validate_config,
\* needs_i_understand).
THEOREM ConsentKept == Spec => []ConsentAccounted
<1>1. PassesInv => ConsentAccounted
  BY AskedWithConsent
<1> QED
  BY <1>1, PassesInvariant, PTL

\* A save leaves one row for a host in Postgres, with the name that a seed gave
\* it, and in SQLite one for a host and a query (db.rs:44, 95, pg.rs:82-99).
THEOREM RowsKept == Spec => []RowsAccounted
<1>1. Init => RowsInv
  BY InitRight
<1>2. PassesInv /\ RowsInv /\ [Next]_vars => RowsInv'
  BY RowsStep
<1>3. RowsInv => RowsAccounted
  BY DEF RowsInv
<1> QED
  BY <1>1, <1>2, <1>3, PassesInvariant, PTL DEF Spec
=============================================================================
