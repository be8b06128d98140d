------------------------------- MODULE Seeker -------------------------------
(***************************************************************************)
(* tools/server-seeker: passes that ping addresses for Minecraft servers   *)
(* and store what answers (main.rs, domains.rs, masscan.rs, rescanner.rs). *)
(* A cycle of the watch mode is a masscan pass, whose hits are pinged one  *)
(* after the other, a domain pass, a CIDR pass and a rescan of what the    *)
(* store holds (db.rs, pg.rs); the other modes are one pass.  Every ping   *)
(* of the last three is a task that holds one of the pass's permits.       *)
(*                                                                         *)
(* last_seen is kept as the order of rows: a save puts its row last.  The  *)
(* rate limiter only delays a ping and is left out, and so is the order in *)
(* which the targets of a pass are asked.                                  *)
(***************************************************************************)
EXTENDS Integers, Sequences, FiniteSets, SequencesExt

CONSTANTS
  Hosts,                            \* addresses
  Public,                           \* those that is_private does not know
  V6,                               \* those that display_ip puts in brackets
  Plain,                            \* those whose texts match no query
  MassHosts, SeedHosts, CidrHosts,  \* what masscan finds open, what a seed
                                    \* may resolve to, what the CIDRs contain
  Before,                           \* those that an earlier run has stored
  Modes, Stores, QuerySets,         \* "watch", "scanner", "rescanner", "cidr";
                                    \* "sqlite", "postgres"; SEEKER_QUERIES
  Seeds,                            \* number of SEEKER_SEEDS, which are sorted
  Limits,                           \* SEEKER_RESCAN_LIMIT; 0 for none
  Concurrency,                      \* permits of a pass
  MaxTroubles,                      \* bound: hosts going up or down, statements
                                    \* failing, the connection to Postgres lost
  MaxLookups                        \* bound: seeds that do not resolve

ASSUME SeekerAssumption ==
  /\ Public \subseteq Hosts /\ V6 \subseteq Hosts /\ Plain \subseteq Hosts
  /\ MassHosts \subseteq Hosts /\ SeedHosts \subseteq Hosts /\ CidrHosts \subseteq Hosts
  /\ Before \subseteq Hosts \ V6
  /\ Modes \subseteq {"watch", "scanner", "rescanner", "cidr"}
  /\ Stores \subseteq {"sqlite", "postgres"}
  /\ IsFiniteSet(Hosts)
  /\ Seeds \in Nat /\ Limits \subseteq Nat /\ Concurrency \in Nat \ {0}
  /\ MaxTroubles \in Nat /\ MaxLookups \in Nat
  \* queries are strings of a list, none of which is NULL
  /\ \A Q \in QuerySets : IsFiniteSet(Q) /\ "*" \notin Q /\ "asking" \notin Q

VARIABLES
  setup,    \* RuntimeConfig: [mode, store, queries, limit, masscan, seeds, cidrs, understood]
  pass,     \* "start", "masscan", "domains", "cidr", "rescan", "sleep", "exit"
  todo,     \* targets of the pass that have no task yet: [host, named]
  seed,     \* seeds the pass has resolved
  tasks,    \* [pass, host, named, seed, stray, left]: left is what is to be
            \* saved, or Asking; stray: which failed lookup left it running, or 0
  rows,     \* findings, oldest last_seen first: [host, query, named]
  up,       \* hosts that answer a status ping
  lost,     \* the connection to Postgres, which is never opened again
  aborted,  \* history: passes of this cycle that ended in an error
  lookups,  \* history: seeds that did not resolve
  named,    \* history: hosts stored under a seed
  pinged,   \* history: hosts asked in this cycle, with the pass that did
  missed,   \* history: hosts of a rescan that it did not store again
  troubles

progVars == <<pass, todo, seed, tasks>>
histVars == <<aborted, lookups, named, pinged, missed>>
vars == <<setup, progVars, rows, up, lost, histVars, troubles>>

Asking == {"asking"}
AnyQuery == "*"       \* stored as no query
BySeed == "seed"      \* seed:<host>
Queue(hosts, isNamed) == {[host |-> h, named |-> isNamed] : h \in hosts}

\* CIDRs are bad when one does not parse, or SEEKER_LIMIT leaves no target.
Setups ==
  [mode : Modes, store : Stores, queries : QuerySets, limit : Limits, masscan : BOOLEAN,
   seeds : {0, Seeds}, cidrs : {"none", "good", "bad"}, understood : BOOLEAN]

\* validate_config, which looks at no CIDR.
Valid(s) ==
  /\ s.mode = "scanner" => s.masscan
  /\ s.mode = "cidr" => s.cidrs # "none"
  /\ s.mode = "watch" => s.masscan \/ s.seeds > 0 \/ s.cidrs # "none"

\* needs_i_understand.
NeedsUnderstanding(s) == s.masscan \/ s.cidrs # "none" \/ s.mode \in {"scanner", "cidr"}

\* The hosts and queries that an earlier run has stored: every pair in SQLite,
\* the query that matched last in Postgres.
Earlier ==
  LET queries == IF setup.queries = {} THEN {AnyQuery} ELSE setup.queries
  IN  IF setup.store = "sqlite" THEN {Before \X queries}
      ELSE {{<<h, last[h]>> : h \in Before} : last \in [Before -> queries]}

Init ==
  /\ setup \in Setups
  /\ pass = "start" /\ todo = {} /\ seed = 0 /\ tasks = {}
  /\ \E pairs \in Earlier :
       rows \in SetToSeqs({[host |-> x[1], query |-> x[2], named |-> FALSE] : x \in pairs})
  /\ up = Hosts /\ lost = FALSE
  /\ aborted = {} /\ lookups = 0 /\ named = {} /\ pinged = {} /\ missed = {}
  /\ troubles = 0

-----------------------------------------------------------------------------
(* The store.                                                              *)

Places(h) == {i \in 1 .. Len(rows) : rows[i].host = h}
StoredHosts == {h \in Hosts : Places(h) # {}}

\* SELECT DISTINCT in the order of last_seen, with the limit: those before
\* which there are fewer.
Limited ==
  {h \in StoredHosts :
     \/ setup.limit = 0
     \/ Cardinality({g \in StoredHosts : Min(Places(g)) < Min(Places(h))}) < setup.limit}

\* list_servers, oldest first: what is no address any more is dropped after
\* the statement has applied the limit.
Picked == {h \in Limited : setup.store = "postgres" \/ h \notin V6}

\* Mutant: a save leaves the row where it is.
SavedInPlace(h, q, isNamed) ==
  IF Places(h) # {} THEN rows
  ELSE Append(rows, [host |-> h, query |-> q, named |-> isNamed])

\* Row i goes to the end as r.
Moved(i, r) == Append(RemoveAt(rows, i), r)

\* Mutant: a NULL name replaces the name there is.
UpsertNameless(h, q, isNamed) ==
  LET new == [host |-> h, query |-> q, named |-> isNamed]
  IN  IF Places(h) = {} THEN Append(rows, new)
      ELSE Moved(CHOOSE i \in Places(h) : TRUE, new)

\* upsert_finding: the row of the host, whose name and query are kept when the
\* new ones are NULL, or a new one.
UpsertPostgres(h, q, isNamed) ==
  LET i == CHOOSE j \in Places(h) : TRUE
  IN  IF Places(h) = {} THEN Append(rows, [host |-> h, query |-> q, named |-> isNamed])
      ELSE Moved(i, [host |-> h, query |-> IF q = AnyQuery THEN rows[i].query ELSE q,
                     named |-> isNamed \/ rows[i].named])

\* insert_finding: the row of the host and the query, or a new one.  NULL
\* queries are distinct, so that a row without one is added to those there are.
\* Of these the first and the last are kept here, those between change no order
\* of hosts.
UpsertSqlite(h, q, isNamed) ==
  LET new == [host |-> h, query |-> q, named |-> isNamed]
      at == {i \in Places(h) : rows[i].query = q}
      last == CHOOSE i \in at : \A j \in at : j <= i
  IN  IF at = {} \/ (q = AnyQuery /\ at = {last}) THEN Append(rows, new) ELSE Moved(last, new)

Upserted(h, q, isNamed) ==
  IF setup.store = "postgres" THEN UpsertPostgres(h, q, isNamed) ELSE UpsertSqlite(h, q, isNamed)

\* A bracketed address is no inet.
Storable(h) == setup.store = "sqlite" \/ h \notin V6

-----------------------------------------------------------------------------
(* The passes.                                                             *)

Unchanged == UNCHANGED <<setup, up, lost, troubles>>

\* What main and run_watch_cycle run after a pass, with those not configured
\* passed over.
Configured(p) ==
  CASE p = "masscan" -> setup.mode = "scanner" \/ (setup.mode = "watch" /\ setup.masscan)
    [] p = "domains" -> setup.mode = "watch" /\ setup.seeds > 0
    [] p = "cidr"    -> setup.mode = "cidr" \/ (setup.mode = "watch" /\ setup.cidrs # "none")
    [] p = "rescan"  -> setup.mode \in {"watch", "rescanner"}
    [] OTHER         -> TRUE

Order == <<"masscan", "domains", "cidr", "rescan">>

\* Mutant: a pass that failed ends the cycle.
NextOrSleep(i) ==
  LET later == {j \in i + 1 .. 4 : Configured(Order[j])}
  IN  IF later = {} \/ aborted # {} THEN IF setup.mode = "watch" THEN "sleep" ELSE "exit"
      ELSE Order[Min(later)]

NextPass(i) ==
  LET later == {j \in i + 1 .. 4 : Configured(Order[j])}
  IN  IF later = {} THEN IF setup.mode = "watch" THEN "sleep" ELSE "exit" ELSE Order[Min(later)]

TargetsOf(p) ==
  CASE p = "masscan" -> Queue(MassHosts, FALSE)
    [] p = "cidr"    -> Queue(CidrHosts, FALSE)
    [] p = "rescan"  -> Queue(Picked, FALSE)
    [] OTHER         -> {}

\* A pass that cannot start has no target: its CIDRs are bad, or its
\* list_servers fails.
CannotStart(p) == (p = "cidr" /\ setup.cidrs = "bad") \/ (p = "rescan" /\ lost)

Enter(p, soFar) ==
  /\ pass' = p
  /\ seed' = 0
  /\ \/ ~CannotStart(p) /\ todo' = TargetsOf(p) /\ aborted' = soFar /\ UNCHANGED troubles
     \/ /\ \/ CannotStart(p) /\ UNCHANGED troubles
           \/ p = "rescan" /\ troubles < MaxTroubles /\ troubles' = troubles + 1
        /\ todo' = {} /\ aborted' = soFar \cup {p}
  /\ UNCHANGED <<setup, up, lost>>

\* Mutant: only the modes that scan ask for consent.
RefusedByMode(s) == ~Valid(s) \/ (s.mode \in {"scanner", "cidr"} /\ ~s.understood)

Refused(s) == ~Valid(s) \/ (NeedsUnderstanding(s) /\ ~s.understood)

\* The store may not open, either.
Start ==
  /\ pass = "start"
  /\ \/ pass' = "exit" /\ UNCHANGED <<todo, seed, aborted>> /\ Unchanged
     \/ ~Refused(setup) /\ Enter(NextPass(0), {})
  /\ UNCHANGED <<tasks, rows, lookups, named, pinged, missed>>

\* After the interval, which may be 0.
WakeUp ==
  /\ pass = "sleep"
  /\ Enter(NextPass(0), {})
  /\ pinged' = {}
  /\ UNCHANGED <<tasks, rows, lookups, named, missed>>

Index(p) == CHOOSE i \in 1 .. 4 : Order[i] = p
Own == {t \in tasks : t.stray = 0}

\* The masscan pass ends where its config is missing, masscan does not start
\* or fails, whatever it has found by then.
MasscanFails ==
  /\ pass = "masscan" /\ Own = {}
  /\ Enter(NextPass(1), aborted \cup {"masscan"})
  /\ UNCHANGED <<tasks, rows, lookups, named, pinged, missed>>

\* The domain pass looks its seeds up in turn; one that does not resolve ends
\* the pass, whose tasks go on.
Resolve(hosts) ==
  /\ pass = "domains" /\ todo = {} /\ seed < setup.seeds
  /\ seed' = seed + 1
  /\ todo' = Queue(hosts, TRUE)
  /\ UNCHANGED <<pass, tasks, rows, histVars>> /\ Unchanged

ResolveFails ==
  /\ pass = "domains" /\ todo = {} /\ seed < setup.seeds /\ lookups < MaxLookups
  /\ lookups' = lookups + 1
  /\ tasks' = {[t EXCEPT !.stray = IF @ = 0 THEN lookups + 1 ELSE @] : t \in tasks}
  /\ Enter(NextPass(2), aborted \cup {"domains"})
  /\ UNCHANGED <<rows, named, pinged, missed>>

\* Mutant: a task takes no permit.
NoPermit == TRUE

\* run_masscan awaits the ping of a hit before it reads the next.
Permit == Cardinality(Own) < IF pass = "masscan" THEN 1 ELSE Concurrency

Spawn(x) ==
  /\ Permit
  /\ tasks' = tasks \cup {[pass |-> pass, host |-> x.host, named |-> x.named, seed |-> seed,
                            stray |-> 0, left |-> Asking]}
  /\ todo' = todo \ {x}
  /\ pinged' = pinged \cup {<<x.host, pass>>}
  /\ missed' = IF pass = "rescan" THEN missed \cup {x.host} ELSE missed
  /\ UNCHANGED <<pass, seed, rows, aborted, lookups, named>> /\ Unchanged

\* The domain pass runs without queries.
QueriesOf(t) == IF t.named THEN {} ELSE setup.queries

\* process_ping.  Its last branch is never taken, as only the domain pass has
\* names.
MatchedQueries(t) ==
  LET matched == IF QueriesOf(t) = {} THEN {AnyQuery}
                 ELSE IF t.host \in Plain THEN {} ELSE QueriesOf(t)
  IN  IF matched = {} /\ t.named THEN {BySeed} ELSE matched

Answer(t) ==
  /\ t.left = Asking /\ t.host \in up
  /\ tasks' = (tasks \ {t}) \cup
       IF MatchedQueries(t) = {} THEN {} ELSE {[t EXCEPT !.left = MatchedQueries(t)]}
  /\ UNCHANGED <<pass, todo, seed, rows, histVars>> /\ Unchanged

\* save_finding, one query at a time.
Save(t, q) ==
  /\ q \in t.left /\ t.left # Asking /\ Storable(t.host) /\ ~lost
  /\ rows' = Upserted(t.host, q, t.named)
  /\ named' = IF t.named THEN named \cup {t.host} ELSE named
  /\ missed' = missed \ {t.host}
  /\ tasks' = (tasks \ {t}) \cup IF t.left = {q} THEN {} ELSE {[t EXCEPT !.left = @ \ {q}]}
  /\ UNCHANGED <<pass, todo, seed, aborted, lookups, pinged>> /\ Unchanged

\* A ping or a statement that fails ends its task.  That of a masscan hit ends
\* the whole pass with it (masscan.rs:62), the others are passed over.
TaskFails(t) ==
  /\ tasks' = tasks \ {t}
  /\ IF t.pass = "masscan"
     THEN /\ todo' = {}
          /\ aborted' = aborted \cup {"masscan"}
     ELSE UNCHANGED <<todo, aborted>>
  /\ UNCHANGED <<setup, pass, seed, rows, up, lost, lookups, named, pinged, missed>>

PingFails(t) ==
  /\ t.left = Asking /\ t.host \notin up
  /\ TaskFails(t) /\ UNCHANGED troubles

SaveFails(t) ==
  /\ t.left # Asking
  /\ \/ (~Storable(t.host) \/ lost) /\ UNCHANGED troubles
     \/ Storable(t.host) /\ ~lost /\ troubles < MaxTroubles /\ troubles' = troubles + 1
  /\ TaskFails(t)

EndPass ==
  /\ pass \in {"masscan", "domains", "cidr", "rescan"} /\ todo = {} /\ Own = {}
  /\ pass = "domains" => seed = setup.seeds
  /\ Enter(NextPass(Index(pass)), aborted)
  /\ UNCHANGED <<tasks, rows, lookups, named, pinged, missed>>

\* A server is started or stopped.
Change(h) ==
  /\ troubles < MaxTroubles
  /\ troubles' = troubles + 1
  /\ up' = IF h \in up THEN up \ {h} ELSE up \cup {h}
  /\ UNCHANGED <<setup, progVars, rows, lost, histVars>>

\* The client of tokio_postgres is made once and not made again.
LoseStore ==
  /\ setup.store = "postgres" /\ ~lost /\ troubles < MaxTroubles
  /\ lost' = TRUE
  /\ troubles' = troubles + 1
  /\ UNCHANGED <<setup, progVars, rows, up, histVars>>

TaskStep ==
  \E t \in tasks :
    \/ Answer(t) \/ PingFails(t) \/ SaveFails(t)
    \/ \E q \in t.left : Save(t, q)

PassStep ==
  \/ Start \/ WakeUp \/ MasscanFails \/ EndPass
  \/ \E x \in todo : Spawn(x)
  \/ \E hosts \in SUBSET SeedHosts : hosts # {} /\ Resolve(hosts)
  \/ ResolveFails

Next == PassStep \/ TaskStep \/ LoseStore \/ \E h \in Hosts : Change(h)

\* The program runs: pings end, and every pass is taken up.
Spec == Init /\ [][Next]_vars
FairSpec == Spec /\ WF_vars(PassStep) /\ WF_vars(TaskStep)

-----------------------------------------------------------------------------
(* Properties.                                                             *)

\* A pass that fails does not keep the cycle from the others, and within a
\* pass every target is asked, unless masscan or the ping or save of a hit
\* fails (masscan.rs:29-69), a seed does not resolve (domains.rs:57) or the
\* CIDRs are bad (main.rs:406-409).
TargetsAsked ==
  pass = "sleep" =>
    /\ Configured("masscan") /\ "masscan" \notin aborted =>
         \A h \in MassHosts : <<h, "masscan">> \in pinged
    /\ Configured("cidr") /\ setup.cidrs = "good" => \A h \in CidrHosts : <<h, "cidr">> \in pinged
    /\ Configured("domains") /\ "domains" \notin aborted =>
         \E h \in SeedHosts : <<h, "domains">> \in pinged

\* A pass waits for its pings, which keep to its permits, but for those that a
\* failed lookup left running: they keep to the permits of theirs, and go on
\* beside any pass of this cycle and of later ones (main.rs:263).
PermitsKept ==
  /\ \A k \in 0 .. lookups : Cardinality({t \in tasks : t.stray = k}) <= Concurrency
  /\ \A t \in tasks : t.stray \in 1 .. lookups \/ (t.stray = 0 /\ t.pass = pass)

\* Who is asked in a cycle, and how many at once.
PassesAccounted == TargetsAsked /\ PermitsKept

\* Without consent no public address is asked that is not a seed's or stored
\* before, whatever is configured beside the seeds (main.rs:199-204, 232-236).
ConsentAccounted ==
  ~setup.understood => \A x \in pinged : x[1] \in Public => x[2] \in {"domains", "rescan"}

\* Postgres holds a host once, and under its seed's name for good, though
\* rescans and masscan save it without one; SQLite holds it once for a query,
\* if there is a query (db.rs:44, 95, pg.rs:82-99).
RowsAccounted ==
  \A i, j \in 1 .. Len(rows) :
    /\ setup.store = "postgres" =>
         /\ rows[i].host \in named => rows[i].named
         /\ rows[i].host = rows[j].host => i = j
    /\ setup.store = "sqlite" =>
         (rows[i].host = rows[j].host /\ rows[i].query = rows[j].query /\ i # j => rows[i].query = AnyQuery)

\* A watch comes back to every stored host, in a rescan if in no other pass,
\* also under a limit: what answers goes to the end of the list.  What does not
\* answer, or matches no query any more, stays where it is, and so do, in
\* SQLite, bracketed addresses and the first of a host's rows without a query:
\* as many as the limit, and the rest is never asked again (db.rs:53-71).  Nor
\* is anybody, once the connection to Postgres is lost (pg.rs:19-23).
Stalled ==
  /\ setup.limit > 0 /\ pass = "sleep"
  /\ \/ setup.store = "sqlite" /\ \E i \in 1 .. Len(rows) : rows[i].query = AnyQuery
     \/ Cardinality(missed \cup (StoredHosts \cap V6)) >= setup.limit
RescanReaches ==
  \A h \in Hosts \ V6 :
    (h \in StoredHosts /\ setup.mode = "watch" /\ pass # "start") ~>
      ((\E x \in pinged : x[1] = h) \/ Stalled \/ lost \/ pass = "exit")
=============================================================================
