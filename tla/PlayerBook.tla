----------------------------- MODULE PlayerBook ------------------------------
(***************************************************************************)
(* Who the players are: the tables name_dict, players and player_names,    *)
(* and the caches that each logger's Flusher keeps of them.  Several       *)
(* loggers may write the same tables (a standby beside its primary, two    *)
(* bots on one database), one SQL statement at a time.                     *)
(*                                                                         *)
(* A row on its way to the tables names a player.  It carries the uuid of  *)
(* the account when the server sent it (a tab list entry, a player's own   *)
(* chat packet), and the rank that the line shows before the name, if any. *)
(* Without a uuid the logger makes one up from the name.                   *)
(***************************************************************************)
EXTENDS Naturals, Sequences, SequencesExt, FiniteSets

CONSTANTS
  Writers,          \* loggers that share the database
  Names, Accounts,  \* names that players use, and the uuids of their accounts
  Shown,            \* ranks
  NoUuid, NoRank, NoPlayer,
  Holders,          \* who plays under which name at first, see holder
  Subjects,         \* what behaviours are looked at for, see subject
  MaxSightings,     \* bound: rows about players
  MaxBookTroubles   \* bound: renames, failed statements, restarts, resets

ASSUME BookAssumption ==
  /\ \A h \in Holders : /\ h \in [Names -> Accounts \cup {NoUuid}]
                        /\ \A n, m \in Names : h[n] = h[m] => n = m \/ h[n] = NoUuid
  /\ NoUuid \notin Accounts /\ NoRank \notin Shown /\ NoPlayer \notin Names
  /\ Subjects \subseteq {"uuids", "ranks", "names"}
  /\ MaxSightings \in Nat /\ MaxBookTroubles \in Nat

VARIABLES
  subject,   \* bound: a behaviour has renames, or ranks, or a reset database
  holder,    \* the account that plays under each name, or NoUuid
  inbox,     \* rows each writer has received and not flushed
  taken,     \* the batch each is writing
  doing,     \* the statement that is next; idle between flushes
  dict,      \* name_dict: the id of each name, 0 for none
  ids,       \* Flusher.names, 0 for none
  known,     \* Flusher.known_players: none, made (up) or real
  shown,     \* Flusher.ranks
  book,      \* players: [name, rank] of each uuid
  worn,      \* player_names: uuids with the names they had
  linked,    \* names with the ids that chat_messages_raw has them under
  met,       \* history: names whose account's uuid a writer has been given
  said,      \* history: the rank that the latest row about a name shows
  spoiled,   \* history: names that something known has happened to
  sightings, bookTroubles

cacheVars == <<ids, known, shown>>
tableVars == <<dict, book, worn, linked>>
bookVars  == <<subject, holder, inbox, taken, doing, cacheVars, tableVars, met,
               said, spoiled, sightings, bookTroubles>>

-----------------------------------------------------------------------------
MadeUp(n) == <<"by name", n>>

\* It is of another version (5) than those of accounts (4).
ASSUME MadeUpAssumption == \A n \in Names : MadeUp(n) \notin Accounts \cup {NoUuid}

IsReal(u) == u \in Accounts
Uuids == Accounts \cup {MadeUp(n) : n \in Names}
Free == [name |-> NoPlayer, rank |-> NoRank]

NamesIn(rows) == {r.name : r \in ToSet(rows)}
InFlight(w) == ToSet(inbox[w]) \cup ToSet(taken[w])

\* touch_players: the uuid that the last row about n to carry one has given.
Given(rows, n) ==
  LET with == {i \in 1..Len(rows) : rows[i].name = n /\ rows[i].uuid # NoUuid}
  IN IF with = {} THEN NoUuid ELSE rows[CHOOSE i \in with : \A j \in with : j <= i].uuid

UuidFor(rows, n) == IF Given(rows, n) = NoUuid THEN MadeUp(n) ELSE Given(rows, n)

\* Mutant: a player that has been stored is never looked at again.
FreshOnce(w) == {n \in NamesIn(taken[w]) : known[w][n] = "none"}

\* The players of the batch that are to be stored.
Fresh(w) ==
  {n \in NamesIn(taken[w]) :
     known[w][n] = "none" \/ (known[w][n] = "made" /\ Given(taken[w], n) # NoUuid)}

FreshRows(w) == {<<UuidFor(taken[w], n), n>> : n \in Fresh(w)}

\* Rows of players that stand in the way of those to be stored.
Others(w) == {u \in Uuids : \E r \in FreshRows(w) : book[u].name = r[2] /\ u # r[1]}

\* The ranks that the batch shows of n.
RanksIn(rows, n) == {r.rank : r \in {s \in ToSet(rows) : s.name = n}} \ {NoRank}

LastRank(rows, n, differs) ==
  LET of == {i \in 1..Len(rows) : rows[i].name = n /\ rows[i].rank \notin {NoRank, differs}}
  IN IF of = {} THEN NoRank ELSE rows[CHOOSE i \in of : \A j \in of : j <= i].rank

\* Mutant: a rank is written once.
FirstRank(w, n) == IF shown[w][n] = NoRank THEN LastRank(taken[w], n, NoRank) ELSE NoRank

\* write_ranks: what is to be written of n.
ChangedRank(w, n) == LastRank(taken[w], n, shown[w][n])

-----------------------------------------------------------------------------
BookInit ==
  /\ subject \in Subjects
  /\ holder \in Holders
  /\ inbox = [w \in Writers |-> <<>>]
  /\ taken = [w \in Writers |-> <<>>]
  /\ doing = [w \in Writers |-> "idle"]
  /\ dict = [n \in Names |-> 0]
  /\ ids = [w \in Writers |-> [n \in Names |-> 0]]
  /\ known = [w \in Writers |-> [n \in Names |-> "none"]]
  /\ shown = [w \in Writers |-> [n \in Names |-> NoRank]]
  /\ book = [u \in Uuids |-> Free]
  /\ worn = {}
  /\ linked = {}
  /\ met = {}
  /\ said = [n \in Names |-> NoRank]
  /\ spoiled = {}
  /\ sightings = 0
  /\ bookTroubles = 0

Trouble == bookTroubles < MaxBookTroubles /\ bookTroubles' = bookTroubles + 1

\* Writer::chat, Writer::event: a row about n reaches a writer.  Ranks are
\* looked at for one player.
Sight(w, n) ==
  /\ sightings < MaxSightings
  /\ subject = "ranks" => n = CHOOSE m \in Names : holder[m] # NoUuid
  /\ sightings' = sightings + 1
  /\ \E u \in {NoUuid} \cup IF subject = "names" THEN {} ELSE {holder[n]},
        r \in {NoRank} \cup IF subject = "ranks" THEN Shown ELSE {} :
       /\ u # NoUuid => r = NoRank
       /\ inbox' = [inbox EXCEPT ![w] = Append(@, [name |-> n, uuid |-> u, rank |-> r])]
       /\ met' = IF u = NoUuid THEN met ELSE met \cup {n}
       /\ said' = IF r = NoRank THEN said ELSE [said EXCEPT ![n] = r]
       /\ spoiled' = IF \E v \in Writers \ {w} : \E q \in InFlight(v) :
                          q.name = n /\ {q.rank, r} \cap Shown # {}
                     THEN spoiled \cup {n} ELSE spoiled
  /\ UNCHANGED <<subject, holder, taken, doing, cacheVars, tableVars, bookTroubles>>

\* An account changes its name to n, which another may just have given up for
\* a name that no row is about.  Whoever knows an account under n does not
\* look again, and a row under way is about the name as it was.
Rename(u, n) ==
  /\ subject = "uuids" /\ Trouble
  /\ holder[n] # u
  /\ holder' = [m \in Names |-> IF m = n THEN u ELSE IF holder[m] = u THEN NoUuid ELSE holder[m]]
  /\ met' = met \ {m \in Names : m = n \/ holder[m] = u}
  /\ spoiled' = IF \E w \in Writers :
                     \/ known[w][n] = "real"
                     \/ \E q \in InFlight(w) : q.uuid = u \/ (q.name = n /\ q.uuid # NoUuid)
                THEN spoiled \cup {n} ELSE spoiled
  /\ UNCHANGED <<subject, inbox, taken, doing, cacheVars, tableVars, said, sightings>>

-----------------------------------------------------------------------------
(* write_batch, as far as it is about players.                             *)

Goes(w, s) == doing' = [doing EXCEPT ![w] = s]
Keeps == UNCHANGED <<subject, holder, inbox, met, said, sightings>>

Drain(w) ==
  /\ doing[w] = "idle" /\ inbox[w] # <<>>
  /\ taken' = [taken EXCEPT ![w] = inbox[w]]
  /\ inbox' = [inbox EXCEPT ![w] = <<>>]
  /\ Goes(w, "resolve")
  /\ UNCHANGED <<subject, holder, cacheVars, tableVars, met, said, spoiled,
                 sightings, bookTroubles>>

\* resolve_names: the dictionary is given what the cache has not, and read.
Resolve(w) ==
  /\ doing[w] = "resolve"
  /\ LET missing == {n \in NamesIn(taken[w]) : ids[w][n] = 0}
         new == SetToSeq({n \in missing : dict[n] = 0})
         next == Cardinality({n \in Names : dict[n] # 0})
     IN /\ dict' = [n \in Names |->
                      IF Contains(new, n) THEN next + (CHOOSE i \in 1..Len(new) : new[i] = n)
                      ELSE dict[n]]
        /\ ids' = [ids EXCEPT ![w] = [n \in Names |-> IF n \in missing THEN dict'[n] ELSE @[n]]]
  /\ Goes(w, "chat")
  /\ Keeps /\ UNCHANGED <<taken, known, shown, book, worn, linked, spoiled, bookTroubles>>

\* write_chat
WriteChat(w) ==
  /\ doing[w] = "chat"
  /\ linked' = linked \cup {<<n, ids[w][n]>> : n \in NamesIn(taken[w])}
  /\ Goes(w, "remove")
  /\ Keeps /\ UNCHANGED <<taken, cacheVars, dict, book, worn, spoiled, bookTroubles>>

\* touch_players: a row of the same name under another uuid makes room.  An
\* account's own row does so too, for a uuid made up by a writer that has not
\* seen the account's, and the rank goes with the row.
RemoveOthers(w) ==
  /\ doing[w] = "remove"
  /\ book' = [u \in Uuids |-> IF u \in Others(w) THEN Free ELSE book[u]]
  /\ spoiled' = spoiled \cup {n \in Fresh(w) : \E u \in Others(w) : book[u].name = n /\
                  (book[u].rank # NoRank \/ (IsReal(u) /\ Given(taken[w], n) = NoUuid))}
  /\ Goes(w, IF Fresh(w) = {} THEN "rank" ELSE "insert")
  /\ Keeps /\ UNCHANGED <<taken, cacheVars, dict, worn, linked, bookTroubles>>

\* flush gives up what is left of the batch.
Abandon(w) ==
  /\ taken' = [taken EXCEPT ![w] = <<>>]
  /\ Goes(w, "idle")

Ranked(rows) == {n \in NamesIn(rows) : RanksIn(rows, n) # {}}

\* Names of which a uuid or a rank is lost with rows that are not written.
Losing(rows) == {r.name : r \in {q \in ToSet(rows) : q.uuid # NoUuid \/ q.rank # NoRank}}

\* The INSERT joins the dictionary, and fails as a whole where one uuid
\* comes twice, or where a name has been given to another uuid meanwhile.
InsertPlayers(w) ==
  /\ doing[w] = "insert"
  /\ LET rows == {r \in FreshRows(w) : dict[r[2]] # 0}
     IN IF \/ \E r \in rows, u \in Others(w) : book[u].name = r[2]
           \/ \E r, s \in rows : r[1] = s[1] /\ r[2] # s[2]
        THEN /\ Abandon(w)
             /\ spoiled' = spoiled \cup Losing(taken[w])
             /\ UNCHANGED book
        ELSE /\ book' = [u \in Uuids |->
                           IF \E r \in rows : r[1] = u
                           THEN [book[u] EXCEPT !.name = (CHOOSE r \in rows : r[1] = u)[2]]
                           ELSE book[u]]
             /\ Goes(w, "remember")
             /\ UNCHANGED <<taken, spoiled>>
  /\ Keeps /\ UNCHANGED <<cacheVars, dict, worn, linked, bookTroubles>>

\* player_names, and then known_players.
Remember(w) ==
  /\ doing[w] = "remember"
  /\ worn' = worn \cup FreshRows(w)
  /\ known' = [known EXCEPT ![w] = [n \in Names |->
                 IF n \notin Fresh(w) THEN @[n]
                 ELSE IF Given(taken[w], n) = NoUuid THEN "made" ELSE "real"]]
  /\ Goes(w, "rank")
  /\ Keeps /\ UNCHANGED <<taken, ids, shown, dict, book, linked, spoiled, bookTroubles>>

\* write_ranks.  The cache does not know of a row that another writer has
\* changed or that has been replaced, nor that there is none.
WriteRanks(w) ==
  /\ doing[w] = "rank"
  /\ LET changed == {n \in Names : ChangedRank(w, n) # NoRank}
         shows == Ranked(taken[w])
     IN /\ book' = [u \in Uuids |->
                      IF book[u].name \in changed
                      THEN [book[u] EXCEPT !.rank = ChangedRank(w, book[u].name)] ELSE book[u]]
        /\ shown' = [shown EXCEPT ![w] = [n \in Names |->
                      IF n \in changed THEN ChangedRank(w, n) ELSE @[n]]]
        /\ spoiled' = spoiled \cup {n \in shows :
             \/ Cardinality(RanksIn(taken[w], n)) > 1
             \/ \A u \in Uuids : book[u].name # n
             \/ RanksIn(taken[w], n) = {shown[w][n]}
                /\ \E u \in Uuids : book[u].name = n /\ book[u].rank # shown[w][n]}
  /\ Abandon(w)
  /\ Keeps /\ UNCHANGED <<ids, known, dict, worn, linked, bookTroubles>>

-----------------------------------------------------------------------------
\* Names of which something is lost when w stops where it is.
LostWith(w, rows) ==
  Losing(rows) \cup IF doing[w] = "remember" THEN NamesIn(taken[w]) ELSE {}

\* A statement fails.
StatementFails(w) ==
  /\ doing[w] # "idle" /\ Trouble
  /\ Abandon(w)
  /\ spoiled' = spoiled \cup LostWith(w, taken[w])
  /\ Keeps /\ UNCHANGED <<cacheVars, tableVars>>

Forgets(w) ==
  /\ inbox' = [inbox EXCEPT ![w] = <<>>]
  /\ Abandon(w)
  /\ ids' = [ids EXCEPT ![w] = [n \in Names |-> 0]]
  /\ known' = [known EXCEPT ![w] = [n \in Names |-> "none"]]
  /\ shown' = [shown EXCEPT ![w] = [n \in Names |-> NoRank]]

\* The process restarts.
RestartWriter(w) ==
  /\ Trouble
  /\ Forgets(w)
  /\ spoiled' = spoiled \cup LostWith(w, inbox[w] \o taken[w])
  /\ UNCHANGED <<subject, holder, tableVars, met, said, sightings>>

\* Db::reset: it restarts with RESET_DB.  The others keep their caches.
ResetDatabase(w) ==
  /\ subject = "names" /\ Trouble
  /\ Forgets(w)
  /\ dict' = [n \in Names |-> 0]
  /\ book' = [u \in Uuids |-> Free]
  /\ worn' = {} /\ linked' = {}
  /\ spoiled' = spoiled \cup {n \in Names : \E v \in Writers \ {w} :
                                ids[v][n] # 0 \/ n \in NamesIn(taken[v])}
  /\ UNCHANGED <<subject, holder, met, said, sightings>>

BookStep ==
  \/ \E w \in Writers :
       \/ \E n \in Names : Sight(w, n)
       \/ Drain(w) \/ Resolve(w) \/ WriteChat(w) \/ RemoveOthers(w) \/ InsertPlayers(w)
       \/ Remember(w) \/ WriteRanks(w)
       \/ StatementFails(w) \/ RestartWriter(w) \/ ResetDatabase(w)
  \/ \E u \in Accounts, n \in Names : Rename(u, n)

-----------------------------------------------------------------------------
(* Properties.                                                             *)

BookQuiet == \A w \in Writers : doing[w] = "idle" /\ inbox[w] = <<>>

\* A player whose uuid a logger was given has their row under it, unless the
\* name had another account before, its batch was lost, two writers stored
\* the name at once, or one that did not know the uuid has stored the player
\* by name since: "A real Mojang uuid wins" (db.rs:1238)
\* only over what was there when it came.
IdentitiesKept ==
  BookQuiet => \A n \in Names \ spoiled :
    n \in met => book[holder[n]].name = n

\* chat_rank is what the latest line has shown, unless the row was replaced,
\* the cache is stale, two writers or one batch had different ranks, or the
\* batch was lost.
RanksKept ==
  BookQuiet => \A n \in Names \ spoiled :
    said[n] # NoRank => \E u \in Uuids : book[u] = [name |-> n, rank |-> said[n]]

\* Every chat row names who it is about, unless the dictionary was dropped
\* under a logger that had its ids; player_names has every name in use.
NamesKept ==
  /\ \A l \in linked : l[1] \notin spoiled => dict[l[1]] = l[2]
  /\ BookQuiet => \A u \in Uuids :
       book[u].name \notin spoiled \cup {NoPlayer} => <<u, book[u].name>> \in worn

PlayersAccounted == IdentitiesKept /\ RanksKept /\ NamesKept
=============================================================================
