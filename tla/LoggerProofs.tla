---------------------------- MODULE LoggerProofs ----------------------------
(***************************************************************************)
(* Proofs about a logger: what it does on its game server (GameSession),   *)
(* for any bounds, and who of a pair of them logs (Standby), for one       *)
(* primary and one standby, any heartbeat interval, any takeover time of   *)
(* two intervals or more, and any number of failing statements and starts. *)
(***************************************************************************)
EXTENDS Standby, GameSession, SequenceTheorems, TLAPS

-----------------------------------------------------------------------------
(* How long both loggers of a pair log, and how long neither does although *)
(* the standby could (Standby).                                            *)
(*                                                                         *)
(* Neither bound is inductive.  Both are read off the two clocks of the    *)
(* system, the loops of the two processes, and the age of the primary's    *)
(* row, which is how the standby sees the primary's clock; every statement *)
(* that fails buys one interval more.                                      *)

Types ==
  /\ process \in [Loggers -> {"down", "up", "closing", "cleared"}]
  /\ connected \in [Loggers -> BOOLEAN] /\ limbo \in [Loggers -> BOOLEAN]
  /\ gate \in [Loggers -> BOOLEAN] /\ snap \in [Loggers -> BOOLEAN]
  /\ step \in [Loggers -> {"waits", "checks", "beats"}]
  /\ due \in [Loggers -> 0 .. Interval]
  /\ row \in [Loggers -> [connected : BOOLEAN, age : Nat]]
  /\ errors \in Nat /\ overlap \in Nat /\ gap \in Nat

\* A process that is down is not in the game and has no gate open; a primary
\* asks nobody, and its gate is never closed; and a loop that was woken does
\* all it has to before time goes on.
ProcessModes ==
  /\ \A l \in Loggers : step[l] # "waits" => due[l] = 0
  /\ \A l \in Loggers : ~Alive(l) => ~connected[l] /\ ~gate[l]
  /\ \A l \in Primaries : step[l] # "checks" /\ (Alive(l) => gate[l])

\* The standby's query finds l.
Live(l) == row[l].connected /\ Fresh(l)

\* How long ago the loop of l made the step that the other one waits for, a
\* primary its heartbeat and a standby its check; an interval when it is about
\* to.
Since(l) ==
  IF step[l] = "checks" \/ (step[l] = "beats" /\ l \in Primaries) THEN Interval ELSE due[l]

\* What the failures so far can have delayed.
Delay == errors * Interval

Both(p, s) == Logging(p) /\ Logging(s)
Neither(p, s) == Ready(s) /\ ~Logging(s) /\ ~Logging(p) /\ ~Waits(p)

\* While both log, the primary's next heartbeat puts it into the table, and
\* the standby's next check finds it there, unless the statement fails.  A row
\* that the primary wrote can become stale again only through failures of both.
OverlapInv(p, s) ==
  /\ overlap <= 2 * Interval + Delay
  /\ ~Both(p, s) => overlap = 0
  /\ step[p] = "beats" /\ ~snap[p] => overlap = 0
  /\ gate[s] /\ Live(p) => row[p].age <= Since(s) + Delay
  /\ process[p] = "up" => \/ row[p].age >= Since(p)
                          \/ Since(p) = Interval /\ overlap = 0
  /\ Both(p, s) /\ process[p] = "up" /\ process[s] = "up" =>
       IF Live(p) THEN overlap + row[p].age <= Interval + Since(s) + Since(p) + Delay
                  ELSE overlap <= Since(p) + Delay

\* While neither logs, the primary's last connected row ages with the gap, and
\* once it is stale the standby's next check opens the gate, unless it fails.
GapInv(p, s) ==
  /\ ~Neither(p, s) => gap = 0
  /\ Alive(p) /\ step[p] = "beats" /\ snap[p] => gap = 0
  /\ Alive(s) /\ step[s] = "checks" /\ ~snap[s] => gap = 0
  /\ IF Live(p) THEN gap <= row[p].age
                ELSE gap < Takeover + Since(s) + Delay

PairInv(p, s) == Types /\ ProcessModes /\ OverlapInv(p, s) /\ GapInv(p, s)

-----------------------------------------------------------------------------
LEMMA Numbers ==
  /\ Interval \in Nat \ {0} /\ Takeover \in Nat \ {0} /\ 2 * Interval <= Takeover
  /\ Primaries \cap Standbys = {}
BY StandbyAssumption DEF StandbyAssumption

\* What a failure more adds.
LEMMA Multiples ==
  ASSUME NEW e \in Nat
  PROVE  /\ e * Interval \in Nat
         /\ (e + 1) * Interval = e * Interval + Interval
         /\ (1 + e) * Interval = Interval + e * Interval
         /\ (2 + e) * Interval = 2 * Interval + e * Interval
BY Numbers

\* Two loggers are a primary and a standby.
LEMMA PairView ==
  ASSUME NEW p, NEW s, Primaries = {p}, Standbys = {s}
  PROVE  /\ p # s /\ Loggers = {p, s}
         /\ Several <=> Both(p, s)
         /\ Several' <=> Both(p, s)'
         /\ Missing <=> Neither(p, s)
         /\ Missing' <=> Neither(p, s)'
         /\ LivePrimaries(s) = {} <=> ~Live(p)
<1>1. p # s /\ Loggers = {p, s}
  BY Numbers DEF Loggers
<1> QED
  BY <1>1 DEF Several, Missing, Both, Neither, Ready, LivePrimaries, Live, Logging, Waits, Alive, Fresh

LEMMA MeasureBounds ==
  ASSUME NEW length \in Nat, NEW on \in BOOLEAN, MaxErrors \in Nat
  PROVE  /\ Measure(length, on, 0) \in Nat /\ Measure(length, on, 0) <= length
         /\ Measure(length, on, 1) \in Nat /\ Measure(length, on, 1) <= length + 1
         /\ ~on => Measure(length, on, 0) = 0 /\ Measure(length, on, 1) = 0
<1>1. Horizon \in Nat
  <2>1. (2 + MaxErrors) * Interval \in Nat
    BY Multiples, Numbers
  <2> QED
    BY <2>1, Numbers DEF Horizon
<1> QED
  BY <1>1 DEF Measure

LEMMA MeasuredTypes ==
  ASSUME Types,
         \/ overlap' = Measure(overlap, Several', 0) /\ gap' = Measure(gap, Missing', 0)
         \/ overlap' = Measure(overlap, Several', 1) /\ gap' = Measure(gap, Missing', 1)
  PROVE  overlap' \in Nat /\ gap' \in Nat
<1>1. MaxErrors \in Nat
  BY StandbyAssumption DEF StandbyAssumption
<1>2. Several' \in BOOLEAN /\ Missing' \in BOOLEAN /\ overlap \in Nat /\ gap \in Nat
  BY DEF Types, Several, Missing
<1> QED
  BY <1>1, <1>2, MeasureBounds

LEMMA NextTypes == Types /\ [StandbyNext]_standbyVars => Types'
<1> SUFFICES ASSUME Types, [StandbyNext]_standbyVars PROVE Types'
  OBVIOUS
<1>1. CASE UNCHANGED standbyVars
  BY <1>1 DEF standbyVars, Types
<1>2. ASSUME StandbyNext PROVE overlap' \in Nat /\ gap' \in Nat
  BY <1>2, MeasuredTypes DEF StandbyNext
<1>3. ASSUME NEW l \in Loggers, overlap' \in Nat, gap' \in Nat, LoggerLogin(l) \/ EnterQueue(l) \/ LeaveQueue(l) \/ LoggerDisconnect(l)
      PROVE  Types'
  BY <1>3, Numbers DEF Types, LoggerLogin, EnterQueue, LeaveQueue, LoggerDisconnect, loop
<1>4. ASSUME NEW l \in Loggers, overlap' \in Nat, gap' \in Nat, Kill(l) \/ Exit(l)
      PROVE  Types'
  BY <1>4, Numbers DEF Types, Kill, Exit, Gone, loop
<1>5. ASSUME NEW l \in Loggers, overlap' \in Nat, gap' \in Nat, Start(l)
      PROVE  Types'
  BY <1>5, Numbers DEF Types, Start, InitialGate, game
<1>6. ASSUME NEW l \in Loggers, overlap' \in Nat, gap' \in Nat, Interrupt(l) \/ Clear(l)
      PROVE  Types'
  <2>1. [connected |-> FALSE, age |-> 0] \in [connected : BOOLEAN, age : Nat]
    OBVIOUS
  <2>2. row' \in [Loggers -> [connected : BOOLEAN, age : Nat]]
    BY <1>6, <2>1 DEF Types, Interrupt, Clear
  <2> QED
    BY <1>6, <2>2 DEF Types, Interrupt, Clear, game, loop
<1>7. ASSUME NEW l \in Loggers, overlap' \in Nat, gap' \in Nat, Wake(l)
      PROVE  Types'
  BY <1>7, Numbers DEF Types, Wake, game
<1>8. ASSUME NEW l \in Loggers, overlap' \in Nat, gap' \in Nat, Check(l) \/ CheckFails(l)
      PROVE  Types'
  <2>1. gate' \in [Loggers -> BOOLEAN]
    BY <1>8 DEF Types, Check, CheckFails, ShouldWrite, game
  <2> QED
    BY <1>8, <2>1 DEF Types, Check, CheckFails, game
<1>9. ASSUME NEW l \in Loggers, overlap' \in Nat, gap' \in Nat, Beat(l) \/ BeatFails(l)
      PROVE  Types'
  <2>1. [connected |-> snap[l], age |-> 0] \in [connected : BOOLEAN, age : Nat]
    BY DEF Types
  <2>2. row' \in [Loggers -> [connected : BOOLEAN, age : Nat]]
    BY <1>9, <2>1 DEF Types, Beat, BeatFails
  <2> QED
    BY <1>9, <2>2 DEF Types, Beat, BeatFails, game
<1>10. ASSUME Tick, overlap' \in Nat, gap' \in Nat
       PROVE  Types'
  <2>1. /\ \A l \in Loggers : Alive(l) => due[l] < Interval
        /\ due' = [l \in Loggers |-> IF Alive(l) THEN due[l] + 1 ELSE due[l]]
        /\ row' = [l \in Loggers |-> [row[l] EXCEPT !.age = Older(@)]]
        /\ UNCHANGED <<process, connected, limbo, gate, step, snap, errors>>
    BY <1>10 DEF Tick, game
  <2>2. due' \in [Loggers -> 0 .. Interval]
    BY <2>1, Numbers DEF Types
  <2>3. ASSUME NEW l \in Loggers
        PROVE  [row[l] EXCEPT !.age = Older(@)] \in [connected : BOOLEAN, age : Nat]
    BY Numbers DEF Types, Older
  <2> QED
    BY <1>10, <2>1, <2>2, <2>3 DEF Types
<1> QED
  BY <1>1, <1>2, <1>3, <1>4, <1>5, <1>6, <1>7, <1>8, <1>9, <1>10 DEF StandbyNext, Act

LEMMA NextModes == Types /\ ProcessModes /\ [StandbyNext]_standbyVars => ProcessModes'
<1> SUFFICES ASSUME Types, ProcessModes, [StandbyNext]_standbyVars PROVE ProcessModes'
  OBVIOUS
<1>0. Primaries \subseteq Loggers /\ Primaries \cap Standbys = {}
  BY Numbers DEF Loggers
<1>1. CASE UNCHANGED <<process, connected, gate, step, due>>
  BY <1>1 DEF ProcessModes, Alive
<1>9. CASE Tick
  <2>1. UNCHANGED <<process, connected, gate, step>>
    BY <1>9 DEF Tick, game
  <2>2. \A l \in Loggers : due'[l] = IF Alive(l) THEN due[l] + 1 ELSE due[l]
    BY <1>9 DEF Tick
  <2>3. \A l \in Loggers : Alive(l) => step[l] = "waits"
    BY <1>9 DEF Tick
  <2>4. \A l \in Loggers : step'[l] # "waits" => due'[l] = 0
    BY <2>1, <2>2, <2>3 DEF ProcessModes
  <2> QED
    BY <2>1, <2>4 DEF ProcessModes, Alive
<1>2. ASSUME NEW l \in Loggers, LoggerLogin(l) \/ LoggerDisconnect(l)
      PROVE  ProcessModes'
  <2>1. CASE LoggerLogin(l)
    BY <1>0, <2>1 DEF Types, ProcessModes, Alive, LoggerLogin, loop
  <2>2. CASE LoggerDisconnect(l)
    BY <1>0, <2>2 DEF Types, ProcessModes, Alive, LoggerDisconnect, loop
  <2> QED
    BY <1>2, <2>1, <2>2
<1>3. ASSUME NEW l \in Loggers, Kill(l) \/ Exit(l)
      PROVE  ProcessModes'
  <2>1. CASE Kill(l)
    BY <1>0, <2>1 DEF Types, ProcessModes, Alive, Kill, Gone, loop
  <2>2. CASE Exit(l)
    BY <1>0, <2>2 DEF Types, ProcessModes, Alive, Exit, Gone, loop
  <2> QED
    BY <1>3, <2>1, <2>2
<1>4. ASSUME NEW l \in Loggers, Start(l)
      PROVE  ProcessModes'
  BY <1>0, <1>4 DEF Types, ProcessModes, Alive, Start, InitialGate, game
<1>5. ASSUME NEW l \in Loggers, Interrupt(l) \/ Clear(l)
      PROVE  ProcessModes'
  <2>1. CASE Interrupt(l)
    BY <1>0, <2>1 DEF Types, ProcessModes, Alive, Interrupt, game, loop
  <2>2. CASE Clear(l)
    BY <1>0, <2>2 DEF Types, ProcessModes, Alive, Clear, game, loop
  <2> QED
    BY <1>5, <2>1, <2>2
<1>6. ASSUME NEW l \in Loggers, Wake(l)
      PROVE  ProcessModes'
  <2>1. UNCHANGED <<process, connected, gate>>
    BY <1>6 DEF Wake, game
  <2>2. due'[l] = 0 /\ (l \in Primaries => step'[l] # "checks")
    BY <1>0, <1>6 DEF Types, Wake
  <2>3. \A m \in Loggers : m # l => step'[m] = step[m] /\ due'[m] = due[m]
    BY <1>6 DEF Types, Wake
  <2> QED
    BY <1>0, <2>1, <2>2, <2>3 DEF ProcessModes, Alive
<1>7. ASSUME NEW l \in Loggers, Check(l) \/ CheckFails(l)
      PROVE  ProcessModes'
  <2>1. CASE Check(l)
    BY <1>0, <2>1 DEF Types, ProcessModes, Alive, Check, game
  <2>2. CASE CheckFails(l)
    BY <1>0, <2>2 DEF Types, ProcessModes, Alive, CheckFails, game
  <2> QED
    BY <1>7, <2>1, <2>2
<1>8. ASSUME NEW l \in Loggers, Beat(l) \/ BeatFails(l)
      PROVE  ProcessModes'
  <2>1. CASE Beat(l)
    BY <1>0, <2>1 DEF Types, ProcessModes, Alive, Beat, game
  <2>2. CASE BeatFails(l)
    BY <1>0, <2>2 DEF Types, ProcessModes, Alive, BeatFails, game
  <2> QED
    BY <1>8, <2>1, <2>2
<1> QED
  BY <1>1, <1>2, <1>3, <1>4, <1>5, <1>6, <1>7, <1>8, <1>9
     DEF StandbyNext, Act, standbyVars, EnterQueue, LeaveQueue, loop

-----------------------------------------------------------------------------
(* The two bounds.                                                         *)

\* A step that takes no time can end an overlap or a gap, or begin it.
Acts ==
  /\ overlap' = Measure(overlap, Several', 0)
  /\ gap' = Measure(gap, Missing', 0)

LEMMA ActMeasures ==
  ASSUME NEW p, NEW s, Primaries = {p}, Standbys = {s}, Types, Acts
  PROVE  /\ overlap \in Nat /\ overlap' \in Nat /\ overlap' <= overlap
         /\ gap \in Nat /\ gap' \in Nat /\ gap' <= gap
         /\ ~Both(p, s)' => overlap' = 0
         /\ ~Neither(p, s)' => gap' = 0
<1>1. MaxErrors \in Nat /\ overlap \in Nat /\ gap \in Nat
  BY StandbyAssumption DEF StandbyAssumption, Types
<1>2. Several' \in BOOLEAN /\ Missing' \in BOOLEAN
  BY DEF Several, Missing
<1>3. (Several' <=> Both(p, s)') /\ (Missing' <=> Neither(p, s)')
  BY PairView
<1> QED
  BY <1>1, <1>2, <1>3, MeasureBounds DEF Acts

\* The values of the two, for the steps below.
LEMMA PairValues ==
  ASSUME NEW p, NEW s, Primaries = {p}, Standbys = {s}, Types, ProcessModes
  PROVE  /\ p # s /\ p \in Loggers /\ s \in Loggers /\ s \notin Primaries /\ p \notin Standbys
         /\ due[p] \in 0 .. Interval /\ due[s] \in 0 .. Interval
         /\ Since(p) \in 0 .. Interval /\ Since(s) \in 0 .. Interval
         /\ row[p].age \in Nat /\ row[p].connected \in BOOLEAN
         /\ Delay \in Nat
         /\ step[p] = "beats" => due[p] = 0
         /\ step[p] \in {"waits", "beats"} /\ step[s] \in {"waits", "checks", "beats"}
         /\ Alive(p) => gate[p]
         /\ ~Alive(p) => ~connected[p] /\ ~gate[p]
         /\ ~Alive(s) => ~connected[s] /\ ~gate[s]
<1>1. p # s /\ Loggers = {p, s}
  BY PairView
<1>2. Interval \in Nat /\ Delay \in Nat
  BY Numbers, Multiples DEF Delay, Types
<1> QED
  BY <1>1, <1>2 DEF Types, ProcessModes, Since

\* A process goes, comes into the game or leaves it, or its shutdown begins:
\* the loops, the rows and the failures stay as they are.
LEMMA QuietPair ==
  ASSUME NEW p, NEW s, Primaries = {p}, Standbys = {s},
         PairInv(p, s), Types', ProcessModes', Acts, UNCHANGED <<loop, row, errors>>,
         \A l \in {p, s} : /\ process'[l] = process[l] \/ process'[l] \in {"closing", "down"}
                           /\ gate'[l] = gate[l] \/ ~gate'[l]
                           /\ process[l] = "down" => process'[l] = "down"
  PROVE  OverlapInv(p, s)' /\ GapInv(p, s)'
<1>1. UNCHANGED <<Since(p), Since(s), Live(p), Delay, row, step, snap>>
  BY DEF Since, Live, Fresh, Delay, loop
<1>2. /\ Since(p) \in 0 .. Interval /\ Since(s) \in 0 .. Interval /\ row[p].age \in Nat
      /\ Delay \in Nat /\ Interval \in Nat /\ Takeover \in Nat \ {0}
      /\ Alive(p) => gate[p]
  BY PairValues, Numbers DEF PairInv
<1>3. /\ overlap \in Nat /\ overlap' \in Nat /\ overlap' <= overlap
      /\ gap \in Nat /\ gap' \in Nat /\ gap' <= gap
      /\ ~Both(p, s)' => overlap' = 0
      /\ ~Neither(p, s)' => gap' = 0
  BY ActMeasures DEF PairInv
<1>4. Alive(p)' => Alive(p)
  BY DEF Alive
<1>5. Alive(s)' => Alive(s)
  BY DEF Alive
<1>6. /\ process'[p] = "up" => process[p] = "up"
      /\ process'[s] = "up" => process[s] = "up"
      /\ gate'[s] => gate[s]
  BY DEF PairInv, Types
<1>7. OverlapInv(p, s)'
  BY <1>1, <1>2, <1>3, <1>6 DEF PairInv, OverlapInv, Both, Logging
<1>8. GapInv(p, s)'
  BY <1>1, <1>2, <1>3, <1>4, <1>5 DEF PairInv, GapInv
<1> QED
  BY <1>7, <1>8

\* A process starts: it is not in the game.
LEMMA StartPair ==
  ASSUME NEW p, NEW s, Primaries = {p}, Standbys = {s},
         PairInv(p, s), Types', ProcessModes', Acts, NEW l \in {p, s}, Start(l)
  PROVE  OverlapInv(p, s)' /\ GapInv(p, s)'
<1>1. /\ ~connected'[l] /\ ~Both(p, s)' /\ UNCHANGED <<connected, limbo, row, snap, errors>>
      /\ Delay' = Delay /\ Live(p)' = Live(p)
      /\ l \in Loggers /\ ~connected[l] /\ process'[l] = "up"
      /\ step'[l] = "waits" /\ due'[l] = Interval
      /\ gate'[l] = (l \in Primaries)
      /\ \A m \in {p, s} \ {l} : /\ step'[m] = step[m] /\ due'[m] = due[m] /\ gate'[m] = gate[m]
                                 /\ process'[m] = process[m]
  <2>1. p # s /\ Loggers = {p, s}
    BY PairView
  <2> QED
    BY <2>1 DEF Start, game, PairInv, Types, ProcessModes, Alive, Both, Logging, Delay, Live, Fresh,
                InitialGate
<1>2. /\ Since(p) \in 0 .. Interval /\ Since(s) \in 0 .. Interval /\ row[p].age \in Nat
      /\ Delay \in Nat /\ Interval \in Nat \ {0} /\ Takeover \in Nat \ {0}
      /\ p # s
  <2>1. Types /\ ProcessModes
    BY DEF PairInv
  <2> QED
    BY <2>1, PairValues, Numbers
<1>3. /\ overlap \in Nat /\ overlap' = 0
      /\ gap \in Nat /\ gap' \in Nat /\ gap' <= gap
      /\ ~Neither(p, s)' => gap' = 0
  BY <1>1, ActMeasures DEF PairInv
<1>4. /\ Since(p)' = IF l = p THEN Interval ELSE Since(p)
      /\ Since(s)' = IF l = s THEN Interval ELSE Since(s)
      /\ gate'[s] = (l # s /\ gate[s])
  <2>1. s \notin Primaries /\ gate[s] \in BOOLEAN
    BY <1>2, PairValues DEF PairInv, Types, Loggers
  <2> QED
    BY <1>1, <1>2, <2>1 DEF Since
<1>5. OverlapInv(p, s)'
  <2>1. process'[p] = "up" => \/ row'[p].age >= Since(p)'
                              \/ Since(p)' = Interval /\ overlap' = 0
    BY <1>1, <1>2, <1>3, <1>4 DEF PairInv, OverlapInv
  <2>2. gate'[s] /\ Live(p)' => row'[p].age <= Since(s)' + Delay'
    BY <1>1, <1>2, <1>4 DEF PairInv, OverlapInv
  <2>3. overlap' <= 2 * Interval + Delay'
    BY <1>1, <1>2, <1>3
  <2> QED
    BY <1>1, <1>3, <2>1, <2>2, <2>3 DEF OverlapInv
<1>6. GapInv(p, s)'
  BY <1>1, <1>2, <1>3, <1>4 DEF PairInv, GapInv, Alive
<1> QED
  BY <1>5, <1>6

\* clear_heartbeat: the row of the process is out, and no time passes before it
\* exits.
LEMMA ClearPair ==
  ASSUME NEW p, NEW s, Primaries = {p}, Standbys = {s},
         PairInv(p, s), Types', ProcessModes', Acts, NEW l \in {p, s}, Clear(l)
  PROVE  OverlapInv(p, s)' /\ GapInv(p, s)'
<1>1. /\ Since(p) \in 0 .. Interval /\ Since(s) \in 0 .. Interval /\ row[p].age \in Nat
      /\ Delay \in Nat /\ Interval \in Nat \ {0} /\ Takeover \in Nat \ {0}
      /\ p # s /\ p \in Loggers /\ s \in Loggers
  <2>1. Types /\ ProcessModes
    BY DEF PairInv
  <2> QED
    BY <2>1, PairValues, Numbers
<1>2. /\ overlap \in Nat /\ overlap' \in Nat /\ overlap' <= overlap
      /\ gap \in Nat /\ gap' \in Nat /\ gap' <= gap
      /\ ~Both(p, s)' => overlap' = 0
      /\ ~Neither(p, s)' => gap' = 0
  BY ActMeasures DEF PairInv
<1>3. /\ UNCHANGED <<step, snap, gate>> /\ process'[l] = "cleared"
      /\ \A m \in {p, s} \ {l} : process'[m] = process[m] /\ row'[m] = row[m]
      /\ row'[l] = [connected |-> FALSE, age |-> 0]
      /\ process[l] = "closing"
      /\ UNCHANGED <<Since(p), Since(s), Delay>>
  BY <1>1 DEF Clear, PairInv, Types, loop, game, Since, Delay
<1>4. /\ l = p => ~Live(p)'
      /\ l # p => (Live(p)' <=> Live(p)) /\ row'[p] = row[p]
      /\ l = s => ~Neither(p, s)'
      /\ Both(p, s)' <=> Both(p, s)
  <2>1. UNCHANGED <<connected, limbo, gate>>
    BY DEF Clear, game
  <2> QED
    BY <1>1, <1>3, <2>1 DEF Live, Fresh, Neither, Ready, Both, Logging, Alive
<1>5. OverlapInv(p, s)'
  <2>1. gate'[s] /\ Live(p)' => row'[p].age <= Since(s)' + Delay'
    BY <1>1, <1>3, <1>4 DEF PairInv, OverlapInv
  <2>2. process'[p] = "up" => row'[p].age >= Since(p)' \/ (Since(p)' = Interval /\ overlap' = 0)
    BY <1>1, <1>2, <1>3, <1>4 DEF PairInv, OverlapInv
  <2>3. /\ overlap' <= 2 * Interval + Delay'
        /\ step'[p] = "beats" /\ ~snap'[p] => overlap' = 0
    BY <1>1, <1>2, <1>3 DEF PairInv, OverlapInv
  <2>4. ~(process'[p] = "up" /\ process'[s] = "up")
    BY <1>3
  <2> QED
    BY <1>2, <2>1, <2>2, <2>3, <2>4 DEF OverlapInv
<1>6. GapInv(p, s)'
  <2>1. /\ Alive(p)' /\ step'[p] = "beats" /\ snap'[p] => gap' = 0
        /\ Alive(s)' /\ step'[s] = "checks" /\ ~snap'[s] => gap' = 0
    BY <1>2, <1>3 DEF PairInv, GapInv, Alive
  <2>2. IF Live(p)' THEN gap' <= row'[p].age ELSE gap' < Takeover + Since(s)' + Delay'
    <3>1. Live(p) => gap <= row[p].age /\ row[p].age < Takeover
      BY DEF PairInv, GapInv, Live, Fresh
    <3>2. ~Live(p) => gap < Takeover + Since(s) + Delay
      BY DEF PairInv, GapInv
    <3> QED
      BY <1>1, <1>2, <1>3, <1>4, <3>1, <3>2
  <2> QED
    BY <1>2, <2>1, <2>2 DEF GapInv
<1> QED
  BY <1>5, <1>6

\* The ticker fires and the snapshot is taken: what is due is about to happen.
LEMMA WakePair ==
  ASSUME NEW p, NEW s, Primaries = {p}, Standbys = {s},
         PairInv(p, s), Types', ProcessModes', Acts, NEW l \in {p, s}, Wake(l)
  PROVE  OverlapInv(p, s)' /\ GapInv(p, s)'
<1>1. /\ Since(p) \in 0 .. Interval /\ Since(s) \in 0 .. Interval /\ row[p].age \in Nat
      /\ Delay \in Nat /\ Interval \in Nat \ {0} /\ Takeover \in Nat \ {0}
      /\ p # s /\ p \in Loggers /\ s \in Loggers
  <2>1. Types /\ ProcessModes
    BY DEF PairInv
  <2> QED
    BY <2>1, PairValues, Numbers
<1>2. /\ overlap \in Nat /\ overlap' \in Nat /\ overlap' <= overlap
      /\ gap \in Nat /\ gap' \in Nat /\ gap' <= gap
      /\ ~Both(p, s)' => overlap' = 0
      /\ ~Neither(p, s)' => gap' = 0
  BY ActMeasures DEF PairInv
<1>3. /\ UNCHANGED <<process, connected, limbo, gate, row, errors>>
      /\ snap'[l] = connected[l] /\ due[l] >= Interval /\ step[l] = "waits" /\ Alive(l)
      /\ step'[l] = IF l = s THEN "checks" ELSE "beats"
      /\ \A m \in {p, s} \ {l} : step'[m] = step[m] /\ snap'[m] = snap[m] /\ due'[m] = due[m]
  BY <1>1 DEF Wake, PairInv, Types, game
<1>4. /\ UNCHANGED <<Since(p), Since(s), Delay, Live(p), Both(p, s), Neither(p, s)>>
      /\ UNCHANGED <<Alive(p), Alive(s)>>
  <2>1. due[l] \in 0 .. Interval
    BY <1>1 DEF PairInv, Types
  <2>2. Since(p)' = Since(p) /\ Since(s)' = Since(s)
    BY <1>1, <1>3, <2>1 DEF Since
  <2>3. UNCHANGED <<Delay, Live(p), Both(p, s), Neither(p, s), Alive(p), Alive(s)>>
    BY <1>3 DEF Delay, Live, Fresh, Both, Neither, Ready, Logging, Waits, Alive
  <2> QED
    BY <2>2, <2>3
<1>5. OverlapInv(p, s)'
  <2>1. step'[p] = "beats" /\ ~snap'[p] => overlap' = 0
    <3>1. CASE l = p
      BY <1>2, <1>3, <1>4, <3>1 DEF Both, Logging
    <3>2. CASE l # p
      BY <1>2, <1>3, <3>2 DEF PairInv, OverlapInv
    <3> QED
      BY <3>1, <3>2
  <2>2. gate'[s] /\ Live(p)' => row'[p].age <= Since(s)' + Delay'
    BY <1>3, <1>4 DEF PairInv, OverlapInv
  <2>3. process'[p] = "up" => row'[p].age >= Since(p)' \/ (Since(p)' = Interval /\ overlap' = 0)
    BY <1>1, <1>2, <1>3, <1>4 DEF PairInv, OverlapInv
  <2>4. overlap' <= 2 * Interval + Delay'
    BY <1>1, <1>2, <1>4 DEF PairInv, OverlapInv
  <2>5. Both(p, s)' /\ process'[p] = "up" /\ process'[s] = "up" =>
          IF Live(p)' THEN overlap' + row'[p].age <= Interval + Since(s)' + Since(p)' + Delay'
                      ELSE overlap' <= Since(p)' + Delay'
    BY <1>1, <1>2, <1>3, <1>4 DEF PairInv, OverlapInv
  <2> QED
    BY <1>2, <2>1, <2>2, <2>3, <2>4, <2>5 DEF OverlapInv
<1>6. GapInv(p, s)'
  <2>1. Alive(p)' /\ step'[p] = "beats" /\ snap'[p] => gap' = 0
    <3>1. CASE l = p
      <4>1. connected[p] /\ Alive(p) => ~Neither(p, s)
        BY <1>1 DEF Neither, Logging, Waits, PairInv, ProcessModes
      <4> QED
        BY <1>2, <1>3, <1>4, <3>1, <4>1
    <3>2. CASE l # p
      BY <1>2, <1>3, <1>4, <3>2 DEF PairInv, GapInv
    <3> QED
      BY <3>1, <3>2
  <2>2. Alive(s)' /\ step'[s] = "checks" /\ ~snap'[s] => gap' = 0
    <3>1. CASE l = s
      BY <1>2, <1>3, <1>4, <3>1 DEF Neither, Ready
    <3>2. CASE l # s
      BY <1>2, <1>3, <1>4, <3>2 DEF PairInv, GapInv
    <3> QED
      BY <3>1, <3>2
  <2>3. IF Live(p)' THEN gap' <= row'[p].age ELSE gap' < Takeover + Since(s)' + Delay'
    BY <1>1, <1>2, <1>3, <1>4 DEF PairInv, GapInv
  <2> QED
    BY <1>2, <2>1, <2>2, <2>3 DEF GapInv
<1> QED
  BY <1>5, <1>6

\* The check moves the gate: closed when the row is live; open when it is not
\* and the snapshot had the standby in the game.
LEMMA CheckPair ==
  ASSUME NEW p, NEW s, Primaries = {p}, Standbys = {s},
         PairInv(p, s), Types', ProcessModes', Acts, Check(s)
  PROVE  OverlapInv(p, s)' /\ GapInv(p, s)'
<1>1. /\ Since(p) \in 0 .. Interval /\ Since(s) \in 0 .. Interval /\ row[p].age \in Nat
      /\ Delay \in Nat /\ Interval \in Nat \ {0} /\ Takeover \in Nat \ {0}
      /\ p # s /\ p \in Loggers /\ s \in Loggers
  <2>1. Types /\ ProcessModes
    BY DEF PairInv
  <2> QED
    BY <2>1, PairValues, Numbers
<1>2. /\ overlap \in Nat /\ overlap' \in Nat /\ overlap' <= overlap
      /\ gap \in Nat /\ gap' \in Nat /\ gap' <= gap
      /\ ~Both(p, s)' => overlap' = 0
      /\ ~Neither(p, s)' => gap' = 0
  BY ActMeasures DEF PairInv
<1>3. /\ UNCHANGED <<process, connected, limbo, row, snap, errors, due>>
      /\ Alive(s) /\ step[s] = "checks" /\ step'[s] = "beats" /\ step'[p] = step[p]
      /\ gate'[s] = (snap[s] /\ ~Live(p)) /\ gate'[p] = gate[p]
      /\ UNCHANGED <<Delay, Live(p), Alive(p), Alive(s), Since(p)>> /\ Since(s)' \in Nat
  <2>1. LivePrimaries(s) = {} <=> ~Live(p)
    BY PairView
  <2>2. due[s] \in Nat
    BY <1>1 DEF PairInv, Types
  <2>3. UNCHANGED <<process, connected, limbo, row, snap, errors, due>>
    BY DEF Check, game
  <2> QED
    BY <1>1, <2>1, <2>2, <2>3 DEF Check, PairInv, Types, ShouldWrite, Delay, Live, Fresh, Alive, Since
<1>4. OverlapInv(p, s)'
  <2>1. Both(p, s)' => ~Live(p)
    BY <1>3 DEF Both, Logging
  <2>2. /\ step'[p] = "beats" /\ ~snap'[p] => overlap' = 0
        /\ overlap' <= 2 * Interval + Delay'
        /\ process'[p] = "up" => row'[p].age >= Since(p)' \/ (Since(p)' = Interval /\ overlap' = 0)
    BY <1>1, <1>2, <1>3 DEF PairInv, OverlapInv
  <2>3. gate'[s] /\ Live(p)' => row'[p].age <= Since(s)' + Delay'
    BY <1>3
  <2>4. Both(p, s)' /\ process'[p] = "up" /\ process'[s] = "up" => overlap' <= Since(p)' + Delay'
    BY <1>1, <1>2, <1>3, <2>1 DEF PairInv, OverlapInv
  <2> QED
    BY <1>2, <1>3, <2>1, <2>2, <2>3, <2>4 DEF OverlapInv
<1>5. GapInv(p, s)'
  <2>1. /\ Alive(p)' /\ step'[p] = "beats" /\ snap'[p] => gap' = 0
        /\ Alive(s)' /\ step'[s] = "checks" /\ ~snap'[s] => gap' = 0
    BY <1>2, <1>3 DEF PairInv, GapInv
  <2>2. CASE Live(p)
    BY <1>1, <1>2, <1>3, <2>1, <2>2 DEF PairInv, GapInv
  <2>3. CASE ~Live(p)
    <3>1. gap' = 0
      <4>1. CASE snap[s]
        BY <1>2, <1>3, <2>3, <4>1 DEF Neither, Ready, Logging
      <4>2. CASE ~snap[s]
        BY <1>2, <1>3, <4>2 DEF PairInv, GapInv
      <4> QED
        BY <4>1, <4>2
    <3> QED
      BY <1>1, <1>3, <2>1, <2>3, <3>1 DEF GapInv
  <2> QED
    BY <2>2, <2>3
<1> QED
  BY <1>4, <1>5

\* A statement fails: the standby keeps its gate, or a row is not written, for
\* an interval more.
LEMMA FailPair ==
  ASSUME NEW p, NEW s, Primaries = {p}, Standbys = {s},
         PairInv(p, s), Types', ProcessModes', Acts, NEW l \in {p, s}, CheckFails(l) \/ BeatFails(l)
  PROVE  OverlapInv(p, s)' /\ GapInv(p, s)'
<1>1. /\ Since(p) \in 0 .. Interval /\ Since(s) \in 0 .. Interval /\ row[p].age \in Nat
      /\ Delay \in Nat /\ Interval \in Nat \ {0} /\ Takeover \in Nat \ {0}
      /\ p # s /\ p \in Loggers /\ s \in Loggers
  <2>1. Types /\ ProcessModes
    BY DEF PairInv
  <2> QED
    BY <2>1, PairValues, Numbers
<1>2. /\ overlap \in Nat /\ overlap' \in Nat /\ overlap' <= overlap
      /\ gap \in Nat /\ gap' \in Nat /\ gap' <= gap
      /\ ~Both(p, s)' => overlap' = 0
      /\ ~Neither(p, s)' => gap' = 0
  BY ActMeasures DEF PairInv
<1>3. /\ UNCHANGED <<process, connected, limbo, gate, row, snap, due>>
      /\ Alive(l) /\ step[l] # "waits" /\ step'[l] \in {"waits", "beats"}
      /\ step[l] = "beats" => step'[l] = "waits"
      /\ \A m \in {p, s} \ {l} : step'[m] = step[m]
      /\ Delay' = Delay + Interval
  <2>1. errors \in Nat /\ errors' = errors + 1
    BY DEF CheckFails, BeatFails, PairInv, Types
  <2>2. Delay' = Delay + Interval
    BY <2>1, Multiples DEF Delay
  <2>3. UNCHANGED <<process, connected, limbo, gate, row, snap, due>>
    BY DEF CheckFails, BeatFails, game
  <2> QED
    BY <1>1, <2>2, <2>3 DEF CheckFails, BeatFails, PairInv, Types
<1>4. /\ UNCHANGED <<Live(p), Both(p, s), Neither(p, s), Alive(p), Alive(s)>>
      /\ Since(s)' \in Nat /\ Since(s) <= Since(s)' + Interval
      /\ IF l = p THEN Since(p)' = 0 /\ Since(p) = Interval /\ Since(s)' = Since(s)
                  ELSE Since(p)' = Since(p)
      /\ step'[p] = "beats" => step[p] = "beats" /\ l # p
      /\ step'[s] = "checks" => step[s] = "checks" /\ l # s
  <2>1. UNCHANGED <<Live(p), Both(p, s), Neither(p, s), Alive(p), Alive(s)>>
    BY <1>3 DEF Live, Fresh, Both, Neither, Ready, Logging, Waits, Alive
  <2>2. /\ due[s] \in Nat /\ due[s] <= Interval
        /\ step[p] = "beats" => due[p] = 0
        /\ step[p] \in {"waits", "beats"}
        /\ s \notin Primaries
    BY <1>1, PairValues DEF PairInv
  <2> QED
    BY <1>1, <1>3, <2>1, <2>2 DEF Since
<1>5. OverlapInv(p, s)'
  <2>1. gate'[s] /\ Live(p)' => row'[p].age <= Since(s)' + Delay'
    BY <1>1, <1>3, <1>4 DEF PairInv, OverlapInv
  <2>2. process'[p] = "up" => row'[p].age >= Since(p)' \/ (Since(p)' = Interval /\ overlap' = 0)
    BY <1>1, <1>2, <1>3, <1>4 DEF PairInv, OverlapInv
  <2>3. /\ overlap' <= 2 * Interval + Delay'
        /\ step'[p] = "beats" /\ ~snap'[p] => overlap' = 0
    BY <1>1, <1>2, <1>3, <1>4 DEF PairInv, OverlapInv
  <2>4. Both(p, s)' /\ process'[p] = "up" /\ process'[s] = "up" =>
          IF Live(p)' THEN overlap' + row'[p].age <= Interval + Since(s)' + Since(p)' + Delay'
                      ELSE overlap' <= Since(p)' + Delay'
    BY <1>1, <1>2, <1>3, <1>4 DEF PairInv, OverlapInv
  <2> QED
    BY <1>2, <2>1, <2>2, <2>3, <2>4 DEF OverlapInv
<1>6. GapInv(p, s)'
  <2>1. /\ Alive(p)' /\ step'[p] = "beats" /\ snap'[p] => gap' = 0
        /\ Alive(s)' /\ step'[s] = "checks" /\ ~snap'[s] => gap' = 0
    BY <1>2, <1>3, <1>4 DEF PairInv, GapInv
  <2>2. IF Live(p)' THEN gap' <= row'[p].age ELSE gap' < Takeover + Since(s)' + Delay'
    BY <1>1, <1>2, <1>3, <1>4 DEF PairInv, GapInv
  <2> QED
    BY <1>2, <2>1, <2>2 DEF GapInv
<1> QED
  BY <1>5, <1>6

\* The primary's row is written, with what the snapshot said; the standby's own
\* row matters to nobody.
LEMMA BeatPair ==
  ASSUME NEW p, NEW s, Primaries = {p}, Standbys = {s},
         PairInv(p, s), Types', ProcessModes', Acts, NEW l \in {p, s}, Beat(l)
  PROVE  OverlapInv(p, s)' /\ GapInv(p, s)'
<1>1. /\ Since(p) \in 0 .. Interval /\ Since(s) \in 0 .. Interval /\ row[p].age \in Nat
      /\ Delay \in Nat /\ Interval \in Nat \ {0} /\ Takeover \in Nat \ {0}
      /\ p # s /\ p \in Loggers /\ s \in Loggers
  <2>1. Types /\ ProcessModes
    BY DEF PairInv
  <2> QED
    BY <2>1, PairValues, Numbers
<1>2. /\ overlap \in Nat /\ overlap' \in Nat /\ overlap' <= overlap
      /\ gap \in Nat /\ gap' \in Nat /\ gap' <= gap
      /\ ~Both(p, s)' => overlap' = 0
      /\ ~Neither(p, s)' => gap' = 0
  BY ActMeasures DEF PairInv
<1>3. /\ UNCHANGED <<process, connected, limbo, gate, snap, due, Delay>>
      /\ Alive(l) /\ step[l] = "beats" /\ step'[l] = "waits"
      /\ \A m \in {p, s} \ {l} : step'[m] = step[m] /\ row'[m] = row[m]
      /\ row'[l] = [connected |-> snap[l], age |-> 0]
      /\ UNCHANGED <<Both(p, s), Neither(p, s), Alive(p), Alive(s)>>
  <2>1. UNCHANGED <<process, connected, limbo, gate, snap, due, Delay>>
    BY DEF Beat, game, Delay
  <2>2. UNCHANGED <<Both(p, s), Neither(p, s), Alive(p), Alive(s)>>
    BY <2>1 DEF Both, Neither, Ready, Logging, Waits, Alive
  <2> QED
    BY <1>1, <2>1, <2>2 DEF Beat, PairInv, Types
<1>4. /\ Since(s)' = Since(s)
      /\ step'[s] = "checks" => step[s] = "checks"
      /\ snap[p] \in BOOLEAN
      /\ l = p => /\ Since(p) = Interval /\ Since(p)' = 0 /\ row'[p].age = 0 /\ step[p] = "beats"
                  /\ step'[p] = "waits" /\ Alive(p)
                  /\ Live(p)' <=> snap[p]
      /\ l # p => /\ Since(p)' = Since(p) /\ row'[p] = row[p] /\ step'[p] = step[p]
                  /\ Live(p)' <=> Live(p)
  <2>1. /\ step[p] = "beats" => due[p] = 0
        /\ s \notin Primaries /\ snap[p] \in BOOLEAN
    BY <1>1, PairValues DEF PairInv, Types
  <2> QED
    BY <1>1, <1>3, <2>1 DEF Since, Live, Fresh
<1>5. CASE l # p
  <2>1. /\ Since(p)' = Since(p) /\ row'[p] = row[p] /\ step'[p] = step[p]
        /\ Live(p)' <=> Live(p)
    BY <1>4, <1>5
  <2>2. OverlapInv(p, s)'
    <3>1. gate'[s] /\ Live(p)' => row'[p].age <= Since(s)' + Delay'
      BY <1>1, <1>3, <1>4, <2>1 DEF PairInv, OverlapInv
    <3>2. process'[p] = "up" => row'[p].age >= Since(p)' \/ (Since(p)' = Interval /\ overlap' = 0)
      BY <1>1, <1>2, <1>3, <2>1 DEF PairInv, OverlapInv
    <3>3. /\ overlap' <= 2 * Interval + Delay'
          /\ step'[p] = "beats" /\ ~snap'[p] => overlap' = 0
      BY <1>1, <1>2, <1>3, <2>1 DEF PairInv, OverlapInv
    <3>4. Both(p, s)' /\ process'[p] = "up" /\ process'[s] = "up" =>
            IF Live(p)' THEN overlap' + row'[p].age <= Interval + Since(s)' + Since(p)' + Delay'
                        ELSE overlap' <= Since(p)' + Delay'
      BY <1>1, <1>2, <1>3, <1>4, <2>1 DEF PairInv, OverlapInv
    <3> QED
      BY <1>2, <3>1, <3>2, <3>3, <3>4 DEF OverlapInv
  <2>3. GapInv(p, s)'
    <3>1. /\ Alive(p)' /\ step'[p] = "beats" /\ snap'[p] => gap' = 0
          /\ Alive(s)' /\ step'[s] = "checks" /\ ~snap'[s] => gap' = 0
      BY <1>2, <1>3, <1>4, <2>1 DEF PairInv, GapInv
    <3>2. IF Live(p)' THEN gap' <= row'[p].age ELSE gap' < Takeover + Since(s)' + Delay'
      BY <1>1, <1>2, <1>3, <1>4, <2>1 DEF PairInv, GapInv
    <3> QED
      BY <1>2, <3>1, <3>2 DEF GapInv
  <2> QED
    BY <2>2, <2>3
<1>6. CASE l = p
  <2>1. /\ Since(p) = Interval /\ Since(p)' = 0 /\ row'[p].age = 0 /\ step[p] = "beats"
        /\ step'[p] = "waits" /\ Alive(p) /\ (Live(p)' <=> snap[p])
    BY <1>4, <1>6
  <2>2. overlap <= Interval + Since(s) + Delay \/ process[p] # "up" \/ process[s] # "up"
    BY <1>1, <1>2, <2>1 DEF PairInv, OverlapInv
  <2>3. OverlapInv(p, s)'
    <3>1. /\ gate'[s] /\ Live(p)' => row'[p].age <= Since(s)' + Delay'
          /\ row'[p].age >= Since(p)'
      BY <1>1, <1>3, <1>4, <2>1
    <3>2. overlap' <= 2 * Interval + Delay'
      BY <1>1, <1>2, <1>3 DEF PairInv, OverlapInv
    <3>3. ~snap[p] => overlap' = 0
      BY <1>2, <2>1 DEF PairInv, OverlapInv
    <3>4. Both(p, s)' /\ process'[p] = "up" /\ process'[s] = "up" =>
            IF Live(p)' THEN overlap' + row'[p].age <= Interval + Since(s)' + Since(p)' + Delay'
                        ELSE overlap' <= Since(p)' + Delay'
      BY <1>1, <1>2, <1>3, <1>4, <2>1, <2>2, <3>3
    <3> QED
      BY <1>2, <2>1, <3>1, <3>2, <3>4 DEF OverlapInv
  <2>4. GapInv(p, s)'
    <3>1. Alive(s)' /\ step'[s] = "checks" /\ ~snap'[s] => gap' = 0
      BY <1>2, <1>3, <1>4 DEF PairInv, GapInv
    <3>2. CASE snap[p]
      <4>1. gap' = 0
        BY <1>2, <2>1, <3>2 DEF PairInv, GapInv
      <4> QED
        BY <1>1, <2>1, <3>1, <3>2, <4>1 DEF GapInv
    <3>3. CASE ~snap[p]
      <4>1. gap < Takeover + Since(s) + Delay
        BY <1>1, <1>2 DEF PairInv, GapInv, Live, Fresh
      <4> QED
        BY <1>1, <1>2, <1>3, <1>4, <2>1, <3>1, <3>3, <4>1 DEF GapInv
    <3> QED
      BY <3>2, <3>3
  <2> QED
    BY <2>3, <2>4
<1> QED
  BY <1>5, <1>6

\* Time passes: every loop that is alive waits, and none is due.
LEMMA TickPair ==
  ASSUME NEW p, NEW s, Primaries = {p}, Standbys = {s}, PairInv(p, s), Types', ProcessModes', Tick,
         overlap' = Measure(overlap, Several', 1), gap' = Measure(gap, Missing', 1)
  PROVE  OverlapInv(p, s)' /\ GapInv(p, s)'
<1>1. /\ Since(p) \in 0 .. Interval /\ Since(s) \in 0 .. Interval /\ row[p].age \in Nat
      /\ Delay \in Nat /\ Interval \in Nat \ {0} /\ Takeover \in Nat \ {0}
      /\ p # s /\ p \in Loggers /\ s \in Loggers
      /\ 2 * Interval <= Takeover
      /\ ~Alive(s) => ~gate[s]
  <2>1. Types /\ ProcessModes
    BY DEF PairInv
  <2> QED
    BY <2>1, PairValues, Numbers
<1>2. /\ overlap \in Nat /\ overlap' \in Nat /\ overlap' <= overlap + 1
      /\ gap \in Nat /\ gap' \in Nat /\ gap' <= gap + 1
      /\ ~Both(p, s)' => overlap' = 0
      /\ ~Neither(p, s)' => gap' = 0
  <2>1. MaxErrors \in Nat /\ overlap \in Nat /\ gap \in Nat
    BY StandbyAssumption DEF StandbyAssumption, PairInv, Types
  <2>2. Several' \in BOOLEAN /\ Missing' \in BOOLEAN
    BY DEF Several, Missing
  <2>3. (Several' <=> Both(p, s)') /\ (Missing' <=> Neither(p, s)')
    BY PairView
  <2> QED
    BY <2>1, <2>2, <2>3, MeasureBounds
<1>3. /\ UNCHANGED <<process, connected, limbo, gate, snap, step, Delay>>
      /\ UNCHANGED <<Both(p, s), Neither(p, s), Alive(p), Alive(s)>>
      /\ \A l \in {p, s} : Alive(l) => /\ process[l] = "up" /\ step[l] = "waits"
                                       /\ due[l] < Interval /\ due'[l] = due[l] + 1
      /\ \A l \in {p, s} : ~Alive(l) => due'[l] = due[l]
      /\ row'[p].connected = row[p].connected /\ row'[p].age = Older(row[p].age)
  <2>1. UNCHANGED <<process, connected, limbo, gate, snap, step, Delay>>
    BY DEF Tick, game, Delay
  <2>2. UNCHANGED <<Both(p, s), Neither(p, s), Alive(p), Alive(s)>>
    BY <2>1 DEF Both, Neither, Ready, Logging, Waits, Alive
  <2>3. row'[p] = [row[p] EXCEPT !.age = Older(@)] /\ row[p] \in [connected : BOOLEAN, age : Nat]
    BY <1>1 DEF Tick, PairInv, Types
  <2> QED
    BY <1>1, <2>1, <2>2, <2>3 DEF Tick
<1>4. /\ Alive(p) => Since(p)' = Since(p) + 1 /\ Since(p) < Interval
      /\ Alive(s) => Since(s)' = Since(s) + 1
      /\ Since(s)' \in Nat /\ Since(p)' \in Nat /\ Since(p)' <= Interval /\ Since(s)' <= Interval
      /\ due[p] \in 0 .. Interval /\ due[s] \in 0 .. Interval
  <2>1. due[p] \in 0 .. Interval /\ due[s] \in 0 .. Interval
    BY <1>1 DEF PairInv, Types
  <2> QED
    BY <1>1, <1>3, <2>1 DEF Since
<1>5. /\ row'[p].age = row[p].age + 1 \/ (row'[p].age = row[p].age /\ row[p].age >= Takeover + Interval)
      /\ Live(p)' <=> row[p].connected /\ row'[p].age < Takeover
      /\ Live(p) <=> row[p].connected /\ row[p].age < Takeover
      /\ row'[p].age \in Nat
  BY <1>1, <1>3 DEF Older, Live, Fresh
<1>6. OverlapInv(p, s)'
  <2>1. gate'[s] /\ Live(p)' => row'[p].age <= Since(s)' + Delay'
    <3>1. SUFFICES ASSUME gate[s], Live(p)' PROVE row'[p].age <= Since(s)' + Delay'
      BY <1>3
    <3>2. Live(p) /\ row'[p].age = row[p].age + 1 /\ Since(s)' = Since(s) + 1
      BY <1>1, <1>4, <1>5, <3>1
    <3> QED
      BY <1>1, <1>3, <3>1, <3>2 DEF PairInv, OverlapInv
  <2>2. process'[p] = "up" => row'[p].age >= Since(p)'
    <3>1. SUFFICES ASSUME process[p] = "up" PROVE row'[p].age >= Since(p)'
      BY <1>3
    <3>2. Since(p)' = Since(p) + 1 /\ Since(p) < Interval
      BY <1>4, <3>1 DEF Alive
    <3>3. row[p].age >= Since(p)
      BY <1>1, <3>1, <3>2 DEF PairInv, OverlapInv
    <3> QED
      BY <1>1, <1>5, <3>2, <3>3
  <2>3. step'[p] = "beats" /\ ~snap'[p] => overlap' = 0
    BY <1>2, <1>3 DEF Both, Logging
  <2>4. ASSUME Both(p, s)
        PROVE  /\ IF Live(p)' THEN overlap' + row'[p].age <= Interval + Since(s)' + Since(p)' + Delay'
                              ELSE overlap' <= Since(p)' + Delay'
               /\ row'[p].age >= Since(p)'
    <3>1. /\ Alive(p) /\ Alive(s) /\ process[p] = "up" /\ process[s] = "up"
      BY <1>3, <2>4 DEF Both, Logging
    <3>2. IF Live(p) THEN overlap + row[p].age <= Interval + Since(s) + Since(p) + Delay
                     ELSE overlap <= Since(p) + Delay
      BY <2>4, <3>1 DEF PairInv, OverlapInv
    <3>3. Since(p)' = Since(p) + 1 /\ Since(s)' = Since(s) + 1
      BY <1>4, <3>1
    <3> QED
      BY <1>1, <1>2, <1>3, <1>4, <1>5, <2>2, <3>1, <3>2, <3>3
  <2>5. overlap' <= 2 * Interval + Delay'
    <3>1. CASE Both(p, s)
      BY <1>1, <1>2, <1>3, <1>4, <1>5, <2>4, <3>1
    <3>2. CASE ~Both(p, s)
      BY <1>1, <1>2, <1>3, <3>2
    <3> QED
      BY <3>1, <3>2
  <2> QED
    BY <1>2, <1>3, <2>1, <2>2, <2>3, <2>4, <2>5 DEF OverlapInv
<1>7. GapInv(p, s)'
  <2>1. /\ Alive(p)' /\ step'[p] = "beats" /\ snap'[p] => gap' = 0
        /\ Alive(s)' /\ step'[s] = "checks" /\ ~snap'[s] => gap' = 0
    BY <1>3
  <2>2. IF Live(p)' THEN gap' <= row'[p].age ELSE gap' < Takeover + Since(s)' + Delay'
    <3>1. CASE Neither(p, s)
      <4>1. Since(s)' = Since(s) + 1
        BY <1>4, <3>1 DEF Neither, Ready, Alive
      <4>2. IF Live(p) THEN gap <= row[p].age ELSE gap < Takeover + Since(s) + Delay
        BY DEF PairInv, GapInv
      <4> QED
        BY <1>1, <1>2, <1>3, <1>5, <4>1, <4>2
    <3>2. CASE ~Neither(p, s)
      BY <1>1, <1>2, <1>3, <1>4, <1>5, <3>2
    <3> QED
      BY <3>1, <3>2
  <2> QED
    BY <1>2, <2>1, <2>2 DEF GapInv
<1> QED
  BY <1>6, <1>7

LEMMA ActPair ==
  ASSUME NEW p, NEW s, Primaries = {p}, Standbys = {s},
         PairInv(p, s), Types', ProcessModes', Acts, NEW l \in {p, s}, Act(l)
  PROVE  OverlapInv(p, s)' /\ GapInv(p, s)'
<1>1. l \in Loggers /\ p # s /\ Loggers = {p, s}
  BY PairView
<1>2. CASE Start(l)
  BY <1>2, StartPair
<1>3. CASE LoggerLogin(l) \/ EnterQueue(l) \/ LeaveQueue(l) \/ LoggerDisconnect(l)
  BY <1>3, QuietPair DEF LoggerLogin, EnterQueue, LeaveQueue, LoggerDisconnect
<1>4. CASE Kill(l) \/ Exit(l) \/ Interrupt(l)
  <2>1. /\ UNCHANGED <<loop, row, errors>>
        /\ process[l] # "down"
        /\ \/ /\ process' = [process EXCEPT ![l] = "down"]
              /\ gate' = [gate EXCEPT ![l] = FALSE]
           \/ /\ process' = [process EXCEPT ![l] = "closing"]
              /\ gate' = gate
    BY <1>4 DEF Kill, Exit, Interrupt, Gone, Alive
  <2>2. \A m \in {p, s} : /\ process'[m] = process[m] \/ process'[m] \in {"closing", "down"}
                          /\ gate'[m] = gate[m] \/ ~gate'[m]
                          /\ process[m] = "down" => process'[m] = "down"
    BY <1>1, <2>1 DEF PairInv, Types
  <2> QED
    BY <2>1, <2>2, QuietPair
<1>5. CASE Clear(l)
  BY <1>5, ClearPair
<1>6. CASE Wake(l)
  BY <1>6, WakePair
<1>7. CASE Check(l)
  <2>1. l = s
    BY <1>1, <1>7 DEF Check, PairInv, ProcessModes
  <2> QED
    BY <1>7, <2>1, CheckPair
<1>8. CASE CheckFails(l) \/ BeatFails(l)
  BY <1>8, FailPair
<1>9. CASE Beat(l)
  BY <1>9, BeatPair
<1> QED
  BY <1>2, <1>3, <1>4, <1>5, <1>6, <1>7, <1>8, <1>9 DEF Act

LEMMA PairStep ==
  ASSUME NEW p, NEW s, Primaries = {p}, Standbys = {s}
  PROVE  PairInv(p, s) /\ [StandbyNext]_standbyVars => PairInv(p, s)'
<1> SUFFICES ASSUME PairInv(p, s), [StandbyNext]_standbyVars PROVE PairInv(p, s)'
  OBVIOUS
<1>1. Types' /\ ProcessModes'
  BY NextTypes, NextModes DEF PairInv
<1>2. Loggers = {p, s}
  BY PairView
<1>3. CASE UNCHANGED standbyVars
  BY <1>3 DEF standbyVars, PairInv, Types, ProcessModes, OverlapInv, GapInv, Both, Neither, Ready, Logging, Waits,
              Alive, Since, Live, Fresh, Delay
<1>4. CASE \E l \in Loggers : Act(l) /\ Acts
  BY <1>1, <1>2, <1>4, ActPair DEF PairInv
<1>5. CASE /\ Tick
           /\ overlap' = Measure(overlap, Several', 1)
           /\ gap' = Measure(gap, Missing', 1)
  BY <1>1, <1>5, TickPair DEF PairInv
<1> QED
  BY <1>3, <1>4, <1>5 DEF StandbyNext, Acts

LEMMA PairStarts ==
  ASSUME NEW p, NEW s, Primaries = {p}, Standbys = {s}
  PROVE  StandbyInit => PairInv(p, s)
<1> SUFFICES ASSUME StandbyInit PROVE PairInv(p, s)
  OBVIOUS
<1>1. p # s /\ Loggers = {p, s}
  BY PairView
<1>2. Delay = 0
  BY Numbers DEF Delay, StandbyInit
<1>3. [connected |-> FALSE, age |-> Takeover + Interval] \in [connected : BOOLEAN, age : Nat]
  BY Numbers
<1>4. Types
  BY <1>3, Numbers DEF StandbyInit, Types
<1>5. ProcessModes
  BY <1>1 DEF StandbyInit, ProcessModes, Alive, Loggers
<1>6. ~Live(p) /\ Since(p) = 0 /\ Since(s) = 0 /\ ~Both(p, s) /\ ~Neither(p, s)
  BY <1>1 DEF StandbyInit, Live, Since, Both, Neither, Ready, Logging, Alive
<1>7. OverlapInv(p, s) /\ GapInv(p, s)
  BY <1>1, <1>2, <1>6, Numbers DEF StandbyInit, OverlapInv, GapInv, Alive
<1> QED
  BY <1>4, <1>5, <1>7 DEF PairInv

\* The variables have their types, whatever loggers there are.
THEOREM StandbyTypes == StandbySpec => [](Types /\ ProcessModes)
<1>1. StandbyInit => Types /\ ProcessModes
  <2>1. [connected |-> FALSE, age |-> Takeover + Interval] \in [connected : BOOLEAN, age : Nat]
    BY Numbers
  <2> QED
    BY <2>1, Numbers DEF StandbyInit, Types, ProcessModes, Alive, Loggers
<1>2. (Types /\ ProcessModes) /\ [StandbyNext]_standbyVars => (Types /\ ProcessModes)'
  BY NextTypes, NextModes
<1> QED
  BY <1>1, <1>2, PTL DEF StandbySpec

\* A primary that comes back and the standby that stood in for it log together
\* for two heartbeat intervals at most, and one more for every statement that
\* failed (standby.rs, the heartbeat and takeover loop).
THEOREM OverlapIsBounded ==
  ASSUME NEW p, NEW s, Primaries = {p}, Standbys = {s}
  PROVE  StandbySpec => []OverlapBounded
<1>1. PairInv(p, s) => OverlapBounded
  BY Multiples DEF PairInv, OverlapInv, OverlapBounded, Types, Delay
<1>2. StandbyInit => PairInv(p, s)
  BY PairStarts
<1>3. PairInv(p, s) /\ [StandbyNext]_standbyVars => PairInv(p, s)'
  BY PairStep
<1> QED
  BY <1>1, <1>2, <1>3, PTL DEF StandbySpec

\* However the primary went, the standby in the game logs within the takeover
\* time and one interval, and one more for every statement that failed.
THEOREM GapIsBounded ==
  ASSUME NEW p, NEW s, Primaries = {p}, Standbys = {s}
  PROVE  StandbySpec => []GapBounded
<1>1. PairInv(p, s) => GapBounded
  <2> SUFFICES ASSUME PairInv(p, s) PROVE gap < Takeover + (1 + errors) * Interval
    BY DEF GapBounded
  <2>1. /\ Since(s) \in 0 .. Interval /\ row[p].age \in Nat /\ Delay \in Nat
        /\ gap \in Nat /\ errors \in Nat
    BY PairValues DEF PairInv, Types
  <2>2. (1 + errors) * Interval = Interval + Delay
    BY <2>1, Multiples DEF Delay
  <2>3. gap < Takeover + Interval + Delay
    BY <2>1, Numbers DEF PairInv, GapInv, Live, Fresh
  <2> QED
    BY <2>1, <2>2, <2>3, Numbers
<1>2. StandbyInit => PairInv(p, s)
  BY PairStarts
<1>3. PairInv(p, s) /\ [StandbyNext]_standbyVars => PairInv(p, s)'
  BY PairStep
<1> QED
  BY <1>1, <1>2, <1>3, PTL DEF StandbySpec

-----------------------------------------------------------------------------
(* What a logger does on its game server (GameSession).                    *)

GameTypes ==
  /\ mode \in Modes /\ phase \in {"out", "login", "game"}
  /\ conn \in 0 .. MaxConns /\ (phase # "out" => conn > 0)

Portals == {"none", "lobby", "main"}
Walk == [of : Nat, at : {"begin", "walk"}, tries : Nat, portal : Portals]
Mark == [how : {"none", "skipped", "left"}, saw : Spots, portal : Portals, moved : BOOLEAN]

LobbyTypes ==
  /\ where \in Spots /\ inMain \in BOOLEAN
  /\ mark \in Mark
  /\ walks \subseteq Walk /\ \A w \in walks : w.at = "walk" => w.portal # "none"

\* A logger without a connection is in no main world; one that takes itself to
\* be in the main world has left the lobby, or may be wrong.
MayBeWrong(m) ==
  \/ m.how = "skipped" /\ m.saw \in Lobby
  \/ m.how = "left" /\ (m.saw = "far" \/ m.portal = "main")
  \/ m.moved

MainInv ==
  mode = "portal" =>
    /\ phase = "out" => ~inMain
    /\ inMain => where \notin Lobby \/ MayBeWrong(mark)

\* What the tasks of n connections may have said.
Spoken(n) == [in : Nat, by : 0 .. n, command : Nat]

\* A connection's list of commands has one task, which is ahead of what it has
\* said, and is only started while nothing of it is.
SayInv ==
  /\ sending \subseteq [of : 0 .. conn, next : Nat]
  /\ said \in Seq(Spoken(conn))
  /\ \A t, u \in sending : t.of = u.of => t = u
  /\ \A t \in sending, i \in 1 .. Len(said) : said[i].by = t.of => said[i].command < t.next
  /\ ~sent => /\ \A t \in sending : t.of # conn
              /\ \A i \in 1 .. Len(said) : said[i].by # conn
  /\ \A i, j \in 1 .. Len(said) : i # j /\ said[i].by = said[j].by => said[i].command # said[j].command

\* While a connection lasts its place only becomes smaller, so that a task of
\* its own knows one at which the present one is as good.
PlaceInv ==
  /\ place \in Nat
  /\ answering \subseteq [of : 0 .. conn, place : Nat, leave : BOOLEAN]
  /\ \A h \in answering : /\ h.of = conn => place <= h.place
                          /\ h.leave => h.place = 0
  /\ ClosedInTime

\* Once no session's end is awaited, some timer is as old as the last of them,
\* until the logger has exited.
OfflineInv ==
  /\ offline \in Nat /\ timers \subseteq 0 .. Wait /\ exited \in BOOLEAN /\ ending \in Nat
  /\ mode = "offline" =>
       /\ exited => phase = "out"
       /\ phase = "out" /\ conn > 0 =>
            /\ offline <= Wait
            /\ ending > 0 => offline = 0
            /\ exited \/ ending > 0 \/ \E a \in timers : a >= offline

Sources == {"command_tree", "tab_complete", "register_channel", "chat"}
Finding == [source : Sources, of : Nat]
Searches ==
  [started : BOOLEAN, ticks : Nat, saved : BOOLEAN, found : SUBSET Finding, alias : BOOLEAN,
   pending : Nat, tabRequested : BOOLEAN, waitingChat : BOOLEAN]

ProbeTypes ==
  /\ probe \in Searches
  /\ request \in Nat
  /\ saving \subseteq [of : 1 .. MaxConns, found : SUBSET Finding]
  /\ takes \in [1 .. MaxConns -> Nat] /\ lived \in [1 .. MaxConns -> Nat]

\* The search of the present connection: it is under way from the login, keeps
\* the connection's own clock and has not come to its end; or it has been
\* taken, and only a spawn starts another; or it was marked as saved when it
\* was not.
Searching ==
  conn > 0 =>
    /\ takes[conn] = 0 /\ conn \notin silenced =>
         probe.started /\ ~probe.saved /\ lived[conn] = probe.ticks /\ lived[conn] < SaveAt
    /\ takes[conn] >= 1 /\ conn \notin restarted => takes[conn] = 1 /\ (~probe.started \/ probe.saved)

ProbeInv ==
  /\ ProbeTypes
  /\ mode = "probe" => Searching
  /\ mode # "probe" => /\ saving = {} /\ probe.found = {} /\ probe.pending = 0
                       /\ \A c \in 1 .. MaxConns : takes[c] = 0 /\ lived[c] = 0
  /\ \A c \in 1 .. MaxConns : c > conn => takes[c] = 0 /\ lived[c] = 0
  /\ \A s \in saving : s.of <= conn /\ takes[s.of] >= 1
  /\ \A f \in probe.found : f.of = conn
  /\ ScansAccounted

GameInv == GameTypes /\ LobbyTypes /\ MainInv /\ SayInv /\ PlaceInv /\ OfflineInv /\ ProbeInv

-----------------------------------------------------------------------------
(* Steps and the parts they leave alone.                                   *)

LEMMA PartsMove ==
  LobbyStep \/ QueueStep \/ ProbeStep => UNCHANGED <<mode, phase, conn>>
<1>1. LobbyStep => UNCHANGED <<mode, phase, conn>>
  BY DEF LobbyStep, SkipWalk, FindPortal, NoPortal, Approach, Arrive, GiveUp, LookAround, MoveBot, LobbyChat, Judge,
         WorkerChat, SendCommand, StartTimer, Expire, LobbyTick, WalkUnchanged, gameVars
<1>2. QueueStep => UNCHANGED <<mode, phase, conn>>
  BY DEF QueueStep, Advance, ReadPlace, AnswerPlace, ChangeCount, ReadCount, Age, WriteCount, WriteFails,
         PlaceUnchanged, CountUnchanged, gameVars
<1>3. ProbeStep => UNCHANGED <<mode, phase, conn>>
  BY DEF ProbeStep, ReadCommands, ReadSuggestions, ReadChannel, ReadPluginsChat, ProbeTick, IdleTick, SaveScan,
         SaveFails, Collected, gameVars
<1> QED
  BY <1>1, <1>2, <1>3

\* What a step is to the lobby's variables, to the queue's and to the probe's.
LEMMA LobbyPart ==
  ASSUME Next
  PROVE  \/ Login /\ mode \in LobbyModes /\ LobbyLogin
         \/ Spawn /\ mode \in LobbyModes /\ LobbySpawn
         \/ Disconnect /\ mode \in LobbyModes /\ LobbyDisconnect
         \/ LobbyStep
         \/ (Login \/ Spawn \/ Disconnect) /\ mode \notin LobbyModes /\ UNCHANGED lobbyVars
         \/ UNCHANGED <<mode, phase, conn, lobbyVars>>
  BY PartsMove DEF Next, Together

LEMMA QueuePart ==
  ASSUME Next
  PROVE  \/ Login /\ QueueLogin
         \/ (Login \/ Spawn \/ Disconnect) /\ UNCHANGED queueVars
         \/ QueueStep
         \/ UNCHANGED <<mode, phase, conn, queueVars>>
  BY PartsMove DEF Next, Together

LEMMA ProbePart ==
  ASSUME Next
  PROVE  \/ Login /\ mode = "probe" /\ ProbeLogin
         \/ Spawn /\ mode = "probe" /\ ProbeSpawn
         \/ Login /\ mode # "probe" /\ UNCHANGED probeVars
         \/ Spawn /\ mode # "probe" /\ UNCHANGED probeVars
         \/ Disconnect /\ UNCHANGED probeVars
         \/ ProbeStep
         \/ UNCHANGED <<mode, phase, conn, probeVars>>
  BY PartsMove DEF Next, Together

LEMMA GameTypesKept ==
  ASSUME GameTypes, [Next]_vars
  PROVE  GameTypes'
<1>1. CASE UNCHANGED vars
  BY <1>1 DEF GameTypes, vars, gameVars
<1>2. CASE Login
  BY <1>2, GameAssumption DEF GameTypes, Login
<1>3. CASE Spawn \/ Disconnect
  BY <1>3 DEF GameTypes, Spawn, Disconnect
<1>4. CASE UNCHANGED <<mode, phase, conn>>
  BY <1>4 DEF GameTypes
<1> QED
  BY <1>1, <1>2, <1>3, <1>4, PartsMove DEF Next

-----------------------------------------------------------------------------
(* The lobby, the commands and the exit.                                   *)

LEMMA WalkStarts ==
  ASSUME GameTypes, LobbyTypes, StartWalk
  PROVE  walks' \subseteq Walk /\ \A w \in walks' : w.at = "walk" => w.portal # "none"
<1> DEFINE new == [of |-> conn, at |-> "begin", tries |-> 0, portal |-> "none"]
<1>1. walks' \subseteq walks \cup {new}
  BY DEF StartWalk
<1>2. new \in Walk /\ new.at # "walk"
  BY DEF GameTypes, Walk, Portals
<1> HIDE DEF new
<1> QED
  BY <1>1, <1>2 DEF LobbyTypes

LEMMA MainKept ==
  ASSUME GameTypes, LobbyTypes, MainInv, Next
  PROVE  LobbyTypes' /\ MainInv'
<1>1. CASE Login /\ mode \in LobbyModes /\ LobbyLogin
  <2>1. phase = "out" /\ UNCHANGED <<mode, inMain, mark, walks>> /\ where' \in Spots
    BY <1>1 DEF Login, LobbyLogin, LobbyTypes
  <2> QED
    BY <2>1 DEF LobbyTypes, MainInv
<1>2. CASE Spawn /\ mode \in LobbyModes /\ LobbySpawn
  <2>1. /\ phase' # "out" /\ UNCHANGED <<mode, where, mark>>
        /\ inMain' \in BOOLEAN /\ (mode = "portal" => inMain' = inMain)
    BY <1>2 DEF Spawn, LobbySpawn, LobbyTypes
  <2>2. walks' \subseteq Walk /\ \A w \in walks' : w.at = "walk" => w.portal # "none"
    BY <1>2, WalkStarts DEF LobbySpawn
  <2> QED
    BY <2>1, <2>2 DEF LobbyTypes, MainInv
<1>3. CASE Disconnect /\ mode \in LobbyModes /\ LobbyDisconnect
  BY <1>3 DEF Disconnect, LobbyDisconnect, LobbyTypes, MainInv
<1>4. CASE (Login \/ Spawn \/ Disconnect) /\ mode \notin LobbyModes /\ UNCHANGED lobbyVars
  <2>1. mode # "portal" /\ UNCHANGED <<mode, where, inMain, mark, walks>>
    BY <1>4 DEF GameTypes, LobbyModes, QueueModes, lobbyVars, walkVars, Login, Spawn, Disconnect
  <2> QED
    BY <2>1 DEF LobbyTypes, MainInv
<1>5. CASE UNCHANGED <<mode, phase, conn, lobbyVars>>
  BY <1>5 DEF lobbyVars, walkVars, LobbyTypes, MainInv
<1>6. CASE LobbyStep
  <2>0. UNCHANGED <<mode, phase, conn>>
    BY <1>6, PartsMove
  <2>1. ASSUME NEW w \in walks, NEW how \in {"skipped", "left"}, EndWalk(w, how), phase # "out",
               how = "left" /\ where = "near" => w.portal = "main"
        PROVE  LobbyTypes' /\ MainInv'
    <3> DEFINE now == [how |-> how, saw |-> where, portal |-> w.portal, moved |-> FALSE]
    <3>1. inMain' = TRUE /\ mark' = now /\ UNCHANGED where /\ walks' \subseteq walks
      BY <2>1 DEF EndWalk
    <3>2. now \in Mark
      BY DEF LobbyTypes, Walk, Mark
    <3>3. where \in Lobby => MayBeWrong(now)
      BY <2>1 DEF MayBeWrong, Lobby
    <3> HIDE DEF now
    <3> QED
      BY <2>0, <2>1, <3>1, <3>2, <3>3 DEF LobbyTypes, MainInv
  <2>2. ASSUME NEW w \in walks, SkipWalk(w)
        PROVE  LobbyTypes' /\ MainInv'
    BY <2>1, <2>2 DEF SkipWalk
  <2>3. ASSUME NEW w \in walks, Arrive(w)
        PROVE  LobbyTypes' /\ MainInv'
    <3>1. where = "near" => w.portal = "main"
      BY <2>3 DEF Arrive, MayHaveLeft, SameWorld, World, Lobby, LobbyTypes, Walk, Portals
    <3> QED
      BY <2>1, <2>3, <3>1 DEF Arrive, MayHaveLeft
  <2>4. ASSUME NEW w \in walks, NoPortal(w) \/ GiveUp(w)
        PROVE  LobbyTypes' /\ MainInv'
    BY <2>0, <2>4 DEF NoPortal, GiveUp, EndWalk, LobbyTypes, MainInv
  <2>5. ASSUME NEW w \in walks, FindPortal(w)
        PROVE  LobbyTypes' /\ MainInv'
    <3> DEFINE on == [w EXCEPT !.at = "walk", !.portal = World(where)]
    <3>1. walks' = (walks \ {w}) \cup {on} /\ UNCHANGED <<where, inMain, mark>>
      BY <2>5 DEF FindPortal
    <3>2. on \in Walk /\ on.portal # "none"
      BY DEF LobbyTypes, Walk, World, Portals
    <3> HIDE DEF on
    <3> QED
      BY <2>0, <3>1, <3>2 DEF LobbyTypes, MainInv
  <2>6. ASSUME NEW w \in walks, Approach(w)
        PROVE  LobbyTypes' /\ MainInv'
    <3> DEFINE on == [w EXCEPT !.tries = @ + 1]
    <3>1. /\ walks' = (walks \ {w}) \cup {on} /\ UNCHANGED <<inMain, mark>>
          /\ where' \in Spots /\ (where \notin Lobby => where' \notin Lobby)
      BY <2>6 DEF Approach, LobbyTypes, World, Lobby
    <3>2. on \in Walk /\ (on.at = "walk" => on.portal # "none")
      BY DEF LobbyTypes, Walk
    <3> HIDE DEF on
    <3> QED
      BY <2>0, <3>1, <3>2 DEF LobbyTypes, MainInv
  <2>7. CASE MoveBot
    <3>1. UNCHANGED inMain /\ where' \in Spots /\ mark' = [mark EXCEPT !.moved = TRUE] /\ phase = "game"
      BY <2>7 DEF MoveBot, Spots, Lobby
    <3>2. mark' \in Mark /\ mark'.moved
      BY <3>1 DEF LobbyTypes, Mark
    <3>3. walks' \subseteq Walk /\ \A w \in walks' : w.at = "walk" => w.portal # "none"
      BY <2>7, WalkStarts DEF MoveBot
    <3> QED
      BY <2>0, <3>1, <3>2, <3>3 DEF LobbyTypes, MainInv, MayBeWrong
  <2>8. CASE LobbyChat
    <3>1. walks' \subseteq Walk /\ \A w \in walks' : w.at = "walk" => w.portal # "none"
      BY <2>8, WalkStarts DEF LobbyChat
    <3> QED
      BY <2>0, <2>8, <3>1 DEF LobbyChat, LobbyTypes, MainInv
  <2>9. CASE UNCHANGED <<where, inMain, mark, walks>>
    BY <2>0, <2>9 DEF LobbyTypes, MainInv
  <2>10. LookAround \/ (\E c \in guards : Judge(c)) \/ WorkerChat \/ (\E t \in sending : SendCommand(t))
           \/ StartTimer \/ Expire \/ LobbyTick => UNCHANGED <<where, inMain, mark, walks>>
    BY DEF LookAround, Judge, WorkerChat, SendCommand, StartTimer, Expire, LobbyTick, walkVars
  <2> QED
    BY <1>6, <2>2, <2>3, <2>4, <2>5, <2>6, <2>7, <2>8, <2>9, <2>10 DEF LobbyStep
<1> QED
  BY LobbyPart, <1>1, <1>2, <1>3, <1>4, <1>5, <1>6

LEMMA OfflineKept ==
  ASSUME GameTypes, OfflineInv, Next
  PROVE  OfflineInv'
<1> USE LobbyAssumption
<1>1. CASE Login /\ mode \in LobbyModes /\ LobbyLogin
  BY <1>1 DEF Login, LobbyLogin, OfflineInv
<1>2. CASE Spawn /\ mode \in LobbyModes /\ LobbySpawn
  <2>1. UNCHANGED <<mode, conn, offline, ending, timers, exited>> /\ phase # "out" /\ phase' # "out"
    BY <1>2 DEF Spawn, LobbySpawn, exitVars
  <2> QED
    BY <2>1 DEF OfflineInv
<1>3. CASE Disconnect /\ mode \in LobbyModes /\ LobbyDisconnect
  <2>1. /\ UNCHANGED <<mode, conn, timers, exited>> /\ phase # "out" /\ offline' = 0
        /\ mode = "offline" => ending' = ending + 1
        /\ ending' \in Nat
    BY <1>3 DEF Disconnect, LobbyDisconnect, OfflineInv
  <2> QED
    BY <2>1 DEF OfflineInv
<1>4. CASE (Login \/ Spawn \/ Disconnect) /\ mode \notin LobbyModes /\ UNCHANGED lobbyVars
  <2>1. mode # "offline" /\ UNCHANGED <<mode, offline, ending, timers, exited>>
    BY <1>4 DEF GameTypes, LobbyModes, QueueModes, lobbyVars, exitVars, Login, Spawn, Disconnect
  <2> QED
    BY <2>1 DEF OfflineInv
<1>5. CASE UNCHANGED <<mode, phase, conn, lobbyVars>>
  BY <1>5 DEF lobbyVars, exitVars, OfflineInv
<1>6. CASE LobbyStep
  <2>0. UNCHANGED <<mode, phase, conn>>
    BY <1>6, PartsMove
  <2>1. CASE Expire
    BY <2>0, <2>1 DEF Expire, OfflineInv
  <2>2. CASE LobbyTick
    <3>0. \A a \in timers : a + 1 \in timers'
      BY <2>2 DEF LobbyTick
    <3>1. timers' \subseteq 0 .. Wait
      BY <2>2 DEF LobbyTick, OfflineInv
    <3>2. UNCHANGED <<ending, exited>> /\ mode = "offline" /\ conn > 0 /\ ~exited
      BY <2>2 DEF LobbyTick
    <3>3. CASE phase = "out" /\ ending = 0
      <4>1. PICK a \in timers : a >= offline
        BY <3>2, <3>3 DEF OfflineInv
      <4>2. a \in 0 .. Wait /\ a # Wait /\ offline' = offline + 1
        BY <2>2, <3>3 DEF LobbyTick, OfflineInv
      <4>3. a + 1 \in timers'
        BY <3>0, <4>1
      <4>4. a + 1 >= offline' /\ offline' <= Wait /\ offline' \in Nat
        BY <4>1, <4>2 DEF OfflineInv
      <4> QED
        BY <2>0, <3>1, <3>2, <3>3, <4>3, <4>4 DEF OfflineInv
    <3>4. CASE ~(phase = "out" /\ ending = 0)
      <4>1. UNCHANGED offline
        BY <2>2, <3>4 DEF LobbyTick
      <4> QED
        BY <2>0, <3>1, <3>2, <3>4, <4>1 DEF OfflineInv
    <3> QED
      BY <3>3, <3>4
  <2>3. CASE UNCHANGED <<offline, ending, timers, exited>>
    BY <2>0, <2>3 DEF OfflineInv
  <2>4. ASSUME NEW w \in walks,
               SkipWalk(w) \/ FindPortal(w) \/ NoPortal(w) \/ Approach(w) \/ Arrive(w) \/ GiveUp(w)
        PROVE  UNCHANGED <<offline, ending, timers, exited>>
    BY <2>4 DEF SkipWalk, FindPortal, NoPortal, Approach, Arrive, GiveUp, WalkUnchanged, exitVars
  <2>5. LookAround \/ MoveBot \/ LobbyChat \/ (\E c \in guards : Judge(c)) \/ WorkerChat \/ (\E t \in sending : SendCommand(t))
          => UNCHANGED <<offline, ending, timers, exited>>
    BY DEF LookAround, MoveBot, LobbyChat, Judge, WorkerChat, SendCommand, WalkUnchanged, exitVars
  <2>6. CASE StartTimer
    <3>1. /\ ending > 0 /\ ending' = ending - 1 /\ timers' = timers \cup {0} /\ UNCHANGED <<offline, exited>>
      BY <2>6 DEF StartTimer, Timed
    <3> QED
      BY <2>0, <3>1 DEF OfflineInv
  <2> QED
    BY <1>6, <2>1, <2>2, <2>3, <2>4, <2>5, <2>6 DEF LobbyStep
<1> QED
  BY LobbyPart, <1>1, <1>2, <1>3, <1>4, <1>5, <1>6

LEMMA Appended ==
  ASSUME NEW S, NEW s \in Seq(S), NEW e \in S
  PROVE  /\ Append(s, e) \in Seq(S)
         /\ \A i \in 1 .. Len(Append(s, e)) :
              \/ i \in 1 .. Len(s) /\ Append(s, e)[i] = s[i]
              \/ i = Len(s) + 1 /\ Append(s, e)[i] = e
<1>1. Append(s, e) \in Seq(S) /\ Len(Append(s, e)) = Len(s) + 1 /\ Len(s) \in Nat
  OBVIOUS
<1>2. \A i \in 1 .. Len(s) : Append(s, e)[i] = s[i]
  OBVIOUS
<1>3. Append(s, e)[Len(s) + 1] = e
  OBVIOUS
<1> QED
  BY <1>1, <1>2, <1>3

LEMMA SayKept ==
  ASSUME GameTypes, SayInv, Next
  PROVE  SayInv'
<1> USE LobbyAssumption, GameAssumption
<1>0. conn \in Nat
  BY DEF GameTypes
<1>1. ASSUME Login, UNCHANGED <<sending, said>>
      PROVE  SayInv'
  <2>1. conn' = conn + 1 /\ UNCHANGED <<sending, said>>
    BY <1>1 DEF Login
  <2>2. 0 .. conn \subseteq 0 .. conn' /\ conn' \notin 0 .. conn
    BY <1>0, <2>1
  <2>3. sending' \subseteq [of : 0 .. conn', next : Nat] /\ \A t \in sending : t.of # conn'
    BY <2>1, <2>2 DEF SayInv
  <2>4. said' \in Seq(Spoken(conn')) /\ \A i \in 1 .. Len(said) : said[i].by # conn'
    <3>1. said \in Seq(Spoken(conn))
      BY DEF SayInv
    <3>2. Spoken(conn) \subseteq Spoken(conn')
      BY <2>2 DEF Spoken
    <3>3. said \in Seq(Spoken(conn'))
      BY <3>1, <3>2, SeqMonotonic
    <3>4. \A i \in 1 .. Len(said) : said[i] \in Spoken(conn)
      BY <3>1, ElementOfSeq
    <3> QED
      BY <2>1, <2>2, <3>3, <3>4 DEF Spoken
  <2> QED
    BY <2>1, <2>3, <2>4 DEF SayInv
<1>2. ASSUME UNCHANGED <<conn, sending, sent, said>>
      PROVE  SayInv'
  BY <1>2 DEF SayInv
<1>3. ASSUME StartCommands, UNCHANGED conn
      PROVE  SayInv'
  <2>1. CASE UNCHANGED sayVars
    BY <1>2, <1>3, <2>1 DEF sayVars
  <2>2. CASE ~UNCHANGED sayVars
    <3> DEFINE task == [of |-> conn, next |-> 1]
    <3>1. ~sent /\ sent' /\ said' = said /\ sending' = sending \cup {task}
      BY <1>3, <2>2 DEF StartCommands
    <3>2. task \in [of : 0 .. conn, next : Nat] /\ task.of = conn
      BY <1>0
    <3> HIDE DEF task
    <3>3. \A t \in sending' : t \in sending \/ (t = task /\ t.of = conn)
      BY <3>1, <3>2
    <3>4. sending' \subseteq [of : 0 .. conn', next : Nat]
      BY <1>3, <3>2, <3>3 DEF SayInv
    <3>5. \A t, u \in sending' : t.of = u.of => t = u
      BY <3>1, <3>3 DEF SayInv
    <3>6. \A t \in sending', i \in 1 .. Len(said) : said[i].by = t.of => said[i].command < t.next
      BY <3>1, <3>3 DEF SayInv
    <3> QED
      BY <1>3, <3>1, <3>4, <3>5, <3>6 DEF SayInv
  <2> QED
    BY <2>1, <2>2
<1>4. ASSUME NEW t \in sending, SendCommand(t), UNCHANGED conn
      PROVE  SayInv'
  <2> DEFINE on == [t EXCEPT !.next = @ + 1]
             line == [in |-> conn, by |-> t.of, command |-> t.next]
  <2>1. /\ sending' \subseteq (sending \ {t}) \cup {on}
        /\ said' = said \/ said' = Append(said, line)
        /\ UNCHANGED sent
    BY <1>4 DEF SendCommand
  <2>2. /\ t \in [of : 0 .. conn, next : Nat] /\ on \in [of : 0 .. conn, next : Nat]
        /\ on.of = t.of /\ on.next = t.next + 1 /\ t.next \in Nat
    BY DEF SayInv
  <2>3. line \in Spoken(conn) /\ line.by = t.of /\ line.command = t.next
    BY <1>0, <2>2 DEF Spoken
  <2> HIDE DEF on, line
  <2>4. \A u \in sending' : \/ u \in sending /\ u # t /\ u.of # t.of
                            \/ u = on /\ u.of = t.of /\ u.next = t.next + 1
    BY <2>1, <2>2 DEF SayInv
  <2>5. \A i \in 1 .. Len(said) : said[i].by = t.of => said[i].command < t.next
    BY DEF SayInv
  <2>6. /\ said' \in Seq(Spoken(conn))
        /\ \A i \in 1 .. Len(said') : \/ i \in 1 .. Len(said) /\ said'[i] = said[i]
                                      \/ i = Len(said) + 1 /\ said'[i] = line
    <3>1. said \in Seq(Spoken(conn))
      BY DEF SayInv
    <3> QED
      BY <2>1, <2>3, <3>1, Appended
  <2>7. \A i \in 1 .. Len(said) : said[i].command \in Nat
    <3>1. said \in Seq(Spoken(conn))
      BY DEF SayInv
    <3>2. \A i \in 1 .. Len(said) : said[i] \in Spoken(conn)
      BY <3>1, ElementOfSeq
    <3> QED
      BY <3>2 DEF Spoken
  <2>8. sending' \subseteq [of : 0 .. conn', next : Nat]
    BY <1>4, <2>2, <2>4 DEF SayInv
  <2>9. \A u, v \in sending' : u.of = v.of => u = v
    BY <2>4 DEF SayInv
  <2>10. ASSUME NEW u \in sending', NEW i \in 1 .. Len(said'), said'[i].by = u.of
        PROVE  said'[i].command < u.next
    <3>1. CASE i \in 1 .. Len(said) /\ said'[i] = said[i]
      <4>1. CASE u \in sending
        BY <2>10, <3>1, <4>1 DEF SayInv
      <4>2. CASE u.of = t.of /\ u.next = t.next + 1
        <5>1. said[i].command \in Nat
          BY <2>7, <3>1
        <5>2. said[i].command < t.next
          BY <2>5, <2>10, <3>1, <4>2
        <5> QED
          BY <2>2, <3>1, <4>2, <5>1, <5>2
      <4> QED
        BY <2>4, <4>1, <4>2
    <3>2. CASE said'[i] = line
      BY <2>2, <2>3, <2>4, <2>10, <3>2
    <3> QED
      BY <2>6, <3>1, <3>2
  <2>11. ASSUME ~sent'
         PROVE  /\ \A u \in sending' : u.of # conn'
                /\ \A i \in 1 .. Len(said') : said'[i].by # conn'
    <3>1. t.of # conn
      BY <2>1, <2>11 DEF SayInv
    <3> QED
      BY <1>4, <2>1, <2>3, <2>4, <2>6, <2>11, <3>1 DEF SayInv
  <2>12. ASSUME NEW i \in 1 .. Len(said'), NEW j \in 1 .. Len(said'), i # j, said'[i].by = said'[j].by
         PROVE  said'[i].command # said'[j].command
    <3>1. ASSUME NEW k \in 1 .. Len(said), said[k].by = line.by
          PROVE  said[k].command # line.command
      <4>1. said[k].command \in Nat /\ said[k].command < t.next
        BY <2>3, <2>5, <2>7, <3>1
      <4> QED
        BY <2>2, <2>3, <4>1
    <3> QED
      BY <2>6, <2>12, <3>1 DEF SayInv
  <2> QED
    BY <1>4, <2>6, <2>8, <2>9, <2>10, <2>11, <2>12 DEF SayInv
<1>5. CASE Login /\ mode \in LobbyModes /\ LobbyLogin
  BY <1>1, <1>5 DEF LobbyLogin
<1>6. CASE Spawn /\ mode \in LobbyModes /\ LobbySpawn
  BY <1>3, <1>6 DEF Spawn, LobbySpawn
<1>7. CASE Disconnect /\ mode \in LobbyModes /\ LobbyDisconnect
  BY <1>2, <1>7 DEF Disconnect, LobbyDisconnect, sayVars
<1>8. CASE (Login \/ Spawn \/ Disconnect) /\ mode \notin LobbyModes /\ UNCHANGED lobbyVars
  BY <1>1, <1>2, <1>8 DEF lobbyVars, sayVars, Spawn, Disconnect
<1>9. CASE UNCHANGED <<mode, phase, conn, lobbyVars>>
  BY <1>2, <1>9 DEF lobbyVars, sayVars
<1>10. CASE LobbyStep
  <2>1. UNCHANGED conn
    BY <1>10, PartsMove
  <2>2. ASSUME NEW w \in walks,
               SkipWalk(w) \/ FindPortal(w) \/ NoPortal(w) \/ Approach(w) \/ Arrive(w) \/ GiveUp(w)
        PROVE  UNCHANGED sayVars
    BY <2>2 DEF SkipWalk, FindPortal, NoPortal, Approach, Arrive, GiveUp, WalkUnchanged
  <2>3. LookAround \/ MoveBot \/ LobbyChat \/ (\E c \in guards : Judge(c)) \/ WorkerChat
          \/ StartTimer \/ Expire \/ LobbyTick => UNCHANGED sayVars
    BY DEF LookAround, MoveBot, LobbyChat, Judge, WorkerChat, StartTimer, Expire, LobbyTick, WalkUnchanged
  <2>4. CASE UNCHANGED sayVars
    BY <1>2, <2>1, <2>4 DEF sayVars
  <2> QED
    BY <1>4, <1>10, <2>1, <2>2, <2>3, <2>4 DEF LobbyStep
<1> QED
  BY LobbyPart, <1>5, <1>6, <1>7, <1>8, <1>9, <1>10

-----------------------------------------------------------------------------
(* The queue.                                                              *)

LEMMA PlaceKept ==
  ASSUME GameTypes, PlaceInv, Next
  PROVE  PlaceInv'
<1> USE QueueAssumption, GameAssumption
<1>0. conn \in Nat
  BY DEF GameTypes
<1>1. ASSUME Login, UNCHANGED <<answering, closedBy>>, place' = place \/ place' = MaxPlace
      PROVE  PlaceInv'
  <2>1. conn' = conn + 1 /\ place' \in Nat
    BY <1>1 DEF Login, PlaceInv
  <2>2. 0 .. conn \subseteq 0 .. conn' /\ conn' \notin 0 .. conn
    BY <1>0, <2>1
  <2> QED
    BY <1>1, <2>1, <2>2 DEF PlaceInv, ClosedInTime
<1>2. ASSUME UNCHANGED <<conn, place, answering, closedBy>>
      PROVE  PlaceInv'
  BY <1>2 DEF PlaceInv, ClosedInTime
<1>3. CASE Login /\ QueueLogin
  BY <1>1, <1>3 DEF QueueLogin
<1>4. CASE (Login \/ Spawn \/ Disconnect) /\ UNCHANGED queueVars
  BY <1>1, <1>2, <1>4 DEF queueVars, placeVars, Spawn, Disconnect
<1>5. CASE UNCHANGED <<mode, phase, conn, queueVars>>
  BY <1>2, <1>5 DEF queueVars, placeVars
<1>6. CASE QueueStep
  <2>0. UNCHANGED <<phase, conn>>
    BY <1>6, PartsMove
  <2>1. CASE Advance
    <3>1. place' \in Nat /\ place' < place /\ UNCHANGED <<answering, closedBy>>
      BY <2>1 DEF Advance, PlaceInv
    <3> QED
      BY <2>0, <3>1 DEF PlaceInv, ClosedInTime
  <2>2. CASE ReadPlace
    <3> DEFINE task == [of |-> conn, place |-> place, leave |-> place = 0]
    <3>1. answering' = answering \cup {task} /\ UNCHANGED <<place, closedBy>>
      BY <2>2 DEF ReadPlace
    <3>2. task \in [of : 0 .. conn, place : Nat, leave : BOOLEAN] /\ task.place = place /\ (task.leave => place = 0)
      <4>1. (place = 0) \in BOOLEAN /\ place \in Nat /\ conn \in 0 .. conn
        BY <1>0 DEF PlaceInv
      <4> QED
        BY <4>1
    <3> HIDE DEF task
    <3> QED
      BY <2>0, <3>1, <3>2 DEF PlaceInv, ClosedInTime
  <2>3. ASSUME NEW h \in answering, AnswerPlace(h)
        PROVE  PlaceInv'
    <3>1. answering' \subseteq answering /\ UNCHANGED place
      BY <2>3 DEF AnswerPlace
    <3>2. h.of = conn /\ Leaves(h) => place <= LeaveAt
      BY DEF PlaceInv, Leaves
    <3>3. CASE closedBy' = closedBy
      BY <2>0, <3>1, <3>3 DEF PlaceInv, ClosedInTime
    <3>4. CASE closedBy' # closedBy
      <4>1. Leaves(h) /\ closedBy' = [conn |-> conn, of |-> h.of, place |-> place]
        BY <2>3, <3>4 DEF AnswerPlace, Close
      <4>2. closedBy'.conn = conn /\ closedBy'.of = h.of /\ closedBy'.place = place
        BY <4>1
      <4>3. ClosedInTime'
        BY <3>2, <4>1, <4>2 DEF ClosedInTime
      <4> QED
        BY <2>0, <3>1, <4>3 DEF PlaceInv
    <3> QED
      BY <3>3, <3>4
  <2>4. CASE UNCHANGED placeVars
    BY <1>2, <2>0, <2>4 DEF placeVars
  <2>5. ChangeCount \/ ReadCount \/ Age \/ (\E i \in 1 .. MaxHandlers : WriteCount(i) \/ WriteFails(i))
          => UNCHANGED placeVars
    BY DEF ChangeCount, ReadCount, Age, WriteCount, WriteFails, CountUnchanged
  <2> QED
    BY <1>6, <2>1, <2>2, <2>3, <2>4, <2>5 DEF QueueStep
<1> QED
  BY QueuePart, <1>3, <1>4, <1>5, <1>6

-----------------------------------------------------------------------------
(* The search for plugins.                                                 *)

LEMMA ProbeLoginKeeps ==
  ASSUME GameTypes, ProbeInv, Login, mode = "probe", ProbeLogin
  PROVE  ProbeInv'
<1> USE ProbeAssumption, GameAssumption
<1>1. conn' = conn + 1 /\ conn' \in 1 .. MaxConns /\ conn \in Nat /\ mode' = mode
  BY DEF GameTypes, Login
<1>2. probe' = FreshProbe /\ request' = 0 /\ UNCHANGED <<saving, takes, lived, restarted, silenced>>
  BY DEF ProbeLogin
<1>3. /\ FreshProbe.started /\ ~FreshProbe.saved /\ FreshProbe.ticks = 0 /\ FreshProbe.found = {}
      /\ FreshProbe.pending = 0
      /\ FreshProbe \in Searches
  BY DEF FreshProbe, NoProbe, Searches
<1>4. takes[conn'] = 0 /\ lived[conn'] = 0
  BY <1>1 DEF ProbeInv
<1>5. ProbeTypes'
  BY <1>2, <1>3 DEF ProbeInv, ProbeTypes
<1>6. Searching'
  BY <1>2, <1>3, <1>4 DEF Searching
<1>7. \A c \in 1 .. MaxConns : c > conn' => takes'[c] = 0 /\ lived'[c] = 0
  BY <1>1, <1>2 DEF ProbeInv
<1>8. \A s \in saving' : s.of <= conn' /\ takes'[s.of] >= 1
  BY <1>1, <1>2 DEF ProbeInv, ProbeTypes
<1>9. SearchedOnce'
  <2>1. \A c \in 1 .. conn' : c \in 1 .. conn \/ c = conn'
    BY <1>1
  <2> QED
    BY <1>2, <1>4, <2>1 DEF ProbeInv, ScansAccounted, SearchedOnce
<1>10. OwnFindings'
  BY <1>2, <1>3 DEF ProbeInv, ScansAccounted, OwnFindings
<1> QED
  BY <1>1, <1>2, <1>3, <1>5, <1>6, <1>7, <1>8, <1>9, <1>10 DEF ProbeInv, ScansAccounted

\* A step within a connection that counts nothing, saves no more, and finds
\* only what is of this connection.
LEMMA FindingKeeps ==
  ASSUME GameTypes, ProbeInv, mode = "probe", UNCHANGED <<mode, conn, takes, lived>>, ProbeTypes',
         saving' \subseteq saving, restarted \subseteq restarted', silenced \subseteq silenced',
         probe'.found \subseteq probe.found \cup [source : Sources, of : {conn}],
         probe'.pending # 0 => probe'.pending = conn,
         Searching'
  PROVE  ProbeInv'
<1>1. SearchedOnce'
  BY DEF ProbeInv, ScansAccounted, SearchedOnce
<1>2. OwnFindings'
  BY DEF ProbeInv, ScansAccounted, OwnFindings
<1>3. \A f \in probe'.found : f.of = conn'
  BY DEF ProbeInv
<1> QED
  BY <1>1, <1>2, <1>3 DEF ProbeInv, ScansAccounted

\* What is read while the search goes on leaves its state as it was.
LEMMA ListeningKeeps ==
  ASSUME GameTypes, ProbeInv, mode = "probe", UNCHANGED <<mode, conn, takes, lived, saving, restarted, silenced>>, ProbeTypes',
         probe'.started = probe.started, probe'.saved = probe.saved, probe'.ticks = probe.ticks,
         probe'.found \subseteq probe.found \cup [source : Sources, of : {conn}],
         probe'.pending # 0 => probe'.pending = conn
  PROVE  ProbeInv'
<1>1. Searching'
  BY DEF ProbeInv, Searching
<1> QED
  BY <1>1, FindingKeeps

LEMMA ProbeSpawnKeeps ==
  ASSUME GameTypes, ProbeInv, Spawn, mode = "probe", ProbeSpawn
  PROVE  ProbeInv'
<1>1. UNCHANGED <<mode, conn>> /\ conn > 0
  BY DEF GameTypes, Spawn
<1>2. /\ probe' = [probe EXCEPT !.started = TRUE] /\ UNCHANGED <<request, saving, takes, lived, silenced>>
      /\ restarted \subseteq restarted' /\ (~probe.started /\ ~probe.saved => conn \in restarted')
  BY DEF ProbeSpawn
<1>3. /\ probe'.started /\ probe'.saved = probe.saved /\ probe'.ticks = probe.ticks
      /\ probe'.found = probe.found /\ probe'.pending = probe.pending /\ ProbeTypes'
  BY <1>2 DEF ProbeInv, ProbeTypes, Searches
<1>4. Searching'
  BY <1>1, <1>2, <1>3 DEF ProbeInv, Searching
<1> QED
  BY <1>1, <1>2, <1>3, <1>4, FindingKeeps DEF ProbeInv, ScansAccounted, OwnFindings

\* What RequestTab does to a state of the search.
LEMMA RequestTabKeeps ==
  ASSUME GameTypes, ProbeInv,
         NEW p \in Searches,
         p.pending = probe.pending, RequestTab(p)
  PROVE  /\ probe' \in Searches
         /\ request' \in Nat
         /\ probe'.started = p.started /\ probe'.saved = p.saved /\ probe'.ticks = p.ticks /\ probe'.found = p.found
         /\ probe'.pending # 0 => probe'.pending = conn
<1>1. conn \in Nat /\ request \in Nat /\ (probe.pending # 0 => probe.pending = conn)
  BY GameAssumption DEF GameTypes, ProbeInv, ProbeTypes, ScansAccounted, OwnFindings
<1>2. CASE p.alias /\ ~p.tabRequested
  <2>1. probe' = [p EXCEPT !.tabRequested = TRUE, !.pending = conn] /\ request' = conn
    BY <1>2 DEF RequestTab
  <2> QED
    BY <1>1, <2>1 DEF Searches
<1>3. CASE ~(p.alias /\ ~p.tabRequested)
  BY <1>1, <1>3 DEF RequestTab
<1> QED
  BY <1>2, <1>3

LEMMA ReadingKeeps ==
  ASSUME GameTypes, ProbeInv, ReadSuggestions \/ ReadChannel \/ ReadPluginsChat
  PROVE  ProbeInv'
<1> USE GameAssumption
<1>0. /\ conn \in Nat /\ probe \in Searches /\ request \in Nat /\ (probe.pending # 0 => probe.pending = conn)
      /\ \A source \in Sources : Here(source) \subseteq [source : Sources, of : {conn}]
      /\ [source : Sources, of : {conn}] \subseteq Finding
  BY DEF GameTypes, ProbeInv, ProbeTypes, ScansAccounted, OwnFindings, Here, Finding
<1>1. /\ UNCHANGED <<mode, conn, takes, lived, saving, restarted, silenced>>
      /\ mode = "probe" /\ request' \in {0, request}
  BY DEF Listening, ReadSuggestions, ReadChannel, ReadPluginsChat, Collected, gameVars
<1> DEFINE Same == /\ probe'.started = probe.started /\ probe'.saved = probe.saved /\ probe'.ticks = probe.ticks
                   /\ probe'.found \subseteq probe.found \cup [source : Sources, of : {conn}]
                   /\ probe'.pending \in {0, probe.pending} /\ probe' \in Searches
<1>2. ASSUME ReadSuggestions
      PROVE  Same
  <2>1. "tab_complete" \in Sources
    BY DEF Sources
  <2>2. CASE probe' = probe
    BY <1>0, <2>2
  <2>3. CASE probe' = [probe EXCEPT !.pending = 0, !.found = @ \cup Here("tab_complete")]
    BY <1>0, <2>1, <2>3 DEF Searches
  <2> QED
    BY <1>2, <2>2, <2>3 DEF ReadSuggestions
<1>3. ASSUME ReadChannel
      PROVE  Same
  <2>1. "register_channel" \in Sources
    BY DEF Sources
  <2>2. CASE probe' = [probe EXCEPT !.found = @ \cup Here("register_channel")]
    BY <1>0, <2>1, <2>2 DEF Searches
  <2>3. CASE probe' = [probe EXCEPT !.found = {f \in @ : f.source # "register_channel"}]
    BY <1>0, <2>3 DEF Searches
  <2> QED
    BY <1>3, <2>2, <2>3 DEF ReadChannel, Collected
<1>4. ASSUME ReadPluginsChat
      PROVE  Same
  <2>1. "chat" \in Sources
    BY DEF Sources
  <2>2. probe' = [probe EXCEPT !.waitingChat = FALSE, !.found = @ \cup Here("chat")]
    BY <1>4 DEF ReadPluginsChat, Collected
  <2> QED
    BY <1>0, <2>1, <2>2 DEF Searches
<1>5. Same
  BY <1>2, <1>3, <1>4
<1>6. ProbeTypes'
  BY <1>0, <1>1, <1>5 DEF ProbeInv, ProbeTypes
<1>7. probe'.pending # 0 => probe'.pending = conn
  BY <1>0, <1>5
<1> QED
  BY <1>1, <1>5, <1>6, <1>7, ListeningKeeps

LEMMA CommandTreeKeeps ==
  ASSUME GameTypes, ProbeInv, NEW names \in BOOLEAN, NEW alias \in BOOLEAN, ReadCommands(names, alias)
  PROVE  ProbeInv'
<1> USE GameAssumption
<1> DEFINE tree == IF names THEN Here("command_tree") ELSE {}
           p == [probe EXCEPT !.found = @ \cup tree, !.alias = @ \/ alias]
<1>0. /\ conn \in Nat /\ probe \in Searches /\ [source : Sources, of : {conn}] \subseteq Finding
      /\ tree \subseteq [source : Sources, of : {conn}]
  BY DEF GameTypes, ProbeInv, ProbeTypes, Here, Finding, Sources
<1>1. UNCHANGED <<mode, conn, takes, lived, saving, restarted, silenced>> /\ mode = "probe" /\ RequestTab(p)
  BY DEF ReadCommands, Listening, gameVars
<1> HIDE DEF tree
<1>2. /\ p \in Searches /\ p.pending = probe.pending /\ p.started = probe.started /\ p.saved = probe.saved
      /\ p.ticks = probe.ticks /\ p.found = probe.found \cup tree
  BY <1>0 DEF Searches
<1> HIDE DEF p
<1>3. /\ probe' \in Searches /\ request' \in Nat
      /\ probe'.started = p.started /\ probe'.saved = p.saved /\ probe'.ticks = p.ticks /\ probe'.found = p.found
      /\ probe'.pending # 0 => probe'.pending = conn
  BY <1>1, <1>2, RequestTabKeeps
<1>4. ProbeTypes'
  BY <1>1, <1>3 DEF ProbeInv, ProbeTypes
<1> QED
  BY <1>0, <1>1, <1>2, <1>3, <1>4, ListeningKeeps

LEMMA IdleKeeps ==
  ASSUME GameTypes, ProbeInv, IdleTick
  PROVE  ProbeInv'
<1> USE GameAssumption, ProbeAssumption
<1>1. /\ mode = "probe" /\ conn \in 1 .. MaxConns /\ (probe.saved \/ ~probe.started)
      /\ lived' = [lived EXCEPT ![conn] = lived[conn] + 1]
      /\ UNCHANGED <<mode, conn, probe, request, saving, takes, restarted, silenced>>
  BY DEF IdleTick, Counted, GameTypes, gameVars
<1>2. ProbeTypes'
  BY <1>1 DEF ProbeInv, ProbeTypes
<1>3. Searching /\ ~(takes[conn] = 0 /\ conn \notin silenced)
  BY <1>1 DEF ProbeInv, Searching
<1>4. Searching'
  BY <1>1, <1>3 DEF Searching
<1>5. \A c \in 1 .. MaxConns : c # conn => lived'[c] = lived[c]
  BY <1>1 DEF ProbeInv, ProbeTypes
<1>6. SearchedOnce'
  <2>1. SearchedOnce /\ takes[conn] \in Nat
    BY <1>1 DEF ProbeInv, ScansAccounted, ProbeTypes
  <2>2. ASSUME NEW c \in 1 .. conn, lived'[c] >= SaveAt
        PROVE  takes[c] >= 1 \/ c \in silenced
    <3>1. CASE c = conn
      BY <1>3, <2>1, <3>1
    <3>2. CASE c # conn
      BY <1>1, <1>5, <2>1, <2>2, <3>2 DEF SearchedOnce
    <3> QED
      BY <3>1, <3>2
  <2> QED
    BY <1>1, <2>1, <2>2 DEF SearchedOnce
<1>7. \A c \in 1 .. MaxConns : c > conn => takes[c] = 0 /\ lived'[c] = 0
  BY <1>1, <1>5 DEF ProbeInv
<1> QED
  BY <1>1, <1>2, <1>4, <1>6, <1>7 DEF ProbeInv, ScansAccounted, OwnFindings

LEMMA SavingKeeps ==
  ASSUME GameTypes, ProbeInv, mode = "probe", NEW s \in saving, SaveScan(s) \/ SaveFails(s)
  PROVE  ProbeInv'
<1>1. CASE SaveFails(s)
  <2>1. /\ UNCHANGED <<mode, conn, probe, request, takes, lived, restarted, silenced>>
        /\ saving' \subseteq saving
    BY <1>1 DEF SaveFails, gameVars
  <2>2. ProbeTypes' /\ Searching'
    BY <2>1 DEF ProbeInv, ProbeTypes, Searching
  <2> QED
    BY <2>1, <2>2, FindingKeeps DEF ProbeInv, ScansAccounted, OwnFindings
<1>2. CASE SaveScan(s)
  <2>1. /\ UNCHANGED <<mode, conn, request, takes, lived, restarted>> /\ saving' \subseteq saving
        /\ probe' = [probe EXCEPT !.saved = TRUE] /\ silenced \subseteq silenced'
        /\ s.of # conn /\ ~probe.saved => conn \in silenced'
    BY <1>2 DEF SaveScan, gameVars
  <2>2. /\ probe'.started = probe.started /\ probe'.saved /\ probe'.ticks = probe.ticks
        /\ probe'.found = probe.found /\ probe'.pending = probe.pending /\ ProbeTypes'
    BY <2>1 DEF ProbeInv, ProbeTypes, Searches
  <2>3. takes[s.of] >= 1 /\ s.of \in 1 .. MaxConns /\ takes[s.of] \in Nat
    BY DEF ProbeInv, ProbeTypes
  <2>4. ASSUME conn > 0
        PROVE  /\ ~(takes[conn] = 0 /\ conn \notin silenced')
               /\ takes[conn] >= 1 /\ conn \notin restarted => takes[conn] = 1
    BY <2>1, <2>3, <2>4 DEF ProbeInv, Searching
  <2>5. Searching'
    BY <2>1, <2>2, <2>4 DEF Searching
  <2> QED
    BY <2>1, <2>2, <2>5, FindingKeeps DEF ProbeInv, ScansAccounted, OwnFindings
<1> QED
  BY <1>1, <1>2

LEMMA TickKeeps ==
  ASSUME GameTypes, ProbeInv, ProbeTick
  PROVE  ProbeInv'
<1> USE GameAssumption, ProbeAssumption
<1>1. /\ mode = "probe" /\ conn \in 1 .. MaxConns /\ probe.started /\ ~probe.saved
      /\ lived' = Counted(conn) /\ UNCHANGED <<mode, conn, restarted, silenced>>
  BY DEF ProbeTick, GameTypes, gameVars
<1>2. /\ lived \in [1 .. MaxConns -> Nat] /\ takes \in [1 .. MaxConns -> Nat] /\ probe \in Searches
      /\ probe.ticks \in Nat /\ probe.found \subseteq Finding /\ Searching /\ SearchedOnce
      /\ probe.pending # 0 => probe.pending = conn
  BY <1>1 DEF ProbeInv, ProbeTypes, ScansAccounted, OwnFindings, Searches
<1>3. /\ lived' \in [1 .. MaxConns -> Nat] /\ \A c \in 1 .. MaxConns : c # conn => lived'[c] = lived[c]
      /\ lived[conn] < SaveAt => lived'[conn] = lived[conn] + 1
  <2>1. lived[conn] \in Nat /\ (IF lived[conn] < SaveAt THEN lived[conn] + 1 ELSE lived[conn]) \in Nat
    BY <1>1, <1>2
  <2>2. lived' = [lived EXCEPT ![conn] = IF lived[conn] < SaveAt THEN lived[conn] + 1 ELSE lived[conn]]
    BY <1>1 DEF Counted
  <2> QED
    BY <1>1, <1>2, <2>1, <2>2
<1>4. takes[conn] = 0 \/ conn \in restarted
  BY <1>1, <1>2 DEF Searching
<1>5. /\ Ticked \in Searches /\ Ticked.started = probe.started /\ Ticked.saved = probe.saved
      /\ Ticked.ticks = probe.ticks + 1 /\ Ticked.found = probe.found /\ Ticked.pending = probe.pending
  <2> DEFINE awaited == probe.waitingChat \/ (probe.ticks + 1 = ChatAt /\ chatProbe)
  <2>1. awaited \in BOOLEAN
    OBVIOUS
  <2>2. Ticked = [probe EXCEPT !.ticks = probe.ticks + 1, !.waitingChat = awaited]
    BY DEF Ticked
  <2> HIDE DEF awaited
  <2>3. probe.ticks + 1 \in Nat
    BY <1>2
  <2>4. \A n \in Nat : [probe EXCEPT !.ticks = n, !.waitingChat = awaited] \in Searches
    BY <1>2, <2>1 DEF Searches
  <2>5. Ticked \in Searches
    BY <2>2, <2>3, <2>4
  <2> QED
    BY <1>2, <2>2, <2>5 DEF Searches
<1>6. CASE Ticked.ticks >= SaveAt
  <2> DEFINE scan == [of |-> conn, found |-> probe.found]
  <2>1. /\ saving' = saving \cup {scan} /\ probe' = NoProbe /\ UNCHANGED request
        /\ takes' = [takes EXCEPT ![conn] = takes[conn] + 1]
    BY <1>6 DEF ProbeTick, Taken
  <2>2. /\ scan \in [of : 1 .. MaxConns, found : SUBSET Finding] /\ scan.of = conn
        /\ \A f \in scan.found : f.of = scan.of
    BY <1>1, <1>2 DEF ProbeInv
  <2> HIDE DEF scan
  <2>3. /\ takes' \in [1 .. MaxConns -> Nat] /\ takes'[conn] = takes[conn] + 1 /\ takes[conn] \in Nat
        /\ \A c \in 1 .. MaxConns : c # conn => takes'[c] = takes[c]
    BY <1>1, <1>2, <2>1
  <2>4. /\ NoProbe \in Searches /\ ~NoProbe.started /\ ~NoProbe.saved /\ NoProbe.found = {} /\ NoProbe.pending = 0
    BY DEF NoProbe, Searches
  <2>5. ProbeTypes'
    BY <1>3, <2>1, <2>2, <2>3, <2>4 DEF ProbeInv, ProbeTypes
  <2>6. Searching'
    BY <1>1, <1>4, <2>1, <2>3, <2>4 DEF Searching
  <2>7. SearchedOnce'
    <3>1. ASSUME NEW c \in 1 .. conn
          PROVE  /\ takes'[c] <= 1 \/ c \in restarted
                 /\ lived'[c] >= SaveAt => takes'[c] >= 1 \/ c \in silenced
      <4>1. CASE c = conn
        BY <1>4, <2>3, <4>1
      <4>2. CASE c # conn
        BY <1>1, <1>2, <1>3, <2>3, <4>2 DEF SearchedOnce
      <4> QED
        BY <4>1, <4>2
    <3> QED
      BY <1>1, <3>1 DEF SearchedOnce
  <2>8. OwnFindings'
    BY <2>1, <2>2, <2>4 DEF ProbeInv, ScansAccounted, OwnFindings
  <2>9. \A s \in saving' : s.of <= conn /\ takes'[s.of] >= 1
    <3>1. ASSUME NEW s \in saving
          PROVE  s.of <= conn /\ takes'[s.of] >= 1
      <4>1. s.of \in 1 .. MaxConns /\ s.of <= conn /\ takes[s.of] >= 1
        BY DEF ProbeInv, ProbeTypes
      <4> QED
        BY <2>3, <4>1
    <3>2. scan.of <= conn /\ takes'[scan.of] >= 1
      BY <1>1, <2>2, <2>3
    <3>3. \A s \in saving' : s \in saving \/ s = scan
      BY <2>1
    <3> QED
      BY <3>1, <3>2, <3>3
  <2>10. ASSUME NEW c \in 1 .. MaxConns, c > conn
         PROVE  takes'[c] = 0 /\ lived'[c] = 0
    <3>1. c # conn /\ takes[c] = 0 /\ lived[c] = 0
      BY <1>1, <2>10 DEF ProbeInv
    <3> QED
      BY <1>3, <2>3, <3>1
  <2> QED
    BY <1>1, <2>1, <2>4, <2>5, <2>6, <2>7, <2>8, <2>9, <2>10 DEF ProbeInv, ScansAccounted
<1>7. CASE Ticked.ticks < SaveAt
  <2>1. UNCHANGED <<saving, takes>> /\ (RequestTab(Ticked) \/ (probe' = Ticked /\ UNCHANGED request))
    BY <1>2, <1>5, <1>7 DEF ProbeTick
  <2>2. /\ probe' \in Searches /\ request' \in Nat /\ probe'.started /\ ~probe'.saved
        /\ probe'.ticks = probe.ticks + 1 /\ probe'.found = probe.found
        /\ probe'.pending # 0 => probe'.pending = conn
    <3>1. CASE RequestTab(Ticked)
      BY <1>1, <1>5, <3>1, RequestTabKeeps
    <3>2. CASE probe' = Ticked /\ UNCHANGED request
      BY <1>1, <1>2, <1>5, <3>2 DEF ProbeInv, ProbeTypes
    <3> QED
      BY <2>1, <3>1, <3>2
  <2>3. ProbeTypes'
    BY <1>3, <2>1, <2>2 DEF ProbeInv, ProbeTypes
  <2>4. takes[conn] = 0 /\ conn \notin silenced =>
          lived[conn] = probe.ticks /\ lived[conn] < SaveAt /\ lived'[conn] = lived[conn] + 1
    BY <1>1, <1>2, <1>3 DEF Searching
  <2>5. takes[conn] = 0 /\ conn \notin silenced => lived'[conn] = probe'.ticks /\ lived'[conn] < SaveAt
    BY <1>5, <1>7, <2>2, <2>4
  <2>6. Searching'
    BY <1>1, <1>4, <2>1, <2>2, <2>5 DEF Searching
  <2>7. SearchedOnce'
    <3>1. takes[conn] \in Nat
      BY <1>1, <1>2
    <3>2. ASSUME NEW c \in 1 .. conn, lived'[c] >= SaveAt
          PROVE  takes[c] >= 1 \/ c \in silenced
      <4>1. CASE c = conn
        BY <1>1, <1>3, <2>5, <3>1, <3>2, <4>1
      <4>2. CASE c # conn
        BY <1>1, <1>2, <1>3, <3>2, <4>2 DEF SearchedOnce
      <4> QED
        BY <4>1, <4>2
    <3> QED
      BY <1>1, <1>2, <2>1, <3>2 DEF SearchedOnce
  <2>8. OwnFindings'
    BY <1>1, <2>1, <2>2 DEF ProbeInv, ScansAccounted, OwnFindings
  <2>9. \A c \in 1 .. MaxConns : c > conn => takes[c] = 0 /\ lived'[c] = 0
    BY <1>1, <1>3 DEF ProbeInv
  <2> QED
    BY <1>1, <2>1, <2>2, <2>3, <2>6, <2>7, <2>8, <2>9 DEF ProbeInv, ScansAccounted
<1> QED
  BY <1>2, <1>5, <1>6, <1>7

LEMMA ProbeKept ==
  ASSUME GameTypes, ProbeInv, Next
  PROVE  ProbeInv'
<1> USE ProbeAssumption, GameAssumption
<1>1. CASE mode # "probe"
  <2>1. /\ saving = {} /\ probe.found = {} /\ probe.pending = 0
        /\ \A c \in 1 .. MaxConns : takes[c] = 0 /\ lived[c] = 0
    BY <1>1 DEF ProbeInv
  <2>2. ~ProbeStep
    BY <1>1, <2>1 DEF ProbeStep, ReadCommands, ReadSuggestions, ReadChannel, ReadPluginsChat, Listening, ProbeTick,
                      IdleTick
  <2>3. mode' = mode /\ conn' \in 0 .. MaxConns
    BY PartsMove, GameTypesKept DEF GameTypes, Next, Login, Spawn, Disconnect
  <2>4. UNCHANGED <<probe, request, saving, takes, lived, restarted, silenced>>
    BY <1>1, <2>2, ProbePart DEF probeVars
  <2>5. ProbeTypes'
    BY <2>4 DEF ProbeInv, ProbeTypes
  <2>6. SearchedOnce'
    BY <2>1, <2>3, <2>4 DEF SearchedOnce
  <2>7. OwnFindings'
    BY <2>1, <2>4 DEF OwnFindings
  <2> QED
    BY <1>1, <2>1, <2>3, <2>4, <2>5, <2>6, <2>7 DEF ProbeInv, ScansAccounted
<1>2. CASE mode = "probe"
  <2>1. CASE Login /\ ProbeLogin
    BY <1>2, <2>1, ProbeLoginKeeps
  <2>2. CASE Spawn /\ ProbeSpawn
    BY <1>2, <2>2, ProbeSpawnKeeps
  <2>3. ASSUME UNCHANGED <<mode, conn, probeVars>>
        PROVE  ProbeInv'
    BY <2>3 DEF probeVars, ProbeInv, ProbeTypes, Searching, ScansAccounted, SearchedOnce, OwnFindings
  <2>4. CASE Disconnect /\ UNCHANGED probeVars
    BY <2>3, <2>4 DEF Disconnect
  <2>5. CASE ProbeStep
    BY <1>2, <2>5, CommandTreeKeeps, ReadingKeeps, TickKeeps, IdleKeeps, SavingKeeps DEF ProbeStep
  <2> QED
    BY <1>2, <2>1, <2>2, <2>3, <2>4, <2>5, ProbePart
<1> QED
  BY <1>1, <1>2

-----------------------------------------------------------------------------
(* Theorems.                                                               *)

LEMMA GameStarts == Init => GameInv
<1> SUFFICES ASSUME Init PROVE GameInv
  OBVIOUS
<1> USE DEF Init
<1>1. GameTypes
  BY GameAssumption DEF GameTypes, GameInit
<1>2. LobbyTypes /\ MainInv
  BY DEF LobbyTypes, MainInv, Spots, Mark, Portals, LobbyInit, NoMark
<1>3. SayInv
  <2>1. sending = {} /\ said = <<>>
    BY DEF LobbyInit
  <2> QED
    BY <2>1 DEF SayInv
<1>4. PlaceInv
  <2>1. place = MaxPlace /\ answering = {} /\ closedBy.conn = 0
    BY DEF QueueInit, NotClosed
  <2> QED
    BY <2>1, QueueAssumption DEF PlaceInv, ClosedInTime
<1>5. OfflineInv
  <2>1. conn = 0 /\ offline = 0 /\ ending = 0 /\ timers = {} /\ exited = FALSE
    BY DEF LobbyInit, GameInit
  <2>2. offline \in Nat /\ ~(conn > 0)
    BY <2>1
  <2>3. timers \subseteq 0 .. Wait /\ ending \in Nat
    BY <2>1
  <2>4. exited \in BOOLEAN /\ ~exited
    BY <2>1, Zenon
  <2> QED
    BY <2>2, <2>3, <2>4 DEF OfflineInv
<1>6. ProbeInv
  <2>1. NoProbe \in Searches /\ NoProbe.found = {} /\ NoProbe.pending = 0
    BY DEF NoProbe, Searches
  <2>2. conn = 0 /\ probe = NoProbe /\ request = 0 /\ saving = {}
    BY DEF GameInit, ProbeInit
  <2>3. takes = [c \in 1 .. MaxConns |-> 0] /\ lived = [c \in 1 .. MaxConns |-> 0]
    BY DEF ProbeInit
  <2>4. ProbeTypes
    BY <2>1, <2>2, <2>3 DEF ProbeTypes
  <2>5. ScansAccounted
    BY <2>1, <2>2 DEF ScansAccounted, SearchedOnce, OwnFindings
  <2> QED
    BY <2>1, <2>2, <2>3, <2>4, <2>5 DEF ProbeInv, Searching
<1> QED
  BY <1>1, <1>2, <1>3, <1>4, <1>5, <1>6 DEF GameInv

\* The inductive invariant of a logger's reactions to its game server: every
\* part keeps its own, over the connections they share.
THEOREM GameInvariant == Spec => []GameInv
<1>1. GameInv /\ [Next]_vars => GameInv'
  <2> SUFFICES ASSUME GameInv, [Next]_vars PROVE GameInv'
    OBVIOUS
  <2>1. GameTypes'
    BY GameTypesKept DEF GameInv
  <2>2. CASE Next
    BY <2>1, <2>2, MainKept, SayKept, PlaceKept, OfflineKept, ProbeKept DEF GameInv
  <2>3. CASE UNCHANGED vars
    <3>1. UNCHANGED <<mode, phase, conn, where, inMain, mark, walks, sending, sent, said, ending, timers,
                      offline, exited>>
      BY <2>3 DEF vars, gameVars, lobbyVars, walkVars, sayVars, exitVars
    <3>2. UNCHANGED <<mode, conn, place, answering, closedBy>>
      BY <2>3 DEF vars, gameVars, queueVars, placeVars
    <3>3. UNCHANGED <<mode, conn, probe, request, saving, takes, lived, restarted, silenced>>
      BY <2>3 DEF vars, gameVars, probeVars
    <3>4. LobbyTypes' /\ MainInv' /\ OfflineInv'
      BY <3>1 DEF GameInv, LobbyTypes, MainInv, OfflineInv
    <3>5. SayInv'
      BY <3>1 DEF GameInv, SayInv
    <3>6. PlaceInv'
      BY <3>2 DEF GameInv, PlaceInv, ClosedInTime
    <3>7. ProbeInv'
      BY <3>3 DEF GameInv, ProbeInv, ProbeTypes, Searching, ScansAccounted, SearchedOnce, OwnFindings
    <3> QED
      BY <2>1, <3>4, <3>5, <3>6, <3>7 DEF GameInv
  <2> QED
    BY <2>2, <2>3
<1> QED
  BY <1>1, GameStarts, PTL DEF Spec

\* However often a logger was disconnected before, some timer is as old as the
\* present disconnect, so that it is back or has exited within the wait
\* (main.rs:707-722).
THEOREM OfflineIsBounded == Spec => []OfflineBounded
<1>1. GameInv => OfflineBounded
  BY DEF GameInv, OfflineInv, OfflineBounded
<1> QED
  BY <1>1, GameInvariant, PTL

\* What the tasks of this connection and of earlier ones do: whether the logger
\* is in the main world, what it says, and when the queue probe leaves
\* (main.rs:1022-1040, 1783-1800, 1911-1934).
THEOREM TasksKept == Spec => []TasksAccounted
<1>1. GameInv => MainAccounted
  BY DEF GameInv, MainInv, MayBeWrong, MainAccounted
<1>2. GameInv => CommandsAccounted
  BY DEF GameInv, SayInv, CommandsAccounted
<1>3. GameInv => ClosedInTime
  BY DEF GameInv, PlaceInv
<1>4. GameInv => TasksAccounted
  BY <1>1, <1>2, <1>3 DEF TasksAccounted, LateTasksAccounted
<1> QED
  BY <1>4, GameInvariant, PTL

\* A connection that lives long enough has its plugins searched for, once and
\* from what it told itself, but for the named exceptions (main.rs:562-570,
\* 617-622, 1714-1716).
THEOREM ScansKept == Spec => []ScansAccounted
<1>1. GameInv => ScansAccounted
  BY DEF GameInv, ProbeInv
<1> QED
  BY <1>1, GameInvariant, PTL
=============================================================================
