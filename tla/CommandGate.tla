---------------------------- MODULE CommandGate -----------------------------
(***************************************************************************)
(* The channel that slash commands are restricted to: a row of the default *)
(* server's database, read when the bot starts, and Data.command_channel,  *)
(* which every command but /commandchannel is checked against.  /command-  *)
(* channel set and clear write the row and then the variable               *)
(* (mc-discord-bot/src/commands/command_channel.rs).                       *)
(***************************************************************************)
EXTENDS Integers, FiniteSets

CONSTANTS
  GateAdmins,
  GateChannels,
  AnyChannel     \* no restriction

VARIABLES
  gateRow,    \* discord_command_channel
  gate,       \* Data.command_channel
  setting,    \* what an administrator has written and not yet stored: a set
  \* history
  raced       \* two of them wrote at the same time

gateVars == <<gateRow, gate, setting, raced>>

GateInit ==
  /\ gateRow \in GateChannels \cup {AnyChannel} /\ gate = gateRow
  /\ setting = [a \in GateAdmins |-> {}]
  /\ raced = FALSE

Setting == {a \in GateAdmins : setting[a] # {}}

\* Mutant: the variable is stored before the row is written.
StoreFirst(c) == gate' = c

StoreLater(c) == UNCHANGED gate

\* set and clear: the row is written, and if that fails nothing is done ..
WriteGate(a) ==
  /\ setting[a] = {}
  /\ \E c \in GateChannels \cup {AnyChannel} :
       /\ StoreLater(c)
       /\ \/ /\ gateRow' = c
             /\ setting' = [setting EXCEPT ![a] = {c}]
             /\ raced' = (raced \/ Setting # {})
          \/ UNCHANGED <<gateRow, setting, raced>>

\* .. and then the variable is stored.
StoreGate(a) ==
  /\ \E c \in setting[a] : gate' = c
  /\ setting' = [setting EXCEPT ![a] = {}]
  /\ raced' = (raced /\ (Cardinality(Setting) > 1 \/ gate' # gateRow))
  /\ UNCHANGED gateRow

\* The bot is started again.
RestartGate ==
  /\ gate' = gateRow
  /\ setting' = [a \in GateAdmins |-> {}]
  /\ raced' = FALSE
  /\ UNCHANGED gateRow

GateStep == (\E a \in GateAdmins : WriteGate(a) \/ StoreGate(a)) \/ RestartGate

-----------------------------------------------------------------------------
(* Properties.                                                             *)

\* When no command is under way, commands are allowed where the database says,
\* and so where they are after a restart; two administrators who set it at the
\* same time can leave the one's channel in the row and the other's in the
\* variable, until the next set or restart (command_channel.rs:42-48).
GateAccounted == Setting = {} => gate = gateRow \/ raced
=============================================================================
