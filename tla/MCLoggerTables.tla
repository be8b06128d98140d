--------------------------- MODULE MCLoggerTables ----------------------------
(* LoggerTables instantiated for TLC. *)
EXTENDS LoggerTables

\* One account plays under one of the names.
MCHolders ==
  {CHOOSE h \in [Names -> Accounts \cup {NoUuid}] :
     Cardinality({n \in Names : h[n] # NoUuid}) = 1}
=============================================================================
