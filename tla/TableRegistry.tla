--------------------------- MODULE TableRegistry ---------------------------
(***************************************************************************)
(* What a database promises about its tables: a name is a table or not; a  *)
(* table begins empty and has the columns of its CREATE until it is        *)
(* dropped with all its rows. Directories, files and sessions are not      *)
(* seen: a stop changes nothing.                                           *)
(***************************************************************************)
CONSTANTS Names, Columns, Rows

VARIABLES
  tables,   \* the columns of each table, or "none"
  rows      \* the rows of each table

registryVars == <<tables, rows>>

RegistryInit == tables = [t \in Names |-> "none"] /\ rows = [t \in Names |-> {}]

Create(t, c) ==
  /\ tables[t] = "none"
  /\ tables' = [tables EXCEPT ![t] = c]
  /\ UNCHANGED rows

Drop(t) ==
  /\ tables[t] # "none"
  /\ tables' = [tables EXCEPT ![t] = "none"]
  /\ rows' = [rows EXCEPT ![t] = {}]

Insert(t, r) ==
  /\ tables[t] # "none"
  /\ rows' = [rows EXCEPT ![t] = @ \cup {r}]
  /\ UNCHANGED tables

Delete(t) ==
  /\ tables[t] # "none"
  /\ \E kept \in SUBSET rows[t] : rows' = [rows EXCEPT ![t] = kept]
  /\ UNCHANGED tables

RegistryNext ==
  \E t \in Names :
    \/ \E c \in Columns : Create(t, c)
    \/ Drop(t)
    \/ \E r \in Rows : Insert(t, r)
    \/ Delete(t)

RegistrySpec == RegistryInit /\ [][RegistryNext]_registryVars
=============================================================================
