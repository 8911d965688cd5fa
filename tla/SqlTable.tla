------------------------------ MODULE SqlTable ------------------------------
(***************************************************************************)
(* What a table promises to the statements on it: a set of rows with       *)
(* unique keys. INSERT adds rows with keys that are not there; DELETE      *)
(* removes the rows its WHERE clause holds for and no other; UPDATE        *)
(* replaces each row its WHERE clause holds for, keeps the row's key, and  *)
(* looks at every row that was there when it began. An INSERT or a DELETE  *)
(* may be cut short and keeps what it had done; an UPDATE never is.        *)
(* Files, offsets, tombstones, indexes and compactions are not seen.       *)
(***************************************************************************)
CONSTANTS
  Keys,     \* primary key values
  Values,   \* values of the other column
  Wheres    \* WHERE clauses, each the set of the rows it holds for

VARIABLES
  rows,   \* the rows of the table
  op,     \* the statement being executed
  where,  \* its WHERE clause
  todo    \* the rows a DELETE or UPDATE has still to look at

tableVars == <<rows, op, where, todo>>

TableRow == [key: Keys, val: Values]

UniqueKeys == \A r, s \in rows : r.key = s.key => r = s

TableInit == rows = {} /\ op = "none" /\ where = {} /\ todo = {}

BeginInsert ==
  /\ op = "none"
  /\ op' = "insert"
  /\ UNCHANGED <<rows, where, todo>>

AddRow(r) ==
  /\ op = "insert"
  /\ \A s \in rows : s.key # r.key
  /\ rows' = rows \cup {r}
  /\ UNCHANGED <<op, where, todo>>

(* DELETE ... WHERE key = k is one step. *)
DeleteKey(k) ==
  /\ op = "none"
  /\ rows' = {r \in rows : r.key # k}
  /\ UNCHANGED <<op, where, todo>>

BeginScan(kind, w) ==
  /\ op = "none"
  /\ op' = kind
  /\ where' = w
  /\ todo' = rows
  /\ UNCHANGED rows

PassRow(r) ==
  /\ op \in {"delete", "update"}
  /\ r \in todo \ where
  /\ todo' = todo \ {r}
  /\ UNCHANGED <<rows, op, where>>

DeleteRow(r) ==
  /\ op = "delete"
  /\ r \in todo \cap where
  /\ rows' = rows \ {r}
  /\ todo' = todo \ {r}
  /\ UNCHANGED <<op, where>>

ReplaceRow(r, v) ==
  /\ op = "update"
  /\ r \in todo \cap where
  /\ rows' = (rows \ {r}) \cup {[r EXCEPT !.val = v]}
  /\ todo' = todo \ {r}
  /\ UNCHANGED <<op, where>>

Finish ==
  /\ op # "none"
  /\ todo = {}
  /\ op' = "none"
  /\ where' = {}
  /\ UNCHANGED <<rows, todo>>

CutShort ==
  /\ op \in {"insert", "delete"}
  /\ op' = "none"
  /\ where' = {}
  /\ todo' = {}
  /\ UNCHANGED rows

TableNext ==
  \/ BeginInsert
  \/ \E r \in TableRow : AddRow(r)
  \/ \E k \in Keys : DeleteKey(k)
  \/ \E kind \in {"delete", "update"}, w \in Wheres : BeginScan(kind, w)
  \/ \E r \in todo : PassRow(r) \/ DeleteRow(r)
  \/ \E r \in todo, v \in Values : ReplaceRow(r, v)
  \/ Finish
  \/ CutShort

TableSpec == TableInit /\ [][TableNext]_tableVars
=============================================================================
