------------------------------ MODULE PluginKV ------------------------------
(***************************************************************************)
(* One key of the plugins' key-value store: App.SetPluginKeyWithOptions,   *)
(* CompareAndDeletePluginKey, DeletePluginKey and DeleteAllKeysForPlugin   *)
(* over SqlPluginStore, called by several plugins or servers at once.      *)
(*                                                                         *)
(* One action is one statement of the database, which may fail, or take    *)
(* effect and have its answer lost.  The key has a row and may still have  *)
(* one under its hash, from before v5.6.  A row that expires at this very  *)
(* millisecond, "now", is neither shown by a query nor deleted as expired. *)
(* The code reads the clock just before it sends a statement, the model    *)
(* when the statement takes effect.                                        *)
(***************************************************************************)
CONSTANTS Clients, KvValues, NoValue

ASSUME PluginKVAssumption == NoValue \notin KvValues

VARIABLES
  driver,    \* of the database: postgres or mysql
  row,       \* the row of the key: its value and when it expires
  legacy,    \* the value under the hashed key
  kvpc,      \* start, insert, count, unhash, raw: the next statement, or idle
  req,       \* the request of each client
  result,    \* what it is answered
  missed     \* history: a clean-up of the hashed key failed or was left out

kvVars == <<driver, row, legacy, kvpc, req, result, missed>>

NoRow == [value |-> NoValue, expires |-> "never"]

Visible == IF row.expires \in {"never", "later"} THEN row.value ELSE NoValue

\* There is a row, but only an expired one.
Faded == row.value # NoValue /\ Visible = NoValue

Register == INSTANCE CasRegister WITH Values <- KvValues, None <- NoValue, val <- Visible, faded <- Faded

KvInit ==
  /\ driver \in {"postgres", "mysql"}
  /\ row = NoRow
  /\ legacy \in KvValues \union {NoValue}
  /\ kvpc = [c \in Clients |-> "idle"]
  /\ req = [c \in Clients |-> Register!Idle]
  /\ result = [c \in Clients |-> "true"]
  /\ missed = FALSE

At(c, l) == kvpc[c] = l
Step(c, l) == kvpc' = [kvpc EXCEPT ![c] = l]
Op(c) == req[c].op

\* The row that a request writes.
Rows(v) == IF v = NoValue THEN {NoRow} ELSE [value : {v}, expires : {"never", "later"}]

KvCall(c, q) ==
  /\ At(c, "idle") /\ Step(c, "start")
  /\ req' = [req EXCEPT ![c] = q]
  /\ result' = [result EXCEPT ![c] = "waiting"]
  /\ UNCHANGED <<driver, row, legacy, missed>>

Returns(c, a, l) ==
  /\ Step(c, l)
  /\ result' = [result EXCEPT ![c] = a]
  /\ req' = [req EXCEPT ![c] = Register!Idle]
  /\ missed' = (missed \/ a = "error")

\* An answer ends the call of the store, and SetPluginKeyWithOptions or
\* CompareAndDeletePluginKey goes on to the hashed key; after an error, not.
\* `Hasty' leaves the hashed key alone.
Hasty(c, a) == Returns(c, a, "idle") \/ Returns(c, "error", "idle")

Decide(c, a) == Returns(c, a, "unhash") \/ Returns(c, "error", "idle")

\* A statement fails.
KvFail(c) ==
  /\ kvpc[c] \in {"start", "insert", "count", "raw"}
  /\ Returns(c, "error", "idle")
  /\ UNCHANGED <<driver, row, legacy>>

----------------------------------------------------------------------------
(* SaveOrUpdate: Postgres updates, and inserts if there is nothing to      *)
(* update; MySQL does both in one statement.  No value means deletion.     *)

Upsert(c) ==
  /\ At(c, "start") /\ Op(c) = "set"
  /\ req[c].new = NoValue \/ driver = "mysql" \/ row # NoRow
  /\ row' \in Rows(req[c].new)
  /\ Decide(c, "true")
  /\ UNCHANGED <<driver, legacy>>

UpdateMissed(c) ==
  /\ At(c, "start") /\ Op(c) = "set"
  /\ req[c].new # NoValue /\ driver = "postgres" /\ row = NoRow
  /\ Step(c, "insert")
  /\ UNCHANGED <<driver, row, legacy, req, result, missed>>

\* CompareAndSet of nil deletes an expired row first.
\* `AnyRow' deletes it expired or not.
AnyRow == row.value # NoValue

CanDrop == row.value # NoValue /\ row.expires = "past"

DropExpired(c) ==
  /\ At(c, "start") /\ Op(c) = "cas" /\ req[c].old = NoValue /\ req[c].new # NoValue
  /\ row' = IF CanDrop THEN NoRow ELSE row
  /\ \/ Step(c, "insert") /\ UNCHANGED <<req, result, missed>>
     \/ Returns(c, "error", "idle")
  /\ UNCHANGED <<driver, legacy>>

Insert(c) ==
  /\ At(c, "insert") /\ row = NoRow
  /\ row' \in Rows(req[c].new)
  /\ Decide(c, "true")
  /\ UNCHANGED <<driver, legacy>>

\* The primary key is taken: a compare-and-set has lost, a set fails.
InsertConflict(c) ==
  /\ At(c, "insert") /\ row # NoRow
  /\ IF Op(c) = "cas" THEN Decide(c, "false") ELSE Returns(c, "error", "idle")
  /\ UNCHANGED <<driver, row, legacy>>

----------------------------------------------------------------------------
(* CompareAndSet and CompareAndDelete of a value.                          *)

Compares(q) == q.old # NoValue /\ Visible = q.old

\* MySQL counts no row when the row stays as it is, or none matches: whether
\* the value was there is then asked of a replica, which may be behind.
MustCount(c) == driver = "mysql" /\ req[c].new # NoValue /\ req[c].old = req[c].new

Swap(c) ==
  /\ At(c, "start") /\ Op(c) = "cas" /\ Compares(req[c])
  /\ row' \in Rows(req[c].new)
  /\ Decide(c, "true")
  /\ UNCHANGED <<driver, legacy>>

Mismatch(c) ==
  /\ At(c, "start") /\ Op(c) = "cas"
  /\ req[c].old = NoValue => req[c].new = NoValue
  /\ ~Compares(req[c]) /\ ~MustCount(c)
  /\ Decide(c, "false")
  /\ UNCHANGED <<driver, row, legacy>>

Unchanged(c) ==
  /\ At(c, "start") /\ Op(c) = "cas" /\ MustCount(c)
  /\ Step(c, "count")
  /\ UNCHANGED <<driver, row, legacy, req, result, missed>>

Count(c) ==
  /\ At(c, "count")
  /\ Decide(c, "true") \/ Decide(c, "false")
  /\ UNCHANGED <<driver, row, legacy>>

----------------------------------------------------------------------------
(* The hashed key, and deletions.                                          *)

\* The clean-up follows every answer; when it fails, that is only logged.
Unhash(c) ==
  /\ At(c, "unhash") /\ Step(c, "idle")
  /\ \/ legacy' = NoValue /\ UNCHANGED missed
     \/ missed' = TRUE /\ UNCHANGED legacy
  /\ UNCHANGED <<driver, row, req, result>>

\* DeletePluginKey deletes the hashed key, then the key.
DeleteHashed(c) ==
  /\ At(c, "start") /\ Op(c) = "delete"
  /\ legacy' = NoValue
  /\ \/ Step(c, "raw") /\ UNCHANGED <<req, result, missed>>
     \/ Returns(c, "error", "idle")
  /\ UNCHANGED <<driver, row>>

DeleteRaw(c) ==
  /\ At(c, "raw")
  /\ row' = NoRow
  /\ Returns(c, "true", "idle") \/ Returns(c, "error", "idle")
  /\ UNCHANGED <<driver, legacy>>

DeleteAll(c) ==
  /\ At(c, "start") /\ Op(c) = "deleteAll"
  /\ row' = NoRow /\ legacy' = NoValue
  /\ Returns(c, "true", "idle") \/ Returns(c, "error", "idle")
  /\ UNCHANGED driver

DeleteAllExpired ==
  /\ CanDrop /\ row' = NoRow
  /\ UNCHANGED <<driver, legacy, kvpc, req, result, missed>>

PassMillisecond ==
  /\ row.expires \in {"later", "now"}
  /\ row' = [row EXCEPT !.expires = IF @ = "later" THEN "now" ELSE "past"]
  /\ UNCHANGED <<driver, legacy, kvpc, req, result, missed>>

Statement(c) ==
  \/ Upsert(c) \/ UpdateMissed(c) \/ DropExpired(c) \/ Insert(c) \/ InsertConflict(c)
  \/ Swap(c) \/ Mismatch(c) \/ Unchanged(c) \/ Count(c)
  \/ Unhash(c) \/ DeleteHashed(c) \/ DeleteRaw(c) \/ DeleteAll(c) \/ KvFail(c)

KvNext ==
  \/ \E c \in Clients : Statement(c) \/ \E q \in Register!Orders : KvCall(c, q)
  \/ DeleteAllExpired \/ PassMillisecond

KvSpec == KvInit /\ [][KvNext]_kvVars

----------------------------------------------------------------------------
(* Properties.                                                             *)

\* The types of the state, and what a client waits for at each statement.
KvTypeOK ==
  /\ driver \in {"postgres", "mysql"}
  /\ row \in [value : KvValues, expires : {"never", "later", "now", "past"}] \union {NoRow}
  /\ legacy \in KvValues \union {NoValue}
  /\ kvpc \in [Clients -> {"idle", "start", "insert", "count", "unhash", "raw"}]
  /\ req \in [Clients -> Register!Orders]
  /\ result \in [Clients -> {"waiting", "true", "false", "error"}]
  /\ missed \in BOOLEAN

\* The statements of all clients, in any order and with any failures, amount
\* to a register whose calls take place at once: no compare-and-set succeeds
\* on a value that was not there, or fails on one that was.
ImplementsRegister == Register!RegisterSpec

\* A value from before v5.6 does not lie in wait under a row, to come back when
\* the row expires: whoever writes the row is about to delete it, unless a
\* statement failed.
HashedIsGone ==
  row # NoRow /\ legacy # NoValue => missed \/ \E c \in Clients : At(c, "unhash")
=============================================================================
