---------------------------- MODULE PluginProofs ----------------------------
(***************************************************************************)
(* Proofs about what plugins share.  PluginKV, for any clients and values:  *)
(* its statements implement CasRegister, and a hashed value does not        *)
(* outlive a write.  PluginEnvironment, for any administrators and number   *)
(* of processes: when two goroutines never work on the plugin at once, no   *)
(* process runs beside the registered one.                                 *)
(***************************************************************************)
EXTENDS PluginKV, PluginEnvironment, TLAPS

\* What a client is doing between two statements of one request.
Pending(c) ==
  /\ kvpc[c] \in {"start", "insert", "count", "raw"} <=> result[c] = "waiting"
  /\ At(c, "insert") => /\ Op(c) \in {"set", "cas"} /\ req[c].new # NoValue
                        /\ req[c].old = NoValue
  /\ At(c, "count") => Op(c) = "cas" /\ req[c].old = req[c].new /\ req[c].new # NoValue
  /\ At(c, "raw") => Op(c) = "delete"

KvInv == KvTypeOK /\ \A c \in Clients : Pending(c)

\* The fields of a request.
LEMMA RequestFields ==
  ASSUME NEW q \in Register!Orders
  PROVE  /\ q.op \in {"set", "delete", "deleteAll", "cas"}
         /\ q.old \in KvValues \union {NoValue} /\ q.new \in KvValues \union {NoValue}
         /\ q.op # "cas" => q.old = NoValue
         /\ q.op \in {"delete", "deleteAll"} => q.new = NoValue
BY DEF Register!Orders

LEMMA IdleIsRequest == Register!Idle \in Register!Orders /\ Register!Idle.op = "delete"
BY DEF Register!Idle, Register!Orders

\* The rows of a value have that value.
LEMMA RowsHaveValue ==
  ASSUME NEW v \in KvValues \union {NoValue}, NEW r \in Rows(v)
  PROVE  /\ r.value = v
         /\ r.expires \in {"never", "later"}
         /\ r \in [value : KvValues, expires : {"never", "later", "now", "past"}] \union {NoRow}
         /\ v = NoValue => r = NoRow
BY PluginKVAssumption DEF Rows, NoRow

LEMMA InvInit == KvInit => KvInv
BY IdleIsRequest DEF KvInit, KvInv, KvTypeOK, Pending, At

\* What the invariant says of the clients.
Waits ==
  /\ kvpc \in [Clients -> {"idle", "start", "insert", "count", "unhash", "raw"}]
  /\ req \in [Clients -> Register!Orders]
  /\ result \in [Clients -> {"waiting", "true", "false", "error"}]
  /\ missed \in BOOLEAN
  /\ \A c \in Clients : Pending(c)

\* A client that is answered leaves the invariant alone.
LEMMA ReturnWaits ==
  ASSUME Waits, NEW c \in Clients, NEW a \in {"true", "false", "error"},
         NEW l \in {"idle", "unhash"}, Returns(c, a, l)
  PROVE  Waits'
BY IdleIsRequest DEF Waits, Returns, Step, Pending, At, Op

LEMMA DecideWaits ==
  ASSUME Waits, NEW c \in Clients, NEW a \in {"true", "false"}, Decide(c, a)
  PROVE  Waits'
<1>1. CASE Returns(c, a, "unhash")  BY <1>1, ReturnWaits
<1>2. CASE Returns(c, "error", "idle")  BY <1>2, ReturnWaits
<1>3. QED  BY <1>1, <1>2 DEF Decide

\* So does one that goes on to its next statement.
LEMMA StepWaits ==
  ASSUME Waits, NEW c \in Clients, NEW l \in {"insert", "count", "raw"}, At(c, "start"), Step(c, l),
         UNCHANGED <<req, result, missed>>,
         l = "insert" => Op(c) \in {"set", "cas"} /\ req[c].new # NoValue /\ req[c].old = NoValue,
         l = "count" => Op(c) = "cas" /\ req[c].old = req[c].new /\ req[c].new # NoValue,
         l = "raw" => Op(c) = "delete"
  PROVE  Waits'
BY DEF Waits, Step, Pending, At, Op

\* The types of the database.
RowTypes ==
  /\ driver \in {"postgres", "mysql"}
  /\ row \in [value : KvValues, expires : {"never", "later", "now", "past"}] \union {NoRow}
  /\ legacy \in KvValues \union {NoValue}

LEMMA InvParts == KvInv <=> RowTypes /\ Waits
BY DEF KvInv, KvTypeOK, RowTypes, Waits

\* The rows keep their types in every statement.
LEMMA StatementRows ==
  ASSUME RowTypes, Waits, NEW c \in Clients, Statement(c)
  PROVE  RowTypes'
<1>1. /\ req[c].new \in KvValues \union {NoValue}
      /\ \A r \in Rows(req[c].new) :
           r \in [value : KvValues, expires : {"never", "later", "now", "past"}] \union {NoRow}
  <2>1. req[c] \in Register!Orders
    BY DEF Waits
  <2>2. req[c].new \in KvValues \union {NoValue}
    BY <2>1, RequestFields
  <2>3. QED
    BY <2>2, RowsHaveValue
<1>2. driver' = driver /\ legacy' \in {legacy, NoValue}
  BY DEF Statement, Upsert, UpdateMissed, DropExpired, Insert, InsertConflict,
         Swap, Mismatch, Unchanged, Count, Unhash, DeleteHashed, DeleteRaw,
         DeleteAll, KvFail
<1>3. row' \in {row, NoRow} \union Rows(req[c].new)
  BY DEF Statement, Upsert, UpdateMissed, DropExpired, Insert, InsertConflict,
         Swap, Mismatch, Unchanged, Count, Unhash, DeleteHashed, DeleteRaw,
         DeleteAll, KvFail
<1>4. QED
  BY <1>1, <1>2, <1>3 DEF RowTypes

\* And the clients wait for what they have to.
LEMMA StatementWaits ==
  ASSUME RowTypes, Waits, NEW c \in Clients, Statement(c)
  PROVE  Waits'
<1>1. req[c] \in Register!Orders
  BY DEF Waits
<1>2. req[c].op # "cas" => req[c].old = NoValue
  BY <1>1, RequestFields
<1>3. CASE Upsert(c)  BY <1>3, DecideWaits DEF Upsert
<1>4. CASE UpdateMissed(c)  BY <1>2, <1>4, StepWaits DEF UpdateMissed, Op
<1>5. CASE DropExpired(c)
  <2>1. CASE Step(c, "insert") /\ UNCHANGED <<req, result, missed>>
    BY <1>5, <2>1, StepWaits DEF DropExpired, Op
  <2>2. CASE Returns(c, "error", "idle")  BY <2>2, ReturnWaits
  <2>3. QED  BY <1>5, <2>1, <2>2 DEF DropExpired
<1>6. CASE Insert(c)  BY <1>6, DecideWaits DEF Insert
<1>7. CASE InsertConflict(c)
  BY <1>7, DecideWaits, ReturnWaits
  DEF InsertConflict
<1>8. CASE Swap(c)  BY <1>8, DecideWaits DEF Swap
<1>9. CASE Mismatch(c)  BY <1>9, DecideWaits DEF Mismatch
<1>10. CASE Unchanged(c)  BY <1>10, StepWaits DEF Unchanged, MustCount, Op
<1>11. CASE Count(c)  BY <1>11, DecideWaits DEF Count
<1>12. CASE Unhash(c)
  BY <1>12 DEF Unhash, Waits, Pending, Step, At, Op
<1>13. CASE DeleteHashed(c)
  <2>1. CASE Step(c, "raw") /\ UNCHANGED <<req, result, missed>>
    BY <1>13, <2>1, StepWaits DEF DeleteHashed, Op
  <2>2. CASE Returns(c, "error", "idle")  BY <2>2, ReturnWaits
  <2>3. QED  BY <1>13, <2>1, <2>2 DEF DeleteHashed
<1>14. CASE DeleteRaw(c)  BY <1>14, ReturnWaits DEF DeleteRaw
<1>15. CASE DeleteAll(c)  BY <1>15, ReturnWaits DEF DeleteAll
<1>16. CASE KvFail(c)  BY <1>16, ReturnWaits DEF KvFail
<1>17. QED
  BY <1>3, <1>4, <1>5, <1>6, <1>7, <1>8, <1>9, <1>10, <1>11, <1>12, <1>13,
     <1>14, <1>15, <1>16
  DEF Statement

LEMMA InvStep == KvInv /\ [KvNext]_kvVars => KvInv'
<1> SUFFICES ASSUME KvInv, [KvNext]_kvVars PROVE KvInv'
  OBVIOUS
<1>1. RowTypes /\ Waits
  BY InvParts
<1>2. CASE UNCHANGED kvVars
  BY <1>2 DEF KvInv, KvTypeOK, Pending, At, Op, kvVars
<1>3. CASE DeleteAllExpired \/ PassMillisecond
  BY <1>3
  DEF KvInv, DeleteAllExpired, PassMillisecond, KvTypeOK, Pending, At, Op,
      NoRow
<1>4. ASSUME NEW c \in Clients, NEW q \in Register!Orders, KvCall(c, q)
      PROVE  KvInv'
  BY <1>4 DEF KvInv, KvCall, KvTypeOK, Pending, At, Op, Step
<1>5. ASSUME NEW c \in Clients, Statement(c)
      PROVE  KvInv'
  <2>1. RowTypes'  BY <1>1, <1>5, StatementRows
  <2>2. Waits'  BY <1>1, <1>5, StatementWaits
  <2>3. QED  BY <2>1, <2>2, InvParts DEF KvInv, KvTypeOK, RowTypes, Waits
<1>6. QED
  BY <1>2, <1>3, <1>4, <1>5 DEF KvNext

LEMMA InvHolds == KvSpec => []KvInv
BY InvInit, InvStep, PTL DEF KvSpec

\* The state of the store and its clients keeps its types.
THEOREM KvTypes == KvSpec => []KvTypeOK
<1>1. KvInv => KvTypeOK
  BY DEF KvInv
<1>2. QED
  BY <1>1, InvHolds, PTL

----------------------------------------------------------------------------
(* The refinement. *)

\* An action that leaves the row alone leaves the register alone.
LEMMA SameRow ==
  ASSUME UNCHANGED row
  PROVE  Visible' = Visible /\ Faded' = Faded
BY DEF Visible, Faded

\* What a new row means to the register.
LEMMA NewRow ==
  ASSUME NEW v \in KvValues \union {NoValue}, row' \in Rows(v)
  PROVE  Visible' = v /\ Faded' = FALSE
<1>1. row'.value = v /\ row'.expires \in {"never", "later"}
  BY RowsHaveValue
<1>2. QED
  BY <1>1 DEF Visible, Faded

LEMMA Dropped ==
  ASSUME row' = NoRow
  PROVE  Visible' = NoValue /\ Faded' = FALSE
BY DEF NoRow, Visible, Faded

\* Dropping an expired row shows nothing.
LEMMA DroppedExpired ==
  ASSUME row' = (IF CanDrop THEN NoRow ELSE row)
  PROVE  Visible' = Visible /\ Faded' \in {Faded, FALSE}
BY Dropped, SameRow DEF CanDrop, Visible, NoRow

\* Answering a client is an answer of the register.
LEMMA ReturnAnswers ==
  ASSUME NEW c \in Clients, NEW a, NEW l, result[c] = "waiting", Returns(c, a, l)
  PROVE  Register!Answer(c, a)
BY DEF Returns, Register!Answer

LEMMA DecideAnswers ==
  ASSUME NEW c \in Clients, NEW a, result[c] = "waiting", Decide(c, a)
  PROVE  Register!Answer(c, a) \/ Register!Answer(c, "error")
BY ReturnAnswers DEF Decide

\* An error takes no effect, but for an expired row.
LEMMA ErrorRefines ==
  ASSUME NEW c \in Clients, NEW l, result[c] = "waiting", Returns(c, "error", l),
         Visible' = Visible, Faded' \in {Faded, FALSE}
  PROVE  Register!Error(c)
BY ReturnAnswers DEF Register!Error

\* A statement whose new row is the requested value is the write.
LEMMA WriteRefines ==
  ASSUME NEW c \in Clients, result[c] = "waiting", Decide(c, "true"),
         req[c].new \in KvValues \union {NoValue}, row' \in Rows(req[c].new),
         req[c].op = "cas" => Register!Matches(req[c])
  PROVE  Register!Write(c)
BY NewRow, DecideAnswers DEF Register!Write

\* One that finds another value refuses.
LEMMA RefusalRefines ==
  ASSUME NEW c \in Clients, result[c] = "waiting", Decide(c, "false"), UNCHANGED row,
         req[c].op = "cas", ~Register!Matches(req[c])
  PROVE  Register!Refuse(c) \/ Register!Error(c)
<1>1. Visible' = Visible /\ Faded' = Faded
  BY SameRow
<1>2. CASE Returns(c, "false", "unhash")
  BY <1>1, <1>2, ReturnAnswers DEF Register!Refuse
<1>3. CASE Returns(c, "error", "idle")
  BY <1>1, <1>3, ErrorRefines
<1>4. QED
  BY <1>2, <1>3 DEF Decide

\* What the register does, or nothing, in every statement of a client.
RegisterStep(c) ==
  \/ Register!Write(c) \/ Register!Refuse(c) \/ Register!Same(c) \/ Register!Error(c)
  \/ Register!Sweep
  \/ UNCHANGED <<Visible, Faded, req, result>>

LEMMA StatementRefines ==
  ASSUME KvInv, NEW c \in Clients, Statement(c)
  PROVE  RegisterStep(c)
<1>1. req[c] \in Register!Orders /\ row \in [value : KvValues, expires : {"never", "later", "now", "past"}] \union {NoRow}
  BY DEF KvInv, KvTypeOK
<1>2. /\ req[c].op \in {"set", "delete", "deleteAll", "cas"}
      /\ req[c].old \in KvValues \union {NoValue} /\ req[c].new \in KvValues \union {NoValue}
      /\ req[c].op \in {"delete", "deleteAll"} => req[c].new = NoValue
  BY <1>1, RequestFields
<1>3. Pending(c)
  BY DEF KvInv
<1>4. kvpc[c] \in {"start", "insert", "count", "raw"} => result[c] = "waiting"
  BY <1>3 DEF Pending
<1>5. CASE Upsert(c)
  <2>1. Register!Write(c)
    BY <1>2, <1>4, <1>5, WriteRefines DEF Upsert, At, Op
  <2>2. QED
    BY <2>1 DEF RegisterStep
<1>6. CASE UpdateMissed(c)
  BY <1>6, SameRow DEF UpdateMissed, RegisterStep
<1>7. CASE DropExpired(c)
  <2>1. Visible' = Visible /\ Faded' \in {Faded, FALSE}
    BY <1>7, DroppedExpired DEF DropExpired
  <2>2. CASE UNCHANGED <<req, result>>
    BY <2>1, <2>2 DEF RegisterStep, Register!Sweep
  <2>3. CASE Returns(c, "error", "idle")
    BY <1>4, <1>7, <2>1, <2>3, ErrorRefines DEF DropExpired, At, RegisterStep
  <2>4. QED
    BY <1>7, <2>2, <2>3 DEF DropExpired
<1>8. CASE Insert(c)
  <2>1. req[c].op = "cas" => Register!Matches(req[c])
    BY <1>3, <1>8
    DEF Insert, Pending, At, Register!Matches, Visible, Faded, NoRow
  <2>2. Register!Write(c)
    BY <1>2, <1>4, <1>8, <2>1, WriteRefines DEF Insert, At
  <2>3. QED
    BY <2>2 DEF RegisterStep
<1>9. CASE InsertConflict(c)
  <2>1. row.value # NoValue
    BY <1>1, <1>9, PluginKVAssumption DEF InsertConflict, NoRow
  <2>2. req[c].op = "cas" => ~Register!Matches(req[c])
    BY <1>3, <1>9, <2>1 DEF InsertConflict, Pending, At, Register!Matches, Faded
  <2>3. CASE Op(c) = "cas"
    BY <1>4, <1>9, <2>2, <2>3, RefusalRefines
    DEF InsertConflict, At, Op, RegisterStep
  <2>4. CASE Op(c) # "cas"
    BY <1>4, <1>9, <2>4, SameRow, ErrorRefines
    DEF InsertConflict, At, RegisterStep
  <2>5. QED
    BY <2>3, <2>4
<1>10. CASE Swap(c)
  <2>1. Register!Matches(req[c])
    BY <1>10 DEF Swap, Compares, Register!Matches
  <2>2. Register!Write(c)
    BY <1>2, <1>4, <1>10, <2>1, WriteRefines DEF Swap, At
  <2>3. QED
    BY <2>2 DEF RegisterStep
<1>11. CASE Mismatch(c)
  <2>1. ~Register!Matches(req[c])
    BY <1>11 DEF Mismatch, Compares, Register!Matches
  <2>2. QED
    BY <1>4, <1>11, <2>1, RefusalRefines DEF Mismatch, At, Op, RegisterStep
<1>12. CASE Unchanged(c)
  BY <1>12, SameRow DEF Unchanged, RegisterStep
<1>13. CASE Count(c)
  <2>1. Visible' = Visible /\ Faded' = Faded
    BY <1>13, SameRow DEF Count
  <2>2. result[c] = "waiting" /\ req[c].op = "cas" /\ req[c].old = req[c].new /\ req[c].new # NoValue
    BY <1>3, <1>4, <1>13 DEF Count, Pending, At, Op
  <2>3. Register!Answer(c, "true") \/ Register!Answer(c, "false") \/ Returns(c, "error", "idle")
    BY <1>13, <2>2, ReturnAnswers DEF Count, Decide
  <2>4. CASE Returns(c, "error", "idle")
    BY <2>1, <2>2, <2>4, ErrorRefines DEF RegisterStep
  <2>5. QED
    BY <2>1, <2>2, <2>3, <2>4 DEF RegisterStep, Register!Same
<1>14. CASE Unhash(c)
  BY <1>14, SameRow DEF Unhash, RegisterStep
<1>15. CASE DeleteHashed(c)
  <2>1. Visible' = Visible /\ Faded' = Faded
    BY <1>15, SameRow DEF DeleteHashed
  <2>2. CASE UNCHANGED <<req, result>>
    BY <2>1, <2>2 DEF RegisterStep
  <2>3. CASE Returns(c, "error", "idle")
    BY <1>4, <1>15, <2>1, <2>3, ErrorRefines DEF DeleteHashed, At, RegisterStep
  <2>4. QED
    BY <1>15, <2>2, <2>3 DEF DeleteHashed
<1>16. CASE DeleteRaw(c) \/ DeleteAll(c)
  <2>1. row' = NoRow /\ result[c] = "waiting" /\ req[c].op \in {"delete", "deleteAll"}
    BY <1>3, <1>4, <1>16 DEF DeleteRaw, DeleteAll, Pending, At, Op
  <2>2. Visible' = req[c].new /\ Faded' = FALSE
    BY <1>2, <2>1, Dropped
  <2>3. Register!Answer(c, "true") \/ Register!Answer(c, "error")
    BY <1>16, <2>1, ReturnAnswers DEF DeleteRaw, DeleteAll
  <2>4. QED
    BY <2>1, <2>2, <2>3 DEF RegisterStep, Register!Write
<1>17. CASE KvFail(c)
  BY <1>4, <1>17, SameRow, ErrorRefines DEF KvFail, RegisterStep
<1>18. QED
  BY <1>5, <1>6, <1>7, <1>8, <1>9, <1>10, <1>11, <1>12, <1>13, <1>14, <1>15,
     <1>16, <1>17
  DEF Statement

LEMMA StepRefines ==
  KvInv /\ [KvNext]_kvVars => [Register!RegisterNext]_(Register!registerVars)
<1> SUFFICES ASSUME KvInv, [KvNext]_kvVars
             PROVE  Register!RegisterNext \/ UNCHANGED <<Visible, Faded, req, result>>
  BY DEF Register!registerVars
<1>1. CASE UNCHANGED kvVars
  BY <1>1, SameRow DEF kvVars
<1>2. CASE DeleteAllExpired
  <2>1. Visible' = Visible /\ Faded' \in {Faded, FALSE}
    BY <1>2, DroppedExpired DEF DeleteAllExpired
  <2>2. QED
    BY <1>2, <2>1 DEF DeleteAllExpired, Register!RegisterNext, Register!Sweep
<1>3. CASE PassMillisecond
  <2>1. row \in [value : KvValues, expires : {"never", "later", "now", "past"}]
    BY <1>3 DEF PassMillisecond, KvInv, KvTypeOK, NoRow
  <2>2. UNCHANGED <<req, result>>
    BY <1>3 DEF PassMillisecond
  <2>3. CASE row.expires = "later"
    <3>1. row'.value = row.value /\ row'.expires = "now"
      BY <1>3, <2>1, <2>3 DEF PassMillisecond
    <3>2. Visible = row.value /\ Visible # NoValue /\ Visible' = NoValue /\ Faded'
      BY <2>1, <2>3, <3>1, PluginKVAssumption DEF Visible, Faded
    <3>3. QED
      BY <2>2, <3>2 DEF Register!RegisterNext, Register!Fade, Faded
  <2>4. CASE row.expires = "now"
    <3>1. row'.value = row.value /\ row'.expires = "past"
      BY <1>3, <2>1, <2>4 DEF PassMillisecond
    <3>2. UNCHANGED <<Visible, Faded>>
      BY <2>4, <3>1 DEF Visible, Faded
    <3>3. QED
      BY <2>2, <3>2
  <2>5. QED
    BY <1>3, <2>3, <2>4 DEF PassMillisecond
<1>4. ASSUME NEW c \in Clients, NEW q \in Register!Orders, KvCall(c, q)
      PROVE  Register!RegisterNext
  <2>1. result[c] # "waiting"
    BY <1>4 DEF KvCall, KvInv, Pending, At
  <2>2. Register!Call(c, q)
    BY <1>4, <2>1, SameRow DEF KvCall, Register!Call
  <2>3. QED
    BY <2>2 DEF Register!RegisterNext
<1>5. ASSUME NEW c \in Clients, Statement(c)
      PROVE  Register!RegisterNext \/ UNCHANGED <<Visible, Faded, req, result>>
  BY <1>5, StatementRefines DEF RegisterStep, Register!RegisterNext
<1>6. QED
  BY <1>1, <1>2, <1>3, <1>4, <1>5 DEF KvNext

LEMMA InitRefines == KvInit => Register!RegisterInit
BY DEF KvInit, Register!RegisterInit, Visible, Faded, NoRow

\* Whatever the clients, the database and the failures, the store is a register
\* whose calls take place at once.
THEOREM StoreIsRegister == KvSpec => ImplementsRegister
BY InvHolds, InitRefines, StepRefines, PTL
DEF KvSpec, ImplementsRegister, Register!RegisterSpec

----------------------------------------------------------------------------
(* The hashed key. *)

\* A statement that leaves a row and a hashed value behind is about to delete
\* the latter, or has failed.
LEMMA StatementBuries ==
  ASSUME KvInv, HashedIsGone, NEW c \in Clients, Statement(c)
  PROVE  HashedIsGone'
<1> DEFINE Cleaning == \E d \in Clients : At(d, "unhash")
<1>0. kvpc \in [Clients -> {"idle", "start", "insert", "count", "unhash", "raw"}]
  BY DEF KvInv, KvTypeOK
<1>1. ASSUME NEW l \in {"idle", "insert", "count", "unhash", "raw"}, ~At(c, "unhash"), Step(c, l)
      PROVE  Cleaning => Cleaning'
  BY <1>0, <1>1 DEF At, Step
<1>2. ASSUME NEW a, Decide(c, a)
      PROVE  missed' \/ Cleaning'
  BY <1>0, <1>2 DEF Decide, Returns, Step, At
<1>3. ASSUME NEW a, NEW l, Returns(c, a, l)
      PROVE  missed => missed'
  BY <1>3 DEF Returns
<1>4. CASE Upsert(c) \/ Insert(c) \/ Swap(c) \/ Mismatch(c) \/ Count(c)
  BY <1>2, <1>4 DEF Upsert, Insert, Swap, Mismatch, Count, HashedIsGone
<1>5. CASE UpdateMissed(c) \/ Unchanged(c)
  BY <1>1, <1>5 DEF UpdateMissed, Unchanged, HashedIsGone, At
<1>6. CASE DropExpired(c)
  <2>1. row' \in {row, NoRow} /\ UNCHANGED legacy
    BY <1>6 DEF DropExpired
  <2>2. (Cleaning => Cleaning') /\ (missed => missed')
    BY <1>1, <1>3, <1>6 DEF DropExpired, At, Returns
  <2>3. QED
    BY <2>1, <2>2 DEF HashedIsGone
<1>7. CASE InsertConflict(c)
  BY <1>2, <1>7 DEF InsertConflict, Returns, HashedIsGone
<1>8. CASE Unhash(c)
  BY <1>8 DEF Unhash, HashedIsGone
<1>9. CASE DeleteHashed(c) \/ DeleteRaw(c) \/ DeleteAll(c)
  BY <1>9 DEF DeleteHashed, DeleteRaw, DeleteAll, HashedIsGone
<1>10. CASE KvFail(c)
  BY <1>10 DEF KvFail, Returns, HashedIsGone
<1>11. QED
  BY <1>4, <1>5, <1>6, <1>7, <1>8, <1>9, <1>10 DEF Statement

LEMMA StepBuries == KvInv /\ HashedIsGone /\ [KvNext]_kvVars => HashedIsGone'
<1> SUFFICES ASSUME KvInv, HashedIsGone, [KvNext]_kvVars PROVE HashedIsGone'
  OBVIOUS
<1>1. CASE UNCHANGED kvVars
  BY <1>1 DEF HashedIsGone, kvVars, At
<1>2. CASE DeleteAllExpired \/ PassMillisecond
  BY <1>2 DEF DeleteAllExpired, PassMillisecond, HashedIsGone, NoRow, At
<1>3. ASSUME NEW c \in Clients, NEW q \in Register!Orders, KvCall(c, q)
      PROVE  HashedIsGone'
  BY <1>3 DEF KvCall, HashedIsGone, At, Step, KvInv, KvTypeOK
<1>4. QED
  BY <1>1, <1>2, <1>3, StatementBuries DEF KvNext

\* No hashed value stays under a row that a successful call wrote.
THEOREM HashedValuesEnd == KvSpec => []HashedIsGone
<1>1. KvInit => HashedIsGone
  BY DEF KvInit, HashedIsGone
<1>2. QED
  BY <1>1, InvHolds, StepBuries, PTL DEF KvSpec

-----------------------------------------------------------------------------
(***************************************************************************)
(* The plugin environment.  While no two goroutines have overlapped there   *)
(* is one that all the others leave alone, Alone(a), and Fact(a) says what  *)
(* holds at the step that one has reached: between two of its steps the     *)
(* registration, the running processes and its own copies may disagree, and *)
(* only in the way the step says.                                          *)
(***************************************************************************)

\* The plugin is enabled.
On == config = "on"
\* No process runs but that of the active registration.
Clean == alive \subseteq IF IsActive THEN {registered.sup} ELSE {}
\* No failed check is counted.
NoFails == Registered => registered.fails = 0
\* Not active, and nothing runs.
Stopped == ~IsActive /\ alive = {}

\* The steps of a goroutine; the checker has no request to make, a request no check.
Steps ==
  {"idle", "setLoad", "setStore", "activate", "load", "store", "start", "storeSup",
   "deactivate", "wasActive", "kill", "delete", "remove", "removed", "check", "ping",
   "fail", "note", "reset", "stay", "listen", "cancel", "shutdown"}
CheckerSteps == Steps \ {"listen", "remove", "removed", "cancel", "shutdown"}
AdminSteps == Steps \ {"check", "ping", "fail", "note", "reset", "stay"}

\* What the goroutines keep, each in its set.
EnvShapes ==
  /\ rp \in [Actors -> Entries] /\ copy \in [Actors -> Entries]
  /\ step \in [Actors -> Steps]
  /\ plan \in [Actors -> {"end", "restart", "stay", "install"}]
  /\ setting \in [Actors -> {"run", "fail", "stay", "stopActive", "stopInactive"}]
  /\ listeners \in [Actors -> SUBSET {"sync", "init"}]

\* The checker never installs, a request never restarts, an idle one tells nobody.
Keeps(a) ==
  /\ a = Checker => /\ plan[a] # "install" /\ listeners[a] = {}
                    /\ step[a] \in CheckerSteps
  /\ a \in Admins => /\ plan[a] \in {"end", "install"}
                     /\ step[a] \in AdminSteps
  /\ step[a] = "idle" => listeners[a] = {}

\* EnvTypeOK, and the shapes above.
EnvTypes ==
  /\ config \in {"on", "off", "disabled"} /\ job \in {"none", "on", "cancelled"}
  /\ registered \in Entries \union {NoPlugin}
  /\ alive \subseteq Procs
  /\ overlapped \in BOOLEAN
  /\ EnvShapes
  /\ \A a \in Actors : Keeps(a)

\* The goroutine has no configuration change left to act on.
Synced(a) == "sync" \notin listeners[a]

\* Between two requests: what runs is what is registered, and what is off is stopped.
Quiet == Clean /\ NoFails /\ (~On => ~IsActive)

\* During a health check.
Checking(a) ==
  /\ step[a] \in {"check", "ping", "fail", "note"} =>
       On /\ IsActive /\ Clean /\ NoFails
  /\ step[a] = "ping" => rp[a] = registered
  /\ step[a] = "note" => rp[a] = [registered EXCEPT !.fails = 1]

\* While the plugin is deactivated, and then removed.
Stopping(a) ==
  /\ step[a] \in {"deactivate", "wasActive"} =>
       /\ Clean
       /\ plan[a] # "restart" => NoFails
       /\ plan[a] = "restart" => IsActive /\ registered.fails <= 1
  /\ step[a] = "wasActive" => Registered /\ rp[a] = registered
  /\ step[a] = "kill" => alive \subseteq {rp[a].sup} /\ (Registered => registered.fails <= 1)
  /\ step[a] = "delete" => alive = {} /\ (Registered => registered.fails <= 1)
  /\ step[a] \in {"remove", "removed"} => Stopped /\ NoFails /\ plan[a] = "install"
  /\ step[a] = "removed" => ~Registered
  /\ step[a] \in {"cancel", "shutdown"} => Clean /\ NoFails /\ plan[a] = "end"

\* While a state is written: the copy read is still the registration.
Setting(a) ==
  step[a] \in {"setLoad", "setStore"} =>
    /\ Registered /\ registered.fails <= 1
    /\ step[a] = "setStore" => copy[a] = registered
    /\ setting[a] # "stay"
    /\ setting[a] = "stopActive" => rp[a] = registered /\ alive \subseteq {rp[a].sup}
    /\ setting[a] # "stopActive" => ~IsActive /\ NoFails
    /\ setting[a] \in {"stopInactive", "fail"} => alive = {}
    /\ setting[a] = "stopInactive" => plan[a] # "restart"
    /\ setting[a] \in {"run", "fail"} => On
    /\ setting[a] = "run" => alive \subseteq {registered.sup}

\* While it is activated.
Starting(a) ==
  /\ step[a] = "activate" => Clean /\ NoFails /\ On
  /\ step[a] \in {"load", "store", "start", "storeSup"} => ~IsActive /\ NoFails /\ On
  /\ step[a] \in {"load", "store", "start"} => alive = {}
  /\ step[a] \in {"start", "storeSup"} => Registered
  /\ step[a] \in {"store", "start", "storeSup"} =>
       rp[a].state # "running" /\ rp[a].fails = 0
  /\ step[a] = "storeSup" => alive \subseteq {rp[a].sup}

\* While the listeners of a configuration change are called.
Listening(a) ==
  /\ step[a] = "listen" => Clean /\ NoFails /\ (Synced(a) /\ ~On => ~IsActive)
  /\ ~Synced(a) => step[a] = "listen" /\ plan[a] = "end"

\* A goroutine at work.
Doing(a) ==
  /\ a = Checker => On
  /\ step[a] \notin {"reset", "stay"}
  /\ plan[a] = "install" => config # "disabled"
  /\ Checking(a) /\ Stopping(a) /\ Setting(a) /\ Starting(a) /\ Listening(a)

\* The one goroutine that may be at work, or the rest of them all.
Fact(a) ==
  /\ plan[Checker] # "stay"
  /\ IF step[a] = "idle" THEN Quiet ELSE Doing(a)

EnvInv == EnvTypes /\ (~overlapped => \E a \in Actors : Alone(a) /\ Fact(a))

\* The entries of the registration.
LEMMA EntryFacts ==
  ASSUME NEW e \in Entries
  PROVE  /\ e.state \in States /\ e.sup \in Procs \union {NoProc} /\ e.fails \in 0..RestartLimit
         /\ \A t \in States : [e EXCEPT !.state = t] \in Entries
         /\ \A p \in Procs : [e EXCEPT !.sup = p] \in Entries
         /\ Failed(e) \in Entries /\ [e EXCEPT !.fails = 0] \in Entries
         /\ e # NoPlugin /\ NewPlugin \in Entries
BY PluginAssumption
DEF Entries, Failed, RestartLimit, NewPlugin, NoProc, States

\* The states written are states.
LEMMA NewStates == \A why : NewState(why) \in States
<1> SUFFICES ASSUME NEW why PROVE NewState(why) \in States
  OBVIOUS
<1>1. CASE why = "run"  BY <1>1 DEF NewState, States
<1>2. CASE why = "fail"  BY <1>2 DEF NewState, States
<1>3. CASE why = "stay"  BY <1>3 DEF NewState, States
<1>4. CASE why \notin {"run", "fail", "stay"}  BY <1>4 DEF NewState, States
<1> QED  BY <1>1, <1>2, <1>3, <1>4

\* Where a goroutine goes on.
LEMMA AfterDeactivateGoes ==
  ASSUME NEW a
  PROVE  /\ plan[a] = "restart" => AfterDeactivate(a) = "activate"
         /\ plan[a] = "stay" => AfterDeactivate(a) = "stay"
         /\ plan[a] = "install" => AfterDeactivate(a) = "remove"
         /\ plan[a] \notin {"restart", "stay", "install"} => AfterDeactivate(a) = Rest(a)
BY DEF AfterDeactivate

LEMMA AfterSetGoes ==
  ASSUME NEW a
  PROVE  /\ setting[a] = "stopActive" => AfterSet(a) = "kill"
         /\ setting[a] = "stopInactive" => AfterSet(a) = AfterDeactivate(a)
         /\ setting[a] \notin {"stopActive", "stopInactive"} => AfterSet(a) = Rest(a)
BY DEF AfterSet

\* Only an activation writes "running".
LEMMA StatesSet ==
  /\ NewState("run") = "running" /\ NewState("fail") = "failedToStart"
  /\ \A why : why # "run" => NewState(why) # "running"
BY DEF NewState

LEMMA TypesInit == EnvInit => EnvTypes
<1> SUFFICES ASSUME EnvInit PROVE EnvTypes
  OBVIOUS
<1>1. /\ NewPlugin \in Entries
      /\ [state |-> "running", sup |-> 1, fails |-> 0] \in Entries
      /\ {1} \subseteq Procs
  BY PluginAssumption
     DEF Entries, NewPlugin, States, Procs, NoProc, RestartLimit
<1>2. registered \in Entries \union {NoPlugin} /\ alive \subseteq Procs
  BY <1>1 DEF EnvInit
<1>3. EnvShapes
  BY <1>1 DEF EnvInit, EnvShapes, Steps
<1>4. \A a \in Actors : Keeps(a)
  BY PluginAssumption
  DEF EnvInit, Keeps, Actors, Steps, CheckerSteps, AdminSteps
<1> QED  BY <1>2, <1>3, <1>4 DEF EnvInit, EnvTypes

\* The steps that change the types' parts in the plainest way.
LEMMA PlainTypes ==
  ASSUME EnvTypes, NEW a \in Actors
  PROVE  /\ \/ SetLoad(a) \/ Activate(a) \/ Load(a) \/ Store(a) \/ StoreSup(a)
            \/ Deactivate(a) \/ StopProcess(a) \/ Delete(a)
            => EnvTypes'
         /\ \/ Tick \/ Ping \/ Reset \/ FailedToStay
            => EnvTypes'
         /\ a \in Admins =>
              (\/ Save(a) \/ Install(a) \/ Sync(a) \/ InitJob(a) \/ Listened(a)
               \/ Cancel(a) \/ Remove(a) \/ Installed(a)
               => EnvTypes')
<1> USE DEF EnvTypes, EnvShapes, Keeps, Actors, Steps, CheckerSteps,
            AdminSteps, Move, Set, envVars, boundVars, localVars, Registered
<1>1. SetLoad(a) => EnvTypes'
  BY DEF SetLoad, AfterSet, AfterDeactivate, Rest
<1>2. Activate(a) => EnvTypes'
  BY DEF Activate, Rest
<1>3. ASSUME Load(a) PROVE EnvTypes'
  BY <1>3, EntryFacts DEF Load
<1>4. Store(a) => EnvTypes'
  BY DEF Store
<1>5. ASSUME StoreSup(a) PROVE EnvTypes'
  BY <1>5, EntryFacts DEF StoreSup, ThenSet
<1>6. Deactivate(a) => EnvTypes'
  BY DEF Deactivate, AfterDeactivate, Rest
<1>7. ASSUME StopProcess(a) PROVE EnvTypes'
  BY <1>7, EntryFacts DEF StopProcess
<1>8. Delete(a) => EnvTypes'
  BY DEF Delete, AfterDeactivate, Rest
<1>9. Tick => EnvTypes'
  BY PluginAssumption DEF Tick, Begin
<1>10. ASSUME Ping PROVE EnvTypes'
  <2>1. Move(Checker, "ping", "idle") \/ Move(Checker, "ping", "fail")
    BY <1>10 DEF Ping, Lives, Failure
  <2>2. /\ Set(rp, Checker, NewPlugin) /\ NewPlugin \in Entries
        /\ UNCHANGED <<envVars, copy, plan, setting, listeners, overlapped>>
    BY <1>10, EntryFacts DEF Ping, Lives, Failure
  <2> QED  BY <2>1, <2>2
<1>11. Reset => EnvTypes'
  BY EntryFacts DEF Reset
<1>12. FailedToStay => EnvTypes'
  BY DEF FailedToStay, ThenSet
<1>13. a \in Admins /\ Save(a) => EnvTypes'
  BY PluginAssumption DEF Save, Begin, Changing
<1>14. a \in Admins /\ Install(a) => EnvTypes'
  BY PluginAssumption DEF Install, Begin, Changing
<1>15. a \in Admins /\ Sync(a) => EnvTypes'
  BY DEF Sync
<1>16. a \in Admins /\ InitJob(a) => EnvTypes'
  BY DEF InitJob
<1>17. a \in Admins /\ Listened(a) => EnvTypes'
  BY DEF Listened
<1>18. a \in Admins /\ Cancel(a) => EnvTypes'
  BY DEF Cancel
<1>19. a \in Admins /\ Remove(a) => EnvTypes'
  BY DEF Remove
<1>20. a \in Admins /\ Installed(a) => EnvTypes'
  BY DEF Installed, Rest
<1> QED  BY <1>1, <1>2, <1>3, <1>4, <1>5, <1>6, <1>7, <1>8, <1>9, <1>10,
            <1>11, <1>12, <1>13, <1>14, <1>15, <1>16, <1>17, <1>18, <1>19,
            <1>20

LEMMA SetStoreTypes ==
  ASSUME EnvTypes, NEW a \in Actors, SetStore(a)
  PROVE  EnvTypes'
<1>1. copy[a] \in Entries /\ NewState(setting[a]) \in States
  BY NewStates DEF EnvTypes, EnvShapes
<1>2. registered' \in Entries
  BY <1>1, EntryFacts DEF SetStore
<1>3. copy' \in [Actors -> Entries]
  BY EntryFacts DEF EnvTypes, EnvShapes, SetStore, Set
<1> DEFINE s == AfterSet(a)
<1>4. /\ s \in Steps
      /\ a = Checker => s \in CheckerSteps
      /\ a \in Admins => s \in AdminSteps \ {"idle"}
  <2>1. plan[a] \in {"end", "restart", "stay", "install"} /\ Keeps(a)
    BY DEF EnvTypes, EnvShapes
  <2>2. AfterDeactivate(a) \in {"activate", "stay", "remove", Rest(a)}
    BY AfterDeactivateGoes
  <2>3. /\ a = Checker => AfterDeactivate(a) \in CheckerSteps
        /\ a \in Admins => AfterDeactivate(a) \in AdminSteps \ {"idle"}
    BY <2>1, AfterDeactivateGoes, PluginAssumption
       DEF Keeps, Steps, CheckerSteps, AdminSteps, Rest
  <2>4. Rest(a) \in IF a = Checker THEN {"idle"} ELSE {"listen"}
    BY DEF Rest
  <2>5. AfterSet(a) \in {"kill", AfterDeactivate(a), Rest(a)}
    BY AfterSetGoes
  <2>6. /\ a = Checker => AfterSet(a) \in CheckerSteps
        /\ a \in Admins => AfterSet(a) \in AdminSteps \ {"idle"}
    BY <2>3, <2>4, <2>5, PluginAssumption DEF Steps, CheckerSteps, AdminSteps
  <2> QED  BY <2>6 DEF Actors, CheckerSteps, AdminSteps
<1>5. setting' \in [Actors -> {"run", "fail", "stay", "stopActive", "stopInactive"}]
  BY DEF SetStore, Set, EnvTypes, EnvShapes
<1>6. UNCHANGED <<config, job, alive, rp, plan, listeners, overlapped>>
  BY DEF SetStore, boundVars
<1>7. Move(a, "setStore", s)
  BY DEF SetStore
<1> HIDE DEF s
<1>8. step' = [step EXCEPT ![a] = s] /\ step \in [Actors -> Steps]
  BY <1>7 DEF Move, EnvTypes, EnvShapes
<1>9. EnvShapes'
  <2>1. step' \in [Actors -> Steps]
    BY <1>4, <1>8
  <2> QED  BY <1>3, <1>5, <1>6, <2>1 DEF EnvTypes, EnvShapes
<1>10. ASSUME NEW b \in Actors PROVE Keeps(b)'
  <2>1. plan'[b] = plan[b] /\ listeners'[b] = listeners[b] /\ Keeps(b)
    BY <1>6 DEF EnvTypes
  <2>2. step'[b] = IF b = a THEN s ELSE step[b]
    BY <1>8
  <2>3. a = Checker => a \notin Admins
    BY PluginAssumption
  <2> QED  BY <1>4, <2>1, <2>2, <2>3 DEF Keeps, Actors
<1> QED
  BY <1>2, <1>6, <1>9, <1>10 DEF EnvTypes

LEMMA StartTypes ==
  ASSUME EnvTypes, NEW a \in Actors, Start(a)
  PROVE  EnvTypes'
<1>1. /\ rp[a] \in Entries
      /\ NewPlugin \in Entries
  BY EntryFacts DEF EnvTypes, EnvShapes
<1>2. rp' \in [Actors -> Entries]
  <2>1. CASE Set(rp, a, NewPlugin)
    <3>1. rp' = [rp EXCEPT ![a] = NewPlugin]  BY <2>1 DEF Set
    <3>2. rp \in [Actors -> Entries] /\ NewPlugin \in Entries
      BY <1>1 DEF EnvTypes, EnvShapes
    <3> QED  BY <3>1, <3>2
  <2>2. ASSUME NEW p \in Procs, Set(rp, a, [rp[a] EXCEPT !.sup = p])
        PROVE  rp' \in [Actors -> Entries]
    <3> DEFINE e == [rp[a] EXCEPT !.sup = p]
    <3>1. e \in Entries  BY <1>1, EntryFacts
    <3>2. rp' = [rp EXCEPT ![a] = e]  BY <2>2 DEF Set
    <3> HIDE DEF e
    <3> QED  BY <3>1, <3>2 DEF EnvTypes, EnvShapes
  <2> QED  BY <2>1, <2>2 DEF Start
<1>3. alive' \subseteq Procs
  BY DEF EnvTypes, Start, GiveUp
<1>4. PICK s \in {"storeSup", "setLoad"} : Move(a, "start", s)
  BY DEF Start, ThenSet
<1>5. setting' \in [Actors -> {"run", "fail", "stay", "stopActive", "stopInactive"}]
  BY DEF Start, ThenSet, Set, EnvTypes, EnvShapes
<1>6. UNCHANGED <<config, job, registered, copy, plan, listeners, overlapped>>
  BY DEF Start, boundVars
<1> QED
  BY <1>2, <1>3, <1>4, <1>5, <1>6, PluginAssumption
  DEF EnvTypes, EnvShapes, Keeps, Actors, Steps, CheckerSteps, AdminSteps,
      Move

LEMMA WasActiveTypes ==
  ASSUME EnvTypes, NEW a \in Actors, WasActive(a)
  PROVE  EnvTypes'
<1>1. rp' \in [Actors -> Entries]
  BY EntryFacts DEF EnvTypes, EnvShapes, WasActive, Set
<1>2. setting' \in [Actors -> {"run", "fail", "stay", "stopActive", "stopInactive"}]
  BY DEF WasActive, ThenSet, Set, EnvTypes, EnvShapes
<1>3. Move(a, "wasActive", "setLoad")
  BY DEF WasActive, ThenSet
<1>4. UNCHANGED <<config, job, registered, alive, copy, plan, listeners, overlapped>>
  BY DEF WasActive, envVars, boundVars
<1> QED
  BY <1>1, <1>2, <1>3, <1>4, PluginAssumption
  DEF EnvTypes, EnvShapes, Keeps, Actors, Steps, CheckerSteps, AdminSteps,
      Move

LEMMA CheckTypes ==
  ASSUME EnvTypes, Check
  PROVE  EnvTypes'
<1>1. rp' \in [Actors -> Entries]
  BY EntryFacts DEF EnvTypes, EnvShapes, Check, Set, HasSupervisor, Registered
<1>2. PICK s \in {"ping", "idle"} : Move(Checker, "check", s)
  BY DEF Check
<1>3. UNCHANGED <<config, job, registered, alive, copy, plan, setting, listeners, overlapped>>
  BY DEF Check, envVars, boundVars
<1> QED
  BY <1>1, <1>2, <1>3, PluginAssumption
  DEF EnvTypes, EnvShapes, Keeps, Actors, Steps, CheckerSteps, AdminSteps,
      Move

LEMMA FailTypes ==
  ASSUME EnvTypes, HandleFail
  PROVE  EnvTypes'
<1>1. rp' \in [Actors -> Entries]
  <2>1. Registered => Failed(registered) \in Entries
    BY EntryFacts DEF EnvTypes, Registered
  <2> QED  BY <2>1 DEF EnvTypes, EnvShapes, HandleFail, Set
<1>2. PICK s \in {"note", "idle"} : Move(Checker, "fail", s)
  BY DEF HandleFail
<1>3. UNCHANGED <<config, job, registered, alive, copy, plan, setting, listeners, overlapped>>
  BY DEF HandleFail, envVars, boundVars
<1> QED
  BY <1>1, <1>2, <1>3, PluginAssumption
  DEF EnvTypes, EnvShapes, Keeps, Actors, Steps, CheckerSteps, AdminSteps,
      Move

LEMMA NoteTypes ==
  ASSUME EnvTypes, Note
  PROVE  EnvTypes'
<1>1. rp' \in [Actors -> Entries] /\ rp[Checker] \in Entries
  <2>1. rp \in [Actors -> Entries] /\ Checker \in Actors /\ NewPlugin \in Entries
    BY EntryFacts DEF EnvTypes, EnvShapes, Actors
  <2>2. UNCHANGED rp \/ rp' = [rp EXCEPT ![Checker] = NewPlugin]
    BY DEF Note, Set
  <2> QED  BY <2>1, <2>2
<1>2. PICK s \in {"reset", "deactivate"} : Move(Checker, "note", s)
  BY DEF Note, RestartPlugin
<1>3. plan' \in [Actors -> {"end", "restart", "stay", "install"}]
     /\ plan'[Checker] \in {plan[Checker], "restart"}
     /\ \A a \in Admins : plan'[a] = plan[a]
  BY PluginAssumption DEF Note, Set, EnvTypes, EnvShapes, Actors
<1>4. registered' = rp[Checker]
     /\ UNCHANGED <<config, job, alive, copy, setting, listeners, overlapped>>
  BY DEF Note, boundVars
<1> QED
  BY <1>1, <1>2, <1>3, <1>4, PluginAssumption
  DEF EnvTypes, EnvShapes, Keeps, Actors, Steps, CheckerSteps, AdminSteps,
      Move

LEMMA ShutdownTypes ==
  ASSUME EnvTypes, NEW a \in Admins, Shutdown(a)
  PROVE  EnvTypes'
<1>1. rp' \in [Actors -> Entries]
  BY EntryFacts
  DEF EnvTypes, EnvShapes, Shutdown, Set, HasSupervisor, Registered
<1>2. PICK s \in {"kill", "delete"} : Move(a, "shutdown", s)
  BY DEF Shutdown
<1>3. UNCHANGED <<config, job, registered, alive, copy, plan, setting, listeners, overlapped>>
  BY DEF Shutdown, envVars, boundVars
<1> QED
  BY <1>1, <1>2, <1>3, PluginAssumption
  DEF EnvTypes, EnvShapes, Keeps, Actors, Steps, CheckerSteps, AdminSteps,
      Move

\* And those after which the next fact follows by looking at it.
LEMMA PlainFacts ==
  ASSUME EnvTypes, NEW a \in Actors, Fact(a)
  PROVE  /\ \/ SetLoad(a) \/ Activate(a) \/ Load(a) \/ Store(a) \/ StoreSup(a)
            \/ Deactivate(a) \/ WasActive(a) \/ StopProcess(a) \/ Delete(a)
            => Fact(a)'
         /\ a = Checker =>
              (\/ Tick \/ Check \/ Ping \/ HandleFail \/ Reset \/ FailedToStay
               => Fact(a)')
         /\ a \in Admins =>
              (\/ Save(a) \/ Install(a) \/ Sync(a) \/ InitJob(a) \/ Listened(a)
               \/ Cancel(a) \/ Shutdown(a) \/ Remove(a) \/ Installed(a)
               => Fact(a)')
<1> USE DEF EnvTypes, EnvShapes, Keeps, Actors, Fact, Doing, Checking,
            Stopping, Setting, Starting, Listening, Synced, Quiet, Stopped,
            Clean, NoFails, On, IsActive, Registered, NewPlugin, NoProc,
            Procs, Move, Set, envVars, boundVars, localVars
<1>1. SetLoad(a) => Fact(a)'
  BY DEF SetLoad
<1>2. Activate(a) => Fact(a)'
  BY DEF Activate, Rest
<1>3. Load(a) => Fact(a)'
  BY DEF Load
<1>4. Store(a) => Fact(a)'
  BY PluginAssumption DEF Store
<1>5. StoreSup(a) => Fact(a)'
  BY PluginAssumption DEF StoreSup, ThenSet
<1>6. Deactivate(a) => Fact(a)'
  BY AfterDeactivateGoes DEF Deactivate, Rest
<1>7. WasActive(a) => Fact(a)'
  BY DEF WasActive, ThenSet
<1>8. StopProcess(a) => Fact(a)'
  BY DEF StopProcess
<1>9. Delete(a) => Fact(a)'
  BY AfterDeactivateGoes DEF Delete, Rest
<1>10. a = Checker /\ Tick => Fact(a)'
  BY DEF Tick, Begin
<1>11. a = Checker /\ Check => Fact(a)'
  BY DEF Check, HasSupervisor
<1>12. a = Checker /\ Ping => Fact(a)'
  BY DEF Ping, Lives, Failure
<1>13. a = Checker /\ HandleFail => Fact(a)'
  BY DEF HandleFail, Failed, RestartLimit
<1>14. a = Checker /\ Reset => Fact(a)'
  BY DEF Reset
<1>15. a = Checker /\ FailedToStay => Fact(a)'
  BY DEF FailedToStay, ThenSet
<1>16. a \in Admins /\ Save(a) => Fact(a)'
  BY PluginAssumption DEF Save, Begin, Changing
<1>17. a \in Admins /\ Install(a) => Fact(a)'
  BY PluginAssumption DEF Install, Begin, Changing
<1>18. a \in Admins /\ Sync(a) => Fact(a)'
  BY DEF Sync
<1>19. a \in Admins /\ InitJob(a) => Fact(a)'
  BY DEF InitJob
<1>20. a \in Admins /\ Listened(a) => Fact(a)'
  BY DEF Listened
<1>21. a \in Admins /\ Cancel(a) => Fact(a)'
  BY DEF Cancel
<1>22. a \in Admins /\ Shutdown(a) => Fact(a)'
  BY DEF Shutdown, HasSupervisor
<1>23. a \in Admins /\ Remove(a) => Fact(a)'
  BY DEF Remove
<1>24. a \in Admins /\ Installed(a) => Fact(a)'
  BY DEF Installed, Rest
<1> QED  BY <1>1, <1>2, <1>3, <1>4, <1>5, <1>6, <1>7, <1>8, <1>9, <1>10,
            <1>11, <1>12, <1>13, <1>14, <1>15, <1>16, <1>17, <1>18, <1>19,
            <1>20, <1>21, <1>22, <1>23, <1>24

LEMMA SetStoreFacts ==
  ASSUME EnvTypes, NEW a \in Actors, Fact(a), SetStore(a)
  PROVE  Fact(a)'
<1> DEFINE why == setting[a]
<1>1. /\ Setting(a) /\ Doing(a) /\ plan[Checker] # "stay" /\ step[a] = "setStore"
      /\ plan[a] \in {"end", "restart", "stay", "install"} /\ Keeps(a)
  BY DEF Fact, Doing, SetStore, Move, EnvTypes, EnvShapes
<1>2. /\ Registered /\ registered \in Entries /\ copy[a] = registered
      /\ registered.fails <= 1
  BY <1>1 DEF Setting, EnvTypes, Registered
<1>3. /\ Registered' /\ registered'.sup = registered.sup
      /\ registered'.fails = registered.fails /\ registered'.state = NewState(why)
  <2> DEFINE new == [registered EXCEPT !.state = NewState(why)]
  <2>1. registered' = new  BY <1>2 DEF SetStore
  <2>2. new \in Entries  BY <1>2, NewStates, EntryFacts
  <2>3. /\ new.sup = registered.sup /\ new.fails = registered.fails
        /\ new.state = NewState(why)
    BY <1>2, NewStates DEF Entries
  <2> HIDE DEF new
  <2> QED  BY <2>1, <2>2, <2>3, PluginAssumption DEF Registered
<1>4. UNCHANGED <<config, alive, rp, plan, listeners>>
  BY DEF SetStore
<1>5. step'[a] = AfterSet(a)
  BY DEF SetStore, Move, EnvTypes, EnvShapes
<1>6. CASE why = "stopActive"
  <2>1. step'[a] = "kill"  BY <1>5, <1>6, AfterSetGoes
  <2> QED
    BY <1>1, <1>2, <1>3, <1>4, <1>6, <2>1
    DEF Fact, Doing, Checking, Stopping, Setting, Starting, Listening, Synced,
        Quiet, Stopped, Clean, NoFails, On, IsActive, Registered
<1>7. CASE why = "stopInactive"
  <2>1. ~IsActive' /\ NoFails' /\ alive' = {}
    BY <1>1, <1>2, <1>3, <1>4, <1>7, StatesSet DEF Setting, IsActive, NoFails
  <2>2. step'[a] \in {"remove", Rest(a)} /\ (step'[a] = "remove" => plan[a] = "install")
    <3>1. step'[a] = AfterDeactivate(a)  BY <1>5, <1>7, AfterSetGoes
    <3>2. plan[a] \in {"end", "install"}
      BY <1>1, <1>7 DEF Keeps, Setting, Actors
    <3> QED  BY <3>1, <3>2, AfterDeactivateGoes DEF Rest
  <2> QED
    BY <1>1, <1>4, <2>1, <2>2
    DEF Fact, Doing, Checking, Stopping, Setting, Starting, Listening, Synced,
        Quiet, Stopped, Clean, NoFails, On, IsActive, Registered, Rest
<1>8. CASE why \in {"run", "fail"}
  <2>1. step'[a] = Rest(a)  BY <1>5, <1>8, AfterSetGoes
  <2>2. Clean' /\ NoFails' /\ On'
    BY <1>1, <1>2, <1>3, <1>4, <1>8, StatesSet
    DEF Setting, Clean, NoFails, On, IsActive
  <2> QED
    BY <1>1, <1>4, <2>1, <2>2
    DEF Fact, Doing, Checking, Stopping, Setting, Starting, Listening, Synced,
        Quiet, Stopped, Clean, NoFails, On, IsActive, Registered, Rest
<1> QED
  BY <1>1, <1>6, <1>7, <1>8 DEF EnvTypes, EnvShapes, Setting

LEMMA StartFacts ==
  ASSUME EnvTypes, NEW a \in Actors, Fact(a), Start(a)
  PROVE  Fact(a)'
<1>1. /\ Doing(a) /\ plan[Checker] # "stay" /\ step[a] = "start"
      /\ rp[a] \in Entries /\ rp \in [Actors -> Entries]
  BY DEF Fact, Start, Move, ThenSet, EnvTypes, EnvShapes
<1>2. UNCHANGED <<config, registered, plan, listeners>>
  BY DEF Start
<1>3. CASE ThenSet(a, "start", "fail") /\ GiveUp(a)
  <2>1. step'[a] = "setLoad" /\ setting'[a] = "fail" /\ alive' = alive
    BY <1>3 DEF ThenSet, Move, Set, GiveUp, EnvTypes, EnvShapes
  <2> QED
    BY <1>1, <1>2, <2>1
    DEF Fact, Doing, Checking, Stopping, Setting, Starting, Listening, Synced,
        Quiet, Stopped, Clean, NoFails, On, IsActive, Registered
<1>4. ASSUME NEW p \in Procs, Move(a, "start", "storeSup"), alive' = alive \union {p},
             Set(rp, a, [rp[a] EXCEPT !.sup = p])
      PROVE  Fact(a)'
  <2>1. step'[a] = "storeSup"
    BY <1>4 DEF Move, EnvTypes, EnvShapes
  <2>2. /\ rp'[a].sup = p /\ rp'[a].state = rp[a].state
        /\ rp'[a].fails = rp[a].fails
    <3> DEFINE e == [rp[a] EXCEPT !.sup = p]
    <3>1. e.sup = p /\ e.state = rp[a].state /\ e.fails = rp[a].fails
      BY <1>1 DEF Entries
    <3>2. rp' = [rp EXCEPT ![a] = e]  BY <1>4 DEF Set
    <3> HIDE DEF e
    <3>3. rp'[a] = e  BY <1>1, <3>2
    <3> QED  BY <3>1, <3>3
  <2> QED
    BY <1>1, <1>2, <1>4, <2>1, <2>2
    DEF Fact, Doing, Checking, Stopping, Setting, Starting, Listening, Synced,
        Quiet, Stopped, Clean, NoFails, On, IsActive, Registered
<1> QED  BY <1>3, <1>4 DEF Start

LEMMA NoteFacts ==
  ASSUME EnvTypes, Fact(Checker), Note
  PROVE  Fact(Checker)'
<1>1. /\ Doing(Checker) /\ plan[Checker] # "stay" /\ step[Checker] = "note"
      /\ Checker \in Actors /\ registered \in Entries /\ Keeps(Checker)
  BY DEF Fact, Doing, Checking, IsActive, Registered, Note, Move, EnvTypes,
         Actors
<1>2. /\ rp[Checker].fails = 1 /\ rp[Checker].state = registered.state
      /\ rp[Checker].sup = registered.sup /\ rp[Checker] \in Entries
  BY <1>1 DEF Doing, Checking, Entries, EnvTypes, EnvShapes
<1>3. /\ registered' = rp[Checker] /\ UNCHANGED <<config, alive, listeners>>
      /\ ~TooMany
  BY <1>2 DEF Note, TooMany, RestartLimit
<1>4. Move(Checker, "note", "deactivate") /\ Set(plan, Checker, "restart")
  BY <1>3 DEF Note, RestartPlugin
<1>5. step'[Checker] = "deactivate" /\ plan'[Checker] = "restart"
  BY <1>1, <1>4 DEF Move, Set, EnvTypes, EnvShapes
<1>6. IsActive' /\ Clean'
  BY <1>1, <1>2, <1>3, EntryFacts
  DEF Doing, Checking, IsActive, Registered, Clean
<1> QED
  BY <1>1, <1>2, <1>3, <1>5, <1>6
  DEF Fact, Doing, Checking, Stopping, Setting, Starting, Listening, Synced,
      On, Keeps

\* A crash only takes a process away.
LEMMA CrashTypes == ASSUME EnvTypes, ProcessDies PROVE EnvTypes'
BY DEF EnvTypes, EnvShapes, Keeps, ProcessDies, Failure, localVars

LEMMA CrashFacts == ASSUME NEW a \in Actors, Fact(a), ProcessDies PROVE Fact(a)'
<1>1. /\ alive' \subseteq alive
      /\ UNCHANGED <<config, job, registered, step, rp, copy, plan, setting, listeners>>
  BY DEF ProcessDies, Failure, localVars
<1> QED
  BY <1>1
  DEF Fact, Doing, Checking, Stopping, Setting, Starting, Listening, Synced,
      Quiet, Stopped, Clean, NoFails, On, IsActive, Registered

\* What an actor does.
Does(a) ==
  \/ Operate(a)
  \/ a = Checker /\ (Tick \/ Check \/ Ping \/ HandleFail \/ Note \/ Reset \/ FailedToStay)
  \/ a \in Admins /\ \/ Save(a) \/ Install(a) \/ Sync(a) \/ InitJob(a) \/ Listened(a)
                     \/ Cancel(a) \/ Shutdown(a) \/ Remove(a) \/ Installed(a)

LEMMA SomeoneDoes ==
  EnvNext => ProcessDies \/ \E a \in Actors : Does(a)
BY DEF EnvNext, CheckerStep, AdminStep, Does, Actors

LEMMA DoesTypes ==
  ASSUME EnvTypes, NEW a \in Actors, Does(a)
  PROVE  EnvTypes'
BY PlainTypes, SetStoreTypes, StartTypes, WasActiveTypes, CheckTypes,
   FailTypes, NoteTypes, ShutdownTypes
DEF Does, Operate

LEMMA DoesFacts ==
  ASSUME EnvTypes, NEW a \in Actors, Does(a), Fact(a)
  PROVE  Fact(a)'
BY PlainFacts, SetStoreFacts, StartFacts, NoteFacts
DEF Does, Operate

\* Only its own step changes, and it begins when it is idle.
LEMMA OthersWait ==
  ASSUME NEW a \in Actors, Does(a)
  PROVE  /\ \E s : Move(a, step[a], s) \/ UNCHANGED step
         /\ UNCHANGED overlapped \/ overlapped' = (overlapped \/ ~Alone(a))
         /\ step[a] = "idle" => overlapped' = (overlapped \/ ~Alone(a))
<1> DEFINE Begins(b) ==
      /\ \E s : Move(b, step[b], s) \/ UNCHANGED step
      /\ UNCHANGED overlapped \/ overlapped' = (overlapped \/ ~Alone(b))
      /\ step[b] = "idle" => overlapped' = (overlapped \/ ~Alone(b))
<1>1. SetLoad(a) => Begins(a)
  BY DEF Move, SetLoad, boundVars, localVars
<1>2. SetStore(a) => Begins(a)
  BY DEF Move, SetStore, boundVars, localVars
<1>3. Activate(a) => Begins(a)
  BY DEF Move, Activate, boundVars, localVars
<1>4. Load(a) => Begins(a)
  BY DEF Move, Load, boundVars, localVars
<1>5. Store(a) => Begins(a)
  BY DEF Move, Store, boundVars, localVars
<1>6. Start(a) => Begins(a)
  BY DEF Move, Start, boundVars, localVars, ThenSet
<1>7. StoreSup(a) => Begins(a)
  BY DEF Move, StoreSup, boundVars, localVars, ThenSet
<1>8. Deactivate(a) => Begins(a)
  BY DEF Move, Deactivate, boundVars, localVars
<1>9. WasActive(a) => Begins(a)
  BY DEF Move, WasActive, boundVars, localVars, ThenSet
<1>10. StopProcess(a) => Begins(a)
  BY DEF Move, StopProcess, boundVars, localVars
<1>11. Delete(a) => Begins(a)
  BY DEF Move, Delete, boundVars, localVars
<1>12. Tick => Begins(Checker)
  BY DEF Move, Tick, boundVars, localVars, Begin
<1>13. Check => Begins(Checker)
  BY DEF Move, Check, boundVars, localVars
<1>14. Ping => Begins(Checker)
  BY DEF Move, Ping, Lives, Failure, boundVars, localVars
<1>15. HandleFail => Begins(Checker)
  BY DEF Move, HandleFail, boundVars, localVars
<1>16. Note => Begins(Checker)
  BY DEF Move, Note, boundVars, localVars, RestartPlugin
<1>17. Reset => Begins(Checker)
  BY DEF Move, Reset, boundVars, localVars
<1>18. FailedToStay => Begins(Checker)
  BY DEF Move, FailedToStay, boundVars, localVars, ThenSet
<1>19. Save(a) => Begins(a)
  BY DEF Move, Save, boundVars, localVars, Begin
<1>20. Install(a) => Begins(a)
  BY DEF Move, Install, boundVars, localVars, Begin
<1>21. Sync(a) => Begins(a)
  BY DEF Move, Sync, boundVars, localVars
<1>22. InitJob(a) => Begins(a)
  BY DEF Move, InitJob, boundVars, localVars
<1>23. Listened(a) => Begins(a)
  BY DEF Move, Listened, boundVars, localVars
<1>24. Cancel(a) => Begins(a)
  BY DEF Move, Cancel, boundVars, localVars
<1>25. Shutdown(a) => Begins(a)
  BY DEF Move, Shutdown, boundVars, localVars
<1>26. Remove(a) => Begins(a)
  BY DEF Move, Remove, boundVars, localVars
<1>27. Installed(a) => Begins(a)
  BY DEF Move, Installed, boundVars, localVars
<1> QED
  BY <1>1, <1>2, <1>3, <1>4, <1>5, <1>6, <1>7, <1>8, <1>9, <1>10, <1>11,
     <1>12, <1>13, <1>14, <1>15, <1>16, <1>17, <1>18, <1>19, <1>20, <1>21,
     <1>22, <1>23, <1>24, <1>25, <1>26, <1>27
  DEF Does, Operate

LEMMA EnvInvInit == EnvInit => EnvInv
<1> SUFFICES ASSUME EnvInit PROVE EnvInv
  OBVIOUS
<1>1. Checker \in Actors /\ \A a \in Actors : step[a] = "idle" /\ plan[a] = "end"
  BY DEF EnvInit, Actors
<1>2. Quiet
  <2> DEFINE e == [state |-> "running", sup |-> 1, fails |-> 0]
  <2>1. e # NoPlugin
    <3>1. e \in Entries
      BY PluginAssumption DEF Entries, States, Procs, NoProc, RestartLimit
    <3> QED  BY <3>1, PluginAssumption
  <2>2. e.state = "running" /\ e.sup = 1 /\ e.fails = 0  OBVIOUS
  <2>3. \/ config = "on" /\ alive = {1} /\ registered = e
        \/ config = "off" /\ alive = {} /\ registered = NoPlugin
    BY DEF EnvInit
  <2> HIDE DEF e
  <2> QED
    BY <2>1, <2>2, <2>3 DEF Quiet, Clean, NoFails, On, IsActive, Registered
<1>3. Alone(Checker) /\ Fact(Checker)
  BY <1>1, <1>2 DEF Fact, Alone
<1> QED  BY <1>1, <1>3, TypesInit DEF EnvInv

LEMMA EnvInvNext == EnvInv /\ [EnvNext]_pluginVars => EnvInv'
<1> SUFFICES ASSUME EnvInv, [EnvNext]_pluginVars PROVE EnvInv'
  OBVIOUS
<1>1. CASE UNCHANGED pluginVars
  BY <1>1
  DEF EnvInv, EnvTypes, EnvShapes, Keeps, pluginVars, envVars, localVars,
      boundVars, Alone, Fact, Doing, Checking, Stopping, Setting, Starting,
      Listening, Synced, Quiet, Stopped, Clean, NoFails, On, IsActive,
      Registered
<1>2. CASE ProcessDies
  <2>1. EnvTypes'  BY <1>2, CrashTypes DEF EnvInv
  <2>2. step' = step /\ overlapped' = overlapped  BY <1>2 DEF ProcessDies, Failure
  <2> QED  BY <1>2, <2>1, <2>2, CrashFacts DEF EnvInv, Alone
<1>3. ASSUME NEW b \in Actors, Does(b) PROVE EnvInv'
  <2>1. EnvTypes'  BY <1>3, DoesTypes DEF EnvInv
  <2>2. SUFFICES ASSUME ~overlapped' PROVE \E a \in Actors : Alone(a)' /\ Fact(a)'
    BY <2>1 DEF EnvInv
  <2>3. ~overlapped
    BY <1>3, <2>2, OthersWait DEF EnvInv, EnvTypes
  <2>4. PICK a \in Actors : Alone(a) /\ Fact(a)
    BY <2>3 DEF EnvInv
  <2>5. Alone(b)
    BY <1>3, <2>2, <2>4, OthersWait DEF Alone
  <2>6. Fact(b)
    <3>1. CASE a = b  BY <2>4, <3>1
    <3>2. CASE a # b
      BY <2>4, <2>5, <3>2 DEF Alone, Fact
    <3> QED  BY <3>1, <3>2
  <2>7. Fact(b)'  BY <1>3, <2>6, DoesFacts DEF EnvInv
  <2>8. \A c \in Actors \ {b} : step'[c] = step[c]
    <3>1. step \in [Actors -> Steps]  BY DEF EnvInv, EnvTypes, EnvShapes
    <3> QED  BY <1>3, <3>1, OthersWait DEF Move
  <2>9. Alone(b)'  BY <2>5, <2>8 DEF Alone
  <2> QED  BY <2>7, <2>9
<1> QED  BY <1>1, <1>2, <1>3, SomeoneDoes

\* The invariant holds in every reachable state (Environment.Activate, Deactivate).
THEOREM EnvInvariance == EnvSpec => []EnvInv
<1>1. EnvInit => EnvInv  BY EnvInvInit
<1>2. EnvInv /\ [EnvNext]_pluginVars => EnvInv'  BY EnvInvNext
<1> QED  BY <1>1, <1>2, PTL DEF EnvSpec

\* The plugins have their types (EnvTypeOK).
THEOREM EnvironmentTypes == EnvSpec => []EnvTypeOK
<1>1. EnvInv => EnvTypeOK
  BY DEF EnvInv, EnvTypes, EnvShapes, Keeps, EnvTypeOK, Actors, AdminSteps
<1> QED  BY <1>1, EnvInvariance, PTL

\* For any number of administrators, crashes and changes: operations that do
\* not overlap leave no process behind that the environment does not show.
THEOREM NoProcessForgotten == EnvSpec => []NoStrayProcess
<1>1. EnvInv => NoStrayProcess
  BY DEF EnvInv, NoStrayProcess, Fact, Quiet, Clean, On
<1> QED  BY <1>1, EnvInvariance, PTL

==============================================================================
