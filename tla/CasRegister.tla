----------------------------- MODULE CasRegister -----------------------------
(***************************************************************************)
(* What the key-value store promises plugins for one key (plugin/api.go):  *)
(* a register with set, compare-and-set and delete, whose value may expire. *)
(* A call is decided in one step between its start and its answer.         *)
(***************************************************************************)
CONSTANTS Clients, Values, None

VARIABLES val,     \* the value, or None
          faded,   \* an expired value is still being remembered
          req,     \* the request of each client, Idle when it is answered
          result   \* what it is answered: waiting, true, false, error

registerVars == <<val, faded, req, result>>

Orders == [op : {"set"}, old : {None}, new : Values \union {None}]
              \union [op : {"delete", "deleteAll"}, old : {None}, new : {None}]
              \union [op : {"cas"}, old : Values \union {None}, new : Values \union {None}]

Idle == [op |-> "delete", old |-> None, new |-> None]

RegisterInit ==
  /\ val = None /\ faded = FALSE
  /\ req = [c \in Clients |-> Idle]
  /\ result = [c \in Clients |-> "true"]

Call(c, q) ==
  /\ result[c] # "waiting"
  /\ req' = [req EXCEPT ![c] = q]
  /\ result' = [result EXCEPT ![c] = "waiting"]
  /\ UNCHANGED <<val, faded>>

\* A compare-and-set may write: the value is the expected one, and if none is
\* expected, none is remembered and there is one to insert.
Matches(q) ==
  /\ val = q.old
  /\ q.old = None => q.new # None /\ ~faded

Answer(c, a) ==
  /\ result[c] = "waiting"
  /\ result' = [result EXCEPT ![c] = a]
  /\ req' = [req EXCEPT ![c] = Idle]

\* The write is decided; an error may still hide it from the client.
Write(c) ==
  /\ req[c].op = "cas" => Matches(req[c])
  /\ val' = req[c].new /\ faded' = FALSE
  /\ Answer(c, "true") \/ Answer(c, "error")

Refuse(c) ==
  /\ req[c].op = "cas" /\ ~Matches(req[c])
  /\ Answer(c, "false")
  /\ UNCHANGED <<val, faded>>

\* Setting a value to itself is not promised a right answer.
Same(c) ==
  /\ req[c].op = "cas" /\ req[c].old = req[c].new /\ req[c].new # None
  /\ Answer(c, "true") \/ Answer(c, "false")
  /\ UNCHANGED <<val, faded>>

Error(c) ==
  /\ Answer(c, "error")
  /\ faded' \in {faded, FALSE}
  /\ UNCHANGED val

Fade == val # None /\ val' = None /\ faded' = TRUE /\ UNCHANGED <<req, result>>

Sweep == faded' = FALSE /\ UNCHANGED <<val, req, result>>

RegisterNext ==
  \/ \E c \in Clients : \/ \E q \in Orders : Call(c, q)
                        \/ Write(c) \/ Refuse(c) \/ Same(c) \/ Error(c)
  \/ Fade \/ Sweep

RegisterSpec == RegisterInit /\ [][RegisterNext]_registerVars
=============================================================================
