------------------------------ MODULE Persister ------------------------------
(***************************************************************************)
(* persister-gw: the Persister, its Bigtable storage and its HTTP handlers. *)
(*                                                                         *)
(* A payload is kept in two places: a Bigtable row, which survives a crash, *)
(* and the map metrics, from which the Push goroutine sends every interval. *)
(* The handlers change first the table, then the map; load fills the map   *)
(* from the table when the process starts, while requests already arrive.  *)
(*                                                                         *)
(* A payload in the map stands for the metrics generated from it.  The     *)
(* mutex is held for one step, except by Send, which keeps it while it     *)
(* pushes to the gateway.                                                  *)
(***************************************************************************)
EXTENDS Naturals, Sequences

CONSTANTS
  NumRows,     \* row keys are 1 .. NumRows, in the table's order
  Payloads,    \* payloads that decode
  Bad,         \* payloads whose Raw part does not decode
  None,        \* no row, no map entry
  Unknown,     \* what a client knows of a row it has no clear answer for
  Gohai,       \* Gohai[v]: [decodes, filesystems], the Gohai part of payload v
  MaxBuffer,   \* Persister.maxBufferSize
  Handlers,    \* HTTP handler goroutines
  Faults       \* what may fail: "store", "bulk", "retrieve", "push"

ASSUME PersisterAssumption ==
  /\ NumRows \in Nat /\ MaxBuffer \in Nat \ {0}
  /\ Gohai \in [Payloads -> [decodes : BOOLEAN, filesystems : Nat]]
  /\ None \notin Payloads \cup Bad /\ Unknown \notin Payloads \cup Bad \cup {None}
  /\ Payloads \cap Bad = {}

Rows == 1 .. NumRows

VARIABLES
  table,    \* the Bigtable rows
  metrics,  \* Persister.metrics
  locked,   \* Send holds the mutex
  ppc,      \* Push goroutine: "retrieve", "load", "tick", "send", "final" or "off"
  cursor,   \* the row ReadRows delivers next
  intakes,  \* Retrieve's result, the part load has not put into the map yet
  todo,     \* rows Send has still to visit
  rest,     \* metrics of the row it is visiting
  buf,      \* Send's local slice metrics
  hpc,      \* handler: "idle", "store", "persist", "remove", "delete" or "index"
  rows,     \* the rows of the handler's request
  value,    \* the payload of its request
  alone,    \* the rows of its request that no other request has named since
  told,     \* told[r]: what the answers so far tell about row r
  touched,  \* rows that requests have named since the process started
  due,      \* metrics in the map when Send took the lock
  sent,     \* metrics the gateway has got from this Send, in order
  failed    \* a push of the last Send failed

loadVars == <<cursor, intakes>>
sendVars == <<locked, todo, rest, buf, due, sent, failed>>
reqVars == <<hpc, rows, value, alone, told, touched>>
vars == <<table, metrics, ppc, loadVars, sendVars, reqVars>>

Empty == [r \in Rows |-> None]

\* How many metrics GeneratePersistentMetrics makes of payload v: the system
\* info, and with a Gohai part that decodes the platform, the network and
\* each filesystem.
Size(v) == IF Gohai[v].decodes THEN 3 + Gohai[v].filesystems ELSE 1

Init ==
  /\ table = Empty
  /\ told = [r \in Rows |-> Unknown]
  /\ metrics = Empty
  /\ locked = FALSE
  /\ ppc = "retrieve"
  /\ cursor = 1
  /\ intakes = Empty
  /\ todo = {} /\ rest = <<>> /\ buf = <<>>
  /\ hpc = [h \in Handlers |-> "idle"]
  /\ rows = [h \in Handlers |-> {}]
  /\ value = [h \in Handlers |-> None]
  /\ alone = [h \in Handlers |-> {}]
  /\ touched = {}
  /\ due = {} /\ sent = <<>> /\ failed = FALSE

\* The process dies at any point and is started again; only the table, and
\* what the clients have been told, remain.
Crash ==
  /\ metrics' = Empty
  /\ locked' = FALSE
  /\ ppc' = "retrieve"
  /\ cursor' = 1
  /\ intakes' = Empty
  /\ todo' = {} /\ rest' = <<>> /\ buf' = <<>>
  /\ hpc' = [h \in Handlers |-> "idle"]
  /\ rows' = [h \in Handlers |-> {}]
  /\ value' = [h \in Handlers |-> None]
  /\ alone' = [h \in Handlers |-> {}]
  /\ touched' = {}
  /\ due' = {} /\ sent' = <<>> /\ failed' = FALSE
  /\ UNCHANGED <<table, told>>

-----------------------------------------------------------------------------
(* The handlers *)

\* A request that names the rows R arrives.
Arrive(h, R, v, at) ==
  /\ hpc[h] = "idle"
  /\ hpc' = [hpc EXCEPT ![h] = at]
  /\ rows' = [rows EXCEPT ![h] = R]
  /\ value' = [value EXCEPT ![h] = v]
  /\ alone' = [g \in Handlers |-> IF g = h THEN R \ UNION {rows[f] : f \in Handlers \ {h}} ELSE alone[g] \ R]
  /\ told' = [r \in Rows |-> IF r \in R THEN Unknown ELSE told[r]]
  /\ touched' = touched \cup R
  /\ UNCHANGED <<table, metrics, ppc, loadVars, sendVars>>

PersistHandler(h, r, v) == Arrive(h, {r}, v, "store")
RemoveRowsHandler(h, R) == Arrive(h, R, None, "remove")
IndexHandler(h) == Arrive(h, {}, None, "index")

\* The handler has answered.
Done(h) ==
  /\ hpc' = [hpc EXCEPT ![h] = "idle"]
  /\ rows' = [rows EXCEPT ![h] = {}]
  /\ value' = [value EXCEPT ![h] = None]
  /\ alone' = [alone EXCEPT ![h] = {}]
  /\ UNCHANGED touched

\* An answer that tells nothing certain about the rows.
AnswerOther(h) == Done(h) /\ UNCHANGED told

\* "ok": the rows have the request's value, unless other requests named them
\* while this one was under way.
AnswerOk(h) ==
  /\ Done(h)
  /\ told' = [r \in Rows |-> IF r \in alone[h] THEN value[h] ELSE told[r]]

\* f with v for all the rows of R.
Put(f, R, v) == [r \in Rows |-> IF r \in R THEN v ELSE f[r]]

\* storage.Store, and then the payload's Raw part is decoded: one that does
\* not decode is refused, but its row has been written.
Store(h) ==
  /\ hpc[h] = "store"
  /\ table' = Put(table, rows[h], value[h])
  /\ \/ value[h] \in Payloads /\ hpc' = [hpc EXCEPT ![h] = "persist"] /\ UNCHANGED <<rows, value, alone, told, touched>>
     \/ value[h] \in Bad /\ AnswerOther(h)
  /\ UNCHANGED <<metrics, ppc, loadVars, sendVars>>

\* The table write fails, before or after the table has taken it.
StoreFails(h) ==
  /\ "store" \in Faults
  /\ hpc[h] = "store"
  /\ table' \in {table, Put(table, rows[h], value[h])}
  /\ AnswerOther(h)
  /\ UNCHANGED <<metrics, ppc, loadVars, sendVars>>

\* Persist puts the metrics into the map, under the lock.
Persist(h) ==
  /\ hpc[h] = "persist"
  /\ ~ locked
  /\ metrics' = Put(metrics, rows[h], value[h])
  /\ AnswerOk(h)
  /\ UNCHANGED <<table, ppc, loadVars, sendVars>>

\* Mutant: a failed bulk delete is taken for a success.
RemoveUnchecked(h) ==
  /\ hpc[h] = "remove"
  /\ table' \in {table, Put(table, rows[h], None)}
  /\ hpc' = [hpc EXCEPT ![h] = "delete"]
  /\ UNCHANGED <<metrics, ppc, loadVars, sendVars, rows, value, alone, told, touched>>

\* storage.Remove: ApplyBulk reports failures of single rows apart from the
\* failure of the call; they are logged and the call counts as a success.
Remove(h) ==
  /\ hpc[h] = "remove"
  /\ \E R \in SUBSET rows[h] : /\ "bulk" \notin Faults => R = rows[h]
                               /\ table' = Put(table, R, None)
  /\ hpc' = [hpc EXCEPT ![h] = "delete"]
  /\ UNCHANGED <<metrics, ppc, loadVars, sendVars, rows, value, alone, told, touched>>

\* The whole call fails, some rows may have been deleted.
RemoveFails(h) ==
  /\ "store" \in Faults
  /\ hpc[h] = "remove"
  /\ \E R \in SUBSET rows[h] : table' = Put(table, R, None)
  /\ AnswerOther(h)
  /\ UNCHANGED <<metrics, ppc, loadVars, sendVars>>

\* Mutant: the rows leave the table only.
DeleteNothing(h) ==
  /\ hpc[h] = "delete"
  /\ ~ locked
  /\ AnswerOk(h)
  /\ UNCHANGED <<table, metrics, ppc, loadVars, sendVars>>

\* The rows leave the map, under the lock.
Delete(h) ==
  /\ hpc[h] = "delete"
  /\ ~ locked
  /\ metrics' = Put(metrics, rows[h], None)
  /\ AnswerOk(h)
  /\ UNCHANGED <<table, ppc, loadVars, sendVars>>

\* The map is shown, under the lock.
Index(h) ==
  /\ hpc[h] = "index"
  /\ ~ locked
  /\ AnswerOther(h)
  /\ UNCHANGED <<table, metrics, ppc, loadVars, sendVars>>

-----------------------------------------------------------------------------
(* load *)

\* Mutant: the scan begins after the first row.
ReadRowSkip ==
  /\ ppc = "retrieve" /\ cursor <= NumRows
  /\ intakes' = IF table[cursor] \in Payloads /\ cursor > 1 THEN [intakes EXCEPT ![cursor] = table[cursor]]
                                                            ELSE intakes
  /\ cursor' = IF table[cursor] \in Bad THEN NumRows + 1 ELSE cursor + 1
  /\ UNCHANGED <<table, metrics, ppc, sendVars, reqVars>>

\* Retrieve's callback gets the next row; one that does not decode ends the
\* scan, without an error.
ReadRow ==
  /\ ppc = "retrieve" /\ cursor <= NumRows
  /\ intakes' = IF table[cursor] \in Payloads THEN [intakes EXCEPT ![cursor] = table[cursor]] ELSE intakes
  /\ cursor' = IF table[cursor] \in Bad THEN NumRows + 1 ELSE cursor + 1
  /\ UNCHANGED <<table, metrics, ppc, sendVars, reqVars>>

Retrieved ==
  /\ ppc = "retrieve" /\ cursor > NumRows
  /\ ppc' = "load"
  /\ UNCHANGED <<table, metrics, loadVars, sendVars, reqVars>>

\* The scan fails: load returns the error and Push returns.
RetrieveFails ==
  /\ "retrieve" \in Faults
  /\ ppc = "retrieve"
  /\ ppc' = "off"
  /\ UNCHANGED <<table, metrics, loadVars, sendVars, reqVars>>

\* load puts one of the rows into the map.
LoadRow(r) ==
  /\ ppc = "load"
  /\ intakes[r] # None
  /\ metrics' = [metrics EXCEPT ![r] = intakes[r]]
  /\ intakes' = [intakes EXCEPT ![r] = None]
  /\ UNCHANGED <<table, ppc, cursor, sendVars, reqVars>>

Loaded ==
  /\ ppc = "load" /\ intakes = Empty
  /\ ppc' = "tick"
  /\ UNCHANGED <<table, metrics, loadVars, sendVars, reqVars>>

-----------------------------------------------------------------------------
(* Send *)

MetricsOf(r) == IF metrics[r] = None THEN {} ELSE {<<r, i>> : i \in 1 .. Size(metrics[r])}

Elements(s) == {s[i] : i \in DOMAIN s}

\* The ticker fires and Send takes the lock.
SendStart ==
  /\ ppc = "tick"
  /\ ~ locked
  /\ locked' = TRUE
  /\ todo' = {r \in Rows : metrics[r] # None}
  /\ due' = UNION {MetricsOf(r) : r \in Rows}
  /\ sent' = <<>>
  /\ failed' = FALSE
  /\ buf' = <<>>
  /\ ppc' = "send"
  /\ UNCHANGED <<table, metrics, loadVars, rest, reqVars>>

\* The next row of the map, in any order.
SendRow(r) ==
  /\ ppc = "send"
  /\ rest = <<>>
  /\ r \in todo
  /\ todo' = todo \ {r}
  /\ rest' = [i \in 1 .. Size(metrics[r]) |-> <<r, i>>]
  /\ UNCHANGED <<table, metrics, ppc, loadVars, locked, buf, due, sent, failed, reqVars>>

\* Mutant: the buffer is not emptied after a push.
AfterPushKept(b) == b

\* The buffer after a push.
AfterPush(b) == <<>>

\* Client.Push: the gateway takes the metrics, or Push returns an error,
\* which a gateway that has taken them may cause as well.
PushOk(b) == sent' = sent \o b
PushFails(b) == "push" \in Faults /\ sent' \in {sent, sent \o b}

\* One metric goes into the buffer, a full buffer to the gateway.
SendMetric ==
  LET b == Append(buf, Head(rest)) IN
  /\ ppc = "send"
  /\ rest # <<>>
  /\ rest' = Tail(rest)
  /\ \/ Len(b) < MaxBuffer /\ buf' = b /\ UNCHANGED sent
     \/ Len(b) >= MaxBuffer /\ PushOk(b) /\ buf' = AfterPush(b)
  /\ UNCHANGED <<table, metrics, ppc, loadVars, locked, todo, due, failed, reqVars>>

\* The push of a full buffer fails: Send returns at once, with the lock.
SendFails ==
  /\ ppc = "send"
  /\ rest # <<>> /\ Len(buf) + 1 >= MaxBuffer
  /\ PushFails(Append(buf, Head(rest)))
  /\ ppc' = "tick"
  /\ failed' = TRUE
  /\ todo' = {} /\ rest' = <<>> /\ buf' = <<>>
  /\ UNCHANGED <<table, metrics, loadVars, locked, due, reqVars>>

\* Mutant: the lock is kept.
SendUnlockNot ==
  /\ ppc = "send"
  /\ rest = <<>> /\ todo = {}
  /\ ppc' = "final"
  /\ UNCHANGED <<table, metrics, loadVars, locked, todo, rest, buf, due, sent, failed, reqVars>>

\* All rows are done: the lock is released.
SendUnlock ==
  /\ ppc = "send"
  /\ rest = <<>> /\ todo = {}
  /\ locked' = FALSE
  /\ ppc' = "final"
  /\ UNCHANGED <<table, metrics, loadVars, todo, rest, buf, due, sent, failed, reqVars>>

\* What is left in the buffer is pushed, if anything is.
SendFinal ==
  /\ ppc = "final"
  /\ \/ buf = <<>> /\ UNCHANGED <<sent, failed>>
     \/ buf # <<>> /\ PushOk(buf) /\ UNCHANGED failed
     \/ buf # <<>> /\ PushFails(buf) /\ failed' = TRUE
  /\ buf' = <<>>
  /\ ppc' = "tick"
  /\ UNCHANGED <<table, metrics, loadVars, locked, todo, rest, due, reqVars>>

-----------------------------------------------------------------------------

Request(h) ==
  \/ \E r \in Rows, v \in Payloads \cup Bad : PersistHandler(h, r, v)
  \/ \E R \in SUBSET Rows \ {{}} : RemoveRowsHandler(h, R)
  \/ IndexHandler(h)

HandlerStep(h) ==
  Store(h) \/ StoreFails(h) \/ Persist(h) \/ Remove(h) \/ RemoveFails(h) \/ Delete(h) \/ Index(h)

Load == ReadRow \/ Retrieved \/ RetrieveFails \/ (\E r \in Rows : LoadRow(r)) \/ Loaded

Send == SendStart \/ (\E r \in Rows : SendRow(r)) \/ SendMetric \/ SendFails \/ SendUnlock \/ SendFinal

Next ==
  \/ \E h \in Handlers : Request(h) \/ HandlerStep(h)
  \/ Load
  \/ Send
  \/ Crash

Spec == Init /\ [][Next]_vars

\* The Push goroutine runs and its ticker fires; a handler that has begun
\* goes on, and gets the mutex if it is free again and again: sync.Mutex hands
\* itself to a waiter that starves.  Nothing obliges clients to send requests.
FairSpec ==
  /\ Spec
  /\ WF_vars(Load \/ Send)
  /\ \A h \in Handlers : SF_vars(HandlerStep(h))

-----------------------------------------------------------------------------

TypeOK ==
  /\ table \in [Rows -> Payloads \cup Bad \cup {None}]
  /\ metrics \in [Rows -> Payloads \cup {None}]
  /\ locked \in BOOLEAN
  /\ ppc \in {"retrieve", "load", "tick", "send", "final", "off"}
  /\ cursor \in 1 .. NumRows + 1
  /\ intakes \in [Rows -> Payloads \cup {None}]
  /\ todo \subseteq Rows
  /\ hpc \in [Handlers -> {"idle", "store", "persist", "remove", "delete", "index"}]
  /\ rows \in [Handlers -> SUBSET Rows]
  /\ value \in [Handlers -> Payloads \cup Bad \cup {None}]
  /\ alone \in [Handlers -> SUBSET Rows]
  /\ told \in [Rows -> Payloads \cup {None, Unknown}]
  /\ touched \subseteq Rows
  /\ failed \in BOOLEAN
  /\ Len(buf) < MaxBuffer

\* A row for which the last request was answered "ok", and was alone on the
\* row, has the value of that request in the table, across crashes.
AnswersAreDurable == \A r \in Rows : told[r] # Unknown => table[r] = told[r]

Running == ppc \in {"tick", "send", "final"}

InStep(r) == told[r] # Unknown => metrics[r] = told[r]
KeepsInStep == \A r \in Rows : Running /\ InStep(r) => ~ Running' \/ InStep(r)'

\* After load, the map can no longer fall behind the answers: a row on which
\* both agree keeps agreeing until the process ends.
MapStaysInStep == [][KeepsInStep]_vars

\* After a restart the map has every row of the table, however the crash cut
\* off the requests; rows that requests have named since then aside.
RestartRestores ==
  Running => \A r \in Rows \ touched : table[r] \in Payloads => metrics[r] = table[r]

Injective(s) == \A i, j \in DOMAIN s : s[i] = s[j] => i = j

\* A Send that reports no error has sent every metric that was in the map when
\* it took the lock, each exactly once, whatever the buffer size, and while it
\* holds the lock the map does not change.
SendIsComplete ==
  /\ ppc = "send" => due = UNION {MetricsOf(r) : r \in Rows}
  /\ ppc = "tick" /\ ~ failed => Elements(sent) = due /\ Injective(sent)

SentRow(r) == \E i \in DOMAIN sent : sent[i][1] = r

\* Payloads are repeatedly sent: a row that stays in the map is sent again
\* and again.
RepeatedlySent ==
  \A r \in Rows :
    <>[](metrics[r] # None) => []<>SentRow(r) /\ []<>(~ SentRow(r))

\* Every request is answered, unless the process dies first.
RequestsAnswered == \A h \in Handlers : hpc[h] # "idle" ~> hpc[h] = "idle"
=============================================================================
