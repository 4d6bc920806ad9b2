-------------------------- MODULE PersisterProofs --------------------------
(***************************************************************************)
(* The persister, for any number of rows, payloads and handlers: its "ok"  *)
(* answers are durable, if the bulk delete reports no failures of single   *)
(* rows (Pending); the map stays in step with them whatever fails          *)
(* (Claims); load brings back what the table has, if all of it decodes     *)
(* (Restoring); and a Send without an error has sent every metric exactly  *)
(* once (Partition).                                                       *)
(***************************************************************************)
EXTENDS Persister, TLAPS

ReqTypeOK ==
  /\ table \in [Rows -> Payloads \cup Bad \cup {None}]
  /\ hpc \in [Handlers -> {"idle", "store", "persist", "remove", "delete", "index"}]
  /\ rows \in [Handlers -> SUBSET Rows]
  /\ value \in [Handlers -> Payloads \cup Bad \cup {None}]
  /\ alone \in [Handlers -> SUBSET Rows]
  /\ told \in [Rows -> Payloads \cup Bad \cup {None, Unknown}]

\* Requests under way: nothing is told about their rows, a row that a request
\* has alone is no other request's, and once the table is written it has the
\* request's value there.
Pending ==
  \A h \in Handlers :
    /\ alone[h] \subseteq rows[h]
    /\ hpc[h] = "idle" => rows[h] = {}
    /\ hpc[h] \in {"remove", "delete"} => value[h] = None
    /\ \A r \in rows[h] : told[r] = Unknown
    /\ \A g \in Handlers : g # h => alone[h] \cap rows[g] = {}
    /\ hpc[h] \in {"persist", "delete"} => \A r \in alone[h] : table[r] = value[h]

ReqInv == ReqTypeOK /\ Pending /\ AnswersAreDurable

LEMMA InitReqInv == Init => ReqInv
  BY PersisterAssumption DEF Init, ReqInv, ReqTypeOK, Pending, AnswersAreDurable, Empty

LEMMA ArriveInv ==
  ASSUME ReqInv, NEW h \in Handlers, NEW R \in SUBSET Rows, NEW v \in Payloads \cup Bad \cup {None},
         NEW at \in {"store", "remove", "index"}, at = "remove" => v = None, Arrive(h, R, v, at)
  PROVE  ReqInv'
  <1> USE DEF Arrive, ReqInv
  <1>1. ReqTypeOK'
    BY Zenon DEF ReqTypeOK
  <1>2. Pending'
    <2> SUFFICES ASSUME NEW g \in Handlers
                 PROVE  /\ alone'[g] \subseteq rows'[g]
                        /\ hpc'[g] = "idle" => rows'[g] = {}
                        /\ hpc'[g] \in {"remove", "delete"} => value'[g] = None
                        /\ \A r \in rows'[g] : told'[r] = Unknown
                        /\ \A f \in Handlers : f # g => alone'[g] \cap rows'[f] = {}
                        /\ hpc'[g] \in {"persist", "delete"} => \A r \in alone'[g] : table'[r] = value'[g]
      BY Zenon DEF Pending
    <2>1. CASE g = h
      BY <2>1 DEF ReqTypeOK, Pending
    <2>2. CASE g # h
      BY <2>2 DEF ReqTypeOK, Pending
    <2> QED
      BY <2>1, <2>2, Zenon
  <1>3. AnswersAreDurable'
    BY Zenon DEF ReqTypeOK, AnswersAreDurable
  <1> QED
    BY <1>1, <1>2, <1>3, Zenon

\* A write to the table, of rows that the handler's request names, on which
\* nothing has been told: it disturbs no other request and no answer.
LEMMA WriteInv ==
  ASSUME ReqInv, NEW h \in Handlers, NEW R \in SUBSET rows[h], NEW v \in Payloads \cup Bad \cup {None},
         table' = Put(table, R, v), UNCHANGED told
  PROVE  /\ table' \in [Rows -> Payloads \cup Bad \cup {None}]
         /\ AnswersAreDurable'
         /\ \A g \in Handlers \ {h} : \A r \in alone[g] : table'[r] = table[r]
  <1>1. R \in SUBSET Rows
    BY Zenon DEF ReqInv, ReqTypeOK
  <1> QED
    BY <1>1 DEF Put, ReqInv, ReqTypeOK, Pending, AnswersAreDurable

LEMMA AnswerOtherInv ==
  ASSUME ReqInv, NEW h \in Handlers, NEW R \in SUBSET rows[h], NEW v \in Payloads \cup Bad \cup {None},
         table' = Put(table, R, v), AnswerOther(h)
  PROVE  ReqInv'
  <1> USE DEF AnswerOther, Done
  <1>1. /\ table' \in [Rows -> Payloads \cup Bad \cup {None}]
        /\ AnswersAreDurable'
        /\ \A g \in Handlers \ {h} : \A r \in alone[g] : table'[r] = table[r]
    <2>1. UNCHANGED told
      BY Zenon
    <2> HIDE DEF AnswerOther, Done
    <2> QED
      BY <2>1, WriteInv, Zenon
  <1>2. ReqTypeOK'
    BY <1>1, Zenon DEF ReqInv, ReqTypeOK
  <1>3. Pending'
    BY <1>1 DEF ReqInv, ReqTypeOK, Pending
  <1> QED
    BY <1>1, <1>2, <1>3, Zenon DEF ReqInv

LEMMA WrittenInv ==
  ASSUME ReqInv, NEW h \in Handlers, hpc[h] \in {"store", "remove"}, NEW at \in {"persist", "delete"},
         at = "delete" => hpc[h] = "remove",
         table' = Put(table, rows[h], value[h]), hpc' = [hpc EXCEPT ![h] = at],
         UNCHANGED <<rows, value, alone, told>>
  PROVE  ReqInv'
  <1>0. rows[h] \in SUBSET Rows /\ value[h] \in Payloads \cup Bad \cup {None}
    BY Zenon DEF ReqInv, ReqTypeOK
  <1>1. /\ table' \in [Rows -> Payloads \cup Bad \cup {None}]
        /\ AnswersAreDurable'
        /\ \A g \in Handlers \ {h} : \A r \in alone[g] : table'[r] = table[r]
        /\ \A r \in rows[h] : table'[r] = value[h]
    <2>1. rows[h] \in SUBSET rows[h] /\ UNCHANGED told
      BY Zenon
    <2>2. \A r \in rows[h] : table'[r] = value[h]
      BY <1>0, Zenon DEF Put
    <2> QED
      BY <1>0, <2>1, <2>2, WriteInv, Zenon
  <1>2. ReqTypeOK'
    BY <1>1, Zenon DEF ReqInv, ReqTypeOK
  <1>3. Pending'
    BY <1>1 DEF ReqInv, ReqTypeOK, Pending
  <1> QED
    BY <1>1, <1>2, <1>3, Zenon DEF ReqInv

LEMMA AnswerInv ==
  ASSUME ReqInv, NEW h \in Handlers, hpc[h] \in {"persist", "delete"}, AnswerOk(h), UNCHANGED table
  PROVE  ReqInv'
  <1> USE DEF AnswerOk, Done
  <1>1. ReqTypeOK'
    BY Zenon DEF ReqInv, ReqTypeOK
  <1>2. Pending'
    BY DEF ReqInv, ReqTypeOK, Pending
  <1>3. AnswersAreDurable'
    BY Zenon DEF ReqInv, ReqTypeOK, Pending, AnswersAreDurable
  <1> QED
    BY <1>1, <1>2, <1>3, Zenon DEF ReqInv

LEMMA HandlerInv ==
  ASSUME "bulk" \notin Faults, ReqInv, NEW h \in Handlers, HandlerStep(h)
  PROVE  ReqInv'
  <1>0. /\ rows[h] \in SUBSET Rows /\ value[h] \in Payloads \cup Bad \cup {None}
        /\ hpc[h] \in {"remove", "delete"} => value[h] = None
    BY Zenon DEF ReqInv, ReqTypeOK, Pending
  <1>s. table = Put(table, {}, None)
    BY Zenon DEF Put, ReqInv, ReqTypeOK
  <1>1. CASE Store(h)
    BY <1>0, <1>1, WrittenInv, AnswerOtherInv, Zenon DEF Store
  <1>2. CASE StoreFails(h)
    BY <1>0, <1>s, <1>2, AnswerOtherInv, Zenon DEF StoreFails
  <1>3. CASE Persist(h)
    BY <1>3, AnswerInv, Zenon DEF Persist
  <1>4. CASE Remove(h)
    BY <1>0, <1>4, WrittenInv, Zenon DEF Remove
  <1>5. CASE RemoveFails(h)
    BY <1>0, <1>5, AnswerOtherInv, Zenon DEF RemoveFails
  <1>6. CASE Delete(h)
    BY <1>6, AnswerInv, Zenon DEF Delete
  <1>7. CASE Index(h)
    BY <1>s, <1>7, AnswerOtherInv, Zenon DEF Index
  <1> QED
    BY <1>1, <1>2, <1>3, <1>4, <1>5, <1>6, <1>7, Zenon DEF HandlerStep

\* What neither the Push goroutine nor a stuttering step touches.
LEMMA FrameInv ==
  ASSUME ReqInv, UNCHANGED <<table, reqVars>>
  PROVE  ReqInv'
  BY DEF ReqInv, reqVars, ReqTypeOK, Pending, AnswersAreDurable

LEMMA CrashInv ==
  ASSUME ReqInv, Crash
  PROVE  ReqInv'
  BY Zenon DEF ReqInv, Crash, ReqTypeOK, Pending, AnswersAreDurable

LEMMA NextReqInv ==
  ASSUME "bulk" \notin Faults, ReqInv, [Next]_vars
  PROVE  ReqInv'
  <1>1. ASSUME NEW h \in Handlers, Request(h)
        PROVE  ReqInv'
    BY <1>1, ArriveInv, Zenon DEF Request, PersistHandler, RemoveRowsHandler, IndexHandler
  <1>2. CASE Load
    BY <1>2, FrameInv, Zenon DEF Load, ReadRow, Retrieved, RetrieveFails, LoadRow, Loaded
  <1>3. CASE Send
    BY <1>3, FrameInv, Zenon DEF Send, SendStart, SendRow, SendMetric, SendFails, SendUnlock, SendFinal
  <1>4. CASE UNCHANGED vars
    BY <1>4, FrameInv DEF vars
  <1> QED
    BY <1>1, <1>2, <1>3, <1>4, HandlerInv, CrashInv DEF Next

\* An "ok" answer holds across crashes: the table has what the last
\* uncontested request on a row wrote, provided ApplyBulk reports no failures
\* of single rows (storage.Remove ignores those).
THEOREM AnswersStayDurable ==
  ASSUME "bulk" \notin Faults
  PROVE  Spec => []AnswersAreDurable
  <1>1. ReqInv /\ [Next]_vars => ReqInv'
    BY NextReqInv
  <1>2. ReqInv => AnswersAreDurable
    BY DEF ReqInv
  <1> QED
    BY <1>1, <1>2, InitReqInv, PTL DEF Spec

-----------------------------------------------------------------------------
(* The map and the answers *)

\* What of ReqInv does not depend on the table, and so holds whatever fails.
Claims ==
  /\ hpc \in [Handlers -> {"idle", "store", "persist", "remove", "delete", "index"}]
  /\ rows \in [Handlers -> SUBSET Rows]
  /\ alone \in [Handlers -> SUBSET Rows]
  /\ value = [h \in Handlers |-> value[h]]
  /\ told = [r \in Rows |-> told[r]]
  /\ touched \subseteq Rows
  /\ \A h \in Handlers :
       /\ alone[h] \subseteq rows[h] /\ rows[h] \subseteq touched
       /\ hpc[h] \in {"remove", "delete"} => value[h] = None
       /\ \A r \in rows[h] : told[r] = Unknown
       /\ \A g \in Handlers : g # h => alone[h] \cap rows[g] = {}

LEMMA InitClaims == Init => Claims
  BY DEF Init, Claims

LEMMA ArriveClaims ==
  ASSUME Claims, NEW h \in Handlers, NEW R \in SUBSET Rows, NEW v, NEW at \in {"store", "remove", "index"},
         at = "remove" => v = None, Arrive(h, R, v, at)
  PROVE  Claims'
  <1> USE DEF Arrive
  <1>1. /\ hpc' \in [Handlers -> {"idle", "store", "persist", "remove", "delete", "index"}]
        /\ rows' \in [Handlers -> SUBSET Rows]
        /\ alone' \in [Handlers -> SUBSET Rows]
        /\ value' = [g \in Handlers |-> value'[g]]
        /\ told' = [r \in Rows |-> told'[r]]
        /\ touched' \subseteq Rows
    BY Zenon DEF Claims
  <1>2. ASSUME NEW g \in Handlers
        PROVE  /\ alone'[g] \subseteq rows'[g] /\ rows'[g] \subseteq touched'
               /\ hpc'[g] \in {"remove", "delete"} => value'[g] = None
               /\ \A r \in rows'[g] : told'[r] = Unknown
               /\ \A f \in Handlers : f # g => alone'[g] \cap rows'[f] = {}
    <2>1. CASE g = h
      BY <2>1 DEF Claims
    <2>2. CASE g # h
      <3>1. rows'[g] = rows[g] /\ hpc'[g] = hpc[g] /\ value'[g] = value[g] /\ alone'[g] = alone[g] \ R /\ rows'[h] = R
        BY <2>2 DEF Claims
      <3>2. \A r \in rows[g] : told'[r] = Unknown
        BY Zenon DEF Claims
      <3>3. \A f \in Handlers : f # g => alone'[g] \cap rows'[f] = {}
        <4> TAKE f \in Handlers
        <4>1. CASE f = h
          BY <3>1, <4>1, Zenon
        <4>2. CASE f # h
          <5>1. rows'[f] = rows[f]
            BY <4>2 DEF Claims
          <5>2. f # g => alone[g] \cap rows[f] = {}
            BY Zenon DEF Claims
          <5> QED
            BY <3>1, <5>1, <5>2, Zenon
        <4> QED
          BY <4>1, <4>2, Zenon
      <3>4. alone[g] \subseteq rows[g] /\ rows[g] \subseteq touched /\ (hpc[g] \in {"remove", "delete"} => value[g] = None)
        BY Zenon DEF Claims
      <3> QED
        BY <3>1, <3>2, <3>3, <3>4, Zenon
    <2> QED
      BY <2>1, <2>2, Zenon
  <1> QED
    BY <1>1, <1>2, Zenon DEF Claims

LEMMA HandlerClaims ==
  ASSUME Claims, NEW h \in Handlers, HandlerStep(h)
  PROVE  Claims'
  \* Answers: others are told something only of rows that are h's alone.
  <1>0. ASSUME Done(h), told' = [r \in Rows |-> told'[r]], \A r \in Rows \ alone[h] : told'[r] = told[r]
        PROVE  Claims'
    <2>1. /\ hpc' \in [Handlers -> {"idle", "store", "persist", "remove", "delete", "index"}]
          /\ rows' \in [Handlers -> SUBSET Rows]
          /\ alone' \in [Handlers -> SUBSET Rows]
          /\ value' = [g \in Handlers |-> value'[g]]
          /\ touched' \subseteq Rows
      BY <1>0, Zenon DEF Done, Claims
    <2>2. rows'[h] = {} /\ alone'[h] = {} /\ hpc'[h] = "idle"
      BY <1>0 DEF Done, Claims
    <2>3. ASSUME NEW g \in Handlers, g # h
          PROVE  /\ rows'[g] = rows[g] /\ alone'[g] \subseteq alone[g] /\ hpc'[g] = hpc[g]
                 /\ hpc'[g] \in {"remove", "delete"} => value'[g] = None
                 /\ rows[g] \subseteq touched'
      BY <1>0, <2>3 DEF Done, Claims
    <2>4. ASSUME NEW g \in Handlers, NEW r \in rows'[g]
          PROVE  told'[r] = Unknown
      <3>1. g # h /\ r \in rows[g] /\ r \in Rows
        BY <2>2, <2>3, <2>4, Zenon DEF Claims
      <3>2. r \notin alone[h] /\ told[r] = Unknown
        BY <3>1, Zenon DEF Claims
      <3> QED
        BY <1>0, <3>1, <3>2, Zenon
    <2>5. \A g \in Handlers : alone'[g] \subseteq rows'[g] /\ rows'[g] \subseteq touched'
      BY <2>2, <2>3, Zenon DEF Claims
    <2>6. \A g \in Handlers : hpc'[g] \in {"remove", "delete"} => value'[g] = None
      BY <2>2, <2>3, Zenon
    <2>7. \A g, f \in Handlers : f # g => alone'[g] \cap rows'[f] = {}
      BY <2>2, <2>3 DEF Claims
    <2> QED
      BY <1>0, <2>1, <2>4, <2>5, <2>6, <2>7, Zenon DEF Claims
  <1>1. CASE AnswerOther(h)
    BY <1>0, <1>1, Zenon DEF AnswerOther, Claims
  <1>2. CASE AnswerOk(h)
    BY <1>0, <1>2, Zenon DEF AnswerOk, Claims
  <1>3. CASE UNCHANGED <<rows, value, alone, told, touched>> /\ hpc[h] = "store" /\ hpc' = [hpc EXCEPT ![h] = "persist"]
    BY <1>3 DEF Claims
  <1>4. CASE UNCHANGED <<rows, value, alone, told, touched>> /\ hpc[h] = "remove" /\ hpc' = [hpc EXCEPT ![h] = "delete"]
    BY <1>4 DEF Claims
  <1> QED
    BY <1>1, <1>2, <1>3, <1>4, Zenon DEF HandlerStep, Store, StoreFails, Persist, Remove, RemoveFails, Delete, Index

LEMMA NextClaims ==
  ASSUME Claims, [Next]_vars
  PROVE  Claims'
  <1>1. ASSUME NEW h \in Handlers, Request(h)
        PROVE  Claims'
    BY <1>1, ArriveClaims, Zenon DEF Request, PersistHandler, RemoveRowsHandler, IndexHandler
  <1>2. CASE UNCHANGED reqVars
    BY <1>2, Zenon DEF reqVars, Claims
  <1>3. CASE Load \/ Send \/ UNCHANGED vars
    BY <1>2, <1>3, Zenon DEF Load, ReadRow, Retrieved, RetrieveFails, LoadRow, Loaded,
                      Send, SendStart, SendRow, SendMetric, SendFails, SendUnlock, SendFinal, vars
  <1>4. CASE Crash
    BY <1>4 DEF Crash, Claims
  <1> QED
    BY <1>1, <1>3, <1>4, HandlerClaims DEF Next

\* Whatever fails, and with any number of handlers: once load is over, no step
\* makes the map of a row differ from what the answers tell of it.
THEOREM MapKeepsInStep == Spec => MapStaysInStep
  <1>1. ASSUME Claims, Next
        PROVE  KeepsInStep
    <2>1. ASSUME NEW h \in Handlers, Request(h)
          PROVE  KeepsInStep
      <3>1. metrics' = metrics /\ \A r \in Rows : told'[r] \in {told[r], Unknown}
        BY <2>1, Zenon DEF Request, PersistHandler, RemoveRowsHandler, IndexHandler, Arrive
      <3> QED
        BY <3>1, Zenon DEF KeepsInStep, InStep
    <2>2. ASSUME NEW h \in Handlers, Persist(h) \/ Delete(h)
          PROVE  KeepsInStep
      <3>1. /\ metrics' = Put(metrics, rows[h], value[h])
            /\ told' = [r \in Rows |-> IF r \in alone[h] THEN value[h] ELSE told[r]]
        BY <1>1, <2>2, Zenon DEF Persist, Delete, AnswerOk, Claims
      <3>2. alone[h] \subseteq rows[h] /\ \A r \in rows[h] : told[r] = Unknown
        BY <1>1, Zenon DEF Claims
      <3>3. ASSUME NEW r \in Rows, InStep(r)
            PROVE  InStep(r)'
        <4>1. CASE r \in rows[h]
          BY <3>1, <3>2, <4>1, Zenon DEF Put, InStep
        <4>2. CASE r \notin rows[h]
          BY <3>1, <3>2, <3>3, <4>2, Zenon DEF Put, InStep
        <4> QED
          BY <4>1, <4>2
      <3> QED
        BY <3>3 DEF KeepsInStep
    <2>3. CASE UNCHANGED <<metrics, told>>
      BY <2>3 DEF KeepsInStep, InStep
    <2>4. CASE \E r \in Rows : LoadRow(r)
      BY <2>4 DEF LoadRow, Running, KeepsInStep
    <2>5. CASE Crash
      BY <2>5 DEF Crash, Running, KeepsInStep
    <2>6. ASSUME NEW h \in Handlers, HandlerStep(h)
          PROVE  KeepsInStep
      BY <2>2, <2>3, <2>6, Zenon DEF HandlerStep, Store, StoreFails, Remove, RemoveFails, Index, AnswerOther
    <2>7. CASE Load \/ Send
      BY <2>3, <2>4, <2>7, Zenon DEF Load, ReadRow, Retrieved, RetrieveFails, Loaded, reqVars,
                              Send, SendStart, SendRow, SendMetric, SendFails, SendUnlock, SendFinal
    <2> QED
      BY <1>1, <2>1, <2>5, <2>6, <2>7 DEF Next
  <1>2. Claims /\ [Next]_vars => [KeepsInStep]_vars
    BY <1>1
  <1> QED
    BY <1>2, InitClaims, NextClaims, PTL DEF Spec, MapStaysInStep

-----------------------------------------------------------------------------
(* The map after a restart *)

\* How far load has come with the rows that no request has named since the
\* process started: found by the scan, put into the map, or both.
Restoring ==
  /\ metrics = [r \in Rows |-> metrics[r]] /\ intakes = [r \in Rows |-> intakes[r]]
  /\ cursor \in Nat
  /\ \A r \in Rows \ touched : table[r] \in Payloads =>
       /\ ppc = "retrieve" /\ r < cursor => intakes[r] = table[r]
       /\ ppc = "load" => intakes[r] = table[r] \/ (intakes[r] = None /\ metrics[r] = table[r])
       /\ Running => metrics[r] = table[r]

LEMMA RequestRestoring ==
  ASSUME Claims, Restoring, NEW h \in Handlers, Request(h) \/ HandlerStep(h)
  PROVE  Restoring'
  <1>1. UNCHANGED <<ppc, cursor, intakes>>
    BY Zenon DEF Request, PersistHandler, RemoveRowsHandler, IndexHandler, Arrive, HandlerStep, Store, StoreFails, Persist,
           Remove, RemoveFails, Delete, Index, loadVars
  <1>2. touched \subseteq touched'
    BY Zenon DEF Request, PersistHandler, RemoveRowsHandler, IndexHandler, Arrive, HandlerStep, Store, StoreFails, Persist,
           Remove, RemoveFails, Delete, Index, AnswerOk, AnswerOther, Done
  <1>3. rows[h] \subseteq touched
    BY Zenon DEF Claims
  <1>4. \A r \in Rows \ touched : table'[r] = table[r]
    BY <1>3, Zenon DEF Request, PersistHandler, RemoveRowsHandler, IndexHandler, Arrive, HandlerStep, Store, StoreFails,
                Persist, Remove, RemoveFails, Delete, Index, Put
  <1>5. \A r \in Rows \ touched : metrics'[r] = metrics[r]
    BY <1>3, Zenon DEF Request, PersistHandler, RemoveRowsHandler, IndexHandler, Arrive, HandlerStep, Store, StoreFails,
                Persist, Remove, RemoveFails, Delete, Index, Put
  <1>6. metrics' = [r \in Rows |-> metrics'[r]]
    BY Zenon DEF Restoring, Request, PersistHandler, RemoveRowsHandler, IndexHandler, Arrive, HandlerStep, Store, StoreFails,
           Persist, Remove, RemoveFails, Delete, Index, Put
  <1> QED
    BY <1>1, <1>2, <1>4, <1>5, <1>6 DEF Restoring, Running

LEMMA LoadRestoring ==
  ASSUME Bad = {}, Restoring, Load
  PROVE  Restoring'
  <1>1. UNCHANGED <<table, touched>>
    BY Zenon DEF Load, ReadRow, Retrieved, RetrieveFails, LoadRow, Loaded, reqVars
  <1>2. CASE ReadRow
    <2>1. /\ ppc = "retrieve" /\ ppc' = ppc /\ metrics' = metrics
          /\ intakes' = IF table[cursor] \in Payloads THEN [intakes EXCEPT ![cursor] = table[cursor]] ELSE intakes
          /\ cursor' = cursor + 1
      BY <1>2, Zenon DEF ReadRow
    <2>2. \A r \in Rows : r < cursor' /\ table[r] \in Payloads => IF r = cursor THEN intakes'[r] = table[r]
                                                                     ELSE r < cursor /\ intakes'[r] = intakes[r]
      BY <2>1, PersisterAssumption DEF Restoring, Rows
    <2>3. intakes' = [r \in Rows |-> intakes'[r]] /\ cursor' \in Nat
      BY <2>1 DEF Restoring
    <2> QED
      BY <1>1, <2>1, <2>2, <2>3, Zenon DEF Restoring, Running
  <1>3. CASE Retrieved
    BY <1>1, <1>3, PersisterAssumption DEF Retrieved, Restoring, Running, Rows, loadVars
  <1>4. CASE RetrieveFails
    BY <1>1, <1>4, Zenon DEF RetrieveFails, Restoring, Running, loadVars
  <1>5. ASSUME NEW r \in Rows, LoadRow(r)
        PROVE  Restoring'
    BY <1>1, <1>5, Zenon DEF LoadRow, Restoring, Running
  <1>6. CASE Loaded
    <2>1. \A r \in Rows : intakes[r] = None
      BY <1>6 DEF Loaded, Empty
    <2> QED
      BY <1>1, <1>6, <2>1, PersisterAssumption DEF Loaded, Restoring, Running, loadVars
  <1> QED
    BY <1>2, <1>3, <1>4, <1>5, <1>6 DEF Load

LEMMA NextRestoring ==
  ASSUME Bad = {}, Claims, Restoring, [Next]_vars
  PROVE  Restoring'
  <1>1. CASE Send
    <2>1. UNCHANGED <<table, metrics, loadVars, touched>> /\ Running /\ Running'
      BY <1>1, Zenon DEF Send, SendStart, SendRow, SendMetric, SendFails, SendUnlock, SendFinal, reqVars, Running
    <2> QED
      BY <2>1, Zenon DEF Restoring, Running, loadVars
  <1>2. CASE Crash
    BY <1>2 DEF Crash, Restoring, Running, Empty, Rows
  <1>3. CASE UNCHANGED vars
    BY <1>3, Zenon DEF vars, reqVars, loadVars, Restoring, Running
  <1> QED
    BY <1>1, <1>2, <1>3, RequestRestoring, LoadRestoring DEF Next

\* Whenever the process dies, and however many requests it cuts off: when load
\* is over, the map has every row of the table that no request has named since
\* the restart, if all rows decode (a row that does not ends the scan).
THEOREM RestartsRestore ==
  ASSUME Bad = {}
  PROVE  Spec => []RestartRestores
  <1>1. Init => Restoring
    BY DEF Init, Restoring, Running, Empty, Rows
  <1>2. Claims /\ Restoring /\ [Next]_vars => Restoring'
    BY NextRestoring
  <1>3. Restoring => RestartRestores
    BY Zenon DEF Restoring, RestartRestores
  <1> QED
    BY <1>1, <1>2, <1>3, InitClaims, NextClaims, PTL DEF Spec

-----------------------------------------------------------------------------
(* Send *)

\* Sequences in which nothing occurs twice.
LEMMA ElementsOfAppend ==
  ASSUME NEW S, NEW s \in Seq(S), NEW x \in S
  PROVE  Elements(Append(s, x)) = Elements(s) \cup {x}
  <1>1. Append(s, x) \in Seq(S) /\ Len(Append(s, x)) = Len(s) + 1 /\ Len(s) \in Nat
        /\ DOMAIN s = 1 .. Len(s) /\ DOMAIN Append(s, x) = 1 .. Len(s) + 1
        /\ (\A i \in 1 .. Len(s) : Append(s, x)[i] = s[i]) /\ Append(s, x)[Len(s) + 1] = x
    OBVIOUS
  <1> QED
    BY <1>1 DEF Elements

LEMMA InjectiveAppend ==
  ASSUME NEW S, NEW s \in Seq(S), NEW x \in S, Injective(s), x \notin Elements(s)
  PROVE  Injective(Append(s, x))
  <1>1. Append(s, x) \in Seq(S) /\ Len(Append(s, x)) = Len(s) + 1 /\ Len(s) \in Nat
        /\ DOMAIN s = 1 .. Len(s) /\ DOMAIN Append(s, x) = 1 .. Len(s) + 1
        /\ (\A i \in 1 .. Len(s) : Append(s, x)[i] = s[i]) /\ Append(s, x)[Len(s) + 1] = x
    OBVIOUS
  <1> QED
    BY <1>1 DEF Elements, Injective

LEMMA ElementsOfConcat ==
  ASSUME NEW S, NEW s \in Seq(S), NEW t \in Seq(S)
  PROVE  Elements(s \o t) = Elements(s) \cup Elements(t)
  <1>1. /\ Len(s) \in Nat /\ Len(t) \in Nat /\ DOMAIN s = 1 .. Len(s) /\ DOMAIN t = 1 .. Len(t)
        /\ DOMAIN (s \o t) = 1 .. Len(s) + Len(t)
        /\ \A i \in 1 .. Len(s) + Len(t) : (s \o t)[i] = IF i <= Len(s) THEN s[i] ELSE t[i - Len(s)]
    OBVIOUS
  <1>2. \A i \in 1 .. Len(t) : (s \o t)[i + Len(s)] = t[i] /\ i + Len(s) \in 1 .. Len(s) + Len(t)
    BY <1>1
  <1>3. \A i \in 1 .. Len(s) : (s \o t)[i] = s[i] /\ i \in 1 .. Len(s) + Len(t)
    BY <1>1
  <1>4. Elements(s) \subseteq Elements(s \o t)
    BY <1>1, <1>3 DEF Elements
  <1>5. ASSUME NEW x \in Elements(t)
        PROVE  x \in Elements(s \o t)
    <2>1. PICK i \in 1 .. Len(t) : x = t[i]
      BY <1>1, Zenon DEF Elements
    <2>2. x = (s \o t)[i + Len(s)] /\ i + Len(s) \in DOMAIN (s \o t)
      BY <1>1, <1>2, <2>1, Zenon
    <2> QED
      BY <2>2, Zenon DEF Elements
  <1>6. Elements(s \o t) \subseteq Elements(s) \cup Elements(t)
    BY <1>1 DEF Elements
  <1> QED
    BY <1>4, <1>5, <1>6

LEMMA InjectiveConcat ==
  ASSUME NEW S, NEW s \in Seq(S), NEW t \in Seq(S), Injective(s), Injective(t), Elements(s) \cap Elements(t) = {}
  PROVE  Injective(s \o t)
  <1>1. /\ Len(s) \in Nat /\ Len(t) \in Nat /\ DOMAIN s = 1 .. Len(s) /\ DOMAIN t = 1 .. Len(t)
        /\ DOMAIN (s \o t) = 1 .. Len(s) + Len(t)
        /\ \A i \in 1 .. Len(s) + Len(t) : (s \o t)[i] = IF i <= Len(s) THEN s[i] ELSE t[i - Len(s)]
    OBVIOUS
  <1>2. ASSUME NEW i \in 1 .. Len(s), NEW j \in 1 .. Len(t)
        PROVE  s[i] # t[j]
    BY <1>1, Zenon DEF Elements
  <1>3. ASSUME NEW i \in DOMAIN (s \o t), NEW j \in DOMAIN (s \o t), (s \o t)[i] = (s \o t)[j]
        PROVE  i = j
    <2>1. CASE i <= Len(s) /\ j <= Len(s)
      BY <1>1, <1>3, <2>1 DEF Injective
    <2>2. CASE ~ (i <= Len(s)) /\ ~ (j <= Len(s))
      <3>1. i - Len(s) \in DOMAIN t /\ j - Len(s) \in DOMAIN t /\ t[i - Len(s)] = t[j - Len(s)]
        BY <1>1, <1>3, <2>2
      <3>2. i - Len(s) = j - Len(s)
        BY <3>1, Zenon DEF Injective
      <3> QED
        BY <1>1, <3>2
    <2>3. CASE i <= Len(s) /\ ~ (j <= Len(s))
      BY <1>1, <1>2, <1>3, <2>3
    <2>4. CASE ~ (i <= Len(s)) /\ j <= Len(s)
      BY <1>1, <1>2, <1>3, <2>4
    <2> QED
      BY <2>1, <2>2, <2>3, <2>4
  <1> QED
    BY <1>3, Zenon DEF Injective

LEMMA HeadAndTail ==
  ASSUME NEW S, NEW s \in Seq(S), s # <<>>, Injective(s)
  PROVE  /\ Head(s) \in S /\ Tail(s) \in Seq(S) /\ Injective(Tail(s))
         /\ Elements(s) = {Head(s)} \cup Elements(Tail(s)) /\ Head(s) \notin Elements(Tail(s))
  <1>1. /\ Len(s) \in Nat \ {0} /\ DOMAIN s = 1 .. Len(s) /\ Head(s) = s[1] /\ Tail(s) \in Seq(S)
        /\ DOMAIN Tail(s) = 1 .. Len(s) - 1
        /\ \A i \in 1 .. Len(s) - 1 : Tail(s)[i] = s[i + 1]
    OBVIOUS
  <1>2. \A i \in 1 .. Len(s) - 1 : i + 1 \in DOMAIN s /\ i + 1 # 1
    BY <1>1
  <1>3. \A i \in DOMAIN s : i = 1 \/ (i - 1 \in DOMAIN Tail(s) /\ Tail(s)[i - 1] = s[i])
    BY <1>1
  <1>4. Injective(Tail(s))
    BY <1>1, <1>2 DEF Injective
  <1>5. Head(s) \notin Elements(Tail(s))
    BY <1>1, <1>2 DEF Injective, Elements
  <1>6. Elements(s) = {Head(s)} \cup Elements(Tail(s))
    BY <1>1, <1>2, <1>3 DEF Elements
  <1> QED
    BY <1>1, <1>4, <1>5, <1>6

\* The metrics that Send handles, as the place of each in its row.
Samples == Rows \X Nat

PushTypes ==
  /\ metrics \in [Rows -> Payloads \cup {None}]
  /\ locked \in BOOLEAN /\ failed \in BOOLEAN
  /\ ppc \in {"retrieve", "load", "tick", "send", "final", "off"}
  /\ cursor \in 1 .. NumRows + 1
  /\ intakes \in [Rows -> Payloads \cup {None}]
  /\ todo \subseteq Rows
  /\ sent \in Seq(Samples) /\ buf \in Seq(Samples) /\ rest \in Seq(Samples)
  /\ Len(buf) < MaxBuffer

TypeInv ==
  /\ PushTypes
  /\ table \in [Rows -> Payloads \cup Bad \cup {None}]
  /\ hpc \in [Handlers -> {"idle", "store", "persist", "remove", "delete", "index"}]
  /\ rows \in [Handlers -> SUBSET Rows]
  /\ value \in [Handlers -> Payloads \cup Bad \cup {None}]
  /\ alone \in [Handlers -> SUBSET Rows]
  /\ told \in [Rows -> Payloads \cup {None, Unknown}]
  /\ touched \subseteq Rows
  /\ \A h \in Handlers : /\ hpc[h] \in {"remove", "delete"} => value[h] = None
                         /\ hpc[h] = "persist" => value[h] \in Payloads

LEMMA EmptyBuffer ==
  <<>> \in Seq(Samples) /\ Len(<<>>) < MaxBuffer /\ 1 \in 1 .. NumRows + 1
  BY PersisterAssumption

LEMMA ConcatTypes ==
  ASSUME NEW S, NEW s \in Seq(S), NEW t \in Seq(S)
  PROVE  s \o t \in Seq(S)
  OBVIOUS

LEMMA InitTypes == Init => TypeInv
  <1> SUFFICES ASSUME Init PROVE TypeInv
    OBVIOUS
  <1>1. PushTypes
    BY EmptyBuffer, Zenon DEF Init, PushTypes, Empty
  <1> QED
    BY <1>1, Zenon DEF Init, TypeInv, Empty

LEMMA RequestTypes ==
  ASSUME TypeInv, NEW h \in Handlers, Request(h)
  PROVE  TypeInv'
  <1>1. PICK R \in SUBSET Rows, v \in Payloads \cup Bad \cup {None}, at \in {"store", "remove", "index"} :
          Arrive(h, R, v, at) /\ (at = "remove" => v = None)
    BY Zenon DEF Request, PersistHandler, RemoveRowsHandler, IndexHandler
  <1>2. PushTypes'
    BY <1>1, Zenon DEF Arrive, TypeInv, PushTypes, loadVars, sendVars
  <1>3. alone' \in [Handlers -> SUBSET Rows] /\ told' \in [Rows -> Payloads \cup {None, Unknown}]
    BY <1>1, Zenon DEF Arrive, TypeInv
  <1>4. /\ rows' \in [Handlers -> SUBSET Rows] /\ touched' \subseteq Rows
        /\ hpc' \in [Handlers -> {"idle", "store", "persist", "remove", "delete", "index"}]
        /\ value' \in [Handlers -> Payloads \cup Bad \cup {None}]
        /\ table' \in [Rows -> Payloads \cup Bad \cup {None}]
    BY <1>1, Zenon DEF Arrive, TypeInv
  <1>5. \A g \in Handlers : /\ hpc'[g] \in {"remove", "delete"} => value'[g] = None
                            /\ hpc'[g] = "persist" => value'[g] \in Payloads
    BY <1>1, Zenon DEF Arrive, TypeInv
  <1> QED
    BY <1>2, <1>3, <1>4, <1>5, Zenon DEF TypeInv

LEMMA DoneTypes ==
  ASSUME TypeInv, PushTypes', NEW h \in Handlers, Done(h),
         table' \in [Rows -> Payloads \cup Bad \cup {None}], told' \in [Rows -> Payloads \cup {None, Unknown}]
  PROVE  TypeInv'
  BY Zenon DEF Done, TypeInv

LEMMA HandlerTypes ==
  ASSUME TypeInv, NEW h \in Handlers, HandlerStep(h)
  PROVE  TypeInv'
  <1>0. /\ rows[h] \in SUBSET Rows /\ value[h] \in Payloads \cup Bad \cup {None}
        /\ table \in [Rows -> Payloads \cup Bad \cup {None}]
        /\ told \in [Rows -> Payloads \cup {None, Unknown}]
        /\ alone[h] \in SUBSET Rows
    BY Zenon DEF TypeInv
  <1>1. CASE Store(h) \/ StoreFails(h) \/ Remove(h) \/ RemoveFails(h) \/ Index(h)
    <2>1. PushTypes'
      BY <1>1, Zenon DEF Store, StoreFails, Remove, RemoveFails, Index, TypeInv, PushTypes, loadVars, sendVars
    <2>2. table' \in [Rows -> Payloads \cup Bad \cup {None}]
      BY <1>0, <1>1, Zenon DEF Store, StoreFails, Remove, RemoveFails, Index, Put
    <2>3. CASE AnswerOther(h)
      BY <1>0, <2>1, <2>2, <2>3, DoneTypes, Zenon DEF AnswerOther
    <2>4. CASE ~ AnswerOther(h)
      <3>1. /\ UNCHANGED <<rows, value, alone, told, touched>>
            /\ \/ hpc' = [hpc EXCEPT ![h] = "persist"] /\ value[h] \in Payloads
               \/ hpc' = [hpc EXCEPT ![h] = "delete"] /\ value[h] = None
        BY <1>1, <2>4, Zenon DEF Store, StoreFails, Remove, RemoveFails, Index, TypeInv
      <3> QED
        BY <2>1, <2>2, <3>1 DEF TypeInv
    <2> QED
      BY <2>3, <2>4
  <1>2. CASE Persist(h) \/ Delete(h)
    <2>1. /\ value[h] \in Payloads \cup {None} /\ Done(h)
          /\ metrics' = Put(metrics, rows[h], value[h])
          /\ told' = [r \in Rows |-> IF r \in alone[h] THEN value[h] ELSE told[r]]
          /\ UNCHANGED <<table, ppc, loadVars, sendVars>>
      BY <1>2, Zenon DEF Persist, Delete, AnswerOk, TypeInv
    <2>2. metrics' \in [Rows -> Payloads \cup {None}]
      BY <2>1, Zenon DEF Put, TypeInv, PushTypes
    <2>3. PushTypes'
      BY <2>1, <2>2, Zenon DEF TypeInv, PushTypes, loadVars, sendVars
    <2>4. told' \in [Rows -> Payloads \cup {None, Unknown}]
      BY <1>0, <2>1, Zenon
    <2> QED
      BY <1>0, <2>1, <2>3, <2>4, DoneTypes, Zenon
  <1> QED
    BY <1>1, <1>2 DEF HandlerStep

LEMMA LoadTypes ==
  ASSUME TypeInv, Load
  PROVE  TypeInv'
  <1>1. PushTypes'
    <2>1. CASE ReadRow
      <3>1. cursor \in Rows
        BY <2>1, PersisterAssumption DEF ReadRow, TypeInv, PushTypes, Rows
      <3>2. cursor' \in 1 .. NumRows + 1
        BY <2>1, <3>1, PersisterAssumption DEF ReadRow, Rows
      <3>3. intakes' \in [Rows -> Payloads \cup {None}]
        BY <2>1, <3>1, Zenon DEF ReadRow, TypeInv, PushTypes
      <3> QED
        BY <2>1, <3>2, <3>3, Zenon DEF ReadRow, TypeInv, PushTypes, sendVars
    <2>2. CASE Retrieved \/ RetrieveFails \/ Loaded
      BY <2>2, Zenon DEF Retrieved, RetrieveFails, Loaded, TypeInv, PushTypes, loadVars, sendVars
    <2>3. ASSUME NEW r \in Rows, LoadRow(r)
          PROVE  PushTypes'
      BY <2>3, Zenon DEF LoadRow, TypeInv, PushTypes, sendVars
    <2> QED
      BY <2>1, <2>2, <2>3 DEF Load
  <1>2. UNCHANGED <<table, reqVars>>
    BY Zenon DEF Load, ReadRow, Retrieved, RetrieveFails, LoadRow, Loaded
  <1> QED
    BY <1>1, <1>2, Zenon DEF TypeInv, reqVars

LEMMA RestTypes ==
  ASSUME TypeInv, NEW r \in Rows, metrics[r] # None
  PROVE  /\ Size(metrics[r]) \in Nat
         /\ [i \in 1 .. Size(metrics[r]) |-> <<r, i>>] \in Seq(Samples)
  <1>1. Size(metrics[r]) \in Nat
    BY PersisterAssumption DEF Size, TypeInv, PushTypes
  <1>2. PICK n \in Nat : n = Size(metrics[r])
    BY <1>1
  <1>3. [i \in 1 .. n |-> <<r, i>>] \in Seq(Samples)
    BY DEF Samples
  <1> QED
    BY <1>2, <1>3

LEMMA SendTypes ==
  ASSUME TypeInv, Send, \A r \in todo : metrics[r] # None
  PROVE  TypeInv'
  <1>1. PushTypes'
    <2>1. CASE SendStart
      BY <2>1, EmptyBuffer, Zenon DEF SendStart, TypeInv, PushTypes, loadVars
    <2>2. ASSUME NEW r \in Rows, SendRow(r)
          PROVE  PushTypes'
      <3>1. rest' \in Seq(Samples) /\ todo' \subseteq Rows
        BY <2>2, RestTypes, Zenon DEF SendRow, TypeInv, PushTypes
      <3> QED
        BY <2>2, <3>1, Zenon DEF SendRow, TypeInv, PushTypes, loadVars
    <2>3. CASE SendMetric
      <3>1. PICK b : b = Append(buf, Head(rest))
        BY Zenon
      <3>2. b \in Seq(Samples) /\ rest' \in Seq(Samples)
        BY <2>3, <3>1 DEF SendMetric, TypeInv, PushTypes
      <3>3. \/ Len(b) < MaxBuffer /\ buf' = b /\ sent' = sent
            \/ buf' = <<>> /\ sent' = sent \o b
        BY <2>3, <3>1, Zenon DEF SendMetric, AfterPush, PushOk
      <3>4. sent \in Seq(Samples) /\ sent \o b \in Seq(Samples)
        BY <3>2, ConcatTypes, Zenon DEF TypeInv, PushTypes
      <3>5. buf' \in Seq(Samples) /\ sent' \in Seq(Samples) /\ Len(buf') < MaxBuffer
        BY <3>2, <3>3, <3>4, EmptyBuffer, Zenon
      <3> QED
        BY <2>3, <3>2, <3>5, Zenon DEF SendMetric, TypeInv, PushTypes, loadVars
    <2>4. CASE SendFails
      <3>1. Append(buf, Head(rest)) \in Seq(Samples)
        BY <2>4 DEF SendFails, TypeInv, PushTypes
      <3>0. sent \in Seq(Samples) /\ sent \o Append(buf, Head(rest)) \in Seq(Samples)
        BY <3>1, ConcatTypes, Zenon DEF TypeInv, PushTypes
      <3>2. sent' \in Seq(Samples)
        BY <2>4, <3>0, Zenon DEF SendFails, PushFails
      <3> QED
        BY <2>4, <3>2, EmptyBuffer, Zenon DEF SendFails, TypeInv, PushTypes, loadVars
    <2>5. CASE SendUnlock
      BY <2>5, Zenon DEF SendUnlock, TypeInv, PushTypes, loadVars
    <2>6. CASE SendFinal
      <3>1. sent' = sent \/ sent' = sent \o buf
        BY <2>6, Zenon DEF SendFinal, PushOk, PushFails
      <3>0. sent \in Seq(Samples) /\ sent \o buf \in Seq(Samples)
        BY ConcatTypes, Zenon DEF TypeInv, PushTypes
      <3>2. sent' \in Seq(Samples)
        BY <3>0, <3>1, Zenon
      <3>3. failed' \in BOOLEAN
        BY <2>6, Zenon DEF SendFinal, TypeInv, PushTypes
      <3> QED
        BY <2>6, <3>2, <3>3, EmptyBuffer, Zenon DEF SendFinal, TypeInv, PushTypes, loadVars
    <2> QED
      BY <2>1, <2>2, <2>3, <2>4, <2>5, <2>6 DEF Send
  <1>2. UNCHANGED <<table, reqVars>>
    BY Zenon DEF Send, SendStart, SendRow, SendMetric, SendFails, SendUnlock, SendFinal
  <1> QED
    BY <1>1, <1>2, Zenon DEF TypeInv, reqVars

LEMMA CrashTypes ==
  ASSUME TypeInv, Crash
  PROVE  TypeInv'
  <1>1. PushTypes'
    BY EmptyBuffer, Zenon DEF Crash, PushTypes, Empty
  <1> QED
    BY <1>1, Zenon DEF Crash, TypeInv

\* The metrics of a row that Send has still to visit are in no sequence yet.
Unvisited == UNION {MetricsOf(r) : r \in todo}

\* Under way, every metric that was due is in exactly one place: sent, in the
\* buffer, in the rest of the row that is visited, or in a row to be visited.
Partition ==
  /\ Injective(sent) /\ Injective(buf) /\ Injective(rest)
  /\ Elements(sent) \cap Elements(buf) = {}
  /\ Elements(sent) \cap Elements(rest) = {}
  /\ Elements(buf) \cap Elements(rest) = {}
  /\ Unvisited \cap (Elements(sent) \cup Elements(buf) \cup Elements(rest)) = {}
  /\ due = Elements(sent) \cup Elements(buf) \cup Elements(rest) \cup Unvisited

SendInv ==
  /\ ppc \notin {"send", "final"} => buf = <<>> /\ rest = <<>> /\ todo = {}
  /\ ppc = "send" => locked /\ due = UNION {MetricsOf(r) : r \in Rows}
  /\ ppc = "final" => rest = <<>> /\ todo = {}
  /\ ppc \in {"retrieve", "load", "off"} => due = {} /\ sent = <<>> /\ ~ failed
  /\ ppc \in {"send", "final"} => ~ failed
  /\ ~ failed => Partition
  /\ \A r \in todo : metrics[r] # None

LEMMA NoElements == Elements(<<>>) = {} /\ Injective(<<>>)
  BY DEF Elements, Injective

LEMMA InitSend == Init => SendInv
  <1> SUFFICES ASSUME Init PROVE SendInv
    OBVIOUS
  <1>1. /\ ppc = "retrieve" /\ buf = <<>> /\ rest = <<>> /\ sent = <<>> /\ todo = {} /\ due = {} /\ ~ failed
    BY Zenon DEF Init
  <1>2. Partition
    BY <1>1, NoElements DEF Partition, Unvisited
  <1> QED
    BY <1>1, <1>2 DEF SendInv

\* Steps that leave Send's state alone; only without the lock may the map change.
LEMMA FrameSend ==
  ASSUME SendInv, UNCHANGED sendVars,
         ppc' = ppc \/ (ppc' \in {"retrieve", "load", "tick", "off"} /\ ppc \in {"retrieve", "load"}),
         ppc = "send" \/ todo # {} => UNCHANGED metrics
  PROVE  SendInv'
  <1>1. UNCHANGED <<locked, todo, rest, buf, due, sent, failed>>
    BY DEF sendVars
  <1>2. Unvisited' = Unvisited
    BY <1>1 DEF Unvisited, MetricsOf
  <1>3. Partition => Partition'
    BY <1>1, <1>2, Zenon DEF Partition
  <1>4. ppc = "send" => UNION {MetricsOf(r) : r \in Rows}' = UNION {MetricsOf(r) : r \in Rows}
    BY DEF MetricsOf
  <1> QED
    BY <1>1, <1>3, <1>4, Zenon DEF SendInv

LEMMA HandlerSend ==
  ASSUME SendInv, NEW h \in Handlers, Request(h) \/ HandlerStep(h)
  PROVE  SendInv'
  <1>1. UNCHANGED <<ppc, sendVars>>
    BY Zenon DEF Request, PersistHandler, RemoveRowsHandler, IndexHandler, Arrive, HandlerStep, Store, StoreFails, Persist,
           Remove, RemoveFails, Delete, Index
  <1>2. locked => UNCHANGED metrics
    BY Zenon DEF Request, PersistHandler, RemoveRowsHandler, IndexHandler, Arrive, HandlerStep, Store, StoreFails, Persist,
           Remove, RemoveFails, Delete, Index
  <1>3. ppc = "send" \/ todo # {} => locked
    BY Zenon DEF SendInv
  <1> QED
    BY <1>1, <1>2, <1>3, FrameSend

LEMMA LoadSend ==
  ASSUME SendInv, Load
  PROVE  SendInv'
  <1>1. UNCHANGED sendVars /\ ppc \in {"retrieve", "load"} /\ ppc' \in {"retrieve", "load", "tick", "off"}
    BY Zenon DEF Load, ReadRow, Retrieved, RetrieveFails, LoadRow, Loaded
  <1>2. ppc # "send" /\ todo = {}
    BY <1>1 DEF SendInv
  <1> QED
    BY <1>1, <1>2, FrameSend

LEMMA SendStartSend ==
  ASSUME TypeInv, SendInv, SendStart
  PROVE  SendInv'
  <1>1. /\ ppc = "tick" /\ ppc' = "send" /\ locked' /\ sent' = <<>> /\ ~ failed' /\ buf' = <<>> /\ rest' = <<>>
        /\ todo' = {r \in Rows : metrics[r] # None} /\ due' = UNION {MetricsOf(r) : r \in Rows}
        /\ metrics' = metrics
    BY Zenon DEF SendStart, SendInv
  <1>2. \A r \in Rows : MetricsOf(r)' = MetricsOf(r) /\ (r \notin todo' => MetricsOf(r) = {})
    BY <1>1, Zenon DEF MetricsOf
  <1>3. Unvisited' = due' /\ due' = UNION {MetricsOf(r) : r \in Rows}'
    BY <1>1, <1>2 DEF Unvisited
  <1>4. Partition'
    BY <1>1, <1>3, NoElements, Zenon DEF Partition
  <1> QED
    BY <1>1, <1>3, <1>4, Zenon DEF SendInv

\* The metrics of a row, as a sequence.
LEMMA RowMetrics ==
  ASSUME TypeInv, NEW r \in Rows, metrics[r] # None,
         NEW s, s = [i \in 1 .. Size(metrics[r]) |-> <<r, i>>]
  PROVE  Injective(s) /\ Elements(s) = MetricsOf(r)
  BY Zenon DEF Injective, Elements, MetricsOf

LEMMA SendRowSend ==
  ASSUME TypeInv, SendInv, NEW r \in Rows, SendRow(r)
  PROVE  SendInv'
  <1>1. /\ ppc = "send" /\ rest = <<>> /\ r \in todo /\ todo' = todo \ {r}
        /\ rest' = [i \in 1 .. Size(metrics[r]) |-> <<r, i>>]
        /\ UNCHANGED <<metrics, ppc, locked, buf, due, sent, failed>>
    BY Zenon DEF SendRow
  <1>2. metrics[r] # None /\ Partition /\ ~ failed
    BY <1>1, Zenon DEF SendInv
  <1>3. Injective(rest') /\ Elements(rest') = MetricsOf(r)
    BY <1>1, <1>2, RowMetrics, Zenon
  <1>4. \A q \in Rows : MetricsOf(q)' = MetricsOf(q)
    BY <1>1, Zenon DEF MetricsOf
  <1>5. todo \subseteq Rows
    BY Zenon DEF TypeInv, PushTypes
  <1>6. Unvisited = Unvisited' \cup MetricsOf(r)
    BY <1>1, <1>4, <1>5 DEF Unvisited
  <1>7. \A q \in Rows : q # r => MetricsOf(q) \cap MetricsOf(r) = {}
    BY DEF MetricsOf
  <1>8. Unvisited' \cap MetricsOf(r) = {}
    BY <1>1, <1>4, <1>5, <1>7 DEF Unvisited
  <1>9. Elements(rest) = {}
    BY <1>1, NoElements
  <1>10. Partition'
    BY <1>1, <1>2, <1>3, <1>6, <1>8, <1>9, Zenon DEF Partition
  <1>11. due' = UNION {MetricsOf(q) : q \in Rows}'
    BY <1>1, <1>4 DEF SendInv
  <1> QED
    BY <1>1, <1>2, <1>10, <1>11, Zenon DEF SendInv

\* The first metric of the row goes into the buffer.
LEMMA Buffered ==
  ASSUME TypeInv, Partition, rest # <<>>, NEW b, b = Append(buf, Head(rest))
  PROVE  /\ b \in Seq(Samples) /\ Injective(b) /\ Injective(Tail(rest))
         /\ Elements(b) \cup Elements(Tail(rest)) = Elements(buf) \cup Elements(rest)
         /\ Elements(b) \cap Elements(Tail(rest)) = {}
         /\ Elements(b) \cap Elements(sent) = {}
         /\ Elements(Tail(rest)) \subseteq Elements(rest)
  <1>1. buf \in Seq(Samples) /\ rest \in Seq(Samples) /\ sent \in Seq(Samples)
    BY Zenon DEF TypeInv, PushTypes
  <1>2. /\ Head(rest) \in Samples /\ Tail(rest) \in Seq(Samples) /\ Injective(Tail(rest))
        /\ Elements(rest) = {Head(rest)} \cup Elements(Tail(rest)) /\ Head(rest) \notin Elements(Tail(rest))
    BY <1>1, HeadAndTail, Zenon DEF Partition
  <1>3. Head(rest) \notin Elements(buf) /\ Head(rest) \notin Elements(sent)
    BY <1>2, Zenon DEF Partition
  <1>4. b \in Seq(Samples)
    BY <1>1, <1>2
  <1>5. Elements(b) = Elements(buf) \cup {Head(rest)}
    BY <1>1, <1>2, ElementsOfAppend
  <1>6. Injective(b)
    BY <1>1, <1>2, <1>3, InjectiveAppend, Zenon DEF Partition
  <1> QED
    BY <1>2, <1>3, <1>4, <1>5, <1>6 DEF Partition

\* The buffer is pushed.
LEMMA Pushed ==
  ASSUME NEW s \in Seq(Samples), NEW b \in Seq(Samples), Injective(s), Injective(b),
         Elements(b) \cap Elements(s) = {}
  PROVE  Injective(s \o b) /\ Elements(s \o b) = Elements(s) \cup Elements(b)
  BY ElementsOfConcat, InjectiveConcat

LEMMA SendMetricSend ==
  ASSUME TypeInv, SendInv, SendMetric
  PROVE  SendInv'
  <1>1. PICK b : b = Append(buf, Head(rest))
    BY Zenon
  <1>2. /\ ppc = "send" /\ rest # <<>> /\ rest' = Tail(rest)
        /\ UNCHANGED <<metrics, ppc, locked, todo, due, failed>>
        /\ (buf' = b /\ sent' = sent) \/ (buf' = <<>> /\ sent' = sent \o b)
    BY <1>1, Zenon DEF SendMetric, PushOk, AfterPush
  <1>3. Partition /\ ~ failed
    BY <1>2, Zenon DEF SendInv
  <1>4. /\ b \in Seq(Samples) /\ Injective(b) /\ Injective(rest')
        /\ Elements(b) \cup Elements(rest') = Elements(buf) \cup Elements(rest)
        /\ Elements(b) \cap Elements(rest') = {}
        /\ Elements(b) \cap Elements(sent) = {}
        /\ Elements(rest') \subseteq Elements(rest)
    BY <1>1, <1>2, <1>3, Buffered, Zenon
  <1>5. Unvisited' = Unvisited /\ UNION {MetricsOf(r) : r \in Rows}' = UNION {MetricsOf(r) : r \in Rows}
    BY <1>2 DEF Unvisited, MetricsOf
  <1>6. Partition'
    <2>1. CASE buf' = b /\ sent' = sent
      BY <1>2, <1>3, <1>4, <1>5, <2>1, Zenon DEF Partition
    <2>2. CASE buf' = <<>> /\ sent' = sent \o b
      <3>1. Injective(sent') /\ Elements(sent') = Elements(sent) \cup Elements(b)
        BY <1>3, <1>4, <2>2, Pushed, Zenon DEF Partition, TypeInv, PushTypes
      <3> QED
        BY <1>2, <1>3, <1>4, <1>5, <2>2, <3>1, NoElements, Zenon DEF Partition
    <2> QED
      BY <1>2, <2>1, <2>2, Zenon
  <1> QED
    BY <1>2, <1>5, <1>6, Zenon DEF SendInv

LEMMA SendFinalSend ==
  ASSUME TypeInv, SendInv, SendFinal
  PROVE  SendInv'
  <1>1. /\ ppc = "final" /\ ppc' = "tick" /\ buf' = <<>> /\ rest = <<>> /\ todo = {}
        /\ UNCHANGED <<metrics, locked, todo, rest, due>> /\ ~ failed
        /\ failed' \/ (buf = <<>> /\ sent' = sent) \/ sent' = sent \o buf
    BY Zenon DEF SendFinal, SendInv, PushOk
  <1>2. Partition /\ Unvisited = {} /\ Unvisited' = {}
    BY <1>1 DEF SendInv, Unvisited
  <1>3. ASSUME buf = <<>>, sent' = sent
        PROVE  Partition'
    BY <1>1, <1>2, <1>3, Zenon DEF Partition
  <1>4. ASSUME sent' = sent \o buf
        PROVE  Partition'
    <2>1. Injective(sent') /\ Elements(sent') = Elements(sent) \cup Elements(buf)
      BY <1>2, <1>4, Pushed, Zenon DEF Partition, TypeInv, PushTypes
    <2> QED
      BY <1>1, <1>2, <2>1, NoElements, Zenon DEF Partition
  <1> QED
    BY <1>1, <1>3, <1>4, Zenon DEF SendInv

LEMMA OtherSend ==
  ASSUME TypeInv, SendInv, SendFails \/ SendUnlock
  PROVE  SendInv'
  <1>1. CASE SendFails
    BY <1>1, Zenon DEF SendFails, SendInv
  <1>2. CASE SendUnlock
    <2>1. /\ ppc = "send" /\ ppc' = "final" /\ rest = <<>> /\ todo = {}
          /\ UNCHANGED <<metrics, todo, rest, buf, due, sent, failed>>
      BY <1>2 DEF SendUnlock
    <2>2. Partition /\ ~ failed /\ Unvisited' = Unvisited
      BY <2>1 DEF SendInv, Unvisited
    <2>3. Partition'
      BY <2>1, <2>2, Zenon DEF Partition
    <2> QED
      BY <2>1, <2>2, <2>3, Zenon DEF SendInv
  <1> QED
    BY <1>1, <1>2

LEMMA NextSend ==
  ASSUME TypeInv, SendInv, [Next]_vars
  PROVE  TypeInv' /\ SendInv'
  <1>1. CASE Send
    BY <1>1, SendTypes, SendStartSend, SendRowSend, SendMetricSend, SendFinalSend, OtherSend, Zenon DEF Send, SendInv
  <1>2. CASE Load
    BY <1>2, LoadTypes, LoadSend
  <1>3. CASE Crash
    <2>1. /\ ppc' = "retrieve" /\ buf' = <<>> /\ rest' = <<>> /\ sent' = <<>> /\ todo' = {} /\ due' = {} /\ ~ failed'
      BY <1>3 DEF Crash
    <2>2. Partition'
      BY <2>1, NoElements DEF Partition, Unvisited
    <2>3. SendInv'
      BY <2>1, <2>2, Zenon DEF SendInv
    <2> QED
      BY <1>3, <2>3, CrashTypes
  <1>4. CASE UNCHANGED vars
    <2>1. UNCHANGED <<ppc, metrics, sendVars>>
      BY <1>4 DEF vars
    <2>2. TypeInv'
      BY <1>4, Zenon DEF vars, loadVars, sendVars, reqVars, TypeInv, PushTypes
    <2> QED
      BY <2>1, <2>2, FrameSend
  <1>5. ASSUME NEW h \in Handlers, Request(h) \/ HandlerStep(h)
        PROVE  TypeInv' /\ SendInv'
    BY <1>5, RequestTypes, HandlerTypes, HandlerSend
  <1> QED
    BY <1>1, <1>2, <1>3, <1>4, <1>5 DEF Next

\* The type invariant, with a buffer that is never full between two steps.
THEOREM PersisterTypes == Spec => []TypeOK
  <1>1. TypeInv => TypeOK
    BY Zenon DEF TypeInv, PushTypes, TypeOK
  <1> QED
    BY <1>1, InitTypes, InitSend, NextSend, PTL DEF Spec

\* For any rows, payloads and buffer size: a Send without an error has sent
\* each metric that the map had when it took the lock exactly once.
THEOREM SendsAreComplete == Spec => []SendIsComplete
  <1>1. SendInv => SendIsComplete
    <2> SUFFICES ASSUME SendInv, ppc = "tick", ~ failed
                 PROVE  Elements(sent) = due /\ Injective(sent)
      BY Zenon DEF SendIsComplete, SendInv
    <2>1. Partition /\ buf = <<>> /\ rest = <<>> /\ todo = {}
      BY DEF SendInv
    <2>2. Unvisited = {}
      BY <2>1 DEF Unvisited
    <2> QED
      BY <2>1, <2>2, NoElements, Zenon DEF Partition
  <1> QED
    BY <1>1, InitTypes, InitSend, NextSend, PTL DEF Spec
=============================================================================
