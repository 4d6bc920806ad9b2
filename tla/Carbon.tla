------------------------------- MODULE Carbon -------------------------------
(***************************************************************************)
(* ingest/carbon: connections hand lines to a bounded channel, flush       *)
(* goroutines parse them into pooled MetricData objects and publish what   *)
(* they have collected at every tick, and Stop shuts all of it down.       *)
(*                                                                         *)
(* A line is good, or is refused for one of the reasons of flush.  The     *)
(* objects come from metricPool and go back to it after a publish.         *)
(***************************************************************************)
EXTENDS Naturals, Sequences, FiniteSets

CONSTANTS
  Conns,       \* connections, and the UDP reader: the goroutines of the listener
  Flushers,    \* flush goroutines (carbon-concurrency)
  BufferSize,  \* capacity of the channel Carbon.buf
  Objects,     \* heap addresses of MetricData objects
  NoLine,
  MaxLines     \* bound on the lines of a behaviour

ASSUME CarbonAssumption == BufferSize \in Nat \ {0} /\ MaxLines \in Nat /\ Flushers # {}

Kinds == {"good", "invalid", "unauthorized", "malformed"}
Lines == [id : 1 .. MaxLines, kind : Kinds]

VARIABLES
  enabled,            \* the flag carbon-enabled
  nonBlockingBuffer,  \* the flag of that name
  cpc,      \* connection: "off", "read" or "send"
  cline,    \* the line it dispatches
  chan,     \* Carbon.buf
  closed,   \* Carbon.buf is closed
  running,  \* flush goroutines that have not returned
  fbuf,     \* fbuf[f]: flush's local buf, objects with the line each was made from
  content,  \* content[o]: the line that object o holds
  pool,     \* metricPool
  spc,      \* Stop: "run", "listener", "wait" or "stopped"
  count     \* the counters received, rejected, authFail, full and valid

connVars == <<cpc, cline>>
flushVars == <<running, fbuf, content, pool>>
config == <<enabled, nonBlockingBuffer>>
vars == <<config, connVars, chan, closed, flushVars, spc, count>>

Init ==
  /\ enabled \in BOOLEAN /\ nonBlockingBuffer \in BOOLEAN
  /\ cpc = [c \in Conns |-> "off"]
  /\ cline = [c \in Conns |-> NoLine]
  /\ chan = <<>> /\ closed = FALSE
  /\ running = (IF enabled THEN Flushers ELSE {})
  /\ fbuf = [f \in Flushers |-> {}]
  /\ content = [o \in Objects |-> NoLine]
  /\ pool = {}
  /\ spc = "run"
  /\ count = [received |-> 0, rejected |-> 0, authFail |-> 0, full |-> 0, valid |-> 0]

Add(counter, n) == count' = [count EXCEPT ![counter] = @ + n]

-----------------------------------------------------------------------------
(* Connections *)

\* The listener, if there is one, accepts until it is shut down.
Accept(c) ==
  /\ enabled
  /\ cpc[c] = "off" /\ spc = "run"
  /\ cpc' = [cpc EXCEPT ![c] = "read"]
  /\ UNCHANGED <<config, cline, chan, closed, flushVars, spc, count>>

\* The next line: also after the shutdown, from what the scanner has buffered.
Read(c, kind) ==
  /\ cpc[c] = "read" /\ count.received < MaxLines
  /\ Add("received", 1)
  /\ cline' = [cline EXCEPT ![c] = [id |-> count.received + 1, kind |-> kind]]
  /\ cpc' = [cpc EXCEPT ![c] = "send"]
  /\ UNCHANGED <<config, chan, closed, flushVars, spc>>

Dispatched(c) ==
  /\ cpc' = [cpc EXCEPT ![c] = "read"]
  /\ cline' = [cline EXCEPT ![c] = NoLine]

\* Mutant: one line too many.
DispatchUnbounded(c) ==
  /\ cpc[c] = "send" /\ Len(chan) <= BufferSize
  /\ chan' = Append(chan, cline[c])
  /\ Dispatched(c)
  /\ UNCHANGED <<config, closed, flushVars, spc, count>>

\* Dispatch: the line goes into the channel when there is room.
Dispatch(c) ==
  /\ cpc[c] = "send" /\ Len(chan) < BufferSize
  /\ chan' = Append(chan, cline[c])
  /\ Dispatched(c)
  /\ UNCHANGED <<config, closed, flushVars, spc, count>>

\* If there is none, it is dropped, if the flag says so.
DispatchDrop(c) ==
  /\ cpc[c] = "send" /\ Len(chan) >= BufferSize
  /\ nonBlockingBuffer
  /\ Add("full", 1)
  /\ Dispatched(c)
  /\ UNCHANGED <<config, chan, closed, flushVars, spc>>

\* The connection ends, or the shutdown closes it.
Hangup(c) ==
  /\ cpc[c] = "read"
  /\ cpc' = [cpc EXCEPT ![c] = "off"]
  /\ UNCHANGED <<config, cline, chan, closed, flushVars, spc, count>>

-----------------------------------------------------------------------------
(* flush *)

ObjectsOf(f) == {e.obj : e \in fbuf[f]}
InUse == UNION {ObjectsOf(f) : f \in Flushers}

\* The line does not become a metric.
Refuse(f) ==
  /\ f \in running /\ chan # <<>>
  /\ Head(chan).kind # "good"
  /\ chan' = Tail(chan)
  /\ Add(IF Head(chan).kind = "unauthorized" THEN "authFail" ELSE "rejected", 1)
  /\ UNCHANGED <<config, connVars, closed, flushVars, spc>>

\* parseMetric takes an object from the pool, or a new one, and overwrites it.
Collect(f) ==
  /\ f \in running /\ chan # <<>>
  /\ Head(chan).kind = "good"
  /\ \E o \in Objects :
       /\ o \in pool \/ o \notin InUse
       /\ pool' = pool \ {o}
       /\ content' = [content EXCEPT ![o] = Head(chan)]
       /\ fbuf' = [fbuf EXCEPT ![f] = @ \cup {[obj |-> o, line |-> Head(chan)]}]
  /\ chan' = Tail(chan)
  /\ UNCHANGED <<config, connVars, closed, running, spc, count>>

\* A tick: Publish takes all that was collected; it is counted, and the
\* objects go back to the pool.
Flush(f) ==
  /\ f \in running
  /\ fbuf[f] # {}
  /\ Add("valid", Cardinality(fbuf[f]))
  /\ pool' = pool \cup ObjectsOf(f)
  /\ fbuf' = [fbuf EXCEPT ![f] = {}]
  /\ UNCHANGED <<config, connVars, chan, closed, running, content, spc>>

\* Mutant: the objects go back to the pool although the buffer is kept.
FlushFailsReleasing(f) ==
  /\ f \in running
  /\ fbuf[f] # {}
  /\ pool' = pool \cup ObjectsOf(f)
  /\ UNCHANGED <<config, connVars, chan, closed, running, fbuf, content, spc, count>>

\* Mutant: what could not be published is dropped.
FlushFailsDropping(f) ==
  /\ f \in running
  /\ fbuf[f] # {}
  /\ pool' = pool \cup ObjectsOf(f)
  /\ fbuf' = [fbuf EXCEPT ![f] = {}]
  /\ UNCHANGED <<config, connVars, chan, closed, running, content, spc, count>>

\* Publish fails: everything is kept for the next tick.
FlushFails(f) ==
  /\ f \in running
  /\ fbuf[f] # {}
  /\ UNCHANGED vars

\* Mutant: flush returns as soon as the shutdown begins.
ReturnAtOnce(f) ==
  /\ f \in running
  /\ spc # "run"
  /\ running' = running \ {f}
  /\ UNCHANGED <<config, connVars, chan, closed, fbuf, content, pool, spc, count>>

\* The channel is closed and drained: flush returns.
Return(f) ==
  /\ f \in running
  /\ closed /\ chan = <<>>
  /\ running' = running \ {f}
  /\ UNCHANGED <<config, connVars, chan, closed, fbuf, content, pool, spc, count>>

-----------------------------------------------------------------------------
(* Stop *)

\* The listener is shut down; without one there is nothing to stop.
Stop ==
  /\ spc = "run"
  /\ spc' = IF enabled THEN "listener" ELSE "stopped"
  /\ UNCHANGED <<config, connVars, chan, closed, flushVars, count>>

\* Mutant: the channel is closed without waiting for the listener.
CloseEarly ==
  /\ spc = "listener"
  /\ closed' = TRUE
  /\ spc' = "wait"
  /\ UNCHANGED <<config, connVars, chan, flushVars, count>>

\* listener.Stop has returned, as all its goroutines have: the channel is closed.
Close ==
  /\ spc = "listener"
  /\ \A c \in Conns : cpc[c] = "off"
  /\ closed' = TRUE
  /\ spc' = "wait"
  /\ UNCHANGED <<config, connVars, chan, flushVars, count>>

\* flushWg.Wait returns.
Stopped ==
  /\ spc = "wait" /\ running = {}
  /\ spc' = "stopped"
  /\ UNCHANGED <<config, connVars, chan, closed, flushVars, count>>

-----------------------------------------------------------------------------

ConnStep(c) == (\E k \in Kinds : Read(c, k)) \/ Dispatch(c) \/ DispatchDrop(c)

FlushStep(f) == Refuse(f) \/ Collect(f) \/ Flush(f) \/ FlushFails(f) \/ Return(f)

\* All that goes on without Stop being called.
Work ==
  \/ \E c \in Conns : Accept(c) \/ ConnStep(c) \/ Hangup(c)
  \/ \E f \in Flushers : FlushStep(f)
  \/ Close \/ Stopped

Next == Work \/ Stop

Spec == Init /\ [][Next]_vars

-----------------------------------------------------------------------------

TypeOK ==
  /\ cpc \in [Conns -> {"off", "read", "send"}]
  /\ cline \in [Conns -> Lines \cup {NoLine}]
  /\ \A i \in DOMAIN chan : chan[i] \in Lines
  /\ Len(chan) <= BufferSize
  /\ closed \in BOOLEAN
  /\ running \subseteq Flushers
  /\ \A f \in Flushers : fbuf[f] \subseteq [obj : Objects, line : Lines]
  /\ content \in [Objects -> Lines \cup {NoLine}]
  /\ pool \subseteq Objects
  /\ spc \in {"run", "listener", "wait", "stopped"}
  /\ \A counter \in DOMAIN count : count[counter] \in 0 .. MaxLines

\* Nobody sends on the closed channel, which would panic: when Stop closes it,
\* all invocations of Dispatch are done.
NoSendOnClosed == closed => \A c \in Conns : cpc[c] # "send"

\* The connections that have a line to hand over.
Sending == {c \in Conns : cpc[c] = "send"}

\* What the flush goroutines have in their buffers, with whose buffer it is in.
Buffered == UNION {{f} \X fbuf[f] : f \in Flushers}

\* The lines that flush or Dispatch is done with.
Settled == count.rejected + count.authFail + count.full + count.valid

\* Every line received is accounted for exactly once: dropped, rejected,
\* published, or still on its way, however often publishing is retried.
LinesAccounted ==
  count.received = Settled + Cardinality(Sending) + Len(chan) + Cardinality(Buffered)

\* A pooled object that waits to be published, possibly over several failed
\* attempts, still holds the metric it was collected for, and no other.
BufferedUntouched ==
  \A f \in Flushers : \A e \in fbuf[f] :
    /\ content[e.obj] = e.line
    /\ e.obj \notin pool
    /\ \A g \in Flushers : \A d \in fbuf[g] : d.obj = e.obj => d = e /\ f = g
=============================================================================
