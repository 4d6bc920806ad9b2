--------------------------- MODULE ShutdownProofs ---------------------------
(***************************************************************************)
(* The shutdown of the carbon input and of the process, proved for any     *)
(* number of connections, flush goroutines (at least one), objects and     *)
(* lines.                                                                  *)
(***************************************************************************)
EXTENDS Shutdown, FiniteSetTheorems, TLAPS

\* What the steps of Stop keep true: Close comes after the last connection,
\* and flush goroutines return only from a closed and drained channel.
StopInv ==
  /\ cpc \in [Conns -> {"off", "read", "send"}]
  /\ running \subseteq Flushers
  /\ closed => \A c \in Conns : cpc[c] = "off"
  /\ closed <=> enabled /\ spc \in {"wait", "stopped"}
  /\ IF enabled THEN running = Flushers \/ (closed /\ chan = <<>>)
                ELSE running = {} /\ chan = <<>> /\ \A c \in Conns : cpc[c] = "off"
  /\ spc = "stopped" => running = {}
  /\ spc \in {"listener", "wait"} => enabled

\* The process ends in state "complete" only when wg.Wait has returned, and
\* nothing happens after it has ended.
CompleteInv == exit = "complete" => AllDone

\* The objects collected are objects of the heap.
HeapInv ==
  /\ content = [o \in Objects |-> content[o]]
  /\ fbuf = [f \in Flushers |-> fbuf[f]]
  /\ \A f \in Flushers : \A e \in fbuf[f] : e.obj \in Objects
  /\ BufferedUntouched

-----------------------------------------------------------------------------
(* The order of a shutdown *)

LEMMA InitStop ==
  ASSUME SInit
  PROVE  StopInv /\ CompleteInv
  BY Zenon DEF SInit, Init, StopInv, CompleteInv

LEMMA ConnStop ==
  ASSUME StopInv, NEW c \in Conns, Accept(c) \/ ConnStep(c) \/ Hangup(c)
  PROVE  StopInv'
  <1>1. UNCHANGED <<enabled, closed, running, spc>>
    BY Zenon DEF Accept, ConnStep, Read, Dispatch, DispatchDrop, Hangup, config, flushVars
  <1>2. cpc' \in [Conns -> {"off", "read", "send"}]
    BY Zenon DEF StopInv, Accept, ConnStep, Read, Dispatch, DispatchDrop, Hangup, Dispatched
  <1>3. enabled /\ ~ closed
    BY Zenon DEF StopInv, Accept, ConnStep, Read, Dispatch, DispatchDrop, Hangup
  <1> QED
    BY <1>1, <1>2, <1>3, Zenon DEF StopInv

LEMMA FlushStop ==
  ASSUME StopInv, NEW f \in Flushers, FlushStep(f)
  PROVE  StopInv'
  <1>1. UNCHANGED <<enabled, closed, cpc, spc>>
    BY Zenon DEF FlushStep, Refuse, Collect, Flush, FlushFails, Return, config, connVars, vars
  <1>2. CASE Return(f)
    BY <1>1, <1>2 DEF Return, StopInv
  <1>3. CASE Flush(f) \/ FlushFails(f)
    BY <1>1, <1>3, Zenon DEF Flush, FlushFails, StopInv, vars, flushVars
  <1>4. CASE Refuse(f) \/ Collect(f)
    <2>1. running' = running /\ enabled /\ running = Flushers
      BY <1>4, Zenon DEF Refuse, Collect, StopInv, flushVars
    <2> QED
      BY <1>1, <2>1, Zenon DEF StopInv
  <1> QED
    BY <1>2, <1>3, <1>4 DEF FlushStep

LEMMA NextStop ==
  ASSUME StopInv, CompleteInv, [SNext]_svars
  PROVE  (StopInv /\ CompleteInv)'
  <1>1. CASE OfCarbon(Work) \/ CarbonStop
    <2>1. exit' = "none"
      BY <1>1 DEF OfCarbon, CarbonStop, shutdownVars
    <2>2. CASE Close
      BY <2>1, <2>2, Zenon DEF CompleteInv, Close, StopInv, config, connVars, flushVars
    <2>3. CASE Stopped
      BY <2>1, <2>3, Zenon DEF CompleteInv, Stopped, StopInv, config, connVars, flushVars
    <2>4. CASE Stop
      BY <2>1, <2>4, Zenon DEF CompleteInv, Stop, StopInv, config, connVars, flushVars
    <2> QED
      BY <1>1, <2>1, <2>2, <2>3, <2>4, ConnStop, FlushStop, Zenon DEF OfCarbon, CarbonStop, Work, CompleteInv
  <1>2. CASE UNCHANGED vars /\ ~ UNCHANGED exit
    <2>1. StopInv'
      BY <1>2, Zenon DEF StopInv, vars, config, connVars, flushVars
    <2>2. exit' = "complete" => AllDone'
      BY <1>2, Zenon DEF SNext, svars, OfCarbon, Interrupt, CarbonStop, ApiClose, ServeReturns, PluginStop, ServerStop,
                  ServerFatal, Complete, Timeout, shutdownVars, AllDone, StopReturned, vars
    <2> QED
      BY <2>1, <2>2 DEF CompleteInv
  <1>3. CASE UNCHANGED <<vars, exit>>
    <2>1. StopInv'
      BY <1>3, Zenon DEF StopInv, vars, config, connVars, flushVars
    <2>2. exit = "complete" => UNCHANGED <<api, server, spc>>
      BY <1>3, Zenon DEF SNext, svars, OfCarbon, Interrupt, CarbonStop, ApiClose, ServeReturns, PluginStop, ServerStop,
                  ServerFatal, Complete, Timeout, shutdownVars, vars
    <2> QED
      BY <1>3, <2>1, <2>2, Zenon DEF CompleteInv, AllDone, StopReturned
  <1> QED
    BY <1>1, <1>2, <1>3, Zenon DEF SNext, svars, shutdownVars, Interrupt, ApiClose, ServeReturns, PluginStop, ServerStop,
                            ServerFatal, Complete, Timeout

\* However many connections are in Dispatch when the shutdown begins, none
\* of them meets a closed channel.
THEOREM NobodySendsOnClosed == SSpec => []NoSendOnClosed
  <1>1. StopInv => NoSendOnClosed
    BY DEF StopInv, NoSendOnClosed
  <1> QED
    BY <1>1, InitStop, NextStop, PTL DEF SSpec

\* A shutdown that completes leaves no connection open, no goroutine of flush
\* running and no line in the channel, whatever the capacity of the channel;
\* with no flush goroutine at all, lines could remain in it.
THEOREM CompletionIsQuiet == SSpec => []CompleteIsQuiet
  <1>1. StopInv /\ CompleteInv => CompleteIsQuiet
    <2> SUFFICES ASSUME StopInv, CompleteInv, exit = "complete"
                 PROVE  /\ api = "stopped" /\ server = "stopped"
                        /\ \A c \in Conns : cpc[c] = "off"
                        /\ chan = <<>> /\ running = {}
                        /\ enabled => closed
      BY DEF CompleteIsQuiet
    <2>1. api = "stopped" /\ spc = "stopped" /\ server = "stopped"
      BY DEF CompleteInv, AllDone, Stoppables, StopReturned
    <2> QED
      BY <2>1, CarbonAssumption DEF StopInv
  <1> QED
    BY <1>1, InitStop, NextStop, PTL DEF SSpec

-----------------------------------------------------------------------------
(* The pooled objects *)

LEMMA InitHeap ==
  ASSUME SInit
  PROVE  HeapInv
  BY Zenon DEF SInit, Init, HeapInv, BufferedUntouched

\* An object taken from the pool, or a new one, is in no buffer.
LEMMA CollectHeap ==
  ASSUME HeapInv, NEW f \in Flushers, Collect(f)
  PROVE  HeapInv'
  <1>1. PICK o \in Objects :
          /\ o \in pool \/ o \notin InUse
          /\ pool' = pool \ {o}
          /\ content' = [content EXCEPT ![o] = Head(chan)]
          /\ fbuf' = [fbuf EXCEPT ![f] = @ \cup {[obj |-> o, line |-> Head(chan)]}]
    BY Zenon DEF Collect
  <1>2. \A g \in Flushers : \A d \in fbuf[g] : d.obj # o
    BY <1>1 DEF HeapInv, BufferedUntouched, InUse, ObjectsOf
  <1> DEFINE new == [obj |-> o, line |-> Head(chan)]
  <1>3. \A g \in Flushers : \A d \in fbuf'[g] : d \in fbuf[g] \/ (g = f /\ d = new)
    BY <1>1, Zenon DEF HeapInv
  <1>4. new.obj = o /\ new.line = Head(chan)
    OBVIOUS
  <1> HIDE DEF new
  <1>5. content'[o] = Head(chan) /\ \A p \in Objects \ {o} : content'[p] = content[p]
    BY <1>1, Zenon DEF HeapInv
  <1>6. content' = [p \in Objects |-> content'[p]] /\ fbuf' = [g \in Flushers |-> fbuf'[g]]
    BY <1>1, Zenon DEF HeapInv
  <1>7. \A g \in Flushers : \A d \in fbuf'[g] : d.obj \in Objects /\ content'[d.obj] = d.line /\ d.obj \notin pool'
    BY <1>1, <1>2, <1>3, <1>4, <1>5 DEF HeapInv, BufferedUntouched
  <1>8. ASSUME NEW g \in Flushers, NEW h \in Flushers, NEW d \in fbuf'[g], NEW e \in fbuf'[h], d.obj = e.obj
        PROVE  d = e /\ g = h
    <2>1. CASE d \in fbuf[g] /\ e \in fbuf[h]
      BY <1>8, <2>1, Zenon DEF HeapInv, BufferedUntouched
    <2>2. CASE d \notin fbuf[g] \/ e \notin fbuf[h]
      BY <1>2, <1>3, <1>4, <1>8, <2>2
    <2> QED
      BY <2>1, <2>2
  <1> QED
    BY <1>6, <1>7, <1>8, Zenon DEF HeapInv, BufferedUntouched

\* What is published leaves its buffer when it goes back to the pool.
LEMMA FlushHeap ==
  ASSUME HeapInv, NEW f \in Flushers, Flush(f)
  PROVE  HeapInv'
  <1>1. content' = content /\ pool' = pool \cup ObjectsOf(f) /\ fbuf' = [fbuf EXCEPT ![f] = {}]
    BY DEF Flush
  <1>2. \A g \in Flushers : fbuf'[g] \subseteq fbuf[g] /\ (g = f => fbuf'[g] = {})
    BY <1>1, Zenon DEF HeapInv
  <1>3. fbuf' = [g \in Flushers |-> fbuf'[g]]
    BY <1>1, Zenon DEF HeapInv
  <1>4. \A g \in Flushers : \A d \in fbuf'[g] : d.obj \notin pool'
    BY <1>1, <1>2, Zenon DEF HeapInv, BufferedUntouched, ObjectsOf
  <1> QED
    BY <1>1, <1>2, <1>3, <1>4 DEF HeapInv, BufferedUntouched

LEMMA NextHeap ==
  ASSUME HeapInv, [SNext]_svars
  PROVE  HeapInv'
  <1>1. CASE UNCHANGED <<content, fbuf, pool>>
    BY <1>1 DEF HeapInv, BufferedUntouched
  <1>2. \/ UNCHANGED <<content, fbuf, pool>>
        \/ \E f \in Flushers : Collect(f) \/ Flush(f)
    BY Zenon DEF SNext, svars, vars, flushVars, OfCarbon, Work, Accept, ConnStep, Read, Dispatch, DispatchDrop, Hangup,
           FlushStep, Refuse, FlushFails, Return, Close, Stopped, Interrupt, CarbonStop, Stop, ApiClose, ServeReturns,
           PluginStop, ServerStop, ServerFatal, Complete, Timeout
  <1> QED
    BY <1>1, <1>2, CollectHeap, FlushHeap

\* No order of collecting, publishing and failing to publish, by any number of
\* goroutines, changes an object that waits in a buffer or puts it in two.
THEOREM BuffersStayUntouched == SSpec => []BufferedUntouched
  <1>1. HeapInv => BufferedUntouched
    BY DEF HeapInv
  <1> QED
    BY <1>1, InitHeap, NextHeap, PTL DEF SSpec

-----------------------------------------------------------------------------
(* The account of the lines *)

\* The counters count.
Counts == [received : Nat, rejected : Nat, authFail : Nat, full : Nat, valid : Nat]

LEMMA AddReceived ==
  ASSUME count \in Counts, Add("received", 1)
  PROVE  count' \in Counts /\ count'.received = count.received + 1 /\ Settled' = Settled
  BY DEF Add, Counts, Settled

LEMMA AddSettled ==
  ASSUME count \in Counts, NEW k \in {"rejected", "authFail", "full", "valid"}, NEW n \in Nat, Add(k, n)
  PROVE  count' \in Counts /\ count'.received = count.received /\ Settled' = Settled + n
  <1>1. CASE k = "rejected"
    BY <1>1 DEF Add, Counts, Settled
  <1>2. CASE k = "authFail"
    BY <1>2 DEF Add, Counts, Settled
  <1>3. CASE k = "full"
    BY <1>3 DEF Add, Counts, Settled
  <1>4. CASE k = "valid"
    BY <1>4 DEF Add, Counts, Settled
  <1> QED
    BY <1>1, <1>2, <1>3, <1>4

\* A line is well formed wherever it is.
LineInv ==
  /\ cpc \in [Conns -> {"off", "read", "send"}]
  /\ cline \in [Conns -> Lines \cup {NoLine}]
  /\ \A c \in Conns : cpc[c] = "send" => cline[c] \in Lines
  /\ chan \in Seq(Lines) /\ Len(chan) <= BufferSize
  /\ fbuf \in [Flushers -> SUBSET [obj : Objects, line : Lines]]
  /\ content \in [Objects -> Lines \cup {NoLine}]
  /\ pool \subseteq Objects
  /\ count \in Counts /\ count.received <= MaxLines

\* The lines that are on their way can be counted, and the account is right.
AccountInv ==
  /\ IsFiniteSet(Sending)
  /\ IsFiniteSet(Buffered)
  /\ \A f \in Flushers : IsFiniteSet(fbuf[f])
  /\ LinesAccounted

LEMMA InitAccount ==
  ASSUME SInit
  PROVE  LineInv /\ AccountInv
  <1>1. LineInv
    BY CarbonAssumption DEF SInit, Init, LineInv, Counts
  <1>2. Sending = {} /\ Buffered = {}
    BY DEF SInit, Init, Sending, Buffered
  <1>3. count.received = 0 /\ Settled = 0 /\ Len(chan) = 0 /\ \A f \in Flushers : fbuf[f] = {}
    BY DEF SInit, Init, Settled
  <1>4. IsFiniteSet({}) /\ Cardinality({}) = 0
    BY FS_EmptySet
  <1>5. LinesAccounted
    BY <1>2, <1>3, <1>4 DEF LinesAccounted
  <1> QED
    BY <1>1, <1>2, <1>3, <1>4, <1>5, Zenon DEF AccountInv

LEMMA TakeLine ==
  ASSUME NEW s \in Seq(Lines), s # <<>>
  PROVE  /\ Head(s) \in Lines /\ Tail(s) \in Seq(Lines) /\ Len(s) \in Nat
         /\ Len(Tail(s)) = Len(s) - 1
  OBVIOUS

LEMMA ReadLine ==
  ASSUME LineInv, NEW c \in Conns, NEW kind \in Kinds, Read(c, kind)
  PROVE  LineInv'
  <1>1. count' \in Counts /\ count'.received <= MaxLines
    BY AddReceived, CarbonAssumption DEF LineInv, Read, Counts
  <1>2. PICK l : l = [id |-> count.received + 1, kind |-> kind]
    BY Zenon
  <1>3. l \in Lines
    BY <1>2, CarbonAssumption DEF Lines, LineInv, Counts, Read
  <1>4. cline' = [cline EXCEPT ![c] = l] /\ cpc' = [cpc EXCEPT ![c] = "send"]
        /\ UNCHANGED <<chan, fbuf, content, pool>>
    BY <1>2, Zenon DEF Read, flushVars
  <1> QED
    BY <1>1, <1>3, <1>4, Zenon DEF LineInv

LEMMA DispatchLine ==
  ASSUME LineInv, NEW c \in Conns, Dispatch(c) \/ DispatchDrop(c)
  PROVE  LineInv'
  <1>1. /\ cpc' = [cpc EXCEPT ![c] = "read"] /\ cline' = [cline EXCEPT ![c] = NoLine]
        /\ UNCHANGED <<fbuf, content, pool>>
    BY Zenon DEF Dispatch, DispatchDrop, Dispatched, flushVars
  <1>2. chan' \in Seq(Lines) /\ Len(chan') <= BufferSize
    BY CarbonAssumption DEF LineInv, Dispatch, DispatchDrop
  <1>3. count' \in Counts /\ count'.received <= MaxLines
    BY AddSettled, Zenon DEF LineInv, Dispatch, DispatchDrop
  <1> QED
    BY <1>1, <1>2, <1>3, Zenon DEF LineInv

LEMMA TakenLine ==
  ASSUME LineInv, NEW f \in Flushers, Refuse(f) \/ Collect(f)
  PROVE  LineInv'
  <1>0. chan # <<>> /\ chan' = Tail(chan)
    BY Zenon DEF Refuse, Collect
  <1>1. Head(chan) \in Lines /\ chan' \in Seq(Lines) /\ Len(chan') <= BufferSize
    BY <1>0, TakeLine, CarbonAssumption DEF LineInv
  <1>2. CASE Refuse(f)
    <2>1. count' \in Counts /\ count'.received <= MaxLines
      BY <1>2, AddSettled, Zenon DEF LineInv, Refuse
    <2> QED
      BY <1>1, <1>2, <2>1, Zenon DEF LineInv, Refuse, flushVars, connVars
  <1>3. CASE Collect(f)
    <2>1. PICK o \in Objects :
            /\ pool' = pool \ {o}
            /\ content' = [content EXCEPT ![o] = Head(chan)]
            /\ fbuf' = [fbuf EXCEPT ![f] = @ \cup {[obj |-> o, line |-> Head(chan)]}]
      BY <1>3, Zenon DEF Collect
    <2>2. [obj |-> o, line |-> Head(chan)] \in [obj : Objects, line : Lines]
      BY <1>1
    <2>3. UNCHANGED <<cpc, cline, count>>
      BY <1>3, Zenon DEF Collect, connVars
    <2> QED
      BY <1>1, <2>1, <2>2, <2>3, Zenon DEF LineInv
  <1> QED
    BY <1>2, <1>3

LEMMA FlushLine ==
  ASSUME LineInv, AccountInv, NEW f \in Flushers, Flush(f)
  PROVE  LineInv'
  <1>1. Cardinality(fbuf[f]) \in Nat
    BY FS_CardinalityType DEF AccountInv
  <1>2. count' \in Counts /\ count'.received <= MaxLines
    BY <1>1, AddSettled, Zenon DEF LineInv, Flush
  <1>3. ObjectsOf(f) \subseteq Objects
    BY DEF ObjectsOf, LineInv
  <1>4. /\ fbuf' = [fbuf EXCEPT ![f] = {}] /\ pool' = pool \cup ObjectsOf(f)
        /\ UNCHANGED <<cpc, cline, chan, content>>
    BY DEF Flush, connVars
  <1> QED
    BY <1>2, <1>3, <1>4, Zenon DEF LineInv

\* The numbers that the account adds up.
SummandsOK ==
  /\ Cardinality(Sending) \in Nat /\ Cardinality(Buffered) \in Nat /\ Len(chan) \in Nat
  /\ count.received \in Nat /\ Settled \in Nat

LEMMA AccountTypes ==
  ASSUME LineInv, AccountInv
  PROVE  SummandsOK /\ LinesAccounted
  BY FS_CardinalityType DEF LineInv, AccountInv, Counts, Settled, SummandsOK

\* A line that moves from one summand to another leaves the account balanced.
Balanced(r, s, n, l, b) ==
  /\ r + 1 = s + (n + 1) + l + b
  /\ r = s + (n - 1) + (l + 1) + b
  /\ r = (s + 1) + (n - 1) + l + b
  /\ r = (s + 1) + n + (l - 1) + b
  /\ r = s + n + (l - 1) + (b + 1)
  /\ \A k \in Nat : r = (s + k) + n + l + (b - k)

LEMMA SumsBalance ==
  \A r, s, n, l, b \in Nat : r = s + n + l + b => Balanced(r, s, n, l, b)
  BY DEF Balanced

LEMMA AccountBalance ==
  ASSUME LineInv, AccountInv
  PROVE  Balanced(count.received, Settled, Cardinality(Sending), Len(chan), Cardinality(Buffered))
  BY AccountTypes, SumsBalance, Zenon DEF SummandsOK, LinesAccounted

LEMMA ReadAccount ==
  ASSUME LineInv, AccountInv, NEW c \in Conns, NEW kind \in Kinds, Read(c, kind)
  PROVE  AccountInv'
  <1>1. Sending' = Sending \cup {c} /\ c \notin Sending
    BY Zenon DEF LineInv, Read, Sending
  <1>2. IsFiniteSet(Sending') /\ Cardinality(Sending') = Cardinality(Sending) + 1
    BY <1>1, FS_AddElement DEF AccountInv
  <1>3. Buffered' = Buffered /\ chan' = chan /\ fbuf' = fbuf
    BY Zenon DEF Read, flushVars, Buffered
  <1>4. count'.received = count.received + 1 /\ Settled' = Settled
    BY AddReceived, Zenon DEF LineInv, Read
  <1>6. LinesAccounted'
    <2>1. count.received + 1 = Settled + (Cardinality(Sending) + 1) + Len(chan) + Cardinality(Buffered)
      BY AccountBalance, Zenon DEF Balanced
    <2> QED
      BY <1>2, <1>3, <1>4, <2>1, Zenon DEF LinesAccounted
  <1> QED
    BY <1>2, <1>3, <1>4, <1>6 DEF AccountInv

LEMMA DispatchAccount ==
  ASSUME LineInv, AccountInv, NEW c \in Conns, Dispatch(c) \/ DispatchDrop(c)
  PROVE  AccountInv'
  <1>1. Sending' = Sending \ {c} /\ c \in Sending
    BY Zenon DEF LineInv, Dispatch, DispatchDrop, Dispatched, Sending
  <1>2. IsFiniteSet(Sending') /\ Cardinality(Sending') = Cardinality(Sending) - 1
    BY <1>1, FS_RemoveElement DEF AccountInv
  <1>3. Buffered' = Buffered /\ fbuf' = fbuf
    BY Zenon DEF Dispatch, DispatchDrop, flushVars, Buffered
  <1>4. CASE Dispatch(c)
    <2>1. Len(chan') = Len(chan) + 1 /\ count' = count /\ Settled' = Settled
      BY <1>4 DEF Dispatch, LineInv, Settled
    <2>3. LinesAccounted'
      <3>1. count.received = Settled + (Cardinality(Sending) - 1) + (Len(chan) + 1) + Cardinality(Buffered)
        BY AccountBalance, Zenon DEF Balanced
      <3> QED
        BY <1>2, <1>3, <2>1, <3>1, Zenon DEF LinesAccounted
    <2> QED
      BY <1>2, <1>3, <2>1, <2>3 DEF AccountInv
  <1>5. CASE DispatchDrop(c)
    <2>1. count'.received = count.received /\ Settled' = Settled + 1
      BY <1>5, AddSettled, Zenon DEF LineInv, DispatchDrop
    <2>2. chan' = chan
      BY <1>5 DEF DispatchDrop
    <2>4. LinesAccounted'
      <3>1. count.received = (Settled + 1) + (Cardinality(Sending) - 1) + Len(chan) + Cardinality(Buffered)
        BY AccountBalance, Zenon DEF Balanced
      <3> QED
        BY <1>2, <1>3, <2>1, <2>2, <3>1, Zenon DEF LinesAccounted
    <2> QED
      BY <1>2, <1>3, <2>1, <2>2, <2>4 DEF AccountInv
  <1> QED
    BY <1>4, <1>5

LEMMA RefuseAccount ==
  ASSUME LineInv, AccountInv, NEW f \in Flushers, Refuse(f)
  PROVE  AccountInv'
  <1>1. chan # <<>> /\ chan' = Tail(chan) /\ Sending' = Sending /\ Buffered' = Buffered /\ fbuf' = fbuf
    BY Zenon DEF Refuse, flushVars, connVars, Sending, Buffered
  <1>2. Len(chan') = Len(chan) - 1
    BY <1>1, TakeLine, Zenon DEF LineInv
  <1>3. count'.received = count.received /\ Settled' = Settled + 1
    BY AddSettled, Zenon DEF LineInv, Refuse, Counts
  <1>5. LinesAccounted'
    <2>1. count.received = (Settled + 1) + Cardinality(Sending) + (Len(chan) - 1) + Cardinality(Buffered)
      BY AccountBalance, Zenon DEF Balanced
    <2> QED
      BY <1>1, <1>2, <1>3, <2>1, Zenon DEF LinesAccounted
  <1> QED
    BY <1>1, <1>2, <1>3, <1>5 DEF AccountInv

\* An object that is in no buffer makes a new entry of the goroutine's buffer.
LEMMA CollectAccount ==
  ASSUME LineInv, AccountInv, HeapInv, NEW f \in Flushers, Collect(f)
  PROVE  AccountInv'
  <1>1. PICK o \in Objects :
          /\ o \in pool \/ o \notin InUse
          /\ fbuf' = [fbuf EXCEPT ![f] = @ \cup {[obj |-> o, line |-> Head(chan)]}]
    BY Zenon DEF Collect
  <1>2. \A g \in Flushers : \A d \in fbuf[g] : d.obj # o
    BY <1>1 DEF HeapInv, BufferedUntouched, InUse, ObjectsOf
  <1>3. PICK new : new = [obj |-> o, line |-> Head(chan)]
    BY Zenon
  <1>4. new \notin fbuf[f]
    BY <1>2, <1>3
  <1>5. fbuf' = [fbuf EXCEPT ![f] = @ \cup {new}]
    BY <1>1, <1>3
  <1>6. \A g \in Flushers : fbuf'[g] = IF g = f THEN fbuf[f] \cup {new} ELSE fbuf[g]
    BY <1>5, Zenon DEF LineInv
  <1>7. Buffered' = Buffered \cup {<<f, new>>} /\ <<f, new>> \notin Buffered
    BY <1>4, <1>6 DEF Buffered
  <1>8. IsFiniteSet(Buffered') /\ Cardinality(Buffered') = Cardinality(Buffered) + 1
    BY <1>7, FS_AddElement, Zenon DEF AccountInv
  <1>9. \A g \in Flushers : IsFiniteSet(fbuf'[g])
    <2>1. IsFiniteSet(fbuf[f] \cup {new})
      BY FS_AddElement, Zenon DEF AccountInv
    <2> QED
      BY <1>6, <2>1 DEF AccountInv
  <1>10. chan # <<>> /\ chan' = Tail(chan) /\ Sending' = Sending /\ count' = count /\ Settled' = Settled
    BY Zenon DEF Collect, connVars, Sending, Settled
  <1>11. Len(chan') = Len(chan) - 1
    BY <1>10, TakeLine, Zenon DEF LineInv
  <1>13. LinesAccounted'
    <2>1. count.received = Settled + Cardinality(Sending) + (Len(chan) - 1) + (Cardinality(Buffered) + 1)
      BY AccountBalance, Zenon DEF Balanced
    <2> QED
      BY <1>8, <1>10, <1>11, <2>1, Zenon DEF LinesAccounted
  <1> QED
    BY <1>8, <1>9, <1>10, <1>11, <1>13, Zenon DEF AccountInv

\* What is published is counted as valid, and was in the buffer of f alone.
LEMMA FlushAccount ==
  ASSUME LineInv, AccountInv, NEW f \in Flushers, Flush(f)
  PROVE  AccountInv'
  <1>1. PICK own : own = {f} \X fbuf[f]
    BY Zenon
  <1>2. IsFiniteSet(fbuf[f]) /\ Cardinality(fbuf[f]) \in Nat
    BY FS_CardinalityType DEF AccountInv
  <1>3. IsFiniteSet(own) /\ Cardinality(own) = Cardinality(fbuf[f])
    <2>1. IsFiniteSet({f}) /\ Cardinality({f}) = 1
      BY FS_Singleton, Zenon
    <2>2. IsFiniteSet(own) /\ Cardinality(own) = Cardinality({f}) * Cardinality(fbuf[f])
      BY <1>1, <1>2, <2>1, FS_Product, Zenon
    <2> QED
      BY <1>2, <2>1, <2>2
  <1>4. \A g \in Flushers : fbuf'[g] = IF g = f THEN {} ELSE fbuf[g]
    BY Zenon DEF Flush, LineInv
  <1>5. Buffered' = Buffered \ own /\ own \subseteq Buffered
    BY <1>1, <1>4 DEF Buffered
  <1>6. IsFiniteSet(Buffered') /\ Cardinality(Buffered') = Cardinality(Buffered) - Cardinality(own)
    <2>1. Buffered \cap own = own
      BY <1>5
    <2> QED
      BY <1>5, <2>1, FS_Difference, Zenon DEF AccountInv
  <1>7. \A g \in Flushers : IsFiniteSet(fbuf'[g])
    BY <1>4, FS_EmptySet DEF AccountInv
  <1>8. count'.received = count.received /\ Settled' = Settled + Cardinality(fbuf[f])
    BY <1>2, AddSettled, Zenon DEF LineInv, Flush
  <1>9. chan' = chan /\ Sending' = Sending
    BY DEF Flush, connVars, Sending
  <1>11. LinesAccounted'
    <2>1. count.received = (Settled + Cardinality(fbuf[f])) + Cardinality(Sending) + Len(chan)
                           + (Cardinality(Buffered) - Cardinality(fbuf[f]))
      BY <1>2, AccountBalance, Zenon DEF Balanced
    <2> QED
      BY <1>3, <1>6, <1>8, <1>9, <2>1, Zenon DEF LinesAccounted
  <1> QED
    BY <1>2, <1>3, <1>6, <1>7, <1>8, <1>9, <1>11, Zenon DEF AccountInv

LEMMA NextAccount ==
  ASSUME LineInv, AccountInv, HeapInv, [SNext]_svars
  PROVE  (LineInv /\ AccountInv)'
  <1>1. \/ UNCHANGED <<cline, chan, fbuf, content, pool, count>> /\ (UNCHANGED cpc \/ \E c \in Conns : Accept(c) \/ Hangup(c))
        \/ \E c \in Conns : (\E kind \in Kinds : Read(c, kind)) \/ Dispatch(c) \/ DispatchDrop(c)
        \/ \E f \in Flushers : Refuse(f) \/ Collect(f) \/ Flush(f)
    BY Zenon DEF SNext, svars, vars, connVars, flushVars, OfCarbon, Work, Accept, ConnStep, Hangup,
           FlushStep, FlushFails, Return, Close, Stopped, Interrupt, CarbonStop, Stop, ApiClose, ServeReturns,
           PluginStop, ServerStop, ServerFatal, Complete, Timeout
  <1>2. CASE /\ UNCHANGED <<cline, chan, fbuf, content, pool, count>>
             /\ UNCHANGED cpc \/ \E c \in Conns : Accept(c) \/ Hangup(c)
    <2>1. LineInv'
      BY <1>2, Zenon DEF LineInv, Accept, Hangup
    <2>2. Sending' = Sending /\ Buffered' = Buffered /\ Settled' = Settled
      BY <1>2 DEF LineInv, Accept, Hangup, Sending, Buffered, Settled
    <2> QED
      BY <1>2, <2>1, <2>2, Zenon DEF AccountInv, LinesAccounted
  <1> QED
    BY <1>1, <1>2, ReadLine, ReadAccount, DispatchLine, DispatchAccount, TakenLine, RefuseAccount, CollectAccount,
       FlushLine, FlushAccount, Zenon

\* No line is lost or counted twice, for any number of connections and flush
\* goroutines, any capacity of the channel and any run of failed publishes.
THEOREM LinesStayAccounted == SSpec => []LinesAccounted
  <1>1. AccountInv => LinesAccounted
    BY DEF AccountInv
  <1> QED
    BY <1>1, InitAccount, NextAccount, InitHeap, NextHeap, PTL DEF SSpec

\* The order of a shutdown keeps its states, too.
PhaseInv ==
  /\ closed \in BOOLEAN
  /\ spc \in {"run", "listener", "wait", "stopped"}
  /\ nilCache \in BOOLEAN
  /\ main \in {"run", "stopping"}
  /\ api \in {"serve", "closing", "returned", "stopped"}
  /\ server \in {"serve", "stopped"}
  /\ exit \in {"none", "complete", "timeout", "fatal", "panic"}

LEMMA NextPhase ==
  ASSUME PhaseInv, [SNext]_svars
  PROVE  PhaseInv'
  <1>1. closed' \in BOOLEAN /\ spc' \in {"run", "listener", "wait", "stopped"}
    BY Zenon DEF PhaseInv, SNext, svars, vars, OfCarbon, Work, Accept, ConnStep, Read, Dispatch, DispatchDrop, Hangup,
           FlushStep, Refuse, Collect, Flush, FlushFails, Return, Close, Stopped, Interrupt, CarbonStop, Stop,
           ApiClose, ServeReturns, PluginStop, ServerStop, ServerFatal, Complete, Timeout
  <1>2. /\ nilCache' \in BOOLEAN
        /\ main' \in {"run", "stopping"}
        /\ api' \in {"serve", "closing", "returned", "stopped"}
        /\ server' \in {"serve", "stopped"}
        /\ exit' \in {"none", "complete", "timeout", "fatal", "panic"}
    BY Zenon DEF PhaseInv, SNext, svars, shutdownVars, OfCarbon, Interrupt, CarbonStop,
           ApiClose, ServeReturns, PluginStop, ServerStop, ServerFatal, Complete, Timeout
  <1> QED
    BY <1>1, <1>2 DEF PhaseInv

\* The channel never holds more than its capacity, and the account bounds
\* every counter by the lines received.
THEOREM ShutdownTypes == SSpec => []STypeOK
  <1>1. SInit => PhaseInv
    BY Zenon DEF SInit, Init, PhaseInv
  <1>2. LineInv /\ AccountInv /\ StopInv /\ PhaseInv => STypeOK
    <2> SUFFICES ASSUME LineInv, AccountInv, StopInv, PhaseInv
                 PROVE  STypeOK
      OBVIOUS
    <2>1. \A counter \in DOMAIN count : count[counter] \in 0 .. MaxLines
      <3>1. SummandsOK /\ LinesAccounted
        BY AccountTypes
      <3>2. Settled <= MaxLines
        BY <3>1, CarbonAssumption DEF LinesAccounted, LineInv, SummandsOK
      <3>3. /\ count.received \in 0 .. MaxLines /\ count.rejected \in 0 .. MaxLines
            /\ count.authFail \in 0 .. MaxLines /\ count.full \in 0 .. MaxLines /\ count.valid \in 0 .. MaxLines
        BY <3>2, CarbonAssumption DEF Settled, LineInv, Counts
      <3> QED
        BY <3>3, Zenon DEF LineInv, Counts
    <2>2. \A i \in DOMAIN chan : chan[i] \in Lines
      BY DEF LineInv
    <2> QED
      BY <2>1, <2>2, Zenon DEF STypeOK, TypeOK, LineInv, StopInv, PhaseInv
  <1> QED
    BY <1>1, <1>2, InitAccount, NextAccount, InitHeap, NextHeap, InitStop, NextStop, NextPhase, PTL DEF SSpec
=============================================================================
