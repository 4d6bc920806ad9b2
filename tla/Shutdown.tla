------------------------------ MODULE Shutdown ------------------------------
(***************************************************************************)
(* cmd/tsdb-gw: main starts the HTTP API, the carbon input and the metrics *)
(* server; handleShutdown stops the three at an interrupt, each in a       *)
(* goroutine of its own, and lets main return when all have stopped or the *)
(* timer has fired.                                                        *)
(*                                                                         *)
(* The carbon input is the one of module Carbon.  The process can also end *)
(* otherwise: log.Fatalf exits and a panic in a goroutine aborts.          *)
(***************************************************************************)
EXTENDS Carbon

VARIABLES
  nilCache, \* Stop of the API's auth plugin closes a cache that no plugin has made
  main,     \* handleShutdown: "run", or "stopping" after the interrupt
  api,      \* "serve", "closing" (listener closed), "returned" (Serve) or "stopped"
  server,   \* metrics server: "serve" or "stopped"
  exit      \* how the process has ended: "none", "complete", "timeout", "fatal", "panic"

shutdownVars == <<nilCache, main, api, server, exit>>
svars == <<vars, shutdownVars>>

\* The caches that the constructor of an auth plugin makes, and those that its
\* Stop closes.
Plugins == {"file", "grafana", "grafana-instance"}
Makes(plugin) ==
  CASE plugin = "file" -> {} [] plugin = "grafana" -> {"token"} [] plugin = "grafana-instance" -> {"token", "instance"}
Closes(plugin) == IF plugin = "file" THEN {} ELSE {"token", "instance"}

\* The API and the carbon input each get a plugin; the caches are global.
SInit ==
  /\ Init
  /\ \E p, carbonPlugin \in Plugins :
       nilCache = ~ (Closes(p) \subseteq Makes(p) \cup (IF enabled THEN Makes(carbonPlugin) ELSE {}))
  /\ main = "run" /\ api = "serve" /\ server = "serve" /\ exit = "none"

-----------------------------------------------------------------------------
(* The inputs, while the process lives *)

\* A step of the carbon input alone.
OfCarbon(A) == exit = "none" /\ A /\ UNCHANGED shutdownVars

Interrupt ==
  /\ main = "run" /\ exit = "none"
  /\ main' = "stopping"
  /\ UNCHANGED <<vars, nilCache, api, server, exit>>

CarbonStop ==
  /\ main = "stopping"
  /\ OfCarbon(Stop)

\* Api.Stop closes the listener and waits for a.done.
ApiClose ==
  /\ main = "stopping" /\ exit = "none"
  /\ api = "serve"
  /\ api' = "closing"
  /\ UNCHANGED <<vars, nilCache, main, server, exit>>

\* Serve returns from the closed listener, and its goroutine closes a.done.
ServeReturns ==
  /\ exit = "none"
  /\ api = "closing"
  /\ api' = "returned"
  /\ UNCHANGED <<vars, nilCache, main, server, exit>>

\* Stop of the auth plugin; closing the channel of a nil cache panics.
PluginStop ==
  /\ exit = "none"
  /\ api = "returned"
  /\ IF nilCache THEN exit' = "panic" /\ UNCHANGED api
                 ELSE api' = "stopped" /\ UNCHANGED exit
  /\ UNCHANGED <<vars, nilCache, main, server>>

\* metricsServer.Stop closes the server and returns.
ServerStop ==
  /\ main = "stopping" /\ exit = "none"
  /\ server = "serve"
  /\ server' = "stopped"
  /\ UNCHANGED <<vars, nilCache, main, api, exit>>

\* ListenAndServe fails, or returns because the server was closed, which it
\* reports as an error too: log.Fatalf.
ServerFatal ==
  /\ exit = "none"
  /\ exit' = "fatal"
  /\ UNCHANGED <<vars, nilCache, main, api, server>>

-----------------------------------------------------------------------------
(* handleShutdown *)

Stoppables == {"api", "carbon", "server"}
StopReturned(input) ==
  CASE input = "api" -> api = "stopped"
    [] input = "carbon" -> spc = "stopped"
    [] input = "server" -> server = "stopped"
StopCalled(input) ==
  CASE input = "api" -> api # "serve"
    [] input = "carbon" -> spc # "run"
    [] input = "server" -> server # "serve"

\* Mutant: wg.Add in the goroutine, which may not have run when wg.Wait is called.
AllDoneAddInside == \A input \in Stoppables : StopCalled(input) => StopReturned(input)

\* wg.Wait returns: the counter was raised for every input before its goroutine began.
AllDone == \A input \in Stoppables : StopReturned(input)

Complete ==
  /\ main = "stopping" /\ exit = "none"
  /\ AllDone
  /\ exit' = "complete"
  /\ UNCHANGED <<vars, nilCache, main, api, server>>

\* The timer fires first.
Timeout ==
  /\ main = "stopping" /\ exit = "none"
  /\ exit' = "timeout"
  /\ UNCHANGED <<vars, nilCache, main, api, server>>

-----------------------------------------------------------------------------

SNext ==
  \/ OfCarbon(Work)
  \/ Interrupt \/ CarbonStop
  \/ ApiClose \/ ServeReturns \/ PluginStop
  \/ ServerStop \/ ServerFatal
  \/ Complete \/ Timeout

SSpec == SInit /\ [][SNext]_svars

\* The goroutines run: those that handleShutdown starts, a Dispatch in progress,
\* flush; a connection ends once it is closed.  Nothing says that Publish
\* succeeds, that the timer fires or when the server's goroutine exits.
SFairSpec ==
  /\ SSpec
  /\ \A c \in Conns : /\ WF_svars(OfCarbon(Dispatch(c) \/ DispatchDrop(c)))
                      /\ WF_svars(OfCarbon(spc # "run" /\ Hangup(c)))
  /\ \A f \in Flushers : /\ WF_svars(OfCarbon(Refuse(f) \/ Collect(f)))
                         /\ WF_svars(OfCarbon(Return(f)))
  /\ WF_svars(OfCarbon(Close \/ Stopped))
  /\ WF_svars(CarbonStop)
  /\ WF_svars(ApiClose \/ ServeReturns \/ PluginStop)
  /\ WF_svars(ServerStop)
  /\ WF_svars(Complete)

-----------------------------------------------------------------------------

STypeOK ==
  /\ TypeOK
  /\ nilCache \in BOOLEAN
  /\ main \in {"run", "stopping"}
  /\ api \in {"serve", "closing", "returned", "stopped"}
  /\ server \in {"serve", "stopped"}
  /\ exit \in {"none", "complete", "timeout", "fatal", "panic"}

\* When main returns with "shutdown complete", every input has stopped: no
\* connection is open, the channel is closed and empty, and no goroutine of
\* flush runs, so that no line waits in the channel.
CompleteIsQuiet ==
  exit = "complete" =>
    /\ api = "stopped" /\ server = "stopped"
    /\ \A c \in Conns : cpc[c] = "off"
    /\ chan = <<>> /\ running = {}
    /\ enabled => closed

\* After an interrupt the process ends, without the help of the timer: the
\* inputs stop, whatever connections are blocked in Dispatch and however
\* publishing fares.
ShutdownEnds == main = "stopping" ~> exit # "none"
=============================================================================
