-------------------------------- MODULE Server --------------------------------
(***************************************************************************)
(* The life of a server process, from cmd/server: migrations, requests     *)
(* over a bounded pool of database connections, the keep-alive loop, and   *)
(* the order in which a signal takes it all down.                          *)
(*                                                                         *)
(* Shutdown and Close are those of net/http, the pool is database/sql's.   *)
(* What a request does between its transactions belongs to other modules.  *)
(***************************************************************************)
EXTENDS Naturals, FiniteSets

CONSTANTS
    Conn,      \* connections of clients
    MaxOpen,   \* DB_MAX_OPEN_CONNS
    MaxPanics  \* bound on the handlers that panic

\* The configuration asks for one connection; where migrations run with the
\* credential of the server they keep that one, so a request needs another.
ASSUME ServerAssumption ==
    IsFiniteSet(Conn) /\ MaxOpen \in Nat \ {0, 1} /\ MaxPanics \in Nat

VARIABLES
    main,      \* where main() is
    signal,    \* a signal is in main's channel, which holds one
    migrator,  \* the migrations hold a connection of the pool
    pool,      \* the pool takes transactions
    ticker,    \* where the keep-alive loop is
    http,      \* [Conn -> what the server does for it]
    inFlight,  \* gauge of metrics: "currently being served"
    sse,       \* gauge of metrics: open streams
    panics,    \* history: handlers that have panicked
    forced,    \* history: the drain ran out of time
    hurt       \* history: connections with a request that was cut off

gauges == <<inFlight, sse, panics>>
serverVars == <<main, signal, migrator, pool, ticker, http, gauges, forced, hurt>>

Handling == {"run", "wait", "tx", "stream"}
Ended == {"exited", "failed"}
Busy == {c \in Conn : http[c] \in Handling}
InTx == {c \in Conn : http[c] = "tx"}
Streaming == {c \in Conn : http[c] = "stream"}
InUse == Cardinality(InTx) + (IF migrator THEN 1 ELSE 0)

ServerTypeOK ==
    /\ main \in {"boot", "serve", "stop", "drain", "force", "pool", "return"} \cup Ended
    /\ signal \in BOOLEAN /\ migrator \in BOOLEAN /\ pool \in BOOLEAN
    /\ ticker \in {"off", "asleep", "ping", "health"}
    /\ http \in [Conn -> {"none", "idle"} \cup Handling]
    /\ inFlight \in Nat /\ sse \in Nat /\ panics \in 0..MaxPanics
    /\ forced \in BOOLEAN /\ hurt \in SUBSET Conn
    /\ InUse <= MaxOpen
    /\ main \in Ended => Busy = {}

-----------------------------------------------------------------------------
\* Start

\* With a credential of their own the migrations open and close a pool of
\* their own; with the server's they take a connection and do not return it.
MigrateAtStartup ==
    /\ main = "boot"
    /\ main' = "serve"
    /\ migrator' \in BOOLEAN
    /\ ticker' \in {"off", "asleep"}
    /\ UNCHANGED <<signal, pool, http, gauges, forced, hurt>>

\* os.Exit(1): nothing is waited for.
Die ==
    /\ main' = "failed" /\ ticker' = "off" /\ pool' = FALSE
    /\ http' = [c \in Conn |-> "none"]
    /\ hurt' = hurt \cup Busy
    /\ UNCHANGED <<signal, migrator, gauges, forced>>

BootFails == main = "boot" /\ Die
ListenFails == main = "serve" /\ Die

-----------------------------------------------------------------------------
\* Requests

\* The listener is closed by Shutdown; a connection that was idle then may
\* still bring a request before it is closed.
ServeHTTP(c) ==
    /\ \/ http[c] = "none" /\ main \in {"serve", "stop"}
       \/ http[c] = "idle" /\ main \in {"serve", "stop", "drain"}
    /\ http' = [http EXCEPT ![c] = "run"]
    /\ inFlight' = inFlight + 1
    /\ UNCHANGED <<main, signal, migrator, pool, ticker, sse, panics, forced, hurt>>

Query(c) ==
    /\ http[c] = "run"
    /\ http' = [http EXCEPT ![c] = "wait"]
    /\ UNCHANGED <<main, signal, migrator, pool, ticker, gauges, forced, hurt>>

\* A transaction waits for a connection; there is none to wait for when the
\* pool is closed.
WithTenantTx(c) ==
    /\ http[c] = "wait"
    /\ \/ /\ pool /\ InUse < MaxOpen
          /\ http' = [http EXCEPT ![c] = "tx"]
          /\ hurt' = hurt
       \/ /\ ~pool
          /\ http' = [http EXCEPT ![c] = "run"]
          /\ hurt' = hurt \cup {c}
    /\ UNCHANGED <<main, signal, migrator, pool, ticker, gauges, forced>>

\* Fault: within its transaction the handler opens another.
EndTxAfterAnother(c) ==
    /\ http[c] = "tx" /\ InUse < MaxOpen
    /\ http' = [http EXCEPT ![c] = "run"]
    /\ UNCHANGED <<main, signal, migrator, pool, ticker, gauges, forced, hurt>>

\* Commit, rollback, or the client's context.
EndTx(c) ==
    /\ http[c] = "tx"
    /\ http' = [http EXCEPT ![c] = "run"]
    /\ UNCHANGED <<main, signal, migrator, pool, ticker, gauges, forced, hurt>>

OpenStream(c) ==
    /\ http[c] = "run"
    /\ http' = [http EXCEPT ![c] = "stream"]
    /\ sse' = sse + 1
    /\ UNCHANGED <<main, signal, migrator, pool, ticker, inFlight, panics, forced, hurt>>

\* The connection stays for the next request, unless one of the two sides
\* closes it.
Finish(c) ==
    http' = [http EXCEPT ![c] = IF main \in {"serve", "stop"} THEN "idle" ELSE "none"]

Answer(c) ==
    /\ http[c] = "run"
    /\ Finish(c)
    /\ inFlight' = inFlight - 1
    /\ UNCHANGED <<main, signal, migrator, pool, ticker, sse, panics, forced, hurt>>

\* The client goes away, or a write fails: WriteTimeout is up.
EndStream(c) ==
    /\ http[c] = "stream"
    /\ http' = [http EXCEPT ![c] = "none"]
    /\ inFlight' = inFlight - 1
    /\ sse' = sse - 1
    /\ UNCHANGED <<main, signal, migrator, pool, ticker, panics, forced, hurt>>

\* Fault: the gauge of streams is lowered after the loop, not deferred.
PanicKeepsGauge(c) ==
    /\ http[c] \in {"run", "tx", "stream"} /\ panics < MaxPanics
    /\ panics' = panics + 1
    /\ Finish(c)
    /\ UNCHANGED <<main, signal, migrator, pool, ticker, inFlight, sse, forced, hurt>>

\* Recovery answers with 500. It is outside of the middleware that counts, so
\* the gauge is not lowered; what is deferred is done.
Recovery(c) ==
    /\ http[c] \in {"run", "tx", "stream"} /\ panics < MaxPanics
    /\ panics' = panics + 1
    /\ sse' = IF http[c] = "stream" THEN sse - 1 ELSE sse
    /\ Finish(c)
    /\ UNCHANGED <<main, signal, migrator, pool, ticker, inFlight, forced, hurt>>

Hangup(c) ==
    /\ http[c] = "idle"
    /\ http' = [http EXCEPT ![c] = "none"]
    /\ UNCHANGED <<main, signal, migrator, pool, ticker, gauges, forced, hurt>>

-----------------------------------------------------------------------------
\* Keep-alive.  Between a tick that is due and a stop the loop chooses at
\* random, and nobody waits for a tick that has begun.

Tick ==
    /\ ticker = "asleep"
    /\ ticker' = "ping"
    /\ UNCHANGED <<main, signal, migrator, pool, http, gauges, forced, hurt>>

\* Whether the pool answers or not.
Ping ==
    /\ ticker = "ping"
    /\ ticker' = "health"
    /\ UNCHANGED <<main, signal, migrator, pool, http, gauges, forced, hurt>>

\* /health comes back through the public address, as any request.
HealthDone ==
    /\ ticker = "health"
    /\ ticker' = "asleep"
    /\ UNCHANGED <<main, signal, migrator, pool, http, gauges, forced, hurt>>

Stopped ==
    /\ ticker = "asleep" /\ main \notin {"boot", "serve"}
    /\ ticker' = "off"
    /\ UNCHANGED <<main, signal, migrator, pool, http, gauges, forced, hurt>>

-----------------------------------------------------------------------------
\* Stop

\* Until main listens for it, a signal ends the process.
Signal ==
    \/ main = "boot" /\ Die
    \/ /\ main \notin {"boot"} \cup Ended /\ ~signal
       /\ signal' = TRUE
       /\ UNCHANGED <<main, migrator, pool, ticker, http, gauges, forced, hurt>>

StopKeepalive ==
    /\ main = "serve" /\ signal
    /\ main' = "stop"
    /\ UNCHANGED <<signal, migrator, pool, ticker, http, gauges, forced, hurt>>

\* Fault: the pool is closed before the requests are drained.
ShutdownAfterPool ==
    /\ main = "stop"
    /\ main' = "drain" /\ pool' = FALSE
    /\ UNCHANGED <<signal, migrator, ticker, http, gauges, forced, hurt>>

Shutdown ==
    /\ main = "stop"
    /\ main' = "drain"
    /\ UNCHANGED <<signal, migrator, pool, ticker, http, gauges, forced, hurt>>

\* Idle connections are closed, and no other is left.
Drained ==
    /\ main = "drain" /\ Busy = {}
    /\ main' = "pool"
    /\ http' = [c \in Conn |-> "none"]
    /\ UNCHANGED <<signal, migrator, pool, ticker, gauges, forced, hurt>>

\* Fault: Shutdown is given a context without a deadline.
NoDeadline == FALSE /\ UNCHANGED serverVars

DrainTimesOut ==
    /\ main = "drain" /\ Busy # {}
    /\ main' = "force"
    /\ forced' = TRUE
    /\ UNCHANGED <<signal, migrator, pool, ticker, http, gauges, hurt>>

\* The connections are closed; their handlers run on.
Close ==
    /\ main = "force"
    /\ main' = "pool"
    /\ http' = [c \in Conn |-> IF http[c] = "idle" THEN "none" ELSE http[c]]
    /\ hurt' = hurt \cup Busy
    /\ UNCHANGED <<signal, migrator, pool, ticker, gauges, forced>>

ClosePool ==
    /\ main = "pool"
    /\ main' = "return" /\ pool' = FALSE
    /\ UNCHANGED <<signal, migrator, ticker, http, gauges, forced, hurt>>

Exit ==
    /\ main = "return"
    /\ main' = "exited" /\ ticker' = "off"
    /\ http' = [c \in Conn |-> "none"]
    /\ hurt' = hurt \cup Busy
    /\ UNCHANGED <<signal, migrator, pool, gauges, forced>>

-----------------------------------------------------------------------------
\* Specification

ServerInit ==
    /\ main = "boot" /\ signal = FALSE /\ migrator = FALSE /\ pool = TRUE
    /\ ticker = "off" /\ http = [c \in Conn |-> "none"]
    /\ inFlight = 0 /\ sse = 0 /\ panics = 0 /\ forced = FALSE /\ hurt = {}

Main ==
    \/ StopKeepalive \/ Shutdown \/ Drained \/ DrainTimesOut
    \/ Close \/ ClosePool \/ Exit

ServerNext ==
    \/ MigrateAtStartup \/ BootFails \/ ListenFails \/ Signal \/ Main
    \/ \E c \in Conn :
        \/ ServeHTTP(c) \/ Query(c) \/ WithTenantTx(c) \/ EndTx(c) \/ Answer(c)
        \/ OpenStream(c) \/ EndStream(c) \/ Recovery(c) \/ Hangup(c)
    \/ Tick \/ Ping \/ HealthDone \/ Stopped

ServerSpec == ServerInit /\ [][ServerNext]_serverVars

\* main goes on and time passes; a transaction ends, and the pool serves who
\* waits in the order they came.  Nothing makes a handler or a stream end.
ServerFairSpec ==
    /\ ServerSpec
    /\ WF_serverVars(Main)
    /\ \A c \in Conn : WF_serverVars(EndTx(c)) /\ SF_serverVars(WithTenantTx(c))

-----------------------------------------------------------------------------
\* Properties

\* main.go: "in-flight requests finish instead of being severed mid-response".
\* No request loses its connection, the pool or the process beneath it unless
\* the drain ran out of its time, which an open stream makes it do, or the
\* process had failed.
CutOnlyWhenForced == hurt # {} => forced \/ main = "failed"

\* The gauges agree with what the server is doing, but for one request in
\* flight for each handler that ever panicked; streams are counted exactly.
GaugesDriftByPanics ==
    main \notin Ended =>
        /\ inFlight = Cardinality(Busy) + panics
        /\ sse = Cardinality(Streaming)

\* "the process still exits rather than hanging forever": a signal ends the
\* process, whatever requests and streams do.
SignalEnds == signal ~> main \in Ended

\* "A bounded pool queues instead": who waits for a connection gets one, since
\* no handler waits for a second and a panic gives its own back.
TransactionsRun == \A c \in Conn : http[c] = "wait" ~> http[c] # "wait"
=============================================================================
