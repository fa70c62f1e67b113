-------------------------------- MODULE Serve --------------------------------
(***************************************************************************)
(* Headless mode: serve_model starts one llama-server, on request the API  *)
(* proxy and the dashboard, and waits for the first of them to end.  The   *)
(* lines the server prints pass a pipe, the log reader, the parser and the *)
(* metrics poll; each of them may wait for the next.                       *)
(***************************************************************************)
EXTENDS Naturals

CONSTANTS
    PipeRoom,       \* bound: lines the pipe of the server's output holds
    LogRoom,        \* lines the channel of the parser holds (100)
    MetricRoom,     \* metrics the channel of the poll holds (10)
    MaxFailures,    \* failed polls in a row before polling ends (15)
    MaxRequests     \* bound: requests in flight at the proxy

\* A line finds room at last.
ASSUME RoomAssumption == PipeRoom \in Nat \ {0} /\ LogRoom \in Nat \ {0}

VARIABLES
    api, ws, tls,   \* --api-port, --ws-enable and TLS are given
    at,             \* where serve_model is
    apiError,       \* api_error
    answer,         \* what serve_model returned
    child,          \* llama-server; "stuck" while it waits to print
    code,           \* its exit status
    pipe, lines, metrics,   \* what waits in the pipe and in the two channels
    reader,         \* log_reader_handle
    parser,         \* parser_handle
    poll, failures, \* start_metrics_polling_task
    proxy,          \* the task of start_api_server
    proxyShut,      \* shutdown_tx says true
    proxyDone,      \* api_done_tx
    requests,       \* requests the proxy answers
    dash,           \* the task of start_ws_server
    dashShut,       \* ws_shutdown_tx says true
    client          \* a browser is connected to the dashboard

options == <<api, ws, tls>>
main == <<at, apiError, answer>>
server == <<child, code>>
flow == <<pipe, lines, metrics, reader, parser>>
polling == <<poll, failures>>
proxies == <<proxy, proxyDone, requests>>
signals == <<proxyShut, dashShut>>
boards == <<dash, client>>
vars == <<options, main, server, flow, polling, proxies, signals, boards>>

TypeOK ==
    /\ {api, ws, tls, apiError, proxyShut, dashShut, client} \subseteq BOOLEAN
    /\ at \in {"spawn", "proxy", "dashboard", "select", "wait", "join", "done"}
    /\ answer \in {"none", "ok", "error"} /\ code \in {"ok", "error"}
    /\ child \in {"none", "up", "stuck", "gone"}
    /\ pipe \in 0..PipeRoom /\ lines \in 0..LogRoom /\ metrics \in 0..MetricRoom
    /\ reader \in {"none", "reads", "holds", "ended"}
    /\ parser \in {"none", "waits", "holds", "ended"}
    /\ poll \in {"none", "polls", "ended"} /\ failures \in 0..MaxFailures
    /\ proxy \in {"none", "starts", "serves", "drains", "ended"}
    /\ proxyDone \in {"none", "ok", "error"} /\ requests \in 0..MaxRequests
    /\ dash \in {"none", "serves", "ended"}

Init ==
    /\ api \in BOOLEAN /\ ws \in BOOLEAN /\ tls \in BOOLEAN
    /\ at = "spawn" /\ apiError = FALSE /\ answer = "none"
    /\ child = "none" /\ code = "ok"
    /\ pipe = 0 /\ lines = 0 /\ metrics = 0 /\ reader = "none" /\ parser = "none"
    /\ poll = "none" /\ failures = 0
    /\ proxy = "none" /\ proxyDone = "none" /\ requests = 0
    /\ proxyShut = FALSE /\ dashShut = FALSE
    /\ dash = "none" /\ client = FALSE

Running == at # "done"          \* the tasks end with the program
Living == child \in {"up", "stuck"}

-----------------------------------------------------------------------------
(* serve_model.                                                            *)

Return(with) == at' = "done" /\ answer' = with
Kill == child' = "gone" /\ code' = IF Living THEN "error" ELSE code

\* A missing model, a bad configuration or TLS file, no binary: nothing runs yet.
Refuse ==
    /\ at = "spawn" /\ Return("error")
    /\ UNCHANGED <<options, apiError, server, flow, polling, proxies, signals, boards>>

\* The reader's task panics when the log file cannot be opened.
Spawn ==
    /\ at = "spawn" /\ at' = "proxy"
    /\ child' = "up" /\ reader' \in {"reads", "ended"}
    /\ UNCHANGED <<options, apiError, answer, code, pipe, lines, metrics, parser, polling, proxies,
                   signals, boards>>

StartProxy ==
    /\ at = "proxy" /\ at' = "dashboard"
    /\ proxy' = IF api THEN "starts" ELSE "none"
    /\ UNCHANGED <<options, apiError, answer, server, flow, polling, proxyDone, requests, signals, boards>>

\* The bind address of the proxy does not resolve.
BadAddress ==
    /\ at = "proxy" /\ api
    /\ Kill /\ Return("error")
    /\ UNCHANGED <<options, apiError, flow, polling, proxies, signals, boards>>

\* With TLS the task binds the port, and only logs that it could not.
StartDashboard ==
    /\ at = "dashboard" /\ at' = "select"
    /\ IF ws
       THEN dash' \in {"serves"} \cup (IF tls THEN {"ended"} ELSE {}) /\ parser' = "waits" /\ poll' = "polls"
       ELSE UNCHANGED <<dash, parser, poll>>
    /\ UNCHANGED <<options, apiError, answer, server, pipe, lines, metrics, reader, failures, proxies,
                   signals, client>>

\* Mutant: the error of the dashboard is returned at once.
DashboardFailsOnly ==
    /\ at = "dashboard" /\ ws
    /\ Return("error")
    /\ UNCHANGED <<options, apiError, server, flow, polling, proxies, signals, boards>>

DashboardFails ==
    /\ at = "dashboard" /\ ws
    /\ Kill /\ Return("error")
    /\ UNCHANGED <<options, apiError, flow, polling, proxies, signals, boards>>

ChildExited ==
    /\ at = "select" /\ child = "gone" /\ at' = "join"
    /\ dashShut' = TRUE /\ proxyShut' = TRUE
    /\ UNCHANGED <<options, apiError, answer, server, flow, polling, proxies, boards>>

\* Mutant: a proxy that failed is only reported.
ProxyEndedOnly ==
    /\ at = "select" /\ proxyDone # "none" /\ at' = "wait"
    /\ apiError' = (proxyDone = "error")
    /\ dashShut' = TRUE /\ proxyShut' = TRUE
    /\ UNCHANGED <<options, answer, server, flow, polling, proxies, boards>>

ProxyEnded ==
    /\ at = "select" /\ proxyDone # "none" /\ at' = "wait"
    /\ apiError' = (proxyDone = "error")
    /\ IF proxyDone = "error" THEN Kill ELSE UNCHANGED server
    /\ dashShut' = TRUE /\ proxyShut' = TRUE
    /\ UNCHANGED <<options, answer, flow, polling, proxies, boards>>

\* Ctrl+C, as often as one likes.
Interrupt ==
    /\ at = "select" /\ Kill
    /\ dashShut' = TRUE /\ proxyShut' = TRUE
    /\ UNCHANGED <<options, main, flow, polling, proxies, boards>>

Waited ==
    /\ at = "wait" /\ child = "gone" /\ at' = "join"
    /\ UNCHANGED <<options, apiError, answer, server, flow, polling, proxies, signals, boards>>

\* The proxy's task is awaited, the dashboard's aborted.
Join ==
    /\ at = "join" /\ proxy \in {"none", "ended"}
    /\ dash' = IF ws THEN "ended" ELSE dash
    /\ Return(IF apiError THEN "error" ELSE code)
    /\ UNCHANGED <<options, apiError, server, flow, polling, proxies, signals, client>>

MainStep ==
    \/ Refuse \/ Spawn \/ StartProxy \/ BadAddress \/ StartDashboard \/ DashboardFails
    \/ ChildExited \/ ProxyEnded \/ Waited \/ Join

-----------------------------------------------------------------------------
(* llama-server (environment) and the way of its lines.                    *)

\* A write into a pipe nobody reads fails and is ignored.
Prints ==
    /\ child = "up" /\ Running
    /\ IF reader = "ended" THEN UNCHANGED <<child, pipe>>
       ELSE IF pipe < PipeRoom THEN pipe' = pipe + 1 /\ UNCHANGED child
       ELSE child' = "stuck" /\ UNCHANGED pipe
    /\ UNCHANGED <<options, main, code, lines, metrics, reader, parser, polling, proxies, signals, boards>>

GoesOn ==
    /\ child = "stuck" /\ (pipe < PipeRoom \/ reader = "ended")
    /\ child' = "up"
    /\ UNCHANGED <<options, main, code, flow, polling, proxies, signals, boards>>

Exits ==
    /\ child = "up" /\ Running
    /\ child' = "gone" /\ code' \in {"ok", "error"}
    /\ UNCHANGED <<options, main, flow, polling, proxies, signals, boards>>

ReadLine ==
    /\ Running /\ reader = "reads"
    /\ IF pipe > 0 THEN pipe' = pipe - 1 /\ reader' = "holds"
       ELSE child = "gone" /\ reader' = "ended" /\ UNCHANGED pipe
    /\ UNCHANGED <<options, main, server, lines, metrics, parser, polling, proxies, signals, boards>>

\* stdout_tx.send waits for room; the line for /api/status is only tried.
PassLine ==
    /\ Running /\ reader = "holds" /\ lines < LogRoom
    /\ lines' = lines + 1 /\ reader' = "reads"
    /\ UNCHANGED <<options, main, server, pipe, metrics, parser, polling, proxies, signals, boards>>

ParseLine ==
    /\ Running /\ parser = "waits"
    /\ IF lines > 0 THEN lines' = lines - 1 /\ parser' = "holds"
       ELSE reader = "ended" /\ parser' = "ended" /\ UNCHANGED lines
    /\ UNCHANGED <<options, main, server, pipe, metrics, reader, polling, proxies, signals, boards>>

\* Mutant: the parser keeps its metrics until there is room for them.
PassMetricsOnly ==
    /\ Running /\ parser = "holds" /\ parser' = "waits"
    /\ metrics < MetricRoom /\ metrics' = metrics + 1
    /\ UNCHANGED <<options, main, server, pipe, lines, reader, polling, proxies, signals, boards>>

\* log_metrics_tx.send waits for room, and fails once the poll has ended.
PassMetrics ==
    /\ Running /\ parser = "holds" /\ parser' = "waits"
    /\ IF poll = "ended" THEN UNCHANGED metrics
       ELSE metrics < MetricRoom /\ metrics' = metrics + 1
    /\ UNCHANGED <<options, main, server, pipe, lines, reader, polling, proxies, signals, boards>>

\* One turn: the channel is drained, the server asked, the answer sent to the
\* clients.  A server that does not answer fails the turn after three seconds.
Poll ==
    /\ Running /\ poll = "polls"
    /\ IF dashShut THEN poll' = "ended" /\ UNCHANGED <<metrics, failures>>
       ELSE /\ metrics' = 0
            /\ \/ child = "up" /\ failures' = 0 /\ UNCHANGED poll
               \/ /\ failures' = failures + 1
                  /\ poll' = IF failures + 1 = MaxFailures THEN "ended" ELSE "polls"
    /\ UNCHANGED <<options, main, server, pipe, lines, reader, parser, proxies, signals, boards>>

\* handle_socket: a client is dropped when the poll's sender is gone.
Connect ==
    /\ Running /\ dash = "serves" /\ ~dashShut /\ ~client /\ client' = TRUE
    /\ UNCHANGED <<options, main, server, flow, polling, proxies, signals, dash>>

Disconnect ==
    /\ Running /\ client /\ client' = FALSE
    /\ UNCHANGED <<options, main, server, flow, polling, proxies, signals, dash>>

\* The dashboard's own shutdown: at once with TLS, else when its clients left.
DashboardEnds ==
    /\ Running /\ dash = "serves" /\ dashShut /\ (tls \/ ~client)
    /\ dash' = "ended" /\ client' = FALSE
    /\ UNCHANGED <<options, main, server, flow, polling, proxies, signals>>

-----------------------------------------------------------------------------
(* The proxy.                                                              *)

ProxyBinds ==
    /\ Running /\ proxy = "starts"
    /\ \/ proxy' = "serves" /\ UNCHANGED proxyDone
       \/ proxy' = "ended" /\ proxyDone' = "error"      \* the port is taken
    /\ UNCHANGED <<options, main, server, flow, polling, requests, signals, boards>>

Request ==
    /\ Running /\ proxy = "serves" /\ requests < MaxRequests
    /\ requests' = requests + 1
    /\ UNCHANGED <<options, main, server, flow, polling, proxy, proxyDone, signals, boards>>

RequestEnds ==
    /\ Running /\ requests > 0 /\ requests' = requests - 1
    /\ UNCHANGED <<options, main, server, flow, polling, proxy, proxyDone, signals, boards>>

\* Graceful: no new connection, those that are open end by themselves.  With TLS
\* the select drops them.
ProxyShuts ==
    /\ Running /\ proxy = "serves" /\ proxyShut
    /\ IF tls THEN proxy' = "ended" /\ proxyDone' = "ok" /\ requests' = 0
       ELSE proxy' = "drains" /\ UNCHANGED <<proxyDone, requests>>
    /\ UNCHANGED <<options, main, server, flow, polling, signals, boards>>

ProxyDrained ==
    /\ Running /\ proxy = "drains" /\ requests = 0
    /\ proxy' = "ended" /\ proxyDone' = "ok"
    /\ UNCHANGED <<options, main, server, flow, polling, requests, signals, boards>>

-----------------------------------------------------------------------------
LineStep == ReadLine \/ PassLine
ParserStep == ParseLine \/ PassMetrics
ProxyStep == ProxyBinds \/ ProxyShuts \/ ProxyDrained

Next ==
    \/ MainStep \/ Interrupt
    \/ Prints \/ GoesOn \/ Exits
    \/ LineStep \/ ParserStep \/ Poll
    \/ Connect \/ Disconnect \/ DashboardEnds
    \/ ProxyStep \/ Request \/ RequestEnds

Spec == Init /\ [][Next]_vars

(***************************************************************************)
(* Fairness: every task is scheduled, the poll sleeps two seconds at most, *)
(* a server with room in its pipe goes on.  A request ends: without its    *)
(* server it fails.                                                        *)
(***************************************************************************)
Fairness ==
    /\ WF_vars(MainStep) /\ WF_vars(GoesOn) /\ WF_vars(LineStep) /\ WF_vars(ParserStep)
    /\ WF_vars(Poll) /\ WF_vars(ProxyStep) /\ WF_vars(RequestEnds)

FairSpec == Spec /\ Fairness

-----------------------------------------------------------------------------
(***************************************************************************)
(* Properties.                                                             *)
(***************************************************************************)

\* Whichever way serve_model returns, no llama-server of it runs on.
NoOrphan == at = "done" => ~Living

\* A server whose output is stuck goes on, while the dashboard is served: also
\* after the poll has given up a server that did not answer.
OutputFlows == (ws /\ child = "stuck") ~> child # "stuck"

\* When the server has ended, by itself, by Ctrl+C or because the proxy failed,
\* serve_model returns; and a proxy that failed ends the server.
Returns == (child = "gone" \/ proxyDone = "error") ~> at = "done"

\* OutputFlows without fairness: of the server, the reader, the parser and the poll, each
\* of which may wait for the next, the last one that is waited for can go on.
OutputCanFlow ==
    ws /\ child = "stuck" /\ Running =>
        \/ at \in {"proxy", "dashboard"}
        \/ pipe < PipeRoom \/ reader = "ended"
        \/ reader = "reads" /\ pipe > 0
        \/ reader = "holds" /\ lines < LogRoom
        \/ parser = "waits" /\ lines > 0
        \/ parser = "holds" /\ poll \in {"polls", "ended"}

\* Returns without fairness: where serve_model waits for the end of its server, the
\* server has ended, and a proxy that it waits for was told to end.
CanReturn ==
    (child = "gone" \/ proxyDone = "error") /\ Running =>
        \/ at \in {"proxy", "dashboard", "select"}
        \/ at = "wait" /\ child = "gone"
        \/ at = "join" /\ (proxy = "serves" => proxyShut)

\* The same without the dashboard, where nobody takes the lines.
NeverStuck == child = "stuck" ~> child # "stuck"
=============================================================================
