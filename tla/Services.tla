------------------------------- MODULE Services -------------------------------
(***************************************************************************)
(* The services beside the server in the terminal program: on every turn   *)
(* of the loop tick_ws_server and then tick_api_endpoint start, restart or *)
(* stop the dashboard and the API proxy, by comparing the configuration    *)
(* with what they noted at the last start.  The user edits, the server     *)
(* starts, exits and is killed, ports are taken and freed meanwhile.       *)
(***************************************************************************)
EXTENDS Naturals, FiniteSets

CONSTANTS
    DashPorts,  \* ports the user gives the dashboard
    ApiPort,    \* api_endpoint_port
    Keys,       \* API keys
    Own,        \* certificates the user names
    Servers     \* the servers that may run, each with its port and model

None == 0                       \* no server, no port, no key

Auto == "auto"                  \* the generated certificate
NoCert == "none"

VARIABLES
    cfg,        \* the configuration the services depend on
    server,     \* server_handle and spawned_model_name
    cooling,    \* server_exit_cooldown_until lies ahead
    taken,      \* the ports other programs listen on
    dying,      \* the ports of tasks that were aborted and still hold them
    dash,       \* ws_server_handle: what the running dashboard was given
    noted,      \* running_ws_port, running_ws_auth, running_server_tls
    cert,       \* running_server_tls_cert_path
    loaded,     \* running_server_tls_cfg: the certificate it was made of
    proxy,      \* api_proxy_handle: what the proxy was given
    bound,      \* the proxy's task: not yet bound, bound or ended
    recorded,   \* the running_api_* fields
    turn        \* where the loop is

vars == <<cfg, server, cooling, taken, dying, dash, noted, cert, loaded, proxy, bound, recorded, turn>>

Ports == DashPorts \cup {ApiPort}
Certs == Own \cup {Auto, NoCert}
Gone == [server |-> None, dash |-> None, auth |-> None, set |-> FALSE]

Init ==
    /\ cfg \in [dash : BOOLEAN, api : BOOLEAN, port : DashPorts, key : Keys, tls : BOOLEAN,
                cert : Own \cup {NoCert}, ip : BOOLEAN]
    /\ server = None /\ cooling = FALSE /\ taken = {} /\ dying = {}
    /\ dash = {} /\ noted = [port |-> None, key |-> None, tls |-> FALSE]
    /\ cert = NoCert /\ loaded = NoCert
    /\ proxy = {} /\ bound = "none" /\ recorded = Gone
    /\ turn = "events"

TypeOK ==
    /\ cfg.cert \in Certs /\ cfg.key \in Keys /\ cfg.port \in DashPorts
    /\ server \in Servers \cup {None} /\ taken \subseteq Ports /\ dying \subseteq Ports
    /\ Cardinality(dash) <= 1 /\ Cardinality(proxy) <= 1
    /\ bound \in {"none", "starting", "listening", "ended"}
    /\ turn \in {"events", "api", "ticked"}

Busy(p) ==
    \/ p \in taken \cup dying
    \/ \E d \in dash : d.up /\ d.port = p
    \/ p = ApiPort /\ bound = "listening"

-----------------------------------------------------------------------------
(* Between the ticks: the pickers, the server, the system.                 *)

Events == turn # "api" /\ turn' = "events"

\* The pickers of the dashboard and of the API endpoint write these fields.
Edit ==
    /\ Events
    /\ \/ \E b \in BOOLEAN :
              cfg' \in {[cfg EXCEPT !.dash = b], [cfg EXCEPT !.api = b], [cfg EXCEPT !.tls = b]}
       \/ \E p \in DashPorts : cfg' = [cfg EXCEPT !.port = p]
       \/ \E k \in Keys : cfg' = [cfg EXCEPT !.key = k]
       \/ \E c \in Own \cup {NoCert} : cfg' = [cfg EXCEPT !.cert = c]
    /\ UNCHANGED <<server, cooling, taken, dying, dash, noted, cert, loaded, proxy, bound, recorded>>

ServerStarts ==
    /\ Events /\ server' \in Servers
    /\ UNCHANGED <<cfg, cooling, taken, dying, dash, noted, cert, loaded, proxy, bound, recorded>>

ServerExits ==
    /\ Events /\ server # None /\ server' = None /\ cooling' = TRUE
    /\ UNCHANGED <<cfg, taken, dying, dash, noted, cert, loaded, proxy, bound, recorded>>

\* The proxy's task is told to end and aborted: its port may be free a little later.
Drop ==
    \/ UNCHANGED dying
    \/ bound = "listening" /\ dying' = dying \cup {ApiPort}

\* process_pending_kill takes the proxy as well, and leaves running_api_* alone.
ServerKilled ==
    /\ Events /\ server # None /\ server' = None
    /\ proxy' = {} /\ bound' = "none" /\ Drop
    /\ UNCHANGED <<cfg, cooling, taken, dash, noted, cert, loaded, recorded>>

CoolingEnds ==
    /\ cooling /\ cooling' = FALSE
    /\ UNCHANGED <<cfg, server, taken, dying, dash, noted, cert, loaded, proxy, bound, recorded, turn>>

PortFreed ==
    /\ dying # {} /\ dying' = {}
    /\ UNCHANGED <<cfg, server, cooling, taken, dash, noted, cert, loaded, proxy, bound, recorded, turn>>

\* Bound: other programs hold one of the ports at a time.
OtherProgram ==
    /\ \E p \in Ports : \/ ~Busy(p) /\ taken = {} /\ taken' = {p}
                        \/ p \in taken /\ taken' = taken \ {p}
    /\ UNCHANGED <<cfg, server, cooling, dying, dash, noted, cert, loaded, proxy, bound, recorded, turn>>

\* start_api_server, after the test bind: its own bind may fail and end the task,
\* and nobody looks at the handle.
ProxyBinds ==
    /\ bound = "starting"
    /\ bound' = IF Busy(ApiPort) THEN "ended" ELSE "listening"
    /\ UNCHANGED <<cfg, server, cooling, taken, dying, dash, noted, cert, loaded, proxy, recorded, turn>>

-----------------------------------------------------------------------------
(* tick_ws_server.                                                         *)

\* Certificates are loaded again when the path differs from the last one, or
\* when nothing is loaded; a path that does not load gives plain HTTP.
Reload == IF cfg.cert = NoCert THEN cert = NoCert \/ loaded = NoCert
          ELSE cfg.cert # cert \/ loaded = NoCert

\* The outcomes: the certificate loaded, the path noted, the path configured.
\* A missing file, or no path, makes ensure_tls_certs generate one.
TlsOutcome(l, path, conf) ==
    IF ~cfg.tls THEN l = NoCert /\ path = NoCert /\ conf = cfg.cert
    ELSE IF ~Reload THEN l = loaded /\ path = cert /\ conf = cfg.cert
    ELSE \/ cfg.cert # NoCert /\ l \in {cfg.cert, NoCert} /\ path = cert /\ conf = cfg.cert
         \/ l \in {Auto, NoCert} /\ path = Auto /\ conf = Auto
         \/ l = NoCert /\ path = cert /\ conf = cfg.cert    \* none could be generated

\* The path that is configured is noted before it is compared with the noted one.
Noted(path) == IF cfg.cert = NoCert THEN path ELSE cfg.cert

\* Mutant: whether TLS is on is not compared.
WsChangedButTls(path) ==
    \/ noted.port # cfg.port \/ noted.key # cfg.key
    \/ cfg.cert # NoCert /\ cfg.cert # path

WsChanged(path) ==
    \/ noted.port # cfg.port \/ noted.key # cfg.key \/ noted.tls # cfg.tls
    \/ cfg.cert # NoCert /\ cfg.cert # path

TickWsServer ==
    /\ turn # "api" /\ turn' = "api"
    /\ \E l \in Certs, p \in Certs, conf \in Certs :
        /\ TlsOutcome(l, p, conf)
        /\ loaded' = l /\ cert' = Noted(p)
        /\ LET stops == dash # {} /\ (~cfg.dash \/ WsChanged(Noted(p)))
               starts == cfg.dash /\ (stops \/ dash = {})
           IN /\ \/ UNCHANGED dying
                 \/ stops /\ dying' = dying \cup {d.port : d \in {b \in dash : b.up}}
              \* with TLS the task binds the port, and its failure is only logged
              /\ dash' = LET free == cfg.port \notin taken \cup dying'
                         IN IF starts /\ (free \/ l # NoCert)
                            THEN {[port |-> cfg.port, key |-> cfg.key, tls |-> l, up |-> free]}
                            ELSE IF stops THEN {} ELSE dash
              /\ noted' = IF starts /\ dash' # {}
                          THEN [port |-> cfg.port, key |-> cfg.key, tls |-> cfg.tls]
                          ELSE IF stops
                          THEN [port |-> None, key |-> IF cfg.dash THEN noted.key ELSE None,
                                tls |-> IF cfg.dash THEN noted.tls ELSE FALSE]
                          ELSE noted
              \* a port that cannot be bound, its last owner's too, turns it off
              /\ cfg' = [cfg EXCEPT !.cert = conf, !.dash = @ /\ dash' # {}]
    /\ UNCHANGED <<server, cooling, taken, proxy, bound, recorded>>

-----------------------------------------------------------------------------
(* tick_api_endpoint.                                                      *)

Current == [server |-> server, dash |-> noted.port, auth |-> noted.key, set |-> TRUE]

\* Mutant: the server's port and model are not compared.
ApiChangedButServer == [recorded EXCEPT !.server = server] # Current

ApiChanged == recorded # Current

\* Without a server the proxy is not started, though it goes on when one exits.
NothingToDo == server = None /\ proxy = {}

TickApiEndpoint ==
    /\ turn = "api" /\ turn' = "ticked"
    /\ LET stops == proxy # {} /\ (~cfg.api \/ ApiChanged)
           left == IF stops THEN {} ELSE proxy
           starts == cfg.api /\ left = {}
           busy == ApiPort \in taken \cup dying'
           goes == starts /\ cfg.ip /\ (~busy \/ cooling)
       IN IF NothingToDo
          THEN UNCHANGED <<cfg, cooling, dying, proxy, bound, recorded>>
          ELSE /\ IF stops THEN Drop ELSE UNCHANGED dying
               /\ proxy' = IF goes
                           THEN {[server |-> server, dash |-> noted.port, key |-> cfg.key]}
                           ELSE left
               /\ bound' = IF goes THEN "starting" ELSE IF stops THEN "none" ELSE bound
               /\ recorded' = IF goes THEN Current ELSE IF stops THEN Gone ELSE recorded
               /\ cooling' = (cooling /\ ~(goes /\ ~busy))
               \* an address that does not parse turns the endpoint off
               /\ cfg' = [cfg EXCEPT !.api = @ /\ (starts => cfg.ip)]
    /\ UNCHANGED <<server, taken, dash, noted, cert, loaded>>

-----------------------------------------------------------------------------
Next ==
    \/ Edit \/ ServerStarts \/ ServerExits \/ ServerKilled
    \/ CoolingEnds \/ PortFreed \/ OtherProgram \/ ProxyBinds
    \/ TickWsServer \/ TickApiEndpoint

Spec == Init /\ [][Next]_vars

-----------------------------------------------------------------------------
(***************************************************************************)
(* Properties.                                                             *)
(***************************************************************************)

\* After a turn the dashboard that runs has the port and the key of the
\* configuration and no TLS unless that is on, and there is none when it is off.
\* With TLS the one the app takes for running may have failed to bind its port.
DashboardIsCurrent ==
    turn = "ticked" =>
        /\ \A d \in dash : d.port = cfg.port /\ d.key = cfg.key /\ (IF d.tls = NoCert THEN d.up ELSE cfg.tls)
        /\ cfg.dash <=> dash # {}

\* After a turn the proxy forwards to the server that runs and names the
\* dashboard that runs, whatever ended and started since the turn before.
ProxyIsCurrent ==
    turn = "ticked" =>
        /\ \A p \in proxy :
               /\ cfg.api /\ p.server = server
               /\ p.dash = IF dash = {} THEN None ELSE cfg.port
        /\ bound \in {"starting", "listening"} => proxy # {}

\* A dashboard with TLS presents the certificate that is configured.
CertificateIsCurrent ==
    turn = "ticked" =>
        \A d \in dash : d.tls # NoCert /\ cfg.tls /\ cfg.cert # NoCert => d.tls = cfg.cert

\* A proxy the app takes for running is running or about to.
ProxyIsAlive == turn = "ticked" /\ proxy # {} => bound # "ended"
=============================================================================
