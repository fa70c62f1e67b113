---------------------------- MODULE TerminalProofs ----------------------------
(***************************************************************************)
(* Theorems about the parts of MCTerminal: the services beside the server, *)
(* the presets, the arguments of the servers, the screens, the search of   *)
(* the hub and the streams of the proxy, for all values of their           *)
(* constants.  What they share with the proofs about the editors is in     *)
(* SettingsProofs.                                                         *)
(***************************************************************************)
EXTENDS SettingsProofs

-----------------------------------------------------------------------------
(* The services beside the server.                                         *)

\* The fields of the configuration the two ticks look at.
ConfigTyped ==
    /\ cfg \in [dash : BOOLEAN, api : BOOLEAN, port : DashPorts, key : Keys, tls : BOOLEAN,
               cert : V!Certs, ip : BOOLEAN]
    /\ turn \in {"events", "api", "ticked"}

\* What is noted of the dashboard is what it was given, and of none no port.
DashIsNoted ==
    /\ dash = {} => noted.port = V!None
    /\ \A d \in dash : /\ d.port = noted.port /\ d.key = noted.key
                       /\ IF d.tls = V!NoCert THEN d.up ELSE noted.tls

\* From the first tick to the next event what is noted is what is configured.
NotedIsConfigured ==
    turn # "events" =>
        /\ cfg.dash <=> dash # {}
        /\ dash # {} => noted.port = cfg.port /\ noted.key = cfg.key /\ noted.tls = cfg.tls

\* What is recorded of the proxy is what it was given, also after the proxy was taken
\* by a kill, which leaves the record alone.
ProxyIsRecorded ==
    /\ \A p \in proxy : p.server = recorded.server /\ p.dash = recorded.dash
    /\ bound \in {"starting", "listening"} => proxy # {}

\* From the second tick to the next event what is recorded is what is there.
RecordedIsCurrent ==
    turn = "ticked" /\ proxy # {} =>
        cfg.api /\ recorded.server = server /\ recorded.dash = noted.port

\* The ticks compare the configuration with what they noted, not with what runs: that
\* the one says the same as the other is what makes the properties inductive.
ServicesInv ==
    ConfigTyped /\ DashIsNoted /\ NotedIsConfigured /\ ProxyIsRecorded /\ RecordedIsCurrent

\* Nothing runs and nothing is noted at first.
LEMMA ServicesStart == V!Init => ServicesInv
<1> SUFFICES ASSUME V!Init PROVE ServicesInv
  OBVIOUS
<1>1. ConfigTyped
  BY DEF V!Init, ConfigTyped, V!Certs
<1>2. dash = {} /\ noted.port = V!None /\ proxy = {} /\ bound = "none" /\ turn = "events"
  BY DEF V!Init
<1> QED
  BY <1>1, <1>2 DEF ServicesInv, DashIsNoted, NotedIsConfigured, ProxyIsRecorded, RecordedIsCurrent

\* What the user, the server and the system do between the ticks ends the turn, unless it
\* touches neither the configuration nor the services.
LEMMA EventsKeepServices ==
    ASSUME ServicesInv,
           \/ V!Edit \/ V!ServerStarts \/ V!ServerExits \/ V!ServerKilled
           \/ V!CoolingEnds \/ V!PortFreed \/ V!OtherProgram \/ V!ProxyBinds
    PROVE  ServicesInv'
<1>1. CASE V!Edit
  <2>1. ConfigTyped'
    BY <1>1 DEF V!Edit, V!Events, ServicesInv, ConfigTyped, V!Certs
  <2> QED
    BY <1>1, <2>1 DEF V!Edit, V!Events, ServicesInv, DashIsNoted, NotedIsConfigured,
       ProxyIsRecorded, RecordedIsCurrent
<1>2. CASE V!ServerStarts \/ V!ServerExits \/ V!ServerKilled
  BY <1>2 DEF V!ServerStarts, V!ServerExits, V!ServerKilled, V!Events, ServicesInv, ConfigTyped,
     DashIsNoted, NotedIsConfigured, ProxyIsRecorded, RecordedIsCurrent
<1>3. CASE V!CoolingEnds \/ V!PortFreed \/ V!OtherProgram
  BY <1>3 DEF V!CoolingEnds, V!PortFreed, V!OtherProgram, ServicesInv, ConfigTyped,
     DashIsNoted, NotedIsConfigured, ProxyIsRecorded, RecordedIsCurrent
<1>4. CASE V!ProxyBinds
  BY <1>4 DEF V!ProxyBinds, ServicesInv, ConfigTyped,
     DashIsNoted, NotedIsConfigured, ProxyIsRecorded, RecordedIsCurrent
<1> QED
  BY <1>1, <1>2, <1>3, <1>4

\* The first tick leaves the dashboard that is configured, or none.
LEMMA TickWsServerKeeps == ServicesInv /\ V!TickWsServer => ServicesInv'
<1> SUFFICES ASSUME ServicesInv, V!TickWsServer PROVE ServicesInv'
  OBVIOUS
<1>1. PICK l \in V!Certs, p \in V!Certs, conf1 \in V!Certs :
        /\ V!TlsOutcome(l, p, conf1)
        /\ LET stops == dash # {} /\ (~cfg.dash \/ V!WsChanged(V!Noted(p)))
               starts == cfg.dash /\ (stops \/ dash = {})
           IN /\ dash' = LET free == cfg.port \notin taken \cup dying'
                         IN IF starts /\ (free \/ l # V!NoCert)
                            THEN {[port |-> cfg.port, key |-> cfg.key, tls |-> l, up |-> free]}
                            ELSE IF stops THEN {} ELSE dash
              /\ noted' = IF starts /\ dash' # {}
                          THEN [port |-> cfg.port, key |-> cfg.key, tls |-> cfg.tls]
                          ELSE IF stops
                          THEN [port |-> V!None, key |-> IF cfg.dash THEN noted.key ELSE V!None,
                                tls |-> IF cfg.dash THEN noted.tls ELSE FALSE]
                          ELSE noted
              /\ cfg' = [cfg EXCEPT !.cert = conf1, !.dash = @ /\ dash' # {}]
  BY DEF V!TickWsServer
<1> DEFINE stops == dash # {} /\ (~cfg.dash \/ V!WsChanged(V!Noted(p)))
           starts == cfg.dash /\ (stops \/ dash = {})
           free == cfg.port \notin taken \cup dying'
<1>2. turn' = "api" /\ UNCHANGED <<proxy, bound, recorded>>
  BY DEF V!TickWsServer
<1>3. cfg' \in [dash : BOOLEAN, api : BOOLEAN, port : DashPorts, key : Keys, tls : BOOLEAN,
               cert : V!Certs, ip : BOOLEAN]
      /\ cfg'.port = cfg.port /\ cfg'.key = cfg.key /\ cfg'.tls = cfg.tls
      /\ cfg'.dash = (cfg.dash /\ dash' # {})
  BY <1>1 DEF ServicesInv, ConfigTyped
<1>4. l # V!NoCert => cfg.tls \/ ~starts
  BY <1>1 DEF V!TlsOutcome
<1>5. CASE starts /\ (free \/ l # V!NoCert)
  <2>1. /\ dash' = {[port |-> cfg.port, key |-> cfg.key, tls |-> l, up |-> free]}
        /\ noted' = [port |-> cfg.port, key |-> cfg.key, tls |-> cfg.tls]
    BY <1>1, <1>5
  <2>2. DashIsNoted'
    <3> SUFFICES ASSUME NEW d \in dash'
                 PROVE  /\ d.port = noted'.port /\ d.key = noted'.key
                        /\ IF d.tls = V!NoCert THEN d.up ELSE noted'.tls
      BY <2>1 DEF DashIsNoted
    <3>1. d = [port |-> cfg.port, key |-> cfg.key, tls |-> l, up |-> free]
      BY <2>1
    <3> HIDE DEF free
    <3>2. d.port = cfg.port /\ d.key = cfg.key /\ d.tls = l /\ d.up = free
      BY <3>1
    <3>3. noted'.port = cfg.port /\ noted'.key = cfg.key /\ noted'.tls = cfg.tls
      BY <2>1
    <3>4. CASE l = V!NoCert
      BY <1>5, <3>2, <3>3, <3>4
    <3>5. CASE l # V!NoCert
      BY <1>4, <1>5, <3>2, <3>3, <3>5
    <3> QED
      BY <3>4, <3>5
  <2>3. NotedIsConfigured'
    BY <1>3, <1>5, <2>1 DEF NotedIsConfigured
  <2> QED
    BY <1>2, <1>3, <2>2, <2>3 DEF ServicesInv, ConfigTyped, ProxyIsRecorded, RecordedIsCurrent
<1>6. CASE ~(starts /\ (free \/ l # V!NoCert)) /\ stops
  <2>1. dash' = {} /\ noted'.port = V!None
    BY <1>1, <1>6
  <2> QED
    BY <1>2, <1>3, <2>1 DEF ServicesInv, ConfigTyped, DashIsNoted, NotedIsConfigured,
       ProxyIsRecorded, RecordedIsCurrent
<1>7. CASE ~(starts /\ (free \/ l # V!NoCert)) /\ ~stops
  <2>1. dash' = dash /\ (~starts \/ dash = {} => noted' = noted)
    BY <1>1, <1>7
  <2>2. starts => dash = {}
    BY <1>7
  <2>3. noted' = noted
    BY <2>1, <2>2
  <2>4. dash # {} => cfg.dash /\ noted.port = cfg.port /\ noted.key = cfg.key /\ noted.tls = cfg.tls
    BY <1>7 DEF V!WsChanged
  <2>5. DashIsNoted' /\ NotedIsConfigured'
    BY <1>3, <2>1, <2>3, <2>4 DEF ServicesInv, DashIsNoted, NotedIsConfigured
  <2> QED
    BY <1>2, <1>3, <2>5 DEF ServicesInv, ConfigTyped, ProxyIsRecorded, RecordedIsCurrent
<1> QED
  BY <1>5, <1>6, <1>7

\* The second tick leaves a proxy that was given what is there, or none.
LEMMA TickApiEndpointKeeps == ServicesInv /\ V!TickApiEndpoint => ServicesInv'
<1> SUFFICES ASSUME ServicesInv, V!TickApiEndpoint PROVE ServicesInv'
  OBVIOUS
<1> DEFINE stops == proxy # {} /\ (~cfg.api \/ V!ApiChanged)
           left == IF stops THEN {} ELSE proxy
           starts == cfg.api /\ left = {}
           busy == ApiPort \in taken \cup dying'
           goes == starts /\ cfg.ip /\ (~busy \/ cooling)
<1>1. turn = "api" /\ turn' = "ticked" /\ UNCHANGED <<server, dash, noted>>
  BY DEF V!TickApiEndpoint
<1>2. CASE V!NothingToDo
  <2>1. UNCHANGED <<cfg, proxy, bound, recorded>> /\ proxy = {}
    BY <1>2 DEF V!TickApiEndpoint, V!NothingToDo
  <2> QED
    BY <1>1, <2>1 DEF ServicesInv, ConfigTyped, DashIsNoted, NotedIsConfigured, ProxyIsRecorded,
       RecordedIsCurrent
<1>3. CASE ~V!NothingToDo
  <2>1. /\ proxy' = IF goes THEN {[server |-> server, dash |-> noted.port, key |-> cfg.key]} ELSE left
        /\ bound' = IF goes THEN "starting" ELSE IF stops THEN "none" ELSE bound
        /\ recorded' = IF goes THEN V!Current ELSE IF stops THEN V!Gone ELSE recorded
        /\ cfg' = [cfg EXCEPT !.api = @ /\ (starts => cfg.ip)]
    BY <1>3 DEF V!TickApiEndpoint
  <2>2. cfg' \in [dash : BOOLEAN, api : BOOLEAN, port : DashPorts, key : Keys, tls : BOOLEAN,
                 cert : V!Certs, ip : BOOLEAN]
        /\ cfg'.port = cfg.port /\ cfg'.key = cfg.key /\ cfg'.tls = cfg.tls
        /\ cfg'.dash = cfg.dash /\ cfg'.api = (cfg.api /\ (starts => cfg.ip))
    BY <2>1 DEF ServicesInv, ConfigTyped
  <2>3. ConfigTyped' /\ DashIsNoted' /\ NotedIsConfigured'
    BY <1>1, <2>2 DEF ServicesInv, ConfigTyped, DashIsNoted, NotedIsConfigured
  <2>4. ProxyIsRecorded'
    <3>1. CASE goes
      <4>1. /\ proxy' = {[server |-> server, dash |-> noted.port, key |-> cfg.key]}
            /\ recorded' = V!Current
        BY <2>1, <3>1
      <4> QED
        BY <4>1 DEF ProxyIsRecorded, V!Current
    <3>2. CASE ~goes /\ stops
      BY <2>1, <3>2 DEF ProxyIsRecorded
    <3>3. CASE ~goes /\ ~stops
      <4>1. UNCHANGED <<proxy, bound, recorded>>
        BY <2>1, <3>3
      <4> QED
        BY <4>1 DEF ServicesInv, ProxyIsRecorded
    <3> QED
      BY <3>1, <3>2, <3>3
  <2>5. RecordedIsCurrent'
    <3>1. CASE goes
      BY <1>1, <2>1, <2>2, <3>1 DEF RecordedIsCurrent, V!Current
    <3>2. CASE ~goes /\ proxy' # {}
      <4>1. ~stops /\ proxy # {} /\ ~starts
        BY <2>1, <3>2
      <4>2. cfg.api /\ recorded = V!Current /\ recorded' = recorded
        BY <2>1, <3>2, <4>1 DEF V!ApiChanged
      <4> QED
        BY <1>1, <2>2, <4>1, <4>2 DEF RecordedIsCurrent, V!Current
    <3> QED
      BY <3>1, <3>2 DEF RecordedIsCurrent
  <2> QED
    BY <2>3, <2>4, <2>5 DEF ServicesInv
<1> QED
  BY <1>2, <1>3

\* Every step keeps the invariant.
LEMMA ServicesKeep == ServicesInv /\ [V!Next]_vVars => ServicesInv'
<1>1. CASE UNCHANGED vVars
  BY <1>1 DEF vVars, ServicesInv, ConfigTyped, DashIsNoted, NotedIsConfigured, ProxyIsRecorded,
     RecordedIsCurrent
<1> QED
  BY <1>1, EventsKeepServices, TickWsServerKeeps, TickApiEndpointKeeps DEF V!Next

\* With what is noted right, what runs is right.
LEMMA NotedIsCurrent == ServicesInv => V!DashboardIsCurrent /\ V!ProxyIsCurrent
<1> SUFFICES ASSUME ServicesInv, turn = "ticked"
             PROVE  V!DashboardIsCurrent /\ V!ProxyIsCurrent
  BY DEF V!DashboardIsCurrent, V!ProxyIsCurrent
<1>1. V!DashboardIsCurrent
  BY DEF ServicesInv, DashIsNoted, NotedIsConfigured, V!DashboardIsCurrent
<1>2. V!ProxyIsCurrent
  BY DEF ServicesInv, DashIsNoted, NotedIsConfigured, ProxyIsRecorded, RecordedIsCurrent,
         V!ProxyIsCurrent
<1> QED
  BY <1>1, <1>2

-----------------------------------------------------------------------------
(* The arguments of the servers.                                           *)

\* The settings are settings.
SettingsTyped ==
    /\ base \in A!Setting /\ panel \in A!Setting /\ shown \in A!Setting
    /\ \A m \in DOMAIN override : override[m] \in A!Setting

\* Settings t are settings s but for the build, and for Options s has no value for: those
\* are as in settings d.
Near(s, t, d) ==
    \A f \in A!Fields \ {"version"} :
        t[f] = s[f] \/ (f \in A!Options /\ s[f] = 0 /\ t[f] = d[f])

\* The panel as it was loaded or saved is what is saved of it.
ShownIsSaved == chosen # A!NoModel => Near(shown, A!Resolved(chosen), base)

\* What a single server was told: what its panel showed, without the types its build does
\* not know.  What the panel and the stores become afterwards is nothing to it.
SingleTold ==
    \E s, t, d \in A!Setting : \E m :
        /\ Near(s, t, d)
        /\ running = [mode |-> "Normal", version |-> t["version"], model |-> m, asked |-> s,
                      defaults |-> d, args |-> A!Arguments(A!Sanitized(t), m)]

\* What a router was told: a section for each model.
RouterTold ==
    \E asking \in [ArgModels -> A!Setting], v \in 0 .. 2, d \in A!Setting, ms \in SUBSET ArgModels :
        running = [mode |-> "Router", version |-> v, asked |-> asking,
                   sections |-> [m \in ArgModels |-> A!Arguments(asking[m], m)],
                   defaults |-> d, loaded |-> ms]

\* The inductive invariant of the arguments.
ArgumentsInv ==
    SettingsTyped /\ ShownIsSaved /\ (running = A!Idle \/ SingleTold \/ RouterTold)

\* A model has the defaults or what is saved for it.
LEMMA ToldType ==
    ASSUME SettingsTyped, NEW m
    PROVE  A!Resolved(m) \in A!Setting
  BY DEF SettingsTyped, A!Resolved, A!Setting

\* What a single server is given in place of a type its build does not know.
LEMMA SanitizedType ==
    ASSUME NEW s \in A!Setting
    PROVE  /\ A!Sanitized(s) \in A!Setting
           /\ \A f \in A!Fields \ A!Caches : A!Sanitized(s)[f] = s[f]
           /\ \A c \in A!Caches : \/ A!Sanitized(s)[c] = s[c]
                                  \/ s[c] = 2 /\ A!Sanitized(s)[c] = 1
           /\ s["version"] # 1 => \A c \in A!Caches : A!Sanitized(s)[c] # 2
<1>1. A!Caches \subseteq A!Fields
  BY DEF A!Caches, A!Fields, A!UnlessDefault
<1>2. \A f \in A!Fields : s[f] \in 0 .. 2
  BY DEF A!Setting
<1>3. \A f \in A!Fields : A!Sanitized(s)[f] =
          IF f \in A!Caches /\ s["version"] # 1 /\ s[f] = 2 THEN 1 ELSE s[f]
  BY DEF A!Sanitized, A!Turbo, A!Standard
<1>4. A!Sanitized(s) = [f \in A!Fields |-> A!Sanitized(s)[f]]
  BY DEF A!Sanitized
<1>5. A!Sanitized(s) \in A!Setting
  BY <1>2, <1>3, <1>4 DEF A!Setting
<1> QED
  BY <1>1, <1>3, <1>5

\* The settings that are told as they are, always or where they have a value.
Valued == (A!Always \cup A!UnlessDefault \cup A!Leaders) \ {"context_length", "ubatch_size"}

\* They and the caches are fields, and neither flags nor decided with another setting.
LEMMA PlainIs ==
    /\ Valued \subseteq A!Fields /\ A!Caches \subseteq Valued /\ A!Flags \subseteq A!Fields
    /\ {"batch_size", "mirostat"} \subseteq Valued
    /\ {"context_length", "ubatch_size"} \subseteq A!Always /\ A!Always \subseteq A!Fields
    /\ {"rope_scaling", "chat_template", "rope_yarn_enabled", "auto_chat_template"} \subseteq A!Fields
    /\ \A f \in Valued : f \notin A!Flags \cup {"context_length", "ubatch_size", "rope_scaling", "chat_template"}
    /\ \A f \in A!Flags : f \notin {"context_length", "ubatch_size", "rope_scaling", "chat_template"}
    /\ {"rope_scaling", "chat_template"} \cap A!Flags = {}
  BY DEF Valued, A!Fields, A!Always, A!Flags, A!UnlessDefault, A!Leaders, A!Caches

\* Settings that are no Options, and no types of the caches.
LEMMA FirmIs ==
    {"context_length", "rope_scaling", "rope_scale", "rope_yarn_enabled", "auto_chat_template",
     "mirostat", "mirostat_lr"} \subseteq A!Fields \ (A!Options \cup A!Caches \cup {"version"})
  BY DEF A!Fields, A!Options, A!Caches, A!Always, A!UnlessDefault, A!Leaders, A!Follows

\* A setting that is told as it is works as it was told.
LEMMA WorksAsTold ==
    ASSUME NEW t \in A!Setting, NEW m, NEW f \in Valued
    PROVE  A!Works(A!Arguments(t, m), f) = t[f]
<1>1. DOMAIN A!Arguments(t, m) = A!Told(t, m)
  BY DEF A!Arguments
<1>2. CASE f \in A!Told(t, m)
  BY <1>1, <1>2, PlainIs DEF A!Arguments, A!Works
<1>3. CASE f \notin A!Told(t, m)
  <2>1. t[f] = 0
    BY <1>3 DEF A!Told, Valued
  <2> QED
    BY <1>1, <1>3, <2>1, PlainIs DEF A!Works
<1> QED
  BY <1>2, <1>3

\* A flag that is on is told.
LEMMA FlagIsTold ==
    ASSUME NEW t \in A!Setting, NEW m, NEW f \in A!Flags, t[f] # 0
    PROVE  A!Works(A!Arguments(t, m), f) = t[f]
<1>1. DOMAIN A!Arguments(t, m) = A!Told(t, m) /\ f \in A!Told(t, m)
  BY DEF A!Arguments, A!Told
<1> QED
  BY <1>1, PlainIs DEF A!Arguments, A!Works

\* What is decided with another setting is told as it was decided.
LEMMA DecidedIsTold ==
    ASSUME NEW t \in A!Setting, NEW m
    PROVE  /\ A!Works(A!Arguments(t, m), "context_length") = A!ContextLength(t)
           /\ A!Works(A!Arguments(t, m), "rope_scaling") = A!RopeScaling(t)
           /\ A!Works(A!Arguments(t, m), "chat_template") = A!ChatTemplate(t, m)
           /\ A!Works(A!Arguments(t, m), "ubatch_size") = A!Minimum(t["ubatch_size"], t["batch_size"])
<1> DEFINE a == A!Arguments(t, m)
<1>1. DOMAIN a = A!Told(t, m)
  BY DEF A!Arguments
<1>2. {"context_length", "ubatch_size"} \subseteq A!Told(t, m)
  BY PlainIs DEF A!Told
<1>3. A!Works(a, "context_length") = A!ContextLength(t)
  BY <1>1, <1>2 DEF A!Works, A!Arguments
<1>4. A!Works(a, "ubatch_size") = A!Minimum(t["ubatch_size"], t["batch_size"])
  BY <1>1, <1>2 DEF A!Works, A!Arguments
<1>5. A!Works(a, "rope_scaling") = A!RopeScaling(t)
  <2>1. CASE "rope_scaling" \in A!Told(t, m)
    BY <1>1, <2>1 DEF A!Works, A!Arguments
  <2>2. CASE "rope_scaling" \notin A!Told(t, m)
    <3>1. A!RopeScaling(t) = 0
      BY <2>2 DEF A!Told
    <3> QED
      BY <1>1, <2>2, <3>1, PlainIs DEF A!Works
  <2> QED
    BY <2>1, <2>2
<1>6. A!Works(a, "chat_template") = A!ChatTemplate(t, m)
  <2>1. CASE "chat_template" \in A!Told(t, m)
    BY <1>1, <2>1 DEF A!Works, A!Arguments
  <2>2. CASE "chat_template" \notin A!Told(t, m)
    <3>1. A!ChatTemplate(t, m) = 0
      BY <2>2 DEF A!Told
    <3> QED
      BY <1>1, <2>2, <3>1, PlainIs DEF A!Works
  <2> QED
    BY <2>1, <2>2
<1> QED
  BY <1>3, <1>4, <1>5, <1>6

\* What RunsAsSet says of one of the servers.
Fits(x) ==
    /\ \A f \in (A!Always \cup A!UnlessDefault \cup A!Leaders)
                 \ (A!Caches \cup {"context_length", "ubatch_size"}) : A!Honoured(x, f)
    /\ \A f \in A!Flags : x.asked[f] # 0 => A!Works(x.args, f) = x.asked[f]
    /\ A!Works(x.args, "context_length") = A!ContextLength(x.asked)
    /\ A!Works(x.args, "rope_scaling") = A!RopeScaling(x.asked)
    /\ A!Honoured(x, "chat_template")
       \/ A!Works(x.args, "chat_template") = A!ChatTemplate(x.asked, x.model)
    /\ A!Works(x.args, "ubatch_size") <= A!Works(x.args, "batch_size")
    /\ \A c \in A!Caches :
          \/ A!Honoured(x, c)
          \/ A!Turbo(x.asked, c) /\ A!Works(x.args, c) = 1
          \/ x.asked[c] = 0 /\ A!Turbo(x.defaults, c) /\ A!Works(x.args, c) = 1
    /\ A!Works(x.args, "mirostat") # 0 => A!Works(x.args, "mirostat_lr") = x.asked["mirostat_lr"]

\* Arguments made of settings u fit the settings s: u has the types of the caches of t that
\* its build knows, and t is s but for what s has no value for.
LEMMA ToldFits ==
    ASSUME NEW s \in A!Setting, NEW t \in A!Setting, NEW d \in A!Setting, NEW u \in A!Setting, NEW m,
           Near(s, t, d),
           \A f \in A!Fields \ A!Caches : u[f] = t[f],
           \A c \in A!Caches : u[c] = t[c] \/ (t[c] = 2 /\ u[c] = 1)
    PROVE  Fits([model |-> m, args |-> A!Arguments(u, m), asked |-> s, defaults |-> d])
<1> DEFINE a == A!Arguments(u, m)
           x == [model |-> m, args |-> a, asked |-> s, defaults |-> d]
<1>0. x.model = m /\ x.args = a /\ x.asked = s /\ x.defaults = d
  OBVIOUS
<1>a. \A f \in A!Fields \ (A!Caches \cup {"version"}) :
        u[f] = s[f] \/ (f \in A!Options /\ s[f] = 0 /\ u[f] = d[f])
  BY DEF Near
<1>b. \A f \in A!Fields \ (A!Options \cup A!Caches \cup {"version"}) : u[f] = s[f]
  BY <1>a
<1> HIDE DEF a, x
<1>1. ASSUME NEW f \in (A!Always \cup A!UnlessDefault \cup A!Leaders)
                       \ (A!Caches \cup {"context_length", "ubatch_size"})
      PROVE  A!Honoured(x, f)
  <2>1. f \in Valued /\ f \in A!Fields /\ f \notin A!Caches
    BY <1>1, PlainIs DEF Valued
  <2>2. f # "version"
    BY <1>1 DEF A!Always, A!UnlessDefault, A!Leaders
  <2>3. A!Works(a, f) = u[f]
    BY <2>1, WorksAsTold DEF a
  <2> QED
    BY <1>0, <1>a, <2>1, <2>2, <2>3 DEF A!Honoured
<1>2. ASSUME NEW f \in A!Flags, s[f] # 0 PROVE A!Works(a, f) = s[f]
  <2>1. f \in A!Fields \ (A!Options \cup A!Caches \cup {"version"})
    BY <1>2, PlainIs DEF A!Flags, A!Options, A!Caches
  <2>2. u[f] = s[f]
    BY <1>b, <2>1
  <2> QED
    BY <1>2, <2>2, FlagIsTold DEF a
<1>3. /\ A!Works(a, "context_length") = A!ContextLength(s)
      /\ A!Works(a, "rope_scaling") = A!RopeScaling(s)
  <2>1. /\ A!Works(a, "context_length") = A!ContextLength(u)
        /\ A!Works(a, "rope_scaling") = A!RopeScaling(u)
    BY DecidedIsTold DEF a
  <2>2. /\ u["context_length"] = s["context_length"] /\ u["rope_scaling"] = s["rope_scaling"]
        /\ u["rope_scale"] = s["rope_scale"] /\ u["rope_yarn_enabled"] = s["rope_yarn_enabled"]
    BY <1>b, FirmIs
  <2> QED
    BY <2>1, <2>2 DEF A!ContextLength, A!RopeScaling, A!Stretched
<1>4. A!Honoured(x, "chat_template") \/ A!Works(a, "chat_template") = A!ChatTemplate(s, m)
  <2>1. A!Works(a, "chat_template") = A!ChatTemplate(u, m)
    BY DecidedIsTold DEF a
  <2>2. u["auto_chat_template"] = s["auto_chat_template"]
    BY <1>b, FirmIs
  <2>3. "chat_template" \in A!Fields \ (A!Caches \cup {"version"})
    BY PlainIs DEF A!Caches
  <2>4. CASE u["chat_template"] = s["chat_template"]
    BY <2>1, <2>2, <2>4 DEF A!ChatTemplate
  <2>5. CASE /\ "chat_template" \in A!Options /\ s["chat_template"] = 0
             /\ u["chat_template"] = d["chat_template"] /\ u["chat_template"] # 0
    BY <1>0, <2>1, <2>5 DEF A!ChatTemplate, A!Honoured
  <2> QED
    BY <1>a, <2>3, <2>4, <2>5
<1>5. A!Works(a, "ubatch_size") <= A!Works(a, "batch_size")
  <2>1. A!Works(a, "batch_size") = u["batch_size"]
    BY PlainIs, WorksAsTold DEF a
  <2>2. A!Works(a, "ubatch_size") = A!Minimum(u["ubatch_size"], u["batch_size"])
    BY DecidedIsTold DEF a
  <2>3. u["ubatch_size"] \in 0 .. 2 /\ u["batch_size"] \in 0 .. 2
    BY PlainIs DEF A!Setting
  <2> QED
    BY <2>1, <2>2, <2>3 DEF A!Minimum
<1>6. ASSUME NEW c \in A!Caches
      PROVE  \/ A!Honoured(x, c)
             \/ A!Turbo(s, c) /\ A!Works(a, c) = 1
             \/ s[c] = 0 /\ A!Turbo(d, c) /\ A!Works(a, c) = 1
  <2>1. c \in Valued /\ c \in A!Fields /\ c # "version"
    BY <1>6, PlainIs DEF A!Caches
  <2>2. A!Works(a, c) = u[c]
    BY <2>1, WorksAsTold DEF a
  <2>3. t[c] = s[c] \/ (c \in A!Options /\ s[c] = 0 /\ t[c] = d[c])
    BY <2>1 DEF Near
  <2> QED
    BY <1>0, <1>6, <2>2, <2>3 DEF A!Honoured, A!Turbo
<1>7. A!Works(a, "mirostat") # 0 => A!Works(a, "mirostat_lr") = s["mirostat_lr"]
  <2>1. A!Works(a, "mirostat") = u["mirostat"]
    BY PlainIs, WorksAsTold DEF a
  <2>2. u["mirostat_lr"] = s["mirostat_lr"]
    BY <1>b, FirmIs
  <2>3. "mirostat_lr" \in DOMAIN A!Follows /\ A!Follows["mirostat_lr"] = "mirostat"
    BY DEF A!Follows
  <2>4. u["mirostat"] # 0 => "mirostat_lr" \in A!Told(u, m)
    BY <2>3 DEF A!Told
  <2>5. u["mirostat"] # 0 => A!Works(a, "mirostat_lr") = u["mirostat_lr"]
    BY <2>4 DEF A!Arguments, A!Works, a
  <2> QED
    BY <2>1, <2>2, <2>5
<1>8. Fits(x)
  BY <1>0, <1>1, <1>2, <1>3, <1>4, <1>5, <1>6, <1>7 DEF Fits
<1> QED
  BY <1>8 DEF x, a

\* Nothing runs at first.
LEMMA ArgumentsStart == A!ArgInit => ArgumentsInv
<1> SUFFICES ASSUME A!ArgInit PROVE ArgumentsInv
  OBVIOUS
<1>1. base \in A!Setting
  BY DEF A!ArgInit, A!Setting
<1>2. panel = base /\ shown = base /\ DOMAIN override = {} /\ running = A!Idle /\ chosen = A!NoModel
  BY DEF A!ArgInit
<1> QED
  BY <1>1, <1>2 DEF ArgumentsInv, SettingsTyped, ShownIsSaved

\* The panel, the stores and the build that is picked.
LEMMA EditsKeepArguments ==
    ASSUME ArgumentsInv,
           \/ \E m \in ArgModels : A!SelectModel(m)
           \/ \E f \in Touched, v \in 0 .. 2 : A!EditSetting(f, v)
           \/ \E version \in 0 .. 2 : A!PickBackend(version)
           \/ A!SaveForModel
    PROVE  ArgumentsInv'
<1>1. running' = running
  BY DEF A!SelectModel, A!EditSetting, A!PickBackend, A!SaveForModel
<1>2. SettingsTyped' /\ ShownIsSaved'
  <2>0. /\ base \in A!Setting /\ panel \in A!Setting /\ shown \in A!Setting
        /\ \A m \in DOMAIN override : override[m] \in A!Setting
        /\ \A f \in A!Fields : panel[f] \in 0 .. 2 /\ base[f] \in 0 .. 2 /\ shown[f] \in 0 .. 2
        /\ ShownIsSaved
    BY DEF ArgumentsInv, SettingsTyped, A!Setting
  <2>1. ASSUME NEW m \in ArgModels, A!SelectModel(m) PROVE SettingsTyped' /\ ShownIsSaved'
    <3>1. /\ chosen' = m /\ panel' = A!Resolved(m) /\ shown' = A!Resolved(m)
          /\ UNCHANGED <<base, override>>
      BY <2>1 DEF A!SelectModel
    <3>2. A!Resolved(m) \in A!Setting
      BY ToldType DEF ArgumentsInv
    <3>3. A!Resolved(m)' = A!Resolved(m)
      BY <3>1 DEF A!Resolved
    <3> QED
      BY <2>0, <3>1, <3>2, <3>3 DEF SettingsTyped, ShownIsSaved, Near
  <2>2. ASSUME NEW f \in Touched, NEW v \in 0 .. 2, A!EditSetting(f, v)
        PROVE  SettingsTyped' /\ ShownIsSaved'
    <3>1. panel' = [panel EXCEPT ![f] = v] /\ UNCHANGED <<base, override, shown, chosen>>
      BY <2>2 DEF A!EditSetting
    <3>2. panel' \in A!Setting
      BY <2>0, <3>1 DEF A!Setting
    <3> QED
      BY <2>0, <3>1, <3>2 DEF SettingsTyped, ShownIsSaved, A!Resolved
  <2>3. ASSUME NEW version \in 0 .. 2, A!PickBackend(version)
        PROVE  SettingsTyped' /\ ShownIsSaved'
    <3>1. panel' \in A!Setting /\ UNCHANGED <<override, chosen>>
      BY <2>0, <2>3 DEF A!PickBackend, A!Setting
    <3>2. CASE version = base["version"]
      <4>1. UNCHANGED <<base, shown>>
        BY <2>3, <3>2 DEF A!PickBackend
      <4> QED
        BY <2>0, <3>1, <4>1 DEF SettingsTyped, ShownIsSaved, A!Resolved
    <3>3. CASE version # base["version"]
      <4>1. base' = [f \in A!Fields |->
                       IF f = "version" THEN version
                       ELSE IF chosen = A!NoModel
                               /\ f \in {"threads", "threads_batch", "max_concurrent_predictions"}
                       THEN panel[f] ELSE base[f]]
            /\ shown' = IF chosen = A!NoModel THEN panel' ELSE [shown EXCEPT !["version"] = version]
        BY <2>3, <3>3 DEF A!PickBackend
      <4>2. base' \in A!Setting
        BY <2>0, <4>1 DEF A!Setting
      <4>3. shown' \in A!Setting
        BY <2>0, <3>1, <4>1 DEF A!Setting
      <4>4. ShownIsSaved'
        <5>1. CASE chosen = A!NoModel
          BY <3>1, <5>1 DEF ShownIsSaved
        <5>2. CASE chosen # A!NoModel
          <6>1. \A f \in A!Fields \ {"version"} : base'[f] = base[f] /\ shown'[f] = shown[f]
            BY <2>0, <4>1, <5>2 DEF A!Setting
          <6>2. \A f \in A!Fields \ {"version"} : A!Resolved(chosen)'[f] = A!Resolved(chosen)[f]
            <7>1. CASE chosen \in DOMAIN override
              BY <3>1, <6>1, <7>1 DEF A!Resolved
            <7>2. CASE chosen \notin DOMAIN override
              BY <3>1, <6>1, <7>2 DEF A!Resolved
            <7> QED
              BY <7>1, <7>2
          <6>3. Near(shown, A!Resolved(chosen), base)
            BY <2>0, <5>2 DEF ShownIsSaved
          <6> QED
            BY <3>1, <6>1, <6>2, <6>3 DEF ShownIsSaved, Near
        <5> QED
          BY <5>1, <5>2
      <4> QED
        BY <2>0, <3>1, <4>2, <4>3, <4>4 DEF SettingsTyped
    <3> QED
      BY <3>2, <3>3
  <2>4. CASE A!SaveForModel
    <3>1. /\ override' = [m \in DOMAIN override \cup {chosen} |-> IF m = chosen THEN panel ELSE override[m]]
          /\ shown' = panel /\ base' = [base EXCEPT !["version"] = panel["version"]]
          /\ UNCHANGED <<chosen, panel>>
      BY <2>4 DEF A!SaveForModel
    <3>2. base' \in A!Setting
      <4>1. "version" \in A!Fields
        BY DEF A!Fields
      <4> QED
        BY <2>0, <3>1, <4>1 DEF A!Setting
    <3>3. \A m \in DOMAIN override' : override'[m] \in A!Setting
      BY <2>0, <3>1
    <3>4. \A f \in A!Fields : A!Resolved(chosen)'[f] =
              IF f \in A!Options /\ panel[f] = 0 THEN base'[f] ELSE panel[f]
      <4>1. chosen \in DOMAIN override' /\ override'[chosen] = panel
        BY <3>1
      <4> QED
        BY <3>1, <4>1 DEF A!Resolved
    <3> QED
      BY <2>0, <3>1, <3>2, <3>3, <3>4 DEF SettingsTyped, ShownIsSaved, Near
  <2> QED
    BY <2>1, <2>2, <2>3, <2>4
<1> QED
  BY <1>1, <1>2 DEF ArgumentsInv, SingleTold, RouterTold

\* What a server is started with is what the panel shows.
LEMMA LoadedIsNear ==
    ASSUME ArgumentsInv, chosen # A!NoModel
    PROVE  A!LoadedSettings \in A!Setting /\ Near(panel, A!LoadedSettings, base)
<1>1. CASE panel # shown
  BY <1>1 DEF A!LoadedSettings, Near, ArgumentsInv, SettingsTyped
<1>2. CASE panel = shown
  BY <1>2, ToldType DEF A!LoadedSettings, ArgumentsInv, ShownIsSaved
<1> QED
  BY <1>1, <1>2

\* A server is started, and a router loads a model with its section.
LEMMA ServersKeepArguments ==
    ASSUME ArgumentsInv,
           \/ A!SpawnServer \/ A!SpawnRouter \/ A!StopServer
           \/ \E m \in ArgModels : A!LoadInRouter(m)
    PROVE  ArgumentsInv'
<1>1. SettingsTyped' /\ ShownIsSaved'
  <2>1. UNCHANGED <<base, override, chosen, panel, shown>>
    BY DEF A!SpawnServer, A!SpawnRouter, A!StopServer, A!LoadInRouter
  <2> QED
    BY <2>1 DEF ArgumentsInv, SettingsTyped, ShownIsSaved, A!Resolved
<1>2. CASE A!SpawnServer
  <2> DEFINE t == A!LoadedSettings
  <2>1. running' = [mode |-> "Normal", version |-> t["version"], model |-> chosen, asked |-> panel,
                    defaults |-> base, args |-> A!Arguments(A!Sanitized(t), chosen)]
        /\ chosen # A!NoModel
    BY <1>2 DEF A!SpawnServer
  <2>2. panel \in A!Setting /\ base \in A!Setting /\ t \in A!Setting /\ Near(panel, t, base)
    BY <2>1, LoadedIsNear DEF ArgumentsInv, SettingsTyped
  <2> HIDE DEF t
  <2>3. SingleTold'
    BY <2>1, <2>2 DEF SingleTold
  <2> QED
    BY <1>1, <2>3 DEF ArgumentsInv
<1>3. CASE A!SpawnRouter
  <2> DEFINE asking == [m \in ArgModels |-> A!Resolved(m)]
             v == A!LoadedSettings["version"]
  <2>1. asking \in [ArgModels -> A!Setting]
    BY ToldType DEF ArgumentsInv
  <2>2. A!RouterPreset = [m \in ArgModels |-> A!Arguments(asking[m], m)]
    BY DEF A!RouterPreset
  <2>3. running' = [mode |-> "Router", version |-> v, asked |-> asking,
                    sections |-> [m \in ArgModels |-> A!Arguments(asking[m], m)],
                    defaults |-> base, loaded |-> {}]
        /\ chosen # A!NoModel
    BY <1>3, <2>2 DEF A!SpawnRouter
  <2>4. v \in 0 .. 2 /\ base \in A!Setting
    BY <2>3, LoadedIsNear DEF ArgumentsInv, SettingsTyped, A!Setting, A!Fields
  <2> HIDE DEF asking, v
  <2>5. RouterTold'
    BY <2>1, <2>3, <2>4 DEF RouterTold
  <2> QED
    BY <1>1, <2>5 DEF ArgumentsInv
<1>4. CASE A!StopServer
  BY <1>1, <1>4 DEF A!StopServer, ArgumentsInv, A!Idle
<1>5. ASSUME NEW m \in ArgModels, A!LoadInRouter(m) PROVE ArgumentsInv'
  <2>1. running.mode = "Router" /\ running' = [running EXCEPT !.loaded = @ \cup {m}]
    BY <1>5 DEF A!LoadInRouter
  <2>2. RouterTold
    BY <2>1 DEF ArgumentsInv, A!Idle, SingleTold
  <2>3. PICK asking \in [ArgModels -> A!Setting], v \in 0 .. 2, d \in A!Setting, ms \in SUBSET ArgModels :
          running = [mode |-> "Router", version |-> v, asked |-> asking,
                     sections |-> [i \in ArgModels |-> A!Arguments(asking[i], i)],
                     defaults |-> d, loaded |-> ms]
    BY <2>2 DEF RouterTold
  <2>4. running' = [mode |-> "Router", version |-> v, asked |-> asking,
                    sections |-> [i \in ArgModels |-> A!Arguments(asking[i], i)],
                    defaults |-> d, loaded |-> ms \cup {m}]
    BY <2>1, <2>3
  <2>5. RouterTold'
    BY <2>4 DEF RouterTold
  <2> QED
    BY <1>1, <2>5 DEF ArgumentsInv
<1> QED
  BY <1>2, <1>3, <1>4, <1>5

\* Every step keeps the invariant.
LEMMA ArgumentsKeep == ArgumentsInv /\ [A!ArgNext]_aVars => ArgumentsInv'
<1>1. CASE UNCHANGED aVars
  BY <1>1 DEF aVars, ArgumentsInv, SettingsTyped, ShownIsSaved, A!Resolved, SingleTold, RouterTold
<1> QED
  BY <1>1, EditsKeepArguments, ServersKeepArguments DEF A!ArgNext

\* Whoever was told the arguments of its settings runs as it was set.
LEMMA ToldIsSet == ArgumentsInv => A!RunsAsSet /\ A!StandardServerStarts
<1> SUFFICES ASSUME ArgumentsInv PROVE A!RunsAsSet /\ A!StandardServerStarts
  OBVIOUS
<1>1. CASE running = A!Idle
  <2>1. running.mode = "none"
    BY <1>1 DEF A!Idle
  <2> QED
    BY <2>1 DEF A!RunsAsSet, A!StandardServerStarts, A!Serving
<1>2. CASE SingleTold
  <2>1. PICK s \in A!Setting, t \in A!Setting, d \in A!Setting : \E m :
          /\ Near(s, t, d)
          /\ running = [mode |-> "Normal", version |-> t["version"], model |-> m, asked |-> s,
                        defaults |-> d, args |-> A!Arguments(A!Sanitized(t), m)]
    BY <1>2 DEF SingleTold
  <2>2. PICK m : /\ Near(s, t, d)
                 /\ running = [mode |-> "Normal", version |-> t["version"], model |-> m, asked |-> s,
                               defaults |-> d, args |-> A!Arguments(A!Sanitized(t), m)]
    BY <2>1
  <2> DEFINE u == A!Sanitized(t)
             x == [model |-> m, args |-> A!Arguments(u, m), asked |-> s, defaults |-> d]
  <2>3. /\ running.mode = "Normal" /\ running.version = t["version"] /\ running.model = m
        /\ running.asked = s /\ running.defaults = d /\ running.args = A!Arguments(u, m)
    BY <2>2
  <2>4. A!Serving = {x}
    BY <2>3 DEF A!Serving
  <2>5. /\ u \in A!Setting
        /\ \A f \in A!Fields \ A!Caches : u[f] = t[f]
        /\ \A c \in A!Caches : u[c] = t[c] \/ (t[c] = 2 /\ u[c] = 1)
        /\ t["version"] # 1 => \A c \in A!Caches : u[c] # 2
    BY SanitizedType
  <2> HIDE DEF u
  <2>6. Fits(x)
    BY <2>2, <2>5, ToldFits
  <2>7. \A y \in A!Serving : Fits(y)
    BY <2>4, <2>6
  <2>8. A!RunsAsSet
    BY <2>7 DEF Fits, A!RunsAsSet
  <2>9. ASSUME t["version"] # 1, NEW c \in A!Caches PROVE A!Works(running.args, c) # 2
    <3>1. c \in Valued
      BY PlainIs
    <3>2. A!Works(A!Arguments(u, m), c) = u[c]
      BY <2>5, <3>1, WorksAsTold
    <3> QED
      BY <2>3, <2>5, <2>9, <3>2
  <2> QED
    BY <2>3, <2>8, <2>9 DEF A!StandardServerStarts
<1>3. CASE RouterTold
  <2>1. PICK asking \in [ArgModels -> A!Setting], v \in 0 .. 2, d \in A!Setting, ms \in SUBSET ArgModels :
          running = [mode |-> "Router", version |-> v, asked |-> asking,
                     sections |-> [i \in ArgModels |-> A!Arguments(asking[i], i)],
                     defaults |-> d, loaded |-> ms]
    BY <1>3 DEF RouterTold
  <2>2. /\ running.mode = "Router" /\ running.asked = asking /\ running.loaded = ms
        /\ running.defaults = d
        /\ running.sections = [i \in ArgModels |-> A!Arguments(asking[i], i)]
    BY <2>1
  <2>3. A!Serving = {[model |-> m, args |-> A!Arguments(asking[m], m), asked |-> asking[m],
                      defaults |-> d] : m \in ms}
    BY <2>2 DEF A!Serving
  <2>4. \A m \in ms : asking[m] \in A!Setting
    BY <2>1
  <2>5. A!RunsAsSet
    <3>1. \A m \in ms : Fits([model |-> m, args |-> A!Arguments(asking[m], m), asked |-> asking[m],
                              defaults |-> d])
      <4> SUFFICES ASSUME NEW m \in ms
                   PROVE  Fits([model |-> m, args |-> A!Arguments(asking[m], m), asked |-> asking[m],
                                defaults |-> d])
        OBVIOUS
      <4> DEFINE s == asking[m]
      <4>1. s \in A!Setting /\ Near(s, s, d)
        BY <2>4 DEF Near
      <4> HIDE DEF s
      <4>2. Fits([model |-> m, args |-> A!Arguments(s, m), asked |-> s, defaults |-> d])
        BY <4>1, ToldFits
      <4> QED
        BY <4>2 DEF s
    <3>2. \A x \in A!Serving : Fits(x)
      BY <2>3, <3>1
    <3> QED
      BY <3>2 DEF Fits, A!RunsAsSet
  <2> QED
    BY <2>2, <2>5 DEF A!StandardServerStarts
<1> QED
  BY <1>1, <1>2, <1>3 DEF ArgumentsInv

-----------------------------------------------------------------------------
(* The presets of system prompts.                                          *)

\* A function, whatever its domain.
IsMap(f) == f = [n \in DOMAIN f |-> f[n]]

\* Both stores are maps.  That they agree is inductive as it stands: every handler that
\* changes the one in memory writes the directory before it returns.
PresetsInv == failures \in Nat /\ IsMap(store) /\ IsMap(presetFiles) /\ P!FilesAgree

\* A map that is written over one of no more entries is what is left.
LEMMA OverSmaller ==
    ASSUME NEW new, NEW old, IsMap(new), DOMAIN old \subseteq DOMAIN new
    PROVE  P!Over(new, old) = new
<1>1. P!Over(new, old) = [n \in DOMAIN new |-> new[n]]
  BY DEF P!Over
<1> QED
  BY <1>1 DEF IsMap

\* A step that writes to the directory what is in memory afterwards, or fails to.
LEMMA WriteKeeps ==
    ASSUME PresetsInv, NEW written, P!Write(written), IsMap(store'), IsMap(written),
           failures = 0 => written = store'
    PROVE  PresetsInv'
<1>1. CASE presetFiles' = written /\ failures' = failures
  BY <1>1 DEF PresetsInv, P!FilesAgree, IsMap
<1>2. CASE P!WriteFails /\ presetFiles' = P!NoneWritten
  <2>1. failures' \in Nat /\ failures' # 0
    BY <1>2 DEF P!WriteFails, PresetsInv
  <2> QED
    BY <1>2, <2>1 DEF P!NoneWritten, PresetsInv, P!FilesAgree, IsMap
<1> QED
  BY <1>1, <1>2 DEF P!Write

\* A preset is saved under its name.
LEMMA SavedStore ==
    ASSUME PresetsInv, NEW n, NEW t, P!Save(n, t)
    PROVE  /\ IsMap(store') /\ DOMAIN store' = DOMAIN store \cup {n}
           /\ store' = P!With(store, n, t)
<1>1. store' = P!With(store, n, t)
  BY DEF P!Save
<1> QED
  BY <1>1 DEF P!With, P!Over, IsMap

\* All of them are written again.
LEMMA SaveAllKeeps ==
    ASSUME PresetsInv, NEW n, NEW t, P!Save(n, t), P!Write(P!AllWritten)
    PROVE  PresetsInv'
<1>1. IsMap(store') /\ DOMAIN store \subseteq DOMAIN store'
  BY SavedStore
<1>2. IsMap(P!AllWritten)
  BY DEF P!AllWritten, P!Over, IsMap
<1>3. failures = 0 => P!AllWritten = store'
  BY <1>1, OverSmaller DEF PresetsInv, P!FilesAgree, P!AllWritten
<1> QED
  BY <1>1, <1>2, <1>3, WriteKeeps

\* The new one alone is written.
LEMMA CreateKeeps ==
    ASSUME PresetsInv, NEW n, NEW t, P!Save(n, t),
           P!Write(P!With(presetFiles, n, t))
    PROVE  PresetsInv'
<1>1. IsMap(store') /\ store' = P!With(store, n, t)
  BY SavedStore
<1>2. IsMap(P!With(presetFiles, n, t))
  BY DEF P!With, P!Over, IsMap
<1>3. failures = 0 => P!With(presetFiles, n, t) = store'
  BY <1>1 DEF PresetsInv, P!FilesAgree
<1> QED
  BY <1>1, <1>2, <1>3, WriteKeeps

\* The file goes with the preset.
LEMMA DeleteKeeps == ASSUME PresetsInv, NEW n, P!Delete(n) PROVE PresetsInv'
<1> DEFINE written == P!Over(store', P!Without(presetFiles, n))
<1>1. store' = P!Without(store, n) /\ P!Write(written)
  BY DEF P!Delete
<1>2. IsMap(store')
  BY <1>1 DEF P!Without, P!Restrict, IsMap
<1>3. IsMap(written)
  BY DEF P!Over, IsMap
<1>4. failures = 0 => written = store'
  BY <1>1, <1>2, OverSmaller DEF PresetsInv, P!FilesAgree
<1> QED
  BY <1>1, <1>2, <1>3, <1>4, WriteKeeps

\* The files are what the program starts with.
LEMMA PresetsStart == P!Init => PresetsInv
  BY DEF P!Init, PresetsInv, IsMap, P!FilesAgree

\* Every step keeps the invariant.
LEMMA PresetsKeep == PresetsInv /\ [P!Next]_pVars => PresetsInv'
<1> SUFFICES ASSUME PresetsInv, [P!Next]_pVars PROVE PresetsInv'
  OBVIOUS
<1>1. ASSUME UNCHANGED <<store, presetFiles, failures>> PROVE PresetsInv'
  BY <1>1 DEF PresetsInv, IsMap, P!FilesAgree
<1>2. CASE \/ P!MoveInPanel \/ P!EditInPanel \/ P!OpenPicker \/ P!MoveInPicker \/ P!WheelInPicker
           \/ P!EditInPicker \/ P!ClosePicker \/ P!Type \/ P!Escape \/ UNCHANGED pVars
  BY <1>1, <1>2 DEF P!MoveInPanel, P!EditInPanel, P!OpenPicker, P!MoveInPicker, P!WheelInPicker,
     P!EditInPicker, P!ClosePicker, P!Type, P!Escape, pVars
<1>3. CASE P!CreateInPanel \/ P!CreateInPicker
  <2>1. P!Save(P!NextName, P!Blank) /\ P!Write(P!With(presetFiles, P!NextName, P!Blank))
    BY <1>3 DEF P!CreateInPanel, P!CreateInPicker
  <2> QED
    BY <2>1, CreateKeeps
<1>4. CASE P!SaveSettings
  <2>1. store' = store /\ P!Write(P!AllWritten)
    BY <1>4 DEF P!SaveSettings
  <2>2. IsMap(store') /\ IsMap(P!AllWritten)
    BY <2>1 DEF P!AllWritten, P!Over, PresetsInv, IsMap
  <2>3. failures = 0 => P!AllWritten = store'
    BY <2>1, <2>2, OverSmaller DEF PresetsInv, P!FilesAgree, P!AllWritten
  <2> QED
    BY <2>1, <2>2, <2>3, WriteKeeps
<1>5. CASE P!SaveInPicker
  <2>1. PICK p \in picker :
          \/ UNCHANGED <<store, presetFiles, failures>>
          \/ P!Save(p.entries[p.selected], buffer) /\ P!Write(P!AllWritten)
    BY <1>5 DEF P!SaveInPicker
  <2> QED
    BY <1>1, <2>1, SaveAllKeeps
<1>6. CASE P!DeleteInPanel
  BY <1>6, DeleteKeeps DEF P!DeleteInPanel
<1>7. CASE P!DeleteInPicker
  <2>1. PICK p \in picker : P!Delete(p.entries[p.selected])
    BY <1>7 DEF P!DeleteInPicker
  <2> QED
    BY <2>1, DeleteKeeps
<1>8. CASE P!Restart
  BY <1>8 DEF P!Restart, PresetsInv, IsMap, P!FilesAgree
<1> QED
  BY <1>2, <1>3, <1>4, <1>5, <1>6, <1>7, <1>8 DEF P!Next

-----------------------------------------------------------------------------
(* The screens.                                                            *)

\* What a screen is made of.
ScreenType ==
    [mode : K!Modes, inner : BOOLEAN, rpc : {"view", "worker", "split"},
     list : {"closed", "choose", "edit"}, tags : BOOLEAN, help : BOOLEAN, output : BOOLEAN,
     log : BOOLEAN, filter : BOOLEAN, models : {"Empty", "List", "Search", "Files", "BenchTune"},
     focus : K!Panels]

\* Only models that are there are filtered.
Sane(s) == s \in ScreenType /\ (s.filter => s.models # "Empty")

\* The screens there can be.
SaneScreens == {s \in ScreenType : Sane(s)}

\* How many times Esc has something to close: the list, an overlay, the mode of the
\* models' to, and what the filter holds back unless Esc closes the filter.
Held(s) == s.filter /\ s.focus # "Models"

\* What Esc closes of each part of the screen, and of all.
ListDepth(s) == IF s.list = "edit" THEN 2 ELSE IF s.list = "choose" THEN 1 ELSE 0
ModeDepth(s) ==
    IF s.mode \in {"Normal", "DirectoryPicker"} THEN 0
    ELSE IF \/ s.mode \in {"DeleteBackend", "ChatTemplateFilePicker", "ProfileCreate"}
            \/ s.mode \in K!Editors /\ s.inner
            \/ s.mode = "RpcManager" /\ s.rpc # "view"
         THEN 2 ELSE 1
ModelsDepth(s) ==
    IF s.models = "Files" THEN 2 ELSE IF s.models \in {"Search", "BenchTune"} THEN 1 ELSE 0
One(is) == IF is THEN 1 ELSE 0
TagsDepth(s) == One(s.tags)
OutputDepth(s) == One(s.output)
PanelDepth(s) == IF Held(s) THEN 0 ELSE One(s.log) + One(s.help) + One(s.filter)
Depth(s) ==
    ListDepth(s) + ModeDepth(s) + TagsDepth(s) + ModelsDepth(s) + OutputDepth(s) + PanelDepth(s)

\* Where the properties want Esc to lead.
Left(s) ==
    /\ s.mode \in {"Normal", "DirectoryPicker"}
    /\ s.list = "closed" /\ ~s.tags /\ ~s.output
    /\ s.models \in {"Empty", "List"}
    /\ s.log \/ s.help => s.filter /\ s.focus # "Models"

\* The depth is a small number.
LEMMA DepthIs ==
    ASSUME NEW s
    PROVE  /\ ListDepth(s) \in 0 .. 2 /\ ModeDepth(s) \in 0 .. 2 /\ TagsDepth(s) \in 0 .. 1
           /\ ModelsDepth(s) \in 0 .. 2 /\ OutputDepth(s) \in 0 .. 1 /\ PanelDepth(s) \in 0 .. 3
           /\ Depth(s) \in 0 .. 11
<1>1. ListDepth(s) \in 0 .. 2 /\ ModeDepth(s) \in 0 .. 2 /\ ModelsDepth(s) \in 0 .. 2
  BY DEF ListDepth, ModeDepth, ModelsDepth
<1>2. /\ TagsDepth(s) \in 0 .. 1 /\ OutputDepth(s) \in 0 .. 1 /\ One(s.log) \in 0 .. 1
      /\ One(s.help) \in 0 .. 1 /\ One(s.filter) \in 0 .. 1
  BY DEF One, TagsDepth, OutputDepth
<1>3. PanelDepth(s) \in 0 .. 3
  BY <1>2 DEF PanelDepth
<1>4. Depth(s) \in 0 .. 11
  BY <1>1, <1>2, <1>3 DEF Depth
<1> QED
  BY <1>1, <1>2, <1>3, <1>4

\* What closes one thing and opens none.
LEMMA DepthFalls ==
    ASSUME NEW s, NEW t,
           ListDepth(t) <= ListDepth(s), ModeDepth(t) <= ModeDepth(s), TagsDepth(t) <= TagsDepth(s),
           ModelsDepth(t) <= ModelsDepth(s), OutputDepth(t) <= OutputDepth(s),
           PanelDepth(t) <= PanelDepth(s),
           \/ ListDepth(t) < ListDepth(s) \/ ModeDepth(t) < ModeDepth(s) \/ TagsDepth(t) < TagsDepth(s)
           \/ ModelsDepth(t) < ModelsDepth(s) \/ OutputDepth(t) < OutputDepth(s)
           \/ PanelDepth(t) < PanelDepth(s)
    PROVE  Depth(t) < Depth(s)
  BY DepthIs DEF Depth

\* Who takes a key.
LEMMA TakerIs ==
    ASSUME NEW s
    PROVE  /\ s.list # "closed" => K!Taker(s) = "list"
           /\ s.list = "closed" /\ K!Handled(s) => K!Taker(s) = s.mode
           /\ s.list = "closed" /\ ~K!Handled(s) =>
                /\ s.tags => K!Taker(s) = "tags"
                /\ ~s.tags /\ s.models \in {"Search", "Files"} => K!Taker(s) = s.models
                /\ ~s.tags /\ s.models \notin {"Search", "Files"} =>
                     /\ s.output => K!Taker(s) = "output"
                     /\ ~s.output /\ s.models = "BenchTune" => K!Taker(s) = "BenchTune"
                     /\ ~s.output /\ s.models # "BenchTune" =>
                          K!Taker(s) = IF s.help /\ ~s.filter THEN "help" ELSE s.focus
<1>1. s.list # "closed" => K!Taker(s) = "list"
  BY DEF K!Taker
<1>2. s.list = "closed" /\ K!Handled(s) => K!Taker(s) = s.mode
  BY DEF K!Taker
<1>3. ASSUME s.list = "closed", ~K!Handled(s)
      PROVE  /\ s.tags => K!Taker(s) = "tags"
             /\ ~s.tags /\ s.models \in {"Search", "Files"} => K!Taker(s) = s.models
             /\ ~s.tags /\ s.models \notin {"Search", "Files"} =>
                  /\ s.output => K!Taker(s) = "output"
                  /\ ~s.output /\ s.models = "BenchTune" => K!Taker(s) = "BenchTune"
                  /\ ~s.output /\ s.models # "BenchTune" =>
                       K!Taker(s) = IF s.help /\ ~s.filter THEN "help" ELSE s.focus
  <2>1. s.tags => K!Taker(s) = "tags"
    BY <1>3 DEF K!Taker
  <2>2. ~s.tags /\ s.models \in {"Search", "Files"} => K!Taker(s) = s.models
    BY <1>3 DEF K!Taker
  <2>3. ~s.tags /\ s.models \notin {"Search", "Files"} /\ s.output => K!Taker(s) = "output"
    BY <1>3 DEF K!Taker
  <2>4. ~s.tags /\ s.models \notin {"Search", "Files"} /\ ~s.output /\ s.models = "BenchTune" => K!Taker(s) = "BenchTune"
    BY <1>3 DEF K!Taker
  <2>5. ~s.tags /\ s.models \notin {"Search", "Files"} /\ ~s.output /\ s.models # "BenchTune" =>
        K!Taker(s) = IF s.help /\ ~s.filter THEN "help" ELSE s.focus
    BY <1>3 DEF K!Taker
  <2> QED
    BY <2>1, <2>2, <2>3, <2>4, <2>5
<1> QED
  BY <1>1, <1>2, <1>3

\* Those but the panels that may take it.
Others == {"Search", "Files", "output", "BenchTune", "help"}

\* What Esc does, by who takes it.
LEMMA EscIs ==
    ASSUME NEW s, s.mode \notin {"list", "tags"}
    PROVE  /\ K!Taker(s) = "list" => K!EscOf(s) = K!EscList(s)
           /\ K!Taker(s) = "tags" => K!EscOf(s) = K!EscTags(s)
           /\ K!Taker(s) = s.mode => K!EscOf(s) = K!EscOverlay(s)
           /\ K!Taker(s) \notin {"list", "tags", s.mode} =>
                /\ s.log /\ ~s.filter => K!EscOf(s) = [s EXCEPT !.log = FALSE]
                /\ ~(s.log /\ ~s.filter) =>
                     /\ K!Taker(s) \in {"Search", "Files"} => K!EscOf(s) = K!EscSearch(s)
                     /\ K!Taker(s) = "output" => K!EscOf(s) = K!EscOutput(s)
                     /\ K!Taker(s) = "BenchTune" => K!EscOf(s) = K!EscBench(s)
                     /\ K!Taker(s) = "help" => K!EscOf(s) = [s EXCEPT !.help = FALSE]
                     /\ K!Taker(s) \notin Others => K!EscOf(s) = K!EscPanel(s)
<1> DEFINE taker == K!Taker(s)
<1> HIDE DEF taker
<1>1. taker = "list" => K!EscOf(s) = K!EscList(s)
  BY DEF K!EscOf, taker
<1>2. taker = "tags" => K!EscOf(s) = K!EscTags(s)
  BY DEF K!EscOf, taker
<1>3. taker = s.mode => K!EscOf(s) = K!EscOverlay(s)
  BY DEF K!EscOf, taker
<1>4. taker \notin {"list", "tags", s.mode} /\ s.log /\ ~s.filter => K!EscOf(s) = [s EXCEPT !.log = FALSE]
  BY DEF K!EscOf, taker
<1>5. taker \notin {"list", "tags", s.mode} /\ ~(s.log /\ ~s.filter) =>
                     /\ K!Taker(s) \in {"Search", "Files"} => K!EscOf(s) = K!EscSearch(s)
                     /\ K!Taker(s) = "output" => K!EscOf(s) = K!EscOutput(s)
                     /\ K!Taker(s) = "BenchTune" => K!EscOf(s) = K!EscBench(s)
                     /\ K!Taker(s) = "help" => K!EscOf(s) = [s EXCEPT !.help = FALSE]
                     /\ K!Taker(s) \notin Others => K!EscOf(s) = K!EscPanel(s)
  BY DEF K!EscOf, taker, Others
<1> QED
  BY <1>1, <1>2, <1>3, <1>4, <1>5 DEF taker

\* A mode is not the name of another taker.
LEMMA ModeIsNoList ==
    ASSUME NEW s \in SaneScreens
    PROVE  /\ s.mode \notin {"list", "tags"} \cup Others /\ s.mode \notin K!Panels
           /\ s.focus \in K!Panels /\ s.focus \notin {"list", "tags"} \cup Others
  BY DEF SaneScreens, Sane, ScreenType, K!Modes, K!Pickers, K!Editors, K!Panels, Others

\* Esc closes something that is open: the list, or one of its values,
LEMMA ListGoes ==
    ASSUME NEW s \in SaneScreens, s.list # "closed"
    PROVE  K!EscOf(s) \in SaneScreens /\ Depth(K!EscOf(s)) < Depth(s)
<1> DEFINE t == K!EscList(s)
<1>1. s \in ScreenType /\ (s.filter => s.models # "Empty")
  BY DEF SaneScreens, Sane
<1>2. K!EscOf(s) = t
  BY ModeIsNoList, TakerIs, EscIs
<1>3. t \in ScreenType /\ t.list = (IF s.list = "edit" THEN "choose" ELSE "closed")
      /\ t.mode = s.mode /\ t.inner = s.inner /\ t.rpc = s.rpc /\ t.tags = s.tags
      /\ t.help = s.help /\ t.output = s.output /\ t.log = s.log /\ t.filter = s.filter
      /\ t.models = s.models /\ t.focus = s.focus
  BY <1>1 DEF ScreenType, K!EscList
<1> HIDE DEF t
<1>4. ListDepth(t) < ListDepth(s)
  BY <1>1, <1>3 DEF ListDepth, ScreenType
<1>5. /\ ModeDepth(t) = ModeDepth(s) /\ ModelsDepth(t) = ModelsDepth(s)
      /\ PanelDepth(t) = PanelDepth(s) /\ TagsDepth(t) = TagsDepth(s)
      /\ OutputDepth(t) = OutputDepth(s)
  BY <1>3 DEF ModeDepth, ModelsDepth, PanelDepth, Held, TagsDepth, OutputDepth
<1>6. Depth(t) < Depth(s)
  BY <1>4, <1>5, DepthIs, DepthFalls
<1> QED
  BY <1>1, <1>2, <1>3, <1>6 DEF SaneScreens, Sane

\* an overlay, or what is open in it,
LEMMA OverlayGoes ==
    ASSUME NEW s \in SaneScreens, s.list = "closed", K!Handled(s)
    PROVE  K!EscOf(s) \in SaneScreens /\ Depth(K!EscOf(s)) < Depth(s)
<1> DEFINE t == K!EscOverlay(s)
<1>1. s \in ScreenType /\ (s.filter => s.models # "Empty")
  BY DEF SaneScreens, Sane
<1>2. K!EscOf(s) = t
  BY ModeIsNoList, TakerIs, EscIs
<1>3. \/ \E m \in K!Modes : t = [s EXCEPT !.mode = m]
      \/ t = [s EXCEPT !.inner = FALSE]
      \/ t = [s EXCEPT !.rpc = "view"]
  BY <1>1 DEF ScreenType, K!EscOverlay, K!Handled, K!EscEditor, K!EscConfirmation, K!EscRpc,
     K!Modes, K!Pickers, K!Editors
<1>4. ModeDepth(t) < ModeDepth(s)
  BY <1>1 DEF ScreenType, K!EscOverlay, K!Handled, K!EscEditor, K!EscConfirmation, K!EscRpc,
     K!Modes, K!Pickers, K!Editors, ModeDepth
<1> HIDE DEF t
<1>5. t \in ScreenType
      /\ t.list = s.list /\ t.tags = s.tags /\ t.help = s.help /\ t.output = s.output
      /\ t.log = s.log /\ t.filter = s.filter /\ t.models = s.models /\ t.focus = s.focus
  BY <1>1, <1>3 DEF ScreenType
<1>6. /\ ListDepth(t) = ListDepth(s) /\ ModelsDepth(t) = ModelsDepth(s)
      /\ PanelDepth(t) = PanelDepth(s) /\ TagsDepth(t) = TagsDepth(s)
      /\ OutputDepth(t) = OutputDepth(s)
  BY <1>5 DEF ListDepth, ModelsDepth, PanelDepth, Held, TagsDepth, OutputDepth
<1>7. Depth(t) < Depth(s)
  BY <1>4, <1>6, DepthIs, DepthFalls
<1> QED
  BY <1>1, <1>2, <1>5, <1>7 DEF SaneScreens, Sane

\* the tags,
LEMMA TagsGo ==
    ASSUME NEW s \in SaneScreens, s.list = "closed", ~K!Handled(s), s.tags
    PROVE  K!EscOf(s) \in SaneScreens /\ Depth(K!EscOf(s)) < Depth(s)
<1> DEFINE t == K!EscTags(s)
<1>1. s \in ScreenType /\ (s.filter => s.models # "Empty")
  BY DEF SaneScreens, Sane
<1>2. K!EscOf(s) = t
  BY ModeIsNoList, TakerIs, EscIs
<1>3. t \in ScreenType /\ ~t.tags /\ t.inner = s.inner /\ t.rpc = s.rpc
      /\ t.list = s.list /\ t.mode = s.mode /\ t.help = s.help /\ t.output = s.output
      /\ t.log = s.log /\ t.filter = s.filter /\ t.models = s.models /\ t.focus = s.focus
  BY <1>1 DEF ScreenType, K!EscTags
<1> HIDE DEF t
<1>4. /\ ListDepth(t) = ListDepth(s) /\ ModeDepth(t) = ModeDepth(s)
      /\ ModelsDepth(t) = ModelsDepth(s) /\ PanelDepth(t) = PanelDepth(s)
  BY <1>3 DEF ListDepth, ModeDepth, ModelsDepth, PanelDepth, Held
<1>5. TagsDepth(t) = 0 /\ TagsDepth(s) = 1 /\ OutputDepth(t) = OutputDepth(s)
  BY <1>3 DEF One, TagsDepth, OutputDepth
<1>6. Depth(t) < Depth(s)
  BY <1>4, <1>5, DepthIs, DepthFalls
<1> QED
  BY <1>1, <1>2, <1>3, <1>6 DEF SaneScreens, Sane

\* and what the panels have open; with nothing open it changes nothing.
LEMMA PanelGoes ==
    ASSUME NEW s \in SaneScreens, s.list = "closed", ~K!Handled(s), ~s.tags
    PROVE  /\ K!EscOf(s) \in SaneScreens
           /\ Depth(K!EscOf(s)) < Depth(s) \/ (K!EscOf(s) = s /\ Left(s))
<1>1. s \in ScreenType /\ (s.filter => s.models # "Empty")
  BY DEF SaneScreens, Sane
<1>2. s.mode \notin {"list", "tags"} /\ s.mode \in {"Normal", "DirectoryPicker"}
  BY DEF K!Handled
<1> DEFINE taker == K!Taker(s)
           Panel(t) ==
              /\ t \in SaneScreens /\ t.list = s.list /\ t.mode = s.mode /\ t.inner = s.inner
              /\ t.rpc = s.rpc /\ t.tags = s.tags
<1>3. ASSUME NEW t, Panel(t)
      PROVE  ListDepth(t) = ListDepth(s) /\ ModeDepth(t) = ModeDepth(s) /\ TagsDepth(t) = TagsDepth(s)
  BY <1>3 DEF ListDepth, ModeDepth, TagsDepth
<1>4. taker \notin {"list", "tags", s.mode}
  BY <1>1, <1>2, TakerIs, ModeIsNoList DEF Others
<1>5. CASE s.log /\ ~s.filter
  <2> DEFINE t == [s EXCEPT !.log = FALSE]
  <2>1. K!EscOf(s) = t
    BY <1>2, <1>4, <1>5, EscIs
  <2>2. Panel(t) /\ ~t.log /\ t.filter = s.filter /\ t.help = s.help /\ t.models = s.models
        /\ t.output = s.output
    BY <1>1 DEF SaneScreens, Sane, ScreenType
  <2> HIDE DEF t
  <2>3. /\ PanelDepth(t) < PanelDepth(s) /\ ModelsDepth(t) = ModelsDepth(s)
        /\ OutputDepth(t) = OutputDepth(s)
    BY <1>5, <2>2 DEF PanelDepth, Held, One, ModelsDepth, OutputDepth, OutputDepth
  <2>4. Depth(t) < Depth(s)
    BY <1>3, <2>2, <2>3, DepthIs, DepthFalls
  <2> QED
    BY <2>1, <2>2, <2>4
<1>6. CASE ~(s.log /\ ~s.filter) /\ taker \in {"Search", "Files"}
  <2> DEFINE t == K!EscSearch(s)
  <2>1. K!EscOf(s) = t
    BY <1>2, <1>4, <1>6, EscIs
  <2>2. s.models = taker
    BY <1>1, <1>6, TakerIs, ModeIsNoList DEF Others
  <2>3. Panel(t) /\ t.models = (IF s.models = "Files" THEN "Search" ELSE "List")
        /\ t.log = s.log /\ t.filter = s.filter /\ t.help = s.help /\ t.output = s.output
        /\ t.focus = s.focus
    BY <1>1 DEF SaneScreens, Sane, ScreenType, K!EscSearch
  <2> HIDE DEF t
  <2>4. /\ PanelDepth(t) = PanelDepth(s) /\ ModelsDepth(t) < ModelsDepth(s)
        /\ OutputDepth(t) = OutputDepth(s)
    BY <1>6, <2>2, <2>3 DEF PanelDepth, Held, ModelsDepth, OutputDepth
  <2>5. Depth(t) < Depth(s)
    BY <1>3, <2>3, <2>4, DepthIs, DepthFalls
  <2> QED
    BY <2>1, <2>3, <2>5
<1>7. CASE ~(s.log /\ ~s.filter) /\ taker = "output"
  <2> DEFINE t == K!EscOutput(s)
  <2>1. K!EscOf(s) = t
    BY <1>2, <1>4, <1>7, EscIs
  <2>2. s.output
    BY <1>1, <1>7, TakerIs, ModeIsNoList DEF Others
  <2>3. Panel(t) /\ ~t.output /\ t.models = s.models
        /\ t.log = s.log /\ t.filter = s.filter /\ t.help = s.help /\ t.focus = s.focus
    BY <1>1 DEF SaneScreens, Sane, ScreenType, K!EscOutput
  <2> HIDE DEF t
  <2>4. PanelDepth(t) = PanelDepth(s) /\ ModelsDepth(t) = ModelsDepth(s) /\ OutputDepth(t) < OutputDepth(s)
    BY <2>2, <2>3 DEF PanelDepth, Held, ModelsDepth, One, OutputDepth
  <2>5. Depth(t) < Depth(s)
    BY <1>3, <2>3, <2>4, DepthIs, DepthFalls
  <2> QED
    BY <2>1, <2>3, <2>5
<1>8. CASE ~(s.log /\ ~s.filter) /\ taker = "BenchTune"
  <2> DEFINE t == K!EscBench(s)
  <2>1. K!EscOf(s) = t
    BY <1>2, <1>4, <1>8, EscIs
  <2>2. s.models = "BenchTune"
    BY <1>1, <1>8, TakerIs, ModeIsNoList DEF Others
  <2>3. Panel(t) /\ t.models = "List" /\ t.output = s.output
        /\ t.log = s.log /\ t.filter = s.filter /\ t.help = s.help /\ t.focus = s.focus
    BY <1>1 DEF SaneScreens, Sane, ScreenType, K!EscBench
  <2> HIDE DEF t
  <2>4. /\ PanelDepth(t) = PanelDepth(s) /\ ModelsDepth(t) < ModelsDepth(s)
        /\ OutputDepth(t) = OutputDepth(s)
    BY <2>2, <2>3 DEF PanelDepth, Held, ModelsDepth, OutputDepth
  <2>5. Depth(t) < Depth(s)
    BY <1>3, <2>3, <2>4, DepthIs, DepthFalls
  <2> QED
    BY <2>1, <2>3, <2>5
<1>9. CASE ~(s.log /\ ~s.filter) /\ taker = "help"
  <2> DEFINE t == [s EXCEPT !.help = FALSE]
  <2>1. K!EscOf(s) = t
    BY <1>2, <1>4, <1>9, EscIs
  <2>2. s.help /\ ~s.filter
    BY <1>1, <1>9, TakerIs, ModeIsNoList DEF Others
  <2>3. Panel(t) /\ ~t.help /\ t.filter = s.filter /\ t.log = s.log /\ t.models = s.models
        /\ t.output = s.output
    BY <1>1 DEF SaneScreens, Sane, ScreenType
  <2> HIDE DEF t
  <2>4. /\ PanelDepth(t) < PanelDepth(s) /\ ModelsDepth(t) = ModelsDepth(s)
        /\ OutputDepth(t) = OutputDepth(s)
    BY <2>2, <2>3 DEF PanelDepth, Held, ModelsDepth, One, OutputDepth
  <2>5. Depth(t) < Depth(s)
    BY <1>3, <2>3, <2>4, DepthIs, DepthFalls
  <2> QED
    BY <2>1, <2>3, <2>5
<1>10. CASE ~(s.log /\ ~s.filter) /\ taker \notin Others
  <2>1. K!EscOf(s) = K!EscPanel(s)
    BY <1>2, <1>4, <1>10, EscIs
  <2>2. /\ taker = s.focus /\ ~s.output /\ ~(s.help /\ ~s.filter)
        /\ s.models \in {"Empty", "List"}
    BY <1>1, <1>10, TakerIs DEF Others, ScreenType
  <2>3. CASE s.filter /\ s.focus = "Models"
    <3> DEFINE t == [s EXCEPT !.filter = FALSE]
    <3>1. K!EscOf(s) = t
      BY <1>1, <2>1, <2>3 DEF K!EscPanel
    <3>2. Panel(t) /\ ~t.filter /\ t.log = s.log /\ t.help = s.help /\ t.models = s.models
          /\ t.output = s.output
      BY <1>1 DEF SaneScreens, Sane, ScreenType
    <3> HIDE DEF t
    <3>3. PanelDepth(t) < PanelDepth(s)
      <4>1. PanelDepth(s) = One(s.log) + One(s.help) + 1
        BY <2>3 DEF PanelDepth, Held, One, OutputDepth
      <4>2. PanelDepth(t) = One(s.log) + One(s.help) + 0
        BY <3>2 DEF PanelDepth, Held, One, OutputDepth
      <4>3. One(s.log) \in Nat /\ One(s.help) \in Nat
        BY DEF One
      <4> QED
        BY <4>1, <4>2, <4>3
    <3>4. ModelsDepth(t) = ModelsDepth(s) /\ OutputDepth(t) = OutputDepth(s)
      BY <3>2 DEF ModelsDepth, OutputDepth
    <3>5. Depth(t) < Depth(s)
      BY <1>3, <3>2, <3>3, <3>4, DepthIs, DepthFalls
    <3> QED
      BY <3>1, <3>2, <3>5
  <2>4. CASE ~(s.filter /\ s.focus = "Models")
    <3>1. K!EscPanel(s) = s
      <4>1. CASE s.focus = "Models" /\ s.models # "Empty"
        <5>1. s.filter = FALSE
          BY <1>1, <2>4, <4>1 DEF ScreenType
        <5>2. [s EXCEPT !.filter = FALSE] = s
          BY <1>1, <5>1 DEF ScreenType
        <5> QED
          BY <4>1, <5>2 DEF K!EscPanel
      <4>2. CASE ~(s.focus = "Models" /\ s.models # "Empty")
        BY <4>2 DEF K!EscPanel
      <4> QED
        BY <4>1, <4>2
    <3>2. Left(s)
      BY <1>2, <1>10, <2>2, <2>4 DEF Left
    <3> QED
      BY <2>1, <3>1, <3>2
  <2> QED
    BY <2>3, <2>4
<1> QED
  BY <1>5, <1>6, <1>7, <1>8, <1>9, <1>10 DEF Others

\* The same of any screen.
LEMMA EscGoes ==
    ASSUME NEW s \in SaneScreens
    PROVE  /\ K!EscOf(s) \in SaneScreens
           /\ Depth(K!EscOf(s)) < Depth(s) \/ (K!EscOf(s) = s /\ Left(s))
  BY ListGoes, OverlayGoes, TagsGo, PanelGoes

\* What is left after n keys: each has closed something, or nothing is open.
LEMMA EscAgain ==
    ASSUME screen \in SaneScreens
    PROVE  K!AfterEsc[0] = screen /\ \A n \in Nat : K!AfterEsc[n + 1] = K!EscOf(K!AfterEsc[n])
<1> DEFINE step == [n \in Nat |-> [s \in SaneScreens |-> K!EscOf(s)]]
<1>1. step \in [Nat -> [SaneScreens -> SaneScreens]]
  BY EscGoes
<1>2. \A n \in Nat, s \in SaneScreens : step[n][s] = K!EscOf(s)
  OBVIOUS
<1> HIDE DEF step
<1>3. PICK f : Follows(f, SaneScreens, screen, step)
  BY <1>1, Recursion
<1>4. \A n \in Nat : f[n] \in SaneScreens /\ n + 1 \in Nat
  BY <1>3 DEF Follows
<1>5. f[0] = screen /\ \A n \in Nat : f[n + 1] = K!EscOf(f[n])
  BY <1>2, <1>3, <1>4 DEF Follows
<1>6. \A n \in Nat : f[n] = IF n = 0 THEN screen ELSE K!EscOf(f[n - 1])
  <2> SUFFICES ASSUME NEW n \in Nat, n # 0 PROVE f[n] = K!EscOf(f[n - 1])
    BY <1>5
  <2>1. n - 1 \in Nat /\ (n - 1) + 1 = n
    OBVIOUS
  <2> QED
    BY <1>5, <2>1
<1>7. f = [n \in Nat |-> IF n = 0 THEN screen ELSE K!EscOf(f[n - 1])]
  BY <1>3, <1>6 DEF Follows
<1>8. K!AfterEsc = [n \in Nat |-> IF n = 0 THEN screen ELSE K!EscOf(K!AfterEsc[n - 1])]
  BY <1>7, Zenon DEF K!AfterEsc
<1>9. K!AfterEsc[0] = screen
  BY <1>8
<1>10. ASSUME NEW n \in Nat PROVE K!AfterEsc[n + 1] = K!EscOf(K!AfterEsc[n])
  <2>1. n + 1 \in Nat /\ n + 1 # 0 /\ (n + 1) - 1 = n
    OBVIOUS
  <2> QED
    BY <1>8, <2>1
<1> QED
  BY <1>9, <1>10

\* No screen has more than eleven things to close, so twelve keys close all.
LEMMA TwelveAreEnough == screen \in SaneScreens => K!EscLeaves
<1> SUFFICES ASSUME screen \in SaneScreens PROVE K!EscLeaves
  OBVIOUS
<1> DEFINE S == {n \in Nat : /\ K!AfterEsc[n] \in SaneScreens
                             /\ \/ Depth(K!AfterEsc[n]) + n <= 11
                                \/ Left(K!AfterEsc[n]) /\ K!EscOf(K!AfterEsc[n]) = K!AfterEsc[n]}
<1>1. 0 \in S
  BY EscAgain, DepthIs
<1>2. ASSUME NEW n \in Nat, n \in S PROVE n + 1 \in S
  <2> DEFINE s == K!AfterEsc[n]
             t == K!AfterEsc[n + 1]
  <2>1. t = K!EscOf(s) /\ s \in SaneScreens
    BY <1>2, EscAgain
  <2>2. Depth(s) + n <= 11 \/ (Left(s) /\ K!EscOf(s) = s)
    BY <1>2
  <2> HIDE DEF s, t
  <2>3. t \in SaneScreens /\ Depth(t) \in Nat /\ Depth(s) \in Nat
    BY <2>1, EscGoes, DepthIs
  <2>4. Depth(t) + (n + 1) <= 11 \/ (Left(t) /\ K!EscOf(t) = t)
    BY <2>1, <2>2, <2>3, EscGoes
  <2> QED
    BY <2>3, <2>4 DEF t
<1> HIDE DEF S
<1>3. 12 \in S
  BY <1>1, <1>2, SetInduction
<1>4. Left(K!AfterEsc[12])
  BY <1>3, DepthIs DEF S
<1> QED
  BY <1>4 DEF K!EscLeaves, Left

\* A screen with nothing open, at first.
LEMMA ScreensStart == K!Init => screen \in SaneScreens
  BY DEF K!Init, SaneScreens, Sane, ScreenType, K!Modes, K!Pickers, K!Editors, K!Panels

\* An overlay replaces another, and leaves the rest of the screen.
LEMMA OpenedIsSane ==
    ASSUME screen \in SaneScreens, NEW mode \in K!Modes
    PROVE  K!Opened(mode) \in SaneScreens
<1>1. screen \in ScreenType /\ (screen.filter => screen.models # "Empty")
  BY DEF SaneScreens, Sane
<1> DEFINE s == K!Opened(mode)
<1>2. s \in ScreenType /\ s.filter = screen.filter /\ s.models = screen.models
  BY <1>1 DEF ScreenType, K!Opened
<1> HIDE DEF s
<1>3. s \in SaneScreens
  BY <1>1, <1>2 DEF SaneScreens, Sane
<1> QED
  BY <1>3 DEF s

\* So does what changes one part, as long as a filter has something to hide.
LEMMA ChangedIsSane ==
    ASSUME NEW s \in SaneScreens, NEW is \in BOOLEAN
    PROVE  /\ [s EXCEPT !.help = is] \in SaneScreens /\ [s EXCEPT !.tags = is] \in SaneScreens
           /\ [s EXCEPT !.log = is] \in SaneScreens /\ [s EXCEPT !.inner = is] \in SaneScreens
           /\ [s EXCEPT !.output = is] \in SaneScreens /\ [s EXCEPT !.filter = FALSE] \in SaneScreens
           /\ s.models # "Empty" => [s EXCEPT !.filter = is] \in SaneScreens
           /\ \A to \in K!Panels : [s EXCEPT !.focus = to] \in SaneScreens
           /\ \A list \in {"closed", "choose", "edit"} : [s EXCEPT !.list = list] \in SaneScreens
           /\ \A rpc \in {"view", "worker", "split"} : [s EXCEPT !.rpc = rpc] \in SaneScreens
           /\ \A models \in {"List", "Search", "Files", "BenchTune"} :
                  /\ [s EXCEPT !.models = models] \in SaneScreens
                  /\ [s EXCEPT !.models = models, !.log = FALSE] \in SaneScreens
           /\ K!Searching(s) \in SaneScreens
<1>1. s \in ScreenType /\ (s.filter => s.models # "Empty")
  BY DEF SaneScreens, Sane
<1>2. ASSUME NEW t, t \in ScreenType, t.filter => t.models # "Empty" PROVE t \in SaneScreens
  BY <1>2 DEF SaneScreens, Sane
<1>3. /\ [s EXCEPT !.help = is] \in SaneScreens /\ [s EXCEPT !.tags = is] \in SaneScreens
      /\ [s EXCEPT !.log = is] \in SaneScreens /\ [s EXCEPT !.inner = is] \in SaneScreens
      /\ [s EXCEPT !.output = is] \in SaneScreens /\ [s EXCEPT !.filter = FALSE] \in SaneScreens
  BY <1>1, <1>2 DEF ScreenType
<1>4. ASSUME s.models # "Empty" PROVE [s EXCEPT !.filter = is] \in SaneScreens
  <2> DEFINE t == [s EXCEPT !.filter = is]
  <2>1. t \in ScreenType /\ t.models = s.models
    BY <1>1 DEF ScreenType
  <2> HIDE DEF t
  <2>2. t \in SaneScreens
    BY <1>2, <1>4, <2>1
  <2> QED
    BY <2>2 DEF t
<1>5. \A to \in K!Panels : [s EXCEPT !.focus = to] \in SaneScreens
  BY <1>1, <1>2 DEF ScreenType
<1>6. \A list \in {"closed", "choose", "edit"} : [s EXCEPT !.list = list] \in SaneScreens
  BY <1>1, <1>2 DEF ScreenType
<1>7. \A rpc \in {"view", "worker", "split"} : [s EXCEPT !.rpc = rpc] \in SaneScreens
  BY <1>1, <1>2 DEF ScreenType
<1>8. \A models \in {"List", "Search", "Files", "BenchTune"} :
         /\ [s EXCEPT !.models = models] \in SaneScreens
         /\ [s EXCEPT !.models = models, !.log = FALSE] \in SaneScreens
  BY <1>1, <1>2 DEF ScreenType
<1>9. K!Searching(s) \in SaneScreens
  <2> DEFINE t == K!Searching(s)
  <2>1. "SearchInput" \in K!Modes /\ "Models" \in K!Panels
    BY DEF K!Modes, K!Pickers, K!Panels
  <2>2. t \in ScreenType /\ t.models = "Search"
    BY <1>1, <2>1 DEF ScreenType, K!Searching
  <2> HIDE DEF t
  <2>3. t \in SaneScreens
    BY <1>2, <2>2
  <2> QED
    BY <2>3 DEF t
<1> QED
  BY <1>3, <1>4, <1>5, <1>6, <1>7, <1>8, <1>9

\* Every key leaves a screen that Esc leads back from.
LEMMA ScreensKeep == screen \in SaneScreens /\ [K!Next]_kVars => screen' \in SaneScreens
<1> SUFFICES ASSUME screen \in SaneScreens, [K!Next]_kVars PROVE screen' \in SaneScreens
  OBVIOUS
<1>1. \A mode \in K!Modes : K!Opened(mode) \in SaneScreens
  BY OpenedIsSane
<1>2. \A mode \in K!Modes : \A to \in K!Panels : [K!Opened(mode) EXCEPT !.focus = to] \in SaneScreens
  BY <1>1, ChangedIsSane, Zenon
<1>3. \A mode \in K!Modes : [K!Opened(mode) EXCEPT !.help = TRUE] \in SaneScreens
  BY <1>1, ChangedIsSane, Zenon
<1>4. {"Normal", "DirectoryPicker", "Confirmation", "DeleteBackend", "ChatTemplateFilePicker",
       "ProfileCreate", "RpcManager"} \cup K!Pickers \cup K!Editors \subseteq K!Modes
  BY DEF K!Modes
<1>5. screen \in ScreenType
  BY DEF SaneScreens, Sane
<1>6. CASE K!Esc
  BY <1>6, EscGoes DEF K!Esc
<1>7. CASE K!GlobalShortcut
  BY <1>1, <1>4, <1>7 DEF K!GlobalShortcut, K!Pickers
<1>8. CASE K!OpenPalette \/ K!SearchAgain
  BY <1>1, <1>4, <1>8 DEF K!OpenPalette, K!SearchAgain, K!Pickers
<1>9. CASE K!Shortcut
  <2>1. CASE \E mode \in {"Confirmation", "CmdLine", "About"} : screen' = K!Opened(mode)
    BY <1>1, <1>4, <2>1, Zenon DEF K!Pickers
  <2>2. CASE screen' = [screen EXCEPT !.help = ~@]
    <3>1. (~screen.help) \in BOOLEAN
      BY <1>5 DEF ScreenType
    <3> QED
      BY <2>2, <3>1, ChangedIsSane, Zenon
  <2>3. CASE screen' = K!Searching(screen)
    BY <2>3, ChangedIsSane, Zenon
  <2> QED
    BY <1>9, <2>1, <2>2, <2>3, Zenon DEF K!Shortcut
<1>10. CASE K!Focus
  BY <1>10, ChangedIsSane, Zenon DEF K!Focus
<1>11. CASE K!OpenTags
  BY <1>11, ChangedIsSane, Zenon DEF K!OpenTags
<1>12. CASE K!FromModels
  BY <1>1, <1>4, <1>12, ChangedIsSane, Zenon DEF K!FromModels, K!Editors
<1>13. CASE K!FromServerSettings
  BY <1>1, <1>4, <1>13 DEF K!FromServerSettings, K!Editors, K!Pickers
<1>14. CASE K!FromLlmSettings
  BY <1>1, <1>4, <1>14, ChangedIsSane, Zenon DEF K!FromLlmSettings, K!Editors, K!Pickers
<1>15. CASE K!FromLog
  BY <1>15, ChangedIsSane, Zenon DEF K!FromLog
<1>16. CASE K!FromSearch
  BY <1>16, ChangedIsSane, Zenon DEF K!FromSearch
<1>17. CASE K!ListEnter \/ K!EditWorker
  BY <1>17, ChangedIsSane, Zenon DEF K!ListEnter, K!EditWorker
<1>18. CASE K!TagsEnter
  BY <1>18, ChangedIsSane, Zenon DEF K!TagsEnter, K!EscTags
<1>19. CASE K!PaletteEnter
  <2>1. \A mode \in {"Normal", "About", "RpcManager", "CmdLine", "DashboardUrl", "ProfilePicker",
                     "Onboarding", "WebSearchPicker", "GgufNaming", "Confirmation"} :
           K!Opened(mode) \in SaneScreens
    BY <1>1, <1>4 DEF K!Pickers, K!Editors
  <2>2. K!Searching(screen) \in SaneScreens
    BY ChangedIsSane, Zenon
  <2>3. "Normal" \in K!Modes
    BY <1>4
  <2> QED
    BY <1>2, <1>3, <1>19, <2>1, <2>2, <2>3, Zenon DEF K!PaletteEnter
<1>20. CASE K!EditField
  BY <1>5, <1>20, ChangedIsSane DEF K!EditField, ScreenType
<1>21. CASE K!Choose \/ K!ConfirmBackend \/ K!DeleteVersion \/ K!TemplateFiles \/ K!SettingsProfiles
  BY <1>1, <1>4, <1>21
     DEF K!Choose, K!ConfirmBackend, K!DeleteVersion, K!TemplateFiles, K!SettingsProfiles, K!Pickers
<1>22. CASE K!BenchTuneSetupEnter
  BY <1>1, <1>4, <1>22 DEF K!BenchTuneSetupEnter
<1>23. CASE K!SweepStarts \/ K!ShowOutput
  BY <1>23, ChangedIsSane, Zenon DEF K!SweepStarts, K!ShowOutput
<1>24. CASE UNCHANGED kVars
  BY <1>24 DEF kVars
<1> QED
  BY <1>6, <1>7, <1>8, <1>9, <1>10, <1>11, <1>12, <1>13, <1>14, <1>15, <1>16, <1>17, <1>18, <1>19,
     <1>20, <1>21, <1>22, <1>23, <1>24 DEF K!Next

-----------------------------------------------------------------------------
(* The streams of the proxy.                                               *)

\* Of some positions up to n one is the last.
LEMMA LastPosition ==
    ASSUME NEW n \in Nat, NEW S, S \subseteq 1..n, S # {}
    PROVE  \E x \in S : \A y \in S : y <= x
<1> DEFINE T == {n - x : x \in S}
<1>0. \A x \in S : x \in 1..n /\ n - x \in Nat
  OBVIOUS
<1>1. T \subseteq Nat /\ T # {}
  BY <1>0
<1>2. PICK d \in T : \A e \in T : ~(<<e, d>> \in OpToRel(<, Nat))
  <2> HIDE DEF T
  <2> QED
    BY <1>1, NatLessThanWellFounded, WFMin
<1>3. \A a, b \in Nat : <<b, a>> \in OpToRel(<, Nat) <=> b < a
  BY DEF OpToRel
<1>4. \A e \in T : e \in Nat /\ d \in Nat /\ ~(e < d)
  BY <1>1, <1>2, <1>3
<1>5. PICK x \in S : d = n - x
  OBVIOUS
<1>6. ASSUME NEW y \in S PROVE y <= x
  <2>1. n - y \in T
    OBVIOUS
  <2>2. ~(n - y < d)
    BY <1>4, <2>1
  <2> QED
    BY <1>5, <2>2
<1> QED
  BY <1>6

\* What a stream is made of.
Bytes == {"token", "other", "nl"}

\* A line ends at k, and none after it: k is 0 when no line has ended.
LastLineAt(k, bytes) ==
    /\ k \in 0 .. Len(bytes) /\ (k = 0 \/ bytes[k] = "nl")
    /\ \A i \in 1 .. Len(bytes) : bytes[i] = "nl" => i <= k

\* What is left in the buffer is what comes after the last line.
LEMMA UnendedIs ==
    ASSUME NEW bytes \in Seq(Bytes)
    PROVE  \E k \in 0 .. Len(bytes) :
              LastLineAt(k, bytes) /\ X!Unended(bytes) = SubSeq(bytes, k + 1, Len(bytes))
<1>1. Len(bytes) \in Nat /\ DOMAIN bytes = 1 .. Len(bytes)
  BY LenProperties
<1> DEFINE E == X!Ends(bytes)
<1>2. E \subseteq 1 .. Len(bytes) /\ \A i \in 1 .. Len(bytes) : i \in E <=> bytes[i] = "nl"
  BY <1>1 DEF X!Ends
<1>3. CASE E = {}
  <2>1. LastLineAt(0, bytes)
    BY <1>1, <1>2, <1>3 DEF LastLineAt
  <2>2. X!Unended(bytes) = bytes
    BY <1>3 DEF X!Unended
  <2>3. SubSeq(bytes, 0 + 1, Len(bytes)) = bytes
    BY SubSeqFull
  <2> QED
    BY <1>1, <2>1, <2>2, <2>3
<1>4. CASE E # {}
  <2> DEFINE k == CHOOSE i \in E : \A j \in E : j <= i
  <2>1. k \in E /\ \A j \in E : j <= k
    <3> HIDE DEF E
    <3>1. \E i \in E : \A j \in E : j <= i
      BY <1>1, <1>2, <1>4, LastPosition
    <3> QED
      BY <3>1
  <2>2. X!Unended(bytes) = SubSeq(bytes, 1 + k, Len(bytes))
    BY <1>4 DEF X!Unended
  <2> HIDE DEF k, E
  <2>3. k \in 1 .. Len(bytes) /\ LastLineAt(k, bytes) /\ 1 + k = k + 1
    BY <1>1, <1>2, <2>1 DEF LastLineAt
  <2> QED
    BY <1>1, <2>2, <2>3
<1> QED
  BY <1>3, <1>4

\* A stream is read up to d and then up to e: the bytes that are looked at are those
\* after the last line that ended.  k is that line's end.
Cut(w, d, e, k) ==
    /\ w \in Seq(Bytes) /\ d \in 0 .. Len(w) /\ e \in d .. Len(w) /\ k \in 0 .. d
    /\ k = 0 \/ w[k] = "nl"
    /\ \A i \in 1 .. d : w[i] = "nl" => i <= k

\* A part of a stream is made of its bytes.
LEMMA PartOf ==
    ASSUME NEW w \in Seq(Bytes), NEW m \in 0 .. Len(w), NEW e \in m .. Len(w)
    PROVE  /\ SubSeq(w, m + 1, e) \in Seq(Bytes) /\ Len(SubSeq(w, m + 1, e)) = e - m
           /\ \A i \in 1 .. e - m : SubSeq(w, m + 1, e)[i] = w[m + i]
<1>1. Len(w) \in Nat /\ m \in Nat /\ e \in Nat /\ m <= e
  BY LenProperties
<1>2. \A i \in m + 1 .. e : w[i] \in Bytes
  BY <1>1, ElementOfSeq
<1>3. /\ SubSeq(w, m + 1, e) \in Seq(Bytes)
      /\ Len(SubSeq(w, m + 1, e)) = IF m + 1 <= e THEN e - (m + 1) + 1 ELSE 0
      /\ \A i \in 1 .. e - (m + 1) + 1 : SubSeq(w, m + 1, e)[i] = w[m + 1 + i - 1]
  BY <1>1, <1>2, SubSeqProperties
<1> QED
  BY <1>1, <1>3

\* So is what was read of it.
LEMMA StartOf ==
    ASSUME NEW w \in Seq(Bytes), NEW e \in 0 .. Len(w)
    PROVE  /\ SubSeq(w, 1, e) \in Seq(Bytes) /\ Len(SubSeq(w, 1, e)) = e
           /\ \A i \in 1 .. e : SubSeq(w, 1, e)[i] = w[i]
<1>1. Len(w) \in Nat /\ e \in Nat
  BY LenProperties
<1>2. /\ SubSeq(w, 0 + 1, e) \in Seq(Bytes) /\ Len(SubSeq(w, 0 + 1, e)) = e - 0
      /\ \A i \in 1 .. e - 0 : SubSeq(w, 0 + 1, e)[i] = w[0 + i]
  BY <1>1, PartOf
<1>3. 0 + 1 = 1 /\ e - 0 = e /\ \A i \in 1 .. e : 0 + i = i
  BY <1>1
<1> QED
  BY <1>2, <1>3

\* The lines that end in a part.
LEMMA TokensOfPart ==
    ASSUME NEW w \in Seq(Bytes), NEW m \in 0 .. Len(w), NEW e \in m .. Len(w)
    PROVE  X!Tokens(SubSeq(w, m + 1, e)) =
              {i \in 1 .. e - m : i > 1 /\ w[m + i] = "nl" /\ w[m + i - 1] = "token"}
<1> DEFINE b == SubSeq(w, m + 1, e)
<1>1. /\ b \in Seq(Bytes) /\ Len(b) = e - m
      /\ \A i \in 1 .. e - m : b[i] = w[m + i]
  BY PartOf
<1>2. Len(w) \in Nat /\ m \in Nat /\ e \in Nat
  BY LenProperties
<1> HIDE DEF b
<1>3. DOMAIN b = 1 .. e - m
  BY <1>1, LenProperties
<1>4. \A i \in 1 .. e - m : i > 1 => i - 1 \in 1 .. e - m /\ m + (i - 1) = m + i - 1
  BY <1>2
<1>5. X!Tokens(b) = {i \in 1 .. e - m : i > 1 /\ b[i] = "nl" /\ b[i - 1] = "token"}
  BY <1>3 DEF X!Tokens, X!Ends
<1>6. X!Tokens(b) = {i \in 1 .. e - m : i > 1 /\ w[m + i] = "nl" /\ w[m + i - 1] = "token"}
  BY <1>1, <1>4, <1>5
<1> QED
  BY <1>6 DEF b

\* The lines that end in what was read.
LEMMA TokensOfStart ==
    ASSUME NEW w \in Seq(Bytes), NEW e \in 0 .. Len(w)
    PROVE  X!Tokens(SubSeq(w, 1, e)) = {i \in 1 .. e : i > 1 /\ w[i] = "nl" /\ w[i - 1] = "token"}
<1> DEFINE b == SubSeq(w, 1, e)
<1>1. b \in Seq(Bytes) /\ Len(b) = e /\ \A i \in 1 .. e : b[i] = w[i]
  BY StartOf
<1>2. e \in Nat
  BY LenProperties
<1> HIDE DEF b
<1>3. DOMAIN b = 1 .. e
  BY <1>1, LenProperties
<1>4. \A i \in 1 .. e : i > 1 => i - 1 \in 1 .. e
  BY <1>2
<1>5. X!Tokens(b) = {i \in 1 .. e : i > 1 /\ b[i] = "nl" /\ b[i - 1] = "token"}
  BY <1>3 DEF X!Tokens, X!Ends
<1>6. X!Tokens(b) = {i \in 1 .. e : i > 1 /\ w[i] = "nl" /\ w[i - 1] = "token"}
  BY <1>1, <1>4, <1>5
<1> QED
  BY <1>6 DEF b

\* What is counted in the bytes after the last line is what was not counted before.
LEMMA TokensAfter ==
    ASSUME NEW w, NEW d, NEW e, NEW k, Cut(w, d, e, k)
    PROVE  /\ X!Tokens(SubSeq(w, 1, e)) =
                  X!Tokens(SubSeq(w, 1, d)) \cup {k + i : i \in X!Tokens(SubSeq(w, k + 1, e))}
           /\ \A i \in X!Tokens(SubSeq(w, 1, d)) : i <= k
           /\ X!Tokens(SubSeq(w, k + 1, e)) \subseteq Nat \ {0}
<1>1. Len(w) \in Nat /\ k \in Nat /\ d \in Nat /\ e \in Nat /\ k <= d /\ d <= e /\ e <= Len(w)
  BY LenProperties DEF Cut
<1>2. X!Tokens(SubSeq(w, 1, d)) = {i \in 1 .. d : i > 1 /\ w[i] = "nl" /\ w[i - 1] = "token"}
  BY <1>1, TokensOfStart DEF Cut
<1>3. X!Tokens(SubSeq(w, 1, e)) = {i \in 1 .. e : i > 1 /\ w[i] = "nl" /\ w[i - 1] = "token"}
  BY <1>1, TokensOfStart DEF Cut
<1>4. X!Tokens(SubSeq(w, k + 1, e)) =
          {i \in 1 .. e - k : i > 1 /\ w[k + i] = "nl" /\ w[k + i - 1] = "token"}
  BY <1>1, TokensOfPart DEF Cut
<1>5. \A i \in X!Tokens(SubSeq(w, 1, d)) : i <= k
  BY <1>2 DEF Cut
<1>6. ASSUME NEW j \in X!Tokens(SubSeq(w, 1, e)), j \notin X!Tokens(SubSeq(w, 1, d))
      PROVE  \E i \in X!Tokens(SubSeq(w, k + 1, e)) : j = k + i
  <2>1. j \in 1 .. e /\ j > 1 /\ w[j] = "nl" /\ w[j - 1] = "token"
    BY <1>3, <1>6
  <2>2. j > d
    BY <1>1, <1>2, <1>6, <2>1
  <2>3. j - 1 # k
    BY <1>1, <2>1, <2>2 DEF Cut
  <2>4. j - k \in 1 .. e - k /\ j - k > 1 /\ k + (j - k) = j /\ k + (j - k) - 1 = j - 1
    BY <1>1, <2>1, <2>2, <2>3
  <2>5. j - k \in X!Tokens(SubSeq(w, k + 1, e))
    BY <1>4, <2>1, <2>4
  <2> QED
    BY <2>4, <2>5
<1>7. ASSUME NEW i \in X!Tokens(SubSeq(w, k + 1, e)) PROVE k + i \in X!Tokens(SubSeq(w, 1, e))
  <2>1. i \in 1 .. e - k /\ i > 1 /\ w[k + i] = "nl" /\ w[k + i - 1] = "token"
    BY <1>4, <1>7
  <2>2. k + i \in 1 .. e /\ k + i > 1 /\ (k + i) - 1 = k + i - 1
    BY <1>1, <2>1
  <2>3. w[k + i] = "nl" /\ w[(k + i) - 1] = "token"
    BY <2>1, <2>2
  <2> DEFINE j == k + i
  <2>4. j \in 1 .. e /\ j > 1 /\ w[j] = "nl" /\ w[j - 1] = "token"
    BY <2>2, <2>3
  <2> HIDE DEF j
  <2>5. j \in X!Tokens(SubSeq(w, 1, e))
    BY <1>3, <2>4
  <2> QED
    BY <2>5 DEF j
<1>8. X!Tokens(SubSeq(w, 1, d)) \subseteq X!Tokens(SubSeq(w, 1, e))
  BY <1>1, <1>2, <1>3
<1>9. X!Tokens(SubSeq(w, k + 1, e)) \subseteq Nat \ {0}
  BY <1>4
<1> QED
  BY <1>5, <1>6, <1>7, <1>8, <1>9

\* What was left in the buffer, with the bytes that come, is what comes after that line.
LEMMA BufferAndChunk ==
    ASSUME NEW w, NEW d, NEW e, NEW k, Cut(w, d, e, k)
    PROVE  SubSeq(SubSeq(w, 1, d), k + 1, d) \o SubSeq(w, d + 1, e) = SubSeq(w, k + 1, e)
<1>1. Len(w) \in Nat /\ k \in Nat /\ d \in Nat /\ e \in Nat /\ k <= d /\ d <= e /\ e <= Len(w)
  BY LenProperties DEF Cut
<1> DEFINE p == SubSeq(w, 1, d)
           rest == SubSeq(p, k + 1, d)
           c == SubSeq(w, d + 1, e)
           b == SubSeq(w, k + 1, e)
<1>2. p \in Seq(Bytes) /\ Len(p) = d /\ \A i \in 1 .. d : p[i] = w[i]
  BY <1>1, StartOf DEF Cut
<1> HIDE DEF p
<1>3. rest \in Seq(Bytes) /\ Len(rest) = d - k /\ \A i \in 1 .. d - k : rest[i] = p[k + i]
  BY <1>1, <1>2, PartOf
<1>4. c \in Seq(Bytes) /\ Len(c) = e - d /\ \A i \in 1 .. e - d : c[i] = w[d + i]
  BY <1>1, PartOf DEF Cut
<1>5. b \in Seq(Bytes) /\ Len(b) = e - k /\ \A i \in 1 .. e - k : b[i] = w[k + i]
  BY <1>1, PartOf DEF Cut
<1> HIDE DEF rest, c, b
<1>6. /\ rest \o c \in Seq(Bytes) /\ Len(rest \o c) = Len(rest) + Len(c)
      /\ \A i \in 1 .. Len(rest) + Len(c) :
            (rest \o c)[i] = IF i <= Len(rest) THEN rest[i] ELSE c[i - Len(rest)]
  BY <1>3, <1>4, ConcatProperties, Zenon
<1>7. Len(rest \o c) = e - k
  BY <1>1, <1>3, <1>4, <1>6
<1>8. ASSUME NEW i \in 1 .. e - k PROVE (rest \o c)[i] = b[i]
  <2>1. i \in 1 .. Len(rest) + Len(c)
    BY <1>1, <1>3, <1>4
  <2>2. CASE i <= d - k
    <3>1. (rest \o c)[i] = p[k + i] /\ k + i \in 1 .. d
      BY <1>1, <1>3, <1>6, <2>1, <2>2
    <3> QED
      BY <1>2, <1>5, <3>1
  <2>3. CASE ~(i <= d - k)
    <3>1. i - (d - k) \in 1 .. e - d /\ d + (i - (d - k)) = k + i
      BY <1>1, <2>3
    <3>2. (rest \o c)[i] = c[i - (d - k)]
      BY <1>3, <1>6, <2>1, <2>3
    <3> QED
      BY <1>4, <1>5, <3>1, <3>2
  <2> QED
    BY <2>2, <2>3
<1>9. rest \o c = b
  BY <1>5, <1>6, <1>7, <1>8, SeqEqual
<1> QED
  BY <1>9 DEF p, rest, c, b

\* What is left after these bytes is what is left of all of them.
LEMMA RestAfter ==
    ASSUME NEW w, NEW d, NEW e, NEW k, Cut(w, d, e, k)
    PROVE  X!Unended(SubSeq(w, k + 1, e)) = X!Unended(SubSeq(w, 1, e))
<1>1. Len(w) \in Nat /\ k \in Nat /\ d \in Nat /\ e \in Nat /\ k <= d /\ d <= e /\ e <= Len(w)
  BY LenProperties DEF Cut
<1> DEFINE b == SubSeq(w, k + 1, e)
           q == SubSeq(w, 1, e)
<1>2. b \in Seq(Bytes) /\ Len(b) = e - k /\ \A i \in 1 .. e - k : b[i] = w[k + i]
  BY <1>1, PartOf DEF Cut
<1>3. q \in Seq(Bytes) /\ Len(q) = e /\ \A i \in 1 .. e : q[i] = w[i]
  BY <1>1, StartOf DEF Cut
<1> HIDE DEF b, q
<1>4. PICK i \in 0 .. Len(b) : LastLineAt(i, b) /\ X!Unended(b) = SubSeq(b, i + 1, Len(b))
  BY <1>2, UnendedIs
<1>5. PICK j \in 0 .. Len(q) : LastLineAt(j, q) /\ X!Unended(q) = SubSeq(q, j + 1, Len(q))
  BY <1>3, UnendedIs
<1>6. /\ j = 0 \/ w[j] = "nl"
      /\ \A n \in 1 .. e : w[n] = "nl" => n <= j
  BY <1>1, <1>3, <1>5 DEF LastLineAt
<1>7. /\ i = 0 \/ w[k + i] = "nl"
      /\ \A n \in 1 .. e - k : w[k + n] = "nl" => n <= i
  <2>1. Len(b) = e - k /\ e - k \in Nat /\ i \in 0 .. e - k
    BY <1>1, <1>2, <1>4
  <2>2. i = 0 \/ (i \in 1 .. e - k /\ b[i] = "nl")
    BY <2>1, <1>4 DEF LastLineAt
  <2>3. \A n \in 1 .. e - k : b[n] = "nl" => n <= i
    BY <2>1, <1>4 DEF LastLineAt
  <2>4. \A n \in 1 .. e - k : b[n] = w[k + n]
    BY <1>2
  <2> QED
    BY <2>2, <2>3, <2>4
<1>8. j = k + i
  <2>1. CASE j > k
    <3>1. j - k \in 1 .. e - k /\ k + (j - k) = j
      BY <1>1, <1>3, <2>1
    <3>2. j - k <= i
      BY <1>1, <1>6, <1>7, <2>1, <3>1
    <3>3. i > 0 /\ k + i \in 1 .. e
      BY <1>1, <1>2, <2>1, <3>1, <3>2
    <3>4. k + i <= j
      BY <1>6, <1>7, <3>3
    <3> QED
      BY <1>1, <3>2, <3>4
  <2>2. CASE ~(j > k)
    <3>1. k # 0 => k <= j
      BY <1>1, <1>6 DEF Cut
    <3>2. j = k
      BY <1>1, <2>2, <3>1
    <3>3. i # 0 => k + i \in 1 .. e /\ k + i <= j
      BY <1>1, <1>2, <1>6, <1>7
    <3> QED
      BY <1>1, <3>2, <3>3
  <2> QED
    BY <2>1, <2>2
<1>9. /\ X!Unended(b) \in Seq(Bytes) /\ Len(X!Unended(b)) = e - j
      /\ \A n \in 1 .. e - j : X!Unended(b)[n] = w[j + n]
  <2>1. /\ SubSeq(b, i + 1, Len(b)) \in Seq(Bytes) /\ Len(SubSeq(b, i + 1, Len(b))) = Len(b) - i
        /\ \A n \in 1 .. Len(b) - i : SubSeq(b, i + 1, Len(b))[n] = b[i + n]
    BY <1>1, <1>2, <1>4, PartOf
  <2>2. Len(b) - i = e - j
    BY <1>1, <1>2, <1>8
  <2>3. \A n \in 1 .. e - j : i + n \in 1 .. e - k /\ k + (i + n) = j + n
    BY <1>1, <1>2, <1>8
  <2> DEFINE rest == SubSeq(b, i + 1, Len(b))
  <2>4. rest = X!Unended(b) /\ rest \in Seq(Bytes) /\ Len(rest) = e - j
    BY <1>4, <2>1, <2>2
  <2>5. \A n \in 1 .. e - j : rest[n] = b[i + n]
    BY <2>1, <2>2
  <2> HIDE DEF rest
  <2>6. \A n \in 1 .. e - j : b[i + n] = w[k + (i + n)]
    BY <1>2, <2>3
  <2>7. \A n \in 1 .. e - j : rest[n] = w[j + n]
    BY <2>3, <2>5, <2>6
  <2> QED
    BY <2>4, <2>7
<1>10. /\ X!Unended(q) \in Seq(Bytes) /\ Len(X!Unended(q)) = e - j
       /\ \A n \in 1 .. e - j : X!Unended(q)[n] = w[j + n]
  <2>1. /\ SubSeq(q, j + 1, Len(q)) \in Seq(Bytes) /\ Len(SubSeq(q, j + 1, Len(q))) = Len(q) - j
        /\ \A n \in 1 .. Len(q) - j : SubSeq(q, j + 1, Len(q))[n] = q[j + n]
    BY <1>1, <1>3, <1>5, PartOf
  <2>2. \A n \in 1 .. e - j : j + n \in 1 .. e
    BY <1>1, <1>3
  <2> QED
    BY <1>3, <1>5, <2>1, <2>2
<1>11. X!Unended(b) = X!Unended(q)
  BY <1>1, <1>9, <1>10, SeqEqual
<1> QED
  BY <1>11 DEF b, q


\* The lines of a stream, of two bytes each, end at its second and its fourth byte.
Shaped(w) == w \in Seq(Bytes) /\ \A i \in 1 .. Len(w) : w[i] = "nl" => i \in {2, 4}

\* So it is with what llama-server answers, and with nothing.
LEMMA StreamShape == \A w \in {<<>>} \cup X!Streams : Shaped(w)
<1>1. \A kind \in {"token", "other"} :
         /\ X!Line(kind) \in Seq(Bytes) /\ Len(X!Line(kind)) = 2
         /\ X!Line(kind)[1] = kind /\ X!Line(kind)[2] = "nl"
  BY DEF X!Line, Bytes
<1>2. \A kind \in {"token", "other"} : Shaped(X!Line(kind))
  <2> SUFFICES ASSUME NEW kind \in {"token", "other"} PROVE Shaped(X!Line(kind))
    OBVIOUS
  <2> DEFINE w == X!Line(kind)
  <2>1. w \in Seq(Bytes) /\ Len(w) = 2 /\ w[1] # "nl"
    BY <1>1
  <2> HIDE DEF w
  <2>2. \A i \in 1 .. Len(w) : i = 1 \/ i = 2
    BY <2>1
  <2>3. Shaped(w)
    BY <2>1, <2>2 DEF Shaped
  <2> QED
    BY <2>3 DEF w
<1>3. ASSUME NEW a \in {"token", "other"}, NEW c \in {"token", "other"}
      PROVE  Shaped(X!Line(a) \o X!Line(c))
  <2> DEFINE u == X!Line(a)
             v == X!Line(c)
             w == u \o v
  <2>1. /\ u \in Seq(Bytes) /\ Len(u) = 2 /\ u[1] # "nl"
        /\ v \in Seq(Bytes) /\ Len(v) = 2 /\ v[1] # "nl"
    BY <1>1
  <2> HIDE DEF u, v
  <2>2. /\ w \in Seq(Bytes) /\ Len(w) = Len(u) + Len(v)
        /\ \A i \in 1 .. Len(u) + Len(v) : w[i] = IF i <= Len(u) THEN u[i] ELSE v[i - Len(u)]
    BY <2>1, ConcatProperties, Zenon
  <2> HIDE DEF w
  <2>3. Len(w) = 4 /\ w[1] = u[1] /\ w[3] = v[1]
    BY <2>1, <2>2
  <2>4. \A i \in 1 .. Len(w) : i \in {1, 2, 3, 4}
    BY <2>3
  <2>5. Shaped(w)
    BY <2>1, <2>2, <2>3, <2>4 DEF Shaped
  <2> QED
    BY <2>5 DEF w, u, v
<1>4. Shaped(<<>>)
  BY EmptySeq DEF Shaped
<1> QED
  BY <1>2, <1>3, <1>4 DEF X!Streams

\* Lines that end at two places at most are counted piece by piece.
LEMMA NumberAdds ==
    ASSUME NEW S, NEW T, NEW k \in Nat, S \subseteq {2, 4}, T \subseteq Nat \ {0},
           \A i \in S : i <= k, {k + i : i \in T} \subseteq {2, 4}
    PROVE  X!Number(S \cup {k + i : i \in T}) = X!Number(S) + X!Number(T)
<1> DEFINE C == {k + i : i \in T}
           U == S \cup C
<1>1. \A i \in T : i \in Nat /\ i > 0 /\ k + i \in {2, 4} /\ k + i \in C
  <2>1. \A i \in T : i \in Nat \ {0}
    OBVIOUS
  <2>2. \A i \in T : k + i \in C
    OBVIOUS
  <2>3. C \subseteq {2, 4}
    OBVIOUS
  <2> HIDE DEF C, U
  <2> QED
    BY <2>1, <2>2, <2>3
<1>2. \A j \in C : \E i \in T : j = k + i
  OBVIOUS
<1> HIDE DEF C, U
<1>3. CASE T = {}
  <2>1. C = {} /\ U = S
    BY <1>2, <1>3 DEF U
  <2>2. X!Number(T) = 0 /\ X!Number(S) \in Nat
    BY <1>3 DEF X!Number
  <2>3. X!Number(U) = X!Number(S) + X!Number(T)
    BY <2>1, <2>2
  <2> QED
    BY <2>3 DEF U, C
<1>4. CASE T # {} /\ S = {}
  <2>1. U = C /\ C # {}
    BY <1>1, <1>4 DEF U
  <2>2. (\E i, j \in T : i # j) <=> (\E i, j \in C : i # j)
    <3>1. ASSUME NEW i \in T, NEW j \in T, i # j PROVE k + i # k + j
      BY <1>1, <3>1
    <3>2. ASSUME NEW i \in C, NEW j \in C, i # j PROVE \E x, y \in T : x # y
      BY <1>2, <3>2
    <3> QED
      BY <1>1, <3>1, <3>2
  <2>3. X!Number(S) = 0 /\ X!Number(T) \in Nat /\ X!Number(C) = X!Number(T)
    BY <1>4, <2>1, <2>2 DEF X!Number
  <2>4. X!Number(U) = X!Number(S) + X!Number(T)
    BY <2>1, <2>3
  <2> QED
    BY <2>4 DEF U, C
<1>5. CASE T # {} /\ S # {}
  <2>1. \A a \in S, i \in T : a = 2 /\ k + i = 4
    BY <1>1
  <2>2. X!Number(S) = 1
    BY <1>5, <2>1 DEF X!Number
  <2>3. \A i, j \in T : i = j
    <3>1. \A i \in T : k + i = 4 /\ i \in Nat
      BY <1>1, <1>5, <2>1
    <3>2. \A i \in T : i = 4 - k
      BY <3>1
    <3> QED
      BY <3>2
  <2>4. X!Number(T) = 1
    BY <1>5, <2>3 DEF X!Number
  <2>5. 2 \in U /\ 4 \in U
    BY <1>1, <1>5, <2>1 DEF U
  <2>6. X!Number(U) = 2
    BY <2>5 DEF X!Number
  <2>7. X!Number(U) = X!Number(S) + X!Number(T)
    BY <2>2, <2>4, <2>6
  <2> QED
    BY <2>7 DEF U, C
<1> QED
  BY <1>3, <1>4, <1>5

\* A chunk, wherever it is cut, adds the lines that it completes, and leaves in the
\* buffer what would be left had all come at once.
LEMMA ChunkCounts ==
    ASSUME NEW w, Shaped(w), NEW d \in 0 .. Len(w), NEW e \in d .. Len(w)
    PROVE  LET bytes == X!Unended(SubSeq(w, 1, d)) \o SubSeq(w, d + 1, e)
           IN /\ X!Unended(bytes) = X!Unended(SubSeq(w, 1, e))
              /\ X!Number(X!Tokens(SubSeq(w, 1, e))) =
                    X!Number(X!Tokens(SubSeq(w, 1, d))) + X!Number(X!Tokens(bytes))
<1>1. w \in Seq(Bytes) /\ Len(w) \in Nat /\ d \in Nat /\ e \in Nat /\ d <= e /\ e <= Len(w)
  BY LenProperties DEF Shaped
<1> DEFINE p == SubSeq(w, 1, d)
           q == SubSeq(w, 1, e)
           b == X!Unended(p) \o SubSeq(w, d + 1, e)
<1>2. p \in Seq(Bytes) /\ Len(p) = d /\ \A i \in 1 .. d : p[i] = w[i]
  BY <1>1, StartOf
<1>3. PICK k \in 0 .. Len(p) : LastLineAt(k, p) /\ X!Unended(p) = SubSeq(p, k + 1, Len(p))
  <2> HIDE DEF p
  <2> QED
    BY <1>2, UnendedIs
<1>4. k \in 0 .. d
  BY <1>2, <1>3
<1>5. Cut(w, d, e, k)
  <2> HIDE DEF p
  <2>1. k = 0 \/ (k \in 1 .. d /\ p[k] = "nl")
    BY <1>1, <1>3, <1>4 DEF LastLineAt
  <2>2. \A i \in 1 .. d : p[i] = "nl" => i <= k
    BY <1>2, <1>3 DEF LastLineAt
  <2> QED
    BY <1>1, <1>2, <1>4, <2>1, <2>2 DEF Cut
<1>6. b = SubSeq(w, k + 1, e)
  <2>1. X!Unended(p) = SubSeq(p, k + 1, d)
    BY <1>2, <1>3
  <2>2. SubSeq(p, k + 1, d) \o SubSeq(w, d + 1, e) = SubSeq(w, k + 1, e)
    BY <1>5, BufferAndChunk
  <2> HIDE DEF p
  <2> QED
    BY <2>1, <2>2
<1>7. X!Unended(b) = X!Unended(q)
  BY <1>5, <1>6, RestAfter
<1>8. /\ X!Tokens(q) = X!Tokens(p) \cup {k + i : i \in X!Tokens(b)}
      /\ \A i \in X!Tokens(p) : i <= k
      /\ X!Tokens(b) \subseteq Nat \ {0}
  <2> DEFINE c == SubSeq(w, k + 1, e)
  <2>1. /\ X!Tokens(q) = X!Tokens(p) \cup {k + i : i \in X!Tokens(c)}
        /\ \A i \in X!Tokens(p) : i <= k
        /\ X!Tokens(c) \subseteq Nat \ {0}
    BY <1>5, TokensAfter
  <2>2. b = c
    BY <1>6
  <2> HIDE DEF p, q, b, c
  <2> QED
    BY <2>1, <2>2
<1>9. X!Tokens(q) \subseteq {2, 4}
  <2>1. X!Tokens(q) = {i \in 1 .. e : i > 1 /\ w[i] = "nl" /\ w[i - 1] = "token"}
    BY <1>1, TokensOfStart
  <2> HIDE DEF q
  <2> QED
    BY <1>1, <2>1 DEF Shaped
<1>10. X!Number(X!Tokens(q)) = X!Number(X!Tokens(p)) + X!Number(X!Tokens(b))
  <2> HIDE DEF p, q, b
  <2>1. X!Tokens(p) \subseteq X!Tokens(q) /\ {k + i : i \in X!Tokens(b)} \subseteq X!Tokens(q)
    BY <1>8
  <2>2. X!Tokens(p) \subseteq {2, 4} /\ {k + i : i \in X!Tokens(b)} \subseteq {2, 4}
    BY <1>9, <2>1, Zenon
  <2>3. k \in Nat
    BY <1>1, <1>4
  <2> QED
    BY <1>8, <2>2, <2>3, NumberAdds
<1> QED
  BY <1>7, <1>10

\* What has come of a stream.
Came(r) == SubSeq(whole[r], 1, X!Delivered(r))

\* What is kept of a request.
RequestType == [phase : X!Phases, search : BOOLEAN, fetch : BOOLEAN,
                left : Nat, buffer : Seq(Bytes), counted : Nat]

\* A request reads a stream only while it streams, and its buffer and its count are those
\* of what has come.
RequestsInv ==
    /\ request \in [Requests -> RequestType]
    /\ whole \in [Requests -> {<<>>} \cup X!Streams]
    /\ \A r \in Requests :
          /\ request[r].left <= Len(whole[r])
          /\ request[r].phase # "stream" => whole[r] = <<>>
          /\ request[r].buffer = X!Unended(Came(r))
          /\ request[r].counted = X!Number(X!Tokens(Came(r)))

\* Samples were taken by now, of tokens that were counted.
Sample == [at : 0 .. now, n : 0 .. tracker.count]

\* The last sample is of the last token that was counted.
TrackerInv ==
    /\ now \in Nat
    /\ tracker \in [samples : Seq(Sample), count : Nat, rate : {<<>>} \cup (Nat \X Nat)]
    /\ tracker.samples # <<>> => tracker.samples[Len(tracker.samples)].n = tracker.count
    /\ tracker.rate # <<>> => tracker.rate[2] >= MinSpan /\ tracker.rate[1] <= tracker.count

\* The invariant of the proxy.
ProxyInv == RequestsInv /\ TrackerInv

\* Of nothing, nothing is left and nothing is counted.
LEMMA NothingCame ==
    X!Unended(SubSeq(<<>>, 1, 0)) = <<>> /\ X!Number(X!Tokens(SubSeq(<<>>, 1, 0))) = 0
<1>1. SubSeq(<<>>, 1, 0) = <<>>
  BY SubSeqFull, EmptySeq
<1>2. X!Ends(<<>>) = {}
  BY DEF X!Ends
<1> QED
  BY <1>1, <1>2 DEF X!Unended, X!Number, X!Tokens

\* Nothing was asked at first.
LEMMA ProxyStart == X!Init => ProxyInv
<1> SUFFICES ASSUME X!Init PROVE ProxyInv
  OBVIOUS
<1>1. \A r \in Requests : request[r] = X!Fresh /\ whole[r] = <<>>
  BY DEF X!Init
<1>2. X!Fresh.left = 0 /\ X!Fresh.buffer = <<>> /\ X!Fresh.counted = 0 /\ X!Fresh.phase = "idle"
  BY DEF X!Fresh
<1>3. X!Unended(SubSeq(<<>>, 1, 0)) = <<>> /\ X!Number(X!Tokens(SubSeq(<<>>, 1, 0))) = 0
  BY NothingCame
<1>4. \A r \in Requests : Came(r) = SubSeq(<<>>, 1, 0)
  BY <1>1, <1>2, EmptySeq DEF Came, X!Delivered
<1>5. \A r \in Requests :
          /\ request[r].left <= Len(whole[r])
          /\ request[r].phase # "stream" => whole[r] = <<>>
          /\ request[r].buffer = X!Unended(Came(r))
          /\ request[r].counted = X!Number(X!Tokens(Came(r)))
  <2> SUFFICES ASSUME NEW r \in Requests
               PROVE  /\ request[r].left <= Len(whole[r])
                      /\ request[r].phase # "stream" => whole[r] = <<>>
                      /\ request[r].buffer = X!Unended(Came(r))
                      /\ request[r].counted = X!Number(X!Tokens(Came(r)))
    OBVIOUS
  <2>1. request[r].left = 0 /\ request[r].buffer = <<>> /\ request[r].counted = 0
    BY <1>1, <1>2
  <2>2. whole[r] = <<>> /\ Len(whole[r]) = 0
    BY <1>1, EmptySeq
  <2>3. X!Unended(Came(r)) = <<>> /\ X!Number(X!Tokens(Came(r))) = 0
    BY <1>3, <1>4, Zenon
  <2> QED
    BY <2>1, <2>2, <2>3
<1>6. X!Fresh \in RequestType
  BY EmptySeq DEF RequestType, X!Fresh, X!Phases
<1>7. RequestsInv
  BY <1>5, <1>6 DEF RequestsInv, X!Init
<1>8. TrackerInv
  BY EmptySeq DEF TrackerInv, X!Init, X!NewTracker, Sample
<1> QED
  BY <1>7, <1>8 DEF ProxyInv

\* More time and more tokens leave the samples what they are.
LEMMA SamplesStay ==
    ASSUME TrackerInv, now' \in Nat, tracker'.count \in Nat, now <= now', tracker.count <= tracker'.count
    PROVE  tracker.samples \in Seq(Sample')
<1>1. now \in Nat /\ tracker.count \in Nat /\ tracker.samples \in Seq(Sample)
  BY DEF TrackerInv
<1>2. Sample \subseteq Sample'
  BY <1>1 DEF Sample
<1> QED
  BY <1>1, <1>2, ElementOfSeq, SeqDef

\* The window leaves the last of the samples, and no other than there were.
LEMMA WindowIsOfThem ==
    ASSUME NEW S, NEW s \in Seq(S), s # <<>>
    PROVE  /\ X!InWindow(s) \in Seq(S) /\ X!InWindow(s) # <<>>
           /\ X!InWindow(s)[Len(X!InWindow(s))] = s[Len(s)]
<1> DEFINE Suffix(t, m) ==
              /\ SubSeq(t, m, Len(t)) \in Seq(S) /\ SubSeq(t, m, Len(t)) # <<>>
              /\ SubSeq(t, m, Len(t))[Len(SubSeq(t, m, Len(t)))] = t[Len(t)]
<1>1. ASSUME NEW t \in Seq(S), NEW m \in 1 .. Len(t) PROVE Suffix(t, m)
  <2>1. Len(t) \in Nat /\ m \in Nat /\ m >= 1 /\ m <= Len(t)
    BY LenProperties
  <2>2. \A i \in m .. Len(t) : t[i] \in S
    BY <2>1, ElementOfSeq
  <2> DEFINE b == SubSeq(t, m, Len(t))
  <2>3. /\ b \in Seq(S) /\ Len(b) = IF m <= Len(t) THEN Len(t) - m + 1 ELSE 0
        /\ \A i \in 1 .. Len(t) - m + 1 : b[i] = t[m + i - 1]
    BY <2>1, <2>2, SubSeqProperties
  <2> HIDE DEF b
  <2>4. Len(b) = Len(t) - m + 1 /\ Len(b) >= 1 /\ Len(b) \in 1 .. Len(t) - m + 1
    BY <2>1, <2>3
  <2>5. b[Len(b)] = t[m + Len(b) - 1] /\ m + Len(b) - 1 = Len(t)
    BY <2>1, <2>3, <2>4
  <2>6. b # <<>>
    BY <2>4, EmptySeq
  <2> QED
    BY <2>3, <2>5, <2>6 DEF b
<1> HIDE DEF Suffix
<1>2. Len(s) \in Nat /\ Len(s) >= 1
  BY EmptySeq, LenProperties
<1> DEFINE gone == {i \in 1 .. Len(s) - 1 : \A j \in 1 .. i : now - s[j].at > Window}
           from == 1 + IF gone = {} THEN 0 ELSE CHOOSE i \in gone : \A j \in gone : j <= i
           recent == SubSeq(s, from, Len(s))
<1>3. from \in 1 .. Len(s)
  <2>1. CASE gone = {}
    BY <1>2, <2>1
  <2>2. CASE gone # {}
    <3>1. gone \subseteq 1 .. Len(s) - 1 /\ Len(s) - 1 \in Nat
      BY <1>2
    <3> DEFINE last == CHOOSE i \in gone : \A j \in gone : j <= i
    <3> HIDE DEF gone
    <3>2. last \in gone
      <4>1. \E i \in gone : \A j \in gone : j <= i
        BY <2>2, <3>1, LastPosition
      <4> QED
        BY <4>1
    <3>3. from = 1 + last
      BY <2>2
    <3> HIDE DEF last, from
    <3> QED
      BY <1>2, <3>1, <3>2, <3>3
  <2> QED
    BY <2>1, <2>2
<1>4. X!InWindow(s) = IF Len(recent) <= MaxSamples THEN recent
                      ELSE SubSeq(recent, Len(recent) - Kept + 1, Len(recent))
  BY DEF X!InWindow
<1> HIDE DEF gone, from
<1>5. Suffix(s, from)
  BY <1>1, <1>3
<1>6. recent \in Seq(S) /\ recent # <<>> /\ recent[Len(recent)] = s[Len(s)]
  BY <1>5 DEF Suffix
<1> HIDE DEF recent
<1>7. CASE Len(recent) <= MaxSamples
  BY <1>4, <1>6, <1>7
<1>8. CASE ~(Len(recent) <= MaxSamples)
  <2>1. Len(recent) \in Nat /\ Kept \in Nat /\ 1 <= Kept /\ Kept <= MaxSamples /\ MaxSamples \in Nat
    BY <1>6, LenProperties, SamplesAssumption
  <2>2. Len(recent) - Kept + 1 \in 1 .. Len(recent)
    BY <1>8, <2>1
  <2>3. Suffix(recent, Len(recent) - Kept + 1)
    BY <1>1, <1>6, <2>2
  <2> QED
    BY <1>4, <1>6, <1>8, <2>3 DEF Suffix
<1> QED
  BY <1>7, <1>8

\* A request may be replaced, and its stream with it, by what agrees with itself.
LEMMA ReplacedIsCounted ==
    ASSUME RequestsInv, NEW r \in Requests, NEW new, NEW stream \in {<<>>} \cup X!Streams,
           new \in RequestType,
           X!Becomes(r, new), whole' = [whole EXCEPT ![r] = stream],
           new.left <= Len(stream), new.phase # "stream" => stream = <<>>,
           new.buffer = X!Unended(SubSeq(stream, 1, Len(stream) - new.left)),
           new.counted = X!Number(X!Tokens(SubSeq(stream, 1, Len(stream) - new.left)))
    PROVE  RequestsInv'
<1>1. /\ request \in [Requests -> RequestType]
      /\ whole \in [Requests -> {<<>>} \cup X!Streams]
  BY DEF RequestsInv
<1>2. /\ request' = [request EXCEPT ![r] = new]
      /\ whole' = [whole EXCEPT ![r] = stream]
  BY DEF X!Becomes
<1>3. /\ request'[r] = new /\ whole'[r] = stream
      /\ \A q \in Requests : q # r => request'[q] = request[q] /\ whole'[q] = whole[q]
  BY <1>1, <1>2
<1>4. /\ request' \in [Requests -> RequestType]
      /\ whole' \in [Requests -> {<<>>} \cup X!Streams]
  BY <1>1, <1>2
<1>5. ASSUME NEW q \in Requests
      PROVE  /\ request'[q].left <= Len(whole'[q])
             /\ request'[q].phase # "stream" => whole'[q] = <<>>
             /\ request'[q].buffer = X!Unended(Came(q)')
             /\ request'[q].counted = X!Number(X!Tokens(Came(q)'))
  <2>1. CASE q = r
    <3>1. Came(r)' = SubSeq(stream, 1, Len(stream) - new.left)
      BY <1>3 DEF Came, X!Delivered
    <3> QED
      BY <1>3, <2>1, <3>1
  <2>2. CASE q # r
    <3>1. request'[q] = request[q] /\ whole'[q] = whole[q]
      BY <1>3, <2>2
    <3>2. Came(q)' = Came(q)
      BY <3>1 DEF Came, X!Delivered
    <3> QED
      BY <3>1, <3>2 DEF RequestsInv
  <2> QED
    BY <2>1, <2>2
<1> QED
  BY <1>4, <1>5 DEF RequestsInv

\* What is awaited for a request changes nothing that it reads or counts.
LEMMA RequestGoesOn ==
    ASSUME RequestsInv, NEW r \in Requests,
           NEW ph \in X!Phases, NEW se \in BOOLEAN, NEW fe \in BOOLEAN,
           ph # "stream" => request[r].phase # "stream",
           X!Becomes(r, [request[r] EXCEPT !.phase = ph, !.search = se, !.fetch = fe]),
           whole' = whole
    PROVE  RequestsInv'
<1>1. request[r] \in RequestType
      /\ whole \in [Requests -> {<<>>} \cup X!Streams]
  BY DEF RequestsInv
<1>2. whole' = [whole EXCEPT ![r] = whole[r]] /\ whole[r] \in {<<>>} \cup X!Streams
  BY <1>1
<1>3. /\ request[r].left <= Len(whole[r]) /\ (request[r].phase # "stream" => whole[r] = <<>>)
      /\ request[r].buffer = X!Unended(SubSeq(whole[r], 1, Len(whole[r]) - request[r].left))
      /\ request[r].counted = X!Number(X!Tokens(SubSeq(whole[r], 1, Len(whole[r]) - request[r].left)))
  BY DEF RequestsInv, Came, X!Delivered
<1> DEFINE new == [request[r] EXCEPT !.phase = ph, !.search = se, !.fetch = fe]
<1>4. /\ new \in RequestType
      /\ new.left = request[r].left /\ new.buffer = request[r].buffer
      /\ new.counted = request[r].counted /\ new.phase = ph
  BY <1>1 DEF RequestType
<1>5. X!Becomes(r, new)
  OBVIOUS
<1> HIDE DEF new
<1> QED
  BY <1>2, <1>3, <1>4, <1>5, ReplacedIsCounted

\* The tracker may be left alone, and may begin anew.
LEMMA TrackerStays ==
    ASSUME TrackerInv, now' = now, tracker' = tracker \/ tracker' = X!Reset
    PROVE  TrackerInv'
<1>1. CASE tracker' = tracker
  BY <1>1 DEF TrackerInv, Sample
<1>2. CASE tracker' = X!Reset
  <2>1. tracker'.samples = <<>> /\ tracker'.count = 0 /\ tracker'.rate = <<>>
    BY <1>2 DEF X!Reset, X!NewTracker
  <2>2. tracker' \in [samples : Seq(Sample'), count : Nat, rate : {<<>>} \cup (Nat \X Nat)]
    BY <1>2, EmptySeq DEF X!Reset, X!NewTracker
  <2>3. now' \in Nat
    BY DEF TrackerInv
  <2> QED
    BY <2>1, <2>2, <2>3 DEF TrackerInv
<1> QED
  BY <1>1, <1>2

\* Before the stream.
LEMMA GatheringKeeps ==
    ASSUME ProxyInv, NEW r \in Requests,
           \/ X!Complete(r) \/ X!Refuse(r) \/ X!PassOn(r) \/ X!TaskEnds(r)
           \/ X!WaitSearch(r) \/ X!WaitFetch(r)
    PROVE  ProxyInv'
<1>1. TrackerInv'
  BY TrackerStays DEF ProxyInv, X!Complete, X!Refuse, X!PassOn, X!TaskEnds, X!WaitSearch,
     X!WaitFetch
<1>2. whole' = whole
  BY DEF X!Complete, X!Refuse, X!PassOn, X!TaskEnds, X!WaitSearch, X!WaitFetch
<1>3. RequestsInv /\ request[r] \in RequestType
  BY DEF ProxyInv, RequestsInv
<1>4. \E ph \in X!Phases, se \in BOOLEAN, fe \in BOOLEAN :
         /\ ph # "stream" => request[r].phase # "stream"
         /\ X!Becomes(r, [request[r] EXCEPT !.phase = ph, !.search = se, !.fetch = fe])
  <2> DEFINE New(ph, se, fe) == [request[r] EXCEPT !.phase = ph, !.search = se, !.fetch = fe]
             Goes(ph, se, fe) ==
                /\ ph \in X!Phases /\ se \in BOOLEAN /\ fe \in BOOLEAN
                /\ ph # "stream" => request[r].phase # "stream"
                /\ X!Becomes(r, New(ph, se, fe))
             phase == request[r].phase
             search == request[r].search
             fetch == request[r].fetch
  <2>1. phase \in X!Phases /\ search \in BOOLEAN /\ fetch \in BOOLEAN
    BY <1>3 DEF RequestType
  <2>2. /\ \A ph : New(ph, search, fetch) = [request[r] EXCEPT !.phase = ph]
        /\ \A ph : New(ph, FALSE, fetch) = [request[r] EXCEPT !.phase = ph, !.search = FALSE]
        /\ \A ph : New(ph, search, FALSE) = [request[r] EXCEPT !.phase = ph, !.fetch = FALSE]
        /\ New(phase, FALSE, fetch) = [request[r] EXCEPT !.search = FALSE]
        /\ New(phase, search, FALSE) = [request[r] EXCEPT !.fetch = FALSE]
    BY <1>3 DEF RequestType
  <2>3. "gather search" \in X!Phases /\ "gather fetch" \in X!Phases /\ "sent" \in X!Phases
        /\ "done" \in X!Phases
    BY DEF X!Phases
  <2> HIDE DEF New
  <2>4. \/ \E call \in X!Calls : Goes("gather search", call.search, call.fetch)
        \/ Goes("done", search, fetch)
        \/ Goes(phase, FALSE, fetch) \/ Goes(phase, search, FALSE)
        \/ Goes("gather fetch", FALSE, fetch) \/ Goes("sent", search, FALSE)
    <3>1. CASE X!Complete(r)
      <4>1. phase = "idle" /\ \E call \in X!Calls :
               X!Becomes(r, New("gather search", call.search, call.fetch))
        BY <3>1 DEF X!Complete, New
      <4> QED
        BY <2>3, <4>1 DEF X!Calls
    <3>2. CASE X!Refuse(r) \/ X!PassOn(r)
      BY <2>1, <2>2, <2>3, <3>2 DEF X!Refuse, X!PassOn
    <3>3. CASE X!TaskEnds(r)
      BY <2>1, <2>2, <3>3 DEF X!TaskEnds
    <3>4. CASE X!WaitSearch(r)
      BY <2>1, <2>2, <2>3, <3>4 DEF X!WaitSearch
    <3>5. CASE X!WaitFetch(r)
      BY <2>1, <2>2, <2>3, <3>5 DEF X!WaitFetch
    <3> QED
      BY <3>1, <3>2, <3>3, <3>4, <3>5
  <2> QED
    BY <2>4 DEF New
<1>5. RequestsInv'
  BY <1>2, <1>3, <1>4, RequestGoesOn
<1> QED
  BY <1>1, <1>5 DEF ProxyInv

\* llama-server answers: nothing of the stream has come.
LEMMA AnsweredKeeps == ASSUME ProxyInv, NEW r \in Requests, X!Answered(r) PROVE ProxyInv'
<1>1. TrackerInv'
  BY TrackerStays DEF ProxyInv, X!Answered
<1>2. /\ RequestsInv
      /\ request[r] \in RequestType
      /\ request[r].phase = "sent"
  BY DEF ProxyInv, RequestsInv, X!Answered
<1>3. CASE X!Becomes(r, [request[r] EXCEPT !.phase = "done"]) /\ UNCHANGED whole
  <2> DEFINE se == request[r].search
             fe == request[r].fetch
  <2>1. /\ [request[r] EXCEPT !.phase = "done"]
             = [request[r] EXCEPT !.phase = "done", !.search = se, !.fetch = fe]
        /\ se \in BOOLEAN /\ fe \in BOOLEAN /\ "done" \in X!Phases
    BY <1>2 DEF RequestType, X!Phases
  <2>2. X!Becomes(r, [request[r] EXCEPT !.phase = "done", !.search = se, !.fetch = fe])
    BY <1>3, <2>1
  <2> HIDE DEF se, fe
  <2>3. RequestsInv'
    BY <1>2, <1>3, <2>1, <2>2, RequestGoesOn
  <2> QED
    BY <1>1, <2>3 DEF ProxyInv
<1>4. ASSUME NEW stream \in X!Streams,
             X!Becomes(r, [request[r] EXCEPT !.phase = "stream", !.left = Len(stream)]),
             whole' = [whole EXCEPT ![r] = stream]
      PROVE  ProxyInv'
  <2>1. whole[r] = <<>> /\ request[r].left = 0
    BY <1>2, EmptySeq DEF RequestType, RequestsInv
  <2>2. Came(r) = SubSeq(<<>>, 1, 0)
    BY <2>1, EmptySeq DEF Came, X!Delivered
  <2>3. request[r].buffer = <<>> /\ request[r].counted = 0
    BY <2>2, NothingCame DEF ProxyInv, RequestsInv
  <2>4. stream \in Seq(Bytes) /\ Len(stream) \in Nat
    BY StreamShape, LenProperties DEF Shaped
  <2> DEFINE new == [request[r] EXCEPT !.phase = "stream", !.left = Len(stream)]
  <2>5. /\ new \in RequestType
        /\ new.left = Len(stream) /\ new.phase = "stream" /\ new.buffer = <<>> /\ new.counted = 0
        /\ X!Becomes(r, new)
    BY <1>2, <1>4, <2>3, <2>4 DEF RequestType, X!Phases
  <2> HIDE DEF new
  <2>6. SubSeq(stream, 1, Len(stream) - new.left) = <<>>
    <3>1. Len(stream) - new.left = 0
      BY <2>4, <2>5
    <3>2. Len(SubSeq(stream, 1, 0)) = 0 /\ SubSeq(stream, 1, 0) \in Seq(Bytes)
      BY <2>4, StartOf
    <3> QED
      BY <3>1, <3>2, EmptySeq
  <2>7. SubSeq(<<>>, 1, 0) = <<>>
    BY SubSeqFull, EmptySeq
  <2>8. /\ new.buffer = X!Unended(SubSeq(stream, 1, Len(stream) - new.left))
        /\ new.counted = X!Number(X!Tokens(SubSeq(stream, 1, Len(stream) - new.left)))
    BY <2>5, <2>6, <2>7, NothingCame
  <2>9. /\ new.left <= Len(stream) /\ (new.phase # "stream" => stream = <<>>)
        /\ stream \in {<<>>} \cup X!Streams
    BY <2>4, <2>5
  <2>10. RequestsInv'
    BY <1>2, <1>4, <2>5, <2>8, <2>9, ReplacedIsCounted
  <2> QED
    BY <1>1, <2>10 DEF ProxyInv
<1> QED
  BY <1>3, <1>4 DEF X!Answered

\* A stream ends, and what was read of it goes.
LEMMA StreamEndsKeeps == ASSUME ProxyInv, NEW r \in Requests, X!StreamEnds(r) PROVE ProxyInv'
<1>1. TrackerInv'
  BY TrackerStays DEF ProxyInv, X!StreamEnds
<1> DEFINE new == [X!Fresh EXCEPT !.phase = "done"]
<1>2. /\ new \in RequestType
      /\ new.left = 0 /\ new.phase = "done" /\ new.buffer = <<>> /\ new.counted = 0
  BY EmptySeq DEF RequestType, X!Fresh, X!Phases
<1>3. X!Becomes(r, new) /\ whole' = [whole EXCEPT ![r] = <<>>] /\ RequestsInv
  BY DEF X!StreamEnds, ProxyInv
<1> HIDE DEF new
<1>4. Len(<<>>) - new.left = 0 /\ new.left <= Len(<<>>)
  BY <1>2, EmptySeq
<1>5. /\ new.buffer = X!Unended(SubSeq(<<>>, 1, Len(<<>>) - new.left))
      /\ new.counted = X!Number(X!Tokens(SubSeq(<<>>, 1, Len(<<>>) - new.left)))
  BY <1>2, <1>4, NothingCame
<1>6. RequestsInv'
  BY <1>2, <1>3, <1>4, <1>5, ReplacedIsCounted
<1> QED
  BY <1>1, <1>6 DEF ProxyInv

\* The clock.
LEMMA TickKeeps == ProxyInv /\ X!Tick => ProxyInv'
<1> SUFFICES ASSUME ProxyInv, X!Tick PROVE ProxyInv'
  OBVIOUS
<1>1. request' = request /\ whole' = whole /\ tracker' = tracker /\ now' = now + 1
  BY DEF X!Tick
<1>2. RequestsInv'
  BY <1>1 DEF ProxyInv, RequestsInv, Came, X!Delivered
<1>3. /\ now \in Nat /\ tracker.count \in Nat
      /\ tracker \in [samples : Seq(Sample), count : Nat, rate : {<<>>} \cup (Nat \X Nat)]
  BY DEF ProxyInv, TrackerInv
<1>4. tracker.samples \in Seq(Sample')
  BY <1>1, <1>3, SamplesStay DEF ProxyInv
<1>5. tracker \in [samples : Seq(Sample'), count : Nat, rate : {<<>>} \cup (Nat \X Nat)]
  BY <1>3, <1>4

<1>6. TrackerInv'
  BY <1>1, <1>3, <1>5 DEF ProxyInv, TrackerInv
<1> QED
  BY <1>2, <1>6 DEF ProxyInv

\* A poll leaves the last sample, and a rate of what came since the first it leaves.
LEMMA PollKeeps == ProxyInv /\ X!Poll => ProxyInv'
<1> SUFFICES ASSUME ProxyInv, X!Poll PROVE ProxyInv'
  OBVIOUS
<1>1. request' = request /\ whole' = whole /\ now' = now
  BY DEF X!Poll
<1>2. RequestsInv'
  BY <1>1 DEF ProxyInv, RequestsInv, Came, X!Delivered
<1>3. /\ now \in Nat /\ tracker.count \in Nat /\ tracker.samples \in Seq(Sample)
      /\ tracker \in [samples : Seq(Sample), count : Nat, rate : {<<>>} \cup (Nat \X Nat)]
      /\ tracker.samples[Len(tracker.samples)].n = tracker.count /\ tracker.samples # <<>>
      /\ tracker.rate # <<>> => tracker.rate[2] >= MinSpan /\ tracker.rate[1] <= tracker.count
  BY DEF ProxyInv, TrackerInv, X!Poll, X!IsActive
<1> DEFINE samples == X!InWindow(tracker.samples)
           span == now - Head(samples).at
           tokens == tracker.count - Head(samples).n
           rate == IF span < MinSpan \/ tokens = 0 THEN tracker.rate ELSE <<tokens, span>>
<1>4. tracker' = [tracker EXCEPT !.samples = samples,
                                !.rate = IF span < MinSpan \/ tokens = 0 THEN @
                                         ELSE <<tokens, span>>]
  BY DEF X!Poll
<1>5. samples \in Seq(Sample) /\ samples # <<>> /\ samples[Len(samples)].n = tracker.count
  BY <1>3, WindowIsOfThem
<1> HIDE DEF samples
<1>6. Head(samples) \in Sample
  <2>1. Len(samples) \in Nat /\ Len(samples) >= 1
    BY <1>5, EmptySeq, LenProperties
  <2> QED
    BY <1>5, <2>1, ElementOfSeq, HeadTailProperties
<1>7. span \in Nat /\ tokens \in Nat /\ tokens <= tracker.count
  <2> DEFINE h == Head(samples)
  <2>1. h.at \in 0 .. now /\ h.n \in 0 .. tracker.count
    BY <1>6 DEF Sample
  <2> HIDE DEF h
  <2>2. now - h.at \in Nat /\ tracker.count - h.n \in Nat /\ tracker.count - h.n <= tracker.count
    BY <1>3, <2>1
  <2> QED
    BY <2>2 DEF h
<1> HIDE DEF span, tokens
<1>8. /\ rate \in {<<>>} \cup (Nat \X Nat)
      /\ rate # <<>> => rate[2] >= MinSpan /\ rate[1] <= tracker.count
  <2>1. CASE span < MinSpan \/ tokens = 0
    BY <1>3, <2>1
  <2>2. CASE ~(span < MinSpan \/ tokens = 0)
    BY <1>7, <2>2, SamplesAssumption
  <2> QED
    BY <2>1, <2>2
<1>9. tracker' = [tracker EXCEPT !.samples = samples, !.rate = rate]
  BY <1>4
<1> HIDE DEF rate
<1>10. /\ tracker' \in [samples : Seq(Sample), count : Nat, rate : {<<>>} \cup (Nat \X Nat)]
       /\ tracker'.samples = samples /\ tracker'.rate = rate /\ tracker'.count = tracker.count
  BY <1>3, <1>5, <1>8, <1>9
<1>11. Sample' = Sample
  BY <1>1, <1>10 DEF Sample
<1>12. TrackerInv'
  BY <1>1, <1>3, <1>5, <1>8, <1>10, <1>11 DEF TrackerInv
<1> QED
  BY <1>2, <1>12 DEF ProxyInv

\* The samples of new tokens follow those of the old ones.
LEMMA TokensKeepTracker ==
    ASSUME TrackerInv, NEW n \in 0 .. 2, now' = now, tracker' = X!OnTokens(n)
    PROVE  TrackerInv'
<1> DEFINE added == [i \in 1 .. n |-> [at |-> now, n |-> tracker.count + i]]
           all == tracker.samples \o added
<1>1. /\ now \in Nat /\ tracker.count \in Nat /\ tracker.samples \in Seq(Sample)
      /\ tracker \in [samples : Seq(Sample), count : Nat, rate : {<<>>} \cup (Nat \X Nat)]
  BY DEF TrackerInv
<1>2. tracker' = [tracker EXCEPT !.count = tracker.count + n, !.samples = all]
  BY DEF X!OnTokens
<1> HIDE DEF all
<1>3. tracker'.count = tracker.count + n /\ tracker'.samples = all /\ tracker'.rate = tracker.rate
  BY <1>1, <1>2
<1>4. tracker.samples \in Seq(Sample')
  BY <1>1, <1>3, SamplesStay
<1>5. added \in Seq(Sample') /\ Len(added) = n /\ \A i \in 1 .. n : added[i].n = tracker.count + i
  <2>1. \A i \in 1 .. n : [at |-> now, n |-> tracker.count + i] \in Sample'
    BY <1>1, <1>3 DEF Sample
  <2>2. added \in [1 .. n -> Sample']
    BY <2>1
  <2>3. added \in Seq(Sample') /\ Len(added) = n
    <3> HIDE DEF added
    <3>1. n \in Nat
      OBVIOUS
    <3>2. added \in Seq(Sample') /\ DOMAIN added = 1 .. n
      BY <2>2, <3>1, SeqDef
    <3> QED
      BY <3>1, <3>2, LenProperties
  <2> QED
    BY <2>3
<1> HIDE DEF added
<1>6. /\ all \in Seq(Sample') /\ Len(all) = Len(tracker.samples) + Len(added)
      /\ \A i \in 1 .. Len(tracker.samples) + Len(added) :
            all[i] = IF i <= Len(tracker.samples) THEN tracker.samples[i]
                     ELSE added[i - Len(tracker.samples)]
  BY <1>4, <1>5, ConcatProperties, Zenon DEF all
<1>7. Len(tracker.samples) \in Nat
  BY <1>1, LenProperties
<1>8. all # <<>> => all[Len(all)].n = tracker.count + n
  <2>1. CASE n = 0
    <3>1. Len(all) = Len(tracker.samples)
      BY <1>5, <1>6, <1>7, <2>1
    <3>2. ASSUME all # <<>> PROVE all[Len(all)].n = tracker.count + n
      <4>1. Len(tracker.samples) >= 1 /\ tracker.samples # <<>>
        BY <1>1, <1>4, <1>6, <1>7, <3>1, <3>2, EmptySeq
      <4>2. all[Len(all)] = tracker.samples[Len(tracker.samples)]
        BY <1>5, <1>6, <1>7, <2>1, <3>1, <4>1
      <4> QED
        BY <1>1, <2>1, <4>1, <4>2 DEF TrackerInv
    <3> QED
      BY <3>2
  <2>2. CASE n # 0
    <3>1. Len(all) = Len(tracker.samples) + n /\ n \in 1 .. n
      BY <1>5, <1>6, <2>2
    <3>2. all[Len(all)] = added[n]
      BY <1>5, <1>6, <1>7, <2>2, <3>1
    <3> QED
      BY <1>5, <3>1, <3>2
  <2> QED
    BY <2>1, <2>2
<1>9. tracker' \in [samples : Seq(Sample'), count : Nat, rate : {<<>>} \cup (Nat \X Nat)]
  <2>1. tracker.count + n \in Nat /\ all \in Seq(Sample')
    BY <1>1, <1>6
  <2> DEFINE S == Seq(Sample')
             R == {<<>>} \cup (Nat \X Nat)
             m == tracker.count + n
  <2>2. /\ tracker.rate \in R /\ m \in Nat /\ all \in S
        /\ tracker' = [tracker EXCEPT !.count = m, !.samples = all]
        /\ tracker = [samples |-> tracker.samples, count |-> tracker.count, rate |-> tracker.rate]
    BY <1>1, <1>2, <2>1
  <2> HIDE DEF S, R, m
  <2>3. tracker' = [samples |-> all, count |-> m, rate |-> tracker.rate]
    BY <2>2
  <2>4. tracker' \in [samples : S, count : Nat, rate : R]
    BY <2>2, <2>3
  <2> QED
    BY <2>4 DEF S, R
<1>10. tracker'.rate # <<>> => tracker'.rate[2] >= MinSpan /\ tracker'.rate[1] <= tracker'.count
  <2>1. ASSUME tracker.rate # <<>> PROVE tracker.rate[1] \in Nat
    BY <1>1, <2>1
  <2> QED
    BY <1>1, <1>3, <2>1 DEF TrackerInv
<1> QED
  BY <1>1, <1>3, <1>8, <1>9, <1>10 DEF TrackerInv

\* Some bytes of a stream come.
LEMMA ChunkKeeps == ASSUME ProxyInv, NEW r \in Requests, X!Chunk(r) PROVE ProxyInv'
<1>1. /\ RequestsInv /\ TrackerInv /\ request[r].phase = "stream"
      /\ now' = now /\ whole' = whole
  BY DEF ProxyInv, X!Chunk
<1> DEFINE w == whole[r]
           d == X!Delivered(r)
           Bytes2(n) == request[r].buffer \o SubSeq(w, d + 1, d + n)
           New(n) == [request[r] EXCEPT !.left = @ - n, !.buffer = X!Unended(Bytes2(n)),
                                        !.counted = @ + X!Number(X!Tokens(Bytes2(n)))]
<1>2. PICK n \in 1 .. request[r].left :
         /\ X!Becomes(r, New(n)) /\ tracker' = X!OnTokens(X!Number(X!Tokens(Bytes2(n))))
  BY DEF X!Chunk, X!CountStreamTokens
<1>3. /\ request[r] \in RequestType
      /\ w \in {<<>>} \cup X!Streams /\ whole \in [Requests -> {<<>>} \cup X!Streams]
      /\ request[r].left <= Len(w) /\ d = Len(w) - request[r].left
      /\ request[r].buffer = X!Unended(SubSeq(w, 1, d))
      /\ request[r].counted = X!Number(X!Tokens(SubSeq(w, 1, d)))
  BY <1>1 DEF RequestsInv, Came, X!Delivered
<1>4. Shaped(w) /\ w \in Seq(Bytes) /\ Len(w) \in Nat
  BY <1>3, StreamShape, LenProperties DEF Shaped
<1> DEFINE e == d + n
           bytes == Bytes2(n)
<1>5. d \in 0 .. Len(w) /\ e \in d .. Len(w) /\ e = Len(w) - (request[r].left - n)
      /\ request[r].left - n \in Nat /\ request[r].left - n <= Len(w)
  <2> HIDE DEF w, d
  <2> QED
    BY <1>2, <1>3, <1>4 DEF RequestType
<1>6. bytes = X!Unended(SubSeq(w, 1, d)) \o SubSeq(w, d + 1, e)
  BY <1>3
<1> HIDE DEF bytes, Bytes2
<1>7. /\ X!Unended(bytes) = X!Unended(SubSeq(w, 1, e))
      /\ X!Number(X!Tokens(SubSeq(w, 1, e))) =
            X!Number(X!Tokens(SubSeq(w, 1, d))) + X!Number(X!Tokens(bytes))
  <2> HIDE DEF w, d, e
  <2> QED
    BY <1>4, <1>5, <1>6, ChunkCounts
<1>8. X!Number(X!Tokens(bytes)) \in 0 .. 2 /\ X!Number(X!Tokens(bytes)) \in Nat
  BY DEF X!Number
<1>9. TrackerInv'
  <2>1. tracker' = X!OnTokens(X!Number(X!Tokens(bytes)))
    BY <1>2 DEF bytes
  <2> QED
    BY <1>1, <1>8, <2>1, TokensKeepTracker
<1> DEFINE new == [request[r] EXCEPT !.left = request[r].left - n, !.buffer = X!Unended(bytes),
                                     !.counted = request[r].counted + X!Number(X!Tokens(bytes))]
<1>10. X!Becomes(r, new)
  BY <1>2 DEF bytes
<1>11. X!Unended(bytes) \in Seq(Bytes)
  <2>1. SubSeq(w, 1, e) \in Seq(Bytes)
    <3> HIDE DEF w, d, e
    <3>1. e \in 0 .. Len(w)
      BY <1>4, <1>5
    <3> QED
      BY <1>4, <3>1, StartOf
  <2> DEFINE q == SubSeq(w, 1, e)
  <2> HIDE DEF q
  <2>2. q \in Seq(Bytes) /\ X!Unended(bytes) = X!Unended(q)
    BY <1>7, <2>1 DEF q
  <2>3. PICK k \in 0 .. Len(q) : X!Unended(q) = SubSeq(q, k + 1, Len(q))
    BY <2>2, UnendedIs
  <2>4. Len(q) \in k .. Len(q)
    BY <2>2, <2>3, LenProperties
  <2>5. SubSeq(q, k + 1, Len(q)) \in Seq(Bytes)
    BY <2>2, <2>3, <2>4, PartOf
  <2> QED
    BY <2>2, <2>3, <2>5
<1>12. /\ new \in RequestType
       /\ new.left = request[r].left - n /\ new.phase = "stream"
       /\ new.buffer = X!Unended(bytes)
       /\ new.counted = request[r].counted + X!Number(X!Tokens(bytes))
  <2> HIDE DEF w, d, e
  <2>1. request[r].counted + X!Number(X!Tokens(bytes)) \in Nat
    BY <1>3, <1>8 DEF RequestType
  <2> QED
    BY <1>1, <1>3, <1>5, <1>11, <2>1 DEF RequestType
<1> HIDE DEF new
<1>13. Len(w) - new.left = e
  BY <1>5, <1>12
<1>14. /\ new.buffer = X!Unended(SubSeq(w, 1, Len(w) - new.left))
       /\ new.counted = X!Number(X!Tokens(SubSeq(w, 1, Len(w) - new.left)))
  <2> HIDE DEF w, d, e
  <2> QED
    BY <1>3, <1>7, <1>12, <1>13
<1>15. whole' = [whole EXCEPT ![r] = w] /\ new.left <= Len(w) /\ (new.phase # "stream" => w = <<>>)
  BY <1>1, <1>3, <1>5, <1>12
<1> HIDE DEF w, d, e
<1>16. RequestsInv'
  BY <1>1, <1>3, <1>10, <1>12, <1>14, <1>15, ReplacedIsCounted
<1> QED
  BY <1>9, <1>16 DEF ProxyInv

\* Every step of the proxy keeps the invariant.
LEMMA ProxyKeeps == ProxyInv /\ [X!Next]_xVars => ProxyInv'
<1> SUFFICES ASSUME ProxyInv, [X!Next]_xVars PROVE ProxyInv'
  OBVIOUS
<1>1. CASE UNCHANGED xVars
  BY <1>1 DEF xVars, ProxyInv, RequestsInv, Came, X!Delivered, TrackerInv, Sample
<1>2. CASE X!Poll
  BY <1>2, PollKeeps
<1>3. CASE X!Tick
  BY <1>3, TickKeeps
<1>4. ASSUME NEW r \in Requests,
             \/ X!Complete(r) \/ X!Refuse(r) \/ X!PassOn(r) \/ X!TaskEnds(r)
             \/ X!WaitSearch(r) \/ X!WaitFetch(r)
      PROVE  ProxyInv'
  BY <1>4, GatheringKeeps
<1>5. ASSUME NEW r \in Requests, X!Answered(r) PROVE ProxyInv'
  BY <1>5, AnsweredKeeps
<1>6. ASSUME NEW r \in Requests, X!Chunk(r) PROVE ProxyInv'
  BY <1>6, ChunkKeeps
<1>7. ASSUME NEW r \in Requests, X!StreamEnds(r) PROVE ProxyInv'
  BY <1>7, StreamEndsKeeps
<1> QED
  BY <1>1, <1>2, <1>3, <1>4, <1>5, <1>6, <1>7 DEF X!Next

\* The invariant says what is counted and what rate is shown.
LEMMA CameIsCounted == ProxyInv => X!TokensAreCounted /\ X!RateIsSound
<1> SUFFICES ASSUME ProxyInv PROVE X!TokensAreCounted /\ X!RateIsSound
  OBVIOUS
<1>1. X!TokensAreCounted
  BY DEF ProxyInv, RequestsInv, Came, X!TokensAreCounted
<1>2. ASSUME tracker.samples # <<>>
      PROVE  /\ Head(tracker.samples).n <= tracker.count /\ Head(tracker.samples).at <= now
             /\ X!Last(tracker.samples).n = tracker.count
  <2>1. tracker.samples \in Seq(Sample)
    BY DEF ProxyInv, TrackerInv
  <2>2. Head(tracker.samples) \in Sample
    <3>1. Len(tracker.samples) \in Nat /\ Len(tracker.samples) >= 1
      BY <1>2, <2>1, EmptySeq, LenProperties
    <3> QED
      BY <1>2, <2>1, <3>1, ElementOfSeq, HeadTailProperties
  <2>3. Head(tracker.samples).n <= tracker.count /\ Head(tracker.samples).at <= now
    BY <2>2 DEF Sample, ProxyInv, TrackerInv
  <2>4. X!Last(tracker.samples).n = tracker.count
    BY <1>2 DEF ProxyInv, TrackerInv, X!Last
  <2> QED
    BY <2>3, <2>4
<1>3. X!RateIsSound
  BY <1>2 DEF ProxyInv, TrackerInv, X!RateIsSound
<1> QED
  BY <1>1, <1>3

-----------------------------------------------------------------------------
(* The pages of the search.                                                *)

\* Search has the operators of the libraries under names of its own.
LEMMA CountIs == \A S : H!Cardinality(S) = Cardinality(S)
  BY DEF H!Cardinality, Cardinality

\* The models of a list.
ModelsOf(s) == H!Range(s)

\* They are the elements of the sequence.
LEMMA ModelsAre == \A s : ModelsOf(s) = {s[i] : i \in DOMAIN s}
  BY DEF ModelsOf, H!Range

\* Any set of models of the hub is finite.
LEMMA HubIsFinite == \A S \in SUBSET H!Hub : IsFiniteSet(S) /\ Cardinality(S) \in Nat
<1>1. IsFiniteSet(H!Hub)
  BY HubAssumption, FS_Interval DEF H!Hub
<1> QED
  BY <1>1, FS_Subset, FS_CardinalityType

\* How many models of a set there are up to m.
Rank(S, m) == Cardinality({k \in S : k <= m})

\* Each model has a rank, and no two have the same.
LEMMA RanksDiffer ==
    ASSUME NEW S \in SUBSET H!Hub, NEW m \in S
    PROVE  /\ Rank(S, m) \in 1 .. Cardinality(S)
           /\ \A k \in S : Rank(S, k) = Rank(S, m) => k = m
<1> DEFINE UpTo(k) == {l \in S : l <= k}
<1>1. \A k \in S : UpTo(k) \in SUBSET H!Hub /\ UpTo(k) \subseteq S /\ k \in UpTo(k)
  <2>1. \A k \in S : k \in Nat
    BY HubAssumption DEF H!Hub
  <2>2. \A k \in S : k <= k
    BY <2>1
  <2> QED
    BY <2>2
<1>2. \A k \in S : IsFiniteSet(UpTo(k)) /\ Cardinality(UpTo(k)) \in Nat /\ Cardinality(UpTo(k)) # 0
  <2> HIDE DEF UpTo
  <2>1. \A k \in S : UpTo(k) # {}
    BY <1>1
  <2>2. \A k \in S : IsFiniteSet(UpTo(k)) /\ Cardinality(UpTo(k)) \in Nat
    BY <1>1, HubIsFinite
  <2> QED
    BY <2>1, <2>2, FS_EmptySet
<1>3. IsFiniteSet(S) /\ Cardinality(S) \in Nat
  BY HubIsFinite
<1>4. Cardinality(UpTo(m)) <= Cardinality(S)
  BY <1>1, <1>3, FS_Subset
<1>5. ASSUME NEW k \in S, NEW l \in S, k < l PROVE Cardinality(UpTo(k)) # Cardinality(UpTo(l))
  <2>0. \A j \in S : j \in Nat
    BY HubAssumption DEF H!Hub
  <2>1. UpTo(k) \subseteq UpTo(l) /\ l \notin UpTo(k) /\ l \in UpTo(l)
    BY <1>5, <2>0
  <2> HIDE DEF UpTo
  <2>2. UpTo(k) # UpTo(l)
    BY <2>1
  <2> QED
    BY <1>2, <2>1, <2>2, FS_Subset
<1>6. \A k \in S : k \in Nat
  BY DEF H!Hub
<1> HIDE DEF UpTo
<1>7. \A k \in S : Rank(S, k) = Cardinality(UpTo(k))
  BY DEF Rank, UpTo
<1>8. \A k \in S : Rank(S, k) = Rank(S, m) => k = m
  BY <1>5, <1>6, <1>7
<1> QED
  BY <1>2, <1>3, <1>4, <1>7, <1>8

\* Each rank is that of a model.
LEMMA RanksAreTaken ==
    ASSUME NEW S \in SUBSET H!Hub, NEW i \in 1 .. Cardinality(S)
    PROVE  \E m \in S : Rank(S, m) = i
<1> DEFINE Taken(n) ==
              \A R \in SUBSET H!Hub : R \subseteq 1 .. n =>
                  \A j \in 1 .. Cardinality(R) : \E m \in R : Rank(R, m) = j
           T == {n \in Nat : Taken(n)}
<1>1. 0 \in T
  <2> SUFFICES ASSUME NEW R \in SUBSET H!Hub, R \subseteq 1 .. 0, NEW j \in 1 .. Cardinality(R) PROVE FALSE
    OBVIOUS
  <2>1. R = {}
    OBVIOUS
  <2> QED
    BY <2>1, FS_EmptySet
<1>2. ASSUME NEW n \in Nat, n \in T PROVE n + 1 \in T
  <2> SUFFICES ASSUME NEW R \in SUBSET H!Hub, R \subseteq 1 .. n + 1, NEW j \in 1 .. Cardinality(R)
               PROVE  \E m \in R : Rank(R, m) = j
    OBVIOUS
  <2>1. Taken(n)
    BY <1>2
  <2> HIDE DEF T
  <2>2. CASE n + 1 \notin R
    <3>1. R \subseteq 1 .. n
      BY <2>2
    <3> QED
      BY <2>1, <3>1
  <2>3. CASE n + 1 \in R
    <3> DEFINE Q == R \ {n + 1}
    <3>1. Q \in SUBSET H!Hub /\ Q \subseteq 1 .. n
      <4>1. \A k \in 1 .. n + 1 : k # n + 1 => k \in 1 .. n
        BY <1>2
      <4> QED
        BY <4>1
    <3>2. IsFiniteSet(R) /\ Cardinality(R) \in Nat /\ Cardinality(Q) \in Nat
      BY <3>1, HubIsFinite
    <3>3. Cardinality(Q) = Cardinality(R) - 1
      BY <2>3, <3>2, FS_RemoveElement
    <3>4. CASE j = Cardinality(R)
      <4>1. \A k \in R : k <= n + 1
        BY <1>2
      <4>2. {k \in R : k <= n + 1} = R
        BY <4>1
      <4> QED
        BY <2>3, <3>4, <4>2 DEF Rank
    <3>5. CASE j # Cardinality(R)
      <4>1. j \in 1 .. Cardinality(Q)
        BY <3>2, <3>3, <3>5
      <4>2. PICK m \in Q : Rank(Q, m) = j
        <5> HIDE DEF Q
        <5> QED
          BY <2>1, <3>1, <4>1
      <4>3. m \in 1 .. n /\ m \in R
        BY <3>1
      <4>4. {k \in R : k <= m} = {k \in Q : k <= m}
        BY <4>3
      <4> QED
        BY <4>2, <4>3, <4>4 DEF Rank
    <3> QED
      BY <3>4, <3>5
  <2> QED
    BY <2>2, <2>3
<1> HIDE DEF T
<1>3. Total \in T
  BY <1>1, <1>2, SetInduction, HubAssumption
<1>4. Taken(Total)
  BY <1>3 DEF T
<1> QED
  BY <1>4, HubAssumption DEF H!Hub

\* The order of the hub leaves none out and has none twice.
LEMMA HubOrderIs ==
    ASSUME NEW S \in SUBSET H!Hub
    PROVE  /\ H!InHubOrder(S) \in Seq(H!Hub) /\ Len(H!InHubOrder(S)) = Cardinality(S)
           /\ ModelsOf(H!InHubOrder(S)) = S
<1> DEFINE Placed(i) == CHOOSE m \in S : Rank(S, m) = i
           s == [i \in 1 .. Cardinality(S) |-> Placed(i)]
<1>1. H!InHubOrder(S) = s
  BY DEF H!InHubOrder, Rank, H!Cardinality, Cardinality
<1>2. Cardinality(S) \in Nat
  BY HubIsFinite
<1>3. \A i \in 1 .. Cardinality(S) : Placed(i) \in S /\ Rank(S, Placed(i)) = i
  BY RanksAreTaken
<1> HIDE DEF Placed
<1>4. s \in [1 .. Cardinality(S) -> H!Hub] /\ DOMAIN s = 1 .. Cardinality(S)
  BY <1>3
<1>5. s \in Seq(H!Hub) /\ Len(s) = Cardinality(S)
  BY <1>2, <1>4
<1>6. ASSUME NEW m \in S PROVE \E i \in DOMAIN s : s[i] = m
  <2>1. Rank(S, m) \in 1 .. Cardinality(S)
    BY RanksDiffer
  <2>2. Placed(Rank(S, m)) = m
    BY <1>3, <2>1, RanksDiffer
  <2> QED
    BY <2>1, <2>2
<1>7. \A i \in DOMAIN s : s[i] \in S
  BY <1>3
<1> HIDE DEF s
<1>8. ModelsOf(s) = S
  BY <1>6, <1>7, ModelsAre
<1> QED
  BY <1>1, <1>5, <1>8

\* Each of them once.
Once(s) == s \in Seq(H!Hub) /\ Len(s) = Cardinality(ModelsOf(s))

\* The first n pages, as far as their models have the words of the query.
HasPages(n, models) == \A m \in H!Hub \ Unrelated : m <= n * Limit => m \in models

\* What the prover needs of the product that is the offset of a page.
LEMMA NextPageIs ==
    ASSUME NEW n \in Nat
    PROVE  n * Limit \in Nat /\ (n + 1) * Limit = n * Limit + Limit /\ Limit <= (n + 1) * Limit
           /\ 0 * Limit = 0 /\ 1 * Limit = Limit
<1>1. Limit \in Nat
  BY HubAssumption
<1>2. n * Limit \in Nat
  BY <1>1
<1>3. (n + 1) * Limit = n * Limit + Limit
  BY <1>1
<1> QED
  BY <1>1, <1>2, <1>3

\* Empty lists have nothing twice.
LEMMA NoneOnce == Once(<<>>) /\ ModelsOf(<<>>) = {}
<1>1. ModelsOf(<<>>) = {}
  BY ModelsAre
<1> QED
  BY <1>1, FS_EmptySet DEF Once

\* New models behind those that are there.
LEMMA JoinedOnce ==
    ASSUME NEW s, Once(s), NEW S \in SUBSET H!Hub, S \cap ModelsOf(s) = {}
    PROVE  /\ Once(s \o H!InHubOrder(S))
           /\ ModelsOf(s \o H!InHubOrder(S)) = ModelsOf(s) \cup S
<1> DEFINE t == H!InHubOrder(S)
<1>1. t \in Seq(H!Hub) /\ Len(t) = Cardinality(S) /\ ModelsOf(t) = S
  BY HubOrderIs
<1>2. s \in Seq(H!Hub) /\ Len(s) = Cardinality(ModelsOf(s)) /\ ModelsOf(s) \in SUBSET H!Hub
  BY ModelsAre DEF Once
<1> HIDE DEF t
<1>3. /\ s \o t \in Seq(H!Hub) /\ Len(s \o t) = Len(s) + Len(t)
      /\ \A i \in 1 .. Len(s) + Len(t) : (s \o t)[i] = IF i <= Len(s) THEN s[i] ELSE t[i - Len(s)]
  BY <1>1, <1>2, ConcatProperties
<1>4. ModelsOf(s \o t) \subseteq ModelsOf(s) \cup S
  <2>0. DOMAIN (s \o t) = 1 .. Len(s) + Len(t)
    BY <1>1, <1>2
  <2> SUFFICES ASSUME NEW i \in 1 .. Len(s) + Len(t) PROVE (s \o t)[i] \in ModelsOf(s) \cup ModelsOf(t)
    BY <1>1, <2>0, ModelsAre
  <2>1. CASE i <= Len(s)
    BY <1>2, <1>3, <2>1, ModelsAre
  <2>2. CASE ~(i <= Len(s))
    <3>1. i - Len(s) \in DOMAIN t /\ (s \o t)[i] = t[i - Len(s)]
      BY <1>1, <1>2, <1>3, <2>2
    <3> QED
      BY <3>1, ModelsAre
  <2> QED
    BY <2>1, <2>2
<1>5. ModelsOf(s) \subseteq ModelsOf(s \o t)
  <2> SUFFICES ASSUME NEW i \in DOMAIN s PROVE \E j \in DOMAIN (s \o t) : (s \o t)[j] = s[i]
    BY ModelsAre
  <2>1. i \in 1 .. Len(s) + Len(t) /\ i <= Len(s)
    BY <1>1, <1>2
  <2> QED
    BY <1>3, <2>1
<1>6. S \subseteq ModelsOf(s \o t)
  <2> SUFFICES ASSUME NEW i \in DOMAIN t PROVE \E j \in DOMAIN (s \o t) : (s \o t)[j] = t[i]
    BY <1>1, ModelsAre
  <2>1. i + Len(s) \in 1 .. Len(s) + Len(t) /\ ~(i + Len(s) <= Len(s)) /\ (i + Len(s)) - Len(s) = i
    BY <1>1, <1>2
  <2> QED
    BY <1>3, <2>1
<1>7. ModelsOf(s \o t) = ModelsOf(s) \cup S
  BY <1>4, <1>5, <1>6
<1>8. /\ IsFiniteSet(ModelsOf(s)) /\ IsFiniteSet(S)
      /\ Cardinality(ModelsOf(s)) \in Nat /\ Cardinality(S) \in Nat
  BY <1>2, HubIsFinite
<1>9. Cardinality(ModelsOf(s) \cup S) = Cardinality(ModelsOf(s)) + Cardinality(S)
  <2>1. ModelsOf(s) \cap S = {} /\ Cardinality({}) = 0
    BY FS_EmptySet
  <2> QED
    <3>1. Cardinality(ModelsOf(s) \cup S)
          = Cardinality(ModelsOf(s)) + Cardinality(S) - Cardinality(ModelsOf(s) \cap S)
      BY <1>8, FS_Union
    <3>2. Cardinality(ModelsOf(s) \cap S) = 0
      BY <2>1, Zenon
    <3> QED
      BY <1>8, <3>1, <3>2
<1>10. Once(s \o t)
  BY <1>1, <1>2, <1>3, <1>7, <1>9 DEF Once
<1> QED
  BY <1>7, <1>10 DEF t

\* The same list the other way round.
LEMMA ReversedOnce ==
    ASSUME NEW s, Once(s)
    PROVE  Once(H!Reverse(s)) /\ ModelsOf(H!Reverse(s)) = ModelsOf(s)
<1> DEFINE t == H!Reverse(s)
<1>1. s \in Seq(H!Hub) /\ Len(s) \in Nat /\ DOMAIN s = 1 .. Len(s)
  BY DEF Once
<1>2. t = [i \in 1 .. Len(s) |-> s[(Len(s) - i) + 1]]
  BY DEF H!Reverse
<1> HIDE DEF t
<1>3. \A i \in 1 .. Len(s) : (Len(s) - i) + 1 \in 1 .. Len(s) /\ (Len(s) - ((Len(s) - i) + 1)) + 1 = i
  BY <1>1
<1>4. t \in Seq(H!Hub) /\ Len(t) = Len(s) /\ DOMAIN t = 1 .. Len(s)
  BY <1>1, <1>2, <1>3
<1>5. ModelsOf(t) = ModelsOf(s)
  <2>1. \A i \in DOMAIN t : \E j \in DOMAIN s : t[i] = s[j]
    BY <1>1, <1>2, <1>3
  <2>2. ASSUME NEW j \in DOMAIN s PROVE \E i \in DOMAIN t : t[i] = s[j]
    <3>1. j \in 1 .. Len(s)
      BY <1>1
    <3>2. t[(Len(s) - j) + 1] = s[j]
      BY <1>2, <1>3, <3>1
    <3> QED
      BY <1>3, <1>4, <3>1, <3>2
  <2>3. ModelsOf(t) = {t[i] : i \in DOMAIN t} /\ ModelsOf(s) = {s[i] : i \in DOMAIN s}
    BY ModelsAre
  <2> QED
    BY <2>1, <2>2, <2>3, Zenon
<1> QED
  BY <1>4, <1>5 DEF Once, t

\* What the keys look at has its type.
PagesTyped ==
    /\ view \in {"list", "search", "files"} /\ page \in Nat
    /\ typing \in BOOLEAN /\ loading \in BOOLEAN /\ first \in BOOLEAN
    /\ misses \in Nat

\* Only the search waits for a page, and it waits for the one it has counted.
WaitsForItsPage ==
    /\ typing \/ asked # {} => view = "search"
    /\ loading => asked # {}
    /\ \A r \in asked : r.offset = page * Limit

\* While a page is awaited those before it are there, and the results that wait behind the
\* files keep at least the first one.
PagesAreThere ==
    first /\ misses = 0 =>
        /\ view = "search" => HasPages(IF asked = {} THEN page + 1 ELSE page, ModelsOf(results))
        /\ view = "files" => HasPages(1, ModelsOf(files))

\* The request that is under way is for the page that is counted: without it an answer would
\* append a page other than the next one, and the list would have a hole.
PagesInv == PagesTyped /\ Once(results) /\ Once(files) /\ WaitsForItsPage /\ PagesAreThere

\* No search is open at first.
LEMMA PagesStart == H!Init => PagesInv
<1> SUFFICES ASSUME H!Init PROVE PagesInv
  OBVIOUS
<1>1. PagesTyped
  BY DEF H!Init, H!Nothing, PagesTyped
<1>2. WaitsForItsPage
  BY DEF H!Init, H!Nothing, WaitsForItsPage
<1>3. PagesAreThere
  BY DEF H!Init, PagesAreThere
<1> QED
  BY <1>1, <1>2, <1>3, NoneOnce DEF H!Init, PagesInv

\* An answer brings the page that was asked for, behind those that are there.
LEMMA AnswerKeeps == PagesInv /\ H!Answer => PagesInv'
<1> SUFFICES ASSUME PagesInv, H!Answer PROVE PagesInv'
  OBVIOUS
<1>1. PICK r \in asked :
        IF view # "search" THEN UNCHANGED <<results, at, more, loading>>
        ELSE /\ loading' = FALSE
             /\ IF r.offset > 0 THEN H!AppendPage(H!Related(r.query, H!Raw(r.offset)), H!Raw(r.offset))
                ELSE H!ReplacePage(H!Related(r.query, H!Raw(r.offset)), H!Raw(r.offset))
  BY DEF H!Answer
<1>2. asked' = {} /\ UNCHANGED <<view, typing, query, page, files, first, misses>>
  BY DEF H!Answer, H!Nothing
<1>3. view = "search" /\ r.offset = page * Limit /\ page \in Nat
  BY DEF PagesInv, WaitsForItsPage, PagesTyped
<1> DEFINE found == H!Related(r.query, H!Raw(r.offset))
<1>4. page * Limit \in Nat /\ (page + 1) * Limit = page * Limit + Limit /\ Limit \in Nat
  BY <1>3, NextPageIs, HubAssumption
<1>5. /\ found \in SUBSET H!Hub
      /\ \A m \in H!Hub \ Unrelated : m > r.offset /\ m <= r.offset + Limit => m \in found
  BY DEF H!Related, H!Raw
<1> HIDE DEF found
<1>6. Once(results) /\ (first /\ misses = 0 => HasPages(page, ModelsOf(results)))
  BY <1>1, <1>3 DEF PagesInv, PagesAreThere
<1>7. Once(results') /\ (first /\ misses = 0 => HasPages(page + 1, ModelsOf(results')))
  <2>1. CASE r.offset > 0
    <3> DEFINE S == found \ ModelsOf(results)
    <3>1. results' = results \o H!InHubOrder(S)
      BY <1>1, <1>3, <2>1 DEF H!AppendPage, H!New, found, ModelsOf
    <3>2. S \in SUBSET H!Hub /\ S \cap ModelsOf(results) = {}
      BY <1>5
    <3>3. Once(results') /\ ModelsOf(results') = ModelsOf(results) \cup S
      <4> HIDE DEF S
      <4> QED
        BY <1>6, <3>1, <3>2, JoinedOnce
    <3>4. found \subseteq ModelsOf(results')
      BY <3>3
    <3>5. ASSUME first, misses = 0 PROVE HasPages(page + 1, ModelsOf(results'))
      <4> SUFFICES ASSUME NEW m \in H!Hub \ Unrelated, m <= (page + 1) * Limit PROVE m \in ModelsOf(results')
        BY DEF HasPages
      <4>1. m \in Nat
        BY DEF H!Hub
      <4>2. CASE m <= page * Limit
        BY <1>6, <3>3, <3>5, <4>2 DEF HasPages
      <4>3. CASE ~(m <= page * Limit)
        BY <1>3, <1>4, <1>5, <3>4, <4>1, <4>3
      <4> QED
        BY <4>2, <4>3
    <3> QED
      BY <3>3, <3>5
  <2>2. CASE ~(r.offset > 0)
    <3>1. results' = H!InHubOrder(found)
      BY <1>1, <1>3, <2>2 DEF H!ReplacePage, found
    <3>2. Once(results') /\ ModelsOf(results') = found
      BY <1>5, <3>1, HubOrderIs DEF Once
    <3>3. r.offset = 0 /\ (page + 1) * Limit = Limit
      BY <1>3, <1>4, <2>2
    <3>4. HasPages(page + 1, ModelsOf(results'))
      BY <1>4, <1>5, <3>2, <3>3 DEF HasPages, H!Hub
    <3> QED
      BY <3>2, <3>4
  <2> QED
    BY <2>1, <2>2
<1>8. loading' = FALSE
  BY <1>1, <1>3
<1>9. Once(files) /\ PagesTyped
  BY DEF PagesInv
<1>10. PagesTyped' /\ Once(files)'
  BY <1>2, <1>8, <1>9 DEF PagesTyped, Once, ModelsOf
<1>11. WaitsForItsPage'
  BY <1>2, <1>3, <1>8 DEF WaitsForItsPage
<1>12. PagesAreThere'
  BY <1>2, <1>3, <1>7 DEF PagesAreThere, HasPages, ModelsOf
<1> QED
  BY <1>7, <1>10, <1>11, <1>12 DEF PagesInv, Once, ModelsOf

\* A request that fails is one that was missed.
LEMMA FailsKeeps == PagesInv /\ H!Fails => PagesInv'
<1> SUFFICES ASSUME PagesInv, H!Fails PROVE PagesInv'
  OBVIOUS
<1>1. PagesTyped /\ Once(results) /\ Once(files) /\ WaitsForItsPage
  BY DEF PagesInv
<1>2. asked # {} /\ asked' = {} /\ misses' = misses + 1 /\ loading' = (loading /\ view # "search")
      /\ UNCHANGED <<view, typing, query, results, page, more, at, files, first>>
  BY DEF H!Fails, H!Nothing
<1>3. PagesTyped' /\ misses' # 0
  BY <1>1, <1>2 DEF PagesTyped
<1>4. WaitsForItsPage'
  BY <1>1, <1>2 DEF WaitsForItsPage
<1>5. Once(results)' /\ Once(files)'
  BY <1>1, <1>2 DEF Once, ModelsOf
<1>6. PagesAreThere'
  BY <1>3 DEF PagesAreThere
<1> QED
  BY <1>3, <1>4, <1>5, <1>6 DEF PagesInv

\* A search starts with no page, and so does another query.
LEMMA QueryKeeps == PagesInv /\ (H!OpenSearch \/ H!EnterQuery \/ H!Leave) => PagesInv'
<1> SUFFICES ASSUME PagesInv, H!OpenSearch \/ H!EnterQuery \/ H!Leave PROVE PagesInv'
  OBVIOUS
<1>1. PagesTyped /\ Once(files) /\ WaitsForItsPage /\ asked = {}
  BY DEF PagesInv, H!OpenSearch, H!EnterQuery, H!Leave, H!Searching, H!Key, H!Nothing
<1>2. results' = <<>> /\ files' = files /\ page' = 0 /\ misses' = misses /\ first' \in BOOLEAN
  BY DEF H!OpenSearch, H!EnterQuery, H!Leave
<1>3. Once(results)' /\ Once(files)'
  BY <1>1, <1>2, NoneOnce DEF Once, ModelsOf
<1>4. \A models : HasPages(0, models)
  BY NextPageIs DEF HasPages, H!Hub
<1>5. CASE H!OpenSearch
  <2>1. view' = "search" /\ typing' \in BOOLEAN /\ loading' = FALSE /\ first' = FALSE /\ asked' = asked
    BY <1>5 DEF H!OpenSearch
  <2>2. PagesTyped'
    BY <1>1, <1>2, <2>1 DEF PagesTyped
  <2>3. WaitsForItsPage'
    BY <1>1, <2>1 DEF WaitsForItsPage
  <2>4. PagesAreThere'
    BY <2>1 DEF PagesAreThere
  <2> QED
    BY <1>3, <2>2, <2>3, <2>4 DEF PagesInv
<1>6. CASE H!EnterQuery
  <2>1. /\ view = "search" /\ view' = view /\ typing' = FALSE /\ loading' = loading
        /\ query' \in 0 .. 1 /\ first' = (query' # 0)
        /\ IF query' = 0 THEN asked' = asked ELSE asked' = {[query |-> query', offset |-> 0]}
    BY <1>1, <1>6 DEF H!EnterQuery, H!Ask, WaitsForItsPage
  <2>2. loading = FALSE
    BY <1>1 DEF WaitsForItsPage, PagesTyped
  <2>3. PagesTyped'
    BY <1>1, <1>2, <2>1 DEF PagesTyped
  <2>4. WaitsForItsPage'
    <3>1. \A r \in asked' : r.offset = 0
      BY <1>1, <2>1
    <3>2. page' * Limit = 0
      BY <1>2, NextPageIs
    <3> QED
      BY <2>1, <2>2, <3>1, <3>2 DEF WaitsForItsPage
  <2>5. PagesAreThere'
    <3>1. first' => asked' # {} /\ view' = "search"
      BY <2>1
    <3> QED
      BY <1>2, <1>4, <3>1 DEF PagesAreThere
  <2> QED
    BY <1>3, <2>3, <2>4, <2>5 DEF PagesInv
<1>7. CASE H!Leave
  <2>1. view' = "list" /\ typing' = typing /\ typing = FALSE /\ loading' = FALSE /\ first' = FALSE
        /\ asked' = asked
    BY <1>1, <1>7 DEF H!Leave, H!Searching, PagesTyped
  <2>2. PagesTyped'
    BY <1>1, <1>2, <2>1 DEF PagesTyped
  <2>3. WaitsForItsPage'
    BY <1>1, <2>1 DEF WaitsForItsPage
  <2>4. PagesAreThere'
    BY <2>1 DEF PagesAreThere
  <2> QED
    BY <1>3, <2>2, <2>3, <2>4 DEF PagesInv
<1> QED
  BY <1>5, <1>6, <1>7

\* The next page is asked for when those up to this one are there, the page before when
\* they are there all the more.
LEMMA PageKeeps == PagesInv /\ (H!Down \/ H!PageBack) => PagesInv'
<1> SUFFICES ASSUME PagesInv, H!Down \/ H!PageBack PROVE PagesInv'
  OBVIOUS
<1>1. PagesTyped /\ Once(files) /\ Once(results) /\ WaitsForItsPage /\ PagesAreThere
      /\ asked = {} /\ view = "search" /\ page \in Nat /\ loading = FALSE
  BY DEF PagesInv, H!Down, H!PageBack, H!Searching, H!Key, H!Nothing, WaitsForItsPage, PagesTyped
<1>2. UNCHANGED <<view, typing, query, results, more, files, misses>>
  BY DEF H!Down, H!PageBack
<1>3. Once(results)' /\ Once(files)' /\ ModelsOf(results') = ModelsOf(results)
  BY <1>1, <1>2 DEF Once, ModelsOf
<1>4. CASE H!Down /\ ~H!LoadNextPage
  <2>1. UNCHANGED <<page, loading, asked, first>>
    BY <1>4 DEF H!Down
  <2>2. PagesTyped' /\ WaitsForItsPage' /\ PagesAreThere'
    BY <1>1, <1>2, <1>3, <2>1 DEF PagesTyped, WaitsForItsPage, PagesAreThere
  <2> QED
    BY <1>3, <2>2 DEF PagesInv
<1>5. CASE H!Down /\ H!LoadNextPage
  <2>1. /\ page' = page + 1 /\ loading' = TRUE /\ first' = first
        /\ asked' = {[query |-> query, offset |-> (page + 1) * Limit]}
    BY <1>5 DEF H!Down, H!LoadNextPage, H!Ask
  <2>2. (page + 1) * Limit \in Nat
    BY <1>1, NextPageIs, HubAssumption
  <2>3. PagesTyped'
    BY <1>1, <1>2, <2>1, <2>2 DEF PagesTyped
  <2>4. WaitsForItsPage'
    BY <1>1, <1>2, <2>1 DEF WaitsForItsPage
  <2>5. PagesAreThere'
    BY <1>1, <1>2, <1>3, <2>1 DEF PagesAreThere
  <2> QED
    BY <1>3, <2>3, <2>4, <2>5 DEF PagesInv
<1>6. CASE H!PageBack
  <2>1. /\ page > 0 /\ page' = page - 1 /\ loading' = loading /\ first' = (first \/ page = 1)
        /\ asked' = {[query |-> query, offset |-> (page - 1) * Limit]}
    BY <1>6 DEF H!PageBack, H!Ask
  <2>2. page - 1 \in Nat /\ (page - 1) + 1 = page
    BY <1>1, <2>1
  <2>3. /\ (page - 1) * Limit \in Nat /\ page * Limit = (page - 1) * Limit + Limit
        /\ (page + 1) * Limit = page * Limit + Limit /\ 0 * Limit = 0 /\ Limit \in Nat
    BY <1>1, <2>2, NextPageIs, HubAssumption
  <2>4. PagesTyped'
    BY <1>1, <1>2, <2>1, <2>2, <2>3 DEF PagesTyped
  <2>5. WaitsForItsPage'
    BY <1>1, <1>2, <2>1 DEF WaitsForItsPage
  <2>6. ASSUME first', misses' = 0 PROVE HasPages(page - 1, ModelsOf(results))
    <3>1. CASE first
      <4>1. HasPages(page + 1, ModelsOf(results))
        BY <1>1, <1>2, <2>6, <3>1 DEF PagesAreThere
      <4> SUFFICES ASSUME NEW m \in H!Hub \ Unrelated, m <= (page - 1) * Limit
                   PROVE  m <= (page + 1) * Limit
        BY <4>1 DEF HasPages
      <4>2. m \in Nat
        BY DEF H!Hub
      <4> QED
        BY <2>3, <4>2
    <3>2. CASE ~first
      <4>1. page - 1 = 0
        <5>1. page = 1
          BY <2>1, <2>6, <3>2
        <5> QED
          BY <5>1
      <4> QED
        BY <2>3, <4>1 DEF HasPages, H!Hub
    <3> QED
      BY <3>1, <3>2
  <2>7. PagesAreThere'
    BY <1>1, <1>2, <1>3, <2>1, <2>6 DEF PagesAreThere
  <2> QED
    BY <1>3, <2>4, <2>5, <2>7 DEF PagesInv
<1> QED
  BY <1>4, <1>5, <1>6

\* What moves, sorts or opens no page leaves the models that are there.
LEMMA ViewKeeps ==
    PagesInv /\ (H!OpenInput \/ H!CloseInput \/ H!Up \/ H!Sort \/ H!OpenFiles \/ H!BackToSearch)
        => PagesInv'
<1> SUFFICES ASSUME PagesInv,
                    H!OpenInput \/ H!CloseInput \/ H!Up \/ H!Sort \/ H!OpenFiles \/ H!BackToSearch
             PROVE  PagesInv'
  OBVIOUS
<1>1. PagesTyped /\ Once(files) /\ Once(results) /\ WaitsForItsPage /\ PagesAreThere
      /\ asked = {} /\ loading = FALSE
  BY DEF PagesInv, H!OpenInput, H!CloseInput, H!Up, H!Sort, H!OpenFiles, H!BackToSearch,
     H!Searching, H!Key, H!Nothing, WaitsForItsPage, PagesTyped
<1>2. UNCHANGED <<query, asked, first, misses>>
  BY DEF H!OpenInput, H!CloseInput, H!Up, H!Sort, H!OpenFiles, H!BackToSearch
<1>3. CASE H!OpenInput \/ H!CloseInput \/ H!Up
  <2>1. UNCHANGED <<view, results, page, loading, files>> /\ (typing' => view = "search")
        /\ typing' \in BOOLEAN
    BY <1>1, <1>3 DEF H!OpenInput, H!CloseInput, H!Up, H!Searching, WaitsForItsPage, PagesTyped
  <2>2. PagesTyped' /\ WaitsForItsPage' /\ PagesAreThere' /\ Once(results)' /\ Once(files)'
    BY <1>1, <1>2, <2>1
       DEF PagesTyped, WaitsForItsPage, PagesAreThere, Once, ModelsOf
  <2> QED
    BY <2>2 DEF PagesInv
<1>4. CASE H!Sort
  <2>1. UNCHANGED <<view, typing, page, loading, files>>
        /\ results' \in {results, H!Reverse(H!InHubOrder(ModelsOf(results)))}
    BY <1>4 DEF H!Sort, ModelsOf
  <2>2. ModelsOf(results) \in SUBSET H!Hub
    BY <1>1, ModelsAre DEF Once
  <2>3. Once(results') /\ ModelsOf(results') = ModelsOf(results)
    <3> DEFINE t == H!InHubOrder(ModelsOf(results))
    <3>1. Once(t) /\ ModelsOf(t) = ModelsOf(results)
      BY <2>2, HubOrderIs DEF Once
    <3> HIDE DEF t
    <3>2. Once(H!Reverse(t)) /\ ModelsOf(H!Reverse(t)) = ModelsOf(results)
      BY <3>1, ReversedOnce
    <3> QED
      BY <1>1, <2>1, <3>2 DEF t
  <2>4. PagesTyped' /\ WaitsForItsPage' /\ PagesAreThere' /\ Once(files)'
    BY <1>1, <1>2, <2>1, <2>3 DEF PagesTyped, WaitsForItsPage, PagesAreThere, Once, ModelsOf
  <2> QED
    BY <2>3, <2>4 DEF PagesInv, Once, ModelsOf
<1>5. CASE H!OpenFiles
  <2>1. UNCHANGED <<typing, results, page, loading>> /\ view = "search" /\ typing = FALSE
        /\ (UNCHANGED <<view, files>> \/ (view' = "files" /\ files' = results))
    BY <1>1, <1>5 DEF H!OpenFiles, H!Searching, PagesTyped
  <2>2. PagesTyped' /\ WaitsForItsPage' /\ Once(files)' /\ Once(results)'
    BY <1>1, <1>2, <2>1 DEF PagesTyped, WaitsForItsPage, Once, ModelsOf
  <2>3. page \in Nat
    BY <1>1 DEF PagesTyped
  <2>4. HasPages(page + 1, ModelsOf(results)) => HasPages(1, ModelsOf(results))
    <3> SUFFICES ASSUME HasPages(page + 1, ModelsOf(results)), NEW m \in H!Hub \ Unrelated, m <= 1 * Limit
                 PROVE  m <= (page + 1) * Limit
      BY DEF HasPages
    <3>1. m \in Nat /\ Limit \in Nat
      BY HubAssumption DEF H!Hub
    <3> QED
      BY <2>3, <3>1, NextPageIs
  <2>5. PagesAreThere'
    BY <1>1, <1>2, <2>1, <2>4 DEF PagesAreThere
  <2> QED
    BY <2>2, <2>5 DEF PagesInv
<1>6. CASE H!BackToSearch
  <2>1. typing' = typing /\ view = "files" /\ view' = "search" /\ results' = files /\ files' = <<>>
        /\ page' = 0 /\ loading' = FALSE
    BY <1>6 DEF H!BackToSearch
  <2>2. PagesTyped' /\ WaitsForItsPage'
    BY <1>1, <1>2, <2>1 DEF PagesTyped, WaitsForItsPage
  <2>3. Once(files)' /\ Once(results)'
    BY <1>1, <2>1, NoneOnce DEF Once, ModelsOf
  <2>4. PagesAreThere'
    BY <1>1, <1>2, <2>1 DEF PagesAreThere
  <2> QED
    BY <2>2, <2>3, <2>4 DEF PagesInv
<1> QED
  BY <1>3, <1>4, <1>5, <1>6

\* Every key, answer and failure keeps the invariant.
LEMMA PagesKeep == PagesInv /\ [H!Next]_hVars => PagesInv'
<1>1. CASE UNCHANGED hVars
  BY <1>1 DEF hVars, PagesInv, PagesTyped, WaitsForItsPage, PagesAreThere, Once, ModelsOf
<1> QED
  BY <1>1, AnswerKeeps, FailsKeeps, QueryKeeps, PageKeeps, ViewKeeps DEF H!Next

\* The invariant is more than what the run checks.
LEMMA PagesAreShown == PagesInv => H!ResultsAreThePages
<1> SUFFICES ASSUME PagesInv PROVE H!ResultsAreThePages
  OBVIOUS
<1>1. Len(results) = H!Cardinality(H!Range(results))
  BY CountIs DEF PagesInv, Once, ModelsOf
<1>2. loading => asked # H!Nothing
  BY DEF PagesInv, WaitsForItsPage, H!Nothing
<1>3. view = "search" /\ first /\ misses = 0 /\ asked = H!Nothing =>
          \A m \in H!Hub \ Unrelated : m <= (page + 1) * Limit => m \in H!Range(results)
  BY DEF PagesInv, PagesAreThere, HasPages, ModelsOf, H!Nothing
<1> QED
  BY <1>1, <1>2, <1>3 DEF H!ResultsAreThePages

-----------------------------------------------------------------------------
(* The theorems.                                                           *)

\* After the two ticks of a turn the dashboard that runs has the port and the key that are
\* configured, and the proxy forwards to the server that runs and names that dashboard,
\* whatever was edited, killed, bound or taken before.  (async_ops.rs:2224, 2336)
THEOREM ServicesStayCurrent == TerminalSpec => []ServicesAreCurrent
<1> DEFINE Inv == live = "services" => ServicesInv
<1>1. TerminalInit => Inv
  BY ServicesStart DEF TerminalInit
<1>2. Inv /\ [TerminalNext]_allVars => Inv'
  <2> SUFFICES ASSUME Inv, [TerminalNext]_allVars PROVE Inv'
    OBVIOUS
  <2>1. live' = live /\ (live = "services" => [V!Next]_vVars)
    BY StepIsOfItsPart
  <2> QED
    BY <2>1, ServicesKeep
<1>3. Inv => ServicesAreCurrent
  BY NotedIsCurrent DEF ServicesAreCurrent
<1> QED
  BY <1>1, <1>2, <1>3, PTL DEF TerminalSpec

\* As long as no file operation failed, the directory of presets has what the program
\* shows: nothing deleted returns with a restart and nothing edited is lost, whether it
\* was edited in the panel or in the picker.  (store.rs:126, 135, config.rs:2060)
THEOREM PresetsAgree == TerminalSpec => []FilesAgree
<1> DEFINE Inv == live = "presets" => PresetsInv
<1>1. TerminalInit => Inv
  BY PresetsStart DEF TerminalInit
<1>2. Inv /\ [TerminalNext]_allVars => Inv'
  <2> SUFFICES ASSUME Inv, [TerminalNext]_allVars PROVE Inv'
    OBVIOUS
  <2>1. live' = live /\ (live = "presets" => [P!Next]_pVars)
    BY StepIsOfItsPart
  <2> QED
    BY <2>1, PresetsKeep
<1>3. Inv => FilesAgree
  BY DEF PresetsInv, FilesAgree
<1> QED
  BY <1>1, <1>2, <1>3, PTL DEF TerminalSpec

\* However many overlays, editors, lists, tags, outputs and filters are open, and in
\* whichever order they were opened, twelve times Esc leads back to the panels.
\* (key.rs:303, 490, overlay/mod.rs:61)
THEOREM EscLeadsBack == TerminalSpec => []EscLeaves
<1> DEFINE Inv == live = "screens" => screen \in SaneScreens
<1>1. TerminalInit => Inv
  BY ScreensStart DEF TerminalInit
<1>2. Inv /\ [TerminalNext]_allVars => Inv'
  <2> SUFFICES ASSUME Inv, [TerminalNext]_allVars PROVE Inv'
    OBVIOUS
  <2>1. live' = live /\ (live = "screens" => [K!Next]_kVars)
    BY StepIsOfItsPart
  <2> QED
    BY <2>1, ScreensKeep
<1>3. Inv => EscLeaves
  BY TwelveAreEnough DEF EscLeaves
<1> QED
  BY <1>1, <1>2, <1>3, PTL DEF TerminalSpec

\* While the pages were fetched in turn and none failed, the list of the search has each
\* model of the hub up to the page that is counted once, whatever was sorted, paged back,
\* opened or asked again before, and it waits for nothing that was not asked for.
\* (async_ops.rs:1964, key.rs:1277)
THEOREM PagesAreKept == TerminalSpec => []ResultsAreThePages
<1> DEFINE Inv == live = "search" => PagesInv
<1>1. TerminalInit => Inv
  BY PagesStart DEF TerminalInit
<1>2. Inv /\ [TerminalNext]_allVars => Inv'
  <2> SUFFICES ASSUME Inv, [TerminalNext]_allVars PROVE Inv'
    OBVIOUS
  <2>1. live' = live /\ (live = "search" => [H!Next]_hVars)
    BY StepIsOfItsPart
  <2> QED
    BY <2>1, PagesKeep
<1>3. Inv => ResultsAreThePages
  BY PagesAreShown DEF ResultsAreThePages
<1> QED
  BY <1>1, <1>2, <1>3, PTL DEF TerminalSpec

\* Every line with a token is counted once, wherever the chunks of its stream were cut and
\* whatever other streams, resets and polls came in between, and the rate that is shown is
\* of tokens that were counted.  (serve_api.rs:157, 100)
THEOREM StreamsAreCounted == TerminalSpec => []TokensAreCounted
<1> DEFINE Inv == live = "proxy" => ProxyInv
<1>1. TerminalInit => Inv
  BY ProxyStart DEF TerminalInit
<1>2. Inv /\ [TerminalNext]_allVars => Inv'
  <2> SUFFICES ASSUME Inv, [TerminalNext]_allVars PROVE Inv'
    OBVIOUS
  <2>1. live' = live /\ (live = "proxy" => [X!Next]_xVars)
    BY StepIsOfItsPart
  <2> QED
    BY <2>1, ProxyKeeps
<1>3. Inv => TokensAreCounted
  BY CameIsCounted DEF TokensAreCounted
<1> QED
  BY <1>1, <1>2, <1>3, PTL DEF TerminalSpec

\* Every server, alone or of the router, works with the settings of its own model: with the
\* context, the scaling and the template that follow from them, and whether they were taken
\* from the panel or resolved again; cleared Options that the defaults have and flags that
\* are off are excepted.  A single server of a standard build is never told a turbo type.
\* (server.rs:214, 742, models.rs:169)
THEOREM ServersRunAsSet == TerminalSpec => []RunsAsSet
<1> DEFINE Inv == live = "arguments" => ArgumentsInv
<1>1. TerminalInit => Inv
  BY ArgumentsStart DEF TerminalInit
<1>2. Inv /\ [TerminalNext]_allVars => Inv'
  <2> SUFFICES ASSUME Inv, [TerminalNext]_allVars PROVE Inv'
    OBVIOUS
  <2>1. live' = live /\ (live = "arguments" => [A!ArgNext]_aVars)
    BY StepIsOfItsPart
  <2> QED
    BY <2>1, ArgumentsKeep
<1>3. Inv => RunsAsSet
  BY ToldIsSet DEF RunsAsSet
<1> QED
  BY <1>1, <1>2, <1>3, PTL DEF TerminalSpec
=============================================================================
