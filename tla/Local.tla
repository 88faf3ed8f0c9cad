------------------------------- MODULE Local -------------------------------
(***************************************************************************)
(* What is kept on the machine beside the database of snapshots, by        *)
(* requests, processes and commands at the same time: recordings of a web  *)
(* page, the registry of repositories, and the record of the service.  And *)
(* what a process works out for itself: the topology of the members of a   *)
(* view, of the registered repositories, and as telemetry shows it; walks  *)
(* over a topology, and flows through channels.  They share nothing: a     *)
(* behaviour is one of them.                                               *)
(***************************************************************************)
EXTENDS Naturals, Sequences, FiniteSets, Functions, TLC

CONSTANTS Threads, Processes, Fields, None, MaxCrashes,
          Pages, Origins, Click, MaxRecordings, MaxActions, MaxRuns, MaxTargets,
          Services, PathLists, Basename, OwnRows, MaxSaves,
          MaxBorn, MaxUses,
          Questions, Channels,
          ViewMembers, ViewFacts,
          Repositories, LogicalService, HostNames, Databases, MaxChanges,
          Spans, Logs, Features, StaticEdges, Fits, MaxItems, MaxPayloads

ASSUME ActorsAssumption == IsFiniteSet(Processes) /\ None \notin Threads \cup Processes
ASSUME NothingAssumption ==   \* None is no process, no record of one, and no port
    None \notin [id : Nat, kind : {"server", "own", "foreign"}, alive : BOOLEAN, listens : BOOLEAN,
                parent : Threads \cup {None}]
             \cup [pid : Processes, started : Nat] \cup [id : Nat, kind : {"server", "api", "other"}]
ASSUME PathsAssumption ==
    /\ None \notin DOMAIN Basename
    /\ \A paths \in PathLists :
         /\ paths \in Seq(DOMAIN Basename) /\ paths # <<>>
         /\ \A i, j \in 1 .. Len(paths) : paths[i] = paths[j] => i = j
    /\ OwnRows \subseteq [scope : Services, path : DOMAIN Basename \cup {None}]
ASSUME QuestionsAssumption ==
    \A family \in Questions : \A q \in family :
      /\ q.kind \in {"flow", "impact", "calls", "trace"}
      /\ q.dependencies \in Seq(Range(q.dependencies)) /\ q.max_depth \in Nat
      /\ q.kind = "flow" => {q.max_nodes, q.max_edges} \subseteq Nat \ {0} /\ q.resources \in Nat
ASSUME ChannelsAssumption ==
    \A family \in Channels : \A s \in family :
      /\ s.max_depth \in Nat
      /\ s.order \in Seq(Range(s.order))
      /\ \A i, j \in DOMAIN s.order : s.order[i] = s.order[j] => i = j
      /\ \A i \in DOMAIN s.order : s.entities[s.order[i]] \in Seq(Range(s.entities[s.order[i]]))

ASSUME MembersAssumption == IsFiniteSet(Range(ViewMembers))
ASSUME FactsAssumption ==
    \A family \in ViewFacts : \A f \in family : \A m \in Range(ViewMembers) :
      /\ IsFiniteSet(f.entries[m]) /\ \A e \in f.entries[m] : e.route \in Seq(Range(e.route))
      /\ f.calls[m] \in Seq(Range(f.calls[m])) /\ f.subscriptions[m] \in Seq(Range(f.subscriptions[m]))
      /\ \A call \in Range(f.calls[m]) :
           /\ call.kind \in {"http", "message", "grpc"}
           /\ call.kind = "http" => call.path = None \/ call.path \in Seq(Range(call.path))
ASSUME DatabasesAssumption ==
    /\ Repositories \in Seq(Range(Repositories))
    /\ \A d \in Databases : /\ d \in [Range(Repositories) -> Range(d)] /\ None \notin Range(d)
                             /\ \A r \in Range(Repositories) : d[r].calls \in Seq(Range(d[r].calls))
ASSUME TelemetryAssumption ==
    /\ None \notin Nat /\ Features \in Seq(Range(Features))
    /\ \A known \in StaticEdges : known \in Seq(Range(known))

VARIABLES targets, recordings, steps, runs, done, page, recorder, requests, lost,
          file, torn, saving, saves, servers, backups, catalog, marker,
          procs, port, record, lock, ops, born, uses, signalled,
          query, queue, source, rest, nodes, edges, references, resources, truncation, stack, chain,
          answered,
          system, waiting, delivery, visited, hops, mappings, unmapped, pair, place,
          facts, todo, dependencies, projections, candidates, boundaries, alternatives,
          db, cache, linked, analyzed, changes,
          topology, payload, observations, traces, batch, stored, result,
          crashes, focus

recordingUi == <<targets, recordings, steps, runs, done, page, recorder,
                 requests, lost>>
registering == <<file, torn, saving, saves, servers, backups, catalog, marker>>
serving == <<procs, port, record, lock, ops, born, uses, signalled>>
asking == <<query, queue, source, rest, nodes, edges, references, resources, truncation, stack,
            chain, answered>>
following == <<system, waiting, delivery, visited, hops, mappings, unmapped, pair, place>>
matching == <<facts, todo, dependencies, projections, candidates, boundaries, alternatives>>
linking == <<db, cache, linked, analyzed, changes>>
observing == <<topology, payload, observations, traces, batch, stored, result>>
keeping == <<recordingUi, registering, serving, crashes>>
walking == <<asking, following>>
building == <<matching, linking, observing>>
vars == <<keeping, walking, building, focus>>

Symmetric == Permutations(Threads) \cup Permutations(Processes) \cup Permutations(Fields)

-----------------------------------------------------------------------------
V == INSTANCE UiRecording WITH Names <- Pages
R == INSTANCE Registry
       WITH Writers <- Threads, Servers <- Processes, Names <- Services, requests <- saving
S == INSTANCE ServiceControl WITH Commands <- Threads, Pids <- Processes, file <- record
Q == INSTANCE TopologyQueries WITH Queries <- Questions, done <- answered
F == INSTANCE ChannelFlow WITH Systems <- Channels, queue <- waiting, steps <- hops
M == INSTANCE TopologyMatching WITH Members <- ViewMembers, Facts <- ViewFacts
X == INSTANCE CrossRepoTopology
       WITH ServiceOf <- LogicalService, Names <- HostNames, graph <- linked
O == INSTANCE RuntimeTelemetry WITH Topologies <- StaticEdges, todo <- observations

NoAsking ==
    /\ query = None /\ queue = None /\ source = None /\ rest = None /\ nodes = None /\ edges = None
    /\ references = None /\ resources = None /\ truncation = None /\ stack = None /\ chain = None
    /\ answered = None
NoFollowing ==
    /\ system = None /\ waiting = None /\ delivery = None /\ visited = None /\ hops = None
    /\ mappings = None /\ unmapped = None /\ pair = None /\ place = None
NoMatching ==
    /\ facts = None /\ todo = None /\ dependencies = None /\ projections = None
    /\ candidates = None /\ boundaries = None /\ alternatives = None
NoLinking == db = None /\ cache = None /\ linked = None /\ analyzed = None /\ changes = None
NoObserving ==
    /\ topology = None /\ payload = None /\ observations = None /\ traces = None /\ batch = None
    /\ stored = None /\ result = None

Init ==
    /\ focus \in {"ui", "registry", "service", "asking", "following", "matching", "linking", "observing"}
    /\ V!Init /\ R!Init /\ S!Init
    /\ IF focus = "asking" THEN Q!Init ELSE NoAsking
    /\ IF focus = "following" THEN F!Init ELSE NoFollowing
    /\ IF focus = "matching" THEN M!Init ELSE NoMatching
    /\ IF focus = "linking" THEN X!Init ELSE NoLinking
    /\ IF focus = "observing" THEN O!Init ELSE NoObserving

Next ==
    /\ UNCHANGED focus
    /\ \/ focus = "ui" /\ V!Next /\ UNCHANGED <<registering, serving, walking, building>>
       \/ focus = "registry" /\ R!Next /\ UNCHANGED <<recordingUi, serving, walking, building>>
       \/ focus = "service" /\ S!Next /\ UNCHANGED <<recordingUi, registering, walking, building>>
       \/ focus = "asking" /\ Q!Next /\ UNCHANGED <<keeping, following, building>>
       \/ focus = "following" /\ F!Next /\ UNCHANGED <<keeping, asking, building>>
       \/ focus = "matching" /\ M!Next /\ UNCHANGED <<keeping, walking, linking, observing>>
       \/ focus = "linking" /\ X!Next /\ UNCHANGED <<keeping, walking, matching, observing>>
       \/ focus = "observing" /\ O!Next /\ UNCHANGED <<keeping, walking, matching, linking>>
Spec == Init /\ [][Next]_vars

(* See UiRecording, Registry, ServiceControl, TopologyMatching,            *)
(* CrossRepoTopology, RuntimeTelemetry, TopologyQueries and ChannelFlow: a *)
(* recording is what the user has done, once and in order;                 *)
RecordedInOrder == focus = "ui" => V!RecordedInOrder
(* no service that was registered is lost but by writers that overlap or   *)
(* that cannot read the file;                                              *)
RegistryIsKept == [][R!NothingIsForgotten]_registering
(* commands touch the recorded service only, and there is one;             *)
ServiceIsKnown == focus = "service" => S!ServiceIsKnown
(* what they report is so;                                                 *)
ReportsAreTrue == [][S!ReportIsTrue]_<<serving, crashes>>
(* the edges of a topology, built of snapshots, of databases, or confirmed *)
(* by what is observed, are supported by the facts, and no fact is passed  *)
(* over;                                                                   *)
TopologyIsSupported ==
    /\ focus = "matching" =>
         /\ M!TypeOK /\ M!EveryCallIsTold /\ M!ProjectionsAreSupported
         /\ M!IdentityFirst /\ M!CompetingIsNotBroadcast
    /\ focus = "linking" =>
         /\ X!TypeOK /\ X!WarmIsCold /\ X!ExternalStaysExternal /\ X!NoGuess
         /\ X!DependenciesHaveEvidence /\ X!EveryCallIsTold
    /\ focus = "observing" => O!TypeOK /\ O!TracesAreAssociated /\ O!EverythingIsValidatedOnce
(* and a walk finds all that its limits allow, by paths that are there,    *)
(* and says when it was cut short.                                         *)
WalksAreWhole ==
    /\ focus = "asking" =>
         /\ Q!TypeOK /\ Q!PathsAreShortest /\ Q!WholeUnlessTruncated
         /\ Q!OneEdgeMayDangle /\ Q!NobodyIsMissed /\ Q!TraceIsConnected
    /\ focus = "following" =>
         F!TypeOK /\ F!StepsAreConnected /\ F!FlowIsClosed /\ F!MappingsAreOneToOne
=============================================================================
