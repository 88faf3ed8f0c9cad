----------------------------- MODULE MCAnalyses -----------------------------
(***************************************************************************)
(* The analyses of the source of repositories.  They share nothing but     *)
(* what is stored: a behaviour is one analysis, over the inputs that       *)
(* MCSources gives, and the others have nothing.                           *)
(***************************************************************************)
EXTENDS Integers, Sequences, TLC

CONSTANTS None, a, b, c, src, hidden, pms, ums, x, y, Shared, Unclassified, Invented

VARIABLES
    files, manifests, links, domains, taxonomy, tree,
    calling, version, phase, frozen, plan, chunks, locals, aggregates, published, edits, generations,
    code, supported, stage, entries, frontier, examined, paths, cut, results, artifact,
    handling, leaves, endpoints,
    mentions, seen, buckets, report,
    focus

grouping == <<files, manifests, links, domains, taxonomy, tree>>
explaining == <<calling, version, phase, frozen, plan, chunks, locals, aggregates, published, edits,
                generations>>
communicating == <<code, supported, stage, entries, frontier, examined, paths, cut, results,
                   artifact>>
routing == <<handling, leaves, endpoints>>
recognizing == <<mentions, seen, buckets, report>>

-----------------------------------------------------------------------------
SData == INSTANCE MCSources
SourceFiles == SData!MCFiles
BuildFiles == SData!MCManifests
CallGraphs == SData!MCGraphs
LinesThere == SData!MCLines
LinesDeclared == SData!MCDeclared
ControlLines == SData!MCBoundaries
AllCodes == SData!MCCodes
Supported == SData!MCSupports
AllHandlers == SData!MCHandlers
Requested == SData!MCRequests
AllMentions == SData!AllMentions

M == INSTANCE ModuleTree
       WITH Files <- SourceFiles, Manifests <- BuildFiles, Containers <- {src},
            Underscored <- {hidden}, Domains <- {a, Shared}, MinFiles <- 3, MinEntities <- 2,
            TopDomains <- 1, SubDepth <- 2, MaxFiles <- 3, MaxEdges <- 2, edges <- links
E == INSTANCE ExplanationPlan
       WITH Functions <- 1 .. 5, Entry <- 1, Graphs <- CallGraphs, Lines <- LinesThere,
            Declared <- LinesDeclared, Boundaries <- ControlLines, MaxNodes <- 4,
            MaxCallees <- 2, ChunkLines <- 4, Overlap <- 1, MaxChanges <- 2, MaxGenerations <- 2,
            changes <- edits, calls <- calling, order <- plan, at <- phase
C == INSTANCE Communication
       WITH Functions <- 1 .. 6, Codes <- AllCodes, Supports <- Supported,
            MaxEntries <- 2, MaxDepth <- 3, MaxNodes <- 5, MaxEdges <- 6, MaxFacts <- 2,
            at <- stage, queue <- frontier
H == INSTANCE HandlerRoutes WITH Handlers <- AllHandlers, Requests <- Requested, handler <- handling
W == INSTANCE TermRecognition WITH Facts <- AllMentions

-----------------------------------------------------------------------------
NoGrouping ==
    files = None /\ manifests = None /\ links = None /\ domains = None /\ taxonomy = None /\ tree = None
NoExplaining ==
    /\ calling = None /\ version = None /\ phase = None /\ frozen = None /\ plan = None /\ chunks = None
    /\ locals = None /\ aggregates = None /\ published = None /\ edits = None /\ generations = None
NoCommunicating ==
    /\ code = None /\ supported = None /\ stage = None /\ entries = None /\ frontier = None
    /\ examined = None /\ paths = None /\ cut = None /\ results = None /\ artifact = None
NoRouting == handling = None /\ leaves = None /\ endpoints = None
NoRecognizing == mentions = None /\ seen = None /\ buckets = None /\ report = None

Init ==
    /\ focus \in {"grouping", "explaining", "communicating", "routing", "recognizing"}
    /\ IF focus = "grouping" THEN M!Init ELSE NoGrouping
    /\ IF focus = "explaining" THEN E!Init ELSE NoExplaining
    /\ IF focus = "communicating" THEN C!Init ELSE NoCommunicating
    /\ IF focus = "routing" THEN H!Init ELSE NoRouting
    /\ IF focus = "recognizing" THEN W!Init ELSE NoRecognizing

Next ==
    /\ UNCHANGED focus
    /\ IF focus = "grouping" THEN M!Next ELSE UNCHANGED grouping
    /\ IF focus = "explaining" THEN E!Next ELSE UNCHANGED explaining
    /\ IF focus = "communicating" THEN C!Next ELSE UNCHANGED communicating
    /\ IF focus = "routing" THEN H!Next ELSE UNCHANGED routing
    /\ IF focus = "recognizing" THEN W!Next ELSE UNCHANGED recognizing
Spec == Init /\ [][Next]_<<grouping, explaining, communicating, routing, recognizing, focus>>

-----------------------------------------------------------------------------
(* Facts and explanations of code cover what they claim to, in spite of    *)
(* limits, chunks and reuse: Communication and ExplanationPlan.            *)
CodeIsCovered ==
    /\ focus = "communicating" =>
         /\ C!TypeOK /\ C!PathsAreShortest /\ C!CompleteIsWhole
         /\ C!SchemaHolds /\ C!ConsumersAreHeard
    /\ focus = "explaining" =>
         /\ E!TypeOK /\ E!OrderIsBottomUp /\ E!ChunksLeaveNoGap
         /\ E!ReusedIsFresh /\ E!CompletedIsWhole

=============================================================================
