-------------------------------- MODULE Pages ---------------------------------
(***************************************************************************)
(* The pages of hashi-ui: what each component watches, shows and offers.   *)
(* A page is a function of the address (the route) and of the store; this  *)
(* module is that function.  Browser is the process that calls it.         *)
(*                                                                         *)
(* A component that talks to the backend is a part: the keys it watches    *)
(* from componentWillMount (before) and from componentDidMount (after),    *)
(* and those it gives up when it unmounts (ends).  A part that follows     *)
(* notices that its address has changed.  What is drawn is left out, but   *)
(* for the links and the targets of the commands; the tabs that show the   *)
(* object as it is ("raw") are like "info".  A filter of the jobs or of    *)
(* the allocations, whose rows are parts, hides all rows or none; filters  *)
(* of other lists only hide links and are left out.  A tab waits for its   *)
(* chunk as it waits for the object it shows.                              *)
(***************************************************************************)
EXTENDS Naturals

CONSTANTS
    Jobs, Nodes, Members, Allocs, Evals, Deployments,   \* Nomad's objects
    ConsulNodes, Services, Sessions,                    \* Consul's objects
    None,           \* no object
    JobOf,          \* the job of an allocation, evaluation or deployment
    NodeOf,         \* the node of an allocation
    Related,        \* the previous and the next evaluation of one
    ParentOf,       \* the parent of a job, or None
    ServiceJobs, Periodic,  \* jobs of these types
    Latest,         \* the last version of a job; the first one is 1
    VersionOf       \* the version an allocation was started from

Objects == {None} \cup Jobs \cup Nodes \cup Members \cup Allocs \cup Evals \cup Deployments
             \cup ConsulNodes \cup Services \cup Sessions

ASSUME PagesAssumption ==
    /\ JobOf \in [Allocs \cup Evals \cup Deployments -> Jobs]
    /\ NodeOf \in [Allocs -> Nodes]
    /\ Related \in [Evals -> SUBSET Evals]
    /\ ParentOf \in [Jobs -> Jobs \cup {None}]
    /\ Latest \in [Jobs -> Nat \ {0}]
    /\ VersionOf \in [Allocs -> Nat]

VARIABLES
    route,      \* the address
    loading,    \* the chunk of the page is not there yet
    slot        \* the store: the keys of the answers in each entry

ById(S, Op(_)) == UNION {Op(x) : x \in S}

-----------------------------------------------------------------------------
(* Addresses. *)

NomadPages == {"cluster", "jobs", "job", "deployments", "deployment", "allocations",
               "allocation", "evaluations", "evaluation", "clients", "client",
               "servers", "server", "system"}
ConsulPages == {"services", "kv", "consul_nodes", "sessions"}

(* The start of a section, where a region is yet to be chosen.             *)
SectionPages == {"nomad", "consul"}

TabNames == {"list", "info", "groups", "children", "allocations", "evaluations", "deployments",
             "stats", "files"}

(* What the pages of one object show.                                      *)
ShownBy(page) ==
    CASE page = "job" -> Jobs
      [] page = "client" -> Nodes
      [] page = "server" -> Members
      [] page = "evaluation" -> Evals
      [] page = "deployment" -> Deployments
      [] page = "allocation" -> Allocs
      [] page = "services" -> Services \cup {None}
      [] page = "consul_nodes" -> ConsulNodes \cup {None}
      [] page = "sessions" -> Sessions \cup {None}
      [] OTHER -> {None}

Addresses ==
    {r \in [page : NomadPages \cup ConsulPages \cup SectionPages, id : Objects, tab : TabNames,
            version : Nat, hidden : BOOLEAN] : r.id \in ShownBy(r.page)}

Address(page, id, tab, version) ==
    [page |-> page, id |-> id, tab |-> tab, version |-> version, hidden |-> FALSE]

Page(page) == Address(page, None, "list", 0)
Item(page, id, tab) == Address(page, id, tab, 0)

(* JobLink: a task group's link leads to the groups.                       *)
JobLink(j) == {Item("job", j, "info")}
JobGroupLink(j) == {Item("job", j, "groups")}
ClientLink(n) == {Item("client", n, "info")}
EvaluationLink(e) == {Item("evaluation", e, "info")}
AllocationLink(a, tab) == {Item("allocation", a, tab)}
DeploymentLink(d) == {Item("deployment", d, "info")}
ServerLink(m) == {Item("server", m, "info")}

(* A filter of a list pushes the same path with another query.             *)
Filtered == {[route EXCEPT !.hidden = ~@]}

(* The entries of the two menus.  The job types are filters of one page.   *)
NomadMainNav ==
    {Page(p) : p \in {"cluster", "jobs", "deployments", "allocations",
                      "evaluations", "clients", "servers", "system"}}

ConsulMainNav == {Page(p) : p \in {"services", "kv", "consul_nodes", "sessions"}}

-----------------------------------------------------------------------------
(* Keys, and the entries of the store their answers are written to.        *)

Key(kind, id) == <<kind, id, 0>>
List(kind) == Key(kind, None)
JobKey(j, version) == <<"JOB", j, version>>

(* What a key of a kind names; the keys of lists name nothing.             *)
AllocKinds == {"ALLOC", "STATS", "SIMPLE_STATS", "ALLOC_HEALTH"}
JobKinds == {"JOB", "JOB_VERSIONS", "JOB_ALLOCATIONS", "JOB_DEPLOYMENTS", "JOB_HEALTH",
             "JOBS_FILTERED"}
NodeKinds == {"NODE", "CLIENT_STATS"}
DeploymentKinds == {"DEPLOYMENT", "DEPLOYMENT_ALLOCATIONS"}
ListKinds == {"ALLOCS", "ALLOCS_SHALLOW", "JOBS", "NODES", "MEMBERS", "EVALS", "DEPLOYMENTS",
              "CLUSTER_STATISTICS", "SERVICES", "CONSUL_NODES", "SESSIONS", "KV_PATH"}
Kinds == AllocKinds \cup JobKinds \cup NodeKinds \cup DeploymentKinds \cup ListKinds
           \cup {"MEMBER", "EVAL", "CONSUL_NODE", "SERVICE", "SESSION"}

NamedBy(kind) ==
    CASE kind \in AllocKinds -> Allocs
      [] kind \in JobKinds -> Jobs
      [] kind \in NodeKinds -> Nodes
      [] kind = "MEMBER" -> Members
      [] kind = "EVAL" -> Evals
      [] kind \in DeploymentKinds -> Deployments
      [] kind = "CONSUL_NODE" -> ConsulNodes
      [] kind = "SERVICE" -> Services
      [] kind = "SESSION" -> Sessions
      [] OTHER -> {None}

AllKeys == {k \in Kinds \X Objects \X Nat : k[2] \in NamedBy(k[1])}

AllocEntries == {<<"ALLOC", "allocation">>, <<"ALLOCS", "allocations">>,
                 <<"ALLOCS_SHALLOW", "allocations">>}
JobEntries == {<<"JOB", "job">>, <<"JOB_VERSIONS", "jobVersions">>, <<"JOBS", "jobs">>,
               <<"JOB_ALLOCATIONS", "jobAllocations">>, <<"JOBS_FILTERED", "filteredJobs">>}
NodeEntries == {<<"NODE", "node">>}
MemberEntries == {<<"MEMBER", "member">>}
EvalEntries == {<<"EVAL", "evaluation">>}
DeploymentEntries == {<<"DEPLOYMENT", "deployment">>,
                      <<"DEPLOYMENT_ALLOCATIONS", "deploymentAllocations">>}
ConsulEntries == {<<"CONSUL_NODE", "consulNode">>, <<"SERVICE", "consulService">>,
                  <<"SESSION", "consulSession">>}

Reducers == AllocEntries \cup JobEntries \cup NodeEntries \cup MemberEntries
              \cup EvalEntries \cup DeploymentEntries \cup ConsulEntries

Entries == {r[2] : r \in Reducers}
Entry(k) == {r[2] : r \in {q \in Reducers : q[1] = k[1]}}

(* The lists that stay in the store when nobody watches them.              *)
Kept == {"jobs", "allocations"}

(* The objects an entry holds: none before the answer came.                *)
Held(entry) == {k[2] : k \in slot[entry]}
Loaded(entry, all) == IF slot[entry] = {} THEN {} ELSE all

-----------------------------------------------------------------------------
(* Parts and views. *)

(* Faulty variant: a part gives up the first of its watches only.          *)
EndsBefore(name, id, before, after) ==
    [name |-> name, id |-> id, before |-> before, after |-> after,
     ends |-> before, follows |-> FALSE, fetches |-> {}]

Part(name, id, before, after) ==
    [name |-> name, id |-> id, before |-> before, after |-> after,
     ends |-> before \cup after, follows |-> FALSE, fetches |-> {}]

Keys(part) == part.before \cup part.after

View(parts, links, targets) == [parts |-> parts, links |-> links, targets |-> targets]
Nothing == View({}, {}, {})

Together(views) == View(UNION {v.parts : v \in views}, UNION {v.links : v \in views},
                        UNION {v.targets : v \in views})

(* A page that is there at once, and what it shows of the objects that the *)
(* store has, one or none: "Loading ..." until then.                       *)
ItemPage(part, views) == Together({View({part}, {}, {})} \cup views)

Tabs(page, id, names) == View({}, {Item(page, id, t) : t \in names}, {})

-----------------------------------------------------------------------------
(* Lists. *)

AllocationStatsCell(a) == Part("AllocationStatsCell", a, {}, {Key("SIMPLE_STATS", a)})
AllocationConsulHealth(a) == Part("AllocationConsulHealth", a, {}, {Key("ALLOC_HEALTH", a)})

AllocationRow(a) ==
    View({AllocationStatsCell(a), AllocationConsulHealth(a)},
         (UNION {AllocationLink(a, t) : t \in {"info", "stats", "files"}})
             \cup {Address("job", JobOf[a], "info", VersionOf[a])}
             \cup JobGroupLink(JobOf[a]) \cup ClientLink(NodeOf[a]),
         {})

(* The columns for the job, the client are hidden on their own pages.      *)
AllocationList(as) ==
    Together({View({}, Filtered, {})}
               \cup {AllocationRow(a) : a \in IF route.hidden THEN {} ELSE as})

JobHealth(j) == Part("JobHealth", j, {}, {Key("JOB_HEALTH", j)})

JobList(js) ==
    View({JobHealth(j) : j \in js \cap ServiceJobs}, ById(js, JobLink), {})

EvaluationList(es) ==
    View({}, UNION {JobLink(JobOf[e]) \cup EvaluationLink(e) : e \in es}, {})

DeploymentAction(d) == {<<"deployment", d>>}

DeploymentList(ds) ==
    View({}, UNION {JobLink(JobOf[d]) \cup DeploymentLink(d) : d \in ds},
         ById(ds, DeploymentAction))

(* Pages with a list and nothing else.                                     *)
ListPage(name, keys, view) ==
    Together({View({Part(name, None, {}, keys)}, {}, {}), view})

Clients == ListPage("Clients", {List("NODES")}, View({}, ById(Nodes, ClientLink), {}))
Servers == ListPage("Servers", {List("MEMBERS")}, View({}, ById(Members, ServerLink), {}))
Allocations == ListPage("Allocations", {List("ALLOCS_SHALLOW"), List("NODES")},
                        AllocationList(Loaded("allocations", Allocs)))
Evaluations == ListPage("Evaluations", {List("EVALS")}, EvaluationList(Evals))
DeploymentsPage == ListPage("Deployments", {List("DEPLOYMENTS")}, DeploymentList(Deployments))

JobsPage ==
    ListPage("Jobs", {List("JOBS")},
             Together({View({}, Filtered, {}),
                       JobList(IF route.hidden THEN {} ELSE Loaded("jobs", Jobs))}))

ClusterEvents ==
    View({Part("ClusterEvents", None, {List("ALLOCS")}, {})},
         UNION {AllocationLink(a, "info") : a \in Loaded("allocations", Allocs)}, {})

Cluster ==
    Together({ClusterEvents,
              View({Part("Cluster", None, {List(k) : k \in {"JOBS", "NODES", "MEMBERS",
                                                            "CLUSTER_STATISTICS"}}, {})}, {}, {})})

System == View({}, {}, {<<"cluster", None>>})

-----------------------------------------------------------------------------
(* Jobs. *)

(* Both of its watches begin before the page is drawn; what it does when   *)
(* the address changes is Browser's JobUpdate.                             *)
JobPart == [Part("Job", None, {Key("JOB_VERSIONS", route.id), JobKey(route.id, route.version)}, {})
              EXCEPT !.follows = TRUE]

Children(j) == {c \in Jobs : ParentOf[c] = j}

JobChildren(j) ==
    Together({View({Part("JobChildren", None, {}, {Key("JOBS_FILTERED", j)})}, {}, {}),
              JobList(ById(Held("filteredJobs"), Children))})

JobAllocations ==
    Together({View({Part("JobAllocations", None,
                         {Key("JOB_ALLOCATIONS", route.id), List("NODES")}, {})}, {}, {}),
              AllocationList({a \in Allocs : JobOf[a] \in Held("jobAllocations")})})

JobEvaluations ==
    Together({View({Part("JobEvaluations", None, {List("EVALS")}, {})}, {}, {}),
              EvaluationList({e \in Evals : JobOf[e] = route.id})})

JobDeployments ==
    ListPage("JobDeployments", {Key("JOB_DEPLOYMENTS", route.id)},
             DeploymentList({d \in Deployments : JobOf[d] = route.id}))

(* Scaling and stopping a group, of an old version too.                    *)
JobInfo(j) == View({}, JobGroupLink(j), {<<"job", j>>})

(* Scaling, restarting and stopping a group; not for an old version.       *)
JobTaskGroups(j) ==
    View({}, JobGroupLink(j), IF route.version = 0 THEN {<<"job", j>>} ELSE {})

JobTab(j) ==
    CASE route.tab = "info" -> JobInfo(j)
      [] route.tab = "groups" -> JobTaskGroups(j)
      [] route.tab = "children" -> JobChildren(j)
      [] route.tab = "allocations" -> JobAllocations
      [] route.tab = "evaluations" -> JobEvaluations
      [] route.tab = "deployments" -> JobDeployments
      [] OTHER -> Nothing

JobTopbar(j) ==
    LET names == {"info", "groups"}
                   \cup (IF j \in Periodic THEN {"children"} ELSE {})
                   \cup (IF route.version = 0 /\ j \notin Periodic
                         THEN {"deployments", "allocations", "evaluations"} ELSE {})
    IN  View({}, {Address("job", j, t, route.version) : t \in names}, {})

(* The parent, the job, and the menu of its versions.                      *)
JobBreadcrumb(j) ==
    View({}, {Page("jobs")} \cup ById({ParentOf[j]} \ {None}, JobLink)
               \cup {Address("job", j, "info", v) : v \in 0..(Latest[j] - 1)}, {})

(* The path of the open tab, without the query.                            *)
JobTabLink(j) == View({}, {Item("job", j, route.tab)}, {})

(* Editing, stopping, restarting and evaluating.                           *)
JobActionMenu(j) == View({}, {}, IF route.version = 0 THEN {<<"job", j>>} ELSE {})

(* It runs the job of the address, not the one of the store.               *)
ForceRun(j) == View({}, {}, IF j \in Periodic THEN {<<"job", route.id>>} ELSE {})

JobLoaded(j) ==
    Together({JobTopbar(j), JobBreadcrumb(j), JobTabLink(j), JobActionMenu(j), ForceRun(j),
              JobTab(j)})

JobPage == ItemPage(JobPart, {JobLoaded(j) : j \in Held("job")})

-----------------------------------------------------------------------------
(* Clients, servers. *)

ClientStats(n) == View({Part("ClientStats", None, {Key("CLIENT_STATS", n)}, {})}, {}, {})

ClientAllocations(n) ==
    Together({View({Part("ClientAllocations", None, {List("ALLOCS_SHALLOW")}, {})}, {}, {}),
              AllocationList({a \in Loaded("allocations", Allocs) : NodeOf[a] = n})})

ClientEvaluations ==
    Together({View({Part("ClientEvaluations", None, {List("EVALS")}, {})}, {}, {}),
              EvaluationList(Evals)})

ClientTopbar(n) == Tabs("client", n, {"info", "stats", "allocations", "evaluations"})

(* Draining, eligibility, removal.                                         *)
ClientActionMenu(n) == View({}, {}, {<<"client", n>>})

ClientTab(n) ==
    CASE route.tab = "stats" -> ClientStats(n)
      [] route.tab = "allocations" -> ClientAllocations(n)
      [] route.tab = "evaluations" -> ClientEvaluations
      [] OTHER -> Nothing

ClientLoaded(n) == Together({ClientTopbar(n), ClientActionMenu(n), ClientTab(n)})

Client ==
    ItemPage(Part("Client", None, {Key("NODE", route.id)}, {}),
             {ClientLoaded(n) : n \in Held("node")})

ServerTopbar(m) == Tabs("server", m, {"info"})

Server ==
    ItemPage(Part("Server", None, {Key("MEMBER", route.id)}, {}),
             {ServerTopbar(m) : m \in Held("member")})

-----------------------------------------------------------------------------
(* Evaluations, deployments, allocations. *)

(* The page itself ignores a new evaluation; its tab "info", when it is    *)
(* open before and after, watches it.                                      *)
EvaluationPart ==
    [Part("Evaluation", None,
          {Key("EVAL", route.id), List("ALLOCS_SHALLOW"), List("NODES")}, {})
        EXCEPT !.follows = route.tab = "info"]

EvaluationInfo(e) ==
    View({}, JobLink(JobOf[e]) \cup ById(Related[e], EvaluationLink), {})

EvaluationAllocations(e) ==
    AllocationList({a \in Loaded("allocations", Allocs) : JobOf[a] = JobOf[e]})

EvaluationTopbar(e) == Tabs("evaluation", e, {"info", "allocations"})

EvaluationTab(e) ==
    CASE route.tab = "info" -> EvaluationInfo(e)
      [] route.tab = "allocations" -> EvaluationAllocations(e)
      [] OTHER -> Nothing

EvaluationLoaded(e) == Together({EvaluationTopbar(e), EvaluationTab(e)})

Evaluation == ItemPage(EvaluationPart, {EvaluationLoaded(e) : e \in Held("evaluation")})

DeploymentAllocations ==
    Together({View({Part("DeploymentAllocations", None,
                         {Key("DEPLOYMENT_ALLOCATIONS", route.id), List("NODES")}, {})}, {}, {}),
              AllocationList({a \in Allocs :
                  \E d \in Held("deploymentAllocations") : JobOf[a] = JobOf[d]})})

DeploymentInfo(d) == View({}, {}, DeploymentAction(d))

DeploymentTopbar(d) == Tabs("deployment", d, {"info", "allocations"})

DeploymentBreadcrumb(d) ==
    View({}, {Page("jobs")} \cup JobLink(JobOf[d])
               \cup {Item("job", JobOf[d], "deployments")} \cup DeploymentLink(d), {})

DeploymentTab(d) ==
    CASE route.tab = "info" -> DeploymentInfo(d)
      [] route.tab = "allocations" -> DeploymentAllocations
      [] OTHER -> Nothing

DeploymentLoaded(d) ==
    Together({DeploymentTopbar(d), DeploymentBreadcrumb(d), DeploymentTab(d)})

Deployment ==
    ItemPage(Part("Deployment", None, {Key("DEPLOYMENT", route.id)}, {}),
             {DeploymentLoaded(d) : d \in Held("deployment")})

(* Of a new allocation it asks for the node of the one it shows.           *)
AllocationPart ==
    [Part("Allocation", None, {Key("ALLOC", route.id)}, {})
        EXCEPT !.follows = TRUE,
               !.fetches = {Key("NODE", NodeOf[a]) : a \in Held("allocation")}]

(* Its query of the node is answered into the entry of the client page.    *)
AllocationInfo(a) ==
    View({[Part("AllocationInfo", None, {}, {}) EXCEPT !.fetches = {Key("NODE", NodeOf[a])}]},
         JobLink(JobOf[a]) \cup JobGroupLink(JobOf[a]) \cup ClientLink(NodeOf[a]), {})

AllocationStats(a) == View({Part("AllocationStats", None, {Key("STATS", a)}, {})}, {}, {})

(* FileViewer models the page itself.                                      *)
AllocationFiles == View({Part("AllocationFiles", None, {}, {List("NODES")})}, {}, {})

(* The logs are files.                                                     *)
AllocationTopbar(a) == Tabs("allocation", a, {"info", "stats", "files"})

AllocationBreadcrumb(a) ==
    View({AllocationConsulHealth(a)},
         {Page("jobs")} \cup JobLink(JobOf[a]) \cup {Item("job", JobOf[a], "allocations")}
             \cup AllocationLink(a, "info") \cup AllocationLink(a, route.tab)
             \cup ClientLink(NodeOf[a]),
         {})

AllocationTab(a) ==
    CASE route.tab = "info" -> AllocationInfo(a)
      [] route.tab = "stats" -> AllocationStats(a)
      [] route.tab = "files" -> AllocationFiles
      [] OTHER -> Nothing

AllocationLoaded(a) ==
    Together({AllocationTopbar(a), AllocationBreadcrumb(a), AllocationTab(a)})

Allocation == ItemPage(AllocationPart, {AllocationLoaded(a) : a \in Held("allocation")})

-----------------------------------------------------------------------------
(* Consul: one component for the list and for one of its objects. *)

ConsulPage(name, page, list, kind, objects) ==
    LET own == {Key(kind, x) : x \in {route.id} \ {None}}
    IN  View({[Part(name, None, {}, {List(list)} \cup own) EXCEPT !.follows = TRUE]},
             {Item(page, x, "list") : x \in objects}, {})

(* Deregistering a service or a check acts at the agent of its node.       *)
ConsulServices ==
    Together({ConsulPage("ConsulServices", "services", "SERVICES", "SERVICE", Services),
              View({}, {}, {<<"services", s>> : s \in Held("consulService")})})

ConsulNodesPage ==
    Together({ConsulPage("ConsulNodes", "consul_nodes", "CONSUL_NODES", "CONSUL_NODE", ConsulNodes),
              View({}, {}, {<<"consul_nodes", n>> : n \in Held("consulNode")})})

(* Destroying a session leaves its page.                                   *)
ConsulSessions ==
    Together({ConsulPage("ConsulSessions", "sessions", "SESSIONS", "SESSION", Sessions),
              View({}, {Page("sessions")}, {<<"sessions", s>> : s \in Held("consulSession")})})

(* KVEditor models the page itself; this is its root, which is not given   *)
(* up: componentWillUnmount only does that for a path below it.            *)
ConsulKV ==
    View({[Part("ConsulKV", None, {}, {List("KV_PATH")}) EXCEPT !.ends = {}]}, {}, {})

-----------------------------------------------------------------------------
(* The routes. *)

Lists ==
    CASE route.page = "clients" -> Clients
      [] route.page = "servers" -> Servers
      [] route.page = "jobs" -> JobsPage
      [] route.page = "deployments" -> DeploymentsPage
      [] route.page = "allocations" -> Allocations
      [] route.page = "evaluations" -> Evaluations
      [] route.page = "cluster" -> Cluster
      [] route.page = "system" -> System
      [] OTHER -> Nothing

Items ==
    CASE route.page = "job" -> JobPage
      [] route.page = "client" -> Client
      [] route.page = "server" -> Server
      [] route.page = "evaluation" -> Evaluation
      [] route.page = "deployment" -> Deployment
      [] route.page = "allocation" -> Allocation
      [] OTHER -> Nothing

Consul ==
    CASE route.page = "services" -> ConsulServices
      [] route.page = "consul_nodes" -> ConsulNodesPage
      [] route.page = "sessions" -> ConsulSessions
      [] route.page = "kv" -> ConsulKV
      [] OTHER -> Nothing

(* The placeholder of Loadable until the chunk of the page is there.       *)
Routed == IF loading THEN Nothing ELSE Together({Lists, Items, Consul})

(* The menu of the section; without a region there is nothing to open.     *)
App ==
    Together({Routed,
              View({}, CASE route.page \in NomadPages -> NomadMainNav
                         [] route.page \in ConsulPages -> ConsulMainNav
                         [] OTHER -> {}, {})})
=============================================================================
