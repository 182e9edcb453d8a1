---------------------------- MODULE BrowserProofs -----------------------------
(***************************************************************************)
(* The app runs once; nobody is served for ever, and who is shown is       *)
(* served; the store keeps nothing stale, a page acts on what its address  *)
(* names, and addresses and keys name objects of the right kind: for every *)
(* value of the constants.                                                 *)
(*                                                                         *)
(* What Pages contributes is told first: the parts a page can have, one    *)
(* set for each page, and what is true of each of them by its name.  Then  *)
(* the argument is about Browser alone, but for the types, where Pages is  *)
(* read once more for the links of its views and the keys of its parts.    *)
(***************************************************************************)
EXTENDS Browser, FiniteSetTheorems, TLAPS

Root == List("KV_PATH")

-----------------------------------------------------------------------------
(* The parts of each page. *)

Plain(name, before, after) == Part(name, None, before, after)

(* The rows of a list, on any page.                                        *)
RowPart(p) ==
    \E x : p \in {AllocationStatsCell(x), AllocationConsulHealth(x), JobHealth(x)}

ClusterParts ==
    {Plain("ClusterEvents", {List("ALLOCS")}, {}),
     Plain("Cluster", {List(k) : k \in {"JOBS", "NODES", "MEMBERS", "CLUSTER_STATISTICS"}}, {})}

JobParts ==
    {JobPart,
     Plain("JobAllocations", {Key("JOB_ALLOCATIONS", route.id), List("NODES")}, {}),
     Plain("JobEvaluations", {List("EVALS")}, {}),
     Plain("JobDeployments", {}, {Key("JOB_DEPLOYMENTS", route.id)})}
      \cup {Plain("JobChildren", {}, {Key("JOBS_FILTERED", j)}) : j \in Held("job")}

ClientParts ==
    {Plain("Client", {Key("NODE", route.id)}, {}),
     Plain("ClientAllocations", {List("ALLOCS_SHALLOW")}, {}),
     Plain("ClientEvaluations", {List("EVALS")}, {})}
      \cup {Plain("ClientStats", {Key("CLIENT_STATS", n)}, {}) : n \in Held("node")}

DeploymentParts ==
    {Plain("Deployment", {Key("DEPLOYMENT", route.id)}, {}),
     Plain("DeploymentAllocations",
           {Key("DEPLOYMENT_ALLOCATIONS", route.id), List("NODES")}, {})}

InfoPart(a) == [Part("AllocationInfo", None, {}, {}) EXCEPT !.fetches = {Key("NODE", NodeOf[a])}]

AllocationParts ==
    {AllocationPart, Plain("AllocationFiles", {}, {List("NODES")})}
      \cup {InfoPart(a) : a \in Held("allocation")}
      \cup {Plain("AllocationStats", {Key("STATS", a)}, {}) : a \in Held("allocation")}

Own(kind) == {Key(kind, x) : x \in {route.id} \ {None}}

ConsulPart(name, list, kind) ==
    [Part(name, None, {}, {List(list)} \cup Own(kind)) EXCEPT !.follows = TRUE]

RootPart == [Part("ConsulKV", None, {}, {List("KV_PATH")}) EXCEPT !.ends = {}]

PageParts ==
    CASE route.page = "clients" -> {Plain("Clients", {}, {List("NODES")})}
      [] route.page = "servers" -> {Plain("Servers", {}, {List("MEMBERS")})}
      [] route.page = "jobs" -> {Plain("Jobs", {}, {List("JOBS")})}
      [] route.page = "deployments" -> {Plain("Deployments", {}, {List("DEPLOYMENTS")})}
      [] route.page = "allocations" ->
             {Plain("Allocations", {}, {List("ALLOCS_SHALLOW"), List("NODES")})}
      [] route.page = "evaluations" -> {Plain("Evaluations", {}, {List("EVALS")})}
      [] route.page = "cluster" -> ClusterParts
      [] route.page = "job" -> JobParts
      [] route.page = "client" -> ClientParts
      [] route.page = "server" -> {Plain("Server", {Key("MEMBER", route.id)}, {})}
      [] route.page = "evaluation" -> {EvaluationPart}
      [] route.page = "deployment" -> DeploymentParts
      [] route.page = "allocation" -> AllocationParts
      [] route.page = "services" -> {ConsulPart("ConsulServices", "SERVICES", "SERVICE")}
      [] route.page = "consul_nodes" -> {ConsulPart("ConsulNodes", "CONSUL_NODES", "CONSUL_NODE")}
      [] route.page = "sessions" -> {ConsulPart("ConsulSessions", "SESSIONS", "SESSION")}
      [] route.page = "kv" -> {RootPart}
      [] OTHER -> {}

Belongs(p) == RowPart(p) \/ p \in PageParts

(* A command acts on what the address names, or on what is in the entry of *)
(* the store that the page shows.                                          *)
Main ==
    CASE route.page = "job" -> "job"
      [] route.page = "client" -> "node"
      [] route.page = "deployment" -> "deployment"
      [] route.page = "services" -> "consulService"
      [] route.page = "consul_nodes" -> "consulNode"
      [] OTHER -> "consulSession"

ItemPages == {"job", "client", "deployment", "services", "consul_nodes", "sessions"}

Aims(t) ==
    t[1] = route.page =>
        t[2] = route.id \/ (route.page \in ItemPages /\ t[2] \in Held(Main))

AllBelong(view) == (\A p \in view.parts : Belongs(p)) /\ (\A t \in view.targets : Aims(t))

LEMMA TogetherBelongs ==
    ASSUME NEW views, \A v \in views : AllBelong(v)
    PROVE  AllBelong(Together(views))
BY DEF AllBelong, Together, View

LEMMA NoParts ==
    ASSUME NEW links, NEW targets, \A t \in targets : Aims(t)
    PROVE  AllBelong(View({}, links, targets))
BY DEF AllBelong, View

LEMMA OnePart ==
    ASSUME NEW p, NEW links, NEW targets, \A t \in targets : Aims(t), Belongs(p)
    PROVE  AllBelong(View({p}, links, targets))
BY DEF AllBelong, View

LEMMA ManyParts ==
    ASSUME NEW parts, NEW links, NEW targets, \A t \in targets : Aims(t), \A p \in parts : Belongs(p)
    PROVE  AllBelong(View(parts, links, targets))
BY DEF AllBelong, View

LEMMA BothBelong ==
    ASSUME NEW v, NEW w, AllBelong(v), AllBelong(w)
    PROVE  AllBelong(Together({v, w}))
BY TogetherBelongs

LEMMA ListPageBelongs ==
    ASSUME NEW name, NEW keys, NEW view, AllBelong(view), Belongs(Plain(name, {}, keys))
    PROVE  AllBelong(ListPage(name, keys, view))
<1>1. AllBelong(View({Plain(name, {}, keys)}, {}, {}))
  BY OnePart
<1> QED BY <1>1, BothBelong DEF ListPage, Plain

-----------------------------------------------------------------------------
(* The lists. *)

LEMMA AllocationListBelongs ==
    ASSUME NEW as
    PROVE  AllBelong(AllocationList(as))
<1> DEFINE rows == {AllocationRow(a) : a \in IF route.hidden THEN {} ELSE as}
<1>1. ASSUME NEW a PROVE AllBelong(AllocationRow(a))
  <2>1. Belongs(AllocationStatsCell(a)) /\ Belongs(AllocationConsulHealth(a))
    BY DEF Belongs, RowPart
  <2>2. \A p \in {AllocationStatsCell(a), AllocationConsulHealth(a)} : Belongs(p)
    BY <2>1
  <2> QED BY <2>2, ManyParts, Zenon DEF AllocationRow
<1>2. AllBelong(View({}, Filtered, {})) BY NoParts
<1>3. \A v \in {View({}, Filtered, {})} \cup rows : AllBelong(v) BY <1>1, <1>2
<1> QED BY <1>3, TogetherBelongs DEF AllocationList

LEMMA JobListBelongs ==
    ASSUME NEW js
    PROVE  AllBelong(JobList(js))
<1>1. \A p \in {JobHealth(j) : j \in js \cap ServiceJobs} : Belongs(p)
  BY DEF Belongs, RowPart
<1> QED BY <1>1, ManyParts, Zenon DEF JobList

(* A list of deployments acts on those, and is never the page of one.      *)
LEMMA DeploymentListBelongs ==
    ASSUME NEW ds, route.page # "deployment"
    PROVE  AllBelong(DeploymentList(ds))
<1>1. \A t \in ById(ds, DeploymentAction) : Aims(t)
  BY DEF ById, DeploymentAction, Aims
<1> QED BY <1>1, NoParts, Zenon DEF DeploymentList

LEMMA ListsBelong == AllBelong(Lists)
<1>1. CASE route.page \in {"clients", "servers", "evaluations", "deployments"}
  <2>1. ASSUME route.page = "clients" PROVE AllBelong(Clients)
    <3>1. Belongs(Plain("Clients", {}, {List("NODES")})) BY <2>1 DEF Belongs, PageParts
    <3> QED BY <3>1, NoParts, ListPageBelongs, Zenon DEF Clients
  <2>2. ASSUME route.page = "servers" PROVE AllBelong(Servers)
    <3>1. Belongs(Plain("Servers", {}, {List("MEMBERS")})) BY <2>2 DEF Belongs, PageParts
    <3> QED BY <3>1, NoParts, ListPageBelongs, Zenon DEF Servers
  <2>3. ASSUME route.page = "evaluations" PROVE AllBelong(Evaluations)
    <3>1. Belongs(Plain("Evaluations", {}, {List("EVALS")})) BY <2>3 DEF Belongs, PageParts
    <3> QED BY <3>1, NoParts, ListPageBelongs, Zenon DEF Evaluations, EvaluationList
  <2>4. ASSUME route.page = "deployments" PROVE AllBelong(DeploymentsPage)
    <3>1. Belongs(Plain("Deployments", {}, {List("DEPLOYMENTS")})) BY <2>4 DEF Belongs, PageParts
    <3> QED BY <2>4, <3>1, DeploymentListBelongs, ListPageBelongs DEF DeploymentsPage
  <2> QED BY <1>1, <2>1, <2>2, <2>3, <2>4 DEF Lists
<1>2. CASE route.page = "allocations"
  <2>1. Belongs(Plain("Allocations", {}, {List("ALLOCS_SHALLOW"), List("NODES")}))
    BY <1>2 DEF Belongs, PageParts
  <2>2. AllBelong(Allocations)
    BY <2>1, AllocationListBelongs, ListPageBelongs, Zenon DEF Allocations
  <2> QED BY <1>2, <2>2 DEF Lists
<1>3. CASE route.page = "jobs"
  <2> DEFINE js == IF route.hidden THEN {} ELSE Loaded("jobs", Jobs)
  <2>1. AllBelong(JobList(js)) BY JobListBelongs
  <2>2. AllBelong(View({}, Filtered, {})) BY NoParts
  <2>3. AllBelong(Together({View({}, Filtered, {}), JobList(js)})) BY <2>1, <2>2, BothBelong
  <2>4. Belongs(Plain("Jobs", {}, {List("JOBS")})) BY <1>3 DEF Belongs, PageParts
  <2>5. AllBelong(JobsPage) BY <2>3, <2>4, ListPageBelongs DEF JobsPage
  <2> QED BY <1>3, <2>5 DEF Lists
<1>4. CASE route.page = "cluster"
  <2>1. PageParts = ClusterParts BY <1>4 DEF PageParts
  <2> DEFINE p == Plain("ClusterEvents", {List("ALLOCS")}, {})
             q == Plain("Cluster", {List(k) : k \in {"JOBS", "NODES", "MEMBERS",
                                                     "CLUSTER_STATISTICS"}}, {})
  <2>2. Belongs(p) /\ Belongs(q) BY <2>1 DEF Belongs, ClusterParts
  <2>3. AllBelong(ClusterEvents) BY <2>2, OnePart, Zenon DEF ClusterEvents, Plain
  <2>4. AllBelong(View({q}, {}, {})) BY <2>2, OnePart, Zenon
  <2>5. AllBelong(Cluster) BY <2>3, <2>4, BothBelong DEF Cluster, Plain
  <2> QED BY <1>4, <2>5 DEF Lists
<1>5. AllBelong(Nothing) BY NoParts DEF Nothing
<1>6. ASSUME route.page = "system" PROVE AllBelong(System)
  <2>1. \A t \in {<<"cluster", None>>} : Aims(t) BY <1>6 DEF Aims
  <2> QED BY <2>1, NoParts DEF System
<1> QED BY <1>1, <1>2, <1>3, <1>4, <1>5, <1>6 DEF Lists

-----------------------------------------------------------------------------
(* The pages of one object. *)

(* What a page shows of an object: the page's own part, and the views of   *)
(* the objects its entry holds.                                            *)
LEMMA ItemBelongs ==
    ASSUME NEW part, Belongs(part), NEW inner, \A v \in inner : AllBelong(v)
    PROVE  AllBelong(ItemPage(part, inner))
<1>1. AllBelong(View({part}, {}, {})) BY OnePart
<1> QED BY <1>1, TogetherBelongs DEF ItemPage

LEMMA JobPageBelongs ==
    ASSUME route.page = "job"
    PROVE  AllBelong(JobPage)
<1>1. PageParts = JobParts BY DEF PageParts
<1>2. ASSUME NEW j \in Held("job") PROVE AllBelong(JobTab(j))
  <2>1. AllBelong(JobInfo(j)) /\ AllBelong(JobTaskGroups(j)) /\ AllBelong(Nothing)
    <3>1. Aims(<<"job", j>>) BY DEF Aims, Main, ItemPages
    <3> QED BY <3>1, NoParts DEF JobInfo, JobTaskGroups, Nothing
  <2>2. AllBelong(JobChildren(j))
    <3> DEFINE p == Plain("JobChildren", {}, {Key("JOBS_FILTERED", j)})
    <3>1. Belongs(p) BY <1>1 DEF Belongs, JobParts
    <3>2. AllBelong(View({p}, {}, {})) BY <3>1, OnePart, Zenon
    <3>3. AllBelong(JobList(ById(Held("filteredJobs"), Children))) BY JobListBelongs, Zenon
    <3> QED BY <3>2, <3>3, BothBelong, Zenon DEF JobChildren, Plain
  <2>3. AllBelong(JobAllocations)
    <3> DEFINE p == Plain("JobAllocations", {Key("JOB_ALLOCATIONS", route.id), List("NODES")}, {})
    <3>1. Belongs(p) BY <1>1 DEF Belongs, JobParts
    <3>2. AllBelong(View({p}, {}, {})) BY <3>1, OnePart, Zenon
    <3> QED BY <3>2, AllocationListBelongs, BothBelong, Zenon DEF JobAllocations, Plain
  <2>4. AllBelong(JobEvaluations)
    <3> DEFINE p == Plain("JobEvaluations", {List("EVALS")}, {})
    <3>1. Belongs(p) BY <1>1 DEF Belongs, JobParts
    <3>2. AllBelong(View({p}, {}, {})) BY <3>1, OnePart, Zenon
    <3>3. \A es : AllBelong(EvaluationList(es)) BY NoParts DEF EvaluationList
    <3> QED BY <3>2, <3>3, BothBelong, Zenon DEF JobEvaluations, Plain
  <2>5. AllBelong(JobDeployments)
    <3>1. Belongs(Plain("JobDeployments", {}, {Key("JOB_DEPLOYMENTS", route.id)}))
      BY <1>1 DEF Belongs, JobParts
    <3>2. \A ds : AllBelong(DeploymentList(ds)) BY DeploymentListBelongs
    <3> QED BY <3>1, <3>2, ListPageBelongs, Zenon DEF JobDeployments
  <2> QED BY <2>1, <2>2, <2>3, <2>4, <2>5 DEF JobTab
<1>3. ASSUME NEW j \in Held("job") PROVE AllBelong(JobLoaded(j))
  <2>1. AllBelong(JobTopbar(j)) /\ AllBelong(JobTabLink(j)) /\ AllBelong(JobActionMenu(j))
    <3>1. Aims(<<"job", j>>) BY DEF Aims, Main, ItemPages
    <3> QED BY <3>1, NoParts DEF JobTopbar, JobTabLink, JobActionMenu
  <2>2. AllBelong(JobBreadcrumb(j)) /\ AllBelong(ForceRun(j))
    <3>1. \A t \in IF j \in Periodic THEN {<<"job", route.id>>} ELSE {} : Aims(t) BY DEF Aims
    <3> QED BY <3>1, NoParts, Zenon DEF JobBreadcrumb, ForceRun
  <2> QED BY <1>2, <2>1, <2>2, TogetherBelongs DEF JobLoaded
<1>4. Belongs(JobPart) BY <1>1 DEF Belongs, JobParts
<1> QED BY <1>3, <1>4, ItemBelongs, Zenon DEF JobPage

LEMMA ClientBelongs ==
    ASSUME route.page = "client"
    PROVE  AllBelong(Client)
<1>1. PageParts = ClientParts BY DEF PageParts
<1>2. ASSUME NEW n \in Held("node") PROVE AllBelong(ClientLoaded(n))
  <2>1. AllBelong(ClientTopbar(n)) /\ AllBelong(ClientActionMenu(n)) /\ AllBelong(Nothing)
    <3>1. \A t \in {<<"client", n>>} : Aims(t) BY DEF Aims, Main, ItemPages
    <3> QED BY <3>1, NoParts DEF ClientTopbar, ClientActionMenu, Tabs, Nothing
  <2>2. AllBelong(ClientStats(n))
    <3>1. Belongs(Plain("ClientStats", {Key("CLIENT_STATS", n)}, {}))
      BY <1>1 DEF Belongs, ClientParts
    <3> QED BY <3>1, OnePart, Zenon DEF ClientStats, Plain
  <2>3. AllBelong(ClientAllocations(n))
    <3> DEFINE p == Plain("ClientAllocations", {List("ALLOCS_SHALLOW")}, {})
    <3>1. Belongs(p) BY <1>1 DEF Belongs, ClientParts
    <3>2. AllBelong(View({p}, {}, {})) BY <3>1, OnePart, Zenon
    <3> QED BY <3>2, AllocationListBelongs, BothBelong, Zenon DEF ClientAllocations, Plain
  <2>4. AllBelong(ClientEvaluations)
    <3> DEFINE p == Plain("ClientEvaluations", {List("EVALS")}, {})
    <3>1. Belongs(p) BY <1>1 DEF Belongs, ClientParts
    <3>2. AllBelong(View({p}, {}, {})) BY <3>1, OnePart, Zenon
    <3>3. AllBelong(EvaluationList(Evals)) BY NoParts DEF EvaluationList
    <3> QED BY <3>2, <3>3, BothBelong, Zenon DEF ClientEvaluations, Plain
  <2>5. AllBelong(ClientTab(n)) BY <2>1, <2>2, <2>3, <2>4 DEF ClientTab
  <2> QED BY <2>1, <2>5, TogetherBelongs DEF ClientLoaded
<1>3. Belongs(Plain("Client", {Key("NODE", route.id)}, {}))
  BY <1>1 DEF Belongs, ClientParts
<1> QED BY <1>2, <1>3, ItemBelongs, Zenon DEF Client, Plain

LEMMA ServerBelongs ==
    ASSUME route.page = "server"
    PROVE  AllBelong(Server)
<1>1. \A m : AllBelong(ServerTopbar(m)) BY NoParts DEF ServerTopbar, Tabs
<1>2. Belongs(Plain("Server", {Key("MEMBER", route.id)}, {})) BY DEF Belongs, PageParts
<1> QED BY <1>1, <1>2, ItemBelongs, Zenon DEF Server, Plain

LEMMA EvaluationBelongs ==
    ASSUME route.page = "evaluation"
    PROVE  AllBelong(Evaluation)
<1>1. ASSUME NEW e PROVE AllBelong(EvaluationLoaded(e))
  <2>1. AllBelong(EvaluationTopbar(e)) /\ AllBelong(Nothing)
    BY NoParts DEF EvaluationTopbar, Tabs, Nothing
  <2>2. AllBelong(EvaluationInfo(e)) BY NoParts, Zenon DEF EvaluationInfo
  <2>3. AllBelong(EvaluationAllocations(e)) BY AllocationListBelongs DEF EvaluationAllocations
  <2>4. AllBelong(EvaluationTab(e)) BY <2>1, <2>2, <2>3 DEF EvaluationTab
  <2> QED BY <2>1, <2>4, BothBelong DEF EvaluationLoaded
<1>2. Belongs(EvaluationPart) BY DEF Belongs, PageParts
<1> QED BY <1>1, <1>2, ItemBelongs, Zenon DEF Evaluation

LEMMA DeploymentBelongs ==
    ASSUME route.page = "deployment"
    PROVE  AllBelong(Deployment)
<1>1. PageParts = DeploymentParts BY DEF PageParts
<1>2. ASSUME NEW d \in Held("deployment") PROVE AllBelong(DeploymentLoaded(d))
  <2>1. AllBelong(DeploymentTopbar(d)) /\ AllBelong(DeploymentBreadcrumb(d))
          /\ AllBelong(DeploymentInfo(d)) /\ AllBelong(Nothing)
    <3>1. Aims(<<"deployment", d>>) BY DEF Aims, Main, ItemPages
    <3>2. \A t \in DeploymentAction(d) : Aims(t) BY <3>1 DEF DeploymentAction
    <3> QED BY <3>2, NoParts DEF DeploymentTopbar, DeploymentBreadcrumb, DeploymentInfo, Tabs, Nothing
  <2>2. AllBelong(DeploymentAllocations)
    <3> DEFINE p == Plain("DeploymentAllocations",
                          {Key("DEPLOYMENT_ALLOCATIONS", route.id), List("NODES")}, {})
    <3>1. Belongs(p) BY <1>1 DEF Belongs, DeploymentParts
    <3>2. AllBelong(View({p}, {}, {})) BY <3>1, OnePart, Zenon
    <3> QED BY <3>2, AllocationListBelongs, BothBelong, Zenon DEF DeploymentAllocations, Plain
  <2>3. AllBelong(DeploymentTab(d)) BY <2>1, <2>2 DEF DeploymentTab
  <2> QED BY <2>1, <2>3, TogetherBelongs DEF DeploymentLoaded
<1>3. Belongs(Plain("Deployment", {Key("DEPLOYMENT", route.id)}, {}))
  BY <1>1 DEF Belongs, DeploymentParts
<1> QED BY <1>2, <1>3, ItemBelongs, Zenon DEF Deployment, Plain

LEMMA AllocationBelongs ==
    ASSUME route.page = "allocation"
    PROVE  AllBelong(Allocation)
<1>1. PageParts = AllocationParts BY DEF PageParts
<1>2. ASSUME NEW a \in Held("allocation") PROVE AllBelong(AllocationLoaded(a))
  <2>1. AllBelong(AllocationTopbar(a)) /\ AllBelong(Nothing)
    BY NoParts DEF AllocationTopbar, Tabs, Nothing
  <2>2. AllBelong(AllocationBreadcrumb(a))
    <3>1. Belongs(AllocationConsulHealth(a)) BY DEF Belongs, RowPart
    <3> QED BY <3>1, OnePart, Zenon DEF AllocationBreadcrumb
  <2>3. AllBelong(AllocationStats(a)) /\ AllBelong(AllocationFiles)
    <3>1. /\ Belongs(Plain("AllocationStats", {Key("STATS", a)}, {}))
          /\ Belongs(Plain("AllocationFiles", {}, {List("NODES")}))
      BY <1>1 DEF Belongs, AllocationParts
    <3> QED BY <3>1, OnePart, Zenon DEF AllocationStats, AllocationFiles, Plain
  <2>4. AllBelong(AllocationInfo(a))
    <3>1. Belongs(InfoPart(a)) BY <1>1 DEF Belongs, AllocationParts
    <3> QED BY <3>1, OnePart, Zenon DEF AllocationInfo, InfoPart
  <2>5. AllBelong(AllocationTab(a)) BY <2>1, <2>3, <2>4 DEF AllocationTab
  <2> QED BY <2>1, <2>2, <2>5, TogetherBelongs DEF AllocationLoaded
<1>3. Belongs(AllocationPart) BY <1>1 DEF Belongs, AllocationParts
<1> QED BY <1>2, <1>3, ItemBelongs, Zenon DEF Allocation

LEMMA ItemsBelong == AllBelong(Items)
<1>1. AllBelong(Nothing) BY NoParts DEF Nothing
<1> QED BY <1>1, JobPageBelongs, ClientBelongs, ServerBelongs, EvaluationBelongs,
           DeploymentBelongs, AllocationBelongs DEF Items

-----------------------------------------------------------------------------
(* Consul, and all there is. *)

LEMMA ConsulPageBelongs ==
    ASSUME NEW name, NEW page, NEW list, NEW kind, NEW objects,
           Belongs(ConsulPart(name, list, kind))
    PROVE  AllBelong(ConsulPage(name, page, list, kind, objects))
BY OnePart, Zenon DEF ConsulPage, ConsulPart, Own

LEMMA ConsulBelongs == AllBelong(Consul)
<1>1. ASSUME route.page = "services" PROVE AllBelong(ConsulServices)
  <2>1. Belongs(ConsulPart("ConsulServices", "SERVICES", "SERVICE"))
    BY <1>1 DEF Belongs, PageParts
  <2>2. \A t \in {<<"services", s>> : s \in Held("consulService")} : Aims(t)
    BY <1>1 DEF Aims, Main, ItemPages
  <2> QED BY <2>1, <2>2, ConsulPageBelongs, NoParts, BothBelong, Zenon DEF ConsulServices
<1>2. ASSUME route.page = "consul_nodes" PROVE AllBelong(ConsulNodesPage)
  <2>1. Belongs(ConsulPart("ConsulNodes", "CONSUL_NODES", "CONSUL_NODE"))
    BY <1>2 DEF Belongs, PageParts
  <2>2. \A t \in {<<"consul_nodes", n>> : n \in Held("consulNode")} : Aims(t)
    BY <1>2 DEF Aims, Main, ItemPages
  <2> QED BY <2>1, <2>2, ConsulPageBelongs, NoParts, BothBelong, Zenon DEF ConsulNodesPage
<1>3. ASSUME route.page = "sessions" PROVE AllBelong(ConsulSessions)
  <2>1. Belongs(ConsulPart("ConsulSessions", "SESSIONS", "SESSION"))
    BY <1>3 DEF Belongs, PageParts
  <2>2. \A t \in {<<"sessions", s>> : s \in Held("consulSession")} : Aims(t)
    BY <1>3 DEF Aims, Main, ItemPages
  <2> QED BY <2>1, <2>2, ConsulPageBelongs, NoParts, BothBelong, Zenon DEF ConsulSessions
<1>4. ASSUME route.page = "kv" PROVE AllBelong(ConsulKV)
  <2>1. Belongs(RootPart) BY <1>4 DEF Belongs, PageParts
  <2> QED BY <2>1, OnePart, Zenon DEF ConsulKV, RootPart
<1>5. AllBelong(Nothing) BY NoParts DEF Nothing
<1> QED BY <1>1, <1>2, <1>3, <1>4, <1>5 DEF Consul

(* Whatever the address and the store are, the parts that are to be shown  *)
(* are those of the page, and rows; and the commands aim at its object.    *)
LEMMA AppBelongs == AllBelong(App)
<1>1. AllBelong(Nothing) BY NoParts DEF Nothing
<1>2. AllBelong(Together({Lists, Items, Consul}))
  BY ListsBelong, ItemsBelong, ConsulBelongs, TogetherBelongs
<1>3. AllBelong(Routed) BY <1>1, <1>2 DEF Routed
<1>4. \A links : AllBelong(View({}, links, {})) BY NoParts
<1> QED BY <1>3, <1>4, BothBelong DEF App

LEMMA TreeBelongs == \A p \in Tree : Belongs(p)
BY AppBelongs DEF Tree, AllBelong

-----------------------------------------------------------------------------
(* What is true of a part, by its name. *)

ConsulNames == {"ConsulServices", "ConsulNodes", "ConsulSessions"}

(* Those that ask in componentDidMount; the others do before.              *)
AfterNames ==
    {"AllocationStatsCell", "AllocationConsulHealth", "JobHealth", "Clients", "Servers", "Jobs",
     "Deployments", "Allocations", "Evaluations", "JobChildren", "JobDeployments",
     "AllocationFiles", "ConsulKV"} \cup ConsulNames

(* The entries of the store that the keys fill, and that are forgotten.    *)
Fills(keys) == (UNION {Entry(k) : k \in keys}) \ Kept

FillsOf(name) ==
    CASE name = "Job" -> {"job", "jobVersions"}
      [] name = "JobAllocations" -> {"jobAllocations"}
      [] name = "JobChildren" -> {"filteredJobs"}
      [] name = "Client" -> {"node"}
      [] name = "Server" -> {"member"}
      [] name = "Evaluation" -> {"evaluation"}
      [] name = "Deployment" -> {"deployment"}
      [] name = "DeploymentAllocations" -> {"deploymentAllocations"}
      [] name = "Allocation" -> {"allocation"}
      [] OTHER -> {}

(* A part gives up what it asks for, and nothing else; what it queries is  *)
(* not what it watches; what it fills in the store is known by its name,   *)
(* or it follows its address, key by key.                                  *)
GivesUp(p) == Keys(p) \ {Root} \subseteq p.ends /\ p.ends \subseteq Keys(p)

Well(p) ==
    /\ GivesUp(p)
    /\ (\A k \in p.fetches : k[1] = "NODE") /\ (\A k \in p.after : k[1] # "NODE")
    /\ (p.name \in AfterNames => p.before = {}) /\ (p.name \notin AfterNames => p.after = {})
    /\ p.name \in ConsulNames => p.follows /\ \A k \in Keys(p) : k = <<k[1], k[2], 0>>
    /\ p.name \notin ConsulNames => Fills(Keys(p)) = FillsOf(p.name)

LEMMA EntryIs ==
    ASSUME NEW k, NEW e
    PROVE  e \in Entry(k) <=>
              \/ k[1] = "ALLOC" /\ e = "allocation"
              \/ k[1] = "ALLOCS" /\ e = "allocations"
              \/ k[1] = "ALLOCS_SHALLOW" /\ e = "allocations"
              \/ k[1] = "JOB" /\ e = "job"
              \/ k[1] = "JOB_VERSIONS" /\ e = "jobVersions"
              \/ k[1] = "JOBS" /\ e = "jobs"
              \/ k[1] = "JOB_ALLOCATIONS" /\ e = "jobAllocations"
              \/ k[1] = "JOBS_FILTERED" /\ e = "filteredJobs"
              \/ k[1] = "NODE" /\ e = "node"
              \/ k[1] = "MEMBER" /\ e = "member"
              \/ k[1] = "EVAL" /\ e = "evaluation"
              \/ k[1] = "DEPLOYMENT" /\ e = "deployment"
              \/ k[1] = "DEPLOYMENT_ALLOCATIONS" /\ e = "deploymentAllocations"
              \/ k[1] = "CONSUL_NODE" /\ e = "consulNode"
              \/ k[1] = "SERVICE" /\ e = "consulService"
              \/ k[1] = "SESSION" /\ e = "consulSession"
<1>1. e \in Entry(k) <=> \E r \in Reducers : r[1] = k[1] /\ r[2] = e
  BY DEF Entry
<1> QED BY <1>1 DEF Reducers, AllocEntries, JobEntries, NodeEntries, MemberEntries, EvalEntries,
                    DeploymentEntries, ConsulEntries

LEMMA PartIsWell ==
    ASSUME NEW name, NEW id, NEW before, NEW after,
           \A k \in after : k[1] # "NODE",
           name \in AfterNames => before = {}, name \notin AfterNames => after = {},
           name \notin ConsulNames, Fills(before \cup after) = FillsOf(name)
    PROVE  Well(Part(name, id, before, after))
<1> DEFINE p == Part(name, id, before, after)
<1>1. /\ p.name = name /\ p.before = before /\ p.after = after /\ p.fetches = {}
      /\ p.ends = Keys(p) /\ Keys(p) = before \cup after
  BY DEF Part, Keys
<1> HIDE DEF p
<1>2. Well(p)
  BY <1>1 DEF Well, GivesUp
<1> QED BY <1>2 DEF p

LEMMA RowIsWell ==
    ASSUME NEW p, RowPart(p)
    PROVE  Well(p)
<1>1. ASSUME NEW x PROVE Well(AllocationStatsCell(x))
  <2>1. Fills({} \cup {<<"SIMPLE_STATS", x, 0>>}) = {} BY EntryIs DEF Fills
  <2> QED BY <2>1, PartIsWell DEF AllocationStatsCell, Key, FillsOf, AfterNames, ConsulNames
<1>2. ASSUME NEW x PROVE Well(AllocationConsulHealth(x))
  <2>1. Fills({} \cup {<<"ALLOC_HEALTH", x, 0>>}) = {} BY EntryIs DEF Fills
  <2> QED BY <2>1, PartIsWell DEF AllocationConsulHealth, Key, FillsOf, AfterNames, ConsulNames
<1>3. ASSUME NEW x PROVE Well(JobHealth(x))
  <2>1. Fills({} \cup {<<"JOB_HEALTH", x, 0>>}) = {} BY EntryIs DEF Fills
  <2> QED BY <2>1, PartIsWell DEF JobHealth, Key, FillsOf, AfterNames, ConsulNames
<1> QED BY <1>1, <1>2, <1>3 DEF RowPart

(* The pages that have a part for their list, and rows.                    *)
LEMMA ListsAreWell ==
    /\ Well(Plain("Clients", {}, {List("NODES")})) /\ Well(Plain("Servers", {}, {List("MEMBERS")}))
    /\ Well(Plain("Jobs", {}, {List("JOBS")}))
    /\ Well(Plain("Deployments", {}, {List("DEPLOYMENTS")}))
    /\ Well(Plain("Allocations", {}, {List("ALLOCS_SHALLOW"), List("NODES")}))
    /\ Well(Plain("Evaluations", {}, {List("EVALS")}))
<1>1. Well(Plain("Clients", {}, {List("NODES")}))
  <2>1. Fills({} \cup {List("NODES")}) = {}
    BY EntryIs DEF Fills, Kept, Key, List
  <2> QED BY <2>1, PartIsWell DEF Plain, Key, List, FillsOf, AfterNames, ConsulNames
<1>2. Well(Plain("Servers", {}, {List("MEMBERS")}))
  <2>1. Fills({} \cup {List("MEMBERS")}) = {}
    BY EntryIs DEF Fills, Kept, Key, List
  <2> QED BY <2>1, PartIsWell DEF Plain, Key, List, FillsOf, AfterNames, ConsulNames
<1>3. Well(Plain("Jobs", {}, {List("JOBS")}))
  <2>1. Fills({} \cup {List("JOBS")}) = {}
    BY EntryIs DEF Fills, Kept, Key, List
  <2> QED BY <2>1, PartIsWell DEF Plain, Key, List, FillsOf, AfterNames, ConsulNames
<1>4. Well(Plain("Deployments", {}, {List("DEPLOYMENTS")}))
  <2>1. Fills({} \cup {List("DEPLOYMENTS")}) = {}
    BY EntryIs DEF Fills, Kept, Key, List
  <2> QED BY <2>1, PartIsWell DEF Plain, Key, List, FillsOf, AfterNames, ConsulNames
<1>5. Well(Plain("Allocations", {}, {List("ALLOCS_SHALLOW"), List("NODES")}))
  <2>1. Fills({} \cup {List("ALLOCS_SHALLOW"), List("NODES")}) = {}
    BY EntryIs DEF Fills, Kept, Key, List
  <2> QED BY <2>1, PartIsWell DEF Plain, Key, List, FillsOf, AfterNames, ConsulNames
<1>6. Well(Plain("Evaluations", {}, {List("EVALS")}))
  <2>1. Fills({} \cup {List("EVALS")}) = {}
    BY EntryIs DEF Fills, Kept, Key, List
  <2> QED BY <2>1, PartIsWell DEF Plain, Key, List, FillsOf, AfterNames, ConsulNames
<1> QED BY <1>1, <1>2, <1>3, <1>4, <1>5, <1>6

LEMMA ClusterIsWell == \A p \in ClusterParts : Well(p)
<1>1. Well(Plain("ClusterEvents", {List("ALLOCS")}, {}))
  <2>1. Fills({List("ALLOCS")} \cup {}) = {}
    BY EntryIs DEF Fills, Kept, Key, List
  <2> QED BY <2>1, PartIsWell DEF Plain, Key, List, FillsOf, AfterNames, ConsulNames
<1>2. ASSUME NEW before,
             before = {List(k) : k \in {"JOBS", "NODES", "MEMBERS", "CLUSTER_STATISTICS"}}
      PROVE  Well(Plain("Cluster", before, {}))
  <2>1. before = {List("JOBS"), List("NODES"), List("MEMBERS"), List("CLUSTER_STATISTICS")}
    BY <1>2
  <2>2. Fills(before \cup {}) = {}
    BY <2>1, EntryIs DEF Fills, Kept, Key, List
  <2> QED BY <2>2, PartIsWell DEF Plain, FillsOf, AfterNames, ConsulNames
<1> QED BY <1>1, <1>2 DEF ClusterParts

LEMMA JobPartsAreWell == \A p \in JobParts : Well(p)
<1>1. Well(Plain("JobAllocations", {Key("JOB_ALLOCATIONS", route.id), List("NODES")}, {}))
  <2>1. Fills({Key("JOB_ALLOCATIONS", route.id), List("NODES")} \cup {}) = {"jobAllocations"}
    BY EntryIs DEF Fills, Kept, Key, List
  <2> QED BY <2>1, PartIsWell DEF Plain, Key, List, FillsOf, AfterNames, ConsulNames
<1>2. Well(Plain("JobEvaluations", {List("EVALS")}, {}))
  <2>1. Fills({List("EVALS")} \cup {}) = {}
    BY EntryIs DEF Fills, Kept, Key, List
  <2> QED BY <2>1, PartIsWell DEF Plain, Key, List, FillsOf, AfterNames, ConsulNames
<1>3. Well(Plain("JobDeployments", {}, {Key("JOB_DEPLOYMENTS", route.id)}))
  <2>1. Fills({} \cup {Key("JOB_DEPLOYMENTS", route.id)}) = {}
    BY EntryIs DEF Fills, Kept, Key, List
  <2> QED BY <2>1, PartIsWell DEF Plain, Key, List, FillsOf, AfterNames, ConsulNames
<1>4. ASSUME NEW j PROVE Well(Plain("JobChildren", {}, {Key("JOBS_FILTERED", j)}))
  <2>1. Fills({} \cup {Key("JOBS_FILTERED", j)}) = {"filteredJobs"}
    BY EntryIs DEF Fills, Kept, Key
  <2> QED BY <2>1, PartIsWell DEF Plain, Key, FillsOf, AfterNames, ConsulNames
<1>5. Well(JobPart)
  <2> DEFINE before == {Key("JOB_VERSIONS", route.id), JobKey(route.id, route.version)}
  <2>1. Fills(before) = {"job", "jobVersions"}
    BY EntryIs DEF Fills, Kept, Key, JobKey
  <2>2. /\ JobPart.name = "Job" /\ JobPart.before = before /\ JobPart.after = {}
        /\ JobPart.fetches = {} /\ JobPart.ends = before /\ Keys(JobPart) = before
    BY DEF JobPart, Part, Keys
  <2> HIDE DEF before
  <2> QED BY <2>1, <2>2 DEF Well, GivesUp, FillsOf, AfterNames, ConsulNames
<1> QED BY <1>1, <1>2, <1>3, <1>4, <1>5 DEF JobParts

LEMMA ClientIsWell == \A p \in ClientParts : Well(p)
<1>1. Well(Plain("Client", {Key("NODE", route.id)}, {}))
  <2>1. Fills({Key("NODE", route.id)} \cup {}) = {"node"}
    BY EntryIs DEF Fills, Kept, Key, List
  <2> QED BY <2>1, PartIsWell DEF Plain, Key, List, FillsOf, AfterNames, ConsulNames
<1>2. Well(Plain("ClientAllocations", {List("ALLOCS_SHALLOW")}, {}))
  <2>1. Fills({List("ALLOCS_SHALLOW")} \cup {}) = {}
    BY EntryIs DEF Fills, Kept, Key, List
  <2> QED BY <2>1, PartIsWell DEF Plain, Key, List, FillsOf, AfterNames, ConsulNames
<1>3. Well(Plain("ClientEvaluations", {List("EVALS")}, {}))
  <2>1. Fills({List("EVALS")} \cup {}) = {}
    BY EntryIs DEF Fills, Kept, Key, List
  <2> QED BY <2>1, PartIsWell DEF Plain, Key, List, FillsOf, AfterNames, ConsulNames
<1>4. ASSUME NEW n PROVE Well(Plain("ClientStats", {Key("CLIENT_STATS", n)}, {}))
  <2>1. Fills({Key("CLIENT_STATS", n)} \cup {}) = {}
    BY EntryIs DEF Fills, Key
  <2> QED BY <2>1, PartIsWell DEF Plain, FillsOf, AfterNames, ConsulNames
<1> QED BY <1>1, <1>2, <1>3, <1>4 DEF ClientParts

LEMMA ServerIsWell == Well(Plain("Server", {Key("MEMBER", route.id)}, {}))
<1>1. Well(Plain("Server", {Key("MEMBER", route.id)}, {}))
  <2>1. Fills({Key("MEMBER", route.id)} \cup {}) = {"member"}
    BY EntryIs DEF Fills, Kept, Key, List
  <2> QED BY <2>1, PartIsWell DEF Plain, Key, List, FillsOf, AfterNames, ConsulNames
<1> QED BY <1>1

LEMMA EvaluationIsWell == Well(EvaluationPart)
<1> DEFINE before == {Key("EVAL", route.id), List("ALLOCS_SHALLOW"), List("NODES")}
<1>1. Fills(before) = {"evaluation"}
  BY EntryIs DEF Fills, Kept, Key, List
<1>2. /\ EvaluationPart.name = "Evaluation" /\ EvaluationPart.before = before
      /\ EvaluationPart.after = {} /\ EvaluationPart.fetches = {}
      /\ EvaluationPart.ends = before /\ Keys(EvaluationPart) = before
  BY DEF EvaluationPart, Part, Keys
<1> HIDE DEF before
<1> QED BY <1>1, <1>2 DEF Well, GivesUp, FillsOf, AfterNames, ConsulNames

LEMMA DeploymentIsWell == \A p \in DeploymentParts : Well(p)
<1>1. Well(Plain("Deployment", {Key("DEPLOYMENT", route.id)}, {}))
  <2>1. Fills({Key("DEPLOYMENT", route.id)} \cup {}) = {"deployment"}
    BY EntryIs DEF Fills, Kept, Key, List
  <2> QED BY <2>1, PartIsWell DEF Plain, Key, List, FillsOf, AfterNames, ConsulNames
<1>2. Well(Plain("DeploymentAllocations", {Key("DEPLOYMENT_ALLOCATIONS", route.id), List("NODES")}, {}))
  <2>1. Fills({Key("DEPLOYMENT_ALLOCATIONS", route.id), List("NODES")} \cup {}) = {"deploymentAllocations"}
    BY EntryIs DEF Fills, Kept, Key, List
  <2> QED BY <2>1, PartIsWell DEF Plain, Key, List, FillsOf, AfterNames, ConsulNames
<1> QED BY <1>1, <1>2 DEF DeploymentParts

LEMMA AllocationIsWell == \A p \in AllocationParts : Well(p)
<1>1. Well(AllocationPart)
  <2> DEFINE before == {Key("ALLOC", route.id)}
  <2>1. Fills(before) = {"allocation"}
    BY EntryIs DEF Fills, Kept, Key
  <2>2. /\ AllocationPart.name = "Allocation" /\ AllocationPart.before = before
        /\ AllocationPart.after = {} /\ AllocationPart.ends = before
        /\ Keys(AllocationPart) = before
        /\ AllocationPart.fetches = {Key("NODE", NodeOf[a]) : a \in Held("allocation")}
    BY DEF AllocationPart, Part, Keys
  <2>3. \A k \in AllocationPart.fetches : k[1] = "NODE"
    BY <2>2 DEF Key
  <2> HIDE DEF before
  <2> QED BY <2>1, <2>2, <2>3 DEF Well, GivesUp, FillsOf, AfterNames, ConsulNames
<1>2. Well(Plain("AllocationFiles", {}, {List("NODES")}))
  <2>1. Fills({} \cup {List("NODES")}) = {}
    BY EntryIs DEF Fills, Kept, Key, List
  <2> QED BY <2>1, PartIsWell DEF Plain, Key, List, FillsOf, AfterNames, ConsulNames
<1>3. ASSUME NEW a PROVE Well(InfoPart(a))
  <2>1. /\ InfoPart(a).name = "AllocationInfo" /\ InfoPart(a).before = {}
        /\ InfoPart(a).after = {} /\ InfoPart(a).ends = {} /\ Keys(InfoPart(a)) = {}
        /\ InfoPart(a).fetches = {Key("NODE", NodeOf[a])}
    BY DEF InfoPart, Part, Keys
  <2>2. \A k \in InfoPart(a).fetches : k[1] = "NODE"
    BY <2>1 DEF Key
  <2>3. Fills({}) = {}
    BY DEF Fills
  <2> QED BY <2>1, <2>2, <2>3 DEF Well, GivesUp, FillsOf, AfterNames, ConsulNames
<1>4. ASSUME NEW a PROVE Well(Plain("AllocationStats", {Key("STATS", a)}, {}))
  <2>1. Fills({Key("STATS", a)} \cup {}) = {}
    BY EntryIs DEF Fills, Key
  <2> QED BY <2>1, PartIsWell DEF Plain, FillsOf, AfterNames, ConsulNames
<1> QED BY <1>1, <1>2, <1>3, <1>4 DEF AllocationParts

LEMMA ConsulIsWell ==
    ASSUME NEW name \in ConsulNames, NEW list, NEW kind, list # "NODE", kind # "NODE"
    PROVE  Well(ConsulPart(name, list, kind))
<1> DEFINE p == ConsulPart(name, list, kind)
           after == {List(list)} \cup Own(kind)
<1>1. /\ p.name = name /\ p.before = {} /\ p.after = after /\ p.ends = after
      /\ p.fetches = {} /\ p.follows = TRUE /\ Keys(p) = after
  BY DEF ConsulPart, Part, Keys
<1>2. \A k \in after : k[1] # "NODE" /\ k = <<k[1], k[2], 0>>
  BY DEF List, Own, Key
<1> HIDE DEF after, p
<1>3. Well(p)
  BY <1>1, <1>2 DEF Well, GivesUp, AfterNames
<1> QED BY <1>3 DEF p

LEMMA RootIsWell == Well(RootPart)
<1>1. /\ RootPart.name = "ConsulKV" /\ RootPart.before = {} /\ RootPart.after = {Root}
      /\ RootPart.ends = {} /\ RootPart.fetches = {} /\ Keys(RootPart) = {Root}
  BY DEF RootPart, Part, Keys, Root
<1>2. Root[1] # "NODE" /\ Fills({Root}) = {}
  BY EntryIs DEF Fills, Root, List, Key
<1> QED BY <1>1, <1>2 DEF Well, GivesUp, FillsOf, AfterNames, ConsulNames

LEMMA PartsAreWell ==
    ASSUME NEW p, Belongs(p)
    PROVE  Well(p)
<1>1. CASE RowPart(p)
  BY <1>1, RowIsWell
<1>2. CASE p \in PageParts
  <2>1. CASE route.page \in {"services", "consul_nodes", "sessions"}
    BY <1>2, <2>1, ConsulIsWell DEF PageParts, ConsulNames
  <2>2. CASE route.page \notin {"services", "consul_nodes", "sessions"}
    BY <1>2, <2>2, ListsAreWell, ClusterIsWell, JobPartsAreWell, ClientIsWell, ServerIsWell,
       EvaluationIsWell, DeploymentIsWell, AllocationIsWell, RootIsWell DEF PageParts
  <2> QED BY <2>1, <2>2
<1> QED BY <1>1, <1>2 DEF Belongs

-----------------------------------------------------------------------------
(* The parts of a page do not ask for the same in componentDidMount. *)

(* An entry of the store has one answer or none.                           *)
Single == \A e \in Entries : \A k \in slot[e], m \in slot[e] : k = m

(* q is another part than p, and asks for nothing p asks for when it did   *)
(* mount.                                                                  *)
Clear(p, q) ==
    ~Same(p, q) /\ \A k \in p.after, m \in Keys(q) : k[1] # m[1] \/ k[2] # m[2]

LEMMA OneHeld ==
    ASSUME Single, NEW e \in Entries, NEW x \in Held(e), NEW y \in Held(e)
    PROVE  x = y
BY DEF Single, Held

LEMMA HeldEntries ==
    {"job", "node", "allocation", "deployment", "consulService", "consulNode", "consulSession"}
      \subseteq Entries
BY DEF Entries, Reducers, AllocEntries, JobEntries, NodeEntries, MemberEntries, EvalEntries,
       DeploymentEntries, ConsulEntries

RowNames == {"AllocationStatsCell", "AllocationConsulHealth", "JobHealth"}
RowKinds == {"SIMPLE_STATS", "ALLOC_HEALTH", "JOB_HEALTH"}

(* A plain part, by its fields.                                            *)
LEMMA PlainIs ==
    ASSUME NEW name, NEW before, NEW after, NEW p, p = Plain(name, before, after)
    PROVE  /\ p.name = name /\ p.id = None /\ p.before = before /\ p.after = after
           /\ Keys(p) = before \cup after
BY DEF Plain, Part, Keys

LEMMA RowIs ==
    ASSUME NEW p, RowPart(p)
    PROVE  /\ p.name \in RowNames
           /\ \/ p.name = "AllocationStatsCell" /\ p = AllocationStatsCell(p.id)
                   /\ p.after = {Key("SIMPLE_STATS", p.id)}
              \/ p.name = "AllocationConsulHealth" /\ p = AllocationConsulHealth(p.id)
                   /\ p.after = {Key("ALLOC_HEALTH", p.id)}
              \/ p.name = "JobHealth" /\ p = JobHealth(p.id) /\ p.after = {Key("JOB_HEALTH", p.id)}
           /\ Keys(p) = p.after
           /\ \A k \in p.after : k[1] \in RowKinds /\ k[2] = p.id
<1>1. PICK x : p \in {AllocationStatsCell(x), AllocationConsulHealth(x), JobHealth(x)}
  BY DEF RowPart
<1>2. CASE p = AllocationStatsCell(x)
  BY <1>2 DEF AllocationStatsCell, Part, Keys, Key, RowNames, RowKinds
<1>3. CASE p = AllocationConsulHealth(x)
  BY <1>3 DEF AllocationConsulHealth, Part, Keys, Key, RowNames, RowKinds
<1>4. CASE p = JobHealth(x)
  BY <1>4 DEF JobHealth, Part, Keys, Key, RowNames, RowKinds
<1> QED BY <1>1, <1>2, <1>3, <1>4

LEMMA RowsAreClear ==
    ASSUME NEW p, NEW q, RowPart(p), RowPart(q), p # q
    PROVE  Clear(p, q)
<1>1. ~Same(p, q)
  BY RowIs DEF Same
<1>2. ASSUME NEW k \in p.after, NEW m \in Keys(q), k[1] = m[1] PROVE k[2] # m[2]
  <2>1. k[2] = p.id /\ m[2] = q.id BY <1>2, RowIs
  <2>2. p.name = q.name
    <3>1. m \in q.after BY RowIs
    <3> QED BY <1>2, <3>1, RowIs, SMTT(30) DEF Key
  <2> QED BY <1>1, <2>1, <2>2 DEF Same
<1> QED BY <1>1, <1>2 DEF Clear

(* The parts of a page are no rows, and ask for other things than rows.    *)
Proper(p) == p.name \notin RowNames /\ \A k \in Keys(p) : k[1] \notin RowKinds

LEMMA ProperIsClear ==
    ASSUME NEW p, NEW q, RowPart(p), Proper(q), Well(q)
    PROVE  Clear(p, q) /\ Clear(q, p)
<1>1. \A k \in Keys(p) : k[1] \in RowKinds BY RowIs
<1>2. p.after \subseteq Keys(p) /\ q.after \subseteq Keys(q) BY DEF Keys
<1>3. ~Same(p, q) /\ ~Same(q, p) BY RowIs DEF Same, Proper
<1> QED BY <1>1, <1>2, <1>3 DEF Clear, Proper

LEMMA PagePartsAreProper ==
    ASSUME NEW p \in PageParts
    PROVE  Proper(p)
<1> USE DEF Plain, Part, Keys, Key, List, Proper, RowNames, RowKinds
<1>1. CASE route.page \in {"clients", "servers", "jobs", "deployments", "allocations",
                           "evaluations", "server"}
  BY <1>1 DEF PageParts
<1>2. CASE route.page = "cluster"
  BY <1>2 DEF PageParts, ClusterParts
<1>3. CASE route.page = "job"
  <2>1. p = JobPart \/ p \in JobParts \ {JobPart} BY <1>3 DEF PageParts, JobParts
  <2>2. CASE p = JobPart BY <2>2 DEF JobPart, JobKey
  <2>3. CASE p \in JobParts \ {JobPart} BY <2>3 DEF JobParts
  <2> QED BY <2>1, <2>2, <2>3
<1>4. CASE route.page = "client"
  BY <1>4 DEF PageParts, ClientParts
<1>5. CASE route.page = "evaluation"
  BY <1>5 DEF PageParts, EvaluationPart
<1>6. CASE route.page = "deployment"
  BY <1>6 DEF PageParts, DeploymentParts
<1>7. CASE route.page = "allocation"
  <2>1. CASE p = AllocationPart BY <2>1 DEF AllocationPart
  <2>2. CASE p = Plain("AllocationFiles", {}, {List("NODES")}) BY <2>2
  <2>3. ASSUME NEW a, p = InfoPart(a) PROVE Proper(p) BY <2>3 DEF InfoPart
  <2>4. ASSUME NEW a, p = Plain("AllocationStats", {Key("STATS", a)}, {}) PROVE Proper(p)
    BY <2>4
  <2> QED BY <1>7, <2>1, <2>2, <2>3, <2>4, Zenon DEF PageParts, AllocationParts
<1>8. CASE route.page \in {"services", "consul_nodes", "sessions"}
  <2>1. ASSUME NEW name \in ConsulNames, NEW list, NEW kind, p = ConsulPart(name, list, kind),
               list \notin RowKinds, kind \notin RowKinds
        PROVE  Proper(p)
    BY <2>1 DEF ConsulPart, Own, ConsulNames
  <2> QED BY <1>8, <2>1 DEF PageParts, ConsulNames
<1>9. CASE route.page = "kv"
  BY <1>9 DEF PageParts, RootPart
<1> QED BY <1>1, <1>2, <1>3, <1>4, <1>5, <1>6, <1>7, <1>8, <1>9 DEF PageParts

(* Two parts of one page: their names differ, or they are the part of the  *)
(* one object that the page shows.                                         *)
LEMMA NamesAreClear ==
    ASSUME NEW p, NEW q, p.name # q.name, p.after = {}
    PROVE  Clear(p, q)
BY DEF Clear, Same

LEMMA KindsAreClear ==
    ASSUME NEW p, NEW q, p.name # q.name, NEW kind,
           \A k \in p.after : k[1] = kind, \A k \in Keys(q) : k[1] # kind
    PROVE  Clear(p, q)
BY DEF Clear, Same

LEMMA JobPartsAreClear ==
    ASSUME Single, NEW p \in JobParts, NEW q \in JobParts, p # q
    PROVE  Clear(p, q)
<1> DEFINE pa == Plain("JobAllocations", {Key("JOB_ALLOCATIONS", route.id), List("NODES")}, {})
           pe == Plain("JobEvaluations", {List("EVALS")}, {})
           pd == Plain("JobDeployments", {}, {Key("JOB_DEPLOYMENTS", route.id)})
           pc(j) == Plain("JobChildren", {}, {Key("JOBS_FILTERED", j)})
<1>1. \A x, y \in Held("job") : x = y BY OneHeld, HeldEntries
<1>2. /\ JobPart.name = "Job" /\ JobPart.after = {}
      /\ \A k \in Keys(JobPart) : k[1] \in {"JOB", "JOB_VERSIONS"}
  BY DEF JobPart, Part, Keys, JobKey, Key
<1>3. /\ pa.name = "JobAllocations" /\ pa.after = {}
      /\ \A k \in Keys(pa) : k[1] \in {"JOB_ALLOCATIONS", "NODES"}
  BY DEF Plain, Part, Keys, List, Key
<1>4. /\ pe.name = "JobEvaluations" /\ pe.after = {} /\ \A k \in Keys(pe) : k[1] = "EVALS"
  BY DEF Plain, Part, Keys, List, Key
<1>5. /\ pd.name = "JobDeployments" /\ \A k \in pd.after : k[1] = "JOB_DEPLOYMENTS"
      /\ \A k \in Keys(pd) : k[1] = "JOB_DEPLOYMENTS"
  BY DEF Plain, Part, Keys, List, Key
<1>6. ASSUME NEW j
      PROVE  /\ pc(j).name = "JobChildren" /\ \A k \in pc(j).after : k[1] = "JOBS_FILTERED"
             /\ \A k \in Keys(pc(j)) : k[1] = "JOBS_FILTERED"
  BY DEF Plain, Part, Keys, List, Key
<1>7. \A r \in JobParts : r \in {JobPart, pa, pe, pd} \/ \E j \in Held("job") : r = pc(j)
  BY DEF JobParts
<1> HIDE DEF pa, pe, pd, pc
<1>8. p.name # q.name
  BY <1>1, <1>2, <1>3, <1>4, <1>5, <1>6, <1>7
<1>9. CASE p \in {JobPart, pa, pe}
  BY <1>2, <1>3, <1>4, <1>8, <1>9, NamesAreClear
<1>10. CASE p = pd
  <2>1. \A k \in Keys(q) : k[1] # "JOB_DEPLOYMENTS"
    BY <1>2, <1>3, <1>4, <1>5, <1>6, <1>7, <1>8, <1>10
  <2> QED BY <1>5, <1>8, <1>10, <2>1, KindsAreClear
<1>11. CASE \E j \in Held("job") : p = pc(j)
  <2>1. \A k \in Keys(q) : k[1] # "JOBS_FILTERED"
    BY <1>2, <1>3, <1>4, <1>5, <1>6, <1>7, <1>8, <1>11
  <2> QED BY <1>6, <1>8, <1>11, <2>1, KindsAreClear
<1> QED BY <1>7, <1>9, <1>10, <1>11

LEMMA AllocationPartsAreClear ==
    ASSUME Single, NEW p \in AllocationParts, NEW q \in AllocationParts, p # q
    PROVE  Clear(p, q)
<1> DEFINE pf == Plain("AllocationFiles", {}, {List("NODES")})
           ps(a) == Plain("AllocationStats", {Key("STATS", a)}, {})
<1>1. \A x, y \in Held("allocation") : x = y BY OneHeld, HeldEntries
<1>2. /\ AllocationPart.name = "Allocation" /\ AllocationPart.after = {}
      /\ \A k \in Keys(AllocationPart) : k[1] = "ALLOC"
  BY DEF AllocationPart, Part, Keys, Key
<1>3. /\ pf.name = "AllocationFiles" /\ \A k \in pf.after : k[1] = "NODES"
  BY DEF Plain, Part, List, Key
<1>4. ASSUME NEW a
      PROVE  /\ ps(a).name = "AllocationStats" /\ ps(a).after = {}
             /\ \A k \in Keys(ps(a)) : k[1] = "STATS"
  BY DEF Plain, Part, Keys, Key
<1>5. ASSUME NEW a
      PROVE  /\ InfoPart(a).name = "AllocationInfo" /\ InfoPart(a).after = {}
             /\ Keys(InfoPart(a)) = {}
  BY DEF InfoPart, Part, Keys
<1>6. \A r \in AllocationParts :
          \/ r = AllocationPart \/ r = pf
          \/ \E a \in Held("allocation") : r = InfoPart(a) \/ r = ps(a)
  BY DEF AllocationParts
<1> HIDE DEF pf, ps
<1>7. p.name # q.name
  BY <1>1, <1>2, <1>3, <1>4, <1>5, <1>6
<1>8. CASE p = pf
  <2>1. \A k \in Keys(q) : k[1] # "NODES"
    BY <1>2, <1>3, <1>4, <1>5, <1>6, <1>7, <1>8
  <2> QED BY <1>3, <1>7, <1>8, <2>1, KindsAreClear
<1>9. CASE p # pf
  <2>1. p.after = {} BY <1>2, <1>4, <1>5, <1>6, <1>9
  <2> QED BY <1>7, <2>1, NamesAreClear
<1> QED BY <1>8, <1>9

LEMMA OtherPartsAreClear ==
    ASSUME Single, NEW p, NEW q, p # q,
           {p, q} \subseteq ClusterParts \/ {p, q} \subseteq DeploymentParts
             \/ {p, q} \subseteq ClientParts
    PROVE  Clear(p, q)
<1>1. ASSUME NEW name, NEW before
      PROVE  Plain(name, before, {}).name = name /\ Plain(name, before, {}).after = {}
  BY DEF Plain, Part
<1>2. \A x, y \in Held("node") : x = y BY OneHeld, HeldEntries
<1>3. p.after = {}
  BY <1>1 DEF ClusterParts, DeploymentParts, ClientParts
<1>4. p.name # q.name
  <2>1. CASE {p, q} \subseteq ClusterParts
    <3>1. ASSUME NEW before, NEW after, NEW x, NEW y,
                 x = Plain("ClusterEvents", before, {}), y = Plain("Cluster", after, {}),
                 {p, q} \subseteq {x, y}
          PROVE  p.name # q.name
      BY <1>1, <3>1
    <3> QED BY <2>1, <3>1 DEF ClusterParts
  <2>2. CASE {p, q} \subseteq DeploymentParts BY <1>1, <2>2 DEF DeploymentParts
  <2>3. CASE {p, q} \subseteq ClientParts
    <3> DEFINE pn == Plain("Client", {Key("NODE", route.id)}, {})
               pa == Plain("ClientAllocations", {List("ALLOCS_SHALLOW")}, {})
               pe == Plain("ClientEvaluations", {List("EVALS")}, {})
               ps(n) == Plain("ClientStats", {Key("CLIENT_STATS", n)}, {})
    <3>1. \A r \in ClientParts : r \in {pn, pa, pe} \/ \E n \in Held("node") : r = ps(n)
      BY DEF ClientParts
    <3>2. /\ pn.name = "Client" /\ pa.name = "ClientAllocations" /\ pe.name = "ClientEvaluations"
          /\ \A n : ps(n).name = "ClientStats"
      BY <1>1
    <3> HIDE DEF pn, pa, pe, ps
    <3> QED BY <1>2, <2>3, <3>1, <3>2
  <2> QED BY <2>1, <2>2, <2>3
<1> QED BY <1>3, <1>4, NamesAreClear

LEMMA PagePartsAreClear ==
    ASSUME Single, NEW p \in PageParts, NEW q \in PageParts, p # q
    PROVE  Clear(p, q)
<1>1. CASE route.page \in {"cluster", "job", "client", "deployment", "allocation"}
  BY <1>1, JobPartsAreClear, AllocationPartsAreClear, OtherPartsAreClear DEF PageParts
<1>2. CASE route.page \notin {"cluster", "job", "client", "deployment", "allocation"}
  <2>1. \E r : PageParts \subseteq {r}
    BY <1>2 DEF PageParts
  <2> QED BY <2>1
<1> QED BY <1>1, <1>2

LEMMA TreeIsClear ==
    ASSUME Single
    PROVE  \A p, q \in Tree : p = q \/ Clear(p, q)
<1> SUFFICES ASSUME NEW p \in Tree, NEW q \in Tree, p # q
             PROVE  Clear(p, q)
  OBVIOUS
<1>1. Belongs(p) /\ Belongs(q) BY TreeBelongs
<1>2. Well(p) /\ Well(q) BY <1>1, PartsAreWell
<1> QED BY <1>1, <1>2, RowsAreClear, ProperIsClear, PagePartsAreProper, PagePartsAreClear
        DEF Belongs

-----------------------------------------------------------------------------
(* The app runs once (main.js, store.js): whatever succeeds clears the     *)
(* interval and ends the attempt.                                          *)
THEOREM BrowserRunsOnce == BrowserSpec => []RunsOnce
<1>1. BrowserInit => RunsOnce
  BY DEF BrowserInit, TransportInit, RunsOnce
<1>2. ASSUME RunsOnce, [BrowserNext]_vars PROVE RunsOnce'
  <2> USE DEF RunsOnce, transportVars
  <2>1. CASE Connects
    BY <1>2, <2>1 DEF Connects, Opens, TimesOut, Retry, OpensLate, renderApp, BootFails
  <2>2. CASE Reload
    BY <1>2, <2>2 DEF Reload, Starts
  <2>3. CASE Disconnects
    BY <1>2, <2>3 DEF Disconnects, SocketCloses
  <2>4. CASE Render \/ FollowLink \/ JumpBack \/ ChunkArrives
    BY <1>2, <2>4 DEF Render, FollowLink, JumpBack, GoTo, ChunkArrives
  <2>5. ASSUME NEW k, Answer(k) \/ FetchDone(k) \/ Deliver(k) PROVE RunsOnce'
    BY <1>2, <2>5 DEF Answer, FetchDone, Deliver
  <2>6. CASE UNCHANGED vars
    BY <1>2, <2>6 DEF vars
  <2> QED BY <1>2, <2>1, <2>2, <2>3, <2>4, <2>5, <2>6 DEF BrowserNext
<1> QED BY <1>1, <1>2, PTL DEF BrowserSpec

-----------------------------------------------------------------------------
LEMMA TreeIsWell == \A p \in Tree : Well(p)
BY TreeBelongs, PartsAreWell

(* What a part holds is what it asked for, unless its address changed      *)
(* under it; and without a connection nobody is served.                    *)
Honest(s) == GivesUp(s.part) /\ (~s.moved => s.held = Keys(s.part))

LeftInv ==
    /\ asked \ {Root} \subseteq HeldKeys \cup adrift
    /\ \A s \in shown : Honest(s)
    /\ socket # "open" => asked = {}

(* An update of a part whose keys are the same gives up and asks nothing.  *)
LEMMA NothingToFollow ==
    ASSUME NEW u, Keys(u[1].part) = Keys(u[2])
    PROVE  Off(u) = {} /\ On(u) = {}
BY DEF Off, On, Less, Unversioned

LEMMA RenderStaysHonest ==
    ASSUME NEW tree, \A p \in tree : GivesUp(p), \A s \in shown : Honest(s),
           RenderTo(Arriving(tree), Staying(tree), Leaving(tree))
    PROVE  \A s \in shown' : Honest(s)
<1>1. shown' = {Mounted(p) : p \in Arriving(tree)} \cup {Updated(u) : u \in Staying(tree)}
  BY DEF RenderTo
<1>2. \A p \in Arriving(tree) : Honest(Mounted(p))
  BY DEF Arriving, Mounted, Honest
<1>3. ASSUME NEW u \in Staying(tree) PROVE Honest(Updated(u))
  <2>1. u[1] \in shown /\ u[2] \in tree BY DEF Staying
  <2>2. Updated(u).part = u[2] /\ GivesUp(u[2]) BY <2>1 DEF Updated
  <2>3. ASSUME ~Updated(u).moved PROVE Updated(u).held = Keys(u[2])
    <3>1. ~u[1].moved /\ Keys(u[2]) = Keys(u[1].part) BY <2>3 DEF Updated
    <3>2. u[1].held = Keys(u[2]) BY <2>1, <3>1 DEF Honest
    <3>3. Off(u) = {} /\ On(u) = {} BY <3>1, NothingToFollow
    <3> QED BY <3>2, <3>3 DEF Updated
  <2> QED BY <2>2, <2>3 DEF Honest
<1> QED BY <1>1, <1>2, <1>3

(* The heart of the argument: a key that is still watched after a render   *)
(* is new, or was held by a part that is still there, or by one that has   *)
(* gone without giving it up; and only a part that has been moved does so. *)
LEMMA RenderLeavesNothing ==
    ASSUME NEW tree, \A p \in tree : GivesUp(p), LeftInv, socket = "open",
           RenderTo(Arriving(tree), Staying(tree), Leaving(tree))
    PROVE  asked' \ {Root} \subseteq HeldKeys' \cup adrift'
<1> DEFINE arriving == Arriving(tree)
           staying == Staying(tree)
           leaving == Leaving(tree)
           ends == UNION {s.part.ends : s \in leaving}
           off == UNION {Off(u) : u \in staying}
<1>1. shown' = {Mounted(p) : p \in arriving} \cup {Updated(u) : u \in staying}
  BY DEF RenderTo
<1>2. asked' = AskedNext(arriving, staying, ends)
  BY DEF RenderTo, LeftInv
<1>3. adrift' = (adrift \cup UNION {s.held : s \in {t \in leaving : t.moved}}) \ (ends \cup off)
  BY DEF RenderTo
<1> SUFFICES ASSUME NEW k \in asked', k # Root
             PROVE  k \in HeldKeys' \cup adrift'
  OBVIOUS
<1>4. \/ \E p \in arriving : k \in Keys(p)
      \/ \E u \in staying : k \in On(u)
      \/ k \in asked /\ k \notin ends /\ k \notin off
  BY <1>2 DEF AskedNext, Keys
<1>5. CASE \E p \in arriving : k \in Keys(p)
  <2>1. PICK p \in arriving : k \in Keys(p) BY <1>5
  <2>2. Mounted(p) \in shown' BY <1>1
  <2>3. k \in Mounted(p).held BY <2>1 DEF Mounted
  <2> QED BY <2>2, <2>3 DEF HeldKeys
<1>6. CASE \E u \in staying : k \in On(u)
  <2>1. PICK u \in staying : k \in On(u) BY <1>6
  <2>2. Updated(u) \in shown' BY <1>1
  <2>3. k \in Updated(u).held BY <2>1 DEF Updated
  <2> QED BY <2>2, <2>3 DEF HeldKeys
<1>7. CASE k \in asked /\ k \notin ends /\ k \notin off
  <2>1. CASE k \in adrift
    BY <1>3, <1>7, <2>1
  <2>2. CASE k \in HeldKeys
    <3>1. PICK s \in shown : k \in s.held BY <2>2 DEF HeldKeys
    <3>2. CASE \E p \in tree : Same(s.part, p)
      <4>1. PICK p \in tree : Same(s.part, p) BY <3>2
      <4>2. <<s, p>> \in staying BY <4>1 DEF Staying
      <4>3. k \in Updated(<<s, p>>).held BY <1>7, <3>1, <4>2 DEF Updated
      <4> QED BY <1>1, <4>2, <4>3 DEF HeldKeys
    <3>3. CASE ~\E p \in tree : Same(s.part, p)
      <4>1. s \in leaving BY <3>3 DEF Leaving
      <4>2. s.moved
        <5> SUFFICES ASSUME ~s.moved PROVE FALSE
          OBVIOUS
        <5>1. k \in s.part.ends BY <3>1 DEF LeftInv, Honest, GivesUp
        <5> QED BY <1>7, <4>1, <5>1
      <4> QED BY <1>3, <1>7, <3>1, <4>1, <4>2
    <3> QED BY <3>2, <3>3
  <2> QED BY <1>7, <2>1, <2>2 DEF LeftInv
<1> QED BY <1>4, <1>5, <1>6, <1>7

(* Nobody is served for ever: what the connection watches is held by a     *)
(* component that is shown, or is the leftover of one whose address        *)
(* changed under it; the root of the KV page excepted.                     *)
THEOREM BrowserLeavesNothing == BrowserSpec => []NothingLeftOver
<1>1. BrowserInit => LeftInv
  BY DEF BrowserInit, LeftInv
<1>2. ASSUME LeftInv, [BrowserNext]_vars PROVE LeftInv'
  <2> USE <1>2 DEF LeftInv, transportVars, pageVars
  <2>1. CASE Render
    <3>1. PICK tree \in {Tree} : RenderTo(Arriving(tree), Staying(tree), Leaving(tree))
      BY <2>1 DEF Render
    <3>2. \A p \in tree : GivesUp(p) BY TreeIsWell DEF Well
    <3>3. \A s \in shown' : Honest(s) BY <3>1, <3>2, RenderStaysHonest
    <3>4. socket' = socket BY <2>1 DEF Render
    <3>5. CASE socket = "open"
      BY <3>1, <3>2, <3>3, <3>4, <3>5, RenderLeavesNothing
    <3>6. CASE socket # "open"
      <4>1. asked' = {} BY <3>1, <3>6 DEF RenderTo
      <4> QED BY <3>3, <3>4, <3>6, <4>1
    <3> QED BY <3>5, <3>6
  <2>2. CASE FollowLink \/ JumpBack \/ ChunkArrives
    BY <2>2 DEF FollowLink, JumpBack, GoTo, ChunkArrives, wireVars, HeldKeys
  <2>3. CASE Reload
    BY <2>3 DEF Reload, HeldKeys
  <2>4. ASSUME NEW k, Answer(k) \/ FetchDone(k) \/ Deliver(k) PROVE LeftInv'
    BY <2>4 DEF Answer, FetchDone, Deliver, HeldKeys
  <2>5. CASE Connects
    BY <2>5 DEF Connects, Opens, TimesOut, Retry, OpensLate, wireVars, HeldKeys
  <2>6. CASE Disconnects
    BY <2>6 DEF Disconnects, SocketCloses, HeldKeys
  <2>7. CASE UNCHANGED vars
    BY <2>7 DEF vars, wireVars, HeldKeys
  <2> QED BY <2>1, <2>2, <2>3, <2>4, <2>5, <2>6, <2>7 DEF BrowserNext
<1>3. LeftInv => NothingLeftOver
  BY DEF LeftInv, NothingLeftOver, Root
<1> QED BY <1>1, <1>2, <1>3, PTL DEF BrowserSpec

-----------------------------------------------------------------------------
(* What is shown: parts of one page, each of them once. *)

ShownInv ==
    /\ Single
    /\ \A s \in shown : Well(s.part)
    /\ \A s, t \in shown : s = t \/ Clear(s.part, t.part)

LEMMA RenderShown ==
    ASSUME NEW tree, RenderTo(Arriving(tree), Staying(tree), Leaving(tree))
    PROVE  /\ \A s \in shown' : s.part \in tree
           /\ \A s \in shown' :
                 \/ \E p \in Arriving(tree) : s = Mounted(p)
                 \/ \E u \in Staying(tree) : s = Updated(u) /\ s.part = u[2]
<1>1. shown' = {Mounted(p) : p \in Arriving(tree)} \cup {Updated(u) : u \in Staying(tree)}
  BY DEF RenderTo
<1>2. \A p \in Arriving(tree) : Mounted(p).part = p /\ p \in tree
  BY DEF Arriving, Mounted
<1>3. \A u \in Staying(tree) : Updated(u).part = u[2] /\ u[2] \in tree
  BY DEF Staying, Updated
<1> QED BY <1>1, <1>2, <1>3

(* A part that is shown comes from one that was, or from none.             *)
LEMMA RenderShowsOnce ==
    ASSUME NEW tree, \A p, q \in tree : p = q \/ Clear(p, q),
           \A s, t \in shown : s = t \/ Clear(s.part, t.part),
           RenderTo(Arriving(tree), Staying(tree), Leaving(tree))
    PROVE  \A s, t \in shown' : s = t \/ Clear(s.part, t.part)
<1> SUFFICES ASSUME NEW s \in shown', NEW t \in shown', s.part = t.part
             PROVE  s = t
  BY RenderShown
<1>1. CASE \E p \in Arriving(tree) : s = Mounted(p)
  <2>1. PICK p \in Arriving(tree) : s = Mounted(p) BY <1>1
  <2>2. s.part = p BY <2>1 DEF Mounted
  <2>3. CASE \E q \in Arriving(tree) : t = Mounted(q)
    BY <2>1, <2>2, <2>3 DEF Mounted
  <2>4. CASE \E u \in Staying(tree) : t = Updated(u) /\ t.part = u[2]
    BY <2>1, <2>2, <2>4 DEF Arriving, Staying
  <2> QED BY <2>3, <2>4, RenderShown
<1>2. CASE \E u \in Staying(tree) : s = Updated(u) /\ s.part = u[2]
  <2>1. PICK u \in Staying(tree) : s = Updated(u) /\ s.part = u[2] BY <1>2
  <2>2. CASE \E q \in Arriving(tree) : t = Mounted(q)
    BY <2>1, <2>2 DEF Arriving, Staying, Mounted
  <2>3. CASE \E w \in Staying(tree) : t = Updated(w) /\ t.part = w[2]
    <3>1. PICK w \in Staying(tree) : t = Updated(w) /\ t.part = w[2] BY <2>3
    <3>2. Same(u[1].part, u[2]) /\ Same(w[1].part, u[2]) /\ u[1] \in shown /\ w[1] \in shown
      BY <2>1, <3>1 DEF Staying
    <3>3. Same(u[1].part, w[1].part) BY <3>2 DEF Same
    <3>4. u[1] = w[1] BY <3>2, <3>3 DEF Clear
    <3>5. u = w BY <2>1, <3>1, <3>4 DEF Staying
    <3> QED BY <2>1, <3>1, <3>5
  <2> QED BY <2>2, <2>3, RenderShown
<1> QED BY <1>1, <1>2, RenderShown

LEMMA SlotStaysSingle ==
    ASSUME Single, NEW S, slot' = [e \in Entries |-> IF e \in S THEN {} ELSE slot[e]]
    PROVE  Single'
BY DEF Single

(* Whatever is shown is a part of one page, as router.js and its containers *)
(* mount it: no two parts are the same, and none asks in componentDidMount *)
(* for what another one holds.                                             *)
THEOREM BrowserShows == BrowserSpec => []ShownInv
<1>1. BrowserInit => ShownInv
  BY DEF BrowserInit, ShownInv, Single, Empty
<1>2. ASSUME ShownInv, [BrowserNext]_vars PROVE ShownInv'
  <2> USE <1>2 DEF ShownInv, transportVars, pageVars
  <2>1. CASE Render
    <3>1. RenderTo(Arriving(Tree), Staying(Tree), Leaving(Tree))
      BY <2>1 DEF Render
    <3>2. Single'
      BY <3>1, SlotStaysSingle DEF RenderTo
    <3>3. \A s \in shown' : Well(s.part)
      BY <3>1, RenderShown, TreeIsWell
    <3>4. \A s, t \in shown' : s = t \/ Clear(s.part, t.part)
      BY <3>1, RenderShowsOnce, TreeIsClear
    <3> QED BY <3>2, <3>3, <3>4
  <2>2. CASE FollowLink \/ JumpBack \/ ChunkArrives
    BY <2>2 DEF FollowLink, JumpBack, GoTo, ChunkArrives, Single
  <2>3. CASE Reload
    BY <2>3 DEF Reload, Empty, Single
  <2>4. ASSUME NEW k, Answer(k) \/ FetchDone(k) PROVE ShownInv'
    BY <2>4 DEF Answer, FetchDone, Single
  <2>5. ASSUME NEW k, Deliver(k) PROVE ShownInv'
    BY <2>5 DEF Deliver, Single
  <2>6. CASE Connects \/ Disconnects
    BY <2>6 DEF Connects, Disconnects, Single
  <2>7. CASE UNCHANGED vars
    BY <2>7 DEF vars, Single
  <2> QED BY <2>1, <2>2, <2>3, <2>4, <2>5, <2>6, <2>7 DEF BrowserNext
<1> QED BY <1>1, <1>2, PTL DEF BrowserSpec

-----------------------------------------------------------------------------
(* Who is shown is served.  Nothing is shown before the app runs; a query  *)
(* is for a node, which nobody watches in componentDidMount, so that no    *)
(* WATCH of it is refused and none is ended by the end of a query.         *)

FedInv ==
    /\ boot # "app" => shown = {} /\ dirty
    /\ \A k \in once \cup fetching : k[1] = "NODE"
    /\ socket = "open" => \A s \in shown : ~s.moved => s.part.after \subseteq asked

(* Nothing a part asks for after it mounted is given up by another one.    *)
LEMMA OthersKeep ==
    ASSUME NEW p, NEW q, NEW r, Clear(p, q)
    PROVE  p.after \cap (Keys(q) \cup Less(q, r)) = {}
BY DEF Clear, Less, Unversioned

LEMMA SameKeysSameAfter ==
    ASSUME NEW p, NEW q, Same(p, q), Well(p), Well(q), Keys(p) = Keys(q)
    PROVE  p.after = q.after
BY DEF Same, Well, Keys

LEMMA RenderFeeds ==
    ASSUME NEW tree, \A p \in tree : Well(p), \A p, q \in tree : p = q \/ Clear(p, q),
           ShownInv, FedInv, socket = "open",
           RenderTo(Arriving(tree), Staying(tree), Leaving(tree)),
           NEW s \in shown', ~s.moved
    PROVE  s.part.after \subseteq asked'
<1> DEFINE arriving == Arriving(tree)
           staying == Staying(tree)
           ends == UNION {t.part.ends : t \in Leaving(tree)}
           off == UNION {Off(u) : u \in staying}
<1>1. asked' = AskedNext(arriving, staying, ends)
  BY DEF RenderTo
<1> SUFFICES ASSUME NEW k \in s.part.after
             PROVE  k \in AskedNext(arriving, staying, ends)
  BY <1>1
<1>2. s.part \in tree /\ Well(s.part) BY RenderShown
<1>3. k \notin once BY <1>2 DEF Well, FedInv
<1>4. CASE \E p \in arriving : s = Mounted(p)
  <2>1. s.part \in arriving BY <1>4 DEF Mounted
  <2> QED BY <1>3, <2>1 DEF AskedNext
<1>5. CASE \E u \in staying : s = Updated(u) /\ s.part = u[2]
  <2>1. PICK u \in staying : s = Updated(u) /\ s.part = u[2] BY <1>5
  <2>2. ~u[1].moved /\ Keys(u[2]) = Keys(u[1].part) BY <2>1 DEF Updated
  <2>3. u[1] \in shown /\ u[2] \in tree /\ Same(u[1].part, u[2]) BY <2>1 DEF Staying
  <2>4. u[1].part.after = u[2].after
    BY <1>2, <2>1, <2>2, <2>3, SameKeysSameAfter DEF ShownInv
  <2>5. k \in asked BY <2>1, <2>2, <2>3, <2>4 DEF FedInv
  <2>6. ASSUME NEW t \in Leaving(tree) PROVE k \notin t.part.ends
    <3>1. t \in shown /\ t # u[1] BY <2>3, <2>6 DEF Leaving
    <3>2. Clear(u[1].part, t.part) /\ Well(t.part) BY <2>3, <3>1 DEF ShownInv
    <3>3. k \notin Keys(t.part) BY <2>1, <2>4, <3>2, OthersKeep
    <3> QED BY <3>2, <3>3 DEF Well, GivesUp
  <2>7. ASSUME NEW w \in staying PROVE k \notin Off(w)
    <3>1. w[1] \in shown /\ w[2] \in tree /\ Same(w[1].part, w[2]) BY DEF Staying
    <3>2. CASE w[1] = u[1]
      <4>1. Same(u[2], w[2]) BY <2>3, <3>1, <3>2 DEF Same
      <4>2. w[2] = u[2] BY <2>3, <3>1, <4>1 DEF Clear
      <4> QED BY <2>2, <3>2, <4>2, NothingToFollow
    <3>3. CASE w[1] # u[1]
      <4>1. Clear(u[1].part, w[1].part) BY <2>3, <3>1, <3>3 DEF ShownInv
      <4> QED BY <2>1, <2>4, <4>1, OthersKeep DEF Off
    <3> QED BY <3>2, <3>3
  <2> QED BY <2>5, <2>6, <2>7 DEF AskedNext
<1> QED BY <1>4, <1>5, RenderShown

LEMMA RenderQueries ==
    ASSUME NEW tree, \A p \in tree : Well(p), FedInv,
           RenderTo(Arriving(tree), Staying(tree), Leaving(tree))
    PROVE  \A k \in once' \cup fetching' : k[1] = "NODE"
<1>1. \A k \in Fetches(Arriving(tree), Staying(tree)) : k[1] = "NODE"
  BY DEF Fetches, Arriving, Staying, Well
<1>2. CASE socket = "open"
  BY <1>1, <1>2 DEF RenderTo, FedInv
<1>3. CASE socket # "open"
  BY <1>3 DEF RenderTo, FedInv
<1> QED BY <1>2, <1>3

LEMMA FedAlways == BrowserSpec => []FedInv
<1>1. BrowserInit => FedInv
  BY DEF BrowserInit, TransportInit, FedInv
<1>2. ASSUME FedInv, ShownInv, RunsOnce, [BrowserNext]_vars PROVE FedInv'
  <2> USE <1>2 DEF FedInv, transportVars, pageVars, wireVars
  <2>1. CASE Render
    <3>1. RenderTo(Arriving(Tree), Staying(Tree), Leaving(Tree)) /\ boot = "app" /\ boot' = boot
            /\ socket' = socket
      BY <2>1 DEF Render
    <3>2. \A p \in Tree : Well(p) BY TreeIsWell
    <3>3. \A p, q \in Tree : p = q \/ Clear(p, q) BY TreeIsClear DEF ShownInv
    <3>4. \A k \in once' \cup fetching' : k[1] = "NODE"
      BY <3>1, <3>2, RenderQueries
    <3>5. socket = "open" => \A s \in shown' : ~s.moved => s.part.after \subseteq asked'
      BY <3>1, <3>2, <3>3, RenderFeeds
    <3> QED BY <3>1, <3>4, <3>5
  <2>2. CASE FollowLink \/ JumpBack \/ ChunkArrives
    BY <2>2 DEF FollowLink, JumpBack, MayGo, GoTo, ChunkArrives
  <2>3. CASE Reload
    BY <2>3 DEF Reload, Starts
  <2>4. ASSUME NEW k \in fetching, FetchDone(k) PROVE FedInv'
    <3>1. \A s \in shown : k \notin s.part.after BY DEF ShownInv, Well
    <3> QED BY <2>4, <3>1 DEF FetchDone
  <2>5. ASSUME NEW k, Answer(k) \/ Deliver(k) PROVE FedInv'
    BY <2>5 DEF Answer, Deliver
  <2>6. CASE Connects
    BY <2>6 DEF Connects, Opens, TimesOut, Retry, OpensLate, renderApp, BootFails, RunsOnce
  <2>7. CASE Disconnects
    BY <2>7 DEF Disconnects, SocketCloses
  <2>8. CASE UNCHANGED vars
    BY <2>8 DEF vars
  <2> QED BY <2>1, <2>2, <2>3, <2>4, <2>5, <2>6, <2>7, <2>8 DEF BrowserNext
<1> QED BY <1>1, <1>2, BrowserShows, BrowserRunsOnce, PTL DEF BrowserSpec

(* Who is shown is served: as long as the connection is there, whatever    *)
(* order pages come and go in, what a component asked for when it had      *)
(* mounted is watched for it.                                              *)
THEOREM BrowserFeeds == BrowserSpec => []DidMountIsFed
<1>1. FedInv => DidMountIsFed
  BY DEF FedInv, DidMountIsFed
<1> QED BY <1>1, FedAlways, PTL

-----------------------------------------------------------------------------
(* The store forgets.  What a part holds, it gives up, or its entries are  *)
(* given up with others of its keys: every part fills the entries of its   *)
(* name, whatever its address is; the parts of Consul's pages, which hold  *)
(* one key more or less as their address changes, follow it exactly.       *)

Holds(s) ==
    IF s.part.name \in ConsulNames THEN s.held = Keys(s.part)
    ELSE Fills(s.held) \subseteq FillsOf(s.part.name)

StaleInv ==
    /\ \A e \in Entries : \A k \in slot[e] : e \in Entry(k)
    /\ \A s \in shown : Holds(s)
    /\ NothingStale

LEMMA FillsIs ==
    ASSUME NEW keys, NEW e
    PROVE  e \in Fills(keys) <=> e \notin Kept /\ \E k \in keys : e \in Entry(k)
BY DEF Fills

LEMMA UnversionedFillsTheSame ==
    ASSUME NEW p
    PROVE  Fills(Unversioned(p)) = Fills(Keys(p))
<1>1. \A k : Entry(<<k[1], k[2], 0>>) = Entry(k) BY DEF Entry
<1>2. ASSUME NEW e PROVE e \in Fills(Unversioned(p)) <=> e \in Fills(Keys(p))
  <2>1. ASSUME NEW k \in Keys(p), e \in Entry(k) PROVE \E m \in Unversioned(p) : e \in Entry(m)
    BY <1>1, <2>1 DEF Unversioned
  <2>2. ASSUME NEW m \in Unversioned(p), e \in Entry(m) PROVE \E k \in Keys(p) : e \in Entry(k)
    <3>1. PICK k \in Keys(p) : m = <<k[1], k[2], 0>> BY DEF Unversioned
    <3> QED BY <1>1, <2>2, <3>1
  <2> QED BY <2>1, <2>2, FillsIs
<1> QED BY <1>2

LEMMA OnFills ==
    ASSUME NEW u
    PROVE  Fills(On(u)) \subseteq Fills(Keys(u[2]))
<1>1. On(u) \subseteq Unversioned(u[2]) \cup Keys(u[2]) BY DEF On, Less
<1> QED BY <1>1, FillsIs, UnversionedFillsTheSame

(* A part of a Consul page gives up what its address no longer names, and  *)
(* asks for what it names now.                                             *)
LEMMA ConsulFollows ==
    ASSUME NEW u, Well(u[1].part), Well(u[2]), Same(u[1].part, u[2]), u[2].name \in ConsulNames
    PROVE  (Keys(u[1].part) \ Off(u)) \cup On(u) = Keys(u[2])
<1> DEFINE p == u[1].part
           q == u[2]
<1>1. Follows(p, q) BY DEF Follows, Well, ConsulNames, Same
<1>2. Unversioned(p) = Keys(p) /\ Unversioned(q) = Keys(q)
  BY DEF Well, Unversioned, Same
<1>3. Off(u) = Keys(p) \ Keys(q) /\ On(u) = Keys(q) \ Keys(p)
  BY <1>1, <1>2 DEF Off, On, Less, Follows
<1> QED BY <1>3

LEMMA MountedHolds ==
    ASSUME NEW p, Well(p)
    PROVE  Holds(Mounted(p))
BY DEF Mounted, Holds, Well

LEMMA UpdatedHolds ==
    ASSUME NEW u, Well(u[1].part), Well(u[2]), Same(u[1].part, u[2]), Holds(u[1])
    PROVE  Holds(Updated(u))
<1> DEFINE p == u[1].part
           q == u[2]
<1>1. Updated(u).part = q /\ Updated(u).held = (u[1].held \ Off(u)) \cup On(u)
  BY DEF Updated
<1>2. CASE q.name \in ConsulNames
  <2>1. u[1].held = Keys(p) BY <1>2 DEF Holds, Same
  <2>2. (Keys(p) \ Off(u)) \cup On(u) = Keys(q) BY <1>2, ConsulFollows
  <2> QED BY <1>1, <1>2, <2>1, <2>2 DEF Holds
<1>3. CASE q.name \notin ConsulNames
  <2>1. Fills(u[1].held) \subseteq FillsOf(q.name) BY <1>3 DEF Holds, Same
  <2>2. Fills(On(u)) \subseteq FillsOf(q.name) BY <1>3, OnFills DEF Well
  <2>3. Fills(Updated(u).held) \subseteq FillsOf(q.name) BY <1>1, <2>1, <2>2, FillsIs
  <2> QED BY <1>1, <1>3, <2>3 DEF Holds
<1> QED BY <1>2, <1>3

(* A part that unmounts takes along whatever its keys brought.             *)
LEMMA EndsForget ==
    ASSUME NEW s, Well(s.part), Holds(s), NEW k \in s.held, NEW e \in Entry(k), e \notin Kept
    PROVE  \E m \in s.part.ends : e \in Entry(m)
<1>1. e \in Fills(s.held) BY FillsIs
<1>2. e \in Fills(Keys(s.part)) BY <1>1 DEF Holds, Well
<1>3. PICK m \in Keys(s.part) : e \in Entry(m) BY <1>2, FillsIs
<1>4. m # Root BY <1>3, EntryIs DEF Root, List, Key
<1> QED BY <1>3, <1>4 DEF Well, GivesUp

LEMMA RenderForgets ==
    ASSUME NEW tree, \A p \in tree : Well(p), ShownInv, StaleInv,
           RenderTo(Arriving(tree), Staying(tree), Leaving(tree))
    PROVE  StaleInv'
<1> DEFINE off == UNION {Off(u) : u \in Staying(tree)}
           ends == UNION {s.part.ends : s \in Leaving(tree)}
           reset == Reset(ends \cup off)
<1>1. /\ slot' = [e \in Entries |-> IF e \in reset THEN {} ELSE slot[e]]
      /\ unasked' = unasked \ reset
  BY DEF RenderTo
<1>2. ASSUME NEW e \in Entries, NEW k \in slot'[e] PROVE e \in Entry(k)
  BY <1>1, <1>2 DEF StaleInv
<1>3. ASSUME NEW s \in shown' PROVE Holds(s)
  <2>1. CASE \E p \in Arriving(tree) : s = Mounted(p)
    BY <2>1, MountedHolds DEF Arriving
  <2>2. CASE \E u \in Staying(tree) : s = Updated(u) /\ s.part = u[2]
    BY <2>2, UpdatedHolds DEF Staying, ShownInv, StaleInv
  <2> QED BY <2>1, <2>2, RenderShown
<1>4. ASSUME NEW e \in Entries \ (Kept \cup unasked'), NEW k \in slot'[e]
      PROVE  k \in HeldKeys'
  <2>1. k \in slot[e] /\ e \notin reset /\ e \notin unasked /\ e \in Entry(k)
    BY <1>1, <1>4 DEF StaleInv
  <2>2. k \in HeldKeys BY <2>1 DEF StaleInv, NothingStale
  <2>3. \A m \in ends \cup off : e \notin Entry(m) BY <2>1 DEF Reset
  <2>4. PICK s \in shown : k \in s.held BY <2>2 DEF HeldKeys
  <2>5. \E p \in tree : Same(s.part, p)
    <3> SUFFICES ASSUME s \in Leaving(tree) PROVE FALSE
      BY DEF Leaving
    <3>1. \E m \in s.part.ends : e \in Entry(m)
      BY <2>1, <2>4, EndsForget DEF ShownInv, StaleInv
    <3> QED BY <2>3, <3>1
  <2>6. PICK p \in tree : Same(s.part, p) BY <2>5
  <2>7. <<s, p>> \in Staying(tree) BY <2>6 DEF Staying
  <2>8. k \notin Off(<<s, p>>) BY <2>1, <2>3, <2>7
  <2>9. k \in Updated(<<s, p>>).held BY <2>4, <2>8 DEF Updated
  <2>10. Updated(<<s, p>>) \in shown' BY <2>7 DEF RenderTo
  <2> QED BY <2>9, <2>10 DEF HeldKeys
<1> QED BY <1>2, <1>3, <1>4 DEF StaleInv, NothingStale

LEMMA StaleAlways == BrowserSpec => []StaleInv
<1>1. BrowserInit => StaleInv
  BY DEF BrowserInit, StaleInv, NothingStale, Empty
<1>2. ASSUME StaleInv, ShownInv, [BrowserNext]_vars PROVE StaleInv'
  <2> USE <1>2 DEF StaleInv, transportVars, pageVars
  <2>1. CASE Render
    BY <2>1, RenderForgets, TreeIsWell DEF Render
  <2>2. CASE FollowLink \/ JumpBack \/ ChunkArrives
    BY <2>2 DEF FollowLink, JumpBack, GoTo, ChunkArrives, NothingStale, HeldKeys
  <2>3. CASE Reload
    BY <2>3 DEF Reload, Empty, NothingStale
  <2>4. ASSUME NEW k, Answer(k) \/ FetchDone(k) PROVE StaleInv'
    BY <2>4 DEF Answer, FetchDone, NothingStale, HeldKeys
  <2>5. ASSUME NEW k, Deliver(k) PROVE StaleInv'
    <3>1. /\ slot' = [e \in Entries |-> IF e \in Entry(k) THEN {k} ELSE slot[e]]
          /\ shown' = shown /\ HeldKeys' = HeldKeys
          /\ unasked' = IF k \in HeldKeys THEN unasked \ Entry(k) ELSE unasked \cup Entry(k)
      BY <2>5 DEF Deliver, HeldKeys
    <3> QED BY <3>1 DEF NothingStale
  <2>6. CASE Connects \/ Disconnects
    BY <2>6 DEF Connects, Disconnects, NothingStale, HeldKeys
  <2>7. CASE UNCHANGED vars
    BY <2>7 DEF vars, NothingStale, HeldKeys
  <2> QED BY <2>1, <2>2, <2>3, <2>4, <2>5, <2>6, <2>7 DEF BrowserNext
<1> QED BY <1>1, <1>2, BrowserShows, PTL DEF BrowserSpec

(* Nothing stale is in the store: what an entry holds was asked for by a   *)
(* part that is shown, or is an answer nobody held when it came, and then  *)
(* the entry is on the list of those.                                      *)
THEOREM BrowserForgets == BrowserSpec => []NothingStale
<1>1. StaleInv => NothingStale
  BY DEF StaleInv, NothingStale
<1> QED BY <1>1, StaleAlways, PTL

-----------------------------------------------------------------------------
(* A page acts on what its address names. *)

(* A key that fills the entry of the page's object names that object; and  *)
(* when all is rendered, that is so for all that is shown.                 *)
Named(p) ==
    route.page \in ItemPages => \A k \in Keys(p) : Main \in Entry(k) => k[2] = route.id

ShownIsNamed == boot = "app" /\ ~dirty => \A s \in shown : Named(s.part)

LEMMA RowFillsNothing ==
    ASSUME NEW p, RowPart(p), NEW k \in Keys(p)
    PROVE  Entry(k) = {}
<1>1. k[1] \in RowKinds BY RowIs
<1> QED BY <1>1, EntryIs DEF RowKinds

LEMMA MainIsNamed ==
    ASSUME NEW p \in PageParts, NEW k \in Keys(p), Main \in Entry(k),
           route.page \in ItemPages
    PROVE  k[2] = route.id
<1> USE DEF Keys, Key, List, Part, Plain
<1>1. CASE route.page = "job"
  <2>1. k[1] = "JOB" BY <1>1, EntryIs DEF Main
  <2>2. p \in JobParts BY <1>1 DEF PageParts
  <2>3. CASE p = JobPart BY <2>1, <2>3 DEF JobPart, JobKey
  <2>4. CASE p # JobPart BY <2>1, <2>2, <2>4 DEF JobParts
  <2> QED BY <2>3, <2>4
<1>2. CASE route.page = "client"
  <2>1. k[1] = "NODE" BY <1>2, EntryIs DEF Main
  <2>2. p \in ClientParts BY <1>2 DEF PageParts
  <2> QED BY <2>1, <2>2 DEF ClientParts
<1>3. CASE route.page = "deployment"
  <2>1. k[1] = "DEPLOYMENT" BY <1>3, EntryIs DEF Main
  <2>2. p \in DeploymentParts BY <1>3 DEF PageParts
  <2> QED BY <2>1, <2>2 DEF DeploymentParts
<1>4. CASE route.page = "services"
  <2>1. k[1] = "SERVICE" BY <1>4, EntryIs DEF Main
  <2>2. p = ConsulPart("ConsulServices", "SERVICES", "SERVICE") BY <1>4 DEF PageParts
  <2> QED BY <2>1, <2>2 DEF ConsulPart, Own
<1>5. CASE route.page = "consul_nodes"
  <2>1. k[1] = "CONSUL_NODE" BY <1>5, EntryIs DEF Main
  <2>2. p = ConsulPart("ConsulNodes", "CONSUL_NODES", "CONSUL_NODE") BY <1>5 DEF PageParts
  <2> QED BY <2>1, <2>2 DEF ConsulPart, Own
<1>6. CASE route.page = "sessions"
  <2>1. k[1] = "SESSION" BY <1>6, EntryIs DEF Main
  <2>2. p = ConsulPart("ConsulSessions", "SESSIONS", "SESSION") BY <1>6 DEF PageParts
  <2> QED BY <2>1, <2>2 DEF ConsulPart, Own
<1> QED BY <1>1, <1>2, <1>3, <1>4, <1>5, <1>6 DEF ItemPages

LEMMA TreeIsNamed == \A p \in Tree : Named(p)
BY TreeBelongs, RowFillsNothing, MainIsNamed DEF Belongs, Named

LEMMA MainIsAnEntry == Main \in Entries \ Kept
<1>1. Main \in {"job", "node", "deployment", "consulService", "consulNode", "consulSession"}
  BY DEF Main
<1> QED BY <1>1, HeldEntries DEF Kept

(* A page acts on what its address names, whatever came before: unless an  *)
(* answer nobody asked for is in the store, or a part missed a change.     *)
THEOREM BrowserActsOnItsAddress == BrowserSpec => []ActsOnItsAddress
<1>1. BrowserInit => ShownIsNamed
  BY DEF BrowserInit, TransportInit, ShownIsNamed
<1>2. ASSUME ShownIsNamed, FedInv, RunsOnce, [BrowserNext]_vars PROVE ShownIsNamed'
  <2> USE <1>2 DEF ShownIsNamed, transportVars, pageVars
  <2>1. CASE Render
    <3>1. \A s \in shown' : Named(s.part) BY <2>1, RenderShown, TreeIsNamed DEF Render
    <3>2. CASE route' = route BY <3>1, <3>2 DEF Named, Main
    <3>3. CASE route' # route BY <2>1, <3>3 DEF Render
    <3> QED BY <3>2, <3>3
  <2>2. CASE FollowLink \/ JumpBack \/ ChunkArrives
    BY <2>2 DEF FollowLink, JumpBack, GoTo, ChunkArrives
  <2>3. CASE Reload
    BY <2>3 DEF Reload
  <2>4. ASSUME NEW k, Answer(k) \/ FetchDone(k) PROVE ShownIsNamed'
    BY <2>4 DEF Answer, FetchDone, Named, Main
  <2>5. ASSUME NEW k, Deliver(k) PROVE ShownIsNamed'
    BY <2>5 DEF Deliver
  <2>6. CASE Connects
    <3>1. CASE boot = "app"
      <4>1. boot' = boot /\ UNCHANGED <<pageVars, dirty, shown>>
        BY <2>6, <3>1 DEF Connects, Opens, TimesOut, Retry, OpensLate, RunsOnce
      <4> QED BY <4>1 DEF Named, Main
    <3>2. CASE boot # "app"
      BY <2>6, <3>2 DEF Connects, FedInv
    <3> QED BY <3>1, <3>2
  <2>7. CASE Disconnects
    BY <2>7 DEF Disconnects, SocketCloses, Named, Main
  <2>8. CASE UNCHANGED vars
    BY <2>8 DEF vars, Named, Main
  <2> QED BY <2>1, <2>2, <2>3, <2>4, <2>5, <2>6, <2>7, <2>8 DEF BrowserNext
<1>3. ShownIsNamed /\ StaleInv => ActsOnItsAddress
  <2> SUFFICES ASSUME ShownIsNamed, StaleInv, boot = "app", ~dirty, unasked = {},
                      \A s \in shown : s.held = Keys(s.part),
                      NEW t \in App.targets, t[1] = route.page, t[2] # route.id
               PROVE  FALSE
    BY DEF ActsOnItsAddress
  <2>1. route.page \in ItemPages /\ t[2] \in Held(Main) BY AppBelongs DEF AllBelong, Aims
  <2>2. PICK k \in slot[Main] : k[2] = t[2] BY <2>1 DEF Held
  <2>3. Main \in Entry(k) BY <2>2, MainIsAnEntry DEF StaleInv
  <2>4. k \in HeldKeys BY <2>2, MainIsAnEntry DEF StaleInv, NothingStale
  <2>5. PICK s \in shown : k \in Keys(s.part) BY <2>4 DEF HeldKeys
  <2> QED BY <2>1, <2>2, <2>3, <2>5 DEF ShownIsNamed, Named
<1> QED BY <1>1, <1>2, <1>3, FedAlways, StaleAlways, BrowserRunsOnce, PTL DEF BrowserSpec

-----------------------------------------------------------------------------
(* Types: an address is that of an object of its page's kind, and a key    *)
(* names an object of its own kind, given that this is so for the address  *)
(* and for what is in the store.                                           *)

Stored ==
    /\ route \in Addresses
    /\ Held("job") \subseteq Jobs /\ Held("node") \subseteq Nodes
    /\ Held("member") \subseteq Members /\ Held("evaluation") \subseteq Evals
    /\ Held("deployment") \subseteq Deployments /\ Held("allocation") \subseteq Allocs

TypedPart(p) == Keys(p) \cup p.fetches \subseteq AllKeys

AllTyped(view) == (\A p \in view.parts : TypedPart(p)) /\ view.links \subseteq Addresses

LEMMA KeyTyped ==
    ASSUME NEW kind \in Kinds, NEW id \in NamedBy(kind)
    PROVE  Key(kind, id) \in AllKeys /\ <<kind, id, 0>> \in AllKeys
<1>1. id \in Objects BY DEF NamedBy, Objects
<1> QED BY <1>1 DEF Key, AllKeys

AllPages == NomadPages \cup ConsulPages \cup SectionPages

LEMMA AddressTyped ==
    ASSUME NEW page \in AllPages, NEW id \in ShownBy(page), NEW tab \in TabNames, NEW version \in Nat
    PROVE  Address(page, id, tab, version) \in Addresses
<1>1. id \in Objects BY DEF ShownBy, Objects
<1> QED BY <1>1 DEF Address, Addresses, AllPages

LEMMA ItemTyped ==
    ASSUME NEW page \in AllPages, NEW id \in ShownBy(page), NEW tab \in TabNames
    PROVE  Item(page, id, tab) \in Addresses
BY AddressTyped DEF Item

LEMMA PageTyped ==
    ASSUME NEW page \in AllPages, None \in ShownBy(page)
    PROVE  Page(page) \in Addresses
<1>1. 0 \in Nat /\ "list" \in TabNames BY DEF TabNames
<1>2. Address(page, None, "list", 0) \in Addresses BY <1>1, AddressTyped
<1> QED BY <1>2 DEF Page

LEMMA PartTyped ==
    ASSUME NEW name, NEW id, NEW before, NEW after, before \subseteq AllKeys, after \subseteq AllKeys
    PROVE  TypedPart(Part(name, id, before, after))
BY DEF Part, Keys, TypedPart

LEMMA ViewTyped ==
    ASSUME NEW parts, NEW links, NEW targets, \A p \in parts : TypedPart(p),
           links \subseteq Addresses
    PROVE  AllTyped(View(parts, links, targets))
BY DEF View, AllTyped

LEMMA TogetherTyped ==
    ASSUME NEW views, \A v \in views : AllTyped(v)
    PROVE  AllTyped(Together(views))
BY DEF Together, View, AllTyped

LEMMA ListPageTyped ==
    ASSUME NEW name, NEW keys, NEW view, keys \subseteq AllKeys, AllTyped(view)
    PROVE  AllTyped(ListPage(name, keys, view))
<1>1. TypedPart(Part(name, None, {}, keys)) BY PartTyped
<1>2. AllTyped(View({Part(name, None, {}, keys)}, {}, {})) BY <1>1, ViewTyped
<1> QED BY <1>2, TogetherTyped DEF ListPage

LEMMA ItemPageTyped ==
    ASSUME NEW part, NEW views, TypedPart(part), \A v \in views : AllTyped(v)
    PROVE  AllTyped(ItemPage(part, views))
<1>1. AllTyped(View({part}, {}, {})) BY ViewTyped
<1> QED BY <1>1, TogetherTyped DEF ItemPage

LEMMA OnePartTyped ==
    ASSUME NEW name, NEW id, NEW before, NEW after, before \subseteq AllKeys,
           after \subseteq AllKeys, NEW links, NEW targets, links \subseteq Addresses
    PROVE  AllTyped(View({Part(name, id, before, after)}, links, targets))
<1>1. TypedPart(Part(name, id, before, after)) BY PartTyped
<1> QED BY <1>1, ViewTyped

LEMMA TabsTyped ==
    ASSUME NEW page \in AllPages, NEW id \in ShownBy(page), NEW names, names \subseteq TabNames
    PROVE  AllTyped(Tabs(page, id, names))
<1>1. {Item(page, id, t) : t \in names} \subseteq Addresses BY ItemTyped
<1> QED BY <1>1, ViewTyped DEF Tabs

LEMMA LinksTyped ==
    /\ \A j \in Jobs : JobLink(j) \subseteq Addresses /\ JobGroupLink(j) \subseteq Addresses
    /\ \A n \in Nodes : ClientLink(n) \subseteq Addresses
    /\ \A e \in Evals : EvaluationLink(e) \subseteq Addresses
    /\ \A a \in Allocs : \A tab \in TabNames : AllocationLink(a, tab) \subseteq Addresses
    /\ \A d \in Deployments : DeploymentLink(d) \subseteq Addresses
    /\ \A m \in Members : ServerLink(m) \subseteq Addresses
<1> USE DEF AllPages, NomadPages, TabNames
<1>1. /\ ShownBy("job") = Jobs /\ ShownBy("client") = Nodes /\ ShownBy("evaluation") = Evals
      /\ ShownBy("allocation") = Allocs /\ ShownBy("deployment") = Deployments
      /\ ShownBy("server") = Members
  BY DEF ShownBy
<1>2. ASSUME NEW page \in AllPages, NEW id \in ShownBy(page), NEW tab \in TabNames
      PROVE  {Item(page, id, tab)} \subseteq Addresses
  BY ItemTyped
<1>3. ASSUME NEW j \in Jobs
      PROVE  JobLink(j) \subseteq Addresses /\ JobGroupLink(j) \subseteq Addresses
  BY <1>1, <1>2 DEF JobLink, JobGroupLink
<1>4. ASSUME NEW n \in Nodes PROVE ClientLink(n) \subseteq Addresses
  BY <1>1, <1>2 DEF ClientLink
<1>5. ASSUME NEW e \in Evals PROVE EvaluationLink(e) \subseteq Addresses
  BY <1>1, <1>2 DEF EvaluationLink
<1>6. ASSUME NEW a \in Allocs, NEW tab \in TabNames PROVE AllocationLink(a, tab) \subseteq Addresses
  BY <1>1, <1>2 DEF AllocationLink
<1>7. ASSUME NEW d \in Deployments PROVE DeploymentLink(d) \subseteq Addresses
  BY <1>1, <1>2 DEF DeploymentLink
<1>8. ASSUME NEW m \in Members PROVE ServerLink(m) \subseteq Addresses
  BY <1>1, <1>2 DEF ServerLink
<1> QED BY <1>3, <1>4, <1>5, <1>6, <1>7, <1>8

LEMMA FilteredTyped ==
    ASSUME route \in Addresses
    PROVE  Filtered \subseteq Addresses
BY DEF Filtered, Addresses

LEMMA NothingTyped == AllTyped(Nothing)
BY ViewTyped DEF Nothing

LEMMA ListsTyped == \A kind \in ListKinds : List(kind) \in AllKeys
<1>1. ASSUME NEW kind \in ListKinds PROVE kind \in Kinds /\ None \in NamedBy(kind)
  BY DEF Kinds, ListKinds, NamedBy, AllocKinds, JobKinds, NodeKinds, DeploymentKinds
<1> QED BY <1>1, KeyTyped DEF List

LEMMA KindsTyped ==
    /\ \A kind \in AllocKinds : kind \in Kinds /\ NamedBy(kind) = Allocs
    /\ \A kind \in JobKinds : kind \in Kinds /\ NamedBy(kind) = Jobs
    /\ \A kind \in NodeKinds : kind \in Kinds /\ NamedBy(kind) = Nodes
    /\ \A kind \in DeploymentKinds : kind \in Kinds /\ NamedBy(kind) = Deployments
    /\ "MEMBER" \in Kinds /\ NamedBy("MEMBER") = Members
    /\ "EVAL" \in Kinds /\ NamedBy("EVAL") = Evals
    /\ "CONSUL_NODE" \in Kinds /\ NamedBy("CONSUL_NODE") = ConsulNodes
    /\ "SERVICE" \in Kinds /\ NamedBy("SERVICE") = Services
    /\ "SESSION" \in Kinds /\ NamedBy("SESSION") = Sessions
<1> USE DEF Kinds, NamedBy, AllocKinds, JobKinds, NodeKinds, DeploymentKinds
<1>1. ASSUME NEW kind \in AllocKinds PROVE kind \in Kinds /\ NamedBy(kind) = Allocs OBVIOUS
<1>2. ASSUME NEW kind \in JobKinds PROVE kind \in Kinds /\ NamedBy(kind) = Jobs OBVIOUS
<1>3. ASSUME NEW kind \in NodeKinds PROVE kind \in Kinds /\ NamedBy(kind) = Nodes OBVIOUS
<1>4. ASSUME NEW kind \in DeploymentKinds PROVE kind \in Kinds /\ NamedBy(kind) = Deployments
  OBVIOUS
<1>5. /\ "MEMBER" \in Kinds /\ NamedBy("MEMBER") = Members
      /\ "EVAL" \in Kinds /\ NamedBy("EVAL") = Evals
  OBVIOUS
<1>6. /\ "CONSUL_NODE" \in Kinds /\ NamedBy("CONSUL_NODE") = ConsulNodes
      /\ "SERVICE" \in Kinds /\ NamedBy("SERVICE") = Services
      /\ "SESSION" \in Kinds /\ NamedBy("SESSION") = Sessions
  OBVIOUS
<1> QED BY <1>1, <1>2, <1>3, <1>4, <1>5, <1>6

LEMMA KeysTyped ==
    /\ \A a \in Allocs : /\ Key("ALLOC", a) \in AllKeys /\ Key("STATS", a) \in AllKeys
                         /\ Key("SIMPLE_STATS", a) \in AllKeys /\ Key("ALLOC_HEALTH", a) \in AllKeys
    /\ \A j \in Jobs : /\ Key("JOB_VERSIONS", j) \in AllKeys /\ Key("JOB_ALLOCATIONS", j) \in AllKeys
                       /\ Key("JOB_DEPLOYMENTS", j) \in AllKeys /\ Key("JOB_HEALTH", j) \in AllKeys
                       /\ Key("JOBS_FILTERED", j) \in AllKeys
                       /\ \A v \in Nat : JobKey(j, v) \in AllKeys
    /\ \A n \in Nodes : Key("NODE", n) \in AllKeys /\ Key("CLIENT_STATS", n) \in AllKeys
    /\ \A m \in Members : Key("MEMBER", m) \in AllKeys
    /\ \A e \in Evals : Key("EVAL", e) \in AllKeys
    /\ \A d \in Deployments : /\ Key("DEPLOYMENT", d) \in AllKeys
                              /\ Key("DEPLOYMENT_ALLOCATIONS", d) \in AllKeys
<1>1. ASSUME NEW a \in Allocs
      PROVE  /\ Key("ALLOC", a) \in AllKeys /\ Key("STATS", a) \in AllKeys
             /\ Key("SIMPLE_STATS", a) \in AllKeys /\ Key("ALLOC_HEALTH", a) \in AllKeys
  BY KeyTyped, KindsTyped DEF AllocKinds
<1>2. ASSUME NEW j \in Jobs
      PROVE  /\ Key("JOB_VERSIONS", j) \in AllKeys /\ Key("JOB_ALLOCATIONS", j) \in AllKeys
             /\ Key("JOB_DEPLOYMENTS", j) \in AllKeys /\ Key("JOB_HEALTH", j) \in AllKeys
             /\ Key("JOBS_FILTERED", j) \in AllKeys
  BY KeyTyped, KindsTyped DEF JobKinds
<1>3. ASSUME NEW j \in Jobs, NEW v \in Nat PROVE JobKey(j, v) \in AllKeys
  <2>1. "JOB" \in Kinds /\ j \in NamedBy("JOB") BY KindsTyped DEF JobKinds
  <2>2. j \in Objects BY DEF Objects
  <2> QED BY <2>1, <2>2 DEF JobKey, AllKeys
<1>4. ASSUME NEW n \in Nodes PROVE Key("NODE", n) \in AllKeys /\ Key("CLIENT_STATS", n) \in AllKeys
  BY KeyTyped, KindsTyped DEF NodeKinds
<1>5. ASSUME NEW m \in Members PROVE Key("MEMBER", m) \in AllKeys
  BY KeyTyped, KindsTyped
<1>6. ASSUME NEW e \in Evals PROVE Key("EVAL", e) \in AllKeys
  BY KeyTyped, KindsTyped
<1>7. ASSUME NEW d \in Deployments
      PROVE  Key("DEPLOYMENT", d) \in AllKeys /\ Key("DEPLOYMENT_ALLOCATIONS", d) \in AllKeys
  BY KeyTyped, KindsTyped DEF DeploymentKinds
<1> QED BY <1>1, <1>2, <1>3, <1>4, <1>5, <1>6, <1>7

(* The lists.                                                              *)
LEMMA AllocationRowTyped ==
    ASSUME NEW a \in Allocs
    PROVE  AllTyped(AllocationRow(a))
<1> DEFINE links == (UNION {AllocationLink(a, t) : t \in {"info", "stats", "files"}})
                      \cup {Address("job", JobOf[a], "info", VersionOf[a])}
                      \cup JobGroupLink(JobOf[a]) \cup ClientLink(NodeOf[a])
<1>1. JobOf[a] \in Jobs /\ NodeOf[a] \in Nodes /\ VersionOf[a] \in Nat BY PagesAssumption
<1>2. TypedPart(AllocationStatsCell(a)) /\ TypedPart(AllocationConsulHealth(a))
  <2>1. {} \subseteq AllKeys OBVIOUS
  <2>2. {Key("SIMPLE_STATS", a)} \subseteq AllKeys /\ {Key("ALLOC_HEALTH", a)} \subseteq AllKeys
    BY KeysTyped
  <2> QED BY <2>1, <2>2, PartTyped DEF AllocationStatsCell, AllocationConsulHealth
<1>3. Address("job", JobOf[a], "info", VersionOf[a]) \in Addresses
  <2>1. "job" \in AllPages /\ "info" \in TabNames BY DEF AllPages, NomadPages, TabNames
  <2>2. JobOf[a] \in ShownBy("job") BY <1>1 DEF ShownBy
  <2> QED BY <1>1, <2>1, <2>2, AddressTyped
<1>4. \A t \in {"info", "stats", "files"} : AllocationLink(a, t) \subseteq Addresses
  BY LinksTyped DEF TabNames
<1>5. JobGroupLink(JobOf[a]) \subseteq Addresses /\ ClientLink(NodeOf[a]) \subseteq Addresses
  BY <1>1, LinksTyped
<1>6. links \subseteq Addresses BY <1>3, <1>4, <1>5
<1> HIDE DEF links
<1>7. AllTyped(View({AllocationStatsCell(a), AllocationConsulHealth(a)}, links, {}))
  BY <1>2, <1>6, ViewTyped
<1> QED BY <1>7 DEF AllocationRow, links

LEMMA AllocationListTyped ==
    ASSUME route \in Addresses, NEW as \in SUBSET Allocs
    PROVE  AllTyped(AllocationList(as))
<1> DEFINE rows == {AllocationRow(a) : a \in IF route.hidden THEN {} ELSE as}
<1>1. AllTyped(View({}, Filtered, {})) BY ViewTyped, FilteredTyped
<1>2. \A v \in {View({}, Filtered, {})} \cup rows : AllTyped(v) BY <1>1, AllocationRowTyped
<1> QED BY <1>2, TogetherTyped DEF AllocationList

LEMMA LoadedIn ==
    ASSUME NEW entry, NEW all
    PROVE  Loaded(entry, all) \in SUBSET all
BY DEF Loaded

LEMMA JobListTyped ==
    ASSUME NEW js \in SUBSET Jobs
    PROVE  AllTyped(JobList(js))
<1>1. \A j \in Jobs : TypedPart(JobHealth(j))
  <2>1. \A j \in Jobs : {Key("JOB_HEALTH", j)} \subseteq AllKeys BY KeysTyped
  <2> QED BY <2>1, PartTyped DEF JobHealth
<1>2. ById(js, JobLink) \subseteq Addresses BY LinksTyped DEF ById
<1>3. \A p \in {JobHealth(j) : j \in js \cap ServiceJobs} : TypedPart(p) BY <1>1
<1> QED BY <1>2, <1>3, ViewTyped DEF JobList

LEMMA EvaluationListTyped ==
    ASSUME NEW es \in SUBSET Evals
    PROVE  AllTyped(EvaluationList(es))
<1>1. \A e \in Evals : JobOf[e] \in Jobs BY PagesAssumption
<1>2. UNION {JobLink(JobOf[e]) \cup EvaluationLink(e) : e \in es} \subseteq Addresses
  BY <1>1, LinksTyped
<1> QED BY <1>2, ViewTyped DEF EvaluationList

LEMMA DeploymentListTyped ==
    ASSUME NEW ds \in SUBSET Deployments
    PROVE  AllTyped(DeploymentList(ds))
<1>1. \A d \in Deployments : JobOf[d] \in Jobs BY PagesAssumption
<1>2. UNION {JobLink(JobOf[d]) \cup DeploymentLink(d) : d \in ds} \subseteq Addresses
  BY <1>1, LinksTyped
<1> QED BY <1>2, ViewTyped DEF DeploymentList

(* The pages of lists.                                                     *)
LEMMA ListPagesTyped ==
    ASSUME Stored
    PROVE  AllTyped(Lists)
<1> USE DEF Stored
<1>1. AllTyped(Clients)
  <2>1. ById(Nodes, ClientLink) \subseteq Addresses BY LinksTyped DEF ById
  <2>2. AllTyped(View({}, ById(Nodes, ClientLink), {})) BY <2>1, ViewTyped
  <2>3. {List("NODES")} \subseteq AllKeys BY ListsTyped DEF ListKinds
  <2> QED BY <2>2, <2>3, ListPageTyped DEF Clients
<1>2. AllTyped(Servers)
  <2>1. ById(Members, ServerLink) \subseteq Addresses BY LinksTyped DEF ById
  <2>2. AllTyped(View({}, ById(Members, ServerLink), {})) BY <2>1, ViewTyped
  <2>3. {List("MEMBERS")} \subseteq AllKeys BY ListsTyped DEF ListKinds
  <2> QED BY <2>2, <2>3, ListPageTyped DEF Servers
<1>3. AllTyped(Allocations)
  <2>1. AllTyped(AllocationList(Loaded("allocations", Allocs)))
    BY LoadedIn, AllocationListTyped
  <2>2. {List("ALLOCS_SHALLOW"), List("NODES")} \subseteq AllKeys BY ListsTyped DEF ListKinds
  <2> QED BY <2>1, <2>2, ListPageTyped DEF Allocations
<1>4. AllTyped(Evaluations)
  <2>1. AllTyped(EvaluationList(Evals)) BY EvaluationListTyped
  <2>2. {List("EVALS")} \subseteq AllKeys BY ListsTyped DEF ListKinds
  <2> QED BY <2>1, <2>2, ListPageTyped DEF Evaluations
<1>5. AllTyped(DeploymentsPage)
  <2>1. AllTyped(DeploymentList(Deployments)) BY DeploymentListTyped
  <2>2. {List("DEPLOYMENTS")} \subseteq AllKeys BY ListsTyped DEF ListKinds
  <2> QED BY <2>1, <2>2, ListPageTyped DEF DeploymentsPage
<1>6. AllTyped(JobsPage)
  <2> DEFINE js == IF route.hidden THEN {} ELSE Loaded("jobs", Jobs)
  <2>1. js \in SUBSET Jobs BY LoadedIn
  <2>2. AllTyped(JobList(js)) BY <2>1, JobListTyped
  <2>3. AllTyped(View({}, Filtered, {})) BY ViewTyped, FilteredTyped
  <2>4. AllTyped(Together({View({}, Filtered, {}), JobList(js)}))
    BY <2>2, <2>3, TogetherTyped
  <2>5. {List("JOBS")} \subseteq AllKeys BY ListsTyped DEF ListKinds
  <2> QED BY <2>4, <2>5, ListPageTyped DEF JobsPage
<1>7. AllTyped(Cluster)
  <2> DEFINE keys == {List(k) : k \in {"JOBS", "NODES", "MEMBERS", "CLUSTER_STATISTICS"}}
             links == UNION {AllocationLink(a, "info") : a \in Loaded("allocations", Allocs)}
  <2>1. keys \subseteq AllKeys /\ {List("ALLOCS")} \subseteq AllKeys
    BY ListsTyped DEF ListKinds
  <2>2. links \subseteq Addresses BY LoadedIn, LinksTyped DEF TabNames
  <2>3. {} \subseteq AllKeys /\ {} \subseteq Addresses OBVIOUS
  <2> HIDE DEF keys, links
  <2>4. AllTyped(View({Part("ClusterEvents", None, {List("ALLOCS")}, {})}, links, {}))
    BY <2>1, <2>2, <2>3, OnePartTyped
  <2>5. AllTyped(View({Part("Cluster", None, keys, {})}, {}, {}))
    BY <2>1, <2>3, OnePartTyped
  <2> QED BY <2>4, <2>5, TogetherTyped DEF Cluster, ClusterEvents, keys, links
<1>8. AllTyped(System) BY ViewTyped DEF System
<1> QED BY <1>1, <1>2, <1>3, <1>4, <1>5, <1>6, <1>7, <1>8, NothingTyped DEF Lists

(* The pages of one object.                                                *)
LEMMA RouteTyped ==
    ASSUME Stored
    PROVE  /\ route.id \in ShownBy(route.page) /\ route.tab \in TabNames /\ route.version \in Nat
           /\ route.page = "job" => route.id \in Jobs
           /\ route.page = "client" => route.id \in Nodes
           /\ route.page = "server" => route.id \in Members
           /\ route.page = "evaluation" => route.id \in Evals
           /\ route.page = "deployment" => route.id \in Deployments
           /\ route.page = "allocation" => route.id \in Allocs
<1>1. route.id \in ShownBy(route.page) /\ route.tab \in TabNames /\ route.version \in Nat
  BY DEF Stored, Addresses
<1> QED BY <1>1 DEF ShownBy

LEMMA JobTabTyped ==
    ASSUME Stored, route.page = "job", NEW j \in Jobs
    PROVE  AllTyped(JobTab(j))
<1>1. AllTyped(JobInfo(j)) BY LinksTyped, ViewTyped DEF JobInfo
<1>2. AllTyped(JobTaskGroups(j)) BY LinksTyped, ViewTyped DEF JobTaskGroups
<1>3. AllTyped(JobChildren(j))
  <2>1. ById(Held("filteredJobs"), Children) \in SUBSET Jobs BY DEF ById, Children
  <2>2. AllTyped(JobList(ById(Held("filteredJobs"), Children))) BY <2>1, JobListTyped
  <2>3. {Key("JOBS_FILTERED", j)} \subseteq AllKeys /\ {} \subseteq AllKeys /\ {} \subseteq Addresses
    BY KeysTyped
  <2>4. AllTyped(View({Part("JobChildren", None, {}, {Key("JOBS_FILTERED", j)})}, {}, {}))
    BY <2>3, OnePartTyped
  <2> QED BY <2>2, <2>4, TogetherTyped DEF JobChildren
<1>4. AllTyped(JobAllocations)
  <2> DEFINE keys == {Key("JOB_ALLOCATIONS", route.id), List("NODES")}
             as == {a \in Allocs : JobOf[a] \in Held("jobAllocations")}
  <2>1. keys \subseteq AllKeys /\ {} \subseteq AllKeys /\ {} \subseteq Addresses
    BY KeysTyped, ListsTyped, RouteTyped DEF ListKinds
  <2>2. AllTyped(View({Part("JobAllocations", None, keys, {})}, {}, {}))
    BY <2>1, OnePartTyped
  <2>3. AllTyped(AllocationList(as)) BY AllocationListTyped DEF Stored
  <2> QED BY <2>2, <2>3, TogetherTyped DEF JobAllocations
<1>5. AllTyped(JobEvaluations)
  <2>1. {List("EVALS")} \subseteq AllKeys /\ {} \subseteq AllKeys /\ {} \subseteq Addresses
    BY ListsTyped DEF ListKinds
  <2>2. AllTyped(View({Part("JobEvaluations", None, {List("EVALS")}, {})}, {}, {}))
    BY <2>1, OnePartTyped
  <2>3. AllTyped(EvaluationList({e \in Evals : JobOf[e] = route.id})) BY EvaluationListTyped
  <2> QED BY <2>2, <2>3, TogetherTyped DEF JobEvaluations
<1>6. AllTyped(JobDeployments)
  <2>1. {Key("JOB_DEPLOYMENTS", route.id)} \subseteq AllKeys BY KeysTyped, RouteTyped
  <2>2. AllTyped(DeploymentList({d \in Deployments : JobOf[d] = route.id}))
    BY DeploymentListTyped
  <2> QED BY <2>1, <2>2, ListPageTyped DEF JobDeployments
<1> QED BY <1>1, <1>2, <1>3, <1>4, <1>5, <1>6, NothingTyped DEF JobTab

LEMMA JobPageTyped ==
    ASSUME Stored, route.page = "job"
    PROVE  AllTyped(JobPage)
<1>1. TypedPart(JobPart)
  <2> DEFINE keys == {Key("JOB_VERSIONS", route.id), JobKey(route.id, route.version)}
  <2>1. keys \subseteq AllKeys BY KeysTyped, RouteTyped
  <2>2. Keys(JobPart) = keys /\ JobPart.fetches = {} BY DEF JobPart, Part, Keys
  <2> QED BY <2>1, <2>2 DEF TypedPart
<1>2. ASSUME NEW j \in Jobs PROVE AllTyped(JobLoaded(j))
  <2>1. \A t \in TabNames : \A v \in Nat : Address("job", j, t, v) \in Addresses
    <3>1. "job" \in AllPages BY DEF AllPages, NomadPages
    <3>2. j \in ShownBy("job") BY DEF ShownBy
    <3> QED BY <3>1, <3>2, AddressTyped
  <2>2. AllTyped(JobTopbar(j))
    <3> DEFINE names == {"info", "groups"}
                          \cup (IF j \in Periodic THEN {"children"} ELSE {})
                          \cup (IF route.version = 0 /\ j \notin Periodic
                                THEN {"deployments", "allocations", "evaluations"} ELSE {})
    <3>1. names \subseteq TabNames BY DEF TabNames
    <3>2. {Address("job", j, t, route.version) : t \in names} \subseteq Addresses
      BY <2>1, <3>1, RouteTyped
    <3> QED BY <3>2, ViewTyped DEF JobTopbar
  <2>3. AllTyped(JobBreadcrumb(j))
    <3> DEFINE versions == {Address("job", j, "info", v) : v \in 0..(Latest[j] - 1)}
               parents == ById({ParentOf[j]} \ {None}, JobLink)
    <3>1. versions \subseteq Addresses
      <4>1. "info" \in TabNames BY DEF TabNames
      <4>2. Latest[j] \in Nat BY PagesAssumption
      <4>3. \A v \in 0..(Latest[j] - 1) : v \in Nat BY <4>2
      <4> QED BY <2>1, <4>1, <4>3
    <3>2. parents \subseteq Addresses
      <4>1. {ParentOf[j]} \ {None} \subseteq Jobs BY PagesAssumption
      <4> QED BY <4>1, LinksTyped DEF ById
    <3>3. Page("jobs") \in Addresses
      BY PageTyped DEF AllPages, NomadPages, ShownBy
    <3> QED BY <3>1, <3>2, <3>3, ViewTyped DEF JobBreadcrumb
  <2>4. AllTyped(JobTabLink(j))
    <3>1. Item("job", j, route.tab) \in Addresses BY <2>1, RouteTyped DEF Item
    <3> QED BY <3>1, ViewTyped DEF JobTabLink
  <2>5. AllTyped(JobActionMenu(j)) /\ AllTyped(ForceRun(j))
    BY ViewTyped DEF JobActionMenu, ForceRun
  <2> QED BY <2>2, <2>3, <2>4, <2>5, JobTabTyped, TogetherTyped DEF JobLoaded
<1> QED BY <1>1, <1>2, ItemPageTyped DEF JobPage, Stored

LEMMA ClientTyped ==
    ASSUME Stored, route.page = "client"
    PROVE  AllTyped(Client)
<1>1. TypedPart(Part("Client", None, {Key("NODE", route.id)}, {}))
  <2>1. {Key("NODE", route.id)} \subseteq AllKeys /\ {} \subseteq AllKeys BY KeysTyped, RouteTyped
  <2> QED BY <2>1, PartTyped
<1>2. ASSUME NEW n \in Nodes PROVE AllTyped(ClientLoaded(n))
  <2>1. AllTyped(ClientTopbar(n))
    <3>1. "client" \in AllPages /\ n \in ShownBy("client")
            /\ {"info", "stats", "allocations", "evaluations"} \subseteq TabNames
      BY DEF AllPages, NomadPages, ShownBy, TabNames
    <3> QED BY <3>1, TabsTyped DEF ClientTopbar
  <2>2. AllTyped(ClientActionMenu(n)) BY ViewTyped DEF ClientActionMenu
  <2>3. {} \subseteq AllKeys /\ {} \subseteq Addresses OBVIOUS
  <2>4. AllTyped(ClientStats(n))
    <3>1. {Key("CLIENT_STATS", n)} \subseteq AllKeys BY KeysTyped
    <3> QED BY <2>3, <3>1, OnePartTyped DEF ClientStats
  <2>5. AllTyped(ClientAllocations(n))
    <3>1. {List("ALLOCS_SHALLOW")} \subseteq AllKeys BY ListsTyped DEF ListKinds
    <3>2. AllTyped(View({Part("ClientAllocations", None, {List("ALLOCS_SHALLOW")}, {})}, {}, {}))
      BY <2>3, <3>1, OnePartTyped
    <3>3. {a \in Loaded("allocations", Allocs) : NodeOf[a] = n} \in SUBSET Allocs BY LoadedIn
    <3>4. AllTyped(AllocationList({a \in Loaded("allocations", Allocs) : NodeOf[a] = n}))
      BY <3>3, AllocationListTyped DEF Stored
    <3> QED BY <3>2, <3>4, TogetherTyped DEF ClientAllocations
  <2>6. AllTyped(ClientEvaluations)
    <3>1. {List("EVALS")} \subseteq AllKeys BY ListsTyped DEF ListKinds
    <3>2. AllTyped(View({Part("ClientEvaluations", None, {List("EVALS")}, {})}, {}, {}))
      BY <2>3, <3>1, OnePartTyped
    <3>3. AllTyped(EvaluationList(Evals)) BY EvaluationListTyped
    <3> QED BY <3>2, <3>3, TogetherTyped DEF ClientEvaluations
  <2>7. AllTyped(ClientTab(n)) BY <2>4, <2>5, <2>6, NothingTyped DEF ClientTab
  <2> QED BY <2>1, <2>2, <2>7, TogetherTyped DEF ClientLoaded
<1> QED BY <1>1, <1>2, ItemPageTyped DEF Client, Stored

LEMMA ServerTyped ==
    ASSUME Stored, route.page = "server"
    PROVE  AllTyped(Server)
<1>1. TypedPart(Part("Server", None, {Key("MEMBER", route.id)}, {}))
  <2>1. {Key("MEMBER", route.id)} \subseteq AllKeys /\ {} \subseteq AllKeys
    BY KeysTyped, RouteTyped
  <2> QED BY <2>1, PartTyped
<1>2. ASSUME NEW m \in Members PROVE AllTyped(ServerTopbar(m))
  <2>1. "server" \in AllPages /\ m \in ShownBy("server") /\ {"info"} \subseteq TabNames
    BY DEF AllPages, NomadPages, ShownBy, TabNames
  <2> QED BY <2>1, TabsTyped DEF ServerTopbar
<1> QED BY <1>1, <1>2, ItemPageTyped DEF Server, Stored

LEMMA EvaluationTyped ==
    ASSUME Stored, route.page = "evaluation"
    PROVE  AllTyped(Evaluation)
<1>1. TypedPart(EvaluationPart)
  <2> DEFINE keys == {Key("EVAL", route.id), List("ALLOCS_SHALLOW"), List("NODES")}
  <2>1. keys \subseteq AllKeys BY KeysTyped, ListsTyped, RouteTyped DEF ListKinds
  <2>2. Keys(EvaluationPart) = keys /\ EvaluationPart.fetches = {}
    BY DEF EvaluationPart, Part, Keys
  <2> QED BY <2>1, <2>2 DEF TypedPart
<1>2. ASSUME NEW e \in Evals PROVE AllTyped(EvaluationLoaded(e))
  <2>1. AllTyped(EvaluationTopbar(e))
    <3>1. "evaluation" \in AllPages /\ e \in ShownBy("evaluation")
            /\ {"info", "allocations"} \subseteq TabNames
      BY DEF AllPages, NomadPages, ShownBy, TabNames
    <3> QED BY <3>1, TabsTyped DEF EvaluationTopbar
  <2>2. AllTyped(EvaluationInfo(e))
    <3>1. JobOf[e] \in Jobs /\ Related[e] \subseteq Evals BY PagesAssumption
    <3>2. JobLink(JobOf[e]) \cup ById(Related[e], EvaluationLink) \subseteq Addresses
      BY <3>1, LinksTyped DEF ById
    <3> QED BY <3>2, ViewTyped DEF EvaluationInfo
  <2>3. AllTyped(EvaluationAllocations(e))
    <3>1. {a \in Loaded("allocations", Allocs) : JobOf[a] = JobOf[e]} \in SUBSET Allocs
      BY LoadedIn
    <3> QED BY <3>1, AllocationListTyped DEF EvaluationAllocations, Stored
  <2>4. AllTyped(EvaluationTab(e)) BY <2>2, <2>3, NothingTyped DEF EvaluationTab
  <2> QED BY <2>1, <2>4, TogetherTyped DEF EvaluationLoaded
<1> QED BY <1>1, <1>2, ItemPageTyped DEF Evaluation, Stored

LEMMA DeploymentTyped ==
    ASSUME Stored, route.page = "deployment"
    PROVE  AllTyped(Deployment)
<1>1. TypedPart(Part("Deployment", None, {Key("DEPLOYMENT", route.id)}, {}))
  <2>1. {Key("DEPLOYMENT", route.id)} \subseteq AllKeys /\ {} \subseteq AllKeys
    BY KeysTyped, RouteTyped
  <2> QED BY <2>1, PartTyped
<1>2. ASSUME NEW d \in Deployments PROVE AllTyped(DeploymentLoaded(d))
  <2>1. AllTyped(DeploymentTopbar(d))
    <3>1. "deployment" \in AllPages /\ d \in ShownBy("deployment")
            /\ {"info", "allocations"} \subseteq TabNames
      BY DEF AllPages, NomadPages, ShownBy, TabNames
    <3> QED BY <3>1, TabsTyped DEF DeploymentTopbar
  <2>2. AllTyped(DeploymentBreadcrumb(d))
    <3>1. JobOf[d] \in Jobs BY PagesAssumption
    <3>2. Page("jobs") \in Addresses BY PageTyped DEF AllPages, NomadPages, ShownBy
    <3>3. Item("job", JobOf[d], "deployments") \in Addresses
      BY <3>1, ItemTyped DEF AllPages, NomadPages, ShownBy, TabNames
    <3>4. JobLink(JobOf[d]) \subseteq Addresses /\ DeploymentLink(d) \subseteq Addresses
      BY <3>1, LinksTyped
    <3> QED BY <3>2, <3>3, <3>4, ViewTyped DEF DeploymentBreadcrumb
  <2>3. AllTyped(DeploymentInfo(d)) BY ViewTyped DEF DeploymentInfo
  <2>4. AllTyped(DeploymentAllocations)
    <3> DEFINE keys == {Key("DEPLOYMENT_ALLOCATIONS", route.id), List("NODES")}
               as == {a \in Allocs : \E x \in Held("deploymentAllocations") : JobOf[a] = JobOf[x]}
    <3>1. keys \subseteq AllKeys /\ {} \subseteq AllKeys /\ {} \subseteq Addresses
      BY KeysTyped, ListsTyped, RouteTyped DEF ListKinds
    <3>2. AllTyped(View({Part("DeploymentAllocations", None, keys, {})}, {}, {}))
      BY <3>1, OnePartTyped
    <3>3. AllTyped(AllocationList(as)) BY AllocationListTyped DEF Stored
    <3> QED BY <3>2, <3>3, TogetherTyped DEF DeploymentAllocations
  <2>5. AllTyped(DeploymentTab(d)) BY <2>3, <2>4, NothingTyped DEF DeploymentTab
  <2> QED BY <2>1, <2>2, <2>5, TogetherTyped DEF DeploymentLoaded
<1> QED BY <1>1, <1>2, ItemPageTyped DEF Deployment, Stored

LEMMA AllocationTyped ==
    ASSUME Stored, route.page = "allocation"
    PROVE  AllTyped(Allocation)
<1>1. \A a \in Allocs : JobOf[a] \in Jobs /\ NodeOf[a] \in Nodes BY PagesAssumption
<1>2. TypedPart(AllocationPart)
  <2>1. Keys(AllocationPart) = {Key("ALLOC", route.id)}
        /\ AllocationPart.fetches = {Key("NODE", NodeOf[a]) : a \in Held("allocation")}
    BY DEF AllocationPart, Part, Keys
  <2>2. Key("ALLOC", route.id) \in AllKeys BY KeysTyped, RouteTyped
  <2>3. \A a \in Held("allocation") : Key("NODE", NodeOf[a]) \in AllKeys
    BY <1>1, KeysTyped DEF Stored
  <2> QED BY <2>1, <2>2, <2>3 DEF TypedPart
<1>3. ASSUME NEW a \in Allocs PROVE AllTyped(AllocationLoaded(a))
  <2>1. AllTyped(AllocationTopbar(a))
    <3>1. "allocation" \in AllPages /\ a \in ShownBy("allocation")
            /\ {"info", "stats", "files"} \subseteq TabNames
      BY DEF AllPages, NomadPages, ShownBy, TabNames
    <3> QED BY <3>1, TabsTyped DEF AllocationTopbar
  <2>2. {} \subseteq AllKeys /\ {} \subseteq Addresses OBVIOUS
  <2>3. AllTyped(AllocationBreadcrumb(a))
    <3> DEFINE links == {Page("jobs")} \cup JobLink(JobOf[a])
                          \cup {Item("job", JobOf[a], "allocations")}
                          \cup AllocationLink(a, "info") \cup AllocationLink(a, route.tab)
                          \cup ClientLink(NodeOf[a])
    <3>1. Page("jobs") \in Addresses BY PageTyped DEF AllPages, NomadPages, ShownBy
    <3>2. Item("job", JobOf[a], "allocations") \in Addresses
      BY <1>1, ItemTyped DEF AllPages, NomadPages, ShownBy, TabNames
    <3>3. JobLink(JobOf[a]) \subseteq Addresses /\ ClientLink(NodeOf[a]) \subseteq Addresses
      BY <1>1, LinksTyped
    <3>4. AllocationLink(a, "info") \subseteq Addresses
          /\ AllocationLink(a, route.tab) \subseteq Addresses
      BY LinksTyped, RouteTyped DEF TabNames
    <3>5. links \subseteq Addresses BY <3>1, <3>2, <3>3, <3>4
    <3>6. {Key("ALLOC_HEALTH", a)} \subseteq AllKeys BY KeysTyped
    <3> HIDE DEF links
    <3>7. AllTyped(View({AllocationConsulHealth(a)}, links, {}))
      BY <2>2, <3>5, <3>6, OnePartTyped DEF AllocationConsulHealth
    <3> QED BY <3>7 DEF AllocationBreadcrumb, links
  <2>4. AllTyped(AllocationInfo(a))
    <3> DEFINE p == [Part("AllocationInfo", None, {}, {}) EXCEPT !.fetches = {Key("NODE", NodeOf[a])}]
               links == JobLink(JobOf[a]) \cup JobGroupLink(JobOf[a]) \cup ClientLink(NodeOf[a])
    <3>1. Keys(p) = {} /\ p.fetches = {Key("NODE", NodeOf[a])} BY DEF Part, Keys
    <3>2. links \subseteq Addresses BY <1>1, LinksTyped
    <3> HIDE DEF p, links
    <3>3. TypedPart(p) BY <1>1, <3>1, KeysTyped DEF TypedPart
    <3>4. AllTyped(View({p}, links, {})) BY <3>2, <3>3, ViewTyped
    <3> QED BY <3>4 DEF AllocationInfo, p, links
  <2>5. AllTyped(AllocationStats(a))
    <3>1. {Key("STATS", a)} \subseteq AllKeys BY KeysTyped
    <3> QED BY <2>2, <3>1, OnePartTyped DEF AllocationStats
  <2>6. AllTyped(AllocationFiles)
    <3>1. {List("NODES")} \subseteq AllKeys BY ListsTyped DEF ListKinds
    <3> QED BY <2>2, <3>1, OnePartTyped DEF AllocationFiles
  <2>7. AllTyped(AllocationTab(a)) BY <2>4, <2>5, <2>6, NothingTyped DEF AllocationTab
  <2> QED BY <2>1, <2>3, <2>7, TogetherTyped DEF AllocationLoaded
<1> QED BY <1>2, <1>3, ItemPageTyped DEF Allocation, Stored

(* Consul, and all there is.                                               *)
LEMMA ConsulPageTyped ==
    ASSUME NEW name, NEW page \in AllPages, NEW list \in ListKinds, NEW kind \in Kinds, NEW objects,
           \A x \in {route.id} \ {None} : x \in NamedBy(kind), objects \subseteq ShownBy(page)
    PROVE  AllTyped(ConsulPage(name, page, list, kind, objects))
<1> DEFINE own == {Key(kind, x) : x \in {route.id} \ {None}}
           p == [Part(name, None, {}, {List(list)} \cup own) EXCEPT !.follows = TRUE]
           links == {Item(page, x, "list") : x \in objects}
<1>1. own \subseteq AllKeys BY KeyTyped
<1>2. List(list) \in AllKeys BY ListsTyped
<1>3. Keys(p) = {List(list)} \cup own /\ p.fetches = {} BY DEF Part, Keys
<1>4. links \subseteq Addresses BY ItemTyped DEF TabNames
<1>5. TypedPart(p) BY <1>1, <1>2, <1>3 DEF TypedPart
<1> HIDE DEF p, links
<1>6. AllTyped(View({p}, links, {})) BY <1>4, <1>5, ViewTyped
<1> QED BY <1>6 DEF ConsulPage, p, links

LEMMA ConsulTyped ==
    ASSUME Stored
    PROVE  AllTyped(Consul)
<1>1. route.id \in ShownBy(route.page) BY RouteTyped
<1>2. ASSUME route.page = "services" PROVE AllTyped(ConsulServices)
  <2>1. \A x \in {route.id} \ {None} : x \in NamedBy("SERVICE")
    BY <1>1, <1>2, KindsTyped DEF ShownBy
  <2>2. "services" \in AllPages /\ "SERVICES" \in ListKinds /\ Services \subseteq ShownBy("services")
    BY DEF AllPages, ConsulPages, ListKinds, ShownBy
  <2>3. AllTyped(ConsulPage("ConsulServices", "services", "SERVICES", "SERVICE", Services))
    BY <2>1, <2>2, KindsTyped, ConsulPageTyped
  <2> QED BY <2>3, ViewTyped, TogetherTyped DEF ConsulServices
<1>3. ASSUME route.page = "consul_nodes" PROVE AllTyped(ConsulNodesPage)
  <2>1. \A x \in {route.id} \ {None} : x \in NamedBy("CONSUL_NODE")
    BY <1>1, <1>3, KindsTyped DEF ShownBy
  <2>2. "consul_nodes" \in AllPages /\ "CONSUL_NODES" \in ListKinds
          /\ ConsulNodes \subseteq ShownBy("consul_nodes")
    BY DEF AllPages, ConsulPages, ListKinds, ShownBy
  <2>3. AllTyped(ConsulPage("ConsulNodes", "consul_nodes", "CONSUL_NODES", "CONSUL_NODE",
                            ConsulNodes))
    BY <2>1, <2>2, KindsTyped, ConsulPageTyped
  <2> QED BY <2>3, ViewTyped, TogetherTyped DEF ConsulNodesPage
<1>4. ASSUME route.page = "sessions" PROVE AllTyped(ConsulSessions)
  <2>1. \A x \in {route.id} \ {None} : x \in NamedBy("SESSION")
    BY <1>1, <1>4, KindsTyped DEF ShownBy
  <2>2. "sessions" \in AllPages /\ "SESSIONS" \in ListKinds /\ Sessions \subseteq ShownBy("sessions")
          /\ None \in ShownBy("sessions")
    BY DEF AllPages, ConsulPages, ListKinds, ShownBy
  <2>3. AllTyped(ConsulPage("ConsulSessions", "sessions", "SESSIONS", "SESSION", Sessions))
    BY <2>1, <2>2, KindsTyped, ConsulPageTyped
  <2>4. Page("sessions") \in Addresses BY <2>2, PageTyped
  <2> QED BY <2>3, <2>4, ViewTyped, TogetherTyped DEF ConsulSessions
<1>5. AllTyped(ConsulKV)
  <2> DEFINE p == [Part("ConsulKV", None, {}, {List("KV_PATH")}) EXCEPT !.ends = {}]
  <2>1. Keys(p) = {List("KV_PATH")} /\ p.fetches = {} BY DEF Part, Keys
  <2>2. TypedPart(p) BY <2>1, ListsTyped DEF TypedPart, ListKinds
  <2> HIDE DEF p
  <2>3. AllTyped(View({p}, {}, {})) BY <2>2, ViewTyped
  <2> QED BY <2>3 DEF ConsulKV, p
<1> QED BY <1>2, <1>3, <1>4, <1>5, NothingTyped DEF Consul

LEMMA AppTyped ==
    ASSUME Stored
    PROVE  AllTyped(App)
<1>1. AllTyped(Items)
  BY JobPageTyped, ClientTyped, ServerTyped, EvaluationTyped, DeploymentTyped, AllocationTyped,
     NothingTyped DEF Items
<1>2. AllTyped(Routed)
  BY <1>1, ListPagesTyped, ConsulTyped, NothingTyped, TogetherTyped DEF Routed
<1>3. NomadMainNav \subseteq Addresses /\ ConsulMainNav \subseteq Addresses
  <2>1. ASSUME NEW p \in {"cluster", "jobs", "deployments", "allocations", "evaluations", "clients",
                          "servers", "system", "services", "kv", "consul_nodes", "sessions"}
        PROVE  Page(p) \in Addresses
    <3>1. p \in AllPages /\ None \in ShownBy(p)
      BY DEF AllPages, NomadPages, ConsulPages, ShownBy
    <3> QED BY <3>1, PageTyped
  <2> QED BY <2>1 DEF NomadMainNav, ConsulMainNav
<1> DEFINE nav == CASE route.page \in NomadPages -> NomadMainNav
                    [] route.page \in ConsulPages -> ConsulMainNav
                    [] OTHER -> {}
<1>4. nav \subseteq Addresses BY <1>3
<1> HIDE DEF nav
<1>5. AllTyped(View({}, nav, {})) BY <1>4, ViewTyped
<1> QED BY <1>2, <1>5, TogetherTyped DEF App, nav

-----------------------------------------------------------------------------
(* The type invariant: what is stored, held, watched and under way names   *)
(* objects of the right kind, because addresses do and links lead to such. *)

TransportTyped ==
    /\ boot \in {"starting", "failed", "app"} /\ socket \in {"none", "open", "closed"}
    /\ timer \in BOOLEAN /\ attempt \in BOOLEAN /\ strays \in 0..MaxStrays

WireTyped ==
    /\ asked \cup fetching \cup flight \cup adrift \subseteq AllKeys
    /\ IsFiniteSet(flight) /\ Cardinality(flight) <= MaxFlight
    /\ unasked \subseteq Entries /\ once \subseteq fetching

PagesTyped ==
    /\ route \in Addresses /\ loading \in BOOLEAN
    /\ DOMAIN slot = Entries /\ \A e \in Entries : slot[e] \subseteq AllKeys
    /\ \A s \in shown : s.held \subseteq AllKeys /\ Keys(s.part) \subseteq AllKeys

TypedInv == TransportTyped /\ WireTyped /\ PagesTyped

LEMMA TransportStaysTyped ==
    ASSUME TransportTyped,
           Connects \/ SocketCloses \/ Starts \/ UNCHANGED transportVars
    PROVE  TransportTyped'
<1>1. 0 \in 0..MaxStrays BY TransportAssumption
<1>2. CASE Starts BY <1>1, <1>2 DEF Starts, TransportTyped
<1>3. CASE SocketCloses BY <1>3 DEF SocketCloses, TransportTyped
<1>4. CASE Opens BY <1>4 DEF Opens, renderApp, TransportTyped
<1>5. CASE TimesOut BY <1>5 DEF TimesOut, BootFails, TransportTyped
<1>6. CASE Retry BY <1>6 DEF Retry, TransportTyped
<1>7. CASE OpensLate
  <2>1. strays' \in 0..MaxStrays
    BY <1>7, TransportAssumption DEF OpensLate, TransportTyped
  <2> QED BY <1>7, <2>1 DEF OpensLate, TransportTyped
<1>8. CASE UNCHANGED transportVars BY <1>8 DEF transportVars, TransportTyped
<1> QED BY <1>2, <1>3, <1>4, <1>5, <1>6, <1>7, <1>8 DEF Connects

(* What is in an entry of the store is an object of its kind.              *)
LEMMA StoreIsStored ==
    ASSUME PagesTyped, StaleInv
    PROVE  Stored
<1> USE DEF AllKeys
<1>1. ASSUME NEW e \in Entries, NEW k \in slot[e]
      PROVE  k \in AllKeys /\ k[2] \in NamedBy(k[1]) /\ e \in Entry(k)
  BY DEF PagesTyped, StaleInv
<1>2. {"job", "node", "member", "evaluation", "deployment", "allocation"} \subseteq Entries
  <2>1. <<"MEMBER", "member">> \in Reducers /\ <<"EVAL", "evaluation">> \in Reducers
    BY DEF Reducers, MemberEntries, EvalEntries
  <2>2. \A r \in Reducers : r[2] \in Entries BY DEF Entries
  <2>3. "member" \in Entries /\ "evaluation" \in Entries BY <2>1, <2>2
  <2> QED BY <2>3, HeldEntries
<1>3. Held("job") \subseteq Jobs
  <2>1. NamedBy("JOB") = Jobs BY KindsTyped DEF JobKinds
  <2> QED BY <1>1, <1>2, <2>1, EntryIs DEF Held
<1>4. Held("node") \subseteq Nodes
  <2>1. NamedBy("NODE") = Nodes BY KindsTyped DEF NodeKinds
  <2> QED BY <1>1, <1>2, <2>1, EntryIs DEF Held
<1>5. Held("member") \subseteq Members
  BY <1>1, <1>2, EntryIs, KindsTyped DEF Held
<1>6. Held("evaluation") \subseteq Evals
  BY <1>1, <1>2, EntryIs, KindsTyped DEF Held
<1>7. Held("deployment") \subseteq Deployments
  <2>1. NamedBy("DEPLOYMENT") = Deployments BY KindsTyped DEF DeploymentKinds
  <2> QED BY <1>1, <1>2, <2>1, EntryIs DEF Held
<1>8. Held("allocation") \subseteq Allocs
  <2>1. NamedBy("ALLOC") = Allocs BY KindsTyped DEF AllocKinds
  <2> QED BY <1>1, <1>2, <2>1, EntryIs DEF Held
<1> QED BY <1>3, <1>4, <1>5, <1>6, <1>7, <1>8 DEF Stored, PagesTyped

LEMMA OnTyped ==
    ASSUME NEW u, Keys(u[2]) \subseteq AllKeys
    PROVE  On(u) \subseteq AllKeys
<1>1. \A k \in AllKeys : <<k[1], k[2], 0>> \in AllKeys BY DEF AllKeys
<1> QED BY <1>1 DEF On, Less, Unversioned

LEMMA RenderTyped ==
    ASSUME TypedInv, StaleInv, flight' = flight,
           RenderTo(Arriving(Tree), Staying(Tree), Leaving(Tree))
    PROVE  /\ WireTyped'
           /\ DOMAIN slot' = Entries /\ \A e \in Entries : slot'[e] \subseteq AllKeys
           /\ \A s \in shown' : s.held \subseteq AllKeys /\ Keys(s.part) \subseteq AllKeys
<1> DEFINE arriving == Arriving(Tree)
           staying == Staying(Tree)
           ends == UNION {s.part.ends : s \in Leaving(Tree)}
<1>1. \A p \in Tree : TypedPart(p)
  BY AppTyped, StoreIsStored DEF Tree, AllTyped, TypedInv
<1>2. \A p \in Tree : Keys(p) \subseteq AllKeys /\ p.fetches \subseteq AllKeys
  BY <1>1 DEF TypedPart
<1>3. \A p \in arriving : p \in Tree BY DEF Arriving
<1>4. \A u \in staying : u[1] \in shown /\ u[2] \in Tree BY DEF Staying
<1>5. \A u \in staying : On(u) \subseteq AllKeys BY <1>2, <1>4, OnTyped
<1>6. ASSUME NEW s \in shown' PROVE s.held \subseteq AllKeys /\ Keys(s.part) \subseteq AllKeys
  <2>1. CASE \E p \in arriving : s = Mounted(p)
    BY <1>2, <1>3, <2>1 DEF Mounted
  <2>2. CASE \E u \in staying : s = Updated(u) /\ s.part = u[2]
    BY <1>2, <1>4, <1>5, <2>2 DEF Updated, TypedInv, PagesTyped
  <2> QED BY <2>1, <2>2, RenderShown
<1>7. AskedNext(arriving, staying, ends) \subseteq AllKeys
  <2>1. \A p \in arriving : p.before \subseteq AllKeys /\ p.after \subseteq AllKeys
    BY <1>2, <1>3 DEF Keys
  <2> QED BY <1>5, <2>1 DEF AskedNext, TypedInv, WireTyped
<1>8. Fetches(arriving, staying) \subseteq AllKeys
  BY <1>2, <1>3, <1>4 DEF Fetches
<1>9. asked' \subseteq AllKeys /\ fetching' \subseteq AllKeys /\ once' \subseteq fetching'
  <2>1. CASE socket = "open"
    BY <1>7, <1>8, <2>1 DEF RenderTo, TypedInv, WireTyped
  <2>2. CASE socket # "open"
    BY <2>2 DEF RenderTo, TypedInv, WireTyped
  <2> QED BY <2>1, <2>2
<1>10. adrift' \subseteq AllKeys /\ unasked' \subseteq Entries
  BY DEF RenderTo, Leaving, TypedInv, WireTyped, PagesTyped
<1>11. DOMAIN slot' = Entries /\ \A e \in Entries : slot'[e] \subseteq AllKeys
  BY DEF RenderTo, TypedInv, PagesTyped
<1> QED BY <1>6, <1>9, <1>10, <1>11 DEF TypedInv, WireTyped

LEMMA RedirectTyped ==
    ASSUME route \in Addresses, Redirects
    PROVE  Item("job", route.id, "info") \in Addresses
<1>1. route.id \in ShownBy("job") BY DEF Redirects, Addresses
<1>2. "job" \in AllPages /\ "info" \in TabNames BY DEF AllPages, NomadPages, TabNames
<1> QED BY <1>1, <1>2, ItemTyped

LEMMA TypedAlways == BrowserSpec => []TypedInv
<1>1. BrowserInit => TypedInv
  <2> SUFFICES ASSUME BrowserInit PROVE TypedInv
    OBVIOUS
  <2>1. IsFiniteSet(flight) /\ Cardinality(flight) = 0
    BY FS_EmptySet DEF BrowserInit
  <2>2. 0 \in 0..MaxStrays /\ 0 <= MaxFlight BY TransportAssumption, BrowserAssumption
  <2>3. TransportTyped BY <2>2 DEF BrowserInit, TransportInit, TransportTyped
  <2>4. WireTyped BY <2>1, <2>2 DEF BrowserInit, WireTyped
  <2>5. PagesTyped BY BrowserAssumption DEF BrowserInit, PagesTyped, Empty
  <2> QED BY <2>3, <2>4, <2>5 DEF TypedInv
<1>2. ASSUME TypedInv, StaleInv, [BrowserNext]_vars PROVE TypedInv'
  <2> USE <1>2 DEF TypedInv, pageVars, wireVars
  <2>1. Stored BY StoreIsStored
  <2>2. CASE Render
    <3>1. RenderTo(Arriving(Tree), Staying(Tree), Leaving(Tree)) /\ UNCHANGED <<transportVars, loading, flight>>
      BY <2>2 DEF Render
    <3>2. route' \in Addresses BY <2>2, RedirectTyped DEF Render, PagesTyped
    <3>3. TransportTyped' BY <3>1, TransportStaysTyped
    <3>4. WireTyped' BY <3>1, RenderTyped
    <3>5. PagesTyped' BY <3>1, <3>2, RenderTyped DEF PagesTyped
    <3> QED BY <3>3, <3>4, <3>5
  <2>3. CASE FollowLink \/ JumpBack
    <3>1. PICK r \in App.links \cup Known : GoTo(r) BY <2>3 DEF FollowLink, JumpBack
    <3>2. r \in Addresses BY <2>1, AppTyped, BrowserAssumption DEF AllTyped
    <3>3. route' \in Addresses /\ loading' \in BOOLEAN BY <3>1, <3>2 DEF GoTo, PagesTyped
    <3>4. TransportTyped' BY <3>1, TransportStaysTyped DEF GoTo
    <3>5. WireTyped' BY <3>1 DEF GoTo, WireTyped
    <3>6. PagesTyped' BY <3>1, <3>3 DEF GoTo, PagesTyped
    <3> QED BY <3>4, <3>5, <3>6
  <2>4. CASE ChunkArrives
    <3>1. TransportTyped' BY <2>4, TransportStaysTyped DEF ChunkArrives
    <3>2. WireTyped' /\ PagesTyped' BY <2>4 DEF ChunkArrives, WireTyped, PagesTyped
    <3> QED BY <3>1, <3>2
  <2>5. CASE Reload
    <3>1. TransportTyped' BY <2>5, TransportStaysTyped DEF Reload
    <3>2. IsFiniteSet(flight') /\ Cardinality(flight') = 0 BY <2>5, FS_EmptySet DEF Reload
    <3>3. WireTyped' BY <2>5, <3>2, BrowserAssumption DEF Reload, WireTyped
    <3>4. PagesTyped' BY <2>5, BrowserAssumption DEF Reload, PagesTyped, Empty
    <3> QED BY <3>1, <3>3, <3>4
  <2>6. ASSUME NEW k \in asked \cup fetching, Answer(k) \/ FetchDone(k) PROVE TypedInv'
    <3>1. flight' = flight \cup {k} /\ k \notin flight /\ Cardinality(flight) < MaxFlight
      BY <2>6 DEF Answer, FetchDone, Answered
    <3>2. IsFiniteSet(flight') /\ Cardinality(flight') = Cardinality(flight) + 1
      BY <3>1, FS_AddElement DEF WireTyped
    <3>3. Cardinality(flight') <= MaxFlight
      BY <3>1, <3>2, FS_CardinalityType, BrowserAssumption DEF WireTyped
    <3>4. WireTyped' BY <2>6, <3>1, <3>2, <3>3 DEF Answer, FetchDone, WireTyped
    <3>5. TransportTyped' BY <2>6, TransportStaysTyped DEF Answer, FetchDone
    <3>6. PagesTyped' BY <2>6 DEF Answer, FetchDone, PagesTyped
    <3> QED BY <3>4, <3>5, <3>6
  <2>7. ASSUME NEW k \in flight, Deliver(k) PROVE TypedInv'
    <3>1. flight' = flight \ {k} BY <2>7 DEF Deliver
    <3>2. IsFiniteSet(flight') /\ Cardinality(flight') = Cardinality(flight) - 1
      BY <3>1, FS_RemoveElement DEF WireTyped
    <3>3. Cardinality(flight') <= MaxFlight
      BY <3>2, FS_CardinalityType, BrowserAssumption DEF WireTyped
    <3>4. Entry(k) \subseteq Entries BY DEF Entry, Entries
    <3>5. WireTyped' BY <2>7, <3>1, <3>2, <3>3, <3>4 DEF Deliver, WireTyped
    <3>6. TransportTyped' BY <2>7, TransportStaysTyped DEF Deliver
    <3>7. PagesTyped' BY <2>7 DEF Deliver, PagesTyped, WireTyped
    <3> QED BY <3>5, <3>6, <3>7
  <2>8. CASE Connects
    <3>1. TransportTyped' BY <2>8, TransportStaysTyped
    <3>2. WireTyped' /\ PagesTyped' BY <2>8 DEF Connects, WireTyped, PagesTyped
    <3> QED BY <3>1, <3>2
  <2>9. CASE Disconnects
    <3>1. TransportTyped' BY <2>9, TransportStaysTyped DEF Disconnects
    <3>2. IsFiniteSet(flight') /\ Cardinality(flight') = 0 BY <2>9, FS_EmptySet DEF Disconnects
    <3>3. WireTyped' BY <2>9, <3>2, BrowserAssumption DEF Disconnects, WireTyped
    <3>4. PagesTyped' BY <2>9 DEF Disconnects, PagesTyped
    <3> QED BY <3>1, <3>3, <3>4
  <2>10. CASE UNCHANGED vars
    <3>1. TransportTyped' BY <2>10, TransportStaysTyped DEF vars
    <3>2. WireTyped' /\ PagesTyped' BY <2>10 DEF vars, WireTyped, PagesTyped
    <3> QED BY <3>1, <3>2
  <2> QED BY <2>2, <2>3, <2>4, <2>5, <2>6, <2>7, <2>8, <2>9, <2>10 DEF BrowserNext
<1> QED BY <1>1, <1>2, StaleAlways, PTL DEF BrowserSpec

(* Types: an address is that of an object its page can show, and every key *)
(* that is held, watched or answered names an object of its kind, however  *)
(* the user got there.                                                     *)
THEOREM BrowserTypeCorrect == BrowserSpec => []BrowserTypeOK
<1>1. ASSUME TypedInv, ShownInv PROVE BrowserTypeOK
  <2>1. ASSUME NEW e \in Entries PROVE Cardinality(slot[e]) <= 1
    <3>1. CASE slot[e] = {} BY <3>1, FS_EmptySet
    <3>2. CASE slot[e] # {}
      <4>1. PICK k \in slot[e] : TRUE BY <3>2
      <4>2. slot[e] = {k} BY <1>1 DEF ShownInv, Single
      <4> QED BY <4>2, FS_Singleton
    <3> QED BY <3>1, <3>2
  <2> QED BY <1>1, <2>1 DEF BrowserTypeOK, TypedInv, TransportTyped, WireTyped, PagesTyped
<1> QED BY <1>1, TypedAlways, BrowserShows, PTL
=============================================================================
