----------------------------- MODULE OpenStack ------------------------------
(***************************************************************************)
(* The service operations of pkg/openstack/v2.  Most are one request about *)
(* an object given by its id.  Listings are walks: gophercloud's AllPages  *)
(* asks for page after page, each page beginning behind the last object of *)
(* the one before (the marker), and the look-ups search the list that      *)
(* results for an exact match.  The file shares of Manila are the          *)
(* exception: their pages are found by offset, and only if the caller sets *)
(* a limit is there more than one.  Other callers change the cloud between *)
(* two pages.                                                              *)
(***************************************************************************)
EXTENDS Naturals, FiniteSets, SequencesExt

CONSTANTS
    Callers,    \* goroutines or processes that use the cloud
    Uses,       \* Uses[c]: which of "look" and "change" caller c does
    Ids,        \* Ids[k]: the ids an object of kind k can have; ids are random,
                \* and their order is the order of listings
    Names,      \* names, addresses and host names of objects
    Similar,    \* Similar[n]: the names a service's filter for n lets through
    Stock,      \* the objects at the start
    Topics,     \* bound: sets of kinds; the calls of a behaviour are about one
    PageSize,   \* the page size of the services, the most of a page
    Limits,     \* limits that the options of a share listing may carry
    Nobody,     \* no caller
    MaxCalls,   \* bound: calls of operations
    MaxFaults   \* bound: requests that fail

Kinds == DOMAIN Ids
AnyName == "any"

Objects == [kind : Kinds, id : Nat \ {0}, name : Names, in : Nat, at : Nat]

ASSUME CloudAssumption ==
    /\ \A k \in Kinds : Ids[k] \subseteq Nat \ {0}
    /\ {"network", "server", "image"} \subseteq Kinds
    /\ Stock \subseteq Objects /\ IsFiniteSet(Stock)
    /\ \A o, p \in Stock : o.kind = p.kind /\ o.id = p.id => o = p
    /\ AnyName \notin Names
    /\ Similar \in [Names -> SUBSET Names]
    /\ \A n \in Names : n \in Similar[n]
    /\ PageSize \in Nat \ {0} /\ Limits \subseteq Nat \ {0}
    /\ Nobody \notin Callers
    /\ \A t \in Topics : t \subseteq Kinds
    /\ Uses \in [Callers -> SUBSET {"look", "change"}]
    /\ MaxCalls \in Nat /\ MaxFaults \in Nat

\* Name conflicts are refused by the identity service only.
IdentityKinds == {"project", "user", "role", "domain"}

\* The listings that gophercloud walks by offset.
ManilaKinds == {"share", "shareNetwork"}

\* The service clients of a helper (newIdentityCli and the others), and which of
\* them an operation uses: NewHelperWithoutDnsService leaves Dns nil.
Clients == {"Identity", "Compute", "Image", "Network", "Dns", "Loadbalancer",
            "Storage", "Share", "ObjectStore"}
ClientOf(k) ==
    CASE k \in IdentityKinds \union {"roleAssignment", "credential", "token"} -> "Identity"
      [] k \in {"server", "hypervisor", "flavor"} -> "Compute"
      [] k = "image" -> "Image"
      [] k \in {"zone", "record"} -> "Dns"
      [] k \in {"loadBalancer", "flavorProfile", "lbFlavor"} -> "Loadbalancer"
      [] k \in {"volumeType", "volume"} -> "Storage"
      [] k \in ManilaKinds -> "Share"
      [] k = "container" -> "ObjectStore"
      [] OTHER -> "Network"
QuotaServices == {"compute", "storage", "network", "share"}

VARIABLES
    objects,    \* the cloud: [kind, id, name, in (parent's id), at (attached to)]
    quotas,     \* the services whose quota has been updated
    clients,    \* the service clients of the helper
    topic,      \* the kinds the calls are about
    walk,       \* the listing each caller is in
    ret,        \* what the latest step returned to a caller
    through,    \* history: objects unchanged since a walk began
    ever,       \* history: objects there at some time since it began
    faults, calls

cloud == <<objects, quotas, clients, topic>>
vars == <<cloud, walk, ret, through, ever, faults, calls>>

\* Criteria of a filter or of a match; zeros and AnyName stand for "not given".
All == [name |-> AnyName, id |-> 0, in |-> 0, at |-> 0]
ByName(n) == [All EXCEPT !.name = n]
ById(i) == [All EXCEPT !.id = i]
ByParent(i) == [All EXCEPT !.in = i]
ByServer(i) == [All EXCEPT !.at = i]

NoWalk == [want |-> "none", kind |-> "none", filter |-> All, match |-> All,
           limit |-> 0, marker |-> 0, got |-> <<>>]
Nothing == [by |-> Nobody, out |-> "none", got |-> <<>>]
Outcome(c, out, got) == [by |-> c, out |-> out, got |-> got]

Walking(c) == walk[c].want # "none"

Init ==
    /\ topic \in Topics
    /\ objects = {o \in Stock : o.kind \in topic}
    /\ quotas = {}
    /\ clients \in {Clients, Clients \ {"Dns"}}
    /\ walk = [c \in Callers |-> NoWalk]
    /\ ret = Nothing
    /\ through = [c \in Callers |-> {}]
    /\ ever = [c \in Callers |-> {}]
    /\ faults = 0
    /\ calls = 0

-----------------------------------------------------------------------------
(* The cloud. *)

OfKind(k) == {o \in objects : o.kind = k}
IdsOf(k) == {o.id : o \in OfKind(k)}
Exists(k, i) == i \in IdsOf(k)
TheObject(k, i) == CHOOSE o \in OfKind(k) : o.id = i

Given(want, is) == want = 0 \/ want = is

\* What a service lets through, and what a loop of the helper compares.
Admits(f, o) ==
    /\ f.name = AnyName \/ o.name \in Similar[f.name]
    /\ Given(f.id, o.id) /\ Given(f.in, o.in) /\ Given(f.at, o.at)

Matches(m, o) ==
    /\ m.name = AnyName \/ o.name = m.name
    /\ Given(m.id, o.id) /\ Given(m.in, o.in)

\* What a listing is to have, of some objects and of those there are.
Wanted(w, S) == {o \in S : o.kind = w.kind /\ Admits(w.filter, o)}
Listed(w) == Wanted(w, objects)

\* A page is what comes next in the order of the ids.
Before(o, S) == {p \in S : p.id < o.id}
Nth(S, n) == CHOOSE o \in S : Cardinality(Before(o, S)) = n - 1

PageLength(S, most) ==
    LET left == Cardinality(S) IN IF left < most THEN left ELSE most
PageOf(S, most) == [n \in 1..PageLength(S, most) |-> Nth(S, n)]

BehindMarker(w) == {o \in Listed(w) : o.id > w.marker}
PageBehindMarker(w) == PageOf(BehindMarker(w), PageSize)

\* Manila: the marker is an offset, and a limit above its own maximum is cut.
BehindOffset(w) == {o \in Listed(w) : Cardinality(Before(o, Listed(w))) >= w.marker}
PageAtOffset(w) ==
    PageOf(BehindOffset(w), IF w.limit \in 1..PageSize THEN w.limit ELSE PageSize)

\* Networks with ports, and the two ends of a router's interface, are in use.
InUse(o) ==
    \/ o.kind = "network" /\ \E p \in OfKind("port") : p.in = o.id
    \/ o.kind = "subnet" /\ o.at # 0
    \/ o.kind = "router" /\ \E s \in OfKind("subnet") : s.at = o.id

\* What goes with an object: subnets, rules and records with their parents,
\* attachments with what they are attached to.
Children == [network |-> "subnet", securityGroup |-> "rule", zone |-> "record"]
Attached == [server |-> "port", port |-> "floatingIp"]

Object(k, i, n, p) == [kind |-> k, id |-> i, name |-> n, in |-> p, at |-> 0]

Without(o) ==
    LET kept == {p \in objects \ {o} :
                    ~(o.kind \in DOMAIN Children /\ p.kind = Children[o.kind] /\ p.in = o.id)}
        loose == {p \in kept :
                    o.kind \in DOMAIN Attached /\ p.kind = Attached[o.kind] /\ p.at = o.id}
    IN  (kept \ loose) \union {[p EXCEPT !.at = 0] : p \in loose}

Conflict(k, n) ==
    k \in IdentityKinds /\ \E o \in OfKind(k) : o.name \in Similar[n]

-----------------------------------------------------------------------------
(* Listings and look-ups. *)

\* A caller that is in no call makes one.
MayCall(c, use) == use \in Uses[c] /\ ~Walking(c) /\ calls < MaxCalls

Begin(k) == k \in topic /\ calls' = calls + 1

\* A request is built from a nil client, and that panics.
Panic(c, k) == ClientOf(k) \notin clients /\ ret' = Outcome(c, "panic", <<>>)

\* A listing is begun; want says what the operation makes of the list.
Look(c, want, k, filter, match) ==
    /\ Begin(k)
    /\ \/ Panic(c, k) /\ UNCHANGED walk
       \/ /\ ClientOf(k) \in clients
          /\ \E l \in {0} \union (IF k \in ManilaKinds THEN Limits ELSE {}) :
                 walk' = [walk EXCEPT ![c] = [want |-> want, kind |-> k, filter |-> filter,
                              match |-> match, limit |-> l, marker |-> 0, got |-> <<>>]]
          /\ ret' = Nothing
    /\ UNCHANGED <<cloud, faults>>

List(c, k) == Look(c, "list", k, All, All)
FirstByName(c, k) == \E n \in Names : Look(c, "first", k, ByName(n), ByName(n))

EndWalk(c, outcome) ==
    /\ walk' = [walk EXCEPT ![c] = NoWalk]
    /\ ret' = outcome
    /\ UNCHANGED <<cloud, calls>>

\* What the operation returns once it has the list.  The error of a look-up
\* without a hit ("notFound") is distinguished here from other errors.
Answer(c, w, list) ==
    LET hits == {i \in DOMAIN list : Matches(w.match, list[i])}
        firstHit == CHOOSE i \in hits : \A j \in hits : i <= j
    IN
    IF w.want \in {"listSome", "whetherSome"} /\ list = <<>> THEN Outcome(c, "error", <<>>)
    ELSE CASE w.want \in {"list", "listSome"} -> Outcome(c, "list", list)
           [] w.want = "first" /\ hits # {} -> Outcome(c, "found", <<list[firstHit]>>)
           [] w.want \in {"exists", "whether", "whetherSome"} /\ hits # {} ->
                  Outcome(c, "true", <<>>)
           [] w.want \in {"whether", "whetherSome"} /\ hits = {} -> Outcome(c, "false", <<>>)
           [] OTHER -> Outcome(c, "notFound", <<>>)

\* How the pages of a listing are found.
ByMarker(w) == w.kind \notin ManilaKinds

\* The marker is an object that is gone: services refuse the page.
MarkerGone(w) == w.marker # 0 /\ ~Exists(w.kind, w.marker)

\* Faulty variant: a walk ends at its first page.
NextPageOnce(c) ==
    /\ Walking(c) /\ ByMarker(walk[c])
    /\ EndWalk(c, Answer(c, walk[c], PageBehindMarker(walk[c])))
    /\ UNCHANGED faults

\* Faulty variant: a page that is refused is taken for the last one.
NextPageLenient(c) ==
    LET w == walk[c]
        page == IF MarkerGone(w) THEN <<>> ELSE PageBehindMarker(w)
    IN
    /\ Walking(c) /\ ByMarker(w)
    /\ \/ /\ Len(page) = PageSize
          /\ walk' = [walk EXCEPT ![c].marker = Last(page).id, ![c].got = @ \o page]
          /\ ret' = Nothing
          /\ UNCHANGED <<cloud, calls>>
       \/ /\ Len(page) < PageSize
          /\ EndWalk(c, Answer(c, w, w.got \o page))
    /\ UNCHANGED faults

\* AllPages: a full page carries a link to the next one, a short one ends the
\* walk, and any error abandons it.
NextPage(c) ==
    LET w == walk[c]
        page == PageBehindMarker(w)
    IN
    /\ Walking(c) /\ ByMarker(w)
    /\ \/ /\ MarkerGone(w)
          /\ EndWalk(c, Outcome(c, "error", <<>>))
       \/ /\ ~MarkerGone(w)
          /\ Len(page) = PageSize
          /\ walk' = [walk EXCEPT ![c].marker = Last(page).id, ![c].got = @ \o page]
          /\ ret' = Nothing
          /\ UNCHANGED <<cloud, calls>>
       \/ /\ ~MarkerGone(w)
          /\ Len(page) < PageSize
          /\ EndWalk(c, Answer(c, w, w.got \o page))
    /\ UNCHANGED faults

\* The same for shares and share networks: with a limit the next page begins that
\* much further on, whatever the page had, until one is empty; without a limit
\* there is one page.
NextOffsetPage(c) ==
    LET w == walk[c]
        page == PageAtOffset(w)
    IN
    /\ Walking(c) /\ ~ByMarker(w)
    /\ \/ /\ w.limit # 0 /\ page # <<>>
          /\ walk' = [walk EXCEPT ![c].marker = @ + w.limit, ![c].got = @ \o page]
          /\ ret' = Nothing
          /\ UNCHANGED <<cloud, calls>>
       \/ /\ w.limit = 0 \/ page = <<>>
          /\ EndWalk(c, Answer(c, w, w.got \o page))
    /\ UNCHANGED faults

PageFails(c) ==
    /\ Walking(c)
    /\ faults < MaxFaults
    /\ faults' = faults + 1
    /\ EndWalk(c, Outcome(c, "error", <<>>))

ListNetworks(c) == List(c, "network")
ListSubnets(c) == List(c, "subnet")
ListRouters(c) == List(c, "router")
ListPorts(c) == List(c, "port")
ListSecurityGroups(c) == List(c, "securityGroup")
ListSecurityGroupRules(c) == List(c, "rule")
ListSecurityGroupRulesPage(c) == List(c, "rule")
ListLoadBalancers(c) == List(c, "loadBalancer")
ListLoadBalancerFlavorProfiles(c) == List(c, "flavorProfile")
ListLoadBalancerFlavors(c) == List(c, "lbFlavor")
ListFloatingIps(c) == List(c, "floatingIp")
ListDnsZones(c) == List(c, "zone")
ListServers(c) == List(c, "server")
ListImages(c) == List(c, "image")
ListProjects(c) == List(c, "project")
ListUsers(c) == List(c, "user")
ListRoleAssignments(c) == List(c, "roleAssignment")
ListEc2Credentials(c) == List(c, "credential")
ListVolumeTypes(c) == List(c, "volumeType")
ListVolumes(c) == List(c, "volume")
ListShares(c) == List(c, "share")
\* The options of the caller are not used.
ListHypervisors(c) == List(c, "hypervisor")
\* No domain is an error.
ListDomains(c) == \E f \in {All} \union {ByName(n) : n \in Names} :
    Look(c, "listSome", "domain", f, All)
ListAttachedNetworksByServerId(c) == \E s \in Ids["server"] :
    Look(c, "list", "port", ByServer(s), All)

GetNetworkByName(c) == FirstByName(c, "network")
GetSubnetByName(c) == FirstByName(c, "subnet")
GetSecurityGroupByName(c) == FirstByName(c, "securityGroup")
GetShareNetworkByName(c) == FirstByName(c, "shareNetwork")
GetFloatingIpByIp(c) == FirstByName(c, "floatingIp")
GetDnsZoneByName(c) == FirstByName(c, "zone")
GetImageByName(c) == FirstByName(c, "image")
GetProjectByName(c) == FirstByName(c, "project")
GetProjectIdByName(c) == FirstByName(c, "project")
GetUserByName(c) == FirstByName(c, "user")
GetUserIdByName(c) == FirstByName(c, "user")
GetRoleByName(c) == FirstByName(c, "role")
GetSubnetByNetworkID(c) == \E i \in Ids["network"] :
    Look(c, "first", "subnet", ByParent(i), ByParent(i))
\* The address of a port is its name here.
GetPortByNetIdAndIp(c) == \E i \in Ids["network"], n \in Names :
    LET both == [ByName(n) EXCEPT !.in = i] IN Look(c, "first", "port", both, both)
GetAttachedPortByServerIdAndNetworkId(c) == \E s \in Ids["server"], i \in Ids["network"] :
    Look(c, "first", "port", ByServer(s), ByParent(i))
\* Hypervisors and flavors are listed without a filter.
GetHypervisorByHostname(c) == \E n \in Names : Look(c, "first", "hypervisor", All, ByName(n))
IsFlavorExist(c) == \E n \in Names : Look(c, "exists", "flavor", All, ByName(n))
IsImageExistByName(c) == \E n \in Names : Look(c, "exists", "image", ByName(n), ByName(n))
IsImageExist(c) == \E i \in Ids["image"] : Look(c, "exists", "image", ById(i), ById(i))
IsProjectExists(c) == \E n \in Names : Look(c, "whether", "project", ByName(n), ByName(n))
IsDomainExists(c) == \E n \in Names : Look(c, "whetherSome", "domain", ByName(n), ByName(n))

-----------------------------------------------------------------------------
(* Single requests.  A request may fail on its way there, and then nothing  *)
(* happens, or on its way back, and then only the caller does not know.     *)

Request(c, k, effect) ==
    /\ Begin(k)
    /\ UNCHANGED <<walk, clients, topic>>
    /\ \/ Panic(c, k) /\ UNCHANGED <<objects, quotas, faults>>
       \/ /\ ClientOf(k) \in clients
          /\ objects' = effect.objects
          /\ quotas' = quotas \union effect.quotas
          /\ \/ /\ ret' = Outcome(c, effect.out, <<>>)
                /\ UNCHANGED faults
             \/ /\ effect.out = "ok"
                /\ faults < MaxFaults
                /\ faults' = faults + 1
                /\ ret' = Outcome(c, "error", <<>>)

RequestLost(c) ==
    /\ \E use \in {"look", "change"} : MayCall(c, use)
    /\ \E k \in topic : Begin(k)
    /\ faults < MaxFaults
    /\ faults' = faults + 1
    /\ ret' = Outcome(c, "error", <<>>)
    /\ UNCHANGED <<cloud, walk>>

Effect(new) == [objects |-> new, quotas |-> {}, out |-> "ok"]
Refused == [objects |-> objects, quotas |-> {}, out |-> "error"]

Get(c, k) == \E i \in Ids[k] :
    Request(c, k, IF Exists(k, i) THEN Effect(objects) ELSE Refused)

Create(c, k, parents) == \E n \in Names, p \in parents :
    \/ /\ ~Conflict(k, n)
       /\ \E i \in Ids[k] \ IdsOf(k) :
              Request(c, k, Effect(objects \union {Object(k, i, n, p)}))
    \/ /\ Conflict(k, n) \/ Ids[k] = IdsOf(k)
       /\ Request(c, k, Refused)

Destroy(c, k) == \E i \in Ids[k] :
    LET o == TheObject(k, i) IN
    Request(c, k,
            IF Exists(k, i) /\ ~InUse(o) THEN Effect(Without(o)) ELSE Refused)

\* An object is given another name.
Rename(c, k) == \E i \in Ids[k], n \in Names :
    LET o == TheObject(k, i) IN
    Request(c, k,
            IF Exists(k, i) THEN Effect((objects \ {o}) \union {[o EXCEPT !.name = n]})
                            ELSE Refused)

\* A request that changes nothing the model keeps (tags).
Touch(c, k) == \E i \in Ids[k] :
    Request(c, k, IF Exists(k, i) THEN Effect(objects) ELSE Refused)

\* A creation that is no error when the object is there already (PUT).
Ensure(c, k, parents) == \E n \in Names, p \in parents :
    IF \E o \in OfKind(k) : o.name = n /\ o.in = p
    THEN Request(c, k, Effect(objects))
    ELSE \E i \in Ids[k] \ IdsOf(k) :
             Request(c, k, Effect(objects \union {Object(k, i, n, p)}))

\* An object of kind k is attached to one of kind k2, or detached from it.
Attach(c, k, k2) == \E i \in Ids[k], j \in Ids[k2] :
    LET o == TheObject(k, i) IN
    Request(c, k,
            IF Exists(k, i) /\ Exists(k2, j) /\ (k = "floatingIp" \/ o.at = 0)
            THEN Effect((objects \ {o}) \union {[o EXCEPT !.at = j]}) ELSE Refused)

Detach(c, k, k2) == \E i \in Ids[k], j \in Ids[k2] :
    LET o == TheObject(k, i) IN
    Request(c, k,
            IF Exists(k, i) /\ o.at = j
            THEN Effect((objects \ {o}) \union {[o EXCEPT !.at = 0]}) ELSE Refused)

UpdateQuota(c, service) ==
    Request(c, "quota",
            [objects |-> objects, quotas |-> {service}, out |-> "ok"])

Top == {0}

GetNetwork(c) == Get(c, "network")
GetSubnet(c) == Get(c, "subnet")
GetRouter(c) == Get(c, "router")
GetSecurityGroup(c) == Get(c, "securityGroup")
GetLoadBalancer(c) == Get(c, "loadBalancer")
GetLoadBalancerFlavorProfile(c) == Get(c, "flavorProfile")
GetLoadBalancerFlavor(c) == Get(c, "lbFlavor")
GetServer(c) == Get(c, "server")
GetImage(c) == Get(c, "image")
GetComputeFlavor(c) == Get(c, "flavor")
GetHypervisorUpTime(c) == Get(c, "hypervisor")
GetHypervisorStatistics(c) == Request(c, "hypervisor", Effect(objects))
GetProject(c) == Get(c, "project")
GetVolume(c) == Get(c, "volume")
ValidToken(c) == Get(c, "token")
GetServiceCatalog(c) == Get(c, "token")
\* Sent to the block storage service, which has no containers.
ListContainers(c) == Request(c, "container", Refused)

CreateNetwork(c) == Create(c, "network", Top)
CreateSubnet(c) == Create(c, "subnet", IdsOf("network"))
CreateRouter(c) == Create(c, "router", Top)
CreatePort(c) == Create(c, "port", IdsOf("network"))
CreateSecurityGroup(c) == Create(c, "securityGroup", Top)
CreateSecurityGroupRule(c) == Create(c, "rule", IdsOf("securityGroup"))
CreateShareNetwork(c) == Create(c, "shareNetwork", Top)
CreateFloatingIp(c) == Create(c, "floatingIp", Top)
CreateDnsZone(c) == Create(c, "zone", Top)
CreateDnsRecord(c) == Create(c, "record", IdsOf("zone"))
CreateProject(c) == Create(c, "project", Top)
CreateUser(c) == Create(c, "user", Top)
CreateEc2Credential(c) == Create(c, "credential", IdsOf("user"))
CreateContainer(c) == Ensure(c, "container", Top)
AddRole(c) == Ensure(c, "roleAssignment", IdsOf("role"))
AssignRoleToUser(c) == Ensure(c, "roleAssignment", IdsOf("role"))

DeleteNetwork(c) == Destroy(c, "network")
DeleteSubnet(c) == Destroy(c, "subnet")
DeleteRouter(c) == Destroy(c, "router")
DeletePort(c) == Destroy(c, "port")
DeleteSecurityGroup(c) == Destroy(c, "securityGroup")
DeleteSecurityGroupRule(c) == Destroy(c, "rule")
DeleteShareNetwork(c) == Destroy(c, "shareNetwork")
DeleteLoadBalancer(c) == Destroy(c, "loadBalancer")
DeleteFloatingIP(c) == Destroy(c, "floatingIp")
DeleteDnsZone(c) == Destroy(c, "zone")
DeleteDnsRecord(c) == Destroy(c, "record")
DeleteServer(c) == Destroy(c, "server")
DeleteImage(c) == Destroy(c, "image")
DeleteProject(c) == Destroy(c, "project")
DeleteUser(c) == Destroy(c, "user")
DeleteEc2Credential(c) == Destroy(c, "credential")
DeleteVolume(c) == Destroy(c, "volume")
DeleteShare(c) == Destroy(c, "share")

UpdateNetwork(c) == Rename(c, "network")
UpdateSubnet(c) == Rename(c, "subnet")
UpdateRouter(c) == Rename(c, "router")
UpdatePort(c) == Rename(c, "port")
UpdateSecurityGroup(c) == Rename(c, "securityGroup")
UpdateServer(c) == Rename(c, "server")
UpdateImageProperty(c) == Rename(c, "image")
AddNetworkTag(c) == Touch(c, "network")
AddRouterTag(c) == Touch(c, "router")

AttachNetworkToRouter(c) == Attach(c, "subnet", "router")
RemoveRouterInterface(c) == Detach(c, "subnet", "router")
DeleteRouterInterface(c) == Detach(c, "subnet", "router")
AttachPortToInstance(c) == Attach(c, "port", "server")
DeleteAttachedPortFromInstance(c) == Detach(c, "port", "server")
AssociateFloatingIp(c) == Attach(c, "floatingIp", "port")
\* The request carries no port: PortID is nil, and a nil PortID is left out of
\* the body, so the address stays where it is.
DisassociateFloatingIp(c) == Touch(c, "floatingIp")

UpdateComputeQuotas(c) == UpdateQuota(c, "compute")
UpdateComputeQuota(c) == UpdateQuota(c, "compute")
UpdateStorageQuotas(c) == UpdateQuota(c, "storage")
UpdateBlockStorageQuota(c) == UpdateQuota(c, "storage")
UpdateNetworkQuotas(c) == UpdateQuota(c, "network")
UpdateNetworkQuota(c) == UpdateQuota(c, "network")
\* 201 and 202 pass the client as successes and are reported as errors.
UpdateSharedFileSystemQuota(c) == \E status \in {200, 201, 202} :
    Request(c, "quota",
            [objects |-> objects, quotas |-> {"share"},
             out |-> IF status = 200 THEN "ok" ELSE "error"])

-----------------------------------------------------------------------------

\* The histories of the walks follow the objects.
Watch ==
    /\ through' = [c \in Callers |->
           IF walk'[c].want = "none" THEN {}
           ELSE IF walk[c].want = "none" THEN objects' ELSE through[c] \intersect objects']
    /\ ever' = [c \in Callers |->
           IF walk'[c].want = "none" THEN {}
           ELSE IF walk[c].want = "none" THEN objects' ELSE ever[c] \union objects']

LookUp(c) ==
    /\ MayCall(c, "look")
    /\ \/ ListNetworks(c)
       \/ ListSubnets(c)
       \/ ListRouters(c)
       \/ ListPorts(c)
       \/ ListSecurityGroups(c)
       \/ ListSecurityGroupRules(c)
       \/ ListSecurityGroupRulesPage(c)
       \/ ListLoadBalancers(c)
       \/ ListLoadBalancerFlavorProfiles(c)
       \/ ListLoadBalancerFlavors(c)
       \/ ListFloatingIps(c)
       \/ ListDnsZones(c)
       \/ ListServers(c)
       \/ ListImages(c)
       \/ ListProjects(c)
       \/ ListUsers(c)
       \/ ListRoleAssignments(c)
       \/ ListEc2Credentials(c)
       \/ ListVolumeTypes(c)
       \/ ListVolumes(c)
       \/ ListShares(c)
       \/ ListHypervisors(c)
       \/ ListDomains(c)
       \/ ListAttachedNetworksByServerId(c)
       \/ GetNetworkByName(c)
       \/ GetSubnetByName(c)
       \/ GetSecurityGroupByName(c)
       \/ GetShareNetworkByName(c)
       \/ GetFloatingIpByIp(c)
       \/ GetDnsZoneByName(c)
       \/ GetImageByName(c)
       \/ GetProjectByName(c)
       \/ GetProjectIdByName(c)
       \/ GetUserByName(c)
       \/ GetUserIdByName(c)
       \/ GetRoleByName(c)
       \/ GetSubnetByNetworkID(c)
       \/ GetPortByNetIdAndIp(c)
       \/ GetAttachedPortByServerIdAndNetworkId(c)
       \/ GetHypervisorByHostname(c)
       \/ IsFlavorExist(c)
       \/ IsImageExistByName(c)
       \/ IsImageExist(c)
       \/ IsProjectExists(c)
       \/ IsDomainExists(c)
       \/ GetNetwork(c)
       \/ GetSubnet(c)
       \/ GetRouter(c)
       \/ GetSecurityGroup(c)
       \/ GetLoadBalancer(c)
       \/ GetLoadBalancerFlavorProfile(c)
       \/ GetLoadBalancerFlavor(c)
       \/ GetServer(c)
       \/ GetImage(c)
       \/ GetComputeFlavor(c)
       \/ GetHypervisorUpTime(c)
       \/ GetHypervisorStatistics(c)
       \/ GetProject(c)
       \/ GetVolume(c)
       \/ ValidToken(c)
       \/ GetServiceCatalog(c)
       \/ ListContainers(c)

Change(c) ==
    /\ MayCall(c, "change")
    /\ \/ CreateNetwork(c)
       \/ CreateSubnet(c)
       \/ CreateRouter(c)
       \/ CreatePort(c)
       \/ CreateSecurityGroup(c)
       \/ CreateSecurityGroupRule(c)
       \/ CreateShareNetwork(c)
       \/ CreateFloatingIp(c)
       \/ CreateDnsZone(c)
       \/ CreateDnsRecord(c)
       \/ CreateProject(c)
       \/ CreateUser(c)
       \/ CreateEc2Credential(c)
       \/ CreateContainer(c)
       \/ AddRole(c)
       \/ AssignRoleToUser(c)
       \/ DeleteNetwork(c)
       \/ DeleteSubnet(c)
       \/ DeleteRouter(c)
       \/ DeletePort(c)
       \/ DeleteSecurityGroup(c)
       \/ DeleteSecurityGroupRule(c)
       \/ DeleteShareNetwork(c)
       \/ DeleteLoadBalancer(c)
       \/ DeleteFloatingIP(c)
       \/ DeleteDnsZone(c)
       \/ DeleteDnsRecord(c)
       \/ DeleteServer(c)
       \/ DeleteImage(c)
       \/ DeleteProject(c)
       \/ DeleteUser(c)
       \/ DeleteEc2Credential(c)
       \/ DeleteVolume(c)
       \/ DeleteShare(c)
       \/ UpdateNetwork(c)
       \/ UpdateSubnet(c)
       \/ UpdateRouter(c)
       \/ UpdatePort(c)
       \/ UpdateSecurityGroup(c)
       \/ UpdateServer(c)
       \/ UpdateImageProperty(c)
       \/ AddNetworkTag(c)
       \/ AddRouterTag(c)
       \/ AttachNetworkToRouter(c)
       \/ RemoveRouterInterface(c)
       \/ DeleteRouterInterface(c)
       \/ AttachPortToInstance(c)
       \/ DeleteAttachedPortFromInstance(c)
       \/ AssociateFloatingIp(c)
       \/ DisassociateFloatingIp(c)
       \/ UpdateComputeQuotas(c)
       \/ UpdateComputeQuota(c)
       \/ UpdateStorageQuotas(c)
       \/ UpdateBlockStorageQuota(c)
       \/ UpdateNetworkQuotas(c)
       \/ UpdateNetworkQuota(c)
       \/ UpdateSharedFileSystemQuota(c)

Step(c) ==
    \/ LookUp(c) \/ Change(c) \/ RequestLost(c)
    \/ NextPage(c) \/ NextOffsetPage(c) \/ PageFails(c)

Next == (\E c \in Callers : Step(c)) /\ Watch

Spec == Init /\ [][Next]_vars

-----------------------------------------------------------------------------
(* Properties. *)

Wants == {"list", "listSome", "first", "exists", "whether", "whetherSome"}
Criteria == [name : Names \union {AnyName}, id : Nat, in : Nat, at : Nat]
Walks == [want : Wants \union {"none"}, kind : Kinds \union {"none"}, filter : Criteria,
          match : Criteria, limit : Nat, marker : Nat, got : Seq(Objects)]

\* Types, and that a kind has at most one object of an id: the services give out
\* ids, and no operation of the helper makes two objects of one.
TypeOK ==
    /\ objects \subseteq Objects /\ IsFiniteSet(objects)
    /\ \A o, p \in objects : o.kind = p.kind /\ o.id = p.id => o = p
    /\ quotas \subseteq QuotaServices
    /\ clients \subseteq Clients
    /\ topic \in Topics
    /\ walk \in [Callers -> Walks]
    /\ through \in [Callers -> SUBSET Objects] /\ ever \in [Callers -> SUBSET Objects]
    /\ faults \in 0..MaxFaults /\ calls \in 0..MaxCalls

\* A walk by marker has got everything up to its marker, of the objects T that were
\* there all the time, in the order of the ids.
UpToMarker(w, T) ==
    /\ \A i, j \in DOMAIN w.got : i < j => w.got[i].id < w.got[j].id
    /\ w.marker = IF w.got = <<>> THEN 0 ELSE Last(w.got).id
    /\ \A o \in Wanted(w, T) : o.id <= w.marker => o \in ToSet(w.got)

\* What a walk w has collected so far, when T are the objects unchanged since it
\* began, S those there are, and E those there ever were: nothing that is not of E
\* and, by marker, all that it is to list of T.
Exact(w, T, S, E) ==
    /\ T \subseteq S /\ S \subseteq E
    /\ ToSet(w.got) \subseteq Wanted(w, E)
    /\ w.got = <<>> => w.marker = 0
    /\ ByMarker(w) => UpToMarker(w, T)

\* Between two pages, whatever changes, every listing is exact up to its marker.
WalkInv == \A c \in Callers : Walking(c) => Exact(walk[c], through[c], objects, ever[c])

Ends(c) == Walking(c) /\ walk'[c].want = "none"

\* The call of c ends, and what it answers is right.
AnswersRightly(c) ==
    Ends(c) =>
        LET w == walk[c] IN
        /\ ret'.out \in {"found", "true"} =>
               \E o \in ever[c] : /\ o.kind = w.kind
                                  /\ Matches(w.match, o)
                                  /\ ret'.out = "found" => ret'.got = <<o>>
        /\ ret'.out \in {"notFound", "false"} /\ ByMarker(w) =>
               ~\E o \in Wanted(w, through[c]) : Matches(w.match, o)
        /\ ret'.out = "error" =>
               \/ faults' > faults
               \/ through[c] # ever[c]
               \/ w.want \in {"listSome", "whetherSome"} /\ Listed(w) = {}

\* The call of c ends, and the list it returns is right.
ListsRightly(c) ==
    Ends(c) /\ ret'.out = "list" =>
        LET w == walk[c] IN
        /\ ToSet(ret'.got) \subseteq Wanted(w, ever[c])
        /\ ByMarker(w) =>
               /\ Wanted(w, through[c]) \subseteq ToSet(ret'.got)
               /\ \A i, j \in DOMAIN ret'.got : ret'.got[i].id = ret'.got[j].id => i = j

\* A look-up finds an object of the kind and with exactly the name (id, parent)
\* asked for, and it was there while the look-up ran: the exact comparison
\* behind the filter of the service (GetNetworkByName and its likes).  "Not
\* found", and the false of IsProjectExists and IsDomainExists, mean that no such
\* object was there all the time, on whatever page and however the list changed
\* between two pages; not so that of GetShareNetworkByName, which sees one page, or
\* walks by offset.  A look-up fails only because a request failed, because the
\* cloud changed under it (the marker went away), or, with ListDomains and
\* IsDomainExists, because there is nothing to list.
LookupIsExact == [][\A c \in Callers : AnswersRightly(c)]_vars

\* A list that AllPages returns has only what was there at some time, however the
\* list changed between two pages.  Paged by marker it also has everything that was
\* there all the time, and nothing twice; ListShares does not promise that: by
\* offset it skips and repeats, and without a limit it ends at Manila's first page.
ListingIsExact == [][\A c \in Callers : ListsRightly(c)]_vars
=============================================================================
