# A verification project for bigstack-dependency-go

`bigstack-dependency-go` is a library of helpers around the services a cloud
platform depends on: Keycloak, Kubernetes, AWS, OpenStack, Rancher, Helm,
MongoDB, mail, SSH and so on. It keeps little state of its own. What is hard in
it is the state on the other side: every operation is a short sequence of
requests to a server that other processes change in between, any request may
fail, and a request that failed may have taken effect. This project models those
operations, checks them with TLC, and proves the central results with TLAPS.

## 1. Inventory

| Part (under `src/pkg`) | State | Operations | What is hard |
|---|---|---|---|
| package-level helpers (`helper`, `once` in `openstack`, `keycloak`, `kubernetes`, `mongo`, `aws`, `harbor`, `http`, `rancher`, `email/v2`, `terraform`, `influx`) | a package variable, a `sync.Once` | `NewGlobalHelper`, `GetGlobalHelper` | goroutines race; a failed first build is never repeated and its error is seen once |
| `keycloak` lists | the offset and the items so far; the realm's lists | `GetGroups`, `GetUserGroups`, `GetGroupMembers`, `GetUsersByClientRoleName` | paging by offset over a list that changes |
| `keycloak` group paths | the walk down a path; the group tree | `GetOrCreateGroupPath`, `…Segments`, `FindGroupPathSegments`, `DeleteGroup` | find-then-create without a lock, deletions, lost answers, retries |
| `keycloak` users, clients, roles, tokens | the token of the helper; the facts of the realm | the logins, `GetUser…`, `CreateUser`, roles, clients | goroutines share the token without a lock; it expires between reading and use, and so may the password |
| `kubernetes` look-ups | a trial counter | `ListEvent`, `GetDeployment`, `GetNode`, `GetSvc`, `IsNamespaceExist`, `GetNodeIP`, `GetSvcNodePortByTargetPort` | retries, the error that is returned after the last one |
| `kubernetes` role bindings | one client, re-bound from namespace to namespace | `DeleteRoleBindings`, `DeleteRoleBindingsIfTheServiceAccountIsIncluded`, `SetRoleBindingClient` | the client is shared and left where the last call bound it |
| `kubernetes` storage classes | annotations in the cluster | `DisableCurrentDefaultStorageClasses`, `SetDefaultStorageClass`, `CreateStorageClass` | list-then-patch; failure between disabling and setting |
| `kubernetes` lease | the lease, the schedules of the replicas | `SetLeaseClient`, `SetLeaseCron`, `RunLeaseCron` | a schedule that goes on after the lease is lost; the periods must fit together, though an update is answered later than it is made |
| `kubernetes` object clients | one client per kind, re-bound by whoever sets it; the discovery mapper | get, list, create, update, patch, delete of sixteen kinds, `ApplyDynamicResource` | stale copies, a client re-bound between two requests, manifests that fail half way |
| `aws` VPC | the VPC's gateways, route tables and associations, ACLs, subnets, interfaces | `DeleteVpc` | order of deletion, half-done teardown, retries, late additions, what no step deletes |
| `openstack/v2` services | the objects of the cloud; the marker and the list of a walk | about 120: list, look up by name, get, create, update, delete, attach, quotas | paging by marker, or for shares by offset, over a list that changes; look-ups that tell absence from failure |
| `rancher` over `http` | clusters, drivers, named objects | create, delete, list, wait, kubeconfig | requests repeated by the client, polling with failing polls |
| `helm` | the release record, where its resources are, the operators and the namespace of the helper | `Apply`, `Uninstall`, `InitOperator`, `LoadChart` | get-then-install, any error of the get taken for "not installed", records that cannot be written, operations that outlive their time-out, releases left pending |
| `mongo` | documents, GridFS files | writes, queries, `UploadFile`, … | errors that are dropped, writes carried out after their time-out |
| `email/v2` | TLS policy, authentication, trials | `NewHelper`, `Send` | repeated sends after a lost answer, silent downgrades of TLS |
| `ssh` | connection, session, files | `NewHelper`, `Run`, `Copy`, `CopyFrom`, `Close` | set-up that fails half way, a session that runs one command, a file that cannot be closed |
| `email`, `harbor`, `influx`, `terraform`, `zip` | none between calls | send, query, run a tool | – |
| `ipmi`, `slack`, `log`, `math`, `os`, `password`, `wait` | none | pure helpers | – |

The parts interact by calls: `rancher` uses `http`, `helm` uses the options of
`kubernetes`, and everything uses `wait` for its time-outs. They share no state
with each other; goroutines of a program share the helper of a package.

`PROJECT.json` lists the hazards line by line. What makes each part correct is
stated in its module as invariants, action properties and liveness properties;
section 3 sums them up.

## 2. Modules

| Module | Models | State and actions |
|---|---|---|
| `OnceCell` | the promise of a package-level helper: a cell written at most once | `cell`, `readers` |
| `GlobalHelper` | `openstack/v2`'s two constructors over one `sync.Once`, and `GetGlobalHelper` | the package variable, the Once, a program counter per goroutine; `once.Do` is split into entering, building, leaving |
| `Pagination` | the `paginate…` loops | one walk per listing, one page per step, items joining and leaving in between |
| `KeycloakGroups` | the group path operations | one request per step of each caller; the tree as a sequence of groups ever created and the set of those alive |
| `VpcTeardown` | `DeleteVpc` with its four loops | one EC2 request per step; what the VPC still has, what the current loop has still to do; whether there is a custom route table, and which ACL each subnet is on, is chosen at the start |
| `KubeRetry` | the retrying look-ups and their users | one trial per step; the cluster changes between trials |
| `RoleBindings` | the role binding operations | re-binding the client and deleting through it are separate steps |
| `StorageClassDefault` | switching the default class | one patch per step, several administrators |
| `Rancher` | `pkg/rancher` over `pkg/http` | one try of a request per step; a request ends with an answer, one that cannot be decoded included, or when resty has used up its retries |
| `LeaseCron` | the lease-guarded schedule, over the election of client-go | the Lease object; per replica its stage, what it has observed and for how long, its schedules; sending an update, the update and its answer are separate steps; time passes in units of the retry period |
| `KubeObjects` | the `Set…Client` functions and every single-request operation on sixteen kinds; `ApplyDynamicResource` | where the shared client is bound, the object in each namespace with its revision, the copy each goroutine holds; one document of a manifest per step |
| `Kubernetes` | composes `KubeRetry`, `RoleBindings`, `StorageClassDefault`, `KubeObjects`, `LeaseCron` | a behaviour is about one of them |
| `HelmRelease` | `pkg/helm` | the release record, the namespaces with resources, operations that timed out and go on; per helper its operators and its namespace; get, begin and end of an operation are separate steps, and so are marking and deleting in `Uninstall` |
| `MongoStore` | `pkg/mongo` | documents, files, lists of writes the server makes one by one, those given up included |
| `Mailer` | `pkg/email/v2` | TLS policy and trials of a message, whether the relay is on the host itself; it offers STARTTLS at one dial and not at the next |
| `SshSession` | `pkg/ssh` | the steps of `SetClients`, one block of a copy per step, the deferred `Close` of the destination |
| `KeycloakUsers` | the token and the account operations of `pkg/keycloak` | the shared token, the credentials that are still valid, what a goroutine sends, facts of the realm; login, reading the token and the answer are separate steps |
| `Integrations` | composes `HelmRelease`, `MongoStore`, `Mailer`, `SshSession`, `KeycloakUsers` | a behaviour is about one of them |
| `OpenStack` | the operations of `openstack/v2` | a cloud as a set of objects with a kind, an id, a name, a parent and an attachment; one page of a listing per step, every other operation one step |

`MCx` is the instance of module `x` for TLC, `xProofs` holds its theorems.
`Kubernetes` and `Integrations` put components side by side that share no state
with each other: their interleavings would add states and no behaviour, and so a
behaviour picks a topic at the start and the other components stand still. `Topics`
says which topics a run is about: `kubernetes` the first four of `Kubernetes`, `lease`
the lease, which has fairness conditions of its own (`LeaseSpec`).
Operators commented *Faulty variant* are not part of a specification: each is a
plausible bug in the definition that follows it, and shows that the property
named with it in `PROJECT.json` would notice.

Servers are modelled from the way the code uses them and marked external in the
map. What is assumed of them:

- Keycloak pages by offset in a fixed order, refuses a second sibling of the same
  name, and deletes a group with its subtree. `LegacySubGroups` says whether
  `GET /groups/{id}` carries the subgroups, as the code supposes; servers from
  version 23 on leave them out, as a comment in `findChildGroup` says.
- EC2 refuses to delete what is in use: a gateway that is attached, a subnet with
  interfaces, an ACL on which a subnet depends, and a VPC with any of them or with a
  route table that is not the main one.
- The Kubernetes API server handles each request atomically, refuses an update
  whose revision or namespace is not that of the object, and merges a patch into
  the object as it is; nobody deletes storage classes. A deleted namespace stays,
  terminating, until a controller has emptied it.
- client-go's election: a candidate takes a lease that is free, its own, or that it
  has watched unchanged for 30 s (`LeaseDuration`); a leader that could not renew
  for 15 s and one retry period steps down. It counts from the answer to its update,
  the candidates from the update itself, and between the two any time may pass, as
  the clientset has no time-out; an update may also be made after its sender gave
  it up. `RunOrDie` panics without a lock or
  callbacks. Clocks run: a replica that is suspended while others are not, and
  wakes up believing that it leads, is left out.
- Helm refuses to install a name in use and to upgrade a release that is pending or
  half uninstalled. It writes the record before and after the work; where the answer
  to the first write is lost it gives up, an error of the last one is returned by an
  upgrade, logged by an installation, and dropped when the operation failed. An
  operation whose context ends marks its release failed and goes on in a goroutine of
  its own, which may still mark an installation deployed. Resources that name no
  namespace go where `EnvConfig` points, which is the namespace given to the last
  `SetNamespace`; the record keeps the one of the installation. `Uninstall` marks the
  release first, and where it fails leaves it so.
- MongoDB makes the writes of a list in order and stops at the first it refuses; it
  may carry out a request whose caller has given up.
- A relay may have accepted a message whose answer is lost, and may have seen the
  credentials of a dial that fails. go-mail's PLAIN gives no credentials to an
  unencrypted link, except to `localhost`, `127.0.0.1` and `::1`. An SSH session runs
  one command. A file that cannot be closed may have lost its last blocks.
- A user's password may stop being valid at any time, a client secret does not, as the
  comment of `LoginServiceAccount` says.
- Rancher refuses a second object of the same name, makes up the ids of
  credentials, and removes a deleted cluster some time later. A 5xx may be that of a
  proxy whose server went on and did what was asked.
- OpenStack services list in the order of ids, which are random; a page begins
  behind its marker, and a marker that is gone is refused. Manila's lists, of shares
  and share networks, are walked by offset where the caller's options carry a limit,
  and end after one page otherwise. A filter by name may
  let through similar names (databases that ignore case). Networks with ports,
  and both ends of a router interface, are not deleted; the identity service
  refuses a second object of the same name. A deletion takes effect at once, and
  what a service does by itself afterwards is left out.
- `sync.Once` runs one function once and lets the others wait for it.

A request that fails may or may not have reached the server wherever the
difference matters.

## 3. Runs

| Run | Bounds | Shows |
|---|---|---|
| `global_helper` | 3 goroutines, 2 calls each | `CallersAgree` (whoever returns finds the matter settled, one caller at most learns of the failure, all readers have the same helper), the refinement `ImplementsOnceCell`, `CallReturns` (unless the build itself hangs) |
| `global_helper_nil` | the same | violation: after a failed build further constructor calls return a nil error without a helper |
| `pagination` | up to 5 items, pages of 2, 2 changes, 2 calls | `QuietListingIsExact`, `AdditionsHideNothing`, `RemovalsRepeatNothing`, `ListingEnds` |
| `groups` | 2 callers, paths of 0 to 2 levels, pages of 1, one deletion, one fault | `ResultIsOnPath`, `OnlyAskedForIsCreated` (a group appears only as the next level of a path that a `GetOrCreate` is walking), `RefusedMeansThere`, `PersistentCallerSucceeds` |
| `vpc` | 2 gateways, 2 associations and the main one, with and without a custom route table, an ACL, with and without a subnet on it, 3 subnets (one late), 3 interfaces, 2 faults | `QuietAttemptNotRefused` (of a VPC that can be removed at all: no custom route table, no subnet on an ACL of its own), `OrphanNeedsFault`, `RetriesRemoveVpc` (such a VPC is removed in the end, and any other never) |
| `vpc_orphan` | one fault | violation: a failure between detaching and deleting leaves a gateway that no retry finds |
| `kube_node_port` | `Retry` = 2, one change of the cluster | violation: the node port belongs to target port 8080, whatever was asked for |
| `kubernetes` | look-ups: `Retry` = 2, one change; role bindings: 2 goroutines, 4 bindings, 2 calls, one fault; storage classes: 2 administrators, 3 classes (one late), 3 switches, one fault; objects: 2 goroutines, 2 namespaces, 4 revisions, one lapse, 5 manifests | `NothingMeansAllTrialsFailed` (a nil result, a panic of `GetNodeIP` and a false of `IsNamespaceExist` all mean that every trial failed), `DeletesOnlyMeant`, `OkMeansGone`, `DeletesAPrefix`, `SwitchesLeaveADefault`, `RetriesSettle`, `NoLostUpdate` (an acknowledged change is not undone by an update of a stale copy, whoever re-binds the client), `ManifestIsAPrefix` (everything before the document where a call stopped is applied, nothing behind it, nil means behind the last, and an error has its cause in that document or in a failed request) |
| `lease` | 2 replicas, one request that is lost or comes late, one crash or cancellation, answers of any duration | `OneLeader` (two lead at a time only after an answer of ten seconds or more), `SecondScheduleIsAnOldOne` (a schedule beside the leader's is one that outlived its term), `ScheduleResumes` |
| `rancher` | 2 callers, one repetition, 2 polls, 4 calls, 2 faults | `CreationsAreAccountedFor` (copies of an object are owed to answers the caller did not see: lost, replaced by a proxy's, or undecodable; a creation that failed for another reason leaves nothing), `DeletedIsGone`, `WaitToleratesFaults` |
| `openstack` | 2 callers, one looking up and one changing, 3 networks in pages of 2, one object of each other kind, share listings with limits of 1 and 3 and without, 3 calls, one fault | `LookupIsExact` (what is found was there by that name, what is not found was not there all the time), `ListingIsExact` (completeness of both for everything but shares and share networks) |
| `integrations` | helm: 2 programs, 2 namespaces, 2 rival operations, one failure; mongo: 2 goroutines, 2 documents, files of 2 parts, 2 operations, one failure; mail: `Count` of -1, 0, 1, 2 messages; ssh: 2 helpers, files of 2 blocks, 4 uses, 2 failures; accounts: 2 goroutines, 2 requests, 2 mishaps | `QuietApplyIsExact`, `PendingIsAttended`, `StubbornSucceeds`, `NilMeansDone`, `SendIsAccounted`, `ClearIsAskedFor`, `HelperKeepsItsWord`, `AnswersAreTrue`, `ReLoginHelps` (with a service account) |

The bounds are the smallest at which the cases in question occur: two actors for every
race; a list that fills a page exactly and one that does not; top-level groups on two
pages; a fault in each of two attempts; a wait that loses all of its polls; a leader that
crashes, or whose request is slow or lost, while another waits; a copy that goes stale
while the client is bound elsewhere. `lease` allows one crash and one lost request, and
`integrations` one failure of Helm: with two the runs take longer than a check should, and
the invariants are proved for any number. Counters that only limit a run (`MaxFaults`,
`MaxCalls`, …) appear in the guards of the disturbances and of the calls, never in a step
of an operation. In `openstack` the calls of one behaviour are about kinds that depend on
each other (`Topics`): calls about unrelated kinds cannot influence each other, and their
interleavings are left out. The inductive invariants of section 4 are proved and not run
again; each was checked with TLC at the bounds above before it was proved. Deadlock is
checked except where a system may stop: when the VPC is gone, when all calls, switches,
sends and uses have been made, or when a panic ended the process.

**Fairness.** A call that is under way goes on: the Go scheduler runs a runnable
goroutine, and the requests of `KeycloakGroups`, `KeycloakUsers`, `Pagination` and
`VpcTeardown` end, by a context of some seconds or minutes or by the time-out of the
HTTP client. Where the code gives a request no deadline none is assumed.
`newProvider` of `openstack/v2` authenticates with `context.Background()`: `Build` of
`GlobalHelper` is not fair, and `CallReturns` excepts a build that hangs. Helm's
requests for records take no context: no step of an operation is fair in `HelmRelease`,
and `StubbornSucceeds` is about behaviours in which calls return (`CallsReturn`). An
update of the lease may take any time, and the answer of a candidate has no deadline;
that it comes or fails in the end rests on client-go's transport, which closes a
connection that does not answer its pings.

Where a property speaks of retries, the caller that
retries is assumed to do so: `Persistent` in `KeycloakGroups`, the next attempt in
`VpcTeardown`, `TryAgain` in `StorageClassDefault`, the `Stubborn` programs of
`HelmRelease`, the `Patient` goroutines of `KeycloakUsers`, and `Program` in
`LeaseCron`, which stands for a pod that is restarted and runs for the lease
again. In `LeaseCron` time passes, and requests get through again and again, as
`MaxLost` bounds those that do not. No other actor is fair: other callers may stop in
the middle of an operation, and servers need not make progress.

## 4. Proofs

The theorems hold for every value of the constants that satisfies the named
assumptions.

- `GlobalHelperProofs`. `OnceInv` ties the program counters to the Once: at most one
  goroutine is inside, the variable is set only when it has built, an error is with at
  most one caller. From it follow `CallersAgree`, part by part, and that `GlobalHelper`
  implements `OnceCell`, by the mapping of the package variable to the cell.
- `PaginationProofs`. The properties speak of the end of a walk, when the offset
  is gone. `WalkInv` says at every page how the items collected relate to the
  list: what was there from the start and is not collected yet lies at or behind
  the offset as long as nothing was removed, what is collected lies before it as
  long as nothing was added.
- `VpcTeardownProofs`. `TeardownInv` says for each place in the sequence what the
  loops that are over have dealt with and where the exceptions come from: late
  additions, and gateways detached by an attempt that failed. It gives
  `QuietAttemptNotRefused` and `OrphanNeedsFault`. `UnremovableStays` is the second half
  of `RetriesRemoveVpc`: route tables and the ACLs of subnets never change
  (`ShapeStays`), and so EC2 never lets such a VPC go.
- `KubernetesProofs`, one section per component; the steps of the others leave its
  variables alone. *Look-ups*: a call that still tries has neither a value nor an
  error, and a wrapper that goes on has an object or has made `Retry` + 1 trials
  (`RetryInv`). *Storage classes*: the defaults are on the list of an administrator
  whom nobody disturbed while it patches, and there is none left when it sets its
  own (`SwitchInv`). *Objects*: a copy of the current revision has the changes of
  the object (`CopyInv`), which is why the server's comparison of revisions is
  enough for `NoLostUpdate`; and at every document of a call, which ones it has applied,
  that none of those before it was unfit, and that a mapper once settled stays
  (`ManifestInv`). *Role bindings*: `RoleInv` says of a goroutine how far its loop
  has come, and, if it has the helper to itself, that the client is bound to the
  namespace of the binding it is about to delete and that exactly the namespaces
  behind it are clean; without that last part neither `OkMeansGone` nor
  `DeletesAPrefix` is inductive.
  *Lease*: `OneLeader` alone is not inductive: a candidate may take a lease
  because of what it has seen of it. `LeaseInv` adds that whoever leads, or waits for
  the answer that makes it lead, holds the lease as long as its answers are prompt
  (`Holds`): its name is in the Lease object, no rival has an update on its way, and
  no candidate has watched that lease for longer than the latest answer took and
  the leader has gone without another. The answer takes less than 2 periods of 5 s
  (`Slow`), a leader steps down after 4 more (`TermEnds`), and a candidate waits for 6
  (`LeaseDuration`), so that nobody may take the lease of a leader. With an answer of
  2 periods the sum does not come out any more, and two replicas can lead.
  `ScheduleInv` says where schedules come from, and gives `SecondScheduleIsAnOldOne`.
  Both hold for any number of replicas, lost answers, late updates, cancellations and
  crashes.
- `IntegrationsProofs`, laid out the same way. *Mail*: each copy of a message has cost a
  trial, and one under way has no copy that was acknowledged (`SendInv`); go-mail has the
  policy the options ask for (`PolicyInv`), which decides what a dial exposes. *SSH*: a
  session is opened after the connection and has run a command at most once
  (`SessionInv`). *Helm*: a program that nobody interfered with still knows the release as
  its get found it, whose pending it is, and where the resources are (`ReleaseInv`); the
  steps of others either leave all of that alone or end its being alone (`HelmEffects`),
  the late ends of operations that timed out included (`LagKeepsInv`). *Accounts*: no
  request adds what it drops, and one that only looks changes nothing (`RequestInv`), so
  that what a request has made true stays true until another changes the realm. *Mongo*:
  the list of an operation is some number n of writes that are settled, each unless a
  later one of them is about the same document, and the rest that is still to be made
  (`StoreInv`); the last write settles all.
- `RancherProofs`. `RancherInv` counts, in the middle of a request too, the copies
  made against the answers lost, keeps a wait's failed polls equal to its polls as
  long as its goal has held, and numbers the generations of a cluster, so that one
  whose deletion was waited for is not mistaken for its successor.
- `KeycloakGroupsProofs`. `ResultIsOnPath` speaks of the end of a walk, over groups whose
  paths are sequences of any length. `GroupInv` says that the path of every group is its
  parent's and one name more, that a walk stands on the group of exactly the segments it
  has resolved, and that a match in an earlier page bears the first of them; creations and
  deletions keep the tree (`CreationKeepsTree`, `DeletionKeepsTree`). A walk that stands
  there creates nothing but the next segment (`CreationsAreAskedFor`). As long as nothing
  is deleted all groups are alive, and a refused creation can only be a lost race.
- `OpenStackProofs`. `LookupIsExact` and `ListingIsExact` speak of the last step of a
  walk, after any number of pages and of changes by others. `WalkInv` says what holds
  between two pages (`Exact`): what was collected is in the order of the ids and was there
  at some time, and, of a walk by marker, the marker is the last of it, and of the objects
  unchanged since the walk began every one up to the marker is collected. It survives
  every change, since a change can only take objects out of that last set (`StaysExact`).
  That a page carries it on needs the page to be the next objects by id: an object's rank
  is the number of objects before it, ranks of a finite set with distinct ids are exactly
  0 to its size less one (`NthFacts`, by counting an injection), and a page is a run of
  ranks (`PageFacts`). Distinct ids per kind are part of `TypeOK`, and every one of the
  operations keeps them (`LookUpSorted`, `ChangeSorted`). At the end a short page leaves
  nothing behind it, the loop over the list answers by it (`AnswerFacts`), and a marker
  that is gone means that an object is (`GoneIsChange`). All of it holds for any callers,
  objects, names, page size and faults; `CloudAssumption` asks that ids are positive, that
  the initial objects are finitely many with distinct ids, that a filter lets the name
  itself through and that pages are not empty.

All invariants of the runs that are expected to pass are proved, and all action
properties that are not about fairness: the refinement of `OnceCell`, the one of
`KeycloakGroups` and the two of `OpenStack`. An overlap came to light in the attempt: the
`CASE` of three definitions (`Outcome` of `KeycloakUsers`, `Answer` and `Watch` of
`OpenStack`) had arms of which two could be true, and which of them TLA+ then takes is
not determined (TLC takes the first); they are written in the code's order of
tests now.

The leaves are discharged by SMT and Zenon, the temporal steps by LS4. Left to TLC
are the liveness properties, as fairness is out of the prover's reach: `CallReturns`,
`ListingEnds`, `PersistentCallerSucceeds`, `RetriesRemoveVpc`, `RetriesSettle`,
`ScheduleResumes`, `StubbornSucceeds` and `ReLoginHelps`.

## 5. What the checks found

- `NewGlobalHelper` returns a nil error from its second call on, also when the
  first one failed and there is no helper (`global_helper_nil`).
- `DeleteVpc` leaves an internet gateway behind when the request after the
  detachment fails; a retry cannot find it (`vpc_orphan`).
- `GetSvcNodePortByTargetPort` ignores its argument (`kube_node_port`).
- Not run as violations but visible in the models:
  - of a VPC with a subnet on a custom ACL, or with a custom route table, no attempt
    of `DeleteVpc` succeeds: ACLs are deleted before subnets, and route tables not at
    all (`RetriesRemoveVpc`, `UnremovableStays`);
  - a `NewGlobalHelper` of `openstack/v2` that Keystone does not answer keeps every
    later caller waiting (`CallReturns` excepts it);
  - two replicas may lead at a time after an update of the lease whose answer took ten
    seconds or more (`OneLeader` allows exactly this);
  - `ListShares` and `GetShareNetworkByName` see one page, or skip what moved between
    two (`ListingIsExact` and `LookupIsExact` except them);
  - a creation in Rancher that is reported as failed may have succeeded, behind a
    proxy's 502 or an answer that cannot be decoded (`CreationsAreAccountedFor`);
  - with TLS "opportunistic" and a relay on localhost without STARTTLS the password
    goes in the clear, although the comment of `SetClient` says that PLAIN refuses this
    (`ClearIsAskedFor` excepts it);
  - `Copy` and `CopyFrom` drop the error of closing the destination, and nil does not
    mean then that the file is whole (`HelperKeepsItsWord` excepts it);
  - a look-up that fails on all trials returns nil, nil (`NothingMeansAllTrialsFailed`);
  - a replica that lost the lease keeps its schedule, and runs two when it leads
    again (`SecondScheduleIsAnOldOne` allows exactly this);
  - a program that dies during an installation, or cannot write its record, leaves the
    release pending, and every later `Apply` is refused; a failed `Uninstall` leaves it
    "uninstalling", to the same effect (`PendingIsAttended`, `StubbornSucceeds`); `Apply`
    may return nil over a record that is still pending (`QuietApplyIsExact`);
  - release records are kept in "default": `Apply` with another namespace
    upgrades a release of that name, puts its resources into the other namespace and
    leaves the old ones, while the record keeps the old namespace (`QuietApplyIsExact`);
    and an `Uninstall` looks for the resources where its own helper points, which is
    nowhere in particular for one that never applied;
  - `UploadFile` returns nil for every failure and may store a part of the file as
    a file of its own (`NilMeansDone`);
  - an `ssh` helper runs one command, and a `NewHelper` that fails after dialling
    leaves the connection open (`HelperKeepsItsWord`);
  - an empty document of a manifest is an error, and one that is not YAML ends the
    process; a kind defined after the first use of the helper stays unknown to it
    (`KubeObjects`);
  - in `openstack/v2`, `DisassociateFloatingIp` sends no port (a nil `PortID` is left
    out of the body) and so leaves the address where it is; `ListContainers` asks the
    block storage service; `ListHypervisors` ignores its options;
    `UpdateSharedFileSystemQuota` reports 201 and 202 as errors after accepting them;
    `IsDomainExists` reports an absent domain by an error.

## 6. Not modelled, and the plan

Not modelled:

- `openstack/v2` options: the authentication options are resolved from the
  environment, a file and arguments, once per helper; nothing of it changes later.
- `email` (v1), `openstack/v1`, `harbor`, `aws/s3`, `influx`: one request per call,
  with nothing kept between calls and no sequence to get wrong.
- `terraform`, `zip`: wrappers around external tools and file I/O.
- `ipmi`, `slack`, `log`, `math`, `os`, `password`, `wait`: formatting, configuration and
  stateless helpers.
- Of `helm`, the values (`OverrideDefaultValues`, `LoadValueFromFile`), which only read
  files; of `mongo`, `FindFile` and `DownloadFile`, which only read, and `NewTxnCli`,
  which hands a session of the driver to its caller.
- Attached network interfaces and mapped addresses of a VPC.
- Helm's revisions but the latest, and their pruning (`MaxHistory`); hooks.
- In `KeycloakUsers`, requests that take effect after their caller's time-out.

Time is abstracted to a time-out that may happen at any point, but for the periods
of the lease, which are what `OneLeader` is about.

Three hazards have no property, because nothing in the repository says what is
meant: an error status that `ListKubernetes` turns into a nil list, the statuses 201
and 202 of the quota update, and a program whose first helper was built without DNS.

Left for later, in this order:

1. A module that composes `GlobalHelper` with `OpenStack`: a helper without DNS, used
   for DNS.
2. `LeaseCron` with replicas that may be suspended, once the repository says what a
   schedule may do after its term.
