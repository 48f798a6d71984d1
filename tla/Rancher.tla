------------------------------ MODULE Rancher -------------------------------
(***************************************************************************)
(* The operations of pkg/rancher over the HTTP helper of pkg/http.  Each   *)
(* request of the helper is tried again by its resty client after a        *)
(* transport error, creations included; an answer, of whatever status,     *)
(* ends the request.  The waiting operations poll a fixed number of times. *)
(* Callers share one Rancher server, on which clusters come and go.        *)
(***************************************************************************)
EXTENDS Naturals

CONSTANTS
    Callers,    \* goroutines or processes that use the server
    Uses,       \* Uses[c]: the operations that caller c uses
    RetryCount, \* Options.Retry.Count of the HTTP helper
    Attempts,   \* attemptsMax of the waits, timeout of WaitNodeDriverStatus
    MaxCalls,   \* bound: calls of operations
    MaxFaults,  \* bound: transport errors and server errors
    MaxEvents   \* bound: changes on the server that no request makes

ASSUME RetryAssumption == RetryCount \in Nat /\ Attempts \in Nat \ {0}
ASSUME BoundAssumption == MaxCalls \in Nat /\ MaxFaults \in Nat /\ MaxEvents \in Nat

Named == {"secret", "clusterSecret", "machine", "repo"}
Creates == Named \union {"credential", "cluster"}
Waits == {"waitActive", "waitDeleted", "waitDriver"}
Ops == Creates \union Waits \union
       {"none", "list", "delete", "config", "activate", "configable"}

\* The operations that have the answer decoded (SetResult).
Decoding == Creates \union {"list", "waitActive", "waitDriver"}

ASSUME UsesAssumption == Uses \in [Callers -> SUBSET (Ops \ {"none"})]

\* Classes of HTTP statuses; "409" stands for every 4xx code but 404.
Statuses == {"2xx", "404", "409", "5xx"}

VARIABLES
    cluster,    \* the provisioning cluster: [gen, phase, ready]
    gens,       \* clusters created so far; a cluster's gen is its number
    taken,      \* the kinds in Named whose object exists
    driver,     \* the node driver: "inactive", "activating" or "active"
    pc,         \* each caller: "idle" or "send" (a try of a request is due)
    op,         \* its operation
    tries,      \* resty: tries of the request that failed
    polls,      \* requests of a wait that did not end it
    ret,        \* what it returned: "none", "ok", "error", "nil" (neither),
                \* "rejected" (an error, before any request)
    made,       \* history: objects its call has created
    lost,       \* history: answers it did not get to see after the server had
                \* acted (lost, replaced by a proxy's 5xx, or undecodable)
    failed,     \* history: polls of its call that brought no status
    hit,        \* history: the cluster its latest delete was for, 0 for none
    steady,     \* history: has what it waits for held since its call began?
    faults, calls, events

server == <<cluster, gens, taken, driver>>
request == <<pc, op, tries, polls, ret>>
vars == <<server, request, made, lost, failed, hit, steady, faults, calls, events>>

NoCluster == [gen |-> 0, phase |-> "absent", ready |-> "no"]

Init ==
    /\ cluster = NoCluster
    /\ gens = 0
    /\ taken = {}
    /\ driver = "inactive"
    /\ pc = [c \in Callers |-> "idle"]
    /\ op = [c \in Callers |-> "none"]
    /\ tries = [c \in Callers |-> 0]
    /\ polls = [c \in Callers |-> 0]
    /\ ret = [c \in Callers |-> "none"]
    /\ made = [c \in Callers |-> 0]
    /\ lost = [c \in Callers |-> 0]
    /\ failed = [c \in Callers |-> 0]
    /\ hit = [c \in Callers |-> 0]
    /\ steady = [c \in Callers |-> "no"]
    /\ faults = 0
    /\ calls = 0
    /\ events = 0

-----------------------------------------------------------------------------
(* The server.  Serve(c, s) is what a request of c's operation does there,   *)
(* s the class of the status it is answered with.                            *)

Keep == UNCHANGED <<server, made, hit>>

ServeCreate(c, s) ==
    \/ /\ op[c] \in Named \ taken
       /\ taken' = taken \union {op[c]}
       /\ s = "2xx"
       /\ made' = [made EXCEPT ![c] = @ + 1]
       /\ UNCHANGED <<cluster, gens, driver, hit>>
    \* The server makes up the id of a credential.
    \/ /\ op[c] = "credential"
       /\ s = "2xx"
       /\ made' = [made EXCEPT ![c] = @ + 1]
       /\ UNCHANGED <<server, hit>>
    \/ /\ op[c] = "cluster"
       /\ cluster.phase = "absent"
       /\ gens' = gens + 1
       /\ cluster' = [gen |-> gens + 1, phase |-> "there", ready |-> "no"]
       /\ s = "2xx"
       /\ made' = [made EXCEPT ![c] = @ + 1]
       /\ UNCHANGED <<taken, driver, hit>>
    \/ /\ op[c] \in taken \/ (op[c] = "cluster" /\ cluster.phase # "absent")
       /\ s = "409"
       /\ Keep

ServeDelete(c, s) ==
    /\ op[c] = "delete"
    /\ \/ /\ cluster.phase # "absent"
          /\ cluster' = [cluster EXCEPT !.phase = "deleting"]
          /\ hit' = [hit EXCEPT ![c] = cluster.gen]
          /\ s = "2xx"
          /\ UNCHANGED <<gens, taken, driver, made>>
       \/ cluster.phase = "absent" /\ s = "404" /\ Keep

ServeActivate(c, s) ==
    /\ op[c] = "activate"
    /\ driver' = IF driver = "inactive" THEN "activating" ELSE driver
    /\ s = "2xx"
    /\ UNCHANGED <<cluster, gens, taken, made, hit>>

\* Reading requests; the kubeconfig and the driver's config are those of a
\* cluster that is there and of a driver that is active.
ServeRead(c, s) ==
    /\ \/ op[c] \in {"list", "waitDriver"} /\ s = "2xx"
       \/ /\ op[c] \in {"waitActive", "waitDeleted", "config"}
          /\ s = IF cluster.phase = "absent" THEN "404" ELSE "2xx"
       \/ op[c] = "configable" /\ s = IF driver = "active" THEN "2xx" ELSE "404"
    /\ Keep

Serve(c, s) == ServeCreate(c, s) \/ ServeDelete(c, s) \/ ServeActivate(c, s) \/ ServeRead(c, s)

-----------------------------------------------------------------------------
(* The calls. *)

Call(c, o) ==
    /\ pc[c] = "idle"
    /\ calls < MaxCalls
    /\ calls' = calls + 1
    /\ pc' = [pc EXCEPT ![c] = "send"]
    /\ op' = [op EXCEPT ![c] = o]
    /\ tries' = [tries EXCEPT ![c] = 0]
    /\ polls' = [polls EXCEPT ![c] = 0]
    /\ ret' = [ret EXCEPT ![c] = "none"]
    /\ made' = [made EXCEPT ![c] = 0]
    /\ lost' = [lost EXCEPT ![c] = 0]
    /\ failed' = [failed EXCEPT ![c] = 0]
    /\ hit' = [hit EXCEPT ![c] = IF o = "delete" THEN 0 ELSE @]
    /\ UNCHANGED <<server, faults, events>>

\* The URL in the options does not parse, or the body cannot be marshalled: the
\* call returns before it has sent anything.
Reject(c, o) ==
    /\ pc[c] = "idle"
    /\ calls < MaxCalls
    /\ calls' = calls + 1
    /\ op' = [op EXCEPT ![c] = o]
    /\ ret' = [ret EXCEPT ![c] = "rejected"]
    /\ made' = [made EXCEPT ![c] = 0]
    /\ UNCHANGED <<server, pc, tries, polls, lost, failed, hit, faults, events>>

Return(c, r) ==
    /\ pc' = [pc EXCEPT ![c] = "idle"]
    /\ ret' = [ret EXCEPT ![c] = r]
    /\ tries' = [tries EXCEPT ![c] = 0]
    /\ polls' = [polls EXCEPT ![c] = 0]
    /\ UNCHANGED op

\* The loop of a wait goes on, or is over after the last attempt.
NextPoll(c) ==
    IF polls[c] + 1 = Attempts
    THEN Return(c, "error")
    ELSE /\ polls' = [polls EXCEPT ![c] = @ + 1]
         /\ tries' = [tries EXCEPT ![c] = 0]
         /\ UNCHANGED <<pc, op, ret>>

\* Faulty variant: the request is repeated after an answer, too.
CreateAgain(c, s) ==
    /\ op[c] = "credential"
    /\ IF tries[c] < RetryCount
       THEN tries' = [tries EXCEPT ![c] = @ + 1] /\ UNCHANGED <<pc, op, polls, ret>>
       ELSE Return(c, IF s = "2xx" THEN "ok" ELSE "error")

\* What each operation makes of an answer.
CreateRancherSecret(c, s) ==
    op[c] = "secret" /\ Return(c, IF s = "2xx" THEN "ok" ELSE "error")
CreateClusterSecret(c, s) ==
    op[c] = "clusterSecret" /\ Return(c, IF s = "2xx" THEN "ok" ELSE "error")
CreateOpenstackMachine(c, s) ==
    op[c] = "machine" /\ Return(c, IF s = "2xx" THEN "ok" ELSE "error")
CreateClusterRepo(c, s) ==
    op[c] = "repo" /\ Return(c, IF s = "2xx" THEN "ok" ELSE "error")
CreateCloudCredential(c, s) ==
    op[c] = "credential" /\ Return(c, IF s = "2xx" THEN "ok" ELSE "error")
CreateKubernetes(c, s) ==
    op[c] = "cluster" /\ Return(c, IF s = "2xx" THEN "ok" ELSE "error")
DeleteKubernetes(c, s) ==
    op[c] = "delete" /\ Return(c, IF s = "2xx" THEN "ok" ELSE "error")
ActivateNodeDriver(c, s) ==
    op[c] = "activate" /\ Return(c, IF s = "2xx" THEN "ok" ELSE "error")
IsNodeDriverConfigable(c, s) ==
    op[c] = "configable" /\ Return(c, IF s = "2xx" THEN "ok" ELSE "error")

\* return nil, err: the err of the request, which is nil.
ListKubernetes(c, s) ==
    op[c] = "list" /\ Return(c, IF s = "2xx" THEN "ok" ELSE "nil")

\* The answer may be without a config, or not be YAML.
GetKubernetesConfig(c, s) ==
    /\ op[c] = "config"
    /\ \/ s = "2xx" /\ Return(c, "ok")
       \/ Return(c, "error")

WaitKubernetesActive(c, s) ==
    /\ op[c] = "waitActive"
    /\ IF s = "2xx" /\ cluster.ready = "yes" THEN Return(c, "ok") ELSE NextPoll(c)

\* Faulty variant: any answer but a success means that the cluster is gone.
WaitDeletedOnAnyError(c, s) ==
    /\ op[c] = "waitDeleted"
    /\ IF s # "2xx" THEN Return(c, "ok") ELSE NextPoll(c)

WaitKubernetesDeleted(c, s) ==
    /\ op[c] = "waitDeleted"
    /\ IF s = "404" THEN Return(c, "ok") ELSE NextPoll(c)

isNodeDriverMatchedStatus == driver = "active"

WaitNodeDriverStatus(c, s) ==
    /\ op[c] = "waitDriver"
    /\ IF s = "2xx" /\ isNodeDriverMatchedStatus THEN Return(c, "ok") ELSE NextPoll(c)

Receive(c, s) ==
    \/ CreateRancherSecret(c, s)
    \/ CreateClusterSecret(c, s)
    \/ CreateOpenstackMachine(c, s)
    \/ CreateClusterRepo(c, s)
    \/ CreateCloudCredential(c, s)
    \/ CreateKubernetes(c, s)
    \/ DeleteKubernetes(c, s)
    \/ ActivateNodeDriver(c, s)
    \/ IsNodeDriverConfigable(c, s)
    \/ ListKubernetes(c, s)
    \/ GetKubernetesConfig(c, s)
    \/ WaitKubernetesActive(c, s)
    \/ WaitKubernetesDeleted(c, s)
    \/ WaitNodeDriverStatus(c, s)

-----------------------------------------------------------------------------
(* One try of a request. *)

Answered(c) ==
    /\ pc[c] = "send"
    /\ \E s \in Statuses : Serve(c, s) /\ Receive(c, s)
    /\ UNCHANGED <<lost, failed, faults, calls, events>>

\* A request whose own answer the caller does not see may not have reached the
\* server, or may have been carried out there.
Unseen(c) ==
    \/ UNCHANGED <<server, made, lost, hit>>
    \/ Serve(c, "2xx") /\ lost' = [lost EXCEPT ![c] = @ + 1]

\* A 5xx: the server could not do it, or a proxy before it gave up waiting.
ServerError(c) ==
    /\ pc[c] = "send"
    /\ faults < MaxFaults
    /\ faults' = faults + 1
    /\ Unseen(c)
    /\ Receive(c, "5xx")
    /\ failed' = [failed EXCEPT ![c] = @ + 1]
    /\ UNCHANGED <<calls, events>>

\* Faulty variant: a wait ends with the first poll that fails.
GiveUpAtOnce(c) == Return(c, "error")

\* What an operation makes of a request whose last try failed.
RequestFailed(c) == IF op[c] \in Waits THEN NextPoll(c) ELSE Return(c, "error")

\* The body of a success cannot be decoded into the result that was set: resty
\* returns an error and does not try again.
DecodeError(c) ==
    /\ pc[c] = "send"
    /\ op[c] \in Decoding
    /\ faults < MaxFaults
    /\ faults' = faults + 1
    /\ Serve(c, "2xx")
    /\ lost' = [lost EXCEPT ![c] = @ + 1]
    /\ RequestFailed(c)
    /\ failed' = [failed EXCEPT ![c] = @ + 1]
    /\ UNCHANGED <<calls, events>>

\* resty: the next try, until RetryCount of them have failed after the first.
TransportError(c) ==
    IF tries[c] < RetryCount
    THEN /\ tries' = [tries EXCEPT ![c] = @ + 1]
         /\ UNCHANGED <<pc, op, polls, ret, failed>>
    ELSE /\ RequestFailed(c)
         /\ failed' = [failed EXCEPT ![c] = @ + 1]

\* The request does not arrive, or its answer does not.
RequestLost(c) ==
    /\ pc[c] = "send"
    /\ faults < MaxFaults
    /\ faults' = faults + 1
    /\ Unseen(c)
    /\ TransportError(c)
    /\ UNCHANGED <<calls, events>>

\* The controllers of Rancher: a cluster becomes ready, or stops being so, a
\* deleted one disappears, a driver becomes active.
Controllers ==
    /\ events < MaxEvents
    /\ events' = events + 1
    /\ \/ /\ cluster.phase # "absent"
          /\ \E r \in {"yes", "no"} \ {cluster.ready} :
                cluster' = [cluster EXCEPT !.ready = r]
          /\ UNCHANGED driver
       \/ cluster.phase = "deleting" /\ cluster' = NoCluster /\ UNCHANGED driver
       \/ driver = "activating" /\ driver' = "active" /\ UNCHANGED cluster
    /\ UNCHANGED <<gens, taken, request, made, lost, failed, hit, faults, calls>>

-----------------------------------------------------------------------------

\* What the wait o waits for.
Goal(o) ==
    \/ o = "waitActive" /\ cluster.ready = "yes"
    \/ o = "waitDeleted" /\ cluster.phase = "absent"
    \/ o = "waitDriver" /\ driver = "active"

Try(c) == Answered(c) \/ ServerError(c) \/ DecodeError(c) \/ RequestLost(c)

Track ==
    steady' = [c \in Callers |->
        IF \/ pc[c] = "idle" /\ pc'[c] = "send" /\ Goal(op'[c])
           \/ pc[c] = "send" /\ steady[c] = "yes" /\ Goal(op[c])'
           \/ pc[c] = "idle" /\ pc'[c] = "idle" /\ steady[c] = "yes"
        THEN "yes" ELSE "no"]

Step(c) == Try(c) /\ Track

Next ==
    \/ \E c \in Callers :
        \/ \E o \in Uses[c] : (Call(c, o) \/ Reject(c, o)) /\ Track
        \/ Step(c)
    \/ Controllers /\ Track

Spec == Init /\ [][Next]_vars

-----------------------------------------------------------------------------

\* No more than RetryCount tries of a request are repeated, and a wait never
\* polls more often than Attempts.
TypeOK ==
    /\ cluster \in [gen : Nat, phase : {"absent", "there", "deleting"}, ready : {"yes", "no"}]
    /\ gens \in Nat
    /\ taken \subseteq Named
    /\ driver \in {"inactive", "activating", "active"}
    /\ pc \in [Callers -> {"idle", "send"}]
    /\ op \in [Callers -> Ops]
    /\ tries \in [Callers -> 0..RetryCount]
    /\ polls \in [Callers -> 0..Attempts - 1]
    /\ ret \in [Callers -> {"none", "ok", "error", "nil", "rejected"}]
    /\ made \in [Callers -> Nat]
    /\ lost \in [Callers -> Nat]
    /\ failed \in [Callers -> Nat]
    /\ hit \in [Callers -> Nat]
    /\ steady \in [Callers -> {"yes", "no"}]
    /\ faults \in Nat /\ calls \in Nat /\ events \in Nat

\* Trying a creation again leaves a second object behind only for an answer the
\* caller did not get to see: one object at most for each answer, seen or not.
\* And a creation reported as failed leaves nothing behind unless the answer to it
\* was lost on the way, replaced by a proxy's 502 or 504, or could not be decoded:
\* only then is a conflict with the name one of the caller's own making.
CreationsAreAccountedFor ==
    \A c \in Callers :
        /\ made[c] <= lost[c] + (IF ret[c] = "ok" THEN 1 ELSE 0)
        /\ pc[c] = "idle" /\ op[c] \in Creates /\ lost[c] = 0 =>
               (ret[c] = "ok" <=> made[c] = 1)

\* When DeleteKubernetes was answered and WaitKubernetesDeleted has returned
\* without error since, the cluster it deleted is gone for good, whatever others
\* create under that name and whichever requests failed in between.
DeletedIsGone ==
    \A c \in Callers :
        op[c] = "waitDeleted" /\ ret[c] = "ok" /\ hit[c] # 0 => cluster.gen # hit[c]

\* A wait survives polls that fail: while what it waits for holds from its
\* beginning on, it ends in an error only if every single poll failed.
WaitToleratesFaults ==
    \A c \in Callers :
        op[c] \in Waits /\ ret[c] = "error" /\ steady[c] = "yes" => failed[c] = Attempts
=============================================================================
