---------------------------- MODULE VpcTeardown -----------------------------
(***************************************************************************)
(* Ec2Helper.DeleteVpc of pkg/aws: the dependencies of a VPC are described *)
(* and removed kind by kind, then the VPC itself; the first error abandons *)
(* the attempt and the caller tries again.  Every request may fail before  *)
(* or after it took effect, and other users of the account may add         *)
(* subnets and network interfaces while an attempt runs.                   *)
(***************************************************************************)
EXTENDS Naturals

CONSTANTS
    Igws,           \* internet gateways attached to the VPC at first
    Assocs,         \* route-table associations that are not the main one
    MainAssoc,      \* the main route-table association
    Acls,           \* network ACLs that are not the default one
    DefaultAcl,     \* the default network ACL
    Subnets,        \* subnets the VPC has at some time
    Enis,           \* network interfaces it has at some time
    AclMaps,        \* the ways in which subnets may use the network ACLs
    CustomTables,   \* route tables, beside the main one, that it may have
    SubnetOf,       \* the subnet each network interface is in
    Late,           \* the subnets and interfaces that are only added later
    AclInUseRefused,\* does EC2 refuse to delete an ACL that a subnet uses?
    MaxFaults       \* bound: requests that fail although EC2 is sound

ASSUME KindsAssumption ==
    /\ MainAssoc \notin Assocs
    /\ DefaultAcl \notin Acls
    /\ Late \subseteq Subnets \union Enis
ASSUME TopologyAssumption ==
    /\ AclMaps \subseteq [Subnets -> Acls \union {DefaultAcl}]
    \* A new subnet is on the default ACL.
    /\ \A m \in AclMaps, s \in Subnets : s \in Late => m[s] = DefaultAcl
    /\ SubnetOf \in [Enis -> Subnets]
    /\ \A e \in Enis \ Late : SubnetOf[e] \notin Late
ASSUME FlagAssumption == AclInUseRefused \in BOOLEAN
ASSUME BoundAssumption == MaxFaults \in Nat

VARIABLES
    vpc,        \* "present" or "gone"
    igw,        \* each gateway: "attached", "detached" or "deleted"
    assocs,     \* the non-main associations in place
    acls,       \* the non-default ACLs in place
    subnets,    \* the subnets in place
    enis,       \* the network interfaces in place
    tables,     \* the custom route tables; no request of DeleteVpc is about them
    aclOf,      \* the network ACL each subnet uses
    late,       \* what may still be added by others
    pc,         \* the request the attempt makes next
    todo,       \* the described items the loop has not handled yet
    item,       \* the gateway or subnet the loop body is at
    eniTodo,    \* the described interfaces of that subnet not handled yet
    ret,        \* the outcome of the latest attempt
    faults,     \* faults so far
    disturbed   \* history: faults and additions since the attempt began

shape == <<tables, aclOf>>
resources == <<vpc, igw, assocs, acls, subnets, enis, shape>>
loop == <<todo, item, eniTodo>>
vars == <<resources, late, pc, loop, ret, faults, disturbed>>

None == "none"

Init ==
    /\ vpc = "present"
    /\ igw = [g \in Igws |-> "attached"]
    /\ assocs = Assocs
    /\ acls = Acls
    /\ subnets = Subnets \ Late
    /\ enis = Enis \ Late
    /\ tables \in SUBSET CustomTables
    /\ aclOf \in AclMaps
    /\ late = Late
    /\ pc = "idle"
    /\ todo = {}
    /\ item = None
    /\ eniTodo = {}
    /\ ret = None
    /\ faults = 0
    /\ disturbed = 0

-----------------------------------------------------------------------------

\* DeleteVpc is called, for the first time or after a failed attempt.
DeleteVpcCall ==
    /\ pc = "idle"
    /\ ret # "ok"
    /\ pc' = "describeIgws"
    /\ ret' = None
    /\ disturbed' = 0
    /\ UNCHANGED <<resources, late, loop, faults>>

\* The attempt ends; its loop variables go out of scope.
Return(r) ==
    /\ pc' = "idle"
    /\ ret' = r
    /\ todo' = {}
    /\ item' = None
    /\ eniTodo' = {}

\* The answer to a request that took effect is an error (time-out, 5xx).
AnswerLost ==
    /\ faults < MaxFaults
    /\ faults' = faults + 1
    /\ disturbed' = disturbed + 1
    /\ Return("failed")

Answered == UNCHANGED <<ret, faults, disturbed>>

RequestPending ==
    \/ pc \in {"describeIgws", "deleteIgw", "describeRouteTables", "describeAcls",
               "describeSubnets", "enis", "deleteVpc"}
    \/ pc \in {"igws", "subnets"} /\ todo # {}
    \/ pc = "routeTables" /\ todo \ {MainAssoc} # {}
    \/ pc = "acls" /\ todo \ {DefaultAcl} # {}

\* A request fails without effect.
RequestFails ==
    /\ RequestPending
    /\ AnswerLost
    /\ UNCHANGED <<resources, late>>

\* EC2 turns a request down.
Refuse ==
    /\ Return("refused")
    /\ UNCHANGED <<resources, late, faults, disturbed>>

\* A Describe request: what it returns is worked off item by item.
Describe(p, next, found) ==
    /\ pc = p
    /\ pc' = next
    /\ todo' = found
    /\ Answered
    /\ UNCHANGED <<resources, late, item, eniTodo>>

\* What EC2 creates with the VPC and removes with it.
OfVpc(x) == IF vpc = "present" THEN {x} ELSE {}

\* A range loop over the described items is over.
LoopDone(p, next) ==
    /\ pc = p
    /\ todo = {}
    /\ pc' = next
    /\ UNCHANGED <<resources, late, loop, ret, faults, disturbed>>

-----------------------------------------------------------------------------
(* detachInternetGateways *)

DescribeInternetGateways ==
    Describe("describeIgws", "igws", {g \in Igws : igw[g] = "attached"})

DetachInternetGateway(g) ==
    /\ pc = "igws"
    /\ g \in todo
    /\ \/ /\ igw[g] = "attached"
          /\ igw' = [igw EXCEPT ![g] = "detached"]
          /\ \/ /\ pc' = "deleteIgw"
                /\ todo' = todo \ {g}
                /\ item' = g
                /\ UNCHANGED eniTodo
                /\ Answered
             \/ AnswerLost
          /\ UNCHANGED <<vpc, assocs, acls, subnets, enis, late, shape>>
       \/ igw[g] # "attached" /\ Refuse

\* Faulty variant: gateways are detached only.
DeleteInternetGatewaySkipped ==
    /\ pc = "deleteIgw"
    /\ pc' = "igws"
    /\ item' = None
    /\ UNCHANGED <<resources, late, todo, eniTodo, ret, faults, disturbed>>

DeleteInternetGateway ==
    /\ pc = "deleteIgw"
    /\ \/ /\ igw[item] = "detached"
          /\ igw' = [igw EXCEPT ![item] = "deleted"]
          /\ \/ /\ pc' = "igws"
                /\ item' = None
                /\ UNCHANGED <<todo, eniTodo>>
                /\ Answered
             \/ AnswerLost
          /\ UNCHANGED <<vpc, assocs, acls, subnets, enis, late, shape>>
       \/ igw[item] # "detached" /\ Refuse

detachInternetGateways ==
    \/ DescribeInternetGateways
    \/ \E g \in Igws : DetachInternetGateway(g)
    \/ DeleteInternetGateway
    \/ LoopDone("igws", "describeRouteTables")

-----------------------------------------------------------------------------
(* disassociateRouteTables: the main association is skipped. *)

DescribeRouteTables ==
    Describe("describeRouteTables", "routeTables", assocs \union OfVpc(MainAssoc))

SkipMain ==
    /\ pc = "routeTables"
    /\ MainAssoc \in todo
    /\ todo' = todo \ {MainAssoc}
    /\ UNCHANGED <<resources, late, pc, item, eniTodo, ret, faults, disturbed>>

\* Faulty variant: the main association is not skipped.
DisassociateAlsoMain(a) ==
    /\ pc = "routeTables"
    /\ a \in todo
    /\ \/ /\ a \in assocs
          /\ assocs' = assocs \ {a}
          /\ \/ /\ todo' = todo \ {a}
                /\ UNCHANGED <<pc, item, eniTodo>>
                /\ Answered
             \/ AnswerLost
          /\ UNCHANGED <<vpc, igw, acls, subnets, enis, late, shape>>
       \/ a \notin assocs /\ Refuse

DisassociateRouteTable(a) ==
    /\ pc = "routeTables"
    /\ a \in todo
    /\ a # MainAssoc
    /\ \/ /\ a \in assocs
          /\ assocs' = assocs \ {a}
          /\ \/ /\ todo' = todo \ {a}
                /\ UNCHANGED <<pc, item, eniTodo>>
                /\ Answered
             \/ AnswerLost
          /\ UNCHANGED <<vpc, igw, acls, subnets, enis, late, shape>>
       \/ a \notin assocs /\ Refuse

disassociateRouteTables ==
    \/ DescribeRouteTables
    \/ SkipMain
    \/ \E a \in Assocs \union {MainAssoc} : DisassociateRouteTable(a)
    \/ LoopDone("routeTables", "describeAcls")

-----------------------------------------------------------------------------
(* deleteNetworkACLs: the default ACL is skipped. *)

DescribeNetworkAcls ==
    Describe("describeAcls", "acls", acls \union OfVpc(DefaultAcl))

SkipDefault ==
    /\ pc = "acls"
    /\ DefaultAcl \in todo
    /\ todo' = todo \ {DefaultAcl}
    /\ UNCHANGED <<resources, late, pc, item, eniTodo, ret, faults, disturbed>>

AclDeletable(a) ==
    /\ a \in acls
    /\ AclInUseRefused => \A s \in subnets : aclOf[s] # a

DeleteNetworkAcl(a) ==
    /\ pc = "acls"
    /\ a \in todo
    /\ a # DefaultAcl
    /\ \/ /\ AclDeletable(a)
          /\ acls' = acls \ {a}
          /\ \/ /\ todo' = todo \ {a}
                /\ UNCHANGED <<pc, item, eniTodo>>
                /\ Answered
             \/ AnswerLost
          /\ UNCHANGED <<vpc, igw, assocs, subnets, enis, late, shape>>
       \/ ~AclDeletable(a) /\ Refuse

deleteNetworkACLs ==
    \/ DescribeNetworkAcls
    \/ SkipDefault
    \/ \E a \in Acls \union {DefaultAcl} : DeleteNetworkAcl(a)
    \/ LoopDone("acls", "describeSubnets")

-----------------------------------------------------------------------------
(* deleteSubnets: the network interfaces of a subnet, then the subnet. *)

DescribeSubnets == Describe("describeSubnets", "subnets", subnets)

DescribeNetworkInterfaces(s) ==
    /\ pc = "subnets"
    /\ s \in todo
    /\ item' = s
    /\ todo' = todo \ {s}
    /\ eniTodo' = {e \in enis : SubnetOf[e] = s}
    /\ pc' = "enis"
    /\ Answered
    /\ UNCHANGED <<resources, late>>

DeleteNetworkInterface(e) ==
    /\ pc = "enis"
    /\ e \in eniTodo
    /\ \/ /\ e \in enis
          /\ enis' = enis \ {e}
          /\ \/ /\ eniTodo' = eniTodo \ {e}
                /\ UNCHANGED <<pc, todo, item>>
                /\ Answered
             \/ AnswerLost
          /\ UNCHANGED <<vpc, igw, assocs, acls, subnets, late, shape>>
       \/ e \notin enis /\ Refuse

SubnetDeletable(s) == s \in subnets /\ \A e \in enis : SubnetOf[e] # s

\* Faulty variant: the subnet goes before its interfaces.
DeleteSubnetFirst ==
    /\ pc = "enis"
    /\ \/ /\ SubnetDeletable(item)
          /\ subnets' = subnets \ {item}
          /\ \/ /\ pc' = "subnets"
                /\ item' = None
                /\ eniTodo' = {}
                /\ UNCHANGED todo
                /\ Answered
             \/ AnswerLost
          /\ UNCHANGED <<vpc, igw, assocs, acls, enis, late, shape>>
       \/ ~SubnetDeletable(item) /\ Refuse

DeleteSubnet ==
    /\ pc = "enis"
    /\ eniTodo = {}
    /\ \/ /\ SubnetDeletable(item)
          /\ subnets' = subnets \ {item}
          /\ \/ /\ pc' = "subnets"
                /\ item' = None
                /\ UNCHANGED <<todo, eniTodo>>
                /\ Answered
             \/ AnswerLost
          /\ UNCHANGED <<vpc, igw, assocs, acls, enis, late, shape>>
       \/ ~SubnetDeletable(item) /\ Refuse

deleteSubnets ==
    \/ DescribeSubnets
    \/ \E s \in Subnets : DescribeNetworkInterfaces(s)
    \/ \E e \in Enis : DeleteNetworkInterface(e)
    \/ DeleteSubnet
    \/ LoopDone("subnets", "deleteVpc")

-----------------------------------------------------------------------------

\* EC2 does not cascade: a VPC goes only when these are gone.  The association
\* of a subnet with a route table is not the table: a subnet may be associated
\* with the main one explicitly, and a custom table without any association
\* still keeps the VPC.  (So do security groups and endpoints, which DeleteVpc
\* leaves to its caller; a custom table stands for them, too.)
NoDependencies ==
    /\ \A g \in Igws : igw[g] # "attached"
    /\ assocs = {}
    /\ acls = {}
    /\ subnets = {}
    /\ tables = {}

VpcDeletable == vpc = "present" /\ NoDependencies

\* The last request.  When only its answer was lost, the next attempt is told
\* that there is no such VPC.
DeleteVpc ==
    /\ pc = "deleteVpc"
    /\ \/ /\ VpcDeletable
          /\ vpc' = "gone"
          /\ \/ Return("ok") /\ UNCHANGED <<faults, disturbed>>
             \/ AnswerLost
          /\ UNCHANGED <<igw, assocs, acls, subnets, enis, late, shape>>
       \/ ~VpcDeletable /\ Refuse

\* Others add a subnet, or an interface in a subnet that is there.
AddSubnet(s) ==
    /\ s \in late
    /\ vpc = "present"
    /\ late' = late \ {s}
    /\ subnets' = subnets \union {s}
    /\ disturbed' = disturbed + 1
    /\ UNCHANGED <<vpc, igw, assocs, acls, enis, shape, pc, loop, ret, faults>>

AddNetworkInterface(e) ==
    /\ e \in late
    /\ SubnetOf[e] \in subnets
    /\ late' = late \ {e}
    /\ enis' = enis \union {e}
    /\ disturbed' = disturbed + 1
    /\ UNCHANGED <<vpc, igw, assocs, acls, subnets, shape, pc, loop, ret, faults>>

Attempt ==
    \/ detachInternetGateways
    \/ disassociateRouteTables
    \/ deleteNetworkACLs
    \/ deleteSubnets
    \/ DeleteVpc

Next ==
    \/ DeleteVpcCall
    \/ Attempt
    \/ RequestFails
    \/ \E s \in Subnets : AddSubnet(s)
    \/ \E e \in Enis : AddNetworkInterface(e)

Spec == Init /\ [][Next]_vars

\* The caller tries again as long as the VPC is there, and an attempt runs on.
RetrySpec == Spec /\ WF_vars(DeleteVpcCall /\ vpc = "present") /\ WF_vars(Attempt)

-----------------------------------------------------------------------------

Pcs == {"idle", "describeIgws", "igws", "deleteIgw", "describeRouteTables",
        "routeTables", "describeAcls", "acls", "describeSubnets", "subnets",
        "enis", "deleteVpc"}

Items == Igws \union Assocs \union {MainAssoc} \union Acls \union {DefaultAcl}
         \union Subnets

\* Every loop ranges over resources of its own kind, through all failures and
\* retries of DeleteVpc.
TypeOK ==
    /\ vpc \in {"present", "gone"}
    /\ igw \in [Igws -> {"attached", "detached", "deleted"}]
    /\ assocs \subseteq Assocs
    /\ acls \subseteq Acls
    /\ subnets \subseteq Subnets
    /\ enis \subseteq Enis
    /\ tables \subseteq CustomTables
    /\ aclOf \in AclMaps
    /\ late \subseteq Late
    /\ pc \in Pcs
    /\ todo \subseteq Items
    /\ item \in Igws \union Subnets \union {None}
    /\ eniTodo \subseteq Enis
    /\ ret \in {None, "ok", "refused", "failed"}
    /\ faults \in Nat
    /\ disturbed \in Nat

\* No subnet keeps EC2 from deleting an ACL.
AclsFree == ~AclInUseRefused \/ \A s \in Subnets : aclOf[s] = DefaultAcl

\* The VPCs that the sequence of requests in DeleteVpc can remove at all: those
\* without a custom route table, which nothing deletes, and without a subnet on
\* an ACL of its own, which is to go before the subnet does.
Removable == tables = {} /\ AclsFree

\* An attempt on such a VPC during which no request failed and nothing was added
\* is never turned down by EC2, whatever earlier attempts left half done: each
\* step leaves what the later ones need.  (The one exception, a VPC that is gone
\* already, follows a lost answer.)
QuietAttemptNotRefused ==
    Removable /\ disturbed = 0 /\ vpc = "present" => ret # "refused"

\* A gateway that outlives the VPC is the trace of a failed request.
OrphanNeedsFault ==
    faults = 0 /\ vpc = "gone" => \A g \in Igws : igw[g] = "deleted"

\* What the comment of DeleteVpc promises: the gateways are among the
\* dependencies it tears down before it removes the VPC.
NoOrphanGateway ==
    vpc = "gone" => \A g \in Igws : igw[g] = "deleted"

\* What a caller gets who tries again after each failure, once faults and
\* additions stop: it gets rid of the VPC, unless the VPC has a custom route
\* table or a subnet on an ACL of its own.  Then no attempt ever succeeds, however
\* often it is made, although the comment of DeleteVpc counts the network ACLs
\* among what it tears down.
RetriesRemoveVpc ==
    /\ Removable => <>(vpc = "gone")
    /\ ~Removable => [](vpc = "present")

-----------------------------------------------------------------------------
(* The inductive invariant: what each loop still has to do covers what is
   left of its kind, and earlier kinds stay empty unless disturbed. *)

AfterIgws == Pcs \ {"idle", "describeIgws", "igws", "deleteIgw"}
AfterRouteTables == AfterIgws \ {"describeRouteTables", "routeTables"}
AfterAcls == AfterRouteTables \ {"describeAcls", "acls"}

Attached == {g \in Igws : igw[g] = "attached"}

LoopItemsExist ==
    /\ pc = "igws" => todo \subseteq Attached
    /\ pc = "deleteIgw" =>
           todo \subseteq Attached /\ item \in Igws /\ igw[item] = "detached"
    /\ pc = "routeTables" => todo \subseteq assocs \union {MainAssoc}
    /\ pc = "acls" => todo \subseteq acls \union {DefaultAcl}
    /\ pc = "subnets" => todo \subseteq subnets
    /\ pc = "enis" =>
           /\ todo \subseteq subnets
           /\ item \in subnets
           /\ item \notin todo
           /\ eniTodo \subseteq {e \in enis : SubnetOf[e] = item}

LoopsCoverRest ==
    /\ pc \in {"igws", "deleteIgw"} => Attached \subseteq todo
    /\ pc \in AfterIgws => Attached = {}
    /\ pc = "routeTables" => assocs \subseteq todo
    /\ pc \in AfterRouteTables => assocs = {}
    /\ pc = "acls" => acls \subseteq todo
    /\ pc \in AfterAcls => acls = {}
    /\ disturbed = 0 =>
        /\ pc = "subnets" => subnets \subseteq todo
        /\ pc = "enis" =>
               /\ subnets \subseteq todo \union {item}
               /\ {e \in enis : SubnetOf[e] = item} \subseteq eniTodo
        /\ pc = "deleteVpc" => subnets = {}

\* Together: at every request of every attempt the loops cover what is left of
\* their kind, and a gateway is detached but not deleted only in between its two
\* requests, unless a request failed.
TeardownInv ==
    /\ LoopItemsExist
    /\ LoopsCoverRest
    /\ disturbed = 0 /\ Removable /\ vpc = "present" => ret # "refused"
    /\ vpc = "gone" => NoDependencies
    /\ vpc = "gone" /\ faults = 0 => pc = "idle" /\ ret = "ok"
    /\ faults = 0 => \A g \in Igws :
           igw[g] = "detached" => pc = "deleteIgw" /\ item = g
=============================================================================
