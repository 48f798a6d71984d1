------------------------- MODULE VpcTeardownProofs --------------------------
(***************************************************************************)
(* Proofs about VpcTeardown, for any VPC: any gateways, associations, ACLs,*)
(* subnets and interfaces, and any number of faults and additions.         *)
(***************************************************************************)
EXTENDS VpcTeardown, TLAPS

\* Every request of an attempt, and everything that disturbs it, keeps the
\* variables in their types.
LEMMA TypeStep == TypeOK /\ [Next]_vars => TypeOK'
  <1> SUFFICES ASSUME TypeOK, [Next]_vars PROVE TypeOK'
      OBVIOUS
  <1> USE DEF TypeOK, Pcs, Items
  <1>1. CASE DeleteVpcCall
      BY <1>1 DEF DeleteVpcCall, resources, shape, loop
  <1>2. CASE RequestFails
      BY <1>2 DEF RequestFails, AnswerLost, Return, resources, shape
  <1>3. CASE detachInternetGateways
    <2>1. CASE DescribeInternetGateways
        BY <2>1 DEF DescribeInternetGateways, Describe, Answered, resources, shape
    <2>2. ASSUME NEW g \in Igws, DetachInternetGateway(g) PROVE TypeOK'
        BY <2>2 DEF DetachInternetGateway, Refuse, AnswerLost, Return, Answered, resources, shape
    <2>3. CASE DeleteInternetGateway
        BY <2>3 DEF DeleteInternetGateway, Refuse, AnswerLost, Return, Answered, resources, shape
    <2>4. CASE LoopDone("igws", "describeRouteTables")
        BY <2>4 DEF LoopDone, resources, shape, loop
    <2> QED
        BY <1>3, <2>1, <2>2, <2>3, <2>4 DEF detachInternetGateways
  <1>4. CASE disassociateRouteTables
    <2>1. CASE DescribeRouteTables
        BY <2>1 DEF DescribeRouteTables, OfVpc, Describe, Answered, resources, shape
    <2>2. CASE SkipMain
        BY <2>2 DEF SkipMain, resources, shape
    <2>3. ASSUME NEW a \in Assocs \union {MainAssoc}, DisassociateRouteTable(a) PROVE TypeOK'
        BY <2>3 DEF DisassociateRouteTable, Refuse, AnswerLost, Return, Answered, resources, shape
    <2>4. CASE LoopDone("routeTables", "describeAcls")
        BY <2>4 DEF LoopDone, resources, shape, loop
    <2> QED
        BY <1>4, <2>1, <2>2, <2>3, <2>4 DEF disassociateRouteTables
  <1>5. CASE deleteNetworkACLs
    <2>1. CASE DescribeNetworkAcls
        BY <2>1 DEF DescribeNetworkAcls, OfVpc, Describe, Answered, resources, shape
    <2>2. CASE SkipDefault
        BY <2>2 DEF SkipDefault, resources, shape
    <2>3. ASSUME NEW a \in Acls \union {DefaultAcl}, DeleteNetworkAcl(a) PROVE TypeOK'
        BY <2>3 DEF DeleteNetworkAcl, Refuse, AnswerLost, Return, Answered, resources, shape
    <2>4. CASE LoopDone("acls", "describeSubnets")
        BY <2>4 DEF LoopDone, resources, shape, loop
    <2> QED
        BY <1>5, <2>1, <2>2, <2>3, <2>4 DEF deleteNetworkACLs
  <1>6. CASE deleteSubnets
    <2>1. CASE DescribeSubnets
        BY <2>1 DEF DescribeSubnets, Describe, Answered, resources, shape
    <2>2. ASSUME NEW s \in Subnets, DescribeNetworkInterfaces(s) PROVE TypeOK'
        BY <2>2 DEF DescribeNetworkInterfaces, Answered, resources, shape
    <2>3. ASSUME NEW e \in Enis, DeleteNetworkInterface(e) PROVE TypeOK'
        BY <2>3 DEF DeleteNetworkInterface, Refuse, AnswerLost, Return, Answered, resources, shape
    <2>4. CASE DeleteSubnet
        BY <2>4 DEF DeleteSubnet, Refuse, AnswerLost, Return, Answered, resources, shape
    <2>5. CASE LoopDone("subnets", "deleteVpc")
        BY <2>5 DEF LoopDone, resources, shape, loop
    <2> QED
        BY <1>6, <2>1, <2>2, <2>3, <2>4, <2>5 DEF deleteSubnets
  <1>7. CASE DeleteVpc
      BY <1>7 DEF DeleteVpc, Refuse, AnswerLost, Return, resources, shape
  <1>8. ASSUME NEW s \in Subnets, AddSubnet(s) PROVE TypeOK'
      BY <1>8 DEF AddSubnet, shape, loop
  <1>9. ASSUME NEW e \in Enis, AddNetworkInterface(e) PROVE TypeOK'
      BY <1>9 DEF AddNetworkInterface, shape, loop
  <1>10. CASE UNCHANGED vars
      BY <1>10 DEF vars, resources, shape, loop
  <1> QED
      BY <1>1, <1>2, <1>3, <1>4, <1>5, <1>6, <1>7, <1>8, <1>9, <1>10
      DEF Next, Attempt

\* The resources, shape of the VPC and the variables of an attempt keep their types.
THEOREM TypeCorrect == Spec => []TypeOK
  <1>1. Init => TypeOK
      BY DEF Init, TypeOK, Pcs
  <1> QED
      BY <1>1, TypeStep, PTL DEF Spec

-----------------------------------------------------------------------------

\* No request and nobody else changes the route tables or the ACLs of subnets.
LEMMA ShapeStays == [Next]_vars => UNCHANGED shape
  <1> SUFFICES ASSUME [Next]_vars PROVE UNCHANGED shape
      OBVIOUS
  <1> USE DEF resources, Describe, LoopDone, Refuse
  <1>1. CASE DeleteVpcCall \/ RequestFails \/ DeleteVpc \/ UNCHANGED vars
      BY <1>1 DEF DeleteVpcCall, RequestFails, DeleteVpc, vars
  <1>2. CASE detachInternetGateways
      BY <1>2 DEF detachInternetGateways, DescribeInternetGateways, DetachInternetGateway,
                  DeleteInternetGateway
  <1>3. CASE disassociateRouteTables
      BY <1>3 DEF disassociateRouteTables, DescribeRouteTables, SkipMain, DisassociateRouteTable
  <1>4. CASE deleteNetworkACLs
      BY <1>4 DEF deleteNetworkACLs, DescribeNetworkAcls, SkipDefault, DeleteNetworkAcl
  <1>5. CASE deleteSubnets
      BY <1>5 DEF deleteSubnets, DescribeSubnets, DescribeNetworkInterfaces,
                  DeleteNetworkInterface, DeleteSubnet
  <1>6. ASSUME NEW s \in Subnets, AddSubnet(s) PROVE UNCHANGED shape
      BY <1>6 DEF AddSubnet
  <1>7. ASSUME NEW e \in Enis, AddNetworkInterface(e) PROVE UNCHANGED shape
      BY <1>7 DEF AddNetworkInterface
  <1> QED
      BY <1>1, <1>2, <1>3, <1>4, <1>5, <1>6, <1>7 DEF Next, Attempt

\* An attempt that ends with an error leaves the invariant in place: nothing
\* is claimed of "idle" except what concerns the resources, shape.
LEMMA InvStep == TypeOK /\ TeardownInv /\ [Next]_vars => TeardownInv'
  <1> SUFFICES ASSUME TypeOK, TeardownInv, [Next]_vars PROVE TeardownInv'
      OBVIOUS
  <1> USE KindsAssumption, TopologyAssumption, FlagAssumption
      DEF TypeOK, Pcs, TeardownInv, LoopItemsExist, LoopsCoverRest, NoDependencies,
          AfterIgws, AfterRouteTables, AfterAcls, Attached, None
  <1>0. /\ tables' = tables /\ aclOf' = aclOf
        /\ Removable' <=> Removable
        /\ Removable => tables = {}
    <2>1. tables' = tables /\ aclOf' = aclOf
        BY ShapeStays DEF shape
    <2> QED
        BY <2>1 DEF Removable, AclsFree
  <1> USE <1>0
  <1>1. CASE DeleteVpcCall
      BY <1>1 DEF DeleteVpcCall, resources, shape, loop
  <1>2. CASE RequestFails
      BY <1>2 DEF RequestFails, AnswerLost, Return, resources, shape
  <1>3. CASE detachInternetGateways
    <2>1. CASE DescribeInternetGateways
        BY <2>1 DEF DescribeInternetGateways, Describe, Answered, resources, shape
    <2>2. ASSUME NEW g \in Igws, DetachInternetGateway(g) PROVE TeardownInv'
        BY <2>2 DEF DetachInternetGateway, Refuse, AnswerLost, Return, Answered, resources, shape
    <2>3. CASE DeleteInternetGateway
        BY <2>3 DEF DeleteInternetGateway, Refuse, AnswerLost, Return, Answered, resources, shape
    <2>4. CASE LoopDone("igws", "describeRouteTables")
        BY <2>4 DEF LoopDone, resources, shape, loop
    <2> QED
        BY <1>3, <2>1, <2>2, <2>3, <2>4 DEF detachInternetGateways
  <1>4. CASE disassociateRouteTables
    <2>1. CASE DescribeRouteTables
        BY <2>1 DEF DescribeRouteTables, OfVpc, Describe, Answered, resources, shape
    <2>2. CASE SkipMain
        BY <2>2 DEF SkipMain, resources, shape
    <2>3. ASSUME NEW a \in Assocs \union {MainAssoc}, DisassociateRouteTable(a)
          PROVE  TeardownInv'
        BY <2>3 DEF DisassociateRouteTable, Refuse, AnswerLost, Return, Answered, resources, shape
    <2>4. CASE LoopDone("routeTables", "describeAcls")
        BY <2>4 DEF LoopDone, resources, shape, loop
    <2> QED
        BY <1>4, <2>1, <2>2, <2>3, <2>4 DEF disassociateRouteTables
  <1>5. CASE deleteNetworkACLs
    <2>1. CASE DescribeNetworkAcls
        BY <2>1 DEF DescribeNetworkAcls, OfVpc, Describe, Answered, resources, shape
    <2>2. CASE SkipDefault
        BY <2>2 DEF SkipDefault, resources, shape
    <2>3. ASSUME NEW a \in Acls \union {DefaultAcl}, DeleteNetworkAcl(a)
          PROVE  TeardownInv'
        BY <2>3 DEF DeleteNetworkAcl, AclDeletable, Removable, AclsFree, Refuse, AnswerLost,
                    Return, Answered, resources, shape
    <2>4. CASE LoopDone("acls", "describeSubnets")
        BY <2>4 DEF LoopDone, resources, shape, loop
    <2> QED
        BY <1>5, <2>1, <2>2, <2>3, <2>4 DEF deleteNetworkACLs
  <1>6. CASE deleteSubnets
    <2>1. CASE DescribeSubnets
        BY <2>1 DEF DescribeSubnets, Describe, Answered, resources, shape
    <2>2. ASSUME NEW s \in Subnets, DescribeNetworkInterfaces(s) PROVE TeardownInv'
        BY <2>2 DEF DescribeNetworkInterfaces, Answered, resources, shape
    <2>3. ASSUME NEW e \in Enis, DeleteNetworkInterface(e) PROVE TeardownInv'
        BY <2>3 DEF DeleteNetworkInterface, Refuse, AnswerLost, Return, Answered, resources, shape
    <2>4. CASE DeleteSubnet
        BY <2>4 DEF DeleteSubnet, SubnetDeletable, Refuse, AnswerLost, Return,
                    Answered, resources, shape
    <2>5. CASE LoopDone("subnets", "deleteVpc")
        BY <2>5 DEF LoopDone, resources, shape, loop
    <2> QED
        BY <1>6, <2>1, <2>2, <2>3, <2>4, <2>5 DEF deleteSubnets
  <1>7. CASE DeleteVpc
      BY <1>7 DEF DeleteVpc, VpcDeletable, Refuse, AnswerLost, Return, resources, shape
  <1>8. ASSUME NEW s \in Subnets, AddSubnet(s) PROVE TeardownInv'
      BY <1>8 DEF AddSubnet, shape, loop
  <1>9. ASSUME NEW e \in Enis, AddNetworkInterface(e) PROVE TeardownInv'
      BY <1>9 DEF AddNetworkInterface, shape, loop
  <1>10. CASE UNCHANGED vars
      BY <1>10 DEF vars, resources, shape, loop
  <1> QED
      BY <1>1, <1>2, <1>3, <1>4, <1>5, <1>6, <1>7, <1>8, <1>9, <1>10
      DEF Next, Attempt

\* What a loop still has to do covers what is left of its kind.
THEOREM TeardownInvariant == Spec => [](TypeOK /\ TeardownInv)
  <1>1. Init => TypeOK /\ TeardownInv
      BY DEF Init, TypeOK, Pcs, TeardownInv, LoopItemsExist, LoopsCoverRest,
             AfterIgws, AfterRouteTables, AfterAcls, None
  <1>2. (TypeOK /\ TeardownInv) /\ [Next]_vars => (TypeOK /\ TeardownInv)'
      BY TypeStep, InvStep
  <1> QED
      BY <1>1, <1>2, PTL DEF Spec

\* An undisturbed attempt is never turned down by EC2, whatever the attempts
\* before it left half done, if the VPC has
\* neither custom route tables nor subnets that hold on to an ACL.
THEOREM QuietAttempt == Spec => []QuietAttemptNotRefused
  <1>1. TeardownInv => QuietAttemptNotRefused
      BY DEF TeardownInv, QuietAttemptNotRefused
  <1> QED
      BY <1>1, TeardownInvariant, PTL

\* An ACL that a subnet uses holds up the attempt before the subnets' turn.
HeldInv ==
    AclInUseRefused => \A s \in Subnets :
        aclOf[s] # DefaultAcl => s \in subnets /\ aclOf[s] \in acls

LEMMA HeldStep ==
  ASSUME TypeOK, TeardownInv, HeldInv, [Next]_vars
  PROVE  HeldInv'
  <1> SUFFICES ASSUME AclInUseRefused, NEW s \in Subnets, aclOf'[s] # DefaultAcl
               PROVE  s \in subnets' /\ aclOf'[s] \in acls'
      BY DEF HeldInv
  <1>1. aclOf' = aclOf
      BY ShapeStays DEF shape
  <1>2. s \in subnets /\ aclOf[s] \in acls /\ acls # {}
      BY <1>1 DEF HeldInv
  <1>3. pc \in Pcs /\ pc \notin AfterAcls
      BY <1>2 DEF TypeOK, TeardownInv, LoopsCoverRest
  <1>4. CASE UNCHANGED <<subnets, acls>>
      BY <1>1, <1>2, <1>4
  <1>5. ASSUME NEW a, DeleteNetworkAcl(a) PROVE s \in subnets' /\ aclOf'[s] \in acls'
      BY <1>1, <1>2, <1>5 DEF DeleteNetworkAcl, AclDeletable, Refuse, resources
  <1>6. CASE DeleteSubnet
      BY <1>3, <1>6 DEF DeleteSubnet, AfterAcls, AfterRouteTables, AfterIgws
  <1>7. ASSUME NEW t \in Subnets, AddSubnet(t) PROVE s \in subnets' /\ aclOf'[s] \in acls'
      BY <1>1, <1>2, <1>7 DEF AddSubnet
  <1>8. ASSUME NEW e, DeleteNetworkInterface(e) \/ AddNetworkInterface(e)
        PROVE  UNCHANGED <<subnets, acls>>
      BY <1>8 DEF DeleteNetworkInterface, AddNetworkInterface, Refuse, resources
  <1>9. CASE DeleteVpcCall \/ RequestFails \/ DeleteVpc \/ UNCHANGED vars
      BY <1>4, <1>9 DEF DeleteVpcCall, RequestFails, DeleteVpc, Refuse, vars, resources
  <1>10. CASE detachInternetGateways \/ disassociateRouteTables
    <2>1. ASSUME NEW g, DetachInternetGateway(g) \/ DisassociateRouteTable(g)
          PROVE  UNCHANGED <<subnets, acls>>
        BY <2>1 DEF DetachInternetGateway, DisassociateRouteTable, Refuse, resources
    <2>2. ASSUME DeleteInternetGateway \/ SkipMain PROVE UNCHANGED <<subnets, acls>>
        BY <2>2 DEF DeleteInternetGateway, SkipMain, Refuse, resources
    <2> QED
        BY <1>4, <1>10, <2>1, <2>2
           DEF detachInternetGateways, disassociateRouteTables, DescribeInternetGateways,
               DescribeRouteTables, Describe, LoopDone, resources
  <1>11. CASE deleteNetworkACLs
      BY <1>4, <1>5, <1>11
         DEF deleteNetworkACLs, DescribeNetworkAcls, SkipDefault, Describe, LoopDone, resources
  <1>12. CASE deleteSubnets
      BY <1>4, <1>6, <1>8, <1>12
         DEF deleteSubnets, DescribeSubnets, DescribeNetworkInterfaces, Describe, LoopDone, resources
  <1> QED
      BY <1>4, <1>7, <1>8, <1>9, <1>10, <1>11, <1>12 DEF Next, Attempt

\* However often it is called, DeleteVpc never removes a VPC that has a custom
\* route table, or a subnet on a network ACL of its own that EC2 will not delete
\* under it.
THEOREM UnremovableStays == Spec => [](~Removable => vpc = "present")
  <1>1. Init => HeldInv
      BY TopologyAssumption DEF Init, HeldInv
  <1>2. (TypeOK /\ TeardownInv) /\ HeldInv /\ [Next]_vars => HeldInv'
      BY HeldStep
  <1>3. (TypeOK /\ TeardownInv) /\ HeldInv => (~Removable => vpc = "present")
      BY DEF TypeOK, TeardownInv, NoDependencies, HeldInv, Removable, AclsFree
  <1> QED
      BY <1>1, <1>2, <1>3, TeardownInvariant, PTL DEF Spec

\* Without a failed request no gateway outlives the VPC.
THEOREM OrphansNeedFaults == Spec => []OrphanNeedsFault
  <1>1. TypeOK /\ TeardownInv => OrphanNeedsFault
      BY DEF TypeOK, TeardownInv, LoopItemsExist, NoDependencies, OrphanNeedsFault
  <1> QED
      BY <1>1, TeardownInvariant, PTL
=============================================================================
