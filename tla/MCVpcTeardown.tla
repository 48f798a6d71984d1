--------------------------- MODULE MCVpcTeardown ----------------------------
(* Model-checking instance of VpcTeardown: two gateways, two route-table
   associations, an ACL, with and without a custom route table and a subnet on
   that ACL, two subnets with an interface each, and a third subnet and interface
   that appear while the teardown runs. *)
EXTENDS VpcTeardown
CONSTANTS ig1, ig2, as1, as2, main, rt1, ac1, dflt, sn1, sn2, sn3, en1, en2, en3
MCIgws == {ig1, ig2}
MCAssocs == {as1, as2}
MCAcls == {ac1}
MCCustomTables == {rt1}
MCSubnets == {sn1, sn2, sn3}
MCEnis == {en1, en2, en3}
MCLate == {sn3, en3}
DefaultAcls == [s \in MCSubnets |-> dflt]
CustomAcl == [s \in MCSubnets |-> IF s = sn1 THEN ac1 ELSE dflt]
MCAclMaps == {DefaultAcls, CustomAcl}
MCSubnetOf == [e \in MCEnis |-> IF e = en1 THEN sn1 ELSE sn2]
=============================================================================
