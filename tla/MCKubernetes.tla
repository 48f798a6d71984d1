---------------------------- MODULE MCKubernetes ----------------------------
(* Model-checking instance of Kubernetes.  A service without ports, one with
   the port 8080 only, and one with two ports; two namespaces with a binding of
   one user, and two more, one of them with both users as subjects; manifests
   with a document of every sort. *)
EXTENDS Kubernetes
MCPortTables ==
    {{}, {[target |-> 8080, node |-> 30080]},
     {[target |-> 8080, node |-> 30080], [target |-> 9090, node |-> 30090]}}
B(s, n, us) == [space |-> s, name |-> n, subjects |-> us]
MCBindings ==
    {B("ns1", "u1", {"u1"}), B("ns2", "u1", {"u1"}),
     B("ns2", "u2", {"u2"}), B("ns2", "team", {"u1", "u2"})}
MCRequests == {<<"ns1", "ns2">>, <<"ns2">>}
MCManifests ==
    {<<"first", "second">>, <<"second", "custom", "first">>, <<"first", "clusterwide">>,
     <<"empty", "first">>, <<"first", "malformed">>}
=============================================================================
