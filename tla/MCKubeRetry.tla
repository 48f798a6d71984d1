---------------------------- MODULE MCKubeRetry -----------------------------
(* Model-checking instance of KubeRetry: a service without ports, one with
   the port 8080 only, and one with two ports. *)
EXTENDS KubeRetry
MCPortTables ==
    {{}, {[target |-> 8080, node |-> 30080]},
     {[target |-> 8080, node |-> 30080], [target |-> 9090, node |-> 30090]}}
=============================================================================
