---------------------------- MODULE MCOpenStack -----------------------------
(* Model-checking instance of OpenStack: one caller looks things up, another
   changes them.  There are three networks, shares and share networks, so that a
   listing takes two pages, and one object of every other kind; a share listing is
   given no limit, one below the page size of the service or one above it; the calls of a behaviour are about kinds
   that depend on each other, or about one kind that does not depend on another; the filter for a name ignores case. *)
EXTENDS OpenStack, TLC
CONSTANTS c1, c2
MCCallers == {c1, c2}
MCUses == c1 :> {"look"} @@ c2 :> {"change"}
MCNames == {"a", "A"}
MCSimilar == [n \in MCNames |-> MCNames]
Single == {"subnet", "router", "port", "securityGroup", "rule",
           "loadBalancer", "flavorProfile", "lbFlavor", "floatingIp", "zone", "record",
           "server", "hypervisor", "image", "flavor", "project", "user", "role",
           "roleAssignment", "domain", "credential", "token", "volumeType", "volume",
           "container", "quota"}
Several == {"network", "share", "shareNetwork"}
MCLimits == {1, 3}
MCIds == [k \in Single \union Several |-> IF k \in Several THEN 1..4 ELSE 1..2]
MCParent == [k \in Single |->
    IF k \in {"subnet", "port", "rule", "record", "roleAssignment", "credential"}
    THEN 1 ELSE 0]
MCTopics ==
    {{"network", "subnet"}, {"network", "port"}, {"subnet", "router"}, {"port", "server"},
     {"port", "floatingIp"},
     {"securityGroup", "rule"}, {"zone", "record"}, {"role", "roleAssignment"},
     {"user", "credential"}} \union
    {{k} : k \in {"shareNetwork", "loadBalancer", "flavorProfile", "lbFlavor", "hypervisor",
                  "image", "flavor", "project", "domain", "token", "volumeType", "volume",
                  "share", "container", "quota"}}
MCStock ==
    {Object(k, i, IF i = 4 THEN "A" ELSE "a", 0) : k \in Several, i \in {1, 3, 4}}
    \union {Object(k, 1, "a", MCParent[k]) : k \in Single}
=============================================================================
