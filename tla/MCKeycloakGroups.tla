-------------------------- MODULE MCKeycloakGroups --------------------------
(* Model-checking instance of KeycloakGroups: two top-level names read in
   pages of one, paths of up to two levels, one of them also in raw form. *)
EXTENDS KeycloakGroups
CONSTANTS c1, c2
MCClients == {c1, c2}
MCPersistent == {c1}
MCNames == 1..3
MCPaths == {<<>>, <<1>>, <<2, 3>>}
MCRawPaths == {<<Blank, 2, 3, Blank>>, <<2, Blank, 3>>, <<Blank>>}
=============================================================================
