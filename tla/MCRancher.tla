----------------------------- MODULE MCRancher ------------------------------
(* Model-checking instance of Rancher: one caller takes clusters through their
   life while another creates one, too, and uses everything else; one
   repetition of a request, two polls of a wait. *)
EXTENDS Rancher, TLC
CONSTANTS c1, c2
MCCallers == {c1, c2}
Life == {"cluster", "delete", "waitActive", "waitDeleted"}
MCUses == c1 :> Life @@ c2 :> (Ops \ {"none", "delete", "waitActive", "waitDeleted"})
=============================================================================
