---------------------------- MODULE MCPagination ----------------------------
(* Model-checking instance of Pagination: lists of up to five items read in
   pages of two, so that a call takes up to three or four requests and may
   end on a page that is exactly full. *)
EXTENDS Pagination
CONSTANTS i1, i2, i3, i4, i5
FiveItems == {i1, i2, i3, i4, i5}
FullList == <<i1, i2, i3, i4, i5>>
StartLists == {SubSeq(FullList, 1, n) : n \in 0..5}
=============================================================================
