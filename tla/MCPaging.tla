------------------------------ MODULE MCPaging ------------------------------
(***************************************************************************)
(* Four conditions from the table; two POSTs that bring a condition between*)
(* them, one of a timestamp that is there with other warnings, and one     *)
(* newer than all, the last two in either order.                           *)
(***************************************************************************)
EXTENDS Paging

At(t, flags) == [ts |-> t, flags |-> flags]

MCSeed == <<At(1, {}), At(3, {"is_dirty"}), At(5, {}), At(6, Flags)>>
MCBatches == {<<At(4, {}), At(5, {"is_dirty"})>>, <<At(7, {"is_dirty"}), At(2, {})>>}
Every == {"info", "warning", "critical"}
MCFirstQuery == [levels |-> Every, start |-> 0, end |-> 8]
MCSearches == {[levels |-> {"info", "critical"}, start |-> 2, end |-> 7]}
=============================================================================
