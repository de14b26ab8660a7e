------------------------- MODULE MCSchemaMigration --------------------------
(* state.db: a process of an old release and two of a new one open it, with  *)
(* the migrations of module "state".                                         *)
EXTENDS SchemaMigration, TLC

CONSTANTS old, new, again

TwoRows == {"row1", "row2"}
ThreeOpeners == {old, new, again}
StateDB == (old :> <<"state1">>) @@ (new :> <<"state1", "state2">>)
              @@ (again :> <<"state1", "state2">>)
=============================================================================
