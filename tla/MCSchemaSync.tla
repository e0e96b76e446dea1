---------------------------- MODULE MCSchemaSync ----------------------------
(* A rolling deployment: an instance of the old version and one of the new    *)
(* boot against an empty database.                                            *)
EXTENDS SchemaSync

OldPlan == <<[table |-> "t", columns |-> <<"id">>]>>
NewPlan == <<[table |-> "t", columns |-> <<"id", "c">>]>>
MCPlans == [s \in Services |-> IF s = "old" THEN {OldPlan} ELSE {NewPlan}]
MCFirstSchemas == {[t |-> Absent]}
=============================================================================
