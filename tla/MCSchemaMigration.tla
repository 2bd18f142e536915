------------------------- MODULE MCSchemaMigration -------------------------
(* Instances of SchemaMigration for TLC.                                    *)
EXTENDS SchemaMigration

CONSTANTS p1, p2, p3
=============================================================================
