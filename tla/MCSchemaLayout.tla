--------------------------- MODULE MCSchemaLayout ---------------------------
(***************************************************************************)
(* Instances of SchemaLayout: all schemas of a few messages and fields.    *)
(***************************************************************************)
EXTENDS SchemaLayout
=============================================================================
