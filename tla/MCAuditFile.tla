---------------------------- MODULE MCAuditFile ----------------------------
(***************************************************************************)
(* Two generations, records of which one, two or none fit into a file, and *)
(* enough of them to rotate until a generation is deleted.                 *)
(***************************************************************************)
EXTENDS AuditFile

MCSizes == {2, 3, 5}
=============================================================================
