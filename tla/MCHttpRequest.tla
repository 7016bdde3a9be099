--------------------------- MODULE MCHttpRequest ----------------------------
(***************************************************************************)
(* A limit of three units: bodies below, at and above it, declared or sent *)
(* in chunks.                                                              *)
(***************************************************************************)
EXTENDS HttpRequest

MCDeclared == {None} \cup 0..8
MCChunkSizes == 1..2
=============================================================================
