--------------------------- MODULE MCHttpRequest ---------------------------
EXTENDS HttpRequest

(* Every kind of request there is.                                         *)
EveryKind == AllKinds
=============================================================================
