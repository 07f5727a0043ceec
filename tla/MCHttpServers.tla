---------------------------- MODULE MCHttpServers ----------------------------
(***************************************************************************)
(* One connection to each server.                                          *)
(***************************************************************************)
EXTENDS HttpServers

MCServerOf == [e |-> "evaluation", w |-> "workbench"]

MCHeader ==
  [host : BOOLEAN, origin : {"none", "self", "other"}, method : {"GET", "POST", "PUT"},
   url : {"/", "/v1/evaluate", "/api/reviews"}, json : BOOLEAN, token : BOOLEAN,
   readable : BOOLEAN, length : {0, BodyLimit + 1}]
=============================================================================
