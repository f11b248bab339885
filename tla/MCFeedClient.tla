----------------------------- MODULE MCFeedClient -----------------------------
(***************************************************************************)
(* A small instance of FeedClient: an index in full mode is planned,       *)
(* other containers ask for it in another mode and for two more            *)
(* instruments, one in each mode.                                          *)
(***************************************************************************)
EXTENDS FeedClient

MCPlan == {<<"index", "full">>}
MCRequests == {{}, {<<"index", "ltpc">>, <<"future", "full">>, <<"option", "ltpc">>}}

===============================================================================
