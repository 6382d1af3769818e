--------------------------- MODULE MCPendingActions ---------------------------
(* Instances of PendingActions for TLC. *)
EXTENDS PendingActions

CONSTANTS ask, approve1, approve2, reject, poll, drop, self, clerk, viewer

\* An agent of an admin, with every scope that matters here.
Agent == [agent |-> TRUE, role |-> "admin", scopes |-> {"write", "approvals"},
          requester |-> TRUE]
Admin == [agent |-> FALSE, role |-> "admin", scopes |-> {}, requester |-> FALSE]
Member == [Admin EXCEPT !.role = "member"]
Viewer == [Admin EXCEPT !.role = "viewer"]

MCOpOf == [r \in Request |->
  CASE r = ask -> "ask" [] r = reject -> "reject" [] r \in {clerk, viewer} -> "cancel"
    [] r = poll -> "getOwnTask" [] r = drop -> "cancelOwnTask"
    [] OTHER -> "approve"]

MCActorOf == [r \in Request |->
  IF r \in {ask, poll, drop, self} THEN Agent
  ELSE IF r = clerk THEN Member ELSE IF r = viewer THEN Viewer ELSE Admin]
=============================================================================
