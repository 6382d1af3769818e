----------------------------- MODULE MCAgentAccess -----------------------------
(* Instances of AgentAccess for TLC. *)
EXTENDS AgentAccess

CONSTANTS boss, aide, k1, k2,
          tool, stdio, task, review, mint, narrow, revoke, disable, enable, demote, remove,
          leave, password, wipe, agree, peek

MCSurface == [r \in Request |->
  CASE r \in {tool, task, wipe, peek} -> "http" [] r = stdio -> "stdio" [] OTHER -> "web"]

\* k1 is the aide's key from the start, k2 the key the aide creates.
MCCaller == [r \in Request |->
  CASE r \in {tool, stdio, task, wipe} -> k1
    [] r = peek -> k2
    [] r \in {mint, narrow, leave, password} -> aide
    [] OTHER -> boss]

MCCall == [r \in Request |->
  CASE r = tool -> [op |-> "company.delete"]
    [] r = stdio -> [op |-> "bulk.archive"]
    [] r = task -> [op |-> "pendingAction.cancelOwnTask", of |-> tool]
    [] r = peek -> [op |-> "pendingAction.getOwnTask", of |-> tool]
    [] r = review -> [op |-> "pendingAction.approve", of |-> tool]
    [] r = mint -> [op |-> "mcpClient.create", key |-> k2, scopes |-> {"read", "write"},
                    trust |-> "trusted_agent"]
    [] r = narrow -> [op |-> "mcpClient.update", key |-> k1, scopes |-> {"read"}]
    [] r = revoke -> [op |-> "mcpClient.revoke", key |-> k1]
    [] r = disable -> [op |-> "user.update", user |-> aide, to |-> "disabled"]
    [] r = enable -> [op |-> "user.update", user |-> aide, to |-> "enabled"]
    [] r = demote -> [op |-> "user.update", user |-> aide, to |-> "member"]
    [] r = remove -> [op |-> "user.delete", user |-> aide]
    [] r = leave -> [op |-> "user.delete", user |-> aide]
    [] r = wipe -> [op |-> "user.delete", user |-> aide]
    [] r = agree -> [op |-> "pendingAction.approve", of |-> wipe]
    [] r = password -> [op |-> "changePassword"]]

\* A mix for each hazard: keys that end while they are used or changed, tasks
\* that are asked for, reviewed and dropped, keys that are made while their user
\* goes, roles that change, users who leave.
MCMixes == {
  {tool, narrow, disable}, {narrow, disable, enable}, {stdio, narrow, revoke},
  {stdio, wipe, demote}, {tool, task, review}, {tool, mint, peek}, {tool, task, remove},
  {mint, narrow, remove}, {mint, disable, enable}, {leave, narrow, demote},
  {wipe, agree, remove}, {tool, stdio, password}}

\* The aide is an administrator or a member, whose agent may do what it may.
MCInit ==
  /\ user \in [User -> [status : {"active"}, role : {"member", "admin", "owner"}]]
  /\ key \in [Key -> [creator : {aide}, scopes : {Grantable[user[aide].role]},
                      trust : {"trusted_agent", "fully_authorized_agent"},
                      revoked : {FALSE}] \cup {None}]
  /\ key[k1] # None /\ key[k2] = None
  /\ forced \in {{}, {aide}}
  /\ Init

MCSpec == MCInit /\ [][Next]_vars
=============================================================================
