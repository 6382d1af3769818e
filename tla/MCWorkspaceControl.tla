------------------------- MODULE MCWorkspaceControl -------------------------
(* Instances of WorkspaceControl for TLC. *)
EXTENDS WorkspaceControl

CONSTANTS u1, u2, u3

\* Guarded and unguarded requests on the versions a workspace starts from,
\* and every CRM operation, on every user.
MCOp ==
  [op : {"access"}, user : {None}, want : Mode, expected : {None, 0, 1}]
    \cup [op : {"transfer"}, user : User, want : {None}, expected : {None, 1}]
    \cup [op : {"inspect", "delete"}, user : {None}, want : {None}, expected : {None}]
    \cup [op : {"update"}, user : User, want : {"member", "disable", "enable"},
          expected : {None}]
    \cup [op : {"remove", "hand_over", "activate"}, user : User, want : {None},
          expected : {None}]
=============================================================================
