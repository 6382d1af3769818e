---------------------------- MODULE MCStoreParity ----------------------------
(* An instance of StoreParity for TLC. *)
EXTENDS StoreParity

MCValues == [number |-> {"1", "2"}, select |-> {"big"}]

Money(amount, currency, probability) ==
  [amount |-> amount, currency |-> currency, probability |-> probability]

NoLinks == [type \in Tagged |-> None]
At41 == [pipeline |-> 31, stage |-> 41]
At42 == [pipeline |-> 31, stage |-> 42]
At43 == [pipeline |-> 32, stage |-> 43]
At44 == [pipeline |-> 32, stage |-> 44]

User(id, name, role, status) == [UserRow(id, name, name, role) EXCEPT !.status = status]
Bound(user) == [user EXCEPT !.linked = TRUE]
Hashed(user) == [user EXCEPT !.hash = TRUE]
Spent(code) == [code EXCEPT !.used = TRUE]

\* Two companies, one archived; two people; two leads, one of them quiet for long
\* and one closed; two deals, one archived; a tag, an open list and one of people;
\* an agent of ann's that asks to delete a company, one of bob's that is revoked;
\* a pipeline of leads and two of deals, one of them empty.  Ann (91) is a member,
\* bob (92) an admin from before OpenAuth and oda (93) the owner; pia (94) is invited
\* and has had four codes of late, dan (95) was disabled and lou (96) as well, before
\* she signed in.
MCSeed ==
  [company |-> {CompanyRow(1, "acme", 91),
                [CompanyRow(2, "globex", 92) EXCEPT !.archived = TRUE]},
   person |-> {PersonRow(3, "zoe", 91), PersonRow(4, "acme", None)},
   engagement |-> {[EngagementRow(5, "expo", 91, 1, 3, At41) EXCEPT !.created = 60],
                   [EngagementRow(15, "acme", 92, 2, None, At42) EXCEPT !.created = 60]},
   deal |-> {[DealRow(6, "expo", 91, 1, 3, 5, At43, Money(101, "EUR", None)) EXCEPT !.created = 20],
             [DealRow(16, "acme", 92, None, 4, None, At44, Money(30, "EUR", 20))
                EXCEPT !.archived = TRUE, !.status = "won"]},
   offering |-> {OfferingRow(7, "audit", 91)},
   activity |-> {ActivityRow(13, "task", "call", [NoLinks EXCEPT !.deal = 6], "past", 91),
                 ActivityRow(22, "task", "call", [NoLinks EXCEPT !.company = 1], "today", None),
                 ActivityRow(14, "status_change", "acme", [NoLinks EXCEPT !.person = 3], None, None)},
   links |-> {[company |-> 1, person |-> 3, role |-> None, primary |-> TRUE],
              [company |-> 2, person |-> 3, role |-> "founder", primary |-> FALSE]},
   stakeholders |-> {[deal |-> 6, person |-> 4, role |-> "buyer", primary |-> TRUE]},
   tags |-> {[id |-> 8, name |-> "vip"]},
   taggings |-> {[tag |-> 8, type |-> "company", entity |-> 1],
                 [tag |-> 8, type |-> "deal", entity |-> 6]},
   lists |-> {[id |-> 9, name |-> "key", type |-> None],
              [id |-> 10, name |-> "team", type |-> "person"]},
   members |-> {[list |-> 9, type |-> "deal", entity |-> 6],
                [list |-> 9, type |-> "company", entity |-> 2],
                [list |-> 10, type |-> "person", entity |-> 3]},
   offers |-> {[offering |-> 7, type |-> "engagement", entity |-> 5, fit |-> 2, primary |-> TRUE],
               [offering |-> 7, type |-> "deal", entity |-> 16, fit |-> None, primary |-> FALSE]},
   fields |-> {FieldRow(11, "company", "size", "number", 0)},
   values |-> {[field |-> 11, type |-> "company", entity |-> 1, value |-> "1"]},
   views |-> {ViewRow(12, "mine", 91, "private", "company", [owner |-> 91]),
              ViewRow(17, "all", None, "system", "activity", [open |-> TRUE]),
              ViewRow(18, "other", 92, "private", "engagement", [stale |-> TRUE]),
              ViewRow(23, "team", 92, "shared", "deal", [status |-> "open"])},
   actions |-> {ActionRow(20, 2, [user |-> 91, client |-> 19])},
   audit |-> {AuditRow("pendingAction.create", 20, [user |-> 91, client |-> 19])},
   clients |-> {ClientRow(19, {"read", "write"}, "review_risky_actions", 91),
                [ClientRow(21, {"read"}, "trusted_agent", 92) EXCEPT !.revoked = TRUE]},
   users |-> {Bound(User(91, "ann", "member", "active")), Bound(Hashed(User(92, "bob", "admin", "active"))),
              Bound(User(93, "oda", "owner", "active")), User(94, "pia", "viewer", "pending"),
              Bound(User(95, "dan", "member", "disabled")), User(96, "lou", "member", "disabled")},
   codes |-> {Spent(CodeRow(c, 94, "pia", "setup")) : c \in 51..53}
               \cup {CodeRow(54, 94, "pia", "setup"),
                     [CodeRow(55, 91, "ann", "reset") EXCEPT !.recent = FALSE]},
   sessions |-> {SessionRow(61, 91), SessionRow(62, 92)},
   pipelines |-> {PipelineRow(31, "engagement", "leads", TRUE, 0),
                  PipelineRow(32, "deal", "deals", TRUE, 0), PipelineRow(33, "deal", "renewals", FALSE, 1)},
   stages |-> {StageRow(41, 31, 0, None, None), StageRow(42, 31, 1, "dropped", None),
               StageRow(43, 32, 0, None, 50), StageRow(44, 32, 1, "won", 100),
               StageRow(45, 33, 0, None, 20)},
   workspace |-> [name |-> "studio", currency |-> "EUR", engagementDays |-> 14, dealDays |-> 30]]

\* Every condition of the lists on its own, and the two that depend on others.
MCFilters ==
  {AnyFilter, [AnyFilter EXCEPT !.archived = TRUE], [AnyFilter EXCEPT !.owner = 91],
   [AnyFilter EXCEPT !.text = "ACME"], [AnyFilter EXCEPT !.tags = {8}],
   [AnyFilter EXCEPT !.list = 9], [AnyFilter EXCEPT !.offering = 7],
   [AnyFilter EXCEPT !.company = 1], [AnyFilter EXCEPT !.person = 4],
   [AnyFilter EXCEPT !.engagement = 5], [AnyFilter EXCEPT !.deal = 6],
   [AnyFilter EXCEPT !.pipeline = 31], [AnyFilter EXCEPT !.stage = 43],
   [AnyFilter EXCEPT !.status = "open"], [AnyFilter EXCEPT !.stale = TRUE],
   [AnyFilter EXCEPT !.kinds = {"note", "status_change"}], [AnyFilter EXCEPT !.assignee = 91],
   [AnyFilter EXCEPT !.open = TRUE, !.overdue = TRUE], [AnyFilter EXCEPT !.within = 7]}
=============================================================================
