---------------------------- MODULE MCRecordGraph ----------------------------
(* Instances of RecordGraph for TLC. *)
EXTENDS RecordGraph, TLC

CONSTANTS c1, c2, p1, p2, e1, d1, o1, a1, t1, l1, f1, gone

MCType ==
  [i \in OldId |->
     CASE i \in {c1, c2} -> "company"
       [] i \in {p1, p2, gone} -> "person"
       [] i = e1 -> "engagement"
       [] i = d1 -> "deal"
       [] i = o1 -> "offering"
       [] i = a1 -> "activity"
       [] i = t1 -> "tag"
       [] i = l1 -> "list"
       [] i = f1 -> "field"]

\* A person who works for a company and is a stakeholder of a deal, all of
\* them tagged or listed, and an activity about them.
MCLinks ==
  {Row("company_people", p1, c1, TRUE),
   Row("deal_stakeholders", d1, p1, TRUE),
   Row("taggings", d1, t1, FALSE), Row("taggings", p1, t1, FALSE),
   Row("list_members", p1, l1, FALSE),
   Row("custom_values", p1, f1, FALSE), Row("custom_values", o1, f1, FALSE),
   Row("offering_links", e1, o1, TRUE),
   Row("reference", a1, p1, FALSE), Row("reference", a1, c1, FALSE),
   Row("reference", a1, e1, FALSE), Row("reference", e1, c1, FALSE)}

Link(table, of, to, primary) ==
  [op |-> "link", table |-> table, of |-> of, to |-> to, primary |-> primary]

MCOp ==
  {Link("company_people", p1, c2, TRUE), Link("company_people", p1, c1, FALSE),
   Link("company_people", p2, c1, TRUE), Link("company_people", p2, c2, TRUE),
   Link("deal_stakeholders", d1, p2, TRUE), Link("deal_stakeholders", d1, p1, FALSE),
   Link("taggings", c1, t1, FALSE), Link("taggings", gone, t1, FALSE),
   Link("custom_values", e1, f1, FALSE), Link("offering_links", e1, o1, FALSE),
   [op |-> "set_primary", of |-> d1, to |-> p1, primary |-> TRUE],
   [op |-> "unlink", table |-> "company_people", of |-> p1, to |-> c1],
   [op |-> "unlink", table |-> "deal_stakeholders", of |-> d1, to |-> p1],
   [op |-> "add_members", list |-> l1, type |-> "company", ids |-> {c1, c2}],
   [op |-> "add_members", list |-> l1, type |-> "person", ids |-> {p2}],
   [op |-> "remove_members", list |-> l1, type |-> "person", ids |-> {p1}],
   [op |-> "retype", list |-> l1, type |-> "person"],
   [op |-> "retype", list |-> l1, type |-> "company"],
   [op |-> "retype", list |-> l1, type |-> Untyped],
   [op |-> "create", type |-> "person", refs |-> {},
    extra |-> {[table |-> "company_people", to |-> c1, primary |-> TRUE]}],
   [op |-> "create", type |-> "activity", refs |-> {p1, d1}, extra |-> {}],
   [op |-> "create", type |-> "deal", refs |-> {e1, p2},
    extra |-> {[table |-> "offering_links", to |-> o1, primary |-> TRUE]}],
   [op |-> "create", type |-> "list", refs |-> {}, extra |-> {}],
   [op |-> "refer", of |-> e1, to |-> p2],
   [op |-> "refer", of |-> d1, to |-> e1]}
    \cup [op : {"delete"}, id : OldId \ {a1, f1, gone}]

MCAlive == OldId \ {gone}

MCListType == [i \in Id |-> Untyped]

\* The jobs differ by nothing but their name.
MCSymmetry == Permutations(Job)
=============================================================================
