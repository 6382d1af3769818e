-------------------------- MODULE DataTransfer_proofs --------------------------
(***************************************************************************)
(* Theorems about DataTransfer, for every set of CSVs, jobs, workspaces    *)
(* and texts, and every page size: Inv, ExportComplete,                    *)
(* RowsLandOnTheirRecords and PreviewTells, on both stores.                *)
(*                                                                         *)
(* Inv is not inductive: that no two open transactions number rows of one  *)
(* table holds because what an open transaction has numbered comes after   *)
(* everything else (NewestIn), and a transaction that would number waits   *)
(* for whoever has.  Core adds this, how far each job is with its rows     *)
(* (Fits) and that a row's writer is open or committed (OwnedIn); the      *)
(* other invariants rest on it.                                            *)
(*                                                                         *)
(* ExportComplete is about the end of an export.  While it runs, its       *)
(* pages hold the first leads of the list and are full, and the leads that *)
(* were there when it began are the first of the list as well              *)
(* (Collecting): both stay so while others append, which is what reading   *)
(* by offset needs.                                                        *)
(*                                                                         *)
(* RowsLandOnTheirRecords is about the end of an import.  Before that, a   *)
(* row is planned to have a record that is like it, or the one that the    *)
(* first row with its data makes (Aimed), and each row written so far      *)
(* has such records (Arrived); Landings keeps both from step to step,      *)
(* whatever others import meanwhile, as long as nobody edits a record.     *)
(*                                                                         *)
(* PreviewTells compares two plans of one CSV, made at different times.    *)
(* As long as nothing has been committed since a job began, what it sees   *)
(* is what was there then (OldIds), and each of its choices is determined  *)
(* by that and the CSV (CompanyOf, PersonOf).  So the plan is the one that *)
(* these give (Foreseen), the preview told its counts (Shown), and the     *)
(* run, which counts record by record, arrives at the same (Counted).      *)
(***************************************************************************)
EXTENDS DataTransfer, SequenceTheorems, FiniteSetTheorems, TLAPS

-----------------------------------------------------------------------------
(* Places in a finite set of numbers.                                      *)

\* A set of numbers that is not empty has a least one.
LEMMA LeastNumber ==
  ASSUME NEW S \in SUBSET Nat, S # {}
  PROVE  \E n \in S : \A m \in S : n <= m
<1>0. \A n \in S : n \in Nat
  OBVIOUS
<1>1. \E n \in S : \A m \in S : ~ (<<m, n>> \in OpToRel(<, Nat))
  BY NatLessThanWellFounded, WFMin
<1>2. \A m, n \in S : <<m, n>> \in OpToRel(<, Nat) <=> m < n
  BY <1>0 DEF OpToRel
<1>3. PICK n \in S : \A m \in S : ~ (<<m, n>> \in OpToRel(<, Nat))
  BY <1>1
<1>4. ASSUME NEW m \in S
      PROVE  n <= m
  <2>1. m \in Nat /\ n \in Nat /\ ~ (m < n)
    BY <1>0, <1>2, <1>3
  <2>. QED
    BY <2>1
<1>. QED
  BY <1>4

\* A set of numbers below a bound that is not empty has a greatest one.
LEMMA GreatestNumber ==
  ASSUME NEW b \in Nat, NEW S, S \subseteq 0..b, S # {}
  PROVE  \E n \in S : \A m \in S : m <= n
<1>. DEFINE above == {d \in Nat : \E n \in S : d = b - n}
<1>1. above \in SUBSET Nat /\ above # {}
  <2>1. PICK n \in S : TRUE
    OBVIOUS
  <2>2. n \in 0..b
    OBVIOUS
  <2>3. b - n \in above
    BY <2>1, <2>2
  <2>. QED
    BY <2>3
<1>2. PICK d \in above : \A e \in above : d <= e
  BY <1>1, LeastNumber
<1>3. PICK n \in S : d = b - n
  BY <1>2
<1>4. \A m \in S : b - m \in above
  OBVIOUS
<1>. QED
  BY <1>2, <1>3, <1>4

\* A set of numbers is ordered.
LEMMA NumbersOrdered ==
  ASSUME NEW S \in SUBSET Nat
  PROVE  /\ \A a \in S : ~ (a < a)
         /\ \A a, b \in S : a < b \/ b < a \/ a = b
         /\ \A a, b, c \in S : a < b /\ b < c => a < c
         /\ \A a, b \in S : a <= b <=> a < b \/ a = b
         /\ \A a, b \in S : a > b <=> b < a
<1>. SUFFICES ASSUME NEW a \in S, NEW b \in S, NEW c \in S
              PROVE  /\ ~ (a < a)
                     /\ a < b \/ b < a \/ a = b
                     /\ a < b /\ b < c => a < c
                     /\ a <= b <=> a < b \/ a = b
                     /\ a > b <=> b < a
  OBVIOUS
<1>1. a \in Nat /\ b \in Nat /\ c \in Nat
  OBVIOUS
<1>. QED
  BY <1>1

LEMMA PlaceFacts ==
  ASSUME NEW S \in SUBSET Nat, IsFiniteSet(S)
  PROVE  /\ Cardinality(S) \in Nat
         /\ \A n \in S : Place(S, n) \in 0..Cardinality(S) - 1
         /\ \A m, n \in S : m < n => Place(S, m) < Place(S, n)
<1>. DEFINE Before(n) == {m \in S : m < n}
<1>1. Cardinality(S) \in Nat /\ \A n \in S : n \in Nat
  BY FS_CardinalityType
<1>2. ASSUME NEW n \in S
      PROVE  /\ IsFiniteSet(Before(n)) /\ Place(S, n) = Cardinality(Before(n))
             /\ Place(S, n) \in Nat
  <2>1. Before(n) \in SUBSET S
    OBVIOUS
  <2>2. IsFiniteSet(Before(n))
    BY <2>1, FS_Subset
  <2>. QED
    BY <2>2, FS_CardinalityType DEF Place
<1>3. ASSUME NEW T \in SUBSET S, NEW n \in S, Before(n) \subseteq T, n \in T
      PROVE  Place(S, n) < Cardinality(T)
  <2>1. IsFiniteSet(T)
    BY FS_Subset
  <2>0. n \notin Before(n)
    BY <1>1
  <2>2. /\ IsFiniteSet(Before(n) \cup {n})
        /\ Cardinality(Before(n) \cup {n}) = Place(S, n) + 1
    BY <1>2, <2>0, FS_AddElement
  <2>3. Before(n) \cup {n} \in SUBSET T
    BY <1>3
  <2>4. Cardinality(Before(n) \cup {n}) <= Cardinality(T)
    BY <2>1, <2>3, FS_Subset
  <2>5. Cardinality(T) \in Nat /\ Place(S, n) \in Nat
    BY <1>2, <2>1, FS_CardinalityType
  <2>. QED
    BY <2>2, <2>4, <2>5
<1>4. \A n \in S : Place(S, n) < Cardinality(S)
  BY <1>3
<1>5. ASSUME NEW m \in S, NEW n \in S, m < n
      PROVE  Place(S, m) < Place(S, n)
  <2>1. Before(n) \in SUBSET S /\ Before(m) \subseteq Before(n) /\ m \in Before(n)
    BY <1>5, NumbersOrdered
  <2>2. Place(S, m) < Cardinality(Before(n))
    BY <1>3, <2>1
  <2>. QED
    BY <1>2, <2>2
<1>6. \A n \in S : Place(S, n) \in 0..Cardinality(S) - 1
  <2>. SUFFICES ASSUME NEW n \in S
                PROVE  Place(S, n) \in 0..Cardinality(S) - 1
    OBVIOUS
  <2>1. Place(S, n) \in Nat /\ Place(S, n) < Cardinality(S)
    BY <1>2, <1>4
  <2>. QED
    BY <1>1, <2>1
<1>. QED
  BY <1>1, <1>5, <1>6

\* Every place below the number of elements is somebody's.
LEMMA PlaceTaken ==
  ASSUME NEW S \in SUBSET Nat, IsFiniteSet(S), NEW k \in 0..Cardinality(S) - 1
  PROVE  \E n \in S : Place(S, n) = k
<1>. DEFINE free == {i \in Nat : i < Cardinality(S) /\ \A n \in S : Place(S, n) # i}
<1>0. free \in SUBSET Nat
  OBVIOUS
<1>1. /\ Cardinality(S) \in Nat
      /\ \A n \in S : n \in Nat /\ Place(S, n) \in Nat
  <2>1. Cardinality(S) \in Nat /\ \A n \in S : Place(S, n) \in 0..Cardinality(S) - 1
    BY PlaceFacts
  <2>. QED
    BY <2>1
<1>2. SUFFICES ASSUME free # {}
               PROVE  FALSE
  <2>1. k \in Nat /\ k < Cardinality(S)
    BY <1>1
  <2>. QED
    BY <2>1
<1>3. PICK i \in free : \A e \in free : i <= e
  BY <1>0, <1>2, LeastNumber
<1>4. CASE i = 0
  <2>1. S # {}
    BY <1>1, <1>3, FS_EmptySet
  <2>2. PICK n \in S : \A m \in S : n <= m
    BY <2>1, LeastNumber
  <2>3. {m \in S : m < n} = {}
    <3>1. ASSUME NEW m \in S
          PROVE  ~ (m < n)
      BY <2>2, NumbersOrdered
    <3>. QED
      BY <3>1
  <2>4. Place(S, n) = 0
    BY <2>3, FS_EmptySet DEF Place
  <2>. QED
    BY <1>3, <1>4, <2>4
<1>5. CASE i # 0
  <2>1. i - 1 \in Nat /\ i - 1 < Cardinality(S) /\ i - 1 \notin free
    BY <1>1, <1>3, <1>5
  <2>2. PICK n \in S : Place(S, n) = i - 1
    BY <2>1
  <2>3. DEFINE upto == {m \in S : m < n} \cup {n}
               later == {m \in S : m > n}
  <2>4. upto \in SUBSET S /\ {m \in S : m < n} \in SUBSET S /\ n \notin {m \in S : m < n}
    BY <1>1
  <2>5. IsFiniteSet({m \in S : m < n}) /\ Cardinality({m \in S : m < n}) = i - 1
    BY <2>2, <2>4, FS_Subset DEF Place
  <2>6. Cardinality(upto) = i
    <3>1. Cardinality(upto) = i - 1 + 1
      BY <2>4, <2>5, FS_AddElement
    <3>. QED
      BY <1>3, <3>1
  <2>7. later # {}
    <3>1. SUFFICES ASSUME later = {}
                   PROVE  FALSE
      OBVIOUS
    <3>2. upto = S
      <4>1. \A m \in S : m < n \/ m = n \/ m > n
        BY NumbersOrdered
      <4>2. \A m \in S : ~(m > n)
        BY <3>1
      <4>. QED
        BY <2>2, <4>1, <4>2
    <3>. QED
      BY <1>3, <2>6, <3>2
  <2>8. PICK l \in later : \A m \in later : l <= m
    BY <2>7, LeastNumber
  <2>9. l \in S /\ {m \in S : m < l} = upto
    <3>1. l \in S /\ n < l /\ \A m \in S : n < m => l <= m
      BY <2>8, NumbersOrdered
    <3>2. ASSUME NEW m \in S
          PROVE  m < l <=> m < n \/ m = n
      BY <3>1, NumbersOrdered
    <3>. QED
      BY <3>1, <3>2
  <2>10. Place(S, l) = i
    BY <2>6, <2>9 DEF Place
  <2>. QED
    BY <1>3, <2>9, <2>10
<1>. QED
  BY <1>4, <1>5

-----------------------------------------------------------------------------
(* The calls and their rows.                                               *)

CsvRow == [Field -> Text \cup {None}]
NamedRow == {row \in CsvRow : row["company.name"] # None \/ row["person.name"] # None}
Importing(j) == reqOf[j].op \in {"import.run", "import.preview"}

LEMMA CallFacts ==
  ASSUME NEW j \in Job
  PROVE  /\ Importing(j) => reqOf[j].csv \in Csv
         /\ reqOf[j].op = "import.run" => reqOf[j].label \in Text /\ reqOf[j].gated \in BOOLEAN
         /\ reqOf[j].op = "tag.create" => reqOf[j].label \in Text
         /\ reqOf[j].op \in Edit \ {"company.unlinkPerson"} => reqOf[j].id \in Nat
         /\ reqOf[j].op \in {"company.update", "person.update", "engagement.update"}
              => reqOf[j].to \in Text \cup {None}
         /\ reqOf[j].op = "company.update" => reqOf[j].field \in CompanyField
         /\ reqOf[j].op = "person.update" => reqOf[j].field \in PersonField
         /\ reqOf[j].op \in {"import.run", "import.preview", "export.csv", "tag.create"} \cup Edit
<1>1. reqOf[j] \in Call
  BY TransferAssumption
<1>. QED
  BY <1>1 DEF Call, Importing, Edit

LEMMA RowsType ==
  ASSUME NEW j \in Job, Importing(j)
  PROVE  /\ Rows(j) \in Seq(NamedRow)
         /\ Len(Rows(j)) \in Nat
         /\ DOMAIN Rows(j) = 1..Len(Rows(j))
         /\ \A n \in 1..Len(Rows(j)) : Row(j, n) \in NamedRow
<1>. DEFINE csv == reqOf[j].csv
            named == Named(csv)
            row(k) == csv.rows[CHOOSE n \in named : Place(named, n) = k - 1]
<1>1. csv.rows \in Seq(CsvRow)
  BY CallFacts DEF Csv, CsvRow
<1>2. Len(csv.rows) \in Nat /\ DOMAIN csv.rows = 1..Len(csv.rows)
  BY <1>1, LenProperties
<1>3. named \in SUBSET (1..Len(csv.rows))
  BY <1>2 DEF Named
<1>4. IsFiniteSet(1..Len(csv.rows))
  BY <1>2, FS_Interval
<1>5. IsFiniteSet(named) /\ named \in SUBSET Nat
  BY <1>3, <1>4, FS_Subset
<1>6. Cardinality(named) \in Nat
  BY <1>5, FS_CardinalityType
<1>7. ASSUME NEW k \in 1..Cardinality(named)
      PROVE  row(k) \in NamedRow
  <2>1. k - 1 \in 0..Cardinality(named) - 1
    BY <1>6
  <2>2. \E n \in named : Place(named, n) = k - 1
    BY <1>5, <2>1, PlaceTaken
  <2>3. PICK n \in named : row(k) = csv.rows[n]
    BY <2>2
  <2>4. csv.rows[n] \in CsvRow
    BY <1>1, <1>3, <2>3, ElementOfSeq
  <2>. QED
    BY <2>3, <2>4 DEF Named, NamedRow
<1>8. Rows(j) = [k \in 1..Cardinality(named) |-> row(k)]
  BY DEF Rows
<1>. HIDE DEF csv, named, row
<1>9. Rows(j) \in Seq(NamedRow) /\ Len(Rows(j)) = Cardinality(named)
  BY <1>6, <1>7, <1>8, IsASeq
<1>. QED
  BY <1>6, <1>7, <1>8, <1>9 DEF Row

-----------------------------------------------------------------------------
(* The inductive invariant.                                                *)

Where == Working \cup {"idle", "preview_company", "preview_person", "asked", "failed", "ok"}
Planning == {"preview_company", "preview_person", "company", "person"}
Writing == {"writing", "landing", "finding", "leading"}

Ref == [kind : {"existing", "new", "none"}, of : Nat]
PlanRow == [company : Ref, person : Ref]
LandedRow == [company : Nat \cup {None}, person : Nat \cup {None}, lead : Nat \cup {None}]

Types ==
  /\ TypeOK
  /\ store \in {"sqlite", "postgres"} /\ order \in Orders
  /\ mix \in SUBSET Job
  /\ pc \in [Job -> Where]
  /\ plan \in [Job -> Seq(PlanRow)] /\ landed \in [Job -> Seq(LandedRow)]
  /\ tagOf \in [Job -> Nat \cup {None}]
  /\ total \in [Job -> Nat] /\ pages \in [Job -> Seq(SUBSET Nat)]
  /\ began \in [Job -> Nat] /\ ended \in [Job -> Nat]
  /\ listed \in [Job -> SUBSET Nat]

\* How far job j has come with its rows, where it is.
Fits(j) ==
  /\ pc[j] \in {"idle", "tag", "tagging"} => plan[j] = <<>>
  /\ pc[j] \in {"idle", "asked", "tag", "tagging"} \cup Planning => landed[j] = <<>>
  /\ pc[j] \in {"preview_company", "preview_person", "asked"} \cup Writing
       => reqOf[j].op = "import.run"
  /\ pc[j] \in {"tag", "tagging"} => reqOf[j].op \in {"import.run", "tag.create"}
  /\ pc[j] \in Planning => Importing(j)
  /\ pc[j] \in {"preview_company", "company"} /\ Rows(j) # <<>> => Len(plan[j]) < Len(Rows(j))
  /\ pc[j] \in {"preview_person", "person"} => Len(plan[j]) \in 1..Len(Rows(j))
  /\ pc[j] \in Writing => Len(plan[j]) = Len(Rows(j)) /\ told[j].run \in Counts
  /\ pc[j] = "writing" => Len(landed[j]) < Len(Rows(j))
  /\ pc[j] \in Writing \ {"writing"} => Len(landed[j]) \in 1..Len(Rows(j))
  /\ reqOf[j].op = "import.run" /\ pc[j] \in Working \cup {"ok"} => Rows(j) # <<>>
  /\ reqOf[j].op = "import.run" /\ pc[j] \in {"committing", "ok"}
       => Len(plan[j]) = Len(Rows(j)) /\ Len(landed[j]) = Len(Rows(j))
  /\ pc[j] \in {"counting", "paging"} => reqOf[j].op = "export.csv"

\* Rows are those of transactions that are open or have committed.
OwnerIn(row, where, jobs) ==
  row.by # None => row.by \in jobs /\ where[row.by] \in Working \cup {"ok"}
OwnedIn(table, where, jobs) ==
  \A n \in DOMAIN table : table[n] # None => OwnerIn(table[n], where, jobs)

\* What an open transaction has numbered comes after everything else.
NewestIn(table, where, jobs) ==
  \A m, n \in DOMAIN table :
    /\ m < n /\ table[m] # None /\ table[n] # None
    /\ table[m].by \in jobs /\ where[table[m].by] \in Working
    => table[n].by = table[m].by

TagsDiffer ==
  \A m, n \in DOMAIN tag : m # n /\ tag[m] # None /\ tag[n] # None => tag[m].name # tag[n].name

\* A link comes and goes with the person it was made for.
LinksKnown ==
  \A l \in link : /\ l.person \in DOMAIN person /\ person[l.person] # None
                  /\ person[l.person].by = l.by

Tables ==
  /\ OwnedIn(company, pc, mix) /\ OwnedIn(person, pc, mix) /\ OwnedIn(lead, pc, mix)
  /\ OwnedIn(tag, pc, mix)
  /\ NewestIn(company, pc, mix) /\ NewestIn(person, pc, mix) /\ NewestIn(lead, pc, mix)
  /\ TagsDiffer
  /\ LinksKnown

Core == Types /\ (\A j \in Job : Fits(j)) /\ Tables

-----------------------------------------------------------------------------
(* Tables.                                                                 *)

LEMMA TableFacts ==
  ASSUME NEW R, NEW t \in TableOf(R)
  PROVE  /\ Len(t) \in Nat /\ DOMAIN t = 1..Len(t) /\ DOMAIN t \in SUBSET Nat
         /\ \A n \in DOMAIN t : t[n] # None => t[n] \in R
<1>1. t \in Seq(R \cup {None})
  BY DEF TableOf
<1>. QED
  BY <1>1, LenProperties

LEMMA TableAgain ==
  ASSUME NEW R, NEW t \in TableOf(R), NEW u \in [DOMAIN t -> R \cup {None}]
  PROVE  u \in TableOf(R) /\ Len(u) = Len(t) /\ DOMAIN u = DOMAIN t
<1>1. Len(t) \in Nat /\ DOMAIN t = 1..Len(t)
  BY TableFacts
<1>. QED
  BY <1>1 DEF TableOf

LEMMA AppendFacts ==
  ASSUME NEW R, NEW t \in TableOf(R), NEW row \in R
  PROVE  /\ Append(t, row) \in TableOf(R)
         /\ DOMAIN Append(t, row) = DOMAIN t \cup {Len(t) + 1}
         /\ Len(t) + 1 \in Nat /\ Len(t) + 1 \notin DOMAIN t
         /\ \A n \in DOMAIN t : Append(t, row)[n] = t[n] /\ n < Len(t) + 1
         /\ Append(t, row)[Len(t) + 1] = row
<1>1. t \in Seq(R \cup {None}) /\ row \in R \cup {None}
  BY DEF TableOf
<1>2. /\ Append(t, row) \in Seq(R \cup {None})
      /\ Len(Append(t, row)) = Len(t) + 1
      /\ \A i \in 1..Len(t) : Append(t, row)[i] = t[i]
      /\ Append(t, row)[Len(t) + 1] = row
  BY <1>1, AppendProperties
<1>3. Len(t) \in Nat /\ DOMAIN t = 1..Len(t)
  BY TableFacts
<1>4. DOMAIN Append(t, row) = 1..Len(t) + 1
  BY <1>2, LenProperties
<1>. QED
  BY <1>2, <1>3, <1>4 DEF TableOf

\* Whatever is appended, the rows before it are what they were.
LEMMA AppendAny ==
  ASSUME NEW R, NEW t \in TableOf(R), NEW row
  PROVE  /\ DOMAIN Append(t, row) = DOMAIN t \cup {Len(t) + 1}
         /\ Len(t) + 1 \notin DOMAIN t
         /\ \A n \in DOMAIN t : Append(t, row)[n] = t[n]
         /\ Append(t, row)[Len(t) + 1] = row
<1>1. t \in TableOf(R \cup {row})
  <2>1. t \in [1..Len(t) -> R \cup {None}] /\ Len(t) \in Nat
    BY LenProperties DEF TableOf
  <2>2. t \in [1..Len(t) -> R \cup {row} \cup {None}]
    BY <2>1
  <2>. QED
    BY <2>1, <2>2 DEF TableOf
<1>2. row \in R \cup {row}
  OBVIOUS
<1>. QED
  BY <1>1, <1>2, AppendFacts

\* The rows of a table that are left belong to whom they did.
Stays(t, u) ==
  /\ DOMAIN u = DOMAIN t
  /\ \A n \in DOMAIN t : u[n] # None => t[n] # None /\ u[n].by = t[n].by

MadeIn(table, j) == \E n \in DOMAIN table : table[n] # None /\ table[n].by = j

LEMMA StaysKeeps ==
  ASSUME NEW where \in [Job -> Where], NEW jobs \in SUBSET Job, NEW j \in Job, NEW w,
         NEW t, NEW u, Stays(t, u),
         MadeIn(u, j) => /\ w \in Working \cup {"ok"}
                         /\ w \in Working => where[j] \in Working
  PROVE  /\ OwnedIn(t, where, jobs) => OwnedIn(u, [where EXCEPT ![j] = w], jobs)
         /\ NewestIn(t, where, jobs) => NewestIn(u, [where EXCEPT ![j] = w], jobs)
<1>1. ASSUME NEW n \in DOMAIN u, u[n] # None
      PROVE  /\ n \in DOMAIN t /\ t[n] # None /\ u[n].by = t[n].by
             /\ u[n].by = j => MadeIn(u, j)
  BY <1>1 DEF Stays, MadeIn
<1>2. ASSUME OwnedIn(t, where, jobs)
      PROVE  OwnedIn(u, [where EXCEPT ![j] = w], jobs)
  BY <1>1, <1>2 DEF OwnedIn, OwnerIn
<1>3. ASSUME NewestIn(t, where, jobs)
      PROVE  NewestIn(u, [where EXCEPT ![j] = w], jobs)
  BY <1>1, <1>3 DEF NewestIn
<1>. QED
  BY <1>2, <1>3

LEMMA AppendKeeps ==
  ASSUME NEW where \in [Job -> Where], NEW jobs \in SUBSET Job, NEW j \in jobs,
         NEW w \in Working, where[j] \in Working,
         NEW R, NEW t \in TableOf(R), NEW row \in R, row.by = j
  PROVE  /\ OwnedIn(t, where, jobs) => OwnedIn(Append(t, row), [where EXCEPT ![j] = w], jobs)
         /\ /\ NewestIn(t, where, jobs)
            /\ \A n \in DOMAIN t :
                 t[n] # None /\ t[n].by \in jobs /\ where[t[n].by] \in Working => t[n].by = j
            => NewestIn(Append(t, row), [where EXCEPT ![j] = w], jobs)
<1>. DEFINE u == Append(t, row)
            z == Len(t) + 1
<1>1. /\ DOMAIN u = DOMAIN t \cup {z} /\ z \notin DOMAIN t
      /\ \A n \in DOMAIN t : u[n] = t[n] /\ n < z /\ ~ (z < n)
      /\ u[z] = row /\ ~ (z < z)
  <2>1. DOMAIN t \in SUBSET Nat
    BY TableFacts
  <2>. QED
    BY <2>1, AppendFacts
<1>. HIDE DEF u, z
<1>2. ASSUME OwnedIn(t, where, jobs)
      PROVE  OwnedIn(u, [where EXCEPT ![j] = w], jobs)
  BY <1>1, <1>2 DEF OwnedIn, OwnerIn
<1>3. ASSUME NewestIn(t, where, jobs),
             \A n \in DOMAIN t :
                t[n] # None /\ t[n].by \in jobs /\ where[t[n].by] \in Working => t[n].by = j
      PROVE  NewestIn(u, [where EXCEPT ![j] = w], jobs)
  BY <1>1, <1>3 DEF NewestIn
<1>. QED
  BY <1>2, <1>3 DEF u

LEMMA UndoFacts ==
  ASSUME NEW R, NEW t \in TableOf(R), NEW j
  PROVE  /\ Undo(j, t) \in TableOf(R)
         /\ Stays(t, Undo(j, t))
         /\ ~MadeIn(Undo(j, t), j)
         /\ \A n \in DOMAIN t : Undo(j, t)[n] # None => Undo(j, t)[n] = t[n]
         /\ \A n \in DOMAIN t : t[n] # None /\ t[n].by # j => Undo(j, t)[n] = t[n]
<1>1. Undo(j, t) \in [DOMAIN t -> R \cup {None}]
  BY TableFacts DEF Undo
<1>2. \A n \in DOMAIN t : /\ Undo(j, t)[n] # None => Undo(j, t)[n] = t[n] /\ t[n].by # j
                          /\ t[n] # None /\ t[n].by # j => Undo(j, t)[n] = t[n]
  BY DEF Undo
<1>. QED
  BY <1>1, <1>2, TableAgain DEF Stays, MadeIn

-----------------------------------------------------------------------------
(* Every step keeps the invariant.                                         *)

\* A table nobody changes while job j moves on.
LEMMA TableAside ==
  ASSUME Types, NEW j \in mix, NEW w,
         pc' = [pc EXCEPT ![j] = w], UNCHANGED mix,
         pc[j] # "ok", pc[j] \in Working => w \in Working \cup {"ok"},
         NEW t, OwnedIn(t, pc, mix)
  PROVE  /\ OwnedIn(t, pc', mix')
         /\ NewestIn(t, pc, mix) => NewestIn(t, pc', mix')
<1>1. pc \in [Job -> Where] /\ mix \in SUBSET Job /\ j \in Job /\ j # None
  BY TransferAssumption DEF Types
<1>2. MadeIn(t, j) => pc[j] \in Working
  BY <1>1, TransferAssumption DEF MadeIn, OwnedIn, OwnerIn
<1>3. Stays(t, t)
  BY DEF Stays
<1>4. MadeIn(t, j) => w \in Working \cup {"ok"} /\ (w \in Working => pc[j] \in Working)
  BY <1>2
<1>. QED
  BY <1>1, <1>3, <1>4, StaysKeeps

LEMMA TablesAside ==
  ASSUME Types, Tables, NEW j \in mix, NEW w,
         pc' = [pc EXCEPT ![j] = w], UNCHANGED tables, UNCHANGED mix,
         pc[j] # "ok", pc[j] \in Working => w \in Working \cup {"ok"}
  PROVE  Tables'
<1>1. /\ company' = company /\ person' = person /\ lead' = lead /\ tag' = tag /\ link' = link
  BY DEF tables
<1>2. /\ OwnedIn(company, pc', mix') /\ NewestIn(company, pc', mix')
      /\ OwnedIn(person, pc', mix') /\ NewestIn(person, pc', mix')
      /\ OwnedIn(lead, pc', mix') /\ NewestIn(lead, pc', mix')
      /\ OwnedIn(tag, pc', mix')
  BY TableAside DEF Tables
<1>. QED
  BY <1>1, <1>2 DEF Tables, TagsDiffer, LinksKnown

LEMMA FitsAside ==
  ASSUME NEW j \in Job, \A k \in Job : Fits(k), Fits(j)',
         \A k \in Job \ {j} : /\ pc'[k] = pc[k] /\ plan'[k] = plan[k]
                              /\ landed'[k] = landed[k] /\ told'[k] = told[k]
  PROVE  \A k \in Job : Fits(k)'
<1>. SUFFICES ASSUME NEW k \in Job \ {j}
              PROVE  Fits(k)'
  OBVIOUS
<1>. QED
  BY DEF Fits, Rows, Importing

\* A step that only changes where a job is and what it keeps for itself.
LEMMA Aside ==
  ASSUME Core, NEW j \in mix, NEW w \in Where,
         pc' = [pc EXCEPT ![j] = w], UNCHANGED <<tables, store, order, mix>>,
         pc[j] # "ok", pc[j] \in Working => w \in Working \cup {"ok"},
         plan' \in [Job -> Seq(PlanRow)], landed' \in [Job -> Seq(LandedRow)],
         tagOf' \in [Job -> Nat \cup {None}],
         total' \in [Job -> Nat], pages' \in [Job -> Seq(SUBSET Nat)],
         told' \in [Job -> [preview : Counts \cup {None}, run : Counts \cup {None}]],
         log' \in Seq(Job), began' \in [Job -> Nat], ended' \in [Job -> Nat],
         listed' \in [Job -> SUBSET Nat],
         \A k \in Job \ {j} : plan'[k] = plan[k] /\ landed'[k] = landed[k] /\ told'[k] = told[k],
         Fits(j)'
  PROVE  Core'
<1>1. j \in Job /\ pc \in [Job -> Where]
  BY DEF Core, Types
<1>2. pc' \in [Job -> Where] /\ \A k \in Job \ {j} : pc'[k] = pc[k]
  BY <1>1
<1>3. Types'
  BY <1>2 DEF Core, Types, TypeOK, tables
<1>4. \A k \in Job : Fits(k)'
  BY <1>1, <1>2, FitsAside DEF Core
<1>5. Tables'
  BY TablesAside DEF Core
<1>. QED
  BY <1>3, <1>4, <1>5 DEF Core

LEMMA FailKeeps ==
  ASSUME Core, NEW j \in mix, Fail(j)
  PROVE  Core'
<1>1. /\ pc \in [Job -> Where] /\ mix \in SUBSET Job /\ j \in Job
      /\ company \in TableOf(CompanyRow) /\ person \in TableOf(PersonRow)
      /\ lead \in TableOf(LeadRow) /\ tag \in TableOf(TagRow) /\ link \subseteq LinkRow
  BY DEF Core, Types, TypeOK
<1>2. /\ company' = Undo(j, company) /\ person' = Undo(j, person)
      /\ lead' = Undo(j, lead) /\ tag' = Undo(j, tag)
      /\ link' = {l \in link : l.by # j}
      /\ pc' = [pc EXCEPT ![j] = "failed"]
      /\ mix' = mix /\ store' = store /\ order' = order
      /\ UNCHANGED <<plan, landed, tagOf, total, pages, told, log, began, ended, listed>>
  BY DEF Fail, Goto, locals, history
<1>3. "failed" \in Where \ (Working \cup {"ok"})
  BY DEF Where, Working
<1>4. Types'
  BY <1>1, <1>2, <1>3, UndoFacts DEF Core, Types, TypeOK
<1>5. \A k \in Job : Fits(k)'
  <2>1. Fits(j)'
    BY <1>1, <1>2, <1>3 DEF Fits, Working, Planning, Writing
  <2>. QED
    BY <1>1, <1>2, <2>1, FitsAside DEF Core
<1>6. /\ OwnedIn(company', pc', mix') /\ NewestIn(company', pc', mix')
      /\ OwnedIn(person', pc', mix') /\ NewestIn(person', pc', mix')
      /\ OwnedIn(lead', pc', mix') /\ NewestIn(lead', pc', mix')
      /\ OwnedIn(tag', pc', mix')
  <2>1. ASSUME NEW R, NEW t \in TableOf(R), OwnedIn(t, pc, mix)
        PROVE  /\ OwnedIn(Undo(j, t), pc', mix')
               /\ NewestIn(t, pc, mix) => NewestIn(Undo(j, t), pc', mix')
    BY <1>1, <1>2, <2>1, UndoFacts, StaysKeeps
  <2>. QED
    BY <1>1, <1>2, <2>1 DEF Core, Tables
<1>7. TagsDiffer'
  <2>1. \A n \in DOMAIN tag' : n \in DOMAIN tag /\ (tag'[n] # None => tag'[n] = tag[n])
    BY <1>1, <1>2, UndoFacts DEF Stays
  <2>. QED
    BY <2>1 DEF Core, Tables, TagsDiffer
<1>8. LinksKnown'
  <2>. SUFFICES ASSUME NEW l \in link'
                PROVE  /\ l.person \in DOMAIN person' /\ person'[l.person] # None
                       /\ person'[l.person].by = l.by
    BY DEF LinksKnown
  <2>1. /\ l \in link /\ l.by # j
        /\ l.person \in DOMAIN person /\ person[l.person] # None
        /\ person[l.person].by = l.by
    BY <1>2 DEF Core, Tables, LinksKnown
  <2>. QED
    BY <1>1, <1>2, <2>1, UndoFacts DEF Stays
<1>. QED
  BY <1>4, <1>5, <1>6, <1>7, <1>8 DEF Core, Tables

LEMMA PreviewKeeps ==
  ASSUME Core, NEW j \in mix, Preview(j)
  PROVE  Core'
<1>1. /\ j \in Job /\ pc[j] = "idle" /\ reqOf[j].op = "import.run"
      /\ pc \in [Job -> Where] /\ log \in Seq(Job) /\ began \in [Job -> Nat]
      /\ Fits(j)
  BY DEF Preview, Core, Types, TypeOK
<1>2. /\ pc' = [pc EXCEPT ![j] = "preview_company"]
      /\ began' = [began EXCEPT ![j] = Len(log)]
      /\ UNCHANGED <<tables, store, order, mix>>
      /\ UNCHANGED <<plan, landed, tagOf, total, pages, told, log, ended, listed>>
  BY DEF Preview, Began, Goto, locals
<1>3. "preview_company" \in Where /\ pc[j] # "ok" /\ pc[j] \notin Working
  BY <1>1 DEF Where, Working
<1>4. Importing(j) /\ Rows(j) \in Seq(NamedRow) /\ Len(Rows(j)) \in Nat
  BY <1>1, RowsType DEF Importing
<1>5. plan[j] = <<>> /\ landed[j] = <<>> /\ Len(plan[j]) = 0
  BY <1>1, EmptySeq DEF Fits
<1>6. Rows(j) # <<>> => Len(plan[j]) < Len(Rows(j))
  BY <1>4, <1>5, EmptySeq
<1>7. Fits(j)'
  BY <1>1, <1>2, <1>4, <1>5, <1>6 DEF Fits, Working, Planning, Writing, Rows, Importing
<1>8. began' \in [Job -> Nat]
  BY <1>1, <1>2, LenProperties
<1>. QED
  BY <1>2, <1>3, <1>7, <1>8, Aside DEF Core, Types, TypeOK
\* A job in a preview or a transaction may go on.
LEMMA MayGo ==
  ASSUME NEW j, pc[j] \in Where \ {"ok", "failed"}, NEW w \in Working \cup {"ok"}
  PROVE  pc[j] # "ok" /\ (pc[j] \in Working => w \in Working \cup {"ok"}) /\ w \in Where
BY DEF Where

LEMMA RowsThere ==
  ASSUME NEW j \in Job, Importing(j)
  PROVE  Rows(j) # <<>> <=> 0 < Len(Rows(j))
BY RowsType, EmptySeq

\* The rows of a call are fixed.
LEMMA RowsFixed ==
  ASSUME NEW j \in Job
  PROVE  Rows(j)' = Rows(j)
BY DEF Rows, Named, Place

LEMMA BeginKeeps ==
  ASSUME Core, NEW j \in mix, Begin(j)
  PROVE  Core'
<1>. DEFINE w == pc'[j]
<1>1. /\ j \in Job /\ pc[j] \in {"idle", "asked"}
      /\ pc \in [Job -> Where] /\ log \in Seq(Job) /\ began \in [Job -> Nat]
      /\ plan \in [Job -> Seq(PlanRow)] /\ lead \in TableOf(LeadRow)
      /\ listed \in [Job -> SUBSET Nat]
      /\ Fits(j)
  BY DEF Begin, MayRun, Core, Types, TypeOK
<1>2. /\ reqOf[j].op \in {"import.run", "import.preview", "export.csv", "tag.create"}
      /\ pc' = [pc EXCEPT ![j] = w]
      /\ reqOf[j].op \in {"import.run", "tag.create"} => w = "tag"
      /\ reqOf[j].op = "import.preview" => w = "company"
      /\ reqOf[j].op = "export.csv" => w = "counting"
      /\ reqOf[j].op = "import.run" => Rows(j) # <<>>
      /\ began' = [began EXCEPT ![j] = Len(log)]
      /\ plan' = [plan EXCEPT ![j] = <<>>]
      /\ UNCHANGED <<tables, store, order, mix>>
      /\ UNCHANGED <<landed, tagOf, total, pages, told, log, ended>>
    BY <1>1, CallFacts DEF Begin, Began, Goto, NothingToImport
<1>3. w \in Where /\ w \in {"tag", "company", "counting"} /\ pc[j] # "ok" /\ pc[j] \notin Working
  BY <1>1, <1>2 DEF Where, Working
<1>4. listed' \in [Job -> SUBSET Nat]
  <2>1. listed' = [listed EXCEPT ![j] =
             IF reqOf[j].op = "export.csv" THEN {n \in Ids(j, lead) : ~lead[n].archived} ELSE @]
    BY DEF Begin
  <2>2. Ids(j, lead) \in SUBSET Nat
    BY <1>1, TableFacts DEF Ids
  <2>. QED
    BY <1>1, <2>1, <2>2
<1>5. /\ plan'[j] = <<>> /\ landed'[j] = <<>> /\ Len(plan'[j]) = 0
      /\ plan' \in [Job -> Seq(PlanRow)]
  BY <1>1, <1>2, EmptySeq DEF Fits
<1>6. Importing(j) => (Rows(j) # <<>> <=> 0 < Len(Rows(j)))
  BY <1>1, RowsThere
<1>7. pc'[j] = w
  OBVIOUS
<1>. HIDE DEF w
<1>8. Fits(j)'
  BY <1>2, <1>3, <1>5, <1>6, <1>7 DEF Fits, Working, Planning, Writing, Rows, Importing
<1>9. began' \in [Job -> Nat]
  BY <1>1, <1>2, LenProperties
<1>10. \A k \in Job \ {j} : plan'[k] = plan[k]
  BY <1>1, <1>2
<1>. QED
  BY <1>2, <1>3, <1>4, <1>5, <1>8, <1>9, <1>10, Aside DEF Core, Types, TypeOK

LEMMA FindTagKeeps ==
  ASSUME Core, NEW j \in mix, FindTag(j)
  PROVE  Core'
<1>1. /\ j \in Job /\ pc[j] = "tag" /\ reqOf[j].op \in {"import.run", "tag.create"}
      /\ pc \in [Job -> Where] /\ tagOf \in [Job -> Nat \cup {None}] /\ tag \in TableOf(TagRow)
      /\ Fits(j)
  BY DEF FindTag, Core, Types, TypeOK, Fits
<1>. DEFINE w == pc'[j]
<1>2. \A n \in TagsNamed(j, reqOf[j].label) : n \in Nat
  BY <1>1, TableFacts DEF TagsNamed, Ids
<1>3. /\ pc' = [pc EXCEPT ![j] = w]
      /\ w \in {"tagging", "company", "committing"}
      /\ w = "company" => reqOf[j].op = "import.run"
      /\ w = "committing" => reqOf[j].op = "tag.create"
      /\ tagOf' \in [Job -> Nat \cup {None}]
      /\ UNCHANGED <<tables, store, order, mix>>
      /\ UNCHANGED <<plan, landed, total, pages, told, log, began, ended, listed>>
  BY <1>1, <1>2 DEF FindTag, Goes, Goto, AfterTag, history
<1>4. w \in Where /\ w \in Working \cup {"ok"} /\ pc[j] # "ok" /\ w \in Working
  BY <1>1, <1>3 DEF Where, Working
<1>5. /\ plan'[j] = <<>> /\ landed'[j] = <<>> /\ Len(plan'[j]) = 0
  BY <1>1, <1>3, EmptySeq DEF Fits
<1>6. Importing(j) => (Rows(j) # <<>> <=> 0 < Len(Rows(j)))
  BY <1>1, RowsThere
<1>7. pc'[j] = w
  OBVIOUS
<1>. HIDE DEF w
<1>8. Fits(j)'
  BY <1>1, <1>3, <1>4, <1>5, <1>6, <1>7 DEF Fits, Working, Planning, Writing, Rows, Importing
<1>. QED
  BY <1>3, <1>4, <1>8, Aside DEF Core, Types, TypeOK

LEMMA CreateTagKeeps ==
  ASSUME Core, NEW j \in mix, CreateTag(j)
  PROVE  Core'
<1>1. /\ j \in Job /\ pc[j] = "tagging" /\ reqOf[j].op \in {"import.run", "tag.create"}
      /\ pc \in [Job -> Where] /\ tagOf \in [Job -> Nat \cup {None}] /\ tag \in TableOf(TagRow)
      /\ mix \in SUBSET Job /\ Fits(j) /\ reqOf[j].label \in Text
  BY CallFacts DEF CreateTag, Core, Types, TypeOK, Fits
<1>. DEFINE w == pc'[j]
            row == [name |-> reqOf[j].label, by |-> j]
<1>2. CASE Fail(j)
  BY <1>2, FailKeeps
<1>3. CASE ~Fail(j)
  <2>1. /\ TagsCalled(reqOf[j].label) = {}
        /\ tag' = Append(tag, row)
        /\ tagOf' = [tagOf EXCEPT ![j] = Len(tag) + 1]
        /\ pc' = [pc EXCEPT ![j] = w]
        /\ w \in {"company", "committing"}
        /\ w = "company" => reqOf[j].op = "import.run"
        /\ w = "committing" => reqOf[j].op = "tag.create"
        /\ UNCHANGED <<store, order, mix, company, person, lead, link>>
        /\ UNCHANGED <<plan, landed, total, pages, told, log, began, ended, listed>>
    BY <1>1, <1>3 DEF CreateTag, Goto, AfterTag, history
  <2>2. w \in Where /\ w \in Working /\ pc[j] # "ok" /\ pc[j] \in Working
    BY <1>1, <2>1 DEF Where, Working
  <2>3. row \in TagRow /\ row.by = j /\ row.name = reqOf[j].label
    BY <1>1 DEF TagRow, By
  <2>4. /\ plan'[j] = <<>> /\ landed'[j] = <<>> /\ Len(plan'[j]) = 0
    BY <1>1, <2>1, EmptySeq DEF Fits
  <2>5. Importing(j) => (Rows(j) # <<>> <=> 0 < Len(Rows(j)))
    BY <1>1, RowsThere
  <2>6. pc'[j] = w
    OBVIOUS
  <2>. HIDE DEF w, row
  <2>7. Fits(j)'
    BY <1>1, <2>1, <2>2, <2>4, <2>5, <2>6 DEF Fits, Working, Planning, Writing, Rows, Importing
  <2>8. \A k \in Job : Fits(k)'
    BY <1>1, <2>1, <2>7, FitsAside DEF Core
  <2>9. /\ Append(tag, row) \in TableOf(TagRow)
        /\ DOMAIN Append(tag, row) = DOMAIN tag \cup {Len(tag) + 1}
        /\ Len(tag) + 1 \in Nat /\ Len(tag) + 1 \notin DOMAIN tag
        /\ \A n \in DOMAIN tag : Append(tag, row)[n] = tag[n]
        /\ Append(tag, row)[Len(tag) + 1] = row
    BY <1>1, <2>3, AppendFacts
  <2>10. Types'
    BY <1>1, <2>1, <2>2, <2>9 DEF Core, Types, TypeOK
  <2>11. /\ OwnedIn(company, pc', mix') /\ NewestIn(company, pc', mix')
         /\ OwnedIn(person, pc', mix') /\ NewestIn(person, pc', mix')
         /\ OwnedIn(lead, pc', mix') /\ NewestIn(lead, pc', mix')
    BY <2>1, <2>2, TableAside DEF Core, Tables
  <2>12. OwnedIn(tag', pc', mix')
    BY <1>1, <2>1, <2>2, <2>3, AppendKeeps DEF Core, Tables
  <2>13. TagsDiffer'
    <3>1. \A n \in DOMAIN tag : tag[n] # None => tag[n].name # row.name
      BY <2>1, <2>3 DEF TagsCalled
    <3>. QED
      BY <2>1, <2>9, <3>1 DEF Core, Tables, TagsDiffer
  <2>. QED
    BY <2>1, <2>8, <2>10, <2>11, <2>12, <2>13 DEF Core, Tables, LinksKnown
<1>. QED
  BY <1>2, <1>3

\* What a row is planned to have.
LEMMA OldestIn ==
  ASSUME NEW t, NEW ids
  PROVE  Oldest(t, ids) \subseteq ids
BY DEF Oldest

LEMMA RefsType ==
  ASSUME NEW ids \in SUBSET Nat, NEW n \in Nat
  PROVE  Refs(ids, n) \subseteq Ref
BY DEF Refs, Ref, New, Existing

LEMMA CompanyRefsType ==
  ASSUME Core, NEW j \in Job, NEW n \in Nat, n <= Len(plan[j]) + 1,
         NEW ref \in CompanyRefs(j, n)
  PROVE  ref \in Ref
<1>1. /\ plan[j] \in Seq(PlanRow) /\ company \in TableOf(CompanyRow)
      /\ Len(plan[j]) \in Nat /\ \A m \in 1..Len(plan[j]) : plan[j][m] \in PlanRow
  BY ElementOfSeq, LenProperties DEF Core, Types, TypeOK
<1>2. \A m \in 1..n - 1 : plan[j][m].company \in Ref
  <2>. SUFFICES ASSUME NEW m \in 1..n - 1
                PROVE  plan[j][m].company \in Ref
    OBVIOUS
  <2>1. m \in 1..Len(plan[j])
    BY <1>1
  <2>. QED
    BY <1>1, <2>1 DEF PlanRow
<1>3. FindCompanies(j, reqOf[j].csv, Row(j, n)) \in SUBSET Nat
  BY <1>1, OldestIn, TableFacts DEF FindCompanies, Ids
<1>4. Refs(FindCompanies(j, reqOf[j].csv, Row(j, n)), n) \subseteq Ref
  BY <1>3, RefsType
<1>5. NoRef \in Ref
  BY DEF NoRef, Ref
<1>. QED
  BY <1>2, <1>4, <1>5 DEF CompanyRefs

LEMMA PersonRefsType ==
  ASSUME Core, NEW j \in Job, NEW n \in Nat, n <= Len(plan[j]) + 1,
         NEW at, NEW ref \in PersonRefs(j, n, at)
  PROVE  ref \in Ref
<1>1. /\ plan[j] \in Seq(PlanRow) /\ person \in TableOf(PersonRow)
      /\ Len(plan[j]) \in Nat /\ \A m \in 1..Len(plan[j]) : plan[j][m] \in PlanRow
  BY ElementOfSeq, LenProperties DEF Core, Types, TypeOK
<1>2. \A m \in 1..n - 1 : plan[j][m].person \in Ref
  <2>. SUFFICES ASSUME NEW m \in 1..n - 1
                PROVE  plan[j][m].person \in Ref
    OBVIOUS
  <2>1. m \in 1..Len(plan[j])
    BY <1>1
  <2>. QED
    BY <1>1, <2>1 DEF PlanRow
<1>3. \A x : FindPeople(j, reqOf[j].csv, Row(j, n), x) \in SUBSET Nat
  BY <1>1, OldestIn, TableFacts DEF FindPeople, Ids
<1>4. \A x : Refs(FindPeople(j, reqOf[j].csv, Row(j, n), x), n) \subseteq Ref
  BY <1>3, RefsType
<1>5. NoRef \in Ref /\ New(n) \in Ref
  BY DEF NoRef, New, Ref
<1>. QED
  BY <1>2, <1>4, <1>5 DEF PersonRefs

\* What a preview tells are numbers of rows.
LEMMA PreviewCountsType ==
  ASSUME NEW p \in Seq(PlanRow)
  PROVE  PreviewCounts(p) \in Counts
<1>1. /\ Len(p) \in Nat /\ DOMAIN p = 1..Len(p)
      /\ IsFiniteSet(DOMAIN p)
  BY LenProperties, FS_Interval
<1>2. ASSUME NEW what
      PROVE  /\ Cardinality(NewRefs(p, what)) \in Nat
             /\ Cardinality(RowsWith(p, what, {"new", "existing"}))
                  - Cardinality(NewRefs(p, what)) \in Nat
  <2>. DEFINE all == RowsWith(p, what, {"new", "existing"})
              new == RowsWith(p, what, {"new"})
              f == [n \in new |-> p[n][what]]
  <2>1. all \in SUBSET DOMAIN p /\ new \in SUBSET all
    BY DEF RowsWith
  <2>2. IsFiniteSet(all) /\ IsFiniteSet(new) /\ Cardinality(new) <= Cardinality(all)
    BY <1>1, <2>1, FS_Subset
  <2>3. f \in Surjection(new, NewRefs(p, what))
    BY DEF Surjection, NewRefs
  <2>. HIDE DEF f, new
  <2>4. IsFiniteSet(NewRefs(p, what)) /\ Cardinality(NewRefs(p, what)) <= Cardinality(new)
    BY <2>2, <2>3, FS_Surjection
  <2>5. /\ Cardinality(all) \in Nat /\ Cardinality(new) \in Nat
        /\ Cardinality(NewRefs(p, what)) \in Nat
    BY <2>2, <2>4, FS_CardinalityType
  <2>. QED
    BY <2>2, <2>4, <2>5
<1>. QED
  BY <1>2 DEF PreviewCounts, Counts

LEMMA PlanCompanyKeeps ==
  ASSUME Core, NEW j \in mix, PlanCompany(j)
  PROVE  Core'
<1>1. /\ j \in Job /\ pc[j] \in {"company", "preview_company"} /\ Rows(j) # <<>>
      /\ pc \in [Job -> Where] /\ plan \in [Job -> Seq(PlanRow)]
      /\ Fits(j)
  BY DEF PlanCompany, Core, Types, TypeOK
<1>2. Importing(j) /\ landed[j] = <<>> /\ Len(plan[j]) < Len(Rows(j)) /\ Len(plan[j]) \in Nat
  BY <1>1, LenProperties DEF Fits, Planning
<1>. DEFINE w == IF pc[j] = "company" THEN "person" ELSE "preview_person"
<1>3. PICK ref \in CompanyRefs(j, Len(plan[j]) + 1) :
        /\ plan' = [plan EXCEPT ![j] = Append(@, [company |-> ref, person |-> NoRef])]
        /\ pc' = [pc EXCEPT ![j] = w]
        /\ UNCHANGED <<tables, store, order, mix>>
        /\ UNCHANGED <<landed, tagOf, total, pages, told, log, began, ended, listed>>
  BY DEF PlanCompany, Goes, Goto, history
<1>4. ref \in Ref
  BY <1>1, <1>2, <1>3, CompanyRefsType
<1>5. [company |-> ref, person |-> NoRef] \in PlanRow
  BY <1>4 DEF PlanRow, NoRef, Ref
<1>6. /\ plan' \in [Job -> Seq(PlanRow)]
      /\ plan'[j] = Append(plan[j], [company |-> ref, person |-> NoRef])
      /\ Len(plan'[j]) = Len(plan[j]) + 1
      /\ \A k \in Job \ {j} : plan'[k] = plan[k]
  BY <1>1, <1>3, <1>5, AppendProperties
<1>7. /\ w \in {"person", "preview_person"} /\ w \in Where /\ pc[j] # "ok"
      /\ pc[j] \in Working => w \in Working \cup {"ok"}
      /\ pc'[j] = w /\ (w = "preview_person" => reqOf[j].op = "import.run")
  BY <1>1, <1>3 DEF Where, Working, Fits
<1>8. Len(Rows(j)) \in Nat /\ Len(plan[j]) + 1 \in 1..Len(Rows(j)) /\ Rows(j)' = Rows(j)
  BY <1>1, <1>2, RowsType, RowsFixed
<1>. HIDE DEF w
<1>9. Fits(j)'
  BY <1>1, <1>2, <1>3, <1>6, <1>7, <1>8 DEF Fits, Working, Planning, Writing, Importing
<1>. QED
  BY <1>3, <1>6, <1>7, <1>9, Aside DEF Core, Types, TypeOK

LEMMA PlanPersonKeeps ==
  ASSUME Core, NEW j \in mix, PlanPerson(j)
  PROVE  Core'
<1>1. /\ j \in Job /\ pc[j] \in {"person", "preview_person"}
      /\ pc \in [Job -> Where] /\ plan \in [Job -> Seq(PlanRow)]
      /\ told \in [Job -> [preview : Counts \cup {None}, run : Counts \cup {None}]]
      /\ Fits(j)
  BY DEF PlanPerson, Core, Types, TypeOK
<1>2. /\ Importing(j) /\ landed[j] = <<>> /\ Len(plan[j]) \in 1..Len(Rows(j))
      /\ Len(Rows(j)) \in Nat
  BY <1>1, RowsType DEF Fits, Planning
<1>. DEFINE w == pc'[j]
            n == Len(plan[j])
<1>3. PICK ref \in PersonRefs(j, n, plan[j][n].company) :
        plan' = [plan EXCEPT ![j][n].person = ref]
  BY DEF PlanPerson
<1>4. ref \in Ref /\ plan[j][n] \in PlanRow
  <2>1. n \in Nat /\ n <= Len(plan[j]) + 1 /\ n \in 1..Len(plan[j])
    BY <1>2
  <2>2. plan[j] \in Seq(PlanRow)
    BY <1>1
  <2>. QED
    BY <1>1, <1>3, <2>1, <2>2, ElementOfSeq, PersonRefsType
<1>5. /\ plan' \in [Job -> Seq(PlanRow)]
      /\ Len(plan'[j]) = Len(plan[j])
      /\ \A k \in Job \ {j} : plan'[k] = plan[k]
  <2>1. plan' = [plan EXCEPT ![j] = [plan[j] EXCEPT ![n] = [plan[j][n] EXCEPT !.person = ref]]]
    BY <1>3
  <2>2. [plan[j][n] EXCEPT !.person = ref] \in PlanRow
    BY <1>4 DEF PlanRow
  <2>3. plan[j] \in Seq(PlanRow) /\ n \in 1..Len(plan[j])
    BY <1>1, <1>2
  <2>4. /\ [plan[j] EXCEPT ![n] = [plan[j][n] EXCEPT !.person = ref]] \in Seq(PlanRow)
        /\ Len([plan[j] EXCEPT ![n] = [plan[j][n] EXCEPT !.person = ref]]) = n
    BY <2>2, <2>3, ExceptSeq
  <2>. QED
    BY <1>1, <2>1, <2>4
<1>6. PreviewCounts(plan'[j]) \in Counts /\ Zero \in Counts
  BY <1>1, <1>5, PreviewCountsType DEF Zero, Counts
<1>7. /\ pc' = [pc EXCEPT ![j] = w]
      /\ UNCHANGED <<tables, store, order, mix>>
      /\ UNCHANGED <<landed, tagOf, total, pages, log, began, ended, listed>>
      /\ told' \in [Job -> [preview : Counts \cup {None}, run : Counts \cup {None}]]
      /\ \A k \in Job \ {j} : told'[k] = told[k]
      /\ \/ w = "company" /\ pc[j] = "person" /\ n < Len(Rows(j))
         \/ w = "preview_company" /\ pc[j] = "preview_person" /\ n < Len(Rows(j))
         \/ /\ w = "writing" /\ pc[j] = "person" /\ reqOf[j].op = "import.run"
            /\ n = Len(Rows(j)) /\ told'[j].run = Zero
         \/ w = "committing" /\ pc[j] = "person" /\ reqOf[j].op # "import.run"
         \/ w = "asked" /\ pc[j] = "preview_person"
  <2>1. Planned(j) /\ UNCHANGED <<landed, tagOf, total, pages>>
    BY DEF PlanPerson
  <2>2. CASE n < Len(Rows(j))
    <3>1. /\ Goes(j, IF pc[j] = "person" THEN "company" ELSE "preview_company")
          /\ told' = told
      BY <2>1, <2>2 DEF Planned
    <3>. QED
      BY <1>1, <2>1, <2>2, <3>1 DEF Goes, Goto, history
  <2>3. CASE ~(n < Len(Rows(j))) /\ pc[j] = "person" /\ reqOf[j].op = "import.run"
    <3>1. Goes(j, "writing") /\ told' = [told EXCEPT ![j].run = Zero]
      BY <2>1, <2>3 DEF Planned
    <3>2. n = Len(Rows(j))
      BY <1>2, <2>3
    <3>3. /\ told' \in [Job -> [preview : Counts \cup {None}, run : Counts \cup {None}]]
          /\ \A k \in Job \ {j} : told'[k] = told[k]
          /\ told'[j].run = Zero
      BY <1>1, <1>6, <3>1
    <3>. QED
      BY <1>1, <2>1, <2>3, <3>1, <3>2, <3>3 DEF Goes, Goto, history
  <2>4. CASE ~(n < Len(Rows(j))) /\ ~(pc[j] = "person" /\ reqOf[j].op = "import.run")
    <3>1. /\ told' = [told EXCEPT ![j].preview = PreviewCounts(plan'[j])]
          /\ Goes(j, IF pc[j] = "person" THEN "committing" ELSE "asked")
      BY <2>1, <2>4 DEF Planned
    <3>. QED
      BY <1>1, <1>6, <2>1, <2>4, <3>1 DEF Goes, Goto, history
  <2>. QED
    BY <2>2, <2>3, <2>4
<1>8. /\ w \in Where /\ pc[j] # "ok"
      /\ pc[j] \in Working => w \in Working \cup {"ok"}
  BY <1>1, <1>7 DEF Where, Working
<1>9. pc'[j] = w /\ (pc[j] = "preview_person" => reqOf[j].op = "import.run")
  BY <1>1 DEF Fits
<1>10. Rows(j) # <<>> /\ Rows(j)' = Rows(j) /\ Len(landed[j]) = 0
  BY <1>1, <1>2, RowsThere, RowsFixed, EmptySeq
<1>11. told'[j].run \in Counts \/ w # "writing"
  BY <1>6, <1>7
<1>12. Len(plan'[j]) = n /\ n \in 1..Len(Rows(j)) /\ landed'[j] = <<>>
  BY <1>2, <1>5, <1>7
<1>. HIDE DEF w, n
<1>13. Fits(j)'
  BY <1>1, <1>2, <1>7, <1>9, <1>10, <1>11, <1>12
     DEF Fits, Working, Planning, Writing, Importing
<1>. QED
  BY <1>5, <1>7, <1>8, <1>13, Aside DEF Core, Types, TypeOK

LEMMA PlanNothingKeeps ==
  ASSUME Core, NEW j \in mix, PlanNothing(j)
  PROVE  Core'
<1>1. /\ j \in Job /\ pc[j] \in {"company", "preview_company"} /\ Rows(j) = <<>>
      /\ pc \in [Job -> Where]
      /\ told \in [Job -> [preview : Counts \cup {None}, run : Counts \cup {None}]]
      /\ Fits(j)
  BY DEF PlanNothing, Core, Types, TypeOK
<1>2. CASE Fail(j)
  BY <1>2, FailKeeps
<1>3. CASE ~Fail(j)
  <2>. DEFINE w == IF pc[j] = "company" THEN "committing" ELSE "asked"
  <2>1. /\ pc' = [pc EXCEPT ![j] = w]
        /\ told' = [told EXCEPT ![j].preview = Zero]
        /\ UNCHANGED <<tables, store, order, mix>>
        /\ UNCHANGED <<plan, landed, tagOf, total, pages, log, began, ended, listed>>
    BY <1>3 DEF PlanNothing, Goes, Goto, history
  <2>2. /\ told' \in [Job -> [preview : Counts \cup {None}, run : Counts \cup {None}]]
        /\ \A k \in Job \ {j} : told'[k] = told[k]
    BY <1>1, <2>1 DEF Zero, Counts
  <2>3. /\ w \in {"committing", "asked"} /\ w \in Where /\ pc[j] # "ok"
        /\ pc[j] \in Working => w \in Working \cup {"ok"}
        /\ pc'[j] = w /\ (w = "asked" => reqOf[j].op = "import.run")
        /\ w = "committing" => reqOf[j].op # "import.run"
    BY <1>1, <2>1 DEF Where, Working, Fits
  <2>. HIDE DEF w
  <2>4. Fits(j)'
    BY <1>1, <2>1, <2>3 DEF Fits, Working, Planning, Writing, Rows, Importing
  <2>. QED
    BY <2>1, <2>2, <2>3, <2>4, Aside DEF Core, Types, TypeOK
<1>. QED
  BY <1>2, <1>3

\* What a row is to be written with, and what was written before it.
LEMMA RefFacts ==
  ASSUME Core, NEW j \in Job, NEW n \in 1..Len(plan[j]), NEW what \in {"company", "person"}
  PROVE  plan[j][n][what] \in Ref
<1>1. plan[j] \in Seq(PlanRow)
  BY DEF Core, Types
<1>2. plan[j][n] \in PlanRow
  BY <1>1, ElementOfSeq
<1>. QED
  BY <1>2 DEF PlanRow

LEMMA MadeType ==
  ASSUME Core, NEW j \in Job, NEW ref, NEW what \in {"company", "person"}
  PROVE  Made(j, ref, what) \in Nat \cup {None}
<1>1. landed[j] \in Seq(LandedRow)
  BY DEF Core, Types
<1>2. \A n \in DOMAIN landed[j] : landed[j][n] \in LandedRow
  BY <1>1, ElementOfSeq, LenProperties
<1>. QED
  BY <1>2 DEF Made, LandedRow

\* The counter of a table lets in one transaction at a time.
LEMMA NumberedAlone ==
  ASSUME Core, NEW j \in mix, NEW t, NextDisplayId(j, t)
  PROVE  \A n \in DOMAIN t :
           t[n] # None /\ t[n].by \in mix /\ pc[t[n].by] \in Working => t[n].by = j
BY DEF NextDisplayId, Holders, MadeBy, Open

\* An import counts what it does.
LEMMA CountsGrow ==
  ASSUME Core, NEW j \in Job, told[j].run \in Counts,
         \/ told' = told
         \/ told' = [told EXCEPT ![j].run.newCompanies = @ + 1]
         \/ told' = [told EXCEPT ![j].run.companyMatches = @ + 1]
         \/ told' = [told EXCEPT ![j].run.newPeople = @ + 1]
         \/ told' = [told EXCEPT ![j].run.peopleMatches = @ + 1]
  PROVE  /\ told' \in [Job -> [preview : Counts \cup {None}, run : Counts \cup {None}]]
         /\ \A k \in Job \ {j} : told'[k] = told[k]
         /\ told'[j].run \in Counts
<1>1. told \in [Job -> [preview : Counts \cup {None}, run : Counts \cup {None}]]
  BY DEF Core, Types, TypeOK
<1>2. told[j] \in [preview : Counts \cup {None}, run : Counts \cup {None}]
  BY <1>1
<1>. DEFINE run == told[j].run
<1>3. /\ [run EXCEPT !.newCompanies = @ + 1] \in Counts
      /\ [run EXCEPT !.companyMatches = @ + 1] \in Counts
      /\ [run EXCEPT !.newPeople = @ + 1] \in Counts
      /\ [run EXCEPT !.peopleMatches = @ + 1] \in Counts
  BY DEF Counts
<1>4. PICK c \in Counts : told' = [told EXCEPT ![j] = [told[j] EXCEPT !.run = c]]
  <2>1. CASE told' = told
    <3>1. told' = [told EXCEPT ![j] = [told[j] EXCEPT !.run = run]]
      BY <1>1, <1>2, <2>1
    <3>. QED
      BY <3>1
  <2>2. CASE told' = [told EXCEPT ![j].run.newCompanies = @ + 1]
    <3>1. told' = [told EXCEPT ![j] = [told[j] EXCEPT !.run = [run EXCEPT !.newCompanies = @ + 1]]]
      BY <2>2
    <3>. QED
      BY <1>3, <3>1
  <2>3. CASE told' = [told EXCEPT ![j].run.companyMatches = @ + 1]
    <3>1. told' = [told EXCEPT ![j] = [told[j] EXCEPT !.run = [run EXCEPT !.companyMatches = @ + 1]]]
      BY <2>3
    <3>. QED
      BY <1>3, <3>1
  <2>4. CASE told' = [told EXCEPT ![j].run.newPeople = @ + 1]
    <3>1. told' = [told EXCEPT ![j] = [told[j] EXCEPT !.run = [run EXCEPT !.newPeople = @ + 1]]]
      BY <2>4
    <3>. QED
      BY <1>3, <3>1
  <2>5. CASE told' = [told EXCEPT ![j].run.peopleMatches = @ + 1]
    <3>1. told' = [told EXCEPT ![j] = [told[j] EXCEPT !.run = [run EXCEPT !.peopleMatches = @ + 1]]]
      BY <2>5
    <3>. QED
      BY <1>3, <3>1
  <2>. QED
    BY <2>1, <2>2, <2>3, <2>4, <2>5
<1>. QED
  BY <1>1, <1>2, <1>4

LEMMA WriteCompanyKeeps ==
  ASSUME Core, NEW j \in mix, WriteCompany(j)
  PROVE  Core'
<1>1. /\ j \in Job /\ pc[j] = "writing" /\ mix \in SUBSET Job
      /\ pc \in [Job -> Where] /\ landed \in [Job -> Seq(LandedRow)]
      /\ told \in [Job -> [preview : Counts \cup {None}, run : Counts \cup {None}]]
      /\ company \in TableOf(CompanyRow) /\ Fits(j)
  BY DEF WriteCompany, Core, Types, TypeOK
<1>2. /\ reqOf[j].op = "import.run" /\ Importing(j) /\ Len(plan[j]) = Len(Rows(j))
      /\ told[j].run \in Counts /\ Len(landed[j]) < Len(Rows(j))
      /\ Len(landed[j]) \in Nat /\ Len(Rows(j)) \in Nat
      /\ RowNow(j) = Len(landed[j]) + 1 /\ RowNow(j) \in 1..Len(Rows(j))
      /\ Rows(j)' = Rows(j) /\ Rows(j) # <<>>
  <2>1. /\ reqOf[j].op = "import.run" /\ Len(plan[j]) = Len(Rows(j))
        /\ told[j].run \in Counts /\ Len(landed[j]) < Len(Rows(j))
    BY <1>1 DEF Fits, Writing, Working
  <2>2. Len(landed[j]) \in Nat /\ Len(Rows(j)) \in Nat /\ Rows(j)' = Rows(j)
    BY <1>1, <2>1, RowsType, RowsFixed, LenProperties DEF Importing
  <2>3. Rows(j) # <<>>
    BY <1>1, <2>1, <2>2, RowsThere DEF Importing
  <2>. QED
    BY <2>1, <2>2, <2>3 DEF RowNow, Importing
<1>. DEFINE n == RowNow(j)
            ref == plan[j][n].company
            id == IF ref.kind = "existing" THEN ref.of ELSE Made(j, ref, "company")
<1>3. ref \in Ref
  BY <1>1, <1>2, RefFacts
<1>4. id \in Nat \cup {None}
  BY <1>1, <1>3, MadeType DEF Ref
<1>5. PICK at :
        /\ landed' = [landed EXCEPT ![j] = Append(@, [company |-> at, person |-> None, lead |-> None])]
        /\ \/ ref.kind = "none" /\ at = None /\ UNCHANGED <<company, told>>
           \/ /\ at = id
              /\ told' = [told EXCEPT ![j].run.companyMatches = @ + 1]
              /\ UNCHANGED company
           \/ /\ NextDisplayId(j, company)
              /\ company' = Append(company, NewCompany(j, n))
              /\ at = Len(company) + 1
              /\ told' = [told EXCEPT ![j].run.newCompanies = @ + 1]
  BY DEF WriteCompany, Land
<1>6. /\ pc' = [pc EXCEPT ![j] = "landing"]
      /\ UNCHANGED <<store, order, mix, person, lead, tag, link>>
      /\ UNCHANGED <<plan, tagOf, total, pages, log, began, ended, listed>>
  BY DEF WriteCompany, Goto, history
<1>7. NewCompany(j, n) \in CompanyRow /\ NewCompany(j, n).by = j
  <2>1. Row(j, n) \in NamedRow
    BY <1>1, <1>2, RowsType
  <2>. QED
    BY <1>1, <2>1 DEF NewCompany, CompanyRow, By, NamedRow, CsvRow, Field
<1>8. at \in Nat \cup {None}
  BY <1>1, <1>4, <1>5, <1>7, AppendFacts
<1>. HIDE DEF ref, id, n
<1>9. /\ told' \in [Job -> [preview : Counts \cup {None}, run : Counts \cup {None}]]
      /\ \A k \in Job \ {j} : told'[k] = told[k]
      /\ told'[j].run \in Counts
  BY <1>1, <1>2, <1>5, CountsGrow
<1>10. /\ landed' \in [Job -> Seq(LandedRow)]
       /\ Len(landed'[j]) = Len(landed[j]) + 1
       /\ \A k \in Job \ {j} : landed'[k] = landed[k]
  <2>1. [company |-> at, person |-> None, lead |-> None] \in LandedRow
    BY <1>8 DEF LandedRow
  <2>2. /\ Append(landed[j], [company |-> at, person |-> None, lead |-> None]) \in Seq(LandedRow)
        /\ Len(Append(landed[j], [company |-> at, person |-> None, lead |-> None]))
             = Len(landed[j]) + 1
    BY <1>1, <2>1, AppendProperties
  <2>. QED
    BY <1>1, <1>5, <2>2
<1>11. /\ "landing" \in Where /\ "landing" \in Working /\ pc[j] # "ok" /\ pc[j] \in Working
  BY <1>1 DEF Where, Working
<1>12. Fits(j)'
  BY <1>1, <1>2, <1>6, <1>9, <1>10 DEF Fits, Working, Planning, Writing, Importing
<1>13. \A k \in Job : Fits(k)'
  BY <1>1, <1>6, <1>9, <1>10, <1>12, FitsAside DEF Core
<1>14. CASE company' = company
  <2>1. UNCHANGED tables
    BY <1>6, <1>14 DEF tables
  <2>. QED
    BY <1>6, <1>9, <1>10, <1>11, <1>12, <2>1, Aside DEF Core, Types, TypeOK
<1>15. CASE NextDisplayId(j, company) /\ company' = Append(company, NewCompany(j, n))
  <2>1. Types'
    BY <1>1, <1>6, <1>7, <1>9, <1>10, <1>11, <1>15, AppendFacts DEF Core, Types, TypeOK
  <2>2. /\ OwnedIn(tag, pc', mix')
        /\ OwnedIn(person, pc', mix') /\ NewestIn(person, pc', mix')
        /\ OwnedIn(lead, pc', mix') /\ NewestIn(lead, pc', mix')
    BY <1>6, <1>11, TableAside DEF Core, Tables
  <2>3. OwnedIn(company', pc', mix') /\ NewestIn(company', pc', mix')
    <3>1. OwnedIn(company, pc, mix) /\ NewestIn(company, pc, mix)
      BY DEF Core, Tables
    <3>2. \A m \in DOMAIN company : company[m] # None /\ company[m].by \in mix
                                     /\ pc[company[m].by] \in Working => company[m].by = j
      BY <1>15, NumberedAlone
    <3>. QED
      BY <1>1, <1>6, <1>7, <1>11, <1>15, <3>1, <3>2, AppendKeeps
  <2>. QED
    BY <1>6, <1>13, <2>1, <2>2, <2>3 DEF Core, Tables, TagsDiffer, LinksKnown
<1>. QED
  BY <1>5, <1>14, <1>15

LEMMA WritePersonKeeps ==
  ASSUME Core, NEW j \in mix, WritePerson(j)
  PROVE  Core'
<1>1. /\ j \in Job /\ pc[j] = "landing" /\ mix \in SUBSET Job
      /\ pc \in [Job -> Where] /\ landed \in [Job -> Seq(LandedRow)]
      /\ told \in [Job -> [preview : Counts \cup {None}, run : Counts \cup {None}]]
      /\ person \in TableOf(PersonRow) /\ Fits(j)
  BY DEF WritePerson, Core, Types, TypeOK
<1>. DEFINE n == Len(landed[j])
            ref == plan[j][n].person
            id == IF ref.kind = "existing" THEN ref.of ELSE Made(j, ref, "person")
<1>2. /\ reqOf[j].op = "import.run" /\ Importing(j) /\ Len(plan[j]) = Len(Rows(j))
      /\ told[j].run \in Counts /\ n \in 1..Len(Rows(j)) /\ Len(Rows(j)) \in Nat
      /\ Rows(j)' = Rows(j) /\ Rows(j) # <<>>
  <2>1. /\ reqOf[j].op = "import.run" /\ Len(plan[j]) = Len(Rows(j))
        /\ told[j].run \in Counts /\ n \in 1..Len(Rows(j))
    BY <1>1 DEF Fits, Writing, Working
  <2>2. Len(Rows(j)) \in Nat /\ Rows(j)' = Rows(j)
    BY <1>1, <2>1, RowsType, RowsFixed DEF Importing
  <2>3. Rows(j) # <<>>
    BY <1>1, <2>1, <2>2, RowsThere DEF Importing
  <2>. QED
    BY <2>1, <2>2, <2>3 DEF Importing
<1>3. ref \in Ref
  BY <1>1, <1>2, RefFacts
<1>4. id \in Nat \cup {None}
  BY <1>1, <1>3, MadeType DEF Ref
<1>5. \/ UNCHANGED <<tables, landed, told>>
      \/ /\ id # None /\ landed' = [landed EXCEPT ![j][n].person = id]
         /\ told' = [told EXCEPT ![j].run.peopleMatches = @ + 1]
         /\ UNCHANGED tables
      \/ /\ NextDisplayId(j, person)
         /\ person' = Append(person, NewPerson(j, n))
         /\ link' = link \cup LinkMade(j, Len(person) + 1)
         /\ landed' = [landed EXCEPT ![j][n].person = Len(person) + 1]
         /\ told' = [told EXCEPT ![j].run.newPeople = @ + 1]
         /\ UNCHANGED <<company, lead, tag>>
  BY DEF WritePerson
<1>6. /\ pc' = [pc EXCEPT ![j] = "finding"]
      /\ UNCHANGED <<store, order, mix>>
      /\ UNCHANGED <<plan, tagOf, total, pages, log, began, ended, listed>>
  BY DEF WritePerson, Goto, history
<1>7. NewPerson(j, n) \in PersonRow /\ NewPerson(j, n).by = j
  <2>1. Row(j, n) \in NamedRow
    BY <1>1, <1>2, RowsType
  <2>. QED
    BY <1>1, <2>1 DEF NewPerson, PersonRow, By, NamedRow, CsvRow, Field
<1>8. Len(person) + 1 \in Nat
  BY <1>1, <1>7, AppendFacts
<1>9. landed[j][n] \in LandedRow /\ landed[j] \in Seq(LandedRow) /\ n \in 1..Len(landed[j])
  BY <1>1, <1>2, ElementOfSeq
<1>10. ASSUME NEW at \in Nat, landed' = [landed EXCEPT ![j][n].person = at]
       PROVE  /\ landed' \in [Job -> Seq(LandedRow)]
              /\ Len(landed'[j]) = Len(landed[j])
              /\ \A k \in Job \ {j} : landed'[k] = landed[k]
  <2>1. landed' = [landed EXCEPT ![j] = [landed[j] EXCEPT ![n] = [landed[j][n] EXCEPT !.person = at]]]
    BY <1>10
  <2>2. [landed[j][n] EXCEPT !.person = at] \in LandedRow
    BY <1>9, <1>10 DEF LandedRow
  <2>3. /\ [landed[j] EXCEPT ![n] = [landed[j][n] EXCEPT !.person = at]] \in Seq(LandedRow)
        /\ Len([landed[j] EXCEPT ![n] = [landed[j][n] EXCEPT !.person = at]]) = n
    BY <1>9, <2>2, ExceptSeq
  <2>. QED
    BY <1>1, <2>1, <2>3
<1>11. /\ landed' \in [Job -> Seq(LandedRow)]
       /\ Len(landed'[j]) = Len(landed[j])
       /\ \A k \in Job \ {j} : landed'[k] = landed[k]
  BY <1>1, <1>4, <1>5, <1>8, <1>10
<1>12. /\ told' \in [Job -> [preview : Counts \cup {None}, run : Counts \cup {None}]]
       /\ \A k \in Job \ {j} : told'[k] = told[k]
       /\ told'[j].run \in Counts
  BY <1>1, <1>2, <1>5, CountsGrow
<1>. HIDE DEF ref, id
<1>13. /\ "finding" \in Where /\ "finding" \in Working /\ pc[j] # "ok" /\ pc[j] \in Working
  BY <1>1 DEF Where, Working
<1>14. Fits(j)'
  BY <1>1, <1>2, <1>6, <1>11, <1>12 DEF Fits, Working, Planning, Writing, Importing
<1>15. \A k \in Job : Fits(k)'
  BY <1>1, <1>6, <1>11, <1>12, <1>14, FitsAside DEF Core
<1>16. CASE UNCHANGED tables
  BY <1>6, <1>11, <1>12, <1>13, <1>14, <1>16, Aside DEF Core, Types, TypeOK
<1>17. CASE /\ NextDisplayId(j, person)
            /\ person' = Append(person, NewPerson(j, n))
            /\ link' = link \cup LinkMade(j, Len(person) + 1)
            /\ UNCHANGED <<company, lead, tag>>
  <2>1. \A l \in LinkMade(j, Len(person) + 1) :
          l \in LinkRow /\ l.person = Len(person) + 1 /\ l.by = j
    BY <1>1, <1>8, <1>9 DEF LinkMade, LinkRow, LandedRow, By
  <2>2. link' \subseteq LinkRow
    BY <1>17, <2>1 DEF Core, Types, TypeOK
  <2>3. Types'
    BY <1>1, <1>6, <1>7, <1>11, <1>12, <1>13, <1>17, <2>2, AppendFacts DEF Core, Types, TypeOK
  <2>4. /\ OwnedIn(tag, pc', mix')
        /\ OwnedIn(company, pc', mix') /\ NewestIn(company, pc', mix')
        /\ OwnedIn(lead, pc', mix') /\ NewestIn(lead, pc', mix')
    BY <1>6, <1>13, TableAside DEF Core, Tables
  <2>5. OwnedIn(person', pc', mix') /\ NewestIn(person', pc', mix')
    <3>1. OwnedIn(person, pc, mix) /\ NewestIn(person, pc, mix)
      BY DEF Core, Tables
    <3>2. \A m \in DOMAIN person : person[m] # None /\ person[m].by \in mix
                                    /\ pc[person[m].by] \in Working => person[m].by = j
      BY <1>17, NumberedAlone
    <3>. QED
      BY <1>1, <1>6, <1>7, <1>13, <1>17, <3>1, <3>2, AppendKeeps
  <2>6. LinksKnown'
    <3>1. /\ DOMAIN person' = DOMAIN person \cup {Len(person) + 1}
          /\ \A m \in DOMAIN person : person'[m] = person[m]
          /\ person'[Len(person) + 1] = NewPerson(j, n)
      BY <1>1, <1>7, <1>17, AppendFacts
    <3>2. NewPerson(j, n) # None
      BY <1>7, NoneAssumption
    <3>. QED
      BY <1>7, <1>17, <2>1, <3>1, <3>2 DEF Core, Tables, LinksKnown
  <2>. QED
    BY <1>6, <1>15, <1>17, <2>3, <2>4, <2>5, <2>6 DEF Core, Tables, TagsDiffer
<1>. QED
  BY <1>5, <1>16, <1>17

\* An import between its rows, or at their end.
LEMMA RowDone ==
  ASSUME Core, NEW j \in mix, pc[j] \in {"finding", "leading"},
         pc' = [pc EXCEPT ![j] = AfterRow(j)], UNCHANGED <<plan, told>>,
         landed' \in [Job -> Seq(LandedRow)], Len(landed'[j]) = Len(landed[j])
  PROVE  /\ Fits(j)'
         /\ AfterRow(j) \in Where /\ AfterRow(j) \in Working
<1>1. j \in Job /\ pc \in [Job -> Where] /\ Fits(j) /\ AfterRow(j) \in {"committing", "writing"}
  BY DEF Core, Types, AfterRow
<1>2. /\ reqOf[j].op = "import.run" /\ Importing(j) /\ Len(plan[j]) = Len(Rows(j))
      /\ told[j].run \in Counts /\ Len(landed[j]) \in 1..Len(Rows(j))
  BY <1>1 DEF Fits, Writing, Working, Importing
<1>3. Rows(j)' = Rows(j) /\ Len(Rows(j)) \in Nat /\ Rows(j) # <<>>
  BY <1>1, <1>2, RowsType, RowsFixed, RowsThere
<1>4. AfterRow(j) = "committing" <=> Len(landed[j]) = Len(Rows(j))
  BY DEF AfterRow
<1>5. pc'[j] = AfterRow(j)
  BY <1>1
<1>6. Fits(j)'
  BY <1>1, <1>2, <1>3, <1>4, <1>5 DEF Fits, Working, Planning, Writing, Importing
<1>. QED
  BY <1>1, <1>6 DEF Where, Working

LEMMA FindLeadKeeps ==
  ASSUME Core, NEW j \in mix, FindLead(j)
  PROVE  Core'
<1>. DEFINE n == Len(landed[j])
            there == FindLeads(j, reqOf[j].csv, Row(j, n), landed[j][n])
<1>1. /\ j \in Job /\ pc[j] = "finding" /\ pc \in [Job -> Where]
      /\ landed \in [Job -> Seq(LandedRow)] /\ lead \in TableOf(LeadRow) /\ Fits(j)
      /\ n \in 1..Len(Rows(j))
  BY DEF FindLead, Core, Types, TypeOK, Fits, Writing, Working
<1>2. /\ UNCHANGED <<tables, store, order, mix>>
      /\ UNCHANGED <<plan, tagOf, total, pages, told, log, began, ended, listed>>
  BY DEF FindLead, Goes, Goto, history
<1>3. pc[j] # "ok" /\ pc[j] \in Working /\ "leading" \in Where /\ "leading" \in Working
  BY <1>1 DEF Where, Working
<1>4. CASE UNCHANGED landed /\ pc' = [pc EXCEPT ![j] = "leading"]
  <2>1. Rows(j)' = Rows(j)
    BY <1>1, RowsFixed
  <2>2. Fits(j)'
    BY <1>1, <1>2, <1>4, <2>1 DEF Fits, Working, Planning, Writing, Importing
  <2>. QED
    BY <1>2, <1>3, <1>4, <2>2, Aside DEF Core, Types, TypeOK
<1>5. CASE \E id \in Oldest(lead, there) :
             landed' = [landed EXCEPT ![j][n].lead = id] /\ pc' = [pc EXCEPT ![j] = AfterRow(j)]
  <2>1. PICK id \in Oldest(lead, there) :
             landed' = [landed EXCEPT ![j][n].lead = id] /\ pc' = [pc EXCEPT ![j] = AfterRow(j)]
    BY <1>5
  <2>2. id \in Nat
    BY <1>1, <2>1, OldestIn, TableFacts DEF FindLeads, Ids
  <2>3. landed[j][n] \in LandedRow /\ landed[j] \in Seq(LandedRow) /\ n \in 1..Len(landed[j])
    BY <1>1, ElementOfSeq
  <2>4. /\ landed' \in [Job -> Seq(LandedRow)]
        /\ Len(landed'[j]) = Len(landed[j])
        /\ \A k \in Job \ {j} : landed'[k] = landed[k]
    <3>1. landed' = [landed EXCEPT ![j] = [landed[j] EXCEPT ![n] = [landed[j][n] EXCEPT !.lead = id]]]
      BY <2>1
    <3>2. [landed[j][n] EXCEPT !.lead = id] \in LandedRow
      BY <2>2, <2>3 DEF LandedRow
    <3>3. /\ [landed[j] EXCEPT ![n] = [landed[j][n] EXCEPT !.lead = id]] \in Seq(LandedRow)
          /\ Len([landed[j] EXCEPT ![n] = [landed[j][n] EXCEPT !.lead = id]]) = n
      BY <2>3, <3>2, ExceptSeq
    <3>. QED
      BY <1>1, <3>1, <3>3
  <2>5. Fits(j)' /\ AfterRow(j) \in Where /\ AfterRow(j) \in Working
    BY <1>1, <1>2, <2>1, <2>4, RowDone
  <2>. QED
    BY <1>2, <1>3, <2>1, <2>4, <2>5, Aside DEF Core, Types, TypeOK
<1>. QED
  BY <1>4, <1>5 DEF FindLead, Goes, Goto

LEMMA WriteLeadKeeps ==
  ASSUME Core, NEW j \in mix, WriteLead(j)
  PROVE  Core'
<1>. DEFINE n == Len(landed[j])
<1>1. /\ j \in Job /\ pc[j] = "leading" /\ pc \in [Job -> Where] /\ mix \in SUBSET Job
      /\ landed \in [Job -> Seq(LandedRow)] /\ lead \in TableOf(LeadRow) /\ Fits(j)
      /\ reqOf[j].op = "import.run" /\ n \in 1..Len(Rows(j))
  BY DEF WriteLead, Core, Types, TypeOK, Fits, Writing, Working
<1>2. CASE Fail(j)
  BY <1>2, FailKeeps
<1>3. CASE ~Fail(j)
  <2>1. /\ lead' = Append(lead, NewLead(j, n))
        /\ landed' = [landed EXCEPT ![j][n].lead = Len(lead) + 1]
        /\ pc' = [pc EXCEPT ![j] = AfterRow(j)]
        /\ UNCHANGED <<company, person, tag, link, store, order, mix>>
        /\ UNCHANGED <<plan, tagOf, total, pages, told, log, began, ended, listed>>
        /\ NextDisplayId(j, lead)
    BY <1>3 DEF WriteLead, Goto, history
  <2>2. landed[j][n] \in LandedRow /\ landed[j] \in Seq(LandedRow) /\ n \in 1..Len(landed[j])
    BY <1>1, ElementOfSeq
  <2>3. NewLead(j, n) \in LeadRow /\ NewLead(j, n).by = j
    <3>1. Row(j, n) \in NamedRow /\ reqOf[j].label \in Text
      BY <1>1, RowsType, CallFacts DEF Importing
    <3>2. LeadSource(j, Row(j, n)) \in Text \cup {None}
      BY <3>1 DEF LeadSource, NamedRow, CsvRow, Field
    <3>3. Row(j, n)["engagement.channel"] \in Text \cup {None}
      BY <3>1 DEF NamedRow, CsvRow, Field
    <3>. QED
      BY <1>1, <2>2, <3>2, <3>3 DEF NewLead, LeadRow, LandedRow, By
  <2>4. /\ landed' \in [Job -> Seq(LandedRow)]
        /\ Len(landed'[j]) = Len(landed[j])
        /\ \A k \in Job \ {j} : landed'[k] = landed[k]
    <3>0. Len(lead) + 1 \in Nat
      BY <1>1, <2>3, AppendFacts
    <3>1. landed' = [landed EXCEPT ![j] = [landed[j] EXCEPT ![n] =
                                             [landed[j][n] EXCEPT !.lead = Len(lead) + 1]]]
      BY <2>1
    <3>2. [landed[j][n] EXCEPT !.lead = Len(lead) + 1] \in LandedRow
      BY <2>2, <3>0 DEF LandedRow
    <3>3. /\ [landed[j] EXCEPT ![n] = [landed[j][n] EXCEPT !.lead = Len(lead) + 1]] \in Seq(LandedRow)
          /\ Len([landed[j] EXCEPT ![n] = [landed[j][n] EXCEPT !.lead = Len(lead) + 1]]) = n
      BY <2>2, <3>2, ExceptSeq
    <3>. QED
      BY <1>1, <3>1, <3>3
  <2>5. Fits(j)' /\ AfterRow(j) \in Where /\ AfterRow(j) \in Working
    BY <1>1, <2>1, <2>4, RowDone
  <2>6. pc[j] # "ok" /\ pc[j] \in Working
    BY <1>1 DEF Working
  <2>7. \A k \in Job : Fits(k)'
    BY <1>1, <2>1, <2>4, <2>5, FitsAside DEF Core
  <2>8. Types'
    BY <1>1, <2>1, <2>3, <2>4, <2>5, AppendFacts DEF Core, Types, TypeOK
  <2>9. /\ OwnedIn(tag, pc', mix')
        /\ OwnedIn(company, pc', mix') /\ NewestIn(company, pc', mix')
        /\ OwnedIn(person, pc', mix') /\ NewestIn(person, pc', mix')
    BY <2>1, <2>5, <2>6, TableAside DEF Core, Tables
  <2>10. OwnedIn(lead', pc', mix') /\ NewestIn(lead', pc', mix')
    <3>1. OwnedIn(lead, pc, mix) /\ NewestIn(lead, pc, mix)
      BY DEF Core, Tables
    <3>2. \A m \in DOMAIN lead : lead[m] # None /\ lead[m].by \in mix
                                  /\ pc[lead[m].by] \in Working => lead[m].by = j
      BY <2>1, NumberedAlone
    <3>. QED
      BY <1>1, <2>1, <2>3, <2>5, <2>6, <3>1, <3>2, AppendKeeps
  <2>. QED
    BY <2>1, <2>7, <2>8, <2>9, <2>10 DEF Core, Tables, TagsDiffer, LinksKnown
<1>. QED
  BY <1>2, <1>3

LEMMA ListedType ==
  ASSUME Core, NEW j
  PROVE  /\ Listed(j) \in SUBSET Nat /\ IsFiniteSet(Listed(j)) /\ Cardinality(Listed(j)) \in Nat
         /\ \A from : Page(j, from) \in SUBSET Listed(j)
<1>1. lead \in TableOf(LeadRow)
  BY DEF Core, Types, TypeOK
<1>2. /\ Len(lead) \in Nat /\ DOMAIN lead = 1..Len(lead)
      /\ IsFiniteSet(DOMAIN lead) /\ DOMAIN lead \in SUBSET Nat
  BY <1>1, TableFacts, FS_Interval
<1>3. Listed(j) \in SUBSET DOMAIN lead
  BY DEF Listed, Ids
<1>4. IsFiniteSet(Listed(j))
  BY <1>2, <1>3, FS_Subset
<1>. QED
  BY <1>2, <1>3, <1>4, FS_CardinalityType DEF Page

LEMMA ExportKeeps ==
  ASSUME Core, NEW j \in mix, CountPage(j) \/ ReadPage(j)
  PROVE  Core'
<1>. DEFINE w == pc'[j]
<1>1. /\ j \in Job /\ pc[j] \in {"counting", "paging"} /\ pc \in [Job -> Where]
      /\ total \in [Job -> Nat] /\ pages \in [Job -> Seq(SUBSET Nat)]
      /\ Fits(j) /\ reqOf[j].op = "export.csv"
  BY DEF CountPage, ReadPage, Core, Types, TypeOK, Fits
<1>2. /\ pc' = [pc EXCEPT ![j] = w]
      /\ w \in {"counting", "paging", "committing"}
      /\ UNCHANGED <<tables, store, order, mix>>
      /\ UNCHANGED <<plan, landed, tagOf, told, log, began, ended, listed>>
  BY <1>1 DEF CountPage, ReadPage, Goes, Goto, history
<1>3. total' \in [Job -> Nat] /\ pages' \in [Job -> Seq(SUBSET Nat)]
  <2>1. CASE CountPage(j)
    BY <1>1, <2>1, ListedType DEF CountPage
  <2>2. CASE ReadPage(j)
    <3>. DEFINE items == Page(j, PageSize * Len(pages[j]))
    <3>1. total' = total /\ pages' = [pages EXCEPT ![j] = Append(@, items)]
      BY <2>2 DEF ReadPage
    <3>2. items \in SUBSET Nat /\ pages[j] \in Seq(SUBSET Nat)
      BY <1>1, ListedType
    <3>3. Append(pages[j], items) \in Seq(SUBSET Nat)
      BY <3>2, AppendProperties
    <3>. QED
      BY <1>1, <3>1, <3>3
  <2>. QED
    BY <2>1, <2>2
<1>4. /\ w \in Where /\ pc[j] # "ok" /\ pc[j] \in Working /\ w \in Working
      /\ pc'[j] = w
  BY <1>1, <1>2 DEF Where, Working
<1>. HIDE DEF w
<1>5. Fits(j)'
  BY <1>1, <1>2, <1>4 DEF Fits, Working, Planning, Writing, Importing
<1>. QED
  BY <1>2, <1>3, <1>4, <1>5, Aside DEF Core, Types, TypeOK

LEMMA CommitKeeps ==
  ASSUME Core, NEW j \in mix, Commit(j)
  PROVE  Core'
<1>1. /\ j \in Job /\ pc[j] = "committing" /\ pc \in [Job -> Where]
      /\ log \in Seq(Job) /\ ended \in [Job -> Nat] /\ Fits(j)
  BY DEF Commit, Core, Types, TypeOK
<1>2. /\ pc' = [pc EXCEPT ![j] = "ok"]
      /\ UNCHANGED <<tables, store, order, mix>>
      /\ UNCHANGED <<plan, landed, tagOf, total, pages, told, began, listed>>
  BY DEF Commit, Goto, Ends, history, locals
<1>3. log' \in Seq(Job) /\ ended' \in [Job -> Nat]
  <2>1. \/ UNCHANGED <<log, ended>>
        \/ log' = Append(log, j) /\ ended' = [ended EXCEPT ![j] = Len(log) + 1]
    BY DEF Commit, Ends, history
  <2>2. Len(log) + 1 \in Nat /\ Append(log, j) \in Seq(Job)
    BY <1>1, LenProperties, AppendProperties
  <2>. QED
    BY <1>1, <2>1, <2>2
<1>4. "ok" \in Where /\ pc[j] # "ok" /\ pc[j] \in Working /\ pc'[j] = "ok" /\ "ok" \notin Working
  BY <1>1, <1>2 DEF Where, Working
<1>5. Rows(j)' = Rows(j)
  BY <1>1, RowsFixed
<1>6. Fits(j)'
  BY <1>1, <1>2, <1>4, <1>5 DEF Fits, Working, Planning, Writing, Importing
<1>. QED
  BY <1>2, <1>3, <1>4, <1>6, Aside DEF Core, Types, TypeOK

\* One row of a table is replaced, by one of the same transaction, or goes.
LEMMA EditedRow ==
  ASSUME NEW R, None \notin R, NEW t \in TableOf(R), NEW id \in DOMAIN t, NEW row,
         row = None \/ (row \in R /\ t[id] # None /\ row.by = t[id].by)
  PROVE  [t EXCEPT ![id] = row] \in TableOf(R) /\ Stays(t, [t EXCEPT ![id] = row])
<1>1. t \in [DOMAIN t -> R \cup {None}]
  <2>1. t \in Seq(R \cup {None})
    BY DEF TableOf
  <2>. QED
    BY <2>1, LenProperties
<1>. QED
  BY <1>1, TableAgain DEF Stays

LEMMA UnchangedTable ==
  ASSUME NEW t
  PROVE  Stays(t, t)
BY DEF Stays

\* What an edit leaves of the tables.
LEMMA EditTables ==
  ASSUME Core, NEW j \in mix, EditRecord(j), ~Fail(j)
  PROVE  /\ company' \in TableOf(CompanyRow) /\ Stays(company, company')
         /\ person' \in TableOf(PersonRow) /\ Stays(person, person')
         /\ \A n \in DOMAIN person : person[n] # None => person'[n] # None
         /\ lead' \in TableOf(LeadRow) /\ Stays(lead, lead')
         /\ tag' \in TableOf(TagRow) /\ Stays(tag, tag')
         /\ \A n \in DOMAIN tag : tag'[n] # None => tag'[n] = tag[n]
         /\ link' \subseteq link
<1>. DEFINE req == reqOf[j]
            id == req.id
<1>1. /\ j \in Job /\ req.op \in Edit \ {"company.unlinkPerson"}
      /\ company \in TableOf(CompanyRow) /\ person \in TableOf(PersonRow)
      /\ lead \in TableOf(LeadRow) /\ tag \in TableOf(TagRow) /\ link \subseteq LinkRow
  BY DEF EditRecord, Core, Types, TypeOK
<1>2. id \in Ids(j, Target(req))
  BY DEF EditRecord
<1>3. /\ company' = CASE req.op = "company.update"
                         -> [company EXCEPT ![id].data[req.field] = req.to]
                     [] req.op = "company.delete" -> [company EXCEPT ![id] = None]
                     [] OTHER -> company
      /\ person' = IF req.op = "person.update"
                   THEN [person EXCEPT ![id].data[req.field] = req.to] ELSE person
      /\ link' = IF req.op = "company.delete" THEN {l \in link : l.company # id} ELSE link
      /\ lead' = CASE req.op = "company.delete" -> Cleared(req)
                   [] req.op = "engagement.update" -> [lead EXCEPT ![id].source = req.to]
                   [] req.op = "engagement.archive" -> [lead EXCEPT ![id].archived = TRUE]
                   [] req.op = "engagement.restore" -> [lead EXCEPT ![id].archived = FALSE]
                   [] req.op = "engagement.delete" -> [lead EXCEPT ![id] = None]
                   [] OTHER -> lead
      /\ tag' = IF req.op = "tag.delete" THEN [tag EXCEPT ![id] = None] ELSE tag
  BY DEF EditRecord
<1>4. None \notin CompanyRow /\ None \notin PersonRow /\ None \notin LeadRow /\ None \notin TagRow
  BY NoneAssumption
<1>5. company' \in TableOf(CompanyRow) /\ Stays(company, company')
  <2>1. CASE req.op = "company.update"
    <3>1. id \in DOMAIN company /\ company[id] # None /\ company[id] \in CompanyRow
      BY <1>1, <1>2, <2>1, TableFacts DEF Target, Ids, Sees
    <3>2. req.field \in CompanyField /\ req.to \in Text \cup {None}
      BY <1>1, <2>1, CallFacts
    <3>. DEFINE row == [company[id] EXCEPT !.data = [company[id].data EXCEPT ![req.field] = req.to]]
    <3>3. row \in CompanyRow /\ row.by = company[id].by
      BY <3>1, <3>2 DEF CompanyRow
    <3>4. company' = [company EXCEPT ![id] = row]
      BY <1>3, <2>1, <3>1
    <3>. HIDE DEF row
    <3>. QED
      BY <1>1, <1>4, <3>1, <3>3, <3>4, EditedRow
  <2>2. CASE req.op = "company.delete"
    <3>1. id \in DOMAIN company
      BY <1>1, <1>2, <2>2 DEF Target, Ids
    <3>. QED
      BY <1>1, <1>3, <1>4, <2>2, <3>1, EditedRow
  <2>3. CASE req.op \notin {"company.update", "company.delete"}
    BY <1>1, <1>3, <2>3, UnchangedTable
  <2>. QED
    BY <2>1, <2>2, <2>3
<1>6. /\ person' \in TableOf(PersonRow) /\ Stays(person, person')
      /\ \A n \in DOMAIN person : person[n] # None => person'[n] # None
  <2>1. CASE req.op = "person.update"
    <3>1. id \in DOMAIN person /\ person[id] # None /\ person[id] \in PersonRow
      BY <1>1, <1>2, <2>1, TableFacts DEF Target, Ids, Sees
    <3>2. req.field \in PersonField /\ req.to \in Text \cup {None}
      BY <1>1, <2>1, CallFacts
    <3>. DEFINE row == [person[id] EXCEPT !.data = [person[id].data EXCEPT ![req.field] = req.to]]
    <3>3. row \in PersonRow /\ row.by = person[id].by
      BY <3>1, <3>2 DEF PersonRow
    <3>4. person' = [person EXCEPT ![id] = row]
      BY <1>3, <2>1, <3>1
    <3>5. row # None
      BY <1>4, <3>3
    <3>. HIDE DEF row
    <3>. QED
      BY <1>1, <1>4, <3>1, <3>3, <3>4, <3>5, EditedRow
  <2>2. CASE req.op # "person.update"
    BY <1>1, <1>3, <2>2, UnchangedTable
  <2>. QED
    BY <2>1, <2>2
<1>7. lead' \in TableOf(LeadRow) /\ Stays(lead, lead')
  <2>1. CASE req.op = "company.delete"
    <3>1. Cleared(req) \in [DOMAIN lead -> LeadRow \cup {None}]
      <4>1. ASSUME NEW n \in DOMAIN lead, lead[n] # None
            PROVE  lead[n] \in LeadRow /\ [lead[n] EXCEPT !.company = None] \in LeadRow
        <5>1. lead[n] \in LeadRow
          BY <1>1, <4>1, TableFacts
        <5>. QED
          BY <5>1 DEF LeadRow
      <4>. QED
        BY <4>1 DEF Cleared
    <3>2. Stays(lead, Cleared(req))
      <4>1. ASSUME NEW n \in DOMAIN lead, Cleared(req)[n] # None
            PROVE  lead[n] # None /\ Cleared(req)[n].by = lead[n].by
        <5>1. lead[n] # None
          BY <4>1 DEF Cleared
        <5>2. lead[n] \in LeadRow
          BY <1>1, <5>1, TableFacts
        <5>. QED
          BY <5>1, <5>2 DEF Cleared, LeadRow
      <4>2. DOMAIN Cleared(req) = DOMAIN lead
        BY DEF Cleared
      <4>. QED
        BY <4>1, <4>2 DEF Stays
    <3>3. lead' = Cleared(req)
      BY <1>3, <2>1
    <3>. QED
      BY <1>1, <3>1, <3>2, <3>3, TableAgain
  <2>2. CASE req.op \in {"engagement.update", "engagement.archive", "engagement.restore",
                         "engagement.delete"}
    <3>1. id \in DOMAIN lead /\ lead[id] # None /\ lead[id] \in LeadRow
      BY <1>1, <1>2, <2>2, TableFacts DEF Target, Ids, Sees
    <3>2. PICK row : /\ lead' = [lead EXCEPT ![id] = row]
                     /\ row = None \/ (row \in LeadRow /\ row.by = lead[id].by)
      <4>1. CASE req.op = "engagement.update"
        <5>1. req.to \in Text \cup {None}
          BY <1>1, <4>1, CallFacts
        <5>2. lead' = [lead EXCEPT ![id] = [lead[id] EXCEPT !.source = req.to]]
          BY <1>3, <3>1, <4>1
        <5>3. [lead[id] EXCEPT !.source = req.to] \in LeadRow
          BY <3>1, <5>1 DEF LeadRow
        <5>4. [lead[id] EXCEPT !.source = req.to].by = lead[id].by
          BY <3>1 DEF LeadRow
        <5>. QED
          BY <5>2, <5>3, <5>4
      <4>2. CASE req.op \in {"engagement.archive", "engagement.restore"}
        <5>1. PICK b \in BOOLEAN : lead' = [lead EXCEPT ![id] = [lead[id] EXCEPT !.archived = b]]
          BY <1>3, <3>1, <4>2
        <5>2. [lead[id] EXCEPT !.archived = b] \in LeadRow
          BY <3>1 DEF LeadRow
        <5>3. [lead[id] EXCEPT !.archived = b].by = lead[id].by
          BY <3>1 DEF LeadRow
        <5>. QED
          BY <5>1, <5>2, <5>3
      <4>3. CASE req.op = "engagement.delete"
        BY <1>3, <4>3
      <4>. QED
        BY <2>2, <4>1, <4>2, <4>3
    <3>. QED
      BY <1>1, <1>4, <3>1, <3>2, EditedRow
  <2>3. CASE req.op \notin {"company.delete", "engagement.update", "engagement.archive",
                            "engagement.restore", "engagement.delete"}
    BY <1>1, <1>3, <2>3, UnchangedTable
  <2>. QED
    BY <2>1, <2>2, <2>3
<1>8. /\ tag' \in TableOf(TagRow) /\ Stays(tag, tag')
      /\ \A n \in DOMAIN tag : tag'[n] # None => tag'[n] = tag[n]
  <2>1. CASE req.op = "tag.delete"
    <3>1. id \in DOMAIN tag
      BY <1>1, <1>2, <2>1 DEF Target, Ids
    <3>. QED
      BY <1>1, <1>3, <1>4, <2>1, <3>1, EditedRow
  <2>2. CASE req.op # "tag.delete"
    BY <1>1, <1>3, <2>2, UnchangedTable
  <2>. QED
    BY <2>1, <2>2
<1>9. link' \subseteq link
  BY <1>3
<1>. QED
  BY <1>5, <1>6, <1>7, <1>8, <1>9

LEMMA EditKeeps ==
  ASSUME Core, NEW j \in mix, EditRecord(j) \/ Unlink(j)
  PROVE  Core'
<1>1. /\ j \in Job /\ pc[j] = "idle" /\ pc \in [Job -> Where] /\ mix \in SUBSET Job
      /\ log \in Seq(Job) /\ ended \in [Job -> Nat] /\ Fits(j) /\ reqOf[j].op \in Edit
  BY DEF EditRecord, Unlink, Core, Types, TypeOK, Edit
<1>2. CASE Fail(j)
  BY <1>2, FailKeeps
<1>3. CASE ~Fail(j)
  <2>1. /\ pc' = [pc EXCEPT ![j] = "ok"]
        /\ log' = Append(log, j) /\ ended' = [ended EXCEPT ![j] = Len(log) + 1]
        /\ UNCHANGED <<store, order, mix>>
        /\ UNCHANGED <<plan, landed, tagOf, total, pages, told, began, listed>>
    BY <1>3 DEF EditRecord, Unlink, Ends, Goto, locals
  <2>2. /\ company' \in TableOf(CompanyRow) /\ Stays(company, company')
        /\ person' \in TableOf(PersonRow) /\ Stays(person, person')
        /\ \A n \in DOMAIN person : person[n] # None => person'[n] # None
        /\ lead' \in TableOf(LeadRow) /\ Stays(lead, lead')
        /\ tag' \in TableOf(TagRow) /\ Stays(tag, tag')
        /\ \A n \in DOMAIN tag : tag'[n] # None => tag'[n] = tag[n]
        /\ link' \subseteq link
    <3>1. CASE EditRecord(j)
      BY <1>3, <3>1, EditTables
    <3>2. CASE Unlink(j)
      <4>1. UNCHANGED <<company, person, lead, tag>> /\ link' \subseteq link
        BY <3>2 DEF Unlink
      <4>2. /\ company \in TableOf(CompanyRow) /\ person \in TableOf(PersonRow)
            /\ lead \in TableOf(LeadRow) /\ tag \in TableOf(TagRow)
        BY DEF Core, Types, TypeOK
      <4>. QED
        BY <4>1, <4>2, UnchangedTable
    <3>. QED
      BY <3>1, <3>2
  <2>3. log' \in Seq(Job) /\ ended' \in [Job -> Nat]
    <3>1. Len(log) + 1 \in Nat /\ Append(log, j) \in Seq(Job)
      BY <1>1, LenProperties, AppendProperties
    <3>. QED
      BY <1>1, <2>1, <3>1
  <2>4. "ok" \in Where /\ "ok" \notin Working
    BY DEF Where, Working
  <2>5. Types'
    BY <1>1, <2>1, <2>2, <2>3, <2>4 DEF Core, Types, TypeOK
  <2>6. Fits(j)'
    BY <1>1, <2>1, <2>4 DEF Fits, Working, Planning, Writing, Importing, Edit
  <2>7. \A k \in Job : Fits(k)'
    BY <1>1, <2>1, <2>6, FitsAside DEF Core
  <2>8. ASSUME NEW t, NEW u, Stays(t, u), OwnedIn(t, pc, mix)
        PROVE  /\ OwnedIn(u, pc', mix')
               /\ NewestIn(t, pc, mix) => NewestIn(u, pc', mix')
    BY <1>1, <2>1, <2>4, <2>8, StaysKeeps
  <2>9. /\ OwnedIn(company', pc', mix') /\ NewestIn(company', pc', mix')
        /\ OwnedIn(person', pc', mix') /\ NewestIn(person', pc', mix')
        /\ OwnedIn(lead', pc', mix') /\ NewestIn(lead', pc', mix')
        /\ OwnedIn(tag', pc', mix')
    BY <2>2, <2>8 DEF Core, Tables
  <2>10. TagsDiffer'
    BY <2>2 DEF Core, Tables, TagsDiffer, Stays
  <2>11. LinksKnown'
    <3>. SUFFICES ASSUME NEW l \in link'
                  PROVE  /\ l.person \in DOMAIN person' /\ person'[l.person] # None
                         /\ person'[l.person].by = l.by
      BY DEF LinksKnown
    <3>1. l.person \in DOMAIN person /\ person[l.person] # None /\ person[l.person].by = l.by
      BY <2>2 DEF Core, Tables, LinksKnown
    <3>. QED
      BY <2>2, <3>1 DEF Stays
  <2>. QED
    BY <2>5, <2>7, <2>9, <2>10, <2>11 DEF Core, Tables
<1>. QED
  BY <1>2, <1>3

LEMMA CoreInit == Init => Core
<1>. SUFFICES ASSUME Init
              PROVE  Core
  OBVIOUS
<1>1. PICK w \in Workspaces : /\ company = w.company /\ person = w.person /\ lead = w.lead
                              /\ tag = w.tag /\ link = w.link
  BY DEF Init
<1>2. /\ company \in TableOf(CompanyRow) /\ Settled(company)
      /\ person \in TableOf(PersonRow) /\ Settled(person)
      /\ lead \in TableOf(LeadRow) /\ Settled(lead)
      /\ tag \in TableOf(TagRow) /\ Settled(tag)
      /\ TagsDiffer
      /\ link \subseteq LinkRow
      /\ \A l \in link : /\ l.by = None /\ l.person \in DOMAIN person
                         /\ person[l.person] # None
  <2>1. /\ w.company \in TableOf(CompanyRow) /\ Settled(w.company)
        /\ w.person \in TableOf(PersonRow) /\ Settled(w.person)
        /\ w.lead \in TableOf(LeadRow) /\ Settled(w.lead)
        /\ w.tag \in TableOf(TagRow) /\ Settled(w.tag)
        /\ \A m, n \in DOMAIN w.tag : m # n /\ w.tag[m] # None /\ w.tag[n] # None
                                        => w.tag[m].name # w.tag[n].name
        /\ w.link \subseteq LinkRow
    BY WorkspaceAssumption
  <2>2. \A l \in w.link : l.by = None /\ There(w.person, l.person)
    BY WorkspaceAssumption
  <2>. QED
    BY <1>1, <2>1, <2>2 DEF TagsDiffer, There
<1>3. mix \in SUBSET Job
  BY TransferAssumption DEF Init
<1>4. Types
  BY <1>2, <1>3 DEF Init, Types, TypeOK, Where
<1>5. \A j \in Job : Fits(j)
  BY DEF Init, Fits, Working, Planning, Writing
<1>6. Tables
  BY <1>2, <1>3, TransferAssumption
     DEF Tables, OwnedIn, OwnerIn, NewestIn, Settled, LinksKnown
<1>. QED
  BY <1>4, <1>5, <1>6 DEF Core

LEMMA CoreNext == Core /\ [Next]_vars => Core'
<1>. SUFFICES ASSUME Core, [Next]_vars
              PROVE  Core'
  OBVIOUS
<1>1. CASE UNCHANGED vars
  <2>1. UNCHANGED <<store, order, mix, company, person, lead, tag, link, pc, plan, landed, tagOf,
                    total, pages, told, log, began, ended, listed>>
    BY <1>1 DEF vars, tables, locals, history
  <2>2. \A j \in Job : Fits(j)'
    BY <2>1, RowsFixed DEF Core, Fits, Importing
  <2>3. Types'
    BY <2>1 DEF Core, Types, TypeOK
  <2>4. Tables'
    BY <2>1 DEF Core, Tables, TagsDiffer, LinksKnown
  <2>. QED
    BY <2>2, <2>3, <2>4 DEF Core
<1>2. ASSUME NEW j \in mix, Step(j)
      PROVE  Core'
  <2>1. CASE Preview(j)
    BY <2>1, PreviewKeeps
  <2>2. CASE Refuse(j) \/ LinkRefused(j) \/ DeadlockAbort(j)
    BY <2>2, FailKeeps DEF Refuse, LinkRefused, DeadlockAbort
  <2>3. CASE Begin(j)
    BY <2>3, BeginKeeps
  <2>4. CASE FindTag(j)
    BY <2>4, FindTagKeeps
  <2>5. CASE CreateTag(j)
    BY <2>5, CreateTagKeeps
  <2>6. CASE PlanCompany(j)
    BY <2>6, PlanCompanyKeeps
  <2>7. CASE PlanPerson(j)
    BY <2>7, PlanPersonKeeps
  <2>8. CASE PlanNothing(j)
    BY <2>8, PlanNothingKeeps
  <2>9. CASE WriteCompany(j)
    BY <2>9, WriteCompanyKeeps
  <2>10. CASE WritePerson(j)
    BY <2>10, WritePersonKeeps
  <2>11. CASE FindLead(j)
    BY <2>11, FindLeadKeeps
  <2>12. CASE WriteLead(j)
    BY <2>12, WriteLeadKeeps
  <2>13. CASE CountPage(j) \/ ReadPage(j)
    BY <2>13, ExportKeeps
  <2>14. CASE Commit(j)
    BY <2>14, CommitKeeps
  <2>15. CASE EditRecord(j) \/ Unlink(j)
    BY <2>15, EditKeeps
  <2>. QED
    BY <1>2, <2>1, <2>2, <2>3, <2>4, <2>5, <2>6, <2>7, <2>8, <2>9, <2>10, <2>11, <2>12, <2>13,
       <2>14, <2>15 DEF Step
<1>. QED
  BY <1>1, <1>2 DEF Next

THEOREM CoreHolds == Spec => []Core
BY CoreInit, CoreNext, PTL DEF Spec

\* Of the transactions that are open at most one has numbered records of a table.
LEMMA OneNumbers ==
  ASSUME Core, NEW R, NEW t \in TableOf(R), NewestIn(t, pc, mix)
  PROVE  Cardinality({k \in Open : MadeBy(k, t)}) <= 1
<1>1. \A a, b \in {k \in Open : MadeBy(k, t)} : a = b
  <2>. SUFFICES ASSUME NEW a \in Open, MadeBy(a, t), NEW b \in Open, MadeBy(b, t)
                PROVE  a = b
    OBVIOUS
  <2>1. PICK m \in DOMAIN t : t[m] # None /\ t[m].by = a
    BY DEF MadeBy
  <2>2. PICK n \in DOMAIN t : t[n] # None /\ t[n].by = b
    BY DEF MadeBy
  <2>3. m < n \/ n < m \/ m = n
    <3>1. DOMAIN t \in SUBSET Nat
      BY TableFacts
    <3>. QED
      BY <2>1, <2>2, <3>1, NumbersOrdered
  <2>. QED
    BY <2>1, <2>2, <2>3 DEF NewestIn, Open
<1>2. CASE {k \in Open : MadeBy(k, t)} = {}
  BY <1>2, FS_EmptySet
<1>3. CASE {k \in Open : MadeBy(k, t)} # {}
  <2>1. PICK a : a \in {k \in Open : MadeBy(k, t)}
    BY <1>3
  <2>2. {k \in Open : MadeBy(k, t)} = {a}
    BY <1>1, <2>1
  <2>3. Cardinality({a}) = 1
    BY FS_Singleton
  <2>4. Cardinality({k \in Open : MadeBy(k, t)}) = 1
    BY <2>2, <2>3, Zenon
  <2>. QED
    BY <2>4
<1>. QED
  BY <1>2, <1>3

\* Two tags never have one name (meta-ops.ts: "Names are unique per workspace"),
\* nor do two open transactions number records of one table: a create holds the
\* counter of its table until its transaction ends.
THEOREM InvHolds == Spec => []Inv
<1>1. Core => Inv
  <2>. SUFFICES ASSUME Core
                PROVE  Inv
    OBVIOUS
  <2>1. /\ company \in TableOf(CompanyRow) /\ person \in TableOf(PersonRow)
        /\ lead \in TableOf(LeadRow) /\ TypeOK /\ TagsDiffer
        /\ NewestIn(company, pc, mix) /\ NewestIn(person, pc, mix) /\ NewestIn(lead, pc, mix)
    BY DEF Core, Types, TypeOK, Tables
  <2>2. /\ Cardinality({k \in Open : MadeBy(k, company)}) <= 1
        /\ Cardinality({k \in Open : MadeBy(k, person)}) <= 1
        /\ Cardinality({k \in Open : MadeBy(k, lead)}) <= 1
    BY <2>1, OneNumbers
  <2>. QED
    BY <2>1, <2>2 DEF Inv, TagsDiffer
<1>. QED
  BY <1>1, CoreHolds, PTL

-----------------------------------------------------------------------------
(* Exports.                                                                *)

\* Since job j began nothing of such calls was committed.
Since(j, ops) == \A k \in Between(began[j], Len(log)) : reqOf[k].op \notin ops
Relisting == {"engagement.archive", "engagement.restore", "engagement.delete"}

History == \A j \in Job : began[j] <= Len(log) /\ ended[j] <= Len(log)

\* The first numbers of a set.
Beginning(U, L) == U \subseteq L /\ \A a \in U, b \in L : b < a => b \in U

OnPages(j) == UNION {pages[j][n] : n \in DOMAIN pages[j]}
InOrder(j) ==
  \A m, n \in DOMAIN pages[j] : m < n => \A a \in pages[j][m], b \in pages[j][n] : a < b

\* An export that goes on has read full pages, and with them the first leads of
\* the list; those that were there when it began are the first of the list too.
Collecting(j) ==
  /\ Beginning(OnPages(j), Listed(j)) /\ Beginning(listed[j], Listed(j))
  /\ Cardinality(OnPages(j)) = Collected(j) /\ Collected(j) = PageSize * Len(pages[j])
  /\ InOrder(j)
  /\ pc[j] = "paging" => /\ Cardinality(listed[j]) <= total[j]
                         /\ total[j] <= Cardinality(Listed(j))

Exports ==
  \A j \in mix : reqOf[j].op = "export.csv" =>
    /\ pc[j] = "idle" => pages[j] = <<>>
    /\ pc[j] \in {"counting", "paging"} /\ Since(j, Relisting) => Collecting(j)
    /\ pc[j] \in {"committing", "ok"} /\ Since(j, Relisting)
         => listed[j] \subseteq OnPages(j) /\ InOrder(j)

\* What a step leaves to the other jobs.
Frame(k) ==
  /\ UNCHANGED <<store, order, mix>>
  /\ pc' = [pc EXCEPT ![k] = pc'[k]] /\ pc[k] \notin {"ok", "failed"}
  /\ \A j \in Job \ {k} :
       /\ pc'[j] = pc[j] /\ plan'[j] = plan[j] /\ landed'[j] = landed[j] /\ tagOf'[j] = tagOf[j]
       /\ total'[j] = total[j] /\ pages'[j] = pages[j] /\ told'[j] = told[j]
       /\ began'[j] = began[j] /\ ended'[j] = ended[j] /\ listed'[j] = listed[j]
  /\ \/ log' = log /\ ended' = ended
     \/ /\ log' = Append(log, k) /\ ended' = [ended EXCEPT ![k] = Len(log) + 1]
        /\ began' = began /\ pc[k] \in {"idle", "committing"} /\ pc'[k] = "ok"
  /\ began' = began \/ began' = [began EXCEPT ![k] = Len(log)]

LEMMA StepFrame ==
  ASSUME Core, NEW k \in mix, Step(k)
  PROVE  Frame(k)
<1>1. /\ k \in Job /\ pc \in [Job -> Where]
      /\ plan \in [Job -> Seq(PlanRow)] /\ landed \in [Job -> Seq(LandedRow)]
      /\ tagOf \in [Job -> Nat \cup {None}] /\ total \in [Job -> Nat]
      /\ pages \in [Job -> Seq(SUBSET Nat)] /\ began \in [Job -> Nat] /\ ended \in [Job -> Nat]
      /\ listed \in [Job -> SUBSET Nat]
      /\ told \in [Job -> [preview : Counts \cup {None}, run : Counts \cup {None}]]
  BY DEF Core, Types, TypeOK
<1>2. CASE Fail(k) /\ pc[k] \notin {"ok", "failed"}
  BY <1>1, <1>2 DEF Fail, Goto, locals, history, Frame
<1>3. CASE Preview(k)
  BY <1>1, <1>3 DEF Preview, Began, Goto, locals, Frame
<1>4. CASE Begin(k)
  <2>1. pc[k] \in {"idle", "asked"}
    BY <1>4 DEF Begin, MayRun
  <2>2. /\ UNCHANGED <<store, order, mix, log, ended>>
        /\ began' = [began EXCEPT ![k] = Len(log)]
        /\ \E w : pc' = [pc EXCEPT ![k] = w]
        /\ \E leads : listed' = [listed EXCEPT ![k] = leads]
        /\ plan' = [plan EXCEPT ![k] = <<>>]
        /\ UNCHANGED <<landed, tagOf, total, pages, told>>
    BY <1>4 DEF Begin, Began, Goto
  <2>. QED
    BY <1>1, <2>1, <2>2 DEF Frame
<1>5. CASE FindTag(k)
  BY <1>1, <1>5 DEF FindTag, Goes, Goto, history, Frame
<1>6. CASE CreateTag(k)
  BY <1>1, <1>2, <1>6 DEF CreateTag, Goto, history, Frame
<1>7. CASE PlanCompany(k)
  BY <1>1, <1>7 DEF PlanCompany, Goes, Goto, history, Frame
<1>8. CASE PlanPerson(k)
  <2>1. /\ pc[k] \in {"person", "preview_person"}
        /\ UNCHANGED <<store, order, mix, log, began, ended, listed>>
        /\ UNCHANGED <<landed, tagOf, total, pages>>
        /\ \E w : pc' = [pc EXCEPT ![k] = w]
    BY <1>8 DEF PlanPerson, Planned, Goes, Goto, history
  <2>2. \A j \in Job \ {k} : plan'[j] = plan[j] /\ told'[j] = told[j]
    <3>1. \/ told' = told
          \/ told' = [told EXCEPT ![k].run = Zero]
          \/ told' = [told EXCEPT ![k].preview = PreviewCounts(plan'[k])]
      BY <1>8 DEF PlanPerson, Planned
    <3>2. \E ref : plan' = [plan EXCEPT ![k][Len(plan[k])].person = ref]
      BY <1>8 DEF PlanPerson
    <3>. QED
      BY <1>1, <3>1, <3>2
  <2>. QED
    BY <1>1, <2>1, <2>2 DEF Frame
<1>9. CASE PlanNothing(k)
  BY <1>1, <1>2, <1>9 DEF PlanNothing, Goes, Goto, history, Frame
<1>10. CASE WriteCompany(k)
  <2>1. /\ pc[k] = "writing" /\ pc' = [pc EXCEPT ![k] = "landing"]
        /\ UNCHANGED <<store, order, mix, log, began, ended, listed>>
        /\ UNCHANGED <<plan, tagOf, total, pages>>
    BY <1>10 DEF WriteCompany, Goto, history
  <2>2. \A j \in Job \ {k} : landed'[j] = landed[j]
    <3>1. \E at : landed' = [landed EXCEPT ![k] = Append(@, at)]
      BY <1>10 DEF WriteCompany, Land
    <3>. QED
      BY <1>1, <3>1
  <2>3. \A j \in Job \ {k} : told'[j] = told[j]
    <3>1. \/ told' = told
          \/ told' = [told EXCEPT ![k].run.companyMatches = @ + 1]
          \/ told' = [told EXCEPT ![k].run.newCompanies = @ + 1]
      BY <1>10 DEF WriteCompany
    <3>. QED
      BY <1>1, <3>1
  <2>. QED
    BY <1>1, <2>1, <2>2, <2>3 DEF Frame
<1>11. CASE WritePerson(k)
  <2>1. /\ pc[k] = "landing" /\ pc' = [pc EXCEPT ![k] = "finding"]
        /\ UNCHANGED <<store, order, mix, log, began, ended, listed>>
        /\ UNCHANGED <<plan, tagOf, total, pages>>
    BY <1>11 DEF WritePerson, Goto, history
  <2>2. \A j \in Job \ {k} : landed'[j] = landed[j] /\ told'[j] = told[j]
    <3>1. \/ landed' = landed
          \/ \E at : landed' = [landed EXCEPT ![k][Len(landed[k])].person = at]
      BY <1>11 DEF WritePerson
    <3>2. \/ told' = told
          \/ told' = [told EXCEPT ![k].run.peopleMatches = @ + 1]
          \/ told' = [told EXCEPT ![k].run.newPeople = @ + 1]
      BY <1>11 DEF WritePerson
    <3>. QED
      BY <1>1, <3>1, <3>2
  <2>. QED
    BY <1>1, <2>1, <2>2 DEF Frame
<1>12. CASE FindLead(k)
  <2>1. /\ pc[k] = "finding" /\ \E w : pc' = [pc EXCEPT ![k] = w]
        /\ UNCHANGED <<store, order, mix, log, began, ended, listed>>
        /\ UNCHANGED <<plan, tagOf, total, pages, told>>
    BY <1>12 DEF FindLead, Goes, Goto, history
  <2>2. \A j \in Job \ {k} : landed'[j] = landed[j]
    <3>1. \/ landed' = landed
          \/ \E at : landed' = [landed EXCEPT ![k][Len(landed[k])].lead = at]
      BY <1>12 DEF FindLead
    <3>. QED
      BY <1>1, <3>1
  <2>. QED
    BY <1>1, <2>1, <2>2 DEF Frame
<1>13. CASE WriteLead(k)
  <2>1. CASE Fail(k)
    BY <1>2, <1>13, <2>1 DEF WriteLead
  <2>2. CASE ~Fail(k)
    <3>1. /\ pc[k] = "leading" /\ pc' = [pc EXCEPT ![k] = AfterRow(k)]
          /\ UNCHANGED <<store, order, mix, log, began, ended, listed>>
          /\ UNCHANGED <<plan, tagOf, total, pages, told>>
          /\ landed' = [landed EXCEPT ![k][Len(landed[k])].lead = Len(lead) + 1]
      BY <1>13, <2>2 DEF WriteLead, Goto, history
    <3>2. \A j \in Job \ {k} : landed'[j] = landed[j]
      BY <1>1, <3>1
    <3>. QED
      BY <1>1, <3>1, <3>2 DEF Frame
  <2>. QED
    BY <2>1, <2>2
<1>14. CASE CountPage(k)
  BY <1>1, <1>14 DEF CountPage, Goes, Goto, history, Frame
<1>15. CASE ReadPage(k)
  <2>1. /\ pc[k] = "paging" /\ \E w : pc' = [pc EXCEPT ![k] = w]
        /\ UNCHANGED <<store, order, mix, log, began, ended, listed>>
        /\ UNCHANGED <<plan, landed, tagOf, total, told>>
        /\ \E items : pages' = [pages EXCEPT ![k] = Append(@, items)]
    BY <1>15 DEF ReadPage, Goes, Goto, history
  <2>. QED
    BY <1>1, <2>1 DEF Frame
<1>16. CASE Commit(k)
  BY <1>1, <1>16 DEF Commit, Ends, Goto, history, locals, Frame
<1>17. CASE DeadlockAbort(k)
  BY <1>2, <1>17 DEF DeadlockAbort, Open, Working
<1>18. CASE Refuse(k)
  BY <1>2, <1>18 DEF Refuse, MayRun
<1>19. CASE LinkRefused(k)
  BY <1>2, <1>19 DEF LinkRefused
<1>20. CASE EditRecord(k)
  <2>1. CASE Fail(k)
    BY <1>2, <1>20, <2>1 DEF EditRecord
  <2>2. CASE ~Fail(k)
    <3>1. /\ pc[k] = "idle" /\ pc' = [pc EXCEPT ![k] = "ok"]
          /\ UNCHANGED <<store, order, mix, began, listed>>
          /\ UNCHANGED locals
          /\ log' = Append(log, k) /\ ended' = [ended EXCEPT ![k] = Len(log) + 1]
      BY <1>20, <2>2 DEF EditRecord, Goto, Ends
    <3>. QED
      BY <1>1, <3>1 DEF locals, Frame
  <2>. QED
    BY <2>1, <2>2
<1>21. CASE Unlink(k)
  BY <1>1, <1>21 DEF Unlink, Goto, Ends, locals, Frame
<1>. QED
  BY <1>3, <1>4, <1>5, <1>6, <1>7, <1>8, <1>9, <1>10, <1>11, <1>12, <1>13, <1>14, <1>15, <1>16,
     <1>17, <1>18, <1>19, <1>20, <1>21 DEF Step

\* What a call of the data operations does to a table: nothing, or it takes back
\* what it wrote, or it adds a row.
Moves(t, u, k) ==
  \/ u = t
  \/ u = Undo(k, t) /\ pc'[k] = "failed"
  \/ /\ \E row : u = Append(t, row) /\ row # None /\ row.by = k
     /\ pc[k] \in Working /\ pc'[k] \in Working /\ NextDisplayId(k, t)

\* The records a row makes.
LEMMA NewRows ==
  ASSUME NEW j \in Job, reqOf[j].op = "import.run", NEW n \in 1..Len(Rows(j))
  PROVE  /\ NewCompany(j, n) \in CompanyRow /\ NewCompany(j, n) # None
         /\ NewPerson(j, n) \in PersonRow /\ NewPerson(j, n) # None
         /\ Core /\ n \in 1..Len(landed[j])
              => NewLead(j, n) \in LeadRow /\ NewLead(j, n) # None
<1>1. Row(j, n) \in NamedRow /\ reqOf[j].label \in Text
  BY RowsType, CallFacts DEF Importing
<1>2. NewCompany(j, n) \in CompanyRow
  BY <1>1 DEF NewCompany, CompanyRow, By, NamedRow, CsvRow, Field
<1>3. NewPerson(j, n) \in PersonRow
  BY <1>1 DEF NewPerson, PersonRow, By, NamedRow, CsvRow, Field
<1>4. ASSUME Core, n \in 1..Len(landed[j])
      PROVE  NewLead(j, n) \in LeadRow
  <2>1. LeadSource(j, Row(j, n)) \in Text \cup {None}
    BY <1>1 DEF LeadSource, NamedRow, CsvRow, Field
  <2>2. Row(j, n)["engagement.channel"] \in Text \cup {None}
    BY <1>1 DEF NamedRow, CsvRow, Field
  <2>3. landed[j] \in Seq(LandedRow)
    BY <1>4 DEF Core, Types
  <2>4. landed[j][n] \in LandedRow
    BY <1>4, <2>3, ElementOfSeq
  <2>. QED
    BY <2>1, <2>2, <2>4 DEF NewLead, LeadRow, LandedRow, By
<1>. QED
  BY <1>2, <1>3, <1>4, NoneAssumption

\* The row an import is at.
LEMMA RowAt ==
  ASSUME Core, NEW j \in mix, pc[j] \in Writing
  PROVE  /\ j \in Job /\ reqOf[j].op = "import.run" /\ Importing(j)
         /\ Len(plan[j]) = Len(Rows(j)) /\ Len(Rows(j)) \in Nat /\ Len(landed[j]) \in Nat
         /\ pc[j] = "writing" => RowNow(j) = Len(landed[j]) + 1 /\ RowNow(j) \in 1..Len(Rows(j))
         /\ pc[j] # "writing" => /\ Len(landed[j]) \in 1..Len(Rows(j))
                                 /\ Len(landed[j]) \in 1..Len(landed[j])
<1>1. j \in Job /\ Fits(j) /\ landed[j] \in Seq(LandedRow)
  BY DEF Core, Types
<1>2. reqOf[j].op = "import.run" /\ Len(plan[j]) = Len(Rows(j))
  BY <1>1 DEF Fits
<1>3. Len(Rows(j)) \in Nat /\ Len(landed[j]) \in Nat
  BY <1>1, <1>2, RowsType, LenProperties DEF Importing
<1>4. CASE pc[j] = "writing"
  BY <1>1, <1>2, <1>3, <1>4 DEF Fits, RowNow, Importing
<1>5. CASE pc[j] # "writing"
  <2>1. Len(landed[j]) \in 1..Len(Rows(j))
    BY <1>1, <1>5 DEF Fits
  <2>. QED
    BY <1>1, <1>2, <1>3, <1>5, <2>1 DEF Importing
<1>. QED
  BY <1>4, <1>5

\* An edit fails, or it commits at once.
LEMMA EditSteps ==
  ASSUME Core, NEW k \in mix, Step(k), reqOf[k].op \in Edit
  PROVE  \/ Fail(k)
         \/ (EditRecord(k) \/ Unlink(k)) /\ log' # log
         \/ UNCHANGED tables
<1>1. /\ log \in Seq(Job) /\ k \in Job
      /\ pc[k] \notin {"preview_company", "preview_person", "asked", "counting", "paging"}
      /\ pc[k] \notin {"tag", "tagging"} \cup Planning \cup Writing
      /\ reqOf[k].op \notin {"import.run", "import.preview", "export.csv", "tag.create"}
  BY DEF Core, Types, TypeOK, Fits, Importing, Edit
<1>2. log # Append(log, k)
  BY <1>1, AppendProperties, LenProperties
<1>3. (EditRecord(k) \/ Unlink(k)) /\ ~Fail(k) => log' = Append(log, k)
  BY DEF EditRecord, Unlink, Ends
<1>. QED
  BY <1>1, <1>2, <1>3
     DEF Step, Preview, Refuse, Begin, FindTag, CreateTag, PlanCompany, PlanPerson, PlanNothing,
         WriteCompany, WritePerson, LinkRefused, FindLead, WriteLead, CountPage, ReadPage,
         Commit, DeadlockAbort, Planning, Writing

LEMMA StepMoves ==
  ASSUME Core, NEW k \in mix, Step(k), reqOf[k].op \notin Edit \/ log' = log
  PROVE  /\ Moves(company, company', k) /\ Moves(person, person', k) /\ Moves(lead, lead', k)
         /\ \/ tag' = tag
            \/ tag' = Undo(k, tag) /\ pc'[k] = "failed"
            \/ pc[k] = "tagging" /\ tag' = Append(tag, [name |-> reqOf[k].label, by |-> k])
         /\ \/ link' = link
            \/ link' = {l \in link : l.by # k} /\ pc'[k] = "failed"
            \/ pc[k] = "landing" /\ link' = link \cup LinkMade(k, Len(person) + 1)
<1>1. k \in Job /\ pc \in [Job -> Where]
  BY DEF Core, Types
<1>2. CASE Fail(k)
  BY <1>1, <1>2 DEF Fail, Goto, Moves
<1>3. CASE \/ Preview(k) \/ Begin(k) \/ FindTag(k) \/ PlanCompany(k)
           \/ FindLead(k) \/ CountPage(k) \/ ReadPage(k) \/ Commit(k)
  BY <1>3 DEF Preview, Begin, FindTag, PlanCompany, FindLead, CountPage,
              ReadPage, Commit, Goes, tables, Moves
<1>4. CASE PlanPerson(k)
  BY <1>4 DEF PlanPerson, Planned, Goes, tables, Moves
<1>5. CASE CreateTag(k)
  BY <1>2, <1>5 DEF CreateTag, Moves
<1>6. CASE PlanNothing(k)
  BY <1>2, <1>6 DEF PlanNothing, Goes, tables, Moves
<1>7. CASE WriteCompany(k)
  <2>1. UNCHANGED <<person, lead, tag, link>>
    BY <1>7 DEF WriteCompany
  <2>2. \/ company' = company
        \/ /\ company' = Append(company, NewCompany(k, RowNow(k)))
           /\ NextDisplayId(k, company)
    BY <1>7 DEF WriteCompany
  <2>3. pc[k] \in Working /\ pc'[k] \in Working /\ pc[k] = "writing" /\ pc[k] \in Writing
    BY <1>1, <1>7 DEF WriteCompany, Goto, Working, Writing
  <2>4. NewCompany(k, RowNow(k)).by = k /\ NewCompany(k, RowNow(k)) # None
    BY <2>3, RowAt, NewRows DEF NewCompany
  <2>. QED
    BY <2>1, <2>2, <2>3, <2>4 DEF Moves
<1>8. CASE WritePerson(k)
  <2>1. UNCHANGED <<company, lead, tag>>
    BY <1>8 DEF WritePerson, tables
  <2>2. \/ person' = person /\ link' = link
        \/ /\ person' = Append(person, NewPerson(k, Len(landed[k])))
           /\ NextDisplayId(k, person)
           /\ link' = link \cup LinkMade(k, Len(person) + 1)
    BY <1>8 DEF WritePerson, tables
  <2>3. pc[k] \in Working /\ pc'[k] \in Working /\ pc[k] = "landing" /\ pc[k] \in Writing
    BY <1>1, <1>8 DEF WritePerson, Goto, Working, Writing
  <2>4. NewPerson(k, Len(landed[k])).by = k /\ NewPerson(k, Len(landed[k])) # None
    BY <2>3, RowAt, NewRows DEF NewPerson
  <2>. QED
    BY <2>1, <2>2, <2>3, <2>4 DEF Moves
<1>9. CASE WriteLead(k) /\ ~Fail(k)
  <2>1. /\ UNCHANGED <<company, person, tag, link>>
        /\ lead' = Append(lead, NewLead(k, Len(landed[k])))
        /\ NextDisplayId(k, lead)
    BY <1>9 DEF WriteLead
  <2>2. pc'[k] = AfterRow(k) /\ pc[k] = "leading"
    BY <1>1, <1>9 DEF WriteLead, Goto
  <2>3. pc[k] \in Working /\ pc'[k] \in Working /\ pc[k] \in Writing
    BY <2>2 DEF AfterRow, Working, Writing
  <2>4. NewLead(k, Len(landed[k])).by = k /\ NewLead(k, Len(landed[k])) # None
    BY <2>2, <2>3, RowAt, NewRows DEF NewLead
  <2>. QED
    BY <2>1, <2>3, <2>4 DEF Moves
<1>10. CASE EditRecord(k) \/ Unlink(k)
  <2>1. reqOf[k].op \in Edit
    BY <1>10 DEF EditRecord, Unlink, Edit
  <2>2. Fail(k) \/ UNCHANGED tables
    BY <2>1, EditSteps
  <2>. QED
    BY <1>2, <2>2 DEF tables, Moves
<1>. QED
  BY <1>2, <1>3, <1>4, <1>5, <1>6, <1>7, <1>8, <1>9, <1>10
     DEF Step, Refuse, LinkRefused, DeadlockAbort

\* Only a transaction that is open has rows while its job is at work.
LEMMA OwnerOpen ==
  ASSUME Core, NEW k \in mix, pc[k] # "ok",
         NEW t, OwnedIn(t, pc, mix), NEW n \in DOMAIN t, t[n] # None, t[n].by = k
  PROVE  k \in Open
<1>1. k # None
  BY TransferAssumption DEF Core, Types
<1>. QED
  BY <1>1 DEF OwnedIn, OwnerIn, Open

\* Leads that stay where they are, as far as a list of them can tell.
SameLead(row, now) == now # None /\ now.by = row.by /\ now.archived = row.archived

LEMMA LeadRows ==
  ASSUME Core, NEW k \in mix, Step(k), reqOf[k].op \notin Relisting \/ log' = log
  PROVE  /\ \A n \in DOMAIN lead : lead[n] # None /\ lead[n].by # k
               => n \in DOMAIN lead' /\ SameLead(lead[n], lead'[n])
         /\ \A n \in DOMAIN lead' : lead'[n] # None
               => \/ n \in DOMAIN lead /\ lead[n] # None /\ SameLead(lead[n], lead'[n])
                  \/ lead'[n].by = k /\ pc'[k] \in Working
<1>1. /\ k \in Job /\ lead \in TableOf(LeadRow) /\ log \in Seq(Job)
      /\ \A n \in DOMAIN lead : lead[n] # None => lead[n] \in LeadRow
  BY TableFacts DEF Core, Types, TypeOK
<1>2. CASE lead' = lead
  BY <1>2 DEF SameLead
<1>3. CASE lead' = Undo(k, lead)
  BY <1>1, <1>3, UndoFacts DEF SameLead, Stays
<1>4. CASE reqOf[k].op \notin Edit
  <2>1. CASE /\ \E row : lead' = Append(lead, row) /\ row # None /\ row.by = k
             /\ pc'[k] \in Working
    <3>1. PICK row : lead' = Append(lead, row) /\ row # None /\ row.by = k
      BY <2>1
    <3>2. /\ DOMAIN lead' = DOMAIN lead \cup {Len(lead) + 1}
          /\ \A n \in DOMAIN lead : lead'[n] = lead[n]
          /\ lead'[Len(lead) + 1] = row
      BY <1>1, <3>1, AppendAny
    <3>. QED
      BY <2>1, <3>1, <3>2 DEF SameLead
  <2>. QED
    BY <1>2, <1>3, <1>4, <2>1, StepMoves DEF Moves
<1>5. CASE reqOf[k].op \in Edit /\ ~Fail(k) /\ lead' # lead
  <2>1. EditRecord(k) /\ log' # log
    BY <1>5, EditSteps DEF Unlink, tables
  <2>3. CASE reqOf[k].op = "company.delete"
    <3>1. lead' = Cleared(reqOf[k])
      BY <1>5, <2>1, <2>3 DEF EditRecord
    <3>2. DOMAIN lead' = DOMAIN lead
      BY <3>1 DEF Cleared
    <3>3. ASSUME NEW n \in DOMAIN lead
          PROVE  IF lead[n] = None THEN lead'[n] = None ELSE SameLead(lead[n], lead'[n])
      <4>1. lead[n] # None => lead[n] \in LeadRow
        BY <1>1
      <4>2. lead[n] # None => [lead[n] EXCEPT !.company = None] # None
        <5>1. lead[n] # None => [lead[n] EXCEPT !.company = None] \in LeadRow
          BY <4>1 DEF LeadRow
        <5>. QED
          BY <5>1, NoneAssumption
      <4>3. lead'[n] = IF lead[n] # None /\ lead[n].company = reqOf[k].id
                       THEN [lead[n] EXCEPT !.company = None] ELSE lead[n]
        BY <3>1 DEF Cleared
      <4>. QED
        BY <4>1, <4>2, <4>3 DEF SameLead, LeadRow
    <3>. QED
      BY <3>2, <3>3
  <2>4. CASE reqOf[k].op = "engagement.update"
    <3>1. /\ lead' = [lead EXCEPT ![reqOf[k].id].source = reqOf[k].to]
          /\ reqOf[k].id \in Ids(k, lead)
      BY <1>5, <2>1, <2>4 DEF EditRecord, Target
    <3>. DEFINE id == reqOf[k].id
                row == [lead[id] EXCEPT !.source = reqOf[k].to]
    <3>2. id \in DOMAIN lead /\ lead[id] # None /\ lead[id] \in LeadRow
      BY <1>1, <3>1 DEF Ids, Sees
    <3>3. lead' = [lead EXCEPT ![id] = row]
      BY <3>1
    <3>4. row \in LeadRow /\ row.by = lead[id].by /\ row.archived = lead[id].archived
      BY <1>1, <2>4, <3>2, CallFacts DEF LeadRow
    <3>5. row # None
      BY <3>4, NoneAssumption
    <3>. HIDE DEF row
    <3>. QED
      BY <3>2, <3>3, <3>4, <3>5 DEF SameLead
  <2>5. CASE reqOf[k].op \notin {"company.delete", "engagement.update"} \cup Relisting
    BY <1>5, <2>1, <2>5 DEF EditRecord, Relisting
  <2>. QED
    BY <1>5, <2>1, <2>3, <2>4, <2>5
<1>6. CASE Fail(k)
  BY <1>3, <1>6 DEF Fail
<1>. QED
  BY <1>2, <1>4, <1>5, <1>6

\* While others work the list of a job only grows, at its end.
LEMMA ListGrows ==
  ASSUME Core, NEW k \in mix, Step(k), reqOf[k].op \notin Relisting \/ log' = log,
         NEW j \in mix \ {k}
  PROVE  Beginning(Listed(j), Listed(j)')
<1>1. /\ mix \in SUBSET Job /\ mix' = mix /\ Frame(k) /\ k \in Job
      /\ lead \in TableOf(LeadRow) /\ DOMAIN lead \in SUBSET Nat
      /\ OwnedIn(lead, pc, mix) /\ NewestIn(lead, pc, mix)
  BY StepFrame, TableFacts DEF Core, Types, TypeOK, Tables, Frame
<1>2. /\ pc[k] # "ok" /\ \A i \in mix \ {k} : pc'[i] = pc[i]
  BY <1>1 DEF Frame
<1>3. Open' \ {k} = Open \ {k}
  BY <1>1, <1>2 DEF Open
<1>4. ASSUME NEW a \in Listed(j)
      PROVE  /\ a \in DOMAIN lead /\ lead[a] # None /\ lead[a].by \notin Open \ {j}
             /\ lead[a].by # k /\ a \in Listed(j)'
  <2>1. a \in DOMAIN lead /\ lead[a] # None /\ lead[a].by \notin Open \ {j} /\ ~lead[a].archived
    BY DEF Listed, Ids, Sees
  <2>2. lead[a].by # k
    BY <1>1, <1>2, <2>1, OwnerOpen
  <2>3. a \in DOMAIN lead' /\ SameLead(lead[a], lead'[a])
    BY <2>1, <2>2, LeadRows
  <2>4. lead'[a].by \notin Open' \ {j}
    BY <1>3, <2>1, <2>2, <2>3 DEF SameLead
  <2>. QED
    BY <2>1, <2>2, <2>3, <2>4 DEF Listed, Ids, Sees, SameLead
<1>5. ASSUME NEW b \in Listed(j)', b \notin Listed(j), NEW a \in Listed(j)
      PROVE  ~ (b < a)
  <2>1. b \in DOMAIN lead' /\ lead'[b] # None /\ lead'[b].by \notin Open' \ {j} /\ ~lead'[b].archived
    BY DEF Listed, Ids, Sees
  <2>2. k \in Open' => lead'[b].by # k
    BY <2>1
  <2>3. lead'[b].by = k => pc'[k] \notin Working
    BY <1>1, <2>2 DEF Open
  <2>4. b \in DOMAIN lead /\ lead[b] # None /\ SameLead(lead[b], lead'[b])
    BY <2>1, <2>3, LeadRows
  <2>5. lead[b].by \in Open \ {j} /\ lead[b].by \notin Open' \ {j}
    BY <1>5, <2>1, <2>4 DEF Listed, Ids, Sees, SameLead
  <2>6. lead[b].by = k /\ k \in Open
    BY <1>3, <2>5
  <2>7. b < a => lead[a].by = k
    BY <1>1, <1>4, <2>4, <2>6 DEF NewestIn, Open
  <2>. QED
    BY <1>4, <2>7
<1>. QED
  BY <1>4, <1>5 DEF Beginning

\* Nor does it change by what the job itself does, when it changes no lead.
LEMMA ListSame ==
  ASSUME Core, NEW k \in mix, Step(k), lead' = lead
  PROVE  Listed(k)' = Listed(k)
<1>1. Frame(k) /\ mix \in SUBSET Job
  BY StepFrame DEF Core, Types
<1>2. Open' \ {k} = Open \ {k}
  BY <1>1 DEF Frame, Open
<1>. QED
  BY <1>2 DEF Listed, Ids, Sees

\* What is known of the past stays known.
LEMMA HistoryStep ==
  ASSUME Core, History, NEW k \in mix, Step(k)
  PROVE  History'
<1>1. /\ Frame(k) /\ k \in Job /\ log \in Seq(Job) /\ Len(log) \in Nat
      /\ began \in [Job -> Nat] /\ ended \in [Job -> Nat]
  BY StepFrame, LenProperties DEF Core, Types, TypeOK
<1>2. log' = log \/ Len(log') = Len(log) + 1
  BY <1>1, AppendProperties DEF Frame
<1>. QED
  BY <1>1, <1>2 DEF History, Frame

LEMMA SinceStep ==
  ASSUME Core, History, NEW k \in mix, Step(k), NEW j \in Job, began'[j] = began[j], NEW ops,
         Since(j, ops)'
  PROVE  /\ Since(j, ops)
         /\ log' # log => reqOf[k].op \notin ops
<1>1. /\ Frame(k) /\ k \in Job /\ log \in Seq(Job) /\ Len(log) \in Nat
      /\ began[j] \in Nat /\ began[j] <= Len(log)
  BY StepFrame, LenProperties DEF Core, Types, TypeOK, History
<1>2. CASE log' = log
  BY <1>2 DEF Since, Between
<1>3. CASE log' = Append(log, k)
  <2>1. /\ Len(log') = Len(log) + 1 /\ log'[Len(log) + 1] = k
        /\ \A i \in 1..Len(log) : log'[i] = log[i]
    BY <1>1, <1>3, AppendProperties
  <2>2. k \in Between(began[j], Len(log))'
    <3>1. Len(log) + 1 \in began'[j] + 1..Len(log')
      BY <1>1, <2>1
    <3>. QED
      BY <2>1, <3>1 DEF Between
  <2>3. Between(began[j], Len(log)) \subseteq Between(began[j], Len(log))'
    <3>1. \A i \in began[j] + 1..Len(log) : i \in began'[j] + 1..Len(log') /\ log'[i] = log[i]
      BY <1>1, <2>1
    <3>. QED
      BY <3>1 DEF Between
  <2>. QED
    BY <2>2, <2>3 DEF Since
<1>. QED
  BY <1>1, <1>2, <1>3 DEF Frame

\* The elements of a beginning are those whose places come first.
LEMMA BeginningPlaces ==
  ASSUME NEW L \in SUBSET Nat, IsFiniteSet(L), NEW U, Beginning(U, L)
  PROVE  /\ U \in SUBSET L /\ IsFiniteSet(U)
         /\ Cardinality(U) \in Nat /\ Cardinality(U) <= Cardinality(L)
         /\ \A c \in L : Place(L, c) \in Nat /\ (c \in U <=> Place(L, c) < Cardinality(U))
<1>1. U \in SUBSET L
  BY DEF Beginning
<1>2. /\ IsFiniteSet(U) /\ Cardinality(U) \in Nat /\ Cardinality(U) <= Cardinality(L)
  BY <1>1, FS_Subset, FS_CardinalityType
<1>3. ASSUME NEW c \in L
      PROVE  Place(L, c) \in Nat /\ (c \in U <=> Place(L, c) < Cardinality(U))
  <2>. DEFINE before == {m \in L : m < c}
  <2>1. /\ before \in SUBSET L /\ IsFiniteSet(before) /\ c \notin before
        /\ Cardinality(before) = Place(L, c) /\ Place(L, c) \in Nat
    <3>1. before \in SUBSET L /\ c \notin before
      BY NumbersOrdered
    <3>. QED
      BY <3>1, FS_Subset, FS_CardinalityType DEF Place
  <2>2. CASE c \in U
    <3>1. before \cup {c} \in SUBSET U
      BY <2>2 DEF Beginning
    <3>2. Cardinality(before \cup {c}) <= Cardinality(U)
      BY <1>2, <3>1, FS_Subset
    <3>3. Cardinality(before \cup {c}) = Place(L, c) + 1
      BY <2>1, FS_AddElement
    <3>. QED
      BY <1>2, <2>1, <2>2, <3>2, <3>3
  <2>3. CASE c \notin U
    <3>1. U \in SUBSET before
      <4>. SUFFICES ASSUME NEW u \in U
                    PROVE  u \in L /\ u < c
        OBVIOUS
      <4>1. u \in L /\ ~ (c < u) /\ u # c
        BY <1>1, <2>3 DEF Beginning
      <4>. QED
        BY <4>1, NumbersOrdered
    <3>2. Cardinality(U) <= Place(L, c)
      BY <2>1, <3>1, FS_Subset
    <3>. QED
      BY <1>2, <2>1, <2>3, <3>2
  <2>. QED
    BY <2>2, <2>3, <2>1
<1>. QED
  BY <1>1, <1>2, <1>3

\* As many numbers have the first k places, unless there are fewer.
LEMMA FirstPlaces ==
  ASSUME NEW L \in SUBSET Nat, IsFiniteSet(L), NEW k \in Nat
  PROVE  LET V == {c \in L : Place(L, c) < k}
         IN /\ Beginning(V, L)
            /\ k <= Cardinality(L) => Cardinality(V) = k
            /\ Cardinality(L) <= k => V = L
<1>. DEFINE V == {c \in L : Place(L, c) < k}
<1>1. /\ Cardinality(L) \in Nat
      /\ \A c \in L : Place(L, c) \in 0..Cardinality(L) - 1
      /\ \A b, c \in L : b < c => Place(L, b) < Place(L, c)
  BY PlaceFacts
<1>2. Beginning(V, L)
  <2>. SUFFICES ASSUME NEW a \in V, NEW b \in L, b < a
                PROVE  Place(L, b) < k
    BY DEF Beginning
  <2>1. /\ Place(L, b) < Place(L, a) /\ Place(L, a) < k
        /\ Place(L, b) \in Nat /\ Place(L, a) \in Nat
    BY <1>1
  <2>. QED
    BY <2>1
<1>3. ASSUME Cardinality(L) <= k
      PROVE  V = L
  <2>. SUFFICES ASSUME NEW c \in L
                PROVE  Place(L, c) < k
    OBVIOUS
  <2>1. Place(L, c) \in 0..Cardinality(L) - 1
    BY <1>1
  <2>. QED
    BY <1>1, <1>3, <2>1
<1>4. ASSUME k <= Cardinality(L)
      PROVE  Cardinality(V) = k
  <2>1. CASE k = Cardinality(L)
    <3>1. V = L
      BY <1>1, <1>3, <2>1
    <3>. HIDE DEF V
    <3>. QED
      BY <2>1, <3>1
  <2>2. CASE k < Cardinality(L)
    <3>1. k \in 0..Cardinality(L) - 1
      BY <1>1, <2>2
    <3>2. PICK n \in L : Place(L, n) = k
      BY <3>1, PlaceTaken
    <3>3. V = {m \in L : m < n}
      <4>. SUFFICES ASSUME NEW m \in L
                    PROVE  Place(L, m) < k <=> m < n
        OBVIOUS
      <4>1. m < n \/ n < m \/ m = n
        BY NumbersOrdered
      <4>2. Place(L, m) \in Nat /\ Place(L, n) \in Nat
        BY <1>1
      <4>3. n < m => ~ (m < n)
        BY NumbersOrdered
      <4>4. ~ (n < n)
        BY NumbersOrdered
      <4>5. n < m => k < Place(L, m)
        BY <1>1, <3>2
      <4>6. m < n => Place(L, m) < k
        BY <1>1, <3>2
      <4>7. CASE m < n
        BY <4>6, <4>7
      <4>8. CASE n < m
        BY <3>2, <4>2, <4>3, <4>5, <4>8
      <4>9. CASE m = n
        BY <3>2, <4>4, <4>9
      <4>. QED
        BY <4>1, <4>7, <4>8, <4>9
    <3>. QED
      BY <3>2, <3>3 DEF Place
  <2>. QED
    BY <1>1, <1>4, <2>1, <2>2
<1>. QED
  BY <1>2, <1>3, <1>4

LEMMA BeginningAgain ==
  ASSUME NEW U, NEW L, NEW M, Beginning(U, L), Beginning(L, M)
  PROVE  Beginning(U, M)
BY DEF Beginning

\* The next page of a list of which a beginning was read.
LEMMA PageFacts ==
  ASSUME Core, NEW j, NEW U, Beginning(U, Listed(j)),
         NEW from \in Nat, Cardinality(U) = from
  PROVE  LET L == Listed(j)
             items == Page(j, from)
         IN /\ Beginning(U \cup items, L) /\ U \cap items = {}
            /\ IsFiniteSet(U) /\ IsFiniteSet(items) /\ Cardinality(items) \in Nat
            /\ Cardinality(U \cup items) = from + Cardinality(items)
            /\ from + PageSize <= Cardinality(L) => Cardinality(U \cup items) = from + PageSize
            /\ Cardinality(L) <= from + PageSize => U \cup items = L
            /\ items = {} => U = L
            /\ \A a \in U, b \in items : a < b
<1>. DEFINE L == Listed(j)
            items == Page(j, from)
<1>1. /\ L \in SUBSET Nat /\ IsFiniteSet(L) /\ Cardinality(L) \in Nat
      /\ PageSize \in Nat /\ PageSize > 0
  BY ListedType, TransferAssumption
<1>. HIDE DEF L
<1>2. /\ U \in SUBSET L /\ IsFiniteSet(U) /\ from <= Cardinality(L)
      /\ \A c \in L : Place(L, c) \in Nat /\ (c \in U <=> Place(L, c) < from)
  BY <1>1, BeginningPlaces DEF L
<1>3. items = {c \in L : Place(L, c) \in from..from + PageSize - 1}
  BY DEF Page, L
<1>4. U \cup items = {c \in L : Place(L, c) < from + PageSize}
  <2>. SUFFICES ASSUME NEW c \in L
                PROVE  c \in U \cup items <=> Place(L, c) < from + PageSize
    BY <1>2, <1>3
  <2>1. Place(L, c) \in Nat /\ (c \in U <=> Place(L, c) < from)
    BY <1>2
  <2>2. c \in items <=> from <= Place(L, c) /\ Place(L, c) < from + PageSize
    BY <1>1, <1>3, <2>1
  <2>. QED
    BY <1>1, <2>1, <2>2
<1>5. U \cap items = {}
  BY <1>2, <1>3
<1>6. items \in SUBSET L /\ IsFiniteSet(items) /\ Cardinality(items) \in Nat
  <2>1. items \in SUBSET L
    BY <1>3
  <2>. QED
    BY <1>1, <2>1, FS_Subset, FS_CardinalityType
<1>7. /\ Beginning(U \cup items, L)
      /\ from + PageSize <= Cardinality(L) => Cardinality(U \cup items) = from + PageSize
      /\ Cardinality(L) <= from + PageSize => U \cup items = L
  <2>1. from + PageSize \in Nat
    BY <1>1
  <2>. QED
    BY <1>1, <1>4, <2>1, FirstPlaces
<1>8. Cardinality(U \cup items) = from + Cardinality(items)
  <2>1. Cardinality(U \cup items) = Cardinality(U) + Cardinality(items) - Cardinality(U \cap items)
    BY <1>2, <1>6, FS_Union
  <2>2. Cardinality(U \cap items) = 0
    BY <1>5, FS_EmptySet
  <2>. QED
    BY <1>6, <2>1, <2>2
<1>9. items = {} => U = L
  <2>. SUFFICES ASSUME items = {}, NEW c \in L, c \notin U
                PROVE  FALSE
    BY <1>2
  <2>1. Place(L, c) \in 0..Cardinality(L) - 1 /\ ~ (Place(L, c) < from)
    BY <1>1, <1>2, PlaceFacts
  <2>2. from \in 0..Cardinality(L) - 1
    BY <1>1, <2>1
  <2>3. PICK n \in L : Place(L, n) = from
    BY <1>1, <2>2, PlaceTaken
  <2>4. n \in items
    BY <1>1, <1>3, <2>3
  <2>. QED
    BY <2>4
<1>10. ASSUME NEW a \in U, NEW b \in items
       PROVE  a < b
  <2>1. a \in L /\ b \in L /\ a \in U /\ b \notin U
    BY <1>2, <1>5, <1>6
  <2>2. ~ (b < a) /\ a # b
    BY <2>1 DEF Beginning, L
  <2>. QED
    BY <1>1, <2>1, <2>2, NumbersOrdered
<1>. QED
  BY <1>2, <1>5, <1>6, <1>7, <1>8, <1>9, <1>10 DEF L

\* What an export has collected when it has read one more page.
LEMMA PagesGrow ==
  ASSUME NEW j \in Job, pages \in [Job -> Seq(SUBSET Nat)], NEW items \in SUBSET Nat,
         IsFiniteSet(items), IsFiniteSet(OnPages(j)), pages' = [pages EXCEPT ![j] = Append(@, items)]
  PROVE  /\ Collected(j)' = Collected(j) + Cardinality(items)
         /\ OnPages(j)' = OnPages(j) \cup items
         /\ Len(pages'[j]) = Len(pages[j]) + 1
         /\ Len(pages[j]) \in Nat
         /\ InOrder(j) /\ (\A a \in OnPages(j), b \in items : a < b) => InOrder(j)'
<1>. DEFINE p == pages[j]
            q == pages'[j]
            z == Len(p) + 1
            Pairs(s) == UNION {{n} \X s[n] : n \in DOMAIN s}
<1>1. /\ p \in Seq(SUBSET Nat) /\ Len(p) \in Nat /\ DOMAIN p = 1..Len(p)
      /\ q = Append(p, items)
  BY LenProperties
<1>2. /\ Len(q) = z /\ DOMAIN q = DOMAIN p \cup {z} /\ z \notin DOMAIN p
      /\ \A n \in DOMAIN p : q[n] = p[n] /\ n < z /\ ~ (z < n)
      /\ q[z] = items /\ ~ (z < z)
  <2>1. /\ Len(q) = z /\ \A n \in 1..Len(p) : q[n] = p[n]
        /\ q[z] = items /\ q \in Seq(SUBSET Nat)
    BY <1>1, AppendProperties
  <2>2. DOMAIN q = 1..z
    BY <2>1, LenProperties
  <2>. QED
    BY <1>1, <2>1, <2>2
<1>3. OnPages(j)' = OnPages(j) \cup items
  BY <1>2 DEF OnPages
<1>4. Pairs(q) = Pairs(p) \cup ({z} \X items) /\ Pairs(p) \cap ({z} \X items) = {}
  BY <1>2
<1>5. IsFiniteSet(Pairs(p))
  <2>. DEFINE parts == {{n} \X p[n] : n \in DOMAIN p}
              f == [n \in DOMAIN p |-> {n} \X p[n]]
  <2>1. f \in Surjection(DOMAIN p, parts)
    BY DEF Surjection
  <2>2. IsFiniteSet(DOMAIN p)
    BY <1>1, FS_Interval
  <2>3. IsFiniteSet(parts)
    BY <2>1, <2>2, FS_Surjection
  <2>4. ASSUME NEW part \in parts
        PROVE  IsFiniteSet(part)
    <3>1. PICK n \in DOMAIN p : part = {n} \X p[n]
      OBVIOUS
    <3>2. p[n] \in SUBSET OnPages(j)
      BY DEF OnPages
    <3>3. IsFiniteSet(p[n]) /\ IsFiniteSet({n})
      BY <3>2, FS_Subset, FS_Singleton
    <3>. QED
      BY <3>1, <3>3, FS_Product
  <2>. QED
    BY <2>3, <2>4, FS_UNION
<1>6. Collected(j) = Cardinality(Pairs(p)) /\ Collected(j)' = Cardinality(Pairs(q))
  BY DEF Collected
<1>7. IsFiniteSet({z} \X items) /\ Cardinality({z} \X items) = Cardinality(items)
  <2>1. IsFiniteSet({z}) /\ Cardinality({z}) = 1
    BY FS_Singleton
  <2>2. /\ IsFiniteSet({z} \X items)
        /\ Cardinality({z} \X items) = Cardinality({z}) * Cardinality(items)
    BY <2>1, FS_Product
  <2>3. Cardinality(items) \in Nat
    BY FS_CardinalityType
  <2>. QED
    BY <2>1, <2>2, <2>3
<1>8. Collected(j)' = Collected(j) + Cardinality(items)
  <2>. HIDE DEF Pairs, z
  <2>1. Cardinality(Pairs(p) \cup ({z} \X items)) = Cardinality(Pairs(p)) + Cardinality({z} \X items)
                                                     - Cardinality(Pairs(p) \cap ({z} \X items))
    BY <1>5, <1>7, FS_Union
  <2>2. Cardinality(Pairs(p) \cap ({z} \X items)) = 0
    BY <1>4, FS_EmptySet
  <2>3. Cardinality(Pairs(p)) \in Nat /\ Cardinality(items) \in Nat
    BY <1>5, FS_CardinalityType
  <2>. QED
    BY <1>4, <1>6, <1>7, <2>1, <2>2, <2>3
<1>9. ASSUME InOrder(j), \A a \in OnPages(j), b \in items : a < b
      PROVE  InOrder(j)'
  <2>. SUFFICES ASSUME NEW m \in DOMAIN q, NEW n \in DOMAIN q, m < n, NEW a \in q[m], NEW b \in q[n]
                PROVE  a < b
    BY DEF InOrder
  <2>1. m \in DOMAIN p
    BY <1>2
  <2>2. a \in p[m] /\ a \in OnPages(j)
    BY <1>2, <2>1 DEF OnPages
  <2>3. CASE n \in DOMAIN p
    BY <1>2, <1>9, <2>1, <2>2, <2>3 DEF InOrder
  <2>4. CASE n = z
    BY <1>2, <1>9, <2>2, <2>4
  <2>. QED
    BY <1>2, <2>3, <2>4
<1>. QED
  BY <1>1, <1>2, <1>3, <1>8, <1>9

LEMMA ExportsInit == Init => History /\ Exports
<1>. SUFFICES ASSUME Init
              PROVE  History /\ Exports
  OBVIOUS
<1>1. mix \in SUBSET Job
  BY TransferAssumption DEF Init
<1>2. Len(log) = 0 /\ \A j \in Job : pc[j] = "idle" /\ pages[j] = <<>> /\ began[j] = 0 /\ ended[j] = 0
  BY EmptySeq DEF Init
<1>. QED
  BY <1>1, <1>2 DEF History, Exports

\* Job j's export, when another job k takes a step.
LEMMA ExportBeside ==
  ASSUME Core, Core', History, Exports, NEW k \in mix, Step(k), NEW j \in mix \ {k},
         reqOf[j].op = "export.csv"
  PROVE  /\ pc'[j] = "idle" => pages'[j] = <<>>
         /\ pc'[j] \in {"counting", "paging"} /\ Since(j, Relisting)' => Collecting(j)'
         /\ pc'[j] \in {"committing", "ok"} /\ Since(j, Relisting)'
              => listed'[j] \subseteq OnPages(j)' /\ InOrder(j)'
<1>1. /\ j \in Job /\ Frame(k)
      /\ pc'[j] = pc[j] /\ pages'[j] = pages[j] /\ total'[j] = total[j]
      /\ began'[j] = began[j] /\ listed'[j] = listed[j]
  BY StepFrame DEF Core, Types, Frame
<1>2. /\ OnPages(j)' = OnPages(j) /\ Collected(j)' = Collected(j) /\ (InOrder(j)' <=> InOrder(j))
  BY <1>1 DEF OnPages, Collected, InOrder
<1>3. CASE Since(j, Relisting)'
  <2>1. Since(j, Relisting) /\ (reqOf[k].op \notin Relisting \/ log' = log)
    BY <1>1, <1>3, SinceStep
  <2>2. Beginning(Listed(j), Listed(j)')
    BY <2>1, ListGrows
  <2>3. ASSUME pc[j] \in {"counting", "paging"}
        PROVE  Collecting(j)'
    <3>1. Collecting(j)
      BY <2>1, <2>3 DEF Exports
    <3>2. Beginning(OnPages(j), Listed(j)') /\ Beginning(listed[j], Listed(j)')
      BY <2>2, <3>1, BeginningAgain DEF Collecting
    <3>3. /\ Cardinality(OnPages(j)) = Collected(j) /\ Collected(j) = PageSize * Len(pages[j])
          /\ InOrder(j)
      BY <3>1 DEF Collecting
    <3>4. ASSUME pc[j] = "paging"
          PROVE  Cardinality(listed[j]) <= total[j] /\ total[j] <= Cardinality(Listed(j)')
      <4>1. Cardinality(listed[j]) <= total[j] /\ total[j] <= Cardinality(Listed(j))
        BY <3>1, <3>4 DEF Collecting
      <4>2. Listed(j)' \in SUBSET Nat /\ IsFiniteSet(Listed(j)')
        <5>1. lead' \in TableOf(LeadRow)
          BY DEF Core, Types, TypeOK
        <5>2. Listed(j)' \in SUBSET DOMAIN lead'
          BY DEF Listed, Ids
        <5>3. DOMAIN lead' \in SUBSET Nat /\ IsFiniteSet(DOMAIN lead')
          <6>1. DOMAIN lead' = 1..Len(lead') /\ Len(lead') \in Nat
            BY <5>1, TableFacts
          <6>2. IsFiniteSet(1..Len(lead'))
            BY <6>1, FS_Interval
          <6>. QED
            BY <6>1, <6>2
        <5>. QED
          BY <5>2, <5>3, FS_Subset
      <4>3. /\ Cardinality(Listed(j)) <= Cardinality(Listed(j)')
            /\ Cardinality(Listed(j)) \in Nat /\ Cardinality(Listed(j)') \in Nat
        BY <2>2, <4>2, BeginningPlaces, FS_CardinalityType
      <4>4. total[j] \in Nat
        BY <1>1 DEF Core, Types
      <4>. QED
        BY <4>1, <4>3, <4>4
    <3>. QED
      BY <1>1, <1>2, <3>2, <3>3, <3>4 DEF Collecting
  <2>. QED
    BY <1>1, <1>2, <2>1, <2>3 DEF Exports
<1>4. CASE ~Since(j, Relisting)'
  BY <1>1, <1>4 DEF Exports
<1>. QED
  BY <1>3, <1>4

\* Its own steps.
LEMMA ExportStep ==
  ASSUME Core, History, Exports, NEW j \in mix, Step(j), reqOf[j].op = "export.csv"
  PROVE  /\ pc'[j] = "idle" => pages'[j] = <<>>
         /\ pc'[j] \in {"counting", "paging"} /\ Since(j, Relisting)' => Collecting(j)'
         /\ pc'[j] \in {"committing", "ok"} /\ Since(j, Relisting)'
              => listed'[j] \subseteq OnPages(j)' /\ InOrder(j)'
<1>. DEFINE L == Listed(j)
<1>1. /\ j \in Job /\ Frame(j) /\ pc \in [Job -> Where]
      /\ listed \in [Job -> SUBSET Nat] /\ total \in [Job -> Nat]
      /\ pages \in [Job -> Seq(SUBSET Nat)]
      /\ L \in SUBSET Nat /\ IsFiniteSet(L) /\ Cardinality(L) \in Nat
      /\ PageSize \in Nat /\ PageSize > 0
  BY StepFrame, ListedType, TransferAssumption DEF Core, Types
<1>2. \/ Begin(j) \/ CountPage(j) \/ ReadPage(j) \/ Commit(j)
      \/ pc'[j] = "failed"
  <2>1. /\ pc[j] \notin {"preview_company", "preview_person", "asked"} \cup Writing
        /\ pc[j] \notin {"tag", "tagging"} /\ pc[j] \notin Planning
    BY <1>1 DEF Core, Fits, Importing
  <2>2. Fail(j) => pc'[j] = "failed"
    BY <1>1 DEF Fail, Goto
  <2>. QED
    BY <2>1, <2>2 DEF Step, Preview, Refuse, FindTag, CreateTag, PlanCompany, PlanPerson, PlanNothing,
      WriteCompany, WritePerson, LinkRefused, FindLead, WriteLead, DeadlockAbort, EditRecord,
      Unlink, Edit, Planning, Writing
<1>3. CASE Begin(j)
  <2>1. pc[j] = "idle" /\ pages[j] = <<>>
    <3>1. pc[j] # "asked"
      BY <1>1 DEF Core, Fits
    <3>. QED
      BY <1>3, <3>1 DEF Begin, MayRun, Exports
  <2>2. /\ pc'[j] = "counting" /\ listed'[j] = L /\ pages' = pages /\ lead' = lead
    BY <1>1, <1>3 DEF Begin, Goto, tables, Listed
  <2>3. Listed(j)' = L
    BY <2>2, ListSame
  <2>4. /\ OnPages(j)' = {} /\ Collected(j)' = 0 /\ Len(pages'[j]) = 0 /\ InOrder(j)'
        /\ DOMAIN pages'[j] = {}
    <3>1. pages'[j] = <<>>
      BY <2>1, <2>2
    <3>2. DOMAIN pages'[j] = {} /\ Len(pages'[j]) = 0
      BY <3>1, EmptySeq
    <3>3. OnPages(j)' = {} /\ InOrder(j)'
      BY <3>2 DEF OnPages, InOrder
    <3>4. UNION {{n} \X pages'[j][n] : n \in DOMAIN pages'[j]} = {}
      BY <3>2
    <3>5. Collected(j)' = 0
      BY <3>4, FS_EmptySet DEF Collected
    <3>. QED
      BY <3>2, <3>3, <3>5
  <2>5. Cardinality(OnPages(j)') = 0 /\ PageSize * 0 = 0
    BY <1>1, <2>4, FS_EmptySet
  <2>6. Beginning({}, L) /\ Beginning(L, L)
    BY DEF Beginning
  <2>7. Collecting(j)'
    BY <2>2, <2>3, <2>4, <2>5, <2>6 DEF Collecting
  <2>. QED
    BY <2>2, <2>7
<1>4. ASSUME CountPage(j) \/ ReadPage(j) \/ Commit(j), Since(j, Relisting)'
      PROVE  /\ Since(j, Relisting)
             /\ pc[j] \in {"counting", "paging"} => Collecting(j)
             /\ pc[j] \in {"committing", "ok"} => listed[j] \subseteq OnPages(j) /\ InOrder(j)
             /\ Listed(j)' = L /\ listed' = listed
  <2>1. UNCHANGED <<lead, began, listed>>
    BY <1>4 DEF CountPage, ReadPage, Commit, Goes, Ends, tables, history
  <2>2. Since(j, Relisting)
    BY <1>1, <1>4, <2>1, SinceStep
  <2>. QED
    BY <2>1, <2>2, ListSame DEF Exports
<1>5. CASE CountPage(j) /\ Since(j, Relisting)'
  <2>1. /\ pc[j] = "counting" /\ pc'[j] = "paging" /\ total'[j] = Cardinality(L) /\ pages' = pages
    BY <1>1, <1>5 DEF CountPage, Goes, Goto
  <2>2. Collecting(j)
    BY <1>4, <1>5, <2>1
  <2>3. /\ OnPages(j)' = OnPages(j) /\ Collected(j)' = Collected(j) /\ (InOrder(j)' <=> InOrder(j))
    BY <2>1 DEF OnPages, Collected, InOrder
  <2>4. Cardinality(listed[j]) <= Cardinality(L)
    BY <1>1, <2>2, BeginningPlaces DEF Collecting
  <2>5. Collecting(j)'
    BY <1>1, <1>4, <1>5, <2>1, <2>2, <2>3, <2>4 DEF Collecting
  <2>. QED
    BY <2>1, <2>5
<1>6. CASE ReadPage(j) /\ Since(j, Relisting)'
  <2>. DEFINE from == PageSize * Len(pages[j])
              items == Page(j, from)
              U == OnPages(j)
  <2>1. /\ pc[j] = "paging" /\ total' = total
        /\ pages' = [pages EXCEPT ![j] = Append(@, items)]
        /\ pc'[j] = IF Collected(j) + Cardinality(items) >= total[j] \/ items = {}
                    THEN "committing" ELSE "counting"
    BY <1>1, <1>6 DEF ReadPage, Goes, Goto
  <2>2. Collecting(j)
    BY <1>4, <1>6, <2>1
  <2>3. /\ Beginning(U, L) /\ Beginning(listed[j], L)
        /\ Cardinality(U) = from /\ Collected(j) = from /\ InOrder(j)
        /\ Cardinality(listed[j]) <= total[j] /\ total[j] <= Cardinality(L)
    BY <2>1, <2>2 DEF Collecting
  <2>4. from \in Nat /\ total[j] \in Nat
    BY <1>1, <2>3, BeginningPlaces
  <2>. HIDE DEF U, from
  <2>5. /\ Beginning(U \cup items, L)
        /\ IsFiniteSet(U) /\ IsFiniteSet(items) /\ Cardinality(items) \in Nat
        /\ Cardinality(U \cup items) = from + Cardinality(items)
        /\ from + PageSize <= Cardinality(L) => Cardinality(U \cup items) = from + PageSize
        /\ Cardinality(L) <= from + PageSize => U \cup items = L
        /\ items = {} => U = L
        /\ \A a \in U, b \in items : a < b
    BY <2>3, <2>4, PageFacts
  <2>6. items \in SUBSET Nat
    <3>1. items \in SUBSET L
      BY ListedType
    <3>. QED
      BY <1>1, <3>1
  <2>. HIDE DEF items, L
  <2>7. /\ Collected(j)' = from + Cardinality(items)
        /\ OnPages(j)' = U \cup items
        /\ Len(pages'[j]) = Len(pages[j]) + 1 /\ Len(pages[j]) \in Nat
        /\ InOrder(j)'
    BY <1>1, <2>1, <2>3, <2>5, <2>6, PagesGrow DEF U, from
  <2>8. CASE pc'[j] = "counting"
    <3>1. from + Cardinality(items) < total[j]
      BY <2>1, <2>3, <2>4, <2>5, <2>8
    <3>2. from + Cardinality(items) < Cardinality(L)
      BY <1>1, <2>3, <2>4, <2>5, <3>1
    <3>3. ~ (Cardinality(L) <= from + PageSize)
      <4>. SUFFICES ASSUME Cardinality(L) <= from + PageSize
                    PROVE  FALSE
        OBVIOUS
      <4>1. U \cup items = L
        BY <2>5
      <4>2. Cardinality(L) = from + Cardinality(items)
        BY <2>5, <4>1
      <4>. QED
        BY <1>1, <3>2, <4>2
    <3>4. Cardinality(U \cup items) = from + PageSize
      BY <1>1, <2>4, <2>5, <3>3
    <3>5. from + PageSize = PageSize * Len(pages'[j])
      <4>1. \A a, b \in Nat : a * b + a = a * (b + 1)
        OBVIOUS
      <4>. QED
        BY <1>1, <2>7, <4>1 DEF from
    <3>6. Collecting(j)'
      BY <1>4, <1>6, <2>3, <2>5, <2>7, <2>8, <3>4, <3>5 DEF Collecting, L
    <3>. QED
      BY <2>8, <3>6
  <2>9. CASE pc'[j] = "committing"
    <3>1. CASE items = {}
      <4>1. U \cup items = L
        BY <2>5, <3>1
      <4>. QED
        BY <1>4, <1>6, <2>3, <2>7, <2>9, <4>1 DEF Beginning
    <3>2. CASE items # {}
      <4>1. from + Cardinality(items) >= total[j]
        BY <2>1, <2>3, <2>9, <3>2
      <4>2. Cardinality(listed[j]) \in Nat
        BY <1>1, <2>3, BeginningPlaces
      <4>3. Cardinality(listed[j]) <= Cardinality(U \cup items)
        BY <2>3, <2>4, <2>5, <4>1, <4>2
      <4>4. ASSUME NEW c \in listed[j]
            PROVE  c \in U \cup items
        <5>1. c \in L
          BY <2>3 DEF Beginning
        <5>2. Place(L, c) \in Nat /\ Place(L, c) < Cardinality(listed[j])
          BY <1>1, <2>3, <5>1, BeginningPlaces
        <5>3. Place(L, c) < Cardinality(U \cup items)
          BY <2>4, <2>5, <4>2, <4>3, <5>2
        <5>. QED
          BY <1>1, <2>5, <5>1, <5>3, BeginningPlaces
      <4>. QED
        BY <1>4, <1>6, <2>7, <2>9, <4>4
    <3>. QED
      BY <3>1, <3>2
  <2>. QED
    BY <2>1, <2>8, <2>9
<1>7. CASE Commit(j) /\ Since(j, Relisting)'
  <2>1. pc[j] = "committing" /\ pc'[j] = "ok" /\ pages' = pages
    BY <1>1, <1>7 DEF Commit, Goto, locals
  <2>2. OnPages(j)' = OnPages(j) /\ (InOrder(j)' <=> InOrder(j))
    BY <2>1 DEF OnPages, InOrder
  <2>. QED
    BY <1>4, <1>7, <2>1, <2>2
<1>8. CASE ~Since(j, Relisting)' /\ ~Begin(j)
  <2>1. pc'[j] # "idle"
    BY <1>1, <1>2, <1>8 DEF CountPage, ReadPage, Commit, Goes, Goto
  <2>. QED
    BY <1>8, <2>1
<1>. QED
  BY <1>2, <1>3, <1>5, <1>6, <1>7, <1>8

\* A page is read until the list that was counted is through, and what a page
\* has is behind all pages before it: nobody puts a lead before one that is listed.
LEMMA ExportsNext == Core /\ Core' /\ History /\ Exports /\ [Next]_vars => History' /\ Exports'
<1>. SUFFICES ASSUME Core, Core', History, Exports, [Next]_vars
              PROVE  History' /\ Exports'
  OBVIOUS
<1>1. CASE UNCHANGED vars
  <2>1. UNCHANGED <<order, mix, lead, pc, total, pages, log, began, ended, listed>>
    BY <1>1 DEF vars, tables, locals, history
  <2>2. ASSUME NEW j
        PROVE  /\ OnPages(j)' = OnPages(j) /\ Collected(j)' = Collected(j)
               /\ (InOrder(j)' <=> InOrder(j)) /\ Listed(j)' = Listed(j)
               /\ (Since(j, Relisting)' <=> Since(j, Relisting))
    BY <2>1 DEF OnPages, Collected, InOrder, Listed, Ids, Sees, Open, Since, Between
  <2>3. \A j : Collecting(j)' <=> Collecting(j)
    BY <2>1, <2>2 DEF Collecting
  <2>. QED
    BY <2>1, <2>2, <2>3 DEF History, Exports
<1>2. ASSUME NEW k \in mix, Step(k)
      PROVE  History' /\ Exports'
  <2>1. History'
    BY <1>2, HistoryStep
  <2>2. mix' = mix
    BY <1>2, StepFrame DEF Frame
  <2>. QED
    BY <1>2, <2>1, <2>2, ExportBeside, ExportStep DEF Exports
<1>. QED
  BY <1>1, <1>2 DEF Next

\* An export has every lead that was there when it began, once and in order
\* (data-ops.ts, export.csv), whatever is imported meanwhile.
THEOREM ExportCompleteHolds == Spec => []ExportComplete
<1>1. Core /\ Exports => ExportComplete
  BY DEF Exports, ExportComplete, Since, Relisting, OnPages, InOrder
<1>. QED
  BY <1>1, CoreHolds, CoreInit, CoreNext, ExportsInit, ExportsNext, PTL DEF Spec

-----------------------------------------------------------------------------
(* Where the rows of an import land.                                       *)

\* The companies a person works for, whoever knows of it.
EmployersOf(p) == {l.company : l \in {m \in link : m.person = p}}

CompanyData(j, record, row) == \A f \in CompanyField \cap Supplied(j) : record.data[f] = row[f]

\* With a CSV that has companies a person works for the company of the row.
WorksAt(j, p, at) ==
  CompanyColumn(j) => IF at = None THEN EmployersOf(p) = {} ELSE at \in EmployersOf(p)

\* What a row is planned to have: nothing, a record that is like it, or what the
\* first row with its data makes.
CompanyFits(j, n) ==
  LET ref == plan[j][n].company
  IN /\ ref.kind = "none" <=> Row(j, n)["company.name"] = None
     /\ ref.kind = "none" => ref = NoRef
     /\ ref.kind = "existing" => /\ ref.of \in Ids(j, company)
                                 /\ CompanyData(j, company[ref.of], Row(j, n))
     /\ ref.kind = "new" =>
          /\ ref.of \in 1..n /\ plan[j][ref.of].company = ref
          /\ SameDataKey(j, CompanyField, ref.of) = SameDataKey(j, CompanyField, n)

PersonFits(j, n) ==
  LET ref == plan[j][n].person
      at == plan[j][n].company
  IN /\ ref.kind = "none" <=> Row(j, n)["person.name"] = None
     /\ ref.kind = "none" => ref = NoRef
     /\ ref.kind = "existing" =>
          /\ ref.of \in Ids(j, person)
          /\ SameDataAs(j, person[ref.of], Row(j, n))
          /\ CompanyColumn(j) => at.kind # "new"
          /\ WorksAt(j, ref.of, IF at.kind = "existing" THEN at.of ELSE None)
     /\ ref.kind = "new" =>
          /\ ref.of \in 1..n /\ plan[j][ref.of].person = ref
          /\ PersonKey(j, ref.of, plan[j][ref.of].company) = PersonKey(j, n, at)

\* What a row was written with.
CompanyLanded(j, n) ==
  LET ref == plan[j][n].company
      id == landed[j][n].company
  IN /\ ref.kind = "none" => id = None
     /\ ref.kind = "existing" => id = ref.of
     /\ ref.kind = "new" => id = landed[j][ref.of].company
     /\ ref.kind # "none" => /\ id # None /\ id \in Ids(j, company)
                             /\ CompanyData(j, company[id], Row(j, n))

PersonLanded(j, n) ==
  LET ref == plan[j][n].person
      id == landed[j][n].person
  IN /\ ref.kind = "none" => id = None
     /\ ref.kind # "none" => /\ id # None /\ id \in Ids(j, person)
                             /\ SameDataAs(j, person[id], Row(j, n))
                             /\ WorksAt(j, id, landed[j][n].company)

LeadLanded(j, n) ==
  LET at == landed[j][n]
  IN /\ at.lead \in Ids(j, lead)
     /\ lead[at.lead].company = at.company /\ lead[at.lead].person = at.person
     /\ lead[at.lead].source = LeadSource(j, Row(j, n))

Aimed(j) ==
  \A n \in 1..Len(plan[j]) :
    /\ CompanyFits(j, n)
    /\ n < Len(plan[j]) \/ pc[j] # "person" => PersonFits(j, n)

Arrived(j) ==
  \A n \in 1..Len(landed[j]) :
    /\ CompanyLanded(j, n)
    /\ IF n < Len(landed[j]) \/ pc[j] # "landing" THEN PersonLanded(j, n)
       ELSE landed[j][n].person = None
    /\ n < Len(landed[j]) \/ pc[j] \notin {"landing", "finding", "leading"} => LeadLanded(j, n)

Landings ==
  \A j \in Imports :
    pc[j] \in {"company", "person", "committing", "ok"} \cup Writing /\ Since(j, Edit)
      => Aimed(j) /\ Arrived(j)

\* What a job sees stays as it is while nobody edits it.
Remain(j) ==
  /\ \A n \in Ids(j, company) : n \in Ids(j, company)' /\ company'[n] = company[n]
  /\ \A n \in Ids(j, person) : /\ n \in Ids(j, person)' /\ person'[n] = person[n]
                               /\ EmployersOf(n)' = EmployersOf(n)
  /\ \A n \in Ids(j, lead) : n \in Ids(j, lead)' /\ lead'[n] = lead[n]

LEMMA MovesKeep ==
  ASSUME Core, NEW k \in mix, Frame(k), NEW j \in mix, j # k \/ pc'[k] # "failed",
         NEW R, NEW t \in TableOf(R), OwnedIn(t, pc, mix), NEW u, Moves(t, u, k),
         NEW n \in Ids(j, t)
  PROVE  /\ n \in DOMAIN t /\ t[n] # None /\ (j # k => t[n].by # k)
         /\ n \in DOMAIN u /\ u[n] = t[n] /\ t[n].by \notin Open' \ {j}
<1>1. n \in DOMAIN t /\ t[n] # None /\ t[n].by \notin Open \ {j} /\ pc[k] # "ok"
  BY DEF Ids, Sees, Frame
<1>2. j # k => t[n].by # k
  BY <1>1, OwnerOpen
<1>3. Open' \ {k} = Open \ {k}
  BY DEF Frame, Open, Core, Types
<1>4. t[n].by \notin Open' \ {j}
  BY <1>1, <1>2, <1>3
<1>5. n \in DOMAIN u /\ u[n] = t[n]
  <2>1. CASE u = Undo(k, t) /\ pc'[k] = "failed"
    BY <1>1, <1>2, <2>1, UndoFacts DEF Stays
  <2>2. CASE \E row : u = Append(t, row)
    BY <1>1, <2>2, AppendAny
  <2>. QED
    BY <1>1, <2>1, <2>2 DEF Moves
<1>. QED
  BY <1>1, <1>2, <1>4, <1>5

LEMMA SeenRemains ==
  ASSUME Core, NEW k \in mix, Step(k), reqOf[k].op \notin Edit \/ log' = log,
         NEW j \in mix, j # k \/ pc'[k] # "failed"
  PROVE  Remain(j)
<1>1. /\ Frame(k)
      /\ company \in TableOf(CompanyRow) /\ person \in TableOf(PersonRow)
      /\ lead \in TableOf(LeadRow)
      /\ OwnedIn(company, pc, mix) /\ OwnedIn(person, pc, mix) /\ OwnedIn(lead, pc, mix)
      /\ LinksKnown
  BY StepFrame DEF Core, Types, TypeOK, Tables
<1>2. /\ Moves(company, company', k) /\ Moves(person, person', k) /\ Moves(lead, lead', k)
      /\ \/ link' = link
         \/ link' = {l \in link : l.by # k} /\ pc'[k] = "failed"
         \/ pc[k] = "landing" /\ link' = link \cup LinkMade(k, Len(person) + 1)
  BY StepMoves
<1>3. ASSUME NEW n \in Ids(j, company)
      PROVE  n \in Ids(j, company)' /\ company'[n] = company[n]
  <2>1. /\ company[n] # None /\ n \in DOMAIN company' /\ company'[n] = company[n]
        /\ company[n].by \notin Open' \ {j}
    BY <1>1, <1>2, MovesKeep
  <2>. QED
    BY <2>1 DEF Ids, Sees
<1>4. ASSUME NEW n \in Ids(j, lead)
      PROVE  n \in Ids(j, lead)' /\ lead'[n] = lead[n]
  <2>1. /\ lead[n] # None /\ n \in DOMAIN lead' /\ lead'[n] = lead[n]
        /\ lead[n].by \notin Open' \ {j}
    BY <1>1, <1>2, MovesKeep
  <2>. QED
    BY <2>1 DEF Ids, Sees
<1>5. ASSUME NEW n \in Ids(j, person)
      PROVE  /\ n \in Ids(j, person)' /\ person'[n] = person[n]
             /\ EmployersOf(n)' = EmployersOf(n)
  <2>1. /\ person[n] # None /\ n \in DOMAIN person' /\ person'[n] = person[n]
        /\ person[n].by \notin Open' \ {j} /\ n \in DOMAIN person
        /\ j # k => person[n].by # k
    BY <1>1, <1>2, MovesKeep
  <2>2. n # Len(person) + 1
    BY <1>1, <2>1, AppendAny
  <2>3. \A l \in LinkMade(k, Len(person) + 1) : l.person = Len(person) + 1
    BY DEF LinkMade
  <2>4. {l \in link' : l.person = n} = {l \in link : l.person = n}
    BY <1>1, <1>2, <2>1, <2>2, <2>3 DEF LinksKnown
  <2>. QED
    BY <2>1, <2>4 DEF Ids, Sees, EmployersOf
<1>. QED
  BY <1>3, <1>4, <1>5 DEF Remain

\* Of a person it sees a job sees all employers.
LEMMA EmployersSeen ==
  ASSUME Core, NEW j, NEW n \in Ids(j, person)
  PROVE  Employers(j, n) = EmployersOf(n)
<1>1. \A l \in link : l.person = n => l \in Links(j)
  BY NoneAssumption DEF Core, Types, TypeOK, Tables, LinksKnown, Links, Ids, Sees
<1>. QED
  BY <1>1 DEF Employers, EmployersOf, Links

\* What is said of a row of a CSV does not change.
LEMMA RowFixed ==
  ASSUME NEW j \in Job, NEW n
  PROVE  /\ Row(j, n)' = Row(j, n) /\ Supplied(j)' = Supplied(j)
         /\ CompanyColumn(j)' = CompanyColumn(j)
         /\ \A f : SameDataKey(j, f, n)' = SameDataKey(j, f, n)
         /\ LeadSource(j, Row(j, n))' = LeadSource(j, Row(j, n))
         /\ \A record : /\ CompanyData(j, record, Row(j, n))' <=> CompanyData(j, record, Row(j, n))
                        /\ SameDataAs(j, record, Row(j, n))' <=> SameDataAs(j, record, Row(j, n))
<1>1. Row(j, n)' = Row(j, n)
  BY RowsFixed DEF Row
<1>. QED
  BY <1>1 DEF Supplied, CompanyColumn, SameDataKey, LeadSource, CompanyData, SameDataAs

\* A row fits as it did while what its job sees remains.
LEMMA CompanyFitsAgain ==
  ASSUME NEW j \in Job, Remain(j), NEW n \in Nat, CompanyFits(j, n),
         \A m \in 1..n : plan'[j][m].company = plan[j][m].company, n \in 1..n
  PROVE  CompanyFits(j, n)'
<1>. DEFINE ref == plan[j][n].company
            now == plan'[j][n].company
<1>1. now = ref
  OBVIOUS
<1>2. /\ Row(j, n)' = Row(j, n) /\ Supplied(j)' = Supplied(j)
      /\ SameDataKey(j, CompanyField, n)' = SameDataKey(j, CompanyField, n)
      /\ \A m : SameDataKey(j, CompanyField, m)' = SameDataKey(j, CompanyField, m)
  BY RowFixed
<1>3. /\ ref.kind = "none" <=> Row(j, n)["company.name"] = None
      /\ ref.kind = "none" => ref = NoRef
      /\ ref.kind = "existing" => /\ ref.of \in Ids(j, company)
                                  /\ CompanyData(j, company[ref.of], Row(j, n))
      /\ ref.kind = "new" =>
           /\ ref.of \in 1..n /\ plan[j][ref.of].company = ref
           /\ SameDataKey(j, CompanyField, ref.of) = SameDataKey(j, CompanyField, n)
  BY DEF CompanyFits
<1>4. ref.kind = "existing" => /\ ref.of \in Ids(j, company)'
                               /\ company'[ref.of] = company[ref.of]
  BY <1>3 DEF Remain
<1>5. ref.kind = "existing" => CompanyData(j, company[ref.of], Row(j, n))'
  BY <1>1, <1>2, <1>3, <1>4 DEF CompanyData
<1>6. ref.kind = "new" => plan'[j][ref.of].company = now
  BY <1>1, <1>3
<1>. QED
  BY <1>1, <1>2, <1>3, <1>4, <1>5, <1>6 DEF CompanyFits, NoRef

LEMMA PersonFitsAgain ==
  ASSUME NEW j \in Job, Remain(j), NEW n \in Nat, PersonFits(j, n),
         \A m \in 1..n : plan'[j][m] = plan[j][m], n \in 1..n
  PROVE  PersonFits(j, n)'
<1>. DEFINE ref == plan[j][n].person
            at == plan[j][n].company
            work == IF at.kind = "existing" THEN at.of ELSE None
<1>1. plan'[j][n] = plan[j][n]
  OBVIOUS
<1>2. /\ Row(j, n)' = Row(j, n) /\ Supplied(j)' = Supplied(j)
      /\ CompanyColumn(j)' = CompanyColumn(j)
      /\ \A m : SameDataKey(j, PersonField, m)' = SameDataKey(j, PersonField, m)
  BY RowFixed
<1>3. /\ ref.kind = "none" <=> Row(j, n)["person.name"] = None
      /\ ref.kind = "none" => ref = NoRef
      /\ ref.kind = "existing" =>
           /\ ref.of \in Ids(j, person)
           /\ SameDataAs(j, person[ref.of], Row(j, n))
           /\ CompanyColumn(j) => at.kind # "new"
           /\ WorksAt(j, ref.of, work)
      /\ ref.kind = "new" =>
           /\ ref.of \in 1..n /\ plan[j][ref.of].person = ref
           /\ PersonKey(j, ref.of, plan[j][ref.of].company) = PersonKey(j, n, at)
  BY DEF PersonFits
<1>4. ref.kind = "existing" => /\ ref.of \in Ids(j, person)'
                               /\ person'[ref.of] = person[ref.of]
                               /\ EmployersOf(ref.of)' = EmployersOf(ref.of)
  BY <1>3 DEF Remain
<1>5. ref.kind = "existing" => SameDataAs(j, person[ref.of], Row(j, n))'
  BY <1>1, <1>2, <1>3, <1>4 DEF SameDataAs
<1>6. ref.kind = "existing" => WorksAt(j, ref.of, work)'
  BY <1>1, <1>2, <1>3, <1>4 DEF WorksAt, EmployersOf
<1>7. ref.kind = "new" =>
        /\ plan'[j][ref.of] = plan[j][ref.of]
        /\ PersonKey(j, ref.of, plan[j][ref.of].company)' = PersonKey(j, n, at)'
  <2>1. ref.kind = "new" => plan'[j][ref.of] = plan[j][ref.of]
    BY <1>3
  <2>. QED
    BY <1>1, <1>2, <1>3, <2>1 DEF PersonKey
<1>. QED
  BY <1>1, <1>2, <1>3, <1>4, <1>5, <1>6, <1>7 DEF PersonFits, NoRef

LEMMA LandedAgain ==
  ASSUME NEW j \in Job, Remain(j), NEW n \in Nat, n \in 1..n, CompanyFits(j, n),
         plan'[j][n] = plan[j][n],
         \A m \in 1..n : landed'[j][m].company = landed[j][m].company
  PROVE  /\ CompanyLanded(j, n) => CompanyLanded(j, n)'
         /\ PersonLanded(j, n) /\ landed'[j][n].person = landed[j][n].person
              => PersonLanded(j, n)'
         /\ LeadLanded(j, n) /\ landed'[j][n] = landed[j][n] => LeadLanded(j, n)'
<1>1. /\ Row(j, n)' = Row(j, n) /\ Supplied(j)' = Supplied(j)
      /\ CompanyColumn(j)' = CompanyColumn(j)
      /\ LeadSource(j, Row(j, n))' = LeadSource(j, Row(j, n))
      /\ landed'[j][n].company = landed[j][n].company
  BY RowFixed
<1>2. ASSUME CompanyLanded(j, n)
      PROVE  CompanyLanded(j, n)'
  <2>. DEFINE ref == plan[j][n].company
              id == landed[j][n].company
  <2>1. /\ ref.kind = "none" => id = None
        /\ ref.kind = "existing" => id = ref.of
        /\ ref.kind = "new" => id = landed[j][ref.of].company
        /\ ref.kind # "none" => /\ id # None /\ id \in Ids(j, company)
                                /\ CompanyData(j, company[id], Row(j, n))
    BY <1>2 DEF CompanyLanded
  <2>2. ref.kind = "new" => landed'[j][ref.of].company = landed[j][ref.of].company
    BY DEF CompanyFits
  <2>3. ref.kind # "none" => id \in Ids(j, company)' /\ company'[id] = company[id]
    BY <2>1 DEF Remain
  <2>4. ref.kind # "none" => CompanyData(j, company[id], Row(j, n))'
    BY <1>1, <2>1, <2>3 DEF CompanyData
  <2>. QED
    BY <1>1, <2>1, <2>2, <2>3, <2>4 DEF CompanyLanded
<1>3. ASSUME PersonLanded(j, n), landed'[j][n].person = landed[j][n].person
      PROVE  PersonLanded(j, n)'
  <2>. DEFINE ref == plan[j][n].person
              id == landed[j][n].person
  <2>1. /\ ref.kind = "none" => id = None
        /\ ref.kind # "none" => /\ id # None /\ id \in Ids(j, person)
                                /\ SameDataAs(j, person[id], Row(j, n))
                                /\ WorksAt(j, id, landed[j][n].company)
    BY <1>3 DEF PersonLanded
  <2>2. ref.kind # "none" => /\ id \in Ids(j, person)' /\ person'[id] = person[id]
                             /\ EmployersOf(id) = {l.company : l \in {m \in link' : m.person = id}}
    BY <2>1 DEF Remain, EmployersOf
  <2>3. ref.kind # "none" => SameDataAs(j, person[id], Row(j, n))'
    BY <1>1, <1>3, <2>1, <2>2 DEF SameDataAs
  <2>4. ref.kind # "none" => WorksAt(j, id, landed[j][n].company)'
    BY <1>1, <1>3, <2>1, <2>2 DEF WorksAt, EmployersOf
  <2>. QED
    BY <1>1, <1>3, <2>1, <2>2, <2>3, <2>4 DEF PersonLanded
<1>4. ASSUME LeadLanded(j, n), landed'[j][n] = landed[j][n]
      PROVE  LeadLanded(j, n)'
  BY <1>1, <1>4 DEF LeadLanded, Remain
<1>. QED
  BY <1>2, <1>3, <1>4

\* An import, when another job k takes a step.
Landing(j) ==
  pc[j] \in {"company", "person", "committing", "ok"} \cup Writing /\ Since(j, Edit)
    => Aimed(j) /\ Arrived(j)

LEMMA RowNumbers ==
  ASSUME Core, NEW j \in Job
  PROVE  /\ Len(plan[j]) \in Nat /\ Len(landed[j]) \in Nat
         /\ \A N \in Nat : \A n \in 1..N : n \in Nat /\ n \in 1..n /\ 1..n \subseteq 1..N
<1>1. plan[j] \in Seq(PlanRow) /\ landed[j] \in Seq(LandedRow)
  BY DEF Core, Types
<1>. QED
  BY <1>1, LenProperties

LEMMA LandingBeside ==
  ASSUME Core, History, Landings, NEW k \in mix, Step(k), NEW j \in mix \ {k},
         reqOf[j].op = "import.run"
  PROVE  Landing(j)'
<1>1. /\ j \in Job /\ Frame(k) /\ pc'[j] = pc[j] /\ plan'[j] = plan[j] /\ landed'[j] = landed[j]
      /\ began'[j] = began[j]
  BY StepFrame DEF Core, Types, Frame
<1>. SUFFICES ASSUME pc[j] \in {"company", "person", "committing", "ok"} \cup Writing,
                     Since(j, Edit)'
              PROVE  Aimed(j)' /\ Arrived(j)'
  BY <1>1 DEF Landing
<1>2. Since(j, Edit) /\ (reqOf[k].op \notin Edit \/ log' = log)
  BY <1>1, SinceStep
<1>3. Remain(j)
  BY <1>2, SeenRemains
<1>4. Aimed(j) /\ Arrived(j)
  BY <1>2 DEF Landings, Imports
<1>5. /\ Len(plan[j]) \in Nat /\ Len(landed[j]) \in Nat
      /\ \A N \in Nat : \A n \in 1..N : n \in Nat /\ n \in 1..n /\ 1..n \subseteq 1..N
  BY <1>1, RowNumbers
<1>6. Aimed(j)'
  <2>. SUFFICES ASSUME NEW n \in 1..Len(plan[j])
                PROVE  /\ CompanyFits(j, n)'
                       /\ n < Len(plan[j]) \/ pc[j] # "person" => PersonFits(j, n)'
    BY <1>1 DEF Aimed
  <2>1. n \in Nat /\ n \in 1..n
    BY <1>5
  <2>2. CompanyFits(j, n) /\ (n < Len(plan[j]) \/ pc[j] # "person" => PersonFits(j, n))
    BY <1>4 DEF Aimed
  <2>. QED
    BY <1>1, <1>3, <2>1, <2>2, CompanyFitsAgain, PersonFitsAgain
<1>7. ASSUME NEW n \in 1..Len(landed[j])
      PROVE  /\ CompanyLanded(j, n)'
             /\ IF n < Len(landed[j]) \/ pc[j] # "landing" THEN PersonLanded(j, n)'
                ELSE landed[j][n].person = None
             /\ n < Len(landed[j]) \/ pc[j] \notin {"landing", "finding", "leading"}
                  => LeadLanded(j, n)'
  <2>1. n \in Nat /\ n \in 1..n
    BY <1>5
  <2>2. CompanyFits(j, n)
    <3>1. Len(landed[j]) <= Len(plan[j])
      BY <1>1 DEF Core, Fits, Writing, Importing, Planning
    <3>. QED
      BY <1>4, <1>5, <3>1 DEF Aimed
  <2>3. /\ CompanyLanded(j, n)
        /\ IF n < Len(landed[j]) \/ pc[j] # "landing" THEN PersonLanded(j, n)
           ELSE landed[j][n].person = None
        /\ n < Len(landed[j]) \/ pc[j] \notin {"landing", "finding", "leading"}
             => LeadLanded(j, n)
    BY <1>4 DEF Arrived
  <2>. QED
    BY <1>1, <1>3, <2>1, <2>2, <2>3, LandedAgain
<1>. QED
  BY <1>1, <1>6, <1>7 DEF Arrived

\* Rows with one key say the same of a company, or of a person.
LEMMA SameKeys ==
  ASSUME NEW j \in Job, NEW m, NEW n
  PROVE  /\ SameDataKey(j, CompanyField, m) = SameDataKey(j, CompanyField, n)
              => \A record : CompanyData(j, record, Row(j, m)) => CompanyData(j, record, Row(j, n))
         /\ SameDataKey(j, PersonField, m) = SameDataKey(j, PersonField, n)
              => \A record : SameDataAs(j, record, Row(j, m)) => SameDataAs(j, record, Row(j, n))
<1>1. ASSUME SameDataKey(j, CompanyField, m) = SameDataKey(j, CompanyField, n)
      PROVE  \A f \in CompanyField \cap Supplied(j) : Row(j, m)[f] = Row(j, n)[f]
  <2>. SUFFICES ASSUME NEW f \in CompanyField \cap Supplied(j)
                PROVE  Row(j, m)[f] = Row(j, n)[f]
    OBVIOUS
  <2>1. SameDataKey(j, CompanyField, m)[f] = SameDataKey(j, CompanyField, n)[f]
    BY <1>1
  <2>2. f # "person.email"
    BY DEF CompanyField
  <2>. QED
    BY <2>1, <2>2 DEF SameDataKey
<1>2. ASSUME SameDataKey(j, PersonField, m) = SameDataKey(j, PersonField, n)
      PROVE  \A f \in PersonField \cap Supplied(j) :
               IF f = "person.email" THEN Fold(Lower, Row(j, m)[f]) = Fold(Lower, Row(j, n)[f])
               ELSE Row(j, m)[f] = Row(j, n)[f]
  <2>. SUFFICES ASSUME NEW f \in PersonField \cap Supplied(j)
                PROVE  IF f = "person.email"
                       THEN Fold(Lower, Row(j, m)[f]) = Fold(Lower, Row(j, n)[f])
                       ELSE Row(j, m)[f] = Row(j, n)[f]
    OBVIOUS
  <2>1. SameDataKey(j, PersonField, m)[f] = SameDataKey(j, PersonField, n)[f]
    BY <1>2
  <2>. QED
    BY <2>1 DEF SameDataKey
<1>3. SameDataKey(j, CompanyField, m) = SameDataKey(j, CompanyField, n)
        => \A record : CompanyData(j, record, Row(j, m)) => CompanyData(j, record, Row(j, n))
  BY <1>1 DEF CompanyData
<1>4. SameDataKey(j, PersonField, m) = SameDataKey(j, PersonField, n)
        => \A record : SameDataAs(j, record, Row(j, m)) => SameDataAs(j, record, Row(j, n))
  BY <1>2 DEF SameDataAs
<1>. QED
  BY <1>3, <1>4

\* An email found in the store's lower case is the same in JavaScript's.
LEMMA FoldsAlike ==
  ASSUME NEW stored \in Text \cup {None}, NEW wanted \in Text \cup {None},
         Fold(StoreLower, stored) = Fold(Lower, wanted)
  PROVE  Fold(Lower, stored) = Fold(Lower, wanted)
<1>1. None \notin Text /\ Lower \in [Text -> Text] /\ AsciiLower \in [Text -> Text]
  BY TransferAssumption
<1>2. StoreLower \in [Text -> Text] /\ \A t \in Text : Lower[StoreLower[t]] = Lower[t]
  BY <1>1, FoldAssumption DEF StoreLower
<1>3. CASE stored = None \/ wanted = None
  BY <1>1, <1>2, <1>3 DEF Fold
<1>4. CASE stored \in Text /\ wanted \in Text
  <2>1. StoreLower[stored] = Lower[wanted]
    BY <1>1, <1>4 DEF Fold
  <2>2. Lower[stored] = Lower[wanted]
    BY <1>2, <1>4, <2>1, FoldAssumption
  <2>. QED
    BY <1>1, <1>4, <2>2 DEF Fold
<1>. QED
  BY <1>3, <1>4

\* A company that is planned for a row fits it.
LEMMA CompanyRefsFit ==
  ASSUME Core, NEW j \in Job, Importing(j), NEW n \in Nat, n = Len(plan[j]) + 1,
         \A m \in 1..n - 1 : CompanyFits(j, m), NEW ref \in CompanyRefs(j, n)
  PROVE  /\ ref.kind = "none" <=> Row(j, n)["company.name"] = None
         /\ ref.kind = "none" => ref = NoRef
         /\ ref.kind = "existing" => /\ ref.of \in Ids(j, company)
                                     /\ CompanyData(j, company[ref.of], Row(j, n))
         /\ ref.kind = "new" =>
              /\ ref.of \in 1..n
              /\ ref.of = n \/ (ref.of \in 1..n - 1 /\ plan[j][ref.of].company = ref)
              /\ SameDataKey(j, CompanyField, ref.of) = SameDataKey(j, CompanyField, n)
<1>. DEFINE same == {m \in 1..n - 1 : /\ plan[j][m].company # NoRef
                                      /\ SameDataKey(j, CompanyField, m)
                                           = SameDataKey(j, CompanyField, n)}
            found == FindCompanies(j, reqOf[j].csv, Row(j, n))
<1>0. Len(plan[j]) \in Nat /\ n \in 1..n
  BY RowNumbers
<1>1. \/ Row(j, n)["company.name"] = None /\ ref = NoRef
      \/ /\ Row(j, n)["company.name"] # None
         /\ (\E m \in same : ref = plan[j][m].company) \/ ref \in Refs(found, n)
  BY Zenon DEF CompanyRefs
<1>2. CASE Row(j, n)["company.name"] = None /\ ref = NoRef
  BY <1>2 DEF NoRef
<1>3. ASSUME Row(j, n)["company.name"] # None, NEW m \in same, ref = plan[j][m].company
      PROVE  /\ ref.kind # "none"
             /\ ref.kind = "existing" => /\ ref.of \in Ids(j, company)
                                         /\ CompanyData(j, company[ref.of], Row(j, n))
             /\ ref.kind = "new" =>
                  /\ ref.of \in 1..n
                  /\ ref.of \in 1..n - 1 /\ plan[j][ref.of].company = ref
                  /\ SameDataKey(j, CompanyField, ref.of) = SameDataKey(j, CompanyField, n)
  <2>1. /\ m \in 1..n - 1 /\ ref # NoRef
        /\ SameDataKey(j, CompanyField, m) = SameDataKey(j, CompanyField, n)
    BY <1>3
  <2>2. /\ ref.kind = "none" => ref = NoRef
        /\ ref.kind = "existing" => /\ ref.of \in Ids(j, company)
                                    /\ CompanyData(j, company[ref.of], Row(j, m))
        /\ ref.kind = "new" =>
             /\ ref.of \in 1..m /\ plan[j][ref.of].company = ref
             /\ SameDataKey(j, CompanyField, ref.of) = SameDataKey(j, CompanyField, m)
    BY <1>3, <2>1 DEF CompanyFits
  <2>3. \A i \in 1..m : i \in 1..n - 1 /\ i \in 1..n
    BY <1>0, <2>1
  <2>4. ref.kind = "existing" => CompanyData(j, company[ref.of], Row(j, n))
    BY <2>1, <2>2, SameKeys
  <2>. QED
    BY <2>1, <2>2, <2>3, <2>4
<1>4. ASSUME Row(j, n)["company.name"] # None, ref \in Refs(found, n)
      PROVE  /\ ref.kind # "none"
             /\ ref.kind = "existing" => /\ ref.of \in Ids(j, company)
                                         /\ CompanyData(j, company[ref.of], Row(j, n))
             /\ ref.kind = "new" => ref.of = n
  <2>1. CASE ref = New(n)
    BY <2>1 DEF New
  <2>2. ASSUME NEW id \in found, ref = Existing(id)
        PROVE  /\ ref.kind = "existing" /\ ref.of \in Ids(j, company)
               /\ CompanyData(j, company[ref.of], Row(j, n))
    <3>1. /\ id \in Ids(j, company)
          /\ ExactTerms(CompanyField \cap Supplied(j), company[id], Row(j, n))
      BY <2>2, OldestIn DEF FindCompanies, Supplied
    <3>2. \A f \in CompanyField : f # "person.email"
      BY DEF CompanyField
    <3>3. CompanyData(j, company[id], Row(j, n))
      BY <3>1, <3>2 DEF ExactTerms, ExactTerm, CompanyData
    <3>. QED
      BY <2>2, <3>1, <3>3 DEF Existing
  <2>. QED
    BY <1>4, <2>1, <2>2 DEF Refs
<1>. QED
  BY <1>0, <1>1, <1>2, <1>3, <1>4

\* What a person of a CSV is told apart by.
LEMMA PersonKeys ==
  ASSUME NEW j, NEW m, NEW n, NEW a, NEW b, PersonKey(j, m, a) = PersonKey(j, n, b)
  PROVE  /\ SameDataKey(j, PersonField, m) = SameDataKey(j, PersonField, n)
         /\ CompanyColumn(j) => a = b
BY DEF PersonKey

\* A person that is planned for a row fits it.
LEMMA PersonRefsFit ==
  ASSUME Core, NEW j \in Job, Importing(j), NEW n \in 1..Len(plan[j]), n <= Len(Rows(j)),
         CompanyFits(j, n), \A m \in 1..n - 1 : PersonFits(j, m),
         NEW ref \in PersonRefs(j, n, plan[j][n].company)
  PROVE  LET at == plan[j][n].company
         IN /\ ref.kind = "none" <=> Row(j, n)["person.name"] = None
            /\ ref.kind = "none" => ref = NoRef
            /\ ref.kind = "existing" =>
                 /\ ref.of \in Ids(j, person)
                 /\ SameDataAs(j, person[ref.of], Row(j, n))
                 /\ CompanyColumn(j) => at.kind # "new"
                 /\ WorksAt(j, ref.of, IF at.kind = "existing" THEN at.of ELSE None)
            /\ ref.kind = "new" =>
                 /\ ref.of \in 1..n
                 /\ \/ ref.of = n
                    \/ /\ ref.of \in 1..n - 1 /\ plan[j][ref.of].person = ref
                       /\ PersonKey(j, ref.of, plan[j][ref.of].company) = PersonKey(j, n, at)
<1>. DEFINE at == plan[j][n].company
            work == IF at.kind = "existing" THEN at.of ELSE None
            whose == IF ~CompanyColumn(j) THEN -1 ELSE IF at = NoRef THEN None ELSE at.of
            same == {m \in 1..n - 1 : /\ plan[j][m].person # NoRef
                                      /\ PersonKey(j, m, plan[j][m].company)
                                           = PersonKey(j, n, at)}
            found == FindPeople(j, reqOf[j].csv, Row(j, n), whose)
            Good == /\ ref.kind # "none"
                    /\ ref.kind = "existing" =>
                         /\ ref.of \in Ids(j, person)
                         /\ SameDataAs(j, person[ref.of], Row(j, n))
                         /\ CompanyColumn(j) => at.kind # "new"
                         /\ WorksAt(j, ref.of, work)
                    /\ ref.kind = "new" =>
                         /\ ref.of \in 1..n
                         /\ \/ ref.of = n
                            \/ /\ ref.of \in 1..n - 1 /\ plan[j][ref.of].person = ref
                               /\ PersonKey(j, ref.of, plan[j][ref.of].company)
                                    = PersonKey(j, n, at)
<1>0. /\ Len(plan[j]) \in Nat /\ n \in Nat /\ n \in 1..n /\ Len(Rows(j)) \in Nat
      /\ n \in 1..Len(Rows(j))
  BY RowNumbers, RowsType
<1>1. plan[j] \in Seq(PlanRow) /\ at \in Ref
  <2>1. plan[j] \in Seq(PlanRow)
    BY DEF Core, Types
  <2>2. plan[j][n] \in PlanRow
    BY <2>1, ElementOfSeq
  <2>. QED
    BY <2>1, <2>2 DEF PlanRow
<1>2. \/ Row(j, n)["person.name"] = None /\ ref = NoRef
      \/ /\ Row(j, n)["person.name"] # None
         /\ \/ \E m \in same : ref = plan[j][m].person
            \/ at.kind = "new" /\ ref = New(n)
            \/ at.kind # "new" /\ ref \in Refs(found, n)
  BY Zenon DEF PersonRefs
<1>3. CASE Row(j, n)["person.name"] = None /\ ref = NoRef
  BY <1>3 DEF NoRef
<1>4. ASSUME NEW m \in same, ref = plan[j][m].person
      PROVE  Good
  <2>1. /\ m \in 1..n - 1 /\ ref # NoRef
        /\ PersonKey(j, m, plan[j][m].company) = PersonKey(j, n, at)
    BY <1>4
  <2>2. /\ SameDataKey(j, PersonField, m) = SameDataKey(j, PersonField, n)
        /\ CompanyColumn(j) => plan[j][m].company = at
    BY <2>1, PersonKeys
  <2>3. /\ ref.kind = "none" => ref = NoRef
        /\ ref.kind = "existing" =>
             /\ ref.of \in Ids(j, person)
             /\ SameDataAs(j, person[ref.of], Row(j, m))
             /\ CompanyColumn(j) => plan[j][m].company.kind # "new"
             /\ WorksAt(j, ref.of, IF plan[j][m].company.kind = "existing"
                                   THEN plan[j][m].company.of ELSE None)
        /\ ref.kind = "new" =>
             /\ ref.of \in 1..m /\ plan[j][ref.of].person = ref
             /\ PersonKey(j, ref.of, plan[j][ref.of].company)
                  = PersonKey(j, m, plan[j][m].company)
    BY <1>4, <2>1 DEF PersonFits
  <2>4. \A i \in 1..m : i \in 1..n - 1 /\ i \in 1..n
    BY <1>0, <2>1
  <2>5. ref.kind = "existing" => SameDataAs(j, person[ref.of], Row(j, n))
    BY <2>2, <2>3, SameKeys
  <2>6. ref.kind = "existing" => WorksAt(j, ref.of, work)
    BY <2>2, <2>3 DEF WorksAt
  <2>. QED
    BY <2>1, <2>2, <2>3, <2>4, <2>5, <2>6
<1>5. ASSUME ref = New(n)
      PROVE  Good
  BY <1>0, <1>5 DEF New
<1>6. ASSUME at.kind # "new", NEW id \in found, ref = Existing(id)
      PROVE  Good
  <2>1. /\ id \in Ids(j, person)
        /\ ExactTerms(PersonField \cap Supplied(j), person[id], Row(j, n))
        /\ whose = None => Employers(j, id) = {}
        /\ whose \notin {None, -1} => whose \in Employers(j, id)
    BY <1>6, OldestIn DEF FindPeople, Supplied
  <2>2. SameDataAs(j, person[id], Row(j, n))
    <3>1. person[id] \in PersonRow
      BY <2>1, TableFacts DEF Core, Types, TypeOK, Ids, Sees
    <3>2. Row(j, n) \in NamedRow
      BY <1>0, RowsType
    <3>3. /\ person[id].data["person.email"] \in Text \cup {None}
          /\ Row(j, n)["person.email"] \in Text \cup {None}
      BY <3>1, <3>2 DEF PersonRow, PersonField, NamedRow, CsvRow, Field
    <3>4. ASSUME NEW f \in PersonField \cap Supplied(j)
          PROVE  IF f = "person.email"
                 THEN Fold(Lower, person[id].data[f]) = Fold(Lower, Row(j, n)[f])
                 ELSE person[id].data[f] = Row(j, n)[f]
      BY <2>1, <3>3, FoldsAlike DEF ExactTerms, ExactTerm
    <3>. QED
      BY <3>4 DEF SameDataAs
  <2>3. WorksAt(j, id, work)
    <3>1. Employers(j, id) = EmployersOf(id)
      BY <2>1, EmployersSeen
    <3>2. at.kind = "none" => at = NoRef
      BY DEF CompanyFits
    <3>3. at.of \notin {None, -1} /\ None # -1
      BY <1>1, TransferAssumption DEF Ref
    <3>4. at = NoRef => at.kind # "existing"
      BY DEF NoRef
    <3>. QED
      BY <1>1, <1>6, <2>1, <3>1, <3>2, <3>3, <3>4 DEF WorksAt, Ref
  <2>. QED
    BY <1>6, <2>1, <2>2, <2>3 DEF Existing
<1>7. ASSUME at.kind # "new", ref \in Refs(found, n)
      PROVE  Good
  <2>1. ref = New(n) \/ \E id \in found : ref = Existing(id)
    BY <1>7, Zenon DEF Refs
  <2>. QED
    BY <1>5, <1>6, <1>7, <2>1
<1>8. Row(j, n)["person.name"] # None => Good
  <2>. HIDE DEF Good, found, same
  <2>. QED
    BY <1>2, <1>4, <1>5, <1>7
<1>. QED
  BY <1>2, <1>3, <1>8

LEMMA LandingPlanCompany ==
  ASSUME Core, NEW j \in mix, reqOf[j].op = "import.run", Remain(j), Aimed(j),
         PlanCompany(j), pc[j] = "company", NEW n \in Nat, n = Len(plan[j]) + 1
  PROVE  Aimed(j)' /\ Arrived(j)'
<1>1. /\ j \in Job /\ Importing(j) /\ pc \in [Job -> Where] /\ plan \in [Job -> Seq(PlanRow)]
      /\ landed[j] = <<>> /\ landed' = landed /\ n \in Nat /\ n \in 1..n
      /\ \A m \in 1..n - 1 : m \in 1..m /\ m \in Nat /\ 1..m \subseteq 1..n - 1
  <2>1. j \in Job /\ Fits(j)
    BY DEF Core, Types
  <2>. QED
    BY <2>1, RowNumbers DEF Core, Types, Fits, Importing, Planning, PlanCompany
<1>2. PICK ref \in CompanyRefs(j, n) :
        plan'[j] = Append(plan[j], [company |-> ref, person |-> NoRef])
  BY <1>1 DEF PlanCompany
<1>3. pc'[j] = "person"
  BY <1>1 DEF PlanCompany, Goes, Goto
<1>4. \A m \in 1..n - 1 : CompanyFits(j, m) /\ PersonFits(j, m)
  BY DEF Aimed
<1>5. /\ Len(plan'[j]) = n
      /\ \A m \in 1..n - 1 : plan'[j][m] = plan[j][m]
      /\ plan'[j][n] = [company |-> ref, person |-> NoRef]
  <2>1. n <= Len(plan[j]) + 1
    BY <1>1
  <2>2. ref \in Ref
    BY <1>1, <1>2, <2>1, CompanyRefsType
  <2>3. [company |-> ref, person |-> NoRef] \in PlanRow
    BY <2>2 DEF PlanRow, NoRef, Ref
  <2>. QED
    BY <1>1, <1>2, <2>3, AppendProperties
<1>6. \A m \in 1..n - 1 : CompanyFits(j, m)' /\ PersonFits(j, m)'
  BY <1>1, <1>4, <1>5, CompanyFitsAgain, PersonFitsAgain
<1>7. CompanyFits(j, n)'
  <2>1. /\ Row(j, n)' = Row(j, n) /\ Supplied(j)' = Supplied(j)
        /\ \A m : SameDataKey(j, CompanyField, m)' = SameDataKey(j, CompanyField, m)
    BY <1>1, RowFixed
  <2>2. /\ ref.kind = "none" <=> Row(j, n)["company.name"] = None
        /\ ref.kind = "none" => ref = NoRef
        /\ ref.kind = "existing" => /\ ref.of \in Ids(j, company)
                                    /\ CompanyData(j, company[ref.of], Row(j, n))
        /\ ref.kind = "new" =>
             /\ ref.of \in 1..n
             /\ ref.of = n \/ (ref.of \in 1..n - 1 /\ plan[j][ref.of].company = ref)
             /\ SameDataKey(j, CompanyField, ref.of) = SameDataKey(j, CompanyField, n)
    BY <1>1, <1>4, CompanyRefsFit
  <2>3. ref.kind = "existing" => /\ ref.of \in Ids(j, company)'
                                 /\ company'[ref.of] = company[ref.of]
    BY <2>2 DEF Remain
  <2>4. ref.kind = "existing" => CompanyData(j, company[ref.of], Row(j, n))'
    BY <2>1, <2>2, <2>3 DEF CompanyData
  <2>5. ref.kind = "new" => plan'[j][ref.of].company = ref
    BY <1>5, <2>2
  <2>6. plan'[j][n].company = ref
    BY <1>5
  <2>. QED
    BY <2>1, <2>2, <2>3, <2>4, <2>5, <2>6 DEF CompanyFits, NoRef
<1>8. \A m \in 1..n : m \in 1..n - 1 \/ (m = n /\ ~(m < n))
  BY <1>1
<1>9. Len(landed'[j]) = 0
  BY <1>1, EmptySeq
<1>10. Arrived(j)'
  BY <1>9 DEF Arrived
<1>. QED
  BY <1>3, <1>5, <1>6, <1>7, <1>8, <1>10 DEF Aimed

LEMMA LandingPlanPerson ==
  ASSUME Core, NEW j \in mix, reqOf[j].op = "import.run", Remain(j), Aimed(j),
         PlanPerson(j), pc[j] = "person", NEW n, n = Len(plan[j]),
         NEW at, at = plan[j][n].company
  PROVE  Aimed(j)' /\ Arrived(j)'
<1>1. /\ j \in Job /\ Importing(j) /\ pc \in [Job -> Where] /\ plan \in [Job -> Seq(PlanRow)]
      /\ landed[j] = <<>> /\ landed' = landed /\ n \in Nat /\ n \in 1..n /\ n <= Len(Rows(j))
      /\ \A m \in 1..n : m \in 1..m /\ m \in Nat /\ 1..m \subseteq 1..n
      /\ \A m \in 1..n : m # n => m \in 1..n - 1
      /\ \A m \in 1..n - 1 : m \in 1..n /\ m < n /\ 1..m \subseteq 1..n - 1 /\ m # n
  <2>1. j \in Job /\ Fits(j)
    BY DEF Core, Types
  <2>2. Importing(j) /\ n \in 1..Len(Rows(j)) /\ n \in Nat /\ landed[j] = <<>>
    BY <2>1, RowNumbers DEF Core, Types, Fits, Importing, Planning, PlanPerson
  <2>3. Len(Rows(j)) \in Nat
    BY <2>1, <2>2, RowsType
  <2>. QED
    BY <2>1, <2>2, <2>3 DEF Core, Types, PlanPerson
<1>2. PICK ref \in PersonRefs(j, n, at) : plan' = [plan EXCEPT ![j][n].person = ref]
  BY DEF PlanPerson
<1>3. pc'[j] # "person"
  BY <1>1 DEF PlanPerson, Planned, Goes, Goto
<1>4. /\ \A m \in 1..n : CompanyFits(j, m)
      /\ \A m \in 1..n - 1 : PersonFits(j, m)
  BY <1>1 DEF Aimed
<1>5. /\ Len(plan'[j]) = n
      /\ \A m \in 1..n : plan'[j][m].company = plan[j][m].company
      /\ \A m \in 1..n - 1 : plan'[j][m] = plan[j][m]
      /\ plan'[j][n].person = ref
  <2>1. plan'[j] = [plan[j] EXCEPT ![n] = [plan[j][n] EXCEPT !.person = ref]]
    BY <1>1, <1>2
  <2>2. plan[j] \in Seq(PlanRow) /\ plan[j][n] \in PlanRow /\ n <= Len(plan[j]) + 1
    BY <1>1, ElementOfSeq
  <2>3. [plan[j][n] EXCEPT !.person = ref] \in PlanRow
    BY <1>1, <1>2, <2>2, PersonRefsType DEF PlanRow
  <2>4. Len(plan'[j]) = n /\ plan[j] \in [1..n -> PlanRow]
    BY <1>1, <2>1, <2>2, <2>3, ExceptSeq, LenProperties
  <2>. QED
    BY <1>1, <2>1, <2>2, <2>4 DEF PlanRow
<1>6. \A m \in 1..n : CompanyFits(j, m)'
  BY <1>1, <1>4, <1>5, CompanyFitsAgain
<1>7. \A m \in 1..n - 1 : PersonFits(j, m)'
  BY <1>1, <1>4, <1>5, PersonFitsAgain
<1>8. PersonFits(j, n)'
  <2>. DEFINE work == IF at.kind = "existing" THEN at.of ELSE None
  <2>1. /\ Row(j, n)' = Row(j, n) /\ Supplied(j)' = Supplied(j)
        /\ CompanyColumn(j)' = CompanyColumn(j)
        /\ \A m : SameDataKey(j, PersonField, m)' = SameDataKey(j, PersonField, m)
    BY <1>1, RowFixed
  <2>2. /\ ref.kind = "none" <=> Row(j, n)["person.name"] = None
        /\ ref.kind = "none" => ref = NoRef
        /\ ref.kind = "existing" =>
             /\ ref.of \in Ids(j, person)
             /\ SameDataAs(j, person[ref.of], Row(j, n))
             /\ CompanyColumn(j) => at.kind # "new"
             /\ WorksAt(j, ref.of, work)
        /\ ref.kind = "new" =>
             /\ ref.of \in 1..n
             /\ \/ ref.of = n
                \/ /\ ref.of \in 1..n - 1 /\ plan[j][ref.of].person = ref
                   /\ PersonKey(j, ref.of, plan[j][ref.of].company) = PersonKey(j, n, at)
    BY <1>1, <1>4, PersonRefsFit
  <2>3. ref.kind = "existing" =>
          /\ ref.of \in Ids(j, person)' /\ person'[ref.of] = person[ref.of]
          /\ EmployersOf(ref.of) = {l.company : l \in {m \in link' : m.person = ref.of}}
    BY <2>2 DEF Remain, EmployersOf
  <2>4. /\ plan'[j][n].person = ref /\ plan'[j][n].company = at
        /\ ref.kind = "new" => plan'[j][ref.of].person = ref
        /\ ref.kind = "new" => plan'[j][ref.of].company = plan[j][ref.of].company
    BY <1>1, <1>5, <2>2
  <2>5. ref.kind = "existing" => SameDataAs(j, person[ref.of], Row(j, n))'
    BY <2>1, <2>2, <2>3 DEF SameDataAs
  <2>6. ref.kind = "existing" => WorksAt(j, ref.of, work)'
    BY <2>1, <2>2, <2>3, <2>4 DEF WorksAt, EmployersOf
  <2>7. ref.kind = "new" =>
          PersonKey(j, ref.of, plan[j][ref.of].company)' = PersonKey(j, n, at)'
    <3>1. ref.kind = "new" =>
            PersonKey(j, ref.of, plan[j][ref.of].company) = PersonKey(j, n, at)
      BY <2>2
    <3>. QED
      BY <2>1, <2>4, <3>1 DEF PersonKey
  <2>8. \A i : i = n => i = Len(plan'[j])
    BY <1>5
  <2>. QED
    BY <1>5, <2>1, <2>2, <2>3, <2>4, <2>5, <2>6, <2>7, <2>8 DEF PersonFits, NoRef
<1>9. Len(landed'[j]) = 0
  BY <1>1, EmptySeq
<1>10. Arrived(j)'
  BY <1>9 DEF Arrived
<1>11. \A m \in 1..n : CompanyFits(j, m)' /\ PersonFits(j, m)'
  BY <1>1, <1>6, <1>7, <1>8
<1>. QED
  BY <1>3, <1>5, <1>10, <1>11 DEF Aimed

LEMMA AimedAgain ==
  ASSUME Core, NEW j \in Job, Remain(j), Aimed(j), plan'[j] = plan[j], pc[j] # "person"
  PROVE  Aimed(j)'
<1>1. \A n \in 1..Len(plan[j]) : n \in Nat /\ n \in 1..n
  BY RowNumbers
<1>2. \A n \in 1..Len(plan[j]) : CompanyFits(j, n) /\ PersonFits(j, n)
  BY DEF Aimed
<1>3. \A n \in 1..Len(plan[j]) : CompanyFits(j, n)' /\ PersonFits(j, n)'
  BY <1>1, <1>2, CompanyFitsAgain, PersonFitsAgain
<1>. QED
  BY <1>3 DEF Aimed

\* The rows before the one that is being written are where they were.
LEMMA RowsBefore ==
  ASSUME Core, NEW j \in Job, Remain(j), Aimed(j), Arrived(j), pc[j] # "person",
         NEW n \in Nat, n - 1 <= Len(landed[j]), n - 1 <= Len(plan[j]),
         n - 1 < Len(landed[j]) \/ pc[j] = "writing",
         plan'[j] = plan[j], \A m \in 1..n - 1 : landed'[j][m] = landed[j][m]
  PROVE  \A m \in 1..n - 1 : CompanyLanded(j, m)' /\ PersonLanded(j, m)' /\ LeadLanded(j, m)'
<1>. SUFFICES ASSUME NEW m \in 1..n - 1
              PROVE  CompanyLanded(j, m)' /\ PersonLanded(j, m)' /\ LeadLanded(j, m)'
  OBVIOUS
<1>1. /\ m \in Nat /\ m \in 1..m /\ 1..m \subseteq 1..n - 1
      /\ m \in 1..Len(plan[j]) /\ m \in 1..Len(landed[j])
      /\ m < Len(landed[j]) \/ pc[j] = "writing"
  BY RowNumbers
<1>2. CompanyFits(j, m) /\ CompanyLanded(j, m) /\ PersonLanded(j, m) /\ LeadLanded(j, m)
  BY <1>1 DEF Aimed, Arrived
<1>. QED
  BY <1>1, <1>2, LandedAgain

LEMMA LandingWriteCompany ==
  ASSUME Core, NEW j \in mix, reqOf[j].op = "import.run", Remain(j), Aimed(j), Arrived(j),
         WriteCompany(j), NEW n, n = RowNow(j)
  PROVE  Aimed(j)' /\ Arrived(j)'
<1>1. /\ j \in Job /\ pc[j] = "writing" /\ pc \in [Job -> Where] /\ plan' = plan
      /\ pc'[j] = "landing"
      /\ landed[j] \in Seq(LandedRow) /\ landed \in [Job -> Seq(LandedRow)]
      /\ company \in TableOf(CompanyRow)
  BY DEF Core, Types, TypeOK, WriteCompany, Goto
<1>2. /\ n \in 1..Len(Rows(j)) /\ Len(Rows(j)) \in Nat /\ Len(plan[j]) = Len(Rows(j))
      /\ Len(landed[j]) = n - 1 /\ n \in Nat /\ n \in 1..n /\ n \in 1..Len(plan[j])
      /\ DOMAIN landed[j] = 1..n - 1
      /\ \A i \in 1..n : i # n => i \in 1..n - 1
  <2>1. pc[j] \in Writing
    BY <1>1 DEF Writing
  <2>2. /\ n = Len(landed[j]) + 1 /\ n \in 1..Len(Rows(j)) /\ Len(plan[j]) = Len(Rows(j))
        /\ Len(Rows(j)) \in Nat /\ Len(landed[j]) \in Nat
    BY <1>1, <2>1, RowAt
  <2>3. DOMAIN landed[j] = 1..Len(landed[j])
    BY <1>1, LenProperties
  <2>. QED
    BY <2>2, <2>3
<1>3. Aimed(j)'
  BY <1>1, AimedAgain
<1>4. PICK ref : ref = plan[j][n].company
  OBVIOUS
<1>5. /\ ref.kind = "none" <=> Row(j, n)["company.name"] = None
      /\ ref.kind = "none" => ref = NoRef
      /\ ref.kind = "existing" => /\ ref.of \in Ids(j, company)
                                  /\ CompanyData(j, company[ref.of], Row(j, n))
      /\ ref.kind = "new" =>
           /\ ref.of \in 1..n /\ plan[j][ref.of].company = ref
           /\ SameDataKey(j, CompanyField, ref.of) = SameDataKey(j, CompanyField, n)
  BY <1>2, <1>4 DEF Aimed, CompanyFits
<1>6. ref.kind \in {"none", "existing", "new"} /\ ref.of \in Nat
  <2>1. plan[j] \in Seq(PlanRow)
    BY <1>1 DEF Core, Types
  <2>2. plan[j][n] \in PlanRow
    BY <1>2, <2>1, ElementOfSeq
  <2>. QED
    BY <1>4, <2>2 DEF PlanRow, Ref
<1>7. PICK id :
        /\ landed'[j] = Append(landed[j], [company |-> id, person |-> None, lead |-> None])
        /\ \/ ref.kind = "none" /\ id = None
           \/ ref.kind = "existing" /\ id = ref.of
           \/ ref.kind = "new" /\ ref.of \in 1..n - 1 /\ id = landed[j][ref.of].company /\ id # None
           \/ /\ ref.kind = "new" /\ (ref.of \in 1..n - 1 => landed[j][ref.of].company = None)
              /\ id = Len(company) + 1 /\ company' = Append(company, NewCompany(j, n))
  BY <1>1, <1>2, <1>4, <1>6, Zenon DEF WriteCompany, Land, Made
<1>8. id \in Nat \cup {None}
  <2>1. ASSUME NEW i \in 1..n - 1
        PROVE  landed[j][i].company \in Nat \cup {None}
    <3>1. landed[j][i] \in LandedRow
      BY <1>1, <1>2, ElementOfSeq
    <3>. QED
      BY <3>1 DEF LandedRow
  <2>2. Len(company) + 1 \in Nat
    BY <1>1, TableFacts
  <2>. QED
    BY <1>6, <1>7, <2>1, <2>2
<1>9. /\ Len(landed'[j]) = n
      /\ \A m \in 1..n - 1 : landed'[j][m] = landed[j][m]
      /\ landed'[j][n] = [company |-> id, person |-> None, lead |-> None]
  <2>1. [company |-> id, person |-> None, lead |-> None] \in LandedRow
    BY <1>8 DEF LandedRow
  <2>. QED
    BY <1>1, <1>2, <1>7, <2>1, AppendProperties
<1>10. \A m \in 1..n - 1 : CompanyLanded(j, m)' /\ PersonLanded(j, m)' /\ LeadLanded(j, m)'
  <2>1. n - 1 <= Len(landed[j]) /\ n - 1 <= Len(plan[j])
    BY <1>2
  <2>2. pc[j] # "person" /\ plan'[j] = plan[j]
    BY <1>1
  <2>3. \A m \in 1..n - 1 : landed'[j][m] = landed[j][m]
    BY <1>9
  <2>. QED
    BY <1>1, <1>2, <2>1, <2>2, <2>3, RowsBefore
<1>11. /\ ref.kind # "none" => /\ id # None /\ id \in Ids(j, company)'
                               /\ CompanyData(j, company'[id], Row(j, n))
       /\ ref.kind = "new" => id = landed'[j][ref.of].company
  <2>1. CASE ref.kind = "none" \/ ref.kind = "existing"
    <3>1. ref.kind = "existing" => /\ id \in Ids(j, company)'
                                   /\ CompanyData(j, company'[id], Row(j, n))
      BY <1>5, <1>7 DEF Remain
    <3>. QED
      BY <1>6, <1>7, <2>1, <3>1, TransferAssumption
  <2>2. CASE ref.kind = "new" /\ ref.of \in 1..n - 1
    <3>1. CompanyLanded(j, ref.of)
      BY <1>2, <2>2 DEF Arrived
    <3>2. /\ landed[j][ref.of].company # None /\ landed[j][ref.of].company \in Ids(j, company)
          /\ CompanyData(j, company[landed[j][ref.of].company], Row(j, ref.of))
      BY <1>5, <2>2, <3>1 DEF CompanyLanded
    <3>3. id = landed[j][ref.of].company
      BY <1>7, <2>2, <3>2
    <3>4. CompanyData(j, company[id], Row(j, n))
      BY <1>1, <1>5, <2>2, <3>2, <3>3, SameKeys
    <3>5. id \in Ids(j, company)' /\ company'[id] = company[id]
      BY <3>2, <3>3 DEF Remain
    <3>. QED
      BY <1>9, <2>2, <3>2, <3>3, <3>4, <3>5
  <2>3. CASE ref.kind = "new" /\ ref.of = n
    <3>1. id = Len(company) + 1 /\ company' = Append(company, NewCompany(j, n))
      BY <1>2, <1>7, <2>3
    <3>2. NewCompany(j, n) \in CompanyRow /\ NewCompany(j, n) # None
      BY <1>1, <1>2, NewRows
    <3>3. id \in DOMAIN company' /\ company'[id] = NewCompany(j, n) /\ id \in Nat
      BY <1>1, <3>1, <3>2, AppendFacts
    <3>4. id \in Ids(j, company)'
      BY <3>2, <3>3 DEF Ids, Sees, NewCompany
    <3>5. CompanyData(j, company'[id], Row(j, n))
      BY <3>3 DEF CompanyData, NewCompany
    <3>. QED
      BY <1>9, <2>3, <3>3, <3>4, <3>5, TransferAssumption
  <2>. QED
    BY <1>2, <1>5, <1>6, <2>1, <2>2, <2>3
<1>12. CompanyLanded(j, n)'
  <2>1. Row(j, n)' = Row(j, n) /\ Supplied(j)' = Supplied(j)
    BY <1>1, RowFixed
  <2>2. plan'[j][n].company = ref /\ landed'[j][n].company = id
    BY <1>1, <1>4, <1>9
  <2>3. ref.kind # "none" => CompanyData(j, company[id], Row(j, n))'
    BY <1>11, <2>1 DEF CompanyData
  <2>. QED
    BY <1>7, <1>11, <2>1, <2>2, <2>3 DEF CompanyLanded
<1>13. \A m \in 1..n : m \in 1..n - 1 \/ (m = n /\ ~(m < n))
  BY <1>2
<1>14. landed'[j][n].person = None
  BY <1>9
<1>. QED
  BY <1>1, <1>3, <1>9, <1>10, <1>12, <1>13, <1>14 DEF Arrived

\* A step about the last row that was begun.
LEMMA LastRow ==
  ASSUME Core, NEW j \in mix, pc[j] \in {"landing", "finding", "leading"},
         Remain(j), Aimed(j), Arrived(j), plan'[j] = plan[j],
         NEW n, n = Len(landed[j]), landed'[j][n].company = landed[j][n].company,
         \A m \in 1..n - 1 : landed'[j][m] = landed[j][m]
  PROVE  /\ Aimed(j)'
         /\ \A m \in 1..n - 1 : CompanyLanded(j, m)' /\ PersonLanded(j, m)' /\ LeadLanded(j, m)'
         /\ CompanyLanded(j, n)'
         /\ \A m \in 1..n : m \in 1..n - 1 \/ (m = n /\ ~(m < n))
<1>1. /\ j \in Job /\ landed[j] \in Seq(LandedRow) /\ pc[j] \notin {"person", "writing"}
      /\ pc[j] \in Writing
  BY DEF Core, Types, Writing
<1>2. /\ n \in 1..Len(landed[j]) /\ n \in Nat /\ n \in 1..n /\ n \in 1..Len(plan[j])
      /\ \A m \in 1..n - 1 : m \in 1..n /\ m # n
      /\ \A m \in 1..n : m \in 1..n - 1 \/ (m = n /\ ~(m < n))
      /\ n - 1 <= Len(landed[j]) /\ n - 1 <= Len(plan[j]) /\ n - 1 < Len(landed[j])
  BY <1>1, RowAt
<1>3. Aimed(j)'
  BY <1>1, AimedAgain
<1>4. \A m \in 1..n - 1 : CompanyLanded(j, m)' /\ PersonLanded(j, m)' /\ LeadLanded(j, m)'
  BY <1>1, <1>2, RowsBefore
<1>5. CompanyLanded(j, n)'
  <2>1. CompanyFits(j, n) /\ CompanyLanded(j, n)
    BY <1>2 DEF Aimed, Arrived
  <2>2. \A m \in 1..n : landed'[j][m].company = landed[j][m].company
    BY <1>2
  <2>. QED
    BY <1>1, <1>2, <2>1, <2>2, LandedAgain
<1>. QED
  BY <1>2, <1>3, <1>4, <1>5

\* What it keeps of the rows before.
LEMMA LastChanged ==
  ASSUME NEW s \in Seq(LandedRow), NEW n \in Nat, n = Len(s), n \in 1..n,
         NEW row \in LandedRow, NEW t, t = [s EXCEPT ![n] = row]
  PROVE  /\ Len(t) = n /\ t[n] = row
         /\ \A m \in 1..n - 1 : t[m] = s[m]
<1>1. Len(t) = n
  BY ExceptSeq
<1>2. s \in [1..n -> LandedRow]
  BY LenProperties
<1>3. \A m \in 1..n - 1 : m \in 1..n /\ m # n
  OBVIOUS
<1>. QED
  BY <1>1, <1>2, <1>3

LEMMA LandingWritePerson ==
  ASSUME Core, NEW j \in mix, reqOf[j].op = "import.run", Remain(j), Aimed(j), Arrived(j),
         WritePerson(j), NEW n, n = Len(landed[j])
  PROVE  Aimed(j)' /\ Arrived(j)'
<1>1. /\ j \in Job /\ pc[j] = "landing" /\ pc \in [Job -> Where] /\ plan' = plan
      /\ pc[j] \in {"landing", "finding", "leading"} /\ pc[j] \in Writing
      /\ landed[j] \in Seq(LandedRow) /\ landed \in [Job -> Seq(LandedRow)]
      /\ plan[j] \in Seq(PlanRow) /\ person \in TableOf(PersonRow)
      /\ person' \in TableOf(PersonRow) \/ person' # person
  BY DEF Core, Types, TypeOK, WritePerson, Writing
<1>2. /\ n \in 1..Len(Rows(j)) /\ Len(Rows(j)) \in Nat /\ Len(plan[j]) = Len(Rows(j))
      /\ n \in Nat /\ n \in 1..n /\ n \in 1..Len(plan[j]) /\ n \in 1..Len(landed[j])
      /\ DOMAIN landed[j] = 1..n
      /\ \A i \in 1..n : i # n => i \in 1..n - 1 /\ i < n
  <2>1. DOMAIN landed[j] = 1..Len(landed[j])
    BY <1>1, LenProperties
  <2>. QED
    BY <1>1, <2>1, RowAt
<1>3. PICK ref, at, now : /\ ref = plan[j][n].person /\ at = plan[j][n].company
                          /\ now = landed[j][n]
  OBVIOUS
<1>4. /\ ref \in Ref /\ at \in Ref /\ now \in LandedRow
  <2>1. plan[j][n] \in PlanRow /\ landed[j][n] \in LandedRow
    BY <1>1, <1>2, ElementOfSeq
  <2>. QED
    BY <1>3, <2>1 DEF PlanRow
<1>5. /\ ref.kind = "none" <=> Row(j, n)["person.name"] = None
      /\ ref.kind = "none" => ref = NoRef
      /\ ref.kind = "existing" =>
           /\ ref.of \in Ids(j, person)
           /\ SameDataAs(j, person[ref.of], Row(j, n))
           /\ CompanyColumn(j) => at.kind # "new"
           /\ WorksAt(j, ref.of, IF at.kind = "existing" THEN at.of ELSE None)
      /\ ref.kind = "new" =>
           /\ ref.of \in 1..n /\ plan[j][ref.of].person = ref
           /\ PersonKey(j, ref.of, plan[j][ref.of].company) = PersonKey(j, n, at)
  BY <1>1, <1>2, <1>3 DEF Aimed, PersonFits
<1>6. /\ at.kind = "none" => now.company = None
      /\ at.kind = "existing" => now.company = at.of
      /\ at.kind = "new" => now.company = landed[j][at.of].company
      /\ now.person = None
      /\ ref.kind \in {"none", "existing", "new"} /\ at.kind \in {"none", "existing", "new"}
  BY <1>1, <1>2, <1>3, <1>4 DEF Arrived, CompanyLanded, Ref
<1>7. PICK id :
        /\ landed' = [landed EXCEPT ![j][n].person = id]
        /\ \/ /\ ref.kind = "none" /\ id = None
           \/ /\ ref.kind = "existing" /\ id = ref.of
           \/ /\ ref.kind = "new" /\ id = landed[j][ref.of].person /\ id # None
           \/ /\ ref.kind = "new" /\ landed[j][ref.of].person = None
              /\ id = Len(person) + 1 /\ person' = Append(person, NewPerson(j, n))
              /\ link' = link \cup LinkMade(j, id)
  <2>1. CASE ref.kind = "none"
    <3>1. landed' = landed
      BY <1>3, <2>1 DEF WritePerson
    <3>2. landed = [landed EXCEPT ![j][n].person = None]
      BY <1>1, <1>2, <1>3, <1>4, <1>6 DEF LandedRow
    <3>. QED
      BY <2>1, <3>1, <3>2
  <2>2. CASE ref.kind = "existing"
    BY <1>3, <2>2 DEF WritePerson
  <2>3. CASE ref.kind = "new"
    <3>1. ref.of \in DOMAIN landed[j]
      BY <1>2, <1>5, <2>3
    <3>. QED
      BY <1>3, <2>3, <3>1 DEF WritePerson, Made
  <2>. QED
    BY <1>6, <2>1, <2>2, <2>3
<1>8. id \in Nat \cup {None}
  <2>1. ASSUME NEW i \in 1..n
        PROVE  landed[j][i].person \in Nat \cup {None}
    <3>1. landed[j][i] \in LandedRow
      BY <1>1, <1>2, ElementOfSeq
    <3>. QED
      BY <3>1 DEF LandedRow
  <2>2. Len(person) + 1 \in Nat
    BY <1>1, TableFacts
  <2>. QED
    BY <1>4, <1>5, <1>7, <2>1, <2>2 DEF Ref
<1>9. PICK row : /\ row \in LandedRow /\ row.company = now.company /\ row.person = id
                 /\ landed'[j] = [landed[j] EXCEPT ![n] = row]
  <2>. DEFINE row == [now EXCEPT !.person = id]
  <2>1. /\ row \in LandedRow /\ row.company = now.company /\ row.person = id
        /\ landed'[j] = [landed[j] EXCEPT ![n] = row]
    BY <1>1, <1>2, <1>3, <1>4, <1>7, <1>8 DEF LandedRow
  <2>. QED
    BY <2>1
<1>10. /\ Aimed(j)' /\ Len(landed'[j]) = n /\ landed'[j][n] = row
       /\ \A m \in 1..n - 1 : CompanyLanded(j, m)' /\ PersonLanded(j, m)' /\ LeadLanded(j, m)'
       /\ CompanyLanded(j, n)'
       /\ \A m \in 1..n : m \in 1..n - 1 \/ (m = n /\ ~(m < n))
  <2>1. /\ Len(landed'[j]) = n /\ landed'[j][n] = row
        /\ \A m \in 1..n - 1 : landed'[j][m] = landed[j][m]
    BY <1>1, <1>2, <1>9, LastChanged
  <2>2. plan'[j] = plan[j] /\ landed'[j][n].company = landed[j][n].company
    BY <1>1, <1>3, <1>9, <2>1
  <2>. QED
    BY <1>1, <2>1, <2>2, LastRow
<1>. DEFINE jobs == {l.company : l \in {m \in link' : m.person = id}}
            Works == CompanyColumn(j) =>
                       IF now.company = None THEN jobs = {} ELSE now.company \in jobs
<1>11. ref.kind # "none" => /\ id # None /\ id \in Ids(j, person)'
                            /\ SameDataAs(j, person'[id], Row(j, n))
                            /\ Works
  <2>0. \A i \in Ids(j, person) :
          /\ i \in Ids(j, person)' /\ person'[i] = person[i] /\ i # None
          /\ {l.company : l \in {m \in link' : m.person = i}} = EmployersOf(i)
    <3>. SUFFICES ASSUME NEW i \in Ids(j, person)
                  PROVE  /\ i \in Ids(j, person)' /\ person'[i] = person[i] /\ i # None
                         /\ EmployersOf(i)' = EmployersOf(i)
      BY DEF EmployersOf
    <3>1. i \in Nat
      BY <1>1, TableFacts DEF Ids
    <3>. QED
      BY <3>1, TransferAssumption DEF Remain
  <2>1. CASE ref.kind = "existing"
    <3>1. id = ref.of /\ id \in Ids(j, person)
      BY <1>5, <1>7, <2>1
    <3>2. CompanyColumn(j) =>
            (IF at.kind = "existing" THEN at.of ELSE None) = now.company
      BY <1>5, <1>6, <2>1
    <3>3. Works
      BY <1>5, <2>0, <2>1, <3>1, <3>2 DEF WorksAt
    <3>. QED
      BY <1>5, <2>0, <2>1, <3>1, <3>3
  <2>2. CASE ref.kind = "new" /\ ref.of # n
    <3>1. /\ ref.of \in 1..n - 1 /\ ref.of < n
          /\ PersonKey(j, ref.of, plan[j][ref.of].company) = PersonKey(j, n, at)
      BY <1>2, <1>5, <2>2
    <3>2. PersonLanded(j, ref.of) /\ CompanyLanded(j, ref.of) /\ CompanyLanded(j, n)
      BY <1>2, <1>5, <2>2, <3>1 DEF Arrived
    <3>3. /\ landed[j][ref.of].person # None /\ landed[j][ref.of].person \in Ids(j, person)
          /\ SameDataAs(j, person[landed[j][ref.of].person], Row(j, ref.of))
          /\ WorksAt(j, landed[j][ref.of].person, landed[j][ref.of].company)
      BY <1>5, <2>2, <3>2 DEF PersonLanded
    <3>4. id = landed[j][ref.of].person
      BY <1>7, <2>2, <3>3
    <3>5. SameDataAs(j, person[id], Row(j, n))
      BY <1>1, <3>1, <3>3, <3>4, PersonKeys, SameKeys
    <3>6. CompanyColumn(j) => landed[j][ref.of].company = now.company
      <4>1. CompanyColumn(j) => plan[j][ref.of].company = at
        BY <3>1, PersonKeys
      <4>. QED
        BY <1>6, <3>2, <4>1 DEF CompanyLanded
    <3>7. Works
      BY <2>0, <3>3, <3>4, <3>6 DEF WorksAt
    <3>. QED
      BY <2>0, <3>3, <3>4, <3>5, <3>7
  <2>3. CASE ref.kind = "new" /\ ref.of = n
    <3>1. /\ id = Len(person) + 1 /\ person' = Append(person, NewPerson(j, n))
          /\ link' = link \cup LinkMade(j, id)
      BY <1>3, <1>6, <1>7, <2>3
    <3>2. NewPerson(j, n) \in PersonRow /\ NewPerson(j, n) # None
      BY <1>1, <1>2, NewRows
    <3>3. /\ id \in DOMAIN person' /\ person'[id] = NewPerson(j, n) /\ id \in Nat
          /\ id \notin DOMAIN person
      BY <1>1, <3>1, <3>2, AppendFacts
    <3>4. id \in Ids(j, person)'
      BY <3>2, <3>3 DEF Ids, Sees, NewPerson
    <3>5. SameDataAs(j, person'[id], Row(j, n))
      BY <3>3 DEF SameDataAs, NewPerson
    <3>6. \A l \in link : l.person # id
      BY <3>3 DEF Core, Tables, LinksKnown
    <3>7. LinkMade(j, id) = IF now.company = None THEN {}
                            ELSE {[company |-> now.company, person |-> id, by |-> j]}
      BY <1>3 DEF LinkMade
    <3>8. {m \in link' : m.person = id} =
            IF now.company = None THEN {}
            ELSE {[company |-> now.company, person |-> id, by |-> j]}
      BY <3>1, <3>6, <3>7
    <3>9. CASE now.company = None
      <4>1. {m \in link' : m.person = id} = {}
        BY <3>8, <3>9
      <4>. QED
        BY <3>3, <3>4, <3>5, <3>9, <4>1, TransferAssumption
    <3>10. CASE now.company # None
      <4>. DEFINE made == [company |-> now.company, person |-> id, by |-> j]
      <4>1. {m \in link' : m.person = id} = {made} /\ made.company = now.company
        BY <3>8, <3>10
      <4>. HIDE DEF made
      <4>2. now.company \in jobs
        BY <4>1
      <4>. QED
        BY <3>3, <3>4, <3>5, <3>10, <4>2, TransferAssumption
    <3>. QED
      BY <3>9, <3>10
  <2>. QED
    BY <1>6, <2>1, <2>2, <2>3
<1>12. PersonLanded(j, n)'
  <2>1. /\ Row(j, n)' = Row(j, n) /\ Supplied(j)' = Supplied(j)
        /\ CompanyColumn(j)' = CompanyColumn(j)
    BY <1>1, RowFixed
  <2>2. plan'[j][n].person = ref /\ landed'[j][n].person = id /\ landed'[j][n].company = now.company
    BY <1>1, <1>3, <1>9, <1>10
  <2>3. ref.kind # "none" => SameDataAs(j, person[id], Row(j, n))'
    BY <1>11, <2>1 DEF SameDataAs
  <2>4. ref.kind # "none" => WorksAt(j, id, now.company)'
    BY <1>11, <2>1 DEF WorksAt, EmployersOf
  <2>. QED
    BY <1>7, <1>11, <2>1, <2>2, <2>3, <2>4 DEF PersonLanded
<1>13. pc'[j] = "finding"
  BY <1>1 DEF WritePerson, Goto
<1>. QED
  BY <1>10, <1>12, <1>13 DEF Arrived

LEMMA LandingFindLead ==
  ASSUME Core, NEW j \in mix, reqOf[j].op = "import.run", Remain(j), Aimed(j), Arrived(j),
         FindLead(j), NEW n, n = Len(landed[j])
  PROVE  Aimed(j)' /\ Arrived(j)'
<1>1. /\ j \in Job /\ pc[j] = "finding" /\ pc \in [Job -> Where] /\ plan' = plan
      /\ pc[j] \in {"landing", "finding", "leading"} /\ pc[j] \in Writing
      /\ landed[j] \in Seq(LandedRow) /\ landed \in [Job -> Seq(LandedRow)]
      /\ lead \in TableOf(LeadRow)
  BY DEF Core, Types, TypeOK, FindLead, Writing
<1>2. /\ n \in Nat /\ n \in 1..n /\ n \in 1..Len(landed[j])
      /\ \A m \in 1..n : m \in 1..n - 1 \/ (m = n /\ ~(m < n))
  BY <1>1, RowAt
<1>3. landed[j][n] \in LandedRow /\ PersonLanded(j, n) /\ CompanyLanded(j, n)
  BY <1>1, <1>2, ElementOfSeq DEF Arrived
<1>4. CompanyFits(j, n)
  <2>1. n \in 1..Len(plan[j])
    BY <1>1, RowAt
  <2>. QED
    BY <2>1 DEF Aimed
<1>5. CASE landed' = landed /\ pc'[j] = "leading"
  <2>1. \A m \in 1..n - 1 : CompanyLanded(j, m)' /\ PersonLanded(j, m)' /\ LeadLanded(j, m)'
    BY <1>1, <1>5, LastRow
  <2>2. Aimed(j)' /\ CompanyLanded(j, n)'
    BY <1>1, <1>5, LastRow
  <2>3. PersonLanded(j, n)'
    BY <1>1, <1>2, <1>3, <1>4, <1>5, LandedAgain
  <2>. QED
    BY <1>2, <1>5, <2>1, <2>2, <2>3 DEF Arrived
<1>6. ASSUME NEW id \in FindLeads(j, reqOf[j].csv, Row(j, n), landed[j][n]),
             landed' = [landed EXCEPT ![j][n].lead = id]
      PROVE  Aimed(j)' /\ Arrived(j)'
  <2>1. id \in Nat /\ id \in Ids(j, lead)
    BY <1>1, <1>6, TableFacts DEF FindLeads, Ids
  <2>2. PICK row : /\ row \in LandedRow /\ row.company = landed[j][n].company
                   /\ row.person = landed[j][n].person /\ row.lead = id
                   /\ landed'[j] = [landed[j] EXCEPT ![n] = row]
    <3>. DEFINE row == [landed[j][n] EXCEPT !.lead = id]
    <3>1. /\ row \in LandedRow /\ row.company = landed[j][n].company
          /\ row.person = landed[j][n].person /\ row.lead = id
          /\ landed'[j] = [landed[j] EXCEPT ![n] = row]
      BY <1>1, <1>2, <1>3, <1>6, <2>1 DEF LandedRow
    <3>. QED
      BY <3>1
  <2>3. /\ Len(landed'[j]) = n /\ landed'[j][n] = row
        /\ \A m \in 1..n - 1 : landed'[j][m] = landed[j][m]
    BY <1>1, <1>2, <2>2, LastChanged
  <2>4. /\ landed'[j][n].company = landed[j][n].company
        /\ landed'[j][n].person = landed[j][n].person
    BY <2>2, <2>3
  <2>5. \A m \in 1..n - 1 : CompanyLanded(j, m)' /\ PersonLanded(j, m)' /\ LeadLanded(j, m)'
    BY <1>1, <2>3, <2>4, LastRow
  <2>6. Aimed(j)' /\ CompanyLanded(j, n)'
    BY <1>1, <2>3, <2>4, LastRow
  <2>7. PersonLanded(j, n)'
    <3>1. \A m \in 1..n : landed'[j][m].company = landed[j][m].company
      BY <1>2, <2>3, <2>4
    <3>. QED
      BY <1>1, <1>2, <1>3, <1>4, <2>4, <3>1, LandedAgain
  <2>8. LeadLanded(j, n)'
    <3>1. LeadSource(j, Row(j, n))' = LeadSource(j, Row(j, n))
      BY <1>1, RowFixed
    <3>2. id \in Ids(j, lead)' /\ lead'[id] = lead[id]
      BY <2>1 DEF Remain
    <3>3. /\ lead[id].company = row.company /\ lead[id].person = row.person
          /\ lead[id].source = LeadSource(j, Row(j, n))
      BY <1>6, <2>2 DEF FindLeads
    <3>. QED
      BY <2>2, <2>3, <3>1, <3>2, <3>3 DEF LeadLanded
  <2>. QED
    <3>1. pc'[j] # "landing"
      BY <1>1 DEF FindLead, Goes, Goto, AfterRow
    <3>. QED
      BY <1>2, <2>3, <2>5, <2>6, <2>7, <2>8, <3>1 DEF Arrived
<1>7. \/ landed' = landed /\ pc'[j] = "leading"
      \/ \E id \in Oldest(lead, FindLeads(j, reqOf[j].csv, Row(j, n), landed[j][n])) :
           landed' = [landed EXCEPT ![j][n].lead = id]
  BY <1>1 DEF FindLead, Goes, Goto
<1>. QED
  BY <1>5, <1>6, <1>7, OldestIn

LEMMA LandingWriteLead ==
  ASSUME Core, NEW j \in mix, reqOf[j].op = "import.run", Remain(j), Aimed(j), Arrived(j),
         WriteLead(j), ~Fail(j), NEW n, n = Len(landed[j])
  PROVE  Aimed(j)' /\ Arrived(j)'
<1>1. /\ j \in Job /\ pc[j] = "leading" /\ pc \in [Job -> Where] /\ plan' = plan
      /\ pc[j] \in {"landing", "finding", "leading"} /\ pc[j] \in Writing
      /\ landed[j] \in Seq(LandedRow) /\ landed \in [Job -> Seq(LandedRow)]
      /\ lead \in TableOf(LeadRow)
  BY DEF Core, Types, TypeOK, WriteLead, Writing
<1>2. /\ n \in Nat /\ n \in 1..n /\ n \in 1..Len(landed[j]) /\ n \in 1..Len(Rows(j))
      /\ n \in 1..Len(plan[j])
      /\ \A m \in 1..n : m \in 1..n - 1 \/ (m = n /\ ~(m < n))
  BY <1>1, RowAt
<1>3. /\ landed[j][n] \in LandedRow /\ PersonLanded(j, n) /\ CompanyLanded(j, n)
      /\ CompanyFits(j, n)
  BY <1>1, <1>2, ElementOfSeq DEF Arrived, Aimed
<1>4. PICK id : id = Len(lead) + 1
  OBVIOUS
<1>5. /\ lead' = Append(lead, NewLead(j, n)) /\ landed' = [landed EXCEPT ![j][n].lead = id]
      /\ pc'[j] # "landing"
  BY <1>1, <1>4 DEF WriteLead, Goto, AfterRow
<1>6. /\ id \in Nat /\ id \in DOMAIN lead' /\ lead'[id] = NewLead(j, n)
      /\ NewLead(j, n) # None
  BY <1>1, <1>2, <1>4, <1>5, NewRows, AppendFacts
<1>7. PICK row : /\ row \in LandedRow /\ row.company = landed[j][n].company
                 /\ row.person = landed[j][n].person /\ row.lead = id
                 /\ landed'[j] = [landed[j] EXCEPT ![n] = row]
  <2>. DEFINE row == [landed[j][n] EXCEPT !.lead = id]
  <2>1. /\ row \in LandedRow /\ row.company = landed[j][n].company
        /\ row.person = landed[j][n].person /\ row.lead = id
        /\ landed'[j] = [landed[j] EXCEPT ![n] = row]
    BY <1>1, <1>2, <1>3, <1>5, <1>6 DEF LandedRow
  <2>. QED
    BY <2>1
<1>8. /\ Len(landed'[j]) = n /\ landed'[j][n] = row
      /\ \A m \in 1..n - 1 : landed'[j][m] = landed[j][m]
  BY <1>1, <1>2, <1>7, LastChanged
<1>9. /\ landed'[j][n].company = landed[j][n].company
      /\ landed'[j][n].person = landed[j][n].person
  BY <1>7, <1>8
<1>10. \A m \in 1..n - 1 : CompanyLanded(j, m)' /\ PersonLanded(j, m)' /\ LeadLanded(j, m)'
  BY <1>1, <1>8, <1>9, LastRow
<1>11. Aimed(j)' /\ CompanyLanded(j, n)'
  BY <1>1, <1>8, <1>9, LastRow
<1>12. PersonLanded(j, n)'
  <2>1. \A m \in 1..n : landed'[j][m].company = landed[j][m].company
    BY <1>2, <1>8, <1>9
  <2>. QED
    BY <1>1, <1>2, <1>3, <1>9, <2>1, LandedAgain
<1>13. LeadLanded(j, n)'
  <2>1. LeadSource(j, Row(j, n))' = LeadSource(j, Row(j, n))
    BY <1>1, RowFixed
  <2>2. id \in Ids(j, lead)'
    BY <1>6 DEF Ids, Sees, NewLead
  <2>3. /\ lead'[id].company = row.company /\ lead'[id].person = row.person
        /\ lead'[id].source = LeadSource(j, Row(j, n))
    BY <1>6, <1>7 DEF NewLead
  <2>. QED
    BY <1>7, <1>8, <2>1, <2>2, <2>3 DEF LeadLanded
<1>. QED
  BY <1>2, <1>5, <1>8, <1>10, <1>11, <1>12, <1>13 DEF Arrived

LEMMA LandingCommit ==
  ASSUME Core, NEW j \in mix, reqOf[j].op = "import.run", Remain(j), Aimed(j), Arrived(j),
         Commit(j)
  PROVE  Aimed(j)' /\ Arrived(j)'
<1>1. /\ j \in Job /\ pc[j] = "committing" /\ pc \in [Job -> Where] /\ pc'[j] = "ok"
      /\ plan'[j] = plan[j] /\ landed'[j] = landed[j]
      /\ Len(landed[j]) = Len(plan[j])
  BY DEF Core, Types, Fits, Commit, Goto, locals
<1>2. /\ \A n \in 1..Len(landed[j]) : n \in Nat /\ n \in 1..n
  BY <1>1, RowNumbers
<1>3. Aimed(j)'
  BY <1>1, AimedAgain
<1>4. \A n \in 1..Len(landed[j]) : CompanyLanded(j, n)' /\ PersonLanded(j, n)' /\ LeadLanded(j, n)'
  <2>. SUFFICES ASSUME NEW n \in 1..Len(landed[j])
                PROVE  CompanyLanded(j, n)' /\ PersonLanded(j, n)' /\ LeadLanded(j, n)'
    OBVIOUS
  <2>1. /\ CompanyFits(j, n) /\ CompanyLanded(j, n) /\ PersonLanded(j, n) /\ LeadLanded(j, n)
    BY <1>1, <1>2 DEF Aimed, Arrived
  <2>. QED
    BY <1>1, <1>2, <2>1, LandedAgain
<1>. QED
  BY <1>1, <1>3, <1>4 DEF Arrived

\* Its own steps.
LEMMA LandingStep ==
  ASSUME Core, History, Landings, NEW j \in mix, Step(j), reqOf[j].op = "import.run"
  PROVE  Landing(j)'
<1>. DEFINE Stage == {"company", "person", "committing", "ok"} \cup Writing
<1>. SUFFICES ASSUME pc'[j] \in Stage, Since(j, Edit)'
              PROVE  Aimed(j)' /\ Arrived(j)'
  BY DEF Landing
<1>1. /\ j \in Job /\ pc \in [Job -> Where] /\ Fits(j) /\ reqOf[j].op \notin Edit
      /\ plan \in [Job -> Seq(PlanRow)] /\ landed \in [Job -> Seq(LandedRow)]
      /\ pc'[j] \notin {"failed", "tag", "tagging", "preview_company", "preview_person", "asked"}
  BY DEF Core, Types, Edit, Writing
<1>2. ~Fail(j)
  BY <1>1 DEF Fail, Goto
<1>3. ~Preview(j) /\ ~Begin(j)
  BY <1>1 DEF Preview, Begin, Goto
<1>4. ~CountPage(j) /\ ~ReadPage(j) /\ ~EditRecord(j) /\ ~Unlink(j)
  BY <1>1 DEF Fits, CountPage, ReadPage, EditRecord, Unlink, Edit
<1>5. ~PlanNothing(j)
  <2>1. CASE pc[j] = "company"
    BY <1>1, <2>1 DEF Fits, Working, PlanNothing
  <2>2. CASE pc[j] = "preview_company"
    BY <1>1, <1>2, <2>2 DEF PlanNothing, Goes, Goto
  <2>. QED
    BY <2>1, <2>2 DEF PlanNothing
<1>6. CASE FindTag(j) \/ CreateTag(j)
  <2>1. plan' = plan /\ landed' = landed /\ pc[j] \in {"tag", "tagging"}
    BY <1>2, <1>6 DEF FindTag, CreateTag
  <2>2. Len(plan'[j]) = 0 /\ Len(landed'[j]) = 0
    BY <1>1, <2>1, EmptySeq DEF Fits
  <2>. QED
    BY <2>2 DEF Aimed, Arrived
<1>7. CASE \/ PlanCompany(j) \/ PlanPerson(j) \/ WriteCompany(j) \/ WritePerson(j)
           \/ FindLead(j) \/ WriteLead(j) \/ Commit(j)
  <2>1. pc[j] \in Stage \ {"ok"}
    <3>1. CASE PlanCompany(j) \/ PlanPerson(j)
      BY <1>1, <3>1 DEF PlanCompany, PlanPerson, Planned, Goes, Goto
    <3>. QED
      BY <1>7, <3>1 DEF WriteCompany, WritePerson, FindLead, WriteLead, Commit, Writing
  <2>2. began'[j] = began[j]
    BY <1>2, <1>7
       DEF PlanCompany, PlanPerson, Planned, WriteCompany, WritePerson, FindLead, WriteLead,
           Commit, Goes, Ends, history
  <2>3. Since(j, Edit) /\ Remain(j)
    BY <1>1, <2>2, SinceStep, SeenRemains
  <2>4. Aimed(j) /\ Arrived(j)
    BY <2>1, <2>3 DEF Landings, Imports
  <2>5. CASE PlanCompany(j)
    <3>1. pc[j] = "company" /\ Len(plan[j]) + 1 \in Nat
      BY <1>1, <2>1, <2>5, RowNumbers DEF PlanCompany, Writing
    <3>. QED
      BY <2>3, <2>4, <2>5, <3>1, LandingPlanCompany
  <2>6. CASE PlanPerson(j)
    <3>1. pc[j] = "person"
      BY <2>1, <2>6 DEF PlanPerson, Writing
    <3>. QED
      BY <2>3, <2>4, <2>6, <3>1, LandingPlanPerson
  <2>. QED
    BY <1>2, <1>7, <2>3, <2>4, <2>5, <2>6, LandingWriteCompany, LandingWritePerson,
       LandingFindLead, LandingWriteLead, LandingCommit
<1>. QED
  BY <1>2, <1>3, <1>4, <1>5, <1>6, <1>7 DEF Step, Refuse, LinkRefused, DeadlockAbort

LEMMA LandingsInit == Init => Landings
<1>. SUFFICES ASSUME Init, NEW j \in Imports
              PROVE  pc[j] \notin {"company", "person", "committing", "ok"} \cup Writing
  BY DEF Landings
<1>1. mix \in SUBSET Job
  BY TransferAssumption DEF Init
<1>2. pc[j] = "idle"
  BY <1>1 DEF Init, Imports
<1>. QED
  BY <1>2 DEF Writing

LEMMA LandingsNext == Core /\ History /\ Landings /\ [Next]_vars => Landings'
<1>. SUFFICES ASSUME Core, History, Landings, [Next]_vars
              PROVE  Landings'
  OBVIOUS
<1>1. CASE UNCHANGED vars
  <2>1. /\ UNCHANGED <<store, mix, company, person, lead, link, pc, plan, landed, log, began>>
    BY <1>1 DEF vars, tables, locals, history
  <2>. SUFFICES ASSUME NEW j \in Imports', pc'[j] \in {"company", "person", "committing", "ok"} \cup Writing,
                       Since(j, Edit)'
                PROVE  Aimed(j)' /\ Arrived(j)'
    BY DEF Landings
  <2>2. /\ j \in Job /\ j \in Imports /\ Since(j, Edit)
    BY <2>1 DEF Core, Types, Imports, Since, Between
  <2>3. Aimed(j) /\ Arrived(j)
    BY <2>1, <2>2 DEF Landings
  <2>4. Remain(j)
    BY <2>1 DEF Remain, Ids, Sees, Open, EmployersOf
  <2>5. /\ Len(plan[j]) \in Nat /\ Len(landed[j]) \in Nat
        /\ \A N \in Nat : \A n \in 1..N : n \in Nat /\ n \in 1..n /\ 1..n \subseteq 1..N
    BY <2>2, RowNumbers
  <2>6. Aimed(j)'
    <3>. SUFFICES ASSUME NEW n \in 1..Len(plan[j])
                  PROVE  /\ CompanyFits(j, n)'
                         /\ n < Len(plan[j]) \/ pc[j] # "person" => PersonFits(j, n)'
      BY <2>1 DEF Aimed
    <3>1. CompanyFits(j, n) /\ (n < Len(plan[j]) \/ pc[j] # "person" => PersonFits(j, n))
      BY <2>3 DEF Aimed
    <3>. QED
      BY <2>1, <2>2, <2>4, <2>5, <3>1, CompanyFitsAgain, PersonFitsAgain
  <2>7. ASSUME NEW n \in 1..Len(landed[j])
        PROVE  /\ CompanyLanded(j, n)'
               /\ IF n < Len(landed[j]) \/ pc[j] # "landing" THEN PersonLanded(j, n)'
                  ELSE landed[j][n].person = None
               /\ n < Len(landed[j]) \/ pc[j] \notin {"landing", "finding", "leading"}
                    => LeadLanded(j, n)'
    <3>1. CompanyFits(j, n)
      <4>1. Len(landed[j]) <= Len(plan[j])
        BY <2>1, <2>2, <2>5 DEF Core, Fits, Writing, Importing, Planning, Imports
      <4>. QED
        BY <2>3, <2>5, <4>1 DEF Aimed
    <3>2. /\ CompanyLanded(j, n)
          /\ IF n < Len(landed[j]) \/ pc[j] # "landing" THEN PersonLanded(j, n)
             ELSE landed[j][n].person = None
          /\ n < Len(landed[j]) \/ pc[j] \notin {"landing", "finding", "leading"}
               => LeadLanded(j, n)
      BY <2>3 DEF Arrived
    <3>. QED
      BY <2>1, <2>2, <2>4, <2>5, <3>1, <3>2, LandedAgain
  <2>. QED
    BY <2>1, <2>6, <2>7 DEF Arrived
<1>2. ASSUME NEW k \in mix, Step(k)
      PROVE  Landings'
  <2>1. mix' = mix
    BY <1>2, StepFrame DEF Frame
  <2>2. \A j \in Imports : Landing(j)'
    BY <1>2, LandingBeside, LandingStep DEF Imports
  <2>. QED
    BY <2>1, <2>2 DEF Landings, Landing, Imports
<1>. QED
  BY <1>1, <1>2 DEF Next

\* A row is where its data says (data-ops.ts, planImport and import.run): its lead
\* is on a company and a person like those it names.
THEOREM RowsLandHold == Spec => []RowsLandOnTheirRecords
<1>1. Core /\ Landings => RowsLandOnTheirRecords
  <2>. SUFFICES ASSUME Core, Landings, NEW j \in Imports, pc[j] = "ok",
                       \A k \in Between(began[j], Len(log)) : reqOf[k].op \notin Edit,
                       NEW n \in DOMAIN Rows(j)
                PROVE  LET row == Row(j, n)
                           on == lead[landed[j][n].lead]
                       IN /\ on # None
                          /\ on.source = LeadSource(j, row)
                          /\ (on.company = None) = (row["company.name"] = None)
                          /\ (on.person = None) = (row["person.name"] = None)
                          /\ on.company # None =>
                               \A f \in CompanyField \cap Supplied(j) :
                                 company[on.company].data[f] = row[f]
                          /\ on.person # None =>
                               /\ SameDataAs(j, person[on.person], row)
                               /\ CompanyColumn(j) =>
                                    LET employers == {l.company : l \in {m \in link : m.person = on.person}}
                                    IN IF on.company = None THEN employers = {}
                                       ELSE on.company \in employers
    BY DEF RowsLandOnTheirRecords
  <2>1. j \in Job /\ j \in mix /\ reqOf[j].op = "import.run" /\ Importing(j)
    BY DEF Core, Types, Imports, Importing
  <2>2. /\ Len(plan[j]) = Len(Rows(j)) /\ Len(landed[j]) = Len(Rows(j))
        /\ DOMAIN Rows(j) = 1..Len(Rows(j))
    BY <2>1, RowsType DEF Core, Fits
  <2>3. Aimed(j) /\ Arrived(j)
    BY DEF Landings, Since
  <2>4. /\ CompanyFits(j, n) /\ PersonFits(j, n)
        /\ CompanyLanded(j, n) /\ PersonLanded(j, n) /\ LeadLanded(j, n)
    BY <2>2, <2>3 DEF Aimed, Arrived
  <2>5. /\ lead[landed[j][n].lead] # None
        /\ lead[landed[j][n].lead].company = landed[j][n].company
        /\ lead[landed[j][n].lead].person = landed[j][n].person
        /\ lead[landed[j][n].lead].source = LeadSource(j, Row(j, n))
    BY <2>4 DEF LeadLanded, Ids, Sees
  <2>6. /\ landed[j][n].company = None <=> Row(j, n)["company.name"] = None
        /\ landed[j][n].company # None => CompanyData(j, company[landed[j][n].company], Row(j, n))
    BY <2>4 DEF CompanyLanded, CompanyFits
  <2>7. /\ landed[j][n].person = None <=> Row(j, n)["person.name"] = None
        /\ landed[j][n].person # None =>
             /\ SameDataAs(j, person[landed[j][n].person], Row(j, n))
             /\ WorksAt(j, landed[j][n].person, landed[j][n].company)
    BY <2>4 DEF PersonLanded, PersonFits
  <2>. QED
    BY <2>5, <2>6, <2>7 DEF CompanyData, WorksAt, EmployersOf
<1>. QED
  BY <1>1, CoreHolds, CoreInit, CoreNext, ExportsInit, ExportsNext, LandingsInit, LandingsNext,
     PTL DEF Spec

-----------------------------------------------------------------------------
(* Who committed, and who is alone.                                        *)

Writes(j) == reqOf[j].op \in {"import.run", "tag.create"} \cup Edit
Previewing == {"preview_company", "preview_person"}
PastTag == {"company", "person", "committing"} \cup Writing

\* The log names each job that committed changes once, where ended says.
Logbook ==
  /\ \A n \in DOMAIN log : ended[log[n]] = n
  /\ \A j \in Job :
       IF pc[j] = "ok" /\ Writes(j)
       THEN ended[j] \in DOMAIN log /\ log[ended[j]] = j /\ began[j] < ended[j]
       ELSE ended[j] = 0
  /\ \A j \in Open : reqOf[j].op \notin Edit

\* On SQLite one transaction at a time.
Solo == store = "sqlite" => \A j, k \in Open : j = k /\ began[j] = Len(log)

\* How a step of job k goes: its preview begins, it begins, it works, it commits
\* changes, or it ends without any.
Previews(k) ==
  /\ pc[k] = "idle" /\ pc'[k] = "preview_company" /\ reqOf[k].op = "import.run"
  /\ log' = log /\ ended' = ended /\ began' = [began EXCEPT ![k] = Len(log)]
Begins(k) ==
  /\ pc[k] \in {"idle", "asked"} /\ pc'[k] \in {"tag", "company", "counting"}
  /\ MayBegin(k) /\ reqOf[k].op \notin Edit
  /\ log' = log /\ ended' = ended /\ began' = [began EXCEPT ![k] = Len(log)]
Works(k) ==
  /\ \/ pc[k] \in Working /\ pc'[k] \in Working \cup {"failed"}
     \/ pc[k] \in Previewing /\ pc'[k] \in Previewing \cup {"asked", "failed"}
     \/ pc[k] \in {"idle", "asked"} /\ pc'[k] = "failed"
  /\ pc[k] \in Writing \cup {"committing"} => pc'[k] \in Writing \cup {"committing", "failed"}
  /\ pc[k] \in PastTag => pc'[k] \in PastTag \cup {"failed"}
  /\ pc'[k] = "failed" => Fail(k)
  /\ log' = log /\ ended' = ended /\ began' = began
Logs(k) ==
  /\ \/ pc[k] = "committing" /\ reqOf[k].op \in {"import.run", "tag.create"}
     \/ pc[k] = "idle" /\ reqOf[k].op \in Edit /\ MayBegin(k)
  /\ pc'[k] = "ok" /\ log' = Append(log, k) /\ ended' = [ended EXCEPT ![k] = Len(log) + 1]
  /\ began' = began
Closes(k) ==
  /\ pc[k] = "committing" /\ pc'[k] = "ok" /\ reqOf[k].op \notin {"import.run", "tag.create"}
  /\ log' = log /\ ended' = ended /\ began' = began

LEMMA StepPace ==
  ASSUME Core, NEW k \in mix, Step(k)
  PROVE  Previews(k) \/ Begins(k) \/ Works(k) \/ Logs(k) \/ Closes(k)
<1>1. k \in Job /\ pc \in [Job -> Where] /\ Fits(k)
  BY DEF Core, Types
<1>2. CASE Fail(k) /\ pc[k] \in Working \cup Previewing \cup {"idle", "asked"}
  BY <1>1, <1>2 DEF Fail, Goto, history, Works, Working, Previewing, Writing, PastTag
<1>3. CASE Preview(k)
  BY <1>1, <1>3 DEF Preview, Began, Goto, Previews
<1>4. CASE Begin(k)
  <2>1. pc'[k] \in {"tag", "company", "counting"}
    BY <1>1, <1>4, CallFacts DEF Begin, Goto, Edit
  <2>. QED
    BY <1>1, <1>4, <2>1 DEF Begin, MayRun, Began, Begins
<1>5. CASE FindTag(k)
  BY <1>1, <1>5 DEF FindTag, AfterTag, Goes, Goto, history, Works, Working, Writing, PastTag
<1>6. CASE CreateTag(k)
  BY <1>1, <1>2, <1>6 DEF CreateTag, AfterTag, Goto, history, Works, Working, Writing, PastTag
<1>7. CASE PlanCompany(k)
  BY <1>1, <1>7 DEF PlanCompany, Goes, Goto, history, Works, Working, Previewing, Writing, PastTag
<1>8. CASE PlanPerson(k)
  <2>1. pc[k] = "person" => pc'[k] \in {"company", "writing", "committing"}
    BY <1>1, <1>8 DEF PlanPerson, Planned, Goes, Goto
  <2>2. pc[k] = "preview_person" => pc'[k] \in {"preview_company", "asked"}
    BY <1>1, <1>8 DEF PlanPerson, Planned, Goes, Goto
  <2>3. UNCHANGED <<log, began, ended>> /\ pc[k] \in {"person", "preview_person"}
    BY <1>8 DEF PlanPerson, Planned, Goes, history
  <2>. QED
    BY <2>1, <2>2, <2>3 DEF Works, Working, Previewing, Writing, PastTag
<1>9. CASE PlanNothing(k)
  BY <1>1, <1>2, <1>9 DEF PlanNothing, Goes, Goto, history, Works, Working, Previewing, Writing, PastTag
<1>10. CASE WriteCompany(k)
  BY <1>1, <1>10 DEF WriteCompany, Goto, history, Works, Working, Writing, PastTag
<1>11. CASE WritePerson(k)
  BY <1>1, <1>11 DEF WritePerson, Goto, history, Works, Working, Writing, PastTag
<1>12. CASE FindLead(k)
  BY <1>1, <1>12 DEF FindLead, AfterRow, Goes, Goto, history, Works, Working, Writing, PastTag
<1>13. CASE WriteLead(k)
  BY <1>1, <1>2, <1>13 DEF WriteLead, AfterRow, Goto, history, Works, Working, Writing, PastTag
<1>14. CASE CountPage(k) \/ ReadPage(k)
  BY <1>1, <1>14 DEF CountPage, ReadPage, Goes, Goto, history, Works, Working, Writing, PastTag
<1>15. CASE Commit(k)
  BY <1>1, <1>15 DEF Commit, Ends, Goto, history, Logs, Closes
<1>16. CASE DeadlockAbort(k)
  BY <1>2, <1>16 DEF DeadlockAbort, Open
<1>17. CASE Refuse(k)
  BY <1>2, <1>17 DEF Refuse, MayRun
<1>18. CASE LinkRefused(k)
  BY <1>2, <1>18 DEF LinkRefused, Working
<1>19. CASE EditRecord(k)
  BY <1>1, <1>2, <1>19 DEF EditRecord, Ends, Goto, Logs
<1>20. CASE Unlink(k)
  BY <1>1, <1>20 DEF Unlink, Ends, Goto, Logs, Edit
<1>. QED
  BY <1>3, <1>4, <1>5, <1>6, <1>7, <1>8, <1>9, <1>10, <1>11, <1>12, <1>13, <1>14, <1>15, <1>16,
     <1>17, <1>18, <1>19, <1>20 DEF Step

LEMMA LogbookInit == Init => Logbook /\ Solo
<1>. SUFFICES ASSUME Init PROVE Logbook /\ Solo
  OBVIOUS
<1>1. pc = [j \in Job |-> "idle"] /\ log = <<>> /\ ended = [j \in Job |-> 0] /\ mix \subseteq Job
  BY TransferAssumption DEF Init
<1>2. Open = {}
  BY <1>1 DEF Open, Working
<1>. QED
  BY <1>1, <1>2 DEF Logbook, Solo

LEMMA LogbookStep ==
  ASSUME Core, History, Logbook, Solo, NEW k \in mix, Step(k)
  PROVE  Logbook' /\ Solo'
<1>1. /\ Frame(k) /\ k \in Job /\ log \in Seq(Job) /\ Len(log) \in Nat /\ DOMAIN log = 1..Len(log)
      /\ began \in [Job -> Nat] /\ ended \in [Job -> Nat] /\ pc \in [Job -> Where]
      /\ mix \subseteq Job /\ pc[k] \notin {"ok", "failed"}
  BY StepFrame, LenProperties DEF Core, Types, TypeOK, Frame
<1>2. /\ mix' = mix /\ store' = store
      /\ \A j \in Job \ {k} : pc'[j] = pc[j] /\ ended'[j] = ended[j] /\ began'[j] = began[j]
  BY <1>1 DEF Frame
<1>3. \A n \in DOMAIN log : log[n] \in Job /\ log[n] # k
  <2>1. ASSUME NEW n \in DOMAIN log, log[n] = k
        PROVE  FALSE
    <3>1. ended[k] = n /\ n \in Nat \ {0}
      BY <1>1, <2>1 DEF Logbook
    <3>. QED
      BY <1>1, <3>1 DEF Logbook
  <2>. QED
    BY <1>1, <2>1, ElementOfSeq
<1>4. ended[k] = 0
  BY <1>1 DEF Logbook
<1>5. CASE Previews(k) \/ Begins(k) \/ Works(k) \/ Closes(k)
  <2>1. log' = log /\ ended' = ended
    BY <1>5 DEF Previews, Begins, Works, Closes
  <2>2. \A n \in DOMAIN log' : ended'[log'[n]] = n
    BY <2>1 DEF Logbook
  <2>3. ~ (pc'[k] = "ok" /\ Writes(k))
    BY <1>1, <1>5 DEF Previews, Begins, Works, Closes, Writes, Working, Previewing, Logbook, Open
  <2>4. ASSUME NEW j \in Job
        PROVE  IF pc'[j] = "ok" /\ Writes(j)
               THEN ended'[j] \in DOMAIN log' /\ log'[ended'[j]] = j /\ began'[j] < ended'[j]
               ELSE ended'[j] = 0
    <3>1. CASE j = k
      BY <1>4, <2>1, <2>3, <3>1
    <3>2. CASE j # k
      BY <1>2, <2>1, <3>2 DEF Logbook
    <3>. QED
      BY <3>1, <3>2
  <2>5. ASSUME NEW j \in Open', reqOf[j].op \in Edit
        PROVE  FALSE
    <3>1. j = k
      BY <1>1, <1>2, <2>5 DEF Open, Logbook
    <3>2. pc'[k] \in Working /\ pc[k] \in Working
      BY <1>5, <2>5, <3>1 DEF Open, Previews, Begins, Works, Closes, Working, Previewing
    <3>. QED
      BY <2>5, <3>1, <3>2 DEF Open, Logbook
  <2>6. Solo'
    <3>1. SUFFICES ASSUME store = "sqlite", NEW i \in Open', NEW j \in Open'
                   PROVE  i = j /\ began'[i] = Len(log)
      BY <1>2, <2>1 DEF Solo
    <3>2. Open' \subseteq Open \cup {k}
      BY <1>1, <1>2 DEF Open
    <3>3. CASE pc[k] \in Working
      <4>1. Open' \subseteq Open /\ began' = began
        BY <1>5, <3>2, <3>3 DEF Open, Previews, Begins, Works, Closes, Working
      <4>. QED
        BY <3>1, <4>1 DEF Solo
    <3>4. CASE pc[k] \notin Working /\ pc'[k] \notin Working
      <4>1. Open' \subseteq Open \ {k}
        BY <3>2, <3>4 DEF Open
      <4>. QED
        BY <1>1, <1>2, <3>1, <4>1 DEF Solo, Open
    <3>5. CASE pc[k] \notin Working /\ pc'[k] \in Working
      <4>1. Begins(k)
        BY <1>5, <3>5 DEF Previews, Works, Closes, Working, Previewing
      <4>2. Open \subseteq {k} /\ began'[k] = Len(log)
        BY <1>1, <3>1, <4>1 DEF Begins, MayBegin
      <4>. QED
        BY <3>1, <3>2, <4>2
    <3>. QED
      BY <3>3, <3>4, <3>5
  <2>. QED
    BY <2>2, <2>4, <2>5, <2>6 DEF Logbook
<1>6. CASE Logs(k)
  <2>1. /\ log' = Append(log, k) /\ ended' = [ended EXCEPT ![k] = Len(log) + 1] /\ began' = began
        /\ pc'[k] = "ok" /\ Writes(k)
    BY <1>6 DEF Logs, Writes
  <2>2. /\ Len(log') = Len(log) + 1 /\ log'[Len(log) + 1] = k
        /\ \A i \in 1..Len(log) : log'[i] = log[i]
        /\ DOMAIN log' = 1..Len(log) + 1
    <3>1. log' \in Seq(Job)
      BY <1>1, <2>1, AppendProperties
    <3>. QED
      BY <1>1, <2>1, <3>1, AppendProperties, LenProperties
  <2>3. \A n \in DOMAIN log' : ended'[log'[n]] = n
    <3>1. ASSUME NEW n \in DOMAIN log'
          PROVE  ended'[log'[n]] = n
      <4>1. CASE n = Len(log) + 1
        BY <1>1, <2>1, <2>2, <4>1
      <4>2. CASE n \in 1..Len(log)
        BY <1>1, <1>2, <1>3, <2>2, <4>2 DEF Logbook
      <4>. QED
        BY <1>1, <2>2, <4>1, <4>2
    <3>. QED
      BY <3>1
  <2>4. ASSUME NEW j \in Job
        PROVE  IF pc'[j] = "ok" /\ Writes(j)
               THEN ended'[j] \in DOMAIN log' /\ log'[ended'[j]] = j /\ began'[j] < ended'[j]
               ELSE ended'[j] = 0
    <3>1. CASE j = k
      <4>1. ended'[k] = Len(log) + 1 /\ began'[k] = began[k] /\ began[k] <= Len(log)
        BY <1>1, <2>1 DEF History
      <4>. QED
        BY <1>1, <2>1, <2>2, <3>1, <4>1
    <3>2. CASE j # k
      <4>1. pc'[j] = pc[j] /\ ended'[j] = ended[j] /\ began'[j] = began[j]
        BY <1>2, <3>2
      <4>. QED
        BY <1>1, <2>2, <4>1 DEF Logbook
    <3>. QED
      BY <3>1, <3>2
  <2>5. Open' = Open \ {k}
    BY <1>1, <1>2, <2>1 DEF Open, Working
  <2>6. Solo'
    <3>1. SUFFICES ASSUME store = "sqlite", NEW i \in Open'
                   PROVE  FALSE
      BY <1>2 DEF Solo
    <3>2. i \in Open /\ i # k
      BY <2>5
    <3>3. CASE pc[k] = "committing"
      <4>1. k \in Open
        BY <3>3 DEF Open, Working
      <4>. QED
        BY <3>1, <3>2, <4>1 DEF Solo
    <3>4. CASE MayBegin(k)
      BY <3>1, <3>2, <3>4 DEF MayBegin
    <3>. QED
      BY <1>6, <3>3, <3>4 DEF Logs
  <2>. QED
    BY <2>3, <2>4, <2>5, <2>6 DEF Logbook
<1>. QED
  BY <1>5, <1>6, StepPace

\* What a step does to the tables: rows stay with whom they were, or the job adds
\* the row of the record it writes.
Holds(t, u) == Stays(t, u) /\ \A n \in DOMAIN t : u[n] # None => u[n] = t[n]

LEMMA StepAdds ==
  ASSUME Core, NEW k \in mix, Step(k)
  PROVE  /\ \/ Stays(company, company')
            \/ /\ pc[k] = "writing" /\ pc'[k] = "landing"
               /\ company' = Append(company, NewCompany(k, RowNow(k)))
         /\ \/ Stays(person, person')
            \/ /\ pc[k] = "landing" /\ pc'[k] = "finding"
               /\ person' = Append(person, NewPerson(k, Len(landed[k])))
         /\ \/ Stays(lead, lead')
            \/ /\ pc[k] = "leading" /\ pc'[k] = AfterRow(k)
               /\ lead' = Append(lead, NewLead(k, Len(landed[k])))
         /\ \/ Holds(tag, tag')
            \/ /\ pc[k] = "tagging" /\ pc'[k] = AfterTag(k) /\ tagOf'[k] = Len(tag) + 1
               /\ tag' = Append(tag, [name |-> reqOf[k].label, by |-> k])
               /\ TagsCalled(reqOf[k].label) = {}
<1>1. /\ k \in Job /\ pc \in [Job -> Where] /\ tagOf \in [Job -> Nat \cup {None}]
      /\ company \in TableOf(CompanyRow) /\ person \in TableOf(PersonRow)
      /\ lead \in TableOf(LeadRow) /\ tag \in TableOf(TagRow)
  BY DEF Core, Types, TypeOK
<1>2. /\ Stays(company, company) /\ Stays(person, person) /\ Stays(lead, lead)
      /\ Holds(tag, tag)
  BY UnchangedTable DEF Holds
<1>3. CASE Fail(k)
  <2>1. /\ company' = Undo(k, company) /\ person' = Undo(k, person) /\ lead' = Undo(k, lead)
        /\ tag' = Undo(k, tag)
    BY <1>3 DEF Fail
  <2>2. /\ Stays(company, Undo(k, company)) /\ Stays(person, Undo(k, person))
        /\ Stays(lead, Undo(k, lead)) /\ Holds(tag, Undo(k, tag))
    BY <1>1, UndoFacts DEF Holds
  <2>. QED
    BY <2>1, <2>2
<1>4. CASE UNCHANGED <<company, person, lead, tag>>
  BY <1>2, <1>4
<1>5. CASE \/ Preview(k) \/ Begin(k) \/ FindTag(k) \/ PlanCompany(k)
           \/ FindLead(k) \/ CountPage(k) \/ ReadPage(k) \/ Commit(k)
  BY <1>4, <1>5 DEF Preview, Begin, FindTag, PlanCompany, FindLead, CountPage,
              ReadPage, Commit, Goes, tables
<1>6. CASE PlanPerson(k)
  BY <1>4, <1>6 DEF PlanPerson, Planned, Goes, tables
<1>7. CASE PlanNothing(k)
  BY <1>3, <1>4, <1>7 DEF PlanNothing, Goes, tables
<1>8. CASE CreateTag(k)
  BY <1>1, <1>2, <1>3, <1>8 DEF CreateTag, Goto
<1>9. CASE WriteCompany(k)
  BY <1>1, <1>2, <1>9 DEF WriteCompany, Goto
<1>10. CASE WritePerson(k)
  BY <1>1, <1>2, <1>10 DEF WritePerson, Goto, tables
<1>11. CASE WriteLead(k)
  BY <1>1, <1>2, <1>3, <1>11 DEF WriteLead, Goto
<1>12. CASE EditRecord(k)
  BY <1>3, <1>12, EditTables DEF Holds
<1>13. CASE Unlink(k)
  BY <1>4, <1>13 DEF Unlink
<1>. QED
  BY <1>3, <1>5, <1>6, <1>7, <1>8, <1>9, <1>10, <1>11, <1>12, <1>13
     DEF Step, Refuse, LinkRefused, DeadlockAbort

\* Who wrote a row, and how far they are.
WrittenIn(table, where) ==
  \A n \in DOMAIN table : table[n] # None /\ table[n].by # None =>
    /\ reqOf[table[n].by].op = "import.run"
    /\ where[table[n].by] \in Writing \cup {"committing", "ok"}
Labelled ==
  \A n \in DOMAIN tag : tag[n] # None /\ tag[n].by # None =>
    /\ reqOf[tag[n].by].op \in {"import.run", "tag.create"}
    /\ tag[n].name = reqOf[tag[n].by].label
    /\ pc[tag[n].by] \in PastTag \cup {"ok"}
Authors ==
  /\ WrittenIn(company, pc) /\ WrittenIn(person, pc) /\ WrittenIn(lead, pc) /\ Labelled

\* A writer goes on, fails with its rows, or commits.
LEMMA WriterGoesOn ==
  ASSUME Core, NEW k \in mix, Step(k), NEW b \in Job, pc'[b] # "failed"
  PROVE  /\ pc[b] \in Writing \cup {"committing", "ok"}
              => pc'[b] \in Writing \cup {"committing", "ok"}
         /\ pc[b] \in PastTag \cup {"ok"} => pc'[b] \in PastTag \cup {"ok"}
<1>1. /\ Frame(k) /\ k \in Job /\ pc \in [Job -> Where] /\ pc[k] # "ok"
  BY StepFrame DEF Core, Types, Frame
<1>2. CASE b # k
  BY <1>1, <1>2 DEF Frame
<1>3. CASE b = k
  <2>1. CASE Previews(k) \/ Begins(k)
    BY <1>3, <2>1 DEF Previews, Begins, PastTag, Writing
  <2>2. CASE Works(k)
    BY <1>1, <1>3, <2>2 DEF Works
  <2>3. CASE Logs(k) \/ Closes(k)
    BY <1>3, <2>3 DEF Logs, Closes
  <2>. QED
    BY <2>1, <2>2, <2>3, StepPace
<1>. QED
  BY <1>2, <1>3

\* Where a job that failed wrote nothing is left.
LEMMA FailedLeaves ==
  ASSUME Core, NEW k \in mix, Step(k), pc'[k] = "failed"
  PROVE  /\ company' = Undo(k, company) /\ person' = Undo(k, person) /\ lead' = Undo(k, lead)
         /\ tag' = Undo(k, tag) /\ link' = {l \in link : l.by # k}
         /\ ~MadeIn(company', k) /\ ~MadeIn(person', k) /\ ~MadeIn(lead', k) /\ ~MadeIn(tag', k)
<1>1. Fail(k)
  BY StepPace DEF Previews, Begins, Works, Logs, Closes
<1>. QED
  BY <1>1, UndoFacts DEF Fail, Core, Types, TypeOK

LEMMA WrittenStays ==
  ASSUME Core, NEW k \in mix, Step(k), NEW R, NEW t \in TableOf(R), OwnedIn(t, pc, mix),
         NEW u, Stays(t, u), pc'[k] = "failed" => ~MadeIn(u, k),
         NEW n \in DOMAIN u, u[n] # None, u[n].by # None
  PROVE  /\ n \in DOMAIN t /\ t[n] # None /\ t[n].by = u[n].by /\ u[n].by \in Job
         /\ pc'[u[n].by] # "failed"
<1>1. n \in DOMAIN t /\ t[n] # None /\ t[n].by = u[n].by
  BY DEF Stays
<1>2. /\ u[n].by \in mix /\ u[n].by \in Job /\ mix \subseteq Job
      /\ pc[u[n].by] \in Working \cup {"ok"}
  BY <1>1 DEF OwnedIn, OwnerIn, Core, Types
<1>3. Frame(k) /\ k \in Job /\ pc \in [Job -> Where]
  BY StepFrame DEF Core, Types
<1>4. CASE u[n].by = k
  BY <1>1, <1>2, <1>4 DEF MadeIn
<1>5. CASE u[n].by # k
  BY <1>1, <1>2, <1>3, <1>5 DEF Frame, Working
<1>. QED
  BY <1>4, <1>5

LEMMA AuthorsInit == Init => Authors
<1>. SUFFICES ASSUME Init PROVE Authors
  OBVIOUS
<1>1. PICK w \in Workspaces :
        company = w.company /\ person = w.person /\ lead = w.lead /\ tag = w.tag
  BY DEF Init
<1>2. Settled(company) /\ Settled(person) /\ Settled(lead) /\ Settled(tag)
  BY <1>1, WorkspaceAssumption
<1>. QED
  BY <1>2 DEF Settled, Authors, WrittenIn, Labelled

LEMMA RowsWritten ==
  ASSUME Core, NEW k \in mix, Step(k), NEW R, NEW t \in TableOf(R), OwnedIn(t, pc, mix),
         WrittenIn(t, pc), NEW u, pc'[k] = "failed" => ~MadeIn(u, k),
         \/ Stays(t, u)
         \/ \E row : /\ u = Append(t, row) /\ row.by = k
                     /\ pc[k] \in Writing /\ pc'[k] \in Writing \cup {"committing"}
  PROVE  WrittenIn(u, pc')
<1>1. Frame(k) /\ k \in Job /\ mix \subseteq Job /\ pc \in [Job -> Where]
  BY StepFrame DEF Core, Types
<1>. SUFFICES ASSUME NEW n \in DOMAIN u, u[n] # None, u[n].by # None
              PROVE  /\ reqOf[u[n].by].op = "import.run"
                     /\ pc'[u[n].by] \in Writing \cup {"committing", "ok"}
  BY DEF WrittenIn
<1>2. CASE Stays(t, u)
  <2>1. /\ n \in DOMAIN t /\ t[n] # None /\ t[n].by = u[n].by /\ u[n].by \in Job
        /\ pc'[u[n].by] # "failed"
    BY <1>2, WrittenStays
  <2>2. /\ reqOf[u[n].by].op = "import.run"
        /\ pc[u[n].by] \in Writing \cup {"committing", "ok"}
    BY <2>1 DEF WrittenIn
  <2>. QED
    BY <2>1, <2>2, WriterGoesOn
<1>3. ASSUME NEW row, u = Append(t, row), row.by = k,
             pc[k] \in Writing, pc'[k] \in Writing \cup {"committing"}
      PROVE  /\ reqOf[u[n].by].op = "import.run"
             /\ pc'[u[n].by] \in Writing \cup {"committing", "ok"}
  <2>1. (n \in DOMAIN t /\ u[n] = t[n]) \/ u[n] = row
    BY <1>3, AppendAny
  <2>2. CASE u[n] = row
    <3>1. reqOf[k].op = "import.run"
      BY <1>3, RowAt
    <3>. QED
      BY <1>3, <2>2, <3>1
  <2>3. CASE n \in DOMAIN t /\ u[n] = t[n]
    <3>1. /\ reqOf[u[n].by].op = "import.run"
          /\ pc[u[n].by] \in Writing \cup {"committing", "ok"} /\ u[n].by \in Job
      BY <1>1, <2>3 DEF WrittenIn, OwnedIn, OwnerIn
    <3>2. pc'[u[n].by] # "failed"
      BY <1>1, <1>3, <3>1 DEF Frame, Writing
    <3>. QED
      BY <3>1, <3>2, WriterGoesOn
  <2>. QED
    BY <2>1, <2>2, <2>3
<1>. QED
  BY <1>2, <1>3

LEMMA AuthorsStep ==
  ASSUME Core, Authors, NEW k \in mix, Step(k)
  PROVE  Authors'
<1>1. /\ Frame(k) /\ k \in Job /\ mix \subseteq Job /\ pc \in [Job -> Where] /\ Fits(k)
      /\ company \in TableOf(CompanyRow) /\ person \in TableOf(PersonRow)
      /\ lead \in TableOf(LeadRow) /\ tag \in TableOf(TagRow)
      /\ OwnedIn(company, pc, mix) /\ OwnedIn(person, pc, mix) /\ OwnedIn(lead, pc, mix)
      /\ OwnedIn(tag, pc, mix)
  BY StepFrame DEF Core, Types, TypeOK, Tables
<1>2. pc'[k] = "failed" => /\ ~MadeIn(company', k) /\ ~MadeIn(person', k)
                           /\ ~MadeIn(lead', k) /\ ~MadeIn(tag', k)
  BY FailedLeaves
<1>3. WrittenIn(company', pc')
  <2>1. \/ Stays(company, company')
        \/ \E row : /\ company' = Append(company, row) /\ row.by = k
                    /\ pc[k] \in Writing /\ pc'[k] \in Writing \cup {"committing"}
    BY StepAdds DEF NewCompany, Writing
  <2>. QED
    BY <1>1, <1>2, <2>1, RowsWritten DEF Authors
<1>4. WrittenIn(person', pc')
  <2>1. \/ Stays(person, person')
        \/ \E row : /\ person' = Append(person, row) /\ row.by = k
                    /\ pc[k] \in Writing /\ pc'[k] \in Writing \cup {"committing"}
    BY StepAdds DEF NewPerson, Writing
  <2>. QED
    BY <1>1, <1>2, <2>1, RowsWritten DEF Authors
<1>5. WrittenIn(lead', pc')
  <2>1. \/ Stays(lead, lead')
        \/ \E row : /\ lead' = Append(lead, row) /\ row.by = k
                    /\ pc[k] \in Writing /\ pc'[k] \in Writing \cup {"committing"}
    BY StepAdds DEF NewLead, AfterRow, Writing
  <2>. QED
    BY <1>1, <1>2, <2>1, RowsWritten DEF Authors
<1>6. ASSUME NEW n \in DOMAIN tag', tag'[n] # None, tag'[n].by # None
      PROVE  /\ reqOf[tag'[n].by].op \in {"import.run", "tag.create"}
             /\ tag'[n].name = reqOf[tag'[n].by].label
             /\ pc'[tag'[n].by] \in PastTag \cup {"ok"}
  <2>1. CASE Holds(tag, tag')
    <3>1. Stays(tag, tag')
      BY <2>1 DEF Holds
    <3>2. /\ n \in DOMAIN tag /\ tag[n] # None /\ tag[n].by = tag'[n].by /\ tag'[n].by \in Job
          /\ pc'[tag'[n].by] # "failed"
      BY <1>1, <1>2, <1>6, <3>1, WrittenStays
    <3>3. tag'[n] = tag[n]
      BY <1>6, <2>1, <3>2 DEF Holds
    <3>4. /\ reqOf[tag[n].by].op \in {"import.run", "tag.create"}
          /\ tag[n].name = reqOf[tag[n].by].label
          /\ pc[tag[n].by] \in PastTag \cup {"ok"}
      BY <1>6, <3>2 DEF Authors, Labelled
    <3>. QED
      BY <3>2, <3>3, <3>4, WriterGoesOn
  <2>2. CASE /\ pc[k] = "tagging" /\ pc'[k] = AfterTag(k)
             /\ tag' = Append(tag, [name |-> reqOf[k].label, by |-> k])
    <3>1. \/ n \in DOMAIN tag /\ tag'[n] = tag[n]
          \/ tag'[n] = [name |-> reqOf[k].label, by |-> k]
      BY <1>1, <2>2, AppendAny
    <3>2. CASE tag'[n] = [name |-> reqOf[k].label, by |-> k]
      <4>1. reqOf[k].op \in {"import.run", "tag.create"}
        BY <1>1, <2>2 DEF Fits
      <4>. QED
        BY <2>2, <3>2, <4>1 DEF AfterTag, PastTag
    <3>3. CASE n \in DOMAIN tag /\ tag'[n] = tag[n]
      <4>1. /\ reqOf[tag[n].by].op \in {"import.run", "tag.create"}
            /\ tag[n].name = reqOf[tag[n].by].label
            /\ pc[tag[n].by] \in PastTag \cup {"ok"} /\ tag[n].by \in Job
        BY <1>1, <1>6, <3>3 DEF Authors, Labelled, OwnedIn, OwnerIn
      <4>2. pc'[tag[n].by] # "failed"
        <5>1. pc'[k] # "failed" /\ pc[tag[n].by] # "failed"
          BY <2>2, <4>1 DEF AfterTag, PastTag, Writing
        <5>. QED
          BY <1>1, <4>1, <5>1 DEF Frame
      <4>. QED
        BY <3>3, <4>1, <4>2, WriterGoesOn
    <3>. QED
      BY <3>1, <3>2, <3>3
  <2>. QED
    BY <2>1, <2>2, StepAdds
<1>. QED
  BY <1>3, <1>4, <1>5, <1>6 DEF Authors, WrittenIn, Labelled

-----------------------------------------------------------------------------
(* What a plan is made from when nothing else is committed.                *)

\* The rows that were there when job j began.
OldIn(table, ends, b) ==
  {n \in DOMAIN table : /\ table[n] # None
                        /\ table[n].by = None \/ ends[table[n].by] \in 1..b}
OldIds(j, table) == OldIn(table, ended, began[j])

\* Since j began nothing was committed, but by j.
Undisturbed(j) ==
  IF pc[j] = "ok" THEN Len(log) = ended[j] /\ ended[j] = began[j] + 1 ELSE Len(log) = began[j]

\* While it plans, an undisturbed job sees the rows that were there.
LEMMA OldSeen ==
  ASSUME Core, Logbook, NEW j \in Job, pc[j] \in Planning, Undisturbed(j),
         NEW t, OwnedIn(t, pc, mix), WrittenIn(t, pc)
  PROVE  Ids(j, t) = OldIds(j, t)
<1>1. /\ mix \subseteq Job /\ None \notin Job /\ pc[j] # "ok" /\ Len(log) = began[j]
      /\ DOMAIN log = 1..Len(log)
  BY TransferAssumption, LenProperties DEF Core, Types, TypeOK, Undisturbed, Planning
<1>2. ASSUME NEW n \in DOMAIN t, t[n] # None
      PROVE  t[n].by \notin Open \ {j} <=> t[n].by = None \/ ended[t[n].by] \in 1..began[j]
  <2>1. CASE t[n].by = None
    BY <1>1, <2>1 DEF Open
  <2>2. CASE t[n].by # None
    <3>1. /\ t[n].by \in mix /\ t[n].by \in Job /\ reqOf[t[n].by].op = "import.run"
          /\ pc[t[n].by] \in Writing \cup {"committing", "ok"}
      BY <1>1, <1>2, <2>2 DEF OwnedIn, OwnerIn, WrittenIn
    <3>2. CASE pc[t[n].by] = "ok"
      BY <1>1, <3>1, <3>2 DEF Logbook, Writes, Open, Working
    <3>3. CASE pc[t[n].by] # "ok"
      <4>1. t[n].by \in Open /\ t[n].by # j
        BY <3>1, <3>3 DEF Open, Working, Writing, Planning
      <4>2. ended[t[n].by] = 0
        BY <3>1, <3>3 DEF Logbook
      <4>. QED
        BY <1>1, <2>2, <4>1, <4>2
    <3>. QED
      BY <3>2, <3>3
  <2>. QED
    BY <2>1, <2>2
<1>. QED
  BY <1>2 DEF Ids, Sees, OldIds, OldIn

\* A step that edits nothing leaves them as they are.
LEMMA OldKept ==
  ASSUME Core, Logbook, History, NEW k \in mix, Step(k), NEW b \in Nat, b <= Len(log),
         NEW R, NEW t \in TableOf(R), OwnedIn(t, pc, mix), NEW u, Moves(t, u, k)
  PROVE  /\ OldIn(u, ended', b) = OldIn(t, ended, b)
         /\ \A n \in OldIn(t, ended, b) : u[n] = t[n] /\ t[n].by # k /\ t[n].by \in By
<1>1. /\ Frame(k) /\ k \in Job /\ pc[k] # "ok" /\ mix \subseteq Job /\ None \notin Job
      /\ log \in Seq(Job) /\ Len(log) \in Nat /\ ended \in [Job -> Nat]
  BY StepFrame, TransferAssumption, LenProperties DEF Core, Types, TypeOK, Frame
<1>2. ended[k] = 0 /\ ended[k] \notin 1..b /\ ended'[k] \notin 1..b
  <2>1. ended[k] = 0
    BY <1>1 DEF Logbook
  <2>2. ended'[k] = 0 \/ ended'[k] = Len(log) + 1
    BY <1>1, <2>1 DEF Frame
  <2>. QED
    BY <1>1, <2>1, <2>2
<1>3. ASSUME NEW n \in OldIn(t, ended, b)
      PROVE  /\ n \in DOMAIN t /\ t[n] # None /\ t[n].by # k /\ t[n].by \in By
             /\ n \in DOMAIN u /\ u[n] = t[n]
             /\ t[n].by = None \/ ended'[t[n].by] \in 1..b
  <2>1. /\ n \in DOMAIN t /\ t[n] # None /\ t[n].by # k /\ t[n].by \in By
        /\ t[n].by = None \/ ended[t[n].by] \in 1..b
    BY <1>1, <1>2 DEF OldIn, OwnedIn, OwnerIn, By
  <2>2. n \in DOMAIN u /\ u[n] = t[n]
    <3>1. CASE u = Undo(k, t)
      BY <2>1, <3>1, UndoFacts DEF Stays
    <3>2. CASE \E row : u = Append(t, row)
      BY <2>1, <3>2, AppendAny
    <3>. QED
      BY <2>1, <3>1, <3>2 DEF Moves
  <2>. QED
    BY <1>1, <2>1, <2>2 DEF Frame, By
<1>4. ASSUME NEW n \in OldIn(u, ended', b)
      PROVE  n \in OldIn(t, ended, b)
  <2>1. n \in DOMAIN u /\ u[n] # None /\ (u[n].by = None \/ ended'[u[n].by] \in 1..b)
    BY DEF OldIn
  <2>2. u[n].by # k
    BY <1>1, <1>2, <2>1
  <2>3. n \in DOMAIN t /\ u[n] = t[n]
    <3>1. CASE u = Undo(k, t)
      BY <2>1, <3>1, UndoFacts DEF Stays
    <3>2. ASSUME NEW row, u = Append(t, row), row.by = k
          PROVE  n \in DOMAIN t /\ u[n] = t[n]
      BY <2>1, <2>2, <3>2, AppendAny
    <3>. QED
      BY <2>1, <3>1, <3>2 DEF Moves
  <2>4. t[n].by = None \/ ended[t[n].by] \in 1..b
    BY <1>1, <2>1, <2>2, <2>3 DEF Frame, OwnedIn, OwnerIn
  <2>. QED
    BY <2>1, <2>3, <2>4 DEF OldIn
<1>. QED
  BY <1>3, <1>4 DEF OldIn

\* The oldest of rows is one of them.
Pick(table, ids) == CHOOSE n \in ids : n \in Oldest(table, ids)

LEMMA OldestOne ==
  ASSUME NEW t, NEW ids \in SUBSET Nat, ids # {}
  PROVE  Pick(t, ids) \in ids /\ Oldest(t, ids) = {Pick(t, ids)}
<1>. DEFINE eldest == {n \in ids : \A m \in ids : ~Older(t, m, n)}
            first == FirstOf[order][eldest]
            one == IF first \in eldest THEN first ELSE CHOOSE m \in eldest : TRUE
<1>1. PICK least \in ids : \A m \in ids : least <= m
  BY LeastNumber
<1>2. least \in eldest
  BY <1>1 DEF Older
<1>3. one \in eldest
  BY <1>2
<1>4. Oldest(t, ids) = {one} /\ one \in ids
  BY <1>3 DEF Oldest
<1>. HIDE DEF one
<1>. QED
  BY <1>4 DEF Pick

LEMMA StillUndisturbed ==
  ASSUME Core, Logbook, History, NEW k \in mix, Step(k), NEW j \in Job,
         began'[j] = began[j], Undisturbed(j)'
  PROVE  Undisturbed(j) /\ (log' = log \/ k = j)
<1>1. /\ Frame(k) /\ k \in Job /\ pc[k] # "ok"
      /\ log \in Seq(Job) /\ Len(log) \in Nat /\ ended \in [Job -> Nat] /\ began \in [Job -> Nat]
      /\ pc \in [Job -> Where]
      /\ \A i \in Job : began[i] <= Len(log) /\ ended[i] <= Len(log)
  BY StepFrame, LenProperties DEF Core, Types, TypeOK, Frame, History
<1>2. /\ log' = log \/ Len(log') = Len(log) + 1
      /\ ended[k] = 0
  <2>1. ended[k] = 0
    BY <1>1 DEF Logbook
  <2>. QED
    BY <1>1, <2>1, AppendProperties DEF Frame
<1>3. CASE k # j
  <2>1. pc'[j] = pc[j] /\ ended'[j] = ended[j]
    BY <1>1, <1>3 DEF Frame
  <2>. QED
    BY <1>1, <1>2, <2>1 DEF Undisturbed
<1>4. CASE k = j /\ log' = log
  <2>1. ended'[j] = 0
    BY <1>1, <1>2, <1>4, AppendProperties DEF Frame
  <2>. QED
    BY <1>1, <1>2, <1>4, <2>1 DEF Undisturbed
<1>5. CASE k = j /\ log' # log
  BY <1>1, <1>2, <1>5 DEF Undisturbed, Frame
<1>. QED
  BY <1>3, <1>4, <1>5

LEMMA OldStep ==
  ASSUME Core, Logbook, History, NEW k \in mix, Step(k), NEW j \in Job,
         reqOf[j].op = "import.run", began'[j] = began[j], Undisturbed(j)'
  PROVE  /\ Undisturbed(j) /\ store' = store
         /\ OldIds(j, company)' = OldIds(j, company) /\ OldIds(j, person)' = OldIds(j, person)
         /\ \A n \in OldIds(j, company) : company'[n] = company[n]
         /\ \A n \in OldIds(j, person) : person'[n] = person[n]
                                         /\ EmployersOf(n)' = EmployersOf(n)
         /\ \A ids \in SUBSET OldIds(j, company) : Oldest(company, ids)' = Oldest(company, ids)
         /\ \A ids \in SUBSET OldIds(j, person) : Oldest(person, ids)' = Oldest(person, ids)
<1>1. /\ Frame(k) /\ began[j] \in Nat /\ began[j] <= Len(log) /\ log \in Seq(Job)
      /\ company \in TableOf(CompanyRow) /\ person \in TableOf(PersonRow)
      /\ OwnedIn(company, pc, mix) /\ OwnedIn(person, pc, mix) /\ LinksKnown
  BY StepFrame DEF Core, Types, TypeOK, Tables, History
<1>2. Undisturbed(j) /\ (log' = log \/ k = j)
  BY StillUndisturbed
<1>3. /\ Moves(company, company', k) /\ Moves(person, person', k)
      /\ \/ link' = link
         \/ link' = {l \in link : l.by # k} /\ pc'[k] = "failed"
         \/ pc[k] = "landing" /\ link' = link \cup LinkMade(k, Len(person) + 1)
  BY <1>2, StepMoves DEF Edit
<1>4. /\ OldIds(j, company)' = OldIds(j, company)
      /\ \A n \in OldIds(j, company) : /\ company'[n] = company[n]
                                       /\ company[n].by # k /\ company[n].by \in By
  BY <1>1, <1>3, OldKept DEF OldIds
<1>5. /\ OldIds(j, person)' = OldIds(j, person)
      /\ \A n \in OldIds(j, person) : /\ person'[n] = person[n]
                                      /\ person[n].by # k /\ person[n].by \in By
  BY <1>1, <1>3, OldKept DEF OldIds
<1>6. ASSUME NEW n \in OldIds(j, person)
      PROVE  EmployersOf(n)' = EmployersOf(n)
  <2>1. person[n].by # k /\ n \in DOMAIN person
    BY <1>5 DEF OldIds, OldIn
  <2>2. n # Len(person) + 1
    BY <1>1, <2>1, AppendAny
  <2>3. \A l \in LinkMade(k, Len(person) + 1) : l.person = Len(person) + 1
    BY DEF LinkMade
  <2>4. {l \in link' : l.person = n} = {l \in link : l.person = n}
    BY <1>1, <1>3, <2>1, <2>2, <2>3 DEF LinksKnown
  <2>. QED
    BY <2>4 DEF EmployersOf
<1>7. ASSUME NEW ids \in SUBSET OldIds(j, company)
      PROVE  Oldest(company, ids)' = Oldest(company, ids)
  <2>1. \A m, n \in ids : Older(company, m, n)' <=> Older(company, m, n)
    BY <1>1, <1>4 DEF Older, Frame, By
  <2>2. {n \in ids : \A m \in ids : ~Older(company, m, n)}'
          = {n \in ids : \A m \in ids : ~Older(company, m, n)}
    BY <2>1
  <2>3. order' = order
    BY <1>1 DEF Frame
  <2>. QED
    BY <2>2, <2>3, Zenon DEF Oldest
<1>8. ASSUME NEW ids \in SUBSET OldIds(j, person)
      PROVE  Oldest(person, ids)' = Oldest(person, ids)
  <2>1. \A m, n \in ids : Older(person, m, n)' <=> Older(person, m, n)
    BY <1>1, <1>5 DEF Older, Frame, By
  <2>2. {n \in ids : \A m \in ids : ~Older(person, m, n)}'
          = {n \in ids : \A m \in ids : ~Older(person, m, n)}
    BY <2>1
  <2>3. order' = order
    BY <1>1 DEF Frame
  <2>. QED
    BY <2>2, <2>3, Zenon DEF Oldest
<1>9. store' = store
  BY <1>1 DEF Frame
<1>. QED
  BY <1>2, <1>4, <1>5, <1>6, <1>7, <1>8, <1>9

Least(S) == CHOOSE n \in S : \A m \in S : n <= m

LEMMA LeastFacts ==
  ASSUME NEW S \in SUBSET Nat
  PROVE  /\ S # {} => Least(S) \in S /\ \A m \in S : Least(S) <= m
         /\ \A n \in S : (\A m \in S : n <= m) => Least(S) = n
<1>1. S # {} => Least(S) \in S /\ \A m \in S : Least(S) <= m
  BY LeastNumber DEF Least
<1>2. ASSUME NEW n \in S, \A m \in S : n <= m
      PROVE  Least(S) = n
  <2>1. Least(S) \in S /\ Least(S) <= n /\ n <= Least(S)
    BY <1>1, <1>2
  <2>2. Least(S) \in Nat /\ n \in Nat
    BY <2>1
  <2>. QED
    BY <2>1, <2>2
<1>. QED
  BY <1>1, <1>2

\* The company a row has by the records that were there when j began: the oldest
\* that is like it, or what the first row with its data makes.
CompaniesLike(j, n) ==
  {id \in OldIds(j, company) :
     ExactTerms(CompanyField \cap Supplied(j), company[id], Row(j, n))}
CompanyRepeats(j, n) ==
  {m \in 1..n : /\ Row(j, m)["company.name"] # None
                /\ SameDataKey(j, CompanyField, m) = SameDataKey(j, CompanyField, n)}
CompanyOf(j, n) ==
  IF Row(j, n)["company.name"] = None THEN NoRef
  ELSE IF CompaniesLike(j, n) # {} THEN Existing(Pick(company, CompaniesLike(j, n)))
  ELSE New(Least(CompanyRepeats(j, n)))

\* The person, among those that work for that company.
PeopleLike(j, n) ==
  {id \in OldIds(j, person) :
     /\ ExactTerms(PersonField \cap Supplied(j), person[id], Row(j, n))
     /\ CompanyColumn(j) => IF CompanyOf(j, n).kind = "none" THEN EmployersOf(id) = {}
                            ELSE /\ CompanyOf(j, n).kind = "existing"
                                 /\ CompanyOf(j, n).of \in EmployersOf(id)}
PersonRepeats(j, n) ==
  {m \in 1..n : /\ Row(j, m)["person.name"] # None
                /\ PersonKey(j, m, CompanyOf(j, m)) = PersonKey(j, n, CompanyOf(j, n))}
PersonOf(j, n) ==
  IF Row(j, n)["person.name"] = None THEN NoRef
  ELSE IF PeopleLike(j, n) # {} THEN Existing(Pick(person, PeopleLike(j, n)))
  ELSE New(Least(PersonRepeats(j, n)))

LEMMA CompanyOfKept ==
  ASSUME NEW j \in Job, NEW n, store' = store,
         OldIds(j, company)' = OldIds(j, company),
         \A id \in OldIds(j, company) : company'[id] = company[id],
         \A ids \in SUBSET OldIds(j, company) : Oldest(company, ids)' = Oldest(company, ids)
  PROVE  CompanyOf(j, n)' = CompanyOf(j, n)
<1>1. Row(j, n)' = Row(j, n) /\ Supplied(j)' = Supplied(j) /\ StoreLower' = StoreLower
  BY RowFixed DEF StoreLower
<1>2. CompaniesLike(j, n)' = CompaniesLike(j, n)
  <2>1. ASSUME NEW id \in OldIds(j, company)
        PROVE  ExactTerms(CompanyField \cap Supplied(j), company[id], Row(j, n))'
                 <=> ExactTerms(CompanyField \cap Supplied(j), company[id], Row(j, n))
    BY <1>1 DEF ExactTerms, ExactTerm
  <2>. QED
    BY <2>1 DEF CompaniesLike
<1>3. PICK ids \in SUBSET OldIds(j, company) : ids = CompaniesLike(j, n)
  BY DEF CompaniesLike
<1>4. Pick(company, CompaniesLike(j, n))' = Pick(company, CompaniesLike(j, n))
  <2>1. Oldest(company, ids)' = Oldest(company, ids)
    BY <1>3
  <2>2. Pick(company, ids)' = Pick(company, ids)
    BY <2>1 DEF Pick
  <2>. QED
    BY <1>2, <1>3, <2>2
<1>5. CompanyRepeats(j, n)' = CompanyRepeats(j, n)
  <2>1. ASSUME NEW m \in 1..n
        PROVE  /\ Row(j, m)' = Row(j, m)
               /\ SameDataKey(j, CompanyField, m)' = SameDataKey(j, CompanyField, m)
               /\ SameDataKey(j, CompanyField, n)' = SameDataKey(j, CompanyField, n)
    BY RowFixed
  <2>. QED
    BY <2>1 DEF CompanyRepeats
<1>. QED
  BY <1>1, <1>2, <1>4, <1>5 DEF CompanyOf

LEMMA PersonOfKept ==
  ASSUME NEW j \in Job, NEW n \in Int, store' = store,
         \A m \in 1..n : CompanyOf(j, m)' = CompanyOf(j, m),
         CompanyOf(j, n)' = CompanyOf(j, n),
         OldIds(j, person)' = OldIds(j, person),
         \A id \in OldIds(j, person) : /\ person'[id] = person[id]
                                       /\ EmployersOf(id)' = EmployersOf(id),
         \A ids \in SUBSET OldIds(j, person) : Oldest(person, ids)' = Oldest(person, ids)
  PROVE  PersonOf(j, n)' = PersonOf(j, n)
<1>1. /\ Row(j, n)' = Row(j, n) /\ Supplied(j)' = Supplied(j) /\ StoreLower' = StoreLower
      /\ CompanyColumn(j)' = CompanyColumn(j)
  BY RowFixed DEF StoreLower
<1>2. PeopleLike(j, n)' = PeopleLike(j, n)
  <2>1. ASSUME NEW id \in OldIds(j, person)
        PROVE  ExactTerms(PersonField \cap Supplied(j), person[id], Row(j, n))'
                 <=> ExactTerms(PersonField \cap Supplied(j), person[id], Row(j, n))
    BY <1>1 DEF ExactTerms, ExactTerm
  <2>. QED
    BY <1>1, <2>1 DEF PeopleLike
<1>3. PICK ids \in SUBSET OldIds(j, person) : ids = PeopleLike(j, n)
  BY DEF PeopleLike
<1>4. Pick(person, PeopleLike(j, n))' = Pick(person, PeopleLike(j, n))
  <2>1. Oldest(person, ids)' = Oldest(person, ids)
    BY <1>3
  <2>2. Pick(person, ids)' = Pick(person, ids)
    BY <2>1 DEF Pick
  <2>. QED
    BY <1>2, <1>3, <2>2
<1>5. PersonRepeats(j, n)' = PersonRepeats(j, n)
  <2>1. ASSUME NEW m \in 1..n
        PROVE  /\ Row(j, m)' = Row(j, m)
               /\ PersonKey(j, m, CompanyOf(j, m))' = PersonKey(j, m, CompanyOf(j, m))
    BY <1>1, RowFixed DEF PersonKey
  <2>2. PersonKey(j, n, CompanyOf(j, n))' = PersonKey(j, n, CompanyOf(j, n))
    BY <1>1, RowFixed DEF PersonKey
  <2>. QED
    BY <2>1, <2>2 DEF PersonRepeats
<1>. QED
  BY <1>1, <1>2, <1>4, <1>5 DEF PersonOf

LEMMA PlanKept ==
  ASSUME Core, Logbook, History, NEW k \in mix, Step(k), NEW j \in Job,
         reqOf[j].op = "import.run", began'[j] = began[j], Undisturbed(j)'
  PROVE  /\ Undisturbed(j)
         /\ \A n \in Int : CompanyOf(j, n)' = CompanyOf(j, n) /\ PersonOf(j, n)' = PersonOf(j, n)
<1>1. ASSUME NEW n
      PROVE  CompanyOf(j, n)' = CompanyOf(j, n)
  BY OldStep, CompanyOfKept
<1>2. ASSUME NEW n \in Int
      PROVE  PersonOf(j, n)' = PersonOf(j, n)
  <2>1. /\ \A m \in 1..n : CompanyOf(j, m)' = CompanyOf(j, m)
        /\ CompanyOf(j, n)' = CompanyOf(j, n)
    BY <1>1
  <2>. QED
    BY <2>1, OldStep, PersonOfKept
<1>. QED
  BY <1>1, <1>2, OldStep

\* A row's name is there only under its column.
LEMMA NameSupplied ==
  ASSUME NEW j \in Job, Importing(j), NEW n \in 1..Len(Rows(j))
  PROVE  /\ Row(j, n)["company.name"] # None => CompanyColumn(j)
         /\ \A f \in Field \ Supplied(j) : Row(j, n)[f] = None
<1>. DEFINE csv == reqOf[j].csv
            named == Named(csv)
<1>1. csv \in Csv
  BY CallFacts
<1>2. csv.rows \in Seq(CsvRow) /\ \A m \in DOMAIN csv.rows, f \in Field \ csv.supplied :
                                    csv.rows[m][f] = None
  BY <1>1 DEF Csv, CsvRow
<1>3. Len(csv.rows) \in Nat /\ DOMAIN csv.rows = 1..Len(csv.rows)
  BY <1>2, LenProperties
<1>4. IsFiniteSet(named) /\ named \in SUBSET Nat
  <2>1. named \in SUBSET (1..Len(csv.rows))
    BY <1>3 DEF Named
  <2>2. IsFiniteSet(1..Len(csv.rows))
    BY <1>3, FS_Interval
  <2>. QED
    BY <1>3, <2>1, <2>2, FS_Subset
<1>5. Cardinality(named) \in Nat
  BY <1>4, FS_CardinalityType
<1>6. Len(Rows(j)) = Cardinality(named)
  <2>1. DOMAIN Rows(j) = 1..Cardinality(named)
    BY DEF Rows
  <2>2. DOMAIN Rows(j) = 1..Len(Rows(j)) /\ Len(Rows(j)) \in Nat
    BY RowsType
  <2>. QED
    BY <1>5, <2>1, <2>2
<1>7. n - 1 \in 0..Cardinality(named) - 1
  BY <1>5, <1>6
<1>8. \E m \in named : Place(named, m) = n - 1
  BY <1>4, <1>7, PlaceTaken
<1>9. PICK m \in named : Row(j, n) = csv.rows[m]
  BY <1>6, <1>8 DEF Row, Rows
<1>10. \A f \in Field \ Supplied(j) : Row(j, n)[f] = None
  BY <1>2, <1>9 DEF Named, Supplied
<1>. QED
  BY <1>10 DEF CompanyColumn, Field, CompanyField

\* Rows with one key have one company.
LEMMA CompanyAlike ==
  ASSUME NEW j \in Job, NEW n \in Nat, NEW m \in 1..n,
         SameDataKey(j, CompanyField, m) = SameDataKey(j, CompanyField, n),
         Row(j, m)["company.name"] # None, Row(j, n)["company.name"] # None
  PROVE  CompanyOf(j, m) = CompanyOf(j, n)
<1>1. CompaniesLike(j, m) = CompaniesLike(j, n)
  <2>1. \A f \in CompanyField \cap Supplied(j) : Row(j, m)[f] = Row(j, n)[f] /\ f # "person.email"
    <3>. SUFFICES ASSUME NEW f \in CompanyField \cap Supplied(j)
                  PROVE  Row(j, m)[f] = Row(j, n)[f] /\ f # "person.email"
      OBVIOUS
    <3>1. f # "person.email"
      BY DEF CompanyField
    <3>2. SameDataKey(j, CompanyField, m)[f] = SameDataKey(j, CompanyField, n)[f]
      OBVIOUS
    <3>. QED
      BY <3>1, <3>2 DEF SameDataKey
  <2>. QED
    BY <2>1 DEF CompaniesLike, ExactTerms, ExactTerm
<1>2. /\ CompanyRepeats(j, m) \in SUBSET Nat /\ CompanyRepeats(j, n) \in SUBSET Nat
      /\ m \in CompanyRepeats(j, m) /\ CompanyRepeats(j, m) \subseteq CompanyRepeats(j, n)
      /\ \A i \in CompanyRepeats(j, n) : i \in CompanyRepeats(j, m) \/ m <= i
  BY DEF CompanyRepeats
<1>3. Least(CompanyRepeats(j, n)) = Least(CompanyRepeats(j, m))
  <2>1. /\ Least(CompanyRepeats(j, m)) \in CompanyRepeats(j, m)
        /\ \A i \in CompanyRepeats(j, m) : Least(CompanyRepeats(j, m)) <= i
    BY <1>2, LeastFacts
  <2>2. ASSUME NEW i \in CompanyRepeats(j, n)
        PROVE  Least(CompanyRepeats(j, m)) <= i
    <3>1. Least(CompanyRepeats(j, m)) \in Nat /\ i \in Nat /\ Least(CompanyRepeats(j, m)) <= m
      BY <1>2, <2>1
    <3>. QED
      BY <1>2, <2>1, <3>1
  <2>3. Least(CompanyRepeats(j, m)) \in CompanyRepeats(j, n)
    BY <1>2, <2>1
  <2>. QED
    BY <1>2, <2>2, <2>3, LeastFacts
<1>. QED
  BY <1>1, <1>3 DEF CompanyOf

\* What a row is planned to have is certain then.
LEMMA CompanyRefsAre ==
  ASSUME Core, NEW j \in Job, Importing(j), NEW n \in Nat, n = Len(plan[j]) + 1,
         Ids(j, company) = OldIds(j, company),
         \A m \in 1..n - 1 : plan[j][m].company = CompanyOf(j, m)
  PROVE  CompanyRefs(j, n) = {CompanyOf(j, n)}
<1>. DEFINE same == {m \in 1..n - 1 : /\ plan[j][m].company # NoRef
                                      /\ SameDataKey(j, CompanyField, m)
                                           = SameDataKey(j, CompanyField, n)}
<1>0. Len(plan[j]) \in Nat /\ n \in 1..n /\ \A m \in 1..n - 1 : m \in 1..n /\ m # n
  BY RowNumbers
<1>1. \A m : CompanyOf(j, m) = NoRef <=> Row(j, m)["company.name"] = None
  BY DEF CompanyOf, NoRef, Existing, New
<1>2. CASE Row(j, n)["company.name"] = None
  BY <1>1, <1>2 DEF CompanyRefs
<1>3. CASE Row(j, n)["company.name"] # None /\ same # {}
  <2>1. \A m \in same : plan[j][m].company = CompanyOf(j, n)
    <3>. SUFFICES ASSUME NEW m \in same
                  PROVE  plan[j][m].company = CompanyOf(j, n)
      OBVIOUS
    <3>1. m \in 1..n /\ plan[j][m].company = CompanyOf(j, m) /\ Row(j, m)["company.name"] # None
      BY <1>0, <1>1
    <3>. QED
      BY <1>3, <3>1, CompanyAlike
  <2>2. CompanyRefs(j, n) = {plan[j][m].company : m \in same}
    BY <1>3, Zenon DEF CompanyRefs
  <2>. HIDE DEF same
  <2>. QED
    BY <1>3, <2>1, <2>2
<1>4. CASE Row(j, n)["company.name"] # None /\ same = {}
  <2>1. CompanyRefs(j, n) = Refs(FindCompanies(j, reqOf[j].csv, Row(j, n)), n)
    BY <1>4, Zenon DEF CompanyRefs
  <2>2. FindCompanies(j, reqOf[j].csv, Row(j, n)) = Oldest(company, CompaniesLike(j, n))
    BY DEF FindCompanies, CompaniesLike, Supplied
  <2>3. CASE CompaniesLike(j, n) # {}
    <3>1. CompaniesLike(j, n) \in SUBSET Nat
      BY TableFacts DEF Core, Types, TypeOK, CompaniesLike, OldIds, OldIn
    <3>2. Oldest(company, CompaniesLike(j, n)) = {Pick(company, CompaniesLike(j, n))}
      BY <2>3, <3>1, OldestOne
    <3>3. Refs({Pick(company, CompaniesLike(j, n))}, n)
            = {Existing(Pick(company, CompaniesLike(j, n)))}
      BY DEF Refs
    <3>. QED
      BY <1>4, <2>1, <2>2, <2>3, <3>2, <3>3 DEF CompanyOf
  <2>4. CASE CompaniesLike(j, n) = {}
    <3>1. Oldest(company, CompaniesLike(j, n)) = {}
      BY <2>4, OldestIn
    <3>2. CompanyRepeats(j, n) = {n}
      <4>1. n \in CompanyRepeats(j, n)
        BY <1>0, <1>4 DEF CompanyRepeats
      <4>2. ASSUME NEW m \in CompanyRepeats(j, n), m # n
            PROVE  FALSE
        <5>1. m \in 1..n - 1
          BY <4>2 DEF CompanyRepeats
        <5>2. plan[j][m].company # NoRef
          BY <1>1, <5>1 DEF CompanyRepeats
        <5>3. m \in same
          BY <5>1, <5>2 DEF CompanyRepeats
        <5>. QED
          BY <1>4, <5>3
      <4>. QED
        BY <4>1, <4>2
    <3>3. Least(CompanyRepeats(j, n)) = n
      BY <3>2, LeastFacts
    <3>. QED
      BY <1>4, <2>1, <2>2, <2>4, <3>1, <3>3 DEF CompanyOf, Refs
  <2>. QED
    BY <2>3, <2>4
<1>. QED
  BY <1>2, <1>3, <1>4

LEMMA PersonAlike ==
  ASSUME NEW j \in Job, NEW n \in Nat, NEW m \in 1..n,
         PersonKey(j, m, CompanyOf(j, m)) = PersonKey(j, n, CompanyOf(j, n)),
         Row(j, m)["person.name"] # None, Row(j, n)["person.name"] # None
  PROVE  PersonOf(j, m) = PersonOf(j, n)
<1>1. PeopleLike(j, m) = PeopleLike(j, n)
  <2>1. /\ SameDataKey(j, PersonField, m) = SameDataKey(j, PersonField, n)
        /\ CompanyColumn(j) => CompanyOf(j, m) = CompanyOf(j, n)
    BY PersonKeys
  <2>2. ASSUME NEW f \in PersonField \cap Supplied(j), NEW stored
        PROVE  ExactTerm(f, stored, Row(j, m)[f]) <=> ExactTerm(f, stored, Row(j, n)[f])
    <3>1. SameDataKey(j, PersonField, m)[f] = SameDataKey(j, PersonField, n)[f]
      BY <2>1
    <3>. QED
      BY <3>1 DEF SameDataKey, ExactTerm
  <2>3. ASSUME NEW record
        PROVE  ExactTerms(PersonField \cap Supplied(j), record, Row(j, m))
                 <=> ExactTerms(PersonField \cap Supplied(j), record, Row(j, n))
    BY <2>2 DEF ExactTerms
  <2>. QED
    BY <2>1, <2>3 DEF PeopleLike
<1>2. /\ PersonRepeats(j, m) \in SUBSET Nat /\ PersonRepeats(j, n) \in SUBSET Nat
      /\ m \in PersonRepeats(j, m) /\ PersonRepeats(j, m) \subseteq PersonRepeats(j, n)
      /\ \A i \in PersonRepeats(j, n) : i \in PersonRepeats(j, m) \/ m <= i
  BY DEF PersonRepeats
<1>3. Least(PersonRepeats(j, n)) = Least(PersonRepeats(j, m))
  <2>1. /\ Least(PersonRepeats(j, m)) \in PersonRepeats(j, m)
        /\ \A i \in PersonRepeats(j, m) : Least(PersonRepeats(j, m)) <= i
    BY <1>2, LeastFacts
  <2>2. ASSUME NEW i \in PersonRepeats(j, n)
        PROVE  Least(PersonRepeats(j, m)) <= i
    <3>1. Least(PersonRepeats(j, m)) \in Nat /\ i \in Nat /\ Least(PersonRepeats(j, m)) <= m
      BY <1>2, <2>1
    <3>. QED
      BY <1>2, <2>1, <3>1
  <2>3. Least(PersonRepeats(j, m)) \in PersonRepeats(j, n)
    BY <1>2, <2>1
  <2>. QED
    BY <1>2, <2>2, <2>3, LeastFacts
<1>. QED
  BY <1>1, <1>3 DEF PersonOf

LEMMA PersonRefsAre ==
  ASSUME Core, NEW j \in Job, Importing(j), NEW n \in 1..Len(plan[j]), n <= Len(Rows(j)),
         Ids(j, person) = OldIds(j, person),
         \A m \in 1..n : plan[j][m].company = CompanyOf(j, m),
         \A m \in 1..n - 1 : plan[j][m].person = PersonOf(j, m)
  PROVE  PersonRefs(j, n, plan[j][n].company) = {PersonOf(j, n)}
<1>. DEFINE ref == CompanyOf(j, n)
            whose == IF ~CompanyColumn(j) THEN -1 ELSE IF ref = NoRef THEN None ELSE ref.of
            same == {m \in 1..n - 1 : /\ plan[j][m].person # NoRef
                                      /\ PersonKey(j, m, plan[j][m].company)
                                           = PersonKey(j, n, ref)}
            found == FindPeople(j, reqOf[j].csv, Row(j, n), whose)
<1>0. /\ Len(plan[j]) \in Nat /\ Len(Rows(j)) \in Nat /\ n \in Nat /\ n \in 1..n
      /\ n \in 1..Len(Rows(j))
      /\ \A m \in 1..n - 1 : m \in 1..n /\ m # n
  BY RowNumbers, RowsType
<1>1. /\ \A m : PersonOf(j, m) = NoRef <=> Row(j, m)["person.name"] = None
      /\ ref = NoRef <=> Row(j, n)["company.name"] = None
      /\ ref = NoRef <=> ref.kind = "none"
      /\ ref.kind \in {"none", "existing", "new"}
  BY DEF CompanyOf, PersonOf, NoRef, Existing, New
<1>2. plan[j][n].company = ref /\ ref.of \in Nat
  <2>1. plan[j] \in Seq(PlanRow)
    BY DEF Core, Types
  <2>2. plan[j][n] \in PlanRow
    BY <2>1, ElementOfSeq
  <2>3. plan[j][n].company = ref
    BY <1>0
  <2>. QED
    BY <2>2, <2>3 DEF PlanRow, Ref
<1>3. PersonRefs(j, n, ref) = IF Row(j, n)["person.name"] = None THEN {NoRef}
                              ELSE IF same # {} THEN {plan[j][m].person : m \in same}
                              ELSE IF ref.kind = "new" THEN {New(n)}
                              ELSE Refs(found, n)
  BY Zenon DEF PersonRefs
<1>4. CASE Row(j, n)["person.name"] = None
  BY <1>1, <1>2, <1>3, <1>4
<1>5. CASE Row(j, n)["person.name"] # None /\ same # {}
  <2>1. \A m \in same : plan[j][m].person = PersonOf(j, n)
    <3>. SUFFICES ASSUME NEW m \in same
                  PROVE  plan[j][m].person = PersonOf(j, n)
      OBVIOUS
    <3>1. m \in 1..n - 1 /\ m \in 1..n
      BY <1>0
    <3>2. /\ plan[j][m].company = CompanyOf(j, m) /\ plan[j][m].person = PersonOf(j, m)
          /\ Row(j, m)["person.name"] # None
          /\ PersonKey(j, m, CompanyOf(j, m)) = PersonKey(j, n, CompanyOf(j, n))
      BY <1>1, <3>1
    <3>. QED
      BY <1>0, <1>5, <3>1, <3>2, PersonAlike
  <2>. HIDE DEF same
  <2>. QED
    BY <1>2, <1>3, <1>5, <2>1
<1>6. CASE Row(j, n)["person.name"] # None /\ same = {}
  <2>1. PersonRefs(j, n, ref) = IF ref.kind = "new" THEN {New(n)} ELSE Refs(found, n)
    BY <1>3, <1>6
  <2>2. Least(PersonRepeats(j, n)) = n
    <3>1. n \in PersonRepeats(j, n)
      BY <1>0, <1>6 DEF PersonRepeats
    <3>2. ASSUME NEW m \in PersonRepeats(j, n), m # n
          PROVE  FALSE
      <4>1. m \in 1..n - 1 /\ m \in 1..n
        BY <1>0, <3>2 DEF PersonRepeats
      <4>2. /\ plan[j][m].person # NoRef
            /\ PersonKey(j, m, plan[j][m].company) = PersonKey(j, n, ref)
        BY <1>1, <4>1 DEF PersonRepeats
      <4>3. m \in same
        BY <4>1, <4>2
      <4>. QED
        BY <1>6, <4>3
    <3>3. PersonRepeats(j, n) = {n}
      BY <3>1, <3>2
    <3>. QED
      BY <1>0, <3>3, LeastFacts
  <2>3. CASE ref.kind = "new"
    <3>1. CompanyColumn(j)
      BY <1>0, <1>1, <2>3, NameSupplied
    <3>2. PeopleLike(j, n) = {}
      BY <2>3, <3>1 DEF PeopleLike
    <3>. QED
      BY <1>2, <1>6, <2>1, <2>2, <2>3, <3>2 DEF PersonOf
  <2>4. CASE ref.kind # "new"
    <3>1. whose = None <=> CompanyColumn(j) /\ ref = NoRef
      BY <1>2, TransferAssumption
    <3>2. whose \notin {None, -1} <=> CompanyColumn(j) /\ ref # NoRef
      BY <1>2, <3>1
    <3>3. ref # NoRef /\ CompanyColumn(j) => whose = ref.of
      OBVIOUS
    <3>. HIDE DEF whose, ref
    <3>4. ASSUME NEW id \in OldIds(j, person)
          PROVE  /\ whose = None => Employers(j, id) = {}
                 /\ whose \notin {None, -1} => whose \in Employers(j, id)
                 <=> (CompanyColumn(j) => IF ref.kind = "none" THEN EmployersOf(id) = {}
                                          ELSE /\ ref.kind = "existing"
                                               /\ ref.of \in EmployersOf(id))
      <4>1. Employers(j, id) = EmployersOf(id)
        BY EmployersSeen
      <4>. QED
        BY <1>1, <2>4, <3>1, <3>2, <3>3, <4>1
    <3>5. found = Oldest(person, PeopleLike(j, n))
      BY <3>4 DEF found, FindPeople, PeopleLike, Supplied, ref
    <3>6. CASE PeopleLike(j, n) # {}
      <4>1. PeopleLike(j, n) \in SUBSET Nat
        BY TableFacts DEF Core, Types, TypeOK, PeopleLike, OldIds, OldIn
      <4>2. Oldest(person, PeopleLike(j, n)) = {Pick(person, PeopleLike(j, n))}
        BY <3>6, <4>1, OldestOne
      <4>3. Refs({Pick(person, PeopleLike(j, n))}, n)
              = {Existing(Pick(person, PeopleLike(j, n)))}
        BY DEF Refs
      <4>. QED
        BY <1>2, <1>6, <2>1, <2>4, <3>5, <3>6, <4>2, <4>3 DEF PersonOf
    <3>7. CASE PeopleLike(j, n) = {}
      <4>1. Oldest(person, PeopleLike(j, n)) = {}
        BY <3>7, OldestIn
      <4>. QED
        BY <1>2, <1>6, <2>1, <2>2, <2>4, <3>5, <3>7, <4>1 DEF PersonOf, Refs
    <3>. QED
      BY <3>6, <3>7
  <2>. QED
    BY <2>3, <2>4
<1>. QED
  BY <1>4, <1>5, <1>6

\* What an undisturbed import has planned.
AsForeseen(j) ==
  \A n \in 1..Len(plan[j]) :
    /\ plan[j][n].company = CompanyOf(j, n)
    /\ n < Len(plan[j]) \/ pc[j] \notin {"person", "preview_person"}
         => plan[j][n].person = PersonOf(j, n)
Foreseen ==
  \A j \in Imports :
    pc[j] \in Planning \cup Writing \cup {"asked", "committing", "ok"} /\ Undisturbed(j)
      => AsForeseen(j)

\* How an import's plan goes on.
LEMMA PlanSteps ==
  ASSUME Core, NEW k \in mix, Step(k), reqOf[k].op = "import.run"
  PROVE  \/ PlanCompany(k) /\ pc'[k] \in {"person", "preview_person"} /\ began' = began
         \/ PlanPerson(k) /\ pc'[k] \notin {"person", "preview_person"} /\ began' = began
         \/ plan'[k] = <<>>
         \/ /\ plan'[k] = plan[k] /\ pc'[k] \notin {"person", "preview_person"} /\ began' = began
            /\ pc'[k] \in Planning \cup Writing \cup {"asked", "committing", "ok"}
                 => pc[k] \in {"company", "preview_company", "committing"} \cup Writing
<1>1. k \in Job /\ pc \in [Job -> Where] /\ Fits(k) /\ plan \in [Job -> Seq(PlanRow)]
  BY DEF Core, Types
<1>2. CASE Fail(k)
  BY <1>1, <1>2 DEF Fail, Goto, locals, history, Planning, Writing
<1>3. CASE Preview(k)
  BY <1>1, <1>3 DEF Preview, locals, Fits
<1>4. CASE Begin(k)
  BY <1>1, <1>4 DEF Begin
<1>5. CASE FindTag(k)
  BY <1>1, <1>5 DEF FindTag, Fits
<1>6. CASE CreateTag(k)
  BY <1>1, <1>2, <1>6 DEF CreateTag, Fits
<1>7. CASE PlanCompany(k)
  BY <1>1, <1>7 DEF PlanCompany, Goes, Goto, history
<1>8. CASE PlanPerson(k)
  <2>1. pc'[k] \notin {"person", "preview_person"} /\ began' = began
    BY <1>1, <1>8 DEF PlanPerson, Planned, Goes, Goto, history
  <2>. QED
    BY <1>8, <2>1
<1>9. CASE PlanNothing(k)
  BY <1>1, <1>2, <1>9 DEF PlanNothing, Goes, Goto, history, Planning, Writing
<1>10. CASE WriteCompany(k)
  BY <1>1, <1>10 DEF WriteCompany, Goto, history, Writing
<1>11. CASE WritePerson(k)
  BY <1>1, <1>11 DEF WritePerson, Goto, history, Writing
<1>12. CASE FindLead(k)
  BY <1>1, <1>12 DEF FindLead, AfterRow, Goes, Goto, history, Writing
<1>13. CASE WriteLead(k)
  BY <1>1, <1>2, <1>13 DEF WriteLead, AfterRow, Goto, history, Writing
<1>14. CASE Commit(k)
  BY <1>1, <1>14 DEF Commit, Ends, Goto, locals, history
<1>15. CASE CountPage(k) \/ ReadPage(k) \/ EditRecord(k) \/ Unlink(k)
  BY <1>1, <1>15 DEF CountPage, ReadPage, EditRecord, Unlink, Fits, Edit
<1>. QED
  BY <1>2, <1>3, <1>4, <1>5, <1>6, <1>7, <1>8, <1>9, <1>10, <1>11, <1>12, <1>13, <1>14, <1>15
     DEF Step, Refuse, LinkRefused, DeadlockAbort

LEMMA ForeseenStep ==
  ASSUME Core, Logbook, History, Authors, Foreseen, NEW k \in mix, Step(k)
  PROVE  Foreseen'
<1>1. /\ Frame(k) /\ k \in Job /\ mix \subseteq Job /\ mix' = mix /\ pc[k] # "ok"
      /\ plan \in [Job -> Seq(PlanRow)] /\ pc \in [Job -> Where]
      /\ OwnedIn(company, pc, mix) /\ OwnedIn(person, pc, mix)
      /\ WrittenIn(company, pc) /\ WrittenIn(person, pc)
  BY StepFrame DEF Core, Types, Frame, Tables, Authors
<1>. SUFFICES ASSUME NEW j \in mix, reqOf[j].op = "import.run",
                     pc'[j] \in Planning \cup Writing \cup {"asked", "committing", "ok"},
                     Undisturbed(j)'
              PROVE  AsForeseen(j)'
  BY <1>1 DEF Foreseen, Imports
<1>2. j \in Job /\ Importing(j) /\ plan[j] \in Seq(PlanRow) /\ Len(plan[j]) \in Nat
  BY <1>1, RowNumbers DEF Importing
<1>3. ASSUME began'[j] = began[j]
      PROVE  /\ Undisturbed(j)
             /\ \A n \in Int : CompanyOf(j, n)' = CompanyOf(j, n) /\ PersonOf(j, n)' = PersonOf(j, n)
  BY <1>2, <1>3, PlanKept
<1>4. CASE j # k
  <2>1. pc'[j] = pc[j] /\ plan'[j] = plan[j] /\ began'[j] = began[j]
    BY <1>1, <1>2, <1>4 DEF Frame
  <2>2. AsForeseen(j)
    BY <1>3, <2>1 DEF Foreseen, Imports
  <2>. QED
    BY <1>2, <1>3, <2>1, <2>2 DEF AsForeseen
<1>5. CASE j = k /\ plan'[k] = <<>>
  BY <1>5 DEF AsForeseen
<1>6. CASE /\ j = k /\ plan'[k] = plan[k] /\ pc'[k] \notin {"person", "preview_person"}
           /\ began' = began
           /\ pc[k] \in {"company", "preview_company", "committing"} \cup Writing
  <2>1. AsForeseen(j)
    BY <1>3, <1>6 DEF Foreseen, Imports, Planning
  <2>2. pc[j] \notin {"person", "preview_person"}
    BY <1>6 DEF Writing
  <2>. QED
    BY <1>2, <1>3, <1>6, <2>1, <2>2 DEF AsForeseen
<1>7. ASSUME j = k, pc[j] \in Planning, began' = began
      PROVE  /\ AsForeseen(j)
             /\ Ids(j, company) = OldIds(j, company) /\ Ids(j, person) = OldIds(j, person)
  <2>1. AsForeseen(j)
    BY <1>3, <1>7 DEF Foreseen, Imports
  <2>. QED
    BY <1>1, <1>2, <1>3, <1>7, <2>1, OldSeen
<1>8. CASE j = k /\ PlanCompany(k) /\ pc'[k] \in {"person", "preview_person"} /\ began' = began
  <2>. DEFINE n == Len(plan[j]) + 1
  <2>1. pc[j] \in Planning /\ pc[j] \notin {"person", "preview_person"}
    BY <1>8 DEF PlanCompany, Planning
  <2>2. AsForeseen(j) /\ Ids(j, company) = OldIds(j, company)
    BY <1>7, <1>8, <2>1
  <2>3. \A m \in 1..n - 1 : plan[j][m].company = CompanyOf(j, m)
    BY <1>2, <2>2 DEF AsForeseen
  <2>4. CompanyRefs(j, n) = {CompanyOf(j, n)}
    <3>1. n \in Nat /\ n = Len(plan[j]) + 1
      BY <1>2
    <3>. HIDE DEF n
    <3>. QED
      BY <1>2, <2>2, <2>3, <3>1, CompanyRefsAre
  <2>5. plan'[j] = Append(plan[j], [company |-> CompanyOf(j, n), person |-> NoRef])
    BY <1>1, <1>2, <1>8, <2>4 DEF PlanCompany
  <2>6. /\ Len(plan'[j]) = n /\ plan'[j][n].company = CompanyOf(j, n)
        /\ \A m \in 1..n - 1 : plan'[j][m] = plan[j][m]
    <3>. DEFINE row == [company |-> CompanyOf(j, n), person |-> NoRef]
    <3>1. plan[j] \in Seq(PlanRow \cup {row}) /\ row \in PlanRow \cup {row}
      BY <1>2
    <3>. HIDE DEF row
    <3>2. /\ Len(Append(plan[j], row)) = Len(plan[j]) + 1
          /\ \A i \in 1..Len(plan[j]) : Append(plan[j], row)[i] = plan[j][i]
          /\ Append(plan[j], row)[Len(plan[j]) + 1] = row
      BY <3>1, AppendProperties
    <3>. QED
      BY <1>2, <2>5, <3>2 DEF row
  <2>. SUFFICES ASSUME NEW m \in 1..Len(plan'[j])
                PROVE  /\ plan'[j][m].company = CompanyOf(j, m)'
                       /\ m < Len(plan'[j]) => plan'[j][m].person = PersonOf(j, m)'
    BY <1>8 DEF AsForeseen
  <2>7. CompanyOf(j, m)' = CompanyOf(j, m) /\ PersonOf(j, m)' = PersonOf(j, m)
    BY <1>3, <1>8
  <2>8. CASE m = n
    BY <1>2, <2>6, <2>7, <2>8
  <2>9. CASE m \in 1..n - 1
    BY <1>2, <2>1, <2>2, <2>6, <2>7, <2>9 DEF AsForeseen
  <2>. QED
    BY <1>2, <2>6, <2>8, <2>9
<1>9. CASE j = k /\ PlanPerson(k) /\ pc'[k] \notin {"person", "preview_person"} /\ began' = began
  <2>. DEFINE n == Len(plan[j])
  <2>1. pc[j] \in Planning /\ pc[j] \in {"person", "preview_person"}
    BY <1>9 DEF PlanPerson, Planning
  <2>2. AsForeseen(j) /\ Ids(j, person) = OldIds(j, person)
    BY <1>7, <1>9, <2>1
  <2>3. n \in 1..Len(Rows(j)) /\ Len(Rows(j)) \in Nat
    BY <1>2, <2>1, RowsType DEF Core, Fits
  <2>4. n \in 1..Len(plan[j]) /\ n <= Len(Rows(j))
    BY <2>3
  <2>5. /\ \A m \in 1..n : plan[j][m].company = CompanyOf(j, m)
        /\ \A m \in 1..n - 1 : plan[j][m].person = PersonOf(j, m)
    BY <1>2, <2>2 DEF AsForeseen
  <2>6. PersonRefs(j, n, plan[j][n].company) = {PersonOf(j, n)}
    BY <1>2, <2>2, <2>4, <2>5, PersonRefsAre
  <2>7. plan' = [plan EXCEPT ![j][n].person = PersonOf(j, n)]
    BY <1>9, <2>6 DEF PlanPerson
  <2>8. /\ Len(plan'[j]) = n
        /\ plan'[j][n].company = plan[j][n].company /\ plan'[j][n].person = PersonOf(j, n)
        /\ \A m \in 1..n - 1 : plan'[j][m] = plan[j][m]
    <3>1. plan[j][n] \in PlanRow
      BY <1>2, <2>4, ElementOfSeq
    <3>2. plan'[j] = [plan[j] EXCEPT ![n].person = PersonOf(j, n)]
      BY <1>1, <1>2, <2>7
    <3>3. Len(plan'[j]) = n
      BY <1>2, <3>2
    <3>. QED
      BY <1>2, <2>4, <3>1, <3>2, <3>3 DEF PlanRow
  <2>. SUFFICES ASSUME NEW m \in 1..Len(plan'[j])
                PROVE  /\ plan'[j][m].company = CompanyOf(j, m)'
                       /\ plan'[j][m].person = PersonOf(j, m)'
    BY DEF AsForeseen
  <2>9. CompanyOf(j, m)' = CompanyOf(j, m) /\ PersonOf(j, m)' = PersonOf(j, m)
    BY <1>3, <1>9
  <2>10. CASE m = n
    BY <2>4, <2>5, <2>8, <2>9, <2>10
  <2>11. CASE m \in 1..n - 1
    BY <1>2, <2>5, <2>8, <2>9, <2>11
  <2>. QED
    BY <1>2, <2>8, <2>10, <2>11
<1>. QED
  BY <1>4, <1>5, <1>6, <1>8, <1>9, PlanSteps

\* What the preview of an undisturbed import told.
PlanOf(j) ==
  [n \in 1..Len(Rows(j)) |-> [company |-> CompanyOf(j, n), person |-> PersonOf(j, n)]]
Previewed == {"asked", "tag", "tagging"} \cup PastTag
Shown ==
  \A j \in Imports :
    log = <<>> /\ reqOf[j].gated /\ Rows(j) # <<>> /\ pc[j] \in Previewed
      => told[j].preview = PreviewCounts(PlanOf(j))

LEMMA TellSteps ==
  ASSUME Core, NEW k \in mix, Step(k), reqOf[k].op = "import.run", reqOf[k].gated,
         Rows(k) # <<>>, pc'[k] \in Previewed
  PROVE  \/ told'[k].preview = told[k].preview /\ pc[k] \in Previewed
         \/ /\ told'[k].preview = PreviewCounts(plan'[k])
            /\ pc'[k] = "asked" /\ Len(plan'[k]) = Len(Rows(k))
<1>1. /\ k \in Job /\ pc \in [Job -> Where] /\ Fits(k) /\ plan \in [Job -> Seq(PlanRow)]
      /\ told \in [Job -> [preview : Counts \cup {None}, run : Counts \cup {None}]]
      /\ pc[k] \in Previewed \ {"asked"} => pc[k] \in Working
  BY DEF Core, Types, TypeOK, Previewed, PastTag, Writing, Working
<1>2. Fail(k) => pc'[k] \notin Previewed
  BY <1>1 DEF Fail, Goto, Previewed, PastTag, Writing
<1>3. CASE Preview(k)
  BY <1>1, <1>3 DEF Preview, Goto, Previewed, PastTag, Writing
<1>4. CASE Begin(k)
  BY <1>1, <1>4 DEF Begin, MayRun, Previewed
<1>5. CASE FindTag(k) \/ CreateTag(k)
  BY <1>1, <1>2, <1>5 DEF FindTag, CreateTag, Previewed
<1>6. CASE PlanCompany(k)
  BY <1>1, <1>6 DEF PlanCompany, Goes, Goto, Previewed, PastTag, Writing
<1>7. CASE PlanPerson(k)
  <2>. DEFINE n == Len(plan[k])
  <2>1. n \in 1..Len(Rows(k)) /\ Len(Rows(k)) \in Nat
    BY <1>1, <1>7, RowsType DEF PlanPerson, Fits, Importing
  <2>2. Len(plan'[k]) = n
    <3>1. plan[k] \in Seq(PlanRow) /\ Len(plan[k]) \in Nat
      BY <1>1, LenProperties
    <3>2. \E row : plan'[k] = [plan[k] EXCEPT ![n] = row]
      BY <1>1, <1>7 DEF PlanPerson
    <3>. QED
      BY <3>1, <3>2
  <2>3. CASE n < Len(Rows(k))
    <3>1. told' = told /\ pc'[k] = IF pc[k] = "person" THEN "company" ELSE "preview_company"
      BY <1>1, <1>7, <2>3 DEF PlanPerson, Planned, Goes, Goto
    <3>. QED
      BY <1>7, <3>1 DEF PlanPerson, Previewed, PastTag, Writing
  <2>4. CASE n = Len(Rows(k)) /\ pc[k] = "person"
    <3>1. told' = [told EXCEPT ![k].run = Zero]
      BY <1>7, <2>1, <2>4 DEF PlanPerson, Planned
    <3>. QED
      BY <1>1, <2>4, <3>1 DEF Previewed, PastTag
  <2>5. CASE n = Len(Rows(k)) /\ pc[k] = "preview_person"
    <3>1. told' = [told EXCEPT ![k].preview = PreviewCounts(plan'[k])] /\ pc'[k] = "asked"
      BY <1>1, <1>7, <2>1, <2>5 DEF PlanPerson, Planned, Goes, Goto
    <3>. QED
      BY <1>1, <2>2, <2>5, <3>1
  <2>. QED
    BY <1>7, <2>1, <2>3, <2>4, <2>5 DEF PlanPerson
<1>8. CASE PlanNothing(k)
  BY <1>8 DEF PlanNothing
<1>9. CASE WriteCompany(k)
  BY <1>1, <1>9 DEF WriteCompany, Previewed, PastTag, Writing
<1>10. CASE WritePerson(k)
  BY <1>1, <1>10 DEF WritePerson, Previewed, PastTag, Writing
<1>11. CASE FindLead(k) \/ WriteLead(k)
  BY <1>1, <1>2, <1>11 DEF FindLead, WriteLead, Previewed, PastTag, Writing
<1>12. CASE Commit(k)
  BY <1>1, <1>12 DEF Commit, Goto, Previewed, PastTag, Writing
<1>13. CASE CountPage(k) \/ ReadPage(k) \/ EditRecord(k) \/ Unlink(k)
  BY <1>1, <1>13 DEF CountPage, ReadPage, EditRecord, Unlink, Fits, Edit
<1>. QED
  BY <1>2, <1>3, <1>4, <1>5, <1>6, <1>7, <1>8, <1>9, <1>10, <1>11, <1>12, <1>13
     DEF Step, Refuse, LinkRefused, DeadlockAbort

LEMMA ShownStep ==
  ASSUME Core, Logbook, History, Authors, Foreseen, Shown, NEW k \in mix, Step(k)
  PROVE  Shown'
<1>1. /\ Frame(k) /\ k \in Job /\ mix \subseteq Job /\ mix' = mix
      /\ plan' \in [Job -> Seq(PlanRow)] /\ log \in Seq(Job) /\ Len(log) \in Nat
      /\ began \in [Job -> Nat]
  <2>1. Core'
    BY CoreNext DEF Next
  <2>. QED
    BY <2>1, StepFrame, LenProperties DEF Core, Types, TypeOK, Frame
<1>. SUFFICES ASSUME NEW j \in mix, reqOf[j].op = "import.run", reqOf[j].gated, log' = <<>>,
                     Rows(j) # <<>>, pc'[j] \in Previewed
              PROVE  told'[j].preview = PreviewCounts(PlanOf(j)')
  <2>1. ASSUME NEW j \in mix, log' = <<>>, reqOf[j].gated, Rows(j) # <<>>
        PROVE  Rows(j)' = Rows(j)
    BY <1>1, RowsFixed
  <2>. QED
    BY <1>1, <2>1, RowsFixed DEF Shown, Imports, PreviewCounts, RowsWith, NewRefs
<1>2. log = <<>> /\ j \in Job /\ Importing(j)
  <2>1. log' = log \/ log' = Append(log, k)
    BY <1>1 DEF Frame
  <2>. QED
    BY <1>1, <2>1, AppendProperties DEF Importing
<1>3. began[j] = 0 /\ began'[j] = 0 /\ Len(log) = 0
  BY <1>1, <1>2 DEF History, Frame
<1>4. Undisturbed(j)'
  BY <1>2, <1>3 DEF Undisturbed, Previewed, PastTag, Writing
<1>5. PlanOf(j)' = PlanOf(j)
  <2>1. \A n \in Int : CompanyOf(j, n)' = CompanyOf(j, n) /\ PersonOf(j, n)' = PersonOf(j, n)
    BY <1>2, <1>3, <1>4, PlanKept
  <2>2. Rows(j)' = Rows(j) /\ Len(Rows(j)) \in Nat
    BY <1>2, RowsFixed, RowsType
  <2>. QED
    BY <2>1, <2>2 DEF PlanOf
<1>6. CASE told'[j].preview = told[j].preview /\ pc[j] \in Previewed
  BY <1>2, <1>5, <1>6 DEF Shown, Imports
<1>7. CASE /\ j = k /\ told'[k].preview = PreviewCounts(plan'[k])
           /\ pc'[k] = "asked" /\ Len(plan'[k]) = Len(Rows(k))
  <2>1. AsForeseen(j)'
    BY <1>1, <1>4, <1>7, ForeseenStep DEF Foreseen, Imports
  <2>2. plan'[j] \in Seq(PlanRow) /\ Len(plan'[j]) = Len(Rows(j)) /\ Rows(j)' = Rows(j)
    BY <1>1, <1>2, <1>7, RowsFixed
  <2>3. plan'[j] = PlanOf(j)'
    <3>1. DOMAIN plan'[j] = 1..Len(Rows(j))
      BY <2>2, LenProperties
    <3>2. ASSUME NEW n \in 1..Len(Rows(j))
          PROVE  plan'[j][n] = [company |-> CompanyOf(j, n)', person |-> PersonOf(j, n)']
      <4>1. plan'[j][n] \in PlanRow
        BY <2>2, <3>1, ElementOfSeq
      <4>2. plan'[j][n].company = CompanyOf(j, n)' /\ plan'[j][n].person = PersonOf(j, n)'
        BY <1>7, <2>1, <2>2 DEF AsForeseen
      <4>. QED
        BY <4>1, <4>2 DEF PlanRow
    <3>3. plan'[j] = [n \in 1..Len(Rows(j)) |-> plan'[j][n]]
      BY <2>2, <3>1
    <3>. QED
      BY <2>2, <3>2, <3>3 DEF PlanOf
  <2>. QED
    BY <1>7, <2>3
<1>8. CASE j # k
  BY <1>1, <1>2, <1>6, <1>8 DEF Frame
<1>. QED
  BY <1>1, <1>6, <1>7, <1>8, TellSteps

\* The rows so far that name a record, and the new records among theirs.
Placed(p, what, n) == {m \in 1..n : p[m][what].kind \in {"new", "existing"}}
News(p, what, n) == {p[m][what] : m \in {i \in 1..n : p[i][what].kind = "new"}}

LEMMA NoRowYet ==
  ASSUME NEW p, NEW what
  PROVE  Cardinality(Placed(p, what, 0)) = 0 /\ Cardinality(News(p, what, 0)) = 0
<1>1. Placed(p, what, 0) = {} /\ News(p, what, 0) = {}
  BY DEF Placed, News
<1>. QED
  BY <1>1, FS_EmptySet

LEMMA OneRowMore ==
  ASSUME NEW p, NEW what, NEW n \in Nat
  PROVE  LET ref == p[n + 1][what]
         IN /\ Cardinality(Placed(p, what, n)) \in Nat /\ Cardinality(News(p, what, n)) \in Nat
            /\ Cardinality(Placed(p, what, n + 1))
                 = Cardinality(Placed(p, what, n))
                     + IF ref.kind \in {"new", "existing"} THEN 1 ELSE 0
            /\ Cardinality(News(p, what, n + 1))
                 = Cardinality(News(p, what, n))
                     + IF ref.kind = "new" /\ ref \notin News(p, what, n) THEN 1 ELSE 0
<1>. DEFINE ref == p[n + 1][what]
            named == {i \in 1..n : p[i][what].kind = "new"}
            now == {i \in 1..n + 1 : p[i][what].kind = "new"}
<1>1. IsFiniteSet(1..n) /\ 1..n + 1 = 1..n \cup {n + 1} /\ n + 1 \notin 1..n
  BY FS_Interval
<1>2. IsFiniteSet(Placed(p, what, n))
  <2>1. Placed(p, what, n) \subseteq 1..n
    BY DEF Placed
  <2>. QED
    BY <1>1, <2>1, FS_Subset
<1>3. IsFiniteSet(News(p, what, n))
  <2>1. named \subseteq 1..n
    OBVIOUS
  <2>2. IsFiniteSet(named)
    BY <1>1, <2>1, FS_Subset
  <2>. DEFINE f == [m \in named |-> p[m][what]]
  <2>3. f \in Surjection(named, News(p, what, n))
    BY DEF Surjection, News
  <2>. HIDE DEF named, f
  <2>. QED
    BY <2>2, <2>3, FS_Surjection
<1>4. Placed(p, what, n + 1) = IF ref.kind \in {"new", "existing"}
                               THEN Placed(p, what, n) \cup {n + 1} ELSE Placed(p, what, n)
  BY <1>1 DEF Placed
<1>5. n + 1 \notin Placed(p, what, n)
  BY <1>1 DEF Placed
<1>6. News(p, what, n + 1) = IF ref.kind = "new" THEN News(p, what, n) \cup {ref}
                             ELSE News(p, what, n)
  <2>1. now = IF ref.kind = "new" THEN named \cup {n + 1} ELSE named
    BY <1>1
  <2>2. News(p, what, n + 1) = {p[m][what] : m \in now} /\ News(p, what, n) = {p[m][what] : m \in named}
    BY DEF News
  <2>. HIDE DEF now, named
  <2>. QED
    BY <2>1, <2>2
<1>7. Cardinality(Placed(p, what, n)) \in Nat /\ Cardinality(News(p, what, n)) \in Nat
  BY <1>2, <1>3, FS_CardinalityType
<1>8. Cardinality(Placed(p, what, n) \cup {n + 1}) = Cardinality(Placed(p, what, n)) + 1
  BY <1>2, <1>5, FS_AddElement
<1>9. Cardinality(News(p, what, n) \cup {ref})
        = IF ref \in News(p, what, n) THEN Cardinality(News(p, what, n))
          ELSE Cardinality(News(p, what, n)) + 1
  BY <1>3, FS_AddElement
<1>. HIDE DEF ref
<1>. QED
  BY <1>4, <1>6, <1>7, <1>8, <1>9 DEF ref

\* What an import has told so far of the rows it wrote.
CountedAs(j, p, c, d) ==
  /\ told[j].run \in Counts
  /\ told[j].run.newCompanies = Cardinality(News(p, "company", c))
  /\ told[j].run.companyMatches
       = Cardinality(Placed(p, "company", c)) - Cardinality(News(p, "company", c))
  /\ told[j].run.newPeople = Cardinality(News(p, "person", d))
  /\ told[j].run.peopleMatches
       = Cardinality(Placed(p, "person", d)) - Cardinality(News(p, "person", d))
Counted ==
  \A j \in Imports :
    pc[j] \in Writing \cup {"committing"} /\ Since(j, Edit) =>
      CountedAs(j, plan[j], Len(landed[j]),
                IF pc[j] = "landing" THEN Len(landed[j]) - 1 ELSE Len(landed[j]))

\* How an import's counts go on.
LEMMA RunSteps ==
  ASSUME Core, NEW k \in mix, Step(k), reqOf[k].op = "import.run",
         pc'[k] \in Writing \cup {"committing"}
  PROVE  \/ WriteCompany(k) \/ WritePerson(k)
         \/ /\ pc[k] = "person" /\ pc'[k] = "writing" /\ landed'[k] = <<>>
            /\ told'[k].run = Zero
         \/ /\ pc[k] \in {"finding", "leading"} /\ pc'[k] # "landing"
            /\ Len(landed'[k]) = Len(landed[k]) /\ plan'[k] = plan[k] /\ told'[k] = told[k]
<1>1. /\ k \in Job /\ pc \in [Job -> Where] /\ Fits(k) /\ landed \in [Job -> Seq(LandedRow)]
      /\ told \in [Job -> [preview : Counts \cup {None}, run : Counts \cup {None}]]
      /\ pc[k] \in Working => Rows(k) # <<>>
  BY DEF Core, Types, TypeOK, Fits
<1>2. Fail(k) => pc'[k] \notin Writing \cup {"committing"}
  BY <1>1 DEF Fail, Goto, Writing
<1>3. CASE Preview(k)
  BY <1>1, <1>3 DEF Preview, Goto, Writing
<1>4. CASE Begin(k)
  BY <1>1, <1>4 DEF Begin, Goto, Writing
<1>5. CASE FindTag(k)
  BY <1>1, <1>5 DEF FindTag, AfterTag, Goes, Goto, Writing
<1>6. CASE CreateTag(k)
  BY <1>1, <1>2, <1>6 DEF CreateTag, AfterTag, Goto, Writing
<1>7. CASE PlanCompany(k)
  BY <1>1, <1>7 DEF PlanCompany, Goes, Goto, Writing
<1>8. CASE PlanPerson(k)
  <2>1. pc[k] = "person" /\ pc'[k] = "writing" /\ told' = [told EXCEPT ![k].run = Zero]
    BY <1>1, <1>8 DEF PlanPerson, Planned, Goes, Goto, Writing
  <2>2. landed[k] = <<>> /\ landed' = landed
    BY <1>1, <1>8, <2>1 DEF PlanPerson, Fits, Planning
  <2>. QED
    BY <1>1, <2>1, <2>2
<1>9. CASE PlanNothing(k)
  BY <1>1, <1>2, <1>9 DEF PlanNothing, Goes, Goto, Working, Writing
<1>10. CASE FindLead(k) \/ WriteLead(k)
  <2>1. /\ pc[k] \in {"finding", "leading"}
        /\ landed' = landed \/ \E id : landed' = [landed EXCEPT ![k][Len(landed[k])].lead = id]
        /\ plan' = plan /\ told' = told /\ pc'[k] \in {AfterRow(k), "leading"}
    BY <1>1, <1>2, <1>10 DEF FindLead, WriteLead, Goes, Goto
  <2>2. Len(landed'[k]) = Len(landed[k])
    <3>1. landed[k] \in Seq(LandedRow) /\ Len(landed[k]) \in Nat
      BY <1>1, LenProperties
    <3>2. ASSUME NEW id, landed' = [landed EXCEPT ![k][Len(landed[k])].lead = id]
          PROVE  Len(landed'[k]) = Len(landed[k])
      <4>1. landed'[k] = [landed[k] EXCEPT ![Len(landed[k])].lead = id]
        BY <1>1, <3>2
      <4>. QED
        BY <3>1, <4>1
    <3>. QED
      BY <2>1, <3>2
  <2>. QED
    BY <2>1, <2>2 DEF AfterRow
<1>11. CASE Commit(k)
  BY <1>1, <1>11 DEF Commit, Goto, Writing
<1>12. CASE CountPage(k) \/ ReadPage(k) \/ EditRecord(k) \/ Unlink(k)
  BY <1>1, <1>12 DEF CountPage, ReadPage, EditRecord, Unlink, Fits, Edit
<1>. QED
  BY <1>2, <1>3, <1>4, <1>5, <1>6, <1>7, <1>8, <1>9, <1>10, <1>11, <1>12
     DEF Step, Refuse, LinkRefused, DeadlockAbort

LEMMA RunGrows ==
  ASSUME Core, NEW j \in Job, told[j].run \in Counts
  PROVE  /\ told' = [told EXCEPT ![j].run.newCompanies = @ + 1]
              => told'[j].run = [told[j].run EXCEPT !.newCompanies = @ + 1]
         /\ told' = [told EXCEPT ![j].run.companyMatches = @ + 1]
              => told'[j].run = [told[j].run EXCEPT !.companyMatches = @ + 1]
         /\ told' = [told EXCEPT ![j].run.newPeople = @ + 1]
              => told'[j].run = [told[j].run EXCEPT !.newPeople = @ + 1]
         /\ told' = [told EXCEPT ![j].run.peopleMatches = @ + 1]
              => told'[j].run = [told[j].run EXCEPT !.peopleMatches = @ + 1]
         /\ \A f \in {"newCompanies", "companyMatches", "newPeople", "peopleMatches"} :
              [told[j].run EXCEPT ![f] = @ + 1] \in Counts
<1>1. /\ told \in [Job -> [preview : Counts \cup {None}, run : Counts \cup {None}]]
      /\ told[j] \in [preview : Counts \cup {None}, run : Counts \cup {None}]
  BY DEF Core, Types, TypeOK
<1>. QED
  BY <1>1 DEF Counts

\* A row's company counts as new when no earlier row has it.
LEMMA CompanyCounted ==
  ASSUME Core, NEW j \in mix, reqOf[j].op = "import.run", Aimed(j), Arrived(j),
         WriteCompany(j), NEW n \in Nat, n = Len(landed[j]), NEW p, p = plan[j],
         CountedAs(j, p, n, n)
  PROVE  CountedAs(j, p, n + 1, n)' /\ Len(landed'[j]) = n + 1
<1>1. /\ j \in Job /\ pc[j] = "writing" /\ pc[j] \in Writing /\ landed[j] \in Seq(LandedRow)
      /\ landed \in [Job -> Seq(LandedRow)] /\ told[j].run \in Counts
  BY DEF Core, Types, WriteCompany, Writing, CountedAs
<1>2. /\ RowNow(j) = n + 1 /\ n + 1 \in 1..Len(plan[j]) /\ Len(plan[j]) \in Nat
      /\ DOMAIN landed[j] = 1..n /\ n + 1 \in 1..n + 1
      /\ \A m \in 1..n : m \in 1..Len(plan[j]) /\ m < n + 1
  BY <1>1, RowAt, LenProperties
<1>3. PICK ref : ref = p[n + 1].company
  OBVIOUS
<1>4. /\ ref.kind = "new" => ref.of \in 1..n + 1 /\ plan[j][ref.of].company = ref
      /\ \A m \in 1..n : plan[j][m].company.kind = "new" => plan[j][m].company.of \in 1..m
  BY <1>2, <1>3 DEF Aimed, CompanyFits
<1>5. ref.kind = "new" => (ref \in News(p, "company", n) <=> ref.of \in 1..n)
  <2>1. ASSUME ref.kind = "new", ref \in News(p, "company", n)
        PROVE  ref.of \in 1..n
    <3>1. PICK m \in 1..n : ref = p[m].company
      BY <2>1 DEF News
    <3>2. ref.of \in 1..m
      BY <1>4, <2>1, <3>1
    <3>. QED
      BY <3>1, <3>2
  <2>2. ASSUME ref.kind = "new", ref.of \in 1..n
        PROVE  ref \in News(p, "company", n)
    BY <1>4, <2>2 DEF News
  <2>. QED
    BY <2>1, <2>2
<1>6. \A m \in 1..n : plan[j][m].company.kind # "none" => landed[j][m].company # None
  BY DEF Arrived, CompanyLanded
<1>7. ref.kind \in {"none", "existing", "new"} /\ ref.of \in Nat
  <2>1. plan[j] \in Seq(PlanRow)
    BY <1>1 DEF Core, Types
  <2>2. plan[j][n + 1] \in PlanRow
    BY <1>2, <2>1, ElementOfSeq
  <2>. QED
    BY <1>3, <2>2 DEF PlanRow, Ref
<1>8. Made(j, ref, "company") = IF ref.of \in 1..n THEN landed[j][ref.of].company ELSE None
  BY <1>2 DEF Made
<1>9. ref.kind = "new" => (Made(j, ref, "company") = None <=> ref \notin News(p, "company", n))
  BY <1>4, <1>5, <1>6, <1>8
<1>10. /\ Cardinality(Placed(p, "company", n)) \in Nat /\ Cardinality(News(p, "company", n)) \in Nat
       /\ Cardinality(Placed(p, "company", n + 1))
            = Cardinality(Placed(p, "company", n))
                + IF ref.kind \in {"new", "existing"} THEN 1 ELSE 0
       /\ Cardinality(News(p, "company", n + 1))
            = Cardinality(News(p, "company", n))
                + IF ref.kind = "new" /\ ref \notin News(p, "company", n) THEN 1 ELSE 0
  BY <1>3, OneRowMore
<1>11. \/ ref.kind = "none" /\ told' = told
       \/ /\ ref.kind = "existing" \/ (ref.kind = "new" /\ Made(j, ref, "company") # None)
          /\ told' = [told EXCEPT ![j].run.companyMatches = @ + 1]
       \/ /\ ref.kind = "new" /\ Made(j, ref, "company") = None
          /\ told' = [told EXCEPT ![j].run.newCompanies = @ + 1]
  BY <1>2, <1>3, <1>7, Zenon DEF WriteCompany
<1>12. Len(landed'[j]) = n + 1
  <2>1. \E at : landed'[j] = Append(landed[j], at)
    BY <1>1, Zenon DEF WriteCompany, Land
  <2>2. ASSUME NEW at, landed'[j] = Append(landed[j], at)
        PROVE  Len(landed'[j]) = n + 1
    <3>1. landed[j] \in Seq(LandedRow \cup {at}) /\ at \in LandedRow \cup {at}
      BY <1>1
    <3>. QED
      BY <2>2, <3>1, AppendProperties
  <2>. QED
    BY <2>1, <2>2
<1>. HIDE DEF Made
<1>13. CASE ref.kind = "none" /\ told' = told
  BY <1>10, <1>12, <1>13 DEF CountedAs
<1>14. CASE /\ ref.kind = "existing" \/ (ref.kind = "new" /\ Made(j, ref, "company") # None)
            /\ told' = [told EXCEPT ![j].run.companyMatches = @ + 1]
  <2>1. told'[j].run = [told[j].run EXCEPT !.companyMatches = @ + 1] /\ told'[j].run \in Counts
    BY <1>1, <1>14, RunGrows
  <2>. QED
    BY <1>1, <1>9, <1>10, <1>12, <1>14, <2>1 DEF CountedAs, Counts
<1>15. CASE /\ ref.kind = "new" /\ Made(j, ref, "company") = None
            /\ told' = [told EXCEPT ![j].run.newCompanies = @ + 1]
  <2>1. told'[j].run = [told[j].run EXCEPT !.newCompanies = @ + 1] /\ told'[j].run \in Counts
    BY <1>1, <1>15, RunGrows
  <2>. QED
    BY <1>1, <1>9, <1>10, <1>12, <1>15, <2>1 DEF CountedAs, Counts
<1>. QED
  BY <1>11, <1>13, <1>14, <1>15

LEMMA PersonCounted ==
  ASSUME Core, NEW j \in mix, reqOf[j].op = "import.run", Aimed(j), Arrived(j),
         WritePerson(j), NEW n \in Nat, n + 1 = Len(landed[j]), NEW p, p = plan[j],
         CountedAs(j, p, n + 1, n)
  PROVE  CountedAs(j, p, n + 1, n + 1)' /\ Len(landed'[j]) = n + 1
<1>1. /\ j \in Job /\ pc[j] = "landing" /\ pc[j] \in Writing /\ landed[j] \in Seq(LandedRow)
      /\ landed \in [Job -> Seq(LandedRow)] /\ told[j].run \in Counts
  BY DEF Core, Types, WritePerson, Writing, CountedAs
<1>2. /\ n + 1 \in 1..Len(plan[j]) /\ Len(plan[j]) \in Nat /\ n + 1 \in 1..Len(landed[j])
      /\ DOMAIN landed[j] = 1..n + 1 /\ n + 1 \in 1..n + 1
      /\ \A m \in 1..n : m \in 1..Len(plan[j]) /\ m < n + 1 /\ m \in 1..Len(landed[j])
      /\ \A m \in 1..n + 1 : m \in 1..n \/ m = n + 1
  <2>1. DOMAIN landed[j] = 1..Len(landed[j])
    BY <1>1, LenProperties
  <2>. QED
    BY <1>1, <2>1, RowAt
<1>3. PICK ref : ref = p[n + 1].person
  OBVIOUS
<1>4. /\ ref.kind = "new" => ref.of \in 1..n + 1 /\ plan[j][ref.of].person = ref
      /\ \A m \in 1..n : plan[j][m].person.kind = "new" => plan[j][m].person.of \in 1..m
  BY <1>1, <1>2, <1>3 DEF Aimed, PersonFits
<1>5. ref.kind = "new" => (ref \in News(p, "person", n) <=> ref.of \in 1..n)
  <2>1. ASSUME ref.kind = "new", ref \in News(p, "person", n)
        PROVE  ref.of \in 1..n
    <3>1. PICK m \in 1..n : ref = p[m].person
      BY <2>1 DEF News
    <3>2. ref.of \in 1..m
      BY <1>4, <2>1, <3>1
    <3>. QED
      BY <3>1, <3>2
  <2>2. ASSUME ref.kind = "new", ref.of \in 1..n
        PROVE  ref \in News(p, "person", n)
    BY <1>4, <2>2 DEF News
  <2>. QED
    BY <2>1, <2>2
<1>6. /\ \A m \in 1..n : plan[j][m].person.kind # "none" => landed[j][m].person # None
      /\ landed[j][n + 1].person = None
  BY <1>1, <1>2 DEF Arrived, PersonLanded
<1>7. ref.kind \in {"none", "existing", "new"} /\ ref.of \in Nat
  <2>1. plan[j] \in Seq(PlanRow)
    BY <1>1 DEF Core, Types
  <2>2. plan[j][n + 1] \in PlanRow
    BY <1>2, <2>1, ElementOfSeq
  <2>. QED
    BY <1>3, <2>2 DEF PlanRow, Ref
<1>8. Made(j, ref, "person") = IF ref.of \in 1..n + 1 THEN landed[j][ref.of].person ELSE None
  BY <1>2 DEF Made
<1>9. ref.kind = "new" => (Made(j, ref, "person") = None <=> ref \notin News(p, "person", n))
  BY <1>2, <1>4, <1>5, <1>6, <1>8
<1>10. /\ Cardinality(Placed(p, "person", n)) \in Nat /\ Cardinality(News(p, "person", n)) \in Nat
       /\ Cardinality(Placed(p, "person", n + 1))
            = Cardinality(Placed(p, "person", n))
                + IF ref.kind \in {"new", "existing"} THEN 1 ELSE 0
       /\ Cardinality(News(p, "person", n + 1))
            = Cardinality(News(p, "person", n))
                + IF ref.kind = "new" /\ ref \notin News(p, "person", n) THEN 1 ELSE 0
  BY <1>3, OneRowMore
<1>11. \/ ref.kind = "none" /\ told' = told
       \/ /\ ref.kind = "existing" \/ (ref.kind = "new" /\ Made(j, ref, "person") # None)
          /\ told' = [told EXCEPT ![j].run.peopleMatches = @ + 1]
       \/ /\ ref.kind = "new" /\ Made(j, ref, "person") = None
          /\ told' = [told EXCEPT ![j].run.newPeople = @ + 1]
  BY <1>3, <1>7, Zenon DEF WritePerson
<1>12. Len(landed'[j]) = n + 1
  <2>1. landed' = landed \/ \E id : landed' = [landed EXCEPT ![j][Len(landed[j])].person = id]
    BY Zenon DEF WritePerson
  <2>2. ASSUME NEW id, landed' = [landed EXCEPT ![j][Len(landed[j])].person = id]
        PROVE  Len(landed'[j]) = n + 1
    <3>1. landed'[j] = [landed[j] EXCEPT ![Len(landed[j])].person = id]
      BY <1>1, <2>2
    <3>. QED
      BY <1>1, <3>1
  <2>. QED
    BY <2>1, <2>2
<1>. HIDE DEF Made
<1>13. CASE ref.kind = "none" /\ told' = told
  BY <1>10, <1>12, <1>13 DEF CountedAs
<1>14. CASE /\ ref.kind = "existing" \/ (ref.kind = "new" /\ Made(j, ref, "person") # None)
            /\ told' = [told EXCEPT ![j].run.peopleMatches = @ + 1]
  <2>1. told'[j].run = [told[j].run EXCEPT !.peopleMatches = @ + 1] /\ told'[j].run \in Counts
    BY <1>1, <1>14, RunGrows
  <2>. QED
    BY <1>1, <1>9, <1>10, <1>12, <1>14, <2>1 DEF CountedAs, Counts
<1>15. CASE /\ ref.kind = "new" /\ Made(j, ref, "person") = None
            /\ told' = [told EXCEPT ![j].run.newPeople = @ + 1]
  <2>1. told'[j].run = [told[j].run EXCEPT !.newPeople = @ + 1] /\ told'[j].run \in Counts
    BY <1>1, <1>15, RunGrows
  <2>. QED
    BY <1>1, <1>9, <1>10, <1>12, <1>15, <2>1 DEF CountedAs, Counts
<1>. QED
  BY <1>11, <1>13, <1>14, <1>15

LEMMA CountedStep ==
  ASSUME Core, History, Landings, Counted, NEW k \in mix, Step(k)
  PROVE  Counted'
<1>1. /\ Frame(k) /\ k \in Job /\ mix \subseteq Job /\ mix' = mix /\ pc \in [Job -> Where]
  BY StepFrame DEF Core, Types, Frame
<1>. SUFFICES ASSUME NEW j \in mix, reqOf[j].op = "import.run",
                     pc'[j] \in Writing \cup {"committing"}, Since(j, Edit)'
              PROVE  CountedAs(j, plan[j], Len(landed[j]),
                               IF pc[j] = "landing" THEN Len(landed[j]) - 1
                               ELSE Len(landed[j]))'
  BY <1>1 DEF Counted, Imports
<1>2. j \in Job /\ Len(landed[j]) \in Nat /\ plan[j] \in Seq(PlanRow)
  BY <1>1, RowNumbers DEF Core, Types
<1>3. ASSUME pc[j] \in Writing, began'[j] = began[j]
      PROVE  /\ Aimed(j) /\ Arrived(j)
             /\ CountedAs(j, plan[j], Len(landed[j]),
                          IF pc[j] = "landing" THEN Len(landed[j]) - 1 ELSE Len(landed[j]))
  <2>1. Since(j, Edit)
    BY <1>2, <1>3, SinceStep
  <2>. QED
    BY <1>3, <2>1 DEF Landings, Counted, Imports
<1>4. CASE j # k
  <2>1. /\ pc'[j] = pc[j] /\ plan'[j] = plan[j] /\ landed'[j] = landed[j] /\ told'[j] = told[j]
        /\ began'[j] = began[j]
    BY <1>1, <1>2, <1>4 DEF Frame
  <2>2. Since(j, Edit)
    BY <1>2, <2>1, SinceStep
  <2>. QED
    BY <1>2, <2>1, <2>2 DEF Counted, Imports, CountedAs
<1>5. CASE j = k /\ WriteCompany(j)
  <2>1. /\ pc[j] = "writing" /\ pc'[j] = "landing" /\ plan'[j] = plan[j] /\ began' = began
        /\ pc[j] \in Writing
    BY <1>1, <1>2, <1>5 DEF WriteCompany, Goto, history, Writing
  <2>2. PICK n \in Nat : n = Len(landed[j])
    BY <1>2
  <2>3. PICK p : p = plan[j]
    OBVIOUS
  <2>4. CountedAs(j, p, n + 1, n)' /\ Len(landed'[j]) = n + 1
    BY <1>3, <1>5, <2>1, <2>2, <2>3, CompanyCounted
  <2>5. Len(landed'[j]) - 1 = n
    BY <2>4
  <2>. QED
    BY <2>1, <2>3, <2>4, <2>5 DEF CountedAs
<1>6. CASE j = k /\ WritePerson(j)
  <2>1. /\ pc[j] = "landing" /\ pc'[j] = "finding" /\ plan'[j] = plan[j] /\ began' = began
        /\ pc[j] \in Writing
    BY <1>1, <1>2, <1>6 DEF WritePerson, Goto, Goes, history, Writing
  <2>2. Len(landed[j]) - 1 \in Nat
    BY <1>2, <2>1, RowAt
  <2>3. PICK n \in Nat : n = Len(landed[j]) - 1
    BY <2>2
  <2>4. PICK p : p = plan[j]
    OBVIOUS
  <2>5. n + 1 = Len(landed[j])
    BY <1>2, <2>3
  <2>6. CountedAs(j, p, n + 1, n)
    BY <1>3, <2>1, <2>3, <2>4, <2>5
  <2>7. CountedAs(j, p, n + 1, n + 1)' /\ Len(landed'[j]) = n + 1
    BY <1>3, <1>6, <2>1, <2>4, <2>5, <2>6, PersonCounted
  <2>. QED
    BY <2>1, <2>4, <2>7 DEF CountedAs
<1>7. CASE /\ j = k /\ pc'[k] = "writing" /\ landed'[k] = <<>> /\ told'[k].run = Zero
  <2>1. Len(landed'[j]) = 0 /\ Zero \in Counts
    BY <1>7 DEF Zero, Counts
  <2>. QED
    BY <1>7, <2>1, NoRowYet DEF CountedAs, Zero
<1>8. CASE /\ j = k /\ pc[k] \in {"finding", "leading"} /\ pc'[k] # "landing"
           /\ Len(landed'[k]) = Len(landed[k]) /\ plan'[k] = plan[k] /\ told'[k] = told[k]
  <2>1. began' = began /\ pc[j] \in Writing
    <3>1. Works(k) \/ Logs(k) \/ Closes(k)
      BY <1>8, StepPace DEF Previews, Begins
    <3>. QED
      BY <1>8, <3>1 DEF Works, Logs, Closes, Writing
  <2>. QED
    BY <1>3, <1>8, <2>1 DEF CountedAs
<1>. QED
  BY <1>4, <1>5, <1>6, <1>7, <1>8, RunSteps

\* What an import that had it as it was foreseen tells in the end.
LEMMA ToldAlike ==
  ASSUME Core, Logbook, History, Foreseen, Shown, Counted,
         NEW j \in Imports, pc[j] = "committing", reqOf[j].gated, log = <<>>
  PROVE  told[j].preview = told[j].run
<1>1. /\ j \in mix /\ j \in Job /\ reqOf[j].op = "import.run" /\ Importing(j) /\ Rows(j) # <<>>
      /\ plan[j] \in Seq(PlanRow) /\ Len(plan[j]) = Len(Rows(j)) /\ Len(landed[j]) = Len(Rows(j))
      /\ began[j] = 0 /\ Len(log) = 0
  BY DEF Core, Types, Fits, Imports, Importing, Working, History
<1>2. told[j].preview = PreviewCounts(PlanOf(j))
  BY <1>1 DEF Shown, Previewed, PastTag
<1>3. AsForeseen(j)
  BY <1>1 DEF Foreseen, Undisturbed
<1>4. plan[j] = PlanOf(j)
  <2>1. DOMAIN plan[j] = 1..Len(Rows(j))
    BY <1>1, LenProperties
  <2>2. ASSUME NEW n \in 1..Len(Rows(j))
        PROVE  plan[j][n] = [company |-> CompanyOf(j, n), person |-> PersonOf(j, n)]
    <3>1. plan[j][n] \in PlanRow
      BY <1>1, <2>1, ElementOfSeq
    <3>2. plan[j][n].company = CompanyOf(j, n) /\ plan[j][n].person = PersonOf(j, n)
      BY <1>1, <1>3 DEF AsForeseen
    <3>. QED
      BY <3>1, <3>2 DEF PlanRow
  <2>3. plan[j] = [n \in 1..Len(Rows(j)) |-> plan[j][n]]
    BY <1>1, <2>1
  <2>. QED
    BY <2>2, <2>3 DEF PlanOf
<1>5. CountedAs(j, plan[j], Len(plan[j]), Len(plan[j]))
  <2>1. Since(j, Edit)
    BY <1>1 DEF Since, Between
  <2>. QED
    BY <1>1, <2>1 DEF Counted
<1>6. DOMAIN plan[j] = 1..Len(plan[j])
  BY <1>1, LenProperties
<1>7. ASSUME NEW what
      PROVE  /\ NewRefs(plan[j], what) = News(plan[j], what, Len(plan[j]))
             /\ RowsWith(plan[j], what, {"new", "existing"}) = Placed(plan[j], what, Len(plan[j]))
  BY <1>6 DEF NewRefs, RowsWith, News, Placed
<1>8. told[j].run = PreviewCounts(plan[j])
  BY <1>5, <1>7 DEF CountedAs, Counts, PreviewCounts
<1>. QED
  BY <1>2, <1>4, <1>8

LEMMA TellsStep ==
  ASSUME Core, Logbook, History, Foreseen, Shown, Counted, PreviewTells,
         NEW k \in mix, Step(k)
  PROVE  PreviewTells'
<1>1. /\ Frame(k) /\ k \in Job /\ mix \subseteq Job /\ mix' = mix /\ pc \in [Job -> Where]
      /\ ended \in [Job -> Nat] /\ log \in Seq(Job) /\ Len(log) \in Nat
  BY StepFrame, LenProperties DEF Core, Types, TypeOK, Frame
<1>. SUFFICES ASSUME NEW j \in mix, reqOf[j].op = "import.run",
                     pc'[j] = "ok", reqOf[j].gated, ended'[j] = 1
              PROVE  told'[j].preview = told'[j].run
  BY <1>1 DEF PreviewTells, Imports
<1>2. CASE j # k
  BY <1>1, <1>2 DEF Frame, PreviewTells, Imports
<1>3. CASE j = k
  <2>1. Logs(k)
    BY <1>3, StepPace DEF Previews, Begins, Works, Logs, Closes, Working, Previewing
  <2>2. pc[k] = "committing" /\ Len(log) = 0
    BY <1>1, <1>3, <2>1 DEF Logs, Edit
  <2>3. told' = told
    <3>1. Commit(k)
      BY <1>1, <1>3, <2>2
         DEF Step, Preview, Refuse, MayRun, Begin, FindTag, CreateTag, PlanCompany, PlanPerson,
             PlanNothing, WriteCompany, WritePerson, LinkRefused, FindLead, WriteLead, CountPage,
             ReadPage, DeadlockAbort, Fail, Goto, EditRecord, Unlink
    <3>. QED
      BY <3>1 DEF Commit, locals
  <2>4. log = <<>>
    BY <1>1, <2>2, EmptySeq
  <2>. QED
    BY <1>3, <2>2, <2>3, <2>4, ToldAlike DEF Imports
<1>. QED
  BY <1>2, <1>3

Telling == Logbook /\ Solo /\ Authors /\ Foreseen /\ Shown /\ Counted /\ PreviewTells

LEMMA TellingInit == Init => Telling
<1>. SUFFICES ASSUME Init PROVE Telling
  OBVIOUS
<1>1. pc = [j \in Job |-> "idle"] /\ mix \subseteq Job
  BY TransferAssumption DEF Init
<1>2. Foreseen /\ Shown /\ Counted /\ PreviewTells
  BY <1>1 DEF Foreseen, Shown, Counted, PreviewTells, Imports, Planning, Writing, Previewed, PastTag
<1>. QED
  BY <1>2, LogbookInit, AuthorsInit DEF Telling

LEMMA TellingNext == Core /\ History /\ Landings /\ Telling /\ [Next]_vars => Telling'
<1>. SUFFICES ASSUME Core, History, Landings, Telling, [Next]_vars
              PROVE  Telling'
  OBVIOUS
<1>1. ASSUME NEW k \in mix, Step(k)
      PROVE  Telling'
  BY <1>1, LogbookStep, AuthorsStep, ForeseenStep, ShownStep, CountedStep, TellsStep DEF Telling
<1>2. CASE UNCHANGED vars
  <2>1. /\ store' = store /\ order' = order /\ mix' = mix /\ company' = company
        /\ person' = person /\ lead' = lead /\ tag' = tag /\ link' = link /\ pc' = pc
        /\ plan' = plan /\ landed' = landed /\ told' = told /\ log' = log /\ began' = began
        /\ ended' = ended
    BY <1>2 DEF vars, tables, locals, history
  <2>2. Logbook' /\ Solo'
    BY <2>1 DEF Telling, Logbook, Solo, Open
  <2>3. Authors'
    BY <2>1 DEF Telling, Authors, WrittenIn, Labelled
  <2>4. ASSUME NEW j \in Job, NEW n \in Int
        PROVE  CompanyOf(j, n)' = CompanyOf(j, n) /\ PersonOf(j, n)' = PersonOf(j, n)
    <3>1. /\ OldIds(j, company)' = OldIds(j, company) /\ OldIds(j, person)' = OldIds(j, person)
          /\ \A ids : Oldest(company, ids)' = Oldest(company, ids)
          /\ \A ids : Oldest(person, ids)' = Oldest(person, ids)
          /\ \A id : EmployersOf(id)' = EmployersOf(id)
      BY <2>1 DEF OldIds, OldIn, Oldest, Older, EmployersOf
    <3>2. \A m : CompanyOf(j, m)' = CompanyOf(j, m)
      BY <2>1, <3>1, CompanyOfKept
    <3>. QED
      BY <2>1, <3>1, <3>2, PersonOfKept
  <2>5. Foreseen'
    <3>. SUFFICES ASSUME NEW j \in Imports, AsForeseen(j)
                  PROVE  AsForeseen(j)'
      BY <2>1 DEF Telling, Foreseen, Imports, Undisturbed
    <3>. QED
      BY <2>1, <2>4, RowNumbers DEF AsForeseen, Imports, Core, Types
  <2>6. Shown'
    <3>. SUFFICES ASSUME NEW j \in Imports
                  PROVE  Rows(j)' = Rows(j) /\ PreviewCounts(PlanOf(j))' = PreviewCounts(PlanOf(j))
      BY <2>1 DEF Telling, Shown, Imports
    <3>1. j \in Job /\ Importing(j)
      BY DEF Imports, Importing, Core, Types
    <3>2. Rows(j)' = Rows(j) /\ Len(Rows(j)) \in Nat
      BY <3>1, RowsFixed, RowsType
    <3>3. PlanOf(j)' = PlanOf(j)
      BY <2>4, <3>1, <3>2 DEF PlanOf
    <3>. QED
      BY <3>2, <3>3 DEF PreviewCounts, RowsWith, NewRefs
  <2>7. Counted' /\ PreviewTells'
    BY <2>1 DEF Telling, Counted, CountedAs, Since, Between, PreviewTells, Imports
  <2>. QED
    BY <2>2, <2>3, <2>5, <2>6, <2>7 DEF Telling
<1>. QED
  BY <1>1, <1>2 DEF Next

\* An import does what its preview told when nothing was committed since the
\* preview began ("the approver sees exactly what the import will do",
\* data-ops.ts:125).
THEOREM PreviewTellsHolds == Spec => []PreviewTells
<1>1. Telling => PreviewTells
  BY DEF Telling
<1>. QED
  BY <1>1, CoreHolds, CoreInit, CoreNext, ExportsInit, ExportsNext, LandingsInit, LandingsNext,
     TellingInit, TellingNext, PTL DEF Spec
=============================================================================
