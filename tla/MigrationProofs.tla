--------------------------- MODULE MigrationProofs ---------------------------
(***************************************************************************)
(* Proofs about Migration: the connection and the file keep their types,   *)
(* no sequence of commands, kills and failures loses or doubles a result,  *)
(* and commands land on their target.  The second rests on the order of    *)
(* the statements: the column is dropped right after its rows were copied, *)
(* the table right after they were restored, and until the next commit     *)
(* both are in one transaction.                                            *)
(***************************************************************************)
EXTENDS Migration, SequenceTheorems, TLAPS

Statements ==
  [does: {"create", "drop"}, what: Artefacts] \cup [does: {"stamp"}, what: Stamps]
    \cup {Copy, Restore, EndOfRevision, Close}

Copies(s) == s.does = "copy"
Restores(s) == s.does = "restore"
Commits(s) == s.does = "commit"
DropsColumn(s) == s.does = "drop" /\ s.what = "result_json"
DropsTable(s) == s.does = "drop" /\ s.what = "task_results"
CreatesTasks(s) == s.does = "create" /\ s.what = "tasks"

(* Statements that must not be executed while task_results has rows.       *)
Leaves(s) == \/ s.does = "drop" /\ s.what = "tasks"
             \/ s.does = "stamp" /\ s.what # "v3_split_results"

(* The place of each result is given up right after it has got another,    *)
(* what is committed was stamped, and tasks is created before all else.    *)
Paired(seq) ==
  \A i \in 1 .. Len(seq) - 1 :
    /\ DropsColumn(seq[i + 1]) <=> Copies(seq[i])
    /\ DropsTable(seq[i + 1]) <=> Restores(seq[i])
    /\ Commits(seq[i + 1]) => seq[i].does = "stamp"
    /\ ~CreatesTasks(seq[i + 1])

(* After the rows were copied the script does not leave v3 again.          *)
CopiesLast(seq) ==
  \A i, j \in 1 .. Len(seq) : i < j /\ Copies(seq[i]) => ~Leaves(seq[j])

(* Where the script leaves v3 the table is empty or has been dropped.      *)
Cleared(seq, rows) ==
  \A i \in 1 .. Len(seq) :
    Leaves(seq[i]) => rows = {} \/ \E j \in 1 .. i - 1 : DropsTable(seq[j])

(* The statements left to execute.                                         *)
Agenda ==
  /\ todo \in Seq(Statements)
  /\ Paired(todo)
  /\ CopiesLast(todo)
  /\ Cleared(todo, view.split)
  /\ ~Idle => todo[Len(todo)].does = "close"

(* All results, and no others, are in a database that has tasks.           *)
Total(db) == db.inline \cup db.split = IF "tasks" \in db.schema THEN written ELSE {}

OnDisk ==
  /\ Total(disk)
  /\ "tasks" \notin disk.schema => written = {}
  /\ disk.inline \cap disk.split = {}
  /\ disk.stamp \in {"v3_split_results", "head"} \/ disk.split = {}

(* What the connection sees when it is about to execute a statement.       *)
InView ==
  /\ Total(view)
  /\ ~Idle =>
       /\ DropsColumn(Head(todo)) => opened /\ view.inline \subseteq view.split
       /\ DropsTable(Head(todo)) => opened /\ view.split \subseteq view.inline
       /\ ~DropsColumn(Head(todo)) /\ ~DropsTable(Head(todo)) => view.inline \cap view.split = {}
       /\ CreatesTasks(Head(todo)) => ~opened
       /\ Commits(Head(todo)) => view.stamp \in {"v3_split_results", "head"} \/ view.split = {}

IInv == TypeOK /\ Agenda /\ OnDisk /\ InView
------------------------------------------------------------------------------
(* The scripts.                                                            *)

(* A sequence of statements that may follow, or be followed by, another.   *)
Block(seq) ==
  /\ seq \in Seq(Statements) /\ Len(seq) \in Nat \ {0}
  /\ Paired(seq)
  /\ ~Copies(seq[Len(seq)]) /\ ~Restores(seq[Len(seq)])
  /\ ~DropsColumn(seq[1]) /\ ~DropsTable(seq[1]) /\ ~Commits(seq[1])

CopiesNothing(seq) == \A i \in 1 .. Len(seq) : ~Copies(seq[i])
StaysInV3(seq) == \A i \in 1 .. Len(seq) : ~Leaves(seq[i])

(* Blocks can be joined if the second does not create the tables.          *)
LEMMA JoinedBlocks ==
  ASSUME NEW a, NEW b, Block(a), Block(b), ~CreatesTasks(b[1])
  PROVE  /\ Block(a \o b)
         /\ CopiesNothing(a) /\ CopiesNothing(b) => CopiesNothing(a \o b)
         /\ CopiesNothing(a) /\ CopiesLast(b) => CopiesLast(a \o b)
         /\ CopiesLast(a) /\ StaysInV3(b) => CopiesLast(a \o b)
         /\ (a \o b)[Len(a \o b)] = b[Len(b)]
         /\ Len(a \o b) >= Len(a) /\ \A i \in 1 .. Len(a) : (a \o b)[i] = a[i]
<1> DEFINE c == a \o b
<1>1. a \in Seq(Statements) /\ b \in Seq(Statements) /\ Len(a) \in Nat \ {0} /\ Len(b) \in Nat \ {0}
  BY DEF Block
<1>2. /\ c \in Seq(Statements) /\ Len(c) = Len(a) + Len(b)
      /\ \A i \in 1 .. Len(c) : c[i] = IF i <= Len(a) THEN a[i] ELSE b[i - Len(a)]
  BY <1>1
<1> HIDE DEF c
<1>3. Paired(c)
  <2> SUFFICES ASSUME NEW i \in 1 .. Len(c) - 1
               PROVE  /\ DropsColumn(c[i + 1]) <=> Copies(c[i])
                      /\ DropsTable(c[i + 1]) <=> Restores(c[i])
                      /\ Commits(c[i + 1]) => c[i].does = "stamp"
                      /\ ~CreatesTasks(c[i + 1])
    BY DEF Paired
  <2>1. CASE i < Len(a)
    <3>1. i \in 1 .. Len(a) - 1 /\ c[i] = a[i] /\ c[i + 1] = a[i + 1]
      BY <1>1, <1>2, <2>1
    <3> QED
      BY <3>1 DEF Block, Paired
  <2>2. CASE i = Len(a)
    <3>1. c[i] = a[Len(a)] /\ c[i + 1] = b[1]
      BY <1>1, <1>2, <2>2
    <3> QED
      BY <3>1 DEF Block
  <2>3. CASE i > Len(a)
    <3> DEFINE k == i - Len(a)
    <3>1. k \in 1 .. Len(b) - 1 /\ c[i] = b[k] /\ c[i + 1] = b[k + 1]
      BY <1>1, <1>2, <2>3
    <3> HIDE DEF k
    <3> QED
      BY <3>1 DEF Block, Paired
  <2> QED
    BY <1>1, <1>2, <2>1, <2>2, <2>3
<1>4. c[1] = a[1] /\ c[Len(c)] = b[Len(b)]
  BY <1>1, <1>2
<1>5. Block(c)
  BY <1>1, <1>2, <1>3, <1>4 DEF Block
<1>6. \A i \in 1 .. Len(c) : \/ i \in 1 .. Len(a) /\ c[i] = a[i]
                             \/ i > Len(a) /\ i - Len(a) \in 1 .. Len(b) /\ c[i] = b[i - Len(a)]
  BY <1>1, <1>2
<1>7. CopiesNothing(a) /\ CopiesNothing(b) => CopiesNothing(c)
  BY <1>6 DEF CopiesNothing
<1>8. CopiesNothing(a) /\ CopiesLast(b) => CopiesLast(c)
  <2> SUFFICES ASSUME CopiesNothing(a), CopiesLast(b),
                      NEW i \in 1 .. Len(c), NEW j \in 1 .. Len(c), i < j, Copies(c[i])
               PROVE  ~Leaves(c[j])
    BY DEF CopiesLast
  <2>1. i > Len(a) /\ i - Len(a) \in 1 .. Len(b) /\ c[i] = b[i - Len(a)]
    BY <1>6 DEF CopiesNothing
  <2>2. j - Len(a) \in 1 .. Len(b) /\ c[j] = b[j - Len(a)] /\ i - Len(a) < j - Len(a)
    BY <1>1, <1>2, <2>1
  <2> QED
    BY <2>1, <2>2 DEF CopiesLast
<1>9. CopiesLast(a) /\ StaysInV3(b) => CopiesLast(c)
  <2> SUFFICES ASSUME CopiesLast(a), StaysInV3(b),
                      NEW i \in 1 .. Len(c), NEW j \in 1 .. Len(c), i < j, Copies(c[i])
               PROVE  ~Leaves(c[j])
    BY DEF CopiesLast
  <2>1. CASE j \in 1 .. Len(a)
    <3>1. i \in 1 .. Len(a) /\ c[i] = a[i] /\ c[j] = a[j]
      BY <1>1, <1>2, <2>1
    <3> QED
      BY <2>1, <3>1 DEF CopiesLast
  <2>2. CASE j \notin 1 .. Len(a)
    BY <1>6, <2>2 DEF StaysInV3
  <2> QED
    BY <2>1, <2>2
<1>10. Len(c) >= Len(a) /\ \A i \in 1 .. Len(a) : c[i] = a[i]
  BY <1>1, <1>2
<1> QED
  BY <1>4, <1>5, <1>7, <1>8, <1>9, <1>10 DEF c

LEMMA LastCopies ==
  ASSUME NEW seq, CopiesNothing(seq) \/ StaysInV3(seq)
  PROVE  CopiesLast(seq)
BY DEF CopiesNothing, StaysInV3, CopiesLast

(* The five statements of one revision are a block if its own three are    *)
(* paired.                                                                 *)
LEMMA OneRevision ==
  ASSUME NEW x \in Statements, NEW y \in Statements, NEW z \in Statements, NEW v \in Stamps,
         ~DropsColumn(x), ~DropsTable(x),
         DropsColumn(y) <=> Copies(x), DropsTable(y) <=> Restores(x),
         DropsColumn(z) <=> Copies(y), DropsTable(z) <=> Restores(y),
         ~Copies(z), ~Restores(z), ~CreatesTasks(y), ~CreatesTasks(z),
         ~Commits(x), ~Commits(y), ~Commits(z)
  PROVE  LET r == Revision(<<x, y, z>>, v) IN
         /\ Block(r) /\ Len(r) = 5
         /\ r[1] = x /\ r[2] = y /\ r[3] = z
         /\ ~Copies(x) /\ ~Copies(y) => CopiesNothing(r)
         /\ ~Leaves(x) /\ ~Leaves(y) /\ ~Leaves(z) /\ v = "v3_split_results" => StaysInV3(r)
<1> DEFINE a == <<x, y, z>>
           b == <<Stamp(v), EndOfRevision>>
           r == a \o b
<1>1. Stamp(v) \in Statements /\ EndOfRevision \in Statements
  BY DEF Stamp, Statements
<1>2. /\ a \in Seq(Statements) /\ Len(a) = 3 /\ a[1] = x /\ a[2] = y /\ a[3] = z
      /\ b \in Seq(Statements) /\ Len(b) = 2 /\ b[1] = Stamp(v) /\ b[2] = EndOfRevision
  BY <1>1
<1>3. r = Revision(<<x, y, z>>, v)
  BY DEF Revision
<1> HIDE DEF a, b
<1>4. /\ r \in Seq(Statements) /\ Len(r) = 5
      /\ \A i \in 1 .. 5 : r[i] = IF i <= 3 THEN a[i] ELSE b[i - 3]
  <2>1. /\ r \in Seq(Statements) /\ Len(r) = Len(a) + Len(b)
        /\ \A i \in 1 .. Len(r) : r[i] = IF i <= Len(a) THEN a[i] ELSE b[i - Len(a)]
    <3>1. a \in Seq(Statements) /\ b \in Seq(Statements)
      BY <1>2
    <3> QED
      BY <3>1
  <2> QED
    BY <1>2, <2>1
<1> HIDE DEF r
<1>5. r[1] = x /\ r[2] = y /\ r[3] = z /\ r[4] = Stamp(v) /\ r[5] = EndOfRevision
  BY <1>2, <1>4
<1>6. \A i \in 1 .. Len(r) : i = 1 \/ i = 2 \/ i = 3 \/ i = 4 \/ i = 5
  BY <1>4
<1>7. Paired(r)
  <2> SUFFICES ASSUME NEW i \in 1 .. Len(r) - 1
               PROVE  /\ DropsColumn(r[i + 1]) <=> Copies(r[i])
                      /\ DropsTable(r[i + 1]) <=> Restores(r[i])
                      /\ Commits(r[i + 1]) => r[i].does = "stamp"
                      /\ ~CreatesTasks(r[i + 1])
    BY DEF Paired
  <2>1. /\ ~DropsColumn(Stamp(v)) /\ ~DropsTable(Stamp(v)) /\ ~CreatesTasks(Stamp(v))
        /\ ~Commits(Stamp(v)) /\ ~Copies(Stamp(v)) /\ ~Restores(Stamp(v)) /\ Stamp(v).does = "stamp"
        /\ ~DropsColumn(EndOfRevision) /\ ~DropsTable(EndOfRevision) /\ ~CreatesTasks(EndOfRevision)
    BY DEF DropsColumn, DropsTable, CreatesTasks, Commits, Copies, Restores, Stamp, EndOfRevision
  <2>2. CASE i = 1
    BY <1>5, <2>2
  <2>3. CASE i = 2
    BY <1>5, <2>3
  <2>4. CASE i = 3
    BY <1>5, <2>1, <2>4
  <2>5. CASE i = 4
    BY <1>5, <2>1, <2>5
  <2> QED
    BY <1>4, <1>6, <2>2, <2>3, <2>4, <2>5
<1>8. Block(r)
  BY <1>4, <1>5, <1>7 DEF Block, Copies, Restores, EndOfRevision
<1>9. ~Copies(x) /\ ~Copies(y) => CopiesNothing(r)
  BY <1>5, <1>6 DEF CopiesNothing, Copies, Stamp, EndOfRevision
<1>10. ~Leaves(x) /\ ~Leaves(y) /\ ~Leaves(z) /\ v = "v3_split_results" => StaysInV3(r)
  BY <1>5, <1>6 DEF StaysInV3, Leaves, Stamp, EndOfRevision
<1> QED
  BY <1>3, <1>4, <1>5, <1>8, <1>9, <1>10

(* The six revisions, and the end of a command.                            *)
LEMMA UpV1 == LET r == Revision(UpgradeV1, "v1_initial") IN Block(r) /\ CopiesNothing(r)
<1>1. /\ Create("tasks") \in Statements /\ Create("api_keys") \in Statements
      /\ Create("rate_buckets") \in Statements /\ "v1_initial" \in Stamps
  BY DEF Create, Statements, Artefacts, V2, V1, Stamps
<1> QED
  BY <1>1, OneRevision
  DEF UpgradeV1, Create, DropsColumn, DropsTable, Copies, Restores, CreatesTasks, Commits

LEMMA UpV2 == LET r == Revision(UpgradeV2, "v2_tags") IN
              Block(r) /\ CopiesNothing(r) /\ ~CreatesTasks(r[1])
<1>1. /\ Create("tags") \in Statements /\ Create("task_tags") \in Statements
      /\ Create("uq_tasks_name") \in Statements /\ "v2_tags" \in Stamps
  BY DEF Create, Statements, Artefacts, V2, Stamps
<1> QED
  BY <1>1, OneRevision
  DEF UpgradeV2, Create, DropsColumn, DropsTable, Copies, Restores, CreatesTasks, Commits

LEMMA UpV3 == LET r == FromV2Up IN
              Block(r) /\ StaysInV3(r) /\ ~CreatesTasks(r[1])
<1>1. /\ Create("task_results") \in Statements /\ Copy \in Statements
      /\ Drop("result_json") \in Statements /\ "v3_split_results" \in Stamps
  BY DEF Create, Drop, Statements, Artefacts, V1, V2, V3, Stamps
<1> QED
  BY <1>1, OneRevision
  DEF FromV2Up, UpgradeV3, Create, Drop, Copy, DropsColumn, DropsTable, Copies, Restores,
      CreatesTasks, Commits, Leaves

LEMMA DownV3 == LET r == FromV3Down IN
                /\ Block(r) /\ CopiesNothing(r) /\ Len(r) = 5
                /\ ~Leaves(r[1]) /\ ~Leaves(r[2]) /\ DropsTable(r[3]) /\ ~Leaves(r[3])
<1>1. /\ Create("result_json") \in Statements /\ Restore \in Statements
      /\ Drop("task_results") \in Statements /\ "v2_tags" \in Stamps
  BY DEF Create, Drop, Statements, Artefacts, V1, V2, V3, Stamps
<1> QED
  BY <1>1, OneRevision
  DEF FromV3Down, DowngradeV3, Create, Drop, Restore, DropsColumn, DropsTable, Copies, Restores,
      CreatesTasks, Commits, Leaves

LEMMA DownV2 == LET r == FromV2Down IN
                Block(r) /\ CopiesNothing(r) /\ ~CreatesTasks(r[1])
<1>1. /\ Drop("uq_tasks_name") \in Statements /\ Drop("task_tags") \in Statements
      /\ Drop("tags") \in Statements /\ "v1_initial" \in Stamps
  BY DEF Drop, Statements, Artefacts, V2, Stamps
<1> QED
  BY <1>1, OneRevision
  DEF FromV2Down, DowngradeV2, Drop, DropsColumn, DropsTable, Copies, Restores, CreatesTasks, Commits

LEMMA DownV1 == LET r == FromV1Down IN
                Block(r) /\ CopiesNothing(r) /\ ~CreatesTasks(r[1])
<1>1. /\ Drop("rate_buckets") \in Statements /\ Drop("api_keys") \in Statements
      /\ Drop("tasks") \in Statements /\ "none" \in Stamps
  BY DEF Drop, Statements, Artefacts, V1, V2, Stamps
<1> QED
  BY <1>1, OneRevision
  DEF FromV1Down, DowngradeV1, Drop, DropsColumn, DropsTable, Copies, Restores, CreatesTasks, Commits

LEMMA TheClose == LET r == <<Close>> IN
                  Block(r) /\ CopiesNothing(r) /\ StaysInV3(r) /\ ~CreatesTasks(r[1])
                  /\ r[Len(r)].does = "close"
BY DEF CreatesTasks, Block, CopiesNothing, StaysInV3, Paired, Statements, Close, DropsColumn, DropsTable, Copies,
       Restores, Commits, Leaves

(* A script that begins with the way down from v3 clears the table first.  *)
StartsDown(seq) ==
  Len(seq) \in Nat /\ Len(seq) >= 5 /\ \A i \in 1 .. 5 : seq[i] = FromV3Down[i]

Fine(seq, rows) ==
  Block(seq) /\ CopiesLast(seq) /\ Cleared(seq, rows) /\ seq[Len(seq)].does = "close"

LEMMA DownV3Starts == StartsDown(FromV3Down)
BY DownV3 DEF StartsDown

LEMMA DownV3Clears ==
  ASSUME NEW seq, StartsDown(seq), NEW rows
  PROVE  Cleared(seq, rows)
<1>1. ~Leaves(seq[1]) /\ ~Leaves(seq[2]) /\ ~Leaves(seq[3]) /\ DropsTable(seq[3])
  BY DownV3 DEF StartsDown
<1>2. Len(seq) \in Nat
  BY DEF StartsDown
<1>3. \A i \in 1 .. Len(seq) : i = 1 \/ i = 2 \/ i = 3 \/ 3 \in 1 .. i - 1
  BY <1>2
<1> QED
  BY <1>1, <1>3 DEF Cleared

LEMMA JoinedDown ==
  ASSUME NEW a, NEW b, Block(a), StartsDown(a), CopiesNothing(a),
         Block(b), CopiesNothing(b), ~CreatesTasks(b[1])
  PROVE  Block(a \o b) /\ StartsDown(a \o b) /\ CopiesNothing(a \o b)
<1>1. Block(a \o b) /\ CopiesNothing(a \o b)
  BY JoinedBlocks
<1>2. Len(a \o b) >= Len(a) /\ \A i \in 1 .. Len(a) : (a \o b)[i] = a[i]
  BY JoinedBlocks
<1>3. Len(a \o b) \in Nat
  BY <1>1 DEF Block
<1> QED
  BY <1>1, <1>2, <1>3 DEF StartsDown

LEMMA NotEmpty ==
  ASSUME NEW seq, Block(seq)
  PROVE  1 \in 1 .. Len(seq)
BY DEF Block

LEMMA CloseAlone == <<>> \o <<Close>> = <<Close>>
<1>1. <<Close>> \in Seq({Close})
  OBVIOUS
<1> QED
  BY <1>1, ConcatEmptySeq

(* What every command is given to do, for every stamp it may find.         *)
LEMMA Scripts ==
  ASSUME NEW cmd \in {"upgrade head", "downgrade -1", "downgrade base"},
         NEW stamp \in Stamps \ {"head"}, NEW rows,
         stamp = "v3_split_results" \/ rows = {}
  PROVE  Fine(Script(cmd, stamp) \o <<Close>>, rows)
<1> DEFINE end == <<Close>>
           R1 == Revision(UpgradeV1, "v1_initial")
           R2 == Revision(UpgradeV2, "v2_tags")
           U3 == FromV2Up
           D1 == FromV1Down
           D2 == FromV2Down
           D3 == FromV3Down
<1>1. /\ Block(end) /\ CopiesNothing(end) /\ StaysInV3(end) /\ CopiesLast(end)
      /\ ~CreatesTasks(end[1]) /\ Cleared(end, rows) /\ end[Len(end)].does = "close"
  BY TheClose, LastCopies DEF Cleared, StaysInV3
<1>2. Block(R1) /\ CopiesNothing(R1)
  BY UpV1
<1>3. Block(R2) /\ CopiesNothing(R2) /\ ~CreatesTasks(R2[1])
  BY UpV2
<1>4. Block(U3) /\ CopiesLast(U3) /\ ~CreatesTasks(U3[1])
  BY UpV3, LastCopies
<1>5. Block(D1) /\ CopiesNothing(D1) /\ ~CreatesTasks(D1[1])
  BY DownV1
<1>6. Block(D2) /\ CopiesNothing(D2) /\ ~CreatesTasks(D2[1])
  BY DownV2
<1>7. Block(D3) /\ CopiesNothing(D3) /\ StartsDown(D3)
  BY DownV3, DownV3Starts
<1>8. FromV1Up = R2 \o U3
  BY DEF FromV1Up
<1>9. <<>> \o end = end
  BY CloseAlone
<1> HIDE DEF end, R1, R2, U3, D1, D2, D3
\* Upwards, what copies comes last.
<1>10. Block(R2 \o U3) /\ CopiesLast(R2 \o U3) /\ ~CreatesTasks((R2 \o U3)[1])
  <2>1. 1 \in 1 .. Len(R2)
    BY <1>3, NotEmpty
  <2> QED
    BY <1>3, <1>4, <2>1, JoinedBlocks
<1>11. Block(R1 \o (R2 \o U3)) /\ CopiesLast(R1 \o (R2 \o U3))
  BY <1>2, <1>10, JoinedBlocks
<1>12. ASSUME NEW seq, Block(seq), CopiesLast(seq), rows = {}
       PROVE  Fine(seq \o end, rows)
  BY <1>1, <1>12, JoinedBlocks DEF Fine, Cleared
<1>13. rows = {} => /\ Fine((R1 \o (R2 \o U3)) \o end, rows)
                    /\ Fine((R2 \o U3) \o end, rows)
                    /\ Fine(U3 \o end, rows)
  BY <1>4, <1>10, <1>11, <1>12
\* Downwards, nothing copies, and from v3 the table is dropped first.
<1>14. Block(D2 \o D1) /\ CopiesNothing(D2 \o D1)
  BY <1>5, <1>6, JoinedBlocks
<1>15. rows = {} => /\ Fine(D1 \o end, rows)
                    /\ Fine(D2 \o end, rows)
                    /\ Fine((D2 \o D1) \o end, rows)
  BY <1>5, <1>6, <1>12, <1>14, LastCopies
<1>16. ASSUME NEW seq, Block(seq), StartsDown(seq), CopiesNothing(seq)
       PROVE  Fine(seq \o end, rows)
  <2>1. Block(seq \o end) /\ StartsDown(seq \o end) /\ CopiesNothing(seq \o end)
    BY <1>1, <1>16, JoinedDown
  <2>2. (seq \o end)[Len(seq \o end)] = end[Len(end)]
    BY <1>1, <1>16, JoinedBlocks
  <2> QED
    BY <1>1, <2>1, <2>2, DownV3Clears, LastCopies DEF Fine
<1>17. Block(D3 \o D2) /\ StartsDown(D3 \o D2) /\ CopiesNothing(D3 \o D2)
  BY <1>6, <1>7, JoinedDown
<1>18. Block(D3 \o D2 \o D1) /\ StartsDown(D3 \o D2 \o D1) /\ CopiesNothing(D3 \o D2 \o D1)
  BY <1>5, <1>17, JoinedDown
<1>19. Fine(D3 \o end, rows) /\ Fine((D3 \o D2 \o D1) \o end, rows)
  BY <1>7, <1>16, <1>18
<1>20. Fine(<<>> \o end, rows)
  BY <1>1, <1>9 DEF Fine
<1>21. stamp \in {"none", "v1_initial", "v2_tags", "v3_split_results"}
  BY DEF Stamps
<1>22. CASE cmd = "upgrade head"
  <2>1. Script(cmd, stamp) =
          IF stamp = "none" THEN R1 \o (R2 \o U3)
          ELSE IF stamp = "v1_initial" THEN R2 \o U3
          ELSE IF stamp = "v2_tags" THEN U3 ELSE <<>>
    BY <1>8, <1>21, <1>22 DEF Script, R1, U3
  <2> QED
    BY <1>13, <1>20, <1>21, <2>1 DEF end
<1>23. CASE cmd = "downgrade -1"
  <2>1. Script(cmd, stamp) =
          IF stamp = "none" THEN <<>>
          ELSE IF stamp = "v1_initial" THEN D1
          ELSE IF stamp = "v2_tags" THEN D2 ELSE D3
    BY <1>21, <1>23 DEF Script, D1, D2, D3
  <2> QED
    BY <1>15, <1>19, <1>20, <1>21, <2>1 DEF end
<1>24. CASE cmd = "downgrade base"
  <2>1. Script(cmd, stamp) =
          IF stamp = "none" THEN <<>>
          ELSE IF stamp = "v1_initial" THEN D1
          ELSE IF stamp = "v2_tags" THEN D2 \o D1 ELSE D3 \o D2 \o D1
    BY <1>21, <1>24 DEF Script, D1, D2, D3
  <2> QED
    BY <1>15, <1>19, <1>20, <1>21, <2>1 DEF end
<1> QED
  BY <1>22, <1>23, <1>24

------------------------------------------------------------------------------
(* Statements.                                                             *)

(* What a statement does to the stamp, to the results and to tasks.        *)
LEMMA Effects ==
  ASSUME NEW s \in Statements, NEW db \in Database, s.does \notin {"commit", "close"}
  PROVE  LET e == Effect(s, db)
             DropsTasks == s.does = "drop" /\ s.what = "tasks" IN
         /\ e \in Database
         /\ e.stamp = IF s.does = "stamp" THEN s.what ELSE db.stamp
         /\ e.inline = IF Restores(s) THEN db.inline \cup db.split
                       ELSE IF DropsColumn(s) \/ DropsTasks THEN {} ELSE db.inline
         /\ e.split = IF Copies(s) THEN db.split \cup db.inline
                      ELSE IF DropsTable(s) THEN {} ELSE db.split
         /\ "tasks" \in e.schema <=> CreatesTasks(s) \/ ("tasks" \in db.schema /\ ~DropsTasks)
<1>1. CASE s \in [does: {"create"}, what: Artefacts]
  <2>1. "result_json" \in Artefacts
    BY DEF Artefacts, V1, V2
  <2>2. s.does = "create" /\ s.what \in Artefacts
    BY <1>1
  <2> QED
    BY <2>1, <2>2 DEF Effect, Database, Restores, Copies, DropsColumn, DropsTable, CreatesTasks
<1>2. CASE s \in [does: {"drop"}, what: Artefacts]
  <2>2. s.does = "drop" /\ s.what \in Artefacts
    BY <1>2
  <2> QED
    BY <2>2 DEF Effect, Database, Restores, Copies, DropsColumn, DropsTable, CreatesTasks
<1>3. CASE s \in [does: {"stamp"}, what: Stamps]
  <2>2. s.does = "stamp" /\ s.what \in Stamps
    BY <1>3
  <2> QED
    BY <2>2 DEF Effect, Database, Restores, Copies, DropsColumn, DropsTable, CreatesTasks
<1>4. CASE s \in {Copy, Restore}
  BY <1>4 DEF Copy, Restore, Effect, Database, Restores, Copies, DropsColumn, DropsTable, CreatesTasks
<1>5. \/ s \in [does: {"create"}, what: Artefacts]
      \/ s \in [does: {"drop"}, what: Artefacts]
      \/ s \in [does: {"stamp"}, what: Stamps]
      \/ s \in {Copy, Restore}
  BY DEF Statements, EndOfRevision, Close
<1> QED
  BY <1>1, <1>2, <1>3, <1>4, <1>5

(* The next statement and those after it.                                  *)
LEMMA HeadAndTail ==
  ASSUME NEW seq \in Seq(Statements), seq # <<>>
  PROVE  /\ Len(seq) \in Nat \ {0} /\ Head(seq) = seq[1] /\ Head(seq) \in Statements
         /\ Tail(seq) \in Seq(Statements) /\ Len(Tail(seq)) = Len(seq) - 1
         /\ \A i \in 1 .. Len(seq) - 1 : Tail(seq)[i] = seq[i + 1]
         /\ Tail(seq) # <<>> => /\ Len(seq) > 1 /\ Head(Tail(seq)) = seq[2]
                                /\ Tail(seq)[Len(Tail(seq))] = seq[Len(seq)]
<1>1. /\ Len(seq) \in Nat \ {0} /\ Head(seq) = seq[1] /\ Head(seq) \in Statements
      /\ Tail(seq) \in Seq(Statements) /\ Len(Tail(seq)) = Len(seq) - 1
      /\ \A i \in 1 .. Len(seq) - 1 : Tail(seq)[i] = seq[i + 1]
  OBVIOUS
<1>2. ASSUME Tail(seq) # <<>>
      PROVE  /\ Len(seq) > 1 /\ Head(Tail(seq)) = seq[2]
             /\ Tail(seq)[Len(Tail(seq))] = seq[Len(seq)]
  <2>1. Len(Tail(seq)) > 0 /\ Head(Tail(seq)) = Tail(seq)[1]
    BY <1>1, <1>2
  <2> QED
    BY <1>1, <2>1
<1> QED
  BY <1>1, <1>2

(* One statement less on the agenda leaves it in order; rows may be gained *)
(* by copying only and the duty to drop the table ends when it is dropped. *)
LEMMA AgendaShrinks ==
  ASSUME TypeOK, Agenda, ~Idle, todo' = Tail(todo),
         \/ view'.split \subseteq view.split \/ Copies(Head(todo)),
         DropsTable(Head(todo)) => view'.split = {}
  PROVE  /\ Agenda'
         /\ todo' # <<>> =>
              /\ DropsColumn(Head(todo')) <=> Copies(Head(todo))
              /\ DropsTable(Head(todo')) <=> Restores(Head(todo))
              /\ Commits(Head(todo')) => Head(todo).does = "stamp"
              /\ ~CreatesTasks(Head(todo'))
<1> DEFINE n == Len(todo)
<1>1. /\ todo \in Seq(Statements) /\ todo # <<>> /\ n \in Nat \ {0} /\ Head(todo) = todo[1]
      /\ todo' \in Seq(Statements) /\ Len(todo') = n - 1
      /\ \A i \in 1 .. n - 1 : todo'[i] = todo[i + 1]
      /\ todo' # <<>> => n > 1 /\ Head(todo') = todo[2] /\ todo'[Len(todo')] = todo[n]
  BY HeadAndTail DEF Agenda, Idle
<1>2. Paired(todo)
  BY DEF Agenda
<1>3. Paired(todo')
  <2> SUFFICES ASSUME NEW i \in 1 .. Len(todo') - 1
               PROVE  /\ DropsColumn(todo'[i + 1]) <=> Copies(todo'[i])
                      /\ DropsTable(todo'[i + 1]) <=> Restores(todo'[i])
                      /\ Commits(todo'[i + 1]) => todo'[i].does = "stamp"
                      /\ ~CreatesTasks(todo'[i + 1])
    BY DEF Paired
  <2>1. i + 1 \in 1 .. n - 1 /\ todo'[i] = todo[i + 1] /\ todo'[i + 1] = todo[(i + 1) + 1]
    BY <1>1
  <2> QED
    BY <1>2, <2>1 DEF Paired
<1>4. CopiesLast(todo')
  <2> SUFFICES ASSUME NEW i \in 1 .. Len(todo'), NEW j \in 1 .. Len(todo'), i < j, Copies(todo'[i])
               PROVE  ~Leaves(todo'[j])
    BY DEF CopiesLast
  <2>1. /\ i + 1 \in 1 .. n /\ j + 1 \in 1 .. n /\ i + 1 < j + 1
        /\ todo'[i] = todo[i + 1] /\ todo'[j] = todo[j + 1]
    BY <1>1
  <2> QED
    BY <2>1 DEF Agenda, CopiesLast
<1>5. Cleared(todo', view'.split)
  <2> SUFFICES ASSUME NEW i \in 1 .. Len(todo'), Leaves(todo'[i])
               PROVE  view'.split = {} \/ \E j \in 1 .. i - 1 : DropsTable(todo'[j])
    BY DEF Cleared
  <2>1. i + 1 \in 1 .. n /\ todo'[i] = todo[i + 1]
    BY <1>1
  <2>2. ~Copies(Head(todo))
    <3>1. 1 \in 1 .. n /\ 1 < i + 1
      BY <1>1, <2>1
    <3> QED
      BY <1>1, <2>1, <3>1 DEF Agenda, CopiesLast
  <2>3. view.split = {} \/ \E j \in 1 .. i : DropsTable(todo[j])
    <3>1. view.split = {} \/ \E j \in 1 .. (i + 1) - 1 : DropsTable(todo[j])
      BY <2>1 DEF Agenda, Cleared
    <3> QED
      BY <3>1
  <2>4. ASSUME NEW j \in 1 .. i, DropsTable(todo[j]), j # 1
        PROVE  \E k \in 1 .. i - 1 : DropsTable(todo'[k])
    <3>1. j - 1 \in 1 .. i - 1 /\ todo'[j - 1] = todo[j]
      BY <1>1, <2>4
    <3> QED
      BY <2>4, <3>1
  <2> QED
    BY <1>1, <2>2, <2>3, <2>4
<1>6. todo' # <<>> =>
        /\ DropsColumn(Head(todo')) <=> Copies(Head(todo))
        /\ DropsTable(Head(todo')) <=> Restores(Head(todo))
        /\ Commits(Head(todo')) => Head(todo).does = "stamp"
        /\ ~CreatesTasks(Head(todo'))
  <2> SUFFICES ASSUME todo' # <<>>
               PROVE  /\ DropsColumn(todo[2]) <=> Copies(todo[1])
                      /\ DropsTable(todo[2]) <=> Restores(todo[1])
                      /\ Commits(todo[2]) => todo[1].does = "stamp"
                      /\ ~CreatesTasks(todo[2])
    BY <1>1
  <2>1. 1 \in 1 .. n - 1 /\ 1 + 1 = 2
    BY <1>1
  <2> QED
    BY <1>2, <2>1 DEF Paired
<1> QED
  BY <1>1, <1>3, <1>4, <1>5, <1>6 DEF Agenda, Idle

------------------------------------------------------------------------------
(* The steps.                                                              *)

LEMMA NothingToDo ==
  ASSUME NEW rows
  PROVE  Paired(<<>>) /\ CopiesLast(<<>>) /\ Cleared(<<>>, rows) /\ <<>> \in Seq(Statements)
BY DEF Paired, CopiesLast, Cleared

(* The connection goes and the file is left as db.                         *)
LEMMA AbandonHolds ==
  ASSUME TypeOK, NEW db \in Database, Abandon(db), whole' \in BOOLEAN,
         Total(db), db.inline \cap db.split = {},
         db.stamp \in {"v3_split_results", "head"} \/ db.split = {}
  PROVE  IInv'
<1>1. /\ disk' = db /\ view' = db /\ opened' = FALSE /\ todo' = <<>>
      /\ written' = Kept(db) /\ UNCHANGED <<external, command, origin>>
  BY DEF Abandon
<1>2. TypeOK'
  BY <1>1 DEF TypeOK, Kept
<1>3. Agenda'
  BY <1>1, NothingToDo DEF Agenda, Idle
<1>4. Total(disk)' /\ ("tasks" \notin disk.schema => written = {})'
  BY <1>1 DEF Total, Kept
<1> QED
  BY <1>1, <1>2, <1>3, <1>4 DEF IInv, OnDisk, InView, Idle, Total

LEMMA InitHolds == Init => IInv
<1> SUFFICES ASSUME Init PROVE IInv
  OBVIOUS
<1>1. TypeOK
  BY DEF Init, TypeOK, Empty, Database, Stamps, Idle
<1>2. Agenda
  BY NothingToDo DEF Init, Agenda, Idle
<1> QED
  BY <1>1, <1>2 DEF Init, IInv, OnDisk, InView, Idle, Total, Empty

LEMMA RunCommandHolds ==
  ASSUME IInv, NEW cmd \in Commands, RunCommand(cmd)
  PROVE  IInv'
<1> DEFINE s == Script(cmd, disk'.stamp) \o <<Close>>
<1>1. /\ todo = <<>> /\ ~opened /\ view = disk /\ view' = disk' /\ todo' = s
      /\ UNCHANGED <<opened, written>>
  BY DEF IInv, TypeOK, RunCommand, Idle
<1>2. /\ disk' \in Database /\ disk'.stamp \in Stamps \ {"head"}
      /\ disk'.schema = disk.schema /\ disk'.inline = disk.inline /\ disk'.split = disk.split
      /\ disk'.stamp = "v3_split_results" \/ disk'.split = {}
  BY DEF IInv, TypeOK, OnDisk, RunCommand, ResetHeadToken, Database, Stamps
<1>3. cmd \in {"upgrade head", "downgrade -1", "downgrade base"}
  BY MigrationAssumption
<1> HIDE DEF s
<1>4. Block(s) /\ CopiesLast(s) /\ Cleared(s, disk'.split) /\ s[Len(s)].does = "close"
  BY <1>2, <1>3, Scripts DEF Fine, s
<1>5. s \in Seq(Statements) /\ s # <<>> /\ Head(s) = s[1]
  BY <1>4 DEF Block
<1>6. TypeOK'
  BY <1>1, <1>2, <1>5 DEF IInv, TypeOK, RunCommand, ResetHeadToken, Idle
<1>7. Agenda'
  BY <1>1, <1>4, <1>5 DEF Agenda, Block
<1>8. OnDisk'
  BY <1>1, <1>2 DEF IInv, OnDisk, Total
<1>9. InView'
  BY <1>1, <1>2, <1>4, <1>5, <1>8 DEF InView, OnDisk, Total, Block, Idle
<1> QED
  BY <1>6, <1>7, <1>8, <1>9 DEF IInv

LEMMA ExecuteHolds ==
  ASSUME IInv, Execute
  PROVE  IInv'
<1> DEFINE s == Head(todo)
           DropsTasks == s.does = "drop" /\ s.what = "tasks"
<1>1. /\ todo \in Seq(Statements) /\ todo # <<>> /\ s \in Statements
      /\ todo' \in Seq(Statements) /\ todo' = Tail(todo)
      /\ Len(todo) \in Nat \ {0} /\ Head(todo) = todo[1]
  BY HeadAndTail DEF IInv, Agenda, Execute, Idle
<1>2. /\ s.does \notin {"commit", "close"} /\ Possible(s, view) /\ view' = Effect(s, view)
      /\ opened' = (opened \/ StartsTransaction(s))
      /\ disk' = (IF opened' THEN disk ELSE view') /\ written' = Kept(disk')
      /\ UNCHANGED <<external, command, origin, whole>>
  BY DEF Execute
<1>3. /\ view' \in Database
      /\ view'.stamp = IF s.does = "stamp" THEN s.what ELSE view.stamp
      /\ view'.inline = IF Restores(s) THEN view.inline \cup view.split
                        ELSE IF DropsColumn(s) \/ DropsTasks THEN {} ELSE view.inline
      /\ view'.split = IF Copies(s) THEN view.split \cup view.inline
                       ELSE IF DropsTable(s) THEN {} ELSE view.split
      /\ "tasks" \in view'.schema <=> CreatesTasks(s) \/ ("tasks" \in view.schema /\ ~DropsTasks)
  BY <1>1, <1>2, Effects DEF IInv, TypeOK
<1>4. /\ Agenda'
      /\ todo' # <<>> =>
           /\ DropsColumn(Head(todo')) <=> Copies(s)
           /\ DropsTable(Head(todo')) <=> Restores(s)
           /\ Commits(Head(todo')) => s.does = "stamp"
           /\ ~CreatesTasks(Head(todo'))
  <2>1. view'.split \subseteq view.split \/ Copies(s)
    BY <1>3
  <2>2. DropsTable(s) => view'.split = {}
    BY <1>3 DEF DropsTable, Copies
  <2> QED
    BY <1>1, <2>1, <2>2, AgendaShrinks DEF IInv, Idle
<1>5. /\ DropsColumn(s) => opened /\ view.inline \subseteq view.split
      /\ DropsTable(s) => opened /\ view.split \subseteq view.inline
      /\ ~DropsColumn(s) /\ ~DropsTable(s) => view.inline \cap view.split = {}
      /\ CreatesTasks(s) => ~opened
  BY <1>1 DEF IInv, InView, Idle
<1>6. Leaves(s) => view.split = {}
  <2>1. 1 \in 1 .. Len(todo) /\ 1 .. 1 - 1 = {}
    BY <1>1
  <2> QED
    BY <1>1, <2>1 DEF IInv, Agenda, Cleared
<1>7. /\ disk \in Database /\ view \in Database /\ written \in SUBSET Tasks
      /\ ~opened => view = disk
      /\ Total(disk) /\ Total(view) /\ ("tasks" \notin disk.schema => written = {})
  BY DEF IInv, TypeOK, OnDisk, InView
<1> HIDE DEF s
<1>8. CreatesTasks(s) => "tasks" \notin view.schema
  BY <1>2 DEF CreatesTasks, Possible
\* What is written does not change while the transaction is open.
<1>9. opened' => disk' = disk /\ written' = written
  BY <1>2, <1>7 DEF Kept
<1>10. ~opened' => disk' = view' /\ view = disk /\ ~Copies(s) /\ ~Restores(s) /\ s.does # "stamp" /\ ~opened
  BY <1>2, <1>7 DEF StartsTransaction, Copies, Restores
<1>11. TypeOK'
  <2>1. disk' \in Database
    BY <1>2, <1>3, <1>7
  <2>2. written' \in SUBSET Tasks
    BY <1>2, <1>7 DEF Kept
  <2>3. ~Idle'
    <3>1. Len(todo') = Len(todo) - 1 /\ todo[Len(todo)].does = "close"
      BY <1>1, HeadAndTail DEF IInv, Agenda, Idle
    <3>2. Len(todo) # 1
      BY <1>1, <1>2, <3>1 DEF s
    <3> QED
      BY <1>1, <3>1, <3>2 DEF Idle
  <2>4. opened' \in BOOLEAN /\ (~opened' => view' = disk')
    BY <1>2, <1>10 DEF IInv, TypeOK, StartsTransaction
  <2> QED
    BY <1>2, <1>3, <2>1, <2>2, <2>3, <2>4 DEF IInv, TypeOK
<1>12. Total(view)'
  <2>1. CASE CreatesTasks(s)
    BY <1>3, <1>5, <1>7, <1>8, <1>2, <2>1 DEF Total, CreatesTasks, Copies, Restores, DropsColumn, DropsTable, Kept, StartsTransaction
  <2>2. CASE DropsTasks
    BY <1>3, <1>6, <1>7, <1>2, <2>2 DEF Total, CreatesTasks, Copies, Restores, DropsColumn, DropsTable, Kept, StartsTransaction, Leaves
  <2>3. CASE ~CreatesTasks(s) /\ ~DropsTasks
    <3>1. view'.inline \cup view'.split = view.inline \cup view.split
      <4>1. CASE DropsColumn(s)
        BY <1>3, <1>5, <2>3, <4>1 DEF DropsColumn, DropsTable, Copies, Restores
      <4>2. CASE DropsTable(s)
        BY <1>3, <1>5, <2>3, <4>2 DEF DropsColumn, DropsTable, Copies, Restores
      <4>3. CASE ~DropsColumn(s) /\ ~DropsTable(s)
        BY <1>3, <2>3, <4>3
      <4> QED
        BY <4>1, <4>2, <4>3
    <3>2. "tasks" \in view'.schema <=> "tasks" \in view.schema
      BY <1>3, <2>3
    <3>3. written' = written
      BY <1>2, <1>7, <1>9, <3>2 DEF Kept
    <3> QED
      BY <1>7, <3>1, <3>2, <3>3 DEF Total
  <2> QED
    BY <2>1, <2>2, <2>3
<1>13. OnDisk'
  <2>1. CASE opened'
    BY <1>9, <2>1 DEF IInv, OnDisk, Total
  <2>2. CASE ~opened'
    <3>1. disk' = view' /\ view = disk /\ ~DropsColumn(s) /\ ~DropsTable(s)
      BY <1>5, <1>10, <2>2
    <3>2. view'.inline \subseteq view.inline /\ view'.split = view.split /\ view'.stamp = view.stamp
      BY <1>3, <1>10, <2>2, <3>1
    <3>3. "tasks" \notin disk'.schema => written' = {}
      BY <1>2 DEF Kept
    <3> QED
      BY <1>12, <3>1, <3>2, <3>3 DEF IInv, OnDisk, Total
  <2> QED
    BY <2>1, <2>2
<1>14. InView'
  <2> SUFFICES ASSUME todo' # <<>>
               PROVE  /\ DropsColumn(Head(todo')) => opened' /\ view'.inline \subseteq view'.split
                      /\ DropsTable(Head(todo')) => opened' /\ view'.split \subseteq view'.inline
                      /\ ~DropsColumn(Head(todo')) /\ ~DropsTable(Head(todo'))
                           => view'.inline \cap view'.split = {}
                      /\ CreatesTasks(Head(todo')) => ~opened'
                      /\ Commits(Head(todo')) => view'.stamp \in {"v3_split_results", "head"} \/ view'.split = {}
    BY <1>12 DEF InView, Idle
  <2>1. CASE Copies(s)
    BY <1>2, <1>3, <1>4, <2>1 DEF Copies, Restores, DropsColumn, DropsTable, StartsTransaction
  <2>2. CASE Restores(s)
    BY <1>2, <1>3, <1>4, <2>2 DEF Copies, Restores, DropsColumn, DropsTable, StartsTransaction
  <2>3. CASE ~Copies(s) /\ ~Restores(s)
    <3>1. ~DropsColumn(Head(todo')) /\ ~DropsTable(Head(todo')) /\ ~CreatesTasks(Head(todo'))
      BY <1>4, <2>3
    <3>2. view'.inline \cap view'.split = {}
      BY <1>3, <1>5, <2>3
    <3>3. Commits(Head(todo')) => view'.stamp = "v3_split_results" \/ view'.split = {}
      BY <1>3, <1>4, <1>6, <2>3 DEF Leaves
    <3> QED
      BY <3>1, <3>2, <3>3
  <2> QED
    BY <2>1, <2>2, <2>3
<1> QED
  BY <1>4, <1>11, <1>13, <1>14 DEF IInv

LEMMA CommitHolds ==
  ASSUME IInv, CommitRevision
  PROVE  IInv'
<1>1. /\ todo \in Seq(Statements) /\ todo # <<>> /\ Head(todo).does = "commit"
      /\ todo' = Tail(todo) /\ Len(todo') = Len(todo) - 1 /\ todo' \in Seq(Statements)
      /\ Len(todo) \in Nat \ {0} /\ Head(todo) = todo[1] /\ todo[Len(todo)].does = "close"
  BY HeadAndTail DEF IInv, Agenda, CommitRevision, Idle
<1>2. /\ UNCHANGED <<view, external, command, origin, whole>>
      /\ \/ disk' = view /\ opened' = FALSE /\ written' = Kept(view)
         \/ UNCHANGED <<disk, opened, written>>
  BY DEF CommitRevision
<1>3. todo' # <<>>
  <2>1. Head(todo).does # "close"
    BY <1>1
  <2>2. Len(todo) # 1
    BY <1>1, <2>1
  <2>3. Len(todo') > 0
    BY <1>1, <2>2
  <2> QED
    BY <2>3
<1>4. ~DropsTable(Head(todo)) /\ ~DropsColumn(Head(todo)) /\ ~Copies(Head(todo)) /\ ~Restores(Head(todo))
  BY <1>1 DEF DropsTable, DropsColumn, Copies, Restores
<1>5. /\ Agenda'
      /\ ~DropsColumn(Head(todo')) /\ ~DropsTable(Head(todo'))
      /\ ~Commits(Head(todo')) /\ ~CreatesTasks(Head(todo'))
  <2>1. Head(todo).does # "stamp"
    BY <1>1
  <2> QED
    BY <1>1, <1>2, <1>3, <1>4, <2>1, AgendaShrinks DEF IInv, Idle
<1>6. /\ view.inline \cap view.split = {}
      /\ view.stamp \in {"v3_split_results", "head"} \/ view.split = {}
      /\ Total(view) /\ Total(disk)
  BY <1>1, <1>4 DEF IInv, InView, OnDisk, Idle, Commits
<1>7. TypeOK'
  BY <1>2, <1>3 DEF IInv, TypeOK, Kept, Idle
<1>8. OnDisk' /\ Total(view)'
  <2>1. CASE disk' = view /\ opened' = FALSE /\ written' = Kept(view)
    BY <1>2, <1>6, <2>1 DEF OnDisk, Total, Kept
  <2>2. CASE UNCHANGED <<disk, opened, written>>
    BY <1>2, <1>6, <2>2 DEF IInv, OnDisk, Total
  <2> QED
    BY <1>2, <2>1, <2>2
<1>9. InView'
  BY <1>2, <1>5, <1>6, <1>8 DEF InView
<1> QED
  BY <1>5, <1>7, <1>8, <1>9 DEF IInv

(* A kill, a failure: the file is left as it is.                           *)
LEMMA RollbackHolds ==
  ASSUME IInv, Abandon(disk), whole' \in BOOLEAN
  PROVE  IInv'
<1>1. /\ TypeOK /\ disk \in Database /\ Total(disk) /\ disk.inline \cap disk.split = {}
      /\ disk.stamp \in {"v3_split_results", "head"} \/ disk.split = {}
  BY DEF IInv, TypeOK, OnDisk
<1> QED
  BY <1>1, AbandonHolds

LEMMA CloseHolds ==
  ASSUME IInv, CloseConnection
  PROVE  IInv'
<1> DEFINE db == [view EXCEPT !.stamp = "head"]
<1>1. whole' \in BOOLEAN
  BY DEF IInv, TypeOK, CloseConnection
<1>2. CASE view.stamp # "v3_split_results"
  BY <1>1, <1>2, RollbackHolds DEF CloseConnection
<1>3. CASE view.stamp = "v3_split_results"
  <2>1. /\ db \in Database /\ db.inline = view.inline /\ db.split = view.split
        /\ db.schema = view.schema /\ db.stamp = "head"
    BY DEF IInv, TypeOK, Database, Stamps
  <2>2. view.inline \cap view.split = {} /\ Total(view) /\ TypeOK
    BY DEF IInv, InView, CloseConnection, DropsColumn, DropsTable
  <2>3. Abandon(db)
    BY <1>3 DEF CloseConnection
  <2> HIDE DEF db
  <2> QED
    BY <1>1, <2>1, <2>2, <2>3, AbandonHolds DEF Total
<1> QED
  BY <1>2, <1>3

LEMMA WriteResultHolds ==
  ASSUME IInv, NEW t \in Tasks, WriteResult(t)
  PROVE  IInv'
<1> DEFINE split == disk.stamp \in {"head", "v3_split_results"}
<1>1. /\ todo = <<>> /\ todo' = todo /\ view' = disk' /\ written' = written \cup {t}
      /\ t \notin written /\ "tasks" \in disk.schema
      /\ UNCHANGED <<opened, external, command, origin, whole>>
  BY DEF WriteResult, Idle
<1>2. /\ disk' \in Database /\ disk'.schema = disk.schema /\ disk'.stamp = disk.stamp
      /\ disk'.inline = IF split THEN disk.inline ELSE disk.inline \cup {t}
      /\ disk'.split = IF split THEN disk.split \cup {t} ELSE disk.split
  BY DEF WriteResult, IInv, TypeOK, Database
<1>3. /\ disk.inline \cup disk.split = written /\ disk.inline \cap disk.split = {}
      /\ split \/ disk.split = {}
  BY <1>1 DEF IInv, OnDisk, Total
<1>4. TypeOK'
  BY <1>1, <1>2 DEF IInv, TypeOK, Idle
<1>5. OnDisk'
  BY <1>1, <1>2, <1>3 DEF OnDisk, Total
<1>6. Agenda' /\ InView'
  BY <1>1, <1>5, NothingToDo DEF Agenda, InView, OnDisk, Idle, Total
<1> QED
  BY <1>4, <1>5, <1>6 DEF IInv

LEMMA StepHolds == IInv /\ [Next]_vars => IInv'
<1> SUFFICES ASSUME IInv, [Next]_vars PROVE IInv'
  OBVIOUS
<1>1. ASSUME NEW cmd \in Commands, RunCommand(cmd) PROVE IInv'
  BY <1>1, RunCommandHolds
<1>2. CASE Execute
  BY <1>2, ExecuteHolds
<1>3. CASE CommitRevision
  BY <1>3, CommitHolds
<1>4. CASE CloseConnection
  BY <1>4, CloseHolds
<1>5. CASE Fail
  BY <1>5, RollbackHolds DEF Fail
<1>6. CASE Kill
  BY <1>6, RollbackHolds DEF Kill
<1>7. ASSUME NEW t \in Tasks, WriteResult(t) PROVE IInv'
  BY <1>7, WriteResultHolds
<1>8. CASE UNCHANGED vars
  BY <1>8 DEF vars, IInv, TypeOK, Agenda, OnDisk, InView, Total, Idle
<1> QED
  BY <1>1, <1>2, <1>3, <1>4, <1>5, <1>6, <1>7, <1>8 DEF Next

LEMMA MigrationInvariant == Spec => []IInv
BY InitHolds, StepHolds, PTL DEF Spec

------------------------------------------------------------------------------
(* The theorems.                                                           *)

(* The file and what the connection sees are databases, no transaction     *)
(* outlives its connection, and without one the connection sees the file.  *)
THEOREM MigrationTypeCorrect == Spec => []TypeOK
<1>1. IInv => TypeOK
  BY DEF IInv
<1> QED
  BY <1>1, MigrationInvariant, PTL

(* No sequence of commands, kills and failures loses or doubles a result.  *)
THEOREM NoResultIsLost == Spec => []PayloadKeptOnce
<1>1. IInv => PayloadKeptOnce
  BY DEF IInv, OnDisk, Total, PayloadKeptOnce
<1> QED
  BY <1>1, MigrationInvariant, PTL

------------------------------------------------------------------------------
(* Where a command leads.  What a statement does to schema and stamp does  *)
(* not depend on the rows, so the statements left to execute lead from     *)
(* what the connection sees to one schema and stamp, the same at every     *)
(* step of a command; at its end Alembic has committed, or env.py does.    *)

(* A database of which the rows are left out.                              *)
At(schema, stamp) == [schema |-> schema, stamp |-> stamp, inline |-> {}, split |-> {}]
Shape(db) == At(db.schema, db.stamp)

Leads(seq, from, to) ==
  \E run \in [0 .. Len(seq) -> Database] :
    /\ run[0] = from /\ run[Len(seq)] = to
    /\ \A i \in 1 .. Len(seq) : run[i] = Effect(seq[i], run[i - 1])

(* Statements of whole revisions: the connection is closed after them, and *)
(* after a commit.                                                         *)
Rounded(seq) ==
  /\ \A i \in 1 .. Len(seq) : seq[i].does # "close"
  /\ Len(seq) > 0 => Commits(seq[Len(seq)])

Route(seq, from, to) == seq \in Seq(Statements) /\ Rounded(seq) /\ Leads(seq, from, to)

ClosesLast(seq) ==
  \A i \in 1 .. Len(seq) - 1 :
    seq[i].does # "close" /\ (seq[i + 1].does = "close" => Commits(seq[i]))

(* What a command is to leave to the end of the connection, where env.py   *)
(* rewrites the stamp of v3 to head.                                       *)
Target(cmd, stamp) ==
  LET goal == Goal(cmd, stamp) IN
  At(SchemaOf(goal), IF goal = "head" THEN "v3_split_results" ELSE goal)

(* The commands that land: upgrades, and downgrades from base or head.     *)
Sound == /\ whole /\ Intact(origin)
         /\ command = "upgrade head" \/ origin.stamp \in {"none", "head"}

Course ==
  Sound =>
    /\ Idle => Landed
    /\ ~Idle => /\ ClosesLast(todo)
                /\ Leads(todo, Shape(view), Target(command, origin.stamp))
                /\ Head(todo).does = "close" /\ opened => external
                /\ external /\ command # "upgrade head" => ~opened /\ todo = <<Close>>

(* One statement more, one statement less.                                 *)
LEMMA LeadsOn ==
  ASSUME NEW seq \in Seq(Statements), seq # <<>>, NEW from, NEW to, Leads(seq, from, to)
  PROVE  Leads(Tail(seq), Effect(Head(seq), from), to)
<1> DEFINE n == Len(seq)
<1>1. /\ n \in Nat \ {0} /\ Head(seq) = seq[1] /\ Len(Tail(seq)) = n - 1
      /\ \A i \in 1 .. n - 1 : Tail(seq)[i] = seq[i + 1]
  BY HeadAndTail
<1>2. PICK run \in [0 .. n -> Database] :
        /\ run[0] = from /\ run[n] = to
        /\ \A i \in 1 .. n : run[i] = Effect(seq[i], run[i - 1])
  BY DEF Leads
<1> DEFINE rest == [i \in 0 .. n - 1 |-> run[i + 1]]
<1> HIDE DEF n
<1>3. rest \in [0 .. n - 1 -> Database]
  BY <1>1, <1>2
<1>4. rest[0] = Effect(Head(seq), from) /\ rest[n - 1] = to
  <2>1. /\ 1 \in 1 .. n /\ 1 - 1 = 0 /\ 0 \in 0 .. n - 1 /\ 0 + 1 = 1
        /\ n - 1 \in 0 .. n - 1 /\ (n - 1) + 1 = n
    BY <1>1
  <2> QED
    BY <1>1, <1>2, <2>1
<1>5. ASSUME NEW i \in 1 .. n - 1
      PROVE  rest[i] = Effect(Tail(seq)[i], rest[i - 1])
  <2>1. /\ i + 1 \in 1 .. n /\ (i + 1) - 1 = i /\ i \in 0 .. n - 1
        /\ i - 1 \in 0 .. n - 1 /\ (i - 1) + 1 = i
    BY <1>1
  <2>2. run[i + 1] = Effect(seq[i + 1], run[i])
    BY <1>2, <2>1
  <2> QED
    BY <1>1, <2>1, <2>2
<1> HIDE DEF rest
<1> QED
  BY <1>1, <1>3, <1>4, <1>5 DEF Leads

(* Routes that meet can be joined.                                         *)
LEMMA LeadsFurther ==
  ASSUME NEW a \in Seq(Statements), NEW b \in Seq(Statements),
         NEW from, NEW over, NEW to, Leads(a, from, over), Leads(b, over, to)
  PROVE  Leads(a \o b, from, to)
<1> DEFINE c == a \o b
           m == Len(a)
           n == Len(b)
<1>1. /\ m \in Nat /\ n \in Nat /\ Len(c) = m + n
      /\ \A i \in 1 .. m + n : c[i] = IF i <= m THEN a[i] ELSE b[i - m]
  OBVIOUS
<1>2. PICK f \in [0 .. m -> Database] :
        /\ f[0] = from /\ f[m] = over
        /\ \A i \in 1 .. m : f[i] = Effect(a[i], f[i - 1])
  BY DEF Leads
<1>3. PICK g \in [0 .. n -> Database] :
        /\ g[0] = over /\ g[n] = to
        /\ \A i \in 1 .. n : g[i] = Effect(b[i], g[i - 1])
  BY DEF Leads
<1> HIDE DEF m, n, c
<1> DEFINE run == [i \in 0 .. m + n |-> IF i <= m THEN f[i] ELSE g[i - m]]
<1>4. run \in [0 .. m + n -> Database]
  <2>1. ASSUME NEW i \in 0 .. m + n
        PROVE  (IF i <= m THEN f[i] ELSE g[i - m]) \in Database
    <3>1. CASE i <= m
      <4>1. i \in 0 .. m
        BY <1>1, <3>1
      <4> QED
        BY <1>2, <3>1, <4>1
    <3>2. CASE ~(i <= m)
      <4>1. i - m \in 0 .. n
        BY <1>1, <3>2
      <4> QED
        BY <1>3, <3>2, <4>1
    <3> QED
      BY <3>1, <3>2
  <2> QED
    BY <2>1
<1>5. \A i \in 0 .. m : run[i] = f[i]
  BY <1>1
<1>6. \A i \in 0 .. n : run[m + i] = g[i]
  <2> SUFFICES ASSUME NEW i \in 0 .. n
               PROVE  run[m + i] = g[i]
    OBVIOUS
  <2>1. m + i \in 0 .. m + n /\ (m + i) - m = i /\ (m + i <= m => i = 0 /\ m + i = m)
    BY <1>1
  <2>2. i = 0 => f[m] = g[i]
    BY <1>2, <1>3
  <2> QED
    BY <2>1, <2>2
<1>7. run[0] = from /\ run[m + n] = to
  <2>1. 0 \in 0 .. m /\ n \in 0 .. n
    BY <1>1
  <2> QED
    BY <1>2, <1>3, <1>5, <1>6, <2>1
<1> HIDE DEF run
<1>8. ASSUME NEW i \in 1 .. m + n
      PROVE  run[i] = Effect(c[i], run[i - 1])
  <2>1. CASE i <= m
    <3>1. i \in 1 .. m /\ i \in 0 .. m /\ i - 1 \in 0 .. m
      BY <1>1, <2>1
    <3> QED
      BY <1>1, <1>2, <1>5, <2>1, <3>1
  <2>2. CASE ~(i <= m)
    <3> DEFINE k == i - m
    <3>1. /\ k \in 1 .. n /\ k \in 0 .. n /\ k - 1 \in 0 .. n
          /\ m + k = i /\ m + (k - 1) = i - 1 /\ c[i] = b[k]
      BY <1>1, <2>2
    <3> HIDE DEF k
    <3>2. run[i] = g[k] /\ run[i - 1] = g[k - 1]
      BY <1>6, <3>1
    <3> QED
      BY <1>3, <3>1, <3>2
  <2> QED
    BY <2>1, <2>2
<1>9. c = a \o b
  BY DEF c
<1> QED
  BY <1>1, <1>4, <1>7, <1>8, <1>9 DEF Leads

LEMMA JoinedRoutes ==
  ASSUME NEW a, NEW b, NEW from, NEW over, NEW to, Route(a, from, over), Route(b, over, to)
  PROVE  Route(a \o b, from, to)
<1> DEFINE c == a \o b
<1>1. a \in Seq(Statements) /\ b \in Seq(Statements)
  BY DEF Route
<1>2. /\ c \in Seq(Statements) /\ Len(a) \in Nat /\ Len(b) \in Nat /\ Len(c) = Len(a) + Len(b)
      /\ \A i \in 1 .. Len(c) : c[i] = IF i <= Len(a) THEN a[i] ELSE b[i - Len(a)]
  BY <1>1
<1>3. Leads(c, from, to)
  BY <1>1, LeadsFurther DEF Route
<1> HIDE DEF c
<1>4. Rounded(c)
  <2>1. ASSUME NEW i \in 1 .. Len(c)
        PROVE  c[i].does # "close"
    <3>1. \/ i \in 1 .. Len(a) /\ c[i] = a[i]
          \/ i - Len(a) \in 1 .. Len(b) /\ c[i] = b[i - Len(a)]
      BY <1>2
    <3> QED
      BY <3>1 DEF Route, Rounded
  <2>2. ASSUME Len(c) > 0
        PROVE  Commits(c[Len(c)])
    <3>1. CASE Len(b) > 0
      <4>1. c[Len(c)] = b[Len(b)]
        BY <1>2, <3>1
      <4> QED
        BY <3>1, <4>1 DEF Route, Rounded
    <3>2. CASE ~(Len(b) > 0)
      <4>1. c[Len(c)] = a[Len(a)] /\ Len(a) > 0
        BY <1>2, <2>2, <3>2
      <4> QED
        BY <4>1 DEF Route, Rounded
    <3> QED
      BY <3>1, <3>2
  <2> QED
    BY <2>1, <2>2 DEF Rounded
<1> QED
  BY <1>2, <1>3, <1>4 DEF Route, c

(* The end of the connection comes after the revisions.                    *)
LEMMA RouteClosed ==
  ASSUME NEW seq, NEW from, NEW to, Route(seq, from, to)
  PROVE  ClosesLast(seq \o <<Close>>) /\ Leads(seq \o <<Close>>, from, to)
<1> DEFINE end == <<Close>>
           c == seq \o end
<1>1. /\ seq \in Seq(Statements) /\ end \in Seq(Statements) /\ Len(end) = 1 /\ end[1] = Close
      /\ Rounded(seq) /\ Leads(seq, from, to)
  BY DEF Route, Statements
<1>2. Close.does = "close"
  BY DEF Close
<1>3. to \in Database
  <2>1. Len(seq) \in 0 .. Len(seq)
    BY <1>1
  <2> QED
    BY <1>1, <2>1 DEF Leads
<1> HIDE DEF end
<1>4. Leads(end, to, to)
  <2> DEFINE run == [i \in 0 .. 1 |-> to]
  <2>1. run \in [0 .. 1 -> Database] /\ run[0] = to /\ run[1] = to
    BY <1>3
  <2>2. Effect(Close, to) = to
    BY DEF Effect, Close
  <2> HIDE DEF run
  <2>3. \A i \in 1 .. 1 : run[i] = Effect(end[i], run[i - 1])
    BY <1>1, <2>1, <2>2
  <2> QED
    BY <1>1, <2>1, <2>3 DEF Leads
<1>5. Leads(c, from, to)
  BY <1>1, <1>4, LeadsFurther
<1>6. /\ Len(seq) \in Nat /\ Len(c) = Len(seq) + 1
      /\ \A i \in 1 .. Len(c) : c[i] = IF i <= Len(seq) THEN seq[i] ELSE Close
  <2>1. /\ Len(seq) \in Nat /\ Len(c) = Len(seq) + Len(end)
        /\ \A i \in 1 .. Len(c) : c[i] = IF i <= Len(seq) THEN seq[i] ELSE end[i - Len(seq)]
    <3>1. seq \in Seq(Statements) /\ end \in Seq(Statements)
      BY <1>1
    <3> QED
      BY <3>1
  <2> HIDE DEF c
  <2> QED
    BY <1>1, <2>1
<1> HIDE DEF c
<1>7. ClosesLast(c)
  <2> SUFFICES ASSUME NEW i \in 1 .. Len(c) - 1
               PROVE  c[i].does # "close" /\ (c[i + 1].does = "close" => Commits(c[i]))
    BY DEF ClosesLast
  <2>1. i \in 1 .. Len(seq) /\ c[i] = seq[i]
    BY <1>6
  <2>2. CASE i < Len(seq)
    <3>1. i + 1 \in 1 .. Len(seq) /\ c[i + 1] = seq[i + 1]
      BY <1>6, <2>2
    <3> QED
      BY <1>1, <2>1, <3>1 DEF Rounded
  <2>3. CASE i = Len(seq)
    BY <1>1, <1>6, <2>1, <2>3 DEF Rounded
  <2> QED
    BY <1>6, <2>1, <2>2, <2>3
<1> QED
  BY <1>5, <1>7 DEF c, end

(* The effect of a statement stays a database, and does not depend on rows. *)
LEMMA ShapeOfEffect ==
  ASSUME NEW s \in Statements, NEW db \in Database
  PROVE  /\ Effect(s, db) \in Database
         /\ Shape(Effect(s, db)) = Effect(s, Shape(db))
<1>1. CASE s \in [does: {"create", "drop"}, what: Artefacts]
  <2>1. "result_json" \in Artefacts
    BY DEF Artefacts, V1, V2
  <2>2. CASE s.does = "create"
    BY <1>1, <2>1, <2>2 DEF Effect, Database, Shape, At
  <2>3. CASE s.does = "drop"
    BY <1>1, <2>3 DEF Effect, Database, Shape, At
  <2> QED
    BY <1>1, <2>2, <2>3
<1>2. CASE s \in [does: {"stamp"}, what: Stamps]
  BY <1>2 DEF Effect, Database, Shape, At
<1>3. CASE s = Copy
  <2>1. /\ Effect(s, db) = [db EXCEPT !.split = @ \cup db.inline]
        /\ \A d : Effect(s, d) = [d EXCEPT !.split = @ \cup d.inline]
    BY <1>3 DEF Copy, Effect
  <2>2. /\ Effect(s, db) \in Database
        /\ Effect(s, db).schema = db.schema /\ Effect(s, db).stamp = db.stamp
    BY <2>1 DEF Database
  <2>3. Shape(db).split \cup Shape(db).inline = {}
    BY DEF Shape, At
  <2>4. [Shape(db) EXCEPT !.split = {}] = Shape(db)
    BY DEF Shape, At
  <2>5. Effect(s, Shape(db)) = Shape(db)
    BY <2>1, <2>3, <2>4
  <2> QED
    BY <2>2, <2>5 DEF Shape
<1>4. CASE s = Restore
  <2>1. /\ Effect(s, db) = [db EXCEPT !.inline = @ \cup db.split]
        /\ \A d : Effect(s, d) = [d EXCEPT !.inline = @ \cup d.split]
    BY <1>4 DEF Restore, Effect
  <2>2. /\ Effect(s, db) \in Database
        /\ Effect(s, db).schema = db.schema /\ Effect(s, db).stamp = db.stamp
    BY <2>1 DEF Database
  <2>3. Shape(db).inline \cup Shape(db).split = {}
    BY DEF Shape, At
  <2>4. [Shape(db) EXCEPT !.inline = {}] = Shape(db)
    BY DEF Shape, At
  <2>5. Effect(s, Shape(db)) = Shape(db)
    BY <2>1, <2>3, <2>4
  <2> QED
    BY <2>2, <2>5 DEF Shape
<1>5. CASE s \in {EndOfRevision, Close}
  <2>1. \A d : Effect(s, d) = d
    BY <1>5 DEF EndOfRevision, Close, Effect
  <2> QED
    BY <2>1
<1> QED
  BY <1>1, <1>2, <1>3, <1>4, <1>5 DEF Statements

(* A revision leads through its three statements and the stamp.            *)
LEMMA OneRoute ==
  ASSUME NEW x \in Statements, NEW y \in Statements, NEW z \in Statements, NEW v \in Stamps,
         x.does # "close", y.does # "close", z.does # "close", NEW from \in Database
  PROVE  Route(Revision(<<x, y, z>>, v), from,
               Effect(Stamp(v), Effect(z, Effect(y, Effect(x, from)))))
<1> DEFINE a == <<x, y, z>>
           b == <<Stamp(v), EndOfRevision>>
           r == a \o b
           d1 == Effect(x, from)
           d2 == Effect(y, d1)
           d3 == Effect(z, d2)
           d4 == Effect(Stamp(v), d3)
<1>1. Stamp(v) \in Statements /\ EndOfRevision \in Statements
  BY DEF Stamp, Statements
<1>2. /\ a \in Seq(Statements) /\ Len(a) = 3 /\ a[1] = x /\ a[2] = y /\ a[3] = z
      /\ b \in Seq(Statements) /\ Len(b) = 2 /\ b[1] = Stamp(v) /\ b[2] = EndOfRevision
  BY <1>1
<1>3. r = Revision(<<x, y, z>>, v)
  BY DEF Revision
<1> HIDE DEF a, b
<1>4. /\ r \in Seq(Statements) /\ Len(r) = 5
      /\ \A i \in 1 .. 5 : r[i] = IF i <= 3 THEN a[i] ELSE b[i - 3]
  <2>1. /\ r \in Seq(Statements) /\ Len(r) = Len(a) + Len(b)
        /\ \A i \in 1 .. Len(r) : r[i] = IF i <= Len(a) THEN a[i] ELSE b[i - Len(a)]
    <3>1. a \in Seq(Statements) /\ b \in Seq(Statements)
      BY <1>2
    <3> QED
      BY <3>1
  <2> QED
    BY <1>2, <2>1
<1> HIDE DEF r
<1>5. r[1] = x /\ r[2] = y /\ r[3] = z /\ r[4] = Stamp(v) /\ r[5] = EndOfRevision
  BY <1>2, <1>4
<1>6. \A i \in 1 .. 5 : i = 1 \/ i = 2 \/ i = 3 \/ i = 4 \/ i = 5
  OBVIOUS
<1>7. Rounded(r)
  BY <1>4, <1>5, <1>6 DEF Rounded, Commits, Stamp, EndOfRevision
<1>8. d1 \in Database
  BY ShapeOfEffect
<1> HIDE DEF d1
<1>9. d2 \in Database
  BY <1>8, ShapeOfEffect
<1> HIDE DEF d2
<1>10. d3 \in Database
  BY <1>9, ShapeOfEffect
<1> HIDE DEF d3
<1>11. d4 \in Database /\ Effect(EndOfRevision, d4) = d4
  BY <1>1, <1>10, ShapeOfEffect DEF Effect, EndOfRevision
<1> HIDE DEF d4
<1>12. Leads(r, from, d4)
  <2> DEFINE run == [i \in 0 .. 5 |-> IF i = 0 THEN from ELSE IF i = 1 THEN d1 ELSE IF i = 2 THEN d2
                                      ELSE IF i = 3 THEN d3 ELSE d4]
  <2>1. /\ run \in [0 .. 5 -> Database] /\ run[0] = from /\ run[1] = d1 /\ run[2] = d2
        /\ run[3] = d3 /\ run[4] = d4 /\ run[5] = d4
    BY <1>8, <1>9, <1>10, <1>11
  <2> HIDE DEF run
  <2>2. /\ run[1] = Effect(r[1], run[0]) /\ run[2] = Effect(r[2], run[1])
        /\ run[3] = Effect(r[3], run[2]) /\ run[4] = Effect(r[4], run[3])
        /\ run[5] = Effect(r[5], run[4])
    BY <1>5, <1>11, <2>1 DEF d1, d2, d3, d4
  <2>3. \A i \in 1 .. 5 : run[i] = Effect(r[i], run[i - 1])
    BY <1>6, <2>2
  <2> QED
    BY <1>4, <2>1, <2>3 DEF Leads
<1> QED
  BY <1>3, <1>4, <1>7, <1>12 DEF Route, d1, d2, d3, d4

(* Statements on a database without rows.                                  *)
LEMMA CreateAt ==
  ASSUME NEW x, x # "tasks", NEW S, NEW v
  PROVE  Effect(Create(x), At(S, v)) = At(S \cup {x}, v)
<1>1. Effect(Create(x), At(S, v)) = [At(S, v) EXCEPT !.schema = @ \cup {x} \cup {}]
  BY DEF Effect, Create
<1> QED
  BY <1>1 DEF At

LEMMA DropAt ==
  ASSUME NEW x, x # "tasks", NEW S, NEW v
  PROVE  Effect(Drop(x), At(S, v)) = At(S \ {x}, v)
<1>1. Effect(Drop(x), At(S, v)) =
        [At(S, v) EXCEPT !.schema = @ \ ({x} \cup {}), !.inline = {}, !.split = {}]
  BY DEF Effect, Drop, At
<1> QED
  BY <1>1 DEF At

LEMMA TasksAt ==
  ASSUME NEW S, NEW v
  PROVE  /\ Effect(Create("tasks"), At(S, v)) = At(S \cup {"tasks", "result_json"}, v)
         /\ Effect(Drop("tasks"), At(S, v)) = At(S \ {"tasks", "result_json", "uq_tasks_name"}, v)
<1>1. Effect(Create("tasks"), At(S, v)) =
        [At(S, v) EXCEPT !.schema = @ \cup {"tasks"} \cup {"result_json"}]
  BY DEF Effect, Create
<1>2. Effect(Drop("tasks"), At(S, v)) =
        [At(S, v) EXCEPT !.schema = @ \ ({"tasks"} \cup {"result_json", "uq_tasks_name"}),
                         !.inline = {}, !.split = {}]
  BY DEF Effect, Drop, At
<1> QED
  BY <1>1, <1>2 DEF At

LEMMA RowsAt ==
  ASSUME NEW S, NEW v
  PROVE  Effect(Copy, At(S, v)) = At(S, v) /\ Effect(Restore, At(S, v)) = At(S, v)
<1>1. /\ Effect(Copy, At(S, v)) = [At(S, v) EXCEPT !.split = @ \cup At(S, v).inline]
      /\ Effect(Restore, At(S, v)) = [At(S, v) EXCEPT !.inline = @ \cup At(S, v).split]
  BY DEF Effect, Copy, Restore
<1>2. At(S, v).inline = {} /\ At(S, v).split = {} /\ {} \cup {} = {}
  BY DEF At
<1>3. [At(S, v) EXCEPT !.split = {}] = At(S, v) /\ [At(S, v) EXCEPT !.inline = {}] = At(S, v)
  BY DEF At
<1> QED
  BY <1>1, <1>2, <1>3

LEMMA StampAt ==
  ASSUME NEW S, NEW v, NEW to
  PROVE  Effect(Stamp(to), At(S, v)) = At(S, to)
<1>1. Effect(Stamp(to), At(S, v)) = [At(S, v) EXCEPT !.stamp = to]
  BY DEF Effect, Stamp
<1> QED
  BY <1>1 DEF At

LEMMA AtDatabases ==
  /\ At({}, "none") \in Database /\ At(V1, "v1_initial") \in Database
  /\ At(V2, "v2_tags") \in Database /\ At(V3, "v3_split_results") \in Database
BY DEF At, Database, Artefacts, V1, V2, V3, Stamps

(* A revision whose statements take the schema from S0 to S3.              *)
LEMMA RevisionRoute ==
  ASSUME NEW x \in Statements, NEW y \in Statements, NEW z \in Statements,
         x.does # "close", y.does # "close", z.does # "close",
         NEW v, NEW to \in Stamps, NEW S0, NEW S1, NEW S2, NEW S3, At(S0, v) \in Database,
         Effect(x, At(S0, v)) = At(S1, v), Effect(y, At(S1, v)) = At(S2, v),
         Effect(z, At(S2, v)) = At(S3, v)
  PROVE  Route(Revision(<<x, y, z>>, to), At(S0, v), At(S3, to))
<1>1. Effect(Stamp(to), At(S3, v)) = At(S3, to)
  BY StampAt
<1>2. Effect(Stamp(to), Effect(z, Effect(y, Effect(x, At(S0, v))))) = At(S3, to)
  BY <1>1
<1>3. Route(Revision(<<x, y, z>>, to), At(S0, v),
            Effect(Stamp(to), Effect(z, Effect(y, Effect(x, At(S0, v))))))
  BY OneRoute
<1> QED
  BY <1>2, <1>3

(* What each revision does to the schema of the revision it starts from.   *)
LEMMA RouteUpV1 == Route(Revision(UpgradeV1, "v1_initial"), At({}, "none"), At(V1, "v1_initial"))
<1>1. /\ Create("tasks") \in Statements
      /\ Create("api_keys") \in Statements
      /\ Create("rate_buckets") \in Statements
      /\ "v1_initial" \in Stamps
      /\ Create("tasks").does # "close"
      /\ Create("api_keys").does # "close"
      /\ Create("rate_buckets").does # "close"
  BY DEF Create, Statements, Artefacts, V1, V2, V3, Stamps
<1>2. Effect(Create("tasks"), At({}, "none")) = At(V1 \ {"api_keys", "rate_buckets"}, "none")
  <2>1. {} \cup {"tasks", "result_json"} = V1 \ {"api_keys", "rate_buckets"}
    BY DEF V1
  <2> QED
    BY <2>1, TasksAt
<1>3. Effect(Create("api_keys"), At(V1 \ {"api_keys", "rate_buckets"}, "none")) = At(V1 \ {"rate_buckets"}, "none")
  <2>1. (V1 \ {"api_keys", "rate_buckets"}) \cup {"api_keys"} = V1 \ {"rate_buckets"}
    BY DEF V1
  <2> QED
    BY <2>1, CreateAt
<1>4. Effect(Create("rate_buckets"), At(V1 \ {"rate_buckets"}, "none")) = At(V1, "none")
  <2>1. (V1 \ {"rate_buckets"}) \cup {"rate_buckets"} = V1
    BY DEF V1
  <2> QED
    BY <2>1, CreateAt
<1> QED
  BY <1>1, <1>2, <1>3, <1>4, AtDatabases, RevisionRoute DEF UpgradeV1

LEMMA RouteUpV2 == Route(Revision(UpgradeV2, "v2_tags"), At(V1, "v1_initial"), At(V2, "v2_tags"))
<1>1. /\ Create("tags") \in Statements
      /\ Create("task_tags") \in Statements
      /\ Create("uq_tasks_name") \in Statements
      /\ "v2_tags" \in Stamps
      /\ Create("tags").does # "close"
      /\ Create("task_tags").does # "close"
      /\ Create("uq_tasks_name").does # "close"
  BY DEF Create, Statements, Artefacts, V1, V2, V3, Stamps
<1>2. Effect(Create("tags"), At(V1, "v1_initial")) = At(V1 \cup {"tags"}, "v1_initial")
  BY CreateAt
<1>3. Effect(Create("task_tags"), At(V1 \cup {"tags"}, "v1_initial")) = At(V1 \cup {"tags", "task_tags"}, "v1_initial")
  <2>1. (V1 \cup {"tags"}) \cup {"task_tags"} = V1 \cup {"tags", "task_tags"}
    BY DEF V1, V2
  <2> QED
    BY <2>1, CreateAt
<1>4. Effect(Create("uq_tasks_name"), At(V1 \cup {"tags", "task_tags"}, "v1_initial")) = At(V2, "v1_initial")
  <2>1. (V1 \cup {"tags", "task_tags"}) \cup {"uq_tasks_name"} = V2
    BY DEF V1, V2
  <2> QED
    BY <2>1, CreateAt
<1> QED
  BY <1>1, <1>2, <1>3, <1>4, AtDatabases, RevisionRoute DEF UpgradeV2

LEMMA RouteUpV3 == Route(FromV2Up, At(V2, "v2_tags"), At(V3, "v3_split_results"))
<1>1. /\ Create("task_results") \in Statements
      /\ Copy \in Statements
      /\ Drop("result_json") \in Statements
      /\ "v3_split_results" \in Stamps
      /\ Create("task_results").does # "close"
      /\ Copy.does # "close"
      /\ Drop("result_json").does # "close"
  BY DEF Copy, Create, Drop, Statements, Artefacts, V1, V2, V3, Stamps
<1>2. Effect(Create("task_results"), At(V2, "v2_tags")) = At(V2 \cup {"task_results"}, "v2_tags")
  BY CreateAt
<1>3. Effect(Copy, At(V2 \cup {"task_results"}, "v2_tags")) = At(V2 \cup {"task_results"}, "v2_tags")
  BY RowsAt
<1>4. Effect(Drop("result_json"), At(V2 \cup {"task_results"}, "v2_tags")) = At(V3, "v2_tags")
  <2>1. (V2 \cup {"task_results"}) \ {"result_json"} = V3
    BY DEF V1, V2, V3
  <2> QED
    BY <2>1, DropAt
<1> QED
  BY <1>1, <1>2, <1>3, <1>4, AtDatabases, RevisionRoute DEF FromV2Up, UpgradeV3

LEMMA RouteDownV3 == Route(FromV3Down, At(V3, "v3_split_results"), At(V2, "v2_tags"))
<1>1. /\ Create("result_json") \in Statements
      /\ Restore \in Statements
      /\ Drop("task_results") \in Statements
      /\ "v2_tags" \in Stamps
      /\ Create("result_json").does # "close"
      /\ Restore.does # "close"
      /\ Drop("task_results").does # "close"
  BY DEF Create, Drop, Restore, Statements, Artefacts, V1, V2, V3, Stamps
<1>2. Effect(Create("result_json"), At(V3, "v3_split_results")) = At(V2 \cup {"task_results"}, "v3_split_results")
  <2>1. V3 \cup {"result_json"} = V2 \cup {"task_results"}
    BY DEF V1, V2, V3
  <2> QED
    BY <2>1, CreateAt
<1>3. Effect(Restore, At(V2 \cup {"task_results"}, "v3_split_results")) = At(V2 \cup {"task_results"}, "v3_split_results")
  BY RowsAt
<1>4. Effect(Drop("task_results"), At(V2 \cup {"task_results"}, "v3_split_results")) = At(V2, "v3_split_results")
  <2>1. (V2 \cup {"task_results"}) \ {"task_results"} = V2
    BY DEF V1, V2, V3
  <2> QED
    BY <2>1, DropAt
<1> QED
  BY <1>1, <1>2, <1>3, <1>4, AtDatabases, RevisionRoute DEF FromV3Down, DowngradeV3

LEMMA RouteDownV2 == Route(FromV2Down, At(V2, "v2_tags"), At(V1, "v1_initial"))
<1>1. /\ Drop("uq_tasks_name") \in Statements
      /\ Drop("task_tags") \in Statements
      /\ Drop("tags") \in Statements
      /\ "v1_initial" \in Stamps
      /\ Drop("uq_tasks_name").does # "close"
      /\ Drop("task_tags").does # "close"
      /\ Drop("tags").does # "close"
  BY DEF Drop, Statements, Artefacts, V1, V2, V3, Stamps
<1>2. Effect(Drop("uq_tasks_name"), At(V2, "v2_tags")) = At(V1 \cup {"tags", "task_tags"}, "v2_tags")
  <2>1. V2 \ {"uq_tasks_name"} = V1 \cup {"tags", "task_tags"}
    BY DEF V1, V2
  <2> QED
    BY <2>1, DropAt
<1>3. Effect(Drop("task_tags"), At(V1 \cup {"tags", "task_tags"}, "v2_tags")) = At(V1 \cup {"tags"}, "v2_tags")
  <2>1. (V1 \cup {"tags", "task_tags"}) \ {"task_tags"} = V1 \cup {"tags"}
    BY DEF V1, V2
  <2> QED
    BY <2>1, DropAt
<1>4. Effect(Drop("tags"), At(V1 \cup {"tags"}, "v2_tags")) = At(V1, "v2_tags")
  <2>1. (V1 \cup {"tags"}) \ {"tags"} = V1
    BY DEF V1, V2
  <2> QED
    BY <2>1, DropAt
<1> QED
  BY <1>1, <1>2, <1>3, <1>4, AtDatabases, RevisionRoute DEF FromV2Down, DowngradeV2

LEMMA RouteDownV1 == Route(FromV1Down, At(V1, "v1_initial"), At({}, "none"))
<1>1. /\ Drop("rate_buckets") \in Statements
      /\ Drop("api_keys") \in Statements
      /\ Drop("tasks") \in Statements
      /\ "none" \in Stamps
      /\ Drop("rate_buckets").does # "close"
      /\ Drop("api_keys").does # "close"
      /\ Drop("tasks").does # "close"
  BY DEF Drop, Statements, Artefacts, V1, V2, V3, Stamps
<1>2. Effect(Drop("rate_buckets"), At(V1, "v1_initial")) = At(V1 \ {"rate_buckets"}, "v1_initial")
  BY DropAt
<1>3. Effect(Drop("api_keys"), At(V1 \ {"rate_buckets"}, "v1_initial")) = At(V1 \ {"api_keys", "rate_buckets"}, "v1_initial")
  <2>1. (V1 \ {"rate_buckets"}) \ {"api_keys"} = V1 \ {"api_keys", "rate_buckets"}
    BY DEF V1
  <2> QED
    BY <2>1, DropAt
<1>4. Effect(Drop("tasks"), At(V1 \ {"api_keys", "rate_buckets"}, "v1_initial")) = At({}, "v1_initial")
  <2>1. (V1 \ {"api_keys", "rate_buckets"}) \ {"tasks", "result_json", "uq_tasks_name"} = {}
    BY DEF V1
  <2> QED
    BY <2>1, TasksAt
<1> QED
  BY <1>1, <1>2, <1>3, <1>4, AtDatabases, RevisionRoute DEF FromV1Down, DowngradeV1

(* A script without a statement leads nowhere else.                        *)
LEMMA RouteNowhere ==
  ASSUME NEW db \in Database
  PROVE  Route(<<>>, db, db)
<1> DEFINE run == [i \in {0} |-> db]
<1>1. 0 .. 0 = {0} /\ Len(<<>>) = 0 /\ <<>> \in Seq(Statements)
  OBVIOUS
<1>2. run \in [0 .. 0 -> Database] /\ run[0] = db
  BY <1>1
<1> HIDE DEF run
<1>3. Leads(<<>>, db, db)
  BY <1>1, <1>2 DEF Leads
<1> QED
  BY <1>1, <1>3 DEF Route, Rounded

LEMMA UpgradeRoutes ==
  ASSUME NEW stamp \in Stamps
  PROVE  LET found == IF stamp = "head" THEN "v3_split_results" ELSE stamp IN
         Route(Script("upgrade head", found), At(SchemaOf(stamp), found), Target("upgrade head", stamp))
<1> DEFINE Top == At(V3, "v3_split_results")
<1>1. Target("upgrade head", stamp) = Top
  BY DEF Target, Goal, SchemaOf
<1>2. Route(FromV2Up, At(V2, "v2_tags"), Top)
  BY RouteUpV3
<1>3. Route(FromV1Up, At(V1, "v1_initial"), Top)
  BY <1>2, RouteUpV2, JoinedRoutes DEF FromV1Up
<1>4. Route(Revision(UpgradeV1, "v1_initial") \o FromV1Up, At({}, "none"), Top)
  BY <1>3, RouteUpV1, JoinedRoutes
<1>5. Route(<<>>, Top, Top)
  BY AtDatabases, RouteNowhere
<1>6. /\ Script("upgrade head", "none") = Revision(UpgradeV1, "v1_initial") \o FromV1Up
      /\ Script("upgrade head", "v1_initial") = FromV1Up
      /\ Script("upgrade head", "v2_tags") = FromV2Up
      /\ Script("upgrade head", "v3_split_results") = <<>>
  BY DEF Script
<1>7. /\ SchemaOf("none") = {} /\ SchemaOf("v1_initial") = V1 /\ SchemaOf("v2_tags") = V2
      /\ SchemaOf("v3_split_results") = V3 /\ SchemaOf("head") = V3
  BY DEF SchemaOf
<1> HIDE DEF Top
<1>8. CASE stamp \in {"v3_split_results", "head"}
  BY <1>1, <1>5, <1>6, <1>7, <1>8 DEF Top
<1>9. CASE stamp = "v2_tags"
  BY <1>1, <1>2, <1>6, <1>7, <1>9
<1>10. CASE stamp = "v1_initial"
  BY <1>1, <1>3, <1>6, <1>7, <1>10
<1>11. CASE stamp = "none"
  BY <1>1, <1>4, <1>6, <1>7, <1>11
<1> QED
  BY <1>8, <1>9, <1>10, <1>11 DEF Stamps

LEMMA DowngradeRoutes ==
  ASSUME NEW cmd \in {"downgrade -1", "downgrade base"},
         NEW stamp \in {"none", "head"}, stamp = "none" => cmd # "downgrade -1"
  PROVE  LET found == IF stamp = "head" THEN "v3_split_results" ELSE stamp IN
         Route(Script(cmd, found), At(SchemaOf(stamp), found), Target(cmd, stamp))
<1> DEFINE Base == At({}, "none")
           Top == At(V3, "v3_split_results")
           Down == FromV3Down \o FromV2Down \o FromV1Down
<1>1. Route(Down, Top, Base)
  BY RouteDownV1, RouteDownV2, RouteDownV3, JoinedRoutes
<1>2. Route(<<>>, Base, Base)
  BY AtDatabases, RouteNowhere
<1>3. /\ SchemaOf("none") = {} /\ SchemaOf("head") = V3 /\ SchemaOf("v2_tags") = V2
  BY DEF SchemaOf
<1>4. /\ Script("downgrade base", "none") = <<>>
      /\ Script("downgrade base", "v3_split_results") = Down
      /\ Script("downgrade -1", "v3_split_results") = FromV3Down
  BY DEF Script
<1>5. Target("downgrade base", stamp) = Base /\ Target("downgrade -1", "head") = At(V2, "v2_tags")
  <2>1. Goal("downgrade base", stamp) = "none" /\ Goal("downgrade -1", "head") = "v2_tags"
    BY DEF Goal
  <2> QED
    BY <1>3, <2>1 DEF Target
<1> HIDE DEF Base, Top, Down
<1>6. CASE stamp = "none"
  BY <1>2, <1>3, <1>4, <1>5, <1>6 DEF Base
<1>7. CASE stamp = "head"
  BY <1>1, <1>3, <1>4, <1>5, <1>7, RouteDownV3 DEF Top
<1> QED
  BY <1>6, <1>7

(* One statement less.                                                     *)
LEMMA CourseShrinks ==
  ASSUME IInv, Course, Sound, ~Idle, todo' = Tail(todo), UNCHANGED <<command, origin>>,
         Shape(view') = Effect(Head(todo), Shape(view)), Head(todo).does # "close"
  PROVE  /\ ~Idle' /\ ClosesLast(todo')
         /\ Head(todo').does = "close" => Commits(Head(todo))
         /\ Leads(todo', Shape(view'), Target(command, origin.stamp))
         /\ external => command = "upgrade head"
<1>1. /\ todo \in Seq(Statements) /\ todo # <<>> /\ todo[Len(todo)].does = "close"
      /\ Len(todo) \in Nat \ {0} /\ Head(todo) = todo[1] /\ todo' \in Seq(Statements)
      /\ Len(todo') = Len(todo) - 1 /\ \A i \in 1 .. Len(todo) - 1 : todo'[i] = todo[i + 1]
  BY HeadAndTail DEF IInv, Agenda, Idle
<1>2. Len(todo) > 1
  BY <1>1
<1>3. ~Idle' /\ Head(todo') = todo[2]
  <2>1. Len(todo') > 0
    BY <1>1, <1>2
  <2>2. todo' # <<>>
    BY <2>1
  <2> QED
    BY <1>1, <2>2, HeadAndTail DEF Idle
<1>4. ClosesLast(todo')
  <2> SUFFICES ASSUME NEW i \in 1 .. Len(todo') - 1
               PROVE  /\ todo'[i].does # "close"
                      /\ todo'[i + 1].does = "close" => Commits(todo'[i])
    BY DEF ClosesLast
  <2>1. i + 1 \in 1 .. Len(todo) - 1 /\ todo'[i] = todo[i + 1] /\ todo'[i + 1] = todo[(i + 1) + 1]
    BY <1>1
  <2> QED
    BY <2>1 DEF Course, ClosesLast
<1>5. Head(todo').does = "close" => Commits(Head(todo))
  <2>1. 1 \in 1 .. Len(todo) - 1 /\ 1 + 1 = 2
    BY <1>1, <1>2
  <2> QED
    BY <1>1, <1>3, <2>1 DEF Course, ClosesLast
<1>6. Leads(todo', Shape(view'), Target(command, origin.stamp))
  BY <1>1, LeadsOn DEF Course
<1>7. external => command = "upgrade head"
  BY <1>1, <1>2 DEF Course
<1> QED
  BY <1>3, <1>4, <1>5, <1>6, <1>7

LEMMA ExecuteKeepsCourse ==
  ASSUME IInv, Course, Execute
  PROVE  Course'
<1>1. /\ ~Idle /\ todo' = Tail(todo) /\ UNCHANGED <<external, command, origin, whole>>
      /\ Head(todo).does \notin {"commit", "close"} /\ view' = Effect(Head(todo), view)
  BY DEF Execute
<1> SUFFICES ASSUME Sound
             PROVE  Course'
  BY <1>1 DEF Course, Sound, Intact
<1>2. Head(todo) \in Statements /\ view \in Database
  BY <1>1, HeadAndTail DEF IInv, Agenda, TypeOK, Idle
<1>3. Shape(view') = Effect(Head(todo), Shape(view))
  BY <1>1, <1>2, ShapeOfEffect
<1>4. ~Commits(Head(todo))
  BY <1>1 DEF Commits
<1>5. /\ ~Idle' /\ ClosesLast(todo') /\ Head(todo').does # "close"
      /\ Leads(todo', Shape(view'), Target(command, origin.stamp))
      /\ external => command = "upgrade head"
  BY <1>1, <1>3, <1>4, CourseShrinks
<1> QED
  BY <1>1, <1>5 DEF Course

LEMMA CommitKeepsCourse ==
  ASSUME IInv, Course, CommitRevision
  PROVE  Course'
<1>1. /\ ~Idle /\ todo' = Tail(todo) /\ UNCHANGED <<view, external, command, origin, whole>>
      /\ Head(todo).does = "commit" /\ (~external => opened' = FALSE)
  BY DEF CommitRevision
<1> SUFFICES ASSUME Sound
             PROVE  Course'
  BY <1>1 DEF Course, Sound, Intact
<1>2. Shape(view') = Effect(Head(todo), Shape(view))
  BY <1>1 DEF Effect
<1>3. /\ ~Idle' /\ ClosesLast(todo')
      /\ Leads(todo', Shape(view'), Target(command, origin.stamp))
      /\ external => command = "upgrade head"
  BY <1>1, <1>2, CourseShrinks
<1> QED
  BY <1>1, <1>3 DEF Course

(* The connection closes where the statements led to: what env.py or       *)
(* Alembic has committed is the target.                                    *)
LEMMA CloseKeepsCourse ==
  ASSUME IInv, Course, CloseConnection
  PROVE  Course'
<1>1. /\ ~Idle /\ Head(todo).does = "close" /\ todo' = <<>>
      /\ UNCHANGED <<external, command, origin, whole>>
      /\ disk' = IF view.stamp = "v3_split_results" THEN [view EXCEPT !.stamp = "head"] ELSE disk
  BY DEF CloseConnection, Abandon
<1>2. /\ todo \in Seq(Statements) /\ Len(todo) \in Nat \ {0} /\ Head(todo) = todo[1]
      /\ view \in Database /\ (~opened => view = disk)
  BY <1>1, HeadAndTail DEF IInv, Agenda, TypeOK, Idle
<1>3. ASSUME Sound
      PROVE  Landed'
  <2>1. Len(todo) = 1
    <3>1. 1 \notin 1 .. Len(todo) - 1
      BY <1>1, <1>2, <1>3 DEF Course, ClosesLast
    <3>2. Len(todo) \in Nat \ {0}
      BY <1>2
    <3>3. \A n \in Nat \ {0} : 1 \notin 1 .. n - 1 => n = 1
      OBVIOUS
    <3> QED
      BY <3>1, <3>2, <3>3, Zenon
  <2>2. Shape(view) = Target(command, origin.stamp)
    <3>1. PICK run \in [0 .. 1 -> Database] :
            /\ run[0] = Shape(view) /\ run[1] = Target(command, origin.stamp)
            /\ \A i \in 1 .. 1 : run[i] = Effect(todo[i], run[i - 1])
      BY <1>1, <1>3, <2>1 DEF Course, Leads
    <3>2. run[1] = Effect(todo[1], run[0])
      BY <3>1
    <3>3. Effect(todo[1], run[0]) = run[0]
      BY <1>1, <1>2 DEF Effect
    <3> QED
      BY <3>1, <3>2, <3>3
  <2> DEFINE goal == Goal(command, origin.stamp)
  <2>3. /\ goal \in {"head", "v2_tags", "v1_initial", "none"}
        /\ goal = "head" <=> command = "upgrade head"
    BY DEF Goal
  <2>4. /\ Landed' <=> disk'.schema = SchemaOf(disk'.stamp) /\ disk'.stamp = goal
    BY <1>1 DEF Landed, Intact
  <2> HIDE DEF goal
  <2>5. /\ view.schema = SchemaOf(goal)
        /\ view.stamp = IF goal = "head" THEN "v3_split_results" ELSE goal
    BY <2>2 DEF Shape, At, Target, goal
  <2>6. CASE goal = "head"
    <3>1. disk'.schema = view.schema /\ disk'.stamp = "head"
      BY <1>1, <1>2, <2>5, <2>6 DEF Database
    <3> QED
      BY <2>4, <2>5, <2>6, <3>1
  <2>7. CASE goal # "head"
    <3>1. ~opened
      BY <1>1, <1>3, <2>3, <2>7 DEF Course
    <3>2. disk' = view
      BY <1>1, <1>2, <2>3, <2>5, <2>7, <3>1
    <3> QED
      BY <2>4, <2>5, <2>7, <3>2
  <2> QED
    BY <2>6, <2>7
<1>4. Sound' <=> Sound
  BY <1>1 DEF Sound, Intact
<1> QED
  BY <1>1, <1>3, <1>4 DEF Course, Idle

(* A command that was killed or failed has not come to its end.            *)
LEMMA StopKeepsCourse ==
  ASSUME whole' = FALSE
  PROVE  Course'
BY DEF Course, Sound

LEMMA RunKeepsCourse ==
  ASSUME IInv, Course, NEW cmd \in Commands, RunCommand(cmd)
  PROVE  Course'
<1> DEFINE found == disk'.stamp
           script == Script(cmd, found)
<1>1. /\ todo' = script \o <<Close>> /\ command' = cmd /\ origin' = disk /\ view' = disk'
      /\ opened' = opened /\ ~opened /\ disk \in Database
      /\ cmd = "downgrade -1" => disk.stamp # "none"
      /\ cmd \in {"upgrade head", "downgrade -1", "downgrade base"}
  BY MigrationAssumption DEF RunCommand, IInv, TypeOK, Idle
<1>2. /\ disk'.schema = disk.schema
      /\ found = IF disk.stamp = "head" THEN "v3_split_results" ELSE disk.stamp
      /\ external' <=> disk.stamp # "head"
  BY <1>1 DEF RunCommand, ResetHeadToken, Database
<1> SUFFICES ASSUME Sound'
             PROVE  /\ ~Idle' /\ ClosesLast(todo')
                    /\ Leads(todo', Shape(view'), Target(cmd, disk.stamp))
                    /\ external' /\ cmd # "upgrade head" => todo' = <<Close>>
  BY <1>1 DEF Course
<1>3. /\ disk.stamp \in Stamps /\ disk.schema = SchemaOf(disk.stamp)
      /\ cmd = "upgrade head" \/ disk.stamp \in {"none", "head"}
  BY <1>1 DEF Sound, Intact, Database
<1>4. Shape(view') = At(SchemaOf(disk.stamp), found)
  BY <1>1, <1>2, <1>3 DEF Shape
<1>5. Route(script, At(SchemaOf(disk.stamp), found), Target(cmd, disk.stamp))
  BY <1>1, <1>2, <1>3, UpgradeRoutes, DowngradeRoutes
<1>6. external' /\ cmd # "upgrade head" => script = <<>>
  BY <1>1, <1>2, <1>3 DEF Script
<1>7. ~Idle'
  <2>1. script \in Seq(Statements) /\ <<Close>> \in Seq(Statements)
    BY <1>5 DEF Route, Statements
  <2>2. Len(script \o <<Close>>) = Len(script) + 1 /\ Len(script) \in Nat
    BY <2>1
  <2> HIDE DEF script
  <2>3. Len(script \o <<Close>>) > 0
    BY <2>2
  <2>4. script \o <<Close>> # <<>>
    BY <2>3
  <2> QED
    BY <1>1, <2>4 DEF Idle
<1> HIDE DEF script, found
<1> QED
  BY <1>1, <1>4, <1>5, <1>6, <1>7, RouteClosed, CloseAlone

LEMMA CourseInvariant == Spec => []Course
<1>1. Init => Course
  BY DEF Init, Course, Sound
<1>2. ASSUME IInv, Course, [Next]_vars
      PROVE  Course'
  <2> USE <1>2
  <2>1. ASSUME NEW cmd \in Commands, RunCommand(cmd) PROVE Course'
    BY <2>1, RunKeepsCourse
  <2>2. CASE Execute
    BY <2>2, ExecuteKeepsCourse
  <2>3. CASE CommitRevision
    BY <2>3, CommitKeepsCourse
  <2>4. CASE CloseConnection
    BY <2>4, CloseKeepsCourse
  <2>5. CASE Fail \/ Kill
    BY <2>5, StopKeepsCourse DEF Fail, Kill
  <2>6. ASSUME NEW t \in Tasks, WriteResult(t) PROVE Course'
    <3>1. /\ Idle /\ Idle' /\ UNCHANGED <<command, origin, whole>>
          /\ disk'.schema = disk.schema /\ disk'.stamp = disk.stamp
      BY <2>6 DEF WriteResult, IInv, TypeOK, Database, Idle
    <3> QED
      BY <3>1 DEF Course, Sound, Landed, Intact
  <2>7. CASE UNCHANGED vars
    BY <2>7 DEF vars, Course, Sound, Landed, Intact, Idle, Shape
  <2> QED
    BY <2>1, <2>2, <2>3, <2>4, <2>5, <2>6, <2>7 DEF Next
<1> QED
  BY <1>1, <1>2, MigrationInvariant, PTL DEF Spec

(* On an intact database an upgrade that ran to its end, from whatever     *)
(* revision, and a downgrade from base or head have left the schema and    *)
(* the stamp of their target.                                              *)
THEOREM CommandsLand == Spec => []LandsOnTarget
<1>1. Course => LandsOnTarget
  BY DEF Course, Sound, LandsOnTarget
<1> QED
  BY <1>1, CourseInvariant, PTL
==============================================================================
