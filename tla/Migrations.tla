----------------------------- MODULE Migrations -----------------------------
(***************************************************************************)
(* Schema migrations of packages/storage: the runner (migration-runner.ts),*)
(* the commands `up` and `down` (migration-cli.ts), and migrations as the  *)
(* generator writes them (migration-generator.ts), over a key-value        *)
(* backend that persists.                                                  *)
(*                                                                         *)
(* Each command is a process of its own.  A schema operation reads the     *)
(* columns of an object, awaits, and writes them back; a process may fail  *)
(* or die at any await, and processes may overlap.  All changes are to the *)
(* columns of one object; indexes go the same way.  Of the list of columns *)
(* only what it holds matters here: how many columns of each name.         *)
(***************************************************************************)
EXTENDS Integers, Sequences, SequencesExt, FiniteSets

CONSTANTS
    MigProcesses, \* commands that may run at the same time
    Changes,      \* the migrations, sorted by version: the changes of each,
                  \* [type |-> "add_column" or "drop_column" or "alter_column", column |-> name]
    FirstColumns, \* names of the columns before the first migration, one column each
    MaxCommands   \* bound: commands run

ASSUME MigrationsAssumption ==
    /\ Changes \in Seq(Seq([type : {"add_column", "drop_column", "alter_column"},
                            column : STRING]))
    /\ FirstColumns \subseteq STRING
    /\ MaxCommands \in Nat

VARIABLES
    columns,  \* backend: _schema:<object>:columns, how many columns of each name
    records,  \* backend: versions with a record under _migrations:
    command,  \* process -> the command it runs
    commands, \* history: number of commands begun
    broken,   \* history: a command failed or died
    overlap   \* history: kinds of overlap: "commands" when two ran at once,
              \* "down" when one of them was a down

migVars == <<columns, records, command, commands, broken, overlap>>

Versions == DOMAIN Changes
Names == FirstColumns \union
         UNION {{Changes[v][i].column : i \in DOMAIN Changes[v]} : v \in Versions}
NoCommand == [kind |-> "none", todo |-> {}, ops |-> <<>>, read |-> <<>>]

Least(S) == CHOOSE v \in S : \A w \in S : v <= w
Greatest(S) == CHOOSE v \in S : \A w \in S : w <= v

-----------------------------------------------------------------------------
(* What a generated migration does, as operations of the runner *)

Op(name, column) == <<[op |-> name, column |-> column]>>

UpOps(c) ==
    CASE c.type = "add_column"   -> Op("add", c.column)
      [] c.type = "drop_column"  -> Op("drop", c.column)
      [] c.type = "alter_column" -> Op("drop", c.column) \o Op("add", c.column)

\* The inverse; a dropped column comes back as a stub.
DownOps(c) ==
    CASE c.type = "add_column"   -> Op("drop", c.column)
      [] c.type = "drop_column"  -> Op("add", c.column)
      [] c.type = "alter_column" -> Op("drop", c.column) \o Op("add", c.column)

BuildUp(v) == FlattenSeq([i \in DOMAIN Changes[v] |-> UpOps(Changes[v][i])])

\* Mutant: the inverse operations in the order of the changes.
BuildDownForward(v) == FlattenSeq([i \in DOMAIN Changes[v] |-> DownOps(Changes[v][i])])

\* Changes are undone from the last to the first.
BuildDown(v) == FlattenSeq(Reverse([i \in DOMAIN Changes[v] |-> DownOps(Changes[v][i])]))

\* addColumn appends a column, dropColumn filters out all of the name.
After(cols, o) == [cols EXCEPT ![o.column] = IF o.op = "add" THEN @ + 1 ELSE 0]

\* One column of each name in S.
OneEach(S) == [n \in Names |-> IF n \in S THEN 1 ELSE 0]

-----------------------------------------------------------------------------
(* The commands *)

Running == {p \in MigProcesses : command[p].kind # "none"}

Begin(p, c) ==
    /\ command[p].kind = "none"
    /\ commands < MaxCommands
    /\ commands' = commands + 1
    /\ command' = [command EXCEPT ![p] = c]
    /\ overlap' = overlap \union
          IF Running = {} THEN {}
          ELSE {"commands"} \union
               {"down" : q \in {r \in Running : "down" \in {c.kind, command[r].kind}}}
    /\ UNCHANGED <<columns, records, broken>>

\* up: the migrations without a record, to be applied in order.
Up(p) ==
    LET pending == Versions \ records
    IN  /\ pending # {}
        /\ Begin(p, [kind |-> "up", todo |-> pending, ops |-> BuildUp(Least(pending)),
                     read |-> <<>>])

\* down: the last version that has a record.
Down(p) ==
    /\ records # {}
    /\ Begin(p, [kind |-> "down", todo |-> {Greatest(records)},
                 ops |-> BuildDown(Greatest(records)), read |-> <<>>])

\* addColumn and dropColumn: the columns are read ...
ReadColumns(p) ==
    /\ command[p].ops # <<>> /\ command[p].read = <<>>
    /\ command' = [command EXCEPT ![p].read = <<columns>>]
    /\ UNCHANGED <<columns, records, commands, broken, overlap>>

\* ... and written back.
WriteColumns(p) ==
    /\ command[p].read # <<>>
    /\ columns' = After(Head(command[p].read), Head(command[p].ops))
    /\ command' = [command EXCEPT ![p].read = <<>>, ![p].ops = Tail(@)]
    /\ UNCHANGED <<records, commands, broken, overlap>>

\* What is left of the command c after the migration v.
NextMigration(c, v) ==
    IF c.todo = {v} THEN NoCommand
    ELSE [kind |-> c.kind, todo |-> c.todo \ {v}, ops |-> BuildUp(Least(c.todo \ {v})),
          read |-> <<>>]

\* The record is written, or deleted; up goes on to its next migration.
Record(p) ==
    LET v == Least(command[p].todo)
    IN  /\ command[p].kind # "none" /\ command[p].ops = <<>>
        /\ records' = IF command[p].kind = "up" THEN records \union {v} ELSE records \ {v}
        /\ command' = [command EXCEPT ![p] = NextMigration(command[p], v)]
        /\ UNCHANGED <<columns, commands, broken, overlap>>

\* Mutant: up goes on to the next migration after an error.
FailsGoesOn(p) ==
    /\ command[p].kind # "none"
    /\ broken' = TRUE
    /\ command' = [command EXCEPT ![p] = NextMigration(command[p], Least(command[p].todo))]
    /\ UNCHANGED <<columns, records, commands, overlap>>

\* An operation throws, which ends the command, or the process dies. The
\* operations already written stay.
Fails(p) ==
    /\ command[p].kind # "none"
    /\ broken' = TRUE
    /\ command' = [command EXCEPT ![p] = NoCommand]
    /\ UNCHANGED <<columns, records, commands, overlap>>

MigInit ==
    /\ columns = OneEach(FirstColumns) /\ records = {}
    /\ command = [p \in MigProcesses |-> NoCommand]
    /\ commands = 0 /\ broken = FALSE /\ overlap = {}

MigNext ==
    \E p \in MigProcesses :
        \/ Up(p) \/ Down(p)
        \/ ReadColumns(p) \/ WriteColumns(p) \/ Record(p) \/ Fails(p)

MigSpec == MigInit /\ [][MigNext]_migVars

-----------------------------------------------------------------------------
(* Properties *)

\* The recorded versions are the first ones, without a gap, whatever commands
\* fail, die or are run again, and also when several ups run at once
\* (migration-cli.ts:67-106); only a down that overlaps may leave a gap.
RecordedWithoutGap ==
    "down" \notin overlap =>
        \A v \in records : \A u \in Versions : u < v => u \in records

\* The changes by their places, and the order in which they are made.
ChangePlaces == UNION {{<<v, i>> : i \in DOMAIN Changes[v]} : v \in Versions}
ChangeAt(p) == Changes[p[1]][p[2]]
Before(p, q) == p[1] < q[1] \/ (p[1] = q[1] /\ p[2] < q[2])

\* The names of the columns that the changes at the places Q make: those whose
\* last change there does not drop them, and the first ones that none changes.
NamesAfter(Q) ==
    {n \in FirstColumns : \A q \in Q : ChangeAt(q).column # n} \union
    {ChangeAt(q).column : q \in
        {q \in Q : /\ ChangeAt(q).type # "drop_column"
                   /\ \A r \in Q : Before(q, r) => ChangeAt(r).column # ChangeAt(q).column}}

NamesAt(n) == NamesAfter({q \in ChangePlaces : q[1] <= n})

\* What SchemaDiffer gives when it compares schemas that follow each other: a
\* column is added when there is none of its name, dropped or altered when there
\* is one (schema-differ.ts:56-85).
ChangesFit ==
    \A p \in ChangePlaces :
        (ChangeAt(p).type = "add_column") <=>
            (ChangeAt(p).column \notin NamesAfter({q \in ChangePlaces : Before(q, p)}))

\* When commands have run one after the other and none has failed, the object
\* has the columns of the recorded migrations, each once: a down undoes what
\* its up did (migration-generator.ts:46-110).
SchemaMatchesRecords ==
    (Running = {} /\ ~broken /\ overlap = {}) => columns = OneEach(NamesAt(Cardinality(records)))

=============================================================================
