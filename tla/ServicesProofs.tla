--------------------------- MODULE ServicesProofs ---------------------------
(***************************************************************************)
(* Proofs about four services that share no state: the migrations, the     *)
(* dead letters, the telemetry spans and the marketplace.  Each part has   *)
(* the inductive invariant its theorem needs, for any constants.           *)
(***************************************************************************)
EXTENDS Migrations, DeadLetters, Telemetry, Marketplace,
        WellFoundedInduction, FiniteSetTheorems, SequenceTheorems, TLAPS

-----------------------------------------------------------------------------
(***************************************************************************)
(* Migrations: however many commands run, fail and die, the recorded       *)
(* migrations have no gap unless a down overlapped with another command.   *)
(* The argument: an up that runs has all versions it has not to apply      *)
(* recorded, and a down that runs alone deletes the greatest record.       *)
(***************************************************************************)

NoGap(S) == \A v \in S : \A u \in Versions : u < v => u \in S

\* What a running up has not to apply any more has a record.
UpsCover ==
    \A p \in MigProcesses : command[p].kind = "up" => Versions \ command[p].todo \subseteq records

\* A running down runs alone and deletes the greatest record.
DownsAlone ==
    \A p \in MigProcesses : command[p].kind = "down" =>
        /\ Running = {p}
        /\ \E v \in records : command[p].todo = {v} /\ \A w \in records : w <= v

MigTypes ==
    /\ records \subseteq Versions
    /\ DOMAIN command = MigProcesses
    /\ command = [p \in MigProcesses |-> command[p]]
    /\ \A p \in MigProcesses :
          /\ DOMAIN command[p] = {"kind", "todo", "ops", "read"}
          /\ command[p] = [x \in DOMAIN command[p] |-> command[p][x]]
          /\ command[p].kind \in {"none", "up", "down"}
          /\ command[p].todo \subseteq Versions
          /\ (command[p].todo = {}) <=> (command[p].kind = "none")

MigInv ==
    /\ MigTypes
    /\ "down" \notin overlap => NoGap(records) /\ UpsCover /\ DownsAlone

-----------------------------------------------------------------------------
\* Versions are counted from 1.
LEMMA VersionsAreNat == Versions = 1..Len(Changes) /\ Len(Changes) \in Nat /\ Versions \subseteq Nat
BY MigrationsAssumption DEF Versions

\* A set of natural numbers that is not empty has a least element.
LEMMA SmallestExists ==
    ASSUME NEW S \in SUBSET Nat, S # {}
    PROVE  \E n \in S : \A m \in S : n <= m
<1> DEFINE R == OpToRel(<, Nat)
<1>1. \A x, y \in Nat : x < y => <<x, y>> \in R
  BY DEF OpToRel
<1>2. IsWellFoundedOn(R, Nat)
  BY NatLessThanWellFounded
<1> HIDE DEF R
<1>3. PICK n \in S : \A m \in S : ~ (<<m, n>> \in R)
  BY <1>2, WFMin
<1>4. \A m \in S : n <= m
  <2>1. TAKE m \in S
  <2>2. m \in Nat /\ n \in Nat
    OBVIOUS
  <2>3. ~ (m < n)
    BY <1>1, <1>3, <2>2, Zenon
  <2>4. QED
    BY <2>2, <2>3
<1>5. QED
  BY <1>4

\* A set of versions that is not empty has a least and a greatest element.
LEMMA LeastIsLeast ==
    ASSUME NEW S \in SUBSET Versions, S # {}
    PROVE  Least(S) \in S /\ \A w \in S : Least(S) <= w
<1>1. S \in SUBSET Nat
  BY VersionsAreNat
<1>2. \E n \in S : \A m \in S : n <= m
  BY <1>1, SmallestExists
<1>3. QED
  BY <1>2 DEF Least

\* The greatest recorded version is one of them, and no other is greater.
LEMMA GreatestIsGreatest ==
    ASSUME NEW S \in SUBSET Versions, S # {}
    PROVE  Greatest(S) \in S /\ \A w \in S : w <= Greatest(S)
<1> DEFINE N == Len(Changes)
           M == {n \in Nat : \E v \in S : n = N - v}
<1>1. \A v \in S : v \in Nat /\ v <= N /\ N \in Nat
  BY VersionsAreNat
<1>2. M # {} /\ M \in SUBSET Nat
  BY <1>1
<1>3. PICK n \in M : \A m \in M : n <= m
  BY <1>2, SmallestExists
<1>4. PICK v \in S : n = N - v
  BY <1>3
<1>5. \A w \in S : w <= v
  <2>1. TAKE w \in S
  <2>2. N - w \in M
    BY <1>1
  <2>3. QED
    BY <1>1, <1>3, <1>4, <2>2
<1>6. QED
  BY <1>4, <1>5 DEF Greatest

LEMMA InitMigInv == MigInit => MigInv
BY DEF MigInit, MigInv, MigTypes, NoGap, UpsCover, DownsAlone, NoCommand, Versions

-----------------------------------------------------------------------------
\* Steps that leave every command's kind and versions alone keep the invariant.
LEMMA SameCommands ==
    ASSUME MigInv, UNCHANGED <<records, overlap>>, MigTypes',
           \A p \in MigProcesses : command'[p].kind = command[p].kind
                                   /\ command'[p].todo = command[p].todo
    PROVE  MigInv'
BY DEF MigInv, NoGap, UpsCover, DownsAlone, Running

\* A command that ends without touching the records keeps the invariant.
LEMMA FailsKeeps ==
    ASSUME MigInv, NEW p \in MigProcesses, Fails(p)
    PROVE  MigInv'
<1>1. \A q \in MigProcesses : command'[q] = IF q = p THEN NoCommand ELSE command[q]
  BY DEF Fails, MigInv, MigTypes
<1>2. MigTypes'
  BY <1>1 DEF Fails, MigInv, MigTypes, NoCommand
<1>3. ASSUME "down" \notin overlap'
      PROVE  NoGap(records)' /\ UpsCover' /\ DownsAlone'
  <2>1. NoGap(records) /\ UpsCover /\ DownsAlone /\ records' = records
    BY <1>3 DEF Fails, MigInv
  <2>2. UpsCover'
    BY <1>1, <2>1 DEF UpsCover, NoCommand
  <2>3. DownsAlone'
    <3>1. SUFFICES ASSUME NEW q \in MigProcesses, command'[q].kind = "down"
                   PROVE  Running' = {q} /\ \E v \in records : command'[q].todo = {v}
                                               /\ \A w \in records : w <= v
      BY <2>1 DEF DownsAlone
    <3>2. q # p /\ command'[q] = command[q]
      BY <1>1, <3>1 DEF NoCommand
    <3>3. Running = {q} /\ p \in Running
      BY <2>1, <3>1, <3>2 DEF DownsAlone, Running, Fails
    <3>4. QED
      BY <3>2, <3>3
  <2>4. QED
    BY <2>1, <2>2, <2>3 DEF NoGap
<1>4. QED
  BY <1>2, <1>3 DEF MigInv

\* The columns are read, and the records are what they were.
LEMMA ReadKeeps ==
    ASSUME MigInv, NEW p \in MigProcesses, ReadColumns(p) \/ WriteColumns(p)
    PROVE  MigInv'
<1>1. \A q \in MigProcesses : /\ command'[q].kind = command[q].kind
                              /\ command'[q].todo = command[q].todo
                              /\ DOMAIN command'[q] = {"kind", "todo", "ops", "read"}
                              /\ command'[q] = [x \in DOMAIN command'[q] |-> command'[q][x]]
  BY DEF ReadColumns, WriteColumns, MigInv, MigTypes
<1>2. MigTypes'
  BY <1>1 DEF ReadColumns, WriteColumns, MigInv, MigTypes
<1>3. QED
  BY <1>1, <1>2, SameCommands DEF ReadColumns, WriteColumns

-----------------------------------------------------------------------------
\* What the beginning of a command changes.
LEMMA BeginFacts ==
    ASSUME MigInv, NEW p \in MigProcesses, NEW c, Begin(p, c),
           DOMAIN c = {"kind", "todo", "ops", "read"}, c = [x \in DOMAIN c |-> c[x]],
           c.kind \in {"up", "down"}, c.todo \in SUBSET Versions, c.todo # {}
    PROVE  /\ MigTypes'
           /\ \A q \in MigProcesses : command'[q] = IF q = p THEN c ELSE command[q]
           /\ Running' = Running \union {p} /\ p \notin Running /\ records' = records
           /\ "down" \notin overlap' =>
                 /\ "down" \notin overlap
                 /\ c.kind = "down" => Running = {}
                 /\ \A q \in Running : command[q].kind # "down"
<1>1. command' = [command EXCEPT ![p] = c] /\ records' = records /\ command[p].kind = "none"
  BY DEF Begin
<1>2. \A q \in MigProcesses : command'[q] = IF q = p THEN c ELSE command[q]
  BY <1>1 DEF MigInv, MigTypes
<1>3. MigTypes'
  <2>1. records' \subseteq Versions
    BY <1>1 DEF MigInv, MigTypes
  <2>2. DOMAIN command' = MigProcesses /\ command' = [q \in MigProcesses |-> command'[q]]
    BY <1>1 DEF MigInv, MigTypes
  <2>3. ((c.todo = {}) <=> (c.kind = "none"))
    OBVIOUS
  <2>4. QED
    BY <1>2, <2>1, <2>2, <2>3 DEF MigInv, MigTypes
<1>4. Running' = Running \union {p} /\ p \notin Running
  BY <1>1, <1>2 DEF Running
<1>5. ASSUME "down" \notin overlap'
      PROVE  /\ "down" \notin overlap
             /\ c.kind = "down" => Running = {}
             /\ \A q \in Running : command[q].kind # "down"
  <2>1. overlap' = overlap \union
          IF Running = {} THEN {}
          ELSE {"commands"} \union
               {"down" : q \in {r \in Running : "down" \in {c.kind, command[r].kind}}}
    BY DEF Begin
  <2>2. {r \in Running : "down" \in {c.kind, command[r].kind}} = {}
    BY <1>5, <2>1
  <2>3. QED
    BY <1>5, <2>1, <2>2
<1>6. QED
  BY <1>1, <1>2, <1>3, <1>4, <1>5

\* up starts with the first version that has no record.
LEMMA UpKeeps ==
    ASSUME MigInv, NEW p \in MigProcesses, Up(p)
    PROVE  MigInv'
<1> DEFINE c == [kind |-> "up", todo |-> Versions \ records,
                 ops |-> BuildUp(Least(Versions \ records)), read |-> <<>>]
<1>1. Begin(p, c) /\ Versions \ records # {}
  BY DEF Up
<1>2. DOMAIN c = {"kind", "todo", "ops", "read"} /\ c = [x \in DOMAIN c |-> c[x]]
  OBVIOUS
<1>3. c.kind = "up" /\ c.todo = Versions \ records
  OBVIOUS
<1> HIDE DEF c
<1>4. /\ MigTypes'
      /\ \A q \in MigProcesses : command'[q] = IF q = p THEN c ELSE command[q]
      /\ Running' = Running \union {p} /\ p \notin Running /\ records' = records
      /\ "down" \notin overlap' =>
            /\ "down" \notin overlap
            /\ \A q \in Running : command[q].kind # "down"
  BY <1>1, <1>2, <1>3, BeginFacts
<1>5. ASSUME "down" \notin overlap'
      PROVE  NoGap(records)' /\ UpsCover' /\ DownsAlone'
  <2>1. NoGap(records) /\ UpsCover /\ DownsAlone
    BY <1>4, <1>5 DEF MigInv
  <2>2. UpsCover'
    BY <1>3, <1>4, <2>1 DEF UpsCover
  <2>3. \A q \in MigProcesses : command'[q].kind # "down"
    BY <1>3, <1>4, <1>5 DEF Running, MigInv, MigTypes
  <2>4. QED
    BY <1>4, <2>1, <2>2, <2>3 DEF NoGap, DownsAlone
<1>6. QED
  BY <1>4, <1>5 DEF MigInv

\* down undoes the last version that has one.
LEMMA DownKeeps ==
    ASSUME MigInv, NEW p \in MigProcesses, Down(p)
    PROVE  MigInv'
<1> DEFINE v == Greatest(records)
           c == [kind |-> "down", todo |-> {v}, ops |-> BuildDown(v), read |-> <<>>]
<1>1. Begin(p, c) /\ records # {}
  BY DEF Down
<1>2. v \in records /\ v \in Versions /\ \A w \in records : w <= v
  BY <1>1, GreatestIsGreatest DEF MigInv, MigTypes
<1>3. DOMAIN c = {"kind", "todo", "ops", "read"} /\ c = [x \in DOMAIN c |-> c[x]]
  OBVIOUS
<1>4. c.kind = "down" /\ c.todo = {v}
  OBVIOUS
<1> HIDE DEF c, v
<1>5. /\ MigTypes'
      /\ \A q \in MigProcesses : command'[q] = IF q = p THEN c ELSE command[q]
      /\ Running' = Running \union {p} /\ p \notin Running /\ records' = records
      /\ "down" \notin overlap' => "down" \notin overlap /\ Running = {}
  BY <1>1, <1>2, <1>3, <1>4, BeginFacts
<1>6. ASSUME "down" \notin overlap'
      PROVE  NoGap(records)' /\ UpsCover' /\ DownsAlone'
  <2>1. NoGap(records) /\ UpsCover /\ DownsAlone /\ Running' = {p}
    BY <1>5, <1>6 DEF MigInv
  <2>2. UpsCover'
    BY <1>4, <1>5, <2>1 DEF UpsCover
  <2>3. DownsAlone'
    <3>1. SUFFICES ASSUME NEW q \in MigProcesses, command'[q].kind = "down"
                   PROVE  q = p
      BY <1>2, <1>4, <1>5, <2>1 DEF DownsAlone
    <3>2. q \in Running'
      BY <3>1 DEF Running
    <3>3. QED
      BY <2>1, <3>2
  <2>4. QED
    BY <1>5, <2>1, <2>2, <2>3 DEF NoGap
<1>7. QED
  BY <1>5, <1>6 DEF MigInv

-----------------------------------------------------------------------------
\* A record is written or deleted when its operations are done.
LEMMA RecordKeeps ==
    ASSUME MigInv, NEW p \in MigProcesses, Record(p)
    PROVE  MigInv'
<1> DEFINE c == command[p]
           v == Least(c.todo)
           d == NextMigration(c, v)
<1>1. /\ c.kind \in {"up", "down"}
      /\ records' = IF c.kind = "up" THEN records \union {v} ELSE records \ {v}
      /\ command' = [command EXCEPT ![p] = d] /\ overlap' = overlap
  BY DEF Record, MigInv, MigTypes
<1>2. c.todo \subseteq Versions /\ c.todo # {}
  BY <1>1 DEF MigInv, MigTypes
<1>3. v \in c.todo /\ (\A w \in c.todo : v <= w) /\ v \in Versions
  BY <1>2, LeastIsLeast
<1>4. \A q \in MigProcesses : command'[q] = IF q = p THEN d ELSE command[q]
  BY <1>1 DEF MigInv, MigTypes
<1>5. /\ DOMAIN d = {"kind", "todo", "ops", "read"} /\ d = [x \in DOMAIN d |-> d[x]]
      /\ c.todo = {v} => d.kind = "none" /\ d.todo = {}
      /\ c.todo # {v} => d.kind = c.kind /\ d.todo = c.todo \ {v} /\ d.todo # {}
  BY <1>3 DEF NextMigration, NoCommand
<1> HIDE DEF c, v, d
<1>6. MigTypes'
  <2>1. records' \subseteq Versions
    BY <1>1, <1>3 DEF MigInv, MigTypes
  <2>2. d.kind \in {"none", "up", "down"} /\ d.todo \subseteq Versions
        /\ ((d.todo = {}) <=> (d.kind = "none"))
    BY <1>1, <1>2, <1>5
  <2>3. DOMAIN command' = MigProcesses /\ command' = [q \in MigProcesses |-> command'[q]]
    BY <1>1 DEF MigInv, MigTypes
  <2>4. QED
    BY <1>4, <1>5, <2>1, <2>2, <2>3 DEF MigInv, MigTypes
<1>7. ASSUME "down" \notin overlap
      PROVE  NoGap(records)' /\ UpsCover' /\ DownsAlone'
  <2>1. NoGap(records) /\ UpsCover /\ DownsAlone
    BY <1>7 DEF MigInv
  <2>2. CASE c.kind = "up"
    <3>1. Versions \ c.todo \subseteq records /\ records' = records \union {v}
      BY <1>1, <2>1, <2>2 DEF UpsCover, c
    <3>2. NoGap(records)'
      <4>1. \A u \in Versions : u < v => u \in records
        BY <1>3, <3>1, VersionsAreNat
      <4>2. QED
        BY <2>1, <3>1, <4>1 DEF NoGap
    <3>3. UpsCover'
      <4>1. SUFFICES ASSUME NEW q \in MigProcesses, command'[q].kind = "up"
                     PROVE  Versions \ command'[q].todo \subseteq records'
        BY DEF UpsCover
      <4>2. CASE q = p
        BY <1>4, <1>5, <3>1, <4>1, <4>2
      <4>3. CASE q # p
        BY <1>4, <2>1, <3>1, <4>1, <4>3 DEF UpsCover
      <4>4. QED
        BY <4>2, <4>3
    <3>4. \A q \in MigProcesses : command'[q].kind # "down"
      <4>1. \A q \in MigProcesses : command[q].kind # "down"
        BY <2>1, <2>2 DEF DownsAlone, Running, c
      <4>2. d.kind # "down"
        BY <1>5, <2>2
      <4>3. QED
        BY <1>4, <4>1, <4>2
    <3>5. QED
      BY <3>2, <3>3, <3>4 DEF DownsAlone
  <2>3. CASE c.kind = "down"
    <3>1. Running = {p} /\ \E w \in records : c.todo = {w} /\ \A u \in records : u <= w
      BY <2>1, <2>3 DEF DownsAlone, c
    <3>2. c.todo = {v} /\ (\A u \in records : u <= v) /\ records' = records \ {v}
      BY <1>1, <1>3, <2>3, <3>1
    <3>3. NoGap(records)'
      <4>1. SUFFICES ASSUME NEW w \in records', NEW u \in Versions, u < w
                     PROVE  u \in records'
        BY DEF NoGap
      <4>2. u \in records /\ w \in records /\ w <= v
        BY <2>1, <3>2, <4>1 DEF NoGap
      <4>3. u # v
        BY <1>3, <4>1, <4>2, VersionsAreNat DEF MigInv, MigTypes
      <4>4. QED
        BY <3>2, <4>2, <4>3
    <3>4. \A q \in MigProcesses : command'[q].kind = "none"
      <4>1. \A q \in MigProcesses : q # p => command[q].kind = "none"
        BY <3>1 DEF Running, MigInv, MigTypes
      <4>2. QED
        BY <1>4, <1>5, <3>2, <4>1
    <3>5. QED
      BY <3>3, <3>4 DEF UpsCover, DownsAlone
  <2>4. QED
    BY <1>1, <2>2, <2>3
<1>8. QED
  BY <1>1, <1>6, <1>7 DEF MigInv

-----------------------------------------------------------------------------
LEMMA NextMigInv == MigInv /\ [MigNext]_migVars => MigInv'
<1> SUFFICES ASSUME MigInv, [MigNext]_migVars
             PROVE  MigInv'
  OBVIOUS
<1>1. ASSUME NEW p \in MigProcesses, Up(p)
      PROVE  MigInv'
  BY <1>1, UpKeeps
<1>2. ASSUME NEW p \in MigProcesses, Down(p)
      PROVE  MigInv'
  BY <1>2, DownKeeps
<1>3. ASSUME NEW p \in MigProcesses, ReadColumns(p) \/ WriteColumns(p)
      PROVE  MigInv'
  BY <1>3, ReadKeeps
<1>4. ASSUME NEW p \in MigProcesses, Record(p)
      PROVE  MigInv'
  BY <1>4, RecordKeeps
<1>5. ASSUME NEW p \in MigProcesses, Fails(p)
      PROVE  MigInv'
  BY <1>5, FailsKeeps
<1>6. CASE UNCHANGED migVars
  BY <1>6 DEF migVars, MigInv, MigTypes, NoGap, UpsCover, DownsAlone, Running
<1>7. QED
  BY <1>1, <1>2, <1>3, <1>4, <1>5, <1>6 DEF MigNext

\* In every reachable state the recorded versions have no gap, unless a down
\* overlapped with another command (migration-cli.ts:67-106).
THEOREM RecordsHaveNoGap == MigSpec => []RecordedWithoutGap
<1>1. MigInv => RecordedWithoutGap
  BY DEF MigInv, NoGap, RecordedWithoutGap
<1>2. QED
  BY InitMigInv, NextMigInv, <1>1, PTL DEF MigSpec

-----------------------------------------------------------------------------
(***************************************************************************)
(* Migrations: commands that run one after the other leave the columns the *)
(* recorded migrations make.  The argument: what a command has still to do *)
(* leads, operation by operation, from the columns there are to those of   *)
(* the migrations recorded when it has ended.  Each change of a migration  *)
(* leads there because it fits, and its inverse leads back.                *)
(***************************************************************************)

\* An operation does what it is for: it adds a column that is not there, or
\* drops one that is.
Applies(S, o) == (o.op = "add") <=> (o.column \notin S)
Effect(S, o) == IF o.op = "add" THEN S \union {o.column} ELSE S \ {o.column}

Operations == [op : {"add", "drop"}, column : Names]

\* The sets of columns st passes through under the operations ops.
Passes(ops, st) ==
    /\ st \in [0..Len(ops) -> SUBSET Names]
    /\ \A i \in 1..Len(ops) : Applies(st[i - 1], ops[i]) /\ st[i] = Effect(st[i - 1], ops[i])

Leads(ops, S, T) ==
    \E st \in [0..Len(ops) -> SUBSET Names] :
        Passes(ops, st) /\ st[0] = S /\ st[Len(ops)] = T

Commands == [kind : {"none", "up", "down"}, todo : SUBSET Versions, ops : Seq(Operations),
             read : {<<>>} \union {<<c>> : c \in [Names -> Nat]}]

CommandTypes ==
    /\ command \in [MigProcesses -> Commands]
    /\ columns \in [Names -> Nat]
    /\ \A p \in MigProcesses :
          /\ command[p].kind = "none" => command[p] = NoCommand
          /\ command[p].read # <<>> => command[p].ops # <<>>

\* Where the command p that runs alone is to get with the columns S.
OnItsWay(p, S) ==
    /\ command[p].kind = "up" =>
          /\ command[p].todo = Versions \ records
          /\ Leads(command[p].ops, S, NamesAt(Cardinality(records) + 1))
    /\ command[p].kind = "down" => Leads(command[p].ops, S, NamesAt(Cardinality(records) - 1))
    /\ command[p].read # <<>> => command[p].read = <<columns>>

InOrder(S) ==
    /\ columns = OneEach(S)
    /\ Running = {} => S = NamesAt(Cardinality(records))
    /\ \A p, q \in Running : p = q
    /\ \A p \in Running : OnItsWay(p, S)

SchemaInv ==
    /\ MigInv
    /\ CommandTypes
    /\ (overlap = {} /\ ~broken) => \E S \in SUBSET Names : InOrder(S)

-----------------------------------------------------------------------------
(* What the changes make *)

\* The changes up to the i-th of the migration v.
UpTo(v, i) == {q \in ChangePlaces : q[1] < v \/ (q[1] = v /\ q[2] <= i)}

\* What a change makes of the names S.
Made(S, c) == IF c.type = "drop_column" THEN S \ {c.column} ELSE S \union {c.column}

ChangeTypes == {"add_column", "drop_column", "alter_column"}

\* A sequence whose elements are in T is a sequence over T.
LEMMA ElementsIn ==
    ASSUME NEW S, NEW T, NEW s \in Seq(S), \A i \in 1..Len(s) : s[i] \in T
    PROVE  s \in Seq(T)
<1>1. Len(s) \in Nat /\ s \in [1..Len(s) -> S]
  BY LenProperties
<1>2. s \in [1..Len(s) -> T]
  BY <1>1
<1>3. QED
  BY <1>1, <1>2, SeqDef

LEMMA ChangesHaveTypes ==
    /\ \A v \in Versions : Changes[v] \in Seq([type : ChangeTypes, column : Names])
    /\ FirstColumns \subseteq Names
<1>1. ASSUME NEW v \in Versions
      PROVE  Changes[v] \in Seq([type : ChangeTypes, column : Names])
  <2> DEFINE C == [type : ChangeTypes, column : STRING]
  <2>1. PICK s : s = Changes[v]
    OBVIOUS
  <2>2. s \in Seq(C)
    BY <2>1, MigrationsAssumption DEF Versions, ChangeTypes
  <2>3. ASSUME NEW i \in 1..Len(s)
        PROVE  s[i] \in [type : ChangeTypes, column : Names]
    <3>1. s[i] \in C
      <4> HIDE DEF C
      <4>1. QED
        BY <2>2, ElementOfSeq
    <3>2. s[i].column \in Names
      BY <2>1, <2>2 DEF Names
    <3>3. QED
      BY <3>1, <3>2
  <2>4. s \in Seq([type : ChangeTypes, column : Names])
    BY <2>2, <2>3, ElementsIn
  <2>5. QED
    BY <2>1, <2>4
<1>2. QED
  BY <1>1 DEF Names

LEMMA PlacesAre ==
    /\ \A q \in ChangePlaces :
          /\ q[1] \in Versions /\ q[1] \in Nat /\ q[2] \in Nat
          /\ q[2] \in 1..Len(Changes[q[1]])
          /\ q = <<q[1], q[2]>>
    /\ \A v \in Versions, i \in Nat : i \in 1..Len(Changes[v]) => <<v, i>> \in ChangePlaces
<1>1. ASSUME NEW v \in Versions
      PROVE  v \in Nat /\ DOMAIN Changes[v] = 1..Len(Changes[v])
  BY <1>1, VersionsAreNat, ChangesHaveTypes
<1>2. QED
  BY <1>1 DEF ChangePlaces

\* A name is there after changes that leave it alone if it was there at first,
\* or after a last change to it that does not drop it.
LEMMA NameIsThere ==
    ASSUME NEW Q \in SUBSET ChangePlaces, NEW n
    PROVE  n \in NamesAfter(Q) <=>
              \/ n \in FirstColumns /\ \A q \in Q : ChangeAt(q).column # n
              \/ \E q \in Q : /\ ChangeAt(q).column = n /\ ChangeAt(q).type # "drop_column"
                              /\ \A r \in Q : Before(q, r) => ChangeAt(r).column # n
BY DEF NamesAfter

\* The last of some changes makes what it makes of the names the others make.
LEMMA LastChange ==
    ASSUME NEW Q \in SUBSET ChangePlaces, NEW p \in ChangePlaces,
           \A q \in Q : Before(q, p)
    PROVE  NamesAfter(Q \union {p}) = Made(NamesAfter(Q), ChangeAt(p))
<1> DEFINE c == ChangeAt(p)
           R == Q \union {p}
<1>1. ~ Before(p, p) /\ \A q \in Q : ~ Before(p, q)
  BY PlacesAre DEF Before
<1>2. R \in SUBSET ChangePlaces
  OBVIOUS
<1>3. ASSUME NEW n
      PROVE  n \in NamesAfter(R) <=> n \in Made(NamesAfter(Q), c)
  <2>1. CASE n = c.column
    <3>1. n \in NamesAfter(R) <=> c.type # "drop_column"
      <4>1. ASSUME n \in NamesAfter(R)
            PROVE  c.type # "drop_column"
        <5>1. PICK q \in R : /\ ChangeAt(q).column = n /\ ChangeAt(q).type # "drop_column"
                             /\ \A r \in R : Before(q, r) => ChangeAt(r).column # n
          BY <4>1, <1>2, <2>1, NameIsThere
        <5>2. q = p
          BY <5>1, <2>1
        <5>3. QED
          BY <5>1, <5>2
      <4>2. ASSUME c.type # "drop_column"
            PROVE  n \in NamesAfter(R)
        <5>1. \A r \in R : Before(p, r) => ChangeAt(r).column # n
          BY <1>1
        <5>2. QED
          BY <5>1, <4>2, <2>1, <1>2, NameIsThere
      <4>3. QED
        BY <4>1, <4>2
    <3>2. QED
      BY <3>1, <2>1 DEF Made
  <2>2. CASE n # c.column
    <3>1. n \in NamesAfter(R) <=> n \in NamesAfter(Q)
      <4>1. ASSUME n \in NamesAfter(R)
            PROVE  n \in NamesAfter(Q)
        BY <4>1, <1>2, <2>2, NameIsThere
      <4>2. ASSUME n \in NamesAfter(Q)
            PROVE  n \in NamesAfter(R)
        BY <4>2, <1>2, <2>2, NameIsThere
      <4>3. QED
        BY <4>1, <4>2
    <3>2. QED
      BY <3>1, <2>2 DEF Made
  <2>3. QED
    BY <2>1, <2>2
<1>4. QED
  BY <1>3

LEMMA NamesAreNames ==
    ASSUME NEW Q \in SUBSET ChangePlaces
    PROVE  NamesAfter(Q) \subseteq Names
<1>1. ASSUME NEW q \in ChangePlaces
      PROVE  ChangeAt(q).column \in Names
  <2>1. PICK s : s = Changes[q[1]]
    OBVIOUS
  <2>2. s \in Seq([type : ChangeTypes, column : Names]) /\ q[2] \in 1..Len(s)
    BY <2>1, PlacesAre, ChangesHaveTypes
  <2> DEFINE C == [type : ChangeTypes, column : Names]
  <2>3. s[q[2]] \in C
    <3> HIDE DEF C
    <3>1. QED
      BY <2>2, ElementOfSeq DEF C
  <2>4. QED
    BY <2>1, <2>3 DEF ChangeAt
<1>2. QED
  BY <1>1, ChangesHaveTypes, NameIsThere

LEMMA UpToIsPlaces == \A v, i : UpTo(v, i) \in SUBSET ChangePlaces
BY DEF UpTo

\* The names after the i-th change of a migration are what that change makes of
\* the names before it, and it fits them.
LEMMA NextChange ==
    ASSUME ChangesFit, NEW v \in Versions, NEW i \in 1..Len(Changes[v])
    PROVE  LET S == NamesAfter(UpTo(v, i - 1))
               c == Changes[v][i]
           IN  /\ NamesAfter(UpTo(v, i)) = Made(S, c)
               /\ (c.type = "add_column") <=> (c.column \notin S)
<1> DEFINE p == <<v, i>>
           Q == UpTo(v, i - 1)
<1>1. p \in ChangePlaces /\ v \in Nat /\ i \in Nat /\ p[1] = v /\ p[2] = i
  BY PlacesAre, VersionsAreNat
<1>2. Q = {q \in ChangePlaces : Before(q, p)}
  BY <1>1, PlacesAre DEF UpTo, Before
<1>3. UpTo(v, i) = Q \union {p}
  <2>1. ASSUME NEW q \in ChangePlaces, q[1] = v, q[2] = i
        PROVE  q = p
    BY <2>1, PlacesAre
  <2>2. QED
    BY <2>1, <1>1, PlacesAre DEF UpTo
<1>4. ChangeAt(p) = Changes[v][i]
  BY <1>1 DEF ChangeAt
<1>5. QED
  BY <1>1, <1>2, <1>3, <1>4, LastChange DEF ChangesFit

\* A migration leads from the names of the versions before it to its own.
LEMMA NamesOfVersion ==
    ASSUME NEW v \in Versions
    PROVE  /\ NamesAt(v - 1) = NamesAfter(UpTo(v, 0))
           /\ NamesAt(v) = NamesAfter(UpTo(v, Len(Changes[v])))
<1>1. v \in Nat
  BY VersionsAreNat
<1>2. {q \in ChangePlaces : q[1] <= v - 1} = UpTo(v, 0)
  BY <1>1, PlacesAre DEF UpTo
<1>3. {q \in ChangePlaces : q[1] <= v} = UpTo(v, Len(Changes[v]))
  BY <1>1, PlacesAre DEF UpTo
<1>4. QED
  BY <1>2, <1>3 DEF NamesAt

-----------------------------------------------------------------------------
(* What sequences of operations lead to *)

LEMMA NoOperation == ASSUME NEW S, NEW T, Leads(<<>>, S, T) PROVE S = T
BY DEF Leads

\* An operation that is carried out leaves the others to lead on from its effect.
LEMMA FirstOperation ==
    ASSUME NEW ops \in Seq(Operations), ops # <<>>, NEW S, NEW T, Leads(ops, S, T)
    PROVE  /\ Head(ops) \in Operations /\ Tail(ops) \in Seq(Operations)
           /\ Applies(S, Head(ops))
           /\ Effect(S, Head(ops)) \in SUBSET Names
           /\ Leads(Tail(ops), Effect(S, Head(ops)), T)
<1>1. PICK st \in [0..Len(ops) -> SUBSET Names] :
          Passes(ops, st) /\ st[0] = S /\ st[Len(ops)] = T
  BY DEF Leads
<1>2. PICK rest : rest = Tail(ops)
  OBVIOUS
<1>3. /\ Len(ops) \in Nat /\ Len(ops) > 0 /\ Head(ops) = ops[1]
      /\ Head(ops) \in Operations /\ rest \in Seq(Operations)
      /\ Len(rest) = Len(ops) - 1
      /\ \A i \in 1..Len(rest) : rest[i] = ops[i + 1]
  BY <1>2, HeadTailProperties, EmptySeq
<1>4. Applies(S, Head(ops)) /\ st[1] = Effect(S, Head(ops)) /\ st[1] \in SUBSET Names
  BY <1>1, <1>3 DEF Passes
<1> DEFINE m == Len(rest)
           su == [i \in 0..m |-> st[i + 1]]
<1>5. m \in Nat /\ m + 1 = Len(ops)
  BY <1>3
<1>6. su \in [0..m -> SUBSET Names] /\ su[0] = st[1] /\ su[m] = T
  BY <1>1, <1>5
<1>7. ASSUME NEW i \in 1..m
      PROVE  Applies(su[i - 1], rest[i]) /\ su[i] = Effect(su[i - 1], rest[i])
  <2>1. i + 1 \in 1..Len(ops) /\ rest[i] = ops[i + 1] /\ su[i - 1] = st[i] /\ su[i] = st[i + 1]
    BY <1>3, <1>5
  <2>2. Applies(st[i], ops[i + 1]) /\ st[i + 1] = Effect(st[i], ops[i + 1])
    BY <1>1, <2>1 DEF Passes
  <2>3. QED
    BY <2>1, <2>2
<1>8. Passes(rest, su)
  BY <1>6, <1>7 DEF Passes
<1>9. Leads(rest, st[1], T)
  BY <1>6, <1>8 DEF Leads
<1>10. QED
  BY <1>2, <1>3, <1>4, <1>9

\* Sequences one after the other lead where the second leads.
LEMMA LeadsOn ==
    ASSUME NEW a \in Seq(Operations), NEW b \in Seq(Operations), NEW S, NEW U, NEW T,
           Leads(a, S, U), Leads(b, U, T)
    PROVE  a \o b \in Seq(Operations) /\ Leads(a \o b, S, T)
<1>1. PICK sa \in [0..Len(a) -> SUBSET Names] : Passes(a, sa) /\ sa[0] = S /\ sa[Len(a)] = U
  BY DEF Leads
<1>2. PICK sb \in [0..Len(b) -> SUBSET Names] : Passes(b, sb) /\ sb[0] = U /\ sb[Len(b)] = T
  BY DEF Leads
<1>3. PICK c : c = a \o b
  OBVIOUS
<1> DEFINE m == Len(a)
           n == Len(b)
           st == [i \in 0..(m + n) |-> IF i <= m THEN sa[i] ELSE sb[i - m]]
<1>4. m \in Nat /\ n \in Nat
  BY LenProperties
<1>5. /\ c \in Seq(Operations) /\ Len(c) = m + n
      /\ \A i \in 1..(m + n) : c[i] = IF i <= m THEN a[i] ELSE b[i - m]
  BY <1>3, ConcatProperties
<1>6. st \in [0..(m + n) -> SUBSET Names]
  BY <1>1, <1>2, <1>4
<1>7. st[0] = S /\ st[m + n] = T
  <2>1. st[0] = sa[0] /\ (n = 0 => st[m + n] = sa[m]) /\ (n # 0 => st[m + n] = sb[n])
    BY <1>4
  <2>2. QED
    BY <2>1, <1>1, <1>2
<1>8. ASSUME NEW i \in 1..(m + n)
      PROVE  Applies(st[i - 1], c[i]) /\ st[i] = Effect(st[i - 1], c[i])
  <2>1. CASE i <= m
    <3>1. i \in 1..m /\ c[i] = a[i] /\ st[i] = sa[i] /\ st[i - 1] = sa[i - 1]
      BY <2>1, <1>4, <1>5
    <3>2. QED
      BY <3>1, <1>1 DEF Passes
  <2>2. CASE i > m
    <3> DEFINE j == i - m
    <3>1. j \in 1..n /\ c[i] = b[j] /\ st[i] = sb[j]
      BY <2>2, <1>4, <1>5
    <3>2. st[i - 1] = sb[j - 1]
      BY <2>2, <1>1, <1>2, <1>4
    <3>3. QED
      BY <3>1, <3>2, <1>2 DEF Passes
  <2>3. QED
    BY <2>1, <2>2, <1>4
<1>9. Passes(c, st)
  BY <1>5, <1>6, <1>8 DEF Passes
<1>10. QED
  BY <1>3, <1>5, <1>6, <1>7, <1>9 DEF Leads

\* A sequence of sequences is flattened one after the other.
LEMMA FlattenIs ==
    ASSUME NEW seqs, NEW n \in Nat, Len(seqs) = n, n > 0
    PROVE  \E f : /\ FlattenSeq(seqs) = f[n]
                 /\ f[1] = seqs[1]
                 /\ \A i \in 2..n : f[i] = f[i - 1] \o seqs[i]
<1> DEFINE G(m, f) == f = [i \in 1..m |-> IF i = 1 THEN seqs[i] ELSE f[i - 1] \o seqs[i]]
           Has(m) == \E f : G(m, f)
<1>1. Has(n)
  <2> DEFINE B == {m \in Nat : ~ Has(m)}
  <2> HIDE DEF Has
  <2>1. SUFFICES ASSUME B # {} PROVE FALSE
    OBVIOUS
  <2>2. PICK m \in B : \A k \in B : m <= k
    BY <2>1, SmallestExists
  <2>3. m \in Nat /\ ~ Has(m)
    BY <2>2
  <2>4. CASE m = 0
    <3>1. G(m, [i \in 1..0 |-> 0])
      BY <2>4
    <3>2. Has(m)
      BY <3>1 DEF Has
    <3>3. QED
      BY <3>2, <2>3
  <2>5. CASE m > 0
    <3>1. m - 1 \in Nat /\ m - 1 \notin B
      BY <2>2, <2>3, <2>5
    <3>2. PICK f : G(m - 1, f)
      BY <3>1 DEF Has
    <3> DEFINE e == [i \in 1..m |-> IF i = m THEN IF m = 1 THEN seqs[m] ELSE f[m - 1] \o seqs[m]
                                   ELSE f[i]]
    <3>3. ASSUME NEW i \in 1..m
          PROVE  e[i] = IF i = 1 THEN seqs[i] ELSE e[i - 1] \o seqs[i]
      <4>1. CASE i = m
        <5>1. i # 1 => e[i - 1] = f[m - 1]
          BY <4>1, <2>3
        <5>2. QED
          BY <5>1, <4>1
      <4>2. CASE i # m
        <5>1. i \in 1..(m - 1) /\ e[i] = f[i] /\ (i # 1 => e[i - 1] = f[i - 1])
          BY <4>2, <2>3
        <5>2. f[i] = IF i = 1 THEN seqs[i] ELSE f[i - 1] \o seqs[i]
          BY <5>1, <3>2
        <5>3. QED
          BY <5>1, <5>2
      <4>3. QED
        BY <4>1, <4>2
    <3>4. G(m, e)
      BY <3>3
    <3>5. Has(m)
      BY <3>4 DEF Has
    <3>6. QED
      BY <3>5, <2>3
  <2>6. QED
    BY <2>3, <2>4, <2>5
<1>2. PICK f : f = CHOOSE h : G(n, h)
  OBVIOUS
<1>3. G(n, f)
  BY <1>1, <1>2
<1>4. FlattenSeq(seqs) = f[n]
  BY <1>2 DEF FlattenSeq
<1>5. f[1] = seqs[1]
  BY <1>3
<1>6. ASSUME NEW i \in 2..n
      PROVE  f[i] = f[i - 1] \o seqs[i]
  <2>1. i \in 1..n /\ i # 1
    OBVIOUS
  <2>2. f[i] = IF i = 1 THEN seqs[i] ELSE f[i - 1] \o seqs[i]
    BY <1>3, <2>1, Zenon
  <2>3. QED
    BY <2>1, <2>2
<1>7. QED
  BY <1>4, <1>5, <1>6

\* When every sequence leads from one set of columns to the next, all of them
\* lead from the first set to the last.
LEMMA FlatLeads ==
    ASSUME NEW n \in Nat, NEW seqs \in Seq(Seq(Operations)), Len(seqs) = n,
           NEW st, \A i \in 0..n : st[i] \in SUBSET Names,
           \A i \in 1..n : Leads(seqs[i], st[i - 1], st[i])
    PROVE  FlattenSeq(seqs) \in Seq(Operations) /\ Leads(FlattenSeq(seqs), st[0], st[n])
<1>1. CASE n = 0
  <2>1. seqs = <<>> /\ FlattenSeq(seqs) = <<>> /\ FlattenSeq(seqs) \in Seq(Operations)
    BY <1>1, EmptySeq DEF FlattenSeq
  <2> DEFINE su == [i \in {0} |-> st[0]]
  <2>2. su \in [0..Len(<<>>) -> SUBSET Names] /\ Passes(<<>>, su)
    BY <1>1 DEF Passes
  <2>3. Leads(<<>>, st[0], st[0])
    BY <2>2 DEF Leads
  <2>4. QED
    BY <1>1, <2>1, <2>3
<1>2. CASE n > 0
  <2>0. \E f : /\ FlattenSeq(seqs) = f[n]
              /\ f[1] = seqs[1]
              /\ \A i \in 2..n : f[i] = f[i - 1] \o seqs[i]
    BY <1>2, FlattenIs, Zenon
  <2>1. PICK f : /\ FlattenSeq(seqs) = f[n]
                 /\ f[1] = seqs[1]
                 /\ \A i \in 2..n : f[i] = f[i - 1] \o seqs[i]
    BY <2>0
  <2> DEFINE P(m) == f[m] \in Seq(Operations) /\ Leads(f[m], st[0], st[m])
             B == {m \in Nat : m \in 1..n /\ ~ P(m)}
  <2>2. SUFFICES ASSUME B # {} PROVE FALSE
    <3>1. P(n) => FlattenSeq(seqs) \in Seq(Operations) /\ Leads(FlattenSeq(seqs), st[0], st[n])
      BY <2>1
    <3> HIDE DEF P
    <3>2. QED
      BY <1>2, <3>1
  <2>3. PICK m \in B : \A k \in B : m <= k
    BY <2>2, SmallestExists
  <2>4. \A i \in 1..n : seqs[i] \in Seq(Operations)
    BY ElementOfSeq
  <2>5. m # 1
    BY <2>1, <2>3, <2>4
  <2>6. m \in 2..n /\ m - 1 \in 1..n /\ m - 1 \in Nat /\ m - 1 \notin B
    BY <2>3, <2>5
  <2>7. f[m - 1] \in Seq(Operations) /\ Leads(f[m - 1], st[0], st[m - 1])
    BY <2>6
  <2>8. seqs[m] \in Seq(Operations) /\ Leads(seqs[m], st[m - 1], st[m])
    BY <2>4, <2>6
  <2>9. f[m] \in Seq(Operations) /\ Leads(f[m], st[0], st[m])
    <3>1. f[m] = f[m - 1] \o seqs[m]
      BY <2>1, <2>6
    <3>2. f[m - 1] \o seqs[m] \in Seq(Operations) /\ Leads(f[m - 1] \o seqs[m], st[0], st[m])
      BY <2>7, <2>8, LeadsOn
    <3>3. QED
      BY <3>1, <3>2
  <2>10. QED
    BY <2>3, <2>9
<1>3. QED
  BY <1>1, <1>2

\* An operation that applies leads to its effect.
LEMMA OneOperation ==
    ASSUME NEW S \in SUBSET Names, NEW o \in Operations, Applies(S, o)
    PROVE  <<o>> \in Seq(Operations) /\ Leads(<<o>>, S, Effect(S, o))
<1> DEFINE st == [i \in 0..1 |-> IF i = 0 THEN S ELSE Effect(S, o)]
<1>1. Effect(S, o) \in SUBSET Names
  BY DEF Effect, Operations
<1>2. st \in [0..1 -> SUBSET Names] /\ st[0] = S /\ st[1] = Effect(S, o)
  BY <1>1
<1>3. Len(<<o>>) = 1 /\ <<o>>[1] = o /\ <<o>> \in Seq(Operations)
  OBVIOUS
<1> HIDE DEF st
<1>4. Passes(<<o>>, st)
  BY <1>2, <1>3 DEF Passes
<1>5. QED
  BY <1>2, <1>3, <1>4 DEF Leads

\* The operations of a change that fits make it, and those of its inverse undo it.
LEMMA OpsOfChange ==
    ASSUME NEW S \in SUBSET Names, NEW c \in [type : ChangeTypes, column : Names],
           (c.type = "add_column") <=> (c.column \notin S)
    PROVE  /\ UpOps(c) \in Seq(Operations) /\ Leads(UpOps(c), S, Made(S, c))
           /\ DownOps(c) \in Seq(Operations) /\ Leads(DownOps(c), Made(S, c), S)
<1> DEFINE add == [op |-> "add", column |-> c.column]
           drop == [op |-> "drop", column |-> c.column]
           with == S \union {c.column}
           without == S \ {c.column}
<1>1. add \in Operations /\ drop \in Operations /\ with \in SUBSET Names /\ without \in SUBSET Names
  BY DEF Operations
<1>2. Op("add", c.column) \in Seq(Operations) /\ Leads(Op("add", c.column), without, with)
  <2>1. Applies(without, add) /\ Effect(without, add) = with
    BY DEF Applies, Effect
  <2>2. QED
    BY <1>1, <2>1, OneOperation DEF Op
<1>3. Op("drop", c.column) \in Seq(Operations) /\ Leads(Op("drop", c.column), with, without)
  <2>1. Applies(with, drop) /\ Effect(with, drop) = without
    BY DEF Applies, Effect
  <2>2. QED
    BY <1>1, <2>1, OneOperation DEF Op
<1> HIDE DEF add, drop
<1>4. CASE c.type = "add_column"
  <2>1. S = without /\ Made(S, c) = with
    BY <1>4 DEF Made
  <2>2. UpOps(c) = Op("add", c.column) /\ DownOps(c) = Op("drop", c.column)
    BY <1>4 DEF UpOps, DownOps
  <2>3. QED
    BY <2>1, <2>2, <1>2, <1>3
<1>5. CASE c.type = "drop_column"
  <2>1. S = with /\ Made(S, c) = without
    BY <1>5 DEF Made
  <2>2. UpOps(c) = Op("drop", c.column) /\ DownOps(c) = Op("add", c.column)
    BY <1>5 DEF UpOps, DownOps
  <2>3. QED
    BY <2>1, <2>2, <1>2, <1>3
<1>6. CASE c.type = "alter_column"
  <2>1. S = with /\ Made(S, c) = with
    BY <1>6 DEF Made
  <2>2. /\ UpOps(c) = Op("drop", c.column) \o Op("add", c.column)
        /\ DownOps(c) = Op("drop", c.column) \o Op("add", c.column)
    BY <1>6 DEF UpOps, DownOps
  <2>3. LET o == Op("drop", c.column) \o Op("add", c.column)
        IN  o \in Seq(Operations) /\ Leads(o, with, with)
    BY <1>2, <1>3, LeadsOn
  <2>4. QED
    BY <2>1, <2>2, <2>3
<1>7. QED
  BY <1>4, <1>5, <1>6 DEF ChangeTypes

\* A migration leads from the columns of the version before it to its own, and
\* its inverse leads back.
LEMMA MigrationLeads ==
    ASSUME ChangesFit, NEW v \in Versions
    PROVE  /\ BuildUp(v) \in Seq(Operations) /\ Leads(BuildUp(v), NamesAt(v - 1), NamesAt(v))
           /\ BuildDown(v) \in Seq(Operations) /\ Leads(BuildDown(v), NamesAt(v), NamesAt(v - 1))
<1>1. PICK s : s = Changes[v]
  OBVIOUS
<1> DEFINE C == [type : ChangeTypes, column : Names]
           n == Len(s)
           up == [i \in DOMAIN s |-> UpOps(s[i])]
           down == [i \in DOMAIN s |-> DownOps(s[i])]
           back == Reverse(down)
           st == [i \in 0..n |-> NamesAfter(UpTo(v, i))]
           ts == [i \in 0..n |-> st[n - i]]
<1>2. s \in Seq(C)
  BY <1>1, ChangesHaveTypes
<1>3. n \in Nat /\ DOMAIN s = 1..n
  <2> HIDE DEF C
  <2>1. QED
    BY <1>2, LenProperties
<1>4. ASSUME NEW i \in 0..n
      PROVE  st[i] \in SUBSET Names /\ ts[i] \in SUBSET Names
  BY <1>3, UpToIsPlaces, NamesAreNames
<1>5. ASSUME NEW i \in 1..n
      PROVE  /\ UpOps(s[i]) \in Seq(Operations) /\ Leads(UpOps(s[i]), st[i - 1], st[i])
             /\ DownOps(s[i]) \in Seq(Operations) /\ Leads(DownOps(s[i]), st[i], st[i - 1])
  <2>1. s[i] \in C
    <3> HIDE DEF C
    <3>1. QED
      BY <1>2, ElementOfSeq
  <2>2. st[i] = NamesAfter(UpTo(v, i)) /\ st[i - 1] = NamesAfter(UpTo(v, i - 1))
    BY <1>3
  <2>3. st[i - 1] \in SUBSET Names
    BY <1>3, <1>4
  <2> HIDE DEF st
  <2>4. st[i] = Made(st[i - 1], s[i]) /\ ((s[i].type = "add_column") <=> (s[i].column \notin st[i - 1]))
    BY <1>1, <2>2, NextChange
  <2>5. QED
    BY <2>1, <2>3, <2>4, OpsOfChange
<1>6. st[0] = NamesAt(v - 1) /\ st[n] = NamesAt(v) /\ ts[0] = NamesAt(v) /\ ts[n] = NamesAt(v - 1)
  BY <1>1, <1>3, NamesOfVersion
<1>7. /\ up \in Seq(Seq(Operations)) /\ Len(up) = n
      /\ \A i \in 1..n : up[i] = UpOps(s[i])
  <2>1. up = [i \in 1..n |-> UpOps(s[i])] /\ \A i \in 1..n : up[i] = UpOps(s[i])
    BY <1>3
  <2> HIDE DEF up
  <2>2. \A i \in 1..n : up[i] \in Seq(Operations)
    BY <2>1, <1>5
  <2>3. QED
    BY <1>3, <2>1, <2>2
<1>8. /\ back \in Seq(Seq(Operations)) /\ Len(back) = n
      /\ \A i \in 1..n : back[i] = DownOps(s[n - i + 1])
  <2>1. Len(down) = n /\ DOMAIN down = 1..n /\ \A i \in 1..n : down[i] = DownOps(s[i])
    BY <1>3
  <2>2. back = [i \in 1..n |-> down[n - i + 1]]
    BY <2>1 DEF Reverse
  <2>3. \A i \in 1..n : n - i + 1 \in 1..n
    BY <1>3
  <2> HIDE DEF back, down
  <2>4. \A i \in 1..n : back[i] = DownOps(s[n - i + 1])
    BY <2>1, <2>2, <2>3
  <2>5. \A i \in 1..n : back[i] \in Seq(Operations)
    BY <2>3, <2>4, <1>5
  <2>6. QED
    BY <1>3, <2>2, <2>4, <2>5
<1>9. ASSUME NEW i \in 1..n
      PROVE  Leads(up[i], st[i - 1], st[i])
  BY <1>5, <1>7
<1>10. ASSUME NEW i \in 1..n
       PROVE  Leads(back[i], ts[i - 1], ts[i])
  <2> DEFINE j == n - i + 1
  <2>1. j \in 1..n /\ ts[i - 1] = st[j] /\ ts[i] = st[j - 1]
    BY <1>3
  <2>2. QED
    BY <2>1, <1>5, <1>8
<1> HIDE DEF up, back, st, ts
<1>11. FlattenSeq(up) \in Seq(Operations) /\ Leads(FlattenSeq(up), st[0], st[n])
  BY <1>3, <1>4, <1>7, <1>9, FlatLeads
<1>12. FlattenSeq(back) \in Seq(Operations) /\ Leads(FlattenSeq(back), ts[0], ts[n])
  BY <1>3, <1>4, <1>8, <1>10, FlatLeads
<1>13. BuildUp(v) = FlattenSeq(up) /\ BuildDown(v) = FlattenSeq(back)
  BY <1>1 DEF BuildUp, BuildDown, up, back
<1>14. QED
  BY <1>6, <1>11, <1>12, <1>13

-----------------------------------------------------------------------------
(* The commands *)

\* Recorded versions without a gap are the first ones.
LEMMA RecordedAreFirst ==
    ASSUME NEW R \in SUBSET Versions, NoGap(R)
    PROVE  LET n == Cardinality(R)
           IN  /\ n \in Nat /\ R = 1..n
               /\ R # {} => Greatest(R) = n
               /\ Versions \ R # {} => Least(Versions \ R) = n + 1
<1>1. \E n \in Nat : R = 1..n
  <2>1. CASE R = {}
    BY <2>1
  <2>2. CASE R # {}
    <3>1. PICK m : m = Greatest(R)
      OBVIOUS
    <3>2. m \in R /\ \A w \in R : w <= m
      BY <3>1, <2>2, GreatestIsGreatest
    <3>3. m \in Nat /\ m <= Len(Changes) /\ Len(Changes) \in Nat
      BY <3>2, VersionsAreNat
    <3>4. ASSUME NEW u \in 1..m
          PROVE  u \in R
      <4>1. u \in Versions /\ (u = m \/ u < m)
        BY <3>3, VersionsAreNat
      <4>2. QED
        BY <4>1, <3>2 DEF NoGap
    <3>5. R \subseteq 1..m
      BY <3>2, <3>3, VersionsAreNat
    <3>6. QED
      BY <3>3, <3>4, <3>5
  <2>3. QED
    BY <2>1, <2>2
<1>2. PICK n \in Nat : R = 1..n
  BY <1>1
<1>3. Cardinality(R) = n
  <2>1. Cardinality(1..n) = n
    <3>1. Cardinality(1..n) = IF 1 > n THEN 0 ELSE n - 1 + 1
      BY FS_Interval
    <3>2. QED
      BY <3>1
  <2>2. QED
    BY <2>1, <1>2
<1>4. R # {} => Greatest(R) = n
  <2>1. SUFFICES ASSUME R # {} PROVE Greatest(R) = n
    OBVIOUS
  <2>2. PICK m : m = Greatest(R)
    OBVIOUS
  <2>3. m \in R /\ \A w \in R : w <= m
    BY <2>1, <2>2, GreatestIsGreatest
  <2>4. n \in R /\ m \in Nat
    BY <2>1, <2>3, <1>2
  <2>5. QED
    BY <2>2, <2>3, <2>4, <1>2
<1>5. Versions \ R # {} => Least(Versions \ R) = n + 1
  <2>1. SUFFICES ASSUME Versions \ R # {} PROVE Least(Versions \ R) = n + 1
    OBVIOUS
  <2>2. PICK P : P = Versions \ R
    OBVIOUS
  <2>3. PICK m : m = Least(P)
    OBVIOUS
  <2>4. P \in SUBSET Versions /\ P # {}
    BY <2>1, <2>2
  <2>5. m \in P /\ \A w \in P : m <= w
    BY <2>3, <2>4, LeastIsLeast
  <2>6. m \in Nat /\ m > n /\ m <= Len(Changes) /\ Len(Changes) \in Nat
    BY <2>2, <2>5, <1>2, VersionsAreNat
  <2>7. n + 1 \in P
    BY <2>2, <2>6, <1>2, VersionsAreNat
  <2>8. m <= n + 1
    BY <2>5, <2>7
  <2>9. m = n + 1
    BY <2>6, <2>8
  <2>10. QED
    BY <2>2, <2>3, <2>9
<1>6. QED
  BY <1>2, <1>3, <1>4, <1>5

\* What an operation that applies makes of one column of each name.
LEMMA AfterOneEach ==
    ASSUME NEW S \in SUBSET Names, NEW o \in Operations, Applies(S, o)
    PROVE  After(OneEach(S), o) = OneEach(Effect(S, o))
<1>1. o.column \in Names /\ o.op \in {"add", "drop"}
  BY DEF Operations
<1>2. ASSUME NEW n \in Names
      PROVE  After(OneEach(S), o)[n] = OneEach(Effect(S, o))[n]
  BY <1>1 DEF After, OneEach, Effect, Applies
<1>3. QED
  BY <1>2 DEF After, OneEach

LEMMA OneEachType == \A S : OneEach(S) \in [Names -> Nat]
BY DEF OneEach

LEMMA NoCommandType == NoCommand \in Commands
<1>1. <<>> \in Seq(Operations) /\ {} \in SUBSET Versions
  OBVIOUS
<1>2. QED
  BY <1>1 DEF NoCommand, Commands

LEMMA InitSchemaInv == MigInit => SchemaInv
<1> SUFFICES ASSUME MigInit PROVE SchemaInv
  OBVIOUS
<1>1. CommandTypes
  <2>1. NoCommand.read = <<>>
    BY DEF NoCommand
  <2>2. QED
    BY <2>1, NoCommandType, OneEachType DEF MigInit, CommandTypes
<1>2. Cardinality(records) = 0
  BY FS_EmptySet DEF MigInit
<1>3. NamesAt(0) = FirstColumns
  <2>1. {q \in ChangePlaces : q[1] <= 0} = {}
    <3>1. \A q \in ChangePlaces : q[1] \in Nat /\ q[1] >= 1
      BY PlacesAre, VersionsAreNat
    <3>2. QED
      BY <3>1
  <2>2. NamesAfter({}) = FirstColumns
    BY DEF NamesAfter
  <2>3. QED
    BY <2>1, <2>2 DEF NamesAt
<1>4. InOrder(FirstColumns)
  <2>1. Running = {}
    BY DEF MigInit, Running, NoCommand
  <2>2. QED
    BY <1>2, <1>3, <2>1 DEF MigInit, InOrder
<1>5. QED
  BY <1>1, <1>4, InitMigInv, ChangesHaveTypes DEF SchemaInv

\* The types are kept when one process has another command.
LEMMA CommandTypesKept ==
    ASSUME CommandTypes, NEW p \in MigProcesses, NEW X \in Commands,
           X.kind = "none" => X = NoCommand, X.read # <<>> => X.ops # <<>>,
           command' = [command EXCEPT ![p] = X], columns' \in [Names -> Nat]
    PROVE  /\ CommandTypes'
           /\ \A q \in MigProcesses : command'[q] = IF q = p THEN X ELSE command[q]
<1>1. \A q \in MigProcesses : command'[q] = IF q = p THEN X ELSE command[q]
  BY DEF CommandTypes
<1>2. command' \in [MigProcesses -> Commands]
  BY DEF CommandTypes
<1>3. \A q \in MigProcesses : /\ command'[q].kind = "none" => command'[q] = NoCommand
                              /\ command'[q].read # <<>> => command'[q].ops # <<>>
  BY <1>1 DEF CommandTypes
<1>4. QED
  BY <1>1, <1>2, <1>3 DEF CommandTypes

\* Who runs after a command of p is replaced by X.
LEMMA RunningNext ==
    ASSUME NEW p \in MigProcesses, NEW X,
           \A q \in MigProcesses : command'[q] = IF q = p THEN X ELSE command[q]
    PROVE  Running' = (Running \ {p}) \union (IF X.kind = "none" THEN {} ELSE {p})
<1>1. Running' = {q \in MigProcesses : command'[q].kind # "none"}
  BY DEF Running
<1>2. QED
  BY <1>1 DEF Running

\* A command begins alone, or the commands overlap from then on.
LEMMA BeginSchemaInv ==
    ASSUME SchemaInv, MigInv', NEW p \in MigProcesses, NEW X \in Commands,
           X.kind # "none", X.read = <<>>, Begin(p, X),
           \A S \in SUBSET Names :
              overlap = {} /\ S = NamesAt(Cardinality(records)) =>
                 /\ X.kind = "up" => /\ X.todo = Versions \ records
                                     /\ Leads(X.ops, S, NamesAt(Cardinality(records) + 1))
                 /\ X.kind = "down" => Leads(X.ops, S, NamesAt(Cardinality(records) - 1))
    PROVE  SchemaInv'
<1>1. /\ command' = [command EXCEPT ![p] = X]
      /\ columns' = columns /\ records' = records /\ broken' = broken
      /\ overlap' = {} => overlap = {} /\ Running = {}
  BY DEF Begin
<1>2. /\ CommandTypes'
      /\ \A q \in MigProcesses : command'[q] = IF q = p THEN X ELSE command[q]
  <2>1. CommandTypes /\ columns' \in [Names -> Nat]
    BY <1>1 DEF SchemaInv, CommandTypes
  <2>2. QED
    BY <1>1, <2>1, CommandTypesKept
<1>3. ASSUME overlap' = {}, ~broken'
      PROVE  \E S \in SUBSET Names : InOrder(S)'
  <2>1. overlap = {} /\ ~broken /\ Running = {}
    BY <1>1, <1>3
  <2>2. PICK S \in SUBSET Names : InOrder(S)
    BY <2>1 DEF SchemaInv
  <2>3. S = NamesAt(Cardinality(records))
    BY <2>1, <2>2 DEF InOrder
  <2>4. Running' = {p}
    <3>1. Running' = (Running \ {p}) \union (IF X.kind = "none" THEN {} ELSE {p})
      BY <1>2, RunningNext
    <3>2. QED
      BY <3>1, <2>1
  <2>5. OnItsWay(p, S)'
    BY <1>1, <1>2, <2>1, <2>3 DEF OnItsWay
  <2>6. columns' = OneEach(S)
    BY <1>1, <2>2 DEF InOrder
  <2>7. InOrder(S)'
    BY <2>4, <2>5, <2>6 DEF InOrder
  <2>8. QED
    BY <2>7
<1>4. QED
  BY <1>2, <1>3 DEF SchemaInv

LEMMA UpSchemaInv ==
    ASSUME ChangesFit, SchemaInv, MigInv', NEW p \in MigProcesses, Up(p)
    PROVE  SchemaInv'
<1> DEFINE n == Cardinality(records)
           pending == Versions \ records
           X == [kind |-> "up", todo |-> pending, ops |-> BuildUp(Least(pending)), read |-> <<>>]
<1>1. pending # {} /\ Begin(p, X)
  BY DEF Up
<1>2. PICK v : v = Least(pending)
  OBVIOUS
<1>3. v \in Versions
  BY <1>1, <1>2, LeastIsLeast
<1>4. BuildUp(v) \in Seq(Operations) /\ Leads(BuildUp(v), NamesAt(v - 1), NamesAt(v))
  BY <1>3, MigrationLeads
<1>5. X \in Commands
  BY <1>2, <1>4 DEF Commands
<1>6. ASSUME overlap = {}
      PROVE  Leads(X.ops, NamesAt(n), NamesAt(n + 1))
  <2>1. NoGap(records) /\ records \in SUBSET Versions
    BY <1>6 DEF SchemaInv, MigInv, MigTypes
  <2>2. PICK R : R = records
    OBVIOUS
  <2>3. Cardinality(R) \in Nat /\ Least(Versions \ R) = Cardinality(R) + 1
    BY <2>1, <2>2, <1>1, RecordedAreFirst
  <2>4. v = n + 1 /\ v - 1 = n
    BY <1>2, <2>2, <2>3
  <2>5. QED
    BY <1>2, <1>4, <2>4
<1>7. X.kind = "up" /\ X.read = <<>> /\ X.todo = Versions \ records
  OBVIOUS
<1> HIDE DEF X
<1>8. QED
  BY <1>1, <1>5, <1>6, <1>7, BeginSchemaInv

LEMMA DownSchemaInv ==
    ASSUME ChangesFit, SchemaInv, MigInv', NEW p \in MigProcesses, Down(p)
    PROVE  SchemaInv'
<1> DEFINE n == Cardinality(records)
           X == [kind |-> "down", todo |-> {Greatest(records)}, ops |-> BuildDown(Greatest(records)),
                 read |-> <<>>]
<1>1. records # {} /\ Begin(p, X) /\ records \in SUBSET Versions
  BY DEF Down, SchemaInv, MigInv, MigTypes
<1>2. PICK R : R = records
  OBVIOUS
<1>3. PICK v : v = Greatest(R)
  OBVIOUS
<1>4. v \in Versions
  BY <1>1, <1>2, <1>3, GreatestIsGreatest
<1>5. BuildDown(v) \in Seq(Operations) /\ Leads(BuildDown(v), NamesAt(v), NamesAt(v - 1))
  BY <1>4, MigrationLeads
<1>6. X \in Commands
  BY <1>2, <1>3, <1>4, <1>5 DEF Commands
<1>7. ASSUME overlap = {}
      PROVE  Leads(X.ops, NamesAt(n), NamesAt(n - 1))
  <2>1. NoGap(R)
    BY <1>2, <1>7 DEF SchemaInv, MigInv
  <2>2. v = n
    BY <1>1, <1>2, <1>3, <2>1, RecordedAreFirst
  <2>3. QED
    BY <1>2, <1>3, <1>5, <2>2
<1>8. X.kind = "down" /\ X.read = <<>>
  OBVIOUS
<1> HIDE DEF X
<1>9. QED
  BY <1>1, <1>6, <1>7, <1>8, BeginSchemaInv

LEMMA ReadSchemaInv ==
    ASSUME SchemaInv, MigInv', NEW p \in MigProcesses, ReadColumns(p)
    PROVE  SchemaInv'
<1> DEFINE X == [command[p] EXCEPT !.read = <<columns>>]
<1>1. /\ command' = [command EXCEPT ![p] = X] /\ command[p].ops # <<>>
      /\ columns' = columns /\ records' = records /\ broken' = broken /\ overlap' = overlap
  BY DEF ReadColumns
<1>2. CommandTypes /\ command[p] \in Commands /\ columns \in [Names -> Nat]
  BY DEF SchemaInv, CommandTypes
<1>3. command[p].kind # "none"
  BY <1>1, <1>2 DEF CommandTypes, NoCommand
<1>4. /\ X \in Commands /\ X.kind = command[p].kind /\ X.todo = command[p].todo
      /\ X.ops = command[p].ops /\ X.read = <<columns>>
  BY <1>2 DEF Commands
<1> HIDE DEF X
<1>5. /\ CommandTypes'
      /\ \A q \in MigProcesses : command'[q] = IF q = p THEN X ELSE command[q]
  BY <1>1, <1>2, <1>3, <1>4, CommandTypesKept
<1>6. Running' = Running
  BY <1>3, <1>4, <1>5 DEF Running
<1>7. ASSUME overlap = {}, ~broken
      PROVE  \E S \in SUBSET Names : InOrder(S)'
  <2>1. PICK S \in SUBSET Names : InOrder(S)
    BY <1>7 DEF SchemaInv
  <2>2. p \in Running
    BY <1>3 DEF Running
  <2>3. Running = {p} /\ OnItsWay(p, S) /\ columns = OneEach(S)
    BY <2>1, <2>2 DEF InOrder
  <2>4. OnItsWay(p, S)'
    BY <1>1, <1>4, <1>5, <2>3 DEF OnItsWay
  <2>5. InOrder(S)'
    BY <1>1, <1>6, <2>3, <2>4 DEF InOrder
  <2>6. QED
    BY <2>5
<1>8. QED
  BY <1>1, <1>5, <1>7 DEF SchemaInv

LEMMA WriteSchemaInv ==
    ASSUME SchemaInv, MigInv', NEW p \in MigProcesses, WriteColumns(p)
    PROVE  SchemaInv'
<1>0. PICK o : o = Head(command[p].ops)
  OBVIOUS
<1> DEFINE X == [command[p] EXCEPT !.read = <<>>, !.ops = Tail(@)]
<1>1. /\ command' = [command EXCEPT ![p] = X] /\ command[p].read # <<>>
      /\ columns' = After(Head(command[p].read), o)
      /\ records' = records /\ broken' = broken /\ overlap' = overlap
  BY <1>0 DEF WriteColumns
<1>2. CommandTypes /\ command[p] \in Commands /\ columns \in [Names -> Nat]
  BY DEF SchemaInv, CommandTypes
<1>3. command[p].kind # "none"
  BY <1>1, <1>2 DEF CommandTypes, NoCommand
<1>4. /\ command[p].ops \in Seq(Operations) /\ command[p].ops # <<>>
      /\ Head(command[p].read) \in [Names -> Nat]
  BY <1>1, <1>2 DEF CommandTypes, Commands
<1>5. o \in Operations /\ Tail(command[p].ops) \in Seq(Operations)
  BY <1>0, <1>4, HeadTailProperties
<1>6. /\ X \in Commands /\ X.kind = command[p].kind /\ X.todo = command[p].todo
      /\ X.ops = Tail(command[p].ops) /\ X.read = <<>>
  BY <1>2, <1>5 DEF Commands
<1>7. columns' \in [Names -> Nat]
  <2>1. PICK c \in [Names -> Nat] : c = Head(command[p].read)
    BY <1>4
  <2>2. o.column \in Names
    BY <1>5 DEF Operations
  <2>3. After(c, o) \in [Names -> Nat]
    BY <2>2 DEF After
  <2>4. QED
    BY <1>1, <2>1, <2>3
<1> HIDE DEF X
<1>8. /\ CommandTypes'
      /\ \A q \in MigProcesses : command'[q] = IF q = p THEN X ELSE command[q]
  BY <1>1, <1>2, <1>3, <1>6, <1>7, CommandTypesKept
<1>9. Running' = Running
  BY <1>3, <1>6, <1>8 DEF Running
<1>10. ASSUME overlap = {}, ~broken
       PROVE  \E S \in SUBSET Names : InOrder(S)'
  <2>1. PICK S \in SUBSET Names : InOrder(S)
    BY <1>10 DEF SchemaInv
  <2>2. p \in Running
    BY <1>3 DEF Running
  <2>3. Running = {p} /\ OnItsWay(p, S) /\ columns = OneEach(S)
    BY <2>1, <2>2 DEF InOrder
  <2>4. Head(command[p].read) = OneEach(S)
    <3>1. command[p].read = <<columns>>
      BY <1>1, <2>3 DEF OnItsWay
    <3>2. QED
      BY <3>1, <2>3
  <2>0. PICK E : E = Effect(S, o)
    OBVIOUS
  <2> DEFINE T == IF command[p].kind = "up" THEN NamesAt(Cardinality(records) + 1)
                  ELSE NamesAt(Cardinality(records) - 1)
  <2>5. Leads(command[p].ops, S, T)
    BY <1>2, <1>3, <2>3 DEF OnItsWay, Commands
  <2> HIDE DEF T
  <2>6. Applies(S, o) /\ E \in SUBSET Names /\ Leads(X.ops, E, T)
    BY <1>0, <1>4, <1>6, <2>0, <2>5, FirstOperation
  <2>7. columns' = OneEach(E)
    <3>1. After(OneEach(S), o) = OneEach(E)
      BY <1>5, <2>0, <2>6, AfterOneEach
    <3>2. QED
      BY <1>1, <2>4, <3>1
  <2>8. OnItsWay(p, E)'
    <3>1. command'[p] = X
      BY <1>8
    <3>2. X.kind = "up" => X.todo = Versions \ records
      BY <1>6, <2>3 DEF OnItsWay
    <3>3. QED
      BY <1>1, <1>6, <2>6, <3>1, <3>2 DEF OnItsWay, T
  <2>9. InOrder(E)'
    BY <1>9, <2>2, <2>3, <2>7, <2>8 DEF InOrder
  <2>10. QED
    BY <2>6, <2>9
<1>11. QED
  BY <1>1, <1>8, <1>10 DEF SchemaInv

LEMMA FailsSchemaInv ==
    ASSUME SchemaInv, MigInv', NEW p \in MigProcesses, Fails(p)
    PROVE  SchemaInv'
<1>1. /\ command' = [command EXCEPT ![p] = NoCommand]
      /\ columns' = columns /\ broken'
  BY DEF Fails
<1>2. NoCommand \in Commands /\ NoCommand.read = <<>>
  BY NoCommandType DEF NoCommand
<1>3. CommandTypes /\ columns' \in [Names -> Nat]
  BY <1>1 DEF SchemaInv, CommandTypes
<1>4. CommandTypes'
  BY <1>1, <1>2, <1>3, CommandTypesKept
<1>5. QED
  BY <1>1, <1>4 DEF SchemaInv

\* The record is written when the columns are those of the migration, and the
\* next migration goes on from there.
LEMMA RecordSchemaInv ==
    ASSUME ChangesFit, SchemaInv, MigInv', NEW p \in MigProcesses, Record(p)
    PROVE  SchemaInv'
<1>1. PICK v : v = Least(command[p].todo)
  OBVIOUS
<1>2. PICK X : X = NextMigration(command[p], v)
  OBVIOUS
<1> DEFINE left == command[p].todo \ {v}
<1>3. /\ command' = [command EXCEPT ![p] = X] /\ command[p].kind # "none" /\ command[p].ops = <<>>
      /\ records' = IF command[p].kind = "up" THEN records \union {v} ELSE records \ {v}
      /\ columns' = columns /\ broken' = broken /\ overlap' = overlap
  BY <1>1, <1>2 DEF Record
<1>4. /\ CommandTypes /\ command[p] \in Commands /\ columns \in [Names -> Nat]
      /\ command[p].todo \in SUBSET Versions /\ command[p].todo # {}
  BY <1>3 DEF SchemaInv, CommandTypes, MigInv, MigTypes
<1>5. v \in command[p].todo
  BY <1>1, <1>4, LeastIsLeast
<1>6. left = {} => X = NoCommand
  BY <1>2, <1>5 DEF NextMigration
<1>7. left # {} =>
        /\ X = [kind |-> command[p].kind, todo |-> left, ops |-> BuildUp(Least(left)), read |-> <<>>]
        /\ BuildUp(Least(left)) \in Seq(Operations)
        /\ Leads(BuildUp(Least(left)), NamesAt(Least(left) - 1), NamesAt(Least(left)))
  <2>1. SUFFICES ASSUME left # {}
                 PROVE  /\ X = [kind |-> command[p].kind, todo |-> left,
                                ops |-> BuildUp(Least(left)), read |-> <<>>]
                        /\ BuildUp(Least(left)) \in Seq(Operations)
                        /\ Leads(BuildUp(Least(left)), NamesAt(Least(left) - 1), NamesAt(Least(left)))
    OBVIOUS
  <2>2. X = [kind |-> command[p].kind, todo |-> left, ops |-> BuildUp(Least(left)), read |-> <<>>]
    BY <1>2, <2>1 DEF NextMigration
  <2>3. PICK w : w = Least(left)
    OBVIOUS
  <2>4. w \in Versions
    BY <1>4, <2>1, <2>3, LeastIsLeast
  <2>5. BuildUp(w) \in Seq(Operations) /\ Leads(BuildUp(w), NamesAt(w - 1), NamesAt(w))
    BY <2>4, MigrationLeads
  <2>6. QED
    BY <2>2, <2>3, <2>5
<1>8. X \in Commands /\ (X.kind = "none" => X = NoCommand) /\ X.read = <<>>
  <2>1. CASE left = {}
    <3>1. X = NoCommand /\ NoCommand.read = <<>>
      BY <2>1, <1>6 DEF NoCommand
    <3>2. QED
      BY <3>1, NoCommandType
  <2>2. CASE left # {}
    <3>1. PICK ops \in Seq(Operations) : ops = BuildUp(Least(left))
      BY <2>2, <1>7
    <3>2. PICK L \in SUBSET Versions : L = left
      BY <1>4
    <3>3. PICK k \in {"up", "down"} : k = command[p].kind
      BY <1>3, <1>4 DEF Commands
    <3>4. X = [kind |-> k, todo |-> L, ops |-> ops, read |-> <<>>]
      BY <2>2, <1>7, <3>1, <3>2, <3>3
    <3>5. QED
      BY <3>4 DEF Commands
  <2>3. QED
    BY <2>1, <2>2
<1> HIDE DEF left
<1>9. /\ CommandTypes'
      /\ \A q \in MigProcesses : command'[q] = IF q = p THEN X ELSE command[q]
  BY <1>3, <1>4, <1>8, CommandTypesKept
<1>10. ASSUME overlap = {}, ~broken
       PROVE  \E S \in SUBSET Names : InOrder(S)'
  <2>1. PICK S \in SUBSET Names : InOrder(S)
    BY <1>10 DEF SchemaInv
  <2>2. Running = {p} /\ OnItsWay(p, S) /\ columns = OneEach(S)
    BY <1>3, <2>1 DEF InOrder, Running
  <2>3. Running' = IF X.kind = "none" THEN {} ELSE {p}
    <3>1. Running' = (Running \ {p}) \union (IF X.kind = "none" THEN {} ELSE {p})
      BY <1>9, RunningNext
    <3>2. QED
      BY <3>1, <2>2
  <2>4. /\ NoGap(records) /\ records \in SUBSET Versions
        /\ NoGap(records)' /\ records' \in SUBSET Versions
    BY <1>3, <1>10 DEF SchemaInv, MigInv, MigTypes
  <2>5. PICK R : R = records
    OBVIOUS
  <2>6. PICK Rn : Rn = records'
    OBVIOUS
  <2>7. PICK n : n = Cardinality(R)
    OBVIOUS
  <2>8. n \in Nat /\ R = 1..n /\ (R # {} => Greatest(R) = n)
        /\ (Versions \ R # {} => Least(Versions \ R) = n + 1)
    BY <2>4, <2>5, <2>7, RecordedAreFirst
  <2>9. CASE command[p].kind = "up"
    <3>1. command[p].todo = Versions \ R /\ Leads(<<>>, S, NamesAt(n + 1))
      BY <1>3, <2>2, <2>5, <2>7, <2>9 DEF OnItsWay
    <3>2. S = NamesAt(n + 1)
      BY <3>1, NoOperation
    <3>3. v = n + 1
      BY <1>1, <1>4, <2>8, <3>1
    <3>4. Rn = 1..(n + 1) /\ Rn = R \union {v}
      BY <1>3, <2>5, <2>6, <2>8, <2>9, <3>3
    <3>5. Cardinality(Rn) = n + 1
      BY <2>8, <3>4, FS_Interval
    <3>6. left = Versions \ Rn
      BY <3>1, <3>4 DEF left
    <3>7. CASE left = {}
      <4>1. Running' = {}
        BY <2>3, <1>6, <3>7 DEF NoCommand
      <4>2. InOrder(S)'
        BY <4>1, <1>3, <2>2, <2>6, <3>2, <3>5 DEF InOrder
      <4>3. QED
        BY <4>2
    <3>8. CASE left # {}
      <4>1. Least(Versions \ Rn) = Cardinality(Rn) + 1
        <5>1. NoGap(Rn) /\ Rn \in SUBSET Versions /\ Versions \ Rn # {}
          BY <2>4, <2>6, <3>6, <3>8 DEF NoGap
        <5>2. QED
          BY <5>1, RecordedAreFirst
      <4>2. Least(left) = n + 2 /\ Least(left) - 1 = n + 1 /\ n + 2 = n + 1 + 1
        BY <4>1, <2>8, <3>5, <3>6
      <4>3. /\ X.kind = "up" /\ X.todo = left /\ X.read = <<>>
            /\ Leads(X.ops, S, NamesAt(n + 1 + 1))
        BY <1>7, <2>9, <3>2, <3>8, <4>2
      <4>4. command'[p] = X
        BY <1>9
      <4>5. OnItsWay(p, S)'
        BY <2>6, <3>5, <3>6, <4>3, <4>4 DEF OnItsWay
      <4>6. Running' = {p}
        BY <2>3, <4>3
      <4>7. InOrder(S)'
        BY <4>5, <4>6, <1>3, <2>2 DEF InOrder
      <4>8. QED
        BY <4>7
    <3>9. QED
      BY <3>7, <3>8
  <2>10. CASE command[p].kind = "down"
    <3>1. Leads(<<>>, S, NamesAt(n - 1))
      BY <1>3, <2>2, <2>5, <2>7, <2>10 DEF OnItsWay
    <3>2. S = NamesAt(n - 1)
      BY <3>1, NoOperation
    <3>3. PICK g \in R : command[p].todo = {g} /\ \A w \in R : w <= g
      BY <1>10, <2>5, <2>10 DEF SchemaInv, MigInv, DownsAlone
    <3>4. v = g /\ left = {}
      BY <1>5, <3>3 DEF left
    <3>5. g = n /\ n > 0
      BY <2>8, <3>3
    <3>6. Rn = 1..(n - 1)
      BY <1>3, <2>5, <2>6, <2>8, <2>10, <3>4, <3>5
    <3>7. Cardinality(Rn) = n - 1
      BY <2>8, <3>5, <3>6, FS_Interval
    <3>8. Running' = {}
      BY <2>3, <1>6, <3>4 DEF NoCommand
    <3>9. InOrder(S)'
      BY <3>8, <1>3, <2>2, <2>6, <3>2, <3>7 DEF InOrder
    <3>10. QED
      BY <3>9
  <2>11. QED
    BY <1>3, <1>4, <2>9, <2>10 DEF Commands
<1>11. QED
  BY <1>3, <1>9, <1>10 DEF SchemaInv

LEMMA NextSchemaInv ==
    ASSUME ChangesFit, SchemaInv, [MigNext]_migVars
    PROVE  SchemaInv'
<1>1. MigInv'
  BY NextMigInv DEF SchemaInv
<1>2. ASSUME NEW p \in MigProcesses, Up(p)
      PROVE  SchemaInv'
  BY <1>1, <1>2, UpSchemaInv
<1>3. ASSUME NEW p \in MigProcesses, Down(p)
      PROVE  SchemaInv'
  BY <1>1, <1>3, DownSchemaInv
<1>4. ASSUME NEW p \in MigProcesses, ReadColumns(p)
      PROVE  SchemaInv'
  BY <1>1, <1>4, ReadSchemaInv
<1>5. ASSUME NEW p \in MigProcesses, WriteColumns(p)
      PROVE  SchemaInv'
  BY <1>1, <1>5, WriteSchemaInv
<1>6. ASSUME NEW p \in MigProcesses, Record(p)
      PROVE  SchemaInv'
  BY <1>1, <1>6, RecordSchemaInv
<1>7. ASSUME NEW p \in MigProcesses, Fails(p)
      PROVE  SchemaInv'
  BY <1>1, <1>7, FailsSchemaInv
<1>8. CASE UNCHANGED migVars
  BY <1>1, <1>8 DEF migVars, SchemaInv, CommandTypes, InOrder, OnItsWay, Running
<1>9. QED
  BY <1>2, <1>3, <1>4, <1>5, <1>6, <1>7, <1>8 DEF MigNext

\* For any migrations whose changes fit one another and any number of processes:
\* when the commands have run one after the other and none has failed, the
\* object has the columns of the recorded migrations, each once
\* (migration-generator.ts:46-110, migration-runner.ts:57-123).
THEOREM SchemaIsRecorded ==
    ASSUME ChangesFit
    PROVE  MigSpec => []SchemaMatchesRecords
<1>1. SchemaInv => SchemaMatchesRecords
  BY DEF SchemaInv, InOrder, SchemaMatchesRecords
<1>2. SchemaInv /\ [MigNext]_migVars => SchemaInv'
  BY NextSchemaInv
<1>3. QED
  BY InitSchemaInv, <1>1, <1>2, PTL DEF MigSpec

-----------------------------------------------------------------------------
(***************************************************************************)
(* Dead letters: none is lost, for any jobs, any number of replays and     *)
(* purges that overlap, and wherever the process dies.                     *)
(***************************************************************************)

\* The shape of a call of replayDeadLetter, as far as the argument needs it.
LettersShape ==
    /\ DOMAIN replay = Replayers
    /\ \A r \in Replayers : DOMAIN replay[r] = {"pc", "letter"}

\* A call that is about to remove its letter has stored a job for it.
SavedIsReplayed ==
    \A r \in Replayers : replay[r].pc = "saved" => replay[r].letter \in replayed

LettersInv == LettersShape /\ SavedIsReplayed

LEMMA InitLettersInv == LettersInit => LettersInv
  BY DEF LettersInit, LettersInv, LettersShape, SavedIsReplayed, NoReplay

\* A step that leaves these variables alone keeps the invariant.
LEMMA KeptLettersInv == ASSUME LettersInv, UNCHANGED <<replay, replayed>> PROVE LettersInv'
  BY DEF LettersInv, LettersShape, SavedIsReplayed

\* A replay moves letters, and copies none.
LEMMA ReplayLettersInv == ASSUME LettersInv, ReplayStep PROVE LettersInv'
<1>1. ASSUME NEW r \in Replayers, NEW l \in letters, ReplayDeadLetter(r, l) PROVE LettersInv'
  BY <1>1 DEF ReplayDeadLetter, LettersInv, LettersShape, SavedIsReplayed
<1>2. ASSUME NEW r \in Replayers, SaveReplay(r) PROVE LettersInv'
  BY <1>2 DEF SaveReplay, LettersInv, LettersShape, SavedIsReplayed
<1>3. ASSUME NEW r \in Replayers, RemoveLetter(r) PROVE LettersInv'
  BY <1>3 DEF RemoveLetter, LettersInv, LettersShape, SavedIsReplayed, NoReplay
<1> QED
  BY <1>1, <1>2, <1>3 DEF ReplayStep

LEMMA StepLettersInv == LettersInv /\ [LettersNext]_lettersVars => LettersInv'
<1> SUFFICES ASSUME LettersInv, [LettersNext]_lettersVars PROVE LettersInv'
  OBVIOUS
<1>1. CASE JobStep \/ PurgeStep \/ LettersTick \/ UNCHANGED lettersVars
  <2>1. UNCHANGED <<replay, replayed>>
    BY <1>1 DEF JobStep, JobCompletes, JobFails, MoveToDeadLetter, PurgeStep,
                PurgeDeadLetters, PurgeNext, LettersTick, lettersVars
  <2> QED BY <2>1, KeptLettersInv
<1>2. CASE ReplayStep
  BY <1>2, ReplayLettersInv
<1>3. CASE Crash
  BY <1>3 DEF Crash, LettersInv, LettersShape, SavedIsReplayed, NoReplay
<1> QED
  BY <1>1, <1>2, <1>3 DEF LettersNext

\* Only two steps remove letters: the end of a replay, whose letter has a job by
\* the invariant, and a purge that has found the letter old.
LEMMA LettersStepKeeps ==
    ASSUME LettersInv, [LettersNext]_lettersVars, NEW l \in letters \ letters'
    PROVE  l \in replayed \/ (l \in purge.todo /\ l.at < purge.olderThan)
<1>1. CASE ReplayStep
  <2>1. PICK r \in Replayers : RemoveLetter(r)
    BY <1>1 DEF ReplayStep, ReplayDeadLetter, SaveReplay
  <2>2. l = replay[r].letter
    BY <2>1 DEF RemoveLetter
  <2> QED BY <2>1, <2>2 DEF RemoveLetter, LettersInv, SavedIsReplayed
<1>2. CASE PurgeStep
  <2>1. PICK k \in purge.todo : PurgeNext(k)
    BY <1>2 DEF PurgeStep, PurgeDeadLetters
  <2>2. l = k /\ k.at < purge.olderThan
    BY <2>1 DEF PurgeNext
  <2> QED BY <2>2
<1>3. CASE JobStep \/ Crash \/ LettersTick \/ UNCHANGED lettersVars
  <2>1. letters \subseteq letters'
    BY <1>3 DEF JobStep, JobCompletes, JobFails, MoveToDeadLetter, Crash, LettersTick,
                lettersVars
  <2> QED BY <2>1
<1> QED
  BY <1>1, <1>2, <1>3 DEF LettersNext

\* A letter leaves the queue only for a job that has been stored, or by a purge
\* that found it older than its limit (persistent-storage.ts:307-310, 319-335).
THEOREM NoLetterIsLost == LettersSpec => LettersKept
<1>1. LettersInv /\ [LettersNext]_lettersVars
        => [\A l \in letters \ letters' :
              l \in replayed \/ (l \in purge.todo /\ l.at < purge.olderThan)]_lettersVars
  BY LettersStepKeeps
<1> QED
  BY <1>1, InitLettersInv, StepLettersInv, PTL DEF LettersSpec, LettersKept

-----------------------------------------------------------------------------
(***************************************************************************)
(* Telemetry: every ended span is accounted for, for any number of exports *)
(* under way.  The argument: the spans of the buffer and of the batches    *)
(* are all different, so that they can be counted as one set.              *)
(***************************************************************************)

\* The spans of a buffer b and of batches E, and that they are all different.
SpansOf(b, E) == Range(b) \union UNION {Range(q) : q \in E}

AllDifferent(b, E) ==
    /\ \A i, j \in DOMAIN b : b[i] = b[j] => i = j
    /\ \A q \in E : \A i \in DOMAIN b, j \in DOMAIN q : b[i] # q[j]
    /\ \A p, q \in E : \A i \in DOMAIN p, j \in DOMAIN q : p[i] = q[j] => p = q /\ i = j

SpanTypes ==
    /\ spanBuffer \in Seq(Nat) /\ exporting \subseteq Seq(Nat)
    /\ created \in Nat /\ exported \in Nat /\ dropped \in Nat /\ cut \in Nat
    /\ Len(spanBuffer) <= MaxBufferSize

SpansCounted ==
    /\ AllDifferent(spanBuffer, exporting)
    /\ SpansOf(spanBuffer, exporting) \subseteq 1..created
    /\ created = exported + dropped + cut + Cardinality(SpansOf(spanBuffer, exporting))

SpanInv == SpanTypes /\ SpansCounted

\* x is one of the spans of a sequence.
Has(s, x) == \E i \in DOMAIN s : s[i] = x

\* A span is in the buffer or in a batch.
LEMMA SpanIs ==
  ASSUME NEW b, NEW E
  PROVE  \A x : x \in SpansOf(b, E) <=> Has(b, x) \/ \E q \in E : Has(q, x)
  BY DEF SpansOf, Range, Has

\* A set of numbers of ended spans is finite.
LEMMA SpansFinite ==
  ASSUME NEW n \in Nat, NEW W \in SUBSET (1..n)
  PROVE  IsFiniteSet(W) /\ Cardinality(W) \in Nat
<1>1. IsFiniteSet(1..n)
  BY FS_Interval
<1> QED
  BY <1>1, FS_Subset, FS_CardinalityType

\* The spans of a batch from position m + 1 on.
Rest(b, m) == {b[i] : i \in (m + 1)..Len(b)}

\* The last spans of a batch are as many as their positions.
LEMMA CountRest ==
  ASSUME NEW b \in Seq(Nat), \A i, j \in DOMAIN b : b[i] = b[j] => i = j,
         NEW m \in 0..Len(b)
  PROVE  IsFiniteSet(Rest(b, m)) /\ Cardinality(Rest(b, m)) = Len(b) - m
<1> DEFINE I == (m + 1)..Len(b)
           T == {b[i] : i \in I}
           f == [i \in I |-> b[i]]
<1>0. m \in Nat /\ Len(b) \in Nat /\ m <= Len(b)
  OBVIOUS
<1>1. IsFiniteSet(I) /\ Cardinality(I) = Len(b) - m
  <2>1. m + 1 \in Int /\ Len(b) \in Int
    BY <1>0
  <2>2. IsFiniteSet(I) /\ Cardinality(I) = IF m + 1 > Len(b) THEN 0 ELSE Len(b) - (m + 1) + 1
    BY <2>1, FS_Interval
  <2> QED
    BY <1>0, <2>2
<1>2. I \subseteq DOMAIN b
  OBVIOUS
<1>3. f \in [I -> T] /\ (\A t \in T : \E i \in I : f[i] = t)
  OBVIOUS
<1>4. IsInjective(f)
  BY <1>2 DEF IsInjective
<1>5. f \in Bijection(I, T)
  BY <1>3, <1>4 DEF Bijection, Injection, Surjection
<1> QED
  BY <1>1, <1>5, FS_Bijection DEF ExistsBijection, Rest

\* An empty buffer and one more batch.
LEMMA BufferTaken ==
  ASSUME NEW b, NEW E, AllDifferent(b, E)
  PROVE  /\ AllDifferent(<<>>, E \union {b})
         /\ SpansOf(<<>>, E \union {b}) = SpansOf(b, E)
<1>1. AllDifferent(<<>>, E \union {b})
  BY DEF AllDifferent
<1>2. Range(<<>>) = {}
  BY DEF Range
<1> QED
  BY <1>1, <1>2 DEF SpansOf

\* The first span leaves.
LEMMA OldestGone ==
  ASSUME NEW s \in Seq(Nat), s # <<>>, NEW E, AllDifferent(s, E)
  PROVE  /\ Tail(s) \in Seq(Nat) /\ Len(Tail(s)) = Len(s) - 1
         /\ AllDifferent(Tail(s), E)
         /\ s[1] \in SpansOf(s, E)
         /\ SpansOf(Tail(s), E) = SpansOf(s, E) \ {s[1]}
<1>1. PICK t : t = Tail(s)
  OBVIOUS
<1>2. /\ t \in Seq(Nat) /\ Len(t) = Len(s) - 1 /\ Len(s) \in Nat \ {0}
      /\ \A i \in 1..Len(t) : t[i] = s[i + 1]
  BY <1>1, HeadTailProperties
<1>d. PICK n \in Nat \ {0} : n = Len(s) /\ DOMAIN s = 1..n /\ DOMAIN t = 1..(n - 1)
  BY <1>2, LenProperties
<1>3. 1 \in DOMAIN s /\ \A i \in DOMAIN t : i + 1 \in DOMAIN s /\ i + 1 # 1 /\ t[i] = s[i + 1]
  BY <1>2, <1>d
<1>4. \A i \in DOMAIN s : i # 1 => i - 1 \in DOMAIN t /\ t[i - 1] = s[i]
  <2>1. TAKE i \in DOMAIN s
  <2>2. i # 1 => i - 1 \in 1..(n - 1) /\ (i - 1) + 1 = i
    BY <1>d
  <2> QED
    BY <1>2, <1>d, <2>2
<1>5. AllDifferent(t, E)
  <2>1. \A i, j \in DOMAIN t : t[i] = t[j] => i = j
    <3>1. TAKE i, j \in DOMAIN t
    <3>2. t[i] = t[j] => i + 1 = j + 1
      BY <1>3 DEF AllDifferent
    <3>3. i \in Nat /\ j \in Nat
      BY <1>d
    <3> QED
      BY <3>2, <3>3
  <2>2. \A q \in E : \A i \in DOMAIN t, j \in DOMAIN q : t[i] # q[j]
    BY <1>3 DEF AllDifferent
  <2> QED
    BY <2>1, <2>2 DEF AllDifferent
<1>6. \A x : Has(t, x) <=> Has(s, x) /\ x # s[1]
  <2>1. TAKE x
  <2>2. Has(t, x) => Has(s, x) /\ x # s[1]
    BY <1>3 DEF Has, AllDifferent
  <2>3. Has(s, x) /\ x # s[1] => Has(t, x)
    BY <1>4 DEF Has
  <2> QED
    BY <2>2, <2>3
<1>7. \A q \in E : ~Has(q, s[1])
  BY <1>3 DEF Has, AllDifferent
<1>8. \A x : x \in SpansOf(t, E) <=> x \in SpansOf(s, E) /\ x # s[1]
  BY <1>6, <1>7, SpanIs
<1>9. s[1] \in SpansOf(s, E)
  BY <1>3, SpanIs DEF Has
<1> QED
  BY <1>1, <1>2, <1>5, <1>8, <1>9

\* A new span comes last.
LEMMA NewestAdded ==
  ASSUME NEW s \in Seq(Nat), NEW E, AllDifferent(s, E), NEW n \in Nat, n \notin SpansOf(s, E)
  PROVE  /\ Append(s, n) \in Seq(Nat) /\ Len(Append(s, n)) = Len(s) + 1
         /\ AllDifferent(Append(s, n), E)
         /\ SpansOf(Append(s, n), E) = SpansOf(s, E) \union {n}
<1>1. PICK t : t = Append(s, n)
  OBVIOUS
<1>2. /\ t \in Seq(Nat) /\ Len(t) = Len(s) + 1
      /\ (\A i \in 1..Len(s) : t[i] = s[i]) /\ t[Len(s) + 1] = n
  BY <1>1, AppendProperties
<1>d. PICK k \in Nat : k = Len(s) /\ DOMAIN s = 1..k /\ DOMAIN t = 1..(k + 1)
  BY <1>2, LenProperties
<1>3. /\ \A i \in DOMAIN t : (i \in DOMAIN s /\ t[i] = s[i]) \/ (i = Len(s) + 1 /\ t[i] = n)
      /\ \A i \in DOMAIN s : i \in DOMAIN t /\ t[i] = s[i]
      /\ Len(s) + 1 \in DOMAIN t
  <2>1. \A i \in 1..(k + 1) : i \in 1..k \/ i = k + 1
    OBVIOUS
  <2>2. (\A i \in 1..k : i \in 1..(k + 1)) /\ k + 1 \in 1..(k + 1)
    OBVIOUS
  <2> QED
    BY <1>2, <1>d, <2>1, <2>2
<1>4. ~Has(s, n) /\ \A q \in E : ~Has(q, n)
  BY SpanIs
<1>5. AllDifferent(t, E)
  BY <1>3, <1>4 DEF AllDifferent, Has
<1>6. \A x : Has(t, x) <=> Has(s, x) \/ x = n
  BY <1>2, <1>3 DEF Has
<1>7. \A x : x \in SpansOf(t, E) <=> x \in SpansOf(s, E) \/ x = n
  BY <1>6, SpanIs
<1> QED
  BY <1>1, <1>2, <1>5, <1>7

\* A position of a concatenation that is behind its first sequence.
LEMMA BehindFirst ==
  ASSUME NEW m \in Nat, NEW k \in Nat, NEW i \in 1..(m + k), ~(i <= m)
  PROVE  i - m \in 1..k /\ m + (i - m) = i
  OBVIOUS

\* Equal distances from one number.
LEMMA SameShift ==
  ASSUME NEW m \in Nat, NEW i \in Nat, NEW j \in Nat, i - m = j - m
  PROVE  i = j
  OBVIOUS

\* The batch b leaves the batches E, which leaves F; its first m spans go
\* before those of the buffer s, which gives t, and the spans T are gone.
BatchLeft(s, E, b, m, t, F, T) ==
    /\ s \in Seq(Nat) /\ b \in Seq(Nat) /\ m \in 0..Len(b)
    /\ AllDifferent(s, E) /\ b \in E
    /\ t = SubSeq(b, 1, m) \o s /\ F = E \ {b} /\ T = Rest(b, m)

\* What is left when a batch has gone: its first m spans are back, the others are not.
LEMMA BatchGone ==
  ASSUME NEW s, NEW E, NEW b, NEW m, NEW t, NEW F, NEW T, BatchLeft(s, E, b, m, t, F, T)
  PROVE  /\ t \in Seq(Nat) /\ Len(t) = m + Len(s)
         /\ AllDifferent(t, F)
         /\ T \subseteq SpansOf(s, E)
         /\ SpansOf(t, F) = SpansOf(s, E) \ T
<1>1. s \in Seq(Nat) /\ b \in Seq(Nat) /\ m \in 0..Len(b)
  BY DEF BatchLeft
<1>2. /\ AllDifferent(s, E) /\ b \in E
      /\ t = SubSeq(b, 1, m) \o s /\ F = E \ {b} /\ T = Rest(b, m)
  BY DEF BatchLeft
<1>3. m \in Nat /\ m <= Len(b) /\ Len(b) \in Nat /\ Len(s) \in Nat
  BY <1>1
<1>4. /\ t \in Seq(Nat) /\ Len(t) = m + Len(s)
      /\ \A i \in 1..m : t[i] = b[i]
      /\ \A i \in 1..Len(s) : t[m + i] = s[i]
  <2>1. PICK a : a = SubSeq(b, 1, m)
    OBVIOUS
  <2>2. a \in Seq(Nat) /\ Len(a) = m /\ \A i \in 1..m : a[i] = b[i]
    BY <1>1, <1>3, <2>1, SubSeqProperties
  <2>3. /\ t \in Seq(Nat) /\ Len(t) = Len(a) + Len(s)
        /\ \A i \in 1..(Len(a) + Len(s)) : t[i] = IF i <= Len(a) THEN a[i] ELSE s[i - Len(a)]
    <3>1. a \in Seq(Nat) /\ t = a \o s
      BY <1>2, <2>1, <2>2
    <3> QED
      BY <1>1, <3>1, ConcatProperties
  <2>4. \A i \in 1..m : i \in 1..(m + Len(s)) /\ i <= m
    BY <1>3
  <2>5. \A i \in 1..Len(s) : m + i \in 1..(m + Len(s)) /\ ~(m + i <= m) /\ (m + i) - m = i
    BY <1>3
  <2> QED
    BY <2>2, <2>3, <2>4, <2>5
<1>d. PICK k, l \in Nat : /\ k = Len(s) /\ DOMAIN s = 1..k
                         /\ l = Len(b) /\ DOMAIN b = 1..l /\ DOMAIN t = 1..(m + k)
  BY <1>1, <1>3, <1>4, LenProperties
<1>5. \A i \in DOMAIN t : \/ i \in DOMAIN b /\ i <= m /\ t[i] = b[i]
                          \/ i - m \in DOMAIN s /\ t[i] = s[i - m]
  <2>1. TAKE i \in DOMAIN t
  <2>2. CASE i <= m
    BY <1>3, <1>4, <1>d, <2>2
  <2>3. CASE ~(i <= m)
    <3>1. i \in 1..(m + k) /\ m \in Nat /\ k \in Nat
      BY <1>3, <1>d
    <3>2. i - m \in 1..k /\ m + (i - m) = i
      BY <2>3, <3>1, BehindFirst
    <3>3. t[m + (i - m)] = s[i - m]
      BY <1>4, <1>d, <3>2
    <3> QED
      BY <1>d, <3>2, <3>3
  <2> QED
    BY <2>2, <2>3
<1>6. /\ \A i \in DOMAIN b : i <= m => i \in DOMAIN t /\ t[i] = b[i]
      /\ \A i \in DOMAIN s : m + i \in DOMAIN t /\ t[m + i] = s[i]
  <2>1. \A i \in 1..l : i <= m => i \in 1..m /\ i \in 1..(m + k)
    BY <1>3
  <2>2. \A i \in 1..k : m + i \in 1..(m + k)
    BY <1>3
  <2> QED
    BY <1>4, <1>d, <2>1, <2>2
<1>7. AllDifferent(t, F)
  <2>1. \A i, j \in DOMAIN t : t[i] = t[j] => i = j
    <3>1. TAKE i, j \in DOMAIN t
    <3>2. i \in Nat /\ j \in Nat
      BY <1>d
    <3>3. /\ \A x \in DOMAIN b, y \in DOMAIN s : b[x] # s[y]
          /\ \A x, y \in DOMAIN b : b[x] = b[y] => x = y
          /\ \A x, y \in DOMAIN s : s[x] = s[y] => x = y
      BY <1>2 DEF AllDifferent
    <3>4. CASE i \in DOMAIN b /\ t[i] = b[i]
      BY <1>3, <1>5, <3>2, <3>3, <3>4
    <3>5. CASE i - m \in DOMAIN s /\ t[i] = s[i - m]
      <4>1. CASE j \in DOMAIN b /\ t[j] = b[j]
        BY <3>3, <3>5, <4>1
      <4>2. CASE j - m \in DOMAIN s /\ t[j] = s[j - m]
        <5>1. t[i] = t[j] => i - m = j - m
          BY <3>3, <3>5, <4>2
        <5> QED
          BY <1>3, <3>2, <5>1, SameShift
      <4> QED
        BY <1>5, <4>1, <4>2
    <3> QED
      BY <1>5, <3>4, <3>5
  <2>2. \A q \in F : \A i \in DOMAIN t, j \in DOMAIN q : t[i] # q[j]
    <3>1. TAKE q \in F
    <3>2. TAKE i \in DOMAIN t, j \in DOMAIN q
    <3>e. q \in E /\ q # b
      BY <1>2
    <3>3. CASE i \in DOMAIN b /\ t[i] = b[i]
      <4>1. b[i] = q[j] => b = q
        BY <1>2, <3>e, <3>3 DEF AllDifferent
      <4> QED
        BY <3>e, <3>3, <4>1
    <3>4. CASE i - m \in DOMAIN s /\ t[i] = s[i - m]
      <4>1. \A x \in DOMAIN s : s[x] # q[j]
        BY <1>2, <3>e DEF AllDifferent
      <4> QED
        BY <3>4, <4>1
    <3> QED
      BY <1>5, <3>3, <3>4
  <2>3. \A p, q \in F : \A i \in DOMAIN p, j \in DOMAIN q : p[i] = q[j] => p = q /\ i = j
    BY <1>2 DEF AllDifferent
  <2> QED
    BY <2>1, <2>2, <2>3 DEF AllDifferent
<1>8. \A x : Has(t, x) <=> (\E i \in DOMAIN b : i <= m /\ b[i] = x) \/ Has(s, x)
  <2>1. TAKE x
  <2>2. Has(t, x) => (\E i \in DOMAIN b : i <= m /\ b[i] = x) \/ Has(s, x)
    BY <1>5 DEF Has
  <2>3. (\E i \in DOMAIN b : i <= m /\ b[i] = x) => Has(t, x)
    BY <1>6 DEF Has
  <2>4. Has(s, x) => Has(t, x)
    BY <1>6 DEF Has
  <2> QED
    BY <2>2, <2>3, <2>4
<1>9. \A x : x \in T <=> \E i \in DOMAIN b : ~(i <= m) /\ b[i] = x
  <2>1. m \in Nat
    BY <1>1, <1>3
  <2>2. \A i : i \in (m + 1)..l <=> i \in 1..l /\ ~(i <= m)
    BY <2>1
  <2>3. T = {b[i] : i \in (m + 1)..l}
    BY <1>2, <1>d DEF Rest
  <2> QED
    BY <1>d, <2>2, <2>3
<1>10. \A x : Has(b, x) <=> (\E i \in DOMAIN b : i <= m /\ b[i] = x) \/ x \in T
  BY <1>9 DEF Has
<1>11. \A x \in T : ~Has(t, x) /\ \A q \in F : ~Has(q, x)
  <2>1. TAKE x \in T
  <2>2. PICK i \in DOMAIN b : ~(i <= m) /\ b[i] = x
    BY <1>9
  <2>3. \A q \in F : ~Has(q, x)
    BY <1>2, <2>2 DEF AllDifferent, Has
  <2>4. ~Has(s, x) /\ ~(\E j \in DOMAIN b : j <= m /\ b[j] = x)
    BY <1>2, <2>2 DEF AllDifferent, Has
  <2> QED
    BY <1>8, <2>3, <2>4
<1>12. \A x : x \in SpansOf(s, E) <=> Has(s, x) \/ Has(b, x) \/ \E q \in F : Has(q, x)
  BY <1>2, SpanIs
<1>13. \A x : x \in SpansOf(t, F) <=> Has(t, x) \/ \E q \in F : Has(q, x)
  BY SpanIs
<1>14. \A x : x \in SpansOf(t, F) <=> x \in SpansOf(s, E) /\ x \notin T
  BY <1>8, <1>10, <1>11, <1>12, <1>13
<1>15. \A x \in T : x \in SpansOf(s, E)
  BY <1>10, <1>12
<1> QED
  BY <1>4, <1>7, <1>14, <1>15

\* A flush moves the whole buffer to a batch.
LEMMA FlushKeeps == ASSUME SpanInv, Flush PROVE SpanInv'
<1>1. Taken(spanBuffer) /\ UNCHANGED <<created, exported, dropped, cut>>
  BY DEF Flush
<1>2. /\ spanBuffer' = <<>> /\ exporting' \subseteq Seq(Nat)
      /\ AllDifferent(spanBuffer', exporting')
      /\ SpansOf(spanBuffer', exporting') = SpansOf(spanBuffer, exporting)
  BY <1>1, BufferTaken DEF Taken, Flush, SpanInv, SpanTypes, SpansCounted
<1>3. SpanTypes'
  BY <1>1, <1>2, TelemetryAssumption DEF SpanInv, SpanTypes
<1>4. SpansCounted'
  BY <1>1, <1>2 DEF SpanInv, SpansCounted
<1> QED
  BY <1>3, <1>4 DEF SpanInv

\* The oldest span goes if there is no room.
LEMMA RoomMade ==
  ASSUME SpanInv, NEW b, NEW n,
         \/ Len(spanBuffer) < MaxBufferSize /\ b = spanBuffer /\ n = 0
         \/ Len(spanBuffer) >= MaxBufferSize /\ b = Tail(spanBuffer) /\ n = 1
  PROVE  /\ b \in Seq(Nat) /\ Len(b) < MaxBufferSize
         /\ AllDifferent(b, exporting)
         /\ SpansOf(b, exporting) \subseteq 1..created
         /\ created = exported + dropped + n + cut + Cardinality(SpansOf(b, exporting))
<1>a. SpanTypes /\ SpansCounted
  BY DEF SpanInv
<1>1. CASE b = spanBuffer /\ n = 0
  BY <1>a, <1>1, TelemetryAssumption DEF SpanTypes, SpansCounted
<1>2. CASE Len(spanBuffer) >= MaxBufferSize /\ b = Tail(spanBuffer) /\ n = 1
  <2>1. PICK s, E : s = spanBuffer /\ E = exporting
    OBVIOUS
  <2>2. s \in Seq(Nat) /\ s # <<>> /\ Len(s) = MaxBufferSize /\ AllDifferent(s, E)
    BY <1>a, <1>2, <2>1, TelemetryAssumption DEF SpanTypes, SpansCounted
  <2>3. PICK W : W = SpansOf(s, E)
    OBVIOUS
  <2>4. /\ b \in Seq(Nat) /\ Len(b) = MaxBufferSize - 1
        /\ AllDifferent(b, E) /\ s[1] \in W /\ SpansOf(b, E) = W \ {s[1]}
    BY <1>2, <2>1, <2>2, <2>3, OldestGone
  <2>5. /\ IsFiniteSet(W) /\ Cardinality(W) \in Nat /\ W \subseteq 1..created
        /\ created = exported + dropped + cut + Cardinality(W)
    BY <1>a, <2>1, <2>3, SpansFinite DEF SpanTypes, SpansCounted
  <2>6. Cardinality(W \ {s[1]}) = Cardinality(W) - 1
    BY <2>4, <2>5, FS_RemoveElement
  <2>7. created = exported + dropped + n + cut + Cardinality(W \ {s[1]})
    BY <1>a, <1>2, <2>5, <2>6 DEF SpanTypes
  <2>8. W \ {s[1]} \subseteq 1..created
    BY <2>5
  <2>9. Len(b) < MaxBufferSize
    BY <2>4, TelemetryAssumption
  <2> QED
    BY <2>1, <2>4, <2>7, <2>8, <2>9
<1> QED
  BY <1>a, <1>1, <1>2

\* A span that ends is buffered, after the oldest was dropped if there was no room.
LEMMA SpanEndKeeps == ASSUME SpanInv, OnSpanEnd PROVE SpanInv'
<1>a. SpanTypes /\ SpansCounted
  BY DEF SpanInv
<1>1. PICK b, n :
         \/ Len(spanBuffer) < MaxBufferSize /\ b = spanBuffer /\ n = 0
         \/ Len(spanBuffer) >= MaxBufferSize /\ b = Tail(spanBuffer) /\ n = 1
  <2>1. Len(spanBuffer) < MaxBufferSize \/ Len(spanBuffer) >= MaxBufferSize
    BY <1>a, TelemetryAssumption DEF SpanTypes
  <2> QED
    BY <2>1
<1>2. PICK new, E, k : new = Append(b, created + 1) /\ E = exporting /\ k = created + 1
  OBVIOUS
<1>3. /\ created' = k /\ dropped' = dropped + n
      /\ \/ Taken(new)
         \/ spanBuffer' = new /\ exporting' = exporting
      /\ UNCHANGED <<exported, cut>>
  <2>1. PICK full \in BOOLEAN : full <=> Len(spanBuffer) >= MaxBufferSize
    OBVIOUS
  <2>2. new = Append(IF full THEN Tail(spanBuffer) ELSE spanBuffer, created + 1)
    BY <1>a, <1>1, <1>2, <2>1, TelemetryAssumption DEF SpanTypes
  <2>3. dropped + n = IF full THEN dropped + 1 ELSE dropped
    BY <1>a, <1>1, <2>1, TelemetryAssumption DEF SpanTypes
  <2>4. (IF Len(spanBuffer) >= MaxBufferSize THEN dropped + 1 ELSE dropped)
            = (IF full THEN dropped + 1 ELSE dropped)
    BY <2>1
  <2>5. Append(IF Len(spanBuffer) >= MaxBufferSize THEN Tail(spanBuffer) ELSE spanBuffer, created + 1)
            = new
    BY <2>1, <2>2
  <2> QED
    BY <1>2, <2>3, <2>4, <2>5, Zenon DEF OnSpanEnd
<1>4. /\ b \in Seq(Nat) /\ Len(b) < MaxBufferSize
      /\ AllDifferent(b, E)
      /\ SpansOf(b, E) \subseteq 1..created
      /\ created = exported + dropped + n + cut + Cardinality(SpansOf(b, E))
  BY <1>1, <1>2, RoomMade
<1>5. k \in Nat /\ k \notin SpansOf(b, E)
  BY <1>a, <1>2, <1>4 DEF SpanTypes
<1>6. /\ new \in Seq(Nat) /\ Len(new) = Len(b) + 1
      /\ AllDifferent(new, E) /\ SpansOf(new, E) = SpansOf(b, E) \union {k}
  BY <1>2, <1>4, <1>5, NewestAdded
<1>7. /\ SpansOf(new, E) \subseteq 1..k
      /\ k = exported + (dropped + n) + cut + Cardinality(SpansOf(new, E))
  <2>1. IsFiniteSet(SpansOf(b, E)) /\ Cardinality(SpansOf(b, E)) \in Nat
    BY <1>a, <1>4, SpansFinite DEF SpanTypes
  <2>2. Cardinality(SpansOf(new, E)) = Cardinality(SpansOf(b, E)) + 1
    BY <1>5, <1>6, <2>1, FS_AddElement
  <2>3. SpansOf(new, E) \subseteq 1..k
    <3>1. created \in Nat /\ k = created + 1
      BY <1>a, <1>2 DEF SpanTypes
    <3>2. \A x \in 1..created : x \in 1..k
      BY <3>1
    <3>3. k \in 1..k
      BY <3>1
    <3> QED
      BY <1>4, <1>6, <3>2, <3>3
  <2>4. n \in Nat
    BY <1>1
  <2>5. k = exported + (dropped + n) + cut + (Cardinality(SpansOf(b, E)) + 1)
    BY <1>a, <1>2, <1>4, <2>1, <2>4 DEF SpanTypes
  <2> QED
    BY <2>2, <2>3, <2>5
<1>8. /\ spanBuffer' \in Seq(Nat) /\ exporting' \subseteq Seq(Nat) /\ Len(spanBuffer') <= MaxBufferSize
      /\ AllDifferent(spanBuffer', exporting')
      /\ SpansOf(spanBuffer', exporting') = SpansOf(new, E)
  <2>1. CASE spanBuffer' = new /\ exporting' = exporting
    BY <1>a, <1>2, <1>4, <1>6, <2>1, TelemetryAssumption DEF SpanTypes
  <2>2. CASE Taken(new)
    <3>1. new # <<>>
      BY <1>4, <1>6
    <3>2. spanBuffer' = <<>> /\ exporting' = E \union {new}
      BY <1>2, <2>2, <3>1 DEF Taken
    <3>3. /\ AllDifferent(<<>>, E \union {new})
          /\ SpansOf(<<>>, E \union {new}) = SpansOf(new, E)
      BY <1>6, BufferTaken
    <3>4. <<>> \in Seq(Nat) /\ Len(<<>>) <= MaxBufferSize
      BY TelemetryAssumption
    <3>5. E \union {new} \subseteq Seq(Nat)
      BY <1>a, <1>2, <1>6 DEF SpanTypes
    <3> QED
      BY <3>2, <3>3, <3>4, <3>5
  <2> QED
    BY <1>3, <2>1, <2>2
<1>9. SpanTypes'
  BY <1>a, <1>1, <1>3, <1>5, <1>8 DEF SpanTypes
<1>10. SpansCounted'
  BY <1>3, <1>7, <1>8 DEF SpansCounted
<1> QED
  BY <1>9, <1>10 DEF SpanInv

\* A batch that leaves takes with it the spans from position m + 1 on; those
\* before, if any, are back in the buffer.
LEMMA BatchLeaves ==
  ASSUME SpanInv, NEW b \in exporting, NEW m \in 0..Len(b),
         exporting' = exporting \ {b}, spanBuffer' = SubSeq(b, 1, m) \o spanBuffer
  PROVE  /\ spanBuffer' \in Seq(Nat) /\ Len(spanBuffer') = m + Len(spanBuffer)
         /\ AllDifferent(spanBuffer', exporting')
         /\ SpansOf(spanBuffer', exporting') \subseteq 1..created
         /\ created = exported + dropped + cut + (Len(b) - m)
                         + Cardinality(SpansOf(spanBuffer', exporting'))
<1>a. SpanTypes /\ SpansCounted
  BY DEF SpanInv
<1>1. PICK s, E, t, F : s = spanBuffer /\ E = exporting /\ t = spanBuffer' /\ F = exporting'
  OBVIOUS
<1>2. PICK T, W : T = Rest(b, m) /\ W = SpansOf(s, E)
  OBVIOUS
<1>3. s \in Seq(Nat) /\ b \in Seq(Nat) /\ AllDifferent(s, E) /\ b \in E
  BY <1>a, <1>1 DEF SpanTypes, SpansCounted
<1>4. /\ t \in Seq(Nat) /\ Len(t) = m + Len(s)
      /\ AllDifferent(t, F) /\ T \subseteq W /\ SpansOf(t, F) = W \ T
  <2>1. BatchLeft(s, E, b, m, t, F, T)
    BY <1>1, <1>2, <1>3 DEF BatchLeft
  <2> QED
    BY <1>2, <2>1, BatchGone
<1>5. IsFiniteSet(T) /\ Cardinality(T) = Len(b) - m
  <2>1. \A i, j \in DOMAIN b : b[i] = b[j] => i = j
    BY <1>3 DEF AllDifferent
  <2> QED
    BY <1>2, <1>3, <2>1, CountRest
<1>6. /\ IsFiniteSet(W) /\ Cardinality(W) \in Nat /\ W \subseteq 1..created
      /\ created = exported + dropped + cut + Cardinality(W)
  BY <1>a, <1>1, <1>2, SpansFinite DEF SpanTypes, SpansCounted
<1>7. Cardinality(W \ T) = Cardinality(W) - Cardinality(T)
  <2>1. W \intersect T = T
    BY <1>4
  <2> QED
    BY <1>6, <2>1, FS_Difference
<1>8. created = exported + dropped + cut + (Len(b) - m) + Cardinality(W \ T)
  <2>1. Len(b) \in Nat /\ m \in Nat
    BY <1>3
  <2> QED
    BY <1>a, <1>5, <1>6, <1>7, <2>1 DEF SpanTypes
<1>9. W \ T \subseteq 1..created
  BY <1>6
<1> QED
  BY <1>1, <1>4, <1>8, <1>9

\* An export ends: its spans are out, or back in the buffer as far as there is room.
LEMMA ExportKeeps ==
  ASSUME SpanInv, NEW batch \in exporting, ExportOk(batch) \/ ExportFails(batch)
  PROVE  SpanInv'
<1>a. SpanTypes /\ SpansCounted
  BY DEF SpanInv
<1>b. spanBuffer \in Seq(Nat) /\ batch \in Seq(Nat) /\ Len(batch) \in Nat
  BY <1>a DEF SpanTypes
<1>c. exporting' = exporting \ {batch} /\ exporting' \subseteq Seq(Nat) /\ created' = created
  BY <1>a DEF ExportOk, ExportFails, SpanTypes
<1>1. CASE ExportOk(batch)
  <2>1. /\ exported' = exported + Len(batch)
        /\ UNCHANGED <<spanBuffer, created, dropped, cut>>
    BY <1>1 DEF ExportOk
  <2>2. PICK s : s = spanBuffer /\ s \in Seq(Nat)
    BY <1>b
  <2>3. SubSeq(batch, 1, 0) \o s = s
    BY <1>b, <2>2, SubSeqEmpty, ConcatEmptySeq
  <2>4. /\ AllDifferent(spanBuffer', exporting')
        /\ SpansOf(spanBuffer', exporting') \subseteq 1..created
        /\ created = exported + dropped + cut + (Len(batch) - 0)
                        + Cardinality(SpansOf(spanBuffer', exporting'))
    <3>1. 0 \in 0..Len(batch)
      BY <1>b
    <3>2. spanBuffer' = SubSeq(batch, 1, 0) \o spanBuffer
      BY <2>1, <2>2, <2>3
    <3> QED
      BY <1>c, <3>1, <3>2, BatchLeaves
  <2>5. SpanTypes'
    BY <1>a, <1>b, <1>c, <2>1 DEF SpanTypes
  <2>6. Cardinality(SpansOf(spanBuffer', exporting')) \in Nat
    BY <1>a, <2>4, SpansFinite DEF SpanTypes
  <2>7. created' = exported' + dropped' + cut' + Cardinality(SpansOf(spanBuffer', exporting'))
    BY <1>a, <1>b, <2>1, <2>4, <2>6 DEF SpanTypes
  <2>8. SpansCounted'
    BY <1>c, <2>4, <2>7 DEF SpansCounted
  <2> QED
    BY <2>5, <2>8 DEF SpanInv
<1>2. CASE ExportFails(batch)
  <2>1. PICK m \in 0..Len(batch) :
            /\ m + Len(spanBuffer) <= MaxBufferSize
            /\ m = IF MaxBufferSize - Len(spanBuffer) < Len(batch)
                   THEN MaxBufferSize - Len(spanBuffer) ELSE Len(batch)
    BY <1>a, <1>b, TelemetryAssumption DEF SpanTypes
  <2>2. /\ spanBuffer' = SubSeq(batch, 1, m) \o spanBuffer
        /\ cut' = cut + Len(batch) - Len(SubSeq(batch, 1, m))
        /\ UNCHANGED <<created, exported, dropped>>
    BY <1>2, <2>1 DEF ExportFails
  <2>3. Len(SubSeq(batch, 1, m)) = m
    BY <1>b, <2>1, SubSeqProperties
  <2>4. /\ spanBuffer' \in Seq(Nat) /\ Len(spanBuffer') = m + Len(spanBuffer)
        /\ AllDifferent(spanBuffer', exporting')
        /\ SpansOf(spanBuffer', exporting') \subseteq 1..created
        /\ created = exported + dropped + cut + (Len(batch) - m)
                        + Cardinality(SpansOf(spanBuffer', exporting'))
    BY <1>c, <2>2, BatchLeaves
  <2>5. cut' = cut + (Len(batch) - m) /\ cut' \in Nat
    BY <1>a, <1>b, <2>1, <2>2, <2>3 DEF SpanTypes
  <2>6. SpanTypes'
    BY <1>a, <1>c, <2>1, <2>2, <2>4, <2>5 DEF SpanTypes
  <2>7. Cardinality(SpansOf(spanBuffer', exporting')) \in Nat
    BY <1>a, <2>4, SpansFinite DEF SpanTypes
  <2>8. created' = exported' + dropped' + cut' + Cardinality(SpansOf(spanBuffer', exporting'))
    BY <1>a, <1>b, <2>2, <2>4, <2>5, <2>7 DEF SpanTypes
  <2>9. SpansCounted'
    BY <1>c, <2>4, <2>8 DEF SpansCounted
  <2> QED
    BY <2>6, <2>9 DEF SpanInv
<1> QED
  BY <1>1, <1>2

\* At first no span has ended.
LEMMA InitSpanInv == ASSUME TelemetryInit PROVE SpanInv
<1>1. SpansOf(spanBuffer, exporting) = {}
  BY DEF TelemetryInit, SpansOf, Range
<1>2. SpansCounted
  BY <1>1, FS_EmptySet DEF TelemetryInit, SpansCounted, AllDifferent
<1> QED
  BY <1>2, TelemetryAssumption DEF TelemetryInit, SpanInv, SpanTypes

\* Every step moves spans, and loses none uncounted.
LEMMA StepSpanInv == ASSUME SpanInv, [TelemetryNext]_spanVars PROVE SpanInv'
<1>1. CASE UNCHANGED spanVars
  BY <1>1 DEF spanVars, SpanInv, SpanTypes, SpansCounted
<1> QED
  BY <1>1, FlushKeeps, SpanEndKeeps, ExportKeeps DEF TelemetryNext

\* However many flushes overlap and fail, and whatever the size of the buffer
\* and of the batches: no ended span is lost without count or exported twice
\* (span-manager.ts:327-355).
THEOREM NoSpanIsLost == TelemetrySpec => []SpansAccounted
<1>1. SpanInv => SpansAccounted
  <2> SUFFICES ASSUME SpanInv PROVE SpansAccounted
    OBVIOUS
  <2>1. Waiting = SpansOf(spanBuffer, exporting)
    BY DEF Waiting, Places, SpansOf
  <2>2. \A p, q \in Places : \A i \in DOMAIN p, j \in DOMAIN q : p[i] = q[j] => p = q /\ i = j
    BY DEF SpanInv, SpansCounted, AllDifferent, Places
  <2> QED
    BY <2>1, <2>2 DEF SpanInv, SpanTypes, SpansCounted, SpansAccounted
<1>2. SpanInv /\ [TelemetryNext]_spanVars => SpanInv'
  BY StepSpanInv
<1>3. TelemetryInit => SpanInv
  BY InitSpanInv
<1> QED
  BY <1>1, <1>2, <1>3, PTL DEF TelemetrySpec

-----------------------------------------------------------------------------
(***************************************************************************)
(* Marketplace: the dependencies of what is installed are met.             *)
(***************************************************************************)

\* A version whose minor and patch number are below 1000.
Version == {v \in Seq(Nat) : Len(v) = 3 /\ v[2] < 1000 /\ v[3] < 1000}

\* Of the versions that satisfiesRange compares by one number: only with minor
\* and patch numbers below 1000 is that number in the order of versions
\* (manifest-validator.ts:230-231).
SmallVersions ==
    \A m \in Manifests :
        /\ m.version \in Version
        /\ \A d \in DOMAIN m.deps : m.deps[d].from \in Version

\* What is installed is a manifest of that plugin.
InstalledTypes ==
    /\ registry \subseteq Manifests
    /\ DOMAIN installed = Plugins
    /\ \A p \in Plugins : IsInstalled(p) =>
           \E m \in Manifests : m.id = p /\ installed[p].manifest = {m}

\* DependenciesMet in the words of satisfiesRange.
DependenciesSatisfied ==
    \A p \in Plugins : IsInstalled(p) =>
        \A d \in DOMAIN Of(p).deps :
            <<p, d>> \in unchecked \/ (IsInstalled(d) /\ Satisfies(Of(d).version, Of(p).deps[d]))

MarketInv == InstalledTypes /\ DependenciesSatisfied

\* The parts of a version.
LEMMA VersionParts ==
  ASSUME NEW v \in Version
  PROVE  v[1] \in Nat /\ v[2] \in Nat /\ v[3] \in Nat /\ v[2] < 1000 /\ v[3] < 1000
<1>1. v \in Seq(Nat) /\ Len(v) = 3 /\ v[2] < 1000 /\ v[3] < 1000
  BY Zenon DEF Version
<1>2. 1 \in 1..Len(v) /\ 2 \in 1..Len(v) /\ 3 \in 1..Len(v)
  BY <1>1
<1> QED
  BY <1>1, <1>2, ElementOfSeq

\* The prefixes of two versions are the same if their numbers are.
LEMMA PrefixOf ==
  ASSUME NEW v \in Version, NEW k \in 0..3
  PROVE  /\ SubSeq(v, 1, k) \in Seq(Nat) /\ Len(SubSeq(v, 1, k)) = k
         /\ \A i \in 1..k : SubSeq(v, 1, k)[i] = v[i]
<1>1. \A i \in 1..k : v[i] \in Nat
  BY VersionParts
<1>2. 1 \in Int /\ k \in Int
  OBVIOUS
<1>3. /\ SubSeq(v, 1, k) \in Seq(Nat)
      /\ Len(SubSeq(v, 1, k)) = IF 1 <= k THEN k - 1 + 1 ELSE 0
      /\ \A i \in 1..(k - 1 + 1) : SubSeq(v, 1, k)[i] = v[1 + i - 1]
  BY <1>1, <1>2, SubSeqProperties
<1>4. k - 1 + 1 = k /\ (~(1 <= k) => k = 0) /\ \A i \in 1..k : 1 + i - 1 = i
  OBVIOUS
<1> QED
  BY <1>3, <1>4

LEMMA SamePrefix ==
  ASSUME NEW v \in Version, NEW w \in Version, NEW k \in 0..3, \A i \in 1..k : v[i] = w[i]
  PROVE  SubSeq(v, 1, k) = SubSeq(w, 1, k)
<1>1. PICK a, b : a = SubSeq(v, 1, k) /\ b = SubSeq(w, 1, k)
  OBVIOUS
<1>2. /\ a \in Seq(Nat) /\ Len(a) = k /\ \A i \in 1..k : a[i] = v[i]
      /\ b \in Seq(Nat) /\ Len(b) = k /\ \A i \in 1..k : b[i] = w[i]
  BY <1>1, PrefixOf
<1>3. \A i \in 1..k : a[i] = b[i]
  BY <1>2
<1> QED
  BY <1>1, <1>2, <1>3, SeqEqual

Number(major, minor, patch) == major * 1000000 + minor * 1000 + patch

\* The number keeps the order of the parts.
LEMMA NumberOrder ==
  ASSUME NEW v1 \in Nat, NEW v2 \in Nat, NEW v3 \in Nat, v2 < 1000, v3 < 1000,
         NEW w1 \in Nat, NEW w2 \in Nat, NEW w3 \in Nat, w2 < 1000, w3 < 1000
  PROVE  /\ Number(v1, v2, v3) >= Number(w1, w2, w3)
            => v1 > w1 \/ (v1 = w1 /\ (v2 > w2 \/ (v2 = w2 /\ v3 >= w3)))
         /\ Number(v1, v2, v3) = Number(w1, w2, w3) => v1 = w1 /\ v2 = w2 /\ v3 = w3
  BY SMTT(60) DEF Number

\* What satisfiesRange accepts is in the range, for versions it can tell apart.
LEMMA SatisfiesIsInRange ==
  ASSUME NEW v \in Version, NEW r, r.from \in Version, Satisfies(v, r)
  PROVE  InRange(v, r)
<1>1. PICK w \in Version : w = r.from
  OBVIOUS
<1>2. /\ v[1] \in Nat /\ v[2] \in Nat /\ v[3] \in Nat /\ v[2] < 1000 /\ v[3] < 1000
      /\ w[1] \in Nat /\ w[2] \in Nat /\ w[3] \in Nat /\ w[2] < 1000 /\ w[3] < 1000
  BY VersionParts
<1>9. \A u : VersionNumber(u) = Number(u[1], u[2], u[3])
  BY SMTT(60) DEF VersionNumber, Number
<1>3. /\ VersionNumber(v) >= VersionNumber(w)
          => v[1] > w[1] \/ (v[1] = w[1] /\ (v[2] > w[2] \/ (v[2] = w[2] /\ v[3] >= w[3])))
      /\ VersionNumber(v) = VersionNumber(w) => v[1] = w[1] /\ v[2] = w[2] /\ v[3] = w[3]
  <2>1. PICK v1, v2, v3, w1, w2, w3 : v1 = v[1] /\ v2 = v[2] /\ v3 = v[3]
                                      /\ w1 = w[1] /\ w2 = w[2] /\ w3 = w[3]
    OBVIOUS
  <2>2. /\ Number(v1, v2, v3) >= Number(w1, w2, w3)
            => v1 > w1 \/ (v1 = w1 /\ (v2 > w2 \/ (v2 = w2 /\ v3 >= w3)))
        /\ Number(v1, v2, v3) = Number(w1, w2, w3) => v1 = w1 /\ v2 = w2 /\ v3 = w3
    <3>1. /\ v1 \in Nat /\ v2 \in Nat /\ v3 \in Nat /\ v2 < 1000 /\ v3 < 1000
          /\ w1 \in Nat /\ w2 \in Nat /\ w3 \in Nat /\ w2 < 1000 /\ w3 < 1000
      BY <1>2, <2>1
    <3> QED
      BY <3>1, NumberOrder
  <2> QED
    BY <1>9, <2>1, <2>2
<1>4. VersionNumber(v) >= VersionNumber(w) => AtLeast(v, w)
  BY <1>2, <1>3 DEF AtLeast
<1>5. CASE r.op = ">="
  BY <1>1, <1>4, <1>5, SamePrefix DEF Satisfies, InRange
<1>6. CASE r.op = "="
  <2>1. VersionNumber(v) = VersionNumber(w)
    BY <1>1, <1>6 DEF Satisfies
  <2>2. v[1] = w[1] /\ v[2] = w[2] /\ v[3] = w[3]
    BY <1>3, <2>1
  <2>3. AtLeast(v, w)
    BY <1>2, <2>2 DEF AtLeast
  <2>4. \A i \in 1..3 : v[i] = w[i]
    BY <2>2
  <2>5. SubSeq(v, 1, 3) = SubSeq(w, 1, 3)
    BY <2>4, SamePrefix
  <2> QED
    BY <1>1, <1>6, <2>3, <2>5 DEF InRange
<1>7. CASE r.op = "~"
  BY <1>1, <1>2, <1>7, SamePrefix DEF Satisfies, InRange, AtLeast
<1>8. CASE r.op = "^"
  <2>1. CASE w[1] = 0
    <3>1. v[1] = w[1] /\ v[2] = w[2] /\ v[3] >= w[3]
      BY <1>1, <1>8, <2>1 DEF Satisfies
    <3>2. AtLeast(v, w) /\ SubSeq(v, 1, 2) = SubSeq(w, 1, 2)
      BY <1>2, <3>1, SamePrefix DEF AtLeast
    <3> QED
      BY <1>1, <1>8, <2>1, <3>2 DEF InRange
  <2>2. CASE w[1] # 0
    <3>1. v[1] = w[1] /\ AtLeast(v, w)
      BY <1>1, <1>4, <1>8, <2>2 DEF Satisfies
    <3>2. SubSeq(v, 1, 1) = SubSeq(w, 1, 1)
      BY <3>1, SamePrefix
    <3> QED
      BY <1>1, <1>8, <2>2, <3>1, <3>2 DEF InRange
  <2> QED
    BY <2>1, <2>2
<1> QED
  BY <1>5, <1>6, <1>7, <1>8 DEF Satisfies

\* At first nothing is installed.
LEMMA InitMarketInv == MarketInit => MarketInv
  BY DEF MarketInit, MarketInv, InstalledTypes, DependenciesSatisfied, IsInstalled, NotInstalled

\* The manifest of an installed plugin.
LEMMA InstalledManifest ==
  ASSUME InstalledTypes, NEW p \in Plugins, IsInstalled(p)
  PROVE  Of(p) \in Manifests /\ Of(p).id = p /\ DOMAIN Of(p).deps \subseteq Plugins
  BY MarketAssumption DEF InstalledTypes, Of

\* A plugin is installed when what it depends on is.
LEMMA InstallKeeps ==
  ASSUME MarketInv, NEW m \in Manifests, Install(m)
  PROVE  MarketInv'
<1> DEFINE p == m.id
<1>1. p \in Plugins /\ ~IsInstalled(p) /\ Resolved(m)
  BY MarketAssumption DEF Install
<1>2. /\ installed' = [installed EXCEPT ![p] = [manifest |-> {m}, history |-> <<m.version>>]]
      /\ unchecked' = unchecked \ ({p} \X Plugins) /\ registry' = registry
  BY DEF Install
<1>3. installed'[p] = [manifest |-> {m}, history |-> <<m.version>>]
      /\ \A q \in Plugins \ {p} : installed'[q] = installed[q]
  BY <1>1, <1>2 DEF MarketInv, InstalledTypes
<1>4. InstalledTypes'
  BY <1>2, <1>3 DEF MarketInv, InstalledTypes, IsInstalled
<1>5. Of(p)' = m /\ \A q \in Plugins \ {p} : Of(q)' = Of(q) /\ (IsInstalled(q)' <=> IsInstalled(q))
  BY <1>3 DEF Of, IsInstalled
<1>6. \A d \in DOMAIN m.deps : d \in Plugins /\ d # p /\ IsInstalled(d)' /\ Satisfies(Of(d)'.version, m.deps[d])
  BY <1>1, <1>5, MarketAssumption DEF Resolved
<1>7. ASSUME NEW q \in Plugins, IsInstalled(q)', q # p, NEW d \in DOMAIN Of(q)'.deps
      PROVE  <<q, d>> \in unchecked' \/ (IsInstalled(d)' /\ Satisfies(Of(d)'.version, Of(q)'.deps[d]))
  <2>1. IsInstalled(q) /\ Of(q)' = Of(q) /\ d \in DOMAIN Of(q).deps /\ d \in Plugins
    BY <1>5, <1>7, InstalledManifest DEF MarketInv
  <2>2. <<q, d>> \in unchecked \/ (IsInstalled(d) /\ Satisfies(Of(d).version, Of(q).deps[d]))
    BY <2>1 DEF MarketInv, DependenciesSatisfied
  <2>3. <<q, d>> \in unchecked => <<q, d>> \in unchecked'
    BY <1>2, <1>7
  <2> QED
    BY <1>1, <1>5, <2>1, <2>2, <2>3
<1>8. DependenciesSatisfied'
  BY <1>5, <1>6, <1>7 DEF DependenciesSatisfied
<1> QED
  BY <1>4, <1>8 DEF MarketInv

\* A plugin goes when nothing depends on it.
LEMMA UninstallKeeps ==
  ASSUME MarketInv, NEW p \in Plugins, Uninstall(p)
  PROVE  MarketInv'
<1>1. /\ \A q \in Plugins \ {p} : IsInstalled(q) => p \notin DOMAIN Of(q).deps
      /\ installed' = [installed EXCEPT ![p] = NotInstalled]
      /\ unchecked' = unchecked /\ registry' = registry
  BY DEF Uninstall
<1>2. ~IsInstalled(p)' /\ \A q \in Plugins \ {p} : installed'[q] = installed[q]
  BY <1>1 DEF MarketInv, InstalledTypes, IsInstalled, NotInstalled
<1>3. \A q \in Plugins \ {p} : Of(q)' = Of(q) /\ (IsInstalled(q)' <=> IsInstalled(q))
  BY <1>2 DEF Of, IsInstalled
<1>4. InstalledTypes'
  BY <1>1, <1>2 DEF MarketInv, InstalledTypes, IsInstalled
<1>5. ASSUME NEW q \in Plugins, IsInstalled(q)', NEW d \in DOMAIN Of(q)'.deps
      PROVE  <<q, d>> \in unchecked' \/ (IsInstalled(d)' /\ Satisfies(Of(d)'.version, Of(q)'.deps[d]))
  <2>1. q # p /\ IsInstalled(q) /\ Of(q)' = Of(q)
    BY <1>2, <1>3, <1>5
  <2>2. d \in DOMAIN Of(q).deps /\ d \in Plugins /\ d # p
    BY <1>1, <1>5, <2>1, InstalledManifest DEF MarketInv
  <2>3. <<q, d>> \in unchecked \/ (IsInstalled(d) /\ Satisfies(Of(d).version, Of(q).deps[d]))
    BY <2>1, <2>2 DEF MarketInv, DependenciesSatisfied
  <2> QED
    BY <1>1, <1>3, <2>1, <2>2, <2>3
<1>6. DependenciesSatisfied'
  BY <1>5 DEF DependenciesSatisfied
<1> QED
  BY <1>4, <1>6 DEF MarketInv

\* An upgrade and a rollback.
LEMMA ExchangeKeeps ==
  ASSUME MarketInv, NEW m \in Manifests, NEW history, Exchange(m.id, m, history)
  PROVE  MarketInv'
<1> DEFINE p == m.id
<1>1. p \in Plugins
  BY MarketAssumption
<1>2. /\ installed' = [installed EXCEPT ![p] = [manifest |-> {m}, history |-> history]]
      /\ unchecked' = unchecked \union ({p} \X Plugins) \union (Plugins \X {p})
      /\ registry' = registry
  BY DEF Exchange
<1>3. installed'[p] = [manifest |-> {m}, history |-> history]
      /\ \A q \in Plugins \ {p} : installed'[q] = installed[q]
  BY <1>1, <1>2 DEF MarketInv, InstalledTypes
<1>4. InstalledTypes'
  BY <1>2, <1>3 DEF MarketInv, InstalledTypes, IsInstalled
<1>5. \A q \in Plugins \ {p} : Of(q)' = Of(q) /\ (IsInstalled(q)' <=> IsInstalled(q))
  BY <1>3 DEF Of, IsInstalled
<1>6. Of(p)' = m
  BY <1>3 DEF Of
<1>7. ASSUME NEW q \in Plugins, IsInstalled(q)', NEW d \in DOMAIN Of(q)'.deps
      PROVE  <<q, d>> \in unchecked' \/ (IsInstalled(d)' /\ Satisfies(Of(d)'.version, Of(q)'.deps[d]))
  <2>1. CASE q = p
    <3>1. d \in Plugins
      BY <1>6, <1>7, <2>1, MarketAssumption
    <3> QED
      BY <1>2, <2>1, <3>1
  <2>2. CASE q # p
    <3>1. IsInstalled(q) /\ Of(q)' = Of(q) /\ d \in DOMAIN Of(q).deps /\ d \in Plugins
      BY <1>5, <1>7, <2>2, InstalledManifest DEF MarketInv
    <3>2. <<q, d>> \in unchecked \/ (IsInstalled(d) /\ Satisfies(Of(d).version, Of(q).deps[d]))
      BY <3>1 DEF MarketInv, DependenciesSatisfied
    <3>3. <<q, d>> \in unchecked \/ d = p => <<q, d>> \in unchecked'
      BY <1>2
    <3> QED
      BY <1>5, <3>1, <3>2, <3>3
  <2> QED
    BY <2>1, <2>2
<1>8. DependenciesSatisfied'
  BY <1>7 DEF DependenciesSatisfied
<1> QED
  BY <1>4, <1>8 DEF MarketInv

\* A registration leaves what is installed as it was.
LEMMA SameInstalled ==
  ASSUME MarketInv, installed' = installed, unchecked' = unchecked, registry' \subseteq Manifests
  PROVE  MarketInv'
<1>1. \A p \in Plugins : (IsInstalled(p)' <=> IsInstalled(p)) /\ Of(p)' = Of(p)
  BY DEF IsInstalled, Of
<1>2. InstalledTypes'
  BY <1>1 DEF MarketInv, InstalledTypes
<1>3. ASSUME NEW p \in Plugins, IsInstalled(p)', NEW d \in DOMAIN Of(p)'.deps
      PROVE  <<p, d>> \in unchecked' \/ (IsInstalled(d)' /\ Satisfies(Of(d)'.version, Of(p)'.deps[d]))
  <2>1. IsInstalled(p) /\ d \in DOMAIN Of(p).deps /\ Of(p)' = Of(p) /\ d \in Plugins
    BY <1>1, <1>3, InstalledManifest DEF MarketInv
  <2>2. <<p, d>> \in unchecked \/ (IsInstalled(d) /\ Satisfies(Of(d).version, Of(p).deps[d]))
    BY <2>1 DEF MarketInv, DependenciesSatisfied
  <2> QED
    BY <1>1, <2>1, <2>2
<1>4. DependenciesSatisfied'
  BY <1>3 DEF DependenciesSatisfied
<1> QED
  BY <1>2, <1>4 DEF MarketInv

\* No step leaves a dependency unmet.
LEMMA NextMarketInv == ASSUME MarketInv, [MarketNext]_marketVars PROVE MarketInv'
<1>1. CASE UNCHANGED marketVars
  BY <1>1, SameInstalled DEF marketVars, MarketInv, InstalledTypes
<1>2. ASSUME NEW m \in Manifests, Register(m) PROVE MarketInv'
  BY <1>2, SameInstalled DEF Register, MarketInv, InstalledTypes
<1>3. ASSUME NEW m \in Manifests, Upgrade(m) PROVE MarketInv'
  BY <1>3, ExchangeKeeps DEF Upgrade
<1>4. ASSUME NEW p \in Plugins, Rollback(p) PROVE MarketInv'
  <2>1. PICK m \in registry : m.id = p /\ Exchange(p, m, Front(installed[p].history))
    BY <1>4 DEF Rollback
  <2>2. m \in Manifests
    BY DEF MarketInv, InstalledTypes
  <2> QED
    BY <2>1, <2>2, ExchangeKeeps
<1> QED
  BY <1>1, <1>2, <1>3, <1>4, InstallKeeps, UninstallKeeps DEF MarketNext

\* Whatever plugins and manifests there are, as long as minor and patch numbers
\* are below 1000: what an installed plugin depends on is installed in a version
\* of the range it asks for, unless an upgrade or a rollback came between
\* (installer.ts:56-294).
THEOREM DependenciesAreMet ==
  ASSUME SmallVersions
  PROVE  MarketSpec => []DependenciesMet
<1>1. MarketInv => DependenciesMet
  <2> SUFFICES ASSUME MarketInv,
                      NEW p \in {q \in Plugins : IsInstalled(q)}, NEW d \in DOMAIN Of(p).deps,
                      <<p, d>> \notin unchecked
               PROVE  IsInstalled(d) /\ InRange(Of(d).version, Of(p).deps[d])
    BY DEF DependenciesMet
  <2>1. IsInstalled(d) /\ Satisfies(Of(d).version, Of(p).deps[d])
    BY DEF MarketInv, DependenciesSatisfied
  <2>2. Of(p) \in Manifests /\ d \in Plugins
    BY InstalledManifest DEF MarketInv
  <2>3. Of(d) \in Manifests
    BY <2>1, <2>2, InstalledManifest DEF MarketInv
  <2>4. Of(d).version \in Version /\ Of(p).deps[d].from \in Version
    BY <2>2, <2>3 DEF SmallVersions
  <2> QED
    BY <2>1, <2>4, SatisfiesIsInRange
<1>2. MarketInit => MarketInv
  BY InitMarketInv
<1>3. MarketInv /\ [MarketNext]_marketVars => MarketInv'
  BY NextMarketInv
<1> QED
  BY <1>1, <1>2, <1>3, PTL DEF MarketSpec

=============================================================================
