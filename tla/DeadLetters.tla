----------------------------- MODULE DeadLetters -----------------------------
(***************************************************************************)
(* PersistentJobStorage: job records and dead letters in a key-value store *)
(* that outlives the process.  A job that has failed for good gets a dead  *)
(* letter; a letter is replayed as a new job, or purged when it is old.    *)
(* Every step is one call to the store, and the process may die between    *)
(* two of them.                                                            *)
(***************************************************************************)
EXTENDS Integers, TLC

CONSTANTS
    JobNames,   \* the names of jobs
    FirstJobs,  \* the ids of the jobs that are pending at first
    Replayers,  \* bound: calls of replayDeadLetter under way at a time
    MaxTime,    \* bound: the time, in milliseconds
    MaxLetters  \* bound: letters ever written

\* Job ids: "<name>_<n>" is given by the caller, "<name>_replay_<n>" holds the time.
JobIds == [name : JobNames, kind : {"job", "replay"}, n : 0..MaxTime]

ASSUME LettersAssumption ==
    /\ FirstJobs \subseteq {i \in JobIds : i.kind = "job"}
    /\ MaxTime \in Nat /\ MaxLetters \in Nat

VARIABLES
    record,   \* job:<id>, the stored jobs: their status and the letter they replay
    letters,  \* dlq:<id>, the stored letters: the job and the time of the failure
    moving,   \* jobs stored as failed whose letter is not written yet
    replay,   \* the calls of replayDeadLetter
    purge,    \* the call of purgeDeadLetters: keys to look at, and the time limit
    written,  \* history: number of letters written
    replayed, \* history: letters for which a job was stored
    now       \* Date.now()

lettersVars == <<record, letters, moving, replay, purge, written, replayed, now>>

NoLetter == [job |-> [name |-> "", kind |-> "", n |-> 0], at |-> -1]

NoReplay == [pc |-> "idle", letter |-> NoLetter]

NoPurge == [todo |-> {}, olderThan |-> 0]

-----------------------------------------------------------------------------
(* failJob of the queue *)

JobCompletes(i) ==
    /\ record[i].status = "pending"
    /\ record' = [record EXCEPT ![i].status = "completed"]
    /\ UNCHANGED <<letters, moving, replay, purge, written, replayed, now>>

JobFails(i) ==
    /\ record[i].status = "pending"
    /\ record' = [record EXCEPT ![i].status = "failed"]
    /\ moving' = moving \union {i}
    /\ UNCHANGED <<letters, replay, purge, written, replayed, now>>

MoveToDeadLetter(i) ==
    /\ i \in moving
    /\ written < MaxLetters
    /\ letters' = letters \union {[job |-> i, at |-> now]}
    /\ moving' = moving \ {i}
    /\ written' = written + 1
    /\ UNCHANGED <<record, replay, purge, replayed, now>>

-----------------------------------------------------------------------------
(* replayDeadLetter *)

ReplayDeadLetter(r, l) ==
    /\ replay[r].pc = "idle"
    /\ l \in letters
    /\ replay' = [replay EXCEPT ![r] = [pc |-> "read", letter |-> l]]
    /\ UNCHANGED <<record, letters, moving, purge, written, replayed, now>>

\* The new job, whose id is its name and the time, replaces one of that id.
SaveReplay(r) ==
    LET l == replay[r].letter
        i == [name |-> l.job.name, kind |-> "replay", n |-> now]
    IN  /\ replay[r].pc = "read"
        /\ record' = i :> [status |-> "pending", letter |-> l] @@ record
        /\ replayed' = replayed \union {l}
        /\ replay' = [replay EXCEPT ![r].pc = "saved"]
        /\ UNCHANGED <<letters, moving, purge, written, now>>

\* Mutant: the letter is removed before the job is stored.
RemoveLetterFirst(r) ==
    /\ replay[r].pc = "read"
    /\ letters' = letters \ {replay[r].letter}
    /\ UNCHANGED <<record, moving, replay, purge, written, replayed, now>>

RemoveLetter(r) ==
    /\ replay[r].pc = "saved"
    /\ letters' = letters \ {replay[r].letter}
    /\ replay' = [replay EXCEPT ![r] = NoReplay]
    /\ UNCHANGED <<record, moving, purge, written, replayed, now>>

-----------------------------------------------------------------------------
(* purgeDeadLetters, and the process *)

PurgeDeadLetters(t) ==
    /\ purge.todo = {}
    /\ letters # {}
    /\ purge' = [todo |-> letters, olderThan |-> t]
    /\ UNCHANGED <<record, letters, moving, replay, written, replayed, now>>

\* A key of the snapshot is read, and deleted if its letter is old.
PurgeNext(l) ==
    /\ l \in purge.todo
    /\ letters' = IF l.at < purge.olderThan THEN letters \ {l} ELSE letters
    /\ purge' = IF purge.todo = {l} THEN NoPurge ELSE [purge EXCEPT !.todo = @ \ {l}]
    /\ UNCHANGED <<record, moving, replay, written, replayed, now>>

\* The process dies and starts again.
Crash ==
    /\ moving' = {}
    /\ replay' = [r \in Replayers |-> NoReplay]
    /\ purge' = NoPurge
    /\ UNCHANGED <<record, letters, written, replayed, now>>

LettersTick ==
    /\ now < MaxTime
    /\ now' = now + 1
    /\ UNCHANGED <<record, letters, moving, replay, purge, written, replayed>>

-----------------------------------------------------------------------------
LettersInit ==
    /\ record = [i \in FirstJobs |-> [status |-> "pending", letter |-> NoLetter]]
    /\ letters = {} /\ moving = {} /\ written = 0 /\ replayed = {} /\ now = 0
    /\ replay = [r \in Replayers |-> NoReplay]
    /\ purge = NoPurge

JobStep == \E i \in DOMAIN record : JobCompletes(i) \/ JobFails(i) \/ MoveToDeadLetter(i)

ReplayStep ==
    \E r \in Replayers :
        (\E l \in letters : ReplayDeadLetter(r, l)) \/ SaveReplay(r) \/ RemoveLetter(r)

PurgeStep ==
    \/ \E t \in 1..MaxTime : PurgeDeadLetters(t)
    \/ \E l \in purge.todo : PurgeNext(l)

LettersNext == JobStep \/ ReplayStep \/ PurgeStep \/ Crash \/ LettersTick

LettersSpec == LettersInit /\ [][LettersNext]_lettersVars

-----------------------------------------------------------------------------
(* Properties *)

\* A letter leaves the queue only when a job has been stored for it or when a
\* purge finds it older than its limit, wherever the process dies
\* (persistent-storage.ts:307-310, 319-335).
LettersKept ==
    [][\A l \in letters \ letters' :
         l \in replayed \/ (l \in purge.todo /\ l.at < purge.olderThan)]_lettersVars

\* "Re-enqueue a dead letter entry as a new pending job"
\* (persistent-storage.ts:279): every letter replayed has a job of its own.
ReplayedHaveJobs ==
    \A l \in replayed : \E i \in DOMAIN record : record[i].letter = l

=============================================================================
