------------------------------ MODULE Telemetry ------------------------------
(***************************************************************************)
(* SpanManager of the telemetry package.  Ended spans wait in a bounded    *)
(* buffer; a flush, by the timer, by a caller or because a batch is full,  *)
(* takes the whole buffer to the exporter.  Flushes do not wait for one    *)
(* another, spans end while they are under way, and a flush that fails     *)
(* puts back what the buffer has room for.  Spans are numbered as they end.*)
(***************************************************************************)
EXTENDS Integers, Sequences, FiniteSets, Functions

CONSTANTS
    MaxBufferSize, \* config.maxBufferSize
    BatchSize,     \* config.exporter.batchSize
    MaxSpans       \* bound: spans that end

ASSUME TelemetryAssumption ==
    /\ MaxBufferSize \in Nat \ {0} /\ BatchSize \in Nat \ {0} /\ MaxSpans \in Nat

VARIABLES
    spanBuffer, \* buffer
    exporting,  \* the batches that exports under way have taken
    created,    \* totalSpansCreated
    exported,   \* totalSpansExported
    dropped,    \* totalSpansDropped
    cut         \* history: number of spans of failed batches not put back

spanVars == <<spanBuffer, exporting, created, exported, dropped, cut>>

-----------------------------------------------------------------------------
\* Mutant: the flush takes a copy.
TakenCopy(buffer) ==
    /\ spanBuffer' = buffer
    /\ exporting' = IF buffer = <<>> THEN exporting ELSE exporting \union {buffer}

\* A flush of a buffer takes all of it, unless there is nothing to take.
Taken(buffer) ==
    /\ spanBuffer' = <<>>
    /\ exporting' = IF buffer = <<>> THEN exporting ELSE exporting \union {buffer}

Flush ==
    /\ spanBuffer # <<>>
    /\ Taken(spanBuffer)
    /\ UNCHANGED <<created, exported, dropped, cut>>

\* A full buffer drops its oldest span for the new one; a full batch is flushed.
OnSpanEnd ==
    LET full == Len(spanBuffer) >= MaxBufferSize
        new  == Append(IF full THEN Tail(spanBuffer) ELSE spanBuffer, created + 1)
    IN  /\ created < MaxSpans
        /\ created' = created + 1
        /\ dropped' = IF full THEN dropped + 1 ELSE dropped
        /\ IF Len(new) >= BatchSize
           THEN Taken(new)
           ELSE spanBuffer' = new /\ UNCHANGED exporting
        /\ UNCHANGED <<exported, cut>>

ExportOk(batch) ==
    /\ batch \in exporting
    /\ exporting' = exporting \ {batch}
    /\ exported' = exported + Len(batch)
    /\ UNCHANGED <<spanBuffer, created, dropped, cut>>

\* The head of the batch goes back before the spans that have ended meanwhile.
ExportFails(batch) ==
    LET room == MaxBufferSize - Len(spanBuffer)
        back == SubSeq(batch, 1, IF room < Len(batch) THEN room ELSE Len(batch))
    IN  /\ batch \in exporting
        /\ exporting' = exporting \ {batch}
        /\ spanBuffer' = back \o spanBuffer
        /\ cut' = cut + Len(batch) - Len(back)
        /\ UNCHANGED <<created, exported, dropped>>

-----------------------------------------------------------------------------
TelemetryInit ==
    /\ spanBuffer = <<>> /\ exporting = {}
    /\ created = 0 /\ exported = 0 /\ dropped = 0 /\ cut = 0

TelemetryNext ==
    \/ Flush \/ OnSpanEnd
    \/ \E batch \in exporting : ExportOk(batch) \/ ExportFails(batch)

TelemetrySpec == TelemetryInit /\ [][TelemetryNext]_spanVars

-----------------------------------------------------------------------------
(* Properties *)

Places == {spanBuffer} \union exporting

\* The spans that are neither exported nor lost.
Waiting == UNION {Range(p) : p \in Places}

\* Flushes that overlap and fail in any order neither lose a span without
\* count nor export it twice: a span that has ended is exported, dropped, cut
\* or at one position of one place, and the buffer keeps its bound
\* (span-manager.ts:327-355).
SpansAccounted ==
    /\ Len(spanBuffer) <= MaxBufferSize
    /\ \A p, q \in Places : \A i \in DOMAIN p, j \in DOMAIN q :
           p[i] = q[j] => p = q /\ i = j
    /\ created = exported + dropped + cut + Cardinality(Waiting)

=============================================================================
