-------------------------- MODULE RecordFileWriter --------------------------
(***************************************************************************)
(* RecordFileWriter: the thread that records messages collects them in     *)
(* chunk_active_ and swaps a full chunk with chunk_flush_, which the flush *)
(* thread writes to the file.  flush_mutex_ and flush_cv_ join the two;    *)
(* Close waits for the last chunk, stops the flush thread and completes    *)
(* the header.  RecordWriter serializes the calls of WriteMessage.         *)
(*                                                                         *)
(* A message is its number, which is also its time.  The section headers,  *)
(* the index and failing writes are left out.                              *)
(***************************************************************************)
EXTENDS Integers, Sequences, FiniteSets, SequencesExt

CONSTANTS
    MaxMessages,    \* bound: messages written before Close
    ChunkLimit,     \* a chunk with more messages than this is full
    KeepsUp         \* the flush thread empties chunk_flush_ before the next
                    \* message is written

BoundsAssumption == MaxMessages \in Nat /\ ChunkLimit \in Nat /\ KeepsUp \in BOOLEAN

VARIABLES
    active, flush,  \* the messages of chunk_active_ and of chunk_flush_
    file,           \* the chunks written
    header,         \* begin and end time and number of messages in header_
    is_writing,     \* is_writing_
    mutex,          \* holder of flush_mutex_: "none" or "flusher"
    app, flusher,   \* where the two threads are
    written         \* number of messages given to WriteMessage

vars == <<active, flush, file, header, is_writing, mutex, app, flusher, written>>

Init ==
    /\ active = <<>> /\ flush = <<>>
    /\ file = <<>>
    /\ header = [begin |-> 0, end |-> 0, number |-> 0]
    /\ is_writing = TRUE
    /\ mutex = "none"
    /\ app = "ready" /\ flusher = "loop"
    /\ written = 0

----------------------------------------------------------------------------
(* The thread that records.                                                 *)

\* notify_one and notify_all reach a thread that is blocked, not one that is
\* about to block.
Notified == IF flusher = "blocked" THEN "woken" ELSE flusher

Full(chunk) == Len(chunk) > ChunkLimit

WriteMessage ==
    /\ app = "ready" /\ written < MaxMessages
    /\ KeepsUp => flush = <<>>
    /\ written' = written + 1
    /\ active' = Append(active, written')
    /\ app' = IF Full(active') THEN "swap" ELSE "ready"
    /\ UNCHANGED <<flush, file, header, is_writing, mutex, flusher>>

\* chunk_flush_.swap(chunk_active_) and notify_one, under flush_mutex_.
Swap(from, to) ==
    /\ app = from /\ mutex = "none"
    /\ flush' = active /\ active' = flush
    /\ flusher' = Notified
    /\ app' = to
    /\ UNCHANGED <<file, header, is_writing, mutex, written>>

Close ==
    /\ app = "ready" /\ written = MaxMessages
    /\ app' = "wait"
    /\ UNCHANGED <<active, flush, file, header, is_writing, mutex, flusher, written>>

\* The loops of Close that sleep until chunk_flush_ is empty.
SeesEmpty(from, to) ==
    /\ app = from /\ flush = <<>>
    /\ app' = to
    /\ UNCHANGED <<active, flush, file, header, is_writing, mutex, flusher, written>>

\* is_writing_ = false, without flush_mutex_.
StopWriting ==
    /\ app = "stop"
    /\ is_writing' = FALSE
    /\ app' = "notify"
    /\ UNCHANGED <<active, flush, file, header, mutex, flusher, written>>

NotifyAll ==
    /\ app = "notify"
    /\ flusher' = Notified
    /\ app' = "join"
    /\ UNCHANGED <<active, flush, file, header, is_writing, mutex, written>>

\* flush_thread_->join(), then the index and the header are written.
Joined ==
    /\ app = "join" /\ flusher = "ended"
    /\ app' = "closed"
    /\ UNCHANGED <<active, flush, file, header, is_writing, mutex, flusher, written>>

----------------------------------------------------------------------------
(* The flush thread.                                                        *)

FlushLoop ==
    /\ flusher = "loop"
    /\ flusher' = IF is_writing THEN "woken" ELSE "ended"
    /\ UNCHANGED <<active, flush, file, header, is_writing, mutex, app, written>>

\* It takes flush_mutex_, at first and when it wakes up, and evaluates the
\* predicate of flush_cv_.wait.
Evaluate ==
    /\ flusher = "woken" /\ mutex = "none"
    /\ \/ /\ ~ is_writing
          /\ flusher' = "ended"
          /\ UNCHANGED mutex
       \/ /\ is_writing /\ flush # <<>>
          /\ flusher' = "write"
          /\ mutex' = "flusher"
       \/ /\ is_writing /\ flush = <<>>
          /\ flusher' = "blocking"
          /\ mutex' = "flusher"
    /\ UNCHANGED <<active, flush, file, header, is_writing, app, written>>

\* wait releases the mutex and blocks.
Block ==
    /\ flusher = "blocking"
    /\ flusher' = "blocked"
    /\ mutex' = "none"
    /\ UNCHANGED <<active, flush, file, header, is_writing, app, written>>

SpuriousWakeup ==
    /\ flusher = "blocked"
    /\ flusher' = "woken"
    /\ UNCHANGED <<active, flush, file, header, is_writing, mutex, app, written>>

\* The times that Chunk::add keeps in the header of a chunk.
BeginTime(chunk) == Min(ToSet(chunk))

EndTime(chunk) == Max(ToSet(chunk))

WriteChunk ==
    /\ flusher = "write"
    /\ header' = [begin  |-> IF header.begin = 0 THEN BeginTime(flush) ELSE header.begin,
                  end    |-> EndTime(flush),
                  number |-> header.number + Len(flush)]
    /\ file' = Append(file, flush)
    /\ flusher' = "clear"
    /\ UNCHANGED <<active, flush, is_writing, mutex, app, written>>

\* chunk_flush_->clear(), and the end of the scope of the lock.
Clear ==
    /\ flusher = "clear"
    /\ flush' = <<>>
    /\ mutex' = "none"
    /\ flusher' = "loop"
    /\ UNCHANGED <<active, file, header, is_writing, app, written>>

----------------------------------------------------------------------------
AppNext ==
    \/ WriteMessage \/ Swap("swap", "ready")
    \/ Close \/ SeesEmpty("wait", "last swap") \/ Swap("last swap", "wait last")
    \/ SeesEmpty("wait last", "stop") \/ StopWriting \/ NotifyAll \/ Joined

FlusherNext == FlushLoop \/ Evaluate \/ Block \/ WriteChunk \/ Clear

Done == app = "closed" /\ UNCHANGED vars

Next == AppNext \/ FlusherNext \/ SpuriousWakeup \/ Done

Spec == Init /\ [][Next]_vars

\* The two threads keep running; no spurious wakeup is counted on.
FairSpec == Spec /\ WF_vars(AppNext) /\ WF_vars(FlusherNext)

----------------------------------------------------------------------------
\* The state has its shape, flush_mutex_ is held where the flush thread's code
\* holds it, and no message is counted twice.
TypeOK ==
    /\ {active, flush} \cup ToSet(file) \subseteq Seq(1 .. MaxMessages)
    /\ header.number \in 0 .. MaxMessages /\ header.begin \in 0 .. header.end
    /\ is_writing \in BOOLEAN
    /\ mutex = IF flusher \in {"blocking", "write", "clear"} THEN "flusher" ELSE "none"
    /\ app \in {"ready", "swap", "wait", "last swap", "wait last", "stop", "notify", "join",
                "closed"}
    /\ flusher \in {"loop", "woken", "blocking", "blocked", "write", "clear", "ended"}

\* Every message given to WriteMessage is in exactly one place, once: in a
\* chunk of the file, in the active chunk or in the chunk to be flushed,
\* through all the exchanges of the two chunks.
NothingLost ==
    LET pending == IF flusher = "clear" THEN <<>> ELSE flush
        all == FlattenSeq(file) \o active \o pending
    IN  Len(all) = written /\ ToSet(all) = 1 .. written

\* When Close has returned, all messages are in the file and the header has
\* counted them.
ClosedIsComplete ==
    app = "closed" => ToSet(FlattenSeq(file)) = 1 .. written /\ header.number = written

\* When Close has returned, the times in the header span all messages of the
\* file (RecordViewer and RecordReader show nothing outside of them).
HeaderSpansMessages ==
    app = "closed" /\ written > 0 => header.begin = 1 /\ header.end = written

\* A chunk that was handed over is written.
FlushHappens == flush # <<>> ~> flush = <<>>

\* Close comes to its end.
CloseReturns == app = "wait" ~> app = "closed"
============================================================================
