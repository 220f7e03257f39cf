------------------------------ MODULE MCProcess ------------------------------
(***************************************************************************)
(* What a process does beside communicating: loading classes, recording    *)
(* and playing back messages, and logging.  A behaviour is one of the      *)
(* instance that subject names.                                            *)
(***************************************************************************)
EXTENDS ClassLoader, TLC

CONSTANTS Subjects, l1, l2, l3, a, b, t1, t2
VARIABLES
    subject,
    active, flush, chunks, header, is_writing, mutex, app, flusher, flushed,        \* chunk writer
    is_opened, file, files, segment_raw_size, segment_begin_time, number, written,
    accepted, crashed, readers, v, buffer, out,                                     \* record
    state, active_buf, buf, log_thread, pos, wake, logs, synced, pc, loaded,
    passes, woken, logged, mark, dropped                                            \* logger

loaderVars == <<alive, loadRef, objRef, opened, factory, objects>>
chunkVars == <<active, flush, chunks, header, is_writing, mutex, app, flusher, flushed>>
recordVars == <<is_opened, file, files, segment_raw_size, segment_begin_time, number, written,
                accepted, crashed, readers, v, buffer, out>>
logVars == <<state, active_buf, buf, log_thread, pos, wake, logs, synced, pc, loaded,
             passes, woken, logged, mark, dropped>>

\* two loaders of library a beside one of b, with classes of different names
MCLibOf == l1 :> a @@ l2 :> a @@ l3 :> b
MCClasses == a :> {"A", "C"} @@ b :> {"B"}
\* the same loaders with a class name that both libraries register
Clash == INSTANCE ClassLoader WITH Classes <- a :> {"A", "C"} @@ b :> {"B", "C"}

\* a flush thread that is as slow as may be, and one that keeps up
Behind == INSTANCE RecordFileWriter WITH
    MaxMessages <- 7, ChunkLimit <- 1, KeepsUp <- FALSE, file <- chunks, written <- flushed
Keeps == INSTANCE RecordFileWriter WITH
    MaxMessages <- 10, ChunkLimit <- 1, KeepsUp <- TRUE, file <- chunks, written <- flushed

\* messages recorded in order, viewed with several windows and filters
Ordered == INSTANCE RecordViewer WITH
    Channels <- {"c", "d"}, Times <- 1 .. 5, InOrder <- TRUE, SegmentInterval <- 2, SegmentSize <- 2,
    ChunkInterval <- 0, ChunkSize <- 1, MayFail <- FALSE, MaxMessages <- 4,
    Views <- {<<0, 9>>, <<2, 4>>, <<3, 3>>, <<4, 2>>}, Filters <- {{}, {"c"}}, Step <- 1, BufferMin <- 2
\* messages recorded out of order in files that overlap
Unordered == INSTANCE RecordViewer WITH
    Channels <- {"c"}, Times <- 1 .. 5, InOrder <- FALSE, SegmentInterval <- 0, SegmentSize <- 1,
    ChunkInterval <- 0, ChunkSize <- 1, MayFail <- FALSE, MaxMessages <- 4,
    Views <- {<<0, 9>>}, Filters <- {{}}, Step <- 1, BufferMin <- 2
\* files that may fail to open
Fails == INSTANCE RecordViewer WITH
    Channels <- {"c", "d"}, Times <- 1 .. 5, InOrder <- TRUE, SegmentInterval <- 2, SegmentSize <- 1,
    ChunkInterval <- 1, ChunkSize <- 0, MayFail <- TRUE, MaxMessages <- 4,
    Views <- {}, Filters <- {{}}, Step <- 1, BufferMin <- 2

Logger == INSTANCE AsyncLogger WITH
    Threads <- {t1, t2}, Modules <- {"m", "n"}, Half <- 1, MaxAccept <- 3,
    active <- active_buf, flusher <- log_thread, file <- logs, accepted <- logged

ASSUME Behind!BoundsAssumption /\ Keeps!BoundsAssumption
ASSUME Ordered!TimesAssumption /\ Unordered!TimesAssumption /\ Fails!TimesAssumption
ASSUME Ordered!LimitsAssumption /\ Unordered!LimitsAssumption /\ Fails!LimitsAssumption
ASSUME Ordered!StepAssumption /\ Unordered!StepAssumption /\ Fails!StepAssumption
ASSUME Logger!ThreadsAssumption /\ Logger!BoundAssumption

ProcessInit ==
    /\ subject \in Subjects
    /\ Init /\ Behind!Init /\ Ordered!ViewInit /\ Logger!Init

ProcessNext ==
    /\ UNCHANGED subject
    /\ \/ /\ (subject = "loader" /\ Next) \/ (subject = "clash" /\ Clash!Next)
          /\ UNCHANGED <<chunkVars, recordVars, logVars>>
       \/ /\ (subject = "behind" /\ Behind!Next) \/ (subject = "keeps" /\ Keeps!Next)
          /\ UNCHANGED <<loaderVars, recordVars, logVars>>
       \/ /\ \/ subject = "ordered" /\ Ordered!Next
             \/ subject = "unordered" /\ Unordered!Next
             \/ subject = "fails" /\ Fails!Next
          /\ UNCHANGED <<loaderVars, chunkVars, logVars>>
       \/ /\ subject = "logger" /\ Logger!Next
          /\ UNCHANGED <<loaderVars, chunkVars, recordVars>>

ProcessSpec == ProcessInit /\ [][ProcessNext]_<<subject, loaderVars, chunkVars, recordVars, logVars>>

Symmetry == Permutations({t1, t2})

-----------------------------------------------------------------------------

\* AsyncLogger: every message accepted is, once and in order, in the log file
\* of its module or still in a buffer; when Flush returns, what was accepted
\* before the call has been pushed out; once the flusher has finished, both
\* buffers are empty; and a buffer outgrows its half of the space only by what
\* the threads already past the unlocked check still add.
LogsLoseNothing ==
    subject = "logger" =>
        /\ Logger!TypeOK /\ Logger!NothingLost /\ Logger!FlushIsComplete
        /\ Logger!StopIsClean /\ Logger!WithinSlack
=============================================================================
