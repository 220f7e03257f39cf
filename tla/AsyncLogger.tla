----------------------------- MODULE AsyncLogger -----------------------------
(***************************************************************************)
(* The asynchronous logger (logger/async_logger.h, .cc): threads append    *)
(* messages to the active of two buffers, and one flusher thread swaps the *)
(* buffers, writes the messages of the swapped one to the log file of      *)
(* their module and flushes the files if asked to.  mutex_ protects the    *)
(* buffers and state_, so what runs under it is one step; the flusher      *)
(* works on the swapped buffer without it, and Write looks at the size of  *)
(* the active buffer without it.                                           *)
(*                                                                         *)
(* Every message counts as one unit of buffer space.  flush_count_ is only *)
(* ever compared with its value at the start of a Flush, so each Flush     *)
(* counts the passes of the flusher since it started, up to two.           *)
(***************************************************************************)
EXTENDS Naturals, Sequences, FiniteSets, SequencesExt

CONSTANTS
    Threads,    \* application threads
    Modules,    \* modules, each with a log file of its own
    Half,       \* max_buffer_bytes_ / 2
    MaxAccept   \* bound on the messages accepted

ThreadsAssumption == IsFiniteSet(Threads)
BoundAssumption == Half \in Nat /\ MaxAccept \in Nat

VARIABLES
    state,      \* state_
    active,     \* which of the two buffers active_buf_ points to
    buf,        \* the buffers: their messages and their flush flag
    flusher,    \* where the flusher thread is
    pos,        \* next message the flusher writes
    wake,       \* has the waiting flusher been notified?
    file,       \* file[m]: what has been written to the log file of m
    synced,     \* synced[m]: how much of it fflush has pushed out
    pc,         \* where each thread is
    loaded,     \* loaded[t]: the buffer t looks at in Write
    passes,     \* passes[t]: passes of the flusher since t called Flush
    woken,      \* threads in Flush that have been notified
    accepted,   \* every message accepted, in order
    mark,       \* mark[t]: how many there were when t called Flush
    dropped     \* messages dropped because the buffer was full

vars == <<state, active, buf, flusher, pos, wake, file, synced, pc, loaded,
          passes, woken, accepted, mark, dropped>>

Buffers == {0, 1}
Empty == [messages |-> <<>>, flush |-> FALSE]
Other == 1 - active

needs_flush_or_write(b) == b.flush \/ b.messages # <<>>
BufferFull(b) == Len(b.messages) > Half

Init ==
    /\ state = "INITTED"
    /\ active = 0
    /\ buf = [b \in Buffers |-> Empty]
    /\ flusher = "none" /\ pos = 1 /\ wake = FALSE
    /\ file = [m \in Modules |-> <<>>]
    /\ synced = [m \in Modules |-> 0]
    /\ pc = [t \in Threads |-> "idle"]
    /\ loaded = [t \in Threads |-> 0]
    /\ passes = [t \in Threads |-> 0]
    /\ woken = {}
    /\ accepted = <<>>
    /\ mark = [t \in Threads |-> 0]
    /\ dropped = 0

-----------------------------------------------------------------------------
\* Start and Stop.
Start ==
    /\ state = "INITTED"
    /\ state' = "RUNNING"
    /\ flusher' = "top"
    /\ UNCHANGED <<active, buf, pos, wake, file, synced, pc, loaded, passes,
                   woken, accepted, mark, dropped>>

\* Stop then joins the flusher, which adds nothing to the state.
Stop ==
    /\ state = "RUNNING"
    /\ state' = "STOPPED"
    /\ wake' = (wake \/ flusher = "waiting")
    /\ UNCHANGED <<active, buf, flusher, pos, file, synced, pc, loaded, passes,
                   woken, accepted, mark, dropped>>

-----------------------------------------------------------------------------
\* Write: load active_buf_, look at its size, then take the lock and add.
\* Nothing keeps the buffers from being swapped between any two of these.
WriteLoad(t) ==
    /\ state # "INITTED" /\ pc[t] = "idle"
    /\ Len(accepted) < MaxAccept
    /\ loaded' = [loaded EXCEPT ![t] = active]
    /\ pc' = [pc EXCEPT ![t] = "check"]
    /\ UNCHANGED <<state, active, buf, flusher, pos, wake, file, synced, passes,
                   woken, accepted, mark, dropped>>

WriteCheck(t) ==
    /\ pc[t] = "check"
    /\ IF BufferFull(buf[loaded[t]])
       THEN pc' = [pc EXCEPT ![t] = "idle"] /\ dropped' = 1
       ELSE pc' = [pc EXCEPT ![t] = "add"] /\ UNCHANGED dropped
    /\ loaded' = [loaded EXCEPT ![t] = 0]
    /\ UNCHANGED <<state, active, buf, flusher, pos, wake, file, synced, passes,
                   woken, accepted, mark>>

\* Buffer::add on the active buffer.
AddTo(msg, force) ==
    /\ buf' = [buf EXCEPT ![active] =
                 [messages |-> Append(@.messages, msg), flush |-> @.flush \/ force]]
    /\ accepted' = Append(accepted, msg)

\* A message's module is the caller's; its level matters to LogFileObject only.
WriteAdd(t) ==
    /\ pc[t] = "add"
    /\ pc' = [pc EXCEPT ![t] = "idle"]
    /\ IF state = "RUNNING"
       THEN /\ \E m \in Modules, force \in BOOLEAN :
                 AddTo([id |-> Len(accepted) + 1, module |-> m], force)
            /\ wake' = (wake \/ flusher = "waiting")
       ELSE UNCHANGED <<buf, accepted, wake>>
    /\ UNCHANGED <<state, active, flusher, pos, file, synced, loaded, passes,
                   woken, mark, dropped>>

-----------------------------------------------------------------------------
\* Flush: ask for a flush and wait until the flusher has made two passes.
FlushAsk(t) ==
    /\ buf' = [buf EXCEPT ![active].flush = TRUE]
    /\ wake' = (wake \/ flusher = "waiting")

Flush(t) ==
    /\ pc[t] = "idle" /\ state = "RUNNING"
    /\ pc' = [pc EXCEPT ![t] = "flushing"]
    /\ passes' = [passes EXCEPT ![t] = 0]
    /\ mark' = [mark EXCEPT ![t] = Len(accepted)]
    /\ FlushAsk(t)
    /\ UNCHANGED <<state, active, flusher, pos, file, synced, loaded, woken,
                   accepted, dropped>>

\* May t leave Flush?  Mutant: one pass of the flusher is enough.
FlushedTwiceOnce(t) == passes[t] >= 1
FlushedTwice(t) == passes[t] >= 2

\* A notified Flush looks again.
FlushWake(t) ==
    /\ pc[t] = "flushing" /\ t \in woken
    /\ woken' = woken \ {t}
    /\ IF ~FlushedTwice(t) /\ state = "RUNNING"
       THEN FlushAsk(t) /\ UNCHANGED <<pc, passes, mark>>
       ELSE /\ pc' = [pc EXCEPT ![t] = "idle"]
            /\ passes' = [passes EXCEPT ![t] = 0]
            /\ mark' = [mark EXCEPT ![t] = 0]
            /\ UNCHANGED <<buf, wake>>
    /\ UNCHANGED <<state, active, flusher, pos, file, synced, loaded, accepted,
                   dropped>>

-----------------------------------------------------------------------------
\* The inner loop of RunThread, entered with buffers b: swap if there is
\* something to do or the logger is stopping, else wait.
SwapOrWait(b) ==
    /\ buf' = b
    /\ wake' = FALSE
    /\ pos' = 1
    /\ IF needs_flush_or_write(b[active]) \/ state # "RUNNING"
       THEN flusher' = "write" /\ active' = Other
       ELSE flusher' = "waiting" /\ UNCHANGED active

\* The outer loop's condition.
RunLoop ==
    IF state = "RUNNING" \/ needs_flush_or_write(buf[active])
    THEN SwapOrWait(buf)
    ELSE flusher' = "done" /\ UNCHANGED <<active, buf, wake, pos>>

\* The thread has started.
FlusherTop ==
    /\ flusher = "top"
    /\ RunLoop
    /\ UNCHANGED <<state, file, synced, pc, loaded, passes, woken, accepted,
                   mark, dropped>>

FlusherWake ==
    /\ flusher = "waiting" /\ wake
    /\ SwapOrWait(buf)
    /\ UNCHANGED <<state, file, synced, pc, loaded, passes, woken, accepted,
                   mark, dropped>>

\* wait_for times out after two seconds.
FlusherTimeout ==
    /\ flusher = "waiting"
    /\ SwapOrWait([buf EXCEPT ![active].flush = TRUE])
    /\ UNCHANGED <<state, file, synced, pc, loaded, passes, woken, accepted,
                   mark, dropped>>

\* LogFileObject::Write: it flushes for a warning or worse, and every so many
\* bytes or seconds, so after any message or none.
FlusherWrite ==
    /\ flusher = "write" /\ pos <= Len(buf[Other].messages)
    /\ LET msg == buf[Other].messages[pos] IN
         /\ file' = [file EXCEPT ![msg.module] = Append(@, msg)]
         /\ \E sync \in BOOLEAN : synced' =
              IF sync THEN [synced EXCEPT ![msg.module] = Len(file'[msg.module])]
              ELSE synced
    /\ pos' = pos + 1
    /\ UNCHANGED <<state, active, buf, flusher, wake, pc, loaded, passes, woken,
                   accepted, mark, dropped>>

\* Flush every log file if the buffer asks for it, then clear the buffer.
FlusherClear ==
    /\ flusher = "write" /\ pos > Len(buf[Other].messages)
    /\ synced' = IF buf[Other].flush THEN [m \in Modules |-> Len(file[m])] ELSE synced
    /\ buf' = [buf EXCEPT ![Other] = Empty]
    /\ flusher' = "relock"
    /\ UNCHANGED <<state, active, pos, wake, file, pc, loaded, passes, woken,
                   accepted, mark, dropped>>

Flushing == {t \in Threads : pc[t] = "flushing"}

CountPass ==
    passes' = [t \in Threads |-> IF t \in Flushing /\ passes[t] < 2
                                 THEN passes[t] + 1 ELSE passes[t]]

\* Mutant: the end of a pass is not announced.
FlusherRelockSilent ==
    /\ flusher = "relock"
    /\ CountPass
    /\ RunLoop
    /\ UNCHANGED <<state, file, synced, pc, loaded, woken, accepted, mark, dropped>>

\* Take the lock back, count the pass and notify every Flush; the lock is kept
\* up to the next swap or wait.
FlusherRelock ==
    /\ flusher = "relock"
    /\ CountPass
    /\ woken' = Flushing
    /\ RunLoop
    /\ UNCHANGED <<state, file, synced, pc, loaded, accepted, mark, dropped>>

Next ==
    \/ Start
    \/ Stop
    \/ \E t \in Threads :
         \/ WriteLoad(t) \/ WriteCheck(t)
         \/ WriteAdd(t) \/ Flush(t) \/ FlushWake(t)
    \/ FlusherTop \/ FlusherWake \/ FlusherTimeout
    \/ FlusherWrite \/ FlusherClear \/ FlusherRelock

Spec == Init /\ [][Next]_vars

\* The flusher and the threads inside a call go on; the flusher's timeout is
\* not relied on, nor does anybody have to call anything.
FairSpec ==
    /\ Spec
    /\ WF_vars(FlusherTop \/ FlusherWake \/ FlusherWrite \/ FlusherClear \/ FlusherRelock)
    /\ \A t \in Threads : WF_vars(WriteCheck(t) \/ WriteAdd(t) \/ FlushWake(t))

-----------------------------------------------------------------------------
\* Every variable has its type.
TypeOK ==
    /\ state \in {"INITTED", "RUNNING", "STOPPED"}
    /\ active \in Buffers
    /\ \A b \in Buffers : buf[b].flush \in BOOLEAN
    /\ flusher \in {"none", "top", "waiting", "write", "relock", "done"}
    /\ pos \in 1..MaxAccept + Cardinality(Threads) + 1
    /\ wake \in BOOLEAN /\ (wake => flusher = "waiting")
    /\ \A m \in Modules : synced[m] \in 0..Len(file[m])
    /\ pc \in [Threads -> {"idle", "check", "add", "flushing"}]
    /\ loaded \in [Threads -> Buffers]
    /\ passes \in [Threads -> 0..2]
    /\ woken \subseteq Threads
    /\ mark \in [Threads -> 0..Len(accepted)]
    /\ dropped \in {0, 1}

\* The messages of a module in a sequence of messages.
OfModule(s, m) == SelectSeq(s, LAMBDA msg : msg.module = m)

\* What the flusher has still to write of the buffer it works on.
Remaining ==
    IF flusher = "write" THEN SubSeq(buf[Other].messages, pos, Len(buf[Other].messages))
    ELSE buf[Other].messages

\* Every message accepted is, once and in the order of acceptance, in the log
\* file of its module or still in a buffer: the swap, the unlocked writing and
\* the clearing of the buffer neither lose, repeat nor reorder messages.
NothingLost ==
    \A m \in Modules :
        OfModule(accepted, m) =
            file[m] \o OfModule(Remaining, m) \o OfModule(buf[active].messages, m)

\* async_logger.cc:122 "Wake up the writer thread at least twice.  This
\* ensures both buffers were completely flushed."  When Flush has seen its two
\* passes, every message accepted before the call has been pushed out to its
\* log file, whatever the flusher was doing when Flush was called.
FlushIsComplete ==
    \A t \in Threads : pc[t] = "flushing" /\ FlushedTwice(t) =>
        \A i \in 1..mark[t] : LET m == accepted[i].module IN
            accepted[i] \in ToSet(SubSeq(file[m], 1, synced[m]))

\* The assertions at the end of Stop: once the flusher has finished, both
\* buffers are empty, so Stop loses nothing that was accepted.
StopIsClean ==
    flusher = "done" => \A b \in Buffers : buf[b].messages = <<>>

\* The size is checked before the lock is taken, and on a buffer that may have
\* been swapped since: the active buffer may outgrow its half of the space,
\* but only by what the threads already past the check still add.
WithinSlack ==
    \A b \in Buffers : Len(buf[b].messages) <= Half + Cardinality(Threads)

\* Every accepted message is written sooner or later, through notifications
\* alone: no wake-up of the flusher is lost.
Written ==
    \A n \in 1..MaxAccept :
        Len(accepted) >= n ~>
            \E m \in Modules : \E i \in DOMAIN file[m] : file[m][i].id = n

\* A Flush returns, even if the logger is stopped meanwhile, and a Stop comes
\* to its join: the flusher finishes.
CallsReturn ==
    /\ \A t \in Threads : pc[t] = "flushing" ~> pc[t] = "idle"
    /\ state = "STOPPED" ~> flusher = "done"

\* async_logger.h:65 "if the underlying log blocks for too long, eventually
\* the threads generating the log messages will block as well": a thread waits
\* for space, it does not lose its message.
NeverDropped == dropped = 0

\* async_logger.h:177 "The maximum number of bytes used by the entire class."
WithinMaximum == Len(buf[0].messages) + Len(buf[1].messages) <= 2 * Half
=============================================================================
