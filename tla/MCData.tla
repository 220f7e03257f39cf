------------------------------- MODULE MCData -------------------------------
(***************************************************************************)
(* What a reader reads from: the channel buffer of a visitor, the fusion   *)
(* of several channels, and the blocker of an observing reader.  A         *)
(* behaviour is one of the instance that subject names.                    *)
(***************************************************************************)
EXTENDS ChannelBuffer, TLC

CONSTANTS Subjects, t1, t2, r1, r2, Nobody
VARIABLES
    subject,
    head_0, tail_0, buffer_0, index_0, out_0, log_0,       \* of a buffer of size 0
    added, callback, received, mutex, disp, tuples, next, fetched, crashed, seen, fresh,
                                                           \* of the fusion
    exists, capacity, published, observed, callbacks, init, call, count, pushed,
    cleared, depth, heard, awaited, visited                \* of the blocker

zeroVars == <<head_0, tail_0, buffer_0, index_0, out_0, log_0>>
fusionVars == <<added, callback, received, mutex, disp, tuples, next, fetched, crashed, seen, fresh>>
blockerVars == <<exists, capacity, published, observed, callbacks, init, call, count, pushed,
                 cleared, depth, heard, awaited, visited>>

\* a queue size of 0: the buffer is full from the start, Head() is past Tail()
Zero == INSTANCE ChannelBuffer WITH
    Size <- 0, head_ <- head_0, tail_ <- tail_0, buffer_ <- buffer_0,
    next_msg_index_ <- index_0, out <- out_0, log <- log_0
Fusion == INSTANCE AllLatest WITH
    Others <- 2, Size <- 1, Dispatchers <- {t1, t2}, Bound <- 3,
    count <- received, log <- tuples, out <- fetched, floor <- fresh
\* the blocker of one reader
Own == INSTANCE Blocker WITH
    Threads <- {t1, t2}, Readers <- {r2}, Depth <- [r \in {r2} |-> 3], Intra <- FALSE,
    Depths <- {0, 1}, DefaultCapacity <- 1, MaxPublish <- 4, log <- pushed, floor <- cleared
\* one blocker for two readers in simulation mode
Intra == INSTANCE Blocker WITH
    Threads <- {t1, t2}, Readers <- {r1, r2}, Depth <- [r \in {r1, r2} |-> IF r = r1 THEN 1 ELSE 3],
    Intra <- TRUE, Depths <- {0}, DefaultCapacity <- 1, MaxPublish <- 2,
    log <- pushed, floor <- cleared

ASSUME Fusion!OthersAssumption /\ Fusion!SizeAssumption /\ Fusion!NobodyAssumption
ASSUME Own!BlockerAssumption /\ Intra!BlockerAssumption

DataInit ==
    /\ subject \in Subjects
    /\ Init /\ Zero!Init /\ Fusion!Init
    /\ IF subject = "intra" THEN Intra!Init ELSE Own!Init

DataNext ==
    /\ UNCHANGED subject
    /\ \/ subject = "buffer" /\ Next /\ UNCHANGED <<zeroVars, fusionVars, blockerVars>>
       \/ subject = "zero" /\ Zero!Next /\ UNCHANGED <<vars, fusionVars, blockerVars>>
       \/ subject = "fusion" /\ Fusion!Next /\ UNCHANGED <<vars, zeroVars, blockerVars>>
       \/ subject = "own" /\ Own!Next /\ UNCHANGED <<vars, zeroVars, fusionVars>>
       \/ subject = "intra" /\ Intra!Next /\ UNCHANGED <<vars, zeroVars, fusionVars>>

DataSpec == DataInit /\ [][DataNext]_<<subject, vars, zeroVars, fusionVars, blockerVars>>

Symmetry == Permutations({t1, t2})

-----------------------------------------------------------------------------
\* With a queue size of 0 as well, the answers of Fetch, Latest and FetchMulti
\* are those of a log of which only the newest message is read.
ZeroReadsTheLog == Zero!ReadsTheLog

\* AllLatest: later tuples have a later message of channel 0 and no earlier
\* message of any other channel, although the other buffers are read one by
\* one while their channels go on receiving; a message is joined with nothing
\* older than what the other channels had when it arrived; and the visitor is
\* handed the tuples in order, none of them twice.
\* Blocker: the published messages are the last ones pushed, newest first, no
\* more than the capacity and without a gap, and the observed ones were so at
\* some time, whatever the capacity was set to in between and whoever cleared.
\* For a single reader, what ClearData cleared is not observed again, and a
\* traversal from Begin() to End() visits every observed message.
DataIsCurrent ==
    /\ subject = "fusion" =>
         Fusion!TypeOK /\ Fusion!FusedInOrder /\ Fusion!FusedIsFresh /\ Fusion!FetchedForward
    /\ subject = "own" =>
         /\ Own!TypeOK /\ Own!WithinCapacity /\ Own!NewestFirst
         /\ Own!ClearedStays /\ Own!TraversesAll
    /\ subject = "intra" => Intra!TypeOK /\ Intra!WithinCapacity /\ Intra!NewestFirst

\* Blocker: a reader subscribed before Publish began, and not shut down before
\* it returned, has heard the message once.
HeardOnce == Intra!HeardOnce
=============================================================================
