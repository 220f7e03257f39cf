------------------------------ MODULE Blocker ------------------------------
(***************************************************************************)
(* The messages a reader keeps for Observe: blocker/blocker.h.  A Reader   *)
(* owns its blocker (node/reader.h); in simulation mode the IntraReaders   *)
(* and IntraWriters of a channel share the one BlockerManager makes for    *)
(* whoever comes first (blocker/intra_reader.h, blocker_manager.h).        *)
(*                                                                         *)
(* The blocker is that of one channel.  A message is its number in the     *)
(* order of the Publish calls; log is the order in which they were pushed. *)
(***************************************************************************)
EXTENDS Naturals, Sequences, SequencesExt

CONSTANTS
    Threads,
    Readers,
    Depth,              \* the depth in a reader's QoS profile
    Intra,              \* TRUE: simulation mode, one blocker for all readers
    Depths,             \* what SetHistoryDepth is called with
    DefaultCapacity,    \* of BlockerAttr, 10 in the code
    MaxPublish          \* bound: messages published

BlockerAssumption ==
    /\ Depth \in [Readers -> Nat]
    /\ Intra \in BOOLEAN
    /\ Depths \subseteq Nat
    /\ DefaultCapacity \in Nat
    /\ MaxPublish \in Nat

VARIABLES
    exists,     \* blockers_ has the channel
    capacity,   \* attr_.capacity
    published,  \* published_msg_queue_, newest first
    observed,   \* observed_msg_queue_
    callbacks,  \* published_callbacks_: the readers subscribed
    init,       \* the readers whose init_ is true
    call,       \* the call each thread is in
    count,      \* messages published so far
    log,        \* the messages pushed, in order
    floor,      \* what the last ClearData that returned had to clear
    depth,      \* the depth each reader asked for last
    heard,      \* the messages each reader's callback was given
    awaited,    \* of each thread's message: the readers subscribed throughout
    visited     \* of the last traversal: what it saw of what was observed

queues == <<capacity, published, observed, log>>
history == <<floor, depth, heard, awaited, visited>>
vars == <<exists, queues, callbacks, init, call, count, history>>

Idle == [op |-> "idle"]
Numbers == 1 .. MaxPublish

TypeOK ==
    /\ exists \in BOOLEAN
    /\ capacity \in Nat
    /\ \A q \in {published, observed, log, visited.got, visited.of} : Range(q) \subseteq Numbers
    /\ callbacks \subseteq init
    /\ init \subseteq Readers
    /\ \A t \in Threads :
          call[t].op \in {"idle", "subscribe", "push", "notify", "clear"}
    /\ count \in 0 .. MaxPublish
    /\ floor \in 0 .. MaxPublish
    /\ \A r \in Readers : Range(heard[r]) \subseteq Numbers
    /\ awaited \in [Threads -> SUBSET Readers]

Init ==
    /\ exists = ~Intra
    /\ IF Intra THEN capacity = DefaultCapacity
                ELSE \E r \in Readers : capacity = Depth[r]
    /\ published = <<>> /\ observed = <<>> /\ log = <<>>
    /\ callbacks = {}
    /\ init = IF Intra THEN {} ELSE Readers
    /\ call = [t \in Threads |-> Idle]
    /\ count = 0
    /\ floor = 0
    /\ depth = Depth
    /\ heard = [r \in Readers |-> <<>>]
    /\ awaited = [t \in Threads |-> {}]
    /\ visited = [got |-> <<>>, of |-> <<>>]
-----------------------------------------------------------------------------
Goes(t, c) == /\ call[t] = Idle
              /\ call' = [call EXCEPT ![t] = c]

Returns(t) == call' = [call EXCEPT ![t] = Idle]

(* A reader is handed out once its Init has returned.                      *)
Ready(r) ==
    /\ r \in init
    /\ \A t \in Threads : call[t].op = "subscribe" => call[t].reader # r

(* GetOrCreateBlocker: the first caller's capacity is the blocker's.       *)
GetOrCreateBlocker(cap) ==
    /\ exists' = TRUE
    /\ capacity' = IF exists THEN capacity ELSE cap

InitWriter ==
    /\ Intra
    /\ GetOrCreateBlocker(DefaultCapacity)
    /\ UNCHANGED <<published, observed, log, callbacks, init, call, count, history>>

InitReader(t, r) ==
    /\ Intra
    /\ r \notin init
    /\ Goes(t, [op |-> "subscribe", reader |-> r])
    /\ init' = init \cup {r}
    /\ GetOrCreateBlocker(Depth[r])
    /\ depth' = [depth EXCEPT ![r] = Depth[r]]
    /\ UNCHANGED <<published, observed, log, callbacks, count, floor, heard, awaited,
                   visited>>

Subscribe(t) ==
    /\ call[t].op = "subscribe"
    /\ Returns(t)
    /\ callbacks' = callbacks \cup {call[t].reader}
    /\ UNCHANGED <<exists, queues, init, count, history>>

ShutdownReader(r) ==
    /\ Intra
    /\ Ready(r)
    /\ init' = init \ {r}
    /\ callbacks' = callbacks \ {r}
    /\ awaited' = [t \in Threads |-> awaited[t] \ {r}]
    /\ UNCHANGED <<exists, queues, call, count, floor, depth, heard, visited>>

(* Publish; Enqueue looks at the capacity before it takes the lock.        *)
Publish(t) ==
    /\ count < MaxPublish
    /\ count' = count + 1
    /\ GetOrCreateBlocker(DefaultCapacity)
    /\ Goes(t, [op |-> IF capacity' = 0 THEN "notify" ELSE "push", msg |-> count + 1])
    /\ awaited' = [awaited EXCEPT ![t] = callbacks]
    /\ UNCHANGED <<published, observed, log, callbacks, init, floor, depth, heard,
                   visited>>

Newest(q, n) == SubSeq(q, 1, IF Len(q) < n THEN Len(q) ELSE n)

Enqueue(t) ==
    /\ call[t].op = "push"
    /\ published' = Newest(<<call[t].msg>> \o published, capacity)
    /\ log' = Append(log, call[t].msg)
    /\ call' = [call EXCEPT ![t].op = "notify"]
    /\ UNCHANGED <<exists, capacity, observed, callbacks, init, count, history>>

(* Mutant: only one callback is called.                                    *)
NotifyOne(t) ==
    /\ call[t].op = "notify"
    /\ Returns(t)
    /\ heard' = IF callbacks = {} THEN heard
                ELSE [heard EXCEPT ![CHOOSE r \in callbacks : TRUE] =
                        Append(@, call[t].msg)]
    /\ UNCHANGED <<exists, queues, callbacks, init, count, floor, depth, awaited, visited>>

(* Notify holds cb_mutex_ until every callback has returned.               *)
Notify(t) ==
    /\ call[t].op = "notify"
    /\ Returns(t)
    /\ heard' = [r \in Readers |-> IF r \in callbacks THEN Append(heard[r], call[t].msg)
                                                      ELSE heard[r]]
    /\ UNCHANGED <<exists, queues, callbacks, init, count, floor, depth, awaited, visited>>

Observe(r) ==
    /\ Ready(r)
    /\ observed' = published
    /\ UNCHANGED <<exists, capacity, published, log, callbacks, init, call, count, history>>

(* ClearData: a Reader clears the published messages first, an IntraReader *)
(* the observed ones, each under the lock of its own.                      *)
ClearData(t, r) ==
    /\ Ready(r)
    /\ Goes(t, [op |-> "clear", mark |-> Len(log)])
    /\ IF Intra THEN observed' = <<>> /\ UNCHANGED published
                ELSE published' = <<>> /\ UNCHANGED observed
    /\ UNCHANGED <<exists, capacity, log, callbacks, init, count, history>>

ClearRest(t) ==
    /\ call[t].op = "clear"
    /\ Returns(t)
    /\ IF Intra THEN published' = <<>> /\ UNCHANGED observed
                ELSE observed' = <<>> /\ UNCHANGED published
    /\ floor' = IF call[t].mark > floor THEN call[t].mark ELSE floor
    /\ UNCHANGED <<exists, capacity, log, callbacks, init, count, depth, heard, awaited,
                   visited>>

SetHistoryDepth(r, d) ==
    /\ Ready(r)
    /\ capacity' = d
    /\ published' = Newest(published, d)
    /\ depth' = [depth EXCEPT ![r] = d]
    /\ UNCHANGED <<exists, observed, log, callbacks, init, call, count, floor, heard,
                   awaited, visited>>

(* Begin() to End(); the End of an IntraReader is its ObservedBegin.       *)
End == IF Intra THEN 1 ELSE Len(observed) + 1

Traverse(r) ==
    /\ Ready(r)
    /\ visited' = [got |-> SubSeq(observed, 1, End - 1), of |-> observed]
    /\ UNCHANGED <<exists, queues, callbacks, init, call, count, floor, depth, heard,
                   awaited>>

Next ==
    \/ InitWriter
    \/ \E t \in Threads : \/ Publish(t) \/ Enqueue(t) \/ Notify(t)
                          \/ Subscribe(t) \/ ClearRest(t)
                          \/ \E r \in Readers : InitReader(t, r) \/ ClearData(t, r)
    \/ \E r \in Readers : \/ ShutdownReader(r) \/ Observe(r) \/ Traverse(r)
                          \/ \E d \in Depths : SetHistoryDepth(r, d)

Spec == Init /\ [][Next]_vars
-----------------------------------------------------------------------------
(* Neither a message that passed the test of the capacity just before      *)
(* SetHistoryDepth nor the change itself leaves more than the capacity.    *)
WithinCapacity == Len(published) <= capacity

Latest(q, n) == \A i \in 1 .. Len(q) : q[i] = log[n - i + 1]

(* The published messages are the last ones pushed, newest first and       *)
(* without a gap, and the observed ones were so at some time: whatever the *)
(* capacity was set to in between and whoever cleared.                     *)
NewestFirst ==
    /\ Len(published) <= Len(log) /\ Latest(published, Len(log))
    /\ \E n \in Len(observed) .. Len(log) : Latest(observed, n)

(* A reader subscribed before Publish began, and not shut down before it   *)
(* returned, has heard the message once.                                   *)
HeardOnce ==
    [][\A t \in Threads : call[t].op = "notify" /\ call'[t] = Idle =>
          \A r \in awaited[t] :
             Len(SelectSeq(heard'[r], LAMBDA m : m = call[t].msg)) = 1]_vars

(* Once ClearData has returned, no message pushed before it began is       *)
(* observed again.                                                         *)
ClearedStays ==
    \A m \in Range(observed) : \E i \in floor + 1 .. Len(log) : log[i] = m

(* The blocker keeps as many messages as each of its readers asked for, by *)
(* its QoS profile or by SetHistoryDepth.                                  *)
DepthKept == \A r \in init : capacity >= depth[r]

(* A traversal from Begin() to End() visits every observed message.        *)
TraversesAll == visited.got = visited.of
=============================================================================
