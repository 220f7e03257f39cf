------------------------------ MODULE AllLatest ------------------------------
(***************************************************************************)
(* A DataVisitor of several channels (data/data_visitor.h) and its fusion  *)
(* (data/fusion/all_latest.h): a message of channel 0 is not stored but    *)
(* joined with the latest message of every other channel, and the tuple is *)
(* put into a buffer of its own, which TryFetch reads.                     *)
(*                                                                         *)
(* The threads that receive messages call Dispatch at any time from the    *)
(* moment the constructor has added the buffer of their channel.  Messages *)
(* are numbered in the order their channel's buffer sees them.  The buffer *)
(* of tuples is a log that keeps its last Size entries, which is what      *)
(* ChannelBuffer is proved to implement.                                   *)
(***************************************************************************)
EXTENDS Integers, Sequences

CONSTANTS
  Others,       \* channels 1 .. Others are joined with channel 0
  Size,         \* queue size of channel 0
  Dispatchers,  \* threads that receive messages
  Bound,        \* bound on the messages of one channel
  Nobody

OthersAssumption == Others \in 1 .. 3
SizeAssumption == Size \in Nat
NobodyAssumption == Nobody \notin Dispatchers

Channels == 0 .. Others

VARIABLES
  added,      \* the constructor has added the buffers of channels below this
  callback,   \* the fusion callback of buffer 0: "none", "torn" or "set"
  count,      \* count[k]: messages that buffer k was filled with
  mutex,      \* the thread in buffer 0's mutex
  disp,       \* disp[d]: the messages the callback has collected in thread d
  log,        \* tuples in the fusion buffer, oldest first
  next,       \* next_msg_index_ of the visitor
  crashed
VARIABLES
  seen,       \* history: count when the thread in the mutex entered it
  floor,      \* history: floor[i] is seen for the i-th tuple of log
  out         \* history: the tuples the visitor has fetched

vars == <<added, callback, count, mutex, disp, log, next, out, crashed, seen, floor>>
histories == <<seen, floor>>

Init ==
  /\ added = 0 /\ callback = "none"
  /\ count = [k \in Channels |-> 0]
  /\ mutex = Nobody
  /\ disp = [d \in Dispatchers |-> <<>>]
  /\ log = <<>> /\ next = 0 /\ out = <<>>
  /\ crashed = FALSE
  /\ seen = [k \in Channels |-> 0] /\ floor = <<>>

(***************************************************************************)
(* The constructor: AddBuffer for each channel, then the fusion object,    *)
(* which sets the callback without the mutex Fill holds.  Assigning a      *)
(* std::function stores its parts one after the other.                     *)
(***************************************************************************)
AddBuffer ==
  /\ ~ crashed /\ added <= Others
  /\ added' = added + 1
  /\ UNCHANGED <<callback, count, mutex, disp, log, next, out, crashed, histories>>

SetFusionCallback ==
  /\ ~ crashed /\ added = Others + 1
  /\ \/ callback = "none" /\ callback' = "torn"
     \/ callback = "torn" /\ callback' = "set"
  /\ UNCHANGED <<added, count, mutex, disp, log, next, out, crashed, histories>>

(***************************************************************************)
(* Dispatch on a channel other than 0, or on channel 0 before there is a   *)
(* callback: the message is stored under the mutex of its buffer.          *)
(***************************************************************************)
Fill(k) ==
  /\ ~ crashed /\ k < added /\ count[k] < Bound
  /\ k = 0 => mutex = Nobody /\ callback # "set"
  /\ count' = [count EXCEPT ![k] = @ + 1]
  /\ UNCHANGED <<added, callback, mutex, disp, log, next, out, crashed, histories>>

\* a call of a callback that is half assigned
Crash ==
  /\ ~ crashed /\ callback = "torn" /\ count[0] < Bound
  /\ crashed' = TRUE
  /\ UNCHANGED <<added, callback, count, mutex, disp, log, next, out, histories>>

\* Mutant: Dispatch does not hold the mutex of the buffer it fills
FusionBeginUnlocked(d) ==
  /\ ~ crashed /\ disp[d] = <<>> /\ callback = "set" /\ count[0] < Bound
  /\ UNCHANGED mutex
  /\ count' = [count EXCEPT ![0] = @ + 1]
  /\ disp' = [disp EXCEPT ![d] = <<count[0] + 1>>]
  /\ seen' = count'
  /\ UNCHANGED <<added, callback, log, next, out, crashed, floor>>

\* Dispatch on channel 0 with the callback in place
FusionBegin(d) ==
  /\ ~ crashed /\ mutex = Nobody /\ callback = "set" /\ count[0] < Bound
  /\ mutex' = d
  /\ count' = [count EXCEPT ![0] = @ + 1]
  /\ disp' = [disp EXCEPT ![d] = <<count[0] + 1>>]
  /\ seen' = count'
  /\ UNCHANGED <<added, callback, log, next, out, crashed, floor>>

Collecting(d) == ~ crashed /\ disp[d] # <<>>

\* the callback asks the next buffer for its latest message; without one the
\* message of channel 0 is dropped
Latest(d) ==
  /\ Collecting(d) /\ Len(disp[d]) <= Others
  /\ IF count[Len(disp[d])] = 0
     THEN disp' = [disp EXCEPT ![d] = <<>>] /\ mutex' = Nobody
     ELSE disp' = [disp EXCEPT ![d] = Append(@, count[Len(@)])] /\ UNCHANGED mutex
  /\ UNCHANGED <<added, callback, count, log, next, out, crashed, histories>>

FillFusion(d) ==
  /\ Collecting(d) /\ Len(disp[d]) = Others + 1
  /\ log' = Append(log, disp[d])
  /\ floor' = Append(floor, seen)
  /\ disp' = [disp EXCEPT ![d] = <<>>]
  /\ mutex' = Nobody
  /\ UNCHANGED <<added, callback, count, next, out, crashed, seen>>

Position == IF next = 0 \/ next + Size <= Len(log) THEN Len(log) ELSE next

TryFetch ==
  /\ ~ crashed /\ callback = "set"
  /\ Position \in 1 .. Len(log)
  /\ out' = Append(out, log[Position]) /\ next' = Position + 1
  /\ UNCHANGED <<added, callback, count, mutex, disp, log, crashed, histories>>

Next ==
  \/ AddBuffer
  \/ SetFusionCallback
  \/ \E k \in Channels : Fill(k)
  \/ Crash
  \/ \E d \in Dispatchers : FusionBegin(d) \/ Latest(d) \/ FillFusion(d)
  \/ TryFetch

Spec == Init /\ [][Next]_vars

-----------------------------------------------------------------------------
(***************************************************************************)
(* Properties                                                              *)
(***************************************************************************)

\* A tuple has a message of each channel, and one thread at a time collects.
TypeOK ==
  /\ added \in 0 .. Others + 1
  /\ callback \in {"none", "torn", "set"}
  /\ count \in [Channels -> 0 .. Bound]
  /\ mutex \in Dispatchers \cup {Nobody}
  /\ \A d \in Dispatchers : disp[d] # <<>> <=> mutex = d
  /\ \A d \in Dispatchers : \A i \in DOMAIN disp[d] : disp[d][i] \in 1 .. Bound
  /\ \A i \in DOMAIN log : Len(log[i]) = Others + 1
  /\ next \in 0 .. Len(log) + 1
  /\ \A i \in DOMAIN out : \E j \in DOMAIN log : out[i] = log[j]
  /\ crashed \in BOOLEAN
  /\ seen \in [Channels -> 0 .. Bound] /\ Len(floor) = Len(log)

\* Later tuples have a later message of channel 0 and no earlier message of
\* any other channel, although the other buffers are read one by one while
\* their channels go on receiving.
FusedInOrder ==
  \A i, j \in DOMAIN log : i < j =>
    /\ log[i][1] < log[j][1]
    /\ \A k \in 1 .. Others : log[i][k + 1] <= log[j][k + 1]

\* A message of channel 0 is joined with nothing older than what the other
\* channels had received when it arrived.
FusedIsFresh ==
  \A i \in DOMAIN log : \A k \in 1 .. Others : log[i][k + 1] >= floor[i][k]

\* The visitor is handed the tuples in order, none of them twice.
FetchedForward == \A i, j \in DOMAIN out : i < j => out[i][1] < out[j][1]
=============================================================================
