--------------------------- MODULE HybridTransport ---------------------------
(***************************************************************************)
(* One hybrid transmitter (transport/transmitter/hybrid_transmitter.h),    *)
(* the hybrid receivers of its channel (receiver/hybrid_receiver.h) and    *)
(* the history of a TRANSIENT_LOCAL writer (message/history.h).  The       *)
(* transmitter keeps one transmitter and one set of receiver ids per mode, *)
(* the mode of a receiver being given by where it runs.  Every operation   *)
(* on either side holds that side's mutex_, so it is one step; what is     *)
(* interleaved is when each side learns of the other, the messages under   *)
(* way, and the threads that replay the history to a late receiver.        *)
(*                                                                         *)
(* A message is its sequence number.  The intra mode runs the listeners    *)
(* inside Transmit; the other modes deliver later, each receiver at its    *)
(* own pace and in order (losses inside a mode are the subject of          *)
(* ConditionNotifier and Segment).                                         *)
(***************************************************************************)
EXTENDS Naturals, Sequences, FiniteSets, SequencesExt

CONSTANTS
    Readers,       \* receivers of the channel
    Place,         \* Place[r]: "proc", "host" or "away", where r runs
    MappingTable,  \* the communication mode configured for each relation
    Durable,       \* is the durability TRANSIENT_LOCAL?
    Depth,         \* depth of the history
    Patient,       \* does the replay always come within the receiver's wait?
    MaxSent        \* bound on the messages transmitted

Relations == {"SAME_PROC", "DIFF_PROC", "DIFF_HOST"}
Modes == {"INTRA", "SHM", "RTPS"}

PlaceAssumption == Place \in [Readers -> {"proc", "host", "away"}]
TableAssumption ==
    /\ MappingTable["SAME_PROC"] \in Modes
    /\ MappingTable["DIFF_PROC"] \in {"SHM", "RTPS"}
    /\ MappingTable["DIFF_HOST"] = "RTPS"
BoundAssumption ==
    /\ Durable \in BOOLEAN
    /\ Patient \in BOOLEAN
    /\ Depth \in Nat
    /\ MaxSent \in Nat

VARIABLES
    sent,       \* messages transmitted so far
    receivers,  \* the transmitter's receivers_: ids per mode
    enabled,    \* modes whose transmitter is enabled
    msgs,       \* the history's msgs_
    replay,     \* replay[r]: what the history thread for r has still to send
    wire,       \* wire[r][m]: messages under way to r's process by mode m
    late,       \* late[r]: replayed messages under way to r
    life,       \* life[r]: "new", "in" (joined), "out" (left), or "gone" (known to have left)
    listening,  \* listening[r]: modes in which r listens to the transmitter
    waits,      \* receivers whose history thread is waiting for the replay
    heard,      \* heard[r]: messages given to r's listener, in order
    since       \* since[r]: first message r is entitled to; 0 before that

vars == <<sent, receivers, enabled, msgs, replay, wire, late, life, listening,
          waits, heard, since>>

GetRelation(r) ==
    CASE Place[r] = "away" -> "DIFF_HOST"
      [] Place[r] = "host" -> "DIFF_PROC"
      [] Place[r] = "proc" -> "SAME_PROC"

Mode(r) == MappingTable[GetRelation(r)]

\* Only the modes the table names have a transmitter and a set of receivers.
ModesUsed == {MappingTable[rel] : rel \in Relations}

\* Which processes a mode can reach at all.
Reaches(m, r) ==
    CASE m = "INTRA" -> Place[r] = "proc"
      [] m = "SHM"   -> Place[r] # "away"
      [] m = "RTPS"  -> TRUE

Init ==
    /\ sent = 0
    /\ receivers = [m \in ModesUsed |-> {}]
    /\ enabled = {}
    /\ msgs = <<>>
    /\ replay = [r \in Readers |-> <<>>]
    /\ wire = [r \in Readers |-> [m \in ModesUsed |-> <<>>]]
    /\ late = [r \in Readers |-> <<>>]
    /\ life = [r \in Readers |-> "new"]
    /\ listening = [r \in Readers |-> {}]
    /\ waits = {}
    /\ heard = [r \in Readers |-> <<>>]
    /\ since = [r \in Readers |-> 0]

-----------------------------------------------------------------------------
\* What r is entitled to from the moment both sides know each other.  A late
\* receiver of a TRANSIENT_LOCAL writer that is already listening when the
\* transmitter learns of it is owed the history as well.
Entitled(r, withHistory) ==
    since' = [since EXCEPT ![r] =
                IF Durable /\ withHistory /\ sent > Depth THEN sent - Depth + 1
                ELSE IF Durable /\ withHistory THEN 1
                ELSE sent + 1]

\* The last Depth messages of s.
AddTrim(s) == IF Len(s) > Depth THEN SubSeq(s, Len(s) - Depth + 1, Len(s)) ELSE s

Add(s, i) == IF Durable THEN AddTrim(Append(s, i)) ELSE s

\* Mutant: the transmitter is enabled only for the first receiver of all.
EnableFirst(r) ==
    /\ life[r] # "gone" /\ \A m \in ModesUsed : r \notin receivers[m]
    /\ receivers' = [receivers EXCEPT ![Mode(r)] = @ \cup {r}]
    /\ enabled' = IF enabled = {} THEN {Mode(r)} ELSE enabled
    /\ replay' = [replay EXCEPT ![r] = IF Durable THEN msgs ELSE <<>>]
    /\ IF life[r] = "in" THEN Entitled(r, TRUE) ELSE UNCHANGED since
    /\ UNCHANGED <<sent, msgs, wire, late, life, listening, waits, heard>>

\* HybridTransmitter::Enable(opposite): the topology tells the writer of r.
\* (A second call for the same r can only come while the writer itself joins,
\* when there is no history, and then changes nothing.)  The history thread
\* works on the copy it is given.
Enable(r) ==
    /\ \A m \in ModesUsed : r \notin receivers[m]
    /\ life[r] # "gone"
    /\ receivers' = [receivers EXCEPT ![Mode(r)] = @ \cup {r}]
    /\ enabled' = enabled \cup {Mode(r)}
    /\ replay' = [replay EXCEPT ![r] = IF Durable THEN msgs ELSE <<>>]
    /\ IF life[r] = "in" THEN Entitled(r, TRUE) ELSE UNCHANGED since
    /\ UNCHANGED <<sent, msgs, wire, late, life, listening, waits, heard>>

\* HybridTransmitter::Disable(opposite): the writer is told that r has left.
Disable(r) ==
    /\ life[r] = "out"
    /\ r \in receivers[Mode(r)]
    /\ receivers' = [receivers EXCEPT ![Mode(r)] = @ \ {r}]
    /\ life' = [life EXCEPT ![r] = "gone"]
    /\ enabled' = IF receivers'[Mode(r)] = {} THEN enabled \ {Mode(r)} ELSE enabled
    /\ UNCHANGED <<sent, msgs, replay, wire, late, listening, waits,
                   heard, since>>

\* HybridTransmitter::Transmit: the history first, then every mode; a mode's
\* transmitter that is not enabled does nothing.
Transmit ==
    /\ sent < MaxSent
    /\ sent' = sent + 1
    /\ msgs' = Add(msgs, sent')
    /\ wire' = [r \in Readers |-> [m \in ModesUsed |->
                  IF m \in enabled \ {"INTRA"} /\ Reaches(m, r)
                  THEN Append(wire[r][m], sent') ELSE wire[r][m]]]
    /\ heard' = [r \in Readers |->
                  IF "INTRA" \in enabled \cap listening[r]
                  THEN Append(heard[r], sent') ELSE heard[r]]
    /\ UNCHANGED <<receivers, enabled, replay, late, life, listening, waits, since>>

\* The transmitter's ThreadFunc sends the history on a channel of its own.
HistorySend(r) ==
    /\ replay[r] # <<>>
    /\ late' = [late EXCEPT ![r] = Append(@, Head(replay[r]))]
    /\ replay' = [replay EXCEPT ![r] = Tail(@)]
    /\ UNCHANGED <<sent, receivers, enabled, msgs, wire, life, listening, waits,
                   heard, since>>

-----------------------------------------------------------------------------
\* HybridReceiver::Enable(opposite): the reader finds the writer.
ReaderEnable(r) ==
    /\ life[r] = "new"
    /\ life' = [life EXCEPT ![r] = "in"]
    /\ listening' = [listening EXCEPT ![r] = {Mode(r)}]
    /\ waits' = IF Durable THEN waits \cup {r} ELSE waits
    /\ IF r \in receivers[Mode(r)] THEN Entitled(r, FALSE) ELSE UNCHANGED since
    /\ UNCHANGED <<sent, receivers, enabled, msgs, replay, wire, late, heard>>

\* HybridReceiver::Disable(opposite), and ClearTransmitters when the reader
\* goes: the listener is removed in the mode it was added in.
ReaderDisable(r) ==
    /\ life[r] = "in"
    /\ life' = [life EXCEPT ![r] = "out"]
    /\ listening' = [listening EXCEPT ![r] = @ \ {Mode(r)}]
    /\ UNCHANGED <<sent, receivers, enabled, msgs, replay, wire, late, waits,
                   heard, since>>

\* A message arrives; with no listener for the transmitter it is dropped.
Deliver(r, m) ==
    /\ wire[r][m] # <<>>
    /\ wire' = [wire EXCEPT ![r][m] = Tail(@)]
    /\ heard' = IF m \in listening[r]
                THEN [heard EXCEPT ![r] = Append(@, Head(wire[r][m]))] ELSE heard
    /\ UNCHANGED <<sent, receivers, enabled, msgs, replay, late, life, listening,
                   waits, since>>

\* The receiver's ThreadFunc: a replayed message reaches its listener.  The
\* history channel is itself TRANSIENT_LOCAL, so it keeps what is sent early.
HistoryReceive(r) ==
    /\ r \in waits
    /\ late[r] # <<>>
    /\ late' = [late EXCEPT ![r] = Tail(@)]
    /\ heard' = [heard EXCEPT ![r] = Append(@, Head(late[r]))]
    /\ UNCHANGED <<sent, receivers, enabled, msgs, replay, wire, life, listening,
                   waits, since>>

\* The receiver's ThreadFunc ends after a second without a message.
HistoryStop(r) ==
    /\ r \in waits
    /\ Patient => /\ replay[r] = <<>> /\ late[r] = <<>>
                  /\ r \in receivers[Mode(r)] \/ life[r] = "gone"
    /\ waits' = waits \ {r}
    /\ UNCHANGED <<sent, receivers, enabled, msgs, replay, wire, late, life,
                   listening, heard, since>>

Next ==
    \/ Transmit
    \/ \E r \in Readers :
         \/ Enable(r) \/ Disable(r) \/ HistorySend(r)
         \/ ReaderEnable(r) \/ ReaderDisable(r)
         \/ HistoryReceive(r) \/ HistoryStop(r)
         \/ \E m \in ModesUsed : Deliver(r, m)

Spec == Init /\ [][Next]_vars

-----------------------------------------------------------------------------
\* Every variable has its type.
TypeOK ==
    /\ sent \in 0..MaxSent
    /\ receivers \in [ModesUsed -> SUBSET Readers]
    /\ enabled \subseteq ModesUsed
    /\ msgs \in Seq(1..MaxSent) /\ Len(msgs) <= Depth
    /\ \A r \in Readers :
         /\ replay[r] \in Seq(1..MaxSent)
         /\ \A m \in ModesUsed : wire[r][m] \in Seq(1..MaxSent)
         /\ late[r] \in Seq(1..MaxSent)
         /\ heard[r] \in Seq(1..MaxSent)
    /\ life \in [Readers -> {"new", "in", "out", "gone"}]
    /\ listening \in [Readers -> SUBSET ModesUsed]
    /\ waits \subseteq Readers
    /\ since \in [Readers -> 0..MaxSent + 1]

\* Nothing is transmitted in a mode for nobody: a mode's transmitter is
\* enabled exactly while the mode has receivers, whatever the order in which
\* receivers come and go (hybrid_transmitter.h Enable and Disable).
ModeForSomebody ==
    \A m \in ModesUsed : m \in enabled <=> receivers[m] # {}

\* A receiver both sides know of misses nothing it is entitled to: each
\* message is heard, under way in the mode it listens to, or still in the
\* hands of the history threads.  Other receivers leaving the same mode, and
\* messages transmitted while the history is being replayed, do not matter.
NothingMissed ==
    \A r \in Readers : life[r] = "in" /\ since[r] # 0 =>
        \A i \in since[r]..sent :
            \/ i \in ToSet(heard[r])
            \/ \E m \in listening[r] : i \in ToSet(wire[r][m])
            \/ i \in ToSet(replay[r]) \cup ToSet(late[r])

\* Without a history no receiver hears a message twice or out of order,
\* although the same message goes out in several modes at once and some of
\* them reach the same process.
HeardInOrder ==
    \A r \in Readers : \A i, j \in DOMAIN heard[r] :
        i < j => heard[r][i] < heard[r][j]

\* The history is replayed in order and holds exactly the newest messages:
\* what a late receiver is given is a gapless run that ends with the last
\* message transmitted before the transmitter learnt of it (history.h Add,
\* GetCachedMessage).
ReplayIsNewest ==
    /\ Durable /\ sent > 0 /\ Depth > 0 =>
         Len(msgs) > 0 /\ msgs[Len(msgs)] = sent
    /\ Durable => Len(msgs) = IF sent < Depth THEN sent ELSE Depth
    /\ \A r \in Readers : LET rest == late[r] \o replay[r] IN
         \A i \in 1..Len(rest) - 1 : rest[i + 1] = rest[i] + 1
=============================================================================
