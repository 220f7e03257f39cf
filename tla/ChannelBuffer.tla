---------------------------- MODULE ChannelBuffer ----------------------------
(***************************************************************************)
(* The buffer between a channel and its visitor: CacheBuffer, a ring with  *)
(* one unused slot (data/cache_buffer.h), read through ChannelBuffer       *)
(* (data/channel_buffer.h) by a DataVisitor of one channel                 *)
(* (data/data_visitor.h).  Each call holds the buffer's mutex from its     *)
(* first access to its last, so each call is one step.                     *)
(***************************************************************************)
EXTENDS Integers, SequenceTheorems, TLAPS

CONSTANTS
  Messages,
  Size,      \* pending_queue_size of the visitor
  Bound      \* bound on the messages that arrive

ASSUME SizeAssumption == Size \in Nat
ASSUME BoundAssumption == Bound \in Nat

VARIABLES
  head_, tail_, buffer_,   \* the CacheBuffer
  next_msg_index_,         \* of the visitor
  out                      \* messages the last call handed out
VARIABLE log               \* history: the messages that arrived

vars == <<head_, tail_, buffer_, next_msg_index_, out, log>>

NoMessage == "none"   \* a slot that was never filled: a null pointer

capacity_ == Size + 1
GetIndex(pos) == pos % capacity_
At(pos) == buffer_[GetIndex(pos)]
HeadPos == head_ + 1
Empty == tail_ = 0
Full == capacity_ - 1 = tail_ - head_

Init ==
  /\ head_ = 0
  /\ tail_ = 0
  /\ buffer_ = [i \in 0 .. capacity_ - 1 |-> NoMessage]
  /\ next_msg_index_ = 0
  /\ out = <<>>
  /\ log = <<>>

\* Mutant: a full buffer overwrites its oldest message but keeps head_
FillKeepsHead(m) ==
  /\ tail_ < Bound
  /\ buffer_' = [buffer_ EXCEPT ![GetIndex(IF Full THEN head_ ELSE tail_ + 1)] = m]
  /\ tail_' = tail_ + 1
  /\ log' = Append(log, m)
  /\ UNCHANGED <<head_, next_msg_index_, out>>

\* Dispatch to this buffer; it has no fusion callback
Fill(m) ==
  /\ tail_ < Bound
  /\ IF Full
     THEN /\ buffer_' = [buffer_ EXCEPT ![GetIndex(head_)] = m]
          /\ head_' = head_ + 1
     ELSE /\ buffer_' = [buffer_ EXCEPT ![GetIndex(tail_ + 1)] = m]
          /\ UNCHANGED head_
  /\ tail_' = tail_ + 1
  /\ log' = Append(log, m)
  /\ UNCHANGED <<next_msg_index_, out>>

\* Mutant: the overflow test lets the slot before Head() pass
FetchIndexLate ==
  IF next_msg_index_ = 0 \/ next_msg_index_ < head_ THEN tail_ ELSE next_msg_index_

\* the position Fetch reads, when it reads one
FetchIndex ==
  IF next_msg_index_ = 0 \/ next_msg_index_ < HeadPos THEN tail_ ELSE next_msg_index_

\* DataVisitor::TryFetch: Fetch, and past the message if there was one
TryFetch ==
  /\ IF Empty \/ next_msg_index_ = tail_ + 1
     THEN out' = <<>> /\ UNCHANGED next_msg_index_
     ELSE /\ out' = <<At(FetchIndex)>>
          /\ next_msg_index_' = FetchIndex + 1
  /\ UNCHANGED <<head_, tail_, buffer_, log>>

Latest ==
  /\ out' = IF Empty THEN <<>> ELSE <<At(tail_)>>
  /\ UNCHANGED <<head_, tail_, buffer_, next_msg_index_, log>>

FetchMulti(fetch_size) ==
  /\ LET num == IF tail_ - head_ < fetch_size THEN tail_ - head_ ELSE fetch_size
     IN  out' = IF Empty THEN <<>> ELSE [i \in 1 .. num |-> At(tail_ - num + i)]
  /\ UNCHANGED <<head_, tail_, buffer_, next_msg_index_, log>>

Next ==
  \/ \E m \in Messages : Fill(m)
  \/ TryFetch
  \/ Latest
  \/ \E n \in 0 .. Size + 1 : FetchMulti(n)

Spec == Init /\ [][Next]_vars

-----------------------------------------------------------------------------
(***************************************************************************)
(* Properties                                                              *)
(***************************************************************************)

\* The visitor's index never passes the position that is written next, and
\* no call hands out a null pointer.
TypeOK ==
  /\ head_ \in Nat /\ tail_ \in Nat
  /\ buffer_ \in [0 .. capacity_ - 1 -> Messages \cup {NoMessage}]
  /\ next_msg_index_ \in 0 .. tail_ + 1
  /\ out \in Seq(Messages)
  /\ log \in Seq(Messages) /\ Len(log) = tail_

\* Nothing is dropped before Size messages are waiting, and whatever Fill
\* overwrites, the slots between Head() and Tail(), and the slot of the newest
\* message even when the queue size is 0, hold the last messages that
\* arrived, in order: GetIndex maps no two of them together.
WindowIsIntact ==
  /\ head_ = IF tail_ < Size THEN 0 ELSE tail_ - Size
  /\ \A pos \in 1 .. tail_ : (pos = tail_ \/ pos > head_) => At(pos) = log[pos]

\* The answers of Fetch, Latest and FetchMulti are those of a log that is
\* read in order and of which the last Size messages are kept.
KL == INSTANCE KeepLast WITH next <- next_msg_index_
ReadsTheLog == KL!Spec

-----------------------------------------------------------------------------
(***************************************************************************)
(* Proofs, for every queue size.  First the arithmetic of the ring.        *)
(***************************************************************************)

\* A position is a whole number of laps and a slot.
LEMMA Laps ==
  ASSUME NEW n \in Nat
  PROVE  \E k \in Int : n = k * capacity_ + GetIndex(n) /\ GetIndex(n) \in 0 .. Size
<1> DEFINE c == Size + 1
<1>1. c \in Nat /\ c > 0
  BY SizeAssumption
<1>2. n \div c \in Int /\ n = (n \div c) * c + (n % c) /\ n % c \in 0 .. c - 1
  BY <1>1, Z3
<1>3. 0 .. c - 1 = 0 .. Size
  BY SizeAssumption
<1> QED BY <1>2, <1>3 DEF GetIndex, capacity_

\* A multiple of c strictly between -c and c is zero.
LEMMA NoShortLap ==
  ASSUME NEW c \in Nat, NEW k \in Int, -c < k * c, k * c < c
  PROVE  k = 0
<1>1. CASE k >= 1
  <2>1. k * c >= c
    BY <1>1, Z3
  <2> QED BY <2>1
<1>2. CASE k <= -1
  <2>1. k * c <= -c
    BY <1>2, Z3
  <2> QED BY <2>1
<1> QED BY <1>1, <1>2

\* Two positions at most Size apart do not share a slot.
LEMMA Apart ==
  ASSUME NEW i \in Nat, NEW j \in Nat, i < j, j - i <= Size
  PROVE  GetIndex(i) # GetIndex(j)
<1> DEFINE c == capacity_
<1>1. c \in Nat /\ c = Size + 1 /\ Size \in Nat
  BY SizeAssumption DEF capacity_
<1> HIDE DEF c
<1>2. PICK a \in Int : i = a * c + GetIndex(i) /\ GetIndex(i) \in 0 .. Size
  BY Laps DEF c
<1>3. PICK b \in Int : j = b * c + GetIndex(j) /\ GetIndex(j) \in 0 .. Size
  BY Laps DEF c
<1>4. SUFFICES ASSUME GetIndex(i) = GetIndex(j) PROVE FALSE
  OBVIOUS
<1>5. (b - a) * c = b * c - a * c /\ a * c \in Int /\ b * c \in Int
  BY <1>1, Z3
<1>6. j - i = (b - a) * c
  BY <1>1, <1>2, <1>3, <1>4, <1>5
<1>7. b - a = 0
  BY <1>1, <1>6, NoShortLap
<1> QED BY <1>1, <1>6, <1>7

\* A lap later the slot is the same.
LEMMA Lap ==
  ASSUME NEW i \in Nat
  PROVE  GetIndex(i + capacity_) = GetIndex(i)
<1> DEFINE c == capacity_
<1>1. c \in Nat /\ c = Size + 1 /\ Size \in Nat
  BY SizeAssumption DEF capacity_
<1> HIDE DEF c
<1>2. PICK a \in Int : i = a * c + GetIndex(i) /\ GetIndex(i) \in 0 .. Size
  BY Laps DEF c
<1>3. PICK b \in Int : i + c = b * c + GetIndex(i + c) /\ GetIndex(i + c) \in 0 .. Size
  <2>1. i + c \in Nat
    BY <1>1
  <2> QED BY <2>1, Laps DEF c
<1>4. (b - a - 1) * c = b * c - a * c - c /\ a * c \in Int /\ b * c \in Int
  BY <1>1, Z3
<1>5. -c < (b - a - 1) * c /\ (b - a - 1) * c < c
  BY <1>1, <1>2, <1>3, <1>4
<1>6. b - a - 1 = 0
  BY <1>1, <1>5, NoShortLap
<1> QED BY <1>1, <1>2, <1>3, <1>4, <1>6 DEF c

\* A position has a slot.
LEMMA InRing ==
  ASSUME NEW n \in Nat
  PROVE  GetIndex(n) \in 0 .. capacity_ - 1
BY Laps, SizeAssumption DEF capacity_
-----------------------------------------------------------------------------
(***************************************************************************)
(* Invariance.  The two invariants the runs check are inductive together.  *)
(***************************************************************************)
IInv == TypeOK /\ WindowIsIntact

\* Fill writes the slot after the newest message, full or not.
LEMMA FillSlot ==
  ASSUME IInv, NEW m \in Messages, Fill(m)
  PROVE  /\ buffer_' = [buffer_ EXCEPT ![GetIndex(tail_ + 1)] = m]
         /\ head_' = IF tail_' < Size THEN 0 ELSE tail_' - Size
<1> USE SizeAssumption DEF IInv, TypeOK, WindowIsIntact
<1>1. CASE Full
  <2>1. head_ \in Nat /\ tail_ + 1 = head_ + capacity_
    BY <1>1 DEF Full, capacity_
  <2>2. GetIndex(tail_ + 1) = GetIndex(head_)
    BY <2>1, Lap
  <2> QED BY <1>1, <2>2 DEF Fill, Full, capacity_
<1>2. CASE ~ Full
  BY <1>2 DEF Fill, Full, capacity_
<1> QED BY <1>1, <1>2

\* Fill preserves the invariant: the other messages of the window keep their slots.
LEMMA FillStep ==
  ASSUME IInv, NEW m \in Messages, Fill(m)
  PROVE  IInv'
<1>1. /\ buffer_ \in [0 .. capacity_ - 1 -> Messages \cup {NoMessage}]
      /\ tail_ \in Nat /\ head_ \in Nat /\ Size \in Nat
      /\ log \in Seq(Messages) /\ Len(log) = tail_
      /\ tail_' = tail_ + 1 /\ log' = Append(log, m) /\ tail_ + 1 \in Nat
  BY SizeAssumption DEF IInv, TypeOK, Fill
<1>2. /\ buffer_' = [buffer_ EXCEPT ![GetIndex(tail_ + 1)] = m]
      /\ head_' = IF tail_' < Size THEN 0 ELSE tail_' - Size
  BY FillSlot
<1>3. GetIndex(tail_ + 1) \in 0 .. capacity_ - 1
  BY <1>1, InRing
<1>4. /\ log' \in Seq(Messages) /\ Len(log') = tail_'
      /\ \A i \in 1 .. tail_ : log'[i] = log[i]
      /\ log'[tail_'] = m
  BY <1>1
<1>5. TypeOK'
  <2>1. buffer_' \in [0 .. capacity_ - 1 -> Messages \cup {NoMessage}]
    BY <1>1, <1>2, <1>3
  <2>2. head_' \in Nat /\ tail_' \in Nat
    BY <1>1, <1>2
  <2> QED BY <1>1, <1>4, <2>1, <2>2 DEF IInv, TypeOK, Fill, capacity_
<1>6. ASSUME NEW pos \in 1 .. tail_', pos = tail_' \/ pos > head_'
      PROVE  At(pos)' = log'[pos]
  <2>1. CASE pos = tail_'
    BY <1>1, <1>2, <1>3, <1>4, <2>1 DEF At, GetIndex, capacity_
  <2>2. CASE pos # tail_'
    <3>1. pos \in Nat /\ pos < tail_ + 1 /\ tail_ + 1 - pos <= Size /\ pos \in 1 .. tail_
      BY <1>1, <1>2, <1>6, <2>2
    <3>2. pos = tail_ \/ pos > head_
      BY <1>1, <1>2, <3>1 DEF IInv, WindowIsIntact
    <3>3. GetIndex(pos) # GetIndex(tail_ + 1) /\ GetIndex(pos) \in 0 .. capacity_ - 1
      <4>1. pos \in Nat /\ tail_ + 1 \in Nat /\ pos < tail_ + 1 /\ (tail_ + 1) - pos <= Size
        BY <1>1, <3>1
      <4>2. GetIndex(pos) # GetIndex(tail_ + 1)
        BY <4>1, Apart
      <4> QED BY <4>1, <4>2, InRing
    <3>4. buffer_'[GetIndex(pos)] = buffer_[GetIndex(pos)]
      BY <1>1, <1>2, <3>3
    <3>5. buffer_[GetIndex(pos)] = log[pos]
      BY <3>1, <3>2 DEF IInv, WindowIsIntact, At
    <3> QED BY <1>4, <3>1, <3>4, <3>5 DEF At, GetIndex, capacity_
  <2> QED BY <2>1, <2>2
<1> QED BY <1>2, <1>5, <1>6 DEF IInv, WindowIsIntact

\* The position Fetch reads lies in the window.
LEMMA FetchInWindow ==
  ASSUME IInv, ~ Empty, next_msg_index_ # tail_ + 1
  PROVE  /\ FetchIndex \in 1 .. tail_
         /\ At(FetchIndex) = log[FetchIndex] /\ log[FetchIndex] \in Messages
         /\ FetchIndex = IF next_msg_index_ = 0 \/ next_msg_index_ + Size <= tail_
                         THEN tail_ ELSE next_msg_index_
<1> USE SizeAssumption
<1>1. /\ FetchIndex \in 1 .. tail_
      /\ FetchIndex = tail_ \/ FetchIndex > head_
      /\ FetchIndex = IF next_msg_index_ = 0 \/ next_msg_index_ + Size <= tail_
                      THEN tail_ ELSE next_msg_index_
  BY DEF IInv, TypeOK, WindowIsIntact, FetchIndex, Empty, HeadPos
<1>2. log \in Seq(Messages) /\ Len(log) = tail_
  BY DEF IInv, TypeOK
<1> QED BY <1>1, <1>2 DEF IInv, WindowIsIntact

\* So do the positions of Latest and FetchMulti.
LEMMA MultiInWindow ==
  ASSUME IInv, NEW num \in Nat, num <= tail_ - head_ \/ (num = 1 /\ tail_ > 0),
         NEW i \in 1 .. num
  PROVE  /\ tail_ - num + i \in 1 .. tail_
         /\ At(tail_ - num + i) = log[tail_ - num + i]
         /\ log[tail_ - num + i] \in Messages
<1>1. /\ tail_ - num + i \in 1 .. tail_
      /\ tail_ - num + i = tail_ \/ tail_ - num + i > head_
  BY SizeAssumption DEF IInv, TypeOK, WindowIsIntact
<1>2. log \in Seq(Messages) /\ Len(log) = tail_
  BY DEF IInv, TypeOK
<1> QED BY <1>1, <1>2 DEF IInv, WindowIsIntact

\* What FetchMulti hands out is the end of the log.
LEMMA MultiIsSuffix ==
  ASSUME IInv, NEW num \in Nat, num <= tail_ - head_ \/ (num = 1 /\ tail_ > 0)
  PROVE  /\ [i \in 1 .. num |-> At(tail_ - num + i)] \in Seq(Messages)
         /\ [i \in 1 .. num |-> At(tail_ - num + i)] = SubSeq(log, tail_ - num + 1, tail_)
<1> DEFINE f == [i \in 1 .. num |-> At(tail_ - num + i)]
           g == SubSeq(log, tail_ - num + 1, tail_)
<1>1. /\ log \in Seq(Messages) /\ Len(log) = tail_ /\ tail_ \in Nat
      /\ tail_ - num + 1 \in 1 .. tail_ + 1
  BY SizeAssumption DEF IInv, TypeOK, WindowIsIntact
<1>2. \A i \in 1 .. num : f[i] = log[tail_ - num + i] /\ f[i] \in Messages
  BY MultiInWindow
<1>3. DOMAIN f = 1 .. num /\ f = [i \in 1 .. num |-> f[i]]
  OBVIOUS
<1> HIDE DEF f
<1>4. f \in Seq(Messages)
  BY <1>2, <1>3
<1>5. g = [i \in 1 .. num |-> log[tail_ - num + i]]
  BY <1>1
<1>6. f = g
  BY <1>2, <1>3, <1>5
<1> QED BY <1>4, <1>6 DEF f

\* A call that only reads hands out messages.
LEMMA ReadStep ==
  ASSUME IInv, UNCHANGED <<head_, tail_, buffer_, log>>, out' \in Seq(Messages),
         next_msg_index_' \in 0 .. tail_ + 1
  PROVE  IInv'
BY DEF IInv, TypeOK, WindowIsIntact, At, GetIndex, capacity_

\* Every step preserves the invariant.
LEMMA NextStep ==
  ASSUME IInv, [Next]_vars
  PROVE  IInv'
<1>1. ASSUME NEW m \in Messages, Fill(m) PROVE IInv'
  BY <1>1, FillStep
<1>2. CASE TryFetch
  <2>1. CASE Empty \/ next_msg_index_ = tail_ + 1
    <3>1. out' \in Seq(Messages) /\ next_msg_index_' \in 0 .. tail_ + 1
      <4>1. out' = <<>> /\ next_msg_index_' = next_msg_index_
        BY <1>2, <2>1 DEF TryFetch
      <4>2. next_msg_index_ \in 0 .. tail_ + 1
        BY DEF IInv, TypeOK
      <4> QED BY <4>1, <4>2
    <3> QED BY <1>2, <3>1, ReadStep DEF TryFetch
  <2>2. CASE ~ (Empty \/ next_msg_index_ = tail_ + 1)
    <3>1. FetchIndex \in 1 .. tail_ /\ At(FetchIndex) \in Messages
      BY <2>2, FetchInWindow
    <3>2. out' \in Seq(Messages) /\ next_msg_index_' \in 0 .. tail_ + 1
      <4>1. out' = <<At(FetchIndex)>> /\ next_msg_index_' = FetchIndex + 1 /\ tail_ \in Nat
        BY <1>2, <2>2 DEF TryFetch, IInv, TypeOK
      <4> QED BY <3>1, <4>1
    <3> QED BY <1>2, <3>2, ReadStep DEF TryFetch
  <2> QED BY <2>1, <2>2
<1>3. CASE Latest
  <2>1. out' \in Seq(Messages)
    <3>1. CASE Empty
      BY <1>3, <3>1 DEF Latest
    <3>2. CASE ~ Empty
      <4>1. tail_ > 0 /\ tail_ - 1 + 1 = tail_
        BY <3>2 DEF Empty, IInv, TypeOK
      <4>2. At(tail_) \in Messages
        BY <4>1, MultiInWindow
      <4> QED BY <1>3, <3>2, <4>2 DEF Latest
    <3> QED BY <3>1, <3>2
  <2> QED BY <1>3, <2>1, ReadStep DEF Latest, IInv, TypeOK
<1>4. ASSUME NEW n \in 0 .. Size + 1, FetchMulti(n) PROVE IInv'
  <2> DEFINE num == IF tail_ - head_ < n THEN tail_ - head_ ELSE n
  <2>1. num \in Nat /\ num <= tail_ - head_
    BY SizeAssumption DEF IInv, TypeOK, WindowIsIntact
  <2>2. out' = IF Empty THEN <<>> ELSE [i \in 1 .. num |-> At(tail_ - num + i)]
    BY <1>4 DEF FetchMulti
  <2> HIDE DEF num
  <2>3. out' \in Seq(Messages)
    BY <2>1, <2>2, MultiIsSuffix
  <2> QED BY <1>4, <2>3, ReadStep DEF FetchMulti, IInv, TypeOK
<1>5. CASE UNCHANGED vars
  BY <1>5 DEF vars, IInv, TypeOK, WindowIsIntact, At, GetIndex, capacity_
<1> QED BY <1>1, <1>2, <1>3, <1>4, <1>5 DEF Next

\* An empty buffer satisfies the invariant.
LEMMA InitHolds ==
  ASSUME Init
  PROVE  IInv
BY SizeAssumption DEF Init, IInv, TypeOK, WindowIsIntact, capacity_

\* The window stays intact and the index in reach, whatever the calls.
THEOREM Invariance == Spec => []IInv
BY InitHolds, NextStep, PTL DEF Spec

\* No call hands out a null pointer and no index runs ahead.
THEOREM Typed == Spec => []TypeOK
BY Invariance, PTL DEF IInv

\* Fill never overwrites a message that can still be read, for every queue
\* size, 0 included.
THEOREM Intact == Spec => []WindowIsIntact
BY Invariance, PTL DEF IInv

-----------------------------------------------------------------------------
(***************************************************************************)
(* Refinement                                                              *)
(***************************************************************************)

\* Every step is a step of KeepLast, or none.
LEMMA RefinedStep ==
  ASSUME IInv, [Next]_vars
  PROVE  [KL!Next]_<<log, next_msg_index_, out>>
<1> DEFINE goal == [KL!Next]_<<log, next_msg_index_, out>>
<1>1. log \in Seq(Messages) /\ Len(log) = tail_ /\ tail_ \in Nat /\ Size \in Nat
  BY SizeAssumption DEF IInv, TypeOK
<1>2. ASSUME NEW m \in Messages, Fill(m) PROVE goal
  <2>1. KL!Arrive(m)
    BY <1>1, <1>2 DEF Fill, KL!Arrive
  <2> QED BY <2>1 DEF KL!Next
<1>3. CASE TryFetch
  <2>1. CASE Empty \/ next_msg_index_ = tail_ + 1
    <3>1. out' = <<>> /\ UNCHANGED <<log, next_msg_index_>>
      BY <1>3, <2>1 DEF TryFetch
    <3>2. KL!Position \notin 1 .. Len(log)
      BY <1>1, <2>1 DEF KL!Position, Empty, IInv, TypeOK
    <3>3. KL!Read
      BY <3>1, <3>2 DEF KL!Read
    <3> QED BY <3>3 DEF KL!Next
  <2>2. CASE ~ (Empty \/ next_msg_index_ = tail_ + 1)
    <3>1. /\ out' = <<At(FetchIndex)>> /\ next_msg_index_' = FetchIndex + 1
          /\ UNCHANGED log
      BY <1>3, <2>2 DEF TryFetch
    <3>2. /\ FetchIndex = KL!Position /\ FetchIndex \in 1 .. Len(log)
          /\ At(FetchIndex) = log[FetchIndex]
      BY <1>1, <2>2, FetchInWindow DEF KL!Position
    <3> HIDE DEF FetchIndex
    <3>3. KL!Read
      BY <3>1, <3>2 DEF KL!Read
    <3> QED BY <3>3 DEF KL!Next
  <2> QED BY <2>1, <2>2
<1>4. CASE Latest
  <2>1. KL!Newest(1)
    <3>1. UNCHANGED <<log, next_msg_index_>>
      BY <1>4 DEF Latest
    <3>2. CASE Empty
      BY <1>1, <1>4, <3>1, <3>2 DEF Latest, Empty, KL!Newest
    <3>3. CASE ~ Empty
      <4>1. tail_ > 0 /\ tail_ - 1 + 1 = tail_
        BY <1>1, <3>3 DEF Empty
      <4>2. At(tail_) = log[tail_]
        BY <4>1, MultiInWindow
      <4>3. out' = <<log[tail_]>>
        BY <1>4, <3>3, <4>2 DEF Latest
      <4>4. SubSeq(log, (IF 1 < Len(log) THEN Len(log) - 1 ELSE 0) + 1, Len(log)) = <<log[tail_]>>
        <5> DEFINE g == SubSeq(log, tail_, tail_)
        <5>1. (IF 1 < Len(log) THEN Len(log) - 1 ELSE 0) + 1 = tail_
          BY <1>1, <4>1
        <5>2. g \in Seq(Messages) /\ Len(g) = 1 /\ g[1] = log[tail_]
          BY <1>1, <4>1
        <5> HIDE DEF g
        <5>3. g = <<log[tail_]>>
          BY <5>2
        <5> QED BY <1>1, <5>1, <5>3 DEF g
      <4> QED BY <3>1, <4>3, <4>4 DEF KL!Newest
    <3> QED BY <3>2, <3>3
  <2> QED BY <2>1 DEF KL!Next
<1>5. ASSUME NEW n \in 0 .. Size + 1, FetchMulti(n) PROVE goal
  <2> DEFINE num == IF tail_ - head_ < n THEN tail_ - head_ ELSE n
  <2>1. num \in 0 .. Size /\ num <= tail_ - head_ /\ num <= tail_
    BY <1>1 DEF IInv, TypeOK, WindowIsIntact
  <2>2. /\ out' = IF Empty THEN <<>> ELSE [i \in 1 .. num |-> At(tail_ - num + i)]
        /\ UNCHANGED <<log, next_msg_index_>>
    BY <1>5 DEF FetchMulti
  <2> HIDE DEF num
  <2>3. SubSeq(log, (IF num < Len(log) THEN Len(log) - num ELSE 0) + 1, Len(log))
          = SubSeq(log, tail_ - num + 1, tail_)
    BY <1>1, <2>1
  <2>4. CASE Empty
    <3>1. SubSeq(log, tail_ - num + 1, tail_) = <<>>
      BY <1>1, <2>1, <2>4 DEF Empty
    <3> QED BY <2>1, <2>2, <2>3, <2>4, <3>1 DEF KL!Newest, KL!Next
  <2>5. CASE ~ Empty
    <3>1. out' = SubSeq(log, tail_ - num + 1, tail_)
      BY <2>1, <2>2, <2>5, MultiIsSuffix
    <3> QED BY <2>1, <2>2, <2>3, <3>1 DEF KL!Newest, KL!Next
  <2> QED BY <2>4, <2>5
<1>6. CASE UNCHANGED vars
  BY <1>6 DEF vars
<1> QED BY <1>2, <1>3, <1>4, <1>5, <1>6 DEF Next

\* The ring, for every queue size, answers its visitor as a log read in
\* order of which the last Size messages are kept.
THEOREM Refinement == Spec => ReadsTheLog
<1>1. Init => KL!Init
  BY DEF Init, KL!Init
<1>2. IInv /\ [Next]_vars => [KL!Next]_<<log, next_msg_index_, out>>
  BY RefinedStep
<1> QED BY <1>1, <1>2, Invariance, PTL DEF Spec, ReadsTheLog, KL!Spec
=============================================================================
