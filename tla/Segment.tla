------------------------------- MODULE Segment -------------------------------
(***************************************************************************)
(* The shared memory of a channel: Segment, Block, State and ShmConf of    *)
(* transport/shm, used by transmitters (transport/transmitter/             *)
(* shm_transmitter.h) and dispatchers (transport/dispatcher/               *)
(* shm_dispatcher.cc) in different processes.                              *)
(*                                                                         *)
(* A message belongs to a size class; a segment made for class c has       *)
(* Blocks[c] blocks, fewer for larger classes.  A writer with a message    *)
(* too large for the segment marks it, removes it and creates a larger one *)
(* under the same key; who is attached to the old one finds the mark and   *)
(* attaches anew.  The kernel's part (shmget, shmat, IPC_RMID) is a key    *)
(* that names the latest memory or none: removed memory stays usable for   *)
(* those attached to it, and new memory is zero until it is constructed.   *)
(***************************************************************************)
EXTENDS Integers, Sequences, FiniteSets

CONSTANTS
  Writers, Readers,   \* Segment objects, each in a process of its own
  Classes,            \* size classes, 1 .. n
  Blocks,             \* Blocks[c]: number of blocks of class c, a power of 2
  Established,        \* everybody is attached to a built segment at first
  Faults,             \* which of "Destroy" and "Die" may happen
  MaxMems, MaxSends   \* bounds on memories created and messages sent

ClassesAssumption == 1 \in Classes /\ Classes \subseteq Nat \ {0}
BlocksAssumption ==
  /\ Blocks \in [Classes -> Nat \ {0}]
  /\ \A c, d \in Classes : c < d => Blocks[d] <= Blocks[c]

VARIABLES
  key,     \* the memory the key names, 0 if none
  mem,     \* memories created so far
  ep,      \* ep[p]: the Segment object of p and where its caller is
  queue,   \* queue[r]: block indexes announced to r
  sends    \* messages sent

vars == <<key, mem, ep, queue, sends>>
Endpoints == Writers \cup Readers
Indexes == 0 .. Blocks[1] - 1

kRWLockFree == 0
kWriteExclusive == -1

\* memory fresh from the kernel
Zero == [ceiling |-> 0, need_remap |-> FALSE, wrote_num |-> 0, refs |-> 0,
         lock |-> [i \in Indexes |-> kRWLockFree]]
State(c, refs) == [Zero EXCEPT !.ceiling = c, !.refs = refs]

\* ShmConf::Update: the class of the ceiling size the memory states
ClassOf(g) == IF mem[g].ceiling = 0 THEN 1 ELSE mem[g].ceiling

Detached == [pc |-> "idle", init |-> FALSE, gen |-> 0, conf |-> 1, size |-> 0, index |-> 0]

Init ==
  /\ queue = [r \in Readers |-> <<>>]
  /\ sends = 0
  /\ IF Established
     THEN /\ key = 1
          /\ mem = <<State(1, Cardinality(Endpoints))>>
          /\ ep = [p \in Endpoints |-> [Detached EXCEPT !.init = TRUE, !.gen = 1]]
     ELSE key = 0 /\ mem = <<>> /\ ep = [p \in Endpoints |-> Detached]

Goto(p, pc) == ep' = [ep EXCEPT ![p].pc = pc]

(***************************************************************************)
(* OpenOnly attaches to what the key names, built or not.                  *)
(***************************************************************************)
OpenOnly(p, pc) ==
  /\ ep' = [ep EXCEPT ![p] = [@ EXCEPT !.pc = pc, !.init = TRUE, !.gen = key, !.conf = ClassOf(key)]]
  /\ mem' = [mem EXCEPT ![key].refs = @ + 1]
  /\ UNCHANGED <<key, queue, sends>>

\* Reset and a failed OpenOnly
Fail(p) ==
  /\ ep' = [ep EXCEPT ![p] = [@ EXCEPT !.pc = "idle", !.init = FALSE, !.gen = 0]]
  /\ UNCHANGED <<key, mem, queue, sends>>

(***************************************************************************)
(* A writer: Transmit and AcquireBlockToWrite                              *)
(***************************************************************************)
Transmit(w, c) ==
  /\ ep[w].pc = "idle" /\ sends < MaxSends
  /\ sends' = sends + 1
  /\ ep' = [ep EXCEPT ![w].size = c, ![w].pc = IF ep[w].init THEN "remap" ELSE "open"]
  /\ UNCHANGED <<key, mem, queue>>

\* OpenOrCreate: shmget makes the memory, or finds it
OpenOrCreate(w) ==
  /\ ep[w].pc \in {"open", "reopen"}
  /\ IF key = 0
     THEN /\ Len(mem) < MaxMems
          /\ mem' = Append(mem, Zero)
          /\ key' = Len(mem) + 1
          /\ ep' = [ep EXCEPT ![w].gen = Len(mem) + 1, ![w].pc = IF @ = "open" THEN "build" ELSE "rebuild"]
          /\ UNCHANGED <<queue, sends>>
     ELSE OpenOnly(w, IF ep[w].pc = "open" THEN "remap" ELSE "block")

\* the rest of OpenOrCreate constructs State and the blocks
Build(w) ==
  /\ ep[w].pc \in {"build", "rebuild"}
  /\ mem' = [mem EXCEPT ![ep[w].gen] = State(ep[w].conf, 1)]
  /\ ep' = [ep EXCEPT ![w].init = TRUE, ![w].pc = IF @ = "build" THEN "remap" ELSE "block"]
  /\ UNCHANGED <<key, queue, sends>>

\* need_remap: attach to the memory that replaced this one
RemapToWrite(w) ==
  /\ ep[w].pc = "remap"
  /\ IF ~ mem[ep[w].gen].need_remap
     THEN Goto(w, "grow") /\ UNCHANGED <<key, mem, queue, sends>>
     ELSE IF key # 0
     THEN OpenOnly(w, "grow")
     ELSE \* a failed Remap leaves state_ null; Recreate goes through it
          /\ ep' = [ep EXCEPT ![w] = [@ EXCEPT !.init = FALSE, !.gen = 0,
                                     !.pc = IF ep[w].size > ep[w].conf THEN "null" ELSE "idle"]]
          /\ UNCHANGED <<key, mem, queue, sends>>

\* Recreate, when the message does not fit: mark the memory, detach
Recreate(w) ==
  /\ ep[w].pc = "grow"
  /\ IF ep[w].size <= ep[w].conf
     THEN Goto(w, "block") /\ UNCHANGED mem
     ELSE /\ ep' = [ep EXCEPT ![w] = [@ EXCEPT !.pc = "remove", !.init = FALSE, !.conf = ep[w].size]]
          /\ mem' = [mem EXCEPT ![ep[w].gen].need_remap = TRUE]
  /\ UNCHANGED <<key, queue, sends>>

\* Remove drops whatever memory the key names by now
Remove(w) ==
  /\ ep[w].pc = "remove"
  /\ key' = 0
  /\ ep' = [ep EXCEPT ![w].pc = "reopen", ![w].gen = 0]
  /\ UNCHANGED <<mem, queue, sends>>

\* GetNextWritableBlockIndex starts at wrote_num and goes round
NextBlock(w) ==
  /\ ep[w].pc = "block"
  /\ ep' = [ep EXCEPT ![w].pc = "try", ![w].index = mem[ep[w].gen].wrote_num % Blocks[ep[w].conf]]
  /\ UNCHANGED <<key, mem, queue, sends>>


\* past the last block of a memory that was not built yet when it was
\* attached, the lock is payload
TryLockForWrite(w) ==
  /\ ep[w].pc = "try"
  /\ LET g == ep[w].gen
         i == ep[w].index
     IN  IF mem[g].lock[i] = kRWLockFree /\ i < Blocks[ClassOf(g)]
         THEN /\ mem' = [mem EXCEPT ![g].lock[i] = kWriteExclusive, ![g].wrote_num = @ + 1]
              /\ Goto(w, "writing")
         ELSE /\ ep' = [ep EXCEPT ![w].index = (i + 1) % Blocks[ep[w].conf]]
              /\ UNCHANGED mem
  /\ UNCHANGED <<key, queue, sends>>

\* the message is written: ReleaseWrittenBlock, then Notify
ReleaseWrittenBlock(w) ==
  /\ ep[w].pc = "writing"
  /\ mem' = [mem EXCEPT ![ep[w].gen].lock[ep[w].index] = @ + 1]
  /\ Goto(w, "notify")
  /\ UNCHANGED <<key, queue, sends>>

Notify(w) ==
  /\ ep[w].pc = "notify"
  /\ queue' = [r \in Readers |-> Append(queue[r], ep[w].index)]
  /\ Goto(w, "idle")
  /\ UNCHANGED <<key, mem, sends>>

(***************************************************************************)
(* A reader: ReadMessage and AcquireBlockToRead                            *)
(***************************************************************************)
\* the index is compared with the number of blocks known before Remap
CheckIndex(r) ==
  /\ ep[r].pc = "idle" /\ queue[r] # <<>>
  /\ IF ~ ep[r].init /\ key # 0
     THEN OpenOnly(r, "idle")
     ELSE /\ queue' = [queue EXCEPT ![r] = Tail(@)]
          /\ ep' = [ep EXCEPT ![r].index = Head(queue[r]),
                              ![r].pc = IF ep[r].init /\ Head(queue[r]) < Blocks[ep[r].conf]
                                        THEN "remap" ELSE "idle"]
          /\ UNCHANGED <<key, mem, sends>>

RemapToRead(r) ==
  /\ ep[r].pc = "remap"
  /\ IF ~ mem[ep[r].gen].need_remap
     THEN Goto(r, "lock") /\ UNCHANGED <<key, mem, queue, sends>>
     ELSE IF key # 0 THEN OpenOnly(r, "lock") ELSE Fail(r)

\* TryLockForRead: refused while a writer has the block, and after five
\* failed attempts; past the last block it works on payload bytes, and if
\* they pass for a free lock the address of the buffer is null
TryLockForRead(r) ==
  /\ ep[r].pc = "lock"
  /\ LET g == ep[r].gen
         i == ep[r].index
     IN  IF i >= Blocks[ClassOf(g)]
         THEN UNCHANGED mem /\ (Goto(r, "idle") \/ Goto(r, "dead"))
         ELSE \/ /\ mem[g].lock[i] >= kRWLockFree
                 /\ mem' = [mem EXCEPT ![g].lock[i] = @ + 1]
                 /\ Goto(r, "reading")
              \/ Goto(r, "idle") /\ UNCHANGED mem
  /\ UNCHANGED <<key, queue, sends>>

ReleaseReadBlock(r) ==
  /\ ep[r].pc = "reading"
  /\ mem' = [mem EXCEPT ![ep[r].gen].lock[ep[r].index] = @ - 1]
  /\ Goto(r, "idle")
  /\ UNCHANGED <<key, queue, sends>>

(***************************************************************************)
(* The end of a Segment: Destroy counts down and removes the key with the  *)
(* last reference; a process that dies does neither.                       *)
(***************************************************************************)
Destroy(p) ==
  /\ "Destroy" \in Faults
  /\ ep[p].pc = "idle" /\ ep[p].init
  /\ mem' = [mem EXCEPT ![ep[p].gen].refs = IF @ = 0 THEN 0 ELSE @ - 1]
  /\ ep' = [ep EXCEPT ![p].pc = "destroy", ![p].init = FALSE]
  /\ UNCHANGED <<key, queue, sends>>

DestroyEnd(p) ==
  /\ ep[p].pc = "destroy"
  /\ key' = IF mem[ep[p].gen].refs = 0 THEN 0 ELSE key
  /\ ep' = [ep EXCEPT ![p] = Detached]
  /\ UNCHANGED <<mem, queue, sends>>

Die(p) ==
  /\ "Die" \in Faults
  /\ ep[p].pc # "dead"
  /\ Goto(p, "dead")
  /\ UNCHANGED <<key, mem, queue, sends>>

WriterStep(w) ==
  \/ \E c \in Classes : Transmit(w, c)
  \/ OpenOrCreate(w) \/ Build(w) \/ RemapToWrite(w) \/ Recreate(w) \/ Remove(w)
  \/ NextBlock(w) \/ TryLockForWrite(w) \/ ReleaseWrittenBlock(w) \/ Notify(w)

ReaderStep(r) ==
  CheckIndex(r) \/ RemapToRead(r) \/ TryLockForRead(r) \/ ReleaseReadBlock(r)

Next ==
  \/ \E w \in Writers : WriterStep(w)
  \/ \E r \in Readers : ReaderStep(r)
  \/ \E p \in Endpoints : Destroy(p) \/ DestroyEnd(p) \/ Die(p)

Spec == Init /\ [][Next]_vars

-----------------------------------------------------------------------------
(***************************************************************************)
(* Properties                                                              *)
(***************************************************************************)
Pcs == {"idle", "open", "reopen", "build", "rebuild", "remap", "grow", "remove",
        "block", "try", "writing", "notify", "lock", "reading", "destroy", "null", "dead"}

TypeOK ==
  /\ key \in 0 .. Len(mem) /\ Len(mem) <= MaxMems
  /\ \A g \in DOMAIN mem :
       /\ mem[g].ceiling \in Classes \cup {0}
       /\ mem[g].refs \in Nat /\ mem[g].wrote_num \in 0 .. MaxSends
       /\ \A i \in Indexes : mem[g].lock[i] \in kWriteExclusive .. Cardinality(Readers)
  /\ \A p \in Endpoints :
       /\ ep[p].pc \in Pcs /\ ep[p].gen \in 0 .. Len(mem)
       /\ ep[p].conf \in Classes /\ ep[p].index \in Indexes
       /\ ep[p].init => ep[p].gen # 0

Using(p, pc, q, qc) ==
  /\ p # q /\ ep[p].pc = pc /\ ep[q].pc = qc
  /\ ep[p].gen = ep[q].gen /\ ep[p].index = ep[q].index

\* Once the segment is established, no two writers are in the same block and
\* no reader is in a block with a writer, through TryLockForWrite and
\* TryLockForRead, whichever processes die with a block locked.
BlockExclusive ==
  \A w \in Writers :
    /\ \A v \in Writers : ~ Using(w, "writing", v, "writing")
    /\ \A r \in Readers : ~ Using(w, "writing", r, "reading")

\* A message is only written into a block it fits in: after Recreate the
\* writer has a segment of the class it asked for.
FitsBlock ==
  \A w \in Writers : ep[w].pc = "writing" => ep[w].size <= mem[ep[w].gen].ceiling

\* Whoever is attached to a memory that the key no longer names will see
\* need_remap, so that a grown channel loses none of its readers.
StaleIsFlagged ==
  \A p \in Endpoints :
    ep[p].init /\ ep[p].gen # key => mem[ep[p].gen].need_remap

\* A block index that the segment does not have is refused.
IndexInSegment ==
  \A r \in Readers : ep[r].pc = "lock" => ep[r].index < Blocks[ClassOf(ep[r].gen)]

\* A writer whose Remap fails gives up with "segment update failed", and
\* never goes through state_ while it is null.
RemapFailureIsReported == \A w \in Writers : ep[w].pc # "null"
=============================================================================
