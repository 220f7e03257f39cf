-------------------------- MODULE ConditionNotifier --------------------------
(***************************************************************************)
(* ConditionNotifier (transport/shm/condition_notifier.cc): a ring in      *)
(* shared memory through which the transmitters of a host tell the         *)
(* dispatchers of all processes which block to read.  A notifier claims a  *)
(* sequence number, writes the info and then the number into its slot; a   *)
(* listener reads a slot when the slot shows the number it waits for.      *)
(*                                                                         *)
(* The info of notification s is s itself.                                 *)
(***************************************************************************)
EXTENDS Integers, FiniteSets

CONSTANTS
  Notifiers, Listeners,
  kBufLength,
  MaxSeq,      \* bound on the notifications
  KeepsUp      \* no thread falls behind by the length of the ring

LengthAssumption == kBufLength \in Nat \ {0}
MaxSeqAssumption == MaxSeq \in Nat

VARIABLES
  next_seq, infos, seqs,   \* the Indicator
  writer,                  \* writer[n]: the step of Notify and the number claimed
  listener                 \* listener[l]: the step of Listen, next_seq_ and what was read

vars == <<next_seq, infos, seqs, writer, listener>>

NoInfo == -1
Slots == 0 .. kBufLength - 1

\* the memory is new; a process takes part once it has made its notifier
Init ==
  /\ next_seq = 0
  /\ infos = [i \in Slots |-> NoInfo]
  /\ seqs = [i \in Slots |-> 0]
  /\ writer = [n \in Notifiers |-> [pc |-> "idle", seq |-> 0]]
  /\ listener = [l \in Listeners |-> [pc |-> "new", next |-> 0, seq |-> NoInfo, info |-> NoInfo]]

\* the constructor: only what is sent from now on
Join(l) ==
  /\ listener[l].pc = "new"
  /\ listener' = [listener EXCEPT ![l].pc = "idle", ![l].next = next_seq]
  /\ UNCHANGED <<next_seq, infos, seqs, writer>>

Room ==
  /\ \A l \in Listeners : listener[l].pc # "new" => next_seq - listener[l].next < kBufLength
  /\ \A n \in Notifiers : writer[n].pc # "idle" => next_seq - writer[n].seq < kBufLength

Claim(n) ==
  /\ writer[n].pc = "idle" /\ next_seq < MaxSeq
  /\ KeepsUp => Room
  /\ next_seq' = next_seq + 1
  /\ writer' = [writer EXCEPT ![n] = [pc |-> "info", seq |-> next_seq]]
  /\ UNCHANGED <<infos, seqs, listener>>

WriteInfo(n) ==
  LET i == writer[n].seq % kBufLength
  IN  /\ writer[n].pc = "info"
      /\ infos' = [infos EXCEPT ![i] = writer[n].seq]
      /\ writer' = [writer EXCEPT ![n].pc = "seq"]
      /\ UNCHANGED <<next_seq, seqs, listener>>

WriteSeq(n) ==
  LET i == writer[n].seq % kBufLength
  IN  /\ writer[n].pc = "seq"
      /\ seqs' = [seqs EXCEPT ![i] = writer[n].seq]
      /\ writer' = [writer EXCEPT ![n].pc = "idle"]
      /\ UNCHANGED <<next_seq, infos, listener>>

\* an iteration of Listen that finds something; the others change nothing
Look(l) ==
  /\ listener[l].pc = "idle"
  /\ next_seq # listener[l].next
  /\ seqs[listener[l].next % kBufLength] = listener[l].next
  /\ listener' = [listener EXCEPT ![l].pc = "copy"]
  /\ UNCHANGED <<next_seq, infos, seqs, writer>>

\* Mutant: the position is not advanced
CopyInPlace(l) ==
  /\ listener[l].pc = "copy"
  /\ listener' = [listener EXCEPT ![l] = [@ EXCEPT !.pc = "idle", !.seq = listener[l].next,
                                                  !.info = infos[listener[l].next % kBufLength]]]
  /\ UNCHANGED <<next_seq, infos, seqs, writer>>

Copy(l) ==
  /\ listener[l].pc = "copy"
  /\ listener' = [listener EXCEPT ![l] =
       [pc |-> "idle", next |-> @.next + 1, seq |-> @.next, info |-> infos[@.next % kBufLength]]]
  /\ UNCHANGED <<next_seq, infos, seqs, writer>>

NotifyStep(n) == WriteInfo(n) \/ WriteSeq(n)
ListenStep(l) == Look(l) \/ Copy(l)

Next ==
  \/ \E n \in Notifiers : Claim(n) \/ NotifyStep(n)
  \/ \E l \in Listeners : Join(l) \/ ListenStep(l)

\* threads run; nobody has to send and no process has to be started
Fairness ==
  /\ \A n \in Notifiers : WF_vars(NotifyStep(n))
  /\ \A l \in Listeners : WF_vars(ListenStep(l))

Spec == Init /\ [][Next]_vars /\ Fairness

-----------------------------------------------------------------------------
(***************************************************************************)
(* Properties                                                              *)
(***************************************************************************)

\* A listener never runs ahead of the notifications.
TypeOK ==
  /\ next_seq \in 0 .. MaxSeq
  /\ infos \in [Slots -> {NoInfo} \cup 0 .. MaxSeq - 1]
  /\ seqs \in [Slots -> 0 .. MaxSeq]
  /\ \A n \in Notifiers : writer[n].pc \in {"idle", "info", "seq"} /\ writer[n].seq <= next_seq
  /\ \A l \in Listeners :
       listener[l].pc \in {"new", "idle", "copy"} /\ listener[l].next \in 0 .. next_seq

\* What a listener that keeps up reads as notification s is notification s,
\* for every s but 0, whose slot looks written from the start.
InfoMatchesSeq ==
  \A l \in Listeners : listener[l].seq > 0 => listener[l].info = listener[l].seq

\* A slot that is being written is not read.
OnlyWrittenIsRead ==
  \A l \in Listeners : listener[l].seq # NoInfo => listener[l].info # NoInfo

\* When the notifications cease, every listener gets to the last one.
CatchesUp ==
  \A l \in Listeners : listener[l].pc # "new" ~> [](listener[l].next = next_seq)
=============================================================================
