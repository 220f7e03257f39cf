--------------------------- MODULE AtomicHashMap ---------------------------
(***************************************************************************)
(* One bucket of cyber/base/atomic_hash_map.h: a list of entries sorted by *)
(* key, in which Insert links a new entry or replaces the value of the one *)
(* that is there, both by compare-exchange, and from which nothing is ever *)
(* unlinked.  One step of the model is one atomic access of the code.      *)
(*                                                                         *)
(* The entry a thread allocates for a key is <<key, thread>>, and the V it *)
(* allocates in its n-th call is the cell <<thread, n>>: a thread links an *)
(* entry for a key once, since it finds it from then on.                   *)
(***************************************************************************)
EXTENDS Integers, FiniteSets

CONSTANTS
    Threads,
    Keys,       \* keys of the bucket, natural numbers
    Calls,      \* what is called, of "Insert", "Get" and "Has"
    MaxCalls,   \* bound on the calls of a thread
    HeadEntry,  \* head_
    Nil         \* nullptr

KeysAssumption == Keys \subseteq Nat /\ MaxCalls \in Nat
CallsAssumption == Calls \subseteq {"Insert", "Get", "Has"}

Entries == Keys \X Threads

VARIABLES
    next,       \* the next field of the entries
    value_ptr,  \* the cell of each entry
    thread,     \* the locals of each thread
    calls,      \* number of calls each thread has started
    freed,      \* history: how often each cell was deleted
    done        \* history: keys whose Insert has returned

vars == <<next, value_ptr, thread, calls, freed, done>>

Cells == Threads \X (1 .. MaxCalls)

Idle == [pc |-> "idle", op |-> "Has", key |-> 0, prev |-> HeadEntry, target |-> Nil,
         cell |-> Nil, known |-> FALSE, res |-> FALSE]

Init ==
    /\ next = [e \in Entries \cup {HeadEntry} |-> Nil]
    /\ value_ptr = [e \in Entries |-> Nil]
    /\ thread = [t \in Threads |-> Idle]
    /\ calls = [t \in Threads |-> 0]
    /\ freed = [c \in Cells |-> 0]
    /\ done = {}

KeyOf(e) == e[1]

Cell(t) == <<t, calls[t]>>

----------------------------------------------------------------------------
\* A call begins, and with it Find or Has at the head.
Call(t, op, k) ==
    /\ thread[t].pc = "idle" /\ calls[t] < MaxCalls
    /\ calls' = [calls EXCEPT ![t] = @ + 1]
    /\ thread' = [thread EXCEPT ![t] = [Idle EXCEPT !.pc = "find", !.op = op, !.key = k,
                                                    !.target = next[HeadEntry],
                                                    !.known = k \in done]]
    /\ UNCHANGED <<next, value_ptr, freed, done>>

\* The key of the target is smaller: the next entry is loaded.
Advance(t) ==
    LET l == thread[t] IN
    /\ l.pc = "find" /\ l.target # Nil
    /\ KeyOf(l.target) < l.key
    /\ thread' = [thread EXCEPT ![t].prev = l.target, ![t].target = next[l.target]]
    /\ UNCHANGED <<next, value_ptr, calls, freed, done>>

\* The search ends at the key, or at the place where it belongs.
Found(t) ==
    LET l == thread[t] IN
    /\ l.pc = "find" /\ l.target # Nil
    /\ KeyOf(l.target) = l.key
    /\ thread' = [thread EXCEPT ![t].pc = CASE l.op = "Insert" -> "load_value"
                                            [] l.op = "Get" -> "get_value"
                                            [] l.op = "Has" -> "return",
                                ![t].res = TRUE]
    /\ UNCHANGED <<next, value_ptr, calls, freed, done>>

NotFound(t) ==
    LET l == thread[t] IN
    /\ l.pc = "find"
    /\ l.target # Nil => KeyOf(l.target) > l.key
    /\ thread' = [thread EXCEPT ![t].pc = IF l.op = "Insert" THEN "link" ELSE "return",
                                ![t].res = FALSE]
    /\ UNCHANGED <<next, value_ptr, calls, freed, done>>

----------------------------------------------------------------------------
\* Insert: old_val_ptr is loaded.
LoadValue(t) ==
    /\ thread[t].pc = "load_value"
    /\ thread' = [thread EXCEPT ![t].pc = "cas_value", ![t].cell = value_ptr[thread[t].target]]
    /\ UNCHANGED <<next, value_ptr, calls, freed, done>>

\* The exchange of the value; who replaces a value deletes it.
Replace(t) ==
    LET l == thread[t] IN
    /\ l.pc = "cas_value"
    /\ \/ /\ value_ptr[l.target] = l.cell
          /\ value_ptr' = [value_ptr EXCEPT ![l.target] = Cell(t)]
          /\ freed' = [freed EXCEPT ![l.cell] = @ + 1]
          /\ thread' = [thread EXCEPT ![t].pc = "return"]
       \/ /\ value_ptr[l.target] # l.cell
          /\ thread' = [thread EXCEPT ![t].pc = "find", ![t].prev = HeadEntry,
                                      ![t].target = next[HeadEntry]]
          /\ UNCHANGED <<value_ptr, freed>>
    /\ UNCHANGED <<next, calls, done>>

\* new_entry gets its next field, then prev->next is exchanged; new_entry is
\* this thread's until then, and the two are one step.
Linked(t) ==
    LET l == thread[t] IN
    [next EXCEPT ![<<l.key, t>>] = l.target, ![l.prev] = <<l.key, t>>]

\* Mutant: the entry is linked whatever has been linked since.
LinkByStore(t) ==
    LET l == thread[t] IN
    /\ l.pc = "link"
    /\ next' = Linked(t)
    /\ value_ptr' = [value_ptr EXCEPT ![<<l.key, t>>] = Cell(t)]
    /\ thread' = [thread EXCEPT ![t].pc = "return"]
    /\ UNCHANGED <<calls, freed, done>>

Link(t) ==
    LET l == thread[t] IN
    /\ l.pc = "link"
    /\ \/ /\ next[l.prev] = l.target
          /\ next' = Linked(t)
          /\ value_ptr' = [value_ptr EXCEPT ![<<l.key, t>>] = Cell(t)]
          /\ thread' = [thread EXCEPT ![t].pc = "return"]
       \/ /\ next[l.prev] # l.target
          /\ thread' = [thread EXCEPT ![t].pc = "find", ![t].prev = HeadEntry,
                                      ![t].target = next[HeadEntry]]
          /\ UNCHANGED <<next, value_ptr>>
    /\ UNCHANGED <<calls, freed, done>>

\* Get: the pointer is loaded, and the caller copies what it points to.
GetValue(t) ==
    /\ thread[t].pc = "get_value"
    /\ thread' = [thread EXCEPT ![t].pc = "copy", ![t].cell = value_ptr[thread[t].target]]
    /\ UNCHANGED <<next, value_ptr, calls, freed, done>>

Copy(t) ==
    /\ thread[t].pc = "copy"
    /\ thread' = [thread EXCEPT ![t].pc = "return"]
    /\ UNCHANGED <<next, value_ptr, calls, freed, done>>

Return(t) ==
    LET l == thread[t] IN
    /\ l.pc = "return"
    /\ done' = IF l.op = "Insert" THEN done \cup {l.key} ELSE done
    /\ thread' = [thread EXCEPT ![t] = Idle]
    /\ UNCHANGED <<next, value_ptr, calls, freed>>

Next ==
    \E t \in Threads :
        \/ \E op \in Calls, k \in Keys : Call(t, op, k)
        \/ Advance(t) \/ Found(t) \/ NotFound(t)
        \/ LoadValue(t) \/ Replace(t) \/ Link(t)
        \/ GetValue(t) \/ Copy(t) \/ Return(t)

Spec == Init /\ [][Next]_vars

----------------------------------------------------------------------------
\* The entries that have been linked; none is ever unlinked.
InList == {e \in Entries : \E d \in Entries \cup {HeadEntry} : next[d] = e}

\* The state has its shape; the value of a linked entry is never null.
TypeOK ==
    /\ next \in [Entries \cup {HeadEntry} -> Entries \cup {Nil}]
    /\ value_ptr \in [Entries -> Cells \cup {Nil}]
    /\ \A e \in InList : value_ptr[e] # Nil
    /\ done \subseteq Keys
    /\ \A t \in Threads : thread[t].pc \in {"idle", "find", "load_value", "cas_value", "link",
                                           "get_value", "copy", "return"}

\* The list is strictly sorted by key, so that no key is there twice, and only
\* one entry has a given one as its next.
SortedOnce ==
    /\ \A d \in InList : next[d] # Nil => KeyOf(d) < KeyOf(next[d])
    /\ \A d, e \in InList : KeyOf(d) = KeyOf(e) => d = e
    /\ \A d, e \in InList \cup {HeadEntry} : next[d] = next[e] /\ next[d] # Nil => d = e

\* A key is found by every call that starts after an Insert of it has returned,
\* whatever is inserted meanwhile.
NeverForgotten ==
    \A t \in Threads :
        thread[t].pc = "return" /\ thread[t].op # "Insert" /\ thread[t].known => thread[t].res

\* A value is deleted once, and only after it was replaced in the list.
DeletedOnce ==
    /\ \A c \in Cells : freed[c] <= 1
    /\ \A e \in InList : freed[value_ptr[e]] = 0

\* Get copies a value that has not been deleted.
CopiesLive == \A t \in Threads : thread[t].pc = "copy" => freed[thread[t].cell] = 0
============================================================================
