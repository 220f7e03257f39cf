----------------------------- MODULE Dispatcher -----------------------------
(***************************************************************************)
(* Listeners of one channel: transport/dispatcher/dispatcher.h adds and    *)
(* removes them, transport/message/listener_handler.h keeps them, and      *)
(* base/signal.h calls them while other threads come and go.               *)
(*                                                                         *)
(* A listener is one pair of receiver and opposite: Opposite[l] is the     *)
(* sender it hears, or All for the AddListener without an opposite.  Each  *)
(* listener is added and removed by its receiver, one call at a time; two  *)
(* receivers may call at once.  A handler is named after the listener      *)
(* whose AddListener made it, a slot after its listener and the number of  *)
(* the Connect that made it.  Writers of the handler's lock appear as one  *)
(* step, which needs the readers gone.  The handler of a channel serves    *)
(* the message type of the listener that made it, or every type when that  *)
(* is the raw one.                                                         *)
(***************************************************************************)
EXTENDS Naturals, Sequences, FiniteSets, SequencesExt

CONSTANTS
    Listeners,      \* pairs of receiver and opposite
    Senders,        \* writers of the channel
    Threads,        \* threads that call OnMessage
    Opposite,       \* the sender a listener hears, or All
    All,            \* a listener without an opposite
    None,           \* no handler, no slot
    Type,           \* the message type of each listener and each sender
    Raw,            \* the type RawMessage
    MaxAdds,        \* bound: AddListener calls of one listener
    MaxMessages,    \* bound: messages dispatched
    Serial          \* TRUE: no two AddListener calls on a new channel overlap

DispatcherAssumption ==
    /\ Opposite \in [Listeners -> Senders \cup {All}]
    /\ All \notin Senders
    /\ None \notin Listeners
    /\ MaxAdds \in Nat \ {0}
    /\ MaxMessages \in Nat \ {0}
    /\ Serial \in BOOLEAN

VARIABLES
    handlerOf,  \* msg_listeners_[channel]
    signals,    \* of a handler: the slots of signal_ (All) and of signals_
    conns,      \* of a handler: the connection kept for a listener
    connected,  \* the slots whose connected_ is true
    isShutdown, \* is_shutdown_
    owner,      \* where the receiver of each listener is
    adds,       \* the AddListener calls each listener has made
    run,        \* where each OnMessage is
    sent,       \* messages dispatched so far
    steady,     \* listeners connected from before OnMessage on, per thread
    called      \* the slots each thread's message has been given to

ownerVars == <<owner, adds>>
runVars == <<run, sent, called>>
vars == <<handlerOf, signals, conns, connected, isShutdown, ownerVars, runVars,
          steady>>

Slots == Listeners \X (1 .. MaxAdds)
Signals == Senders \cup {All}
Idle == [pc |-> "idle", from |-> All, which |-> All, handler |-> None, todo |-> <<>>]

TypeOK ==
    /\ handlerOf \in Listeners \cup {None}
    /\ DOMAIN signals = Listeners
    /\ \A h \in Listeners : /\ DOMAIN signals[h] = Signals
                            /\ \A o \in Signals : Range(signals[h][o]) \subseteq Slots
    /\ conns \in [Listeners -> [Listeners -> Slots \cup {None}]]
    /\ connected \subseteq Slots
    /\ isShutdown \in BOOLEAN
    /\ \A l \in Listeners :
          /\ owner[l].pc \in {"out", "new", "connect", "keep", "in", "leave"}
          /\ owner[l].handler \in Listeners \cup {None}
    /\ adds \in [Listeners -> 0 .. MaxAdds]
    /\ \A t \in Threads :
          /\ run[t].pc \in {"idle", "emit", "slots", "call", "lock"}
          /\ {run[t].from, run[t].which} \subseteq Signals
          /\ Range(run[t].todo) \subseteq Slots
    /\ sent \in 0 .. MaxMessages
    /\ steady \in [Threads -> SUBSET Listeners]
    /\ \A t \in Threads : Range(called[t]) \subseteq Slots

Init ==
    /\ handlerOf = None
    /\ signals = [h \in Listeners |-> [o \in Signals |-> <<>>]]
    /\ conns = [h \in Listeners |-> [l \in Listeners |-> None]]
    /\ connected = {}
    /\ isShutdown = FALSE
    /\ owner = [l \in Listeners |-> [pc |-> "out", handler |-> None]]
    /\ adds = [l \in Listeners |-> 0]
    /\ run = [t \in Threads |-> Idle]
    /\ sent = 0
    /\ steady = [t \in Threads |-> {}]
    /\ called = [t \in Threads |-> <<>>]

-----------------------------------------------------------------------------
(* Run holds the read half of rw_lock_ while it calls signals_[oppo_id].   *)
NoReader(h) == \A t \in Threads : run[t].which # All => run[t].handler # h

Serves(h, type) == Type[h] = type

To(l, pc, h) == owner' = [owner EXCEPT ![l] = [pc |-> pc, handler |-> h]]

SlotOf(l) == <<l, adds[l]>>

(* AddListener up to Get: a shut-down dispatcher and a handler of another  *)
(* message type end the call, with the listener not added.                 *)
AddListener(l) ==
    /\ owner[l].pc = "out"
    /\ adds[l] < MaxAdds
    /\ Serial => \A k \in Listeners : owner[k].pc # "new"
    /\ adds' = [adds EXCEPT ![l] = @ + 1]
    /\ IF isShutdown THEN To(l, "in", None)
       ELSE IF handlerOf = None THEN To(l, "new", None)
       ELSE IF Serves(handlerOf, Type[l]) THEN To(l, "connect", handlerOf)
       ELSE To(l, "in", None)
    /\ UNCHANGED <<handlerOf, signals, conns, connected, isShutdown, runVars, steady>>

SetHandler(l) ==
    /\ owner[l].pc = "new"
    /\ handlerOf' = l
    /\ To(l, "connect", l)
    /\ UNCHANGED <<signals, conns, connected, isShutdown, adds, runVars, steady>>

SignalConnect(h, l) ==
    /\ signals' = [signals EXCEPT ![h][Opposite[l]] = Append(@, SlotOf(l))]
    /\ connected' = connected \cup {SlotOf(l)}

(* Connect(self_id): the slot is live before its connection is kept.       *)
ConnectAll(l) ==
    /\ owner[l].pc = "connect"
    /\ Opposite[l] = All
    /\ SignalConnect(owner[l].handler, l)
    /\ To(l, "keep", owner[l].handler)
    /\ UNCHANGED <<handlerOf, conns, isShutdown, adds, runVars, steady>>

KeepConnection(l) ==
    /\ owner[l].pc = "keep"
    /\ NoReader(owner[l].handler)
    /\ conns' = [conns EXCEPT ![owner[l].handler][l] = SlotOf(l)]
    /\ To(l, "in", owner[l].handler)
    /\ UNCHANGED <<handlerOf, signals, connected, isShutdown, adds, runVars, steady>>

(* Connect(self_id, oppo_id), all of it under the write lock.              *)
ConnectOpposite(l) ==
    /\ owner[l].pc = "connect"
    /\ Opposite[l] # All
    /\ NoReader(owner[l].handler)
    /\ SignalConnect(owner[l].handler, l)
    /\ conns' = [conns EXCEPT ![owner[l].handler][l] = SlotOf(l)]
    /\ To(l, "in", owner[l].handler)
    /\ UNCHANGED <<handlerOf, isShutdown, adds, runVars, steady>>

(* RemoveListener up to Get.                                               *)
RemoveListener(l) ==
    /\ owner[l].pc = "in"
    /\ IF isShutdown \/ handlerOf = None THEN To(l, "out", None)
                                         ELSE To(l, "leave", handlerOf)
    /\ steady' = [t \in Threads |-> steady[t] \ {l}]
    /\ UNCHANGED <<handlerOf, signals, conns, connected, isShutdown, adds, runVars>>

Cleared(slots, live) == SelectSeq(slots, LAMBDA s : s \in live)

(* Mutant: Disconnect does not take the write lock.                        *)
DisconnectUnlocked(l) ==
    LET h == owner[l].handler
        slot == conns[h][l]
    IN  /\ owner[l].pc = "leave"
        /\ conns' = [conns EXCEPT ![h][l] = None]
        /\ connected' = connected \ {slot}
        /\ signals' = [signals EXCEPT ![h][Opposite[l]] = Cleared(@, connected')]
        /\ To(l, "out", None)
        /\ UNCHANGED <<handlerOf, isShutdown, adds, runVars, steady>>

(* Disconnect under the write lock: the slot is marked, then erased.       *)
Disconnect(l) ==
    LET h == owner[l].handler
        slot == conns[h][l]
    IN  /\ owner[l].pc = "leave"
        /\ NoReader(h)
        /\ conns' = [conns EXCEPT ![h][l] = None]
        /\ connected' = connected \ {slot}
        /\ signals' = [signals EXCEPT ![h][Opposite[l]] = Cleared(@, connected')]
        /\ To(l, "out", None)
        /\ UNCHANGED <<handlerOf, isShutdown, adds, runVars, steady>>

Shutdown ==
    /\ ~isShutdown
    /\ isShutdown' = TRUE
    /\ UNCHANGED <<handlerOf, signals, conns, connected, ownerVars, runVars, steady>>
-----------------------------------------------------------------------------
(* OnMessage: the handler of the channel, if it serves the message's type. *)
OnMessage(t, s) ==
    /\ run[t].pc = "idle"
    /\ sent < MaxMessages
    /\ ~isShutdown
    /\ handlerOf # None
    /\ Serves(handlerOf, Raw) \/ Serves(handlerOf, Type[s])
    /\ sent' = sent + 1
    /\ run' = [run EXCEPT ![t] = [pc |-> "emit", from |-> s, which |-> All,
                                  handler |-> handlerOf, todo |-> <<>>]]
    /\ steady' = [steady EXCEPT ![t] =
                    {l \in Listeners : owner[l].pc = "in" /\ owner[l].handler # None}]
    /\ called' = [called EXCEPT ![t] = <<>>]
    /\ UNCHANGED <<handlerOf, signals, conns, connected, isShutdown, ownerVars>>

(* Signal::operator(): a copy of the slots, taken under its mutex.         *)
CopySlots(t) ==
    /\ run[t].pc = "emit"
    /\ run' = [run EXCEPT ![t].pc = "slots",
                          ![t].todo = signals[run[t].handler][run[t].which]]
    /\ UNCHANGED <<handlerOf, signals, conns, connected, isShutdown, ownerVars,
                   sent, steady, called>>

(* Slot::operator(): connected_ is tested first, the callback runs after.  *)
TestSlot(t) ==
    /\ run[t].pc = "slots"
    /\ run[t].todo # <<>>
    /\ run' = IF Head(run[t].todo) \in connected
              THEN [run EXCEPT ![t].pc = "call"]
              ELSE [run EXCEPT ![t].todo = Tail(@)]
    /\ UNCHANGED <<handlerOf, signals, conns, connected, isShutdown, ownerVars,
                   sent, steady, called>>

CallSlot(t) ==
    /\ run[t].pc = "call"
    /\ called' = [called EXCEPT ![t] = Append(@, Head(run[t].todo))]
    /\ run' = [run EXCEPT ![t].pc = "slots", ![t].todo = Tail(@)]
    /\ UNCHANGED <<handlerOf, signals, conns, connected, isShutdown, ownerVars,
                   sent, steady>>

(* Mutant: Run returns when signal_ has no slots.                          *)
ClearThenReturn(t) ==
    /\ run[t].pc = "slots"
    /\ run[t].todo = <<>>
    /\ signals' = [signals EXCEPT ![run[t].handler][run[t].which] =
                     Cleared(@, connected)]
    /\ run' = [run EXCEPT ![t] =
                 IF @.which = All /\ signals'[@.handler][All] # <<>>
                 THEN [@ EXCEPT !.pc = "lock"] ELSE Idle]
    /\ UNCHANGED <<handlerOf, conns, connected, isShutdown, ownerVars, sent,
                   steady, called>>

(* ClearDisconnectedSlots, and on to signals_ or out of Run.               *)
ClearDisconnectedSlots(t) ==
    /\ run[t].pc = "slots"
    /\ run[t].todo = <<>>
    /\ signals' = [signals EXCEPT ![run[t].handler][run[t].which] =
                     Cleared(@, connected)]
    /\ run' = [run EXCEPT ![t] = IF @.which = All THEN [@ EXCEPT !.pc = "lock"] ELSE Idle]
    /\ UNCHANGED <<handlerOf, conns, connected, isShutdown, ownerVars, sent,
                   steady, called>>

LockSignals(t) ==
    /\ run[t].pc = "lock"
    /\ run' = [run EXCEPT ![t].pc = "emit", ![t].which = run[t].from]
    /\ UNCHANGED <<handlerOf, signals, conns, connected, isShutdown, ownerVars,
                   sent, steady, called>>

Next ==
    \/ \E l \in Listeners : \/ AddListener(l)    \/ SetHandler(l)
                            \/ ConnectAll(l)     \/ KeepConnection(l)
                            \/ ConnectOpposite(l)
                            \/ RemoveListener(l) \/ Disconnect(l)
    \/ \E t \in Threads : \/ \E s \in Senders : OnMessage(t, s)
                          \/ CopySlots(t) \/ TestSlot(t) \/ CallSlot(t)
                          \/ ClearDisconnectedSlots(t)   \/ LockSignals(t)
    \/ Shutdown

Spec == Init /\ [][Next]_vars
-----------------------------------------------------------------------------
CallsTo(t, l) == Cardinality({i \in 1 .. Len(called'[t]) : called'[t][i][1] = l})

(* A message reaches every listener that was added before OnMessage began  *)
(* and not removed before it ended, once: whatever the other receivers add *)
(* and remove while the slots are called.                                  *)
HeardOnceStep ==
    \A t \in Threads : run[t].pc # "idle" /\ run'[t].pc = "idle" =>
       \A l \in steady[t] :
          CallsTo(t, l) = IF Opposite[l] \in {All, run[t].from} THEN 1 ELSE 0
HeardOnce == [][HeardOnceStep]_vars

Gone(slot) == adds[slot[1]] > slot[2] \/ owner[slot[1]].pc = "out"

(* The callback of a listener added for one opposite never runs once its   *)
(* RemoveListener has returned: the write lock of Disconnect waits for the *)
(* read lock Run holds while it calls.                                     *)
QuietAfterRemove ==
    \A t \in Threads : run[t].pc = "call" /\ run[t].which # All /\ ~isShutdown =>
        ~Gone(Head(run[t].todo))

(* Every slot of the channel's handler that is still connected belongs to  *)
(* a listener that can still disconnect it: its connection is kept, or its *)
(* AddListener is about to keep it.                                        *)
CanDisconnect ==
    handlerOf # None => \A o \in Signals : \A s \in Range(signals[handlerOf][o]) :
        s \in connected =>
            \/ conns[handlerOf][s[1]] = s
            \/ owner[s[1]].pc = "keep" /\ SlotOf(s[1]) = s
=============================================================================
