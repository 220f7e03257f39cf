--------------------------- MODULE PeerDiscovery ---------------------------
(***************************************************************************)
(* How the writers and the readers of a channel find one another: Init and *)
(* Shutdown of node/writer.h and node/reader.h, the change signal of the   *)
(* channel manager, and Enable and Disable of the hybrid transmitter and   *)
(* receiver, in one process.                                               *)
(*                                                                         *)
(* An endpoint joins once: a writer or a reader created later is another   *)
(* endpoint.  Endpoints of other processes appear as the changes the       *)
(* topology thread applies for them.  Id[e] is the identity in the         *)
(* endpoint's attributes: that of its transmitter, or that of the receiver *)
(* the ReceiverManager keeps for the channel, which all readers of a       *)
(* process share.                                                          *)
(***************************************************************************)
EXTENDS FiniteSets

CONSTANTS
    Writers,
    Readers,
    Remote,     \* the endpoints of other processes
    Id,         \* the identity of an endpoint's transmitter or receiver
    MayLeave    \* the endpoints that may shut down

Endpoints == Writers \cup Readers
Ids == {Id[e] : e \in Endpoints}
Local == Endpoints \ Remote

PeerAssumption ==
    /\ Writers \cap Readers = {}
    /\ Remote \subseteq Endpoints
    /\ MayLeave \subseteq Endpoints
    /\ \A w \in Writers : \A e \in Endpoints : Id[e] = Id[w] => e = w

VARIABLES
    slots,      \* the connected slots of the manager's signal_
    roles,      \* channel_writers_ and channel_readers_ of the channel
    enabled,    \* by identity: the opposites enabled in the hybrid object
    pc,         \* where Init or Shutdown of each endpoint is
    todo,       \* peers still to enable, or slots still to call
    testing,    \* the slot found connected and about to be called
    gone,       \* endpoints whose Shutdown has cleared receiver_ or transmitter_
    crashed,    \* a callback of such an endpoint has run
    listed      \* the peers the endpoint found when it joined

vars == <<slots, roles, enabled, pc, todo, testing, gone, crashed, listed>>

Opposites(e) == IF e \in Writers THEN Readers ELSE Writers

TypeOK ==
    /\ slots \subseteq Local
    /\ roles \subseteq Endpoints
    /\ DOMAIN enabled = Ids
    /\ \A e \in Endpoints : enabled[Id[e]] \subseteq {Id[p] : p \in Opposites(e)}
    /\ pc \in [Endpoints -> {"new", "get", "enable", "join", "copy", "call", "in",
                             "leave", "copy leave", "call leave", "out"}]
    /\ todo \in [Endpoints -> SUBSET Endpoints]
    /\ testing \in [Endpoints -> SUBSET Local]
    /\ gone \subseteq Local
    /\ crashed \in BOOLEAN
    /\ listed \in [Endpoints -> SUBSET Ids]

Init ==
    /\ slots = {}
    /\ roles = {}
    /\ enabled = [i \in Ids |-> {}]
    /\ pc = [e \in Endpoints |-> IF e \in Remote THEN "join" ELSE "new"]
    /\ todo = [e \in Endpoints |-> {}]
    /\ testing = [e \in Endpoints |-> {}]
    /\ gone = {}
    /\ crashed = FALSE
    /\ listed = [e \in Endpoints |-> {}]
-----------------------------------------------------------------------------
Goes(e, from, to) == /\ ~crashed
                     /\ pc[e] = from
                     /\ pc' = [pc EXCEPT ![e] = to]

AddChangeListener(e) ==
    /\ Goes(e, "new", "get")
    /\ slots' = slots \cup {e}
    /\ UNCHANGED <<roles, enabled, todo, testing, gone, crashed, listed>>

(* Mutant: only the peers of this process are found.                       *)
GetLocalPeers(e) ==
    /\ Goes(e, "get", "enable")
    /\ todo' = [todo EXCEPT ![e] = (roles \cap Opposites(e)) \ Remote]
    /\ listed' = [listed EXCEPT ![e] = {Id[p] : p \in todo'[e]}]
    /\ UNCHANGED <<slots, roles, enabled, testing, gone, crashed>>

(* GetWritersOfChannel, or GetReadersOfChannel.                            *)
GetPeers(e) ==
    /\ Goes(e, "get", "enable")
    /\ todo' = [todo EXCEPT ![e] = roles \cap Opposites(e)]
    /\ listed' = [listed EXCEPT ![e] = {Id[p] : p \in todo'[e]}]
    /\ UNCHANGED <<slots, roles, enabled, testing, gone, crashed>>

Enable(e, p) == enabled' = [enabled EXCEPT ![Id[e]] = @ \cup {Id[p]}]
Disable(e, p) == enabled' = [enabled EXCEPT ![Id[e]] = @ \ {Id[p]}]

EnablePeer(e) ==
    \E p \in todo[e] :
        /\ Goes(e, "enable", "enable")
        /\ Enable(e, p)
        /\ todo' = [todo EXCEPT ![e] = @ \ {p}]
        /\ UNCHANGED <<slots, roles, testing, gone, crashed, listed>>

(* Join: DisposeJoin of the channel manager.                               *)
Join(e) ==
    /\ \/ Goes(e, "enable", "copy") /\ todo[e] = {}
       \/ Goes(e, "join", "copy")
    /\ roles' = roles \cup {e}
    /\ UNCHANGED <<slots, enabled, todo, testing, gone, crashed, listed>>

(* Shutdown; an endpoint of another process only sends its change.         *)
RemoveChangeListener(e) ==
    /\ e \in MayLeave
    /\ Goes(e, "in", "leave")
    /\ slots' = slots \ {e}
    /\ UNCHANGED <<roles, enabled, todo, testing, gone, crashed, listed>>

Leave(e) ==
    /\ Goes(e, "leave", "copy leave")
    /\ roles' = roles \ {e}
    /\ UNCHANGED <<slots, enabled, todo, testing, gone, crashed, listed>>
-----------------------------------------------------------------------------
(* Notify of e's change: a copy of the slots, each of them tested and then *)
(* called by the thread that made the change.                              *)
CopySlots(e) ==
    /\ \/ Goes(e, "copy", "call")
       \/ Goes(e, "copy leave", "call leave")
    /\ todo' = [todo EXCEPT ![e] = slots]
    /\ UNCHANGED <<slots, roles, enabled, testing, gone, crashed, listed>>

TestSlot(e) ==
    /\ ~crashed
    /\ pc[e] \in {"call", "call leave"}
    /\ testing[e] = {}
    /\ \E l \in todo[e] :
          /\ todo' = [todo EXCEPT ![e] = @ \ {l}]
          /\ testing' = [testing EXCEPT ![e] = {l} \cap slots]
    /\ UNCHANGED <<slots, roles, enabled, pc, gone, crashed, listed>>

(* OnChannelChange of l: a change of its own role is not its business; the *)
(* others reach for its transmitter or receiver.                           *)
OnChannelChange(e) ==
    \E l \in testing[e] :
        /\ ~crashed
        /\ testing' = [testing EXCEPT ![e] = {}]
        /\ crashed' = (l \in gone /\ e \in Opposites(l))
        /\ IF e \notin Opposites(l) \/ crashed' THEN UNCHANGED enabled
           ELSE IF pc[e] = "call" THEN Enable(l, e)
           ELSE Disable(l, e)
        /\ UNCHANGED <<slots, roles, pc, todo, gone, listed>>

JoinReturns(e) ==
    /\ Goes(e, "call", "in")
    /\ todo[e] = {} /\ testing[e] = {}
    /\ UNCHANGED <<slots, roles, enabled, todo, testing, gone, crashed, listed>>

(* The end of Shutdown: receiver_ or transmitter_ is cleared.              *)
LeaveReturns(e) ==
    /\ Goes(e, "call leave", "out")
    /\ todo[e] = {} /\ testing[e] = {}
    /\ gone' = gone \cup ({e} \cap Local)
    /\ UNCHANGED <<slots, roles, enabled, todo, testing, crashed, listed>>

(* The steps of Init and of a Shutdown that has begun.                     *)
Proceed(e) ==
    \/ AddChangeListener(e) \/ GetPeers(e) \/ EnablePeer(e) \/ Join(e) \/ Leave(e)
    \/ CopySlots(e) \/ TestSlot(e) \/ OnChannelChange(e)
    \/ JoinReturns(e) \/ LeaveReturns(e)

Next == \E e \in Endpoints : Proceed(e) \/ RemoveChangeListener(e)

Spec == Init /\ [][Next]_vars
FairSpec == Spec /\ \A e \in Endpoints : WF_vars(Proceed(e))
-----------------------------------------------------------------------------
In(e) == pc[e] = "in"

(* Once a writer and a reader have both joined, each that is in this       *)
(* process has the other enabled, in whatever order they came.             *)
Connected ==
    \A w \in Writers, r \in Readers : In(w) /\ In(r) =>
        /\ w \in Local => Id[r] \in enabled[Id[w]]
        /\ r \in Local => Id[w] \in enabled[Id[r]]

(* A peer that has left stays enabled only in an endpoint that found it    *)
(* when it joined, never in one that was told of it.                       *)
GhostsWereListed ==
    \A e \in Local : In(e) =>
        \A p \in Opposites(e) : pc[p] = "out" /\ Id[p] \in enabled[Id[e]] =>
            Id[p] \in listed[e]

Enabled(e, p) == e \in Local => Id[p] \in enabled[Id[e]]

(* A writer and a reader that never shut down come to have each other      *)
(* enabled, for good.                                                      *)
Meet ==
    \A w \in Writers \ MayLeave, r \in Readers \ MayLeave :
        <>[](crashed \/ (Enabled(w, r) /\ Enabled(r, w)))
=============================================================================
