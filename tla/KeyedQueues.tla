---------------------------- MODULE KeyedQueues ----------------------------
(***************************************************************************)
(* What the operator's event dispatcher promises to the informers and the  *)
(* metric poller that call it, and to the handler it calls (the comment on *)
(* the Dispatcher interface, dispatcher.go:16-20): the events of one key   *)
(* are handled one at a time and in the order in which their Dispatch      *)
(* calls took effect, whatever happens to other keys.  Locks, channels,    *)
(* channel creation and worker goroutines do not appear here.              *)
(*                                                                         *)
(* This is what the code keeps, not all that it announces: the comment on  *)
(* New adds "once stopCh is closed, no more events would be handled"       *)
(* (dispatcher.go:26-27), which is not so.  NoneHandledAfterStop of        *)
(* Dispatcher states it, and the run dispatcher_stop refutes it.           *)
(***************************************************************************)
EXTENDS Naturals, Sequences

CONSTANTS
    Callers,   \* goroutines that call Dispatch
    Keys,      \* entities the events apply to ("namespace.name")
    Events,    \* records with a field key \in Keys
    None       \* no event

VARIABLES
    calling,   \* [Callers -> Events \cup {None}]: Dispatch calls under way
    pending,   \* [Keys -> Seq(Events)]: accepted and not yet handed over
    active,    \* [Keys -> Events \cup {None}]: the event its handler works on
    closed     \* has the stop channel been closed?

vars == <<calling, pending, active, closed>>

Init ==
    /\ calling = [c \in Callers |-> None]
    /\ pending = [k \in Keys |-> <<>>]
    /\ active = [k \in Keys |-> None]
    /\ closed = FALSE

(* A caller enters Dispatch with an event. *)
Call(c, e) ==
    /\ calling[c] = None
    /\ calling' = [calling EXCEPT ![c] = e]
    /\ UNCHANGED <<pending, active, closed>>

(* The call takes effect: the event joins the queue of its key. *)
Accept(c) ==
    /\ calling[c] # None
    /\ pending' = [pending EXCEPT ![calling[c].key] = Append(@, calling[c])]
    /\ calling' = [calling EXCEPT ![c] = None]
    /\ UNCHANGED <<active, closed>>

(* An event may be ignored, but only because the dispatcher is stopping. *)
Ignore(c) ==
    /\ closed
    /\ calling[c] # None
    /\ calling' = [calling EXCEPT ![c] = None]
    /\ UNCHANGED <<pending, active, closed>>

(* The handler is invoked with the oldest event of an idle key, after the  *)
(* stop as well: the select of the worker chooses between the two.         *)
Begin(k) ==
    /\ active[k] = None
    /\ pending[k] # <<>>
    /\ active' = [active EXCEPT ![k] = Head(pending[k])]
    /\ pending' = [pending EXCEPT ![k] = Tail(@)]
    /\ UNCHANGED <<calling, closed>>

Finish(k) ==
    /\ active[k] # None
    /\ active' = [active EXCEPT ![k] = None]
    /\ UNCHANGED <<calling, pending, closed>>

Stop ==
    /\ closed' = TRUE
    /\ UNCHANGED <<calling, pending, active>>

Next ==
    \/ \E c \in Callers : \/ \E e \in Events : Call(c, e)
                          \/ Accept(c)
                          \/ Ignore(c)
    \/ \E k \in Keys : Begin(k) \/ Finish(k)
    \/ Stop

Spec == Init /\ [][Next]_vars
=============================================================================
