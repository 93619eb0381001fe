----------------------------- MODULE Dispatcher -----------------------------
(***************************************************************************)
(* pkg/dispatcher/dispatcher.go: every goroutine that calls Dispatch (the  *)
(* two informers and the metric poller of operator.go), the mutex it       *)
(* takes, the map from keys to buffered channels, one worker goroutine per *)
(* channel, and the stop channel.  A Dispatch call is as many steps as it  *)
(* has shared reads and writes, so that calls, workers and the stop        *)
(* interleave as goroutines do.                                            *)
(*                                                                         *)
(* d.stopped is written by watchStopChannel and read by Dispatch without   *)
(* synchronisation.  A late visibility of the write is the same as a late  *)
(* WatchStopChannel step, so the race adds no behaviour of its own.        *)
(***************************************************************************)
EXTENDS Naturals, Sequences

CONSTANTS
    Callers,      \* goroutines that call Dispatch
    Keys,         \* event keys: "namespace.name" of the entity
    Chans,        \* identities of the channels `make' can return
    None,         \* no event, no channel, no lock holder
    BufferSize,   \* clusterEventBufferSize (100 in the code)
    MaxCalls,     \* bound: Dispatch calls per caller
    Hanging       \* keys whose handler is not assumed to return

ASSUME SizesAssumption == BufferSize \in Nat \ {0} /\ MaxCalls \in Nat
ASSUME HangingAssumption == Hanging \subseteq Keys

(* dispatcher.Event; (caller, n) identifies the Dispatch call it came from. *)
Event == [caller : Callers, n : 1..MaxCalls, key : Keys]

ASSUME NoneAssumption ==
    None \notin Callers /\ None \notin Chans /\ None \notin Event

VARIABLES
    pc,         \* [Callers -> Steps]: where in Dispatch the caller is
    ev,         \* [Callers -> Event or None]: the argument e
    ch,         \* [Callers -> Chans or None]: local eventProcessingChannel
    calls,      \* [Callers -> Nat]: Dispatch calls made so far
    lock,       \* holder of dispatchLock
    channels,   \* [Keys -> Chans or None]: eventProcessingChannels
    buf,        \* [Chans -> Seq(Event)]: buffered events of a channel
    worker,     \* [Chans -> WorkerStates]: the goroutine running start
    handling,   \* [Chans -> Event or None]: argument of the running handler
    closed,     \* stopCh has been closed
    stopped,    \* d.stopped
    accepted,   \* history, [Keys -> Seq(Event)]: sent to a channel
    begun       \* history, [Keys -> Seq(Event)]: passed to the handler

callerVars == <<pc, ev, ch, calls>>
workerVars == <<worker, handling, begun>>
vars == <<pc, ev, ch, calls, lock, channels, buf, worker, handling, closed,
          stopped, accepted, begun>>

Steps == {"idle", "check", "lock", "lookup", "create", "send", "unlock"}
WorkerStates == {"none", "idle", "busy", "returned"}

(* dispatcher.New *)
Init ==
    /\ pc = [c \in Callers |-> "idle"]
    /\ ev = [c \in Callers |-> None]
    /\ ch = [c \in Callers |-> None]
    /\ calls = [c \in Callers |-> 0]
    /\ lock = None
    /\ channels = [k \in Keys |-> None]
    /\ buf = [d \in Chans |-> <<>>]
    /\ worker = [d \in Chans |-> "none"]
    /\ handling = [d \in Chans |-> None]
    /\ closed = FALSE
    /\ stopped = FALSE
    /\ accepted = [k \in Keys |-> <<>>]
    /\ begun = [k \in Keys |-> <<>>]

-----------------------------------------------------------------------------
(* Dispatch, step by step. *)

Goto(c, s) == pc' = [pc EXCEPT ![c] = s]

(* An informer callback or the metric poller calls Dispatch. *)
Call(c, k) ==
    /\ pc[c] = "idle"
    /\ calls[c] < MaxCalls
    /\ calls' = [calls EXCEPT ![c] = @ + 1]
    /\ ev' = [ev EXCEPT ![c] = [caller |-> c, n |-> calls[c] + 1, key |-> k]]
    /\ Goto(c, "check")
    /\ UNCHANGED <<ch, lock, channels, buf, closed, stopped, accepted, workerVars>>

(* The unlocked read of d.stopped: carry on ... *)
CheckStopped(c) ==
    /\ pc[c] = "check"
    /\ ~stopped
    /\ Goto(c, "lock")
    /\ UNCHANGED <<ev, ch, calls, lock, channels, buf, closed, stopped,
                   accepted, workerVars>>

(* ... or warn and ignore the event. *)
Ignore(c) ==
    /\ pc[c] = "check"
    /\ stopped
    /\ ev' = [ev EXCEPT ![c] = None]
    /\ Goto(c, "idle")
    /\ UNCHANGED <<ch, calls, lock, channels, buf, closed, stopped, accepted,
                   workerVars>>

(* Mutant: the mutex is not taken. *)
LockNotTaken(c) ==
    /\ pc[c] = "lock"
    /\ lock' = c
    /\ Goto(c, "lookup")
    /\ UNCHANGED <<ev, ch, calls, channels, buf, closed, stopped, accepted,
                   workerVars>>

Lock(c) ==
    /\ pc[c] = "lock"
    /\ lock = None
    /\ lock' = c
    /\ Goto(c, "lookup")
    /\ UNCHANGED <<ev, ch, calls, channels, buf, closed, stopped, accepted,
                   workerVars>>

(* Mutant: the channels of the map are never looked up. *)
LookupForgets(c) ==
    /\ pc[c] = "lookup"
    /\ Goto(c, "create")
    /\ UNCHANGED <<ev, ch, calls, lock, channels, buf, closed, stopped,
                   accepted, workerVars>>

Lookup(c) ==
    /\ pc[c] = "lookup"
    /\ ch' = [ch EXCEPT ![c] = channels[ev[c].key]]
    /\ Goto(c, IF channels[ev[c].key] = None THEN "create" ELSE "send")
    /\ UNCHANGED <<ev, calls, lock, channels, buf, closed, stopped, accepted,
                   workerVars>>

(* `make' returns a channel that is not in use.  Channels that are not in   *)
(* use are alike, so that one of them stands for all.                      *)
Fresh == CHOOSE d \in Chans : worker[d] = "none"

(* A fresh channel, its entry in the map and its worker goroutine. *)
Create(c, d) ==
    /\ pc[c] = "create"
    /\ worker[d] = "none"
    /\ d = Fresh
    /\ ch' = [ch EXCEPT ![c] = d]
    /\ channels' = [channels EXCEPT ![ev[c].key] = d]
    /\ worker' = [worker EXCEPT ![d] = "idle"]
    /\ Goto(c, "send")
    /\ UNCHANGED <<ev, calls, lock, buf, handling, closed, stopped, accepted,
                   begun>>

(* Mutant: a select with a default case drops the event of a full channel. *)
SendOrDrop(c) ==
    /\ pc[c] = "send"
    /\ IF Len(buf[ch[c]]) < BufferSize
       THEN /\ buf' = [buf EXCEPT ![ch[c]] = Append(@, ev[c])]
            /\ accepted' = [accepted EXCEPT ![ev[c].key] = Append(@, ev[c])]
       ELSE UNCHANGED <<buf, accepted>>
    /\ Goto(c, "unlock")
    /\ UNCHANGED <<ev, ch, calls, lock, channels, closed, stopped, workerVars>>

(* The send blocks while the buffer is full, with dispatchLock held. *)
Send(c) ==
    /\ pc[c] = "send"
    /\ Len(buf[ch[c]]) < BufferSize
    /\ buf' = [buf EXCEPT ![ch[c]] = Append(@, ev[c])]
    /\ accepted' = [accepted EXCEPT ![ev[c].key] = Append(@, ev[c])]
    /\ Goto(c, "unlock")
    /\ UNCHANGED <<ev, ch, calls, lock, channels, closed, stopped, workerVars>>

(* Mutant: the deferred Unlock is missing. *)
UnlockMissing(c) ==
    /\ pc[c] = "unlock"
    /\ ev' = [ev EXCEPT ![c] = None]
    /\ ch' = [ch EXCEPT ![c] = None]
    /\ Goto(c, "idle")
    /\ UNCHANGED <<calls, lock, channels, buf, closed, stopped, accepted,
                   workerVars>>

(* The deferred Unlock, and the return. *)
Unlock(c) ==
    /\ pc[c] = "unlock"
    /\ lock' = None
    /\ ev' = [ev EXCEPT ![c] = None]
    /\ ch' = [ch EXCEPT ![c] = None]
    /\ Goto(c, "idle")
    /\ UNCHANGED <<calls, channels, buf, closed, stopped, accepted, workerVars>>

-----------------------------------------------------------------------------
(* start: the worker of a channel.  When an event is buffered and stopCh is *)
(* closed, both cases of the select are ready and Go chooses either.        *)

Take(d) ==
    /\ worker[d] = "idle"
    /\ buf[d] # <<>>
    /\ buf' = [buf EXCEPT ![d] = Tail(@)]
    /\ handling' = [handling EXCEPT ![d] = Head(buf[d])]
    /\ begun' = [begun EXCEPT ![Head(buf[d]).key] = Append(@, Head(buf[d]))]
    /\ worker' = [worker EXCEPT ![d] = "busy"]
    /\ UNCHANGED <<callerVars, lock, channels, closed, stopped, accepted>>

(* The handler function returns. *)
Finish(d) ==
    /\ worker[d] = "busy"
    /\ handling' = [handling EXCEPT ![d] = None]
    /\ worker' = [worker EXCEPT ![d] = "idle"]
    /\ UNCHANGED <<callerVars, lock, channels, buf, closed, stopped, accepted,
                   begun>>

(* Mutant: `break' for `return' leaves the select, not the loop. *)
ReturnLeavesSelectOnly(d) ==
    /\ worker[d] = "idle"
    /\ closed
    /\ UNCHANGED vars

(* Mutant: stopping closes the event channel, whose zero value is handled. *)
ReturnHandlesZeroEvent(d) ==
    /\ worker[d] = "idle"
    /\ closed
    /\ handling' = [handling EXCEPT ![d] = [caller |-> None, n |-> 0, key |-> None]]
    /\ worker' = [worker EXCEPT ![d] = "busy"]
    /\ UNCHANGED <<callerVars, lock, channels, buf, closed, stopped, accepted,
                   begun>>

Return(d) ==
    /\ worker[d] = "idle"
    /\ closed
    /\ worker' = [worker EXCEPT ![d] = "returned"]
    /\ UNCHANGED <<callerVars, lock, channels, buf, handling, closed, stopped,
                   accepted, begun>>

-----------------------------------------------------------------------------
(* close(stopCh) by the signal handler. *)
CloseStopCh ==
    /\ ~closed
    /\ closed' = TRUE
    /\ UNCHANGED <<callerVars, lock, channels, buf, stopped, accepted, workerVars>>

WatchStopChannel ==
    /\ closed
    /\ ~stopped
    /\ stopped' = TRUE
    /\ UNCHANGED <<callerVars, lock, channels, buf, closed, accepted, workerVars>>

Dispatch(c) ==
    \/ \E k \in Keys : Call(c, k)
    \/ CheckStopped(c)
    \/ Ignore(c)
    \/ Lock(c)
    \/ Lookup(c)
    \/ \E d \in Chans : Create(c, d)
    \/ Send(c)
    \/ Unlock(c)

Start(d) == Take(d) \/ Finish(d) \/ Return(d)

Next ==
    \/ \E c \in Callers : Dispatch(c)
    \/ \E d \in Chans : Start(d)
    \/ CloseStopCh
    \/ WatchStopChannel

Spec == Init /\ [][Next]_vars

(***************************************************************************)
(* Fairness.  Goroutines that can run do run (weak fairness); sync.Mutex   *)
(* hands itself to a waiter that has waited for a millisecond, and select  *)
(* chooses at random among ready cases (strong fairness for Lock and       *)
(* Return).  Nothing makes anybody call Dispatch or close the channel, and *)
(* the handler of a Hanging key may never return: WaitUntilRackChangeApplied *)
(* polls for ever.                                                         *)
(***************************************************************************)
Fairness ==
    /\ \A c \in Callers :
        /\ WF_vars(CheckStopped(c) \/ Ignore(c) \/ Lookup(c) \/ Send(c) \/ Unlock(c))
        /\ WF_vars(\E d \in Chans : Create(c, d))
        /\ SF_vars(Lock(c))
    /\ \A d \in Chans :
        /\ WF_vars(Take(d))
        /\ WF_vars(Finish(d) /\ handling[d].key \notin Hanging)
        /\ SF_vars(Return(d))
    /\ WF_vars(WatchStopChannel)

FairSpec == Spec /\ Fairness

-----------------------------------------------------------------------------
(* Properties. *)

TypeOK ==
    /\ pc \in [Callers -> Steps]
    /\ ev \in [Callers -> Event \cup {None}]
    /\ ch \in [Callers -> Chans \cup {None}]
    /\ calls \in [Callers -> 0..MaxCalls]
    /\ lock \in Callers \cup {None}
    /\ channels \in [Keys -> Chans \cup {None}]
    /\ buf \in [Chans -> Seq(Event)]
    /\ worker \in [Chans -> WorkerStates]
    /\ handling \in [Chans -> Event \cup {None}]
    /\ closed \in BOOLEAN
    /\ stopped \in BOOLEAN
    /\ accepted \in [Keys -> Seq(Event)]
    /\ begun \in [Keys -> Seq(Event)]

(* No entity is changed by two handlers at once, although handlers of      *)
(* different keys run concurrently and two callers may meet the same       *)
(* unknown key at the same moment: "a cluster deletion cannot be initiated *)
(* while the cluster is still being created" (dispatcher.go:19-20).        *)
OneHandlerPerKey ==
    \A d1, d2 \in Chans :
        /\ worker[d1] = "busy"
        /\ worker[d2] = "busy"
        /\ handling[d1].key = handling[d2].key
        => d1 = d2

(* What the channel of a key still holds. *)
Buffered(k) == IF channels[k] = None THEN <<>> ELSE buf[channels[k]]

(* The events of a key are handed to the handler in the order in which     *)
(* they were accepted, none lost, none twice: what was begun, followed by  *)
(* what is buffered in the channel of the key, is what was accepted.       *)
AcceptedInOrder == \A k \in Keys : accepted[k] = begun[k] \o Buffered(k)

(* An informer delivers the events of an entity in order and relies on     *)
(* Dispatch returning only once the event is queued: of two events of one  *)
(* caller and key, the one dispatched first is handled first.              *)
CallerOrderKept ==
    \A k \in Keys : \A i, j \in DOMAIN begun[k] :
        i < j /\ begun[k][i].caller = begun[k][j].caller
            => begun[k][i].n < begun[k][j].n

(* The detailed dispatcher implements the keyed queues of KeyedQueues.     *)
callingBar ==
    [c \in Callers |-> IF pc[c] \in {"idle", "unlock"} THEN None ELSE ev[c]]
pendingBar == [k \in Keys |-> Buffered(k)]
activeBar ==
    [k \in Keys |-> IF channels[k] = None THEN None ELSE handling[channels[k]]]

KQ == INSTANCE KeyedQueues WITH
        Events <- Event, calling <- callingBar, pending <- pendingBar,
        active <- activeBar

ImplementsKeyedQueues == KQ!Spec

(* A caller waits, with dispatchLock held, for room in the channel of a    *)
(* key whose handler may never return.                                     *)
Blocked ==
    \E c \in Callers :
        /\ pc[c] = "send"
        /\ ev[c].key \in Hanging
        /\ Len(buf[ch[c]]) = BufferSize

(* A rollout that is waited for without end (PollImmediateInfinite) "won't *)
(* block any other operations on other clusters" (accessor.go:132-133):    *)
(* every event of a key whose handler returns reaches its handler, beside  *)
(* keys whose handler hangs, unless the dispatcher is stopped.  The one    *)
(* exception goes against that comment: once the channel of a hanging key  *)
(* is full, the next event for that key blocks Dispatch for all keys, and  *)
(* for ever if the handler never returns (dispatcher.go:52-61).            *)
EveryEventHandled ==
    \/ <>[]Blocked
    \/ \A c \in Callers, n \in 1..MaxCalls, k \in Keys \ Hanging :
          LET e == [caller |-> c, n |-> n, key |-> k]
          IN  ev[c] = e ~> (closed \/ \E i \in DOMAIN begun[k] : begun[k][i] = e)

(* Once the stop channel is closed the dispatcher winds down for good:     *)
(* every worker whose handler returns leaves its loop, even with events    *)
(* still buffered, and the Dispatch calls that were under way do not leave *)
(* a new one running.                                                      *)
WorkersReturn ==
    closed ~> [](\A d \in Chans :
                     \/ worker[d] \in {"none", "returned"}
                     \/ worker[d] = "busy" /\ handling[d].key \in Hanging)

(* What the comment on New promises: "once stopCh is closed, no more       *)
(* events would be handled" (dispatcher.go:26-27).  The code does not keep *)
(* it: a worker that finds both an event and the closed channel may take   *)
(* the event (dispatcher.go:79-85), and a Dispatch call that has passed    *)
(* its check of `stopped' still starts a worker.                           *)
NoneHandledAfterStop == [][closed => UNCHANGED begun]_vars
=============================================================================
