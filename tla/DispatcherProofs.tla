-------------------------- MODULE DispatcherProofs --------------------------
(***************************************************************************)
(* Theorems about Dispatcher, for any number of callers, keys and channels *)
(* and any buffer size.  The inductive invariant Inv says who may hold     *)
(* dispatchLock at each step of Dispatch, that the map from keys to        *)
(* channels is injective, and that an event is only ever found in the      *)
(* channel (or the handler) of its own key.                                *)
(***************************************************************************)
EXTENDS Dispatcher, SequenceTheorems, TLAPS

(* Only the holder of dispatchLock is between Lock and Unlock. *)
LockInv ==
    \A c \in Callers :
        pc[c] \in {"lookup", "create", "send", "unlock"} <=> lock = c

(* The local variables of a Dispatch call. *)
LocalsInv ==
    \A c \in Callers :
        /\ pc[c] = "idle" <=> ev[c] = None
        /\ ev[c] # None => ev[c].caller = c /\ ev[c].n = calls[c]
        /\ pc[c] = "create" => channels[ev[c].key] = None
        /\ pc[c] = "send" => ch[c] # None /\ ch[c] = channels[ev[c].key]

(* Every key has a channel of its own, with a worker. *)
MapInv ==
    \A k \in Keys :
        channels[k] # None =>
            /\ worker[channels[k]] # "none"
            /\ \A k2 \in Keys : channels[k2] = channels[k] => k2 = k

(* Events are only found in the channel of their key. *)
RoutingInv ==
    \A d \in Chans :
        /\ worker[d] = "none" => buf[d] = <<>>
        /\ worker[d] = "busy" <=> handling[d] # None
        /\ handling[d] # None => channels[handling[d].key] = d
        /\ \A i \in 1..Len(buf[d]) : channels[buf[d][i].key] = d

StopInv == stopped => closed

Inv == /\ TypeOK
       /\ LockInv
       /\ LocalsInv
       /\ MapInv
       /\ RoutingInv
       /\ StopInv

-----------------------------------------------------------------------------
(* Two facts about sequences. *)

(* Appending to a concatenation appends to its second part. *)
LEMMA ConcatAppend ==
    ASSUME NEW S, NEW s \in Seq(S), NEW t \in Seq(S), NEW e \in S
    PROVE  s \o Append(t, e) = Append(s \o t, e)
<1>1. Append(s \o t, e) \in Seq(S) /\ s \o Append(t, e) \in Seq(S)
  OBVIOUS
<1>2. Len(Append(s \o t, e)) = Len(s \o Append(t, e))
  OBVIOUS
<1>3. \A i \in 1..Len(Append(s \o t, e)) :
          Append(s \o t, e)[i] = (s \o Append(t, e))[i]
  OBVIOUS
<1> QED BY <1>1, <1>2, <1>3, SeqEqual

(* Moving the head of the second part to the end of the first one leaves   *)
(* a concatenation unchanged.                                              *)
LEMMA ConcatHeadTail ==
    ASSUME NEW S, NEW s \in Seq(S), NEW t \in Seq(S), t # <<>>
    PROVE  Append(s, Head(t)) \o Tail(t) = s \o t
<1>1. /\ Len(t) \in Nat /\ Len(t) > 0 /\ Len(s) \in Nat
      /\ Tail(t) \in Seq(S) /\ Head(t) \in S
  OBVIOUS
<1>2. Append(s, Head(t)) \o Tail(t) \in Seq(S) /\ s \o t \in Seq(S)
  BY <1>1
<1>3. Len(Append(s, Head(t)) \o Tail(t)) = Len(s \o t)
  BY <1>1
<1>4. \A i \in 1..Len(s \o t) :
          (Append(s, Head(t)) \o Tail(t))[i] = (s \o t)[i]
  BY <1>1
<1> QED BY <1>2, <1>3, <1>4, SeqEqual

-----------------------------------------------------------------------------
(* Every event that Call builds is an event. *)
LEMMA NewEvent ==
    ASSUME TypeOK, NEW c \in Callers, NEW k \in Keys, calls[c] < MaxCalls
    PROVE  /\ [caller |-> c, n |-> calls[c] + 1, key |-> k] \in Event
           /\ calls[c] + 1 \in 0..MaxCalls
BY SizesAssumption DEF TypeOK, Event

(* Type correctness is preserved by every step of the dispatcher. *)
LEMMA TypeStep ==
    ASSUME Inv, [Next]_vars
    PROVE  TypeOK'
<1> USE DEF Goto, callerVars, workerVars
<1>1. CASE UNCHANGED vars
  BY <1>1 DEF vars, Inv, TypeOK
<1>2. ASSUME NEW c \in Callers, NEW k \in Keys, Call(c, k)
      PROVE  TypeOK'
  BY <1>2, NewEvent DEF Inv, TypeOK, Call, Steps
<1>3. ASSUME NEW c \in Callers, CheckStopped(c)
      PROVE  TypeOK'
  BY <1>3 DEF Inv, TypeOK, CheckStopped, Steps
<1>4. ASSUME NEW c \in Callers, Ignore(c)
      PROVE  TypeOK'
  BY <1>4 DEF Inv, TypeOK, Ignore, Steps
<1>5. ASSUME NEW c \in Callers, Lock(c)
      PROVE  TypeOK'
  BY <1>5 DEF Inv, TypeOK, Lock, Steps
<1>6. ASSUME NEW c \in Callers, Lookup(c)
      PROVE  TypeOK'
  <2>1. ev[c] \in Event
    BY <1>6 DEF Inv, TypeOK, LocalsInv, Lookup
  <2>2. channels[ev[c].key] \in Chans \cup {None}
    BY <2>1 DEF Inv, TypeOK, Event
  <2> QED BY <1>6, <2>2 DEF Inv, TypeOK, Lookup, Steps
<1>7. ASSUME NEW c \in Callers, NEW d \in Chans, Create(c, d)
      PROVE  TypeOK'
  BY <1>7 DEF Inv, TypeOK, Create, Steps, WorkerStates
<1>8. ASSUME NEW c \in Callers, Send(c)
      PROVE  TypeOK'
  <2>1. ev[c] \in Event /\ ev[c].key \in Keys /\ ch[c] \in Chans
    BY <1>8 DEF Inv, TypeOK, LocalsInv, Send, Event
  <2>2. Append(buf[ch[c]], ev[c]) \in Seq(Event)
    BY <2>1 DEF Inv, TypeOK
  <2>3. Append(accepted[ev[c].key], ev[c]) \in Seq(Event)
    BY <2>1 DEF Inv, TypeOK
  <2> QED BY <1>8, <2>1, <2>2, <2>3 DEF Inv, TypeOK, Send, Steps
<1>9. ASSUME NEW c \in Callers, Unlock(c)
      PROVE  TypeOK'
  BY <1>9 DEF Inv, TypeOK, Unlock, Steps
<1>10. ASSUME NEW d \in Chans, Take(d)
       PROVE  TypeOK'
  <2>1. buf[d] \in Seq(Event) /\ buf[d] # <<>>
    BY <1>10 DEF Inv, TypeOK, Take
  <2>2. Head(buf[d]) \in Event /\ Tail(buf[d]) \in Seq(Event)
    BY <2>1, HeadTailProperties
  <2>3. Head(buf[d]).key \in Keys
    BY <2>2 DEF Event
  <2>4. Append(begun[Head(buf[d]).key], Head(buf[d])) \in Seq(Event)
    BY <2>2, <2>3 DEF Inv, TypeOK
  <2> QED BY <1>10, <2>2, <2>4 DEF Inv, TypeOK, Take, WorkerStates
<1>11. ASSUME NEW d \in Chans, Finish(d)
       PROVE  TypeOK'
  BY <1>11 DEF Inv, TypeOK, Finish, WorkerStates
<1>12. ASSUME NEW d \in Chans, Return(d)
       PROVE  TypeOK'
  BY <1>12 DEF Inv, TypeOK, Return, WorkerStates
<1>13. CASE CloseStopCh
  BY <1>13 DEF Inv, TypeOK, CloseStopCh
<1>14. CASE WatchStopChannel
  BY <1>14 DEF Inv, TypeOK, WatchStopChannel
<1> QED BY <1>1, <1>2, <1>3, <1>4, <1>5, <1>6, <1>7, <1>8, <1>9, <1>10,
           <1>11, <1>12, <1>13, <1>14 DEF Next, Dispatch, Start

-----------------------------------------------------------------------------
(* The inductive invariant holds initially ... *)
LEMMA InitInv == Init => Inv
<1> SUFFICES ASSUME Init PROVE Inv
  OBVIOUS
<1>1. TypeOK
  <2>1. <<>> \in Seq(Event) /\ 0 \in 0..MaxCalls
    BY SizesAssumption
  <2> QED BY <2>1 DEF Init, TypeOK, Steps, WorkerStates
<1>2. LockInv
  BY NoneAssumption DEF Init, LockInv
<1>3. LocalsInv
  BY DEF Init, LocalsInv
<1>4. MapInv
  BY DEF Init, MapInv
<1>5. RoutingInv
  BY DEF Init, RoutingInv
<1>6. StopInv
  BY DEF Init, StopInv
<1> QED BY <1>1, <1>2, <1>3, <1>4, <1>5, <1>6 DEF Inv

(* ... and is preserved by every step. *)
LEMMA StepInv == Inv /\ [Next]_vars => Inv'
<1> SUFFICES ASSUME Inv, [Next]_vars PROVE Inv'
  OBVIOUS
<1>0. TypeOK'
  BY TypeStep
<1> USE DEF Goto, callerVars, workerVars
<1>1. CASE UNCHANGED vars
  BY <1>0, <1>1 DEF vars, Inv, LockInv, LocalsInv, MapInv, RoutingInv, StopInv
<1>2. ASSUME NEW c \in Callers, NEW k \in Keys, Call(c, k)
      PROVE  Inv'
  <2>1. LockInv'
    BY <1>2 DEF Inv, TypeOK, LockInv, Call
  <2>2. ev'[c] = [caller |-> c, n |-> calls[c] + 1, key |-> k] /\ ev'[c] # None
    BY <1>2, NewEvent, NoneAssumption DEF Inv, TypeOK, Call
  <2>3. LocalsInv'
    BY <1>2, <2>2 DEF Inv, TypeOK, LocalsInv, Call
  <2>4. MapInv' /\ RoutingInv' /\ StopInv'
    BY <1>2 DEF Inv, MapInv, RoutingInv, StopInv, Call
  <2> QED BY <1>0, <2>1, <2>3, <2>4 DEF Inv
<1>3. ASSUME NEW c \in Callers, CheckStopped(c)
      PROVE  Inv'
  <2>1. LockInv' /\ LocalsInv'
    BY <1>3 DEF Inv, TypeOK, LockInv, LocalsInv, CheckStopped
  <2>2. MapInv' /\ RoutingInv' /\ StopInv'
    BY <1>3 DEF Inv, MapInv, RoutingInv, StopInv, CheckStopped
  <2> QED BY <1>0, <2>1, <2>2 DEF Inv
<1>4. ASSUME NEW c \in Callers, Ignore(c)
      PROVE  Inv'
  <2>1. LockInv' /\ LocalsInv'
    BY <1>4 DEF Inv, TypeOK, LockInv, LocalsInv, Ignore
  <2>2. MapInv' /\ RoutingInv' /\ StopInv'
    BY <1>4 DEF Inv, MapInv, RoutingInv, StopInv, Ignore
  <2> QED BY <1>0, <2>1, <2>2 DEF Inv
<1>5. ASSUME NEW c \in Callers, Lock(c)
      PROVE  Inv'
  <2>1. LockInv'
    BY <1>5, NoneAssumption DEF Inv, TypeOK, LockInv, Lock
  <2>2. LocalsInv'
    BY <1>5 DEF Inv, TypeOK, LocalsInv, Lock
  <2>3. MapInv' /\ RoutingInv' /\ StopInv'
    BY <1>5 DEF Inv, MapInv, RoutingInv, StopInv, Lock
  <2> QED BY <1>0, <2>1, <2>2, <2>3 DEF Inv
<1>6. ASSUME NEW c \in Callers, Lookup(c)
      PROVE  Inv'
  <2>1. LockInv'
    BY <1>6 DEF Inv, TypeOK, LockInv, Lookup
  <2>2. LocalsInv'
    BY <1>6 DEF Inv, TypeOK, LocalsInv, Lookup
  <2>3. MapInv' /\ RoutingInv' /\ StopInv'
    BY <1>6 DEF Inv, MapInv, RoutingInv, StopInv, Lookup
  <2> QED BY <1>0, <2>1, <2>2, <2>3 DEF Inv
<1>7. ASSUME NEW c \in Callers, NEW d \in Chans, Create(c, d)
      PROVE  Inv'
  <2>1. LockInv'
    BY <1>7 DEF Inv, TypeOK, LockInv, Create
  <2>2. ev[c] \in Event /\ ev[c].key \in Keys
    BY <1>7 DEF Inv, TypeOK, LocalsInv, Create, Event
  <2>3. channels[ev[c].key] = None /\ d # None
    BY <1>7, NoneAssumption DEF Inv, LocalsInv, Create
  <2>4. ASSUME NEW c2 \in Callers, c2 # c
        PROVE  pc[c2] \notin {"create", "send"}
    BY <1>7, <2>4 DEF Inv, LockInv, Create
  <2>5. LocalsInv'
    BY <1>7, <2>2, <2>3, <2>4 DEF Inv, TypeOK, LocalsInv, Create
  <2>6. \A k \in Keys : channels[k] # d
    BY <1>7, <2>3 DEF Inv, MapInv, Create
  <2>7. MapInv'
    BY <1>7, <2>2, <2>3, <2>6 DEF Inv, TypeOK, MapInv, Create
  <2>8. RoutingInv'
    <3>1. ASSUME NEW d2 \in Chans, NEW i \in 1..Len(buf[d2])
          PROVE  channels'[buf[d2][i].key] = d2
      <4>1. buf[d2][i] \in Event /\ buf[d2][i].key \in Keys
        <5>1. buf[d2] \in Seq(Event)
          BY DEF Inv, TypeOK
        <5>2. buf[d2][i] \in Event
          BY <5>1, ElementOfSeq
        <5> QED BY <5>2 DEF Event
      <4> QED BY <1>7, <2>3, <3>1, <4>1, NoneAssumption DEF Inv, TypeOK, RoutingInv, Create
    <3>2. ASSUME NEW d2 \in Chans, handling[d2] # None
          PROVE  channels'[handling[d2].key] = d2
      <4>1. handling[d2] \in Event /\ handling[d2].key \in Keys
        BY <3>2 DEF Inv, TypeOK, Event
      <4> QED BY <1>7, <2>3, <3>2, <4>1, NoneAssumption DEF Inv, TypeOK, RoutingInv, Create
    <3>3. \A d2 \in Chans : /\ worker'[d2] = "none" => buf'[d2] = <<>>
                            /\ worker'[d2] = "busy" <=> handling'[d2] # None
      BY <1>7 DEF Inv, TypeOK, RoutingInv, Create
    <3>4. UNCHANGED <<buf, handling>>
      BY <1>7 DEF Create
    <3> QED BY <3>1, <3>2, <3>3, <3>4 DEF RoutingInv
  <2>9. StopInv'
    BY <1>7 DEF Inv, StopInv, Create
  <2> QED BY <1>0, <2>1, <2>5, <2>7, <2>8, <2>9 DEF Inv
<1>8. ASSUME NEW c \in Callers, Send(c)
      PROVE  Inv'
  <2>1. LockInv' /\ LocalsInv'
    BY <1>8 DEF Inv, TypeOK, LockInv, LocalsInv, Send
  <2>2. MapInv' /\ StopInv'
    BY <1>8 DEF Inv, MapInv, StopInv, Send
  <2>3. /\ ev[c] \in Event /\ ev[c].key \in Keys /\ ch[c] \in Chans
        /\ ch[c] = channels[ev[c].key]
    BY <1>8 DEF Inv, TypeOK, LocalsInv, Send, Event
  <2>4. worker[ch[c]] # "none"
    BY <2>3, NoneAssumption DEF Inv, MapInv
  <2>5. ASSUME NEW d \in Chans, NEW i \in 1..Len(buf'[d])
        PROVE  channels[buf'[d][i].key] = d
    <3>1. CASE d = ch[c]
      <4>1. buf'[d] = Append(buf[d], ev[c]) /\ buf[d] \in Seq(Event)
        BY <1>8, <2>3, <3>1 DEF Inv, TypeOK, Send
      <4>2. CASE i = Len(buf[d]) + 1
        BY <2>3, <3>1, <4>1, <4>2
      <4>3. CASE i \in 1..Len(buf[d])
        BY <4>1, <4>3 DEF Inv, RoutingInv
      <4> QED BY <2>5, <4>1, <4>2, <4>3
    <3>2. CASE d # ch[c]
      BY <1>8, <2>5, <3>2 DEF Inv, TypeOK, RoutingInv, Send
    <3> QED BY <3>1, <3>2
  <2>6. RoutingInv'
    BY <1>8, <2>3, <2>4, <2>5 DEF Inv, TypeOK, RoutingInv, Send
  <2> QED BY <1>0, <2>1, <2>2, <2>6 DEF Inv
<1>9. ASSUME NEW c \in Callers, Unlock(c)
      PROVE  Inv'
  <2>1. LockInv'
    BY <1>9, NoneAssumption DEF Inv, TypeOK, LockInv, Unlock
  <2>2. LocalsInv'
    BY <1>9 DEF Inv, TypeOK, LocalsInv, Unlock
  <2>3. MapInv' /\ RoutingInv' /\ StopInv'
    BY <1>9 DEF Inv, MapInv, RoutingInv, StopInv, Unlock
  <2> QED BY <1>0, <2>1, <2>2, <2>3 DEF Inv
<1>10. ASSUME NEW d \in Chans, Take(d)
       PROVE  Inv'
  <2>1. LockInv' /\ LocalsInv' /\ StopInv'
    BY <1>10 DEF Inv, LockInv, LocalsInv, StopInv, Take
  <2>2. MapInv'
    BY <1>10 DEF Inv, TypeOK, MapInv, Take
  <2>3. buf[d] \in Seq(Event) /\ buf[d] # <<>>
    BY <1>10 DEF Inv, TypeOK, Take
  <2>4. /\ Head(buf[d]) \in Event /\ Len(buf[d]) \in Nat /\ Len(buf[d]) > 0
        /\ Len(Tail(buf[d])) = Len(buf[d]) - 1
        /\ Head(buf[d]) = buf[d][1]
        /\ \A i \in 1..Len(Tail(buf[d])) : Tail(buf[d])[i] = buf[d][i + 1]
    BY <2>3, HeadTailProperties, EmptySeq
  <2>5. channels[Head(buf[d]).key] = d
    BY <2>4 DEF Inv, RoutingInv
  <2>6. ASSUME NEW d2 \in Chans, NEW i \in 1..Len(buf'[d2])
        PROVE  channels[buf'[d2][i].key] = d2
    <3>1. CASE d2 = d
      <4>1. buf'[d] = Tail(buf[d])
        BY <1>10 DEF Inv, TypeOK, Take
      <4>2. i + 1 \in 1..Len(buf[d]) /\ buf'[d][i] = buf[d][i + 1]
        BY <2>4, <2>6, <3>1, <4>1
      <4> QED BY <3>1, <4>2 DEF Inv, RoutingInv
    <3>2. CASE d2 # d
      BY <1>10, <2>6, <3>2 DEF Inv, TypeOK, RoutingInv, Take
    <3> QED BY <3>1, <3>2
  <2>7. /\ buf' = [buf EXCEPT ![d] = Tail(buf[d])]
        /\ handling' = [handling EXCEPT ![d] = Head(buf[d])]
        /\ worker' = [worker EXCEPT ![d] = "busy"]
        /\ channels' = channels
        /\ Head(buf[d]) # None
    BY <1>10, <2>4, NoneAssumption DEF Take
  <2>8. ASSUME NEW d2 \in Chans
        PROVE  /\ worker'[d2] = "none" => buf'[d2] = <<>>
               /\ worker'[d2] = "busy" <=> handling'[d2] # None
               /\ handling'[d2] # None => channels'[handling'[d2].key] = d2
    <3>1. CASE d2 = d
      <4>1. worker'[d] = "busy" /\ handling'[d] = Head(buf[d])
        BY <2>7 DEF Inv, TypeOK
      <4> QED BY <2>5, <2>7, <3>1, <4>1
    <3>2. CASE d2 # d
      BY <2>7, <3>2 DEF Inv, TypeOK, RoutingInv
    <3> QED BY <3>1, <3>2
  <2>9. RoutingInv'
    BY <2>6, <2>7, <2>8 DEF RoutingInv
  <2> QED BY <1>0, <2>1, <2>2, <2>9 DEF Inv
<1>11. ASSUME NEW d \in Chans, Finish(d)
       PROVE  Inv'
  <2>1. LockInv' /\ LocalsInv' /\ StopInv'
    BY <1>11 DEF Inv, LockInv, LocalsInv, StopInv, Finish
  <2>2. MapInv' /\ RoutingInv'
    BY <1>11 DEF Inv, TypeOK, MapInv, RoutingInv, Finish
  <2> QED BY <1>0, <2>1, <2>2 DEF Inv
<1>12. ASSUME NEW d \in Chans, Return(d)
       PROVE  Inv'
  <2>1. LockInv' /\ LocalsInv' /\ StopInv'
    BY <1>12 DEF Inv, LockInv, LocalsInv, StopInv, Return
  <2>2. MapInv' /\ RoutingInv'
    BY <1>12 DEF Inv, TypeOK, MapInv, RoutingInv, Return
  <2> QED BY <1>0, <2>1, <2>2 DEF Inv
<1>13. CASE CloseStopCh
  BY <1>0, <1>13 DEF Inv, LockInv, LocalsInv, MapInv, RoutingInv, StopInv, CloseStopCh
<1>14. CASE WatchStopChannel
  BY <1>0, <1>14 DEF Inv, LockInv, LocalsInv, MapInv, RoutingInv, StopInv,
                     WatchStopChannel
<1> QED BY <1>1, <1>2, <1>3, <1>4, <1>5, <1>6, <1>7, <1>8, <1>9, <1>10,
           <1>11, <1>12, <1>13, <1>14 DEF Next, Dispatch, Start

(* Inv is an invariant of the dispatcher. *)
THEOREM Invariant == Spec => []Inv
BY InitInv, StepInv, PTL DEF Spec

(* The variables of the dispatcher keep their types. *)
THEOREM TypeCorrect == Spec => []TypeOK
<1>1. Inv => TypeOK
  BY DEF Inv
<1> QED BY <1>1, Invariant, PTL

(* At no time do two handlers work on the same entity, for any number of   *)
(* callers, keys and channels: the guarantee of dispatcher.go:16-20.       *)
THEOREM MutualExclusion == Spec => []OneHandlerPerKey
<1>1. Inv => OneHandlerPerKey
  <2> SUFFICES ASSUME Inv, NEW d1 \in Chans, NEW d2 \in Chans,
                      worker[d1] = "busy", worker[d2] = "busy",
                      handling[d1].key = handling[d2].key
               PROVE  d1 = d2
    BY DEF OneHandlerPerKey
  <2>1. channels[handling[d1].key] = d1 /\ channels[handling[d2].key] = d2
    BY DEF Inv, RoutingInv
  <2> QED BY <2>1
<1> QED BY <1>1, Invariant, PTL

-----------------------------------------------------------------------------
(* First in, first out. *)

(* A step that moves neither an accepted event nor a channel of the map    *)
(* keeps the order.                                                        *)
LEMMA OrderUnmoved ==
    ASSUME AcceptedInOrder, UNCHANGED <<accepted, begun, channels, buf>>
    PROVE  AcceptedInOrder'
BY DEF AcceptedInOrder, Buffered

(* The three steps that do keep it too. *)
LEMMA StepOrder ==
    ASSUME Inv, AcceptedInOrder, [Next]_vars
    PROVE  AcceptedInOrder'
<1> USE DEF Goto, callerVars, workerVars
<1>1. CASE UNCHANGED <<accepted, begun, channels, buf>>
  BY <1>1, OrderUnmoved
<1>2. ASSUME NEW c \in Callers, NEW d \in Chans, Create(c, d)
      PROVE  AcceptedInOrder'
  <2>1. /\ buf[d] = <<>> /\ channels[ev[c].key] = None /\ ev[c].key \in Keys
        /\ channels' = [channels EXCEPT ![ev[c].key] = d]
        /\ UNCHANGED <<accepted, begun, buf>>
    BY <1>2 DEF Inv, TypeOK, LocalsInv, RoutingInv, Create, Event
  <2>2. \A k \in Keys : Buffered(k)' = Buffered(k)
    BY <2>1, NoneAssumption DEF Inv, TypeOK, Buffered
  <2> QED BY <2>1, <2>2 DEF AcceptedInOrder
<1>3. ASSUME NEW c \in Callers, Send(c)
      PROVE  AcceptedInOrder'
  <2>0. ev[c] \in Event
    BY <1>3 DEF Inv, TypeOK, LocalsInv, Send
  <2> PICK k \in Keys : k = ev[c].key
    BY <2>0 DEF Event
  <2>1. /\ ch[c] \in Chans /\ ch[c] = channels[k] /\ channels[k] # None
    BY <1>3, NoneAssumption DEF Inv, TypeOK, LocalsInv, Send
  <2>2. /\ buf' = [buf EXCEPT ![ch[c]] = Append(buf[ch[c]], ev[c])]
        /\ accepted' = [accepted EXCEPT ![k] = Append(accepted[k], ev[c])]
        /\ UNCHANGED <<begun, channels>>
    BY <1>3 DEF Send
  <2>3. accepted[k] = begun[k] \o buf[ch[c]]
    BY <2>1 DEF AcceptedInOrder, Buffered
  <2>4. begun[k] \in Seq(Event) /\ buf[ch[c]] \in Seq(Event)
    BY <2>1 DEF Inv, TypeOK
  <2>5. Append(accepted[k], ev[c]) = begun[k] \o Append(buf[ch[c]], ev[c])
    <3>1. begun[k] \o Append(buf[ch[c]], ev[c]) = Append(begun[k] \o buf[ch[c]], ev[c])
      <4> PICK s \in Seq(Event), t \in Seq(Event), e \in Event :
                 s = begun[k] /\ t = buf[ch[c]] /\ e = ev[c]
        BY <2>0, <2>4
      <4>1. s \o Append(t, e) = Append(s \o t, e)
        BY ONLY ConcatAppend
      <4> QED BY <4>1
    <3> QED BY <2>3, <3>1
  <2>6. ASSUME NEW k2 \in Keys
        PROVE  accepted'[k2] = begun'[k2] \o Buffered(k2)'
    <3>1. CASE k2 = k
      <4>1. accepted'[k] = Append(accepted[k], ev[c])
        BY <2>1, <2>2 DEF Inv, TypeOK
      <4>2. Buffered(k)' = Append(buf[ch[c]], ev[c])
        BY <2>1, <2>2 DEF Inv, TypeOK, Buffered
      <4> QED BY <2>2, <2>5, <3>1, <4>1, <4>2
    <3>2. CASE k2 # k
      <4>1. channels[k2] # ch[c]
        BY <2>1, <3>2 DEF Inv, MapInv
      <4>2. Buffered(k2)' = Buffered(k2)
        BY <2>2, <4>1 DEF Inv, TypeOK, Buffered
      <4>3. accepted'[k2] = accepted[k2]
        BY <2>2, <3>2 DEF Inv, TypeOK
      <4> QED BY <2>2, <4>2, <4>3 DEF AcceptedInOrder
    <3> QED BY <3>1, <3>2
  <2> QED BY <2>6 DEF AcceptedInOrder
<1>4. ASSUME NEW d \in Chans, Take(d)
      PROVE  AcceptedInOrder'
  <2>1. buf[d] \in Seq(Event) /\ buf[d] # <<>>
    BY <1>4 DEF Inv, TypeOK, Take
  <2>2. /\ Head(buf[d]) \in Event
        /\ 1 \in 1..Len(buf[d]) /\ Head(buf[d]) = buf[d][1]
    BY <2>1, EmptySeq, HeadTailProperties
  <2> PICK k \in Keys : k = Head(buf[d]).key
    BY <2>2 DEF Event
  <2>3. channels[k] = d /\ d # None
    BY <2>2, NoneAssumption DEF Inv, RoutingInv
  <2>4. /\ buf' = [buf EXCEPT ![d] = Tail(buf[d])]
        /\ begun' = [begun EXCEPT ![k] = Append(begun[k], Head(buf[d]))]
        /\ UNCHANGED <<accepted, channels>>
    BY <1>4 DEF Take
  <2>5. begun[k] \in Seq(Event) /\ accepted[k] = begun[k] \o buf[d]
    BY <2>2, <2>3 DEF Inv, TypeOK, AcceptedInOrder, Buffered
  <2>6. accepted[k] = Append(begun[k], Head(buf[d])) \o Tail(buf[d])
    BY <2>1, <2>5, ConcatHeadTail
  <2>7. ASSUME NEW k2 \in Keys
        PROVE  accepted'[k2] = begun'[k2] \o Buffered(k2)'
    <3>1. CASE k2 = k
      <4>1. begun'[k] = Append(begun[k], Head(buf[d]))
        BY <2>2, <2>4 DEF Inv, TypeOK
      <4>2. Buffered(k)' = Tail(buf[d])
        BY <2>3, <2>4 DEF Inv, TypeOK, Buffered
      <4> QED BY <2>4, <2>6, <3>1, <4>1, <4>2
    <3>2. CASE k2 # k
      <4>1. channels[k2] # d
        BY <2>2, <2>3, <3>2 DEF Inv, MapInv
      <4>2. Buffered(k2)' = Buffered(k2)
        BY <2>4, <4>1 DEF Inv, TypeOK, Buffered
      <4>3. begun'[k2] = begun[k2]
        BY <2>4, <3>2 DEF Inv, TypeOK
      <4> QED BY <2>4, <4>2, <4>3 DEF AcceptedInOrder
    <3> QED BY <3>1, <3>2
  <2> QED BY <2>7 DEF AcceptedInOrder
<1> QED
  BY <1>1, <1>2, <1>3, <1>4
  DEF Next, Dispatch, Start, Call, CheckStopped, Ignore, Lock, Lookup, Unlock,
      Finish, Return, CloseStopCh, WatchStopChannel, vars

(* The handler of a key receives the accepted events of the key in order,  *)
(* none lost and none twice.                                               *)
THEOREM FirstInFirstOut == Spec => []AcceptedInOrder
<1>1. Init => AcceptedInOrder
  BY DEF Init, AcceptedInOrder, Buffered
<1>2. Inv /\ AcceptedInOrder /\ [Next]_vars => AcceptedInOrder'
  BY StepOrder
<1> QED BY <1>1, <1>2, Invariant, PTL DEF Spec

-----------------------------------------------------------------------------
(* The order of one caller's events. *)

(* The accepted events of a caller are numbered by its past Dispatch calls: *)
(* the call under way, until it has sent its event, has the highest number. *)
NumberInv ==
    \A k \in Keys : \A i \in 1..Len(accepted[k]) :
        LET e == accepted[k][i]
        IN  /\ e.n <= calls[e.caller]
            /\ pc[e.caller] \notin {"idle", "unlock"} => e.n < calls[e.caller]

(* CallerOrderKept, of the accepted events. *)
AcceptedIncreasing ==
    \A k \in Keys : \A i, j \in 1..Len(accepted[k]) :
        i < j /\ accepted[k][i].caller = accepted[k][j].caller
            => accepted[k][i].n < accepted[k][j].n

CallerInv == NumberInv /\ AcceptedIncreasing

LEMMA AcceptedTypes ==
    ASSUME TypeOK, NEW k \in Keys, NEW i \in 1..Len(accepted[k])
    PROVE  /\ accepted[k][i] \in Event
           /\ accepted[k][i].caller \in Callers
           /\ accepted[k][i].n \in Nat
           /\ calls[accepted[k][i].caller] \in Nat
<1>1. accepted[k] \in Seq(Event)
  BY DEF TypeOK
<1>2. accepted[k][i] \in Event
  BY <1>1, ElementOfSeq
<1> QED BY <1>2, SizesAssumption DEF TypeOK, Event

LEMMA StepCaller ==
    ASSUME Inv, CallerInv, [Next]_vars
    PROVE  CallerInv'
<1> USE DEF Goto, callerVars, workerVars
<1>1. CASE UNCHANGED <<accepted, calls, pc>>
  BY <1>1 DEF CallerInv, NumberInv, AcceptedIncreasing
<1>2. ASSUME NEW c \in Callers, NEW k \in Keys, Call(c, k)
      PROVE  CallerInv'
  <2>1. /\ pc[c] = "idle" /\ calls' = [calls EXCEPT ![c] = calls[c] + 1]
        /\ pc' = [pc EXCEPT ![c] = "check"] /\ accepted' = accepted
    BY <1>2 DEF Call
  <2>2. ASSUME NEW k2 \in Keys, NEW i \in 1..Len(accepted[k2])
        PROVE  LET e == accepted[k2][i]
               IN  /\ e.n <= calls'[e.caller]
                   /\ pc'[e.caller] \notin {"idle", "unlock"} => e.n < calls'[e.caller]
    <3> PICK e : e = accepted[k2][i]
      OBVIOUS
    <3>1. e.n <= calls[e.caller]
      BY DEF CallerInv, NumberInv
    <3>2. pc[e.caller] \notin {"idle", "unlock"} => e.n < calls[e.caller]
      BY DEF CallerInv, NumberInv
    <3>3. e.caller \in Callers /\ e.n \in Nat /\ calls[e.caller] \in Nat
      BY AcceptedTypes DEF Inv
    <3>4. CASE e.caller = c
      <4>1. calls'[c] = calls[c] + 1
        BY <2>1 DEF Inv, TypeOK
      <4> QED BY <3>1, <3>3, <3>4, <4>1
    <3>5. CASE e.caller # c
      <4>1. calls'[e.caller] = calls[e.caller] /\ pc'[e.caller] = pc[e.caller]
        BY <2>1, <3>3, <3>5 DEF Inv, TypeOK
      <4> QED BY <3>1, <3>2, <4>1
    <3> QED BY <3>4, <3>5
  <2>3. NumberInv'
    BY <2>1, <2>2 DEF NumberInv
  <2> QED BY <2>1, <2>3 DEF CallerInv, AcceptedIncreasing
<1>3. ASSUME NEW c \in Callers, accepted' = accepted, calls' = calls,
             NEW s \in Steps, pc' = [pc EXCEPT ![c] = s],
             s \in {"idle", "unlock"} \/ pc[c] \notin {"idle", "unlock"}
      PROVE  CallerInv'
  <2>1. NumberInv'
    BY <1>3, AcceptedTypes DEF Inv, TypeOK, CallerInv, NumberInv
  <2> QED BY <1>3, <2>1 DEF CallerInv, AcceptedIncreasing
<1>4. ASSUME NEW c \in Callers, Send(c)
      PROVE  CallerInv'
  <2>1. /\ ev[c] \in Event /\ ev[c].caller = c /\ ev[c].n = calls[c]
        /\ calls[c] \in Nat
    BY <1>4, SizesAssumption DEF Inv, TypeOK, LocalsInv, Send
  <2> PICK k \in Keys : k = ev[c].key
    BY <2>1 DEF Event
  <2>2. /\ pc[c] = "send" /\ calls' = calls
        /\ pc' = [pc EXCEPT ![c] = "unlock"]
        /\ accepted' = [accepted EXCEPT ![k] = Append(accepted[k], ev[c])]
    BY <1>4 DEF Send
  <2>3. /\ accepted[k] \in Seq(Event) /\ Len(accepted[k]) \in Nat
        /\ accepted'[k] = Append(accepted[k], ev[c])
        /\ Len(accepted'[k]) = Len(accepted[k]) + 1
        /\ accepted'[k][Len(accepted[k]) + 1] = ev[c]
        /\ \A i \in 1..Len(accepted[k]) : accepted'[k][i] = accepted[k][i]
        /\ \A k2 \in Keys \ {k} : accepted'[k2] = accepted[k2]
    BY <2>1, <2>2 DEF Inv, TypeOK
  <2>4. ASSUME NEW k2 \in Keys, NEW i \in 1..Len(accepted[k2])
        PROVE  LET e == accepted[k2][i]
               IN  /\ e.n <= calls[e.caller]
                   /\ pc'[e.caller] \notin {"idle", "unlock"} => e.n < calls[e.caller]
                   /\ e.caller = c => e.n < calls[c]
    BY <2>2, AcceptedTypes DEF Inv, TypeOK, CallerInv, NumberInv
  <2>5. ASSUME NEW k2 \in Keys, NEW i \in 1..Len(accepted'[k2])
        PROVE  LET e == accepted'[k2][i]
               IN  /\ e.n <= calls'[e.caller]
                   /\ pc'[e.caller] \notin {"idle", "unlock"} => e.n < calls'[e.caller]
    <3>1. CASE k2 = k /\ i = Len(accepted[k]) + 1
      BY <2>1, <2>2, <2>3, <3>1 DEF Inv, TypeOK
    <3>2. CASE k2 # k
      BY <2>2, <2>3, <2>4, <2>5, <3>2
    <3>3. CASE k2 = k /\ i \in 1..Len(accepted[k])
      BY <2>2, <2>3, <2>4, <3>3
    <3> QED BY <2>3, <2>5, <3>1, <3>2, <3>3
  <2>6. ASSUME NEW k2 \in Keys,
               NEW i \in 1..Len(accepted'[k2]), NEW j \in 1..Len(accepted'[k2]),
               i < j, accepted'[k2][i].caller = accepted'[k2][j].caller
        PROVE  accepted'[k2][i].n < accepted'[k2][j].n
    <3>1. CASE k2 # k
      <4>1. accepted'[k2] = accepted[k2]
        BY <2>3, <3>1
      <4> QED BY <2>6, <4>1 DEF CallerInv, AcceptedIncreasing
    <3>2. CASE k2 = k /\ j = Len(accepted[k]) + 1
      <4>1. i \in 1..Len(accepted[k])
        BY <2>3, <2>6, <3>2
      <4>2. accepted'[k][i] = accepted[k][i] /\ accepted'[k][j] = ev[c]
        BY <2>3, <3>2, <4>1
      <4>3. accepted[k][i].caller = c
        BY <2>1, <2>6, <3>2, <4>2
      <4> QED BY <2>1, <2>4, <3>2, <4>1, <4>2, <4>3
    <3>3. CASE k2 = k /\ j \in 1..Len(accepted[k])
      <4>1. i \in 1..Len(accepted[k])
        BY <2>3, <2>6, <3>3
      <4>2. accepted'[k][i] = accepted[k][i] /\ accepted'[k][j] = accepted[k][j]
        BY <2>3, <3>3, <4>1
      <4> QED BY <2>6, <3>3, <4>1, <4>2 DEF CallerInv, AcceptedIncreasing
    <3> QED BY <2>3, <2>6, <3>1, <3>2, <3>3
  <2> QED BY <2>5, <2>6 DEF CallerInv, NumberInv, AcceptedIncreasing
<1>5. ASSUME NEW c \in Callers,
             \/ CheckStopped(c) \/ Ignore(c) \/ Lock(c) \/ Lookup(c)
             \/ (\E d \in Chans : Create(c, d)) \/ Unlock(c)
      PROVE  CallerInv'
  <2>1. CASE CheckStopped(c)
    BY <2>1, <1>3 DEF CheckStopped, Steps
  <2>2. CASE Ignore(c)
    BY <2>2, <1>3 DEF Ignore, Steps
  <2>3. CASE Lock(c)
    BY <2>3, <1>3 DEF Lock, Steps
  <2>4. CASE Lookup(c)
    BY <2>4, <1>3 DEF Lookup, Steps
  <2>5. CASE \E d \in Chans : Create(c, d)
    BY <2>5, <1>3 DEF Create, Steps
  <2>6. CASE Unlock(c)
    BY <2>6, <1>3 DEF Unlock, Steps
  <2> QED BY <1>5, <2>1, <2>2, <2>3, <2>4, <2>5, <2>6
<1> QED
  BY <1>1, <1>2, <1>4, <1>5
  DEF Next, Dispatch, Start, Take, Finish, Return, CloseStopCh,
      WatchStopChannel, vars

(* Of two events of one caller and one key, the one dispatched first is    *)
(* handled first: what the informers rely on.                              *)
THEOREM CallerOrder == Spec => []CallerOrderKept
<1>1. Init => CallerInv
  BY DEF Init, CallerInv, NumberInv, AcceptedIncreasing
<1>2. Inv /\ CallerInv /\ [Next]_vars => CallerInv'
  BY StepCaller
<1>3. Inv /\ AcceptedInOrder /\ CallerInv => CallerOrderKept
  <2> SUFFICES ASSUME Inv, AcceptedInOrder, CallerInv, NEW k \in Keys
               PROVE  \A i, j \in DOMAIN begun[k] :
                         i < j /\ begun[k][i].caller = begun[k][j].caller
                             => begun[k][i].n < begun[k][j].n
    BY DEF CallerOrderKept
  <2>1. begun[k] \in Seq(Event) /\ Buffered(k) \in Seq(Event)
    BY DEF Inv, TypeOK, Buffered
  <2>2. /\ DOMAIN begun[k] = 1..Len(begun[k])
        /\ Len(begun[k]) \in Nat /\ Len(Buffered(k)) \in Nat
        /\ Len(accepted[k]) = Len(begun[k]) + Len(Buffered(k))
        /\ \A i \in 1..Len(begun[k]) : accepted[k][i] = begun[k][i]
    BY <2>1 DEF AcceptedInOrder
  <2>3. SUFFICES ASSUME NEW i \in 1..Len(begun[k]), NEW j \in 1..Len(begun[k]),
                        i < j, begun[k][i].caller = begun[k][j].caller
                 PROVE  begun[k][i].n < begun[k][j].n
    BY <2>2
  <2>4. i \in 1..Len(accepted[k]) /\ j \in 1..Len(accepted[k])
    BY <2>2
  <2> QED BY <2>2, <2>3, <2>4 DEF CallerInv, AcceptedIncreasing
<1> QED BY <1>1, <1>2, <1>3, Invariant, FirstInFirstOut, PTL DEF Spec

-----------------------------------------------------------------------------
(* Refinement: the dispatcher implements KeyedQueues. *)

LEMMA RefinesInit == Init => KQ!Init
BY DEF Init, KQ!Init, callingBar, pendingBar, activeBar, Buffered

(* Every step of the dispatcher is a step of KeyedQueues or a stutter.     *)
LEMMA RefinesNext ==
    ASSUME Inv, [Next]_vars
    PROVE  [KQ!Next]_(KQ!vars)
<1> USE DEF Goto, callerVars, workerVars
<1>1. CASE UNCHANGED vars
  BY <1>1 DEF vars, KQ!vars, callingBar, pendingBar, activeBar, Buffered
<1>2. ASSUME NEW c \in Callers, NEW k \in Keys, Call(c, k)
      PROVE  KQ!Next
  <2> DEFINE e == [caller |-> c, n |-> calls[c] + 1, key |-> k]
  <2>1. e \in Event
    BY <1>2, NewEvent DEF Inv, Call
  <2>2. callingBar[c] = None /\ callingBar' = [callingBar EXCEPT ![c] = e]
    BY <1>2 DEF Inv, TypeOK, Call, callingBar
  <2>3. UNCHANGED <<pendingBar, activeBar, closed>>
    BY <1>2 DEF Call, pendingBar, activeBar, Buffered
  <2>4. KQ!Call(c, e)
    BY <2>2, <2>3 DEF KQ!Call
  <2> QED BY <2>1, <2>4 DEF KQ!Next
<1>3. ASSUME NEW c \in Callers, CheckStopped(c) \/ Lock(c) \/ Lookup(c) \/ Unlock(c)
      PROVE  UNCHANGED KQ!vars
  <2>1. UNCHANGED callingBar
    BY <1>3 DEF Inv, TypeOK, CheckStopped, Lock, Lookup, Unlock, callingBar
  <2>2. UNCHANGED <<pendingBar, activeBar, closed>>
    BY <1>3 DEF CheckStopped, Lock, Lookup, Unlock, pendingBar, activeBar, Buffered
  <2> QED BY <2>1, <2>2 DEF KQ!vars
<1>4. ASSUME NEW c \in Callers, Ignore(c)
      PROVE  KQ!Next
  <2>1. /\ callingBar[c] # None /\ closed
        /\ callingBar' = [callingBar EXCEPT ![c] = None]
    BY <1>4 DEF Inv, TypeOK, LocalsInv, StopInv, Ignore, callingBar
  <2>2. UNCHANGED <<pendingBar, activeBar, closed>>
    BY <1>4 DEF Ignore, pendingBar, activeBar, Buffered
  <2>3. KQ!Ignore(c)
    BY <2>1, <2>2 DEF KQ!Ignore
  <2> QED BY <2>3 DEF KQ!Next
<1>5. ASSUME NEW c \in Callers, NEW d \in Chans, Create(c, d)
      PROVE  UNCHANGED KQ!vars
  <2>1. UNCHANGED callingBar
    BY <1>5 DEF Inv, TypeOK, Create, callingBar
  <2>2. ev[c] \in Event
    BY <1>5 DEF Inv, TypeOK, LocalsInv, Create
  <2> PICK k \in Keys : k = ev[c].key
    BY <2>2 DEF Event
  <2>3. /\ channels' = [channels EXCEPT ![k] = d] /\ channels[k] = None
        /\ buf[d] = <<>> /\ handling[d] = None /\ d # None
        /\ UNCHANGED <<buf, handling, closed>>
    BY <1>5, NoneAssumption DEF Inv, TypeOK, LocalsInv, RoutingInv, Create
  <2>4. UNCHANGED <<pendingBar, activeBar, closed>>
    BY <2>3 DEF Inv, TypeOK, pendingBar, activeBar, Buffered
  <2> QED BY <2>1, <2>4 DEF KQ!vars
<1>6. ASSUME NEW c \in Callers, Send(c)
      PROVE  KQ!Next
  <2>1. ev[c] \in Event /\ ev[c] # None
    BY <1>6 DEF Inv, TypeOK, LocalsInv, Send
  <2> PICK k \in Keys : k = ev[c].key
    BY <2>1 DEF Event
  <2>2. /\ channels[k] \in Chans /\ channels[k] # None /\ channels[k] = ch[c]
        /\ buf' = [buf EXCEPT ![channels[k]] = Append(buf[channels[k]], ev[c])]
        /\ UNCHANGED <<channels, handling, closed>>
    <3>1. ch[c] = channels[k] /\ ch[c] # None /\ ch[c] \in Chans
      BY <1>6 DEF Inv, TypeOK, LocalsInv, Send
    <3>2. /\ buf' = [buf EXCEPT ![ch[c]] = Append(buf[ch[c]], ev[c])]
          /\ UNCHANGED <<channels, handling, closed>>
      BY <1>6 DEF Send
    <3> QED BY <3>1, <3>2
  <2>3. callingBar[c] = ev[c] /\ callingBar' = [callingBar EXCEPT ![c] = None]
    BY <1>6 DEF Inv, TypeOK, Send, callingBar
  <2>4. pendingBar' = [pendingBar EXCEPT ![k] = Append(@, ev[c])]
    <3>1. ASSUME NEW k2 \in Keys
          PROVE  Buffered(k2)' = IF k2 = k THEN Append(Buffered(k), ev[c])
                                          ELSE Buffered(k2)
      <4>1. CASE k2 = k
        BY <2>2, <4>1 DEF Inv, TypeOK, Buffered
      <4>2. CASE k2 # k
        <5>1. channels[k2] # channels[k]
          BY <2>2, <4>2 DEF Inv, MapInv
        <5> QED BY <2>2, <4>2, <5>1 DEF Inv, TypeOK, Buffered
      <4> QED BY <4>1, <4>2
    <3> QED BY <3>1 DEF pendingBar
  <2>5. UNCHANGED <<activeBar, closed>>
    BY <2>2 DEF activeBar
  <2>6. KQ!Accept(c)
    BY <2>1, <2>3, <2>4, <2>5 DEF KQ!Accept
  <2> QED BY <2>6 DEF KQ!Next
<1>7. ASSUME NEW d \in Chans, Take(d)
      PROVE  KQ!Next
  <2>1. buf[d] \in Seq(Event) /\ buf[d] # <<>>
    BY <1>7 DEF Inv, TypeOK, Take
  <2>2. /\ Head(buf[d]) \in Event
        /\ 1 \in 1..Len(buf[d]) /\ Head(buf[d]) = buf[d][1]
    BY <2>1, EmptySeq, HeadTailProperties
  <2> PICK k \in Keys : k = Head(buf[d]).key
    BY <2>2 DEF Event
  <2>3. channels[k] = d /\ d # None
    BY <2>2, NoneAssumption DEF Inv, RoutingInv
  <2>4. \A k2 \in Keys \ {k} : channels[k2] # d
    BY <2>3 DEF Inv, MapInv
  <2>5. /\ handling[d] = None
        /\ buf' = [buf EXCEPT ![d] = Tail(buf[d])]
        /\ handling' = [handling EXCEPT ![d] = Head(buf[d])]
        /\ UNCHANGED <<pc, ev, channels, closed>>
    BY <1>7 DEF Inv, RoutingInv, Take
  <2>6. Buffered(k) = buf[d] /\ pendingBar[k] = buf[d] /\ activeBar[k] = None
    BY <2>3, <2>5 DEF pendingBar, activeBar, Buffered
  <2>7. activeBar' = [activeBar EXCEPT ![k] = Head(pendingBar[k])]
    BY <2>3, <2>4, <2>5, <2>6 DEF Inv, TypeOK, activeBar
  <2>8. pendingBar' = [pendingBar EXCEPT ![k] = Tail(@)]
    BY <2>3, <2>4, <2>5, <2>6 DEF Inv, TypeOK, pendingBar, Buffered
  <2>9. UNCHANGED <<callingBar, closed>>
    BY <2>5 DEF callingBar
  <2>10. KQ!Begin(k)
    BY <2>1, <2>6, <2>7, <2>8, <2>9 DEF KQ!Begin
  <2> QED BY <2>10 DEF KQ!Next
<1>8. ASSUME NEW d \in Chans, Finish(d)
      PROVE  KQ!Next
  <2>1. handling[d] \in Event /\ handling[d] # None
    BY <1>8 DEF Inv, TypeOK, RoutingInv, Finish
  <2> PICK k \in Keys : k = handling[d].key
    BY <2>1 DEF Event
  <2>2. channels[k] = d /\ d # None
    BY <2>1, NoneAssumption DEF Inv, RoutingInv
  <2>3. \A k2 \in Keys \ {k} : channels[k2] # d
    BY <2>2 DEF Inv, MapInv
  <2>4. /\ handling' = [handling EXCEPT ![d] = None]
        /\ UNCHANGED <<pc, ev, channels, buf, closed>>
    BY <1>8 DEF Finish
  <2>5. activeBar[k] # None /\ activeBar' = [activeBar EXCEPT ![k] = None]
    BY <2>1, <2>2, <2>3, <2>4 DEF Inv, TypeOK, activeBar
  <2>6. UNCHANGED <<callingBar, pendingBar, closed>>
    BY <2>4 DEF callingBar, pendingBar, Buffered
  <2>7. KQ!Finish(k)
    BY <2>5, <2>6 DEF KQ!Finish
  <2> QED BY <2>7 DEF KQ!Next
<1>9. ASSUME NEW d \in Chans, Return(d)
      PROVE  UNCHANGED KQ!vars
  BY <1>9 DEF Return, KQ!vars, callingBar, pendingBar, activeBar, Buffered
<1>10. CASE CloseStopCh
  <2>1. KQ!Stop
    BY <1>10 DEF CloseStopCh, KQ!Stop, callingBar, pendingBar, activeBar, Buffered
  <2> QED BY <2>1 DEF KQ!Next
<1>11. CASE WatchStopChannel
  BY <1>11 DEF WatchStopChannel, KQ!vars, callingBar, pendingBar, activeBar, Buffered
<1> QED BY <1>1, <1>2, <1>3, <1>4, <1>5, <1>6, <1>7, <1>8, <1>9, <1>10, <1>11
        DEF Next, Dispatch, Start

(* The dispatcher, with its lock, channels and goroutines, does what        *)
(* KeyedQueues says: one queue per key, one handler at a time per key.      *)
THEOREM Refinement == Spec => ImplementsKeyedQueues
BY RefinesInit, RefinesNext, Invariant, PTL
   DEF Spec, ImplementsKeyedQueues, KQ!Spec
=============================================================================
