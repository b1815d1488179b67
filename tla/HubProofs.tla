------------------------------ MODULE HubProofs ------------------------------
(***************************************************************************)
(* For any connections, broadcasts and channel capacity: the hub's states  *)
(* are well formed, and neither a broadcast nor unregister ever meets a    *)
(* closed channel.                                                         *)
(***************************************************************************)
EXTENDS Hub, TLAPS

(* What a broadcast has still to visit is registered, because it holds the *)
(* read lock; a connection is registered once and closed when it leaves    *)
(* the map.                                                                *)
Visits == \A e \in Events :
             /\ todo[e] \subseteq clients
             /\ call[e] # "sending" => todo[e] = {}

OpenWhileListed == \A c \in clients : ~closed[c] /\ registering[c] # "new"

NewIsOpen == \A c \in Conns : registering[c] = "new" => ~closed[c]

GoneIsReleased ==
    \A c \in Conns : registering[c] = "new" \/ c \in clients \/ Released(c)

HubInv == Typed /\ Visits /\ OpenWhileListed /\ NewIsOpen /\ GoneIsReleased

(* Putting a message into a channel that is not full keeps it within its   *)
(* capacity (c.send <- payload), taking one out does as well.              *)
LEMMA ChannelBounds ==
    ASSUME NEW M, NEW q \in Seq(M), NEW m \in M, Len(q) <= Cap
    PROVE  /\ Len(q) < Cap => Append(q, m) \in Seq(M) /\ Len(Append(q, m)) <= Cap
           /\ q # <<>> => /\ Head(q) \in M
                          /\ Tail(q) \in Seq(M) /\ Len(Tail(q)) <= Cap
  BY HubAssumption

LEMMA InitInv == Init => HubInv
  BY HubAssumption DEF Init, HubInv, Typed, Visits, OpenWhileListed, NewIsOpen, GoneIsReleased

(* Every step of the hub keeps its states well formed. *)
LEMMA TypeStep == Typed /\ [Next]_vars => Typed'
<1> SUFFICES ASSUME Typed, [Next]_vars PROVE Typed'
  OBVIOUS
<1> USE HubAssumption
<1> DEFINE Chan(q) == q \in Seq(Events \cup {Connected}) /\ Len(q) <= Cap
<1>1. ASSUME NEW c \in Conns, Register(c) PROVE Typed'
  BY <1>1 DEF Register, Typed, calls
<1>2. ASSUME NEW c \in Conns, Greet(c) PROVE Typed'
  <2>1. Len(send[c]) < Cap
    BY <1>2 DEF Greet, Full, Typed
  <2>2. Chan(Append(send[c], Connected))
    BY <2>1, ChannelBounds DEF Typed
  <2>3. \A d \in Conns : Chan(send'[d])
    BY <1>2, <2>2 DEF Greet, Typed
  <2>4. job' \in [Conns -> [Goroutines ->
                    {"none", "run", "write", "unregister", "close", "done"}]]
    BY <1>2 DEF Greet, Typed
  <2> QED
    BY <1>2, <2>3, <2>4 DEF Greet, Typed, calls
<1>3. ASSUME NEW c \in Conns, GreetPanics(c) PROVE Typed'
  BY <1>3 DEF GreetPanics, Typed, calls
<1>4. ASSUME NEW e \in Events, StartBroadcast(e) PROVE Typed'
  <2>1. todo' \in [Events -> SUBSET Conns] /\ owed' \in [Conns -> SUBSET Events]
    BY <1>4 DEF StartBroadcast, Typed
  <2> QED
    BY <1>4, <2>1 DEF StartBroadcast, Typed
<1>5. ASSUME NEW e \in Events, NEW c \in Conns, Offer(e, c) PROVE Typed'
  <2>1. CASE ~Full(c) /\ send' = [send EXCEPT ![c] = Append(@, e)] /\ UNCHANGED job
    <3>1. Len(send[c]) < Cap
      BY <2>1 DEF Full, Typed
    <3>2. Chan(Append(send[c], e))
      BY <3>1, ChannelBounds DEF Typed
    <3>3. \A d \in Conns : Chan(send'[d])
      BY <2>1, <3>2 DEF Typed
    <3> QED
      BY <1>5, <2>1, <3>3 DEF Offer, Typed
  <2>2. CASE Full(c) /\ Drop(e, c)
    BY <1>5, <2>2 DEF Offer, Drop, Typed, Goroutines
  <2> QED
    BY <1>5, <2>1, <2>2 DEF Offer
<1>6. ASSUME NEW e \in Events, EndBroadcast(e) PROVE Typed'
  BY <1>6 DEF EndBroadcast, Typed
<1>7. ASSUME NEW c \in Conns, Take(c) PROVE Typed'
  <2>1. /\ Head(send[c]) \in Events \cup {Connected}
        /\ Chan(Tail(send[c]))
    BY <1>7, ChannelBounds DEF Take, Typed
  <2>2. \A d \in Conns : Chan(send'[d])
    BY <1>7, <2>1 DEF Take, Typed
  <2> QED
    BY <1>7, <2>1, <2>2 DEF Take, Typed, calls, Goroutines
<1>8. ASSUME NEW c \in Conns, Ping(c) PROVE Typed'
  BY <1>8 DEF Ping, Typed, calls, Goroutines
<1>9. ASSUME NEW c \in Conns, WriteDone(c) PROVE Typed'
  <2>1. got' \in [Conns -> SUBSET (Events \cup {Connected, Heartbeat})]
    BY <1>9 DEF WriteDone, Typed
  <2> QED
    BY <1>9, <2>1 DEF WriteDone, Typed, calls, Goroutines
<1>10. ASSUME NEW c \in Conns, NEW g \in Goroutines, Leave(c, g) PROVE Typed'
  BY <1>10 DEF Leave, Typed, calls
<1>11. ASSUME NEW c \in Conns, NEW g \in Goroutines, Unregister(c, g) PROVE Typed'
  BY <1>11 DEF Unregister, Typed, calls
<1>12. ASSUME NEW c \in Conns, NEW g \in Goroutines, CloseConn(c, g) PROVE Typed'
  BY <1>12 DEF CloseConn, Typed, calls
<1>13. ASSUME NEW c \in Conns, Peer(c) PROVE Typed'
  <2>1. \E x \in {"open", "stalled", "gone"} : conn' = [conn EXCEPT ![c] = x]
    BY <1>13, Zenon DEF Peer
  <2>2. conn' \in [Conns -> {"open", "stalled", "gone", "closed"}]
    BY <2>1 DEF Typed
  <2> QED
    BY <1>13, <2>2, Zenon DEF Peer, Typed, calls
<1>14. CASE UNCHANGED vars
  BY <1>14 DEF vars, calls, Typed
<1> QED
  BY <1>1, <1>2, <1>3, <1>4, <1>5, <1>6, <1>7, <1>8, <1>9, <1>10, <1>11, <1>12, <1>13,
     <1>14 DEF Next, Serve, Broadcasting

(* One section under the write lock takes a connection out of the map,    *)
(* closes its channel and leaves its close to the goroutine that did so.   *)
LEMMA ReleasedStep == HubInv /\ [Next]_vars => GoneIsReleased'
<1> SUFFICES ASSUME HubInv, [Next]_vars, NEW d \in Conns,
                    registering'[d] # "new", d \notin clients'
             PROVE  Released(d)'
  BY DEF GoneIsReleased
<1> USE DEF HubInv
<1>1. ASSUME registering[d] # "new" /\ d \notin clients PROVE Released(d)
  BY <1>1 DEF GoneIsReleased
<1>2. ASSUME NEW c \in Conns, Register(c) PROVE Released(d)'
  BY <1>1, <1>2 DEF Register, Typed, Released
<1>3. ASSUME NEW c \in Conns, Greet(c) PROVE Released(d)'
  BY <1>1, <1>3 DEF Greet, Typed, Released
<1>4. ASSUME NEW c \in Conns, GreetPanics(c) PROVE Released(d)'
  BY <1>1, <1>4 DEF GreetPanics, Typed, Released
<1>5. ASSUME NEW e \in Events, StartBroadcast(e) \/ EndBroadcast(e) PROVE Released(d)'
  BY <1>1, <1>5 DEF StartBroadcast, EndBroadcast, Released
<1>6. ASSUME NEW e \in Events, NEW c \in Conns, Offer(e, c) PROVE Released(d)'
  <2>1. c \in clients /\ clients' = clients /\ registering' = registering
        /\ closed' = closed /\ conn' = conn
    BY <1>6 DEF Offer, Visits
  <2>2. job'[d] = job[d]
    BY <1>6, <2>1 DEF Offer, Drop, Typed
  <2> QED
    BY <1>1, <2>1, <2>2 DEF Released
<1>7. ASSUME NEW c \in Conns, Take(c) \/ Ping(c) \/ WriteDone(c) PROVE Released(d)'
  <2>1. /\ clients' = clients /\ registering' = registering /\ closed' = closed
        /\ conn' = conn
    BY <1>7 DEF Take, Ping, WriteDone
  <2>2. PICK x : job' = [job EXCEPT ![c]["writeLoop"] = x]
    BY <1>7 DEF Take, Ping, WriteDone
  <2>3. job[c]["writeLoop"] # "close"
    BY <1>7 DEF Take, Ping, WriteDone
  <2>4. ASSUME NEW g \in Goroutines, job[d][g] = "close" PROVE job'[d][g] = "close"
    BY <2>2, <2>3, <2>4 DEF Typed
  <2> QED
    BY <1>1, <2>1, <2>4 DEF Released
<1>8. ASSUME NEW c \in Conns, NEW g \in Goroutines, Leave(c, g) PROVE Released(d)'
  BY <1>1, <1>8 DEF Leave, Typed, Released
<1>9. ASSUME NEW c \in Conns, NEW g \in Goroutines, Unregister(c, g) PROVE Released(d)'
  <2>1. CASE c = d /\ c \in clients
    BY <1>9, <2>1 DEF Unregister, Typed, Released
  <2>2. CASE ~(c = d /\ c \in clients)
    BY <1>1, <1>9, <2>2 DEF Unregister, Typed, Released
  <2> QED
    BY <2>1, <2>2
<1>10. ASSUME NEW c \in Conns, NEW g \in Goroutines, CloseConn(c, g) PROVE Released(d)'
  BY <1>1, <1>10 DEF CloseConn, Typed, Released
<1>11. ASSUME NEW c \in Conns, Peer(c) PROVE Released(d)'
  BY <1>1, <1>11 DEF Peer, Broken, Typed, Released
<1>12. CASE UNCHANGED vars
  BY <1>1, <1>12 DEF vars, Released
<1> QED
  BY <1>2, <1>3, <1>4, <1>5, <1>6, <1>7, <1>8, <1>9, <1>10, <1>11, <1>12
     DEF Next, Serve, Broadcasting

(* Connections enter and leave the map, and channels are closed, only when *)
(* no broadcast is under way.                                              *)
LEMMA InvStep == HubInv /\ [Next]_vars => HubInv'
<1> SUFFICES ASSUME HubInv, [Next]_vars PROVE HubInv'
  OBVIOUS
<1> Typed' /\ GoneIsReleased'
  BY TypeStep, ReleasedStep DEF HubInv
<1> USE DEF HubInv
<1>1. ASSUME NEW c \in Conns, Register(c) PROVE (Visits /\ OpenWhileListed /\ NewIsOpen)'
  BY <1>1 DEF Register, calls, Typed, Visits, OpenWhileListed, NewIsOpen
<1>2. ASSUME NEW c \in Conns, Greet(c) \/ GreetPanics(c)
      PROVE (Visits /\ OpenWhileListed /\ NewIsOpen)'
  BY <1>2 DEF Greet, GreetPanics, calls, Typed, Visits, OpenWhileListed, NewIsOpen
<1>3. ASSUME NEW e \in Events, StartBroadcast(e)
      PROVE (Visits /\ OpenWhileListed /\ NewIsOpen)'
  BY <1>3 DEF StartBroadcast, Typed, Visits, OpenWhileListed, NewIsOpen
<1>4. ASSUME NEW e \in Events, NEW c \in Conns, Offer(e, c)
      PROVE (Visits /\ OpenWhileListed /\ NewIsOpen)'
  BY <1>4 DEF Offer, Typed, Visits, OpenWhileListed, NewIsOpen
<1>5. ASSUME NEW e \in Events, EndBroadcast(e)
      PROVE (Visits /\ OpenWhileListed /\ NewIsOpen)'
  BY <1>5 DEF EndBroadcast, Typed, Visits, OpenWhileListed, NewIsOpen
<1>6. ASSUME NEW c \in Conns, NEW g \in Goroutines, Unregister(c, g)
      PROVE (Visits /\ OpenWhileListed /\ NewIsOpen)'
  <2>1. \A e \in Events : todo[e] = {}
    BY <1>6 DEF Unregister, Readers, Visits
  <2> QED
    BY <1>6, <2>1 DEF Unregister, calls, Typed, Visits, OpenWhileListed, NewIsOpen
<1>7. ASSUME UNCHANGED <<clients, registering, calls, closed>>
      PROVE (Visits /\ OpenWhileListed /\ NewIsOpen)'
  BY <1>7 DEF calls, Visits, OpenWhileListed, NewIsOpen
<1>8. ASSUME NEW c \in Conns,
             \/ Take(c) \/ Ping(c) \/ WriteDone(c) \/ Peer(c)
             \/ \E g \in Goroutines : Leave(c, g) \/ CloseConn(c, g)
      PROVE UNCHANGED <<clients, registering, calls, closed>>
  BY <1>8 DEF Take, Ping, WriteDone, Peer, Leave, CloseConn
<1>9. UNCHANGED vars => UNCHANGED <<clients, registering, calls, closed>>
  BY DEF vars
<1> QED
  BY <1>1, <1>2, <1>3, <1>4, <1>5, <1>6, <1>7, <1>8, <1>9 DEF Next, Serve, Broadcasting

LEMMA Invariance == Spec => []HubInv
  BY InitInv, InvStep, PTL DEF Spec

(* Every reachable state of the hub is well formed, channels never hold    *)
(* more than their capacity, and unregister leaves nothing open.           *)
THEOREM TypeSafety == Spec => []TypeOK
<1>1. HubInv => TypeOK
  BY DEF HubInv, TypeOK, GoneIsReleased
<1> QED
  BY <1>1, Invariance, PTL

(* No push dies of a broadcast and no goroutine closes a channel twice:    *)
(* BroadcastChange under the read lock never meets what unregister closes  *)
(* under the write lock.                                                   *)
THEOREM NoPanicSafety == Spec => []NoPanic
<1>1. HubInv => NoPanic
  BY DEF HubInv, NoPanic, Visits, OpenWhileListed
<1> QED
  BY <1>1, Invariance, PTL
=============================================================================
