-------------------------------- MODULE Hub --------------------------------
(***************************************************************************)
(* The realtime hub: it keeps the registered WebSocket connections and     *)
(* sends sync.changed to each of them.  Every connection has a bounded     *)
(* channel, a writeLoop and a readLoop; every BroadcastChange is a call in *)
(* some push handler.  Who finds a connection unusable unregisters it: its *)
(* loops, or a goroutine that a broadcast starts ("go h.unregister(c)"),   *)
(* named after the broadcast here.                                         *)
(*                                                                         *)
(* A broadcast holds the read lock of h.mu from beginning to end; the      *)
(* sections under the write lock are single actions that need all readers  *)
(* gone.                                                                   *)
(***************************************************************************)
EXTENDS Naturals, Sequences

CONSTANTS Conns,       \* connections
          Events,      \* calls of BroadcastChange
          Connected,   \* the message a connection is greeted with
          Heartbeat,   \* the message the ticker of writeLoop sends
          Cap          \* capacity of a channel (16)

ASSUME HubAssumption ==
    /\ {Connected, Heartbeat} \cap Events = {}
    /\ Events \cap {"writeLoop", "readLoop"} = {}
    /\ Cap \in Nat \ {0}

VARIABLES clients,      \* h.clients
          registering,  \* what Register does for a connection
          call, todo,   \* a broadcast, and the connections it has still to visit
          send, closed, \* the channel of a connection, and whether it is closed
          conn,         \* the network connection
          job, hand,    \* the task of a connection's goroutine; writeLoop's message
          got, owed     \* history: events the peer got; events sent while registered

calls == <<call, todo, owed>>
vars == <<clients, registering, calls, send, closed, conn, job, hand, got>>

Goroutines == {"writeLoop", "readLoop"} \cup Events

Readers == {e \in Events : call[e] = "sending"}

Full(c) == Len(send[c]) >= Cap

Broken(c) == conn[c] \in {"gone", "closed"}

Init ==
    /\ clients = {}
    /\ registering = [c \in Conns |-> "new"]
    /\ call = [e \in Events |-> "new"]
    /\ todo = [e \in Events |-> {}]
    /\ send = [c \in Conns |-> <<>>]
    /\ closed = [c \in Conns |-> FALSE]
    /\ conn = [c \in Conns |-> "open"]
    /\ job = [c \in Conns |-> [g \in Goroutines |-> "none"]]
    /\ hand = [c \in Conns |-> Connected]
    /\ got = [c \in Conns |-> {}]
    /\ owed = [c \in Conns |-> {}]

-----------------------------------------------------------------------------
(* Register: the connection is in the map before it is greeted, and its    *)
(* loops start after that.                                                 *)
Register(c) ==
    /\ registering[c] = "new"
    /\ Readers = {}
    /\ clients' = clients \cup {c}
    /\ registering' = [registering EXCEPT ![c] = "listed"]
    /\ UNCHANGED <<calls, send, closed, conn, job, hand, got>>

(* c.send <- connectedPayload waits for room. *)
Greet(c) ==
    /\ registering[c] = "listed"
    /\ ~closed[c] /\ ~Full(c)
    /\ send' = [send EXCEPT ![c] = Append(@, Connected)]
    /\ registering' = [registering EXCEPT ![c] = "done"]
    /\ job' = [job EXCEPT ![c]["writeLoop"] = "run", ![c]["readLoop"] = "run"]
    /\ UNCHANGED <<clients, calls, closed, conn, hand, got>>

(* On a closed channel it panics; gin's Recovery ends the request.         *)
GreetPanics(c) ==
    /\ registering[c] = "listed"
    /\ closed[c]
    /\ registering' = [registering EXCEPT ![c] = "panicked"]
    /\ UNCHANGED <<clients, calls, send, closed, conn, job, hand, got>>

-----------------------------------------------------------------------------
(* BroadcastChange: the read lock, one turn of the loop, the unlock.       *)
StartBroadcast(e) ==
    /\ call[e] = "new"
    /\ call' = [call EXCEPT ![e] = "sending"]
    /\ todo' = [todo EXCEPT ![e] = clients]
    /\ owed' = [c \in Conns |-> IF c \in clients THEN owed[c] \cup {e} ELSE owed[c]]
    /\ UNCHANGED <<clients, registering, send, closed, conn, job, hand, got>>

(* The send is never waited for: when the channel is full the event is     *)
(* dropped and a goroutine unregisters the connection.                     *)
DropSilently(e, c) == UNCHANGED <<send, job>>
DropNever(e, c) == FALSE
Drop(e, c) == job' = [job EXCEPT ![c][e] = "unregister"] /\ UNCHANGED send

Offer(e, c) ==
    /\ c \in todo[e]
    /\ todo' = [todo EXCEPT ![e] = @ \ {c}]
    /\ \/ ~Full(c) /\ send' = [send EXCEPT ![c] = Append(@, e)] /\ UNCHANGED job
       \/ Full(c) /\ Drop(e, c)
    /\ UNCHANGED <<clients, registering, call, owed, closed, conn, hand, got>>

EndBroadcast(e) ==
    /\ call[e] = "sending"
    /\ todo[e] = {}
    /\ call' = [call EXCEPT ![e] = "done"]
    /\ UNCHANGED <<clients, registering, todo, owed, send, closed, conn, job, hand, got>>

-----------------------------------------------------------------------------
(* writeLoop; a closed channel still gives the messages that are in it.    *)
Take(c) ==
    /\ job[c]["writeLoop"] = "run"
    /\ send[c] # <<>>
    /\ hand' = [hand EXCEPT ![c] = Head(send[c])]
    /\ send' = [send EXCEPT ![c] = Tail(@)]
    /\ job' = [job EXCEPT ![c]["writeLoop"] = "write"]
    /\ UNCHANGED <<clients, registering, calls, closed, conn, got>>

Ping(c) ==
    /\ job[c]["writeLoop"] = "run"
    /\ hand' = [hand EXCEPT ![c] = Heartbeat]
    /\ job' = [job EXCEPT ![c]["writeLoop"] = "write"]
    /\ UNCHANGED <<clients, registering, calls, send, closed, conn, got>>

(* WriteMessage has no deadline: while the peer reads nothing it waits.    *)
WriteDone(c) ==
    /\ job[c]["writeLoop"] = "write"
    /\ conn[c] # "stalled"
    /\ job' = [job EXCEPT ![c]["writeLoop"] = IF Broken(c) THEN "unregister" ELSE "run"]
    /\ got' = IF Broken(c) THEN got ELSE [got EXCEPT ![c] = @ \cup {hand[c]}]
    /\ hand' = [hand EXCEPT ![c] = Connected]
    /\ UNCHANGED <<clients, registering, calls, send, closed, conn>>

(* readLoop ends with the connection, writeLoop with the channel or with a *)
(* write that fails.                                                       *)
EndsWithChannel(c, g) == g = "writeLoop" /\ closed[c] /\ send[c] = <<>>
Ends(c, g) ==
    \/ g = "readLoop" /\ Broken(c)
    \/ g = "writeLoop" /\ closed[c] /\ send[c] = <<>>

Leave(c, g) ==
    /\ job[c][g] = "run"
    /\ Ends(c, g)
    /\ job' = [job EXCEPT ![c][g] = "unregister"]
    /\ UNCHANGED <<clients, registering, calls, send, closed, conn, hand, got>>

-----------------------------------------------------------------------------
(* unregister: its section under h.mu, then conn.Close by the goroutine    *)
(* that removed the connection.                                            *)
UnregisterUnlocked(c, g) ==
    /\ job[c][g] = "unregister"
    /\ clients' = clients \ {c}
    /\ closed' = [closed EXCEPT ![c] = TRUE]
    /\ job' = [job EXCEPT ![c][g] = IF c \in clients THEN "close" ELSE "done"]
    /\ UNCHANGED <<registering, calls, send, conn, hand, got>>
UnregisterOpen(c, g) ==
    /\ job[c][g] = "unregister"
    /\ Readers = {}
    /\ clients' = clients \ {c}
    /\ job' = [job EXCEPT ![c][g] = IF c \in clients THEN "close" ELSE "done"]
    /\ UNCHANGED <<registering, calls, send, closed, conn, hand, got>>
Unregister(c, g) ==
    /\ job[c][g] = "unregister"
    /\ Readers = {}
    /\ clients' = clients \ {c}
    /\ closed' = IF c \in clients THEN [closed EXCEPT ![c] = TRUE] ELSE closed
    /\ job' = [job EXCEPT ![c][g] = IF c \in clients THEN "close" ELSE "done"]
    /\ UNCHANGED <<registering, calls, send, conn, hand, got>>

CloseConn(c, g) ==
    /\ job[c][g] = "close"
    /\ conn' = [conn EXCEPT ![c] = "closed"]
    /\ job' = [job EXCEPT ![c][g] = "done"]
    /\ UNCHANGED <<clients, registering, calls, send, closed, hand, got>>

(* The peer stops reading, reads again, or goes away. *)
Peer(c) ==
    /\ \/ conn[c] = "open" /\ conn' = [conn EXCEPT ![c] = "stalled"]
       \/ conn[c] = "stalled" /\ conn' = [conn EXCEPT ![c] = "open"]
       \/ ~Broken(c) /\ conn' = [conn EXCEPT ![c] = "gone"]
    /\ UNCHANGED <<clients, registering, calls, send, closed, job, hand, got>>

-----------------------------------------------------------------------------
Serve(c) ==
    \/ Greet(c) \/ GreetPanics(c) \/ Take(c) \/ Ping(c) \/ WriteDone(c)
    \/ \E g \in Goroutines : Leave(c, g) \/ Unregister(c, g) \/ CloseConn(c, g)

Broadcasting(e) == (\E c \in Conns : Offer(e, c)) \/ EndBroadcast(e)

Next ==
    \/ \E c \in Conns : Register(c) \/ Serve(c) \/ Peer(c)
    \/ \E e \in Events : StartBroadcast(e) \/ Broadcasting(e)

Spec == Init /\ [][Next]_vars

(* Goroutines that can run do.  A lock that is asked for is granted: Go's  *)
(* RWMutex lets a waiting writer in before new readers.  The ticker is too *)
(* slow to keep writeLoop from its channel.                                *)
FairSpec ==
    /\ Spec
    /\ \A e \in Events : WF_vars(Broadcasting(e))
    /\ \A c \in Conns :
          /\ WF_vars(Greet(c)) /\ SF_vars(Take(c)) /\ WF_vars(WriteDone(c))
          /\ \A g \in Goroutines :
                WF_vars(Leave(c, g)) /\ WF_vars(Unregister(c, g) \/ CloseConn(c, g))

-----------------------------------------------------------------------------
(* Properties. *)

Typed ==
    /\ clients \subseteq Conns
    /\ registering \in [Conns -> {"new", "listed", "done", "panicked"}]
    /\ call \in [Events -> {"new", "sending", "done"}]
    /\ todo \in [Events -> SUBSET Conns]
    /\ \A c \in Conns : send[c] \in Seq(Events \cup {Connected}) /\ Len(send[c]) <= Cap
    /\ closed \in [Conns -> BOOLEAN]
    /\ conn \in [Conns -> {"open", "stalled", "gone", "closed"}]
    /\ job \in [Conns -> [Goroutines ->
                  {"none", "run", "write", "unregister", "close", "done"}]]
    /\ hand \in [Conns -> Events \cup {Connected, Heartbeat}]
    /\ got \in [Conns -> SUBSET (Events \cup {Connected, Heartbeat})]
    /\ owed \in [Conns -> SUBSET Events]

(* The state is well formed, and a connection that has left the map keeps  *)
(* nothing open: its channel is closed, so that writeLoop can end, and its *)
(* network connection is closed or some goroutine still has to close it.   *)
Released(c) ==
    /\ closed[c]
    /\ conn[c] = "closed" \/ \E g \in Goroutines : job[c][g] = "close"

TypeOK ==
    /\ Typed
    /\ \A c \in Conns : registering[c] = "new" \/ c \in clients \/ Released(c)

(* Neither a broadcast nor unregister can panic: what a broadcast still    *)
(* has to visit is open (a push would die on a closed channel), and so is  *)
(* every connection of the map (closing a channel twice in a goroutine     *)
(* would end the whole server).                                            *)
NoPanic ==
    /\ \A e \in Events : \A c \in todo[e] : ~closed[c]
    /\ \A c \in clients : ~closed[c]

(* A slow or stalled client never holds up a push: BroadcastChange ends    *)
(* whatever the connections do.                                            *)
BroadcastsEnd == \A e \in Events : call[e] = "sending" ~> call[e] = "done"

(* No event is lost in silence: a greeted connection gets every event that *)
(* was broadcast while it was registered, or is dropped from the hub; only *)
(* a peer that reads nothing may keep it waiting.                          *)
ServedOrGone ==
    \A c \in Conns : \A e \in Events :
        e \in owed[c] /\ registering[c] = "done"
            ~> e \in got[c] \/ c \notin clients \/ conn[c] = "stalled"

(* The goroutines of a connection that is broken come to their end, and    *)
(* the hub forgets it.                                                     *)
Forgotten(c) == c \notin clients /\ \A g \in Goroutines : job[c][g] \in {"none", "done"}
NoLeak ==
    \A c \in Conns : registering[c] = "done" /\ Broken(c) ~> Forgotten(c)
=============================================================================
