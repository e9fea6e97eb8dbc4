-------------------------- MODULE FactsReplication --------------------------
(***************************************************************************)
(* Replication of the fact database: facts_connection.c and the connection *)
(* entry points of facts.c.                                                *)
(*                                                                         *)
(* One authoritative database (the code's is_master end) and replicas that *)
(* dial it, each from its own address.  Every connection has a thread on   *)
(* each side; both databases are changed under their write lock, so an     *)
(* operation, the application of a received event, and the synchronisation *)
(* and registration of a new connection are one action each.  The network  *)
(* is a pair of FIFO streams that may break at any time and lose what is   *)
(* in flight.                                                              *)
(*                                                                         *)
(* Assumed, as the documentation requires: server_count is not 0 and       *)
(* replicas do not write on their own while they are not connected.        *)
(***************************************************************************)
EXTENDS Integers, FiniteSets, SequencesExt

CONSTANTS
  Triples,      \* the facts
  Replicas,     \* the replicas, each with an address of its own
  UwMax,        \* UW_MAX: this identifier is never given out
  MaxForwards   \* bound: writes of one replica on their way to the master

ASSUME UwMaxAssumption == UwMax \in Nat \ {0}
ASSUME MaxForwardsAssumption == MaxForwards \in Nat

VARIABLES
  store,      \* the master's facts: identifier or NoId
  nextId,     \* its next_id
  removeLog,  \* its retained deletions
  failed,     \* its log failed
  published,  \* history: the events it broadcast
  conn,       \* its connection from each address: none, open (running) or dead
  accepting,  \* the replica its acceptor is greeting, or idle or stopped
  copy,       \* the facts of each replica
  cursor,     \* the next_id of each replica
  link,       \* the replica's connection: none, dialing, open or dead
  session,    \* the connection between the two: none, dialed, greeted or up
  hello,      \* the next_id the replica sent when it dialed
  down,       \* events on their way to the replica
  up          \* writes on their way to the master

master == <<store, nextId, removeLog, failed, published>>
replica == <<copy, cursor>>
ends == <<conn, accepting, link, session, hello>>
wires == <<down, up>>
vars == <<master, replica, ends, wires>>

-----------------------------------------------------------------------------
NoId == 0
Ids == 0 .. UwMax
Stores == [Triples -> Ids]
Event(op, id, f) == [op |-> op, id |-> id, fact |-> f]
Events == [op : {"add", "remove"}, id : Ids, fact : Triples]
Writes == [op : {"add", "remove"}, fact : Triples]

Init ==
  /\ store = [f \in Triples |-> NoId] /\ nextId = 1 /\ removeLog = {}
  /\ failed = FALSE /\ published = {}
  /\ conn = [r \in Replicas |-> "none"] /\ accepting = "idle"
  /\ copy = [r \in Replicas |-> [f \in Triples |-> NoId]]
  /\ cursor = [r \in Replicas |-> 1]
  /\ link = [r \in Replicas |-> "none"]
  /\ session = [r \in Replicas |-> "none"]
  /\ hello = [r \in Replicas |-> NoId]
  /\ down = [r \in Replicas |-> <<>>] /\ up = [r \in Replicas |-> <<>>]

-----------------------------------------------------------------------------
(* The streams.                                                            *)

(* Faulty: a connection that failed to send stays in use.                  *)
BroadcastGoesOn(e) ==
  \E lost \in SUBSET {r \in Replicas : conn[r] = "open"} :
    /\ down' = [r \in Replicas |->
                  IF conn[r] = "open" /\ r \notin lost /\ session[r] = "up"
                  THEN Append(down[r], e) ELSE down[r]]
    /\ published' = published \cup {e}
    /\ UNCHANGED <<conn, session>>

(* facts_broadcast_add and facts_broadcast_remove: the event goes to every *)
(* running connection; one that cannot send is shut down before a later    *)
(* event can follow.                                                       *)
Broadcast(e) ==
  \E lost \in SUBSET {r \in Replicas : conn[r] = "open"} :
    /\ down' = [r \in Replicas |->
                  IF conn[r] = "open" /\ r \notin lost /\ session[r] = "up"
                  THEN Append(down[r], e) ELSE down[r]]
    /\ conn' = [r \in Replicas |-> IF r \in lost THEN "dead" ELSE conn[r]]
    /\ session' = [r \in Replicas |->
                     IF r \in lost /\ session[r] = "up" THEN "none"
                     ELSE session[r]]
    /\ published' = published \cup {e}

-----------------------------------------------------------------------------
(* The master.                                                             *)

(* facts_add_fact_local outside a transaction, or one fact of a commit.    *)
MasterAdd(f) ==
  /\ ~failed /\ store[f] = NoId /\ nextId < UwMax
  /\ store' = [store EXCEPT ![f] = nextId]
  /\ nextId' = nextId + 1
  /\ Broadcast(Event("add", nextId, f))
  /\ UNCHANGED <<removeLog, failed>>

(* Faulty: the deletion is sent and not retained.                          *)
MasterRemoveForgotten(f) ==
  /\ ~failed /\ store[f] # NoId /\ nextId < UwMax
  /\ store' = [store EXCEPT ![f] = NoId]
  /\ nextId' = nextId + 1
  /\ Broadcast(Event("remove", nextId, f))
  /\ UNCHANGED <<removeLog, failed>>

(* facts_remove_fact_local: the deletion is retained, then sent, under an  *)
(* identifier of its own.                                                  *)
MasterRemove(f) ==
  /\ ~failed /\ store[f] # NoId /\ nextId < UwMax
  /\ store' = [store EXCEPT ![f] = NoId]
  /\ nextId' = nextId + 1
  /\ removeLog' = removeLog \cup {Event("remove", nextId, f)}
  /\ Broadcast(Event("remove", nextId, f))
  /\ UNCHANGED failed

MasterWrite(f) ==
  /\ MasterAdd(f) \/ MasterRemove(f)
  /\ UNCHANGED <<replica, accepting, link, hello, up>>

(* A transaction takes an identifier that no event carries.                *)
MasterTransaction ==
  /\ ~failed /\ nextId < UwMax
  /\ nextId' = nextId + 1
  /\ UNCHANGED <<store, removeLog, failed, published, replica, ends, wires>>

(* A commit that cannot be logged: its facts stay in memory, unpublished.  *)
MasterLogFails(f) ==
  /\ ~failed /\ nextId < UwMax
  /\ store' = [store EXCEPT ![f] = IF @ = NoId THEN nextId ELSE NoId]
  /\ nextId' = nextId + 1
  /\ failed' = TRUE
  /\ UNCHANGED <<removeLog, published, replica, ends, wires>>

(* facts_connection_thread reads a write that a replica forwarded and      *)
(* applies it as one of the master's own.  A failure ends the connection.  *)
NoEffect(w) == (store[w.fact] # NoId) = (w.op = "add")

ApplyForwarded(r) ==
  LET w == Head(up[r]) IN
  /\ conn[r] = "open" /\ up[r] # <<>>
  /\ up' = [up EXCEPT ![r] = Tail(@)]
  /\ \/ w.op = "add" /\ MasterAdd(w.fact)
     \/ w.op = "remove" /\ MasterRemove(w.fact)
     \/ /\ ~failed /\ NoEffect(w)
        /\ UNCHANGED <<master, conn, session, down>>
     \/ /\ failed \/ (nextId = UwMax /\ ~NoEffect(w))
        /\ conn' = [conn EXCEPT ![r] = "dead"]
        /\ session' = [session EXCEPT ![r] = "none"]
        /\ UNCHANGED <<master, down>>
  /\ UNCHANGED <<replica, accepting, link, hello>>

(* The thread finds its stream closed.  Its connection stays listed.       *)
MasterHangsUp(r) ==
  /\ conn[r] = "open" /\ session[r] # "up"
  /\ conn' = [conn EXCEPT ![r] = "dead"]
  /\ UNCHANGED <<master, replica, accepting, link, session, hello, wires>>

(* facts_connections_close_all: the whole list, running or not.            *)
MasterCloseAll ==
  /\ \E r \in Replicas : conn[r] # "none"
  /\ conn' = [r \in Replicas |-> "none"]
  /\ session' = [r \in Replicas |->
                   IF session[r] = "up" THEN "none" ELSE session[r]]
  /\ up' = [r \in Replicas |-> IF conn[r] = "none" THEN up[r] ELSE <<>>]
  /\ UNCHANGED <<master, replica, accepting, link, hello, down>>

-----------------------------------------------------------------------------
(* A connection is made.                                                   *)

(* facts_connect, up to the greeting with the replica's next_id.  It is    *)
(* refused while a connection to that address is listed.                   *)
Dial(r) ==
  /\ link[r] = "none"
  /\ link' = [link EXCEPT ![r] = "dialing"]
  /\ session' = [session EXCEPT ![r] = "dialed"]
  /\ hello' = [hello EXCEPT ![r] = cursor[r]]
  /\ UNCHANGED <<master, replica, conn, accepting, wires>>

(* Faulty: a connection that is refused is left open.                      *)
RefuseSilently(r) ==
  /\ accepting = "idle" /\ session[r] = "dialed" /\ conn[r] # "none"
  /\ accepting' = "stopped"
  /\ UNCHANGED <<master, replica, conn, link, session, hello, wires>>

(* facts_connection_find_by_addr finds a connection, running or not: the   *)
(* new one is closed, and facts_acceptor_loop_thread ends.                 *)
Refuse(r) ==
  /\ accepting = "idle" /\ session[r] = "dialed" /\ conn[r] # "none"
  /\ accepting' = "stopped"
  /\ session' = [session EXCEPT ![r] = "none"]
  /\ link' = [link EXCEPT ![r] = "none"]
  /\ UNCHANGED <<master, replica, conn, hello, wires>>

(* The master sends its greeting.                                          *)
Greet(r) ==
  /\ accepting = "idle" /\ session[r] = "dialed" /\ conn[r] = "none"
  /\ accepting' = r
  /\ session' = [session EXCEPT ![r] = "greeted"]
  /\ up' = [up EXCEPT ![r] = <<>>]
  /\ down' = [down EXCEPT ![r] = <<>>]
  /\ UNCHANGED <<master, replica, conn, link, hello>>

(* What facts_connection_sync sends: the retained deletions and the stored *)
(* facts from cursor c on, merged by identifier.                           *)
ById(S) ==
  [i \in 1 .. Cardinality(S) |->
     CHOOSE e \in S : Cardinality({d \in S : d.id <= e.id}) = i]

Sync(c) ==
  ById({e \in removeLog : e.id >= c}
         \cup {Event("add", store[f], f) : f \in {g \in Triples : store[g] >= c}})

(* Faulty: synchronises although facts may be stored and not published.    *)
SyncAnyway(c) == c <= nextId

SyncAllowed(c) == ~failed /\ c <= nextId

(* facts_connection_add at the master, under the write lock: synchronises  *)
(* the replica, which may be gone already, and registers the connection.   *)
Accept(r) ==
  /\ accepting = r /\ SyncAllowed(hello[r])
  /\ accepting' = "idle"
  /\ conn' = [conn EXCEPT ![r] = "open"]
  /\ IF session[r] = "greeted"
     THEN /\ session' = [session EXCEPT ![r] = "up"]
          /\ down' = [down EXCEPT ![r] = Sync(hello[r])]
     ELSE UNCHANGED <<session, down>>
  /\ UNCHANGED <<master, replica, link, hello, up>>

(* The synchronisation is refused, or breaks off after some of the events. *)
(* facts_acceptor_loop_thread ends.                                        *)
AcceptFails(r) ==
  /\ accepting = r
  /\ accepting' = "stopped"
  /\ session' = [session EXCEPT ![r] = IF @ = "greeted" THEN "none" ELSE @]
  /\ IF session[r] = "greeted" /\ SyncAllowed(hello[r])
     THEN \E n \in 0 .. Len(Sync(hello[r])) :
            down' = [down EXCEPT ![r] = SubSeq(Sync(hello[r]), 1, n)]
     ELSE UNCHANGED down
  /\ UNCHANGED <<master, replica, conn, link, hello, up>>

(* facts_acceptor_loop, when the application calls it again: the library   *)
(* does not.                                                               *)
AcceptorStart ==
  /\ accepting = "stopped"
  /\ accepting' = "idle"
  /\ UNCHANGED <<master, replica, conn, link, session, hello, wires>>

(* facts_connection_add at the replica, once the greeting has come.        *)
Register(r) ==
  /\ link[r] = "dialing" /\ session[r] # "dialed"
  /\ link' = [link EXCEPT ![r] = "open"]
  /\ UNCHANGED <<master, replica, conn, accepting, session, hello, wires>>

RegisterFails(r) ==
  /\ link[r] = "dialing"
  /\ link' = [link EXCEPT ![r] = "none"]
  /\ session' = [session EXCEPT ![r] = "none"]
  /\ down' = [down EXCEPT ![r] = <<>>]
  /\ UNCHANGED <<master, replica, conn, accepting, hello, up>>

-----------------------------------------------------------------------------
(* A replica.                                                              *)

(* facts_add_fact_id and facts_remove_fact_id.                             *)
Apply(s, e) ==
  IF e.op = "remove" THEN [s EXCEPT ![e.fact] = NoId]
  ELSE IF s[e.fact] # NoId THEN s
  ELSE [s EXCEPT ![e.fact] = e.id]

(* Faulty: an event at the cursor is taken for one already applied.        *)
StaleAtCursor(r, e) == e.id <= cursor[r]

Stale(r, e) == e.id < cursor[r]

(* Faulty: the cursor stays on the event.                                  *)
SameCursor(e) == e.id

NextCursor(e) == e.id + 1

(* facts_connection_apply: the event is applied, and the cursor passes it. *)
Deliver(r) ==
  LET e == Head(down[r]) IN
  /\ link[r] = "open" /\ down[r] # <<>>
  /\ down' = [down EXCEPT ![r] = Tail(@)]
  /\ IF Stale(r, e) THEN UNCHANGED replica
     ELSE /\ copy' = [copy EXCEPT ![r] = Apply(@, e)]
          /\ cursor' = [cursor EXCEPT ![r] = NextCursor(e)]
  /\ UNCHANGED <<master, ends, up>>

(* Faulty: the thread ends without closing the connection.                 *)
DeliverFailsQuietly(r) ==
  /\ link[r] = "open" /\ down[r] # <<>>
  /\ link' = [link EXCEPT ![r] = "dead"]
  /\ UNCHANGED <<master, replica, conn, accepting, session, hello, wires>>

(* The event cannot be applied: next_id is put back and the thread ends.   *)
DeliverFails(r) ==
  /\ link[r] = "open" /\ down[r] # <<>>
  /\ link' = [link EXCEPT ![r] = "dead"]
  /\ session' = [session EXCEPT ![r] = "none"]
  /\ down' = [down EXCEPT ![r] = <<>>]
  /\ UNCHANGED <<master, replica, conn, accepting, hello, up>>

ReplicaHangsUp(r) ==
  /\ link[r] = "open" /\ session[r] = "none" /\ down[r] = <<>>
  /\ link' = [link EXCEPT ![r] = "dead"]
  /\ UNCHANGED <<master, replica, conn, accepting, session, hello, wires>>

(* facts_connections_close_all.                                            *)
ReplicaCloseAll(r) ==
  /\ link[r] \in {"open", "dead"}
  /\ link' = [link EXCEPT ![r] = "none"]
  /\ session' = [session EXCEPT ![r] = "none"]
  /\ down' = [down EXCEPT ![r] = <<>>]
  /\ UNCHANGED <<master, replica, conn, accepting, hello, up>>

(* facts_add_fact and facts_remove_fact while facts_connection_get_master  *)
(* finds a connection: sent, and reported as done.                         *)
Forward(r, w) ==
  /\ link[r] = "open" /\ Len(up[r]) < MaxForwards
  /\ up' = IF session[r] = "none" THEN up ELSE [up EXCEPT ![r] = Append(@, w)]
  /\ UNCHANGED <<master, replica, ends, down>>

-----------------------------------------------------------------------------
(* The network.                                                            *)

Break(r) ==
  /\ session[r] \in {"greeted", "up"}
  /\ session' = [session EXCEPT ![r] = "none"]
  /\ UNCHANGED <<master, replica, conn, accepting, link, hello, wires>>

(* What is in flight when a connection breaks may be lost, last first.     *)
Lose(r) ==
  /\ session[r] = "none"
  /\ \/ down[r] # <<>> /\ down' = [down EXCEPT ![r] = Front(@)] /\ UNCHANGED up
     \/ up[r] # <<>> /\ up' = [up EXCEPT ![r] = Front(@)] /\ UNCHANGED down
  /\ UNCHANGED <<master, replica, ends>>

-----------------------------------------------------------------------------
Next ==
  \/ \E f \in Triples : MasterWrite(f) \/ MasterLogFails(f)
  \/ MasterTransaction \/ MasterCloseAll \/ AcceptorStart
  \/ \E r \in Replicas :
       \/ ApplyForwarded(r) \/ MasterHangsUp(r)
       \/ Dial(r) \/ Refuse(r) \/ Greet(r) \/ Accept(r) \/ AcceptFails(r)
       \/ Register(r) \/ RegisterFails(r)
       \/ Deliver(r) \/ DeliverFails(r) \/ ReplicaHangsUp(r)
       \/ ReplicaCloseAll(r) \/ \E w \in Writes : Forward(r, w)
       \/ Break(r) \/ Lose(r)

Spec == Init /\ [][Next]_vars

(* The threads of a connection are scheduled, and what was sent on a       *)
(* connection that holds arrives; the acceptor, while it runs, takes the   *)
(* dials in the order of the listen queue; and a replica that the master   *)
(* has answered goes on.  Nothing starts an acceptor that has stopped, and *)
(* nothing ends the acceptor's part of a handshake.                        *)
FairSpec ==
  /\ Spec
  /\ \A r \in Replicas :
       /\ WF_vars(Deliver(r)) /\ WF_vars(ApplyForwarded(r))
       /\ WF_vars(MasterHangsUp(r)) /\ WF_vars(ReplicaHangsUp(r))
       /\ SF_vars(Refuse(r) \/ Greet(r))
       /\ WF_vars(session[r] # "dialed" /\ (Register(r) \/ RegisterFails(r)))

(* A replica that closes a connection that ended and dials again, where    *)
(* the application starts a stopped acceptor again, every handshake ends,  *)
(* and one that is tried again and again succeeds at last.                 *)
RedialSpec ==
  /\ FairSpec
  /\ WF_vars(AcceptorStart)
  /\ \A r \in Replicas :
       /\ WF_vars(Dial(r))
       /\ WF_vars(link[r] = "dead" /\ ReplicaCloseAll(r))
       /\ WF_vars(Accept(r) \/ AcceptFails(r))
       /\ SF_vars(Accept(r) /\ session[r] = "greeted")

-----------------------------------------------------------------------------
(* The types of the variables.                                             *)
TypeOK ==
  /\ store \in Stores /\ nextId \in 1 .. UwMax
  /\ removeLog \in SUBSET Events
  /\ failed \in BOOLEAN
  /\ published \in SUBSET Events
  /\ conn \in [Replicas -> {"none", "open", "dead"}]
  /\ accepting \in Replicas \cup {"idle", "stopped"}
  /\ copy \in [Replicas -> Stores]
  /\ cursor \in [Replicas -> 1 .. UwMax]
  /\ link \in [Replicas -> {"none", "dialing", "open", "dead"}]
  /\ session \in [Replicas -> {"none", "dialed", "greeted", "up"}]
  /\ hello \in [Replicas -> Ids]
  /\ down \in [Replicas -> Seq(Events)]
  /\ up \in [Replicas -> Seq(Writes)]

(* The facts of a replica once it has read these events.                   *)
Read(r, events) ==
  LET read[i \in 0 .. Len(events)] ==
        IF i = 0 THEN copy[r]
        ELSE IF Stale(r, events[i]) THEN read[i - 1]
        ELSE Apply(read[i - 1], events[i])
  IN read[Len(events)]

(* What is on its way to a connected replica brings it to the facts of the *)
(* master, identifiers included: nothing is lost or applied twice between  *)
(* the cursor, the synchronisation and the events that follow.             *)
StreamCompletes ==
  ~failed => \A r \in Replicas : session[r] = "up" => Read(r, down[r]) = store

(* Wherever a replica was cut off, in the middle of a synchronisation too, *)
(* the master can bring it up to date from its cursor.                     *)
ResumesFromCursor ==
  ~failed => \A r \in Replicas : Read(r, Sync(cursor[r])) = store

(* A replica never holds a fact that the master has not published.         *)
NothingUnpublished ==
  \A r \in Replicas : \A f \in Triples :
    copy[r][f] # NoId => Event("add", copy[r][f], f) \in published

(* A cursor is never ahead of the master, which would refuse it for good,  *)
(* and the facts of a replica are all older than its cursor.               *)
CursorBehind ==
  \A r \in Replicas :
    /\ hello[r] <= cursor[r] /\ cursor[r] <= nextId
    /\ \A f \in Triples : copy[r][f] < cursor[r]

(* A replica whose connection holds catches up with the master.            *)
Converges ==
  \A r \in Replicas :
    <>[](session[r] = "up" /\ link[r] = "open" /\ ~failed)
      => <>[](copy[r] = store)

(* When the thread of one end stops, the other end ends its own.           *)
BothEndsClose ==
  \A r \in Replicas :
    /\ link[r] = "dead" ~> link[r] # "dead" \/ conn[r] # "open"
    /\ conn[r] = "dead" ~> conn[r] # "dead" \/ link[r] # "open"

(* A replica that dials gets an answer for as long as the acceptor comes   *)
(* back to accepting: it is then never left open and unheard, not when it  *)
(* is refused either.  The acceptor does not come back by itself once an   *)
(* accept has failed, or while a handshake hangs; the replica then waits.  *)
DialsAnswered ==
  \A r \in Replicas :
    []<>(accepting = "idle") => (link[r] = "dialing" ~> link[r] # "dialing")

(* A replica that was cut off and dials again is synchronised again.       *)
ReplayResumes ==
  \A r \in Replicas : link[r] = "dead" ~> session[r] = "up" \/ failed
=============================================================================
