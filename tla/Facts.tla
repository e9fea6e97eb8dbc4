-------------------------------- MODULE Facts --------------------------------
(***************************************************************************)
(* The fact database of libkc3 on one node: facts.c, facts_transaction.c,  *)
(* fact_action.c and log.c.                                                *)
(*                                                                         *)
(* Every public operation takes the write lock of the database, which is   *)
(* recursive, and a transaction keeps it until it ends (RwLock.tla).  An   *)
(* operation outside a transaction is one action.  What the code does in a *)
(* loop with the lock held is one action per iteration: the undo of a      *)
(* rollback, the publication of an outermost commit, and the removals of   *)
(* facts_replace_tags and of facts_remove_fact_tags with a wildcard.       *)
(*                                                                         *)
(* Failures are those the code handles: no memory for an action, for the   *)
(* record of a deletion or for an item of the set, a log write that fails  *)
(* before or after the record reached the file, and identifiers that run   *)
(* out at UW_MAX.  Three it does not handle are left out.  The item of a   *)
(* fact whose bucket is in use: the rest of the bucket is lost from the    *)
(* set (FactsQuery.tla has it).  A node of a skip list: the process ends   *)
(* in skiplist_insert__fact.  And a rollback without memory: it aborts.    *)
(***************************************************************************)
EXTENDS Integers, SequencesExt

CONSTANTS
  Tags,         \* the values facts are made of
  Triples,      \* the facts an application may store
  UwMax,        \* UW_MAX: this identifier is never given out
  MaxDepth,     \* bound: transactions open at a time
  HasLog,       \* facts->log # NULL: the database is open on a file
  Connected,    \* replicas are connected
  ServerCount,  \* facts->server_count # 0
  FailStages    \* what memory may run out for

(* An action, an item of an empty bucket. *)
Stages == {"action", "set"}

ASSUME TriplesAssumption == Triples \subseteq Tags \X Tags \X Tags
ASSUME UwMaxAssumption == UwMax \in Nat \ {0}
ASSUME MaxDepthAssumption == MaxDepth \in Nat
ASSUME FlagsAssumption == {HasLog, Connected, ServerCount} \subseteq BOOLEAN
ASSUME FailStagesAssumption == FailStages \subseteq Stages

VARIABLES
  store,      \* facts->facts: the identifier of each stored fact, or NoId
  index,      \* the facts each of the four skip lists holds
  usage,      \* facts->tags: the references to each tag
  nextId,     \* facts->next_id
  txns,       \* facts->transaction: the open transactions, innermost first
  pub,        \* the actions of an ending transaction still to be published
  phase,      \* what the holder of the lock is doing
  unwind,     \* transactions a running rollback has still to undo
  held,       \* recursion count of the write lock
  job,        \* stage of a facts_replace_tags or facts_remove_fact_tags
  todo,       \* facts that operation has still to remove
  toAdd,      \* the fact it has still to add, if any
  disk,       \* records in the log file
  failed,     \* facts->log->failed
  hooked,     \* records for which the log hooks were called
  sent,       \* events broadcast to the replicas
  removeLog,  \* facts->remove_log: retained deletions, newest first
  aborted     \* the rollback called abort()

data == <<store, index, usage>>
txnState == <<txns, pub, phase, unwind, held>>
jobState == <<job, todo, toAdd>>
logFile == <<disk, failed, hooked>>
output == <<logFile, sent, removeLog>>
vars == <<data, nextId, txnState, jobState, output, aborted>>

-----------------------------------------------------------------------------
NoId == 0
Ids == 0 .. UwMax
Indexes == {"index", "spo", "pos", "osp"}
Stores == [Triples -> Ids]

Stored(f) == store[f] # NoId
InTransaction == txns # <<>>

Event(op, id, f) == [op |-> op, id |-> id, fact |-> f]
Events == [op : {"add", "remove"}, id : Ids, fact : Triples]

(* s_fact_action; oldId is fact.id, the identifier a rollback restores.    *)
(* before is the store the action changed: history, never read by a step.  *)
Actions == [op : {"add", "remove"}, id : Ids, fact : Triples, oldId : Ids,
            broadcast : BOOLEAN, before : Stores]

(* s_facts_transaction, its log newest first.  base is history: the store  *)
(* when the transaction started.                                           *)
Transactions == [id : Ids, log : Seq(Actions), base : Stores]

(* References that fact f holds on tag t. *)
Uses(f, t) ==
  (IF f[1] = t THEN 1 ELSE 0) + (IF f[2] = t THEN 1 ELSE 0)
                              + (IF f[3] = t THEN 1 ELSE 0)
Ref(f) == usage' = [t \in Tags |-> usage[t] + Uses(f, t)]
Unref(f) == usage' = [t \in Tags |-> usage[t] - Uses(f, t)]

(* A fact whose action is logged is referenced twice: by the fact stored   *)
(* and by the action.                                                      *)
RefTwice(f) == usage' = [t \in Tags |-> usage[t] + 2 * Uses(f, t)]

Link(f, id) ==
  /\ store' = [store EXCEPT ![f] = id]
  /\ index' = [i \in Indexes |-> index[i] \cup {f}]

Unlink(f) ==
  /\ store' = [store EXCEPT ![f] = NoId]
  /\ index' = [i \in Indexes |-> index[i] \ {f}]

(* The test of facts->log->failed at the start of every operation.         *)
Writable == ~failed

(* Faulty: gives out UW_MAX, after which next_id would wrap.               *)
TakeAnyId == nextId' = nextId + 1

TakeId ==
  /\ nextId < UwMax
  /\ nextId' = nextId + 1

(* Write a record and call the hooks.                                      *)
WriteRecord(e) ==
  /\ disk' = IF HasLog THEN Append(disk, e) ELSE disk
  /\ hooked' = IF HasLog THEN Append(hooked, e) ELSE hooked
  /\ UNCHANGED failed

(* Faulty: the log stays usable after a failed write.                      *)
WriteForgotten(e) ==
  /\ HasLog
  /\ disk' \in {disk, Append(disk, e)}
  /\ UNCHANGED <<failed, hooked>>

(* The write fails; the record may have reached the file all the same.     *)
WriteFails(e) ==
  /\ HasLog
  /\ failed' = TRUE
  /\ disk' \in {disk, Append(disk, e)}
  /\ UNCHANGED hooked

Broadcast(e, wanted) ==
  sent' = IF Connected /\ wanted THEN Append(sent, e) ELSE sent

Retain(e) ==
  removeLog' = IF ServerCount /\ e.op = "remove"
               THEN <<e>> \o removeLog ELSE removeLog

(* fact_action_new, and the push on the log of the innermost transaction.  *)
LogAction(op, f, id, wanted) ==
  txns' = [txns EXCEPT ![1].log =
             <<[op |-> op, id |-> id, fact |-> f, broadcast |-> wanted,
                oldId |-> IF op = "add" THEN id ELSE store[f],
                before |-> store]>> \o @]

-----------------------------------------------------------------------------
Init ==
  /\ store = [f \in Triples |-> NoId]
  /\ index = [i \in Indexes |-> {}]
  /\ usage = [t \in Tags |-> 0]
  /\ nextId = 1
  /\ txns = <<>> /\ pub = <<>>
  /\ phase = "idle" /\ unwind = 0 /\ held = 0
  /\ job = "none" /\ todo = {} /\ toAdd = {}
  /\ disk = <<>> /\ failed = FALSE /\ hooked = <<>>
  /\ sent = <<>> /\ removeLog = <<>>
  /\ aborted = FALSE

(* Faulty: broadcasts before the commit.                                   *)
AddInTransactionBroadcast(f) ==
  /\ InTransaction /\ Writable /\ ~Stored(f)
  /\ TakeId
  /\ Link(f, nextId)
  /\ RefTwice(f)
  /\ LogAction("add", f, nextId, FALSE)
  /\ Broadcast(Event("add", nextId, f), TRUE)
  /\ UNCHANGED <<pub, phase, unwind, held, logFile, removeLog, aborted>>

(* facts_add_fact_local in a transaction: the fact is referenced, linked   *)
(* and logged for undo; nothing is published.                              *)
AddInTransaction(f) ==
  /\ InTransaction /\ Writable /\ ~Stored(f)
  /\ TakeId
  /\ Link(f, nextId)
  /\ RefTwice(f)
  /\ LogAction("add", f, nextId, TRUE)
  /\ UNCHANGED <<pub, phase, unwind, held, output, aborted>>

(* facts_add_fact_local outside a transaction: logged, then broadcast.     *)
AddAlone(f) ==
  /\ ~InTransaction /\ Writable /\ ~Stored(f)
  /\ TakeId
  /\ Link(f, nextId)
  /\ Ref(f)
  /\ WriteRecord(Event("add", nextId, f))
  /\ Broadcast(Event("add", nextId, f), TRUE)
  /\ UNCHANGED <<txnState, removeLog, aborted>>

(* What facts_add_fact_local takes a fact out of that it could not log.    *)
(* Faulty: one skip list is forgotten.                                     *)
TakenOutButOsp == {"index", "spo", "pos", "set"}

TakenOut == {"index", "spo", "pos", "osp", "set"}

(* The fact was in all five.  Its references are given back.               *)
Unwound(f) ==
  /\ store' = IF "set" \in TakenOut THEN store ELSE [store EXCEPT ![f] = nextId]
  /\ index' = [i \in Indexes |->
                 IF i \in TakenOut THEN index[i] ELSE index[i] \cup {f}]
  /\ UNCHANGED usage

(* facts_add_fact_local finds no memory for the action of a transaction,   *)
(* or for the item; the identifier is consumed, the references given back. *)
AddRunsOutOfMemory(f) ==
  /\ Writable /\ ~Stored(f)
  /\ TakeId
  /\ \E stage \in FailStages : stage = "action" => InTransaction
  /\ UNCHANGED <<data, txnState, output, aborted>>

(* facts_add_fact_local cannot log the fact and takes it out again.        *)
AddNotLogged(f) ==
  /\ ~InTransaction /\ Writable /\ ~Stored(f)
  /\ TakeId
  /\ WriteFails(Event("add", nextId, f))
  /\ Unwound(f)
  /\ UNCHANGED <<txnState, sent, removeLog, aborted>>

(* facts_remove_fact_local in a transaction: the action keeps the tags     *)
(* that the fact gives back.                                               *)
RemoveInTransaction(f) ==
  /\ InTransaction /\ Writable /\ Stored(f)
  /\ TakeId
  /\ LogAction("remove", f, nextId, ServerCount)
  /\ Unlink(f)
  /\ UNCHANGED <<usage, pub, phase, unwind, held, output, aborted>>

(* facts_remove_fact_local outside a transaction.  Only a removal someone  *)
(* will read about, in the log or on a replica, is numbered.               *)
RemoveAlone(f) ==
  LET numbered == HasLog \/ ServerCount
      e == Event("remove", IF numbered THEN nextId ELSE NoId, f)
  IN
  /\ ~InTransaction /\ Writable /\ Stored(f)
  /\ IF numbered THEN TakeId ELSE UNCHANGED nextId
  /\ WriteRecord(e)
  /\ Retain(e)
  /\ Broadcast(e, ServerCount)
  /\ Unlink(f)
  /\ Unref(f)
  /\ UNCHANGED <<txnState, aborted>>

(* No memory for the action or for the deletion record.                    *)
RemoveRunsOutOfMemory(f) ==
  /\ "action" \in FailStages
  /\ InTransaction \/ ServerCount
  /\ Writable /\ Stored(f)
  /\ TakeId
  /\ UNCHANGED <<data, txnState, output, aborted>>

(* facts_remove_fact_local cannot log the removal: the fact stays.         *)
RemoveNotLogged(f) ==
  /\ ~InTransaction /\ Writable /\ Stored(f)
  /\ TakeId
  /\ WriteFails(Event("remove", nextId, f))
  /\ UNCHANGED <<data, txnState, sent, removeLog, aborted>>

(* facts_transaction_start, which keeps the write lock.  It takes an       *)
(* identifier too.                                                         *)
TransactionStart ==
  /\ Writable
  /\ Len(txns) < MaxDepth
  /\ TakeId
  /\ txns' = <<[id |-> nextId, log |-> <<>>, base |-> store]>> \o txns
  /\ held' = held + 1
  /\ UNCHANGED <<data, pub, phase, unwind, output, aborted>>

(* Faulty: the inner log is put behind the outer one.                      *)
EndInnerBehind ==
  /\ Len(txns) > 1
  /\ txns' = [Tail(txns) EXCEPT ![1].log = @ \o Head(txns).log]
  /\ held' = held - 1
  /\ UNCHANGED <<data, nextId, pub, phase, unwind, output, aborted>>

(* facts_transaction_end of a nested transaction: its actions become the   *)
(* newest of the enclosing one.                                            *)
EndInner ==
  /\ Len(txns) > 1
  /\ txns' = [Tail(txns) EXCEPT ![1].log = Head(txns).log \o @]
  /\ held' = held - 1
  /\ UNCHANGED <<data, nextId, pub, phase, unwind, output, aborted>>

(* Faulty: publishes the newest action first.                              *)
EndOutermostReversed ==
  /\ Len(txns) = 1
  /\ pub' = Head(txns).log
  /\ txns' = <<>>
  /\ phase' = "publishing"
  /\ UNCHANGED <<data, nextId, unwind, held, output, aborted>>

(* facts_transaction_end of the outermost transaction: its actions are put *)
(* in the order they were made and published with the lock held.           *)
EndOutermost ==
  /\ Len(txns) = 1
  /\ pub' = Reverse(Head(txns).log)
  /\ txns' = <<>>
  /\ phase' = "publishing"
  /\ UNCHANGED <<data, nextId, unwind, held, output, aborted>>

TransactionEnd == EndInner \/ EndOutermost

EventOf(a) == Event(a.op, a.id, a.fact)

(* One turn of the loop of facts_transaction_end: log and hooks, then      *)
(* replicas, then retained deletions.  The action gives its tags back.     *)
PublishNext ==
  /\ phase = "publishing" /\ pub # <<>> /\ ~failed
  /\ WriteRecord(EventOf(Head(pub)))
  /\ Broadcast(EventOf(Head(pub)), Head(pub).broadcast)
  /\ Retain(EventOf(Head(pub)))
  /\ Unref(Head(pub).fact)
  /\ pub' = Tail(pub)
  /\ UNCHANGED <<store, index, nextId, txns, phase, unwind, held, aborted>>

(* Faulty: the event is broadcast although its record failed.              *)
PublishFailsAnnounced ==
  /\ phase = "publishing" /\ pub # <<>> /\ ~failed
  /\ WriteFails(EventOf(Head(pub)))
  /\ Broadcast(EventOf(Head(pub)), Head(pub).broadcast)
  /\ Unref(Head(pub).fact)
  /\ pub' = Tail(pub)
  /\ UNCHANGED <<store, index, nextId, txns, phase, unwind, held, removeLog,
                 aborted>>

PublishFails ==
  /\ phase = "publishing" /\ pub # <<>> /\ ~failed
  /\ WriteFails(EventOf(Head(pub)))
  /\ Unref(Head(pub).fact)
  /\ pub' = Tail(pub)
  /\ UNCHANGED <<store, index, nextId, txns, phase, unwind, held, sent,
                 removeLog, aborted>>

(* Faulty: the actions after a failed record are never freed.              *)
DiscardLeaky ==
  /\ phase = "publishing" /\ pub # <<>> /\ failed
  /\ pub' = Tail(pub)
  /\ UNCHANGED <<data, nextId, txns, phase, unwind, held, output, aborted>>

(* Faulty: the loop stops at the failed record and never leaves it.        *)
DiscardNothing ==
  /\ phase = "publishing" /\ pub # <<>> /\ failed
  /\ UNCHANGED <<data, nextId, txnState, output, aborted>>

(* The actions after a failed record are freed, unpublished.               *)
Discard ==
  /\ phase = "publishing" /\ pub # <<>> /\ failed
  /\ Unref(Head(pub).fact)
  /\ pub' = Tail(pub)
  /\ UNCHANGED <<store, index, nextId, txns, phase, unwind, held, output,
                 aborted>>

PublishDone ==
  /\ phase = "publishing" /\ pub = <<>>
  /\ phase' = "idle"
  /\ held' = held - 1
  /\ UNCHANGED <<data, nextId, txns, pub, unwind, output, aborted>>

(* facts_transaction_rollback of the n-th innermost transaction, which     *)
(* unwinds those opened since as well.                                     *)
Rollback(n) ==
  /\ n \in 1 .. Len(txns)
  /\ phase' = "rolling"
  /\ unwind' = n
  /\ UNCHANGED <<data, nextId, txns, pub, held, output, aborted>>

Undoing(op) ==
  /\ phase = "rolling"
  /\ Head(txns).log # <<>>
  /\ Head(Head(txns).log).op = op
  /\ txns' = [txns EXCEPT ![1].log = Tail(@)]

(* facts_remove_fact_local while rolling back: no identifier, no action.   *)
(* A fact that is not there ends the process.  The tags of the action are  *)
(* given back with the fact's.                                             *)
UndoAdd ==
  LET f == Head(Head(txns).log).fact IN
  /\ Undoing("add")
  /\ Unlink(f)
  /\ usage' = [t \in Tags |-> usage[t] - 2 * Uses(f, t)]
  /\ aborted' = ~Stored(f)
  /\ UNCHANGED <<nextId, pub, phase, unwind, held, output>>

(* Faulty: the restored fact is given a new identifier.                    *)
UndoRemoveRenumbered ==
  LET f == Head(Head(txns).log).fact IN
  /\ Undoing("remove")
  /\ TakeId
  /\ Link(f, nextId)
  /\ UNCHANGED <<usage, pub, phase, unwind, held, output, aborted>>

(* facts_add_fact_id while rolling back: the fact comes back under the     *)
(* identifier it had and takes over the references of the action.  A fact  *)
(* already there is left alone; UW_MAX is refused, which ends the process. *)
UndoRemove ==
  LET a == Head(Head(txns).log) IN
  /\ Undoing("remove")
  /\ IF Stored(a.fact)
     THEN Unref(a.fact) /\ UNCHANGED <<store, index, nextId>>
     ELSE /\ Link(a.fact, a.oldId)
          /\ nextId' = IF a.oldId >= nextId THEN a.oldId + 1 ELSE nextId
          /\ UNCHANGED usage
  /\ aborted' = (a.oldId = UwMax)
  /\ UNCHANGED <<pub, phase, unwind, held, output>>

(* The log of the innermost transaction is undone: it is closed.           *)
UndoneTransaction ==
  /\ phase = "rolling"
  /\ Head(txns).log = <<>>
  /\ txns' = Tail(txns)
  /\ held' = held - 1
  /\ unwind' = unwind - 1
  /\ phase' = IF unwind = 1 THEN "idle" ELSE "rolling"
  /\ UNCHANGED <<data, nextId, pub, output, aborted>>

-----------------------------------------------------------------------------
(* facts_replace_tags and facts_remove_fact_tags: the facts that match are *)
(* collected under the write lock and removed in a transaction of their    *)
(* own; facts_replace_tags then adds the new fact.                         *)

Matches(f, bound) == {g \in Triples : Stored(g) /\ \A k \in bound : g[k] = f[k]}

JobStart(facts, new) ==
  /\ Writable
  /\ Len(txns) < MaxDepth
  /\ TakeId
  /\ txns' = <<[id |-> nextId, log |-> <<>>, base |-> store]>> \o txns
  /\ held' = held + 2
  /\ job' = "removing" /\ todo' = facts /\ toAdd' = new
  /\ UNCHANGED <<data, pub, phase, unwind, output, aborted>>

ReplaceTags(f) == JobStart(Matches(f, {1, 2}), {f})

RemoveTags(f) ==
  \E bound \in SUBSET {1, 2, 3} \ {{1, 2, 3}} : JobStart(Matches(f, bound), {})

JobRemove ==
  \E f \in todo : /\ RemoveInTransaction(f)
                  /\ todo' = todo \ {f}
                  /\ UNCHANGED <<job, toAdd>>

JobAdd ==
  /\ todo = {}
  /\ \E f \in toAdd : AddInTransaction(f)
  /\ toAdd' = {}
  /\ UNCHANGED <<job, todo>>

(* Identifiers or memory run out half way: the operation rolls back.       *)
JobFails ==
  /\ todo # {} \/ toAdd # {}
  /\ \/ nextId = UwMax /\ UNCHANGED nextId
     \/ /\ \E stage \in FailStages : todo # {} => stage = "action"
        /\ TakeId
  /\ job' = "failing"
  /\ phase' = "rolling" /\ unwind' = 1
  /\ UNCHANGED <<data, txns, pub, held, todo, toAdd, output, aborted>>

JobEnd ==
  /\ todo = {} /\ toAdd = {}
  /\ TransactionEnd
  /\ job' = "ending"
  /\ UNCHANGED <<todo, toAdd>>

JobStep == /\ phase = "idle" /\ job = "removing"
           /\ JobRemove \/ JobAdd \/ JobFails \/ JobEnd

(* Faulty: the path through the rollback keeps the lock.                   *)
JobReturnLocked ==
  /\ phase = "idle" /\ job \in {"ending", "failing"}
  /\ held' = IF job = "failing" THEN held ELSE held - 1
  /\ job' = "none" /\ todo' = {} /\ toAdd' = {}
  /\ UNCHANGED <<data, nextId, txns, pub, phase, unwind, output, aborted>>

JobReturn ==
  /\ phase = "idle" /\ job \in {"ending", "failing"}
  /\ held' = held - 1
  /\ job' = "none" /\ todo' = {} /\ toAdd' = {}
  /\ UNCHANGED <<data, nextId, txns, pub, phase, unwind, output, aborted>>

-----------------------------------------------------------------------------
(* What the thread that may take the lock can call.                        *)
Call ==
  /\ phase = "idle" /\ job = "none"
  /\ \/ /\ \E f \in Triples :
             \/ AddInTransaction(f) \/ AddAlone(f) \/ AddRunsOutOfMemory(f)
             \/ AddNotLogged(f)
             \/ RemoveInTransaction(f) \/ RemoveAlone(f)
             \/ RemoveRunsOutOfMemory(f) \/ RemoveNotLogged(f)
        /\ UNCHANGED jobState
     \/ /\ \/ TransactionStart \/ TransactionEnd
           \/ \E n \in 1 .. MaxDepth : Rollback(n)
        /\ UNCHANGED jobState
     \/ \E f \in Triples : ReplaceTags(f) \/ RemoveTags(f)

(* What the holder of the lock does before it returns.                     *)
Finish ==
  \/ /\ \/ PublishNext \/ PublishFails \/ Discard \/ PublishDone
        \/ UndoAdd \/ UndoRemove \/ UndoneTransaction
     /\ UNCHANGED jobState
  \/ JobStep
  \/ JobReturn

Next == ~aborted /\ (Call \/ Finish)

Spec == Init /\ [][Next]_vars

(* A thread that holds the lock inside an operation is scheduled.          *)
FairSpec == Spec /\ WF_vars(~aborted /\ Finish)

-----------------------------------------------------------------------------
(* The types of the variables, after every step of every operation.        *)
TypeOK ==
  /\ store \in Stores
  /\ index \in [Indexes -> SUBSET Triples]
  /\ usage \in [Tags -> Int]
  /\ nextId \in 1 .. UwMax
  /\ txns \in Seq(Transactions)
  /\ pub \in Seq(Actions)
  /\ phase \in {"idle", "publishing", "rolling"}
  /\ unwind \in Nat
  /\ held \in Int
  /\ job \in {"none", "removing", "ending", "failing"}
  /\ todo \in SUBSET Triples
  /\ toAdd \in SUBSET Triples
  /\ disk \in Seq(Events)
  /\ failed \in BOOLEAN
  /\ hooked \in Seq(Events)
  /\ sent \in Seq(Events)
  /\ removeLog \in Seq(Events)
  /\ aborted \in BOOLEAN

(* The set and the four skip lists hold the same facts: after an insertion *)
(* whose record could not be written, which took the fact out of each of   *)
(* them again, as after one that succeeded, and all through a rollback.    *)
IndexesAgree == \A i \in Indexes : index[i] = {f \in Triples : Stored(f)}

(* A stored fact has an identifier of its own, which was given out, and    *)
(* which a later fact cannot be given: next_id is above it.  So it is too  *)
(* in every store that a rollback goes through.                            *)
GoodIds(s) ==
  /\ \A f \in Triples : s[f] < nextId
  /\ \A f, g \in Triples : s[f] # NoId /\ s[f] = s[g] => f = g

IdsUnique ==
  /\ GoodIds(store)
  /\ \A i \in 1 .. Len(txns) :
       /\ GoodIds(txns[i].base)
       /\ \A k \in 1 .. Len(txns[i].log) : GoodIds(txns[i].log[k].before)

(* Transactions, their publication and the composite operations, which     *)
(* hold the write lock from one step to the next, give it back as often as *)
(* they took it, however they end: it is held once per open transaction,   *)
(* and once more inside the operations that hold it for their own sake.    *)
LockBalanced ==
  held = Len(txns) + (IF phase = "publishing" THEN 1 ELSE 0)
                   + (IF job # "none" THEN 1 ELSE 0)

(* The stages of the operations exclude each other: a rollback unwinds     *)
(* transactions that are open, nothing is published while one is open, a   *)
(* composite operation works inside its own, and a log that failed leaves  *)
(* none to commit.                                                         *)
StageInv ==
  /\ IF phase = "rolling" THEN unwind \in 1 .. Len(txns) ELSE unwind = 0
  /\ phase = "publishing" => txns = <<>>
  /\ pub # <<>> => phase = "publishing"
  /\ job = "removing" => phase = "idle" /\ txns # <<>>
  /\ failed => txns = <<>>

(* The undo of a rollback finds each added fact present, so that the       *)
(* rollback never reaches abort(), whatever nested transactions did and    *)
(* even when the identifiers are used up.                                  *)
RollbackNeverAborts == ~aborted

(* The inductive invariant behind the rollback: undoing the newest action  *)
(* of a transaction gives the store that action changed, and so on back to *)
(* the store the transaction started from.                                 *)
After(a) == [a.before EXCEPT ![a.fact] = IF a.op = "add" THEN a.id ELSE NoId]

LeadsBack(log, top, base) ==
  /\ log = <<>> => top = base
  /\ log # <<>> => /\ top = After(log[1])
                  /\ base = log[Len(log)].before
  /\ \A k \in 1 .. Len(log) - 1 : log[k].before = After(log[k + 1])

WellLogged(a) ==
  /\ 0 < a.id /\ 0 < a.oldId /\ a.oldId < UwMax
  /\ a.before[a.fact] = IF a.op = "add" THEN NoId ELSE a.oldId

Suspended(i) == IF i = 1 THEN store ELSE txns[i - 1].base

UndoChain ==
  \A i \in 1 .. Len(txns) :
    /\ LeadsBack(txns[i].log, Suspended(i), txns[i].base)
    /\ \A k \in 1 .. Len(txns[i].log) : WellLogged(txns[i].log[k])

Unwinding == IF phase = "rolling" THEN unwind ELSE 0

Abstract == INSTANCE TransactionalFacts WITH
  store <- IF phase = "rolling" THEN txns[unwind].base ELSE store,
  snapshots <- [i \in 1 .. Len(txns) - Unwinding |-> txns[i + Unwinding].base],
  clock <- nextId

(* The undo log implements transactions: a rollback of any depth restores  *)
(* the facts and the identifiers the transaction started from.             *)
ImplementsTransactions == Abstract!Spec

(* After a log write failed the database is read-only: no later operation  *)
(* changes a fact, writes a record, calls a hook or tells a replica.       *)
FailClosed ==
  [][failed => UNCHANGED <<store, index, output>>]_vars

(* Whoever holds the lock inside an operation gives it back: publication,  *)
(* rollback and the composite operations all come to an end.               *)
Returns == (phase # "idle" \/ job # "none") ~> (phase = "idle" /\ job = "none")
=============================================================================
