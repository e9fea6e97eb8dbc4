-------------------------- MODULE FactsPersistence --------------------------
(***************************************************************************)
(* A fact database on a file, over any number of processes one after the   *)
(* other: facts_open_file, the log writes of each operation, facts_close,  *)
(* and a crash at any point.                                               *)
(*                                                                         *)
(* Opening replays the file record by record, truncates it, writes the     *)
(* surviving facts back in the order of their identifiers, and leaves it   *)
(* open for appending.  Only the store is left between the two.  A crash   *)
(* or a failed write then ends the opening with a short file.  So does, in *)
(* the middle of a process, memory that runs out: the rewriting stops, or  *)
(* goes on behind a record no one can read, and is taken for complete, and *)
(* the log is opened on what there is.  This module says how short.        *)
(*                                                                         *)
(* The undo of a transaction is one action here (Facts.tla has its steps); *)
(* a transaction is the sequence of records its commit publishes.          *)
(*                                                                         *)
(* Files are in the binary format.  A text file is read by facts_load,     *)
(* which is not modelled.                                                  *)
(***************************************************************************)
EXTENDS Integers, Sequences

CONSTANTS
  Triples,  \* the facts an application may store
  UwMax     \* UW_MAX: this identifier is never given out

ASSUME UwMaxAssumption == UwMax \in Nat \ {0}

VARIABLES
  file,       \* whole records in the file
  tail,       \* what follows them: nothing, or the start of a record
  phase,      \* what the process is doing with the database
  pos,        \* records replayed by a running facts_open_file
  cursor,     \* the identifier last written back by facts_dump_binary
  store,      \* facts->facts: the identifier of each stored fact, or NoId
  nextId,     \* facts->next_id
  log,        \* facts->log: none, open, or failed
  base,       \* the store at facts_transaction_start
  txn,        \* records of the transaction that are not yet published
  published,  \* history: the facts of the last opening that began to write
              \* them back, as the records acknowledged since change them
  limbo,      \* history: a record whose write failed or was cut by a crash
  short       \* history: 0, or next_id at an opening that left the file short

onDisk == <<file, tail>>
memory == <<store, nextId, log, base, txn>>
history == <<published, limbo, short>>
vars == <<onDisk, phase, pos, cursor, memory, history>>

-----------------------------------------------------------------------------
NoId == 0
Ids == 0 .. UwMax - 1
Stores == [Triples -> Ids]
Empty == [f \in Triples |-> NoId]

Record(op, id, f) == [op |-> op, id |-> id, fact |-> f]
Records == [op : {"add", "remove"}, id : Ids, fact : Triples]
NoRecord == [op |-> "none"]

Larger(m, n) == IF m > n THEN m ELSE n

(* What a record does to a store.                                          *)
Apply(s, r) ==
  IF r.op = "add" THEN [s EXCEPT ![r.fact] = r.id]
  ELSE IF r.op = "remove" THEN [s EXCEPT ![r.fact] = NoId]
  ELSE s

-----------------------------------------------------------------------------
(* Files.  How a reader takes the start of a record depends on where it    *)
(* was cut: in the magic number or past the header it is skipped, in the   *)
(* header or in a field it makes facts_open_file give up.                  *)
Tails == {"none", "skipped", "refused"}

(* marshall_to_buf and buf_flush.  No reader gets past a record that it    *)
(* refuses.                                                                *)
WriteWhole(r) ==
  /\ file' = IF tail = "none" THEN Append(file, r) ELSE file
  /\ tail' = tail

(* A write that fails, or a crash in it: some or all of the bytes, or none *)
(* of them, reached the file.                                              *)
WriteCut(r) ==
  \/ UNCHANGED onDisk
  \/ WriteWhole(r)
  \/ tail = "none" /\ file' = file /\ tail' \in {"skipped", "refused"}

(* The process is gone, or gave the database up with facts_delete.         *)
Gone ==
  /\ phase' = "closed"
  /\ pos' = 0
  /\ cursor' = NoId
  /\ store' = Empty
  /\ nextId' = 1
  /\ log' = "none"
  /\ base' = Empty
  /\ txn' = <<>>

-----------------------------------------------------------------------------
(* facts_open_file.                                                        *)

OpenFile ==
  /\ phase = "closed"
  /\ phase' = "replay"
  /\ UNCHANGED <<onDisk, pos, cursor, memory, history>>

(* Faulty: a replayed fact takes a new identifier, as in facts_add_fact.   *)
ReplayAddRenumbered(r) ==
  /\ r.op = "add"
  /\ store' = [store EXCEPT ![r.fact] = nextId]
  /\ nextId' = nextId + 1

(* Faulty: next_id counts the facts replayed.                              *)
ReplayAddCounted(r) ==
  /\ r.op = "add"
  /\ store' = Apply(store, r)
  /\ nextId' = nextId + 1

(* facts_add_fact_id: a fact that is there keeps its identifier.           *)
ReplayAdd(r) ==
  /\ r.op = "add"
  /\ IF store[r.fact] # NoId THEN UNCHANGED <<store, nextId>>
     ELSE /\ store' = Apply(store, r)
          /\ nextId' = Larger(nextId, r.id + 1)

(* facts_remove_fact_id.                                                   *)
ReplayRemove(r) ==
  /\ r.op = "remove"
  /\ store' = Apply(store, r)
  /\ nextId' = Larger(nextId, r.id + 1)

ReplayRecord ==
  /\ phase = "replay"
  /\ pos < Len(file)
  /\ ReplayAdd(file[pos + 1]) \/ ReplayRemove(file[pos + 1])
  /\ pos' = pos + 1
  /\ UNCHANGED <<onDisk, phase, cursor, log, base, txn, history>>

(* Memory ran out in the replay, or the rest of the file is refused.       *)
ReplayFails ==
  /\ phase = "replay"
  /\ Gone
  /\ UNCHANGED <<onDisk, history>>

(* The facts still to be written back once those up to id c are.           *)
Ahead(c) == {f \in Triples : store[f] > c}

(* Faulty: the facts are written back in another order, as facts_with_0    *)
(* and the index by subject would give them.                               *)
IsAnyAhead(f) == f \in Ahead(NoId) /\ \A i \in DOMAIN file : file[i].fact # f

(* facts_with_0_id and facts_cursor_next.                                  *)
IsNext(f) == f \in Ahead(cursor) /\ \A g \in Ahead(cursor) : store[f] <= store[g]

(* file_open(path, "wb") in facts_dump_binary_file.                        *)
Truncate ==
  /\ phase = "replay"
  /\ pos = Len(file)
  /\ tail # "refused"
  /\ phase' = "rewrite"
  /\ pos' = 0
  /\ cursor' = NoId
  /\ file' = <<>>
  /\ tail' = "none"
  /\ limbo' = NoRecord
  /\ published' = store
  /\ short' = IF Ahead(NoId) = {} THEN 0 ELSE nextId
  /\ UNCHANGED memory

(* One round of the loop of facts_dump_binary.                             *)
RewriteRecord ==
  /\ phase = "rewrite"
  /\ \E f \in Triples :
       /\ IsNext(f)
       /\ WriteWhole(Record("add", store[f], f))
       /\ cursor' = store[f]
       /\ short' = IF tail = "none" /\ Ahead(store[f]) = {} THEN 0 ELSE short
  /\ UNCHANGED <<phase, pos, memory, published, limbo>>

(* marshall_fact runs out of memory, which facts_dump_binary does not ask: *)
(* it writes what there is of the record and goes on.                      *)
RewriteGarbled ==
  /\ phase = "rewrite"
  /\ tail = "none"
  /\ \E f \in Triples : IsNext(f) /\ cursor' = store[f]
  /\ tail' = "refused"
  /\ UNCHANGED <<file, phase, pos, memory, history>>

(* The write of the next record fails, or the process crashes in it.       *)
RewriteCut ==
  /\ phase = "rewrite"
  /\ \E f \in Triples :
       /\ IsNext(f)
       /\ WriteCut(Record("add", store[f], f))
       /\ short' = IF file' # file /\ Ahead(store[f]) = {} THEN 0 ELSE short
  /\ Gone
  /\ UNCHANGED <<published, limbo>>

(* facts_dump_binary returns no error when facts_cursor_next finds no      *)
(* memory for the next fact, and facts_dump_binary_file none when          *)
(* buf_file_open_w does: any facts may be missing from the end.  Then      *)
(* file_open(path, "ab"), log_new and log_open_binary.                     *)
OpenLog ==
  /\ phase = "rewrite"
  /\ phase' = "idle"
  /\ cursor' = NoId
  /\ log' = "open"
  /\ UNCHANGED <<onDisk, pos, store, nextId, base, txn, history>>

OpenLogFails ==
  /\ phase = "rewrite"
  /\ Gone
  /\ UNCHANGED <<onDisk, history>>

-----------------------------------------------------------------------------
(* Operations outside a transaction: facts_add_fact_local and              *)
(* facts_remove_fact_internal.  Both write the record before they return;  *)
(* a failed log refuses both at once.                                      *)

(* Faulty: UW_MAX is given out.                                            *)
HasNextIdAlways == nextId <= UwMax

(* facts_next_id.                                                          *)
HasNextId == nextId < UwMax
Writable == phase = "idle" /\ log = "open" /\ HasNextId

Addition(f) == Record("add", nextId, f)
Removal(f) == Record("remove", nextId, f)

(* The records an operation could write now.                               *)
NextRecords ==
  {Addition(f) : f \in Triples \ Ahead(NoId)} \cup {Removal(f) : f \in Ahead(NoId)}

Acknowledged(r) == published' = Apply(published, r)

Operate ==
  /\ Writable
  /\ \E r \in NextRecords :
       /\ WriteWhole(r)
       /\ store' = Apply(store, r)
       /\ Acknowledged(r)
  /\ nextId' = nextId + 1
  /\ UNCHANGED <<phase, pos, cursor, log, base, txn, limbo, short>>

(* facts_log_add, facts_log_remove: the label ko.                          *)
WriteFails(r) == WriteCut(r) /\ limbo' = r /\ log' = "failed"

(* The tentative fact is taken out again, a fact to remove stays; the      *)
(* identifier is used up.                                                  *)
OperateFails ==
  /\ Writable
  /\ \E r \in NextRecords : WriteFails(r)
  /\ nextId' = nextId + 1
  /\ UNCHANGED <<phase, pos, cursor, store, base, txn, published, short>>

(* A crash in the write of an operation.                                   *)
OperateCut ==
  /\ Writable
  /\ \E r \in NextRecords : WriteCut(r) /\ limbo' = r
  /\ Gone
  /\ UNCHANGED <<published, short>>

-----------------------------------------------------------------------------
(* Transactions.                                                           *)

(* facts_transaction_start.                                                *)
Start ==
  /\ phase = "idle"
  /\ log = "open"
  /\ HasNextId
  /\ phase' = "transaction"
  /\ nextId' = nextId + 1
  /\ base' = store
  /\ txn' = <<>>
  /\ UNCHANGED <<onDisk, pos, cursor, store, log, history>>

(* An operation in the transaction: its record goes to the undo log.       *)
Mutate ==
  /\ phase = "transaction"
  /\ HasNextId
  /\ \E r \in NextRecords :
       /\ store' = Apply(store, r)
       /\ txn' = Append(txn, r)
  /\ nextId' = nextId + 1
  /\ UNCHANGED <<onDisk, phase, pos, cursor, log, base, history>>

(* facts_transaction_rollback.                                             *)
Rollback ==
  /\ phase = "transaction"
  /\ phase' = "idle"
  /\ store' = base
  /\ base' = Empty
  /\ txn' = <<>>
  /\ UNCHANGED <<onDisk, pos, cursor, nextId, log, history>>

(* facts_transaction_end up to the publication.                            *)
Commit ==
  /\ phase = "transaction"
  /\ phase' = "publish"
  /\ base' = Empty
  /\ UNCHANGED <<onDisk, pos, cursor, store, nextId, log, txn, history>>

(* Faulty: the undo log is published as it is, newest first.               *)
PublishNewest ==
  /\ phase = "publish"
  /\ txn # <<>>
  /\ WriteWhole(txn[Len(txn)])
  /\ Acknowledged(txn[Len(txn)])
  /\ txn' = SubSeq(txn, 1, Len(txn) - 1)
  /\ UNCHANGED <<phase, pos, cursor, store, nextId, log, base, limbo, short>>

(* One round of the loop of publication.                                   *)
Publish ==
  /\ phase = "publish"
  /\ txn # <<>>
  /\ WriteWhole(Head(txn))
  /\ Acknowledged(Head(txn))
  /\ txn' = Tail(txn)
  /\ UNCHANGED <<phase, pos, cursor, store, nextId, log, base, limbo, short>>

(* Publication stops at the first failed record; memory keeps the commit.  *)
PublishFails ==
  /\ phase = "publish"
  /\ txn # <<>>
  /\ WriteFails(Head(txn))
  /\ phase' = "idle"
  /\ txn' = <<>>
  /\ UNCHANGED <<pos, cursor, store, nextId, base, published, short>>

PublishCut ==
  /\ phase = "publish"
  /\ txn # <<>>
  /\ WriteCut(Head(txn))
  /\ limbo' = Head(txn)
  /\ Gone
  /\ UNCHANGED <<published, short>>

(* The last record is published.                                           *)
PublishDone ==
  /\ phase = "publish"
  /\ txn = <<>>
  /\ phase' = "idle"
  /\ UNCHANGED <<onDisk, pos, cursor, memory, history>>

-----------------------------------------------------------------------------
(* facts_clean and its facts_close: nothing is buffered in the log, and a  *)
(* failed one is not flushed again.                                        *)
Close ==
  /\ phase = "idle"
  /\ Gone
  /\ UNCHANGED <<onDisk, history>>

(* A crash outside any write.                                              *)
Crash ==
  /\ phase # "closed"
  /\ Gone
  /\ UNCHANGED <<onDisk, history>>

Init ==
  /\ file = <<>>
  /\ tail = "none"
  /\ phase = "closed"
  /\ pos = 0
  /\ cursor = NoId
  /\ store = Empty
  /\ nextId = 1
  /\ log = "none"
  /\ base = Empty
  /\ txn = <<>>
  /\ published = Empty
  /\ limbo = NoRecord
  /\ short = 0

Next ==
  \/ OpenFile \/ ReplayRecord \/ ReplayFails
  \/ Truncate \/ RewriteRecord \/ RewriteGarbled \/ RewriteCut
  \/ OpenLog \/ OpenLogFails
  \/ Operate \/ OperateFails \/ OperateCut
  \/ Start \/ Mutate \/ Rollback
  \/ Commit \/ Publish \/ PublishFails \/ PublishCut \/ PublishDone
  \/ Close \/ Crash

Spec == Init /\ [][Next]_vars

-----------------------------------------------------------------------------
Phases == {"closed", "replay", "rewrite", "idle", "transaction", "publish"}

(* The state the code keeps has the types the code gives it, and           *)
(* identifiers stay below UW_MAX.                                          *)
TypeOK ==
  /\ file \in Seq(Records)
  /\ tail \in Tails
  /\ phase \in Phases
  /\ pos \in 0 .. Len(file)
  /\ cursor \in Ids
  /\ {store, base, published} \subseteq Stores
  /\ nextId \in 1 .. UwMax
  /\ log \in {"none", "open", "failed"}
  /\ txn \in Seq(Records)
  /\ limbo \in Records \cup {NoRecord}
  /\ short \in 0 .. UwMax

(* Identifiers grow along a file, over all the processes that wrote it,    *)
(* and next_id is above those in the file and in memory: no identifier in  *)
(* use is given out again, although next_id itself is not saved.           *)
IdsInOrder ==
  /\ \A i, j \in DOMAIN file : i < j => file[i].id < file[j].id
  /\ phase \in {"rewrite", "idle", "transaction", "publish"} =>
       /\ \A i \in DOMAIN file : file[i].id < nextId
       /\ \A f \in Triples : store[f] < nextId

(* A file adds a fact only when it is absent and removes it only when it   *)
(* is there, whatever was rolled back, half published or cut before; or    *)
(* else it is the first record about a fact that the opening left out, and *)
(* written after it.                                                       *)
LastBefore(f, i) ==
  {j \in 1 .. i - 1 : file[j].fact = f /\ \A k \in j + 1 .. i - 1 : file[k].fact # f}
RecordsAlternate ==
  \A i \in DOMAIN file :
    LET last == LastBefore(file[i].fact, i) IN
    /\ \A j \in last : file[j].op # file[i].op
    /\ file[i].op = "remove" /\ last = {} => short \in 1 .. file[i].id

(* While the log has not failed, memory is what the acknowledged records   *)
(* make, identifiers included, also when the file is not.                  *)
MemoryIsPublished ==
  phase = "idle" /\ log = "open" => store = published

(* Every opening finds all that was acknowledged and at most the one       *)
(* record in doubt, unless the file was left short by the one before.      *)
ReopensToPublished ==
  [][phase = "replay" /\ phase' = "rewrite" /\ short = 0 =>
       store \in {published, Apply(published, limbo)}]_vars

(* The facts of a store without those numbered after c and before d.       *)
Without(s, c, d) == [f \in Triples |-> IF s[f] <= c \/ s[f] >= d THEN s[f] ELSE NoId]

(* After an opening that left the file short, noticed or not, the next one *)
(* that gets through misses the youngest of the facts the first one found, *)
(* and nothing else: every other fact has its identifier, none that was    *)
(* removed is back, and what was acknowledged since is there.              *)
KeepsOldest ==
  [][phase = "replay" /\ phase' = "rewrite" /\ short # 0 =>
       \E c \in Ids : store \in {Without(published, c, short),
                                 Without(Apply(published, limbo), c, short)}]_vars

(* doc/1_KC3/1.25_Facts.en.md:20: opening replays the dump and the log and *)
(* opens the file for appending.  Read so, an opening that is cut loses    *)
(* nothing, and every opening finds all that was acknowledged.             *)
OpenLosesNothing ==
  [][phase = "replay" /\ phase' = "rewrite" =>
       store \in {published, Apply(published, limbo)}]_vars
=============================================================================
