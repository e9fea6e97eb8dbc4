# Verification of the KC3 fact database

KC3 is a programming language with a graph database at its core: the
interpreter keeps modules, operators and program data as *facts*, triples of
tags, in a `s_facts` that can be persistent, transactional and replicated.
This directory models that database in TLA+, checks the models with TLC and
proves theorems about them with TLAPS.  Sources are cited from
`src/libkc3/`.

    tlc -config MCRwLock.cfg MCRwLock.tla                       (and the other .cfg files)
    tlapm FactsProofs.tla                                       (and the other *Proofs.tla)

## 1. The system

### 1.1 Components, their state and their operations

| Component | State | Operations | Modelled |
|---|---|---|---|
| Read-write lock, `rwlock.c` | pthread rwlock, owner, recursion count, and the mutex that guards them | `rwlock_r`, `rwlock_w`, `rwlock_unlock_r`, `rwlock_unlock_w` | `RwLock` |
| Fact store, `facts.c`, `fact_action.c` | set of facts, four skip lists (by id, SPO, POS, OSP), counted tags, `next_id` | `facts_add_fact*`, `facts_remove_fact*`, `facts_replace_tags`, `facts_remove_fact_tags` | `Facts` |
| Transactions, `facts_transaction.c` | stack of transactions, each with an undo log; the write lock is kept while one is open | start, end (nested or outermost), rollback | `Facts` |
| Log and hooks, `log.c`, `facts_log_add`, `facts_log_remove` | file of records, `failed` flag, hooks | one record per published action | `Facts` (writing) |
| Persistence, `facts_open_file`, `facts_load`, `facts_dump`, `facts_save_file` | the file, the log open on it; image and after-dump files | open, replay, compact, close; load, dump | `FactsPersistence` (binary files); not load, dump, text files and images |
| Replication, `facts_connection.c` | list of connections, `remove_log`, `server_count`, `priority` | connect, accept, synchronise, broadcast, apply, forward, close all | `FactsReplication` |
| Opened databases, `facts_open_memoized`, `facts_opened_*`, `facts_close` | table of entries (path, pointer), reference counts, one mutex for the table and one per count | open, close, rename, new reference, delete | `FactsOpened` |
| Indexes and cursors, `skiplist__fact.c`, `facts_cursor.c` | nodes with a link per level; a cursor keeps a node between calls | insert, remove, init, next, clean | `SkipList` |
| Sets, `set__fact.c`, `set_cursor__fact.c` | buckets of chained items, two counts | add, get, remove, walk | `HashSet` |
| Order of values, `compare.c` | | `compare_tag` and what it calls | `Tags`, for numbers, strings, symbols, lists, tuples, maps, times |
| Queries, `facts_with.c`, `facts_with_cursor.c`, `facts_spec.c`, `var.c` | a stack of cursors, variables bound by them | open, next by backtracking, clean | `FactsQuery` |
| Evaluator, environment, values, reader, printer, marshalling, I/O, servers, tools, bindings | | | not modelled, see 6 |

### 1.2 How they interact

Every public operation on a database takes its `rwlock`, which is recursive: an
operation calls others, and a transaction keeps the write lock between calls
until it ends.  `facts_add_fact` and `facts_remove_fact` look for a connection
to a master first; if there is one the write is sent there and nothing changes
locally.  Otherwise the fact is linked into the set and the four indexes and,
outside a transaction, written to the log, shown to the hooks and broadcast to
the connected replicas at once.  Inside a transaction it is put on the undo log
instead; the outermost `facts_transaction_end` publishes the actions, oldest
first, with the lock still held, and `facts_transaction_rollback` undoes them,
newest first.  Each connection has a thread that reads events and applies them
under the write lock; a replica's `next_id` is the cursor from which the master
synchronises it when it connects.

### 1.3 What is hard

* the recursive lock is built from a pthread rwlock and an owner record that
  are updated one after the other;
* an insertion whose record cannot be written is taken out of the set and four
  skip lists by hand, and one that runs out of memory may damage the set;
* an undo log must bring back the facts *and their identifiers*, through nested
  commits, with identifiers that may run out at any point;
* a commit publishes record by record, may fail at any of them, and may leave
  the failed record in the file;
* the events a replica gets come from a synchronisation, a live stream and a
  retained list of deletions, over connections that break anywhere;
* a path is looked up, opened and registered under separate holds of the mutex,
  and the last reference may go while another thread is being given one;
* a cursor keeps a pointer to a node, and an index is changed link by link;
* an index is only as good as the order of its keys, which is written out for
  every pair of number types;
* a join binds and frees the variables of its patterns as it backtracks, and
  never looks whether a fact it returns matches.

`PROJECT.json` lists each hazard at its line, with the properties that cover it
or the reason why none does yet.

## 2. The modules

| Module | Contents |
|---|---|
| `ReentrantLock` | what `rwlock.c` promises: a read-write lock that a thread may nest |
| `RwLock` | `rwlock.c`, one action per critical section or pthread call |
| `RwLockProofs` | proofs about it |
| `TransactionalFacts` | what transactions promise: a stack of snapshots |
| `Facts` | the database on one node |
| `FactsReplay` | its outputs read back: log, events, retained deletions |
| `FactsProofs` | proofs about `Facts` |
| `FactsReplayProofs` | proofs about `FactsReplay` |
| `FactsReplication` | one master and its replicas |
| `FactsReplicationProofs` | proofs about it |
| `FactsPersistence` | a database on a file, over many processes and crashes |
| `FactsPersistenceProofs` | proofs about it |
| `FactsOpened` | the table of opened databases and the reference counts |
| `FactsOpenedProofs` | proofs about it |
| `OrderedSet` | what an index promises: a set that is changed, and scanned in order, atomically |
| `SkipList` | an index link by link, its cursors and the lock around them |
| `SkipListProofs` | proofs about it |
| `Tags` | the order of values |
| `HashSet` | the table of a database's facts |
| `FactsQuery` | the table and the indexes together, and the queries answered from them |
| `FactsQueryProofs` | proofs about it and about `HashSet` |
| `MC*` | values of the constants for TLC |

`FactsReplay` extends `Facts`, whose steps rely on the exclusion that `RwLock`
establishes.  `FactsReplication` stands on what `FactsReplay` shows of the
events of a database, in order and complete, and models the network.
`FactsPersistence` stands on what `Facts` shows of one process (a rollback
restores the store, a commit publishes its records oldest first) and adds the
file, the processes that open it in turn, and crashes.  `FactsOpened` is about
the threads of one of these processes; the file is a set of facts there.
`SkipList` is what `Facts` and `FactsQuery` call an index: they take its
operations for atomic, which `OrderedSet` states and the run `skiplist` shows.
`FactsQuery` extends `Tags` and puts its facts into a `HashSet`.

### RwLock

The code's `rwlock_w` is three steps: the owner check under the owner mutex,
`pthread_rwlock_wrlock`, and the record of the new owner.  Between them another
thread can see the record and the pthread lock disagree.  `pc` says at which of
these a thread is, `count` and `owner` are the record, `readers` and `writer`
the pthread lock.  Threads follow the bracket discipline of their callers: a
thread that holds a read bracket and no write bracket does not ask for a write
bracket (`rwlock.c` would wait for itself, as any pthread rwlock does).

### Facts

An operation outside a transaction is one action, since it holds the lock
throughout; the loops that run with the lock held (publication, rollback, the
removals of the composite operations) are an action per iteration, with `phase`,
`unwind`, `job`, `todo`, `toAdd` for the position in them.  `store` maps each
fact to its identifier, 0 if it is not stored; `index` is the content of each
skip list, kept apart from `store` because an insertion that cannot be logged has
to be taken out of each (`TakenOut`).  `disk`, `hooked`, `sent` and `removeLog` are the outputs.  `before` and
`base` in actions and transactions are history.

`FailStages` says what memory may run out for: the action of an undo log, or the
item of the set when its bucket is empty, after which the operation fails with an
identifier used up.  Without memory for the item of a bucket in use,
`set_add_collision__fact` cuts its chain; that is a step of `FactsQuery`, which
has the chains.  Without memory for a node `skiplist_insert__fact` does not
return: it follows the null pointer (`skiplist__fact.c:147-156`), so the process
ends and the unwindings at `facts.c:513-542` never run.  A log write that fails
may leave its record in the file.

Two points where the model is more precise than the text suggests, and two where
it abstracts:

* a database in memory with `server_count` 0 removes facts without taking an
  identifier; all other removals take one;
* `facts_add_fact_id` in a rollback leaves `next_id` alone unless the old
  identifier reaches it;
* the paths on which memory runs out contain an `assert`; a debug build aborts
  there, the model is of the build without assertions;
* the tags of an undone action are given back as it is undone; the code keeps
  them until `facts_transaction_clean`, with the lock held.

A rollback is assumed to find memory for the facts it restores; without it the
code calls `abort()`.

### FactsReplication

`conn` is the master's list of connections by address, `link` the replica's,
`session` the TCP connection between them, `down` and `up` what it carries.  The
handshake is: `Dial` (the replica's greeting carries its `next_id`), `Greet` or
`Refuse` (`facts_connection_find_by_addr`), `Accept` (synchronise and register
under the write lock) and, at the other end, `Register`.  A failed send marks
the connection dead and leaves it in the list; a thread that reads the end of
its stream does the same.  `facts_acceptor_loop_thread` ends on the first
`facts_accept` that returns NULL: `accepting` is then `stopped` until the
application starts it again; nothing in the library does.  Authentication and TLS appear only as a handshake
that may fail.  The transactions of the master are its `MasterTransaction` (an
identifier without an event), single published events, and `MasterLogFails` (a
commit in memory that was not published).

As the documentation requires, `server_count` is not 0 and replicas do not write
on their own while they are not connected.

### FactsPersistence

`file` is the sequence of whole records on disk and `tail` what follows them: a
write that fails, or a crash in one, may leave all of the record, none of it, or
its beginning.  A beginning cut in the magic number or after the header is
`skipped` by the next reader; one cut in the header or in a field is `refused`,
and the file with it.  `phase` follows the process: `OpenFile`, one
`ReplayRecord` per record (`pos`), `Truncate`, one `RewriteRecord` per surviving
fact in the order of identifiers (`cursor`), `OpenLog`, then operations and
transactions until `Close` or `Crash`.  Everything in memory goes with the
process (`Gone`); `store` and `next_id` are rebuilt from the file.  The undo of
a transaction is one action here, to the store saved in `base`: its steps are
those of `Facts`.  `txn` holds the records of a transaction oldest first, and
`Publish` writes one at a time.

A rewrite may be cut by a crash or a failed write (`RewriteCut`), and it may also
fail unnoticed.  `facts_dump_binary` does not look at the result of
`marshall_fact` (`RewriteGarbled`: no reader gets past that record, so the next
opening refuses the file, whatever was appended) and returns no error when
`facts_cursor_next` finds no memory for the next fact; `facts_dump_binary_file`
returns none when it cannot buffer the file.  `OpenLog` therefore opens the log
on whatever the file holds by then, and the process appends to a short file.

Three variables are history.  `published` is the store that the last opening to
reach `Truncate` began to write back, changed by each record acknowledged since.
`limbo` is a record whose write failed or was cut, which the next opening may or
may not find.  `short` is 0 while the file has all of `published`, and otherwise
the `next_id` of the opening that left it short: the facts that may be missing
have identifiers below it, those acknowledged since have not.

### FactsOpened

A *place* holds a pointer to a database: a variable of a thread (`Slots`), a
local of a call that is running (`Own`, `Found`), or an entry of the table
(`Cells`).  `refs` is the code's count, `References` what it should be: the
places that hold one.  One action is one hold of `g_facts_opened_mutex`, one
hold of the mutex of a count, or the work between two of them; `call` says where
a thread is.  Closing is five steps, with the mutex of the table, that of a count
or neither: the path is read, an entry taken out of the table (`Remove`), its
reference released (`Uncache`), the log looked at (`CheckLog`) and closed
(`CloseLog`), whoever else holds the database or is opening its path.  Two threads
that close one database may both pass the look; the process of the second ends
there, so its `CloseLog` is not a step.  `Rename` is the application moving the
file, with every log that appends to it, and `facts_rename` changing the path of
the log; `RenameEntry` follows in its own hold of the mutex and may leave the entry as it
is (`facts.c:166`).  `moved` is history: the paths `facts_rename` has given to a
log.  `Closed` are the paths that databases being closed still write to.

### SkipList

A fact is a number in the order of the index; `next[n][l]` is the link of a node
at a level.  `at`, `node`, `level` and `pred` are the walk of
`skiplist_pred__fact`, one action per link read or written; `Link` and `Unlink`
are the loops over the levels.  A thread that has the write lock inserts or
removes, one with the read lock scans: `Scan` is `facts_cursor_init`, `Advance`
one turn of `facts_cursor_next` (`Typed` are the facts the types of its variables
let through), `Exhausted` its end and `Stop` `facts_cursor_clean`.  The height of
a node is any.

### Tags

A number is its type and twice its value, so that fractions exist; the widths are
scaled down in proportion to what the digits of the floats can hold.  Every row
of `compare_tag` (the type on the left, then the one on the right) is an operator,
with the cast it makes: `AsFloat` rounds both, `AsS16` truncates.  `InOrder` is the
order they should make, stated by values.  Blocks, calls, functions, structures and
pointers are left out.

### HashSet and FactsQuery

`Order` is a constant of `FactsQuery`, given the value `CompareTag` of `Tags` by
`MCFactsQuery`.  A chain is a sequence; a new item goes after the first (`set_add_collision__fact`).
`SetAddFails` is an insertion into a bucket in use that finds no memory: the chain
ends after its first item, with all that followed still counted, and one more.
`missing` (history) is how many items are counted and in no chain; the facts cut
off are still in the indexes, and queries, which are answered from those, still
find them.
An index of `FactsQuery` is the sequence of its facts, and `Pred` the walk along
it with the comparison the code makes, so that an order which is none shows.  A
removal needs the fact's node in every index, which the code asserts; `FactsFound`
says when the assertion would fail.  `levels` is the stack of
`facts_with_cursor`, with the pattern each level was opened for; `bound` the
variables.  `Open` gives a level its cursor, `Advance` is `facts_cursor_next`
finding a fact (the turns that skip facts of another type included), `Backtrack`
its end; `More`, `Stop` and `Return` are the caller's.  Facts change between
queries only: a query holds the read lock.  `facts_remove_all` is one action,
its order by identifier does not show here.

A pattern that has one variable twice is left out: the code sets it for each
position and does not compare, so such a pattern answers more than its name
suggests.  `doc/1_KC3/1.24_Variable.en.md:20` promises nothing here.

## 3. What the runs check

| Run | Instance | Shows |
|---|---|---|
| `rwlock` | 3 threads, up to 3 nested requests, fair | `MutualExclusion`, `OwnerCheckNotStale`; `rwlock.c` implements `ReentrantLock` (`Refines`); no thread waits for ever (`AllReleased`) |
| `facts` | 3 facts sharing tags, nested transactions, 6 identifiers, memory running out, log failing anywhere, replicas, fair | the store: `IndexesAgree`, `TagsCounted`, `LockBalanced`, `RollbackNeverAborts`; its outputs: `LogReplays`, `ReplicasFollow`, `EventsInOrder`, `AnnouncedIsLogged`, `ResyncFromAnyCursor`; it implements `TransactionalFacts` (`ImplementsTransactions`) and every operation ends (`Returns`) |
| `facts_uncounted` | replicas connected, `server_count` 0 | a violation, see 5 |
| `replication` | 2 facts, 1 replica, 4 identifiers, fair | `ResumesFromCursor`, `CursorBehind`, `StreamCompletes`, `NothingUnpublished`; `Converges`, `BothEndsClose`, `DialsAnswered` |
| `replication_redial` | 1 fact, 1 replica that redials for ever | a violation, see 5 |
| `persistence` | 3 facts, 6 identifiers, any number of processes, crashes, failed writes, memory running out in a rewrite | `IdsInOrder`, `MemoryIsPublished`, `ReopensToPublished`, `KeepsOldest` |
| `persistence_cut` | the same | a violation, see 5 |
| `opened` | 2 threads with 2 variables each, 2 paths, 2 databases, closings and renamings in any order | `RefsCounted`, `PointersLive`, `NothingLeaks`, `OneWriter` |
| `opened_race` | 2 threads, one path | a violation, see 5 |
| `skiplist` | 2 threads, 3 facts, 3 levels, fact types let through or not | `LevelsSorted`, `NoFreedAccess`; the index implements `OrderedSet` (`Refines`) |
| `queries` | 21 facts over the number types but ratios (S32 and U32 have the rows of S64 and U64), symbols and tuples, 3 at a time, memory running out; 8 queries of up to 3 patterns | `SetAccounts`, `IndexesOrdered`, `AnswersExact`, `VarsReset` |
| `queries_wide` | an unsigned 16-bit number above the signed ones, a negative one and a small one | a violation, see 5 |

Each property has a mutant of the code, defined beside the definition it changes
and introduced by "Faulty:", under which its run fails.  The invariants that are
proved (section 4) and not in this table, `UnlocksOnlyHeld`, `LockInv`,
`IdsUnique`, `UndoChain`, `StageInv`, `FailClosed` and `RecordsAlternate`, were
model-checked while the proofs were written.

**Bounds.**  The identifiers (`UwMax`) bound the length of a history; running
out of them is a case of the code, so the bound is part of the behaviour and
not only a cut.  With 6 of them an instance reaches: a removal and a re-addition
of a fact inside a transaction nested in one that already changed it, then a
rollback; a replacement that runs out half way; a commit of several records
that fails at each.  Two facts that differ in one tag are what
`facts_replace_tags` replaces; the third repeats one tag three times.  Three
transactions are one more than the splice of `facts_transaction_end` needs.  For
replication, four identifiers allow removal, re-addition and a synchronisation
cut between them; a second replica would only be needed for forwarded writes that
come back to others.  `MaxForwards` 1 suffices since the master applies forwarded
writes one at a time.  For
`skiplist`, three facts and three levels give a node with a neighbour on each side
at each level and a level on which it has none; two threads, since a second reader never waits for the first.
`queries` takes every three of its facts at once: an order that is not
transitive shows on three, and a join of three patterns has three levels to
backtrack through.  Two buckets make chains of two and three.
For persistence the identifiers bound the length of the file, as they grow strictly
along it; three facts are what it takes for a short rewrite to keep one, lose one
and have removed one.
For `opened`, a violation of `OneWriter` takes two databases on one path, and two
threads to have them; an instance with three databases, so that a path is opened
and closed a second time while both are in use, was checked once (3 million
states) and is too long for a standing run.  Deadlock checking is off for `Facts`, which really stops
when the identifiers are used up and no transaction is open, and for `RwLock`,
whose threads make a bounded number of calls.

**Fairness.**  `RwLock` and `Facts`: threads inside a call are scheduled, and
callers close their brackets; nothing is assumed of which calls are made.
`FactsReplication`: connection threads and the acceptor are scheduled, bytes on
a connection that does not break arrive, and the listen queue is served in turn
(strong fairness of greeting one replica among others).  That a handshake ends,
which has no deadline, and that a stopped acceptor is started again, which
nothing in the library does, is not assumed: `DialsAnswered` has it as its
hypothesis, that the acceptor comes back to accepting.  Only
`replication_redial` assumes both (`RedialSpec`), and its property is violated in
spite of them.  Breaks, dials and `close_all` are never assumed to happen.

## 4. What is proved

For all values of the constants:

* **RwLockProofs.**  `LockInv` is inductive (`LockInvariant`).  It says how the
  owner record, its count and the pthread lock relate at each program point;
  mutual exclusion alone is not inductive because it does not mention the
  windows in which they differ.  From it: `WriterAlone` (`MutualExclusion`),
  `LockTypes` (`TypeOK`), `UnlocksAreHeld`, `OwnerCheckHolds` and
  `ImplementsReentrantLock` (`Refines`).
* **FactsProofs.**  The invariant
  `TypeOK /\ StageInv /\ IndexesAgree /\ LockBalanced /\ UndoChain /\ IdsUnique
  /\ RollbackNeverAborts` is inductive (`Invariance`).  `UndoChain` is its core: every action on an
  undo log is linked to the store it changed, through each log and from each
  transaction to the one around it, so that undoing the newest action always
  meets the state it expects.  Committing a nested transaction splices two such
  chains (`ChainMerge`), logging and undoing an action push and pop one link
  (`ChainPush`, `ChainPop`).  `IdsUnique` is about every store on the chain,
  because a rollback passes through all of them.  From the invariant: the
  theorem for each part, `LogFailsClosed` (`FailClosed`), and
  `TransactionsImplemented`: every step maps to a step of `TransactionalFacts`
  or to a stutter, a rollback of any depth to one abstract step at its start.
* **FactsReplayProofs.**  `ReplayInv` is inductive relative to the invariant of
  `FactsProofs`.  Undo logs lead back from the store; `ReplayInv` adds the other
  direction: the actions still to be published lead forward to it (`Pending`),
  and identifiers grow from the records written to the actions pending, through
  the stack of logs from the outermost to the innermost, and on to `next_id`
  (`Numbered`).  Reversing the log of the outermost transaction turns one chain
  into the other (`ReverseLeadsForth`).  `StepKinds` reduces the actions of
  `Facts` to eleven kinds of step, and each part of the invariant is proved once
  per kind.  From it: `EventsStayInOrder`, `OnlyLoggedIsAnnounced`,
  `LogAlwaysReplays`, `ReplicasAlwaysFollow`.  Two more invariants stand on it:
  `Counted`, that the references on tags are those of a finite set of holders,
  the stored facts and the pending actions, of which an action is one because
  its identifier is its own (`TagsStayCounted`); and `Retains`, that the retained
  deletions are those that were sent.  `ReplicasResync` is then a lemma about
  replays alone (`ResyncReplays`): fact by fact, the last event about it decides,
  and a synchronisation keeps that one and every deletion.
* **FactsReplicationProofs.**  The state of a replica is related to the history
  of what the master published, not to the master's memory, which is ahead of
  it: a replica holds the history before its cursor up to additions that a later
  deletion undoes (`CaughtUp`), a stream on a live connection misses no event
  that counts (`NoGap`), and with nothing more to come it is `Complete`.  One step
  lemma (`ApplyAdvances`) carries a replica over one event and serves both the
  delivery of an event and the fold `Read` over a whole stream.  From the
  invariant: `ReplicationTypes`, `CursorStaysBehind`, `OnlyPublishedFacts`,
  `SyncFromCursor` (`ResumesFromCursor`) and `StreamIsComplete`
  (`StreamCompletes`), for any number of replicas.

* **FactsPersistenceProofs.**  `Inv` is inductive (`Invariance`).  What a file
  makes of a store is defined by the last record about each fact (`Built`), not
  by a replay, so that appending a record (`AppendGood`), replaying one
  (`MakesStep`) and two stores of one file (`MakesUnique`) need no induction over
  the file.  `Inv` says what the file holds in each phase: while it is being
  rewritten, the facts of memory up to the cursor (`RewriteFollows`); otherwise
  what was acknowledged, the record in doubt with it or not, but for the facts
  from some identifier up to `short` that an opening left out (`Holds`).  A crash
  (`CrashHolds`, `GoneInv`) needs nothing else.  While a process runs, the file
  and the file followed by the records still to be published miss the same facts,
  and have no record of them (`FileFollows`, `Shows`), and those records lead from
  what is published to memory (`Leads`): this is why a commit cut anywhere leaves
  a good file, also when it goes to a short one, and why a removal of a fact that
  the file does not have can be told from a mistake (`RecordsAlternate`).  From
  it: the five properties of the run `persistence`.
* **FactsOpenedProofs.**  `Inv` is inductive (`InitInv`, `NextInv`): each count is
  the cardinality of the set of places that point to the database, a database
  lives as long as its count is not 0, and each point of a call fixes which of
  its locals hold one, so that no step overwrites a pointer it has not released
  (`CallInv`).  Every action changes one, two or three places; `PointCounts` and
  `ClearCounts` say what one such change does to the counts, and `RegisterStore`,
  `DropStore` and `MoveStore` compose them.  From it: `Types` (`TypeOK`),
  `CountsExact` (`RefsCounted`), `NothingDangles` (`PointersLive`) and
  `NothingLeaked` (`NothingLeaks`).  The second part is `WriterUnique`
  (`OneWriter`), with closings and renamings in any order.
  `WriterInv` adds what `OneWriter` rests on: no two entries share a
  path, but for paths that were renamed to (`EntriesApart`); a path that a log
  writes to is accounted for, by an entry of that database and path, by the call
  that opened it, by a call that is closing it, or by `moved` (`LogsCovered`); a
  database being opened is nowhere else (`OwnInv`); and a rename in progress has
  its path in `moved` (`RenameInv`).  `WriterStep` is the frame all actions fit:
  a step moves one thread, and what accounts for a log stays or is replaced.
* **SkipListProofs.**  The invariant has two parts.  `Control` is about the calls
  alone: a writer is alone, and a thread works at a level its node has.
  `Linkage` is about the links: `LevelsSorted`, and that the predecessors which
  `skiplist_pred__fact` has found stay what they are until the loop over the
  levels comes to them.  From it: `LevelsStaySorted`, `NoNodeUsedAfterFree`
  (`NoFreedAccess`) and `ImplementsOrderedSet` (`Refines`), where a call takes
  effect at its write to level 0.  The proof needs that the null link is neither a
  fact nor the head of the list (`NilAssumption`), which the code has by its
  types.
* **FactsQueryProofs.**  Four invariants, each standing on the one before.
  `QueryInv`: types, the accounts of the table (`Accounts`: `AddAccounts`,
  `RemoveAccounts` and `CutAccounts` are the three changes of a chain, `Flattened`
  is the walk), and
  that a bound variable belongs to a cursor; from it `TableAccounts`
  (`SetAccounts`) and `VarsAreReset` (`VarsReset`), whatever `compare_tag`
  answers.  `Ordered`: each index is sorted by the comparison the code makes, all have the same facts, and the table has no others
  (`Excess` counts those it lost); `RowsOrdered` lifts the order of tags to facts in
  each of the three key orders, `PredPlaces` says where a walk of a sorted index
  stops, and `IndexesStayOrdered` (`IndexesOrdered`) follows.  `JoinInv`: each
  cursor stands for its pattern with what the cursors around it have bound, and
  is on the fact that the bindings make of it; `RangeExact` is why a cursor
  returns what matches and nothing else, and rests on the choice of the index
  (`GivenFirst`).  `AnsweredInv`: of the solutions exactly those have been
  answered that the cursors have `Passed`, in the order of backtracking;
  `OpenPasses`, `AdvancePasses` and `BacktrackPasses` say what each step of
  `facts_with_cursor_next` does to that set, `NewAnswer` that an answer is a
  solution not passed before.  When the last cursor is exhausted all are passed:
  `AnswersAreExact` (`AnswersExact`), for any number of patterns and variables.

  The theorems about order have the hypothesis `OrderIsTotal`: on the tags in
  use, `compare_tag` makes the order of their values.  It holds of the tags of the
  run `queries`, where no fact is misplaced, and fails for those of
  `queries_wide`, where the indexes lose one (section 5).  Which sets of tags
  satisfy it is left to TLC: the rows of `compare_tag` are tables over pairs of
  types, and recursive over items.

The assumptions are the named ASSUMEs of `Facts` (`TriplesAssumption`,
`UwMaxAssumption`, `MaxDepthAssumption`, `FlagsAssumption`,
`FailStagesAssumption`) and of `RwLock` (`NoThreadAssumption`,
`SwMaxAssumption`, `MaxCallsAssumption`), the `UwMaxAssumption` of
`FactsPersistence`, and those of `FactsOpened`, which say that locals,
variables, entries and the null pointer are different things and that there are
finitely many, the `NilAssumption` of `SkipList`, and five of `FactsQuery`: facts
are triples of tags (`TriplesAssumption`), a tag is neither a variable nor an end
of a range (`TagsAssumption`), a query has a pattern and no pattern names a variable
twice (`SpecsAssumption`), `compare_tag` finds no difference between a tag and
itself (`OrderAssumption`), and a table has buckets (`HashAssumption`).

`ReplicasFollow` and `ResyncFromAnyCursor` are proved for a database that counts
its servers: with `server_count` 0 the first is false, which the run
`facts_uncounted` shows.

The theorems about replays speak of functions defined by recursion on sequences
of any length.  They are proved without an induction rule: of the places where a
claim about a replay fails there would be a least one (`Least`, from the
well-foundedness of the natural numbers), and the step that leads to it is one
application of `Apply`.

Every safety invariant and every refinement that a passing run checks is a
theorem.  Model-checked only is liveness (`Returns`, `AllReleased`, `Converges`,
`BothEndsClose`, `DialsAnswered`), which is out of the prover's reach.  The
violated properties of section 5 are of course not theorems.

## 5. Where code and documentation disagree

* `doc/1_KC3/1.25_Facts.en.md:130` says that all add and remove operations are
  broadcast to connected peers.  Removals are broadcast only when `server_count`
  is not 0 (`facts.c:2244`), which neither `Facts.accept` nor `Facts.connect`
  sets.  Run `facts_uncounted`.  Line 74 asks for `server_count` for another
  purpose, to retain deletions.
* `doc/1_KC3/1.25_Facts.en.md:71` says that an interrupted replay resumes from
  its cursor.  Nothing takes a dead connection out of the list except
  `close_all`, and an address that is listed is refused (`facts_connection.c:163`):
  the cursor is right (`ResumesFromCursor`), but the replica cannot get back in
  until the application of the master closes every connection.  Run
  `replication_redial`.
* `doc/1_KC3/1.25_Facts.en.md:20` says that opening a database replays the dump
  and the log and opens the file for appending.  It does more in between: it
  truncates the file (`facts.c:1635`, `facts.c:975`) and writes the facts back in
  place.  A crash or a full disk there loses committed facts for good.
  `KeepsOldest` says what is left.  Run `persistence_cut`.

* `facts_remove_fact_internal` asserts that every index has the fact it removes
  (`facts.c:2271`).  `compare_tag` compares an unsigned 16-bit number with a
  negative one as two signed 16-bit numbers (`compare.c:1210-1212`): 40000 is less
  than -1 from that side, and more from the other.  With both in a database, added
  in one of the two orders, a walk for -1 stops at 40000 and the assertion fails.
  Run `queries_wide`.
* `facts.h:64` says that `facts_open_memoized` reuses an already opened database.
  Two threads that open a path for the first time both read and rewrite the file
  (`facts.c:1654-1683`), the slower after the faster may have logged writes:
  what `facts_add_fact` reported is gone from the file.  Run `opened_race`.

Known, without a run:

* other pairs that `compare_tag` orders one way from one side and another way from
  the other: F32 against a ratio or a complex number (by value; the reverse by
  type), a big integer against F32 (rounded to F64; the reverse to F32), S16
  against F80 and F128 (no rows).  F64 is compared with ratios by type and both with machine integers
  differently, so that 1 < 1.5 < 1/2 < 1.  The rows are in `Tags`; `queries` has
  numbers of every row but that of ratios, at values where the rows agree: two
  facts out of order there would be a mistake in a row that is meant to order them.
* an insertion that finds no memory for an item of a bucket in use cuts the chain
  of the bucket (`set__fact.c:43-47`): the facts behind its first item can then be
  found by queries and neither removed nor found by `facts_find_fact`.
  `SetAccounts` and `IndexesOrdered` say what stays true.
* the unwindings at `facts.c:513-542` cannot run (section 2, Facts).
* `facts_dump_binary` leaves results unchecked (`facts.c:934-945`, and 979 and 1635
  in its callers), so that an opening goes on over a short file.  `KeepsOldest` and
  `ReopensToPublished` say what is found afterwards.
* `facts_rename` changes the path of the log before that of the table entry
  (`facts.c:674`, 679), and the second may not happen (`facts.c:166`): an opening
  of the new path then makes a second writer of it.  `OneWriter` leaves such paths
  out.
* `facts_close` closes the log whoever else holds the database, whose writes are
  then not logged; and between the look at the log and its closing
  (`facts.c:651-655`) another thread may close it.
* numbers of two types that are equal (1 and 1.0) have different hashes and
  compare as equal: the table has two items and each index one node.
* `compare_struct` does not advance in its loop when neither side has data
  (`compare.c:653-658`).
* `var_set` returns with the mutex of the variable held when `tag_type` fails
  (`var.c:189-190`).
* `env_ident_get_address`, `env_maybe_reload`, `env_special_operator_arity`,
  `env_struct_type_exists` (`env.c:2028`, 2755, 3295, 3348) and `mime_type.c:29`
  query without the lock.

## 6. Not modelled

The models cover the database and what it stands on.  The repository is much
larger: an interpreter, its reader, printer and value library, HTTP, graphics,
documents, and vendored code.  Nearly all of that is sequential conversion of
unbounded data or bindings of other libraries; to cover a large share of the
lines would mean to write those conversions out, with nothing for a model
checker to find that a unit test does not.

* Text files.  `facts_load` stops without an error at the first line it cannot
  parse (`facts.c:1145`), and the opening then truncates the file.
* `facts_dump_binary` and `facts_load_binary` as public functions, whose formats
  differ (`facts.c:1264`), and the marshalled image with its after-dump log
  (`facts_open_file_after_dump`, `marshall_read_facts_log`), whose restoration
  overwrites the primary log (`marshall_read.c:1175`); section 7, item 3.
* `set_resize__fact` (no caller), `set__tag.c` (the same template as
  `set__fact.c`), the index by identifier and `facts_with_0_id`, patterns with
  a repeated variable, `compare_tag` on code and structures.
* The lock around a callback of a query: the callback is the application's and
  may write, which asks for the write lock under the read lock (`env.c:1258`).
* A recursion count beyond `SW_MAX` (`rwlock.c:202`), and a write of a replica
  that races with its connection (`facts.c:299`).
* A replica that writes while it is not connected, several masters of one
  replica, leader failover: outside what the documentation promises.
* Blocking sends and the join of connection threads under the database lock:
  two deadlocks of this kind are listed as hazards without a property.
* The evaluator, values, reader, printer and marshalling: sequential
  conversions and recursive interpretation over unbounded data.  TLC reaches
  nothing in them that a unit test does not.
* Sockets, TLS, cryptography, events, HTTP, graphics, packages, tools: I/O,
  pure functions of bytes and bindings of other libraries.

## 7. Plan

1. Done: the modules of section 2 and the proofs of section 4.
2. Proofs: a refinement of an abstract durable store by `FactsPersistence`; that
   classes of tags satisfy `OrderIsTotal` (integers of one width, symbols).
3. `FactsImage`: a database in a marshalled image, its after-dump log and its
   primary log, and which of them wins when they are opened again; text files
   and `facts_load` on an open database.
4. Replication with the database lock explicit: bounded streams, `close_all` and
   its joins, `facts_load` on a replica.
