---------------------------- MODULE FactsOpened ----------------------------
(***************************************************************************)
(* The table of opened databases of libkc3/facts.c and the reference count *)
(* of a database: facts_open_memoized, facts_open_memoized_register,       *)
(* facts_close, facts_rename, facts_new_ref and facts_delete, called by    *)
(* the threads of one process.                                             *)
(*                                                                         *)
(* One action is one hold of g_facts_opened_mutex, one hold of the mutex   *)
(* of a reference count, or the work done between two of them.  What a     *)
(* file holds and how it is replayed is FactsPersistence; here a file is a *)
(* set of facts.                                                           *)
(***************************************************************************)
EXTENDS Naturals, FiniteSets

CONSTANTS Threads,
          Slots,    \* p_facts variables of one thread
          Cells,    \* s_facts_opened that can be allocated
          Objects,  \* s_facts that can be allocated
          Paths,    \* full paths
          Facts,
          Null      \* the null pointer

ASSUME SlotsAssumption == {"own", "found"} \cap Slots = {}
ASSUME NullAssumption == Null \notin Objects \cup Paths
ASSUME FiniteAssumption ==
  IsFiniteSet(Threads) /\ IsFiniteSet(Slots) /\ IsFiniteSet(Cells)
ASSUME CellsAssumption == Cells \cap (Threads \X (Slots \cup {"own", "found"})) = {}

Vars == Threads \X Slots
Own(t) == <<t, "own">>      \* the local facts of facts_open_memoized, the
                            \* local cached of facts_opened_remove
Found(t) == <<t, "found">>  \* the local found of facts_open_memoized
Places == (Threads \X (Slots \cup {"own", "found"})) \cup Cells

VARIABLES
  ptr,    \* ptr[p]: the database that place p points to
  key,    \* key[c]: the path of entry c of the table
  refs,   \* refs[o]: facts->ref_count
  life,   \* life[o]: "unused", "live" or "freed"
  log,    \* log[o]: the path its log appends to, Null if it has none
  mem,    \* mem[o]: the facts in memory
  file,   \* file[p]: the facts the file holds
  acked,  \* history: the facts a logged write to p has acknowledged
  moved,  \* history: the paths facts_rename has given to a log
  call    \* call[t]: the call thread t is in

vars == <<ptr, key, refs, life, log, mem, file, acked, moved, call>>
files == <<mem, file, acked, moved>>

Idle == [at |-> "idle", path |-> Null, dest |-> Null]
At(t, l) == call[t].at = l
Goto(t, l) == call' = [call EXCEPT ![t].at = l]
Return(t) == call' = [call EXCEPT ![t] = Idle]
Path(t) == call[t].path
Dest(t) == call[t].dest

Init ==
  /\ ptr = [p \in Places |-> Null]
  /\ key = [c \in Cells |-> Null]
  /\ refs = [o \in Objects |-> 0]
  /\ life = [o \in Objects |-> "unused"]
  /\ log = [o \in Objects |-> Null]
  /\ mem = [o \in Objects |-> {}]
  /\ file = [p \in Paths |-> {}]
  /\ acked = [p \in Paths |-> {}]
  /\ moved = {}
  /\ call = [t \in Threads |-> Idle]

(***************************************************************************)
(* Helpers                                                                 *)
(***************************************************************************)
Entries == {c \in Cells : ptr[c] # Null}

(* The entries of a path.  The code takes the newest, the model any.       *)
Find(p) == {c \in Entries : key[c] = p}

(* Databases that can be allocated. *)
Unused == {o \in Objects : life[o] = "unused"}

Allocate(o) ==
  /\ refs' = [refs EXCEPT ![o] = 1]
  /\ life' = [life EXCEPT ![o] = "live"]

(* facts_new_ref *)
Retain(o) == refs' = [refs EXCEPT ![o] = @ + 1]

(* facts_delete: the last reference closes the log and frees the database. *)
(* facts_clean finds no entry of it to remove: an entry is a reference.    *)
Release(o) ==
  /\ refs' = [refs EXCEPT ![o] = @ - 1]
  /\ life' = [life EXCEPT ![o] = IF refs[o] = 1 THEN "freed" ELSE @]
  /\ log' = [log EXCEPT ![o] = IF refs[o] = 1 THEN Null ELSE @]

(***************************************************************************)
(* facts_open_memoized                                                     *)
(***************************************************************************)
(* Faulty: hands out the entry's pointer without facts_new_ref.            *)
LookupUncounted(t, v, p) ==
  /\ At(t, "idle")
  /\ ptr[v] = Null
  /\ \/ \E c \in Find(p) :
          /\ ptr' = [ptr EXCEPT ![v] = ptr[c]]
          /\ UNCHANGED <<call, refs>>
     \/ /\ Find(p) = {}
        /\ call' = [call EXCEPT ![t] = [at |-> "new", path |-> p, dest |-> v]]
        /\ UNCHANGED <<ptr, refs>>
  /\ UNCHANGED <<key, life, log, files>>

(* The first look at the table. *)
Lookup(t, v, p) ==
  /\ At(t, "idle")
  /\ ptr[v] = Null
  /\ \/ \E c \in Find(p) :
          /\ Retain(ptr[c])
          /\ ptr' = [ptr EXCEPT ![v] = ptr[c]]
          /\ UNCHANGED call
     \/ /\ Find(p) = {}
        /\ call' = [call EXCEPT ![t] = [at |-> "new", path |-> p, dest |-> v]]
        /\ UNCHANGED <<ptr, refs>>
  /\ UNCHANGED <<key, life, log, files>>

(* facts_new, without the mutex; it may have no memory. *)
New(t) ==
  /\ At(t, "new")
  /\ \/ \E o \in Unused :
          /\ Allocate(o)
          /\ ptr' = [ptr EXCEPT ![Own(t)] = o]
          /\ Goto(t, "replay")
     \/ /\ Return(t)
        /\ UNCHANGED <<ptr, refs, life>>
  /\ UNCHANGED <<key, log, files>>

(* facts_open_file: reads the file ... *)
Replay(t) ==
  /\ At(t, "replay")
  /\ mem' = [mem EXCEPT ![ptr[Own(t)]] = file[Path(t)]]
  /\ Goto(t, "rewrite")
  /\ UNCHANGED <<ptr, key, refs, life, log, file, acked, moved>>

(* ... or fails to; facts_delete, error. *)
ReplayFails(t) ==
  /\ At(t, "replay")
  /\ Release(ptr[Own(t)])
  /\ ptr' = [ptr EXCEPT ![Own(t)] = Null]
  /\ Return(t)
  /\ UNCHANGED <<key, files>>

(* ... then facts_dump_binary_file replaces the file by what was read and  *)
(* the log is opened to append to it.                                      *)
Rewrite(t) ==
  /\ At(t, "rewrite")
  /\ file' = [file EXCEPT ![Path(t)] = mem[ptr[Own(t)]]]
  /\ log' = [log EXCEPT ![ptr[Own(t)]] = Path(t)]
  /\ Goto(t, "register")
  /\ UNCHANGED <<ptr, key, refs, life, mem, acked, moved>>

(* Faulty: registers without looking at the table again.                   *)
RegisterBlindly(t) ==
  /\ At(t, "register")
  /\ \E c \in Cells \ Entries :
       /\ ptr' = [ptr EXCEPT ![c] = ptr[Own(t)], ![Own(t)] = Null,
                             ![Dest(t)] = ptr[Own(t)]]
       /\ key' = [key EXCEPT ![c] = Path(t)]
  /\ Retain(ptr[Own(t)])
  /\ Return(t)
  /\ UNCHANGED <<life, log, files>>

(* Faulty: the entry does not count as a reference.                        *)
RegisterUncounted(t) ==
  /\ At(t, "register")
  /\ Find(Path(t)) = {}
  /\ \E c \in Cells \ Entries :
       /\ ptr' = [ptr EXCEPT ![c] = ptr[Own(t)], ![Own(t)] = Null,
                             ![Dest(t)] = ptr[Own(t)]]
       /\ key' = [key EXCEPT ![c] = Path(t)]
  /\ Return(t)
  /\ UNCHANGED <<refs, life, log, files>>

(* The second look at the table: the path is still free, and the new       *)
(* database is registered.                                                 *)
Register(t) ==
  /\ At(t, "register")
  /\ Find(Path(t)) = {}
  /\ \E c \in Cells \ Entries :
       /\ ptr' = [ptr EXCEPT ![c] = ptr[Own(t)], ![Own(t)] = Null,
                             ![Dest(t)] = ptr[Own(t)]]
       /\ key' = [key EXCEPT ![c] = Path(t)]
  /\ Retain(ptr[Own(t)])
  /\ Return(t)
  /\ UNCHANGED <<life, log, files>>

(* No memory for the entry. *)
RegisterFails(t) ==
  /\ At(t, "register")
  /\ Find(Path(t)) = {}
  /\ Release(ptr[Own(t)])
  /\ ptr' = [ptr EXCEPT ![Own(t)] = Null]
  /\ Return(t)
  /\ UNCHANGED <<key, files>>

(* Another thread has registered the path in between: its database ... *)
RegisterFound(t) ==
  /\ At(t, "register")
  /\ \E c \in Find(Path(t)) :
       /\ Retain(ptr[c])
       /\ ptr' = [ptr EXCEPT ![Found(t)] = ptr[c]]
  /\ Goto(t, "drop")
  /\ UNCHANGED <<key, life, log, files>>

(* Faulty: forgets its own database.                                       *)
DropLeaked(t) ==
  /\ At(t, "drop")
  /\ ptr' = [ptr EXCEPT ![Own(t)] = Null, ![Found(t)] = Null,
                        ![Dest(t)] = ptr[Found(t)]]
  /\ Return(t)
  /\ UNCHANGED <<key, refs, life, log, files>>

(* ... is returned, and this thread's own deleted. *)
Drop(t) ==
  /\ At(t, "drop")
  /\ Release(ptr[Own(t)])
  /\ ptr' = [ptr EXCEPT ![Own(t)] = Null, ![Found(t)] = Null,
                        ![Dest(t)] = ptr[Found(t)]]
  /\ Return(t)
  /\ UNCHANGED <<key, files>>

(***************************************************************************)
(* Variables that hold a database                                          *)
(***************************************************************************)
(* pfacts_init *)
Database(t, v) ==
  /\ At(t, "idle")
  /\ ptr[v] = Null
  /\ \E o \in Unused :
       /\ Allocate(o)
       /\ ptr' = [ptr EXCEPT ![v] = o]
  /\ UNCHANGED <<key, log, files, call>>

(* pfacts_init_copy, to another variable of the thread or, with the frame  *)
(* it is copied in, to one of a new thread.                                *)
Copy(t, v, w) ==
  /\ At(t, "idle")
  /\ At(w[1], "idle")
  /\ ptr[v] # Null
  /\ ptr[w] = Null
  /\ Retain(ptr[v])
  /\ ptr' = [ptr EXCEPT ![w] = ptr[v]]
  /\ UNCHANGED <<key, life, log, files, call>>

(* pfacts_clean *)
Forget(t, v) ==
  /\ At(t, "idle")
  /\ ptr[v] # Null
  /\ Release(ptr[v])
  /\ ptr' = [ptr EXCEPT ![v] = Null]
  /\ UNCHANGED <<key, files, call>>

(* facts_add_fact, under the write lock of the database: it is logged if   *)
(* the database has a log.                                                 *)
Write(t, v, f) ==
  LET o == ptr[v] IN
  /\ At(t, "idle")
  /\ o # Null
  /\ f \notin mem[o]
  /\ mem' = [mem EXCEPT ![o] = @ \cup {f}]
  /\ IF log[o] = Null
     THEN UNCHANGED <<file, acked>>
     ELSE /\ file' = [file EXCEPT ![log[o]] = @ \cup {f}]
          /\ acked' = [acked EXCEPT ![log[o]] = @ \cup {f}]
  /\ UNCHANGED <<ptr, key, refs, life, log, moved, call>>

(***************************************************************************)
(* facts_close                                                             *)
(***************************************************************************)
(* The call: the database has a log. *)
Close(t, v) ==
  LET o == ptr[v] IN
  /\ At(t, "idle")
  /\ o # Null
  /\ log[o] # Null
  /\ call' = [call EXCEPT ![t] = [at |-> "remove", path |-> log[o], dest |-> v]]
  /\ UNCHANGED <<ptr, key, refs, life, log, files>>

(* facts_opened_remove: takes an entry of it out of the table. *)
Remove(t) ==
  LET mine == {c \in Entries : ptr[c] = ptr[Dest(t)]} IN
  /\ At(t, "remove")
  /\ \/ \E c \in mine :
          /\ ptr' = [ptr EXCEPT ![c] = Null, ![Own(t)] = ptr[c]]
          /\ key' = [key EXCEPT ![c] = Null]
          /\ Goto(t, "uncache")
     \/ /\ mine = {}
        /\ Goto(t, "check")
        /\ UNCHANGED <<ptr, key>>
  /\ UNCHANGED <<refs, life, log, files>>

(* facts_opened_remove, after the mutex: releases the table's reference. *)
Uncache(t) ==
  /\ At(t, "uncache")
  /\ Release(ptr[Own(t)])
  /\ ptr' = [ptr EXCEPT ![Own(t)] = Null]
  /\ Goto(t, "check")
  /\ UNCHANGED <<key, files>>

(* The log may have been closed meanwhile. *)
CheckLog(t) ==
  /\ At(t, "check")
  /\ IF log[ptr[Dest(t)]] = Null THEN Return(t) ELSE Goto(t, "close")
  /\ UNCHANGED <<ptr, key, refs, life, log, files>>

(* log_close and log_delete.  If another thread has closed the log since   *)
(* the check, the process ends here.                                       *)
CloseLog(t) ==
  /\ At(t, "close")
  /\ log[ptr[Dest(t)]] # Null
  /\ log' = [log EXCEPT ![ptr[Dest(t)]] = Null]
  /\ Return(t)
  /\ UNCHANGED <<ptr, key, refs, life, files>>

(***************************************************************************)
(* facts_rename                                                            *)
(***************************************************************************)
(* The application has moved the file, to a path no database writes; the   *)
(* log is told.                                                            *)
Rename(t, v, q) ==
  LET p == log[ptr[v]] IN
  /\ At(t, "idle")
  /\ ptr[v] # Null
  /\ p # Null
  /\ \A x \in Objects : log[x] # q
  /\ log' = [x \in Objects |-> IF log[x] = p THEN q ELSE log[x]]
  /\ file' = [file EXCEPT ![q] = file[p], ![p] = {}]
  /\ acked' = [acked EXCEPT ![q] = acked[p], ![p] = {}]
  /\ moved' = moved \cup {q}
  /\ call' = [call EXCEPT ![t] = [at |-> "rename", path |-> q, dest |-> v]]
  /\ UNCHANGED <<ptr, key, refs, life, mem>>

(* facts_opened_rename: then an entry of the table, if there is one and    *)
(* facts_full_path finds the path.                                         *)
RenameEntry(t) ==
  LET mine == {c \in Entries : ptr[c] = ptr[Dest(t)]} IN
  /\ At(t, "rename")
  /\ \/ \E c \in mine : key' = [key EXCEPT ![c] = Path(t)]
     \/ UNCHANGED key
  /\ Return(t)
  /\ UNCHANGED <<ptr, refs, life, log, files>>

(***************************************************************************)
(* marshall_read_facts_log: a database read from an image                  *)
(***************************************************************************)
(* facts_open_file_after_dump, facts_save_binary_file, then                *)
(* facts_open_memoized_register, while the process starts: no other thread *)
(* is in a call and nobody writes the file.                                *)
Restore(t, v, p) ==
  LET o == ptr[v] IN
  /\ \A u \in Threads : At(u, "idle")
  /\ o # Null
  /\ log[o] = Null
  /\ \A c \in Entries : ptr[c] # o
  /\ Find(p) = {}
  /\ \A x \in Objects : log[x] # p
  /\ file' = [file EXCEPT ![p] = mem[o]]
  /\ acked' = [acked EXCEPT ![p] = {}]
  /\ log' = [log EXCEPT ![o] = p]
  /\ \E c \in Cells \ Entries :
       /\ ptr' = [ptr EXCEPT ![c] = o]
       /\ key' = [key EXCEPT ![c] = p]
  /\ Retain(o)
  /\ UNCHANGED <<life, mem, moved, call>>

Next ==
  \E t \in Threads :
    \/ \E v \in {t} \X Slots :
         \/ \E p \in Paths : Lookup(t, v, p) \/ Rename(t, v, p) \/ Restore(t, v, p)
         \/ Database(t, v) \/ Forget(t, v) \/ Close(t, v)
         \/ \E w \in Vars : Copy(t, v, w)
         \/ \E f \in Facts : Write(t, v, f)
    \/ New(t) \/ Replay(t) \/ ReplayFails(t) \/ Rewrite(t)
    \/ Register(t) \/ RegisterFails(t) \/ RegisterFound(t) \/ Drop(t)
    \/ Remove(t) \/ Uncache(t) \/ CheckLog(t) \/ CloseLog(t)
    \/ RenameEntry(t)

Spec == Init /\ [][Next]_vars

(***************************************************************************)
(* Properties                                                              *)
(***************************************************************************)
(* Where a thread is in facts_close. *)
Closing == {"remove", "uncache", "check", "close"}
Locations ==
  Closing \cup {"idle", "new", "replay", "rewrite", "register", "drop", "rename"}

TypeOK ==
  /\ ptr \in [Places -> Objects \cup {Null}]
  /\ key \in [Cells -> Paths \cup {Null}]
  /\ refs \in [Objects -> Nat]
  /\ life \in [Objects -> {"unused", "live", "freed"}]
  /\ log \in [Objects -> Paths \cup {Null}]
  /\ mem \in [Objects -> SUBSET Facts]
  /\ file \in [Paths -> SUBSET Facts]
  /\ acked \in [Paths -> SUBSET Facts]
  /\ moved \in SUBSET Paths
  /\ call \in [Threads -> [at : Locations, path : Paths \cup {Null},
                           dest : Vars \cup {Null}]]

(* The places that point to a database. *)
References(o) == {p \in Places : ptr[p] = o}

(* ref_count of a database is the number of variables, entries of the      *)
(* table and locals of calls that point to it, whichever calls are on the  *)
(* way (facts_new_ref, facts_delete).                                      *)
RefsCounted == \A o \in Objects : refs[o] = Cardinality(References(o))

(* Nothing points to a database that facts_delete has freed, so no call    *)
(* finds one in the table or writes to one.                                *)
PointersLive == \A p \in Places : ptr[p] # Null => life[ptr[p]] = "live"

(* A database whose last reference is gone has been freed, and its log     *)
(* with it: nothing is leaked by a lost race or a failed opening.          *)
NothingLeaks ==
  \A o \in Objects :
    References(o) = {} => life[o] # "live" /\ log[o] = Null

(* The paths that a database being closed still writes to. *)
Closed == {log[ptr[Dest(t)]] : t \in {u \in Threads : call[u].at \in Closing}}

(* However many openings of a path race with each other and with the       *)
(* closing of its databases, no two databases that threads can write to,   *)
(* being between calls, append to the same file, once the closings are     *)
(* over.  A path that a database was renamed to is not so protected.       *)
OneWriter ==
  \A v, w \in {x \in Vars : At(x[1], "idle") /\ ptr[x] # Null} :
    /\ log[ptr[v]] = log[ptr[w]]
    /\ log[ptr[v]] \notin Closed \cup moved \cup {Null}
    => ptr[v] = ptr[w]

(* facts.h:64, "reusing an already opened database": opening a path does   *)
(* not touch what a database opened on it has acknowledged.                *)
OpenKeepsAcknowledged == \A p \in Paths : acked[p] \subseteq file[p]
=============================================================================
