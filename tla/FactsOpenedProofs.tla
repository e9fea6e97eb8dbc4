------------------------- MODULE FactsOpenedProofs -------------------------
(***************************************************************************)
(* Proofs about FactsOpened.tla, for all finite sets of threads, variables *)
(* and entries: the reference counts are exact, so no pointer outlives its *)
(* database and no database outlives its pointers; and no two databases    *)
(* that threads can write to append to the same file, closings and renamed *)
(* paths aside.                                                            *)
(***************************************************************************)
EXTENDS FactsOpened, FiniteSetTheorems, TLAPS

(***************************************************************************)
(* Counting                                                                *)
(***************************************************************************)
(* The places that point to o, of any assignment f of pointers.            *)
To(f, o) == {p \in Places : f[p] = o}
Pointers == [Places -> Objects \cup {Null}]

(* There are finitely many places. *)
LEMMA PlacesFinite == IsFiniteSet(Places)
<1>1. IsFiniteSet(Slots \cup {"own", "found"})
  <2>1. IsFiniteSet((Slots \cup {"own"}) \cup {"found"})
    BY FiniteAssumption, FS_AddElement
  <2>2. (Slots \cup {"own"}) \cup {"found"} = Slots \cup {"own", "found"}
    OBVIOUS
  <2>3. QED
    BY <2>1, <2>2
<1>2. IsFiniteSet(Threads \X (Slots \cup {"own", "found"}))
  BY <1>1, FiniteAssumption, FS_Product
<1>3. QED
  BY <1>2, FiniteAssumption, FS_Union DEF Places

(* Finitely many point to o, and their number is a number. *)
LEMMA ToFinite ==
  ASSUME NEW f, NEW o
  PROVE  /\ IsFiniteSet(To(f, o))
         /\ Cardinality(To(f, o)) \in Nat
BY PlacesFinite, FS_Subset, FS_CardinalityType DEF To

(* Something points to o exactly when the count is not 0. *)
LEMMA ToCount ==
  ASSUME NEW f, NEW o
  PROVE  Cardinality(To(f, o)) = 0 <=> To(f, o) = {}
BY ToFinite, FS_EmptySet

(* What a place points to has a count. *)
LEMMA Pointed ==
  ASSUME NEW f, NEW p \in Places
  PROVE  Cardinality(To(f, f[p])) > 0
<1>1. p \in To(f, f[p])
  BY DEF To
<1>2. QED
  BY <1>1, ToFinite, ToCount

(* A place that points nowhere is made to point to x. *)
LEMMA PointCounts ==
  ASSUME NEW f \in Pointers, NEW p \in Places, f[p] = Null, NEW x \in Objects,
         NEW o \in Objects
  PROVE  Cardinality(To([f EXCEPT ![p] = x], o)) =
           IF o = x THEN Cardinality(To(f, o)) + 1 ELSE Cardinality(To(f, o))
<1>1. CASE o = x
  <2>1. To([f EXCEPT ![p] = x], o) = To(f, o) \cup {p}
    BY <1>1 DEF To, Pointers
  <2>2. p \notin To(f, o)
    BY NullAssumption DEF To
  <2>3. QED
    BY <1>1, <2>1, <2>2, ToFinite, FS_AddElement
<1>2. CASE o # x
  <2>1. To([f EXCEPT ![p] = x], o) = To(f, o)
    BY <1>2, NullAssumption DEF To, Pointers
  <2>2. QED
    BY <1>2, <2>1
<1>3. QED
  BY <1>1, <1>2

(* A place that points to a database is made to point nowhere. *)
LEMMA ClearCounts ==
  ASSUME NEW f \in Pointers, NEW p \in Places, NEW x \in Objects, f[p] = x,
         NEW o \in Objects
  PROVE  Cardinality(To([f EXCEPT ![p] = Null], o)) =
           IF o = x THEN Cardinality(To(f, o)) - 1 ELSE Cardinality(To(f, o))
<1>1. CASE o = x
  <2>1. To([f EXCEPT ![p] = Null], o) = To(f, o) \ {p} /\ p \in To(f, o)
    BY <1>1, NullAssumption DEF To, Pointers
  <2>2. QED
    BY <1>1, <2>1, ToFinite, FS_RemoveElement
<1>2. CASE o # x
  <2>1. To([f EXCEPT ![p] = Null], o) = To(f, o)
    BY <1>2, NullAssumption DEF To, Pointers
  <2>2. QED
    BY <1>2, <2>1
<1>3. QED
  BY <1>1, <1>2

(***************************************************************************)
(* Pointers, counts and lives                                              *)
(***************************************************************************)
StoreType ==
  /\ ptr \in Pointers
  /\ refs \in [Objects -> Nat]
  /\ life \in [Objects -> {"unused", "live", "freed"}]
  /\ log \in [Objects -> Paths \cup {Null}]

(* A database lives while its count is not 0, and has a log only then.     *)
Lives ==
  \A o \in Objects :
    /\ refs[o] > 0 <=> life[o] = "live"
    /\ refs[o] = 0 => log[o] = Null

StoreInv == StoreType /\ RefsCounted /\ Lives

(* RefsCounted in terms of To. *)
LEMMA ReferencesTo == RefsCounted <=> \A o \in Objects : refs[o] = Cardinality(To(ptr, o))
BY DEF RefsCounted, References, To

(* What a place points to is alive. *)
LEMMA PointedLives ==
  ASSUME StoreInv, NEW p \in Places, ptr[p] # Null
  PROVE  ptr[p] \in Objects /\ life[ptr[p]] = "live" /\ refs[ptr[p]] > 0
BY Pointed, ReferencesTo DEF StoreInv, StoreType, Lives, Pointers

(* facts_new_ref and a pointer to what it counted. *)
LEMMA RetainStore ==
  ASSUME StoreInv, NEW p \in Places, NEW x \in Objects,
         life[x] = "live", ptr[p] = Null,
         ptr' = [ptr EXCEPT ![p] = x], Retain(x), UNCHANGED life,
         NEW l \in Paths \cup {Null}, log' = [log EXCEPT ![x] = l]
  PROVE  StoreInv'
<1>1. ptr' \in Pointers
  BY DEF StoreInv, StoreType, Pointers
<1>2. StoreType'
  BY <1>1 DEF StoreInv, StoreType, Retain
<1>3. ASSUME NEW o \in Objects PROVE refs'[o] = Cardinality(To(ptr', o))
  <2>1. Cardinality(To(ptr', o)) =
          IF o = x THEN Cardinality(To(ptr, o)) + 1 ELSE Cardinality(To(ptr, o))
    BY PointCounts DEF StoreInv, StoreType
  <2>2. refs[o] = Cardinality(To(ptr, o))
    BY ReferencesTo DEF StoreInv
  <2>3. refs'[o] = IF o = x THEN refs[o] + 1 ELSE refs[o]
    BY DEF StoreInv, StoreType, Retain
  <2>4. QED
    BY <2>1, <2>2, <2>3
<1>4. RefsCounted'
  BY <1>3 DEF RefsCounted, References, To
<1>5. Lives'
  BY DEF StoreInv, StoreType, Lives, Retain
<1>6. QED
  BY <1>2, <1>4, <1>5 DEF StoreInv

(* facts_new and a pointer to the new database. *)
LEMMA AllocateStore ==
  ASSUME StoreInv, NEW p \in Places, NEW x \in Unused, ptr[p] = Null,
         ptr' = [ptr EXCEPT ![p] = x], Allocate(x), UNCHANGED log
  PROVE  StoreInv'
<1>1. x \in Objects /\ refs[x] = 0
  BY DEF Unused, StoreInv, StoreType, Lives
<1>2. ptr' \in Pointers
  BY <1>1 DEF StoreInv, StoreType, Pointers
<1>3. StoreType'
  BY <1>1, <1>2 DEF StoreInv, StoreType, Allocate
<1>4. ASSUME NEW o \in Objects PROVE refs'[o] = Cardinality(To(ptr', o))
  <2>1. Cardinality(To(ptr', o)) =
          IF o = x THEN Cardinality(To(ptr, o)) + 1 ELSE Cardinality(To(ptr, o))
    BY <1>1, PointCounts DEF StoreInv, StoreType
  <2>2. refs[o] = Cardinality(To(ptr, o))
    BY ReferencesTo DEF StoreInv
  <2>3. refs'[o] = IF o = x THEN refs[o] + 1 ELSE refs[o]
    BY <1>1 DEF StoreInv, StoreType, Allocate
  <2>4. QED
    BY <2>1, <2>2, <2>3
<1>5. RefsCounted'
  BY <1>4 DEF RefsCounted, References, To
<1>6. Lives'
  BY <1>1 DEF StoreInv, StoreType, Lives, Allocate
<1>7. QED
  BY <1>3, <1>5, <1>6 DEF StoreInv

(* facts_delete when a pointer goes. *)
LEMMA ReleaseStore ==
  ASSUME StoreInv, NEW p \in Places, NEW x \in Objects, ptr[p] = x,
         ptr' = [ptr EXCEPT ![p] = Null], Release(x)
  PROVE  StoreInv'
<1>1. life[x] = "live" /\ refs[x] > 0
  BY PointedLives, NullAssumption
<1>2. ptr' \in Pointers
  BY DEF StoreInv, StoreType, Pointers
<1>3. StoreType'
  BY <1>1, <1>2 DEF StoreInv, StoreType, Release
<1>4. ASSUME NEW o \in Objects PROVE refs'[o] = Cardinality(To(ptr', o))
  <2>1. Cardinality(To(ptr', o)) =
          IF o = x THEN Cardinality(To(ptr, o)) - 1 ELSE Cardinality(To(ptr, o))
    BY ClearCounts DEF StoreInv, StoreType
  <2>2. refs[o] = Cardinality(To(ptr, o))
    BY ReferencesTo DEF StoreInv
  <2>3. refs'[o] = IF o = x THEN refs[o] - 1 ELSE refs[o]
    BY DEF StoreInv, StoreType, Release
  <2>4. QED
    BY <2>1, <2>2, <2>3
<1>5. RefsCounted'
  BY <1>4 DEF RefsCounted, References, To
<1>6. Lives'
  BY <1>1 DEF StoreInv, StoreType, Lives, Release
<1>7. QED
  BY <1>3, <1>5, <1>6 DEF StoreInv

(* A log opens, closes or moves on a database that lives. *)
LEMMA LogStore ==
  ASSUME StoreInv, NEW x \in Objects, life[x] = "live", NEW q \in Paths \cup {Null},
         log' = [log EXCEPT ![x] = q], UNCHANGED <<ptr, refs, life>>
  PROVE  StoreInv'
<1>1. StoreType' /\ RefsCounted'
  BY DEF StoreInv, StoreType, RefsCounted, References
<1>2. Lives'
  BY DEF StoreInv, StoreType, Lives
<1>3. QED
  BY <1>1, <1>2 DEF StoreInv

(* A step that changes none of it. *)
LEMMA SameStore ==
  ASSUME StoreInv, UNCHANGED <<ptr, refs, life, log>>
  PROVE  StoreInv'
BY DEF StoreInv, StoreType, RefsCounted, References, Lives

(* facts_opened_remove takes the pointer of an entry. *)
LEMMA MoveStore ==
  ASSUME StoreInv, NEW p \in Places, NEW q \in Places, NEW x \in Objects,
         p # q, ptr[p] = x, ptr[q] = Null,
         ptr' = [ptr EXCEPT ![p] = Null, ![q] = x], UNCHANGED <<refs, life, log>>
  PROVE  StoreInv'
<1>0. PICK f : f = [ptr EXCEPT ![p] = Null]
  OBVIOUS
<1>1. f \in Pointers /\ f[q] = Null /\ ptr' = [f EXCEPT ![q] = x]
  BY <1>0 DEF StoreInv, StoreType, Pointers
<1>2. StoreType'
  BY <1>1 DEF StoreInv, StoreType, Pointers
<1>3. ASSUME NEW o \in Objects PROVE refs'[o] = Cardinality(To(ptr', o))
  <2>1. Cardinality(To(f, o)) =
          IF o = x THEN Cardinality(To(ptr, o)) - 1 ELSE Cardinality(To(ptr, o))
    <3>1. f = [ptr EXCEPT ![p] = Null]
      BY <1>0
    <3>2. /\ ptr \in Pointers /\ p \in Places /\ ptr[p] = x
          /\ x \in Objects /\ o \in Objects
      BY <1>0 DEF StoreInv, StoreType
    <3>3. Cardinality(To([ptr EXCEPT ![p] = Null], o)) =
            IF o = x THEN Cardinality(To(ptr, o)) - 1 ELSE Cardinality(To(ptr, o))
      BY ONLY <3>2, ClearCounts
    <3>4. QED
      BY ONLY <3>1, <3>3
  <2>2. Cardinality(To(ptr', o)) =
          IF o = x THEN Cardinality(To(f, o)) + 1 ELSE Cardinality(To(f, o))
    <3>1. ptr' = [f EXCEPT ![q] = x]
      BY <1>1
    <3>2. /\ f \in Pointers /\ q \in Places /\ f[q] = Null
          /\ x \in Objects /\ o \in Objects
      BY <1>1
    <3>3. Cardinality(To([f EXCEPT ![q] = x], o)) =
            IF o = x THEN Cardinality(To(f, o)) + 1 ELSE Cardinality(To(f, o))
      BY ONLY <3>2, PointCounts
    <3>4. QED
      BY ONLY <3>1, <3>3
  <2>3. refs[o] = Cardinality(To(ptr, o)) /\ refs[o] \in Nat
    BY ReferencesTo DEF StoreInv, StoreType
  <2>4. QED
    BY <2>1, <2>2, <2>3
<1>4. RefsCounted'
  BY <1>3 DEF RefsCounted, References, To
<1>5. Lives'
  BY DEF StoreInv, Lives
<1>6. QED
  BY <1>2, <1>4, <1>5 DEF StoreInv

(* An entry of the table and the caller's variable in place of the local:  *)
(* facts_open_memoized_register.                                           *)
LEMMA RegisterStore ==
  ASSUME StoreInv, NEW p \in Places, NEW c \in Places, NEW d \in Places,
         NEW x \in Objects, p # c, p # d, c # d,
         ptr[p] = x, ptr[c] = Null, ptr[d] = Null,
         ptr' = [ptr EXCEPT ![c] = x, ![p] = Null, ![d] = x],
         Retain(x), UNCHANGED <<life, log>>
  PROVE  StoreInv'
<1>0. PICK f, g : f = [ptr EXCEPT ![c] = x] /\ g = [f EXCEPT ![p] = Null]
  OBVIOUS
<1>1. f \in Pointers /\ f[p] = x
  BY <1>0 DEF StoreInv, StoreType, Pointers
<1>2. g \in Pointers /\ g[d] = Null /\ ptr' = [g EXCEPT ![d] = x]
  BY <1>0 DEF StoreInv, StoreType, Pointers
<1>3. life[x] = "live"
  BY PointedLives, NullAssumption
<1>4. ptr' \in Pointers
  BY <1>2 DEF Pointers
<1>5. StoreType'
  BY <1>4 DEF StoreInv, StoreType, Retain
<1>6. ASSUME NEW o \in Objects PROVE refs'[o] = Cardinality(To(ptr', o))
  <2>1. Cardinality(To(f, o)) =
          IF o = x THEN Cardinality(To(ptr, o)) + 1 ELSE Cardinality(To(ptr, o))
    <3>1. f = [ptr EXCEPT ![c] = x]
      BY <1>0
    <3>2. /\ ptr \in Pointers /\ c \in Places /\ ptr[c] = Null
          /\ x \in Objects /\ o \in Objects
      BY <1>0 DEF StoreInv, StoreType
    <3>3. Cardinality(To([ptr EXCEPT ![c] = x], o)) =
            IF o = x THEN Cardinality(To(ptr, o)) + 1 ELSE Cardinality(To(ptr, o))
      BY ONLY <3>2, PointCounts
    <3>4. QED
      BY ONLY <3>1, <3>3
  <2>2. Cardinality(To(g, o)) =
          IF o = x THEN Cardinality(To(f, o)) - 1 ELSE Cardinality(To(f, o))
    <3>1. g = [f EXCEPT ![p] = Null]
      BY <1>0, <1>1
    <3>2. /\ f \in Pointers /\ p \in Places /\ f[p] = x
          /\ x \in Objects /\ o \in Objects
      BY <1>0, <1>1
    <3>3. Cardinality(To([f EXCEPT ![p] = Null], o)) =
            IF o = x THEN Cardinality(To(f, o)) - 1 ELSE Cardinality(To(f, o))
      BY ONLY <3>2, ClearCounts
    <3>4. QED
      BY ONLY <3>1, <3>3
  <2>3. Cardinality(To(ptr', o)) =
          IF o = x THEN Cardinality(To(g, o)) + 1 ELSE Cardinality(To(g, o))
    <3>1. ptr' = [g EXCEPT ![d] = x]
      BY <1>2
    <3>2. /\ g \in Pointers /\ d \in Places /\ g[d] = Null
          /\ x \in Objects /\ o \in Objects
      BY <1>2
    <3>3. Cardinality(To([g EXCEPT ![d] = x], o)) =
            IF o = x THEN Cardinality(To(g, o)) + 1 ELSE Cardinality(To(g, o))
      BY ONLY <3>2, PointCounts
    <3>4. QED
      BY ONLY <3>1, <3>3
  <2>4. refs[o] = Cardinality(To(ptr, o)) /\ refs[o] \in Nat
    BY ReferencesTo DEF StoreInv, StoreType
  <2>5. refs'[o] = IF o = x THEN refs[o] + 1 ELSE refs[o]
    BY DEF StoreInv, StoreType, Retain
  <2>6. QED
    BY <2>1, <2>2, <2>3, <2>4, <2>5
<1>7. RefsCounted'
  BY <1>6 DEF RefsCounted, References, To
<1>8. Lives'
  BY <1>3 DEF StoreInv, StoreType, Lives, Retain
<1>9. QED
  BY <1>5, <1>7, <1>8 DEF StoreInv

(* The thread's own database is deleted, the one it found returned. *)
LEMMA DropStore ==
  ASSUME StoreInv, NEW p \in Places, NEW q \in Places, NEW d \in Places,
         NEW x \in Objects, NEW y \in Objects, p # q, p # d, q # d,
         ptr[p] = x, ptr[q] = y, ptr[d] = Null,
         ptr' = [ptr EXCEPT ![p] = Null, ![q] = Null, ![d] = y], Release(x)
  PROVE  StoreInv'
<1>0. PICK f, g : f = [ptr EXCEPT ![p] = Null] /\ g = [f EXCEPT ![q] = Null]
  OBVIOUS
<1>1. f \in Pointers /\ f[q] = y
  BY <1>0 DEF StoreInv, StoreType, Pointers
<1>2. g \in Pointers /\ g[d] = Null /\ ptr' = [g EXCEPT ![d] = y]
  BY <1>0 DEF StoreInv, StoreType, Pointers
<1>3. life[x] = "live" /\ refs[x] > 0
  BY PointedLives, NullAssumption
<1>4. ptr' \in Pointers
  BY <1>2 DEF Pointers
<1>5. StoreType'
  BY <1>3, <1>4 DEF StoreInv, StoreType, Release
<1>6. ASSUME NEW o \in Objects PROVE refs'[o] = Cardinality(To(ptr', o))
  <2>1. Cardinality(To(f, o)) =
          IF o = x THEN Cardinality(To(ptr, o)) - 1 ELSE Cardinality(To(ptr, o))
    <3>1. f = [ptr EXCEPT ![p] = Null]
      BY <1>0
    <3>2. /\ ptr \in Pointers /\ p \in Places /\ ptr[p] = x
          /\ x \in Objects /\ o \in Objects
      BY <1>0 DEF StoreInv, StoreType
    <3>3. Cardinality(To([ptr EXCEPT ![p] = Null], o)) =
            IF o = x THEN Cardinality(To(ptr, o)) - 1 ELSE Cardinality(To(ptr, o))
      BY ONLY <3>2, ClearCounts
    <3>4. QED
      BY ONLY <3>1, <3>3
  <2>2. Cardinality(To(g, o)) =
          IF o = y THEN Cardinality(To(f, o)) - 1 ELSE Cardinality(To(f, o))
    <3>1. g = [f EXCEPT ![q] = Null]
      BY <1>0, <1>1
    <3>2. /\ f \in Pointers /\ q \in Places /\ f[q] = y
          /\ y \in Objects /\ o \in Objects
      BY <1>0, <1>1
    <3>3. Cardinality(To([f EXCEPT ![q] = Null], o)) =
            IF o = y THEN Cardinality(To(f, o)) - 1 ELSE Cardinality(To(f, o))
      BY ONLY <3>2, ClearCounts
    <3>4. QED
      BY ONLY <3>1, <3>3
  <2>3. Cardinality(To(ptr', o)) =
          IF o = y THEN Cardinality(To(g, o)) + 1 ELSE Cardinality(To(g, o))
    <3>1. ptr' = [g EXCEPT ![d] = y]
      BY <1>2
    <3>2. /\ g \in Pointers /\ d \in Places /\ g[d] = Null
          /\ y \in Objects /\ o \in Objects
      BY <1>2
    <3>3. Cardinality(To([g EXCEPT ![d] = y], o)) =
            IF o = y THEN Cardinality(To(g, o)) + 1 ELSE Cardinality(To(g, o))
      BY ONLY <3>2, PointCounts
    <3>4. QED
      BY ONLY <3>1, <3>3
  <2>4. refs[o] = Cardinality(To(ptr, o)) /\ refs[o] \in Nat
    BY ReferencesTo DEF StoreInv, StoreType
  <2>5. refs'[o] = IF o = x THEN refs[o] - 1 ELSE refs[o]
    BY DEF StoreInv, StoreType, Release
  <2>6. QED
    BY <2>1, <2>2, <2>3, <2>4, <2>5
<1>7. RefsCounted'
  BY <1>6 DEF RefsCounted, References, To
<1>8. Lives'
  BY <1>3 DEF StoreInv, StoreType, Lives, Release
<1>9. QED
  BY <1>5, <1>7, <1>8 DEF StoreInv

(***************************************************************************)
(* Calls                                                                   *)
(***************************************************************************)
Leaving == Closing \cup {"rename"}
Opening == {"new", "replay", "rewrite", "register", "drop"}
Holding == {"replay", "rewrite", "register", "drop", "uncache"}

(* What a thread holds at each point of a call: facts_open_memoized has a  *)
(* free variable to fill and, once facts_new is done, a database of its    *)
(* own; facts_close and facts_rename have a variable that holds one.       *)
CallInv(t) ==
  /\ ~At(t, "idle") => Path(t) \in Paths /\ Dest(t) \in {t} \X Slots
  /\ call[t].at \in Opening => ptr[Dest(t)] = Null
  /\ call[t].at \in Leaving => ptr[Dest(t)] # Null
  /\ ptr[Own(t)] # Null <=> call[t].at \in Holding
  /\ ptr[Found(t)] # Null <=> At(t, "drop")

CallsType ==
  call \in [Threads -> [at : Locations, path : Paths \cup {Null},
                       dest : Vars \cup {Null}]]

CallsInv == CallsType /\ \A t \in Threads : CallInv(t)

FilesType ==
  /\ key \in [Cells -> Paths \cup {Null}]
  /\ mem \in [Objects -> SUBSET Facts]
  /\ file \in [Paths -> SUBSET Facts]
  /\ acked \in [Paths -> SUBSET Facts]
  /\ moved \in SUBSET Paths

Inv == StoreInv /\ CallsInv /\ FilesType

(* Locals, variables and entries are places of their own. *)
LEMMA PlacesApart ==
  ASSUME NEW t \in Threads
  PROVE  /\ Own(t) \in Places /\ Found(t) \in Places /\ Own(t) # Found(t)
         /\ \A v \in {t} \X Slots : v \in Places /\ v \in Vars /\ v # Own(t) /\ v # Found(t)
         /\ \A u \in Threads \ {t}, v \in {t} \X Slots :
              v # Own(u) /\ v # Found(u) /\ v \notin {u} \X Slots
         /\ \A u \in Threads \ {t} : Own(t) # Own(u) /\ Found(t) # Found(u)
              /\ Own(t) # Found(u) /\ Found(t) # Own(u)
              /\ Own(t) \notin {u} \X Slots /\ Found(t) \notin {u} \X Slots
         /\ \A c \in Cells : c \in Places /\ c # Own(t) /\ c # Found(t)
              /\ c \notin {t} \X Slots
BY SlotsAssumption, CellsAssumption DEF Places, Own, Found, Vars

(* The pointers a step of thread t may change. *)
Mine(t) == Cells \cup {Own(t), Found(t)} \cup ({t} \X Slots)

(* A step of one thread leaves what the calls of the others hold. *)
LEMMA CallsStep ==
  ASSUME CallsInv, NEW t \in Threads, CallsType', CallInv(t)',
         \A u \in Threads \ {t} : call'[u] = call[u],
         \A p \in Places \ Mine(t) : ptr'[p] = ptr[p]
  PROVE  CallsInv'
<1>1. ASSUME NEW u \in Threads, u # t PROVE CallInv(u)'
  <2>1. /\ Own(u) \in Places \ Mine(t) /\ Found(u) \in Places \ Mine(t)
        /\ \A v \in {u} \X Slots : v \in Places \ Mine(t)
    BY <1>1, PlacesApart DEF Mine
  <2>2. ptr'[Own(u)] = ptr[Own(u)] /\ ptr'[Found(u)] = ptr[Found(u)]
    BY <2>1
  <2>3. \A v \in {u} \X Slots : ptr'[v] = ptr[v]
    BY <2>1
  <2>4. call'[u] = call[u]
    BY <1>1
  <2>5. CallInv(u)
    BY DEF CallsInv
  <2>6. CASE At(u, "idle")
    BY <2>2, <2>4, <2>5, <2>6 DEF CallInv, At, Path, Dest, Own, Found, Opening, Leaving, Closing
  <2>7. CASE ~At(u, "idle")
    BY <2>2, <2>3, <2>4, <2>5, <2>7 DEF CallInv, At, Path, Dest, Own, Found
  <2>8. QED
    BY <2>6, <2>7
<1>2. QED
  BY <1>1 DEF CallsInv

(* A step that is no part of a call may fill or empty variables of threads *)
(* that are in no call, and entries of the table.                          *)
LEMMA IdleStep ==
  ASSUME CallsInv, UNCHANGED call,
         \A u \in Threads : ptr'[Own(u)] = ptr[Own(u)] /\ ptr'[Found(u)] = ptr[Found(u)],
         \A v \in Vars : ptr'[v] = ptr[v] \/ At(v[1], "idle")
  PROVE  CallsInv'
<1>1. ASSUME NEW u \in Threads PROVE CallInv(u)'
  <2>1. \A v \in {u} \X Slots : v \in Vars /\ v[1] = u
    BY DEF Vars
  <2>2. CallInv(u)
    BY DEF CallsInv
  <2>3. CASE At(u, "idle")
    BY <2>2, <2>3 DEF CallInv, At, Path, Dest, Own, Found, Opening, Leaving, Closing
  <2>4. CASE ~At(u, "idle")
    BY <2>1, <2>2, <2>4 DEF CallInv, At, Path, Dest, Own, Found
  <2>5. QED
    BY <2>3, <2>4
<1>2. QED
  BY <1>1 DEF CallsInv, CallsType

(* Locals are no variables, entries or locals of other threads. *)
LEMMA LocalsApart ==
  ASSUME NEW u \in Threads
  PROVE  /\ Own(u) \in Places /\ Found(u) \in Places
         /\ \A v \in Vars \cup Cells : v \in Places /\ v # Own(u) /\ v # Found(u)
BY SlotsAssumption, CellsAssumption DEF Places, Own, Found, Vars

(* A call ends. *)
LEMMA ReturnStep ==
  ASSUME CallsInv, NEW t \in Threads, Return(t),
         ptr'[Own(t)] = Null, ptr'[Found(t)] = Null,
         \A p \in Places \ Mine(t) : ptr'[p] = ptr[p]
  PROVE  CallsInv'
<1>1. CallsType'
  BY DEF CallsInv, CallsType, Return, Idle, Locations, Closing
<1>2. CallInv(t)'
  BY DEF CallsInv, CallsType, CallInv, Return, Idle, At, Own, Found, Opening, Leaving, Closing, Holding
<1>3. \A u \in Threads \ {t} : call'[u] = call[u]
  BY DEF CallsInv, CallsType, Return
<1>4. QED
  BY <1>1, <1>2, <1>3, CallsStep

(* A call goes on. *)
LEMMA GotoStep ==
  ASSUME CallsInv, NEW t \in Threads, ~At(t, "idle"),
         NEW l \in Locations \ {"idle"}, Goto(t, l),
         l \in Opening => ptr'[Dest(t)] = Null,
         l \in Leaving => ptr'[Dest(t)] # Null,
         ptr'[Own(t)] # Null <=> l \in Holding,
         ptr'[Found(t)] # Null <=> l = "drop",
         \A p \in Places \ Mine(t) : ptr'[p] = ptr[p]
  PROVE  CallsInv'
<1>1. CallsType'
  BY DEF CallsInv, CallsType, Goto
<1>2. call'[t].at = l /\ call'[t].path = call[t].path /\ call'[t].dest = call[t].dest
  BY DEF CallsInv, CallsType, Goto
<1>3. CallInv(t)'
  BY <1>2 DEF CallsInv, CallInv, At, Path, Dest, Own, Found
<1>4. \A u \in Threads \ {t} : call'[u] = call[u]
  BY DEF CallsInv, CallsType, Goto
<1>5. QED
  BY <1>1, <1>3, <1>4, CallsStep

(* What a thread in facts_open_memoized holds. *)
LEMMA OpeningThread ==
  ASSUME Inv, NEW t \in Threads, call[t].at \in Opening
  PROVE  /\ Own(t) \in Places /\ Found(t) \in Places /\ Own(t) # Found(t)
         /\ Dest(t) \in Places /\ Dest(t) # Own(t) /\ Dest(t) # Found(t)
         /\ ptr[Dest(t)] = Null /\ Path(t) \in Paths
         /\ At(t, "new") => ptr[Own(t)] = Null
         /\ ~At(t, "new") => ptr[Own(t)] \in Objects /\ life[ptr[Own(t)]] = "live"
         /\ ~At(t, "drop") => ptr[Found(t)] = Null
         /\ At(t, "drop") => ptr[Found(t)] \in Objects
         /\ ~At(t, "idle")
         /\ {Own(t), Found(t), Dest(t)} \subseteq Mine(t)
         /\ \A c \in Cells : c \in Places /\ c # Own(t) /\ c # Found(t) /\ c # Dest(t)
<1>1. CallInv(t) /\ ~At(t, "idle")
  BY DEF Inv, CallsInv, Opening, At
<1>2. Dest(t) \in {t} \X Slots /\ Path(t) \in Paths /\ ptr[Dest(t)] = Null
  BY <1>1 DEF CallInv
<1>3. At(t, "new") => ptr[Own(t)] = Null
  BY <1>1 DEF CallInv, At, Holding
<1>4. ~At(t, "new") => ptr[Own(t)] # Null
  BY <1>1 DEF CallInv, At, Holding, Opening
<1>5. ptr[Found(t)] # Null <=> At(t, "drop")
  BY <1>1 DEF CallInv
<1>6. QED
  BY <1>1, <1>2, <1>3, <1>4, <1>5, PlacesApart, PointedLives DEF Inv, Mine

(* What a thread in facts_close or facts_rename holds. *)
LEMMA LeavingThread ==
  ASSUME Inv, NEW t \in Threads, call[t].at \in Leaving
  PROVE  /\ Own(t) \in Places /\ Found(t) \in Places /\ Own(t) # Found(t)
         /\ Dest(t) \in Places /\ Dest(t) # Own(t) /\ Dest(t) # Found(t)
         /\ ptr[Dest(t)] \in Objects /\ life[ptr[Dest(t)]] = "live"
         /\ Path(t) \in Paths
         /\ At(t, "uncache") => ptr[Own(t)] \in Objects
         /\ ~At(t, "uncache") => ptr[Own(t)] = Null
         /\ ptr[Found(t)] = Null
         /\ ~At(t, "idle")
         /\ {Own(t), Found(t), Dest(t)} \subseteq Mine(t)
         /\ \A c \in Cells : c \in Places /\ c # Own(t) /\ c # Found(t) /\ c # Dest(t)
<1>1. CallInv(t) /\ ~At(t, "idle")
  BY DEF Inv, CallsInv, Leaving, Closing, At
<1>2. Dest(t) \in {t} \X Slots /\ Path(t) \in Paths /\ ptr[Dest(t)] # Null
  BY <1>1 DEF CallInv
<1>3. ptr[Own(t)] # Null <=> At(t, "uncache")
  BY <1>1 DEF CallInv, At, Holding, Leaving, Closing
<1>4. ptr[Found(t)] = Null
  BY <1>1 DEF CallInv, At, Leaving, Closing
<1>5. QED
  BY <1>1, <1>2, <1>3, <1>4, PlacesApart, PointedLives DEF Inv, Mine

(* A call begins on a variable that holds a database. *)
LEMMA LeaveStep ==
  ASSUME CallsInv, NEW t \in Threads, NEW v \in {t} \X Slots, NEW p \in Paths,
         NEW l \in {"remove", "rename"}, At(t, "idle"), ptr[v] # Null,
         call' = [call EXCEPT ![t] = [at |-> l, path |-> p, dest |-> v]],
         UNCHANGED ptr
  PROVE  CallsInv'
<1>1. CallsType'
  BY DEF CallsInv, CallsType, Locations, Closing, Vars
<1>2. call'[t] = [at |-> l, path |-> p, dest |-> v]
  BY DEF CallsInv, CallsType
<1>3. CallInv(t)'
  BY <1>2 DEF CallsInv, CallInv, At, Path, Dest, Own, Found, Opening, Leaving, Closing, Holding
<1>4. \A u \in Threads \ {t} : call'[u] = call[u]
  BY DEF CallsInv, CallsType
<1>5. QED
  BY <1>1, <1>3, <1>4, CallsStep

(***************************************************************************)
(* Steps                                                                   *)
(***************************************************************************)
LEMMA NewStep ==
  ASSUME Inv, NEW t \in Threads, New(t)
  PROVE  Inv'
<1>1. call[t].at \in Opening /\ At(t, "new") /\ ~At(t, "drop")
  BY DEF New, At, Opening
<1>2. StoreInv'
  BY <1>1, OpeningThread, AllocateStore, SameStore DEF Inv, New
<1>3. CallsInv'
  <2>1. CASE Return(t) /\ UNCHANGED ptr
    BY <1>1, <2>1, OpeningThread, ReturnStep DEF Inv
  <2>2. ASSUME NEW o \in Unused, ptr' = [ptr EXCEPT ![Own(t)] = o], Goto(t, "replay")
        PROVE  CallsInv'
    BY <1>1, <2>2, OpeningThread, NullAssumption, GotoStep
       DEF Inv, Locations, Opening, Leaving, Closing, Holding, Unused, StoreInv, StoreType, Pointers
  <2>3. QED
    BY <2>1, <2>2 DEF New
<1>4. FilesType'
  BY DEF Inv, FilesType, New, files
<1>5. QED
  BY <1>2, <1>3, <1>4 DEF Inv

(* The first look at the table counts the reference it hands out. *)
LEMMA LookupStep ==
  ASSUME Inv, NEW t \in Threads, NEW v \in {t} \X Slots, NEW p \in Paths, Lookup(t, v, p)
  PROVE  Inv'
<1>. USE DEF Inv
<1>1. v \in Places /\ v \in Vars /\ v[1] = t /\ ptr[v] = Null /\ At(t, "idle")
  BY PlacesApart DEF Lookup
<1>2. ASSUME NEW c \in Find(p), Retain(ptr[c]), ptr' = [ptr EXCEPT ![v] = ptr[c]],
             UNCHANGED call
      PROVE  StoreInv' /\ CallsInv'
  <2>1. c \in Places /\ ptr[c] # Null
    BY DEF Find, Entries, Places
  <2>2. ptr[c] \in Objects /\ life[ptr[c]] = "live"
    BY <2>1, PointedLives
  <2>3. log' = [log EXCEPT ![ptr[c]] = log[ptr[c]]] /\ log[ptr[c]] \in Paths \cup {Null}
    BY <2>2 DEF Lookup, StoreInv, StoreType
  <2>4. StoreInv'
    BY <1>1, <1>2, <2>2, <2>3, RetainStore DEF Lookup
  <2>5. CallsInv'
    BY <1>1, <1>2, LocalsApart, IdleStep DEF StoreInv, StoreType, Pointers, Vars, Places
  <2>6. QED
    BY <2>4, <2>5
<1>3. ASSUME call' = [call EXCEPT ![t] = [at |-> "new", path |-> p, dest |-> v]],
             UNCHANGED <<ptr, refs>>
      PROVE  StoreInv' /\ CallsInv'
  <2>1. StoreInv'
    BY <1>3, SameStore DEF Lookup
  <2>2. CallsType'
    BY <1>1, <1>3 DEF CallsInv, CallsType, Locations, Closing
  <2>3. CallInv(t)'
    BY <1>1, <1>3 DEF CallsInv, CallsType, CallInv, At, Path, Dest, Own, Found,
       Opening, Leaving, Closing, Holding
  <2>4. CallsInv'
    BY <1>3, <2>2, <2>3, CallsStep DEF CallsInv, CallsType
  <2>5. QED
    BY <2>1, <2>4
<1>4. FilesType'
  BY DEF FilesType, Lookup, files
<1>5. QED
  BY <1>2, <1>3, <1>4 DEF Lookup

(* pfacts_init counts the variable as the first reference. *)
LEMMA DatabaseStep ==
  ASSUME Inv, NEW t \in Threads, NEW v \in {t} \X Slots, Database(t, v)
  PROVE  Inv'
<1>. USE DEF Inv
<1>1. v \in Places /\ v \in Vars /\ v[1] = t /\ ptr[v] = Null /\ At(t, "idle")
  BY PlacesApart DEF Database
<1>2. StoreInv'
  BY <1>1, AllocateStore DEF Database
<1>3. CallsInv'
  BY <1>1, LocalsApart, IdleStep DEF Database, StoreInv, StoreType, Pointers, Vars, Places
<1>4. FilesType'
  BY DEF FilesType, Database, files
<1>5. QED
  BY <1>2, <1>3, <1>4

(* pfacts_init_copy counts the copy. *)
LEMMA CopyStep ==
  ASSUME Inv, NEW t \in Threads, NEW v \in {t} \X Slots, NEW w \in Vars, Copy(t, v, w)
  PROVE  Inv'
<1>. USE DEF Inv
<1>1. v \in Places /\ w \in Places /\ ptr[w] = Null /\ At(w[1], "idle")
  BY PlacesApart DEF Copy, Vars, Places
<1>2. ptr[v] \in Objects /\ life[ptr[v]] = "live"
  BY <1>1, PointedLives DEF Copy
<1>3. log' = [log EXCEPT ![ptr[v]] = log[ptr[v]]] /\ log[ptr[v]] \in Paths \cup {Null}
  BY <1>2 DEF Copy, StoreInv, StoreType
<1>4. StoreInv'
  BY <1>1, <1>2, <1>3, RetainStore DEF Copy
<1>5. CallsInv'
  BY <1>1, LocalsApart, IdleStep DEF Copy, StoreInv, StoreType, Pointers, Vars, Places
<1>6. FilesType'
  BY DEF FilesType, Copy, files
<1>7. QED
  BY <1>4, <1>5, <1>6

(* pfacts_clean uncounts the variable. *)
LEMMA ForgetStep ==
  ASSUME Inv, NEW t \in Threads, NEW v \in {t} \X Slots, Forget(t, v)
  PROVE  Inv'
<1>. USE DEF Inv
<1>1. v \in Places /\ v \in Vars /\ v[1] = t /\ At(t, "idle")
  BY PlacesApart DEF Forget
<1>2. ptr[v] \in Objects
  BY <1>1, PointedLives DEF Forget
<1>3. StoreInv'
  BY <1>1, <1>2, ReleaseStore DEF Forget
<1>4. CallsInv'
  BY <1>1, LocalsApart, IdleStep DEF Forget, StoreInv, StoreType, Pointers, Vars, Places
<1>5. FilesType'
  BY DEF FilesType, Forget, files
<1>6. QED
  BY <1>3, <1>4, <1>5

(* A write moves no pointer. *)
LEMMA WriteStep ==
  ASSUME Inv, NEW t \in Threads, NEW v \in {t} \X Slots, NEW f \in Facts, Write(t, v, f)
  PROVE  Inv'
<1>. USE DEF Inv
<1>1. v \in Places
  BY PlacesApart
<1>2. ptr[v] \in Objects
  BY <1>1, PointedLives DEF Write
<1>3. StoreInv'
  BY SameStore DEF Write
<1>4. CallsInv'
  BY IdleStep DEF Write
<1>5. FilesType'
  BY <1>2 DEF FilesType, Write, StoreInv, StoreType
<1>6. QED
  BY <1>3, <1>4, <1>5

(* Reading the file moves no pointer. *)
LEMMA ReplayStep ==
  ASSUME Inv, NEW t \in Threads, Replay(t)
  PROVE  Inv'
<1>1. call[t].at \in Opening /\ At(t, "replay")
  BY DEF Replay, At, Opening
<1>2. StoreInv'
  BY SameStore DEF Inv, Replay
<1>3. CallsInv'
  BY <1>1, OpeningThread, NullAssumption, GotoStep
     DEF Inv, Replay, At, Locations, Opening, Leaving, Closing, Holding
<1>4. FilesType'
  BY <1>1, OpeningThread DEF Inv, FilesType, Replay, At
<1>5. QED
  BY <1>2, <1>3, <1>4 DEF Inv

(* A failed opening deletes the database and ends the call. *)
LEMMA FailStep ==
  ASSUME Inv, NEW t \in Threads, call[t].at \in {"replay", "register"},
         Release(ptr[Own(t)]), ptr' = [ptr EXCEPT ![Own(t)] = Null],
         Return(t), UNCHANGED <<key, files>>
  PROVE  Inv'
<1>1. call[t].at \in Opening /\ ~At(t, "new") /\ ~At(t, "drop")
  BY DEF At, Opening
<1>2. StoreInv'
  BY <1>1, OpeningThread, ReleaseStore DEF Inv
<1>3. CallsInv'
  BY <1>1, OpeningThread, ReturnStep DEF Inv, StoreInv, StoreType, Pointers
<1>4. FilesType'
  BY DEF Inv, FilesType, files
<1>5. QED
  BY <1>2, <1>3, <1>4 DEF Inv

(* The log opens on a database that lives. *)
LEMMA RewriteStep ==
  ASSUME Inv, NEW t \in Threads, Rewrite(t)
  PROVE  Inv'
<1>1. call[t].at \in Opening /\ At(t, "rewrite")
  BY DEF Rewrite, At, Opening
<1>2. ptr[Own(t)] \in Objects /\ life[ptr[Own(t)]] = "live" /\ Path(t) \in Paths
  BY <1>1, OpeningThread DEF At
<1>3. StoreInv'
  BY <1>2, LogStore DEF Inv, Rewrite
<1>4. CallsInv'
  BY <1>1, OpeningThread, NullAssumption, GotoStep
     DEF Inv, Rewrite, At, Locations, Opening, Leaving, Closing, Holding
<1>5. FilesType'
  BY <1>2 DEF Inv, FilesType, Rewrite
<1>6. QED
  BY <1>3, <1>4, <1>5 DEF Inv

(* Registering counts the entry; the variable takes over from the local. *)
LEMMA RegisterStep ==
  ASSUME Inv, NEW t \in Threads, Register(t)
  PROVE  Inv'
<1>1. call[t].at \in Opening /\ ~At(t, "new") /\ ~At(t, "drop")
  BY DEF Register, At, Opening
<1>2. PICK c \in Cells \ Entries :
        /\ ptr' = [ptr EXCEPT ![c] = ptr[Own(t)], ![Own(t)] = Null,
                              ![Dest(t)] = ptr[Own(t)]]
        /\ key' = [key EXCEPT ![c] = Path(t)]
  BY DEF Register
<1>3. ptr[c] = Null
  BY DEF Entries
<1>4. UNCHANGED <<life, log, files>> /\ Retain(ptr[Own(t)]) /\ Return(t)
  BY DEF Register
<1>5. StoreInv'
  BY <1>1, <1>2, <1>3, <1>4, OpeningThread, RegisterStore DEF Inv
<1>6. /\ ptr'[Own(t)] = Null /\ ptr'[Found(t)] = Null
      /\ \A p \in Places \ Mine(t) : ptr'[p] = ptr[p]
  BY <1>1, <1>2, OpeningThread DEF Inv, StoreInv, StoreType, Pointers, Mine
<1>7. CallsInv'
  BY <1>4, <1>6, ReturnStep DEF Inv
<1>8. FilesType'
  BY <1>1, <1>2, <1>4, OpeningThread DEF Inv, FilesType, files
<1>9. QED
  BY <1>5, <1>7, <1>8 DEF Inv

(* The database found at the second look is counted. *)
LEMMA RegisterFoundStep ==
  ASSUME Inv, NEW t \in Threads, RegisterFound(t)
  PROVE  Inv'
<1>1. call[t].at \in Opening /\ ~At(t, "new") /\ ~At(t, "drop")
  BY DEF RegisterFound, At, Opening
<1>2. PICK c \in Find(Path(t)) :
        Retain(ptr[c]) /\ ptr' = [ptr EXCEPT ![Found(t)] = ptr[c]]
  BY DEF RegisterFound
<1>3. c \in Places /\ ptr[c] # Null
  BY DEF Find, Entries, Places
<1>4. ptr[c] \in Objects /\ life[ptr[c]] = "live"
  BY <1>3, PointedLives DEF Inv
<1>5. /\ log' = [log EXCEPT ![ptr[c]] = log[ptr[c]]] /\ log[ptr[c]] \in Paths \cup {Null}
      /\ UNCHANGED life
  BY <1>4 DEF Inv, StoreInv, StoreType, RegisterFound
<1>6. StoreInv'
  BY <1>1, <1>2, <1>4, <1>5, OpeningThread, RetainStore DEF Inv
<1>7. CallsInv'
  BY <1>1, <1>2, <1>4, OpeningThread, NullAssumption, GotoStep
     DEF Inv, RegisterFound, Locations, Opening, Leaving, Closing, Holding,
         StoreInv, StoreType, Pointers
<1>8. FilesType'
  BY DEF Inv, FilesType, RegisterFound, files
<1>9. QED
  BY <1>6, <1>7, <1>8 DEF Inv

(* The lost race deletes the thread's own database. *)
LEMMA DropStep ==
  ASSUME Inv, NEW t \in Threads, Drop(t)
  PROVE  Inv'
<1>1. call[t].at \in Opening /\ ~At(t, "new") /\ At(t, "drop")
  BY DEF Drop, At, Opening
<1>2. StoreInv'
  BY <1>1, OpeningThread, DropStore DEF Inv, Drop
<1>3. /\ ptr'[Own(t)] = Null /\ ptr'[Found(t)] = Null
      /\ \A p \in Places \ Mine(t) : ptr'[p] = ptr[p]
  BY <1>1, OpeningThread DEF Inv, StoreInv, StoreType, Pointers, Mine, Drop
<1>4. CallsInv'
  BY <1>3, ReturnStep DEF Inv, Drop
<1>5. FilesType'
  BY DEF Inv, FilesType, Drop, files
<1>6. QED
  BY <1>2, <1>4, <1>5 DEF Inv

(* facts_close begins on a database the thread holds. *)
LEMMA CloseStep ==
  ASSUME Inv, NEW t \in Threads, NEW v \in {t} \X Slots, Close(t, v)
  PROVE  Inv'
<1>1. v \in Places
  BY PlacesApart
<1>2. log[ptr[v]] \in Paths
  BY <1>1, PointedLives DEF Inv, Close, StoreInv, StoreType
<1>3. StoreInv'
  BY SameStore DEF Inv, Close
<1>4. CallsInv'
  BY <1>2, LeaveStep DEF Inv, Close
<1>5. FilesType'
  BY DEF Inv, FilesType, Close, files
<1>6. QED
  BY <1>3, <1>4, <1>5 DEF Inv

(* facts_opened_remove takes over the pointer of the entry. *)
LEMMA RemoveStep ==
  ASSUME Inv, NEW t \in Threads, Remove(t)
  PROVE  Inv'
<1>1. call[t].at \in Leaving /\ At(t, "remove") /\ ~At(t, "uncache")
  BY DEF Remove, At, Leaving, Closing
<1>2. UNCHANGED <<refs, life, log, files>>
  BY DEF Remove
<1>3. ASSUME NEW c \in Cells, c \in Entries,
             ptr' = [ptr EXCEPT ![c] = Null, ![Own(t)] = ptr[c]],
             key' = [key EXCEPT ![c] = Null], Goto(t, "uncache")
      PROVE  Inv'
  <2>1. c \in Places /\ c # Own(t) /\ c # Found(t) /\ c # Dest(t) /\ c \in Mine(t)
    BY <1>1, LeavingThread DEF Mine
  <2>2. ptr[c] \in Objects /\ ptr[c] # Null
    BY <1>3, <2>1, PointedLives DEF Inv, Entries
  <2>3. StoreInv'
    BY <1>1, <1>2, <1>3, <2>1, <2>2, LeavingThread, MoveStore DEF Inv
  <2>4. /\ ptr'[Own(t)] # Null /\ ptr'[Found(t)] = Null /\ ptr'[Dest(t)] # Null
        /\ \A p \in Places \ Mine(t) : ptr'[p] = ptr[p]
    BY <1>1, <1>3, <2>1, <2>2, LeavingThread, NullAssumption
       DEF Inv, StoreInv, StoreType, Pointers
  <2>5. CallsInv'
    BY <1>1, <1>3, <2>4, LeavingThread, GotoStep
       DEF Inv, Locations, Opening, Leaving, Closing, Holding
  <2>6. FilesType'
    BY <1>2, <1>3 DEF Inv, FilesType, files
  <2>7. QED
    BY <2>3, <2>5, <2>6 DEF Inv
<1>4. ASSUME Goto(t, "check"), UNCHANGED <<ptr, key>>
      PROVE  Inv'
  <2>1. StoreInv'
    BY <1>2, <1>4, SameStore DEF Inv
  <2>2. CallsInv'
    BY <1>1, <1>4, LeavingThread, NullAssumption, GotoStep
       DEF Inv, Locations, Opening, Leaving, Closing, Holding
  <2>3. FilesType'
    BY <1>2, <1>4 DEF Inv, FilesType, files
  <2>4. QED
    BY <2>1, <2>2, <2>3 DEF Inv
<1>5. QED
  BY <1>3, <1>4 DEF Remove, Entries

(* The reference of the entry is released. *)
LEMMA UncacheStep ==
  ASSUME Inv, NEW t \in Threads, Uncache(t)
  PROVE  Inv'
<1>1. call[t].at \in Leaving /\ At(t, "uncache")
  BY DEF Uncache, At, Leaving, Closing
<1>2. StoreInv'
  BY <1>1, LeavingThread, ReleaseStore DEF Inv, Uncache
<1>3. /\ ptr'[Own(t)] = Null /\ ptr'[Found(t)] = Null /\ ptr'[Dest(t)] # Null
      /\ \A p \in Places \ Mine(t) : ptr'[p] = ptr[p]
  BY <1>1, LeavingThread, NullAssumption DEF Inv, StoreInv, StoreType, Pointers, Uncache
<1>4. CallsInv'
  BY <1>1, <1>3, LeavingThread, GotoStep
     DEF Inv, Locations, Opening, Leaving, Closing, Holding, Uncache
<1>5. FilesType'
  BY DEF Inv, FilesType, Uncache, files
<1>6. QED
  BY <1>2, <1>4, <1>5 DEF Inv

(* The second check of facts_close moves no pointer. *)
LEMMA CheckLogStep ==
  ASSUME Inv, NEW t \in Threads, CheckLog(t)
  PROVE  Inv'
<1>1. call[t].at \in Leaving /\ ~At(t, "uncache")
  BY DEF CheckLog, At, Leaving, Closing
<1>2. StoreInv'
  BY SameStore DEF Inv, CheckLog
<1>3. CallsInv'
  <2>1. CASE Return(t)
    BY <1>1, <2>1, LeavingThread, ReturnStep DEF Inv, CheckLog
  <2>2. CASE Goto(t, "close")
    BY <1>1, <2>2, LeavingThread, NullAssumption, GotoStep
       DEF Inv, CheckLog, Locations, Opening, Leaving, Closing, Holding
  <2>3. QED
    BY <2>1, <2>2 DEF CheckLog
<1>4. FilesType'
  BY DEF Inv, FilesType, CheckLog, files
<1>5. QED
  BY <1>2, <1>3, <1>4 DEF Inv

(* facts_close closes the log of a database that lives. *)
LEMMA CloseLogStep ==
  ASSUME Inv, NEW t \in Threads, CloseLog(t)
  PROVE  Inv'
<1>1. call[t].at \in Leaving /\ ~At(t, "uncache")
  BY DEF CloseLog, At, Leaving, Closing
<1>2. StoreInv'
  BY <1>1, LeavingThread, LogStore DEF Inv, CloseLog
<1>3. CallsInv'
  BY <1>1, LeavingThread, ReturnStep DEF Inv, CloseLog
<1>4. FilesType'
  BY DEF Inv, FilesType, CloseLog, files
<1>5. QED
  BY <1>2, <1>3, <1>4 DEF Inv

(* facts_rename tells the log of a database that lives. *)
LEMMA RenameStep ==
  ASSUME Inv, NEW t \in Threads, NEW v \in {t} \X Slots, NEW q \in Paths, Rename(t, v, q)
  PROVE  Inv'
<1>1. v \in Places
  BY PlacesApart
<1>2. ptr[v] \in Objects /\ life[ptr[v]] = "live" /\ log[ptr[v]] \in Paths
  BY <1>1, PointedLives DEF Inv, Rename, StoreInv, StoreType
<1>3. StoreInv'
  <2>1. StoreType' /\ RefsCounted'
    BY <1>2 DEF Inv, StoreInv, StoreType, RefsCounted, References, Rename
  <2>2. Lives'
    BY <1>2, NullAssumption DEF Inv, StoreInv, StoreType, Lives, Rename
  <2>3. QED
    BY <2>1, <2>2 DEF Inv, StoreInv
<1>4. CallsInv'
  BY LeaveStep DEF Inv, Rename
<1>5. FilesType'
  BY <1>2 DEF Inv, FilesType, Rename
<1>6. QED
  BY <1>3, <1>4, <1>5 DEF Inv

(* facts_opened_rename moves no pointer. *)
LEMMA RenameEntryStep ==
  ASSUME Inv, NEW t \in Threads, RenameEntry(t)
  PROVE  Inv'
<1>1. call[t].at \in Leaving /\ ~At(t, "uncache")
  BY DEF RenameEntry, At, Leaving, Closing
<1>2. StoreInv'
  BY SameStore DEF Inv, RenameEntry
<1>3. CallsInv'
  BY <1>1, LeavingThread, ReturnStep DEF Inv, RenameEntry
<1>4. FilesType'
  BY <1>1, LeavingThread DEF Inv, FilesType, RenameEntry, files
<1>5. QED
  BY <1>2, <1>3, <1>4 DEF Inv

(* Registering a restored database counts the entry. *)
LEMMA RestoreStep ==
  ASSUME Inv, NEW t \in Threads, NEW v \in {t} \X Slots, NEW p \in Paths, Restore(t, v, p)
  PROVE  Inv'
<1>1. v \in Places
  BY PlacesApart
<1>2. ptr[v] \in Objects /\ life[ptr[v]] = "live"
  BY <1>1, PointedLives DEF Inv, Restore
<1>3. PICK c \in Cells \ Entries :
        ptr' = [ptr EXCEPT ![c] = ptr[v]] /\ key' = [key EXCEPT ![c] = p]
  BY DEF Restore
<1>4. c \in Places /\ ptr[c] = Null
  BY DEF Entries, Places
<1>5. StoreInv'
  BY <1>2, <1>3, <1>4, RetainStore DEF Inv, Restore
<1>6. CallsInv'
  <2>1. \A u \in Threads : ptr'[Own(u)] = ptr[Own(u)] /\ ptr'[Found(u)] = ptr[Found(u)]
    BY <1>3, LocalsApart DEF Inv, StoreInv, StoreType, Pointers
  <2>2. \A x \in Vars : At(x[1], "idle")
    BY DEF Restore, Vars
  <2>3. QED
    BY <2>1, <2>2, IdleStep DEF Inv, Restore
<1>7. FilesType'
  BY <1>2, <1>3 DEF Inv, FilesType, Restore
<1>8. QED
  BY <1>5, <1>6, <1>7 DEF Inv

(***************************************************************************)
(* Theorems                                                                *)
(***************************************************************************)
LEMMA InitInv == Init => Inv
<1>. SUFFICES ASSUME Init PROVE Inv
  OBVIOUS
<1>1. \A p \in Places : ptr[p] = Null
  BY DEF Init
<1>2. ASSUME NEW o \in Objects PROVE refs[o] = Cardinality(References(o))
  <2>1. To(ptr, o) = {}
    BY <1>1, NullAssumption DEF To
  <2>2. Cardinality(To(ptr, o)) = 0
    BY <2>1, ToCount
  <2>3. References(o) = To(ptr, o)
    BY DEF References, To
  <2>4. QED
    BY <2>2, <2>3 DEF Init
<1>3. StoreInv
  BY <1>2 DEF Init, StoreInv, StoreType, RefsCounted, Lives, Pointers
<1>4. ASSUME NEW t \in Threads PROVE CallInv(t)
  BY <1>1, LocalsApart DEF Init, CallInv, Idle, At, Opening, Leaving, Closing, Holding
<1>5. CallsInv
  BY <1>4 DEF Init, CallsInv, CallsType, Idle, Locations, Closing
<1>6. FilesType
  BY DEF Init, FilesType
<1>7. QED
  BY <1>3, <1>5, <1>6 DEF Inv

(* Every step of every thread keeps Inv. *)
LEMMA NextInv == Inv /\ [Next]_vars => Inv'
<1>. SUFFICES ASSUME Inv, [Next]_vars PROVE Inv'
  OBVIOUS
<1>1. CASE UNCHANGED vars
  BY <1>1 DEF vars, Inv, StoreInv, StoreType, RefsCounted, References, Lives, CallsInv,
     CallsType, CallInv, At, Path, Dest, FilesType
<1>2. ASSUME NEW t \in Threads, NEW v \in {t} \X Slots, NEW p \in Paths,
             Lookup(t, v, p) \/ Rename(t, v, p) \/ Restore(t, v, p)
      PROVE  Inv'
  BY <1>2, LookupStep, RenameStep, RestoreStep
<1>3. ASSUME NEW t \in Threads, NEW v \in {t} \X Slots,
             Database(t, v) \/ Forget(t, v) \/ Close(t, v)
      PROVE  Inv'
  BY <1>3, DatabaseStep, ForgetStep, CloseStep
<1>4. ASSUME NEW t \in Threads, NEW v \in {t} \X Slots, NEW w \in Vars, Copy(t, v, w)
      PROVE  Inv'
  BY <1>4, CopyStep
<1>5. ASSUME NEW t \in Threads, NEW v \in {t} \X Slots, NEW f \in Facts, Write(t, v, f)
      PROVE  Inv'
  BY <1>5, WriteStep
<1>6. ASSUME NEW t \in Threads, New(t) \/ Replay(t) \/ Rewrite(t)
      PROVE  Inv'
  BY <1>6, NewStep, ReplayStep, RewriteStep
<1>7. ASSUME NEW t \in Threads, ReplayFails(t) \/ RegisterFails(t)
      PROVE  Inv'
  BY <1>7, FailStep DEF ReplayFails, RegisterFails, At
<1>8. ASSUME NEW t \in Threads, Register(t) \/ RegisterFound(t) \/ Drop(t)
      PROVE  Inv'
  BY <1>8, RegisterStep, RegisterFoundStep, DropStep
<1>9. ASSUME NEW t \in Threads,
             Remove(t) \/ Uncache(t) \/ CheckLog(t) \/ CloseLog(t) \/ RenameEntry(t)
      PROVE  Inv'
  BY <1>9, RemoveStep, UncacheStep, CheckLogStep, CloseLogStep, RenameEntryStep
<1>10. QED
  BY <1>1, <1>2, <1>3, <1>4, <1>5, <1>6, <1>7, <1>8, <1>9 DEF Next

(* Inv holds in every state. *)
LEMMA Invariant == Spec => []Inv
BY InitInv, NextInv, PTL DEF Spec

(* Every variable keeps its type: table, counts, logs, files and calls.    *)
THEOREM Types == Spec => []TypeOK
<1>1. Inv => TypeOK
  BY DEF Inv, StoreInv, StoreType, Pointers, CallsInv, CallsType, FilesType, TypeOK
<1>2. QED
  BY <1>1, Invariant, PTL

(* facts_new_ref and facts_delete: ref_count is the number of variables,   *)
(* entries of the table and locals that point to the database, whatever    *)
(* openings, closings and renamings of it race.                            *)
THEOREM CountsExact == Spec => []RefsCounted
<1>1. Inv => RefsCounted
  BY DEF Inv, StoreInv
<1>2. QED
  BY <1>1, Invariant, PTL

(* No variable, entry or local points to a database that facts_delete has  *)
(* freed.                                                                  *)
THEOREM NothingDangles == Spec => []PointersLive
<1>1. Inv => PointersLive
  BY PointedLives DEF Inv, PointersLive
<1>2. QED
  BY <1>1, Invariant, PTL

(* A database that nothing points to has been freed and its log closed,    *)
(* also when an opening fails or loses the race for its path.              *)
THEOREM NothingLeaked == Spec => []NothingLeaks
<1>1. ASSUME Inv, NEW o \in Objects, References(o) = {}
      PROVE  life[o] # "live" /\ log[o] = Null
  <2>1. refs[o] = 0
    BY <1>1, ToCount DEF Inv, StoreInv, RefsCounted, References, To
  <2>2. QED
    BY <1>1, <2>1 DEF Inv, StoreInv, Lives
<1>2. Inv => NothingLeaks
  BY <1>1 DEF NothingLeaks
<1>3. QED
  BY <1>2, Invariant, PTL

(***************************************************************************)
(* One writer                                                              *)
(***************************************************************************)
(* The database has an entry under the path of its log ...                 *)
Listed(o) == \E c \in Cells : ptr[c] = o /\ key[c] = log[o]

(* ... or is the own database of an opening that has not looked at the     *)
(* table again ...                                                         *)
Late == {"register", "drop"}
Fresh(o) ==
  \E t \in Threads : call[t].at \in Late /\ ptr[Own(t)] = o /\ Path(t) = log[o]

(* ... or is being closed.                                                 *)
Going(o) == \E t \in Threads : call[t].at \in Closing /\ ptr[Dest(t)] = o

Covered(o) == Listed(o) \/ Fresh(o) \/ Going(o)

(* Until a database is renamed to it, a path has at most one entry ...     *)
EntriesApart ==
  \A c, d \in Entries : key[c] = key[d] /\ key[c] \notin moved => c = d

(* ... and no log that the table does not know of.                         *)
LogsCovered ==
  \A o \in Objects : log[o] \notin moved \cup {Null} => Covered(o)

(* The own database of an opening is referred to from nowhere else.        *)
Owning == {"replay", "rewrite", "register", "drop"}
OwnInv(t) ==
  call[t].at \in Owning =>
    /\ \A p \in Places : ptr[p] = ptr[Own(t)] => p = Own(t)
    /\ call[t].at \in {"replay", "rewrite"} => log[ptr[Own(t)]] = Null

(* facts_rename has given the log its new path before the table hears it.  *)
RenameInv(t) ==
  At(t, "rename") => Path(t) \in moved /\ log[ptr[Dest(t)]] \in moved \cup {Null}

WriterInv ==
  /\ EntriesApart
  /\ LogsCovered
  /\ \A t \in Threads : OwnInv(t) /\ RenameInv(t)

(***************************************************************************)
(* What a step of t does to the rest.                                      *)
(***************************************************************************)
(* What the calls of the others hold stays.                                *)
Others(t) ==
  \A u \in Threads \ {t} :
    /\ call'[u] = call[u]
    /\ ptr'[Own(u)] = ptr[Own(u)]
    /\ ~At(u, "idle") => ptr'[Dest(u)] = ptr[Dest(u)]

(* A pointer is cleared, or set to a new database or to one that a         *)
(* variable or local of t or an entry points to.                           *)
Moves(t) ==
  \A p \in Places :
    \/ ptr'[p] \in {ptr[p], Null} \cup Unused
    \/ \E q \in Mine(t) : ptr'[p] = ptr[q]

(* A log is closed or renamed, or opened for the own database of t.        *)
Relogs(t) ==
  \A o \in Objects :
    \/ log'[o] \in {log[o], Null}
    \/ log[o] # Null /\ log'[o] \in moved'
    \/ call[t].at \in Owning /\ o = ptr[Own(t)]

(* What covers a database o stays.                                         *)
Kept(t, o) ==
  /\ log'[o] = log[o]
  /\ \A c \in Cells : ptr[c] = o => ptr'[c] = o /\ key'[c] = key[c]
  /\ call[t].at \in Late /\ ptr[Own(t)] = o =>
       call'[t].at \in Late /\ ptr'[Own(t)] = o /\ call'[t].path = call[t].path
  /\ call[t].at \in Closing /\ ptr[Dest(t)] = o =>
       /\ call'[t].at \in Closing
       /\ call'[t].dest = call[t].dest
       /\ ptr'[Dest(t)] = o

Keeps(t) ==
  \A o \in Objects :
    log'[o] \in moved' \cup {Null} \/ Covered(o)' \/ Kept(t, o)

(* A step of t on its own places leaves those of the others.               *)
LEMMA OthersMine ==
  ASSUME Inv, NEW t \in Threads,
         \A u \in Threads \ {t} : call'[u] = call[u],
         \A p \in Places \ Mine(t) : ptr'[p] = ptr[p]
  PROVE  Others(t)
<1>1. ASSUME NEW u \in Threads \ {t}
      PROVE  /\ ptr'[Own(u)] = ptr[Own(u)]
             /\ ~At(u, "idle") => ptr'[Dest(u)] = ptr[Dest(u)]
  <2>1. /\ Own(u) \in Places \ Mine(t)
        /\ \A v \in {u} \X Slots : v \in Places \ Mine(t)
    BY PlacesApart DEF Mine
  <2>2. ~At(u, "idle") => Dest(u) \in {u} \X Slots
    BY DEF Inv, CallsInv, CallInv
  <2>3. QED
    BY <2>1, <2>2
<1>2. QED
  BY <1>1 DEF Others

(* The own database of another opening and the database another thread is  *)
(* renaming stay so.                                                       *)
LEMMA OthersKept ==
  ASSUME Inv, WriterInv, NEW t \in Threads, NEW u \in Threads \ {t},
         Others(t), Moves(t), Relogs(t), moved \subseteq moved'
  PROVE  OwnInv(u)' /\ RenameInv(u)'
<1>1. /\ call'[u] = call[u] /\ ptr'[Own(u)] = ptr[Own(u)]
      /\ ~At(u, "idle") => ptr'[Dest(u)] = ptr[Dest(u)]
  BY DEF Others
<1>2. OwnInv(u) /\ RenameInv(u) /\ OwnInv(t)
  BY DEF WriterInv
<1>3. CallInv(u) /\ CallInv(t)
  BY DEF Inv, CallsInv
<1>4. Own(u) \in Places /\ Own(t) \in Places /\ Own(u) # Own(t) /\ Own(u) \notin Mine(t)
  BY PlacesApart DEF Mine
<1>5. CASE call[u].at \in Owning
  <2>1. ptr[Own(u)] # Null
    BY <1>3, <1>5 DEF CallInv, Owning, Holding
  <2>2. ptr[Own(u)] \in Objects /\ ptr[Own(u)] \notin Unused
    BY <1>4, <2>1, PointedLives DEF Inv, Unused
  <2>3. \A p \in Places : ptr[p] = ptr[Own(u)] => p = Own(u)
    BY <1>2, <1>5 DEF OwnInv
  <2>4. ASSUME NEW p \in Places, ptr'[p] = ptr'[Own(u)] PROVE p = Own(u)
    <3>1. ASSUME NEW q \in Mine(t) PROVE ptr'[p] # ptr[q]
      <4>1. q \in Places
        BY PlacesApart DEF Mine
      <4>2. QED
        BY <1>1, <1>4, <2>3, <2>4, <4>1
    <3>2. ptr'[p] \in {ptr[p], Null} \cup Unused
      BY <3>1 DEF Moves
    <3>3. QED
      BY <1>1, <2>1, <2>2, <2>3, <2>4, <3>2
  <2>5. ASSUME call[u].at \in {"replay", "rewrite"} PROVE log'[ptr[Own(u)]] = Null
    <3>1. log[ptr[Own(u)]] = Null
      BY <1>2, <1>5, <2>5 DEF OwnInv
    <3>2. ptr[Own(u)] # ptr[Own(t)]
      BY <1>4, <2>3
    <3>3. QED
      BY <2>2, <3>1, <3>2 DEF Relogs
  <2>6. OwnInv(u)'
    BY <1>1, <2>4, <2>5 DEF OwnInv
  <2>7. RenameInv(u)'
    BY <1>1, <1>5 DEF RenameInv, At, Owning
  <2>8. QED
    BY <2>6, <2>7
<1>6. CASE At(u, "rename")
  <2>1. Dest(u) \in {u} \X Slots /\ ptr[Dest(u)] # Null
    BY <1>3, <1>6 DEF CallInv, At, Leaving
  <2>2. Dest(u) \in Places /\ Dest(u) # Own(t)
    BY <2>1, PlacesApart
  <2>3. ptr[Dest(u)] \in Objects
    BY <2>1, <2>2, PointedLives DEF Inv
  <2>4. Path(u) \in moved /\ log[ptr[Dest(u)]] \in moved \cup {Null}
    BY <1>2, <1>6 DEF RenameInv
  <2>5. call[t].at \in Owning => ptr[Dest(u)] # ptr[Own(t)]
    BY <1>2, <2>2 DEF OwnInv
  <2>6. log'[ptr[Dest(u)]] \in moved' \cup {Null}
    BY <2>3, <2>4, <2>5 DEF Relogs
  <2>7. RenameInv(u)'
    BY <1>1, <1>6, <2>4, <2>6 DEF RenameInv, At, Path, Dest
  <2>8. OwnInv(u)'
    BY <1>1, <1>6 DEF OwnInv, At, Owning
  <2>9. QED
    BY <2>7, <2>8
<1>7. CASE call[u].at \notin Owning /\ ~At(u, "rename")
  BY <1>1, <1>7 DEF OwnInv, RenameInv, At
<1>8. QED
  BY <1>5, <1>6, <1>7

(* What covered a log goes on covering it.                                 *)
LEMMA CoveredStep ==
  ASSUME Inv, LogsCovered, NEW t \in Threads, Others(t), Keeps(t),
         moved \subseteq moved'
  PROVE  LogsCovered'
<1>1. ASSUME NEW o \in Objects, log'[o] \notin moved' \cup {Null}, Kept(t, o)
      PROVE  Covered(o)'
  <2>1. log'[o] = log[o] /\ Covered(o)
    BY <1>1 DEF LogsCovered, Kept
  <2>2. CASE Listed(o)
    BY <1>1, <2>1, <2>2 DEF Listed, Kept, Covered
  <2>3. CASE Fresh(o)
    <3>1. PICK u \in Threads : call[u].at \in Late /\ ptr[Own(u)] = o /\ Path(u) = log[o]
      BY <2>3 DEF Fresh
    <3>2. call'[u].at \in Late /\ ptr'[Own(u)] = o /\ call'[u].path = log'[o]
      BY <1>1, <2>1, <3>1 DEF Kept, Others, Path
    <3>3. Fresh(o)'
      BY <3>2 DEF Fresh, Path
    <3>4. QED
      BY <3>3 DEF Covered
  <2>4. CASE Going(o)
    <3>1. PICK u \in Threads : call[u].at \in Closing /\ ptr[Dest(u)] = o
      BY <2>4 DEF Going
    <3>2. call'[u].at \in Closing /\ call'[u].dest = call[u].dest /\ ptr'[Dest(u)] = o
      BY <1>1, <3>1 DEF Kept, Others, At, Closing
    <3>3. Going(o)'
      BY <3>2 DEF Going, Dest
    <3>4. QED
      BY <3>3 DEF Covered
  <2>5. QED
    BY <2>1, <2>2, <2>3, <2>4 DEF Covered
<1>2. QED
  BY <1>1 DEF LogsCovered, Keeps

(* Entries that stay are as far apart as before.                           *)
LEMMA SameEntries ==
  ASSUME EntriesApart, \A c \in Cells : ptr'[c] = ptr[c], UNCHANGED key,
         moved \subseteq moved'
  PROVE  EntriesApart'
BY DEF EntriesApart, Entries

(* All of it together.                                                     *)
LEMMA WriterStep ==
  ASSUME Inv, WriterInv, NEW t \in Threads, Others(t), Moves(t), Relogs(t), Keeps(t),
         moved \subseteq moved', EntriesApart', OwnInv(t)', RenameInv(t)'
  PROVE  WriterInv'
<1>1. LogsCovered'
  BY CoveredStep DEF WriterInv
<1>2. ASSUME NEW u \in Threads \ {t} PROVE OwnInv(u)' /\ RenameInv(u)'
  BY OthersKept
<1>3. QED
  BY <1>1, <1>2 DEF WriterInv

(***************************************************************************)
(* The steps, one by one                                                   *)
(***************************************************************************)
(* A step of a thread that was in no call and leaves the table alone.      *)
Outside(t) ==
  /\ At(t, "idle") /\ Others(t) /\ Moves(t)
  /\ \A o \in Objects :
       log'[o] \in {log[o], Null} \/ (log[o] # Null /\ log'[o] \in moved')
  /\ moved \subseteq moved'
  /\ UNCHANGED key /\ \A c \in Cells : ptr'[c] = ptr[c]
  /\ call'[t].at \notin Owning
  /\ RenameInv(t)'

(* Such a step keeps the invariant.                                        *)
LEMMA IdleWriter ==
  ASSUME Inv, WriterInv, NEW t \in Threads, Outside(t)
  PROVE  WriterInv'
<1>. USE DEF Outside
<1>1. Relogs(t)
  BY DEF Relogs
<1>2. Keeps(t)
  BY DEF Keeps, Kept, At, Late, Closing
<1>3. EntriesApart'
  BY SameEntries DEF WriterInv
<1>4. OwnInv(t)'
  BY DEF OwnInv
<1>5. QED
  BY <1>1, <1>2, <1>3, <1>4, WriterStep

(* The first look at the table hands out the pointer of an entry.          *)
LEMMA LookupWriter ==
  ASSUME Inv, WriterInv, NEW t \in Threads, NEW v \in {t} \X Slots, NEW p \in Paths,
         Lookup(t, v, p)
  PROVE  WriterInv'
<1>1. v \in Places /\ v \in Mine(t) /\ \A c \in Cells : c # v /\ c \in Mine(t)
  BY PlacesApart DEF Mine
<1>2. ptr \in Pointers /\ call \in [Threads -> [at : Locations, path : Paths \cup {Null},
                                               dest : Vars \cup {Null}]]
  BY DEF Inv, StoreInv, StoreType, CallsInv, CallsType
<1>3. \A q \in Places : q # v => ptr'[q] = ptr[q]
  BY <1>2 DEF Lookup, Pointers
<1>4. \A u \in Threads \ {t} : call'[u] = call[u]
  BY <1>2 DEF Lookup
<1>5. Others(t)
  BY <1>1, <1>3, <1>4, OthersMine
<1>6. Moves(t)
  <2>1. ptr'[v] = ptr[v] \/ \E c \in Cells : ptr'[v] = ptr[c]
    BY <1>1, <1>2 DEF Lookup, Find, Entries, Pointers
  <2>2. QED
    BY <1>1, <1>3, <2>1 DEF Moves
<1>7. call'[t].at \in {"idle", "new"}
  BY <1>2 DEF Lookup, At
<1>8. At(t, "idle") /\ UNCHANGED <<key, log, moved>>
  BY DEF Lookup, files
<1>9. RenameInv(t)'
  BY <1>7 DEF RenameInv, At
<1>10. \A c \in Cells : ptr'[c] = ptr[c]
  BY <1>1, <1>3 DEF Places
<1>11. Outside(t)
  BY <1>5, <1>6, <1>7, <1>8, <1>9, <1>10 DEF Outside, Owning
<1>12. QED
  BY <1>11, IdleWriter

(* A database of the application has no log.                               *)
LEMMA DatabaseWriter ==
  ASSUME Inv, WriterInv, NEW t \in Threads, NEW v \in {t} \X Slots, Database(t, v)
  PROVE  WriterInv'
<1>1. v \in Places /\ v \in Mine(t) /\ \A c \in Cells : c # v /\ c \in Places
  BY PlacesApart DEF Mine
<1>2. ptr \in Pointers
  BY DEF Inv, StoreInv, StoreType
<1>3. PICK o \in Unused : ptr' = [ptr EXCEPT ![v] = o]
  BY DEF Database
<1>4. At(t, "idle") /\ UNCHANGED <<key, log, moved, call>>
  BY DEF Database, files
<1>5. Others(t)
  BY <1>1, <1>2, <1>3, <1>4, OthersMine DEF Pointers
<1>6. Moves(t)
  BY <1>1, <1>2, <1>3 DEF Moves, Pointers
<1>7. call'[t].at = "idle"
  BY <1>4 DEF At
<1>8. RenameInv(t)'
  BY <1>7 DEF RenameInv, At
<1>9. \A c \in Cells : ptr'[c] = ptr[c]
  BY <1>1, <1>2, <1>3 DEF Pointers
<1>10. Outside(t)
  BY <1>4, <1>5, <1>6, <1>7, <1>8, <1>9 DEF Outside, Owning
<1>11. QED
  BY <1>10, IdleWriter

(* A copy is a pointer that a variable already holds.                      *)
LEMMA CopyWriter ==
  ASSUME Inv, WriterInv, NEW t \in Threads, NEW v \in {t} \X Slots, NEW w \in Vars,
         Copy(t, v, w)
  PROVE  WriterInv'
<1>1. v \in Places /\ v \in Mine(t)
  BY PlacesApart DEF Mine
<1>2. /\ w \in Places /\ \A c \in Cells : c # w /\ c \in Places
      /\ \A u \in Threads : Own(u) # w /\ Own(u) \in Places
      /\ \A u \in Threads : \A x \in {u} \X Slots : x \in Places /\ (x = w => w[1] = u)
  BY LocalsApart, CellsAssumption DEF Places, Vars
<1>3. ptr \in Pointers
  BY DEF Inv, StoreInv, StoreType
<1>4. /\ At(t, "idle") /\ At(w[1], "idle") /\ UNCHANGED <<key, log, moved, call>>
      /\ ptr' = [ptr EXCEPT ![w] = ptr[v]]
  BY DEF Copy, files
<1>5. Others(t)
  <2>1. ASSUME NEW u \in Threads, ~At(u, "idle") PROVE ptr'[Dest(u)] = ptr[Dest(u)]
    <3>1. Dest(u) \in {u} \X Slots
      BY <2>1 DEF Inv, CallsInv, CallInv
    <3>2. QED
      BY <1>2, <1>3, <1>4, <2>1, <3>1 DEF Pointers
  <2>2. \A u \in Threads : ptr'[Own(u)] = ptr[Own(u)]
    BY <1>2, <1>3, <1>4 DEF Pointers
  <2>3. QED
    BY <1>4, <2>1, <2>2 DEF Others
<1>6. Moves(t)
  BY <1>1, <1>2, <1>3, <1>4 DEF Moves, Pointers
<1>7. call'[t].at = "idle"
  BY <1>4 DEF At
<1>8. RenameInv(t)'
  BY <1>7 DEF RenameInv, At
<1>9. \A c \in Cells : ptr'[c] = ptr[c]
  BY <1>2, <1>3, <1>4 DEF Pointers
<1>10. Outside(t)
  BY <1>4, <1>5, <1>6, <1>7, <1>8, <1>9 DEF Outside, Owning
<1>11. QED
  BY <1>10, IdleWriter

(* facts_delete closes a log or leaves it.                                 *)
LEMMA ReleaseLogs ==
  ASSUME Inv, NEW x \in Objects, Release(x)
  PROVE  \A o \in Objects : log'[o] \in {log[o], Null}
BY DEF Inv, StoreInv, StoreType, Release

(* A variable goes, and maybe its database.                                *)
LEMMA ForgetWriter ==
  ASSUME Inv, WriterInv, NEW t \in Threads, NEW v \in {t} \X Slots, Forget(t, v)
  PROVE  WriterInv'
<1>1. v \in Places /\ v \in Mine(t) /\ \A c \in Cells : c # v /\ c \in Places
  BY PlacesApart DEF Mine
<1>2. ptr \in Pointers
  BY DEF Inv, StoreInv, StoreType
<1>3. /\ At(t, "idle") /\ UNCHANGED <<key, moved, call>> /\ Release(ptr[v])
      /\ ptr' = [ptr EXCEPT ![v] = Null] /\ ptr[v] # Null
  BY DEF Forget, files
<1>4. Others(t)
  BY <1>1, <1>2, <1>3, OthersMine DEF Pointers
<1>5. Moves(t)
  BY <1>1, <1>2, <1>3 DEF Moves, Pointers
<1>6. \A o \in Objects : log'[o] \in {log[o], Null}
  BY <1>1, <1>3, PointedLives, ReleaseLogs DEF Inv
<1>7. call'[t].at = "idle"
  BY <1>3 DEF At
<1>8. RenameInv(t)'
  BY <1>7 DEF RenameInv, At
<1>9. \A c \in Cells : ptr'[c] = ptr[c]
  BY <1>1, <1>2, <1>3 DEF Pointers
<1>10. Outside(t)
  BY <1>3, <1>4, <1>5, <1>6, <1>7, <1>8, <1>9 DEF Outside, Owning
<1>11. QED
  BY <1>10, IdleWriter

(* A write changes memory and a file.                                      *)
LEMMA WriteWriter ==
  ASSUME Inv, WriterInv, NEW t \in Threads, NEW v \in {t} \X Slots, NEW f \in Facts,
         Write(t, v, f)
  PROVE  WriterInv'
<1>1. At(t, "idle") /\ UNCHANGED <<ptr, key, log, moved, call>>
  BY DEF Write
<1>2. Others(t) /\ Moves(t)
  BY <1>1, OthersMine DEF Moves
<1>3. call'[t].at = "idle"
  BY <1>1 DEF At
<1>4. RenameInv(t)'
  BY <1>3 DEF RenameInv, At
<1>5. Outside(t)
  BY <1>1, <1>2, <1>3, <1>4 DEF Outside, Owning
<1>6. QED
  BY <1>5, IdleWriter

(* facts_close begins.                                                     *)
LEMMA CloseWriter ==
  ASSUME Inv, WriterInv, NEW t \in Threads, NEW v \in {t} \X Slots, Close(t, v)
  PROVE  WriterInv'
<1>1. At(t, "idle") /\ UNCHANGED <<ptr, key, log, moved>>
  BY DEF Close, files
<1>2. \A u \in Threads \ {t} : call'[u] = call[u]
  BY DEF Close, Inv, CallsInv, CallsType
<1>3. Others(t) /\ Moves(t)
  BY <1>1, <1>2, OthersMine DEF Moves
<1>4. call'[t].at = "remove"
  BY DEF Close, Inv, CallsInv, CallsType
<1>5. RenameInv(t)'
  BY <1>4 DEF RenameInv, At
<1>6. Outside(t)
  BY <1>1, <1>3, <1>4, <1>5 DEF Outside, Owning
<1>7. QED
  BY <1>6, IdleWriter

(* facts_rename gives every log of the path its new one.                   *)
LEMMA RenameWriter ==
  ASSUME Inv, WriterInv, NEW t \in Threads, NEW v \in {t} \X Slots, NEW q \in Paths,
         Rename(t, v, q)
  PROVE  WriterInv'
<1>1. At(t, "idle") /\ UNCHANGED <<ptr, key>> /\ moved' = moved \cup {q}
  BY DEF Rename
<1>2. \A u \in Threads \ {t} : call'[u] = call[u]
  BY DEF Rename, Inv, CallsInv, CallsType
<1>3. Others(t) /\ Moves(t)
  BY <1>1, <1>2, OthersMine DEF Moves
<1>4. call'[t] = [at |-> "rename", path |-> q, dest |-> v]
  BY DEF Rename, Inv, CallsInv, CallsType
<1>5. \A o \in Objects : log'[o] = log[o] \/ (log[o] # Null /\ log'[o] \in moved')
  BY <1>1 DEF Rename
<1>6. RenameInv(t)'
  <2>1. v \in Places
    BY PlacesApart
  <2>2. ptr[v] \in Objects
    BY <2>1, PointedLives DEF Inv, Rename
  <2>3. log'[ptr[v]] = q
    BY <2>2 DEF Rename
  <2>4. QED
    BY <1>1, <1>4, <2>3 DEF RenameInv, At, Path, Dest
<1>7. Outside(t)
  BY <1>1, <1>3, <1>4, <1>5, <1>6 DEF Outside, Owning
<1>8. QED
  BY <1>7, IdleWriter

(* A step of an opening that leaves the table alone: what it covers, its   *)
(* own database, it goes on covering, or its log is closed.                *)
Opens(t) ==
  /\ call[t].at \in Opening /\ Others(t) /\ Moves(t) /\ Relogs(t)
  /\ \A o \in Objects :
       \/ log'[o] \in moved' \cup {Null}
       \/ Covered(o)'
       \/ log'[o] = log[o] /\ ~(call[t].at \in Late /\ o = ptr[Own(t)])
  /\ UNCHANGED <<key, moved>> /\ \A c \in Cells : ptr'[c] = ptr[c]
  /\ OwnInv(t)'
  /\ ~At(t, "rename")'

(* Such a step keeps the invariant.                                        *)
LEMMA OpensWriter ==
  ASSUME Inv, WriterInv, NEW t \in Threads, Opens(t)
  PROVE  WriterInv'
<1>. USE DEF Opens
<1>1. Keeps(t)
  <2>1. ASSUME NEW o \in Objects, log'[o] = log[o],
               ~(call[t].at \in Late /\ o = ptr[Own(t)])
        PROVE  Kept(t, o)
    BY <2>1 DEF Kept, Opening, Closing
  <2>2. QED
    BY <2>1 DEF Keeps
<1>2. EntriesApart'
  BY SameEntries DEF WriterInv
<1>3. RenameInv(t)' /\ moved \subseteq moved'
  BY DEF RenameInv
<1>4. QED
  BY <1>1, <1>2, <1>3, WriterStep

(* The places an opening works with.                                       *)
LEMMA OpeningPlaces ==
  ASSUME Inv, NEW t \in Threads, call[t].at \in Opening
  PROVE  /\ Own(t) \in Places /\ Found(t) \in Places /\ Dest(t) \in Places
         /\ {Own(t), Found(t), Dest(t)} \subseteq Mine(t)
         /\ Cells \subseteq Places /\ Cells \subseteq Mine(t)
         /\ \A c \in Cells : c # Own(t) /\ c # Found(t) /\ c # Dest(t)
         /\ Own(t) # Found(t) /\ Own(t) # Dest(t) /\ Found(t) # Dest(t)
         /\ ptr \in Pointers
BY OpeningThread DEF Inv, StoreInv, StoreType, Mine

(* Only the own local of an opening points to its own database, which      *)
(* facts_new has just made or facts_open_memoized still keeps to itself.   *)
LEMMA OwnSingle ==
  ASSUME Inv, WriterInv, NEW t \in Threads, call[t].at \in Owning
  PROVE  refs[ptr[Own(t)]] = 1 /\ ptr[Own(t)] \in Objects
<1>1. Own(t) \in Places
  BY PlacesApart
<1>2. ptr[Own(t)] # Null
  BY DEF Inv, CallsInv, CallInv, Owning, Holding
<1>3. ptr[Own(t)] \in Objects
  BY <1>1, <1>2, PointedLives DEF Inv
<1>4. \A p \in Places : ptr[p] = ptr[Own(t)] => p = Own(t)
  BY DEF WriterInv, OwnInv
<1>5. References(ptr[Own(t)]) = {Own(t)}
  BY <1>1, <1>4 DEF References
<1>6. Cardinality({Own(t)}) = 1
  BY FS_Singleton
<1>7. QED
  BY <1>3, <1>5, <1>6 DEF Inv, StoreInv, RefsCounted

(* The new database has no log and one pointer.                            *)
LEMMA NewWriter ==
  ASSUME Inv, WriterInv, NEW t \in Threads, New(t)
  PROVE  WriterInv'
<1>1. At(t, "new") /\ call[t].at \in Opening
  BY DEF New, At, Opening
<1>2. UNCHANGED <<key, log, moved>> /\ call[t].at \notin Late
  BY <1>1 DEF New, files, At, Late
<1>3. CASE ~\E o \in Unused : ptr' = [ptr EXCEPT ![Own(t)] = o]
  <2>1. Return(t) /\ UNCHANGED ptr
    BY <1>3 DEF New
  <2>2. call'[t].at = "idle" /\ \A u \in Threads \ {t} : call'[u] = call[u]
    BY <2>1 DEF Return, Idle, Inv, CallsInv, CallsType
  <2>3. Others(t) /\ Moves(t) /\ Relogs(t)
    BY <1>2, <2>1, <2>2, OthersMine DEF Moves, Relogs
  <2>4. OwnInv(t)' /\ ~At(t, "rename")'
    BY <2>2 DEF OwnInv, Owning, At
  <2>5. Opens(t)
    BY <1>1, <1>2, <2>1, <2>3, <2>4 DEF Opens
  <2>6. QED
    BY <2>5, OpensWriter
<1>4. ASSUME NEW o \in Unused, ptr' = [ptr EXCEPT ![Own(t)] = o]
      PROVE  WriterInv'
  <2>1. o \in Objects /\ \A p \in Places : ptr[p] # o
    BY PointedLives, NullAssumption DEF Unused, Inv
  <2>2. ptr'[Own(t)] = o /\ \A p \in Places \ {Own(t)} : ptr'[p] = ptr[p]
    BY <1>1, <1>4, OpeningPlaces DEF Pointers
  <2>3. Goto(t, "replay")
    <3>1. ptr'[Own(t)] # ptr[Own(t)]
      BY <1>1, <2>1, <2>2, OpeningPlaces
    <3>2. QED
      BY <3>1 DEF New
  <2>4. call'[t].at = "replay" /\ \A u \in Threads \ {t} : call'[u] = call[u]
    BY <2>3 DEF Goto, Inv, CallsInv, CallsType
  <2>5. Others(t)
    BY <1>1, <2>2, <2>4, OthersMine, OpeningPlaces
  <2>6. Moves(t) /\ Relogs(t)
    BY <1>2, <2>2 DEF Moves, Relogs
  <2>7. log'[o] = Null
    BY <1>2, <2>1 DEF Inv, StoreInv, Lives, Unused, StoreType
  <2>8. OwnInv(t)'
    BY <2>1, <2>2, <2>7 DEF OwnInv
  <2>9. ~At(t, "rename")' /\ \A c \in Cells : ptr'[c] = ptr[c]
    BY <1>1, <2>2, <2>4, OpeningPlaces DEF At
  <2>10. Opens(t)
    BY <1>1, <1>2, <2>5, <2>6, <2>8, <2>9 DEF Opens
  <2>11. QED
    BY <2>10, OpensWriter
<1>5. QED
  BY <1>3, <1>4

(* Reading the file tells no log.                                          *)
LEMMA ReplayWriter ==
  ASSUME Inv, WriterInv, NEW t \in Threads, Replay(t)
  PROVE  WriterInv'
<1>1. At(t, "replay") /\ call[t].at \in Opening /\ call[t].at \notin Late
  BY DEF Replay, At, Opening, Late
<1>2. UNCHANGED <<ptr, key, log, moved>>
  BY DEF Replay
<1>3. call'[t].at = "rewrite" /\ \A u \in Threads \ {t} : call'[u] = call[u]
  BY DEF Replay, Goto, Inv, CallsInv, CallsType
<1>4. Others(t) /\ Moves(t) /\ Relogs(t)
  BY <1>2, <1>3, OthersMine DEF Moves, Relogs
<1>5. OwnInv(t)' /\ ~At(t, "rename")'
  BY <1>1, <1>2, <1>3 DEF WriterInv, OwnInv, Owning, At
<1>6. Opens(t)
  BY <1>1, <1>2, <1>4, <1>5 DEF Opens
<1>7. QED
  BY <1>6, OpensWriter

(* The log opens on the path of the call.                                  *)
LEMMA RewriteWriter ==
  ASSUME Inv, WriterInv, NEW t \in Threads, Rewrite(t)
  PROVE  WriterInv'
<1>1. At(t, "rewrite") /\ call[t].at \in Opening /\ call[t].at \in Owning
      /\ call[t].at \notin Late
  BY DEF Rewrite, At, Opening, Owning, Late
<1>2. UNCHANGED <<ptr, key, moved>> /\ log' = [log EXCEPT ![ptr[Own(t)]] = Path(t)]
  BY DEF Rewrite
<1>3. /\ call'[t].at = "register" /\ call'[t].path = call[t].path
      /\ \A u \in Threads \ {t} : call'[u] = call[u]
  BY DEF Rewrite, Goto, Inv, CallsInv, CallsType
<1>4. Others(t) /\ Moves(t)
  BY <1>2, <1>3, OthersMine DEF Moves
<1>5. log \in [Objects -> Paths \cup {Null}] /\ ptr[Own(t)] \in Objects
  BY <1>1, OwnSingle DEF Inv, StoreInv, StoreType
<1>6. Relogs(t)
  BY <1>1, <1>2, <1>5 DEF Relogs
<1>7. Covered(ptr[Own(t)])'
  BY <1>2, <1>3, <1>5 DEF Covered, Fresh, Late, Path
<1>8. \A o \in Objects : log'[o] = log[o] \/ Covered(o)'
  BY <1>2, <1>5, <1>7
<1>9. OwnInv(t)' /\ ~At(t, "rename")'
  BY <1>1, <1>2, <1>3 DEF WriterInv, OwnInv, Owning, At
<1>10. Opens(t)
  BY <1>1, <1>2, <1>4, <1>6, <1>8, <1>9 DEF Opens
<1>11. QED
  BY <1>10, OpensWriter

(* A failed opening deletes its database, and the log with it.             *)
LEMMA FailWriter ==
  ASSUME Inv, WriterInv, NEW t \in Threads, ReplayFails(t) \/ RegisterFails(t)
  PROVE  WriterInv'
<1>1. call[t].at \in Opening /\ call[t].at \in Owning
  BY DEF ReplayFails, RegisterFails, At, Opening, Owning
<1>2. /\ Release(ptr[Own(t)]) /\ ptr' = [ptr EXCEPT ![Own(t)] = Null]
      /\ Return(t) /\ UNCHANGED <<key, moved>>
  BY DEF ReplayFails, RegisterFails, files
<1>3. call'[t].at = "idle" /\ \A u \in Threads \ {t} : call'[u] = call[u]
  BY <1>2 DEF Return, Idle, Inv, CallsInv, CallsType
<1>4. ptr'[Own(t)] = Null /\ \A p \in Places \ {Own(t)} : ptr'[p] = ptr[p]
  BY <1>1, <1>2, OpeningPlaces DEF Pointers
<1>5. Others(t)
  BY <1>1, <1>3, <1>4, OthersMine, OpeningPlaces
<1>6. \A o \in Objects : log'[o] = IF o = ptr[Own(t)] THEN Null ELSE log[o]
  BY <1>1, <1>2, OwnSingle DEF Release, Inv, StoreInv, StoreType
<1>7. Moves(t) /\ Relogs(t)
  BY <1>4, <1>6 DEF Moves, Relogs
<1>8. OwnInv(t)' /\ ~At(t, "rename")'
  BY <1>3 DEF OwnInv, Owning, At
<1>9. \A c \in Cells : ptr'[c] = ptr[c]
  BY <1>1, <1>4, OpeningPlaces
<1>10. Opens(t)
  BY <1>1, <1>2, <1>5, <1>6, <1>7, <1>8, <1>9 DEF Opens
<1>11. QED
  BY <1>10, OpensWriter

(* The thread that lost takes a pointer to the winner's database.          *)
LEMMA RegisterFoundWriter ==
  ASSUME Inv, WriterInv, NEW t \in Threads, RegisterFound(t)
  PROVE  WriterInv'
<1>1. At(t, "register") /\ call[t].at \in Opening /\ call[t].at \in Owning
      /\ call[t].at \in Late
  BY DEF RegisterFound, At, Opening, Owning, Late
<1>2. PICK c \in Cells : ptr' = [ptr EXCEPT ![Found(t)] = ptr[c]]
  BY DEF RegisterFound, Find, Entries
<1>3. UNCHANGED <<key, log, moved>>
  BY DEF RegisterFound, files
<1>4. /\ call'[t].at = "drop" /\ call'[t].path = call[t].path
      /\ \A u \in Threads \ {t} : call'[u] = call[u]
  BY DEF RegisterFound, Goto, Inv, CallsInv, CallsType
<1>5. ptr'[Found(t)] = ptr[c] /\ \A p \in Places \ {Found(t)} : ptr'[p] = ptr[p]
  BY <1>1, <1>2, OpeningPlaces DEF Pointers
<1>6. Others(t)
  BY <1>1, <1>4, <1>5, OthersMine, OpeningPlaces
<1>7. Moves(t) /\ Relogs(t)
  BY <1>1, <1>3, <1>5, OpeningPlaces DEF Moves, Relogs
<1>8. OwnInv(t)' /\ ~At(t, "rename")'
  <2>1. \A p \in Places : ptr[p] = ptr[Own(t)] => p = Own(t)
    BY <1>1 DEF WriterInv, OwnInv
  <2>2. ptr'[Own(t)] = ptr[Own(t)] /\ ptr[c] # ptr[Own(t)]
    BY <1>1, <1>5, <2>1, OpeningPlaces
  <2>3. QED
    BY <1>4, <1>5, <2>1, <2>2 DEF OwnInv, At
<1>9. \A d \in Cells : ptr'[d] = ptr[d]
  BY <1>1, <1>5, OpeningPlaces
<1>10. \A o \in Objects : Kept(t, o)
  BY <1>1, <1>3, <1>4, <1>5, <1>9, OpeningPlaces DEF Kept, Late, At, Closing
<1>11. Keeps(t)
  BY <1>10 DEF Keeps
<1>12. EntriesApart' /\ RenameInv(t)' /\ moved \subseteq moved'
  BY <1>3, <1>8, <1>9, SameEntries DEF WriterInv, RenameInv
<1>13. OwnInv(t)'
  BY <1>8
<1>14. QED
  BY <1>6, <1>7, <1>11, <1>12, <1>13, WriterStep

(* ... and deletes its own, and the log with it.                           *)
LEMMA DropWriter ==
  ASSUME Inv, WriterInv, NEW t \in Threads, Drop(t)
  PROVE  WriterInv'
<1>1. call[t].at \in Opening /\ call[t].at \in Owning
  BY DEF Drop, At, Opening, Owning
<1>2. /\ Release(ptr[Own(t)]) /\ Return(t) /\ UNCHANGED <<key, moved>>
      /\ ptr' = [ptr EXCEPT ![Own(t)] = Null, ![Found(t)] = Null,
                            ![Dest(t)] = ptr[Found(t)]]
  BY DEF Drop, files
<1>3. call'[t].at = "idle" /\ \A u \in Threads \ {t} : call'[u] = call[u]
  BY <1>2 DEF Return, Idle, Inv, CallsInv, CallsType
<1>4. /\ ptr'[Own(t)] = Null /\ ptr'[Found(t)] = Null /\ ptr'[Dest(t)] = ptr[Found(t)]
      /\ \A p \in Places \ {Own(t), Found(t), Dest(t)} : ptr'[p] = ptr[p]
  BY <1>1, <1>2, OpeningPlaces DEF Pointers
<1>5. Others(t)
  BY <1>1, <1>3, <1>4, OthersMine, OpeningPlaces
<1>6. \A o \in Objects : log'[o] = IF o = ptr[Own(t)] THEN Null ELSE log[o]
  BY <1>1, <1>2, OwnSingle DEF Release, Inv, StoreInv, StoreType
<1>7. Moves(t) /\ Relogs(t)
  BY <1>1, <1>4, <1>6, OpeningPlaces DEF Moves, Relogs
<1>8. OwnInv(t)' /\ ~At(t, "rename")'
  BY <1>3 DEF OwnInv, Owning, At
<1>9. \A c \in Cells : ptr'[c] = ptr[c]
  BY <1>1, <1>4, OpeningPlaces
<1>10. Opens(t)
  BY <1>1, <1>2, <1>5, <1>6, <1>7, <1>8, <1>9 DEF Opens
<1>11. QED
  BY <1>10, OpensWriter

(* Where a database being registered has its log.                          *)
LEMMA OwnPath ==
  ASSUME Inv, WriterInv, NEW t \in Threads, At(t, "register"),
         log[ptr[Own(t)]] \notin moved \cup {Null}
  PROVE  log[ptr[Own(t)]] = Path(t)
<1>1. call[t].at \in Owning
  BY DEF At, Owning
<1>2. /\ ptr[Own(t)] \in Objects
      /\ \A p \in Places : ptr[p] = ptr[Own(t)] => p = Own(t)
  BY <1>1, OwnSingle DEF WriterInv, OwnInv
<1>3. Covered(ptr[Own(t)])
  BY <1>2 DEF WriterInv, LogsCovered
<1>4. ~Listed(ptr[Own(t)])
  BY <1>2, PlacesApart DEF Listed
<1>5. ~Going(ptr[Own(t)])
  <2>1. ASSUME NEW u \in Threads, call[u].at \in Closing, ptr[Dest(u)] = ptr[Own(t)]
        PROVE  FALSE
    <3>1. Dest(u) \in {u} \X Slots
      BY <2>1 DEF Inv, CallsInv, CallInv, At, Closing
    <3>2. Dest(u) \in Places /\ Dest(u) # Own(t)
      BY <3>1, PlacesApart
    <3>3. QED
      BY <1>2, <2>1, <3>2
  <2>2. QED
    BY <2>1 DEF Going
<1>6. PICK u \in Threads : ptr[Own(u)] = ptr[Own(t)] /\ Path(u) = log[ptr[Own(t)]]
  BY <1>3, <1>4, <1>5 DEF Covered, Fresh
<1>7. Own(u) \in Places
  BY PlacesApart
<1>8. u = t
  BY <1>2, <1>6, <1>7 DEF Own
<1>9. QED
  BY <1>6, <1>8

(* The path was still free, so its only entry is the new one, and the new  *)
(* database's log is on it.                                                *)
LEMMA RegisterWriter ==
  ASSUME Inv, WriterInv, NEW t \in Threads, Register(t)
  PROVE  WriterInv'
<1>1. At(t, "register") /\ call[t].at \in Opening /\ call[t].at \in Owning
      /\ Find(Path(t)) = {}
  BY DEF Register, At, Opening, Owning
<1>2. PICK c \in Cells \ Entries :
        /\ ptr' = [ptr EXCEPT ![c] = ptr[Own(t)], ![Own(t)] = Null,
                              ![Dest(t)] = ptr[Own(t)]]
        /\ key' = [key EXCEPT ![c] = Path(t)]
  BY DEF Register
<1>3. Return(t) /\ UNCHANGED <<log, moved>>
  BY DEF Register, files
<1>4. call'[t].at = "idle" /\ \A u \in Threads \ {t} : call'[u] = call[u]
  BY <1>3 DEF Return, Idle, Inv, CallsInv, CallsType
<1>5. /\ ptr'[c] = ptr[Own(t)] /\ ptr'[Own(t)] = Null /\ ptr'[Dest(t)] = ptr[Own(t)]
      /\ \A p \in Places \ {c, Own(t), Dest(t)} : ptr'[p] = ptr[p]
      /\ ptr[c] = Null
  BY <1>1, <1>2, OpeningPlaces DEF Pointers, Entries
<1>6. key'[c] = Path(t) /\ \A d \in Cells \ {c} : key'[d] = key[d] /\ ptr'[d] = ptr[d]
  BY <1>1, <1>2, <1>5, OpeningPlaces DEF Inv, FilesType
<1>7. Others(t)
  BY <1>1, <1>4, <1>5, OthersMine, OpeningPlaces
<1>8. Moves(t) /\ Relogs(t)
  BY <1>1, <1>3, <1>5, OpeningPlaces DEF Moves, Relogs
<1>9. Keeps(t)
  <2>1. PICK own \in Objects : own = ptr[Own(t)]
    BY <1>1, OwnSingle
  <2>2. ASSUME log'[own] \notin moved' \cup {Null}
        PROVE  Covered(own)'
    <3>1. log[own] = Path(t)
      BY <1>1, <1>3, <2>1, <2>2, OwnPath
    <3>2. ptr'[c] = own /\ key'[c] = log'[own]
      BY <1>3, <1>5, <1>6, <2>1, <3>1
    <3>3. QED
      BY <3>2 DEF Covered, Listed
  <2>3. ASSUME NEW o \in Objects, o # own PROVE Kept(t, o)
    <3>1. call[t].at \notin Closing
      BY <1>1 DEF At, Closing
    <3>2. \A d \in Cells : ptr[d] = o => d # c
      BY <1>5, NullAssumption
    <3>3. QED
      BY <1>3, <1>6, <2>1, <2>3, <3>1, <3>2 DEF Kept
  <2>4. QED
    BY <2>2, <2>3 DEF Keeps
<1>10. EntriesApart'
  <2>1. ASSUME NEW d \in Cells, ptr'[d] # Null, key'[d] = Path(t) PROVE d = c
    BY <1>1, <1>6, <2>1 DEF Find, Entries
  <2>2. ASSUME NEW d \in Cells, NEW e \in Cells, ptr'[d] # Null, ptr'[e] # Null,
               key'[d] = key'[e], key'[d] \notin moved'
        PROVE  d = e
    BY <1>3, <1>6, <2>1, <2>2 DEF WriterInv, EntriesApart, Entries
  <2>3. QED
    BY <2>2 DEF EntriesApart, Entries
<1>11. OwnInv(t)' /\ RenameInv(t)' /\ moved \subseteq moved'
  BY <1>3, <1>4 DEF OwnInv, RenameInv, Owning, At
<1>12. QED
  BY <1>7, <1>8, <1>9, <1>10, <1>11, WriterStep

(***************************************************************************)
(* facts_close, facts_opened_rename and marshall_read_facts_log            *)
(***************************************************************************)
(* A step of facts_close that leaves the table alone and goes on with the  *)
(* database, or has closed its log.                                        *)
Closes(t) ==
  /\ call[t].at \in Closing /\ Others(t) /\ Moves(t)
  /\ \A o \in Objects : log'[o] \in {log[o], Null}
  /\ \/ /\ call'[t].at \in Closing
        /\ call'[t].dest = call[t].dest
        /\ ptr'[Dest(t)] = ptr[Dest(t)]
     \/ call'[t].at = "idle" /\ log'[ptr[Dest(t)]] = Null
  /\ UNCHANGED <<key, moved>> /\ \A c \in Cells : ptr'[c] = ptr[c]

(* Such a step keeps the invariant.                                        *)
LEMMA ClosesWriter ==
  ASSUME Inv, WriterInv, NEW t \in Threads, Closes(t)
  PROVE  WriterInv'
<1>. USE DEF Closes
<1>1. Keeps(t)
  <2>1. ASSUME NEW o \in Objects, log'[o] # Null PROVE Kept(t, o)
    BY <2>1 DEF Kept, Late, Closing
  <2>2. QED
    BY <2>1 DEF Keeps
<1>2. EntriesApart'
  BY SameEntries DEF WriterInv
<1>3. Relogs(t)
  BY DEF Relogs
<1>4. OwnInv(t)' /\ RenameInv(t)' /\ moved \subseteq moved'
  BY DEF OwnInv, RenameInv, Owning, Closing, At
<1>5. QED
  BY <1>1, <1>2, <1>3, <1>4, WriterStep

(* The table's reference goes.                                             *)
LEMMA UncacheWriter ==
  ASSUME Inv, WriterInv, NEW t \in Threads, Uncache(t)
  PROVE  WriterInv'
<1>1. call[t].at \in Leaving /\ At(t, "uncache") /\ call[t].at \in Closing
  BY DEF Uncache, At, Leaving, Closing
<1>2. /\ Release(ptr[Own(t)]) /\ ptr' = [ptr EXCEPT ![Own(t)] = Null]
      /\ Goto(t, "check") /\ UNCHANGED <<key, moved>>
  BY DEF Uncache, files
<1>3. /\ call'[t].at = "check" /\ call'[t].dest = call[t].dest
      /\ \A u \in Threads \ {t} : call'[u] = call[u]
  BY <1>2 DEF Goto, Inv, CallsInv, CallsType
<1>4. ptr'[Own(t)] = Null /\ \A p \in Places \ {Own(t)} : ptr'[p] = ptr[p]
  BY <1>1, <1>2, LeavingThread DEF Pointers, Inv, StoreInv, StoreType
<1>5. Others(t)
  BY <1>1, <1>3, <1>4, OthersMine, LeavingThread
<1>6. Moves(t)
  BY <1>4 DEF Moves
<1>7. \A o \in Objects : log'[o] \in {log[o], Null}
  BY <1>1, <1>2, LeavingThread, ReleaseLogs
<1>8. ptr'[Dest(t)] = ptr[Dest(t)] /\ \A c \in Cells : ptr'[c] = ptr[c]
  BY <1>1, <1>4, LeavingThread
<1>9. call'[t].at \in Closing
  BY <1>3 DEF Closing
<1>10. Closes(t)
  BY <1>1, <1>2, <1>3, <1>5, <1>6, <1>7, <1>8, <1>9 DEF Closes
<1>11. QED
  BY <1>10, ClosesWriter

(* The thread goes on, or finds the log closed.                            *)
LEMMA CheckLogWriter ==
  ASSUME Inv, WriterInv, NEW t \in Threads, CheckLog(t)
  PROVE  WriterInv'
<1>1. At(t, "check") /\ call[t].at \in Closing /\ UNCHANGED <<ptr, key, log, moved>>
  BY DEF CheckLog, At, Closing, files
<1>2. \A u \in Threads \ {t} : call'[u] = call[u]
  BY DEF CheckLog, Return, Goto, Inv, CallsInv, CallsType
<1>3. Others(t) /\ Moves(t)
  BY <1>1, <1>2, OthersMine DEF Moves
<1>4. \/ call'[t].at = "close" /\ call'[t].dest = call[t].dest
      \/ call'[t].at = "idle" /\ log[ptr[Dest(t)]] = Null
  BY DEF CheckLog, Return, Goto, Idle, Inv, CallsInv, CallsType
<1>5. Closes(t)
  BY <1>1, <1>3, <1>4 DEF Closes, Closing
<1>6. QED
  BY <1>5, ClosesWriter

(* The log is closed.                                                      *)
LEMMA CloseLogWriter ==
  ASSUME Inv, WriterInv, NEW t \in Threads, CloseLog(t)
  PROVE  WriterInv'
<1>1. /\ call[t].at \in Closing /\ call[t].at \in Leaving
      /\ UNCHANGED <<ptr, key, moved>>
  BY DEF CloseLog, At, Closing, Leaving, files
<1>2. ptr[Dest(t)] \in Objects
  BY <1>1, LeavingThread
<1>3. call'[t].at = "idle" /\ \A u \in Threads \ {t} : call'[u] = call[u]
  BY DEF CloseLog, Return, Idle, Inv, CallsInv, CallsType
<1>4. Others(t) /\ Moves(t)
  BY <1>1, <1>3, OthersMine DEF Moves
<1>5. \A o \in Objects : log'[o] = IF o = ptr[Dest(t)] THEN Null ELSE log[o]
  BY DEF CloseLog, Inv, StoreInv, StoreType
<1>6. Closes(t)
  BY <1>1, <1>2, <1>3, <1>4, <1>5 DEF Closes
<1>7. QED
  BY <1>6, ClosesWriter

(* Entries of o go.                                                        *)
Taken(t, o) ==
  /\ ptr'[Dest(t)] = o
  /\ \A p \in Places \ Mine(t) : ptr'[p] = ptr[p]
  /\ \A d \in Cells :
       \/ ptr'[d] = ptr[d] /\ key'[d] = key[d]
       \/ ptr'[d] = Null /\ ptr[d] = o

(* facts_opened_remove: one entry less, of a database being closed.        *)
LEMMA RemoveWriter ==
  ASSUME Inv, WriterInv, NEW t \in Threads, Remove(t)
  PROVE  WriterInv'
<1>1. call[t].at \in Closing /\ call[t].at \in Leaving /\ call[t].at \notin Late
  BY DEF Remove, At, Closing, Leaving, Late
<1>2. PICK o \in Objects : o = ptr[Dest(t)]
  BY <1>1, LeavingThread
<1>3. /\ UNCHANGED <<log, moved>>
      /\ call'[t].at \in {"uncache", "check"} /\ call'[t].dest = call[t].dest
      /\ \A u \in Threads \ {t} : call'[u] = call[u]
  BY DEF Remove, Goto, files, Inv, CallsInv, CallsType
<1>4. Taken(t, o) /\ Moves(t)
  <2>1. ASSUME NEW c \in Entries, ptr[c] = ptr[Dest(t)],
               ptr' = [ptr EXCEPT ![c] = Null, ![Own(t)] = ptr[c]],
               key' = [key EXCEPT ![c] = Null]
        PROVE  Taken(t, o) /\ Moves(t)
    <3>1. /\ c \in Cells /\ c \in Places /\ c # Own(t) /\ c # Dest(t)
          /\ c \in Mine(t) /\ Own(t) \in Mine(t)
          /\ Dest(t) # Own(t) /\ Dest(t) \in Places /\ Own(t) \in Places
          /\ Cells \subseteq Places /\ Own(t) \notin Cells
      BY <1>1, LeavingThread DEF Entries, Mine, Places
    <3>2. /\ ptr'[c] = Null /\ ptr'[Own(t)] = ptr[c]
          /\ \A p \in Places \ {c, Own(t)} : ptr'[p] = ptr[p]
      BY <2>1, <3>1 DEF Inv, StoreInv, StoreType, Pointers
    <3>3. \A d \in Cells \ {c} : key'[d] = key[d] /\ ptr'[d] = ptr[d]
      BY <2>1, <3>1, <3>2 DEF Inv, FilesType
    <3>4. Taken(t, o)
      BY <1>2, <2>1, <3>1, <3>2, <3>3 DEF Taken
    <3>5. Moves(t)
      BY <3>1, <3>2 DEF Moves
    <3>6. QED
      BY <3>4, <3>5
  <2>2. ASSUME UNCHANGED <<ptr, key>> PROVE Taken(t, o) /\ Moves(t)
    BY <1>2, <2>2 DEF Taken, Moves
  <2>3. QED
    BY <2>1, <2>2 DEF Remove
<1>5. Others(t)
  BY <1>3, <1>4, OthersMine DEF Taken
<1>6. Relogs(t)
  BY <1>3 DEF Relogs
<1>7. Keeps(t)
  <2>1. Going(o)'
    BY <1>3, <1>4 DEF Taken, Going, Dest, Closing
  <2>2. Covered(o)'
    BY <2>1 DEF Covered
  <2>3. ASSUME NEW x \in Objects, x # o PROVE Kept(t, x)
    <3>1. \A d \in Cells : ptr[d] = x => ptr'[d] = x /\ key'[d] = key[d]
      BY <1>4, <2>3 DEF Taken
    <3>2. QED
      BY <1>1, <1>2, <1>3, <2>3, <3>1 DEF Kept
  <2>4. QED
    BY <2>2, <2>3 DEF Keeps
<1>8. EntriesApart'
  BY <1>3, <1>4 DEF WriterInv, EntriesApart, Entries, Taken
<1>9. OwnInv(t)' /\ RenameInv(t)' /\ moved \subseteq moved'
  BY <1>3 DEF OwnInv, RenameInv, Owning, At
<1>10. QED
  BY <1>4, <1>5, <1>6, <1>7, <1>8, <1>9, WriterStep

(* facts_opened_rename: the entry follows, to a path renamed to, or stays  *)
(* behind; its database's log is on a path renamed to either way.          *)
LEMMA RenameEntryWriter ==
  ASSUME Inv, WriterInv, NEW t \in Threads, RenameEntry(t)
  PROVE  WriterInv'
<1>1. At(t, "rename") /\ call[t].at \in Leaving /\ call[t].at \notin Late
      /\ call[t].at \notin Closing
  BY DEF RenameEntry, At, Leaving, Closing, Late
<1>2. /\ UNCHANGED <<ptr, log, moved>> /\ call'[t].at = "idle"
      /\ \A u \in Threads \ {t} : call'[u] = call[u]
  BY DEF RenameEntry, Return, Idle, files, Inv, CallsInv, CallsType
<1>3. Path(t) \in moved /\ log[ptr[Dest(t)]] \in moved \cup {Null}
  BY <1>1 DEF WriterInv, RenameInv
<1>4. \A d \in Cells :
        key'[d] = key[d] \/ (key'[d] = Path(t) /\ ptr[d] = ptr[Dest(t)])
  BY DEF RenameEntry, Entries, Inv, FilesType
<1>5. Others(t) /\ Moves(t) /\ Relogs(t)
  BY <1>2, OthersMine DEF Moves, Relogs
<1>6. Keeps(t)
  <2>1. ASSUME NEW o \in Objects, log'[o] \notin moved' \cup {Null} PROVE Kept(t, o)
    <3>1. o # ptr[Dest(t)]
      BY <1>2, <1>3, <2>1
    <3>2. \A d \in Cells : ptr[d] = o => ptr'[d] = o /\ key'[d] = key[d]
      BY <1>2, <1>4, <3>1
    <3>3. QED
      BY <1>1, <1>2, <3>2 DEF Kept
  <2>2. QED
    BY <2>1 DEF Keeps
<1>7. EntriesApart'
  BY <1>2, <1>3, <1>4 DEF WriterInv, EntriesApart, Entries
<1>8. OwnInv(t)' /\ RenameInv(t)' /\ moved \subseteq moved'
  BY <1>2 DEF OwnInv, RenameInv, Owning, At
<1>9. QED
  BY <1>5, <1>6, <1>7, <1>8, WriterStep

(* A restored database gets the first entry of its path, while no thread   *)
(* is in a call.                                                           *)
LEMMA RestoreWriter ==
  ASSUME Inv, WriterInv, NEW t \in Threads, NEW v \in {t} \X Slots, NEW p \in Paths,
         Restore(t, v, p)
  PROVE  WriterInv'
<1>1. v \in Places /\ v \in Mine(t) /\ Cells \subseteq Places
  BY PlacesApart DEF Mine, Places
<1>2. PICK o \in Objects : o = ptr[v]
  BY <1>1, PointedLives DEF Restore, Inv
<1>3. PICK c \in Cells \ Entries :
        ptr' = [ptr EXCEPT ![c] = o] /\ key' = [key EXCEPT ![c] = p]
  BY <1>2 DEF Restore
<1>4. /\ log' = [log EXCEPT ![o] = p] /\ UNCHANGED <<moved, call>>
      /\ Find(p) = {}
      /\ \A u \in Threads : At(u, "idle")
  BY <1>2 DEF Restore
<1>5. /\ ptr'[c] = o /\ ptr[c] = Null /\ \A q \in Places \ {c} : ptr'[q] = ptr[q]
      /\ key'[c] = p /\ \A d \in Cells \ {c} : key'[d] = key[d]
      /\ log'[o] = p /\ \A x \in Objects \ {o} : log'[x] = log[x]
  BY <1>1, <1>3, <1>4 DEF Entries, Inv, FilesType, StoreInv, StoreType, Pointers
<1>6. \A u \in Threads : call'[u].at = "idle"
  BY <1>4 DEF At
<1>7. EntriesApart'
  <2>1. ASSUME NEW d \in Cells, ptr'[d] # Null, key'[d] = p PROVE d = c
    BY <1>1, <1>4, <1>5, <2>1 DEF Find, Entries
  <2>2. ASSUME NEW d \in Cells, NEW e \in Cells, ptr'[d] # Null, ptr'[e] # Null,
               key'[d] = key'[e], key'[d] \notin moved'
        PROVE  d = e
    BY <1>1, <1>4, <1>5, <2>1, <2>2 DEF WriterInv, EntriesApart, Entries
  <2>3. QED
    BY <2>2 DEF EntriesApart, Entries
<1>8. LogsCovered'
  <2>1. Listed(o)'
    BY <1>5 DEF Listed
  <2>2. ASSUME NEW x \in Objects, x # o, log'[x] \notin moved' \cup {Null}
        PROVE  Listed(x)'
    <3>1. log'[x] = log[x] /\ Covered(x)
      BY <1>4, <1>5, <2>2 DEF WriterInv, LogsCovered
    <3>2. Listed(x)
      BY <1>4, <3>1 DEF Covered, Fresh, Going, At, Late, Closing
    <3>3. PICK d \in Cells : ptr[d] = x /\ key[d] = log[x]
      BY <3>2 DEF Listed
    <3>4. d # c
      BY <1>5, <3>3, NullAssumption
    <3>5. QED
      BY <1>1, <1>5, <3>1, <3>3, <3>4 DEF Listed
  <2>3. QED
    BY <2>1, <2>2 DEF LogsCovered, Covered
<1>9. \A u \in Threads : OwnInv(u)' /\ RenameInv(u)'
  BY <1>6 DEF OwnInv, RenameInv, Owning, At
<1>10. QED
  BY <1>7, <1>8, <1>9 DEF WriterInv

(* No database has a log at first.                                         *)
LEMMA InitWriter == Init => WriterInv
<1>. SUFFICES ASSUME Init PROVE WriterInv
  OBVIOUS
<1>1. EntriesApart
  BY DEF Init, EntriesApart, Entries, Places
<1>2. LogsCovered
  BY DEF Init, LogsCovered
<1>3. ASSUME NEW t \in Threads PROVE OwnInv(t) /\ RenameInv(t)
  BY DEF Init, OwnInv, RenameInv, Idle, At, Owning
<1>4. QED
  BY <1>1, <1>2, <1>3 DEF WriterInv

(* Every step keeps both invariants.                                       *)
LEMMA NextWriter == Inv /\ WriterInv /\ [Next]_vars => WriterInv'
<1>. SUFFICES ASSUME Inv, WriterInv, [Next]_vars PROVE WriterInv'
  OBVIOUS
<1>1. CASE UNCHANGED vars
  BY <1>1 DEF vars, WriterInv, EntriesApart, Entries, LogsCovered, Covered, Listed, Fresh,
     Going, OwnInv, RenameInv, At, Path, Dest
<1>2. ASSUME NEW t \in Threads, NEW v \in {t} \X Slots, NEW p \in Paths,
             Lookup(t, v, p) \/ Rename(t, v, p) \/ Restore(t, v, p)
      PROVE  WriterInv'
  BY <1>2, LookupWriter, RenameWriter, RestoreWriter
<1>3. ASSUME NEW t \in Threads, NEW v \in {t} \X Slots,
             Database(t, v) \/ Forget(t, v) \/ Close(t, v)
      PROVE  WriterInv'
  BY <1>3, DatabaseWriter, ForgetWriter, CloseWriter
<1>4. ASSUME NEW t \in Threads, NEW v \in {t} \X Slots, NEW w \in Vars, Copy(t, v, w)
      PROVE  WriterInv'
  BY <1>4, CopyWriter
<1>5. ASSUME NEW t \in Threads, NEW v \in {t} \X Slots, NEW f \in Facts, Write(t, v, f)
      PROVE  WriterInv'
  BY <1>5, WriteWriter
<1>6. ASSUME NEW t \in Threads, New(t) \/ Replay(t) \/ Rewrite(t)
      PROVE  WriterInv'
  BY <1>6, NewWriter, ReplayWriter, RewriteWriter
<1>7. ASSUME NEW t \in Threads, ReplayFails(t) \/ RegisterFails(t)
      PROVE  WriterInv'
  BY <1>7, FailWriter
<1>8. ASSUME NEW t \in Threads, Register(t) \/ RegisterFound(t) \/ Drop(t)
      PROVE  WriterInv'
  BY <1>8, RegisterWriter, RegisterFoundWriter, DropWriter
<1>9. ASSUME NEW t \in Threads,
             Remove(t) \/ Uncache(t) \/ CheckLog(t) \/ CloseLog(t) \/ RenameEntry(t)
      PROVE  WriterInv'
  BY <1>9, RemoveWriter, UncacheWriter, CheckLogWriter, CloseLogWriter, RenameEntryWriter
<1>10. QED
  BY <1>1, <1>2, <1>3, <1>4, <1>5, <1>6, <1>7, <1>8, <1>9 DEF Next

(* What a variable between calls points to is listed, unless it is being   *)
(* closed: nothing but its own local points to the database of an opening. *)
LEMMA VarListed ==
  ASSUME Inv, WriterInv, NEW v \in Vars, ptr[v] # Null,
         log[ptr[v]] \notin Closed \cup moved \cup {Null}
  PROVE  Listed(ptr[v])
<1>1. v \in Places /\ \A u \in Threads : v # Own(u)
  BY LocalsApart DEF Places, Vars
<1>2. ptr[v] \in Objects
  BY <1>1, PointedLives DEF Inv
<1>3. Covered(ptr[v])
  BY <1>2 DEF WriterInv, LogsCovered
<1>4. ~Fresh(ptr[v])
  BY <1>1 DEF Fresh, WriterInv, OwnInv, Owning, Late
<1>5. ~Going(ptr[v])
  BY DEF Going, Closed
<1>6. QED
  BY <1>3, <1>4, <1>5 DEF Covered

(* facts_open_memoized: however many openings of a path race, fail or lose *)
(* and whoever closes its databases meanwhile, two databases that threads  *)
(* hold between calls never append to the same file, the closings over and *)
(* paths that facts_rename gave to a log left out.                         *)
THEOREM WriterUnique == Spec => []OneWriter
<1>1. ASSUME Inv, WriterInv, NEW v \in Vars, NEW w \in Vars, ptr[v] # Null, ptr[w] # Null,
             log[ptr[v]] = log[ptr[w]],
             log[ptr[v]] \notin Closed \cup moved \cup {Null}
      PROVE  ptr[v] = ptr[w]
  <2>1. Listed(ptr[v]) /\ Listed(ptr[w])
    BY <1>1, VarListed
  <2>2. PICK c \in Cells : ptr[c] = ptr[v] /\ key[c] = log[ptr[v]]
    BY <2>1 DEF Listed
  <2>3. PICK d \in Cells : ptr[d] = ptr[w] /\ key[d] = log[ptr[w]]
    BY <2>1 DEF Listed
  <2>4. c = d
    BY <1>1, <2>2, <2>3 DEF WriterInv, EntriesApart, Entries
  <2>5. QED
    BY <2>2, <2>3, <2>4
<1>2. Inv /\ WriterInv => OneWriter
  BY <1>1 DEF OneWriter
<1>3. Spec => [](Inv /\ WriterInv)
  BY InitInv, InitWriter, NextInv, NextWriter, PTL DEF Spec
<1>4. QED
  BY <1>2, <1>3, PTL
=============================================================================
