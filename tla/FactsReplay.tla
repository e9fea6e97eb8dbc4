----------------------------- MODULE FactsReplay -----------------------------
(***************************************************************************)
(* What the outputs of the fact database are worth: the log file, the      *)
(* hooks, the events sent to replicas and the retained deletions, each     *)
(* read back the way the code reads it and compared with the store.        *)
(***************************************************************************)
EXTENDS Facts, FiniteSets

(* facts_add_fact_id and facts_remove_fact_id, as the loop of              *)
(* facts_open_file and facts_connection_apply call them.                   *)
Apply(s, e) ==
  IF e.op = "remove" THEN [s EXCEPT ![e.fact] = NoId]
  ELSE IF s[e.fact] # NoId THEN s
  ELSE [s EXCEPT ![e.fact] = e.id]

ReplayOn(s, events) ==
  LET replay[i \in 0 .. Len(events)] ==
        IF i = 0 THEN s ELSE Apply(replay[i - 1], events[i])
  IN replay[Len(events)]

Replay(events) == ReplayOn([f \in Triples |-> NoId], events)

(* Faulty: a deletion is sent only when it is newer than the cursor.       *)
RetainedAfter(c) == {e \in ToSet(removeLog) : e.id > c}

Retained(c) == {e \in ToSet(removeLog) : e.id >= c}

(* What facts_connection_sync sends to a replica whose next_id is c:       *)
(* deletions and facts merged, the oldest identifier first.                *)
ById(S) ==
  [i \in 1 .. Cardinality(S) |->
     CHOOSE e \in S : Cardinality({d \in S : d.id <= e.id}) = i]

Sync(c) ==
  ById(Retained(c)
         \cup {Event("add", store[f], f) : f \in {g \in Triples : store[g] >= c}})

-----------------------------------------------------------------------------
(* The store of the last outermost commit, as far as it is published.      *)
Published ==
  IF txns # <<>> THEN txns[Len(txns)].base
  ELSE IF pub # <<>> THEN Head(pub).before
  ELSE store

(* Who holds references on tags: the stored facts, and the actions still   *)
(* to be published or undone.                                              *)
LoggedActions == ToSet(pub) \cup UNION {ToSet(txns[i].log) : i \in 1 .. Len(txns)}

Holder(id, f) == [id |-> id, fact |-> f]

Holders ==
  {Holder(NoId, f) : f \in {g \in Triples : Stored(g)}}
    \cup {Holder(a.id, a.fact) : a \in LoggedActions}

(* References on tag t as the k-th tag of a fact. *)
References(k, t) == Cardinality({h \in Holders : h.fact[k] = t})

(* tags->usage counts what the facts and the undo logs refer to: a tag is  *)
(* not freed while one of them needs it, and is freed after the last one.  *)
TagsCounted ==
  \A t \in Tags :
    usage[t] = References(1, t) + References(2, t) + References(3, t)

(* Until a write fails, the log file replays to the facts committed so     *)
(* far, identifiers included, and to nothing of an open transaction.       *)
LogReplays == HasLog /\ ~failed => Replay(disk) = Published

(* So do the events sent to replicas.                                      *)
ReplicasFollow == Connected /\ ~failed => Replay(sent) = Published

(* Identifiers order the events: a replica that drops what is below its    *)
(* cursor drops nothing it has not applied.                                *)
EventsInOrder ==
  \A events \in {disk, sent} :
    \A i, j \in DOMAIN events : i < j => events[i].id < events[j].id

(* Nothing is announced that is not in the log: hooks and replicas see the *)
(* records in order, and the file is at most one record ahead of them, the *)
(* one whose write was reported as failed.                                 *)
AnnouncedIsLogged ==
  HasLog => /\ IsPrefix(hooked, disk)
            /\ Len(disk) <= Len(hooked) + (IF failed THEN 1 ELSE 0)
            /\ ToSet(sent) \subseteq ToSet(hooked)

(* Whatever event a replica was cut off after, the retained deletions and  *)
(* the surviving facts from its cursor on bring it to the same facts with  *)
(* the same identifiers.                                                   *)
ResyncFromAnyCursor ==
  Connected /\ ~failed /\ phase = "idle" /\ ~InTransaction =>
    \A n \in 0 .. Len(sent), c \in 1 .. nextId :
      /\ n > 0 => sent[n].id < c
      /\ n < Len(sent) => c <= sent[n + 1].id
      => ReplayOn(Replay(SubSeq(sent, 1, n)), Sync(c)) = store
=============================================================================
