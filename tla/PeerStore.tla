------------------------------ MODULE PeerStore ------------------------------
(***************************************************************************)
(* The cache of signed peer records of src/qlink-core/src/peer_store.rs:   *)
(* in memory alone, or over a file, plain or sealed under a key.  An       *)
(* operation changes the map under its lock and writes the snapshot it     *)
(* took after the lock is released, through one temporary file next to the *)
(* store.  The session managers of several peers share a store.            *)
(***************************************************************************)
EXTENDS Naturals, FiniteSets

CONSTANTS Peers,
          Writers,       \* tasks that use the store
          Keys, NoKey,   \* protection keys; NoKey writes plain JSON
          MaxSeq, MaxTime

VARIABLES kind,    \* "memory" or "file"
          mem,     \* mem[p]: [seq, exp], the cached record; seq = 0 for none
          key,     \* encryption_key
          op,      \* op[w]: the operation of task w
          temp,    \* the temporary file, or None
          path,    \* the store's file, or None
          settled, \* the last write was alone and complete
          now

storeVars == <<kind, mem, key, op, temp, path, settled, now>>

NoRecord == [seq |-> 0, exp |-> 0]
Records == {NoRecord} \cup [seq : 1..MaxSeq, exp : 1..MaxTime]
NoRecords == [p \in Peers |-> NoRecord]
AllKeys == Keys \cup {NoKey}

\* What a file holds: a whole snapshot under a key, or less than that.
None == [whole |-> FALSE, exists |-> FALSE, map |-> NoRecords, key |-> NoKey]
Truncated == [None EXCEPT !.exists = TRUE]

Idle == [at |-> "idle", snap |-> NoRecords, key |-> NoKey, rotate |-> FALSE,
         file |-> "temp", alone |-> FALSE]

\* InMemoryPeerStore: the same operations without a file.
InMemory == kind = "memory"

StoreInit ==
    /\ kind \in {"memory", "file"} /\ key \in AllKeys
    /\ mem = NoRecords /\ op = [w \in Writers |-> Idle]
    /\ temp = None /\ path = None
    /\ settled = TRUE /\ now = 0

-----------------------------------------------------------------------------
(***************************************************************************)
(* Encoding.  A sealed file opens under its own key alone; whatever cannot *)
(* be read is an empty cache.                                              *)
(***************************************************************************)
Encode(snap, k) == [whole |-> TRUE, exists |-> TRUE, map |-> snap, key |-> k]
TagMatches(file, k) == file.key = k
open_envelope(file, k) == IF TagMatches(file, k) THEN file.map ELSE NoRecords
decode_or_empty(file, k) ==
    IF ~file.whole THEN NoRecords
    ELSE IF file.key = NoKey THEN file.map
    ELSE IF k = NoKey THEN NoRecords ELSE open_envelope(file, k)

-----------------------------------------------------------------------------
(***************************************************************************)
(* The operations, up to the release of the lock.                          *)
(***************************************************************************)
Pruned(t) == [p \in Peers |-> IF mem[p].exp > t THEN mem[p] ELSE NoRecord]

Supersedes(new, old) == new.seq > old.seq

\* The task goes on to write snap, unless the store has no file.
Persists(w, snap, rotate, k) ==
    /\ mem' = snap
    /\ IF InMemory THEN UNCHANGED <<op, settled>>
       ELSE /\ op' = [v \in Writers |->
                       IF v = w
                       THEN [at |-> IF rotate THEN "create" ELSE "key", snap |-> snap, key |-> k,
                             rotate |-> rotate, file |-> "temp",
                             alone |-> \A x \in Writers \ {w} : op[x].at = "idle"]
                       ELSE [op[v] EXCEPT !.alone = FALSE]]
            /\ settled' = FALSE
    /\ UNCHANGED <<kind, key, temp, path, now>>

\* An ignored record still costs the expired ones their place in memory.
store(w, p, record) ==
    LET kept == Pruned(now) IN
    /\ op[w].at = "idle"
    /\ IF kept[p] = NoRecord \/ Supersedes(record, kept[p])
       THEN Persists(w, [kept EXCEPT ![p] = record], FALSE, NoKey)
       ELSE mem' = kept /\ UNCHANGED <<kind, key, op, temp, path, settled, now>>

forget(w, p) ==
    /\ op[w].at = "idle" /\ mem[p] # NoRecord
    /\ Persists(w, [mem EXCEPT ![p] = NoRecord], FALSE, NoKey)

prune_expired(w) ==
    /\ op[w].at = "idle" /\ Pruned(now) # mem
    /\ Persists(w, Pruned(now), FALSE, NoKey)

rotate_key(w, k) ==
    /\ ~InMemory /\ op[w].at = "idle"
    /\ Persists(w, Pruned(now), TRUE, k)

-----------------------------------------------------------------------------
(***************************************************************************)
(* Writing.                                                                *)
(***************************************************************************)
Step(w, o) == op' = [op EXCEPT ![w] = o]

\* try_persist copies the key on its own.
try_persist(w) ==
    /\ op[w].at = "key" /\ Step(w, [op[w] EXCEPT !.at = "create", !.key = key])
    /\ UNCHANGED <<kind, mem, key, temp, path, settled, now>>

\* File::create truncates the temporary file another task may be writing.
CreateTemp(w) ==
    /\ op[w].at = "create" /\ Step(w, [op[w] EXCEPT !.at = "write"])
    /\ temp' = Truncated
    /\ UNCHANGED <<kind, mem, key, path, settled, now>>

\* write_all to the file the task has open, whatever its name is by now: over
\* the bytes of another task it leaves a whole file only if it is the longer.
Written(file, w) == {Encode(op[w].snap, op[w].key)}
                    \cup (IF file.whole THEN {Truncated} ELSE {})

WriteTemp(w) ==
    /\ op[w].at = "write" /\ Step(w, [op[w] EXCEPT !.at = "rename"])
    /\ \/ op[w].file = "temp" /\ temp' \in Written(temp, w) /\ UNCHANGED path
       \/ op[w].file = "path" /\ path' \in Written(path, w) /\ UNCHANGED temp
       \/ op[w].file = "gone" /\ UNCHANGED <<temp, path>>
    /\ UNCHANGED <<kind, mem, key, settled, now>>

\* The temporary file takes the store's name; tasks that have one of the two
\* files open keep it.
Renamed(file) == IF file = "temp" THEN "path" ELSE "gone"

RenameTemp(w) ==
    /\ op[w].at = "rename" /\ temp.exists
    /\ path' = temp /\ temp' = None
    /\ op' = [v \in Writers |->
               IF v = w THEN (IF op[w].rotate THEN [op[w] EXCEPT !.at = "swap"] ELSE Idle)
               ELSE IF op[v].at \in {"write", "rename"}
               THEN [op[v] EXCEPT !.file = Renamed(op[v].file)] ELSE op[v]]
    /\ settled' = (op[w].alone /\ ~op[w].rotate)
    /\ UNCHANGED <<kind, mem, key, now>>

\* An I/O error, or no temporary file left to rename: the operation is over,
\* and a rotation leaves the key as it was.
WriteFails(w) ==
    /\ op[w].at \in {"create", "write", "rename"}
    /\ Step(w, Idle)
    /\ UNCHANGED <<kind, mem, key, temp, path, settled, now>>

SwapForgotten(w) ==
    /\ op[w].at = "swap" /\ Step(w, Idle)
    /\ settled' = op[w].alone
    /\ UNCHANGED <<kind, mem, key, temp, path, now>>

SwapKey(w) ==
    /\ op[w].at = "swap" /\ Step(w, Idle)
    /\ key' = op[w].key /\ settled' = op[w].alone
    /\ UNCHANGED <<kind, mem, temp, path, now>>

-----------------------------------------------------------------------------
\* The process ends at any point and opens the store again with the key the
\* host has then.
Reopen(k) ==
    /\ op' = [w \in Writers |-> Idle] /\ key' = k
    /\ mem' = IF InMemory THEN NoRecords ELSE decode_or_empty(path, k)
    /\ settled' = TRUE
    /\ UNCHANGED <<kind, temp, path, now>>

TimePasses == now < MaxTime /\ now' = now + 1
              /\ UNCHANGED <<kind, mem, key, op, temp, path, settled>>

StoreNext ==
    \/ TimePasses \/ \E k \in AllKeys : Reopen(k)
    \/ \E w \in Writers :
         \/ prune_expired(w) \/ try_persist(w) \/ CreateTemp(w) \/ WriteTemp(w)
         \/ RenameTemp(w) \/ WriteFails(w) \/ SwapKey(w)
         \/ \E k \in AllKeys : rotate_key(w, k)
         \/ \E p \in Peers : forget(w, p) \/ \E r \in Records \ {NoRecord} : store(w, p, r)

StoreSpec == StoreInit /\ [][StoreNext]_storeVars

-----------------------------------------------------------------------------
\* "the persisted state is updated atomically" (rotate_key, store): once every
\* operation is over, and the last one had the store to itself and did not
\* fail, the next launch with the store's key finds each record in memory.
FileHoldsMemory ==
    ~InMemory /\ settled =>
        \A p \in Peers : mem[p] # NoRecord => decode_or_empty(path, key)[p] = mem[p]

=============================================================================
