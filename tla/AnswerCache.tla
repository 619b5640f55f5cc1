----------------------------- MODULE AnswerCache -----------------------------
(***************************************************************************)
(* The answer cache of services/cache.py and its use by a turn: the lookup *)
(* in chat.py, the second one in entry_node, the put after the turn, and   *)
(* the invalidation when a knowledge base's instruction is edited.         *)
(*                                                                         *)
(* A key is the pair of a knowledge base and the instruction read with it; *)
(* the query and the skill are part of the key in the same way and are     *)
(* left out.  An entry is old once its ttl has passed.                     *)
(***************************************************************************)
EXTENDS Naturals, Sequences, FiniteSets, SequencesExt

CONSTANTS CacheKb,     \* knowledge bases
          Instruction, \* texts an instruction may have
          Asker,       \* turns that run at the same time
          MaxSize,     \* cache_max_size
          CacheEdits   \* bound: edits of an instruction

ASSUME CacheBounds == MaxSize \in Nat \ {0} /\ CacheEdits \in Nat

Key == CacheKb \X Instruction

VARIABLES store,       \* _store: keys, the least recently used first
          expired,     \* keys of the store whose ttl has passed
          index,       \* _kb_index
          instruction, \* knowledge_bases.prompt, as committed
          editing,     \* edits that invalidated and have not committed
          asker,       \* turns: where they are, and the key they keep
          cacheEdits   \* edits so far

cacheVars == <<store, expired, index, instruction, editing, asker, cacheEdits>>

CacheInit == /\ store = <<>> /\ expired = {}
             /\ index = [b \in CacheKb |-> {}]
             /\ instruction \in [CacheKb -> Instruction]
             /\ editing = {}
             /\ asker = [a \in Asker |-> [at |-> "idle"]]
             /\ cacheEdits = 0

(* The keys that are left when those of gone leave, in the order they had. *)
Left(ks, gone) ==
    LET left[i \in 0..Len(ks)] == IF i = 0 THEN <<>>
                                  ELSE IF ks[i] \in gone THEN left[i - 1]
                                  ELSE Append(left[i - 1], ks[i])
    IN left[Len(ks)]
RemoveFromIndex(k) == index' = [b \in CacheKb |-> index[b] \ {k}]

Goes(a, at, k) == asker' = [asker EXCEPT ![a] = [at |-> at, key |-> k]]

(* get: a hit moves the key to the end, an expired entry goes.             *)
Get(a, k, hit, miss) ==
    /\ IF ~Contains(store, k)
       THEN UNCHANGED <<store, expired, index>> /\ Goes(a, miss, asker[a].key)
       ELSE IF k \in expired
       THEN /\ store' = Left(store, {k}) /\ expired' = expired \ {k}
            /\ RemoveFromIndex(k)
            /\ Goes(a, miss, asker[a].key)
       ELSE /\ store' = Append(Left(store, {k}), k)
            /\ UNCHANGED <<expired, index>>
            /\ Goes(a, hit, asker[a].key)
    /\ UNCHANGED <<instruction, editing, cacheEdits>>

(* The request reads the instruction once, for the key of all that follows.*)
Ask(a, b) == /\ asker[a].at = "idle"
             /\ Goes(a, "asked", <<b, instruction[b]>>)
             /\ UNCHANGED <<store, expired, index, instruction, editing, cacheEdits>>

LookUp(a) == asker[a].at = "asked" /\ Get(a, asker[a].key, "stored", "missed")

(* entry_node reads the instruction again; chat.py stores the answer of    *)
(* either lookup unless the first one hit.                                 *)
EntryNode(a) == /\ asker[a].at = "missed"
                /\ LET b == asker[a].key[1]
                   IN Get(a, <<b, instruction[b]>>, "answered", "answered")

Evicted == IF Len(store) >= MaxSize THEN SubSeq(store, 1, Len(store) - MaxSize + 1)
                                    ELSE <<>>

(* Mutant: an eviction forgets the index.                                  *)
PutEvictsStoreOnly(a) ==
          LET k == asker[a].key
              gone == Range(Evicted)
              left == Left(store, gone)
          IN /\ asker[a].at = "answered"
             /\ store' = IF Contains(left, k) THEN left ELSE Append(left, k)
             /\ expired' = (expired \ gone) \ {k}
             /\ index' = [index EXCEPT ![k[1]] = @ \cup {k}]
             /\ Goes(a, "stored", k)
             /\ UNCHANGED <<instruction, editing, cacheEdits>>

(* put: evicts at capacity, even to replace a key that is there; a key     *)
(* that is still there keeps its place.                                    *)
Put(a) == LET k == asker[a].key
              gone == Range(Evicted)
              left == Left(store, gone)
          IN /\ asker[a].at = "answered"
             /\ store' = IF Contains(left, k) THEN left ELSE Append(left, k)
             /\ expired' = (expired \ gone) \ {k}
             /\ index' = [b \in CacheKb |-> (index[b] \ gone) \cup
                                            (IF b = k[1] THEN {k} ELSE {})]
             /\ Goes(a, "stored", k)
             /\ UNCHANGED <<instruction, editing, cacheEdits>>

TurnEnds(a) == /\ asker[a].at = "stored"
               /\ asker' = [asker EXCEPT ![a] = [at |-> "idle"]]
               /\ UNCHANGED <<store, expired, index, instruction, editing, cacheEdits>>

Expire(k) == /\ Contains(store, k) /\ k \notin expired
             /\ expired' = expired \cup {k}
             /\ UNCHANGED <<store, index, instruction, editing, asker, cacheEdits>>

(* invalidate(kb_id) drops what the index lists under the knowledge base.  *)
Invalidate(b) == /\ store' = Left(store, index[b])
                 /\ expired' = expired \ index[b]
                 /\ index' = [index EXCEPT ![b] = {}]

(* update_kb invalidates before it commits the new text.                   *)
EditInstruction(b, i) == /\ cacheEdits < CacheEdits /\ ~\E e \in editing : e[1] = b
                         /\ Invalidate(b)
                         /\ editing' = editing \cup {<<b, i>>}
                         /\ cacheEdits' = cacheEdits + 1
                         /\ UNCHANGED <<instruction, asker>>

CommitEdit(e) == /\ instruction' = [instruction EXCEPT ![e[1]] = e[2]]
                 /\ editing' = editing \ {e}
                 /\ UNCHANGED <<store, expired, index, asker, cacheEdits>>

CacheNext == \/ \E a \in Asker : \/ \E b \in CacheKb : Ask(a, b)
                                 \/ LookUp(a) \/ EntryNode(a) \/ Put(a) \/ TurnEnds(a)
             \/ \E k \in Key : Expire(k)
             \/ \E k \in Key : EditInstruction(k[1], k[2])
             \/ \E e \in editing : CommitEdit(e)

CacheSpec == CacheInit /\ [][CacheNext]_cacheVars

-----------------------------------------------------------------------------
(* The index and the store agree: an invalidation reaches every answer of  *)
(* its knowledge base, an eviction or an expiry leaves nothing behind that *)
(* grows the index, and the store keeps to its size.                       *)
CacheIndexIsExact ==
    /\ \A b \in CacheKb : index[b] = {k \in Range(store) : k[1] = b}
    /\ expired \subseteq Range(store)
    /\ Len(store) <= MaxSize /\ Cardinality(Range(store)) = Len(store)

=============================================================================
