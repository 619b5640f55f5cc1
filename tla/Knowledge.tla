------------------------------ MODULE Knowledge -----------------------------
(***************************************************************************)
(* Documents and what is searched of them: the processing pipeline         *)
(* (doc_processor.py), links to knowledge bases, the vector store and the  *)
(* keyword index, the switch of the embedding model and the re-index       *)
(* thread (reindex_service.py).                                            *)
(*                                                                         *)
(* A document is one set of chunks; a vector remembers the model that made *)
(* it and the model it is stamped with. The event loop and the re-index    *)
(* threads interleave at the awaits, the commits and the store's lock.     *)
(***************************************************************************)
EXTENDS Integers, FiniteSets

CONSTANTS Doc, Kb,
          EModel,    \* embedding models that can be installed
          DocTask,   \* processing tasks
          Rebuilder, \* re-index threads
          Remover,   \* requests and tasks that remove a document
          KbCrashes, \* bound: deaths of the process
          KbEdits    \* bound: retries, links, removals, switches and re-indexes, drops
                     \* and commits of them that raise, and deaths, together

ASSUME KbBounds == /\ Doc # {} /\ Kb # {}
                   /\ KbCrashes \in Nat /\ KbEdits \in Nat

VARIABLES doc,      \* documents rows: status, whether there are chunks, model of their embeddings
          link,     \* kb_documents rows
          base,     \* knowledge bases there are
          vec,      \* vectors: model that made them, model they are stamped with
          bm,       \* documents in the keyword index of each knowledge base
          emodel,   \* the configured embedding model
          loaded,   \* the model the embedder has loaded
          dtask,    \* processing tasks
          linking,  \* add_documents_to_kb in flight
          removal,  \* removals of a document, from a knowledge base or altogether
          rebuild,  \* re-index threads
          rstatus,  \* status of the re-index service
          strayVec, \* entries that a failure or an overlap may have left: vectors
          strayBm,  \* and keywords
          kbCrashes, kbEdits

kbVars == <<doc, link, base, vec, bm, emodel, loaded, dtask, linking, removal, rebuild, rstatus,
            strayVec, strayBm, kbCrashes, kbEdits>>
taskVars == <<dtask, linking, removal, rebuild, rstatus>>
noteVars == <<strayVec, strayBm, kbCrashes>>

NoModel == "none"
NoVec == [by |-> NoModel, stamp |-> NoModel]
AnyDoc == CHOOSE d \in Doc : TRUE
AnyKb == CHOOSE k \in Kb : TRUE
TaskDone == [at |-> "done", doc |-> AnyDoc]
LinkDone == [at |-> "done", kb |-> AnyKb, doc |-> AnyDoc, by |-> NoModel, todo |-> {}, added |-> {}]
RemovalDone == [at |-> "done", doc |-> AnyDoc, kbs |-> {}, whole |-> FALSE]
RebuildDone == [at |-> "done", clear |-> FALSE, todo |-> {}, doc |-> AnyDoc, into |-> {}]

KbInit == /\ doc = [d \in Doc |-> [status |-> "absent", chunks |-> FALSE, by |-> NoModel]]
          /\ link = {} /\ base = Kb
          /\ vec = [kd \in Kb \X Doc |-> NoVec]
          /\ bm = [k \in Kb |-> {}]
          /\ emodel \in EModel \cup {NoModel} /\ loaded = NoModel
          /\ dtask = [t \in DocTask |-> TaskDone]
          /\ linking = LinkDone
          /\ removal = [x \in Remover |-> RemovalDone]
          /\ rebuild = [w \in Rebuilder |-> RebuildDone]
          /\ rstatus = "idle"
          /\ strayVec = {} /\ strayBm = {}
          /\ kbCrashes = 0 /\ kbEdits = 0

Stored(d) == doc[d].status \notin {"absent", "deleted"}
Searchable(d) == doc[d].status \in {"completed", "chunked"}
Status(d, s) == doc' = [doc EXCEPT ![d].status = s]
KbEdit == kbEdits < KbEdits /\ kbEdits' = kbEdits + 1

\* embed and _ensure_model: a model once loaded stays, whatever is configured later.
Embedder == IF loaded # NoModel THEN loaded ELSE emodel

-----------------------------------------------------------------------------
(* Processing: process_document. *)

\* upload_document, upload_documents_batch: the row, perhaps a link, and a task.
Upload(t, d) ==
    /\ dtask[t].at = "done" /\ doc[d].status = "absent"
    /\ Status(d, "pending")
    /\ link' \in {link} \cup {link \cup {<<k, d>>} : k \in base}
    /\ dtask' = [dtask EXCEPT ![t] = [at |-> "queued", doc |-> d]]
    /\ UNCHANGED <<base, vec, bm, emodel, loaded, linking, removal, rebuild, rstatus,
                   noteVars, kbEdits>>

\* trigger_process_document, trigger_process_all and the startup: a task is queued for
\* a document that was not processed, whether or not another one works on it.
Queue(t, d) ==
    /\ dtask[t].at = "done" /\ doc[d].status = "pending"
    /\ dtask' = [dtask EXCEPT ![t] = [at |-> "queued", doc |-> d]]
    /\ UNCHANGED <<doc, link, base, vec, bm, emodel, loaded, linking, removal, rebuild, rstatus,
                   noteVars, kbEdits>>

Retry(t, d) ==
    /\ dtask[t].at = "done" /\ doc[d].status = "failed" /\ KbEdit
    /\ dtask' = [dtask EXCEPT ![t] = [at |-> "queued", doc |-> d]]
    /\ UNCHANGED <<doc, link, base, vec, bm, emodel, loaded, linking, removal, rebuild, rstatus,
                   noteVars>>

\* One stage of a task ends with a commit; a document that is gone makes it raise.
Stage(t, from, to) ==
    /\ dtask[t].at = from
    /\ dtask' = IF to # "done" /\ Stored(dtask[t].doc) THEN [dtask EXCEPT ![t].at = to]
                                                       ELSE [dtask EXCEPT ![t] = TaskDone]

BeginDocument(t) ==
    /\ Stage(t, "queued", IF doc[dtask[t].doc].status = "completed" THEN "done" ELSE "parsing")
    /\ doc' = IF Stored(dtask[t].doc) /\ doc[dtask[t].doc].status # "completed"
              THEN [doc EXCEPT ![dtask[t].doc].status = "parsing"] ELSE doc
    /\ UNCHANGED loaded

\* Mutant: the pipeline stops after the parser.
ParseOnly(t) ==
    /\ Stage(t, "parsing", "done")
    /\ UNCHANGED <<doc, loaded>>

Parse(t) ==
    /\ Stage(t, "parsing", "chunking")
    /\ doc' = IF Stored(dtask[t].doc) THEN [doc EXCEPT ![dtask[t].doc].status = "chunking"] ELSE doc
    /\ UNCHANGED loaded

\* The chunks are stored before they are embedded.
PersistChunks(t) ==
    /\ Stage(t, "chunking", "chunked")
    /\ doc' = IF Stored(dtask[t].doc)
              THEN [doc EXCEPT ![dtask[t].doc].status = "chunked", ![dtask[t].doc].by = NoModel,
                               ![dtask[t].doc].chunks = TRUE] ELSE doc
    /\ UNCHANGED loaded

StartEmbedding(t) ==
    /\ Stage(t, "chunked", "embedding")
    /\ doc' = IF Stored(dtask[t].doc) THEN [doc EXCEPT ![dtask[t].doc].status = "embedding"] ELSE doc
    /\ UNCHANGED loaded

\* Without a model the document stays chunked.
FinishDocument(t) ==
    /\ Stage(t, "embedding", "done")
    /\ loaded' = Embedder
    /\ doc' = IF ~Stored(dtask[t].doc) THEN doc
              ELSE IF Embedder = NoModel THEN [doc EXCEPT ![dtask[t].doc].status = "chunked"]
              ELSE [doc EXCEPT ![dtask[t].doc].status = "completed", ![dtask[t].doc].by = Embedder]

\* Anything that raises leaves the document failed, with the chunks it has by then.
FailDocument(t) ==
    /\ dtask[t].at \in {"parsing", "chunking", "embedding"}
    /\ dtask' = [dtask EXCEPT ![t] = TaskDone]
    /\ doc' = IF Stored(dtask[t].doc) THEN [doc EXCEPT ![dtask[t].doc].status = "failed"] ELSE doc
    /\ UNCHANGED loaded

ProcessDocument(t) ==
    /\ \/ BeginDocument(t) \/ Parse(t) \/ PersistChunks(t) \/ StartEmbedding(t)
       \/ FinishDocument(t) \/ FailDocument(t)
    /\ UNCHANGED <<link, base, vec, bm, emodel, linking, removal, rebuild, rstatus,
                   noteVars, kbEdits>>

-----------------------------------------------------------------------------
(* Links: add_documents_to_kb. *)

\* The documents a request has put, or is putting, into its knowledge base.
BeingLinked(k, d) == /\ linking.at # "done" /\ linking.kb = k
                     /\ d \in linking.added \/ (linking.at # "next" /\ d = linking.doc)

StartLink(k, D) ==
    /\ linking.at = "done" /\ k \in base /\ D # {} /\ KbEdit
    /\ linking' = [LinkDone EXCEPT !.at = "next", !.kb = k, !.todo = D]
    /\ UNCHANGED <<doc, link, base, vec, bm, emodel, loaded, dtask, removal, rebuild, rstatus,
                   noteVars>>

\* The next document of the list; one without chunks, or linked already, is skipped.
NextLink(d) ==
    /\ linking.at = "next" /\ d \in linking.todo
    /\ linking' = IF Searchable(d) /\ <<linking.kb, d>> \notin link
                  THEN [linking EXCEPT !.at = "pushing", !.doc = d, !.by = doc[d].by,
                                       !.todo = @ \ {d}]
                  ELSE [linking EXCEPT !.todo = @ \ {d}]
    /\ UNCHANGED <<doc, link, base, vec, bm, emodel, loaded, dtask, removal, rebuild, rstatus,
                   noteVars, kbEdits>>

\* add_chunks_cached in the executor: cached embeddings, stamped with the model of today.
PushLinked ==
    LET kd == <<linking.kb, linking.doc>> IN
    /\ linking.at = "pushing"
    /\ vec' = IF linking.by # NoModel /\ vec[kd] = NoVec
              THEN [vec EXCEPT ![kd] = [by |-> linking.by, stamp |-> emodel]] ELSE vec
    /\ linking' = [linking EXCEPT !.at = "pushed"]
    /\ UNCHANGED <<doc, link, base, bm, emodel, loaded, dtask, removal, rebuild, rstatus,
                   noteVars, kbEdits>>

\* Mutant: the index holds the new document only.
RebuildWithLast(k, links) == {d \in Doc : linking.doc = d /\ <<k, d>> \in links /\ Searchable(d)}

\* _rebuild_kb_bm25: every linked document that is completed or chunked now.
RebuildBm25(k, links) == {d \in Doc : <<k, d>> \in links /\ Searchable(d)}

Removes(x, k, d) == removal[x].at = "dropped" /\ removal[x].doc = d /\ k \in removal[x].kbs
BeingRemoved(k, d) == \E x \in Remover : Removes(x, k, d)

OfKb(k) == {k} \X Doc

\* The keyword index is rebuilt from the rows, with the new links that are not committed
\* yet; a failure is ignored. A link whose entries another request has dropped, and
\* which it has not committed, is still there and brings them back: they are noted.
RebuildLinked ==
    LET k == linking.kb
        added == linking.added \cup {linking.doc}
    IN /\ linking.at = "pushed"
       /\ linking' = [linking EXCEPT !.at = "next", !.added = added]
       /\ \/ /\ bm' = [bm EXCEPT ![k] = RebuildBm25(k, link \cup ({k} \X added))]
             /\ strayBm' = (strayBm \ OfKb(k)) \cup {kd \in OfKb(k) : BeingRemoved(k, kd[2])}
          \/ UNCHANGED <<bm, strayBm>>
       /\ UNCHANGED <<doc, link, base, vec, emodel, loaded, dtask, removal, rebuild, rstatus,
                      strayVec, kbCrashes, kbEdits>>

CommitLink ==
    /\ linking.at = "next" /\ linking.todo = {}
    /\ link' = link \cup ({linking.kb} \X linking.added)
    /\ linking' = LinkDone
    /\ UNCHANGED <<doc, base, vec, bm, emodel, loaded, dtask, removal, rebuild, rstatus,
                   noteVars, kbEdits>>

\* The store raises, or the commit does: no document of the list is linked, and what
\* they brought into the indexes stays, which is noted.
BroughtIn == {kd \in Kb \X Doc : BeingLinked(kd[1], kd[2])}

LinkFails ==
    /\ linking.at = "pushing" \/ (linking.at = "next" /\ linking.todo = {} /\ linking.added # {})
    /\ KbEdit
    /\ strayVec' = strayVec \cup BroughtIn
    /\ strayBm' = strayBm \cup BroughtIn
    /\ linking' = LinkDone
    /\ UNCHANGED <<doc, link, base, vec, bm, emodel, loaded, dtask, removal, rebuild, rstatus,
                   kbCrashes>>

-----------------------------------------------------------------------------
(* Removals: remove_document_from_kb, and delete_document with its task *)
(* _purge_document; one at a time for a document.                       *)

StartRemoval(x, d, K, whole) ==
    /\ removal[x].at = "done" /\ KbEdit
    /\ \A y \in Remover : removal[y].at # "done" => removal[y].doc # d
    /\ removal' = [removal EXCEPT ![x] = [at |-> "read", doc |-> d, kbs |-> K, whole |-> whole]]
    /\ UNCHANGED <<doc, link, base, vec, bm, emodel, loaded, dtask, linking, rebuild, rstatus,
                   noteVars>>

\* The link is there.
Unlink(x, k, d) == k \in base /\ <<k, d>> \in link /\ StartRemoval(x, d, {k}, FALSE)

\* The document is there, with these links.
PurgeDocument(x, d) ==
    Stored(d) /\ StartRemoval(x, d, {k \in Kb : <<k, d>> \in link}, TRUE)

PairsOf(x) == removal[x].kbs \X {removal[x].doc}

\* Mutant: the vectors stay.
DropKeywords(x) ==
    /\ removal[x].at = "read"
    /\ removal' = [removal EXCEPT ![x].at = "dropped"]
    /\ bm' = [k \in Kb |-> {d \in bm[k] : <<k, d>> \notin PairsOf(x)}]
    /\ strayBm' = strayBm \ PairsOf(x)
    /\ UNCHANGED <<doc, link, base, vec, emodel, loaded, dtask, linking, rebuild, rstatus,
                   strayVec, kbCrashes, kbEdits>>

\* The vectors V and the keywords B go; a store that raises is ignored, and noted.
DropEntries(x) ==
    /\ removal[x].at = "read"
    /\ removal' = [removal EXCEPT ![x].at = "dropped"]
    /\ \E V, B \in SUBSET PairsOf(x) :
          /\ vec' = [kd \in Kb \X Doc |-> IF kd \in V THEN NoVec ELSE vec[kd]]
          /\ bm' = [k \in Kb |-> {d \in bm[k] : <<k, d>> \notin B}]
          /\ strayVec' = (strayVec \ V) \cup (PairsOf(x) \ V)
          /\ strayBm' = (strayBm \ B) \cup (PairsOf(x) \ B)
          /\ IF V \cap B = PairsOf(x) THEN UNCHANGED kbEdits ELSE KbEdit
    /\ UNCHANGED <<doc, link, base, emodel, loaded, dtask, linking, rebuild, rstatus, kbCrashes>>

Pushes(w, k, d) == rebuild[w].at = "pushing" /\ rebuild[w].doc = d /\ k \in rebuild[w].into
BeingPushed(k, d) == \E w \in Rebuilder : Pushes(w, k, d)

\* The links a removal takes away when it commits.
Unlinked(x) == IF removal[x].whole THEN {kd \in link : kd[2] = removal[x].doc}
                                   ELSE link \cap PairsOf(x)

\* The rows go. A re-index thread that has read one of the links pushes its vectors
\* nevertheless, and the entries of a link made since the links were read stay.
RemoveRows(x) ==
    LET d == removal[x].doc
        since == Unlinked(x) \ PairsOf(x)
    IN /\ removal[x].at = "dropped"
       /\ link' = link \ Unlinked(x)
       /\ doc' = IF removal[x].whole
                 THEN [doc EXCEPT ![d] = [status |-> "deleted", chunks |-> FALSE, by |-> NoModel]]
                 ELSE doc
       /\ strayVec' = strayVec \cup since \cup {kd \in Unlinked(x) : BeingPushed(kd[1], kd[2])}
       /\ strayBm' = strayBm \cup since
       /\ removal' = [removal EXCEPT ![x] = RemovalDone]
       /\ UNCHANGED <<base, vec, bm, emodel, loaded, dtask, linking, rebuild, rstatus,
                      kbCrashes, kbEdits>>

\* Or they do not: the document stays linked, without its entries.
RemovalFails(x) ==
    /\ removal[x].at \in {"read", "dropped"} /\ KbEdit
    /\ removal' = [removal EXCEPT ![x] = RemovalDone]
    /\ UNCHANGED <<doc, link, base, vec, bm, emodel, loaded, dtask, linking, rebuild, rstatus,
                   noteVars>>

\* delete_kb: the collection, the row and its links; not the keyword index.
DeleteKb(k) ==
    /\ k \in base /\ KbEdit
    /\ vec' = [kd \in Kb \X Doc |-> IF kd[1] = k THEN NoVec ELSE vec[kd]]
    /\ link' = {kd \in link : kd[1] # k}
    /\ base' = base \ {k}
    /\ UNCHANGED <<doc, bm, emodel, loaded, dtask, linking, removal, rebuild, rstatus, noteVars>>

-----------------------------------------------------------------------------
(* The embedding model. *)

HasVectors == \E kd \in Kb \X Doc : vec[kd] # NoVec

\* ReindexService.start; only a rebuild that clears says at once that it runs.
StartRebuild(w, clear) ==
    /\ rstatus # "running" /\ rebuild[w].at = "done"
    /\ rebuild' = [rebuild EXCEPT ![w] = [RebuildDone EXCEPT !.at = "started", !.clear = clear]]
    /\ rstatus' = IF clear THEN "running" ELSE rstatus

\* reindex_all_documents; the configured model must be there.
ReindexAll(w) ==
    /\ emodel # NoModel /\ KbEdit
    /\ StartRebuild(w, FALSE)
    /\ UNCHANGED <<doc, link, base, vec, bm, emodel, loaded, dtask, linking, removal, noteVars>>

\* _embedding_conflict: vectors of another model are in the way.
Conflict(m) == \E kd \in Kb \X Doc : vec[kd] # NoVec /\ vec[kd].stamp # m

\* switch_embedding_model: with force, vectors are cleared and made anew by a re-index,
\* unless one runs already; the embedder keeps the model it has loaded.
SwitchModel(m, force) ==
    /\ m # emodel /\ KbEdit
    /\ force \/ ~Conflict(m)
    /\ emodel' = m
    /\ IF force /\ HasVectors /\ rstatus # "running"
       THEN \E w \in Rebuilder : StartRebuild(w, TRUE)
       ELSE UNCHANGED <<rebuild, rstatus>>
    /\ UNCHANGED <<doc, link, base, vec, bm, loaded, dtask, linking, removal, noteVars>>

\* switch_to_none: no model, and no vectors.
SwitchToNone ==
    /\ emodel # NoModel /\ KbEdit
    /\ emodel' = NoModel
    /\ vec' = [kd \in Kb \X Doc |-> NoVec]
    /\ UNCHANGED <<doc, link, base, bm, loaded, taskVars, noteVars>>

\* _worker and the head of _run_reindex: clear, and pick the documents with chunks.
PickDocuments(w) ==
    /\ rebuild[w].at = "started"
    /\ vec' = IF rebuild[w].clear /\ emodel # NoModel THEN [kd \in Kb \X Doc |-> NoVec] ELSE vec
    /\ IF emodel = NoModel
       THEN rebuild' = [rebuild EXCEPT ![w] = RebuildDone] /\ rstatus' = "failed"
       ELSE /\ rebuild' = [rebuild EXCEPT ![w].at = "next", ![w].todo =
                  {d \in Doc : doc[d].status \in {"chunked", "completed", "failed", "embedding"}}]
            /\ rstatus' = "running"
    /\ UNCHANGED <<doc, loaded, strayVec>>

\* _reindex_doc marks the next document; without one the job is over.
MarkDocument(w) ==
    /\ rebuild[w].at = "next"
    /\ IF rebuild[w].todo = {}
       THEN /\ rebuild' = [rebuild EXCEPT ![w] = RebuildDone] /\ rstatus' = "completed"
            /\ UNCHANGED doc
       ELSE \E d \in rebuild[w].todo :
              /\ rebuild' = [rebuild EXCEPT ![w].at = "marked", ![w].doc = d, ![w].todo = @ \ {d}]
              /\ doc' = IF Stored(d) THEN [doc EXCEPT ![d].status = "embedding"] ELSE doc
              /\ UNCHANGED rstatus
    /\ UNCHANGED <<vec, loaded, strayVec>>

\* The chunks are read and embedded; no chunks, nothing to do; an error fails the document.
EmbedDocument(w) ==
    LET d == rebuild[w].doc IN
    /\ rebuild[w].at = "marked"
    /\ \/ /\ ~doc[d].chunks
          /\ doc' = IF Stored(d) THEN [doc EXCEPT ![d].status = "completed"] ELSE doc
          /\ rebuild' = [rebuild EXCEPT ![w].at = "next"] /\ UNCHANGED loaded
       \/ /\ doc[d].chunks /\ Embedder # NoModel
          /\ loaded' = Embedder
          /\ rebuild' = [rebuild EXCEPT ![w].at = "embedded"] /\ UNCHANGED doc
       \/ /\ doc[d].chunks
          /\ doc' = [doc EXCEPT ![d].status = "failed"]
          /\ rebuild' = [rebuild EXCEPT ![w].at = "next"] /\ UNCHANGED loaded
    /\ UNCHANGED <<vec, rstatus, strayVec>>

\* The knowledge bases the document is linked to are read by the thread's own session.
ReadLinks(w) ==
    /\ rebuild[w].at = "embedded"
    /\ rebuild' = [rebuild EXCEPT ![w].at = "pushing",
                                  ![w].into = {k \in Kb : <<k, rebuild[w].doc>> \in link}]
    /\ UNCHANGED <<vec, doc, loaded, rstatus, strayVec>>

\* The vectors go into them; the event loop may have removed some meanwhile, and one
\* whose removal is not committed yet is noted.
PushDocument(w) ==
    LET d == rebuild[w].doc IN
    /\ rebuild[w].at = "pushing"
    /\ vec' = [kd \in Kb \X Doc |-> IF kd[2] = d /\ kd[1] \in rebuild[w].into
                                    THEN [by |-> loaded, stamp |-> emodel] ELSE vec[kd]]
    /\ doc' = IF Stored(d) THEN [doc EXCEPT ![d].status = "completed", ![d].by = loaded] ELSE doc
    /\ strayVec' = strayVec \cup {kd \in rebuild[w].into \X {d} : BeingRemoved(kd[1], d)}
    /\ rebuild' = [rebuild EXCEPT ![w].at = "next", ![w].into = {}]
    /\ UNCHANGED <<loaded, rstatus>>

Reindex(w) ==
    /\ \/ PickDocuments(w) \/ MarkDocument(w) \/ EmbedDocument(w)
       \/ ReadLinks(w) \/ PushDocument(w)
    /\ UNCHANGED <<link, base, bm, emodel, dtask, linking, removal, strayBm, kbCrashes, kbEdits>>

-----------------------------------------------------------------------------

\* The process dies; at the next start the keyword indexes are built from the rows. The
\* vectors of a link that was not committed stay.
KbRestart ==
    /\ kbCrashes < KbCrashes /\ kbCrashes' = kbCrashes + 1 /\ KbEdit
    /\ dtask' = [t \in DocTask |-> TaskDone]
    /\ linking' = LinkDone
    /\ removal' = [x \in Remover |-> RemovalDone]
    /\ rebuild' = [w \in Rebuilder |-> RebuildDone]
    /\ rstatus' = "idle" /\ loaded' = NoModel
    /\ bm' = [k \in Kb |-> RebuildBm25(k, link)]
    /\ strayVec' = strayVec \cup BroughtIn /\ strayBm' = {}
    /\ UNCHANGED <<doc, link, base, vec, emodel>>

OnDocument(d) == \/ \E t \in DocTask : Upload(t, d) \/ Queue(t, d) \/ Retry(t, d)
                 \/ \E x \in Remover : PurgeDocument(x, d) \/ \E k \in Kb : Unlink(x, k, d)
Link == \/ \E k \in Kb, D \in SUBSET Doc : StartLink(k, D)
        \/ (\E d \in Doc : NextLink(d)) \/ PushLinked \/ RebuildLinked \/ CommitLink \/ LinkFails
Removal(x) == DropEntries(x) \/ RemoveRows(x) \/ RemovalFails(x)
OnModel == \/ SwitchToNone \/ \E w \in Rebuilder : ReindexAll(w)
           \/ \E m \in EModel, force \in BOOLEAN : SwitchModel(m, force)

KbNext == \/ \E d \in Doc : OnDocument(d)
          \/ \E k \in Kb : DeleteKb(k)
          \/ OnModel \/ Link \/ (\E x \in Remover : Removal(x)) \/ KbRestart
          \/ \E t \in DocTask : ProcessDocument(t)
          \/ \E w \in Rebuilder : Reindex(w)

KbSpec == KbInit /\ [][KbNext]_kbVars

\* The event loop runs its tasks, the thread goes on, and pending documents are queued.
KbFairness == /\ \A t \in DocTask : WF_kbVars(ProcessDocument(t))
              /\ \A w \in Rebuilder : WF_kbVars(Reindex(w))
              /\ \A d \in Doc : SF_kbVars(\E t \in DocTask : Queue(t, d))

KbFairSpec == KbSpec /\ KbFairness

-----------------------------------------------------------------------------

DocStatus == {"absent", "pending", "parsing", "chunking", "chunked", "embedding", "completed",
              "failed", "deleted"}
DocRow == [status : DocStatus, chunks : BOOLEAN, by : EModel \cup {NoModel}]
Vector == [by : EModel \cup {NoModel}, stamp : EModel \cup {NoModel}]
TaskRow == [at : {"done", "queued", "parsing", "chunking", "chunked", "embedding"}, doc : Doc]
LinkRow == [at : {"done", "next", "pushing", "pushed"}, kb : Kb, doc : Doc,
            by : EModel \cup {NoModel}, todo : SUBSET Doc, added : SUBSET Doc]
RemovalRow == [at : {"done", "read", "dropped"}, doc : Doc, kbs : SUBSET Kb, whole : BOOLEAN]
RebuildPlace == {"done", "started", "next", "marked", "embedded", "pushing"}
RebuildRow == [at : RebuildPlace, clear : BOOLEAN, todo : SUBSET Doc, doc : Doc, into : SUBSET Kb]

KbTypeOK ==
    /\ doc \in [Doc -> DocRow]
    /\ link \subseteq Kb \X Doc /\ base \subseteq Kb
    /\ vec \in [Kb \X Doc -> Vector] /\ bm \in [Kb -> SUBSET Doc]
    /\ emodel \in EModel \cup {NoModel} /\ loaded \in EModel \cup {NoModel}
    /\ dtask \in [DocTask -> TaskRow] /\ linking \in LinkRow
    /\ removal \in [Remover -> RemovalRow]
    /\ rebuild \in [Rebuilder -> RebuildRow]
    /\ rstatus \in {"idle", "running", "completed", "failed"}
    /\ strayVec \subseteq Kb \X Doc /\ strayBm \subseteq Kb \X Doc
    /\ kbCrashes \in 0..KbCrashes /\ kbEdits \in 0..KbEdits

\* Nothing of a document that is gone or not in a knowledge base can be retrieved from
\* there, in any interleaving, unless a failure left it (of a request that links, or
\* of a store that drops) or it was put there while it was being removed, by a
\* re-index thread or a rebuild of the index for another document.
RetrievedIsLinked ==
    \A k \in base, d \in Doc :
        \/ <<k, d>> \in link
        \/ BeingLinked(k, d)
        \/ /\ vec[<<k, d>>] = NoVec \/ <<k, d>> \in strayVec
           /\ d \notin bm[k] \/ <<k, d>> \in strayBm

\* A linked document leaves the keyword index of its knowledge base only while it is
\* removed from the base, or because its status at a rebuild says that it is worked on.
KeywordsKept ==
    [][\A k \in Kb, d \in Doc :
          d \in bm[k] \ bm'[k] =>
              \/ <<k, d>> \notin link \/ ~Searchable(d)
              \/ \E x \in Remover : /\ removal[x].at = "read" /\ <<k, d>> \in PairsOf(x)
                                   /\ removal'[x].at = "dropped"]_kbVars

\* A vector is stamped with the model that made it.
StampIsTrue == \A kd \in Kb \X Doc : vec[kd].by = vec[kd].stamp

BeingWorkedOn == {"pending", "parsing", "chunking", "embedding"}

\* A document that was uploaded or queued comes to a result; a death of the process may
\* leave one in the middle, but a pending one is taken up at the next start.
UploadsSettle ==
    \A d \in Doc : doc[d].status \in BeingWorkedOn
                     ~> \/ doc[d].status \notin BeingWorkedOn
                        \/ kbCrashes > 0 /\ doc[d].status # "pending"
=============================================================================
