--------------------------- MODULE Recall_proofs ---------------------------
(***************************************************************************)
(* What the model is given to remember. Retrieved passages: what is found  *)
(* in a knowledge base belongs to it, for any number of documents,         *)
(* knowledge bases, models, tasks and re-index threads. The rolling        *)
(* summary: a pass never turns it back; and nothing is lost and nothing    *)
(* folded twice, for any number of rounds and any watermarks, with passes, *)
(* the button, edits, failures and restarts anywhere, until the row is     *)
(* written from a copy that a fold has passed.                             *)
(***************************************************************************)
EXTENDS Knowledge, SummaryFold, QueueFacts

-----------------------------------------------------------------------------
(* KNOWLEDGE: types. *)

\* Idle tasks, links, removals and threads have their types.
LEMMA IdleTypes ==
    /\ TaskDone \in TaskRow /\ LinkDone \in LinkRow /\ RemovalDone \in RemovalRow
    /\ RebuildDone \in RebuildRow /\ NoVec \in Vector
    BY KbBounds DEF AnyDoc, AnyKb, TaskDone, LinkDone, RemovalDone, RebuildDone, NoVec, TaskRow,
       LinkRow, RemovalRow, RebuildRow, RebuildPlace, Vector

\* The status of a document is its status.
LEMMA StatusTypes ==
    ASSUME doc \in [Doc -> DocRow], NEW d \in Doc, NEW status \in DocStatus
    PROVE  [doc EXCEPT ![d].status = status] \in [Doc -> DocRow]
    BY DEF DocRow

\* Its row with another status and another model.
LEMMA ModelledTypes ==
    ASSUME doc \in [Doc -> DocRow], NEW d \in Doc, NEW status \in DocStatus,
           NEW by \in EModel \cup {NoModel}
    PROVE  [doc EXCEPT ![d].status = status, ![d].by = by] \in [Doc -> DocRow]
    BY DEF DocRow

\* And with other chunks.
LEMMA ChunkedTypes ==
    ASSUME doc \in [Doc -> DocRow], NEW d \in Doc, NEW status \in DocStatus,
           NEW by \in EModel \cup {NoModel}
    PROVE  [doc EXCEPT ![d].status = status, ![d].by = by, ![d].chunks = TRUE] \in [Doc -> DocRow]
    BY DEF DocRow

\* A thread that goes to another place.
LEMMA ThreadTypes ==
    ASSUME rebuild \in [Rebuilder -> RebuildRow], NEW w \in Rebuilder, NEW at \in RebuildPlace
    PROVE  [rebuild EXCEPT ![w].at = at] \in [Rebuilder -> RebuildRow]
    BY DEF RebuildRow

\* One that ends.
LEMMA EndedTypes ==
    ASSUME rebuild \in [Rebuilder -> RebuildRow], NEW w \in Rebuilder
    PROVE  [rebuild EXCEPT ![w] = RebuildDone] \in [Rebuilder -> RebuildRow]
    BY IdleTypes

\* One that takes along what there is to do.
LEMMA TodoTypes ==
    ASSUME rebuild \in [Rebuilder -> RebuildRow], NEW w \in Rebuilder, NEW at \in RebuildPlace,
           NEW todo \in SUBSET Doc
    PROVE  /\ [rebuild EXCEPT ![w].at = at, ![w].todo = todo] \in [Rebuilder -> RebuildRow]
           /\ \A d \in Doc : [rebuild EXCEPT ![w].at = at, ![w].doc = d, ![w].todo = todo]
                                \in [Rebuilder -> RebuildRow]
    BY DEF RebuildRow

\* One that takes along the knowledge bases to push to.
LEMMA IntoTypes ==
    ASSUME rebuild \in [Rebuilder -> RebuildRow], NEW w \in Rebuilder, NEW at \in RebuildPlace,
           NEW into \in SUBSET Kb
    PROVE  [rebuild EXCEPT ![w].at = at, ![w].into = into] \in [Rebuilder -> RebuildRow]
    BY DEF RebuildRow

\* A stage of a task moves the task, or ends it.
LEMMA StageTypes ==
    ASSUME dtask \in [DocTask -> TaskRow], NEW t \in DocTask, NEW from,
           NEW to \in {"done", "parsing", "chunking", "chunked", "embedding"}, Stage(t, from, to)
    PROVE  dtask' \in [DocTask -> TaskRow]
    <1>1. /\ [dtask EXCEPT ![t].at = to] \in [DocTask -> TaskRow]
          /\ [dtask EXCEPT ![t] = TaskDone] \in [DocTask -> TaskRow]
        BY IdleTypes DEF TaskRow
    <1> QED BY <1>1 DEF Stage

\* What a task does with its document keeps the types.
LEMMA ProcessTypes ==
    ASSUME KbTypeOK, NEW t \in DocTask, ProcessDocument(t)
    PROVE  KbTypeOK'
    <1>1. dtask[t].doc \in Doc /\ doc \in [Doc -> DocRow] /\ dtask \in [DocTask -> TaskRow]
        BY DEF KbTypeOK, TaskRow
    <1>2. Embedder \in EModel \cup {NoModel} /\ loaded \in EModel \cup {NoModel}
        BY DEF KbTypeOK, Embedder
    <1>3. ASSUME doc' \in [Doc -> DocRow], dtask' \in [DocTask -> TaskRow],
                 loaded' \in EModel \cup {NoModel}
          PROVE  KbTypeOK'
        BY <1>3 DEF KbTypeOK, ProcessDocument, noteVars
    <1>4. CASE BeginDocument(t)
        <2>1. dtask' \in [DocTask -> TaskRow]
            BY <1>1, <1>4, StageTypes DEF BeginDocument
        <2>2. doc' \in [Doc -> DocRow]
            BY <1>1, <1>4, StatusTypes DEF BeginDocument, DocStatus
        <2> QED BY <1>2, <1>3, <1>4, <2>1, <2>2 DEF BeginDocument
    <1>5. CASE Parse(t)
        <2>1. dtask' \in [DocTask -> TaskRow]
            BY <1>1, <1>5, StageTypes DEF Parse
        <2>2. doc' \in [Doc -> DocRow]
            BY <1>1, <1>5, StatusTypes DEF Parse, DocStatus
        <2> QED BY <1>2, <1>3, <1>5, <2>1, <2>2 DEF Parse
    <1>6. CASE PersistChunks(t)
        <2>1. dtask' \in [DocTask -> TaskRow]
            BY <1>1, <1>6, StageTypes DEF PersistChunks
        <2>2. doc' \in [Doc -> DocRow]
            BY <1>1, <1>6, ChunkedTypes DEF PersistChunks, DocStatus
        <2> QED BY <1>2, <1>3, <1>6, <2>1, <2>2 DEF PersistChunks
    <1>7. CASE StartEmbedding(t)
        <2>1. dtask' \in [DocTask -> TaskRow]
            BY <1>1, <1>7, StageTypes DEF StartEmbedding
        <2>2. doc' \in [Doc -> DocRow]
            BY <1>1, <1>7, StatusTypes DEF StartEmbedding, DocStatus
        <2> QED BY <1>2, <1>3, <1>7, <2>1, <2>2 DEF StartEmbedding
    <1>8. CASE FinishDocument(t)
        <2>1. dtask' \in [DocTask -> TaskRow]
            BY <1>1, <1>8, StageTypes DEF FinishDocument
        <2>2. doc' \in [Doc -> DocRow]
            BY <1>1, <1>2, <1>8, StatusTypes, ModelledTypes DEF FinishDocument, DocStatus
        <2> QED BY <1>2, <1>3, <1>8, <2>1, <2>2 DEF FinishDocument
    <1>9. CASE FailDocument(t)
        <2>1. dtask' \in [DocTask -> TaskRow]
            BY <1>1, <1>9, IdleTypes DEF FailDocument
        <2>2. doc' \in [Doc -> DocRow]
            BY <1>1, <1>9, StatusTypes DEF FailDocument, DocStatus
        <2> QED BY <1>2, <1>3, <1>9, <2>1, <2>2 DEF FailDocument
    <1> QED BY <1>4, <1>5, <1>6, <1>7, <1>8, <1>9 DEF ProcessDocument

\* So does every step of a re-index thread.
LEMMA ReindexTypes ==
    ASSUME KbTypeOK, NEW w \in Rebuilder, Reindex(w)
    PROVE  KbTypeOK'
    <1>1. /\ rebuild \in [Rebuilder -> RebuildRow] /\ doc \in [Doc -> DocRow]
          /\ vec \in [Kb \X Doc -> Vector]
          /\ rebuild[w].doc \in Doc /\ rebuild[w].todo \subseteq Doc
        BY DEF KbTypeOK, RebuildRow
    <1>2. Embedder \in EModel \cup {NoModel} /\ {loaded, emodel} \subseteq EModel \cup {NoModel}
        BY DEF KbTypeOK, Embedder
    <1>3. ASSUME doc' \in [Doc -> DocRow], rebuild' \in [Rebuilder -> RebuildRow],
                 vec' \in [Kb \X Doc -> Vector],
                 loaded' \in EModel \cup {NoModel},
                 rstatus' \in {"idle", "running", "completed", "failed"},
                 strayVec' \subseteq Kb \X Doc
          PROVE  KbTypeOK'
        BY <1>3 DEF KbTypeOK, Reindex
    <1>4. rstatus \in {"idle", "running", "completed", "failed"} /\ strayVec \subseteq Kb \X Doc
        BY DEF KbTypeOK
    <1>5. CASE PickDocuments(w)
        <2>1. rebuild' \in [Rebuilder -> RebuildRow]
            <3> DEFINE picked ==
                {d \in Doc : doc[d].status \in {"chunked", "completed", "failed", "embedding"}}
            <3>1. picked \in SUBSET Doc
                OBVIOUS
            <3>2. \/ rebuild' = [rebuild EXCEPT ![w] = RebuildDone]
                  \/ rebuild' = [rebuild EXCEPT ![w].at = "next", ![w].todo = picked]
                BY <1>5 DEF PickDocuments
            <3>3. "next" \in RebuildPlace
                BY DEF RebuildPlace
            <3> HIDE DEF picked
            <3>4. [rebuild EXCEPT ![w].at = "next", ![w].todo = picked]
                      \in [Rebuilder -> RebuildRow]
                BY <1>1, <3>1, <3>3, TodoTypes
            <3> QED BY <1>1, <3>2, <3>4, EndedTypes
        <2>2. vec' \in [Kb \X Doc -> Vector]
            BY <1>1, <1>5, IdleTypes DEF PickDocuments
        <2> QED BY <1>1, <1>2, <1>3, <1>4, <1>5, <2>1, <2>2 DEF PickDocuments
    <1>6. CASE MarkDocument(w)
        <2>1. CASE rebuild[w].todo = {}
            BY <1>1, <1>2, <1>3, <1>4, <1>6, <2>1, EndedTypes DEF MarkDocument
        <2>2. ASSUME NEW d \in rebuild[w].todo,
                     rebuild' = [rebuild EXCEPT ![w].at = "marked", ![w].doc = d, ![w].todo = @ \ {d}],
                     doc' = IF Stored(d) THEN [doc EXCEPT ![d].status = "embedding"] ELSE doc,
                     UNCHANGED <<rstatus, vec, loaded, strayVec>>
              PROVE  KbTypeOK'
            <3>1. d \in Doc /\ rebuild[w].todo \ {d} \in SUBSET Doc
                BY <1>1
            <3>2. rebuild' = [rebuild EXCEPT ![w].at = "marked", ![w].doc = d,
                                             ![w].todo = rebuild[w].todo \ {d}]
                BY <1>1, <2>2 DEF RebuildRow
            <3>3. rebuild' \in [Rebuilder -> RebuildRow]
                BY <1>1, <3>1, <3>2, TodoTypes DEF RebuildPlace
            <3>4. doc' \in [Doc -> DocRow]
                BY <1>1, <2>2, <3>1, StatusTypes DEF DocStatus
            <3> QED BY <1>1, <1>2, <1>3, <1>4, <2>2, <3>3, <3>4
        <2> QED BY <1>6, <2>1, <2>2 DEF MarkDocument
    <1>7. CASE EmbedDocument(w)
        <2>1. rebuild' \in [Rebuilder -> RebuildRow]
            <3>1. \/ rebuild' = [rebuild EXCEPT ![w].at = "next"]
                  \/ rebuild' = [rebuild EXCEPT ![w].at = "embedded"]
                BY <1>7 DEF EmbedDocument
            <3> QED BY <1>1, <3>1, ThreadTypes DEF RebuildPlace
        <2>2. doc' \in [Doc -> DocRow]
            <3>1. \/ doc' = doc
                  \/ doc' = [doc EXCEPT ![rebuild[w].doc].status = "completed"]
                  \/ doc' = [doc EXCEPT ![rebuild[w].doc].status = "failed"]
                BY <1>7 DEF EmbedDocument
            <3>2. "completed" \in DocStatus /\ "failed" \in DocStatus
                BY DEF DocStatus
            <3> QED BY <1>1, <3>1, <3>2, StatusTypes
        <2> QED BY <1>1, <1>2, <1>3, <1>4, <1>7, <2>1, <2>2 DEF EmbedDocument
    <1>8. CASE ReadLinks(w)
        <2>1. rebuild' \in [Rebuilder -> RebuildRow]
            <3>1. {k \in Kb : <<k, rebuild[w].doc>> \in link} \in SUBSET Kb
                OBVIOUS
            <3> QED BY <1>1, <1>8, <3>1, IntoTypes DEF ReadLinks, RebuildPlace
        <2> QED BY <1>1, <1>2, <1>3, <1>4, <1>8, <2>1 DEF ReadLinks
    <1>9. CASE PushDocument(w)
        <2>1. rebuild' \in [Rebuilder -> RebuildRow]
            BY <1>1, <1>9, IntoTypes DEF PushDocument, RebuildPlace
        <2>2. doc' \in [Doc -> DocRow]
            BY <1>1, <1>2, <1>9, StatusTypes, ModelledTypes DEF PushDocument, DocStatus
        <2>3. vec' \in [Kb \X Doc -> Vector]
            BY <1>1, <1>2, <1>9 DEF PushDocument, Vector
        <2>4. strayVec' \subseteq Kb \X Doc
            BY <1>1, <1>4, <1>9 DEF PushDocument, KbTypeOK, RebuildRow
        <2> QED BY <1>2, <1>3, <1>4, <1>9, <2>1, <2>2, <2>3, <2>4 DEF PushDocument
    <1> QED BY <1>5, <1>6, <1>7, <1>8, <1>9 DEF Reindex

\* The pairs of a removal, and of a request that links, are pairs.
LEMMA PairTypes ==
    ASSUME KbTypeOK
    PROVE  /\ \A x \in Remover : PairsOf(x) \subseteq Kb \X Doc /\ Unlinked(x) \subseteq link
           /\ BroughtIn \subseteq Kb \X Doc
    BY DEF KbTypeOK, RemovalRow, PairsOf, Unlinked, BroughtIn

\* An edit is counted.
LEMMA EditTypes ==
    ASSUME KbTypeOK, KbEdit
    PROVE  kbEdits' \in 0..KbEdits
    BY KbBounds DEF KbTypeOK, KbEdit

\* And every request about one document.
LEMMA DocumentTypes ==
    ASSUME KbTypeOK, NEW d \in Doc, OnDocument(d)
    PROVE  KbTypeOK'
    <1>1. /\ doc \in [Doc -> DocRow] /\ dtask \in [DocTask -> TaskRow]
          /\ removal \in [Remover -> RemovalRow]
        BY DEF KbTypeOK
    <1>2. ASSUME NEW t \in DocTask
          PROVE  [dtask EXCEPT ![t] = [at |-> "queued", doc |-> d]] \in [DocTask -> TaskRow]
        BY <1>1 DEF TaskRow
    <1>3. ASSUME NEW t \in DocTask, Upload(t, d) PROVE KbTypeOK'
        <2>1. doc' \in [Doc -> DocRow]
            BY <1>1, <1>3, StatusTypes DEF Upload, Status, DocStatus
        <2>2. dtask' \in [DocTask -> TaskRow]
            BY <1>2, <1>3 DEF Upload
        <2>3. link' \subseteq Kb \X Doc
            BY <1>3 DEF KbTypeOK, Upload
        <2> QED BY <1>3, <2>1, <2>2, <2>3 DEF KbTypeOK, Upload, noteVars
    <1>4. ASSUME NEW t \in DocTask, Queue(t, d) \/ Retry(t, d) PROVE KbTypeOK'
        BY <1>2, <1>4, EditTypes DEF KbTypeOK, Queue, Retry, noteVars
    <1>5. ASSUME NEW x \in Remover, NEW K \in SUBSET Kb, NEW whole \in BOOLEAN,
                 StartRemoval(x, d, K, whole)
          PROVE  KbTypeOK'
        <2>1. removal' \in [Remover -> RemovalRow]
            BY <1>1, <1>5 DEF StartRemoval, RemovalRow
        <2> QED BY <1>5, <2>1, EditTypes DEF KbTypeOK, StartRemoval, noteVars
    <1>6. ASSUME NEW x \in Remover, PurgeDocument(x, d) PROVE KbTypeOK'
        <2>1. {k \in Kb : <<k, d>> \in link} \in SUBSET Kb
            OBVIOUS
        <2> QED BY <1>5, <1>6, <2>1 DEF PurgeDocument
    <1>7. ASSUME NEW x \in Remover, NEW k \in Kb, Unlink(x, k, d) PROVE KbTypeOK'
        <2>1. {k} \in SUBSET Kb
            OBVIOUS
        <2> QED BY <1>5, <1>7, <2>1 DEF Unlink
    <1> QED BY <1>3, <1>4, <1>6, <1>7 DEF OnDocument

\* And every step of a request that links.
LEMMA LinkTypes ==
    ASSUME KbTypeOK, Link
    PROVE  KbTypeOK'
    <1>1. linking \in LinkRow /\ linking.kb \in Kb /\ linking.doc \in Doc /\ linking.added \subseteq Doc
        BY DEF KbTypeOK, LinkRow
    <1>2. ASSUME NEW k \in Kb, NEW D \in SUBSET Doc, StartLink(k, D) PROVE KbTypeOK'
        <2>1. linking' \in LinkRow
            BY <1>2, IdleTypes DEF StartLink, LinkRow
        <2> QED BY <1>2, <2>1, EditTypes DEF KbTypeOK, StartLink, noteVars
    <1>3. ASSUME NEW d \in Doc, NextLink(d) PROVE KbTypeOK'
        <2>1. doc[d].by \in EModel \cup {NoModel}
            BY DEF KbTypeOK, DocRow
        <2>2. linking' \in LinkRow
            BY <1>1, <1>3, <2>1 DEF NextLink, LinkRow
        <2> QED BY <1>3, <2>2 DEF KbTypeOK, NextLink, noteVars
    <1>4. CASE PushLinked
        <2>1. vec' \in [Kb \X Doc -> Vector] /\ linking' \in LinkRow
            BY <1>4 DEF KbTypeOK, PushLinked, Vector, LinkRow
        <2> QED BY <1>4, <2>1 DEF KbTypeOK, PushLinked, noteVars
    <1>5. CASE RebuildLinked
        <2>1. linking' \in LinkRow
            BY <1>1, <1>5 DEF RebuildLinked, LinkRow
        <2>2. bm' \in [Kb -> SUBSET Doc] /\ strayBm' \subseteq Kb \X Doc
            BY <1>1, <1>5 DEF KbTypeOK, RebuildLinked, RebuildBm25, OfKb
        <2> QED BY <1>5, <2>1, <2>2 DEF KbTypeOK, RebuildLinked
    <1>6. CASE CommitLink
        BY <1>1, <1>6, IdleTypes DEF KbTypeOK, CommitLink, noteVars
    <1>7. CASE LinkFails
        BY <1>7, IdleTypes, EditTypes, PairTypes DEF KbTypeOK, LinkFails
    <1> QED BY <1>2, <1>3, <1>4, <1>5, <1>6, <1>7 DEF Link

\* And every step of a removal.
LEMMA RemoveTypes ==
    ASSUME KbTypeOK, NEW x \in Remover, Removal(x)
    PROVE  KbTypeOK'
    <1>1. CASE DropEntries(x)
        <2>1. PICK V \in SUBSET PairsOf(x), B \in SUBSET PairsOf(x) :
                 /\ vec' = [kd \in Kb \X Doc |-> IF kd \in V THEN NoVec ELSE vec[kd]]
                 /\ bm' = [k \in Kb |-> {d \in bm[k] : <<k, d>> \notin B}]
                 /\ strayVec' = (strayVec \ V) \cup (PairsOf(x) \ V)
                 /\ strayBm' = (strayBm \ B) \cup (PairsOf(x) \ B)
                 /\ UNCHANGED kbEdits \/ KbEdit
            BY <1>1 DEF DropEntries
        <2>2. vec' \in [Kb \X Doc -> Vector] /\ bm' \in [Kb -> SUBSET Doc]
            BY <2>1, IdleTypes DEF KbTypeOK
        <2>3. strayVec' \subseteq Kb \X Doc /\ strayBm' \subseteq Kb \X Doc
            BY <2>1, PairTypes DEF KbTypeOK
        <2>4. removal' \in [Remover -> RemovalRow]
            <3>1. removal \in [Remover -> RemovalRow] /\ removal' = [removal EXCEPT ![x].at = "dropped"]
                BY <1>1 DEF KbTypeOK, DropEntries
            <3> QED BY <3>1 DEF RemovalRow
        <2>5. kbEdits' \in 0..KbEdits
            BY <2>1, EditTypes DEF KbTypeOK
        <2> QED BY <1>1, <2>2, <2>3, <2>4, <2>5 DEF KbTypeOK, DropEntries
    <1>2. CASE RemoveRows(x)
        <2>1. doc' \in [Doc -> DocRow]
            BY <1>2 DEF KbTypeOK, RemoveRows, DocRow, DocStatus, RemovalRow
        <2>2. strayVec' \subseteq Kb \X Doc /\ strayBm' \subseteq Kb \X Doc
            BY <1>2, PairTypes DEF KbTypeOK, RemoveRows
        <2> QED BY <1>2, <2>1, <2>2, IdleTypes DEF KbTypeOK, RemoveRows
    <1>3. CASE RemovalFails(x)
        BY <1>3, IdleTypes, EditTypes DEF KbTypeOK, RemovalFails, noteVars
    <1> QED BY <1>1, <1>2, <1>3 DEF Removal

\* And every change of the model.
LEMMA ModelTypes ==
    ASSUME KbTypeOK, OnModel
    PROVE  KbTypeOK'
    <1>1. ASSUME NEW w \in Rebuilder, NEW clear \in BOOLEAN, StartRebuild(w, clear)
          PROVE  /\ rstatus' \in {"idle", "running", "completed", "failed"}
                 /\ rebuild' \in [Rebuilder -> RebuildRow]
        <2>1. [RebuildDone EXCEPT !.at = "started", !.clear = clear] \in RebuildRow
            BY IdleTypes DEF RebuildRow, RebuildPlace
        <2> QED BY <1>1, <2>1 DEF KbTypeOK, StartRebuild
    <1>2. KbEdit => kbEdits' \in 0..KbEdits
        BY EditTypes
    <1>3. CASE SwitchToNone
        BY <1>2, <1>3, IdleTypes DEF KbTypeOK, SwitchToNone, taskVars, noteVars
    <1>4. ASSUME NEW w \in Rebuilder, ReindexAll(w) PROVE KbTypeOK'
        BY <1>1, <1>2, <1>4 DEF KbTypeOK, ReindexAll, noteVars
    <1>5. ASSUME NEW m \in EModel, NEW force \in BOOLEAN, SwitchModel(m, force) PROVE KbTypeOK'
        <2>1. CASE UNCHANGED <<rebuild, rstatus>>
            BY <1>2, <1>5, <2>1 DEF KbTypeOK, SwitchModel, noteVars
        <2>2. ASSUME NEW w \in Rebuilder, StartRebuild(w, TRUE) PROVE KbTypeOK'
            BY <1>1, <1>2, <1>5, <2>2 DEF KbTypeOK, SwitchModel, noteVars
        <2> QED BY <1>5, <2>1, <2>2 DEF SwitchModel
    <1> QED BY <1>3, <1>4, <1>5 DEF OnModel

\* Every variable keeps its type, whatever tasks, threads and requests do in between.
THEOREM KbTypeCorrect == KbSpec => []KbTypeOK
    <1>1. KbInit => KbTypeOK
        BY IdleTypes, KbBounds DEF KbInit, KbTypeOK, DocRow, DocStatus
    <1>2. KbTypeOK /\ [KbNext]_kbVars => KbTypeOK'
        <2> SUFFICES ASSUME KbTypeOK, [KbNext]_kbVars PROVE KbTypeOK'
            OBVIOUS
        <2>1. ASSUME NEW k \in Kb, DeleteKb(k) PROVE KbTypeOK'
            BY <2>1, IdleTypes, EditTypes DEF KbTypeOK, DeleteKb, noteVars
        <2>2. CASE KbRestart
            <3>1. bm' \in [Kb -> SUBSET Doc]
                BY <2>2 DEF KbRestart, RebuildBm25
            <3> QED BY <2>2, <3>1, IdleTypes, EditTypes, PairTypes, KbBounds DEF KbTypeOK, KbRestart
        <2>3. CASE UNCHANGED kbVars
            BY <2>3 DEF KbTypeOK, kbVars
        <2> QED BY <2>1, <2>2, <2>3, DocumentTypes, LinkTypes, RemoveTypes, ModelTypes,
                ProcessTypes,
                ReindexTypes DEF KbNext
    <1> QED BY <1>1, <1>2, PTL DEF KbSpec

-----------------------------------------------------------------------------
(* KNOWLEDGE: what is retrieved. *)

\* Nothing of a document is in the indexes of a knowledge base, but what is noted.
Out(k, d) == /\ vec[<<k, d>>] = NoVec \/ <<k, d>> \in strayVec
             /\ d \notin bm[k] \/ <<k, d>> \in strayBm

\* A thread that is about to push has read links that are still there, or it is noted.
LinksReadHold ==
    \A w \in Rebuilder : rebuild[w].at = "pushing" =>
        \A k \in base \cap rebuild[w].into :
            <<k, rebuild[w].doc>> \in link \/ <<k, rebuild[w].doc>> \in strayVec

\* What a removal has dropped is out.
DroppedIsOut ==
    \A x \in Remover : removal[x].at = "dropped" =>
        \A k \in base \cap removal[x].kbs : Out(k, removal[x].doc)

\* What is being linked is a document, and not linked yet.
LinkedIsNew ==
    \A k \in base, d \in Doc : BeingLinked(k, d) => <<k, d>> \notin link /\ doc[d].status # "absent"

\* What is being removed is still linked.
RemovedIsLinked ==
    \A x \in Remover : removal[x].at # "done" =>
        \A k \in base \cap removal[x].kbs : <<k, removal[x].doc>> \in link

\* Removals are of different documents.
OneRemoval ==
    \A x, y \in Remover : removal[x].at # "done" /\ removal[y].at # "done" /\ x # y
                            => removal[x].doc # removal[y].doc

RetrievalInv == /\ RetrievedIsLinked /\ LinksReadHold
                /\ DroppedIsOut /\ LinkedIsNew /\ RemovedIsLinked /\ OneRemoval

\* A step that brings nothing into the indexes, leaves links, requests and removals alone
\* and starts no push keeps to the links.
LEMMA NothingIsAdded ==
    ASSUME KbTypeOK, RetrievalInv, base' \subseteq base, strayVec \subseteq strayVec',
           UNCHANGED <<link, linking, removal, strayBm>>,
           \A d \in Doc : doc'[d].status = "absent" => doc[d].status = "absent",
           \A k \in base, d \in Doc : /\ vec[<<k, d>>] = NoVec => vec'[<<k, d>>] = NoVec
                                      /\ d \in bm'[k] => d \in bm[k],
           \A w \in Rebuilder : rebuild'[w].at = "pushing" => rebuild'[w] = rebuild[w]
    PROVE  RetrievalInv'
    <1>1. \A k \in base, d \in Doc : /\ Out(k, d) => Out(k, d)'
                                     /\ BeingLinked(k, d)' <=> BeingLinked(k, d)
        BY DEF Out, BeingLinked
    <1>2. RetrievedIsLinked'
        BY <1>1 DEF RetrievalInv, RetrievedIsLinked, Out
    <1>3. LinksReadHold'
        BY DEF RetrievalInv, LinksReadHold
    <1>4. DroppedIsOut'
        BY <1>1 DEF RetrievalInv, DroppedIsOut, KbTypeOK, RemovalRow
    <1>5. LinkedIsNew'
        BY <1>1 DEF RetrievalInv, LinkedIsNew
    <1>6. RemovedIsLinked' /\ OneRemoval'
        BY DEF RetrievalInv, RemovedIsLinked, OneRemoval
    <1> QED BY <1>2, <1>3, <1>4, <1>5, <1>6 DEF RetrievalInv

\* Requests about a document: only an upload links it, and then nothing else does.
LEMMA DocumentRetrieval ==
    ASSUME KbTypeOK, RetrievalInv, NEW d \in Doc, OnDocument(d)
    PROVE  RetrievalInv'
    <1>1. doc \in [Doc -> DocRow] /\ removal \in [Remover -> RemovalRow]
        BY DEF KbTypeOK
    <1>2. ASSUME NEW t \in DocTask, Upload(t, d) PROVE RetrievalInv'
        <2>1. /\ UNCHANGED <<base, vec, bm, linking, removal, rebuild, strayVec, strayBm>>
              /\ doc[d].status = "absent" /\ doc' = [doc EXCEPT ![d].status = "pending"]
            BY <1>2 DEF Upload, Status, noteVars
        <2>2. link \subseteq link' /\ \A k \in Kb, c \in Doc : <<k, c>> \in link' \ link => c = d
            BY <1>2 DEF Upload
        <2>3. \A k \in Kb, c \in Doc : /\ Out(k, c)' <=> Out(k, c)
                                       /\ BeingLinked(k, c)' <=> BeingLinked(k, c)
            BY <2>1 DEF Out, BeingLinked
        <2>4. base \subseteq Kb /\ \A c \in Doc : doc'[c].status = "absent" => doc[c].status = "absent"
            BY <1>1, <2>1 DEF KbTypeOK, DocRow
        <2>5. LinkedIsNew'
            BY <2>1, <2>2, <2>3, <2>4 DEF RetrievalInv, LinkedIsNew
        <2>6. RetrievedIsLinked'
            BY <2>1, <2>2, <2>3, <2>4 DEF RetrievalInv, RetrievedIsLinked, Out
        <2>7. DroppedIsOut'
            BY <1>1, <2>1, <2>3, <2>4 DEF RetrievalInv, DroppedIsOut, RemovalRow
        <2>8. LinksReadHold' /\ RemovedIsLinked' /\ OneRemoval'
            BY <2>1, <2>2 DEF RetrievalInv, LinksReadHold, RemovedIsLinked, OneRemoval
        <2> QED BY <2>5, <2>6, <2>7, <2>8 DEF RetrievalInv
    <1>3. ASSUME NEW t \in DocTask, Queue(t, d) \/ Retry(t, d) PROVE RetrievalInv'
        BY <1>3, NothingIsAdded DEF Queue, Retry, noteVars
    <1>4. ASSUME NEW x \in Remover, NEW K \in SUBSET Kb, NEW whole, StartRemoval(x, d, K, whole),
                 \A k \in K \cap base : <<k, d>> \in link
          PROVE  RetrievalInv'
        <2>1. /\ UNCHANGED <<doc, base, link, vec, bm, linking, rebuild, strayVec, strayBm>>
              /\ removal[x].at = "done"
              /\ \A y \in Remover : removal[y].at # "done" => removal[y].doc # d
              /\ removal' = [removal EXCEPT ![x] = [at |-> "read", doc |-> d, kbs |-> K,
                                                    whole |-> whole]]
            BY <1>4 DEF StartRemoval, noteVars
        <2>2. /\ removal'[x] = [at |-> "read", doc |-> d, kbs |-> K, whole |-> whole]
              /\ \A y \in Remover : y # x => removal'[y] = removal[y]
            BY <1>1, <2>1
        <2>3. OneRemoval'
            BY <2>1, <2>2 DEF RetrievalInv, OneRemoval
        <2>4. RemovedIsLinked'
            BY <1>4, <2>1, <2>2 DEF RetrievalInv, RemovedIsLinked
        <2>5. DroppedIsOut'
            BY <2>1, <2>2 DEF RetrievalInv, DroppedIsOut, Out
        <2>6. RetrievedIsLinked' /\ LinksReadHold' /\ LinkedIsNew'
            BY <2>1 DEF RetrievalInv, RetrievedIsLinked, LinksReadHold, LinkedIsNew, BeingLinked
        <2> QED BY <2>3, <2>4, <2>5, <2>6 DEF RetrievalInv
    <1>5. ASSUME NEW x \in Remover, PurgeDocument(x, d) PROVE RetrievalInv'
        <2> DEFINE K == {k \in Kb : <<k, d>> \in link}
        <2>1. K \in SUBSET Kb /\ (\A k \in K \cap base : <<k, d>> \in link) /\ StartRemoval(x, d, K, TRUE)
            BY <1>5 DEF PurgeDocument
        <2> HIDE DEF K
        <2> QED BY <1>4, <2>1
    <1>6. ASSUME NEW x \in Remover, NEW k \in Kb, Unlink(x, k, d) PROVE RetrievalInv'
        <2>1. /\ {k} \in SUBSET Kb /\ \A b \in {k} \cap base : <<b, d>> \in link
              /\ StartRemoval(x, d, {k}, FALSE)
            BY <1>6 DEF Unlink
        <2> QED BY <1>4, <2>1
    <1> QED BY <1>2, <1>3, <1>5, <1>6 DEF OnDocument

\* A request that links: what it puts into the indexes is being linked, is not being
\* removed, and is linked or noted in the end; its rebuild notes what it brings back.
LEMMA LinkRetrieval ==
    ASSUME KbTypeOK, RetrievalInv, Link
    PROVE  RetrievalInv'
    <1>1. /\ base \subseteq Kb /\ linking \in LinkRow /\ removal \in [Remover -> RemovalRow]
          /\ vec \in [Kb \X Doc -> Vector] /\ bm \in [Kb -> SUBSET Doc]
          /\ UNCHANGED <<doc, base, removal, rebuild>>
        <2>1. UNCHANGED <<doc, base, removal, rebuild>>
            BY DEF Link, StartLink, NextLink, PushLinked, RebuildLinked, CommitLink, LinkFails
        <2> QED BY <2>1 DEF KbTypeOK
    <1>2. OneRemoval'
        BY <1>1 DEF RetrievalInv, OneRemoval
    <1>3. ASSUME link \subseteq link', strayVec \subseteq strayVec', RetrievedIsLinked', LinkedIsNew',
                 \A x \in Remover : removal[x].at = "dropped" =>
                     \A k \in base \cap removal[x].kbs : Out(k, removal[x].doc)'
          PROVE  RetrievalInv'
        BY <1>1, <1>2, <1>3 DEF RetrievalInv, LinksReadHold, DroppedIsOut, RemovedIsLinked
    <1>4. ASSUME UNCHANGED <<link, vec, bm, strayVec, strayBm>>,
                 \A k \in base, d \in Doc :
                     /\ BeingLinked(k, d) => BeingLinked(k, d)'
                     /\ BeingLinked(k, d)' => \/ BeingLinked(k, d)
                                              \/ <<k, d>> \notin link /\ doc[d].status # "absent"
          PROVE  RetrievalInv'
        <2>1. \A k \in base, d \in Doc : Out(k, d)' <=> Out(k, d)
            BY <1>4 DEF Out
        <2>2. RetrievedIsLinked' /\ LinkedIsNew'
            BY <1>1, <1>4 DEF RetrievalInv, RetrievedIsLinked, LinkedIsNew
        <2>3. \A x \in Remover : removal[x].at = "dropped" =>
                     \A k \in base \cap removal[x].kbs : Out(k, removal[x].doc)'
            BY <1>1, <2>1 DEF RetrievalInv, DroppedIsOut, RemovalRow
        <2> QED BY <1>3, <1>4, <2>2, <2>3
    <1>5. ASSUME NEW k \in Kb, NEW D \in SUBSET Doc, StartLink(k, D) PROVE RetrievalInv'
        BY <1>4, <1>5 DEF StartLink, BeingLinked, LinkDone, noteVars
    <1>6. ASSUME NEW d \in Doc, NextLink(d) PROVE RetrievalInv'
        <2>1. \A b \in base, c \in Doc :
                     /\ BeingLinked(b, c) => BeingLinked(b, c)'
                     /\ BeingLinked(b, c)' => \/ BeingLinked(b, c)
                                              \/ <<b, c>> \notin link /\ doc[c].status # "absent"
            BY <1>1, <1>6 DEF NextLink, BeingLinked, LinkRow, Searchable
        <2> QED BY <1>4, <1>6, <2>1 DEF NextLink, noteVars
    <1>7. CASE PushLinked
        <2> DEFINE kd == <<linking.kb, linking.doc>>
        <2>1. /\ UNCHANGED <<link, bm, strayVec, strayBm>>
              /\ linking.at = "pushing" /\ linking' = [linking EXCEPT !.at = "pushed"]
              /\ \A k \in Kb, d \in Doc : <<k, d>> # kd => vec'[<<k, d>>] = vec[<<k, d>>]
            BY <1>1, <1>7 DEF PushLinked, noteVars
        <2>2. \A k \in base, d \in Doc : BeingLinked(k, d)' <=> BeingLinked(k, d)
            BY <1>1, <2>1 DEF BeingLinked, LinkRow
        <2>3. \A k \in base, d \in Doc : <<k, d>> = kd => BeingLinked(k, d)
            BY <2>1 DEF BeingLinked
        <2>4. \A k \in base, d \in Doc : Out(k, d) /\ ~BeingLinked(k, d) => Out(k, d)'
            BY <1>1, <2>1, <2>3 DEF Out
        <2>5. RetrievedIsLinked'
            BY <1>1, <2>1, <2>2, <2>4 DEF RetrievalInv, RetrievedIsLinked, Out
        <2>6. LinkedIsNew'
            BY <1>1, <2>1, <2>2 DEF RetrievalInv, LinkedIsNew
        <2>7. \A x \in Remover : removal[x].at = "dropped" =>
                     \A k \in base \cap removal[x].kbs : Out(k, removal[x].doc)'
            BY <1>1, <2>4 DEF RetrievalInv, DroppedIsOut, LinkedIsNew, RemovedIsLinked, RemovalRow
        <2> QED BY <1>3, <2>1, <2>5, <2>6, <2>7
    <1>8. CASE RebuildLinked
        <2> DEFINE b == linking.kb
                   added == linking.added \cup {linking.doc}
        <2>1. /\ UNCHANGED <<link, vec, strayVec>>
              /\ linking.at = "pushed" /\ linking' = [linking EXCEPT !.at = "next", !.added = added]
            BY <1>8 DEF RebuildLinked
        <2>2. \A k \in base, d \in Doc : BeingLinked(k, d)' <=> BeingLinked(k, d)
            BY <1>1, <2>1 DEF BeingLinked, LinkRow
        <2>3. LinkedIsNew'
            BY <1>1, <2>1, <2>2 DEF RetrievalInv, LinkedIsNew
        <2>4. CASE UNCHANGED <<bm, strayBm>>
            BY <1>4, <2>1, <2>2, <2>4
        <2>5. CASE /\ bm' = [bm EXCEPT ![b] = RebuildBm25(b, link \cup ({b} \X added))]
                   /\ strayBm' = (strayBm \ OfKb(b)) \cup {kd \in OfKb(b) : BeingRemoved(b, kd[2])}
            <3>1. \A k \in base, d \in Doc : k # b /\ Out(k, d) => Out(k, d)'
                BY <1>1, <2>1, <2>5 DEF Out, OfKb
            <3>2. \A d \in Doc : d \in bm'[b] => <<b, d>> \in link \/ d \in added
                BY <1>1, <2>5 DEF RebuildBm25, LinkRow
            <3>3. \A d \in Doc : b \in base /\ d \in added => BeingLinked(b, d)
                BY <2>1 DEF BeingLinked
            <3>4. RetrievedIsLinked'
                <4> SUFFICES ASSUME NEW k \in base, NEW d \in Doc
                             PROVE  <<k, d>> \in link \/ BeingLinked(k, d) \/ Out(k, d)'
                    BY <1>1, <2>1, <2>2 DEF RetrievedIsLinked, Out
                <4>1. CASE k # b
                    BY <3>1, <4>1 DEF RetrievalInv, RetrievedIsLinked, Out
                <4>2. CASE k = b
                    BY <2>1, <3>2, <3>3, <4>2 DEF RetrievalInv, RetrievedIsLinked, Out
                <4> QED BY <4>1, <4>2
            <3>5. \A x \in Remover : removal[x].at = "dropped" =>
                         \A k \in base \cap removal[x].kbs : Out(k, removal[x].doc)'
                <4> SUFFICES ASSUME NEW x \in Remover, removal[x].at = "dropped",
                                    NEW k \in base \cap removal[x].kbs
                             PROVE  Out(k, removal[x].doc)'
                    OBVIOUS
                <4>1. removal[x].doc \in Doc /\ Out(k, removal[x].doc)
                    BY <1>1 DEF RetrievalInv, DroppedIsOut, RemovalRow
                <4>2. CASE k # b
                    BY <1>1, <3>1, <4>1, <4>2
                <4>3. CASE k = b
                    <5>1. BeingRemoved(b, removal[x].doc)
                        BY <4>3 DEF BeingRemoved, Removes
                    <5>2. <<b, removal[x].doc>> \in strayBm'
                        BY <1>1, <2>5, <4>1, <5>1 DEF OfKb
                    <5> QED BY <1>1, <2>1, <4>1, <4>3, <5>2 DEF Out
                <4> QED BY <4>2, <4>3
            <3> QED BY <1>3, <2>1, <2>3, <3>4, <3>5
        <2> QED BY <1>8, <2>4, <2>5 DEF RebuildLinked
    <1>9. CASE CommitLink \/ LinkFails
        <2>1. /\ UNCHANGED <<vec, bm>> /\ linking' = LinkDone
              /\ link \subseteq link' /\ strayVec \subseteq strayVec' /\ strayBm \subseteq strayBm'
            BY <1>9 DEF CommitLink, LinkFails, noteVars
        <2>2. \A k \in base, d \in Doc : Out(k, d) => Out(k, d)'
            BY <2>1 DEF Out
        <2>3. ASSUME NEW k \in base, NEW d \in Doc, BeingLinked(k, d)
              PROVE  <<k, d>> \in link' \/ Out(k, d)'
            <3>1. CASE CommitLink
                BY <1>1, <2>3, <3>1 DEF CommitLink, BeingLinked
            <3>2. CASE LinkFails
                <4>1. <<k, d>> \in BroughtIn
                    BY <1>1, <2>3 DEF BroughtIn
                <4> QED BY <3>2, <4>1 DEF LinkFails, Out
            <3> QED BY <1>9, <3>1, <3>2
        <2>4. RetrievedIsLinked'
            BY <1>1, <2>1, <2>2, <2>3 DEF RetrievalInv, RetrievedIsLinked, Out
        <2>5. LinkedIsNew'
            BY <2>1 DEF LinkedIsNew, BeingLinked, LinkDone
        <2>6. \A x \in Remover : removal[x].at = "dropped" =>
                     \A k \in base \cap removal[x].kbs : Out(k, removal[x].doc)'
            BY <1>1, <2>2 DEF RetrievalInv, DroppedIsOut, RemovalRow
        <2> QED BY <1>3, <2>1, <2>4, <2>5, <2>6
    <1> QED BY <1>5, <1>6, <1>7, <1>8, <1>9 DEF Link

\* A removal: its entries are out before its links go, and the links that go with them
\* but were made since are noted, as are those a thread is about to push to.
LEMMA RemoveRetrieval ==
    ASSUME KbTypeOK, RetrievalInv, NEW x \in Remover, Removal(x)
    PROVE  RetrievalInv'
    <1>1. /\ base \subseteq Kb /\ link \subseteq Kb \X Doc /\ linking \in LinkRow
          /\ removal \in [Remover -> RemovalRow] /\ rebuild \in [Rebuilder -> RebuildRow]
          /\ vec \in [Kb \X Doc -> Vector] /\ bm \in [Kb -> SUBSET Doc]
        BY DEF KbTypeOK
    <1>2. /\ UNCHANGED <<base, linking, rebuild>>
          /\ \A y \in Remover : y # x => removal'[y] = removal[y]
          /\ removal[x].at # "done" /\ removal'[x].doc \in Doc
          /\ removal' \in [Remover -> RemovalRow]
        <2>1. /\ UNCHANGED <<base, linking, rebuild>>
              /\ removal' = [removal EXCEPT ![x] = RemovalDone]
                     \/ removal' = [removal EXCEPT ![x].at = "dropped"]
              /\ removal[x].at # "done"
            BY DEF Removal, DropEntries, RemoveRows, RemovalFails
        <2>2. removal' \in [Remover -> RemovalRow]
            <3>1. [removal EXCEPT ![x].at = "dropped"] \in [Remover -> RemovalRow]
                BY <1>1 DEF RemovalRow
            <3> QED BY <1>1, <2>1, <3>1, IdleTypes
        <2> QED BY <1>1, <2>1, <2>2 DEF RemovalRow
    <1>3. \A k \in base, d \in Doc : BeingLinked(k, d)' <=> BeingLinked(k, d)
        BY <1>2 DEF BeingLinked
    <1>4. CASE DropEntries(x)
        <2>1. PICK V \in SUBSET PairsOf(x), B \in SUBSET PairsOf(x) :
                 /\ vec' = [kd \in Kb \X Doc |-> IF kd \in V THEN NoVec ELSE vec[kd]]
                 /\ bm' = [k \in Kb |-> {d \in bm[k] : <<k, d>> \notin B}]
                 /\ strayVec' = (strayVec \ V) \cup (PairsOf(x) \ V)
                 /\ strayBm' = (strayBm \ B) \cup (PairsOf(x) \ B)
            BY <1>4 DEF DropEntries
        <2>2. UNCHANGED <<link, doc>> /\ removal' = [removal EXCEPT ![x].at = "dropped"]
            BY <1>4 DEF DropEntries
        <2>3. \A k \in base, d \in Doc : Out(k, d) \/ <<k, d>> \in PairsOf(x) => Out(k, d)'
            BY <1>1, <2>1 DEF Out
        <2>4. RetrievedIsLinked' /\ LinkedIsNew'
            BY <1>2, <1>3, <2>2, <2>3 DEF RetrievalInv, RetrievedIsLinked, LinkedIsNew, Out
        <2>5. DroppedIsOut'
            <3> SUFFICES ASSUME NEW y \in Remover, removal'[y].at = "dropped",
                                NEW k \in base \cap removal'[y].kbs
                         PROVE  Out(k, removal[y].doc)' 
                BY <1>2 DEF DroppedIsOut
            <3>1. CASE y = x
                <4>1. removal'[x].kbs = removal[x].kbs /\ removal'[x].doc = removal[x].doc
                    BY <1>1, <2>2 DEF RemovalRow
                <4>2. <<k, removal[x].doc>> \in PairsOf(x) /\ k \in base /\ removal[x].doc \in Doc
                    BY <1>1, <1>2, <3>1, <4>1 DEF PairsOf, RemovalRow
                <4> QED BY <2>3, <3>1, <4>1, <4>2
            <3>2. CASE y # x
                BY <1>1, <1>2, <2>3, <3>2 DEF RetrievalInv, DroppedIsOut, RemovalRow
            <3> QED BY <3>1, <3>2
        <2>6. \A k \in base, d \in Doc : <<k, d>> \in PairsOf(x) => <<k, d>> \in link
            BY <1>1, <1>2 DEF RetrievalInv, RemovedIsLinked, PairsOf
        <2>7. LinksReadHold'
            BY <1>1, <1>2, <2>1, <2>2, <2>6 DEF RetrievalInv, LinksReadHold, RebuildRow
        <2>8. \A y \in Remover : /\ removal'[y].doc = removal[y].doc
                                 /\ removal'[y].kbs = removal[y].kbs
                                 /\ removal'[y].at # "done" => removal[y].at # "done"
            BY <1>1, <1>2, <2>2 DEF RemovalRow
        <2>9. RemovedIsLinked' /\ OneRemoval'
            BY <1>2, <2>2, <2>8 DEF RetrievalInv, RemovedIsLinked, OneRemoval
        <2> QED BY <2>4, <2>5, <2>7, <2>9 DEF RetrievalInv
    <1>5. CASE RemoveRows(x) \/ RemovalFails(x)
        <2>1. /\ removal' = [removal EXCEPT ![x] = RemovalDone] /\ UNCHANGED <<vec, bm>>
              /\ strayVec \subseteq strayVec' /\ strayBm \subseteq strayBm'
            BY <1>5 DEF RemoveRows, RemovalFails, noteVars
        <2>2. \A y \in Remover : /\ removal'[y].at # "done" => y # x
                                 /\ removal'[y].at = "dropped" => y # x
            BY <1>1, <2>1 DEF RemovalDone
        <2>3. \A k \in base, d \in Doc : Out(k, d) => Out(k, d)'
            BY <2>1 DEF Out
        <2>4. DroppedIsOut'
            BY <1>1, <1>2, <2>2, <2>3 DEF RetrievalInv, DroppedIsOut, RemovalRow
        <2>5. OneRemoval'
            BY <1>2, <2>2 DEF RetrievalInv, OneRemoval
        <2>6. CASE RemovalFails(x)
            <3>1. UNCHANGED <<link, doc, strayVec>>
                BY <2>6 DEF RemovalFails, noteVars
            <3> QED BY <1>2, <1>3, <2>2, <2>3, <2>4, <2>5, <3>1 DEF RetrievalInv, RetrievedIsLinked,
                       LinksReadHold, LinkedIsNew, RemovedIsLinked, Out
        <2>7. CASE RemoveRows(x)
            <3>1. /\ link' = link \ Unlinked(x) /\ removal[x].at = "dropped"
                  /\ strayVec' = strayVec \cup (Unlinked(x) \ PairsOf(x))
                                   \cup {kd \in Unlinked(x) : BeingPushed(kd[1], kd[2])}
                  /\ strayBm' = strayBm \cup (Unlinked(x) \ PairsOf(x))
                BY <2>7 DEF RemoveRows
            <3>2. \A k \in base, d \in Doc : <<k, d>> \in Unlinked(x) => Out(k, d)'
                <4> SUFFICES ASSUME NEW k \in base, NEW d \in Doc, <<k, d>> \in Unlinked(x)
                             PROVE  Out(k, d)'
                    OBVIOUS
                <4>1. CASE <<k, d>> \in PairsOf(x)
                    BY <2>3, <3>1, <4>1 DEF RetrievalInv, DroppedIsOut, PairsOf
                <4>2. CASE <<k, d>> \notin PairsOf(x)
                    BY <3>1, <4>2 DEF Out
                <4> QED BY <4>1, <4>2
            <3>3. RetrievedIsLinked'
                BY <1>2, <1>3, <2>3, <3>1, <3>2 DEF RetrievalInv, RetrievedIsLinked, Out
            <3>4. LinksReadHold'
                <4> SUFFICES ASSUME NEW w \in Rebuilder, rebuild[w].at = "pushing",
                                    NEW k \in base \cap rebuild[w].into,
                                    <<k, rebuild[w].doc>> \in Unlinked(x)
                             PROVE  <<k, rebuild[w].doc>> \in strayVec'
                    BY <1>2, <2>1, <3>1 DEF RetrievalInv, LinksReadHold
                <4>1. BeingPushed(k, rebuild[w].doc)
                    BY DEF BeingPushed, Pushes
                <4> QED BY <3>1, <4>1
            <3>5. \A d \in Doc : doc'[d].status = "absent" => doc[d].status = "absent"
                <4>1. doc \in [Doc -> DocRow] /\ removal[x].doc \in Doc
                    BY <1>1 DEF KbTypeOK, RemovalRow
                <4> QED BY <2>7, <4>1 DEF RemoveRows
            <3>6. LinkedIsNew'
                BY <1>2, <1>3, <3>1, <3>5 DEF RetrievalInv, LinkedIsNew
            <3>7. RemovedIsLinked'
                <4> SUFFICES ASSUME NEW y \in Remover, removal[y].at # "done", y # x,
                                    NEW k \in base \cap removal[y].kbs
                             PROVE  <<k, removal[y].doc>> \in link'
                    BY <1>2, <2>2 DEF RemovedIsLinked
                <4>1. <<k, removal[y].doc>> \in link /\ removal[y].doc # removal[x].doc
                    BY <1>2 DEF RetrievalInv, RemovedIsLinked, OneRemoval
                <4>2. <<k, removal[y].doc>> \notin Unlinked(x)
                    BY <4>1 DEF Unlinked, PairsOf
                <4> QED BY <3>1, <4>1, <4>2
            <3> QED BY <2>4, <2>5, <3>3, <3>4, <3>6, <3>7 DEF RetrievalInv
        <2> QED BY <1>5, <2>6, <2>7
    <1> QED BY <1>4, <1>5 DEF Removal

\* Changes of the model clear vectors and start threads.
LEMMA ModelRetrieval ==
    ASSUME KbTypeOK, RetrievalInv, OnModel
    PROVE  RetrievalInv'
    <1>1. base \subseteq Kb /\ rebuild \in [Rebuilder -> RebuildRow]
        BY DEF KbTypeOK
    <1>2. CASE SwitchToNone
        BY <1>1, <1>2, NothingIsAdded DEF SwitchToNone, taskVars, noteVars
    <1>3. ASSUME NEW w \in Rebuilder, NEW clear \in BOOLEAN, StartRebuild(w, clear),
                 UNCHANGED <<doc, link, base, vec, bm, linking, removal, strayVec, strayBm>>
          PROVE  RetrievalInv'
        <2>1. \A v \in Rebuilder : rebuild'[v].at = "pushing" => rebuild'[v] = rebuild[v]
            BY <1>1, <1>3 DEF StartRebuild, RebuildDone
        <2> QED BY <1>3, <2>1, NothingIsAdded
    <1>4. ASSUME NEW w \in Rebuilder, ReindexAll(w) PROVE RetrievalInv'
        BY <1>3, <1>4 DEF ReindexAll, noteVars
    <1>5. ASSUME NEW m \in EModel, NEW force \in BOOLEAN, SwitchModel(m, force) PROVE RetrievalInv'
        <2>1. CASE UNCHANGED <<rebuild, rstatus>>
            BY <1>5, <2>1, NothingIsAdded DEF SwitchModel, noteVars
        <2> QED BY <1>3, <1>5, <2>1 DEF SwitchModel, noteVars
    <1> QED BY <1>2, <1>4, <1>5 DEF OnModel

\* The thread pushes to links it has read, which hold or are noted.
LEMMA ReindexRetrieval ==
    ASSUME KbTypeOK, RetrievalInv, NEW w \in Rebuilder, Reindex(w)
    PROVE  RetrievalInv'
    <1>1. /\ base \subseteq Kb /\ rebuild \in [Rebuilder -> RebuildRow]
          /\ UNCHANGED <<link, base, bm, linking, removal, strayBm>>
        BY DEF KbTypeOK, Reindex
    <1>2. \A d \in Doc : doc'[d].status = "absent" => doc[d].status = "absent"
        <2>1. doc \in [Doc -> DocRow]
            BY DEF KbTypeOK
        <2>2. CASE MarkDocument(w)
            BY <2>1, <2>2 DEF MarkDocument, DocRow
        <2>3. CASE EmbedDocument(w)
            BY <2>1, <2>3 DEF EmbedDocument, DocRow
        <2>4. CASE PushDocument(w)
            BY <2>1, <2>4 DEF PushDocument, DocRow
        <2> QED BY <2>2, <2>3, <2>4 DEF Reindex, PickDocuments, ReadLinks
    <1>3. CASE PickDocuments(w)
        <2>1. \A v \in Rebuilder : rebuild'[v].at = "pushing" => rebuild'[v] = rebuild[v]
            BY <1>1, <1>3 DEF PickDocuments, RebuildRow, RebuildDone
        <2>2. /\ UNCHANGED strayVec
              /\ \A k \in base, d \in Doc : vec[<<k, d>>] = NoVec => vec'[<<k, d>>] = NoVec
            BY <1>1, <1>3 DEF PickDocuments
        <2> QED BY <1>1, <1>2, <2>1, <2>2, NothingIsAdded
    <1>4. CASE MarkDocument(w) \/ EmbedDocument(w)
        <2>1. UNCHANGED <<vec, strayVec>>
            BY <1>4 DEF MarkDocument, EmbedDocument
        <2>2. \A v \in Rebuilder : rebuild'[v].at = "pushing" => rebuild'[v] = rebuild[v]
            <3>1. CASE MarkDocument(w)
                <4>1. ASSUME NEW d \in rebuild[w].todo,
                             rebuild' = [rebuild EXCEPT ![w].at = "marked", ![w].doc = d,
                                                        ![w].todo = @ \ {d}],
                             NEW v \in Rebuilder, rebuild'[v].at = "pushing"
                      PROVE  rebuild'[v] = rebuild[v]
                    <5>1. rebuild[w] \in RebuildRow
                        BY <1>1
                    <5>2. v # w
                        BY <1>1, <4>1, <5>1 DEF RebuildRow
                    <5> QED BY <1>1, <4>1, <5>2
                <4>2. CASE rebuild' = [rebuild EXCEPT ![w] = RebuildDone]
                    BY <1>1, <4>2 DEF RebuildDone
                <4> QED BY <3>1, <4>1, <4>2 DEF MarkDocument
            <3>2. CASE EmbedDocument(w)
                <4>1. \/ rebuild' = [rebuild EXCEPT ![w].at = "next"]
                      \/ rebuild' = [rebuild EXCEPT ![w].at = "embedded"]
                    BY <3>2 DEF EmbedDocument
                <4> QED BY <1>1, <4>1 DEF RebuildRow
            <3> QED BY <1>4, <3>1, <3>2
        <2> QED BY <1>1, <1>2, <2>1, <2>2, NothingIsAdded
    <1>5. \A k \in base, d \in Doc : BeingLinked(k, d)' <=> BeingLinked(k, d)
        BY <1>1 DEF BeingLinked
    <1>6. LinkedIsNew' /\ RemovedIsLinked' /\ OneRemoval'
        BY <1>1, <1>2, <1>5 DEF RetrievalInv, LinkedIsNew, RemovedIsLinked, OneRemoval
    <1>7. CASE ReadLinks(w)
        <2>1. UNCHANGED <<vec, strayVec>>
            BY <1>7 DEF ReadLinks
        <2>2. RetrievedIsLinked' /\ DroppedIsOut'
            BY <1>1, <1>5, <2>1 DEF RetrievalInv, RetrievedIsLinked, DroppedIsOut, Out
        <2>3. \A v \in Rebuilder : v # w => rebuild'[v] = rebuild[v]
            BY <1>1, <1>7 DEF ReadLinks
        <2>4. /\ rebuild'[w].doc = rebuild[w].doc
              /\ rebuild'[w].into = {k \in Kb : <<k, rebuild[w].doc>> \in link}
            BY <1>1, <1>7 DEF ReadLinks, RebuildRow
        <2>5. LinksReadHold'
            BY <1>1, <2>1, <2>3, <2>4 DEF RetrievalInv, LinksReadHold
        <2> QED BY <1>6, <2>2, <2>5 DEF RetrievalInv
    <1>8. CASE PushDocument(w)
        <2>1. \A v \in Rebuilder : rebuild'[v].at = "pushing" => rebuild'[v] = rebuild[v]
            BY <1>1, <1>8 DEF PushDocument, RebuildRow
        <2>2. /\ strayVec \subseteq strayVec'
              /\ \A k \in base, d \in Doc : BeingRemoved(k, d) /\ vec'[<<k, d>>] # vec[<<k, d>>]
                                              => <<k, d>> \in strayVec'
            BY <1>1, <1>8 DEF PushDocument
        <2>3. \A k \in base, d \in Doc : vec'[<<k, d>>] # vec[<<k, d>>]
                                           => <<k, d>> \in link \/ <<k, d>> \in strayVec
            BY <1>1, <1>8 DEF PushDocument, RetrievalInv, LinksReadHold
        <2>4. LinksReadHold'
            BY <1>1, <2>1, <2>2 DEF RetrievalInv, LinksReadHold
        <2>5. RetrievedIsLinked'
            BY <1>1, <1>5, <2>2, <2>3 DEF RetrievalInv, RetrievedIsLinked
        <2>6. DroppedIsOut'
            <3> SUFFICES ASSUME NEW x \in Remover, removal[x].at = "dropped",
                                NEW k \in base \cap removal[x].kbs
                         PROVE  Out(k, removal[x].doc)'
                BY <1>1 DEF DroppedIsOut
            <3>1. removal[x].doc \in Doc /\ Out(k, removal[x].doc)
                BY DEF RetrievalInv, DroppedIsOut, KbTypeOK, RemovalRow
            <3>2. BeingRemoved(k, removal[x].doc)
                BY DEF BeingRemoved, Removes
            <3> QED BY <1>1, <2>2, <3>1, <3>2 DEF Out
        <2> QED BY <1>6, <2>4, <2>5, <2>6 DEF RetrievalInv
    <1> QED BY <1>3, <1>4, <1>7, <1>8 DEF Reindex

\* Nothing of a document that is gone or not in a knowledge base can be retrieved from
\* there, unless a failure left it or it was put there while it was being removed: for any
\* documents, knowledge bases, models, tasks, removals, threads, failures and deaths of the
\* process (documents.py, knowledge_bases.py, reindex_service.py, embedding_model.py).
THEOREM RetrievalIsLinked == KbSpec => []RetrievedIsLinked
    <1>1. KbInit => RetrievalInv
        BY DEF KbInit, RetrievalInv, RetrievedIsLinked, LinksReadHold, DroppedIsOut, LinkedIsNew,
           RemovedIsLinked, OneRemoval, BeingLinked, LinkDone, RemovalDone, RebuildDone
    <1>2. KbTypeOK /\ RetrievalInv /\ [KbNext]_kbVars => RetrievalInv'
        <2> SUFFICES ASSUME KbTypeOK, RetrievalInv, [KbNext]_kbVars PROVE RetrievalInv'
            OBVIOUS
        <2>1. /\ vec \in [Kb \X Doc -> Vector] /\ bm \in [Kb -> SUBSET Doc] /\ base \subseteq Kb
              /\ doc \in [Doc -> DocRow] /\ removal \in [Remover -> RemovalRow]
            BY DEF KbTypeOK
        <2>2. ASSUME NEW k \in Kb, DeleteKb(k) PROVE RetrievalInv'
            <3>1. /\ UNCHANGED <<doc, bm, linking, removal, rebuild, strayVec, strayBm>>
                  /\ base' = base \ {k} /\ link' = {kd \in link : kd[1] # k}
                  /\ vec' = [kd \in Kb \X Doc |-> IF kd[1] = k THEN NoVec ELSE vec[kd]]
                BY <2>2 DEF DeleteKb, noteVars
            <3>2. \A b \in base', d \in Doc : /\ Out(b, d)' <=> Out(b, d)
                                              /\ BeingLinked(b, d)' <=> BeingLinked(b, d)
                                              /\ <<b, d>> \in link' <=> <<b, d>> \in link
                BY <2>1, <3>1 DEF Out, BeingLinked
            <3>3. RetrievedIsLinked' /\ LinkedIsNew'
                BY <3>1, <3>2 DEF RetrievalInv, RetrievedIsLinked, LinkedIsNew, Out
            <3>4. LinksReadHold' /\ RemovedIsLinked' /\ OneRemoval'
                BY <3>1 DEF RetrievalInv, LinksReadHold, RemovedIsLinked, OneRemoval
            <3>5. DroppedIsOut'
                BY <2>1, <3>1, <3>2 DEF RetrievalInv, DroppedIsOut, RemovalRow
            <3> QED BY <3>3, <3>4, <3>5 DEF RetrievalInv
        <2>3. CASE KbRestart
            <3>1. /\ UNCHANGED <<link, base, vec>> /\ linking' = LinkDone
                  /\ removal' = [x \in Remover |-> RemovalDone]
                  /\ rebuild' = [w \in Rebuilder |-> RebuildDone]
                  /\ bm' = [k \in Kb |-> RebuildBm25(k, link)]
                  /\ strayVec' = strayVec \cup BroughtIn
                BY <2>3 DEF KbRestart
            <3>2. \A k \in Kb, d \in Doc : /\ d \in bm'[k] => <<k, d>> \in link
                                           /\ BeingLinked(k, d) => <<k, d>> \in strayVec'
                BY <3>1 DEF RebuildBm25, BroughtIn
            <3>3. RetrievedIsLinked'
                BY <2>1, <3>1, <3>2 DEF RetrievalInv, RetrievedIsLinked
            <3> QED BY <3>1, <3>3 DEF RetrievalInv, LinksReadHold, DroppedIsOut, LinkedIsNew,
                       RemovedIsLinked, OneRemoval, BeingLinked, LinkDone, RemovalDone, RebuildDone
        <2>4. ASSUME NEW t \in DocTask, ProcessDocument(t) PROVE RetrievalInv'
            <3>1. \A d \in Doc : doc'[d].status = "absent" => doc[d].status = "absent"
                <4>1. CASE BeginDocument(t)
                    BY <2>1, <4>1 DEF BeginDocument, DocRow
                <4>2. CASE Parse(t) \/ StartEmbedding(t) \/ FailDocument(t)
                    BY <2>1, <4>2 DEF Parse, StartEmbedding, FailDocument, DocRow
                <4>3. CASE PersistChunks(t)
                    BY <2>1, <4>3 DEF PersistChunks, DocRow
                <4>4. CASE FinishDocument(t)
                    BY <2>1, <4>4 DEF FinishDocument, DocRow
                <4> QED BY <2>4, <4>1, <4>2, <4>3, <4>4 DEF ProcessDocument
            <3> QED BY <2>4, <3>1, NothingIsAdded DEF ProcessDocument, noteVars
        <2>5. CASE UNCHANGED kbVars
            BY <2>5, NothingIsAdded DEF kbVars
        <2> QED BY <2>2, <2>3, <2>4, <2>5, DocumentRetrieval, LinkRetrieval, RemoveRetrieval,
                ModelRetrieval, ReindexRetrieval DEF KbNext
    <1>3. RetrievalInv => RetrievedIsLinked
        BY DEF RetrievalInv
    <1> QED BY <1>1, <1>2, <1>3, KbTypeCorrect, PTL DEF KbSpec

\* A linked document leaves the keyword index of its knowledge base only with a removal, or
\* because a rebuild met it while it was being worked on; so for any number of requests,
\* threads and deaths (_rebuild_kb_bm25 of knowledge_bases.py, _purge_document of
\* documents.py).
THEOREM KeywordsAreKept == KbSpec => KeywordsKept
    <1> DEFINE Kept ==
            \A k \in Kb, d \in Doc :
               d \in bm[k] \ bm'[k] =>
                   \/ <<k, d>> \notin link \/ ~Searchable(d)
                   \/ \E x \in Remover : /\ removal[x].at = "read" /\ <<k, d>> \in PairsOf(x)
                                        /\ removal'[x].at = "dropped"
    <1>1. KbTypeOK /\ [KbNext]_kbVars => [Kept]_kbVars
        <2> SUFFICES ASSUME KbTypeOK, [KbNext]_kbVars, NEW k \in Kb, NEW d \in Doc, d \in bm[k],
                            d \notin bm'[k], <<k, d>> \in link, Searchable(d)
                     PROVE  \E x \in Remover : /\ removal[x].at = "read" /\ <<k, d>> \in PairsOf(x)
                                               /\ removal'[x].at = "dropped"
            OBVIOUS
        <2>1. /\ bm \in [Kb -> SUBSET Doc] /\ linking.kb \in Kb
              /\ removal \in [Remover -> RemovalRow]
            BY DEF KbTypeOK, LinkRow
        <2>2. CASE RebuildLinked
            BY <2>1, <2>2 DEF RebuildLinked, RebuildBm25
        <2>3. ASSUME NEW x \in Remover, Removal(x)
              PROVE  /\ removal[x].at = "read" /\ <<k, d>> \in PairsOf(x)
                     /\ removal'[x].at = "dropped"
            <3>1. DropEntries(x)
                BY <2>3 DEF Removal, RemoveRows, RemovalFails
            <3>2. /\ removal[x].at = "read" /\ removal' = [removal EXCEPT ![x].at = "dropped"]
                  /\ \E B \in SUBSET PairsOf(x) : bm' = [b \in Kb |-> {c \in bm[b] : <<b, c>> \notin B}]
                BY <3>1 DEF DropEntries
            <3>3. <<k, d>> \in PairsOf(x)
                BY <3>2
            <3> QED BY <2>1, <3>2, <3>3 DEF RemovalRow
        <2>4. CASE KbRestart
            BY <2>4 DEF KbRestart, RebuildBm25
        <2> QED BY <2>2, <2>3, <2>4 DEF KbNext, OnDocument, Upload, Queue, Retry, Unlink,
                PurgeDocument,
                StartRemoval, DeleteKb, OnModel, SwitchToNone, ReindexAll, SwitchModel, Link,
                StartLink,
                NextLink, PushLinked, CommitLink, LinkFails, ProcessDocument, Reindex, kbVars
    <1> QED BY <1>1, KbTypeCorrect, PTL DEF KbSpec, KeywordsKept

-----------------------------------------------------------------------------
(* SUMMARY: paragraphs in a sequence. *)

\* An empty sequence holds nothing.
LEMMA NothingHeld == ToSet(<<>>) = {}
    <1>1. <<>> \in Seq({}) /\ Len(<<>>) = 0
        OBVIOUS
    <1>2. ToSet(<<>>) = {<<>>[i] : i \in 1..Len(<<>>)}
        BY <1>1, Members
    <1> QED BY <1>1, <1>2

\* What a sequence holds after one more was put behind it.
LEMMA AppendMembers ==
    ASSUME NEW S, NEW q \in Seq(S), NEW x \in S
    PROVE  ToSet(Append(q, x)) = ToSet(q) \cup {x}
    <1>1. /\ Append(q, x) \in Seq(S) /\ Len(Append(q, x)) = Len(q) + 1
          /\ \A i \in 1..Len(q) : Append(q, x)[i] = q[i]
          /\ Append(q, x)[Len(q) + 1] = x
        BY AddLast
    <1>2. Len(q) \in Nat
        OBVIOUS
    <1>3. /\ ToSet(q) = {q[i] : i \in 1..Len(q)}
          /\ ToSet(Append(q, x)) = {Append(q, x)[i] : i \in 1..(Len(q) + 1)}
        BY <1>1, Members
    <1>4. 1..(Len(q) + 1) = 1..Len(q) \cup {Len(q) + 1}
        BY <1>2
    <1> QED BY <1>1, <1>3, <1>4

\* And without its first.
LEMMA TailMembers ==
    ASSUME NEW S, NEW q \in Seq(S), q # <<>>
    PROVE  /\ Tail(q) \in Seq(S) /\ Head(q) \in S /\ Head(q) \in ToSet(q)
           /\ Len(Tail(q)) = Len(q) - 1
           /\ \A i \in 1..(Len(q) - 1) : Tail(q)[i] = q[i + 1]
           /\ ToSet(q) = {Head(q)} \cup ToSet(Tail(q))
    <1>1. /\ Tail(q) \in Seq(S) /\ Len(Tail(q)) = Len(q) - 1 /\ Len(q) \in Nat \ {0}
          /\ \A i \in 1..(Len(q) - 1) : Tail(q)[i] = q[i + 1]
          /\ Head(q) = q[1] /\ Head(q) \in S
        OBVIOUS
    <1>a. ToSet(q) = {q[i] : i \in 1..Len(q)}
        BY Members
    <1> DEFINE t == Tail(q)
    <1>b. ToSet(t) = {t[i] : i \in 1..Len(t)}
      <2>1. t \in Seq(S)
          BY <1>1
      <2> HIDE DEF t
      <2> QED BY <2>1, Members
    <1>2. /\ ToSet(q) = {q[i] : i \in 1..Len(q)}
          /\ ToSet(Tail(q)) = {Tail(q)[i] : i \in 1..(Len(q) - 1)}
        BY <1>1, <1>a, <1>b
    <1>3. ASSUME NEW i \in 1..Len(q), i # 1 PROVE q[i] \in ToSet(Tail(q))
        <2>1. i - 1 \in 1..(Len(q) - 1) /\ (i - 1) + 1 = i
            BY <1>1, <1>3
        <2>2. Tail(q)[i - 1] = q[i]
            BY <1>1, <2>1
        <2> QED BY <1>2, <2>1, <2>2
    <1>4. ASSUME NEW i \in 1..(Len(q) - 1) PROVE Tail(q)[i] \in ToSet(q)
        <2>1. i + 1 \in 1..Len(q)
            BY <1>1
        <2> QED BY <1>1, <1>2, <2>1
    <1>5. q[1] \in ToSet(q)
        BY <1>1, <1>2
    <1> QED BY <1>1, <1>2, <1>3, <1>4, <1>5

\* And without one in the middle.
LEMMA RemovedMembers ==
    ASSUME NEW S, NEW q \in Seq(S), NEW k \in 1..Len(q)
    PROVE  /\ RemoveAt(q, k) \in Seq(S)
           /\ ToSet(q) = {q[k]} \cup ToSet(RemoveAt(q, k))
    <1> DEFINE r == RemoveAt(q, k)
    <1>0. Len(q) \in Nat
        OBVIOUS
    <1>1. /\ r \in Seq(S) /\ Len(r) = Len(q) - 1 /\ Len(q) \in Nat
          /\ \A i \in 1..(Len(q) - 1) : r[i] = IF i < k THEN q[i] ELSE q[i + 1]
        BY <1>0, DropAt
    <1> HIDE DEF r
    <1>2. ToSet(q) = {q[i] : i \in 1..Len(q)} /\ ToSet(r) = {r[i] : i \in 1..(Len(q) - 1)}
        BY <1>1, Members
    <1>3. ASSUME NEW i \in 1..Len(q), i # k PROVE q[i] \in ToSet(r)
        <2>1. CASE i < k
            <3>1. i \in 1..(Len(q) - 1)
                BY <1>1, <2>1
            <3> QED BY <1>1, <1>2, <2>1, <3>1
        <2>2. CASE i > k
            <3>1. i - 1 \in 1..(Len(q) - 1) /\ ~(i - 1 < k) /\ (i - 1) + 1 = i
                BY <1>1, <2>2
            <3>2. r[i - 1] = q[i]
                BY <1>1, <3>1
            <3> QED BY <1>2, <3>1, <3>2
        <2> QED BY <1>1, <1>3, <2>1, <2>2
    <1>4. ASSUME NEW i \in 1..(Len(q) - 1) PROVE r[i] \in ToSet(q)
        <2>1. i \in 1..Len(q) /\ i + 1 \in 1..Len(q)
            BY <1>1
        <2> QED BY <1>1, <1>2, <2>1
    <1> QED BY <1>1, <1>2, <1>3, <1>4 DEF r

\* The rounds of an earlier paragraph come before those of a later one.
InOrder(text) == \A i, j \in 1..Len(text) : i < j => \A x \in text[i], y \in text[j] : x < y

\* A paragraph about later rounds may follow.
LEMMA AppendInOrder ==
    ASSUME NEW S, NEW q \in Seq(S), InOrder(q), NEW p \in S,
           \A i \in 1..Len(q) : \A x \in q[i], y \in p : x < y
    PROVE  InOrder(Append(q, p))
    <1>1. /\ Len(Append(q, p)) = Len(q) + 1 /\ Len(q) \in Nat
          /\ \A i \in 1..Len(q) : Append(q, p)[i] = q[i]
          /\ Append(q, p)[Len(q) + 1] = p
        BY AddLast
    <1> SUFFICES ASSUME NEW i \in 1..(Len(q) + 1), NEW j \in 1..(Len(q) + 1), i < j
                 PROVE  \A x \in Append(q, p)[i], y \in Append(q, p)[j] : x < y
        BY <1>1 DEF InOrder
    <1>2. i \in 1..Len(q)
        BY <1>1
    <1>3. CASE j = Len(q) + 1
        BY <1>1, <1>2, <1>3
    <1>4. CASE j # Len(q) + 1
        <2>1. j \in 1..Len(q)
            BY <1>1, <1>4
        <2> QED BY <1>1, <1>2, <2>1 DEF InOrder
    <1> QED BY <1>3, <1>4

\* The first paragraph may go.
LEMMA TailInOrder ==
    ASSUME NEW S, NEW q \in Seq(S), q # <<>>, InOrder(q)
    PROVE  InOrder(Tail(q))
    <1>1. /\ Len(Tail(q)) = Len(q) - 1 /\ Len(q) \in Nat
          /\ \A i \in 1..(Len(q) - 1) : Tail(q)[i] = q[i + 1]
        BY TailMembers
    <1> SUFFICES ASSUME NEW i \in 1..(Len(q) - 1), NEW j \in 1..(Len(q) - 1), i < j
                 PROVE  \A x \in Tail(q)[i], y \in Tail(q)[j] : x < y
        BY <1>1 DEF InOrder
    <1>2. i + 1 \in 1..Len(q) /\ j + 1 \in 1..Len(q) /\ i + 1 < j + 1
        BY <1>1
    <1> QED BY <1>1, <1>2 DEF InOrder

\* Any paragraph may go.
LEMMA RemovedInOrder ==
    ASSUME NEW S, NEW q \in Seq(S), NEW k \in 1..Len(q), InOrder(q)
    PROVE  InOrder(RemoveAt(q, k))
    <1> DEFINE r == RemoveAt(q, k)
               At(i) == IF i < k THEN i ELSE i + 1
    <1>0. Len(q) \in Nat
        OBVIOUS
    <1>1. /\ Len(r) = Len(q) - 1 /\ Len(q) \in Nat
          /\ \A i \in 1..(Len(q) - 1) : r[i] = q[At(i)]
      <2>1. /\ Len(r) = Len(q) - 1
            /\ \A i \in 1..(Len(q) - 1) : r[i] = IF i < k THEN q[i] ELSE q[i + 1]
          BY <1>0, DropAt
      <2> HIDE DEF r
      <2> QED BY <1>0, <2>1
    <1>2. ASSUME NEW i \in 1..(Len(q) - 1), NEW j \in 1..(Len(q) - 1), i < j
          PROVE  At(i) \in 1..Len(q) /\ At(j) \in 1..Len(q) /\ At(i) < At(j)
        BY <1>1, <1>2
    <1> HIDE DEF r, At
    <1>3. ASSUME NEW i \in 1..(Len(q) - 1), NEW j \in 1..(Len(q) - 1), i < j
          PROVE  \A x \in r[i], y \in r[j] : x < y
        BY <1>1, <1>2, <1>3 DEF InOrder
    <1> QED BY <1>1, <1>3 DEF InOrder, r

-----------------------------------------------------------------------------
(* SUMMARY: what every run keeps, whoever works next to whom. *)

\* An actor at work means that a round is stored.
Started == (\E a \in Actor : pc[a] # "idle") => rounds >= 1

\* A running pass has begun no more iterations than it may.
Counted == pc["pass"] # "idle" => passes <= MaxPasses

\* Nothing that is not stored is folded.
FoldedIsStored == row.cursor <= rounds /\ \A a \in Actor : copy[a].cursor <= rounds

\* The segment an actor summarizes is not empty, and stored.
Planned == \A a \in Actor : pc[a] = "summarize" =>
                From(copy[a].cursor) < until[a] /\ until[a] <= rounds

\* Whoever archives has a paragraph to archive, and one to keep.
Archiving == \A a \in Actor : pc[a] \in {"archive", "drop"} => Len(copy[a].text) > 1

FoldInv == TypeOK /\ Started /\ Counted /\ FoldedIsStored /\ Planned /\ Archiving

\* What the planning functions return.
LEMMA PlanBounds ==
    ASSUME rounds \in Nat, rounds >= 1, NEW a \in Actor, NEW c \in Row, c.cursor <= rounds
    PROVE  /\ From(c.cursor) \in Nat /\ From(c.cursor) >= 1 /\ From(c.cursor) >= c.cursor
           /\ From(c.cursor) <= rounds
           /\ Foldable(a, c) \in Nat
           /\ SegmentEnd(a, c) \in Nat /\ SegmentEnd(a, c) <= rounds
           /\ Foldable(a, c) >= MinFold => From(c.cursor) < SegmentEnd(a, c)
    <1>1. c.cursor \in Nat
        BY Watermarks DEF Row
    <1>2. Known(a) \in Nat /\ Known(a) <= rounds
        BY DEF Known
    <1>3. From(c.cursor) \in Nat /\ From(c.cursor) >= 1 /\ From(c.cursor) >= c.cursor
          /\ From(c.cursor) <= rounds
        BY <1>1 DEF From
    <1>4. /\ TailSize(a, c.cursor) \in Nat
          /\ TailSize(a, c.cursor) > 0 => TailSize(a, c.cursor) = Known(a) - From(c.cursor) + 1
        BY <1>2, <1>3 DEF TailSize
    <1>5. /\ Foldable(a, c) \in Nat
          /\ Foldable(a, c) > 0 => Foldable(a, c) = Known(a) - From(c.cursor)
        BY <1>2, <1>3, <1>4 DEF Foldable
    <1>6. \/ SegmentEnd(a, c) = From(c.cursor) + Foldable(a, c) /\ Foldable(a, c) < MaxFold
          \/ SegmentEnd(a, c) = From(c.cursor) + MaxFold /\ Foldable(a, c) >= MaxFold
      <2>1. CASE Foldable(a, c) < MaxFold
          BY <2>1 DEF SegmentEnd
      <2>2. CASE ~ (Foldable(a, c) < MaxFold)
          BY <2>2, <1>5, Watermarks DEF SegmentEnd
      <2> QED BY <2>1, <2>2
    <1> QED BY <1>2, <1>3, <1>5, <1>6, Watermarks

\* The candidate of an actor is a row, with its cursor ahead.
LEMMA FoldedIsRow ==
    ASSUME FoldInv, NEW a \in Actor, pc[a] = "summarize"
    PROVE  /\ Folded(a) \in Row /\ Folded(a).cursor = until[a] /\ until[a] <= rounds
           /\ Folded(a).text = Append(copy[a].text, From(copy[a].cursor)..(until[a] - 1))
           /\ From(copy[a].cursor)..(until[a] - 1) \in Paragraph
           /\ copy[a].cursor <= until[a] /\ From(copy[a].cursor) < until[a]
    <1>1. copy[a] \in Row /\ until[a] \in 0..MaxRounds /\ rounds \in 0..MaxRounds
        BY DEF FoldInv, TypeOK
    <1>2. copy[a].cursor \in Nat /\ copy[a].text \in Seq(Paragraph)
        BY <1>1, Watermarks DEF Row
    <1>3. From(copy[a].cursor) < until[a] /\ until[a] <= rounds
        BY DEF FoldInv, Planned
    <1>4. From(copy[a].cursor) \in Nat \ {0} /\ copy[a].cursor <= From(copy[a].cursor)
        BY <1>2 DEF From
    <1>5. From(copy[a].cursor)..(until[a] - 1) \in Paragraph
        BY <1>1, <1>4, Watermarks DEF Paragraph
    <1>6. Append(copy[a].text, From(copy[a].cursor)..(until[a] - 1)) \in Seq(Paragraph)
        BY <1>2, <1>5
    <1> QED BY <1>1, <1>2, <1>3, <1>4, <1>5, <1>6, Watermarks DEF Folded, Row

\* There is nothing yet.
LEMMA InitKeeps == Init => FoldInv
    <1> SUFFICES ASSUME Init PROVE FoldInv
        OBVIOUS
    <1> USE Watermarks DEF Init, Fresh, Actor
    <1>1. Fresh \in Row
        BY DEF Row
    <1>b. stale \in BOOLEAN
        OBVIOUS
    <1>2. TypeOK
        BY <1>1, <1>b DEF TypeOK, Place, Paragraph
    <1>3. Started /\ Counted /\ FoldedIsStored
        BY DEF Started, Counted, FoldedIsStored
    <1>4. Planned /\ Archiving
        BY DEF Planned, Archiving
    <1> QED BY <1>2, <1>3, <1>4 DEF FoldInv

\* Stuttering keeps everything.
LEMMA IdleKeeps == FoldInv /\ UNCHANGED vars => FoldInv'
    BY DEF vars, FoldInv, TypeOK, Started, Counted, FoldedIsStored, Planned, Archiving

\* The steps that only move an actor.
Moves == TurnFits \/ TurnProceeds \/ TurnEnd \/ PassFails \/ ManualFails

\* Where they move it.
LEMMA MovesForm ==
    ASSUME Moves
    PROVE  /\ UNCHANGED <<rounds, row, memory, removed, copy, until, passes, faults, stale>>
           /\ \/ pc["turn"] = "build" /\ GoTo("turn", "view")
              \/ pc["turn"] = "build" /\ GoTo("turn", "maintain")
              \/ \E a \in Actor : pc[a] # "blocked" /\ GoTo(a, "idle")
    BY DEF Moves, TurnFits, TurnProceeds, TurnEnd, PassFails, ManualFails, Actor

\* They keep the invariant.
LEMMA MovesKeeps ==
    ASSUME FoldInv, Moves
    PROVE  FoldInv'
    <1> USE Watermarks, MovesForm DEF FoldInv, GoTo, Actor
    <1>1. TypeOK'
        BY DEF TypeOK, Place
    <1>2. Started' /\ Counted'
        BY DEF TypeOK, Started, Counted
    <1>3. FoldedIsStored'
        BY DEF TypeOK, FoldedIsStored
    <1>4. Planned'
        BY DEF TypeOK, Planned
    <1>5. Archiving'
        BY DEF TypeOK, Archiving
    <1> QED BY <1>1, <1>2, <1>3, <1>4, <1>5

\* TurnStart keeps the invariant.
LEMMA TurnStartKeeps ==
    ASSUME FoldInv, TurnStart
    PROVE  FoldInv'
    <1> USE Watermarks DEF FoldInv, TurnStart, GoTo, Actor, InFlight
    <1>1. TypeOK'
        BY DEF TypeOK, Started, Counted, Place
    <1>2. Started' /\ Counted'
        BY DEF TypeOK, Started, Counted
    <1>3. FoldedIsStored'
        BY DEF TypeOK, Started, FoldedIsStored, Row
    <1>4. Planned'
        BY DEF TypeOK, Planned
    <1>5. Archiving'
        BY DEF TypeOK, Archiving, Row
    <1> QED BY <1>1, <1>2, <1>3, <1>4, <1>5

\* TurnBlocks keeps the invariant.
LEMMA TurnBlocksKeeps ==
    ASSUME FoldInv, TurnBlocks
    PROVE  FoldInv'
    <1> USE Watermarks DEF FoldInv, TurnBlocks, GoTo, Actor, InFlight
    <1>1. TypeOK'
        BY DEF TypeOK, Started, Counted, Place
    <1>2. Started' /\ Counted'
        BY DEF TypeOK, Started, Counted
    <1>3. FoldedIsStored'
        BY DEF TypeOK, Started, FoldedIsStored, Row
    <1>4. Planned'
        BY DEF TypeOK, Planned
    <1>5. Archiving'
        BY DEF TypeOK, Archiving, Row
    <1> QED BY <1>1, <1>2, <1>3, <1>4, <1>5

\* TurnSchedules keeps the invariant.
LEMMA TurnSchedulesKeeps ==
    ASSUME FoldInv, TurnSchedules
    PROVE  FoldInv'
    <1> USE Watermarks DEF FoldInv, TurnSchedules, GoTo, Actor, InFlight
    <1>1. TypeOK'
        BY DEF TypeOK, Started, Counted, Place
    <1>2. Started' /\ Counted'
        BY DEF TypeOK, Started, Counted
    <1>3. FoldedIsStored'
        BY DEF TypeOK, Started, FoldedIsStored, Row
    <1>4. Planned'
        BY DEF TypeOK, Planned
    <1>5. Archiving'
        BY DEF TypeOK, Archiving, Row
    <1> QED BY <1>1, <1>2, <1>3, <1>4, <1>5

\* TurnUnblocks keeps the invariant.
LEMMA TurnUnblocksKeeps ==
    ASSUME FoldInv, TurnUnblocks
    PROVE  FoldInv'
    <1> USE Watermarks DEF FoldInv, TurnUnblocks, GoTo, Actor, InFlight
    <1>1. TypeOK'
        BY DEF TypeOK, Started, Counted, Place
    <1>2. Started' /\ Counted'
        BY DEF TypeOK, Started, Counted
    <1>3. FoldedIsStored'
        BY DEF TypeOK, Started, FoldedIsStored, Row
    <1>4. Planned'
        BY DEF TypeOK, Planned
    <1>5. Archiving'
        BY DEF TypeOK, Archiving, Row
    <1> QED BY <1>1, <1>2, <1>3, <1>4, <1>5

\* Restart keeps the invariant.
LEMMA RestartKeeps ==
    ASSUME FoldInv, Restart
    PROVE  FoldInv'
    <1> USE Watermarks DEF FoldInv, Restart, GoTo, Actor, InFlight
    <1>1. TypeOK'
        BY DEF TypeOK, Started, Counted, Place
    <1>2. Started' /\ Counted'
        BY DEF TypeOK, Started, Counted
    <1>3. FoldedIsStored'
        BY DEF TypeOK, Started, FoldedIsStored, Row
    <1>4. Planned'
        BY DEF TypeOK, Planned
    <1>5. Archiving'
        BY DEF TypeOK, Archiving, Row
    <1> QED BY <1>1, <1>2, <1>3, <1>4, <1>5

\* ClearSummary keeps the invariant.
LEMMA ClearSummaryKeeps ==
    ASSUME FoldInv, ClearSummary
    PROVE  FoldInv'
    <1> USE Watermarks DEF FoldInv, ClearSummary, GoTo, Actor, InFlight
    <1>q. row.text \in Seq(Paragraph)
        BY DEF TypeOK, Row
    <1>s. ToSet(row.text) \subseteq Paragraph /\ <<>> \in Seq(Paragraph)
        BY <1>q, Members
    <1>c. row' \in Row /\ row'.cursor = row.cursor
        BY <1>s DEF TypeOK, Row
    <1>1. TypeOK'
        BY <1>s, <1>c DEF TypeOK, Started, Counted, Place
    <1>2. Started' /\ Counted'
        BY DEF TypeOK, Started, Counted
    <1>3. FoldedIsStored'
        BY <1>c DEF TypeOK, Started, FoldedIsStored, Row
    <1>4. Planned'
        BY DEF TypeOK, Planned
    <1>5. Archiving'
        BY DEF TypeOK, Archiving, Row
    <1> QED BY <1>1, <1>2, <1>3, <1>4, <1>5

\* PassReads keeps the invariant.
LEMMA PassReadsKeeps ==
    ASSUME FoldInv, PassReads
    PROVE  FoldInv'
    <1> USE Watermarks DEF FoldInv, PassReads, PassCounts, GoTo, Actor, InFlight
    <1>0. rounds \in Nat /\ rounds >= 1 /\ row \in Row /\ row.cursor <= rounds
        BY DEF TypeOK, Started, FoldedIsStored
    <1>p. /\ SegmentEnd("pass", row) \in Nat /\ SegmentEnd("pass", row) <= rounds
          /\ Foldable("pass", row) \in Nat
          /\ Foldable("pass", row) >= MinFold => From(row.cursor) < SegmentEnd("pass", row)
        BY <1>0, PlanBounds
    <1> HIDE DEF GoTo
    <1>g. \/ /\ GoTo("pass", "idle")
          \/ /\ GoTo("pass", "maintain") /\ passes < MaxPasses
          \/ /\ GoTo("pass", "summarize") /\ passes < MaxPasses /\ Foldable("pass", row) >= MinFold
        BY <1>p DEF TypeOK
    <1> USE DEF GoTo
    <1>1. TypeOK'
        BY <1>0, <1>p, <1>g DEF TypeOK, Started, Counted, Place
    <1>2. Started' /\ Counted'
        BY <1>0, <1>g DEF TypeOK, Started, Counted
    <1>3. FoldedIsStored'
        BY <1>0, <1>p, <1>g DEF TypeOK, Started, FoldedIsStored, Row
    <1>4. Planned'
        BY <1>0, <1>p, <1>g DEF TypeOK, Planned
    <1>5. Archiving'
        BY <1>0, <1>p, <1>g DEF TypeOK, Archiving, Row
    <1> QED BY <1>1, <1>2, <1>3, <1>4, <1>5

\* ManualStart keeps the invariant.
LEMMA ManualStartKeeps ==
    ASSUME FoldInv, ManualStart
    PROVE  FoldInv'
    <1> USE Watermarks DEF FoldInv, ManualStart, GoTo, Actor, InFlight
    <1>0. rounds \in Nat /\ row \in Row /\ row.cursor <= rounds
        BY DEF TypeOK, FoldedIsStored
    <1>r. rounds >= 1
        BY <1>0 DEF TailSize, From, Known, Row
    <1>p. /\ SegmentEnd("manual", row) \in Nat /\ SegmentEnd("manual", row) <= rounds
          /\ Foldable("manual", row) \in Nat
          /\ Foldable("manual", row) >= MinFold => From(row.cursor) < SegmentEnd("manual", row)
        BY <1>0, <1>r, PlanBounds
    <1> HIDE DEF GoTo
    <1>g. \/ /\ GoTo("manual", "maintain")
          \/ /\ GoTo("manual", "summarize") /\ Foldable("manual", row) >= MinFold
        BY <1>p DEF TypeOK
    <1> USE DEF GoTo
    <1>1. TypeOK'
        BY <1>0, <1>p, <1>g DEF TypeOK, Started, Counted, Place
    <1>2. Started' /\ Counted'
        BY <1>0, <1>g, <1>r DEF TypeOK, Started, Counted
    <1>3. FoldedIsStored'
        BY <1>0, <1>p, <1>g DEF TypeOK, Started, FoldedIsStored, Row
    <1>4. Planned'
        BY <1>0, <1>p, <1>g DEF TypeOK, Planned
    <1>5. Archiving'
        BY <1>0, <1>p, <1>g DEF TypeOK, Archiving, Row
    <1> QED BY <1>1, <1>2, <1>3, <1>4, <1>5

\* PassFolds keeps the invariant.
LEMMA PassFoldsKeeps ==
    ASSUME FoldInv, PassFolds
    PROVE  FoldInv'
    <1> USE Watermarks DEF FoldInv, PassFolds, GoTo, Actor, InFlight
    <1>f. pc["pass"] = "summarize" => /\ Folded("pass") \in Row /\ Folded("pass").cursor <= rounds
        BY FoldedIsRow
    <1>1. TypeOK'
        BY <1>f DEF TypeOK, Started, Counted, Place
    <1>2. Started' /\ Counted'
        BY DEF TypeOK, Started, Counted
    <1>3. FoldedIsStored'
        BY <1>f DEF TypeOK, Started, FoldedIsStored, Row
    <1>4. Planned'
        BY <1>f DEF TypeOK, Planned
    <1>5. Archiving'
        BY <1>f DEF TypeOK, Archiving, Row
    <1> QED BY <1>1, <1>2, <1>3, <1>4, <1>5

\* ManualFolds keeps the invariant.
LEMMA ManualFoldsKeeps ==
    ASSUME FoldInv, ManualFolds
    PROVE  FoldInv'
    <1> USE Watermarks DEF FoldInv, ManualFolds, Passed, GoTo, Actor, InFlight
    <1>f. pc["manual"] = "summarize" => /\ Folded("manual") \in Row
                                        /\ Folded("manual").cursor <= rounds
        BY FoldedIsRow
    <1>1. TypeOK'
        BY <1>f DEF TypeOK, Started, Counted, Place
    <1>2. Started' /\ Counted'
        BY DEF TypeOK, Started, Counted
    <1>3. FoldedIsStored'
        BY <1>f DEF TypeOK, Started, FoldedIsStored, Row
    <1>4. Planned'
        BY <1>f DEF TypeOK, Planned
    <1>5. Archiving'
        BY <1>f DEF TypeOK, Archiving, Row
    <1> QED BY <1>1, <1>2, <1>3, <1>4, <1>5

\* MaintainBegin keeps the invariant.
LEMMA MaintainBeginKeeps ==
    ASSUME FoldInv, NEW a \in Actor, MaintainBegin(a)
    PROVE  FoldInv'
    <1> USE Watermarks DEF FoldInv, MaintainBegin, WriteText, Passed, GoTo, Actor, InFlight
    <1>a. \/ a = "turn" /\ AfterMaintenance(a) = "view"
          \/ a = "pass" /\ AfterMaintenance(a) = "read"
          \/ a = "manual" /\ AfterMaintenance(a) = "idle"
        BY DEF AfterMaintenance
    <1>b. \/ GoTo(a, "archive") /\ MustArchive(copy[a].text)
          \/ GoTo(a, AfterMaintenance(a))
        OBVIOUS
    <1>c. row' \in Row /\ row'.cursor = row.cursor
        BY DEF TypeOK, Row
    <1>1. TypeOK'
        BY <1>a, <1>b, <1>c DEF TypeOK, Started, Counted, Place
    <1>2. Started' /\ Counted'
        BY <1>a, <1>b DEF TypeOK, Started, Counted
    <1>3. FoldedIsStored'
        BY <1>a, <1>b, <1>c DEF TypeOK, Started, FoldedIsStored, Row
    <1>4. Planned'
        BY <1>a, <1>b, <1>c DEF TypeOK, Planned
    <1>5. Archiving'
        BY <1>a, <1>b, <1>c DEF MustArchive, TypeOK, Archiving, Row
    <1> QED BY <1>1, <1>2, <1>3, <1>4, <1>5

\* ArchiveFails keeps the invariant.
LEMMA ArchiveFailsKeeps ==
    ASSUME FoldInv, NEW a \in Actor, ArchiveFails(a)
    PROVE  FoldInv'
    <1> USE Watermarks DEF FoldInv, ArchiveFails, GoTo, Actor, InFlight
    <1>a. \/ a = "turn" /\ AfterMaintenance(a) = "view"
          \/ a = "pass" /\ AfterMaintenance(a) = "read"
          \/ a = "manual" /\ AfterMaintenance(a) = "idle"
        BY DEF AfterMaintenance
    <1>h. copy[a].text \in Seq(Paragraph) /\ copy[a].text # <<>> /\ Head(copy[a].text) \in Paragraph
      <2>1. copy[a].text \in Seq(Paragraph) /\ Len(copy[a].text) > 1
          BY DEF TypeOK, Row, Archiving
      <2>2. copy[a].text # <<>>
          BY <2>1
      <2> QED BY <2>1, <2>2, TailMembers
    <1>n. memory \in Seq(Paragraph) /\ Append(memory, Head(copy[a].text)) \in Seq(Paragraph)
        BY <1>h DEF TypeOK
    <1>m. memory' \in Seq(Paragraph)
        BY <1>n
    <1>1. TypeOK'
        BY <1>a, <1>m DEF TypeOK, Started, Counted, Place
    <1>2. Started' /\ Counted'
        BY <1>a DEF TypeOK, Started, Counted
    <1>3. FoldedIsStored'
        BY <1>a DEF TypeOK, Started, FoldedIsStored, Row
    <1>4. Planned'
        BY <1>a DEF TypeOK, Planned
    <1>5. Archiving'
        BY <1>a DEF TypeOK, Archiving, Row
    <1> QED BY <1>1, <1>2, <1>3, <1>4, <1>5

\* ArchiveStores keeps the invariant.
LEMMA ArchiveStoresKeeps ==
    ASSUME FoldInv, NEW a \in Actor, ArchiveStores(a)
    PROVE  FoldInv'
    <1> USE Watermarks DEF FoldInv, ArchiveStores, GoTo, Actor, InFlight
    <1>a. \/ a = "turn" /\ AfterMaintenance(a) = "view"
          \/ a = "pass" /\ AfterMaintenance(a) = "read"
          \/ a = "manual" /\ AfterMaintenance(a) = "idle"
        BY DEF AfterMaintenance
    <1>h. copy[a].text \in Seq(Paragraph) /\ copy[a].text # <<>> /\ Head(copy[a].text) \in Paragraph
      <2>1. copy[a].text \in Seq(Paragraph) /\ Len(copy[a].text) > 1
          BY DEF TypeOK, Row, Archiving
      <2>2. copy[a].text # <<>>
          BY <2>1
      <2> QED BY <2>1, <2>2, TailMembers
    <1>m. memory' \in Seq(Paragraph)
        BY <1>h DEF TypeOK
    <1>1. TypeOK'
        BY <1>a, <1>m DEF TypeOK, Started, Counted, Place
    <1>2. Started' /\ Counted'
        BY <1>a DEF TypeOK, Started, Counted
    <1>3. FoldedIsStored'
        BY <1>a DEF TypeOK, Started, FoldedIsStored, Row
    <1>4. Planned'
        BY <1>a DEF TypeOK, Planned
    <1>5. Archiving'
        BY <1>a DEF TypeOK, Archiving, Row
    <1> QED BY <1>1, <1>2, <1>3, <1>4, <1>5

\* DropOldest keeps the invariant.
LEMMA DropOldestKeeps ==
    ASSUME FoldInv, NEW a \in Actor, DropOldest(a)
    PROVE  FoldInv'
    <1> USE Watermarks DEF FoldInv, DropOldest, WriteText, Passed, GoTo, Actor, InFlight
    <1>a. \/ a = "turn" /\ AfterMaintenance(a) = "view"
          \/ a = "pass" /\ AfterMaintenance(a) = "read"
          \/ a = "manual" /\ AfterMaintenance(a) = "idle"
        BY DEF AfterMaintenance
    <1>h. copy[a].text \in Seq(Paragraph) /\ copy[a].text # <<>> /\ Head(copy[a].text) \in Paragraph
      <2>1. copy[a].text \in Seq(Paragraph) /\ Len(copy[a].text) > 1
          BY DEF TypeOK, Row, Archiving
      <2>2. copy[a].text # <<>>
          BY <2>1
      <2> QED BY <2>1, <2>2, TailMembers
    <1>t. Tail(copy[a].text) \in Seq(Paragraph)
        BY <1>h, TailMembers
    <1>r. /\ [row EXCEPT !.text = Tail(copy[a].text)] \in Row
          /\ [copy[a] EXCEPT !.text = Tail(copy[a].text)] \in Row
          /\ [row EXCEPT !.text = Tail(copy[a].text)].cursor = row.cursor
          /\ [copy[a] EXCEPT !.text = Tail(copy[a].text)].cursor = copy[a].cursor
        BY <1>t DEF TypeOK, Row
    <1>c. /\ row' \in Row /\ row'.cursor = row.cursor
          /\ copy' = [copy EXCEPT ![a] = [copy[a] EXCEPT !.text = Tail(copy[a].text)]]
          /\ copy'[a].text = Tail(copy[a].text) /\ copy'[a].cursor = copy[a].cursor
        BY <1>r DEF TypeOK
    <1>b. \/ GoTo(a, "archive") /\ MustArchive(Tail(copy[a].text))
          \/ GoTo(a, AfterMaintenance(a))
        OBVIOUS
    <1> HIDE DEF DropOldest
    <1>u. /\ UNCHANGED <<rounds, memory, removed, until, passes, faults>> /\ pc[a] = "drop"
          /\ stale' \in BOOLEAN
        BY DEF DropOldest, TypeOK
    <1>1. TypeOK'
        BY <1>a, <1>b, <1>c, <1>r, <1>u DEF TypeOK, Started, Counted, Place
    <1>2. Started' /\ Counted'
        BY <1>a, <1>b, <1>u DEF TypeOK, Started, Counted
    <1>3. FoldedIsStored'
        BY <1>a, <1>b, <1>c, <1>u DEF TypeOK, Started, FoldedIsStored, Row
    <1>4. Planned'
        BY <1>a, <1>b, <1>c, <1>u DEF TypeOK, Planned
    <1>5. Archiving'
        BY <1>a, <1>b, <1>c, <1>u DEF MustArchive, TypeOK, Archiving, Row
    <1> QED BY <1>1, <1>2, <1>3, <1>4, <1>5

\* DeleteSegment keeps the invariant.
LEMMA DeleteSegmentKeeps ==
    ASSUME FoldInv, NEW i \in 1..Len(row.text), DeleteSegment(i)
    PROVE  FoldInv'
    <1> USE Watermarks DEF FoldInv, DeleteSegment, GoTo, Actor, InFlight
    <1>q. row.text \in Seq(Paragraph)
        BY DEF TypeOK, Row
    <1>r. RemoveAt(row.text, i) \in Seq(Paragraph) /\ row.text[i] \in Paragraph
        BY <1>q, RemovedMembers
    <1>c. row' \in Row /\ row'.cursor = row.cursor
        BY <1>r DEF TypeOK, Row
    <1>1. TypeOK'
        BY <1>r, <1>c DEF TypeOK, Started, Counted, Place
    <1>2. Started' /\ Counted'
        BY DEF TypeOK, Started, Counted
    <1>3. FoldedIsStored'
        BY <1>c DEF TypeOK, Started, FoldedIsStored, Row
    <1>4. Planned'
        BY <1>c DEF TypeOK, Planned
    <1>5. Archiving'
        BY <1>c DEF TypeOK, Archiving, Row
    <1> QED BY <1>1, <1>2, <1>3, <1>4, <1>5

\* Every step keeps the invariant.
LEMMA NextKeeps == FoldInv /\ [Next]_vars => FoldInv'
    BY IdleKeeps, MovesKeeps, TurnStartKeeps, TurnBlocksKeeps, TurnSchedulesKeeps,
       TurnUnblocksKeeps, PassReadsKeeps, PassFoldsKeeps, ManualStartKeeps, ManualFoldsKeeps,
       MaintainBeginKeeps, ArchiveFailsKeeps, ArchiveStoresKeeps, DropOldestKeeps,
       DeleteSegmentKeeps, ClearSummaryKeeps, RestartKeeps
    DEF Next, Turn, Pass, Manual, Maintain, Edit, Moves

-----------------------------------------------------------------------------
(* SUMMARY: what a step does to the row, to long-term memory, to the copies. *)

\* What becomes of the folded rounds if L0 is this text.
Holds(text) == ToSet(text) \cup ToSet(memory) \cup removed

\* What lies below the cursor of a copy is in it, in memory, or was deleted.
Covers(c) == 1..(c.cursor - 1) \subseteq UNION Holds(c.text)

\* What is dropped from L0 is in long-term memory.
DroppedIsStored == \A a \in Actor : pc[a] = "drop" => Head(copy[a].text) \in ToSet(memory)

\* The row is written from a copy that no fold has passed, or it is noted.
NotPassed(a) == stale' \/ copy[a].cursor = row.cursor

\* A step that writes nothing; actors may read the row.
Reads == /\ UNCHANGED <<row, memory, removed>>
         /\ \A a \in Actor : copy'[a] = copy[a] \/ copy'[a] = row

\* A fold: the row becomes the candidate of an actor.
FoldedBy(a) == /\ pc[a] = "summarize"
               /\ row' = Folded(a)
               /\ \A b \in Actor : copy'[b] = IF b = a THEN Folded(a) ELSE copy[b]
               /\ UNCHANGED <<memory, removed>>
               /\ NotPassed(a)

\* An edit: paragraphs go, and are known to be deleted.
Edits == /\ "edit" \in Others
         /\ UNCHANGED <<memory, copy>>
         /\ row'.cursor = row.cursor
         /\ row'.text \in Seq(Paragraph) /\ Len(row'.text) <= Len(row.text)
         /\ ToSet(row'.text) \cup removed' = ToSet(row.text) \cup removed
         /\ removed \subseteq removed'
         /\ InOrder(row.text) => InOrder(row'.text)

\* An archive: the oldest paragraph of a copy may have become a memory.
Stores(a) == /\ pc[a] = "archive"
             /\ UNCHANGED <<row, removed, copy>>
             /\ ToSet(memory) \subseteq ToSet(memory')
             /\ ToSet(memory') \subseteq ToSet(memory) \cup ToSet(copy[a].text)

\* The text of the row is written from a copy: shortened, or without a paragraph that memory has.
Rewrites(a) == /\ pc[a] = "drop" \/ "long" \in Others
               /\ UNCHANGED <<memory, removed>>
               /\ row'.cursor = row.cursor /\ copy'[a].text = row'.text
               /\ copy'[a].cursor = copy[a].cursor
               /\ \A b \in Actor : b # a => copy'[b] = copy[b]
               /\ ToSet(row'.text) \subseteq ToSet(copy[a].text)
               /\ ToSet(copy[a].text) \subseteq ToSet(row'.text) \cup ToSet(memory)
               /\ InOrder(copy[a].text) => InOrder(row'.text)
               /\ NotPassed(a)

\* What every step is, and how one comes to archive and to drop.
StepForm == /\ \/ Reads
               \/ Edits
               \/ \E a \in Actor : FoldedBy(a) \/ Stores(a) \/ Rewrites(a)
            /\ stale => stale'
            /\ \A a \in Actor : pc'[a] \in {"archive", "drop"} =>
                                   pc[a] \in {"archive", "drop"} \/ MustArchive(copy[a].text)
            /\ \A a \in Actor : pc'[a] = "drop" =>
                                   \/ pc[a] = "drop" /\ copy'[a].text = copy[a].text
                                   \/ Head(copy'[a].text) \in ToSet(memory')

\* Nobody who reads or folds comes to archive.
LEMMA ReadForm ==
    ASSUME FoldInv, Moves \/ TurnStart \/ TurnBlocks \/ TurnSchedules \/ TurnUnblocks
                          \/ PassReads \/ ManualStart \/ Restart \/ UNCHANGED vars
    PROVE  StepForm
    <1>0. pc \in [Actor -> Place] /\ copy \in [Actor -> Row] /\ row \in Row
        BY DEF FoldInv, TypeOK
    <1> USE DEF StepForm, Reads, GoTo, Actor
    <1>1. CASE Moves
        BY <1>0, <1>1, MovesForm
    <1>2. CASE TurnStart
        BY <1>0, <1>2 DEF TurnStart
    <1>3. CASE TurnBlocks
        BY <1>0, <1>3 DEF TurnBlocks
    <1>4. CASE TurnSchedules
        BY <1>0, <1>4 DEF TurnSchedules
    <1>5. CASE TurnUnblocks
        BY <1>0, <1>5 DEF TurnUnblocks
    <1>6. CASE PassReads
        BY <1>0, <1>6 DEF PassReads
    <1>7. CASE ManualStart
        BY <1>0, <1>7 DEF ManualStart
    <1>8. CASE Restart
        BY <1>0, <1>8 DEF Restart
    <1>9. CASE UNCHANGED vars
        BY <1>0, <1>9 DEF vars
    <1> QED BY <1>1, <1>2, <1>3, <1>4, <1>5, <1>6, <1>7, <1>8, <1>9

\* The two folds: the pass asks whether the cursor moved, the button does not.
LEMMA FoldForm ==
    ASSUME FoldInv, PassFolds \/ ManualFolds
    PROVE  StepForm
    <1>0. pc \in [Actor -> Place] /\ copy \in [Actor -> Row] /\ row \in Row
        BY DEF FoldInv, TypeOK
    <1> USE DEF StepForm, GoTo, Actor
    <1>1. CASE PassFolds /\ row.cursor = copy["pass"].cursor
        BY <1>0, <1>1 DEF PassFolds, FoldedBy, NotPassed
    <1>2. CASE PassFolds /\ row.cursor # copy["pass"].cursor
        BY <1>0, <1>2 DEF PassFolds, Reads
    <1>3. CASE ManualFolds
        BY <1>0, <1>3 DEF ManualFolds, FoldedBy, NotPassed, Passed
    <1> QED BY <1>1, <1>2, <1>3

\* What whoever archives has.
LEMMA ArchivingHas ==
    ASSUME FoldInv, NEW a \in Actor, pc[a] \in {"archive", "drop"}
    PROVE  /\ copy[a].text \in Seq(Paragraph) /\ copy[a].text # <<>>
           /\ Head(copy[a].text) \in ToSet(copy[a].text) /\ Head(copy[a].text) \in Paragraph
           /\ ToSet(copy[a].text) = {Head(copy[a].text)} \cup ToSet(Tail(copy[a].text))
    <1>1. copy[a].text \in Seq(Paragraph) /\ Len(copy[a].text) > 1
        BY DEF FoldInv, TypeOK, Row, Archiving
    <1>2. copy[a].text # <<>>
        BY <1>1
    <1> QED BY <1>1, <1>2, TailMembers

\* The maintenance of L0.
LEMMA MaintainForm ==
    ASSUME FoldInv, DroppedIsStored, NEW a \in Actor, Maintain(a)
    PROVE  StepForm
    <1>0. /\ pc \in [Actor -> Place] /\ copy \in [Actor -> Row] /\ row \in Row
          /\ memory \in Seq(Paragraph)
        BY DEF FoldInv, TypeOK
    <1>a. AfterMaintenance(a) \in {"view", "read", "idle"}
        BY DEF AfterMaintenance, Actor
    <1>1. CASE MaintainBegin(a)
      <2>1. \/ GoTo(a, "archive") /\ MustArchive(copy[a].text)
            \/ GoTo(a, AfterMaintenance(a))
          BY <1>1 DEF MaintainBegin
      <2>2. Reads \/ Rewrites(a)
        <3>1. CASE UNCHANGED <<row, stale>>
            BY <1>1, <3>1 DEF MaintainBegin, Reads
        <3>2. CASE "long" \in Others /\ WriteText(a, copy[a].text)
          <4>1. row'.text = copy[a].text /\ row'.cursor = row.cursor
              BY <1>0, <3>2 DEF WriteText, Row
          <4> QED BY <1>0, <1>1, <3>2, <4>1 DEF MaintainBegin, Rewrites, WriteText, Passed,
                  NotPassed
        <3> QED BY <1>1, <3>1, <3>2 DEF MaintainBegin
      <2>3. UNCHANGED copy
          BY <1>1 DEF MaintainBegin
      <2>4. stale => stale'
        <3>1. CASE UNCHANGED <<row, stale>>
            BY <3>1
        <3>2. CASE WriteText(a, copy[a].text)
            BY <3>2 DEF WriteText, Passed
        <3> QED BY <1>1, <3>1, <3>2 DEF MaintainBegin
      <2> QED BY <1>0, <1>a, <2>1, <2>2, <2>3, <2>4 DEF StepForm, GoTo
    <1>2. CASE ArchiveFails(a) \/ ArchiveStores(a)
      <2>h. /\ Head(copy[a].text) \in ToSet(copy[a].text) /\ Head(copy[a].text) \in Paragraph
          BY <1>2, ArchivingHas DEF ArchiveFails, ArchiveStores
      <2>1. /\ memory' = memory \/ memory' = Append(memory, Head(copy[a].text))
            /\ UNCHANGED <<row, removed, copy, stale>> /\ pc[a] = "archive"
          BY <1>2 DEF ArchiveFails, ArchiveStores
      <2>2. ToSet(Append(memory, Head(copy[a].text))) = ToSet(memory) \cup {Head(copy[a].text)}
          BY <1>0, <2>h, AppendMembers
      <2>3. Stores(a)
          BY <2>h, <2>1, <2>2 DEF Stores
      <2>4. \/ GoTo(a, AfterMaintenance(a))
            \/ GoTo(a, "drop") /\ memory' = Append(memory, Head(copy[a].text))
          BY <1>2 DEF ArchiveFails, ArchiveStores
      <2> QED BY <1>0, <1>a, <2>1, <2>2, <2>3, <2>4 DEF StepForm, GoTo
    <1>3. CASE DropOldest(a)
      <2> DEFINE rest == Tail(copy[a].text)
      <2>h. /\ copy[a].text \in Seq(Paragraph) /\ copy[a].text # <<>> /\ pc[a] = "drop"
            /\ ToSet(copy[a].text) = {Head(copy[a].text)} \cup ToSet(rest)
            /\ Head(copy[a].text) \in ToSet(memory)
          BY <1>3, ArchivingHas DEF DropOldest, DroppedIsStored
      <2>o. InOrder(copy[a].text) => InOrder(rest)
          BY <2>h, TailInOrder
      <2>1. \/ GoTo(a, "archive")
            \/ GoTo(a, AfterMaintenance(a))
          BY <1>3 DEF DropOldest
      <2>2. /\ row'.text = rest /\ row'.cursor = row.cursor
            /\ copy'[a].text = rest /\ copy'[a].cursor = copy[a].cursor
            /\ \A b \in Actor : b # a => copy'[b] = copy[b]
            /\ UNCHANGED <<memory, removed>> /\ (stale => stale') /\ NotPassed(a)
          BY <1>0, <1>3 DEF DropOldest, WriteText, Passed, NotPassed, Row
      <2> HIDE DEF rest
      <2>3. Rewrites(a)
          BY <2>h, <2>o, <2>2 DEF Rewrites
      <2> QED BY <1>0, <1>a, <2>h, <2>1, <2>2, <2>3 DEF StepForm, GoTo
    <1> QED BY <1>1, <1>2, <1>3 DEF Maintain

\* The edits of the user.
LEMMA EditForm ==
    ASSUME FoldInv, Edit
    PROVE  StepForm
    <1>0. pc \in [Actor -> Place] /\ row \in Row /\ row.text \in Seq(Paragraph)
        BY DEF FoldInv, TypeOK, Row
    <1>1. ASSUME NEW i \in 1..Len(row.text), DeleteSegment(i)
          PROVE  Edits
      <2>1. /\ RemoveAt(row.text, i) \in Seq(Paragraph)
            /\ ToSet(row.text) = {row.text[i]} \cup ToSet(RemoveAt(row.text, i))
            /\ InOrder(row.text) => InOrder(RemoveAt(row.text, i))
          BY <1>0, RemovedMembers, RemovedInOrder
      <2>0. Len(row.text) \in Nat /\ i \in 1..Len(row.text)
          BY <1>0
      <2>2. Len(RemoveAt(row.text, i)) = Len(row.text) - 1 /\ Len(row.text) \in Nat
          BY <1>0, <2>0, DropAt
      <2>3. row'.text = RemoveAt(row.text, i) /\ row'.cursor = row.cursor
          BY <1>0, <1>1 DEF DeleteSegment, Row
      <2>4. /\ "edit" \in Others /\ removed' = removed \cup {row.text[i]}
            /\ UNCHANGED <<memory, copy>>
          BY <1>1 DEF DeleteSegment
      <2> QED BY <2>1, <2>2, <2>3, <2>4 DEF Edits
    <1>2. ASSUME ClearSummary PROVE Edits
      <2>1. row'.text = <<>> /\ row'.cursor = row.cursor
          BY <1>0, <1>2 DEF ClearSummary, Row
      <2>2. /\ Len(row.text) \in Nat /\ Len(<<>>) = 0 /\ <<>> \in Seq(Paragraph)
            /\ ToSet(<<>>) = {} /\ InOrder(<<>>)
          BY <1>0, NothingHeld DEF InOrder
      <2>3. /\ "edit" \in Others /\ removed' = removed \cup ToSet(row.text)
            /\ UNCHANGED <<memory, copy>>
          BY <1>2 DEF ClearSummary
      <2>4. /\ ToSet(row'.text) \cup removed' = ToSet(row.text) \cup removed
            /\ removed \subseteq removed'
          BY <2>1, <2>2, <2>3
      <2>5. row'.text \in Seq(Paragraph) /\ Len(row'.text) <= Len(row.text)
          BY <2>1, <2>2
      <2>6. InOrder(row.text) => InOrder(row'.text)
          BY <2>1, <2>2
      <2> QED BY <2>1, <2>3, <2>4, <2>5, <2>6 DEF Edits
    <1>3. UNCHANGED <<pc, copy, stale>>
        BY DEF Edit, DeleteSegment, ClearSummary
    <1> QED BY <1>1, <1>2, <1>3 DEF Edit, StepForm

\* Every step has the form.
LEMMA NextForm == FoldInv /\ DroppedIsStored /\ [Next]_vars => StepForm
    BY ReadForm, FoldForm, MaintainForm, EditForm DEF Next, Turn, Pass, Manual, Moves

\* What is dropped stays stored.
LEMMA DroppedStep == DroppedIsStored /\ StepForm => DroppedIsStored'
    <1> SUFFICES ASSUME DroppedIsStored, StepForm PROVE DroppedIsStored'
        OBVIOUS
    <1>1. ToSet(memory) \subseteq ToSet(memory')
        BY DEF StepForm, Reads, Edits, FoldedBy, Stores, Rewrites
    <1> QED BY <1>1 DEF StepForm, DroppedIsStored

\* What a fold holds more than the copy it was made of.
LEMMA FoldedHolds ==
    ASSUME FoldInv, NEW a \in Actor, pc[a] = "summarize"
    PROVE  LET P == From(copy[a].cursor)..(until[a] - 1)
           IN  /\ Folded(a).text = Append(copy[a].text, P) /\ Folded(a).cursor = until[a]
               /\ copy[a].text \in Seq(Paragraph) /\ P \in Paragraph
               /\ ToSet(Folded(a).text) = ToSet(copy[a].text) \cup {P}
               /\ Len(Folded(a).text) = Len(copy[a].text) + 1
               /\ copy[a].cursor \in Nat /\ until[a] \in Nat
               /\ From(copy[a].cursor) = IF copy[a].cursor = 0 THEN 1 ELSE copy[a].cursor
               /\ copy[a].cursor < until[a] /\ From(copy[a].cursor) < until[a]
    <1> DEFINE P == From(copy[a].cursor)..(until[a] - 1)
    <1>1. /\ Folded(a).text = Append(copy[a].text, P) /\ P \in Paragraph
          /\ Folded(a).cursor = until[a] /\ From(copy[a].cursor) < until[a]
        BY FoldedIsRow
    <1>2. copy[a] \in Row /\ until[a] \in Nat
        BY Watermarks DEF FoldInv, TypeOK
    <1>3. copy[a].text \in Seq(Paragraph) /\ copy[a].cursor \in Nat
        BY <1>2, Watermarks DEF Row
    <1>4. From(copy[a].cursor) = IF copy[a].cursor = 0 THEN 1 ELSE copy[a].cursor
        BY <1>3 DEF From
    <1> HIDE DEF P
    <1>5. /\ ToSet(Append(copy[a].text, P)) = ToSet(copy[a].text) \cup {P}
          /\ Len(Append(copy[a].text, P)) = Len(copy[a].text) + 1
        BY <1>1, <1>3, AppendMembers, AddLast
    <1>6. copy[a].cursor < until[a]
        BY <1>1, <1>2, <1>3, <1>4
    <1> QED BY <1>1, <1>2, <1>3, <1>4, <1>5, <1>6 DEF P

-----------------------------------------------------------------------------
(* SUMMARY: no fold is lost, and none is kept twice, until an actor writes the *)
(* row from a copy that a fold has passed. A copy that is only old says nothing *)
(* wrong: what it holds, the row holds, or long-term memory, or the user deleted *)
(* it (CopyIsKept); and a copy with the cursor of the row says the same as the  *)
(* row. Passes, the button, turns, edits and failures are anywhere.             *)

\* What L0, long-term memory and the user hold is exactly what is folded, and once.
KeptExactly ==
    /\ UNION Holds(row.text) = 1..(row.cursor - 1)
    /\ \A p, q \in Holds(row.text) : p = q \/ p \cap q = {}
    /\ InOrder(row.text)

\* A copy holds nothing the row has lost, and everything if no fold has passed it.
CopyIsKept(a) ==
    /\ copy[a].cursor <= row.cursor
    /\ ToSet(copy[a].text) \subseteq Holds(row.text)
    /\ copy[a].cursor = row.cursor => ToSet(row.text) \subseteq Holds(copy[a].text)
    /\ InOrder(copy[a].text)
    /\ Covers(copy[a])

Kept == KeptExactly /\ \A a \in Actor : CopyIsKept(a)

KeptInv == FoldInv /\ DroppedIsStored /\ (stale \/ Kept)

\* A copy with the cursor of the row says what the row says.
LEMMA SameHolds ==
    ASSUME NEW a \in Actor, CopyIsKept(a), copy[a].cursor = row.cursor
    PROVE  Holds(copy[a].text) = Holds(row.text)
    BY DEF CopyIsKept, Holds

\* Reading the row.
LEMMA ReadsIsKept ==
    ASSUME FoldInv, Kept, Reads
    PROVE  Kept'
    <1>0. row.cursor \in Nat
        BY Watermarks DEF FoldInv, TypeOK, Row
    <1>1. KeptExactly'
        BY DEF Reads, Kept, KeptExactly, Holds
    <1>2. ASSUME NEW a \in Actor PROVE CopyIsKept(a)'
      <2>1. CASE copy'[a] = copy[a]
          BY <2>1 DEF Reads, Kept, CopyIsKept, Holds, Covers
      <2>2. CASE copy'[a] = row
          BY <2>2, <1>0 DEF Reads, Kept, KeptExactly, CopyIsKept, Holds, Covers
      <2> QED BY <2>1, <2>2 DEF Reads
    <1> QED BY <1>1, <1>2 DEF Kept

\* Whatever leaves what is held as it is keeps a copy that is left as it is.
LEMMA CopyStays ==
    ASSUME NEW a \in Actor, CopyIsKept(a), copy'[a] = copy[a], row'.cursor = row.cursor,
           Holds(row.text)' = Holds(row.text),
           ToSet(memory) \cup removed \subseteq ToSet(memory') \cup removed',
           ToSet(row'.text) \subseteq Holds(row.text)
    PROVE  CopyIsKept(a)'
    <1>1. Holds(copy[a].text) \subseteq Holds(copy[a].text)'
        BY DEF Holds
    <1>2. Covers(copy[a])'
        BY <1>1 DEF CopyIsKept, Covers
    <1>3. copy[a].cursor = row.cursor => ToSet(row'.text) \subseteq Holds(copy[a].text)'
        BY <1>1, SameHolds
    <1> QED BY <1>2, <1>3 DEF CopyIsKept

\* An edit.
LEMMA EditsIsKept ==
    ASSUME Kept, Edits
    PROVE  Kept'
    <1>1. Holds(row.text)' = Holds(row.text)
        BY DEF Edits, Holds
    <1>2. KeptExactly'
        BY <1>1 DEF Edits, Kept, KeptExactly
    <1>3. ToSet(memory) \cup removed \subseteq ToSet(memory') \cup removed'
        BY DEF Edits
    <1>4. ToSet(row'.text) \subseteq Holds(row.text)
        BY <1>1 DEF Holds
    <1>5. ASSUME NEW a \in Actor PROVE CopyIsKept(a)'
        BY <1>1, <1>3, <1>4, CopyStays DEF Edits, Kept
    <1> QED BY <1>2, <1>5 DEF Kept

\* An archive.
LEMMA StoresIsKept ==
    ASSUME Kept, NEW a \in Actor, Stores(a)
    PROVE  Kept'
    <1>1. ToSet(copy[a].text) \subseteq Holds(row.text)
        BY DEF Kept, CopyIsKept
    <1>2. Holds(row.text)' = Holds(row.text)
        BY <1>1 DEF Stores, Holds
    <1>3. KeptExactly'
        BY <1>2 DEF Stores, Kept, KeptExactly
    <1>4. /\ ToSet(memory) \cup removed \subseteq ToSet(memory') \cup removed'
          /\ ToSet(row'.text) \subseteq Holds(row.text)
        BY DEF Stores, Holds
    <1>5. ASSUME NEW b \in Actor PROVE CopyIsKept(b)'
        BY <1>2, <1>4, CopyStays DEF Stores, Kept
    <1> QED BY <1>3, <1>5 DEF Kept

\* The text is written from a copy that no fold has passed.
LEMMA RewritesIsKept ==
    ASSUME Kept, NEW a \in Actor, Rewrites(a), ~stale'
    PROVE  Kept'
    <1>0. copy[a].cursor = row.cursor /\ CopyIsKept(a)
        BY DEF Rewrites, NotPassed, Kept
    <1>1. Holds(copy[a].text) = Holds(row.text)
        BY <1>0, SameHolds
    <1>2. Holds(row.text)' = Holds(row.text)
      <2>1. Holds(row.text)' = ToSet(row'.text) \cup ToSet(memory) \cup removed
          BY DEF Rewrites, Holds
      <2>2. Holds(copy[a].text) = ToSet(row'.text) \cup ToSet(memory) \cup removed
          BY DEF Rewrites, Holds
      <2> QED BY <1>1, <2>1, <2>2
    <1>3. KeptExactly'
        BY <1>0, <1>2 DEF Rewrites, Kept, KeptExactly, CopyIsKept
    <1>4. /\ ToSet(memory) \cup removed \subseteq ToSet(memory') \cup removed'
          /\ ToSet(row'.text) \subseteq Holds(row.text)
        BY <1>2 DEF Rewrites, Holds
    <1>5. ASSUME NEW b \in Actor PROVE CopyIsKept(b)'
      <2>1. CASE b # a
          BY <2>1, <1>2, <1>4, CopyStays DEF Rewrites, Kept
      <2>2. CASE b = a
        <3>1. Holds(copy[a].text)' = Holds(row.text)'
            BY DEF Rewrites, Holds
        <3>2. Covers(copy[a])'
            BY <1>0, <1>1, <1>2, <3>1 DEF Rewrites, CopyIsKept, Covers
        <3>3. copy'[a].cursor = row'.cursor /\ row.cursor <= row'.cursor
            BY <1>0 DEF Rewrites, CopyIsKept
        <3> QED BY <2>2, <1>0, <3>1, <3>2, <3>3 DEF Rewrites, CopyIsKept, Holds
      <2> QED BY <2>1, <2>2
    <1> QED BY <1>3, <1>5 DEF Kept

\* A fold of a copy that no fold has passed.
LEMMA FoldedIsKept ==
    ASSUME FoldInv, Kept, NEW a \in Actor, FoldedBy(a), ~stale'
    PROVE  Kept'
    <1> DEFINE P == From(copy[a].cursor)..(until[a] - 1)
               T == copy[a].text
               K == Holds(row.text)
               c == copy[a].cursor
    <1>1. /\ Folded(a).cursor = until[a] /\ ToSet(Folded(a).text) = ToSet(T) \cup {P}
          /\ Folded(a).text = Append(T, P)
          /\ T \in Seq(Paragraph) /\ c \in Nat /\ until[a] \in Nat /\ P \in Paragraph
          /\ c < until[a]
        BY FoldedHolds DEF FoldedBy
    <1>2. /\ From(c) = IF c = 0 THEN 1 ELSE c
          /\ P = From(c)..(until[a] - 1) /\ From(c) < until[a]
        BY FoldedHolds DEF FoldedBy
    <1>3. c = row.cursor /\ InOrder(T) /\ Holds(T) = K
        BY SameHolds DEF FoldedBy, NotPassed, Kept, CopyIsKept
    <1>4. UNION K = 1..(c - 1) /\ \A p, q \in K : p = q \/ p \cap q = {}
        BY <1>3 DEF Kept, KeptExactly
    <1>5. /\ row'.cursor = until[a] /\ row'.text = Append(T, P)
          /\ \A b \in Actor : copy'[b] = IF b = a THEN row' ELSE copy[b]
          /\ UNCHANGED <<memory, removed>>
        BY <1>1 DEF FoldedBy
    <1>6. Holds(row.text)' = K \cup {P}
        BY <1>1, <1>3, <1>5 DEF Holds
    <1> HIDE DEF P, T, K, c
    <1>7. /\ (1..(c - 1)) \cup P = 1..(until[a] - 1)
          /\ \A x \in 1..(c - 1), y \in P : x < y
        BY <1>1, <1>2
    <1>8. UNION (K \cup {P}) = 1..(until[a] - 1)
      <2>1. UNION (K \cup {P}) = (UNION K) \cup P
          OBVIOUS
      <2> QED BY <1>4, <1>7, <2>1
    <1>9. \A p, q \in K \cup {P} : p = q \/ p \cap q = {}
      <2>1. ASSUME NEW p \in K PROVE p \cap P = {}
        <3>1. \A z \in p : z \in 1..(c - 1)
            BY <1>4
        <3>2. \A z \in P : z \notin 1..(c - 1)
            BY <1>1, <1>7
        <3> QED BY <3>1, <3>2
      <2> QED BY <1>4, <2>1
    <1>10. InOrder(Append(T, P))
      <2>1. \A i \in 1..Len(T) : T[i] \in K
          BY <1>1, <1>3, Members DEF Holds
      <2>2. \A x \in UNION K, y \in P : x < y
          BY <1>4, <1>7
      <2>3. \A i \in 1..Len(T) : \A x \in T[i], y \in P : x < y
          BY <2>1, <2>2
      <2> QED BY <1>1, <1>3, <2>3, AppendInOrder
    <1>11. KeptExactly'
        BY <1>5, <1>6, <1>8, <1>9, <1>10 DEF KeptExactly
    <1>12. Covers(row)'
        BY <1>11 DEF KeptExactly, Covers
    <1>13. ASSUME NEW b \in Actor PROVE CopyIsKept(b)'
      <2>1. CASE b = a
        <3>1. copy'[b] = row' /\ row'.cursor \in Nat
            BY <2>1, <1>1, <1>5
        <3>2. /\ Covers(copy[b])' /\ InOrder(copy[b].text)'
              /\ ToSet(row'.text) \subseteq Holds(row.text)'
            BY <3>1, <1>11, <1>12 DEF Covers, Holds, KeptExactly
        <3> QED BY <3>1, <3>2 DEF CopyIsKept, Holds
      <2>2. CASE b # a
        <3>1. copy'[b] = copy[b] /\ copy[b].cursor <= c /\ copy[b].cursor \in Nat
            BY <2>2, <1>3, <1>5, Watermarks DEF FoldInv, TypeOK, Row, Kept, CopyIsKept
        <3>2. copy[b].cursor <= row'.cursor /\ copy[b].cursor # row'.cursor
            BY <1>1, <1>5, <3>1
        <3>3. ToSet(copy[b].text) \subseteq K /\ InOrder(copy[b].text) /\ Covers(copy[b])
            BY DEF Kept, CopyIsKept, K
        <3>4. Holds(copy[b].text)' = Holds(copy[b].text)
            BY <3>1, <1>5 DEF Holds
        <3> QED BY <3>1, <3>2, <3>3, <3>4, <1>6 DEF CopyIsKept, Covers
      <2> QED BY <2>1, <2>2
    <1> QED BY <1>11, <1>13 DEF Kept

\* Every step keeps the folds.
LEMMA KeptStep == KeptInv /\ [Next]_vars => KeptInv'
    <1> SUFFICES ASSUME KeptInv, [Next]_vars PROVE KeptInv'
        OBVIOUS
    <1>1. FoldInv /\ FoldInv' /\ StepForm /\ DroppedIsStored'
        BY NextKeeps, NextForm, DroppedStep DEF KeptInv
    <1>2. ASSUME ~stale' PROVE Kept'
      <2>1. Kept
          BY <1>1, <1>2 DEF KeptInv, StepForm
      <2> QED BY <1>1, <1>2, <2>1, ReadsIsKept, EditsIsKept, FoldedIsKept, StoresIsKept,
                 RewritesIsKept DEF StepForm
    <1> QED BY <1>1, <1>2 DEF KeptInv

\* There is nothing yet.
LEMMA KeptInit == Init => KeptInv
    <1> SUFFICES ASSUME Init PROVE KeptInv
        OBVIOUS
    <1>1. FoldInv
        BY InitKeeps
    <1>2. /\ row = Fresh /\ memory = <<>> /\ removed = {}
          /\ \A a \in Actor : pc[a] = "idle" /\ copy[a] = Fresh
        BY DEF Init
    <1>3. /\ Fresh.text = <<>> /\ Fresh.cursor = 0 /\ ToSet(<<>>) = {} /\ InOrder(<<>>)
          /\ 1..(0 - 1) = {} /\ 0 <= 0
        BY NothingHeld DEF Fresh, InOrder
    <1>4. Holds(<<>>) = {}
        BY <1>2, <1>3 DEF Holds
    <1>5. KeptExactly
        BY <1>2, <1>3, <1>4 DEF KeptExactly
    <1>6. \A a \in Actor : CopyIsKept(a)
        BY <1>2, <1>3, <1>4 DEF CopyIsKept, Covers
    <1> QED BY <1>1, <1>2, <1>5, <1>6 DEF KeptInv, Kept, DroppedIsStored

\* A turn whose copy covers what is folded shows everything.
LEMMA CoveredView == FoldInv /\ Covers(copy["turn"]) => ViewIsComplete
    <1> SUFFICES ASSUME FoldInv, Covers(copy["turn"]), pc["turn"] = "view"
                 PROVE  /\ From(copy["turn"].cursor) <= rounds
                        /\ \A r \in 1..(rounds - 1) :
                              r < From(copy["turn"].cursor) => r \in UNION Holds(copy["turn"].text)
        BY DEF ViewIsComplete, Represented, Holds
    <1> DEFINE c == copy["turn"].cursor
    <1>1. rounds \in Nat /\ rounds >= 1 /\ c \in Nat /\ c <= rounds
        BY Watermarks DEF FoldInv, TypeOK, Started, FoldedIsStored, Row, Actor
    <1>2. 1..(c - 1) \subseteq UNION Holds(copy["turn"].text)
        BY DEF Covers
    <1> HIDE DEF c
    <1>3. From(c) = IF c = 0 THEN 1 ELSE c
        BY <1>1 DEF From
    <1>4. ASSUME NEW r \in 1..(rounds - 1), r < From(c) PROVE r \in 1..(c - 1)
        BY <1>1, <1>3, <1>4
    <1> QED BY <1>1, <1>2, <1>3, <1>4 DEF c

-----------------------------------------------------------------------------
(* SUMMARY: the theorems. *)

\* The invariant of every run.
LEMMA GeneralInv == Spec => []FoldInv
    BY InitKeeps, NextKeeps, PTL DEF Spec

\* The variables keep their types, whoever works next to whom.
THEOREM FoldTypeCorrect == Spec => []TypeOK
    <1>1. FoldInv => TypeOK
        BY DEF FoldInv
    <1> QED BY <1>1, GeneralInv, PTL

\* A pass never turns the cursor of the row back.
THEOREM PassesNeverRewind == Spec => PassNeverRewinds
    <1>1. ASSUME FoldInv, [Next]_vars
          PROVE  [pc["pass"] = "summarize" /\ row' # row /\ pc' # pc /\ pc'["pass"] # "summarize"
                     => row'.cursor >= row.cursor]_vars
      <2>1. CASE PassFolds
        <3>1. pc["pass"] = "summarize"
            BY <2>1 DEF PassFolds
        <3>2. CASE row.cursor = copy["pass"].cursor
          <4>1. row' = Folded("pass")
              BY <2>1, <3>2 DEF PassFolds
          <4>2. copy["pass"].cursor <= Folded("pass").cursor
              BY <1>1, <3>1, FoldedIsRow DEF Actor
          <4> QED BY <4>1, <4>2, <3>2
        <3>3. CASE row.cursor # copy["pass"].cursor
            BY <2>1, <3>3 DEF PassFolds
        <3> QED BY <3>2, <3>3
      <2>2. CASE ~ PassFolds
        <3>1. pc \in [Actor -> Place] /\ row \in Row
            BY <1>1 DEF FoldInv, TypeOK
        <3>2. SUFFICES ASSUME pc["pass"] = "summarize", pc'["pass"] # "summarize"
                       PROVE  row' = row
            OBVIOUS
        <3>3. CASE Turn
            BY <3>1, <3>2, <3>3 DEF Actor, Turn, TurnStart, TurnFits, TurnBlocks, TurnSchedules,
               TurnProceeds, TurnUnblocks, TurnEnd, GoTo, InFlight
        <3>4. CASE Pass
            BY <2>2, <3>2, <3>4 DEF Pass, PassReads, PassFails
        <3>5. CASE Manual
            BY <3>1, <3>2, <3>5 DEF Actor, Manual, ManualStart, ManualFolds, ManualFails, GoTo
        <3>6. CASE \E a \in Actor : Maintain(a)
            BY <3>1, <3>2, <3>6 DEF Actor, Maintain, MaintainBegin, ArchiveFails, ArchiveStores,
               DropOldest, GoTo
        <3>7. CASE Edit
            BY <3>2, <3>7 DEF Edit, DeleteSegment, ClearSummary
        <3>8. CASE Restart \/ UNCHANGED vars
            BY <3>8 DEF Restart, vars
        <3> QED BY <1>1, <3>3, <3>4, <3>5, <3>6, <3>7, <3>8 DEF Next
      <2> QED BY <2>1, <2>2
    <1> QED BY <1>1, GeneralInv, PTL DEF Spec, PassNeverRewinds

\* Until an actor writes the row from a copy that a fold has passed, all is kept.
LEMMA UnlessStale == Spec => []KeptInv
    BY KeptInit, KeptStep, PTL DEF Spec

(* A round is folded once, and the paragraphs cover what lies below the cursor, *)
(* whatever the watermarks, with the button, edits, failures and restarts,      *)
(* until somebody writes L0 or the cursor from a copy that a fold has passed.   *)
THEOREM FoldsAreExactUnlessStale == Spec => [](stale \/ FoldsAreExact)
    <1>1. KeptInv => stale \/ FoldsAreExact
        BY DEF KeptInv, Kept, KeptExactly, FoldsAreExact, Holds, InOrder
    <1> QED BY <1>1, UnlessStale, PTL

\* Until then no message is lost from what L0, long-term memory and the user hold:
\* the write of conversation_summary.py:675 and that of the button are the only leaks.
THEOREM NothingIsLostUnlessStale == Spec => [](stale \/ NothingLost)
    <1>1. KeptInv => stale \/ NothingLost
        BY DEF KeptInv, Kept, KeptExactly, NothingLost, Represented, Holds
    <1> QED BY <1>1, UnlessStale, PTL

\* Nor from what a turn hands to the model, however old its copy is.
THEOREM ViewsAreCompleteUnlessStale == Spec => [](stale \/ ViewIsComplete)
    <1>1. KeptInv => stale \/ ViewIsComplete
        BY CoveredView DEF KeptInv, Kept, CopyIsKept, Actor
    <1> QED BY <1>1, UnlessStale, PTL

-----------------------------------------------------------------------------
(* SUMMARY: no archive. Any passes, the button and turns next to each other, *)
(* as long as L0 cannot reach its archive watermark: every fold is made on a *)
(* copy that lost nothing, and replaces the row by a row that lost nothing.  *)

FoldsOnly == MaxRounds < L0Cap /\ "long" \notin Others

\* A paragraph was bought with a round.
Short(c) == Len(c.text) <= c.cursor

\* Nobody archives, and every copy, also one that is old, is whole.
CopiesAreWhole ==
    /\ Short(row) /\ Covers(row)
    /\ \A a \in Actor : /\ pc[a] \notin {"archive", "drop"}
                        /\ Short(copy[a]) /\ Covers(copy[a])

\* Nothing is archived of a copy that is short.
LEMMA NotArchived ==
    ASSUME FoldsOnly, NEW c \in Row, Short(c)
    PROVE  ~MustArchive(c.text)
    <1>1. Len(c.text) \in Nat /\ c.cursor \in Nat /\ c.cursor <= MaxRounds
        BY Watermarks DEF Row
    <1> QED BY <1>1, Watermarks DEF FoldsOnly, Short, MustArchive

\* Every step is one of the three.
LEMMA StepsOfFolding ==
    ASSUME FoldsOnly, FoldInv, CopiesAreWhole, [Next]_vars
    PROVE  /\ \A a \in Actor : pc'[a] \notin {"archive", "drop"}
           /\ Reads \/ Edits \/ \E a \in Actor : FoldedBy(a)
    <1>1. \A a \in Actor : pc[a] \notin {"archive", "drop"}
        BY DEF CopiesAreWhole
    <1>2. StepForm
        BY <1>1, NextForm DEF DroppedIsStored
    <1>3. \A a \in Actor : ~MustArchive(copy[a].text)
        BY NotArchived DEF CopiesAreWhole, FoldInv, TypeOK
    <1> QED BY <1>1, <1>2, <1>3 DEF StepForm, Stores, Rewrites, FoldsOnly

\* A fold of a whole copy is whole.
LEMMA FoldIsWhole ==
    ASSUME FoldInv, NEW a \in Actor, pc[a] = "summarize", Short(copy[a]), Covers(copy[a])
    PROVE  Short(Folded(a)) /\ Covers(Folded(a))
    <1> DEFINE P == From(copy[a].cursor)..(until[a] - 1)
    <1>1. /\ Folded(a).cursor = until[a] /\ ToSet(Folded(a).text) = ToSet(copy[a].text) \cup {P}
          /\ Len(Folded(a).text) = Len(copy[a].text) + 1
          /\ copy[a].text \in Seq(Paragraph) /\ copy[a].cursor \in Nat /\ until[a] \in Nat
          /\ From(copy[a].cursor) = IF copy[a].cursor = 0 THEN 1 ELSE copy[a].cursor
          /\ copy[a].cursor < until[a]
        BY FoldedHolds
    <1>2. Short(Folded(a))
      <2>1. Len(copy[a].text) \in Nat
          BY <1>1
      <2> QED BY <1>1, <2>1 DEF Short
    <1>3. 1..(until[a] - 1) \subseteq (1..(copy[a].cursor - 1)) \cup P
        BY <1>1
    <1>4. Holds(Folded(a).text) = Holds(copy[a].text) \cup {P}
        BY <1>1 DEF Holds
    <1> HIDE DEF P
    <1>5. UNION Holds(Folded(a).text) = (UNION Holds(copy[a].text)) \cup P
        BY <1>4
    <1> QED BY <1>1, <1>2, <1>3, <1>5 DEF Covers

\* Every step keeps the copies whole.
LEMMA WholeStep ==
    ASSUME FoldsOnly, FoldInv, CopiesAreWhole, [Next]_vars
    PROVE  CopiesAreWhole'
    <1>0. \A a \in Actor : pc'[a] \notin {"archive", "drop"}
        BY StepsOfFolding
    <1>1. CASE Reads
        BY <1>0, <1>1 DEF Reads, CopiesAreWhole, Short, Covers, Holds
    <1>2. CASE Edits
      <2>1. row.text \in Seq(Paragraph) /\ row.cursor \in Nat
          BY Watermarks DEF FoldInv, TypeOK, Row
      <2>2. Short(row)'
        <3>1. Len(row.text) \in Nat /\ Len(row'.text) \in Nat
            BY <1>2, <2>1 DEF Edits
        <3> QED BY <1>2, <2>1, <3>1 DEF Edits, CopiesAreWhole, Short
      <2>3. ASSUME NEW t, NEW u, ToSet(t) \subseteq ToSet(u) \cup removed'
            PROVE  UNION Holds(t) \subseteq UNION (ToSet(u) \cup ToSet(memory') \cup removed')
          BY <1>2, <2>3 DEF Edits, Holds
      <2>4. Covers(row)'
          BY <1>2, <2>3 DEF Edits, CopiesAreWhole, Covers, Holds
      <2>5. ASSUME NEW a \in Actor PROVE Short(copy[a])' /\ Covers(copy[a])'
          BY <1>2, <2>3 DEF Edits, CopiesAreWhole, Covers, Holds, Short
      <2> QED BY <1>0, <2>2, <2>4, <2>5 DEF CopiesAreWhole
    <1>3. ASSUME NEW a \in Actor, FoldedBy(a) PROVE CopiesAreWhole'
      <2>1. Short(Folded(a)) /\ Covers(Folded(a))
          BY <1>3, FoldIsWhole DEF FoldedBy, CopiesAreWhole
      <2>2. \A c : Covers(c) =>
                  1..(c.cursor - 1) \subseteq UNION (ToSet(c.text) \cup ToSet(memory') \cup removed')
          BY <1>3 DEF FoldedBy, Covers, Holds
      <2> DEFINE f == Folded(a)
      <2>3. row' = f /\ \A b \in Actor : copy'[b] = IF b = a THEN f ELSE copy[b]
          BY <1>3 DEF FoldedBy
      <2>4. Short(f) /\ Covers(f)
          BY <2>1
      <2> HIDE DEF f
      <2>5. Short(row)' /\ Covers(row)'
          BY <2>2, <2>3, <2>4 DEF Short, Covers, Holds
      <2>6. ASSUME NEW b \in Actor PROVE Short(copy[b])' /\ Covers(copy[b])'
          BY <2>2, <2>3, <2>4 DEF Short, Covers, Holds, CopiesAreWhole
      <2> QED BY <1>0, <2>5, <2>6 DEF CopiesAreWhole
    <1> QED BY <1>1, <1>2, <1>3, StepsOfFolding

\* There is nothing yet.
LEMMA WholeInit == Init => CopiesAreWhole
    <1> SUFFICES ASSUME Init PROVE CopiesAreWhole
        OBVIOUS
    <1>1. Len(<<>>) = 0 /\ 1..(0 - 1) = {}
        OBVIOUS
    <1> QED BY <1>1 DEF Init, Fresh, CopiesAreWhole, Short, Covers, Actor

\* Both are kept.
LEMMA WholeInv == ASSUME FoldsOnly PROVE Spec => [](FoldInv /\ CopiesAreWhole)
    <1>1. FoldInv /\ CopiesAreWhole /\ [Next]_vars => (FoldInv /\ CopiesAreWhole)'
        BY NextKeeps, WholeStep
    <1> QED BY <1>1, InitKeeps, WholeInit, PTL DEF Spec

(* As long as L0 does not reach its archive watermark no fold is lost, whoever *)
(* folds next to whom and whatever the user deletes meanwhile.                 *)
THEOREM FoldsLoseNothing == ASSUME FoldsOnly PROVE Spec => []NothingLost
    <1>1. FoldInv /\ CopiesAreWhole => NothingLost
        BY DEF CopiesAreWhole, Covers, Holds, NothingLost, Represented
    <1> QED BY <1>1, WholeInv, PTL

(* And the view of every turn is complete, however old its copy is.        *)
THEOREM FoldsShowEverything == ASSUME FoldsOnly PROVE Spec => []ViewIsComplete
    <1>1. FoldInv /\ CopiesAreWhole => ViewIsComplete
        BY CoveredView DEF CopiesAreWhole, Actor
    <1> QED BY <1>1, WholeInv, PTL

-----------------------------------------------------------------------------
(* SUMMARY: no archive and no edit. *)

\* L0 alone holds what is folded, once and in order.
Exact(c) == /\ UNION ToSet(c.text) = 1..(c.cursor - 1)
            /\ \A p, q \in ToSet(c.text) : p = q \/ p \cap q = {}
            /\ InOrder(c.text)

CopiesAreExact == /\ ToSet(memory) = {} /\ removed = {}
                  /\ Exact(row) /\ \A a \in Actor : Exact(copy[a])

\* A fold of an exact copy is exact.
LEMMA FoldIsExact ==
    ASSUME FoldInv, NEW a \in Actor, pc[a] = "summarize", Exact(copy[a])
    PROVE  Exact(Folded(a))
    <1> DEFINE P == From(copy[a].cursor)..(until[a] - 1)
               T == copy[a].text
               K == ToSet(T)
               c == copy[a].cursor
    <1>1. /\ Folded(a).cursor = until[a] /\ ToSet(Folded(a).text) = K \cup {P}
          /\ Folded(a).text = Append(T, P)
          /\ T \in Seq(Paragraph) /\ c \in Nat /\ until[a] \in Nat /\ P \in Paragraph
          /\ c < until[a]
        BY FoldedHolds
    <1>2. /\ From(c) = IF c = 0 THEN 1 ELSE c
          /\ P = From(c)..(until[a] - 1)
        BY FoldedHolds
    <1>3. /\ UNION K = 1..(c - 1) /\ \A p, q \in K : p = q \/ p \cap q = {}
          /\ InOrder(T)
        BY DEF Exact
    <1> HIDE DEF P, T, K, c
    <1>4. /\ (1..(c - 1)) \cup P = 1..(until[a] - 1)
          /\ \A x \in 1..(c - 1), y \in P : x < y
        BY <1>1, <1>2
    <1>5. \A x \in UNION K, y \in P : x < y
        BY <1>3, <1>4
    <1>6. UNION (K \cup {P}) = 1..(until[a] - 1)
      <2>1. UNION (K \cup {P}) = (UNION K) \cup P
          OBVIOUS
      <2> QED BY <1>3, <1>4, <2>1
    <1>7. \A p, q \in K \cup {P} : p = q \/ p \cap q = {}
      <2>1. ASSUME NEW p \in K PROVE p \cap P = {}
        <3>1. \A z \in p : z \in 1..(c - 1)
            BY <1>3
        <3>2. \A z \in P : z \notin 1..(c - 1)
            BY <1>1, <1>4
        <3> QED BY <3>1, <3>2
      <2> QED BY <1>3, <2>1
    <1>8. InOrder(Append(T, P))
      <2>1. \A i \in 1..Len(T) : T[i] \in K
          BY <1>1, Members DEF K
      <2>2. \A i \in 1..Len(T) : \A x \in T[i], y \in P : x < y
          BY <1>5, <2>1
      <2> QED BY <1>1, <1>3, <2>2, AppendInOrder
    <1> QED BY <1>1, <1>6, <1>7, <1>8 DEF Exact

\* Every step keeps the copies exact.
LEMMA ExactStep ==
    ASSUME FoldsOnly, "edit" \notin Others, FoldInv, CopiesAreWhole, CopiesAreExact, [Next]_vars
    PROVE  CopiesAreExact'
    <1>1. CASE Reads
        BY <1>1 DEF Reads, CopiesAreExact, Exact
    <1>2. ASSUME NEW a \in Actor, FoldedBy(a) PROVE CopiesAreExact'
      <2> DEFINE f == Folded(a)
      <2>1. Exact(f)
          BY <1>2, FoldIsExact DEF FoldedBy, CopiesAreExact
      <2>2. /\ row' = f /\ \A b \in Actor : copy'[b] = IF b = a THEN f ELSE copy[b]
            /\ UNCHANGED <<memory, removed>>
          BY <1>2 DEF FoldedBy
      <2> HIDE DEF f
      <2> QED BY <2>1, <2>2 DEF CopiesAreExact, Exact
    <1>3. ~Edits
        BY DEF Edits
    <1> QED BY <1>1, <1>2, <1>3, StepsOfFolding

(* Without edits every round is folded exactly once and in order, by turns,   *)
(* passes and the button next to each other, although the button does not ask *)
(* whether the row is still the one it read.                                  *)
THEOREM FoldsStayExact ==
    ASSUME FoldsOnly, "edit" \notin Others
    PROVE  Spec => []FoldsAreExact
    <1>1. Init => CopiesAreExact
      <2> SUFFICES ASSUME Init PROVE CopiesAreExact
          OBVIOUS
      <2>1. ToSet(<<>>) = {}
          BY NothingHeld
      <2>2. Exact(Fresh)
        <3>1. Fresh.text = <<>> /\ Fresh.cursor = 0 /\ 1..(0 - 1) = {} /\ Len(<<>>) = 0
            BY DEF Fresh
        <3> QED BY <2>1, <3>1 DEF Exact, InOrder
      <2> QED BY <2>1, <2>2 DEF Init, CopiesAreExact
    <1>2. FoldInv /\ CopiesAreWhole /\ CopiesAreExact /\ [Next]_vars => CopiesAreExact'
        BY ExactStep
    <1>3. CopiesAreExact => FoldsAreExact
        BY DEF CopiesAreExact, Exact, InOrder, FoldsAreExact
    <1> QED BY <1>1, <1>2, <1>3, WholeInv, PTL DEF Spec

=============================================================================
