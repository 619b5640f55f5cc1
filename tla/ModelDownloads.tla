--------------------------- MODULE ModelDownloads ---------------------------
(***************************************************************************)
(* Downloads of embedding models: the states, the pause gate, the epochs   *)
(* and the installed manifest of services/model_manager.py.                *)
(*                                                                         *)
(* The control routes run on the event loop without an await, so each is   *)
(* one step; a worker thread takes a step from one check to the next. File *)
(* 0 of a cache stands for its directory.                                  *)
(***************************************************************************)
EXTENDS Integers, FiniteSets

CONSTANTS Model,    \* embedding models
          Worker,   \* download threads
          FileCount, \* files of a model
          DlEpochs  \* bound: downloads started, cancelled or superseded

ASSUME DlBounds == Model # {} /\ FileCount \in Nat \ {0} /\ DlEpochs \in Nat

VARIABLES dstatus,   \* _status
          dmodel,    \* _model
          paused,    \* _paused
          cancel,    \* _cancel_event
          dlEpoch,   \* _epoch
          cache,     \* files of each model on the disk
          installed, \* the manifest of installed models
          worker,    \* the threads: place, model, epoch, next file
          cut        \* models that were wiped under a worker still at work on them

dlVars == <<dstatus, dmodel, paused, cancel, dlEpoch, cache, installed, worker, cut>>

AnyModel == CHOOSE m \in Model : TRUE
Ended == [at |-> "ended", model |-> AnyModel, epoch |-> 0, file |-> 1]

DlInit == /\ dstatus = "idle" /\ dmodel = AnyModel
          /\ paused = FALSE /\ cancel = FALSE /\ dlEpoch = 0
          /\ cache = [m \in Model |-> {}] /\ installed = {}
          /\ worker = [w \in Worker |-> Ended]
          /\ cut = {}

Busy == dstatus \in {"downloading", "paused"}
AtWork(m) == \E w \in Worker : worker[w].at # "ended" /\ worker[w].model = m

\* is_installed: in the manifest, and the directory is there.
IsInstalled(m) == m \in installed /\ 0 \in cache[m]

Woken(f) == [w \in Worker |-> IF f[w].at = "waiting" THEN [f[w] EXCEPT !.at = "gate"] ELSE f[w]]

-----------------------------------------------------------------------------
(* Control. *)

\* start_download: one at a time, as far as the status knows.
StartDownload(m, w) ==
    /\ ~Busy /\ worker[w].at = "ended" /\ dlEpoch < DlEpochs
    /\ dstatus' = "downloading" /\ dmodel' = m
    /\ cancel' = FALSE /\ paused' = FALSE
    /\ dlEpoch' = dlEpoch + 1
    /\ worker' = [worker EXCEPT ![w] = [at |-> "gate", model |-> m, epoch |-> dlEpoch + 1, file |-> 1]]
    /\ UNCHANGED <<cache, installed, cut>>

PauseDownload ==
    /\ dstatus = "downloading"
    /\ dstatus' = "paused" /\ paused' = TRUE
    /\ UNCHANGED <<dmodel, cancel, dlEpoch, cache, installed, worker, cut>>

\* Mutant: the gate is opened but nobody is told.
ResumeSilently ==
    /\ dstatus = "paused"
    /\ dstatus' = "downloading" /\ paused' = FALSE
    /\ UNCHANGED <<dmodel, cancel, dlEpoch, cache, installed, worker, cut>>

ResumeDownload ==
    /\ dstatus = "paused"
    /\ dstatus' = "downloading" /\ paused' = FALSE
    /\ worker' = Woken(worker)
    /\ UNCHANGED <<dmodel, cancel, dlEpoch, cache, installed, cut>>

\* cancel_download: supersede the worker, wake it, wipe what it fetched.
CancelDownload ==
    /\ Busy /\ dlEpoch < DlEpochs
    /\ dstatus' = "cancelled" /\ paused' = FALSE /\ cancel' = TRUE
    /\ dlEpoch' = dlEpoch + 1
    /\ worker' = Woken(worker)
    /\ cache' = [cache EXCEPT ![dmodel] = {}]
    /\ cut' = IF AtWork(dmodel) THEN cut \cup {dmodel} ELSE cut
    /\ UNCHANGED <<dmodel, installed>>

\* delete: it cancels whatever is being downloaded, then removes the model.
DeleteModel(m) ==
    /\ dlEpoch < DlEpochs
    /\ cache[m] # {} \/ Busy
    /\ dstatus' = "idle" /\ paused' = FALSE /\ cancel' = FALSE
    /\ dlEpoch' = dlEpoch + 1
    /\ worker' = IF Busy THEN Woken(worker) ELSE worker
    /\ cache' = [n \in Model |-> IF n = m \/ (Busy /\ n = dmodel) THEN {} ELSE cache[n]]
    /\ installed' = installed \ {m}
    /\ cut' = cut \cup {n \in Model : AtWork(n) /\ (n = m \/ (Busy /\ n = dmodel))}
    /\ UNCHANGED dmodel

-----------------------------------------------------------------------------
(* The worker: _download_worker. *)

Superseded(w) == worker[w].epoch # dlEpoch

\* _after_cancel: the partial cache and the manifest entry go.
AfterCancel(w) ==
    LET m == worker[w].model IN
    /\ cache' = [cache EXCEPT ![m] = {}]
    /\ installed' = installed \ {m}
    /\ dstatus' = "cancelled"
    /\ cut' = IF \E v \in Worker \ {w} : worker[v].model = m /\ worker[v].at # "ended"
              THEN cut \cup {m} ELSE cut

Move(w, place) == worker' = [worker EXCEPT ![w].at = place]

\* The pause gate between two files, and _check_abort behind it.
Gate(w) ==
    /\ worker[w].at = "gate"
    /\ \/ /\ paused /\ ~cancel
          /\ Move(w, "waiting") /\ UNCHANGED <<dstatus, cache, installed, cut>>
       \/ /\ cancel \/ (~paused /\ Superseded(w))
          /\ IF Superseded(w) THEN UNCHANGED <<dstatus, cache, installed, cut>>
                              ELSE AfterCancel(w)
          /\ Move(w, "leaving")
       \/ /\ ~paused /\ ~cancel /\ ~Superseded(w)
          /\ cache' = [cache EXCEPT ![worker[w].model] = @ \cup {0}]
          /\ Move(w, "fetching") /\ UNCHANGED <<dstatus, installed, cut>>
    /\ UNCHANGED <<dmodel, paused, cancel, dlEpoch>>

\* The file is there; after the last one nothing is checked any more.
FileArrives(w) ==
    LET m == worker[w].model IN
    /\ worker[w].at = "fetching"
    /\ cache' = [cache EXCEPT ![m] = @ \cup {0, worker[w].file}]
    /\ IF worker[w].file = FileCount THEN Move(w, "fetched")
       ELSE worker' = [worker EXCEPT ![w].at = "gate", ![w].file = @ + 1]
    /\ UNCHANGED <<dstatus, dmodel, paused, cancel, dlEpoch, installed, cut>>

\* The transfer's callback raises DownloadCancelled for a cancelled or an old run.
TransferCut(w) ==
    /\ worker[w].at = "fetching" /\ (cancel \/ Superseded(w))
    /\ AfterCancel(w)
    /\ Move(w, "leaving")
    /\ UNCHANGED <<dmodel, paused, cancel, dlEpoch>>

\* No source has the file; an old run may notice between two sources and stay quiet.
FileFails(w) ==
    /\ worker[w].at = "fetching"
    /\ Move(w, "leaving")
    /\ dstatus' \in {"failed"} \cup {s \in {dstatus} : Superseded(w)}
    /\ UNCHANGED <<dmodel, paused, cancel, dlEpoch, cache, installed, cut>>

\* Mutant: a model is recorded when its first file is there.
RecordEarly(w) ==
    /\ worker[w].at \in {"fetching", "fetched"}
    /\ installed' = installed \cup {worker[w].model}
    /\ Move(w, "recorded")
    /\ UNCHANGED <<dstatus, dmodel, paused, cancel, dlEpoch, cache, cut>>

\* _record_success and _record_installed: the manifest is written, the model warmed up.
RecordInstalled(w) ==
    /\ worker[w].at = "fetched"
    /\ installed' = installed \cup {worker[w].model}
    /\ Move(w, "recorded")
    /\ UNCHANGED <<dstatus, dmodel, paused, cancel, dlEpoch, cache, cut>>

Succeed(w) ==
    /\ worker[w].at = "recorded"
    /\ dstatus' = "completed"
    /\ Move(w, "leaving")
    /\ UNCHANGED <<dmodel, paused, cancel, dlEpoch, cache, installed, cut>>

\* The worker's finally, which clears the flags whoever set them.
LeaveWorker(w) ==
    /\ worker[w].at = "leaving"
    /\ cancel' = FALSE /\ paused' = FALSE
    /\ worker' = [worker EXCEPT ![w] = Ended]
    /\ UNCHANGED <<dstatus, dmodel, dlEpoch, cache, installed, cut>>

Control == \/ \E m \in Model : DeleteModel(m) \/ \E w \in Worker : StartDownload(m, w)
           \/ PauseDownload \/ ResumeDownload \/ CancelDownload
Run(w) == \/ Gate(w) \/ FileArrives(w) \/ TransferCut(w) \/ FileFails(w)
          \/ RecordInstalled(w) \/ Succeed(w) \/ LeaveWorker(w)

DlNext == Control \/ \E w \in Worker : Run(w)
DlSpec == DlInit /\ [][DlNext]_dlVars

\* A thread runs until it ends; a paused one waits for the administrator.
DlFairness == \A w \in Worker : WF_dlVars(Run(w))

-----------------------------------------------------------------------------

DlTypeOK ==
    /\ dstatus \in {"idle", "downloading", "paused", "completed", "failed", "cancelled"}
    /\ dmodel \in Model /\ paused \in BOOLEAN /\ cancel \in BOOLEAN
    /\ dlEpoch \in 0..DlEpochs
    /\ cache \in [Model -> SUBSET (0..FileCount)]
    /\ installed \subseteq Model /\ cut \subseteq Model
    /\ worker \in [Worker -> [at : {"ended", "gate", "waiting", "fetching", "fetched", "recorded",
                                    "leaving"},
                              model : Model, epoch : 0..DlEpochs, file : 1..FileCount]]

Complete(m) == cache[m] = 0..FileCount

\* What is_installed promises: only a model that was downloaded successfully is
\* installed, never a partial one.
InstalledIsComplete == \A m \in Model : IsInstalled(m) => Complete(m)

\* The same of a model that was never wiped under a worker still at work on it.
InstalledUnlessCut == \A m \in Model \ cut : IsInstalled(m) => Complete(m)

\* A download that is under way comes to an end, or is paused, through every pause,
\* resume and cancel, and whatever older threads still do.
DownloadSettles == dstatus = "downloading" ~> dstatus # "downloading"
=============================================================================
