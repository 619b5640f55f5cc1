------------------------------ MODULE SkillStore -----------------------------
(***************************************************************************)
(* Skills as three records of one fact: the folder in the shared store,    *)
(* the enable link beside it, and the row the router reads                 *)
(* (services/skill_manager.py, routers/skills.py).  Requests of several    *)
(* administrators are cut where they await; a commit writes only what      *)
(* changed against the row the session read.                               *)
(***************************************************************************)
EXTENDS Naturals

CONSTANTS Folder,    \* names of skill folders
          SkRequest, \* requests that run at the same time
          SkOps      \* bound: requests in all

ASSUME SkBounds == SkOps \in Nat

Row == {"none", "on", "off"}
Flag(b) == IF b THEN "on" ELSE "off"

VARIABLES folders,  \* folders that hold a SKILL.md
          link,   \* folders with an enable link
          row,    \* the skills table: is_active per folder
          req,    \* requests: where they are and what they have read
          calm,   \* "yes" when the last thing that ran was a sync on its own
          skOps

skVars == <<folders, link, row, req, calm, skOps>>

NoRequest == [at |-> "idle"]
SkInit == /\ folders = {} /\ link = {}
          /\ row = [f \in Folder |-> "none"]
          /\ req = [r \in SkRequest |-> NoRequest]
          /\ calm = "no" /\ skOps = 0

ReqMoves(r, st) == req' = [req EXCEPT ![r] = st]
Ends(r) == ReqMoves(r, NoRequest)
OthersIdle(r) == \A q \in SkRequest \ {r} : req[q] = NoRequest

Starts(r, st) == /\ req[r] = NoRequest /\ skOps < SkOps
                 /\ skOps' = skOps + 1
                 /\ ReqMoves(r, st)

SingleOn(f) == [x \in {f} |-> "on"]
SingleNone(f) == [x \in {f} |-> "none"]

(* A commit of the changes the session holds, new, against the rows it     *)
(* read, seen.  A row that appeared or disappeared meanwhile fails it all. *)
Changed(new, seen) == {f \in DOMAIN new : new[f] # seen[f]}
Conflicts(new, seen) ==
    \E f \in Changed(new, seen) : (seen[f] = "none") # (row[f] = "none")

Commit(r, new, seen) ==
    /\ row' = IF Conflicts(new, seen) THEN row
              ELSE [f \in Folder |-> IF f \in Changed(new, seen) THEN new[f] ELSE row[f]]
    /\ Ends(r)

-----------------------------------------------------------------------------
(* An upload finds no folder of the name, reads the files, writes and      *)
(* enables the folder, and commits the row.  create_skill awaits nothing   *)
(* before it writes.                                                       *)
Upload(r, f) == /\ f \notin folders
                /\ Starts(r, [at |-> "reading", f |-> f])
                /\ calm' = "no" /\ UNCHANGED <<folders, link, row>>

Publish(r) == /\ req[r].at = "reading"
              /\ folders' = folders \cup {req[r].f} /\ link' = link \cup {req[r].f}
              /\ ReqMoves(r, [at |-> "commit", new |-> SingleOn(req[r].f), seen |-> SingleNone(req[r].f)])
              /\ UNCHANGED <<row, calm, skOps>>

CreateSkill(r, f, active) ==
              /\ f \notin folders
              /\ folders' = folders \cup {f} /\ link' = link \cup {f}
              /\ Starts(r, [at |-> "commit", new |-> [x \in {f} |-> Flag(active)],
                                             seen |-> SingleNone(f)])
              /\ calm' = "no" /\ UNCHANGED row

(* replace_skill_folder leaves the link and the row's flag alone; it fails *)
(* for a folder that is gone.                                              *)
Reupload(r, f) == /\ row[f] # "none" /\ f \in folders
                  /\ Starts(r, NoRequest) /\ calm' = "no"
                  /\ UNCHANGED <<folders, link, row>>

(* delete_skill: the folder and the link go at once, the row after the     *)
(* proxy was told.                                                         *)
RemoveFolder(f) == folders' = folders \ {f} /\ link' = link \ {f}

DeleteSkill(r, f) == /\ row[f] # "none"
                     /\ RemoveFolder(f)
                     /\ Starts(r, [at |-> "commit", new |-> SingleNone(f),
                                                    seen |-> [x \in {f} |-> row[f]]])
                     /\ calm' = "no" /\ UNCHANGED row

(* toggle_skill flips the link, even of a folder that a delete just took.  *)
ToggleSkill(r, f) == /\ row[f] # "none"
                     /\ link' = IF f \in link THEN link \ {f} ELSE link \cup {f}
                     /\ Starts(r, [at |-> "commit", new |-> [x \in {f} |-> Flag(f \notin link)],
                                                    seen |-> [x \in {f} |-> row[f]]])
                     /\ calm' = "no" /\ UNCHANGED <<folders, row>>

CommitRow(r) == /\ req[r].at = "commit"
                /\ Commit(r, req[r].new, req[r].seen)
                /\ UNCHANGED <<folders, link, calm, skOps>>

-----------------------------------------------------------------------------
(* sync_skills_to_db scans the store, then reads the rows, takes the flag  *)
(* of every folder from its link, adds rows and switches off those without *)
(* a folder.                                                               *)
Scan(r) == /\ Starts(r, [at |-> "scanned", found |-> folders])
           /\ calm' = IF OthersIdle(r) THEN "syncing" ELSE "no"
           /\ UNCHANGED <<folders, link, row>>

(* Mutant: a row whose folder is gone keeps its flag.                      *)
KeepsMissing(found) == [f \in Folder |-> IF f \in found THEN Flag(f \in link) ELSE row[f]]

Reconciled(found) == [f \in Folder |-> IF f \in found THEN Flag(f \in link)
                                       ELSE IF row[f] = "on" THEN "off" ELSE row[f]]

Compare(r) == /\ req[r].at = "scanned"
              /\ ReqMoves(r, [at |-> "sync", new |-> Reconciled(req[r].found), seen |-> row])
              /\ UNCHANGED <<folders, link, row, calm, skOps>>

CommitSync(r) == /\ req[r].at = "sync"
                 /\ Commit(r, req[r].new, req[r].seen)
                 /\ calm' = IF calm = "syncing" THEN "yes" ELSE calm
                 /\ UNCHANGED <<folders, link, skOps>>

SkNext == \E r \in SkRequest :
            \/ \E f \in Folder : \/ Upload(r, f) \/ Reupload(r, f) \/ DeleteSkill(r, f) \/ ToggleSkill(r, f)
                                 \/ \E active \in BOOLEAN : CreateSkill(r, f, active)
            \/ Publish(r) \/ CommitRow(r) \/ Scan(r) \/ Compare(r) \/ CommitSync(r)

SkSpec == SkInit /\ [][SkNext]_skVars

-----------------------------------------------------------------------------
(* Whatever uploads, deletes and toggles did to each other -- folders      *)
(* without a row, links without a folder, flags that disagree -- one sync  *)
(* that runs on its own makes the router see exactly the folders that are  *)
(* there and enabled.                                                      *)
SyncRepairs == calm = "yes" =>
                 \A f \in Folder : /\ row[f] = "on" <=> f \in folders \cap link
                                   /\ f \in folders => row[f] # "none"
=============================================================================
