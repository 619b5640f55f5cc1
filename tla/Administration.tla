----------------------------- MODULE Administration ---------------------------
(***************************************************************************)
(* What administrators change: accounts, settings, and the API keys of     *)
(* skills.  The three share no state that a property of another reads      *)
(* (SkillKeys takes from Settings only that a key is in memory and in      *)
(* config.enc at once), so one of them moves at a time: focus says which,  *)
(* and the others rest where they start.  Of the accounts, either sessions *)
(* come and go or code runs in the sandboxes: refresh tokens and sandbox   *)
(* directories are never read together.                                    *)
(***************************************************************************)
EXTENDS Accounts, Settings, SkillKeys

VARIABLE focus   \* the part that moves

administrationVars == <<focus, accVars, setVars, keyVars>>

AdministrationInit ==
    /\ focus \in {"sessions", "sandboxes", "settings", "skill keys"}
    /\ AccInit /\ SetInit /\ KeyInit
    /\ focus # "settings" => mounted = CHOOSE k \in MasterKey : TRUE
    /\ focus # "skill keys" => proxy.up

Sessions == /\ focus = "sessions" /\ AccNext
            /\ UNCHANGED <<focus, files, late, setVars, keyVars>>
\* The one session is that of the registration.
Sandboxes == /\ focus = "sandboxes" /\ AccNext
             /\ \A r \in AccRequest : areq'[r].at \in {"admitted", "verified", "revoking"} =>
                                        areq[r].at \in {"registering", "admitted"}
             /\ UNCHANGED <<focus, setVars, keyVars>>
Setting == /\ focus = "settings" /\ SetNext
           /\ UNCHANGED <<focus, accVars, keyVars>>
SkillKeying == /\ focus = "skill keys" /\ KeyNext
               /\ UNCHANGED <<focus, accVars, setVars>>

AdministrationNext == Sessions \/ Sandboxes \/ Setting \/ SkillKeying

AdministrationSpec == AdministrationInit /\ [][AdministrationNext]_administrationVars
=============================================================================
