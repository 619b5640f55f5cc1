------------------------------- MODULE Accounts ------------------------------
(***************************************************************************)
(* Users, their refresh tokens and their sandbox UIDs: routers/auth.py,    *)
(* routers/users.py, services/auth.py and the UID pool of database.py.     *)
(*                                                                         *)
(* A request that awaits between its reads and its commit is a Request     *)
(* with a step before and a step after; the others are single actions.     *)
(* Passwords, profiles and avatars are left out: they guard nothing here.  *)
(***************************************************************************)
EXTENDS Integers, FiniteSets

CONSTANTS Person,     \* accounts, each with a name of its own
          FirstAdmin, \* the account register creates, with its fixed id
          AccRequest, \* requests that take more than one step
          Token,      \* refresh tokens ever issued
          UidMax,     \* sandbox UIDs are 0 (reserved) and 1..UidMax
          UidRetries, \* bound of the code: repl_uid_alloc_retries
          AccEdits    \* bound: requests that change an account or end its sessions

ASSUME AccBounds == /\ FirstAdmin \in Person /\ UidMax \in Nat
                    /\ UidRetries \in Nat \ {0} /\ AccEdits \in Nat

VARIABLES user,    \* the users rows
          tok,     \* the refresh_tokens rows; login is the epoch of the login
          epoch,   \* how often the sessions of a person were all revoked
          slipped, \* people whose last revocation met a login or a refresh of theirs
          files,   \* whose files lie in the sandbox directory of a UID
          late,    \* people whose code ran in a directory deleted before
          areq,    \* requests in flight
          accEdits \* requests so far that change an account or end its sessions

accVars == <<user, tok, epoch, slipped, files, late, areq, accEdits>>

NoUid == -1
ReservedUid == 0
NoUser == [status |-> "absent", role |-> "user", uid |-> NoUid]
Unused == [state |-> "unused", of |-> FirstAdmin, login |-> 0]
NoToken == "none"
Done == [at |-> "done", who |-> FirstAdmin, tok |-> NoToken, toks |-> {}, login |-> 0,
         uid |-> NoUid, role |-> "user", tries |-> 0]

AccInit == /\ user = [p \in Person |-> NoUser]
           /\ tok = [t \in Token |-> Unused]
           /\ epoch = [p \in Person |-> 0]
           /\ slipped = {} /\ late = {}
           /\ files = [u \in 0..UidMax |-> {}]
           /\ areq = [r \in AccRequest |-> Done]
           /\ accEdits = 0

Here(p) == user[p].status \in {"active", "disabled"}
Taken == {user[p].uid : p \in {q \in Person : Here(q)}}
TokensOf(p) == {t \in Token : tok[t].state # "unused" /\ tok[t].of = p}

\* get_current_staff, and can_manage_user.
Staff(p) == user[p].status = "active" /\ user[p].role \in {"admin", "moderator"}
CanManage(by, p) == \/ user[by].role = "admin"
                    \/ user[by].role = "moderator" /\ user[p].role = "user"

Free(r) == areq[r].at = "done"
At(r, place) == areq[r].at = place
Go(r, rec) == areq' = [areq EXCEPT ![r] = rec]

-----------------------------------------------------------------------------
(* Sessions. *)

Fresh(f) == {t \in Token : f[t].state = "unused"}

\* issue_raw_refresh_token and create_refresh_token: a new row, while there are tokens.
Issue(f, p, login) == IF Fresh(f) = {} THEN {}
                      ELSE {[f EXCEPT ![CHOOSE t \in Fresh(f) : TRUE] =
                                [state |-> "live", of |-> p, login |-> login]]}

Counted == accEdits < AccEdits /\ accEdits' = accEdits + 1

Admitted(p) == [Done EXCEPT !.at = "admitted", !.who = p, !.login = epoch[p]]

\* login, first half: the password is right and the user is active.
StartLogin(r, p) ==
    /\ Free(r) /\ user[p].status = "active"
    /\ Go(r, Admitted(p))
    /\ UNCHANGED <<user, tok, epoch, slipped, files, late, accEdits>>

\* login, second half: the session is stored, whatever became of the user.
Login(r) ==
    /\ At(r, "admitted")
    /\ tok' \in Issue(tok, areq[r].who, areq[r].login)
    /\ Go(r, Done)
    /\ UNCHANGED <<user, epoch, slipped, files, late, accEdits>>

\* refresh, first half: verify_refresh_token finds the row.
Verify(r, t) ==
    /\ Free(r) /\ tok[t].state = "live"
    /\ Go(r, [Done EXCEPT !.at = "verified", !.tok = t, !.who = tok[t].of])
    /\ UNCHANGED <<user, tok, epoch, slipped, files, late, accEdits>>

\* rotate_refresh_token: the old token is revoked, a new one takes its place.
Rotate(t) == Issue([tok EXCEPT ![t].state = "revoked"], tok[t].of, tok[t].login)

\* refresh, second half: the user is loaded; a user who is gone loses the token.
Refresh(r) ==
    LET t == areq[r].tok IN
    /\ At(r, "verified")
    /\ IF user[tok[t].of].status = "active" THEN tok' \in Rotate(t)
                                            ELSE tok' = [tok EXCEPT ![t].state = "revoked"]
    /\ Go(r, Done)
    /\ UNCHANGED <<user, epoch, slipped, files, late, accEdits>>

\* logout: the one token that was presented. Its expiry does the same.
Logout(t) ==
    /\ tok[t].state = "live"
    /\ tok' = [tok EXCEPT ![t].state = "revoked"]
    /\ UNCHANGED <<user, epoch, slipped, files, late, areq, accEdits>>

Live(p) == {t \in TokensOf(p) : tok[t].state = "live"}

\* revoke_all_user_refresh_tokens selects the rows that are not revoked yet.
StartRevoke(r, p) ==
    /\ Free(r) /\ Counted
    /\ Go(r, [Done EXCEPT !.at = "revoking", !.who = p, !.toks = Live(p)])

StartLogoutAll(r, p) ==
    /\ user[p].status = "active"
    /\ StartRevoke(r, p)
    /\ UNCHANGED <<user, tok, epoch, slipped, files, late>>

\* A login or a refresh that is not committed yet, or was since the rows were selected.
Overlapped(r) == LET p == areq[r].who IN
    \/ \E x \in AccRequest : areq[x].at \in {"admitted", "verified"} /\ areq[x].who = p
    \/ ~(Live(p) \subseteq areq[r].toks)

Revoke(r, toks) ==
    /\ At(r, "revoking")
    /\ tok' = [t \in Token |-> IF t \in toks THEN [tok[t] EXCEPT !.state = "revoked"] ELSE tok[t]]
    /\ epoch' = [epoch EXCEPT ![areq[r].who] = @ + 1]
    /\ slipped' = IF Overlapped(r) THEN slipped \cup {areq[r].who} ELSE slipped \ {areq[r].who}
    /\ Go(r, Done)
    /\ UNCHANGED <<user, files, late, accEdits>>

\* Mutant: the newest session is left alone.
RevokeOthers(r) ==
    IF areq[r].toks = {} THEN Revoke(r, {}) ELSE \E t \in areq[r].toks : Revoke(r, areq[r].toks \ {t})

\* It marks the rows it selected and commits, a new password with them.
RevokeAll(r) == Revoke(r, areq[r].toks)

-----------------------------------------------------------------------------
(* Accounts. *)

\* register counts the users, and looks for the name in an empty table.
StartRegister(r) ==
    /\ Free(r) /\ \A p \in Person : ~Here(p)
    /\ Go(r, [Done EXCEPT !.at = "registering"])
    /\ UNCHANGED <<user, tok, epoch, slipped, files, late, accEdits>>

\* register commits the administrator with the fixed id; the second of two that
\* counted nobody fails on it. A session is stored next.
Register(r) ==
    /\ At(r, "registering")
    /\ IF Here(FirstAdmin) THEN Go(r, Done) /\ UNCHANGED user
       ELSE /\ user' = [user EXCEPT ![FirstAdmin] = [status |-> "active", role |-> "admin",
                                                     uid |-> ReservedUid]]
            /\ Go(r, Admitted(FirstAdmin))
    /\ UNCHANGED <<tok, epoch, slipped, files, late, accEdits>>

\* create_user checks the roles and that the name is free.
StartCreate(r, by, p, role) ==
    /\ Free(r) /\ Staff(by) /\ user[p].status = "absent" /\ p # FirstAdmin
    /\ user[by].role = "moderator" => role = "user"
    /\ Counted
    /\ Go(r, [Done EXCEPT !.at = "allocating", !.who = p, !.role = role])
    /\ UNCHANGED <<user, tok, epoch, slipped, files, late>>

\* allocate_repl_uid: any UID above the reserved one that is not taken.
AllocateUid(taken) == (1..UidMax) \ taken

Creating(q, u) == [q EXCEPT !.at = "creating", !.uid = u]
Retrying(q) == [q EXCEPT !.at = "allocating", !.tries = @ + 1]

\* create_user reads the UIDs that are taken; an empty pool is an error.
Allocate(r) ==
    /\ At(r, "allocating")
    /\ IF AllocateUid(Taken) = {} THEN Go(r, Done)
       ELSE \E u \in AllocateUid(Taken) : Go(r, Creating(areq[r], u))
    /\ UNCHANGED <<user, tok, epoch, slipped, files, late, accEdits>>

\* The row has an id of its own: a name that was given up meanwhile goes to another account.
NewAccount(p) == IF user[p].status = "absent" THEN {p}
                 ELSE {n \in Person \ {FirstAdmin} : user[n].status = "absent"}

\* create_user commits; a UID or name that is taken by now starts another round.
Create(r) ==
    LET q == areq[r] IN
    /\ At(r, "creating")
    /\ IF q.uid \notin Taken /\ ~Here(q.who)
       THEN /\ \E p \in NewAccount(q.who) :
                  user' = [user EXCEPT ![p] = [status |-> "active", role |-> q.role, uid |-> q.uid]]
            /\ Go(r, Done)
       ELSE /\ IF q.tries + 1 < UidRetries
               THEN Go(r, Retrying(q)) ELSE Go(r, Done)
            /\ UNCHANGED user
    /\ UNCHANGED <<tok, epoch, slipped, files, late, accEdits>>

\* update_user: the role, the account's being active, or the password, which ends
\* the sessions. A patch with the old value is a stutter.
UpdateUser(by, p) ==
    /\ Staff(by) /\ Here(p) /\ CanManage(by, p)
    /\ \/ /\ \E role \in {"admin", "moderator", "user"} \ {user[p].role} :
                /\ user[by].role = "moderator" => role = "user"
                /\ user' = [user EXCEPT ![p].role = role]
          /\ Counted /\ UNCHANGED areq
       \/ /\ \E s \in {"active", "disabled"} \ {user[p].status} :
                user' = [user EXCEPT ![p].status = s]
          /\ Counted /\ UNCHANGED areq
       \/ \E r \in AccRequest : StartRevoke(r, p) /\ UNCHANGED user
    /\ UNCHANGED <<tok, epoch, slipped, files, late>>

\* delete_user looks at who asks, and for whom.
StartDelete(r, by, p) ==
    /\ Free(r) /\ Staff(by) /\ Here(p) /\ CanManage(by, p) /\ by # p
    /\ Counted
    /\ Go(r, [Done EXCEPT !.at = "cleaning", !.who = p, !.uid = user[p].uid])
    /\ UNCHANGED <<user, tok, epoch, slipped, files, late>>

\* Mutant: an unreachable sandbox does not stop the deletion.
CleanOrGoOn(r) ==
    /\ At(r, "cleaning")
    /\ \/ /\ files' = [files EXCEPT ![areq[r].uid] = {}]
          /\ Go(r, [areq[r] EXCEPT !.at = "cleaned"])
       \/ Go(r, [areq[r] EXCEPT !.at = "cleaned"]) /\ UNCHANGED files
    /\ UNCHANGED <<user, tok, epoch, slipped, late, accEdits>>

\* The sandbox directory goes before the UID is released, or nothing does.
CleanSandbox(r) ==
    /\ At(r, "cleaning")
    /\ \/ /\ files' = [files EXCEPT ![areq[r].uid] = {}]
          /\ Go(r, [areq[r] EXCEPT !.at = "cleaned"])
       \/ Go(r, Done) /\ UNCHANGED files
    /\ UNCHANGED <<user, tok, epoch, slipped, late, accEdits>>

\* The row goes; the tokens stay, for SQLite enforces no foreign key here.
DeleteUser(r) ==
    /\ At(r, "cleaned")
    /\ user' = IF Here(areq[r].who)
               THEN [user EXCEPT ![areq[r].who] = [NoUser EXCEPT !.status = "deleted"]] ELSE user
    /\ Go(r, Done)
    /\ UNCHANGED <<tok, epoch, slipped, files, late, accEdits>>

-----------------------------------------------------------------------------
(* Code of a user in the sandbox. *)

\* get_user_repl_uid and build_auth_envelope: the call carries the UID of this moment.
SignCall(r, p) ==
    /\ Free(r) /\ user[p].status = "active" /\ files[user[p].uid] = {}
    /\ Go(r, [Done EXCEPT !.at = "signed", !.who = p, !.uid = user[p].uid])
    /\ UNCHANGED <<user, tok, epoch, slipped, files, late, accEdits>>

Cleaned(u) == \E r \in AccRequest : At(r, "cleaned") /\ areq[r].uid = u

\* The sandbox trusts the envelope and leaves files in the directory of the UID.
RunCall(r) ==
    LET q == areq[r] IN
    /\ At(r, "signed")
    /\ files' = [files EXCEPT ![q.uid] = @ \cup {q.who}]
    /\ late' = IF Cleaned(q.uid) \/ user[q.who].uid # q.uid THEN late \cup {q.who} ELSE late
    /\ Go(r, Done)
    /\ UNCHANGED <<user, tok, epoch, slipped, accEdits>>

Session(p) == \E r \in AccRequest : StartLogin(r, p) \/ StartLogoutAll(r, p) \/ SignCall(r, p)
OnToken(t) == Logout(t) \/ \E r \in AccRequest : Verify(r, t)
Administer(by, p) == \/ UpdateUser(by, p)
                     \/ \E r \in AccRequest :
                           \/ StartDelete(r, by, p)
                           \/ \E role \in {"admin", "moderator", "user"} : StartCreate(r, by, p, role)
GoOn(r) == \/ Login(r) \/ Refresh(r) \/ RevokeAll(r) \/ StartRegister(r) \/ Register(r)
           \/ Allocate(r) \/ Create(r) \/ CleanSandbox(r) \/ DeleteUser(r) \/ RunCall(r)

AccNext == \/ \E p \in Person : Session(p) \/ \E by \in Person : Administer(by, p)
           \/ \E t \in Token : OnToken(t)
           \/ \E r \in AccRequest : GoOn(r)

AccSpec == AccInit /\ [][AccNext]_accVars

-----------------------------------------------------------------------------

UserRow == [status : {"absent", "active", "disabled", "deleted"},
            role : {"admin", "moderator", "user"}, uid : NoUid..UidMax]
TokenRow == [state : {"unused", "live", "revoked"}, of : Person, login : Nat]
Flight == [at : {"done", "admitted", "verified", "revoking", "registering", "allocating",
                 "creating", "cleaning", "cleaned", "signed"},
           who : Person, tok : Token \cup {NoToken}, toks : SUBSET Token, login : Nat,
           uid : NoUid..UidMax, role : {"admin", "moderator", "user"}, tries : 0..UidRetries]

AccTypeOK ==
    /\ user \in [Person -> UserRow] /\ tok \in [Token -> TokenRow]
    /\ epoch \in [Person -> Nat]
    /\ slipped \subseteq Person /\ late \subseteq Person
    /\ files \in [0..UidMax -> SUBSET Person]
    /\ areq \in [AccRequest -> Flight]
    /\ accEdits \in 0..AccEdits

\* A directory holds no files of somebody else when its UID is handed out again, unless
\* a call signed before the deletion ran after the cleanup; no two people have one
\* UID, and the reserved one belongs to the first administrator.
SandboxIsOwn ==
    /\ \A p \in Person : Here(p) =>
          /\ files[user[p].uid] \subseteq {p} \cup late
          /\ user[p].uid = ReservedUid => p = FirstAdmin
    /\ \A p, q \in Person : Here(p) /\ Here(q) /\ user[p].uid = user[q].uid => p = q

\* A logout of all sessions or a password set by an administrator ends every session
\* whose password was checked before, through all rotations, unless a login or a
\* refresh of that person met it; what slips through then, the next one ends.
RevokedSessionsEnd ==
    \A t \in Token : tok[t].state = "live" /\ tok[t].of \notin slipped =>
        tok[t].login = epoch[tok[t].of]
=============================================================================
