------------------------ MODULE Administration_proofs ------------------------
(***************************************************************************)
(* Proofs about what administrators change: accounts and their sandboxes,  *)
(* settings, and the API keys of skills.                                   *)
(***************************************************************************)
EXTENDS Administration, TLAPS

-----------------------------------------------------------------------------
(* Accounts. *)

\* The rows: an account that is here has a UID of its own, and the reserved UID belongs
\* to the first administrator.
UidsAreOwn ==
    /\ \A p \in Person : IF Here(p) THEN user[p].uid >= 0 /\ (user[p].uid = ReservedUid <=> p = FirstAdmin)
                                    ELSE user[p].uid = NoUid
    /\ \A p, q \in Person : Here(p) /\ Here(q) /\ user[p].uid = user[q].uid => p = q

\* What the requests in flight remember.
RequestsKnow ==
    \A r \in AccRequest :
        /\ At(r, "allocating") => areq[r].who # FirstAdmin
        /\ At(r, "creating") => areq[r].uid > 0 /\ areq[r].who # FirstAdmin
        /\ At(r, "signed") => areq[r].uid >= 0
        /\ areq[r].at \in {"cleaning", "cleaned"} =>
              /\ areq[r].uid >= 0 /\ user[areq[r].who].status # "absent"
              /\ areq[r].who = FirstAdmin => areq[r].uid = ReservedUid
              /\ Here(areq[r].who) => user[areq[r].who].uid = areq[r].uid

\* Files lie in the directory of the account they belong to, except those of late calls.
FilesAreOwn ==
    /\ \A u \in 0..UidMax : \A p \in files[u] \ late : Here(p) /\ user[p].uid = u
    /\ \A r \in AccRequest : At(r, "cleaned") => files[areq[r].uid] \subseteq late

\* A refresh in flight holds a token of the session that it continues, and a login the
\* epoch in which its password was checked.
SessionsContinue ==
    \A r \in AccRequest :
        /\ At(r, "verified") =>
              /\ areq[r].tok \in Token /\ tok[areq[r].tok].state # "unused"
              /\ tok[areq[r].tok].of = areq[r].who
              /\ areq[r].who \notin slipped => tok[areq[r].tok].login = epoch[areq[r].who]
        /\ At(r, "admitted") /\ areq[r].who \notin slipped =>
              areq[r].login = epoch[areq[r].who]

\* The inductive invariant.
AccInv == /\ AccTypeOK
          /\ UidsAreOwn /\ RequestsKnow /\ FilesAreOwn
          /\ SessionsContinue /\ RevokedSessionsEnd

\* What an issued token, and a revoked one, leaves of the others.
LEMMA IssueIsNew ==
    ASSUME NEW f \in [Token -> TokenRow], NEW p \in Person, NEW login \in Nat,
           NEW after \in Issue(f, p, login)
    PROVE  /\ after \in [Token -> TokenRow]
           /\ \E t \in Token : /\ f[t].state = "unused"
                                /\ after = [f EXCEPT ![t] = [state |-> "live", of |-> p, login |-> login]]
    <1>1. [state |-> "live", of |-> p, login |-> login] \in TokenRow
      BY DEF TokenRow
    <1>2. QED
      BY <1>1 DEF Issue, Fresh

\* A revocation ends a token and the sessions it stood for.
LEMMA Revoked ==
    ASSUME NEW f \in [Token -> TokenRow], NEW t \in Token
    PROVE  LET g == [f EXCEPT ![t].state = "revoked"]
           IN  /\ g \in [Token -> TokenRow]
               /\ \A x \in Token : /\ g[x].of = f[x].of /\ g[x].login = f[x].login
                                   /\ g[x].state = IF x = t THEN "revoked" ELSE f[x].state
    BY DEF TokenRow

\* What is left of the others by the rotation of a token.
Rotated(t) ==
    \E s \in Token :
        /\ \A x \in Token \ {s} : /\ tok'[x].of = tok[x].of /\ tok'[x].login = tok[x].login
                                 /\ tok'[x].state = IF x = t THEN "revoked" ELSE tok[x].state
        /\ \/ s = t /\ tok'[s].state = "revoked" /\ tok'[s].of = tok[s].of /\ tok'[s].login = tok[s].login
           \/ tok[s].state = "unused" /\ tok'[s] = [state |-> "live", of |-> tok[t].of, login |-> tok[t].login]

\* A rotation puts one token in the place of another.
LEMMA RotateReplaces ==
    ASSUME AccTypeOK, NEW t \in Token,
           tok' \in Rotate(t) \/ tok' = [tok EXCEPT ![t].state = "revoked"]
    PROVE  Rotated(t) /\ tok' \in [Token -> TokenRow]
    <1> DEFINE g == [tok EXCEPT ![t].state = "revoked"]
    <1>1. /\ g \in [Token -> TokenRow]
          /\ \A x \in Token : /\ g[x].of = tok[x].of /\ g[x].login = tok[x].login
                              /\ g[x].state = IF x = t THEN "revoked" ELSE tok[x].state
      BY Revoked DEF AccTypeOK
    <1>2. tok[t].of \in Person /\ tok[t].login \in Nat
      BY DEF AccTypeOK, TokenRow
    <1>3. CASE tok' = g
      BY <1>1, <1>3 DEF Rotated
    <1>4. CASE tok' \in Issue(g, tok[t].of, tok[t].login)
      <2> HIDE DEF g
      <2>1. PICK s \in Token : /\ g[s].state = "unused"
                              /\ tok' = [g EXCEPT ![s] = [state |-> "live", of |-> tok[t].of, login |-> tok[t].login]]
        BY <1>1, <1>2, <1>4, IssueIsNew
      <2>2. tok' \in [Token -> TokenRow]
        BY <1>1, <1>2, <1>4, IssueIsNew
      <2>3. s # t /\ tok[s].state = "unused"
        BY <1>1, <2>1
      <2>4. \A x \in Token \ {s} : tok'[x] = g[x]
        BY <1>1, <2>1
      <2>5. tok'[s] = [state |-> "live", of |-> tok[t].of, login |-> tok[t].login]
        BY <1>1, <2>1
      <2>6. QED
        BY <1>1, <2>2, <2>3, <2>4, <2>5 DEF Rotated
    <1>5. QED
      BY <1>3, <1>4 DEF Rotate

\* A revocation ends tokens, and starts none.
LEMMA RevokedSome ==
    ASSUME AccTypeOK, NEW toks \in SUBSET Token,
           tok' = [t \in Token |-> IF t \in toks THEN [tok[t] EXCEPT !.state = "revoked"] ELSE tok[t]]
    PROVE  /\ tok' \in [Token -> TokenRow]
           /\ \A t \in Token : /\ tok'[t].of = tok[t].of /\ tok'[t].login = tok[t].login
                               /\ tok'[t].state = IF t \in toks THEN "revoked" ELSE tok[t].state
    <1>1. tok \in [Token -> TokenRow]
      BY DEF AccTypeOK
    <1>2. \A t \in Token : LET g == [tok[t] EXCEPT !.state = "revoked"]
                           IN  /\ g \in TokenRow /\ g.state = "revoked"
                               /\ g.of = tok[t].of /\ g.login = tok[t].login
      BY <1>1 DEF TokenRow
    <1>3. QED
      BY <1>1, <1>2

\* A request that is done is a request.
LEMMA DoneIsFlight == Done \in Flight
    <1>1. NoUid \in NoUid..UidMax /\ 0 \in 0..UidRetries
      BY AccBounds DEF NoUid
    <1>2. QED
      BY <1>1, AccBounds DEF Done, Flight

\* It ends all sessions of that person, unless a login or a refresh met it.
LEMMA RevokeAllKeeps == ASSUME AccInv, NEW r \in AccRequest, RevokeAll(r) PROVE AccInv'
    <1> DEFINE p == areq[r].who
               toks == areq[r].toks
    <1>0. AccTypeOK /\ p \in Person /\ toks \in SUBSET Token /\ Done \in Flight /\ Done.at = "done"
      BY DoneIsFlight DEF AccInv, AccTypeOK, Flight, Done
    <1>1. /\ UNCHANGED <<user, files, late, accEdits>>
          /\ areq' = [areq EXCEPT ![r] = Done] /\ epoch' = [epoch EXCEPT ![p] = @ + 1]
          /\ slipped' = IF Overlapped(r) THEN slipped \cup {p} ELSE slipped \ {p}
      BY DEF RevokeAll, Revoke, Go
    <1>2. /\ tok' \in [Token -> TokenRow]
          /\ \A t \in Token : /\ tok'[t].of = tok[t].of /\ tok'[t].login = tok[t].login
                              /\ tok'[t].state = IF t \in toks THEN "revoked" ELSE tok[t].state
      BY <1>0, RevokedSome DEF RevokeAll, Revoke
    <1>3. \A x \in AccRequest : areq'[x].at # "done" => areq'[x] = areq[x]
      BY <1>0, <1>1 DEF AccTypeOK
    <1>4. AccTypeOK'
      BY <1>0, <1>1, <1>2 DEF AccTypeOK
    <1>5. UidsAreOwn' /\ RequestsKnow' /\ FilesAreOwn'
      <2>1. UidsAreOwn'
        BY <1>1 DEF AccInv, UidsAreOwn, Here
      <2>2. RequestsKnow'
        BY <1>1, <1>3 DEF AccInv, RequestsKnow, At, Here
      <2>3. FilesAreOwn'
        BY <1>1, <1>3 DEF AccInv, FilesAreOwn, At, Here
      <2>4. QED
        BY <2>1, <2>2, <2>3
    <1>6. ~Overlapped(r) => /\ \A x \in AccRequest : areq[x].at \in {"admitted", "verified"} => areq[x].who # p
                            /\ Live(p) \subseteq toks
      BY DEF Overlapped
    <1>7. \A q \in Person \ {p} : epoch'[q] = epoch[q] /\ (q \in slipped' <=> q \in slipped)
      BY <1>0, <1>1 DEF AccTypeOK
    <1>8. p \notin slipped' => ~Overlapped(r)
      BY <1>1
    <1> HIDE DEF p, toks
    <1>9. SessionsContinue'
      <2>1. \A x \in AccRequest : areq[x].who \in Person
        BY <1>0 DEF AccTypeOK, Flight
      <2> SUFFICES ASSUME NEW x \in AccRequest, areq'[x].at \in {"admitted", "verified"}
                   PROVE  /\ areq'[x].at = "verified" =>
                                /\ areq'[x].tok \in Token /\ tok'[areq'[x].tok].state # "unused"
                                /\ tok'[areq'[x].tok].of = areq'[x].who
                                /\ areq'[x].who \notin slipped' =>
                                      tok'[areq'[x].tok].login = epoch'[areq'[x].who]
                          /\ areq'[x].at = "admitted" /\ areq'[x].who \notin slipped' =>
                                areq'[x].login = epoch'[areq'[x].who]
        BY DEF SessionsContinue, At
      <2>2. areq'[x] = areq[x]
        BY <1>3
      <2>3. CASE areq[x].who = p
        BY <1>2, <1>6, <1>8, <2>2, <2>3 DEF AccInv, SessionsContinue, At
      <2>4. CASE areq[x].who # p
        BY <1>2, <1>7, <2>1, <2>2, <2>4 DEF AccInv, SessionsContinue, At
      <2>5. QED
        BY <2>3, <2>4
    <1>10. RevokedSessionsEnd'
      <2> SUFFICES ASSUME NEW t \in Token, tok'[t].state = "live", tok'[t].of \notin slipped'
                   PROVE  tok'[t].login = epoch'[tok'[t].of]
        BY DEF RevokedSessionsEnd
      <2>1. /\ tok[t].state = "live" /\ t \notin toks /\ tok[t].of \in Person
            /\ tok'[t].of = tok[t].of /\ tok'[t].login = tok[t].login
        BY <1>0, <1>2 DEF AccTypeOK, TokenRow
      <2>2. tok[t].of # p
        BY <1>6, <1>8, <2>1 DEF Live, TokensOf
      <2>3. QED
        BY <1>7, <2>1, <2>2 DEF AccInv, RevokedSessionsEnd
    <1>11. QED
      BY <1>4, <1>5, <1>9, <1>10 DEF AccInv

\* A request that checked the password is a request.
LEMMA AdmittedIsFlight ==
    ASSUME AccTypeOK, NEW p \in Person
    PROVE  LET new == Admitted(p)
           IN  new \in Flight /\ new.at = "admitted" /\ new.who = p /\ new.login = epoch[p]
    BY DoneIsFlight DEF AccTypeOK, Admitted, Flight, Done

\* A request that selected the tokens it will revoke is a request.
LEMMA RevokingIsFlight ==
    ASSUME NEW p \in Person
    PROVE  LET new == [Done EXCEPT !.at = "revoking", !.who = p, !.toks = Live(p)]
           IN  new \in Flight /\ new.at = "revoking"
    <1>1. Live(p) \subseteq Token
      BY DEF Live, TokensOf
    <1>2. QED
      BY <1>1, DoneIsFlight DEF Flight, Done

\* What a request that starts to revoke leaves.
LEMMA StartRevokeKeeps ==
    ASSUME AccInv, NEW r \in AccRequest, NEW p \in Person, StartRevoke(r, p),
           UNCHANGED <<user, tok, epoch, slipped, files, late>>
    PROVE  AccInv'
    <1> DEFINE new == [Done EXCEPT !.at = "revoking", !.who = p, !.toks = Live(p)]
    <1>1. /\ areq' = [areq EXCEPT ![r] = new] /\ accEdits < AccEdits /\ accEdits' = accEdits + 1
      BY DEF StartRevoke, Go, Counted
    <1>2. new \in Flight /\ new.at = "revoking"
      BY RevokingIsFlight
    <1> HIDE DEF new
    <1>3. AccTypeOK'
      BY <1>1, <1>2, AccBounds DEF AccInv, AccTypeOK
    <1>4. \A x \in AccRequest : areq'[x].at # "revoking" => areq'[x] = areq[x]
      BY <1>1, <1>2 DEF AccInv, AccTypeOK
    <1>5. UidsAreOwn'
      BY DEF AccInv, UidsAreOwn, Here
    <1>6. RequestsKnow'
      BY <1>4 DEF AccInv, RequestsKnow, At, Here
    <1>7. FilesAreOwn'
      BY <1>4 DEF AccInv, FilesAreOwn, At, Here
    <1>8. SessionsContinue' /\ RevokedSessionsEnd'
      BY <1>4 DEF AccInv, SessionsContinue, At, RevokedSessionsEnd
    <1>9. QED
      BY <1>3, <1>5, <1>6, <1>7, <1>8 DEF AccInv


\* What a request is made of.
LEMMA FlightFields ==
    ASSUME AccTypeOK
    PROVE  \A r \in AccRequest : areq[r].who \in Person /\ areq[r].uid \in NoUid..UidMax
    BY DEF AccTypeOK, Flight

\* A request that creates an account is a request.
LEMMA CreatingIsFlight ==
    ASSUME NEW q \in Flight, NEW u \in 1..UidMax
    PROVE  LET new == Creating(q, u)
           IN  new \in Flight /\ new.at = "creating" /\ new.uid = u /\ new.who = q.who
    <1>1. u \in NoUid..UidMax
      BY AccBounds DEF NoUid
    <1>2. QED
      BY <1>1 DEF Flight, Creating

\* A request that tries another UID is a request.
LEMMA RetryingIsFlight ==
    ASSUME NEW q \in Flight, q.tries + 1 < UidRetries
    PROVE  LET new == Retrying(q)
           IN  new \in Flight /\ new.at = "allocating" /\ new.who = q.who
    <1>1. q.tries + 1 \in 0..UidRetries
      BY AccBounds DEF Flight
    <1>2. QED
      BY <1>1 DEF Flight, Retrying

\* A request that cleaned a sandbox is a request.
LEMMA CleanedIsFlight ==
    ASSUME NEW q \in Flight
    PROVE  LET new == [q EXCEPT !.at = "cleaned"]
           IN  new \in Flight /\ new.at = "cleaned" /\ new.who = q.who /\ new.uid = q.uid
    BY DEF Flight

\* The invariant of the accounts holds at the start.
LEMMA AccInitInv == AccInit => AccInv
    <1> SUFFICES ASSUME AccInit PROVE AccInv
      OBVIOUS
    <1>1. NoUser \in UserRow /\ Unused \in TokenRow
      BY AccBounds DEF NoUser, UserRow, Unused, TokenRow, NoUid
    <1>2. AccTypeOK
      BY <1>1, DoneIsFlight, AccBounds DEF AccInit, AccTypeOK
    <1>3. UidsAreOwn /\ RequestsKnow /\ FilesAreOwn /\ SessionsContinue /\ RevokedSessionsEnd
      BY DEF AccInit, UidsAreOwn, RequestsKnow, FilesAreOwn, SessionsContinue, RevokedSessionsEnd,
         Here, At, NoUser, Unused, Done
    <1>4. QED
      BY <1>2, <1>3 DEF AccInv

\* The first half of a login keeps the invariant.
LEMMA StartLoginKeeps ==
    ASSUME AccInv, NEW r \in AccRequest, NEW p \in Person, StartLogin(r, p)
    PROVE  AccInv'
    <1>1. Admitted(p) \in Flight /\ Admitted(p).at = "admitted" /\ Admitted(p).who = p
          /\ Admitted(p).login = epoch[p]
      BY AdmittedIsFlight DEF AccInv
    <1>2. /\ areq' = [areq EXCEPT ![r] = Admitted(p)]
          /\ UNCHANGED <<user, tok, epoch, slipped, files, late, accEdits>>
      BY DEF StartLogin, Go
    <1>3. AccTypeOK'
      BY <1>1, <1>2 DEF AccInv, AccTypeOK
    <1>4. \A x \in AccRequest : areq'[x].at # "admitted" => areq'[x] = areq[x]
      BY <1>1, <1>2 DEF AccInv, AccTypeOK
    <1>5. UidsAreOwn'
      BY <1>2 DEF AccInv, UidsAreOwn, Here
    <1>6. RequestsKnow'
      BY <1>2, <1>4 DEF AccInv, RequestsKnow, At, Here
    <1>7. FilesAreOwn'
      BY <1>2, <1>4 DEF AccInv, FilesAreOwn, At, Here
    <1>8. \A x \in AccRequest : areq'[x] = IF x = r THEN Admitted(p) ELSE areq[x]
      BY <1>2 DEF AccInv, AccTypeOK
    <1>9. SessionsContinue' /\ RevokedSessionsEnd'
      BY <1>1, <1>2, <1>8 DEF AccInv, SessionsContinue, At, RevokedSessionsEnd
    <1>10. QED
      BY <1>3, <1>5, <1>6, <1>7, <1>9 DEF AccInv

\* The second half of a login keeps the invariant.
LEMMA LoginKeeps == ASSUME AccInv, NEW r \in AccRequest, Login(r) PROVE AccInv'
    <1> DEFINE p == areq[r].who
    <1>0. AccTypeOK /\ p \in Person /\ areq[r].login \in Nat /\ Done \in Flight /\ Done.at = "done"
      BY DoneIsFlight DEF AccInv, AccTypeOK, Flight, Done
    <1>1. /\ areq' = [areq EXCEPT ![r] = Done]
          /\ UNCHANGED <<user, epoch, slipped, files, late, accEdits>>
          /\ p \notin slipped => areq[r].login = epoch[p]
      BY DEF Login, Go, AccInv, SessionsContinue, At
    <1>2. tok' \in [Token -> TokenRow]
      BY <1>0, IssueIsNew DEF Login, AccTypeOK
    <1>3. PICK s \in Token :
             /\ tok[s].state = "unused"
             /\ tok' = [tok EXCEPT ![s] = [state |-> "live", of |-> p, login |-> areq[r].login]]
      BY <1>0, IssueIsNew DEF Login, AccTypeOK
    <1>4. \A x \in AccRequest : areq'[x].at # "done" => areq'[x] = areq[x]
      BY <1>0, <1>1 DEF AccTypeOK
    <1>5. AccTypeOK'
      BY <1>0, <1>1, <1>2 DEF AccTypeOK
    <1>6. UidsAreOwn'
      BY <1>1 DEF AccInv, UidsAreOwn, Here
    <1>7. RequestsKnow'
      BY <1>1, <1>4 DEF AccInv, RequestsKnow, At, Here
    <1>8. FilesAreOwn'
      BY <1>1, <1>4 DEF AccInv, FilesAreOwn, At, Here
    <1>9. SessionsContinue'
      BY <1>0, <1>1, <1>3, <1>4 DEF AccInv, AccTypeOK, SessionsContinue, At
    <1>10. RevokedSessionsEnd'
      BY <1>0, <1>1, <1>3 DEF AccInv, AccTypeOK, RevokedSessionsEnd
    <1>11. QED
      BY <1>5, <1>6, <1>7, <1>8, <1>9, <1>10 DEF AccInv

\* Verify keeps the invariant.
LEMMA VerifyKeeps == ASSUME AccInv, NEW r \in AccRequest, NEW t \in Token, Verify(r, t) PROVE AccInv'
    <1>1. AccTypeOK'
      <2>1. user' \in [Person -> UserRow]
        BY DEF AccInv, Verify, AccTypeOK
      <2>2. tok' \in [Token -> TokenRow]
        BY DEF AccInv, Verify, AccTypeOK
      <2>3. areq' \in [AccRequest -> Flight]
        <3>1. [Done EXCEPT !.at = "verified", !.tok = t, !.who = tok[t].of] \in Flight
          BY DoneIsFlight DEF AccInv, Verify, AccTypeOK, Flight, TokenRow
        <3>2. QED
          BY <3>1, DoneIsFlight DEF AccInv, Verify, AccTypeOK, Go
      <2>4. epoch' \in [Person -> Nat] /\ slipped' \subseteq Person /\ late' \subseteq Person
           /\ files' \in [0..UidMax -> SUBSET Person] /\ accEdits' \in 0..AccEdits
        BY DEF AccInv, Verify, AccTypeOK
      <2>5. QED
        BY <2>1, <2>2, <2>3, <2>4 DEF AccInv, Verify, AccTypeOK
    <1>2. UidsAreOwn'
      BY DEF AccInv, Verify, AccTypeOK, UidsAreOwn, Here
    <1>3. RequestsKnow'
      BY DEF AccInv, Verify, AccTypeOK, RequestsKnow, At, Here, Go, Done
    <1>4. FilesAreOwn'
      BY DEF AccInv, Verify, AccTypeOK, FilesAreOwn, At, Here, Go, Done
    <1>5. SessionsContinue'
      BY DEF AccInv, Verify, AccTypeOK, SessionsContinue, RevokedSessionsEnd, At, Go, Done
    <1>6. RevokedSessionsEnd'
      BY DEF AccInv, Verify, AccTypeOK, RevokedSessionsEnd
    <1>7. QED
      BY <1>1, <1>2, <1>3, <1>4, <1>5, <1>6 DEF AccInv

\* Refresh keeps the invariant.
LEMMA RefreshKeeps == ASSUME AccInv, NEW r \in AccRequest, Refresh(r) PROVE AccInv'
    <1>1. AccTypeOK'
      <2>1. user' \in [Person -> UserRow]
        BY DEF AccInv, Refresh, AccTypeOK
      <2>2. tok' \in [Token -> TokenRow]
        <3>1. areq[r].tok \in Token
          BY DEF AccInv, Refresh, SessionsContinue, At
        <3>2. QED
          BY <3>1, RotateReplaces DEF AccInv, Refresh
      <2>3. areq' \in [AccRequest -> Flight]
        BY DoneIsFlight DEF AccInv, Refresh, AccTypeOK, Go
      <2>4. epoch' \in [Person -> Nat] /\ slipped' \subseteq Person /\ late' \subseteq Person
           /\ files' \in [0..UidMax -> SUBSET Person] /\ accEdits' \in 0..AccEdits
        BY DEF AccInv, Refresh, AccTypeOK
      <2>5. QED
        BY <2>1, <2>2, <2>3, <2>4 DEF AccInv, Refresh, AccTypeOK
    <1>2. /\ Rotated(areq[r].tok)
      <2>1. areq[r].tok \in Token
        BY DEF AccInv, Refresh, SessionsContinue, At
      <2>2. QED
        BY <2>1, RotateReplaces DEF AccInv, Refresh
    <1>3. UidsAreOwn'
      BY DEF AccInv, Refresh, AccTypeOK, UidsAreOwn, Here
    <1>4. RequestsKnow'
      BY DEF AccInv, Refresh, AccTypeOK, RequestsKnow, At, Here, Go, Done
    <1>5. FilesAreOwn'
      BY DEF AccInv, Refresh, AccTypeOK, FilesAreOwn, At, Here, Go, Done
    <1>6. SessionsContinue'
      <2>1. PICK s \in Token :
               /\ \A x \in Token \ {s} : tok'[x].of = tok[x].of /\ tok'[x].login = tok[x].login
                                         /\ (tok[x].state # "unused" => tok'[x].state # "unused")
               /\ tok[s].state # "unused" => tok'[s].state # "unused" /\ tok'[s].of = tok[s].of
                                            /\ tok'[s].login = tok[s].login
        BY <1>2 DEF Rotated
      <2>2. \A x \in AccRequest : areq'[x].at # "done" => areq'[x] = areq[x]
        BY DEF AccInv, Refresh, AccTypeOK, Go, Done
      <2>3. UNCHANGED <<epoch, slipped>>
        BY DEF Refresh
      <2>4. QED
        BY <2>1, <2>2, <2>3 DEF AccInv, SessionsContinue, At
    <1>7. RevokedSessionsEnd'
      BY <1>2 DEF AccInv, Refresh, AccTypeOK, Rotated, SessionsContinue, At, RevokedSessionsEnd
    <1>8. QED
      BY <1>1, <1>3, <1>4, <1>5, <1>6, <1>7 DEF AccInv

\* Logout keeps the invariant.
LEMMA LogoutKeeps == ASSUME AccInv, NEW t \in Token, Logout(t) PROVE AccInv'
    <1>1. AccTypeOK'
      <2>1. user' \in [Person -> UserRow]
        BY DEF AccInv, Logout, AccTypeOK
      <2>2. tok' \in [Token -> TokenRow]
        BY Revoked DEF AccInv, Logout, AccTypeOK
      <2>3. areq' \in [AccRequest -> Flight]
        BY DEF AccInv, Logout, AccTypeOK
      <2>4. epoch' \in [Person -> Nat] /\ slipped' \subseteq Person /\ late' \subseteq Person
           /\ files' \in [0..UidMax -> SUBSET Person] /\ accEdits' \in 0..AccEdits
        BY DEF AccInv, Logout, AccTypeOK
      <2>5. QED
        BY <2>1, <2>2, <2>3, <2>4 DEF AccInv, Logout, AccTypeOK
    <1>2. UidsAreOwn'
      BY DEF AccInv, Logout, AccTypeOK, UidsAreOwn, Here
    <1>3. RequestsKnow'
      BY DEF AccInv, Logout, AccTypeOK, RequestsKnow, At, Here
    <1>4. FilesAreOwn'
      BY DEF AccInv, Logout, AccTypeOK, FilesAreOwn, At, Here
    <1>5. SessionsContinue'
      BY DEF AccInv, Logout, AccTypeOK, SessionsContinue, At
    <1>6. RevokedSessionsEnd'
      BY DEF AccInv, Logout, AccTypeOK, RevokedSessionsEnd
    <1>7. QED
      BY <1>1, <1>2, <1>3, <1>4, <1>5, <1>6 DEF AccInv

\* The first half of a logout of all sessions keeps the invariant.
LEMMA StartLogoutAllKeeps ==
    ASSUME AccInv, NEW r \in AccRequest, NEW p \in Person, StartLogoutAll(r, p)
    PROVE  AccInv'
    BY StartRevokeKeeps DEF StartLogoutAll

\* StartRegister keeps the invariant.
LEMMA StartRegisterKeeps == ASSUME AccInv, NEW r \in AccRequest, StartRegister(r) PROVE AccInv'
    <1>1. AccTypeOK'
      <2>1. user' \in [Person -> UserRow]
        BY DEF AccInv, StartRegister, AccTypeOK
      <2>2. tok' \in [Token -> TokenRow]
        BY DEF AccInv, StartRegister, AccTypeOK
      <2>3. areq' \in [AccRequest -> Flight]
        <3>1. [Done EXCEPT !.at = "registering"] \in Flight
          BY DoneIsFlight DEF AccInv, StartRegister, Flight
        <3>2. QED
          BY <3>1, DoneIsFlight DEF AccInv, StartRegister, AccTypeOK, Go
      <2>4. epoch' \in [Person -> Nat] /\ slipped' \subseteq Person /\ late' \subseteq Person
           /\ files' \in [0..UidMax -> SUBSET Person] /\ accEdits' \in 0..AccEdits
        BY DEF AccInv, StartRegister, AccTypeOK
      <2>5. QED
        BY <2>1, <2>2, <2>3, <2>4 DEF AccInv, StartRegister, AccTypeOK
    <1>2. UidsAreOwn'
      BY DEF AccInv, StartRegister, AccTypeOK, UidsAreOwn, Here
    <1>3. RequestsKnow'
      BY DEF AccInv, StartRegister, AccTypeOK, RequestsKnow, At, Here, Go, Done
    <1>4. FilesAreOwn'
      BY DEF AccInv, StartRegister, AccTypeOK, FilesAreOwn, At, Here, Go, Done
    <1>5. SessionsContinue'
      BY DEF AccInv, StartRegister, AccTypeOK, SessionsContinue, At, Go, Done
    <1>6. RevokedSessionsEnd'
      BY DEF AccInv, StartRegister, AccTypeOK, RevokedSessionsEnd
    <1>7. QED
      BY <1>1, <1>2, <1>3, <1>4, <1>5, <1>6 DEF AccInv

\* Register keeps the invariant.
LEMMA RegisterKeeps == ASSUME AccInv, NEW r \in AccRequest, Register(r) PROVE AccInv'
    <1>1. AccTypeOK'
      <2>1. user' \in [Person -> UserRow]
        <3>1. [status |-> "active", role |-> "admin", uid |-> ReservedUid] \in UserRow
          BY AccBounds DEF AccInv, Register, UserRow, NoUid, ReservedUid
        <3>2. QED
          BY <3>1, AccBounds DEF AccInv, Register, AccTypeOK
      <2>2. tok' \in [Token -> TokenRow]
        BY DEF AccInv, Register, AccTypeOK
      <2>3. areq' \in [AccRequest -> Flight]
        BY DoneIsFlight, AdmittedIsFlight, AccBounds DEF AccInv, Register, AccTypeOK, Go
      <2>4. epoch' \in [Person -> Nat] /\ slipped' \subseteq Person /\ late' \subseteq Person
           /\ files' \in [0..UidMax -> SUBSET Person] /\ accEdits' \in 0..AccEdits
        BY DEF AccInv, Register, AccTypeOK
      <2>5. QED
        BY <2>1, <2>2, <2>3, <2>4 DEF AccInv, Register, AccTypeOK
    <1>a. \A x \in AccRequest : \/ areq'[x] = areq[x] \/ areq'[x].at = "done"
                                \/ /\ areq'[x].at = "admitted"
                                   /\ areq'[x].login = epoch[areq'[x].who]
      <2>1. /\ Admitted(FirstAdmin).at = "admitted"
            /\ Admitted(FirstAdmin).login = epoch[Admitted(FirstAdmin).who] /\ Done.at = "done"
        BY AdmittedIsFlight, AccBounds DEF AccInv, Done
      <2>2. QED
        BY <2>1 DEF AccInv, Register, AccTypeOK, Go
    <1>2. UidsAreOwn'
      <2>1. CASE UNCHANGED user
        BY <2>1 DEF AccInv, UidsAreOwn, Here
      <2>2. CASE user' = [user EXCEPT ![FirstAdmin] = [status |-> "active", role |-> "admin",
                                                       uid |-> ReservedUid]]
        BY <2>2, AccBounds DEF AccInv, AccTypeOK, UidsAreOwn, Here, ReservedUid
      <2>3. QED
        BY <2>1, <2>2 DEF Register
    <1>3. RequestsKnow'
      BY <1>a, FlightFields, AccBounds DEF AccInv, Register, AccTypeOK, RequestsKnow, Here, At
    <1>4. FilesAreOwn'
      <2>1. \A p \in Person : Here(p) => user'[p] = user[p]
        BY DEF AccInv, Register, AccTypeOK
      <2>2. \A x \in AccRequest : areq'[x].at = "cleaned" => areq'[x] = areq[x]
        BY <1>a
      <2>3. UNCHANGED <<files, late>>
        BY DEF AccInv, Register
      <2>4. \A u \in 0..UidMax : \A p \in files'[u] \ late' : Here(p)' /\ user'[p].uid = u
        BY <2>1, <2>3 DEF AccInv, AccTypeOK, FilesAreOwn, Here
      <2>5. \A x \in AccRequest : At(x, "cleaned")' => files'[areq'[x].uid] \subseteq late'
        BY <2>2, <2>3 DEF AccInv, FilesAreOwn, At
      <2>6. QED
        BY <2>4, <2>5 DEF FilesAreOwn
    <1>5. SessionsContinue'
      BY <1>a DEF AccInv, Register, SessionsContinue, At
    <1>6. RevokedSessionsEnd'
      BY DEF AccInv, Register, RevokedSessionsEnd
    <1>7. QED
      BY <1>1, <1>2, <1>3, <1>4, <1>5, <1>6 DEF AccInv

\* StartCreate keeps the invariant.
LEMMA StartCreateKeeps ==
    ASSUME AccInv, NEW r \in AccRequest, NEW by \in Person, NEW p \in Person, NEW role \in {"admin",
           "moderator", "user"}, StartCreate(r, by, p, role)
    PROVE  AccInv'
    <1>1. AccTypeOK'
      <2>1. user' \in [Person -> UserRow]
        BY DEF AccInv, StartCreate, AccTypeOK
      <2>2. tok' \in [Token -> TokenRow]
        BY DEF AccInv, StartCreate, AccTypeOK
      <2>3. areq' \in [AccRequest -> Flight]
        <3>1. [Done EXCEPT !.at = "allocating", !.who = p, !.role = role] \in Flight
          BY DoneIsFlight DEF AccInv, StartCreate, Flight
        <3>2. QED
          BY <3>1, DoneIsFlight DEF AccInv, StartCreate, AccTypeOK, Go
      <2>4. epoch' \in [Person -> Nat] /\ slipped' \subseteq Person /\ late' \subseteq Person
           /\ files' \in [0..UidMax -> SUBSET Person] /\ accEdits' \in 0..AccEdits
        BY AccBounds DEF AccInv, StartCreate, AccTypeOK, Counted
      <2>5. QED
        BY <2>1, <2>2, <2>3, <2>4 DEF AccInv, StartCreate, AccTypeOK
    <1>2. UidsAreOwn'
      BY DEF AccInv, StartCreate, AccTypeOK, UidsAreOwn, Here
    <1>3. RequestsKnow'
      BY DEF AccInv, StartCreate, AccTypeOK, RequestsKnow, At, Here, Go, Done
    <1>4. FilesAreOwn'
      BY DEF AccInv, StartCreate, AccTypeOK, FilesAreOwn, At, Here, Go, Done
    <1>5. SessionsContinue'
      BY DEF AccInv, StartCreate, AccTypeOK, SessionsContinue, At, Go, Done
    <1>6. RevokedSessionsEnd'
      BY DEF AccInv, StartCreate, AccTypeOK, RevokedSessionsEnd
    <1>7. QED
      BY <1>1, <1>2, <1>3, <1>4, <1>5, <1>6 DEF AccInv

\* Allocate keeps the invariant.
LEMMA AllocateKeeps == ASSUME AccInv, NEW r \in AccRequest, Allocate(r) PROVE AccInv'
    <1>1. AccTypeOK'
      <2>1. user' \in [Person -> UserRow]
        BY DEF AccInv, Allocate, AccTypeOK
      <2>2. tok' \in [Token -> TokenRow]
        BY DEF AccInv, Allocate, AccTypeOK
      <2>3. areq' \in [AccRequest -> Flight]
        <3>1. \A u \in 1..UidMax : Creating(areq[r], u) \in Flight
          BY CreatingIsFlight DEF AccInv, AccTypeOK
        <3>2. QED
          BY <3>1, DoneIsFlight DEF AccInv, Allocate, AccTypeOK, Go, AllocateUid
      <2>4. epoch' \in [Person -> Nat] /\ slipped' \subseteq Person /\ late' \subseteq Person
           /\ files' \in [0..UidMax -> SUBSET Person] /\ accEdits' \in 0..AccEdits
        BY DEF AccInv, Allocate, AccTypeOK
      <2>5. QED
        BY <2>1, <2>2, <2>3, <2>4 DEF AccInv, Allocate, AccTypeOK
    <1>2. /\ \A s \in AccRequest \ {r} : areq'[s] = areq[s]
          /\ \/ areq'[r].at = "done"
             \/ areq'[r].at = "creating" /\ areq'[r].uid > 0 /\ areq'[r].who = areq[r].who
      BY CreatingIsFlight DEF AccInv, Allocate, AccTypeOK, Go, Done, AllocateUid
    <1>3. UidsAreOwn'
      BY DEF AccInv, Allocate, AccTypeOK, UidsAreOwn, Here
    <1>4. RequestsKnow'
      BY <1>2 DEF AccInv, Allocate, AccTypeOK, RequestsKnow, At, Here
    <1>5. FilesAreOwn'
      BY <1>2 DEF AccInv, Allocate, AccTypeOK, FilesAreOwn, At, Here
    <1>6. SessionsContinue'
      BY <1>2 DEF AccInv, Allocate, AccTypeOK, SessionsContinue, At
    <1>7. RevokedSessionsEnd'
      BY DEF AccInv, Allocate, AccTypeOK, RevokedSessionsEnd
    <1>8. QED
      BY <1>1, <1>3, <1>4, <1>5, <1>6, <1>7 DEF AccInv

\* Create keeps the invariant.
LEMMA CreateKeeps == ASSUME AccInv, NEW r \in AccRequest, Create(r) PROVE AccInv'
    <1>1. AccTypeOK'
      <2>1. user' \in [Person -> UserRow]
        <3>1. [status |-> "active", role |-> areq[r].role, uid |-> areq[r].uid] \in UserRow
          BY DEF AccInv, Create, AccTypeOK, UserRow, Flight
        <3>2. QED
          BY <3>1 DEF AccInv, Create, AccTypeOK, NewAccount
      <2>2. tok' \in [Token -> TokenRow]
        BY DEF AccInv, Create, AccTypeOK
      <2>3. areq' \in [AccRequest -> Flight]
        <3>1. areq[r].tries + 1 < UidRetries => Retrying(areq[r]) \in Flight
          BY RetryingIsFlight DEF AccInv, AccTypeOK
        <3>2. QED
          BY <3>1, DoneIsFlight DEF AccInv, Create, AccTypeOK, Go
      <2>4. epoch' \in [Person -> Nat] /\ slipped' \subseteq Person /\ late' \subseteq Person
           /\ files' \in [0..UidMax -> SUBSET Person] /\ accEdits' \in 0..AccEdits
        BY DEF AccInv, Create, AccTypeOK
      <2>5. QED
        BY <2>1, <2>2, <2>3, <2>4 DEF AccInv, Create, AccTypeOK
    <1>2. /\ \A s \in AccRequest \ {r} : areq'[s] = areq[s]
          /\ \/ areq'[r].at = "done"
             \/ areq'[r].at = "allocating" /\ areq'[r].who = areq[r].who
      <2>1. \/ areq' = [areq EXCEPT ![r] = Done]
            \/ areq[r].tries + 1 < UidRetries /\ areq' = [areq EXCEPT ![r] = Retrying(areq[r])]
        BY DEF Create, Go
      <2>2. areq \in [AccRequest -> Flight]
        BY DEF AccInv, AccTypeOK
      <2>3. Done.at = "done"
        BY DEF Done
      <2>4. CASE areq' = [areq EXCEPT ![r] = Done]
        BY <2>2, <2>4 DEF Done
      <2>5. CASE ~(areq' = [areq EXCEPT ![r] = Done])
        <3> DEFINE new == Retrying(areq[r])
        <3>1. areq' = [areq EXCEPT ![r] = new]
          BY <2>1, <2>5
        <3>2. new.at = "allocating" /\ new.who = areq[r].who
          BY <2>1, <2>2, <2>5, RetryingIsFlight
        <3> HIDE DEF new
        <3>3. QED
          BY <2>2, <3>1, <3>2
      <2>6. QED
        BY <2>4, <2>5
    <1>3. \/ user' = user
          \/ /\ areq[r].uid \notin Taken /\ areq[r].uid \in 1..UidMax
             /\ \E p \in Person \ {FirstAdmin} :
                   /\ user[p].status = "absent"
                   /\ user' = [user EXCEPT ![p] = [status |-> "active", role |-> areq[r].role,
                                                   uid |-> areq[r].uid]]
      BY FlightFields DEF AccInv, Create, AccTypeOK, NewAccount, RequestsKnow, At
    <1>4. \A p \in Person : Here(p) => user'[p] = user[p]
      BY <1>3 DEF AccInv, AccTypeOK, Here
    <1>5. UidsAreOwn'
      <2>1. CASE user' = user
        BY <2>1 DEF AccInv, UidsAreOwn, Here
      <2>2. CASE ~(user' = user)
        <3>1. PICK p \in Person \ {FirstAdmin} :
                 user' = [user EXCEPT ![p] = [status |-> "active", role |-> areq[r].role, uid |-> areq[r].uid]]
          BY <1>3, <2>2
        <3>2. areq[r].uid \in 1..UidMax /\ \A q \in Person : Here(q) => user[q].uid # areq[r].uid
          BY <1>3, <2>2 DEF AccInv, Create, Taken
        <3>3. QED
          BY <3>1, <3>2, AccBounds DEF AccInv, AccTypeOK, UidsAreOwn, Here, ReservedUid
      <2>3. QED
        BY <2>1, <2>2
    <1>6. RequestsKnow'
      <2>1. \A p \in Person : user[p].status # "absent" => user'[p] = user[p]
        BY <1>3 DEF AccInv, AccTypeOK
      <2>2. \A s \in AccRequest : areq'[s].at \in {"cleaning", "cleaned", "creating", "signed"} => areq'[s] = areq[s]
        BY <1>2
      <2>3. areq[r].who # FirstAdmin
        BY DEF AccInv, Create, RequestsKnow, At
      <2>4. QED
        BY <1>2, <2>1, <2>2, <2>3, FlightFields DEF AccInv, RequestsKnow, At, Here
    <1>7. FilesAreOwn'
      <2>1. UNCHANGED <<files, late>>
        BY DEF AccInv, Create
      <2>2. QED
        BY <1>2, <1>4, <2>1 DEF AccInv, AccTypeOK, FilesAreOwn, At, Here
    <1>8. SessionsContinue'
      BY <1>2 DEF AccInv, Create, AccTypeOK, SessionsContinue, At
    <1>9. RevokedSessionsEnd'
      BY DEF AccInv, Create, AccTypeOK, RevokedSessionsEnd
    <1>10. QED
      BY <1>1, <1>5, <1>6, <1>7, <1>8, <1>9 DEF AccInv

\* UpdateUser keeps the invariant.
LEMMA UpdateUserKeeps ==
    ASSUME AccInv, NEW by \in Person, NEW p \in Person, UpdateUser(by, p)
    PROVE  AccInv'
    <1>r. CASE \E r \in AccRequest : StartRevoke(r, p) /\ UNCHANGED user
      BY <1>r, StartRevokeKeeps DEF UpdateUser
    <1> SUFFICES ASSUME UNCHANGED areq PROVE AccInv'
      BY <1>r DEF UpdateUser
    <1>1. AccTypeOK'
      <2>1. user' \in [Person -> UserRow]
        <3>1. \A role \in {"admin", "moderator", "user"} : [user[p] EXCEPT !.role = role] \in UserRow
          BY DEF AccInv, UpdateUser, AccTypeOK, UserRow
        <3>2. \A s \in {"active", "disabled"} : [user[p] EXCEPT !.status = s] \in UserRow
          BY DEF AccInv, UpdateUser, AccTypeOK, UserRow
        <3>3. QED
          BY <3>1, <3>2 DEF AccInv, UpdateUser, AccTypeOK
      <2>2. tok' \in [Token -> TokenRow]
        BY DEF AccInv, UpdateUser, AccTypeOK
      <2>3. areq' \in [AccRequest -> Flight]
        BY DEF AccInv, UpdateUser, AccTypeOK
      <2>4. epoch' \in [Person -> Nat] /\ slipped' \subseteq Person /\ late' \subseteq Person
           /\ files' \in [0..UidMax -> SUBSET Person] /\ accEdits' \in 0..AccEdits
        BY AccBounds DEF AccInv, UpdateUser, StartRevoke, AccTypeOK, Counted
      <2>5. QED
        BY <2>1, <2>2, <2>3, <2>4 DEF AccInv, UpdateUser, AccTypeOK
    <1>2. \A q \in Person :
             /\ user'[q].status \in {"active", "disabled"} <=> user[q].status \in {"active", "disabled"}
             /\ user'[q].uid = user[q].uid
             /\ user'[q].status = "absent" <=> user[q].status = "absent"
      <2>1. user \in [Person -> UserRow]
        BY DEF AccInv, AccTypeOK
      <2> SUFFICES ASSUME NEW q \in Person
                   PROVE  /\ user'[q].status \in {"active", "disabled"} <=> user[q].status \in {"active", "disabled"}
                          /\ user'[q].uid = user[q].uid
                          /\ user'[q].status = "absent" <=> user[q].status = "absent"
        OBVIOUS
      <2>2. QED
        BY <2>1 DEF UpdateUser, UserRow, Here
    <1>3. UidsAreOwn'
      BY <1>2 DEF AccInv, UidsAreOwn, Here
    <1>4. RequestsKnow'
      BY <1>2, FlightFields DEF AccInv, UpdateUser, RequestsKnow, At, Here
    <1>5. FilesAreOwn'
      BY <1>2, FlightFields DEF AccInv, UpdateUser, AccTypeOK, FilesAreOwn, At, Here
    <1>6. SessionsContinue'
      BY DEF AccInv, UpdateUser, SessionsContinue, At
    <1>7. RevokedSessionsEnd'
      BY DEF AccInv, UpdateUser, RevokedSessionsEnd
    <1>8. QED
      BY <1>1, <1>3, <1>4, <1>5, <1>6, <1>7 DEF AccInv

\* StartDelete keeps the invariant.
LEMMA StartDeleteKeeps ==
    ASSUME AccInv, NEW r \in AccRequest, NEW by \in Person, NEW p \in Person, StartDelete(r, by, p)
    PROVE  AccInv'
    <1>1. AccTypeOK'
      <2>1. user' \in [Person -> UserRow]
        BY DEF AccInv, StartDelete, AccTypeOK
      <2>2. tok' \in [Token -> TokenRow]
        BY DEF AccInv, StartDelete, AccTypeOK
      <2>3. areq' \in [AccRequest -> Flight]
        <3>1. [Done EXCEPT !.at = "cleaning", !.who = p, !.uid = user[p].uid] \in Flight
          BY DoneIsFlight DEF AccInv, StartDelete, Flight, AccTypeOK, UserRow
        <3>2. QED
          BY <3>1, DoneIsFlight DEF AccInv, StartDelete, AccTypeOK, Go
      <2>4. epoch' \in [Person -> Nat] /\ slipped' \subseteq Person /\ late' \subseteq Person
           /\ files' \in [0..UidMax -> SUBSET Person] /\ accEdits' \in 0..AccEdits
        BY AccBounds DEF AccInv, StartDelete, AccTypeOK, Counted
      <2>5. QED
        BY <2>1, <2>2, <2>3, <2>4 DEF AccInv, StartDelete, AccTypeOK
    <1>2. UidsAreOwn'
      BY DEF AccInv, StartDelete, AccTypeOK, UidsAreOwn, Here
    <1>3. RequestsKnow'
      BY DEF AccInv, StartDelete, AccTypeOK, RequestsKnow, UidsAreOwn, Here, At, Go, Done
    <1>4. FilesAreOwn'
      BY DEF AccInv, StartDelete, AccTypeOK, FilesAreOwn, At, Here, Go, Done
    <1>5. SessionsContinue'
      BY DEF AccInv, StartDelete, AccTypeOK, SessionsContinue, At, Go, Done
    <1>6. RevokedSessionsEnd'
      BY DEF AccInv, StartDelete, AccTypeOK, RevokedSessionsEnd
    <1>7. QED
      BY <1>1, <1>2, <1>3, <1>4, <1>5, <1>6 DEF AccInv

\* CleanSandbox keeps the invariant.
LEMMA CleanSandboxKeeps == ASSUME AccInv, NEW r \in AccRequest, CleanSandbox(r) PROVE AccInv'
    <1>1. AccTypeOK'
      <2>1. user' \in [Person -> UserRow]
        BY DEF AccInv, CleanSandbox, AccTypeOK
      <2>2. tok' \in [Token -> TokenRow]
        BY DEF AccInv, CleanSandbox, AccTypeOK
      <2>3. areq' \in [AccRequest -> Flight]
        <3>1. [areq[r] EXCEPT !.at = "cleaned"] \in Flight
          BY DoneIsFlight DEF AccInv, CleanSandbox, Flight, AccTypeOK
        <3>2. QED
          BY <3>1, DoneIsFlight DEF AccInv, CleanSandbox, AccTypeOK, Go
      <2>4. epoch' \in [Person -> Nat] /\ slipped' \subseteq Person /\ late' \subseteq Person
           /\ files' \in [0..UidMax -> SUBSET Person] /\ accEdits' \in 0..AccEdits
        BY DEF AccInv, CleanSandbox, AccTypeOK
      <2>5. QED
        BY <2>1, <2>2, <2>3, <2>4 DEF AccInv, CleanSandbox, AccTypeOK
    <1>2. /\ \A s \in AccRequest \ {r} : areq'[s] = areq[s]
          /\ \/ areq'[r].at = "done" /\ UNCHANGED files
             \/ /\ areq'[r].at = "cleaned" /\ areq'[r].uid = areq[r].uid /\ areq'[r].who = areq[r].who
                /\ files' = [files EXCEPT ![areq[r].uid] = {}]
      <2>1. \/ areq' = [areq EXCEPT ![r] = Done] /\ UNCHANGED files
            \/ /\ areq' = [areq EXCEPT ![r] = [areq[r] EXCEPT !.at = "cleaned"]]
               /\ files' = [files EXCEPT ![areq[r].uid] = {}]
        BY DEF CleanSandbox, Go
      <2>2. areq \in [AccRequest -> Flight]
        BY DEF AccInv, AccTypeOK
      <2>3. Done.at = "done"
        BY DEF Done
      <2>4. CASE areq' = [areq EXCEPT ![r] = Done] /\ UNCHANGED files
        BY <2>2, <2>3, <2>4
      <2>5. CASE ~(areq' = [areq EXCEPT ![r] = Done] /\ UNCHANGED files)
        <3> DEFINE new == [areq[r] EXCEPT !.at = "cleaned"]
        <3>1. areq' = [areq EXCEPT ![r] = new] /\ files' = [files EXCEPT ![areq[r].uid] = {}]
          BY <2>1, <2>5
        <3>2. new.at = "cleaned" /\ new.who = areq[r].who /\ new.uid = areq[r].uid
          BY <2>1, <2>2, <2>5, CleanedIsFlight
        <3> HIDE DEF new
        <3>3. QED
          BY <2>2, <3>1, <3>2
      <2>6. QED
        BY <2>4, <2>5
    <1>3. UidsAreOwn'
      BY DEF AccInv, CleanSandbox, AccTypeOK, UidsAreOwn, Here
    <1>4. RequestsKnow'
      BY <1>2 DEF AccInv, CleanSandbox, AccTypeOK, RequestsKnow, At, Here
    <1>5. FilesAreOwn'
      <2>1. \A s \in AccRequest : s = r \/ At(s, "cleaned") => areq[s].uid \in 0..UidMax
        BY FlightFields, AccBounds DEF AccInv, CleanSandbox, RequestsKnow, At, NoUid
      <2>2. UNCHANGED <<user, late>>
        BY DEF AccInv, CleanSandbox
      <2>3. \A u \in 0..UidMax : files'[u] = {} \/ files'[u] = files[u]
        BY <1>2 DEF AccInv, AccTypeOK
      <2>4. \A u \in 0..UidMax : \A p \in files'[u] \ late' : Here(p)' /\ user'[p].uid = u
        BY <2>2, <2>3 DEF AccInv, FilesAreOwn, Here
      <2>5. At(r, "cleaned")' => files'[areq'[r].uid] = {}
        BY <1>2, <2>1 DEF AccInv, AccTypeOK, At
      <2>6. \A x \in AccRequest : At(x, "cleaned")' => files'[areq'[x].uid] \subseteq late'
        BY <1>2, <2>1, <2>2, <2>3, <2>5 DEF AccInv, FilesAreOwn, At
      <2>7. QED
        BY <2>4, <2>6 DEF FilesAreOwn
    <1>6. SessionsContinue'
      BY <1>2 DEF AccInv, CleanSandbox, AccTypeOK, SessionsContinue, At
    <1>7. RevokedSessionsEnd'
      BY DEF AccInv, CleanSandbox, AccTypeOK, RevokedSessionsEnd
    <1>8. QED
      BY <1>1, <1>3, <1>4, <1>5, <1>6, <1>7 DEF AccInv

\* DeleteUser keeps the invariant.
LEMMA DeleteUserKeeps == ASSUME AccInv, NEW r \in AccRequest, DeleteUser(r) PROVE AccInv'
    <1>1. AccTypeOK'
      <2>1. user' \in [Person -> UserRow]
        <3>1. [NoUser EXCEPT !.status = "deleted"] \in UserRow
          BY AccBounds DEF AccInv, DeleteUser, UserRow, NoUser, NoUid
        <3>2. areq[r].who \in Person
          BY DEF AccInv, DeleteUser, AccTypeOK, Flight
        <3>3. QED
          BY <3>1, <3>2 DEF AccInv, DeleteUser, AccTypeOK
      <2>2. tok' \in [Token -> TokenRow]
        BY DEF AccInv, DeleteUser, AccTypeOK
      <2>3. areq' \in [AccRequest -> Flight]
        BY DoneIsFlight DEF AccInv, DeleteUser, AccTypeOK, Go
      <2>4. epoch' \in [Person -> Nat] /\ slipped' \subseteq Person /\ late' \subseteq Person
           /\ files' \in [0..UidMax -> SUBSET Person] /\ accEdits' \in 0..AccEdits
        BY DEF AccInv, DeleteUser, AccTypeOK
      <2>5. QED
        BY <2>1, <2>2, <2>3, <2>4 DEF AccInv, DeleteUser, AccTypeOK
    <1>2. UidsAreOwn'
      <2>1. areq[r].who \in Person /\ areq[r].uid \in Int
        BY DEF AccInv, DeleteUser, AccTypeOK, Flight, NoUid
      <2>2. QED
        BY <2>1 DEF AccInv, DeleteUser, AccTypeOK, Here, UidsAreOwn, NoUser
    <1>3. RequestsKnow'
      BY DEF AccInv, DeleteUser, AccTypeOK, RequestsKnow, At, Here, Go, Done
    <1>4. FilesAreOwn'
      <2>1. areq[r].who \in Person /\ areq[r].uid \in Int
        BY DEF AccInv, DeleteUser, AccTypeOK, Flight, NoUid
      <2>2. QED
        BY <2>1 DEF AccInv, DeleteUser, AccTypeOK, Here, FilesAreOwn, UidsAreOwn, RequestsKnow, At,
           Go, Done, NoUser
    <1>5. SessionsContinue'
      BY DEF AccInv, DeleteUser, AccTypeOK, SessionsContinue, At, Go, Done
    <1>6. RevokedSessionsEnd'
      BY DEF AccInv, DeleteUser, AccTypeOK, RevokedSessionsEnd
    <1>7. QED
      BY <1>1, <1>2, <1>3, <1>4, <1>5, <1>6 DEF AccInv

\* SignCall keeps the invariant.
LEMMA SignCallKeeps ==
    ASSUME AccInv, NEW r \in AccRequest, NEW p \in Person, SignCall(r, p)
    PROVE  AccInv'
    <1>1. AccTypeOK'
      <2>1. user' \in [Person -> UserRow]
        BY DEF AccInv, SignCall, AccTypeOK
      <2>2. tok' \in [Token -> TokenRow]
        BY DEF AccInv, SignCall, AccTypeOK
      <2>3. areq' \in [AccRequest -> Flight]
        <3>1. [Done EXCEPT !.at = "signed", !.who = p, !.uid = user[p].uid] \in Flight
          BY DoneIsFlight DEF AccInv, SignCall, Flight, AccTypeOK, UserRow
        <3>2. QED
          BY <3>1, DoneIsFlight DEF AccInv, SignCall, AccTypeOK, Go
      <2>4. epoch' \in [Person -> Nat] /\ slipped' \subseteq Person /\ late' \subseteq Person
           /\ files' \in [0..UidMax -> SUBSET Person] /\ accEdits' \in 0..AccEdits
        BY DEF AccInv, SignCall, AccTypeOK
      <2>5. QED
        BY <2>1, <2>2, <2>3, <2>4 DEF AccInv, SignCall, AccTypeOK
    <1>2. UidsAreOwn'
      BY DEF AccInv, SignCall, AccTypeOK, UidsAreOwn, Here
    <1>3. RequestsKnow'
      BY DEF AccInv, SignCall, AccTypeOK, RequestsKnow, UidsAreOwn, Here, At, Go, Done
    <1>4. FilesAreOwn'
      BY DEF AccInv, SignCall, AccTypeOK, FilesAreOwn, At, Here, Go, Done
    <1>5. SessionsContinue'
      BY DEF AccInv, SignCall, AccTypeOK, SessionsContinue, At, Go, Done
    <1>6. RevokedSessionsEnd'
      BY DEF AccInv, SignCall, AccTypeOK, RevokedSessionsEnd
    <1>7. QED
      BY <1>1, <1>2, <1>3, <1>4, <1>5, <1>6 DEF AccInv

\* RunCall keeps the invariant.
LEMMA RunCallKeeps == ASSUME AccInv, NEW r \in AccRequest, RunCall(r) PROVE AccInv'
    <1>1. AccTypeOK'
      <2>1. user' \in [Person -> UserRow]
        BY DEF AccInv, RunCall, AccTypeOK
      <2>2. tok' \in [Token -> TokenRow]
        BY DEF AccInv, RunCall, AccTypeOK
      <2>3. areq' \in [AccRequest -> Flight]
        BY DoneIsFlight DEF AccInv, RunCall, AccTypeOK, Go
      <2>4. epoch' \in [Person -> Nat] /\ slipped' \subseteq Person /\ late' \subseteq Person
           /\ files' \in [0..UidMax -> SUBSET Person] /\ accEdits' \in 0..AccEdits
        BY DEF AccInv, RunCall, AccTypeOK, RequestsKnow, At, Flight
      <2>5. QED
        BY <2>1, <2>2, <2>3, <2>4 DEF AccInv, RunCall, AccTypeOK
    <1>2. UidsAreOwn'
      BY DEF AccInv, RunCall, AccTypeOK, UidsAreOwn, Here
    <1>3. RequestsKnow'
      BY DEF AccInv, RunCall, AccTypeOK, RequestsKnow, At, Here, Go, Done
    <1>4. FilesAreOwn'
      <2>1. areq[r].who \in Person /\ areq[r].uid \in 0..UidMax
        BY AccBounds DEF AccInv, RunCall, AccTypeOK, Flight, NoUid, RequestsKnow, At
      <2>2. QED
        BY <2>1 DEF AccInv, RunCall, AccTypeOK, FilesAreOwn, UidsAreOwn, Cleaned, NoUid, Here, At, Go,
           Done
    <1>5. SessionsContinue'
      BY DEF AccInv, RunCall, AccTypeOK, SessionsContinue, At, Go, Done
    <1>6. RevokedSessionsEnd'
      BY DEF AccInv, RunCall, AccTypeOK, RevokedSessionsEnd
    <1>7. QED
      BY <1>1, <1>2, <1>3, <1>4, <1>5, <1>6 DEF AccInv

\* No step disturbs it.
LEMMA AccStep == AccInv /\ [AccNext]_accVars => AccInv'
    <1> SUFFICES ASSUME AccInv, [AccNext]_accVars PROVE AccInv'
      OBVIOUS
    <1>1. CASE UNCHANGED accVars
      BY <1>1 DEF accVars, AccInv, AccTypeOK, UidsAreOwn, RequestsKnow, FilesAreOwn,
         SessionsContinue, RevokedSessionsEnd, Here, At
    <1>2. ASSUME NEW p \in Person, Session(p) PROVE AccInv'
      BY <1>2, StartLoginKeeps, StartLogoutAllKeeps, SignCallKeeps DEF Session
    <1>3. ASSUME NEW p \in Person, NEW by \in Person, Administer(by, p) PROVE AccInv'
      BY <1>3, UpdateUserKeeps, StartDeleteKeeps, StartCreateKeeps DEF Administer
    <1>4. ASSUME NEW t \in Token, OnToken(t) PROVE AccInv'
      BY <1>4, LogoutKeeps, VerifyKeeps DEF OnToken
    <1>5. ASSUME NEW r \in AccRequest, GoOn(r) PROVE AccInv'
      BY <1>5, LoginKeeps, RefreshKeeps, RevokeAllKeeps, StartRegisterKeeps, RegisterKeeps, AllocateKeeps, CreateKeeps,
         CleanSandboxKeeps, DeleteUserKeeps, RunCallKeeps DEF GoOn
    <1>6. QED
      BY <1>1, <1>2, <1>3, <1>4, <1>5 DEF AccNext

(* The invariant of the accounts holds in every reachable state. *)
THEOREM AccInvHolds == AccSpec => []AccInv
    <1>1. AccInit => AccInv
      BY AccInitInv
    <1>2. QED
      BY <1>1, AccStep, PTL DEF AccSpec

(* A logout of all sessions, or a password set by an administrator, ends      *)
(* every session whose password was checked before, through any number of     *)
(* rotations, unless a login or a refresh of that person met it.              *)
THEOREM SessionsEnd == AccSpec => []RevokedSessionsEnd
    <1>1. AccInv => RevokedSessionsEnd
      BY DEF AccInv
    <1>2. QED
      BY <1>1, AccInvHolds, PTL

(* Whoever gets a sandbox finds no files of somebody else, and shares it with *)
(* nobody.                                                                    *)
THEOREM SandboxesAreOwn == AccSpec => []SandboxIsOwn
    <1>1. ASSUME AccInv PROVE SandboxIsOwn
      <2>1. \A p \in Person : Here(p) => user[p].uid \in 0..UidMax
        <3>1. \A p \in Person : user[p].uid \in NoUid..UidMax
          BY <1>1 DEF AccInv, AccTypeOK, UserRow
        <3>2. QED
          BY <1>1, <3>1, AccBounds DEF AccInv, UidsAreOwn, NoUid
      <2>2. QED
        BY <1>1, <2>1 DEF AccInv, AccTypeOK, UidsAreOwn, FilesAreOwn, SandboxIsOwn
    <1>2. QED
      BY <1>1, AccInvHolds, PTL

-----------------------------------------------------------------------------
(* Settings.                                                               *)

\* The types that the proof needs.
Memory == [llm : Nat, skills : Nat, plain : Nat, https : BOOLEAN]
KeysFile == [by : Nat \cup {Garbled}, llm : Nat, skills : Nat]
Pending == [at : {"idle", "saving", "flag", "testing"}, val : Nat, llm : BOOLEAN, alone : BOOLEAN]

SetTypeOK ==
    /\ conf \in Memory
    /\ enc \in KeysFile
    /\ db \in [rows : BOOLEAN, plain : Nat, https : BOOLEAN]
    /\ adm \in [Admin -> Pending]
    /\ told \in [Setting_ -> Nat]
    /\ mounted \in MasterKey /\ https \in Cert \cup {Unset}

\* A whole file has what was last set, except where it is unsure, and so has the memory
\* that could read it.
KeysAreKept ==
    /\ enc.by # Garbled => \A k \in Secret \ unsure : enc[k] = told[k]
    /\ enc.by = Unset => enc = NoFile
    /\ alive /\ enc.by \in {Unset, mounted} => \A k \in Secret \ unsure : conf[k] = told[k]

\* While a save of the setting is on its way the setting is unsure; a save that nothing
\* overlapped is the only one, and writes what memory has.
PlainIsKept ==
    /\ ~alive => SavingPlain = {}
    /\ SavingPlain # {} => "plain" \in unsure
    /\ \A a \in SavingPlain : adm[a].alone =>
          SavingPlain = {a} /\ adm[a].val = told.plain /\ conf.plain = told.plain
    /\ "plain" \notin unsure => db.plain = told.plain /\ (alive => conf.plain = told.plain)

\* The volume has the certificate that was asked for, whole.
VolumeIsWhole == ~torn => vol = Written(https)

\* The inductive invariant.
SetInv == SetTypeOK /\ KeysAreKept /\ PlainIsKept /\ VolumeIsWhole

\* A half file is not one that could be read.
LEMMA GarbledIsNoKey == Garbled \notin Nat /\ Garbled # Unset /\ Garbled \notin MasterKey
    BY SetBounds DEF Garbled, Unset

\* Start keeps the invariant.
LEMMA StartKeepsSet == ASSUME SetInv, Start PROVE SetInv'
    <1>1. SetTypeOK'
      BY DEF SetInv, Start, SetTypeOK, Memory, KeysFile, Unset, NoFile
    <1>2. KeysAreKept'
      BY GarbledIsNoKey DEF SetInv, SetTypeOK, Start, KeysAreKept, Secret, Readable, NoFile
    <1>3. PlainIsKept'
      BY DEF SetInv, Start, PlainIsKept, SavingPlain
    <1>4. VolumeIsWhole'
      BY DEF SetInv, Start, VolumeIsWhole, Written, HttpOnly, ServesPair
    <1>5. QED
      BY <1>1, <1>2, <1>3, <1>4 DEF SetInv

\* A death leaves the requests at rest, and the settings as they are.
LEMMA DeathKeepsRest ==
    ASSUME SetInv, Dies
    PROVE  adm' \in [Admin -> Pending] /\ PlainIsKept'
    BY DEF SetInv, Dies, SetTypeOK, Pending, AtRest, Unset, PlainIsKept, SavingPlain

\* Die keeps the invariant.
LEMMA DieKeepsSet == ASSUME SetInv, Die PROVE SetInv'
    <1>1. SetTypeOK'
      BY DeathKeepsRest DEF SetInv, Die, SetTypeOK, Dies
    <1>2. KeysAreKept'
      BY DEF SetInv, Die, KeysAreKept, Dies
    <1>3. PlainIsKept'
      BY DeathKeepsRest DEF Die
    <1>4. VolumeIsWhole'
      BY DEF SetInv, Die, VolumeIsWhole, Dies
    <1>5. QED
      BY <1>1, <1>2, <1>3, <1>4 DEF SetInv

\* A death during the write of the volume keeps the invariant.
LEMMA DieWritingKeepsSet == ASSUME SetInv, NEW c \in Cert \cup {Unset}, DieWriting(c) PROVE SetInv'
    <1>1. SetTypeOK'
      BY DeathKeepsRest DEF SetInv, DieWriting, SetTypeOK, Dies
    <1>2. KeysAreKept'
      BY DEF SetInv, DieWriting, KeysAreKept, Dies
    <1>3. PlainIsKept'
      BY DeathKeepsRest DEF DieWriting
    <1>4. VolumeIsWhole'
      BY DEF DieWriting, VolumeIsWhole
    <1>5. QED
      BY <1>1, <1>2, <1>3, <1>4 DEF SetInv

\* A death during the write of the keys keeps the invariant.
LEMMA DieWritingKeysKeepsSet == ASSUME SetInv, DieWritingKeys PROVE SetInv'
    <1>1. SetTypeOK'
      BY DeathKeepsRest DEF SetInv, DieWritingKeys, SetTypeOK, Dies, HalfFile, KeysFile, Unset
    <1>2. KeysAreKept'
      BY GarbledIsNoKey DEF DieWritingKeys, KeysAreKept, Dies, HalfFile
    <1>3. PlainIsKept'
      BY DeathKeepsRest DEF DieWritingKeys
    <1>4. VolumeIsWhole'
      BY DEF SetInv, DieWritingKeys, VolumeIsWhole, Dies
    <1>5. QED
      BY <1>1, <1>2, <1>3, <1>4 DEF SetInv

\* Recreate keeps the invariant.
LEMMA RecreateKeepsSet == ASSUME SetInv, Recreate PROVE SetInv'
    <1>1. SetTypeOK'
      BY DEF SetInv, Recreate, SetTypeOK, KeysFile, Unset, NoFile, NoRows
    <1>2. KeysAreKept'
      BY DEF Recreate, KeysAreKept, Secret, Setting_, NoFile
    <1>3. PlainIsKept'
      BY DEF SetInv, Recreate, PlainIsKept, SavingPlain, Setting_, NoRows
    <1>4. VolumeIsWhole'
      BY DEF SetInv, Recreate, VolumeIsWhole
    <1>5. QED
      BY <1>1, <1>2, <1>3, <1>4 DEF SetInv

\* Remount keeps the invariant.
LEMMA RemountKeepsSet == ASSUME SetInv, NEW k \in MasterKey, Remount(k) PROVE SetInv'
    <1>1. SetTypeOK'
      BY DEF SetInv, Remount, SetTypeOK
    <1>2. KeysAreKept'
      BY DEF SetInv, Remount, KeysAreKept
    <1>3. PlainIsKept'
      BY DEF SetInv, Remount, PlainIsKept, SavingPlain
    <1>4. VolumeIsWhole'
      BY DEF SetInv, Remount, VolumeIsWhole
    <1>5. QED
      BY <1>1, <1>2, <1>3, <1>4 DEF SetInv

\* A patch leaves memory, what was told and the requests of their types.
LEMMA PatchTypes ==
    ASSUME SetInv, NEW P \in Patches, NEW v \in Value, NEW A \in SUBSET Admin, Patch(P, v, A)
    PROVE  /\ conf' \in Memory /\ adm' \in [Admin -> Pending] /\ told' \in [Setting_ -> Nat]
           /\ PersistKeys(Patched(P, v)) \in KeysFile
           /\ UNCHANGED <<db, mounted, https>>
    <1>1. v \in Nat /\ Patched(P, v) \in Memory
      <2>1. v \in Nat /\ conf \in Memory /\ "https" \notin P
        BY SetBounds DEF SetInv, SetTypeOK, Patches
      <2>2. QED
        BY <2>1 DEF Memory, Patched
    <1>2. PersistKeys(Patched(P, v)) \in KeysFile
      BY <1>1, SetBounds DEF SetInv, SetTypeOK, Memory, PersistKeys, KeysFile
    <1>3. [k \in Setting_ |-> IF k \in P THEN v ELSE told[k]] \in [Setting_ -> Nat]
      BY <1>1 DEF SetInv, SetTypeOK
    <1>4. adm' \in [Admin -> Pending]
      <2>1. Save(P, v) \in Pending
        BY <1>1 DEF Pending, Save
      <2>2. \A b \in Admin : [adm[b] EXCEPT !.alone = FALSE] \in Pending
        BY DEF SetInv, SetTypeOK, Pending
      <2>3. QED
        BY <2>1, <2>2 DEF SetInv, SetTypeOK, Patch
    <1>5. QED
      BY <1>1, <1>2, <1>3, <1>4 DEF Patch

\* A patch that comes to the database is what its own save will write, and every save on
\* its way before is not alone any more.
LEMMA PatchKeepsPlain ==
    ASSUME SetInv, NEW P \in Patches, NEW v \in Value, NEW A \in SUBSET Admin, Patch(P, v, A),
           A \cap SavingPlain = {}, \A a, b \in A : a = b,
           "plain" \in unsure' <=> "plain" \in P \cup unsure
    PROVE  PlainIsKept'
    <1>1. alive /\ UNCHANGED <<alive, db>>
      BY DEF Patch, Edit
    <1>2. CASE "plain" \notin P
      <2>1. conf'.plain = conf.plain /\ told'.plain = told.plain /\ UNCHANGED adm
        BY <1>2 DEF SetInv, SetTypeOK, Memory, Patch, Patched, Setting_
      <2>2. QED
        BY <1>1, <1>2, <2>1 DEF SetInv, PlainIsKept, SavingPlain
    <1>3. CASE "plain" \in P
      <2>1. conf'.plain = v /\ told'.plain = v /\ "plain" \in unsure'
        BY <1>3 DEF SetInv, SetTypeOK, Memory, Patch, Patched, Setting_
      <2>2. \A b \in A : /\ adm'[b].at = "saving" /\ adm'[b].val = v
                         /\ adm'[b].alone <=> SavingPlain = {}
        <3>1. \A b \in A : adm'[b] = Save(P, v)
          BY <1>3 DEF Patch
        <3>2. /\ Save(P, v).at = "saving" /\ Save(P, v).val = v
              /\ Save(P, v).alone <=> SavingPlain = {}
          BY DEF Save
        <3>3. QED
          BY <3>1, <3>2
      <2>3. \A b \in Admin \ A : IF b \in SavingPlain THEN ~adm'[b].alone ELSE adm'[b] = adm[b]
        BY <1>3 DEF SetInv, SetTypeOK, Pending, Patch
      <2>4. QED
        BY <1>1, <2>1, <2>2, <2>3 DEF PlainIsKept, SavingPlain
    <1>4. QED
      BY <1>2, <1>3

\* Update keeps the invariant.
LEMMA UpdateKeepsSet ==
    ASSUME SetInv, NEW a \in Admin, NEW P \in Patches, NEW v \in Value, Update(a, P, v)
    PROVE  SetInv'
    <1> USE DEF Update
    <1>1. SetTypeOK'
      BY PatchTypes DEF SetInv, SetTypeOK
    <1>2. KeysAreKept'
      <2>1. alive /\ UNCHANGED <<alive, mounted>>
        BY DEF Patch, Edit
      <2>2. \A k \in Secret : /\ conf'[k] = IF k \in P THEN v ELSE conf[k]
                              /\ told'[k] = IF k \in P THEN v ELSE told[k]
        BY DEF SetInv, SetTypeOK, Memory, Patch, Patched, Secret, Setting_
      <2>3. CASE ~Writes(P)
        BY <2>1, <2>2, <2>3 DEF SetInv, KeysAreKept, Writes, Secret
      <2>4. CASE Writes(P)
        <3>1. \A k \in Secret \ unsure' : conf'[k] = told'[k]
          BY <2>1, <2>2, <2>4 DEF SetInv, KeysAreKept, Overwritten, Secret
        <3>2. enc'.by = mounted /\ \A k \in Secret : enc'[k] = conf'[k]
          BY <2>4 DEF Patch, PersistKeys, Secret
        <3>3. mounted # Unset
          BY SetBounds DEF SetInv, SetTypeOK, Unset
        <3>4. QED
          BY <2>1, <3>1, <3>2, <3>3 DEF KeysAreKept
      <2>5. QED
        BY <2>3, <2>4
    <1>3. PlainIsKept'
      BY PatchKeepsPlain DEF Overwritten, Secret, SavingPlain
    <1>4. VolumeIsWhole'
      BY DEF SetInv, Patch, VolumeIsWhole
    <1>5. QED
      BY <1>1, <1>2, <1>3, <1>4 DEF SetInv

\* An update whose write of the keys fails keeps the invariant.
LEMMA UpdateRaisesKeepsSet ==
    ASSUME SetInv, NEW a \in Admin, NEW P \in Patches, NEW v \in Value, UpdateRaises(a, P, v)
    PROVE  SetInv'
    <1> USE DEF UpdateRaises
    <1>1. SetTypeOK'
      <2>1. HalfFile \in KeysFile
        BY DEF HalfFile, KeysFile, Unset
      <2>2. QED
        BY <2>1, PatchTypes DEF SetInv, SetTypeOK
    <1>2. KeysAreKept'
      <2>1. alive /\ UNCHANGED <<alive, mounted>> /\ mounted \in MasterKey
        BY DEF SetInv, SetTypeOK, Patch, Edit
      <2>2. \A k \in Secret \ P : conf'[k] = conf[k] /\ told'[k] = told[k]
        BY DEF SetInv, SetTypeOK, Memory, Patch, Patched, Secret, Setting_
      <2>3. CASE enc' = HalfFile
        BY <2>1, <2>3, GarbledIsNoKey DEF KeysAreKept, HalfFile
      <2>4. CASE UNCHANGED enc
        BY <2>1, <2>2, <2>4 DEF SetInv, KeysAreKept
      <2>5. QED
        BY <2>3, <2>4
    <1>3. PlainIsKept'
      BY PatchKeepsPlain
    <1>4. VolumeIsWhole'
      BY DEF SetInv, Patch, VolumeIsWhole
    <1>5. QED
      BY <1>1, <1>2, <1>3, <1>4 DEF SetInv

\* SetHttps keeps the invariant.
LEMMA SetHttpsKeepsSet ==
    ASSUME SetInv, NEW a \in Admin, NEW c \in Cert \cup {Unset}, SetHttps(a, c)
    PROVE  SetInv'
    <1>1. SetTypeOK'
      <2>1. [AtRest EXCEPT !.at = "flag", !.val = c] \in Pending
        <3>1. c \in Nat
          BY SetBounds DEF Unset
        <3>2. AtRest \in Pending
          BY DEF Pending, AtRest, Unset
        <3>3. QED
          BY <3>1, <3>2 DEF Pending
      <2>2. [conf EXCEPT !.https = c # Unset] \in Memory
        BY DEF SetInv, SetTypeOK, Memory
      <2>3. QED
        BY <2>1, <2>2 DEF SetInv, SetTypeOK, SetHttps
    <1>2. KeysAreKept'
      BY  DEF SetInv, SetHttps, SetTypeOK, Memory, KeysAreKept, Secret
    <1>3. PlainIsKept'
      BY  DEF SetInv, SetHttps, PlainIsKept, SavingPlain
    <1>4. VolumeIsWhole'
      BY  DEF SetHttps, VolumeIsWhole
    <1>5. QED
      BY <1>1, <1>2, <1>3, <1>4 DEF SetInv

\* A volume that is not written to its end keeps the invariant.
LEMMA SetHttpsRaisesKeepsSet ==
    ASSUME SetInv, NEW a \in Admin, NEW c \in Cert \cup {Unset}, SetHttpsRaises(a, c)
    PROVE  SetInv'
    <1>1. SetTypeOK' /\ KeysAreKept' /\ PlainIsKept'
      BY DEF SetInv, SetHttpsRaises, Edit, SetTypeOK, KeysAreKept, PlainIsKept, SavingPlain
    <1>2. VolumeIsWhole'
      BY DEF SetHttpsRaises, VolumeIsWhole
    <1>3. QED
      BY <1>1, <1>2 DEF SetInv

\* SaveCommits keeps the invariant.
LEMMA SaveCommitsKeepsSet == ASSUME SetInv, NEW a \in Admin, SaveCommits(a) PROVE SetInv'
    <1>1. SetTypeOK'
      BY  DEF SetInv, SaveCommits, SetTypeOK, Pending, Unset, AtRest
    <1>2. KeysAreKept'
      BY  DEF SetInv, SaveCommits, KeysAreKept, Secret
    <1>3. PlainIsKept'
      BY  DEF SetInv, SaveCommits, SetTypeOK, PlainIsKept, SavingPlain, AtRest
    <1>4. VolumeIsWhole'
      BY  DEF SetInv, SaveCommits, VolumeIsWhole
    <1>5. QED
      BY <1>1, <1>2, <1>3, <1>4 DEF SetInv

\* SaveFails keeps the invariant.
LEMMA SaveFailsKeepsSet == ASSUME SetInv, NEW a \in Admin, SaveFails(a) PROVE SetInv'
    <1>1. SetTypeOK'
      BY  DEF SetInv, SaveFails, SetTypeOK, Pending, Unset, AtRest
    <1>2. KeysAreKept'
      BY  DEF SetInv, SaveFails, KeysAreKept
    <1>3. PlainIsKept'
      BY  DEF SetInv, SaveFails, PlainIsKept, SavingPlain, AtRest
    <1>4. VolumeIsWhole'
      BY  DEF SetInv, SaveFails, VolumeIsWhole
    <1>5. QED
      BY <1>1, <1>2, <1>3, <1>4 DEF SetInv

\* CommitFlag keeps the invariant.
LEMMA CommitFlagKeepsSet == ASSUME SetInv, NEW a \in Admin, CommitFlag(a) PROVE SetInv'
    <1>1. SetTypeOK'
      BY  DEF SetInv, CommitFlag, SetTypeOK, Pending, Unset, AtRest
    <1>2. KeysAreKept'
      BY  DEF SetInv, CommitFlag, KeysAreKept
    <1>3. PlainIsKept'
      BY  DEF SetInv, CommitFlag, PlainIsKept, SavingPlain, AtRest
    <1>4. VolumeIsWhole'
      BY  DEF SetInv, CommitFlag, VolumeIsWhole
    <1>5. QED
      BY <1>1, <1>2, <1>3, <1>4 DEF SetInv

\* TestStart keeps the invariant.
LEMMA TestStartKeepsSet == ASSUME SetInv, NEW a \in Admin, TestStart(a) PROVE SetInv'
    <1>1. SetTypeOK'
      BY  DEF SetInv, TestStart, SetTypeOK, Pending
    <1>2. KeysAreKept'
      BY  DEF SetInv, TestStart, KeysAreKept
    <1>3. PlainIsKept'
      BY  DEF SetInv, TestStart, PlainIsKept, SavingPlain
    <1>4. VolumeIsWhole'
      BY SetBounds DEF SetInv, TestStart, VolumeIsWhole, Written, HttpOnly, Unset, SetTypeOK
    <1>5. QED
      BY <1>1, <1>2, <1>3, <1>4 DEF SetInv

\* TestEnds keeps the invariant.
LEMMA TestEndsKeepsSet == ASSUME SetInv, NEW a \in Admin, TestEnds(a) PROVE SetInv'
    <1>1. SetTypeOK'
      <2>1. /\ UNCHANGED <<conf, enc, db, mounted, alive, told, unsure, https>>
            /\ adm' = [adm EXCEPT ![a] = AtRest]
        BY DEF TestEnds
      <2>2. QED
        BY <2>1 DEF SetInv, SetTypeOK, Pending, Unset, AtRest
    <1>2. KeysAreKept'
      BY  DEF SetInv, TestEnds, KeysAreKept
    <1>3. PlainIsKept'
      <2>1. /\ UNCHANGED <<conf, enc, db, mounted, alive, told, unsure, https>>
            /\ adm' = [adm EXCEPT ![a] = AtRest]
        BY DEF TestEnds
      <2>2. QED
        BY <2>1 DEF SetInv, PlainIsKept, SavingPlain, AtRest
    <1>4. VolumeIsWhole'
      BY  DEF SetInv, TestEnds, VolumeIsWhole
    <1>5. QED
      BY <1>1, <1>2, <1>3, <1>4 DEF SetInv

\* No step disturbs the invariant of the settings.
LEMMA SetStep == SetInv /\ [SetNext]_setVars => SetInv'
    <1>1. CASE UNCHANGED setVars
      BY <1>1 DEF setVars, SetInv, SetTypeOK, KeysAreKept, PlainIsKept, VolumeIsWhole, SavingPlain
    <1>2. CASE SetNext
      BY <1>2, StartKeepsSet, DieKeepsSet, RecreateKeepsSet, RemountKeepsSet, DieWritingKeepsSet,
         DieWritingKeysKeepsSet, UpdateKeepsSet, UpdateRaisesKeepsSet, SetHttpsRaisesKeepsSet, SetHttpsKeepsSet, SaveCommitsKeepsSet, SaveFailsKeepsSet, CommitFlagKeepsSet,
         TestStartKeepsSet, TestEndsKeepsSet DEF SetNext
    <1>3. QED
      BY <1>1, <1>2

(* What an administrator set is what the program uses, and uses again after a *)
(* restart, under the conditions of SettingsSurvive.                          *)
THEOREM SettingsAreKept == SetSpec => []SettingsSurvive
    <1>1. SetInit => SetInv
      BY  DEF SetInit, SetInv, SetTypeOK, Memory, KeysFile, Pending, KeysAreKept, PlainIsKept, VolumeIsWhole,
         SavingPlain, NoFile, NoRows, AtRest, Written, Setting_, Secret, Unset
    <1>2. SetInv => SettingsSurvive
      BY DEF SetInv, KeysAreKept, PlainIsKept, VolumeIsWhole, SettingsSurvive
    <1>3. QED
      BY <1>1, <1>2, SetStep, PTL DEF SetSpec

-----------------------------------------------------------------------------
(* The API keys of skills.                                                 *)

\* The types that the proof needs.
Proxy == [up : BOOLEAN, mapped : SUBSET Plugin, key : [Plugin -> Nat]]
KeyCall == [at : {"idle", "mapping", "mapped", "putting", "clearing", "wiping", "unmapping", "registering"},
            of : Plugin \cup {NoPlugin}, val : Nat, alone : BOOLEAN]
Pusher == [by : {"nobody", "startup", "loop"}, at : {"off", "maps", "keys", "asleep"},
           todo : SUBSET Plugin, left : SUBSET Plugin, ok : BOOLEAN,
           of : Plugin \cup {NoPlugin}, val : Nat, alone : BOOLEAN]

KeyTypeOK ==
    /\ kept \in [Plugin -> Nat] /\ present \subseteq Plugin /\ off \subseteq Plugin
    /\ proxy \in Proxy /\ kreq \in [KeyRequest -> KeyCall] /\ pusher \in Pusher

\* A request for a skill takes back the promise of its key; one that is alone is the only
\* one, and carries what is kept.
RequestsAreOff ==
    \A q \in KeyRequest : kreq[q].at # "idle" =>
        /\ kreq[q].of \in off
        /\ kreq[q].alone =>
              /\ \A r \in KeyRequest \ {q} : kreq[r].of # kreq[q].of
              /\ kreq[q].at \in {"mapping", "mapped", "putting", "clearing"} => kreq[q].val = kept[kreq[q].of]
              /\ kreq[q].at = "clearing" => kreq[q].val = NoKey

IdleIsNobodys == \A q \in KeyRequest : kreq[q].at = "idle" => kreq[q].of = NoPlugin

\* Who pushes, until the last round is over.
PusherIsSomebody == pusher.at # "off" => pusher.by # "nobody"

\* A push that no request overlaps carries what is kept, an overlapped one promises nothing.
PushesAreKept ==
    pusher.of # NoPlugin =>
        /\ pusher.at = "keys"
        /\ IF pusher.alone THEN pusher.val = kept[pusher.of] /\ pusher.val # NoKey
           ELSE /\ pusher.of \in off
                /\ \A q \in KeyRequest : kreq[q].of = pusher.of => ~kreq[q].alone

\* The pusher has still to push the key, or to begin another round.
ToPush(f) == /\ kept[f] # NoKey
             /\ pusher.by # "nobody"
             /\ \/ pusher.at = "asleep" \/ (pusher.by = "startup" /\ pusher.at = "maps")
                \/ f \in pusher.left \/ pusher.of = f
                \/ (pusher.at = "keys" /\ ~pusher.ok)

PromisesAreKept == \A f \in Plugin \ off : proxy.key[f] = kept[f] \/ ToPush(f)

DownIsEmpty == ~proxy.up => proxy.key = NoKeys

\* The inductive invariant.
KeyInv == /\ KeyTypeOK
          /\ RequestsAreOff /\ IdleIsNobodys /\ PusherIsSomebody /\ PushesAreKept /\ PromisesAreKept
          /\ DownIsEmpty

\* What a call leaves of the proxy.
LEMMA ProxyAfter ==
    ASSUME KeyTypeOK, NEW f \in Plugin, NEW k \in Nat
    PROVE  /\ Mapped(f) \in Proxy /\ Mapped(f).up = proxy.up /\ Mapped(f).key = proxy.key
           /\ WithKey(f, k) \in Proxy /\ WithKey(f, k).up = proxy.up
           /\ WithKey(f, k).key = [proxy.key EXCEPT ![f] = k]
           /\ Keyless(f) \in Proxy /\ Keyless(f).up = proxy.up
           /\ Keyless(f).key = [proxy.key EXCEPT ![f] = NoKey]
           /\ Unmapped(f) \in Proxy /\ Unmapped(f).up = proxy.up
           /\ Unmapped(f).key = [proxy.key EXCEPT ![f] = NoKey]
    <1>1. Mapped(f) \in Proxy /\ Mapped(f).up = proxy.up /\ Mapped(f).key = proxy.key
      BY DEF KeyTypeOK, Proxy, Mapped
    <1>2. /\ WithKey(f, k) \in Proxy /\ WithKey(f, k).up = proxy.up
          /\ WithKey(f, k).key = [proxy.key EXCEPT ![f] = k]
      BY DEF KeyTypeOK, Proxy, WithKey
    <1>3. /\ Keyless(f) \in Proxy /\ Keyless(f).up = proxy.up
          /\ Keyless(f).key = [proxy.key EXCEPT ![f] = NoKey]
      BY DEF KeyTypeOK, Proxy, Keyless, NoKey
    <1>4. /\ Unmapped(f) \in Proxy /\ Unmapped(f).up = proxy.up
          /\ Unmapped(f).key = [proxy.key EXCEPT ![f] = NoKey]
      BY DEF KeyTypeOK, Proxy, Unmapped, NoKey
    <1>5. QED
      BY <1>1, <1>2, <1>3, <1>4

\* What the beginning of a request leaves of the others, and of the pusher.
LEMMA BeginMarks ==
    ASSUME KeyTypeOK, NEW q \in KeyRequest, NEW f \in Plugin, NEW rec \in KeyCall, Begin(q, f, rec)
    PROVE  /\ kreq' \in [KeyRequest -> KeyCall] /\ pusher' \in Pusher
           /\ kreq'[q].at = rec.at /\ kreq'[q].of = f /\ kreq'[q].val = rec.val
           /\ kreq'[q].alone => ~Overlaps(f)
           /\ \A r \in KeyRequest \ {q} :
                 /\ kreq'[r].at = kreq[r].at /\ kreq'[r].of = kreq[r].of /\ kreq'[r].val = kreq[r].val
                 /\ kreq'[r].alone => kreq[r].alone /\ kreq[r].of # f
           /\ pusher'.by = pusher.by /\ pusher'.at = pusher.at /\ pusher'.left = pusher.left
           /\ pusher'.ok = pusher.ok /\ pusher'.of = pusher.of /\ pusher'.val = pusher.val
           /\ IF pusher.of = f THEN ~pusher'.alone ELSE pusher' = pusher
    <1> DEFINE mine == [rec EXCEPT !.of = f, !.alone = ~Overlaps(f)]
               theirs(r) == [kreq[r] EXCEPT !.alone = FALSE]
    <1>1. /\ mine \in KeyCall /\ mine.at = rec.at /\ mine.of = f /\ mine.val = rec.val
          /\ mine.alone => ~Overlaps(f)
      BY DEF KeyCall
    <1>2. \A r \in KeyRequest : /\ theirs(r) \in KeyCall /\ theirs(r).at = kreq[r].at /\ theirs(r).of = kreq[r].of
                                /\ theirs(r).val = kreq[r].val /\ ~theirs(r).alone
      BY DEF KeyTypeOK, KeyCall
    <1>3. kreq' = [r \in KeyRequest |-> IF r = q THEN mine ELSE IF kreq[r].of = f THEN theirs(r) ELSE kreq[r]]
      BY DEF Begin
    <1> HIDE DEF mine, theirs
    <1>4. kreq' \in [KeyRequest -> KeyCall]
      BY <1>1, <1>2, <1>3 DEF KeyTypeOK
    <1>5. /\ kreq'[q].at = rec.at /\ kreq'[q].of = f /\ kreq'[q].val = rec.val
          /\ kreq'[q].alone => ~Overlaps(f)
      BY <1>1, <1>3
    <1>6. \A r \in KeyRequest \ {q} :
             /\ kreq'[r].at = kreq[r].at /\ kreq'[r].of = kreq[r].of /\ kreq'[r].val = kreq[r].val
             /\ kreq'[r].alone => kreq[r].alone /\ kreq[r].of # f
      BY <1>2, <1>3
    <1>7. /\ pusher' \in Pusher /\ pusher'.by = pusher.by /\ pusher'.at = pusher.at
          /\ pusher'.left = pusher.left /\ pusher'.ok = pusher.ok /\ pusher'.of = pusher.of
          /\ pusher'.val = pusher.val /\ IF pusher.of = f THEN ~pusher'.alone ELSE pusher' = pusher
      BY DEF KeyTypeOK, Pusher, Begin
    <1>8. QED
      BY <1>4, <1>5, <1>6, <1>7

\* No request is a state of a request.
LEMMA NoRequestIsCall == NoKeyRequest \in KeyCall
    BY DEF NoKeyRequest, KeyCall, NoKey

\* A request that moved on is a request.
LEMMA PlaceIsCall ==
    ASSUME NEW x \in KeyCall, NEW place \in {"mapped", "clearing", "unmapping"}
    PROVE  [x EXCEPT !.at = place] \in KeyCall
    BY DEF KeyCall

\* PusherMaps keeps the invariant.
LEMMA PusherMapsKeepsKeys == ASSUME KeyInv, PusherMaps PROVE KeyInv'
    <1>1. KeyTypeOK'
      <2>1. \/ /\ pusher.todo = {} /\ UNCHANGED proxy
               /\ pusher' = [pusher EXCEPT !.at = "keys", !.ok = TRUE,
                                           !.left = IF pusher.by = "startup" THEN Configured ELSE @]
            \/ \E f \in Plugin : /\ proxy' \in {proxy, Mapped(f)}
                                 /\ pusher' = [pusher EXCEPT !.todo = @ \ {f}]
        BY DEF KeyInv, KeyTypeOK, Pusher, PusherMaps, Answers, Fails
      <2>2. UNCHANGED <<kept, present, kreq, off>>
        BY DEF PusherMaps
      <2>3. pusher.left \subseteq Plugin /\ Configured \subseteq Plugin
        BY DEF KeyInv, KeyTypeOK, Pusher, Configured
      <2>4. proxy' \in Proxy
        BY <2>1, ProxyAfter DEF KeyInv, KeyTypeOK
      <2>5. pusher' \in Pusher
        BY <2>1, <2>3 DEF KeyInv, KeyTypeOK, Pusher
      <2>6. QED
        BY <2>2, <2>4, <2>5 DEF KeyInv, KeyTypeOK
    <1>2. RequestsAreOff'
      BY  DEF KeyInv, PusherMaps, RequestsAreOff
    <1>3. IdleIsNobodys'
      BY  DEF KeyInv, PusherMaps, IdleIsNobodys
    <1>4. PusherIsSomebody'
      BY  DEF KeyInv, PusherMaps, KeyTypeOK, Pusher, PusherIsSomebody
    <1>5. PushesAreKept'
      BY KeyBounds DEF KeyInv, PusherMaps, Answers, Configured, Fails, IdleIsNobodys, KeyCall,
         KeyTypeOK, Mapped, NoKey, NoPlugin, Proxy, Pusher, PushesAreKept, RequestsAreOff
    <1>6. PromisesAreKept'
      <2>1. \/ /\ pusher.todo = {} /\ UNCHANGED proxy
               /\ pusher' = [pusher EXCEPT !.at = "keys", !.ok = TRUE,
                                           !.left = IF pusher.by = "startup" THEN Configured ELSE @]
            \/ \E f \in Plugin : /\ proxy' \in {proxy, Mapped(f)}
                                 /\ pusher' = [pusher EXCEPT !.todo = @ \ {f}]
        BY DEF KeyInv, KeyTypeOK, Pusher, PusherMaps, Answers, Fails
      <2>2. UNCHANGED <<kept, present, kreq, off>>
        BY DEF PusherMaps
      <2>3. pusher.left \subseteq Plugin /\ Configured \subseteq Plugin
        BY DEF KeyInv, KeyTypeOK, Pusher, Configured
      <2>4. proxy'.key = proxy.key
        BY <2>1, ProxyAfter DEF KeyInv
      <2>5. pusher'.by = pusher.by /\ pusher'.of = pusher.of
        BY <2>1 DEF KeyInv, KeyTypeOK, Pusher
      <2>6. \/ pusher'.at = "maps" /\ pusher'.left = pusher.left
            \/ pusher'.left = IF pusher.by = "startup" THEN Configured ELSE pusher.left
        BY <2>1 DEF KeyInv, KeyTypeOK, Pusher, PusherMaps
      <2>7. pusher.at = "maps"
        BY DEF PusherMaps
      <2>8. QED
        BY <2>2, <2>4, <2>5, <2>6, <2>7 DEF KeyInv, PromisesAreKept, ToPush, Configured
    <1>7. DownIsEmpty'
      BY  DEF KeyInv, PusherMaps, Answers, DownIsEmpty, Fails, KeyTypeOK, Mapped, Proxy
    <1>8. QED
      BY <1>1, <1>2, <1>3, <1>4, <1>5, <1>6, <1>7 DEF KeyInv

\* PusherSends keeps the invariant.
LEMMA PusherSendsKeepsKeys == ASSUME KeyInv, PusherSends PROVE KeyInv'
    <1>1. KeyTypeOK'
      <2>1. PICK f \in Plugin :
               pusher' \in {[pusher EXCEPT !.left = @ \ {f}, !.of = f, !.val = kept[f], !.alone = TRUE],
                           [pusher EXCEPT !.left = @ \ {f}, !.ok = FALSE]}
        BY DEF KeyInv, KeyTypeOK, Pusher, PusherSends
      <2>2. UNCHANGED <<kept, present, proxy, kreq, off>>
        BY DEF PusherSends
      <2>3. kept[f] \in Nat
        BY DEF KeyInv, KeyTypeOK
      <2>4. pusher' \in Pusher
        BY <2>1, <2>3 DEF KeyInv, KeyTypeOK, Pusher
      <2>5. QED
        BY <2>2, <2>4 DEF KeyInv, KeyTypeOK
    <1>2. RequestsAreOff'
      BY  DEF KeyInv, PusherSends, RequestsAreOff
    <1>3. IdleIsNobodys'
      BY  DEF KeyInv, PusherSends, IdleIsNobodys
    <1>4. PusherIsSomebody'
      BY  DEF KeyInv, PusherSends, PusherIsSomebody
    <1>5. PushesAreKept'
      BY  DEF PusherSends, PushesAreKept
    <1>6. PromisesAreKept'
      BY KeyBounds DEF KeyInv, PusherSends, NoPlugin, PromisesAreKept, ToPush
    <1>7. DownIsEmpty'
      BY  DEF KeyInv, PusherSends, DownIsEmpty
    <1>8. QED
      BY <1>1, <1>2, <1>3, <1>4, <1>5, <1>6, <1>7 DEF KeyInv

\* PusherArrives keeps the invariant.
LEMMA PusherArrivesKeepsKeys == ASSUME KeyInv, PusherArrives PROVE KeyInv'
    <1>1. KeyTypeOK'
      <2>1. pusher.of \in Plugin /\ pusher.val \in Nat
        BY DEF KeyInv, KeyTypeOK, Pusher, PusherArrives
      <2>2. \/ /\ proxy' = WithKey(pusher.of, pusher.val) /\ pusher' = Pushed(TRUE)
               /\ off' = IF pusher.alone /\ InFlight(pusher.of) = {} THEN off \ {pusher.of} ELSE off
            \/ proxy' \in {proxy, WithKey(pusher.of, pusher.val)} /\ pusher' = Pushed(FALSE) /\ UNCHANGED off
        BY DEF PusherArrives, Answers, Fails
      <2>3. UNCHANGED <<kept, present, kreq>> /\ pusher.at = "keys"
        BY DEF PusherArrives
      <2>4. /\ WithKey(pusher.of, pusher.val) \in Proxy
            /\ WithKey(pusher.of, pusher.val).key = [proxy.key EXCEPT ![pusher.of] = pusher.val]
            /\ proxy.key \in [Plugin -> Nat]
        BY <2>1, ProxyAfter DEF KeyInv, KeyTypeOK, Proxy
      <2>5. \A ok \in BOOLEAN : /\ Pushed(ok) \in Pusher /\ Pushed(ok).by = pusher.by /\ Pushed(ok).at = pusher.at
                              /\ Pushed(ok).left = pusher.left /\ Pushed(ok).ok = (pusher.ok /\ ok)
                              /\ Pushed(ok).of = NoPlugin
        BY DEF KeyInv, KeyTypeOK, Pusher, Pushed, NoKey
      <2>6. proxy' \in Proxy
        BY <2>2, <2>4 DEF KeyInv, KeyTypeOK
      <2>7. pusher' \in Pusher
        BY <2>2, <2>5
      <2>8. QED
        BY <2>2, <2>3, <2>6, <2>7 DEF KeyInv, KeyTypeOK
    <1>2. RequestsAreOff'
      BY  DEF KeyInv, PusherArrives, InFlight, RequestsAreOff
    <1>3. IdleIsNobodys'
      BY  DEF KeyInv, PusherArrives, IdleIsNobodys
    <1>4. PusherIsSomebody'
      BY KeyBounds DEF KeyInv, PusherArrives, Answers, Fails, InFlight, KeyCall, KeyTypeOK, NoKey,
         NoPlugin, Proxy, Pushed, Pusher, PusherIsSomebody, WithKey
    <1>5. PushesAreKept'
      BY KeyBounds DEF KeyInv, PusherArrives, Answers, Fails, IdleIsNobodys, InFlight, KeyCall,
         KeyTypeOK, NoKey, NoPlugin, Proxy, Pushed, Pusher, PushesAreKept, RequestsAreOff, WithKey
    <1>6. PromisesAreKept'
      <2>1. pusher.of \in Plugin /\ pusher.val \in Nat
        BY DEF KeyInv, KeyTypeOK, Pusher, PusherArrives
      <2>2. \/ /\ proxy' = WithKey(pusher.of, pusher.val) /\ pusher' = Pushed(TRUE)
               /\ off' = IF pusher.alone /\ InFlight(pusher.of) = {} THEN off \ {pusher.of} ELSE off
            \/ proxy' \in {proxy, WithKey(pusher.of, pusher.val)} /\ pusher' = Pushed(FALSE) /\ UNCHANGED off
        BY DEF PusherArrives, Answers, Fails
      <2>3. UNCHANGED <<kept, present, kreq>> /\ pusher.at = "keys"
        BY DEF PusherArrives
      <2>4. /\ WithKey(pusher.of, pusher.val) \in Proxy
            /\ WithKey(pusher.of, pusher.val).key = [proxy.key EXCEPT ![pusher.of] = pusher.val]
            /\ proxy.key \in [Plugin -> Nat]
        BY <2>1, ProxyAfter DEF KeyInv, KeyTypeOK, Proxy
      <2>5. \A ok \in BOOLEAN : /\ Pushed(ok) \in Pusher /\ Pushed(ok).by = pusher.by /\ Pushed(ok).at = pusher.at
                              /\ Pushed(ok).left = pusher.left /\ Pushed(ok).ok = (pusher.ok /\ ok)
                              /\ Pushed(ok).of = NoPlugin
        BY DEF KeyInv, KeyTypeOK, Pusher, Pushed, NoKey
      <2>6. \A g \in Plugin \ {pusher.of} : proxy'.key[g] = proxy.key[g]
        BY <2>1, <2>2, <2>4
      <2>7. /\ proxy'.key[pusher.of] \in {proxy.key[pusher.of], pusher.val}
            /\ pusher'.ok => proxy'.key[pusher.of] = pusher.val
        <3>1. CASE proxy' = WithKey(pusher.of, pusher.val)
          BY <2>1, <2>4, <3>1
        <3>2. CASE proxy' = proxy /\ pusher' = Pushed(FALSE)
          BY <2>5, <3>2
        <3>3. QED
          BY <2>2, <3>1, <3>2
      <2>8. /\ pusher'.by = pusher.by /\ pusher'.at = pusher.at /\ pusher'.left = pusher.left
            /\ pusher'.ok => pusher.ok
        BY <2>2, <2>5
      <2>9. \A g \in Plugin \ off' : g \in off => g = pusher.of /\ pusher.alone
        BY <2>2
      <2>10. ASSUME NEW g \in Plugin \ off' PROVE proxy'.key[g] = kept[g] \/ ToPush(g)'
        <3>1. CASE g # pusher.of
          BY <2>3, <2>6, <2>8, <2>9, <3>1 DEF KeyInv, PromisesAreKept, ToPush
        <3>2. CASE g = pusher.of
          <4>1. pusher.val = kept[g] /\ kept[g] # NoKey /\ pusher.by # "nobody"
            BY <2>9, <3>2, KeyBounds DEF KeyInv, PushesAreKept, PusherIsSomebody, NoPlugin
          <4>2. QED
            BY <2>3, <2>7, <2>8, <3>2, <4>1 DEF ToPush
        <3>3. QED
          BY <3>1, <3>2
      <2>11. QED
        BY <2>3, <2>10 DEF PromisesAreKept
    <1>7. DownIsEmpty'
      BY  DEF KeyInv, PusherArrives, Answers, DownIsEmpty, Fails, KeyTypeOK, Proxy, WithKey
    <1>8. QED
      BY <1>1, <1>2, <1>3, <1>4, <1>5, <1>6, <1>7 DEF KeyInv

\* PusherEnds keeps the invariant.
LEMMA PusherEndsKeepsKeys == ASSUME KeyInv, PusherEnds PROVE KeyInv'
    <1>1. KeyTypeOK'
      BY  DEF KeyInv, PusherEnds, KeyTypeOK, NoKey, NotPushing, Pusher
    <1>2. RequestsAreOff'
      BY  DEF KeyInv, PusherEnds, RequestsAreOff
    <1>3. IdleIsNobodys'
      BY  DEF KeyInv, PusherEnds, IdleIsNobodys
    <1>4. PusherIsSomebody'
      BY  DEF PusherEnds, NotPushing, PusherIsSomebody
    <1>5. PushesAreKept'
      BY  DEF PusherEnds, NotPushing, PushesAreKept
    <1>6. PromisesAreKept'
      BY KeyBounds DEF KeyInv, PusherEnds, NoPlugin, PromisesAreKept, ToPush
    <1>7. DownIsEmpty'
      BY  DEF KeyInv, PusherEnds, DownIsEmpty
    <1>8. QED
      BY <1>1, <1>2, <1>3, <1>4, <1>5, <1>6, <1>7 DEF KeyInv

\* PusherWakes keeps the invariant.
LEMMA PusherWakesKeepsKeys == ASSUME KeyInv, PusherWakes PROVE KeyInv'
    <1>1. KeyTypeOK'
      BY KeyBounds DEF KeyInv, PusherWakes, Configured, KeyCall, KeyTypeOK, NoKey, NoPlugin,
         NotPushing, Proxy, Pusher
    <1>2. RequestsAreOff'
      BY  DEF KeyInv, PusherWakes, RequestsAreOff
    <1>3. IdleIsNobodys'
      BY  DEF KeyInv, PusherWakes, IdleIsNobodys
    <1>4. PusherIsSomebody'
      BY  DEF KeyInv, PusherWakes, NotPushing, PusherIsSomebody
    <1>5. PushesAreKept'
      BY  DEF KeyInv, PusherWakes, NotPushing, PushesAreKept
    <1>6. PromisesAreKept'
      BY  DEF KeyInv, PusherWakes, Configured, PromisesAreKept, ToPush
    <1>7. DownIsEmpty'
      BY  DEF KeyInv, PusherWakes, DownIsEmpty
    <1>8. QED
      BY <1>1, <1>2, <1>3, <1>4, <1>5, <1>6, <1>7 DEF KeyInv

\* ProxyUp keeps the invariant.
LEMMA ProxyUpKeepsKeys == ASSUME KeyInv, ProxyUp PROVE KeyInv'
    <1>1. KeyTypeOK'
      BY  DEF KeyInv, ProxyUp, EmptyProxy, KeyTypeOK, NoKey, NoKeys, Proxy
    <1>2. RequestsAreOff'
      BY  DEF KeyInv, ProxyUp, RequestsAreOff
    <1>3. IdleIsNobodys'
      BY  DEF KeyInv, ProxyUp, IdleIsNobodys
    <1>4. PusherIsSomebody'
      BY  DEF KeyInv, ProxyUp, PusherIsSomebody
    <1>5. PushesAreKept'
      BY  DEF KeyInv, ProxyUp, PushesAreKept
    <1>6. PromisesAreKept'
      BY  DEF KeyInv, ProxyUp, DownIsEmpty, EmptyProxy, PromisesAreKept, ToPush
    <1>7. DownIsEmpty'
      BY  DEF ProxyUp, DownIsEmpty, EmptyProxy
    <1>8. QED
      BY <1>1, <1>2, <1>3, <1>4, <1>5, <1>6, <1>7 DEF KeyInv

\* ProxyDown keeps the invariant.
LEMMA ProxyDownKeepsKeys == ASSUME KeyInv, ProxyDown PROVE KeyInv'
    <1>1. KeyTypeOK'
      BY  DEF KeyInv, ProxyDown, EmptyProxy, KeyTypeOK, NoKey, NoKeys, Proxy
    <1>2. RequestsAreOff'
      BY  DEF KeyInv, ProxyDown, KeyTypeOK, RequestsAreOff
    <1>3. IdleIsNobodys'
      BY  DEF KeyInv, ProxyDown, IdleIsNobodys
    <1>4. PusherIsSomebody'
      BY  DEF KeyInv, ProxyDown, PusherIsSomebody
    <1>5. PushesAreKept'
      BY  DEF KeyInv, ProxyDown, KeyTypeOK, PushesAreKept
    <1>6. PromisesAreKept'
      BY  DEF ProxyDown, PromisesAreKept
    <1>7. DownIsEmpty'
      BY  DEF ProxyDown, DownIsEmpty, EmptyProxy
    <1>8. QED
      BY <1>1, <1>2, <1>3, <1>4, <1>5, <1>6, <1>7 DEF KeyInv

\* RestartBackend keeps the invariant.
LEMMA RestartBackendKeepsKeys == ASSUME KeyInv, RestartBackend PROVE KeyInv'
    <1>1. KeyTypeOK'
      BY  DEF KeyInv, RestartBackend, KeyCall, KeyTypeOK, NoKey, NoKeyRequest, NotPushing, Pusher,
         StartingUp
    <1>2. RequestsAreOff'
      BY  DEF RestartBackend, NoKeyRequest, RequestsAreOff
    <1>3. IdleIsNobodys'
      BY  DEF RestartBackend, IdleIsNobodys, NoKeyRequest
    <1>4. PusherIsSomebody'
      BY  DEF RestartBackend, PusherIsSomebody, StartingUp
    <1>5. PushesAreKept'
      BY  DEF RestartBackend, NotPushing, PushesAreKept, StartingUp
    <1>6. PromisesAreKept'
      BY  DEF KeyInv, RestartBackend, Configured, PromisesAreKept, StartingUp, ToPush
    <1>7. DownIsEmpty'
      BY  DEF KeyInv, RestartBackend, DownIsEmpty
    <1>8. QED
      BY <1>1, <1>2, <1>3, <1>4, <1>5, <1>6, <1>7 DEF KeyInv

\* DeletePlugin keeps the invariant.
LEMMA DeletePluginKeepsKeys ==
    ASSUME KeyInv, NEW q \in KeyRequest, NEW f \in Plugin, DeletePlugin(q, f)
    PROVE  KeyInv'
    <1>1. KeyTypeOK'
      <2> DEFINE rec == [NoKeyRequest EXCEPT !.at = "wiping"]
      <2>1. rec \in KeyCall /\ rec.at = "wiping"
        BY DEF NoKeyRequest, KeyCall, NoKey
      <2>2. Begin(q, f, rec)
        BY DEF DeletePlugin
      <2> HIDE DEF rec
      <2>3. /\ kept' \in [Plugin -> Nat] /\ present' \subseteq Plugin /\ off' \subseteq Plugin
            /\ UNCHANGED proxy
        BY DEF KeyInv, DeletePlugin, KeyTypeOK
      <2>4. QED
        BY <2>1, <2>2, <2>3, BeginMarks DEF KeyInv, KeyTypeOK
    <1>2. RequestsAreOff'
      <2> DEFINE rec == [NoKeyRequest EXCEPT !.at = "wiping"]
      <2>1. rec \in KeyCall /\ rec.at = "wiping"
        BY DEF NoKeyRequest, KeyCall, NoKey
      <2>2. Begin(q, f, rec)
        BY DEF DeletePlugin
      <2> HIDE DEF rec
      <2>3. off' = off \cup {f} /\ UNCHANGED kept
        BY DEF DeletePlugin
      <2>4. QED
        BY <2>1, <2>2, <2>3, BeginMarks DEF KeyInv, RequestsAreOff, Overlaps, InFlight
    <1>3. IdleIsNobodys'
      BY KeyBounds DEF KeyInv, DeletePlugin, Begin, IdleIsNobodys, InFlight, KeyCall, KeyTypeOK,
         NoKey, NoKeyRequest, NoPlugin, Overlaps, Proxy, Pusher, Served
    <1>4. PusherIsSomebody'
      BY KeyBounds DEF KeyInv, DeletePlugin, Begin, InFlight, KeyCall, KeyTypeOK, NoKey, NoKeyRequest,
         NoPlugin, Overlaps, Proxy, Pusher, PusherIsSomebody, Served
    <1>5. PushesAreKept'
      <2> DEFINE rec == [NoKeyRequest EXCEPT !.at = "wiping"]
      <2>1. rec \in KeyCall /\ rec.at = "wiping"
        BY DEF NoKeyRequest, KeyCall, NoKey
      <2>2. Begin(q, f, rec)
        BY DEF DeletePlugin
      <2> HIDE DEF rec
      <2>3. off' = off \cup {f} /\ UNCHANGED kept
        BY DEF DeletePlugin
      <2>4. QED
        BY <2>1, <2>2, <2>3, BeginMarks DEF KeyInv, PushesAreKept, Overlaps
    <1>6. PromisesAreKept'
      BY KeyBounds DEF KeyInv, DeletePlugin, Begin, DownIsEmpty, IdleIsNobodys, InFlight, KeyCall,
         KeyTypeOK, NoKey, NoKeyRequest, NoKeys, NoPlugin, Overlaps, PromisesAreKept, Proxy, Pusher,
         PusherIsSomebody, PushesAreKept, RequestsAreOff, Served, ToPush
    <1>7. DownIsEmpty'
      BY KeyBounds DEF KeyInv, DeletePlugin, Begin, DownIsEmpty, InFlight, KeyCall, KeyTypeOK, NoKey,
         NoKeyRequest, NoKeys, NoPlugin, Overlaps, Proxy, Pusher, Served
    <1>8. QED
      BY <1>1, <1>2, <1>3, <1>4, <1>5, <1>6, <1>7 DEF KeyInv

\* InstallPlugin keeps the invariant.
LEMMA InstallPluginKeepsKeys ==
    ASSUME KeyInv, NEW q \in KeyRequest, NEW f \in Plugin, InstallPlugin(q, f)
    PROVE  KeyInv'
    <1>1. KeyTypeOK'
      <2> DEFINE rec == [NoKeyRequest EXCEPT !.at = "registering"]
      <2>1. rec \in KeyCall /\ rec.at = "registering"
        BY DEF NoKeyRequest, KeyCall, NoKey
      <2>2. Begin(q, f, rec)
        BY DEF InstallPlugin
      <2> HIDE DEF rec
      <2>3. /\ kept' \in [Plugin -> Nat] /\ present' \subseteq Plugin /\ off' \subseteq Plugin
            /\ UNCHANGED proxy
        BY DEF KeyInv, InstallPlugin, KeyTypeOK
      <2>4. QED
        BY <2>1, <2>2, <2>3, BeginMarks DEF KeyInv, KeyTypeOK
    <1>2. RequestsAreOff'
      <2> DEFINE rec == [NoKeyRequest EXCEPT !.at = "registering"]
      <2>1. rec \in KeyCall /\ rec.at = "registering"
        BY DEF NoKeyRequest, KeyCall, NoKey
      <2>2. Begin(q, f, rec)
        BY DEF InstallPlugin
      <2> HIDE DEF rec
      <2>3. off' = off \cup {f} /\ UNCHANGED kept
        BY DEF InstallPlugin
      <2>4. QED
        BY <2>1, <2>2, <2>3, BeginMarks DEF KeyInv, RequestsAreOff, Overlaps, InFlight
    <1>3. IdleIsNobodys'
      BY KeyBounds DEF KeyInv, InstallPlugin, Begin, IdleIsNobodys, InFlight, KeyCall, KeyTypeOK,
         NoKey, NoKeyRequest, NoPlugin, Overlaps, Proxy, Pusher, Served
    <1>4. PusherIsSomebody'
      BY KeyBounds DEF KeyInv, InstallPlugin, Begin, InFlight, KeyCall, KeyTypeOK, NoKey,
         NoKeyRequest, NoPlugin, Overlaps, Proxy, Pusher, PusherIsSomebody, Served
    <1>5. PushesAreKept'
      <2> DEFINE rec == [NoKeyRequest EXCEPT !.at = "registering"]
      <2>1. rec \in KeyCall /\ rec.at = "registering"
        BY DEF NoKeyRequest, KeyCall, NoKey
      <2>2. Begin(q, f, rec)
        BY DEF InstallPlugin
      <2> HIDE DEF rec
      <2>3. off' = off \cup {f} /\ UNCHANGED kept
        BY DEF InstallPlugin
      <2>4. QED
        BY <2>1, <2>2, <2>3, BeginMarks DEF KeyInv, PushesAreKept, Overlaps
    <1>6. PromisesAreKept'
      BY KeyBounds DEF KeyInv, InstallPlugin, Begin, DownIsEmpty, IdleIsNobodys, InFlight, KeyCall,
         KeyTypeOK, NoKey, NoKeyRequest, NoKeys, NoPlugin, Overlaps, PromisesAreKept, Proxy, Pusher,
         PusherIsSomebody, PushesAreKept, RequestsAreOff, Served, ToPush
    <1>7. DownIsEmpty'
      BY KeyBounds DEF KeyInv, InstallPlugin, Begin, DownIsEmpty, InFlight, KeyCall, KeyTypeOK, NoKey,
         NoKeyRequest, NoKeys, NoPlugin, Overlaps, Proxy, Pusher, Served
    <1>8. QED
      BY <1>1, <1>2, <1>3, <1>4, <1>5, <1>6, <1>7 DEF KeyInv

\* SetKey keeps the invariant.
LEMMA SetKeyKeepsKeys ==
    ASSUME KeyInv, NEW q \in KeyRequest, NEW f \in Plugin, NEW k \in ApiKey \cup {NoKey}, SetKey(q, f,
           k)
    PROVE  KeyInv'
    <1>1. KeyTypeOK'
      <2> DEFINE rec == [NoKeyRequest EXCEPT !.at = "mapping", !.val = k]
      <2>1. rec \in KeyCall /\ rec.at = "mapping" /\ rec.val = k
        <3>1. k \in Nat
          BY KeyBounds DEF NoKey
        <3>2. QED
          BY <3>1, NoRequestIsCall DEF KeyCall
      <2>2. Begin(q, f, rec)
        BY DEF SetKey
      <2> HIDE DEF rec
      <2>3. /\ kept' \in [Plugin -> Nat] /\ present' \subseteq Plugin /\ off' \subseteq Plugin
            /\ UNCHANGED proxy
        BY KeyBounds DEF KeyInv, SetKey, KeyTypeOK, NoKey
      <2>4. QED
        BY <2>1, <2>2, <2>3, BeginMarks DEF KeyInv, KeyTypeOK
    <1>2. RequestsAreOff'
      <2> DEFINE rec == [NoKeyRequest EXCEPT !.at = "mapping", !.val = k]
      <2>1. rec \in KeyCall /\ rec.at = "mapping" /\ rec.val = k
        <3>1. k \in Nat
          BY KeyBounds DEF NoKey
        <3>2. QED
          BY <3>1, NoRequestIsCall DEF KeyCall
      <2>2. Begin(q, f, rec)
        BY DEF SetKey
      <2> HIDE DEF rec
      <2>3. off' = off \cup {f} /\ kept' = [kept EXCEPT ![f] = k]
        BY DEF SetKey
      <2>4. QED
        BY <2>1, <2>2, <2>3, BeginMarks DEF KeyInv, KeyTypeOK, RequestsAreOff, Overlaps, InFlight
    <1>3. IdleIsNobodys'
      BY KeyBounds DEF KeyInv, SetKey, Begin, IdleIsNobodys, InFlight, KeyCall, KeyTypeOK, NoKey,
         NoKeyRequest, NoPlugin, Overlaps, Proxy, Pusher, Served
    <1>4. PusherIsSomebody'
      BY KeyBounds DEF KeyInv, SetKey, Begin, InFlight, KeyCall, KeyTypeOK, NoKey, NoKeyRequest,
         NoPlugin, Overlaps, Proxy, Pusher, PusherIsSomebody, Served
    <1>5. PushesAreKept'
      <2> DEFINE rec == [NoKeyRequest EXCEPT !.at = "mapping", !.val = k]
      <2>1. rec \in KeyCall /\ rec.at = "mapping" /\ rec.val = k
        <3>1. k \in Nat
          BY KeyBounds DEF NoKey
        <3>2. QED
          BY <3>1, NoRequestIsCall DEF KeyCall
      <2>2. Begin(q, f, rec)
        BY DEF SetKey
      <2> HIDE DEF rec
      <2>3. off' = off \cup {f} /\ kept' = [kept EXCEPT ![f] = k]
        BY DEF SetKey
      <2>4. QED
        BY <2>1, <2>2, <2>3, BeginMarks DEF KeyInv, PushesAreKept, Overlaps
    <1>6. PromisesAreKept'
      BY KeyBounds DEF KeyInv, SetKey, Begin, DownIsEmpty, IdleIsNobodys, InFlight, KeyCall,
         KeyTypeOK, NoKey, NoKeyRequest, NoKeys, NoPlugin, Overlaps, PromisesAreKept, Proxy, Pusher,
         PusherIsSomebody, PushesAreKept, RequestsAreOff, Served, ToPush
    <1>7. DownIsEmpty'
      BY KeyBounds DEF KeyInv, SetKey, Begin, DownIsEmpty, InFlight, KeyCall, KeyTypeOK, NoKey,
         NoKeyRequest, NoKeys, NoPlugin, Overlaps, Proxy, Pusher, Served
    <1>8. QED
      BY <1>1, <1>2, <1>3, <1>4, <1>5, <1>6, <1>7 DEF KeyInv

\* MapPath keeps the invariant.
LEMMA MapPathKeepsKeys == ASSUME KeyInv, NEW q \in KeyRequest, MapPath(q) PROVE KeyInv'
    <1>1. KeyTypeOK'
      <2>1. proxy' \in Proxy
        <3>1. kreq[q].of \in Plugin /\ kreq[q].val \in Nat
          BY DEF KeyInv, MapPath, KeyTypeOK, KeyCall, RequestsAreOff
        <3>2. QED
          BY <3>1, ProxyAfter DEF KeyInv, MapPath, KeyTypeOK, Answers, Fails
      <2>2. kreq' \in [KeyRequest -> KeyCall]
        BY PlaceIsCall DEF KeyInv, MapPath, KeyTypeOK, Goes
      <2>3. pusher' \in Pusher
        BY  DEF KeyInv, MapPath, KeyTypeOK
      <2>4. kept' \in [Plugin -> Nat] /\ present' \subseteq Plugin /\ off' \subseteq Plugin
        BY  DEF KeyInv, MapPath, KeyTypeOK
      <2>5. QED
        BY <2>1, <2>2, <2>3, <2>4 DEF KeyTypeOK
    <1>2. RequestsAreOff'
      BY  DEF KeyInv, MapPath, Goes, RequestsAreOff
    <1>3. IdleIsNobodys'
      BY  DEF KeyInv, MapPath, Goes, IdleIsNobodys
    <1>4. PusherIsSomebody'
      BY  DEF KeyInv, MapPath, PusherIsSomebody
    <1>5. PushesAreKept'
      BY  DEF KeyInv, MapPath, Goes, PushesAreKept
    <1>6. PromisesAreKept'
      BY  DEF KeyInv, MapPath, Answers, Fails, KeyTypeOK, Mapped, PromisesAreKept, Proxy, ToPush
    <1>7. DownIsEmpty'
      BY  DEF KeyInv, MapPath, Answers, DownIsEmpty, Fails, KeyTypeOK, Mapped, Proxy
    <1>8. QED
      BY <1>1, <1>2, <1>3, <1>4, <1>5, <1>6, <1>7 DEF KeyInv

\* SendKey keeps the invariant.
LEMMA SendKeyKeepsKeys == ASSUME KeyInv, NEW q \in KeyRequest, SendKey(q) PROVE KeyInv'
    <1>1. KeyTypeOK'
      <2>1. kreq[q].of \in Plugin /\ kept[kreq[q].of] \in Nat
        BY DEF KeyInv, SendKey, KeyTypeOK, KeyCall, RequestsAreOff
      <2>2. \/ kreq[q].val = NoKey /\ kreq' = [kreq EXCEPT ![q] = [kreq[q] EXCEPT !.at = "clearing"]]
            \/ kreq' = [kreq EXCEPT ![q] = [kreq[q] EXCEPT !.at = "putting", !.val = kept[kreq[q].of]]]
            \/ kreq' = [kreq EXCEPT ![q] = NoKeyRequest]
        <3>1. kreq \in [KeyRequest -> KeyCall]
          BY DEF KeyInv, KeyTypeOK
        <3>2. QED
          BY <3>1 DEF SendKey, Goes, Ended
      <2>3. LET new == [kreq[q] EXCEPT !.at = "clearing"]
            IN  new \in KeyCall /\ new.at = "clearing" /\ new.of = kreq[q].of /\ new.val = kreq[q].val
                /\ new.alone = kreq[q].alone
        BY DEF KeyInv, KeyTypeOK, KeyCall
      <2>4. LET new == [kreq[q] EXCEPT !.at = "putting", !.val = kept[kreq[q].of]]
            IN  new \in KeyCall /\ new.at = "putting" /\ new.of = kreq[q].of /\ new.val = kept[kreq[q].of]
                /\ new.alone = kreq[q].alone
        BY <2>1 DEF KeyInv, KeyTypeOK, KeyCall
      <2>5. UNCHANGED <<kept, present, proxy, pusher, off>> /\ kreq[q].at = "mapped"
        BY DEF SendKey
      <2>6. kreq' \in [KeyRequest -> KeyCall]
        BY <2>2, <2>3, <2>4, NoRequestIsCall DEF KeyInv, KeyTypeOK
      <2>7. QED
        BY <2>5, <2>6 DEF KeyInv, KeyTypeOK
    <1>2. RequestsAreOff'
      <2>1. kreq[q].of \in Plugin /\ kept[kreq[q].of] \in Nat
        BY DEF KeyInv, SendKey, KeyTypeOK, KeyCall, RequestsAreOff
      <2>2. \/ kreq[q].val = NoKey /\ kreq' = [kreq EXCEPT ![q] = [kreq[q] EXCEPT !.at = "clearing"]]
            \/ kreq' = [kreq EXCEPT ![q] = [kreq[q] EXCEPT !.at = "putting", !.val = kept[kreq[q].of]]]
            \/ kreq' = [kreq EXCEPT ![q] = NoKeyRequest]
        <3>1. kreq \in [KeyRequest -> KeyCall]
          BY DEF KeyInv, KeyTypeOK
        <3>2. QED
          BY <3>1 DEF SendKey, Goes, Ended
      <2>3. LET new == [kreq[q] EXCEPT !.at = "clearing"]
            IN  new \in KeyCall /\ new.at = "clearing" /\ new.of = kreq[q].of /\ new.val = kreq[q].val
                /\ new.alone = kreq[q].alone
        BY DEF KeyInv, KeyTypeOK, KeyCall
      <2>4. LET new == [kreq[q] EXCEPT !.at = "putting", !.val = kept[kreq[q].of]]
            IN  new \in KeyCall /\ new.at = "putting" /\ new.of = kreq[q].of /\ new.val = kept[kreq[q].of]
                /\ new.alone = kreq[q].alone
        BY <2>1 DEF KeyInv, KeyTypeOK, KeyCall
      <2>5. UNCHANGED <<kept, present, proxy, pusher, off>> /\ kreq[q].at = "mapped"
        BY DEF SendKey
      <2>6. \A r \in KeyRequest \ {q} : kreq'[r] = kreq[r]
        BY <2>2 DEF KeyInv, KeyTypeOK
      <2>7. \/ kreq'[q].at = "idle" /\ kreq'[q].of = NoPlugin
            \/ /\ kreq'[q].of = kreq[q].of /\ kreq'[q].alone = kreq[q].alone
               /\ \/ kreq'[q].at = "clearing" /\ kreq'[q].val = kreq[q].val /\ kreq[q].val = NoKey
                  \/ kreq'[q].at = "putting" /\ kreq'[q].val = kept[kreq[q].of]
        <3>1. kreq \in [KeyRequest -> KeyCall]
          BY DEF KeyInv, KeyTypeOK
        <3>2. CASE kreq[q].val = NoKey /\ kreq' = [kreq EXCEPT ![q] = [kreq[q] EXCEPT !.at = "clearing"]]
          <4>1. kreq'[q] = [kreq[q] EXCEPT !.at = "clearing"]
            BY <3>1, <3>2
          <4>2. QED
            BY <2>3, <3>2, <4>1
        <3>3. CASE kreq' = [kreq EXCEPT ![q] = [kreq[q] EXCEPT !.at = "putting", !.val = kept[kreq[q].of]]]
          <4>1. kreq'[q] = [kreq[q] EXCEPT !.at = "putting", !.val = kept[kreq[q].of]]
            BY <3>1, <3>3
          <4>2. QED
            BY <2>4, <4>1
        <3>4. CASE kreq' = [kreq EXCEPT ![q] = NoKeyRequest]
          <4>1. kreq'[q] = NoKeyRequest
            BY <3>1, <3>4
          <4>2. QED
            BY <4>1 DEF NoKeyRequest
        <3>5. QED
          BY <2>2, <3>2, <3>3, <3>4
      <2>8. kreq[q].at = "mapped" /\ UNCHANGED <<kept, off>> /\ NoPlugin \notin Plugin
        BY KeyBounds DEF SendKey, NoPlugin
      <2>9. /\ kreq[q].of \in off
            /\ kreq[q].alone => /\ \A r \in KeyRequest \ {q} : kreq[r].of # kreq[q].of
                                /\ kreq[q].val = kept[kreq[q].of]
        BY <2>8 DEF KeyInv, RequestsAreOff
      <2>10. ASSUME NEW r \in KeyRequest, kreq'[r].at # "idle"
            PROVE  /\ kreq'[r].of \in off
                   /\ kreq'[r].alone =>
                         /\ \A s \in KeyRequest \ {r} : kreq'[s].of # kreq'[r].of
                         /\ kreq'[r].at \in {"mapping", "mapped", "putting", "clearing"}
                               => kreq'[r].val = kept[kreq'[r].of]
                         /\ kreq'[r].at = "clearing" => kreq'[r].val = NoKey
        <3>1. CASE r = q
          BY <2>1, <2>6, <2>7, <2>9, <2>10, <3>1
        <3>2. CASE r # q
          <4>1. kreq'[r] = kreq[r] /\ kreq[r].of \in Plugin
            BY <2>6, <2>10, <3>2 DEF KeyInv, KeyTypeOK, RequestsAreOff
          <4>2. kreq'[q].of \in {kreq[q].of, NoPlugin}
            BY <2>7
          <4>3. kreq[r].alone => kreq[q].of # kreq[r].of
            BY <2>10, <3>2, <4>1 DEF KeyInv, RequestsAreOff
          <4>4. QED
            BY <2>6, <2>8, <2>10, <4>1, <4>2 DEF KeyInv, RequestsAreOff
        <3>3. QED
          BY <3>1, <3>2
      <2>11. QED
        BY <2>8, <2>10 DEF RequestsAreOff
    <1>3. IdleIsNobodys'
      BY  DEF KeyInv, SendKey, Ended, Goes, IdleIsNobodys, KeyCall, KeyTypeOK, NoKeyRequest, Proxy
    <1>4. PusherIsSomebody'
      BY  DEF KeyInv, SendKey, PusherIsSomebody
    <1>5. PushesAreKept'
      BY  DEF KeyInv, SendKey, Ended, Goes, KeyCall, KeyTypeOK, NoKeyRequest, PushesAreKept
    <1>6. PromisesAreKept'
      BY  DEF KeyInv, SendKey, PromisesAreKept, ToPush
    <1>7. DownIsEmpty'
      BY  DEF KeyInv, SendKey, DownIsEmpty
    <1>8. QED
      BY <1>1, <1>2, <1>3, <1>4, <1>5, <1>6, <1>7 DEF KeyInv

\* KeyArrives keeps the invariant.
LEMMA KeyArrivesKeepsKeys == ASSUME KeyInv, NEW q \in KeyRequest, KeyArrives(q) PROVE KeyInv'
    <1>1. KeyTypeOK'
      <2>1. kreq[q].of \in Plugin /\ kreq[q].val \in Nat /\ kreq[q].of \in off
        BY DEF KeyInv, KeyArrives, KeyTypeOK, KeyCall, RequestsAreOff
      <2>2. proxy' \in {proxy, WithKey(kreq[q].of, kreq[q].val), Keyless(kreq[q].of)}
        BY DEF KeyArrives, Answers, Fails
      <2>3. /\ WithKey(kreq[q].of, kreq[q].val) \in Proxy /\ Keyless(kreq[q].of) \in Proxy
            /\ Unmapped(kreq[q].of) \in Proxy
            /\ WithKey(kreq[q].of, kreq[q].val).key = [proxy.key EXCEPT ![kreq[q].of] = kreq[q].val]
            /\ Keyless(kreq[q].of).key = [proxy.key EXCEPT ![kreq[q].of] = NoKey]
            /\ Unmapped(kreq[q].of).key = [proxy.key EXCEPT ![kreq[q].of] = NoKey]
            /\ proxy.key \in [Plugin -> Nat]
        BY <2>1, ProxyAfter DEF KeyInv, KeyTypeOK, Proxy
      <2>4. proxy' \in Proxy
        BY <2>2, <2>3 DEF KeyInv, KeyTypeOK
      <2>5. kreq' \in [KeyRequest -> KeyCall]
        BY NoRequestIsCall DEF KeyInv, KeyArrives, KeyTypeOK, Ended
      <2>6. UNCHANGED <<kept, present, pusher>> /\ off' \subseteq off
        BY DEF KeyArrives
      <2>7. QED
        BY <2>4, <2>5, <2>6 DEF KeyInv, KeyTypeOK
    <1>2. RequestsAreOff'
      BY KeyBounds DEF KeyInv, KeyArrives, Ended, KeyTypeOK, NoKeyRequest, NoPlugin, RequestsAreOff
    <1>3. IdleIsNobodys'
      BY  DEF KeyInv, KeyArrives, Ended, IdleIsNobodys, NoKeyRequest
    <1>4. PusherIsSomebody'
      BY  DEF KeyInv, KeyArrives, PusherIsSomebody
    <1>5. PushesAreKept'
      BY  DEF KeyInv, KeyArrives, Ended, NoKeyRequest, PushesAreKept
    <1>6. PromisesAreKept'
      <2>1. kreq[q].of \in Plugin /\ kreq[q].val \in Nat /\ kreq[q].of \in off
        BY DEF KeyInv, KeyArrives, KeyTypeOK, KeyCall, RequestsAreOff
      <2>2. proxy' \in {proxy, WithKey(kreq[q].of, kreq[q].val), Keyless(kreq[q].of)}
        BY DEF KeyArrives, Answers, Fails
      <2>3. /\ WithKey(kreq[q].of, kreq[q].val) \in Proxy /\ Keyless(kreq[q].of) \in Proxy
            /\ Unmapped(kreq[q].of) \in Proxy
            /\ WithKey(kreq[q].of, kreq[q].val).key = [proxy.key EXCEPT ![kreq[q].of] = kreq[q].val]
            /\ Keyless(kreq[q].of).key = [proxy.key EXCEPT ![kreq[q].of] = NoKey]
            /\ Unmapped(kreq[q].of).key = [proxy.key EXCEPT ![kreq[q].of] = NoKey]
            /\ proxy.key \in [Plugin -> Nat]
        BY <2>1, ProxyAfter DEF KeyInv, KeyTypeOK, Proxy
      <2>4. \A g \in Plugin \ {kreq[q].of} : proxy'.key[g] = proxy.key[g]
        BY <2>1, <2>2, <2>3
      <2>5. kreq[q].of \notin off' => proxy'.key[kreq[q].of] = kept[kreq[q].of]
        <3>1. kreq[q].of \notin off' =>
                 /\ kreq[q].alone
                 /\ \/ kreq[q].at = "putting" /\ proxy' = WithKey(kreq[q].of, kreq[q].val)
                    \/ kreq[q].at = "clearing" /\ proxy' = Keyless(kreq[q].of)
          BY <2>1 DEF KeyArrives, Answers
        <3>2. QED
          BY <2>1, <2>3, <3>1 DEF KeyInv, RequestsAreOff
      <2>6. UNCHANGED <<kept, pusher>> /\ off \ {kreq[q].of} \subseteq off'
        BY DEF KeyArrives
      <2>7. QED
        BY <2>4, <2>5, <2>6 DEF KeyInv, PromisesAreKept, ToPush
    <1>7. DownIsEmpty'
      BY  DEF KeyInv, KeyArrives, Answers, DownIsEmpty, Fails, KeyTypeOK, Keyless, Proxy, WithKey
    <1>8. QED
      BY <1>1, <1>2, <1>3, <1>4, <1>5, <1>6, <1>7 DEF KeyInv

\* Wipe keeps the invariant.
LEMMA WipeKeepsKeys == ASSUME KeyInv, NEW q \in KeyRequest, Wipe(q) PROVE KeyInv'
    <1>1. KeyTypeOK'
      <2>1. kreq[q].of \in Plugin /\ kreq[q].val \in Nat /\ kreq[q].of \in off
        BY DEF KeyInv, Wipe, KeyTypeOK, KeyCall, RequestsAreOff
      <2>2. proxy' \in {proxy, Keyless(kreq[q].of), Unmapped(kreq[q].of)}
        BY DEF Wipe, Answers, Fails
      <2>3. /\ WithKey(kreq[q].of, kreq[q].val) \in Proxy /\ Keyless(kreq[q].of) \in Proxy
            /\ Unmapped(kreq[q].of) \in Proxy
            /\ WithKey(kreq[q].of, kreq[q].val).key = [proxy.key EXCEPT ![kreq[q].of] = kreq[q].val]
            /\ Keyless(kreq[q].of).key = [proxy.key EXCEPT ![kreq[q].of] = NoKey]
            /\ Unmapped(kreq[q].of).key = [proxy.key EXCEPT ![kreq[q].of] = NoKey]
            /\ proxy.key \in [Plugin -> Nat]
        BY <2>1, ProxyAfter DEF KeyInv, KeyTypeOK, Proxy
      <2>4. proxy' \in Proxy
        BY <2>2, <2>3 DEF KeyInv, KeyTypeOK
      <2>5. \/ kreq' = [kreq EXCEPT ![q].at = "unmapping"]
            \/ kreq' = [kreq EXCEPT ![q] = NoKeyRequest]
        BY DEF Wipe, Goes, Ended
      <2>6. kreq' \in [KeyRequest -> KeyCall]
        BY <2>5, NoRequestIsCall, PlaceIsCall DEF KeyInv, KeyTypeOK
      <2>7. UNCHANGED <<kept, present, pusher, off>>
        BY DEF Wipe
      <2>8. QED
        BY <2>4, <2>6, <2>7 DEF KeyInv, KeyTypeOK
    <1>2. RequestsAreOff'
      BY KeyBounds DEF KeyInv, Wipe, Ended, Goes, KeyCall, KeyTypeOK, NoKeyRequest, NoPlugin,
         RequestsAreOff
    <1>3. IdleIsNobodys'
      BY KeyBounds DEF KeyInv, Wipe, Ended, Goes, IdleIsNobodys, KeyCall, KeyTypeOK, NoKeyRequest
    <1>4. PusherIsSomebody'
      BY  DEF KeyInv, Wipe, PusherIsSomebody
    <1>5. PushesAreKept'
      BY  DEF KeyInv, Wipe, Ended, Goes, KeyCall, KeyTypeOK, NoKeyRequest, PushesAreKept
    <1>6. PromisesAreKept'
      <2>1. kreq[q].of \in Plugin /\ kreq[q].val \in Nat /\ kreq[q].of \in off
        BY DEF KeyInv, Wipe, KeyTypeOK, KeyCall, RequestsAreOff
      <2>2. proxy' \in {proxy, Keyless(kreq[q].of), Unmapped(kreq[q].of)}
        BY DEF Wipe, Answers, Fails
      <2>3. /\ WithKey(kreq[q].of, kreq[q].val) \in Proxy /\ Keyless(kreq[q].of) \in Proxy
            /\ Unmapped(kreq[q].of) \in Proxy
            /\ WithKey(kreq[q].of, kreq[q].val).key = [proxy.key EXCEPT ![kreq[q].of] = kreq[q].val]
            /\ Keyless(kreq[q].of).key = [proxy.key EXCEPT ![kreq[q].of] = NoKey]
            /\ Unmapped(kreq[q].of).key = [proxy.key EXCEPT ![kreq[q].of] = NoKey]
            /\ proxy.key \in [Plugin -> Nat]
        BY <2>1, ProxyAfter DEF KeyInv, KeyTypeOK, Proxy
      <2>4. \A g \in Plugin \ {kreq[q].of} : proxy'.key[g] = proxy.key[g]
        BY <2>1, <2>2, <2>3
      <2>5. UNCHANGED <<kept, pusher, off>>
        BY DEF Wipe
      <2>6. QED
        BY <2>1, <2>4, <2>5 DEF KeyInv, PromisesAreKept, ToPush
    <1>7. DownIsEmpty'
      BY  DEF KeyInv, Wipe, Answers, DownIsEmpty, Fails, KeyTypeOK, Keyless, Proxy, Unmapped
    <1>8. QED
      BY <1>1, <1>2, <1>3, <1>4, <1>5, <1>6, <1>7 DEF KeyInv

\* RegisterPath keeps the invariant.
LEMMA RegisterPathKeepsKeys == ASSUME KeyInv, NEW q \in KeyRequest, RegisterPath(q) PROVE KeyInv'
    <1>1. KeyTypeOK'
      <2>1. proxy' \in Proxy
        <3>1. kreq[q].of \in Plugin /\ kreq[q].val \in Nat
          BY DEF KeyInv, RegisterPath, KeyTypeOK, KeyCall, RequestsAreOff
        <3>2. QED
          BY <3>1, ProxyAfter DEF KeyInv, RegisterPath, KeyTypeOK, Answers, Fails
      <2>2. kreq' \in [KeyRequest -> KeyCall]
        BY NoRequestIsCall DEF KeyInv, RegisterPath, KeyTypeOK, Ended
      <2>3. pusher' \in Pusher
        BY  DEF KeyInv, RegisterPath, KeyTypeOK
      <2>4. kept' \in [Plugin -> Nat] /\ present' \subseteq Plugin /\ off' \subseteq Plugin
        BY  DEF KeyInv, RegisterPath, KeyTypeOK
      <2>5. QED
        BY <2>1, <2>2, <2>3, <2>4 DEF KeyTypeOK
    <1>2. RequestsAreOff'
      BY KeyBounds DEF KeyInv, RegisterPath, Ended, KeyTypeOK, NoKeyRequest, NoPlugin, RequestsAreOff
    <1>3. IdleIsNobodys'
      BY  DEF KeyInv, RegisterPath, Ended, IdleIsNobodys, NoKeyRequest
    <1>4. PusherIsSomebody'
      BY  DEF KeyInv, RegisterPath, PusherIsSomebody
    <1>5. PushesAreKept'
      BY  DEF KeyInv, RegisterPath, Ended, NoKeyRequest, PushesAreKept
    <1>6. PromisesAreKept'
      BY  DEF KeyInv, RegisterPath, Answers, Fails, KeyTypeOK, Mapped, PromisesAreKept, Proxy, ToPush
    <1>7. DownIsEmpty'
      BY  DEF KeyInv, RegisterPath, Answers, DownIsEmpty, Fails, KeyTypeOK, Mapped, Proxy
    <1>8. QED
      BY <1>1, <1>2, <1>3, <1>4, <1>5, <1>6, <1>7 DEF KeyInv

\* No step disturbs the invariant of the keys.
LEMMA KeyStep == KeyInv /\ [KeyNext]_keyVars => KeyInv'
    <1>1. CASE UNCHANGED keyVars
      BY <1>1 DEF keyVars, KeyInv, KeyTypeOK, RequestsAreOff, IdleIsNobodys, PusherIsSomebody,
         PushesAreKept, PromisesAreKept, ToPush, DownIsEmpty
    <1>2. CASE KeyNext
      BY <1>2, PusherMapsKeepsKeys, PusherSendsKeepsKeys, PusherArrivesKeepsKeys, PusherEndsKeepsKeys,
         PusherWakesKeepsKeys, ProxyUpKeepsKeys, ProxyDownKeepsKeys, RestartBackendKeepsKeys,
         DeletePluginKeepsKeys, InstallPluginKeepsKeys, SetKeyKeepsKeys, MapPathKeepsKeys,
         SendKeyKeepsKeys, KeyArrivesKeepsKeys, WipeKeepsKeys, RegisterPathKeepsKeys DEF KeyNext
    <1>3. QED
      BY <1>1, <1>2

(* Once nothing is on its way, the proxy has the key that is kept for a skill. *)
THEOREM KeysArePushed == KeySpec => []ProxyHasTheKeys
    <1>1. KeyInit => KeyInv
      <2> SUFFICES ASSUME KeyInit PROVE KeyInv
        OBVIOUS
      <2>1. NoKeys \in [Plugin -> Nat]
        BY DEF NoKeys, NoKey
      <2>2. EmptyProxy \in Proxy /\ [EmptyProxy EXCEPT !.up = FALSE] \in Proxy
        BY <2>1 DEF EmptyProxy, Proxy
      <2>3. StartingUp(Plugin) \in Pusher
        BY DEF StartingUp, NotPushing, Pusher, NoKey
      <2>4. KeyTypeOK
        BY <2>1, <2>2, <2>3, NoRequestIsCall DEF KeyInit, KeyTypeOK
      <2>5. proxy.key = NoKeys
        BY DEF KeyInit, EmptyProxy
      <2>6. QED
        BY <2>4, <2>5 DEF KeyInit, KeyInv, RequestsAreOff, IdleIsNobodys, PusherIsSomebody,
           PushesAreKept, PromisesAreKept, DownIsEmpty, NoKeyRequest, StartingUp, NotPushing
    <1>2. KeyInv => ProxyHasTheKeys
      BY DEF KeyInv, KeyTypeOK, PromisesAreKept, ToPush, ProxyHasTheKeys
    <1>3. QED
      BY <1>1, <1>2, KeyStep, PTL DEF KeySpec

-----------------------------------------------------------------------------
(* What administrators change, together.                                   *)

(* Accounts, settings and keys behave together as they do alone.           *)
THEOREM AdministrationIsItsParts == AdministrationSpec => AccSpec /\ SetSpec /\ KeySpec
    <1>1. AdministrationInit => AccInit /\ SetInit /\ KeyInit
        BY DEF AdministrationInit
    <1>2. [AdministrationNext]_administrationVars => [AccNext]_accVars /\ [SetNext]_setVars /\ [KeyNext]_keyVars
        BY DEF AdministrationNext, Sessions, Sandboxes, Setting, SkillKeying, administrationVars
    <1> QED BY <1>1, <1>2, PTL DEF AdministrationSpec, AccSpec, SetSpec, KeySpec

(* So all their invariants hold when they are checked together.            *)
THEOREM AdministrationIsSound ==
    AdministrationSpec => [](SandboxIsOwn /\ RevokedSessionsEnd /\ SettingsSurvive /\ ProxyHasTheKeys)
    BY AdministrationIsItsParts, SandboxesAreOwn, SessionsEnd, SettingsAreKept, KeysArePushed, PTL
=============================================================================
