------------------------------- MODULE SkillKeys ------------------------------
(***************************************************************************)
(* API keys of skills: kept by the backend (config_manager, config.enc)    *)
(* and used by the injection proxy of the egress container, which holds    *)
(* them in memory only (services/skill_secret.py, skill_secret_proxy.py).  *)
(* A key set by an administrator is pushed once; startup pushes them all   *)
(* and leaves what failed to a retry loop.                                 *)
(***************************************************************************)
EXTENDS Naturals, FiniteSets

CONSTANTS Plugin,      \* skills with an adapter, each under a path of its own
          ApiKey,      \* keys
          KeyRequest,  \* requests of administrators
          KeyEdits,    \* bound: requests in all
          KeyLosses,   \* bound: calls lost or unanswered while the proxy is up
          KeyCrashes   \* bound: restarts of the backend and of the proxy

ASSUME KeyBounds == /\ ApiKey \subseteq Nat \ {0} /\ "none" \notin Plugin
                    /\ KeyEdits \in Nat /\ KeyLosses \in Nat /\ KeyCrashes \in Nat

NoKey == 0
NoPlugin == "none"

VARIABLES kept,    \* skill_secrets of the backend
          present, \* skills whose folder is there
          proxy,   \* the proxy: running, paths it forwards, keys it injects
          kreq,    \* requests in flight
          pusher,  \* the startup's pushes, or the retry loop
          off,     \* skills whose key nobody promises to the proxy
          keyEdits, keyLosses, keyCrashes

keyVars == <<kept, present, proxy, kreq, pusher, off, keyEdits, keyLosses, keyCrashes>>

NoKeys == [f \in Plugin |-> NoKey]
EmptyProxy == [up |-> TRUE, mapped |-> {}, key |-> NoKeys]
NoKeyRequest == [at |-> "idle", of |-> NoPlugin, val |-> NoKey, alone |-> TRUE]
\* by: who pushes; todo: folders still to register; left: folders whose key is to be
\* pushed; of, val: the push on its way.
NotPushing == [by |-> "nobody", at |-> "off", todo |-> {}, left |-> {}, ok |-> TRUE,
               of |-> NoPlugin, val |-> NoKey, alone |-> TRUE]
StartingUp(skills) == [NotPushing EXCEPT !.by = "startup", !.at = "maps", !.todo = skills]

KeyInit == /\ kept = NoKeys /\ present = Plugin
           /\ proxy \in {EmptyProxy, [EmptyProxy EXCEPT !.up = FALSE]}
           /\ kreq = [q \in KeyRequest |-> NoKeyRequest]
           /\ pusher = StartingUp(Plugin)
           /\ off = {}
           /\ keyEdits = 0 /\ keyLosses = 0 /\ keyCrashes = 0

-----------------------------------------------------------------------------
(* The proxy, and a call to it that answers, is lost, or is not answered.  *)

\* _register_config, _register_secret, DELETE /secret, _unregister_config.
Mapped(f) == [proxy EXCEPT !.mapped = @ \cup {f}]
WithKey(f, k) == [proxy EXCEPT !.mapped = @ \cup {f}, !.key[f] = k]
Keyless(f) == [proxy EXCEPT !.key[f] = NoKey]
Unmapped(f) == [proxy EXCEPT !.mapped = @ \ {f}, !.key[f] = NoKey]

Answers(after) == proxy.up /\ proxy' = after /\ UNCHANGED keyLosses
Fails(after) == \/ ~proxy.up /\ UNCHANGED <<proxy, keyLosses>>
                \/ /\ proxy.up /\ keyLosses < KeyLosses /\ keyLosses' = keyLosses + 1
                   /\ proxy' \in {proxy, after}

InFlight(f) == {q \in KeyRequest : kreq[q].of = f}
Overlaps(f) == InFlight(f) # {} \/ pusher.of = f

\* A request begins; whatever else is on its way for the skill may arrive after it.
Begin(q, f, rec) ==
    /\ keyEdits < KeyEdits /\ keyEdits' = keyEdits + 1
    /\ kreq' = [r \in KeyRequest |->
          IF r = q THEN [rec EXCEPT !.of = f, !.alone = ~Overlaps(f)]
          ELSE IF kreq[r].of = f THEN [kreq[r] EXCEPT !.alone = FALSE] ELSE kreq[r]]
    /\ pusher' = IF pusher.of = f THEN [pusher EXCEPT !.alone = FALSE] ELSE pusher

Goes(q, place) == kreq' = [kreq EXCEPT ![q].at = place]
Ended(q) == kreq' = [kreq EXCEPT ![q] = NoKeyRequest]

\* Requests are served once the startup is over.
Served == pusher.by # "startup"

-----------------------------------------------------------------------------
(* Requests. *)

\* set_skill_api_key: kept and written to config.enc at once, then the path is registered.
SetKey(q, f, k) ==
    /\ Served /\ kreq[q].at = "idle" /\ (f \in present \/ InFlight(f) # {})
    /\ Begin(q, f, [NoKeyRequest EXCEPT !.at = "mapping", !.val = k])
    /\ kept' = [kept EXCEPT ![f] = k]
    /\ off' = off \cup {f}
    /\ UNCHANGED <<present, proxy, keyLosses, keyCrashes>>

\* register_skill_upstream; without an adapter nothing is sent. Its result is ignored.
MapPath(q) ==
    LET f == kreq[q].of IN
    /\ kreq[q].at = "mapping"
    /\ IF f \in present THEN Answers(Mapped(f)) \/ Fails(Mapped(f)) ELSE UNCHANGED <<proxy, keyLosses>>
    /\ Goes(q, "mapped")
    /\ UNCHANGED <<kept, present, pusher, off, keyEdits, keyCrashes>>

\* A request that sets a key pushes the one that is kept by now (push_skill_secret: none
\* without a key or an adapter); one that clears it sends a DELETE whatever is kept.
SendKey(q) ==
    LET f == kreq[q].of IN
    /\ kreq[q].at = "mapped"
    /\ IF kreq[q].val = NoKey THEN Goes(q, "clearing")
       ELSE IF kept[f] # NoKey /\ f \in present
            THEN kreq' = [kreq EXCEPT ![q].at = "putting", ![q].val = kept[f]]
            ELSE Ended(q)
    /\ UNCHANGED <<kept, present, proxy, pusher, off, keyEdits, keyLosses, keyCrashes>>

\* The key arrives: the proxy has what the backend keeps, if nothing else was on its way.
KeyArrives(q) ==
    LET f == kreq[q].of
        after == IF kreq[q].at = "putting" THEN WithKey(f, kreq[q].val) ELSE Keyless(f)
    IN /\ kreq[q].at \in {"putting", "clearing"}
       /\ \/ Answers(after) /\ off' = IF kreq[q].alone THEN off \ {f} ELSE off
          \/ Fails(after) /\ UNCHANGED off
       /\ Ended(q)
       /\ UNCHANGED <<kept, present, pusher, keyEdits, keyCrashes>>

\* delete_skill: the folder at once, then the proxy's key, then its path. The key stays kept.
DeletePlugin(q, f) ==
    /\ Served /\ kreq[q].at = "idle" /\ f \in present
    /\ Begin(q, f, [NoKeyRequest EXCEPT !.at = "wiping"])
    /\ present' = present \ {f} /\ off' = off \cup {f}
    /\ UNCHANGED <<kept, proxy, keyLosses, keyCrashes>>
Wipe(q) ==
    LET f == kreq[q].of IN
    /\ \/ kreq[q].at = "wiping" /\ (Answers(Keyless(f)) \/ Fails(Keyless(f))) /\ Goes(q, "unmapping")
       \/ kreq[q].at = "unmapping" /\ (Answers(Unmapped(f)) \/ Fails(Unmapped(f))) /\ Ended(q)
    /\ UNCHANGED <<kept, present, pusher, off, keyEdits, keyCrashes>>

\* An upload registers the path and no key, whatever is still kept for the name.
InstallPlugin(q, f) ==
    /\ Served /\ kreq[q].at = "idle" /\ f \notin present
    /\ Begin(q, f, [NoKeyRequest EXCEPT !.at = "registering"])
    /\ present' = present \cup {f} /\ off' = off \cup {f}
    /\ UNCHANGED <<kept, proxy, keyLosses, keyCrashes>>
RegisterPath(q) ==
    LET f == kreq[q].of IN
    /\ kreq[q].at = "registering"
    /\ Answers(Mapped(f)) \/ Fails(Mapped(f))
    /\ Ended(q)
    /\ UNCHANGED <<kept, present, pusher, off, keyEdits, keyCrashes>>

-----------------------------------------------------------------------------
(* The startup and the retry loop. *)

Configured == {f \in Plugin : kept[f] # NoKey}

\* ensure_skill_upstreams_registered, a folder at a time; the results are ignored. The
\* startup reads the keys after it, the loop before.
PusherMaps ==
    /\ pusher.at = "maps"
    /\ \/ \E f \in pusher.todo :
             /\ IF f \in present THEN Answers(Mapped(f)) \/ Fails(Mapped(f))
                                 ELSE UNCHANGED <<proxy, keyLosses>>
             /\ pusher' = [pusher EXCEPT !.todo = @ \ {f}]
       \/ /\ pusher.todo = {}
          /\ pusher' = [pusher EXCEPT !.at = "keys", !.ok = TRUE,
                                      !.left = IF pusher.by = "startup" THEN Configured ELSE @]
          /\ UNCHANGED <<proxy, keyLosses>>
    /\ UNCHANGED <<kept, present, kreq, off, keyEdits, keyCrashes>>

\* push_skill_secret for the next folder; one without a key by now, or without its
\* folder, counts as a failure.
PusherSends ==
    /\ pusher.at = "keys" /\ pusher.of = NoPlugin
    /\ \E f \in pusher.left :
          pusher' = IF kept[f] # NoKey /\ f \in present
                    THEN [pusher EXCEPT !.left = @ \ {f}, !.of = f, !.val = kept[f], !.alone = TRUE]
                    ELSE [pusher EXCEPT !.left = @ \ {f}, !.ok = FALSE]
    /\ UNCHANGED <<kept, present, proxy, kreq, off, keyEdits, keyLosses, keyCrashes>>

\* Mutant: the last result decides.
PushedLast(ok) == [pusher EXCEPT !.of = NoPlugin, !.val = NoKey, !.ok = ok]

\* One failure of a round is enough for another round.
Pushed(ok) == [pusher EXCEPT !.of = NoPlugin, !.val = NoKey, !.ok = @ /\ ok]

PusherArrives ==
    LET f == pusher.of
        after == WithKey(f, pusher.val)
    IN /\ pusher.at = "keys" /\ f # NoPlugin
       /\ \/ /\ Answers(after) /\ pusher' = Pushed(TRUE)
             /\ off' = IF pusher.alone /\ InFlight(f) = {} THEN off \ {f} ELSE off
          \/ Fails(after) /\ pusher' = Pushed(FALSE) /\ UNCHANGED off
       /\ UNCHANGED <<kept, present, kreq, keyEdits, keyCrashes>>

\* The end of a round. Success, or nothing to push, ends it; the startup leaves a failure
\* to _secret_retry_loop, which begins at once and then sleeps between its rounds.
PusherEnds ==
    /\ pusher.at = "keys" /\ pusher.of = NoPlugin /\ pusher.left = {}
    /\ pusher' = IF pusher.ok THEN NotPushing
                 ELSE [NotPushing EXCEPT !.by = "loop", !.at = "asleep"]
    /\ UNCHANGED <<kept, present, proxy, kreq, off, keyEdits, keyLosses, keyCrashes>>

PusherWakes ==
    /\ pusher.at = "asleep"
    /\ pusher' = IF Configured = {} THEN NotPushing
                 ELSE [pusher EXCEPT !.at = "maps", !.todo = present, !.left = Configured]
    /\ UNCHANGED <<kept, present, proxy, kreq, off, keyEdits, keyLosses, keyCrashes>>

-----------------------------------------------------------------------------
(* Restarts. *)

Restarts == keyCrashes < KeyCrashes /\ keyCrashes' = keyCrashes + 1

ProxyUp == /\ ~proxy.up /\ proxy' = EmptyProxy
           /\ UNCHANGED <<kept, present, kreq, pusher, off, keyEdits, keyLosses, keyCrashes>>

\* Its memory goes with it; only a startup of the backend or a running loop brings it back.
ProxyDown == /\ proxy.up /\ Restarts
             /\ proxy' = [EmptyProxy EXCEPT !.up = FALSE] /\ off' = Plugin
             /\ UNCHANGED <<kept, present, kreq, pusher, keyEdits, keyLosses>>

\* The new process pushes what is configured; a key that is not is left where it is.
RestartBackend == /\ Restarts
                  /\ kreq' = [q \in KeyRequest |-> NoKeyRequest]
                  /\ pusher' = StartingUp(present)
                  /\ off' = off \ Configured
                  /\ UNCHANGED <<kept, present, proxy, keyEdits, keyLosses>>

KeyNext == \/ PusherMaps \/ PusherSends \/ PusherArrives \/ PusherEnds \/ PusherWakes
           \/ ProxyUp \/ ProxyDown \/ RestartBackend
           \/ \E q \in KeyRequest :
                 \/ \E f \in Plugin : \/ DeletePlugin(q, f) \/ InstallPlugin(q, f)
                                      \/ \E k \in ApiKey \cup {NoKey} : SetKey(q, f, k)
                 \/ MapPath(q) \/ SendKey(q) \/ KeyArrives(q) \/ Wipe(q) \/ RegisterPath(q)

KeySpec == KeyInit /\ [][KeyNext]_keyVars

-----------------------------------------------------------------------------
(* Once nothing is on its way and the retry loop is gone, the proxy        *)
(* injects exactly the key the backend keeps for a skill.  Every failure   *)
(* of a startup is made good by the loop, whatever else fails meanwhile;   *)
(* nobody makes good a push of a request that failed or was overtaken, a   *)
(* skill installed over a key that was kept, or a restart of the proxy     *)
(* (off), until the next startup or round pushes the key.                  *)
ProxyHasTheKeys ==
    pusher.by = "nobody" =>
        \A f \in present \ off : InFlight(f) = {} => proxy.key[f] = kept[f]
=============================================================================
