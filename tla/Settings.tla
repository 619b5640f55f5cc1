-------------------------------- MODULE Settings ------------------------------
(***************************************************************************)
(* The settings of the backend (config_manager.py): API keys in an         *)
(* encrypted file, other settings in the database, the certificate in a    *)
(* volume that outlives the container, and the memory that is read.  A     *)
(* request changes memory, then the files, and awaits the database; each   *)
(* of the three may fail, and a file may be left half written.             *)
(***************************************************************************)
EXTENDS Integers, FiniteSets

CONSTANTS Admin,       \* requests that change or test settings
          Value,       \* values of a setting
          Cert,        \* certificates with their keys
          MasterKey,   \* keys that may be mounted for the encrypted file
          SetEdits,    \* bound: requests that change something
          SetCrashes   \* bound: deaths of the process

ASSUME SetBounds == /\ Value \subseteq Nat \ {0} /\ Cert \subseteq Nat \ {0}
                    /\ MasterKey \subseteq Nat \ {0} /\ SetEdits \in Nat /\ SetCrashes \in Nat

Secret == {"llm", "skills"}          \* kept in config.enc
Setting_ == Secret \cup {"plain"}    \* "plain" stands for every setting of the database
Unset == 0
Garbled == -1   \* stands for the key of a file that was not written whole

VARIABLES conf,     \* memory: the settings and the https flag
          enc,      \* config.enc and the key it was written with (Unset: no file)
          db,       \* system_settings: rows there are, the setting, the https flag
          vol,      \* the TLS volume: certificate, key and the site nginx serves
          mounted,  \* the key that is mounted
          verdict,  \* what is known of the LLM configuration
          adm,      \* requests in flight
          alive,
          told,     \* the value last given to a setting
          unsure,   \* settings whose last update overlapped another one, failed or was cut
          https,    \* what set_https was last asked for: a certificate or Unset
          torn,     \* the volume was not written to its end
          setEdits, setCrashes

setVars == <<conf, enc, db, vol, mounted, verdict, adm, alive, told, unsure, https, torn,
             setEdits, setCrashes>>

HalfFile == [by |-> Garbled, llm |-> Unset, skills |-> Unset]
NoFile == [by |-> Unset, llm |-> Unset, skills |-> Unset]
NoRows == [rows |-> FALSE, plain |-> Unset, https |-> FALSE]
HttpOnly == [full |-> Unset, priv |-> Unset, site |-> "http"]
AtRest == [at |-> "idle", val |-> Unset, llm |-> FALSE, alone |-> TRUE]
Untested(llm) == [invalid |-> llm = Unset, reachable |-> FALSE]

SetInit == /\ enc = NoFile /\ db = NoRows /\ vol = HttpOnly
           /\ conf = [llm |-> Unset, skills |-> Unset, plain |-> Unset, https |-> FALSE]
           /\ mounted \in MasterKey /\ verdict = Untested(Unset)
           /\ adm = [a \in Admin |-> AtRest]
           /\ alive = FALSE
           /\ told = [k \in Setting_ |-> Unset] /\ unsure = {}
           /\ https = Unset /\ torn = FALSE
           /\ setEdits = 0 /\ setCrashes = 0

Edit == /\ alive /\ setEdits < SetEdits /\ setEdits' = setEdits + 1
SavingPlain == {a \in Admin : adm[a].at = "saving"}

-----------------------------------------------------------------------------
(* Start: init and ensure_tls_config. *)

Readable == enc.by = mounted

\* A pair in the volume is served when the flag says so; without the flag (the database
\* went with the container) it is served when it belongs together.
ServesPairOnFlag(flag, v) == v.full # Unset /\ v.priv # Unset /\ flag
ServesPair(flag, v) == v.full # Unset /\ v.priv # Unset /\ (flag \/ v.full = v.priv)

\* A file that cannot be decrypted leaves empty keys and stays as it is.
Start == LET keys == IF Readable THEN enc ELSE NoFile
             pair == ServesPair(db.https, vol)
         IN /\ ~alive /\ alive' = TRUE
            /\ conf' = [llm |-> keys.llm, skills |-> keys.skills, plain |-> db.plain,
                        https |-> db.https \/ pair]
            /\ db' = [db EXCEPT !.rows = TRUE]
            /\ vol' = IF pair THEN [vol EXCEPT !.site = "https"] ELSE HttpOnly
            /\ verdict' = Untested(keys.llm)
            /\ UNCHANGED <<enc, mounted, adm, told, unsure, https, torn, setEdits, setCrashes>>

-----------------------------------------------------------------------------
(* Updates. *)

\* _persist_keys_locked: all keys are written, not only those that change.
PersistKeys(new) == [by |-> mounted, llm |-> new.llm, skills |-> new.skills]

Patched(P, v) == [k \in DOMAIN conf |-> IF k \in P THEN v ELSE conf[k]]
Writes(P) == P \cap Secret # {}

\* What a request of the page that saves a setting of the database waits for.
Save(P, v) == [at |-> "saving", val |-> v, llm |-> "skills" \notin P, alone |-> SavingPlain = {}]

\* Memory takes the patch; those in A go on to the database, and a save on its way is
\* not alone any more.
Patch(P, v, A) ==
    /\ Edit
    /\ conf' = Patched(P, v)
    /\ told' = [k \in Setting_ |-> IF k \in P THEN v ELSE told[k]]
    /\ adm' = IF "plain" \notin P THEN adm
              ELSE [b \in Admin |-> CASE b \in A -> Save(P, v)
                                      [] b \in SavingPlain -> [adm[b] EXCEPT !.alone = FALSE]
                                      [] OTHER -> adm[b]]
    /\ UNCHANGED <<db, vol, mounted, alive, https, torn, setCrashes>>

\* Keys that could not be read are overwritten with nothing.
Overwritten == IF enc.by \in {Unset, mounted} THEN {} ELSE {k \in Secret : conf[k] # told[k]}

\* update, called by the settings page (keys and other settings) and by the skills.
Update(a, P, v) ==
    /\ adm[a].at = "idle"
    /\ Patch(P, v, {a})
    /\ enc' = IF Writes(P) THEN PersistKeys(Patched(P, v)) ELSE enc
    /\ unsure' = ((unsure \cup IF Writes(P) THEN Overwritten ELSE {}) \ (P \cap Secret))
                 \cup (P \cap {"plain"})
    /\ verdict' = IF P = {"llm"} THEN Untested(v) ELSE verdict

\* The file cannot be written, or not to its end: the request answers with an error
\* before it comes to the database, and memory keeps the patch.
UpdateRaises(a, P, v) ==
    /\ adm[a].at = "idle" /\ Writes(P)
    /\ Patch(P, v, {})
    /\ enc' \in {enc, HalfFile}
    /\ unsure' = unsure \cup P
    /\ UNCHANGED verdict

\* _save_db_settings returns, and update_llm_config clears what was known.
SaveCommits(a) == /\ alive /\ adm[a].at = "saving"
                  /\ db' = [db EXCEPT !.plain = adm[a].val]
                  /\ unsure' = IF adm[a].alone THEN unsure \ {"plain"} ELSE unsure
                  /\ verdict' = IF adm[a].llm THEN Untested(conf.llm) ELSE verdict
                  /\ adm' = [adm EXCEPT ![a] = AtRest]
                  /\ UNCHANGED <<conf, enc, vol, mounted, alive, told, https, torn, setEdits, setCrashes>>

\* It raises: memory keeps the value, the request answers with an error.
SaveFails(a) == /\ alive /\ adm[a].at \in {"saving", "flag"}
                /\ adm' = [adm EXCEPT ![a] = AtRest]
                /\ UNCHANGED <<conf, enc, db, vol, mounted, verdict, alive, told, unsure, https, torn,
                               setEdits, setCrashes>>

\* test_llm_connection and the probe of health_check; both read the settings before the
\* call and store the verdict after it.
TestStart(a) == /\ alive /\ adm[a].at = "idle" /\ conf.llm # Unset
                /\ adm' = [adm EXCEPT ![a].at = "testing"]
                /\ UNCHANGED <<conf, enc, db, vol, mounted, verdict, alive, told, unsure, https, torn,
                               setEdits, setCrashes>>
TestEnds(a) == /\ alive /\ adm[a].at = "testing"
               /\ verdict' \in {[invalid |-> FALSE, reachable |-> TRUE],
                                [invalid |-> TRUE, reachable |-> FALSE],
                                [verdict EXCEPT !.reachable = FALSE]}
               /\ adm' = [adm EXCEPT ![a] = AtRest]
               /\ UNCHANGED <<conf, enc, db, vol, mounted, alive, told, unsure, https, torn,
                              setEdits, setCrashes>>

-----------------------------------------------------------------------------
(* HTTPS. *)

\* What _write_tls leaves when it is done; Unset asks for plain HTTP.
Written(c) == IF c = Unset THEN HttpOnly ELSE [full |-> c, priv |-> c, site |-> "https"]

\* What it leaves when it raises, or the process dies, on the way.
HalfWritten(c) == {[vol EXCEPT !.full = c], [vol EXCEPT !.full = c, !.priv = c]}

\* set_https: volume and flag at once, then the database.
SetHttps(a, c) == /\ Edit /\ adm[a].at = "idle"
                  /\ vol' = Written(c)
                  /\ conf' = [conf EXCEPT !.https = c # Unset]
                  /\ https' = c /\ torn' = FALSE
                  /\ adm' = [adm EXCEPT ![a] = [AtRest EXCEPT !.at = "flag", !.val = c]]
                  /\ UNCHANGED <<enc, db, mounted, verdict, alive, told, unsure, setCrashes>>

\* Or the volume is not written to its end, and nothing else is.
SetHttpsRaises(a, c) == /\ Edit /\ adm[a].at = "idle"
                        /\ vol' \in HalfWritten(c) /\ torn' = TRUE
                        /\ UNCHANGED <<conf, enc, db, mounted, verdict, adm, alive, told, unsure,
                                       https, setCrashes>>

CommitFlag(a) == /\ alive /\ adm[a].at = "flag"
                 /\ db' = [db EXCEPT !.https = adm[a].val # Unset]
                 /\ adm' = [adm EXCEPT ![a] = AtRest]
                 /\ UNCHANGED <<conf, enc, vol, mounted, verdict, alive, told, unsure, https, torn,
                                setEdits, setCrashes>>

-----------------------------------------------------------------------------
(* The process dies; the container may be recreated, or another key mounted. *)

Dies == /\ alive /\ setCrashes < SetCrashes /\ setCrashes' = setCrashes + 1
        /\ alive' = FALSE
        /\ adm' = [a \in Admin |-> AtRest]
        /\ UNCHANGED <<conf, db, mounted, verdict, told, unsure, https, setEdits>>

Die == Dies /\ UNCHANGED <<enc, vol, torn>>
DieWriting(c) == Dies /\ vol' \in HalfWritten(c) /\ torn' = TRUE /\ UNCHANGED enc
DieWritingKeys == Dies /\ enc' = HalfFile /\ UNCHANGED <<vol, torn>>

\* The database and config.enc are gone with the writable layer, the volume stays.
Recreate == /\ ~alive /\ db.rows
            /\ enc' = NoFile /\ db' = NoRows
            /\ told' = [k \in Setting_ |-> Unset] /\ unsure' = {}
            /\ UNCHANGED <<conf, vol, mounted, verdict, adm, alive, https, torn, setEdits, setCrashes>>

Remount(k) == /\ ~alive /\ k # mounted /\ mounted' = k
              /\ UNCHANGED <<conf, enc, db, vol, verdict, adm, alive, told, unsure, https, torn,
                             setEdits, setCrashes>>

Patches == {{"llm"}, {"plain"}, {"llm", "plain"}, {"skills"}}

SetNext == \/ Start \/ Die \/ DieWritingKeys \/ Recreate
           \/ \E k \in MasterKey : Remount(k)
           \/ \E c \in Cert \cup {Unset} : DieWriting(c)
           \/ \E a \in Admin : \/ \E P \in Patches, v \in Value : Update(a, P, v) \/ UpdateRaises(a, P, v)
                               \/ \E c \in Cert \cup {Unset} : SetHttps(a, c) \/ SetHttpsRaises(a, c)
                               \/ SaveCommits(a) \/ SaveFails(a) \/ CommitFlag(a)
                               \/ TestStart(a) \/ TestEnds(a)

SetSpec == SetInit /\ [][SetNext]_setVars

-----------------------------------------------------------------------------
(* What an administrator set is what the program uses, and what it uses    *)
(* again after a restart: a key whose update got no error, unless another  *)
(* master key is mounted or the file is half written, and then again if    *)
(* the key comes back, or memory still had what the next write stores; a   *)
(* setting once its save ended and none overlapped it; and the certificate *)
(* although the flag in the database is lost with the container or was     *)
(* never written -- unless its own files were not written to their end.    *)
SettingsSurvive ==
    alive => /\ \A k \in Secret \ unsure : enc.by \in {Unset, mounted} => conf[k] = told[k]
             /\ "plain" \notin unsure => conf.plain = told.plain /\ db.plain = told.plain
             /\ ~torn => vol = Written(https)
=============================================================================
