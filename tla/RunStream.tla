------------------------------ MODULE RunStream ------------------------------
(***************************************************************************)
(* The event stream of one conversation (routers/chat.py): the registry of *)
(* in-flight runs, the producer that emits, and the clients that start a   *)
(* run, attach to it after a refresh, or leave.                            *)
(*                                                                         *)
(* Lines are numbered in the order the producer emits them, so the replay  *)
(* list of a run is 1..lines[r]; End is the None that closes a stream. A   *)
(* generator can be suspended at every yield, between copying the replay   *)
(* list and subscribing, too.                                              *)
(***************************************************************************)
EXTENDS Integers, Sequences, FiniteSets

CONSTANTS Client,    \* browser tabs of the conversation
          MaxRuns,   \* bound: runs registered
          MaxLines,  \* bound: lines a run emits
          Deletes    \* whether the conversation may be deleted (_abort_run)

ASSUME Bounds == MaxRuns \in Nat /\ MaxLines \in Nat /\ Deletes \in BOOLEAN

VARIABLES registry,  \* RUN_REGISTRY of the conversation: a run, or NoRun
          begun,     \* runs registered so far
          done,      \* runs whose done event is set
          producing, \* runs whose producer task has not finished
          cancelled, \* runs that _abort_run cancelled
          lines,     \* length of each run's replay list
          stage,     \* where each client's stream is
          watch,     \* the run a client follows
          copied,    \* length of the replay list a client copied
          shown,     \* lines a client received
          queue      \* a subscribed client's queue

vars == <<registry, begun, done, producing, cancelled,
          lines, stage, watch, copied, shown, queue>>
runVars == <<registry, begun, done, producing, cancelled, lines>>
clientVars == <<stage, watch, copied, shown, queue>>

NoRun == 0
End == 0
Run == 1..MaxRuns

\* A run a client can still join.
Joinable(r) == r # NoRun /\ r \notin done

\* Mutant: clients are subscribed from the request on and replay what they get.
SubscribersEarly(r) == {c \in Client : watch[c] = r /\ stage[c] \in {"accepted", "live"}}

\* The clients whose queue is in the subscribers list of a run.
Subscribers(r) == {c \in Client : watch[c] = r /\ stage[c] = "live"}

\* Put an item in the queue of every subscriber.
Fan(r, item) == [c \in Client |-> IF c \in Subscribers(r) THEN Append(queue[c], item)
                                                          ELSE queue[c]]

Init == /\ registry = NoRun
        /\ begun = 0
        /\ done = {}
        /\ producing = {}
        /\ cancelled = {}
        /\ lines = [r \in Run |-> 0]
        /\ stage = [c \in Client |-> "away"]
        /\ watch = [c \in Client |-> NoRun]
        /\ copied = [c \in Client |-> 0]
        /\ shown = [c \in Client |-> <<>>]
        /\ queue = [c \in Client |-> <<>>]

-----------------------------------------------------------------------------
(* Clients. *)

\* Mutant: the registry is not looked at.
StartAlways(c) ==
    /\ stage[c] = "away"
    /\ begun < MaxRuns
    /\ begun' = begun + 1
    /\ registry' = begun'
    /\ producing' = producing \cup {begun'}
    /\ stage' = [stage EXCEPT ![c] = "live"]
    /\ watch' = [watch EXCEPT ![c] = begun']
    /\ UNCHANGED <<done, cancelled, lines, copied, shown, queue>>

\* generate() finds no live run: register one, subscribe, start the producer.
Start(c) ==
    /\ stage[c] = "away"
    /\ ~Joinable(registry)
    /\ begun < MaxRuns
    /\ begun' = begun + 1
    /\ registry' = begun'
    /\ producing' = producing \cup {begun'}
    /\ stage' = [stage EXCEPT ![c] = "live"]
    /\ watch' = [watch EXCEPT ![c] = begun']
    /\ UNCHANGED <<done, cancelled, lines, copied, shown, queue>>

\* Copy the replay list; with nothing in it the client subscribes at once.
Copy(c, r) ==
    /\ copied' = [copied EXCEPT ![c] = lines[r]]
    /\ stage' = [stage EXCEPT ![c] = IF lines[r] = 0 THEN "live" ELSE "replay"]

\* generate() of a second question finds a live run and joins it.
Rejoin(c) ==
    /\ stage[c] = "away"
    /\ Joinable(registry)
    /\ watch' = [watch EXCEPT ![c] = registry]
    /\ Copy(c, registry)
    /\ UNCHANGED <<shown, queue>>
    /\ UNCHANGED runVars

\* A refreshed page attaches: the request is accepted while the run is live. A
\* client that finds no live run is told run_gone and stays away.
Attach(c) ==
    /\ stage[c] = "away"
    /\ Joinable(registry)
    /\ watch' = [watch EXCEPT ![c] = registry]
    /\ stage' = [stage EXCEPT ![c] = "accepted"]
    /\ UNCHANGED <<copied, shown, queue>>
    /\ UNCHANGED runVars

\* Its response starts streaming.
Open(c) ==
    /\ stage[c] = "accepted"
    /\ Copy(c, watch[c])
    /\ UNCHANGED <<watch, shown, queue>>
    /\ UNCHANGED runVars

ReplayLine(c) ==
    /\ stage[c] = "replay"
    /\ Len(shown[c]) < copied[c]
    /\ shown' = [shown EXCEPT ![c] = Append(@, Len(@) + 1)]
    /\ UNCHANGED <<stage, watch, copied, queue>>
    /\ UNCHANGED runVars

\* The last replayed line was taken: subscribe for live events.
Subscribe(c) ==
    /\ stage[c] = "replay"
    /\ Len(shown[c]) = copied[c]
    /\ stage' = [stage EXCEPT ![c] = "live"]
    /\ UNCHANGED <<watch, copied, shown, queue>>
    /\ UNCHANGED runVars

\* The stream yields the next item of the queue, or ends at the end marker.
Take(c) ==
    /\ stage[c] = "live"
    /\ queue[c] # <<>>
    /\ queue' = [queue EXCEPT ![c] = Tail(@)]
    /\ IF Head(queue[c]) = End
       THEN stage' = [stage EXCEPT ![c] = "over"] /\ UNCHANGED shown
       ELSE shown' = [shown EXCEPT ![c] = Append(@, Head(queue[c]))] /\ UNCHANGED stage
    /\ UNCHANGED <<watch, copied>>
    /\ UNCHANGED runVars

\* The browser closes the stream: the queue leaves the subscribers, or stays
\* there unread; the producer goes on.
Leave(c) ==
    /\ stage[c] # "away"
    /\ stage' = [stage EXCEPT ![c] = "away"]
    /\ watch' = [watch EXCEPT ![c] = NoRun]
    /\ copied' = [copied EXCEPT ![c] = 0]
    /\ shown' = [shown EXCEPT ![c] = <<>>]
    /\ queue' = [queue EXCEPT ![c] = <<>>]
    /\ UNCHANGED runVars

-----------------------------------------------------------------------------
(* The producer. *)

\* _emit_run: remember the line and hand it to every subscriber.
Emit(r) ==
    /\ r \in producing
    /\ r \notin cancelled
    /\ lines[r] < MaxLines
    /\ lines' = [lines EXCEPT ![r] = @ + 1]
    /\ queue' = Fan(r, lines'[r])
    /\ UNCHANGED <<registry, begun, done, producing, cancelled>>
    /\ UNCHANGED <<stage, watch, copied, shown>>

\* The producer's finally: close every stream, set done, drop the entry of the
\* conversation, whichever run it holds by now.
Finish(r) ==
    /\ r \in producing
    /\ producing' = producing \ {r}
    /\ done' = done \cup {r}
    /\ registry' = NoRun
    /\ queue' = Fan(r, End)
    /\ UNCHANGED <<begun, cancelled, lines>>
    /\ UNCHANGED <<stage, watch, copied, shown>>

\* _abort_run: take the entry out and cancel the producer.
Abort ==
    /\ Deletes
    /\ Joinable(registry)
    /\ cancelled' = cancelled \cup {registry}
    /\ registry' = NoRun
    /\ UNCHANGED <<begun, done, producing, lines>>
    /\ UNCHANGED clientVars

\* Mutant: closing the streams is left to the producer.
AbortEndsQuietly(r) ==
    /\ r \in cancelled \ done
    /\ done' = done \cup {r}
    /\ UNCHANGED <<registry, begun, producing, cancelled, lines>>
    /\ UNCHANGED clientVars

\* It has waited for the producer, or for three seconds: close every stream.
AbortEnds(r) ==
    /\ r \in cancelled \ done
    /\ done' = done \cup {r}
    /\ queue' = Fan(r, End)
    /\ UNCHANGED <<registry, begun, producing, cancelled, lines>>
    /\ UNCHANGED <<stage, watch, copied, shown>>

Step(c) == Open(c) \/ ReplayLine(c) \/ Subscribe(c) \/ Take(c)

Next == \/ \E c \in Client : \/ Start(c) \/ Rejoin(c) \/ Attach(c)
                             \/ Step(c) \/ Leave(c)
        \/ \E r \in Run : Emit(r) \/ Finish(r) \/ AbortEnds(r)
        \/ Abort

Spec == Init /\ [][Next]_vars

\* The event loop: a run comes to an end and a client takes what is there. A
\* cancelled producer may be parked where cancellation does not reach it.
FairSpec == /\ Spec
            /\ \A r \in Run : WF_vars(r \notin cancelled /\ Finish(r))
                            /\ WF_vars(AbortEnds(r))
            /\ \A c \in Client : WF_vars(Step(c))

-----------------------------------------------------------------------------

Item == 0..MaxLines

\* The values every variable ranges over; a run that is done is not registered.
TypeOK ==
    /\ registry \in {NoRun} \cup (1..begun \ done)
    /\ begun \in 0..MaxRuns
    /\ done \subseteq 1..begun
    /\ producing \subseteq 1..begun
    /\ cancelled \subseteq 1..begun
    /\ lines \in [Run -> 0..MaxLines]
    /\ stage \in [Client -> {"away", "accepted", "replay", "live", "over"}]
    /\ watch \in [Client -> {NoRun} \cup Run]
    /\ copied \in [Client -> Item]
    /\ shown \in [Client -> Seq(1..MaxLines)]
    /\ queue \in [Client -> Seq(Item)]

\* The lines of a stream, end markers aside, are in order and none is there twice.
Rising(s) == \A i, j \in 1..Len(s) : i < j /\ s[j] # End => s[i] < s[j]

\* A client gets no line twice and none out of order, however it joined, with
\* what still waits in its queue.
InOrderOnce == \A c \in Client : Rising(shown[c] \o queue[c])

\* The lines 1..n are in a stream.
Reaches(s, n) == \A i \in 1..n : \E k \in 1..Len(s) : s[k] = i

\* A client that copied nothing, the one that started the run or one that came
\* before the first line, has or will get every line.
EarlyClientsMissNothing ==
    \A c \in Client :
        stage[c] = "live" /\ copied[c] = 0 =>
            Reaches(shown[c] \o queue[c], lines[watch[c]])

\* Whoever joins a run gets the lines emitted so far and then the rest: every
\* line of the run is shown or waiting once the client is subscribed.
JoinersMissNothing ==
    \A c \in Client :
        stage[c] = "live" => Reaches(shown[c] \o queue[c], lines[watch[c]])

\* What a client sees is the run: its lines in order, each once, and all of them for a
\* client that follows it from its first line; whatever it left and joined before.
ShownAsEmitted == InOrderOnce /\ EarlyClientsMissNothing

\* No two producers work on the conversation, they would overwrite each other's
\* assistant row; as long as no run was aborted.
OneProducer == cancelled = {} => Cardinality(producing) <= 1

\* A run that works can be found: a refreshed page attaches to it instead of
\* starting another, and a delete can abort it; as long as no run was aborted.
WorkingRunIsRegistered == cancelled = {} => \A r \in producing : registry = r

\* Whoever is subscribed before the run ends is released when it does, by its
\* finally or by _abort_run.
SubscribersAreReleased ==
    \A c \in Client :
        (stage[c] = "live" /\ watch[c] \notin done) ~> stage[c] # "live"

=============================================================================
