---------------------------- MODULE UiRecording ----------------------------
(***************************************************************************)
(* Recording what a user does in a page, and replaying it                  *)
(* (application/ui_recording_service.py, infrastructure/ui_test_store.py). *)
(* The page keeps what the user has done until a request takes it out and, *)
(* in a later step, writes it down.  The client collects every second and  *)
(* may stop while a collection is under way; each request runs in a thread *)
(* of its own, and all write through one connection.                       *)
(***************************************************************************)
EXTENDS Integers, Sequences, FiniteSetsExt, Functions

CONSTANTS
    Threads,      \* requests at the same time
    Names,        \* names of targets
    Origins,      \* what a target may allow
    Fields,       \* what the user may fill in
    Click,        \* any other thing the user may do
    None,
    MaxRecordings, MaxActions, MaxRuns, MaxTargets, MaxCrashes   \* bounds

VARIABLES
    targets,      \* rows: name and allowed origin; the id is the position
    recordings,   \* rows: target and status
    steps,        \* rows: recording, sequence, and the action, by number
    runs,         \* rows: recording, status, and the step it is at
    done,         \* per recording: all that the user has done, in order
    page,         \* per recording: what the page still holds, by number
    recorder,     \* per recording: is the recorder in the page
    requests,     \* per thread: the request it is serving
    lost,         \* what was taken out of the page and never written
    crashes

vars == <<targets, recordings, steps, runs, done, page, recorder,
          requests, lost, crashes>>
rows == <<targets, recordings, steps, runs>>

-----------------------------------------------------------------------------
Idle == [kind |-> None]
Numbers(r) == DOMAIN done[r]
Of(r, n) == [recording |-> r, number |-> n]
StepsOf(r) == {i \in DOMAIN steps : steps[i].recording = r}

(* normalize_actions: of fills of one field in a row, the last is kept.    *)
RefilledAny(r, held, i) ==
    /\ i < Len(held)
    /\ done[r][held[i]] # Click /\ done[r][held[i + 1]] # Click
Refilled(r, held, i) ==
    /\ i < Len(held)
    /\ done[r][held[i]] # Click
    /\ done[r][held[i + 1]] = done[r][held[i]]
Normalized(r, held) ==
    LET kept == {i \in DOMAIN held : ~Refilled(r, held, i)}
    IN  [k \in 1 .. Cardinality(kept) |->
           held[CHOOSE i \in kept : Cardinality({j \in kept : j <= i}) = k]]

LastSequence(r) == Max({steps[i].sequence : i \in StepsOf(r)} \cup {0})
CountedSequence(r) == Len(steps)
NextSequence(r) == LastSequence(r) + 1

-----------------------------------------------------------------------------
(* UPSERT: when the name is taken its row is changed. *)
Nobody(name) == {}
Registered(name) == {i \in DOMAIN targets : targets[i].name = name}
AddTarget ==
    \E name \in Names, origin \in Origins :
      LET same == Registered(name)
      IN  /\ same # {} \/ Len(targets) < MaxTargets
          /\ targets' = IF same = {} THEN Append(targets, [name |-> name, origin |-> origin])
                        ELSE [i \in DOMAIN targets |->
                                IF i \in same THEN [targets[i] EXCEPT !.origin = origin] ELSE targets[i]]
          /\ UNCHANGED <<recordings, steps, runs, done, page, recorder, requests, lost, crashes>>

(* A tab is opened on an allowed page and the recorder put into it. *)
StartRecording ==
    /\ Len(recordings) < MaxRecordings
    /\ \E target \in DOMAIN targets :
         recordings' = Append(recordings, [target |-> target, status |-> "recording"])
    /\ done' = Append(done, <<>>) /\ page' = Append(page, <<>>) /\ recorder' = Append(recorder, TRUE)
    /\ UNCHANGED <<targets, steps, runs, requests, lost, crashes>>

(* The user does something in the page while the recorder listens. *)
Act ==
    \E r \in DOMAIN recordings, what \in Fields \cup {Click} :
      /\ recorder[r] /\ Len(done[r]) < MaxActions
      /\ done' = [done EXCEPT ![r] = Append(@, what)]
      /\ page' = [page EXCEPT ![r] = Append(@, Len(done[r]) + 1)]
      /\ UNCHANGED <<targets, recordings, steps, runs, recorder, requests, lost, crashes>>

(* collect and stop: only of a recording that is under way is the page     *)
(* read; a stop of another goes on to the page all the same.               *)
Begin ==
    \E t \in Threads, kind \in {"collect", "stop"}, r \in DOMAIN recordings :
      /\ requests[t] = Idle
      /\ kind = "stop" \/ recordings[r].status = "recording"
      /\ requests' = [requests EXCEPT ![t] =
            [kind |-> kind, recording |-> r, held |-> <<>>,
             at |-> IF recordings[r].status = "recording" THEN "export" ELSE "leave"]]
      /\ UNCHANGED <<rows, done, page, recorder, lost, crashes>>

StillThere(r) == page[r]
Exported(r) == <<>>
Export ==
    \E t \in Threads :
      LET q == requests[t] IN
      /\ q # Idle /\ q.kind # "replay" /\ q.at = "export"
      /\ requests' = [requests EXCEPT ![t] = [q EXCEPT !.at = "append", !.held = page[q.recording]]]
      /\ page' = [page EXCEPT ![q.recording] = Exported(q.recording)]
      /\ UNCHANGED <<rows, done, recorder, lost, crashes>>

(* The bridge fails, or a tab has left the allowed origins: the request    *)
(* ends.  Once the page was read, what it held goes with the request.      *)
Refused ==
    \E t \in Threads :
      LET q == requests[t] IN
      /\ q # Idle /\ q.kind # "replay" /\ q.at \in {"export", "append", "leave"}
      /\ requests' = [requests EXCEPT ![t] = Idle]
      /\ lost' = lost \cup {Of(q.recording, n) : n \in Range(q.held)}
      /\ UNCHANGED <<rows, done, page, recorder, crashes>>

AppendSteps ==
    \E t \in Threads :
      LET q == requests[t]
          new == Normalized(q.recording, q.held)
      IN  /\ q # Idle /\ q.kind # "replay" /\ q.at = "append"
          /\ steps' = steps \o [i \in DOMAIN new |->
                [recording |-> q.recording, sequence |-> NextSequence(q.recording) + i - 1, number |-> new[i]]]
          /\ requests' = [requests EXCEPT ![t] =
                IF q.kind = "collect" THEN Idle ELSE [q EXCEPT !.at = "leave", !.held = <<>>]]
          /\ UNCHANGED <<targets, recordings, runs, done, page, recorder, lost, crashes>>

(* stop: the recorder leaves the page, then the recording is finished. *)
LeavePage ==
    \E t \in Threads :
      LET q == requests[t] IN
      /\ q # Idle /\ q.kind = "stop" /\ q.at = "leave"
      /\ recorder' = [recorder EXCEPT ![q.recording] = FALSE]
      /\ requests' = [requests EXCEPT ![t] = [q EXCEPT !.at = "finish"]]
      /\ UNCHANGED <<rows, done, page, lost, crashes>>

FinishRecording ==
    \E t \in Threads :
      LET q == requests[t] IN
      /\ q # Idle /\ q.kind = "stop" /\ q.at = "finish"
      /\ recordings' = [recordings EXCEPT ![q.recording].status = "recorded"]
      /\ requests' = [requests EXCEPT ![t] = Idle]
      /\ UNCHANGED <<targets, steps, runs, done, page, recorder, lost, crashes>>

(* A checkpoint is a step that the user has not done in the page. *)
AddCheckpoint ==
    \E r \in DOMAIN recordings :
      /\ Cardinality({i \in StepsOf(r) : steps[i].number = 0}) < 1
      /\ steps' = Append(steps, [recording |-> r, sequence |-> NextSequence(r), number |-> 0])
      /\ UNCHANGED <<targets, recordings, runs, done, page, recorder, requests, lost, crashes>>

-----------------------------------------------------------------------------
UpTo(r, i) == {j \in StepsOf(r) : steps[j].sequence <= steps[i].sequence}
InOrder(r) ==
    [k \in 1 .. Cardinality(StepsOf(r)) |-> CHOOSE i \in StepsOf(r) : Cardinality(UpTo(r, i)) = k]

(* replay: the steps are read once; the first that fails ends the run.     *)
Replay ==
    \E t \in Threads, r \in DOMAIN recordings :
      /\ requests[t] = Idle /\ Len(runs) < MaxRuns
      /\ runs' = Append(runs, [recording |-> r, status |-> "running", step |-> 0])
      /\ requests' = [requests EXCEPT ![t] = [kind |-> "replay", run |-> Len(runs'), todo |-> InOrder(r), at |-> 0]]
      /\ UNCHANGED <<targets, recordings, steps, done, page, recorder, lost, crashes>>

EndRun(t, status) ==
    /\ runs' = [runs EXCEPT ![requests[t].run].status = status, ![requests[t].run].step = requests[t].at]
    /\ requests' = [requests EXCEPT ![t] = Idle]
    /\ UNCHANGED <<targets, recordings, steps, done, page, recorder, lost, crashes>>

RunStep ==
    \E t \in Threads :
      LET q == requests[t] IN
      /\ q # Idle /\ q.kind = "replay"
      /\ \/ /\ q.todo # <<>>
            /\ requests' = [requests EXCEPT ![t] =
                  [q EXCEPT !.todo = Tail(@), !.at = steps[Head(q.todo)].sequence]]
            /\ UNCHANGED <<rows, done, page, recorder, lost, crashes>>
         \/ q.todo = <<>> /\ EndRun(t, "passed")
         \/ EndRun(t, "failed")

(* The service dies: requests are gone, runs stay running, and the page    *)
(* and its recorder live on in the browser.                                *)
Crash ==
    /\ crashes < MaxCrashes
    /\ crashes' = crashes + 1
    /\ requests' = [t \in Threads |-> Idle]
    /\ lost' = lost \cup UNION {{Of(requests[t].recording, n) : n \in Range(requests[t].held)} :
                                  t \in {u \in Threads : "held" \in DOMAIN requests[u]}}
    /\ UNCHANGED <<targets, recordings, steps, runs, done, page, recorder>>

Init ==
    /\ targets = <<>> /\ recordings = <<>> /\ steps = <<>> /\ runs = <<>>
    /\ done = <<>> /\ page = <<>> /\ recorder = <<>>
    /\ requests = [t \in Threads |-> Idle]
    /\ lost = {} /\ crashes = 0

Next ==
    \/ AddTarget \/ StartRecording \/ Act \/ Begin \/ Export \/ Refused \/ AppendSteps
    \/ LeavePage \/ FinishRecording \/ AddCheckpoint \/ Replay \/ RunStep \/ Crash

Spec == Init /\ [][Next]_vars
-----------------------------------------------------------------------------
(* Properties *)

(* Rows refer to rows, and what the page holds has been done.              *)
TypeOK ==
    /\ \A r \in DOMAIN recordings :
         /\ recordings[r].target \in DOMAIN targets
         /\ recordings[r].status \in {"recording", "recorded"}
         /\ Range(page[r]) \subseteq Numbers(r)
         /\ recordings[r].status = "recorded" => ~recorder[r]
    /\ \A i \in DOMAIN steps : steps[i].number \in Numbers(steps[i].recording) \cup {0}
    /\ \A i, j \in DOMAIN targets : targets[i].name = targets[j].name => i = j

(* Wherever an action of the user is: in the page, with a request, or in a *)
(* step.  It is in one place only, although collections overlap each other *)
(* and a stop: nothing is recorded twice.                                  *)
Held(t) == IF "held" \in DOMAIN requests[t] THEN {Of(requests[t].recording, n) : n \in Range(requests[t].held)}
           ELSE {}
Paged == UNION {{Of(r, n) : n \in Range(page[r])} : r \in DOMAIN recordings}
Written == {Of(steps[i].recording, steps[i].number) : i \in DOMAIN steps}
RecordedOnce ==
    /\ \A i, j \in DOMAIN steps :
         steps[i].number # 0 /\ Of(steps[i].recording, steps[i].number) = Of(steps[j].recording, steps[j].number)
           => i = j
    /\ Paged \cap Written = {} /\ (Paged \cup Written) \cap UNION {Held(t) : t \in Threads} = {}
    /\ \A t, u \in Threads : t # u => Held(t) \cap Held(u) = {}

(* What is nowhere was lost with its request, or the user has filled in    *)
(* the same field again right after it.                                    *)
OnlySupersededIsDropped ==
    \A r \in DOMAIN recordings : \A n \in Numbers(r) :
      \/ Of(r, n) \in Paged \cup Written \cup lost \cup UNION {Held(t) : t \in Threads}
      \/ done[r][n] # Click /\ n + 1 \in Numbers(r) /\ done[r][n + 1] = done[r][n]

(* The steps of a recording are numbered without gap, whoever appends.     *)
SequencesHaveNoGap ==
    \A r \in DOMAIN recordings :
      /\ {steps[i].sequence : i \in StepsOf(r)} = 1 .. Cardinality(StepsOf(r))

(* A recording is what the user has done, once and in order, although the  *)
(* page, two collections and a stop all hold parts of it.                  *)
RecordedInOrder == TypeOK /\ RecordedOnce /\ OnlySupersededIsDropped /\ SequencesHaveNoGap
=============================================================================
