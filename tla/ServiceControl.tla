---------------------------- MODULE ServiceControl ----------------------------
(***************************************************************************)
(* Starting, stopping and restarting the web service (scripts/service.py   *)
(* over platform.py): commands that run at any time, one after the other   *)
(* under a lock of the operating system, a file that records the process   *)
(* of the service with the time of its start, and a port that a process of *)
(* the service, one that it left behind, or any other program listens on.  *)
(* Processes die at any time and their numbers are given to others; a      *)
(* command may itself be killed, which frees the lock.                     *)
(***************************************************************************)
EXTENDS Integers, FiniteSets

CONSTANTS
    Commands,      \* shells that run the script
    Pids,
    MaxBorn,       \* processes ever started
    MaxUses,       \* commands ever run
    MaxCrashes,    \* commands that are killed
    None

VARIABLES
    procs,         \* per number: the process, or None; dead: a child that nobody has waited for
    port,          \* who listens, as [id, kind], or None; it may outlive its leader
                   \* server: a command started it; api: it answers like one; other: it does not
    file,          \* the record of the service, or None
    lock, ops, born, uses, crashes,
    signalled      \* history: every process that was told to end, and what was known of it

vars == <<procs, port, file, lock, ops, born, uses, crashes, signalled>>

Idle == [pc |-> "idle", mode |-> "none", pid |-> None, checked |-> 0, recorded |-> 0, report |-> "none"]

-----------------------------------------------------------------------------
(* What can be learned of a process: that of another user only denies.     *)
State(pid) ==
    IF pid = None THEN "stopped"
    ELSE IF procs[pid] = None THEN "stopped"
    ELSE IF ~procs[pid].alive THEN "stopped"
    ELSE IF procs[pid].kind = "foreign" THEN "unknown" ELSE "running"
AnyProcess(pid) == State(pid) = "running" /\ file # None
Matches(pid) ==
    /\ State(pid) = "running" /\ file # None
    /\ file.pid = pid /\ file.started = procs[pid].id /\ procs[pid].kind = "server"

AtOnce == TRUE
Free == lock = None
Acquire(c) ==
    /\ ops[c].pc = "idle" /\ uses < MaxUses /\ Free
    /\ lock' = c /\ uses' = uses + 1
    /\ \E mode \in {"start", "stop", "restart"} :
         ops' = [ops EXCEPT ![c] = [Idle EXCEPT !.pc = "inspect", !.mode = mode,
                                                !.pid = IF file = None THEN None ELSE file.pid]]
    /\ UNCHANGED <<procs, port, file, born, crashes, signalled>>

(* Its children are no longer its own once a command has ended. *)
Orphaned(c) ==
    [pid \in Pids |->
        IF procs[pid] = None THEN None
        ELSE IF procs[pid].parent # c THEN procs[pid]
        ELSE IF procs[pid].alive THEN [procs[pid] EXCEPT !.parent = None] ELSE None]
EndsHolding(c, report) ==
    /\ ops' = [ops EXCEPT ![c] = [Idle EXCEPT !.pid = ops[c].pid, !.recorded = ops[c].recorded, !.report = report]]
    /\ procs' = Orphaned(c) /\ UNCHANGED lock
Ends(c, report) ==
    /\ ops' = [ops EXCEPT ![c] = [Idle EXCEPT !.pid = ops[c].pid, !.recorded = ops[c].recorded, !.report = report]]
    /\ lock' = IF lock = c THEN None ELSE lock
    /\ procs' = Orphaned(c)
GoesOn(c, pc) == ops' = [ops EXCEPT ![c].pc = pc] /\ UNCHANGED <<procs, lock>>

(* ------------------------------- start -------------------------------- *)
InspectForStart(c) ==
    /\ ops[c].pc = "inspect" /\ ops[c].mode = "start"
    /\ CASE State(ops[c].pid) = "unknown" -> Ends(c, "refused") /\ UNCHANGED file
         [] State(ops[c].pid) = "running" -> GoesOn(c, "identify") /\ UNCHANGED file
         [] State(ops[c].pid) = "stopped" -> GoesOn(c, "probe") /\ file' = None
    /\ UNCHANGED <<port, born, uses, crashes, signalled>>
IdentifyForStart(c) ==
    /\ ops[c].pc = "identify" /\ ops[c].mode = "start"
    /\ Ends(c, IF Matches(ops[c].pid) THEN "already running" ELSE "refused")
    /\ UNCHANGED <<port, file, born, uses, crashes, signalled>>
Unprobed == TRUE
Available == port = None
Probe(c) ==
    /\ ops[c].pc = "probe"
    /\ IF Available THEN GoesOn(c, "spawn") ELSE Ends(c, "refused")
    /\ UNCHANGED <<port, file, born, uses, crashes, signalled>>
Spawn(c) ==
    /\ ops[c].pc = "spawn"
    /\ \/ Ends(c, "failed") /\ file' = None /\ UNCHANGED born
       \/ /\ born < MaxBorn /\ born' = born + 1
          /\ \E pid \in {pid \in Pids : procs[pid] = None} :
               /\ procs' = [procs EXCEPT ![pid] = [id |-> born + 1, kind |-> "server", alive |-> TRUE,
                                                   listens |-> FALSE, parent |-> c]]
               /\ ops' = [ops EXCEPT ![c].pc = "record", ![c].pid = pid, ![c].recorded = born + 1]
          /\ UNCHANGED <<file, lock>>
    /\ UNCHANGED <<port, uses, crashes, signalled>>
Record(c) ==
    /\ ops[c].pc = "record"
    /\ \/ file' = [pid |-> ops[c].pid, started |-> procs[ops[c].pid].id] /\ GoesOn(c, "await")
       \/ GoesOn(c, "give up") /\ UNCHANGED file
    /\ UNCHANGED <<port, born, uses, crashes, signalled>>
(* Whoever answers on the port is taken for the process just started. *)
Answering == port # None /\ port.kind \in {"server", "api"}
Await(c) ==
    /\ ops[c].pc = "await"
    /\ \/ ~procs[ops[c].pid].alive /\ Ends(c, "failed") /\ file' = None
       \/ Answering /\ Ends(c, "started") /\ UNCHANGED file
       \/ procs[ops[c].pid].alive /\ GoesOn(c, "give up") /\ UNCHANGED file
    /\ UNCHANGED <<port, born, uses, crashes, signalled>>
(* The child is told to end, at last killed, and waited for. *)
Left(id) == IF port # None /\ port.id = id THEN {None, port} ELSE {port}
LeaveIt(c) ==
    /\ ops[c].pc = "give up" /\ Ends(c, "failed") /\ file' = None
    /\ UNCHANGED <<port, born, uses, crashes, signalled>>
GiveUp(c) ==
    /\ ops[c].pc = "give up" /\ procs[ops[c].pid].alive
    /\ port' \in Left(procs[ops[c].pid].id)
    /\ procs' = [procs EXCEPT ![ops[c].pid] = None]
    /\ ops' = [ops EXCEPT ![c] = [Idle EXCEPT !.pid = ops[c].pid, !.report = "failed"]]
    /\ lock' = IF lock = c THEN None ELSE lock
    /\ file' = None
    /\ UNCHANGED <<born, uses, crashes, signalled>>
GivenUp(c) ==
    /\ ops[c].pc = "give up" /\ ~procs[ops[c].pid].alive
    /\ Ends(c, "failed") /\ file' = None
    /\ UNCHANGED <<port, born, uses, crashes, signalled>>

(* -------------------------------- stop -------------------------------- *)
Stopping(c) == ops[c].mode \in {"stop", "restart"}
InspectForStop(c) ==
    /\ ops[c].pc = "inspect" /\ Stopping(c)
    /\ CASE State(ops[c].pid) = "unknown" -> Ends(c, "refused")
         [] State(ops[c].pid) = "running" -> GoesOn(c, "identify")
         [] State(ops[c].pid) = "stopped" -> GoesOn(c, "gone")
    /\ UNCHANGED <<port, file, born, uses, crashes, signalled>>
(* A restart starts, under the same lock, with the record removed.         *)
Stopped(c, report) ==
    /\ file' = None
    /\ IF ops[c].mode = "stop" THEN Ends(c, report)
       ELSE /\ ops' = [ops EXCEPT ![c].pc = "inspect", ![c].mode = "start", ![c].pid = None, ![c].report = report]
            /\ UNCHANGED <<procs, lock>>
Gone(c) ==
    /\ ops[c].pc = "gone"
    /\ IF file # None /\ port # None THEN Ends(c, "occupied") /\ UNCHANGED file
       ELSE Stopped(c, "not running")
    /\ UNCHANGED <<port, born, uses, crashes, signalled>>
IdentifyForStop(c) ==
    /\ ops[c].pc = "identify" /\ Stopping(c)
    /\ IF Matches(ops[c].pid)
       THEN /\ ops' = [ops EXCEPT ![c].pc = "terminate", ![c].checked = born, ![c].recorded = file.started]
            /\ UNCHANGED <<procs, lock>>
       ELSE Ends(c, "refused")
    /\ UNCHANGED <<port, file, born, uses, crashes, signalled>>
Signal(c) ==
    signalled' = signalled \cup
        {[id |-> procs[ops[c].pid].id, asked |-> ops[c].recorded, late |-> procs[ops[c].pid].id > ops[c].checked]}
(* The signal goes to the number, whoever has it by now.                   *)
Terminate(c) ==
    /\ ops[c].pc = "terminate"
    /\ IF procs[ops[c].pid] = None THEN GoesOn(c, "wait") /\ UNCHANGED signalled
       ELSE IF procs[ops[c].pid].kind = "foreign" THEN Ends(c, "failed") /\ UNCHANGED signalled
       ELSE GoesOn(c, "grace") /\ Signal(c)
    /\ UNCHANGED <<port, file, born, uses, crashes>>
Observed(c) ==
    /\ ops[c].pc = "grace" /\ State(ops[c].pid) = "stopped" /\ GoesOn(c, "wait")
    /\ UNCHANGED <<port, file, born, uses, crashes, signalled>>
(* After the grace period all of the group is killed.                      *)
Kill(c) ==
    /\ ops[c].pc = "grace"
    /\ LET victim == procs[ops[c].pid] IN
       IF victim = None THEN GoesOn(c, "wait") /\ UNCHANGED <<port, signalled>>
       ELSE IF victim.kind = "foreign" THEN Ends(c, "failed") /\ UNCHANGED <<port, signalled>>
       ELSE /\ procs' = [procs EXCEPT ![ops[c].pid] = IF victim.parent = None THEN None ELSE [victim EXCEPT !.alive = FALSE]]
            /\ port' = IF port # None /\ port.id = victim.id THEN None ELSE port
            /\ ops' = [ops EXCEPT ![c].pc = "wait"] /\ Signal(c)
            /\ UNCHANGED lock
    /\ UNCHANGED <<file, born, uses, crashes>>
LeaderOnly(c) == State(ops[c].pid) # "running"
Down(c) == State(ops[c].pid) # "running" /\ port = None
Wait(c) ==
    /\ ops[c].pc = "wait"
    /\ IF Down(c) THEN Stopped(c, "stopped") ELSE Ends(c, "stuck") /\ UNCHANGED file
    /\ UNCHANGED <<port, born, uses, crashes, signalled>>

(* --------------------------- other processes -------------------------- *)
Crash(c) ==
    /\ ops[c].pc # "idle" /\ crashes < MaxCrashes /\ crashes' = crashes + 1
    /\ Ends(c, "killed")
    /\ UNCHANGED <<port, file, born, uses, signalled>>
Alive == {pid \in Pids : IF procs[pid] = None THEN FALSE ELSE procs[pid].alive}
Died(pid) ==
    procs' = [procs EXCEPT ![pid] = IF @.parent = None THEN None ELSE [@ EXCEPT !.alive = FALSE]]
Listen(pid) ==
    /\ pid \in Alive /\ procs[pid].kind = "server" /\ ~procs[pid].listens
    /\ IF port = None
       THEN /\ port' = [id |-> procs[pid].id, kind |-> "server"]
            /\ procs' = [procs EXCEPT ![pid].listens = TRUE]
       ELSE Died(pid) /\ UNCHANGED port
    /\ UNCHANGED <<file, lock, ops, born, uses, crashes, signalled>>
(* Any program may take the port when it is free, be it a web server that  *)
(* was started by hand.                                                    *)
Occupy(pid) ==
    /\ pid \in Alive /\ procs[pid].kind # "server" /\ ~procs[pid].listens /\ port = None
    /\ \E kind \in {"api", "other"} : port' = [id |-> procs[pid].id, kind |-> kind]
    /\ procs' = [procs EXCEPT ![pid].listens = TRUE]
    /\ UNCHANGED <<file, lock, ops, born, uses, crashes, signalled>>
Die(pid) ==
    /\ pid \in Alive
    /\ Died(pid) /\ port' \in Left(procs[pid].id)
    /\ UNCHANGED <<file, lock, ops, born, uses, crashes, signalled>>
Release ==
    /\ port # None /\ port.id \notin {procs[pid].id : pid \in Alive}
    /\ port' = None
    /\ UNCHANGED <<procs, file, lock, ops, born, uses, crashes, signalled>>
Begin(pid) ==
    /\ procs[pid] = None /\ born < MaxBorn /\ born' = born + 1
    /\ \E kind \in {"own", "foreign"} :
         procs' = [procs EXCEPT ![pid] = [id |-> born + 1, kind |-> kind, alive |-> TRUE, listens |-> FALSE, parent |-> None]]
    /\ UNCHANGED <<port, file, lock, ops, uses, crashes, signalled>>

Init ==
    /\ procs = [pid \in Pids |-> None] /\ port = None /\ file = None /\ lock = None
    /\ ops = [c \in Commands |-> Idle] /\ born = 0 /\ uses = 0 /\ crashes = 0 /\ signalled = {}

Next ==
    \/ \E c \in Commands :
         \/ Acquire(c) \/ InspectForStart(c) \/ IdentifyForStart(c) \/ Probe(c) \/ Spawn(c) \/ Record(c)
         \/ Await(c) \/ GiveUp(c) \/ GivenUp(c)
         \/ InspectForStop(c) \/ Gone(c) \/ IdentifyForStop(c) \/ Terminate(c) \/ Observed(c) \/ Kill(c) \/ Wait(c)
         \/ Crash(c)
    \/ \E pid \in Pids : Listen(pid) \/ Occupy(pid) \/ Die(pid) \/ Begin(pid)
    \/ Release

Spec == Init /\ [][Next]_vars
-----------------------------------------------------------------------------
(* Properties *)

Servers == {pid \in Alive : procs[pid].kind = "server"}

(* A child that is dead and not waited for has a command as its parent;    *)
(* the lock is held by a command that runs.                                *)
TypeOK ==
    /\ \A pid \in Pids : procs[pid] # None =>
         /\ procs[pid].id \in 1 .. born /\ procs[pid].kind \in {"server", "own", "foreign"}
         /\ ~procs[pid].alive => procs[pid].parent \in Commands
    /\ lock # None => ops[lock].pc # "idle"
    /\ file # None => file.pid \in Pids /\ file.started \in 1 .. born

(* Only the process that was recorded is told to end, or one that took its *)
(* number after it had been identified.                                    *)
NoStrangerIsKilled == \A s \in signalled : s.id = s.asked \/ s.late

(* There is one service, and another only for every command that was       *)
(* killed before it could record its own.                                  *)
OneServer == Cardinality(Servers) <= 1 + crashes

(* Unless a command was killed, the service that runs is the one that the  *)
(* file records, so that it can be stopped.                                *)
NothingRunsUnrecorded ==
    crashes = 0 /\ lock = None =>
      \A pid \in Servers : file = [pid |-> pid, started |-> procs[pid].id]

(* The commands know the service that runs, and touch nothing else. *)
ServiceIsKnown == TypeOK /\ NoStrangerIsKilled /\ OneServer /\ NothingRunsUnrecorded

(* Unless a command was killed, "started" means that the process that was  *)
(* started is recorded, and that what answers is this process or else a    *)
(* program that no command started: one that took the port after the       *)
(* command had found it free.                                              *)
Reports(c, report) == ops[c].report # report /\ ops'[c].report = report
StartedAnswers ==
    \A c \in Commands : Reports(c, "started") /\ crashes = 0 =>
      /\ file.started = ops[c].recorded
      /\ port.kind = "server" => port.id = ops[c].recorded

(* "Stopped" means that the process is gone and that nothing it left       *)
(* behind listens, so that the next start finds the port free.             *)
StoppedIsGone ==
    \A c \in Commands : Reports(c, "stopped") =>
      /\ \A pid \in Servers : procs[pid].id # ops[c].recorded
      /\ port = None \/ port.id # ops[c].recorded

(* What a command reports is so, whatever dies, takes the port or the      *)
(* number meanwhile.                                                       *)
ReportIsTrue == StartedAnswers /\ StoppedIsGone
=============================================================================
