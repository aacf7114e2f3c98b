---------------------------- MODULE PreviewManager ----------------------------
(***************************************************************************)
(* Leased previews (engine/preview.py): the lease handlers and the sweep,  *)
(* which run under one lock, and the thread of each session, which builds  *)
(* and runs the generated site between its locked sections and looks at    *)
(* the session's cancel flag.                                              *)
(*                                                                         *)
(* The wizard's hook (usePreview.ts) takes a fresh lease per start, renews *)
(* it and releases it.  Requests may overtake each other, arrive twice or  *)
(* never; MaxDelay bounds how late they arrive.  Time is counted in        *)
(* abstract ticks: an age stops growing where it makes no difference.      *)
(***************************************************************************)
EXTENDS Integers

CONSTANTS
  Owners,      \* accounts
  Leases,      \* pairs of an account and a lease id
  NoLease,     \* an account without session
  OwnerOf,     \* the account of each lease
  ttl,         \* age at which a lease without heartbeat may still live
  Retention,   \* age at which a closed lease is forgotten
  MaxDelay,    \* how late a request may be served
  MaxCommands  \* setup commands of a preview

ASSUME LeaseAssumption == NoLease \notin Leases /\ OwnerOf \in [Leases -> Owners]
ASSUME TimeAssumption ==
  /\ ttl \in Nat /\ Retention \in Nat /\ MaxDelay \in Nat
  /\ MaxDelay < Retention
ASSUME CommandAssumption == MaxCommands \in Nat \ {0}

VARIABLES
  client,    \* what the browser did with each lease, and how long ago
  sessions,  \* the lease of each account that has a session
  closed,    \* leases remembered as closed
  closedAge, \* and how long they are
  session,   \* the session object of each lease
  thread,    \* its thread
  exiting,   \* shutdown was called
  ended      \* history: leases that were stopped, replaced or swept

vars == <<client, sessions, closed, closedAge, session, thread, exiting, ended>>

Held(l) == sessions[OwnerOf[l]] = l
Live(l) == session[l].process = "alive"

-----------------------------------------------------------------------------
(* The browser.                                                            *)

start_preview(l) ==
  /\ client[l].state = "idle"
  /\ client' = [client EXCEPT ![l] = [state |-> "open", opened |-> 0, left |-> 0]]
  /\ UNCHANGED <<sessions, closed, closedAge, session, thread, exiting, ended>>

\* Stop, leaving the page, a failed start or three missed heartbeats.
release(l) ==
  /\ client[l].state = "open"
  /\ client' = [client EXCEPT ![l].state = "left", ![l].left = 0]
  /\ UNCHANGED <<sessions, closed, closedAge, session, thread, exiting, ended>>

\* Requests that may still be served.
StartPending(l)     == client[l].state # "idle" /\ client[l].opened <= MaxDelay
HeartbeatPending(l) ==
  client[l].state = "open" \/ (client[l].state = "left" /\ client[l].left <= MaxDelay)
StopPending(l)      == client[l].state = "left"

-----------------------------------------------------------------------------
(* The lease handlers, under the lock.                                     *)

\* The process group is killed and waited for.
Killed(p) == IF p = "alive" THEN "dead" ELSE p

Stopped(s) == [s EXCEPT !.cancel = TRUE, !.status = "stopped", !.process = Killed(@)]

\* Fault: only leases with a session are remembered as closed.
stop_without_memory(ls) ==
  /\ closed' = closed \union {l \in ls : Held(l)}
  /\ closedAge' = [l \in Leases |-> IF l \in ls THEN 0 ELSE closedAge[l]]
  /\ session' = [l \in Leases |-> IF l \in ls /\ Held(l) THEN Stopped(session[l]) ELSE session[l]]
  /\ ended' = ended \union ls

\* _stop for each of the leases.
StopAll(ls) ==
  /\ closed' = closed \union ls
  /\ closedAge' = [l \in Leases |-> IF l \in ls THEN 0 ELSE closedAge[l]]
  /\ session' = [l \in Leases |-> IF l \in ls /\ Held(l) THEN Stopped(session[l]) ELSE session[l]]
  /\ ended' = ended \union ls

NewSession == [status |-> "starting", cancel |-> FALSE, process |-> "none", touched |-> 0]

start(l) ==
  /\ ~exiting /\ StartPending(l)
  /\ l \notin closed /\ ~Held(l)
  /\ LET previous == {sessions[OwnerOf[l]]} \ {NoLease} IN
       /\ closed' = closed \union previous
       /\ closedAge' = [i \in Leases |-> IF i \in previous THEN 0 ELSE closedAge[i]]
       /\ session' = [i \in Leases |-> IF i = l THEN NewSession
                                       ELSE IF i \in previous THEN Stopped(session[i]) ELSE session[i]]
       /\ ended' = ended \union previous
  /\ sessions' = [sessions EXCEPT ![OwnerOf[l]] = l]
  /\ \E n \in 1 .. MaxCommands :
       thread' = [thread EXCEPT ![l] = [pc |-> "queued", commands |-> n, root |-> FALSE]]
  /\ UNCHANGED <<client, exiting>>

\* A status request, such as the proxy makes at any time, notices that a ready
\* preview has exited; a heartbeat renews the lease.
Observed(s) == IF s.status = "ready" /\ s.process # "alive" THEN [s EXCEPT !.status = "failed"] ELSE s

status(l) ==
  /\ ~exiting /\ Held(l)
  /\ \E heartbeat \in BOOLEAN :
       /\ heartbeat => HeartbeatPending(l)
       /\ session' = [session EXCEPT ![l] =
                        Observed(IF heartbeat THEN [session[l] EXCEPT !.touched = 0] ELSE session[l])]
  /\ UNCHANGED <<client, sessions, closed, closedAge, thread, exiting, ended>>

\* Fault: whatever lease the account holds is stopped.
stop_unmatched(l) ==
  /\ ~exiting /\ StopPending(l)
  /\ StopAll({l} \union ({sessions[OwnerOf[l]]} \ {NoLease}))
  /\ sessions' = [sessions EXCEPT ![OwnerOf[l]] = NoLease]
  /\ UNCHANGED <<client, thread, exiting>>

\* A stop may overtake its start: the lease is closed all the same.
stop(l) ==
  /\ ~exiting /\ StopPending(l)
  /\ StopAll({l})
  /\ sessions' = IF Held(l) THEN [sessions EXCEPT ![OwnerOf[l]] = NoLease] ELSE sessions
  /\ UNCHANGED <<client, thread, exiting>>

\* Fault: only previews that are ready are swept.
sweep_ready_only ==
  LET idle      == {l \in Leases : Held(l) /\ session[l].status = "ready" /\ session[l].touched > ttl}
      forgotten == {l \in closed \ idle : closedAge[l] >= Retention}
  IN /\ ~exiting
     /\ idle # {} \/ forgotten # {}
     /\ closed' = (closed \union idle) \ forgotten
     /\ closedAge' = [l \in Leases |-> IF l \in idle \union forgotten THEN 0 ELSE closedAge[l]]
     /\ session' = [l \in Leases |-> IF l \in idle THEN Stopped(session[l]) ELSE session[l]]
     /\ ended' = ended \union idle
     /\ sessions' = [o \in Owners |-> IF sessions[o] \in idle THEN NoLease ELSE sessions[o]]
     /\ UNCHANGED <<client, thread, exiting>>

\* Leases are swept by their last heartbeat; closed ones are forgotten.
sweep ==
  LET idle      == {l \in Leases : Held(l) /\ session[l].touched > ttl}
      forgotten == {l \in closed \ idle : closedAge[l] >= Retention}
  IN /\ ~exiting
     /\ idle # {} \/ forgotten # {}
     /\ closed' = (closed \union idle) \ forgotten
     /\ closedAge' = [l \in Leases |-> IF l \in idle \union forgotten THEN 0 ELSE closedAge[l]]
     /\ session' = [l \in Leases |-> IF l \in idle THEN Stopped(session[l]) ELSE session[l]]
     /\ ended' = ended \union idle
     /\ sessions' = [o \in Owners |-> IF sessions[o] \in idle THEN NoLease ELSE sessions[o]]
     /\ UNCHANGED <<client, thread, exiting>>

\* Called when the server shuts down; threads go on until the process ends.
shutdown ==
  /\ ~exiting
  /\ exiting' = TRUE
  /\ StopAll({l \in Leases : Held(l)})
  /\ sessions' = [o \in Owners |-> NoLease]
  /\ UNCHANGED <<client, thread>>

-----------------------------------------------------------------------------
(* The thread of a session.                                                *)

Goto(l, pc) == thread' = [thread EXCEPT ![l].pc = pc]

\* Fault: the flag is not looked at before the preview is called ready.
Ready_unchecked(l) ==
  /\ thread[l].pc = "started"
  /\ session' = [session EXCEPT ![l].status = "ready"]
  /\ Goto(l, "serving")
  /\ UNCHANGED <<client, sessions, closed, closedAge, exiting, ended>>

\* The directory is made and the project written, or not.
Assemble(l) ==
  /\ thread[l].pc = "queued"
  /\ IF session[l].cancel
     THEN Goto(l, "cleanup")
     ELSE \E pc \in {"stage", "raised"}, root \in BOOLEAN :
            /\ pc = "stage" => root
            /\ thread' = [thread EXCEPT ![l].pc = pc, ![l].root = root]
  /\ UNCHANGED <<client, sessions, closed, closedAge, session, exiting, ended>>

\* _stage: the next command, or the launch, is announced, unless its log
\* cannot be opened.
Stage(l) ==
  /\ thread[l].pc = "stage"
  /\ \/ Goto(l, IF session[l].cancel THEN "cleanup" ELSE "spawn")
     \/ Goto(l, "raised")
  /\ UNCHANGED <<client, sessions, closed, closedAge, session, exiting, ended>>

\* Fault: the flag is not looked at before the process is started.
spawn_unchecked(l) ==
  /\ thread[l].pc = "spawn"
  /\ \/ /\ session' = [session EXCEPT ![l].process = "alive"]
        /\ Goto(l, IF thread[l].commands > 0 THEN "setup" ELSE "listen")
     \/ UNCHANGED session /\ Goto(l, "raised")
  /\ UNCHANGED <<client, sessions, closed, closedAge, exiting, ended>>

\* Fault: the launch of the runtime is taken for one more setup command.
spawn_setup(l) ==
  /\ thread[l].pc = "spawn"
  /\ IF session[l].cancel
     THEN UNCHANGED session /\ Goto(l, "cleanup")
     ELSE session' = [session EXCEPT ![l].process = "alive"] /\ Goto(l, "setup")
  /\ UNCHANGED <<client, sessions, closed, closedAge, exiting, ended>>

\* _spawn: a cancelled session starts no process; Popen may raise.
spawn(l) ==
  /\ thread[l].pc = "spawn"
  /\ IF session[l].cancel
     THEN UNCHANGED session /\ Goto(l, "cleanup")
     ELSE \/ /\ session' = [session EXCEPT ![l].process = "alive"]
             /\ Goto(l, IF thread[l].commands > 0 THEN "setup" ELSE "listen")
          \/ UNCHANGED session /\ Goto(l, "raised")
  /\ UNCHANGED <<client, sessions, closed, closedAge, exiting, ended>>

\* A setup command has ended: well, badly, or because it was killed.
SetupEnds(l) ==
  /\ thread[l].pc = "setup" /\ ~Live(l)
  /\ IF session[l].cancel
     THEN Goto(l, "cleanup")
     ELSE \/ Goto(l, "raised")
          \/ thread' = [thread EXCEPT ![l].pc = "stage", ![l].commands = @ - 1]
  /\ UNCHANGED <<client, sessions, closed, closedAge, session, exiting, ended>>

\* Fault: a command that takes too long is not reported.
SetupTimesOut_unreported(l) ==
  /\ thread[l].pc = "setup" /\ Live(l)
  /\ session' = [session EXCEPT ![l].process = Killed(@)]
  /\ Goto(l, "cleanup")
  /\ UNCHANGED <<client, sessions, closed, closedAge, exiting, ended>>

\* A setup command takes more than 300 seconds.
SetupTimesOut(l) ==
  /\ thread[l].pc = "setup" /\ Live(l)
  /\ session' = [session EXCEPT ![l].process = Killed(@)]
  /\ Goto(l, "raised")
  /\ UNCHANGED <<client, sessions, closed, closedAge, exiting, ended>>

\* The runtime reports its port, exits, or does neither for 30 seconds.
Listen(l) ==
  /\ thread[l].pc = "listen"
  /\ IF session[l].cancel THEN Goto(l, "cleanup")
     ELSE \/ Goto(l, "raised")
          \/ Live(l) /\ Goto(l, "started")
  /\ UNCHANGED <<client, sessions, closed, closedAge, session, exiting, ended>>

\* The preview is ready, unless it was cancelled meanwhile.
Ready(l) ==
  /\ thread[l].pc = "started"
  /\ IF session[l].cancel
     THEN UNCHANGED session /\ Goto(l, "cleanup")
     ELSE session' = [session EXCEPT ![l].status = "ready"] /\ Goto(l, "serving")
  /\ UNCHANGED <<client, sessions, closed, closedAge, exiting, ended>>

\* A ready session waits for its cancellation.
Serve(l) ==
  /\ thread[l].pc = "serving" /\ session[l].cancel
  /\ Goto(l, "cleanup")
  /\ UNCHANGED <<client, sessions, closed, closedAge, session, exiting, ended>>

\* A failure is reported, to a session that may be stopped already.
Fail(l) ==
  /\ thread[l].pc = "raised"
  /\ session' = [session EXCEPT ![l].status = "failed"]
  /\ Goto(l, "cleanup")
  /\ UNCHANGED <<client, sessions, closed, closedAge, exiting, ended>>

\* The thread's finally: the process is killed and the directory removed.
Cleanup(l) ==
  /\ thread[l].pc = "cleanup"
  /\ session' = [session EXCEPT ![l].process = Killed(@)]
  /\ thread' = [thread EXCEPT ![l].pc = "ended", ![l].root = FALSE]
  /\ UNCHANGED <<client, sessions, closed, closedAge, exiting, ended>>

run(l) ==
  \/ Assemble(l) \/ Stage(l) \/ spawn(l) \/ SetupEnds(l) \/ SetupTimesOut(l)
  \/ Listen(l) \/ Ready(l) \/ Serve(l) \/ Fail(l) \/ Cleanup(l)

-----------------------------------------------------------------------------
(* The world around.                                                       *)

\* A setup command ends or a runtime crashes.
ProcessExits(l) ==
  /\ Live(l)
  /\ session' = [session EXCEPT ![l].process = "dead"]
  /\ UNCHANGED <<client, sessions, closed, closedAge, thread, exiting, ended>>

Older(age, limit) == IF age < limit THEN age + 1 ELSE age

Tick ==
  /\ client' = [l \in Leases |->
       [ client[l] EXCEPT
           !.opened = IF client[l].state = "idle" THEN 0 ELSE Older(@, MaxDelay + 1),
           !.left   = IF client[l].state # "left" THEN 0 ELSE Older(@, MaxDelay + 1) ]]
  /\ closedAge' = [l \in Leases |-> IF l \in closed THEN Older(closedAge[l], Retention) ELSE 0]
  /\ session' = [l \in Leases |-> [session[l] EXCEPT
                   !.touched = IF Held(l) THEN Older(@, ttl + 1) ELSE @]]
  /\ UNCHANGED <<sessions, closed, thread, exiting, ended>>

-----------------------------------------------------------------------------

Init ==
  /\ client = [l \in Leases |-> [state |-> "idle", opened |-> 0, left |-> 0]]
  /\ sessions = [o \in Owners |-> NoLease]
  /\ closed = {}
  /\ closedAge = [l \in Leases |-> 0]
  /\ session = [l \in Leases |->
                  [status |-> "none", cancel |-> FALSE, process |-> "none", touched |-> 0]]
  /\ thread = [l \in Leases |-> [pc |-> "none", commands |-> 0, root |-> FALSE]]
  /\ exiting = FALSE
  /\ ended = {}

Handler(l) == start_preview(l) \/ release(l) \/ start(l) \/ status(l) \/ stop(l)

Next ==
  \/ \E l \in Leases : Handler(l) \/ run(l) \/ ProcessExits(l)
  \/ sweep \/ shutdown \/ Tick

Spec == Init /\ [][Next]_vars

\* Threads run, every wait of theirs has a limit, the sweep is a loop of
\* five seconds and time passes.  Nothing is assumed of the browser.
FairSpec ==
  /\ Spec
  /\ \A l \in Leases : WF_vars(run(l))
  /\ WF_vars(sweep)
  /\ WF_vars(Tick)

-----------------------------------------------------------------------------
(* Properties.                                                             *)

Clients == [state : {"idle", "open", "left"}, opened : 0 .. MaxDelay + 1, left : 0 .. MaxDelay + 1]

SessionObjects ==
  [ status : {"none", "starting", "ready", "failed", "stopped"}, cancel : BOOLEAN,
    process : {"none", "alive", "dead"}, touched : 0 .. ttl + 1 ]

Threads ==
  [ pc : {"none", "queued", "stage", "spawn", "setup", "listen", "started", "serving", "raised",
          "cleanup", "ended"},
    commands : 0 .. MaxCommands, root : BOOLEAN ]

\* Every variable holds values of its type.
TypeOK ==
  /\ client \in [Leases -> Clients]
  /\ sessions \in [Owners -> Leases \union {NoLease}]
  /\ closed \in SUBSET Leases
  /\ closedAge \in [Leases -> 0 .. Retention]
  /\ session \in [Leases -> SessionObjects]
  /\ thread \in [Leases -> Threads]
  /\ exiting \in BOOLEAN
  /\ ended \in SUBSET Leases

\* Whatever runs, runs for the lease its account holds: no process survives
\* its lease, nor does a thread that was between two steps when the lease
\* ended start one (docs/frontend-preview.md: "Each account has one active
\* lease").  After a shutdown nothing runs.
ProcessesAreLeased == \A l \in Leases : Live(l) => Held(l)

\* A session that is ready is the one its account holds and was not cancelled.
ReadyIsHeld == \A l \in Leases : session[l].status = "ready" => Held(l) /\ ~session[l].cancel

\* A lease is taken once, and over once it is stopped, replaced or swept,
\* although closed leases are forgotten and requests overtake each other.
Lease == INSTANCE PreviewLease WITH holder <- sessions, over <- ended
ImplementsLease == Lease!Spec

\* A lease in use is lost only to another start of its account or to the
\* shutdown (docs/frontend-preview.md: "stopping an old lease cannot stop its
\* replacement"), however late the stop of an old lease arrives.
KeptWhileUsed ==
  [][\A l \in Leases :
       Held(l) /\ client[l].state = "open" /\ session[l].touched <= ttl /\ ~exiting'
         => sessions'[OwnerOf[l]] # NoLease]_vars

\* Once the browser has left, whether its stop arrives or not, nothing of the
\* preview remains: no process, no directory, no session.
Gone(l) == ~Live(l) /\ ~thread[l].root /\ ~Held(l)
LeftIsCleaned == \A l \in Leases : client[l].state = "left" ~> []Gone(l)

\* A start is concluded: the preview is ready, has failed or is stopped,
\* whichever step of its setup hangs, raises or is cancelled.
StartConcludes == \A l \in Leases : session[l].status = "starting" ~> session[l].status # "starting"

=============================================================================
