------------------------ MODULE PreviewManager_proofs ------------------------
(***************************************************************************)
(* Proofs about PreviewManager, for every set of accounts and leases and   *)
(* every time limit: previews implement PreviewLease, and what runs is     *)
(* leased.                                                                 *)
(***************************************************************************)
EXTENDS PreviewManager, TLAPS

(* The inductive invariant.                                                *)

\* An account holds leases of its own; what it holds is not over.
HoldsOwn ==
  \A o \in Owners : sessions[o] # NoLease =>
    /\ OwnerOf[sessions[o]] = o
    /\ client[sessions[o]].state # "idle"
    /\ sessions[o] \notin ended

\* A lease that is over is remembered as closed for as long as its start may
\* still arrive: it was closed after it was opened.
OverIsRemembered(l) ==
  l \in ended =>
    /\ client[l].state # "idle"
    /\ client[l].opened <= MaxDelay => l \in closed /\ closedAge[l] <= client[l].opened

\* A session is cancelled exactly when its lease is no longer held.
CancelledIffOver(l) ==
  /\ Held(l) => ~session[l].cancel
  /\ ~Held(l) /\ thread[l].pc # "none" => session[l].cancel
  /\ ~Held(l) => session[l].process # "alive" /\ session[l].status # "ready"
  /\ thread[l].pc = "setup" => thread[l].commands > 0

IInv ==
  /\ TypeOK
  /\ HoldsOwn
  /\ \A l \in Leases : OverIsRemembered(l)
  /\ \A l \in Leases : CancelledIffOver(l)

-----------------------------------------------------------------------------
(* Steps keep IInv: once for the steps of a thread, once for whatever ends *)
(* leases.                                                                 *)

\* Killed yields a process state that is not alive.
LEMMA KilledTyped ==
  ASSUME NEW p \in {"none", "alive", "dead"}
  PROVE  Killed(p) \in {"none", "dead"}
BY DEF Killed

\* A step that changes the session object and the thread of one lease keeps
\* IInv if it leaves the flag alone and starts nothing for a lease not held.
LEMMA ThreadStep ==
  ASSUME IInv, NEW l \in Leases, NEW s \in SessionObjects, NEW t \in Threads,
         session' = [session EXCEPT ![l] = s],
         thread' = [thread EXCEPT ![l] = t],
         UNCHANGED <<client, sessions, closed, closedAge, exiting, ended>>,
         s.cancel = session[l].cancel,
         ~Held(l) => s.process # "alive" /\ s.status # "ready",
         t.pc = "none" <=> thread[l].pc = "none",
         t.pc = "setup" => t.commands > 0
  PROVE  IInv'
<1>1. TypeOK'
  BY DEF IInv, TypeOK
<1>2. HoldsOwn' /\ \A i \in Leases : OverIsRemembered(i)'
  BY DEF IInv, HoldsOwn, OverIsRemembered
<1>3. ASSUME NEW i \in Leases
      PROVE  CancelledIffOver(i)'
  <2>1. CASE i = l
    <3>1. session'[i] = s /\ thread'[i] = t /\ sessions' = sessions
      BY <2>1 DEF IInv, TypeOK
    <3> QED BY <2>1, <3>1 DEF IInv, CancelledIffOver, Held
  <2>2. CASE i # l
    <3>1. session'[i] = session[i] /\ thread'[i] = thread[i] /\ sessions' = sessions
      BY <2>2 DEF IInv, TypeOK
    <3> QED BY <3>1 DEF IInv, CancelledIffOver, Held
  <2> QED BY <2>1, <2>2
<1> QED BY <1>1, <1>2, <1>3 DEF IInv

\* A lease is held by its account or by none.
LEMMA HeldBy ==
  ASSUME IInv, NEW o \in Owners, sessions[o] # NoLease
  PROVE  sessions[o] \in Leases /\ Held(sessions[o]) /\ OwnerOf[sessions[o]] = o
BY DEF IInv, TypeOK, HoldsOwn, Held

\* A session that is stopped is cancelled, is not ready and has no process.
LEMMA StoppedTyped ==
  ASSUME NEW s \in SessionObjects
  PROVE  /\ Stopped(s) \in SessionObjects
         /\ Stopped(s).cancel /\ Stopped(s).status = "stopped" /\ Stopped(s).process # "alive"
BY KilledTyped DEF Stopped, SessionObjects

\* Ending leases, and forgetting closed ones whose start cannot arrive any
\* more, keeps IInv.
LEMMA EndStep ==
  ASSUME IInv, NEW ls \in SUBSET Leases, NEW forgotten \in SUBSET Leases,
         \A l \in ls : client[l].state # "idle",
         \A l \in forgotten : l \notin ls /\ (l \in ended => client[l].opened > MaxDelay),
         sessions' = [o \in Owners |-> IF sessions[o] \in ls THEN NoLease ELSE sessions[o]],
         closed' = (closed \union ls) \ forgotten,
         closedAge' \in [Leases -> 0 .. Retention],
         \A l \in ls : closedAge'[l] = 0,
         \A l \in Leases \ (ls \union forgotten) : closedAge'[l] = closedAge[l],
         session' = [l \in Leases |-> IF l \in ls /\ Held(l) THEN Stopped(session[l]) ELSE session[l]],
         ended' = ended \union ls,
         client' = client, thread' = thread, exiting' \in BOOLEAN
  PROVE  IInv'
<1>1. TypeOK'
  <2>1. session' \in [Leases -> SessionObjects]
    BY StoppedTyped DEF IInv, TypeOK
  <2> QED BY <2>1 DEF IInv, TypeOK
<1>2. HoldsOwn'
  <2>1. ASSUME NEW o \in Owners, sessions'[o] # NoLease
        PROVE  sessions'[o] = sessions[o] /\ sessions[o] \notin ls
    BY <2>1
  <2> QED BY <2>1 DEF IInv, HoldsOwn
<1>3. ASSUME NEW l \in Leases
      PROVE  OverIsRemembered(l)'
  <2>1. CASE l \in ls
    BY <2>1 DEF IInv, TypeOK, Clients, OverIsRemembered
  <2>2. CASE l \in forgotten
    <3>1. l \in ended' => l \in ended
      BY <2>2
    <3>2. l \in ended => client[l].state # "idle" /\ client[l].opened > MaxDelay
      BY <2>2 DEF IInv, OverIsRemembered
    <3>3. client[l].opened \in Int /\ MaxDelay \in Int
      BY TimeAssumption DEF IInv, TypeOK, Clients
    <3> QED BY <3>1, <3>2, <3>3 DEF OverIsRemembered
  <2>3. CASE l \notin ls \union forgotten
    BY <2>3 DEF IInv, OverIsRemembered
  <2> QED BY <2>1, <2>2, <2>3
<1>4. ASSUME NEW l \in Leases
      PROVE  CancelledIffOver(l)'
  <2>1. OwnerOf[l] \in Owners
    BY LeaseAssumption
  <2>2. session[l] \in SessionObjects
    BY DEF IInv, TypeOK
  <2>3. CASE l \in ls /\ Held(l)
    <3>1. sessions'[OwnerOf[l]] = NoLease /\ session'[l] = Stopped(session[l])
      BY <2>1, <2>3 DEF Held
    <3>2. NoLease # l
      BY LeaseAssumption
    <3> QED BY <2>2, <3>1, <3>2, StoppedTyped DEF IInv, CancelledIffOver, Held
  <2>4. CASE l \notin ls \/ ~Held(l)
    <3>1. session'[l] = session[l]
      BY <2>4
    <3>2. Held(l)' <=> Held(l)
      BY <2>1, <2>4, LeaseAssumption DEF Held
    <3> QED BY <3>1, <3>2 DEF IInv, CancelledIffOver
  <2> QED BY <2>3, <2>4
<1> QED BY <1>1, <1>2, <1>3, <1>4 DEF IInv

\* The browser's own steps.
LEMMA BrowserKeeps ==
  ASSUME IInv, NEW l \in Leases, start_preview(l) \/ release(l)
  PROVE  IInv'
<1>1. /\ UNCHANGED <<sessions, closed, closedAge, session, thread, exiting, ended>>
      /\ client' \in [Leases -> Clients]
      /\ \A i \in Leases \ {l} : client'[i] = client[i]
      /\ client'[l].state # "idle"
      /\ l \in ended => client'[l].opened = client[l].opened
  <2>1. CASE start_preview(l)
    <3>1. l \notin ended
      BY <2>1 DEF IInv, OverIsRemembered, start_preview
    <3> DEFINE c == [state |-> "open", opened |-> 0, left |-> 0]
    <3>2. c \in Clients /\ c.state = "open"
      BY TimeAssumption DEF Clients
    <3>3. client' = [client EXCEPT ![l] = c]
      BY <2>1 DEF start_preview
    <3> HIDE DEF c
    <3> QED BY <2>1, <3>1, <3>2, <3>3 DEF start_preview, IInv, TypeOK
  <2>2. CASE release(l)
    <3>1. client[l] \in Clients
      BY DEF IInv, TypeOK
    <3> DEFINE c == [client[l] EXCEPT !.state = "left", !.left = 0]
    <3>2. 0 \in 0 .. MaxDelay + 1
      BY TimeAssumption
    <3>3. c \in Clients /\ c.state = "left" /\ c.opened = client[l].opened
      BY <3>1, <3>2 DEF Clients
    <3>4. client' = [client EXCEPT ![l] = c]
      BY <2>2 DEF release, IInv, TypeOK
    <3> HIDE DEF c
    <3> QED BY <2>2, <3>3, <3>4 DEF release, IInv, TypeOK
  <2> QED BY <2>1, <2>2
<1>2. TypeOK' /\ HoldsOwn'
  BY <1>1 DEF IInv, TypeOK, HoldsOwn
<1>3. ASSUME NEW i \in Leases
      PROVE  OverIsRemembered(i)'
  <2>1. CASE i = l
    BY <1>1, <2>1 DEF IInv, OverIsRemembered
  <2>2. CASE i # l
    BY <1>1, <2>2 DEF IInv, OverIsRemembered
  <2> QED BY <2>1, <2>2
<1>4. \A i \in Leases : CancelledIffOver(i)'
  BY <1>1 DEF IInv, CancelledIffOver, Held
<1> QED BY <1>2, <1>3, <1>4 DEF IInv

\* A start that may still arrive for a lease not closed is of a lease that is
\* not over: this is what closed leases are remembered for.
LEMMA StartIsFirst ==
  ASSUME IInv, NEW l \in Leases, start(l)
  PROVE  l \notin ended /\ l \notin closed /\ client[l].state # "idle"
BY DEF IInv, OverIsRemembered, start, StartPending

\* A start ends the lease it replaces and takes its own.
LEMMA StartKeeps ==
  ASSUME IInv, NEW l \in Leases, start(l)
  PROVE  IInv'
<1> DEFINE o        == OwnerOf[l]
           previous == {sessions[o]} \ {NoLease}
<1>1. o \in Owners /\ l # NoLease
  BY LeaseAssumption
<1>2. /\ l \notin closed /\ ~Held(l) /\ l \notin ended /\ client[l].state # "idle"
      /\ closed' = closed \union previous
      /\ closedAge' = [i \in Leases |-> IF i \in previous THEN 0 ELSE closedAge[i]]
      /\ session' = [i \in Leases |-> IF i = l THEN NewSession
                                       ELSE IF i \in previous THEN Stopped(session[i]) ELSE session[i]]
      /\ ended' = ended \union previous
      /\ sessions' = [sessions EXCEPT ![o] = l]
      /\ client' = client /\ exiting' = exiting
  BY StartIsFirst DEF start
<1>3. PICK n \in 1 .. MaxCommands :
        thread' = [thread EXCEPT ![l] = [pc |-> "queued", commands |-> n, root |-> FALSE]]
  BY DEF start
<1>4. /\ previous \subseteq Leases
      /\ \A i \in previous : Held(i) /\ OwnerOf[i] = o /\ client[i].state # "idle" /\ i # l
  <2>1. CASE sessions[o] = NoLease
    BY <2>1
  <2>2. CASE sessions[o] # NoLease
    <3>1. sessions[o] \in Leases /\ Held(sessions[o]) /\ OwnerOf[sessions[o]] = o
      BY <1>1, <2>2, HeldBy
    <3>2. client[sessions[o]].state # "idle"
      BY <1>1, <2>2 DEF IInv, HoldsOwn
    <3> QED BY <1>2, <3>1, <3>2
  <2> QED BY <2>1, <2>2
<1> HIDE DEF previous
<1>5. TypeOK'
  <2>1. NewSession \in SessionObjects
    BY TimeAssumption DEF NewSession, SessionObjects
  <2>2. session' \in [Leases -> SessionObjects]
    BY <1>2, <2>1, StoppedTyped DEF IInv, TypeOK
  <2>3. [pc |-> "queued", commands |-> n, root |-> FALSE] \in Threads
    BY <1>3, CommandAssumption DEF Threads
  <2>4. thread' \in [Leases -> Threads]
    BY <1>3, <2>3 DEF IInv, TypeOK
  <2>5. closedAge' \in [Leases -> 0 .. Retention]
    BY <1>2, TimeAssumption DEF IInv, TypeOK
  <2> QED BY <1>1, <1>2, <1>4, <2>2, <2>4, <2>5 DEF IInv, TypeOK
<1>6. HoldsOwn'
  <2>1. ASSUME NEW p \in Owners, sessions'[p] # NoLease
        PROVE  /\ OwnerOf[sessions'[p]] = p /\ client'[sessions'[p]].state # "idle"
               /\ sessions'[p] \notin ended'
    <3>1. CASE p = o
      <4>1. sessions'[p] = l
        BY <1>1, <1>2, <3>1 DEF IInv, TypeOK
      <4> QED BY <1>2, <1>4, <3>1, <4>1
    <3>2. CASE p # o
      <4>1. sessions'[p] = sessions[p]
        BY <1>2, <3>2 DEF IInv, TypeOK
      <4>2. OwnerOf[sessions[p]] = p /\ client[sessions[p]].state # "idle" /\ sessions[p] \notin ended
        BY <2>1, <4>1 DEF IInv, HoldsOwn
      <4>3. sessions[p] \notin previous
        BY <1>4, <3>2, <4>2
      <4> QED BY <1>2, <4>1, <4>2, <4>3
    <3> QED BY <3>1, <3>2
  <2> QED BY <2>1 DEF HoldsOwn
<1>7. ASSUME NEW i \in Leases
      PROVE  OverIsRemembered(i)'
  <2>1. CASE i \in previous
    BY <1>2, <1>4, <2>1 DEF IInv, TypeOK, Clients, OverIsRemembered
  <2>2. CASE i \notin previous
    BY <1>2, <2>2 DEF IInv, OverIsRemembered
  <2> QED BY <2>1, <2>2
<1>8. ASSUME NEW i \in Leases
      PROVE  CancelledIffOver(i)'
  <2>1. session[i] \in SessionObjects
    BY DEF IInv, TypeOK
  <2>2. CASE i = l
    <3>1. /\ session'[i] = NewSession /\ sessions'[OwnerOf[i]] = l
          /\ thread'[i].pc = "queued"
      BY <1>1, <1>2, <1>3, <2>2 DEF IInv, TypeOK
    <3> QED BY <2>2, <3>1 DEF CancelledIffOver, Held, NewSession
  <2>3. CASE i \in previous
    <3>1. session'[i] = Stopped(session[i]) /\ sessions'[OwnerOf[i]] = l /\ thread'[i] = thread[i]
      BY <1>1, <1>2, <1>3, <1>4, <2>3 DEF IInv, TypeOK
    <3> QED BY <1>4, <2>1, <2>3, <3>1, StoppedTyped DEF IInv, CancelledIffOver, Held
  <2>4. CASE i # l /\ i \notin previous
    <3>1. session'[i] = session[i] /\ thread'[i] = thread[i]
      BY <1>2, <1>3, <2>4 DEF IInv, TypeOK
    <3>2. OwnerOf[i] \in Owners
      BY LeaseAssumption
    <3>3. Held(i)' <=> Held(i)
      <4>1. CASE OwnerOf[i] = o
        <5>1. sessions'[OwnerOf[i]] = l
          BY <1>1, <1>2, <4>1 DEF IInv, TypeOK
        <5>2. sessions[o] # i
          BY <2>4, LeaseAssumption DEF previous
        <5> QED BY <2>4, <4>1, <5>1, <5>2 DEF Held
      <4>2. CASE OwnerOf[i] # o
        BY <1>2, <3>2, <4>2 DEF IInv, TypeOK, Held
      <4> QED BY <4>1, <4>2
    <3> QED BY <3>1, <3>3 DEF IInv, CancelledIffOver
  <2> QED BY <2>2, <2>3, <2>4
<1> QED BY <1>5, <1>6, <1>7, <1>8 DEF IInv

\* A status request leaves the flag alone and makes nothing ready.
LEMMA StatusKeeps ==
  ASSUME IInv, NEW l \in Leases, status(l) \/ ProcessExits(l)
  PROVE  IInv'
<1>1. session[l] \in SessionObjects /\ thread[l] \in Threads
  BY DEF IInv, TypeOK
<1>2. /\ UNCHANGED <<client, sessions, closed, closedAge, exiting, ended>>
      /\ thread' = [thread EXCEPT ![l] = thread[l]]
  BY DEF status, ProcessExits, IInv, TypeOK
<1>3. PICK s \in SessionObjects :
        /\ session' = [session EXCEPT ![l] = s]
        /\ s.cancel = session[l].cancel
        /\ s.process = session[l].process \/ s.process = "dead"
        /\ s.status = session[l].status \/ s.status = "failed"
  <2>1. CASE status(l)
    <3>1. PICK heartbeat \in BOOLEAN :
            session' = [session EXCEPT ![l] =
                     Observed(IF heartbeat THEN [session[l] EXCEPT !.touched = 0] ELSE session[l])]
      BY <2>1 DEF status
    <3> DEFINE s == IF heartbeat THEN [session[l] EXCEPT !.touched = 0] ELSE session[l]
    <3>2. /\ s \in SessionObjects /\ s.cancel = session[l].cancel
          /\ s.process = session[l].process /\ s.status = session[l].status
      BY <1>1, TimeAssumption DEF SessionObjects
    <3>3. session' = [session EXCEPT ![l] = Observed(s)]
      BY <3>1
    <3> HIDE DEF s
    <3>4. /\ Observed(s) \in SessionObjects /\ Observed(s).cancel = s.cancel
          /\ Observed(s).process = s.process
          /\ Observed(s).status = s.status \/ Observed(s).status = "failed"
      BY <3>2 DEF Observed, SessionObjects
    <3> QED BY <3>2, <3>3, <3>4
  <2>2. CASE ProcessExits(l)
    <3> DEFINE s == [session[l] EXCEPT !.process = "dead"]
    <3>1. /\ s \in SessionObjects /\ s.cancel = session[l].cancel
          /\ s.process = "dead" /\ s.status = session[l].status
      BY <1>1 DEF SessionObjects
    <3>2. session' = [session EXCEPT ![l] = s]
      BY <2>2 DEF ProcessExits, IInv, TypeOK
    <3> HIDE DEF s
    <3> QED BY <3>1, <3>2
  <2> QED BY <2>1, <2>2
<1>4. /\ ~Held(l) => session[l].process # "alive" /\ session[l].status # "ready"
      /\ thread[l].pc = "setup" => thread[l].commands > 0
  BY DEF IInv, CancelledIffOver
<1>5. ~Held(l) => s.process # "alive" /\ s.status # "ready"
  BY <1>3, <1>4
<1> QED BY <1>1, <1>2, <1>3, <1>4, <1>5, ThreadStep

\* A stop, the sweep and the shutdown end leases.
LEMMA EndsAre ==
  ASSUME IInv, (\E l \in Leases : stop(l)) \/ sweep \/ shutdown
  PROVE  /\ IInv'
         /\ \E ls \in SUBSET Leases : Lease!End(ls)
<1>1. ASSUME NEW l \in Leases, stop(l)
      PROVE  IInv' /\ Lease!End({l})
  <2>1. /\ closed' = (closed \union {l}) \ {}
        /\ closedAge' = [i \in Leases |-> IF i \in {l} THEN 0 ELSE closedAge[i]]
        /\ session' = [i \in Leases |-> IF i \in {l} /\ Held(i) THEN Stopped(session[i]) ELSE session[i]]
        /\ ended' = ended \union {l}
        /\ client' = client /\ thread' = thread /\ exiting' = exiting
        /\ client[l].state # "idle"
    BY <1>1 DEF stop, StopAll, StopPending
  <2>2. sessions' = [o \in Owners |-> IF sessions[o] \in {l} THEN NoLease ELSE sessions[o]]
    <3>1. \A o \in Owners : sessions[o] = l => o = OwnerOf[l]
      BY LeaseAssumption DEF IInv, HoldsOwn
    <3>2. CASE Held(l)
      BY <1>1, <3>1, <3>2 DEF stop, Held, IInv, TypeOK
    <3>3. CASE ~Held(l)
      <4>1. sessions' = sessions /\ \A o \in Owners : sessions[o] # l
        BY <1>1, <3>1, <3>3 DEF stop, Held
      <4> QED BY <4>1 DEF IInv, TypeOK
    <3> QED BY <3>2, <3>3
  <2>3. /\ closedAge' \in [Leases -> 0 .. Retention]
        /\ \A i \in {l} : closedAge'[i] = 0
        /\ \A i \in Leases \ ({l} \union {}) : closedAge'[i] = closedAge[i]
        /\ exiting' \in BOOLEAN
        /\ {l} \in SUBSET Leases /\ {} \in SUBSET Leases
    BY <2>1, TimeAssumption DEF IInv, TypeOK
  <2>4. \A i \in {l} : client[i].state # "idle"
    BY <2>1
  <2>5. IInv'
    BY <2>1, <2>2, <2>3, <2>4, EndStep
  <2> QED BY <2>1, <2>2, <2>5 DEF Lease!End
<1>2. ASSUME sweep
      PROVE  IInv' /\ \E ls \in SUBSET Leases : Lease!End(ls)
  <2> DEFINE idle      == {l \in Leases : Held(l) /\ session[l].touched > ttl}
             forgotten == {l \in closed \ idle : closedAge[l] >= Retention}
  <2>1. /\ closed' = (closed \union idle) \ forgotten
        /\ closedAge' = [l \in Leases |-> IF l \in idle \union forgotten THEN 0 ELSE closedAge[l]]
        /\ session' = [l \in Leases |-> IF l \in idle THEN Stopped(session[l]) ELSE session[l]]
        /\ ended' = ended \union idle
        /\ sessions' = [o \in Owners |-> IF sessions[o] \in idle THEN NoLease ELSE sessions[o]]
        /\ client' = client /\ thread' = thread /\ exiting' = exiting
    BY <1>2 DEF sweep
  <2>2. idle \in SUBSET Leases /\ \A l \in idle : Held(l) /\ client[l].state # "idle"
    BY LeaseAssumption DEF IInv, HoldsOwn, Held
  <2>3. forgotten \in SUBSET Leases /\ \A l \in forgotten : l \notin idle
    BY DEF IInv, TypeOK
  <2>4. ASSUME NEW l \in forgotten, l \in ended
        PROVE  client[l].opened > MaxDelay
    <3>1. closedAge[l] >= Retention /\ closedAge[l] \in Int /\ client[l].opened \in Int
      BY <2>3 DEF IInv, TypeOK, Clients
    <3>2. client[l].opened <= MaxDelay => closedAge[l] <= client[l].opened
      BY <2>3, <2>4 DEF IInv, OverIsRemembered
    <3> QED BY <3>1, <3>2, TimeAssumption
  <2>5. session' = [l \in Leases |-> IF l \in idle /\ Held(l) THEN Stopped(session[l]) ELSE session[l]]
    BY <2>1
  <2> HIDE DEF idle, forgotten
  <2>6. /\ closedAge' \in [Leases -> 0 .. Retention]
        /\ \A l \in idle : closedAge'[l] = 0
        /\ \A l \in Leases \ (idle \union forgotten) : closedAge'[l] = closedAge[l]
        /\ exiting' \in BOOLEAN
    BY <2>1, <2>2, TimeAssumption DEF IInv, TypeOK
  <2>7. IInv'
    BY <2>1, <2>2, <2>3, <2>4, <2>5, <2>6, EndStep
  <2>8. Lease!End(idle)
    BY <2>1 DEF Lease!End
  <2> QED BY <2>2, <2>7, <2>8
<1>3. ASSUME shutdown
      PROVE  IInv' /\ \E ls \in SUBSET Leases : Lease!End(ls)
  <2> DEFINE ls == {l \in Leases : Held(l)}
  <2>1. /\ closed' = (closed \union ls) \ {}
        /\ closedAge' = [l \in Leases |-> IF l \in ls THEN 0 ELSE closedAge[l]]
        /\ session' = [l \in Leases |-> IF l \in ls /\ Held(l) THEN Stopped(session[l]) ELSE session[l]]
        /\ ended' = ended \union ls
        /\ client' = client /\ thread' = thread /\ exiting' \in BOOLEAN
        /\ sessions' = [o \in Owners |-> NoLease]
    BY <1>3 DEF shutdown, StopAll
  <2>2. ls \in SUBSET Leases /\ \A l \in ls : client[l].state # "idle"
    BY LeaseAssumption DEF IInv, HoldsOwn, Held
  <2>3. \A o \in Owners : sessions[o] # NoLease => sessions[o] \in ls
    BY HeldBy
  <2> HIDE DEF ls
  <2>4. sessions' = [o \in Owners |-> IF sessions[o] \in ls THEN NoLease ELSE sessions[o]]
    BY <2>1, <2>3
  <2>5. /\ closedAge' \in [Leases -> 0 .. Retention]
        /\ \A l \in ls : closedAge'[l] = 0
        /\ \A l \in Leases \ (ls \union {}) : closedAge'[l] = closedAge[l]
        /\ {} \in SUBSET Leases
    BY <2>1, <2>2, TimeAssumption DEF IInv, TypeOK
  <2>6. IInv'
    BY <2>1, <2>2, <2>4, <2>5, EndStep
  <2>7. Lease!End(ls)
    BY <2>1, <2>4 DEF Lease!End
  <2> QED BY <2>2, <2>6, <2>7
<1>4. ASSUME NEW l \in Leases, stop(l)
      PROVE  \E ls \in SUBSET Leases : Lease!End(ls)
  <2>1. Lease!End({l}) /\ {l} \in SUBSET Leases
    BY <1>1, <1>4
  <2> QED BY <2>1
<1> QED BY <1>1, <1>2, <1>3, <1>4

\* Time passes: a closed lease ages no faster than its opening.
LEMMA TickKeeps ==
  ASSUME IInv, Tick
  PROVE  IInv'
<1>1. /\ UNCHANGED <<sessions, closed, thread, exiting, ended>>
      /\ client' = [l \in Leases |->
           [ client[l] EXCEPT
               !.opened = IF client[l].state = "idle" THEN 0 ELSE Older(@, MaxDelay + 1),
               !.left   = IF client[l].state # "left" THEN 0 ELSE Older(@, MaxDelay + 1) ]]
      /\ closedAge' = [l \in Leases |-> IF l \in closed THEN Older(closedAge[l], Retention) ELSE 0]
      /\ session' = [l \in Leases |-> [session[l] EXCEPT
                       !.touched = IF Held(l) THEN Older(@, ttl + 1) ELSE @]]
  BY DEF Tick
<1>2. /\ \A age \in 0 .. MaxDelay + 1 : Older(age, MaxDelay + 1) \in 0 .. MaxDelay + 1
      /\ \A age \in 0 .. ttl + 1 : Older(age, ttl + 1) \in 0 .. ttl + 1
      /\ \A age \in 0 .. Retention :
           Older(age, Retention) \in 0 .. Retention /\ Older(age, Retention) <= age + 1
      /\ \A age \in 0 .. MaxDelay + 1 :
           IF age <= MaxDelay THEN Older(age, MaxDelay + 1) = age + 1
           ELSE Older(age, MaxDelay + 1) = age
      /\ 0 \in 0 .. MaxDelay + 1 /\ 0 \in 0 .. Retention
  BY TimeAssumption DEF Older
<1>3. ASSUME NEW l \in Leases
      PROVE  /\ client'[l] \in Clients /\ client'[l].state = client[l].state
             /\ client[l].state # "idle" => client'[l].opened = Older(client[l].opened, MaxDelay + 1)
  <2>1. client[l] \in Clients
    BY DEF IInv, TypeOK
  <2>2. /\ Older(client[l].opened, MaxDelay + 1) \in 0 .. MaxDelay + 1
        /\ Older(client[l].left, MaxDelay + 1) \in 0 .. MaxDelay + 1
    BY <1>2, <2>1 DEF Clients
  <2>3. client'[l] =
          [ client[l] EXCEPT
              !.opened = IF client[l].state = "idle" THEN 0 ELSE Older(client[l].opened, MaxDelay + 1),
              !.left   = IF client[l].state # "left" THEN 0 ELSE Older(client[l].left, MaxDelay + 1) ]
    BY <1>1
  <2> QED BY <1>2, <2>1, <2>2, <2>3 DEF Clients
<1>4. ASSUME NEW l \in Leases
      PROVE  /\ session'[l] \in SessionObjects
             /\ session'[l].cancel = session[l].cancel /\ session'[l].status = session[l].status
             /\ session'[l].process = session[l].process
  <2>1. session[l] \in SessionObjects
    BY DEF IInv, TypeOK
  <2>2. Older(session[l].touched, ttl + 1) \in 0 .. ttl + 1
    BY <1>2, <2>1 DEF SessionObjects
  <2>3. session'[l] = [session[l] EXCEPT
                         !.touched = IF Held(l) THEN Older(session[l].touched, ttl + 1)
                                     ELSE session[l].touched]
    BY <1>1
  <2> QED BY <2>1, <2>2, <2>3 DEF SessionObjects
<1>5. \A l \in Leases : closedAge'[l] \in 0 .. Retention /\
        (l \in closed => closedAge'[l] <= closedAge[l] + 1)
  BY <1>1, <1>2 DEF IInv, TypeOK
<1>6. TypeOK'
  <2>1. client' \in [Leases -> Clients]
    BY <1>1, <1>3
  <2>2. session' \in [Leases -> SessionObjects]
    BY <1>1, <1>4
  <2>3. closedAge' \in [Leases -> 0 .. Retention]
    BY <1>1, <1>5
  <2> QED BY <1>1, <2>1, <2>2, <2>3 DEF IInv, TypeOK
<1>7. HoldsOwn'
  <2>1. ASSUME NEW o \in Owners, sessions[o] # NoLease
        PROVE  /\ OwnerOf[sessions[o]] = o /\ sessions[o] \notin ended
               /\ client'[sessions[o]].state # "idle"
    <3>1. sessions[o] \in Leases
      BY <2>1 DEF IInv, TypeOK
    <3>2. client'[sessions[o]].state = client[sessions[o]].state
      BY <1>3, <3>1
    <3> QED BY <2>1, <3>2 DEF IInv, HoldsOwn
  <2>2. sessions' = sessions /\ ended' = ended
    BY <1>1
  <2> QED BY <2>1, <2>2 DEF HoldsOwn
<1>8. ASSUME NEW l \in Leases
      PROVE  OverIsRemembered(l)'
  <2>1. client[l].opened \in 0 .. MaxDelay + 1 /\ closedAge[l] \in 0 .. Retention
    BY DEF IInv, TypeOK, Clients
  <2>2. CASE l \in ended
    <3>1. /\ client[l].state # "idle"
          /\ client[l].opened <= MaxDelay => l \in closed /\ closedAge[l] <= client[l].opened
      BY <2>2 DEF IInv, OverIsRemembered
    <3>2. client'[l].opened = Older(client[l].opened, MaxDelay + 1) /\ client'[l].state # "idle"
      BY <1>3, <3>1
    <3>3. /\ client'[l].opened >= client[l].opened
          /\ client[l].opened <= MaxDelay => client'[l].opened = client[l].opened + 1
          /\ client'[l].opened \in Int
      BY <1>2, <2>1, <3>2, TimeAssumption
    <3>4. closedAge'[l] \in Int /\ (l \in closed => closedAge'[l] <= closedAge[l] + 1)
      BY <1>5
    <3>5. closed' = closed
      BY <1>1
    <3> DEFINE before == client[l].opened
               after  == client'[l].opened
               aged   == closedAge'[l]
    <3>6. before \in Int /\ closedAge[l] \in Int /\ MaxDelay \in Int
      BY <2>1, TimeAssumption
    <3> HIDE DEF before, after, aged
    <3>7. after <= MaxDelay => l \in closed' /\ aged <= after
      BY <3>1, <3>3, <3>4, <3>5, <3>6 DEF before, after, aged
    <3> QED BY <3>2, <3>7 DEF OverIsRemembered, after, aged
  <2>3. CASE l \notin ended
    BY <1>1, <2>3 DEF OverIsRemembered
  <2> QED BY <2>2, <2>3
<1>9. \A l \in Leases : CancelledIffOver(l)'
  BY <1>1, <1>4 DEF IInv, CancelledIffOver, Held
<1> QED BY <1>6, <1>7, <1>8, <1>9 DEF IInv

\* A thread's own steps: whatever they start is behind a look at the flag.
LEMMA RunKeeps ==
  ASSUME IInv, NEW l \in Leases, run(l)
  PROVE  IInv'
<1> DEFINE old == session[l]
           at  == thread[l]
<1>1. /\ old \in SessionObjects /\ at \in Threads
      /\ old = session[l] /\ at = thread[l]
      /\ at.pc # "none"
      /\ at.pc = "setup" => at.commands > 0
      /\ ~Held(l) => old.cancel /\ old.process # "alive" /\ old.status # "ready"
      /\ session = [session EXCEPT ![l] = old]
  BY DEF IInv, TypeOK, CancelledIffOver, run, Assemble, Stage, spawn, SetupEnds, SetupTimesOut,
         Listen, Ready, Serve, Fail, Cleanup
<1>2. UNCHANGED <<client, sessions, closed, closedAge, exiting, ended>>
  BY DEF run, Assemble, Stage, spawn, SetupEnds, SetupTimesOut, Listen, Ready, Serve, Fail, Cleanup
<1> HIDE DEF old, at
\* Where the thread goes.
<1>3. ASSUME NEW pc \in {"stage", "spawn", "setup", "listen", "started", "serving", "raised", "cleanup"},
             pc = "setup" => at.commands > 0, Goto(l, pc)
      PROVE  \E t \in Threads : /\ thread' = [thread EXCEPT ![l] = t]
                                /\ t.pc # "none" /\ (t.pc = "setup" => t.commands > 0)
  <2> DEFINE t == [at EXCEPT !.pc = pc]
  <2>1. t \in Threads /\ t.pc = pc /\ t.commands = at.commands
    BY <1>1 DEF Threads
  <2>2. thread' = [thread EXCEPT ![l] = t]
    BY <1>1, <1>3 DEF Goto, IInv, TypeOK
  <2> HIDE DEF t
  <2> QED BY <1>3, <2>1, <2>2
\* What becomes of the session.
<1>4. ASSUME NEW s \in SessionObjects, session' = [session EXCEPT ![l] = s], s.cancel = old.cancel,
             ~Held(l) => s.process # "alive" /\ s.status # "ready",
             \E t \in Threads : /\ thread' = [thread EXCEPT ![l] = t]
                                /\ t.pc # "none" /\ (t.pc = "setup" => t.commands > 0)
      PROVE  IInv'
  BY <1>1, <1>2, <1>4, ThreadStep
<1>5. ASSUME session' = session,
             \E t \in Threads : /\ thread' = [thread EXCEPT ![l] = t]
                                /\ t.pc # "none" /\ (t.pc = "setup" => t.commands > 0)
      PROVE  IInv'
  BY <1>1, <1>4, <1>5
<1>6. \A p \in {"none", "alive", "dead"} :
        LET s == [old EXCEPT !.process = p]
        IN  s \in SessionObjects /\ s.cancel = old.cancel /\ s.status = old.status /\ s.process = p
  BY <1>1 DEF SessionObjects
<1>7. \A v \in {"ready", "failed"} :
        LET s == [old EXCEPT !.status = v]
        IN  s \in SessionObjects /\ s.cancel = old.cancel /\ s.status = v /\ s.process = old.process
  BY <1>1 DEF SessionObjects
<1>8. CASE Assemble(l)
  <2>1. CASE Goto(l, "cleanup")
    BY <1>3, <1>5, <1>8, <2>1 DEF Assemble
  <2>2. CASE \E pc \in {"stage", "raised"}, root \in BOOLEAN :
               thread' = [thread EXCEPT ![l].pc = pc, ![l].root = root]
    <3>1. PICK pc \in {"stage", "raised"}, root \in BOOLEAN :
            thread' = [thread EXCEPT ![l].pc = pc, ![l].root = root]
      BY <2>2
    <3> DEFINE t == [at EXCEPT !.pc = pc, !.root = root]
    <3>2. t \in Threads /\ t.pc = pc
      BY <1>1 DEF Threads
    <3>3. thread' = [thread EXCEPT ![l] = t]
      BY <1>1, <3>1 DEF IInv, TypeOK
    <3> HIDE DEF t
    <3>4. session' = session
      BY <1>8 DEF Assemble
    <3> QED BY <1>5, <3>2, <3>3, <3>4
  <2> QED BY <1>8, <2>1, <2>2 DEF Assemble
<1>9. CASE Stage(l)
  BY <1>3, <1>5, <1>9 DEF Stage
<1>10. CASE spawn(l)
  <2>1. CASE old.cancel
    BY <1>1, <1>3, <1>5, <1>10, <2>1 DEF spawn
  <2>2. CASE ~old.cancel /\ session' = session
    BY <1>1, <1>3, <1>5, <1>10, <2>2 DEF spawn
  <2>3. CASE ~old.cancel /\ session' # session
    <3>1. /\ session' = [session EXCEPT ![l].process = "alive"]
          /\ Goto(l, IF at.commands > 0 THEN "setup" ELSE "listen")
      BY <1>1, <1>10, <2>3 DEF spawn
    <3> DEFINE s == [old EXCEPT !.process = "alive"]
    <3>2. session' = [session EXCEPT ![l] = s]
      BY <1>1, <3>1 DEF IInv, TypeOK
    <3>3. s \in SessionObjects /\ s.cancel = old.cancel
      BY <1>6
    <3>4. Held(l)
      BY <1>1, <2>3
    <3> HIDE DEF s
    <3>5. \E t \in Threads : /\ thread' = [thread EXCEPT ![l] = t]
                             /\ t.pc # "none" /\ (t.pc = "setup" => t.commands > 0)
      BY <1>3, <3>1
    <3> QED BY <1>4, <3>2, <3>3, <3>4, <3>5
  <2> QED BY <2>1, <2>2, <2>3
<1>11. CASE SetupEnds(l)
  <2>1. CASE Goto(l, "cleanup") \/ Goto(l, "raised")
    BY <1>3, <1>5, <1>11, <2>1 DEF SetupEnds
  <2>2. CASE thread' = [thread EXCEPT ![l].pc = "stage", ![l].commands = @ - 1]
    <3> DEFINE t == [at EXCEPT !.pc = "stage", !.commands = at.commands - 1]
    <3>1. at.commands \in 0 .. MaxCommands /\ at.commands > 0
      BY <1>1, <1>11 DEF Threads, SetupEnds
    <3>2. at.commands - 1 \in 0 .. MaxCommands
      BY <3>1, CommandAssumption
    <3>3. t \in Threads /\ t.pc = "stage"
      BY <1>1, <3>2 DEF Threads
    <3>4. thread' = [thread EXCEPT ![l] = t]
      BY <1>1, <2>2 DEF IInv, TypeOK
    <3> HIDE DEF t
    <3>5. session' = session
      BY <1>11 DEF SetupEnds
    <3> QED BY <1>5, <3>3, <3>4, <3>5
  <2> QED BY <1>11, <2>1, <2>2 DEF SetupEnds
\* Kills.
<1>12. ASSUME session' = [session EXCEPT ![l].process = Killed(@)],
              \E t \in Threads : /\ thread' = [thread EXCEPT ![l] = t]
                                 /\ t.pc # "none" /\ (t.pc = "setup" => t.commands > 0)
       PROVE  IInv'
  <2> DEFINE s == [old EXCEPT !.process = Killed(old.process)]
  <2>1. Killed(old.process) \in {"none", "dead"}
    BY <1>1, KilledTyped DEF SessionObjects
  <2>2. /\ s \in SessionObjects /\ s.cancel = old.cancel /\ s.status = old.status
        /\ s.process # "alive"
    BY <1>6, <2>1
  <2>3. session' = [session EXCEPT ![l] = s]
    BY <1>1, <1>12 DEF IInv, TypeOK
  <2> HIDE DEF s
  <2> QED BY <1>1, <1>4, <1>12, <2>2, <2>3
<1>13. CASE SetupTimesOut(l)
  BY <1>3, <1>12, <1>13 DEF SetupTimesOut
<1>14. CASE Listen(l)
  BY <1>3, <1>5, <1>14 DEF Listen
<1>15. CASE Ready(l)
  <2>1. CASE old.cancel
    BY <1>1, <1>3, <1>5, <1>15, <2>1 DEF Ready
  <2>2. CASE ~old.cancel
    <3> DEFINE s == [old EXCEPT !.status = "ready"]
    <3>1. session' = [session EXCEPT ![l].status = "ready"] /\ Goto(l, "serving")
      BY <1>1, <1>15, <2>2 DEF Ready
    <3>2. session' = [session EXCEPT ![l] = s]
      BY <1>1, <3>1 DEF IInv, TypeOK
    <3>3. s \in SessionObjects /\ s.cancel = old.cancel
      BY <1>7
    <3>4. Held(l)
      BY <1>1, <2>2
    <3> HIDE DEF s
    <3> QED BY <1>3, <1>4, <3>1, <3>2, <3>3, <3>4
  <2> QED BY <2>1, <2>2
<1>16. CASE Serve(l)
  BY <1>3, <1>5, <1>16 DEF Serve
<1>17. CASE Fail(l)
  <2> DEFINE s == [old EXCEPT !.status = "failed"]
  <2>1. session' = [session EXCEPT ![l] = s]
    BY <1>1, <1>17 DEF Fail, IInv, TypeOK
  <2>2. s \in SessionObjects /\ s.cancel = old.cancel /\ s.status = "failed" /\ s.process = old.process
    BY <1>7
  <2>3. Goto(l, "cleanup")
    BY <1>17 DEF Fail
  <2> HIDE DEF s
  <2> QED BY <1>1, <1>3, <1>4, <2>1, <2>2, <2>3
<1>18. CASE Cleanup(l)
  <2> DEFINE t == [at EXCEPT !.pc = "ended", !.root = FALSE]
  <2>1. t \in Threads /\ t.pc = "ended"
    BY <1>1 DEF Threads
  <2>2. thread' = [thread EXCEPT ![l] = t]
    BY <1>1, <1>18 DEF Cleanup, IInv, TypeOK
  <2> HIDE DEF t
  <2> QED BY <1>12, <1>18, <2>1, <2>2 DEF Cleanup
<1> QED BY <1>8, <1>9, <1>10, <1>11, <1>13, <1>14, <1>15, <1>16, <1>17, <1>18 DEF run

-----------------------------------------------------------------------------
(* The invariant and what follows from it.                                 *)

\* IInv holds in every state of a behaviour.
LEMMA IInvInvariant == Spec => []IInv
<1>1. Init => IInv
  <2> SUFFICES ASSUME Init PROVE IInv
    OBVIOUS
  <2>1. TypeOK
    <3>1. [state |-> "idle", opened |-> 0, left |-> 0] \in Clients
      BY TimeAssumption DEF Clients
    <3>2. [status |-> "none", cancel |-> FALSE, process |-> "none", touched |-> 0] \in SessionObjects
      BY TimeAssumption DEF SessionObjects
    <3>3. [pc |-> "none", commands |-> 0, root |-> FALSE] \in Threads
      BY CommandAssumption DEF Threads
    <3>4. 0 \in 0 .. Retention
      BY TimeAssumption
    <3> QED BY <3>1, <3>2, <3>3, <3>4 DEF Init, TypeOK
  <2>2. HoldsOwn
    BY DEF Init, HoldsOwn
  <2>3. \A l \in Leases : OverIsRemembered(l) /\ CancelledIffOver(l)
    BY DEF Init, OverIsRemembered, CancelledIffOver
  <2> QED BY <2>1, <2>2, <2>3 DEF IInv
<1>2. IInv /\ [Next]_vars => IInv'
  <2> SUFFICES ASSUME IInv, [Next]_vars PROVE IInv'
    OBVIOUS
  <2>1. ASSUME NEW l \in Leases, Handler(l)
        PROVE  IInv'
    BY <2>1, BrowserKeeps, StartKeeps, StatusKeeps, EndsAre DEF Handler
  <2>2. ASSUME NEW l \in Leases, run(l)
        PROVE  IInv'
    BY <2>2, RunKeeps
  <2>3. ASSUME NEW l \in Leases, ProcessExits(l)
        PROVE  IInv'
    BY <2>3, StatusKeeps
  <2>4. CASE sweep \/ shutdown
    BY <2>4, EndsAre
  <2>5. CASE Tick
    BY <2>5, TickKeeps
  <2>6. CASE UNCHANGED vars
    BY <2>6 DEF vars, IInv, TypeOK, HoldsOwn, OverIsRemembered, CancelledIffOver, Held
  <2> QED BY <2>1, <2>2, <2>3, <2>4, <2>5, <2>6 DEF Next
<1> QED BY <1>1, <1>2, PTL DEF Spec

\* Every variable holds values of its type, for any number of accounts and
\* leases.
THEOREM TypeCorrect == Spec => []TypeOK
<1>1. IInv => TypeOK
  BY DEF IInv
<1> QED BY <1>1, IInvInvariant, PTL

\* Whatever runs, runs for the lease its account holds.
THEOREM WhatRunsIsLeased == Spec => []ProcessesAreLeased
<1>1. IInv => ProcessesAreLeased
  BY DEF IInv, CancelledIffOver, ProcessesAreLeased, Live
<1> QED BY <1>1, IInvInvariant, PTL

\* A session that is ready is held by its account and was not cancelled.
THEOREM WhatIsReadyIsHeld == Spec => []ReadyIsHeld
<1>1. IInv => ReadyIsHeld
  BY DEF IInv, CancelledIffOver, ReadyIsHeld
<1> QED BY <1>1, IInvInvariant, PTL

\* A lease in use is lost only to another start of its account or to the
\* shutdown.
THEOREM LeasesAreKept == Spec => KeptWhileUsed
<1> DEFINE Kept == \A l \in Leases :
             Held(l) /\ client[l].state = "open" /\ session[l].touched <= ttl /\ ~exiting'
               => sessions'[OwnerOf[l]] # NoLease
<1>1. IInv /\ [Next]_vars => [Kept]_vars
  <2> SUFFICES ASSUME IInv, Next, NEW l \in Leases,
                      Held(l), client[l].state = "open", session[l].touched <= ttl, ~exiting'
               PROVE  sessions'[OwnerOf[l]] # NoLease
    OBVIOUS
  <2>1. OwnerOf[l] \in Owners /\ l # NoLease /\ sessions[OwnerOf[l]] = l
    BY LeaseAssumption DEF Held
  <2>2. ASSUME NEW i \in Leases, start(i)
        PROVE  sessions'[OwnerOf[l]] # NoLease
    BY <2>1, <2>2, LeaseAssumption DEF start, IInv, TypeOK
  <2>3. ASSUME NEW i \in Leases, stop(i)
        PROVE  sessions'[OwnerOf[l]] # NoLease
    <3>1. i # l
      BY <2>3 DEF stop, StopPending
    <3>2. CASE Held(i)
      <4>1. OwnerOf[i] # OwnerOf[l]
        BY <2>1, <3>1, <3>2 DEF Held
      <4> QED BY <2>1, <2>3, <4>1 DEF stop, IInv, TypeOK
    <3>3. CASE ~Held(i)
      BY <2>1, <2>3, <3>3 DEF stop
    <3> QED BY <3>2, <3>3
  <2>4. CASE sweep
    <3> DEFINE idle == {i \in Leases : Held(i) /\ session[i].touched > ttl}
    <3>1. l \notin idle
      BY TimeAssumption DEF IInv, TypeOK, SessionObjects
    <3>2. sessions' = [o \in Owners |-> IF sessions[o] \in idle THEN NoLease ELSE sessions[o]]
      BY <2>4 DEF sweep
    <3> HIDE DEF idle
    <3> QED BY <2>1, <3>1, <3>2
  <2>5. CASE shutdown
    BY <2>5 DEF shutdown
  <2>6. CASE sessions' = sessions
    BY <2>1, <2>6
  <2>7. ASSUME NEW i \in Leases,
               start_preview(i) \/ release(i) \/ status(i) \/ run(i) \/ ProcessExits(i)
        PROVE  sessions' = sessions
    BY <2>7 DEF start_preview, release, status, ProcessExits, run, Assemble, Stage, spawn, SetupEnds,
                SetupTimesOut, Listen, Ready, Serve, Fail, Cleanup
  <2>8. CASE Tick
    BY <2>6, <2>8 DEF Tick
  <2> QED BY <2>2, <2>3, <2>4, <2>5, <2>6, <2>7, <2>8 DEF Next, Handler
<1> QED BY <1>1, IInvInvariant, PTL DEF Spec, KeptWhileUsed

-----------------------------------------------------------------------------
(* The refinement.                                                         *)

\* Every step takes a lease that is not over, ends leases, or changes nothing
\* of the leases.
LEMMA StepMaps ==
  ASSUME IInv, [Next]_vars
  PROVE  [Lease!Next]_<<sessions, ended>>
<1>1. ASSUME NEW l \in Leases, start(l)
      PROVE  Lease!Take(l)
  <2>1. l \notin ended
    BY <1>1, StartIsFirst
  <2> QED BY <1>1, <2>1 DEF start, Held, Lease!Take
<1>2. ASSUME NEW l \in Leases, start_preview(l) \/ release(l) \/ status(l)
      PROVE  UNCHANGED <<sessions, ended>>
  BY <1>2 DEF start_preview, release, status
<1>3. ASSUME NEW l \in Leases, stop(l)
      PROVE  \E ls \in SUBSET Leases : Lease!End(ls)
  BY <1>3, EndsAre
<1>4. ASSUME NEW l \in Leases, run(l) \/ ProcessExits(l)
      PROVE  UNCHANGED <<sessions, ended>>
  BY <1>4 DEF run, Assemble, Stage, spawn, SetupEnds, SetupTimesOut, Listen, Ready, Serve, Fail,
              Cleanup, ProcessExits
<1>5. CASE sweep \/ shutdown
  BY <1>5, EndsAre DEF Lease!Next
<1>6. CASE Tick \/ UNCHANGED vars
  BY <1>6 DEF Tick, vars
<1>7. ASSUME NEW l \in Leases, Handler(l)
      PROVE  [Lease!Next]_<<sessions, ended>>
  BY <1>1, <1>2, <1>3, <1>7 DEF Handler, Lease!Next
<1> QED BY <1>4, <1>5, <1>6, <1>7 DEF Next

\* The preview manager implements PreviewLease: no lease that is over is ever
\* held again, however late its start arrives and although closed leases are
\* forgotten.
THEOREM PreviewsImplementLeases == Spec => ImplementsLease
<1>1. Init => Lease!Init
  BY DEF Init, Lease!Init
<1>2. IInv /\ [Next]_vars => [Lease!Next]_<<sessions, ended>>
  BY StepMaps
<1> QED BY <1>1, <1>2, IInvInvariant, PTL DEF Spec, ImplementsLease, Lease!Spec

=============================================================================
