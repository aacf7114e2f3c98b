------------------------- MODULE BackendJobs_proofs -------------------------
(***************************************************************************)
(* Proofs about BackendJobs, for every set of crawls, tabs and requests,   *)
(* every plan and any number of crashes: the quota holds, deleting gives   *)
(* no conversion back, no crawl has two worker jobs, and nothing is        *)
(* stranded unless the backend dies.                                       *)
(***************************************************************************)
EXTENDS BackendJobs, FiniteSetTheorems, SequenceTheorems, TLAPS

(* The inductive invariant.                                                *)

\* Whoever works on a crawl knows which.
ActorsKnown ==
  /\ \A t \in Tabs : tabs[t].pc \in {"adding", "raised"} => tabs[t].crawl \in Crawls
  /\ proc.pc # "idle" <=> proc.crawl \in Crawls
  /\ \A s \in Slots : request[s].pc # "idle" => request[s].crawl \in Crawls

\* A crawl knows a worker job that exists, and only such crawls are asked
\* about, commanded and mirrored.
JobsExist ==
  /\ \A c \in Crawls : made[c] = 1 \/ logRef[c] => worker[c] # "none"
  /\ proc.pc \in {"saving", "polling"} => worker[proc.crawl] # "none"
  /\ proc.pc = "writing" => proc.seen \in Statuses
  /\ \A s \in Slots :
       /\ request[s].pc \in {"asking", "posting", "saving"} => logRef[request[s].crawl]
       /\ request[s].pc = "saving" => request[s].seen \in Statuses

\* One transaction at a time holds the account's row; while it does, nobody
\* else adds to what it counts or takes from it.
CountIsRight ==
  /\ \A t, u \in Holders : t = u
  /\ \A t \in Tabs : In(t, "counting") => tabs[t].logs = audits
  /\ \A t \in Tabs : In(t, "counted") => tabs[t].used = Cardinality(Counted)

\* Nothing refers to an identity that was not given yet.
Fresh ==
  \A c \in Crawls : status[c] = "none" =>
    /\ queue[c] = "none"
    /\ \A t \in Tabs : tabs[t].crawl # c
    /\ proc.crawl # c
    /\ \A s \in Slots : request[s].crawl # c

\* An entry is completed, and may be replaced, only when its crawl was handed
\* over.
HandedOver ==
  /\ \A c \in Crawls : queue[c] = "completed" => logRef[c]
  /\ proc.pc \in {"polling", "writing"} => logRef[proc.crawl]
  /\ \A s \in Slots :
       request[s].pc = "found" /\ request[s].seen = "completed" => logRef[request[s].crawl]

\* A tab reserved the crawl and has not seen yet how adding its entry ended.
Begun(c) == \E t \in Tabs : tabs[t].pc \in {"adding", "raised"} /\ tabs[t].crawl = c

\* What somebody still does for a conversion that was not handed over.
Pursued(c) ==
  \/ logRef[c]
  \/ queue[c] \in {"waiting", "active"}
  \/ queue[c] = "failed" /\ status[c] = "FAILED"
  \/ queue[c] = "none" /\ (Begun(c) \/ status[c] = "FAILED")

\* The entry the queue worker has is active; unless the backend dies there is
\* no other active entry, and nothing is lost sight of.
Tracked ==
  /\ proc.pc # "idle" => queue[proc.crawl] = "active"
  /\ crashes = 0 =>
       /\ \A c \in Crawls : queue[c] = "active" => proc.crawl = c
       /\ \A c \in Live : Pursued(c)

\* The entries that wait are those in the line, each once.
LineSound(q, l) ==
  /\ l \in Seq(Crawls)
  /\ \A c \in Crawls : q[c] = "waiting" <=> \E i \in DOMAIN l : l[i] = c
  /\ \A i, j \in DOMAIN l : l[i] = l[j] => i = j

TabStates ==
  [ pc : {"idle", "locked", "counting", "counted", "adding", "raised", "done"},
    crawl : Crawls \union {NoCrawl}, logs : SUBSET Crawls, used : Nat ]

\* The rest of TypeOK.
Types ==
  /\ status \in [Crawls -> Statuses \union {"none", "gone"}]
  /\ logRef \in [Crawls -> BOOLEAN]
  /\ audits \subseteq Crawls
  /\ queue \in [Crawls -> Entries]
  /\ stalls \in [Crawls -> 0 .. 1]
  /\ made \in [Crawls -> 0 .. 1]
  /\ worker \in [Crawls -> (Statuses \ {"PENDING"}) \union {"none"}]
  /\ tabs \in [Tabs -> TabStates]
  /\ proc \in [ pc : {"idle", "creating", "saving", "polling", "writing", "raised"},
               crawl : Crawls \union {NoCrawl}, seen : Statuses \union {"none"} ]
  /\ request \in [Slots -> Requests]
  /\ crashes \in 0 .. MaxCrashes

IInv ==
  /\ Types /\ LineSound(queue, line)
  /\ ActorsKnown
  /\ JobsExist
  /\ CountIsRight /\ QuotaHeld
  /\ Fresh
  /\ HandedOver
  /\ Tracked

-----------------------------------------------------------------------------
(* The line.                                                               *)

\* An entry that comes to wait may be put at the end of the line ...
LEMMA LineJoins ==
  ASSUME NEW q \in [Crawls -> Entries], NEW l, LineSound(q, l),
         NEW c \in Crawls, q[c] # "waiting"
  PROVE  LineSound([q EXCEPT ![c] = "waiting"], Append(l, c))
<1> DEFINE m == Append(l, c)
<1>1. /\ m \in Seq(Crawls) /\ DOMAIN m = 1 .. Len(l) + 1 /\ DOMAIN l = 1 .. Len(l)
      /\ \A i \in DOMAIN l : m[i] = l[i] /\ l[i] # c
      /\ m[Len(l) + 1] = c /\ Len(l) \in Nat
  BY DEF LineSound
<1> HIDE DEF m
<1> QED BY <1>1 DEF LineSound

\* ... or, when it was found stalled, at its head.
LEMMA LineLeads ==
  ASSUME NEW q \in [Crawls -> Entries], NEW l, LineSound(q, l),
         NEW c \in Crawls, q[c] # "waiting"
  PROVE  LineSound([q EXCEPT ![c] = "waiting"], <<c>> \o l)
<1> DEFINE m == <<c>> \o l
<1>1. /\ m \in Seq(Crawls) /\ DOMAIN m = 1 .. Len(l) + 1 /\ DOMAIN l = 1 .. Len(l)
      /\ \A i \in DOMAIN l : m[i + 1] = l[i] /\ l[i] # c
      /\ m[1] = c /\ Len(l) \in Nat
  BY DEF LineSound
<1>2. \A i \in DOMAIN m : i = 1 \/ (i - 1 \in DOMAIN l /\ m[i] = l[i - 1])
  BY <1>1
<1>3. \A i \in DOMAIN l : i + 1 \in DOMAIN m /\ 1 \in DOMAIN m
  BY <1>1
<1> HIDE DEF m
<1>4. \A d \in Crawls : (d = c \/ \E i \in DOMAIN l : l[i] = d) <=> \E i \in DOMAIN m : m[i] = d
  BY <1>1, <1>2, <1>3
<1>5. \A i, j \in DOMAIN m : m[i] = m[j] => i = j
  BY <1>1, <1>2 DEF LineSound
<1> DEFINE r == [q EXCEPT ![c] = "waiting"]
<1>6. \A d \in Crawls : r[d] = "waiting" <=> (d = c \/ q[d] = "waiting")
  OBVIOUS
<1> HIDE DEF r
<1>7. LineSound(r, m)
  BY <1>1, <1>4, <1>5, <1>6 DEF LineSound
<1> QED BY <1>7 DEF r, m

\* The entry at the head of the line waits; once it is taken it does not.
LEMMA LineAdvances ==
  ASSUME NEW q \in [Crawls -> Entries], NEW l, LineSound(q, l), l # <<>>, NEW e, e # "waiting"
  PROVE  /\ Head(l) \in Crawls /\ q[Head(l)] = "waiting"
         /\ LineSound([q EXCEPT ![Head(l)] = e], Tail(l))
<1> DEFINE m == Tail(l)
           c == Head(l)
<1>1. /\ m \in Seq(Crawls) /\ DOMAIN l = 1 .. Len(l) /\ DOMAIN m = 1 .. Len(l) - 1
      /\ \A i \in DOMAIN m : m[i] = l[i + 1]
      /\ c = l[1] /\ c \in Crawls /\ Len(l) \in Nat \ {0}
  BY DEF LineSound
<1>2. \A i \in DOMAIN l : i = 1 \/ (i - 1 \in DOMAIN m /\ l[i] = m[i - 1])
  BY <1>1
<1>3. \A i \in DOMAIN m : i + 1 \in DOMAIN l /\ i + 1 # 1 /\ 1 \in DOMAIN l
  BY <1>1
<1>4. \A i \in DOMAIN m : m[i] # c
  BY <1>1, <1>3 DEF LineSound
<1> HIDE DEF m, c
<1>5. q[c] = "waiting"
  BY <1>1 DEF LineSound
<1>6. LineSound([q EXCEPT ![c] = e], m)
  BY <1>1, <1>2, <1>3, <1>4 DEF LineSound
<1> QED BY <1>1, <1>5, <1>6 DEF m, c

\* An entry that is removed from the queue is removed from the line.
LEMMA LineLeft ==
  ASSUME LineSound(queue, line), queue \in [Crawls -> Entries],
         NEW c \in Crawls, NEW e, e # "waiting"
  PROVE  LineSound([queue EXCEPT ![c] = e], Without(c))
<1>1. CASE queue[c] # "waiting"
  BY <1>1 DEF LineSound, Without
<1>2. CASE queue[c] = "waiting"
  <2> DEFINE k == CHOOSE i \in DOMAIN line : line[i] = c
             m == RemoveAt(line, k)
  <2>1. k \in DOMAIN line /\ line[k] = c
    BY <1>2 DEF LineSound
  <2> HIDE DEF k
  <2>2. /\ m \in Seq(Crawls) /\ DOMAIN line = 1 .. Len(line) /\ DOMAIN m = 1 .. Len(line) - 1
        /\ \A i \in 1 .. k - 1 : m[i] = line[i]
        /\ \A i \in k .. Len(line) - 1 : m[i] = line[i + 1]
        /\ Len(line) \in Nat
    <3> DEFINE a == SubSeq(line, 1, k - 1)
               b == SubSeq(line, k + 1, Len(line))
    <3>1. line \in Seq(Crawls) /\ Len(line) \in Nat /\ DOMAIN line = 1 .. Len(line) /\ k \in 1 .. Len(line)
      BY <2>1 DEF LineSound
    <3>2. a \in Seq(Crawls) /\ Len(a) = k - 1 /\ \A i \in 1 .. k - 1 : a[i] = line[i]
      BY <3>1, SubSeqProperties
    <3>3. /\ b \in Seq(Crawls) /\ Len(b) = Len(line) - k
          /\ \A i \in 1 .. Len(line) - k : b[i] = line[k + i]
      BY <3>1, SubSeqProperties
    <3>4. m = a \o b
      BY DEF RemoveAt
    <3> HIDE DEF a, b, m
    <3>5. m \in Seq(Crawls) /\ Len(m) = Len(line) - 1
      <4>1. a \o b \in Seq(Crawls) /\ Len(a \o b) = Len(a) + Len(b)
        BY <3>2, <3>3, ConcatProperties
      <4> QED BY <3>1, <3>2, <3>3, <3>4, <4>1
    <3>6. \A i \in 1 .. Len(m) : m[i] = IF i <= Len(a) THEN a[i] ELSE b[i - Len(a)]
      BY <3>1, <3>2, <3>3, <3>4, <3>5, ConcatProperties
    <3>7. \A i \in 1 .. k - 1 : m[i] = line[i]
      BY <3>1, <3>2, <3>5, <3>6
    <3>8. \A i \in k .. Len(line) - 1 : m[i] = line[i + 1]
      BY <3>1, <3>2, <3>3, <3>5, <3>6
    <3> QED BY <3>1, <3>5, <3>7, <3>8
  <2> HIDE DEF m
  <2>3. \A i \in DOMAIN m : \E j \in DOMAIN line : j # k /\ m[i] = line[j] /\ (i < k => j = i) /\ (i >= k => j = i + 1)
    BY <2>1, <2>2
  <2>4. \A j \in DOMAIN line : j # k => \E i \in DOMAIN m : m[i] = line[j]
    <3>1. ASSUME NEW j \in DOMAIN line, j < k
          PROVE  j \in DOMAIN m /\ m[j] = line[j]
      BY <2>1, <2>2, <3>1
    <3>2. ASSUME NEW j \in DOMAIN line, j > k
          PROVE  j - 1 \in DOMAIN m /\ m[j - 1] = line[j]
      BY <2>1, <2>2, <3>2
    <3> QED BY <2>1, <2>2, <3>1, <3>2
  <2>5. ASSUME NEW i \in DOMAIN m, NEW j \in DOMAIN m, m[i] = m[j]
        PROVE  i = j
    <3>1. \A x, y \in DOMAIN line : line[x] = line[y] => x = y
      BY DEF LineSound
    <3>2. PICK x \in DOMAIN line : x # k /\ m[i] = line[x] /\ (i < k => x = i) /\ (i >= k => x = i + 1)
      BY <2>3
    <3>3. PICK y \in DOMAIN line : y # k /\ m[j] = line[y] /\ (j < k => y = j) /\ (j >= k => y = j + 1)
      BY <2>3
    <3>4. x = y
      BY <2>5, <3>1, <3>2, <3>3
    <3>5. i \in Nat /\ j \in Nat /\ k \in Nat
      BY <2>1, <2>2
    <3> QED BY <3>2, <3>3, <3>4, <3>5
  <2>6. \A d \in Crawls : (\E i \in DOMAIN m : m[i] = d) <=> d # c /\ \E j \in DOMAIN line : line[j] = d
    BY <2>1, <2>3, <2>4 DEF LineSound
  <2> DEFINE r == [queue EXCEPT ![c] = e]
  <2>7. \A d \in Crawls : r[d] = "waiting" <=> (d # c /\ queue[d] = "waiting")
    OBVIOUS
  <2> HIDE DEF r
  <2>8. LineSound(r, m)
    BY <2>2, <2>5, <2>6, <2>7 DEF LineSound
  <2> QED BY <1>2, <2>8 DEF Without, k, m, r
<1> QED BY <1>1, <1>2

-----------------------------------------------------------------------------
(* What several steps do.                                                  *)

\* Saving a status changes at most that of one live crawl, and gives no crawl
\* an identity or takes it.
LEMMA SavedMeans ==
  ASSUME Types, NEW c, NEW s \in Statuses, Saved(c, s)
  PROVE  /\ status' \in [Crawls -> Statuses \union {"none", "gone"}]
         /\ Live' = Live
         /\ \A d \in Crawls : status'[d] = "none" <=> status[d] = "none"
         /\ \A d \in Crawls : status'[d] = status[d] \/ (d = c /\ c \in Live /\ status'[d] = s)
<1>1. Statuses \intersect {"none", "gone"} = {}
  BY DEF Statuses
<1>2. status \in [Crawls -> Statuses \union {"none", "gone"}]
  BY DEF Types
<1>3. CASE c \in Live
  <2>1. status' = [status EXCEPT ![c] = s] /\ status[c] \in Statuses
    BY <1>3 DEF Saved, Live
  <2> QED BY <1>1, <1>2, <2>1 DEF Live
<1>4. CASE c \notin Live
  BY <1>2, <1>4 DEF Saved, Live
<1> QED BY <1>3, <1>4

\* What counts is not changed by steps that leave the tabs, the audit entries
\* and the set of live crawls alone.
LEMMA CountKept ==
  ASSUME CountIsRight, QuotaHeld, Live' = Live, UNCHANGED <<audits, tabs>>
  PROVE  CountIsRight' /\ QuotaHeld'
<1>1. Counted' = Counted
  BY DEF Counted
<1> QED BY <1>1 DEF CountIsRight, QuotaHeld, Holders, In

\* An entry that is added waits in the line; others stay as they are.
LEMMA AddMeans ==
  ASSUME Types, LineSound(queue, line), NEW c \in Crawls, add(c)
  PROVE  /\ queue' \in [Crawls -> Entries] /\ LineSound(queue', line') /\ stalls' = stalls
         /\ \A d \in Crawls : queue'[d] = queue[d] \/ (d = c /\ queue[d] = "none" /\ queue'[d] = "waiting")
         /\ queue'[c] # "none"
<1>1. queue \in [Crawls -> Entries] /\ "waiting" \in Entries /\ "waiting" # "none"
  BY DEF Types, Entries
<1>2. CASE queue[c] = "none"
  <2>1. queue' = [queue EXCEPT ![c] = "waiting"] /\ line' = Append(line, c)
    BY <1>2 DEF add
  <2>2. LineSound(queue', line')
    BY <1>1, <1>2, <2>1, LineJoins
  <2> QED BY <1>1, <1>2, <2>1, <2>2 DEF add
<1>3. CASE queue[c] # "none"
  BY <1>1, <1>3 DEF add
<1> QED BY <1>2, <1>3

\* The set that counts is finite; conversionUsage counts it.
LEMMA UsageCounts ==
  ASSUME Types, NEW t \in Tabs, tabs[t].logs = audits
  PROVE  conversionUsage(t) = Cardinality(Counted) /\ Cardinality(Counted) \in Nat
<1>1. IsFiniteSet(audits) /\ IsFiniteSet(Live)
  BY CrawlAssumption, FS_Subset DEF Types, Live
<1>2. Cardinality(audits) \in Nat /\ Cardinality(Live) \in Nat
  BY <1>1, FS_CardinalityType
<1>3. Cardinality(Live \ audits) = Cardinality(Live) - Cardinality(Live \intersect audits)
  BY <1>1, FS_Difference
<1>4. /\ IsFiniteSet(Counted)
      /\ Cardinality(Counted) = Cardinality(audits) + Cardinality(Live) - Cardinality(audits \intersect Live)
  BY <1>1, FS_Union DEF Counted
<1>5. Cardinality(Counted) \in Nat
  BY <1>4, FS_CardinalityType
<1>6. audits \intersect Live = Live \intersect audits
  OBVIOUS
<1>7. IsFiniteSet(Live \intersect audits)
  BY <1>1, FS_Intersection
<1>8. Cardinality(Live \intersect audits) \in Nat
  BY <1>7, FS_CardinalityType
<1> QED BY <1>2, <1>3, <1>4, <1>5, <1>6, <1>8 DEF conversionUsage

-----------------------------------------------------------------------------
(* createJob.                                                              *)

\* A step of a tab that reserves nothing.
LEMMA TabKeeps ==
  ASSUME IInv, NEW t \in Tabs,
         lock_account(t) \/ read_audits(t) \/ count_usage(t) \/ refuse(t)
  PROVE  IInv'
<1> USE DEF database, redis, external
<1>1. UNCHANGED <<status, logRef, audits, queue, line, stalls, made, worker, proc, request, crashes>>
  BY DEF lock_account, read_audits, count_usage, refuse
<1>2. Types /\ tabs[t].pc \in {"idle", "locked", "counting", "counted"}
  BY DEF IInv, lock_account, read_audits, count_usage, refuse, In
<1>3. conversionUsage(t) \in Nat \/ ~In(t, "counting")
  BY <1>2, UsageCounts DEF IInv, CountIsRight
<1>4. /\ tabs' \in [Tabs -> TabStates]
      /\ \A u \in Tabs : u # t => tabs'[u] = tabs[u]
      /\ tabs'[t].pc \in {"locked", "counting", "counted", "done"}
      /\ tabs'[t].crawl \in {tabs[t].crawl, NoCrawl}
      /\ tabs'[t].pc = "locked" => tabs[t].pc = "idle" /\ Holders = {}
      /\ tabs'[t].pc = "counting" => tabs[t].pc = "locked" /\ tabs'[t].logs = audits
      /\ tabs'[t].pc = "counted" => tabs[t].pc = "counting" /\ tabs'[t].used = conversionUsage(t)
  <2>1. CASE lock_account(t)
    BY <1>2, <2>1 DEF Types, TabStates, lock_account, Goes, In
  <2>2. CASE read_audits(t)
    BY <1>2, <2>2 DEF Types, TabStates, read_audits, In
  <2>3. CASE count_usage(t)
    <3>1. PICK n \in Nat : n = conversionUsage(t)
      BY <1>3, <2>3 DEF count_usage
    <3>2. /\ tabs[t].pc = "counting"
          /\ tabs' = [tabs EXCEPT ![t] = [pc |-> "counted", crawl |-> NoCrawl, logs |-> {}, used |-> n]]
      BY <2>3, <3>1 DEF count_usage, In
    <3> QED BY <1>2, <3>1, <3>2 DEF Types, TabStates
  <2>4. CASE refuse(t)
    BY <1>2, <2>4 DEF Types, TabStates, refuse, In, Closed
  <2> QED BY <2>1, <2>2, <2>3, <2>4
<1>5. Types' /\ LineSound(queue, line)'
  BY <1>1, <1>4 DEF IInv, Types, LineSound
<1>6. ActorsKnown' /\ JobsExist' /\ HandedOver'
  BY <1>1, <1>4 DEF IInv, ActorsKnown, JobsExist, HandedOver
<1>7. CountIsRight' /\ QuotaHeld'
  <2>1. Counted' = Counted
    BY <1>1 DEF Counted, Live
  <2>2. Holders' \subseteq Holders \/ (Holders = {} /\ Holders' \subseteq {t})
    BY <1>2, <1>4 DEF Holders
  <2>3. \A u \in Tabs : In(u, "counting")' => tabs'[u].logs = audits'
    BY <1>1, <1>4 DEF IInv, CountIsRight, In
  <2>4. \A u \in Tabs : In(u, "counted")' => tabs'[u].used = Cardinality(Counted)'
    BY <1>2, <1>4, <2>1, UsageCounts DEF IInv, CountIsRight, In
  <2> QED BY <2>1, <2>2, <2>3, <2>4 DEF IInv, CountIsRight, QuotaHeld
<1>8. Fresh'
  BY <1>1, <1>4, CrawlAssumption DEF IInv, Fresh
<1>9. Tracked'
  <2>1. \A c \in Crawls : Begun(c) => Begun(c)'
    BY <1>2, <1>4 DEF Begun
  <2> QED BY <1>1, <2>1 DEF IInv, Tracked, Pursued, Live
<1> QED BY <1>5, <1>6, <1>7, <1>8, <1>9 DEF IInv

\* A tab reserves: it holds the account's row, so what it counted still counts.
LEMMA ReserveKeeps ==
  ASSUME IInv, NEW t \in Tabs, reserve(t)
  PROVE  IInv' /\ Counted \subseteq Counted'
<1> USE DEF database, redis, external
<1>1. UNCHANGED <<logRef, queue, line, stalls, made, worker, proc, request, crashes>>
  BY DEF reserve
<1>2. PICK c \in Unused :
        /\ status' = [status EXCEPT ![c] = "PENDING"]
        /\ audits' = audits \union {c}
        /\ tabs' = [tabs EXCEPT ![t] = [pc |-> "adding", crawl |-> c, logs |-> {}, used |-> 0]]
  BY DEF reserve
<1>3. c \in Crawls /\ status[c] = "none" /\ "PENDING" \in Statuses
  BY DEF Unused, Statuses
<1>4. Types /\ In(t, "counted") /\ tabs[t].used < Limit /\ t \in Holders
  BY DEF IInv, reserve, In, Holders
<1>5. Types' /\ LineSound(queue, line)'
  BY <1>1, <1>2, <1>3, <1>4 DEF IInv, Types, TabStates, LineSound
<1>6. ActorsKnown' /\ JobsExist' /\ HandedOver'
  BY <1>1, <1>2, <1>3, <1>4 DEF IInv, Types, ActorsKnown, JobsExist, HandedOver
<1>7. \A u \in Tabs : u # t => u \notin Holders /\ tabs'[u] = tabs[u]
  BY <1>2, <1>4 DEF IInv, CountIsRight, Types
<1>8. Counted' = Counted \union {c}
  <2>1. Live' = Live \union {c}
    BY <1>2, <1>3, <1>4 DEF Live, Types
  <2> QED BY <1>2, <2>1 DEF Counted
<1>9. CountIsRight' /\ QuotaHeld'
  <2>1. Holders' = {}
    BY <1>2, <1>4, <1>7 DEF Holders, Types
  <2>2. IsFiniteSet(Counted) /\ Cardinality(Counted) \in Nat
    BY <1>4, CrawlAssumption, FS_Subset, FS_CardinalityType DEF Counted, Live, Types
  <2>3. Cardinality(Counted)' <= Cardinality(Counted) + 1
    BY <1>8, <2>2, FS_AddElement
  <2>4. Cardinality(Counted)' \in Nat
    BY <1>8, <2>2, FS_AddElement, FS_CardinalityType
  <2>5. tabs[t].used = Cardinality(Counted)
    BY <1>4 DEF IInv, CountIsRight
  <2>6. QuotaHeld'
    BY <1>4, <2>2, <2>3, <2>4, <2>5, PlanAssumption DEF QuotaHeld
  <2> QED BY <2>1, <2>6 DEF CountIsRight, Holders, In
<1>10. Fresh'
  BY <1>1, <1>2, <1>3, <1>4, <1>7 DEF IInv, Types, Fresh
<1>11. Tracked'
  <2>1. \A d \in Crawls : Begun(d) => Begun(d)'
    BY <1>2, <1>4, <1>7 DEF Begun, Types, In
  <2>2. Begun(c)'
    BY <1>2, <1>4 DEF Begun, Types
  <2>3. queue'[c] = "none"
    BY <1>1, <1>3 DEF IInv, Fresh
  <2>4. \A d \in Live' : d = c \/ (d \in Live /\ status'[d] = status[d])
    BY <1>2, <1>3, <1>4 DEF Live, Types
  <2>5. ASSUME crashes = 0, NEW d \in Live'
        PROVE  Pursued(d)'
    <3>1. CASE d = c
      BY <2>2, <2>3, <3>1 DEF Pursued
    <3>2. CASE d # c
      <4>1. Pursued(d) /\ status'[d] = status[d]
        BY <2>4, <2>5, <3>2 DEF IInv, Tracked
      <4>2. Begun(d) => Begun(d)'
        BY <2>1, <2>4, <3>2 DEF Live
      <4> QED BY <1>1, <4>1, <4>2 DEF Pursued
    <3> QED BY <3>1, <3>2
  <2> QED BY <1>1, <2>5 DEF IInv, Tracked
<1> QED BY <1>5, <1>6, <1>8, <1>9, <1>10, <1>11 DEF IInv

\* The entry of a reserved crawl is added or not.
LEMMA EnqueueKeeps ==
  ASSUME IInv, NEW t \in Tabs, enqueue(t) \/ enqueue_fails(t)
  PROVE  IInv' /\ Counted' = Counted
<1> USE DEF database, redis, external
<1>1. UNCHANGED <<status, logRef, audits, made, worker, proc, request, crashes>>
  BY DEF enqueue, enqueue_fails
<1> DEFINE c == tabs[t].crawl
<1>2. Types /\ LineSound(queue, line) /\ In(t, "adding") /\ c \in Crawls /\ status[c] # "none"
  BY DEF IInv, ActorsKnown, Fresh, enqueue, enqueue_fails, In
<1>3. /\ queue' \in [Crawls -> Entries] /\ LineSound(queue', line') /\ stalls' = stalls
      /\ \A d \in Crawls : queue'[d] = queue[d] \/ (d = c /\ queue[d] = "none" /\ queue'[d] = "waiting")
      /\ queue'[c] # "none" \/ tabs'[t].pc = "raised"
  <2>1. CASE add(c)
    BY <1>2, <2>1, AddMeans
  <2>2. CASE ~add(c)
    <3>1. UNCHANGED <<queue, line, stalls>> /\ tabs' = [tabs EXCEPT ![t].pc = "raised"]
      BY <2>2 DEF enqueue, enqueue_fails, Goes
    <3>2. LineSound(queue', line')
      BY <1>2, <3>1 DEF LineSound
    <3> QED BY <1>2, <3>1, <3>2 DEF Types
  <2> QED BY <2>1, <2>2
<1>4. /\ tabs' \in [Tabs -> TabStates]
      /\ \/ tabs'[t].pc = "done" /\ tabs'[t].crawl = NoCrawl
         \/ tabs'[t].pc = "raised" /\ tabs'[t].crawl = c
      /\ \A u \in Tabs : u # t => tabs'[u] = tabs[u]
  BY <1>2 DEF Types, TabStates, enqueue, enqueue_fails, Goes, Closed
<1> HIDE DEF c
<1>5. Types' /\ LineSound(queue, line)'
  BY <1>1, <1>2, <1>3, <1>4 DEF Types
<1>6. ActorsKnown' /\ JobsExist' /\ HandedOver'
  <2>1. ActorsKnown' /\ JobsExist'
    BY <1>1, <1>2, <1>4 DEF IInv, ActorsKnown, JobsExist
  <2>2. HandedOver'
    BY <1>1, <1>3 DEF IInv, HandedOver
  <2> QED BY <2>1, <2>2
<1>7. Counted' = Counted
  BY <1>1 DEF Counted, Live
<1>8. CountIsRight' /\ QuotaHeld'
  <2>1. Holders' \subseteq Holders
    BY <1>4 DEF Holders
  <2> QED BY <1>1, <1>4, <1>7, <2>1 DEF IInv, CountIsRight, QuotaHeld, In
<1>9. Fresh'
  BY <1>1, <1>2, <1>3, <1>4, CrawlAssumption DEF IInv, Fresh
<1>10. Tracked'
  <2>1. ASSUME crashes = 0, NEW d \in Live
        PROVE  Pursued(d)'
    <3>1. Pursued(d) /\ d \in Crawls
      BY <2>1 DEF IInv, Tracked, Live
    <3>2. Begun(d) => Begun(d)' \/ (d = c /\ queue'[d] # "none")
      BY <1>2, <1>3, <1>4 DEF Begun, c
    <3>3. queue'[d] \in Entries
      BY <1>3, <3>1
    <3>4. d = c => queue[d] # "completed" \/ logRef[d]
      BY <3>1 DEF IInv, HandedOver
    <3> QED BY <1>1, <1>3, <3>1, <3>2, <3>3 DEF Pursued, Entries
  <2>2. proc.pc # "idle" => queue'[proc.crawl] = "active"
    BY <1>3 DEF IInv, Tracked, ActorsKnown
  <2> QED BY <1>1, <1>3, <2>1, <2>2 DEF IInv, Tracked, Live
<1> QED BY <1>5, <1>6, <1>7, <1>8, <1>9, <1>10 DEF IInv

\* A conversion whose entry could not be added is shown as failed.
LEMMA MarkFailedKeeps ==
  ASSUME IInv, NEW t \in Tabs, mark_failed(t)
  PROVE  IInv' /\ Counted' = Counted
<1> USE DEF database, redis, external
<1>1. UNCHANGED <<logRef, audits, queue, line, stalls, made, worker, proc, request, crashes>>
  BY DEF mark_failed
<1> DEFINE c == tabs[t].crawl
<1>2. Types /\ tabs[t].pc = "raised" /\ c \in Crawls /\ Saved(c, "FAILED") /\ "FAILED" \in Statuses
  BY DEF IInv, ActorsKnown, mark_failed, In, Statuses
<1>3. /\ status' \in [Crawls -> Statuses \union {"none", "gone"}]
      /\ Live' = Live
      /\ \A d \in Crawls : status'[d] = "none" <=> status[d] = "none"
      /\ \A d \in Crawls : status'[d] = status[d] \/ (d = c /\ status'[d] = "FAILED")
  BY <1>2, SavedMeans
<1>4. /\ tabs' \in [Tabs -> TabStates] /\ tabs'[t].pc = "done" /\ tabs'[t].crawl = NoCrawl
      /\ \A u \in Tabs : u # t => tabs'[u] = tabs[u]
  BY <1>2 DEF Types, TabStates, mark_failed, Closed
<1>5. c \in Live => status'[c] = "FAILED"
  BY <1>2 DEF Saved, Types
<1> HIDE DEF c
<1>6. Types' /\ LineSound(queue, line)'
  BY <1>1, <1>2, <1>3, <1>4 DEF IInv, Types, LineSound
<1>7. ActorsKnown' /\ JobsExist' /\ HandedOver'
  BY <1>1, <1>4 DEF IInv, ActorsKnown, JobsExist, HandedOver
<1>8. Counted' = Counted
  BY <1>1, <1>3 DEF Counted
<1>9. CountIsRight' /\ QuotaHeld'
  <2>1. Holders' \subseteq Holders
    BY <1>4 DEF Holders
  <2> QED BY <1>1, <1>4, <1>8, <2>1 DEF IInv, CountIsRight, QuotaHeld, In
<1>10. Fresh'
  BY <1>1, <1>3, <1>4, CrawlAssumption DEF IInv, Fresh
<1>11. Tracked'
  <2>1. ASSUME crashes = 0, NEW d \in Live
        PROVE  Pursued(d)'
    <3>1. Pursued(d) /\ d \in Crawls
      BY <2>1 DEF IInv, Tracked, Live
    <3>2. Begun(d) => Begun(d)' \/ d = c
      BY <1>4 DEF Begun, c
    <3> QED BY <1>1, <1>3, <1>5, <3>1, <3>2 DEF Pursued
  <2> QED BY <1>1, <1>3, <2>1 DEF IInv, Tracked
<1> QED BY <1>6, <1>7, <1>8, <1>9, <1>10, <1>11 DEF IInv

\* Deleting waits until nobody counts, and what was live goes on counting.
LEMMA DeleteKeeps ==
  ASSUME IInv, NEW c \in Crawls, deleteSite(c)
  PROVE  IInv' /\ Counted' = Counted
<1> USE DEF database, redis, external
<1>1. UNCHANGED <<logRef, queue, line, stalls, made, worker, tabs, proc, request, crashes>>
  BY DEF deleteSite
<1>2. Types /\ Holders = {} /\ c \in Live /\ status[c] # "none"
  BY DEF IInv, deleteSite, Live, Statuses
<1>3. audits' = audits \union {c} /\ status' = [status EXCEPT ![c] = "gone"]
  BY DEF deleteSite
<1>4. Types' /\ LineSound(queue, line)'
  BY <1>1, <1>2, <1>3 DEF IInv, Types, LineSound
<1>5. ActorsKnown' /\ JobsExist' /\ HandedOver'
  BY <1>1 DEF IInv, ActorsKnown, JobsExist, HandedOver
<1>6. Live' = Live \ {c}
  BY <1>2, <1>3 DEF Live, Types, Statuses
<1>7. Counted' = Counted
  BY <1>2, <1>3, <1>6 DEF Counted
<1>8. CountIsRight' /\ QuotaHeld'
  <2>1. Holders' = {}
    BY <1>1, <1>2 DEF Holders
  <2> QED BY <1>7, <2>1 DEF IInv, CountIsRight, QuotaHeld, Holders, In
<1>9. Fresh'
  BY <1>1, <1>2, <1>3 DEF IInv, Fresh, Types
<1>10. Tracked'
  <2>1. ASSUME crashes = 0, NEW d \in Live'
        PROVE  Pursued(d)'
    <3>1. Pursued(d) /\ status'[d] = status[d]
      BY <1>2, <1>3, <1>6, <2>1 DEF IInv, Tracked, Live, Types
    <3>2. Begun(d) => Begun(d)'
      BY <1>1 DEF Begun
    <3> QED BY <1>1, <3>1, <3>2 DEF Pursued
  <2> QED BY <1>1, <2>1 DEF IInv, Tracked
<1> QED BY <1>4, <1>5, <1>7, <1>8, <1>9, <1>10 DEF IInv

-----------------------------------------------------------------------------
(* processConversionJob.                                                   *)

ProcStates ==
  [ pc : {"idle", "creating", "saving", "polling", "writing", "raised"},
    crawl : Crawls \union {NoCrawl}, seen : Statuses \union {"none"} ]

\* What a step of the queue worker may do to the crawl it works on: c keeps
\* the worker job it knows, is active only while it is worked on, and is
\* completed only when it was handed over.
LEMMA JobFrame ==
  ASSUME IInv, UNCHANGED <<audits, stalls, tabs, request, crashes>>,
         NEW c \in Crawls, status[c] # "none", proc.crawl \in {c, NoCrawl},
         status' \in [Crawls -> Statuses \union {"none", "gone"}], Live' = Live,
         \A d \in Crawls : status'[d] = "none" <=> status[d] = "none",
         logRef' \in [Crawls -> BOOLEAN], logRef[c] => logRef'[c],
         queue' \in [Crawls -> Entries], LineSound(queue', line'),
         made' \in [Crawls -> 0 .. 1],
         worker' \in [Crawls -> (Statuses \ {"PENDING"}) \union {"none"}],
         \A d \in Crawls : d # c =>
           /\ status'[d] = status[d] /\ logRef'[d] = logRef[d] /\ queue'[d] = queue[d]
           /\ made'[d] = made[d] /\ worker'[d] = worker[d],
         made'[c] = 1 \/ logRef'[c] => worker'[c] # "none",
         proc' \in ProcStates, proc'.crawl = (IF proc'.pc = "idle" THEN NoCrawl ELSE c),
         proc'.pc \in {"saving", "polling"} => worker'[c] # "none",
         proc'.pc = "writing" => proc'.seen \in Statuses,
         queue'[c] = "completed" \/ proc'.pc \in {"polling", "writing"} => logRef'[c],
         IF proc'.pc = "idle" THEN queue'[c] # "active" ELSE queue'[c] = "active",
         c \in Live /\ crashes = 0 => Pursued(c)'
  PROVE  IInv' /\ Counted' = Counted
<1>1. Types' /\ LineSound(queue, line)'
  BY DEF IInv, Types, ProcStates, LineSound
<1>2. ActorsKnown'
  BY CrawlAssumption DEF IInv, ActorsKnown
<1>3. JobsExist'
  <2>1. \A d \in Crawls : made'[d] = 1 \/ logRef'[d] => worker'[d] # "none"
    BY DEF IInv, JobsExist
  <2>2. \A s \in Slots : request[s].pc \in {"asking", "posting", "saving"} => logRef'[request[s].crawl]
    BY DEF IInv, JobsExist, ActorsKnown
  <2>3. \A s \in Slots : request[s].pc = "saving" => request[s].seen \in Statuses
    BY DEF IInv, JobsExist
  <2> QED BY <2>1, <2>2, <2>3 DEF JobsExist
<1>4. CountIsRight' /\ QuotaHeld' /\ Counted' = Counted
  BY CountKept DEF IInv, Counted
<1>5. Fresh'
  BY CrawlAssumption DEF IInv, Fresh
<1>6. HandedOver'
  <2>1. \A d \in Crawls : queue'[d] = "completed" => logRef'[d]
    BY DEF IInv, HandedOver
  <2>2. \A s \in Slots : request[s].pc = "found" /\ request[s].seen = "completed" => logRef'[request[s].crawl]
    BY DEF IInv, HandedOver, ActorsKnown
  <2> QED BY <2>1, <2>2 DEF HandedOver
<1>7. Tracked'
  <2>1. ASSUME crashes = 0, NEW d \in Crawls, queue'[d] = "active"
        PROVE  proc'.crawl = d
    BY <2>1, CrawlAssumption DEF IInv, Tracked
  <2>2. ASSUME crashes = 0, NEW d \in Live, d # c
        PROVE  Pursued(d)'
    <3>1. Pursued(d) /\ d \in Crawls
      BY <2>2 DEF IInv, Tracked, Live
    <3>2. Begun(d) => Begun(d)'
      BY DEF Begun
    <3> QED BY <2>2, <3>1, <3>2 DEF Pursued
  <2> QED BY <2>1, <2>2 DEF Tracked
<1> QED BY <1>1, <1>2, <1>3, <1>4, <1>5, <1>6, <1>7 DEF IInv

\* What is known of the crawl the queue worker has.
LEMMA AtWork ==
  ASSUME IInv, proc.pc # "idle"
  PROVE  /\ proc.crawl \in Crawls /\ status[proc.crawl] # "none"
         /\ made[proc.crawl] = 1 \/ logRef[proc.crawl] => worker[proc.crawl] # "none"
         /\ Types /\ LineSound(queue, line)
         /\ proc.crawl \in Live /\ crashes = 0 => Pursued(proc.crawl)
         /\ queue[proc.crawl] = "active"
BY DEF IInv, ActorsKnown, Fresh, JobsExist, HandedOver, Tracked

\* The next entry is taken.
LEMMA BeginKeeps ==
  ASSUME IInv, begin_job
  PROVE  IInv' /\ Counted' = Counted
<1> USE DEF database, redis, external
<1>1. UNCHANGED <<logRef, audits, stalls, made, worker, tabs, request, crashes>>
  BY DEF begin_job
<1>2. PICK c :
      /\ c = Head(line) /\ proc.pc = "idle" /\ line # <<>>
      /\ line' = Tail(line) /\ queue' = [queue EXCEPT ![c] = "active"] /\ Saved(c, "PROCESSING")
      /\ proc' = [ pc |-> IF c \notin Live THEN "raised" ELSE IF logRef[c] THEN "saving" ELSE "creating",
                   crawl |-> c, seen |-> "none" ]
  BY DEF begin_job, At
<1>3. Types /\ proc.crawl = NoCrawl
  BY <1>2 DEF IInv, Types, ActorsKnown
<1>4. c \in Crawls /\ queue[c] = "waiting" /\ LineSound(queue', line')
  BY <1>2, <1>3, LineAdvances DEF IInv, Types
<1>5. status[c] # "none"
  BY <1>4 DEF IInv, Fresh
<1>6. /\ status' \in [Crawls -> Statuses \union {"none", "gone"}]
      /\ Live' = Live
      /\ \A d \in Crawls : status'[d] = "none" <=> status[d] = "none"
      /\ \A d \in Crawls : d # c => status'[d] = status[d]
  BY <1>2, <1>3, SavedMeans DEF Statuses
<1>7. /\ queue' \in [Crawls -> Entries] /\ queue'[c] = "active"
      /\ \A d \in Crawls : d # c => queue'[d] = queue[d]
  BY <1>2, <1>3, <1>4 DEF Types, Entries
<1>8. proc' \in ProcStates /\ proc'.crawl = c /\ proc'.pc \in {"raised", "saving", "creating"}
      /\ (proc'.pc = "saving" => logRef[c])
  BY <1>2, <1>4 DEF ProcStates
<1>9. Pursued(c)'
  BY <1>7 DEF Pursued
<1>10. made[c] = 1 \/ logRef[c] => worker[c] # "none"
  BY <1>4 DEF IInv, JobsExist
<1> QED BY <1>1, <1>3, <1>4, <1>5, <1>6, <1>7, <1>8, <1>9, <1>10, JobFrame DEF Types

\* The worker's job is created, or it is unknown whether it was.
LEMMA CreateKeeps ==
  ASSUME IInv, create_worker_job \/ create_fails
  PROVE  IInv' /\ Counted' = Counted
<1> USE DEF database, redis, external
<1>1. UNCHANGED <<status, logRef, audits, queue, line, stalls, tabs, request, crashes>>
  BY DEF create_worker_job, create_fails
<1>2. PICK c : c = proc.crawl
  OBVIOUS
<1>3. proc.pc = "creating" /\ (Created(c) \/ UNCHANGED external)
  BY <1>2 DEF create_worker_job, create_fails, At
<1>4. /\ Types /\ LineSound(queue, line) /\ c \in Crawls /\ status[c] # "none"
      /\ made[c] = 1 \/ logRef[c] => worker[c] # "none"
      /\ c \in Live /\ crashes = 0 => Pursued(c)
      /\ queue[c] = "active"
  BY <1>2, <1>3, AtWork
<1>5. /\ made' \in [Crawls -> 0 .. 1]
      /\ worker' \in [Crawls -> (Statuses \ {"PENDING"}) \union {"none"}]
      /\ \A d \in Crawls : d # c => made'[d] = made[d] /\ worker'[d] = worker[d]
      /\ made'[c] = 1 \/ logRef[c] => worker'[c] # "none"
      /\ Created(c) => worker'[c] # "none"
  <2>1. made \in [Crawls -> 0 .. 1] /\ worker \in [Crawls -> (Statuses \ {"PENDING"}) \union {"none"}]
    BY <1>4 DEF Types
  <2>2. CASE made[c] = 0 /\ Created(c)
    <3>1. made' = [made EXCEPT ![c] = 1] /\ worker' = [worker EXCEPT ![c] = "PROCESSING"]
      BY <2>2 DEF Created
    <3>2. "PROCESSING" \in Statuses \ {"PENDING"}
      BY DEF Statuses
    <3> QED BY <1>4, <2>1, <3>1, <3>2
  <2>3. CASE made[c] # 0 \/ ~Created(c)
    <3>1. UNCHANGED <<made, worker>>
      BY <1>3, <2>3 DEF Created
    <3>2. made[c] = 1 \/ ~Created(c)
      BY <1>4, <2>1, <2>3
    <3> QED BY <1>4, <2>1, <3>1, <3>2
  <2> QED BY <2>2, <2>3
<1>6. /\ proc' \in ProcStates /\ proc'.crawl = c
      /\ proc'.pc = "raised" \/ (proc'.pc = "saving" /\ Created(c))
  <2>1. proc \in ProcStates /\ (proc' = [proc EXCEPT !.pc = "raised"] \/ (proc' = [proc EXCEPT !.pc = "saving"] /\ Created(c)))
    BY <1>2, <1>4 DEF Types, ProcStates, create_worker_job, create_fails, ProcGoes
  <2> QED BY <1>2, <2>1 DEF ProcStates
<1>7. c \in Live /\ crashes = 0 => Pursued(c)'
  BY <1>1, <1>4 DEF Pursued, Begun
<1>8. Live' = Live /\ LineSound(queue', line')
  BY <1>1, <1>4 DEF Live, LineSound
<1> QED BY <1>1, <1>2, <1>4, <1>5, <1>6, <1>7, <1>8, JobFrame DEF Types

\* The crawl learns its worker job, which exists.
LEMMA SaveRefKeeps ==
  ASSUME IInv, save_ref
  PROVE  IInv' /\ Counted' = Counted
<1> USE DEF database, redis, external
<1>1. UNCHANGED <<audits, queue, line, stalls, made, worker, tabs, request, crashes>>
  BY DEF save_ref
<1>2. PICK c : c = proc.crawl
  OBVIOUS
<1>3. /\ proc.pc = "saving" /\ Saved(c, "PROCESSING")
      /\ logRef' = IF c \in Live THEN [logRef EXCEPT ![c] = TRUE] ELSE logRef
      /\ proc' = [proc EXCEPT !.pc = IF c \in Live THEN "polling" ELSE "raised"]
  BY <1>2 DEF save_ref, At, ProcGoes
<1>4. /\ Types /\ LineSound(queue, line) /\ c \in Crawls /\ status[c] # "none"
      /\ c \in Live /\ crashes = 0 => Pursued(c)
      /\ queue[c] = "active"
  BY <1>2, <1>3, AtWork
<1>5. worker[c] # "none"
  BY <1>2, <1>3 DEF IInv, JobsExist
<1>6. /\ status' \in [Crawls -> Statuses \union {"none", "gone"}]
      /\ Live' = Live
      /\ \A d \in Crawls : status'[d] = "none" <=> status[d] = "none"
      /\ \A d \in Crawls : d # c => status'[d] = status[d]
  BY <1>3, <1>4, SavedMeans DEF Statuses
<1>7. /\ logRef' \in [Crawls -> BOOLEAN] /\ (logRef[c] => logRef'[c])
      /\ \A d \in Crawls : d # c => logRef'[d] = logRef[d]
      /\ c \in Live => logRef'[c]
  BY <1>3, <1>4 DEF Types
<1>8. /\ proc' \in ProcStates /\ proc'.crawl = c
      /\ proc'.pc = "raised" \/ (proc'.pc = "polling" /\ c \in Live)
  BY <1>2, <1>3, <1>4 DEF Types, ProcStates
<1>9. c \in Live => Pursued(c)'
  BY <1>7 DEF Pursued
<1>10. LineSound(queue', line')
  BY <1>1, <1>4 DEF LineSound
<1> QED BY <1>1, <1>2, <1>4, <1>5, <1>6, <1>7, <1>8, <1>9, <1>10, JobFrame DEF Types

\* The queue worker polls, or gives up.
LEMMA PollKeeps ==
  ASSUME IInv, poll \/ poll_gives_up
  PROVE  IInv' /\ Counted' = Counted
<1> USE DEF database, redis, external
<1>1. UNCHANGED <<status, logRef, audits, queue, line, stalls, made, worker, tabs, request, crashes>>
  BY DEF poll, poll_gives_up
<1>2. PICK c : c = proc.crawl
  OBVIOUS
<1>3. proc.pc = "polling"
  BY DEF poll, poll_gives_up, At
<1>4. /\ Types /\ LineSound(queue, line) /\ c \in Crawls /\ status[c] # "none"
      /\ made[c] = 1 \/ logRef[c] => worker[c] # "none"
      /\ c \in Live /\ crashes = 0 => Pursued(c)
      /\ queue[c] = "active"
  BY <1>2, <1>3, AtWork
<1>5. logRef[c] /\ worker[c] \in Statuses
  BY <1>2, <1>3, <1>4 DEF IInv, HandedOver, JobsExist, Types
<1>6. /\ proc' \in ProcStates /\ proc'.crawl = c
      /\ proc'.pc = "raised" \/ (proc'.pc = "writing" /\ proc'.seen \in Statuses)
  <2>1. proc \in ProcStates
    BY <1>4 DEF Types, ProcStates
  <2>2. CASE poll
    BY <1>2, <1>5, <2>1, <2>2 DEF poll, ProcStates
  <2>3. CASE poll_gives_up
    BY <1>2, <2>1, <2>3 DEF poll_gives_up, ProcGoes, ProcStates
  <2> QED BY <2>2, <2>3
<1>7. c \in Live /\ crashes = 0 => Pursued(c)'
  BY <1>1, <1>4 DEF Pursued, Begun
<1>8. Live' = Live /\ LineSound(queue', line')
  BY <1>1, <1>4 DEF Live, LineSound
<1> QED BY <1>1, <1>2, <1>4, <1>5, <1>6, <1>7, <1>8, JobFrame DEF Types

\* The result is written, or writing it raises before or after the status.
LEMMA WriteKeeps ==
  ASSUME IInv, write_result \/ write_fails
  PROVE  IInv' /\ Counted' = Counted
<1> USE DEF database, redis, external
<1>1. UNCHANGED <<logRef, audits, line, stalls, made, worker, tabs, request, crashes>>
  BY DEF write_result, write_fails
<1>2. PICK c : c = proc.crawl
  OBVIOUS
<1>3. proc.pc = "writing"
  BY DEF write_result, write_fails, At
<1>4. /\ Types /\ LineSound(queue, line) /\ c \in Crawls /\ status[c] # "none"
      /\ made[c] = 1 \/ logRef[c] => worker[c] # "none"
      /\ queue[c] = "active"
  BY <1>2, <1>3, AtWork
<1>5. logRef[c] /\ proc.seen \in Statuses
  BY <1>2, <1>3 DEF IInv, HandedOver, JobsExist
<1>6. /\ status' \in [Crawls -> Statuses \union {"none", "gone"}]
      /\ Live' = Live
      /\ \A d \in Crawls : status'[d] = "none" <=> status[d] = "none"
      /\ \A d \in Crawls : d # c => status'[d] = status[d]
  <2>1. Saved(c, proc.seen) \/ status' = status
    BY <1>2 DEF write_result, write_fails
  <2>2. CASE Saved(c, proc.seen)
    BY <1>4, <1>5, <2>2, SavedMeans
  <2>3. CASE status' = status
    BY <1>4, <2>3 DEF Types, Live
  <2> QED BY <2>1, <2>2, <2>3
<1>7. \/ /\ c \in Live /\ proc' = NoProc
         /\ queue' = [queue EXCEPT ![c] = "completed"]
      \/ queue' = queue /\ proc' = [proc EXCEPT !.pc = "raised"]
  BY <1>2 DEF write_result, write_fails, ProcGoes
<1>8. /\ proc' \in ProcStates
      /\ \/ proc'.pc = "idle" /\ proc'.crawl = NoCrawl
         \/ proc'.pc = "raised" /\ proc'.crawl = c
  BY <1>2, <1>4, <1>7 DEF Types, ProcStates, NoProc
<1>9. /\ queue' \in [Crawls -> Entries]
      /\ \A d \in Crawls : d # c => queue'[d] = queue[d]
      /\ IF proc'.pc = "idle" THEN queue'[c] # "active" ELSE queue'[c] = "active"
  BY <1>2, <1>4, <1>7, <1>8 DEF Types, Entries, NoProc
<1>10. LineSound(queue', line')
  <2>1. CASE queue' = queue
    BY <1>1, <1>4, <2>1 DEF LineSound
  <2>2. CASE queue' = [queue EXCEPT ![c] = "completed"]
    <3>1. \A d \in Crawls : queue'[d] = "waiting" <=> queue[d] = "waiting"
      BY <1>4, <2>2 DEF Types
    <3> QED BY <1>1, <1>4, <3>1 DEF LineSound
  <2> QED BY <1>7, <2>1, <2>2
<1>11. Pursued(c)'
  BY <1>1, <1>5 DEF Pursued
<1> QED BY <1>1, <1>2, <1>4, <1>5, <1>6, <1>8, <1>9, <1>10, <1>11, JobFrame DEF Types

\* An entry that fails shows its crawl as failed.
LEMMA FailKeeps ==
  ASSUME IInv, job_fails
  PROVE  IInv' /\ Counted' = Counted
<1> USE DEF database, redis, external
<1>1. UNCHANGED <<logRef, audits, line, stalls, made, worker, tabs, request, crashes>>
  BY DEF job_fails
<1>2. PICK c : c = proc.crawl
  OBVIOUS
<1>3. /\ proc.pc = "raised" /\ Saved(c, "FAILED") /\ queue' = [queue EXCEPT ![c] = "failed"]
      /\ proc' = NoProc
  BY <1>2 DEF job_fails, At
<1>4. /\ Types /\ LineSound(queue, line) /\ c \in Crawls /\ status[c] # "none"
      /\ made[c] = 1 \/ logRef[c] => worker[c] # "none"
      /\ queue[c] = "active"
  BY <1>2, <1>3, AtWork
<1>5. /\ status' \in [Crawls -> Statuses \union {"none", "gone"}]
      /\ Live' = Live
      /\ \A d \in Crawls : status'[d] = "none" <=> status[d] = "none"
      /\ \A d \in Crawls : d # c => status'[d] = status[d]
  BY <1>3, <1>4, SavedMeans DEF Statuses
<1>6. /\ queue' \in [Crawls -> Entries] /\ queue'[c] = "failed"
      /\ \A d \in Crawls : d # c => queue'[d] = queue[d]
  BY <1>3, <1>4 DEF Types, Entries
<1>7. LineSound(queue', line')
  <2>1. \A d \in Crawls : queue'[d] = "waiting" <=> queue[d] = "waiting"
    BY <1>4, <1>6
  <2> QED BY <1>1, <1>4, <2>1 DEF LineSound
<1>8. proc' \in ProcStates /\ proc'.crawl = NoCrawl /\ proc'.pc = "idle"
  BY <1>3 DEF NoProc, ProcStates
<1>9. c \in Live => Pursued(c)'
  <2>1. c \in Live => status'[c] = "FAILED"
    BY <1>3, <1>4 DEF Saved, Types
  <2> QED BY <1>6, <2>1 DEF Pursued
<1> QED BY <1>1, <1>2, <1>4, <1>5, <1>6, <1>7, <1>8, <1>9, JobFrame DEF Types

-----------------------------------------------------------------------------
(* The requests about a crawl.                                             *)

\* What a step of a request may do: it changes the status only of a crawl that
\* was handed over, makes no active entry wait, and takes away an entry only of
\* a crawl that was handed over.
LEMMA RequestFrame ==
  ASSUME IInv, UNCHANGED <<logRef, audits, stalls, made, tabs, proc, crashes>>,
         NEW s \in Slots, NEW c \in Crawls, status[c] # "none",
         status' \in [Crawls -> Statuses \union {"none", "gone"}], Live' = Live,
         \A d \in Crawls : status'[d] = "none" <=> status[d] = "none",
         queue' \in [Crawls -> Entries], LineSound(queue', line'),
         \A d \in Crawls : d # c => status'[d] = status[d] /\ queue'[d] = queue[d],
         status'[c] = status[c] \/ logRef[c],
         \/ queue'[c] = queue[c]
         \/ queue[c] # "active" /\ (queue'[c] = "waiting" \/ (queue'[c] = "none" /\ logRef[c])),
         worker' \in [Crawls -> (Statuses \ {"PENDING"}) \union {"none"}],
         \A d \in Crawls : worker[d] # "none" => worker'[d] # "none",
         request' \in [Slots -> Requests],
         \A u \in Slots : u # s => request'[u] = request[u],
         request'[s].crawl = (IF request'[s].pc = "idle" THEN NoCrawl ELSE c),
         request'[s].pc \in {"asking", "posting", "saving"} => logRef[c],
         request'[s].pc = "saving" => request'[s].seen \in Statuses,
         request'[s].pc = "found" /\ request'[s].seen = "completed" => logRef[c]
  PROVE  IInv' /\ Counted' = Counted
<1>1. Types' /\ LineSound(queue, line)'
  BY DEF IInv, Types, LineSound
<1>2. ActorsKnown'
  BY CrawlAssumption DEF IInv, ActorsKnown
<1>3. JobsExist'
  <2>1. \A d \in Crawls : made[d] = 1 \/ logRef[d] => worker'[d] # "none"
    BY DEF IInv, JobsExist
  <2>2. proc.pc \in {"saving", "polling"} => worker'[proc.crawl] # "none"
    BY DEF IInv, JobsExist, ActorsKnown
  <2>3. \A u \in Slots :
          /\ request'[u].pc \in {"asking", "posting", "saving"} => logRef[request'[u].crawl]
          /\ request'[u].pc = "saving" => request'[u].seen \in Statuses
    BY DEF IInv, JobsExist
  <2> QED BY <2>1, <2>2, <2>3 DEF IInv, JobsExist
<1>4. CountIsRight' /\ QuotaHeld' /\ Counted' = Counted
  BY CountKept DEF IInv, Counted
<1>5. Fresh'
  BY CrawlAssumption DEF IInv, Fresh
<1>6. HandedOver'
  <2>1. \A d \in Crawls : queue'[d] = "completed" => logRef[d]
    BY DEF IInv, HandedOver
  <2>2. \A u \in Slots :
          request'[u].pc = "found" /\ request'[u].seen = "completed" => logRef[request'[u].crawl]
    BY DEF IInv, HandedOver
  <2> QED BY <2>1, <2>2 DEF IInv, HandedOver
<1>7. Tracked'
  <2>1. proc.pc # "idle" => queue'[proc.crawl] = "active"
    BY DEF IInv, Tracked, ActorsKnown
  <2>2. \A d \in Crawls : queue'[d] = "active" => queue[d] = "active"
    OBVIOUS
  <2>3. ASSUME crashes = 0, NEW d \in Live
        PROVE  Pursued(d)'
    <3>1. Pursued(d) /\ d \in Crawls
      BY <2>3 DEF IInv, Tracked, Live
    <3>2. Begun(d) => Begun(d)'
      BY DEF Begun
    <3>3. CASE d = c
      BY <3>1, <3>2, <3>3 DEF Pursued
    <3>4. CASE d # c
      BY <3>1, <3>2, <3>4 DEF Pursued
    <3> QED BY <3>3, <3>4
  <2> QED BY <2>1, <2>2, <2>3 DEF IInv, Tracked
<1> QED BY <1>1, <1>2, <1>3, <1>4, <1>5, <1>6, <1>7 DEF IInv

\* What is known of the crawl a request is about.
LEMMA OnRequest ==
  ASSUME IInv, NEW s \in Slots, request[s].pc # "idle"
  PROVE  /\ request[s].crawl \in Crawls /\ status[request[s].crawl] # "none"
         /\ Types /\ LineSound(queue, line)
BY DEF IInv, ActorsKnown, Fresh

\* A step of a request that only reads keeps IInv.
LEMMA ReadOnly ==
  ASSUME IInv, UNCHANGED <<database, redis, external, tabs, proc, crashes>>,
         NEW s \in Slots, NEW c \in Crawls, status[c] # "none", NEW r \in Requests,
         request' = [request EXCEPT ![s] = r],
         r.crawl = (IF r.pc = "idle" THEN NoCrawl ELSE c),
         r.pc \in {"asking", "posting", "saving"} => logRef[c],
         r.pc = "saving" => r.seen \in Statuses,
         r.pc = "found" /\ r.seen = "completed" => logRef[c]
  PROVE  IInv' /\ Counted' = Counted
<1> USE DEF database, redis, external
<1>1. Types /\ LineSound(queue, line)
  BY DEF IInv
<1>2. LineSound(queue', line') /\ Live' = Live
  BY <1>1 DEF LineSound, Live
<1>3. /\ request' \in [Slots -> Requests] /\ request'[s] = r
      /\ \A u \in Slots : u # s => request'[u] = request[u]
  BY <1>1 DEF Types
<1> QED BY <1>1, <1>2, <1>3, RequestFrame DEF Types

\* The idle request is typed.
LEMMA IdleTyped == NoRequest \in Requests /\ NoRequest.pc = "idle" /\ NoRequest.crawl = NoCrawl
BY DEF NoRequest, Requests, Entries

\* A request begins.
LEMMA BeginsKeeps ==
  ASSUME IInv, NEW s \in Slots, NEW c \in Crawls,
         getJobStatus(s, c) \/ post_command(s, c) \/ runJob(s, c)
  PROVE  IInv' /\ Counted' = Counted
<1>1. status[c] \in Statuses /\ status[c] # "none" /\ "none" \in Entries
  BY DEF getJobStatus, post_command, runJob, Live, Statuses, Entries
<1>2. PICK r \in Requests :
        /\ request' = [request EXCEPT ![s] = r] /\ r.crawl = c /\ r.pc \in {"asking", "posting", "looking"}
        /\ r.pc \in {"asking", "posting"} => logRef[c]
  <2>1. CASE getJobStatus(s, c)
    <3> DEFINE r == [pc |-> "asking", crawl |-> c, seen |-> status[c]]
    <3>1. r \in Requests /\ request' = [request EXCEPT ![s] = r] /\ logRef[c]
      BY <1>1, <2>1 DEF getJobStatus, Begins, Requests
    <3> QED BY <3>1
  <2>2. CASE post_command(s, c)
    <3> DEFINE r == [pc |-> "posting", crawl |-> c, seen |-> "none"]
    <3>1. r \in Requests /\ request' = [request EXCEPT ![s] = r] /\ logRef[c]
      BY <1>1, <2>2 DEF post_command, Begins, Requests
    <3> QED BY <3>1
  <2>3. CASE runJob(s, c)
    <3> DEFINE r == [pc |-> "looking", crawl |-> c, seen |-> "none"]
    <3>1. r \in Requests /\ request' = [request EXCEPT ![s] = r]
      BY <1>1, <2>3 DEF runJob, Begins, Requests
    <3> QED BY <3>1
  <2> QED BY <2>1, <2>2, <2>3
<1>3. UNCHANGED <<database, redis, external, tabs, proc, crashes>>
  BY DEF getJobStatus, post_command, runJob, Begins
<1> QED BY <1>1, <1>2, <1>3, ReadOnly

\* A request reads the worker's job or the entry.
LEMMA ReadsKeep ==
  ASSUME IInv, NEW s \in Slots, worker_shows(s) \/ getState(s) \/ reuse_entry(s)
  PROVE  IInv' /\ Counted' = Counted
<1>1. request[s].pc # "idle" /\ UNCHANGED <<database, redis, external, tabs, proc, crashes>>
  BY DEF worker_shows, getState, reuse_entry, Is
<1>2. PICK c : c = request[s].crawl
  OBVIOUS
<1>3. c \in Crawls /\ status[c] # "none" /\ Types /\ request[s] \in Requests
  BY <1>1, <1>2, OnRequest DEF Types
<1>4. \E r \in Requests :
        /\ request' = [request EXCEPT ![s] = r] /\ r.crawl = (IF r.pc = "idle" THEN NoCrawl ELSE c)
        /\ r.pc \in {"idle", "saving", "adding", "found"}
        /\ r.pc = "saving" => logRef[c] /\ r.seen \in Statuses
        /\ r.pc = "found" /\ r.seen = "completed" => logRef[c]
  <2>1. CASE request_ends(s)
    BY <2>1, IdleTyped DEF request_ends
  <2>2. CASE worker_shows(s) /\ ~request_ends(s)
    <3> DEFINE r == [request[s] EXCEPT !.pc = "saving", !.seen = worker[c]]
    <3>1. logRef[c] /\ worker[c] \in Statuses
      BY <1>2, <1>3, <2>2 DEF IInv, JobsExist, Types, worker_shows, Is
    <3>2. r \in Requests /\ r.crawl = c /\ r.pc = "saving" /\ r.seen = worker[c]
      BY <1>2, <1>3, <3>1 DEF Requests
    <3>3. request' = [request EXCEPT ![s] = r]
      BY <1>2, <2>2 DEF worker_shows
    <3> QED BY <1>3, <3>1, <3>2, <3>3, CrawlAssumption
  <2>3. CASE getState(s)
    <3> DEFINE r == [request[s] EXCEPT !.pc = IF queue[c] = "none" THEN "adding" ELSE "found",
                                       !.seen = queue[c]]
    <3>1. queue[c] \in Entries /\ (queue[c] = "completed" => logRef[c])
      BY <1>3 DEF IInv, HandedOver, Types
    <3>2. r \in Requests /\ r.crawl = c /\ r.pc \in {"adding", "found"} /\ r.seen = queue[c]
      BY <1>2, <1>3, <3>1 DEF Requests
    <3>3. request' = [request EXCEPT ![s] = r]
      BY <1>2, <2>3 DEF getState
    <3> QED BY <3>1, <3>2, <3>3
  <2> QED BY <2>1, <2>2, <2>3 DEF reuse_entry
<1> QED BY <1>1, <1>3, <1>4, ReadOnly

\* An answer is saved, however old: only for a crawl that was handed over.
LEMMA SaveStatusKeeps ==
  ASSUME IInv, NEW s \in Slots, save_status(s)
  PROVE  IInv' /\ Counted' = Counted
<1> USE DEF database, redis, external
<1>1. UNCHANGED <<logRef, audits, queue, line, stalls, made, worker, tabs, proc, crashes>>
  BY DEF save_status
<1>2. PICK c : c = request[s].crawl
  OBVIOUS
<1>3. request[s].pc = "saving" /\ Saved(c, request[s].seen) /\ request' = [request EXCEPT ![s] = NoRequest]
  BY <1>2 DEF save_status, Is, request_ends
<1>4. c \in Crawls /\ status[c] # "none" /\ Types /\ LineSound(queue, line)
  BY <1>2, <1>3, OnRequest
<1>5. logRef[c] /\ request[s].seen \in Statuses
  BY <1>2, <1>3 DEF IInv, JobsExist
<1>6. /\ status' \in [Crawls -> Statuses \union {"none", "gone"}]
      /\ Live' = Live
      /\ \A d \in Crawls : status'[d] = "none" <=> status[d] = "none"
      /\ \A d \in Crawls : d # c => status'[d] = status[d]
  BY <1>3, <1>4, <1>5, SavedMeans
<1>7. /\ request' \in [Slots -> Requests] /\ request'[s] = NoRequest
      /\ \A u \in Slots : u # s => request'[u] = request[u]
  BY <1>3, <1>4, IdleTyped DEF Types
<1>8. LineSound(queue', line')
  BY <1>1, <1>4 DEF LineSound
<1> QED BY <1>1, <1>4, <1>5, <1>6, <1>7, <1>8, IdleTyped, RequestFrame DEF Types

\* A command leaves a job that exists.
LEMMA CommandedExists ==
  ASSUME NEW w \in (Statuses \ {"PENDING"}) \union {"none"}, NEW shown \in Commanded(w)
  PROVE  shown \in (Statuses \ {"PENDING"}) \union {"none"} /\ (w # "none" => shown # "none")
BY DEF Commanded, Statuses

\* A command reaches the worker; its answer may be lost.
LEMMA CommandKeeps ==
  ASSUME IInv, NEW s \in Slots, command_done(s) \/ command_lost(s)
  PROVE  IInv' /\ Counted' = Counted
<1> USE DEF database, redis, external
<1>1. UNCHANGED <<status, logRef, audits, queue, line, stalls, made, tabs, proc, crashes>>
  BY DEF command_done, command_lost
<1>2. PICK c : c = request[s].crawl
  OBVIOUS
<1>3. request[s].pc = "posting"
  BY DEF command_done, command_lost, Is
<1>4. c \in Crawls /\ status[c] # "none" /\ Types /\ LineSound(queue, line) /\ request[s] \in Requests
  BY <1>2, <1>3, OnRequest DEF Types
<1>5. logRef[c] /\ worker[c] # "none"
  BY <1>2, <1>3, <1>4 DEF IInv, JobsExist
<1>6. PICK shown \in Commanded(worker[c]) :
        /\ worker' = [worker EXCEPT ![c] = shown]
        /\ \/ request' = [request EXCEPT ![s] = [request[s] EXCEPT !.pc = "saving", !.seen = shown]]
           \/ request' = [request EXCEPT ![s] = NoRequest]
  BY <1>2, <1>4 DEF command_done, command_lost, request_ends, Types
<1>7. /\ shown \in (Statuses \ {"PENDING"}) \union {"none"} /\ shown # "none"
      /\ worker \in [Crawls -> (Statuses \ {"PENDING"}) \union {"none"}]
  BY <1>4, <1>5, CommandedExists DEF Types
<1>8. /\ worker' \in [Crawls -> (Statuses \ {"PENDING"}) \union {"none"}]
      /\ \A d \in Crawls : worker[d] # "none" => worker'[d] # "none"
  BY <1>4, <1>6, <1>7
<1>9. PICK r \in Requests :
        /\ request' = [request EXCEPT ![s] = r] /\ r.crawl = (IF r.pc = "idle" THEN NoCrawl ELSE c)
        /\ r.pc \in {"idle", "saving"} /\ (r.pc = "saving" => r.seen \in Statuses)
  <2> DEFINE r == [request[s] EXCEPT !.pc = "saving", !.seen = shown]
  <2>1. r \in Requests /\ r.crawl = c /\ r.pc = "saving" /\ r.seen \in Statuses
    BY <1>2, <1>4, <1>7 DEF Requests
  <2> HIDE DEF r
  <2>2. request' = [request EXCEPT ![s] = r] \/ request' = [request EXCEPT ![s] = NoRequest]
    BY <1>6 DEF r
  <2> QED BY <2>1, <2>2, IdleTyped
<1>10. /\ request' \in [Slots -> Requests] /\ request'[s] = r
       /\ \A u \in Slots : u # s => request'[u] = request[u]
  BY <1>4, <1>9 DEF Types
<1>11. LineSound(queue', line') /\ Live' = Live
  BY <1>1, <1>4 DEF LineSound, Live
<1> QED BY <1>1, <1>4, <1>5, <1>8, <1>9, <1>10, <1>11, RequestFrame DEF Types

\* The entry of a crawl is retried, replaced or added.
LEMMA EntryKeeps ==
  ASSUME IInv, NEW s \in Slots, retry_entry(s) \/ remove_entry(s) \/ add_entry(s)
  PROVE  IInv' /\ Counted' = Counted
<1> USE DEF database, redis, external
<1>1. UNCHANGED <<status, logRef, audits, stalls, made, worker, tabs, proc, crashes>>
  BY DEF retry_entry, remove_entry, add_entry, add
<1>2. PICK c : c = request[s].crawl
  OBVIOUS
<1>3. request[s].pc \in {"found", "adding"}
  BY DEF retry_entry, remove_entry, add_entry, Is
<1>4. c \in Crawls /\ status[c] # "none" /\ Types /\ LineSound(queue, line) /\ request[s] \in Requests
  BY <1>2, <1>3, OnRequest DEF Types
<1>5. queue \in [Crawls -> Entries] /\ {"none", "waiting"} \subseteq Entries
  BY <1>4 DEF Types, Entries
<1>6. /\ queue' \in [Crawls -> Entries] /\ LineSound(queue', line')
      /\ \A d \in Crawls : d # c => queue'[d] = queue[d]
      /\ \/ queue'[c] = queue[c]
         \/ queue[c] # "active" /\ (queue'[c] = "waiting" \/ (queue'[c] = "none" /\ logRef[c]))
  <2>1. CASE retry_entry(s) /\ queue[c] = "failed"
    <3>1. queue' = [queue EXCEPT ![c] = "waiting"] /\ line' = Append(line, c)
      BY <1>2, <2>1 DEF retry_entry
    <3>2. LineSound(queue', line')
      BY <1>4, <1>5, <2>1, <3>1, LineJoins
    <3> QED BY <1>4, <1>5, <2>1, <3>1, <3>2
  <2>2. CASE remove_entry(s) /\ queue[c] # "active"
    <3>1. queue' = [queue EXCEPT ![c] = "none"] /\ line' = Without(c)
      BY <1>2, <2>2 DEF remove_entry
    <3>2. LineSound(queue', line')
      BY <1>4, <1>5, <3>1, LineLeft
    <3>3. logRef[c]
      BY <1>2, <2>2 DEF IInv, HandedOver, remove_entry, Is
    <3> QED BY <1>4, <1>5, <2>2, <3>1, <3>2, <3>3
  <2>3. CASE add_entry(s)
    <3>1. add(c)
      BY <1>2, <2>3 DEF add_entry
    <3> QED BY <1>4, <3>1, AddMeans
  <2>4. CASE UNCHANGED <<queue, line>>
    BY <1>4, <1>5, <2>4 DEF LineSound
  <2> QED BY <1>2, <2>1, <2>2, <2>3, <2>4 DEF retry_entry, remove_entry
<1>7. PICK r \in Requests :
        /\ request' = [request EXCEPT ![s] = r] /\ r.crawl = (IF r.pc = "idle" THEN NoCrawl ELSE c)
        /\ r.pc \in {"idle", "adding"}
  <2> DEFINE r == [request[s] EXCEPT !.pc = "adding"]
  <2>1. r \in Requests /\ r.crawl = c /\ r.pc = "adding"
    BY <1>2, <1>4 DEF Requests
  <2>2. request' = [request EXCEPT ![s] = r] \/ request' = [request EXCEPT ![s] = NoRequest]
    BY <1>4 DEF retry_entry, remove_entry, add_entry, request_ends, Types
  <2> HIDE DEF r
  <2> QED BY <2>1, <2>2, IdleTyped
<1>8. /\ request' \in [Slots -> Requests] /\ request'[s] = r
      /\ \A u \in Slots : u # s => request'[u] = request[u]
  BY <1>4, <1>7 DEF Types
<1>9. Live' = Live
  BY <1>1 DEF Live
<1> QED BY <1>1, <1>4, <1>6, <1>7, <1>8, <1>9, RequestFrame DEF Types

-----------------------------------------------------------------------------
(* The queue, the worker and crashes.                                      *)

\* An entry is found stalled: only after a crash.
LEMMA RecoverKeeps ==
  ASSUME IInv, NEW c \in Crawls, recover_stalled(c)
  PROVE  IInv' /\ Counted' = Counted
<1> USE DEF database, redis, external
<1>1. UNCHANGED <<status, logRef, audits, made, worker, tabs, proc, request, crashes>>
  BY DEF recover_stalled
<1>2. queue[c] = "active" /\ proc.crawl # c /\ Types /\ LineSound(queue, line)
  BY DEF IInv, recover_stalled
<1>3. /\ queue' \in [Crawls -> Entries] /\ LineSound(queue', line') /\ stalls' \in [Crawls -> 0 .. 1]
      /\ \A d \in Crawls : d # c => queue'[d] = queue[d]
      /\ queue'[c] \in {"waiting", "failed"}
  <2>1. queue \in [Crawls -> Entries] /\ {"waiting", "failed"} \subseteq Entries
    BY <1>2 DEF Types, Entries
  <2>2. CASE stalls[c] = 0
    <3>1. /\ queue' = [queue EXCEPT ![c] = "waiting"] /\ line' = <<c>> \o line
          /\ stalls' = [stalls EXCEPT ![c] = 1]
      BY <2>2 DEF recover_stalled
    <3>2. LineSound(queue', line')
      BY <1>2, <2>1, <3>1, LineLeads
    <3> QED BY <1>2, <2>1, <3>1, <3>2 DEF Types
  <2>3. CASE stalls[c] # 0
    <3>1. queue' = [queue EXCEPT ![c] = "failed"] /\ UNCHANGED <<line, stalls>>
      BY <2>3 DEF recover_stalled
    <3>2. \A d \in Crawls : queue'[d] = "waiting" <=> queue[d] = "waiting"
      BY <1>2, <2>1, <3>1
    <3>3. LineSound(queue', line')
      BY <1>2, <3>1, <3>2 DEF LineSound
    <3> QED BY <1>2, <2>1, <3>1, <3>3 DEF Types
  <2> QED BY <2>2, <2>3
<1>4. Types' /\ LineSound(queue, line)'
  BY <1>1, <1>2, <1>3 DEF Types
<1>5. ActorsKnown' /\ JobsExist'
  BY <1>1 DEF IInv, ActorsKnown, JobsExist
<1>6. Live' = Live /\ Counted' = Counted
  BY <1>1 DEF Live, Counted
<1>7. CountIsRight' /\ QuotaHeld'
  BY <1>1, <1>6, CountKept DEF IInv
<1>8. Fresh'
  BY <1>1, <1>2, <1>3 DEF IInv, Fresh
<1>9. HandedOver'
  BY <1>1, <1>3 DEF IInv, HandedOver
<1>10. Tracked'
  <2>1. crashes # 0
    BY <1>2 DEF IInv, Tracked
  <2>2. proc.pc # "idle" => queue'[proc.crawl] = "active"
    BY <1>2, <1>3 DEF IInv, Tracked, ActorsKnown
  <2> QED BY <1>1, <2>1, <2>2 DEF Tracked
<1> QED BY <1>4, <1>5, <1>6, <1>7, <1>8, <1>9, <1>10 DEF IInv

\* A stage of the worker ends.
LEMMA StageKeeps ==
  ASSUME IInv, NEW c \in Crawls, stage_ends(c)
  PROVE  IInv' /\ Counted' = Counted
<1> USE DEF database, redis, external
<1>1. UNCHANGED <<status, logRef, audits, queue, line, stalls, made, tabs, proc, request, crashes>>
  BY DEF stage_ends
<1>2. Types
  BY DEF IInv
<1>3. /\ worker' \in [Crawls -> (Statuses \ {"PENDING"}) \union {"none"}]
      /\ \A d \in Crawls : worker[d] # "none" => worker'[d] # "none"
  <2>1. PICK w \in {"CRAWLED", "COMPLETED", "FAILED"} : worker' = [worker EXCEPT ![c] = w]
    BY DEF stage_ends
  <2>2. w \in Statuses \ {"PENDING"} /\ w # "none"
    BY DEF Statuses
  <2> QED BY <1>2, <2>1, <2>2 DEF Types
<1>4. Types' /\ LineSound(queue, line)'
  BY <1>1, <1>2, <1>3 DEF IInv, Types, LineSound
<1>5. ActorsKnown' /\ Fresh' /\ HandedOver'
  BY <1>1 DEF IInv, ActorsKnown, Fresh, HandedOver
<1>6. JobsExist'
  BY <1>1, <1>3 DEF IInv, JobsExist, ActorsKnown
<1>7. Live' = Live /\ Counted' = Counted
  BY <1>1 DEF Live, Counted
<1>8. CountIsRight' /\ QuotaHeld'
  BY <1>1, <1>7, CountKept DEF IInv
<1>9. Tracked'
  <2>1. \A d \in Crawls : Pursued(d) => Pursued(d)'
    BY <1>1 DEF Pursued, Begun
  <2> QED BY <1>1, <1>7, <2>1 DEF IInv, Tracked, Live
<1> QED BY <1>4, <1>5, <1>6, <1>7, <1>8, <1>9 DEF IInv

\* The backend dies: what it had begun is forgotten, what it stored is not.
LEMMA CrashKeeps ==
  ASSUME IInv, crash_backend
  PROVE  IInv' /\ Counted' = Counted
<1> USE DEF database, redis, external
<1>1. UNCHANGED <<status, logRef, audits, queue, line, stalls, made, worker>>
  BY DEF crash_backend
<1>2. Types /\ crashes < MaxCrashes /\ crashes' = crashes + 1
  BY DEF IInv, crash_backend
<1>3. crashes' \in 0 .. MaxCrashes /\ crashes' # 0
  BY <1>2, BackendCrashAssumption DEF Types
<1>4. /\ tabs' \in [Tabs -> TabStates]
      /\ \A t \in Tabs : tabs'[t].pc \in {"idle", "done"} /\ tabs'[t].crawl = NoCrawl
  BY DEF crash_backend, NoTab, Closed, TabStates
<1>5. proc' \in ProcStates /\ proc'.pc = "idle" /\ proc'.crawl = NoCrawl
  BY DEF crash_backend, NoProc, ProcStates
<1>6. /\ request' \in [Slots -> Requests]
      /\ \A s \in Slots : request'[s].pc = "idle" /\ request'[s].crawl = NoCrawl
  BY IdleTyped DEF crash_backend
<1>7. Types' /\ LineSound(queue, line)'
  BY <1>1, <1>2, <1>3, <1>4, <1>5, <1>6 DEF IInv, Types, ProcStates, LineSound
<1>8. ActorsKnown' /\ JobsExist' /\ HandedOver' /\ Fresh'
  <2>1. ActorsKnown' /\ Fresh'
    BY <1>1, <1>4, <1>5, <1>6, CrawlAssumption DEF IInv, ActorsKnown, Fresh
  <2>2. JobsExist' /\ HandedOver'
    BY <1>1, <1>5, <1>6 DEF IInv, JobsExist, HandedOver
  <2> QED BY <2>1, <2>2
<1>9. Counted' = Counted
  BY <1>1 DEF Counted, Live
<1>10. CountIsRight' /\ QuotaHeld'
  <2>1. Holders' = {}
    BY <1>4 DEF Holders
  <2> QED BY <1>9, <2>1 DEF IInv, CountIsRight, QuotaHeld, Holders, In
<1>11. Tracked'
  BY <1>3, <1>5 DEF Tracked
<1> QED BY <1>7, <1>8, <1>9, <1>10, <1>11 DEF IInv

-----------------------------------------------------------------------------
(* Init, Next and the theorems.                                            *)

\* The invariant holds at first.
LEMMA InitHolds == Init => IInv
<1> SUFFICES ASSUME Init PROVE IInv
  OBVIOUS
<1>1. Types
  <2>1. {"none", "COMPLETED"} \subseteq Statuses \union {"none"} /\ "COMPLETED" \in Statuses \ {"PENDING"}
    BY DEF Statuses
  <2>2. {"none", "completed"} \subseteq Entries
    BY DEF Entries
  <2>3. NoTab \in TabStates /\ NoProc \in ProcStates /\ crashes \in 0 .. MaxCrashes
    BY BackendCrashAssumption DEF Init, NoTab, NoProc, TabStates, ProcStates
  <2> QED BY <2>1, <2>2, <2>3, IdleTyped DEF Init, Types, ProcStates
<1>2. LineSound(queue, line)
  BY DEF Init, LineSound
<1>3. ActorsKnown /\ HandedOver /\ Fresh
  BY CrawlAssumption DEF Init, ActorsKnown, HandedOver, Fresh, NoTab, NoProc, NoRequest
<1>4. JobsExist
  <2>1. \A c \in Crawls : made[c] = 1 \/ logRef[c] => worker[c] # "none"
    <3>1. \A c \in Legacy : worker[c] = "COMPLETED"
      BY CrawlAssumption DEF Init
    <3>2. \A c \in Crawls : c \notin Legacy => made[c] = 0 /\ ~logRef[c]
      BY DEF Init
    <3> QED BY <3>1, <3>2
  <2> QED BY <2>1 DEF Init, JobsExist, NoProc, NoRequest
<1>5. Live = Legacy
  BY CrawlAssumption DEF Init, Live, Statuses
<1>6. CountIsRight /\ QuotaHeld
  <2>1. Counted = Legacy
    BY <1>5 DEF Init, Counted
  <2> QED BY <2>1, PlanAssumption DEF Init, CountIsRight, QuotaHeld, Holders, In, NoTab
<1>7. Tracked
  BY <1>5, CrawlAssumption DEF Init, Tracked, Pursued, NoProc
<1> QED BY <1>1, <1>2, <1>3, <1>4, <1>6, <1>7 DEF IInv

\* Every step keeps the invariant and gives no conversion back.
LEMMA NextKeeps == IInv /\ [Next]_vars => IInv' /\ Counted \subseteq Counted'
<1> SUFFICES ASSUME IInv, [Next]_vars PROVE IInv' /\ Counted \subseteq Counted'
  OBVIOUS
<1>1. ASSUME NEW t \in Tabs, TabStep(t)
      PROVE  IInv' /\ Counted \subseteq Counted'
  <2>1. CASE lock_account(t) \/ read_audits(t) \/ count_usage(t) \/ refuse(t)
    <3>1. Counted' = Counted
      BY <2>1 DEF lock_account, read_audits, count_usage, refuse, database, Counted, Live
    <3> QED BY <2>1, <3>1, TabKeeps
  <2>2. CASE reserve(t)
    BY <2>2, ReserveKeeps
  <2>3. CASE enqueue(t) \/ enqueue_fails(t)
    BY <2>3, EnqueueKeeps
  <2>4. CASE mark_failed(t)
    BY <2>4, MarkFailedKeeps
  <2> QED BY <1>1, <2>1, <2>2, <2>3, <2>4 DEF TabStep
<1>2. CASE JobStep
  BY <1>2, BeginKeeps, CreateKeeps, SaveRefKeeps, PollKeeps, WriteKeeps, FailKeeps DEF JobStep
<1>3. ASSUME NEW s \in Slots, RequestStep(s)
      PROVE  IInv' /\ Counted \subseteq Counted'
  BY <1>3, ReadsKeep, SaveStatusKeeps, CommandKeeps, EntryKeeps DEF RequestStep
<1>4. ASSUME NEW c \in Crawls,
             \/ deleteSite(c) \/ recover_stalled(c) \/ stage_ends(c)
             \/ /\ c \notin Legacy
                /\ \E s \in Slots : getJobStatus(s, c) \/ post_command(s, c) \/ runJob(s, c)
      PROVE  IInv' /\ Counted \subseteq Counted'
  BY <1>4, DeleteKeeps, RecoverKeeps, StageKeeps, BeginsKeeps
<1>5. CASE crash_backend
  BY <1>5, CrashKeeps
<1>6. CASE UNCHANGED vars
  <2> USE DEF vars, database, redis, external
  <2>1. UNCHANGED <<status, logRef, audits, queue, line, stalls, made, worker, tabs, proc, request, crashes>>
    BY <1>6
  <2>2. Types' /\ LineSound(queue, line)' /\ ActorsKnown' /\ JobsExist'
    BY <2>1 DEF IInv, Types, LineSound, ActorsKnown, JobsExist
  <2>3. Live' = Live /\ Counted' = Counted
    BY <2>1 DEF Live, Counted
  <2>4. CountIsRight' /\ QuotaHeld' /\ Fresh' /\ HandedOver'
    BY <2>1, <2>3, CountKept DEF IInv, Fresh, HandedOver
  <2>5. \A d \in Crawls : Pursued(d) => Pursued(d)'
    BY <2>1 DEF Pursued, Begun
  <2>6. Tracked'
    BY <2>1, <2>3, <2>5 DEF IInv, Tracked, Live
  <2> QED BY <2>2, <2>3, <2>4, <2>6 DEF IInv
<1> QED BY <1>1, <1>2, <1>3, <1>4, <1>5, <1>6 DEF Next

\* The inductive invariant holds, however tabs, requests, the queue worker and
\* crashes of the backend are interleaved.
THEOREM Invariance == Spec => []IInv
BY InitHolds, NextKeeps, PTL DEF Spec

\* Every variable has its type; in particular a crawl has one worker job at
\* most, and waits once at most in the queue.
THEOREM TypeCorrect == Spec => []TypeOK
<1>1. IInv => TypeOK
  BY DEF IInv, Types, TypeOK, LineSound, TabStates
<1> QED BY <1>1, Invariance, PTL

\* No interleaving of createJob in several tabs with deleteSite takes more
\* conversions than the plan has.
THEOREM QuotaIsHeld == Spec => []QuotaHeld
<1>1. IInv => QuotaHeld
  BY DEF IInv
<1> QED BY <1>1, Invariance, PTL

\* No step, deleteSite included, gives a conversion back.
THEOREM UsageIsKept == Spec => UsageKept
<1>1. IInv /\ [Next]_vars => [Counted \subseteq Counted']_vars
  BY NextKeeps
<1> QED BY <1>1, Invariance, PTL DEF Spec, UsageKept

\* Until the backend dies no conversion is stranded: what nobody works on was
\* handed over, waits in the queue or is shown as failed.
THEOREM NothingStranded == Spec => []NotStranded
<1>1. ASSUME IInv, crashes = 0, NEW c \in Crawls
      PROVE  ~Stranded(c)
  <2> SUFFICES ASSUME c \in Live
               PROVE  logRef[c] \/ Busy(c) \/ status[c] = "FAILED" \/ queue[c] \in {"waiting", "active"}
    BY DEF Stranded
  <2>1. Pursued(c)
    BY <1>1 DEF IInv, Tracked
  <2>2. Begun(c) => Busy(c)
    BY DEF Begun, Busy
  <2> QED BY <2>1, <2>2 DEF Pursued
<1>2. IInv => NotStranded
  BY <1>1 DEF NotStranded
<1> QED BY <1>2, Invariance, PTL

=============================================================================
