-------------------------- MODULE SiteCrawl_proofs --------------------------
(***************************************************************************)
(* Proofs about SiteCrawl, for every site, every configuration and any     *)
(* number of crashes: what is recorded is on disk, the limits hold, no     *)
(* discovery is lost, and the crawl implements CrawlLedger.                *)
(***************************************************************************)
EXTENDS SiteCrawl, FiniteSetTheorems, SequenceTheorems, TLAPS

(* What makes a ledger sound.                                              *)

\* An address is in the queue once at most, was queued, and is not there any
\* more when it has been captured; it is captured once.
LedgerSound(l) ==
  /\ l \in Ledgers
  /\ IsFiniteSet(Known(l))
  /\ \A i, j \in DOMAIN l.records : l.records[i].requested = l.records[j].requested => i = j
  /\ \A i, j \in DOMAIN l.queue : l.queue[i].url = l.queue[j].url => i = j
  /\ \A i \in DOMAIN l.records : \A j \in DOMAIN l.queue : l.records[i].requested # l.queue[j].url
  /\ \A i \in DOMAIN l.records : l.records[i].requested \in l.visited
  /\ \A j \in DOMAIN l.queue : l.queue[j].url \in l.queued

\* A limit that holds of a ledger.
Fits(l, max) == max # 0 => Len(l.records) + Len(l.queue) <= max

\* Is there room for further addresses?
Open(l, max) == max = 0 \/ Cardinality(Known(l)) < max

\* No address was captured twice.
Once(l) == \A i, j \in DOMAIN l.records : l.records[i].requested = l.records[j].requested => i = j

OnDisk(w, fs) == \A k \in Kinds : RecordFiles(k, w[k]) \subseteq fs

\* NothingMissed, of one work and whether its source passed for static.
NoneMissed(w, v, c) ==
  v => \A i \in DOMAIN w["page"].records :
         LET r == w["page"].records[i] IN
         /\ Open(w["page"], c.limit["page"]) /\ (c.full \/ r.depth < c.depth) =>
              PageLinks[r.url] \intersect Admissible \subseteq Known(w["page"])
         /\ Open(w["asset"], c.limit["asset"]) =>
              AssetLinks[r.url] \intersect Admissible \subseteq Known(w["asset"])

\* Before the source has passed for static, nothing is queued beside a page
\* that was captured: it is the one that was rejected.
WorkSound(w, v, c) ==
  /\ w \in Works
  /\ c.zip => \A k \in Kinds : Once(w[k])
  /\ ~c.zip =>
       /\ \A k \in Kinds : LedgerSound(w[k]) /\ Fits(w[k], c.limit[k])
       /\ NoneMissed(w, v, c)
       /\ v \/ w["page"].records = <<>> \/ w["page"].queue = <<>>

\* How memory and checkpoint are related: the checkpoint of a crawl that is
\* under way lags behind by one captured page at most.
Progress ==
  /\ phase = "idle" => work = NoWork /\ ~unsaved
  /\ unsaved => phase \in Kinds
  /\ config.zip => phase \in {"idle", "closing", "returning"}
  /\ outcome = "crawled" => phase = "idle"
  /\ phase = "returning" \/ outcome = "crawled" => checkpoint # NoCheckpoint
  /\ ~config.zip /\ phase # "idle" =>
       /\ checkpoint # NoCheckpoint
       /\ checkpoint.completed <=> phase = "returning"
       /\ LET now == work["page"].records
              kept == checkpoint.work["page"].records IN
          now = kept \/ (unsaved /\ now # <<>> /\ now = Append(kept, now[Len(now)]))

CrawlInv ==
  /\ CrawlTypeOK
  /\ WorkSound(work, validated, config) /\ OnDisk(work, files)
  /\ checkpoint # NoCheckpoint =>
       WorkSound(checkpoint.work, checkpoint.validated, config) /\ OnDisk(checkpoint.work, files)
  /\ Progress

-----------------------------------------------------------------------------
(* Ledgers.                                                                *)

\* What was captured and what waits to be fetched, together, are known.
LEMMA KnownCounts ==
  ASSUME NEW l, LedgerSound(l)
  PROVE  /\ Cardinality(Known(l)) \in Nat
         /\ Len(l.records) + Len(l.queue) <= Cardinality(Known(l))
<1> DEFINE m == Len(l.records)
           n == Len(l.queue)
           f == [i \in 1 .. m + n |-> IF i <= m THEN l.records[i].requested ELSE l.queue[i - m].url]
<1>1. /\ l.records \in Seq(Records) /\ l.queue \in Seq(Entries)
      /\ m \in Nat /\ n \in Nat /\ DOMAIN l.records = 1 .. m /\ DOMAIN l.queue = 1 .. n
  BY DEF LedgerSound, Ledgers
<1> HIDE DEF m, n
<1>2. \A i \in 1 .. m + n : IF i <= m THEN i \in 1 .. m ELSE i - m \in 1 .. n
  BY <1>1
<1>3. f \in [1 .. m + n -> Known(l)]
  BY <1>1, <1>2 DEF LedgerSound, Known
<1>4. ASSUME NEW i \in 1 .. m + n, NEW j \in 1 .. m + n, f[i] = f[j]
      PROVE  i = j
  <2>1. CASE i <= m /\ j <= m
    BY <1>1, <1>2, <1>4, <2>1 DEF LedgerSound
  <2>2. CASE ~(i <= m) /\ ~(j <= m)
    <3>1. i - m = j - m
      BY <1>1, <1>2, <1>4, <2>2 DEF LedgerSound
    <3> QED BY <1>1, <3>1
  <2>3. CASE i <= m /\ ~(j <= m)
    BY <1>1, <1>2, <1>4, <2>3 DEF LedgerSound
  <2>4. CASE ~(i <= m) /\ j <= m
    BY <1>1, <1>2, <1>4, <2>4 DEF LedgerSound
  <2> QED BY <2>1, <2>2, <2>3, <2>4
<1> HIDE DEF f
<1>5. f \in Injection(1 .. m + n, Known(l))
  BY <1>3, <1>4 DEF Injection, IsInjective
<1>6. IsFiniteSet(Known(l))
  BY DEF LedgerSound
<1>7. Cardinality(1 .. m + n) <= Cardinality(Known(l)) /\ Cardinality(Known(l)) \in Nat
  BY <1>5, <1>6, FS_Injection, FS_CardinalityType
<1>8. Cardinality(1 .. m + n) = m + n
  BY <1>1, FS_Interval
<1> QED BY <1>7, <1>8 DEF m, n

\* The first entry of the queue is dropped.
LEMMA PoppedSound ==
  ASSUME NEW l, LedgerSound(l), l.queue # <<>>
  PROVE  /\ LedgerSound(Popped(l)) /\ Popped(l).records = l.records
         /\ Known(Popped(l)) = Known(l)
         /\ Len(Popped(l).queue) = Len(l.queue) - 1
<1> DEFINE p == Popped(l)
<1>1. l \in Ledgers /\ l.queue \in Seq(Entries) /\ Len(l.queue) \in Nat \ {0} /\ DOMAIN l.queue = 1 .. Len(l.queue)
  BY DEF LedgerSound, Ledgers
<1>2. /\ p.queue = Tail(l.queue) /\ p.queued = l.queued /\ p.visited = l.visited /\ p.records = l.records
      /\ p \in Ledgers
  <2>1. Tail(l.queue) \in Seq(Entries)
    BY <1>1
  <2> QED BY <1>1, <2>1 DEF Popped, Ledgers
<1>3. /\ DOMAIN p.queue = 1 .. Len(l.queue) - 1 /\ Len(p.queue) = Len(l.queue) - 1
      /\ \A i \in DOMAIN p.queue : p.queue[i] = l.queue[i + 1] /\ i + 1 \in DOMAIN l.queue /\ i \in Nat
  BY <1>1, <1>2
<1> HIDE DEF p
<1>4. LedgerSound(p) /\ Known(p) = Known(l)
  BY <1>2, <1>3 DEF LedgerSound, Known
<1> QED BY <1>2, <1>3, <1>4 DEF p

\* An address that could not be fetched is visited.
LEMMA FailedSound ==
  ASSUME NEW l, LedgerSound(l), NEW u \in Urls
  PROVE  LET f == [l EXCEPT !.visited = @ \union {u}] IN
         /\ LedgerSound(f) /\ f.records = l.records /\ f.queue = l.queue
         /\ Known(l) \subseteq Known(f)
<1> DEFINE f == [l EXCEPT !.visited = @ \union {u}]
<1>1. /\ f.queue = l.queue /\ f.queued = l.queued /\ f.visited = l.visited \union {u} /\ f.records = l.records
      /\ f \in Ledgers
  BY DEF LedgerSound, Ledgers
<1> HIDE DEF f
<1>2. Known(f) = Known(l) \union {u}
  BY <1>1 DEF Known
<1>3. IsFiniteSet(Known(f))
  BY <1>2, FS_AddElement DEF LedgerSound
<1>4. LedgerSound(f)
  BY <1>1, <1>3 DEF LedgerSound
<1> QED BY <1>1, <1>2, <1>4 DEF f

\* The first entry is captured: its record takes its place.
LEMMA CapturedSound ==
  ASSUME NEW l, LedgerSound(l), l.queue # <<>>, Head(l.queue).url \notin l.visited
  PROVE  LET e == Head(l.queue)
             c == Captured(l) IN
         /\ e \in Entries /\ Landing[e.url] \in Urls
         /\ LedgerSound(c) /\ Known(l) \subseteq Known(c)
         /\ Len(c.queue) = Len(l.queue) - 1
         /\ c.records = Append(l.records, [requested |-> e.url, url |-> Landing[e.url], depth |-> e.depth])
<1> DEFINE e == Head(l.queue)
           c == Captured(l)
           r == [requested |-> e.url, url |-> Landing[e.url], depth |-> e.depth]
<1>1. /\ l \in Ledgers /\ l.queue \in Seq(Entries) /\ l.records \in Seq(Records)
      /\ Len(l.queue) \in Nat \ {0} /\ DOMAIN l.queue = 1 .. Len(l.queue)
      /\ Len(l.records) \in Nat /\ DOMAIN l.records = 1 .. Len(l.records)
  BY DEF LedgerSound, Ledgers
<1>2. e \in Entries /\ e = l.queue[1] /\ e.url \in Urls /\ e.depth \in Nat
  <2>1. e \in Entries /\ e = l.queue[1]
    BY <1>1
  <2> HIDE DEF e
  <2> QED BY <2>1 DEF Entries
<1>3. Landing[e.url] \in Urls
  BY <1>2, SiteAssumption
<1>4. r \in Records /\ r.requested = e.url
  BY <1>2, <1>3 DEF Records
<1> HIDE DEF e, r
<1>5. /\ c.queue = Tail(l.queue) /\ c.queued = l.queued /\ c.visited = l.visited \union {e.url, Landing[e.url]}
      /\ c.records = Append(l.records, r)
      /\ c \in Ledgers
  <2>1. Tail(l.queue) \in Seq(Entries) /\ Append(l.records, r) \in Seq(Records)
    BY <1>1, <1>4
  <2>2. c = [Popped(l) EXCEPT !.visited = @ \union {e.url, Landing[e.url]}, !.records = Append(@, r)]
    BY DEF Captured, e, r
  <2>3. /\ Popped(l) \in Ledgers /\ Popped(l).queue = Tail(l.queue) /\ Popped(l).queued = l.queued
        /\ Popped(l).visited = l.visited /\ Popped(l).records = l.records
    BY <1>1, <2>1 DEF Popped, Ledgers
  <2> DEFINE v == l.visited \union {e.url, Landing[e.url]}
             q == Append(l.records, r)
  <2>4. v \in SUBSET Urls
    BY <1>1, <1>2, <1>3 DEF Ledgers
  <2>5. c = [Popped(l) EXCEPT !.visited = v, !.records = q]
    BY <2>2, <2>3
  <2> HIDE DEF v, q, c
  <2>6. c.queue = Tail(l.queue) /\ c.queued = l.queued /\ c.visited = v /\ c.records = q
    BY <2>3, <2>5 DEF Ledgers
  <2>7. c \in Ledgers
    BY <2>1, <2>3, <2>4, <2>5 DEF Ledgers, q
  <2> QED BY <2>6, <2>7 DEF v, q
<1> HIDE DEF c
<1>6. /\ DOMAIN c.queue = 1 .. Len(l.queue) - 1 /\ Len(c.queue) = Len(l.queue) - 1
      /\ \A i \in DOMAIN c.queue : c.queue[i] = l.queue[i + 1] /\ i + 1 \in DOMAIN l.queue /\ i \in Nat /\ i + 1 # 1
  BY <1>1, <1>5
<1>7. /\ DOMAIN c.records = 1 .. Len(l.records) + 1
      /\ \A i \in DOMAIN c.records :
           (i \in DOMAIN l.records /\ c.records[i] = l.records[i]) \/ (i = Len(l.records) + 1 /\ c.records[i] = r)
  BY <1>1, <1>4, <1>5
<1>8. Known(c) = Known(l) \union {e.url, Landing[e.url]}
  BY <1>5 DEF Known
<1>9. IsFiniteSet(Known(c))
  <2>1. IsFiniteSet(Known(l)) /\ {e.url, Landing[e.url]} = {e.url} \union {Landing[e.url]}
    BY DEF LedgerSound
  <2>2. IsFiniteSet(Known(l) \union {e.url})
    BY <2>1, FS_AddElement
  <2>3. IsFiniteSet((Known(l) \union {e.url}) \union {Landing[e.url]})
    BY <2>2, FS_AddElement
  <2>4. Known(c) = (Known(l) \union {e.url}) \union {Landing[e.url]}
    BY <1>8
  <2> QED BY <2>3, <2>4
<1>10. \A i \in DOMAIN l.records : l.records[i].requested # r.requested
  BY <1>4 DEF LedgerSound, e
<1>11. \A i, j \in DOMAIN c.records : c.records[i].requested = c.records[j].requested => i = j
  BY <1>7, <1>10 DEF LedgerSound
<1>12. \A i, j \in DOMAIN c.queue : c.queue[i].url = c.queue[j].url => i = j
  BY <1>6 DEF LedgerSound
<1>13. \A i \in DOMAIN c.queue : c.queue[i].url # e.url
  <2>1. 1 \in DOMAIN l.queue
    BY <1>1
  <2> QED BY <1>2, <1>6, <2>1 DEF LedgerSound
<1>14. \A i \in DOMAIN c.records : \A j \in DOMAIN c.queue : c.records[i].requested # c.queue[j].url
  BY <1>4, <1>6, <1>7, <1>13 DEF LedgerSound
<1>15. \A i \in DOMAIN c.records : c.records[i].requested \in c.visited
  BY <1>4, <1>5, <1>7 DEF LedgerSound
<1>16. \A j \in DOMAIN c.queue : c.queue[j].url \in c.queued
  BY <1>5, <1>6 DEF LedgerSound
<1>17. LedgerSound(c)
  BY <1>5, <1>9, <1>11, <1>12, <1>14, <1>15, <1>16 DEF LedgerSound
<1> QED BY <1>2, <1>3, <1>5, <1>6, <1>8, <1>17 DEF e, c, r

\* What may be queued of a finite set is a finite sequence without repetitions.
LEMMA SelectionIs ==
  ASSUME NEW S, IsFiniteSet(S), NEW s \in Selections(S)
  PROVE  /\ s \in Seq(S) /\ Len(s) \in Nat /\ DOMAIN s = 1 .. Len(s)
         /\ \A i, j \in DOMAIN s : s[i] = s[j] => i = j
         /\ Range(s) \subseteq S /\ IsFiniteSet(Range(s))
         /\ \A i \in DOMAIN s : s[i] \in Range(s)
<1>1. PICK n \in 0 .. Cardinality(S) : s \in [1 .. n -> S] /\ IsInjective(s)
  BY DEF Selections
<1>2. n \in Nat
  BY FS_CardinalityType
<1>3. s \in Seq(S) /\ Len(s) = n
  BY <1>1, <1>2
<1>4. Range(s) \subseteq S /\ \A i \in DOMAIN s : s[i] \in Range(s)
  BY <1>1 DEF Range
<1>5. s \in Surjection(1 .. n, Range(s))
  BY <1>1 DEF Surjection, Range
<1>6. IsFiniteSet(1 .. n)
  BY <1>2, FS_Interval
<1>7. IsFiniteSet(Range(s))
  BY <1>5, <1>6, FS_Surjection
<1> QED BY <1>1, <1>2, <1>3, <1>4, <1>7 DEF IsInjective

\* Discovered addresses are queued: a sound ledger stays sound and within its
\* limit, and while it knows fewer addresses than the limit allows, nothing
\* that was discovered is left out.
LEMMA QueuedSound ==
  ASSUME NEW l, LedgerSound(l), NEW found \in SUBSET Urls, IsFiniteSet(found),
         NEW max \in Nat, NEW s \in Admitted(l, found, max), NEW d \in Nat
  PROVE  LET q == Queued(l, s, d) IN
         /\ LedgerSound(q) /\ q.records = l.records /\ Known(l) \subseteq Known(q)
         /\ Fits(l, max) => Fits(q, max)
         /\ Open(q, max) => found \intersect Admissible \subseteq Known(q)
<1> DEFINE q == Queued(l, s, d)
           t == [i \in 1 .. Len(s) |-> [url |-> s[i], depth |-> d]]
           total == Len(l.records) + Len(l.queue) + Len(s)
<1>1. /\ l \in Ledgers /\ l.queue \in Seq(Entries) /\ l.records \in Seq(Records)
      /\ Len(l.queue) \in Nat /\ DOMAIN l.queue = 1 .. Len(l.queue)
      /\ Len(l.records) \in Nat /\ DOMAIN l.records = 1 .. Len(l.records)
      /\ l.queued \subseteq Urls /\ l.visited \subseteq Urls
  BY DEF LedgerSound, Ledgers
<1>2. IsFiniteSet(Unknown(l, found)) /\ Unknown(l, found) \subseteq Urls
  <2>1. Unknown(l, found) \subseteq found
    BY DEF Unknown
  <2> QED BY <2>1, FS_Subset
<1>3. /\ s \in Selections(Unknown(l, found))
      /\ max = 0 \/ s = <<>> \/ total <= max
      /\ Range(s) = Unknown(l, found) \/ (max # 0 /\ total >= max)
  BY DEF Admitted, _limit_reached
<1>4. /\ s \in Seq(Unknown(l, found)) /\ Len(s) \in Nat /\ DOMAIN s = 1 .. Len(s)
      /\ \A i, j \in DOMAIN s : s[i] = s[j] => i = j
      /\ Range(s) \subseteq Unknown(l, found) /\ IsFiniteSet(Range(s))
      /\ \A i \in DOMAIN s : s[i] \in Range(s)
  BY <1>2, <1>3, SelectionIs
<1>5. t \in Seq(Entries) /\ Len(t) = Len(s) /\ \A i \in 1 .. Len(s) : t[i].url = s[i]
  <2>1. \A i \in 1 .. Len(s) : t[i] \in Entries /\ t[i].url = s[i]
    BY <1>2, <1>4 DEF Entries
  <2>2. t \in [1 .. Len(s) -> Entries]
    BY <2>1
  <2> QED BY <1>4, <2>1, <2>2
<1> HIDE DEF t
<1>6. /\ q.queue = l.queue \o t /\ q.queued = l.queued \union Range(s)
      /\ q.visited = l.visited /\ q.records = l.records
      /\ q \in Ledgers
  <2>1. l.queue \o t \in Seq(Entries) /\ l.queued \union Range(s) \in SUBSET Urls
    BY <1>1, <1>2, <1>4, <1>5
  <2> DEFINE a == l.queue \o t
             b == l.queued \union Range(s)
  <2>2. q = [l EXCEPT !.queue = a, !.queued = b]
    BY DEF Queued, t
  <2> HIDE DEF q, a, b
  <2>3. q.queue = a /\ q.queued = b /\ q.visited = l.visited /\ q.records = l.records
    BY <1>1, <2>2 DEF Ledgers
  <2>4. q \in Ledgers
    BY <1>1, <2>1, <2>2 DEF Ledgers, a, b
  <2> QED BY <2>3, <2>4 DEF a, b
<1> HIDE DEF q
<1>7. /\ Len(q.queue) = Len(l.queue) + Len(s) /\ DOMAIN q.queue = 1 .. Len(l.queue) + Len(s)
      /\ \A i \in DOMAIN q.queue :
           IF i <= Len(l.queue) THEN i \in DOMAIN l.queue /\ q.queue[i] = l.queue[i]
           ELSE i - Len(l.queue) \in DOMAIN s /\ q.queue[i].url = s[i - Len(l.queue)]
  <2>1. /\ Len(l.queue \o t) = Len(l.queue) + Len(t)
        /\ l.queue \o t \in Seq(Entries)
        /\ \A i \in 1 .. Len(l.queue) + Len(t) : (l.queue \o t)[i] =
             IF i <= Len(l.queue) THEN l.queue[i] ELSE t[i - Len(l.queue)]
    BY <1>1, <1>5, ConcatProperties
  <2>2. Len(q.queue) = Len(l.queue) + Len(s) /\ DOMAIN q.queue = 1 .. Len(l.queue) + Len(s)
    BY <1>5, <1>6, <2>1
  <2>3. \A i \in DOMAIN q.queue : ~(i <= Len(l.queue)) => i - Len(l.queue) \in 1 .. Len(s)
    BY <1>1, <1>4, <2>2
  <2> QED BY <1>1, <1>4, <1>5, <1>6, <2>1, <2>2, <2>3
<1>8. Known(q) = Known(l) \union Range(s)
  BY <1>6 DEF Known
<1>9. IsFiniteSet(Known(q))
  <2>1. IsFiniteSet(Known(l))
    BY DEF LedgerSound
  <2>2. IsFiniteSet(Range(s))
    BY <1>4
  <2>3. IsFiniteSet(Known(l) \union Range(s))
    BY <2>1, <2>2, FS_Union
  <2> QED BY <1>8, <2>3
<1>10. ASSUME NEW i \in DOMAIN q.queue, NEW j \in DOMAIN q.queue, q.queue[i].url = q.queue[j].url
       PROVE  i = j
  <2>1. i \in Nat /\ j \in Nat
    BY <1>1, <1>4, <1>7
  <2>2. CASE i <= Len(l.queue) /\ j <= Len(l.queue)
    BY <1>7, <1>10, <2>2 DEF LedgerSound
  <2>3. CASE ~(i <= Len(l.queue)) /\ ~(j <= Len(l.queue))
    <3>1. i - Len(l.queue) = j - Len(l.queue)
      BY <1>4, <1>7, <1>10, <2>3
    <3> QED BY <1>1, <2>1, <3>1
  <2>4. \A a \in DOMAIN l.queue : \A b \in DOMAIN s : l.queue[a].url # s[b]
    BY <1>4 DEF LedgerSound, Unknown
  <2> QED BY <1>7, <1>10, <2>2, <2>3, <2>4
<1>11. ASSUME NEW i \in DOMAIN q.records, NEW j \in DOMAIN q.queue
       PROVE  q.records[i].requested # q.queue[j].url
  <2>1. l.records[i].requested \in l.visited
    BY <1>6 DEF LedgerSound
  <2>2. CASE j <= Len(l.queue)
    BY <1>6, <1>7, <2>2 DEF LedgerSound
  <2>3. CASE ~(j <= Len(l.queue))
    BY <1>4, <1>6, <1>7, <2>1, <2>3 DEF Unknown
  <2> QED BY <2>2, <2>3
<1>12. \A j \in DOMAIN q.queue : q.queue[j].url \in q.queued
  BY <1>4, <1>6, <1>7 DEF LedgerSound
<1>13. LedgerSound(q)
  BY <1>6, <1>9, <1>10, <1>11, <1>12 DEF LedgerSound
<1>14. /\ Len(q.records) + Len(q.queue) = total /\ total \in Nat
       /\ s = <<>> => total = Len(l.records) + Len(l.queue)
  <2>1. Len(q.records) = Len(l.records) /\ Len(q.queue) = Len(l.queue) + Len(s)
    BY <1>6, <1>7
  <2>2. s = <<>> => Len(s) = 0
    OBVIOUS
  <2>3. Len(l.records) \in Nat /\ Len(l.queue) \in Nat /\ Len(s) \in Nat
    BY <1>1, <1>4
  <2> DEFINE a == Len(l.records)
             b == Len(l.queue)
             n == Len(s)
  <2> HIDE DEF a, b, n
  <2>4. total = a + b + n /\ Len(q.records) = a /\ Len(q.queue) = b + n /\ a \in Nat /\ b \in Nat /\ n \in Nat
    BY <2>1, <2>3 DEF a, b, n
  <2> HIDE DEF total
  <2>5. s = <<>> => n = 0
    BY <2>2 DEF n
  <2>6. Len(q.records) + Len(q.queue) = total /\ total \in Nat
    BY <2>4
  <2>7. s = <<>> => total = a + b
    BY <2>4, <2>5
  <2> QED BY <2>6, <2>7 DEF a, b
<1> HIDE DEF total
<1>15. Fits(l, max) => Fits(q, max)
  BY <1>3, <1>14 DEF Fits
<1>16. Open(q, max) => found \intersect Admissible \subseteq Known(q)
  <2>1. Cardinality(Known(q)) \in Nat /\ total <= Cardinality(Known(q))
    BY <1>13, <1>14, KnownCounts
  <2>2. Open(q, max) => Range(s) = Unknown(l, found)
    BY <1>3, <1>14, <2>1 DEF Open
  <2>3. Range(s) = Unknown(l, found) => found \intersect Admissible \subseteq Known(q)
    BY <1>8 DEF Unknown, Known
  <2> QED BY <2>2, <2>3
<1> QED BY <1>6, <1>8, <1>13, <1>15, <1>16 DEF q

\* A ledger that knows more has room only where one that knows less has.
LEMMA KnownGrows ==
  ASSUME NEW l, NEW m, LedgerSound(l), LedgerSound(m), Known(l) \subseteq Known(m), NEW max \in Nat
  PROVE  Open(m, max) => Open(l, max)
<1>1. Cardinality(Known(l)) <= Cardinality(Known(m))
  BY FS_Subset DEF LedgerSound
<1>2. Cardinality(Known(l)) \in Nat /\ Cardinality(Known(m)) \in Nat
  BY KnownCounts
<1> QED BY <1>1, <1>2 DEF Open

\* A file per record.
LEMMA FilesOf ==
  ASSUME NEW k, NEW l, NEW fs
  PROVE  RecordFiles(k, l) \subseteq fs <=> \A i \in DOMAIN l.records : <<k, i, l.records[i].url>> \in fs
BY DEF RecordFiles, SnapshotFile

-----------------------------------------------------------------------------
(* Works.                                                                  *)

\* The constants have the types the proofs use.
LEMMA ConfigTyped ==
  ASSUME config \in Configs
  PROVE  /\ config \in ConfigRecords /\ config.zip \in BOOLEAN /\ config.resume \in BOOLEAN
         /\ config.static \in BOOLEAN /\ config.sitemap \in BOOLEAN
         /\ \A k \in Kinds : config.limit[k] \in Nat
BY ConfigAssumption DEF ConfigRecords

\* A ledger with one address waiting, or with nothing, is sound.
LEMMA SmallSound ==
  ASSUME NEW l \in Ledgers, l.records = <<>>, l.visited = {},
         \/ l.queue = <<>> /\ l.queued = {}
         \/ l.queue = <<[url |-> Root, depth |-> 0]>> /\ l.queued = {Root},
         NEW max \in Nat
  PROVE  LedgerSound(l) /\ Fits(l, max)
<1>1. IsFiniteSet(Known(l))
  <2>1. Known(l) = {} \/ Known(l) = {Root}
    BY DEF Known
  <2>2. IsFiniteSet({}) /\ IsFiniteSet({Root})
    BY FS_EmptySet, FS_Singleton
  <2> QED BY <2>1, <2>2
<1>2. DOMAIN l.records = {} /\ Len(l.records) = 0
  OBVIOUS
<1>3. CASE l.queue = <<>>
  <2>1. DOMAIN l.queue = {} /\ Len(l.queue) = 0
    BY <1>3
  <2> QED BY <1>1, <1>2, <2>1 DEF LedgerSound, Fits
<1>4. CASE l.queue = <<[url |-> Root, depth |-> 0]>> /\ l.queued = {Root}
  <2>1. DOMAIN l.queue = {1} /\ Len(l.queue) = 1 /\ l.queue[1].url = Root
    BY <1>4
  <2>2. LedgerSound(l)
    BY <1>1, <1>2, <1>4, <2>1 DEF LedgerSound
  <2>3. Fits(l, max)
    BY <1>2, <2>1 DEF Fits
  <2> QED BY <2>2, <2>3
<1> QED BY <1>3, <1>4

\* What a call starts with.
LEMMA FreshSound ==
  ASSUME config \in Configs, NEW v, NEW w \in {NoWork, FreshWork}
  PROVE  WorkSound(w, v, config) /\ (\A fs : OnDisk(w, fs)) /\ w["page"].records = <<>>
<1>1. EmptyLedger \in Ledgers
  <2>1. <<>> \in Seq(Entries) /\ <<>> \in Seq(Records)
    OBVIOUS
  <2> QED BY <2>1 DEF EmptyLedger, Ledgers
<1> DEFINE rooted == [EmptyLedger EXCEPT !.queue = <<[url |-> Root, depth |-> 0]>>, !.queued = {Root}]
<1>2. rooted \in Ledgers /\ rooted.queue = <<[url |-> Root, depth |-> 0]>> /\ rooted.queued = {Root}
      /\ rooted.records = <<>> /\ rooted.visited = {}
  <2> DEFINE e == [url |-> Root, depth |-> 0]
  <2>1. e \in Entries
    BY SiteAssumption DEF Entries
  <2> HIDE DEF e
  <2>2. <<e>> \in Seq(Entries) /\ <<>> \in Seq(Entries) /\ <<>> \in Seq(Records)
    BY <2>1
  <2>3. {Root} \in SUBSET Urls /\ EmptyLedger.records = <<>> /\ EmptyLedger.visited = {}
    BY SiteAssumption DEF EmptyLedger
  <2> DEFINE q == <<e>>
             r == {Root}
  <2>4. rooted = [EmptyLedger EXCEPT !.queue = q, !.queued = r]
    BY DEF e
  <2>5. q \in Seq(Entries) /\ r \in SUBSET Urls
    BY <2>2, <2>3
  <2> HIDE DEF rooted, q, r
  <2>6. rooted.queue = q /\ rooted.queued = r /\ rooted.visited = {} /\ rooted.records = <<>>
    BY <1>1, <2>3, <2>4 DEF Ledgers
  <2>7. rooted \in Ledgers
    BY <1>1, <2>4, <2>5 DEF Ledgers
  <2> QED BY <2>6, <2>7 DEF e, q, r
<1> HIDE DEF rooted
<1>3. \A k \in Kinds : w[k] \in {EmptyLedger, rooted}
  <2>1. \A k \in Kinds : NoWork[k] = EmptyLedger
    BY DEF NoWork
  <2>2. FreshWork = [NoWork EXCEPT !["page"] = rooted]
    BY <2>1 DEF FreshWork, rooted, Kinds, NoWork
  <2>3. \A k \in Kinds : FreshWork[k] \in {EmptyLedger, rooted}
    BY <2>1, <2>2 DEF NoWork
  <2> QED BY <2>1, <2>3
<1>4. w \in Works
  <2>1. NoWork \in Works
    BY <1>1 DEF NoWork, Works
  <2>2. FreshWork \in Works
    <3>1. FreshWork = [NoWork EXCEPT !["page"] = rooted]
      BY DEF FreshWork, rooted, Kinds, NoWork
    <3> QED BY <1>2, <2>1, <3>1 DEF Works
  <2> QED BY <2>1, <2>2
<1>5. \A k \in Kinds : w[k].records = <<>> /\ LedgerSound(w[k]) /\ Fits(w[k], config.limit[k])
  <2>1. EmptyLedger.records = <<>> /\ EmptyLedger.queue = <<>> /\ EmptyLedger.queued = {} /\ EmptyLedger.visited = {}
    BY DEF EmptyLedger
  <2>2. \A max \in Nat : LedgerSound(EmptyLedger) /\ Fits(EmptyLedger, max)
    BY <1>1, <2>1, SmallSound
  <2>3. \A max \in Nat : LedgerSound(rooted) /\ Fits(rooted, max)
    BY <1>2, SmallSound
  <2> QED BY <1>2, <1>3, <2>1, <2>2, <2>3, ConfigTyped
<1>6. w["page"].records = <<>>
  BY <1>5 DEF Kinds
<1>7. NoneMissed(w, v, config)
  BY <1>6 DEF NoneMissed
<1>8. \A fs : OnDisk(w, fs)
  BY <1>5 DEF OnDisk, RecordFiles
<1> QED BY <1>4, <1>5, <1>6, <1>7, <1>8 DEF WorkSound, Once

\* Ledgers that know at least as much, with the same pages captured, miss
\* nothing either.
LEMMA NoneMissedGrows ==
  ASSUME config \in Configs, NEW w, NEW x, NEW v,
         \A k \in Kinds : LedgerSound(w[k]) /\ LedgerSound(x[k]) /\ Known(w[k]) \subseteq Known(x[k]),
         x["page"].records = w["page"].records, NoneMissed(w, v, config)
  PROVE  NoneMissed(x, v, config)
<1>1. \A k \in Kinds : Open(x[k], config.limit[k]) => Open(w[k], config.limit[k])
  BY KnownGrows, ConfigTyped
<1> QED BY <1>1 DEF NoneMissed, Kinds

\* What a checkpoint holds.
LEMMA PayloadIs ==
  ASSUME NEW d \in BOOLEAN, NEW w \in Works, NEW v \in BOOLEAN, NEW s \in BOOLEAN
  PROVE  LET p == Payload(d, w, v, s) IN
         /\ p \in Payloads /\ p # NoCheckpoint
         /\ p.completed = d /\ p.work = w /\ p.validated = v /\ p.seeded = s
BY CheckpointAssumption DEF Payload, Payloads

-----------------------------------------------------------------------------
(* Every step keeps the invariant.                                         *)

\* A call starts: it resumes a sound work or starts with one.
LEMMA StartKeeps ==
  ASSUME CrawlInv, start_crawl
  PROVE  CrawlInv'
<1> USE DEF CrawlInv, start_crawl
<1>1. /\ work' \in Works /\ validated' \in BOOLEAN /\ seeded' \in BOOLEAN
      /\ WorkSound(work', validated', config) /\ OnDisk(work', files')
  <2>1. CASE Resumable(checkpoint)
    <3>1. checkpoint \in Payloads /\ config.resume /\ checkpoint # NoCheckpoint
      BY <2>1 DEF Resumable, CrawlTypeOK
    <3>2. files' = files /\ work' = checkpoint.work /\ validated' = checkpoint.validated /\ seeded' = checkpoint.seeded
      BY <2>1, <3>1 DEF _prepare_crawl_storage
    <3>3. WorkSound(checkpoint.work, checkpoint.validated, config) /\ OnDisk(checkpoint.work, files)
      BY <3>1
    <3>4. checkpoint.work \in Works /\ checkpoint.validated \in BOOLEAN /\ checkpoint.seeded \in BOOLEAN
      BY <3>1 DEF Payloads
    <3> QED BY <3>2, <3>3, <3>4
  <2>2. CASE ~Resumable(checkpoint)
    <3>1. work' = FreshWork /\ validated' = ~config.static /\ seeded' = ~config.sitemap
      BY <2>2
    <3>2. WorkSound(FreshWork, validated', config) /\ OnDisk(FreshWork, files')
      BY FreshSound DEF CrawlTypeOK
    <3>3. FreshWork \in Works
      BY <3>2 DEF WorkSound
    <3> QED BY <3>1, <3>2, <3>3
  <2> QED BY <2>1, <2>2
<1>2. /\ checkpoint' \in Payloads /\ checkpoint' # NoCheckpoint
      /\ checkpoint'.completed = FALSE /\ checkpoint'.work = work' /\ checkpoint'.validated = validated'
  <2>1. PICK d \in BOOLEAN : checkpoint' = Payload(d, work', validated', seeded') /\ d = FALSE
    OBVIOUS
  <2> HIDE DEF CrawlInv, start_crawl
  <2> QED BY <1>1, <2>1, PayloadIs
<1>3. CrawlTypeOK'
  <2>1. files' \subseteq Kinds \X Nat \X Urls
    BY DEF CrawlTypeOK, _prepare_crawl_storage
  <2> QED BY <1>1, <1>2, <2>1 DEF CrawlTypeOK, Phases
<1>4. Progress'
  BY <1>1, <1>2 DEF Progress, Kinds, CrawlTypeOK
<1> QED BY <1>1, <1>2, <1>3, <1>4 DEF CrawlTypeOK

\* The engine saves the result, or the process dies: memory is lost.
LEMMA EndKeeps ==
  ASSUME CrawlInv, return_crawl \/ crash_crawl
  PROVE  CrawlInv'
<1> USE DEF CrawlInv
<1>1. /\ unsaved' = FALSE /\ work' = NoWork /\ validated' = FALSE /\ seeded' = FALSE /\ rejected' = FALSE
      /\ phase' = "idle" /\ config' = config /\ checkpoint' = checkpoint /\ files' = files /\ phase # "idle"
  BY DEF return_crawl, crash_crawl, Forgotten, disk
<1>2. WorkSound(NoWork, validated', config) /\ OnDisk(NoWork, files) /\ NoWork \in Works
  BY FreshSound DEF CrawlTypeOK, WorkSound
<1>3. CrawlTypeOK'
  <2>1. outcome' \in {"none", "crawled", "failed"} /\ crashes' \in 0 .. MaxCrashes
    BY CrashAssumption DEF return_crawl, crash_crawl, Result, CrawlTypeOK
  <2> QED BY <1>1, <1>2, <2>1 DEF CrawlTypeOK, Phases
<1>4. Progress'
  BY <1>1 DEF Progress, return_crawl, crash_crawl, Kinds
<1> QED BY <1>1, <1>2, <1>3, <1>4

\* The checkpoint is written: it holds what memory holds.
LEMMA SaveKeeps ==
  ASSUME CrawlInv, save_turn \/ complete_crawl
  PROVE  CrawlInv'
<1> USE DEF CrawlInv
<1>1. /\ work' = work /\ validated' = validated /\ files' = files /\ config' = config
      /\ work \in Works /\ validated \in BOOLEAN /\ seeded \in BOOLEAN
  BY DEF save_turn, complete_crawl, CrawlTypeOK, memory
<1>2. PICK d \in BOOLEAN : checkpoint' = Payload(d, work, validated, seeded) /\ (d <=> complete_crawl)
  BY DEF save_turn, complete_crawl, persist_checkpoint, Progress, Kinds
<1>3. /\ checkpoint' \in Payloads /\ checkpoint' # NoCheckpoint
      /\ checkpoint'.completed = d /\ checkpoint'.work = work /\ checkpoint'.validated = validated
  BY <1>1, <1>2, PayloadIs
<1>4. CrawlTypeOK'
  BY <1>1, <1>3 DEF CrawlTypeOK, save_turn, complete_crawl, memory, Phases
<1>5. Progress'
  <2>1. CASE save_turn
    <3>1. phase' = phase /\ unsaved' = FALSE /\ phase \in Kinds /\ outcome' = outcome /\ ~d
      BY <1>2, <2>1 DEF save_turn, complete_crawl, Progress, Kinds
    <3> QED BY <1>1, <1>3, <3>1 DEF Progress, Kinds
  <2>2. CASE complete_crawl
    <3>1. phase = "closing" /\ phase' = "returning" /\ unsaved' = unsaved /\ unsaved = FALSE /\ outcome' = outcome /\ d
      BY <1>2, <2>2 DEF complete_crawl, Progress, memory, Kinds, CrawlTypeOK
    <3> QED BY <1>1, <1>3, <3>1 DEF Progress, Kinds
  <2> QED BY <2>1, <2>2
<1> QED BY <1>1, <1>3, <1>4, <1>5

\* A loop is left.
LEMMA LeaveKeeps ==
  ASSUME CrawlInv, NEW k \in Kinds, leave_loop(k)
  PROVE  CrawlInv'
<1> USE DEF CrawlInv, leave_loop, memory, disk
<1>1. CrawlTypeOK'
  BY DEF CrawlTypeOK, Phases, Kinds
<1>2. Progress'
  BY DEF Progress, Kinds
<1> QED BY <1>1, <1>2 DEF CrawlTypeOK

\* A step between two runs of the crawl changes at most the count of crashes.
LEMMA PauseKeeps ==
  ASSUME CrawlInv, UNCHANGED <<config, phase, memory, disk, outcome>>, crashes' \in 0 .. MaxCrashes
  PROVE  CrawlInv'
<1> USE DEF CrawlInv, memory, disk
<1>1. CrawlTypeOK'
  BY DEF CrawlTypeOK
<1>2. Progress'
  BY DEF Progress
<1> QED BY <1>1, <1>2 DEF CrawlTypeOK

\* A ledger with as many records and no longer a queue fits as well.
LEMMA FitsShorter ==
  ASSUME NEW l, NEW m, NEW max \in Nat, Fits(l, max),
         NEW a \in Nat, NEW b \in Nat, NEW c \in Nat, c <= b,
         Len(l.records) = a, Len(m.records) = a, Len(l.queue) = b, Len(m.queue) = c
  PROVE  Fits(m, max)
<1>1. max # 0 => a + b <= max
  BY DEF Fits
<1>2. max # 0 => a + c <= max
  BY <1>1
<1> QED BY <1>2 DEF Fits

\* The queue of a rejected source is cleared.
LEMMA ClearedSound ==
  ASSUME NEW l, LedgerSound(l), NEW max \in Nat, Fits(l, max),
         NEW c, c = [l EXCEPT !.queue = <<>>, !.queued = {}]
  PROVE  LedgerSound(c) /\ Fits(c, max) /\ c.records = l.records /\ c.queue = <<>>
<1>1. c.queue = <<>> /\ c.queued = {} /\ c.visited = l.visited /\ c.records = l.records /\ c \in Ledgers
  <2>1. <<>> \in Seq(Entries)
    OBVIOUS
  <2> QED BY <2>1 DEF LedgerSound, Ledgers
<1>2. IsFiniteSet(Known(c))
  <2>1. IsFiniteSet(Known(l)) /\ Known(c) \subseteq Known(l)
    BY <1>1 DEF LedgerSound, Known
  <2> QED BY <2>1, FS_Subset
<1>3. DOMAIN c.queue = {} /\ Len(c.queue) = 0
  BY <1>1
<1>4. LedgerSound(c)
  BY <1>1, <1>2, <1>3 DEF LedgerSound
<1>5. Fits(c, max)
  <2>1. Len(l.records) \in Nat /\ Len(l.queue) \in Nat
    BY DEF LedgerSound, Ledgers
  <2>2. Len(c.records) = Len(l.records) /\ 0 \in Nat /\ 0 <= Len(l.queue)
    BY <1>1, <2>1
  <2> QED BY <1>3, <2>1, <2>2, FitsShorter
<1> QED BY <1>1, <1>4, <1>5

\* A ledger with one more record, and the file of that record.
LEMMA FileAdded ==
  ASSUME NEW k, NEW l, LedgerSound(l), NEW fs, RecordFiles(k, l) \subseteq fs,
         NEW r \in Records, NEW m, m.records = Append(l.records, r)
  PROVE  RecordFiles(k, m) \subseteq fs \union {SnapshotFile(k, Len(l.records) + 1, r.url)}
<1>1. l.records \in Seq(Records) /\ Len(l.records) \in Nat
  BY DEF LedgerSound, Ledgers
<1>2. \A i \in DOMAIN m.records :
         (i \in DOMAIN l.records /\ m.records[i] = l.records[i]) \/ (i = Len(l.records) + 1 /\ m.records[i] = r)
  BY <1>1
<1> QED BY <1>2 DEF RecordFiles

\* What holds within a turn of a loop.
LEMMA InTheLoop ==
  ASSUME CrawlInv, NEW k \in Kinds, InLoop(k)
  PROVE  /\ ~config.zip /\ phase = k /\ unsaved = FALSE /\ outcome # "crawled"
         /\ \A j \in Kinds : /\ work[j] \in Ledgers /\ LedgerSound(work[j]) /\ Fits(work[j], config.limit[j])
                             /\ RecordFiles(j, work[j]) \subseteq files /\ config.limit[j] \in Nat
         /\ NoneMissed(work, validated, config)
         /\ validated \/ work["page"].records = <<>> \/ work["page"].queue = <<>>
         /\ checkpoint # NoCheckpoint /\ checkpoint.completed = FALSE
         /\ work["page"].records = checkpoint.work["page"].records
         /\ WorkSound(checkpoint.work, checkpoint.validated, config) /\ OnDisk(checkpoint.work, files)
<1>1. phase = k /\ unsaved = FALSE /\ config \in Configs /\ work \in Works /\ phase # "idle" /\ phase # "returning"
      /\ checkpoint \in Payloads \union {NoCheckpoint}
  BY DEF CrawlInv, InLoop, CrawlTypeOK, Kinds
<1>2. ~config.zip /\ outcome # "crawled"
  BY <1>1 DEF CrawlInv, Progress, Kinds
<1>3. checkpoint # NoCheckpoint /\ ~checkpoint.completed /\ work["page"].records = checkpoint.work["page"].records
  BY <1>1, <1>2 DEF CrawlInv, Progress
<1>4. checkpoint.completed = FALSE
  BY <1>1, <1>3 DEF Payloads
<1>5. \A j \in Kinds : work[j] \in Ledgers /\ config.limit[j] \in Nat
  BY <1>1, ConfigTyped DEF Works
<1>6. WorkSound(work, validated, config) /\ OnDisk(work, files)
      /\ WorkSound(checkpoint.work, checkpoint.validated, config) /\ OnDisk(checkpoint.work, files)
  BY <1>3 DEF CrawlInv
<1> QED BY <1>1, <1>2, <1>3, <1>4, <1>5, <1>6 DEF WorkSound, OnDisk

\* An entry leaves the queue without being captured.
LEMMA DropKeeps ==
  ASSUME CrawlInv, NEW k \in Kinds, InLoop(k),
         NEW l, LedgerSound(l), l.records = work[k].records, Known(work[k]) \subseteq Known(l),
         Len(l.queue) = Len(work[k].queue) - 1, work' = [work EXCEPT ![k] = l],
         UNCHANGED <<config, phase, unsaved, validated, seeded, rejected, disk, outcome, crashes>>
  PROVE  CrawlInv'
<1>1. CrawlTypeOK /\ work \in Works
  BY DEF CrawlInv, CrawlTypeOK
<1>2. \A j \in Kinds : work'[j] = IF j = k THEN l ELSE work[j]
  BY <1>1 DEF Works
<1>3. work' \in Works
  BY <1>1 DEF Works, LedgerSound
<1>4. \A j \in Kinds : /\ LedgerSound(work'[j]) /\ work'[j].records = work[j].records
                       /\ Known(work[j]) \subseteq Known(work'[j])
  BY <1>2, InTheLoop
<1>5. \A j \in Kinds : Fits(work'[j], config.limit[j])
  <2>1. Len(work[k].queue) \in Nat /\ Len(work[k].records) \in Nat
    BY <1>1 DEF Works, Ledgers
  <2>2. Fits(work[k], config.limit[k]) /\ config.limit[k] \in Nat
    BY InTheLoop
  <2>3. Fits(l, config.limit[k])
    <3>1. Len(l.queue) \in Nat /\ Len(l.queue) <= Len(work[k].queue)
      <4>1. Len(l.queue) \in Nat
        BY DEF LedgerSound, Ledgers
      <4> QED BY <2>1, <4>1
    <3>2. Len(l.records) = Len(work[k].records)
      OBVIOUS
    <3> QED BY <2>1, <2>2, <3>1, <3>2, FitsShorter
  <2> QED BY <1>2, <2>3, InTheLoop
<1>6. NoneMissed(work', validated, config)
  <2>1. config \in Configs /\ work'["page"].records = work["page"].records /\ NoneMissed(work, validated, config)
        /\ \A j \in Kinds : LedgerSound(work[j])
    BY <1>1, <1>4, InTheLoop DEF CrawlTypeOK, Kinds
  <2> QED BY <1>4, <2>1, NoneMissedGrows
<1>7. validated \/ work'["page"].records = <<>> \/ work'["page"].queue = <<>>
  <2>1. work'["page"].records = work["page"].records
    BY <1>4 DEF Kinds
  <2>2. k = "page" \/ work'["page"] = work["page"]
    BY <1>2 DEF Kinds
  <2> QED BY <2>1, <2>2, InTheLoop DEF InLoop
<1>8. WorkSound(work', validated, config)
  <2>1. ~config.zip
    BY InTheLoop
  <2> QED BY <1>3, <1>4, <1>5, <1>6, <1>7, <2>1 DEF WorkSound
<1>9. OnDisk(work', files)
  BY <1>4, InTheLoop DEF OnDisk, RecordFiles
<1>10. CrawlTypeOK'
  BY <1>1, <1>3 DEF CrawlTypeOK, disk
<1>11. Progress'
  <2>1. work'["page"].records = work["page"].records
    BY <1>4 DEF Kinds
  <2>2. phase # "idle"
    BY InTheLoop DEF Kinds
  <2> QED BY <2>1, <2>2 DEF Progress, CrawlInv, disk
<1> QED BY <1>8, <1>9, <1>10, <1>11, InTheLoop DEF CrawlInv, disk

\* An address that was tried already is skipped.
LEMMA SkipKeeps ==
  ASSUME CrawlInv, NEW k \in Kinds, skip_visited(k)
  PROVE  CrawlInv'
<1>1. InLoop(k) /\ work[k].queue # <<>> /\ work' = [work EXCEPT ![k] = Popped(work[k])]
      /\ UNCHANGED <<config, phase, unsaved, validated, seeded, rejected, disk, outcome, crashes>>
  BY DEF skip_visited, InLoop
<1>2. LedgerSound(work[k])
  BY <1>1, InTheLoop
<1>3. /\ LedgerSound(Popped(work[k])) /\ Popped(work[k]).records = work[k].records
      /\ Known(Popped(work[k])) = Known(work[k]) /\ Len(Popped(work[k]).queue) = Len(work[k].queue) - 1
  BY <1>1, <1>2, PoppedSound
<1> QED BY <1>1, <1>3, DropKeeps

\* An address that cannot be fetched is given up.
LEMMA FailKeeps ==
  ASSUME CrawlInv, NEW k \in Kinds, fetch_fails(k)
  PROVE  CrawlInv'
<1> DEFINE u == Head(work[k].queue).url
           l == GivenUp(work[k], u)
<1>1. InLoop(k) /\ work[k].queue # <<>> /\ work' = [work EXCEPT ![k] = l]
      /\ UNCHANGED <<config, phase, unsaved, validated, seeded, rejected, disk, outcome, crashes>>
  BY DEF fetch_fails, InLoop
<1>2. LedgerSound(work[k])
  BY <1>1, InTheLoop
<1>3. /\ LedgerSound(Popped(work[k])) /\ Popped(work[k]).records = work[k].records
      /\ Known(Popped(work[k])) = Known(work[k]) /\ Len(Popped(work[k]).queue) = Len(work[k].queue) - 1
  BY <1>1, <1>2, PoppedSound
<1>4. u \in Urls
  <2>1. work[k].queue \in Seq(Entries)
    BY <1>2 DEF LedgerSound, Ledgers
  <2>2. Head(work[k].queue) \in Entries
    BY <1>1, <2>1
  <2> QED BY <2>2 DEF Entries
<1>5. /\ LedgerSound(l) /\ l.records = Popped(work[k]).records /\ l.queue = Popped(work[k]).queue
      /\ Known(Popped(work[k])) \subseteq Known(l)
  BY <1>3, <1>4, FailedSound DEF GivenUp
<1> HIDE DEF l
<1> QED BY <1>1, <1>3, <1>5, DropKeeps

\* A capture moves an entry from the queue to the records.
LEMMA FitsMoved ==
  ASSUME NEW l, NEW m, NEW max \in Nat, Fits(l, max),
         NEW a \in Nat, NEW b \in Nat,
         Len(l.records) = a, Len(m.records) = a + 1, Len(l.queue) = b, Len(m.queue) = b - 1
  PROVE  Fits(m, max)
<1>1. max # 0 => a + b <= max
  BY DEF Fits
<1>2. max # 0 => (a + 1) + (b - 1) <= max
  BY <1>1
<1> QED BY <1>2 DEF Fits

\* The record of the entry that is fetched, and what its capture does to the
\* ledger.
LEMMA CaptureStep ==
  ASSUME CrawlInv, NEW k \in Kinds, InLoop(k), Head(work[k].queue).url \notin work[k].visited
  PROVE  LET e == Head(work[k].queue)
             c == Captured(work[k])
             r == [requested |-> e.url, url |-> Landing[e.url], depth |-> e.depth] IN
         /\ e \in Entries /\ e.depth \in Nat /\ e.url \in Urls /\ Landing[e.url] \in Urls
         /\ r \in Records /\ r.url = Landing[e.url] /\ r.depth = e.depth
         /\ LedgerSound(c) /\ Known(work[k]) \subseteq Known(c) /\ Fits(c, config.limit[k])
         /\ work[k].records \in Seq(Records) /\ c.records = Append(work[k].records, r)
         /\ \A m : m.records = c.records => RecordFiles(k, m) \subseteq files \union {NewFile(k)}
         /\ files \union {NewFile(k)} \subseteq Kinds \X Nat \X Urls
<1> DEFINE e == Head(work[k].queue)
           c == Captured(work[k])
           r == [requested |-> e.url, url |-> Landing[e.url], depth |-> e.depth]
<1>1. /\ LedgerSound(work[k]) /\ Fits(work[k], config.limit[k]) /\ config.limit[k] \in Nat
      /\ RecordFiles(k, work[k]) \subseteq files /\ work[k].queue # <<>>
  BY InTheLoop DEF InLoop
<1>2. /\ e \in Entries /\ Landing[e.url] \in Urls
      /\ LedgerSound(c) /\ Known(work[k]) \subseteq Known(c)
      /\ Len(c.queue) = Len(work[k].queue) - 1
      /\ c.records = Append(work[k].records, r)
  BY <1>1, CapturedSound
<1>3. /\ work[k].records \in Seq(Records) /\ work[k].queue \in Seq(Entries)
      /\ Len(work[k].records) \in Nat /\ Len(work[k].queue) \in Nat
  BY <1>1 DEF LedgerSound, Ledgers
<1> HIDE DEF c
<1>4. e.depth \in Nat /\ e.url \in Urls
  <2> HIDE DEF e
  <2> QED BY <1>2 DEF Entries
<1>5. r \in Records /\ r.url = Landing[e.url] /\ r.depth = e.depth
  <2> HIDE DEF e
  <2> QED BY <1>2, <1>4 DEF Records
<1> HIDE DEF r
<1>6. Fits(c, config.limit[k])
  <2>1. Len(c.records) = Len(work[k].records) + 1
    BY <1>2, <1>3, <1>5
  <2> QED BY <1>1, <1>2, <1>3, <2>1, FitsMoved
<1>7. NewFile(k) = SnapshotFile(k, Len(work[k].records) + 1, r.url)
  BY <1>5 DEF NewFile, e
<1>8. ASSUME NEW m, m.records = c.records
      PROVE  RecordFiles(k, m) \subseteq files \union {NewFile(k)}
  BY <1>1, <1>2, <1>5, <1>7, <1>8, FileAdded
<1>9. files \union {NewFile(k)} \subseteq Kinds \X Nat \X Urls
  <2>1. files \subseteq Kinds \X Nat \X Urls
    BY DEF CrawlInv, CrawlTypeOK
  <2>2. r.url \in Urls
    BY <1>2, <1>5
  <2>3. SnapshotFile(k, Len(work[k].records) + 1, r.url) \in Kinds \X Nat \X Urls
    BY <1>3, <2>2 DEF SnapshotFile
  <2> QED BY <1>7, <2>1, <2>3
<1> QED BY <1>2, <1>3, <1>4, <1>5, <1>6, <1>8, <1>9 DEF e, c, r

\* A step within the loop that writes a file and waits for the checkpoint.
LEMMA UnsavedKeeps ==
  ASSUME CrawlInv, NEW k \in Kinds, InLoop(k),
         NEW r, work["page"].records \in Seq(Records), r \in Records,
         \/ work'["page"].records = work["page"].records
         \/ work'["page"].records = Append(work["page"].records, r),
         WorkSound(work', validated', config), OnDisk(work', files'),
         files \subseteq files', files' \subseteq Kinds \X Nat \X Urls,
         validated' \in BOOLEAN, seeded' \in BOOLEAN, rejected' \in BOOLEAN, unsaved' = TRUE,
         UNCHANGED <<config, phase, checkpoint, outcome, crashes>>
  PROVE  CrawlInv'
<1>1. CrawlTypeOK'
  BY DEF CrawlInv, CrawlTypeOK, WorkSound
<1>2. /\ ~config.zip /\ phase = k /\ outcome # "crawled" /\ checkpoint # NoCheckpoint
      /\ checkpoint.completed = FALSE /\ work["page"].records = checkpoint.work["page"].records
      /\ WorkSound(checkpoint.work, checkpoint.validated, config) /\ OnDisk(checkpoint.work, files)
  BY InTheLoop
<1>3. OnDisk(checkpoint.work, files')
  BY <1>2 DEF OnDisk
<1>4. LET now == work'["page"].records
          kept == checkpoint.work["page"].records IN
      now = kept \/ (now # <<>> /\ now = Append(kept, now[Len(now)]))
  BY <1>2
<1>5. Progress'
  BY <1>2, <1>4 DEF Progress, Kinds
<1> QED BY <1>1, <1>2, <1>3, <1>5 DEF CrawlInv

\* The links and assets of a captured page are finitely many addresses.
LEMMA FoundTyped ==
  ASSUME NEW u \in Urls
  PROVE  /\ PageLinks[u] \in SUBSET Urls /\ IsFiniteSet(PageLinks[u])
         /\ AssetLinks[u] \in SUBSET Urls /\ IsFiniteSet(AssetLinks[u])
BY SiteAssumption

\* An asset is captured.
LEMMA CaptureAssetKeeps ==
  ASSUME CrawlInv, capture_asset
  PROVE  CrawlInv'
<1> DEFINE a == work["asset"]
           e == Head(a.queue)
           c == Captured(a)
           max == config.limit["asset"]
<1>1. InLoop("asset") /\ e.url \notin a.visited /\ "asset" \in Kinds
  BY DEF capture_asset, Kinds
<1>2. /\ e.url \in Urls /\ Landing[e.url] \in Urls
      /\ LedgerSound(c) /\ Known(a) \subseteq Known(c) /\ Fits(c, max)
      /\ \A m : m.records = c.records => RecordFiles("asset", m) \subseteq files \union {NewFile("asset")}
      /\ files \union {NewFile("asset")} \subseteq Kinds \X Nat \X Urls
  BY <1>1, CaptureStep
<1>3. PICK r \in Records : TRUE
  BY <1>1, CaptureStep
<1> HIDE DEF c
<1>4. PICK nested \in Admitted(c, AssetLinks[Landing[e.url]], max) :
        work' = [work EXCEPT !["asset"] = Queued(c, nested, 0)]
  BY DEF capture_asset, c, Limit
<1>5. PICK q : q = Queued(c, nested, 0)
  OBVIOUS
<1>6. /\ LedgerSound(q) /\ q.records = c.records /\ Known(c) \subseteq Known(q) /\ Fits(q, max)
  <2>1. max \in Nat /\ 0 \in Nat
    BY <1>1, InTheLoop
  <2> HIDE DEF e, max
  <2> QED BY <1>2, <1>4, <1>5, <2>1, FoundTyped, QueuedSound
<1>7. work' \in Works /\ work'["asset"] = q /\ work'["page"] = work["page"]
  <2>1. work \in Works
    BY DEF CrawlInv, CrawlTypeOK
  <2> QED BY <1>4, <1>5, <1>6, <2>1 DEF Works, Kinds, LedgerSound
<1>8. /\ LedgerSound(a) /\ LedgerSound(work["page"]) /\ Fits(work["page"], config.limit["page"])
      /\ RecordFiles("page", work["page"]) \subseteq files
      /\ NoneMissed(work, validated, config)
      /\ validated \/ work["page"].records = <<>> \/ work["page"].queue = <<>>
  BY <1>1, InTheLoop DEF Kinds
<1>9. \A k \in Kinds : /\ LedgerSound(work[k]) /\ LedgerSound(work'[k]) /\ Fits(work'[k], config.limit[k])
                       /\ Known(work[k]) \subseteq Known(work'[k])
  BY <1>2, <1>6, <1>7, <1>8 DEF Kinds
<1>10. NoneMissed(work', validated, config)
  <2>1. config \in Configs
    BY DEF CrawlInv, CrawlTypeOK
  <2> QED BY <1>7, <1>8, <1>9, <2>1, NoneMissedGrows
<1>11. WorkSound(work', validated', config)
  <2>1. ~config.zip
    BY <1>1, InTheLoop
  <2> QED BY <1>7, <1>8, <1>9, <1>10, <2>1 DEF WorkSound, capture_asset
<1>12. files' = files \union {NewFile("asset")}
  BY DEF capture_asset
<1>13. OnDisk(work', files')
  BY <1>2, <1>6, <1>7, <1>8, <1>12 DEF OnDisk, Kinds
<1>14. /\ work["page"].records \in Seq(Records) /\ validated' \in BOOLEAN /\ seeded' \in BOOLEAN /\ rejected' \in BOOLEAN
       /\ unsaved' = TRUE /\ UNCHANGED <<config, phase, checkpoint, outcome, crashes>>
  BY <1>8 DEF CrawlInv, CrawlTypeOK, capture_asset, LedgerSound, Ledgers
<1> QED BY <1>1, <1>2, <1>3, <1>7, <1>11, <1>12, <1>13, <1>14, UnsavedKeeps

\* The first page does not pass for static.
LEMMA RejectKeeps ==
  ASSUME CrawlInv, reject_source
  PROVE  CrawlInv'
<1> DEFINE p == work["page"]
           a == work["asset"]
           e == Head(p.queue)
           c == Captured(p)
           r == [requested |-> e.url, url |-> Landing[e.url], depth |-> e.depth]
<1>1. InLoop("page") /\ e.url \notin p.visited /\ "page" \in Kinds /\ "asset" \in Kinds /\ validated' = FALSE
  BY DEF reject_source, Kinds, CrawlInv, CrawlTypeOK
<1>2. /\ LedgerSound(c) /\ Fits(c, config.limit["page"])
      /\ r \in Records /\ p.records \in Seq(Records) /\ c.records = Append(p.records, r)
      /\ \A m : m.records = c.records => RecordFiles("page", m) \subseteq files \union {NewFile("page")}
      /\ files \union {NewFile("page")} \subseteq Kinds \X Nat \X Urls
  BY <1>1, CaptureStep
<1>3. /\ LedgerSound(a) /\ Fits(a, config.limit["asset"]) /\ RecordFiles("asset", a) \subseteq files
      /\ config.limit["page"] \in Nat /\ config.limit["asset"] \in Nat
  BY <1>1, InTheLoop
<1> HIDE DEF c, r
<1>4. PICK x : x = [c EXCEPT !.queue = <<>>, !.queued = {}]
  OBVIOUS
<1>5. PICK y : y = [a EXCEPT !.queue = <<>>, !.queued = {}]
  OBVIOUS
<1>6. work' = [k \in Kinds |-> IF k = "page" THEN x ELSE y]
  <2>1. work' = [k \in Kinds |-> [ (IF k = "page" THEN Captured(work[k]) ELSE work[k])
                                   EXCEPT !.queue = <<>>, !.queued = {} ]]
    BY DEF reject_source
  <2>2. \A k \in Kinds : [ (IF k = "page" THEN Captured(work[k]) ELSE work[k]) EXCEPT !.queue = <<>>, !.queued = {} ]
                         = IF k = "page" THEN x ELSE y
    BY <1>4, <1>5 DEF Kinds, c
  <2> QED BY <2>1, <2>2
<1>7. /\ LedgerSound(x) /\ Fits(x, config.limit["page"]) /\ x.records = c.records /\ x.queue = <<>>
      /\ LedgerSound(y) /\ Fits(y, config.limit["asset"]) /\ y.records = a.records
  <2> HIDE DEF a
  <2>1. LedgerSound(x) /\ Fits(x, config.limit["page"]) /\ x.records = c.records /\ x.queue = <<>>
    BY <1>2, <1>3, <1>4, ClearedSound
  <2>2. LedgerSound(y) /\ Fits(y, config.limit["asset"]) /\ y.records = a.records
    BY <1>3, <1>5, ClearedSound
  <2> QED BY <2>1, <2>2
<1>8. work' \in Works /\ work'["page"] = x /\ work'["asset"] = y
  BY <1>6, <1>7 DEF Works, Kinds, LedgerSound
<1>9. WorkSound(work', validated', config)
  <2>1. ~config.zip
    BY <1>1, InTheLoop
  <2> QED BY <1>1, <1>7, <1>8, <2>1 DEF WorkSound, NoneMissed, Kinds
<1>10. files' = files \union {NewFile("page")}
  BY DEF reject_source
<1>11. OnDisk(work', files')
  <2>1. RecordFiles("asset", y) = RecordFiles("asset", a)
    BY <1>7 DEF RecordFiles
  <2> QED BY <1>2, <1>3, <1>7, <1>8, <1>10, <2>1 DEF OnDisk, Kinds
<1>12. /\ validated' \in BOOLEAN /\ seeded' \in BOOLEAN /\ rejected' \in BOOLEAN
       /\ unsaved' = TRUE /\ UNCHANGED <<config, phase, checkpoint, outcome, crashes>>
  BY DEF CrawlInv, CrawlTypeOK, reject_source
<1> QED BY <1>1, <1>2, <1>7, <1>8, <1>9, <1>10, <1>11, <1>12, UnsavedKeeps

\* What the sitemaps list and what a page leads to are finitely many addresses.
LEMMA SeedsTyped ==
  ASSUME NEW listed \in SeedLists, NEW e \in Entries
  PROVE  /\ listed \in SUBSET Urls /\ IsFiniteSet(listed)
         /\ Followed(e) \in SUBSET Urls /\ IsFiniteSet(Followed(e))
<1>1. listed \in SUBSET Urls /\ IsFiniteSet(listed)
  <2>1. listed = {} \/ (listed \subseteq Sitemap /\ IsFiniteSet(Sitemap) /\ Sitemap \subseteq Urls)
    BY SiteAssumption DEF SeedLists
  <2> QED BY <2>1, FS_Subset, FS_EmptySet
<1>2. Landing[e.url] \in Urls
  BY SiteAssumption DEF Entries
<1>3. PageLinks[Landing[e.url]] \in SUBSET Urls /\ IsFiniteSet(PageLinks[Landing[e.url]]) /\ IsFiniteSet({})
  BY <1>2, FoundTyped, FS_EmptySet
<1>4. Followed(e) = {} \/ Followed(e) = PageLinks[Landing[e.url]]
  BY DEF Followed
<1> QED BY <1>1, <1>3, <1>4

\* A page is captured, and what it leads to is queued.
LEMMA CapturePageKeeps ==
  ASSUME CrawlInv, capture_page
  PROVE  CrawlInv'
<1> DEFINE p == work["page"]
           a == work["asset"]
           e == Head(p.queue)
           u == Landing[e.url]
           c == Captured(p)
           r == [requested |-> e.url, url |-> u, depth |-> e.depth]
           max == config.limit["page"]
           amax == config.limit["asset"]
<1>1. InLoop("page") /\ e.url \notin p.visited /\ "page" \in Kinds /\ "asset" \in Kinds /\ p.queue # <<>>
  BY DEF capture_page, Kinds, InLoop
<1>2. /\ e \in Entries /\ e.depth \in Nat /\ u \in Urls
      /\ r \in Records /\ r.url = u /\ r.depth = e.depth
      /\ LedgerSound(c) /\ Known(p) \subseteq Known(c) /\ Fits(c, max)
      /\ p.records \in Seq(Records) /\ c.records = Append(p.records, r)
      /\ \A m : m.records = c.records => RecordFiles("page", m) \subseteq files \union {NewFile("page")}
      /\ files \union {NewFile("page")} \subseteq Kinds \X Nat \X Urls
  BY <1>1, CaptureStep
<1>3. /\ max \in Nat /\ amax \in Nat /\ LedgerSound(a) /\ Fits(a, amax) /\ LedgerSound(p)
      /\ RecordFiles("asset", a) \subseteq files
      /\ NoneMissed(work, validated, config) /\ (validated \/ p.records = <<>>)
  BY <1>1, InTheLoop
<1> HIDE DEF c, r
<1>4. PICK listed \in SeedLists : \E seeds \in Admitted(c, listed, max) :
        \E links \in Admitted(Queued(c, seeds, e.depth + 1), Followed(e), max) :
        \E assets \in Admitted(a, AssetLinks[u], amax) :
          work' = [k \in Kinds |->
                     IF k = "page" THEN Queued(Queued(c, seeds, e.depth + 1), links, e.depth + 1)
                     ELSE Queued(a, assets, 0)]
  BY DEF capture_page, c, Limit
<1>5. PICK seeds \in Admitted(c, listed, max) :
        \E links \in Admitted(Queued(c, seeds, e.depth + 1), Followed(e), max) :
        \E assets \in Admitted(a, AssetLinks[u], amax) :
          work' = [k \in Kinds |->
                     IF k = "page" THEN Queued(Queued(c, seeds, e.depth + 1), links, e.depth + 1)
                     ELSE Queued(a, assets, 0)]
  BY <1>4
<1>6. PICK s : s = Queued(c, seeds, e.depth + 1)
  OBVIOUS
<1>7. PICK links \in Admitted(s, Followed(e), max), assets \in Admitted(a, AssetLinks[u], amax) :
        work' = [k \in Kinds |-> IF k = "page" THEN Queued(s, links, e.depth + 1) ELSE Queued(a, assets, 0)]
  BY <1>5, <1>6
<1>8. PICK q : q = Queued(s, links, e.depth + 1)
  OBVIOUS
<1>9. PICK b : b = Queued(a, assets, 0)
  OBVIOUS
<1>10. PICK d \in Nat : d = e.depth + 1
  BY <1>2
<1>11. /\ listed \in SUBSET Urls /\ IsFiniteSet(listed)
       /\ Followed(e) \in SUBSET Urls /\ IsFiniteSet(Followed(e))
       /\ AssetLinks[u] \in SUBSET Urls /\ IsFiniteSet(AssetLinks[u])
  <2> HIDE DEF e, u
  <2> QED BY <1>2, <1>4, SeedsTyped, FoundTyped
<1>12. LedgerSound(s) /\ s.records = c.records /\ Known(c) \subseteq Known(s) /\ Fits(s, max)
  <2> HIDE DEF e, u, max, a, p
  <2> QED BY <1>2, <1>3, <1>5, <1>6, <1>10, <1>11, QueuedSound
<1>13. /\ LedgerSound(q) /\ q.records = c.records /\ Known(s) \subseteq Known(q) /\ Fits(q, max)
       /\ Open(q, max) => Followed(e) \intersect Admissible \subseteq Known(q)
  <2> HIDE DEF e, u, max, a, p
  <2> QED BY <1>3, <1>7, <1>8, <1>10, <1>11, <1>12, QueuedSound
<1>14. /\ LedgerSound(b) /\ b.records = a.records /\ Known(a) \subseteq Known(b) /\ Fits(b, amax)
       /\ Open(b, amax) => AssetLinks[u] \intersect Admissible \subseteq Known(b)
  <2> HIDE DEF e, u, amax, a, p
  <2>1. 0 \in Nat
    OBVIOUS
  <2> QED BY <1>3, <1>7, <1>9, <1>11, <2>1, QueuedSound
<1>15. work' \in Works /\ work'["page"] = q /\ work'["asset"] = b
  <2>1. work' = [k \in Kinds |-> IF k = "page" THEN q ELSE b]
    BY <1>7, <1>8, <1>9
  <2> QED BY <1>13, <1>14, <2>1 DEF Works, Kinds, LedgerSound
<1>16. NoneMissed(work', TRUE, config)
  <2> SUFFICES ASSUME NEW i \in DOMAIN q.records
               PROVE  LET x == q.records[i] IN
                      /\ Open(q, max) /\ (config.full \/ x.depth < config.depth) =>
                           PageLinks[x.url] \intersect Admissible \subseteq Known(q)
                      /\ Open(b, amax) =>
                           AssetLinks[x.url] \intersect Admissible \subseteq Known(b)
    BY <1>15 DEF NoneMissed
  <2>1. CASE i \in DOMAIN p.records
    <3>1. validated /\ q.records[i] = p.records[i]
      <4>1. p.records # <<>>
        BY <2>1
      <4>2. q.records = Append(p.records, r) /\ p.records \in Seq(Records)
        BY <1>2, <1>13
      <4>3. q.records[i] = p.records[i]
        BY <1>2, <2>1, <4>2
      <4> QED BY <1>3, <4>1, <4>3
    <3>2. Known(p) \subseteq Known(q)
      BY <1>2, <1>12, <1>13
    <3>3. (Open(q, max) => Open(p, max)) /\ (Open(b, amax) => Open(a, amax))
      <4> HIDE DEF max, amax, p, a
      <4> QED BY <1>3, <1>13, <1>14, <3>2, KnownGrows
    <3> QED BY <1>3, <1>14, <2>1, <3>1, <3>2, <3>3 DEF NoneMissed
  <2>2. CASE i \notin DOMAIN p.records
    <3>1. q.records[i] = r
      <4>1. q.records = Append(p.records, r) /\ p.records \in Seq(Records) /\ r \in Records
        BY <1>2, <1>13
      <4> HIDE DEF p
      <4> QED BY <2>2, <4>1
    <3>2. q.records[i].url = u /\ q.records[i].depth = e.depth
      BY <1>2, <3>1
    <3>3. config.full \/ e.depth < config.depth => Followed(e) = PageLinks[u]
      BY DEF Followed
    <3> HIDE DEF e, u, max, amax
    <3> QED BY <1>13, <1>14, <3>2, <3>3
  <2> QED BY <2>1, <2>2
<1>17. validated' = TRUE /\ files' = files \union {NewFile("page")}
  BY DEF capture_page
<1>18. WorkSound(work', validated', config)
  <2>1. \A k \in Kinds : LedgerSound(work'[k]) /\ Fits(work'[k], config.limit[k])
    BY <1>13, <1>14, <1>15 DEF Kinds
  <2>2. ~config.zip
    BY <1>1, InTheLoop
  <2> QED BY <1>15, <1>16, <1>17, <2>1, <2>2 DEF WorkSound
<1>19. OnDisk(work', files')
  <2>1. RecordFiles("asset", b) = RecordFiles("asset", a)
    BY <1>14 DEF RecordFiles
  <2> QED BY <1>2, <1>3, <1>13, <1>15, <1>17, <2>1 DEF OnDisk, Kinds
<1>20. /\ validated' \in BOOLEAN /\ seeded' \in BOOLEAN /\ rejected' \in BOOLEAN
       /\ unsaved' = TRUE /\ UNCHANGED <<config, phase, checkpoint, outcome, crashes>>
  BY DEF CrawlInv, CrawlTypeOK, capture_page
<1>21. work'["page"].records = Append(work["page"].records, r)
  BY <1>2, <1>13, <1>15
<1>22. files \subseteq files' /\ files' \subseteq Kinds \X Nat \X Urls
  BY <1>2, <1>17
<1> QED BY <1>1, <1>2, <1>18, <1>19, <1>20, <1>21, <1>22, UnsavedKeeps

\* Without the resume flag both files and checkpoint are removed; nothing that
\* stays refers to a file that goes.
LEMMA StorageKept ==
  ASSUME CrawlInv, NEW more, files' = more \union _prepare_crawl_storage,
         checkpoint' = IF config.resume THEN checkpoint ELSE NoCheckpoint
  PROVE  /\ checkpoint' # NoCheckpoint =>
              /\ checkpoint' = checkpoint
              /\ WorkSound(checkpoint.work, checkpoint.validated, config) /\ OnDisk(checkpoint.work, files')
         /\ checkpoint' \in Payloads \union {NoCheckpoint}
         /\ more \subseteq Kinds \X Nat \X Urls => files' \subseteq Kinds \X Nat \X Urls
<1>1. checkpoint \in Payloads \union {NoCheckpoint} /\ files \subseteq Kinds \X Nat \X Urls
  BY DEF CrawlInv, CrawlTypeOK
<1>2. checkpoint # NoCheckpoint =>
        WorkSound(checkpoint.work, checkpoint.validated, config) /\ OnDisk(checkpoint.work, files)
  BY DEF CrawlInv
<1>3. config.resume => files \subseteq files'
  BY DEF _prepare_crawl_storage
<1>4. files' \subseteq more \union files
  BY DEF _prepare_crawl_storage
<1> QED BY <1>1, <1>2, <1>3, <1>4 DEF OnDisk

\* A ledger read from an archive.
LEMMA ArchiveSound ==
  ASSUME NEW k \in Kinds, NEW s \in Selections(Archive[k])
  PROVE  LET l == FromArchive(s) IN
         l \in Ledgers /\ Once(l) /\ RecordFiles(k, l) \subseteq Kinds \X Nat \X Urls
<1> DEFINE t == [i \in 1 .. Len(s) |-> [requested |-> s[i], url |-> s[i], depth |-> 0]]
<1>1. /\ s \in Seq(Urls) /\ Len(s) \in Nat /\ DOMAIN s = 1 .. Len(s)
      /\ \A i, j \in DOMAIN s : s[i] = s[j] => i = j
  <2>1. IsFiniteSet(Archive[k]) /\ Archive[k] \subseteq Urls
    BY SiteAssumption
  <2> QED BY <2>1, SelectionIs
<1>2. t \in Seq(Records) /\ DOMAIN t = 1 .. Len(s)
      /\ \A i \in 1 .. Len(s) : t[i].requested = s[i] /\ t[i].url = s[i] /\ s[i] \in Urls /\ i \in Nat
  <2>1. \A i \in 1 .. Len(s) : t[i] \in Records /\ t[i].requested = s[i] /\ t[i].url = s[i] /\ s[i] \in Urls
    BY <1>1 DEF Records
  <2>2. t \in [1 .. Len(s) -> Records]
    BY <2>1
  <2> QED BY <1>1, <2>1, <2>2
<1> HIDE DEF t
<1>3. PICK l : l = FromArchive(s)
  OBVIOUS
<1>4. l \in Ledgers /\ l.records = t
  <2>1. EmptyLedger \in Ledgers
    <3>1. <<>> \in Seq(Entries) /\ <<>> \in Seq(Records)
      OBVIOUS
    <3> QED BY <3>1 DEF EmptyLedger, Ledgers
  <2>2. l = [EmptyLedger EXCEPT !.records = t]
    BY <1>3 DEF FromArchive, t
  <2> QED BY <1>2, <2>1, <2>2 DEF Ledgers
<1>5. Once(l)
  BY <1>1, <1>2, <1>4 DEF Once
<1>6. RecordFiles(k, l) \subseteq Kinds \X Nat \X Urls
  BY <1>2, <1>4 DEF RecordFiles, SnapshotFile
<1> QED BY <1>3, <1>4, <1>5, <1>6

\* An archive is unpacked.
LEMMA UnpackKeeps ==
  ASSUME CrawlInv, unpack_archive
  PROVE  CrawlInv'
<1>1. PICK pages \in Selections(Archive["page"]), assets \in Selections(Archive["asset"]), dynamic \in {FALSE, config.static} :
        /\ work' = [k \in Kinds |-> FromArchive(IF k = "page" THEN pages ELSE assets)]
        /\ rejected' = dynamic
        /\ validated' = (pages # <<>>)
  BY DEF unpack_archive
<1>2. /\ config \in Configs /\ config.zip /\ config.static \in BOOLEAN /\ unsaved = FALSE /\ phase = "idle"
      /\ outcome # "crawled"
  BY ConfigTyped DEF unpack_archive, CrawlInv, CrawlTypeOK, Progress
<1>3. \A k \in Kinds : /\ work'[k] \in Ledgers /\ Once(work'[k])
                       /\ RecordFiles(k, work'[k]) \subseteq Kinds \X Nat \X Urls
  <2>1. work'["page"] = FromArchive(pages) /\ work'["asset"] = FromArchive(assets)
    BY <1>1 DEF Kinds
  <2> QED BY <2>1, ArchiveSound DEF Kinds
<1>4. work' \in Works
  BY <1>1, <1>3 DEF Works
<1>5. WorkSound(work', validated', config)
  BY <1>2, <1>3, <1>4 DEF WorkSound
<1> DEFINE more == UNION {RecordFiles(k, work'[k]) : k \in Kinds}
<1>6. more \subseteq Kinds \X Nat \X Urls
  BY <1>3
<1>7. files' = more \union _prepare_crawl_storage
      /\ checkpoint' = IF config.resume THEN checkpoint ELSE NoCheckpoint
  <2>1. files' = more \union _prepare_crawl_storage
    BY DEF unpack_archive
  <2>2. checkpoint' = IF config.resume THEN checkpoint ELSE NoCheckpoint
    BY DEF unpack_archive
  <2> QED BY <2>1, <2>2
<1>8. OnDisk(work', files')
  BY <1>7 DEF OnDisk
<1> HIDE DEF more
<1>9. /\ checkpoint' # NoCheckpoint =>
           /\ checkpoint' = checkpoint
           /\ WorkSound(checkpoint.work, checkpoint.validated, config) /\ OnDisk(checkpoint.work, files')
      /\ checkpoint' \in Payloads \union {NoCheckpoint}
      /\ files' \subseteq Kinds \X Nat \X Urls
  BY <1>6, <1>7, StorageKept
<1>10. /\ config' = config /\ phase' = "closing" /\ unsaved' = FALSE /\ seeded' = seeded /\ outcome' = outcome
       /\ crashes' = crashes /\ rejected' \in BOOLEAN /\ validated' \in BOOLEAN
  BY <1>1, <1>2 DEF unpack_archive
<1>11. CrawlTypeOK'
  BY <1>2, <1>4, <1>9, <1>10 DEF CrawlInv, CrawlTypeOK, Phases
<1>12. Progress'
  BY <1>2, <1>10 DEF Progress, Kinds
<1> QED BY <1>5, <1>8, <1>9, <1>10, <1>11, <1>12 DEF CrawlInv

\* An archive that cannot be read leaves nothing behind.
LEMMA ArchiveFailsKeeps ==
  ASSUME CrawlInv, archive_fails
  PROVE  CrawlInv'
<1>1. /\ config' = config /\ phase = "idle" /\ phase' = "idle" /\ outcome' = "failed" /\ config.zip /\ outcome # "crawled"
      /\ UNCHANGED memory /\ crashes' = crashes /\ config \in Configs
  BY DEF archive_fails, CrawlInv, CrawlTypeOK
<1>2. files' = {} \union _prepare_crawl_storage
      /\ checkpoint' = IF config.resume THEN checkpoint ELSE NoCheckpoint
  BY DEF archive_fails
<1>3. /\ checkpoint' # NoCheckpoint =>
           /\ checkpoint' = checkpoint
           /\ WorkSound(checkpoint.work, checkpoint.validated, config) /\ OnDisk(checkpoint.work, files')
      /\ checkpoint' \in Payloads \union {NoCheckpoint}
      /\ files' \subseteq Kinds \X Nat \X Urls
  <2>1. \A X : {} \subseteq X
    OBVIOUS
  <2>2. PICK more : more = {}
    OBVIOUS
  <2>3. more \subseteq Kinds \X Nat \X Urls
    BY <2>1, <2>2
  <2>4. files' = more \union _prepare_crawl_storage
    BY <1>2, <2>2
  <2> QED BY <1>2, <2>3, <2>4, StorageKept
<1>4. work = NoWork /\ unsaved = FALSE
  BY <1>1 DEF CrawlInv, Progress, CrawlTypeOK
<1>5. WorkSound(work', validated', config) /\ OnDisk(work', files')
  BY <1>1, <1>4, FreshSound DEF memory
<1>6. CrawlTypeOK'
  BY <1>1, <1>3 DEF CrawlInv, CrawlTypeOK, memory
<1>7. Progress'
  BY <1>1, <1>4 DEF Progress, memory, Kinds
<1> QED BY <1>1, <1>3, <1>5, <1>6, <1>7 DEF CrawlInv

\* Every step of the crawl keeps the invariant.
LEMMA StepKeeps ==
  ASSUME CrawlInv, CrawlStep \/ crash_crawl
  PROVE  CrawlInv'
<1>1. CASE start_crawl
  BY <1>1, StartKeeps
<1>2. CASE capture_page
  BY <1>2, CapturePageKeeps
<1>3. CASE reject_source
  BY <1>3, RejectKeeps
<1>4. CASE capture_asset
  BY <1>4, CaptureAssetKeeps
<1>5. CASE save_turn \/ complete_crawl
  BY <1>5, SaveKeeps
<1>6. CASE return_crawl \/ crash_crawl
  BY <1>6, EndKeeps
<1>7. CASE unpack_archive
  BY <1>7, UnpackKeeps
<1>8. CASE archive_fails
  BY <1>8, ArchiveFailsKeeps
<1>9. CASE \E k \in Kinds : skip_visited(k) \/ fetch_fails(k) \/ leave_loop(k)
  BY <1>9, SkipKeeps, FailKeeps, LeaveKeeps
<1> QED BY <1>1, <1>2, <1>3, <1>4, <1>5, <1>6, <1>7, <1>8, <1>9 DEF CrawlStep

\* The invariant holds before the first call.
LEMMA InitHolds ==
  ASSUME CrawlInit
  PROVE  CrawlInv
<1> USE DEF CrawlInit
<1>1. WorkSound(work, validated, config) /\ OnDisk(work, files) /\ work \in Works
  BY FreshSound DEF WorkSound
<1>2. CrawlTypeOK
  <2>1. crashes \in 0 .. MaxCrashes
    BY CrashAssumption
  <2>2. files \subseteq Kinds \X Nat \X Urls
    OBVIOUS
  <2> QED BY <1>1, <2>1, <2>2 DEF CrawlTypeOK, Phases
<1>3. Progress
  BY DEF Progress
<1> QED BY <1>1, <1>2, <1>3 DEF CrawlInv

-----------------------------------------------------------------------------
(* What the invariant says.                                                *)

\* Memory and checkpoint hold sound works.
LEMMA HeldSound ==
  ASSUME CrawlInv, NEW w \in Held
  PROVE  /\ w \in Works /\ OnDisk(w, files)
         /\ WorkSound(w, IF w = work THEN validated ELSE checkpoint.validated, config)
BY DEF CrawlInv, Held, Saved, WorkSound

\* The invariant implies what the runs check.
LEMMA InvImplies ==
  ASSUME CrawlInv
  PROVE  CrawlTypeOK /\ CapturedOnce /\ CheckpointBacked /\ WithinLimits /\ NothingMissed
<1>1. CrawlTypeOK
  BY DEF CrawlInv
<1>2. \A w \in Held, k \in Kinds : Once(w[k])
  BY HeldSound DEF WorkSound, LedgerSound, Once
<1>3. CapturedOnce
  BY <1>2 DEF CapturedOnce, Once
<1>4. CheckpointBacked
  BY HeldSound DEF CheckpointBacked, OnDisk
<1>5. WithinLimits
  <2> SUFFICES ASSUME ~config.zip PROVE WithinLimits
    BY DEF WithinLimits
  <2>1. \A w \in Held, k \in Kinds : Fits(w[k], Limit(k)) /\ w[k] \in Ledgers
    BY HeldSound DEF WorkSound, Works, Limit
  <2>2. ASSUME NEW k \in Kinds, limit_hit(k)
        PROVE  FALSE
    <3>1. work \in Held /\ Limit(k) \in Nat
      BY <1>1, ConfigTyped DEF Held, Limit, CrawlTypeOK
    <3>2. Fits(work[k], Limit(k)) /\ work[k].queue \in Seq(Entries) /\ work[k].records \in Seq(Records)
      BY <2>1, <3>1 DEF Ledgers
    <3>3. work[k].queue # <<>> /\ Limit(k) # 0 /\ Len(work[k].records) >= Limit(k)
      BY <2>2 DEF limit_hit, _limit_reached
    <3>4. PICK a \in Nat, b \in Nat, m \in Nat : a = Len(work[k].records) /\ b = Len(work[k].queue) /\ m = Limit(k)
      BY <3>1, <3>2
    <3>5. b # 0
      BY <3>2, <3>3, <3>4
    <3>6. a + b <= m /\ a >= m
      BY <3>2, <3>3, <3>4 DEF Fits
    <3>7. \A x, y, z \in Nat : y # 0 /\ x + y <= z => ~(x >= z)
      OBVIOUS
    <3> QED BY <3>5, <3>6, <3>7
  <2>3. \A w \in Held, k \in Kinds : Limit(k) # 0 => Len(w[k].records) + Len(w[k].queue) <= Limit(k)
    BY <2>1 DEF Fits
  <2>4. \A k \in Kinds : ~limit_hit(k)
    BY <2>2
  <2> QED BY <2>3, <2>4 DEF WithinLimits
<1>6. NothingMissed
  BY HeldSound DEF NothingMissed, WorkSound, NoneMissed, Open, Limit
<1> QED BY <1>1, <1>3, <1>4, <1>5, <1>6

\* The invariant holds of a job at any time, while its site is crawled.
THEOREM Crawls == CrawlSpec => []CrawlInv
<1>1. CrawlInit => CrawlInv
  BY InitHolds
<1>2. CrawlInv /\ [CrawlNext]_crawlVars => CrawlInv'
  <2>1. CrawlInv /\ CrawlNext => CrawlInv'
    BY StepKeeps DEF CrawlNext
  <2>2. CrawlInv /\ UNCHANGED crawlVars => CrawlInv'
    <3>1. CrawlInv => crashes \in 0 .. MaxCrashes
      BY DEF CrawlInv, CrawlTypeOK
    <3> QED BY <3>1, PauseKeeps DEF crawlVars
  <2> QED BY <2>1, <2>2
<1> QED BY <1>1, <1>2, PTL DEF CrawlSpec

\* Every variable of the crawl has its type.
THEOREM CrawlTypesHold == CrawlSpec => []CrawlTypeOK
<1>1. CrawlInv => CrawlTypeOK
  BY InvImplies
<1> QED BY <1>1, Crawls, PTL

\* No page and no asset is captured twice, with one address for each request,
\* however often the crawl is interrupted.
THEOREM NoneTwice == CrawlSpec => []CapturedOnce
<1>1. CrawlInv => CapturedOnce
  BY InvImplies
<1> QED BY <1>1, Crawls, PTL

\* What is recorded, in memory or in the checkpoint, is on disk.
THEOREM RecordsAreOnDisk == CrawlSpec => []CheckpointBacked
<1>1. CrawlInv => CheckpointBacked
  BY InvImplies
<1> QED BY <1>1, Crawls, PTL

\* Captures and queue together stay within the limits.
THEOREM LimitsHold == CrawlSpec => []WithinLimits
<1>1. CrawlInv => WithinLimits
  BY InvImplies
<1> QED BY <1>1, Crawls, PTL

\* No interruption loses a discovery.
THEOREM NothingIsMissed == CrawlSpec => []NothingMissed
<1>1. CrawlInv => NothingMissed
  BY InvImplies
<1> QED BY <1>1, Crawls, PTL

-----------------------------------------------------------------------------
(* The crawl implements the ledger that only grows.                        *)

\* The addresses of a sequence of records.
Requested(r) == [i \in DOMAIN r |-> r[i].requested]

\* One record more is one address more.
LEMMA RequestedGrows ==
  ASSUME NEW s \in Seq(Records), NEW r \in Records
  PROVE  Requested(Append(s, r)) = Append(Requested(s), r.requested)
<1> DEFINE n == Len(s)
           t == Append(s, r)
           q == Requested(s)
<1>1. n \in Nat /\ DOMAIN s = 1 .. n
  OBVIOUS
<1>2. /\ DOMAIN t = 1 .. n + 1
      /\ \A i \in 1 .. n + 1 : t[i] = IF i = n + 1 THEN r ELSE s[i]
  BY <1>1
<1>3. q \in Seq({x.requested : x \in Records}) /\ Len(q) = n /\ \A i \in 1 .. n : q[i] = s[i].requested
  BY <1>1 DEF Requested
<1> HIDE DEF n, q, t
<1>4. /\ DOMAIN Append(q, r.requested) = 1 .. n + 1
      /\ \A i \in 1 .. n + 1 : Append(q, r.requested)[i] = IF i = n + 1 THEN r.requested ELSE q[i]
      /\ Append(q, r.requested) = [i \in 1 .. n + 1 |-> Append(q, r.requested)[i]]
  BY <1>1, <1>3
<1>5. Requested(t) = [i \in 1 .. n + 1 |-> t[i].requested]
  BY <1>2 DEF Requested
<1>6. \A i \in 1 .. n + 1 : t[i].requested = Append(q, r.requested)[i]
  BY <1>1, <1>2, <1>3, <1>4
<1> QED BY <1>4, <1>5, <1>6 DEF t, q

\* The ledger is the checkpoint's.
LEMMA KeptIs ==
  /\ Kept = IF config.zip \/ checkpoint = NoCheckpoint THEN <<>> ELSE Requested(checkpoint.work["page"].records)
  /\ Requested(<<>>) = <<>>
BY DEF Kept, Requested

\* A step that leaves the checkpoint alone, and every step of an archive's
\* crawl, leaves the ledger alone.
LEMMA LedgerRests ==
  ASSUME config' = config, checkpoint' = checkpoint \/ config.zip
  PROVE  UNCHANGED Durable!ledger
BY DEF Durable!ledger, Kept, UnderWay

\* A call that does not resume begins a ledger; one that does goes on with it.
LEMMA StartBegins ==
  ASSUME CrawlInv, start_crawl
  PROVE  [Durable!Step]_(Durable!ledger)
<1>1. /\ config' = config /\ ~config.zip /\ config.resume \in BOOLEAN
      /\ checkpoint \in Payloads \union {NoCheckpoint}
  BY ConfigTyped DEF start_crawl, CrawlInv, CrawlTypeOK
<1>2. CASE Resumable(checkpoint)
  <2>1. /\ checkpoint \in Payloads /\ checkpoint # NoCheckpoint /\ checkpoint.completed = FALSE
        /\ checkpoint' = Payload(FALSE, checkpoint.work, checkpoint.validated, checkpoint.seeded)
    BY <1>1, <1>2 DEF Resumable, start_crawl, Payloads
  <2>2. checkpoint' # NoCheckpoint /\ checkpoint'.completed = FALSE /\ checkpoint'.work = checkpoint.work
    <3>1. PICK d \in BOOLEAN : /\ checkpoint' = Payload(d, checkpoint.work, checkpoint.validated, checkpoint.seeded)
                             /\ d = FALSE
      BY <2>1
    <3>2. checkpoint.work \in Works /\ checkpoint.validated \in BOOLEAN /\ checkpoint.seeded \in BOOLEAN
      BY <2>1 DEF Payloads
    <3> QED BY <3>1, <3>2, PayloadIs
  <2>3. Kept' = Kept /\ UnderWay' = UnderWay
    BY <1>1, <2>1, <2>2 DEF Kept, UnderWay
  <2> QED BY <1>1, <2>3 DEF Durable!ledger
<1>3. CASE ~Resumable(checkpoint)
  <2>1. checkpoint' # NoCheckpoint /\ checkpoint'.completed = FALSE /\ checkpoint'.work = FreshWork
    <3>1. /\ checkpoint' = Payload(FALSE, FreshWork, validated', seeded')
          /\ validated' = ~config.static /\ seeded' = ~config.sitemap
      BY <1>3 DEF start_crawl
    <3>2. FreshWork \in Works /\ validated' \in BOOLEAN /\ seeded' \in BOOLEAN
      BY <3>1, FreshSound, ConfigTyped DEF CrawlInv, CrawlTypeOK, WorkSound
    <3>3. PICK d \in BOOLEAN : checkpoint' = Payload(d, FreshWork, validated', seeded') /\ d = FALSE
      BY <3>1
    <3> QED BY <3>2, <3>3, PayloadIs
  <2>2. FreshWork["page"].records = <<>>
    BY FreshSound DEF CrawlInv, CrawlTypeOK
  <2>3. Kept' = <<>> /\ UnderWay' = TRUE
    BY <1>1, <2>1, <2>2, KeptIs DEF Kept, UnderWay, Requested
  <2>4. ~UnderWay \/ ~config.resume
    BY <1>1, <1>3 DEF Resumable, UnderWay
  <2>5. Durable!Begin
    BY <2>3, <2>4 DEF Durable!Begin
  <2> QED BY <1>1, <2>5 DEF Durable!Step
<1> QED BY <1>2, <1>3

\* The checkpoint that is written holds what memory holds.
LEMMA SaveWrites ==
  ASSUME CrawlInv, NEW d \in BOOLEAN, checkpoint' = Payload(d, work, validated, seeded)
  PROVE  checkpoint' # NoCheckpoint /\ checkpoint'.completed = d /\ checkpoint'.work = work
<1>1. work \in Works /\ validated \in BOOLEAN /\ seeded \in BOOLEAN
  BY DEF CrawlInv, CrawlTypeOK
<1> QED BY <1>1, PayloadIs

\* A page that was captured enters the ledger with its checkpoint.
LEMMA SaveAdds ==
  ASSUME CrawlInv, save_turn
  PROVE  [Durable!Step]_(Durable!ledger)
<1> DEFINE now == work["page"].records
           kept == checkpoint.work["page"].records
<1>1. /\ config' = config /\ ~config.zip /\ unsaved /\ checkpoint # NoCheckpoint /\ ~checkpoint.completed
      /\ now = kept \/ (now # <<>> /\ now = Append(kept, now[Len(now)]))
      /\ checkpoint \in Payloads
      /\ work \in Works /\ validated \in BOOLEAN /\ seeded \in BOOLEAN /\ "page" \in Kinds
      /\ WorkSound(work, validated, config)
  <2>1. unsaved /\ phase \in Kinds /\ phase # "idle" /\ phase # "returning" /\ ~config.zip
    BY DEF save_turn, CrawlInv, Progress, Kinds
  <2>2. checkpoint # NoCheckpoint /\ ~checkpoint.completed
        /\ (now = kept \/ (now # <<>> /\ now = Append(kept, now[Len(now)])))
    BY <2>1 DEF CrawlInv, Progress
  <2> QED BY <2>1, <2>2 DEF save_turn, persist_checkpoint, CrawlInv, CrawlTypeOK, Kinds
<1>2. checkpoint' # NoCheckpoint /\ checkpoint'.completed = FALSE /\ checkpoint'.work = work
  <2>1. PICK d \in BOOLEAN : checkpoint' = Payload(d, work, validated, seeded) /\ d = FALSE
    BY DEF save_turn, persist_checkpoint
  <2>2. checkpoint' # NoCheckpoint /\ checkpoint'.completed = d /\ checkpoint'.work = work
    BY <2>1, SaveWrites
  <2> QED BY <2>1, <2>2
<1>3. /\ Kept = Requested(kept) /\ Kept' = Requested(now)
      /\ UnderWay /\ UnderWay' = UnderWay
  BY <1>1, <1>2 DEF Kept, UnderWay, Requested
<1>4. now \in Seq(Records) /\ kept \in Seq(Records) /\ Once(work["page"])
  <2>1. checkpoint.work \in Works
    BY <1>1 DEF Payloads
  <2>2. work["page"] \in Ledgers /\ checkpoint.work["page"] \in Ledgers /\ LedgerSound(work["page"])
    BY <1>1, <2>1 DEF Works, WorkSound
  <2> QED BY <2>2 DEF Ledgers, LedgerSound, Once
<1>5. CASE now = kept
  BY <1>1, <1>3, <1>5 DEF Durable!ledger
<1>6. CASE now # <<>> /\ now = Append(kept, now[Len(now)])
  <2>1. PICK r \in Records : r = now[Len(now)]
    BY <1>4, <1>6
  <2>2. Kept' = Append(Kept, r.requested)
    BY <1>3, <1>4, <1>6, <2>1, RequestedGrows
  <2>3. r.requested \in Urls
    BY DEF Records
  <2>4. r.requested \notin Range(Kept)
    <3> SUFFICES ASSUME NEW i \in DOMAIN kept, kept[i].requested = r.requested
                 PROVE  FALSE
      BY <1>3 DEF Range, Requested
    <3>1. PICK n \in Nat : n = Len(kept) /\ DOMAIN kept = 1 .. n
      BY <1>4
    <3>2. /\ i \in 1 .. n /\ DOMAIN now = 1 .. n + 1 /\ now[i] = kept[i] /\ now[n + 1] = r
      <4> HIDE DEF now, kept
      <4> QED BY <1>4, <1>6, <2>1, <3>1
    <3>3. i \in DOMAIN now /\ n + 1 \in DOMAIN now /\ i # n + 1
      <4> HIDE DEF now, kept
      <4> QED BY <3>1, <3>2
    <3> QED BY <1>4, <3>2, <3>3 DEF Once
  <2>5. Durable!Keep(r.requested)
    BY <1>3, <2>2, <2>4 DEF Durable!Keep, Durable!Range, Range
  <2>6. \E a \in Urls : Durable!Keep(a)
    BY <2>3, <2>5
  <2> QED BY <1>1, <2>6 DEF Durable!Step
<1> QED BY <1>1, <1>5, <1>6

\* The end of the crawl closes the ledger.
LEMMA CompleteCloses ==
  ASSUME CrawlInv, complete_crawl, ~config.zip
  PROVE  [Durable!Step]_(Durable!ledger)
<1>1. /\ config' = config /\ phase = "closing" /\ unsaved = FALSE
  BY DEF complete_crawl, persist_checkpoint, CrawlInv, Progress, CrawlTypeOK, Kinds
<1>2. checkpoint # NoCheckpoint /\ ~checkpoint.completed /\ work["page"].records = checkpoint.work["page"].records
  BY <1>1 DEF CrawlInv, Progress
<1>3. checkpoint' # NoCheckpoint /\ checkpoint'.completed = TRUE /\ checkpoint'.work = work
  <2>1. PICK d \in BOOLEAN : checkpoint' = Payload(d, work, validated, seeded) /\ d = TRUE
    BY DEF complete_crawl, persist_checkpoint
  <2>2. checkpoint' # NoCheckpoint /\ checkpoint'.completed = d /\ checkpoint'.work = work
    BY <2>1, SaveWrites
  <2> QED BY <2>1, <2>2
<1>4. Kept' = Kept /\ UnderWay = TRUE /\ UnderWay' = FALSE
  BY <1>1, <1>2, <1>3 DEF Kept, UnderWay
<1> QED BY <1>1, <1>4 DEF Durable!Close, Durable!Step

\* Every step of the crawl is a step of the ledger or leaves it alone.
LEMMA LedgerSteps ==
  ASSUME CrawlInv, CrawlStep \/ crash_crawl
  PROVE  [Durable!Step]_(Durable!ledger)
<1>1. CASE start_crawl
  BY <1>1, StartBegins
<1>2. CASE save_turn
  BY <1>2, SaveAdds
<1>3. CASE complete_crawl /\ ~config.zip
  BY <1>3, CompleteCloses
<1>4. CASE ~start_crawl /\ ~save_turn /\ ~(complete_crawl /\ ~config.zip)
  <2>1. config' = config /\ (checkpoint' = checkpoint \/ config.zip)
    <3>1. CASE capture_page \/ reject_source \/ capture_asset
      BY <3>1 DEF capture_page, reject_source, capture_asset
    <3>2. CASE \E k \in Kinds : skip_visited(k) \/ fetch_fails(k) \/ leave_loop(k)
      BY <3>2 DEF skip_visited, fetch_fails, leave_loop, disk
    <3>3. CASE complete_crawl /\ config.zip
      BY <3>3 DEF complete_crawl
    <3>4. CASE return_crawl \/ crash_crawl
      BY <3>4 DEF return_crawl, crash_crawl, disk
    <3>5. CASE unpack_archive \/ archive_fails
      BY <3>5 DEF unpack_archive, archive_fails
    <3>6. \/ capture_page \/ reject_source \/ capture_asset
          \/ \E k \in Kinds : skip_visited(k) \/ fetch_fails(k) \/ leave_loop(k)
          \/ (complete_crawl /\ config.zip)
          \/ return_crawl \/ crash_crawl \/ unpack_archive \/ archive_fails
      BY <1>4 DEF CrawlStep
    <3> QED BY <3>1, <3>2, <3>3, <3>4, <3>5, <3>6
  <2> QED BY <2>1, LedgerRests
<1> QED BY <1>1, <1>2, <1>3, <1>4

\* Before the first call the ledger is empty.
LEMMA LedgerStarts ==
  ASSUME CrawlInit
  PROVE  Durable!Start
BY ConfigTyped DEF CrawlInit, Durable!Start, Kept, UnderWay

\* Through crashes and resumptions the checkpoint's pages are a ledger that
\* only grows, one new address at a time.
THEOREM CrawlIsALedger == CrawlSpec => ImplementsLedger
<1>1. CrawlInit => Durable!Start
  BY LedgerStarts
<1>2. CrawlInv /\ [CrawlNext]_crawlVars => [Durable!Step]_(Durable!ledger)
  <2>1. CrawlInv /\ CrawlNext => [Durable!Step]_(Durable!ledger)
    BY LedgerSteps DEF CrawlNext
  <2>2. UNCHANGED crawlVars => UNCHANGED Durable!ledger
    BY LedgerRests DEF crawlVars, disk
  <2> QED BY <2>1, <2>2
<1> QED BY <1>1, <1>2, Crawls, PTL DEF CrawlSpec, ImplementsLedger, Durable!Ledger

=============================================================================
