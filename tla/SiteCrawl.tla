------------------------------ MODULE SiteCrawl ------------------------------
(***************************************************************************)
(* The capture of a site: crawl_site_node of engine/nodes.py for a URL,    *)
(* with its page loop, its asset loop, the checkpoint it writes after      *)
(* every captured file and the resumption from that checkpoint, and for a  *)
(* ZIP archive, which is unpacked in one go.                               *)
(*                                                                         *)
(* The process may die between any two steps.  The files and the           *)
(* checkpoint survive, everything else is rebuilt by the next call.  Which *)
(* fetches succeed, what the sitemaps list and whether the first page      *)
(* passes for static is decided by the web, not by the crawler.            *)
(*                                                                         *)
(* Pages and assets go through the same loop, on a ledger each.  Whether a *)
(* page was rendered or requested, its content, and the texts of failures  *)
(* are left out; so are the checks of the host inside the loops, which a   *)
(* refused fetch covers, because nothing that fails them is ever queued.   *)
(***************************************************************************)
EXTENDS Integers, Sequences, FiniteSets, Functions

CONSTANTS
  Urls,        \* the addresses of pages and of assets, without fragments
  Root,        \* the normalised input URL
  Admissible,  \* addresses that no host rule excludes
  PageLinks,   \* the page addresses a page links to
  AssetLinks,  \* the assets a page embeds or a stylesheet imports
  Sitemap,     \* the addresses the site's sitemaps list
  Landing,     \* the address a request ends at after its redirects
  Archive,     \* the members of the archive, per kind
  Configs,     \* the crawl configurations a job may have
  NoCheckpoint,
  MaxCrashes   \* bound on the crashes of a behaviour

Kinds == {"page", "asset"}

ConfigRecords ==
  [ zip : BOOLEAN, resume : BOOLEAN, static : BOOLEAN, sitemap : BOOLEAN, depth : Nat,
    full : BOOLEAN, limit : [Kinds -> Nat] ]

\* A site may have any number of addresses; a page or a sitemap lists finitely many.
ASSUME SiteAssumption ==
  /\ Admissible \subseteq Urls /\ Root \in Admissible
  /\ PageLinks \in [Urls -> SUBSET Urls] /\ AssetLinks \in [Urls -> SUBSET Urls]
  /\ \A u \in Urls : IsFiniteSet(PageLinks[u]) /\ IsFiniteSet(AssetLinks[u])
  /\ Sitemap \subseteq Urls /\ IsFiniteSet(Sitemap)
  /\ Landing \in [Urls -> Urls]
  /\ Archive \in [Kinds -> SUBSET Urls] /\ \A k \in Kinds : IsFiniteSet(Archive[k])
ASSUME ConfigAssumption == Configs \subseteq ConfigRecords
ASSUME CrashAssumption == MaxCrashes \in Nat

Entries  == [url : Urls, depth : Nat]
Records  == [requested : Urls, url : Urls, depth : Nat]
Ledgers  ==
  [ queue : Seq(Entries), queued : SUBSET Urls, visited : SUBSET Urls,
    records : Seq(Records) ]
Works    == [Kinds -> Ledgers]
Payloads ==
  [completed : BOOLEAN, work : Works, validated : BOOLEAN, seeded : BOOLEAN]

ASSUME CheckpointAssumption == NoCheckpoint \notin Payloads

VARIABLES
  config,      \* the job's crawl configuration, fixed when it is created
  phase,       \* where the call of crawl_site_node is
  unsaved,     \* a captured file waits for persist_checkpoint
  work,        \* queues, visited sets and records of the call
  validated,   \* static_source_validated
  seeded,      \* sitemap_seed_applied
  rejected,    \* source_validation_errors is not empty
  checkpoint,  \* the file checkpoint.json
  files,       \* the snapshot files on disk
  outcome,     \* the status the engine saved for the crawl
  crashes      \* crashes so far

memory  == <<unsaved, work, validated, seeded, rejected>>
disk    == <<checkpoint, files>>
crawlVars == <<config, phase, memory, disk, outcome, crashes>>

Phases == {"idle", "page", "asset", "closing", "returning"}

Limit(k) == config.limit[k]

\* A limit of zero is no limit.
_limit_reached(n, max) == max # 0 /\ n >= max

EmptyLedger == [queue |-> <<>>, queued |-> {}, visited |-> {}, records |-> <<>>]
NoWork == [k \in Kinds |-> EmptyLedger]

FreshWork ==
  [NoWork EXCEPT !["page"].queue = <<[url |-> Root, depth |-> 0]>>,
                 !["page"].queued = {Root}]

CrawlInit ==
  /\ config \in Configs
  /\ phase = "idle"
  /\ unsaved = FALSE /\ work = NoWork
  /\ validated = FALSE /\ seeded = FALSE /\ rejected = FALSE
  /\ checkpoint = NoCheckpoint /\ files = {}
  /\ outcome = "none" /\ crashes = 0

-----------------------------------------------------------------------------
(* The checkpoint.                                                         *)

Payload(done, w, v, s) == [completed |-> done, work |-> w, validated |-> v, seeded |-> s]

\* persist_checkpoint writes a temporary file and renames it: one step.
persist_checkpoint(done) == checkpoint' = Payload(done, work, validated, seeded)

\* Fault: a completed checkpoint is resumed as well.
Resumable_completed(c) == config.resume /\ c # NoCheckpoint

Resumable(c) == config.resume /\ c # NoCheckpoint /\ ~c.completed

\* Fault: the snapshots of an earlier call are always removed.
_prepare_crawl_storage_emptied == {}

\* Without the resume flag the storage is emptied.
_prepare_crawl_storage == IF config.resume THEN files ELSE {}

\* The call starts.
\* What it resumes or starts with is written back before anything is fetched.
\* The job's configuration and root never change, so a checkpoint that is
\* found belongs to the same crawl.
start_crawl ==
  /\ phase = "idle" /\ outcome # "crawled" /\ ~config.zip
  /\ phase' = "page"
  /\ IF Resumable(checkpoint)
     THEN /\ work' = checkpoint.work
          /\ validated' = checkpoint.validated
          /\ seeded' = checkpoint.seeded
     ELSE /\ work' = FreshWork
          /\ validated' = ~config.static
          /\ seeded' = ~config.sitemap
  /\ checkpoint' = Payload(FALSE, work', validated', seeded')
  /\ files' = _prepare_crawl_storage
  /\ UNCHANGED <<config, unsaved, rejected, outcome, crashes>>

-----------------------------------------------------------------------------
(* One turn of a loop.                                                     *)

InLoop(k) ==
  /\ phase = k /\ ~unsaved
  /\ work[k].queue # <<>>
  /\ ~_limit_reached(Len(work[k].records), Limit(k))

Popped(l) == [l EXCEPT !.queue = Tail(@)]

\* The address was captured or refused already, perhaps as a landing page.
skip_visited(k) ==
  /\ InLoop(k)
  /\ Head(work[k].queue).url \in work[k].visited
  /\ work' = [work EXCEPT ![k] = Popped(@)]
  /\ UNCHANGED <<config, phase, unsaved, validated, seeded, rejected, disk, outcome, crashes>>

GivenUp(l, u) == [Popped(l) EXCEPT !.visited = @ \union {u}]

\* All attempts at the address failed; nothing is saved before the next
\* capture, so a later call tries it again.
fetch_fails(k) ==
  LET u == Head(work[k].queue).url IN
  /\ InLoop(k)
  /\ u \notin work[k].visited
  /\ work' = [work EXCEPT ![k] = GivenUp(@, u)]
  /\ UNCHANGED <<config, phase, unsaved, validated, seeded, rejected, disk, outcome, crashes>>

\* The first entry of the queue is captured: both its address and the one
\* the request ended at count as visited.
Captured(l) ==
  LET e == Head(l.queue) IN
  [ Popped(l) EXCEPT
      !.visited = @ \union {e.url, Landing[e.url]},
      !.records = Append(@, [requested |-> e.url, url |-> Landing[e.url], depth |-> e.depth]) ]

\* The file of a record is named by its number and by its address.
SnapshotFile(k, i, u) == <<k, i, u>>

NewFile(k) ==
  SnapshotFile(k, Len(work[k].records) + 1, Landing[Head(work[k].queue).url])

-----------------------------------------------------------------------------
(* Discovery.                                                              *)

\* The orders in which some of the addresses of a set may be queued: the
\* code sorts them, which says nothing about which of them matter.
Selections(S) ==
  UNION {{s \in [1 .. n -> S] : IsInjective(s)} : n \in 0 .. Cardinality(S)}

\* Addresses known to the ledger are not queued again.
Unknown(l, found) == (found \intersect Admissible) \ (l.visited \union l.queued)

\* Fault: addresses are queued beyond the limit.
Admitted_unlimited(l, found, max) ==
  {s \in Selections(Unknown(l, found)) : Range(s) = Unknown(l, found)}

\* All unknown addresses are queued, or as many as the limit leaves room for.
Admitted(l, found, max) ==
  {s \in Selections(Unknown(l, found)) :
     LET total == Len(l.records) + Len(l.queue) + Len(s) IN
     /\ max = 0 \/ s = <<>> \/ total <= max
     /\ Range(s) = Unknown(l, found) \/ _limit_reached(total, max)}

Queued(l, s, d) ==
  [ l EXCEPT !.queue = @ \o [i \in 1 .. Len(s) |-> [url |-> s[i], depth |-> d]],
             !.queued = @ \union Range(s) ]

\* The sitemaps are read once, when the first page is known to be static;
\* each may be missing or unreadable.
SeedLists ==
  IF config.sitemap /\ ~seeded THEN SUBSET Sitemap ELSE {{}}

\* Fault: the links are looked up by the address that was requested.
Followed_requested(e) ==
  IF config.full \/ e.depth < config.depth THEN PageLinks[e.url] ELSE {}

\* Links are followed down to the configured depth.
Followed(e) ==
  IF config.full \/ e.depth < config.depth THEN PageLinks[Landing[e.url]] ELSE {}

\* A page is captured: file, record, seeds, links, embedded assets.
capture_page ==
  LET e == Head(work["page"].queue)
      captured == Captured(work["page"]) IN
  /\ InLoop("page")
  /\ e.url \notin work["page"].visited
  /\ \E listed \in SeedLists :
     \E seeds \in Admitted(captured, listed, Limit("page")) :
     LET withSeeds == Queued(captured, seeds, e.depth + 1) IN
     \E links \in Admitted(withSeeds, Followed(e), Limit("page")) :
     \E assets \in Admitted(work["asset"], AssetLinks[Landing[e.url]], Limit("asset")) :
       work' = [k \in Kinds |->
                  IF k = "page" THEN Queued(withSeeds, links, e.depth + 1)
                  ELSE Queued(work["asset"], assets, 0)]
  /\ validated' = TRUE
  /\ seeded' = TRUE
  /\ files' = files \union {NewFile("page")}
  /\ unsaved' = TRUE
  /\ UNCHANGED <<config, phase, rejected, checkpoint, outcome, crashes>>

\* The first page is not static: the queues are cleared and the loop left.
reject_source ==
  /\ InLoop("page")
  /\ Head(work["page"].queue).url \notin work["page"].visited
  /\ ~validated
  /\ work' = [k \in Kinds |->
                [ (IF k = "page" THEN Captured(work[k]) ELSE work[k])
                  EXCEPT !.queue = <<>>, !.queued = {} ]]
  /\ files' = files \union {NewFile("page")}
  /\ rejected' = TRUE
  /\ unsaved' = TRUE
  /\ UNCHANGED <<config, phase, validated, seeded, checkpoint, outcome, crashes>>

\* An asset is captured; a stylesheet brings the assets it imports.
capture_asset ==
  LET e == Head(work["asset"].queue)
      captured == Captured(work["asset"]) IN
  /\ InLoop("asset")
  /\ e.url \notin work["asset"].visited
  /\ \E nested \in Admitted(captured, AssetLinks[Landing[e.url]], Limit("asset")) :
       work' = [work EXCEPT !["asset"] = Queued(captured, nested, 0)]
  /\ files' = files \union {NewFile("asset")}
  /\ unsaved' = TRUE
  /\ UNCHANGED <<config, phase, validated, seeded, rejected, checkpoint, outcome, crashes>>

\* The turn of the loop ends with the checkpoint.
save_turn ==
  /\ unsaved
  /\ persist_checkpoint(FALSE)
  /\ unsaved' = FALSE
  /\ UNCHANGED <<config, phase, work, validated, seeded, rejected, files, outcome, crashes>>

leave_loop(k) ==
  /\ phase = k /\ ~unsaved
  /\ work[k].queue = <<>> \/ _limit_reached(Len(work[k].records), Limit(k))
  /\ phase' = IF k = "page" THEN "asset" ELSE "closing"
  /\ UNCHANGED <<config, memory, disk, outcome, crashes>>

-----------------------------------------------------------------------------
(* A ZIP archive.                                                          *)

FromArchive(s) ==
  [ EmptyLedger EXCEPT
      !.records = [i \in 1 .. Len(s) |-> [requested |-> s[i], url |-> s[i], depth |-> 0]] ]

RecordFiles(k, l) == {SnapshotFile(k, i, l.records[i].url) : i \in DOMAIN l.records}

\* Members that cannot be read are left out; an archive with server-side
\* files is rejected before any is read.  The limits do not apply.
unpack_archive ==
  /\ phase = "idle" /\ outcome # "crawled" /\ config.zip
  /\ \E pages \in Selections(Archive["page"]), assets \in Selections(Archive["asset"]),
        dynamic \in {FALSE, config.static} :
       /\ dynamic => pages = <<>> /\ assets = <<>>
       /\ work' = [k \in Kinds |-> FromArchive(IF k = "page" THEN pages ELSE assets)]
       /\ rejected' = dynamic
       /\ validated' = (pages # <<>>)
  /\ files' = (UNION {RecordFiles(k, work'[k]) : k \in Kinds}) \union _prepare_crawl_storage
  /\ checkpoint' = IF config.resume THEN checkpoint ELSE NoCheckpoint
  /\ phase' = "closing"
  /\ UNCHANGED <<config, unsaved, seeded, outcome, crashes>>

\* The archive cannot be fetched or opened: nothing is saved.
archive_fails ==
  /\ phase = "idle" /\ outcome # "crawled" /\ config.zip
  /\ outcome' = "failed"
  /\ files' = _prepare_crawl_storage
  /\ checkpoint' = IF config.resume THEN checkpoint ELSE NoCheckpoint
  /\ UNCHANGED <<config, phase, memory, crashes>>

-----------------------------------------------------------------------------
(* The end of a crawl.                                                     *)

\* The manifest is written and the checkpoint marked completed.
complete_crawl ==
  /\ phase = "closing"
  /\ persist_checkpoint(TRUE)
  /\ phase' = "returning"
  /\ UNCHANGED <<config, memory, files, outcome, crashes>>

Result ==
  IF rejected \/ work["page"].records = <<>> THEN "failed" ELSE "crawled"

Forgotten ==
  /\ unsaved' = FALSE /\ work' = NoWork
  /\ validated' = FALSE /\ seeded' = FALSE /\ rejected' = FALSE

\* The engine saves the result with the job; the call's variables are gone.
return_crawl ==
  /\ phase = "returning"
  /\ outcome' = Result
  /\ phase' = "idle"
  /\ Forgotten
  /\ UNCHANGED <<config, disk, crashes>>

\* The process dies, or a write to the disk raises out of the call and the
\* engine saves the job as failed.
crash_crawl ==
  /\ phase # "idle"
  /\ crashes < MaxCrashes
  /\ crashes' = crashes + 1
  /\ phase' = "idle"
  /\ Forgotten
  /\ outcome' \in {outcome, "failed"}
  /\ UNCHANGED <<config, disk>>

CrawlStep ==
  \/ start_crawl \/ capture_page \/ reject_source \/ capture_asset
  \/ save_turn \/ complete_crawl \/ return_crawl
  \/ unpack_archive \/ archive_fails
  \/ \E k \in Kinds : skip_visited(k) \/ fetch_fails(k) \/ leave_loop(k)

CrawlNext == CrawlStep \/ crash_crawl

CrawlSpec == CrawlInit /\ [][CrawlNext]_crawlVars

-----------------------------------------------------------------------------
(* Properties.                                                             *)

\* Every variable has its type.
CrawlTypeOK ==
  /\ config \in Configs
  /\ phase \in Phases
  /\ unsaved \in BOOLEAN /\ work \in Works
  /\ validated \in BOOLEAN /\ seeded \in BOOLEAN /\ rejected \in BOOLEAN
  /\ checkpoint \in Payloads \union {NoCheckpoint}
  /\ files \subseteq Kinds \X Nat \X Urls
  /\ outcome \in {"none", "crawled", "failed"}
  /\ crashes \in 0 .. MaxCrashes

\* The work in memory and the work a later call may resume.
Saved == IF checkpoint = NoCheckpoint THEN {} ELSE {checkpoint.work}
Held  == {work} \union Saved

\* No address is captured twice, however often the crawl was interrupted
\* and whichever pages link or redirect to it.
CapturedOnce ==
  \A w \in Held, k \in Kinds : \A i, j \in DOMAIN w[k].records :
    w[k].records[i].requested = w[k].records[j].requested => i = j

\* Every record has its snapshot on disk at every moment, those of the
\* checkpoint included: a later call loads its pages from these files and
\* silently drops a record whose file is missing.
CheckpointBacked ==
  \A w \in Held, k \in Kinds : RecordFiles(k, w[k]) \subseteq files

\* The flags of the manifest: does the queue hold what the limit cut off?
limit_hit(k) ==
  work[k].queue # <<>> /\ _limit_reached(Len(work[k].records), Limit(k))

\* Captures and queue together never exceed a limit, whatever fails, lands
\* elsewhere or is resumed.  It follows that no crawl ever reports a limit
\* as hit: what a limit cuts off is dropped when it is discovered.
WithinLimits ==
  ~config.zip =>
    /\ \A w \in Held, k \in Kinds :
         Limit(k) # 0 => Len(w[k].records) + Len(w[k].queue) <= Limit(k)
    /\ \A k \in Kinds : ~limit_hit(k)

Known(l) == l.queued \union l.visited

\* As long as fewer addresses are known than the limit allows, everything a
\* captured page links to within the depth, and everything it embeds, is
\* queued or was tried: no interruption loses a discovery.
NothingMissed ==
  \A w \in Held :
    LET open(k) == Limit(k) = 0 \/ Cardinality(Known(w[k])) < Limit(k)
        static == IF w = work THEN validated ELSE checkpoint.validated IN
    \A i \in DOMAIN w["page"].records :
      LET r == w["page"].records[i] IN
      ~config.zip /\ static =>
        /\ open("page") /\ (config.full \/ r.depth < config.depth) =>
             PageLinks[r.url] \intersect Admissible \subseteq Known(w["page"])
        /\ open("asset") =>
             AssetLinks[r.url] \intersect Admissible \subseteq Known(w["asset"])

\* A job is captured only from a source that passed for static, when its
\* configuration demands that.
OnlyStaticSources ==
  outcome = "crawled" /\ config.static => checkpoint.validated

\* What an interruption leaves is what the ledger keeps: the crawl of a URL,
\* seen through its checkpoint, is an uninterrupted one.
Kept ==
  IF config.zip \/ checkpoint = NoCheckpoint THEN <<>>
  ELSE [i \in DOMAIN checkpoint.work["page"].records |->
          checkpoint.work["page"].records[i].requested]

UnderWay == ~config.zip /\ checkpoint # NoCheckpoint /\ ~checkpoint.completed

Durable == INSTANCE CrawlLedger WITH
  Addresses <- Urls, kept <- Kept, open <- UnderWay, restartable <- ~config.resume

\* Interruptions and resumptions never lose a captured page from the
\* checkpoint, nor capture one a second time.
ImplementsLedger == Durable!Ledger

=============================================================================
