----------------------------- MODULE CrawlLedger -----------------------------
(***************************************************************************)
(* What a crawl promises to whoever interrupts it: a ledger of captured    *)
(* addresses that only grows, one address at a time, until the crawl is    *)
(* closed.  An interruption is not a step of this specification.           *)
(***************************************************************************)
EXTENDS Sequences, Functions

CONSTANTS
  Addresses  \* the addresses a crawl may request

VARIABLES
  kept,         \* the addresses captured so far, in order
  open,         \* is a crawl under way?
  restartable   \* may an unfinished ledger be thrown away?

ledger == <<kept, open, restartable>>

Start == kept = <<>> /\ open = FALSE /\ restartable \in BOOLEAN

\* A new crawl starts from nothing.
Begin ==
  /\ ~open \/ restartable
  /\ kept' = <<>> /\ open' = TRUE

Keep(a) ==
  /\ open
  /\ a \notin Range(kept)
  /\ kept' = Append(kept, a)
  /\ UNCHANGED open

Close == open /\ open' = FALSE /\ UNCHANGED kept

Step ==
  /\ Begin \/ Close \/ \E a \in Addresses : Keep(a)
  /\ UNCHANGED restartable

Ledger == Start /\ [][Step]_ledger

=============================================================================
