----------------------------- MODULE FailoverLLM -----------------------------
(***************************************************************************)
(* The language-model providers an engine can ask, and the memory of their *)
(* failures that all its calls share (engine/failover_llm.py).             *)
(*                                                                         *)
(* A call decides once, when it begins, which providers it will try and in *)
(* which order; other calls fail, block and unblock providers meanwhile.   *)
(* The back-off of 30 or 300 seconds ends at any moment.                   *)
(***************************************************************************)
EXTENDS Integers, Functions

CONSTANTS
  NumProviders  \* how many providers are configured, in order of priority

ASSUME ProviderAssumption == NumProviders \in Nat \ {0}

Providers == 1 .. NumProviders

VARIABLES
  preferred,  \* the provider that answered last
  blocked,    \* providers in back-off
  left,       \* what each call that is under way may still try
  favourite   \* what it tries first

failoverVars == <<preferred, blocked, left, favourite>>

Unasked ==
  /\ preferred = 1 /\ blocked = {}
  /\ left = <<>> /\ favourite = <<>>

\* The order is read under the lock and used after it.
begin_call(c) ==
  /\ left' = [d \in DOMAIN left \union {c} |-> IF d = c THEN Providers \ blocked ELSE left[d]]
  /\ favourite' = [d \in DOMAIN favourite \union {c} |-> IF d = c THEN preferred ELSE favourite[d]]
  /\ UNCHANGED <<preferred, blocked>>

\* The provider a call waits for: the preferred one, then by priority.
Asked(c) ==
  IF favourite[c] \in left[c] THEN favourite[c]
  ELSE CHOOSE p \in left[c] : \A q \in left[c] : p <= q

\* Fault: the provider that failed is tried again.
provider_fails_again(c) ==
  /\ left[c] # {}
  /\ blocked' = blocked \union {Asked(c)}
  /\ UNCHANGED <<preferred, left, favourite>>

\* The provider raises: it is left alone for a while, by every caller.
provider_fails(c) ==
  /\ left[c] # {}
  /\ blocked' = blocked \union {Asked(c)}
  /\ left' = [left EXCEPT ![c] = @ \ {Asked(c)}]
  /\ UNCHANGED <<preferred, favourite>>

\* The provider answers: it is asked first from now on, and not blocked any
\* more, even if another call has just blocked it.
Answered(c) == preferred' = Asked(c) /\ blocked' = blocked \ {Asked(c)}

call_ends(c) ==
  /\ left' = Restrict(left, DOMAIN left \ {c})
  /\ favourite' = Restrict(favourite, DOMAIN favourite \ {c})

provider_answers(c) == left[c] # {} /\ Answered(c) /\ call_ends(c)

\* The answer was no use and the caller asks again, with a new order.
asked_again(c) ==
  /\ left[c] # {}
  /\ Answered(c)
  /\ left' = [left EXCEPT ![c] = Providers \ blocked']
  /\ favourite' = [favourite EXCEPT ![c] = preferred']

backoff_ends(p) ==
  /\ p \in blocked
  /\ blocked' = blocked \ {p}
  /\ UNCHANGED <<preferred, left, favourite>>

\* The memory of failures dies with the process.
failover_lost ==
  /\ preferred' = 1 /\ blocked' = {}
  /\ left' = <<>> /\ favourite' = <<>>

FailoverTypeOK ==
  /\ preferred \in Providers
  /\ blocked \subseteq Providers
  /\ left \in [DOMAIN left -> SUBSET Providers]
  /\ favourite \in [DOMAIN left -> Providers]

=============================================================================
