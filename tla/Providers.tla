----------------------------- MODULE Providers -----------------------------
(***************************************************************************)
(* Calls of a language model: the response cache, the retries and the      *)
(* circuit breaker of llm/base.py, one breaker per provider in the         *)
(* process, and the fallback chain of llm/smart_router.py.                 *)
(*                                                                         *)
(* An error is what the code tells of its text: transient (is retried and  *)
(* counted), switchable (the next provider is tried).  The text of         *)
(* CircuitBreakerTripped and of "client not connected" is neither.  All    *)
(* calls ask the same question; time is whether the cooldown is over.      *)
(***************************************************************************)
EXTENDS Integers, Sequences, FiniteSets

CONSTANTS
    Calls,       \* concurrent callers: turns, extraction, critic, daemon
    Cancellable, \* those whose task may be cancelled
    Chain,       \* DEFAULT_FALLBACK_CHAIN, the configured provider first
    Keys,        \* providers with a key
    MaxFailures, \* max_failures of the breaker
    MaxRetries,  \* max_retries of the decorator
    MaxOutages   \* bound: times a provider goes down

Providers == {Chain[i] : i \in DOMAIN Chain}

ProvidersAssumption ==
    /\ Cancellable \subseteq Calls /\ Chain # <<>> /\ Keys \subseteq Providers /\ Chain[1] \in Keys
    /\ MaxFailures \in Nat \ {0} /\ MaxRetries \in Nat \ {0} /\ MaxOutages \in Nat

VARIABLES
    pc,        \* where each call is
    at,        \* the provider it talks to
    tried,     \* tried
    attempt,   \* retries of it so far
    out,       \* how the last call of a caller ended
    breaker,   \* state, failure_count, and whether the cooldown has passed, of each provider
    primary,   \* _primary
    connected, \* providers whose client is connected
    cached,    \* TRUE iff the answer lies in response_cache, not older than 900 s
    up,        \* providers that answer
    outages,   \* outages so far
    early      \* history: a request was sent while its breaker was open

callVars == <<pc, at, tried, attempt, out>>
vars == <<callVars, breaker, primary, connected, cached, up, outages, early>>

Init ==
    /\ pc = [c \in Calls |-> "idle"] /\ at = [c \in Calls |-> Chain[1]]
    /\ tried = [c \in Calls |-> {}] /\ attempt = [c \in Calls |-> 0]
    /\ out = [c \in Calls |-> "none"]
    /\ breaker = [p \in Providers |-> [state |-> "CLOSED", count |-> 0, cool |-> FALSE]]
    /\ primary = Chain[1] /\ connected = {Chain[1]} /\ cached = FALSE
    /\ up = Providers /\ outages = 0 /\ early = FALSE

Goto(c, place) == pc' = [pc EXCEPT ![c] = place]
End(c, how) == Goto(c, "idle") /\ out' = [out EXCEPT ![c] = how]
Least(a, b) == IF a <= b THEN a ELSE b

-----------------------------------------------------------------------------
(* CircuitBreaker. *)

\* record_failure(); the count matters up to MaxFailures.
Failed(b) ==
    LET n == Least(b.count + 1, MaxFailures)
    IN [state |-> IF b.state = "HALF_OPEN" \/ n = MaxFailures THEN "OPEN" ELSE b.state,
        count |-> n, cool |-> FALSE]

\* Mutant: a success resets the count but not the state.
SucceededHalf(b) == [b EXCEPT !.count = 0]

\* record_success(), also of a request that was sent before the breaker opened.
Succeeded(b) == [b EXCEPT !.state = "CLOSED", !.count = 0]

\* check(): an open breaker refuses, and lets requests through once it has cooled down.
Checked(b) == IF b.state = "OPEN" /\ b.cool THEN [b EXCEPT !.state = "HALF_OPEN"] ELSE b

Cool(p) ==
    /\ breaker[p].state = "OPEN" /\ ~breaker[p].cool
    /\ breaker' = [breaker EXCEPT ![p].cool = TRUE]
    /\ UNCHANGED <<callVars, primary, connected, cached, up, outages, early>>

-----------------------------------------------------------------------------
(* A call: call_with_fallback(), _cached_complete_json(), retry_on_transient(). *)

Begin(c) ==
    /\ pc[c] = "idle" /\ Goto(c, "look")
    /\ at' = [at EXCEPT ![c] = primary] /\ tried' = [tried EXCEPT ![c] = {primary}]
    /\ attempt' = [attempt EXCEPT ![c] = 0]
    /\ UNCHANGED <<out, breaker, primary, connected, cached, up, outages, early>>

\* The cache is asked before the breaker, under a key without provider or model.
Hit(c) ==
    /\ pc[c] = "look" /\ cached /\ End(c, "answer")
    /\ UNCHANGED <<at, tried, attempt, breaker, primary, connected, cached, up, outages, early>>

Send(c) ==
    /\ pc[c] = "look" /\ ~cached
    /\ breaker' = [breaker EXCEPT ![at[c]] = Checked(@)]
    /\ IF breaker'[at[c]].state = "OPEN" THEN End(c, "tripped") ELSE Goto(c, "sent") /\ UNCHANGED out
    /\ UNCHANGED <<at, tried, attempt, primary, connected, cached, up, outages, early>>

\* The sleep before a retry is over: the breaker is not asked again.
Resend(c) ==
    /\ pc[c] = "sleep" /\ Goto(c, "sent")
    /\ early' = (early \/ breaker[at[c]].state = "OPEN")
    /\ UNCHANGED <<at, tried, attempt, out, breaker, primary, connected, cached, up, outages>>

Answered(c) ==
    /\ pc[c] = "sent" /\ at[c] \in connected \cap up /\ End(c, "answer")
    /\ breaker' = [breaker EXCEPT ![at[c]] = Succeeded(@)] /\ cached' = TRUE
    /\ UNCHANGED <<at, tried, attempt, primary, connected, up, outages, early>>

\* A transient error: the breaker counts it; the call is retried unless the breaker is
\* open now or the retries are used up; then, by its text, the next provider is tried.
Transient(c) ==
    /\ pc[c] = "sent" /\ at[c] \in connected \ up
    /\ breaker' = [breaker EXCEPT ![at[c]] = Failed(@)]
    /\ \/ breaker'[at[c]].state = "OPEN" /\ End(c, "tripped") /\ UNCHANGED attempt
       \/ /\ breaker'[at[c]].state # "OPEN" /\ attempt[c] < MaxRetries - 1 /\ Goto(c, "sleep")
          /\ attempt' = [attempt EXCEPT ![c] = @ + 1] /\ UNCHANGED out
       \/ /\ breaker'[at[c]].state # "OPEN" /\ attempt[c] = MaxRetries - 1 /\ UNCHANGED attempt
          /\ (Goto(c, "switch") /\ UNCHANGED out) \/ End(c, "raised")
    /\ UNCHANGED <<at, tried, primary, connected, cached, up, outages, early>>

\* Any other error leaves the breaker as it is.  A client that was never connected raises
\* on its first use, and that error is not switchable.
Refused(c) ==
    /\ pc[c] = "sent" /\ at[c] \notin connected \cap up
    /\ \/ at[c] \in connected /\ Goto(c, "switch") /\ UNCHANGED out
       \/ End(c, "raised")
    /\ UNCHANGED <<at, tried, attempt, breaker, primary, connected, cached, up, outages, early>>

Untried(c) == {i \in DOMAIN Chain : Chain[i] \in Keys \ tried[c]}

\* The next provider of the chain that has a key; its client is built, and not connected.
Switch(c) ==
    /\ pc[c] = "switch"
    /\ IF Untried(c) = {} THEN End(c, "exhausted") /\ UNCHANGED <<at, tried, attempt>>
       ELSE LET p == Chain[CHOOSE i \in Untried(c) : \A j \in Untried(c) : i <= j]
            IN /\ at' = [at EXCEPT ![c] = p] /\ tried' = [tried EXCEPT ![c] = @ \cup {p}]
               /\ attempt' = [attempt EXCEPT ![c] = 0] /\ Goto(c, "look") /\ UNCHANGED out
    /\ UNCHANGED <<breaker, primary, connected, cached, up, outages, early>>

\* The caller's task is cancelled: the breaker hears nothing of its request.
Cancel(c) ==
    /\ c \in Cancellable /\ pc[c] # "idle" /\ End(c, "cancelled")
    /\ UNCHANGED <<at, tried, attempt, breaker, primary, connected, cached, up, outages, early>>

-----------------------------------------------------------------------------
(* The operator and the world. *)

\* set_provider(): /model switches the primary without connecting it.
SetProvider(p) ==
    /\ p \in Keys /\ p # primary /\ primary' = p
    /\ UNCHANGED <<callVars, breaker, connected, cached, up, outages, early>>

\* reload_provider(): a new router with the configured provider alone, connected; the
\* breakers, which are the module's, stay.
Reload ==
    /\ primary' = Chain[1] /\ connected' = {Chain[1]}
    /\ UNCHANGED <<callVars, breaker, cached, up, outages, early>>

Expire ==
    /\ cached /\ cached' = FALSE
    /\ UNCHANGED <<callVars, breaker, primary, connected, up, outages, early>>

GoesDown(p) ==
    /\ p \in up /\ outages < MaxOutages /\ outages' = outages + 1 /\ up' = up \ {p}
    /\ UNCHANGED <<callVars, breaker, primary, connected, cached, early>>

ComesUp(p) ==
    /\ p \notin up /\ up' = up \cup {p}
    /\ UNCHANGED <<callVars, breaker, primary, connected, cached, outages, early>>

-----------------------------------------------------------------------------

Work(c) ==
    \/ Begin(c) \/ Hit(c) \/ Send(c) \/ Resend(c) \/ Answered(c) \/ Transient(c) \/ Refused(c)
    \/ Switch(c)

Next ==
    \/ \E c \in Calls : Work(c) \/ Cancel(c)
    \/ \E p \in Providers : Cool(p) \/ SetProvider(p) \/ GoesDown(p) \/ ComesUp(p)
    \/ Reload \/ Expire

\* Callers call again and their tasks are scheduled; time passes.
Fairness ==
    /\ \A c \in Calls : WF_vars(Work(c))
    /\ \A p \in Providers : WF_vars(Cool(p))
    /\ WF_vars(Expire)

Spec == Init /\ [][Next]_vars /\ Fairness

-----------------------------------------------------------------------------

TypeOK ==
    /\ pc \in [Calls -> {"idle", "look", "sent", "sleep", "switch"}]
    /\ at \in [Calls -> Providers] /\ attempt \in [Calls -> 0 .. MaxRetries - 1]
    /\ \A c \in Calls : tried[c] \subseteq Keys
    /\ out \in [Calls -> {"none", "answer", "tripped", "raised", "exhausted", "cancelled"}]
    /\ breaker \in [Providers -> [state : {"CLOSED", "OPEN", "HALF_OPEN"},
                                  count : 0 .. MaxFailures, cool : BOOLEAN]]
    /\ primary \in Keys /\ connected \subseteq Providers /\ up \subseteq Providers
    /\ {cached, early} \subseteq BOOLEAN /\ outages \in 0 .. MaxOutages

\* A provider that answers again, and stays the primary, has its breaker closed again:
\* no order of late failures, probes, cancelled probes and other errors keeps it open or
\* half open for ever (base.py:85, check(); "cooling down ... Permitting 1 probe request").
HealthyIsClosed ==
    \A p \in Providers :
        <>[](p \in up \cap connected /\ primary = p) => []<>(breaker[p].state = "CLOSED")

\* While a breaker probes, one request of it is under way (base.py:88, "Permitting 1
\* probe request").
OneProbe ==
    \A p \in Providers : breaker[p].state = "HALF_OPEN" =>
        Cardinality({c \in Calls : pc[c] = "sent" /\ at[c] = p}) <= 1

\* No request is sent while the breaker is open (base.py:75, "Network suspended").
SuspendedMeansSuspended == ~early

\* A call that fails at an open breaker has asked every provider that has a key and
\* answers (smart_router.py:11, "SmartRouter tries the next provider").
FallbackIsAsked ==
    [][\A c \in Calls : pc[c] # "idle" /\ pc'[c] = "idle" /\ out'[c] = "tripped" =>
         Keys \cap up \subseteq tried[c]]_vars

\* A provider that is asked has been connected (smart_router.py:80, "Returns True if
\* successful").
AskedIsConnected == \A c \in Calls : pc[c] = "sent" => at[c] \in connected

=============================================================================
