------------------------------- MODULE Sector -------------------------------
(***************************************************************************)
(* The sector classifier (apps/api/src/sector) with what it spends:  the   *)
(* daily budget, the usage log (providers/llm) and the usage counters      *)
(* (billing), for one tender of one organization.  classify is a sequence  *)
(* of awaits, so calls interleave between the budget check and the row     *)
(* that records the cost.  The title never changes after intake: its hash  *)
(* is one value, and sectorInputHash is that value or null.                *)
(***************************************************************************)
EXTENDS Integers, FiniteSets, Functions

CONSTANTS
    LlmCalls,      \* concurrently running handlers of the controller
    MaxRequests,   \* LLM_DAILY_MAX_REQUESTS
    MaxCost,       \* LLM_DAILY_MAX_COST_USD, in units of the price of one answer
    LastDay,       \* bound on the clock, in UTC days
    MaxBegun,      \* bound on handlers begun
    MaxOverrides,  \* bound on overrides among them
    MaxLlmFaults   \* bound on failing writes, failing provider calls and deaths

VARIABLES
    tender,    \* the sector columns of the tender
    llm,       \* the handler in each slot
    usageLog,  \* LlmUsageLog: rows of a day, by status, and their cost
    counter,   \* UsageCounter: llm_requests and llm_tokens of a day
    audited,   \* writes of the tender that have their audit event
    today,
    begun,     \* handlers begun: each writes the tender under its own number
    paid,      \* history: answers the provider was paid for on a day, and their price
    uncounted, \* history: those of them the usage log has no ok row of
    plain,     \* history: provider calls that were not forced
    overrides, \* history: overrides begun
    llmFaults

vars == <<tender, llm, usageLog, counter, audited, today, begun,
          paid, uncounted, plain, overrides, llmFaults>>

Days == 0..LastDay
Amount == [n : 0..MaxBegun, cost : 0..MaxBegun]
None == [n |-> 0, cost |-> 0]
Plus(amount, tokens) == [n |-> amount.n + 1, cost |-> amount.cost + tokens]

Tender == [state : {"live", "gone"}, sector : BOOLEAN, hash : BOOLEAN, write : 0..MaxBegun]
Handler == [pc : {"idle", "check", "generate", "error", "record", "requests", "tokens",
                  "persist", "audit"},
            force : BOOLEAN, human : BOOLEAN, since : Days, tokens : 0..1, write : 0..MaxBegun]
Resting == [pc |-> "idle", force |-> FALSE, human |-> FALSE, since |-> 0, tokens |-> 0, write |-> 0]

\* A manual tender has no sector yet; an ingested one has the upstream's, without a hash.
Init ==
    /\ \E sector \in BOOLEAN :
         tender = [state |-> "live", sector |-> sector, hash |-> FALSE, write |-> 0]
    /\ llm = [c \in LlmCalls |-> Resting]
    /\ usageLog = [d \in Days |-> [ok |-> None, error |-> 0]]
    /\ counter = [d \in Days |-> [requests |-> 0, tokens |-> 0]]
    /\ audited = {0}
    /\ today = 0
    /\ begun = 0
    /\ paid = [d \in Days |-> None]
    /\ uncounted = [d \in Days |-> None]
    /\ plain = 0
    /\ overrides = 0
    /\ llmFaults = 0

At(c, pc) == llm[c].pc = pc
Become(c, h) == llm' = [llm EXCEPT ![c] = h]
Goto(c, pc) == Become(c, [llm[c] EXCEPT !.pc = pc])
Throw(c) == Become(c, Resting)
Fault == llmFaults < MaxLlmFaults /\ llmFaults' = llmFaults + 1

-----------------------------------------------------------------------------
(* classify *)

\* Mutant: the cache is keyed on the hash of a text that changes.
CachedNever(force) == ~force /\ tender.sector /\ tender.hash /\ tender.write = 0

Cached(force) == ~force /\ tender.sector /\ tender.hash

\* tenders.get, the cache test and the start of the budget's day.  A cached
\* answer and a missing tender change nothing.
Classify(c, force) ==
    /\ At(c, "idle")
    /\ begun < MaxBegun
    /\ tender.state = "live" /\ ~Cached(force)
    /\ begun' = begun + 1
    /\ Become(c, [Resting EXCEPT !.pc = "check", !.force = force, !.since = today,
                                 !.write = begun + 1])
    /\ UNCHANGED <<tender, usageLog, counter, audited, today, paid, uncounted, plain,
                   overrides, llmFaults>>

\* dailyTotals: the ok rows since the given day's start.
Totals(since) ==
    LET days == {d \in Days : d >= since}
    IN  [n |-> SumFunctionOnSet([d \in Days |-> usageLog[d].ok.n], days),
         cost |-> SumFunctionOnSet([d \in Days |-> usageLog[d].ok.cost], days)]

\* Mutant: the last request of the day is let through once too often.
CanSpendInclusive(since) == Totals(since).n <= MaxRequests /\ Totals(since).cost <= MaxCost

CanSpend(since) == Totals(since).n < MaxRequests /\ Totals(since).cost < MaxCost

AssertCanSpend(c) ==
    /\ At(c, "check")
    /\ IF CanSpend(llm[c].since) THEN Goto(c, "generate") ELSE Throw(c)
    /\ UNCHANGED <<tender, usageLog, counter, audited, today, begun, paid, uncounted, plain,
                   overrides, llmFaults>>

Pay(tokens) == paid' = [paid EXCEPT ![today] = Plus(@, tokens)]
NotCounted(day, tokens) == uncounted' = [uncounted EXCEPT ![day] = Plus(@, tokens)]

\* generateJson: an answer, with or without its usage; a provider that refuses;
\* or an answer that was paid for and fails the JSON or schema test.
Generate(c) ==
    /\ At(c, "generate")
    /\ plain' = IF llm[c].force THEN plain ELSE plain + 1
    /\ \/ \E tokens \in 0..1 :
            /\ Pay(tokens)
            /\ Become(c, [llm[c] EXCEPT !.pc = "record", !.force = FALSE, !.tokens = tokens,
                                     !.since = today])
            /\ UNCHANGED <<uncounted, llmFaults>>
       \/ /\ Fault
          /\ Goto(c, "error")
          /\ UNCHANGED <<paid, uncounted>>
       \/ /\ Fault
          /\ Goto(c, "error")
          /\ \E tokens \in 0..1 : Pay(tokens) /\ NotCounted(today, tokens)
    /\ UNCHANGED <<tender, usageLog, counter, audited, today, begun, overrides>>

\* recordError, then the exception goes on.
RecordError(c) ==
    /\ At(c, "error")
    /\ usageLog' = [usageLog EXCEPT ![today].error = @ + 1]
    /\ Throw(c)
    /\ UNCHANGED <<tender, counter, audited, today, begun, paid, uncounted, plain, overrides,
                   llmFaults>>

\* recordOk swallows a failing write.
RecordOk(c) ==
    /\ At(c, "record")
    /\ Become(c, [llm[c] EXCEPT !.pc = "requests", !.since = 0])
    /\ \/ /\ usageLog' = [usageLog EXCEPT ![today].ok = Plus(@, llm[c].tokens)]
          /\ UNCHANGED <<uncounted, llmFaults>>
       \/ /\ Fault
          /\ NotCounted(llm[c].since, llm[c].tokens)
          /\ UNCHANGED usageLog
    /\ UNCHANGED <<tender, counter, audited, today, begun, paid, plain, overrides>>

\* Mutant: an answer without usage is not counted at all.
BumpRequestsOfTokens(c) ==
    /\ At(c, "requests")
    /\ counter' = [counter EXCEPT ![today].requests = @ + llm[c].tokens]
    /\ Goto(c, IF llm[c].tokens > 0 THEN "tokens" ELSE "persist")
    /\ UNCHANGED <<tender, usageLog, audited, today, begun, paid, uncounted, plain, overrides,
                   llmFaults>>

BumpRequests(c) ==
    /\ At(c, "requests")
    /\ counter' = [counter EXCEPT ![today].requests = @ + 1]
    /\ Goto(c, IF llm[c].tokens > 0 THEN "tokens" ELSE "persist")
    /\ UNCHANGED <<tender, usageLog, audited, today, begun, paid, uncounted, plain, overrides,
                   llmFaults>>

BumpTokens(c) ==
    /\ At(c, "tokens")
    /\ counter' = [counter EXCEPT ![today].tokens = @ + llm[c].tokens]
    /\ Become(c, [llm[c] EXCEPT !.pc = "persist", !.tokens = 0])
    /\ UNCHANGED <<tender, usageLog, audited, today, begun, paid, uncounted, plain, overrides,
                   llmFaults>>

-----------------------------------------------------------------------------
(* override, the write both share, and the removal of the tender *)

Override(c) ==
    /\ At(c, "idle")
    /\ begun < MaxBegun /\ overrides < MaxOverrides
    /\ tender.state = "live"
    /\ begun' = begun + 1
    /\ overrides' = overrides + 1
    /\ Become(c, [Resting EXCEPT !.pc = "persist", !.human = TRUE, !.write = begun + 1])
    /\ UNCHANGED <<tender, usageLog, counter, audited, today, paid, uncounted, plain, llmFaults>>

\* persistSectorClassification; the update of a removed tender throws.  The
\* hash is null for a human's choice.
Persist(c) ==
    /\ At(c, "persist")
    /\ \/ /\ tender.state = "live"
          /\ tender' = [tender EXCEPT !.sector = TRUE, !.hash = ~llm[c].human,
                                      !.write = llm[c].write]
          /\ Become(c, [llm[c] EXCEPT !.pc = "audit", !.human = FALSE])
       \/ /\ tender.state = "gone"
          /\ Throw(c)
          /\ UNCHANGED tender
    /\ UNCHANGED <<usageLog, counter, audited, today, begun, paid, uncounted, plain, overrides,
                   llmFaults>>

Audit(c) ==
    /\ At(c, "audit")
    /\ audited' = audited \cup {llm[c].write}
    /\ Throw(c)
    /\ UNCHANGED <<tender, usageLog, counter, today, begun, paid, uncounted, plain, overrides,
                   llmFaults>>

RemoveTender ==
    /\ tender.state = "live"
    /\ tender' = [tender EXCEPT !.state = "gone"]
    /\ UNCHANGED <<llm, usageLog, counter, audited, today, begun, paid, uncounted, plain,
                   overrides, llmFaults>>

Midnight ==
    /\ today < LastDay
    /\ today' = today + 1
    /\ UNCHANGED <<tender, llm, usageLog, counter, audited, begun, paid, uncounted, plain,
                   overrides, llmFaults>>

\* A database call throws, or the process dies: the handler ends where it is.
Abort(c) ==
    /\ ~At(c, "idle")
    /\ Fault
    /\ Throw(c)
    /\ IF At(c, "record") THEN NotCounted(llm[c].since, llm[c].tokens) ELSE UNCHANGED uncounted
    /\ UNCHANGED <<tender, usageLog, counter, audited, today, begun, paid, plain, overrides>>

Next ==
    \/ \E c \in LlmCalls :
         \/ \E force \in BOOLEAN : Classify(c, force)
         \/ AssertCanSpend(c) \/ Generate(c) \/ RecordError(c) \/ RecordOk(c)
         \/ BumpRequests(c) \/ BumpTokens(c)
         \/ Override(c) \/ Persist(c) \/ Audit(c)
         \/ Abort(c)
    \/ RemoveTender
    \/ Midnight

Spec == Init /\ [][Next]_vars

-----------------------------------------------------------------------------
\* The shapes of the tables and of the running handlers.
TypeOK ==
    /\ tender \in Tender
    /\ llm \in [LlmCalls -> Handler]
    /\ usageLog \in [Days -> [ok : Amount, error : 0..MaxBegun]]
    /\ counter \in [Days -> [requests : 0..MaxBegun, tokens : 0..MaxBegun]]
    /\ audited \subseteq 0..MaxBegun
    /\ today \in Days
    /\ begun \in 0..MaxBegun /\ overrides \in 0..MaxOverrides /\ llmFaults \in 0..MaxLlmFaults
    /\ paid \in [Days -> Amount] /\ uncounted \in [Days -> Amount]
    /\ plain \in 0..MaxBegun

\* The budget is checked before the provider is called and the cost is recorded
\* after it, so the cap is overrun, but only by the calls that run beside the
\* last one allowed, and by answers the usage log has no ok row of.
SpendBounded ==
    \A d \in Days :
        /\ paid[d].n <= MaxRequests - 1 + Cardinality(LlmCalls) + uncounted[d].n
        /\ paid[d].cost <= MaxCost - 1 + Cardinality(LlmCalls) + uncounted[d].cost

Logged == Totals(0)
Counted ==
    [n |-> SumFunctionOnSet([d \in Days |-> counter[d].requests], Days),
     cost |-> SumFunctionOnSet([d \in Days |-> counter[d].tokens], Days)]
AtAny(pcs) == {c \in LlmCalls : llm[c].pc \in pcs}

\* The usage log and the usage counters, written by different awaits of one
\* call and around midnight on different days, count the same answers: they
\* differ by the calls between the two writes and by one per fault.
UsageReconciles ==
    /\ Logged.n - Counted.n - Cardinality(AtAny({"requests"})) \in -llmFaults..llmFaults
    /\ Logged.cost - Counted.cost
         - SumFunctionOnSet([c \in LlmCalls |-> llm[c].tokens], AtAny({"requests", "tokens"}))
         \in -llmFaults..llmFaults

\* Asking again is free: calls that are not forced reach the provider at most
\* once per slot until a result is stored, again after a human override clears
\* the hash, and once more for each fault.
PlainCallsBounded ==
    plain <= Cardinality(LlmCalls) * (1 + overrides) + llmFaults
=============================================================================
