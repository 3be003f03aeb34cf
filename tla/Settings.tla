------------------------------ MODULE Settings ------------------------------
(***************************************************************************)
(* The settings of the platform: the stored configuration documents, the   *)
(* updates of the administration, and the cache through which bets,        *)
(* deposits and withdrawals read the limits that are in force.             *)
(*                                                                         *)
(* An update reads a document, checks the merged settings and saves later; *)
(* a request that misses the cache waits for the database.  What happens   *)
(* between such halves is what the module is about.                        *)
(***************************************************************************)
EXTENDS Naturals, Sequences, FiniteSets

CONSTANTS
    Defaults,       \* a document as the schema creates it
    Pairs,          \* pairs of fields <<minimum, maximum>>
    Payloads,       \* settings asked for, each by the fields it names
    Contacts,       \* the same for the contact of the support
    Merchants,      \* the same for the UPI id of the merchant
    TTL,            \* ticks a cached document is used for
    MaxTime,        \* bound: the clock
    MaxUpdates,     \* bound: updates asked for
    MaxReads        \* bound: requests that wait for the database at once

VARIABLES
    docs,           \* the documents, in the order they were created
    cache,          \* what configCache holds: [doc, of, at], or NoCache
    now,            \* the clock
    updates,        \* updates that have read and are not finished
    reads,          \* requests that wait for the database
    asked,          \* number of updates so far
    inForce,        \* history: the documents in force, each with a time it was
    overtaken       \* history: a document was saved that had changed since it was read

\* The schema creates a valid document; contact and UPI id are no limits.
ASSUME SettingsAssumption ==
    /\ TTL \in Nat
    /\ Defaults = [f \in DOMAIN Defaults |-> Defaults[f]]
    /\ \A p \in Pairs : {p[1], p[2]} \subseteq DOMAIN Defaults /\ Defaults[p[1]] <= Defaults[p[2]]
    /\ \A payload \in Merchants \union Contacts, p \in Pairs :
         {p[1], p[2]} \intersect DOMAIN payload = {}

vars == <<docs, cache, now, updates, reads, asked, inForce, overtaken>>

NoCache == [doc |-> Defaults, of |-> 0, at |-> 0, set |-> FALSE]

Init ==
    /\ docs = <<>>
    /\ cache = NoCache
    /\ now = 0
    /\ updates = {}
    /\ reads = {}
    /\ asked = 0
    /\ inForce = {}
    /\ overtaken = FALSE

Tick ==
    /\ now < MaxTime
    /\ now' = now + 1
    /\ inForce' = inForce \union
         IF docs = <<>> THEN {} ELSE {[at |-> now + 1, doc |-> docs[Len(docs)]]}
    /\ UNCHANGED <<docs, cache, updates, reads, asked, overtaken>>

\* The newest document is the one in force.
Store(next) ==
    /\ docs' = next
    /\ inForce' = inForce \union {[at |-> now, doc |-> next[Len(next)]]}

-----------------------------------------------------------------------------
(* Updates of the administration *)

Merged(doc, payload) ==
    [f \in DOMAIN doc |-> IF f \in DOMAIN payload THEN payload[f] ELSE doc[f]]

NewDocument(payload) == Merged(Defaults, payload)

\* What the settings are shown as, and what an update starts from: the document
\* the collection yields first, the oldest, or the defaults.
Current == IF docs = <<>> THEN Defaults ELSE docs[1]

Valid(doc) == \A p \in Pairs : doc[p[1]] <= doc[p[2]]

PayloadOnly(doc, payload) ==                                    \* Mutant
    \A p \in Pairs : {p[1], p[2]} \subseteq DOMAIN payload => payload[p[1]] <= payload[p[2]]
Accepted(doc, payload) == Valid(Merged(doc, payload))

Ask(payload, kind) ==
    /\ asked < MaxUpdates
    /\ asked' = asked + 1
    /\ updates' = updates \union
         {[nr |-> asked, kind |-> kind, payload |-> payload, saved |-> FALSE,
           found |-> docs # <<>>, read |-> Current]}
    /\ UNCHANGED <<docs, cache, now, reads, inForce, overtaken>>

AskSettings(payload) ==
    /\ Accepted(Current, payload)
    /\ Ask(payload, "settings")

AskContact(payload) == Ask(payload, "contact")

Changed(doc, payload) ==
    LET changed == {f \in DOMAIN payload : payload[f] # doc[f]}
    IN  [f \in changed |-> payload[f]]

\* The document is created when none was found; otherwise the fields that differ
\* from what was read are written.
Save(u) ==
    LET done == [u EXCEPT !.saved = TRUE]
    IN  /\ ~u.saved
        /\ IF u.found THEN Store([docs EXCEPT ![1] = Merged(@, Changed(u.read, u.payload))])
                      ELSE Store(Append(docs, NewDocument(u.payload)))
        /\ overtaken' = (overtaken \/ (u.found /\ docs[1] # u.read))
        /\ updates' = (updates \ {u}) \union IF u.kind = "settings" THEN {done} ELSE {}
        /\ UNCHANGED <<cache, now, reads, asked>>

Invalidate(u) ==
    /\ u.saved
    /\ cache' = NoCache
    /\ updates' = updates \ {u}
    /\ UNCHANGED <<docs, now, reads, asked, inForce, overtaken>>

-----------------------------------------------------------------------------
(* Requests that use the settings *)

NeverExpires == cache.set                                       \* Mutant
Fresh == cache.set /\ now - cache.at < TTL

\* A request that waits: for the document in force, or for a save of its payload.
Wait(stage, doc, of, payload) ==
    LET free == CHOOSE nr \in 1 .. MaxReads : \A r \in reads : r.nr # nr
    IN  /\ Cardinality(reads) < MaxReads
        /\ reads' = reads \union {[nr |-> free, since |-> now, stage |-> stage,
                                   doc |-> doc, of |-> of, payload |-> payload]}

\* The age of what is fetched counts from the start of the request.
Miss ==
    /\ ~Fresh
    /\ Wait("asked", Defaults, 0, <<>>)
    /\ UNCHANGED <<docs, cache, now, updates, asked, inForce, overtaken>>

\* The UPI id is set in the cached document itself, which is then saved.
AskMerchant(payload) ==
    /\ asked < MaxUpdates
    /\ asked' = asked + 1
    /\ IF Fresh
       THEN /\ Wait("saving", cache.doc, cache.of, payload)
            /\ cache' = [cache EXCEPT !.doc = Merged(@, payload)]
       ELSE /\ Wait("asked", Defaults, 0, payload)
            /\ UNCHANGED cache
    /\ UNCHANGED <<docs, now, updates, inForce, overtaken>>

Replace(r, next) == reads' = (reads \ {r}) \union {next}

Fetch(r) ==
    /\ r.stage = "asked"
    /\ Replace(r, IF docs = <<>> THEN [r EXCEPT !.stage = "none"]
                  ELSE [r EXCEPT !.stage = "fetched", !.doc = docs[Len(docs)], !.of = Len(docs)])
    /\ UNCHANGED <<docs, cache, now, updates, asked, inForce, overtaken>>

Create(r) ==
    /\ r.stage = "none"
    /\ Store(Append(docs, Defaults))
    /\ Replace(r, [r EXCEPT !.stage = "fetched", !.of = Len(docs) + 1])
    /\ UNCHANGED <<cache, now, updates, asked, overtaken>>

Finish(r) ==
    /\ r.stage = "fetched"
    /\ cache' = [doc |-> Merged(r.doc, r.payload), of |-> r.of, at |-> r.since, set |-> TRUE]
    /\ IF DOMAIN r.payload = {} THEN reads' = reads \ {r}
                                ELSE Replace(r, [r EXCEPT !.stage = "saving"])
    /\ UNCHANGED <<docs, now, updates, asked, inForce, overtaken>>

SaveMerchant(r) ==
    /\ r.stage = "saving"
    /\ Store([docs EXCEPT ![r.of] = Merged(@, Changed(r.doc, r.payload))])
    /\ reads' = reads \ {r}
    /\ overtaken' = (overtaken \/ docs[r.of] # r.doc)
    /\ UNCHANGED <<cache, now, updates, asked>>

\* The process restarts: what it was doing and its cache are gone.
Restart ==
    /\ cache' = NoCache
    /\ updates' = {}
    /\ reads' = {}
    /\ UNCHANGED <<docs, now, asked, inForce, overtaken>>

Next ==
    \/ Tick
    \/ \E p \in Payloads : AskSettings(p)
    \/ \E p \in Contacts : AskContact(p)
    \/ \E u \in updates : Save(u) \/ Invalidate(u)
    \/ Miss
    \/ \E p \in Merchants : AskMerchant(p)
    \/ \E r \in reads : Fetch(r) \/ Create(r) \/ Finish(r) \/ SaveMerchant(r)
    \/ Restart

Spec == Init /\ [][Next]_vars

-----------------------------------------------------------------------------
(* Properties *)

\* A minimum is not above its maximum in any document, as long as no update was
\* saved over a document that had changed since the update read it.
PairsValid == ~overtaken => \A i \in DOMAIN docs : Valid(docs[i])

Limits(doc) == [p \in Pairs |-> <<doc[p[1]], doc[p[2]]>>]

\* Whatever updates, fetches, invalidations and restarts overtake each other, the
\* limits a request can be answered with have been in force together since the
\* request was made, or, when they come from the cache, less than TTL before.
UsedWasInForce ==
    /\ Fresh => \E f \in inForce : Limits(f.doc) = Limits(cache.doc) /\ f.at + TTL > now
    /\ \A r \in reads : r.stage = "fetched" =>
          \E f \in inForce : Limits(f.doc) = Limits(r.doc) /\ f.at >= r.since
=============================================================================
