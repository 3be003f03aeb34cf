--------------------------- MODULE SettingsProofs ---------------------------
(***************************************************************************)
(* That no request is answered with limits that were not in force, and that*)
(* no document has a minimum above its maximum: for any number of updates, *)
(* of requests that wait for the database, of documents and of restarts,   *)
(* and any time the cache keeps a document.                                *)
(***************************************************************************)
EXTENDS Settings, TLAPS

Asked == Payloads \union Contacts \union Merchants \union {<<>>}

Values ==
    {Defaults[f] : f \in DOMAIN Defaults}
      \union UNION {{payload[f] : f \in DOMAIN payload} : payload \in Asked}

Document == [DOMAIN Defaults -> Values]

UpdateOK(u) ==
    /\ u \in [nr : Nat, kind : {"settings", "contact"}, payload : Payloads \union Contacts,
              saved : BOOLEAN, found : BOOLEAN, read : Document]
    /\ u.found => docs # <<>>

ReadOK(r) ==
    /\ r \in [nr : {r.nr}, since : 0 .. now, stage : {"asked", "none", "fetched", "saving"},
              doc : Document, of : Nat, payload : Merchants \union {<<>>}]
    /\ r.stage \in {"asked", "none"} => r.doc = Defaults
    /\ r.stage \in {"fetched", "saving"} => r.of \in DOMAIN docs

TypeOK ==
    /\ docs \in Seq(Document)
    /\ now \in Nat
    /\ asked \in Nat
    /\ cache \in [doc : Document, of : Nat, at : Nat, set : BOOLEAN]
    /\ cache.set => cache.of \in DOMAIN docs
    /\ \A u \in updates : UpdateOK(u)
    /\ \A r \in reads : ReadOK(r)

\* The limits of a document were in force at a time or later.
WasInForce(doc, since) ==
    \E f \in inForce : Limits(f.doc) = Limits(doc) /\ f.at \in Nat /\ f.at >= since

\* What UsedWasInForce rests on: the document in force is recorded as such at
\* each instant, and the cache holds what was in force when its request was made.
ForceInv ==
    /\ docs # <<>> => [at |-> now, doc |-> docs[Len(docs)]] \in inForce
    /\ cache.set => WasInForce(cache.doc, cache.at)
    /\ \A r \in reads : r.stage = "fetched" => WasInForce(r.doc, r.since)

SettingsInv == TypeOK /\ ForceInv

-----------------------------------------------------------------------------
(* Documents *)

LEMMA DefaultsIsDocument == Defaults \in Document
BY SettingsAssumption DEF Document, Values

LEMMA MergedIsDocument ==
    ASSUME NEW doc \in Document, NEW payload,
           \A f \in DOMAIN payload : payload[f] \in Values
    PROVE  Merged(doc, payload) \in Document
BY DEF Document, Merged

LEMMA AskedHasValues ==
    ASSUME NEW payload \in Asked
    PROVE  \A f \in DOMAIN payload : payload[f] \in Values
BY DEF Values

LEMMA ChangedHasValues ==
    ASSUME NEW payload \in Asked, NEW doc
    PROVE  \A f \in DOMAIN Changed(doc, payload) : Changed(doc, payload)[f] \in Values
BY AskedHasValues DEF Changed

\* The UPI id of the merchant leaves the limits of a document as they are.
LEMMA MerchantKeepsLimits ==
    ASSUME NEW doc \in Document, NEW payload \in Merchants \union {<<>>}
    PROVE  Limits(Merged(doc, payload)) = Limits(doc)
<1>1. ASSUME NEW p \in Pairs
      PROVE  Merged(doc, payload)[p[1]] = doc[p[1]] /\ Merged(doc, payload)[p[2]] = doc[p[2]]
    <2>1. p[1] \notin DOMAIN payload /\ p[2] \notin DOMAIN payload
        <3>1. CASE payload \in Merchants
            BY <3>1, SettingsAssumption
        <3>2. CASE payload = <<>>
            BY <3>2
        <3> QED BY <3>1, <3>2
    <2>2. p[1] \in DOMAIN doc /\ p[2] \in DOMAIN doc
        BY SettingsAssumption DEF Document
    <2> QED BY <2>1, <2>2 DEF Merged
<1> QED BY <1>1 DEF Limits

-----------------------------------------------------------------------------
(* Steps *)

LEMMA InitEstablishes == Init => SettingsInv
<1> SUFFICES ASSUME Init PROVE SettingsInv
    OBVIOUS
<1>1. TypeOK
    BY DefaultsIsDocument DEF Init, TypeOK, NoCache
<1>2. ForceInv
    BY DEF Init, ForceInv, NoCache
<1> QED BY <1>1, <1>2 DEF SettingsInv

\* What was in force stays recorded.
LEMMA RecordsStay ==
    ASSUME inForce \subseteq inForce', NEW doc, NEW since, WasInForce(doc, since)
    PROVE  WasInForce(doc, since)'
BY DEF WasInForce, Limits

\* A step that stores no document and leaves cache and clock alone.
LEMMA QuietPreserves ==
    ASSUME SettingsInv, asked' \in Nat, UNCHANGED <<docs, now, cache, inForce>>,
           \A u \in updates' : u \in updates \/ UpdateOK(u)',
           \A r \in reads' : \/ r \in reads
                             \/ ReadOK(r)' /\ (r.stage = "fetched" => WasInForce(r.doc, r.since)')
    PROVE  SettingsInv'
<1>1. TypeOK'
    BY DEF SettingsInv, TypeOK, UpdateOK, ReadOK
<1>2. ForceInv'
    <2>1. inForce \subseteq inForce'
        OBVIOUS
    <2> QED BY <2>1, RecordsStay DEF SettingsInv, ForceInv
<1> QED BY <1>1, <1>2 DEF SettingsInv

\* Storing a document keeps the invariant, whichever document that is.
LEMMA StorePreserves ==
    ASSUME SettingsInv, NEW next, Store(next),
           next \in Seq(Document), Len(docs) <= Len(next), next # <<>>,
           asked' \in Nat, UNCHANGED <<now, cache>>,
           \A u \in updates' : u \in updates \/ UpdateOK(u)',
           \A r \in reads' : \/ r \in reads
                             \/ ReadOK(r)' /\ (r.stage = "fetched" => WasInForce(r.doc, r.since)')
    PROVE  SettingsInv'
<1>0. docs' = next /\ inForce' = inForce \union {[at |-> now, doc |-> next[Len(next)]]}
    BY DEF Store
<1>1. DOMAIN docs \subseteq DOMAIN docs'
    BY <1>0 DEF SettingsInv, TypeOK
<1>2. TypeOK'
    BY <1>0, <1>1 DEF SettingsInv, TypeOK, UpdateOK, ReadOK
<1>3. ForceInv'
    <2>1. inForce \subseteq inForce'
        BY <1>0
    <2> QED BY <1>0, <2>1, RecordsStay DEF SettingsInv, ForceInv
<1> QED BY <1>2, <1>3 DEF SettingsInv

LEMMA TickPreserves == ASSUME SettingsInv, Tick PROVE SettingsInv'
<1> USE DEF SettingsInv, Tick
<1>1. TypeOK'
    BY DEF TypeOK, UpdateOK, ReadOK
<1>2. ForceInv'
    <2>1. inForce \subseteq inForce'
        OBVIOUS
    <2>2. docs' # <<>> => [at |-> now', doc |-> docs'[Len(docs')]] \in inForce'
        OBVIOUS
    <2> QED BY <2>1, <2>2, RecordsStay DEF ForceInv
<1> QED BY <1>1, <1>2

LEMMA AskPreserves ==
    ASSUME SettingsInv, NEW payload \in Payloads \union Contacts,
           NEW kind \in {"settings", "contact"}, Ask(payload, kind)
    PROVE  SettingsInv'
<1>1. Current \in Document
    BY DefaultsIsDocument DEF Current, SettingsInv, TypeOK
<1>2. UNCHANGED <<docs, cache, now, reads, inForce>>
    BY DEF Ask
<1> DEFINE has == docs # <<>>
           new == [nr |-> asked, kind |-> kind, payload |-> payload, saved |-> FALSE,
                   found |-> has, read |-> Current]
<1>3. updates' = updates \union {new}
    BY DEF Ask
<1>4. asked \in Nat /\ asked' \in Nat
    BY DEF Ask, SettingsInv, TypeOK
<1>5. \A u : u = new => UpdateOK(u)'
    <2>1. has \in BOOLEAN /\ (has => docs' # <<>>)
        BY <1>2
    <2> HIDE DEF has
    <2>2. /\ new \in [nr : Nat, kind : {"settings", "contact"}, payload : Payloads \union Contacts,
                     saved : BOOLEAN, found : BOOLEAN, read : Document]
          /\ new.found = has
        BY <1>1, <1>4, <2>1
    <2> HIDE DEF new
    <2> QED BY <2>1, <2>2 DEF UpdateOK, Document
<1> HIDE DEF new
<1>6. \A u \in updates' : u \in updates \/ UpdateOK(u)'
    BY <1>3, <1>5
<1> QED BY <1>2, <1>4, <1>6, QuietPreserves

LEMMA SavePreserves == ASSUME SettingsInv, NEW u \in updates, Save(u) PROVE SettingsInv'
<1> DEFINE delta  == Changed(u.read, u.payload)
           merged == [docs EXCEPT ![1] = Merged(docs[1], delta)]
           grown  == Append(docs, NewDocument(u.payload))
           done   == [u EXCEPT !.saved = TRUE]
<1>0. TypeOK /\ UpdateOK(u) /\ Len(docs) \in Nat
    BY DEF SettingsInv, TypeOK
<1>1. u.payload \in Asked
    BY <1>0 DEF UpdateOK, Asked
<1>2. UNCHANGED <<cache, now, reads>>
    BY DEF Save
<1>3. updates' \subseteq updates \union {done}
    <2>1. updates' = (updates \ {u}) \union IF u.kind = "settings" THEN {done} ELSE {}
        BY DEF Save
    <2> HIDE DEF done
    <2> QED BY <2>1
<1>4. asked' \in Nat
    BY <1>0 DEF Save, TypeOK
<1>5. ASSUME docs' # <<>> PROVE \A v : v = done => UpdateOK(v)'
    BY <1>0, <1>5 DEF UpdateOK
<1> HIDE DEF done
<1>6. CASE u.found
    <2>1. docs # <<>> /\ docs[1] \in Document /\ 1 \in DOMAIN docs
        BY <1>0, <1>6 DEF UpdateOK, TypeOK
    <2>2. Merged(docs[1], delta) \in Document
        BY <1>1, <2>1, ChangedHasValues, MergedIsDocument
    <2>3. merged \in Seq(Document) /\ Len(merged) = Len(docs) /\ merged # <<>>
        BY <1>0, <2>1, <2>2 DEF TypeOK
    <2>4. Store(merged)
        BY <1>6 DEF Save
    <2> HIDE DEF merged
    <2>5. \A v \in updates' : v \in updates \/ UpdateOK(v)'
        BY <1>3, <1>5, <2>3, <2>4 DEF Store
    <2> QED BY <1>0, <1>2, <1>4, <2>3, <2>4, <2>5, StorePreserves
<1>7. CASE ~u.found
    <2>1. NewDocument(u.payload) \in Document
        BY <1>1, AskedHasValues, DefaultsIsDocument, MergedIsDocument DEF NewDocument
    <2>2. docs \in Seq(Document)
        BY <1>0 DEF TypeOK
    <2>3. grown \in Seq(Document) /\ Len(grown) = Len(docs) + 1
        BY <2>1, <2>2
    <2>4. Store(grown)
        BY <1>7 DEF Save
    <2> HIDE DEF grown
    <2>5. grown # <<>>
        BY <1>0, <2>3
    <2>6. \A v \in updates' : v \in updates \/ UpdateOK(v)'
        BY <1>3, <1>5, <2>4, <2>5 DEF Store
    <2> QED BY <1>0, <1>2, <1>4, <2>3, <2>4, <2>5, <2>6, StorePreserves
<1> QED BY <1>6, <1>7

LEMMA InvalidatePreserves ==
    ASSUME SettingsInv, asked' \in Nat, UNCHANGED <<docs, now, inForce>>, cache' = NoCache,
           updates' \subseteq updates, reads' \subseteq reads
    PROVE  SettingsInv'
<1>1. TypeOK'
    BY DefaultsIsDocument DEF SettingsInv, TypeOK, UpdateOK, ReadOK, NoCache
<1>2. ForceInv'
    <2>1. inForce \subseteq inForce'
        OBVIOUS
    <2> QED BY <2>1, RecordsStay DEF SettingsInv, ForceInv, NoCache
<1> QED BY <1>1, <1>2 DEF SettingsInv

\* Waiting for the database, to read or to save.
LEMMA WaitIsOK ==
    ASSUME SettingsInv, UNCHANGED <<docs, now>>,
           NEW stage \in {"asked", "saving"}, NEW doc \in Document, NEW of \in Nat,
           NEW payload \in Merchants \union {<<>>},
           stage = "asked" => doc = Defaults,
           stage = "saving" => of \in DOMAIN docs,
           Wait(stage, doc, of, payload)
    PROVE  \A r \in reads' : r \in reads \/ (ReadOK(r)' /\ r.stage # "fetched")
BY DEF SettingsInv, TypeOK, Wait, ReadOK

LEMMA MissPreserves == ASSUME SettingsInv, Miss PROVE SettingsInv'
<1>1. UNCHANGED <<docs, now, cache, inForce, updates>> /\ asked' \in Nat
    BY DEF Miss, SettingsInv, TypeOK
<1>2. \A r \in reads' : r \in reads \/ (ReadOK(r)' /\ r.stage # "fetched")
    BY <1>1, WaitIsOK, DefaultsIsDocument DEF Miss
<1> QED BY <1>1, <1>2, QuietPreserves

LEMMA AskMerchantPreserves ==
    ASSUME SettingsInv, NEW payload \in Merchants, AskMerchant(payload)
    PROVE  SettingsInv'
<1>0. UNCHANGED <<docs, now, updates, inForce>> /\ asked' \in Nat
    BY DEF AskMerchant, SettingsInv, TypeOK
<1>1. CASE ~Fresh
    <2>1. UNCHANGED cache /\ Wait("asked", Defaults, 0, payload)
        BY <1>1 DEF AskMerchant
    <2>2. \A r \in reads' : r \in reads \/ (ReadOK(r)' /\ r.stage # "fetched")
        BY <1>0, <2>1, WaitIsOK, DefaultsIsDocument
    <2> QED BY <1>0, <2>1, <2>2, QuietPreserves
<1>2. CASE Fresh
    <2>1. /\ cache.set /\ cache.doc \in Document
          /\ cache.of \in DOMAIN docs /\ cache.of \in Nat
        BY <1>2 DEF Fresh, SettingsInv, TypeOK
    <2>2. /\ cache' = [cache EXCEPT !.doc = Merged(cache.doc, payload)]
          /\ Wait("saving", cache.doc, cache.of, payload)
        BY <1>2 DEF AskMerchant
    <2>3. \A r \in reads' : r \in reads \/ (ReadOK(r)' /\ r.stage # "fetched")
        BY <1>0, <2>1, <2>2, WaitIsOK
    <2>4. Merged(cache.doc, payload) \in Document
        BY <2>1, AskedHasValues, MergedIsDocument DEF Asked
    <2>5. Limits(Merged(cache.doc, payload)) = Limits(cache.doc)
        BY <2>1, MerchantKeepsLimits
    <2>6. TypeOK'
        BY <1>0, <2>2, <2>3, <2>4 DEF SettingsInv, TypeOK, UpdateOK, ReadOK
    <2>7. ForceInv'
        <3>1. cache'.doc = Merged(cache.doc, payload) /\ cache'.at = cache.at
            BY <2>2 DEF SettingsInv, TypeOK
        <3>2. WasInForce(cache.doc, cache.at)
            BY <2>1 DEF SettingsInv, ForceInv
        <3>3. \E f \in inForce' : /\ Limits(f.doc) = Limits(cache'.doc)
                                  /\ f.at \in Nat /\ f.at >= cache'.at
            BY <1>0, <2>5, <3>1, <3>2 DEF WasInForce
        <3>4. WasInForce(cache.doc, cache.at)'
            BY <3>3 DEF WasInForce, Limits
        <3>5. inForce \subseteq inForce'
            BY <1>0
        <3>6. \A r \in reads' : r.stage = "fetched" => WasInForce(r.doc, r.since)'
            BY <2>3, <3>5, RecordsStay DEF SettingsInv, ForceInv
        <3>7. docs' # <<>> => [at |-> now', doc |-> docs'[Len(docs')]] \in inForce'
            BY <1>0 DEF SettingsInv, ForceInv
        <3> QED BY <3>4, <3>6, <3>7 DEF ForceInv
    <2> QED BY <2>6, <2>7 DEF SettingsInv
<1> QED BY <1>1, <1>2

\* A request goes on with what the step gives it.
LEMMA ReplaceIsOK ==
    ASSUME NEW r \in reads, NEW next, Replace(r, next), ReadOK(next)',
           next.stage = "fetched" => WasInForce(next.doc, next.since)'
    PROVE  \A q \in reads' :
              \/ q \in reads
              \/ ReadOK(q)' /\ (q.stage = "fetched" => WasInForce(q.doc, q.since)')
BY DEF Replace

LEMMA FetchPreserves == ASSUME SettingsInv, NEW r \in reads, Fetch(r) PROVE SettingsInv'
<1> PICK none : none = [r EXCEPT !.stage = "none"]
    OBVIOUS
<1> PICK mid : mid = [r EXCEPT !.stage = "fetched"]
    OBVIOUS
<1> PICK last : last = [mid EXCEPT !.doc = docs[Len(docs)]]
    OBVIOUS
<1> PICK found : found = [last EXCEPT !.of = Len(docs)]
    OBVIOUS
<1>0. TypeOK /\ ForceInv /\ ReadOK(r)
    BY DEF SettingsInv, TypeOK
<1>1. UNCHANGED <<docs, cache, now, updates, inForce>> /\ r.stage = "asked" /\ asked' \in Nat
    BY <1>0 DEF Fetch, TypeOK
<1>2. CASE docs = <<>>
    <2>1. Replace(r, none)
        BY <1>2 DEF Fetch
    <2>2. none.stage = "none" /\ ReadOK(none)'
        BY <1>0, <1>1, <1>2 DEF ReadOK, TypeOK
    <2> QED BY <1>1, <2>1, <2>2, ReplaceIsOK, QuietPreserves
<1>3. CASE docs # <<>>
    <2>1. Replace(r, found)
        <3>1. found = [r EXCEPT !.stage = "fetched", !.doc = docs[Len(docs)], !.of = Len(docs)]
            BY Zenon
        <3> QED BY <1>3, <3>1 DEF Fetch
    <2>2. /\ Len(docs) \in DOMAIN docs /\ docs[Len(docs)] \in Document
          /\ r.since \in 0 .. now /\ now \in Nat
        BY <1>0, <1>3 DEF TypeOK, ReadOK
    <2>3. ReadOK(found)'
        <3> DEFINE Read == [nr : {r.nr}, since : 0 .. now,
                            stage : {"asked", "none", "fetched", "saving"},
                            doc : Document, of : Nat, payload : Merchants \union {<<>>}]
        <3>1. mid \in Read /\ mid.nr = r.nr /\ mid.since = r.since /\ mid.stage = "fetched"
            BY <1>0 DEF ReadOK
        <3>2. /\ last \in Read /\ last.nr = r.nr /\ last.since = r.since
              /\ last.stage = "fetched" /\ last.doc = docs[Len(docs)]
            BY <2>2, <3>1
        <3>3. /\ found \in Read /\ found.nr = r.nr /\ found.since = r.since
              /\ found.stage = "fetched" /\ found.doc = docs[Len(docs)] /\ found.of = Len(docs)
            <4>1. Len(docs) \in Nat
                BY <1>0 DEF TypeOK
            <4> QED BY <3>2, <4>1
        <3> QED BY <1>1, <2>2, <3>3 DEF ReadOK, Document
    <2>4. WasInForce(docs[Len(docs)], r.since)
        <3> DEFINE newest == [at |-> now, doc |-> docs[Len(docs)]]
        <3>1. newest \in inForce /\ newest.at = now /\ newest.doc = docs[Len(docs)]
            BY <1>0, <1>3 DEF ForceInv
        <3> HIDE DEF newest
        <3> QED BY <2>2, <3>1 DEF WasInForce
    <2>5. WasInForce(found.doc, found.since)'
        <3>1. found.doc = docs[Len(docs)] /\ found.since = r.since
            <4>1. mid.since = r.since /\ DOMAIN mid = DOMAIN r
                BY <1>0 DEF ReadOK
            <4>2. last.since = r.since /\ last.doc = docs[Len(docs)]
                BY <1>0, <4>1 DEF ReadOK
            <4> QED BY <1>0, <4>1, <4>2 DEF ReadOK
        <3> QED BY <1>1, <2>4, <3>1 DEF WasInForce, Limits
    <2> QED BY <1>1, <2>1, <2>3, <2>5, ReplaceIsOK, QuietPreserves
<1> QED BY <1>2, <1>3

LEMMA CreatePreserves == ASSUME SettingsInv, NEW r \in reads, Create(r) PROVE SettingsInv'
<1> DEFINE grown == Append(docs, Defaults)
<1> PICK mid : mid = [r EXCEPT !.stage = "fetched"]
    OBVIOUS
<1> PICK found : found = [mid EXCEPT !.of = Len(docs) + 1]
    OBVIOUS
<1>0. TypeOK /\ ForceInv /\ ReadOK(r) /\ docs \in Seq(Document) /\ Len(docs) \in Nat
    BY DEF SettingsInv, TypeOK
<1>1. /\ UNCHANGED <<cache, now, updates>> /\ r.stage = "none" /\ asked' \in Nat
      /\ Store(grown)
    BY <1>0 DEF Create, TypeOK
<1>2. Replace(r, found)
    <2>1. found = [r EXCEPT !.stage = "fetched", !.of = Len(docs) + 1]
        BY Zenon
    <2> QED BY <2>1 DEF Create
<1>3. /\ grown \in Seq(Document) /\ Len(grown) = Len(docs) + 1
      /\ grown[Len(grown)] = Defaults /\ DOMAIN grown = 1 .. Len(docs) + 1
    BY <1>0, DefaultsIsDocument
<1>4. docs' = grown /\ inForce' = inForce \union {[at |-> now, doc |-> Defaults]}
    BY <1>1, <1>3 DEF Store
<1> HIDE DEF grown
<1>5. grown # <<>>
    BY <1>0, <1>3
<1> DEFINE Read == [nr : {r.nr}, since : 0 .. now,
                    stage : {"asked", "none", "fetched", "saving"},
                    doc : Document, of : Nat, payload : Merchants \union {<<>>}]
<1>6. /\ found \in Read /\ found.nr = r.nr /\ found.since = r.since
      /\ found.stage = "fetched" /\ found.doc = r.doc /\ found.of = Len(docs) + 1
    <2>1. /\ mid \in Read /\ mid.nr = r.nr /\ mid.since = r.since
          /\ mid.stage = "fetched" /\ mid.doc = r.doc
        BY <1>0 DEF ReadOK
    <2>2. Len(docs) + 1 \in Nat
        BY <1>0
    <2> QED BY <2>1, <2>2
<1>7. ReadOK(found)'
    <2>1. DOMAIN docs' = 1 .. Len(docs) + 1 /\ now' = now
        BY <1>1, <1>3, <1>4
    <2> QED BY <1>0, <1>6, <2>1 DEF ReadOK, Document
<1>8. r.doc = Defaults /\ r.since \in 0 .. now /\ now \in Nat
    BY <1>0, <1>1 DEF ReadOK, TypeOK
<1>9. WasInForce(found.doc, found.since)'
    <2> DEFINE last == [at |-> now, doc |-> Defaults]
    <2>1. last \in inForce' /\ last.at = now /\ last.doc = Defaults
        BY <1>4
    <2> HIDE DEF last
    <2>2. found.doc = Defaults /\ found.since = r.since
        BY <1>6, <1>8
    <2> QED BY <1>8, <2>1, <2>2 DEF WasInForce, Limits
<1>10. \A q \in reads' : \/ q \in reads
                         \/ ReadOK(q)' /\ (q.stage = "fetched" => WasInForce(q.doc, q.since)')
    <2>1. ReadOK(found)' /\ (found.stage = "fetched" => WasInForce(found.doc, found.since)')
        BY <1>7, <1>9
    <2>2. reads' = (reads \ {r}) \union {found}
        BY <1>2 DEF Replace
    <2> QED BY <2>1, <2>2
<1> QED BY <1>0, <1>1, <1>3, <1>5, <1>10, StorePreserves

LEMMA FinishPreserves == ASSUME SettingsInv, NEW r \in reads, Finish(r) PROVE SettingsInv'
<1> DEFINE merged == Merged(r.doc, r.payload)
<1> PICK saving : saving = [r EXCEPT !.stage = "saving"]
    OBVIOUS
<1>0. TypeOK /\ ForceInv /\ ReadOK(r)
    BY DEF SettingsInv, TypeOK
<1>1. /\ UNCHANGED <<docs, now, updates, inForce, asked>> /\ r.stage = "fetched"
      /\ cache' = [doc |-> merged, of |-> r.of, at |-> r.since, set |-> TRUE]
    BY DEF Finish
<1>2. \A q \in reads' : q \in reads \/ q = saving
    BY DEF Finish, Replace
<1>3. ReadOK(saving)' /\ saving.stage = "saving"
    BY <1>0, <1>1 DEF ReadOK
<1>4. merged \in Document /\ Limits(merged) = Limits(r.doc)
    <2>1. r.doc \in Document /\ r.payload \in Merchants \union {<<>>} /\ r.payload \in Asked
        BY <1>0 DEF ReadOK, Asked
    <2> QED BY <2>1, AskedHasValues, MergedIsDocument, MerchantKeepsLimits
<1> HIDE DEF merged
<1>5. r.of \in DOMAIN docs /\ r.of \in Nat /\ r.since \in Nat /\ docs \in Seq(Document)
    BY <1>0, <1>1 DEF ReadOK, TypeOK
<1>6. TypeOK'
    <2>1. \A q \in reads' : ReadOK(q)'
        BY <1>0, <1>1, <1>2, <1>3 DEF TypeOK, ReadOK
    <2>2. \A u \in updates' : UpdateOK(u)'
        BY <1>0, <1>1 DEF TypeOK, UpdateOK
    <2>3. cache' \in [doc : Document, of : Nat, at : Nat, set : BOOLEAN] /\ cache'.of = r.of
        BY <1>1, <1>4, <1>5
    <2> QED BY <1>0, <1>1, <1>5, <2>1, <2>2, <2>3 DEF TypeOK
<1>7. ForceInv'
    <2>1. cache'.doc = merged /\ cache'.at = r.since
        BY <1>1
    <2>2. WasInForce(r.doc, r.since)
        BY <1>0, <1>1 DEF ForceInv
    <2>3. WasInForce(cache.doc, cache.at)'
        BY <1>1, <1>4, <2>1, <2>2 DEF WasInForce, Limits
    <2>4. inForce \subseteq inForce'
        BY <1>1
    <2>5. \A q \in reads' : q.stage = "fetched" => WasInForce(q.doc, q.since)'
        BY <1>0, <1>2, <1>3, <2>4, RecordsStay DEF ForceInv
    <2> QED BY <1>0, <1>1, <2>3, <2>5 DEF ForceInv
<1> QED BY <1>6, <1>7 DEF SettingsInv

LEMMA SaveMerchantPreserves ==
    ASSUME SettingsInv, NEW r \in reads, SaveMerchant(r) PROVE SettingsInv'
<1> DEFINE changed == Merged(docs[r.of], Changed(r.doc, r.payload))
           next    == [docs EXCEPT ![r.of] = changed]
<1>0. TypeOK /\ ReadOK(r) /\ docs \in Seq(Document) /\ Len(docs) \in Nat
    BY DEF SettingsInv, TypeOK
<1>1. /\ UNCHANGED <<cache, now, updates>> /\ asked' \in Nat /\ r.stage = "saving"
      /\ Store(next) /\ reads' \subseteq reads
    BY <1>0 DEF SaveMerchant, TypeOK
<1>2. r.of \in DOMAIN docs /\ docs[r.of] \in Document /\ docs # <<>>
    BY <1>0, <1>1 DEF ReadOK
<1>3. changed \in Document
    <2>1. r.payload \in Asked
        BY <1>0 DEF ReadOK, Asked
    <2> QED BY <1>2, <2>1, ChangedHasValues, MergedIsDocument
<1> HIDE DEF changed
<1>4. next \in Seq(Document) /\ Len(next) = Len(docs)
    BY <1>0, <1>2, <1>3
<1> HIDE DEF next
<1>5. next # <<>>
    BY <1>0, <1>2, <1>4
<1> QED BY <1>0, <1>1, <1>4, <1>5, StorePreserves

LEMMA StepPreserves == ASSUME SettingsInv, [Next]_vars PROVE SettingsInv'
<1>1. CASE Tick
    BY <1>1, TickPreserves
<1>2. CASE \E p \in Payloads : AskSettings(p)
    BY <1>2, AskPreserves DEF AskSettings
<1>3. CASE \E p \in Contacts : AskContact(p)
    BY <1>3, AskPreserves DEF AskContact
<1>4. ASSUME NEW u \in updates, Save(u) PROVE SettingsInv'
    BY <1>4, SavePreserves
<1>5. ASSUME NEW u \in updates, Invalidate(u) PROVE SettingsInv'
    <2>1. asked' \in Nat
        BY <1>5 DEF Invalidate, SettingsInv, TypeOK
    <2> QED BY <1>5, <2>1, InvalidatePreserves DEF Invalidate
<1>6. CASE Miss
    BY <1>6, MissPreserves
<1>7. CASE \E p \in Merchants : AskMerchant(p)
    BY <1>7, AskMerchantPreserves
<1>8. ASSUME NEW r \in reads, Fetch(r) \/ Create(r) \/ Finish(r) \/ SaveMerchant(r)
      PROVE  SettingsInv'
    BY <1>8, FetchPreserves, CreatePreserves, FinishPreserves, SaveMerchantPreserves
<1>9. CASE Restart
    <2>1. asked' \in Nat
        BY <1>9 DEF Restart, SettingsInv, TypeOK
    <2> QED BY <1>9, <2>1, InvalidatePreserves DEF Restart
<1>10. CASE UNCHANGED vars
    <2>1. asked' \in Nat
        BY <1>10 DEF vars, SettingsInv, TypeOK
    <2> QED BY <1>10, <2>1, QuietPreserves DEF vars
<1> QED BY <1>1, <1>2, <1>3, <1>4, <1>5, <1>6, <1>7, <1>8, <1>9, <1>10 DEF Next

LEMMA InvariantMeansInForce == SettingsInv => UsedWasInForce
<1> SUFFICES ASSUME SettingsInv PROVE UsedWasInForce
    OBVIOUS
<1>1. TTL \in Nat /\ now \in Nat /\ cache.at \in Nat
    BY SettingsAssumption DEF SettingsInv, TypeOK
<1>2. ASSUME Fresh
      PROVE  \E f \in inForce : Limits(f.doc) = Limits(cache.doc) /\ f.at + TTL > now
    <2>1. PICK f \in inForce : Limits(f.doc) = Limits(cache.doc) /\ f.at \in Nat /\ f.at >= cache.at
        BY <1>2 DEF Fresh, SettingsInv, ForceInv, WasInForce
    <2>2. now - cache.at < TTL
        BY <1>2 DEF Fresh
    <2>3. f.at + TTL > now
        BY <1>1, <2>1, <2>2
    <2> QED BY <2>1, <2>3
<1>3. ASSUME NEW r \in reads, r.stage = "fetched"
      PROVE  \E f \in inForce : Limits(f.doc) = Limits(r.doc) /\ f.at >= r.since
    BY <1>3 DEF SettingsInv, ForceInv, WasInForce
<1> QED BY <1>2, <1>3 DEF UsedWasInForce

-----------------------------------------------------------------------------
(* Theorems *)

\* Documents, cache, updates and requests are always such as the code builds
\* them, and a request that saves or caches a document names one that exists.
THEOREM SettingsTypeCorrect == Spec => []TypeOK
<1>1. SettingsInv => TypeOK
    BY DEF SettingsInv
<1> QED BY <1>1, InitEstablishes, StepPreserves, PTL DEF Spec

\* A request is answered with limits that were in force together since it was
\* made, or less than TTL before when it finds them in the cache: for any number
\* of updates, waiting requests, documents and restarts.
THEOREM SettingsInForce == Spec => []UsedWasInForce
BY InitEstablishes, StepPreserves, InvariantMeansInForce, PTL DEF Spec

-----------------------------------------------------------------------------
(* A minimum is not above its maximum *)

\* An update under way has checked what it read with what it will write, and
\* has read the defaults if it found no document.
CheckedUpdate(u) ==
    /\ u.kind = "settings" /\ ~u.saved => Valid(Merged(u.read, u.payload))
    /\ u.kind # "settings" => u.payload \in Contacts
    /\ ~u.found => u.read = Defaults

PairsInv ==
    /\ SettingsInv
    /\ \A u \in updates : CheckedUpdate(u)
    /\ PairsValid

LEMMA DefaultsAreValid == Valid(Defaults)
BY SettingsAssumption DEF Valid

\* Whether a document is valid is seen from its limits.
LEMMA LimitsDecide ==
    ASSUME NEW doc, NEW new, Limits(new) = Limits(doc), Valid(doc)
    PROVE  Valid(new)
<1> SUFFICES ASSUME NEW p \in Pairs PROVE new[p[1]] <= new[p[2]]
    BY DEF Valid
<1>1. <<new[p[1]], new[p[2]]>> = <<doc[p[1]], doc[p[2]]>>
    <2>1. Limits(new)[p] = Limits(doc)[p]
        OBVIOUS
    <2> QED BY <2>1 DEF Limits
<1> QED BY <1>1 DEF Valid

\* Contact and UPI id leave the limits of a document as they are, also when only
\* what differs from an earlier read of it is written.
LEMMA OtherKeepsLimits ==
    ASSUME NEW doc \in Document, NEW payload,
           \A p \in Pairs : {p[1], p[2]} \intersect DOMAIN payload = {}
    PROVE  /\ Limits(Merged(doc, payload)) = Limits(doc)
           /\ \A read : Limits(Merged(doc, Changed(read, payload))) = Limits(doc)
<1>1. ASSUME NEW part, DOMAIN part \subseteq DOMAIN payload
      PROVE  Limits(Merged(doc, part)) = Limits(doc)
    <2>1. ASSUME NEW p \in Pairs
          PROVE  Merged(doc, part)[p[1]] = doc[p[1]] /\ Merged(doc, part)[p[2]] = doc[p[2]]
        <3>1. p[1] \in DOMAIN doc /\ p[2] \in DOMAIN doc
            BY SettingsAssumption DEF Document
        <3> QED BY <1>1, <3>1 DEF Merged
    <2> QED BY <2>1 DEF Limits
<1>2. \A read : DOMAIN Changed(read, payload) \subseteq DOMAIN payload
    BY DEF Changed
<1> QED BY <1>1, <1>2

\* Writing what differs from the document that was read writes the payload.
LEMMA ChangedIsEnough ==
    ASSUME NEW doc, NEW payload
    PROVE  Merged(doc, Changed(doc, payload)) = Merged(doc, payload)
BY DEF Merged, Changed

\* A document that is added or rewritten is valid, and so stay the others.
LEMMA PairsAfterStore ==
    ASSUME NEW old \in Seq(Document), NEW new \in Seq(Document), NEW i,
           \A j \in DOMAIN old : Valid(old[j]), Valid(new[i]),
           \A j \in DOMAIN new : j = i \/ (j \in DOMAIN old /\ new[j] = old[j])
    PROVE  \A j \in DOMAIN new : Valid(new[j])
OBVIOUS

LEMMA AskKeepsPairs ==
    ASSUME PairsInv, NEW payload \in Payloads \union Contacts,
           NEW kind \in {"settings", "contact"}, Ask(payload, kind),
           kind = "settings" => Accepted(Current, payload),
           kind = "contact" => payload \in Contacts
    PROVE  PairsInv'
<1> DEFINE has == docs # <<>>
           new == [nr |-> asked, kind |-> kind, payload |-> payload, saved |-> FALSE,
                   found |-> has, read |-> Current]
<1>1. SettingsInv'
    BY AskPreserves DEF PairsInv
<1>2. updates' = updates \union {new} /\ UNCHANGED <<docs, overtaken>>
    BY DEF Ask
<1>3. CheckedUpdate(new)
    BY DEF CheckedUpdate, Accepted, Current
<1> HIDE DEF new
<1>4. \A u \in updates' : CheckedUpdate(u)'
    BY <1>2, <1>3 DEF PairsInv, CheckedUpdate, Valid, Merged
<1>5. PairsValid'
    BY <1>2 DEF PairsInv, PairsValid, Valid
<1> QED BY <1>1, <1>4, <1>5 DEF PairsInv

LEMMA SaveKeepsPairs ==
    ASSUME PairsInv, SettingsInv', NEW u \in updates, Save(u)
    PROVE  PairsInv'
<1> DEFINE done == [u EXCEPT !.saved = TRUE]
<1>0. /\ UpdateOK(u) /\ CheckedUpdate(u) /\ docs \in Seq(Document) /\ docs' \in Seq(Document)
      /\ ~u.saved
    BY DEF PairsInv, SettingsInv, TypeOK, Save
<1>1. \A v \in updates' : CheckedUpdate(v)'
    <2>1. \A v \in updates' : v \in updates \/ v = done
        <3>1. updates' = (updates \ {u}) \union IF u.kind = "settings" THEN {done} ELSE {}
            BY DEF Save
        <3> HIDE DEF done
        <3> QED BY <3>1
    <2>2. CheckedUpdate(done)
        BY <1>0 DEF UpdateOK, CheckedUpdate
    <2> HIDE DEF done
    <2> QED BY <2>1, <2>2 DEF PairsInv, CheckedUpdate, Valid, Merged
<1>2. ASSUME ~overtaken' PROVE \A i \in DOMAIN docs' : Valid(docs'[i])
    <2>1. /\ \A i \in DOMAIN docs : Valid(docs[i])
          /\ u.found => docs[1] = u.read
        BY <1>2 DEF Save, PairsInv, PairsValid
    <2>2. \/ u.kind = "settings" /\ Valid(Merged(u.read, u.payload))
          \/ \A p \in Pairs : {p[1], p[2]} \intersect DOMAIN u.payload = {}
        <3>1. CASE u.kind = "settings"
            BY <1>0, <3>1 DEF CheckedUpdate
        <3>2. CASE u.kind # "settings"
            BY <1>0, <3>2, SettingsAssumption DEF CheckedUpdate
        <3> QED BY <3>1, <3>2
    <2>3. CASE u.found
        <3>1. 1 \in DOMAIN docs /\ docs[1] \in Document
            BY <1>0, <2>3 DEF UpdateOK
        <3>2. docs' = [docs EXCEPT ![1] = Merged(docs[1], Changed(u.read, u.payload))]
            BY <2>3 DEF Save, Store
        <3>3. Valid(Merged(docs[1], Changed(u.read, u.payload)))
            <4>1. CASE Valid(Merged(u.read, u.payload))
                BY <2>1, <2>3, <4>1, ChangedIsEnough
            <4>2. CASE \A p \in Pairs : {p[1], p[2]} \intersect DOMAIN u.payload = {}
                <5>1. Limits(Merged(docs[1], Changed(u.read, u.payload))) = Limits(docs[1])
                    BY <3>1, <4>2, OtherKeepsLimits
                <5> QED BY <2>1, <3>1, <5>1, LimitsDecide
            <4> QED BY <2>2, <4>1, <4>2
        <3>4. /\ docs'[1] = Merged(docs[1], Changed(u.read, u.payload))
              /\ \A j \in DOMAIN docs' : j = 1 \/ (j \in DOMAIN docs /\ docs'[j] = docs[j])
            BY <3>1, <3>2
        <3>5. Valid(docs'[1])
            BY <3>3, <3>4
        <3> QED BY <1>0, <2>1, <3>4, <3>5, PairsAfterStore
    <2>4. CASE ~u.found
        <3>1. docs' = Append(docs, Merged(Defaults, u.payload))
            BY <2>4 DEF Save, Store, NewDocument
        <3>2. Valid(Merged(Defaults, u.payload))
            <4>1. CASE Valid(Merged(u.read, u.payload))
                BY <1>0, <2>4, <4>1 DEF CheckedUpdate
            <4>2. CASE \A p \in Pairs : {p[1], p[2]} \intersect DOMAIN u.payload = {}
                <5>1. Limits(Merged(Defaults, u.payload)) = Limits(Defaults)
                    BY <4>2, DefaultsIsDocument, OtherKeepsLimits
                <5> QED BY <5>1, DefaultsAreValid, LimitsDecide
            <4> QED BY <2>2, <4>1, <4>2
        <3> PICK n : n = Len(docs) + 1
            OBVIOUS
        <3>3. /\ docs'[n] = Merged(Defaults, u.payload)
              /\ \A j \in DOMAIN docs' : j = n \/ (j \in DOMAIN docs /\ docs'[j] = docs[j])
            BY <1>0, <3>1
        <3>4. Valid(docs'[n])
            BY <3>2, <3>3
        <3> QED BY <1>0, <2>1, <3>3, <3>4, PairsAfterStore
    <2> QED BY <2>3, <2>4
<1>3. PairsValid'
    BY <1>2 DEF PairsValid, Valid
<1> QED BY <1>1, <1>3 DEF PairsInv

LEMMA CreateKeepsPairs ==
    ASSUME PairsInv, SettingsInv', NEW r \in reads, Create(r)
    PROVE  PairsInv'
<1>1. /\ docs \in Seq(Document) /\ docs' \in Seq(Document)
      /\ docs' = Append(docs, Defaults) /\ UNCHANGED <<updates, overtaken>>
    BY DEF Create, Store, PairsInv, SettingsInv, TypeOK
<1>2. \A u \in updates' : CheckedUpdate(u)'
    BY <1>1 DEF PairsInv, CheckedUpdate, Valid, Merged
<1>3. ASSUME ~overtaken' PROVE \A i \in DOMAIN docs' : Valid(docs'[i])
    <2> PICK n : n = Len(docs) + 1
        OBVIOUS
    <2>1. /\ docs'[n] = Defaults
          /\ \A j \in DOMAIN docs' : j = n \/ (j \in DOMAIN docs /\ docs'[j] = docs[j])
        BY <1>1
    <2>2. Valid(docs'[n]) /\ \A j \in DOMAIN docs : Valid(docs[j])
        BY <1>1, <1>3, <2>1, DefaultsAreValid DEF PairsInv, PairsValid
    <2> QED BY <1>1, <2>1, <2>2, PairsAfterStore
<1>4. PairsValid'
    BY <1>3 DEF PairsValid, Valid
<1> QED BY <1>2, <1>4 DEF PairsInv

LEMMA SaveMerchantKeepsPairs ==
    ASSUME PairsInv, SettingsInv', NEW r \in reads, SaveMerchant(r)
    PROVE  PairsInv'
<1>1. /\ docs \in Seq(Document) /\ docs' \in Seq(Document) /\ ReadOK(r)
      /\ r.of \in DOMAIN docs /\ UNCHANGED updates
      /\ docs' = [docs EXCEPT ![r.of] = Merged(docs[r.of], Changed(r.doc, r.payload))]
    BY DEF SaveMerchant, Store, PairsInv, SettingsInv, TypeOK, ReadOK
<1>2. \A u \in updates' : CheckedUpdate(u)'
    BY <1>1 DEF PairsInv, CheckedUpdate, Valid, Merged
<1>3. ASSUME ~overtaken' PROVE \A i \in DOMAIN docs' : Valid(docs'[i])
    <2>1. \A j \in DOMAIN docs : Valid(docs[j])
        BY <1>3 DEF SaveMerchant, PairsInv, PairsValid
    <2>2. /\ docs'[r.of] = Merged(docs[r.of], Changed(r.doc, r.payload))
          /\ \A j \in DOMAIN docs' : j = r.of \/ (j \in DOMAIN docs /\ docs'[j] = docs[j])
        BY <1>1
    <2>3. \A p \in Pairs : {p[1], p[2]} \intersect DOMAIN r.payload = {}
        <3>1. r.payload \in Merchants \union {<<>>}
            BY <1>1 DEF ReadOK
        <3> QED BY <3>1, SettingsAssumption
    <2>4. docs[r.of] \in Document
        BY <1>1
    <2>5. Limits(docs'[r.of]) = Limits(docs[r.of])
        <3>1. Limits(Merged(docs[r.of], Changed(r.doc, r.payload))) = Limits(docs[r.of])
            BY <2>3, <2>4, OtherKeepsLimits
        <3> QED BY <2>2, <3>1
    <2>6. Valid(docs'[r.of])
        BY <1>1, <2>1, <2>5, LimitsDecide
    <2> QED BY <1>1, <2>1, <2>2, <2>6, PairsAfterStore
<1>4. PairsValid'
    BY <1>3 DEF PairsValid, Valid
<1> QED BY <1>2, <1>4 DEF PairsInv

LEMMA PairsNext == ASSUME PairsInv, [Next]_vars PROVE PairsInv'
<1>0. SettingsInv'
    BY StepPreserves DEF PairsInv
<1>1. CASE \E p \in Payloads : AskSettings(p)
    BY <1>1, AskKeepsPairs DEF AskSettings
<1>2. CASE \E p \in Contacts : AskContact(p)
    BY <1>2, AskKeepsPairs DEF AskContact
<1>3. CASE /\ updates' \subseteq updates
           /\ UNCHANGED <<docs, overtaken>>
    <2>1. \A u \in updates' : CheckedUpdate(u)'
        BY <1>3 DEF PairsInv, CheckedUpdate, Valid, Merged
    <2>2. PairsValid'
        BY <1>3 DEF PairsInv, PairsValid, Valid
    <2> QED BY <1>0, <2>1, <2>2 DEF PairsInv
<1>4. CASE \/ Tick \/ Miss \/ Restart \/ UNCHANGED vars
           \/ \E p \in Merchants : AskMerchant(p)
           \/ \E u \in updates : Invalidate(u)
           \/ \E r \in reads : Fetch(r) \/ Finish(r)
    BY <1>3, <1>4 DEF Tick, Miss, Restart, vars, AskMerchant, Invalidate, Fetch, Finish
<1> QED BY <1>0, <1>1, <1>2, <1>4, SaveKeepsPairs, CreateKeepsPairs, SaveMerchantKeepsPairs DEF Next

LEMMA PairsInit == Init => PairsInv
BY InitEstablishes DEF Init, PairsInv, PairsValid

\* No document has a minimum above its maximum, whichever updates of settings,
\* contact and UPI id overlap, as long as none was saved over a document that
\* had changed since it was read (_validateCrossFieldConstraints).
THEOREM MinimumBelowMaximum == Spec => []PairsValid
<1>1. PairsInv => PairsValid
    BY DEF PairsInv
<1> QED BY <1>1, PairsInit, PairsNext, PTL DEF Spec
=============================================================================
