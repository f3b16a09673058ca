--------------------------- MODULE LongTermMemory ---------------------------
(***************************************************************************)
(* The long-term memory (long_term_memory.py) over its backends            *)
(* (memory_backends.py): several store objects, one per router, route or   *)
(* command, work on one database, each with a query cache of its own; the  *)
(* vector backends fall back to a local SQLite file for the rest of the    *)
(* object's life.  Below, the selection of the records that go into a      *)
(* prompt.  An action of a store runs from one database statement to the   *)
(* next: two processes interleave there.                                   *)
(***************************************************************************)
EXTENDS Integers, Sequences, FiniteSets, SequencesExt

CONSTANTS
    Stores,          \* LongTermMemoryStore objects
    MemorySessions,
    Texts,           \* contents; the key of a record is the hash of its content
    RecordKinds,     \* <<domain, expired>> of the records that callers write
    MaxLtmChanges,   \* bound: operations that reach the database
    MaxFound,        \* bound: records that match a query
    ResultLimits,    \* limits of a query (at most 25)
    Oversample       \* MEMORY_QUERY_OVERSAMPLE_FACTOR (3)

ASSUME LongTermMemoryAssumption ==
    /\ MaxLtmChanges \in Nat /\ MaxFound \in Nat /\ Oversample \in Nat \ {0}
    /\ ResultLimits \subseteq Nat \ {0}
    /\ RecordKinds \subseteq {"episodic", "preference"} \X BOOLEAN

VARIABLES
    ltmBackend,    \* the configured backend
    ltmUp,         \* the database server answers
    ltmRemote,     \* rows of the configured backend
    ltmLocal,      \* rows of the SQLite fallback
    ltmStores,     \* each store: place, locals, fallback and query cache
    ltmAcked,      \* history: [session, key] a caller was told is stored, until deleted
    ltmChanges,    \* operations so far
    retFound,      \* the domains of the records that match a query, by rank
    retLimit       \* the limit the query was given

retVars == <<retFound, retLimit>>
ltmVars == <<ltmBackend, ltmUp, ltmRemote, ltmLocal, ltmStores, ltmAcked, ltmChanges>>

Keyed == {"sqlite", "pgvector"}        \* a row per session and key; Redis too
Backends == Keyed \cup {"chroma", "file"}
WithFallback == {"chroma", "pgvector"}
MemoryDomains == {"episodic", "preference"}

MemoryRecords ==
    [session : MemorySessions, key : Texts, text : Texts, domain : MemoryDomains, expired : BOOLEAN]

NoRecord == << >>

NewStore(down) ==
    [pc |-> "idle", record |-> NoRecord, prune |-> {}, fallback |-> down,
     cache |-> [s \in MemorySessions |-> << >>], overtaken |-> FALSE]

\* The primary key of SQLite and pgvector, and the hash key of Redis.
SessionKey(r) == <<r.session, r.key>>

LtmTypeOK ==
    /\ ltmBackend \in Backends /\ ltmUp \in BOOLEAN
    /\ ltmRemote \subseteq MemoryRecords /\ ltmLocal \subseteq MemoryRecords
    /\ \A st \in Stores : ltmStores[st].pc \in {"idle", "write", "prune"}
    /\ ltmBackend \notin WithFallback => ltmLocal = {} /\ \A st \in Stores : ~ltmStores[st].fallback
    /\ ltmBackend \in Keyed => \A db \in {ltmRemote, ltmLocal} : \A r, q \in db :
           SessionKey(r) = SessionKey(q) => r = q

\* create_backend; a vector backend that cannot connect starts on SQLite.
LtmInit ==
    /\ ltmBackend \in Backends
    /\ ltmUp = TRUE /\ ltmRemote = {} /\ ltmLocal = {} /\ ltmAcked = {} /\ ltmChanges = 0
    /\ ltmStores = [st \in Stores |-> NewStore(FALSE)]
-----------------------------------------------------------------------------
\* The directory of a record: episodic, or semantic for facts and preferences.
SameFile(r, q) == r.key = q.key /\ r.domain = q.domain

\* Mutant: a record that changes its domain is a row of its own.
ReplacesSameDomain(r, q, local) == r.session = q.session /\ SameFile(r, q)

\* The row an upsert of r replaces.
Replaces(r, q, local) ==
    \/ (local \/ ltmBackend \in Keyed) /\ SessionKey(r) = SessionKey(q)
    \/ ~local /\ ltmBackend = "chroma" /\ r.key = q.key
    \/ ~local /\ ltmBackend = "file" /\ SameFile(r, q)

\* The rows read and delete look at; the file backend knows no sessions.
RowsAt(db, s, k, local) ==
    {r \in db : r.key = k /\ (r.session = s \/ (ltmBackend = "file" /\ ~local))}

Upsert(db, r, local) == {q \in db : ~Replaces(r, q, local)} \cup {r}

\* A store meets an unreachable server: from then on it works on SQLite.
OnLocal(st) == ltmStores[st].fallback \/ (ltmBackend \in WithFallback /\ ~ltmUp)

Db(st) == IF OnLocal(st) THEN ltmLocal ELSE ltmRemote

WriteDb(st, db) ==
    IF OnLocal(st) THEN ltmLocal' = db /\ UNCHANGED ltmRemote ELSE ltmRemote' = db /\ UNCHANGED ltmLocal

\* What the store remembers after a statement; others' caches fall behind.
Became(st, new, cleared, changed) ==
    ltmStores' = [t \in Stores |->
        IF t = st
        THEN [new EXCEPT !.fallback = OnLocal(st),
                         !.cache = IF cleared THEN [s \in MemorySessions |-> << >>] ELSE @,
                         !.overtaken = ~cleared /\ (@ \/ OnLocal(st) # ltmStores[st].fallback)]
        ELSE [ltmStores[t] EXCEPT !.overtaken = @ \/ changed]]

LtmIdle(st) == ltmStores[st].pc = "idle" /\ ltmChanges < MaxLtmChanges

Acked(s, k) == [session |-> s, key |-> k]
-----------------------------------------------------------------------------
\* The record of a content, kept under the content's hash.
RecordOf(s, text, domain, expired) ==
    [session |-> s, key |-> text, text |-> text, domain |-> domain, expired |-> expired]

\* add_preference, add_session_summary, add_semantic_knowledge and the other
\* adds: a record under the content's key is returned instead of written.
AddRecord(st, s, text, domain, expired) ==
    LET found == RowsAt(Db(st), s, text, OnLocal(st))
    IN  /\ LtmIdle(st)
        /\ ltmChanges' = ltmChanges + 1
        /\ IF found # {}
           THEN /\ Became(st, ltmStores[st], FALSE, FALSE)
                /\ ltmAcked' = ltmAcked \cup {Acked(r.session, text) : r \in found}
           ELSE /\ Became(st, [ltmStores[st] EXCEPT !.pc = "write", !.record = RecordOf(s, text, domain, expired)], FALSE, FALSE)
                /\ UNCHANGED ltmAcked
        /\ UNCHANGED <<ltmBackend, ltmUp, ltmRemote, ltmLocal>>

\* update_record and batch_move: the record is read and built again.
UpdateRecord(st, s, k, text, domain, expired) ==
    /\ LtmIdle(st) /\ RowsAt(Db(st), s, k, OnLocal(st)) # {}
    /\ ltmChanges' = ltmChanges + 1
    /\ Became(st, [ltmStores[st] EXCEPT !.pc = "write",
                       !.record = [RecordOf(s, text, domain, expired) EXCEPT !.key = k]], FALSE, FALSE)
    /\ UNCHANGED <<ltmBackend, ltmUp, ltmRemote, ltmLocal, ltmAcked>>

\* Mutant: only the caller that added a record clears the cache.
WriteRecordKeepsCache(st) ==
    LET r == ltmStores[st].record
    IN  /\ ltmStores[st].pc = "write"
        /\ WriteDb(st, Upsert(Db(st), r, OnLocal(st)))
        /\ Became(st, [ltmStores[st] EXCEPT !.pc = "idle", !.record = NoRecord], FALSE, TRUE)
        /\ ltmAcked' = ltmAcked \cup {Acked(r.session, r.key)}
        /\ UNCHANGED <<ltmBackend, ltmUp, ltmChanges>>

\* _write_record: the backend's write, then the cache.
WriteRecord(st) ==
    LET r == ltmStores[st].record
    IN  /\ ltmStores[st].pc = "write"
        /\ WriteDb(st, Upsert(Db(st), r, OnLocal(st)))
        /\ Became(st, [ltmStores[st] EXCEPT !.pc = "idle", !.record = NoRecord], TRUE, TRUE)
        /\ ltmAcked' = ltmAcked \cup {Acked(r.session, r.key)}
        /\ UNCHANGED <<ltmBackend, ltmUp, ltmChanges>>

\* Mutant: the delete of a vector backend looks at the key alone.
DeletedByKey(st, s, k) == {r \in Db(st) : r.key = k}

\* The rows a delete takes out.
Deleted(st, s, k) == RowsAt(Db(st), s, k, OnLocal(st))

\* What nobody may count on after a delete took rows: Chroma and the file
\* backend hold a key for all sessions.
Forget(s, k, rows) ==
    {a \in ltmAcked : rows # {} /\ a.key = k /\ (a.session = s \/ ltmBackend \notin Keyed)}

\* delete_record: the cache is cleared when a row went.
DeleteRecord(st, s, k) ==
    LET rows == Deleted(st, s, k)
    IN  /\ LtmIdle(st)
        /\ ltmChanges' = ltmChanges + 1
        /\ WriteDb(st, Db(st) \ rows)
        /\ Became(st, ltmStores[st], rows # {}, rows # {})
        /\ ltmAcked' = ltmAcked \ Forget(s, k, rows)
        /\ UNCHANGED <<ltmBackend, ltmUp>>

\* prune_expired reads all records first.
PruneStart(st) ==
    LET expired == {r \in Db(st) : r.expired}
    IN  /\ LtmIdle(st) /\ expired # {}
        /\ ltmChanges' = ltmChanges + 1
        /\ Became(st, [ltmStores[st] EXCEPT !.pc = "prune", !.prune = expired], FALSE, FALSE)
        /\ UNCHANGED <<ltmBackend, ltmUp, ltmRemote, ltmLocal, ltmAcked>>

\* Then it deletes one after the other by session and key; the cache goes
\* with the last.
PruneOne(st) ==
    \E r \in ltmStores[st].prune :
        LET rows == RowsAt(Db(st), r.session, r.key, OnLocal(st))
            left == ltmStores[st].prune \ {r}
        IN  /\ ltmStores[st].pc = "prune"
            /\ WriteDb(st, Db(st) \ rows)
            /\ Became(st, [ltmStores[st] EXCEPT !.pc = IF left = {} THEN "idle" ELSE "prune", !.prune = left],
                      left = {}, rows # {})
            /\ ltmAcked' = ltmAcked \ Forget(r.session, r.key, rows)
            /\ UNCHANGED <<ltmBackend, ltmUp, ltmChanges>>

\* query: a cached answer is returned, else the search's is kept.
Query(st, s) ==
    /\ ltmStores[st].pc = "idle" /\ ltmStores[st].cache[s] = << >>
    /\ Became(st, [ltmStores[st] EXCEPT !.cache[s] = <<{r \in Db(st) : r.session = s}>>,
                                        !.overtaken = @ /\ \E q \in MemorySessions \ {s} : ltmStores[st].cache[q] # << >>],
              FALSE, FALSE)
    /\ UNCHANGED <<ltmBackend, ltmUp, ltmRemote, ltmLocal, ltmAcked, ltmChanges>>

\* The router of a request is closed and the next request builds its own.
NextStore(st) ==
    /\ ltmStores[st].pc = "idle"
    /\ ltmStores' = [ltmStores EXCEPT ![st] = NewStore(ltmBackend \in WithFallback /\ ~ltmUp)]
    /\ ltmStores' # ltmStores
    /\ UNCHANGED <<ltmBackend, ltmUp, ltmRemote, ltmLocal, ltmAcked, ltmChanges>>

\* The server of a vector backend goes away or comes back.
Outage ==
    /\ ltmBackend \in WithFallback /\ ltmChanges < MaxLtmChanges
    /\ ltmUp' = ~ltmUp
    /\ UNCHANGED <<ltmBackend, ltmRemote, ltmLocal, ltmStores, ltmAcked, ltmChanges>>

LtmNext ==
    \/ Outage
    \/ \E st \in Stores :
          \/ WriteRecord(st) \/ PruneStart(st) \/ PruneOne(st) \/ NextStore(st)
          \/ \E s \in MemorySessions :
                \/ Query(st, s)
                \/ \E k \in Texts :
                      \/ DeleteRecord(st, s, k)
                      \/ \E kind \in RecordKinds :
                            \/ AddRecord(st, s, k, kind[1], kind[2])
                            \/ \E text \in Texts : UpdateRecord(st, s, k, text, kind[1], kind[2])
-----------------------------------------------------------------------------
\* A record a caller was told is stored stays in one of the databases until
\* somebody deletes it or it is pruned: through outages, edits and stores that
\* work side by side.  Chroma and the file backend keep it under the key only,
\* in whichever session wrote last.
AcknowledgedSurvives ==
    \A a \in ltmAcked : \E r \in ltmRemote \cup ltmLocal :
        r.key = a.key /\ (ltmBackend \in Keyed => r.session = a.session)

\* A cached answer is what a search would find now, unless another store has
\* changed the database since, or this one fell back to SQLite.
CachesAreCurrent ==
    \A st \in Stores, s \in MemorySessions :
        LET c == ltmStores[st].cache[s]
        IN  c # << >> /\ ~ltmStores[st].overtaken /\ ltmStores[st].pc # "prune"
                => c[1] = {r \in IF ltmStores[st].fallback THEN ltmLocal ELSE ltmRemote : r.session = s}
-----------------------------------------------------------------------------
(* retrieve_and_format_context: which records of a query reach the prompt.  *)

Smaller(a, b) == IF a < b THEN a ELSE b
Larger(a, b) == IF a > b THEN a ELSE b

RetInit == retFound = << >> /\ retLimit \in ResultLimits

\* One more record matches the query, at the end of the ranking.
Match(d) == Len(retFound) < MaxFound /\ retFound' = Append(retFound, d) /\ UNCHANGED retLimit

RetNext == \E d \in MemoryDomains : Match(d)

\* query with oversampling: the backend is asked for more, and the answer cut
\* to the result limit before it is returned.
Candidates == SubSeq(retFound, 1, Smaller(retLimit, Len(retFound)))

Episodes(s) == {i \in DOMAIN s : s[i] = "episodic"}
Facts(s) == DOMAIN s \ Episodes(s)

\* Mutant: the cap leaves no room.
MaxEpisodicAll == retLimit

MaxEpisodic == Larger(1, retLimit - 2)

\* The candidates in the order of their scores, without the episodes beyond
\* the cap, until the limit is reached.
Shown(scored) ==
    LET final[n \in 0 .. Len(scored)] ==
            IF n = 0 THEN << >>
            ELSE IF \/ Len(final[n-1]) >= retLimit
                    \/ scored[n] = "episodic" /\ Cardinality(Episodes(final[n-1])) >= MaxEpisodic
                 THEN final[n-1]
                 ELSE Append(final[n-1], scored[n])
    IN  final[Len(scored)]

\* Every order the weights, confidences and ages can give the candidates.
Scorings == {[i \in DOMAIN Candidates |-> Candidates[p[i]]] :
                p \in {f \in [DOMAIN Candidates -> DOMAIN Candidates] : \A i, j \in DOMAIN f : f[i] = f[j] => i = j}}

\* However they are scored, episodes leave room for the preferences and facts
\* among the candidates, and no more records are shown than asked for.
ContextIsDiverse ==
    \A scored \in Scorings :
        LET shown == Shown(scored)
        IN  /\ Len(shown) <= retLimit
            /\ Cardinality(Facts(shown)) >= Smaller(retLimit - MaxEpisodic, Cardinality(Facts(Candidates)))
            /\ Cardinality(Episodes(shown)) <= Larger(1, retLimit - 2)
=============================================================================
