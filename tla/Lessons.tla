------------------------------ MODULE Lessons ------------------------------
(***************************************************************************)
(* The lessons database lessons_learned.md and its three writers: the scan  *)
(* of core/federated_sync.py (FederatedSyncEngine.sync), lessons pushed     *)
(* over /v1/federated/sync (FederatedKnowledgeExchange), and the episodic   *)
(* summarizer of long_term_memory.py.  Every writer reads the whole file    *)
(* and writes it back, without a lock; Servers are the processes that do so *)
(* and the threads of one that run at once.                                 *)
(*                                                                          *)
(* A lesson id is a sequence of tokens, L-<day>-<signature>; a pushed id is *)
(* whatever its author chose.  An envelope names a sender, was signed by    *)
(* one, and was sealed for this server's key or for another one.            *)
(***************************************************************************)
EXTENDS Naturals, Sequences, SequencesExt

CONSTANTS Servers, Mistakes, Senders, TrustedSenders, PushedIds, Batches, MaxDays, MaxLessons

ASSUME LessonsAssumption ==
  /\ TrustedSenders \subseteq Senders /\ MaxDays \in Nat \ {0} /\ MaxLessons \in Nat
  /\ \A id \in PushedIds : Len(id) \in Nat /\ DOMAIN id = 1 .. Len(id)
  /\ \A batch \in Batches : Len(batch) \in Nat /\ DOMAIN batch = 1 .. Len(batch)

VARIABLES
  lsFile,   \* the lessons, in the order of the file
  lsPend,   \* server -> what its writer has read and is about to write
  lsDay,    \* today
  lsOverlap \* history: a writer has begun while another one was in between

lsVars == <<lsFile, lsPend, lsDay, lsOverlap>>

IdlePend == [at |-> "idle", new |-> << >>, text |-> << >>]

LessonsInit ==
  /\ lsFile = << >>
  /\ lsPend = [v \in Servers |-> IdlePend]
  /\ lsDay = 1
  /\ lsOverlap = FALSE

\* A writer begins: another one may have looked at the file and not written yet.
Begins(v) == lsOverlap' = (lsOverlap \/ \E w \in Servers \ {v} : lsPend[w].at # "idle")

Lesson(id, from, by) == [id |-> id, from |-> from, by |-> by]

\* _get_existing_lesson_ids parses the ids; the other two writers look for the
\* id's text anywhere in the file.
ExistingIds(text) == {text[i].id : i \in DOMAIN text}
InText(id, text) == \E i \in DOMAIN text : IsPrefix(id, text[i].id)

\* _generate_lesson_id: today and the hash of the mistake.
LessonId(mistake) == <<lsDay, mistake>>

-----------------------------------------------------------------------------
(* FederatedSyncEngine.sync *)

\* What the scan of the run and memory files for failures compiles, in their
\* order: one lesson for each mistake that has none.
Compiled(v, found) == [i \in DOMAIN found |-> Lesson(LessonId(found[i]), "sync", v)]

\* Mutant: the ids that are there are not looked at.
ScanForgetsIds(v, found) ==
  /\ lsPend[v].at = "idle" /\ Len(lsFile) + Len(found) <= MaxLessons
  /\ lsPend' = [lsPend EXCEPT ![v].at = "scanned", ![v].new = Compiled(v, found)]
  /\ Begins(v) /\ UNCHANGED <<lsFile, lsDay>>

\* found: the mistakes whose ids are not in the file at the start of the scan.
Scan(v, found) ==
  /\ lsPend[v].at = "idle" /\ Len(lsFile) + Len(found) <= MaxLessons
  /\ \A i \in DOMAIN found : LessonId(found[i]) \notin ExistingIds(lsFile)
  /\ lsPend' = [lsPend EXCEPT ![v].at = "scanned", ![v].new = Compiled(v, found)]
  /\ Begins(v) /\ UNCHANGED <<lsFile, lsDay>>

\* _write_lessons_to_md reads the file again before it appends.
ReadForSync(v) ==
  /\ lsPend[v].at = "scanned"
  /\ lsPend' = [lsPend EXCEPT ![v].at = "read", ![v].text = lsFile]
  /\ UNCHANGED <<lsFile, lsDay, lsOverlap>>

-----------------------------------------------------------------------------
(* FederatedKnowledgeExchange behind the push_lesson message *)

Envelopes == [claims : Senders, signer : Senders, sealed : BOOLEAN, id : PushedIds]

\* decrypt_payload opens what was sealed with this server's public key, and
\* verify_signature accepts the signature of the key's owner only.
Opens(e) == e.sealed
SignatureOf(e, sender) == e.signer = sender

\* Mutant: the signature is not checked.
VerifiedUnsigned(e) == e.claims \in TrustedSenders /\ Opens(e)

\* decrypt_and_verify_lesson: a trusted sender and a signature of the sender
\* the envelope claims.
VerifiedLesson(e) == e.claims \in TrustedSenders /\ Opens(e) /\ SignatureOf(e, e.claims)

\* merge_lesson, up to the write.  A push that is refused, or whose id occurs
\* in the file, changes nothing.
Push(v, e) ==
  /\ lsPend[v].at = "idle" /\ Len(lsFile) < MaxLessons
  /\ VerifiedLesson(e) /\ ~InText(e.id, lsFile)
  /\ lsPend' = [lsPend EXCEPT ![v] =
       [at |-> "read", new |-> <<Lesson(e.id, "push", e.signer)>>, text |-> lsFile]]
  /\ Begins(v) /\ UNCHANGED <<lsFile, lsDay>>

-----------------------------------------------------------------------------
(* EpisodicSummarizer.merge_lessons *)

\* batch: the compiled lessons that are not in the text read at the start.
Summarize(v, batch) ==
  /\ lsPend[v].at = "idle" /\ Len(lsFile) + Len(batch) <= MaxLessons
  /\ \A i \in DOMAIN batch : ~InText(batch[i], lsFile)
  /\ lsPend' = [lsPend EXCEPT ![v] =
       [at |-> "read", new |-> [i \in DOMAIN batch |-> Lesson(batch[i], "summary", v)], text |-> lsFile]]
  /\ Begins(v) /\ UNCHANGED <<lsFile, lsDay>>

-----------------------------------------------------------------------------
\* Mutant: the file is written without what it held.
WrittenFresh(pend) == pend.new

\* The text that was read, and the new lessons after it.
Written(pend) == pend.text \o pend.new

WriteLessons(v) ==
  /\ lsPend[v].at = "read"
  /\ lsFile' = Written(lsPend[v])
  /\ lsPend' = [lsPend EXCEPT ![v] = IdlePend]
  /\ UNCHANGED <<lsDay, lsOverlap>>

NextDay == lsDay < MaxDays /\ lsDay' = lsDay + 1 /\ UNCHANGED <<lsFile, lsPend, lsOverlap>>

LessonsNext ==
  \/ NextDay
  \/ \E v \in Servers :
       \/ ReadForSync(v) \/ WriteLessons(v)
       \/ \E found \in {<<m>> : m \in Mistakes} \union {<<m, n>> : m, n \in Mistakes} :
            (\A i, j \in DOMAIN found : i # j => found[i] # found[j]) /\ Scan(v, found)
       \/ \E e \in Envelopes : Push(v, e)
       \/ \E batch \in Batches : Summarize(v, batch)

-----------------------------------------------------------------------------
(* Properties *)

\* The file only grows: no writer, writing back what it read, removes a
\* lesson another one has appended (_write_lessons_to_md, merge_lesson,
\* merge_lessons), as long as none has begun while another was in between,
\* which nothing in the code prevents.
LessonsOnlyGrow == [][lsOverlap \/ IsPrefix(lsFile, lsFile')]_lsVars

\* Every pushed lesson in the file was signed by a tenant this server trusts,
\* whatever the envelope around it claimed (decrypt_and_verify_lesson).
PushedWereSigned ==
  \A i \in DOMAIN lsFile : lsFile[i].from = "push" => lsFile[i].by \in TrustedSenders

\* A lesson that a scan or a push adds never repeats an id that is already in
\* the file, on whatever day and by whichever writer it was added, under the
\* same condition.
ScansAndPushesAreNew ==
  lsOverlap \/ \A i, j \in DOMAIN lsFile :
                  i < j /\ lsFile[j].from # "summary" => lsFile[i].id # lsFile[j].id

\* No id is in the file twice: "ensuring duplicate checks by Lesson ID to
\* prevent duplicating records" (EpisodicSummarizer.merge_lessons).
LessonIdsAreUnique ==
  \A i, j \in DOMAIN lsFile : i # j => lsFile[i].id # lsFile[j].id
=============================================================================
