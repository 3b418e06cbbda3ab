---------------------------- MODULE QuarantineReview ----------------------------
(***************************************************************************)
(* The two checks of the quarantine manifest: validateQuarantineManifest    *)
(* (quarantine-manifest.ts) and the summary that                            *)
(* reporting/flaker-quarantine-summary-core.ts makes of the same file.      *)
(*                                                                         *)
(* Operators only.  A manifest is a sequence of entries [id, task, spec,    *)
(* patternOk, complete, introduced, expires]; `complete' says that no field *)
(* is blank and that mode and scope are known ones.  A date is [at, form]:  *)
(* its instant, in half days from a midnight UTC, and how it is written, as *)
(* a "day" (2 * d), as an "instant" or as no date at all, "bad".            *)
(***************************************************************************)
EXTENDS Integers, Sequences, FiniteSets

SoonDays == 7

IsRepeated(manifest, k) == \E j \in 1..(k - 1) : manifest[j].id = manifest[k].id

\* The checks of one entry that the two have in common.
EntryErrors(manifest, k, unknownTask, existing) ==
  LET e == manifest[k]
  IN {c \in {"duplicate-id", "unknown-task", "missing-spec", "invalid-pattern"} :
        CASE c = "duplicate-id"    -> IsRepeated(manifest, k)
          [] c = "unknown-task"    -> unknownTask
          [] c = "missing-spec"    -> e.spec \notin existing
          [] c = "invalid-pattern" -> ~e.patternOk}

\* validateQuarantineManifest: time runs until the instant the date stands for
\* (mutated: that instant counts already).
LapsedAtOnce(date, now) == date.form # "bad" /\ date.at <= now
Lapsed(date, now) == date.form # "bad" /\ date.at < now
NearExpiry(date, now) ==
  date.form # "bad" /\ ~Lapsed(date, now) /\ (date.at - now + 1) \div 2 <= SoonDays

ManifestErrors(manifest, known, existing, now) ==
  UNION {{k} \X
    (EntryErrors(manifest, k, known # {} /\ manifest[k].task \notin known, existing)
       \cup {c \in {"incomplete", "invalid-introduced-at", "invalid-expires-at", "expired"} :
               CASE c = "incomplete"            -> ~manifest[k].complete
                 [] c = "invalid-introduced-at" -> manifest[k].introduced.form = "bad"
                 [] c = "invalid-expires-at"    -> manifest[k].expires.form = "bad"
                 [] c = "expired"               -> Lapsed(manifest[k].expires, now)})
    : k \in DOMAIN manifest}

ManifestWarnings(manifest, now) == {k \in DOMAIN manifest : NearExpiry(manifest[k].expires, now)}

-----------------------------------------------------------------------------
\* parseFlakerQuarantine throws on the first entry that is not complete.
Parses(manifest) == \A k \in DOMAIN manifest : manifest[k].complete

\* normalizeToUtcMidnight, diffInDays, classifyQuarantineExpiry: whole days count.
DaysUntil(date, now) == date.at \div 2 - now \div 2

Expiry(date, now) ==
  IF date.form # "day" THEN "invalid"
  ELSE IF DaysUntil(date, now) < 0 THEN "expired"
  ELSE IF DaysUntil(date, now) <= SoonDays THEN "expires-soon" ELSE "active"

\* The tasks that have a specification; a task of two entries counts with the last one.
Owns(tasks, id, spec) ==
  LET found == {i \in DOMAIN tasks : tasks[i].id = id}
  IN spec \in tasks[CHOOSE i \in found : \A j \in found : j <= i].specs

\* buildFlakerQuarantineSummary
SummaryErrors(manifest, tasks, existing, now) ==
  LET known == {tasks[i].id : i \in DOMAIN tasks}
  IN UNION {{k} \X
       (EntryErrors(manifest, k, manifest[k].task \notin known, existing)
          \cup {c \in {"task-does-not-own-spec", "invalid-introduced-at", "invalid-expires-at",
                       "invalid-expiry-range", "expired"} :
                  LET e == manifest[k]
                  IN CASE c = "task-does-not-own-spec" ->
                            e.spec \in existing /\ e.task \in known /\ ~Owns(tasks, e.task, e.spec)
                       [] c = "invalid-introduced-at"  -> e.introduced.form # "day"
                       [] c = "invalid-expires-at"     -> e.expires.form # "day"
                       [] c = "invalid-expiry-range"   ->
                            /\ e.introduced.form = "day"
                            /\ e.expires.form = "day"
                            /\ e.introduced.at > e.expires.at
                       [] c = "expired"                -> Expiry(e.expires, now) = "expired"})
       : k \in DOMAIN manifest}

SummaryWarnings(manifest, now) ==
  {k \in DOMAIN manifest : Expiry(manifest[k].expires, now) = "expires-soon"}
=============================================================================
