------------------------------- MODULE Catalog -------------------------------
(***************************************************************************)
(* What one site publishes and what the dashboard shows of it: the raw     *)
(* models, the evidence of their absence, and their matches with the rules *)
(* of the administrator.  Three parties write these rows: the collection   *)
(* of the site (Collector.CollectSite; that there is one at a time is      *)
(* shown in module Collection), the handlers that edit rules and then call *)
(* ReloadMatcher, and the edits of the site's blocked keywords.  Each      *)
(* transaction of SQLite is one step; the matcher engine is memory shared  *)
(* under matcherMu.                                                        *)
(*                                                                         *)
(* A rule is the set of raw names it matches, empty while it is disabled,  *)
(* and a list of keywords the set of names it blocks.  What groups,        *)
(* metrics and buckets a snapshot holds, and the data revision, which only *)
(* matters to readers that cache, are left out.                            *)
(***************************************************************************)
EXTENDS Naturals, FiniteSets

CONSTANTS
    Models,     \* raw names a source may ever list
    Rules,      \* ids of model_rules
    Admins,     \* concurrent handlers of POST, PUT and DELETE /admin/rules
    NoEngine,
    MaxEdits    \* bound on edits of rules and keywords

ASSUME ModelsAssumption == IsFiniteSet(Models)
ASSUME EnginesAssumption ==
    NoEngine \notin UNION {[ids -> SUBSET Models] : ids \in SUBSET Rules}
ASSUME EditsAssumption == MaxEdits \in Nat
ASSUME RulesAssumption == IsFiniteSet(Rules)

VARIABLES
    \* rows of SQLite
    rules,      \* model_rules: what each existing rule matches
    generated,  \* model_rules.generated, which refuses a deletion
    blocked,    \* the names blocked by sites.adapter_config
    known,      \* raw_models
    removed,    \* raw_models.removed_at IS NOT NULL
    absent,     \* raw_models.absent_complete_runs
    snap,       \* models with groups and current_snapshots
    matches,    \* model_matches: the rules of each model
    primary,    \* models with a match whose is_primary is 1
    \* memory of the process
    engine,     \* Collector.matcher: the rules it was built from
    pc,         \* where the collection of the site is
    run,        \* its local variables
    lent,       \* the engine of the refresh that holds matcherMu.RLock
    reload,     \* per administrator: where the handler is, its local
                \* variables
    edits,      \* edits so far
    \* history
    missed,     \* committed catalogs in a row that did not name a model
    hidden,     \* models an administrator's keyword has removed
    settled,    \* the last edit of a rule was followed by a whole reload
    contested   \* reloads during which something else went on

rows ==
    <<rules, generated, blocked, known, removed, absent, snap, matches, primary>>
history == <<missed, hidden, settled, contested>>
vars == <<rows, engine, pc, run, lent, reload, edits, history>>

\* From three on the counter makes no difference any more.
AbsenceLimit == 3
Count(n) == IF n < AbsenceLimit THEN n + 1 ELSE n

Engines == UNION {[ids -> SUBSET Models] : ids \in SUBSET Rules}
CollectorPC == {"idle", "fetch", "preview", "apply", "refresh", "write",
                "hide", "finish"}
AdminPC == {"idle", "list", "swap", "targets", "write", "bump"}

\* engine.Preview(name).Matches
Preview(e, m) == {r \in DOMAIN e : m \in e[r]}

Present == known \ removed

\* The rows of QueryPublicRows, before the site being disabled or a model being
\* without traffic for long hides some more.
Public(m) == m \in Present \cap snap \cap primary

EmptyRun == [keywords |-> {}, missing |-> FALSE, seen |-> {}, catalog |-> {},
             blocked |-> {}, todo |-> {}, matched |-> {}, affected |-> {},
             status |-> "none"]
EmptyReload == [at |-> "idle", listed |-> NoEngine, targets |-> {}]

TypeOK ==
    /\ rules \in Engines /\ engine \in Engines
    /\ generated \in SUBSET DOMAIN rules
    /\ known \in SUBSET Models
    /\ {removed, snap, primary, hidden} \subseteq SUBSET known
    /\ blocked \in SUBSET Models
    /\ absent \in [Models -> 0 .. AbsenceLimit]
    /\ missed \in [Models -> 0 .. AbsenceLimit]
    /\ matches \in [Models -> SUBSET DOMAIN rules]
    /\ \A m \in primary : \E r \in Rules : matches[m] = {r}
    /\ pc \in CollectorPC
    /\ run \in [keywords : SUBSET Models, missing : BOOLEAN, seen : SUBSET Models,
                catalog : SUBSET Models, blocked : SUBSET Models,
                todo : SUBSET Models, matched : SUBSET Models,
                affected : SUBSET Models,
                status : {"none", "running", "success", "partial", "failed"}]
    /\ lent \in Engines \cup {NoEngine}
    /\ pc = "write" <=> lent # NoEngine
    /\ reload \in [Admins -> [at : AdminPC, listed : Engines \cup {NoEngine},
                              targets : SUBSET Models]]
    /\ edits \in 0 .. MaxEdits
    /\ settled \in BOOLEAN
    /\ contested \in SUBSET Admins

\* A site is created, with its keywords, in a process whose rules have been
\* loaded; nothing of it is known.
Init ==
    /\ rules \in Engines /\ generated \in SUBSET DOMAIN rules
    /\ engine = rules
    /\ blocked \in SUBSET Models
    /\ known = {} /\ removed = {} /\ snap = {} /\ primary = {}
    /\ absent = [m \in Models |-> 0]
    /\ matches = [m \in Models |-> {}]
    /\ pc = "idle" /\ run = EmptyRun /\ lent = NoEngine
    /\ reload = [a \in Admins |-> EmptyReload] /\ edits = 0
    /\ missed = [m \in Models |-> 0]
    /\ hidden = {} /\ settled = TRUE /\ contested = {}

(***************************************************************************)
(* Match rows                                                              *)
(***************************************************************************)

\* The rows refreshMatches replaces; a match with a rule that is gone breaks
\* the foreign key and the transaction is rolled back.
CanRefresh(e, targets) ==
    \A m \in targets : Preview(e, m) \subseteq DOMAIN rules

RefreshMatches(e, targets) ==
    /\ matches' = [m \in Models |-> IF m \in targets THEN Preview(e, m)
                                                     ELSE matches[m]]
    /\ primary' = (primary \ targets)
                    \cup {m \in targets : Cardinality(Preview(e, m)) = 1}

DeleteMatches(gone) ==
    /\ matches' = [m \in Models |-> IF m \in gone THEN {} ELSE matches[m]]
    /\ primary' = primary \ gone

(***************************************************************************)
(* A collection                                                            *)
(***************************************************************************)

\* The site row, and with it the keywords, was read before the collection.
Begin ==
    /\ pc = "idle"
    /\ pc' = "fetch"
    /\ run' = [EmptyRun EXCEPT !.keywords = blocked, !.status = "running",
                               !.affected = run.affected]
    /\ UNCHANGED <<rows, engine, lent, reload, edits, history>>

\* Collect answers: every adapter reports a complete catalog, perhaps with a
\* state for the models that are missing.  The catalog names all models, or
\* none and then means all, or some: models a probe only finds in its groups
\* are observed but not catalogued.  Blocked names are dropped from both.
\* Without any model and without such a state the run fails (Abandon).
Collect ==
    /\ pc = "fetch"
    /\ \E models \in SUBSET Models, missing \in BOOLEAN :
       \E named \in SUBSET models :
          LET kept == models \ run.keywords
              keptNames == named \ run.keywords
          IN  /\ missing \/ kept # {}
              /\ run' = [run EXCEPT
                    !.missing = missing, !.seen = kept, !.todo = kept,
                    !.blocked = models \cap run.keywords,
                    !.catalog = IF keptNames = {} THEN kept ELSE keptNames]
    /\ pc' = "preview"
    /\ UNCHANGED <<rows, engine, lent, reload, edits, history>>

\* Each model is matched under a read lock of its own; one without a match
\* keeps no groups.
PreviewModel ==
    /\ pc = "preview"
    /\ \E m \in run.todo :
          run' = [run EXCEPT !.todo = @ \ {m},
                    !.matched = IF Preview(engine, m) # {} THEN @ \cup {m}
                                                           ELSE @]
    /\ UNCHANGED <<rows, engine, pc, lent, reload, edits, history>>

Previewed ==
    /\ pc = "preview" /\ run.todo = {}
    /\ pc' = "apply"
    /\ UNCHANGED <<rows, engine, run, lent, reload, edits, history>>

\* Variant: a model is removed when its evidence is two catalogs old.
CountAbsenceEarly ==
    LET omitted == known' \ run.catalog
        evidence(m) == IF m \in run.seen THEN 0 ELSE absent[m]
        gone == {m \in omitted : evidence(m) + 2 >= AbsenceLimit}
    IN  /\ absent' = [m \in Models |-> IF m \in omitted THEN Count(evidence(m))
                                                        ELSE 0]
        /\ removed' = (removed \ (run.seen \cup run.catalog)) \cup gone
        /\ DeleteMatches(removed')

\* updateAbsenceEvidence, after upsertRawModel has cleared the evidence of what
\* was seen: three catalogs in a row without a model remove it.
CountAbsence ==
    LET omitted == known' \ run.catalog
        evidence(m) == IF m \in run.seen THEN 0 ELSE absent[m]
        gone == {m \in omitted : evidence(m) + 1 >= AbsenceLimit}
    IN  /\ absent' = [m \in Models |-> IF m \in omitted THEN Count(evidence(m))
                                                        ELSE 0]
        /\ removed' = (removed \ (run.seen \cup run.catalog)) \cup gone
        /\ DeleteMatches(removed')

\* applyMissingCatalogState: every model of the site is present again.
AdmitAll ==
    /\ absent' = [m \in Models |-> 0]
    /\ removed' = {}
    /\ UNCHANGED <<matches, primary>>

ApplyCollection ==
    /\ pc = "apply"
    /\ known' = known \cup run.seen
    /\ snap' = snap \cup run.matched
    /\ IF run.missing THEN AdmitAll ELSE CountAbsence
    /\ missed' = [m \in Models |->
                    IF m \in known' \ run.catalog THEN Count(missed[m]) ELSE 0]
    /\ hidden' = hidden \cap removed'
    /\ run' = [EmptyRun EXCEPT !.keywords = run.keywords, !.blocked = run.blocked,
                               !.status = run.status, !.affected = run.seen]
    /\ pc' = "refresh"
    /\ UNCHANGED <<rules, generated, blocked, engine, lent, reload, edits,
                   settled, contested>>

\* RefreshMatchesForRawModels, its two transactions under one read lock.  The
\* models it works on are those still present when it lists them.
BeginRefresh ==
    /\ pc = "refresh"
    /\ lent' = engine
    /\ run' = [run EXCEPT !.todo = run.affected \cap Present]
    /\ pc' = "write"
    /\ UNCHANGED <<rows, engine, reload, edits, history>>

WriteRefresh ==
    /\ pc = "write"
    /\ CanRefresh(lent, run.todo)
    /\ RefreshMatches(lent, run.todo)
    /\ lent' = NoEngine
    /\ run' = [run EXCEPT !.todo = {}]
    /\ pc' = "hide"
    /\ UNCHANGED <<rules, generated, blocked, known, removed, absent, snap,
                   engine, reload, edits, history>>

\* Variant: Only the matches of blocked models are deleted.
HideBlockedMatches ==
    /\ pc = "hide"
    /\ DeleteMatches(run.blocked \cap known)
    /\ run' = [run EXCEPT !.status = "success"]
    /\ pc' = "finish"
    /\ UNCHANGED <<rules, generated, blocked, known, removed, absent, snap,
                   engine, lent, reload, edits, history>>

\* RemoveRawModels takes out the blocked models the source has listed; when it
\* fails the run is only a partial success.
HideBlocked ==
    /\ pc = "hide"
    /\ LET out == run.blocked \cap known
       IN  /\ removed' = removed \cup out
           /\ hidden' = hidden \cup out
           /\ DeleteMatches(out)
    /\ run' = [run EXCEPT !.status = "success"]
    /\ pc' = "finish"
    /\ UNCHANGED <<rules, generated, blocked, known, absent, snap, engine,
                   lent, reload, edits, missed, settled, contested>>

HidingFails ==
    /\ pc = "hide" /\ run.blocked # {}
    /\ run' = [run EXCEPT !.status = "partial"]
    /\ pc' = "finish"
    /\ UNCHANGED <<rows, engine, lent, reload, edits, history>>

Finish ==
    /\ pc = "finish"
    /\ pc' = "idle"
    /\ UNCHANGED <<rows, engine, run, lent, reload, edits, history>>

\* The reloads that are under way.
Reloading == {a \in Admins : reload[a].at # "idle"}

\* Any step before the removal may fail or find its context over; after
\* ApplyCollection the rows stay and the refresh of their matches is lost.
Abandon ==
    /\ pc \in {"fetch", "preview", "apply", "refresh", "write"}
    /\ IF pc \in {"refresh", "write"}
       THEN settled' = FALSE /\ contested' = contested \cup Reloading
       ELSE UNCHANGED <<settled, contested>>
    /\ lent' = NoEngine
    /\ run' = [EmptyRun EXCEPT !.affected = run.affected, !.status = "failed"]
    /\ pc' = "idle"
    /\ UNCHANGED <<rows, engine, reload, edits, missed, hidden>>

CollectSite ==
    \/ Begin \/ Collect \/ PreviewModel \/ Previewed \/ ApplyCollection
    \/ BeginRefresh \/ WriteRefresh \/ HideBlocked \/ HidingFails \/ Finish
    \/ Abandon

(***************************************************************************)
(* Administrators                                                          *)
(***************************************************************************)

Edit == edits < MaxEdits /\ edits' = edits + 1

\* The handler goes on to ReloadMatcher once its edit is committed.
StartReload(a) ==
    /\ Edit
    /\ reload[a].at = "idle"
    /\ reload' = [reload EXCEPT ![a].at = "list"]
    /\ settled' = FALSE
    /\ contested' = IF Reloading = {} THEN contested \ {a}
                    ELSE contested \cup Reloading \cup {a}

\* SQLite may give the id of a deleted rule out again.
CreateRule(a) ==
    /\ \E r \in Rules \ DOMAIN rules, names \in SUBSET Models :
          /\ rules' = [id \in DOMAIN rules \cup {r} |->
                        IF id = r THEN names ELSE rules[id]]
          /\ generated' \in {generated, generated \cup {r}}
    /\ StartReload(a)
    /\ UNCHANGED <<blocked, known, removed, absent, snap, matches, primary,
                   engine, pc, run, lent, missed, hidden>>

UpdateRule(a) ==
    /\ \E r \in DOMAIN rules, names \in SUBSET Models :
          /\ rules' = [rules EXCEPT ![r] = names]
          /\ generated' \in {generated \ {r}, generated \cup {r}}
    /\ StartReload(a)
    /\ UNCHANGED <<blocked, known, removed, absent, snap, matches, primary,
                   engine, pc, run, lent, missed, hidden>>

\* The matches of the rule go with it.
DeleteRule(a) ==
    /\ \E r \in DOMAIN rules \ generated :
          /\ rules' = [id \in DOMAIN rules \ {r} |-> rules[id]]
          /\ matches' = [m \in Models |-> matches[m] \ {r}]
          /\ primary' = {m \in primary : r \notin matches[m]}
    /\ StartReload(a)
    /\ UNCHANGED <<generated, blocked, known, removed, absent, snap, engine,
                   pc, run, lent, missed, hidden>>

ListRules(a) ==
    /\ reload[a].at = "list"
    /\ reload' = [reload EXCEPT ![a].at = "swap", ![a].listed = rules]
    /\ UNCHANGED <<rows, engine, pc, run, lent, edits, history>>

\* Variant: The engine is replaced although a refresh holds the read lock.
SwapEngineUnlocked(a) ==
    /\ reload[a].at = "swap"
    /\ engine' = reload[a].listed
    /\ reload' = [reload EXCEPT ![a].at = "targets"]
    /\ UNCHANGED <<rows, pc, run, lent, edits, history>>

\* The write lock waits for a refresh that is under way.
SwapEngine(a) ==
    /\ reload[a].at = "swap"
    /\ lent = NoEngine
    /\ engine' = reload[a].listed
    /\ reload' = [reload EXCEPT ![a].at = "targets"]
    /\ UNCHANGED <<rows, pc, run, lent, edits, history>>

ListTargets(a) ==
    /\ reload[a].at = "targets"
    /\ reload' = [reload EXCEPT ![a].at = "write", ![a].targets = Present]
    /\ UNCHANGED <<rows, engine, pc, run, lent, edits, history>>

RefreshAllMatches(a) ==
    /\ reload[a].at = "write"
    /\ CanRefresh(reload[a].listed, reload[a].targets)
    /\ RefreshMatches(reload[a].listed, reload[a].targets)
    /\ settled' = (a \notin contested)
    /\ reload' = [reload EXCEPT ![a] = [EmptyReload EXCEPT !.at = "bump"]]
    /\ UNCHANGED <<rules, generated, blocked, known, removed, absent, snap,
                   engine, pc, run, lent, edits, missed, hidden, contested>>

\* BumpRevision, or the end of a request that was given up or has failed.
EndReload(a) ==
    /\ reload[a].at # "idle"
    /\ reload' = [reload EXCEPT ![a] = EmptyReload]
    /\ UNCHANGED <<rows, engine, pc, run, lent, edits, history>>

SetBlocked ==
    /\ Edit
    /\ blocked' \in SUBSET Models
    /\ UNCHANGED <<rules, generated, known, removed, absent, snap, matches,
                   primary, engine, pc, run, lent, reload, history>>

Administer ==
    \/ SetBlocked
    \/ \E a \in Admins :
          \/ CreateRule(a) \/ UpdateRule(a) \/ DeleteRule(a)
          \/ ListRules(a) \/ SwapEngine(a) \/ ListTargets(a)
          \/ RefreshAllMatches(a) \/ EndReload(a)

\* The process dies.  The next one creates the seed rules it misses (one was
\* renamed, or the version is a new one), loads the rules and refreshes all
\* matches before it serves or collects anything.
Restart ==
    /\ \E seeds \in SUBSET (Rules \ DOMAIN rules) :
       \E names \in [seeds -> SUBSET Models] :
          /\ rules' = [id \in DOMAIN rules \cup seeds |->
                        IF id \in seeds THEN names[id] ELSE rules[id]]
          /\ generated' = generated \cup seeds
    /\ engine' = rules'
    /\ RefreshMatches(rules', Present)
    /\ pc' = "idle" /\ run' = EmptyRun /\ lent' = NoEngine
    /\ reload' = [a \in Admins |-> EmptyReload]
    /\ settled' = TRUE /\ contested' = {}
    /\ UNCHANGED <<blocked, known, removed, absent, snap, edits, missed,
                   hidden>>

Next == CollectSite \/ Administer \/ Restart

Spec == Init /\ [][Next]_vars

(***************************************************************************)
(* Properties                                                              *)
(***************************************************************************)

\* A model is removed only after three catalogs in a row have left it out,
\* unless a blocked keyword took it out: a catalog that names it starts the
\* count again, a run that fails before its catalog is committed leaves the count
\* alone, and what the last collection observed is there.  The catalogs that
\* count are those ApplyCollection has committed, also of runs that fail
\* afterwards; "three successful complete-catalog collections", as
\* docs/product-spec.md has it, is not what the code counts.
RemovedOnlyAfterThree ==
    \A m \in removed \ hidden : missed[m] >= AbsenceLimit /\ m \notin run.affected

\* The match rows of a model are what the rules of the database say.
Follows(m) ==
    /\ matches[m] = Preview(rules, m)
    /\ m \in primary <=> Cardinality(Preview(rules, m)) = 1

\* Outside a refresh, once the last edit of a rule was reloaded as a whole, the
\* models of the last collection that are still present have the matches, and
\* the primary one, that the rules of the database give them, whatever
\* collections did in the middle of the reload.
MatchesFollowRules ==
    settled /\ pc \notin {"refresh", "write"} =>
        \A m \in run.affected \cap Present : Follows(m)

\* After a successful run no blocked model the source had listed is on the
\* dashboard, although rules are reloaded in the middle of it.
BlockedStaysHidden ==
    run.status = "success" => \A m \in run.blocked : ~Public(m)

\* collector/blocked.go: models with a blocked keyword are "removed from the
\* dashboard immediately, regardless of their observed availability".  After a
\* successful run with the keyword none of them should be public.
BlockedNeverPublic ==
    run.status = "success" => \A m \in run.keywords : ~Public(m)
=============================================================================
