---------------------------- MODULE CatalogProofs ----------------------------
(***************************************************************************)
(* Proofs about Catalog, for any finite sets of names and rules, any       *)
(* number of administrators and of edits.                                  *)
(*                                                                         *)
(* TypeOK alone is not inductive, because a refresh writes for targets     *)
(* listed some steps before and with an engine listed before that:         *)
(* LocalsOK adds what those locals are.  AbsenceInv is why a model is not  *)
(* removed early: the counter of the row never runs ahead of the catalogs  *)
(* that have not named the model.  HiddenInv says when the blocked models  *)
(* of a run are out, and by which step.  MatchInv follows one reload from  *)
(* its edit to its last write: as long as nothing contests it, what it     *)
(* listed is what the database holds, and what it will not write is right  *)
(* already.                                                                *)
(***************************************************************************)
EXTENDS Catalog, FiniteSetTheorems, TLAPS

USE ModelsAssumption, RulesAssumption, EnginesAssumption, EditsAssumption

LocalsOK ==
    /\ run.matched \subseteq run.seen
    /\ pc = "fetch" => run.matched = {}
    /\ pc = "preview" => run.todo \subseteq run.seen
    /\ pc = "write" => run.todo \subseteq known
    /\ \A a \in Admins :
          /\ reload[a].targets \subseteq known
          /\ reload[a].at \in {"swap", "targets", "write"}
                => reload[a].listed \in Engines

IInv == TypeOK /\ LocalsOK

\* The types of the two records, for the steps that change some of their fields.
RunType == [keywords : SUBSET Models, missing : BOOLEAN, seen : SUBSET Models,
            catalog : SUBSET Models, blocked : SUBSET Models,
            todo : SUBSET Models, matched : SUBSET Models,
            affected : SUBSET Models,
            status : {"none", "running", "success", "partial", "failed"}]
ReloadType == [at : AdminPC, listed : Engines \cup {NoEngine},
               targets : SUBSET Models]

AbsenceInv ==
    /\ \A m \in Models : absent[m] <= missed[m]
    /\ RemovedOnlyAfterThree

HiddenInv ==
    /\ run.status = "success" => pc \in {"finish", "idle"}
    /\ run.status = "success" => \A m \in run.blocked : m \notin Present

Refreshing == pc \in {"refresh", "write"}

\* The refresh of a collection uses the engine in place, on all it has to.
LentInv ==
    pc = "write" => lent = engine /\ run.todo = run.affected \cap Present

SettledInv ==
    settled => /\ engine = rules
               /\ \A a \in Admins : reload[a].at \in {"idle", "bump"}

\* A reload nothing has contested is alone, and its rules are the database's.
AloneInv ==
    \A a \in Admins \ contested : reload[a].at # "idle" =>
        /\ \A b \in Admins \ {a} : reload[b].at = "idle"
        /\ reload[a].at \in {"swap", "targets", "write"} => reload[a].listed = rules
        /\ reload[a].at \in {"targets", "write"} => engine = rules

\* What such a reload has not listed needs no refresh.
CoverInv ==
    \A a \in Admins \ contested : reload[a].at = "write" /\ ~Refreshing =>
        \A m \in (run.affected \cap Present) \ reload[a].targets : Follows(m)

MatchInv == LentInv /\ SettledInv /\ AloneInv /\ CoverInv /\ MatchesFollowRules

Actions ==
    \/ Begin \/ Collect \/ PreviewModel \/ Previewed \/ ApplyCollection
    \/ BeginRefresh \/ WriteRefresh \/ HideBlocked \/ HidingFails \/ Finish
    \/ Abandon \/ SetBlocked \/ Restart
    \/ \E a \in Admins : CreateRule(a)
    \/ \E a \in Admins : UpdateRule(a)
    \/ \E a \in Admins : DeleteRule(a)
    \/ \E a \in Admins : ListRules(a)
    \/ \E a \in Admins : SwapEngine(a)
    \/ \E a \in Admins : ListTargets(a)
    \/ \E a \in Admins : RefreshAllMatches(a)
    \/ \E a \in Admins : EndReload(a)

\* Next is the disjunction of the actions.
LEMMA NextActions == Next => Actions
  BY DEF Next, CollectSite, Administer, Actions

\* A function on ids of rules with sets of names as values is an engine.
LEMMA EnginesMembers ==
  /\ \A ids \in SUBSET Rules : [ids -> SUBSET Models] \subseteq Engines
  /\ \A e \in Engines : DOMAIN e \subseteq Rules /\ e \in [DOMAIN e -> SUBSET Models]
  BY DEF Engines

\* What a refresh writes refers to existing rules, and a primary match is the
\* only one of its model.
LEMMA RefreshTypes ==
  ASSUME TypeOK, NEW e, NEW targets \in SUBSET known, NEW ids \in SUBSET Rules,
         DOMAIN rules \subseteq ids, \A m \in targets : Preview(e, m) \subseteq ids,
         RefreshMatches(e, targets)
  PROVE  /\ matches' \in [Models -> SUBSET ids]
         /\ primary' \subseteq known
         /\ \A m \in primary' : \E r \in Rules : matches'[m] = {r}
<1>2. matches' \in [Models -> SUBSET ids]
  BY DEF TypeOK, RefreshMatches
<1>3. known \subseteq Models /\ primary \subseteq known
  BY DEF TypeOK
<1>4. ASSUME NEW m \in primary'
      PROVE  \E r \in Rules : matches'[m] = {r}
  <2>1. CASE m \in targets
    <3>1. Preview(e, m) \subseteq ids /\ Cardinality(Preview(e, m)) = 1
      BY <1>4, <2>1 DEF RefreshMatches
    <3>2. IsFiniteSet(Preview(e, m))
      BY <3>1, FS_Subset
    <3>3. PICK r : Preview(e, m) = {r}
      BY <3>1, <3>2, FS_Singleton
    <3>4. matches'[m] = {r}
      BY <3>3, <2>1, <1>3 DEF RefreshMatches
    <3> QED
      BY <3>1, <3>3, <3>4
  <2>2. CASE m \notin targets
    <3>1. m \in primary /\ m \in Models
      BY <2>2, <1>4, <1>3 DEF RefreshMatches
    <3>2. matches'[m] = matches[m]
      BY <3>1, <2>2 DEF RefreshMatches
    <3> QED
      BY <3>1, <3>2 DEF TypeOK
  <2> QED
    BY <2>1, <2>2
<1> QED
  BY <1>2, <1>3, <1>4 DEF RefreshMatches

\* Deleting the matches of some models leaves well-formed match rows.
LEMMA DeleteTypes ==
  ASSUME TypeOK, NEW gone, DeleteMatches(gone)
  PROVE  /\ matches' \in [Models -> SUBSET DOMAIN rules]
         /\ primary' \subseteq known
         /\ \A m \in primary' : \E r \in Rules : matches'[m] = {r}
  BY DEF TypeOK, DeleteMatches

\* The initial state has its types.
LEMMA InitTypes == Init => IInv
<1> SUFFICES ASSUME Init PROVE IInv
  OBVIOUS
<1>2. NoEngine \notin Engines
  BY DEF Engines
<1> QED
  BY <1>2 DEF Init, IInv, TypeOK, LocalsOK, EmptyRun, EmptyReload,
     AbsenceLimit, CollectorPC, AdminPC

\* The bookkeeping of a committed collection.
LEMMA ApplyTypes == IInv /\ ApplyCollection => IInv'
<1> SUFFICES ASSUME IInv, ApplyCollection PROVE IInv'
  OBVIOUS
<1> USE DEF IInv, TypeOK, LocalsOK, ApplyCollection, EmptyRun, Count,
        AbsenceLimit, CollectorPC, AdminPC
<1>1. known' \in SUBSET Models /\ known \subseteq known' /\ snap' \subseteq known'
  OBVIOUS
<1>2. missed' \in [Models -> 0 .. AbsenceLimit]
  OBVIOUS
<1>3. run' \in RunType /\ run'.matched \subseteq run'.seen
  BY DEF RunType
<1>4. /\ absent' \in [Models -> 0 .. AbsenceLimit]
      /\ removed' \subseteq known'
      /\ matches' \in [Models -> SUBSET DOMAIN rules]
      /\ primary' \subseteq known
      /\ \A m \in primary' : \E r \in Rules : matches'[m] = {r}
  <2>1. CASE run.missing
    BY <2>1 DEF AdmitAll
  <2>2. CASE ~run.missing
    <3>1. CountAbsence
      BY <2>2
    <3>2. absent' \in [Models -> 0 .. AbsenceLimit] /\ removed' \subseteq known'
      BY <3>1, <1>1 DEF CountAbsence
    <3>3. DeleteMatches(removed')
      BY <3>1 DEF CountAbsence
    <3> QED
      BY <3>2, <3>3, DeleteTypes
  <2> QED
    BY <2>1, <2>2
<1>5. hidden' \subseteq known'
  BY <1>4
<1> QED
  BY <1>1, <1>2, <1>3, <1>4, <1>5 DEF RunType

\* What every edit of a rule does besides the edit.
LEMMA StartReloadTypes ==
  ASSUME IInv, NEW a \in Admins, StartReload(a)
  PROVE  /\ reload' \in [Admins -> ReloadType]
         /\ \A b \in Admins :
               /\ reload'[b].targets = reload[b].targets
               /\ reload'[b].at \in {"swap", "targets", "write"}
                     => reload'[b].listed \in Engines
         /\ edits' \in 0 .. MaxEdits /\ settled' \in BOOLEAN
         /\ contested' \in SUBSET Admins
<1> USE DEF IInv, TypeOK, LocalsOK, StartReload, ReloadType, AdminPC
<1>1. reload' \in [Admins -> ReloadType]
  OBVIOUS
<1>2. \A b \in Admins :
               /\ reload'[b].targets = reload[b].targets
               /\ reload'[b].at \in {"swap", "targets", "write"}
                     => reload'[b].listed \in Engines
  OBVIOUS
<1>3. edits' = edits + 1 /\ edits < MaxEdits /\ edits \in 0 .. MaxEdits
  BY DEF Edit
<1>4. edits' \in 0 .. MaxEdits
  BY <1>3, EditsAssumption
<1>5. settled' \in BOOLEAN
  OBVIOUS
<1>6. contested' \in SUBSET Admins
  BY DEF Reloading
<1> QED
  BY <1>1, <1>2, <1>4, <1>5, <1>6

\* Reading the rules or the models leaves a handler's locals well formed.
LEMMA ListTypes ==
  ASSUME reload \in [Admins -> ReloadType], rules \in Engines,
         Present \in SUBSET Models, NEW a \in Admins,
         ListRules(a) \/ ListTargets(a)
  PROVE  reload' \in [Admins -> ReloadType]
  BY DEF ListRules, ListTargets, ReloadType, AdminPC

\* Types and local variables are kept by every step.
LEMMA StepTypes == IInv /\ [Next]_vars => IInv'
<1> SUFFICES ASSUME IInv, [Next]_vars PROVE IInv'
  OBVIOUS
<1> USE DEF IInv, TypeOK, LocalsOK, CollectorPC, AdminPC
<1>e. NoEngine \notin Engines
  BY DEF Engines
<1>1. CASE UNCHANGED vars
  BY <1>1 DEF vars, rows, history
<1>2. CASE Begin
  BY <1>2 DEF Begin, EmptyRun, rows, history
<1>3. CASE Collect
  <2>1. run' \in RunType
    <3>1. PICK models \in SUBSET Models, missing \in BOOLEAN, named \in SUBSET Models :
            run' = [run EXCEPT
                    !.missing = missing, !.seen = models \ run.keywords,
                    !.todo = models \ run.keywords,
                    !.blocked = models \cap run.keywords,
                    !.catalog = IF named \ run.keywords = {}
                                THEN models \ run.keywords
                                ELSE named \ run.keywords]
      BY <1>3 DEF Collect
    <3> QED
      BY <3>1 DEF RunType
  <2>2. run'.matched \subseteq run'.seen /\ run'.todo \subseteq run'.seen
    BY <1>3 DEF Collect
  <2> QED
    BY <1>3, <2>1, <2>2 DEF Collect, RunType, rows, history
<1>4. CASE PreviewModel
  <2>1. PICK m \in run.todo :
          run' = [run EXCEPT !.todo = @ \ {m},
                    !.matched = IF Preview(engine, m) # {} THEN @ \cup {m}
                                                           ELSE @]
    BY <1>4 DEF PreviewModel
  <2>2. m \in Models /\ m \in run.seen
    BY <1>4 DEF PreviewModel
  <2>3. run' \in RunType
    BY <2>1, <2>2 DEF RunType
  <2>4. run'.matched \subseteq run'.seen /\ run'.todo \subseteq run'.seen
    BY <1>4, <2>1, <2>2 DEF PreviewModel
  <2> QED
    BY <1>4, <2>3, <2>4 DEF PreviewModel, RunType, rows, history
<1>5. CASE Previewed
  BY <1>5 DEF Previewed, rows, history
<1>6. CASE ApplyCollection
  BY <1>6, ApplyTypes
<1>7. CASE BeginRefresh
  BY <1>7, <1>e DEF BeginRefresh, Present, rows, history
<1>8. CASE WriteRefresh
  <2>1. run.todo \in SUBSET known
    BY <1>8 DEF WriteRefresh
  <2>2. /\ \A m \in run.todo : Preview(lent, m) \subseteq DOMAIN rules
        /\ RefreshMatches(lent, run.todo) /\ DOMAIN rules \in SUBSET Rules
    BY <1>8, EnginesMembers DEF WriteRefresh, CanRefresh
  <2>3. /\ matches' \in [Models -> SUBSET DOMAIN rules]
        /\ primary' \subseteq known
        /\ \A m \in primary' : \E r \in Rules : matches'[m] = {r}
    BY <2>1, <2>2, RefreshTypes
  <2> QED
    BY <1>8, <2>3 DEF WriteRefresh, history
<1>9. CASE HideBlocked
  <2>1. DeleteMatches(run.blocked \cap known)
    BY <1>9 DEF HideBlocked
  <2>2. /\ matches' \in [Models -> SUBSET DOMAIN rules]
        /\ primary' \subseteq known
        /\ \A m \in primary' : \E r \in Rules : matches'[m] = {r}
    BY <2>1, DeleteTypes
  <2> QED
    BY <1>9, <2>2 DEF HideBlocked
<1>10. CASE HidingFails
  BY <1>10 DEF HidingFails, rows, history
<1>11. CASE Finish
  BY <1>11 DEF Finish, rows, history
<1>12. CASE Abandon
  BY <1>12 DEF Abandon, EmptyRun, Reloading, rows
<1>13. CASE SetBlocked
  BY <1>13 DEF SetBlocked, Edit, history
<1>14. CASE Restart
  <2>a. PICK seeds \in SUBSET (Rules \ DOMAIN rules) :
          \E names \in [seeds -> SUBSET Models] :
          /\ rules' = [id \in DOMAIN rules \cup seeds |->
                        IF id \in seeds THEN names[id] ELSE rules[id]]
          /\ generated' = generated \cup seeds
    BY <1>14 DEF Restart
  <2>1. PICK names \in [seeds -> SUBSET Models] :
          /\ rules' = [id \in DOMAIN rules \cup seeds |->
                        IF id \in seeds THEN names[id] ELSE rules[id]]
          /\ generated' = generated \cup seeds
    BY <2>a
  <2>2. DOMAIN rules \in SUBSET Rules /\ rules \in [DOMAIN rules -> SUBSET Models]
    BY EnginesMembers
  <2> DEFINE ids == DOMAIN rules \cup seeds
  <2>3. ids \in SUBSET Rules /\ rules' \in [ids -> SUBSET Models]
    BY <2>1, <2>2
  <2>4. rules' \in Engines /\ DOMAIN rules' = ids /\ DOMAIN rules \subseteq ids
    BY <2>3, EnginesMembers
  <2>5. \A m \in Present : Preview(rules', m) \subseteq ids
    BY <2>4 DEF Preview
  <2>6. Present \in SUBSET known /\ RefreshMatches(rules', Present)
    BY <1>14 DEF Present, Restart
  <2> HIDE DEF ids
  <2>7. /\ matches' \in [Models -> SUBSET DOMAIN rules']
        /\ primary' \subseteq known
        /\ \A m \in primary' : \E r \in Rules : matches'[m] = {r}
    BY <2>3, <2>4, <2>5, <2>6, RefreshTypes
  <2>8. generated' \in SUBSET DOMAIN rules' /\ engine' \in Engines
    BY <1>14, <2>1, <2>4 DEF Restart, ids
  <2> QED
    BY <1>14, <2>4, <2>7, <2>8 DEF Restart, EmptyRun, EmptyReload
<1>15. ASSUME NEW a \in Admins, CreateRule(a) PROVE IInv'
  <2>1. PICK r \in Rules \ DOMAIN rules, names \in SUBSET Models :
          /\ rules' = [id \in DOMAIN rules \cup {r} |->
                        IF id = r THEN names ELSE rules[id]]
          /\ generated' \in {generated, generated \cup {r}}
    BY <1>15 DEF CreateRule
  <2>2. DOMAIN rules \in SUBSET Rules /\ rules \in [DOMAIN rules -> SUBSET Models]
    BY EnginesMembers
  <2>3. DOMAIN rules \cup {r} \in SUBSET Rules
        /\ rules' \in [DOMAIN rules \cup {r} -> SUBSET Models]
    BY <2>1, <2>2
  <2>4. /\ rules' \in Engines /\ DOMAIN rules \subseteq DOMAIN rules'
        /\ generated' \in SUBSET DOMAIN rules'
    BY <2>1, <2>3, EnginesMembers
  <2>5. StartReload(a)
    BY <1>15 DEF CreateRule
  <2> QED
    BY <1>15, <2>4, <2>5, StartReloadTypes DEF CreateRule, ReloadType
<1>16. ASSUME NEW a \in Admins, UpdateRule(a) PROVE IInv'
  <2>a. PICK r \in DOMAIN rules, names \in SUBSET Models :
          /\ rules' = [rules EXCEPT ![r] = names]
          /\ generated' \in {generated \ {r}, generated \cup {r}}
    BY <1>16 DEF UpdateRule
  <2>b. DOMAIN rules \in SUBSET Rules /\ rules \in [DOMAIN rules -> SUBSET Models]
    BY EnginesMembers
  <2>c. rules' \in [DOMAIN rules -> SUBSET Models]
    BY <2>a, <2>b
  <2>1. /\ rules' \in Engines /\ DOMAIN rules' = DOMAIN rules
        /\ generated' \in SUBSET DOMAIN rules'
    BY <2>a, <2>b, <2>c, EnginesMembers
  <2>2. StartReload(a)
    BY <1>16 DEF UpdateRule
  <2> QED
    BY <1>16, <2>1, <2>2, StartReloadTypes DEF UpdateRule, ReloadType
<1>17. ASSUME NEW a \in Admins, DeleteRule(a) PROVE IInv'
  <2>1. PICK r \in DOMAIN rules \ generated :
          /\ rules' = [id \in DOMAIN rules \ {r} |-> rules[id]]
          /\ matches' = [m \in Models |-> matches[m] \ {r}]
          /\ primary' = {m \in primary : r \notin matches[m]}
    BY <1>17 DEF DeleteRule
  <2>a. DOMAIN rules \in SUBSET Rules /\ rules \in [DOMAIN rules -> SUBSET Models]
    BY EnginesMembers
  <2>b. DOMAIN rules \ {r} \in SUBSET Rules
        /\ rules' \in [DOMAIN rules \ {r} -> SUBSET Models]
    BY <2>1, <2>a
  <2>2. rules' \in Engines /\ DOMAIN rules' = DOMAIN rules \ {r}
    BY <2>b, EnginesMembers
  <2>3. matches' \in [Models -> SUBSET DOMAIN rules']
    BY <2>1, <2>2
  <2>4. \A m \in primary' : \E q \in Rules : matches'[m] = {q}
    BY <2>1
  <2>5. StartReload(a)
    BY <1>17 DEF DeleteRule
  <2>c. UNCHANGED <<generated, blocked, known, removed, absent, snap, engine,
                    pc, run, lent, missed, hidden>>
    BY <1>17 DEF DeleteRule
  <2>6. generated' \in SUBSET DOMAIN rules' /\ primary' \subseteq known
    BY <2>1, <2>2, <2>c
  <2>d. /\ reload' \in [Admins -> ReloadType]
        /\ edits' \in 0 .. MaxEdits /\ settled' \in BOOLEAN
        /\ contested' \in SUBSET Admins
    BY <2>5, StartReloadTypes
  <2>7. TypeOK'
    BY <2>2, <2>3, <2>4, <2>6, <2>c, <2>d DEF ReloadType
  <2>8. LocalsOK'
    BY <1>17, <2>5, StartReloadTypes DEF DeleteRule
  <2> QED
    BY <2>7, <2>8
<1>18. ASSUME NEW a \in Admins, ListRules(a) PROVE IInv'
  <2>1. reload' \in [Admins -> ReloadType]
    BY <1>18, ListTypes DEF ReloadType, Present
  <2>2. \A b \in Admins :
          /\ reload'[b].targets = reload[b].targets
          /\ reload'[b].at \in {"swap", "targets", "write"}
                => reload'[b].listed \in Engines
    BY <1>18 DEF ListRules
  <2> QED
    BY <1>18, <2>1, <2>2 DEF ListRules, ReloadType, rows, history
<1>19. ASSUME NEW a \in Admins, SwapEngine(a) PROVE IInv'
  BY <1>19 DEF SwapEngine, rows, history
<1>20. ASSUME NEW a \in Admins, ListTargets(a) PROVE IInv'
  <2>1. Present \in SUBSET Models /\ Present \subseteq known
    BY DEF Present
  <2>2. reload' \in [Admins -> ReloadType]
    BY <1>20, <2>1, ListTypes DEF ReloadType
  <2>3. \A b \in Admins :
          /\ reload'[b].targets \subseteq known
          /\ reload'[b].at \in {"swap", "targets", "write"}
                => reload'[b].listed \in Engines
    BY <1>20, <2>1 DEF ListTargets
  <2> QED
    BY <1>20, <2>2, <2>3 DEF ListTargets, ReloadType, rows, history
<1>21. ASSUME NEW a \in Admins, RefreshAllMatches(a) PROVE IInv'
  <2>1. /\ reload[a].targets \in SUBSET known
        /\ \A m \in reload[a].targets :
              Preview(reload[a].listed, m) \subseteq DOMAIN rules
        /\ DOMAIN rules \in SUBSET Rules
    BY <1>21, EnginesMembers DEF RefreshAllMatches, CanRefresh
  <2>2. /\ matches' \in [Models -> SUBSET DOMAIN rules]
        /\ primary' \subseteq known
        /\ \A m \in primary' : \E r \in Rules : matches'[m] = {r}
    BY <1>21, <2>1, RefreshTypes DEF RefreshAllMatches
  <2> QED
    BY <1>21, <2>2 DEF RefreshAllMatches, EmptyReload
<1>22. ASSUME NEW a \in Admins, EndReload(a) PROVE IInv'
  BY <1>22 DEF EndReload, EmptyReload, rows, history
<1> QED
  BY <1>1, <1>2, <1>3, <1>4, <1>5, <1>6, <1>7, <1>8, <1>9, <1>10, <1>11, <1>12,
     <1>13, <1>14, <1>15, <1>16, <1>17, <1>18, <1>19, <1>20, <1>21, <1>22,
     NextActions DEF Actions

\* The types and the ids in use hold in every state.
LEMMA TypesAlways == Spec => []IInv
  BY InitTypes, StepTypes, PTL DEF Spec

\* Every reachable state has the types of the schema and of the process, and
\* match rows refer to rules that exist.
THEOREM CatalogTypeCorrect == Spec => []TypeOK
  BY TypesAlways, PTL DEF IInv

(***************************************************************************)
(* Removal                                                                 *)
(***************************************************************************)

\* A committed collection: a model that goes has been left out by three
\* catalogs, and by the collection itself.
LEMMA ApplyAbsence == IInv /\ AbsenceInv /\ ApplyCollection => AbsenceInv'
<1> SUFFICES ASSUME IInv, AbsenceInv, ApplyCollection PROVE AbsenceInv'
  OBVIOUS
<1>1. /\ absent \in [Models -> 0 .. AbsenceLimit]
      /\ missed \in [Models -> 0 .. AbsenceLimit]
      /\ removed \subseteq known /\ known \subseteq Models
      /\ run.seen \subseteq Models
  BY DEF IInv, TypeOK
<1>2. /\ known' = known \cup run.seen /\ run'.affected = run.seen
      /\ hidden' = hidden \cap removed'
      /\ missed' = [m \in Models |-> IF m \in known' \ run.catalog
                                    THEN Count(missed[m]) ELSE 0]
  BY DEF ApplyCollection, EmptyRun
<1> USE DEF AbsenceInv, RemovedOnlyAfterThree, AbsenceLimit, Count
<1>3. CASE run.missing
  <2>1. absent' = [m \in Models |-> 0] /\ removed' = {}
    BY <1>3 DEF ApplyCollection, AdmitAll
  <2> QED
    BY <2>1, <1>1, <1>2
<1>4. CASE ~run.missing
  <2> DEFINE evidence(m) == IF m \in run.seen THEN 0 ELSE absent[m]
             omitted == known' \ run.catalog
             gone == {m \in omitted : evidence(m) + 1 >= AbsenceLimit}
  <2>1. /\ absent' = [m \in Models |-> IF m \in omitted THEN Count(evidence(m))
                                                        ELSE 0]
        /\ removed' = (removed \ (run.seen \cup run.catalog)) \cup gone
    BY <1>4 DEF ApplyCollection, CountAbsence
  <2>2. \A m \in Models : absent'[m] <= missed'[m]
    BY <2>1, <1>1, <1>2
  <2>3. ASSUME NEW m \in removed' \ hidden'
        PROVE  missed'[m] >= AbsenceLimit /\ m \notin run'.affected
    <3>1. CASE m \in gone
      BY <3>1, <1>1, <1>2
    <3>2. CASE m \in removed \ (run.seen \cup run.catalog)
      <4>1. m \in removed \ hidden /\ m \in known' \ run.catalog /\ m \in Models
        BY <3>2, <2>3, <1>1, <1>2
      <4>2. missed[m] >= AbsenceLimit
        BY <4>1
      <4> QED
        BY <4>1, <4>2, <3>2, <1>1, <1>2
    <3> QED
      BY <2>1, <2>3, <3>1, <3>2
  <2> QED
    BY <2>2, <2>3
<1> QED
  BY <1>3, <1>4

\* No other step marks a model removed unless a keyword does, and no other
\* step touches the evidence.
LEMMA StepAbsence == IInv /\ AbsenceInv /\ [Next]_vars => AbsenceInv'
<1> SUFFICES ASSUME IInv, AbsenceInv, [Next]_vars PROVE AbsenceInv'
  OBVIOUS
<1> USE DEF AbsenceInv, RemovedOnlyAfterThree
<1>1. run.affected \subseteq Models /\ run \in RunType
  BY DEF IInv, TypeOK, RunType
<1>2. CASE ApplyCollection
  BY <1>2, ApplyAbsence
<1>3. CASE HideBlocked
  BY <1>3, <1>1 DEF HideBlocked, RunType
<1>4. CASE Restart
  BY <1>4 DEF Restart, EmptyRun
<1>5. CASE ~ApplyCollection /\ ~HideBlocked /\ ~Restart
  <2>1. UNCHANGED <<absent, missed, removed, hidden>>
    BY <1>5, NextActions DEF Actions, vars, rows, history, Begin, Collect,
       PreviewModel, Previewed, BeginRefresh, WriteRefresh, HidingFails, Finish,
       Abandon, SetBlocked, CreateRule, UpdateRule, DeleteRule, ListRules,
       SwapEngine, ListTargets, RefreshAllMatches, EndReload
  <2>2. run'.affected = run.affected
    <3>1. CASE Begin \/ Abandon
      BY <3>1 DEF Begin, Abandon, EmptyRun
    <3>2. CASE Collect \/ PreviewModel \/ BeginRefresh \/ WriteRefresh \/ HidingFails
      BY <3>2, <1>1 DEF Collect, PreviewModel, BeginRefresh, WriteRefresh,
         HidingFails, RunType
    <3>3. CASE UNCHANGED run
      BY <3>3
    <3> QED
      BY <1>5, <3>1, <3>2, <3>3, NextActions DEF Actions, vars, rows, history,
         Previewed, Finish, SetBlocked, CreateRule, UpdateRule, DeleteRule,
         ListRules, SwapEngine, ListTargets, RefreshAllMatches, EndReload
  <2> QED
    BY <2>1, <2>2
<1> QED
  BY <1>2, <1>3, <1>4, <1>5

\* A model is removed only after three complete catalogs in a row have left it
\* out, whatever fails or restarts in between, or by an administrator's keyword.
THEOREM RemovalNeedsThree == Spec => []RemovedOnlyAfterThree
<1>1. Init => AbsenceInv
  BY DEF Init, AbsenceInv, RemovedOnlyAfterThree
<1>2. AbsenceInv => RemovedOnlyAfterThree
  BY DEF AbsenceInv
<1> QED
  BY <1>1, <1>2, TypesAlways, StepAbsence, PTL DEF Spec

(***************************************************************************)
(* Blocked models                                                          *)
(***************************************************************************)

\* A run is a success from its removal of the blocked models on, and nothing
\* but the next run admits a model.
LEMMA StepHidden == IInv /\ HiddenInv /\ [Next]_vars => HiddenInv'
<1> SUFFICES ASSUME IInv, HiddenInv, [Next]_vars PROVE HiddenInv'
  OBVIOUS
<1> USE DEF HiddenInv, Present
<1>1. run \in RunType
  BY DEF IInv, TypeOK, RunType
<1>2. CASE HideBlocked
  BY <1>2, <1>1 DEF HideBlocked, RunType
<1>3. CASE ApplyCollection
  BY <1>3 DEF ApplyCollection, EmptyRun
<1>4. CASE Begin \/ Abandon \/ Restart
  <2>1. run'.status \in {"running", "failed", "none"}
    <3>1. CASE Begin
      BY <3>1 DEF Begin, EmptyRun
    <3>2. CASE Abandon
      BY <3>2 DEF Abandon, EmptyRun
    <3>3. CASE Restart
      BY <3>3 DEF Restart, EmptyRun
    <3> QED
      BY <1>4, <3>1, <3>2, <3>3
  <2> QED
    BY <2>1
<1>5. CASE Collect \/ PreviewModel \/ BeginRefresh \/ WriteRefresh
  <2>1. run.status # "success"
    BY <1>5 DEF Collect, PreviewModel, BeginRefresh, WriteRefresh
  <2>2. run'.status = run.status
    BY <1>5, <1>1 DEF Collect, PreviewModel, BeginRefresh, WriteRefresh, RunType
  <2> QED
    BY <2>1, <2>2
<1>6. CASE HidingFails
  BY <1>6, <1>1 DEF HidingFails, RunType
<1>7. CASE Previewed \/ Finish
  BY <1>7 DEF Previewed, Finish, rows, history
<1>8. CASE UNCHANGED <<pc, run, known, removed>>
  BY <1>8
<1> QED
  BY <1>2, <1>3, <1>4, <1>5, <1>6, <1>7, <1>8, NextActions DEF Actions, vars,
     rows, history, SetBlocked, CreateRule, UpdateRule, DeleteRule, ListRules,
     SwapEngine, ListTargets, RefreshAllMatches, EndReload

\* After a successful run the blocked models its source listed are off the
\* dashboard, and no edit or reload of the rules brings them back.
THEOREM BlockedGone == Spec => []BlockedStaysHidden
<1>1. Init => HiddenInv
  BY DEF Init, HiddenInv, EmptyRun
<1>2. HiddenInv => BlockedStaysHidden
  BY DEF HiddenInv, BlockedStaysHidden, Public
<1> QED
  BY <1>1, <1>2, TypesAlways, StepHidden, PTL DEF Spec

(***************************************************************************)
(* Matches and rules                                                       *)
(***************************************************************************)

\* Matches stay right while nothing they depend on changes.
LEMMA MatchUnchanged ==
  ASSUME MatchInv,
         UNCHANGED <<rules, known, removed, matches, primary, engine, lent,
                     reload, settled, contested>>,
         run'.affected = run.affected,
         \/ ~Refreshing /\ pc' \notin {"refresh", "write"}
         \/ pc' = pc /\ run' = run
  PROVE  MatchInv'
<1>1. Present' = Present
  BY DEF Present
<1>2. \A m : Follows(m)' <=> Follows(m)
  BY DEF Follows, Preview
<1>3. LentInv'
  BY <1>1 DEF MatchInv, LentInv, Refreshing
<1>4. SettledInv' /\ AloneInv'
  BY DEF MatchInv, SettledInv, AloneInv
<1>5. CoverInv' /\ MatchesFollowRules'
  <2>1. ~(pc' \in {"refresh", "write"}) => ~Refreshing
    BY DEF Refreshing
  <2> QED
    BY <1>1, <1>2, <2>1 DEF MatchInv, CoverInv, MatchesFollowRules, Refreshing
<1> QED
  BY <1>3, <1>4, <1>5 DEF MatchInv

\* A refresh with the rules of the database makes its targets follow them.
LEMMA RefreshFollows ==
  ASSUME NEW targets \in SUBSET Models, RefreshMatches(rules, targets), rules' = rules
  PROVE  \A m \in targets : Follows(m)'
  BY DEF RefreshMatches, Follows, Preview

\* The start of a reload contests all others, itself included when there are any.
LEMMA StartMatch ==
  ASSUME IInv, MatchInv, NEW a \in Admins, StartReload(a),
         UNCHANGED <<known, removed, engine, pc, run, lent>>
  PROVE  MatchInv'
<1>1. reload' = [reload EXCEPT ![a].at = "list"] /\ reload[a].at = "idle"
      /\ reload \in [Admins -> ReloadType]
  BY DEF StartReload, IInv, TypeOK, ReloadType
<1>2. reload'[a].at = "list" /\ \A b \in Admins \ {a} : reload'[b] = reload[b]
  BY <1>1 DEF ReloadType
<1>3. LentInv'
  BY DEF MatchInv, LentInv, Present
<1>4. SettledInv' /\ MatchesFollowRules'
  BY DEF StartReload, SettledInv, MatchesFollowRules
<1>5. \A b \in Admins \ contested' : reload'[b].at # "idle"
          => b = a /\ Reloading = {}
  BY <1>2 DEF StartReload, Reloading
<1>6. AloneInv' /\ CoverInv'
  BY <1>2, <1>5 DEF AloneInv, CoverInv, Reloading
<1> QED
  BY <1>3, <1>4, <1>6 DEF MatchInv

\* Every step keeps the match rows and the engine they were computed with.
LEMMA StepMatch == IInv /\ MatchInv /\ [Next]_vars => MatchInv'
<1> SUFFICES ASSUME IInv, MatchInv, [Next]_vars PROVE MatchInv'
  OBVIOUS
<1>a. /\ run \in RunType /\ reload \in [Admins -> ReloadType]
      /\ Present \in SUBSET Models
      /\ pc = "write" <=> lent # NoEngine
  BY DEF IInv, TypeOK, RunType, ReloadType, Present
<1>1. CASE \/ UNCHANGED vars \/ SetBlocked
           \/ Begin \/ Collect \/ PreviewModel \/ Previewed \/ HidingFails \/ Finish
  <2>1. UNCHANGED <<rules, known, removed, matches, primary, engine, lent,
                    reload, settled, contested>>
    BY <1>1 DEF vars, rows, history, SetBlocked, Begin, Collect, PreviewModel,
       Previewed, HidingFails, Finish
  <2>2. run'.affected = run.affected
    <3>1. CASE Begin
      BY <3>1 DEF Begin, EmptyRun
    <3>2. CASE Collect \/ PreviewModel \/ HidingFails
      BY <3>2, <1>a DEF Collect, PreviewModel, HidingFails, RunType
    <3> QED
      BY <1>1, <3>1, <3>2 DEF vars, SetBlocked, Previewed, Finish
  <2>3. \/ ~Refreshing /\ pc' \notin {"refresh", "write"}
        \/ pc' = pc /\ run' = run
    BY <1>1 DEF Refreshing, vars, SetBlocked, Begin, Collect, PreviewModel,
       Previewed, HidingFails, Finish
  <2> QED
    BY <2>1, <2>2, <2>3, MatchUnchanged
<1>2. CASE ApplyCollection
  BY <1>2 DEF ApplyCollection, MatchInv, LentInv, SettledInv, AloneInv, CoverInv,
     MatchesFollowRules, Refreshing
<1>3. CASE BeginRefresh
  <2>1. /\ lent' = engine' /\ pc' = "write"
        /\ run'.todo = run'.affected \cap Present'
        /\ UNCHANGED <<rules, engine, reload, settled, contested>>
    BY <1>3, <1>a DEF BeginRefresh, Present, RunType, rows, history
  <2> QED
    BY <2>1 DEF MatchInv, LentInv, SettledInv, AloneInv, CoverInv,
       MatchesFollowRules, Refreshing
<1>4. CASE WriteRefresh
  <2>1. /\ lent = engine /\ run.todo = run.affected \cap Present
        /\ RefreshMatches(engine, run.todo) /\ pc' = "hide"
        /\ run'.affected = run.affected /\ Present' = Present
        /\ UNCHANGED <<rules, engine, reload, settled, contested>>
    BY <1>4, <1>a DEF WriteRefresh, MatchInv, LentInv, Present, RunType, history
  <2>2. engine = rules => \A m \in run'.affected \cap Present' : Follows(m)'
    <3> SUFFICES ASSUME engine = rules
                 PROVE  \A m \in run.todo : Follows(m)'
      BY <2>1
    <3>1. run.todo \in SUBSET Models
      BY <1>a DEF RunType
    <3>2. RefreshMatches(rules, run.todo)
      BY <2>1
    <3> QED
      BY <2>1, <3>1, <3>2, RefreshFollows
  <2>3. SettledInv' /\ AloneInv' /\ LentInv'
    BY <2>1 DEF MatchInv, SettledInv, AloneInv, LentInv
  <2>4. CoverInv'
    BY <2>1, <2>2 DEF MatchInv, AloneInv, CoverInv
  <2>5. MatchesFollowRules'
    BY <2>1, <2>2 DEF MatchInv, SettledInv, MatchesFollowRules
  <2> QED
    BY <2>3, <2>4, <2>5 DEF MatchInv
<1>5. CASE HideBlocked
  <2>1. /\ Present' \subseteq Present /\ run'.affected = run.affected
        /\ pc = "hide" /\ pc' = "finish"
        /\ UNCHANGED <<rules, engine, reload, settled, contested>>
    BY <1>5, <1>a DEF HideBlocked, Present, RunType
  <2>2. ASSUME NEW m \in Present', Follows(m)
        PROVE  Follows(m)'
    <3> DEFINE out == run.blocked \cap known
    <3>1. removed' = removed \cup out /\ DeleteMatches(out) /\ known' = known
      BY <1>5 DEF HideBlocked
    <3>2. m \in Models /\ m \notin out
      BY <2>1, <2>2, <3>1, <1>a DEF Present
    <3> HIDE DEF out
    <3>3. matches'[m] = matches[m] /\ (m \in primary' <=> m \in primary)
      BY <3>1, <3>2 DEF DeleteMatches
    <3>4. Preview(rules', m) = Preview(rules, m)
      BY <2>1
    <3> QED
      BY <2>2, <3>3, <3>4 DEF Follows, Preview
  <2> QED
    BY <2>1, <2>2 DEF MatchInv, LentInv, SettledInv, AloneInv, CoverInv,
       MatchesFollowRules, Refreshing
<1>6. CASE Abandon
  <2>1. /\ run'.affected = run.affected /\ pc' = "idle"
        /\ UNCHANGED <<rules, known, removed, matches, primary, engine, reload>>
    BY <1>6 DEF Abandon, EmptyRun, rows
  <2>2. CASE Refreshing
    <3>1. settled' = FALSE /\ \A a \in Admins \ contested' : reload[a].at = "idle"
      BY <1>6, <2>2 DEF Abandon, Refreshing, Reloading
    <3> QED
      BY <2>1, <3>1 DEF MatchInv, LentInv, SettledInv, AloneInv, CoverInv,
         MatchesFollowRules
  <2>3. CASE ~Refreshing
    <3>1. UNCHANGED <<settled, contested, lent>>
      BY <1>6, <2>3, <1>a DEF Abandon, Refreshing
    <3> QED
      BY <2>1, <2>3, <3>1, MatchUnchanged
  <2> QED
    BY <2>2, <2>3
<1>7. CASE Restart
  <2>1. /\ engine' = rules' /\ run'.affected = {} /\ pc' = "idle"
        /\ \A a \in Admins : reload'[a].at = "idle"
    BY <1>7 DEF Restart, EmptyRun, EmptyReload
  <2> QED
    BY <2>1 DEF MatchInv, LentInv, SettledInv, AloneInv, CoverInv,
       MatchesFollowRules
<1>8. ASSUME NEW a \in Admins, CreateRule(a) \/ UpdateRule(a) \/ DeleteRule(a)
      PROVE  MatchInv'
  BY <1>8, StartMatch DEF CreateRule, UpdateRule, DeleteRule
<1>9. ASSUME NEW a \in Admins, ListRules(a) PROVE MatchInv'
  <2>1. /\ reload'[a].at = "swap" /\ reload'[a].listed = rules
        /\ reload[a].at = "list"
        /\ \A b \in Admins \ {a} : reload'[b] = reload[b]
        /\ UNCHANGED <<rows, engine, pc, run, lent, settled, contested>>
    BY <1>9, <1>a DEF ListRules, ReloadType, history
  <2>2. ~settled
    BY <2>1 DEF MatchInv, SettledInv
  <2> QED
    BY <2>1, <2>2 DEF MatchInv, LentInv, SettledInv, AloneInv, CoverInv,
       MatchesFollowRules, Present, Refreshing, Follows, Preview, rows
<1>10. ASSUME NEW a \in Admins, SwapEngine(a) PROVE MatchInv'
  <2>1. /\ reload'[a].at = "targets" /\ reload'[a].listed = reload[a].listed
        /\ reload[a].at = "swap" /\ engine' = reload[a].listed
        /\ pc # "write"
        /\ \A b \in Admins \ {a} : reload'[b] = reload[b]
        /\ UNCHANGED <<rows, pc, run, lent, settled, contested>>
    <3>1. reload' = [reload EXCEPT ![a].at = "targets"] /\ lent = NoEngine
          /\ reload[a].at = "swap" /\ engine' = reload[a].listed
          /\ UNCHANGED <<rows, pc, run, lent, settled, contested>>
      BY <1>10 DEF SwapEngine, history
    <3>2. pc # "write"
      BY <3>1, <1>a
    <3>3. /\ reload'[a].at = "targets" /\ reload'[a].listed = reload[a].listed
          /\ \A b \in Admins \ {a} : reload'[b] = reload[b]
      BY <3>1, <1>a DEF ReloadType
    <3> QED
      BY <3>1, <3>2, <3>3
  <2>2. ~settled
    BY <2>1 DEF MatchInv, SettledInv
  <2>3. \A b \in Admins \ contested : reload'[b].at # "idle" => b = a
    BY <2>1 DEF MatchInv, AloneInv
  <2> QED
    BY <2>1, <2>2, <2>3 DEF MatchInv, LentInv, SettledInv, AloneInv, CoverInv,
       MatchesFollowRules, rows
<1>11. ASSUME NEW a \in Admins, ListTargets(a) PROVE MatchInv'
  <2>1. /\ reload'[a].at = "write" /\ reload'[a].listed = reload[a].listed
        /\ reload'[a].targets = Present /\ reload[a].at = "targets"
        /\ \A b \in Admins \ {a} : reload'[b] = reload[b]
        /\ UNCHANGED <<rows, engine, pc, run, lent, settled, contested>>
    BY <1>11, <1>a DEF ListTargets, ReloadType, history
  <2>2. ~settled
    BY <2>1 DEF MatchInv, SettledInv
  <2>3. \A b \in Admins \ contested : reload'[b].at # "idle" => b = a
    BY <2>1 DEF MatchInv, AloneInv
  <2>4. Present' = Present
    BY <2>1 DEF rows, Present
  <2> QED
    BY <2>1, <2>2, <2>3, <2>4 DEF MatchInv, LentInv, SettledInv, AloneInv,
       CoverInv, MatchesFollowRules, rows
<1>12. ASSUME NEW a \in Admins, RefreshAllMatches(a) PROVE MatchInv'
  <2>1. /\ reload'[a].at = "bump" /\ reload[a].at = "write"
        /\ \A b \in Admins \ {a} : reload'[b] = reload[b]
        /\ settled' = (a \notin contested) /\ Present' = Present
        /\ UNCHANGED <<rules, engine, pc, run, lent, contested>>
    BY <1>12, <1>a DEF RefreshAllMatches, EmptyReload, Present, ReloadType
  <2>2. \A b \in Admins \ contested : reload'[b].at # "idle" => b = a
    BY <2>1 DEF MatchInv, AloneInv
  <2>3. LentInv' /\ CoverInv' /\ AloneInv'
    BY <2>1, <2>2 DEF MatchInv, LentInv, AloneInv, CoverInv
  <2>4. CASE a \in contested
    BY <2>1, <2>3, <2>4 DEF MatchInv, SettledInv, MatchesFollowRules
  <2>5. CASE a \notin contested
    <3>1. /\ engine = rules /\ reload[a].listed = rules
          /\ \A b \in Admins \ {a} : reload[b].at = "idle"
      BY <2>1, <2>5 DEF MatchInv, AloneInv
    <3>2. SettledInv'
      BY <2>1, <3>1 DEF SettledInv
    <3>3. reload[a].targets \in SUBSET Models /\ RefreshMatches(rules, reload[a].targets)
      BY <1>12, <3>1, <1>a DEF RefreshAllMatches, ReloadType
    <3>4. \A m \in reload[a].targets : Follows(m)'
      BY <3>3, <2>1, RefreshFollows
    <3>5. ASSUME NEW m \in (run.affected \cap Present) \ reload[a].targets, ~Refreshing
          PROVE  Follows(m)'
      <4>1. Follows(m)
        BY <3>5, <2>1, <2>5 DEF MatchInv, CoverInv
      <4>2. m \in Models
        BY <3>5, <1>a
      <4>3. matches'[m] = matches[m] /\ (m \in primary' <=> m \in primary)
        BY <3>3, <3>5, <4>2 DEF RefreshMatches
      <4> QED
        BY <4>1, <4>3, <2>1 DEF Follows, Preview
    <3>6. MatchesFollowRules'
      BY <2>1, <3>4, <3>5 DEF MatchesFollowRules, Refreshing
    <3> QED
      BY <2>3, <3>2, <3>6 DEF MatchInv
  <2> QED
    BY <2>4, <2>5
<1>13. ASSUME NEW a \in Admins, EndReload(a) PROVE MatchInv'
  <2>1. /\ reload'[a].at = "idle"
        /\ \A b \in Admins \ {a} : reload'[b] = reload[b]
        /\ UNCHANGED <<rows, engine, pc, run, lent, settled, contested>>
    BY <1>13, <1>a DEF EndReload, EmptyReload, ReloadType, history
  <2>2. LentInv' /\ AloneInv'
    BY <2>1 DEF MatchInv, LentInv, AloneInv, Present, rows
  <2>3. SettledInv'
    BY <2>1 DEF MatchInv, SettledInv, rows
  <2>4. \A m : Follows(m)' <=> Follows(m)
    BY <2>1 DEF Follows, Preview, rows
  <2>5. Present' = Present
    BY <2>1 DEF Present, rows
  <2>6. CoverInv'
    BY <2>1, <2>4, <2>5 DEF MatchInv, CoverInv, Refreshing
  <2>7. MatchesFollowRules'
    BY <2>1, <2>4, <2>5 DEF MatchInv, MatchesFollowRules, Refreshing
  <2> QED
    BY <2>2, <2>3, <2>6, <2>7 DEF MatchInv
<1> QED
  BY <1>1, <1>2, <1>3, <1>4, <1>5, <1>6, <1>7, <1>8, <1>9, <1>10, <1>11, <1>12,
     <1>13, NextActions DEF Actions

\* Once the last edit of a rule was reloaded as a whole, the models of the last
\* collection have the matches the database's rules give them, however reloads
\* and collections were interleaved.
THEOREM MatchesAreCurrent == Spec => []MatchesFollowRules
<1>1. Init => MatchInv
  BY DEF Init, EmptyRun, EmptyReload, MatchInv, LentInv, SettledInv, AloneInv,
     CoverInv, MatchesFollowRules
<1>2. MatchInv => MatchesFollowRules
  BY DEF MatchInv
<1> QED
  BY <1>1, <1>2, TypesAlways, StepMatch, PTL DEF Spec
=============================================================================
