--------------------------- MODULE SourcesProofs ---------------------------
(***************************************************************************)
(* Proofs about the components of Sources: about Sessions, for any sets of *)
(* sites and importers and any number of tokens and faults; about          *)
(* WishPool, for any tables and amounts; and about Quotes, for any price   *)
(* groups.  BillingExpressionProofs is about the fourth component.         *)
(*                                                                         *)
(* Sessions: SessionInv says where a refresh token that somebody may still *)
(* send is (in a row, in the pair a collection is exchanging or saving, in *)
(* an import), that only one of them has it, and that the site accepts it  *)
(* unless it was given up.  The type invariant alone is not inductive: an  *)
(* import exchanges pairs of one kind only, which Usable says.             *)
(*                                                                         *)
(* WishPool: PoolInv adds to the books that money waits for wishes in the  *)
(* table only, so that an id that is given out again starts from nothing.  *)
(*                                                                         *)
(* Quotes: QuotesInv says that collected rows follow the price list, or    *)
(* carry no price because they came before it.  The rest is about the      *)
(* operators: what the loops of LowestAvailable and DirectPrices compute,  *)
(* by the least number of turns for which it would be something else, and  *)
(* that the two decoders of a price list multiply the same numbers.        *)
(***************************************************************************)
EXTENDS Sources, BillingExpressionProofs, FiniteSetTheorems, TLAPS

-----------------------------------------------------------------------------
(* Sessions: types.                                                        *)

USE SessionAssumption, NoneAssumption

\* The steps of a site, an importer and the world, one by one.
SessionActions ==
    \/ Crash
    \/ \E s \in Sites : Start(s)
    \/ \E s \in Sites : Take(s)
    \/ \E s \in Sites : Exchange(s)
    \/ \E s \in Sites : Save(s)
    \/ \E s \in Sites : Request(s)
    \/ \E s \in Sites : DeleteSession(s)
    \/ \E s \in Sites, on \in Switch, login \in BOOLEAN : EditSite(s, on, login)
    \/ \E i \in Importers, s \in Sites : Import(i, s)
    \/ \E i \in Importers : ImportExchange(i)
    \/ \E i \in Importers : SetFlag(i)
    \/ \E i \in Importers : SaveImport(i)
    \/ \E t \in Tokens : GetOlder(t)
    \/ \E t \in Tokens : Reject(t)
    \/ \E t \in Tokens : Revoke(t)

\* A site's mutexes are those it works under.
LockFollows ==
    \A s \in Sites, k \in Kinds :
        lock[k] = s <=> col[s].pc \in {"exchange", "save"} /\ col[s].held.kind = k

\* What is stored, held or imported consists of tokens.
LEMMA TokensOfType ==
    ASSUME NEW d \in Data PROVE TokensOf(d) \subseteq Tokens
  BY DEF Data, Pair, Static, TokensOf, Kinds

\* Everything in a row, a collection or an import is a token.
LEMMA InUseAreTokens ==
    ASSUME TypeOK PROVE InUse \subseteq Tokens
<1>1. \A s \in Sites : vault[s] # NoData => TokensOf(vault[s]) \subseteq Tokens
  BY TokensOfType DEF TypeOK
<1>2. \A s \in Sites : col[s] # IdleCol => TokensOf(col[s].held) \subseteq Tokens
  <2>1. \A s \in Sites : col[s] # IdleCol => col[s].held \in Data
    BY DEF TypeOK, Col, Data
  <2> QED BY <2>1, TokensOfType
<1>3. \A i \in Importers : imp[i] # IdleImp => TokensOf(imp[i].data) \subseteq Tokens
  <2>1. \A i \in Importers : imp[i] # IdleImp => imp[i].data \in Data
    BY DEF TypeOK, Imp
  <2> QED BY <2>1, TokensOfType
<1> QED BY <1>1, <1>2, <1>3 DEF InUse

\* A step is a step of one named action.
LEMMA SessionsNextSplits ==
    ASSUME TypeOK, Next PROVE SessionActions
  BY InUseAreTokens DEF Next, SessionActions

\* The stages of a collection, and what it holds in each.
LEMMA Stages ==
    /\ IdleCol \in Col
    /\ \A d \in Data : [pc |-> "request", held |-> d] \in Col
    /\ \A d \in Pair, f \in BOOLEAN : [pc |-> "lock", held |-> d, force |-> f] \in Col
    /\ \A d, e \in Pair, f \in BOOLEAN :
          [pc |-> "exchange", held |-> d, force |-> f, cur |-> e] \in Col
    /\ \A d, e \in Pair, f \in BOOLEAN, r \in Tokens :
          [pc |-> "save", held |-> d, force |-> f, cur |-> e, from |-> r] \in Col
  BY DEF Col, IdleCol

\* What a collection holds in each of its stages.
LEMMA Held ==
    ASSUME NEW c \in Col
    PROVE  /\ c.pc \in {"idle", "request", "lock", "exchange", "save"}
           /\ c.pc = "idle" <=> c = IdleCol
           /\ c # IdleCol => c.held \in Data
           /\ c.pc \in {"lock", "exchange", "save"} => c.held \in Pair /\ c.force \in BOOLEAN
           /\ c.pc \in {"exchange", "save"} => c.cur \in Pair
           /\ c.pc = "save" => c.from \in Tokens
  BY DEF Col, IdleCol, Data

\* Credentials: a pair or one that is never renewed, told apart by their kind.
LEMMA Kept ==
    /\ \A d \in Pair : d \in Data /\ d.kind \in Kinds /\ d.access \in Tokens /\ d.refresh \in Tokens
    /\ \A d \in Data : \/ d \in Pair
                       \/ d.kind = "static" /\ d.access \in Tokens
    /\ \A d \in Data : d.kind \in Kinds => d \in Pair
    /\ NoData.kind \notin Kinds /\ NoData.kind # "static" /\ "static" \notin Kinds
    /\ \A d \in Data : d # NoData
    /\ \A k \in Kinds, a, r \in Tokens : [kind |-> k, access |-> a, refresh |-> r] \in Pair
    /\ \A a \in Tokens : [kind |-> "static", access |-> a] \in Data
  BY DEF Pair, Data, Static, Kinds, NoData

\* It works under the mutex of that kind.
Turns(c, k) == c.pc \in {"exchange", "save"} /\ c.held.kind = k

\* A collection that goes on under the same mutexes.
LEMMA GoesOn ==
    ASSUME TypeOK, NEW s \in Sites, NEW c \in Col, Goto(s, c), UNCHANGED lock,
           \A k \in Kinds : Turns(c, k) <=> Turns(col[s], k)
    PROVE  col' \in [Sites -> Col] /\ LockFollows'
<1>1. col' = [col EXCEPT ![s] = c] /\ lock' = lock /\ col \in [Sites -> Col]
  BY DEF Goto, TypeOK
<1>2. \A t \in Sites, k \in Kinds : lock[k] = t <=> Turns(col[t], k)
  BY DEF TypeOK, Turns
<1>3. \A t \in Sites, k \in Kinds : Turns(col'[t], k) <=> Turns(col[t], k)
  BY <1>1 DEF Turns
<1> QED BY <1>1, <1>2, <1>3 DEF Turns, LockFollows

\* A collection that takes the mutex of its pair's kind.
LEMMA GoesIn ==
    ASSUME TypeOK, NEW s \in Sites, NEW c \in Col, Goto(s, c), NEW k \in Kinds,
           Turns(c, k), lock[k] = None, lock' = [lock EXCEPT ![k] = s],
           col[s].pc \notin {"exchange", "save"}
    PROVE  col' \in [Sites -> Col] /\ LockFollows' /\ lock' \in [Kinds -> Sites \cup {None}]
<1>1. /\ col' = [col EXCEPT ![s] = c] /\ col \in [Sites -> Col]
      /\ lock \in [Kinds -> Sites \cup {None}]
  BY DEF Goto, TypeOK
<1>2. \A t \in Sites, j \in Kinds : lock[j] = t <=> Turns(col[t], j)
  BY DEF TypeOK, Turns
<1>3. \A t \in Sites, j \in Kinds : lock'[j] = t <=> Turns(col'[t], j)
  BY <1>1, <1>2 DEF Turns
<1> QED BY <1>1, <1>3 DEF Turns, LockFollows

\* A collection that gives it back.
LEMMA GoesOut ==
    ASSUME TypeOK, NEW s \in Sites, NEW c \in Col, Goto(s, c), NEW k \in Kinds,
           c.pc \notin {"exchange", "save"}, Turns(col[s], k),
           lock' = [lock EXCEPT ![k] = None]
    PROVE  col' \in [Sites -> Col] /\ LockFollows' /\ lock' \in [Kinds -> Sites \cup {None}]
<1>1. /\ col' = [col EXCEPT ![s] = c] /\ col \in [Sites -> Col]
      /\ lock \in [Kinds -> Sites \cup {None}]
  BY DEF Goto, TypeOK
<1>2. \A t \in Sites, j \in Kinds : lock[j] = t <=> Turns(col[t], j)
  BY DEF TypeOK, Turns
<1>3. \A t \in Sites, j \in Kinds : lock'[j] = t <=> Turns(col'[t], j)
  BY <1>1, <1>2 DEF Turns
<1> QED BY <1>1, <1>3 DEF Turns, LockFollows

\* What nobody but a collection changes.
RestType ==
    /\ vault \in [Sites -> {NoData} \cup Data]
    /\ required \in [Sites -> BOOLEAN] /\ enabled \in [Sites -> BOOLEAN]
    /\ issued \in 0..MaxToken
    /\ live \subseteq 1..issued /\ good \subseteq 1..issued
    /\ age \in [Tokens -> Age]
    /\ imp \in [Importers -> Imp]
    /\ used \subseteq Tokens /\ replayed \subseteq used
    /\ orphaned \subseteq Tokens /\ cleared \subseteq Sites
    /\ faults \in 0..MaxFaults
ColType == col \in [Sites -> Col] /\ lock \in [Kinds -> Sites \cup {None}] /\ LockFollows

\* The type invariant, cut where collections begin.
LEMMA TypeParts == TypeOK <=> RestType /\ ColType
  BY DEF TypeOK, RestType, ColType, LockFollows

\* The same of the next state.
LEMMA TypePartsNext == TypeOK' <=> RestType' /\ ColType'
  BY DEF TypeOK, RestType, ColType, LockFollows

\* A crash ends every collection and import; what they were about to save is given up.
LEMMA CrashType == ASSUME TypeOK, Crash PROVE TypeOK'
<1>1. RestType'
  <2>1. imp' \in [Importers -> Imp]
    BY DEF Crash, Imp
  <2>2. orphaned' \subseteq Tokens
    BY Held DEF Crash, TypeOK
  <2>3. faults' \in 0..MaxFaults
    BY DEF Crash, Fault, TypeOK
  <2> QED BY <2>1, <2>2, <2>3 DEF TypeOK, RestType, Crash, rows, site
<1>2. ColType'
  BY Stages DEF TypeOK, Crash, ColType, LockFollows, IdleCol
<1> QED BY <1>1, <1>2, TypePartsNext

\* A collection starts with what is stored.
LEMMA StartType == ASSUME TypeOK, NEW s \in Sites, Start(s) PROVE TypeOK'
<1> DEFINE c == IF vault[s].kind \in Kinds /\ age[vault[s].access] # "fresh"
                 THEN [pc |-> "lock", held |-> vault[s], force |-> FALSE]
                 ELSE [pc |-> "request", held |-> vault[s]]
<1>1. Goto(s, c) /\ UNCHANGED lock /\ RestType'
  BY DEF Start, rows, site, history, TypeOK, RestType
<1>2. vault[s] \in Data
  BY DEF Start, TypeOK
<1>3. c \in Col
  BY <1>2, Stages, Kept
<1>4. c.pc \notin {"exchange", "save"} /\ col[s].pc \notin {"exchange", "save"}
  BY DEF Start, IdleCol
<1>5. \A k \in Kinds : Turns(c, k) <=> Turns(col[s], k)
  BY <1>4 DEF Turns
<1> HIDE DEF c
<1>6. col' \in [Sites -> Col] /\ LockFollows'
  BY <1>1, <1>3, <1>5, GoesOn
<1>7. lock' \in [Kinds -> Sites \cup {None}]
  BY <1>1 DEF TypeOK
<1> QED BY <1>1, <1>6, <1>7, TypePartsNext DEF ColType

\* A collection that got the mutex reads the row again.
LEMMA TakeType == ASSUME TypeOK, NEW s \in Sites, Take(s) PROVE TypeOK'
<1> DEFINE c == col[s]
           k == c.held.kind
           latest == vault[s]
           usable == /\ latest.kind = k
                     /\ \/ age[latest.access] = "fresh" /\ ~c.force
                        \/ /\ k = "sub2api" /\ latest.refresh # c.held.refresh
                           /\ age[latest.access] # "past"
           on == [pc |-> "request", held |-> IF c.force THEN c.held ELSE latest]
           in == [pc |-> "exchange", held |-> c.held, force |-> c.force,
                  cur |-> IF latest.kind = k THEN latest ELSE c.held]
<1>1. c.pc = "lock" /\ lock[k] = None
      /\ IF usable THEN Goto(s, on) /\ UNCHANGED lock
         ELSE Goto(s, in) /\ lock' = [lock EXCEPT ![k] = s]
  BY DEF Take, With
<1>2. RestType'
  BY DEF Take, rows, site, history, TypeOK, RestType
<1>3. c.held \in Pair /\ c.force \in BOOLEAN /\ k \in Kinds
  BY <1>1, Held, Kept DEF TypeOK
<1>4. latest.kind = k => latest \in Pair
  BY <1>3, Kept DEF TypeOK
<1>5. CASE usable
  <2>1. on \in Col
    BY <1>3, <1>4, <1>5, Kept, Stages
  <2>2. \A j \in Kinds : Turns(on, j) <=> Turns(c, j)
    BY <1>1 DEF Turns
  <2>3. Goto(s, on) /\ lock' = lock
    BY <1>1, <1>5
  <2> HIDE DEF on
  <2>4. col' \in [Sites -> Col] /\ LockFollows'
    BY <2>1, <2>2, <2>3, GoesOn
  <2> QED BY <1>2, <2>3, <2>4, TypePartsNext DEF ColType, TypeOK
<1>6. CASE ~usable
  <2>1. in \in Col
    BY <1>3, <1>4, Stages
  <2>2. Turns(in, k)
    BY DEF Turns
  <2>3. Goto(s, in) /\ lock' = [lock EXCEPT ![k] = s]
    BY <1>1, <1>6
  <2> HIDE DEF in, k
  <2>4. col' \in [Sites -> Col] /\ LockFollows' /\ lock' \in [Kinds -> Sites \cup {None}]
    BY <1>1, <1>3, <2>1, <2>2, <2>3, GoesIn
  <2> QED BY <1>2, <2>4, TypePartsNext DEF ColType
<1> QED BY <1>5, <1>6

\* An exchange has issued at most one pair.
IssueType ==
    /\ issued' \in {issued, Fresh} /\ issued' <= MaxToken
    /\ live' \subseteq live \cup {Fresh} /\ good' \subseteq good \cup {Fresh}
    /\ issued' = issued => live' \subseteq live /\ good' \subseteq good

\* A new pair keeps the counters and sets of the site in their types.
LEMMA IssueRest ==
    ASSUME TypeOK, IssueType
    PROVE  /\ issued' \in 0..MaxToken
           /\ live' \subseteq 1..issued' /\ good' \subseteq 1..issued'
           /\ issued' = Fresh => Fresh \in Tokens
  BY DEF TypeOK, IssueType, Fresh, Tokens

\* A request to exchange a token, answered, lost or refused.
LEMMA ExchangeTokenType ==
    ASSUME TypeOK, NEW r \in Tokens, NEW pass, NEW fail, ExchangeToken(r, pass, fail)
    PROVE  /\ IssueType
           /\ used' \subseteq Tokens /\ replayed' \subseteq used' /\ orphaned' \subseteq Tokens
           /\ faults' \in 0..MaxFaults
           /\ fail \/ (pass /\ issued' = Fresh)
<1>1. IssueType
  BY DEF ExchangeToken, Issue, IssueType, TypeOK, Fresh
<1>2. used' \subseteq used \cup {r} /\ used \subseteq used' /\ replayed' \subseteq replayed \cup used
      /\ orphaned' \subseteq orphaned \cup {r}
  BY DEF ExchangeToken
<1>3. faults' \in 0..MaxFaults
  BY DEF ExchangeToken, Fault, TypeOK
<1>4. fail \/ (pass /\ issued' = Fresh)
  BY DEF ExchangeToken, Issue, Fresh
<1> QED BY <1>1, <1>2, <1>3, <1>4 DEF TypeOK

\* A request with a cookie that the site may renew.
LEMMA RefreshCookieType ==
    ASSUME TypeOK, NEW r \in Tokens, NEW keep, NEW pass, NEW fail, RefreshCookie(r, keep, pass, fail)
    PROVE  /\ IssueType
           /\ UNCHANGED <<used, replayed, orphaned>>
           /\ faults' \in 0..MaxFaults
           /\ fail \/ (pass /\ issued' = Fresh)
  BY DEF RefreshCookie, IssueType, TypeOK, Fresh, Fault

\* The exchange of a collection.
LEMMA ExchangeType == ASSUME TypeOK, NEW s \in Sites, Exchange(s) PROVE TypeOK'
<1> DEFINE c == col[s]
           k == c.held.kind
           out(x) == [pc |-> "save", held |-> c.held, force |-> c.force,
                      cur |-> [kind |-> c.cur.kind, access |-> Fresh, refresh |-> x],
                      from |-> c.cur.refresh]
<1>1. c.pc = "exchange" /\ c.held \in Pair /\ c.cur \in Pair /\ c.force \in BOOLEAN
      /\ k \in Kinds /\ c.cur.kind \in Kinds /\ c.cur.refresh \in Tokens
  <2>1. c.pc = "exchange" /\ c \in Col
    BY DEF Exchange, TypeOK
  <2> QED BY <2>1, Held, Kept
<1>2. \E x \in Tokens \cup {Fresh} :
         /\ IssueType
         /\ used' \subseteq Tokens /\ replayed' \subseteq used' /\ orphaned' \subseteq Tokens
         /\ faults' \in 0..MaxFaults
         /\ \/ Fail(s)
            \/ ToSave(s, x) /\ issued' = Fresh
  <2>1. CASE k = "sub2api" /\ ExchangeToken(c.cur.refresh, ToSave(s, Fresh), Fail(s))
    BY <2>1, <1>1, ExchangeTokenType
  <2>2. CASE \E keep \in BOOLEAN : RefreshCookie(c.cur.refresh, keep,
                    ToSave(s, CookieAfter(keep, c.cur.refresh)), Fail(s))
    <3>1. PICK keep \in BOOLEAN : RefreshCookie(c.cur.refresh, keep,
                    ToSave(s, CookieAfter(keep, c.cur.refresh)), Fail(s))
      BY <2>2
    <3>2. CookieAfter(keep, c.cur.refresh) \in Tokens \cup {Fresh}
      BY <1>1 DEF CookieAfter
    <3>3. /\ IssueType
          /\ UNCHANGED <<used, replayed, orphaned>>
          /\ faults' \in 0..MaxFaults
          /\ Fail(s) \/ (ToSave(s, CookieAfter(keep, c.cur.refresh)) /\ issued' = Fresh)
      BY <3>1, <1>1, RefreshCookieType
    <3> QED BY <3>2, <3>3 DEF TypeOK
  <2> QED BY <2>1, <2>2 DEF Exchange
<1>3. PICK x \in Tokens \cup {Fresh} :
         /\ IssueType
         /\ used' \subseteq Tokens /\ replayed' \subseteq used' /\ orphaned' \subseteq Tokens
         /\ faults' \in 0..MaxFaults
         /\ \/ Fail(s)
            \/ ToSave(s, x) /\ issued' = Fresh
  BY <1>2
<1>4. RestType'
  BY <1>3, IssueRest DEF Exchange, rows, TypeOK, RestType
<1>5. Turns(c, k)
  BY <1>1 DEF Turns
<1>6. CASE Fail(s)
  <2>1. Goto(s, IdleCol) /\ lock' = [lock EXCEPT ![k] = None] /\ IdleCol.pc \notin {"exchange", "save"}
    BY <1>6 DEF Fail, IdleCol
  <2>2. col' \in [Sites -> Col] /\ LockFollows' /\ lock' \in [Kinds -> Sites \cup {None}]
    BY <1>1, <1>5, <2>1, Stages, GoesOut
  <2> QED BY <1>4, <2>2, TypePartsNext DEF ColType
<1>7. CASE ToSave(s, x) /\ issued' = Fresh
  <2>1. Goto(s, out(x)) /\ lock' = lock
    BY <1>7 DEF ToSave
  <2>2. Fresh \in Tokens /\ x \in Tokens
    BY <1>3, <1>7, IssueRest
  <2>3. out(x) \in Col
    BY <1>1, <2>2, Stages, Kept
  <2>4. \A j \in Kinds : Turns(out(x), j) <=> Turns(c, j)
    BY <1>1 DEF Turns
  <2> HIDE DEF out
  <2>5. col' \in [Sites -> Col] /\ LockFollows'
    BY <2>1, <2>3, <2>4, GoesOn
  <2> QED BY <1>4, <2>1, <2>5, TypePartsNext DEF ColType, TypeOK
<1> QED BY <1>3, <1>6, <1>7

\* The write of what the exchange returned, or its failure.
LEMMA SaveType == ASSUME TypeOK, NEW s \in Sites, Save(s) PROVE TypeOK'
<1> DEFINE c == col[s]
           k == c.held.kind
           next == [pc |-> "request", held |-> IF c.force THEN c.held ELSE c.cur]
<1>1. /\ c.pc = "save" /\ c.held \in Pair /\ c.cur \in Pair /\ c.force \in BOOLEAN
      /\ c.from \in Tokens /\ k \in Kinds
  <2>1. c.pc = "save" /\ c \in Col
    BY DEF Save, TypeOK
  <2> QED BY <2>1, Held, Kept
<1>2. RestType'
  <2>1. c.cur \in Data
    BY <1>1, Kept
  <2> QED BY <1>1, <2>1 DEF Save, Fault, site, TypeOK, RestType
<1>3. lock' = [lock EXCEPT ![k] = None] /\ (Goto(s, next) \/ Goto(s, IdleCol))
  BY DEF Save, With
<1>4. Turns(c, k) /\ next \in Col /\ IdleCol \in Col
      /\ next.pc \notin {"exchange", "save"} /\ IdleCol.pc \notin {"exchange", "save"}
  BY <1>1, Stages, Kept DEF Turns, IdleCol
<1> HIDE DEF next
<1>5. col' \in [Sites -> Col] /\ LockFollows' /\ lock' \in [Kinds -> Sites \cup {None}]
  BY <1>1, <1>3, <1>4, GoesOut
<1> QED BY <1>2, <1>5, TypePartsNext DEF ColType

\* The requests for data at the end of a collection.
LEMMA RequestType == ASSUME TypeOK, NEW s \in Sites, Request(s) PROVE TypeOK'
<1> DEFINE d == col[s].held
           again == [pc |-> "lock", held |-> d, force |-> TRUE]
<1>1. /\ col[s].pc = "request" /\ col[s] # IdleCol /\ d \in Data
      /\ UNCHANGED lock
      /\ \/ d.kind = "sub2api" /\ Goto(s, again)
         \/ Goto(s, IdleCol)
  <2>1. col[s].pc = "request" /\ col[s] \in Col
    BY DEF Request, TypeOK
  <2> QED BY <2>1, Held DEF Request
<1>2. RestType'
  BY DEF Request, rows, site, history, TypeOK, RestType
<1>3. \A c \in {again, IdleCol} : \A k \in Kinds : Turns(c, k) <=> Turns(col[s], k)
  BY <1>1 DEF Turns, IdleCol
<1>4. d.kind = "sub2api" => again \in Col
  BY <1>1, Kept, Stages DEF Kinds
<1> HIDE DEF again
<1>5. col' \in [Sites -> Col] /\ LockFollows'
  BY <1>1, <1>3, <1>4, Stages, GoesOn
<1> QED BY <1>1, <1>2, <1>5, TypePartsNext DEF ColType, TypeOK

\* Nothing about collections has changed.
LEMMA ColTypeStays ==
    ASSUME TypeOK, UNCHANGED <<col, lock>> PROVE ColType'
  BY DEF TypeOK, ColType, LockFollows

\* The stages of an import, and what it carries.
LEMMA Imports ==
    /\ IdleImp \in Imp
    /\ \A r \in Imp : r # IdleImp =>
          /\ r.step \in {"exchange", "flag", "save"} /\ r.site \in Sites /\ r.data \in Data
          /\ r.required \in BOOLEAN /\ r.enabled \in BOOLEAN
          /\ \A d \in Data, t \in {"exchange", "flag", "save"} :
                [step |-> t, site |-> r.site, data |-> d, required |-> r.required,
                 enabled |-> r.enabled] \in Imp
    /\ \A r \in Imp : r.step = "idle" <=> r = IdleImp
  BY DEF Imp, IdleImp

\* An import's record with another step.
LEMMA StepOn ==
    ASSUME NEW r \in Imp, r # IdleImp, NEW t \in {"exchange", "flag", "save"}
    PROVE  [r EXCEPT !.step = t] = [step |-> t, site |-> r.site, data |-> r.data,
                                    required |-> r.required, enabled |-> r.enabled]
  BY DEF Imp

\* An import is checked and starts.
LEMMA ImportType ==
    ASSUME TypeOK, NEW i \in Importers, NEW s \in Sites, Import(i, s) PROVE TypeOK'
<1>1. PICK kind \in Kinds \cup {"static"}, a \in {"fresh", "past"}, step \in {"exchange", "flag"} :
          /\ age' = [age EXCEPT ![Fresh] = a]
          /\ imp' = [imp EXCEPT ![i] =
                [step |-> step, site |-> s, required |-> required[s],
                 enabled |-> enabled[s],
                 data |-> IF kind = "static" THEN [kind |-> kind, access |-> Fresh]
                          ELSE [kind |-> kind, access |-> Fresh, refresh |-> Fresh]]]
  BY DEF Import
<1> DEFINE d == IF kind = "static" THEN [kind |-> kind, access |-> Fresh]
                ELSE [kind |-> kind, access |-> Fresh, refresh |-> Fresh]
           r == [step |-> step, site |-> s, required |-> required[s],
                 enabled |-> enabled[s], data |-> d]
<1>2. Fresh \in Tokens /\ issued' = Fresh /\ issued' \in 0..MaxToken
      /\ live' = live \cup {Fresh} /\ good' = good \cup {Fresh}
  BY DEF Import, Issue, Fresh, Tokens, TypeOK
<1>3. d \in Data
  BY <1>2, Kept
<1>4. r \in Imp
  BY <1>3 DEF Imp, TypeOK
<1>5. imp' \in [Importers -> Imp]
  <2> HIDE DEF r
  <2> QED BY <1>1, <1>4 DEF TypeOK, r
<1>6. age' \in [Tokens -> Age]
  BY <1>1, <1>2 DEF TypeOK, Age
<1>7. live' \subseteq 1..issued' /\ good' \subseteq 1..issued'
  BY <1>2 DEF TypeOK, Fresh
<1>8. RestType'
  BY <1>2, <1>5, <1>6, <1>7 DEF Import, rows, history, TypeOK, RestType
<1> QED BY <1>8, ColTypeStays, TypePartsNext DEF Import

\* The record of an import that has exchanged its token.
LEMMA NewPair ==
    ASSUME NEW i \in Importers, NEW r \in Imp, r = imp[i], r.step = "exchange"
    PROVE  TakeNewPair(i) = [step |-> "flag", site |-> r.site,
                             data |-> [kind |-> "sub2api", access |-> Fresh, refresh |-> Fresh],
                             required |-> r.required, enabled |-> r.enabled]
<1> DEFINE d == [kind |-> "sub2api", access |-> Fresh, refresh |-> Fresh]
<1>1. TakeNewPair(i) = [r EXCEPT !.step = "flag", !.data = d]
  BY DEF TakeNewPair
<1>2. r # IdleImp
  BY DEF IdleImp
<1> HIDE DEF d
<1>3. [r EXCEPT !.step = "flag", !.data = d]
        = [step |-> "flag", site |-> r.site, data |-> d,
           required |-> r.required, enabled |-> r.enabled]
  <2>1. [r EXCEPT !.step = "flag"] = [step |-> "flag", site |-> r.site, data |-> r.data,
                                     required |-> r.required, enabled |-> r.enabled]
    BY <1>2, StepOn
  <2>2. [r EXCEPT !.step = "flag", !.data = d] = [[r EXCEPT !.step = "flag"] EXCEPT !.data = d]
    BY Zenon
  <2>3. [[step |-> "flag", site |-> r.site, data |-> r.data,
          required |-> r.required, enabled |-> r.enabled] EXCEPT !.data = d]
        = [step |-> "flag", site |-> r.site, data |-> d,
           required |-> r.required, enabled |-> r.enabled]
    OBVIOUS
  <2> QED BY <2>1, <2>2, <2>3
<1> QED BY <1>1, <1>3 DEF d

\* The exchange of an import.
LEMMA ImportExchangeType ==
    ASSUME TypeOK, NEW i \in Importers, ImportExchange(i), imp[i].data.kind = "sub2api"
    PROVE TypeOK'
<1> DEFINE r == imp[i]
           d == [kind |-> "sub2api", access |-> Fresh, refresh |-> Fresh]
<1>1. r \in Imp /\ r # IdleImp /\ r.step = "exchange" /\ r.data \in Pair /\ r.data.refresh \in Tokens
  <2>1. r \in Imp /\ r.step = "exchange" /\ r.data.kind = "sub2api"
    BY DEF ImportExchange, TypeOK
  <2>2. r # IdleImp /\ r.data \in Data
    BY <2>1, Imports DEF IdleImp
  <2> QED BY <2>1, <2>2, Kept DEF Kinds
<1>2. /\ IssueType
      /\ used' \subseteq Tokens /\ replayed' \subseteq used' /\ orphaned' \subseteq Tokens
      /\ faults' \in 0..MaxFaults
      /\ \/ ImportStep(i, IdleImp)
         \/ ImportStep(i, TakeNewPair(i)) /\ issued' = Fresh
  BY <1>1, ExchangeTokenType DEF ImportExchange
<1>3. imp' \in [Importers -> Imp]
  <2>1. CASE ImportStep(i, IdleImp)
    BY <2>1, Imports DEF ImportStep, TypeOK
  <2>2. CASE ImportStep(i, TakeNewPair(i)) /\ issued' = Fresh
    <3>1. Fresh \in Tokens
      BY <1>2, <2>2, IssueRest
    <3>2. d \in Pair
      BY <3>1, Kept DEF Kinds
    <3>3. TakeNewPair(i) = [step |-> "flag", site |-> r.site, data |-> d,
                            required |-> r.required, enabled |-> r.enabled]
      BY <1>1, NewPair
    <3>4. TakeNewPair(i) \in Imp
      <4>1. d \in Data
        BY <3>2, Kept
      <4> HIDE DEF d
      <4>2. \A e \in Data : [step |-> "flag", site |-> r.site, data |-> e,
                            required |-> r.required, enabled |-> r.enabled] \in Imp
        BY <1>1, Imports
      <4>3. [step |-> "flag", site |-> r.site, data |-> d,
             required |-> r.required, enabled |-> r.enabled] \in Imp
        BY <4>1, <4>2
      <4> QED BY <3>3, <4>3
    <3> QED BY <2>2, <3>4 DEF ImportStep, TypeOK
  <2> QED BY <1>2, <2>1, <2>2
<1>4. RestType'
  BY <1>2, <1>3, IssueRest DEF ImportExchange, rows, TypeOK, RestType
<1> QED BY <1>4, ColTypeStays, TypePartsNext DEF ImportExchange

\* The import raises the login flag of its site.
LEMMA SetFlagType == ASSUME TypeOK, NEW i \in Importers, SetFlag(i) PROVE TypeOK'
<1> DEFINE r == imp[i]
<1>1. r \in Imp /\ r # IdleImp /\ r.step = "flag" /\ r.site \in Sites /\ r.enabled \in BOOLEAN
  <2>1. r \in Imp /\ r.step = "flag"
    BY DEF SetFlag, TypeOK
  <2> QED BY <2>1, Imports DEF IdleImp
<1>2. [r EXCEPT !.step = "save"] \in Imp
  <2>1. \A d \in Data : [step |-> "save", site |-> r.site, data |-> d,
                         required |-> r.required, enabled |-> r.enabled] \in Imp
    BY <1>1, Imports
  <2>2. r.data \in Data
    BY <1>1, Imports
  <2>3. [r EXCEPT !.step = "save"] = [step |-> "save", site |-> r.site, data |-> r.data,
                                     required |-> r.required, enabled |-> r.enabled]
    BY <1>1, StepOn
  <2> QED BY <2>1, <2>2, <2>3
<1>3. imp' \in [Importers -> Imp]
  <2>1. ImportStep(i, [r EXCEPT !.step = "save"]) \/ ImportStep(i, IdleImp)
    BY DEF SetFlag
  <2> QED BY <1>2, <2>1, Imports DEF ImportStep, TypeOK
<1>4. /\ required' \in [Sites -> BOOLEAN] /\ enabled' \in [Sites -> BOOLEAN]
      /\ faults' \in 0..MaxFaults
  <2>1. required' \in [Sites -> BOOLEAN] /\ enabled' \in [Sites -> BOOLEAN]
    <3>1. /\ UNCHANGED <<required, enabled>>
             \/ /\ required' = [required EXCEPT ![r.site] = TRUE]
                /\ enabled' = [enabled EXCEPT ![r.site] = r.enabled]
      BY DEF SetFlag
    <3>2. required \in [Sites -> BOOLEAN] /\ enabled \in [Sites -> BOOLEAN]
      BY DEF TypeOK
    <3>3. [required EXCEPT ![r.site] = TRUE] \in [Sites -> BOOLEAN]
      BY <3>2
    <3>4. [enabled EXCEPT ![r.site] = r.enabled] \in [Sites -> BOOLEAN]
      BY <1>1, <3>2, Zenon
    <3> QED BY <3>1, <3>2, <3>3, <3>4
  <2>2. faults' = faults \/ Fault
    BY DEF SetFlag
  <2> QED BY <2>1, <2>2 DEF Fault, TypeOK
<1>5. RestType'
  BY <1>3, <1>4 DEF SetFlag, site, TypeOK, RestType
<1> QED BY <1>5, ColTypeStays, TypePartsNext DEF SetFlag

\* What a collection is left with is a token.
LEMMA LeftType ==
    ASSUME TypeOK, NEW s \in Sites, NEW d PROVE Left(s, d) \subseteq Tokens
<1>1. col[s] \in Col
  BY DEF TypeOK
<1>2. CASE col[s].pc # "idle" /\ col[s].held.kind \in Kinds \ {d.kind}
  BY <1>1, <1>2, Held, Kept DEF Left
<1>3. CASE ~(col[s].pc # "idle" /\ col[s].held.kind \in Kinds \ {d.kind})
  BY <1>3 DEF Left
<1> QED BY <1>2, <1>3

\* The import stores its pair.
LEMMA SaveImportType == ASSUME TypeOK, NEW i \in Importers, SaveImport(i) PROVE TypeOK'
<1> DEFINE r == imp[i]
<1>1. r.site \in Sites /\ r.data \in Data
  <2>1. r \in Imp /\ r.step = "save"
    BY DEF SaveImport, TypeOK
  <2> QED BY <2>1, Imports DEF IdleImp
<1>2. orphaned' \subseteq Tokens
  BY <1>1, LeftType DEF SaveImport, TypeOK
<1>3. imp' \in [Importers -> Imp] /\ vault' \in [Sites -> {NoData} \cup Data]
  BY <1>1, Imports DEF SaveImport, ImportStep, TypeOK
<1>4. RestType'
  BY <1>2, <1>3 DEF SaveImport, site, TypeOK, RestType
<1> QED BY <1>4, ColTypeStays, TypePartsNext DEF SaveImport

\* What an administrator, time and the site itself do.
LEMMA OtherTypes ==
    ASSUME TypeOK,
           \/ \E s \in Sites : DeleteSession(s)
           \/ \E s \in Sites, on \in Switch, login \in BOOLEAN : EditSite(s, on, login)
           \/ \E t \in Tokens : GetOlder(t)
           \/ \E t \in Tokens : Reject(t)
           \/ \E t \in Tokens : Revoke(t)
    PROVE  TypeOK'
<1>1. ASSUME NEW s \in Sites, DeleteSession(s) PROVE TypeOK'
  <2>1. orphaned' \subseteq Tokens
    BY <1>1, LeftType DEF DeleteSession, TypeOK
  <2>2. RestType'
    BY <1>1, <2>1 DEF DeleteSession, site, TypeOK, RestType
  <2> QED BY <1>1, <2>2, ColTypeStays, TypePartsNext DEF DeleteSession
<1>2. ASSUME NEW s \in Sites, NEW on \in Switch, NEW login \in BOOLEAN, EditSite(s, on, login)
      PROVE  TypeOK'
  <2>1. RestType'
    BY <1>2 DEF EditSite, site, TypeOK, RestType, SessionAssumption
  <2> QED BY <1>2, <2>1, ColTypeStays, TypePartsNext DEF EditSite
<1>3. ASSUME NEW t \in Tokens, GetOlder(t) \/ Reject(t) \/ Revoke(t) PROVE TypeOK'
  <2>1. age' \in [Tokens -> Age]
    BY <1>3 DEF GetOlder, Reject, Revoke, TypeOK, Age
  <2>2. live' \subseteq 1..issued /\ good' \subseteq 1..issued /\ issued' = issued
    BY <1>3 DEF GetOlder, Reject, Revoke, TypeOK
  <2>3. /\ used' \subseteq Tokens /\ replayed' \subseteq used' /\ orphaned' \subseteq Tokens
        /\ cleared' \subseteq Sites /\ faults' \in 0..MaxFaults
    BY <1>3 DEF GetOlder, Reject, Revoke, Fault, TypeOK, history
  <2>4. RestType'
    BY <1>3, <2>1, <2>2, <2>3 DEF GetOlder, Reject, Revoke, rows, history, TypeOK, RestType
  <2> QED BY <1>3, <2>4, ColTypeStays, TypePartsNext DEF GetOlder, Reject, Revoke
<1> QED BY <1>1, <1>2, <1>3

-----------------------------------------------------------------------------
(* Why sessions stay usable.                                               *)

\* The login flag of a site is up, or an administrator took it down.
Up(s) == required[s] \/ s \in cleared

\* It is up once there is something stored, in use or about to be stored.
FlagIsUp ==
    /\ \A s \in Sites : vault[s] # NoData \/ col[s] # IdleCol => Up(s)
    /\ \A i \in Importers :
          imp[i] # IdleImp /\ (imp[i].required \/ imp[i].step = "save") => Up(imp[i].site)

\* Where a refresh token is that somebody may still send: in a row, in the pair a
\* collection is exchanging or saving, or in an import.
Turning(s) == col[s].pc \in {"exchange", "save"}
Carries(s, r) ==
    \/ vault[s].kind \in Kinds /\ vault[s].refresh = r
    \/ Turning(s) /\ col[s].cur.refresh = r
Brings(i, r) == imp[i] # IdleImp /\ imp[i].data.kind \in Kinds /\ imp[i].data.refresh = r

\* Nobody else has the refresh token of a site or of an import.
Alone ==
    /\ \A s, t \in Sites, r \in Tokens \ orphaned : Carries(s, r) /\ Carries(t, r) => s = t
    /\ \A i, j \in Importers, r \in Tokens \ orphaned : Brings(i, r) /\ Brings(j, r) => i = j
    /\ \A s \in Sites, i \in Importers, r \in Tokens \ orphaned : ~(Carries(s, r) /\ Brings(i, r))

\* Tokens in use were issued, and the site takes none that was used up.
Issued ==
    /\ used \subseteq 1..issued /\ used \cap live = {}
    /\ \A s \in Sites, r \in Tokens \ orphaned : Carries(s, r) => r <= issued
    /\ \A i \in Importers, r \in Tokens \ orphaned : Brings(i, r) => r <= issued

\* What is about to be sent or stored is accepted.
Usable ==
    /\ \A s \in Sites : Turning(s) => /\ col[s].cur.kind = col[s].held.kind
                                      /\ col[s].cur.refresh \in live \cup orphaned
    /\ \A i \in Importers, r \in Tokens : Brings(i, r) => r \in live \cup orphaned
    /\ \A i \in Importers : imp[i].step = "exchange" => imp[i].data.kind = "sub2api"

\* A collection whose row was taken away holds a token that is given up.
LeftBehind ==
    \A s \in Sites : col[s] # IdleCol /\ col[s].held.kind \in Kinds \ {vault[s].kind}
                        => col[s].held.refresh \in orphaned

TokenInv == Alone /\ Issued /\ Usable /\ LeftBehind /\ StoredIsLive /\ NeverReplayed
SessionInv == TypeOK /\ FlagIsUp /\ TokenInv

\* How a request with a refresh token ends: a pair and a success, a pair that is
\* lost, or nothing.
Answered(r, spent) == r \in live /\ Issue(spent)
Unanswered == UNCHANGED <<issued, live, good>>

\* The exchange of a collection has four ends: a new pair to be saved, a new pair
\* that is lost, a cookie that may stay as it is, or nothing.
LEMMA ExchangeEffect ==
    ASSUME TypeOK, NEW s \in Sites, Exchange(s)
    PROVE  LET r == col[s].cur.refresh
           IN  /\ r \in Tokens /\ col[s].pc = "exchange" /\ col[s].held.kind \in Kinds
               /\ UNCHANGED <<rows, age, imp, cleared>>
               /\ replayed' \subseteq replayed \cup (used \cap {r})
               /\ \/ /\ Answered(r, {r}) /\ used' \subseteq used \cup {r}
                     /\ ToSave(s, Fresh) /\ UNCHANGED orphaned
                  \/ /\ Answered(r, {r}) /\ used' \subseteq used \cup {r}
                     /\ Fail(s) /\ orphaned' = orphaned \cup {r}
                  \/ /\ Answered(r, {}) \/ (r \in live /\ issued < MaxToken /\ issued' = Fresh
                                            /\ live' = live)
                     /\ ToSave(s, r) /\ UNCHANGED <<used, orphaned>>
                  \/ Unanswered /\ Fail(s) /\ UNCHANGED <<used, orphaned>>
<1> DEFINE c == col[s]
           r == c.cur.refresh
<1>1. c.pc = "exchange" /\ c.held.kind \in Kinds /\ r \in Tokens
  <2>1. c.pc = "exchange" /\ c \in Col
    BY DEF Exchange, TypeOK
  <2> QED BY <2>1, Held, Kept
<1>2. UNCHANGED <<rows, age, imp, cleared>>
  BY DEF Exchange
<1>3. CASE ExchangeToken(r, ToSave(s, Fresh), Fail(s))
  BY <1>1, <1>2, <1>3 DEF ExchangeToken, Answered, Unanswered
<1>4. ASSUME NEW keep \in BOOLEAN,
             RefreshCookie(r, keep, ToSave(s, CookieAfter(keep, r)), Fail(s))
      PROVE  /\ UNCHANGED <<used, replayed, orphaned>>
             /\ \/ /\ r \in live /\ issued < MaxToken /\ issued' = Fresh
                   /\ \/ live' = live /\ ToSave(s, r)
                      \/ live' = (live \ {r}) \cup {Fresh} /\ good' = good \cup {Fresh}
                         /\ ToSave(s, Fresh)
                \/ Unanswered /\ Fail(s)
  BY <1>4 DEF RefreshCookie, CookieAfter, Unanswered, Fresh
<1>5. \/ ExchangeToken(r, ToSave(s, Fresh), Fail(s))
      \/ \E keep \in BOOLEAN : RefreshCookie(r, keep, ToSave(s, CookieAfter(keep, r)), Fail(s))
  BY DEF Exchange
<1> QED BY <1>1, <1>2, <1>3, <1>4, <1>5 DEF Answered, Unanswered, Issue, Fresh

\* That of an import has three.
LEMMA ImportExchangeEffect ==
    ASSUME TypeOK, NEW i \in Importers, ImportExchange(i)
    PROVE  LET q == imp[i].data.refresh
           IN  /\ imp[i].step = "exchange" /\ imp[i] # IdleImp
               /\ UNCHANGED <<rows, age, col, lock, cleared>>
               /\ replayed' \subseteq replayed \cup (used \cap {q})
               /\ \/ /\ Answered(q, {q}) /\ used' = used \cup {q} /\ UNCHANGED orphaned
                     /\ ImportStep(i, TakeNewPair(i))
                     /\ TakeNewPair(i).site = imp[i].site /\ TakeNewPair(i).step = "flag"
                     /\ TakeNewPair(i).required = imp[i].required /\ TakeNewPair(i) # IdleImp
                     /\ TakeNewPair(i).data.kind = "sub2api"
                     /\ TakeNewPair(i).data.refresh = Fresh
                  \/ /\ Answered(q, {q}) /\ used' = used \cup {q}
                     /\ orphaned' = orphaned \cup {q} /\ ImportStep(i, IdleImp)
                  \/ Unanswered /\ ImportStep(i, IdleImp) /\ UNCHANGED <<used, orphaned>>
<1> DEFINE q == imp[i].data.refresh
<1>1. imp[i].step = "exchange" /\ imp[i] # IdleImp /\ imp[i] \in Imp
  BY DEF ImportExchange, TypeOK, IdleImp
<1>2. TakeNewPair(i) = [step |-> "flag", site |-> imp[i].site,
                        data |-> [kind |-> "sub2api", access |-> Fresh, refresh |-> Fresh],
                        required |-> imp[i].required, enabled |-> imp[i].enabled]
  BY <1>1, NewPair
<1>3. /\ TakeNewPair(i).site = imp[i].site /\ TakeNewPair(i).step = "flag"
      /\ TakeNewPair(i).required = imp[i].required /\ TakeNewPair(i) # IdleImp
      /\ TakeNewPair(i).data.kind = "sub2api"
      /\ TakeNewPair(i).data.refresh = Fresh
  BY <1>2 DEF IdleImp
<1>4. ExchangeToken(q, ImportStep(i, TakeNewPair(i)), ImportStep(i, IdleImp))
      /\ UNCHANGED <<rows, age, col, lock, cleared>>
  BY DEF ImportExchange
<1>5. /\ replayed' \subseteq replayed \cup (used \cap {q})
      /\ \/ /\ Answered(q, {q}) /\ used' = used \cup {q} /\ UNCHANGED orphaned
            /\ ImportStep(i, TakeNewPair(i))
         \/ /\ Answered(q, {q}) /\ used' = used \cup {q}
            /\ orphaned' = orphaned \cup {q} /\ ImportStep(i, IdleImp)
         \/ Unanswered /\ ImportStep(i, IdleImp) /\ UNCHANGED <<used, orphaned>>
  BY <1>4 DEF ExchangeToken, Answered, Unanswered
<1> QED BY <1>1, <1>3, <1>4, <1>5

\* The flag goes up before the pair is stored, or nothing is stored.
LEMMA SetFlagEffect ==
    ASSUME TypeOK, NEW i \in Importers, SetFlag(i)
    PROVE  /\ UNCHANGED <<vault, site, col, lock, used, replayed, orphaned, cleared>>
           /\ imp[i] # IdleImp /\ imp[i].step = "flag" /\ imp[i].site \in Sites
           /\ \/ /\ \/ imp[i].required /\ UNCHANGED required
                    \/ required' = [required EXCEPT ![imp[i].site] = TRUE]
                 /\ \E r : /\ ImportStep(i, r) /\ r.site = imp[i].site /\ r.data = imp[i].data
                           /\ r.required = imp[i].required /\ r.step = "save" /\ r # IdleImp
              \/ UNCHANGED required /\ ImportStep(i, IdleImp)
<1>1. imp[i] # IdleImp /\ imp[i] \in Imp /\ imp[i].step = "flag"
  BY DEF SetFlag, TypeOK, IdleImp
<1>2. [imp[i] EXCEPT !.step = "save"]
        = [step |-> "save", site |-> imp[i].site, data |-> imp[i].data,
           required |-> imp[i].required, enabled |-> imp[i].enabled]
  BY <1>1, StepOn
<1>3. LET r == [imp[i] EXCEPT !.step = "save"]
      IN  /\ r.site = imp[i].site /\ r.data = imp[i].data
          /\ r.required = imp[i].required /\ r.step = "save" /\ r # IdleImp
  BY <1>2 DEF IdleImp
<1>4. imp[i].site \in Sites
  BY <1>1, Imports
<1> QED BY <1>1, <1>3, <1>4 DEF SetFlag

\* No step leaves a stored or moving credential under a site whose flag is down.
LEMMA FlagStep ==
    ASSUME SessionInv, SessionActions, TypeOK' PROVE FlagIsUp'
<1>0. TypeOK
  BY DEF SessionInv
<1> USE DEF SessionInv, FlagIsUp, Up
<1>1. CASE Crash
  BY <1>1 DEF Crash, rows, IdleImp, IdleCol
<1>2. ASSUME NEW s \in Sites, Start(s) PROVE FlagIsUp'
  BY <1>2 DEF Start, rows, site, history, TypeOK, Goto
<1>3. ASSUME NEW s \in Sites, Take(s) PROVE FlagIsUp'
  BY <1>3 DEF Take, With, rows, site, history, TypeOK, Goto, IdleCol
<1>4. ASSUME NEW s \in Sites, Exchange(s) PROVE FlagIsUp'
  <2>1. /\ UNCHANGED <<rows, imp, cleared>>
        /\ col[s] # IdleCol /\ (Fail(s) \/ \E x : ToSave(s, x))
    <3> DEFINE r == col[s].cur.refresh
    <3>1. /\ UNCHANGED <<rows, age, imp, cleared>> /\ col[s].pc = "exchange"
          /\ Fail(s) \/ ToSave(s, Fresh) \/ ToSave(s, r)
      <4> HIDE DEF SessionInv, FlagIsUp, Up
      <4> QED BY <1>0, <1>4, ExchangeEffect
    <3> QED BY <3>1 DEF IdleCol
  <2>2. \E c : Goto(s, c)
    BY <2>1 DEF Fail, ToSave
  <2> QED BY <2>1, <2>2 DEF rows, TypeOK, Goto
<1>5. ASSUME NEW s \in Sites, Save(s) PROVE FlagIsUp'
  <2>1. /\ UNCHANGED <<required, enabled, imp, cleared>>
        /\ col[s] # IdleCol /\ \E c : Goto(s, c)
        /\ vault' = vault \/ vault' = [vault EXCEPT ![s] = col[s].cur]
    BY <1>5 DEF Save, With, IdleCol
  <2> QED BY <2>1 DEF TypeOK, Goto
<1>6. ASSUME NEW s \in Sites, Request(s) PROVE FlagIsUp'
  BY <1>6 DEF Request, rows, site, history, TypeOK, Goto, IdleCol
<1>7. ASSUME NEW s \in Sites, DeleteSession(s) PROVE FlagIsUp'
  BY <1>7 DEF DeleteSession, TypeOK
<1>8. ASSUME NEW s \in Sites, NEW on \in Switch, NEW login \in BOOLEAN, EditSite(s, on, login)
      PROVE FlagIsUp'
  BY <1>8 DEF EditSite, TypeOK
<1>9. ASSUME NEW i \in Importers, NEW s \in Sites, Import(i, s) PROVE FlagIsUp'
  BY <1>9 DEF Import, rows, history, TypeOK
<1>10. ASSUME NEW i \in Importers, ImportExchange(i) PROVE FlagIsUp'
  <2>1. /\ UNCHANGED <<rows, col, cleared>> /\ imp[i] # IdleImp
        /\ \/ ImportStep(i, IdleImp)
           \/ /\ ImportStep(i, TakeNewPair(i)) /\ TakeNewPair(i).site = imp[i].site
              /\ TakeNewPair(i).required = imp[i].required /\ TakeNewPair(i).step = "flag"
    BY <1>10, ImportExchangeEffect
  <2> QED BY <2>1 DEF ImportStep, rows, TypeOK
<1>11. ASSUME NEW i \in Importers, SetFlag(i) PROVE FlagIsUp'
  <2>1. /\ UNCHANGED <<vault, col, cleared>>
        /\ imp[i] # IdleImp /\ imp[i].site \in Sites
        /\ \/ /\ \/ imp[i].required /\ UNCHANGED required
                 \/ required' = [required EXCEPT ![imp[i].site] = TRUE]
              /\ \E r : ImportStep(i, r) /\ r.site = imp[i].site
           \/ UNCHANGED required /\ ImportStep(i, IdleImp)
    BY <1>11, SetFlagEffect
  <2>2. \A j \in Importers : imp'[j] # IdleImp => imp'[j].site = imp[j].site
                                               /\ imp[j] # IdleImp
    BY <2>1 DEF ImportStep, TypeOK
  <2>3. \A s \in Sites : Up(s) => Up(s)'
    BY <2>1 DEF TypeOK
  <2>4. \A j \in Importers : imp'[j] # IdleImp /\ (imp'[j].required \/ imp'[j].step = "save")
           => required'[imp[j].site] \/ imp[j].site \in cleared'
    <3>1. TAKE j \in Importers
    <3>2. CASE j = i
      <4> DEFINE t == imp[i].site
      <4>1. t \in Sites /\ imp' = [imp EXCEPT ![i] = imp'[i]] /\ required \in [Sites -> BOOLEAN]
        BY <2>1 DEF ImportStep, TypeOK
      <4>2. CASE imp[i].required
        <5>1. Up(t)
          BY <2>1, <4>2
        <5>2. Up(t) => required'[t] \/ t \in cleared'
          BY <2>3, <4>1
        <5> QED BY <3>2, <5>1, <5>2
      <4>3. CASE required' = [required EXCEPT ![t] = TRUE]
        BY <3>2, <4>1, <4>3
      <4>4. CASE ImportStep(i, IdleImp)
        BY <2>2, <3>2, <4>4 DEF ImportStep, TypeOK
      <4> QED BY <2>1, <4>2, <4>3, <4>4
    <3>3. CASE j # i
      <4> DEFINE t == imp[j].site
      <4>1. imp'[j] = imp[j]
        BY <2>1, <3>3 DEF ImportStep, TypeOK
      <4>2. imp[j] # IdleImp => t \in Sites
        BY Imports DEF TypeOK
      <4>3. t \in Sites => (Up(t) => required'[t] \/ t \in cleared')
        BY <2>3
      <4> QED BY <4>1, <4>2, <4>3
    <3> QED BY <3>2, <3>3
  <2> QED BY <2>1, <2>2, <2>3, <2>4
<1>12. ASSUME NEW i \in Importers, SaveImport(i) PROVE FlagIsUp'
  BY <1>12 DEF SaveImport, ImportStep, TypeOK, IdleImp
<1>13. ASSUME NEW t \in Tokens, GetOlder(t) \/ Reject(t) \/ Revoke(t) PROVE FlagIsUp'
  BY <1>13 DEF GetOlder, Reject, Revoke, rows, history
<1> QED BY <1>1, <1>2, <1>3, <1>4, <1>5, <1>6, <1>7, <1>8, <1>9, <1>10, <1>11, <1>12, <1>13
     DEF SessionActions

\* A crash: whatever was on its way is orphaned.
LEMMA CrashTokens == ASSUME SessionInv, Crash PROVE TokenInv'
  BY DEF SessionInv, TypeOK, TokenInv, Alone, Issued, Usable, LeftBehind, StoredIsLive, NeverReplayed,
         Crash, rows, site, Carries, Brings, Turning, IdleCol, IdleImp

\* A start reads only.
LEMMA StartTokens == ASSUME SessionInv, NEW s \in Sites, Start(s) PROVE TokenInv'
<1>1. PICK c : /\ Goto(s, c) /\ c.pc \in {"lock", "request"} /\ c.held = vault[s]
  BY DEF Start
<1>2. UNCHANGED <<rows, site, lock, imp, history>> /\ col[s] = IdleCol
  BY DEF Start
<1>3. col' = [col EXCEPT ![s] = c] /\ col \in [Sites -> Col]
  BY <1>1 DEF Goto, SessionInv, TypeOK
<1> QED
  BY <1>1, <1>2, <1>3
  DEF SessionInv, TokenInv, Alone, Issued, Usable, LeftBehind, StoredIsLive, NeverReplayed,
      rows, site, history, Carries, Brings, Turning, IdleCol

\* The requests for data send no refresh token.
LEMMA RequestTokens == ASSUME SessionInv, NEW s \in Sites, Request(s) PROVE TokenInv'
<1>1. PICK c : /\ Goto(s, c) /\ \/ c = IdleCol
                                \/ c.pc = "lock" /\ c.held = col[s].held
  BY DEF Request
<1>2. UNCHANGED <<rows, site, lock, imp, history>> /\ col[s].pc = "request" /\ col[s] # IdleCol
  BY DEF Request, IdleCol
<1>3. col' = [col EXCEPT ![s] = c] /\ col \in [Sites -> Col]
  BY <1>1 DEF Goto, SessionInv, TypeOK
<1> QED
  BY <1>1, <1>2, <1>3
  DEF SessionInv, TokenInv, Alone, Issued, Usable, LeftBehind, StoredIsLive, NeverReplayed,
      rows, site, history, Carries, Brings, Turning, IdleCol

\* Under the mutex: the pair to exchange is the one stored, so it is accepted.
LEMMA TakeTokens == ASSUME SessionInv, NEW s \in Sites, Take(s) PROVE TokenInv'
<1> DEFINE h == col[s].held
<1>1. /\ col[s].pc = "lock" /\ col[s] # IdleCol /\ h.kind \in Kinds
      /\ UNCHANGED <<rows, site, imp, history>>
      /\ col \in [Sites -> Col]
  <2>1. col[s].pc = "lock" /\ col[s] \in Col
    BY DEF Take, SessionInv, TypeOK
  <2>2. h \in Pair /\ col[s] # IdleCol
    BY <2>1, Held DEF IdleCol
  <2> QED BY <2>1, <2>2, Kept DEF Take, SessionInv, TypeOK
<1>2. PICK c : /\ col' = [col EXCEPT ![s] = c]
               /\ \/ c.pc = "request" /\ c.held = h
                  \/ c.pc = "request" /\ c.held = vault[s] /\ vault[s].kind = h.kind
                  \/ c.pc = "exchange" /\ c.held = h /\ c.cur = vault[s] /\ vault[s].kind = h.kind
                  \/ c.pc = "exchange" /\ c.held = h /\ c.cur = h /\ vault[s].kind # h.kind
  <2> DEFINE k == h.kind
             latest == vault[s]
             usable == /\ latest.kind = k
                       /\ \/ age[latest.access] = "fresh" /\ ~col[s].force
                          \/ /\ k = "sub2api" /\ latest.refresh # h.refresh
                             /\ age[latest.access] # "past"
             on == [pc |-> "request", held |-> IF col[s].force THEN h ELSE latest]
             in == [pc |-> "exchange", held |-> h, force |-> col[s].force,
                    cur |-> IF latest.kind = k THEN latest ELSE h]
  <2>1. IF usable THEN Goto(s, on) ELSE Goto(s, in)
    BY DEF Take, With
  <2>2. CASE usable
    <3>1. col' = [col EXCEPT ![s] = on]
      BY <2>1, <2>2 DEF Goto
    <3>2. on.pc = "request" /\ (on.held = h \/ (on.held = latest /\ latest.kind = k))
      BY <2>2
    <3> HIDE DEF on
    <3> QED BY <3>1, <3>2
  <2>3. CASE ~usable
    <3>1. col' = [col EXCEPT ![s] = in]
      BY <2>1, <2>3 DEF Goto
    <3>2. /\ in.pc = "exchange" /\ in.held = h
          /\ \/ in.cur = latest /\ latest.kind = k
             \/ in.cur = h /\ latest.kind # k
      OBVIOUS
    <3> HIDE DEF in
    <3> QED BY <3>1, <3>2
  <2> QED BY <2>2, <2>3
<1>3. c.pc = "exchange" => c.cur.kind = h.kind /\ c.cur.refresh \in live \cup orphaned
                           /\ (c.cur.refresh \in orphaned \/ c.cur = vault[s])
  BY <1>1, <1>2 DEF SessionInv, TokenInv, LeftBehind, StoredIsLive
<1>4. \A t \in Sites, r \in Tokens \ orphaned : Carries(t, r)' => Carries(t, r)
  BY <1>1, <1>2, <1>3 DEF Carries, Turning, rows
<1>5. \A i \in Importers, r \in Tokens : Brings(i, r)' <=> Brings(i, r)
  BY <1>1 DEF Brings
<1>6. Alone'
  BY <1>1, <1>4, <1>5 DEF SessionInv, TokenInv, Alone, history
<1>7. Issued'
  BY <1>1, <1>4, <1>5 DEF SessionInv, TokenInv, Issued, site, history
<1>8. Usable' /\ LeftBehind'
  BY <1>1, <1>2, <1>3, <1>5 DEF SessionInv, TokenInv, Usable, LeftBehind, rows, site, history, Turning
<1>9. StoredIsLive' /\ NeverReplayed'
  BY <1>1, <1>2 DEF SessionInv, TokenInv, StoredIsLive, NeverReplayed, rows, site, history
<1> QED BY <1>6, <1>7, <1>8, <1>9 DEF TokenInv

\* A token that is issued now has been with nobody.
LEMMA FreshIsNew ==
    ASSUME SessionInv, Fresh \in Tokens \ orphaned
    PROVE  /\ \A t \in Sites : ~Carries(t, Fresh)
           /\ \A i \in Importers : ~Brings(i, Fresh)
           /\ Fresh \notin live /\ Fresh \notin used
  BY DEF SessionInv, TypeOK, TokenInv, Issued, Fresh

\* An exchange uses the token up and issues another, which this collection alone has.
LEMMA ExchangeTokens == ASSUME SessionInv, NEW s \in Sites, Exchange(s) PROVE TokenInv'
<1> DEFINE r == col[s].cur.refresh
           h == col[s].held
<1>0. TypeOK
  BY DEF SessionInv
<1>1. /\ r \in Tokens /\ col[s].pc = "exchange" /\ h.kind \in Kinds
      /\ UNCHANGED <<rows, age, imp, cleared>>
      /\ replayed' \subseteq replayed \cup (used \cap {r})
      /\ \/ /\ Answered(r, {r}) /\ used' \subseteq used \cup {r}
            /\ ToSave(s, Fresh) /\ UNCHANGED orphaned
         \/ /\ Answered(r, {r}) /\ used' \subseteq used \cup {r}
            /\ Fail(s) /\ orphaned' = orphaned \cup {r}
         \/ /\ Answered(r, {}) \/ (r \in live /\ issued < MaxToken /\ issued' = Fresh
                                   /\ live' = live)
            /\ ToSave(s, r) /\ UNCHANGED <<used, orphaned>>
         \/ Unanswered /\ Fail(s) /\ UNCHANGED <<used, orphaned>>
  BY <1>0, ExchangeEffect
<1>2. /\ Carries(s, r) /\ Turning(s) /\ col[s].cur.kind = h.kind
      /\ r \in live \cup orphaned
      /\ issued \in Nat /\ live \subseteq 1..issued /\ used \subseteq 1..issued
      /\ orphaned \subseteq Tokens /\ used \cap live = {} /\ vault' = vault /\ imp' = imp
  BY <1>1 DEF SessionInv, TypeOK, TokenInv, Usable, Issued, Carries, Turning, rows
<1>3. PICK c : /\ col' = [col EXCEPT ![s] = c] /\ col \in [Sites -> Col]
               /\ \/ c = IdleCol /\ ((live' = live /\ issued' = issued) \/ r \in orphaned')
                  \/ /\ c.pc = "save" /\ c.held = h /\ c.from = r /\ c.cur.kind = h.kind
                     /\ \/ c.cur.refresh = r /\ r \in live'
                        \/ c.cur.refresh = Fresh /\ Fresh \in live'
  <2> DEFINE out(x) == [pc |-> "save", held |-> h, force |-> col[s].force,
                        cur |-> [kind |-> col[s].cur.kind, access |-> Fresh, refresh |-> x],
                        from |-> r]
  <2>1. \A x : ToSave(s, x) => col' = [col EXCEPT ![s] = out(x)]
    BY DEF ToSave, Goto
  <2>2. Fail(s) => col' = [col EXCEPT ![s] = IdleCol]
    BY DEF Fail, Goto
  <2>3. \A x : /\ out(x).pc = "save" /\ out(x).held = h /\ out(x).from = r
               /\ out(x).cur.kind = h.kind /\ out(x).cur.refresh = x
    BY <1>2
  <2>4. Answered(r, {r}) \/ Answered(r, {}) => Fresh \in live'
    BY DEF Answered, Issue
  <2>5. Answered(r, {}) => r \in live'
    BY DEF Answered, Issue
  <2>6. /\ \/ Fail(s) /\ ((live' = live /\ issued' = issued) \/ r \in orphaned')
           \/ ToSave(s, Fresh) /\ Fresh \in live'
           \/ ToSave(s, r) /\ r \in live'
        /\ col \in [Sites -> Col]
    BY <1>1, <1>0, <2>4, <2>5 DEF Unanswered, TypeOK
  <2> HIDE DEF out, r, h
  <2> QED BY <2>1, <2>2, <2>3, <2>6
<1>4. /\ live \ {r} \subseteq live' /\ orphaned \subseteq orphaned'
      /\ live' \subseteq live \cup {Fresh}
      /\ issued' \in {issued, Fresh} /\ (Fresh \in live' => issued' = Fresh)
      /\ used' \subseteq used \cup {r} /\ (r \in used' \ used => r \notin live')
      /\ (r \in used' \ used => r \in live)
  BY <1>1, <1>2 DEF Answered, Unanswered, Issue, Fresh
<1>5. \A t \in Sites, q \in Tokens \ orphaned :
         Carries(t, q)' => Carries(t, q) \/ (t = s /\ q = Fresh /\ Fresh \in live')
  BY <1>2, <1>3 DEF Carries, Turning, IdleCol
<1>6. \A i \in Importers, q \in Tokens : Brings(i, q)' <=> Brings(i, q)
  BY <1>2 DEF Brings
<1>7. Alone'
  BY <1>4, <1>5, <1>6, FreshIsNew DEF SessionInv, TokenInv, Alone
<1>8. Issued'
  <2>1. used' \subseteq 1..issued' /\ used' \cap live' = {}
    BY <1>1, <1>2, <1>4 DEF Fresh
  <2>2. issued' >= issued /\ (Fresh \in live' => Fresh <= issued') /\ issued' \in Nat
    BY <1>2, <1>4 DEF Fresh
  <2>3. \A t \in Sites, q \in Tokens \ orphaned' : Carries(t, q)' => q <= issued'
    <3>1. TAKE t \in Sites, q \in Tokens \ orphaned'
    <3>2. Carries(t, q) => q <= issued
      BY <1>4 DEF SessionInv, TokenInv, Issued
    <3> QED BY <1>2, <1>4, <1>5, <2>2, <3>2 DEF Tokens
  <2>4. \A i \in Importers, q \in Tokens \ orphaned' : Brings(i, q)' => q <= issued'
    <3>1. TAKE i \in Importers, q \in Tokens \ orphaned'
    <3>2. Brings(i, q) => q <= issued
      BY <1>4 DEF SessionInv, TokenInv, Issued
    <3> QED BY <1>2, <1>6, <2>2, <3>2 DEF Tokens
  <2> QED BY <2>1, <2>3, <2>4 DEF Issued
<1>9. Usable'
  <2>1. \A t \in Sites \ {s} : Turning(t)' => /\ col'[t].cur.kind = col'[t].held.kind
                                              /\ col'[t].cur.refresh \in live' \cup orphaned'
    <3>1. \A t \in Sites \ {s} : Turning(t)' => Turning(t) /\ col'[t] = col[t]
      BY <1>3 DEF Turning
    <3>2. \A t \in Sites \ {s} : Turning(t) => \/ col[t].cur.refresh \in orphaned
                                               \/ col[t].cur.refresh \in live \ {r}
      BY <1>2, Held, Kept DEF SessionInv, TypeOK, TokenInv, Usable, Alone, Carries, Turning
    <3> QED BY <1>4, <3>1, <3>2 DEF SessionInv, TokenInv, Usable
  <2>2. Turning(s)' => /\ col'[s].cur.kind = col'[s].held.kind
                       /\ col'[s].cur.refresh \in live' \cup orphaned'
    BY <1>3 DEF Turning, IdleCol
  <2>3. \A i \in Importers, q \in Tokens : Brings(i, q)' => q \in live' \cup orphaned'
    BY <1>1, <1>2, <1>4, <1>6 DEF SessionInv, TokenInv, Usable, Alone
  <2> QED BY <1>2, <2>1, <2>2, <2>3 DEF SessionInv, TokenInv, Usable, Turning
<1>10. LeftBehind'
  <2>1. \A t \in Sites : col'[t] # IdleCol => col[t] # IdleCol /\ col'[t].held = col[t].held
    BY <1>1, <1>3 DEF IdleCol
  <2> QED BY <1>2, <1>4, <2>1 DEF SessionInv, TokenInv, LeftBehind
<1>11. StoredIsLive'
  <2>1. SUFFICES ASSUME NEW t \in Sites, vault[t].kind \in Kinds
                 PROVE  \/ vault[t].refresh \in live' \cup orphaned'
                        \/ col'[t].pc = "save" /\ col'[t].from = vault[t].refresh
    BY <1>2 DEF StoredIsLive
  <2>2. vault[t].refresh \in Tokens /\ Carries(t, vault[t].refresh)
    BY <1>0, <2>1, Kept DEF TypeOK, Carries
  <2>3. CASE t = s
    <3>1. vault[s].refresh \in live \cup orphaned
      BY <1>1, <2>1, <2>3 DEF SessionInv, TokenInv, StoredIsLive
    <3>2. CASE vault[s].refresh # r
      BY <1>4, <2>3, <3>1, <3>2
    <3>3. CASE vault[s].refresh = r
      BY <1>2, <1>3, <1>4, <2>3, <3>1, <3>3
    <3> QED BY <3>2, <3>3
  <2>4. CASE t # s
    <3>1. col'[t] = col[t]
      BY <1>3, <2>4
    <3>2. vault[t].refresh \in orphaned \/ vault[t].refresh # r
      BY <1>1, <1>2, <2>2, <2>4 DEF SessionInv, TokenInv, Alone
    <3> QED BY <1>4, <2>1, <3>1, <3>2 DEF SessionInv, TokenInv, StoredIsLive
  <2> QED BY <2>3, <2>4
<1>12. NeverReplayed'
  BY <1>1, <1>2, <1>4 DEF SessionInv, TokenInv, NeverReplayed
<1> QED BY <1>7, <1>8, <1>9, <1>10, <1>11, <1>12 DEF TokenInv

\* The new pair goes into the row unless the row was taken away meanwhile; then it is
\* orphaned.
LEMMA SaveTokens == ASSUME SessionInv, NEW s \in Sites, Save(s) PROVE TokenInv'
<1> DEFINE h == col[s].held
           p == col[s].cur
<1>1. /\ col[s].pc = "save" /\ col[s] # IdleCol /\ h.kind \in Kinds /\ p.kind = h.kind
      /\ p \in Data /\ p.refresh \in live \cup orphaned
      /\ Turning(s) /\ Carries(s, p.refresh)
      /\ UNCHANGED <<site, imp, used, replayed>> /\ orphaned \subseteq orphaned'
  <2>1. col[s].pc = "save" /\ col[s] \in Col
    BY DEF Save, SessionInv, TypeOK
  <2>2. h \in Pair /\ p \in Pair /\ col[s] # IdleCol
    BY <2>1, Held DEF IdleCol
  <2> QED BY <2>1, <2>2, Kept DEF Save, SessionInv, TokenInv, Usable, Turning, Carries
<1>2. PICK c : /\ col' = [col EXCEPT ![s] = c] /\ col \in [Sites -> Col]
               /\ \/ /\ c.pc = "request" /\ (c.held = h \/ c.held = p)
                     /\ vault' = [vault EXCEPT ![s] = p] /\ orphaned' = orphaned
                  \/ /\ c = IdleCol /\ vault' = vault
                     /\ orphaned' = orphaned \cup {col[s].from}
  <2>1. col \in [Sites -> Col]
    BY DEF SessionInv, TypeOK
  <2>2. CASE vault' = [vault EXCEPT ![s] = p] /\ With(s, p) /\ orphaned' = orphaned
    <3> DEFINE c == [pc |-> "request", held |-> IF col[s].force THEN h ELSE p]
    <3>1. col' = [col EXCEPT ![s] = c]
      BY <2>2 DEF With, Goto
    <3>2. c.pc = "request" /\ (c.held = h \/ c.held = p)
      OBVIOUS
    <3> HIDE DEF c
    <3> QED BY <2>1, <2>2, <3>1, <3>2
  <2>3. CASE Goto(s, IdleCol) /\ vault' = vault /\ orphaned' = orphaned \cup {col[s].from}
    BY <2>1, <2>3 DEF Goto
  <2> QED BY <2>2, <2>3 DEF Save
<1>3. vault \in [Sites -> {NoData} \cup Data] /\ live' = live /\ issued' = issued /\ imp' = imp
  BY <1>1 DEF SessionInv, TypeOK, site
<1>4. \A t \in Sites, q \in Tokens \ orphaned : Carries(t, q)' => Carries(t, q)
  <2>1. \A t \in Sites \ {s}, q \in Tokens : Carries(t, q)' => Carries(t, q)
    BY <1>2, <1>3 DEF Carries, Turning
  <2>2. \A q \in Tokens : Carries(s, q)' => q = p.refresh \/ Carries(s, q)
    <3>1. ~Turning(s)'
      BY <1>2 DEF Turning, IdleCol
    <3>2. vault'[s] = p \/ vault'[s] = vault[s]
      BY <1>2, <1>3
    <3> QED BY <3>1, <3>2 DEF Carries
  <2> QED BY <1>1, <2>1, <2>2
<1>5. \A i \in Importers, q \in Tokens : Brings(i, q)' <=> Brings(i, q)
  BY <1>3 DEF Brings
<1>6. Alone' /\ Issued'
  BY <1>1, <1>3, <1>4, <1>5 DEF SessionInv, TokenInv, Alone, Issued
<1>7. Usable'
  BY <1>1, <1>2, <1>3, <1>5 DEF SessionInv, TokenInv, Usable, Turning, IdleCol
<1>8. LeftBehind'
  BY <1>1, <1>2, <1>3 DEF SessionInv, TokenInv, LeftBehind, IdleCol
<1>9. StoredIsLive'
  BY <1>1, <1>2, <1>3 DEF SessionInv, TokenInv, StoredIsLive, IdleCol
<1>10. NeverReplayed'
  BY <1>1 DEF SessionInv, TokenInv, NeverReplayed
<1> QED BY <1>6, <1>7, <1>8, <1>9, <1>10 DEF TokenInv

\* A deleted row leaves a collection with a pair that is given up.
LEMMA DeleteTokens == ASSUME SessionInv, NEW s \in Sites, DeleteSession(s) PROVE TokenInv'
<1>1. /\ vault' = [vault EXCEPT ![s] = NoData] /\ vault \in [Sites -> {NoData} \cup Data]
      /\ orphaned' = orphaned \cup Left(s, NoData)
      /\ UNCHANGED <<site, col, lock, imp, used, replayed>>
  BY DEF DeleteSession, SessionInv, TypeOK
<1>2. \A t \in Sites, q \in Tokens : Carries(t, q)' => Carries(t, q)
  BY <1>1, Kept DEF Carries, Turning
<1>3. \A i \in Importers, q \in Tokens : Brings(i, q)' <=> Brings(i, q)
  BY <1>1 DEF Brings
<1>4. Alone' /\ Issued'
  BY <1>1, <1>2, <1>3 DEF SessionInv, TokenInv, Alone, Issued, site
<1>5. Usable'
  BY <1>1, <1>3 DEF SessionInv, TokenInv, Usable, Turning, site
<1>6. LeftBehind'
  BY <1>1, Held DEF SessionInv, TypeOK, TokenInv, LeftBehind, Left, NoData
<1>7. StoredIsLive' /\ NeverReplayed'
  BY <1>1, Kept DEF SessionInv, TokenInv, StoredIsLive, NeverReplayed, site
<1> QED BY <1>4, <1>5, <1>6, <1>7 DEF TokenInv

\* An import's pair replaces what is stored; the pair it replaces is given up.
LEMMA SaveImportTokens ==
    ASSUME SessionInv, NEW i \in Importers, SaveImport(i) PROVE TokenInv'
<1> DEFINE s == imp[i].site
           d == imp[i].data
<1>1. /\ s \in Sites /\ d \in Data /\ imp[i] # IdleImp
      /\ vault' = [vault EXCEPT ![s] = d] /\ vault \in [Sites -> {NoData} \cup Data]
      /\ orphaned' = orphaned \cup Left(s, d)
      /\ imp' = [imp EXCEPT ![i] = IdleImp] /\ imp \in [Importers -> Imp]
      /\ UNCHANGED <<site, col, lock, used, replayed>>
  <2>1. imp[i] \in Imp /\ imp[i].step = "save"
    BY DEF SaveImport, SessionInv, TypeOK
  <2>2. imp[i] # IdleImp
    BY <2>1 DEF IdleImp
  <2> QED BY <2>1, <2>2, Imports DEF SaveImport, ImportStep, SessionInv, TypeOK
<1>2. \A t \in Sites, q \in Tokens :
         Carries(t, q)' => Carries(t, q) \/ (t = s /\ Brings(i, q))
  BY <1>1 DEF Carries, Turning, Brings
<1>3. \A j \in Importers, q \in Tokens : Brings(j, q)' => j # i /\ Brings(j, q)
  BY <1>1 DEF Brings
<1>4. Alone' /\ Issued'
  <2>1. orphaned \subseteq orphaned'
    BY <1>1
  <2>2. Alone'
    BY <1>1, <1>2, <1>3, <2>1 DEF SessionInv, TokenInv, Alone
  <2>3. Issued'
    BY <1>1, <1>2, <1>3, <2>1 DEF SessionInv, TokenInv, Issued, site
  <2> QED BY <2>2, <2>3
<1>5. Usable'
  <2>1. \A t \in Sites : Turning(t)' <=> Turning(t)
    BY <1>1 DEF Turning
  <2> QED BY <1>1, <1>3, <2>1 DEF SessionInv, TokenInv, Usable, site, IdleImp
<1>6. LeftBehind'
  BY <1>1, Held, SMTT(30) DEF SessionInv, TypeOK, TokenInv, LeftBehind, Left
<1>7. StoredIsLive'
  <2>1. d.kind \in Kinds => d.refresh \in Tokens /\ Brings(i, d.refresh)
    BY <1>1, Kept DEF Brings
  <2>2. d.kind \in Kinds => d.refresh \in live \cup orphaned
    BY <2>1 DEF SessionInv, TokenInv, Usable
  <2> QED BY <1>1, <2>2 DEF SessionInv, TokenInv, StoredIsLive, site
<1>8. NeverReplayed'
  BY <1>1 DEF SessionInv, TokenInv, NeverReplayed
<1> QED BY <1>4, <1>5, <1>6, <1>7, <1>8 DEF TokenInv

\* The flag moves no token.
LEMMA SetFlagTokens == ASSUME SessionInv, NEW i \in Importers, SetFlag(i) PROVE TokenInv'
<1>1. /\ UNCHANGED <<vault, issued, live, col, used, replayed, orphaned>>
      /\ \A j \in Importers : imp'[j] # IdleImp =>
            imp[j] # IdleImp /\ imp'[j].data = imp[j].data
      /\ \A j \in Importers : imp'[j].step = "exchange" =>
            imp[j].step = "exchange" /\ imp'[j].data = imp[j].data
  <2>1. TypeOK
    BY DEF SessionInv
  <2>2. PICK r : /\ imp' = [imp EXCEPT ![i] = r] /\ imp \in [Importers -> Imp]
                 /\ \/ r = IdleImp
                    \/ r.data = imp[i].data /\ r.step = "save"
    BY <2>1, SetFlagEffect DEF ImportStep, TypeOK
  <2>3. UNCHANGED <<vault, issued, live, col, used, replayed, orphaned>> /\ imp[i] # IdleImp
    BY <2>1, SetFlagEffect DEF site
  <2> QED BY <2>2, <2>3 DEF IdleImp
<1>2. \A t \in Sites, q \in Tokens : Carries(t, q)' <=> Carries(t, q)
  BY <1>1 DEF Carries, Turning
<1>3. \A j \in Importers, q \in Tokens : Brings(j, q)' => Brings(j, q)
  BY <1>1 DEF Brings
<1>4. Alone' /\ Issued'
  BY <1>1, <1>2, <1>3 DEF SessionInv, TokenInv, Alone, Issued
<1>5. Usable'
  BY <1>1, <1>3 DEF SessionInv, TokenInv, Usable, Turning
<1>6. LeftBehind' /\ StoredIsLive' /\ NeverReplayed'
  BY <1>1 DEF SessionInv, TokenInv, LeftBehind, StoredIsLive, NeverReplayed
<1> QED BY <1>4, <1>5, <1>6 DEF TokenInv

\* An import brings a token of its own that the site accepts.
LEMMA ImportTokens ==
    ASSUME SessionInv, NEW i \in Importers, NEW s \in Sites, Import(i, s) PROVE TokenInv'
<1>1. PICK r : /\ imp' = [imp EXCEPT ![i] = r] /\ imp \in [Importers -> Imp]
               /\ r.step \in {"exchange", "flag"}
               /\ r.step = "exchange" => r.data.kind = "sub2api"
               /\ r.data.kind \in Kinds => r.data.refresh = Fresh
  <2>1. PICK kind \in Kinds \cup {"static"}, a \in {"fresh", "past"}, step \in {"exchange", "flag"} :
          /\ step = "exchange" => kind = "sub2api"
          /\ imp' = [imp EXCEPT ![i] =
                [step |-> step, site |-> s, required |-> required[s],
                 enabled |-> enabled[s],
                 data |-> IF kind = "static" THEN [kind |-> kind, access |-> Fresh]
                          ELSE [kind |-> kind, access |-> Fresh, refresh |-> Fresh]]]
    BY DEF Import
  <2> DEFINE d == IF kind = "static" THEN [kind |-> kind, access |-> Fresh]
                  ELSE [kind |-> kind, access |-> Fresh, refresh |-> Fresh]
             r == [step |-> step, site |-> s, required |-> required[s],
                   enabled |-> enabled[s], data |-> d]
  <2>2. /\ r.step = step /\ r.data.kind = kind
        /\ kind \in Kinds => r.data.refresh = Fresh
    BY Kept
  <2>3. imp' = [imp EXCEPT ![i] = r]
    BY <2>1
  <2> HIDE DEF r
  <2> QED BY <2>1, <2>2, <2>3 DEF SessionInv, TypeOK
<1>2. /\ UNCHANGED <<vault, col, used, replayed, orphaned>> /\ imp[i] = IdleImp
      /\ issued' = Fresh /\ live' = live \cup {Fresh} /\ issued \in Nat /\ live \subseteq 1..issued
      /\ Fresh \in Tokens
  BY DEF Import, Issue, SessionInv, TypeOK, rows, history, Fresh, Tokens
<1>3. \A t \in Sites, q \in Tokens : Carries(t, q)' <=> Carries(t, q)
  BY <1>2 DEF Carries, Turning
<1>4. \A j \in Importers, q \in Tokens : Brings(j, q)' => Brings(j, q) \/ (j = i /\ q = Fresh)
  BY <1>1, <1>2 DEF Brings
<1>5. Alone'
  BY <1>2, <1>3, <1>4, FreshIsNew DEF SessionInv, TokenInv, Alone
<1>6. Issued'
  <2>1. used' \subseteq 1..issued' /\ used' \cap live' = {}
    BY <1>2 DEF SessionInv, TokenInv, Issued, Fresh
  <2>2. \A t \in Sites, q \in Tokens \ orphaned' : Carries(t, q)' => q <= issued'
    BY <1>2, <1>3 DEF SessionInv, TokenInv, Issued, Fresh, Tokens
  <2>3. \A j \in Importers, q \in Tokens \ orphaned' : Brings(j, q)' => q <= issued'
    BY <1>2, <1>4 DEF SessionInv, TokenInv, Issued, Fresh, Tokens
  <2> QED BY <2>1, <2>2, <2>3 DEF Issued
<1>7. Usable'
  BY <1>1, <1>2, <1>4 DEF SessionInv, TokenInv, Usable, Turning
<1>8. LeftBehind' /\ StoredIsLive' /\ NeverReplayed'
  BY <1>2 DEF SessionInv, TokenInv, LeftBehind, StoredIsLive, NeverReplayed
<1> QED BY <1>5, <1>6, <1>7, <1>8 DEF TokenInv

\* Its exchange uses that token up and brings another.
LEMMA ImportExchangeTokens ==
    ASSUME SessionInv, NEW i \in Importers, ImportExchange(i) PROVE TokenInv'
<1> DEFINE r == imp[i].data.refresh
<1>0. TypeOK
  BY DEF SessionInv
<1>1. /\ imp[i].step = "exchange" /\ imp[i] # IdleImp
      /\ UNCHANGED <<vault, col>>
      /\ replayed' \subseteq replayed \cup (used \cap {r})
      /\ \/ /\ Answered(r, {r}) /\ used' = used \cup {r} /\ UNCHANGED orphaned
            /\ ImportStep(i, TakeNewPair(i))
            /\ TakeNewPair(i).step = "flag" /\ TakeNewPair(i).data.refresh = Fresh
         \/ /\ Answered(r, {r}) /\ used' = used \cup {r}
            /\ orphaned' = orphaned \cup {r} /\ ImportStep(i, IdleImp)
         \/ Unanswered /\ ImportStep(i, IdleImp) /\ UNCHANGED <<used, orphaned>>
  BY <1>0, ImportExchangeEffect DEF rows
<1>2. /\ r \in Tokens /\ Brings(i, r) /\ r \in live \cup orphaned
      /\ issued \in Nat /\ live \subseteq 1..issued /\ used \subseteq 1..issued
      /\ orphaned \subseteq Tokens /\ used \cap live = {}
  <2>1. imp[i].data \in Data /\ imp[i].data.kind = "sub2api"
    BY <1>0, <1>1, Imports DEF SessionInv, TypeOK, TokenInv, Usable
  <2>2. r \in Tokens /\ Brings(i, r)
    BY <1>1, <2>1, Kept DEF Brings, Kinds
  <2>3. r \in live \cup orphaned
    <3>1. \A q \in Tokens : Brings(i, q) => q \in live \cup orphaned
      BY DEF SessionInv, TokenInv, Usable
    <3> QED BY <2>2, <3>1
  <2>4. used \subseteq 1..issued /\ used \cap live = {}
    BY DEF SessionInv, TokenInv, Issued
  <2> QED BY <1>0, <2>2, <2>3, <2>4 DEF TypeOK
<1>3. PICK c : /\ imp' = [imp EXCEPT ![i] = c] /\ imp \in [Importers -> Imp]
               /\ \/ c = IdleImp
                  \/ c.step = "flag" /\ c.data.refresh = Fresh /\ Fresh \in live'
  BY <1>1 DEF ImportStep, SessionInv, TypeOK, Answered, Issue
<1>4. /\ live \ {r} \subseteq live' /\ orphaned \subseteq orphaned'
      /\ live' \subseteq live \cup {Fresh}
      /\ issued' \in {issued, Fresh} /\ (Fresh \in live' => issued' = Fresh)
      /\ used' \subseteq used \cup {r} /\ (r \in used' \ used => r \notin live')
      /\ (r \in used' \ used => r \in live)
  BY <1>1, <1>2 DEF Answered, Unanswered, Issue, Fresh
<1>5. \A t \in Sites, q \in Tokens : Carries(t, q)' <=> Carries(t, q)
  BY <1>1 DEF Carries, Turning
<1>6. \A j \in Importers, q \in Tokens :
         Brings(j, q)' => (j # i /\ Brings(j, q)) \/ (j = i /\ q = Fresh /\ Fresh \in live')
  BY <1>3 DEF Brings
<1>7. Alone'
  BY <1>4, <1>5, <1>6, FreshIsNew DEF SessionInv, TokenInv, Alone
<1>8. Issued'
  <2>1. used' \subseteq 1..issued' /\ used' \cap live' = {}
    BY <1>1, <1>2, <1>4 DEF Fresh
  <2>2. issued' >= issued /\ (Fresh \in live' => Fresh <= issued') /\ issued' \in Nat
    BY <1>2, <1>4 DEF Fresh
  <2>3. \A t \in Sites, q \in Tokens \ orphaned' : Carries(t, q)' => q <= issued'
    <3>1. TAKE t \in Sites, q \in Tokens \ orphaned'
    <3>2. Carries(t, q) => q <= issued
      BY <1>4 DEF SessionInv, TokenInv, Issued
    <3> QED BY <1>2, <1>5, <2>2, <3>2 DEF Tokens
  <2>4. \A j \in Importers, q \in Tokens \ orphaned' : Brings(j, q)' => q <= issued'
    <3>1. TAKE j \in Importers, q \in Tokens \ orphaned'
    <3>2. Brings(j, q) => q <= issued
      BY <1>4 DEF SessionInv, TokenInv, Issued
    <3> QED BY <1>2, <1>4, <1>6, <2>2, <3>2 DEF Tokens
  <2> QED BY <2>1, <2>3, <2>4 DEF Issued
<1>9. Usable'
  <2>1. \A t \in Sites : Turning(t) => \/ col[t].cur.refresh \in orphaned
                                       \/ col[t].cur.refresh \in live \ {r}
    <3>1. SUFFICES ASSUME NEW t \in Sites, Turning(t), col[t].cur.refresh \notin orphaned
                   PROVE  col[t].cur.refresh \in live \ {r}
      OBVIOUS
    <3>2. col[t].cur.refresh \in Tokens
      BY <1>0, <3>1, Held, Kept DEF TypeOK, Turning
    <3>3. Carries(t, col[t].cur.refresh) /\ col[t].cur.refresh \in live
      BY <3>1 DEF Carries, SessionInv, TokenInv, Usable
    <3>4. \A q \in Tokens \ orphaned : ~(Carries(t, q) /\ Brings(i, q))
      BY DEF SessionInv, TokenInv, Alone
    <3> QED BY <1>2, <3>1, <3>2, <3>3, <3>4
  <2>2. \A t \in Sites : Turning(t)' => /\ col'[t].cur.kind = col'[t].held.kind
                                        /\ col'[t].cur.refresh \in live' \cup orphaned'
    BY <1>1, <1>4, <2>1 DEF SessionInv, TokenInv, Usable, Turning
  <2>3. \A j \in Importers, q \in Tokens : Brings(j, q)' => q \in live' \cup orphaned'
    BY <1>2, <1>4, <1>6 DEF SessionInv, TokenInv, Usable, Alone
  <2>4. \A j \in Importers : imp'[j].step = "exchange" => imp'[j].data.kind = "sub2api"
    BY <1>3 DEF SessionInv, TokenInv, Usable, IdleImp
  <2> QED BY <2>2, <2>3, <2>4 DEF Usable, Turning
<1>10. LeftBehind'
  BY <1>1, <1>4 DEF SessionInv, TokenInv, LeftBehind
<1>11. StoredIsLive'
  <2>1. SUFFICES ASSUME NEW t \in Sites, vault[t].kind \in Kinds
                 PROVE  \/ vault[t].refresh \in live' \cup orphaned'
                        \/ col[t].pc = "save" /\ col[t].from = vault[t].refresh
    BY <1>1 DEF StoredIsLive
  <2>2. vault[t].refresh \in Tokens /\ Carries(t, vault[t].refresh)
    BY <1>0, <2>1, Kept DEF TypeOK, Carries
  <2>3. vault[t].refresh \in orphaned \/ vault[t].refresh # r
    BY <1>2, <2>2 DEF SessionInv, TokenInv, Alone
  <2> QED BY <1>4, <2>1, <2>3 DEF SessionInv, TokenInv, StoredIsLive
<1>12. NeverReplayed'
  BY <1>1, <1>2, <1>4 DEF SessionInv, TokenInv, NeverReplayed
<1> QED BY <1>7, <1>8, <1>9, <1>10, <1>11, <1>12 DEF TokenInv

\* Time, the site itself and the form of the administrator.
LEMMA OtherTokens ==
    ASSUME SessionInv,
           \/ \E s \in Sites, on \in Switch, login \in BOOLEAN : EditSite(s, on, login)
           \/ \E t \in Tokens : GetOlder(t) \/ Reject(t) \/ Revoke(t)
           \/ UNCHANGED vars
    PROVE  TokenInv'
<1>1. /\ UNCHANGED <<vault, issued, col, imp, used, replayed>>
      /\ orphaned \subseteq orphaned' /\ live' \subseteq live
      /\ live \cup orphaned \subseteq live' \cup orphaned'
  BY DEF EditSite, GetOlder, Reject, Revoke, rows, history, site, vars
<1>2. \A t \in Sites, q \in Tokens : Carries(t, q)' <=> Carries(t, q)
  BY <1>1 DEF Carries, Turning
<1>3. \A j \in Importers, q \in Tokens : Brings(j, q)' <=> Brings(j, q)
  BY <1>1 DEF Brings
<1>4. Alone' /\ Issued'
  BY <1>1, <1>2, <1>3 DEF SessionInv, TokenInv, Alone, Issued
<1>5. Usable'
  BY <1>1, <1>3 DEF SessionInv, TokenInv, Usable, Turning
<1>6. LeftBehind' /\ StoredIsLive' /\ NeverReplayed'
  BY <1>1 DEF SessionInv, TokenInv, LeftBehind, StoredIsLive, NeverReplayed
<1> QED BY <1>4, <1>5, <1>6 DEF TokenInv

\* Initially nothing is stored.
LEMMA SessionsInit == Init => SessionInv
<1> SUFFICES ASSUME Init PROVE SessionInv
  OBVIOUS
<1>1. TypeOK
  BY Stages, Imports DEF Init, TypeOK, Age, IdleCol, IdleImp, Tokens
<1>2. FlagIsUp
  BY DEF Init, FlagIsUp
<1>3. TokenInv
  BY Kept DEF Init, TokenInv, Alone, Issued, Usable, LeftBehind, StoredIsLive, NeverReplayed,
         Carries, Brings, Turning, IdleCol, IdleImp
<1> QED BY <1>1, <1>2, <1>3 DEF SessionInv

\* Every step keeps the invariant.
LEMMA SessionsStep == SessionInv /\ [Next]_vars => SessionInv'
<1> SUFFICES ASSUME SessionInv, [Next]_vars PROVE SessionInv'
  OBVIOUS
<1>0. TypeOK
  BY DEF SessionInv
<1>1. CASE Next
  <2>1. SessionActions
    BY <1>0, <1>1, SessionsNextSplits
  <2>2. TypeOK'
    <3>1. ASSUME NEW i \in Importers, ImportExchange(i) PROVE TypeOK'
      <4>1. imp[i].data.kind = "sub2api"
        BY <3>1 DEF ImportExchange, SessionInv, TokenInv, Usable
      <4> QED BY <1>0, <3>1, <4>1, ImportExchangeType
    <3> QED
      BY <1>0, <2>1, <3>1, CrashType, StartType, TakeType, ExchangeType, SaveType, RequestType,
         ImportType, SetFlagType, SaveImportType, OtherTypes DEF SessionActions
  <2>3. FlagIsUp'
    BY <2>1, <2>2, FlagStep
  <2>4. TokenInv'
    BY <2>1, CrashTokens, StartTokens, TakeTokens, ExchangeTokens, SaveTokens, RequestTokens,
       DeleteTokens, ImportTokens, ImportExchangeTokens, SetFlagTokens, SaveImportTokens,
       OtherTokens DEF SessionActions
  <2> QED BY <2>2, <2>3, <2>4 DEF SessionInv
<1>2. CASE UNCHANGED vars
  <2>1. TypeOK'
    BY <1>0, <1>2 DEF TypeOK, vars, rows, site, history
  <2>2. FlagIsUp'
    BY <1>2 DEF SessionInv, FlagIsUp, Up, vars, rows, history
  <2>3. TokenInv'
    BY <1>2, OtherTokens
  <2> QED BY <2>1, <2>2, <2>3 DEF SessionInv
<1> QED BY <1>1, <1>2

\* The inductive invariant of Sessions.
THEOREM SessionsInvariant == Spec => []SessionInv
  BY SessionsInit, SessionsStep, PTL DEF Spec

\* Stored credentials stay usable: a row holds a token that the site accepts, no
\* token is sent a second time, and what was imported is used.
THEOREM StoredSessionsStayUsable == Spec => []SessionsStayUsable
<1>1. SessionInv => SessionsStayUsable
  <2>1. FlagIsUp => ImportedIsRequired
    BY DEF FlagIsUp, Up, ImportedIsRequired
  <2> QED BY <2>1 DEF SessionInv, TokenInv, SessionsStayUsable
<1> QED BY <1>1, SessionsInvariant, PTL

-----------------------------------------------------------------------------
(* The wish pool: sums of amounts.                                         *)

\* Units of orders with proper amounts are finitely many.
LEMMA UnitsFinite ==
    ASSUME WishAssumption, NEW S \in SUBSET Pledges, NEW row,
           \A o \in S : row[o].amount \in Amounts
    PROVE  IsFiniteSet(Units(S, row)) /\ Cardinality(Units(S, row)) \in Nat
<1>1. IsFiniteSet(Pledges) /\ IsFiniteSet(1..MaxAmount)
  BY FS_Interval DEF WishAssumption, Pledges
<1>2. IsFiniteSet(Pledges \X (1..MaxAmount))
  BY <1>1, FS_Product
<1>3. \A o \in S : {o} \X (1..row[o].amount) \subseteq Pledges \X (1..MaxAmount)
  BY DEF Amounts, WishAssumption
<1>4. Units(S, row) \in SUBSET (Pledges \X (1..MaxAmount))
  BY <1>3 DEF Units
<1> QED BY <1>2, <1>4, FS_Subset, FS_CardinalityType

\* Only the amounts of the orders in the set count.
LEMMA UnitsAgree ==
    ASSUME NEW S, NEW row, NEW new, \A o \in S : new[o].amount = row[o].amount
    PROVE  Units(S, new) = Units(S, row)
<1>1. \A o \in S : {o} \X (1..new[o].amount) = {o} \X (1..row[o].amount)
  OBVIOUS
<1>2. {{o} \X (1..new[o].amount) : o \in S} = {{o} \X (1..row[o].amount) : o \in S}
  BY <1>1
<1> QED BY <1>2 DEF Units

\* Fewer orders, fewer units.
LEMMA UnitsMonotone ==
    ASSUME WishAssumption, NEW S \in SUBSET Pledges, NEW T \in SUBSET S, NEW row,
           \A o \in S : row[o].amount \in Amounts
    PROVE  Cardinality(Units(T, row)) <= Cardinality(Units(S, row))
<1>1. Units(T, row) \in SUBSET Units(S, row)
  BY DEF Units
<1> QED BY <1>1, UnitsFinite, FS_Subset

\* One order more, its amount more.
LEMMA UnitsAdd ==
    ASSUME WishAssumption, NEW S \in SUBSET Pledges, NEW p \in Pledges \ S, NEW row,
           \A o \in S \cup {p} : row[o].amount \in Amounts
    PROVE  Cardinality(Units(S \cup {p}, row)) = Cardinality(Units(S, row)) + row[p].amount
<1> DEFINE n == row[p].amount
           more == {p} \X (1..n)
<1>1. n \in Nat /\ n # 0
  BY DEF Amounts, WishAssumption
<1>4. IsFiniteSet(Units(S, row)) /\ Cardinality(Units(S, row)) \in Nat
  BY UnitsFinite
<1>5. Units(S \cup {p}, row) = Units(S, row) \cup more
  BY DEF Units
<1>6. Units(S, row) \cap more = {}
  <2>1. \A x \in Units(S, row) : x[1] \in S
    BY DEF Units
  <2>2. \A x \in more : x[1] = p
    OBVIOUS
  <2> QED BY <2>1, <2>2
<1>3. IsFiniteSet(more) /\ Cardinality(more) = n
  <2> HIDE DEF n
  <2>1. IsFiniteSet({p}) /\ Cardinality({p}) = 1
    BY FS_Singleton
  <2>2. IsFiniteSet(1..n) /\ Cardinality(1..n) = n
    <3>1. 1 \in Int /\ n \in Int
      BY <1>1
    <3>2. IsFiniteSet(1..n) /\ Cardinality(1..n) = (IF 1 > n THEN 0 ELSE n - 1 + 1)
      BY <3>1, FS_Interval
    <3> QED BY <1>1, <3>2
  <2>3. IsFiniteSet(more) /\ Cardinality(more) = Cardinality({p}) * Cardinality(1..n)
    BY <2>1, <2>2, FS_Product
  <2> QED BY <1>1, <2>1, <2>2, <2>3
<1> HIDE DEF more, n
<1>7. Cardinality(Units(S, row) \cup more)
        = Cardinality(Units(S, row)) + Cardinality(more) - Cardinality({})
  BY <1>3, <1>4, <1>6, FS_Union
<1>8. Cardinality({}) = 0
  BY FS_EmptySet
<1>9. Cardinality(Units(S \cup {p}, row)) = Cardinality(Units(S, row)) + n
  <2>1. Cardinality(Units(S, row) \cup more) = Cardinality(Units(S, row)) + n
    BY <1>1, <1>3, <1>4, <1>7, <1>8
  <2> QED BY <1>5, <2>1, Zenon
<1> QED BY <1>9 DEF n

-----------------------------------------------------------------------------
(* The invariant.                                                          *)

\* What money waits or was paid for is in the table: deleting a wish takes its
\* orders with it, and a number given out again starts without money.
MoneyHasWish ==
    \A o \in Pledges : order[o].state \in {"pending", "paid"} => order[o].wish \in Rows

PoolInv == PoolTypeOK /\ MoneyHasWish /\ PoolKeepsBooks

USE WishAssumption

\* Amounts are numbers.
LEMMA AmountsAreNumbers ==
    /\ Amounts \subseteq Nat \ {0} /\ Goals \cup Grants \cup Offers \subseteq Amounts
    /\ \A n, k \in Nat : n \in Amounts /\ 0 < k /\ k <= n => k \in Amounts
BY DEF Amounts, WishAssumption

\* A row of the tables that is there has its fields.
LEMMA RowOfOrder ==
    ASSUME PoolTypeOK, NEW o \in Pledges, order[o].state # "none" \/ order[o] # NoRow
    PROVE  order[o] \in OrderRow /\ order[o] # NoRow /\ order[o].state \in OrderState
BY DEF PoolTypeOK, NoRow, OrderRow, OrderState

\* The same of a wish.
LEMMA RowOfWish ==
    ASSUME PoolTypeOK, NEW w \in Wishes, wish[w].status # "none" \/ w \in Rows
    PROVE  w \in Rows /\ wish[w] \in WishRow
BY DEF PoolTypeOK, NoWish, WishRow, Rows

\* The table holds wishes only.
LEMMA RowsAreWishes ==
    ASSUME PoolTypeOK, NEW w \in Rows
    PROVE  w \in Wishes /\ wish[w] \in WishRow
BY RowOfWish DEF Rows

\* A handler's next call.
LEMMA WorkType ==
    ASSUME PoolTypeOK, NEW h \in Clients, NEW to \in Job, work' = [work EXCEPT ![h] = to]
    PROVE  work' \in [Clients -> Job]
BY DEF PoolTypeOK

\* The same when the call before it is known.
LEMMA DoType ==
    ASSUME PoolTypeOK, NEW h \in Clients, NEW from, NEW to \in Job, Do(h, from, to)
    PROVE  work' \in [Clients -> Job] /\ work[h].step = from /\ work[h] \in Job
BY WorkType DEF PoolTypeOK, Do

\* What a call of each kind knows.
LEMMA JobFields ==
    ASSUME NEW p \in Job
    PROVE  /\ p.step = "insert" => p.domain \in Domains /\ p.target \in Amounts \cup {NoTarget}
           /\ p.step = "credit" => /\ p.user \in Users /\ p.wish \in Wishes
                                   /\ p.amount \in Amounts /\ p.month \in Months
           /\ p.step = "charge" => p.user \in Users /\ p.wish \in Wishes /\ p.amount \in Amounts
           /\ p.step = "grant" => p.user \in Users
           /\ p.step = "status" => p.wish \in Wishes /\ p.to \in WishStatus
BY DEF Job, Idle

\* Jobs that are written down are jobs.
LEMMA JobsMade ==
    /\ Idle \in Job
    /\ \A d \in Domains, t \in Amounts \cup {NoTarget} :
          [step |-> "insert", domain |-> d, target |-> t] \in Job
    /\ \A u \in Users, w \in Wishes, n \in Amounts, m \in Months :
          [step |-> "credit", user |-> u, wish |-> w, amount |-> n, month |-> m] \in Job
    /\ \A u \in Users, w \in Wishes, n \in Amounts :
          [step |-> "charge", user |-> u, wish |-> w, amount |-> n] \in Job
    /\ \A u \in Users : [step |-> "grant", user |-> u] \in Job
    /\ \A w \in Wishes, to \in WishStatus :
          [step |-> "status", wish |-> w, to |-> to] \in Job
BY DEF Job

-----------------------------------------------------------------------------
(* Money for one wish.                                                     *)

\* The money of a wish is a number.
LEMMA PledgedNat ==
    ASSUME NEW row \in [Pledges -> {NoRow} \cup OrderRow], NEW w
    PROVE  Pledged(w, row) \in Nat
<1>1. PaidFor(w, row) \in SUBSET Pledges
  BY DEF PaidFor
<1>2. \A o \in PaidFor(w, row) : row[o].amount \in Amounts
  BY DEF PaidFor, NoRow, OrderRow
<1> QED BY <1>1, <1>2, UnitsFinite DEF Pledged

\* It stays when no order of the wish changes.
LEMMA PledgedSame ==
    ASSUME NEW row, NEW new, NEW w,
           \A o \in Pledges : /\ o \in PaidFor(w, new) <=> o \in PaidFor(w, row)
                              /\ o \in PaidFor(w, row) => new[o].amount = row[o].amount
    PROVE  Pledged(w, new) = Pledged(w, row)
<1>1. PaidFor(w, new) = PaidFor(w, row)
  BY DEF PaidFor
<1>2. \A o \in PaidFor(w, row) : new[o].amount = row[o].amount
  BY DEF PaidFor
<1>3. Units(PaidFor(w, row), new) = Units(PaidFor(w, row), row)
  BY <1>2, UnitsAgree
<1> QED BY <1>1, <1>3 DEF Pledged

\* It does not shrink when an order becomes paid, nor grow when one ceases to be.
LEMMA PledgedGrows ==
    ASSUME NEW row, NEW new \in [Pledges -> {NoRow} \cup OrderRow], NEW w,
           \A o \in PaidFor(w, row) : o \in PaidFor(w, new) /\ new[o].amount = row[o].amount
    PROVE  Pledged(w, row) <= Pledged(w, new)
<1>1. PaidFor(w, new) \in SUBSET Pledges /\ PaidFor(w, row) \in SUBSET PaidFor(w, new)
  BY DEF PaidFor
<1>2. \A o \in PaidFor(w, new) : new[o].amount \in Amounts
  BY DEF PaidFor, NoRow, OrderRow
<1>3. Units(PaidFor(w, row), new) = Units(PaidFor(w, row), row)
  BY UnitsAgree
<1>4. Cardinality(Units(PaidFor(w, row), new)) <= Cardinality(Units(PaidFor(w, new), new))
  BY <1>1, <1>2, UnitsMonotone
<1> QED BY <1>3, <1>4 DEF Pledged

\* An order counts for its own wish only.
LEMMA OtherWishes ==
    ASSUME PoolTypeOK, NEW o \in Pledges, NEW r \in OrderRow, order' = [order EXCEPT ![o] = r],
           order[o] = NoRow \/ order[o].wish = r.wish
    PROVE  \A w : w # r.wish => Pledged(w, order') = Pledged(w, order)
<1> SUFFICES ASSUME NEW w, w # r.wish
             PROVE  Pledged(w, order') = Pledged(w, order)
  OBVIOUS
<1>1. \A q \in Pledges : q # o => order'[q] = order[q]
  BY DEF PoolTypeOK
<1>2. order'[o] = r
  BY DEF PoolTypeOK
<1>3. o \notin PaidFor(w, order) /\ o \notin PaidFor(w, order')
  BY <1>2 DEF PaidFor, NoRow
<1>4. \A q \in Pledges : /\ q \in PaidFor(w, order') <=> q \in PaidFor(w, order)
                         /\ q \in PaidFor(w, order) => order'[q].amount = order[q].amount
  BY <1>1, <1>3 DEF PaidFor
<1> QED BY <1>4, PledgedSame

\* A wish with an amount of money n has the status that goes with it.
Follows(row, n) ==
    row.target # NoTarget =>
        /\ row.status = "open" => n < row.target
        /\ row.status = "reached" => n >= row.target

\* The property, in these terms.
LEMMA StatusRestated ==
    StatusFollowsMoney <=> \A w \in Rows \ edited : Follows(wish[w], Pledged(w, order))
BY DEF StatusFollowsMoney, Follows

\* A wish without money: newly created, or without any order.
LEMMA NothingPledged ==
    ASSUME PoolTypeOK, MoneyHasWish, NEW w, w \notin Rows
    PROVE  Pledged(w, order) = 0
<1>1. PaidFor(w, order) = {}
  BY DEF PaidFor, MoneyHasWish
<1>2. Units({}, order) = {}
  BY DEF Units
<1>3. Cardinality({}) = 0
  BY FS_EmptySet
<1> QED BY <1>1, <1>2, <1>3 DEF Pledged

\* A new status in a row of the table.
LEMMA StatusSet ==
    ASSUME PoolTypeOK, NEW w \in Rows, NEW to \in WishStatus,
           wish' = [wish EXCEPT ![w].status = to]
    PROVE  /\ wish' \in [Wishes -> {NoWish} \cup WishRow] /\ Rows' = Rows
           /\ \A v \in Wishes : v # w => wish'[v] = wish[v]
           /\ wish'[w].status = to /\ wish'[w].target = wish[w].target
           /\ wish'[w].domain = wish[w].domain
<1>1. w \in Wishes /\ wish[w] \in WishRow /\ wish \in [Wishes -> {NoWish} \cup WishRow]
  BY RowsAreWishes DEF PoolTypeOK
<1> DEFINE r == [wish[w] EXCEPT !.status = to]
<1>2. r \in WishRow /\ r.status = to /\ r.target = wish[w].target /\ r.domain = wish[w].domain
  BY <1>1 DEF WishRow
<1>3. wish' = [wish EXCEPT ![w] = r]
  BY <1>1
<1>4. to # "none" /\ wish[w].status # "none"
  BY <1>1 DEF WishRow, WishStatus
<1> HIDE DEF r
<1> QED BY <1>1, <1>2, <1>3, <1>4 DEF Rows

\* A payment, from an order or from credit, leaves the status right.
LEMMA PaymentIsCounted ==
    ASSUME PoolTypeOK, StatusFollowsMoney, OneWishPerDomain, NEW w \in Rows,
           order' \in [Pledges -> {NoRow} \cup OrderRow], PaymentCounts(w),
           Pledged(w, order) <= Pledged(w, order'),
           \A v \in Wishes : v # w => Pledged(v, order') = Pledged(v, order)
    PROVE  /\ wish' \in [Wishes -> {NoWish} \cup WishRow] /\ Rows' = Rows
           /\ edited' \subseteq Wishes
           /\ StatusFollowsMoney' /\ OneWishPerDomain'
<1>1. w \in Wishes /\ wish[w] \in WishRow
  BY RowsAreWishes
<1>2. Pledged(w, order) \in Nat /\ Pledged(w, order') \in Nat
  BY PledgedNat DEF PoolTypeOK
<1>3. \A v \in Rows : v \in Wishes
  BY RowsAreWishes
<1>4. \A v \in Rows \ edited : Follows(wish[v], Pledged(v, order))
  BY StatusRestated
<1>5. wish[w].target \in Nat
  BY <1>1 DEF WishRow, NoTarget, Amounts
<1>6. CASE wish[w].status # "open"
  <2>1. UNCHANGED <<wish, edited>> /\ Rows' = Rows
    BY <1>6 DEF PaymentCounts, Rows
  <2>2. \A v \in Rows \ edited : Follows(wish[v], Pledged(v, order'))
    BY <1>1, <1>2, <1>3, <1>4, <1>5, <1>6 DEF Follows
  <2>3. StatusFollowsMoney'
    BY <2>1, <2>2 DEF StatusFollowsMoney, Follows
  <2> QED BY <2>1, <2>3 DEF PoolTypeOK, OneWishPerDomain
<1>7. CASE wish[w].status = "open" /\ wish[w].target \in 1..Pledged(w, order')
  <2>1. wish' = [wish EXCEPT ![w].status = "reached"] /\ edited' = edited \ {w}
    BY <1>7 DEF PaymentCounts
  <2>2. /\ wish' \in [Wishes -> {NoWish} \cup WishRow] /\ Rows' = Rows
        /\ \A v \in Wishes : v # w => wish'[v] = wish[v]
        /\ wish'[w].status = "reached" /\ wish'[w].target = wish[w].target
        /\ wish'[w].domain = wish[w].domain
    BY <2>1, StatusSet DEF WishStatus
  <2>3. \A v \in Rows \ edited' : Follows(wish'[v], Pledged(v, order'))
    <3> SUFFICES ASSUME NEW v \in Rows, v \notin edited' PROVE Follows(wish'[v], Pledged(v, order'))
      OBVIOUS
    <3>1. CASE v = w
      BY <1>2, <1>5, <1>7, <2>2, <3>1 DEF Follows
    <3>2. CASE v # w
      BY <1>3, <1>4, <2>1, <2>2, <3>2
    <3> QED BY <3>1, <3>2
  <2>4. StatusFollowsMoney'
    BY <2>2, <2>3 DEF StatusFollowsMoney, Follows
  <2>5. OneWishPerDomain'
    BY <1>3, <2>2 DEF OneWishPerDomain
  <2> QED BY <2>1, <2>2, <2>4, <2>5 DEF PoolTypeOK
<1>8. CASE wish[w].status = "open" /\ wish[w].target \notin 1..Pledged(w, order')
  <2>1. wish' = wish /\ edited' = edited \ {w} /\ Rows' = Rows
    BY <1>8 DEF PaymentCounts, Rows
  <2>2. \A v \in Rows \ edited' : Follows(wish[v], Pledged(v, order'))
    <3> SUFFICES ASSUME NEW v \in Rows, v \notin edited' PROVE Follows(wish[v], Pledged(v, order'))
      OBVIOUS
    <3>1. CASE v = w
      BY <1>2, <1>5, <1>8, <3>1 DEF Follows, NoTarget
    <3>2. CASE v # w
      BY <1>3, <1>4, <2>1, <3>2
    <3> QED BY <3>1, <3>2
  <2>3. StatusFollowsMoney'
    BY <2>1, <2>2 DEF StatusFollowsMoney, Follows
  <2> QED BY <2>1, <2>3 DEF PoolTypeOK, OneWishPerDomain
<1> QED BY <1>6, <1>7, <1>8

\* So does a refund.
LEMMA RefundIsCounted ==
    ASSUME PoolTypeOK, StatusFollowsMoney, OneWishPerDomain, NEW w \in Rows,
           order' \in [Pledges -> {NoRow} \cup OrderRow], RefundCounts(w),
           Pledged(w, order') <= Pledged(w, order),
           \A v \in Wishes : v # w => Pledged(v, order') = Pledged(v, order)
    PROVE  /\ wish' \in [Wishes -> {NoWish} \cup WishRow] /\ Rows' = Rows
           /\ edited' \subseteq Wishes
           /\ StatusFollowsMoney' /\ OneWishPerDomain'
<1>1. w \in Wishes /\ wish[w] \in WishRow
  BY RowsAreWishes
<1>2. Pledged(w, order) \in Nat /\ Pledged(w, order') \in Nat
  BY PledgedNat DEF PoolTypeOK
<1>3. \A v \in Rows : v \in Wishes
  BY RowsAreWishes
<1>4. \A v \in Rows \ edited : Follows(wish[v], Pledged(v, order))
  BY StatusRestated
<1>5. wish[w].target \in Nat
  BY <1>1 DEF WishRow, NoTarget, Amounts
<1> DEFINE Counted == wish[w].status = "reached" /\ wish[w].target # NoTarget
<1>6. CASE ~Counted
  <2>1. UNCHANGED <<wish, edited>> /\ Rows' = Rows
    BY <1>6 DEF RefundCounts, Rows
  <2>2. \A v \in Rows \ edited : Follows(wish[v], Pledged(v, order'))
    BY <1>1, <1>2, <1>3, <1>4, <1>5, <1>6 DEF Follows
  <2>3. StatusFollowsMoney'
    BY <2>1, <2>2 DEF StatusFollowsMoney, Follows
  <2> QED BY <2>1, <2>3 DEF PoolTypeOK, OneWishPerDomain
<1>7. CASE Counted /\ wish[w].target > Pledged(w, order')
  <2>1. wish' = [wish EXCEPT ![w].status = "open"] /\ edited' = edited \ {w}
    BY <1>7 DEF RefundCounts
  <2>2. /\ wish' \in [Wishes -> {NoWish} \cup WishRow] /\ Rows' = Rows
        /\ \A v \in Wishes : v # w => wish'[v] = wish[v]
        /\ wish'[w].status = "open" /\ wish'[w].target = wish[w].target
        /\ wish'[w].domain = wish[w].domain
    BY <2>1, StatusSet DEF WishStatus
  <2>3. \A v \in Rows \ edited' : Follows(wish'[v], Pledged(v, order'))
    <3> SUFFICES ASSUME NEW v \in Rows, v \notin edited' PROVE Follows(wish'[v], Pledged(v, order'))
      OBVIOUS
    <3>1. CASE v = w
      BY <1>2, <1>5, <1>7, <2>2, <3>1 DEF Follows
    <3>2. CASE v # w
      BY <1>3, <1>4, <2>1, <2>2, <3>2
    <3> QED BY <3>1, <3>2
  <2>4. StatusFollowsMoney'
    BY <2>2, <2>3 DEF StatusFollowsMoney, Follows
  <2>5. OneWishPerDomain'
    BY <1>3, <2>2 DEF OneWishPerDomain
  <2> QED BY <2>1, <2>2, <2>4, <2>5 DEF PoolTypeOK
<1>8. CASE Counted /\ ~(wish[w].target > Pledged(w, order'))
  <2>1. wish' = wish /\ edited' = edited \ {w} /\ Rows' = Rows
    BY <1>8 DEF RefundCounts, Rows
  <2>2. \A v \in Rows \ edited' : Follows(wish[v], Pledged(v, order'))
    <3> SUFFICES ASSUME NEW v \in Rows, v \notin edited' PROVE Follows(wish[v], Pledged(v, order'))
      OBVIOUS
    <3>1. CASE v = w
      BY <1>2, <1>5, <1>8, <3>1 DEF Follows
    <3>2. CASE v # w
      BY <1>3, <1>4, <2>1, <3>2
    <3> QED BY <3>1, <3>2
  <2>3. StatusFollowsMoney'
    BY <2>1, <2>2 DEF StatusFollowsMoney, Follows
  <2> QED BY <2>1, <2>3 DEF PoolTypeOK, OneWishPerDomain
<1> QED BY <1>6, <1>7, <1>8

-----------------------------------------------------------------------------
(* Credit.                                                                 *)

\* What is paid from a month's credit is told by who pledged it, for which
\* month, and how much; whether it is paid, refunded or deleted is no matter.
LEMMA CreditSame ==
    ASSUME CreditMatchesOrders, debited' = debited,
           \A o \in Pledges :
              /\ order'[o] = NoRow <=> order[o] = NoRow
              /\ order[o] # NoRow => /\ order'[o].user = order[o].user
                                     /\ order'[o].month = order[o].month
                                     /\ order'[o].amount = order[o].amount
    PROVE  CreditMatchesOrders'
<1> SUFFICES ASSUME NEW u \in Users, NEW m \in Months
             PROVE  debited[u][m] = Cardinality(Units(PaidFromCredit(u, m)', order'))
  BY DEF CreditMatchesOrders
<1>1. PaidFromCredit(u, m)' = PaidFromCredit(u, m)
  BY DEF PaidFromCredit
<1>2. \A o \in PaidFromCredit(u, m) : order'[o].amount = order[o].amount
  BY DEF PaidFromCredit
<1>3. Units(PaidFromCredit(u, m), order') = Units(PaidFromCredit(u, m), order)
  BY <1>2, UnitsAgree
<1>4. debited[u][m] = Cardinality(Units(PaidFromCredit(u, m), order))
  BY DEF CreditMatchesOrders
<1> QED BY <1>1, <1>3, <1>4

\* A new order is in the account of its user and its month only.
LEMMA CreditElsewhere ==
    ASSUME PoolTypeOK, NEW o \in Pledges, order[o] = NoRow, NEW r \in OrderRow,
           order' = [order EXCEPT ![o] = r], NEW u, NEW m, r.user # u \/ r.month # m
    PROVE  Cardinality(Units(PaidFromCredit(u, m)', order'))
             = Cardinality(Units(PaidFromCredit(u, m), order))
<1>1. \A q \in Pledges : q # o => order'[q] = order[q]
  BY DEF PoolTypeOK
<1>2. order'[o] = r
  BY DEF PoolTypeOK
<1>3. o \notin PaidFromCredit(u, m) /\ o \notin PaidFromCredit(u, m)'
  BY <1>2 DEF PaidFromCredit
<1>4. PaidFromCredit(u, m)' = PaidFromCredit(u, m)
  BY <1>1, <1>3 DEF PaidFromCredit
<1>5. \A q \in PaidFromCredit(u, m) : order'[q].amount = order[q].amount
  BY <1>1, <1>3 DEF PaidFromCredit
<1>6. Units(PaidFromCredit(u, m), order') = Units(PaidFromCredit(u, m), order)
  BY <1>5, UnitsAgree
<1> QED BY <1>4, <1>6

\* There it adds its amount.
LEMMA CreditOnce ==
    ASSUME PoolTypeOK, NEW o \in Pledges, order[o] = NoRow, NEW r \in OrderRow,
           order' = [order EXCEPT ![o] = r], NEW u, NEW m, r.user = u, r.month = m
    PROVE  Cardinality(Units(PaidFromCredit(u, m)', order'))
             = Cardinality(Units(PaidFromCredit(u, m), order)) + r.amount
<1> DEFINE S == PaidFromCredit(u, m)
<1>1. \A q \in Pledges : q # o => order'[q] = order[q]
  BY DEF PoolTypeOK
<1>2. order'[o] = r /\ r # NoRow
  BY DEF PoolTypeOK, OrderRow, OrderState, NoRow
<1>3. S \in SUBSET Pledges /\ o \in Pledges \ S
  BY DEF PaidFromCredit
<1>4. PaidFromCredit(u, m)' = S \cup {o}
  BY <1>1, <1>2 DEF PaidFromCredit
<1>5. \A q \in S : order'[q].amount = order[q].amount
  BY <1>1, <1>3
<1>6. \A q \in S \cup {o} : order'[q].amount \in Amounts
  BY <1>2, <1>3, <1>5 DEF PaidFromCredit, PoolTypeOK, OrderRow
<1> HIDE DEF S
<1>7. Cardinality(Units(S \cup {o}, order')) = Cardinality(Units(S, order')) + order'[o].amount
  BY <1>3, <1>6, UnitsAdd
<1>8. Units(S, order') = Units(S, order)
  BY <1>5, UnitsAgree
<1>9. Cardinality(Units(PaidFromCredit(u, m)', order'))
        = Cardinality(Units(S, order)) + r.amount
  BY <1>2, <1>4, <1>7, <1>8
<1> QED BY <1>9 DEF S

\* The monthly grant is given once and takes nothing away.
LEMMA GrantGives ==
    ASSUME PoolTypeOK, NEW u \in Users, NEW m \in Months, NEW g \in Grants
    PROVE  /\ Grant(u, m, g) \in [Users -> [Months -> Amounts \cup {0}]]
           /\ \A v \in Users, k \in Months : credit[v][k] <= Grant(u, m, g)[v][k]
<1>1. credit \in [Users -> [Months -> Amounts \cup {0}]] /\ g \in Amounts
  BY AmountsAreNumbers DEF PoolTypeOK
<1>2. \A v \in Users, k \in Months : credit[v][k] \in Nat
  BY <1>1 DEF Amounts
<1>3. CASE credit[u][m] # 0
  BY <1>1, <1>2, <1>3 DEF Grant
<1>4. CASE credit[u][m] = 0
  <2> DEFINE g1 == [credit EXCEPT ![u][m] = g]
  <2>1. g1 \in [Users -> [Months -> Amounts \cup {0}]]
    BY <1>1
  <2>2. \A v \in Users, k \in Months : g1[v][k] = credit[v][k] \/ (v = u /\ k = m /\ g1[v][k] = g)
    BY <1>1
  <2>3. \A v \in Users, k \in Months : credit[v][k] <= g1[v][k]
    BY <1>1, <1>2, <1>4, <2>2 DEF Amounts
  <2> QED BY <1>4, <2>1, <2>3 DEF Grant
<1> QED BY <1>3, <1>4

\* Credit pays for what is left of it and no more than what is asked.
LEMMA ConsumeBound ==
    ASSUME NEW left \in Nat, NEW k \in Nat
    PROVE  Consume(left, k) \in Nat /\ Consume(left, k) <= left /\ Consume(left, k) <= k
<1>1. \E x \in {left, k} : \A y \in {left, k} : x <= y
  OBVIOUS
<1>2. PICK x \in {left, k} : x = Consume(left, k) /\ \A y \in {left, k} : x <= y
  BY <1>1 DEF Consume, Min
<1> QED BY <1>2

-----------------------------------------------------------------------------
(* One step after the other.                                               *)

\* Initially there are no wishes, no orders and no credit.
LEMMA PoolStart == PoolInit => PoolInv
<1> SUFFICES ASSUME PoolInit PROVE PoolInv
  OBVIOUS
<1>1. PoolTypeOK
  BY DEF PoolInit, PoolTypeOK, Months, Job
<1>2. Rows = {}
  BY DEF PoolInit, Rows, NoWish
<1>3. MoneyHasWish
  BY DEF PoolInit, MoneyHasWish, NoRow
<1>4. \A u \in Users, m \in Months : PaidFromCredit(u, m) = {} /\ debited[u][m] = 0
  BY DEF PoolInit, PaidFromCredit
<1>5. Cardinality(Units({}, order)) = 0
  BY FS_EmptySet DEF Units
<1>6. CreditMatchesOrders
  BY <1>4, <1>5 DEF CreditMatchesOrders
<1> QED BY <1>1, <1>2, <1>3, <1>6
        DEF PoolInv, PoolKeepsBooks, OneWishPerDomain, StatusFollowsMoney

\* Steps that leave the books alone.
LEMMA BooksKept ==
    ASSUME PoolInv, UNCHANGED poolBooks,
           members' \subseteq Users, month' \in Months, work' \in [Clients -> Job]
    PROVE  PoolInv'
<1>1. PoolTypeOK' /\ MoneyHasWish'
  BY DEF PoolInv, PoolTypeOK, MoneyHasWish, poolBooks, Rows
<1>2. Rows' = Rows
  BY DEF Rows, poolBooks
<1>3. OneWishPerDomain' /\ StatusFollowsMoney'
  BY <1>2 DEF PoolInv, PoolKeepsBooks, OneWishPerDomain, StatusFollowsMoney, poolBooks
<1>4. \A u, m : PaidFromCredit(u, m)' = PaidFromCredit(u, m)
  BY DEF PaidFromCredit, poolBooks
<1>5. CreditMatchesOrders'
  BY <1>4 DEF PoolInv, PoolKeepsBooks, CreditMatchesOrders, poolBooks
<1> QED BY <1>1, <1>3, <1>5 DEF PoolInv, PoolKeepsBooks

\* Steps that write to the table of wishes alone.
LEMMA OrdersKept ==
    ASSUME PoolInv, UNCHANGED <<order, credit, debited, outside>>,
           work' \in [Clients -> Job], edited' \subseteq Wishes,
           wish' \in [Wishes -> {NoWish} \cup WishRow], Rows \subseteq Rows',
           OneWishPerDomain', StatusFollowsMoney'
    PROVE  PoolInv'
<1>1. PoolTypeOK'
  BY DEF PoolInv, PoolTypeOK, outside
<1>2. MoneyHasWish'
  BY DEF PoolInv, MoneyHasWish
<1>3. \A u, m : PaidFromCredit(u, m)' = PaidFromCredit(u, m)
  BY DEF PaidFromCredit
<1>4. CreditMatchesOrders'
  BY <1>3 DEF PoolInv, PoolKeepsBooks, CreditMatchesOrders
<1> QED BY <1>1, <1>2, <1>4 DEF PoolInv, PoolKeepsBooks

\* A wish comes in under the next id.
LEMMA InsertKeeps ==
    ASSUME PoolInv, NEW h \in Clients, Insert(h)
    PROVE  PoolInv'
<1>0. PoolTypeOK /\ MoneyHasWish /\ OneWishPerDomain /\ StatusFollowsMoney
  BY DEF PoolInv, PoolKeepsBooks
<1>1. work' \in [Clients -> Job] /\ work[h].step = "insert" /\ work[h] \in Job
  BY <1>0, DoType, JobsMade DEF Insert
<1>2. work[h].domain \in Domains /\ work[h].target \in Amounts \cup {NoTarget}
  BY <1>1, JobFields
<1>3. CASE UNCHANGED <<wish, edited>>
  BY <1>0, <1>1, <1>3, BooksKept DEF Insert, outside, poolBooks, PoolTypeOK
<1>4. CASE \E w \in Wishes :
             /\ NewId(w) /\ \A v \in Rows : wish[v].domain # work[h].domain
             /\ wish' = [wish EXCEPT ![w] = [status |-> "open",
                             domain |-> work[h].domain, target |-> work[h].target]]
             /\ edited' = edited \ {w}
  <2> DEFINE r == [status |-> "open", domain |-> work[h].domain, target |-> work[h].target]
  <2>1. PICK w \in Wishes :
             /\ NewId(w) /\ \A v \in Rows : wish[v].domain # work[h].domain
             /\ wish' = [wish EXCEPT ![w] = r]
             /\ edited' = edited \ {w}
    BY <1>4
  <2>2. r \in WishRow /\ r.status = "open" /\ r.domain = work[h].domain
    BY <1>2 DEF WishRow, WishStatus
  <2> HIDE DEF r
  <2>3. w \notin Rows
    BY <2>1 DEF NewId, Rows, Wishes, WishAssumption
  <2>4. /\ wish' \in [Wishes -> {NoWish} \cup WishRow] /\ wish'[w] = r
        /\ \A v \in Wishes : v # w => wish'[v] = wish[v]
    BY <1>0, <2>1, <2>2 DEF PoolTypeOK
  <2>5. Rows' = Rows \cup {w} /\ Rows \subseteq Wishes
    BY <2>2, <2>4 DEF Rows
  <2>6. OneWishPerDomain'
    BY <1>0, <2>1, <2>2, <2>3, <2>4, <2>5 DEF OneWishPerDomain
  <2>7. Pledged(w, order) = 0
    BY <1>0, <2>3, NothingPledged
  <2>8. r.target \in Nat
    BY <2>2 DEF WishRow, Amounts, NoTarget
  <2>9. Follows(r, 0)
    BY <2>2, <2>8 DEF Follows, NoTarget
  <2>10. \A v \in Rows' \ edited' : Follows(wish'[v], Pledged(v, order))
    BY <1>0, <2>1, <2>3, <2>4, <2>5, <2>7, <2>9, StatusRestated
  <2>11. StatusFollowsMoney'
    BY <2>10 DEF StatusFollowsMoney, Follows, Insert
  <2> QED BY <1>0, <1>1, <2>1, <2>4, <2>5, <2>6, <2>11, OrdersKept DEF Insert, PoolTypeOK
<1> QED BY <1>3, <1>4 DEF Insert

\* An administrator sets the target or the status; what he sets is his.
LEMMA SetTargetKeeps ==
    ASSUME PoolInv, NEW w \in Wishes, NEW t \in Goals, SetTarget(w, t), work' \in [Clients -> Job]
    PROVE  PoolInv'
<1>0. PoolTypeOK /\ OneWishPerDomain /\ StatusFollowsMoney
  BY DEF PoolInv, PoolKeepsBooks
<1>1. w \in Rows /\ wish[w] \in WishRow /\ t \in Amounts
  BY <1>0, RowOfWish, AmountsAreNumbers DEF SetTarget
<1> DEFINE r == [wish[w] EXCEPT !.target = t]
<1>2. r \in WishRow /\ r.domain = wish[w].domain /\ r.status = wish[w].status
  BY <1>1 DEF WishRow
<1>3. wish' = [wish EXCEPT ![w] = r]
  BY <1>1 DEF SetTarget
<1> HIDE DEF r
<1>4. /\ wish' \in [Wishes -> {NoWish} \cup WishRow] /\ wish'[w] = r
      /\ \A v \in Wishes : v # w => wish'[v] = wish[v]
  BY <1>0, <1>2, <1>3 DEF PoolTypeOK
<1>5. Rows' = Rows /\ Rows \subseteq Wishes /\ edited' = edited \cup {w}
  BY <1>2, <1>4 DEF Rows, SetTarget
<1>6. OneWishPerDomain'
  BY <1>0, <1>2, <1>4, <1>5 DEF OneWishPerDomain
<1>7. \A v \in Rows' \ edited' : Follows(wish'[v], Pledged(v, order))
  BY <1>0, <1>4, <1>5, StatusRestated
<1>8. StatusFollowsMoney'
  BY <1>7 DEF StatusFollowsMoney, Follows, SetTarget
<1> QED BY <1>0, <1>4, <1>5, <1>6, <1>8, OrdersKept DEF SetTarget, PoolTypeOK

\* The same of the status.
LEMMA SetStatusKeeps ==
    ASSUME PoolInv, NEW w \in Wishes, NEW to \in WishStatus, SetWishStatus(w, to),
           work' \in [Clients -> Job]
    PROVE  PoolInv'
<1>0. PoolTypeOK /\ OneWishPerDomain /\ StatusFollowsMoney
  BY DEF PoolInv, PoolKeepsBooks
<1>1. CASE w \notin Rows
  BY <1>0, <1>1, BooksKept DEF SetWishStatus, outside, poolBooks, PoolTypeOK
<1>2. CASE w \in Rows
  <2>1. /\ wish' \in [Wishes -> {NoWish} \cup WishRow] /\ Rows' = Rows
        /\ \A v \in Wishes : v # w => wish'[v] = wish[v]
        /\ wish'[w].domain = wish[w].domain
    BY <1>0, <1>2, StatusSet DEF SetWishStatus
  <2>2. Rows \subseteq Wishes /\ edited' = edited \cup {w}
    BY <1>2 DEF Rows, SetWishStatus
  <2>3. OneWishPerDomain'
    BY <1>0, <2>1, <2>2 DEF OneWishPerDomain
  <2>4. \A v \in Rows' \ edited' : Follows(wish'[v], Pledged(v, order))
    BY <1>0, <2>1, <2>2, StatusRestated
  <2>5. StatusFollowsMoney'
    BY <2>4 DEF StatusFollowsMoney, Follows, SetWishStatus
  <2> QED BY <1>0, <2>1, <2>2, <2>3, <2>5, OrdersKept DEF SetWishStatus, PoolTypeOK
<1> QED BY <1>1, <1>2

\* The wish goes, and its orders with it; the credit in them stays used.
LEMMA DeleteKeeps ==
    ASSUME PoolInv, NEW w \in Wishes, DeleteWishSite(w)
    PROVE  PoolInv'
<1>0. PoolTypeOK /\ MoneyHasWish /\ OneWishPerDomain /\ StatusFollowsMoney /\ CreditMatchesOrders
  BY DEF PoolInv, PoolKeepsBooks
<1>1. \A o \in Pledges :
         IF order[o] # NoRow /\ order[o].wish = w
           THEN /\ order[o] \in OrderRow /\ order'[o] \in OrderRow
                /\ order'[o].state = "deleted" /\ order'[o].user = order[o].user
                /\ order'[o].wish = w
                /\ order'[o].month = order[o].month /\ order'[o].amount = order[o].amount
           ELSE order'[o] = order[o]
  <2> SUFFICES ASSUME NEW o \in Pledges, order[o] # NoRow, order[o].wish = w
               PROVE  /\ order[o] \in OrderRow /\ order'[o] \in OrderRow
                      /\ order'[o].state = "deleted" /\ order'[o].user = order[o].user
                      /\ order'[o].wish = w
                      /\ order'[o].month = order[o].month /\ order'[o].amount = order[o].amount
    BY DEF DeleteWishSite
  <2>1. order[o] \in OrderRow
    BY <1>0, RowOfOrder
  <2>2. order'[o] = [order[o] EXCEPT !.state = "deleted"]
    BY DEF DeleteWishSite
  <2> QED BY <2>1, <2>2 DEF OrderRow, OrderState
<1>2. order' \in [Pledges -> {NoRow} \cup OrderRow]
  <2>1. order' = [o \in Pledges |-> order'[o]]
    BY DEF DeleteWishSite
  <2>2. \A o \in Pledges : order'[o] \in {NoRow} \cup OrderRow
    BY <1>0, <1>1 DEF PoolTypeOK
  <2> QED BY <2>1, <2>2
<1>3. /\ wish' \in [Wishes -> {NoWish} \cup WishRow] /\ wish'[w] = NoWish
      /\ \A v \in Wishes : v # w => wish'[v] = wish[v]
  BY <1>0 DEF PoolTypeOK, DeleteWishSite
<1>4. Rows' = Rows \ {w} /\ Rows \subseteq Wishes
  BY <1>3 DEF Rows, NoWish
<1>5. PoolTypeOK'
  BY <1>0, <1>2, <1>3 DEF PoolTypeOK, DeleteWishSite, outside
<1>6. MoneyHasWish'
  <2> SUFFICES ASSUME NEW o \in Pledges, order'[o].state \in {"pending", "paid"}
               PROVE  order'[o].wish \in Rows \ {w}
    BY <1>4 DEF MoneyHasWish
  <2>1. order'[o] = order[o] /\ (order[o] = NoRow \/ order[o].wish # w)
    BY <1>1
  <2>2. order[o] # NoRow
    BY <2>1 DEF NoRow
  <2> QED BY <1>0, <2>1, <2>2 DEF MoneyHasWish
<1>7. OneWishPerDomain'
  BY <1>0, <1>3, <1>4 DEF OneWishPerDomain
<1>8. \A v \in Rows \ {w} : Pledged(v, order') = Pledged(v, order)
  <2> SUFFICES ASSUME NEW v, v # w PROVE Pledged(v, order') = Pledged(v, order)
    OBVIOUS
  <2>1. \A o \in Pledges : /\ o \in PaidFor(v, order') <=> o \in PaidFor(v, order)
                           /\ o \in PaidFor(v, order) => order'[o].amount = order[o].amount
    BY <1>1 DEF PaidFor, NoRow
  <2> QED BY <2>1, PledgedSame
<1>9. \A v \in Rows' \ edited' : Follows(wish'[v], Pledged(v, order'))
  BY <1>0, <1>3, <1>4, <1>8, StatusRestated DEF DeleteWishSite
<1>10. StatusFollowsMoney'
  BY <1>9 DEF StatusFollowsMoney, Follows
<1>11. CreditMatchesOrders'
  <2>1. \A o \in Pledges :
           /\ order'[o] = NoRow <=> order[o] = NoRow
           /\ order[o] # NoRow => /\ order'[o].user = order[o].user
                                  /\ order'[o].month = order[o].month
                                  /\ order'[o].amount = order[o].amount
    BY <1>1 DEF NoRow
  <2>2. debited' = debited
    BY DEF DeleteWishSite
  <2> QED BY <1>0, <2>1, <2>2, CreditSame
<1> QED BY <1>5, <1>6, <1>7, <1>10, <1>11 DEF PoolInv, PoolKeepsBooks

\* A new state of an order.
LEMMA StateSet ==
    ASSUME PoolTypeOK, NEW o \in Pledges, order[o].state # "none", NEW to \in OrderState,
           order' = [order EXCEPT ![o].state = to]
    PROVE  /\ order[o] \in OrderRow
           /\ order' \in [Pledges -> {NoRow} \cup OrderRow]
           /\ order'[o] \in OrderRow /\ order' = [order EXCEPT ![o] = order'[o]]
           /\ \A q \in Pledges : q # o => order'[q] = order[q]
           /\ order'[o].state = to /\ order'[o].wish = order[o].wish
           /\ order'[o].amount = order[o].amount
           /\ \A q \in Pledges :
                 /\ order'[q] = NoRow <=> order[q] = NoRow
                 /\ order[q] # NoRow => /\ order'[q].user = order[q].user
                                        /\ order'[q].month = order[q].month
                                        /\ order'[q].amount = order[q].amount
<1>1. order[o] \in OrderRow /\ order[o] # NoRow /\ order \in [Pledges -> {NoRow} \cup OrderRow]
  BY RowOfOrder DEF PoolTypeOK
<1> DEFINE r == [order[o] EXCEPT !.state = to]
<1>2. /\ r \in OrderRow /\ r.state = to /\ r.wish = order[o].wish /\ r.user = order[o].user
      /\ r.month = order[o].month /\ r.amount = order[o].amount
  BY <1>1 DEF OrderRow
<1>3. r # NoRow
  BY <1>2 DEF NoRow, OrderState
<1>4. order' = [order EXCEPT ![o] = r]
  BY <1>1
<1> HIDE DEF r
<1>5. order' \in [Pledges -> {NoRow} \cup OrderRow] /\ order'[o] = r
      /\ \A q \in Pledges : q # o => order'[q] = order[q]
  BY <1>1, <1>2, <1>4
<1> QED BY <1>1, <1>2, <1>3, <1>4, <1>5

\* The platform reports a payment.
LEMMA PaidKeeps ==
    ASSUME PoolInv, NEW o \in Pledges, MarkPledgePaid(o)
    PROVE  PoolInv'
<1>0. PoolTypeOK /\ MoneyHasWish /\ OneWishPerDomain /\ StatusFollowsMoney /\ CreditMatchesOrders
  BY DEF PoolInv, PoolKeepsBooks
<1>1. order[o].state = "pending" /\ order' = [order EXCEPT ![o].state = "paid"]
  BY DEF MarkPledgePaid
<1> DEFINE w == order[o].wish
<1>2. /\ order[o] \in OrderRow
      /\ order' \in [Pledges -> {NoRow} \cup OrderRow]
      /\ order'[o] \in OrderRow /\ order' = [order EXCEPT ![o] = order'[o]]
      /\ \A q \in Pledges : q # o => order'[q] = order[q]
      /\ order'[o].state = "paid" /\ order'[o].wish = order[o].wish
      /\ order'[o].amount = order[o].amount
      /\ \A q \in Pledges :
            /\ order'[q] = NoRow <=> order[q] = NoRow
            /\ order[q] # NoRow => /\ order'[q].user = order[q].user
                                   /\ order'[q].month = order[q].month
                                   /\ order'[q].amount = order[q].amount
  BY <1>0, <1>1, StateSet DEF OrderState
<1>3. \E r \in OrderRow : order' = [order EXCEPT ![o] = r] /\ r.wish = w
  BY <1>2
<1>4. \A v : v # w => Pledged(v, order') = Pledged(v, order)
  <2>1. PICK r \in OrderRow : order' = [order EXCEPT ![o] = r] /\ r.wish = w
    BY <1>3
  <2>4. order[o].wish = r.wish
    BY <2>1
  <2> HIDE DEF w
  <2>3. \A v : v # r.wish => Pledged(v, order') = Pledged(v, order)
    BY <1>0, <2>1, <2>4, OtherWishes
  <2> QED BY <2>1, <2>3
<1>5. \A q \in PaidFor(w, order) : q \in PaidFor(w, order') /\ order'[q].amount = order[q].amount
  BY <1>1, <1>2 DEF PaidFor
<1>6. Pledged(w, order) <= Pledged(w, order')
  BY <1>2, <1>5, PledgedGrows
<1>7. w \in Rows
  BY <1>0, <1>1 DEF MoneyHasWish
<1>8. PaymentCounts(w)
  BY DEF MarkPledgePaid
<1> HIDE DEF w
<1>9. /\ wish' \in [Wishes -> {NoWish} \cup WishRow] /\ Rows' = Rows
      /\ edited' \subseteq Wishes
      /\ StatusFollowsMoney' /\ OneWishPerDomain'
  BY <1>0, <1>2, <1>4, <1>6, <1>7, <1>8, PaymentIsCounted
<1>10. PoolTypeOK'
  BY <1>0, <1>2, <1>9 DEF PoolTypeOK, MarkPledgePaid, outside
<1>11. MoneyHasWish'
  BY <1>0, <1>2, <1>7, <1>9 DEF MoneyHasWish, w
<1>12. CreditMatchesOrders'
  BY <1>0, <1>2, CreditSame DEF MarkPledgePaid
<1> QED BY <1>9, <1>10, <1>11, <1>12 DEF PoolInv, PoolKeepsBooks

\* A pending order ends without money.
LEMMA CancelKeeps ==
    ASSUME PoolInv, NEW o \in Pledges, CancelPledge(o)
    PROVE  PoolInv'
<1>0. PoolTypeOK /\ MoneyHasWish /\ OneWishPerDomain /\ StatusFollowsMoney /\ CreditMatchesOrders
  BY DEF PoolInv, PoolKeepsBooks
<1>1. order[o].state = "pending" /\ order' = [order EXCEPT ![o].state = "cancelled"]
  BY DEF CancelPledge
<1>2. /\ order' \in [Pledges -> {NoRow} \cup OrderRow]
      /\ \A q \in Pledges : q # o => order'[q] = order[q]
      /\ order'[o].state = "cancelled"
      /\ \A q \in Pledges :
            /\ order'[q] = NoRow <=> order[q] = NoRow
            /\ order[q] # NoRow => /\ order'[q].user = order[q].user
                                   /\ order'[q].month = order[q].month
                                   /\ order'[q].amount = order[q].amount
  BY <1>0, <1>1, StateSet DEF OrderState
<1>3. UNCHANGED <<wish, edited>> /\ Rows' = Rows
  BY DEF CancelPledge, Rows
<1>4. PoolTypeOK'
  BY <1>0, <1>2 DEF PoolTypeOK, CancelPledge, outside
<1>5. MoneyHasWish'
  BY <1>0, <1>2, <1>3 DEF MoneyHasWish
<1>6. \A v : Pledged(v, order') = Pledged(v, order)
  <2> TAKE v
  <2>1. \A q \in Pledges : /\ q \in PaidFor(v, order') <=> q \in PaidFor(v, order)
                           /\ q \in PaidFor(v, order) => order'[q].amount = order[q].amount
    BY <1>1, <1>2 DEF PaidFor
  <2> QED BY <2>1, PledgedSame
<1>7. StatusFollowsMoney' /\ OneWishPerDomain'
  BY <1>0, <1>3, <1>6 DEF StatusFollowsMoney, OneWishPerDomain
<1>8. CreditMatchesOrders'
  BY <1>0, <1>2, CreditSame DEF CancelPledge
<1> QED BY <1>4, <1>5, <1>7, <1>8 DEF PoolInv, PoolKeepsBooks

\* Money goes back to the user; the credit of the month stays used.
LEMMA RefundKeeps ==
    ASSUME PoolInv, NEW o \in Pledges, MarkPledgeRefunded(o)
    PROVE  PoolInv'
<1>0. PoolTypeOK /\ MoneyHasWish /\ OneWishPerDomain /\ StatusFollowsMoney /\ CreditMatchesOrders
  BY DEF PoolInv, PoolKeepsBooks
<1>1. order[o].state = "paid" /\ order' = [order EXCEPT ![o].state = "refunded"]
  BY DEF MarkPledgeRefunded
<1> DEFINE w == order[o].wish
<1>2. /\ order[o] \in OrderRow
      /\ order' \in [Pledges -> {NoRow} \cup OrderRow]
      /\ order'[o] \in OrderRow /\ order' = [order EXCEPT ![o] = order'[o]]
      /\ \A q \in Pledges : q # o => order'[q] = order[q]
      /\ order'[o].state = "refunded" /\ order'[o].wish = order[o].wish
      /\ \A q \in Pledges :
            /\ order'[q] = NoRow <=> order[q] = NoRow
            /\ order[q] # NoRow => /\ order'[q].user = order[q].user
                                   /\ order'[q].month = order[q].month
                                   /\ order'[q].amount = order[q].amount
  BY <1>0, <1>1, StateSet DEF OrderState
<1>3. \E r \in OrderRow : order' = [order EXCEPT ![o] = r] /\ r.wish = w
  BY <1>2
<1>4. \A v : v # w => Pledged(v, order') = Pledged(v, order)
  <2>1. PICK r \in OrderRow : order' = [order EXCEPT ![o] = r] /\ r.wish = w
    BY <1>3
  <2>4. order[o].wish = r.wish
    BY <2>1
  <2> HIDE DEF w
  <2>3. \A v : v # r.wish => Pledged(v, order') = Pledged(v, order)
    BY <1>0, <2>1, <2>4, OtherWishes
  <2> QED BY <2>1, <2>3
<1>5. \A q \in PaidFor(w, order') : q \in PaidFor(w, order) /\ order[q].amount = order'[q].amount
  BY <1>1, <1>2 DEF PaidFor
<1>6. Pledged(w, order') <= Pledged(w, order)
  BY <1>0, <1>5, PledgedGrows DEF PoolTypeOK
<1>7. w \in Rows
  BY <1>0, <1>1 DEF MoneyHasWish
<1>8. RefundCounts(w)
  BY DEF MarkPledgeRefunded
<1> HIDE DEF w
<1>9. /\ wish' \in [Wishes -> {NoWish} \cup WishRow] /\ Rows' = Rows
      /\ edited' \subseteq Wishes
      /\ StatusFollowsMoney' /\ OneWishPerDomain'
  BY <1>0, <1>2, <1>4, <1>6, <1>7, <1>8, RefundIsCounted
<1>10. PoolTypeOK'
  BY <1>0, <1>2, <1>9 DEF PoolTypeOK, MarkPledgeRefunded, outside
<1>11. MoneyHasWish'
  BY <1>0, <1>2, <1>9 DEF MoneyHasWish
<1>12. CreditMatchesOrders'
  BY <1>0, <1>2, CreditSame DEF MarkPledgeRefunded
<1> QED BY <1>9, <1>10, <1>11, <1>12 DEF PoolInv, PoolKeepsBooks

\* A new order for what credit does not cover, if the wish is still there.
LEMMA CreateKeeps ==
    ASSUME PoolInv, NEW h \in Clients, CreatePledge(h)
    PROVE  PoolInv'
<1>0. PoolTypeOK /\ MoneyHasWish /\ OneWishPerDomain /\ StatusFollowsMoney /\ CreditMatchesOrders
  BY DEF PoolInv, PoolKeepsBooks
<1>1. work' \in [Clients -> Job] /\ work[h].step = "charge" /\ work[h] \in Job
  BY <1>0, DoType, JobsMade DEF CreatePledge
<1>2. work[h].user \in Users /\ work[h].wish \in Wishes /\ work[h].amount \in Amounts
  BY <1>1, JobFields
<1>3. UNCHANGED <<wish, credit, debited, edited, outside>>
  BY DEF CreatePledge
<1>4. CASE UNCHANGED order
  BY <1>0, <1>1, <1>3, <1>4, BooksKept DEF outside, poolBooks, PoolTypeOK
<1> DEFINE r == [state |-> "pending", user |-> work[h].user, wish |-> work[h].wish,
                 amount |-> work[h].amount, month |-> Charged]
<1>5. CASE work[h].wish \in Rows /\ \E o \in Pledges : NewOrder(o) /\ order' = [order EXCEPT ![o] = r]
  <2>1. PICK o \in Pledges : order[o] = NoRow /\ order' = [order EXCEPT ![o] = r]
    BY <1>5 DEF NewOrder
  <2>2. r \in OrderRow /\ r.state = "pending" /\ r.wish \in Rows /\ r.month = Charged
    BY <1>2, <1>5 DEF OrderRow, OrderState
  <2> HIDE DEF r
  <2>3. /\ order' \in [Pledges -> {NoRow} \cup OrderRow] /\ order'[o] = r
        /\ \A q \in Pledges : q # o => order'[q] = order[q]
    BY <1>0, <2>1, <2>2 DEF PoolTypeOK
  <2>4. Rows' = Rows
    BY <1>3 DEF Rows
  <2>5. PoolTypeOK'
    BY <1>0, <1>1, <1>3, <2>3 DEF PoolTypeOK, outside
  <2>6. MoneyHasWish'
    BY <1>0, <2>2, <2>3, <2>4 DEF MoneyHasWish
  <2>7. \A v : Pledged(v, order') = Pledged(v, order)
    <3> TAKE v
    <3>1. \A q \in Pledges : /\ q \in PaidFor(v, order') <=> q \in PaidFor(v, order)
                             /\ q \in PaidFor(v, order) => order'[q].amount = order[q].amount
      BY <2>1, <2>2, <2>3 DEF PaidFor, NoRow
    <3> QED BY <3>1, PledgedSame
  <2>8. StatusFollowsMoney' /\ OneWishPerDomain'
    BY <1>0, <1>3, <2>4, <2>7 DEF StatusFollowsMoney, OneWishPerDomain
  <2>9. \A u \in Users, m \in Months :
           Cardinality(Units(PaidFromCredit(u, m)', order'))
             = Cardinality(Units(PaidFromCredit(u, m), order))
    <3> TAKE u \in Users, m \in Months
    <3>1. r.month # m
      BY <2>2 DEF Charged, Months
    <3> QED BY <1>0, <2>1, <2>2, <3>1, CreditElsewhere
  <2>10. CreditMatchesOrders'
    BY <1>0, <1>3, <2>9 DEF CreditMatchesOrders
  <2> QED BY <2>5, <2>6, <2>8, <2>10 DEF PoolInv, PoolKeepsBooks
<1> QED BY <1>4, <1>5 DEF CreatePledge

\* What one transaction of a pledge does: with n of the credit the order and
\* the debit come together, and the rest, if any, is left to be charged.
Books(p, g, n) ==
    LET g1 == Grant(p.user, p.month, g)
    IN  /\ n = Consume(g1[p.user][p.month] - debited[p.user][p.month], p.amount)
        /\ credit' = g1
        /\ \/ /\ n > 0
              /\ debited' = [debited EXCEPT ![p.user][p.month] = @ + n]
              /\ \E o \in Pledges :
                    /\ NewOrder(o)
                    /\ order' = [order EXCEPT ![o] = CreditOrder(p, n)]
              /\ PaymentCounts(p.wish)
           \/ n = 0 /\ UNCHANGED <<wish, order, debited, edited>>

\* The transaction, with its amount named.
LEMMA PledgeCreditParts ==
    ASSUME NEW h \in Clients, PledgeCredit(h)
    PROVE  /\ work[h].step = "credit" /\ wish[work[h].wish].status = "open"
           /\ UNCHANGED outside
           /\ \E g \in Grants : \E n :
                 /\ Books(work[h], g, n)
                 /\ work' = [work EXCEPT ![h] = IF n = work[h].amount THEN Idle
                                               ELSE Charge(work[h], work[h].amount - n)]
<1>1. PICK g \in Grants :
         LET p == work[h]
             g1 == Grant(p.user, p.month, g)
             n == Consume(g1[p.user][p.month] - debited[p.user][p.month], p.amount)
         IN  /\ credit' = g1
             /\ work' = [work EXCEPT ![h] =
                   IF n = p.amount THEN Idle
                   ELSE Charge(p, p.amount - n)]
             /\ \/ /\ n > 0
                   /\ debited' = [debited EXCEPT ![p.user][p.month] = @ + n]
                   /\ \E o \in Pledges :
                         /\ NewOrder(o)
                         /\ order' = [order EXCEPT ![o] = CreditOrder(p, n)]
                   /\ PaymentCounts(p.wish)
                \/ n = 0 /\ UNCHANGED <<wish, order, debited, edited>>
  BY DEF PledgeCredit
<1> DEFINE p == work[h]
           g1 == Grant(p.user, p.month, g)
           n == Consume(g1[p.user][p.month] - debited[p.user][p.month], p.amount)
<1>2. Books(p, g, n)
  BY <1>1 DEF Books
<1>3. work' = [work EXCEPT ![h] = IF n = p.amount THEN Idle ELSE Charge(p, p.amount - n)]
  BY <1>1
<1>4. work[h].step = "credit" /\ wish[work[h].wish].status = "open" /\ UNCHANGED outside
  BY DEF PledgeCredit
<1> HIDE DEF n
<1> QED BY <1>2, <1>3, <1>4

\* Grant, debit, order and the test of the target in one transaction.
LEMMA PledgeCreditKeeps ==
    ASSUME PoolInv, NEW h \in Clients, PledgeCredit(h)
    PROVE  PoolInv'
<1>0. PoolTypeOK /\ MoneyHasWish /\ OneWishPerDomain /\ StatusFollowsMoney /\ CreditMatchesOrders
  BY DEF PoolInv, PoolKeepsBooks
<1> DEFINE p == work[h]
           u == p.user
           m == p.month
<1>1. p \in Job /\ p.step = "credit" /\ wish[p.wish].status = "open" /\ UNCHANGED outside
  BY <1>0, PledgeCreditParts DEF PoolTypeOK
<1>2. u \in Users /\ p.wish \in Wishes /\ p.amount \in Amounts /\ m \in Months
  BY <1>1, JobFields
<1>3. p.wish \in Rows
  BY <1>0, <1>1, <1>2, RowOfWish
<1>4a. PICK g \in Grants : \E n :
         /\ Books(p, g, n)
         /\ work' = [work EXCEPT ![h] = IF n = p.amount THEN Idle ELSE Charge(p, p.amount - n)]
  BY PledgeCreditParts
<1>4. PICK n :
         /\ Books(p, g, n)
         /\ work' = [work EXCEPT ![h] = IF n = p.amount THEN Idle ELSE Charge(p, p.amount - n)]
  BY <1>4a
<1> DEFINE g1 == Grant(u, m, g)
<1>5. /\ g1 \in [Users -> [Months -> Amounts \cup {0}]]
      /\ \A v \in Users, k \in Months : credit[v][k] <= g1[v][k]
  BY <1>0, <1>2, GrantGives
<1>6. /\ credit' = g1
      /\ n = Consume(g1[u][m] - debited[u][m], p.amount)
      /\ \/ /\ n > 0
            /\ debited' = [debited EXCEPT ![u][m] = @ + n]
            /\ \E o \in Pledges :
                  /\ NewOrder(o)
                  /\ order' = [order EXCEPT ![o] = CreditOrder(p, n)]
            /\ PaymentCounts(p.wish)
         \/ n = 0 /\ UNCHANGED <<wish, order, debited, edited>>
  BY <1>4 DEF Books
<1> HIDE DEF g1
<1>7. /\ debited \in [Users -> [Months -> Amounts \cup {0}]]
      /\ credit \in [Users -> [Months -> Amounts \cup {0}]]
      /\ \A v \in Users, k \in Months : debited[v][k] <= credit[v][k]
  BY <1>0 DEF PoolTypeOK
<1>8. \A v \in Users, k \in Months : /\ debited[v][k] \in Nat /\ g1[v][k] \in Nat
                                     /\ debited[v][k] <= g1[v][k] /\ g1[v][k] <= MaxAmount
  BY <1>5, <1>7 DEF Amounts, WishAssumption
<1>9. n \in Nat /\ n <= g1[u][m] - debited[u][m] /\ n <= p.amount
  <2>1. g1[u][m] - debited[u][m] \in Nat /\ p.amount \in Nat
    BY <1>2, <1>8 DEF Amounts
  <2> QED BY <1>6, <2>1, ConsumeBound
<1>10. work' \in [Clients -> Job]
  <2>1. CASE n = p.amount
    BY <1>0, <1>4, <2>1, WorkType, JobsMade
  <2>2. CASE n # p.amount
    <3>1. p.amount - n \in Amounts
      BY <1>2, <1>9, <2>2 DEF Amounts
    <3>2. Charge(p, p.amount - n) \in Job
      BY <1>2, <3>1, JobsMade DEF Charge
    <3>3. work' = [work EXCEPT ![h] = Charge(p, p.amount - n)]
      BY <1>4, <2>2
    <3> QED BY <1>0, <3>2, <3>3, WorkType
  <2> QED BY <2>1, <2>2
<1>11. members' \subseteq Users /\ month' \in Months
  BY <1>0, <1>1 DEF PoolTypeOK, outside
<1>12. CASE n = 0
  <2>0. ~(n > 0)
    BY <1>12
  <2>1. UNCHANGED <<wish, order, debited, edited>>
    BY <1>6, <2>0, Zenon
  <2>2. PoolTypeOK'
    BY <1>0, <1>5, <1>6, <1>8, <1>10, <1>11, <2>1 DEF PoolTypeOK
  <2>3. MoneyHasWish' /\ OneWishPerDomain' /\ StatusFollowsMoney'
    BY <1>0, <2>1 DEF MoneyHasWish, OneWishPerDomain, StatusFollowsMoney, Rows
  <2>4. CreditMatchesOrders'
    BY <1>0, <2>1, CreditSame
  <2> QED BY <2>2, <2>3, <2>4 DEF PoolInv, PoolKeepsBooks
<1>13. CASE n > 0
  <2> DEFINE r == CreditOrder(p, n)
  <2>0. n # 0
    BY <1>9, <1>13
  <2>1. /\ debited' = [debited EXCEPT ![u][m] = @ + n] /\ PaymentCounts(p.wish)
        /\ \E o \in Pledges : order[o] = NoRow /\ order' = [order EXCEPT ![o] = r]
    BY <1>6, <2>0, Zenon DEF NewOrder
  <2>2. PICK o \in Pledges : order[o] = NoRow /\ order' = [order EXCEPT ![o] = r]
    BY <2>1
  <2>3. n \in Amounts
    BY <1>2, <1>9, <1>13 DEF Amounts
  <2>4. /\ r \in OrderRow /\ r.state = "paid" /\ r.wish = p.wish /\ r.user = u
        /\ r.month = m /\ r.amount = n
    BY <1>2, <2>3 DEF CreditOrder, OrderRow, OrderState
  <2> HIDE DEF r
  <2>5. /\ order' \in [Pledges -> {NoRow} \cup OrderRow] /\ order'[o] = r
        /\ \A q \in Pledges : q # o => order'[q] = order[q]
    BY <1>0, <2>2, <2>4 DEF PoolTypeOK
  <2>6. \A v : v # p.wish => Pledged(v, order') = Pledged(v, order)
    BY <1>0, <2>2, <2>4, OtherWishes
  <2>7. \A q \in PaidFor(p.wish, order) : /\ q \in PaidFor(p.wish, order')
                                          /\ order'[q].amount = order[q].amount
    BY <2>2, <2>5 DEF PaidFor, NoRow
  <2>8. Pledged(p.wish, order) <= Pledged(p.wish, order')
    BY <2>5, <2>7, PledgedGrows
  <2>9. /\ wish' \in [Wishes -> {NoWish} \cup WishRow] /\ Rows' = Rows
        /\ edited' \subseteq Wishes
        /\ StatusFollowsMoney' /\ OneWishPerDomain'
    BY <1>0, <1>3, <2>1, <2>5, <2>6, <2>8, PaymentIsCounted
  <2>10. \A v \in Users, k \in Months :
            IF v = u /\ k = m THEN debited'[v][k] = debited[v][k] + n
                              ELSE debited'[v][k] = debited[v][k]
    BY <1>2, <1>7, <2>1
  <2>11. debited' \in [Users -> [Months -> Amounts \cup {0}]]
    <3>1. debited[u][m] + n \in Amounts
      BY <1>2, <1>8, <1>9, <1>13 DEF Amounts, WishAssumption
    <3> QED BY <1>2, <1>7, <2>1, <3>1
  <2>12. \A v \in Users, k \in Months : debited'[v][k] <= g1[v][k]
    BY <1>2, <1>8, <1>9, <2>10
  <2>13. PoolTypeOK'
    BY <1>5, <1>6, <1>10, <1>11, <2>5, <2>9, <2>11, <2>12 DEF PoolTypeOK
  <2>14. MoneyHasWish'
    BY <1>0, <1>3, <2>4, <2>5, <2>9 DEF MoneyHasWish
  <2>15. CreditMatchesOrders'
    <3> SUFFICES ASSUME NEW v \in Users, NEW k \in Months
                 PROVE  debited'[v][k] = Cardinality(Units(PaidFromCredit(v, k)', order'))
      BY DEF CreditMatchesOrders
    <3>1. debited[v][k] = Cardinality(Units(PaidFromCredit(v, k), order))
      BY <1>0 DEF CreditMatchesOrders
    <3>2. CASE v = u /\ k = m
      <4>1. r.user = v /\ r.month = k /\ r.amount = n
        BY <2>4, <3>2
      <4>2. Cardinality(Units(PaidFromCredit(v, k)', order'))
              = Cardinality(Units(PaidFromCredit(v, k), order)) + r.amount
        BY <1>0, <2>2, <2>4, <4>1, CreditOnce
      <4> QED BY <2>10, <3>1, <3>2, <4>1, <4>2
    <3>3. CASE ~(v = u /\ k = m)
      <4>1. r.user # v \/ r.month # k
        BY <2>4, <3>3
      <4>2. Cardinality(Units(PaidFromCredit(v, k)', order'))
              = Cardinality(Units(PaidFromCredit(v, k), order))
        BY <1>0, <2>2, <2>4, <4>1, CreditElsewhere
      <4> QED BY <2>10, <3>1, <3>3, <4>2
    <3> QED BY <3>2, <3>3
  <2> QED BY <2>9, <2>13, <2>14, <2>15 DEF PoolInv, PoolKeepsBooks
<1> QED BY <1>9, <1>12, <1>13

\* Every other step of a handler reads, gives up or grants the month's credit.
LEMMA HandlerKeeps ==
    ASSUME PoolInv, NEW h \in Clients
    PROVE  /\ \A d \in Domains, t \in Goals \cup {NoTarget} : LookUp(h, d, t) => PoolInv'
           /\ \A w \in Wishes : UpdateBoth(h, w) => PoolInv'
           /\ \A u \in Users : StartGrant(h, u) => PoolInv'
           /\ \A u \in Users, w \in Wishes, n \in Offers : StartPledge(h, u, w, n) => PoolInv'
           /\ UpdateStatus(h) => PoolInv'
           /\ EnsureMonthlyCredit(h) => PoolInv'
           /\ NoCredit(h) => PoolInv'
           /\ PledgeFails(h) => PoolInv'
<1>0. PoolTypeOK
  BY DEF PoolInv
<1>1. members \subseteq Users /\ month \in Months
  BY <1>0 DEF PoolTypeOK
<1>2. ASSUME NEW to \in Job, NEW from, Do(h, from, to), UNCHANGED <<poolBooks, outside>>
      PROVE  PoolInv'
  <2>1. work' \in [Clients -> Job]
    BY <1>0, <1>2, DoType
  <2> QED BY <1>1, <1>2, <2>1, BooksKept DEF outside
<1>3. ASSUME NEW d \in Domains, NEW t \in Goals \cup {NoTarget}, LookUp(h, d, t)
      PROVE  PoolInv'
  <2>1. t \in Amounts \cup {NoTarget}
    BY AmountsAreNumbers
  <2>2. [step |-> "insert", domain |-> d, target |-> t] \in Job
    BY <2>1, JobsMade
  <2> QED BY <1>2, <1>3, <2>2 DEF LookUp
<1>4. ASSUME NEW w \in Wishes, UpdateBoth(h, w)
      PROVE  PoolInv'
  <2>1. PICK to \in WishStatus : Do(h, "idle", [step |-> "status", wish |-> w, to |-> to])
    BY <1>4 DEF UpdateBoth
  <2>2. work' \in [Clients -> Job]
    BY <1>0, <2>1, DoType, JobsMade
  <2> QED BY <1>4, <2>2, SetTargetKeeps DEF UpdateBoth
<1>5. ASSUME NEW u \in Users, StartGrant(h, u)
      PROVE  PoolInv'
  <2>1. [step |-> "grant", user |-> u] \in Job
    BY JobsMade
  <2> QED BY <1>2, <1>5, <2>1 DEF StartGrant
<1>6. ASSUME NEW u \in Users, NEW w \in Wishes, NEW n \in Offers, StartPledge(h, u, w, n)
      PROVE  PoolInv'
  <2>1. n \in Amounts
    BY AmountsAreNumbers
  <2>2. [step |-> "credit", user |-> u, wish |-> w, amount |-> n, month |-> month] \in Job
    BY <1>1, <2>1, JobsMade
  <2> QED BY <1>2, <1>6, <2>2 DEF StartPledge
<1>7. ASSUME UpdateStatus(h)
      PROVE  PoolInv'
  <2>1. work' \in [Clients -> Job] /\ work[h].step = "status" /\ work[h] \in Job
    BY <1>0, <1>7, DoType, JobsMade DEF UpdateStatus
  <2>2. work[h].wish \in Wishes /\ work[h].to \in WishStatus
    BY <2>1, JobFields
  <2> QED BY <1>7, <2>1, <2>2, SetStatusKeeps DEF UpdateStatus
<1>8. ASSUME EnsureMonthlyCredit(h)
      PROVE  PoolInv'
  <2>1. work' \in [Clients -> Job] /\ work[h].step = "grant" /\ work[h] \in Job
    BY <1>0, <1>8, DoType, JobsMade DEF EnsureMonthlyCredit
  <2>2. work[h].user \in Users
    BY <2>1, JobFields
  <2>3. PICK g \in Grants : credit' = Grant(work[h].user, month, g)
    BY <1>8 DEF EnsureMonthlyCredit
  <2>4. /\ credit' \in [Users -> [Months -> Amounts \cup {0}]]
        /\ \A v \in Users, k \in Months : credit[v][k] <= credit'[v][k]
    BY <1>0, <1>1, <2>2, <2>3, GrantGives
  <2>5. \A v \in Users, k \in Months : /\ debited[v][k] \in Nat /\ credit[v][k] \in Nat
                                       /\ credit'[v][k] \in Nat
                                       /\ debited[v][k] <= credit[v][k]
    BY <1>0, <2>4 DEF PoolTypeOK, Amounts
  <2>6. UNCHANGED <<wish, order, debited, edited, outside>>
    BY <1>8 DEF EnsureMonthlyCredit
  <2>7. \A v \in Users, k \in Months : debited[v][k] <= credit'[v][k]
    BY <2>4, <2>5
  <2>8. PoolTypeOK'
    BY <1>0, <2>1, <2>4, <2>6, <2>7 DEF PoolTypeOK, outside
  <2>9. MoneyHasWish' /\ OneWishPerDomain' /\ StatusFollowsMoney'
    BY <2>6 DEF PoolInv, PoolKeepsBooks, MoneyHasWish, OneWishPerDomain, StatusFollowsMoney, Rows
  <2>10. CreditMatchesOrders'
    BY <2>6, CreditSame DEF PoolInv, PoolKeepsBooks
  <2> QED BY <2>8, <2>9, <2>10 DEF PoolInv, PoolKeepsBooks
<1>9. ASSUME NoCredit(h)
      PROVE  PoolInv'
  <2>1. work[h] \in Job /\ work[h].step = "credit"
    BY <1>0, <1>9 DEF PoolTypeOK, NoCredit
  <2>2. Charge(work[h], work[h].amount) \in Job
    BY <2>1, JobFields, JobsMade DEF Charge
  <2>3. work' \in [Clients -> Job]
    BY <1>0, <1>9, <2>2, WorkType DEF NoCredit
  <2> QED BY <1>1, <1>9, <2>3, BooksKept DEF NoCredit, outside
<1>10. ASSUME PledgeFails(h)
       PROVE  PoolInv'
  BY <1>2, <1>10, JobsMade DEF PledgeFails
<1> QED BY <1>3, <1>4, <1>5, <1>6, <1>7, <1>8, <1>9, <1>10

\* Every step keeps the invariant.
LEMMA PoolStep == PoolInv /\ [PoolNext]_poolVars => PoolInv'
<1> SUFFICES ASSUME PoolInv, [PoolNext]_poolVars PROVE PoolInv'
  OBVIOUS
<1>0. work \in [Clients -> Job] /\ members \subseteq Users /\ month \in Months
  BY DEF PoolInv, PoolTypeOK
<1>1. CASE NextMonth
  <2>1. month + 1 \in Months
    BY <1>0, <1>1 DEF NextMonth, Months, WishAssumption
  <2> QED BY <1>0, <1>1, <2>1, BooksKept DEF NextMonth
<1>2. CASE CrashPool
  <2>1. work' \in [Clients -> Job]
    BY <1>2, JobsMade DEF CrashPool
  <2> QED BY <1>0, <1>2, <2>1, BooksKept DEF CrashPool, outside
<1>3. ASSUME NEW u \in Users, MembershipTurns(u) PROVE PoolInv'
  BY <1>0, <1>3, BooksKept DEF MembershipTurns
<1>4. ASSUME NEW w \in Wishes, UpdateOne(w) PROVE PoolInv'
  BY <1>0, <1>4, SetTargetKeeps, SetStatusKeeps DEF UpdateOne
<1>5. ASSUME NEW w \in Wishes, DeleteWishSite(w) PROVE PoolInv'
  BY <1>5, DeleteKeeps
<1>6. ASSUME NEW o \in Pledges, MarkPledgePaid(o) \/ CancelPledge(o) \/ MarkPledgeRefunded(o)
      PROVE  PoolInv'
  BY <1>6, PaidKeeps, CancelKeeps, RefundKeeps
<1>7. ASSUME NEW h \in Clients, Insert(h) \/ PledgeCredit(h) \/ CreatePledge(h)
      PROVE  PoolInv'
  BY <1>7, InsertKeeps, PledgeCreditKeeps, CreateKeeps
<1>8. CASE UNCHANGED poolVars
  BY <1>0, <1>8, BooksKept DEF poolVars, outside
<1> QED BY <1>1, <1>2, <1>3, <1>4, <1>5, <1>6, <1>7, <1>8, HandlerKeeps DEF PoolNext

\* The wish pool keeps its types, and the money of every pledge its wish.
THEOREM PoolInvariant == PoolSpec => []PoolInv
<1>1. PoolInit => PoolInv
  BY PoolStart
<1>2. PoolInv /\ [PoolNext]_poolVars => PoolInv'
  BY PoolStep
<1> QED BY <1>1, <1>2, PTL DEF PoolSpec

\* The pool keeps its books.
THEOREM PoolBooksKept == PoolSpec => []PoolKeepsBooks
<1>1. PoolInv => PoolKeepsBooks
  BY DEF PoolInv
<1> QED BY <1>1, PoolInvariant, PTL

-----------------------------------------------------------------------------
(* Quotes: the lowest of several.                                          *)

\* What a group can be quoted.
Quote == [available : BOOLEAN, mode : {"none", "ratio", "fixed"},
          input : Int, output : Int, fixed : Int]

\* No quote is available that is below best.
NoneBelow(best, q) ==
    q.available => best.available /\ ComparableAmount(best) <= ComparableAmount(q)

\* Amounts compare.
LEMMA AmountsCompare ==
    ASSUME NEW q \in Quote PROVE ComparableAmount(q) \in Int
  BY DEF Quote, ComparableAmount

\* One more quote.
LEMMA LowerFacts ==
    ASSUME NEW best \in Quote, NEW q \in Quote
    PROVE  /\ Lower(best, q) \in {best, q}
           /\ Lower(best, q).available => Lower(best, q) = q \/ best.available
           /\ NoneBelow(Lower(best, q), best) /\ NoneBelow(Lower(best, q), q)
<1>1. ComparableAmount(best) \in Int /\ ComparableAmount(q) \in Int
  BY AmountsCompare
<1> QED BY <1>1 DEF Lower, NoneBelow

\* The loop finds an available quote if there is one, and none is below it.
LEMMA LowestFacts ==
    ASSUME NEW quotes \in Seq(Quote)
    PROVE  /\ LowestAvailable(quotes) \in Quote
           /\ LowestAvailable(quotes).available =>
                 \E i \in 1..Len(quotes) : LowestAvailable(quotes) = quotes[i]
           /\ \A i \in 1..Len(quotes) : NoneBelow(LowestAvailable(quotes), quotes[i])
<1> DEFINE N == Len(quotes)
           none == NoQuoteOf("none")
           IsLoop(f) == f = [n \in 0..N |-> IF n = 0 THEN none ELSE Lower(f[n - 1], quotes[n])]
           lowest == CHOOSE f : IsLoop(f)
           step == [n \in 1..N |-> [b \in Quote |-> Lower(b, quotes[n])]]
<1>1. N \in Nat /\ \A n \in 1..N : quotes[n] \in Quote
  OBVIOUS
<1>2. none \in Quote /\ ~none.available
  BY DEF NoQuoteOf, Quote, Absent
<1>3. \A n \in 1..N, b \in Quote : Lower(b, quotes[n]) \in Quote
  BY <1>1, LowerFacts
<1>4. step \in [1..N -> [Quote -> Quote]]
  BY <1>3
<1> HIDE DEF N, none
<1>5. \E f : IsLoop(f)
  <2>1. PICK f : IsRun(f, N, Quote, none, step)
    <3> HIDE DEF step
    <3>1. HasRun(N, Quote, none, step)
      BY <1>1, <1>2, <1>4, LoopExists
    <3> QED BY <3>1 DEF HasRun
  <2>2. \A n \in 0..N : f[n] = IF n = 0 THEN none ELSE Lower(f[n - 1], quotes[n])
    <3> TAKE n \in 0..N
    <3>1. CASE n = 0
      <4> HIDE DEF step
      <4> QED BY <2>1, <3>1 DEF IsRun
    <3>2. CASE n # 0
      <4>1. n \in 1..N /\ n - 1 \in 0..N
        BY <1>1, <3>2
      <4>2. f[n - 1] \in Quote /\ f[n] = step[n][f[n - 1]]
        <5> HIDE DEF step
        <5> QED BY <2>1, <4>1 DEF IsRun
      <4>3. f[n] = Lower(f[n - 1], quotes[n])
        BY <4>1, <4>2
      <4> QED BY <3>2, <4>3
    <3> QED BY <3>1, <3>2
  <2>3. f = [n \in 0..N |-> f[n]]
    <3> HIDE DEF step
    <3> QED BY <2>1 DEF IsRun
  <2>4. [n \in 0..N |-> f[n]] = [n \in 0..N |-> IF n = 0 THEN none ELSE Lower(f[n - 1], quotes[n])]
    BY <2>2
  <2> QED BY <2>3, <2>4
<1>6. IsLoop(lowest)
  BY <1>5
<1>7. LowestAvailable(quotes) = lowest[N]
  BY DEF LowestAvailable, N, none
<1>8. \A n \in 0..N : lowest[n] = IF n = 0 THEN none ELSE Lower(lowest[n - 1], quotes[n])
  BY <1>6
<1> HIDE DEF lowest
<1> DEFINE Best(b, n) == /\ b \in Quote
                         /\ b.available => \E j \in 1..n : b = quotes[j]
                         /\ \A j \in 1..n : NoneBelow(b, quotes[j])
           T == {n \in 0..N : Best(lowest[n], n)}
<1>9. 0 \in T
  BY <1>1, <1>2, <1>8
<1>10. ASSUME NEW n \in 1..N, n - 1 \in T PROVE n \in T
  <2>1. n \in Nat \ {0} /\ n \in 0..N /\ Best(lowest[n - 1], n - 1)
    BY <1>1, <1>10
  <2>2. PICK old : old = lowest[n - 1]
    OBVIOUS
  <2>2a. Best(old, n - 1)
    BY <2>1, <2>2
  <2>3. PICK new : new = Lower(old, quotes[n])
    OBVIOUS
  <2>4. lowest[n] = new
    BY <1>8, <2>1, <2>2, <2>3
  <2>5. quotes[n] \in Quote /\ old \in Quote
    BY <1>1, <2>2a
  <2>6. /\ new \in {old, quotes[n]} /\ (new.available => new = quotes[n] \/ old.available)
        /\ NoneBelow(new, old) /\ NoneBelow(new, quotes[n])
    BY <2>3, <2>5, LowerFacts
  <2>7. new \in Quote
    BY <2>5, <2>6
  <2>8. ASSUME new.available PROVE \E i \in 1..n : new = quotes[i]
    <3>1. CASE new = quotes[n]
      BY <2>1, <3>1
    <3>2. CASE new # quotes[n]
      <4>1. new = old /\ old.available
        BY <2>6, <2>8, <3>2
      <4>2. PICK i \in 1..(n - 1) : old = quotes[i]
        BY <2>1, <2>2a, <4>1
      <4>3. i \in 1..n
        BY <2>1
      <4> QED BY <4>1, <4>2, <4>3
    <3> QED BY <3>1, <3>2
  <2>9. ASSUME NEW i \in 1..n PROVE NoneBelow(new, quotes[i])
    <3>1. CASE i = n
      BY <2>6, <3>1
    <3>2. CASE i # n
      <4>1. i \in 1..(n - 1) /\ i \in 1..N
        BY <1>1, <2>1, <3>2
      <4>2. NoneBelow(old, quotes[i])
        BY <2>1, <2>2a, <4>1
      <4>3. /\ ComparableAmount(new) \in Int /\ ComparableAmount(old) \in Int
            /\ ComparableAmount(quotes[i]) \in Int
        BY <1>1, <2>5, <2>7, <4>1, AmountsCompare
      <4> QED BY <2>6, <4>2, <4>3 DEF NoneBelow
    <3> QED BY <3>1, <3>2
  <2>10. Best(lowest[n], n)
    BY <2>4, <2>7, <2>8, <2>9
  <2> QED BY <2>1, <2>10
<1> HIDE DEF Best
<1>11. N \in T
  <2>1. T \in SUBSET (0..N) /\ N \in 0..N
    BY <1>1
  <2> HIDE DEF T
  <2> QED BY <1>1, <1>9, <1>10, <2>1, Upto
<1>12. Best(lowest[N], N)
  BY <1>11
<1>13. Best(LowestAvailable(quotes), Len(quotes))
  BY <1>7, <1>12 DEF N
<1> QED BY <1>13 DEF Best

\* The sequence of a finite set has each of its elements.
LEMMA SequenceOfSet ==
    ASSUME NEW S, IsFiniteSet(S)
    PROVE  /\ SetToSeq(S) \in Seq(S)
           /\ \A x \in S : \E i \in 1..Len(SetToSeq(S)) : SetToSeq(S)[i] = x
<1> DEFINE n == Cardinality(S)
           s == SetToSeq(S)
<1>1. n \in Nat /\ ExistsBijection(1..n, S)
  BY FS_CardinalityType
<1>2. \E f \in [1..n -> S] : IsInjective(f)
  BY <1>1, Zenon DEF ExistsBijection, Bijection, Injection
<1>3. s \in [1..n -> S] /\ IsInjective(s)
  BY <1>2, Zenon DEF SetToSeq
<1>4. s \in Injection(1..n, S)
  BY <1>3, Zenon DEF Injection
<1>5. Cardinality(1..n) = n
  BY <1>1, FS_Interval
<1> HIDE DEF s
<1>6. s \in Surjection(1..n, S)
  BY <1>4, <1>5, FS_Injection DEF n
<1> HIDE DEF n
<1>7. s \in Seq(S) /\ Len(s) = n
  BY <1>1, <1>3
<1>8. \A x \in S : \E i \in 1..n : s[i] = x
  BY <1>6, Zenon DEF Surjection
<1> QED BY <1>7, <1>8 DEF s

-----------------------------------------------------------------------------
(* Quotes: what price lists say.                                           *)

\* Fields of a model in a price list.
LEMMA ModelFacts ==
    ASSUME NEW model \in Models
    PROVE  /\ model.billing \in {"ratio", "undeclared", "fixed"} \cup Expressions
           /\ model.ratio \in {Absent, 3} /\ model.completion \in {Absent, 0, 2}
           /\ model.price \in {Absent, 4} /\ model.groups \in SUBSET PriceGroups
           /\ model.ratios \in [PriceGroups -> {Absent, 0, 2}]
  BY DEF Models, ModelsOf

\* Fields of the status.
LEMMA StatusFacts ==
    ASSUME NEW status \in Statuses \cup {NoStatus}
    PROVE  /\ status.custom \in {Absent, 0, 7} /\ status.other \in {Absent, 5}
           /\ status.perUnit \in {0, 2}
<1>1. CASE status \in Statuses
  BY <1>1 DEF Statuses
<1>2. CASE status = NoStatus
  BY <1>2 DEF NoStatus
<1> QED BY <1>1, <1>2

\* The rate is one of the status, or 1.
LEMMA RateFacts ==
    ASSUME NEW status \in Statuses \cup {NoStatus}
    PROVE  DecodeRate(status) \in {1, 5, 7}
  BY StatusFacts DEF DecodeRate, Absent

\* The extension decoded from a model.
Decoded ==
    [mode : {"fixed", "ratio"}, expression : BOOLEAN, coefficients : BOOLEAN,
     price : {Absent, 1, 4}, ratio : {Absent, 3}, completion : {Absent, 0, 2},
     perUnit : {0, 2}, multipliers : UNION {[D -> {0, 1, 2}] : D \in SUBSET Groups},
     rate : {0, 1, 5, 7}]

\* A model is decoded with a multiplier for each of its groups.
LEMMA DecodeFacts ==
    ASSUME NEW model \in Models, NEW status \in Statuses \cup {NoStatus}
    PROVE  /\ DecodeModel(model, status) \in Decoded
           /\ DecodeModel(model, status).rate = DecodeRate(status)
           /\ IsFiniteSet(DOMAIN DecodeModel(model, status).multipliers)
           /\ DOMAIN DecodeModel(model, status).multipliers
                 = IF model.groups = {} THEN {Default} ELSE model.groups
<1> DEFINE m == DecodeModel(model, status)
           D == IF model.groups = {} THEN {Default} ELSE model.groups
           many == [g \in D |-> IF g = Default \/ model.ratios[g] = Absent THEN 1
                                ELSE model.ratios[g]]
<1>1. D \in SUBSET Groups
  BY ModelFacts DEF Groups
<1>2. IsFiniteSet(D)
  BY ModelFacts, FS_Subset, FS_Singleton, QuotesAssumption
<1>3. \A g \in D :
         (IF g = Default \/ model.ratios[g] = Absent THEN 1 ELSE model.ratios[g]) \in {0, 1, 2}
  <2> TAKE g \in D
  <2>1. CASE g = Default
    BY <2>1
  <2>2. CASE g # Default
    <3>1. model.ratios[g] \in {Absent, 0, 2}
      BY <2>2, ModelFacts
    <3> QED BY <2>2, <3>1 DEF Absent
  <2> QED BY <2>1, <2>2
<1>4. many \in [D -> {0, 1, 2}] /\ DOMAIN many = D
  BY <1>3
<1>5. many \in UNION {[S -> {0, 1, 2}] : S \in SUBSET Groups}
  BY <1>1, <1>4
<1>6. m.multipliers = many /\ m.rate = DecodeRate(status)
  BY DEF DecodeModel
<1>7. DecodeRate(status) \in {0, 1, 5, 7} /\ status.perUnit \in {0, 2}
  BY RateFacts, StatusFacts
<1>8. /\ model.ratio \in {Absent, 3} /\ model.completion \in {Absent, 0, 2}
      /\ (IF model.billing = "fixedTier" THEN 1 ELSE model.price) \in {Absent, 1, 4}
  BY ModelFacts
<1>9. m = [mode |-> IF model.billing \in {"fixed", "fixedTier"} THEN "fixed" ELSE "ratio",
           expression |-> model.billing \in Expressions,
           coefficients |-> model.billing = "coefficients",
           price |-> IF model.billing = "fixedTier" THEN 1 ELSE model.price,
           ratio |-> model.ratio, completion |-> model.completion,
           perUnit |-> status.perUnit, multipliers |-> many, rate |-> DecodeRate(status)]
  BY DEF DecodeModel
<1> HIDE DEF many, D
<1>10. m \in Decoded
  <2> HIDE DEF m
  <2> QED BY <1>5, <1>7, <1>8, <1>9 DEF Decoded
<1> QED BY <1>2, <1>4, <1>6, <1>10 DEF D

-----------------------------------------------------------------------------
(* Quotes: what is shown and what machines get.                            *)

\* The quotes that are made.
LEMMA QuotesMade ==
    /\ \A in, out \in Int : PerToken(in, out) \in Quote
    /\ \A amount \in Int : PerRequest(amount) \in Quote
    /\ \A mode \in {"none", "ratio", "fixed"} : NoQuoteOf(mode) \in Quote
    /\ \A amount, factor \in Int : Scaled(amount, factor) \in Int
<1>1. \A in, out \in Int : PerToken(in, out) \in Quote
  BY DEF PerToken, Quote, Absent
<1>2. \A amount \in Int : PerRequest(amount) \in Quote
  BY DEF PerRequest, Quote, Absent
<1>3. \A mode \in {"none", "ratio", "fixed"} : NoQuoteOf(mode) \in Quote
  BY DEF NoQuoteOf, Quote, Absent
<1>4. \A amount, factor \in Int : Scaled(amount, factor) \in Int
  BY DEF Scaled, Absent
<1> QED BY <1>1, <1>2, <1>3, <1>4

\* A quote for each group of a model.
LEMMA DisplayFacts ==
    ASSUME NEW m \in Decoded, NEW g \in DOMAIN m.multipliers
    PROVE  DisplayPrice(m, g) \in Quote
<1>1. /\ m.ratio \in Int /\ m.perUnit \in Int /\ m.completion \in Int /\ m.price \in Int
      /\ m.rate \in Int /\ m.multipliers[g] \in Int
  BY DEF Decoded, Absent
<1>2. PICK factor \in Int : factor = m.multipliers[g] * RateOf(m)
  BY <1>1 DEF RateOf
<1>3. PICK input \in Int : input = m.ratio * m.perUnit * factor
  BY <1>1
<1>4. (IF m.completion > 0 THEN input * m.completion ELSE input) \in Int
  BY <1>1
<1>5. DisplayPrice(m, g) =
         IF m.mode = "fixed" THEN PerRequest(Scaled(m.price, factor))
         ELSE IF m.expression
         THEN IF m.coefficients THEN PerToken(2 * factor, 8 * factor) ELSE NoQuoteOf("ratio")
         ELSE IF m.ratio = Absent \/ m.perUnit <= 0 THEN NoQuoteOf("ratio")
         ELSE PerToken(input, IF m.completion > 0 THEN input * m.completion ELSE input)
  BY <1>2, <1>3 DEF DisplayPrice
<1>6. Scaled(m.price, factor) \in Int /\ 2 * factor \in Int /\ 8 * factor \in Int
  BY <1>1, QuotesMade
<1>7. /\ PerRequest(Scaled(m.price, factor)) \in Quote
      /\ PerToken(2 * factor, 8 * factor) \in Quote
      /\ NoQuoteOf("ratio") \in Quote
      /\ PerToken(input, IF m.completion > 0 THEN input * m.completion ELSE input) \in Quote
  BY <1>4, <1>6, QuotesMade
<1> QED BY <1>5, <1>7

\* The extension is stored without its rate: the same quotes, not converted.
LEMMA RateLeftOut ==
    ASSUME NEW m \in Decoded, m.rate # 0
    PROVE  LET n == [m EXCEPT !.rate = 0]
           IN  /\ n \in Decoded /\ n # NotStored /\ n.multipliers = m.multipliers
               /\ \A g \in DOMAIN m.multipliers :
                     LET p == DisplayPrice(m, g)
                         q == DisplayPrice(n, g)
                     IN  /\ q.available = p.available
                         /\ q.available =>
                               ComparableAmount(q) * m.rate = ComparableAmount(p)
<1> DEFINE n == [m EXCEPT !.rate = 0]
<1>1. /\ n.multipliers = m.multipliers /\ n.rate = 0 /\ n.mode = m.mode
      /\ n.expression = m.expression /\ n.coefficients = m.coefficients
      /\ n.price = m.price /\ n.ratio = m.ratio /\ n.completion = m.completion
      /\ n.perUnit = m.perUnit /\ DOMAIN n = DOMAIN m
  BY DEF Decoded
<1>2. n # NotStored
  <2>1. "rate" \in DOMAIN m
    BY DEF Decoded
  <2>2. "rate" \notin DOMAIN NotStored
    BY DEF NotStored
  <2> QED BY <1>1, <2>1, <2>2
<1>3. n \in Decoded
  BY DEF Decoded
<1> HIDE DEF n
<1>4. ASSUME NEW g \in DOMAIN m.multipliers
      PROVE  LET p == DisplayPrice(m, g)
                 q == DisplayPrice(n, g)
             IN  /\ q.available = p.available
                 /\ q.available => ComparableAmount(q) * m.rate = ComparableAmount(p)
  <2>1. /\ m.rate \in {1, 5, 7} /\ m.multipliers[g] \in {0, 1, 2}
        /\ m.price \in {Absent, 1, 4} /\ m.ratio \in {Absent, 3}
        /\ m.completion \in {Absent, 0, 2} /\ m.perUnit \in {0, 2}
    BY DEF Decoded
  <2>2. RateOf(m) = m.rate /\ RateOf(n) = 1
    BY <1>1, <2>1 DEF RateOf
  <2>3. PICK k \in {0, 1, 2}, rate \in {1, 5, 7} : k = m.multipliers[g] /\ rate = m.rate
    BY <2>1
  <2>4. CASE m.mode = "fixed"
    <3>1. /\ DisplayPrice(m, g) = PerRequest(Scaled(m.price, k * rate))
          /\ DisplayPrice(n, g) = PerRequest(Scaled(m.price, k * 1))
      BY <1>1, <2>2, <2>3, <2>4 DEF DisplayPrice
    <3>2. CASE m.price = Absent
      <4>1. DisplayPrice(m, g) = PerRequest(Absent) /\ DisplayPrice(n, g) = PerRequest(Absent)
        BY <3>1, <3>2 DEF Scaled
      <4>2. PerRequest(Absent).available = FALSE
        BY DEF PerRequest
      <4> QED BY <4>1, <4>2
    <3>3. CASE m.price \in {1, 4}
      <4>1. PICK price \in {1, 4} : price = m.price
        BY <3>3
      <4>2. /\ Scaled(m.price, k * rate) = price * (k * rate)
            /\ Scaled(m.price, k * 1) = price * (k * 1)
        BY <4>1 DEF Scaled, Absent
      <4>3. PICK once \in Nat, more \in Nat :
               once = price * (k * 1) /\ more = price * (k * rate) /\ once * rate = more
        BY <2>3, <4>1
      <4>4. DisplayPrice(m, g) = PerRequest(more) /\ DisplayPrice(n, g) = PerRequest(once)
        BY <3>1, <4>2, <4>3
      <4>5. ASSUME NEW amount \in Nat
            PROVE  /\ PerRequest(amount).available = TRUE
                   /\ ComparableAmount(PerRequest(amount)) = amount
        <5>1. amount # Absent
          BY DEF Absent
        <5>2. PerRequest(amount).available = TRUE
          BY <5>1 DEF PerRequest
        <5>3. PerRequest(amount).fixed = amount
          BY DEF PerRequest
        <5> QED BY <5>1, <5>2, <5>3 DEF ComparableAmount
      <4>6. DisplayPrice(n, g).available = DisplayPrice(m, g).available
        BY <4>4, <4>5
      <4>7. /\ ComparableAmount(DisplayPrice(n, g)) = once
            /\ ComparableAmount(DisplayPrice(m, g)) = more
        BY <4>4, <4>5
      <4>8. ComparableAmount(DisplayPrice(n, g)) * m.rate = ComparableAmount(DisplayPrice(m, g))
        BY <2>3, <4>3, <4>7
      <4> QED BY <4>6, <4>8
    <3> QED BY <2>1, <3>2, <3>3
  <2>5. ASSUME NEW in \in Int, NEW out \in Int, NEW in2 \in Int, NEW out2 \in Int,
               in # Absent, in2 # Absent, in2 = in * rate,
               DisplayPrice(n, g) = PerToken(in, out), DisplayPrice(m, g) = PerToken(in2, out2)
        PROVE  LET p == DisplayPrice(m, g)
                   q == DisplayPrice(n, g)
               IN  /\ q.available = p.available
                   /\ q.available => ComparableAmount(q) * m.rate = ComparableAmount(p)
    <3>1. ASSUME NEW i \in Int, NEW o \in Int, i # Absent
          PROVE  /\ PerToken(i, o).available = TRUE
                 /\ ComparableAmount(PerToken(i, o)) = i
      BY <3>1 DEF PerToken, ComparableAmount
    <3>2. DisplayPrice(n, g).available = DisplayPrice(m, g).available
      BY <2>5, <3>1
    <3>3. /\ ComparableAmount(DisplayPrice(n, g)) = in
          /\ ComparableAmount(DisplayPrice(m, g)) = in2
      BY <2>5, <3>1
    <3> QED BY <2>3, <2>5, <3>2, <3>3
  <2>6. CASE m.mode # "fixed" /\ m.expression /\ m.coefficients
    <3>1. /\ DisplayPrice(m, g) = PerToken(2 * (k * rate), 8 * (k * rate))
          /\ DisplayPrice(n, g) = PerToken(2 * (k * 1), 8 * (k * 1))
      BY <1>1, <2>2, <2>3, <2>6 DEF DisplayPrice
    <3>2. /\ 2 * (k * rate) # Absent /\ 2 * (k * 1) # Absent
          /\ 2 * (k * rate) = 2 * (k * 1) * rate
          /\ 2 * (k * rate) \in Int /\ 8 * (k * rate) \in Int
          /\ 2 * (k * 1) \in Int /\ 8 * (k * 1) \in Int
      BY <2>3 DEF Absent
    <3> QED BY <2>5, <3>1, <3>2
  <2>7. CASE /\ m.mode # "fixed"
             /\ IF m.expression THEN ~m.coefficients ELSE m.ratio = Absent \/ m.perUnit <= 0
    <3>1. DisplayPrice(m, g) = NoQuoteOf("ratio") /\ DisplayPrice(n, g) = NoQuoteOf("ratio")
      BY <1>1, <2>7 DEF DisplayPrice
    <3> QED BY <3>1 DEF NoQuoteOf
  <2>8. CASE m.mode # "fixed" /\ ~m.expression /\ m.ratio # Absent /\ ~(m.perUnit <= 0)
    <3> DEFINE in == 3 * 2 * (k * 1)
               in2 == 3 * 2 * (k * rate)
               Out(i) == IF m.completion > 0 THEN i * m.completion ELSE i
    <3>1. m.ratio = 3 /\ m.perUnit = 2
      BY <2>1, <2>8
    <3>2. /\ DisplayPrice(m, g) = PerToken(in2, Out(in2))
          /\ DisplayPrice(n, g) = PerToken(in, Out(in))
      BY <1>1, <2>2, <2>3, <2>8, <3>1 DEF DisplayPrice
    <3>3. /\ in # Absent /\ in2 # Absent /\ in2 = in * rate /\ in \in Int /\ in2 \in Int
      BY <2>3 DEF Absent
    <3> HIDE DEF in, in2
    <3>4. Out(in) \in Int /\ Out(in2) \in Int
      BY <2>1, <3>3 DEF Absent
    <3> HIDE DEF Out
    <3> QED BY <2>5, <3>2, <3>3, <3>4
  <2> QED BY <2>4, <2>6, <2>7, <2>8
<1> QED BY <1>1, <1>2, <1>3, <1>4 DEF n

\* Where a machine gets a price, the page has a quote with the same amounts, but
\* for the rate only pages read and an output that is shown as input.
LEMMA EvidenceFacts ==
    ASSUME NEW model \in Models, NEW status \in Statuses \cup {NoStatus},
           NEW g \in DOMAIN RoutingPrices(model, status)
    PROVE  LET e == RoutingPrices(model, status)[g]
               q == DisplayPrice(DecodeModel(model, status), g)
           IN  /\ g \in model.groups /\ e.input \in Nat /\ e.output \in Int
               /\ LET extra == IF status.custom = Absent THEN DecodeRate(status) ELSE 1
                  IN  /\ q.available /\ q.input = e.input * extra
                      /\ q.output = (IF e.output > 0 THEN e.output ELSE e.input) * extra
<1> DEFINE r == model.ratios[g]
           extra == IF status.custom = Absent THEN DecodeRate(status) ELSE 1
           rate == IF status.custom = Absent THEN 1 ELSE status.custom
           input == model.ratio * status.perUnit * r * rate
           e == RoutingPrices(model, status)[g]
           m == DecodeModel(model, status)
           q == DisplayPrice(m, g)
           Stop == \/ ~status.trusted \/ model.billing # "ratio"
                   \/ status.unit \notin {"USD", "CNY"}
                   \/ model.ratio = Absent \/ status.perUnit <= 0
                   \/ status.custom = 0 \/ (status.custom = Absent /\ status.unit # "USD")
<1>1. ~Stop
  <2>1. Stop => RoutingPrices(model, status) = <<>>
    BY DEF RoutingPrices
  <2>2. DOMAIN <<>> = {}
    OBVIOUS
  <2> QED BY <2>1, <2>2
<1>2. /\ model.billing = "ratio" /\ model.ratio = 3 /\ status.perUnit = 2
      /\ status.custom \in {Absent, 7}
  BY <1>1, ModelFacts, StatusFacts
<1>3. /\ g \in model.groups /\ r # Absent
      /\ e = [input |-> input, output |-> Scaled(model.completion, input)]
  <2>1. RoutingPrices(model, status) =
            [h \in {h \in model.groups : model.ratios[h] # Absent} |->
                [input |-> model.ratio * status.perUnit * model.ratios[h] * rate,
                 output |-> Scaled(model.completion,
                                   model.ratio * status.perUnit * model.ratios[h] * rate)]]
    BY <1>1 DEF RoutingPrices
  <2>2. g \in {h \in model.groups : model.ratios[h] # Absent}
    BY <2>1
  <2> QED BY <2>1, <2>2
<1>4. g \in PriceGroups /\ r \in {0, 2}
  BY <1>3, ModelFacts
<1>5. rate \in {1, 7}
  BY <1>2
<1>6. input = 6 * (r * rate) /\ input \in Nat
  BY <1>2, <1>4, <1>5
<1>7. model.completion \in {Absent, 0, 2}
  BY ModelFacts
<1>8. e.input = input /\ e.output = Scaled(model.completion, input)
  BY <1>3
<1>9. e.input \in Nat /\ e.output \in Int
  BY <1>6, <1>7, <1>8 DEF Scaled, Absent
<1>10. /\ q.available /\ q.input = input * extra
       /\ q.output = (IF e.output > 0 THEN e.output ELSE input) * extra
  <2>1. DecodeRate(status) = rate * extra /\ extra \in {1, 5}
    BY <1>2, StatusFacts DEF DecodeRate, Absent
  <2>2. m.multipliers[g] = r /\ g \in DOMAIN m.multipliers
    BY <1>3, <1>4, QuotesAssumption DEF DecodeModel
  <2>3. /\ m.mode = "ratio" /\ m.ratio = 3 /\ m.perUnit = 2
        /\ m.completion = model.completion /\ m.rate = rate * extra
    BY <1>2, <2>1 DEF DecodeModel
  <2>3a. ~m.expression
    BY <1>2 DEF DecodeModel, Expressions
  <2> HIDE DEF m, extra
  <2>4. RateOf(m) = rate * extra
    BY <1>5, <2>1, <2>3 DEF RateOf
  <2> HIDE DEF rate, r
  <2>5. PICK factor \in Int : factor = r * (rate * extra)
    BY <1>4, <1>5, <2>1
  <2>6. DisplayPrice(m, g) =
           PerToken(3 * 2 * factor,
                    IF model.completion > 0 THEN 3 * 2 * factor * model.completion
                    ELSE 3 * 2 * factor)
    BY <2>2, <2>3, <2>3a, <2>4, <2>5 DEF DisplayPrice, Absent
  <2>7. input * extra = 3 * 2 * factor
    BY <1>4, <1>5, <1>6, <2>1, <2>5
  <2> HIDE DEF input, e
  <2>7a. PICK page \in Nat : page = input * extra
    BY <1>6, <2>1
  <2>8. q = PerToken(page, IF model.completion > 0 THEN page * model.completion ELSE page)
    BY <2>6, <2>7, <2>7a
  <2> HIDE DEF q
  <2>9. q.input = page /\ q.available
    <3>1. page # Absent
      BY DEF Absent
    <3>2. ASSUME NEW output PROVE PerToken(page, output).input = page
      BY DEF PerToken
    <3>3. ASSUME NEW output PROVE PerToken(page, output).available = TRUE
      BY <3>1 DEF PerToken
    <3> QED BY <2>8, <3>2, <3>3
  <2>10. q.output = IF model.completion > 0 THEN page * model.completion ELSE page
    BY <2>8 DEF PerToken
  <2>11. q.output = (IF e.output > 0 THEN e.output ELSE input) * extra
    <3>1. CASE model.completion = 2
      <4>1. e.output = 2 * input
        BY <1>8, <3>1 DEF Scaled, Absent
      <4>2. q.output = page * 2
        BY <2>10, <3>1
      <4>3. PICK price \in Nat, times \in {1, 5} : price = input /\ times = extra
        BY <1>6, <2>1
      <4>4. page * 2 = (2 * price) * times
        BY <2>7a, <4>3
      <4>5. CASE price = 0
        BY <2>7a, <4>1, <4>2, <4>3, <4>4, <4>5
      <4>6. CASE price > 0
        BY <4>1, <4>2, <4>3, <4>4, <4>6
      <4> QED BY <4>5, <4>6
    <3>2. CASE model.completion # 2
      <4>1. ~(e.output > 0) /\ q.output = page
        BY <1>6, <1>7, <1>8, <2>10, <3>2 DEF Scaled, Absent
      <4> QED BY <2>7a, <4>1
    <3> QED BY <3>1, <3>2
  <2> QED BY <2>7a, <2>9, <2>11
<1> QED BY <1>3, <1>8, <1>9, <1>10

-----------------------------------------------------------------------------
(* Quotes: direct price lists.                                             *)

\* Quotes per group.
QuoteMap == UNION {[D -> Quote] : D \in SUBSET PriceGroups}

\* What maps of quotes are.
LEMMA MapFacts ==
    /\ <<>> \in QuoteMap
    /\ \A f \in QuoteMap : /\ DOMAIN f \in SUBSET PriceGroups
                           /\ \A g \in DOMAIN f : f[g] \in Quote
    /\ \A D \in SUBSET PriceGroups : \A f \in [D -> Quote] : f \in QuoteMap
<1>1. <<>> \in [{} -> Quote]
  OBVIOUS
<1>2. <<>> \in QuoteMap
  BY <1>1 DEF QuoteMap
<1>3. ASSUME NEW f \in QuoteMap
      PROVE  DOMAIN f \in SUBSET PriceGroups /\ \A g \in DOMAIN f : f[g] \in Quote
  BY DEF QuoteMap
<1>4. ASSUME NEW D \in SUBSET PriceGroups, NEW f \in [D -> Quote] PROVE f \in QuoteMap
  BY DEF QuoteMap
<1> QED BY <1>2, <1>3, <1>4

\* The quote of an item.
LEMMA ItemFacts ==
    ASSUME NEW item \in Items
    PROVE  item.group \in PriceGroups /\ ItemQuote(item) \in Quote
<1>1. /\ item.group \in PriceGroups /\ item.input \in Int /\ item.output \in Int
      /\ item.perRequest \in Int /\ item.rate \in Int /\ item.imageRate \in Int
  <2>1. CASE item \in ItemsOf("token", {Absent, 3}, {Absent, 2}, {Absent}, {Absent})
    BY <2>1 DEF ItemsOf, Absent
  <2>2. CASE item \in ItemsOf("request", {Absent}, {Absent}, {Absent, 4}, {Absent})
    BY <2>2 DEF ItemsOf, Absent
  <2>3. CASE item \in ItemsOf("image", {Absent}, {Absent}, {Absent, 4}, {Absent, 3})
    BY <2>3 DEF ItemsOf, Absent
  <2> QED BY <2>1, <2>2, <2>3 DEF Items
<1>2. PICK factor \in Int :
          factor = LET rate == IF item.independent THEN item.imageRate ELSE item.rate
                   IN  IF rate = Absent THEN 1 ELSE rate
  BY <1>1
<1>3. ItemQuote(item) =
         IF item.mode = "token"
         THEN PerToken(Scaled(item.input, factor), Scaled(item.output, factor))
         ELSE PerRequest(Scaled(item.perRequest, factor))
  BY <1>2 DEF ItemQuote
<1>4. /\ Scaled(item.input, factor) \in Int /\ Scaled(item.output, factor) \in Int
      /\ Scaled(item.perRequest, factor) \in Int
  BY <1>1, QuotesMade
<1> QED BY <1>1, <1>3, <1>4, QuotesMade

\* Of two quotes for a group the one that is kept.
LEMMA KeptFacts ==
    ASSUME NEW a \in Quote, NEW b \in Quote
    PROVE  LET best == LowestAvailable(<<a, b>>)
               kept == IF best.available THEN best ELSE a
           IN  kept \in Quote /\ NoneBelow(kept, a) /\ NoneBelow(kept, b)
<1> DEFINE best == LowestAvailable(<<a, b>>)
<1>1. <<a, b>> \in Seq(Quote) /\ Len(<<a, b>>) = 2 /\ <<a, b>>[1] = a /\ <<a, b>>[2] = b
  OBVIOUS
<1>2. best \in Quote /\ NoneBelow(best, a) /\ NoneBelow(best, b)
  <2>1. best \in Quote /\ \A i \in 1..2 : NoneBelow(best, <<a, b>>[i])
    BY <1>1, LowestFacts
  <2> QED BY <1>1, <2>1
<1> HIDE DEF best
<1>3. CASE best.available
  BY <1>2, <1>3 DEF best
<1>4. CASE ~best.available
  <2>1. ~a.available /\ ~b.available
    BY <1>2, <1>4 DEF NoneBelow
  <2> QED BY <1>4, <2>1 DEF NoneBelow, best
<1> QED BY <1>3, <1>4

\* One more item.
LEMMA WithItemFacts ==
    ASSUME NEW quotes \in QuoteMap, NEW item \in Items
    PROVE  LET w == WithItem(quotes, item)
           IN  /\ w \in QuoteMap /\ DOMAIN w = DOMAIN quotes \cup {item.group}
               /\ \A g \in DOMAIN quotes : NoneBelow(w[g], quotes[g])
               /\ NoneBelow(w[item.group], ItemQuote(item))
<1> DEFINE w == WithItem(quotes, item)
           D == DOMAIN quotes \cup {item.group}
           Chosen(g) == LET best == LowestAvailable(<<quotes[g], ItemQuote(item)>>)
                      IN  IF best.available THEN best ELSE quotes[g]
<1>1. DOMAIN quotes \in SUBSET PriceGroups /\ \A g \in DOMAIN quotes : quotes[g] \in Quote
  BY MapFacts
<1>2. item.group \in PriceGroups /\ ItemQuote(item) \in Quote
  BY ItemFacts
<1>3. /\ DOMAIN w = D
      /\ \A g \in D : w[g] = IF g # item.group THEN quotes[g]
                             ELSE IF g \notin DOMAIN quotes THEN ItemQuote(item) ELSE Chosen(g)
      /\ w = [g \in D |-> w[g]]
  BY DEF WithItem
<1>4. \A g \in DOMAIN quotes : /\ Chosen(g) \in Quote /\ NoneBelow(Chosen(g), quotes[g])
                               /\ NoneBelow(Chosen(g), ItemQuote(item))
  BY <1>1, <1>2, KeptFacts
<1> HIDE DEF w, Chosen
<1>5. \A q \in Quote : NoneBelow(q, q)
  BY AmountsCompare DEF NoneBelow
<1>6. \A g \in D : w[g] \in Quote
  BY <1>1, <1>2, <1>3, <1>4
<1>7. w \in QuoteMap
  <2>1. D \in SUBSET PriceGroups
    BY <1>1, <1>2
  <2> HIDE DEF D
  <2>2. w \in [D -> Quote]
    BY <1>3, <1>6
  <2> QED BY <2>1, <2>2, MapFacts
<1>8. ASSUME NEW g \in DOMAIN quotes PROVE NoneBelow(w[g], quotes[g])
  <2>1. CASE g = item.group
    <3>1. w[g] = Chosen(g)
      BY <1>3, <2>1
    <3> QED BY <1>4, <3>1
  <2>2. CASE g # item.group
    <3>1. w[g] = quotes[g]
      BY <1>3, <2>2
    <3> QED BY <1>1, <1>5, <3>1
  <2> QED BY <2>1, <2>2
<1>9. NoneBelow(w[item.group], ItemQuote(item))
  <2>1. CASE item.group \in DOMAIN quotes
    <3>1. w[item.group] = Chosen(item.group)
      BY <1>3, <2>1
    <3> QED BY <1>4, <2>1, <3>1
  <2>2. CASE item.group \notin DOMAIN quotes
    <3>1. w[item.group] = ItemQuote(item)
      BY <1>3, <2>2
    <3> QED BY <1>2, <1>5, <3>1
  <2> QED BY <2>1, <2>2
<1> QED BY <1>3, <1>7, <1>8, <1>9 DEF w, D

\* No quote that is none below one that is none below is below.
LEMMA NoneBelowTransitive ==
    ASSUME NEW a \in Quote, NEW b \in Quote, NEW c \in Quote,
           NoneBelow(a, b), NoneBelow(b, c)
    PROVE  NoneBelow(a, c)
<1>1. /\ ComparableAmount(a) \in Int /\ ComparableAmount(b) \in Int
      /\ ComparableAmount(c) \in Int
  BY AmountsCompare
<1> QED BY <1>1 DEF NoneBelow

\* The loop over the items keeps a quote per group that none of them is below.
LEMMA DirectFacts ==
    ASSUME NEW items \in Seq(Items)
    PROVE  /\ DirectPrices(items) \in QuoteMap
           /\ \A i \in 1..Len(items) :
                 /\ items[i].group \in DOMAIN DirectPrices(items)
                 /\ NoneBelow(DirectPrices(items)[items[i].group], ItemQuote(items[i]))
<1> DEFINE N == Len(items)
           IsLoop(f) == f = [n \in 0..N |-> IF n = 0 THEN <<>> ELSE WithItem(f[n - 1], items[n])]
           decoded == CHOOSE f : IsLoop(f)
           step == [n \in 1..N |-> [v \in QuoteMap |-> WithItem(v, items[n])]]
<1>1. N \in Nat /\ \A n \in 1..N : items[n] \in Items
  OBVIOUS
<1>2. <<>> \in QuoteMap
  BY MapFacts
<1>3. \A n \in 1..N, v \in QuoteMap : WithItem(v, items[n]) \in QuoteMap
  BY <1>1, WithItemFacts
<1>4. step \in [1..N -> [QuoteMap -> QuoteMap]]
  BY <1>3
<1> HIDE DEF N
<1>5. \E f : IsLoop(f)
  <2>1. PICK f : IsRun(f, N, QuoteMap, <<>>, step)
    <3> HIDE DEF step
    <3>1. HasRun(N, QuoteMap, <<>>, step)
      BY <1>1, <1>2, <1>4, LoopExists
    <3> QED BY <3>1 DEF HasRun
  <2>2. \A n \in 0..N : f[n] = IF n = 0 THEN <<>> ELSE WithItem(f[n - 1], items[n])
    <3> TAKE n \in 0..N
    <3>1. CASE n = 0
      <4> HIDE DEF step
      <4> QED BY <2>1, <3>1 DEF IsRun
    <3>2. CASE n # 0
      <4>1. n \in 1..N /\ n - 1 \in 0..N
        BY <1>1, <3>2
      <4>2. f[n - 1] \in QuoteMap /\ f[n] = step[n][f[n - 1]]
        <5> HIDE DEF step
        <5> QED BY <2>1, <4>1 DEF IsRun
      <4>3. f[n] = WithItem(f[n - 1], items[n])
        BY <4>1, <4>2
      <4> QED BY <3>2, <4>3
    <3> QED BY <3>1, <3>2
  <2>3. f = [n \in 0..N |-> f[n]]
    <3> HIDE DEF step
    <3> QED BY <2>1 DEF IsRun
  <2>4. [n \in 0..N |-> f[n]] = [n \in 0..N |-> IF n = 0 THEN <<>> ELSE WithItem(f[n - 1], items[n])]
    BY <2>2
  <2> QED BY <2>3, <2>4
<1>6. IsLoop(decoded)
  BY <1>5
<1>7. DirectPrices(items) = decoded[N]
  BY DEF DirectPrices, N
<1>8. \A n \in 0..N : decoded[n] = IF n = 0 THEN <<>> ELSE WithItem(decoded[n - 1], items[n])
  BY <1>6
<1> HIDE DEF decoded, step
<1> DEFINE Keeps(v, n) == /\ v \in QuoteMap
                          /\ \A j \in 1..n : /\ items[j].group \in DOMAIN v
                                             /\ NoneBelow(v[items[j].group], ItemQuote(items[j]))
           T == {n \in 0..N : Keeps(decoded[n], n)}
<1>9. 0 \in T
  BY <1>1, <1>2, <1>8
<1>10. ASSUME NEW n \in 1..N, n - 1 \in T PROVE n \in T
  <2>1. n \in Nat \ {0} /\ n \in 0..N /\ Keeps(decoded[n - 1], n - 1)
    BY <1>1, <1>10
  <2>2. PICK old : old = decoded[n - 1]
    OBVIOUS
  <2>3. Keeps(old, n - 1) /\ items[n] \in Items
    BY <1>1, <2>1, <2>2
  <2>4. PICK new : new = WithItem(old, items[n])
    OBVIOUS
  <2>5. decoded[n] = new
    BY <1>8, <2>1, <2>2, <2>4
  <2>6. old \in QuoteMap
    BY <2>3
  <2>7. /\ new \in QuoteMap /\ DOMAIN new = DOMAIN old \cup {items[n].group}
        /\ \A g \in DOMAIN old : NoneBelow(new[g], old[g])
        /\ NoneBelow(new[items[n].group], ItemQuote(items[n]))
    BY <2>3, <2>4, <2>6, WithItemFacts
  <2>8. ASSUME NEW i \in 1..n
        PROVE  /\ items[i].group \in DOMAIN new
               /\ NoneBelow(new[items[i].group], ItemQuote(items[i]))
    <3>1. CASE i = n
      BY <2>7, <3>1
    <3>2. CASE i # n
      <4>1. i \in 1..(n - 1) /\ i \in 1..N
        BY <1>1, <2>1, <3>2
      <4> DEFINE g == items[i].group
      <4>2. g \in DOMAIN old /\ NoneBelow(old[g], ItemQuote(items[i]))
        BY <2>3, <4>1
      <4> HIDE DEF g
      <4>3. g \in DOMAIN new /\ NoneBelow(new[g], old[g])
        BY <2>7, <4>2
      <4>4. new[g] \in Quote /\ old[g] \in Quote
        BY <2>6, <2>7, <4>2, <4>3, MapFacts
      <4>5. ItemQuote(items[i]) \in Quote
        BY <1>1, <4>1, ItemFacts
      <4>6. NoneBelow(new[g], ItemQuote(items[i]))
        BY <4>2, <4>3, <4>4, <4>5, NoneBelowTransitive
      <4> QED BY <4>3, <4>6 DEF g
    <3> QED BY <3>1, <3>2
  <2>9. Keeps(new, n)
    BY <2>7, <2>8
  <2> QED BY <2>1, <2>5, <2>9
<1> HIDE DEF Keeps
<1>11. N \in T
  <2>1. T \in SUBSET (0..N) /\ N \in 0..N
    BY <1>1
  <2> HIDE DEF T
  <2> QED BY <1>1, <1>9, <1>10, <2>1, Upto
<1>12. Keeps(decoded[N], N)
  BY <1>11
<1>13. Keeps(DirectPrices(items), Len(items))
  BY <1>7, <1>12 DEF N
<1> QED BY <1>13 DEF Keeps

-----------------------------------------------------------------------------
(* Quotes: the invariant.                                                  *)

PriceList ==
    [decoder : {"none"}]
    \cup [decoder : {"newapi"}, model : Models, status : Statuses \cup {NoStatus}]
    \cup [decoder : {"direct"}, items : Seq(Items)]

\* What was collected follows the price list, or came before it.
Followed ==
    /\ DOMAIN groupRows = StoredGroups
    /\ \A g \in StoredGroups : groupRows[g] = RowOf(g)
    /\ modelPrice = Extension
Unpriced ==
    /\ DOMAIN groupRows \subseteq Groups
    /\ \A g \in DOMAIN groupRows :
          /\ groupRows[g].price = NotStored /\ groupRows[g].evidence = NoEvidence
          /\ groupRows[g].known \in BOOLEAN
    /\ modelPrice = NotStored
QuotesInv ==
    /\ prices \in PriceList
    /\ observed \in SUBSET Groups
    /\ groupRows = <<>> \/ Followed \/ Unpriced

\* The three kinds of price lists.
LEMMA PriceListFacts ==
    ASSUME prices \in PriceList
    PROVE  /\ prices.decoder \in {"none", "newapi", "direct"}
           /\ prices.decoder = "newapi" =>
                 prices.model \in Models /\ prices.status \in Statuses \cup {NoStatus}
           /\ prices.decoder = "direct" => prices.items \in Seq(Items)
           /\ prices.decoder = "none" => prices = NotFetched
<1>1. CASE prices \in [decoder : {"none"}]
  BY <1>1 DEF NotFetched
<1>2. CASE prices \in [decoder : {"newapi"}, model : Models, status : Statuses \cup {NoStatus}]
  BY <1>2
<1>3. CASE prices \in [decoder : {"direct"}, items : Seq(Items)]
  BY <1>3
<1> QED BY <1>1, <1>2, <1>3 DEF PriceList

\* The groups of the price list are groups, with a quote each.
LEMMA GroupPricesFacts ==
    ASSUME prices \in PriceList
    PROVE  /\ DOMAIN GroupPrices \in SUBSET Groups
           /\ \A g \in DOMAIN GroupPrices : GroupPrices[g] \in Quote
           /\ prices.decoder = "none" => DOMAIN GroupPrices = {} /\ DOMAIN Evidence = {}
<1>1. CASE prices.decoder = "newapi"
  <2> DEFINE m == DecodeModel(prices.model, prices.status)
  <2>1. GroupPrices = [g \in DOMAIN m.multipliers |-> DisplayPrice(m, g)]
    BY <1>1 DEF GroupPrices, PricesForModel
  <2>2. m \in Decoded
    BY <1>1, PriceListFacts, DecodeFacts
  <2>3. DOMAIN m.multipliers \in SUBSET Groups
    <3> HIDE DEF m
    <3> QED BY <2>2 DEF Decoded
  <2>4. \A g \in DOMAIN m.multipliers : DisplayPrice(m, g) \in Quote
    <3> HIDE DEF m
    <3> QED BY <2>2, DisplayFacts
  <2> HIDE DEF m
  <2> QED BY <1>1, <2>1, <2>3, <2>4
<1>2. CASE prices.decoder = "direct"
  <2>1. GroupPrices = DirectPrices(prices.items)
    BY <1>2 DEF GroupPrices
  <2>2. GroupPrices \in QuoteMap
    BY <1>2, <2>1, PriceListFacts, DirectFacts
  <2> QED BY <1>2, <2>2, MapFacts DEF Groups
<1>3. CASE prices.decoder = "none"
  <2>1. GroupPrices = <<>> /\ Evidence = <<>>
    BY <1>3 DEF GroupPrices, Evidence
  <2>2. DOMAIN <<>> = {}
    OBVIOUS
  <2> QED BY <2>1, <2>2
<1> QED BY <1>1, <1>2, <1>3, PriceListFacts

\* Rows follow no list that is not there.
LEMMA NothingFetched ==
    ASSUME QuotesInv, Followed, prices = NotFetched
    PROVE  Unpriced
<1>1. prices.decoder = "none" /\ prices \in PriceList
  BY DEF NotFetched, QuotesInv
<1>2. DOMAIN GroupPrices = {} /\ DOMAIN Evidence = {}
  BY <1>1, GroupPricesFacts
<1>3. DOMAIN groupRows \subseteq Groups
  BY <1>2 DEF Followed, StoredGroups, QuotesInv
<1>4. ASSUME NEW g \in DOMAIN groupRows
      PROVE  /\ groupRows[g].price = NotStored /\ groupRows[g].evidence = NoEvidence
             /\ groupRows[g].known \in BOOLEAN
  <2>1. groupRows[g] = RowOf(g)
    BY DEF Followed
  <2>2. g \notin DOMAIN GroupPrices
    BY <1>2
  <2>3. RowOf(g).price = NotStored /\ RowOf(g).evidence = NoEvidence
    BY <2>2 DEF RowOf
  <2>4. RowOf(g).known \in BOOLEAN
    BY DEF RowOf
  <2> QED BY <2>1, <2>3, <2>4
<1>5. modelPrice = NotStored
  BY <1>1 DEF Followed, Extension
<1> QED BY <1>3, <1>4, <1>5 DEF Unpriced

\* Nothing is collected at first.
LEMMA QuotesStart == ASSUME QuotesInit PROVE QuotesInv
<1>1. prices \in PriceList
  BY DEF QuotesInit, NotFetched, PriceList
<1>2. observed \in SUBSET Groups
  BY DEF QuotesInit, Groups
<1> QED BY <1>1, <1>2 DEF QuotesInit, QuotesInv

\* A price list comes before the collection, or too late for it.
LEMMA PublishKeeps == ASSUME QuotesInv, PublishRatios \/ PublishItem PROVE QuotesInv'
<1>1. CASE PublishRatios
  <2>1. prices' \in PriceList
    BY <1>1 DEF PublishRatios, PriceList
  <2>2. groupRows = <<>> \/ Unpriced
    BY <1>1, NothingFetched DEF PublishRatios, QuotesInv
  <2> QED BY <1>1, <2>1, <2>2 DEF PublishRatios, QuotesInv, Unpriced
<1>2. CASE PublishItem
  <2>1. prices' \in [decoder : {"direct"}, items : Seq(Items)]
    <3>1. PICK item \in Items :
              \/ prices = NotFetched /\ prices' = [decoder |-> "direct", items |-> <<item>>]
              \/ /\ prices # NotFetched
                 /\ prices' = [prices EXCEPT !.items = Append(@, item)]
      BY <1>2 DEF PublishItem
    <3>2. CASE prices = NotFetched
      <4>1. PICK items : items = <<item>>
        OBVIOUS
      <4>2. items \in Seq(Items)
        BY <4>1
      <4>3. prices' = [decoder |-> "direct", items |-> items]
        BY <3>1, <3>2, <4>1
      <4> QED BY <4>2, <4>3
    <3>3. CASE prices # NotFetched
      <4>1. prices.decoder = "direct"
        BY <1>2, <3>3, PriceListFacts DEF PublishItem, QuotesInv
      <4>2. prices \in [decoder : {"direct"}, items : Seq(Items)]
        BY <4>1 DEF QuotesInv, PriceList
      <4>3. PICK items \in Seq(Items) : prices = [decoder |-> "direct", items |-> items]
        BY <4>2
      <4>4. prices.items = items /\ prices' = [prices EXCEPT !.items = Append(prices.items, item)]
        BY <3>1, <3>3, <4>3
      <4>5. PICK more : more = Append(items, item)
        OBVIOUS
      <4>6. more \in Seq(Items)
        BY <4>5
      <4>7. prices' = [decoder |-> "direct", items |-> more]
        BY <4>3, <4>4, <4>5
      <4> QED BY <4>6, <4>7
    <3> QED BY <3>2, <3>3
  <2>2. prices' \in PriceList
    BY <2>1 DEF PriceList
  <2> QED BY <1>2, <2>2 DEF PublishItem, QuotesInv
<1> QED BY <1>1, <1>2

\* A collection follows the list there is.
LEMMA CollectKeeps == ASSUME QuotesInv, Collect PROVE QuotesInv'
<1>1. UNCHANGED <<prices, observed>>
  BY DEF Collect
<1>2. /\ GroupPrices' = GroupPrices /\ Evidence' = Evidence /\ StoredGroups' = StoredGroups
      /\ Extension' = Extension
  BY <1>1 DEF GroupPrices, Evidence, StoredGroups, Extension
<1>3. \A g : RowOf(g)' = RowOf(g)
  BY <1>2 DEF RowOf
<1>4. /\ groupRows' = [g \in StoredGroups |-> RowOf(g)]
      /\ modelPrice' = Extension
  BY DEF Collect
<1>5. Followed'
  BY <1>2, <1>3, <1>4 DEF Followed
<1> QED BY <1>1, <1>5 DEF QuotesInv

\* Every step keeps the rows in line with the list.
LEMMA QuotesStep == ASSUME QuotesInv, [QuotesNext]_quoteVars PROVE QuotesInv'
<1>1. CASE UNCHANGED quoteVars
  BY <1>1 DEF quoteVars, QuotesInv, Followed, Unpriced, StoredGroups, RowOf, Extension,
              GroupPrices, Evidence
<1> QED BY <1>1, PublishKeeps, CollectKeeps DEF QuotesNext

\* The rows follow the price list they were collected with.
THEOREM QuotesInvariant == QuotesSpec => []QuotesInv
<1>1. QuotesInit => QuotesInv
  BY QuotesStart
<1>2. QuotesInv /\ [QuotesNext]_quoteVars => QuotesInv'
  BY QuotesStep
<1> QED BY <1>1, <1>2, PTL DEF QuotesSpec

-----------------------------------------------------------------------------
(* Quotes: what follows.                                                   *)

\* Collected rows have these values.
LEMMA RowTypes ==
    ASSUME prices \in PriceList, NEW g
    PROVE  RowOf(g).evidence.input \in {Absent} \cup Nat /\ RowOf(g).known \in BOOLEAN
<1>1. NoEvidence.input \in {Absent} \cup Nat
  BY DEF NoEvidence
<1>2. ASSUME g \in DOMAIN Evidence PROVE Evidence[g].input \in Nat
  <2>1. prices.decoder = "newapi"
    <3>1. DOMAIN <<>> = {}
      OBVIOUS
    <3> QED BY <1>2, <3>1 DEF Evidence
  <2>2. Evidence = RoutingPrices(prices.model, prices.status)
    BY <2>1 DEF Evidence
  <2> QED BY <1>2, <2>1, <2>2, PriceListFacts, EvidenceFacts
<1>3. RowOf(g).evidence \in {NoEvidence} \cup {Evidence[h] : h \in {h \in {g} : h \in DOMAIN Evidence}}
  BY DEF RowOf
<1>4. RowOf(g).known \in BOOLEAN
  BY DEF RowOf
<1> QED BY <1>1, <1>2, <1>3, <1>4

\* The invariant gives the types.
LEMMA QuotesTypes == ASSUME QuotesInv PROVE QuotesTypeOK
<1>1. prices \in PriceList /\ observed \in SUBSET Groups
  BY DEF QuotesInv
<1>2. CASE groupRows = <<>>
  <2>1. DOMAIN <<>> = {}
    OBVIOUS
  <2> QED BY <1>1, <1>2, <2>1 DEF QuotesTypeOK
<1>3. CASE Followed
  <2>1. StoredGroups \subseteq Groups
    BY <1>1, GroupPricesFacts DEF StoredGroups
  <2>2. \A g \in DOMAIN groupRows : groupRows[g] = RowOf(g)
    BY <1>3 DEF Followed
  <2>3. \A g \in DOMAIN groupRows :
           groupRows[g].evidence.input \in {Absent} \cup Nat /\ groupRows[g].known \in BOOLEAN
    BY <1>1, <2>2, RowTypes
  <2> QED BY <1>1, <1>3, <2>1, <2>3 DEF QuotesTypeOK, Followed
<1>4. CASE Unpriced
  BY <1>1, <1>4 DEF Unpriced, NoEvidence, QuotesTypeOK
<1> QED BY <1>2, <1>3, <1>4 DEF QuotesInv

\* A quote is stored as a quote.
LEMMA QuoteIsStored == \A q \in Quote : q # NotStored
<1>1. \A q \in Quote : "available" \in DOMAIN q
  BY DEF Quote
<1>2. "available" \notin DOMAIN NotStored
  BY DEF NotStored
<1> QED BY <1>1, <1>2

\* Machines and pages agree on collected rows.
LEMMA EvidenceAgrees ==
    ASSUME QuotesInv, prices.decoder = "newapi"
    PROVE  EvidenceMatchesQuote
<1>1. prices \in PriceList
  BY DEF QuotesInv
<1>2. prices.model \in Models /\ prices.status \in Statuses \cup {NoStatus}
  BY <1>1, PriceListFacts
<1> SUFFICES ASSUME NEW g \in DOMAIN groupRows, Observations[g] # NoEvidence
             PROVE  LET e == Observations[g]
                    IN  /\ Shown(g).available /\ Shown(g).input = e.input * RateOfPagesOnly
                        /\ Shown(g).output =
                              (IF e.output > 0 THEN e.output ELSE e.input) * RateOfPagesOnly
  BY DEF EvidenceMatchesQuote
<1>3. groupRows # <<>>
  <2>1. DOMAIN <<>> = {}
    OBVIOUS
  <2> QED BY <2>1
<1>4. Observations[g] = groupRows[g].evidence /\ groupRows[g].evidence # NoEvidence
  BY DEF Observations
<1>5. ~Unpriced
  BY <1>4 DEF Unpriced
<1>6. Followed
  BY <1>3, <1>5 DEF QuotesInv
<1>7. groupRows[g] = RowOf(g)
  BY <1>6 DEF Followed
<1>8. /\ g \in DOMAIN GroupPrices /\ g \in DOMAIN Evidence
      /\ groupRows[g].evidence = Evidence[g] /\ groupRows[g].price = GroupPrices[g]
  <2>1. RowOf(g).evidence # NoEvidence
    BY <1>4, <1>7
  <2>2. g \in DOMAIN GroupPrices /\ g \in DOMAIN Evidence
    BY <2>1 DEF RowOf
  <2> QED BY <1>7, <2>2 DEF RowOf
<1>9. /\ Evidence = RoutingPrices(prices.model, prices.status)
      /\ GroupPrices[g] = DisplayPrice(DecodeModel(prices.model, prices.status), g)
  BY <1>8 DEF Evidence, GroupPrices, PricesForModel
<1>10. GroupPrices[g] \in Quote
  BY <1>1, <1>8, GroupPricesFacts
<1>11. Shown(g) = GroupPrices[g]
  BY <1>8, <1>10, QuoteIsStored DEF Shown
<1>12. LET e == RoutingPrices(prices.model, prices.status)[g]
           q == DisplayPrice(DecodeModel(prices.model, prices.status), g)
       IN  /\ q.available /\ q.input = e.input * RateOfPagesOnly
           /\ q.output = (IF e.output > 0 THEN e.output ELSE e.input) * RateOfPagesOnly
  BY <1>2, <1>8, <1>9, EvidenceFacts DEF RateOfPagesOnly
<1> QED BY <1>4, <1>8, <1>9, <1>11, <1>12

\* A group without a price shows the lowest of the others, not converted.
LEMMA FallbackAgrees ==
    ASSUME QuotesInv, prices.decoder = "newapi"
    PROVE  FallbackIsLowest
<1>1. prices \in PriceList
  BY DEF QuotesInv
<1>2. prices.model \in Models /\ prices.status \in Statuses \cup {NoStatus}
  BY <1>1, PriceListFacts
<1>2a. PICK rate \in {1, 5, 7} : rate = DecodeRate(prices.status)
  BY <1>2, RateFacts
<1> SUFFICES ASSUME NEW g \in DOMAIN groupRows \ DOMAIN GroupPrices, Shown(g).available
             PROVE  /\ \A h \in DOMAIN GroupPrices : GroupPrices[h].available =>
                          ComparableAmount(Shown(g)) * rate <= ComparableAmount(GroupPrices[h])
                    /\ \E h \in DOMAIN GroupPrices :
                          /\ GroupPrices[h].available
                          /\ ComparableAmount(Shown(g)) * rate = ComparableAmount(GroupPrices[h])
  BY <1>2a DEF FallbackIsLowest
<1>3. groupRows # <<>>
  <2>1. DOMAIN <<>> = {}
    OBVIOUS
  <2> QED BY <2>1
<1>4. ~Unpriced
  <2>1. ~NoQuoteOf("none").available
    BY DEF NoQuoteOf
  <2> QED BY <2>1 DEF Unpriced, Shown
<1>5. Followed
  BY <1>3, <1>4 DEF QuotesInv
<1> DEFINE m == DecodeModel(prices.model, prices.status)
           n == [m EXCEPT !.rate = 0]
           S == {DisplayPrice(modelPrice, h) : h \in DOMAIN modelPrice.multipliers}
           s == SetToSeq(S)
<1>6. m \in Decoded /\ IsFiniteSet(DOMAIN m.multipliers) /\ m.rate = rate
  BY <1>2, <1>2a, DecodeFacts
<1>7. modelPrice = n
  BY <1>5 DEF Followed, Extension
<1>8. GroupPrices = [h \in DOMAIN m.multipliers |-> DisplayPrice(m, h)]
  BY DEF GroupPrices, PricesForModel
<1> HIDE DEF m
<1>9. /\ n \in Decoded /\ n # NotStored /\ n.multipliers = m.multipliers
      /\ \A h \in DOMAIN m.multipliers :
            LET p == DisplayPrice(m, h)
                q == DisplayPrice(n, h)
            IN  /\ q.available = p.available
                /\ q.available => ComparableAmount(q) * m.rate = ComparableAmount(p)
  <2>1. m.rate # 0
    BY <1>6
  <2> QED BY <1>6, <2>1, RateLeftOut
<1> HIDE DEF n
<1>10. S = {DisplayPrice(n, h) : h \in DOMAIN m.multipliers}
  BY <1>7, <1>9
<1>11. \A h \in DOMAIN m.multipliers : DisplayPrice(n, h) \in Quote
  BY <1>9, DisplayFacts
<1>12. S \subseteq Quote
  BY <1>10, <1>11
<1>13. IsFiniteSet(S)
  <2> DEFINE D == DOMAIN m.multipliers
             f == [h \in D |-> DisplayPrice(n, h)]
  <2>1. f \in Surjection(D, S)
    BY <1>10 DEF Surjection
  <2> HIDE DEF f, S
  <2> QED BY <1>6, <2>1, FS_Surjection
<1>14. Shown(g) = LowestAvailable(s)
  <2>1. RowOf(g).price = NotStored
    BY DEF RowOf
  <2>2. groupRows[g].price = NotStored
    BY <1>5, <2>1 DEF Followed
  <2> QED BY <1>7, <1>9, <2>2 DEF Shown
<1> HIDE DEF S
<1>15. s \in Seq(S) /\ \A x \in S : \E i \in 1..Len(s) : s[i] = x
  BY <1>13, SequenceOfSet
<1> HIDE DEF s
<1>16. s \in Seq(Quote)
  BY <1>12, <1>15
<1>17. /\ LowestAvailable(s) \in Quote
       /\ \E i \in 1..Len(s) : LowestAvailable(s) = s[i]
       /\ \A i \in 1..Len(s) : NoneBelow(LowestAvailable(s), s[i])
  BY <1>14, <1>16, LowestFacts
<1>18. /\ LowestAvailable(s) \in S
       /\ \A x \in S : NoneBelow(LowestAvailable(s), x)
  BY <1>15, <1>17
<1>19. ComparableAmount(Shown(g)) \in Int
  BY <1>14, <1>17, AmountsCompare
<1>20. \A h \in DOMAIN m.multipliers :
          GroupPrices[h] = DisplayPrice(m, h) /\ DisplayPrice(n, h) \in S
  BY <1>8, <1>10
<1>21. ASSUME NEW h \in DOMAIN GroupPrices, GroupPrices[h].available
       PROVE  ComparableAmount(Shown(g)) * rate <= ComparableAmount(GroupPrices[h])
  <2>1. h \in DOMAIN m.multipliers
    BY <1>8
  <2>2. PICK q \in Quote : q = DisplayPrice(n, h)
    BY <1>11, <2>1
  <2>3. q.available /\ ComparableAmount(q) * rate = ComparableAmount(GroupPrices[h])
    BY <1>6, <1>9, <1>20, <1>21, <2>1, <2>2
  <2>4. NoneBelow(Shown(g), q)
    BY <1>14, <1>18, <1>20, <2>1, <2>2
  <2>5. ComparableAmount(Shown(g)) <= ComparableAmount(q) /\ ComparableAmount(q) \in Int
    BY <2>2, <2>3, <2>4, AmountsCompare DEF NoneBelow
  <2> HIDE DEF S, s
  <2> QED BY <1>19, <2>3, <2>5
<1>22. \E h \in DOMAIN GroupPrices :
          /\ GroupPrices[h].available
          /\ ComparableAmount(Shown(g)) * rate = ComparableAmount(GroupPrices[h])
  <2>1. PICK h \in DOMAIN m.multipliers : Shown(g) = DisplayPrice(n, h)
    BY <1>10, <1>14, <1>18
  <2>2. /\ h \in DOMAIN GroupPrices /\ GroupPrices[h].available
        /\ ComparableAmount(Shown(g)) * rate = ComparableAmount(GroupPrices[h])
    BY <1>6, <1>8, <1>9, <1>20, <2>1
  <2> QED BY <2>2
<1> QED BY <1>21, <1>22

\* Of the items of one group the cheapest is kept.
LEMMA CheapestKept == ASSUME QuotesInv PROVE CheapestItemKept
<1> SUFFICES ASSUME prices.decoder = "direct", NEW i \in DOMAIN prices.items
             PROVE  NoneBelow(GroupPrices[prices.items[i].group], ItemQuote(prices.items[i]))
  BY DEF CheapestItemKept, NoneBelow
<1>1. prices.items \in Seq(Items)
  BY PriceListFacts DEF QuotesInv
<1>2. i \in 1..Len(prices.items)
  BY <1>1
<1>3. GroupPrices = DirectPrices(prices.items)
  BY DEF GroupPrices
<1> QED BY <1>1, <1>2, <1>3, DirectFacts

\* What pages and machines are told agrees with the price list.
THEOREM QuotesAlwaysAgree == QuotesSpec => []QuotesAgree
<1>1. QuotesInv => QuotesAgree
  BY EvidenceAgrees, FallbackAgrees, CheapestKept DEF QuotesAgree
<1> QED BY <1>1, QuotesInvariant, PTL

-----------------------------------------------------------------------------
(* The components together.                                                *)

\* A behaviour of the server is one of each component.
LEMMA SourcesRunComponents == SourcesSpec => Spec /\ ExprSpec /\ QuotesSpec /\ PoolSpec
<1>1. SourcesInit => Init /\ ExprInit /\ QuotesInit /\ PoolInit
  BY DEF SourcesInit
<1>2. [SourcesNext]_parts => /\ [Next]_vars /\ [ExprNext]_exprVars
                             /\ [QuotesNext]_quoteVars /\ [PoolNext]_poolVars
  BY DEF SourcesNext, parts, StepSessions, StepExpression, StepQuotes, StepPool
<1> QED BY <1>1, <1>2, PTL DEF SourcesSpec, Spec, ExprSpec, QuotesSpec, PoolSpec

\* No component ever holds a value outside of its type.
THEOREM SourcesTypesCorrect == SourcesSpec => []SourcesTypeOK
<1>1. SessionInv /\ ExprInv /\ QuotesInv /\ PoolInv => SourcesTypeOK
  BY QuotesTypes DEF SessionInv, ExprInv, PoolInv, SourcesTypeOK
<1> QED
  BY <1>1, SourcesRunComponents, SessionsInvariant, ExprInvariant, QuotesInvariant,
     PoolInvariant, PTL

\* The promises of the components, of one behaviour of the server.
THEOREM SourcesKeepPromises ==
    SourcesSpec => [](/\ SessionsStayUsable /\ QuotesAgree
                      /\ PoolKeepsBooks /\ QuoteIsTheTiersPrice)
  BY SourcesRunComponents, StoredSessionsStayUsable, QuotesAlwaysAgree, PoolBooksKept,
     QuotedAtItsWorth, PTL
=============================================================================
