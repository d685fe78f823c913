---------------------------- MODULE SessionSync ----------------------------
(***************************************************************************)
(* Browser session sync: pairing codes, sync tokens and the batches of     *)
(* credentials an extension sends with them (internal/session/sync.go, the *)
(* session-sync handlers of internal/httpserver/routes.go and              *)
(* sessionsync.go).                                                        *)
(*                                                                         *)
(* Codes and tokens live in memory under one mutex, and a restart forgets  *)
(* them.  The handler of a batch takes several calls, between which other  *)
(* handlers run and time passes.  A removed entry of a map is "gone" here, *)
(* or "spent" when its use removed it: the program does not tell the two   *)
(* apart.  A request from another extension than the one a token was given *)
(* to is turned away without any effect and left out.                      *)
(***************************************************************************)
EXTENDS Naturals, FiniteSets

CONSTANTS
    PairingCodes, Tokens,  \* pairing codes and sync tokens, in the order of need
    Batches,        \* POST /session-sync/batch requests in progress
    SyncSites,      \* enabled sites that require a session
    PairingTTL, SyncTTL, AttemptWindow, MaxPairingAttempts,
    SyncEnd         \* bound on the clock

ASSUME SyncAssumption ==
    /\ {PairingTTL, SyncTTL, AttemptWindow, MaxPairingAttempts, SyncEnd} \subseteq Nat \ {0}
    /\ PairingCodes \cap Tokens = {}

VARIABLES
    syncNow,
    pairing, token,    \* SyncManager.pairings and tokens, with their deadlines
    attempts,       \* attempt window: wrong codes, and since when; 0 for never
    batch,          \* per handler, where it is
    stored,         \* sites' sessions: one that lasts, or none or one with a day left
    state,          \* sites.acquisition_state, healthy or not
    uses            \* history: tokens a code became, batches stored with a token

manager == <<pairing, token, attempts>>
sites == <<stored, state>>
syncVars == <<syncNow, manager, batch, sites, uses>>

Entry(S) == [state : S, deadline : 0..(SyncEnd + PairingTTL + SyncTTL)]
IdleBatch == [pc |-> "idle"]
Batch == {IdleBatch}
    \cup [pc : {"pending"}, token : Tokens]
    \cup [pc : {"claim", "save", "verify", "failed"}, token : Tokens,
          sites : SUBSET SyncSites]
Stored == {"lasting", "due"}
State == {"healthy", "failed"}
NoAttempts == [count |-> 0, since |-> 0]

\* No window holds more wrong codes than the limit.
SyncTypeOK ==
    /\ syncNow \in 1..SyncEnd
    /\ pairing \in [PairingCodes -> Entry({"new", "valid", "spent", "gone"})]
    /\ token \in [Tokens -> Entry({"new", "valid", "claimed", "spent", "gone"})]
    /\ attempts \in [count : 0..MaxPairingAttempts, since : 0..SyncEnd]
    /\ batch \in [Batches -> Batch]
    /\ stored \in [SyncSites -> Stored]
    /\ state \in [SyncSites -> State]
    /\ uses \in [PairingCodes \cup Tokens -> 0..1]

SyncInit ==
    /\ syncNow = 1
    /\ pairing = [c \in PairingCodes |-> [state |-> "new", deadline |-> 0]]
    /\ token = [t \in Tokens |-> [state |-> "new", deadline |-> 0]]
    /\ attempts = NoAttempts
    /\ batch = [b \in Batches |-> IdleBatch]
    /\ stored = [s \in SyncSites |-> "due"]
    /\ state = [s \in SyncSites |-> "failed"]
    /\ uses = [x \in PairingCodes \cup Tokens |-> 0]

\* cleanupLocked, the first thing most calls do under the mutex.
Expired(e) == e.state \in {"valid", "claimed"} /\ e.deadline <= syncNow
Drop(map) == [x \in DOMAIN map |->
                IF Expired(map[x]) THEN [map[x] EXCEPT !.state = "gone"] ELSE map[x]]
WindowOver == attempts.since # 0 /\ attempts.since + AttemptWindow <= syncNow
Attempts == IF WindowOver THEN NoAttempts ELSE attempts

Valid(deadline) == [state |-> "valid", deadline |-> deadline]

-----------------------------------------------------------------------------
(* Codes and tokens.                                                       *)

CreatePairing(c) ==
    /\ pairing[c].state = "new"
    /\ pairing' = [Drop(pairing) EXCEPT ![c] = Valid(syncNow + PairingTTL)]
    /\ token' = Drop(token) /\ attempts' = Attempts
    /\ UNCHANGED <<syncNow, batch, sites, uses>>

\* After the administrator's password.
CreateToken(t) ==
    /\ token[t].state = "new"
    /\ token' = [Drop(token) EXCEPT ![t] = Valid(syncNow + SyncTTL)]
    /\ pairing' = Drop(pairing) /\ attempts' = Attempts
    /\ UNCHANGED <<syncNow, batch, sites, uses>>

\* Variant: the code is left in the map.
ExchangeKeeping(c, t) ==
    /\ Drop(pairing)[c].state = "valid" /\ token[t].state = "new"
    /\ pairing' = Drop(pairing)
    /\ token' = [Drop(token) EXCEPT ![t] = Valid(syncNow + SyncTTL)]
    /\ attempts' = NoAttempts
    /\ uses' = [uses EXCEPT ![c] = @ + 1]
    /\ UNCHANGED <<syncNow, batch, sites>>

\* A valid code becomes a token, whatever was tried before.
Exchange(c, t) ==
    /\ Drop(pairing)[c].state = "valid" /\ token[t].state = "new"
    /\ pairing' = [Drop(pairing) EXCEPT ![c].state = "spent"]
    /\ token' = [Drop(token) EXCEPT ![t] = Valid(syncNow + SyncTTL)]
    /\ attempts' = NoAttempts
    /\ uses' = [uses EXCEPT ![c] = @ + 1]
    /\ UNCHANGED <<syncNow, batch, sites>>

\* Variant: the limit is one attempt late.
CountWrong(a) ==
    IF a.count > MaxPairingAttempts THEN a ELSE [a EXCEPT !.count = @ + 1]

\* Above the limit a wrong code is turned away uncounted.
Count(a) == IF a.count >= MaxPairingAttempts THEN a ELSE [a EXCEPT !.count = @ + 1]

WrongCode ==
    /\ pairing' = Drop(pairing) /\ token' = Drop(token)
    /\ attempts' = LET a == Attempts
                   IN  Count(IF a.since = 0 THEN [a EXCEPT !.since = syncNow] ELSE a)
    /\ UNCHANGED <<syncNow, batch, sites, uses>>

-----------------------------------------------------------------------------
(* A batch.                                                                *)

Clean == pairing' = Drop(pairing) /\ token' = Drop(token) /\ attempts' = Attempts

Authorize(b, t) ==
    /\ batch[b] = IdleBatch /\ Drop(token)[t].state = "valid"
    /\ Clean
    /\ batch' = [batch EXCEPT ![b] = [pc |-> "pending", token |-> t]]
    /\ UNCHANGED <<syncNow, sites, uses>>

\* pendingSessionSites: what an extension may send credentials for.
Pending == {s \in SyncSites : state[s] = "failed" \/ stored[s] = "due"}

\* The batch is checked against the list read now; anything else is refused.
CheckBatch(b, S) ==
    /\ batch[b].pc = "pending"
    /\ batch' = [batch EXCEPT ![b] =
          IF S \subseteq Pending
            THEN [pc |-> "claim", token |-> batch[b].token, sites |-> S] ELSE IdleBatch]
    /\ UNCHANGED <<syncNow, manager, sites, uses>>

\* Variant: a token that is already claimed is claimed again.
ClaimShared(b) ==
    /\ batch[b].pc = "claim"
    /\ pairing' = Drop(pairing) /\ attempts' = Attempts
    /\ IF Drop(token)[batch[b].token].state \in {"valid", "claimed"}
         THEN /\ token' = [Drop(token) EXCEPT ![batch[b].token].state = "claimed"]
              /\ batch' = [batch EXCEPT ![b].pc = "save"]
         ELSE token' = Drop(token) /\ batch' = [batch EXCEPT ![b] = IdleBatch]
    /\ UNCHANGED <<syncNow, sites, uses>>

\* Of several batches with one token the first goes on, the others end.
Claim(b) ==
    /\ batch[b].pc = "claim"
    /\ pairing' = Drop(pairing) /\ attempts' = Attempts
    /\ IF Drop(token)[batch[b].token].state = "valid"
         THEN /\ token' = [Drop(token) EXCEPT ![batch[b].token].state = "claimed"]
              /\ batch' = [batch EXCEPT ![b].pc = "save"]
         ELSE token' = Drop(token) /\ batch' = [batch EXCEPT ![b] = IdleBatch]
    /\ UNCHANGED <<syncNow, sites, uses>>

\* SaveBatch stores all of the batch or nothing.
SaveBatch(b) ==
    /\ batch[b].pc = "save"
    /\ \/ /\ \E new \in Stored :
                stored' = [s \in SyncSites |->
                             IF s \in batch[b].sites THEN new ELSE stored[s]]
          /\ uses' = [uses EXCEPT ![batch[b].token] = @ + 1]
          /\ batch' = [batch EXCEPT ![b].pc = "verify"]
       \/ /\ batch' = [batch EXCEPT ![b].pc = "failed"]
          /\ UNCHANGED <<stored, uses>>
    /\ UNCHANGED <<syncNow, manager, state>>

\* The sites of a stored batch are collected to verify it, which may take 25
\* seconds and set any state; then Finish removes the token, or gives it back
\* when nothing was stored.  A token that has expired meanwhile is left alone.
Finish(b) ==
    LET t == batch[b].token
    IN  /\ batch[b].pc \in {"verify", "failed"}
        /\ token' = IF token[t].state # "claimed" THEN token
                    ELSE [token EXCEPT ![t].state =
                             IF batch[b].pc = "verify" THEN "spent" ELSE "valid"]
        /\ batch' = [batch EXCEPT ![b] = IdleBatch]
        /\ IF batch[b].pc = "failed" THEN UNCHANGED state
           ELSE \E new \in [batch[b].sites -> State] :
                   state' = [s \in SyncSites |->
                               IF s \in batch[b].sites THEN new[s] ELSE state[s]]
        /\ UNCHANGED <<syncNow, pairing, attempts, stored, uses>>

-----------------------------------------------------------------------------
(* The world.                                                              *)

\* A scheduled collection of a site.
Collect(s) ==
    /\ \E new \in State \ {state[s]} : state' = [state EXCEPT ![s] = new]
    /\ UNCHANGED <<syncNow, manager, batch, stored, uses>>

\* An import or a deletion by an administrator, or the day before the expiry.
Administer(s) ==
    /\ \E new \in Stored \ {stored[s]} : stored' = [stored EXCEPT ![s] = new]
    /\ UNCHANGED <<syncNow, manager, batch, state, uses>>

SyncTick ==
    /\ syncNow < SyncEnd /\ syncNow' = syncNow + 1
    /\ UNCHANGED <<manager, batch, sites, uses>>

\* The maps are gone; SQLite stays.
Forget(map) == [x \in DOMAIN map |-> IF map[x].state \in {"valid", "claimed"}
                                       THEN [map[x] EXCEPT !.state = "gone"] ELSE map[x]]
RestartSync ==
    /\ pairing' = Forget(pairing) /\ token' = Forget(token) /\ attempts' = NoAttempts
    /\ batch' = [b \in Batches |-> IdleBatch]
    /\ UNCHANGED <<syncNow, sites, uses>>

BatchStep(b) == Claim(b) \/ SaveBatch(b) \/ Finish(b)

SyncNext ==
    \/ SyncTick \/ RestartSync \/ WrongCode
    \/ \E c \in PairingCodes : CreatePairing(c)
    \/ \E t \in Tokens : CreateToken(t) \/ \E c \in PairingCodes : Exchange(c, t)
    \/ \E b \in Batches :
          \/ BatchStep(b)
          \/ \E t \in Tokens : Authorize(b, t)
          \/ \E S \in (SUBSET SyncSites) \ {{}} : CheckBatch(b, S)
    \/ \E s \in SyncSites : Collect(s) \/ Administer(s)

SyncSpec == SyncInit /\ [][SyncNext]_syncVars

-----------------------------------------------------------------------------
(* Properties.                                                             *)

\* A claimed token is in the hands of exactly one handler, which has stored
\* nothing with it or is about to remove it.
HolderPC == {"save", "verify", "failed"}
ClaimIsHeld ==
    \A t \in Tokens : token[t].state = "claimed" =>
        /\ Cardinality({b \in Batches : batch[b].pc \in HolderPC /\ batch[b].token = t}) = 1
        /\ uses[t] = 1 <=> \E b \in Batches : batch[b].pc = "verify" /\ batch[b].token = t

\* Codes and tokens are tickets: used once, and only before their deadline,
\* which may pass while a batch is being stored.
PhaseOf(e) == CASE e = "new" -> "none" [] e = "valid" -> "open" [] e = "claimed" -> "taken"
                [] e = "spent" -> "used" [] OTHER -> "gone"
EntryOf(x) == IF x \in PairingCodes THEN pairing[x] ELSE token[x]
syncTickets == [x \in PairingCodes \cup Tokens |->
                  [phase |-> PhaseOf(EntryOf(x).state), deadline |-> EntryOf(x).deadline,
                   uses |-> uses[x]]]
SyncTickets == INSTANCE Tickets WITH
    Ticket <- PairingCodes \cup Tokens, ticket <- syncTickets, now <- syncNow,
    Life <- [x \in PairingCodes \cup Tokens |-> IF x \in PairingCodes THEN PairingTTL ELSE SyncTTL]
SyncTicketsOnce == SyncTickets!Spec
=============================================================================
