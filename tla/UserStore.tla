------------------------------ MODULE UserStore ------------------------------
(***************************************************************************)
(* The user store: the in-memory Map `users` of commands.js, the Redis     *)
(* hashes and the Redis set of db.js behind it, and every call that moves  *)
(* data between the two, with the deposit watchers of utils-solana.js.     *)
(*                                                                         *)
(* One instance of this module is one Node process that imports            *)
(* commands.js.  There are two: the agent (index.js), which hydrates the   *)
(* Map and subscribes the watchers at boot, and the HTTP API               *)
(* (api-server.js), which does neither.  AGENT says which one it is.       *)
(*                                                                         *)
(* A step is what runs between two awaits.  A persist call is two Redis    *)
(* commands, SADD and, once that is answered, HSET; ioredis answers the    *)
(* commands of its one connection in order, so the calls waiting for their *)
(* SADD and those waiting for their HSET are two queues, in call order.    *)
(***************************************************************************)
EXTENDS Integers, Sequences

CONSTANTS
  Handles,      \* user handles
  Keys,         \* Solana keypairs; one stands for its address as well
  SolAmounts,   \* SOL balances, in hundredths
  TokenAmounts, \* agent-token balances, in raw units
  Risks,        \* risk levels
  Slots,        \* calls in progress at the same time
  AGENT,        \* TRUE: index.js; FALSE: api-server.js
  MaxPending,   \* bound on persist calls in flight when a request adds one
  MaxChanges,   \* bound on balance changes on the chain
  MaxKills,     \* bound on deaths that no statement of the code causes
  OldProfiles,  \* what a hash may hold before the first boot: public fields,
  OldFormats,   \* and forms of its wallet field
  None          \* no user, no field, no call

\* The public fields of a user: in memory, and as the strings Redis keeps.
Public    == [sol: SolAmounts, tierBal: TokenAmounts, auto: BOOLEAN, risk: Risks]
Profile   == [sol: SolAmounts, tierBal: TokenAmounts, auto: {"true", "false"}, risk: Risks]
Balance   == [sol: SolAmounts, tierBal: TokenAmounts]
User      == [wallet: Keys, pub: Public]
\* The `wallet` field of a hash: encrypted, encrypted but not 64 bytes long,
\* damaged or encrypted under another master key, or left in plain text.
Formats   == {"enc", "short", "corrupt", "plain"}
Wallet    == [fmt: Formats, key: Keys]
Watchers  == {"sol", "tierBal"}
Kinds     == {"walletOf", "balanceOf", "refresh", "aiRefresh"} \cup Watchers
Task      == [kind: Kinds, h: Handles, phase: {"ensure", "readSol", "readTier", "apply", "persist"},
              sol: SolAmounts, tierBal: TokenAmounts]
Call      == [h: Handles, data: Profile, by: Slots \cup {None}]
Exits     == {"none", "killed", "storeError", "rpcError", "unknownUser", "riskText", "corruptWallet"}

ASSUME AgentAssumption   == AGENT \in BOOLEAN
ASSUME AmountsAssumption == /\ SolAmounts \subseteq Nat /\ 0 \in SolAmounts
                            /\ TokenAmounts \subseteq Nat /\ 0 \in TokenAmounts
ASSUME RisksAssumption   == "med" \in Risks
ASSUME OldAssumption     == OldProfiles \subseteq Profile \cup {None} /\ OldFormats \subseteq Formats
ASSUME NoneAssumption    == /\ None \notin Slots /\ None \notin Keys /\ None \notin User /\ None \notin Profile
                            /\ None \notin Task /\ None \notin Wallet

VARIABLES
  mode,         \* "down", "booting" or "serving"
  exit,         \* why the process last ended
  todo,         \* initializeUsers: handles still to visit
  users,        \* the Map
  watched,      \* `subscribed`: handles with deposit watchers
  tasks,        \* calls in progress
  sadds, hsets, \* persist calls awaiting the reply to SADD, to HSET
  members,      \* Redis set `users`
  profile,      \* Redis hashes `user:<handle>`, without the wallet field
  wallet,       \* their wallet field
  chain,        \* balances of every address
  notices,      \* account-change notifications not yet delivered
  changes,      \* balance changes so far
  kills,        \* deaths by "killed" so far
  sells,        \* auto-sell jobs queued for a handle by this process
  minted,       \* keys that exist
  shown, told,  \* addresses a handle was given: by this process, ever
  unsaved       \* handles whose latest persist call Redis refused, or whose
                \* hash a command of a dead process changed after it was read

redis  == <<members, profile, wallet>>
calls  == <<sadds, hsets, unsaved>>
solana == <<chain, notices, changes>>
ghosts == <<shown, told>>
proc   == <<mode, exit, todo, watched, kills>>
vars   == <<proc, users, tasks, calls, redis, solana, sells, minted, ghosts>>

-----------------------------------------------------------------------------
(* Conversions *)

Strings(pub) ==
  [sol |-> pub.sol, tierBal |-> pub.tierBal, auto |-> IF pub.auto THEN "true" ELSE "false", risk |-> pub.risk]

Defaults == [sol |-> 0, tierBal |-> 0, auto |-> FALSE, risk |-> "med"]

Hydrate(p) ==
  IF p = None THEN Defaults
  ELSE [sol |-> p.sol, tierBal |-> p.tierBal, auto |-> p.auto = "true", risk |-> p.risk]

HashExists(h) == profile[h] # None \/ wallet[h] # None

StoredAs(h, formats) == wallet[h] # None /\ wallet[h].fmt \in formats

AutoSellAbove == 5     \* u.sol > 0.05

-----------------------------------------------------------------------------
(* The process ends: memory is gone, commands on the wire are not.  Redis  *)
(* may execute them until the next process serves: during its whole boot,  *)
(* which waits for Redis itself, but not later.                            *)

Exit(why) ==
  /\ mode' = "down"
  /\ exit' = why
  /\ todo' = {}
  /\ users' = [h \in Handles |-> None]
  /\ watched' = {}
  /\ tasks' = [s \in Slots |-> None]
  /\ notices' = [h \in Handles |-> [w \in Watchers |-> 0]]
  /\ sells' = [h \in Handles |-> 0]
  /\ shown' = [h \in Handles |-> {}]

Kill ==
  /\ mode # "down"
  /\ kills < MaxKills
  /\ kills' = kills + 1
  /\ Exit("killed")
  /\ UNCHANGED <<calls, redis, chain, changes, minted, told>>

-----------------------------------------------------------------------------
(* Boot *)

Start ==
  /\ mode = "down"
  /\ mode' = IF AGENT THEN "booting" ELSE "serving"
  /\ todo' = IF AGENT THEN members ELSE {}
  /\ exit' = "none"
  /\ IF AGENT THEN UNCHANGED <<sadds, hsets>> ELSE sadds' = <<>> /\ hsets' = <<>>
  /\ unsaved' = {}
  /\ UNCHANGED <<users, watched, kills, tasks, redis, solana, sells, minted, ghosts>>

HydrateUser(h) ==
  /\ mode = "booting" /\ h \in todo
  /\ StoredAs(h, {"enc"})
  /\ users' = [users EXCEPT ![h] = [wallet |-> wallet[h].key, pub |-> Hydrate(profile[h])]]
  /\ todo' = todo \ {h}
  /\ UNCHANGED <<mode, exit, watched, kills, tasks, calls, redis, solana, sells, minted, ghosts>>

\* Faulty: the loop does not go on after a user without a key.
SkipUserStuck(h) ==
  /\ mode = "booting" /\ h \in todo
  /\ ~HashExists(h) \/ wallet[h] = None \/ StoredAs(h, {"short", "plain"})
  /\ UNCHANGED vars

\* Faulty: a user without a usable key gets a new one during the boot.
SkipUserAnew(h) ==
  /\ mode = "booting" /\ h \in todo
  /\ ~HashExists(h) \/ wallet[h] = None \/ StoredAs(h, {"short", "plain"})
  /\ \E k \in Keys \ minted :
       /\ users' = [users EXCEPT ![h] = [wallet |-> k, pub |-> Hydrate(profile[h])]]
       /\ minted' = minted \cup {k}
  /\ todo' = todo \ {h}
  /\ UNCHANGED <<mode, exit, watched, kills, tasks, calls, redis, solana, sells, ghosts>>

SkipUser(h) ==
  /\ mode = "booting" /\ h \in todo
  /\ ~HashExists(h) \/ wallet[h] = None \/ StoredAs(h, {"short", "plain"})
  /\ todo' = todo \ {h}
  /\ UNCHANGED <<mode, exit, watched, kills, users, tasks, calls, redis, solana, sells, minted, ghosts>>

\* decrypt() throws in getWalletCompat, and nothing up to index.js catches it.
HydrateThrows(h) ==
  /\ mode = "booting" /\ h \in todo
  /\ StoredAs(h, {"corrupt"})
  /\ Exit("corruptWallet")
  /\ UNCHANGED <<kills, calls, redis, chain, changes, minted, told>>

\* Faulty: the service starts before the loop has ended.
WatchDepositsEarly ==
  /\ mode = "booting"
  /\ watched' = {h \in Handles : users[h] # None}
  /\ mode' = "serving"
  /\ todo' = {}
  /\ sadds' = <<>> /\ hsets' = <<>>
  /\ UNCHANGED <<exit, kills, users, tasks, unsaved, redis, solana, sells, minted, ghosts>>

WatchDeposits ==
  /\ mode = "booting" /\ todo = {}
  /\ watched' = {h \in Handles : users[h] # None}
  /\ mode' = "serving"
  /\ sadds' = <<>> /\ hsets' = <<>>
  /\ UNCHANGED <<exit, todo, kills, users, tasks, unsaved, redis, solana, sells, minted, ghosts>>

-----------------------------------------------------------------------------
(* persist, ensure and the calls built on them *)

Serving == mode = "serving"

Free(s) == Serving /\ tasks[s] = None

CanPersist == Len(sadds) + Len(hsets) < MaxPending

\* persist() strips the key and calls upsertUser(): SADD, then HSET.  No caller
\* passes the chatId that would make upsertUser() send another HSET before.
Persist(h, pub, by) ==
  /\ sadds' = Append(sadds, [h |-> h, data |-> Strings(pub), by |-> by])
  /\ unsaved' = unsaved \ {h}
  /\ UNCHANGED hsets

NewTask(kind, h, phase) ==
  [kind |-> kind, h |-> h, phase |-> phase, sol |-> 0, tierBal |-> 0]

\* Faulty: ensure() does not look the handle up first.
NewUserAgain(s, h, kind) ==
  /\ Free(s) /\ CanPersist
  /\ \E k \in Keys \ minted :
       /\ users' = [users EXCEPT ![h] = [wallet |-> k, pub |-> Defaults]]
       /\ minted' = minted \cup {k}
  /\ Persist(h, Defaults, s)
  /\ tasks' = [tasks EXCEPT ![s] = NewTask(kind, h, "ensure")]
  /\ UNCHANGED <<proc, redis, solana, sells, ghosts>>

\* ensure() of an unknown handle: the Map is set before the first await.
NewUser(s, h, kind) ==
  /\ Free(s) /\ users[h] = None /\ CanPersist
  /\ \E k \in Keys \ minted :
       /\ users' = [users EXCEPT ![h] = [wallet |-> k, pub |-> Defaults]]
       /\ minted' = minted \cup {k}
  /\ Persist(h, Defaults, s)
  /\ tasks' = [tasks EXCEPT ![s] = NewTask(kind, h, "ensure")]
  /\ UNCHANGED <<proc, redis, solana, sells, ghosts>>

Show(h) ==
  /\ shown' = [shown EXCEPT ![h] = @ \cup {users[h].wallet}]
  /\ told'  = [told EXCEPT ![h] = @ \cup {users[h].wallet}]

\* walletOf() of a known handle answers without waiting for anything.
WalletOfKnown(h) ==
  /\ Serving /\ users[h] # None
  /\ Show(h)
  /\ UNCHANGED <<proc, users, tasks, calls, redis, solana, sells, minted>>

\* toggleAuto() and setRisk(): the persist call is not awaited.
SetPublic(h, pub) ==
  /\ CanPersist
  /\ users' = [users EXCEPT ![h].pub = pub]
  /\ Persist(h, pub, None)
  /\ UNCHANGED <<proc, tasks, redis, solana, sells, minted, ghosts>>

ToggleAuto(h, on) ==
  /\ Serving /\ users[h] # None
  /\ SetPublic(h, [users[h].pub EXCEPT !.auto = on])

SetRisk(h, level) ==
  /\ Serving /\ users[h] # None
  /\ SetPublic(h, [users[h].pub EXCEPT !.risk = level])

\* On an unknown handle both throw.  In the agent nothing catches the error and
\* the process ends; the API answers 500 and changes nothing, which is no step.
PreferenceThrows(h) ==
  /\ AGENT /\ Serving /\ users[h] = None
  /\ Exit("unknownUser")
  /\ UNCHANGED <<kills, calls, redis, chain, changes, minted, told>>

\* The text command `risk ...` names a variable that does not exist.
RiskTextThrows ==
  /\ AGENT /\ Serving
  /\ Exit("riskText")
  /\ UNCHANGED <<kills, calls, redis, chain, changes, minted, told>>

-----------------------------------------------------------------------------
(* Balances: updateBalances() and the two watchers share refreshBalances() *)

RefreshKnown(s, h, kind) ==
  /\ Free(s) /\ users[h] # None
  /\ tasks' = [tasks EXCEPT ![s] = NewTask(kind, h, "readSol")]
  /\ UNCHANGED <<proc, users, calls, redis, solana, sells, minted, ghosts>>

OnAccountChange(s, h, w) ==
  /\ Free(s) /\ h \in watched /\ notices[h][w] > 0
  /\ notices' = [notices EXCEPT ![h][w] = @ - 1]
  /\ tasks' = [tasks EXCEPT ![s] = NewTask(w, h, "readSol")]
  /\ UNCHANGED <<proc, users, calls, redis, chain, changes, sells, minted, ghosts>>

In(s, phase) == tasks[s] # None /\ tasks[s].phase = phase

GetBalance(s) ==
  /\ In(s, "readSol")
  /\ tasks' = [tasks EXCEPT ![s].phase = "readTier",
                            ![s].sol = chain[users[tasks[s].h].wallet].sol]
  /\ UNCHANGED <<proc, users, calls, redis, solana, sells, minted, ghosts>>

GetTokenAccount(s) ==
  /\ In(s, "readTier")
  /\ tasks' = [tasks EXCEPT ![s].phase = "apply",
                            ![s].tierBal = chain[users[tasks[s].h].wallet].tierBal]
  /\ UNCHANGED <<proc, users, calls, redis, solana, sells, minted, ghosts>>

\* A watcher stores the one balance it watches, updateBalances() both.
Refreshed(pub, t) ==
  [pub EXCEPT !.sol     = IF t.kind = "tierBal" THEN @ ELSE t.sol,
              !.tierBal = IF t.kind = "sol" THEN @ ELSE t.tierBal]

\* Faulty: persist() is called before the balances are set.
ApplyLate(s) ==
  /\ In(s, "apply")
  /\ LET t == tasks[s] IN
     /\ users' = [users EXCEPT ![t.h].pub = Refreshed(users[t.h].pub, t)]
     /\ Persist(t.h, users[t.h].pub, s)
  /\ tasks' = [tasks EXCEPT ![s].phase = "persist"]
  /\ UNCHANGED <<proc, redis, solana, sells, minted, ghosts>>

Apply(s) ==
  /\ In(s, "apply")
  /\ LET t == tasks[s]
         pub == Refreshed(users[t.h].pub, t)
     IN  /\ users' = [users EXCEPT ![t.h].pub = pub]
         /\ Persist(t.h, pub, s)
  /\ tasks' = [tasks EXCEPT ![s].phase = "persist"]
  /\ UNCHANGED <<proc, redis, solana, sells, minted, ghosts>>

\* Callers that catch: the API's routes, and dispatchAI() in the agent.
CaughtKinds == IF AGENT THEN {"aiRefresh"} ELSE {"walletOf", "balanceOf", "refresh"}

RpcErrorCaught(s) ==
  /\ In(s, "readSol") \/ In(s, "readTier")
  /\ tasks[s].kind \in CaughtKinds
  /\ tasks' = [tasks EXCEPT ![s] = None]
  /\ UNCHANGED <<proc, users, calls, redis, solana, sells, minted, ghosts>>

RpcErrorThrows(s) ==
  /\ In(s, "readSol") \/ In(s, "readTier")
  /\ tasks[s].kind \notin CaughtKinds
  /\ Exit("rpcError")
  /\ UNCHANGED <<kills, calls, redis, chain, changes, minted, told>>

-----------------------------------------------------------------------------
(* Redis executes the commands in order, whether or not the process lives. *)

RedisSadd ==
  /\ sadds # <<>>
  /\ members' = members \cup {Head(sadds).h}
  /\ sadds' = Tail(sadds)
  /\ hsets' = IF Serving THEN Append(hsets, Head(sadds)) ELSE hsets
  /\ UNCHANGED <<proc, users, tasks, unsaved, profile, wallet, solana, sells, minted, ghosts>>

\* Faulty: every refresh sells, not only the callback of the watchers.
AutoSellsAlways(s) ==
  LET u == users[tasks[s].h] IN u.pub.auto /\ u.pub.sol > AutoSellAbove

\* What the caller of persist() does once it returns.
AutoSells(s) ==
  LET u == users[tasks[s].h] IN
  tasks[s].kind \in Watchers /\ u.pub.auto /\ u.pub.sol > AutoSellAbove

\* Faulty: the caller is never resumed.
ResumeNever(s) == UNCHANGED <<tasks, ghosts, sells>>

Resume(s) ==
  LET t == tasks[s] IN
  /\ tasks' = [tasks EXCEPT ![s] = IF t.phase = "ensure" /\ t.kind \in {"refresh", "aiRefresh"}
                                   THEN [t EXCEPT !.phase = "readSol"] ELSE None]
  /\ IF t.kind = "walletOf" THEN Show(t.h) ELSE UNCHANGED ghosts
  /\ sells' = IF AutoSells(s) THEN [sells EXCEPT ![t.h] = @ + 1] ELSE sells

RedisHset ==
  /\ hsets # <<>>
  /\ profile' = [profile EXCEPT ![Head(hsets).h] = Head(hsets).data]
  /\ hsets' = Tail(hsets)
  /\ unsaved' = IF mode = "booting" /\ users[Head(hsets).h] # None
                THEN unsaved \cup {Head(hsets).h} ELSE unsaved
  /\ IF Serving /\ Head(hsets).by # None
     THEN Resume(Head(hsets).by)
     ELSE UNCHANGED <<tasks, sells, ghosts>>
  /\ UNCHANGED <<proc, users, sadds, members, wallet, solana, minted>>

-----------------------------------------------------------------------------
(* Redis answers a command with an error (out of memory, read-only). *)

Waiting(q, h) == \E i \in DOMAIN q : q[i].h = h

Caught(e) == e.by # None /\ tasks[e.by].kind \in CaughtKinds

Rejected(e) ==
  /\ Caught(e)
  /\ tasks' = [tasks EXCEPT ![e.by] = None]
  /\ UNCHANGED <<proc, users, redis, solana, sells, minted, ghosts>>

\* Faulty: the error of SADD is swallowed, and HSET follows.
SaddRefusedIgnored ==
  /\ Serving /\ sadds # <<>>
  /\ Caught(Head(sadds))
  /\ sadds' = Tail(sadds) /\ hsets' = Append(hsets, Head(sadds))
  /\ UNCHANGED <<proc, users, tasks, unsaved, redis, solana, sells, minted, ghosts>>

SaddRefused ==
  /\ Serving /\ sadds # <<>>
  /\ Rejected(Head(sadds))
  /\ sadds' = Tail(sadds)
  /\ unsaved' = IF Waiting(Tail(sadds), Head(sadds).h) THEN unsaved ELSE unsaved \cup {Head(sadds).h}
  /\ UNCHANGED hsets

HsetRefused ==
  /\ Serving /\ hsets # <<>>
  /\ Rejected(Head(hsets))
  /\ hsets' = Tail(hsets)
  /\ unsaved' = IF Waiting(Tail(hsets) \o sadds, Head(hsets).h) THEN unsaved ELSE unsaved \cup {Head(hsets).h}
  /\ UNCHANGED sadds

StoreErrorThrows ==
  /\ Serving
  /\ \/ sadds # <<>> /\ ~Caught(Head(sadds))
     \/ hsets # <<>> /\ ~Caught(Head(hsets))
  /\ Exit("storeError")
  /\ UNCHANGED <<kills, calls, redis, chain, changes, minted, told>>

-----------------------------------------------------------------------------
(* Deposits, trades and transfers change balances on the chain. *)

ChainChange(k, bal) ==
  /\ changes < MaxChanges
  /\ bal # chain[k]
  /\ chain' = [chain EXCEPT ![k] = bal]
  /\ changes' = changes + 1
  /\ notices' = [h \in Handles |-> [w \in Watchers |->
       IF h \in watched /\ users[h].wallet = k /\ bal[w] # chain[k][w]
       THEN notices[h][w] + 1 ELSE notices[h][w]]]
  /\ UNCHANGED <<proc, users, tasks, calls, redis, sells, minted, ghosts>>

-----------------------------------------------------------------------------
\* Redis may hold what an earlier run, or an earlier version, wrote: every hash
\* has its handle in the set, and no key is in two hashes.
Init ==
  /\ mode = "down" /\ exit = "none" /\ todo = {} /\ kills = 0
  /\ users = [h \in Handles |-> None] /\ watched = {}
  /\ tasks = [s \in Slots |-> None]
  /\ sadds = <<>> /\ hsets = <<>> /\ unsaved = {}
  /\ profile \in [Handles -> OldProfiles]
  /\ wallet \in [Handles -> [fmt: OldFormats, key: Keys] \cup {None}]
  /\ members = {h \in Handles : HashExists(h)}
  /\ \A g, h \in Handles :
       g # h /\ wallet[g] # None /\ wallet[h] # None => wallet[g].key # wallet[h].key
  /\ chain = [k \in Keys |-> [sol |-> 0, tierBal |-> 0]]
  /\ notices = [h \in Handles |-> [w \in Watchers |-> 0]]
  /\ changes = 0
  /\ sells = [h \in Handles |-> 0]
  /\ minted = {k \in Keys : \E h \in Handles : wallet[h] # None /\ wallet[h].key = k}
  /\ shown = [h \in Handles |-> {}]
  /\ told = [h \in Handles |-> {}]

Redis == RedisSadd \/ RedisHset

Rpc == \E s \in Slots : GetBalance(s) \/ GetTokenAccount(s) \/ Apply(s)

Boot == Start \/ WatchDeposits \/ \E h \in Handles : HydrateUser(h) \/ SkipUser(h) \/ HydrateThrows(h)

\* Only index.js reaches dispatchAI(): the API never passes a text.
Refreshes == IF AGENT THEN {"refresh", "aiRefresh"} ELSE {"refresh"}

Requests ==
  \E h \in Handles :
    \/ WalletOfKnown(h)
    \/ \E on \in BOOLEAN : ToggleAuto(h, on)
    \/ \E level \in Risks : SetRisk(h, level)
    \/ PreferenceThrows(h)
    \/ \E s \in Slots :
         \/ \E kind \in {"walletOf", "balanceOf"} \cup Refreshes : NewUser(s, h, kind)
         \/ \E kind \in Refreshes : RefreshKnown(s, h, kind)
         \/ \E w \in Watchers : OnAccountChange(s, h, w)

Failures ==
  \/ Kill \/ RiskTextThrows
  \/ SaddRefused \/ HsetRefused \/ StoreErrorThrows
  \/ \E s \in Slots : RpcErrorCaught(s) \/ RpcErrorThrows(s)

Next ==
  \/ Boot \/ Requests \/ Rpc \/ Redis \/ Failures
  \/ \E k \in minted, bal \in Balance : ChainChange(k, bal)

Spec == Init /\ [][Next]_vars

\* Redis answers, the RPC node answers and the event loop runs what is ready;
\* docker-compose.yml restarts the process (restart: unless-stopped).
Fairness == WF_vars(Boot) /\ WF_vars(RedisSadd) /\ WF_vars(RedisHset) /\ \A s \in Slots :
              WF_vars(GetBalance(s) \/ GetTokenAccount(s) \/ Apply(s) \/ RpcErrorCaught(s) \/ RpcErrorThrows(s))

FairSpec == Spec /\ Fairness
-----------------------------------------------------------------------------
(* Properties *)

\* Type invariant: every variable holds what the code can put there.
TypeOK ==
  /\ mode \in {"down", "booting", "serving"} /\ exit \in Exits
  /\ todo \subseteq Handles /\ watched \subseteq Handles /\ members \subseteq Handles
  /\ users \in [Handles -> User \cup {None}]
  /\ tasks \in [Slots -> Task \cup {None}]
  /\ sadds \in Seq(Call) /\ hsets \in Seq(Call) /\ unsaved \subseteq Handles
  /\ profile \in [Handles -> Profile \cup {None}]
  /\ wallet \in [Handles -> Wallet \cup {None}]
  /\ chain \in [Keys -> Balance]
  /\ notices \in [Handles -> [Watchers -> Nat]]
  /\ changes \in Nat /\ kills \in Nat
  /\ sells \in [Handles -> Nat]
  /\ minted \subseteq Keys
  /\ shown \in [Handles -> SUBSET Keys] /\ told \in [Handles -> SUBSET Keys]

\* Calls in progress belong to a serving process and to users in its Map.
TasksInv ==
  /\ mode # "serving" => (\A s \in Slots : tasks[s] = None) /\ (\A h \in Handles : shown[h] = {})
  /\ mode = "down" => watched = {} /\ \A h \in Handles : users[h] = None
  /\ \A s \in Slots : tasks[s] # None => users[tasks[s].h] # None
  /\ \A h \in watched : users[h] # None

\* A persist call under way is for a user in the Map, and the call that awaits
\* it, if one does, is suspended and awaits no other.
Awaits(e) ==
  /\ users[e.h] # None
  /\ e.by # None => tasks[e.by] # None /\ tasks[e.by].h = e.h /\ tasks[e.by].phase \in {"ensure", "persist"}

CallsInv ==
  Serving =>
    /\ \A i \in DOMAIN sadds : Awaits(sadds[i])
    /\ \A i \in DOMAIN hsets : Awaits(hsets[i])
    /\ \A i, j \in DOMAIN sadds : sadds[i].by = sadds[j].by => i = j \/ sadds[i].by = None
    /\ \A i, j \in DOMAIN hsets : hsets[i].by = hsets[j].by => i = j \/ hsets[i].by = None
    /\ \A i \in DOMAIN sadds, j \in DOMAIN hsets : sadds[i].by = hsets[j].by => sadds[i].by = None

\* During boot a stored key is in the Map or its handle is still to be visited.
BootInv ==
  /\ \A h \in Handles : StoredAs(h, {"enc"}) => h \in members
  /\ mode = "booting" => \A h \in Handles :
       StoredAs(h, {"enc"}) => h \in todo \/ (users[h] # None /\ users[h].wallet = wallet[h].key)

\* The last entry of a queue for a handle carries the given data.
LastCarries(q, h, data) ==
  \A i \in DOMAIN q : q[i].h = h /\ (\A j \in DOMAIN q : j > i => q[j].h # h) => q[i].data = data

CaughtUp(h) ==
  LET pub == users[h].pub IN
  /\ LastCarries(sadds, h, Strings(pub))
  /\ ~Waiting(sadds, h) /\ h \notin unsaved =>
       /\ LastCarries(hsets, h, Strings(pub))
       /\ ~Waiting(hsets, h) => pub = Hydrate(profile[h])

\* The store catches up with memory.  For every user in the Map, the last
\* persist call still under way carries exactly what is in memory; and if none
\* is under way, the hash read back (initializeUsers, lines 113-119) gives what
\* is in memory, unless Redis refused the last call or a command of a dead
\* process overtook the boot that had read the hash.  It is what lets the setters
\* of commands.js mutate the user first and not wait for persist().
StoreCatchesUp ==
  \A h \in Handles : users[h] # None =>
    /\ Serving => CaughtUp(h)
    /\ mode = "booting" /\ h \notin unsaved => users[h].pub = Hydrate(profile[h])

\* A process gives a user one deposit address.  Concurrent first requests for a
\* handle, whichever finishes first, are all answered with the key that stays
\* in the Map (ensure() sets the Map before it awaits persist()).
OneAddressPerProcess ==
  \A h \in Handles : shown[h] # {} => users[h] # None /\ shown[h] = {users[h].wallet}

\* A user whose key is stored encrypted has that key in the Map of a serving
\* agent, whatever crashed before (SECURITY.md, "Key reuse after restart").
StoredKeyIsUsed ==
  AGENT /\ Serving =>
    \A h \in Handles : StoredAs(h, {"enc"}) => users[h] # None /\ users[h].wallet = wallet[h].key

\* What was saved of a user is found again: the boot visits the handles in the set
\* (getAllUsers), and no hash is written for a handle that is not there, whatever
\* fails or ends between the two commands of upsertUser (db.js:67-68).  The
\* reverse, a handle without a hash, does occur, and the boot skips it.
SavedIsListed ==
  \A h \in Handles : profile[h] # None => h \in members

\* The promise of module AddressBook, with the Map of a serving process for its
\* book and the wallets that hydrate for its stored addresses.  The boot, user by
\* user and with whatever fails in it, is one step of the book or none: no
\* request sees a part of it.
Book == INSTANCE AddressBook WITH
  open   <- Serving,
  book   <- [h \in Handles |-> IF Serving /\ users[h] # None THEN users[h].wallet ELSE None],
  stored <- [h \in Handles |-> IF StoredAs(h, {"enc"}) THEN wallet[h].key ELSE None],
  used   <- minted

ImplementsAddressBook == Book!Spec

\* A balance change queues at most one auto-sell per watcher: the callback of
\* initializeUsers queues one job and runs once for each notification, and the
\* two watchers of a user run it independently.
AutoSellsPerChange ==
  \A h \in Handles : sells[h] <= 2 * changes

\* No call is left behind: every request and every watcher that runs ends, by
\* an answer, an error or the end of the process.
CallsEnd == \A s \in Slots : tasks[s] # None ~> tasks[s] = None

\* The boot ends: a process that is down comes to serve.
BootEnds == mode = "down" ~> mode = "serving"

-----------------------------------------------------------------------------
(* What the documentation or a comment says and the code does not do *)

\* README.md:373, "ensure you never lose user data on crashes": the key of every
\* address a user was given is in memory or in Redis while the process serves.
\* (persist() never saves the wallet of ensure().)
GivenKeysAreKept ==
  Serving => \A h \in Handles : \A k \in told[h] :
    \/ users[h] # None /\ users[h].wallet = k
    \/ wallet[h] # None /\ wallet[h].key = k

\* commands.js:127, "Live balance / deposit watcher": once a watcher has stored a
\* SOL balance, no other call is under way and no notification waits, the balance
\* in memory is the one on the chain.  (Nothing orders the refreshes of a user:
\* the one that read first may store last, and no later one corrects it.)
LiveBalance ==
  \A s \in Slots :
    LET t == tasks[s] IN
    /\ In(s, "persist") /\ t.kind = "sol"
    /\ notices[t.h]["sol"] = 0
    /\ \A r \in Slots \ {s} : tasks[r] = None
    => users[t.h].pub.sol = chain[users[t.h].wallet].sol
=============================================================================
