--------------------------- MODULE UserStoreProofs ---------------------------
(***************************************************************************)
(* Proofs about UserStore, for any handles, keys, slots and bounds: types  *)
(* and which call waits for which Redis command; one deposit address per   *)
(* process, the stored key is the one used, UserStore implements           *)
(* AddressBook; the store catches up with memory; how often a user is sold *)
(* for; and no call waits for an answer that is not to come, or goes back  *)
(* to an earlier phase.                                                    *)
(***************************************************************************)
EXTENDS UserStore, TLAPS

USE AgentAssumption, AmountsAssumption, RisksAssumption, OldAssumption, NoneAssumption

-----------------------------------------------------------------------------
(* The shape of the states; the other proofs stand on StructureInv *)

StructureInv == TypeOK /\ TasksInv /\ CallsInv

\* Taking the first element of a queue of persist calls: what is left.
LEMMA TailFacts ==
  ASSUME NEW S, NEW q \in Seq(S), q # <<>>
  PROVE  /\ Head(q) \in S /\ Tail(q) \in Seq(S) /\ Head(q) = q[1]
         /\ 1 \in DOMAIN q
         /\ DOMAIN Tail(q) = 1 .. Len(q) - 1
         /\ \A i \in DOMAIN Tail(q) : Tail(q)[i] = q[i + 1] /\ i + 1 \in DOMAIN q
  OBVIOUS

\* Adding a call at the end of a queue.
LEMMA AppendFacts ==
  ASSUME NEW S, NEW q \in Seq(S), NEW e \in S
  PROVE  /\ Append(q, e) \in Seq(S)
         /\ DOMAIN Append(q, e) = DOMAIN q \cup {Len(q) + 1}
         /\ \A i \in DOMAIN q : Append(q, e)[i] = q[i]
         /\ Append(q, e)[Len(q) + 1] = e
         /\ Len(q) + 1 \notin DOMAIN q
         /\ \A i \in DOMAIN q : i < Len(q) + 1
  OBVIOUS

\* The public fields of a new user, and the two conversions, are well typed;
\* what persist() writes reads back as what was in memory.
LEMMA ConversionFacts ==
  /\ Defaults \in Public
  /\ \A pub \in Public : Strings(pub) \in Profile /\ Hydrate(Strings(pub)) = pub
  /\ \A p \in Profile \cup {None} : Hydrate(p) \in Public
  <1>1. Defaults \in Public
    BY Zenon DEF Defaults, Public
  <1>2. ASSUME NEW pub \in Public
        PROVE  Strings(pub) \in Profile
    BY Zenon DEF Strings, Profile, Public
  <1>3. ASSUME NEW pub \in Public
        PROVE  Hydrate(Strings(pub)) = pub
    <2>1. Strings(pub) # None
      BY <1>2, Zenon
    <2>2. (Strings(pub).auto = "true") = pub.auto
      BY Zenon DEF Strings, Public
    <2>3. Hydrate(Strings(pub)) = [sol |-> pub.sol, tierBal |-> pub.tierBal, auto |-> pub.auto, risk |-> pub.risk]
      BY <2>1, <2>2, Zenon DEF Hydrate, Strings
    <2> QED
      BY <2>3, Zenon DEF Public
  <1>4. ASSUME NEW p \in Profile \cup {None}
        PROVE  Hydrate(p) \in Public
    BY <1>1, Zenon DEF Hydrate, Profile, Public
  <1> QED
    BY <1>1, <1>2, <1>3, <1>4, Zenon

-----------------------------------------------------------------------------
(* The shape of the state: types, and who waits for whom *)

\* Every way the process ends leaves a well-formed state.
LEMMA ExitStructure ==
  ASSUME StructureInv, NEW why \in Exits, Exit(why), kills' \in Nat,
         UNCHANGED <<calls, redis, chain, changes, minted, told>>
  PROVE  StructureInv'
  <1> USE DEF StructureInv, Exit, calls, redis
  <1>1. TypeOK'
    BY Zenon DEF TypeOK
  <1>2. TasksInv'
    BY Zenon DEF TasksInv
  <1>3. CallsInv'
    BY Zenon DEF CallsInv, Serving
  <1> QED
    BY <1>1, <1>2, <1>3, Zenon

\* The queues hold persist calls.
LEMMA QueueFacts ==
  ASSUME StructureInv
  PROVE  /\ sadds \in Seq(Call) /\ hsets \in Seq(Call)
         /\ \A i \in DOMAIN sadds : sadds[i] \in Call
         /\ \A i \in DOMAIN hsets : hsets[i] \in Call
         /\ sadds # <<>> => Head(sadds) \in Call /\ Tail(sadds) \in Seq(Call)
         /\ hsets # <<>> => Head(hsets) \in Call /\ Tail(hsets) \in Seq(Call)
  <1>1. sadds \in Seq(Call) /\ hsets \in Seq(Call)
    BY Zenon DEF StructureInv, TypeOK
  <1> QED
    BY <1>1, TailFacts

\* Steps that change neither the Map, nor the calls in progress, nor the queues.
LEMMA FrameStructure ==
  ASSUME StructureInv, TypeOK', UNCHANGED <<mode, watched, users, tasks, sadds, hsets>>,
         Serving \/ UNCHANGED shown
  PROVE  StructureInv'
  BY ZenonT(60) DEF StructureInv, TasksInv, CallsInv, Serving, Awaits

\* A persist call adds one well-typed entry.
LEMMA PersistTypes ==
  ASSUME TypeOK, NEW h \in Handles, NEW pub \in Public, NEW by \in Slots \cup {None}, Persist(h, pub, by)
  PROVE  /\ [h |-> h, data |-> Strings(pub), by |-> by] \in Call
         /\ sadds' \in Seq(Call) /\ hsets' \in Seq(Call) /\ unsaved' \subseteq Handles
  <1>1. [h |-> h, data |-> Strings(pub), by |-> by] \in Call
    BY ConversionFacts, Zenon DEF Call
  <1> QED
    BY <1>1, AppendFacts, Zenon DEF Persist, TypeOK

\* The first state is well formed.
LEMMA InitStructure == Init => StructureInv
  <1> SUFFICES ASSUME Init PROVE StructureInv
    BY Zenon
  <1>1. TypeOK
    <2>1. chain \in [Keys -> Balance]
      BY Zenon DEF Init, Balance
    <2>2. wallet \in [Handles -> Wallet \cup {None}]
      BY Zenon DEF Init, Wallet
    <2> QED
      BY <2>1, <2>2 DEF Init, TypeOK, Exits, HashExists
  <1>2. TasksInv /\ CallsInv
    BY Zenon DEF Init, TasksInv, CallsInv, Serving
  <1> QED
    BY <1>1, <1>2, Zenon DEF StructureInv

\* The boot of the agent keeps the state well formed.
LEMMA BootStructure ==
  ASSUME StructureInv, Boot PROVE StructureInv'
  <1> USE DEF StructureInv, redis, calls, solana, ghosts
  <1>a. <<>> \in Seq(Call) /\ DOMAIN (<<>>) = {}
    OBVIOUS
  <1>b. ASSUME sadds' = <<>>, hsets' = <<>> PROVE CallsInv'
    BY <1>a, <1>b, Zenon DEF CallsInv
  <1>1. CASE Start
    <2>1. TypeOK' /\ TasksInv'
      BY <1>1, <1>a, Zenon DEF Start, TypeOK, TasksInv, Exits
    <2>2. CallsInv'
      BY <1>1, <1>b, Zenon DEF Start, CallsInv, Serving
    <2> QED
      BY <2>1, <2>2, Zenon
  <1>2. CASE WatchDeposits
    <2>1. TypeOK' /\ TasksInv'
      BY <1>2, <1>a, Zenon DEF WatchDeposits, TypeOK, TasksInv
    <2> QED
      BY <1>2, <1>b, <2>1, Zenon DEF WatchDeposits
  <1>3. ASSUME NEW h \in Handles, HydrateUser(h) PROVE StructureInv'
    <2>1. [wallet |-> wallet[h].key, pub |-> Hydrate(profile[h])] \in User
      BY <1>3, ConversionFacts, Zenon DEF HydrateUser, StoredAs, TypeOK, Wallet, User
    <2>2. TypeOK'
      BY <1>3, <2>1, Zenon DEF HydrateUser, TypeOK
    <2>3. TasksInv' /\ CallsInv'
      BY <1>3, <2>1, Zenon DEF HydrateUser, TypeOK, TasksInv, CallsInv, Serving
    <2> QED
      BY <2>2, <2>3, Zenon
  <1>4. ASSUME NEW h \in Handles, SkipUser(h) PROVE StructureInv'
    BY <1>4, Zenon DEF SkipUser, TypeOK, TasksInv, CallsInv, Serving, Awaits
  <1>5. ASSUME NEW h \in Handles, HydrateThrows(h) PROVE StructureInv'
    BY <1>5, ExitStructure, Zenon DEF HydrateThrows, TypeOK, Exits
  <1> QED
    BY <1>1, <1>2, <1>3, <1>4, <1>5, Zenon DEF Boot

\* ensure() of an unknown handle: the new entry is the only one its slot awaits,
\* because a free slot is awaited by none.
LEMMA NewUserStructure ==
  ASSUME StructureInv, NEW s \in Slots, NEW h \in Handles, NEW kind \in Kinds, NewUser(s, h, kind)
  PROVE  StructureInv'
  <1> USE DEF StructureInv, redis, calls, solana, ghosts, proc
  <1> PICK k \in Keys \ minted :
        /\ users' = [users EXCEPT ![h] = [wallet |-> k, pub |-> Defaults]]
        /\ minted' = minted \cup {k}
    BY Zenon DEF NewUser
  <1> DEFINE u == [wallet |-> k, pub |-> Defaults]
             e == [h |-> h, data |-> Strings(Defaults), by |-> s]
  <1>1. u \in User
    BY ConversionFacts, Zenon DEF User
  <1>2. NewTask(kind, h, "ensure") \in Task
    BY Zenon DEF NewTask, Task
  <1>3. Persist(h, Defaults, s) /\ tasks' = [tasks EXCEPT ![s] = NewTask(kind, h, "ensure")]
        /\ UNCHANGED <<proc, redis, solana, sells, ghosts>> /\ Serving /\ tasks[s] = None /\ users[h] = None
    BY Zenon DEF NewUser, Free
  <1>4. e \in Call /\ sadds' \in Seq(Call) /\ hsets' \in Seq(Call) /\ unsaved' \subseteq Handles
    BY <1>3, PersistTypes, ConversionFacts, Zenon
  <1>5. TypeOK'
    BY <1>1, <1>2, <1>3, <1>4, Zenon DEF TypeOK
  <1>6. TasksInv'
    BY <1>1, <1>2, <1>3 DEF TypeOK, TasksInv, NewTask, Serving
  <1>7. CallsInv'
    <2>1. sadds' = Append(sadds, e) /\ hsets' = hsets /\ Serving'
      BY <1>3, Zenon DEF Persist, Serving
    <2>2. /\ \A i \in DOMAIN sadds : Awaits(sadds[i]) /\ sadds[i] \in Call
          /\ \A i \in DOMAIN hsets : Awaits(hsets[i]) /\ hsets[i] \in Call
      BY <1>3, QueueFacts, Zenon DEF CallsInv
    <2>3. ASSUME NEW c \in Call, Awaits(c) PROVE Awaits(c)' /\ c.by # s
      BY <2>3, <1>1, <1>3, Zenon DEF Awaits, TypeOK, Call
    <2>4. Awaits(e)'
      BY <1>1, <1>2, <1>3, Zenon DEF Awaits, TypeOK, NewTask
    <2>5. /\ DOMAIN sadds' = DOMAIN sadds \cup {Len(sadds) + 1}
          /\ \A i \in DOMAIN sadds : sadds'[i] = sadds[i]
          /\ sadds'[Len(sadds) + 1] = e
      BY <2>1, <1>4, QueueFacts, AppendFacts
    <2> QED
      BY <2>1, <2>2, <2>3, <2>4, <2>5, <1>3 DEF CallsInv, Serving
  <1> QED
    BY <1>5, <1>6, <1>7, Zenon

\* toggleAuto() and setRisk() change the public fields and add an entry that
\* nothing awaits.
LEMMA SetPublicStructure ==
  ASSUME StructureInv, NEW h \in Handles, NEW pub \in Public, Serving, users[h] # None, SetPublic(h, pub)
  PROVE  StructureInv'
  <1> USE DEF StructureInv, redis, calls, solana, ghosts, proc
  <1> DEFINE e == [h |-> h, data |-> Strings(pub), by |-> None]
  <1>1. /\ users' = [users EXCEPT ![h].pub = pub] /\ Persist(h, pub, None)
        /\ UNCHANGED <<proc, tasks, redis, solana, sells, minted, ghosts>>
    BY Zenon DEF SetPublic
  <1>2. e \in Call /\ sadds' \in Seq(Call) /\ hsets' \in Seq(Call) /\ unsaved' \subseteq Handles
    BY <1>1, PersistTypes, Zenon
  <1>3. users' \in [Handles -> User \cup {None}] /\ users'[h] \in User /\ \A g \in Handles \ {h} : users'[g] = users[g]
    BY <1>1 DEF TypeOK, User
  <1>4. TypeOK'
    BY <1>1, <1>2, <1>3, Zenon DEF TypeOK
  <1>5. TasksInv'
    <2>1. \A g \in Handles : users[g] # None => users'[g] # None
      BY <1>3, Zenon
    <2>2. \A s \in Slots : tasks[s] # None => tasks[s].h \in Handles
      BY Zenon DEF TypeOK, Task
    <2> QED
      BY <1>1, <2>1, <2>2, Zenon DEF TypeOK, TasksInv, Serving
  <1>6. CallsInv'
    <2>1. sadds' = Append(sadds, e) /\ hsets' = hsets /\ Serving'
      BY <1>1, Zenon DEF Persist, Serving
    <2>2. /\ \A i \in DOMAIN sadds : Awaits(sadds[i]) /\ sadds[i] \in Call
          /\ \A i \in DOMAIN hsets : Awaits(hsets[i]) /\ hsets[i] \in Call
      BY QueueFacts, Zenon DEF CallsInv
    <2>3. ASSUME NEW c \in Call, Awaits(c) PROVE Awaits(c)'
      BY <2>3, <1>1, <1>3, ZenonT(60) DEF Awaits, TypeOK, Call
    <2>4. Awaits(e)'
      BY <1>1, <1>3, ZenonT(60) DEF Awaits, TypeOK
    <2>5. /\ DOMAIN sadds' = DOMAIN sadds \cup {Len(sadds) + 1}
          /\ \A i \in DOMAIN sadds : sadds'[i] = sadds[i]
          /\ sadds'[Len(sadds) + 1] = e
      BY <2>1, <1>2, QueueFacts, AppendFacts
    <2> QED
      BY <2>1, <2>2, <2>3, <2>4, <2>5 DEF CallsInv, Serving
  <1> QED
    BY <1>4, <1>5, <1>6, Zenon

\* A call that starts in a free slot, awaiting no persist call.
LEMMA NewTaskStructure ==
  ASSUME StructureInv, NEW s \in Slots, NEW h \in Handles, NEW kind \in Kinds, Free(s), users[h] # None,
         tasks' = [tasks EXCEPT ![s] = NewTask(kind, h, "readSol")],
         notices' \in [Handles -> [Watchers -> Nat]],
         UNCHANGED <<proc, users, calls, redis, chain, changes, sells, minted, ghosts>>
  PROVE  StructureInv'
  <1> USE DEF StructureInv, redis, calls, ghosts, proc
  <1>1. NewTask(kind, h, "readSol") \in Task
    BY Zenon DEF NewTask, Task
  <1>2. TypeOK'
    BY <1>1, Zenon DEF TypeOK
  <1>3. TasksInv'
    BY <1>1, Zenon DEF TypeOK, TasksInv, NewTask, Serving, Free
  <1>4. ASSUME NEW c \in Call, Awaits(c) PROVE Awaits(c)'
    BY <1>4, Zenon DEF Awaits, TypeOK, Call, Free
  <1>5. CallsInv'
    BY <1>4, QueueFacts, Zenon DEF CallsInv, Serving
  <1> QED
    BY <1>2, <1>3, <1>5, Zenon

\* So do the commands and requests of users.
LEMMA RequestsStructure ==
  ASSUME StructureInv, Requests PROVE StructureInv'
  <1> USE DEF StructureInv, redis, calls, solana, ghosts, proc
  <1> PICK h \in Handles :
        \/ WalletOfKnown(h)
        \/ \E on \in BOOLEAN : ToggleAuto(h, on)
        \/ \E level \in Risks : SetRisk(h, level)
        \/ PreferenceThrows(h)
        \/ \E s \in Slots :
             \/ \E kind \in {"walletOf", "balanceOf"} \cup Refreshes : NewUser(s, h, kind)
             \/ \E kind \in Refreshes : RefreshKnown(s, h, kind)
             \/ \E w \in Watchers : OnAccountChange(s, h, w)
    BY Zenon DEF Requests
  <1>1. CASE WalletOfKnown(h)
    <2>1. users[h].wallet \in Keys
      BY <1>1, Zenon DEF WalletOfKnown, TypeOK, User
    <2> QED
      <3>1. TypeOK'
        BY <1>1, <2>1, Zenon DEF WalletOfKnown, Show, TypeOK
      <3> QED
        BY <1>1, <3>1, FrameStructure, Zenon DEF WalletOfKnown
  <1>2. ASSUME NEW on \in BOOLEAN, ToggleAuto(h, on) PROVE StructureInv'
    <2>1. users[h].pub \in Public
      BY <1>2, Zenon DEF ToggleAuto, TypeOK, User
    <2>2. [users[h].pub EXCEPT !.auto = on] \in Public
      BY <2>1, Zenon DEF Public
    <2> QED
      BY <1>2, <2>2, SetPublicStructure, Zenon DEF ToggleAuto
  <1>3. ASSUME NEW level \in Risks, SetRisk(h, level) PROVE StructureInv'
    <2>1. users[h].pub \in Public
      BY <1>3, Zenon DEF SetRisk, TypeOK, User
    <2>2. [users[h].pub EXCEPT !.risk = level] \in Public
      BY <2>1, Zenon DEF Public
    <2> QED
      BY <1>3, <2>2, SetPublicStructure, Zenon DEF SetRisk
  <1>4. CASE PreferenceThrows(h)
    BY <1>4, ExitStructure, Zenon DEF PreferenceThrows, TypeOK, Exits
  <1>6. ASSUME NEW s \in Slots, NEW kind \in {"walletOf", "balanceOf"} \cup Refreshes, NewUser(s, h, kind)
        PROVE  StructureInv'
    BY <1>6, NewUserStructure, Zenon DEF Kinds, Refreshes
  <1>7. ASSUME NEW s \in Slots, NEW kind \in Refreshes, RefreshKnown(s, h, kind)
        PROVE  StructureInv'
    BY <1>7, NewTaskStructure, Zenon DEF RefreshKnown, Kinds, Refreshes, TypeOK
  <1>8. ASSUME NEW s \in Slots, NEW w \in Watchers, OnAccountChange(s, h, w)
        PROVE  StructureInv'
    <2>1. notices' \in [Handles -> [Watchers -> Nat]]
      BY <1>8 DEF OnAccountChange, TypeOK
    <2>2. users[h] # None
      BY <1>8, Zenon DEF OnAccountChange, TasksInv
    <2> QED
      BY <1>8, <2>1, <2>2, NewTaskStructure, Zenon DEF OnAccountChange, Kinds
  <1> QED
    BY <1>1, <1>2, <1>3, <1>4, <1>6, <1>7, <1>8, Zenon

\* The steps of a refresh.  A slot in one of the reading phases is awaited by
\* no persist call, so changing it disturbs none.
LEMMA StepStructure ==
  ASSUME StructureInv, NEW s \in Slots, NEW t \in Task \cup {None}, Serving,
         tasks[s] # None, tasks[s].phase \notin {"ensure", "persist"},
         t # None => t.h = tasks[s].h,
         tasks' = [tasks EXCEPT ![s] = t],
         UNCHANGED <<proc, users, calls, redis, solana, sells, minted, ghosts>>
  PROVE  StructureInv'
  <1> USE DEF StructureInv, redis, calls, solana, ghosts, proc
  <1>1. TypeOK'
    BY Zenon DEF TypeOK
  <1>2. TasksInv'
    BY Zenon DEF TypeOK, TasksInv, Serving
  <1>3. ASSUME NEW c \in Call, Awaits(c) PROVE Awaits(c)'
    BY <1>3, Zenon DEF Awaits, TypeOK, Call
  <1>4. CallsInv'
    BY <1>3, QueueFacts, Zenon DEF CallsInv, Serving
  <1> QED
    BY <1>1, <1>2, <1>4, Zenon

\* So does the end of a refresh, which stores what was read.
LEMMA ApplyStructure ==
  ASSUME StructureInv, NEW s \in Slots, Apply(s)
  PROVE  StructureInv'
  <1> USE DEF StructureInv, redis, calls, solana, ghosts, proc
  <1> DEFINE t == tasks[s]
             pub == Refreshed(users[t.h].pub, t)
  <1>1. /\ t \in Task /\ t.phase = "apply" /\ t.h \in Handles /\ Serving
        /\ users[t.h] \in User /\ users[t.h].pub \in Public
    BY ZenonT(60) DEF Apply, In, TypeOK, TasksInv, Task, User, Serving
  <1>2. pub \in Public
    BY <1>1, Zenon DEF Refreshed, Public, Task
  <1>3. /\ users' = [users EXCEPT ![t.h].pub = pub] /\ Persist(t.h, pub, s)
        /\ tasks' = [tasks EXCEPT ![s].phase = "persist"]
        /\ UNCHANGED <<proc, redis, solana, sells, minted, ghosts>>
    BY Zenon DEF Apply
  <1>4. PICK e \in Call : e = [h |-> t.h, data |-> Strings(pub), by |-> s]
    BY <1>1, <1>2, <1>3, PersistTypes, Zenon
  <1>41. sadds' \in Seq(Call) /\ hsets' \in Seq(Call) /\ unsaved' \subseteq Handles
    BY <1>1, <1>2, <1>3, PersistTypes, Zenon
  <1>5. /\ users' \in [Handles -> User \cup {None}] /\ users'[t.h] \in User
        /\ \A g \in Handles : users[g] # None => users'[g] # None
    BY <1>1, <1>2, <1>3, Zenon DEF TypeOK, User
  <1>6. /\ tasks' \in [Slots -> Task \cup {None}] /\ tasks'[s] \in Task
        /\ tasks'[s].h = t.h /\ tasks'[s].phase = "persist"
        /\ \A r \in Slots \ {s} : tasks'[r] = tasks[r]
    BY <1>1, <1>3, Zenon DEF TypeOK, Task
  <1>7. TypeOK'
    BY <1>3, <1>41, <1>5, <1>6, Zenon DEF TypeOK
  <1>8. TasksInv'
    <2>1. \A r \in Slots : tasks[r] # None => tasks[r].h \in Handles
      BY Zenon DEF TypeOK, Task
    <2> QED
      BY <1>1, <1>3, <1>5, <1>6, <2>1, ZenonT(60) DEF TypeOK, TasksInv, Serving
  <1>9. CallsInv'
    <2>1. sadds' = Append(sadds, e) /\ hsets' = hsets /\ Serving'
      BY <1>1, <1>3, <1>4, Zenon DEF Persist, Serving
    <2>2. /\ \A i \in DOMAIN sadds : Awaits(sadds[i]) /\ sadds[i] \in Call
          /\ \A i \in DOMAIN hsets : Awaits(hsets[i]) /\ hsets[i] \in Call
      BY <1>1, QueueFacts, Zenon DEF CallsInv
    <2>3. ASSUME NEW c \in Call, Awaits(c) PROVE Awaits(c)' /\ c.by # s
      BY <2>3, <1>1, <1>5, <1>6, Zenon DEF Awaits, TypeOK, Call
    <2>4. Awaits(e)'
      BY <1>1, <1>4, <1>5, <1>6, Zenon DEF Awaits
    <2>5. /\ DOMAIN sadds' = DOMAIN sadds \cup {Len(sadds) + 1}
          /\ \A i \in DOMAIN sadds : sadds'[i] = sadds[i]
          /\ sadds'[Len(sadds) + 1] = e
      <3>1. sadds \in Seq(Call)
        BY QueueFacts, Zenon
      <3>2. /\ DOMAIN Append(sadds, e) = DOMAIN sadds \cup {Len(sadds) + 1}
            /\ \A i \in DOMAIN sadds : Append(sadds, e)[i] = sadds[i]
            /\ Append(sadds, e)[Len(sadds) + 1] = e
        BY ONLY <3>1, e \in Call, AppendFacts
      <3> QED
        BY <2>1, <3>2, Zenon
    <2>6. e.by = s /\ Serving
      BY <1>1, <1>4, Zenon
    <2> QED
      BY <2>1, <2>2, <2>3, <2>4, <2>5, <2>6 DEF CallsInv, Serving
  <1> QED
    BY <1>7, <1>8, <1>9, Zenon

\* So does every answer or error of the Solana node.
LEMMA RpcStructure ==
  ASSUME StructureInv, NEW s \in Slots,
         GetBalance(s) \/ GetTokenAccount(s) \/ Apply(s) \/ RpcErrorCaught(s) \/ RpcErrorThrows(s)
  PROVE  StructureInv'
  <1> USE DEF StructureInv
  <1>1. ASSUME tasks[s] # None
        PROVE  tasks[s] \in Task /\ Serving /\ chain[users[tasks[s].h].wallet] \in Balance
    BY <1>1, ZenonT(60) DEF TypeOK, TasksInv, Serving, Task, User
  <1>2. CASE GetBalance(s)
    <2> DEFINE t == [tasks[s] EXCEPT !.phase = "readTier", !.sol = chain[users[tasks[s].h].wallet].sol]
    <2>1. t \in Task /\ t.h = tasks[s].h
      BY <1>1, <1>2, Zenon DEF GetBalance, In, Task, Balance
    <2>2. tasks' = [tasks EXCEPT ![s] = t]
      BY <1>2, Zenon DEF GetBalance, TypeOK
    <2> QED
      BY <1>1, <1>2, <2>1, <2>2, StepStructure, Zenon DEF GetBalance, In
  <1>3. CASE GetTokenAccount(s)
    <2> DEFINE t == [tasks[s] EXCEPT !.phase = "apply", !.tierBal = chain[users[tasks[s].h].wallet].tierBal]
    <2>1. t \in Task /\ t.h = tasks[s].h
      BY <1>1, <1>3, Zenon DEF GetTokenAccount, In, Task, Balance
    <2>2. tasks' = [tasks EXCEPT ![s] = t]
      BY <1>3, Zenon DEF GetTokenAccount, TypeOK
    <2> QED
      BY <1>1, <1>3, <2>1, <2>2, StepStructure, Zenon DEF GetTokenAccount, In
  <1>4. CASE Apply(s)
    BY <1>4, ApplyStructure, Zenon
  <1>5. CASE RpcErrorCaught(s)
    BY <1>1, <1>5, StepStructure, Zenon DEF RpcErrorCaught, In
  <1>6. CASE RpcErrorThrows(s)
    BY <1>6, ExitStructure, Zenon DEF RpcErrorThrows, TypeOK, Exits, proc
  <1> QED
    BY <1>2, <1>3, <1>4, <1>5, <1>6, Zenon

\* Redis executes a SADD: the entry moves from one queue to the other.
LEMMA SaddStructure ==
  ASSUME StructureInv, RedisSadd
  PROVE  StructureInv'
  <1> USE DEF StructureInv, redis, solana, ghosts, proc
  <1>1. /\ sadds \in Seq(Call) /\ sadds # <<>> /\ sadds' = Tail(sadds)
        /\ hsets \in Seq(Call) /\ hsets' = IF Serving THEN Append(hsets, Head(sadds)) ELSE hsets
        /\ UNCHANGED <<proc, users, tasks>>
    BY Zenon DEF RedisSadd, TypeOK
  <1>2. PICK e \in Call : e = Head(sadds) /\ e = sadds[1] /\ 1 \in DOMAIN sadds
    BY <1>1, TailFacts, Zenon
  <1>3. sadds' \in Seq(Call) /\ hsets' \in Seq(Call)
    BY <1>1, <1>2, TailFacts, AppendFacts, Zenon
  <1>4. TypeOK'
    BY <1>2, <1>3, Zenon DEF RedisSadd, TypeOK, Call
  <1>5. TasksInv'
    BY Zenon DEF RedisSadd, TasksInv
  <1>6. CASE ~Serving
    BY <1>1, <1>4, <1>5, <1>6, Zenon DEF CallsInv, Serving
  <1>7. CASE Serving
    <2>1. /\ \A i \in DOMAIN sadds' : sadds'[i] = sadds[i + 1] /\ i + 1 \in DOMAIN sadds /\ i \in Nat
          /\ DOMAIN hsets' = DOMAIN hsets \cup {Len(hsets) + 1}
          /\ \A i \in DOMAIN hsets : hsets'[i] = hsets[i]
          /\ hsets'[Len(hsets) + 1] = e
          /\ \A i \in DOMAIN sadds' : i + 1 # 1
      BY <1>1, <1>2, <1>7, TailFacts, AppendFacts
    <2>2. \A c : Awaits(c)' <=> Awaits(c)
      BY <1>1, Zenon DEF Awaits
    <2>3. \A i, j \in DOMAIN sadds' : i + 1 = j + 1 => i = j
      BY <2>1
    <2> QED
      BY <1>1, <1>2, <1>4, <1>5, <1>7, <2>1, <2>2, <2>3 DEF CallsInv, Serving
  <1> QED
    BY <1>6, <1>7, Zenon

\* The entry at the head of a queue leaves it, and only the slot that awaited
\* that entry changes: no other entry is awaited by the same slot.
LEMMA PopStructure ==
  ASSUME StructureInv, Serving, Serving', NEW e \in Call, UNCHANGED users,
         \/ sadds # <<>> /\ e = Head(sadds) /\ sadds' = Tail(sadds) /\ hsets' = hsets
         \/ hsets # <<>> /\ e = Head(hsets) /\ hsets' = Tail(hsets) /\ sadds' = sadds,
         \A s \in Slots : s # e.by => tasks'[s] = tasks[s]
  PROVE  CallsInv'
  <1> USE DEF StructureInv
  <1>1. ASSUME NEW c \in Call, Awaits(c), c.by # e.by \/ c.by = None PROVE Awaits(c)'
    BY <1>1, Zenon DEF Awaits, Call
  <1>2. /\ sadds \in Seq(Call) /\ hsets \in Seq(Call)
        /\ \A i \in DOMAIN sadds : sadds[i] \in Call /\ Awaits(sadds[i])
        /\ \A i \in DOMAIN hsets : hsets[i] \in Call /\ Awaits(hsets[i])
    BY QueueFacts, Zenon DEF CallsInv
  <1>3. CASE sadds # <<>> /\ e = Head(sadds) /\ sadds' = Tail(sadds) /\ hsets' = hsets
    <2>1. /\ e = sadds[1] /\ 1 \in DOMAIN sadds
          /\ \A i \in DOMAIN sadds' : sadds'[i] = sadds[i + 1] /\ i + 1 \in DOMAIN sadds /\ i + 1 # 1
          /\ \A i, j \in DOMAIN sadds' : i + 1 = j + 1 => i = j
      BY <1>2, <1>3, TailFacts
    <2>2. \A i \in DOMAIN sadds' : sadds'[i].by # e.by \/ sadds'[i].by = None
      BY <2>1 DEF CallsInv
    <2>3. \A i \in DOMAIN hsets : hsets[i].by # e.by \/ hsets[i].by = None
      BY <2>1, Zenon DEF CallsInv
    <2>4. /\ \A i \in DOMAIN sadds' : Awaits(sadds[i])'
          /\ \A i \in DOMAIN hsets' : Awaits(hsets[i])'
      BY <1>1, <1>2, <1>3, <2>1, <2>2, <2>3, Zenon
    <2> QED
      BY <1>3, <2>1, <2>4 DEF CallsInv, Serving
  <1>4. CASE hsets # <<>> /\ e = Head(hsets) /\ hsets' = Tail(hsets) /\ sadds' = sadds
    <2>1. /\ e = hsets[1] /\ 1 \in DOMAIN hsets
          /\ \A i \in DOMAIN hsets' : hsets'[i] = hsets[i + 1] /\ i + 1 \in DOMAIN hsets /\ i + 1 # 1
          /\ \A i, j \in DOMAIN hsets' : i + 1 = j + 1 => i = j
      BY <1>2, <1>4, TailFacts
    <2>2. \A i \in DOMAIN hsets' : hsets'[i].by # e.by \/ hsets'[i].by = None
      BY <2>1, ZenonT(60) DEF CallsInv
    <2>3. \A i \in DOMAIN sadds : sadds[i].by # e.by \/ sadds[i].by = None
      BY <2>1, Zenon DEF CallsInv
    <2>4. /\ \A i \in DOMAIN hsets' : Awaits(hsets[i])'
          /\ \A i \in DOMAIN sadds' : Awaits(sadds[i])'
      BY <1>1, <1>2, <1>4, <2>1, <2>2, <2>3, Zenon
    <2> QED
      BY <1>4, <2>1, <2>4 DEF CallsInv, Serving
  <1> QED
    BY <1>3, <1>4, Zenon

\* Redis executes an HSET and the caller of persist() goes on.
LEMMA HsetStructure ==
  ASSUME StructureInv, RedisHset
  PROVE  StructureInv'
  <1> USE DEF StructureInv, redis, solana, ghosts, proc
  <1>1. /\ hsets \in Seq(Call) /\ hsets # <<>> /\ hsets' = Tail(hsets) /\ sadds' = sadds
        /\ UNCHANGED <<proc, users, members, wallet, solana, minted>>
    BY Zenon DEF RedisHset, TypeOK
  <1>2. PICK e \in Call : e = Head(hsets) /\ e = hsets[1] /\ 1 \in DOMAIN hsets
    BY <1>1, TailFacts, Zenon
  <1>u. unsaved' \subseteq Handles
    BY <1>2, Zenon DEF RedisHset, TypeOK, Call
  <1>3. hsets' \in Seq(Call) /\ profile' \in [Handles -> Profile \cup {None}]
    <2>1. profile \in [Handles -> Profile \cup {None}] /\ profile' = [profile EXCEPT ![e.h] = e.data]
      BY <1>2, Zenon DEF RedisHset, TypeOK
    <2>2. e.h \in Handles /\ e.data \in Profile
      BY Zenon DEF Call
    <2> HIDE DEF StructureInv
    <2> QED
      BY <1>1, <2>1, <2>2, TailFacts, Zenon
  <1>4. CASE Serving /\ e.by # None
    <2> DEFINE s == e.by
               t == tasks[s]
               r == IF t.phase = "ensure" /\ t.kind \in {"refresh", "aiRefresh"}
                    THEN [t EXCEPT !.phase = "readSol"] ELSE None
    <2>1. s \in Slots /\ t \in Task /\ t.h \in Handles /\ users[t.h] \in User
      BY <1>2, <1>4 DEF CallsInv, Awaits, TypeOK, Call, Task
    <2>2. Resume(s)
      BY <1>2, <1>4, Zenon DEF RedisHset
    <2>3. r \in Task \cup {None} /\ (r # None => r.h = t.h)
      BY <2>1, Zenon DEF Task
    <2>4. tasks' = [tasks EXCEPT ![s] = r]
      BY <2>2, Zenon DEF Resume
    <2>5. shown' \in [Handles -> SUBSET Keys] /\ told' \in [Handles -> SUBSET Keys]
      <3>1. Show(t.h) \/ UNCHANGED <<shown, told>>
        BY <2>2, Zenon DEF Resume
      <3>2. t.h \in Handles /\ users[t.h].wallet \in Keys
        BY <2>1, Zenon DEF User
      <3>3. shown \in [Handles -> SUBSET Keys] /\ told \in [Handles -> SUBSET Keys]
        BY Zenon DEF TypeOK
      <3> HIDE DEF t, StructureInv
      <3> QED
        BY <3>1, <3>2, <3>3 DEF Show
    <2>6. sells' \in [Handles -> Nat]
      <3>1. sells' = [sells EXCEPT ![t.h] = @ + 1] \/ sells' = sells
        BY <2>2, Zenon DEF Resume
      <3>2. t.h \in Handles /\ sells \in [Handles -> Nat]
        BY <2>1, Zenon DEF TypeOK
      <3> HIDE DEF t, StructureInv
      <3> QED
        BY <3>1, <3>2
    <2>7. TypeOK'
      BY <1>1, <1>u, <1>3, <2>1, <2>3, <2>4, <2>5, <2>6, Zenon DEF TypeOK
    <2>8. TasksInv'
      BY <1>1, <1>4, <2>1, <2>3, <2>4, Zenon DEF TypeOK, TasksInv, Serving
    <2>9. CallsInv'
      <3>1. \A q \in Slots : q # e.by => tasks'[q] = tasks[q]
        BY <2>4, Zenon DEF TypeOK
      <3>2. Serving' /\ UNCHANGED users
        BY <1>1, <1>4, Zenon DEF Serving
      <3> QED
        BY <1>1, <1>2, <1>4, <3>1, <3>2, PopStructure, Zenon
    <2> QED
      BY <2>7, <2>8, <2>9, Zenon
  <1>5. CASE ~(Serving /\ e.by # None)
    <2>1. UNCHANGED <<tasks, sells, ghosts>>
      BY <1>2, <1>5, Zenon DEF RedisHset
    <2>2. TypeOK' /\ TasksInv'
      BY <1>1, <1>u, <1>3, <2>1, Zenon DEF TypeOK, TasksInv
    <2>3. CASE ~Serving
      BY <1>1, <2>2, <2>3, Zenon DEF CallsInv, Serving
    <2>4. CASE Serving
      <3>1. Serving' /\ UNCHANGED users
        BY <1>1, <2>4, Zenon DEF Serving
      <3>2. CallsInv'
        BY <1>1, <1>2, <2>1, <2>4, <3>1, PopStructure, Zenon
      <3> QED
        BY <2>2, <3>2, Zenon
    <2> QED
      BY <2>3, <2>4, Zenon
  <1> QED
    BY <1>4, <1>5, Zenon

\* A refused command rejects the one call that awaits it.
LEMMA RefusedStructure ==
  ASSUME StructureInv, SaddRefused \/ HsetRefused
  PROVE  StructureInv'
  <1> USE DEF StructureInv, redis, solana, ghosts, proc
  <1>1. /\ sadds \in Seq(Call) /\ hsets \in Seq(Call) /\ Serving
        /\ \/ sadds # <<>> /\ Rejected(Head(sadds)) /\ sadds' = Tail(sadds) /\ hsets' = hsets
           \/ hsets # <<>> /\ Rejected(Head(hsets)) /\ hsets' = Tail(hsets) /\ sadds' = sadds
    BY Zenon DEF SaddRefused, HsetRefused, TypeOK
  <1>2. PICK e \in Call :
          /\ Rejected(e)
          /\ \/ sadds # <<>> /\ e = Head(sadds) /\ sadds' = Tail(sadds) /\ hsets' = hsets
             \/ hsets # <<>> /\ e = Head(hsets) /\ hsets' = Tail(hsets) /\ sadds' = sadds
    BY <1>1, QueueFacts, Zenon
  <1>3. /\ tasks' = [tasks EXCEPT ![e.by] = None] /\ e.by \in Slots
        /\ UNCHANGED <<proc, users, redis, solana, sells, minted, ghosts>>
    BY <1>2, Zenon DEF Rejected, Caught, Call
  <1>4. sadds' \in Seq(Call) /\ hsets' \in Seq(Call)
    BY <1>1, QueueFacts, Zenon
  <1>5. unsaved' \subseteq Handles
    <2>1. \/ sadds # <<>> /\ unsaved' \subseteq unsaved \cup {Head(sadds).h}
          \/ hsets # <<>> /\ unsaved' \subseteq unsaved \cup {Head(hsets).h}
      BY Zenon DEF SaddRefused, HsetRefused
    <2>2. (sadds # <<>> => Head(sadds) \in Call) /\ (hsets # <<>> => Head(hsets) \in Call)
      BY QueueFacts, Zenon
    <2>3. (\A c \in Call : c.h \in Handles) /\ unsaved \subseteq Handles
      BY Zenon DEF TypeOK, Call
    <2> HIDE DEF StructureInv
    <2> QED
      BY <2>1, <2>2, <2>3, Zenon
  <1>6. TypeOK'
    BY <1>3, <1>4, <1>5, Zenon DEF TypeOK
  <1>7. TasksInv'
    BY <1>1, <1>3, ZenonT(60) DEF TypeOK, TasksInv, Serving
  <1>8. CallsInv'
    <2>1. Serving' /\ UNCHANGED users /\ \A s \in Slots : s # e.by => tasks'[s] = tasks[s]
      BY <1>1, <1>3, Zenon DEF Serving, TypeOK
    <2> QED
      BY <1>1, <1>2, <2>1, PopStructure, Zenon
  <1> QED
    BY <1>6, <1>7, <1>8, Zenon

\* So does a change of a balance on the chain.
LEMMA ChainStructure ==
  ASSUME StructureInv, NEW k \in minted, NEW bal \in Balance, ChainChange(k, bal)
  PROVE  StructureInv'
  <1> USE DEF StructureInv, redis, calls, ghosts, proc
  <1>1. chain' \in [Keys -> Balance] /\ changes' \in Nat
    BY DEF ChainChange, TypeOK
  <1>2. notices' \in [Handles -> [Watchers -> Nat]]
    <2>1. \A h \in Handles, w \in Watchers : notices[h][w] \in Nat /\ notices[h][w] + 1 \in Nat
      BY DEF TypeOK
    <2> QED
      BY <2>1, Zenon DEF ChainChange
  <1>3. TypeOK'
    BY <1>1, <1>2, Zenon DEF ChainChange, TypeOK
  <1> QED
    BY <1>3, FrameStructure, Zenon DEF ChainChange

\* The shape of the state is inductive.
LEMMA StructureStep == StructureInv /\ [Next]_vars => StructureInv'
  <1> SUFFICES ASSUME StructureInv, [Next]_vars PROVE StructureInv'
    BY Zenon
  <1>1. CASE Boot
    BY <1>1, BootStructure, Zenon
  <1>2. CASE Requests
    BY <1>2, RequestsStructure, Zenon
  <1>3. CASE Rpc
    BY <1>3, RpcStructure, Zenon DEF Rpc
  <1>4. CASE Redis
    BY <1>4, SaddStructure, HsetStructure, Zenon DEF Redis
  <1>5. CASE Failures
    <2>1. CASE Kill
      <3>1. kills' \in Nat /\ "killed" \in Exits
        BY <2>1 DEF Kill, StructureInv, TypeOK, Exits
      <3> QED
        BY <2>1, <3>1, ExitStructure, Zenon DEF Kill
    <2>2. CASE RiskTextThrows \/ StoreErrorThrows
      <3>1. kills \in Nat /\ {"riskText", "storeError"} \subseteq Exits
        BY Zenon DEF StructureInv, TypeOK, Exits
      <3> QED
        BY <2>2, <3>1, ExitStructure, Zenon DEF RiskTextThrows, StoreErrorThrows
    <2> QED
      BY <1>5, <2>1, <2>2, RefusedStructure, RpcStructure, Zenon DEF Failures
  <1>6. ASSUME NEW k \in minted, NEW bal \in Balance, ChainChange(k, bal) PROVE StructureInv'
    BY <1>6, ChainStructure, Zenon
  <1>7. CASE UNCHANGED vars
    BY <1>7, Zenon DEF StructureInv, vars, proc, calls, redis, solana, ghosts, TypeOK, TasksInv, CallsInv, Serving, Awaits
  <1> QED
    BY <1>1, <1>2, <1>3, <1>4, <1>5, <1>6, <1>7, Zenon DEF Next

\* Changing the public fields of a user: the key and the other users stay.
LEMMA PublicChange ==
  ASSUME TypeOK, NEW h \in Handles, users[h] # None, NEW pub \in Public, users' = [users EXCEPT ![h].pub = pub]
  PROVE  /\ users'[h] # None /\ users'[h].wallet = users[h].wallet /\ users'[h].pub = pub
         /\ \A g \in Handles \ {h} : users'[g] = users[g]
  <1>1. users[h] \in User /\ users \in [Handles -> User \cup {None}]
    BY Zenon DEF TypeOK
  <1>2. users'[h] = [users[h] EXCEPT !.pub = pub] /\ \A g \in Handles \ {h} : users'[g] = users[g]
    BY <1>1, Zenon
  <1>3. users'[h] \in User /\ users'[h].wallet = users[h].wallet /\ users'[h].pub = pub
    BY <1>1, <1>2, Zenon DEF User
  <1> QED
    BY <1>1, <1>2, <1>3, Zenon

\* The public fields that a preference or a refresh stores.
LEMMA NewPublic ==
  ASSUME TypeOK, NEW h \in Handles, users[h] # None
  PROVE  /\ users[h].pub \in Public
         /\ \A on \in BOOLEAN : [users[h].pub EXCEPT !.auto = on] \in Public
         /\ \A level \in Risks : [users[h].pub EXCEPT !.risk = level] \in Public
         /\ \A t \in Task : Refreshed(users[h].pub, t) \in Public
  <1>1. users[h].pub \in Public
    BY Zenon DEF TypeOK, User
  <1>2. ASSUME NEW on \in BOOLEAN PROVE [users[h].pub EXCEPT !.auto = on] \in Public
    BY <1>1, Zenon DEF Public
  <1>3. ASSUME NEW level \in Risks PROVE [users[h].pub EXCEPT !.risk = level] \in Public
    BY <1>1, Zenon DEF Public
  <1>4. ASSUME NEW t \in Task PROVE Refreshed(users[h].pub, t) \in Public
    BY <1>1, Zenon DEF Refreshed, Public, Task
  <1> QED
    BY <1>1, <1>2, <1>3, <1>4, Zenon

\* Every variable of the store keeps its type: users, profiles, balances, calls
\* in progress and the commands on the wire are what the code can put there.
THEOREM TypeCorrect == Spec => []TypeOK
  <1>1. StructureInv => TypeOK
    BY Zenon DEF StructureInv
  <1> QED
    BY <1>1, InitStructure, StructureStep, PTL DEF Spec

-----------------------------------------------------------------------------
(* The keys *)

\* A user in the Map stays there with the same key.
KeysStay == \A h \in Handles : users[h] # None => users'[h] # None /\ users'[h].wallet = users[h].wallet

\* A step after which the Map has the same users with the same keys.
SameKeys == KeysStay /\ \A h \in Handles : users[h] = None => users'[h] = None

\* A step that adds a user with a new key.
Gives == \E h \in Handles, k \in Keys \ minted :
           /\ users[h] = None
           /\ users' = [users EXCEPT ![h] = [wallet |-> k, pub |-> Defaults]]
           /\ minted' = minted \cup {k}

\* A step that shows a user the address of the key in the Map.
Shows == \E h \in Handles : users[h] # None /\ shown' = [shown EXCEPT ![h] = @ \cup {users[h].wallet}]

\* No step writes a wallet field, and no step takes a handle out of the set.
LEMMA StoreGrows == ASSUME [Next]_vars PROVE wallet' = wallet /\ members \subseteq members'
  <1> USE DEF redis
  <1>1. CASE Boot
    BY <1>1, Zenon DEF Boot, Start, WatchDeposits, HydrateUser, SkipUser, HydrateThrows
  <1>2. CASE Requests
    BY <1>2, ZenonT(60) DEF Requests, WalletOfKnown, ToggleAuto, SetRisk, SetPublic, PreferenceThrows, vars,
                NewUser, RefreshKnown, OnAccountChange
  <1>3. CASE Rpc
    BY <1>3, Zenon DEF Rpc, GetBalance, GetTokenAccount, Apply
  <1>4. CASE Redis
    BY <1>4, Zenon DEF Redis, RedisSadd, RedisHset
  <1>5. CASE Failures
    BY <1>5, Zenon DEF Failures, Kill, RiskTextThrows, SaddRefused, HsetRefused, Rejected, StoreErrorThrows, RpcErrorCaught, RpcErrorThrows
  <1>6. CASE UNCHANGED vars \/ \E k \in minted, bal \in Balance : ChainChange(k, bal)
    BY <1>6, Zenon DEF vars, ChainChange
  <1> QED
    BY <1>1, <1>2, <1>3, <1>4, <1>5, <1>6, Zenon DEF Next

\* After boot and until the process ends, a step adds users, changes their public
\* fields or shows an address; no step replaces a key in the Map or in Redis.
LEMMA MapSteps ==
  ASSUME StructureInv, [Next]_vars, ~Boot, mode' # "down"
  PROVE  /\ mode' = mode /\ todo' = todo
         /\ \/ users' = users /\ shown' = shown /\ minted' = minted
            \/ Serving /\ SameKeys /\ shown' = shown /\ minted' = minted
            \/ Serving /\ KeysStay /\ Gives /\ shown' = shown
            \/ Serving /\ users' = users /\ Shows /\ minted' = minted
  <1> USE DEF StructureInv, redis, solana, ghosts, proc, calls
  <1> DEFINE G == /\ mode' = mode /\ todo' = todo
                  /\ \/ users' = users /\ shown' = shown /\ minted' = minted
                     \/ Serving /\ SameKeys /\ shown' = shown /\ minted' = minted
                     \/ Serving /\ KeysStay /\ Gives /\ shown' = shown
                     \/ Serving /\ users' = users /\ Shows /\ minted' = minted
  <1>1. ASSUME NEW why, Exit(why) PROVE FALSE
    BY <1>1, Zenon DEF Exit
  <1>2. ASSUME NEW h \in Handles, NEW pub \in Public, Serving, users[h] # None, SetPublic(h, pub) PROVE G
    <2>1. SameKeys
      BY <1>2, PublicChange, ZenonT(60) DEF SetPublic, KeysStay, SameKeys
    <2> QED
      BY <1>2, <2>1, Zenon DEF SetPublic
  <1>3. ASSUME NEW s \in Slots, NEW h \in Handles, NEW kind, NewUser(s, h, kind) PROVE G
    <2>1. KeysStay
      BY <1>3, Zenon DEF NewUser, KeysStay, TypeOK
    <2>2. Gives
      BY <1>3, Zenon DEF NewUser, Gives
    <2> QED
      BY <1>3, <2>1, <2>2, Zenon DEF NewUser, Free
  <1>4. ASSUME NEW s \in Slots, Apply(s) PROVE G
    <2>1. tasks[s] \in Task /\ tasks[s].h \in Handles /\ users[tasks[s].h] # None /\ Serving
      BY <1>4, ZenonT(60) DEF Apply, In, TypeOK, TasksInv, Task, Serving
    <2>2. SameKeys
      <3> DEFINE h   == tasks[s].h
                 pub == Refreshed(users[h].pub, tasks[s])
      <3>1. users' = [users EXCEPT ![h].pub = pub]
        BY <1>4, Zenon DEF Apply
      <3>2. h \in Handles /\ users[h] # None /\ pub \in Public
        BY <2>1, NewPublic, Zenon
      <3> HIDE DEF h, pub
      <3> QED
        BY <3>1, <3>2, PublicChange, ZenonT(60) DEF KeysStay, SameKeys
    <2> QED
      BY <1>4, <2>1, <2>2, Zenon DEF Apply
  <1>5. CASE RedisHset
    <2>1. UNCHANGED <<proc, users, minted>> /\ (UNCHANGED ghosts \/ (Serving /\ Head(hsets).by # None /\ Resume(Head(hsets).by)))
      BY <1>5, Zenon DEF RedisHset
    <2>2. ASSUME Serving, Head(hsets).by # None, Resume(Head(hsets).by) PROVE shown' = shown \/ Shows
      <3>1. hsets \in Seq(Call) /\ hsets # <<>>
        BY <1>5, Zenon DEF RedisHset, TypeOK
      <3>2. PICK e \in Call : e = Head(hsets) /\ e = hsets[1] /\ 1 \in DOMAIN hsets
        BY <3>1, TailFacts, Zenon
      <3>3. tasks[e.by].h \in Handles /\ users[tasks[e.by].h] # None
        BY <2>2, <3>2 DEF CallsInv, Awaits, Call
      <3>4. Show(tasks[e.by].h) \/ shown' = shown
        BY <2>2, <3>2, Zenon DEF Resume
      <3> QED
        BY <3>3, <3>4, Zenon DEF Show, Shows
    <2> QED
      BY <2>1, <2>2, Zenon
  <1>6. CASE Requests
    <2> PICK h \in Handles :
          \/ WalletOfKnown(h)
          \/ \E on \in BOOLEAN : ToggleAuto(h, on)
          \/ \E level \in Risks : SetRisk(h, level)
          \/ PreferenceThrows(h)
          \/ \E s \in Slots :
               \/ \E kind \in {"walletOf", "balanceOf"} \cup Refreshes : NewUser(s, h, kind)
               \/ \E kind \in Refreshes : RefreshKnown(s, h, kind)
               \/ \E w \in Watchers : OnAccountChange(s, h, w)
      BY <1>6, Zenon DEF Requests
    <2>1. CASE WalletOfKnown(h)
      BY <2>1, Zenon DEF WalletOfKnown, Show, Shows
    <2>2. CASE (\E on \in BOOLEAN : ToggleAuto(h, on)) \/ (\E level \in Risks : SetRisk(h, level))
      BY <2>2, <1>2, NewPublic, Zenon DEF ToggleAuto, SetRisk
    <2>3. CASE PreferenceThrows(h)
      BY <2>3, <1>1, Zenon DEF PreferenceThrows, vars
    <2>4. ASSUME NEW s \in Slots, (\E kind \in Refreshes : RefreshKnown(s, h, kind)) \/ (\E w \in Watchers : OnAccountChange(s, h, w))
          PROVE  G
      BY <2>4, Zenon DEF RefreshKnown, OnAccountChange
    <2> QED
      BY <2>1, <2>2, <2>3, <2>4, <1>3, Zenon
  <1>7. CASE Failures
    BY <1>7, <1>1, Zenon DEF Failures, Kill, RiskTextThrows, SaddRefused, HsetRefused, Rejected, StoreErrorThrows, RpcErrorCaught, RpcErrorThrows
  <1>8. CASE Rpc
    BY <1>8, <1>4, Zenon DEF Rpc, GetBalance, GetTokenAccount
  <1>9. CASE RedisSadd
    BY <1>9, Zenon DEF RedisSadd
  <1>10. CASE UNCHANGED vars \/ \E k \in minted, bal \in Balance : ChainChange(k, bal)
    BY <1>10, Zenon DEF vars, ChainChange
  <1> QED
    BY <1>5, <1>6, <1>7, <1>8, <1>9, <1>10, Zenon DEF Next, Redis

\* A process gives a user one deposit address (walletOf, ensure): whatever runs
\* concurrently, every address it has given a handle is that of the key the Map
\* holds for that handle.
THEOREM OneAddress == Spec => []OneAddressPerProcess
  <1>1. Init => OneAddressPerProcess
    BY Zenon DEF Init, OneAddressPerProcess
  <1>2. StructureInv /\ OneAddressPerProcess /\ [Next]_vars => OneAddressPerProcess'
    <2> SUFFICES ASSUME StructureInv, OneAddressPerProcess, [Next]_vars PROVE OneAddressPerProcess'
      BY Zenon
    <2>1. StructureInv' /\ (mode' # "serving" => \A h \in Handles : shown'[h] = {})
      BY StructureStep, Zenon DEF StructureInv, TasksInv
    <2>2. CASE mode' # "serving"
      BY <2>1, <2>2, Zenon DEF OneAddressPerProcess
    <2>3. CASE Boot /\ mode' = "serving"
      <3>1. Start \/ WatchDeposits \/ \E h \in Handles : mode = "booting" /\ shown' = shown
        BY <2>3, Zenon DEF Boot, HydrateUser, SkipUser, HydrateThrows, Exit, ghosts
      <3> QED
        BY <2>3, <3>1, Zenon DEF Start, WatchDeposits, OneAddressPerProcess, ghosts, StructureInv, TasksInv
    <2>4. CASE ~Boot /\ mode' = "serving"
      <3>1. shown \in [Handles -> SUBSET Keys]
        BY Zenon DEF StructureInv, TypeOK
      <3>2. \/ users' = users /\ shown' = shown
            \/ KeysStay /\ shown' = shown
            \/ users' = users /\ Shows
        BY <2>4, MapSteps, Zenon DEF SameKeys
      <3> QED
        BY <3>1, <3>2 DEF KeysStay, Shows, OneAddressPerProcess
    <2> QED
      BY <2>2, <2>3, <2>4, Zenon
  <1> QED
    BY <1>1, <1>2, InitStructure, StructureStep, PTL DEF Spec

\* Every step keeps that stored keys are, or are about to be, in the Map.
KeysInv == BootInv /\ StoredKeyIsUsed

\* No step takes a stored key out of use or leaves a stored key behind at boot.
LEMMA KeysStep == ASSUME StructureInv, KeysInv, [Next]_vars PROVE KeysInv'
  <1> USE DEF KeysInv
  <1>1. wallet' = wallet /\ members \subseteq members' /\ \A h \in Handles : StoredAs(h, {"enc"})' <=> StoredAs(h, {"enc"})
    BY StoreGrows, Zenon DEF StoredAs
  <1>2. CASE mode' = "down"
    BY <1>1, <1>2, Zenon DEF BootInv, StoredKeyIsUsed, Serving
  <1>3. CASE ~Boot /\ mode' # "down"
    <2>1. mode' = mode /\ todo' = todo /\ (users' = users \/ (Serving /\ KeysStay))
      BY <1>3, MapSteps, Zenon DEF SameKeys
    <2> QED
      BY <1>1, <2>1, Zenon DEF BootInv, StoredKeyIsUsed, Serving, KeysStay
  <1>4. CASE Start
    BY <1>1, <1>4, Zenon DEF Start, BootInv, StoredKeyIsUsed, Serving
  <1>5. CASE WatchDeposits
    BY <1>1, <1>5, Zenon DEF WatchDeposits, BootInv, StoredKeyIsUsed, Serving
  <1>6. ASSUME NEW h \in Handles, HydrateUser(h) PROVE KeysInv'
    <2>1. /\ mode = "booting" /\ mode' = mode /\ todo' = todo \ {h}
          /\ users' = [users EXCEPT ![h] = [wallet |-> wallet[h].key, pub |-> Hydrate(profile[h])]]
      BY <1>6, Zenon DEF HydrateUser
    <2>2. users'[h].wallet = wallet[h].key /\ \A g \in Handles \ {h} : users'[g] = users[g]
      BY <2>1, Zenon DEF StructureInv, TypeOK
    <2>3. users'[h] # None
      <3>1. wallet[h] \in Wallet /\ profile[h] \in Profile \cup {None} /\ users \in [Handles -> User \cup {None}]
        BY <1>6, Zenon DEF HydrateUser, StoredAs, StructureInv, TypeOK
      <3>2. [wallet |-> wallet[h].key, pub |-> Hydrate(profile[h])] \in User
        BY <3>1, ConversionFacts, Zenon DEF Wallet, User
      <3> QED
        BY <2>1, <3>1, <3>2, Zenon
    <2> QED
      BY <1>1, <2>1, <2>2, <2>3, Zenon DEF BootInv, StoredKeyIsUsed, Serving
  <1>7. ASSUME NEW h \in Handles, SkipUser(h) PROVE KeysInv'
    <2>1. ~StoredAs(h, {"enc"})
      BY <1>7, Zenon DEF SkipUser, StoredAs, HashExists
    <2> QED
      BY <1>1, <1>7, <2>1, Zenon DEF SkipUser, BootInv, StoredKeyIsUsed, Serving
  <1>8. ASSUME NEW h \in Handles, HydrateThrows(h) PROVE KeysInv'
    BY <1>2, <1>8, Zenon DEF HydrateThrows, Exit
  <1> QED
    BY <1>2, <1>3, <1>4, <1>5, <1>6, <1>7, <1>8, Zenon DEF Boot

\* A key that is stored encrypted is the key the serving agent uses, through any
\* sequence of deaths and boots (initializeUsers; ensure never replaces a user).
THEOREM StoredKey == Spec => []StoredKeyIsUsed
  <1>1. Init => KeysInv
    BY Zenon DEF Init, KeysInv, BootInv, StoredKeyIsUsed, StoredAs, HashExists, Serving
  <1>2. KeysInv => StoredKeyIsUsed
    BY Zenon DEF KeysInv
  <1> QED
    BY <1>1, <1>2, KeysStep, InitStructure, StructureStep, PTL DEF Spec

-----------------------------------------------------------------------------
(* UserStore implements AddressBook *)

\* During boot the Map holds stored keys only, and only an agent boots.
Hydrated ==
  mode = "booting" =>
    /\ AGENT
    /\ \A h \in Handles : users[h] # None => StoredAs(h, {"enc"}) /\ users[h].wallet = wallet[h].key

\* Every step keeps it: no request reaches the Map before the boot has ended.
LEMMA HydratedStep == ASSUME StructureInv, Hydrated, [Next]_vars PROVE Hydrated'
  <1>1. wallet' = wallet /\ \A h \in Handles : StoredAs(h, {"enc"})' <=> StoredAs(h, {"enc"})
    BY StoreGrows, Zenon DEF StoredAs
  <1>2. CASE ~Boot /\ mode' # "down"
    BY <1>1, <1>2, MapSteps, Zenon DEF Hydrated, Serving
  <1>3. CASE Start
    BY <1>1, <1>3, Zenon DEF Start, Hydrated, StructureInv, TasksInv
  <1>4. CASE WatchDeposits \/ mode' = "down"
    BY <1>4, Zenon DEF WatchDeposits, Hydrated
  <1>5. ASSUME NEW h \in Handles, HydrateUser(h) PROVE Hydrated'
    <2>1. /\ mode = "booting" /\ StoredAs(h, {"enc"})
          /\ users' = [users EXCEPT ![h] = [wallet |-> wallet[h].key, pub |-> Hydrate(profile[h])]]
      BY <1>5, Zenon DEF HydrateUser
    <2>2. users'[h].wallet = wallet[h].key /\ \A g \in Handles \ {h} : users'[g] = users[g]
      BY <2>1, Zenon DEF StructureInv, TypeOK
    <2> QED
      BY <1>1, <2>1, <2>2, Zenon DEF Hydrated
  <1>6. ASSUME NEW h \in Handles, SkipUser(h) PROVE Hydrated'
    BY <1>1, <1>6, Zenon DEF SkipUser, Hydrated
  <1>7. ASSUME NEW h \in Handles, HydrateThrows(h) PROVE Hydrated'
    BY <1>4, <1>7, Zenon DEF HydrateThrows, Exit
  <1> QED
    BY <1>2, <1>3, <1>4, <1>5, <1>6, <1>7, Zenon DEF Boot

\* A step into "down" and a step of the boot make no key, and the boot shows none.
LEMMA NoNewKey == 
  ASSUME [Next]_vars, mode' = "down" \/ Boot
  PROVE  minted' = minted /\ (Boot /\ mode' # "down" => shown' = shown)
  <1> USE DEF ghosts
  <1>1. CASE Boot
    BY <1>1, Zenon DEF Boot, Start, WatchDeposits, HydrateUser, SkipUser, HydrateThrows, Exit
  <1>2. ASSUME NEW s \in Slots, NEW h \in Handles, NEW kind, NewUser(s, h, kind), mode' = "down" PROVE FALSE
    BY <1>2, Zenon DEF NewUser, Free, Serving, proc
  <1>3. ASSUME Requests /\ mode' = "down" PROVE minted' = minted
    BY <1>2, <1>3, ZenonT(60) DEF Requests, WalletOfKnown, ToggleAuto, SetRisk, SetPublic, PreferenceThrows,
         vars, RefreshKnown, OnAccountChange
  <1>4. ASSUME Rpc PROVE minted' = minted
    BY <1>4, Zenon DEF Rpc, GetBalance, GetTokenAccount, Apply
  <1>5. ASSUME Redis PROVE minted' = minted
    BY <1>5, Zenon DEF Redis, RedisSadd, RedisHset
  <1>6. ASSUME Failures PROVE minted' = minted
    BY <1>6, Zenon DEF Failures, Kill, RiskTextThrows, SaddRefused, HsetRefused, Rejected, StoreErrorThrows, RpcErrorCaught, RpcErrorThrows
  <1>7. ASSUME UNCHANGED vars \/ \E k \in minted, bal \in Balance : ChainChange(k, bal) PROVE minted' = minted
    BY <1>7, Zenon DEF vars, ChainChange
  <1> QED
    BY <1>1, <1>3, <1>4, <1>5, <1>6, <1>7, Zenon DEF Next

\* The values of the book's variables, and how they change.
BookNow   == [h \in Handles |-> IF Serving /\ users[h] # None THEN users[h].wallet ELSE None]
StoredNow == [h \in Handles |-> IF StoredAs(h, {"enc"}) THEN wallet[h].key ELSE None]

\* Every step of the store is a step of the address book or changes nothing in it.
LEMMA BookStep ==
  ASSUME StructureInv, StructureInv', KeysInv, Hydrated, [Next]_vars
  PROVE  [Book!Next]_(Book!vars)
  <1> USE DEF Book!Empty, Book!Untold
  <1>1. StoredNow' = StoredNow
    BY StoreGrows, Zenon DEF StoredNow, StoredAs
  <1>2. /\ mode # "serving" => shown = [h \in Handles |-> {}]
        /\ mode' # "serving" => shown' = [h \in Handles |-> {}]
    <2>1. shown \in [Handles -> SUBSET Keys] /\ shown' \in [Handles -> SUBSET Keys]
      BY Zenon DEF StructureInv, TypeOK
    <2>2. /\ mode # "serving" => \A h \in Handles : shown[h] = {}
          /\ mode' # "serving" => \A h \in Handles : shown'[h] = {}
      BY Zenon DEF StructureInv, TasksInv
    <2> QED
      BY <2>1, <2>2, Zenon
  <1>3. CASE mode # "serving" /\ mode' # "serving"
    <2>1. BookNow' = BookNow
      BY <1>3, Zenon DEF BookNow, Serving
    <2>2. minted' = minted
      BY <1>3, NoNewKey, MapSteps, Zenon DEF Serving
    <2> QED
      BY <1>1, <1>2, <1>3, <2>1, <2>2, Zenon DEF Book!vars, BookNow, StoredNow, Serving
  <1>4. CASE mode = "serving" /\ mode' # "serving"
    <2>1. mode' = "down"
      BY <1>4, MapSteps, Zenon DEF Boot, Start, WatchDeposits, HydrateUser, SkipUser, HydrateThrows
    <2>2. minted' = minted
      BY <2>1, NoNewKey, Zenon
    <2>3. BookNow' = [h \in Handles |-> None]
      BY <1>4, Zenon DEF BookNow, Serving
    <2> QED
      BY <1>1, <1>2, <1>4, <2>2, <2>3, Zenon DEF Book!Next, Book!Close, BookNow, StoredNow, Serving
  <1>5. CASE mode # "serving" /\ mode' = "serving"
    <2>1. Boot
      BY <1>5, MapSteps, Zenon
    <2>2. minted' = minted /\ shown' = shown
      BY <1>5, <2>1, NoNewKey, Zenon
    <2>3. BookNow' = IF AGENT THEN StoredNow ELSE [h \in Handles |-> None]
      <3>1. CASE Start
        BY <1>5, <3>1, Zenon DEF Start, BookNow, Serving, StructureInv, TasksInv
      <3>2. CASE WatchDeposits
        BY <1>5, <3>2, Zenon DEF WatchDeposits, BookNow, StoredNow, Serving, KeysInv, BootInv, Hydrated
      <3> QED
        BY <1>5, <2>1, <3>1, <3>2, Zenon DEF Boot, HydrateUser, SkipUser, HydrateThrows, Exit
    <2> QED
      BY <1>1, <1>5, <2>2, <2>3, Zenon DEF Book!Next, Book!Open, BookNow, StoredNow, Serving
  <1>6. CASE mode = "serving" /\ mode' = "serving"
    <2>1. ~Boot
      BY <1>6, Zenon DEF Boot, Start, WatchDeposits, HydrateUser, SkipUser, HydrateThrows
    <2>2. CASE (users' = users \/ SameKeys) /\ shown' = shown /\ minted' = minted
      <3>1. BookNow' = BookNow
        BY <1>6, <2>2, Zenon DEF BookNow, SameKeys, KeysStay, Serving
      <3> QED
        BY <1>1, <1>6, <2>2, <3>1, Zenon DEF Book!vars, BookNow, StoredNow, Serving
    <2>3. CASE Gives /\ shown' = shown
      <3>1. PICK h \in Handles, k \in Keys \ minted :
              /\ users[h] = None /\ minted' = minted \cup {k}
              /\ users' = [users EXCEPT ![h] = [wallet |-> k, pub |-> Defaults]]
        BY <2>3, Zenon DEF Gives
      <3>2. users'[h].wallet = k /\ users'[h] # None /\ \A g \in Handles \ {h} : users'[g] = users[g]
        <4>1. [wallet |-> k, pub |-> Defaults] \in User
          BY ConversionFacts, Zenon DEF User
        <4> QED
          BY <3>1, <4>1, ZenonT(60) DEF StructureInv, TypeOK
      <3>3. BookNow[h] = None /\ BookNow' = [BookNow EXCEPT ![h] = k]
        <4>1. BookNow[h] = None /\ BookNow'[h] = k /\ \A g \in Handles \ {h} : BookNow'[g] = BookNow[g]
          BY <1>6, <3>1, <3>2 DEF BookNow, Serving
        <4>2. BookNow = [g \in Handles |-> BookNow[g]] /\ BookNow' = [g \in Handles |-> BookNow'[g]]
          BY Zenon DEF BookNow
        <4> QED
          BY <4>1, <4>2, Zenon
      <3> QED
        BY <1>1, <1>6, <2>3, <3>1, <3>3, Zenon DEF Book!Next, Book!Assign, BookNow, StoredNow, Serving
    <2>4. CASE users' = users /\ Shows /\ minted' = minted
      <3>1. PICK h \in Handles : users[h] # None /\ shown' = [shown EXCEPT ![h] = @ \cup {users[h].wallet}]
        BY <2>4, Zenon DEF Shows
      <3>2. BookNow' = BookNow /\ BookNow[h] = users[h].wallet /\ BookNow[h] # None
        BY <1>6, <2>4, <3>1, Zenon DEF BookNow, Serving, StructureInv, TypeOK, User
      <3> QED
        BY <1>1, <1>6, <2>4, <3>1, <3>2, Zenon DEF Book!Next, Book!Tell, BookNow, StoredNow, Serving
    <2> QED
      BY <1>6, <2>1, <2>2, <2>3, <2>4, MapSteps, Zenon
  <1> QED
    BY <1>3, <1>4, <1>5, <1>6, Zenon

\* The user store implements the address book: through boots, deaths and any
\* interleaving of calls (initializeUsers, ensure, walletOf), its Map, the stored
\* wallets and the addresses told to users change as AddressBook says.
THEOREM BookImplemented == Spec => ImplementsAddressBook
  <1>1. Init => Book!Init
    <2> SUFFICES ASSUME Init PROVE Book!Init
      BY Zenon
    <2>1. \A h \in Handles : StoredAs(h, {"enc"}) => wallet[h].key \in Keys /\ wallet[h].key \in minted
      BY Zenon DEF Init, StoredAs, Formats
    <2> QED
      BY <2>1, Zenon DEF Init, Book!Init, Book!Empty, Book!Untold, Serving
  <1>2. Init => KeysInv /\ Hydrated
    BY Zenon DEF Init, KeysInv, BootInv, StoredKeyIsUsed, StoredAs, HashExists, Serving, Hydrated
  <1> QED
    BY <1>1, <1>2, InitStructure, StructureStep, KeysStep, HydratedStep, BookStep, PTL DEF Spec, ImplementsAddressBook, Book!Spec

-----------------------------------------------------------------------------
(* What was saved is found again *)

\* The handle of a hash, and of an HSET under way, is in the set.
ListedInv ==
  /\ SavedIsListed
  /\ \A i \in DOMAIN hsets : hsets[i].h \in members

\* No HSET is sent for a handle that is not in the set, and none is executed.
LEMMA ListedStep == ASSUME StructureInv, ListedInv, [Next]_vars PROVE ListedInv'
  <1>a. members \subseteq members'
    BY StoreGrows, Zenon
  <1>b. ASSUME profile' = profile, hsets' = hsets PROVE ListedInv'
    BY <1>a, <1>b, Zenon DEF ListedInv, SavedIsListed
  <1>c. CASE Start \/ WatchDeposits
    <2>1. profile' = profile /\ (hsets' = <<>> \/ hsets' = hsets)
      BY <1>c, Zenon DEF Start, WatchDeposits, redis
    <2>2. CASE hsets' = <<>>
      BY <1>a, <2>1, <2>2 DEF ListedInv, SavedIsListed
    <2> QED
      BY <1>b, <2>1, <2>2, Zenon
  <1>1. CASE (\E h \in Handles : HydrateUser(h) \/ SkipUser(h) \/ HydrateThrows(h)) \/ Requests \/ Rpc
    <2>1. profile' = profile /\ hsets' = hsets
      <3> USE DEF redis, calls
      <3>1. CASE \E h \in Handles : HydrateUser(h) \/ SkipUser(h) \/ HydrateThrows(h)
        BY <3>1, Zenon DEF HydrateUser, SkipUser, HydrateThrows
      <3>2. CASE Requests
        BY <3>2, ZenonT(60) DEF Requests, WalletOfKnown, ToggleAuto, SetRisk, SetPublic, Persist, PreferenceThrows,
                           vars, NewUser, RefreshKnown, OnAccountChange
      <3>3. CASE Rpc
        BY <3>3, Zenon DEF Rpc, GetBalance, GetTokenAccount, Apply, Persist
      <3> QED
        BY <1>1, <3>1, <3>2, <3>3, Zenon
    <2> QED
      BY <1>b, <2>1, Zenon
  <1>2. CASE RedisSadd
    <2>1. /\ sadds # <<>> /\ Head(sadds).h \in members' /\ profile' = profile
          /\ hsets' = hsets \/ hsets' = Append(hsets, Head(sadds))
      BY <1>2, Zenon DEF RedisSadd
    <2>2. CASE hsets' = hsets
      BY <1>b, <2>1, <2>2, Zenon
    <2>3. CASE hsets' = Append(hsets, Head(sadds))
      <3>1. \A i \in DOMAIN hsets' : (i \in DOMAIN hsets /\ hsets'[i] = hsets[i]) \/ hsets'[i] = Head(sadds)
        BY <2>1, <2>3, QueueFacts, AppendFacts
      <3> QED
        BY <1>a, <2>1, <3>1, Zenon DEF ListedInv, SavedIsListed
    <2> QED
      BY <2>1, <2>2, <2>3, Zenon
  <1>3. CASE RedisHset
    <2>1. /\ hsets # <<>> /\ hsets' = Tail(hsets)
          /\ profile' = [profile EXCEPT ![Head(hsets).h] = Head(hsets).data]
      BY <1>3, Zenon DEF RedisHset
    <2>2. /\ 1 \in DOMAIN hsets /\ Head(hsets) = hsets[1]
          /\ \A i \in DOMAIN hsets' : hsets'[i] = hsets[i + 1] /\ i + 1 \in DOMAIN hsets
      BY <2>1, QueueFacts, TailFacts, Zenon
    <2>3. profile \in [Handles -> Profile \cup {None}]
      BY Zenon DEF StructureInv, TypeOK
    <2> QED
      BY <1>a, <2>1, <2>2, <2>3, Zenon DEF ListedInv, SavedIsListed
  <1>4. CASE HsetRefused
    <2>1. hsets # <<>> /\ hsets' = Tail(hsets) /\ profile' = profile
      BY <1>4, Zenon DEF HsetRefused, Rejected, redis
    <2>2. \A i \in DOMAIN hsets' : hsets'[i] = hsets[i + 1] /\ i + 1 \in DOMAIN hsets
      BY <2>1, QueueFacts, TailFacts, Zenon
    <2> QED
      BY <1>a, <2>1, <2>2, Zenon DEF ListedInv, SavedIsListed
  <1>5. CASE Failures /\ ~HsetRefused
    <2>1. profile' = profile /\ hsets' = hsets
      BY <1>5, Zenon DEF Failures, Kill, RiskTextThrows, SaddRefused, Rejected, StoreErrorThrows, RpcErrorCaught,
                         RpcErrorThrows, redis, calls
    <2> QED
      BY <1>b, <2>1, Zenon
  <1>6. CASE UNCHANGED vars \/ \E k \in minted, bal \in Balance : ChainChange(k, bal)
    <2>1. profile' = profile /\ hsets' = hsets
      BY <1>6, Zenon DEF vars, ChainChange, redis, calls
    <2> QED
      BY <1>b, <2>1, Zenon
  <1> QED
    BY <1>c, <1>1, <1>2, <1>3, <1>4, <1>5, <1>6, Zenon DEF Next, Boot, Redis

\* Every saved user is in the set that the boot reads, whatever is refused, crashes
\* or interleaves between SADD and HSET (db.js:67-68).
THEOREM Listed == Spec => []SavedIsListed
  <1>1. Init => ListedInv
    BY DEF Init, ListedInv, SavedIsListed, HashExists
  <1>2. ListedInv => SavedIsListed
    BY Zenon DEF ListedInv
  <1> QED
    BY <1>1, <1>2, InitStructure, StructureStep, ListedStep, PTL DEF Spec

-----------------------------------------------------------------------------
(* The store catches up *)

\* A new call is the last one for its handle, and changes nothing for others.
LEMMA AppendLast ==
  ASSUME NEW q \in Seq(Call), NEW e \in Call, NEW g, NEW d
  PROVE  /\ Waiting(Append(q, e), g) <=> Waiting(q, g) \/ e.h = g
         /\ e.h = g /\ e.data = d => LastCarries(Append(q, e), g, d)
         /\ e.h # g => (LastCarries(Append(q, e), g, d) <=> LastCarries(q, g, d))
  <1> DEFINE r == Append(q, e)
             n == Len(q) + 1
  <1>1. /\ DOMAIN r = DOMAIN q \cup {n} /\ n \notin DOMAIN q
        /\ (\A i \in DOMAIN q : r[i] = q[i] /\ i < n) /\ r[n] = e
    BY AppendFacts
  <1>2. n \in Nat /\ \A i \in DOMAIN q : i \in Nat
    OBVIOUS
  <1> HIDE DEF r, n
  <1>3. Waiting(r, g) <=> Waiting(q, g) \/ e.h = g
    BY <1>1, Zenon DEF Waiting
  <1>4. ASSUME e.h = g, e.data = d PROVE LastCarries(r, g, d)
    BY <1>1, <1>2, <1>4, Zenon DEF LastCarries
  <1>5. ASSUME e.h # g PROVE LastCarries(r, g, d) <=> LastCarries(q, g, d)
    BY <1>1, <1>2, <1>5, Zenon DEF LastCarries
  <1> QED
    BY <1>3, <1>4, <1>5, Zenon DEF r

\* When the first call leaves a queue, the last one for each handle stays the
\* last; if none is left for its handle, the first was the last.
LEMMA TailLast ==
  ASSUME NEW q \in Seq(Call), q # <<>>, NEW g, NEW d
  PROVE  /\ Waiting(q, g) <=> Waiting(Tail(q), g) \/ Head(q).h = g
         /\ LastCarries(q, g, d) => LastCarries(Tail(q), g, d)
         /\ LastCarries(q, g, d) /\ Head(q).h = g /\ ~Waiting(Tail(q), g) => Head(q).data = d
  <1> DEFINE r == Tail(q)
             e == Head(q)
  <1>1. /\ DOMAIN r = 1 .. Len(q) - 1 /\ DOMAIN q = 1 .. Len(q) /\ Len(q) \in Nat /\ e = q[1] /\ 1 \in DOMAIN q
        /\ \A i \in DOMAIN r : r[i] = q[i + 1] /\ i + 1 \in DOMAIN q
    BY TailFacts
  <1>2. \A j \in DOMAIN q : j = 1 \/ (j - 1 \in DOMAIN r /\ q[j] = r[j - 1])
    BY <1>1
  <1> HIDE DEF r, e
  <1>3. Waiting(q, g) <=> Waiting(r, g) \/ e.h = g
    BY <1>1, <1>2, Zenon DEF Waiting
  <1>4. ASSUME LastCarries(q, g, d) PROVE LastCarries(r, g, d)
    <2> SUFFICES ASSUME NEW i \in DOMAIN r, r[i].h = g, \A j \in DOMAIN r : j > i => r[j].h # g
                 PROVE  r[i].data = d
      BY Zenon DEF LastCarries
    <2>1. ASSUME NEW j \in DOMAIN q, j > i + 1 PROVE q[j].h # g
      <3>1. j - 1 \in DOMAIN r /\ j - 1 > i /\ q[j] = r[j - 1]
        BY <1>1, <1>2, <2>1
      <3> QED
        BY <3>1, Zenon
    <2> QED
      BY <1>1, <1>4, <2>1, Zenon DEF LastCarries
  <1>5. ASSUME LastCarries(q, g, d), e.h = g, ~Waiting(r, g) PROVE e.data = d
    <2>1. \A j \in DOMAIN q : j > 1 => q[j].h # g
      BY <1>1, <1>2, <1>5 DEF Waiting
    <2> QED
      BY <1>1, <1>2, <1>5, <2>1, Zenon DEF LastCarries
  <1> QED
    BY <1>3, <1>4, <1>5, Zenon DEF r, e

\* A handle waits in a concatenation if it waits in one of its parts.
LEMMA ConcatWaiting ==
  ASSUME NEW p \in Seq(Call), NEW q \in Seq(Call), NEW g
  PROVE  Waiting(p \o q, g) <=> Waiting(p, g) \/ Waiting(q, g)
  <1>1. /\ DOMAIN (p \o q) = 1 .. Len(p) + Len(q) /\ DOMAIN p = 1 .. Len(p) /\ DOMAIN q = 1 .. Len(q)
        /\ Len(p) \in Nat /\ Len(q) \in Nat
        /\ \A i \in 1 .. Len(p) + Len(q) : (p \o q)[i] = IF i <= Len(p) THEN p[i] ELSE q[i - Len(p)]
    OBVIOUS
  <1>2. ASSUME NEW j \in DOMAIN q PROVE j + Len(p) \in DOMAIN (p \o q) /\ (p \o q)[j + Len(p)] = q[j]
    BY <1>1
  <1>3. ASSUME NEW i \in DOMAIN p PROVE i \in DOMAIN (p \o q) /\ (p \o q)[i] = p[i]
    BY <1>1
  <1>4. ASSUME NEW i \in DOMAIN (p \o q), i \notin DOMAIN p
        PROVE  i - Len(p) \in DOMAIN q /\ (p \o q)[i] = q[i - Len(p)]
    BY <1>1, <1>4
  <1> QED
    BY <1>2, <1>3, <1>4, ZenonT(60) DEF Waiting

\* A call of persist() with what is in memory keeps the store catching up.
LEMMA PersistCatchesUp ==
  ASSUME StructureInv, StoreCatchesUp, Serving, NEW h \in Handles, NEW pub \in Public, NEW by \in Slots \cup {None},
         Persist(h, pub, by), users'[h] # None, users'[h].pub = pub, UNCHANGED profile,
         \A g \in Handles \ {h} : users'[g] = users[g], UNCHANGED mode
  PROVE  StoreCatchesUp'
  <1>1. PICK e \in Call : e = [h |-> h, data |-> Strings(pub), by |-> by]
    BY PersistTypes, Zenon DEF StructureInv
  <1>2. sadds' = Append(sadds, e) /\ hsets' = hsets /\ unsaved' = unsaved \ {h} /\ sadds \in Seq(Call) /\ e.h = h
    BY <1>1, Zenon DEF Persist, StructureInv, TypeOK
  <1>3. CaughtUp(h)'
    <2>1. LastCarries(sadds', h, Strings(pub)) /\ Waiting(sadds', h)
      BY <1>1, <1>2, AppendLast, Zenon
    <2> QED
      BY <2>1, ZenonT(60) DEF CaughtUp, LastCarries, Waiting, Strings
  <1>4. ASSUME NEW g \in Handles \ {h}, users'[g] # None PROVE CaughtUp(g)'
    <2>1. CaughtUp(g) /\ users'[g] = users[g] /\ e.h # g
      BY <1>2, <1>4, Zenon DEF StoreCatchesUp, Serving
    <2>2. /\ Waiting(sadds', g) <=> Waiting(sadds, g)
          /\ \A d : LastCarries(sadds', g, d) <=> LastCarries(sadds, g, d)
      BY <1>2, <2>1, AppendLast, Zenon
    <2> QED
      BY <1>2, <2>1, <2>2, Zenon DEF CaughtUp
  <1> QED
    BY <1>3, <1>4, Zenon DEF StoreCatchesUp, Serving

\* Steps that leave memory, the queues and the hashes alone.
LEMMA SameCatchesUp ==
  ASSUME StoreCatchesUp, UNCHANGED <<mode, users, sadds, hsets, unsaved, profile>>
  PROVE  StoreCatchesUp'
  BY Zenon DEF StoreCatchesUp, CaughtUp, Serving

\* A command that Redis executes brings the hash nearer to the Map and never away
\* from it.
LEMMA RedisCatchesUp ==
  ASSUME StructureInv, StoreCatchesUp, Redis
  PROVE  StoreCatchesUp'
  <1>1. sadds \in Seq(Call) /\ hsets \in Seq(Call) /\ UNCHANGED <<mode, users>>
    BY Zenon DEF Redis, RedisSadd, RedisHset, proc, StructureInv, TypeOK
  <1>b. CASE mode = "booting"
    <2>1. \A g \in Handles : users[g] # None /\ g \notin unsaved' => profile'[g] = profile[g] /\ g \notin unsaved
      <3>1. profile \in [Handles -> Profile \cup {None}]
        BY Zenon DEF StructureInv, TypeOK
      <3> QED
        BY <1>b, <3>1, Zenon DEF Redis, RedisSadd, RedisHset
    <2> QED
      BY <1>1, <1>b, <2>1, Zenon DEF StoreCatchesUp, Serving
  <1> SUFFICES ASSUME Serving, NEW g \in Handles, users[g] # None PROVE CaughtUp(g)'
    BY <1>1, <1>b, Zenon DEF StoreCatchesUp, Serving
  <1>u. UNCHANGED unsaved
    BY Zenon DEF Redis, RedisSadd, RedisHset, Serving
  <1>2. CaughtUp(g) /\ users[g].pub \in Public
    BY NewPublic, Zenon DEF StoreCatchesUp, StructureInv
  <1> DEFINE d == Strings(users[g].pub)
  <1>3. CASE RedisSadd
    <2>1. /\ sadds # <<>> /\ sadds' = Tail(sadds) /\ hsets' = Append(hsets, Head(sadds)) /\ UNCHANGED profile
      BY <1>3, Zenon DEF RedisSadd, StructureInv, TypeOK, CallsInv, Serving
    <2>2. PICK e \in Call : e = Head(sadds)
      BY <1>1, <2>1, TailFacts, Zenon
    <2>3. /\ Waiting(sadds, g) <=> Waiting(sadds', g) \/ e.h = g
          /\ LastCarries(sadds, g, d) => LastCarries(sadds', g, d)
          /\ LastCarries(sadds, g, d) /\ e.h = g /\ ~Waiting(sadds', g) => e.data = d
      BY <1>1, <2>1, <2>2, TailLast, Zenon
    <2>4. /\ Waiting(hsets', g) <=> Waiting(hsets, g) \/ e.h = g
          /\ e.h = g /\ e.data = d => LastCarries(hsets', g, d)
          /\ e.h # g => (LastCarries(hsets', g, d) <=> LastCarries(hsets, g, d))
      BY <1>1, <2>1, <2>2, AppendLast, Zenon
    <2> QED
      BY <1>1, <1>u, <1>2, <2>1, <2>3, <2>4, Zenon DEF CaughtUp
  <1>4. CASE RedisHset
    <2>1. /\ hsets # <<>> /\ hsets' = Tail(hsets) /\ UNCHANGED sadds
          /\ profile' = [profile EXCEPT ![Head(hsets).h] = Head(hsets).data]
      BY <1>4, Zenon DEF RedisHset
    <2>2. PICK e \in Call : e = Head(hsets)
      BY <1>1, <2>1, TailFacts, Zenon
    <2>3. /\ Waiting(hsets, g) <=> Waiting(hsets', g) \/ e.h = g
          /\ LastCarries(hsets, g, d) => LastCarries(hsets', g, d)
          /\ LastCarries(hsets, g, d) /\ e.h = g /\ ~Waiting(hsets', g) => e.data = d
      BY <1>1, <2>1, <2>2, TailLast, Zenon
    <2>4. profile'[g] = IF e.h = g THEN e.data ELSE profile[g]
      BY <2>1, <2>2, Zenon DEF StructureInv, TypeOK
    <2>5. Hydrate(d) = users[g].pub
      BY <1>2, ConversionFacts, Zenon
    <2> QED
      BY <1>1, <1>u, <1>2, <2>1, <2>3, <2>4, <2>5, Zenon DEF CaughtUp
  <1> QED
    BY <1>3, <1>4, Zenon DEF Redis

\* A refused command marks its handle as unsaved, so that nothing is promised of it.
LEMMA RefusedCatchesUp ==
  ASSUME StructureInv, StoreCatchesUp, SaddRefused \/ HsetRefused
  PROVE  StoreCatchesUp'
  <1>1. sadds \in Seq(Call) /\ hsets \in Seq(Call) /\ Serving /\ UNCHANGED <<mode, users, profile>>
    BY Zenon DEF SaddRefused, HsetRefused, Rejected, proc, redis, StructureInv, TypeOK
  <1> SUFFICES ASSUME NEW g \in Handles, users[g] # None PROVE CaughtUp(g)'
    BY <1>1, Zenon DEF StoreCatchesUp, Serving
  <1>2. CaughtUp(g)
    BY <1>1, Zenon DEF StoreCatchesUp, Serving
  <1> DEFINE d == Strings(users[g].pub)
  <1>3. CASE SaddRefused
    <2>1. /\ sadds # <<>> /\ sadds' = Tail(sadds) /\ UNCHANGED hsets
          /\ unsaved' = IF Waiting(Tail(sadds), Head(sadds).h) THEN unsaved ELSE unsaved \cup {Head(sadds).h}
      BY <1>3, Zenon DEF SaddRefused
    <2>2. /\ Waiting(sadds, g) <=> Waiting(sadds', g) \/ Head(sadds).h = g
          /\ LastCarries(sadds, g, d) => LastCarries(sadds', g, d)
      BY <1>1, <2>1, TailLast, Zenon
    <2> QED
      BY <1>1, <1>2, <2>1, <2>2, Zenon DEF CaughtUp
  <1>4. CASE HsetRefused
    <2>1. /\ hsets # <<>> /\ hsets' = Tail(hsets) /\ UNCHANGED sadds
          /\ unsaved' = IF Waiting(Tail(hsets) \o sadds, Head(hsets).h) THEN unsaved ELSE unsaved \cup {Head(hsets).h}
      BY <1>4, Zenon DEF HsetRefused
    <2>2. /\ Waiting(hsets, g) <=> Waiting(hsets', g) \/ Head(hsets).h = g
          /\ LastCarries(hsets, g, d) => LastCarries(hsets', g, d)
      BY <1>1, <2>1, TailLast, Zenon
    <2>3. Waiting(Tail(hsets) \o sadds, g) <=> Waiting(hsets', g) \/ Waiting(sadds, g)
      BY <1>1, <2>1, TailFacts, ConcatWaiting, Zenon
    <2> QED
      BY <1>1, <1>2, <2>1, <2>2, <2>3, Zenon DEF CaughtUp
  <1> QED
    BY <1>3, <1>4, Zenon

\* A request that changes the Map issues a persist call with the new value.
LEMMA RequestsCatchUp ==
  ASSUME StructureInv, StoreCatchesUp, Requests
  PROVE  StoreCatchesUp'
  <1> USE DEF redis, calls, proc
  <1> PICK h \in Handles :
        \/ WalletOfKnown(h)
        \/ \E on \in BOOLEAN : ToggleAuto(h, on)
        \/ \E level \in Risks : SetRisk(h, level)
        \/ PreferenceThrows(h)
        \/ \E s \in Slots :
             \/ \E kind \in {"walletOf", "balanceOf"} \cup Refreshes : NewUser(s, h, kind)
             \/ \E kind \in Refreshes : RefreshKnown(s, h, kind)
             \/ \E w \in Watchers : OnAccountChange(s, h, w)
    BY Zenon DEF Requests
  <1>1. CASE WalletOfKnown(h)
    BY <1>1, SameCatchesUp, Zenon DEF WalletOfKnown, proc
  <1>2. CASE PreferenceThrows(h)
    BY <1>2, Zenon DEF PreferenceThrows, Exit, StoreCatchesUp, Serving
  <1>3. ASSUME NEW pub \in Public, Serving, users[h] # None, SetPublic(h, pub) PROVE StoreCatchesUp'
    <2>1. /\ users'[h] # None /\ users'[h].pub = pub
          /\ \A g \in Handles \ {h} : users'[g] = users[g]
      BY <1>3, PublicChange, Zenon DEF SetPublic, StructureInv
    <2> QED
      BY <1>3, <2>1, PersistCatchesUp, Zenon DEF SetPublic
  <1>4. CASE (\E on \in BOOLEAN : ToggleAuto(h, on)) \/ (\E level \in Risks : SetRisk(h, level))
    BY <1>3, <1>4, NewPublic, Zenon DEF ToggleAuto, SetRisk, StructureInv
  <1>5. ASSUME NEW s \in Slots, NEW kind, NewUser(s, h, kind) PROVE StoreCatchesUp'
    <2>1. PICK k \in Keys : users' = [users EXCEPT ![h] = [wallet |-> k, pub |-> Defaults]]
      BY <1>5, Zenon DEF NewUser
    <2>2. [wallet |-> k, pub |-> Defaults] \in User /\ Defaults \in Public
      BY ConversionFacts, Zenon DEF User
    <2>3. /\ users'[h] # None /\ users'[h].pub = Defaults
          /\ \A g \in Handles \ {h} : users'[g] = users[g]
      BY <2>1, <2>2, Zenon DEF StructureInv, TypeOK
    <2> QED
      BY <1>5, <2>2, <2>3, PersistCatchesUp, Zenon DEF NewUser, Free
  <1>6. ASSUME NEW s \in Slots, (\E kind \in Refreshes : RefreshKnown(s, h, kind)) \/ (\E w \in Watchers : OnAccountChange(s, h, w))
        PROVE  StoreCatchesUp'
    BY <1>6, SameCatchesUp, Zenon DEF RefreshKnown, OnAccountChange, Free, Serving
  <1> QED
    BY <1>1, <1>2, <1>4, <1>5, <1>6, Zenon

\* StoreCatchesUp is inductive relative to StructureInv.
LEMMA CatchUpStep == StructureInv /\ StoreCatchesUp /\ [Next]_vars => StoreCatchesUp'
  <1> SUFFICES ASSUME StructureInv, StoreCatchesUp, [Next]_vars PROVE StoreCatchesUp'
    BY Zenon
  <1> USE DEF redis, calls, proc
  <1>1. CASE mode' = "down"
    BY <1>1, Zenon DEF StoreCatchesUp, Serving
  <1>2. CASE Start
    BY <1>2, Zenon DEF Start, StoreCatchesUp, StructureInv, TasksInv
  <1>3. ASSUME NEW h \in Handles, SkipUser(h) PROVE StoreCatchesUp'
    BY <1>3, SameCatchesUp, Zenon DEF SkipUser
  <1>w. CASE WatchDeposits
    <2>1. mode = "booting" /\ mode' = "serving" /\ sadds' = <<>> /\ hsets' = <<>> /\ UNCHANGED <<users, unsaved, profile>>
      BY <1>w, Zenon DEF WatchDeposits
    <2>2. \A g, d : LastCarries(sadds', g, d) /\ LastCarries(hsets', g, d)
      BY <2>1 DEF LastCarries
    <2> QED
      BY <2>1, <2>2, Zenon DEF StoreCatchesUp, CaughtUp
  <1>4. ASSUME NEW h \in Handles, HydrateUser(h) PROVE StoreCatchesUp'
    <2>1. /\ mode = "booting" /\ UNCHANGED <<mode, unsaved, profile>>
          /\ users' = [users EXCEPT ![h] = [wallet |-> wallet[h].key, pub |-> Hydrate(profile[h])]]
      BY <1>4, Zenon DEF HydrateUser
    <2>2. users'[h].pub = Hydrate(profile[h]) /\ \A g \in Handles \ {h} : users'[g] = users[g]
      <3>1. users \in [Handles -> User \cup {None}]
        BY Zenon DEF StructureInv, TypeOK
      <3> QED
        BY <2>1, <3>1, Zenon
    <2> QED
      BY <2>1, <2>2, Zenon DEF StoreCatchesUp, Serving
  <1>5. ASSUME NEW h \in Handles, HydrateThrows(h) PROVE StoreCatchesUp'
    BY <1>1, <1>5, Zenon DEF HydrateThrows, Exit
  <1>6. CASE Rpc
    <2> PICK s \in Slots : GetBalance(s) \/ GetTokenAccount(s) \/ Apply(s)
      BY <1>6, Zenon DEF Rpc
    <2>1. tasks[s] \in Task /\ tasks[s].h \in Handles /\ users[tasks[s].h] # None /\ Serving
      <3>1. Serving /\ tasks[s] # None
        BY Zenon DEF GetBalance, GetTokenAccount, Apply, In, StructureInv, TasksInv, Serving
      <3> QED
        BY <3>1, Zenon DEF StructureInv, TypeOK, TasksInv, Task
    <2>2. CASE GetBalance(s) \/ GetTokenAccount(s)
      BY <2>2, SameCatchesUp, Zenon DEF GetBalance, GetTokenAccount
    <2>3. CASE Apply(s)
      <3>1. PICK h \in Handles, pub \in Public :
              /\ users[h] # None /\ users' = [users EXCEPT ![h].pub = pub] /\ Persist(h, pub, s) /\ UNCHANGED <<mode, profile>>
        BY <2>1, <2>3, NewPublic, Zenon DEF Apply, StructureInv
      <3>2. /\ users'[h] # None /\ users'[h].pub = pub
            /\ \A g \in Handles \ {h} : users'[g] = users[g]
        BY <3>1, PublicChange, Zenon DEF StructureInv
      <3> QED
        BY <2>1, <3>1, <3>2, PersistCatchesUp, Zenon
    <2> QED
      BY <2>2, <2>3, Zenon
  <1>7. CASE Failures
    <2>1. ASSUME NEW s \in Slots, RpcErrorCaught(s) PROVE StoreCatchesUp'
      BY <2>1, SameCatchesUp, Zenon DEF RpcErrorCaught, proc
    <2> QED
      BY <1>1, <1>7, <2>1, RefusedCatchesUp, Zenon
      DEF Failures, Kill, RiskTextThrows, StoreErrorThrows, RpcErrorThrows, Exit
  <1>8. CASE UNCHANGED vars \/ \E k \in minted, bal \in Balance : ChainChange(k, bal)
    <2>1. UNCHANGED <<mode, users, sadds, hsets, unsaved, profile>>
      BY <1>8, Zenon DEF vars, ChainChange, proc
    <2> QED
      BY <2>1, SameCatchesUp, Zenon
  <1> QED
    BY <1>2, <1>3, <1>w, <1>4, <1>5, <1>6, <1>7, <1>8, RequestsCatchUp, RedisCatchesUp, Zenon DEF Next, Boot

\* The store catches up with memory: for any number of concurrent calls, the last
\* persist() under way carries what the Map holds, and when none is under way the
\* hash reads back as what the Map holds.
THEOREM CatchUp == Spec => []StoreCatchesUp
  <1>1. Init => StoreCatchesUp
    BY Zenon DEF Init, StoreCatchesUp
  <1> QED
    BY <1>1, InitStructure, StructureStep, CatchUpStep, PTL DEF Spec

-----------------------------------------------------------------------------
(* Auto-sells *)

\* The counters are numbers.
LEMMA CountTypes ==
  ASSUME NEW h \in Handles
  PROVE  /\ TypeOK => /\ sells \in [Handles -> Nat] /\ notices \in [Handles -> [Watchers -> Nat]]
                     /\ sells[h] \in Nat /\ notices[h]["sol"] \in Nat /\ notices[h]["tierBal"] \in Nat
                     /\ changes \in Nat
         /\ TypeOK' => /\ sells'[h] \in Nat /\ notices'[h]["sol"] \in Nat /\ notices'[h]["tierBal"] \in Nat
                      /\ changes' \in Nat
  <1>1. \A f \in [Handles -> [Watchers -> Nat]] : f[h]["sol"] \in Nat /\ f[h]["tierBal"] \in Nat
    BY DEF Watchers
  <1> QED
    BY <1>1, Zenon DEF TypeOK

\* The runs of the two watchers of a handle that are in progress.
Runs(h) == {s \in Slots : tasks[s] # None /\ tasks[s].kind \in Watchers /\ tasks[s].h = h}

\* A set with no more than m elements.
AtMost(S, m) == \E f \in [S -> 1..m] : \A x, y \in S : f[x] = f[y] => x = y

\* Adding an element, taking one out, and parts of a set.
LEMMA AtMostFacts ==
  ASSUME NEW S, NEW m \in Nat, AtMost(S, m)
  PROVE  /\ \A T \in SUBSET S : AtMost(T, m)
         /\ \A x : AtMost(S \cup {x}, m + 1)
         /\ \A x \in S : m > 0 /\ AtMost(S \ {x}, m - 1)
  <1>1. PICK f \in [S -> 1..m] : \A x, y \in S : f[x] = f[y] => x = y
    BY Zenon DEF AtMost
  <1>2. ASSUME NEW T \in SUBSET S PROVE AtMost(T, m)
    <2> DEFINE g == [t \in T |-> f[t]]
    <2>1. g \in [T -> 1..m] /\ \A x, y \in T : g[x] = g[y] => x = y
      BY <1>1, Zenon
    <2> QED
      BY <2>1, Zenon DEF AtMost
  <1>3. ASSUME NEW x PROVE AtMost(S \cup {x}, m + 1)
    <2> DEFINE g == [t \in S \cup {x} |-> IF t \in S THEN f[t] ELSE m + 1]
    <2>1. g \in [S \cup {x} -> 1..m + 1]
      BY <1>1
    <2>2. \A y, z \in S \cup {x} : g[y] = g[z] => y = z
      BY <1>1
    <2> HIDE DEF g
    <2> QED
      BY <2>1, <2>2, Zenon DEF AtMost
  <1>4. ASSUME NEW x \in S PROVE m > 0 /\ AtMost(S \ {x}, m - 1)
    <2> DEFINE g == [t \in S \ {x} |-> IF f[t] = m THEN f[x] ELSE f[t]]
    <2>1. m > 0
      BY <1>1
    <2>2. g \in [S \ {x} -> 1..m - 1]
      BY <1>1
    <2>3. \A y, z \in S \ {x} : g[y] = g[z] => y = z
      BY <1>1
    <2> HIDE DEF g
    <2> QED
      BY <2>1, <2>2, <2>3, Zenon DEF AtMost
  <1> QED
    BY <1>2, <1>3, <1>4, Zenon

\* The empty set has none.
LEMMA NoElement == AtMost({}, 0)
  <1> DEFINE f == [x \in {} |-> 0]
  <1>1. f \in [{} -> 1..0] /\ \A x, y \in {} : f[x] = f[y] => x = y
    BY Zenon
  <1> QED
    BY <1>1, Zenon DEF AtMost

\* Every change on the chain pays for two auto-sells: one is queued, its watcher
\* runs, its notification waits, or it was given up.
Paid(h, m) ==
  AtMost(Runs(h), m) /\ sells[h] + notices[h]["sol"] + notices[h]["tierBal"] + m <= 2 * changes

SellsInv == \A h \in Handles : \E m \in Nat : Paid(h, m)

\* The kinds of steps: one that starts no run and sells nothing, the end of the
\* process, a watcher that starts, a change on the chain, and a watcher that sells.
Quiet ==
  UNCHANGED <<sells, notices, changes>> /\ \A h \in Handles : Runs(h)' \subseteq Runs(h)
Ends ==
  /\ changes' = changes
  /\ \A h \in Handles : sells'[h] = 0 /\ Runs(h)' = {} /\ \A w \in Watchers : notices'[h][w] = 0
Starts(g, w, s) ==
  /\ UNCHANGED <<sells, changes>>
  /\ notices[g][w] > 0 /\ notices' = [notices EXCEPT ![g][w] = @ - 1]
  /\ Runs(g)' = Runs(g) \cup {s} /\ \A h \in Handles \ {g} : Runs(h)' = Runs(h)
Changes ==
  /\ sells' = sells /\ changes' = changes + 1
  /\ \A h \in Handles : Runs(h)' = Runs(h) /\ \A w \in Watchers : notices'[h][w] <= notices[h][w] + 1
Sells(g, s) ==
  /\ UNCHANGED <<notices, changes>>
  /\ sells' = [sells EXCEPT ![g] = @ + 1]
  /\ s \in Runs(g) /\ Runs(g)' = Runs(g) \ {s} /\ \A h \in Handles \ {g} : Runs(h)' = Runs(h)

\* A step that replaces the call of one slot by one that is not a run of a
\* watcher, or is the same run.
LEMMA RunReplaced ==
  ASSUME TypeOK, NEW s \in Slots, NEW t, tasks' = [tasks EXCEPT ![s] = t],
         t # None => \/ t.kind \notin Watchers
                     \/ tasks[s] # None /\ t.kind = tasks[s].kind /\ t.h = tasks[s].h,
         UNCHANGED <<sells, notices, changes>>
  PROVE  Quiet
  BY Zenon DEF TypeOK, Quiet, Runs

\* A watcher that was told of a balance change starts in a free slot.
LEMMA RunStarts ==
  ASSUME TypeOK, NEW s \in Slots, NEW g \in Handles, NEW w \in Watchers, OnAccountChange(s, g, w)
  PROVE  Starts(g, w, s)
  <1>1. /\ tasks[s] = None /\ notices[g][w] > 0 /\ tasks' = [tasks EXCEPT ![s] = NewTask(w, g, "readSol")]
        /\ notices' = [notices EXCEPT ![g][w] = @ - 1] /\ UNCHANGED <<sells, changes>>
    BY Zenon DEF OnAccountChange, Free
  <1> DEFINE t == NewTask(w, g, "readSol")
  <1>2. t \in Task /\ t # None /\ t.kind = w /\ t.h = g
    <2>1. t \in Task
      BY Zenon DEF NewTask, Task, Kinds
    <2>2. t.kind = w /\ t.h = g
      BY Zenon DEF NewTask
    <2> HIDE DEF t
    <2> QED
      BY <2>1, <2>2, Zenon
  <1> HIDE DEF t
  <1>3. tasks'[s] = t /\ \A r \in Slots \ {s} : tasks'[r] = tasks[r]
    BY <1>1, Zenon DEF TypeOK, t
  <1>4. Runs(g)' = Runs(g) \cup {s}
    BY <1>1, <1>2, <1>3, Zenon DEF Runs
  <1>5. \A h \in Handles \ {g} : Runs(h)' = Runs(h)
    BY <1>1, <1>2, <1>3, Zenon DEF Runs
  <1> QED
    BY <1>1, <1>4, <1>5, Zenon DEF Starts

\* A call that goes on after its persist call: if it sells it is a watcher, and
\* its run ends with that.
LEMMA RunResumes ==
  ASSUME StructureInv, RedisHset PROVE Quiet \/ \E g \in Handles, s \in Slots : Sells(g, s)
  <1>1. UNCHANGED <<notices, changes>>
    BY Zenon DEF RedisHset, solana
  <1>2. CASE UNCHANGED <<tasks, sells>>
    BY <1>1, <1>2, Zenon DEF Quiet, Runs
  <1>3. CASE Serving /\ Head(hsets).by # None /\ Resume(Head(hsets).by)
    <2>1. PICK e \in Call : e = Head(hsets) /\ e = hsets[1] /\ 1 \in DOMAIN hsets
      BY TailFacts, Zenon DEF RedisHset, StructureInv, TypeOK
    <2>2. PICK s \in Slots : s = e.by
      BY <1>3, <2>1, Zenon DEF Call
    <2>3. Resume(s) /\ tasks[s] \in Task /\ tasks[s] # None /\ tasks[s].h \in Handles
      <3>1. Resume(s) /\ s # None
        BY <1>3, <2>1, <2>2, Zenon
      <3>2. Awaits(e)
        BY <1>3, <2>1, Zenon DEF StructureInv, CallsInv
      <3>3. tasks[s] # None
        BY <3>1, <3>2, <2>2, Zenon DEF Awaits
      <3> QED
        BY <3>1, <3>3, Zenon DEF StructureInv, TypeOK, Task
    <2> DEFINE t == tasks[s]
               r == IF t.phase = "ensure" /\ t.kind \in {"refresh", "aiRefresh"}
                    THEN [t EXCEPT !.phase = "readSol"] ELSE None
    <2>4. tasks' = [tasks EXCEPT ![s] = r]
      BY <2>3, Zenon DEF Resume
    <2>5. r # None => r.kind = t.kind /\ r.kind \notin Watchers /\ r.h = t.h
      BY <2>3, Zenon DEF Task, Watchers
    <2>6. CASE ~AutoSells(s)
      <3>1. sells' = sells
        BY <2>3, <2>6, Zenon DEF Resume
      <3> HIDE DEF r
      <3> QED
        BY <1>1, <2>3, <2>4, <2>5, <3>1, RunReplaced, Zenon DEF StructureInv
    <2>7. CASE AutoSells(s)
      <3>1. PICK g \in Handles : g = t.h
        BY <2>3, Zenon
      <3>2. sells' = [sells EXCEPT ![g] = @ + 1] /\ t.kind \in Watchers
        BY <2>3, <2>7, <3>1, Zenon DEF Resume, AutoSells
      <3>3. r = None
        BY <3>2, Zenon DEF Watchers
      <3>4. tasks'[s] = None /\ \A q \in Slots \ {s} : tasks'[q] = tasks[q]
        BY <2>4, <3>3, Zenon DEF StructureInv, TypeOK
      <3>5. s \in Runs(g)
        BY <2>3, <3>1, <3>2, Zenon DEF Runs
      <3>6. Runs(g)' = Runs(g) \ {s}
        BY <3>4, Zenon DEF Runs
      <3>7. \A h \in Handles \ {g} : Runs(h)' = Runs(h)
        BY <2>3, <3>1, <3>4, Zenon DEF Runs
      <3>8. Sells(g, s)
        BY <1>1, <3>2, <3>5, <3>6, <3>7, Zenon DEF Sells
      <3> QED
        BY <3>8, Zenon
    <2> QED
      BY <2>6, <2>7, Zenon
  <1> QED
    BY <1>2, <1>3, Zenon DEF RedisHset

\* Every step is of one of these kinds.
LEMMA SellSteps ==
  ASSUME StructureInv, [Next]_vars
  PROVE  \/ Quiet \/ Ends \/ Changes
         \/ \E g \in Handles, w \in Watchers, s \in Slots : Starts(g, w, s)
         \/ \E g \in Handles, s \in Slots : Sells(g, s)
  <1> USE DEF solana, proc, redis, ghosts, calls
  <1>1. ASSUME UNCHANGED <<tasks, sells, notices, changes>> PROVE Quiet
    BY <1>1, Zenon DEF Quiet, Runs
  <1>2. ASSUME NEW why, Exit(why), changes' = changes PROVE Ends
    BY <1>2, Zenon DEF Exit, Ends, Runs
  <1>3. CASE Boot
    BY <1>1, <1>2, <1>3, Zenon DEF Boot, Start, WatchDeposits, HydrateUser, SkipUser, HydrateThrows
  <1>4. ASSUME NEW h \in Handles,
               \/ WalletOfKnown(h) \/ PreferenceThrows(h)
               \/ \E on \in BOOLEAN : ToggleAuto(h, on)
               \/ \E level \in Risks : SetRisk(h, level)
        PROVE  Quiet \/ Ends
    BY <1>1, <1>2, <1>4, Zenon
    DEF WalletOfKnown, PreferenceThrows, ToggleAuto, SetRisk, SetPublic, vars
  <1>5. ASSUME NEW h \in Handles, NEW s \in Slots, NEW phase,
               NEW kind \in {"walletOf", "balanceOf"} \cup Refreshes,
               tasks' = [tasks EXCEPT ![s] = NewTask(kind, h, phase)], UNCHANGED <<sells, notices, changes>>
        PROVE  Quiet
    <2>1. NewTask(kind, h, phase).kind \notin Watchers
      BY Zenon DEF NewTask, Refreshes, Watchers
    <2> QED
      BY <1>5, <2>1, RunReplaced, Zenon DEF StructureInv
  <1>6. CASE Requests
    <2>1. ASSUME NEW h \in Handles, NEW s \in Slots, NEW kind \in {"walletOf", "balanceOf"} \cup Refreshes,
                 NewUser(s, h, kind)
          PROVE  Quiet
      BY <1>5, <2>1, Zenon DEF NewUser
    <2>2. ASSUME NEW h \in Handles, NEW s \in Slots, NEW kind \in Refreshes, RefreshKnown(s, h, kind)
          PROVE  Quiet
      BY <1>5, <2>2, Zenon DEF RefreshKnown
    <2> QED
      BY <1>4, <1>6, <2>1, <2>2, RunStarts, Zenon DEF Requests, StructureInv
  <1>7. ASSUME NEW s \in Slots, GetBalance(s) \/ GetTokenAccount(s) \/ Apply(s) \/ RpcErrorCaught(s)
        PROVE  Quiet
    <2>1. tasks[s] \in Task /\ tasks \in [Slots -> Task \cup {None}]
      BY <1>7, Zenon DEF GetBalance, GetTokenAccount, Apply, RpcErrorCaught, In, StructureInv, TypeOK
    <2>2. UNCHANGED <<sells, notices, changes>>
      BY <1>7, Zenon DEF GetBalance, GetTokenAccount, Apply, RpcErrorCaught
    <2>3. \A r \in Slots \ {s} : tasks'[r] = tasks[r]
      BY <1>7, <2>1, Zenon DEF GetBalance, GetTokenAccount, Apply, RpcErrorCaught
    <2>4. tasks'[s] # None => tasks'[s].kind = tasks[s].kind /\ tasks'[s].h = tasks[s].h
      <3>1. CASE GetBalance(s)
        BY <2>1, <3>1, Zenon DEF GetBalance, Task
      <3>2. CASE GetTokenAccount(s)
        BY <2>1, <3>2, Zenon DEF GetTokenAccount, Task
      <3>3. CASE Apply(s)
        BY <2>1, <3>3, Zenon DEF Apply, Task
      <3>4. CASE RpcErrorCaught(s)
        BY <2>1, <3>4, Zenon DEF RpcErrorCaught
      <3> QED
        BY <1>7, <3>1, <3>2, <3>3, <3>4, Zenon
    <2> QED
      BY <2>1, <2>2, <2>3, <2>4, Zenon DEF Quiet, Runs
  <1>8. CASE Rpc
    BY <1>7, <1>8, Zenon DEF Rpc
  <1>9. CASE Redis
    BY <1>1, <1>9, RunResumes, Zenon DEF Redis, RedisSadd
  <1>10. ASSUME NEW e \in Call, Rejected(e) PROVE Quiet
    <2>1. e.by \in Slots
      BY <1>10, Zenon DEF Rejected, Caught, Call
    <2> QED
      BY <1>10, <2>1, RunReplaced, Zenon DEF Rejected, StructureInv
  <1>11. CASE Failures
    BY <1>2, <1>7, <1>10, <1>11, QueueFacts, Zenon
    DEF Failures, Kill, RiskTextThrows, SaddRefused, HsetRefused, StoreErrorThrows, RpcErrorThrows
  <1>12. ASSUME NEW k \in minted, NEW bal \in Balance, ChainChange(k, bal) PROVE Changes
    <2>1. \A h \in Handles, w \in Watchers : notices'[h][w] <= notices[h][w] + 1
      BY <1>12 DEF ChainChange, StructureInv, TypeOK
    <2> QED
      BY <1>12, <2>1, Zenon DEF ChainChange, Changes, Runs
  <1> QED
    BY <1>1, <1>3, <1>6, <1>8, <1>9, <1>11, <1>12, Zenon DEF Next, vars

\* None of them makes more auto-sells than the changes pay for.
LEMMA SellsStep == StructureInv /\ SellsInv /\ [Next]_vars => SellsInv'
  <1> SUFFICES ASSUME StructureInv, SellsInv, [Next]_vars, NEW h \in Handles
               PROVE  \E n \in Nat : Paid(h, n)'
    BY Zenon DEF SellsInv
  <1>1. PICK m \in Nat : Paid(h, m)
    BY Zenon DEF SellsInv
  <1>2. /\ AtMost(Runs(h), m)
        /\ sells[h] + notices[h]["sol"] + notices[h]["tierBal"] + m <= 2 * changes
    BY <1>1, Zenon DEF Paid
  <1>3. /\ sells \in [Handles -> Nat] /\ notices \in [Handles -> [Watchers -> Nat]]
        /\ sells[h] \in Nat /\ notices[h]["sol"] \in Nat /\ notices[h]["tierBal"] \in Nat /\ changes \in Nat
    BY CountTypes, Zenon DEF StructureInv
  <1>4. /\ sells'[h] \in Nat /\ notices'[h]["sol"] \in Nat /\ notices'[h]["tierBal"] \in Nat /\ changes' \in Nat
    BY StructureStep, CountTypes, Zenon DEF StructureInv
  <1>5. ASSUME NEW n \in Nat, AtMost(Runs(h)', n),
               sells'[h] + notices'[h]["sol"] + notices'[h]["tierBal"] + n <= 2 * changes'
        PROVE  \E i \in Nat : Paid(h, i)'
    BY <1>5, Zenon DEF Paid, AtMost
  <1>6. CASE Quiet
    <2>1. Runs(h)' \in SUBSET Runs(h) /\ UNCHANGED <<sells, notices, changes>>
      BY <1>6, Zenon DEF Quiet
    <2>2. AtMost(Runs(h)', m)
      BY <1>2, <2>1, AtMostFacts, Zenon
    <2> QED
      BY <1>2, <1>5, <2>1, <2>2, Zenon
  <1>7. CASE Ends
    <2>1. /\ Runs(h)' = {} /\ sells'[h] = 0 /\ changes' = changes
          /\ notices'[h]["sol"] = 0 /\ notices'[h]["tierBal"] = 0
      BY <1>7, Zenon DEF Ends, Watchers
    <2>2. AtMost(Runs(h)', 0)
      BY <2>1, NoElement, Zenon
    <2>3. sells'[h] + notices'[h]["sol"] + notices'[h]["tierBal"] + 0 <= 2 * changes'
      BY <1>3, <2>1
    <2> QED
      BY <1>5, <2>2, <2>3, 0 \in Nat, Zenon
  <1>8. CASE Changes
    <2>1. /\ Runs(h)' = Runs(h) /\ sells' = sells /\ changes' = changes + 1
          /\ notices'[h]["sol"] <= notices[h]["sol"] + 1 /\ notices'[h]["tierBal"] <= notices[h]["tierBal"] + 1
      BY <1>8, Zenon DEF Changes, Watchers
    <2>2. sells'[h] + notices'[h]["sol"] + notices'[h]["tierBal"] + m <= 2 * changes'
      BY <1>2, <1>3, <1>4, <2>1
    <2> QED
      BY <1>2, <1>5, <2>1, <2>2, Zenon
  <1>9. ASSUME NEW g \in Handles, NEW w \in Watchers, NEW s \in Slots, Starts(g, w, s)
        PROVE  \E n \in Nat : Paid(h, n)'
    <2>1. sells' = sells /\ changes' = changes
      BY <1>9, Zenon DEF Starts
    <2>2. CASE g = h
      <3>1. Runs(h)' = Runs(h) \cup {s}
        BY <1>9, <2>2, Zenon DEF Starts
      <3>2. AtMost(Runs(h)', m + 1)
        <4>1. AtMost(Runs(h) \cup {s}, m + 1)
          BY <1>2, AtMostFacts, Zenon
        <4> QED
          BY <3>1, <4>1, Zenon
      <3>3. notices'[h]["sol"] + notices'[h]["tierBal"] = notices[h]["sol"] + notices[h]["tierBal"] - 1
        BY <1>3, <1>9, <2>2 DEF Starts, Watchers
      <3>4. m + 1 \in Nat /\ sells'[h] + notices'[h]["sol"] + notices'[h]["tierBal"] + (m + 1) <= 2 * changes'
        BY <1>2, <1>3, <1>4, <2>1, <3>3
      <3> QED
        BY <1>5, <3>2, <3>4, Zenon
    <2>3. CASE g # h
      <3>1. Runs(h)' = Runs(h) /\ notices'[h] = notices[h]
        BY <1>3, <1>9, <2>3, Zenon DEF Starts
      <3> QED
        BY <1>2, <1>5, <2>1, <3>1, Zenon
    <2> QED
      BY <2>2, <2>3, Zenon
  <1>10. ASSUME NEW g \in Handles, NEW s \in Slots, Sells(g, s) PROVE \E n \in Nat : Paid(h, n)'
    <2>1. notices' = notices /\ changes' = changes
      BY <1>10, Zenon DEF Sells
    <2>2. CASE g = h
      <3>1. s \in Runs(h) /\ Runs(h)' = Runs(h) \ {s} /\ sells'[h] = sells[h] + 1
        BY <1>3, <1>10, <2>2, Zenon DEF Sells
      <3>2. m > 0 /\ AtMost(Runs(h)', m - 1)
        <4>1. m > 0 /\ AtMost(Runs(h) \ {s}, m - 1)
          BY <1>2, <3>1, AtMostFacts, Zenon
        <4> QED
          BY <3>1, <4>1, Zenon
      <3>3. m - 1 \in Nat /\ sells'[h] + notices'[h]["sol"] + notices'[h]["tierBal"] + (m - 1) <= 2 * changes'
        BY <1>2, <1>3, <2>1, <3>1, <3>2
      <3> QED
        BY <1>5, <3>2, <3>3, Zenon
    <2>3. CASE g # h
      <3>1. Runs(h)' = Runs(h) /\ sells'[h] = sells[h]
        BY <1>3, <1>10, <2>3, Zenon DEF Sells
      <3> QED
        BY <1>2, <1>5, <2>1, <3>1, Zenon
    <2> QED
      BY <2>2, <2>3, Zenon
  <1> QED
    BY <1>6, <1>7, <1>8, <1>9, <1>10, SellSteps, Zenon

\* However many notifications, watchers and requests of a user are under way at a
\* time, a balance change on the chain makes the agent queue two auto-sells of that
\* user at most (commands.js:121-136).
THEOREM AutoSellsBounded == Spec => []AutoSellsPerChange
  <1>1. Init => SellsInv
    <2> SUFFICES ASSUME Init, NEW h \in Handles PROVE Paid(h, 0)
      BY 0 \in Nat, Zenon DEF SellsInv
    <2>1. AtMost(Runs(h), 0)
      <3>1. Runs(h) = {}
        BY Zenon DEF Init, Runs
      <3> QED
        BY <3>1, NoElement, Zenon
    <2>2. sells[h] = 0 /\ notices[h]["sol"] = 0 /\ notices[h]["tierBal"] = 0 /\ changes = 0
      BY Zenon DEF Init, Watchers
    <2> QED
      BY <2>1, <2>2 DEF Paid
  <1>2. StructureInv /\ SellsInv => AutoSellsPerChange
    <2> SUFFICES ASSUME StructureInv, SellsInv, NEW h \in Handles PROVE sells[h] <= 2 * changes
      BY Zenon DEF AutoSellsPerChange
    <2>1. PICK m \in Nat : sells[h] + notices[h]["sol"] + notices[h]["tierBal"] + m <= 2 * changes
      BY Zenon DEF SellsInv, Paid
    <2>2. sells[h] \in Nat /\ notices[h]["sol"] \in Nat /\ notices[h]["tierBal"] \in Nat /\ changes \in Nat
      BY CountTypes, Zenon DEF StructureInv
    <2> QED
      BY <2>1, <2>2
  <1> QED
    BY <1>1, <1>2, InitStructure, StructureStep, SellsStep, PTL DEF Spec

-----------------------------------------------------------------------------
(* CallsEnd, without its fairness *)

\* Call s waits for persist(), and one of the persist calls under way is its own.
Suspended(s) == tasks[s] # None /\ tasks[s].phase \in {"ensure", "persist"}
By(q, s)     == \E i \in DOMAIN q : q[i].by = s
Answered(s)  == By(sadds, s) \/ By(hsets, s)

\* No call waits for an answer that is not to come.
AnswersDue == \A s \in Slots : Suspended(s) => Answered(s)

\* How many awaits are left in a call, at most.
AwaitsLeft(phase) ==
  CASE phase = "ensure" -> 5 [] phase = "readSol" -> 4 [] phase = "readTier" -> 3 [] phase = "apply" -> 2 [] OTHER -> 1

\* A call that changes ends or has fewer awaits left.
CallsGoOn ==
  [][\A s \in Slots : tasks[s] # None /\ tasks'[s] # tasks[s] =>
       tasks'[s] = None \/ AwaitsLeft(tasks'[s].phase) < AwaitsLeft(tasks[s].phase)]_vars

\* What a step does to call x: it ends it, leaves it alone with its persist call,
\* or begins it or takes it on, with a persist call of its own if it waits for one.
Onward(x) ==
  \/ tasks'[x] = None
  \/ tasks'[x] = tasks[x] /\ (Answered(x) => Answered(x)')
  \/ /\ tasks[x] # None => AwaitsLeft(tasks'[x].phase) < AwaitsLeft(tasks[x].phase)
     /\ Suspended(x)' => Answered(x)'

\* A queue that loses its head keeps the other entries, and one that gains an
\* entry keeps all.
LEMMA QueueEntries ==
  ASSUME NEW q \in Seq(Call), NEW x
  PROVE  /\ q # <<>> /\ Head(q).by # x /\ By(q, x) => By(Tail(q), x)
         /\ \A e \in Call : By(q, x) \/ e.by = x => By(Append(q, e), x)
  <1>1. ASSUME q # <<>>, Head(q).by # x, NEW i \in DOMAIN q, q[i].by = x PROVE By(Tail(q), x)
    <2>1. i # 1 /\ i \in 1..Len(q) /\ Len(q) \in Nat
      BY <1>1
    <2>2. i - 1 \in DOMAIN Tail(q) /\ Tail(q)[i - 1] = q[i]
      BY <1>1, <2>1
    <2> QED
      BY <1>1, <2>2, Zenon DEF By
  <1>2. ASSUME NEW e \in Call PROVE By(q, x) \/ e.by = x => By(Append(q, e), x)
    <2>1. /\ Len(q) + 1 \in DOMAIN Append(q, e) /\ Append(q, e)[Len(q) + 1] = e
          /\ \A i \in DOMAIN q : i \in DOMAIN Append(q, e) /\ Append(q, e)[i] = q[i]
      OBVIOUS
    <2> QED
      BY <2>1, Zenon DEF By
  <1> QED
    BY <1>1, <1>2, Zenon DEF By

\* A persist call leaves the others under way, and the one that makes it waits for
\* it.
LEMMA PersistAnswers ==
  ASSUME StructureInv, NEW h \in Handles, NEW pub \in Public, NEW by \in Slots \cup {None}, Persist(h, pub, by), NEW x
  PROVE  (Answered(x) => Answered(x)') /\ (by = x => Answered(x)')
  <1>1. PICK e \in Call : e = [h |-> h, data |-> Strings(pub), by |-> by]
    BY PersistTypes, Zenon DEF StructureInv
  <1>2. sadds' = Append(sadds, e) /\ hsets' = hsets /\ e.by = by /\ sadds \in Seq(Call)
    BY <1>1, QueueFacts, Zenon DEF Persist
  <1> QED
    BY <1>2, QueueEntries, Zenon DEF Answered

\* Each step does one of the three.
LEMMA CallSteps == ASSUME StructureInv, [Next]_vars, NEW x \in Slots PROVE Onward(x)
  <1> USE DEF solana, proc, redis, ghosts, calls
  <1>a. tasks \in [Slots -> Task \cup {None}] /\ sadds \in Seq(Call) /\ hsets \in Seq(Call) /\ x # None
    BY Zenon DEF StructureInv, TypeOK
  <1>b. ASSUME UNCHANGED <<tasks, sadds, hsets>> PROVE Onward(x)
    BY <1>b, Zenon DEF Onward, Answered
  <1>c. ASSUME NEW why, Exit(why) PROVE Onward(x)
    BY <1>c, Zenon DEF Exit, Onward
  <1>d. ASSUME mode # "serving", tasks' = tasks PROVE Onward(x)
    BY <1>d, Zenon DEF StructureInv, TasksInv, Onward
  <1>1. CASE Boot
    BY <1>1, <1>b, <1>c, <1>d, Zenon DEF Boot, Start, WatchDeposits, HydrateUser, SkipUser, HydrateThrows
  <1>2. ASSUME NEW s \in Slots, NEW h \in Handles, NEW kind, NewUser(s, h, kind) PROVE Onward(x)
    <2>1. /\ tasks[s] = None /\ tasks' = [tasks EXCEPT ![s] = NewTask(kind, h, "ensure")] /\ Persist(h, Defaults, s)
      BY <1>2, Zenon DEF NewUser, Free
    <2>2. (Answered(x) => Answered(x)') /\ (s = x => Answered(x)')
      BY <2>1, PersistAnswers, ConversionFacts, Zenon
    <2> QED
      BY <1>a, <2>1, <2>2, Zenon DEF Onward
  <1>3. ASSUME NEW s \in Slots, NEW h, NEW kind, tasks[s] = None, UNCHANGED <<sadds, hsets>>,
               tasks' = [tasks EXCEPT ![s] = NewTask(kind, h, "readSol")]
        PROVE  Onward(x)
    <2>1. CASE x = s
      <3>1. tasks'[x] = NewTask(kind, h, "readSol")
        BY <1>3, <1>a, <2>1, Zenon
      <3>2. ~Suspended(x)'
        BY <3>1 DEF Suspended, NewTask
      <3> QED
        BY <1>3, <2>1, <3>2, Zenon DEF Onward
    <2>2. CASE x # s
      BY <1>3, <1>a, <2>2, Zenon DEF Onward, Answered
    <2> QED
      BY <2>1, <2>2, Zenon
  <1>4. ASSUME NEW h \in Handles, NEW pub \in Public, SetPublic(h, pub) PROVE Onward(x)
    <2>1. Persist(h, pub, None) /\ tasks' = tasks
      BY <1>4, Zenon DEF SetPublic
    <2>2. Answered(x) => Answered(x)'
      BY <2>1, PersistAnswers, Zenon
    <2> QED
      BY <2>1, <2>2, Zenon DEF Onward
  <1>5. CASE Requests
    <2>1. ASSUME NEW h \in Handles, WalletOfKnown(h) \/ PreferenceThrows(h) PROVE Onward(x)
      BY <1>b, <1>c, <2>1, Zenon DEF WalletOfKnown, PreferenceThrows, vars
    <2>2. ASSUME NEW h \in Handles, NEW on \in BOOLEAN, ToggleAuto(h, on) PROVE Onward(x)
      BY <1>4, <2>2, NewPublic, Zenon DEF ToggleAuto, StructureInv
    <2>3. ASSUME NEW h \in Handles, NEW level \in Risks, SetRisk(h, level) PROVE Onward(x)
      BY <1>4, <2>3, NewPublic, Zenon DEF SetRisk, StructureInv
    <2>4. ASSUME NEW h \in Handles, NEW s \in Slots, NEW kind, RefreshKnown(s, h, kind) \/ OnAccountChange(s, h, kind)
          PROVE  Onward(x)
      BY <1>3, <2>4, Zenon DEF RefreshKnown, OnAccountChange, Free
    <2> QED
      BY <1>2, <1>5, <2>1, <2>2, <2>3, <2>4, ZenonT(60) DEF Requests
  <1>6. ASSUME NEW s \in Slots, GetBalance(s) PROVE Onward(x)
    <2>1. x # s => tasks'[x] = tasks[x]
      BY <1>6, <1>a, Zenon DEF GetBalance
    <2>2. tasks[s] \in Task /\ tasks[s].phase = "readSol" /\ UNCHANGED <<sadds, hsets>>
      BY <1>6, <1>a, Zenon DEF GetBalance, In
    <2>3. tasks'[s].phase = "readTier"
      BY <1>6, <1>a, <2>2, Zenon DEF GetBalance, Task
    <2> QED
      BY <2>1, <2>2, <2>3 DEF Onward, Suspended, AwaitsLeft, Answered
  <1>7. ASSUME NEW s \in Slots, GetTokenAccount(s) PROVE Onward(x)
    <2>1. x # s => tasks'[x] = tasks[x]
      BY <1>7, <1>a, Zenon DEF GetTokenAccount
    <2>2. tasks[s] \in Task /\ tasks[s].phase = "readTier" /\ UNCHANGED <<sadds, hsets>>
      BY <1>7, <1>a, Zenon DEF GetTokenAccount, In
    <2>3. tasks'[s].phase = "apply"
      BY <1>7, <1>a, <2>2, Zenon DEF GetTokenAccount, Task
    <2> QED
      BY <2>1, <2>2, <2>3 DEF Onward, Suspended, AwaitsLeft, Answered
  <1>8. ASSUME NEW s \in Slots, Apply(s) PROVE Onward(x)
    <2>1. x # s => tasks'[x] = tasks[x]
      BY <1>8, <1>a, Zenon DEF Apply
    <2>2. tasks[s] \in Task /\ tasks[s].phase = "apply"
      BY <1>8, <1>a, Zenon DEF Apply, In
    <2>3. tasks'[s].phase = "persist"
      BY <1>8, <1>a, <2>2, Zenon DEF Apply, Task
    <2>4. PICK h \in Handles, pub \in Public : Persist(h, pub, s)
      <3>1. tasks[s].h \in Handles /\ users[tasks[s].h] # None
        BY <2>2, Zenon DEF StructureInv, TasksInv, Task
      <3>2. Refreshed(users[tasks[s].h].pub, tasks[s]) \in Public
        BY <2>2, <3>1, NewPublic, Zenon DEF StructureInv
      <3> QED
        BY <1>8, <3>1, <3>2, Zenon DEF Apply
    <2>5. (Answered(x) => Answered(x)') /\ (s = x => Answered(x)')
      BY <2>4, PersistAnswers, Zenon
    <2>6. AwaitsLeft("persist") < AwaitsLeft("apply")
      BY DEF AwaitsLeft
    <2> QED
      BY <2>1, <2>2, <2>3, <2>5, <2>6, Zenon DEF Onward
  <1>9. CASE RedisSadd
    <2>1. CASE mode # "serving"
      BY <1>9, <1>d, <2>1, Zenon DEF RedisSadd
    <2>2. CASE Serving
      <3>1. /\ sadds # <<>> /\ Head(sadds) \in Call /\ sadds' = Tail(sadds) /\ hsets' = Append(hsets, Head(sadds))
            /\ tasks' = tasks
        BY <1>9, <2>2, QueueFacts, Zenon DEF RedisSadd
      <3>2. ASSUME Answered(x) PROVE Answered(x)'
        <4>1. CASE Head(sadds).by = x
          BY <1>a, <3>1, <4>1, QueueEntries, Zenon DEF Answered
        <4>2. CASE Head(sadds).by # x
          BY <1>a, <3>1, <3>2, <4>2, QueueEntries, Zenon DEF Answered
        <4> QED
          BY <4>1, <4>2, Zenon
      <3> QED
        BY <3>1, <3>2, Zenon DEF Onward
    <2> QED
      BY <2>1, <2>2, Zenon DEF Serving
  <1>10. ASSUME NEW e \in Call, e.by # x, Answered(x),
                \/ sadds # <<>> /\ e = Head(sadds) /\ sadds' = Tail(sadds) /\ hsets' = hsets
                \/ hsets # <<>> /\ e = Head(hsets) /\ hsets' = Tail(hsets) /\ sadds' = sadds
         PROVE  Answered(x)'
    BY <1>a, <1>10, QueueEntries, Zenon DEF Answered
  <1>11. CASE RedisHset
    <2>1. PICK e \in Call : e = Head(hsets) /\ hsets # <<>> /\ hsets' = Tail(hsets) /\ sadds' = sadds
      BY <1>11, QueueFacts, Zenon DEF RedisHset
    <2>2. CASE Serving /\ e.by = x
      <3>1. Resume(x)
        BY <1>11, <1>a, <2>1, <2>2, Zenon DEF RedisHset
      <3>2. tasks'[x] = None \/ (tasks[x].phase = "ensure" /\ tasks'[x] = [tasks[x] EXCEPT !.phase = "readSol"])
        BY <1>a, <3>1, Zenon DEF Resume
      <3>3. Awaits(e)
        <4>1. 1 \in DOMAIN hsets /\ e = hsets[1]
          BY <1>a, <2>1, TailFacts, Zenon
        <4> QED
          BY <2>2, <4>1, Zenon DEF StructureInv, CallsInv
      <3>4. tasks[x] \in Task
        BY <1>a, <2>2, <3>3, Zenon DEF Awaits
      <3>5. tasks'[x] = None \/ (tasks[x].phase = "ensure" /\ tasks'[x].phase = "readSol")
        BY <3>2, <3>4, Zenon DEF Task
      <3> QED
        BY <3>5 DEF Onward, AwaitsLeft, Suspended
    <2>3. CASE Serving /\ e.by # x
      <3>1. tasks'[x] = tasks[x]
        BY <1>11, <1>a, <2>1, <2>3, Zenon DEF RedisHset, Resume
      <3> QED
        BY <1>10, <2>1, <2>3, <3>1, Zenon DEF Onward
    <2>4. CASE ~Serving
      BY <1>11, <1>d, <2>4, Zenon DEF RedisHset, Serving
    <2> QED
      BY <2>2, <2>3, <2>4, Zenon
  <1>12. CASE SaddRefused \/ HsetRefused
    <2>1. PICK e \in Call :
            /\ tasks' = [tasks EXCEPT ![e.by] = None]
            /\ \/ sadds # <<>> /\ e = Head(sadds) /\ sadds' = Tail(sadds) /\ hsets' = hsets
               \/ hsets # <<>> /\ e = Head(hsets) /\ hsets' = Tail(hsets) /\ sadds' = sadds
      BY <1>12, QueueFacts, Zenon DEF SaddRefused, HsetRefused, Rejected
    <2>2. CASE e.by = x
      BY <1>a, <2>1, <2>2, Zenon DEF Onward
    <2>3. CASE e.by # x
      <3>1. tasks'[x] = tasks[x]
        BY <1>a, <2>1, <2>3, Zenon
      <3> QED
        BY <1>10, <2>1, <2>3, <3>1, Zenon DEF Onward
    <2> QED
      BY <2>2, <2>3, Zenon
  <1>13. ASSUME NEW s \in Slots, RpcErrorCaught(s) PROVE Onward(x)
    BY <1>13, <1>a, Zenon DEF RpcErrorCaught, Onward, Answered
  <1>14. CASE Failures
    BY <1>14, <1>c, <1>12, <1>13, Zenon DEF Failures, Kill, RiskTextThrows, StoreErrorThrows, RpcErrorThrows
  <1>15. ASSUME NEW k \in minted, NEW bal \in Balance, ChainChange(k, bal) PROVE Onward(x)
    BY <1>15, <1>b, Zenon DEF ChainChange
  <1>16. CASE UNCHANGED vars
    BY <1>16, <1>b, Zenon DEF vars
  <1> QED
    BY <1>1, <1>5, <1>6, <1>7, <1>8, <1>9, <1>11, <1>14, <1>15, <1>16, Zenon DEF Next, Rpc, Redis

\* A call that waits for persist() has a persist call of its own under way, in
\* whatever order calls come, Redis answers or refuses, and the process ends and
\* starts (commands.js:142-179): none is left waiting for ever.
THEOREM NoneLeftWaiting == Spec => []AnswersDue
  <1>1. ASSUME Init PROVE AnswersDue
    <2>1. tasks = [s \in Slots |-> None]
      BY <1>1, Zenon DEF Init
    <2> QED
      BY <2>1, Zenon DEF AnswersDue, Suspended
  <1>2. ASSUME StructureInv, AnswersDue, [Next]_vars PROVE AnswersDue'
    <2>1. ASSUME NEW s \in Slots, Suspended(s)' PROVE Answered(s)'
      <3>1. Onward(s)
        BY <1>2, CallSteps, Zenon
      <3>2. CASE tasks'[s] = tasks[s]
        BY <1>2, <2>1, <3>1, <3>2, Zenon DEF Onward, Suspended, AnswersDue
      <3>3. CASE tasks'[s] # tasks[s]
        BY <2>1, <3>1, <3>3, Zenon DEF Onward, Suspended
      <3> QED
        BY <3>2, <3>3, Zenon
    <2> QED
      BY <2>1, Zenon DEF AnswersDue
  <1> QED
    BY <1>1, <1>2, InitStructure, StructureStep, PTL DEF Spec

\* A call goes through at most five phases, in this order: a new user's persist,
\* the two balances, the change of the user and its persist (commands.js:142-179,
\* utils-solana.js:165-178).  It never goes back to an earlier one.
THEOREM CallsAreBounded == Spec => CallsGoOn
  <1>1. ASSUME StructureInv, [Next]_vars, NEW s \in Slots, tasks[s] # None, tasks'[s] # tasks[s]
        PROVE  tasks'[s] = None \/ AwaitsLeft(tasks'[s].phase) < AwaitsLeft(tasks[s].phase)
    <2>1. Onward(s)
      BY <1>1, CallSteps, Zenon
    <2> QED
      BY <1>1, <2>1, Zenon DEF Onward
  <1>2. StructureInv /\ [Next]_vars =>
          [\A s \in Slots : tasks[s] # None /\ tasks'[s] # tasks[s] =>
             tasks'[s] = None \/ AwaitsLeft(tasks'[s].phase) < AwaitsLeft(tasks[s].phase)]_vars
    BY <1>1, Zenon
  <1> QED
    BY <1>2, InitStructure, StructureStep, PTL DEF Spec, CallsGoOn
=============================================================================
