----------------------------- MODULE AddressBook -----------------------------
(***************************************************************************)
(* What the user store promises about deposit addresses, without the       *)
(* Map, the boot loop, the persist calls and Redis that bring it about.    *)
(*                                                                         *)
(* While a process serves, each handle has at most one address.  An agent  *)
(* opens with exactly the stored addresses, in one step; the API opens     *)
(* with none.  A handle without an address may be given one that was never *)
(* in use, and keeps it until the process ends.  Users are told the        *)
(* address of the book and no other.  Module UserStore implements this     *)
(* specification (UserStore!ImplementsAddressBook).                        *)
(***************************************************************************)
CONSTANTS
  Handles, Keys,
  AGENT,       \* the process opens with the stored addresses
  None         \* no address

VARIABLES
  open,        \* the process serves
  book,        \* handle -> address
  stored,      \* handle -> address in Redis
  used,        \* addresses that were ever given to anyone
  shown        \* handle -> addresses this process told

vars == <<open, book, stored, used, shown>>

Empty  == [h \in Handles |-> None]
Untold == [h \in Handles |-> {}]

Init ==
  /\ open = FALSE /\ book = Empty /\ shown = Untold
  /\ stored \in [Handles -> Keys \cup {None}]
  /\ used \subseteq Keys
  /\ \A h \in Handles : stored[h] # None => stored[h] \in used

Open ==
  /\ ~open /\ open' = TRUE
  /\ book' = IF AGENT THEN stored ELSE Empty
  /\ UNCHANGED <<stored, used, shown>>

Assign(h, k) ==
  /\ open /\ book[h] = None /\ k \notin used
  /\ book' = [book EXCEPT ![h] = k]
  /\ used' = used \cup {k}
  /\ UNCHANGED <<open, stored, shown>>

Tell(h) ==
  /\ open /\ book[h] # None
  /\ shown' = [shown EXCEPT ![h] = @ \cup {book[h]}]
  /\ UNCHANGED <<open, book, stored, used>>

Close ==
  /\ open /\ open' = FALSE
  /\ book' = Empty /\ shown' = Untold
  /\ UNCHANGED <<stored, used>>

Next ==
  \/ Open \/ Close
  \/ \E h \in Handles : Tell(h) \/ \E k \in Keys : Assign(h, k)

Spec == Init /\ [][Next]_vars
=============================================================================
