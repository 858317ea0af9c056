------------------------------ MODULE CoinsMap ------------------------------
(***************************************************************************)
(* What a stack of coin caches promises: three plain maps.  durable is on  *)
(* disk, coins is the state of the active chain, working the state a block *)
(* under validation sees.  No caching, no flags.  call is the interface:   *)
(* the last call, with the coin it took or returned.                       *)
(***************************************************************************)
CONSTANTS Outpoints, Coins, NoCoin

VARIABLES working, coins, durable, call
vars == <<working, coins, durable, call>>

Maps == [Outpoints -> Coins \cup {NoCoin}]

Init ==
  /\ durable \in Maps /\ coins = durable /\ working = durable
  /\ call = <<"start">>

Get(o) == call' = <<"get", o, working[o]>> /\ UNCHANGED <<working, coins, durable>>
GetCommitted(o) == call' = <<"committed", o, coins[o]>> /\ UNCHANGED <<working, coins, durable>>

Add(o, c) ==
  /\ call' = <<"add", o, c>>
  /\ working' = [working EXCEPT ![o] = c]
  /\ UNCHANGED <<coins, durable>>

\* The spent coin goes into the block's undo data.
Spend(o) ==
  /\ call' = <<"spend", o, working[o]>>
  /\ working' = [working EXCEPT ![o] = NoCoin]
  /\ UNCHANGED <<coins, durable>>

Commit == call' = <<"commit">> /\ coins' = working /\ UNCHANGED <<working, durable>>
Discard == call' = <<"discard">> /\ working' = coins /\ UNCHANGED <<coins, durable>>
Persist == call' = <<"persist">> /\ durable' = coins /\ UNCHANGED <<working, coins>>

Next ==
  \/ \E o \in Outpoints :
       \/ Get(o) \/ GetCommitted(o) \/ Spend(o)
       \/ \E c \in Coins : Add(o, c)
  \/ Commit
  \/ Discard
  \/ Persist

Spec == Init /\ [][Next]_vars
=============================================================================
