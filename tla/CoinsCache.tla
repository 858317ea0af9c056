----------------------------- MODULE CoinsCache -----------------------------
(***************************************************************************)
(* The coins of a running node: the database (CoinsDB), the cache on top   *)
(* of it (CoinsTip) and the view of the block that ConnectTip or           *)
(* DisconnectTip applies, itself a cache on top of CoinsTip.  All of it is *)
(* under cs_main: one method call is one action.                           *)
(***************************************************************************)
EXTENDS CoinEntry

CONSTANT Outpoints

VARIABLES
  db,     \* CCoinsViewDB: outpoint -> coin
  tip,    \* CoinsTip: outpoint -> entry
  view,   \* view of the block being applied: outpoint -> entry
  open,   \* BOOLEAN: is there such a view
  call    \* the last call and the coin it took or returned

vars == <<db, tip, view, open, call>>

Empty == [o \in Outpoints |-> Absent]

Init ==
  /\ db \in [Outpoints -> CoinOrNone]
  /\ tip = Empty /\ view = Empty /\ open = FALSE
  /\ call = <<"start">>

\* What CoinsTip and the view show.
InTip(o) == Value(tip[o], db[o])
InView(o) == Value(view[o], InTip(o))

\* The view asks its base only for what it does not have, which fetches it there too.
FetchForView(o) ==
  tip' = IF view[o].cached THEN tip ELSE [tip EXCEPT ![o] = Fetched(@, db[o])]

-----------------------------------------------------------------------------
(* The view of a block.                                                     *)

OpenView == ~open /\ open' = TRUE /\ UNCHANGED <<db, tip, view, call>>

GetCoin(o) ==
  /\ open
  /\ FetchForView(o)
  /\ view' = [view EXCEPT ![o] = Fetched(@, InTip(o))]
  /\ call' = <<"get", o, Fetched(view[o], InTip(o)).coin>>
  /\ UNCHANGED <<db, open>>

\* Callers allow the overwrite unless they know that there is nothing to overwrite:
\* from HaveCoin (ApplyTxInUndo, RollforwardBlock) or from the BIP30 rule (ConnectBlock).
AddCoin(o, c, possible_overwrite) ==
  /\ open
  /\ possible_overwrite \/ InView(o) = NoCoin
  /\ view' = [view EXCEPT ![o] = Added(@, c, possible_overwrite)]
  /\ call' = <<"add", o, c>>
  /\ UNCHANGED <<db, tip, open>>

SpendCoin(o) ==
  /\ open
  /\ FetchForView(o)
  /\ view' = [view EXCEPT ![o] = SpentIn(@, InTip(o))]
  /\ call' = <<"spend", o, Fetched(view[o], InTip(o)).coin>>
  /\ UNCHANGED <<db, open>>

\* Flush of the view, at the end of ConnectTip and DisconnectTip.
FlushView ==
  /\ open
  /\ tip' = [o \in Outpoints |-> Written(view[o], tip[o])]
  /\ call' = <<"commit">>
  /\ view' = Empty /\ open' = FALSE
  /\ UNCHANGED db

\* The block was invalid: the view is destroyed.
DropView ==
  /\ open
  /\ view' = Empty /\ open' = FALSE
  /\ call' = <<"discard">>
  /\ UNCHANGED <<db, tip>>

-----------------------------------------------------------------------------
(* CoinsTip, between blocks.                                                *)

FetchTip(o) ==
  /\ ~open
  /\ tip' = [tip EXCEPT ![o] = Fetched(@, db[o])]
  /\ call' = <<"committed", o, Fetched(tip[o], db[o]).coin>>
  /\ UNCHANGED <<db, view, open>>

Uncache(o) ==
  /\ ~open
  /\ tip' = [tip EXCEPT ![o] = Uncached(@)]
  /\ UNCHANGED <<db, view, open, call>>

FlushTip ==
  /\ ~open
  /\ db' = [o \in Outpoints |-> Stored(tip[o], db[o])]
  /\ tip' = Empty
  /\ call' = <<"persist">>
  /\ UNCHANGED <<view, open>>

SyncTip ==
  /\ ~open
  /\ db' = [o \in Outpoints |-> Stored(tip[o], db[o])]
  /\ tip' = [o \in Outpoints |-> Cleaned(tip[o])]
  /\ call' = <<"persist">>
  /\ UNCHANGED <<view, open>>

Next ==
  \/ OpenView \/ FlushView \/ DropView \/ FlushTip \/ SyncTip
  \/ \E o \in Outpoints :
       \/ GetCoin(o)
       \/ SpendCoin(o)
       \/ FetchTip(o)
       \/ Uncache(o)
       \/ \E c \in Coins, possible_overwrite \in BOOLEAN : AddCoin(o, c, possible_overwrite)

Spec == Init /\ [][Next]_vars

-----------------------------------------------------------------------------
TypeOK ==
  /\ db \in [Outpoints -> CoinOrNone]
  /\ tip \in [Outpoints -> Entries] /\ view \in [Outpoints -> Entries]
  /\ open \in BOOLEAN

(***************************************************************************)
(* SanityCheck: "Only 5 combinations are possible" of DIRTY, FRESH and     *)
(* spent; and FRESH without DIRTY "can not occur in practice" (coins.h).   *)
(***************************************************************************)
FlagsValid(e) ==
  e.cached => IF e.dirty THEN e.fresh => e.coin # NoCoin ELSE ~e.fresh /\ e.coin # NoCoin

SanityCheck == \A o \in Outpoints : FlagsValid(tip[o]) /\ FlagsValid(view[o])

(***************************************************************************)
(* The two logic_errors of coins.cpp cannot be thrown: an addition that    *)
(* promises not to overwrite finds no unspent coin in the cache, and no    *)
(* FRESH entry of a view is unspent in CoinsTip when it is flushed.        *)
(***************************************************************************)
NoLogicError ==
  \A o \in Outpoints :
    /\ InView(o) = NoCoin => ~AddThrows(view[o], FALSE)
    /\ ~WriteThrows(view[o], tip[o])

(***************************************************************************)
(* The caches are transparent: whatever is fetched, uncached, flushed or   *)
(* synced in between, every call takes effect and answers as it would on   *)
(* plain maps: no coin is lost, revived or returned stale.                 *)
(***************************************************************************)
Map == INSTANCE CoinsMap WITH
         working <- [o \in Outpoints |-> InView(o)],
         coins <- [o \in Outpoints |-> InTip(o)],
         durable <- db

ImplementsMap == Map!Spec
=============================================================================
