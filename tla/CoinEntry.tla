----------------------------- MODULE CoinEntry ------------------------------
(***************************************************************************)
(* coins.h, coins.cpp: what the methods of CCoinsViewCache do to the entry *)
(* of one outpoint.  A cache never looks at two outpoints at once, so the  *)
(* methods are these operators, applied per outpoint.                      *)
(*                                                                         *)
(* An outpoint is unspent with some coin, or has NoCoin: a Coin that was   *)
(* cleared, or none at all.  The linked list of flagged entries is the set *)
(* of entries with a flag; the accounting of memory is left out.           *)
(***************************************************************************)

CONSTANTS Coins, NoCoin

ASSUME CoinAssumption == NoCoin \notin Coins

CoinOrNone == Coins \cup {NoCoin}
Entries == [cached : BOOLEAN, coin : CoinOrNone, dirty : BOOLEAN, fresh : BOOLEAN]

Entry(c, dirty, fresh) == [cached |-> TRUE, coin |-> c, dirty |-> dirty, fresh |-> fresh]
Absent == [cached |-> FALSE, coin |-> NoCoin, dirty |-> FALSE, fresh |-> FALSE]

\* GetCoin: what a cache with entry e shows over a base that shows c.
Value(e, c) == IF e.cached THEN e.coin ELSE c

\* FetchCoin: a base that shows no coin leaves no entry behind.
Fetched(e, c) == IF e.cached \/ c = NoCoin THEN e ELSE Entry(c, FALSE, FALSE)

\* AddCoin throws "Attempted to overwrite an unspent coin".
AddThrows(e, overwrite) == ~overwrite /\ e.coin # NoCoin

\* Slip: a coin that replaces a spent one is taken for new.
Added_FreshOverDirty(e, c, overwrite) == Entry(c, TRUE, e.fresh \/ ~overwrite)

\* Slip: FRESH is not limited to additions that overwrite nothing.
Added_FreshOverwrite(e, c, overwrite) == Entry(c, TRUE, e.fresh \/ ~e.dirty)

\* AddCoin: FRESH unless it may overwrite, or a spent coin still has to be flushed.
Added(e, c, overwrite) == Entry(c, TRUE, e.fresh \/ (~overwrite /\ ~e.dirty))

\* Slip: spending leaves the FRESH entry in the cache.
SpentIn_KeepsFresh(e, c) ==
  LET f == Fetched(e, c)
  IN  IF ~f.cached THEN f ELSE [f EXCEPT !.dirty = TRUE, !.coin = NoCoin]

\* SpendCoin: a FRESH coin vanishes, any other stays as spent and DIRTY.
SpentIn(e, c) ==
  LET f == Fetched(e, c)
  IN  IF ~f.cached \/ f.fresh THEN Absent ELSE [f EXCEPT !.dirty = TRUE, !.coin = NoCoin]

\* BatchWrite into a cache throws "FRESH flag misapplied".
WriteThrows(child, parent) == child.dirty /\ child.fresh /\ parent.coin # NoCoin

\* CCoinsViewCache::BatchWrite: the parent's entry after the child's was written to it.
Written(child, parent) ==
  IF ~child.dirty THEN parent
  ELSE IF ~parent.cached
    THEN IF child.fresh /\ child.coin = NoCoin THEN parent ELSE Entry(child.coin, TRUE, child.fresh)
  ELSE IF parent.fresh /\ child.coin = NoCoin THEN Absent
  ELSE Entry(child.coin, TRUE, parent.fresh)

\* CCoinsViewDB::BatchWrite: a DIRTY entry replaces or erases the coin of the database.
Stored(e, c) == IF e.dirty THEN e.coin ELSE c

\* Sync: flagged entries are cleaned, spent ones erased.
Cleaned(e) ==
  IF ~e.dirty /\ ~e.fresh THEN e
  ELSE IF e.coin = NoCoin THEN Absent ELSE Entry(e.coin, FALSE, FALSE)

\* Uncache: only what has no flag.
Uncached(e) == IF e.dirty \/ e.fresh THEN e ELSE Absent
=============================================================================
