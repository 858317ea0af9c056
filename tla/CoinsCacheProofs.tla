-------------------------- MODULE CoinsCacheProofs --------------------------
(***************************************************************************)
(* The caches of coins implement plain maps, for any outpoints and coins.  *)
(***************************************************************************)
EXTENDS CoinsCache, TLAPS

(***************************************************************************)
(* Entry e is a sound entry over a base that shows c: an entry without     *)
(* DIRTY repeats the base, a FRESH one hides nothing of it.                *)
(***************************************************************************)
Sound(e, c) ==
  /\ ~e.cached => e = Absent
  /\ e.cached /\ ~e.dirty => e.coin = c /\ c # NoCoin /\ ~e.fresh
  /\ e.fresh => e.coin # NoCoin /\ c = NoCoin

IInv ==
  /\ TypeOK
  /\ \A o \in Outpoints : Sound(tip[o], db[o]) /\ Sound(view[o], InTip(o))
  /\ ~open => view = Empty

-----------------------------------------------------------------------------
(* One entry.                                                               *)

\* An absent entry is sound over every base and shows it.
LEMMA AbsentSound ==
  ASSUME NEW c \in CoinOrNone
  PROVE  Absent \in Entries /\ Sound(Absent, c) /\ Value(Absent, c) = c
BY CoinAssumption DEF Absent, Entries, CoinOrNone, Sound, Value

\* A sound entry shows a coin or none.
LEMMA ValueType ==
  ASSUME NEW e \in Entries, NEW c \in CoinOrNone
  PROVE  Value(e, c) \in CoinOrNone
BY DEF Value, Entries

\* FetchCoin keeps an entry sound and changes nothing that is shown.
LEMMA FetchedSound ==
  ASSUME NEW e \in Entries, NEW c \in CoinOrNone, Sound(e, c)
  PROVE  /\ Fetched(e, c) \in Entries /\ Sound(Fetched(e, c), c)
         /\ Value(Fetched(e, c), c) = Value(e, c) /\ Fetched(e, c).coin = Value(e, c)
<1>1. CASE e.cached
  BY <1>1 DEF Fetched, Sound, Value
<1>2. CASE ~e.cached /\ c = NoCoin
  <2>1. Fetched(e, c) = e
    BY <1>2 DEF Fetched
  <2> QED
    BY <1>2, <2>1 DEF Sound, Value, Absent
<1>3. CASE ~e.cached /\ c # NoCoin
  <2>1. Fetched(e, c) = [cached |-> TRUE, coin |-> c, dirty |-> FALSE, fresh |-> FALSE]
    BY <1>3 DEF Fetched, Entry
  <2> QED
    BY <1>3, <2>1 DEF Entries, Sound, Value
<1> QED
  BY <1>1, <1>2, <1>3

\* AddCoin, with the caller's promise, shows the new coin.
LEMMA AddedSound ==
  ASSUME NEW e \in Entries, NEW c \in CoinOrNone, Sound(e, c),
         NEW k \in Coins, NEW overwrite \in BOOLEAN,
         overwrite \/ Value(e, c) = NoCoin
  PROVE  /\ Added(e, k, overwrite) \in Entries /\ Sound(Added(e, k, overwrite), c)
         /\ Value(Added(e, k, overwrite), c) = k
BY CoinAssumption DEF Added, Entries, CoinOrNone, Sound, Value, Entry, Absent

\* SpendCoin shows that there is no coin.
LEMMA SpentSound ==
  ASSUME NEW e \in Entries, NEW c \in CoinOrNone, Sound(e, c)
  PROVE  /\ SpentIn(e, c) \in Entries /\ Sound(SpentIn(e, c), c)
         /\ Value(SpentIn(e, c), c) = NoCoin
<1> DEFINE f == Fetched(e, c)
<1>1. f \in Entries /\ Sound(f, c) /\ f.coin = Value(e, c) /\ Value(f, c) = Value(e, c)
  BY FetchedSound
<1>2. SpentIn(e, c) = IF ~f.cached \/ f.fresh THEN Absent ELSE [f EXCEPT !.dirty = TRUE, !.coin = NoCoin]
  BY DEF SpentIn
<1> HIDE DEF f
<1> QED
  BY <1>1, <1>2, AbsentSound, CoinAssumption DEF Entries, CoinOrNone, Sound, Value, Absent

\* BatchWrite moves what the child shows into the parent, whatever the flags.
LEMMA WrittenSound ==
  ASSUME NEW parent \in Entries, NEW child \in Entries, NEW c \in CoinOrNone,
         Sound(parent, c), Sound(child, Value(parent, c))
  PROVE  /\ Written(child, parent) \in Entries /\ Sound(Written(child, parent), c)
         /\ Value(Written(child, parent), c) = Value(child, Value(parent, c))
<1> DEFINE w == Written(child, parent)
<1>1. CASE ~child.dirty
  <2>1. w = parent
    BY <1>1 DEF Written
  <2> QED
    BY <1>1, <2>1 DEF Sound, Value, Absent
<1>2. CASE child.dirty /\ ~parent.cached
  <2>1. Value(parent, c) = c /\ child.cached
    BY <1>2 DEF Sound, Value, Absent
  <2>2. ~(child.fresh /\ child.coin = NoCoin)
    BY DEF Sound
  <2>3. w = [cached |-> TRUE, coin |-> child.coin, dirty |-> TRUE, fresh |-> child.fresh]
    BY <1>2, <2>2 DEF Written, Entry
  <2>4. w \in Entries
    BY <2>3 DEF Entries
  <2>5. Sound(w, c) /\ Value(w, c) = child.coin
    BY <2>1, <2>3 DEF Sound, Value
  <2> QED
    BY <2>1, <2>4, <2>5 DEF Value
<1>3. CASE child.dirty /\ parent.cached /\ parent.fresh /\ child.coin = NoCoin
  <2>1. w = Absent
    BY <1>3 DEF Written
  <2>2. c = NoCoin /\ child.cached
    BY <1>3 DEF Sound, Absent
  <2> QED
    BY <1>3, <2>1, <2>2, AbsentSound DEF Value
<1>4. CASE child.dirty /\ parent.cached /\ ~(parent.fresh /\ child.coin = NoCoin)
  <2>1. w = [cached |-> TRUE, coin |-> child.coin, dirty |-> TRUE, fresh |-> parent.fresh]
    BY <1>4 DEF Written, Entry
  <2>2. child.cached
    BY <1>4 DEF Sound, Absent
  <2>3. w \in Entries
    BY <2>1 DEF Entries
  <2>4. Sound(w, c) /\ Value(w, c) = child.coin
    BY <1>4, <2>1 DEF Sound, Value
  <2> QED
    BY <2>2, <2>3, <2>4 DEF Value
<1> QED
  BY <1>1, <1>2, <1>3, <1>4 DEF Entries

\* Writing to the database stores what the cache shows.
LEMMA StoredValue ==
  ASSUME NEW e \in Entries, NEW c \in CoinOrNone, Sound(e, c)
  PROVE  Stored(e, c) = Value(e, c)
BY CoinAssumption DEF Stored, Entries, Sound, Value, Absent

\* After Sync the entry repeats the database.
LEMMA CleanedSound ==
  ASSUME NEW e \in Entries, NEW c \in CoinOrNone, Sound(e, c)
  PROVE  /\ Cleaned(e) \in Entries /\ Sound(Cleaned(e), Value(e, c))
         /\ Value(Cleaned(e), Value(e, c)) = Value(e, c)
<1>1. CASE ~e.dirty /\ ~e.fresh
  BY <1>1 DEF Cleaned, Sound, Value, Absent
<1>2. CASE (e.dirty \/ e.fresh) /\ e.coin = NoCoin
  <2>1. Cleaned(e) = Absent /\ Value(e, c) = NoCoin
    BY <1>2 DEF Cleaned, Sound, Value, Absent
  <2> QED
    BY <2>1, AbsentSound DEF CoinOrNone
<1>3. CASE (e.dirty \/ e.fresh) /\ e.coin # NoCoin
  <2>1. Cleaned(e) = [cached |-> TRUE, coin |-> e.coin, dirty |-> FALSE, fresh |-> FALSE]
    BY <1>3 DEF Cleaned, Entry
  <2>2. Value(e, c) = e.coin
    BY <1>3 DEF Sound, Value, Absent
  <2> QED
    BY <1>3, <2>1, <2>2 DEF Entries, Sound, Value
<1> QED
  BY <1>1, <1>2, <1>3

\* Uncache changes nothing that is shown.
LEMMA UncachedSound ==
  ASSUME NEW e \in Entries, NEW c \in CoinOrNone, Sound(e, c)
  PROVE  /\ Uncached(e) \in Entries /\ Sound(Uncached(e), c)
         /\ Value(Uncached(e), c) = Value(e, c)
BY CoinAssumption DEF Uncached, Entries, CoinOrNone, Sound, Value, Absent

-----------------------------------------------------------------------------
(* Whole caches.                                                            *)

\* What the types and the invariant say at one outpoint.
LEMMA AtOutpoint ==
  ASSUME IInv, NEW o \in Outpoints
  PROVE  /\ db[o] \in CoinOrNone /\ tip[o] \in Entries /\ view[o] \in Entries
         /\ Sound(tip[o], db[o]) /\ Sound(view[o], InTip(o))
         /\ InTip(o) \in CoinOrNone /\ InView(o) \in CoinOrNone
<1>1. db[o] \in CoinOrNone /\ tip[o] \in Entries /\ view[o] \in Entries
  BY DEF IInv, TypeOK
<1>2. InTip(o) \in CoinOrNone
  BY <1>1, ValueType DEF InTip
<1>3. InView(o) \in CoinOrNone
  BY <1>1, <1>2, ValueType DEF InView
<1> QED
  BY <1>1, <1>2, <1>3 DEF IInv

\* The invariant, outpoint by outpoint.
LEMMA Pointwise ==
  ASSUME db' \in [Outpoints -> CoinOrNone], tip' \in [Outpoints -> Entries],
         view' \in [Outpoints -> Entries], open' \in BOOLEAN,
         \A o \in Outpoints : Sound(tip'[o], db'[o]) /\ Sound(view'[o], Value(tip'[o], db'[o])),
         ~open' => view' = Empty
  PROVE  IInv'
BY DEF IInv, TypeOK, InTip, Empty

\* Fetching for the view keeps CoinsTip sound and what it shows.
LEMMA FetchKeeps ==
  ASSUME IInv, NEW o \in Outpoints, FetchForView(o)
  PROVE  /\ tip' \in [Outpoints -> Entries]
         /\ \A p \in Outpoints : Sound(tip'[p], db[p]) /\ Value(tip'[p], db[p]) = InTip(p)
<1>1. Fetched(tip[o], db[o]) \in Entries /\ Sound(Fetched(tip[o], db[o]), db[o])
      /\ Value(Fetched(tip[o], db[o]), db[o]) = InTip(o)
  BY AtOutpoint, FetchedSound DEF InTip
<1>2. tip \in [Outpoints -> Entries]
  BY DEF IInv, TypeOK
<1>3. tip' = tip \/ tip' = [tip EXCEPT ![o] = Fetched(tip[o], db[o])]
  BY DEF FetchForView
<1>4. tip' \in [Outpoints -> Entries]
  BY <1>1, <1>2, <1>3
<1>5. ASSUME NEW p \in Outpoints
      PROVE  Sound(tip'[p], db[p]) /\ Value(tip'[p], db[p]) = InTip(p)
  <2>1. Sound(tip[p], db[p])
    BY AtOutpoint
  <2>2. tip'[p] = tip[p] \/ (p = o /\ tip'[p] = Fetched(tip[o], db[o]))
    BY <1>2, <1>3
  <2> QED
    BY <1>1, <2>1, <2>2 DEF InTip
<1> QED
  BY <1>4, <1>5

\* A call on the view replaces one of its entries by a sound one.
LEMMA ViewCall ==
  ASSUME IInv, NEW o \in Outpoints, NEW e \in Entries, open,
         tip' \in [Outpoints -> Entries],
         \A p \in Outpoints : Sound(tip'[p], db[p]) /\ Value(tip'[p], db[p]) = InTip(p),
         view' = [view EXCEPT ![o] = e], Sound(e, InTip(o)), UNCHANGED <<db, open>>
  PROVE  /\ IInv'
         /\ [p \in Outpoints |-> InTip(p)]' = [p \in Outpoints |-> InTip(p)]
         /\ [p \in Outpoints |-> InView(p)]'
              = [[p \in Outpoints |-> InView(p)] EXCEPT ![o] = Value(e, InTip(o))]
<1>1. view' \in [Outpoints -> Entries] /\ db' \in [Outpoints -> CoinOrNone] /\ open' = TRUE
  BY DEF IInv, TypeOK
<1>2. ASSUME NEW p \in Outpoints
      PROVE  Sound(view'[p], Value(tip'[p], db'[p]))
  <2>1. Sound(view[p], InTip(p))
    BY AtOutpoint
  <2>2. view'[p] = view[p] \/ (p = o /\ view'[p] = e)
    BY DEF IInv, TypeOK
  <2> QED
    BY <2>1, <2>2
<1>3. IInv'
  BY <1>1, <1>2, Pointwise
<1>4. \A p \in Outpoints : InTip(p)' = InTip(p)
  BY DEF InTip
<1>5. \A p \in Outpoints : InView(p)' = IF p = o THEN Value(e, InTip(o)) ELSE InView(p)
  BY <1>4 DEF InView, IInv, TypeOK
<1>6. [p \in Outpoints |-> InView(p)]'
        = [[p \in Outpoints |-> InView(p)] EXCEPT ![o] = Value(e, InTip(o))]
  BY <1>5
<1> QED
  BY <1>3, <1>4, <1>6

-----------------------------------------------------------------------------
(* One step: it keeps the invariant and is a step of the maps.              *)

\* GetCoin answers from the map.
LEMMA GetCoinStep ==
  ASSUME IInv, NEW o \in Outpoints, GetCoin(o)
  PROVE  IInv' /\ Map!Get(o)
<1> DEFINE e == Fetched(view[o], InTip(o))
<1>1. e \in Entries /\ Sound(e, InTip(o)) /\ Value(e, InTip(o)) = InView(o) /\ e.coin = InView(o)
  BY AtOutpoint, FetchedSound DEF InView
<1>2. /\ open /\ FetchForView(o) /\ view' = [view EXCEPT ![o] = e]
      /\ UNCHANGED <<db, open>> /\ call' = <<"get", o, InView(o)>>
  BY <1>1 DEF GetCoin
<1> HIDE DEF e
<1>3. /\ IInv'
      /\ [p \in Outpoints |-> InTip(p)]' = [p \in Outpoints |-> InTip(p)]
      /\ [p \in Outpoints |-> InView(p)]'
           = [[p \in Outpoints |-> InView(p)] EXCEPT ![o] = InView(o)]
  BY <1>1, <1>2, FetchKeeps, ViewCall
<1> QED
  BY <1>2, <1>3 DEF Map!Get

\* AddCoin adds to the map.
LEMMA AddCoinStep ==
  ASSUME IInv, NEW o \in Outpoints, NEW c \in Coins, NEW possible_overwrite \in BOOLEAN,
         AddCoin(o, c, possible_overwrite)
  PROVE  IInv' /\ Map!Add(o, c)
<1> DEFINE e == Added(view[o], c, possible_overwrite)
<1>1. e \in Entries /\ Sound(e, InTip(o)) /\ Value(e, InTip(o)) = c
  BY AtOutpoint, AddedSound DEF InView, AddCoin
<1>2. /\ open /\ view' = [view EXCEPT ![o] = e] /\ UNCHANGED <<db, tip, open>>
      /\ call' = <<"add", o, c>>
  BY DEF AddCoin
<1>3. /\ tip' \in [Outpoints -> Entries]
      /\ \A p \in Outpoints : Sound(tip'[p], db[p]) /\ Value(tip'[p], db[p]) = InTip(p)
  BY <1>2, AtOutpoint DEF IInv, TypeOK, InTip
<1> HIDE DEF e
<1>4. /\ IInv'
      /\ [p \in Outpoints |-> InTip(p)]' = [p \in Outpoints |-> InTip(p)]
      /\ [p \in Outpoints |-> InView(p)]' = [[p \in Outpoints |-> InView(p)] EXCEPT ![o] = c]
  BY <1>1, <1>2, <1>3, ViewCall
<1> QED
  BY <1>2, <1>4 DEF Map!Add

\* SpendCoin returns the coin and removes it from the map.
LEMMA SpendCoinStep ==
  ASSUME IInv, NEW o \in Outpoints, SpendCoin(o)
  PROVE  IInv' /\ Map!Spend(o)
<1> DEFINE e == SpentIn(view[o], InTip(o))
<1>1. e \in Entries /\ Sound(e, InTip(o)) /\ Value(e, InTip(o)) = NoCoin
  BY AtOutpoint, SpentSound
<1>2. /\ open /\ FetchForView(o) /\ view' = [view EXCEPT ![o] = e] /\ UNCHANGED <<db, open>>
      /\ call' = <<"spend", o, Fetched(view[o], InTip(o)).coin>>
  BY DEF SpendCoin
<1>3. Fetched(view[o], InTip(o)).coin = InView(o)
  BY AtOutpoint, FetchedSound DEF InView
<1> HIDE DEF e
<1>4. /\ IInv'
      /\ [p \in Outpoints |-> InTip(p)]' = [p \in Outpoints |-> InTip(p)]
      /\ [p \in Outpoints |-> InView(p)]' = [[p \in Outpoints |-> InView(p)] EXCEPT ![o] = NoCoin]
  BY <1>1, <1>2, FetchKeeps, ViewCall
<1> QED
  BY <1>2, <1>3, <1>4 DEF Map!Spend

\* A cache that is emptied shows its base.
LEMMA EmptyView ==
  ASSUME NEW c \in CoinOrNone, NEW o \in Outpoints
  PROVE  Empty[o] \in Entries /\ Sound(Empty[o], c) /\ Value(Empty[o], c) = c
BY AbsentSound DEF Empty

\* Flush of the view commits the working map.
LEMMA FlushViewStep ==
  ASSUME IInv, FlushView
  PROVE  IInv' /\ Map!Commit
<1>1. /\ tip' = [o \in Outpoints |-> Written(view[o], tip[o])]
      /\ view' = Empty /\ open' = FALSE /\ db' = db /\ call' = <<"commit">>
  BY DEF FlushView
<1>2. ASSUME NEW o \in Outpoints
      PROVE  /\ tip'[o] \in Entries /\ Sound(tip'[o], db'[o]) /\ InTip(o)' = InView(o)
             /\ Sound(view'[o], Value(tip'[o], db'[o])) /\ InView(o)' = InView(o)
             /\ view'[o] \in Entries
  <2>1. /\ Written(view[o], tip[o]) \in Entries /\ Sound(Written(view[o], tip[o]), db[o])
        /\ Value(Written(view[o], tip[o]), db[o]) = InView(o)
    BY AtOutpoint, WrittenSound DEF InTip, InView
  <2>2. tip'[o] = Written(view[o], tip[o])
    BY <1>1
  <2>3. Value(tip'[o], db'[o]) = InView(o)
    BY <1>1, <2>1, <2>2
  <2>4. /\ view'[o] \in Entries /\ Sound(view'[o], InView(o))
        /\ Value(view'[o], InView(o)) = InView(o)
    BY <1>1, AtOutpoint, EmptyView
  <2> QED
    BY <1>1, <2>1, <2>2, <2>3, <2>4 DEF InTip, InView
<1>3. tip' \in [Outpoints -> Entries] /\ view' \in [Outpoints -> Entries]
  BY <1>1, <1>2 DEF Empty
<1>4. IInv'
  BY <1>1, <1>2, <1>3, Pointwise DEF IInv, TypeOK
<1> QED
  BY <1>1, <1>2, <1>4 DEF Map!Commit

\* Destroying the view discards the working map.
LEMMA DropViewStep ==
  ASSUME IInv, DropView
  PROVE  IInv' /\ Map!Discard
<1>1. view' = Empty /\ open' = FALSE /\ UNCHANGED <<db, tip>> /\ call' = <<"discard">>
  BY DEF DropView
<1>2. ASSUME NEW o \in Outpoints
      PROVE  /\ view'[o] \in Entries /\ Sound(tip'[o], db'[o])
             /\ Sound(view'[o], Value(tip'[o], db'[o])) /\ InTip(o)' = InTip(o)
             /\ InView(o)' = InTip(o)
  BY <1>1, AtOutpoint, EmptyView DEF InTip, InView
<1>3. view' \in [Outpoints -> Entries]
  BY <1>1, <1>2 DEF Empty
<1>4. IInv'
  BY <1>1, <1>2, <1>3, Pointwise DEF IInv, TypeOK
<1> QED
  BY <1>1, <1>2, <1>4 DEF Map!Discard

\* Between blocks CoinsTip may be refilled in any sound way that shows the same coins.
LEMMA TipStep ==
  ASSUME IInv, ~open, UNCHANGED <<view, open>>,
         db' \in [Outpoints -> CoinOrNone], tip' \in [Outpoints -> Entries],
         \A o \in Outpoints : Sound(tip'[o], db'[o]) /\ Value(tip'[o], db'[o]) = InTip(o)
  PROVE  /\ IInv'
         /\ [p \in Outpoints |-> InTip(p)]' = [p \in Outpoints |-> InTip(p)]
         /\ [p \in Outpoints |-> InView(p)]' = [p \in Outpoints |-> InView(p)]
         /\ \A o \in Outpoints : InView(o) = InTip(o)
<1>1. \A o \in Outpoints : Sound(view'[o], Value(tip'[o], db'[o]))
  BY AtOutpoint
<1>2. IInv'
  BY <1>1, Pointwise DEF IInv, TypeOK
<1>3. \A o \in Outpoints : InTip(o)' = InTip(o)
  BY DEF InTip
<1>4. \A o \in Outpoints : InView(o)' = InView(o)
  BY <1>3 DEF InView
<1>5. \A o \in Outpoints : InView(o) = InTip(o)
  BY AtOutpoint, EmptyView DEF InView, IInv
<1> QED
  BY <1>2, <1>3, <1>4, <1>5

\* A lookup in CoinsTip answers from the committed map.
LEMMA FetchTipStep ==
  ASSUME IInv, NEW o \in Outpoints, FetchTip(o)
  PROVE  IInv' /\ Map!GetCommitted(o)
<1> DEFINE e == Fetched(tip[o], db[o])
<1>1. e \in Entries /\ Sound(e, db[o]) /\ Value(e, db[o]) = InTip(o) /\ e.coin = InTip(o)
  BY AtOutpoint, FetchedSound DEF InTip
<1>2. /\ ~open /\ tip' = [tip EXCEPT ![o] = e] /\ UNCHANGED <<db, view, open>>
      /\ call' = <<"committed", o, InTip(o)>>
  BY <1>1 DEF FetchTip
<1> HIDE DEF e
<1>3. tip \in [Outpoints -> Entries] /\ db \in [Outpoints -> CoinOrNone]
  BY DEF IInv, TypeOK
<1>4. tip' \in [Outpoints -> Entries]
  BY <1>1, <1>2, <1>3
<1>5. \A p \in Outpoints : Sound(tip'[p], db'[p]) /\ Value(tip'[p], db'[p]) = InTip(p)
  BY <1>1, <1>2, <1>3, AtOutpoint DEF InTip
<1>6. /\ IInv'
      /\ [p \in Outpoints |-> InTip(p)]' = [p \in Outpoints |-> InTip(p)]
      /\ [p \in Outpoints |-> InView(p)]' = [p \in Outpoints |-> InView(p)]
  BY <1>2, <1>3, <1>4, <1>5, TipStep
<1> QED
  BY <1>2, <1>6 DEF Map!GetCommitted

\* Uncache is invisible.
LEMMA UncacheStep ==
  ASSUME IInv, NEW o \in Outpoints, Uncache(o)
  PROVE  IInv' /\ UNCHANGED Map!vars
<1> DEFINE e == Uncached(tip[o])
<1>1. e \in Entries /\ Sound(e, db[o]) /\ Value(e, db[o]) = InTip(o)
  BY AtOutpoint, UncachedSound DEF InTip
<1>2. ~open /\ tip' = [tip EXCEPT ![o] = e] /\ UNCHANGED <<db, view, open, call>>
  BY DEF Uncache
<1> HIDE DEF e
<1>3. tip \in [Outpoints -> Entries] /\ db \in [Outpoints -> CoinOrNone]
  BY DEF IInv, TypeOK
<1>4. tip' \in [Outpoints -> Entries]
  BY <1>1, <1>2, <1>3
<1>5. \A p \in Outpoints : Sound(tip'[p], db'[p]) /\ Value(tip'[p], db'[p]) = InTip(p)
  BY <1>1, <1>2, <1>3, AtOutpoint DEF InTip
<1>6. /\ IInv'
      /\ [p \in Outpoints |-> InTip(p)]' = [p \in Outpoints |-> InTip(p)]
      /\ [p \in Outpoints |-> InView(p)]' = [p \in Outpoints |-> InView(p)]
  BY <1>2, <1>3, <1>4, <1>5, TipStep
<1> QED
  BY <1>2, <1>6 DEF Map!vars

\* Flush and Sync of CoinsTip make the committed map durable.
LEMMA PersistStep ==
  ASSUME IInv, FlushTip \/ SyncTip
  PROVE  IInv' /\ Map!Persist
<1>1. /\ ~open /\ UNCHANGED <<view, open>> /\ call' = <<"persist">>
      /\ db' = [o \in Outpoints |-> Stored(tip[o], db[o])]
  BY DEF FlushTip, SyncTip
<1>2. ASSUME NEW o \in Outpoints
      PROVE  db'[o] = InTip(o) /\ db'[o] \in CoinOrNone
  BY <1>1, AtOutpoint, StoredValue DEF InTip
<1>3. db' = [o \in Outpoints |-> InTip(o)] /\ db' \in [Outpoints -> CoinOrNone]
  BY <1>1, <1>2
<1>4. ASSUME NEW o \in Outpoints
      PROVE  tip'[o] \in Entries /\ Sound(tip'[o], db'[o]) /\ Value(tip'[o], db'[o]) = InTip(o)
  <2>1. CASE FlushTip
    <3>1. tip' = Empty
      BY <2>1 DEF FlushTip
    <3> QED
      BY <1>2, <3>1, AtOutpoint, EmptyView
  <2>2. CASE SyncTip
    <3>1. tip'[o] = Cleaned(tip[o])
      BY <2>2 DEF SyncTip
    <3> QED
      BY <1>2, <3>1, AtOutpoint, CleanedSound DEF InTip
  <2> QED
    BY <2>1, <2>2
<1>5. tip' \in [Outpoints -> Entries]
  <2>1. tip' = Empty \/ tip' = [o \in Outpoints |-> Cleaned(tip[o])]
    BY DEF FlushTip, SyncTip
  <2> QED
    BY <1>4, <2>1 DEF Empty
<1>6. /\ IInv'
      /\ [p \in Outpoints |-> InTip(p)]' = [p \in Outpoints |-> InTip(p)]
      /\ [p \in Outpoints |-> InView(p)]' = [p \in Outpoints |-> InView(p)]
  BY <1>1, <1>3, <1>4, <1>5, TipStep
<1> QED
  BY <1>1, <1>3, <1>6 DEF Map!Persist

\* Opening the view is invisible: it is empty.
LEMMA OpenViewStep ==
  ASSUME IInv, OpenView
  PROVE  IInv' /\ UNCHANGED Map!vars
BY DEF OpenView, IInv, TypeOK, InTip, InView, Map!vars

-----------------------------------------------------------------------------
\* The initial caches are empty and the maps agree.
LEMMA InitSound == Init => IInv /\ Map!Init
<1> SUFFICES ASSUME Init PROVE IInv /\ Map!Init
  OBVIOUS
<1>1. \A o \in Outpoints : db[o] \in CoinOrNone
  BY DEF Init
<1>2. ASSUME NEW o \in Outpoints
      PROVE  /\ tip[o] \in Entries /\ view[o] \in Entries /\ Sound(tip[o], db[o])
             /\ Sound(view[o], InTip(o)) /\ InTip(o) = db[o] /\ InView(o) = db[o]
  BY <1>1, EmptyView DEF Init, InTip, InView
<1>3. IInv
  BY <1>2 DEF Init, IInv, TypeOK, Empty
<1>4. [o \in Outpoints |-> InTip(o)] = db /\ [o \in Outpoints |-> InView(o)] = db
  BY <1>2 DEF Init
<1> QED
  BY <1>3, <1>4 DEF Init, Map!Init, Map!Maps, CoinOrNone

\* Every step keeps the invariant and is a step of the maps or invisible.
LEMMA StepSound == IInv /\ [Next]_vars => IInv' /\ [Map!Next]_(Map!vars)
<1> SUFFICES ASSUME IInv, [Next]_vars PROVE IInv' /\ (Map!Next \/ UNCHANGED Map!vars)
  OBVIOUS
<1>1. CASE OpenView
  BY <1>1, OpenViewStep
<1>2. CASE FlushView
  BY <1>2, FlushViewStep DEF Map!Next
<1>3. CASE DropView
  BY <1>3, DropViewStep DEF Map!Next
<1>4. CASE FlushTip \/ SyncTip
  BY <1>4, PersistStep DEF Map!Next
<1>5. ASSUME NEW o \in Outpoints, GetCoin(o)
      PROVE  IInv' /\ Map!Next
  BY <1>5, GetCoinStep DEF Map!Next
<1>6. ASSUME NEW o \in Outpoints, SpendCoin(o)
      PROVE  IInv' /\ Map!Next
  BY <1>6, SpendCoinStep DEF Map!Next
<1>7. ASSUME NEW o \in Outpoints, FetchTip(o)
      PROVE  IInv' /\ Map!Next
  BY <1>7, FetchTipStep DEF Map!Next
<1>8. ASSUME NEW o \in Outpoints, Uncache(o)
      PROVE  IInv' /\ UNCHANGED Map!vars
  BY <1>8, UncacheStep
<1>9. ASSUME NEW o \in Outpoints, NEW c \in Coins, NEW possible_overwrite \in BOOLEAN,
             AddCoin(o, c, possible_overwrite)
      PROVE  IInv' /\ Map!Next
  BY <1>9, AddCoinStep DEF Map!Next
<1>10. CASE UNCHANGED vars
  BY <1>10 DEF vars, IInv, TypeOK, InTip, InView, Empty, Map!vars
<1> QED
  BY <1>1, <1>2, <1>3, <1>4, <1>5, <1>6, <1>7, <1>8, <1>9, <1>10 DEF Next

\* The invariant gives what the assertions and the throws of coins.cpp test.
LEMMA SoundSuffices == IInv => TypeOK /\ SanityCheck /\ NoLogicError
<1> SUFFICES ASSUME IInv PROVE SanityCheck /\ NoLogicError
  BY DEF IInv
<1> SUFFICES ASSUME NEW o \in Outpoints
             PROVE  /\ FlagsValid(tip[o]) /\ FlagsValid(view[o])
                    /\ InView(o) = NoCoin => ~AddThrows(view[o], FALSE)
                    /\ ~WriteThrows(view[o], tip[o])
  BY DEF SanityCheck, NoLogicError
<1>1. /\ tip[o] \in Entries /\ view[o] \in Entries
      /\ Sound(tip[o], db[o]) /\ Sound(view[o], InTip(o))
  BY AtOutpoint
<1>2. FlagsValid(tip[o]) /\ FlagsValid(view[o])
  BY <1>1 DEF FlagsValid, Sound, Entries
<1>3. InView(o) = NoCoin => ~AddThrows(view[o], FALSE)
  BY <1>1 DEF InView, Value, AddThrows, Sound, Absent
<1>4. ~WriteThrows(view[o], tip[o])
  BY <1>1 DEF WriteThrows, InTip, Value, Sound, Absent
<1> QED
  BY <1>2, <1>3, <1>4

\* coins.cpp: no combination of flags that SanityCheck rejects, for any outpoints and coins.
THEOREM SanityHolds == Spec => [](TypeOK /\ SanityCheck)
<1>1. Init => IInv
  BY InitSound
<1>2. IInv /\ [Next]_vars => IInv'
  BY StepSound
<1>3. IInv => TypeOK /\ SanityCheck
  BY SoundSuffices
<1> QED
  BY <1>1, <1>2, <1>3, PTL DEF Spec

\* coins.cpp: neither logic_error of AddCoin and BatchWrite can be thrown.
THEOREM NoErrorHolds == Spec => []NoLogicError
<1>1. Init => IInv
  BY InitSound
<1>2. IInv /\ [Next]_vars => IInv'
  BY StepSound
<1>3. IInv => NoLogicError
  BY SoundSuffices
<1> QED
  BY <1>1, <1>2, <1>3, PTL DEF Spec

\* coins.cpp, coins.h: the caches with their flags implement plain maps of coins.
THEOREM CacheRefinesMap == Spec => ImplementsMap
<1>1. Init => IInv /\ Map!Init
  BY InitSound
<1>2. IInv /\ [Next]_vars => IInv' /\ [Map!Next]_(Map!vars)
  BY StepSound
<1> QED
  BY <1>1, <1>2, PTL DEF Spec, ImplementsMap, Map!Spec
=============================================================================
