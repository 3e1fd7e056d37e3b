-------------------------- MODULE LiveExecutionProofs --------------------------
(***************************************************************************)
(* Proofs about LiveExecution for every value of its constants: whatever   *)
(* stays unknown, crashes or works on stale images, the account has one    *)
(* position of the strategy, and a row that is over is flat and stays so.  *)
(***************************************************************************)
EXTENDS LiveExecution, FiniteSetTheorems, TLAPS

-----------------------------------------------------------------------------
\* Types.
Pcs == {"idle", "reserve", "intent", "submit", "sent", "plan", "rejected", "manage",
        "close", "closeSent", "funding"}
Local == [pc: Pcs, trade: Trades \cup {NoTrade}, row: Row, slot: SlotStatuses,
          block: BOOLEAN]

LEMMA IdleType == Idle \in Local /\ AbsentRow \in Row
BY DEF Idle, AbsentRow, Local, Pcs, Row, Statuses, SlotStatuses

LEMMA FlushType ==
    ASSUME NEW image \in Row, NEW target \in Row, NEW row \in Row
    PROVE  /\ Flush(image, target, row) \in Row
           /\ \A f \in {"live", "closed", "closeId"} :
                 Flush(image, target, row)[f] =
                     IF target[f] = image[f] THEN row[f] ELSE target[f]
BY DEF Flush, Row

LEMMA TargetTypes ==
    ASSUME NEW row \in Row, NEW status \in Statuses, NEW c \in Closes
    PROVE  /\ [row EXCEPT !.live = status] \in Row
           /\ [row EXCEPT !.live = status, !.closeId = c] \in Row
           /\ [row EXCEPT !.plans = IF @ = "none" THEN "sl" ELSE "both"] \in Row
<1>1. [row EXCEPT !.live = status] \in Row
  BY DEF Row
<1>2. [row EXCEPT !.live = status, !.closeId = c] \in Row
  BY DEF Row
<1>3. [row EXCEPT !.plans = IF @ = "none" THEN "sl" ELSE "both"] \in Row
  BY DEF Row
<1> QED
  BY <1>1, <1>2, <1>3

LEMMA FailedType ==
    ASSUME NEW row \in Row
    PROVE  /\ FailedRow(row) \in Row
           /\ FailedRow(row).live = "open_failed" /\ FailedRow(row).closed
           /\ FailedRow(row).closeId = row.closeId
BY DEF Row, Statuses, FailedRow

LEMMA FinalType ==
    ASSUME NEW row \in Row
    PROVE  /\ FinalRow(row) \in Row
           /\ FinalRow(row).live = "closed" /\ FinalRow(row).closed
           /\ FinalRow(row).closeId = row.closeId
BY DEF Row, Statuses, FinalRow

LEMMA WriteType ==
    ASSUME TypeOK, NEW th \in Threads, NEW target \in Row, Write(th, target)
    PROVE  trade' \in [Trades -> Row]
<1>1. CASE me[th].trade \in Trades
  <2>1. Flush(me[th].row, target, trade[me[th].trade]) \in Row
    BY <1>1, FlushType DEF TypeOK
  <2> QED
    BY <1>1, <2>1 DEF Write, TypeOK
<1>2. CASE me[th].trade \notin Trades
  BY <1>2 DEF Write, TypeOK
<1> QED
  BY <1>1, <1>2

LEMMA SlotType ==
    ASSUME TypeOK, NEW loaded, NEW status \in SlotStatuses,
           \/ SetSlot(loaded, status)
           \/ slot # None /\ slot' = [slot EXCEPT !.status = status]
    PROVE  slot' \in Slot \cup {None}
BY DEF TypeOK, SetSlot, Slot

LEMMA LocalType ==
    ASSUME TypeOK, NEW th \in Threads, NEW pc \in Pcs, NEW target \in Row,
           NEW status \in SlotStatuses,
           Go(th, pc) \/ Continue(th, pc, target, status) \/ Done(th)
    PROVE  me' \in [Threads -> Local]
BY IdleType DEF TypeOK, Go, Continue, Done, Local, Pcs

LEMMA BlockType == ASSUME TypeOK, NEW loaded, Block(loaded) PROVE block' \in BOOLEAN
BY DEF Block, TypeOK

-----------------------------------------------------------------------------
\* The inductive invariant.
OpenerPcs == {"reserve", "intent", "submit", "sent", "plan", "rejected"}

\* The thread works on a trade and holds an image of its row.
Holds(th) == me[th].pc \notin {"idle", "reserve"}

\* A trade whose row is neither free nor over.
Busy(t) == trade[t].live # "absent" /\ ~trade[t].closed

\* The exchange is done with t: nothing is held, nothing can fill, and no thread is
\* about to send its opening order.
Flat(t) ==
    /\ t \notin held
    /\ open[t] # "sent"
    /\ ~(me["scanner"].pc \in {"intent", "submit"} /\ me["scanner"].trade = t)

\* What a thread holds: an image of a row that was not over when it was loaded, whose
\* close order, if any, is one of the same trade.  Only the scanner opens, one trade at
\* a time, and sends an order only once.
ImageOK(th) ==
    /\ Holds(th) =>
          /\ me[th].trade \in Trades
          /\ trade[me[th].trade].live # "absent"
          /\ me[th].row.live \notin {"absent", "open_failed"}
          /\ me[th].pc # "funding" => ~me[th].row.closed
          /\ me[th].row.closeId # NoOrder =>
                 close[me[th].row.closeId].trade = me[th].trade
          /\ me[th].pc \in {"close", "closeSent"} => me[th].row.closeId # NoOrder
    /\ me[th].pc \in OpenerPcs => th = "scanner"
    /\ me[th].pc \in {"intent", "submit", "rejected"} => open[me[th].trade] = "none"
    /\ me[th].pc = "reserve" => \A t \in Trades : ~Busy(t)

\* What the rows and the exchange know of each other.
RowOK(t) ==
    /\ trade[t].live = "absent" =>
          /\ ~trade[t].closed
          /\ open[t] = "none"
          /\ \A c \in Closes : close[c].trade # t
    /\ trade[t].live = "open_failed" => trade[t].closed
    /\ trade[t].closed => Flat(t)
    /\ t \in held => open[t] = "filled"
    /\ trade[t].closeId # NoOrder => close[trade[t].closeId].trade = t

CloseOK(c) ==
    /\ close[c].status = "none" <=> close[c].trade = NoTrade
    /\ close[c].status = "filled" => Flat(close[c].trade)

ImagesOK == \A th \in Threads : ImageOK(th)
RowsOK == (\A t \in Trades : RowOK(t)) /\ (\A c \in Closes : CloseOK(c))
OneBusy == \A t, u \in Trades : Busy(t) /\ Busy(u) => t = u

LiveInv == TypeOK /\ ImagesOK /\ RowsOK /\ OneBusy

-----------------------------------------------------------------------------
\* A thread that does not move keeps a good image.
LEMMA ImageStays ==
    ASSUME TypeOK, NEW th \in Threads, ImageOK(th), me'[th] = me[th],
           \A t \in Trades : trade[t].live # "absent" => trade'[t].live # "absent",
           \A c \in Closes : close[c].trade # NoTrade => close'[c].trade = close[c].trade,
           th = "scanner" => \A t \in Trades : /\ Busy(t)' => Busy(t)
                                               /\ open[t] = "none" => open'[t] = "none"
    PROVE  ImageOK(th)'
<1>1. CASE Holds(th)
  <2>1. me[th].trade \in Trades /\ me[th].trade # NoTrade /\ me[th].row \in Row
    BY <1>1 DEF ImageOK, Trades, NoTrade, TypeOK
  <2>2. me[th].row.closeId \in Closes \cup {NoOrder}
    BY <2>1 DEF Row
  <2> QED
    BY <1>1, <2>1, <2>2 DEF ImageOK, Holds, OpenerPcs
<1>2. CASE ~Holds(th)
  BY <1>2 DEF ImageOK, Holds, OpenerPcs
<1> QED
  BY <1>1, <1>2

\* The close orders after a step: the same trades, at most one more order, and none that
\* has come to be filled.
ClosesMove ==
    \A c \in Closes :
        \/ /\ close'[c].trade = close[c].trade
           /\ close'[c].status = "none" <=> close[c].status = "none"
           /\ close'[c].status = "filled" => close[c].status = "filled"
        \/ /\ close[c].trade = NoTrade
           /\ close'[c].trade \in Trades
           /\ trade[close'[c].trade].live # "absent"
           /\ close'[c].status = "minted"

\* The rows after a step: none becomes free, reopens or starts, and one that ends is flat.
RowsMove ==
    \A t \in Trades :
        /\ trade'[t].live = "absent" <=> trade[t].live = "absent"
        /\ trade[t].live = "absent" => trade'[t] = trade[t]
        /\ trade[t].closed => trade'[t].closed
        /\ trade'[t].closed => trade[t].closed \/ Flat(t)'
        /\ trade'[t].live = "open_failed" => trade'[t].closed
        /\ trade'[t].closeId # NoOrder => close'[trade'[t].closeId].trade = t

FlatStays == \A t \in Trades : Flat(t) => Flat(t)'

\* What every step but a reservation and those of the exchange achieves.
Kept == LiveInv' /\ RowsMove

LEMMA RowsStay ==
    ASSUME LiveInv, RowsMove, ClosesMove, FlatStays, open' = open, held' = held
    PROVE  RowsOK' /\ OneBusy'
<1>1. OneBusy'
  BY DEF LiveInv, OneBusy, Busy, RowsMove
<1>2. ASSUME NEW t \in Trades PROVE RowOK(t)'
  <2>1. t # NoTrade
    BY DEF Trades, NoTrade
  <2>2. RowOK(t)
    BY DEF LiveInv, RowsOK
  <2>3. trade'[t].closed => Flat(t)'
    BY <2>2 DEF RowOK, RowsMove, FlatStays
  <2>4. trade[t].live = "absent" => \A c \in Closes : close'[c].trade # t
    BY <2>2 DEF RowOK, ClosesMove
  <2> QED
    BY <2>2, <2>3, <2>4 DEF RowOK, RowsMove
<1>3. ASSUME NEW c \in Closes PROVE CloseOK(c)'
  <2>1. CloseOK(c) /\ close[c].trade \in Trades \cup {NoTrade}
    BY DEF LiveInv, RowsOK, TypeOK
  <2>2. \A t \in Trades : t # NoTrade
    BY DEF Trades, NoTrade
  <2> QED
    BY <2>1, <2>2 DEF CloseOK, ClosesMove, FlatStays
<1> QED
  BY <1>1, <1>2, <1>3 DEF RowsOK

-----------------------------------------------------------------------------
\* The shape of almost every step: a thread writes target through its image and is
\* afterwards idle, or goes on with target as its image.
GoesOn(th, target, local) ==
    /\ local.trade = me[th].trade
    /\ local.row = target
    /\ target.live # "open_failed"
    /\ local.pc \in {"submit", "plan", "close", "funding"}
    /\ local.pc \in {"submit", "plan"} => th = "scanner"
    /\ local.pc = "submit" => me[th].pc = "intent"
    /\ local.pc = "close" => target.closeId # NoOrder
    /\ local.pc # "funding" => ~target.closed

ThreadWrites(th, target, local) ==
    /\ Holds(th) /\ me[th].pc # "funding"
    /\ Write(th, target)
    /\ target \in Row
    /\ target.live # "absent"
    /\ target.live = "open_failed" => target.closed
    /\ target.closeId # NoOrder => close'[target.closeId].trade = me[th].trade
    /\ target.closed => Flat(me[th].trade)
    /\ me' = [me EXCEPT ![th] = local]
    /\ local \in Local
    /\ local = Idle \/ GoesOn(th, target, local)
    /\ ClosesMove
    /\ close' \in [Closes -> [trade: Trades \cup {NoTrade},
                              status: {"none", "minted", "sent", "filled", "partial", "dead"}]]
    /\ UNCHANGED <<open, held>>
    /\ slot' \in Slot \cup {None}
    /\ block' \in BOOLEAN

LEMMA WriteRows ==
    ASSUME LiveInv, NEW th \in Threads, NEW target, NEW local,
           ThreadWrites(th, target, local), FlatStays
    PROVE  RowsMove
<1> DEFINE image == me[th].row
<1>0. PICK t \in Trades : t = me[th].trade
  BY DEF LiveInv, ImagesOK, ImageOK, ThreadWrites
<1>1. /\ trade[t].live # "absent" /\ RowOK(t)
      /\ image \in Row /\ image.live \notin {"absent", "open_failed"} /\ ~image.closed
  BY <1>0 DEF LiveInv, ImagesOK, ImageOK, RowsOK, ThreadWrites, TypeOK
<1>2. trade[t] \in Row /\ target \in Row /\ trade' = [trade EXCEPT ![t] = Flush(image, target, trade[t])]
  BY <1>0, <1>1 DEF ThreadWrites, Write, LiveInv, TypeOK
<1>3. trade'[t] = Flush(image, target, trade[t])
  BY <1>1, <1>2 DEF LiveInv, TypeOK
<1>4. \A f \in {"live", "closed", "closeId"} :
         trade'[t][f] = IF target[f] = image[f] THEN trade[t][f] ELSE target[f]
  BY <1>1, <1>2, <1>3, FlushType
<1>5. /\ trade'[t].live = IF target.live = image.live THEN trade[t].live ELSE target.live
      /\ trade'[t].closed = IF target.closed = image.closed THEN trade[t].closed
                            ELSE target.closed
      /\ trade'[t].closeId = IF target.closeId = image.closeId THEN trade[t].closeId
                             ELSE target.closeId
  BY <1>4
<1>6. \A u \in Trades : u # t => trade'[u] = trade[u]
  BY <1>2 DEF LiveInv, TypeOK
<1>7. \A c \in Closes : close[c].trade # NoTrade => close'[c].trade = close[c].trade
  BY DEF ThreadWrites, ClosesMove
<1>8. \A u \in Trades : trade[u].closeId # NoOrder =>
         /\ trade[u].closeId \in Closes /\ u # NoTrade
         /\ close'[trade[u].closeId].trade = u
  <2> SUFFICES ASSUME NEW u \in Trades, trade[u].closeId # NoOrder
               PROVE  /\ trade[u].closeId \in Closes /\ u # NoTrade
                      /\ close'[trade[u].closeId].trade = u
    OBVIOUS
  <2>1. trade[u] \in Row /\ RowOK(u) /\ u # NoTrade
    BY DEF LiveInv, RowsOK, TypeOK, Trades, NoTrade
  <2>2. trade[u].closeId \in Closes /\ close[trade[u].closeId].trade = u
    BY <2>1 DEF Row, RowOK
  <2> QED
    BY <1>7, <2>1, <2>2
<1>9. /\ trade'[t].live # "absent"
      /\ trade[t].closed => trade'[t].closed
      /\ trade'[t].closed => trade[t].closed \/ Flat(t)'
      /\ trade'[t].live = "open_failed" => trade'[t].closed
      /\ trade'[t].closeId # NoOrder => close'[trade'[t].closeId].trade = t
  <2>1. trade[t].closed \in BOOLEAN /\ target.closed \in BOOLEAN /\ image.closed \in BOOLEAN
    BY <1>1, <1>2 DEF Row
  <2>2. /\ trade'[t].live # "absent"
        /\ trade[t].closed => trade'[t].closed
        /\ trade'[t].closed => trade[t].closed \/ target.closed
        /\ trade'[t].live = "open_failed" => trade'[t].closed
    BY <1>1, <1>5, <2>1 DEF ThreadWrites, RowOK
  <2>3. target.closed => Flat(t)'
    BY <1>0 DEF ThreadWrites, FlatStays
  <2>4. trade'[t].closeId # NoOrder => close'[trade'[t].closeId].trade = t
    BY <1>0, <1>1, <1>5, <1>8 DEF ThreadWrites
  <2> QED
    BY <2>2, <2>3, <2>4
<1>10. ASSUME NEW u \in Trades, u # t
       PROVE  /\ trade'[u] = trade[u]
              /\ trade[u].live = "open_failed" => trade[u].closed
              /\ trade[u].closeId # NoOrder => close'[trade[u].closeId].trade = u
  BY <1>6, <1>8, <1>10 DEF LiveInv, RowsOK, RowOK
<1> QED
  BY <1>1, <1>9, <1>10 DEF RowsMove

LEMMA WriteInv ==
    ASSUME LiveInv, NEW th \in Threads, NEW target, NEW local, ThreadWrites(th, target, local)
    PROVE  Kept
<1>1. /\ TypeOK /\ ImagesOK /\ RowsOK /\ me \in [Threads -> Local]
      /\ open' = open /\ held' = held /\ ClosesMove
  BY DEF LiveInv, TypeOK, ThreadWrites, Local, Pcs
<1>2. me'[th] = local /\ \A o \in Threads : o # th => me'[o] = me[o]
  BY <1>1 DEF ThreadWrites
<1>3. FlatStays
  <2> SUFFICES ASSUME NEW t \in Trades, Flat(t),
                      me'["scanner"].pc \in {"intent", "submit"}, me'["scanner"].trade = t
               PROVE  FALSE
    BY <1>1 DEF FlatStays, Flat
  <2>1. CASE th = "scanner"
    <3>1. local.pc = "submit" /\ local.trade = me["scanner"].trade /\ me["scanner"].pc = "intent"
      BY <1>2, <2>1 DEF ThreadWrites, GoesOn, Idle
    <3> QED
      BY <1>2, <2>1, <3>1 DEF Flat
  <2>2. CASE th # "scanner"
    BY <1>2, <2>2 DEF Flat, Threads
  <2> QED
    BY <2>1, <2>2
<1>4. RowsMove
  BY <1>3, WriteRows
<1>5. RowsOK' /\ OneBusy'
  BY <1>1, <1>3, <1>4, RowsStay
<1>6. \A c \in Closes : close[c].trade # NoTrade => close'[c].trade = close[c].trade
  BY <1>1 DEF ClosesMove
<1>7. ASSUME NEW o \in Threads, o # th PROVE ImageOK(o)'
  BY <1>1, <1>2, <1>4, <1>6, <1>7, ImageStays DEF ImagesOK, RowsMove, Busy
<1>8. ImageOK(th)'
  <2>1. CASE local = Idle
    BY <1>2, <2>1 DEF ImageOK, Holds, Idle, OpenerPcs
  <2>2. CASE GoesOn(th, target, local)
    <3>1. ImageOK(th) /\ Holds(th) /\ me[th].trade \in Trades
          /\ trade[me[th].trade].live # "absent"
      BY <1>1 DEF ImagesOK, ImageOK, ThreadWrites
    <3>2. trade'[me[th].trade].live # "absent"
      BY <1>4, <3>1 DEF RowsMove
    <3>3. local.pc = "submit" => open'[local.trade] = "none"
      BY <1>1, <2>2, <3>1 DEF ImageOK, GoesOn
    <3> QED
      BY <1>2, <2>2, <3>1, <3>2, <3>3 DEF ImageOK, Holds, GoesOn, ThreadWrites, OpenerPcs
  <2> QED
    BY <2>1, <2>2 DEF ThreadWrites
<1>9. TypeOK'
  <2>1. trade' \in [Trades -> Row]
    BY <1>1, WriteType DEF ThreadWrites
  <2>2. me' \in [Threads -> Local]
    BY <1>1 DEF ThreadWrites
  <2> QED
    BY <1>1, <2>1, <2>2 DEF TypeOK, ThreadWrites, Local, Pcs
<1> QED
  BY <1>4, <1>5, <1>7, <1>8, <1>9 DEF Kept, LiveInv, ImagesOK

-----------------------------------------------------------------------------
\* An order the exchange has decided is not sent again.
LEMMA DecidedIsFlat ==
    ASSUME LiveInv, NEW t \in Trades, t \notin held, open[t] \in {"filled", "dead"}
    PROVE  Flat(t)
BY DEF LiveInv, ImagesOK, ImageOK, Threads, Flat

LEMMA HeldImage ==
    ASSUME LiveInv, NEW th \in Threads, Holds(th), me[th].pc # "funding"
    PROVE  /\ me[th].trade \in Trades /\ me[th].row \in Row /\ ~me[th].row.closed
           /\ me[th].row.live \notin {"absent", "open_failed"}
           /\ trade[me[th].trade].live # "absent"
           /\ me[th].row.closeId # NoOrder =>
                 /\ me[th].row.closeId \in Closes
                 /\ close[me[th].row.closeId].trade = me[th].trade
BY DEF LiveInv, ImagesOK, ImageOK, TypeOK, Row

Orders == [Closes -> [trade: Trades \cup {NoTrade},
                      status: {"none", "minted", "sent", "filled", "partial", "dead"}]]

\* No new order, and what became of the ones there are is not a fill.
LEMMA SameOrders ==
    ASSUME TypeOK, \A c \in Closes : CloseOK(c),
           \/ close' = close
           \/ \E c \in Closes, status \in {"sent", "dead"} :
                 /\ close[c].status # "none"
                 /\ close' = [close EXCEPT ![c].status = status]
    PROVE  ClosesMove /\ close' \in Orders
BY DEF TypeOK, ClosesMove, Orders

LEMMA ContinueLocal ==
    ASSUME TypeOK, NEW th \in Threads, NEW pc \in Pcs, NEW target \in Row,
           NEW status \in SlotStatuses, Continue(th, pc, target, status)
    PROVE  \E local \in Local :
              /\ me' = [me EXCEPT ![th] = local]
              /\ local.pc = pc /\ local.trade = me[th].trade /\ local.row = target
<1> DEFINE local == [me[th] EXCEPT !.pc = pc, !.row = target, !.slot = status]
<1>1. me[th] \in Local
  BY DEF TypeOK, Local, Pcs
<1>2. local \in Local /\ local.pc = pc /\ local.trade = me[th].trade /\ local.row = target
  BY <1>1 DEF Local
<1>3. me' = [me EXCEPT ![th] = local]
  BY DEF Continue, TypeOK
<1> QED
  BY <1>2, <1>3

\* A thread writes the row and is done.
LEMMA WriteDone ==
    ASSUME LiveInv, NEW th \in Threads, Holds(th), me[th].pc # "funding",
           NEW target \in Row, Write(th, target), Done(th),
           target.live # "absent", target.live = "open_failed" => target.closed,
           target.closed => Flat(me[th].trade),
           target.closeId = me[th].row.closeId,
           ClosesMove, close' \in Orders, UNCHANGED <<open, held>>,
           slot' \in Slot \cup {None}, block' \in BOOLEAN
    PROVE  Kept
<1>1. target.closeId # NoOrder => close'[target.closeId].trade = me[th].trade
  <2>1. \A c \in Closes : close[c].trade # NoTrade => close'[c].trade = close[c].trade
    BY DEF ClosesMove
  <2> QED
    BY <2>1, HeldImage DEF Trades, NoTrade
<1>2. ThreadWrites(th, target, Idle)
  BY <1>1, IdleType DEF ThreadWrites, Done, Orders
<1> QED
  BY <1>2, WriteInv

\* A thread writes the row and goes on with what it wrote.
LEMMA WriteGoesOn ==
    ASSUME LiveInv, NEW th \in Threads, Holds(th), me[th].pc # "funding",
           NEW target \in Row, Write(th, target),
           NEW pc \in {"submit", "plan", "close", "funding"}, NEW status \in SlotStatuses,
           Continue(th, pc, target, status),
           target.live \notin {"absent", "open_failed"},
           target.closed => Flat(me[th].trade),
           pc \in {"submit", "plan"} => th = "scanner",
           pc = "submit" => me[th].pc = "intent",
           pc = "close" => target.closeId # NoOrder,
           pc # "funding" => ~target.closed,
           target.closeId # NoOrder => close'[target.closeId].trade = me[th].trade,
           ClosesMove, close' \in Orders, UNCHANGED <<open, held>>,
           slot' \in Slot \cup {None}, block' \in BOOLEAN
    PROVE  Kept
<1>1. PICK local \in Local :
         /\ me' = [me EXCEPT ![th] = local]
         /\ local.pc = pc /\ local.trade = me[th].trade /\ local.row = target
  BY ContinueLocal DEF LiveInv, Pcs
<1>2. GoesOn(th, target, local)
  BY <1>1 DEF GoesOn
<1>3. ThreadWrites(th, target, local)
  BY <1>1, <1>2 DEF ThreadWrites, Orders
<1> QED
  BY <1>3, WriteInv

LEMMA SameId ==
    ASSUME LiveInv, NEW th \in Threads, Holds(th), me[th].pc # "funding", ClosesMove,
           me[th].row.closeId # NoOrder
    PROVE  close'[me[th].row.closeId].trade = me[th].trade
BY HeldImage DEF ClosesMove, Trades, NoTrade

LEMMA FinalizeInv ==
    ASSUME LiveInv, NEW th \in Threads, Holds(th), me[th].pc # "funding",
           Flat(me[th].trade), Finalize(th),
           ClosesMove, close' \in Orders, UNCHANGED <<open, held>>
    PROVE  Kept
<1> DEFINE target == FinalRow(me[th].row)
<1>1. /\ target \in Row /\ target.live = "closed"
      /\ target.closeId = me[th].row.closeId
  BY HeldImage, FinalType
<1>2. /\ Write(th, target) /\ Continue(th, "funding", target, "active")
      /\ slot' \in Slot \cup {None} /\ block' \in BOOLEAN
  BY DEF Finalize, LiveInv, TypeOK
<1>3. "active" \in SlotStatuses
  BY DEF SlotStatuses
<1> QED
  BY <1>1, <1>2, <1>3, SameId, WriteGoesOn

\* A filled close order, or a position that the history shows to be closed, is flat.
LEMMA FilledIsFlat ==
    ASSUME LiveInv, NEW th \in Threads, Holds(th), me[th].pc # "funding",
           me[th].row.closeId # NoOrder, FullyFilled(me[th].row.closeId)
    PROVE  Flat(me[th].trade)
BY HeldImage DEF LiveInv, RowsOK, CloseOK, FullyFilled

LEMMA ReconcileInv ==
    ASSUME LiveInv, NEW th \in Threads, Holds(th), me[th].pc # "funding", Reconcile(th)
    PROVE  Kept
<1> DEFINE row == me[th].row
<1>1. /\ row \in Row /\ ~row.closed /\ me[th].trade \in Trades /\ TypeOK
      /\ open' = open /\ held' = held /\ close' = close
  BY HeldImage DEF Reconcile, exchange, LiveInv
<1>2. ClosesMove /\ close' \in Orders
  BY <1>1, SameOrders DEF LiveInv, RowsOK
<1>3. slot # None
  BY DEF Reconcile
<1>4. slot' = [slot EXCEPT !.status = "active"] => slot' \in Slot \cup {None}
  BY <1>1, <1>3, SlotType DEF SlotStatuses
<1>5. CASE ReconcileOpen(th)
  <2>1. CASE /\ Write(th, FilledRow(row, "tp_sl_unprotected"))
             /\ slot' = [slot EXCEPT !.status = "active"]
             /\ Block(me[th].block) /\ Done(th)
    <3>1. FilledRow(row, "tp_sl_unprotected") \in Row
      BY <1>1 DEF FilledRow, Row, Statuses
    <3>2. /\ FilledRow(row, "tp_sl_unprotected").live = "tp_sl_unprotected"
          /\ FilledRow(row, "tp_sl_unprotected").closed = row.closed
          /\ FilledRow(row, "tp_sl_unprotected").closeId = row.closeId
      BY <1>1 DEF FilledRow, Row
    <3>3. block' \in BOOLEAN
      BY <1>1, <2>1, BlockType
    <3> QED
      BY <1>1, <1>2, <1>4, <2>1, <3>1, <3>2, <3>3, WriteDone
  <2>2. CASE /\ ConfirmedUnfilled(me[th].trade) /\ Write(th, FailedRow(row))
             /\ slot' = None /\ Done(th) /\ block' = block
    <3>1. me[th].trade \notin held
      BY <1>1, <2>2 DEF ConfirmedUnfilled, LiveInv, RowsOK, RowOK
    <3>2. Flat(me[th].trade)
      BY <1>1, <2>2, <3>1, DecidedIsFlat DEF ConfirmedUnfilled
    <3>3. block' \in BOOLEAN
      BY <1>1, <2>2 DEF TypeOK
    <3> QED
      BY <1>1, <1>2, <2>2, <3>2, <3>3, FailedType, WriteDone
  <2> QED
    BY <1>5, <2>1, <2>2 DEF ReconcileOpen
<1>6. CASE ReconcileClose(th)
  <2>1. CASE FullyFilled(row.closeId) /\ Finalize(th)
    BY <1>1, <1>2, <1>6, <2>1, FilledIsFlat, FinalizeInv DEF ReconcileClose
  <2>2. CASE /\ Write(th, [row EXCEPT !.live = "close_failed"])
             /\ slot' = [slot EXCEPT !.status = "active"] /\ Done(th) /\ block' = block
    <3> DEFINE target == [row EXCEPT !.live = "close_failed"]
    <3>1. target \in Row /\ target.live = "close_failed" /\ target.closed = row.closed
          /\ target.closeId = row.closeId
      BY <1>1 DEF Row, Statuses
    <3>2. block' \in BOOLEAN
      BY <1>1, <2>2 DEF TypeOK
    <3> QED
      BY <1>1, <1>2, <1>4, <2>2, <3>1, <3>2, WriteDone
  <2> QED
    BY <1>6, <2>1, <2>2 DEF ReconcileClose
<1> QED
  BY <1>5, <1>6 DEF Reconcile

-----------------------------------------------------------------------------
\* Steps that write no row, or only what became of the funding.
FundingOnly ==
    \A t \in Trades : /\ trade'[t].live = trade[t].live
                      /\ trade'[t].closed = trade[t].closed
                      /\ trade'[t].closeId = trade[t].closeId
                      /\ trade[t].live = "absent" => trade'[t] = trade[t]

LEMMA FundingRows ==
    ASSUME LiveInv, FundingOnly, ClosesMove PROVE RowsMove
<1> SUFFICES ASSUME NEW t \in Trades, trade[t].closeId # NoOrder
             PROVE  close'[trade[t].closeId].trade = t
  BY DEF RowsMove, FundingOnly, LiveInv, RowsOK, RowOK
<1>1. trade[t].closeId \in Closes /\ close[trade[t].closeId].trade = t /\ t # NoTrade
  BY DEF LiveInv, RowsOK, RowOK, TypeOK, Row, Trades, NoTrade
<1> QED
  BY <1>1 DEF ClosesMove

LEMMA LocalStep ==
    ASSUME LiveInv, NEW th \in Threads, FundingOnly, trade' \in [Trades -> Row],
           ClosesMove, close' \in Orders, UNCHANGED <<open, held>>,
           slot' = slot, block' \in BOOLEAN,
           NEW local \in Local, me' = [me EXCEPT ![th] = local],
           local.pc \in {"intent", "submit"} => local = me[th], ImageOK(th)'
    PROVE  Kept
<1>1. /\ TypeOK /\ me'[th] = local /\ \A o \in Threads : o # th => me'[o] = me[o]
  BY DEF LiveInv, TypeOK
<1>2. FlatStays
  BY <1>1 DEF FlatStays, Flat, Threads
<1>3. RowsMove
  BY FundingRows
<1>4. RowsOK' /\ OneBusy'
  BY <1>2, <1>3, RowsStay
<1>5. \A c \in Closes : close[c].trade # NoTrade => close'[c].trade = close[c].trade
  BY DEF ClosesMove
<1>6. ASSUME NEW o \in Threads, o # th PROVE ImageOK(o)'
  BY <1>1, <1>3, <1>5, <1>6, ImageStays DEF LiveInv, ImagesOK, RowsMove, Busy
<1>7. TypeOK'
  BY <1>1 DEF LiveInv, TypeOK, Orders, Local, Pcs
<1> QED
  BY <1>3, <1>4, <1>6, <1>7 DEF Kept, LiveInv, ImagesOK

LEMMA DoneStep ==
    ASSUME LiveInv, NEW th \in Threads, FundingOnly, trade' \in [Trades -> Row], Done(th),
           slot' = slot, block' \in BOOLEAN, UNCHANGED exchange
    PROVE  Kept
<1>1. me' = [me EXCEPT ![th] = Idle] /\ Idle.pc = "idle"
  BY DEF Done, Idle
<1>2. ClosesMove /\ close' \in Orders
  BY SameOrders DEF LiveInv, RowsOK, exchange
<1>3. me'[th] = Idle
  BY <1>1 DEF LiveInv, TypeOK
<1>4. ImageOK(th)'
  BY <1>1, <1>3 DEF ImageOK, Holds, OpenerPcs
<1> QED
  BY <1>1, <1>2, <1>4, IdleType, LocalStep DEF exchange

LEMMA SameFunding ==
    ASSUME LiveInv, trade' = trade PROVE FundingOnly /\ trade' \in [Trades -> Row]
BY DEF LiveInv, TypeOK, FundingOnly

\* Loading an image, sending a close, giving up, looking at the funding.
LEMMA LoadInv ==
    ASSUME LiveInv, NEW th \in Threads, NEW t \in Trades, Load(th, t)
    PROVE  Kept
<1> DEFINE local == [Idle EXCEPT !.pc = "manage", !.trade = t, !.row = trade[t],
                                 !.block = block]
<1>1. TypeOK /\ trade[t] \in Row /\ RowOK(t)
  BY DEF LiveInv, TypeOK, RowsOK
<1>2. local.pc = "manage" /\ local.trade = t /\ local.row = trade[t]
  BY IdleType DEF Local
<1>3. local \in Local
  BY <1>1, IdleType DEF Local, Pcs, TypeOK
<1>4. me' = [me EXCEPT ![th] = local] /\ UNCHANGED <<db, exchange>>
  BY DEF Load
<1>5. me'[th] = local
  BY <1>1, <1>4 DEF TypeOK
<1>6. trade[t].live # "absent" /\ trade[t].live # "open_failed" /\ ~trade[t].closed
  BY DEF Load, Unclosed
<1>7. ImageOK(th)'
  BY <1>1, <1>2, <1>4, <1>5, <1>6 DEF ImageOK, Holds, OpenerPcs, RowOK, db, exchange
<1>8. ClosesMove /\ close' \in Orders /\ block' \in BOOLEAN
  BY <1>1, <1>4, SameOrders DEF LiveInv, RowsOK, exchange, db, TypeOK
<1> QED
  BY <1>2, <1>3, <1>4, <1>7, <1>8, SameFunding, LocalStep DEF db, exchange

LEMMA CloseSubmitInv ==
    ASSUME LiveInv, NEW th \in Threads, CloseSubmit(th)
    PROVE  Kept
<1>1. /\ me[th].pc = "close" /\ Holds(th) /\ TypeOK /\ ImageOK(th) /\ me[th] \in Local
  BY DEF CloseSubmit, Holds, LiveInv, ImagesOK, TypeOK, Local, Pcs
<1>2. /\ me[th].row.closeId \in Closes /\ close[me[th].row.closeId].trade = me[th].trade
      /\ me[th].trade # NoTrade
  BY <1>1, HeldImage DEF ImageOK, Trades, NoTrade
<1>3. PICK c \in Closes : c = me[th].row.closeId
  BY <1>2
<1>4. close' = [close EXCEPT ![c].status = "sent"] /\ close[c].status # "none"
  BY <1>2, <1>3 DEF CloseSubmit, LiveInv, RowsOK, CloseOK
<1>5. ClosesMove /\ close' \in Orders
  BY <1>1, <1>4, SameOrders DEF LiveInv, RowsOK
<1>6. PICK local \in Local : local = [me[th] EXCEPT !.pc = "closeSent"]
  BY <1>1 DEF Local, Pcs
<1>7. me' = [me EXCEPT ![th] = local]
  BY <1>6 DEF CloseSubmit, Go
<1>8. /\ me'[th] = local /\ local.pc = "closeSent" /\ local.trade = me[th].trade
      /\ local.row = me[th].row
  BY <1>1, <1>6, <1>7 DEF TypeOK, Local
<1>9. trade' = trade /\ block' = block /\ slot' = slot /\ open' = open /\ held' = held
  BY DEF CloseSubmit, db
<1>10. close'[c].trade = close[c].trade
  BY <1>1, <1>4 DEF TypeOK
<1>11. ImageOK(th)'
  BY <1>1, <1>2, <1>3, <1>8, <1>9, <1>10 DEF ImageOK, Holds, OpenerPcs
<1>12. block' \in BOOLEAN
  BY <1>1, <1>9 DEF TypeOK
<1> QED
  BY <1>5, <1>7, <1>8, <1>9, <1>11, <1>12, SameFunding, LocalStep

LEMMA FundingType ==
    ASSUME LiveInv, NEW t \in Trades, NEW status \in {"pending", "reconciled"},
           trade[t].live # "absent", trade' = [trade EXCEPT ![t].funding = status]
    PROVE  FundingOnly /\ trade' \in [Trades -> Row]
<1>1. TypeOK /\ trade[t] \in Row
  BY DEF LiveInv, TypeOK
<1>2. PICK r \in Row : r = [trade[t] EXCEPT !.funding = status]
  BY <1>1 DEF Row
<1>3. trade' = [trade EXCEPT ![t] = r]
  BY <1>1, <1>2 DEF TypeOK
<1>4. r.live = trade[t].live /\ r.closed = trade[t].closed /\ r.closeId = trade[t].closeId
  BY <1>1, <1>2 DEF Row
<1> QED
  BY <1>1, <1>3, <1>4 DEF TypeOK, FundingOnly

LEMMA MintedRow ==
    ASSUME NEW row \in Row, NEW c \in Closes
    PROVE  \E target \in Row :
              /\ target = [row EXCEPT !.live = "close_pending", !.closeId = c]
              /\ target.live = "close_pending" /\ target.closed = row.closed
              /\ target.closeId = c /\ c # NoOrder
<1>1. "close_pending" \in Statuses /\ c # NoOrder
  BY DEF Statuses, Closes, NoOrder
<1>2. [row EXCEPT !.live = "close_pending", !.closeId = c] \in Row
  BY <1>1, TargetTypes
<1> QED
  BY <1>1, <1>2 DEF Row

LEMMA CloseTradeInv ==
    ASSUME LiveInv, NEW th \in Threads, Holds(th), me[th].pc # "funding", CloseTrade(th)
    PROVE  Kept
<1> DEFINE row == me[th].row
<1>0. PICK t \in Trades : t = me[th].trade
  BY HeldImage
<1>1. row \in Row /\ ~row.closed /\ TypeOK /\ trade[t].live # "absent"
  BY <1>0, HeldImage DEF LiveInv
<1>2. CASE Reconcile(th)
  BY <1>2, ReconcileInv
<1>3. CASE /\ slot # None
           /\ \E c \in Closes :
                 LET target == [row EXCEPT !.live = "close_pending", !.closeId = c]
                 IN  /\ NextClose(c)
                     /\ Write(th, target)
                     /\ close' = [close EXCEPT ![c] = [trade |-> me[th].trade, status |-> "minted"]]
                     /\ Continue(th, "close", target, "close_pending")
           /\ slot' = [slot EXCEPT !.status = "close_pending"]
           /\ UNCHANGED <<block, open, held>>
  <2>0. PICK c \in Closes :
           LET target == [row EXCEPT !.live = "close_pending", !.closeId = c]
           IN  /\ NextClose(c)
               /\ Write(th, target)
               /\ close' = [close EXCEPT ![c] = [trade |-> me[th].trade, status |-> "minted"]]
               /\ Continue(th, "close", target, "close_pending")
    BY <1>3
  <2>2. PICK target \in Row :
           /\ target = [row EXCEPT !.live = "close_pending", !.closeId = c]
           /\ target.live = "close_pending" /\ target.closed = row.closed
           /\ target.closeId = c /\ c # NoOrder
    BY <1>1, MintedRow
  <2>1. /\ NextClose(c)
        /\ Write(th, target)
        /\ close' = [close EXCEPT ![c] = [trade |-> t, status |-> "minted"]]
        /\ Continue(th, "close", target, "close_pending")
    BY <1>0, <2>0, <2>2
  <2>3. close[c].status = "none" /\ close[c].trade = NoTrade
    BY <2>1 DEF NextClose, LiveInv, RowsOK, CloseOK
  <2>4. /\ close'[c].trade = t /\ close'[c].status = "minted"
        /\ \A d \in Closes : d # c => close'[d] = close[d]
    BY <1>1, <2>1 DEF TypeOK
  <2>5. ClosesMove
    BY <1>1, <2>3, <2>4 DEF ClosesMove
  <2>6. close' \in Orders
    BY <1>1, <2>1 DEF TypeOK, Orders
  <2>7. slot' \in Slot \cup {None} /\ block' \in BOOLEAN
        /\ "close_pending" \in SlotStatuses
    BY <1>1, <1>3, SlotType DEF TypeOK, SlotStatuses
  <2>8. ~target.closed /\ target.live \notin {"absent", "open_failed"}
        /\ (target.closeId # NoOrder => close'[target.closeId].trade = me[th].trade)
    BY <1>0, <1>1, <2>2, <2>4
  <2>9. open' = open /\ held' = held
    BY <1>3
  <2> QED
    BY <2>1, <2>2, <2>5, <2>6, <2>7, <2>8, <2>9, WriteGoesOn
<1>4. CASE slot = None /\ Done(th) /\ UNCHANGED <<db, exchange>>
  <2>1. block' \in BOOLEAN /\ slot' = slot /\ trade' = trade
    BY <1>1, <1>4 DEF db, TypeOK
  <2> QED
    BY <1>4, <2>1, SameFunding, DoneStep DEF exchange
<1> QED
  BY <1>2, <1>3, <1>4 DEF CloseTrade

LEMMA FinalizeFundingInv ==
    ASSUME LiveInv, NEW th \in Threads, FinalizeFunding(th)
    PROVE  Kept
<1>1. /\ me[th].trade \in Trades /\ trade[me[th].trade].live # "absent"
      /\ TypeOK
  BY DEF FinalizeFunding, LiveInv, ImagesOK, ImageOK, Holds
<1>2. FundingOnly /\ trade' \in [Trades -> Row]
  BY <1>1, FundingType, SameFunding DEF FinalizeFunding
<1>3. block' \in BOOLEAN
  BY <1>1, BlockType DEF FinalizeFunding, TypeOK
<1> QED
  BY <1>2, <1>3, DoneStep DEF FinalizeFunding

-----------------------------------------------------------------------------
\* The rest of a close: every one of these works on the image of the thread.
LEMMA MarkedRow ==
    ASSUME NEW row \in Row, NEW status \in Statuses
    PROVE  \E target \in Row :
              /\ target = [row EXCEPT !.live = status] /\ target = FilledRow(row, status)
              /\ target.live = status /\ target.closed = row.closed
              /\ target.closeId = row.closeId
<1>1. [row EXCEPT !.live = status] \in Row
  BY DEF Row
<1>2. /\ [row EXCEPT !.live = status].live = status
      /\ [row EXCEPT !.live = status].closed = row.closed
      /\ [row EXCEPT !.live = status].closeId = row.closeId
  BY DEF Row
<1> QED
  BY <1>1, <1>2 DEF FilledRow

\* The thread marks the row and is done.
LEMMA MarkDone ==
    ASSUME LiveInv, NEW th \in Threads, Holds(th), me[th].pc # "funding",
           NEW status \in Statuses \ {"absent", "open_failed"},
           \/ Write(th, [me[th].row EXCEPT !.live = status])
           \/ Write(th, FilledRow(me[th].row, status)),
           Done(th), ClosesMove, close' \in Orders, UNCHANGED <<open, held>>,
           slot' \in Slot \cup {None}, block' \in BOOLEAN
    PROVE  Kept
<1>1. me[th].row \in Row /\ ~me[th].row.closed
  BY HeldImage
<1>2. PICK target \in Row :
         /\ target = [me[th].row EXCEPT !.live = status]
         /\ target = FilledRow(me[th].row, status)
         /\ target.live = status /\ target.closed = me[th].row.closed
         /\ target.closeId = me[th].row.closeId
  BY <1>1, MarkedRow
<1>3. Write(th, target)
  BY <1>2
<1>4. /\ ~target.closed /\ target.live # "absent" /\ target.live # "open_failed"
      /\ target.closeId = me[th].row.closeId
  BY <1>1, <1>2
<1> QED
  BY <1>3, <1>4, WriteDone

LEMMA CloseOutcomeInv ==
    ASSUME LiveInv, NEW th \in Threads,
           CloseVerified(th) \/ CloseAlreadyClosed(th) \/ CloseUnknown(th)
    PROVE  Kept
<1>1. /\ me[th].pc \in {"close", "closeSent"} /\ Holds(th) /\ me[th].pc # "funding"
      /\ TypeOK /\ ImageOK(th)
  BY DEF CloseVerified, CloseAlreadyClosed, CloseUnknown, Holds, LiveInv, ImagesOK
<1>2. me[th].row.closeId # NoOrder /\ me[th].row.closeId \in Closes
      /\ me[th].trade \in Trades
  BY <1>1, HeldImage DEF ImageOK
<1>3. CASE CloseVerified(th)
  <2>1. ClosesMove /\ close' \in Orders
    BY <1>1, <1>3, SameOrders DEF CloseVerified, exchange, LiveInv, RowsOK
  <2> QED
    BY <1>1, <1>2, <1>3, <2>1, FilledIsFlat, FinalizeInv DEF CloseVerified, exchange
<1>4. CASE CloseAlreadyClosed(th)
  <2>1. /\ close[me[th].row.closeId].status \in {"sent", "dead"}
        /\ close' = [close EXCEPT ![me[th].row.closeId].status = "dead"]
    BY <1>4 DEF CloseAlreadyClosed
  <2>2. ClosesMove /\ close' \in Orders
    BY <1>1, <1>2, <2>1, SameOrders DEF LiveInv, RowsOK
  <2>3. CASE HistoryShows(me[th].trade) /\ Finalize(th)
    <3>1. Flat(me[th].trade)
      BY <1>2, <2>3, DecidedIsFlat DEF HistoryShows
    <3> QED
      BY <1>1, <1>4, <2>2, <2>3, <3>1, FinalizeInv DEF CloseAlreadyClosed
  <2>4. CASE /\ Write(th, [me[th].row EXCEPT !.live = "external_close_unreconciled"])
             /\ SetSlot(me[th].slot, "external_close_unreconciled")
             /\ Done(th) /\ UNCHANGED block
    <3>1. slot' \in Slot \cup {None} /\ block' \in BOOLEAN
      BY <1>1, <2>4, SlotType DEF SlotStatuses, TypeOK
    <3>2. "external_close_unreconciled" \in Statuses \ {"absent", "open_failed"}
      BY DEF Statuses
    <3> QED
      BY <1>1, <1>4, <2>2, <2>4, <3>1, <3>2, MarkDone DEF CloseAlreadyClosed
  <2> QED
    BY <1>4, <2>3, <2>4 DEF CloseAlreadyClosed
<1>5. CASE CloseUnknown(th)
  <2>1. ClosesMove /\ close' \in Orders
    BY <1>1, <1>5, SameOrders DEF CloseUnknown, exchange, LiveInv, RowsOK
  <2>2. slot' \in Slot \cup {None} /\ block' \in BOOLEAN
    BY <1>1, <1>5, SlotType DEF CloseUnknown, SlotStatuses, TypeOK
  <2>3. "close_unknown" \in Statuses \ {"absent", "open_failed"}
    BY DEF Statuses
  <2> QED
    BY <1>1, <1>5, <2>1, <2>2, <2>3, MarkDone DEF CloseUnknown, exchange
<1> QED
  BY <1>3, <1>4, <1>5

LEMMA ManageInv ==
    ASSUME LiveInv, NEW th \in Threads,
           ManagePending(th) \/ ExternalClose(th) \/ Close(th) \/ GiveUp(th)
    PROVE  Kept
<1>1. TypeOK
  BY DEF LiveInv
<1>2. CASE ManagePending(th)
  BY <1>2, ReconcileInv DEF ManagePending, Holds
<1>3. CASE ExternalClose(th)
  <2>1. Holds(th) /\ me[th].pc # "funding"
    BY <1>3 DEF ExternalClose, Settled, Holds
  <2>2. Flat(me[th].trade)
    BY <1>3, <2>1, HeldImage, DecidedIsFlat DEF ExternalClose, HistoryShows
  <2>3. ClosesMove /\ close' \in Orders
    BY <1>1, <1>3, SameOrders DEF ExternalClose, exchange, LiveInv, RowsOK
  <2> QED
    BY <1>3, <2>1, <2>2, <2>3, FinalizeInv DEF ExternalClose, exchange
<1>4. CASE Close(th)
  <2>1. Holds(th) /\ me[th].pc # "funding"
    BY <1>4 DEF Close, Settled, Holds
  <2> QED
    BY <1>4, <2>1, CloseTradeInv DEF Close
<1>5. CASE GiveUp(th)
  <2>1. block' \in BOOLEAN /\ slot' = slot /\ trade' = trade
    BY <1>1, <1>5 DEF GiveUp, db, TypeOK
  <2> QED
    BY <1>5, <2>1, SameFunding, DoneStep DEF GiveUp
<1> QED
  BY <1>2, <1>3, <1>4, <1>5

LEMMA WorkerInv ==
    ASSUME LiveInv,
           ExternalUnconfirmed \/ Guard \/ ClearBlock \/ \E t \in Trades : WorkerFunding(t)
    PROVE  Kept
<1>1. TypeOK /\ "scanner" \in Threads /\ "worker" \in Threads
  BY DEF LiveInv, Threads
<1>2. CASE ExternalUnconfirmed
  <2>1. Holds("scanner") /\ me["scanner"].pc # "funding"
    BY <1>2 DEF ExternalUnconfirmed, Settled, Holds
  <2>2. ClosesMove /\ close' \in Orders
    BY <1>1, <1>2, SameOrders DEF ExternalUnconfirmed, exchange, LiveInv, RowsOK
  <2>3. slot' \in Slot \cup {None} /\ block' \in BOOLEAN
    BY <1>1, <1>2 DEF ExternalUnconfirmed, TypeOK
  <2>4. "external_close_unreconciled" \in Statuses \ {"absent", "open_failed"}
    BY DEF Statuses
  <2> QED
    BY <1>1, <1>2, <2>1, <2>2, <2>3, <2>4, MarkDone DEF ExternalUnconfirmed, exchange
<1>3. CASE Guard
  <2>1. block' \in BOOLEAN
    BY <1>1, <1>3, BlockType DEF Guard, TypeOK
  <2>2. me["worker"].trade \in Trades /\ trade[me["worker"].trade].live # "absent"
    BY <1>1, <1>3 DEF Guard, Settled, LiveInv, ImagesOK, ImageOK, Holds
  <2>3. FundingOnly /\ trade' \in [Trades -> Row]
    BY <1>1, <1>3, <2>2, FundingType, SameFunding DEF Guard
  <2> QED
    BY <1>1, <1>3, <2>1, <2>3, DoneStep DEF Guard
<1>4. CASE ClearBlock \/ \E t \in Trades : WorkerFunding(t)
  <2>1. FundingOnly /\ trade' \in [Trades -> Row]
    <3>1. CASE ClearBlock
      BY <3>1, SameFunding DEF ClearBlock
    <3>2. ASSUME NEW t \in Trades, WorkerFunding(t)
          PROVE  FundingOnly /\ trade' \in [Trades -> Row]
      <4>1. trade[t].live # "absent"
        BY <3>2 DEF WorkerFunding, LiveInv, RowsOK, RowOK
      <4> QED
        BY <3>2, <4>1, FundingType DEF WorkerFunding
    <3> QED
      BY <1>4, <3>1, <3>2
  <2>2. block' \in BOOLEAN /\ slot' = slot /\ me' = me /\ UNCHANGED exchange
    BY <1>1, <1>4 DEF ClearBlock, WorkerFunding, TypeOK
  <2>3. ClosesMove /\ close' \in Orders
    BY <1>1, <2>2, SameOrders DEF LiveInv, RowsOK, exchange
  <2>4. me["scanner"] \in Local /\ me' = [me EXCEPT !["scanner"] = me["scanner"]]
    BY <1>1, <2>2 DEF TypeOK, Local, Pcs
  <2>5. RowsMove
    BY <2>1, <2>3, FundingRows
  <2>6. ImageOK("scanner")'
    <3>1. ImageOK("scanner") /\ me'["scanner"] = me["scanner"] /\ open' = open
      BY <1>1, <2>2 DEF LiveInv, ImagesOK, exchange
    <3>2. \A c \in Closes : close'[c].trade = close[c].trade
      BY <2>2 DEF exchange
    <3> QED
      BY <1>1, <2>5, <3>1, <3>2, ImageStays DEF RowsMove, Busy
  <2> QED
    BY <1>1, <2>1, <2>2, <2>3, <2>4, <2>6, LocalStep DEF exchange
<1> QED
  BY <1>2, <1>3, <1>4

-----------------------------------------------------------------------------
\* Opening a position.
LEMMA ScanEnterInv == ASSUME LiveInv, ScanEnter PROVE Kept
<1> DEFINE local == [Idle EXCEPT !.pc = "reserve"]
<1>1. TypeOK /\ "scanner" \in Threads /\ \A t \in Trades : RowOK(t)
  BY DEF LiveInv, Threads, RowsOK
<1>2. local \in Local /\ local.pc = "reserve"
  BY IdleType DEF Local, Pcs
<1>3. me' = [me EXCEPT !["scanner"] = local] /\ UNCHANGED <<db, exchange>> /\ Unclosed = {}
  BY DEF ScanEnter
<1>4. me'["scanner"] = local
  BY <1>1, <1>3 DEF TypeOK
<1>5. \A t \in Trades : ~Busy(t)
  BY <1>1, <1>3 DEF Unclosed, Busy, RowOK
<1>6. ImageOK("scanner")'
  BY <1>2, <1>3, <1>4, <1>5 DEF ImageOK, Holds, Busy, db
<1>7. ClosesMove /\ close' \in Orders /\ block' \in BOOLEAN
  BY <1>1, <1>3, SameOrders DEF LiveInv, RowsOK, exchange, db, TypeOK
<1> QED
  BY <1>1, <1>2, <1>3, <1>6, <1>7, SameFunding, LocalStep DEF db, exchange

\* A reservation: the one step that makes a trade busy.  The scanner knows that no other
\* is, since nothing has become busy since it looked.
LEMMA ReserveInv == ASSUME LiveInv, Reserve PROVE LiveInv'
<1>1. PICK row \in Row : row = [AbsentRow EXCEPT !.live = "null"]
  BY IdleType DEF Row, Statuses
<1>2. row.live = "null" /\ ~row.closed /\ row.closeId = NoOrder
  BY <1>1 DEF AbsentRow
<1>3. PICK t \in Trades :
         /\ trade[t].live = "absent"
         /\ trade' = [trade EXCEPT ![t] = row]
         /\ slot' = [trade |-> t, status |-> "opening"]
         /\ me' = [me EXCEPT !["scanner"] = [Idle EXCEPT !.pc = "intent",
                                  !.trade = t, !.row = row, !.slot = "opening"]]
  BY <1>1 DEF Reserve
<1>4. /\ TypeOK /\ "scanner" \in Threads /\ me["scanner"].pc = "reserve"
      /\ ImageOK("scanner") /\ RowOK(t)
      /\ block' = block /\ open' = open /\ close' = close /\ held' = held
  BY DEF LiveInv, Threads, ImagesOK, RowsOK, Reserve, exchange
<1>5. PICK local \in Local : local = [Idle EXCEPT !.pc = "intent", !.trade = t,
                                              !.row = row, !.slot = "opening"]
  BY IdleType DEF Local, Pcs, SlotStatuses
<1>6. local.pc = "intent" /\ local.trade = t /\ local.row = row
  BY <1>5, IdleType DEF Local
<1>7. me'["scanner"] = local /\ \A o \in Threads : o # "scanner" => me'[o] = me[o]
  BY <1>3, <1>4, <1>5 DEF TypeOK
<1>8. trade'[t] = row /\ \A u \in Trades : u # t => trade'[u] = trade[u]
  BY <1>3, <1>4 DEF TypeOK
<1>9. \A u \in Trades : ~Busy(u)
  BY <1>4 DEF ImageOK
<1>10. OneBusy'
  BY <1>8, <1>9 DEF OneBusy, Busy
<1>11. \A u \in Trades : u # t /\ Flat(u) => Flat(u)'
  BY <1>4, <1>6, <1>7 DEF Flat
<1>12. ASSUME NEW u \in Trades PROVE RowOK(u)'
  <2>1. CASE u = t
    BY <1>2, <1>4, <1>8, <2>1, <1>3 DEF RowOK
  <2>2. CASE u # t
    BY <1>4, <1>8, <1>11, <2>2 DEF LiveInv, RowsOK, RowOK
  <2> QED
    BY <2>1, <2>2
<1>13. ASSUME NEW c \in Closes PROVE CloseOK(c)'
  <2>1. CloseOK(c) /\ close[c].trade # t /\ close[c].trade \in Trades \cup {NoTrade}
    BY <1>3, <1>4 DEF LiveInv, RowsOK, RowOK, TypeOK
  <2> QED
    BY <1>4, <1>11, <2>1 DEF CloseOK
<1>14. ASSUME NEW o \in Threads, o # "scanner" PROVE ImageOK(o)'
  BY <1>2, <1>4, <1>7, <1>8, <1>14, ImageStays DEF LiveInv, ImagesOK
<1>15. ImageOK("scanner")'
  BY <1>2, <1>3, <1>4, <1>6, <1>7, <1>8 DEF ImageOK, Holds, OpenerPcs, RowOK
<1>16. TypeOK'
  <2>1. trade' \in [Trades -> Row] /\ me' \in [Threads -> Local]
    BY <1>3, <1>4, <1>5 DEF TypeOK, Local, Pcs
  <2>2. slot' \in Slot
    BY <1>3 DEF Slot, SlotStatuses
  <2> QED
    BY <1>4, <2>1, <2>2 DEF TypeOK, Local, Pcs
<1> QED
  BY <1>10, <1>12, <1>13, <1>14, <1>15, <1>16 DEF LiveInv, RowsOK, ImagesOK

\* Sending the order: nothing is held and nothing else is sent, and the trade is not over,
\* as one that is over is flat.
LEMMA SubmitInv == ASSUME LiveInv, Submit PROVE LiveInv' /\ trade' = trade
<1>1. /\ TypeOK /\ "scanner" \in Threads /\ me["scanner"].pc = "submit"
      /\ ImageOK("scanner") /\ Holds("scanner") /\ me["scanner"] \in Local
      /\ trade' = trade /\ block' = block /\ slot' = slot /\ close' = close /\ held' = held
  BY DEF LiveInv, Threads, ImagesOK, Submit, Holds, db, TypeOK, Local, Pcs
<1>2. PICK t \in Trades : t = me["scanner"].trade
  BY <1>1 DEF ImageOK
<1>3. PICK pc \in {"sent", "rejected"} :
         /\ Go("scanner", pc)
         /\ pc = "sent" => open' = [open EXCEPT ![t] = "sent"]
         /\ pc = "rejected" => open' = open
  BY <1>2 DEF Submit
<1>4. PICK local \in Local : local = [me["scanner"] EXCEPT !.pc = pc]
  BY <1>1 DEF Local, Pcs
<1>5. /\ local.pc = pc /\ local.trade = t /\ local.row = me["scanner"].row
      /\ me' = [me EXCEPT !["scanner"] = local]
  BY <1>1, <1>2, <1>3, <1>4 DEF Go, Local
<1>6. me'["scanner"] = local /\ \A o \in Threads : o # "scanner" => me'[o] = me[o]
  BY <1>1, <1>5 DEF TypeOK
<1>7. /\ trade[t].live # "absent" /\ open[t] = "none"
      /\ ~Flat(t) /\ RowOK(t) /\ ~trade[t].closed
  BY <1>1, <1>2 DEF ImageOK, LiveInv, RowsOK, RowOK, Flat
<1>8. \A u \in Trades : u # t => open'[u] = open[u]
  BY <1>1, <1>3 DEF TypeOK
<1>9. \A u \in Trades : Flat(u) => Flat(u)'
  BY <1>1, <1>2, <1>5, <1>6, <1>7, <1>8 DEF Flat
<1>10. OneBusy'
  BY <1>1 DEF LiveInv, OneBusy, Busy
<1>11. ASSUME NEW u \in Trades PROVE RowOK(u)'
  <2>1. RowOK(u)
    BY DEF LiveInv, RowsOK
  <2>2. u \in held => open'[u] = open[u]
    BY <1>7, <1>8, <2>1 DEF RowOK
  <2>3. trade[u].live = "absent" => open'[u] = open[u]
    BY <1>7, <1>8
  <2> QED
    BY <1>1, <1>9, <2>1, <2>2, <2>3 DEF RowOK
<1>12. ASSUME NEW c \in Closes PROVE CloseOK(c)'
  BY <1>1, <1>9 DEF LiveInv, RowsOK, CloseOK, TypeOK, Trades, NoTrade
<1>13. ASSUME NEW o \in Threads, o # "scanner" PROVE ImageOK(o)'
  BY <1>1, <1>6, <1>13, ImageStays DEF LiveInv, ImagesOK
<1>14. ImageOK("scanner")'
  BY <1>1, <1>2, <1>3, <1>5, <1>6, <1>7 DEF ImageOK, Holds, OpenerPcs
<1>15. TypeOK'
  <2>1. me' \in [Threads -> Local] /\ open' \in [Trades -> {"none", "sent", "filled", "dead"}]
    BY <1>1, <1>3, <1>5 DEF TypeOK, Local, Pcs
  <2> QED
    BY <1>1, <2>1 DEF TypeOK, Local, Pcs
<1> QED
  BY <1>1, <1>10, <1>11, <1>12, <1>13, <1>14, <1>15 DEF LiveInv, RowsOK, ImagesOK

\* The writes of the scanner while it opens a position.
LEMMA OpenerWrites ==
    ASSUME LiveInv,
           Intent \/ OnFill \/ PlacePlan \/ OpenResult \/ OpenRejected \/ OpenUnknown
    PROVE  Kept
<1> DEFINE row == me["scanner"].row
<1>1. /\ TypeOK /\ "scanner" \in Threads
      /\ Holds("scanner") /\ me["scanner"].pc # "funding"
      /\ UNCHANGED exchange /\ UNCHANGED <<open, held>>
      /\ me["scanner"].slot \in SlotStatuses
  BY DEF LiveInv, Threads, TypeOK, Holds, Intent, OnFill, PlacePlan, OpenResult,
         OpenRejected, OpenUnknown, exchange
<1>2. /\ row \in Row /\ ~row.closed /\ row.live \notin {"absent", "open_failed"}
      /\ me["scanner"].trade \in Trades
  BY <1>1, HeldImage
<1>3. ClosesMove /\ close' \in Orders
  BY <1>1, SameOrders DEF LiveInv, RowsOK, exchange
<1>4. row.closeId # NoOrder => close'[row.closeId].trade = me["scanner"].trade
  BY <1>1, <1>3, SameId
<1>5. {"active", "open_unknown"} \subseteq SlotStatuses
      /\ {"open_unknown", "tp_sl_unprotected", "open"}
            \subseteq Statuses \ {"absent", "open_failed"}
  BY DEF SlotStatuses, Statuses
<1>6. CASE Intent
  <2>0. "open_pending" \in Statuses
    BY DEF Statuses
  <2>1. PICK target \in Row :
           /\ target = [row EXCEPT !.live = "open_pending"]
           /\ target.live = "open_pending" /\ target.closed = row.closed
           /\ target.closeId = row.closeId
    BY <1>2, <2>0, MarkedRow
  <2>2. Write("scanner", target)
        /\ Continue("scanner", "submit", target, me["scanner"].slot)
        /\ me["scanner"].pc = "intent" /\ slot' = slot /\ block' = block
    BY <1>6, <2>1 DEF Intent
  <2>3. slot' \in Slot \cup {None} /\ block' \in BOOLEAN
    BY <1>1, <2>2 DEF TypeOK
  <2> QED
    BY <1>1, <1>2, <1>3, <1>4, <2>1, <2>2, <2>3, WriteGoesOn
<1>7. CASE OnFill
  <2>0. "tp_sl_unprotected" \in Statuses
    BY DEF Statuses
  <2>1. PICK target \in Row :
           /\ target = FilledRow(row, "tp_sl_unprotected")
           /\ target.live = "tp_sl_unprotected" /\ target.closed = row.closed
           /\ target.closeId = row.closeId
    BY <1>2, <2>0, MarkedRow
  <2>2. Write("scanner", target)
        /\ Continue("scanner", "plan", target, "active")
        /\ SetSlot(me["scanner"].slot, "active") /\ block' = block
    BY <1>7, <2>1 DEF OnFill
  <2>3. slot' \in Slot \cup {None} /\ block' \in BOOLEAN
    BY <1>1, <1>5, <2>2, SlotType DEF TypeOK
  <2> QED
    BY <1>1, <1>2, <1>3, <1>4, <1>5, <2>1, <2>2, <2>3, WriteGoesOn
<1>8. CASE PlacePlan
  <2>1. PICK plans \in {"sl", "both"} : plans = IF row.plans = "none" THEN "sl" ELSE "both"
    OBVIOUS
  <2>2. PICK target \in Row : target = [row EXCEPT !.plans = plans]
    BY <1>2 DEF Row
  <2>3. target = [row EXCEPT !.plans = IF @ = "none" THEN "sl" ELSE "both"]
    BY <2>1, <2>2
  <2>4. target.live = row.live /\ target.closed = row.closed
        /\ target.closeId = row.closeId
    BY <1>2, <2>2 DEF Row
  <2>5. Write("scanner", target)
        /\ Continue("scanner", "plan", target, "active")
        /\ slot' = slot /\ block' = block
    BY <1>8, <2>3 DEF PlacePlan
  <2>6. slot' \in Slot \cup {None} /\ block' \in BOOLEAN
    BY <1>1, <2>5 DEF TypeOK
  <2> QED
    BY <1>1, <1>2, <1>3, <1>4, <1>5, <2>4, <2>5, <2>6, WriteGoesOn
<1>9. CASE OpenResult
  <2>1. PICK status \in {"open", "tp_sl_unprotected"} :
           status = IF row.plans = "both" THEN "open" ELSE "tp_sl_unprotected"
    OBVIOUS
  <2>2. Write("scanner", FilledRow(row, status)) /\ Done("scanner") /\ slot' = slot
    BY <1>9, <2>1 DEF OpenResult
  <2>3. slot' \in Slot \cup {None} /\ block' \in BOOLEAN
    BY <1>1, <1>9, BlockType DEF OpenResult, TypeOK
  <2> QED
    BY <1>1, <1>3, <1>5, <2>2, <2>3, MarkDone
<1>10. CASE OpenRejected
  <2>1. Flat(me["scanner"].trade)
    <3>1. PICK t \in Trades : t = me["scanner"].trade
      BY <1>2
    <3>2. RowOK(t) /\ ImageOK("scanner")
      BY <1>1 DEF LiveInv, RowsOK, ImagesOK
    <3>3. open[t] \in {"none", "dead"}
      BY <1>10, <3>1, <3>2 DEF OpenRejected, ConfirmedUnfilled, ImageOK
    <3>4. me["scanner"].pc \notin {"intent", "submit"}
      BY <1>10 DEF OpenRejected
    <3> QED
      BY <3>1, <3>2, <3>3, <3>4 DEF RowOK, Flat
  <2>2. Write("scanner", FailedRow(row)) /\ Done("scanner") /\ slot' = None
        /\ block' = block
    BY <1>10 DEF OpenRejected
  <2>3. slot' \in Slot \cup {None} /\ block' \in BOOLEAN
    BY <1>1, <2>2 DEF TypeOK
  <2> QED
    BY <1>1, <1>2, <1>3, <2>1, <2>2, <2>3, FailedType, WriteDone
<1>11. CASE OpenUnknown
  <2>1. slot' \in Slot \cup {None} /\ block' \in BOOLEAN
    BY <1>1, <1>5, <1>11, SlotType DEF OpenUnknown, TypeOK
  <2> QED
    BY <1>1, <1>3, <1>5, <1>11, <2>1, MarkDone DEF OpenUnknown
<1> QED
  BY <1>6, <1>7, <1>8, <1>9, <1>10, <1>11

-----------------------------------------------------------------------------
\* The exchange: the rows and the threads do not move.
LEMMA ExchangeStays ==
    ASSUME LiveInv, UNCHANGED <<db, me>>,
           \A t \in Trades : open[t] = "none" => open'[t] = "none",
           \A c \in Closes : close'[c].trade = close[c].trade
    PROVE  ImagesOK' /\ OneBusy'
<1>1. TypeOK /\ ImagesOK /\ trade' = trade /\ me' = me
  BY DEF LiveInv, db
<1>2. ASSUME NEW th \in Threads PROVE ImageOK(th)'
  BY <1>1, ImageStays DEF ImagesOK, Busy
<1> QED
  BY <1>1, <1>2 DEF ImagesOK, LiveInv, OneBusy, Busy

\* A position that is on the account, or an order that may fill, belongs to a trade that
\* is not over.
LEMMA ExposedIsBusy ==
    ASSUME LiveInv, NEW t \in Trades, t \in held \/ open[t] = "sent"
    PROVE  Busy(t)
BY DEF LiveInv, RowsOK, RowOK, Flat, Busy

LEMMA ExchangeOpenInv ==
    ASSUME LiveInv, NEW t \in Trades, ExchangeOpen(t)
    PROVE  LiveInv'
<1>1. /\ TypeOK /\ open[t] = "sent" /\ Busy(t)
      /\ UNCHANGED <<db, me>> /\ trade' = trade /\ me' = me /\ close' = close
  BY ExposedIsBusy DEF LiveInv, ExchangeOpen, db
<1>2. PICK status \in {"filled", "dead"} :
         /\ open' = [open EXCEPT ![t] = status]
         /\ held' = IF status = "filled" THEN held \cup {t} ELSE held
  BY DEF ExchangeOpen
<1>3. /\ open'[t] = status
      /\ \A u \in Trades : u # t => open'[u] = open[u] /\ (u \in held' <=> u \in held)
  BY <1>1, <1>2 DEF TypeOK
<1>4. ~Flat(t)
  BY <1>1 DEF Flat
<1>5. \A u \in Trades : Flat(u) => Flat(u)'
  BY <1>1, <1>3, <1>4 DEF Flat
<1>6. ImagesOK' /\ OneBusy'
  BY <1>1, <1>3, ExchangeStays
<1>7. ASSUME NEW u \in Trades PROVE RowOK(u)'
  <2>1. RowOK(u) /\ RowOK(t)
    BY DEF LiveInv, RowsOK
  <2>2. CASE u = t
    <3>1. t \notin held
      BY <1>1, <2>1 DEF RowOK
    <3> QED
      BY <1>1, <1>2, <1>3, <2>1, <2>2, <3>1 DEF RowOK, Busy
  <2>3. CASE u # t
    BY <1>1, <1>3, <1>5, <2>1, <2>3 DEF RowOK
  <2> QED
    BY <2>2, <2>3
<1>8. ASSUME NEW c \in Closes PROVE CloseOK(c)'
  BY <1>1, <1>5 DEF LiveInv, RowsOK, CloseOK, TypeOK, Trades, NoTrade
<1>9. TypeOK'
  BY <1>1, <1>2 DEF TypeOK, db
<1> QED
  BY <1>6, <1>7, <1>8, <1>9 DEF LiveInv, RowsOK

\* The position of u leaves the account, for the close order c if there is one.  The
\* trade of c is flat then: it was u's own, or it is over since u's is not.
LEMMA PositionGone ==
    ASSUME LiveInv, NEW u \in held, held' = held \ {u}, UNCHANGED <<db, me, open>>,
           close' \in Orders,
           \A c \in Closes : close'[c].trade = close[c].trade
                             /\ (close'[c].status = "none" <=> close[c].status = "none"),
           \A c \in Closes : \/ close'[c].status = "filled" => close[c].status = "filled"
                             \/ close[c].trade \in held => u = close[c].trade
    PROVE  LiveInv'
<1>1. /\ TypeOK /\ u \in Trades /\ trade' = trade /\ me' = me /\ open' = open
      /\ \A t \in Trades : RowOK(t)
  BY DEF LiveInv, RowsOK, TypeOK, db
<1>2. \A t \in Trades : Flat(t) => Flat(t)'
  BY <1>1 DEF Flat
<1>3. ImagesOK' /\ OneBusy'
  BY <1>1, ExchangeStays
<1>4. ASSUME NEW t \in Trades PROVE RowOK(t)'
  <2>1. RowOK(t) /\ (trade[t].closeId # NoOrder => trade[t].closeId \in Closes)
    BY <1>1 DEF TypeOK, Row
  <2> QED
    BY <1>1, <1>2, <2>1 DEF RowOK
<1>5. ASSUME NEW c \in Closes PROVE CloseOK(c)'
  <2>1. CloseOK(c) /\ close[c].trade \in Trades \cup {NoTrade}
    BY <1>1 DEF LiveInv, RowsOK, TypeOK
  <2>2. CASE close'[c].status = "filled" => close[c].status = "filled"
    BY <1>1, <1>2, <2>1, <2>2 DEF CloseOK, Trades, NoTrade
  <2>3. CASE /\ close'[c].status = "filled"
             /\ close[c].trade \in held => u = close[c].trade
    <3>1. PICK t \in Trades : t = close[c].trade
      BY <2>1, <2>3 DEF CloseOK
    <3>2. Busy(u) /\ open[u] = "filled" /\ trade[t].live # "absent"
      BY <1>1, <3>1, ExposedIsBusy DEF RowOK
    <3>3. Flat(t)'
      <4>1. CASE t = u
        <5>1. open[t] = "filled"
          BY <3>2, <4>1
        <5>2. ~(me["scanner"].pc \in {"intent", "submit"} /\ me["scanner"].trade = t)
          BY <5>1 DEF LiveInv, ImagesOK, ImageOK, Threads
        <5> QED
          BY <1>1, <4>1, <5>1, <5>2 DEF Flat
      <4>2. CASE t # u
        <5>1. trade[t].closed
          BY <1>1, <3>2, <4>2 DEF LiveInv, OneBusy, Busy, TypeOK, Row
        <5> QED
          BY <1>1, <1>2, <5>1 DEF RowOK
      <4> QED
        BY <4>1, <4>2
    <3>4. close'[c].trade = t
      BY <3>1
    <3> QED
      BY <2>1, <2>3, <3>1, <3>3, <3>4 DEF CloseOK
  <2> QED
    BY <2>2, <2>3
<1>6. TypeOK'
  BY <1>1 DEF TypeOK, db, Orders
<1> QED
  BY <1>3, <1>4, <1>5, <1>6 DEF LiveInv, RowsOK

LEMMA ExchangeInv == ASSUME LiveInv, Exchange PROVE LiveInv'
<1>1. TypeOK
  BY DEF LiveInv
<1>2. ASSUME NEW t \in Trades, ExchangeOpen(t) PROVE LiveInv'
  BY <1>2, ExchangeOpenInv
<1>3. ASSUME NEW t \in Trades, ExchangeTrigger(t) PROVE LiveInv'
  <2>1. /\ t \in held /\ held' = held \ {t} /\ UNCHANGED <<db, me, open>> /\ close' = close
        /\ close \in Orders
    BY <1>1, <1>3 DEF ExchangeTrigger, TypeOK, Orders
  <2> QED
    BY <2>1, PositionGone
<1>4. ASSUME NEW c \in Closes, ExchangeClose(c) PROVE LiveInv'
  <2>1. /\ close[c].status = "sent" /\ UNCHANGED <<db, me, open>>
        /\ trade' = trade /\ me' = me /\ open' = open
    BY <1>4 DEF ExchangeClose, db
  <2>2. ASSUME NEW status \in {"filled", "partial", "dead"},
               close' = [close EXCEPT ![c].status = status]
        PROVE  /\ close' \in Orders /\ close'[c].status = status
               /\ close'[c].trade = close[c].trade
               /\ \A d \in Closes : d # c => close'[d] = close[d]
    BY <1>1, <2>2 DEF TypeOK, Orders
  <2>3. CASE \E u \in held : /\ close[c].trade \in held => u = close[c].trade
                             /\ held' = held \ {u}
                             /\ close' = [close EXCEPT ![c].status = "filled"]
    <3>1. PICK u \in held : /\ close[c].trade \in held => u = close[c].trade
                            /\ held' = held \ {u}
                            /\ close' = [close EXCEPT ![c].status = "filled"]
      BY <2>3
    <3>2. close' \in Orders /\ \A d \in Closes :
             /\ close'[d].trade = close[d].trade
             /\ close'[d].status = "none" <=> close[d].status = "none"
      BY <2>1, <2>2, <3>1
    <3>3. \A d \in Closes : \/ close'[d].status = "filled" => close[d].status = "filled"
                            \/ close[d].trade \in held => u = close[d].trade
      BY <2>2, <3>1
    <3> QED
      BY <2>1, <3>1, <3>2, <3>3, PositionGone
  <2>4. CASE /\ held' = held
             /\ \E status \in {"partial", "dead"} : close' = [close EXCEPT ![c].status = status]
    <3>1. PICK status \in {"partial", "dead"} : close' = [close EXCEPT ![c].status = status]
      BY <2>4
    <3>2. /\ close' \in Orders
          /\ \A d \in Closes :
                /\ close'[d].trade = close[d].trade
                /\ close'[d].status = "none" <=> close[d].status = "none"
                /\ close'[d].status = "filled" => close[d].status = "filled"
      BY <2>1, <2>2, <3>1
    <3>3. \A t \in Trades : Flat(t) => Flat(t)'
      BY <2>1, <2>4 DEF Flat
    <3>4. ImagesOK' /\ OneBusy'
      BY <2>1, <3>2, ExchangeStays
    <3>5. \A t \in Trades : RowOK(t)'
      <4> SUFFICES ASSUME NEW t \in Trades PROVE RowOK(t)'
        OBVIOUS
      <4>1. RowOK(t) /\ trade[t] \in Row
        BY <1>1 DEF LiveInv, RowsOK, TypeOK
      <4>2. trade[t].closeId # NoOrder => trade[t].closeId \in Closes
        BY <4>1 DEF Row
      <4> QED
        BY <2>1, <2>4, <3>2, <3>3, <4>1, <4>2 DEF RowOK
    <3>6. \A d \in Closes : CloseOK(d)'
      BY <1>1, <3>2, <3>3 DEF LiveInv, RowsOK, CloseOK, TypeOK, Trades, NoTrade
    <3>7. TypeOK'
      BY <1>1, <2>1, <2>4, <3>2 DEF TypeOK, db, Orders
    <3> QED
      BY <3>4, <3>5, <3>6, <3>7 DEF LiveInv, RowsOK
  <2> QED
    BY <1>4, <2>3, <2>4 DEF ExchangeClose
<1> QED
  BY <1>2, <1>3, <1>4 DEF Exchange

-----------------------------------------------------------------------------
\* The invariant holds at the start and every step keeps it.
LEMMA LiveStart == Init => LiveInv
<1> SUFFICES ASSUME Init PROVE LiveInv
  OBVIOUS
<1>1. TypeOK
  <2>1. Idle \in Local /\ AbsentRow \in Row
    BY IdleType
  <2>2. trade \in [Trades -> Row] /\ me \in [Threads -> Local]
    BY <2>1 DEF Init
  <2> QED
    BY <2>2 DEF Init, TypeOK, Local, Pcs
<1>2. \A t \in Trades : trade[t] = AbsentRow /\ open[t] = "none" /\ t \notin held
  BY DEF Init
<1>3. \A th \in Threads : me[th] = Idle
  BY DEF Init
<1>4. \A c \in Closes : close[c].trade = NoTrade /\ close[c].status = "none"
  BY DEF Init
<1>5. ImagesOK
  BY <1>3 DEF ImagesOK, ImageOK, Holds, Idle, OpenerPcs
<1>6. OneBusy
  BY <1>2 DEF OneBusy, Busy, AbsentRow
<1>7. \A t \in Trades : RowOK(t)
  BY <1>2, <1>4 DEF RowOK, AbsentRow, Trades, NoTrade, NoOrder
<1>8. \A c \in Closes : CloseOK(c)
  BY <1>4 DEF CloseOK
<1> QED
  BY <1>1, <1>5, <1>6, <1>7, <1>8 DEF LiveInv, RowsOK

\* The rows of every step that is no reservation.
LEMMA SameRowsMove == ASSUME LiveInv, trade' = trade, LiveInv' PROVE RowsMove
BY DEF RowsMove, LiveInv, RowsOK, RowOK

LEMMA LiveStep == LiveInv /\ [Next]_vars => LiveInv' /\ (RowsMove \/ Reserve)
<1> SUFFICES ASSUME LiveInv, [Next]_vars PROVE LiveInv' /\ (RowsMove \/ Reserve)
  OBVIOUS
<1> USE DEF Kept
<1>1. CASE Opener
  <2>1. CASE Submit
    BY <2>1, SubmitInv, SameRowsMove
  <2>2. CASE Reserve
    BY <2>2, ReserveInv
  <2> QED
    BY <1>1, <2>1, <2>2, ScanEnterInv, OpenerWrites DEF Opener
<1>2. CASE Loading
  <2>1. PICK th \in Threads, t \in Trades : Load(th, t)
    BY <1>2 DEF Loading, ScanLoad, WorkerLoad, HttpLoad, Threads
  <2> QED
    BY <2>1, LoadInv
<1>3. ASSUME NEW th \in Threads, Managing(th) PROVE Kept
  BY <1>3, ManageInv, CloseSubmitInv, CloseOutcomeInv, FinalizeFundingInv DEF Managing
<1>4. CASE ExternalUnconfirmed \/ Guard \/ ClearBlock \/ \E t \in Trades : WorkerFunding(t)
  BY <1>4, WorkerInv
<1>5. CASE Exchange
  <2>1. trade' = trade
    BY <1>5 DEF Exchange, ExchangeOpen, ExchangeClose, ExchangeTrigger, db
  <2> QED
    BY <1>5, <2>1, ExchangeInv, SameRowsMove
<1>6. CASE UNCHANGED vars
  <2>1. trade' = trade
    BY <1>6 DEF vars
  <2>2. LiveInv'
    BY <1>6 DEF vars, LiveInv, TypeOK, ImagesOK, ImageOK, Holds, RowsOK, RowOK, CloseOK,
                OneBusy, Busy, Flat
  <2> QED
    BY <2>1, <2>2, SameRowsMove
<1> QED
  BY <1>1, <1>2, <1>3, <1>4, <1>5, <1>6 DEF Next

LEMMA LiveInvariant == Spec => []LiveInv
BY LiveStart, LiveStep, PTL DEF Spec

-----------------------------------------------------------------------------
\* The variables stay in their types, whatever the bounds.
THEOREM TypeCorrect == Spec => []TypeOK
<1>1. LiveInv => TypeOK
  BY DEF LiveInv
<1> QED
  BY <1>1, LiveInvariant, PTL

\* A row is closed only when the exchange is done with the trade: nothing is left on the
\* account and its order can never fill, although the thread that closes it works on an
\* old image of the row and another trade's close order may have taken the position.
THEOREM ClosedRowsAreFlat == Spec => []ClosedIsFlat
<1>1. LiveInv => ClosedIsFlat
  BY DEF LiveInv, RowsOK, RowOK, Flat, ClosedIsFlat
<1> QED
  BY <1>1, LiveInvariant, PTL

\* The account never holds, or waits for, two positions of the strategy.
THEOREM OnePosition == Spec => []OneLivePosition
<1>1. ASSUME LiveInv PROVE OneLivePosition
  <2> DEFINE Live == {t \in Trades : open[t] = "sent"} \cup held
  <2>1. \A t, u \in Live : t = u
    BY <1>1, ExposedIsBusy DEF LiveInv, TypeOK, OneBusy
  <2>2. CASE Live = {}
    BY <2>2, FS_EmptySet DEF OneLivePosition
  <2>3. CASE Live # {}
    <3>1. PICK t \in Live : Live = {t}
      BY <2>1, <2>3
    <3>2. Cardinality(Live) = 1
      BY <3>1, FS_Singleton
    <3> QED
      BY <3>2 DEF OneLivePosition
  <2> QED
    BY <2>2, <2>3
<1> QED
  BY <1>1, LiveInvariant, PTL

-----------------------------------------------------------------------------
\* The rows implement SlotContract.
LEMMA PhaseCases ==
    ASSUME TypeOK, NEW t \in Trades
    PROVE  /\ PhaseOf(trade[t]) \in {"free", "reserved", "over"}
           /\ PhaseOf(trade[t]) = "free" <=> trade[t].live = "absent"
           /\ PhaseOf(trade[t]) = "reserved" <=> Busy(t)
BY DEF TypeOK, Row, PhaseOf, Busy

LEMMA ContractBusy ==
    ASSUME TypeOK, NEW t \in Trades PROVE Contract!Busy(t) <=> Busy(t)
<1>1. [u \in Trades |-> PhaseOf(trade[u])][t] = PhaseOf(trade[t])
  OBVIOUS
<1> QED
  BY <1>1, PhaseCases DEF Contract!Busy

LEMMA ContractStart == Init => Contract!ContractInit
<1> SUFFICES ASSUME Init PROVE Contract!ContractInit
  OBVIOUS
<1>1. TypeOK /\ OneBusy /\ \A t \in Trades : trade[t].live = "absent"
  BY LiveStart DEF LiveInv, Init, AbsentRow
<1>2. [t \in Trades |-> PhaseOf(trade[t])] \in [Trades -> {"free", "held"}]
  BY <1>1, PhaseCases
<1>3. \A t, u \in Trades : Contract!Busy(t) /\ Contract!Busy(u) => t = u
  BY <1>1, ContractBusy DEF OneBusy
<1> QED
  BY <1>2, <1>3 DEF Contract!ContractInit

\* One trade moves to another phase.
LEMMA PhaseMoves ==
    ASSUME NEW t \in Trades, NEW to, PhaseOf(trade[t])' = to,
           \A u \in Trades : u # t => PhaseOf(trade[u])' = PhaseOf(trade[u])
    PROVE  Contract!Moves(t, to)
BY DEF Contract!Moves

LEMMA ContractStep ==
    LiveInv /\ LiveInv' /\ (RowsMove \/ Reserve) => Contract!ContractNext
<1> SUFFICES ASSUME LiveInv, LiveInv', RowsMove \/ Reserve
             PROVE  \/ UNCHANGED [t \in Trades |-> PhaseOf(trade[t])]
                    \/ \E t \in Trades : Contract!Reserve(t) \/ Contract!Release(t)
  BY DEF Contract!ContractNext
<1>1. TypeOK /\ TypeOK' /\ OneBusy /\ OneBusy'
  BY DEF LiveInv
<1>2. CASE Reserve
  <2>1. me["scanner"].pc = "reserve" /\ "scanner" \in Threads
    BY <1>2 DEF Reserve, Threads
  <2>2. \A u \in Trades : ~Busy(u)
    BY <2>1 DEF LiveInv, ImagesOK, ImageOK
  <2>3. PICK t \in Trades : /\ trade[t].live = "absent"
                            /\ trade' = [trade EXCEPT ![t] = [AbsentRow EXCEPT !.live = "null"]]
    BY <1>2 DEF Reserve
  <2>4. /\ trade'[t] = [AbsentRow EXCEPT !.live = "null"]
        /\ \A u \in Trades : u # t => trade'[u] = trade[u]
    BY <1>1, <2>3 DEF TypeOK
  <2>5. trade'[t].live = "null" /\ ~trade'[t].closed
    BY <2>4 DEF AbsentRow
  <2>6. Busy(t)' /\ PhaseOf(trade[t])' = "reserved"
    BY <1>1, <2>5, PhaseCases DEF PhaseOf, Busy
  <2>7. Contract!Moves(t, "reserved")
    BY <2>4, <2>6, PhaseMoves
  <2>8. Contract!NobodyBusy
    BY <1>1, <2>2, ContractBusy DEF Contract!NobodyBusy
  <2>9. [u \in Trades |-> PhaseOf(trade[u])][t] = "free"
    BY <1>1, <2>3, PhaseCases
  <2> QED
    BY <2>7, <2>8, <2>9 DEF Contract!Reserve
<1>3. CASE RowsMove
  <2>1. ASSUME NEW t \in Trades, PhaseOf(trade[t])' # PhaseOf(trade[t])
        PROVE  Busy(t) /\ PhaseOf(trade[t])' = "over"
    BY <1>1, <1>3, <2>1 DEF RowsMove, TypeOK, Row, PhaseOf, Busy
  <2>2. CASE \A t \in Trades : PhaseOf(trade[t])' = PhaseOf(trade[t])
    BY <2>2
  <2>3. ASSUME NEW t \in Trades, PhaseOf(trade[t])' # PhaseOf(trade[t])
        PROVE  Contract!Release(t)
    <3>1. Busy(t) /\ PhaseOf(trade[t])' = "over"
      BY <2>1, <2>3
    <3>2. \A u \in Trades : u # t => PhaseOf(trade[u])' = PhaseOf(trade[u])
      BY <1>1, <2>1, <3>1 DEF OneBusy
    <3> QED
      BY <1>1, <3>1, <3>2, PhaseMoves, ContractBusy DEF Contract!Release
  <2> QED
    BY <2>2, <2>3
<1> QED
  BY <1>2, <1>3

\* The live rows implement SlotContract: one trade at a time is under way or a position,
\* and one that is over is never reopened through an older image of it.
THEOREM KeepsLiveContract == Spec => KeepsContract
<1>1. Init => Contract!ContractInit
  BY ContractStart
<1>2. LiveInv /\ LiveInv' /\ [Next]_vars => [Contract!ContractNext]_(Contract!contractVars)
  BY LiveStep, ContractStep
<1> QED
  BY <1>1, <1>2, LiveInvariant, PTL DEF Spec, KeepsContract, Contract!ContractSpec
=============================================================================
