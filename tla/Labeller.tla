-------------------------------- MODULE Labeller --------------------------------
(***************************************************************************)
(* The labels of the market snapshots.  An evaluation of the paper         *)
(* strategy fixes its time when it starts and commits, when it is through, *)
(* the mid prices of all venues and sometimes a snapshot with one pending  *)
(* label per venue.  A daemon thread and every export request then look up *)
(* what the price did within each horizon after the snapshot.              *)
(*                                                                         *)
(* A pass of a labeller reads the pending labels and the prices, flushes   *)
(* the labels, which locks their rows, reads the pending snapshots and     *)
(* commits.  SQLAlchemy writes only the columns that changed and keeps     *)
(* what it has loaded, so a pass works on values another may have changed. *)
(***************************************************************************)
EXTENDS Integers, Sequences, FiniteSets, SequencesExt, FiniteSetsExt

CONSTANTS
    Labellers,              \* the daemon thread and the requests
    OwnVenue,               \* the configured exchange
    Quotes,                 \* valid venues with their mid prices, as functions
    Horizons,
    Cap, CapSpan,           \* ml_max_snapshots_per_hour and the hour
    LabelLimit, SnapLimit,  \* rows a pass reads
    LabelEnd, MaxBatches, MaxClears   \* bounds of the model

Derived == {"__median__", "__average__"}
Copied == {OwnVenue} \cup Derived
NoValue == [price |-> 0, high |-> 0, low |-> 0, known |-> 0]
Blank == [h \in Horizons |-> NoValue]
NoPass == [pc |-> "idle", gen |-> 0, view |-> << >>, changed |-> {}, loaded |-> << >>]

VARIABLES
    lclock,
    pendingEval,    \* the time of the evaluation in progress, or -1
    batches,        \* MLMarketPriceHistory in the order of the commits: [at, mids]
    snaps,          \* MLMarketSnapshot with its labels
    passes,         \* the pass of a labeller
    gen             \* how often the data set was cleared

labelVars == <<lclock, pendingEval, batches, snaps, passes, gen>>

LabelInit ==
    /\ lclock = 0 /\ pendingEval = -1
    /\ batches = << >> /\ snaps = << >> /\ gen = 0
    /\ passes = [l \in Labellers |-> NoPass]

-----------------------------------------------------------------------------
(* What an evaluation records. *)

Average(f) == ReduceSet(LAMBDA v, sum: sum + f[v], DOMAIN f, 0) \div Cardinality(DOMAIN f)

Median(f) ==
    LET sorted == SetToSortSeq(DOMAIN f, LAMBDA v, w: f[v] < f[w])
        n == Len(sorted)
        upper == f[sorted[n \div 2 + 1]]
    IN  IF n % 2 = 1 THEN upper ELSE (f[sorted[n \div 2]] + upper) \div 2

\* ml_price_history_rows: every valid venue, the median and the average.
Rows(q) ==
    [v \in DOMAIN q \cup Derived |->
        IF v = "__median__" THEN Median(q) ELSE IF v = "__average__" THEN Average(q) ELSE q[v]]

\* Horizons are seconds; prices, their medians and their averages are numbers.
ASSUME LabelAssumption ==
    /\ Horizons \subseteq Nat \ {0}
    /\ \A q \in Quotes : \A v \in DOMAIN Rows(q) : Rows(q)[v] \in Int

\* create_ml_exchange_labels: a pending label for each of them.
Snapshot(at, q) ==
    [at |-> at, ref |-> Rows(q), labels |-> [v \in DOMAIN Rows(q) |-> Blank],
     labeled |-> {}, copies |-> [v \in Copied |-> Blank], done |-> FALSE]

StartEvaluation ==
    /\ pendingEval = -1 /\ Len(batches) < MaxBatches
    /\ batches # << >> => Last(batches).at < lclock
    /\ pendingEval' = lclock
    /\ UNCHANGED <<lclock, batches, snaps, passes, gen>>

\* should_capture_ml_market_snapshot.
UnderCap == Cardinality({i \in DOMAIN snaps : snaps[i].at >= pendingEval - CapSpan}) < Cap

\* create_ml_market_snapshot: the prices are kept even when no snapshot is.
CommitEvaluation ==
    /\ pendingEval # -1
    /\ \E q \in Quotes :
         /\ batches' = Append(batches, [at |-> pendingEval, mids |-> Rows(q)])
         /\ \/ UNCHANGED snaps
            \/ UnderCap /\ snaps' = Append(snaps, Snapshot(pendingEval, q))
    /\ pendingEval' = -1
    /\ UNCHANGED <<lclock, passes, gen>>

\* Capturing is off, the own book has no price, or the evaluation fails.
DropEvaluation ==
    /\ pendingEval # -1 /\ pendingEval' = -1
    /\ UNCHANGED <<lclock, batches, snaps, passes, gen>>

-----------------------------------------------------------------------------
(* A pass of a labeller. *)

\* Faulty variant of History: the window is left open at its end.
HistoryToNow(v, from, to) ==
    {k \in DOMAIN batches : v \in DOMAIN batches[k].mids /\ batches[k].at > from}
\* The committed prices of a venue within the window; the later the commit, the later
\* the time of the evaluation.
History(v, from, to) ==
    {k \in DOMAIN batches :
        v \in DOMAIN batches[k].mids /\ batches[k].at > from /\ batches[k].at <= to}

\* label_values_from_history.
ValuesOf(v, rows) ==
    LET prices == {batches[k].mids[v] : k \in rows}
    IN  [price |-> batches[Max(rows)].mids[v], high |-> Max(prices), low |-> Min(prices),
         known |-> Len(batches)]

Unlabelled ==
    UNION {{i} \X (DOMAIN snaps[i].labels \ snaps[i].labeled) : i \in DOMAIN snaps}

\* At most LabelLimit of the oldest pending labels.
Pending ==
    {work \in kSubset(Min({LabelLimit, Cardinality(Unlabelled)}), Unlabelled) :
        \A iv \in work, jw \in Unlabelled \ work : iv[1] <= jw[1]}

Ready(i, v, h) ==
    /\ lclock - snaps[i].at >= h
    /\ snaps[i].labels[v][h] = NoValue
    /\ History(v, snaps[i].at, snaps[i].at + h) # {}

Unsynced(i) ==
    /\ ~snaps[i].done
    /\ \E v \in Copied \cap DOMAIN snaps[i].labels : snaps[i].labels[v] # snaps[i].copies[v]

\* label_exchange_label for each of them: a horizon is filled once.  A pass that finds
\* nothing to do is left out.
LabelRead(l) ==
    /\ passes[l].pc = "idle"
    /\ \E work \in Pending :
         LET changed == {x \in work \X Horizons : Ready(x[1][1], x[1][2], x[2])}
         IN  /\ changed # {} \/ \E i \in DOMAIN snaps : Unsynced(i)
             /\ passes' = [passes EXCEPT ![l] =
                  [pc |-> "read", gen |-> gen, changed |-> changed,
                   view |-> [iv \in work |-> [h \in Horizons |->
                     IF <<iv, h>> \in changed
                     THEN ValuesOf(iv[2], History(iv[2], snaps[iv[1]].at, snaps[iv[1]].at + h))
                     ELSE snaps[iv[1]].labels[iv[2]][h]]],
                   loaded |-> [i \in {iv[1] : iv \in work} |-> snaps[i].copies]]]
    /\ UNCHANGED <<lclock, pendingEval, batches, snaps, gen>>

\* The next query flushes the labels; another pass that has flushed them is waited for.
FlushLabels(l) ==
    /\ passes[l].pc = "read" /\ passes[l].gen = gen
    /\ \A k \in Labellers \ {l} : passes[k].pc = "flushed" => passes[k].changed \cap passes[l].changed = {}
    /\ passes' = [passes EXCEPT ![l].pc = "flushed"]
    /\ UNCHANGED <<lclock, pendingEval, batches, snaps, gen>>

Full(values) == \A h \in Horizons : values[h] # NoValue

\* A label as this pass sees it: what it has loaded stays as it was.
Seen(l, i, v) ==
    IF <<i, v>> \in DOMAIN passes[l].view THEN passes[l].view[<<i, v>>]
    ELSE IF v \in DOMAIN snaps[i].labels THEN snaps[i].labels[v] ELSE Blank

\* sync_market_snapshot_labels: the own label is copied once, the derived ones while
\* the snapshot is pending.
Synced(l, i) ==
    LET old == IF i \in DOMAIN passes[l].loaded THEN passes[l].loaded[i] ELSE snaps[i].copies
        copy(v, h) == /\ Seen(l, i, v)[h] # NoValue
                      /\ v = OwnVenue => old[v][h] = NoValue
    IN  [v \in Copied |-> [h \in Horizons |-> IF copy(v, h) THEN Seen(l, i, v)[h] ELSE snaps[i].copies[v][h]]]

\* The pending snapshots are read, synchronised and committed with the labels.
SyncAndCommit(l) ==
    LET pending == {i \in DOMAIN snaps : ~snaps[i].done}
        synced == {i \in pending : Cardinality({j \in pending : j < i}) < SnapLimit}
        labels(i) == [v \in DOMAIN snaps[i].labels |-> [h \in Horizons |->
                         IF <<<<i, v>>, h>> \in passes[l].changed THEN passes[l].view[<<i, v>>][h]
                         ELSE snaps[i].labels[v][h]]]
        copies(i) == IF i \in synced THEN Synced(l, i) ELSE snaps[i].copies
    IN  /\ passes[l].pc = "flushed"
        /\ snaps' = [i \in DOMAIN snaps |->
              [snaps[i] EXCEPT !.labels = labels(i),
                               !.labeled = @ \cup {v \in DOMAIN labels(i) :
                                                     /\ <<i, v>> \in DOMAIN passes[l].view
                                                     /\ Full(Seen(l, i, v))},
                               !.copies = copies(i),
                               !.done = @ \/ Full(copies(i)[OwnVenue])]]
        /\ passes' = [passes EXCEPT ![l] = NoPass]
        /\ UNCHANGED <<lclock, pendingEval, batches, gen>>

\* The rows are gone, two passes lock each other's rows, or the database fails.
AbortPass(l) ==
    /\ passes[l].pc # "idle"
    /\ passes' = [passes EXCEPT ![l] = NoPass]
    /\ UNCHANGED <<lclock, pendingEval, batches, snaps, gen>>

-----------------------------------------------------------------------------

\* clear_ml_dataset waits for the rows a pass has locked.
ClearDataset ==
    /\ gen < MaxClears /\ \A l \in Labellers : passes[l].pc # "flushed"
    /\ gen' = gen + 1 /\ batches' = << >> /\ snaps' = << >>
    /\ UNCHANGED <<lclock, pendingEval, passes>>

RestartLabeller ==
    /\ pendingEval' = -1
    /\ passes' = [l \in Labellers |-> NoPass]
    /\ UNCHANGED <<lclock, batches, snaps, gen>>

TickLabeller ==
    /\ lclock < LabelEnd
    /\ lclock' = lclock + 1
    /\ UNCHANGED <<pendingEval, batches, snaps, passes, gen>>

LabelNext ==
    \/ StartEvaluation \/ CommitEvaluation \/ DropEvaluation
    \/ ClearDataset \/ RestartLabeller \/ TickLabeller
    \/ \E l \in Labellers : LabelRead(l) \/ FlushLabels(l) \/ SyncAndCommit(l) \/ AbortPass(l)

LabelSpec == LabelInit /\ [][LabelNext]_labelVars

-----------------------------------------------------------------------------
(* Correctness. *)

\* A value describes exactly its window: of the prices committed after the snapshot and
\* no later than the horizon, it misses at most that of the one evaluation that was under
\* way when the labeller read, and one that began in the instant of the horizon.
Describes(value, v, at, h) ==
    LET window == {k \in DOMAIN batches : v \in DOMAIN batches[k].mids /\ batches[k].at \in (at + 1)..(at + h)}
        found == {k \in window : k <= value.known}
    IN  /\ found # {} /\ value.price = batches[Max(found)].mids[v]
        /\ \A k \in found : batches[k].mids[v] \in value.low..value.high
        /\ \A k \in window \ found : k = value.known + 1 \/ batches[k].at = at + h

\* No label looks further than its horizon or stops short of it, and no snapshot carries
\* a value that is not such a label's, although two passes overwrite each other's values,
\* prices are committed late and the data set is cleared under them; a label or a
\* snapshot counts as labelled only when every horizon is filled.
LabelHonest ==
    \A i \in DOMAIN snaps :
        /\ \A v \in DOMAIN snaps[i].labels : \A h \in Horizons :
             \/ snaps[i].labels[v][h] = NoValue /\ v \notin snaps[i].labeled
             \/ Describes(snaps[i].labels[v][h], v, snaps[i].at, h)
        /\ \A v \in Copied : \A h \in Horizons :
             \/ snaps[i].copies[v][h] = NoValue /\ (v = OwnVenue => ~snaps[i].done)
             \/ Describes(snaps[i].copies[v][h], v, snaps[i].at, h)
=============================================================================
