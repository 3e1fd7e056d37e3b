-------------------------- MODULE FundingLedgerProofs --------------------------
(***************************************************************************)
(* Proofs about FundingLedger for every value of its constants: whatever   *)
(* workers, revised records, failed answers and crashes do, a row says     *)
(* what its ledger sums to and its net result includes it.  The recovery   *)
(* ladder is given each final result once where a trade is finalized once; *)
(* without that exception where a single worker runs.                      *)
(***************************************************************************)
EXTENDS FundingLedger, FiniteSetTheorems, TLAPS

-----------------------------------------------------------------------------
\* Shapes.  What is summed has no type here: only that a row says the same sum counts.
Shaped(r) ==
    r \in [closed: Nat \cup {Null}, net: {r.net}, result: {r.result}, funding: {r.funding},
           status: {"none", "pending", "reconciled", "unavailable"},
           source: {"none", "fills", "earlier", "provisional", "final"},
           checked: Nat \cup {Null}, legacy: BOOLEAN]
Session(p) ==
    p \in [pc: {"walk", "lock", "book"}, loop: {"unclosed", "closed"},
           trade: LiveTrades \cup {Null}, at: Nat \cup {Null},
           todo: SUBSET LiveTrades, legacy: SUBSET LiveTrades,
           state: {p.state}, gate: {p.gate}, row: {p.row}, holds: SUBSET LiveTrades]
Ladder(s) == s \in [losses: {s.losses}, stopped: {s.stopped}]
Entry == [trade: LiveTrades, result: {"win", "loss", "closed"}]

ShapeOK ==
    /\ moment \in Nat /\ moment >= SettleTime
    /\ DOMAIN liveRows = LiveTrades /\ liveRows = [t \in LiveTrades |-> liveRows[t]]
    /\ events = [t \in LiveTrades |-> events[t]]
    /\ settled = [t \in LiveTrades |-> settled[t]]
    /\ pass = [w \in Workers |-> pass[w]]
    /\ told \in Seq(Entry)
    /\ Ladder(state)

\* A worker that is about to book has the row of its trade locked, and has it as it is;
\* no two workers have the same row locked.
WorkerOK(w) ==
    LET p == pass[w]
    IN  /\ p = NoSession \/ Session(p)
        /\ p.pc \in {"lock", "book"} =>
              p.trade \in LiveTrades /\ p.at \in Nat /\ p.at >= SettleTime
        /\ p.pc = "book" => /\ p.trade \in p.holds
                            /\ p.row = liveRows[p.trade]
                            /\ ~JustChecked(p.row, p.at)
LocksOK == \A w, v \in Workers : w # v => pass[w].holds \cap pass[v].holds = {}

\* A final result was final when it was booked, and nothing earlier is booked after it.
SinceFinal(r) ==
    r.source = "final" => r.closed = 0 \/ (r.checked # Null /\ r.checked >= r.closed + SettleTime)

\* How often the ladder has heard of a trade is what its row says.
HeardOf(t) ==
    LET r == liveRows[t]
    IN  /\ r.source \in {"none", "fills", "provisional"} => Times(t) = 0
        /\ r.source \in {"earlier", "final"} => Times(t) = 1
        /\ r.source = "earlier" => r.closed = 0
        /\ r.status = "reconciled" => r.source = "final"
        /\ SinceFinal(r)

RowOK(t) ==
    LET r == liveRows[t]
    IN  /\ Shaped(r)
        /\ r.closed = Null <=> r.source = "none"
        /\ \A e, f \in settled[t] : e.id = f.id => e = f
        /\ SumsRight(t) /\ NetRight(t)
        /\ t \notin redone => HeardOf(t)

AccountInv ==
    /\ ShapeOK /\ LocksOK
    /\ \A w \in Workers : WorkerOK(w)
    /\ \A t \in LiveTrades : RowOK(t)

-----------------------------------------------------------------------------
\* Operators.
LEMMA SumOfNone == Sum({}) = 0
<1> DEFINE Body(g, s) == IF s = {} THEN 0
                         ELSE LET x == CHOOSE x \in s : TRUE IN x.amount + g[s \ {x}]
           iter == CHOOSE g : g = [s \in SUBSET {} |-> Body(g, s)]
           zero == [s \in SUBSET {} |-> 0]
<1>1. \A g : [s \in SUBSET {} |-> Body(g, s)] = zero
  OBVIOUS
<1>2. iter = zero
  BY <1>1
<1>3. Sum({}) = iter[{}]
  BY DEF Sum, MapThenSumSet, MapThenFoldSet
<1> QED
  BY <1>2, <1>3

\* SetToSeq lists every element once.
LEMMA SetToSeqLists ==
    ASSUME NEW S, IsFiniteSet(S)
    PROVE  /\ SetToSeq(S) \in Seq(S)
           /\ DOMAIN SetToSeq(S) = 1..Len(SetToSeq(S))
           /\ \A x \in S : \E i \in DOMAIN SetToSeq(S) : SetToSeq(S)[i] = x
           /\ \A i, j \in DOMAIN SetToSeq(S) : SetToSeq(S)[i] = SetToSeq(S)[j] => i = j
<1> DEFINE n == Cardinality(S)
           f == SetToSeq(S)
<1>1. n \in Nat /\ ExistsBijection(1..n, S)
  BY FS_CardinalityType
<1>2. \E g \in [1..n -> S] : IsInjective(g)
  BY <1>1 DEF ExistsBijection, Bijection, Injection
<1>3. f \in [1..n -> S] /\ IsInjective(f)
  BY <1>2 DEF SetToSeq
<1>4. IsFiniteSet(1..n) /\ Cardinality(1..n) = n
  BY <1>1, FS_Interval
<1>5. f \in Injection(1..n, S)
  BY <1>3 DEF Injection
<1>6. f \in Surjection(1..n, S)
  BY <1>4, <1>5, FS_Injection
<1>7. f \in Seq(S) /\ Len(f) = n
  BY <1>1, <1>3
<1> QED
  BY <1>3, <1>6, <1>7 DEF Surjection, IsInjective

\* Writing the row of a trade that is locked: nothing of the image is old.
LEMMA FlushOwn ==
    ASSUME NEW row, NEW target, Shaped(row), Shaped(target)
    PROVE  Flush(row, target, row) = target
<1>1. DOMAIN row = DOMAIN target
  BY DEF Shaped
<1>2. Flush(row, target, row) = [f \in DOMAIN row |-> target[f]]
  BY DEF Flush
<1>3. target = [f \in DOMAIN target |-> target[f]]
  BY DEF Shaped
<1> QED
  BY <1>1, <1>2, <1>3

LEMMA TimesAppend ==
    ASSUME told \in Seq(Entry), NEW e \in Entry, told' = Append(told, e), NEW t
    PROVE  /\ Times(t) \in Nat
           /\ Times(t)' = IF e.trade = t THEN Times(t) + 1 ELSE Times(t)
<1> DEFINE n == Len(told)
           I == {i \in DOMAIN told : told[i].trade = t}
           J == {i \in DOMAIN told' : told'[i].trade = t}
<1>1. n \in Nat /\ DOMAIN told = 1..n /\ DOMAIN told' = 1..(n + 1)
      /\ told'[n + 1] = e /\ \A i \in 1..n : told'[i] = told[i]
  OBVIOUS
<1>2. IsFiniteSet(1..n) /\ I \in SUBSET (1..n)
  BY <1>1, FS_Interval
<1>3. IsFiniteSet(I) /\ Cardinality(I) \in Nat
  BY <1>2, FS_Subset, FS_CardinalityType
<1>4. J = IF e.trade = t THEN I \cup {n + 1} ELSE I
  BY <1>1
<1>5. n + 1 \notin I
  BY <1>1
<1>6. Cardinality(J) = IF e.trade = t THEN Cardinality(I) + 1 ELSE Cardinality(I)
  BY <1>3, <1>4, <1>5, FS_AddElement
<1> QED
  BY <1>3, <1>6 DEF Times

-----------------------------------------------------------------------------
\* Sessions.
LEMMA HandledSession ==
    ASSUME NEW p, Session(p)
    PROVE  /\ Session(Handled(p)) /\ Handled(p).pc = "walk" /\ Handled(p).holds = p.holds
BY DEF Session, Handled

LEMMA CommittedSession ==
    ASSUME NEW p, Session(p)
    PROVE  /\ Session(Committed(p)) /\ Committed(p).holds = {}
           /\ Committed(p).pc = p.pc /\ Committed(p).trade = p.trade
           /\ Committed(p).at = p.at /\ Committed(p).row = p.row
BY DEF Session, Committed

LEMMA LoadedSession ==
    ASSUME NEW p, Session(p)
    PROVE  /\ Session(Loaded(p)) /\ Loaded(p).pc = p.pc /\ Loaded(p).holds = p.holds
BY DEF Session, Loaded

LEMMA AskSession ==
    ASSUME ShapeOK, NEW w \in Workers, NEW t \in LiveTrades, Session(pass[w])
    PROVE  /\ Session(Ask(w, t)) /\ Ask(w, t).pc = "lock" /\ Ask(w, t).trade = t
           /\ Ask(w, t).at = moment /\ Ask(w, t).holds = pass[w].holds
<1> DEFINE p == Loaded(pass[w])
<1>1. Session(p) /\ p.holds = pass[w].holds
  BY LoadedSession
<1>2. moment \in Nat
  BY DEF ShapeOK
<1> QED
  BY <1>1, <1>2 DEF Session, Ask

\* A worker that is not idle has a session.
LEMMA Working ==
    ASSUME AccountInv, NEW w \in Workers, pass[w].pc # "idle"
    PROVE  Session(pass[w]) /\ WorkerOK(w)
BY DEF AccountInv, WorkerOK, NoSession

-----------------------------------------------------------------------------
\* What a step must leave behind.
\* One worker moves; a row that another is about to book does not.
LEMMA WorkerMoves ==
    ASSUME AccountInv, NEW w \in Workers, NEW p, Continue(w, p),
           p = NoSession \/ Session(p),
           p.pc \in {"lock", "book"} =>
              p.trade \in LiveTrades /\ p.at \in Nat /\ p.at >= SettleTime,
           p.pc = "book" => /\ p.trade \in p.holds
                            /\ p.row = liveRows'[p.trade]
                            /\ ~JustChecked(p.row, p.at),
           \A v \in Workers \ {w} : p.holds \cap pass[v].holds = {},
           \A v \in Workers \ {w} : pass[v].pc = "book" =>
              liveRows'[pass[v].trade] = liveRows[pass[v].trade]
    PROVE  /\ LocksOK' /\ \A v \in Workers : WorkerOK(v)'
           /\ pass' = [v \in Workers |-> pass'[v]]
<1>1. pass = [v \in Workers |-> pass[v]] /\ pass' = [pass EXCEPT ![w] = p]
  BY DEF AccountInv, ShapeOK, Continue
<1>2. pass'[w] = p /\ \A v \in Workers \ {w} : pass'[v] = pass[v]
  BY <1>1
<1>3. LocksOK'
  BY <1>2 DEF AccountInv, LocksOK
<1>4. WorkerOK(w)'
  BY <1>2 DEF WorkerOK, JustChecked
<1>5. ASSUME NEW v \in Workers \ {w} PROVE WorkerOK(v)'
  <2>1. WorkerOK(v) /\ pass'[v] = pass[v]
    BY <1>2 DEF AccountInv
  <2> QED
    BY <2>1 DEF WorkerOK, JustChecked
<1> QED
  BY <1>1, <1>3, <1>4, <1>5

\* A row that is not written.
LEMMA RowStays ==
    ASSUME NEW t \in LiveTrades, RowOK(t), liveRows'[t] = liveRows[t],
           events'[t] = events[t], settled'[t] = settled[t], Times(t)' = Times(t),
           t \in redone => t \in redone'
    PROVE  RowOK(t)'
BY DEF RowOK, SumsRight, NetRight, HeardOf, SinceFinal, Shaped

\* A step of a worker that writes no row.
LEMMA QuietInv ==
    ASSUME AccountInv, NEW w \in Workers, NEW p, Continue(w, p),
           p = NoSession \/ Session(p),
           p.pc \in {"lock", "book"} =>
              p.trade \in LiveTrades /\ p.at \in Nat /\ p.at >= SettleTime,
           p.pc = "book" => /\ p.trade \in p.holds
                            /\ p.row = liveRows[p.trade]
                            /\ ~JustChecked(p.row, p.at),
           \A v \in Workers \ {w} : p.holds \cap pass[v].holds = {},
           UNCHANGED <<moment, accountVars, settled>>
    PROVE  AccountInv'
<1>1. /\ moment' = moment /\ liveRows' = liveRows /\ events' = events /\ state' = state
      /\ told' = told /\ redone' = redone /\ settled' = settled
  BY DEF accountVars
<1>2. LocksOK' /\ (\A v \in Workers : WorkerOK(v)') /\ pass' = [v \in Workers |-> pass'[v]]
  BY <1>1, WorkerMoves
<1>3. ASSUME NEW t \in LiveTrades PROVE RowOK(t)'
  BY <1>1, RowStays DEF AccountInv, Times
<1>4. ShapeOK'
  BY <1>1, <1>2 DEF AccountInv, ShapeOK, Ladder
<1> QED
  BY <1>2, <1>3, <1>4 DEF AccountInv

LEMMA WalkInv ==
    ASSUME AccountInv, NEW w \in Workers,
           \/ StartPass(w) \/ ListClosed(w) \/ EndPass(w)
           \/ FundingLock(w) \/ ReadLadder(w)
           \/ \E t \in LiveTrades : StillHeld(w, t) \/ Revisit(w, t) \/ GiveUpTurn(w, t)
    PROVE  AccountInv'
<1>1. ShapeOK /\ LocksOK /\ WorkerOK(w)
  BY DEF AccountInv
<1>2. CASE StartPass(w)
  <2> DEFINE p == [pc |-> "walk", loop |-> "unclosed", trade |-> Null, at |-> Null,
                   todo |-> {t \in LiveTrades : liveRows[t].closed = Null},
                   legacy |-> {t \in LiveTrades : liveRows[t].closed = Null /\ liveRows[t].legacy},
                   state |-> Null, gate |-> Null, row |-> Null, holds |-> {}]
  <2>1. Session(p) /\ p.pc = "walk" /\ p.holds = {}
    BY DEF Session
  <2> QED
    BY <1>2, <2>1, QuietInv DEF StartPass
<1>3. CASE ListClosed(w)
  <2> DEFINE todo == {t \in LiveTrades : liveRows[t].closed # Null /\ liveRows[t].status # "reconciled"}
             p == [pass[w] EXCEPT !.loop = "closed", !.todo = todo,
                                  !.legacy = @ \cup {t \in todo : liveRows[t].legacy}]
  <2>1. Session(pass[w]) /\ pass[w].pc = "walk"
    BY <1>3, Working DEF ListClosed
  <2>2. Session(p) /\ p.pc = "walk" /\ p.holds = pass[w].holds
    BY <2>1 DEF Session
  <2> QED
    BY <1>1, <1>3, <2>2, QuietInv DEF ListClosed, LocksOK
<1>4. CASE EndPass(w)
  BY <1>4, QuietInv DEF EndPass, NoSession
<1>5. CASE FundingLock(w)
  <2> DEFINE t == pass[w].trade
             p == [pass[w] EXCEPT !.holds = @ \cup {t}]
             q == [p EXCEPT !.pc = "book", !.row = liveRows[t]]
  <2>1. Session(pass[w]) /\ t \in LiveTrades /\ pass[w].at \in Nat /\ pass[w].at >= SettleTime
    BY <1>5, Working DEF FundingLock, WorkerOK
  <2>2. /\ Session(p) /\ p.holds = pass[w].holds \cup {t} /\ p.at = pass[w].at
        /\ p.trade = t
    BY <2>1 DEF Session
  <2>3. /\ Session(q) /\ q.pc = "book" /\ q.holds = p.holds /\ q.row = liveRows[t]
        /\ q.trade = t /\ q.at = p.at
    BY <2>2 DEF Session
  <2>4. \A v \in Workers \ {w} : p.holds \cap pass[v].holds = {}
    BY <1>1, <1>5, <2>2 DEF FundingLock, RowFree, LocksOK
  <2>5. CASE JustChecked(liveRows[t], p.at)
    <3>1. Continue(w, Handled(p)) /\ UNCHANGED <<moment, accountVars, settled>>
      BY <1>5, <2>5 DEF FundingLock
    <3> QED
      BY <2>2, <2>4, <3>1, HandledSession, QuietInv
  <2>6. CASE ~JustChecked(liveRows[t], p.at)
    <3>1. Continue(w, q) /\ UNCHANGED <<moment, accountVars, settled>>
      BY <1>5, <2>6 DEF FundingLock
    <3> QED
      BY <2>1, <2>2, <2>3, <2>4, <2>6, <3>1, QuietInv
  <2> QED
    BY <2>5, <2>6
<1>6. CASE ReadLadder(w)
  <2> DEFINE p == [pass[w] EXCEPT !.state = state]
  <2>1. Session(pass[w]) /\ pass[w].pc = "book"
    BY <1>6, Working DEF ReadLadder
  <2>2. /\ Session(p) /\ p.pc = "book" /\ p.holds = pass[w].holds /\ p.row = pass[w].row
        /\ p.trade = pass[w].trade /\ p.at = pass[w].at
    BY <2>1 DEF Session
  <2> QED
    BY <1>1, <1>6, <2>1, <2>2, QuietInv DEF ReadLadder, WorkerOK, LocksOK
<1>7. ASSUME NEW t \in LiveTrades, StillHeld(w, t) \/ Revisit(w, t) PROVE AccountInv'
  <2>1. Session(pass[w])
    BY <1>7, Working DEF StillHeld, Revisit
  <2>2. moment \in Nat /\ moment >= SettleTime
    BY <1>1 DEF ShapeOK
  <2>3. Continue(w, Ask(w, t)) /\ UNCHANGED <<moment, accountVars, settled>>
    BY <1>7 DEF StillHeld, Revisit
  <2> QED
    BY <1>1, <2>1, <2>2, <2>3, AskSession, QuietInv DEF LocksOK
<1>8. ASSUME NEW t \in LiveTrades, GiveUpTurn(w, t) PROVE AccountInv'
  <2> DEFINE p == [Loaded(pass[w]) EXCEPT !.trade = t]
  <2>1. Session(pass[w])
    BY <1>8, Working DEF GiveUpTurn
  <2>2. Session(p)
    BY <2>1, LoadedSession DEF Session
  <2>3. Session(Handled(p)) /\ Handled(p).pc = "walk"
    BY <2>2, HandledSession
  <2>4. /\ Session(Committed(Handled(p))) /\ Committed(Handled(p)).pc = "walk"
        /\ Committed(Handled(p)).holds = {}
    BY <2>3, CommittedSession
  <2> QED
    BY <1>8, <2>4, QuietInv DEF GiveUpTurn
<1> QED
  BY <1>2, <1>3, <1>4, <1>5, <1>6, <1>7, <1>8

-----------------------------------------------------------------------------
\* A worker writes the row of t, which nobody else has locked, and commits.
LEMMA WriteInv ==
    ASSUME AccountInv, NEW w \in Workers, NEW t \in LiveTrades, NEW p, Continue(w, p),
           Session(p), p.holds = {}, p.pc # "book",
           p.pc = "lock" => p.trade \in LiveTrades /\ p.at \in Nat /\ p.at >= SettleTime,
           RowFree(w, t), moment' = moment, settled' = settled,
           liveRows' = [u \in LiveTrades |-> liveRows'[u]],
           events' = [u \in LiveTrades |-> events'[u]],
           \A u \in LiveTrades \ {t} : /\ liveRows'[u] = liveRows[u]
                                       /\ events'[u] = events[u] /\ Times(u)' = Times(u),
           redone \subseteq redone',
           told' \in Seq(Entry), Ladder(state'), RowOK(t)'
    PROVE  AccountInv'
<1>1. \A v \in Workers \ {w} : pass[v].pc = "book" =>
          liveRows'[pass[v].trade] = liveRows[pass[v].trade]
  BY DEF AccountInv, WorkerOK, RowFree
<1>2. LocksOK' /\ (\A v \in Workers : WorkerOK(v)') /\ pass' = [v \in Workers |-> pass'[v]]
  BY <1>1, WorkerMoves DEF Session
<1>3. ASSUME NEW u \in LiveTrades PROVE RowOK(u)'
  BY RowStays DEF AccountInv
<1>4. ShapeOK'
  BY <1>2 DEF AccountInv, ShapeOK, Ladder
<1> QED
  BY <1>2, <1>3, <1>4 DEF AccountInv

\* Nothing of the sums or of what was told depends on the audit.
LEMMA AuditInv ==
    ASSUME AccountInv, NEW w \in Workers, NEW t \in LiveTrades, Audit(w, t)
    PROVE  AccountInv'
<1> DEFINE p == [Loaded(pass[w]) EXCEPT !.trade = t, !.gate = SetGate(pass[w], TRUE, FALSE)]
           q == [p EXCEPT !.legacy = @ \ {t}, !.trade = Null]
<1>1. Session(pass[w]) /\ pass[w].pc = "walk" /\ RowFree(w, t) /\ ShapeOK /\ RowOK(t)
  BY Working DEF Audit, AccountInv
<1>2. Session(p) /\ p.pc = "walk"
  BY <1>1, LoadedSession DEF Session
<1>3. Session(q) /\ q.pc = "walk"
  BY <1>2 DEF Session
<1>4. /\ moment' = moment /\ events' = events /\ state' = state /\ told' = told
      /\ redone' = redone /\ settled' = settled /\ \A u : Times(u)' = Times(u)
  BY DEF Audit, Times
<1>5. CASE Continue(w, Committed(Handled(p))) /\ liveRows' = liveRows
  <2>1. Session(Handled(p)) /\ Handled(p).pc = "walk"
    BY <1>2, HandledSession
  <2>2. /\ Session(Committed(Handled(p))) /\ Committed(Handled(p)).pc = "walk"
        /\ Committed(Handled(p)).holds = {}
    BY <2>1, CommittedSession
  <2>3. RowOK(t)'
    BY <1>1, <1>4, <1>5, RowStays
  <2> QED
    BY <1>1, <1>4, <1>5, <2>2, <2>3, WriteInv DEF ShapeOK, Ladder
<1>6. CASE Continue(w, Committed(q)) /\ liveRows' = [liveRows EXCEPT ![t].legacy = FALSE]
  <2>1. Session(Committed(q)) /\ Committed(q).pc = "walk" /\ Committed(q).holds = {}
    BY <1>3, CommittedSession
  <2>2. liveRows' = [u \in LiveTrades |-> liveRows'[u]]
        /\ liveRows'[t] = [liveRows[t] EXCEPT !.legacy = FALSE]
        /\ \A u \in LiveTrades \ {t} : liveRows'[u] = liveRows[u]
    BY <1>1, <1>6 DEF ShapeOK
  <2>3. /\ Shaped(liveRows'[t])
        /\ liveRows'[t].closed = liveRows[t].closed /\ liveRows'[t].net = liveRows[t].net
        /\ liveRows'[t].result = liveRows[t].result
        /\ liveRows'[t].funding = liveRows[t].funding
        /\ liveRows'[t].status = liveRows[t].status
        /\ liveRows'[t].source = liveRows[t].source
        /\ liveRows'[t].checked = liveRows[t].checked
    BY <1>1, <2>2 DEF RowOK, Shaped
  <2>4. RowOK(t)'
    BY <1>1, <1>4, <2>3 DEF RowOK, SumsRight, NetRight, HeardOf, SinceFinal
  <2>5. /\ Continue(w, Committed(q)) /\ told' \in Seq(Entry) /\ Ladder(state')
        /\ events' = [u \in LiveTrades |-> events'[u]]
    BY <1>1, <1>4, <1>6 DEF ShapeOK, Ladder
  <2> HIDE DEF p, q
  <2> QED
    BY <1>1, <1>4, <2>1, <2>2, <2>4, <2>5, WriteInv
<1> QED
  BY <1>5, <1>6 DEF Audit

\* A close books the result of the fills; the ladder has not heard of it, unless another
\* thread has closed the trade before.
LEMMA FinalizeInv ==
    ASSUME AccountInv, NEW w \in Workers, NEW t \in LiveTrades, Finalize(w, t)
    PROVE  AccountInv'
<1> DEFINE r == FinalRow(t, liveRows[t], moment)
<1>1. Session(pass[w]) /\ RowFree(w, t) /\ ShapeOK /\ RowOK(t) /\ Shaped(liveRows[t])
  BY Working DEF Finalize, AccountInv, RowOK
<1>2. /\ moment' = moment /\ events' = events /\ state' = state /\ told' = told
      /\ settled' = settled /\ \A u : Times(u)' = Times(u)
      /\ Continue(w, Committed(Ask(w, t)))
      /\ liveRows' = [liveRows EXCEPT ![t] = r]
      /\ redone' = IF liveRows[t].closed = Null THEN redone ELSE redone \cup {t}
  BY DEF Finalize, Times
<1>3. moment \in Nat /\ moment >= SettleTime
  BY <1>1 DEF ShapeOK
<1>4. /\ Session(Ask(w, t)) /\ Ask(w, t).pc = "lock" /\ Ask(w, t).trade = t
      /\ Ask(w, t).at = moment
  BY <1>1, AskSession
<1>5. /\ Session(Committed(Ask(w, t))) /\ Committed(Ask(w, t)).pc = "lock"
      /\ Committed(Ask(w, t)).trade = t /\ Committed(Ask(w, t)).at = moment
      /\ Committed(Ask(w, t)).holds = {}
  BY <1>4, CommittedSession
<1>6. /\ Shaped(r) /\ r.closed = moment /\ r.source = "fills"
      /\ r.funding = liveRows[t].funding /\ r.status = liveRows[t].status
  BY <1>1, <1>3 DEF Shaped, FinalRow
<1>7. /\ liveRows' = [u \in LiveTrades |-> liveRows'[u]] /\ liveRows'[t] = r
      /\ \A u \in LiveTrades \ {t} : liveRows'[u] = liveRows[u]
  BY <1>1, <1>2 DEF ShapeOK
<1>8. moment # Null
  BY <1>3, FundingAssumption
<1>9. t \notin redone' => HeardOf(t)'
  <2>1. CASE liveRows[t].closed = Null /\ t \notin redone
    <3>1. liveRows[t].source = "none" /\ HeardOf(t)
      BY <1>1, <2>1 DEF RowOK
    <3> QED
      BY <1>2, <1>6, <1>7, <3>1 DEF HeardOf, SinceFinal
  <2> QED
    BY <1>2, <2>1
<1>10. RowOK(t)'
  BY <1>1, <1>2, <1>6, <1>7, <1>8, <1>9 DEF RowOK, SumsRight, NetRight
<1> QED
  BY <1>1, <1>2, <1>3, <1>5, <1>7, <1>10, WriteInv, SMTT(30) DEF ShapeOK, Ladder

-----------------------------------------------------------------------------
\* Booking.
LEMMA AccountedRow ==
    ASSUME NEW t, NEW r, Shaped(r), NEW records, NEW at \in Nat,
           NEW target, target = Accounted(t, r, records, at)
    PROVE  /\ Shaped(target) /\ target.closed = r.closed /\ target.checked = at
           /\ target.funding = Sum(records)
           /\ target.status = IF SettledBy(r, at) THEN "reconciled" ELSE "pending"
           /\ r.closed = Null => target.source = r.source
           /\ r.closed # Null =>
                 /\ target.net = Fills[t] + target.funding
                 /\ target.result = ResultOf(target.net)
                 /\ target.source = IF SettledBy(r, at) THEN "final" ELSE "provisional"
<1> DEFINE status == IF SettledBy(r, at) THEN "reconciled" ELSE "pending"
           net == Fills[t] + Sum(records)
           source == IF status = "reconciled" THEN "final" ELSE "provisional"
           asked == [r EXCEPT !.funding = Sum(records), !.status = status, !.checked = at]
           booked == [asked EXCEPT !.net = net, !.result = ResultOf(net),
                                          !.source = source]
<1>1. /\ Shaped(asked) /\ asked.closed = r.closed /\ asked.checked = at
      /\ asked.funding = Sum(records) /\ asked.status = status /\ asked.source = r.source
  BY DEF Shaped
<1>2. /\ Shaped(booked) /\ booked.closed = r.closed /\ booked.checked = at
      /\ booked.funding = Sum(records) /\ booked.status = status /\ booked.net = net
      /\ booked.result = ResultOf(net)
      /\ booked.source = source
  <2>1. source \in {"final", "provisional"}
    OBVIOUS
  <2> HIDE DEF asked, status, net, source
  <2> QED
    BY <1>1, <2>1 DEF Shaped
<1>3. target = IF r.closed = Null THEN asked ELSE booked
  BY DEF Accounted
<1> QED
  BY <1>1, <1>2, <1>3

LEMMA ReportedShape ==
    ASSUME NEW s, Ladder(s), NEW result PROVE Ladder(Reported(s, result))
BY DEF Ladder, Reported, NoLoss

LEMMA LadderShape ==
    ASSUME NEW s, NEW loaded, NEW target, Ladder(s) PROVE Ladder(Flush(loaded, target, s))
BY DEF Ladder, Flush

\* What every booking finds: its row is locked and as it was read, and not too recent.
LEMMA Booking ==
    ASSUME AccountInv, NEW w \in Workers, pass[w].pc = "book"
    PROVE  LET p == pass[w]
           IN  /\ Session(p) /\ p.trade \in LiveTrades /\ p.at \in Nat /\ p.at >= SettleTime
               /\ p.row = liveRows[p.trade] /\ ~JustChecked(p.row, p.at)
               /\ RowFree(w, p.trade) /\ RowOK(p.trade) /\ Shaped(p.row)
<1>1. Session(pass[w]) /\ WorkerOK(w) /\ LocksOK
  BY Working DEF AccountInv
<1>2. pass[w].trade \in LiveTrades /\ RowOK(pass[w].trade)
  BY <1>1 DEF WorkerOK, AccountInv
<1> QED
  BY <1>1, <1>2 DEF WorkerOK, LocksOK, RowFree, RowOK

\* What the ladder has heard of a trade, once its records are booked.
LEMMA BookedHeard ==
    ASSUME NEW t \in LiveTrades, NEW r, NEW target, NEW at \in Nat, at >= SettleTime,
           Shaped(r), r = liveRows[t], r.closed = Null <=> r.source = "none",
           ~JustChecked(r, at), HeardOf(t), Times(t) \in Nat,
           liveRows'[t] = target, target.closed = r.closed, target.checked = at,
           target.status = IF SettledBy(r, at) THEN "reconciled" ELSE "pending",
           r.closed = Null => target.source = r.source,
           r.closed # Null => target.source = IF SettledBy(r, at) THEN "final" ELSE "provisional",
           Times(t)' = IF OutcomeDue(r, at) THEN Times(t) + 1 ELSE Times(t)
    PROVE  HeardOf(t)'
<1>1. /\ SettleTime \in Nat /\ CheckEvery \in Nat /\ Null \notin Nat
  BY FundingAssumption
<1>2. /\ r.closed \in Nat \cup {Null} /\ r.checked \in Nat \cup {Null}
      /\ r.source \in {"none", "fills", "earlier", "provisional", "final"}
  BY DEF Shaped
<1>3. CASE r.source = "none"
  BY <1>2, <1>3 DEF HeardOf, SinceFinal, OutcomeDue, SettledBy
<1>4. CASE r.source \in {"fills", "provisional"}
  <2>1. r.closed \in Nat /\ r.status # "reconciled" /\ Times(t) = 0
    BY <1>2, <1>4 DEF HeardOf
  <2>2. OutcomeDue(r, at) <=> SettledBy(r, at)
    BY <1>4, <2>1 DEF OutcomeDue
  <2>3. SettledBy(r, at) <=> at >= r.closed + SettleTime
    BY <1>1, <2>1 DEF SettledBy
  <2>4. CASE SettledBy(r, at)
    BY <1>1, <2>1, <2>2, <2>3, <2>4 DEF HeardOf, SinceFinal
  <2>5. CASE ~SettledBy(r, at)
    BY <1>1, <2>1, <2>2, <2>5 DEF HeardOf, SinceFinal
  <2> QED
    BY <2>4, <2>5
<1>5. CASE r.source \in {"earlier", "final"}
  <2>1. r.closed \in Nat /\ Times(t) = 1 /\ ~OutcomeDue(r, at)
    BY <1>2, <1>5 DEF HeardOf, OutcomeDue
  <2>2. at >= r.closed + SettleTime
    <3>1. CASE r.closed = 0
      BY <1>1, <3>1
    <3>2. CASE r.closed # 0
      <4>1. r.checked # Null /\ r.checked >= r.closed + SettleTime
        BY <1>5, <3>2 DEF HeardOf, SinceFinal
      <4>2. r.checked \in Nat /\ at >= r.checked + CheckEvery
        BY <1>1, <1>2, <4>1 DEF JustChecked
      <4> QED
        BY <1>1, <2>1, <4>1, <4>2
    <3> QED
      BY <3>1, <3>2
  <2>3. SettledBy(r, at)
    BY <1>1, <2>1, <2>2 DEF SettledBy
  <2> QED
    BY <1>1, <2>1, <2>2, <2>3 DEF HeardOf, SinceFinal
<1> QED
  BY <1>2, <1>3, <1>4, <1>5

LEMMA TimesType == ASSUME told \in Seq(Entry), NEW t PROVE Times(t) \in Nat
<1> DEFINE I == {i \in DOMAIN told : told[i].trade = t}
<1>1. Len(told) \in Nat /\ I \in SUBSET (1..Len(told))
  OBVIOUS
<1>2. IsFiniteSet(I)
  BY <1>1, FS_Interval, FS_Subset
<1> QED
  BY <1>2, FS_CardinalityType DEF Times

LEMMA BookInv ==
    ASSUME AccountInv, NEW w \in Workers, BookFunding(w)
    PROVE  AccountInv'
<1> PICK p : p = pass[w]
  OBVIOUS
<1> PICK t : t = p.trade
  OBVIOUS
<1> PICK r : r = p.row
  OBVIOUS
<1> PICK records : records = events[t] \cup NewRecords(t)
  OBVIOUS
<1> PICK target : target = Accounted(t, r, records, p.at)
  OBVIOUS
<1> PICK due \in BOOLEAN : due = OutcomeDue(r, p.at)
  BY DEF OutcomeDue
<1> PICK entry : entry = [trade |-> t, result |-> target.result]
  OBVIOUS
<1> DEFINE reported == Reported(p.state, target.result)
           wanted == SetGate(p, target.closed # Null /\ target.status # "reconciled",
                             due /\ Pauses(p.state, target.result))
           done == [p EXCEPT !.gate = wanted, !.state = IF due THEN reported ELSE @]
<1>1. /\ Session(p) /\ t \in LiveTrades /\ p.at \in Nat /\ p.at >= SettleTime
      /\ r = liveRows[t] /\ ~JustChecked(r, p.at)
      /\ RowFree(w, t) /\ RowOK(t) /\ Shaped(r) /\ ShapeOK
  BY Booking DEF BookFunding, AccountInv
<1>2. /\ events' = [events EXCEPT ![t] = records]
      /\ liveRows' = [liveRows EXCEPT ![t] = Flush(r, target, liveRows[t])]
      /\ IF due THEN /\ state' = Flush(p.state, reported, state) /\ told' = Append(told, entry)
                ELSE state' = state /\ told' = told
      /\ Continue(w, Committed(Handled(done)))
      /\ moment' = moment /\ redone' = redone /\ settled' = settled
  BY DEF BookFunding
<1>3. /\ Shaped(target) /\ target.closed = r.closed /\ target.checked = p.at
      /\ target.funding = Sum(records)
      /\ target.status = IF SettledBy(r, p.at) THEN "reconciled" ELSE "pending"
      /\ r.closed = Null => target.source = r.source
      /\ r.closed # Null =>
            /\ target.net = Fills[t] + target.funding
            /\ target.result = ResultOf(target.net)
            /\ target.source = IF SettledBy(r, p.at) THEN "final" ELSE "provisional"
  <2>1. Shaped(r) /\ p.at \in Nat
    BY <1>1
  <2> QED
    BY ONLY <2>1, target = Accounted(t, r, records, p.at), AccountedRow
<1>4. due => entry \in Entry
  BY <1>1, <1>3 DEF OutcomeDue, SettledBy, ResultOf, Entry
<1>5. \A u : /\ Times(u) \in Nat
              /\ Times(u)' = IF due /\ u = t THEN Times(u) + 1 ELSE Times(u)
  <2>1. told \in Seq(Entry)
    BY <1>1 DEF ShapeOK
  <2>2. CASE due
    <3>1. entry \in Entry /\ entry.trade = t /\ told' = Append(told, entry)
      BY <1>2, <1>4, <2>2
    <3> QED
      BY <2>1, <2>2, <3>1, TimesAppend
  <2>3. CASE ~due
    BY <1>2, <2>1, <2>3, TimesType DEF Times
  <2> QED
    BY <2>2, <2>3
<1>6. told' \in Seq(Entry) /\ Ladder(state')
  <2>1. told \in Seq(Entry) /\ Ladder(state)
    BY <1>1 DEF ShapeOK
  <2>2. Ladder(Flush(p.state, reported, state))
    BY <2>1, LadderShape
  <2> HIDE DEF reported
  <2>3. CASE due
    <3>1. state' = Flush(p.state, reported, state) /\ told' = Append(told, entry) /\ entry \in Entry
      BY <1>2, <1>4, <2>3
    <3>2. Append(told, entry) \in Seq(Entry)
      BY ONLY <2>1, <3>1
    <3> QED
      BY ONLY <2>2, <3>1, <3>2
  <2>4. CASE ~due
    BY <1>2, <2>1, <2>4
  <2> QED
    BY <2>3, <2>4
<1>7. /\ Session(Committed(Handled(done))) /\ Committed(Handled(done)).pc = "walk"
      /\ Committed(Handled(done)).holds = {}
  <2>1. Session(done)
    <3> HIDE DEF wanted, reported
    <3> QED
      BY <1>1 DEF Session
  <2> HIDE DEF done
  <2>2. Session(Handled(done)) /\ Handled(done).pc = "walk"
    BY <2>1, HandledSession
  <2> QED
    BY <2>2, CommittedSession
<1>8. Flush(r, target, liveRows[t]) = target
  <2>1. r = liveRows[t] /\ Shaped(r) /\ Shaped(target)
    BY <1>1, <1>3
  <2>2. Flush(r, target, r) = target
    BY ONLY <2>1, FlushOwn
  <2> QED
    BY ONLY <2>1, <2>2
<1>9. /\ liveRows' = [u \in LiveTrades |-> liveRows'[u]] /\ liveRows'[t] = target
      /\ events' = [u \in LiveTrades |-> events'[u]] /\ events'[t] = records
      /\ \A u \in LiveTrades \ {t} : liveRows'[u] = liveRows[u] /\ events'[u] = events[u]
  BY <1>1, <1>2, <1>8 DEF ShapeOK
<1>10. \A e, f \in records : e.id = f.id => e = f
  <2>1. /\ \A e, f \in events[t] : e.id = f.id => e = f
        /\ \A e, f \in settled[t] : e.id = f.id => e = f
    BY <1>1 DEF RowOK, SumsRight
  <2>2. \A e \in NewRecords(t), f \in events[t] : e \in settled[t] /\ e.id # f.id
    BY DEF NewRecords, Known
  <2>3. \A e \in NewRecords(t) : e \in settled[t]
    BY DEF NewRecords
  <2> PICK fresh : fresh = NewRecords(t)
    OBVIOUS
  <2> PICK known : known = events[t]
    OBVIOUS
  <2> PICK all : all = settled[t]
    OBVIOUS
  <2>4. /\ records = known \cup fresh /\ \A e \in fresh : e \in all
        /\ \A e, f \in known : e.id = f.id => e = f
        /\ \A e, f \in all : e.id = f.id => e = f
        /\ \A e \in fresh, f \in known : e.id # f.id
    BY <2>1, <2>2, <2>3
  <2> QED
    BY ONLY <2>4
<1>11. liveRows'[t] = target /\ events'[t] = records /\ settled'[t] = settled[t]
  BY <1>2, <1>9
<1>12. /\ r.closed = Null <=> r.source = "none"
       /\ \A e, f \in settled[t] : e.id = f.id => e = f
       /\ t \notin redone => HeardOf(t)
  BY <1>1 DEF RowOK
<1>13. target.closed = Null <=> target.source = "none"
  BY <1>3, <1>12
<1>14. SumsRight(t)'
  BY <1>3, <1>10, <1>11 DEF SumsRight
<1>15. NetRight(t)'
  BY <1>3, <1>11, <1>12 DEF NetRight
<1>16. t \notin redone' => HeardOf(t)'
  <2>1. Times(t) \in Nat /\ Times(t)' = IF OutcomeDue(r, p.at) THEN Times(t) + 1 ELSE Times(t)
    BY <1>5
  <2>2. redone' = redone
    BY <1>2
  <2> QED
    BY ONLY <1>1, <1>3, <1>11, <1>12, <2>1, <2>2, BookedHeard
<1>17. RowOK(t)'
  BY <1>3, <1>11, <1>12, <1>13, <1>14, <1>15, <1>16 DEF RowOK
<1>18. /\ Continue(w, Committed(Handled(done))) /\ RowFree(w, t)
       /\ moment' = moment /\ settled' = settled /\ redone \subseteq redone'
       /\ \A u \in LiveTrades \ {t} : Times(u)' = Times(u)
  BY <1>1, <1>2, <1>5
<1> HIDE DEF done
<1> QED
  BY <1>1, <1>6, <1>7, <1>9, <1>17, <1>18, WriteInv

\* A failed answer books nothing of the result; records that were added stay.
LEMMA FailInv ==
    ASSUME AccountInv, NEW w \in Workers, FailFunding(w)
    PROVE  AccountInv'
<1> PICK p : p = pass[w]
  OBVIOUS
<1> PICK t : t = p.trade
  OBVIOUS
<1> PICK r : r = p.row
  OBVIOUS
<1> PICK target : target = [r EXCEPT !.status = "unavailable", !.checked = p.at]
  OBVIOUS
<1> DEFINE done == [p EXCEPT !.gate = SetGate(p, TRUE, FALSE)]
<1>1. /\ Session(p) /\ t \in LiveTrades /\ p.at \in Nat
      /\ r = liveRows[t] /\ ~JustChecked(r, p.at)
      /\ RowFree(w, t) /\ RowOK(t) /\ Shaped(r) /\ ShapeOK
  BY Booking DEF FailFunding, AccountInv
<1>2. PICK added \in SUBSET NewRecords(t) : events' = [events EXCEPT ![t] = @ \cup added]
  BY DEF FailFunding
<1>3. /\ liveRows' = [liveRows EXCEPT ![t] = Flush(r, target, liveRows[t])]
      /\ Continue(w, Committed(Handled(done)))
      /\ moment' = moment /\ redone' = redone /\ settled' = settled
      /\ state' = state /\ told' = told
  BY DEF FailFunding
<1>4. /\ Shaped(target) /\ target.closed = r.closed /\ target.checked = p.at
      /\ target.status = "unavailable" /\ target.source = r.source /\ target.net = r.net
      /\ target.funding = r.funding /\ target.result = r.result
  BY <1>1 DEF Shaped
<1>5. Flush(r, target, liveRows[t]) = target
  BY <1>1, <1>4, FlushOwn
<1>6. /\ Session(Committed(Handled(done))) /\ Committed(Handled(done)).pc = "walk"
      /\ Committed(Handled(done)).holds = {}
  <2>1. Session(done)
    BY <1>1 DEF Session
  <2> HIDE DEF done
  <2>2. Session(Handled(done)) /\ Handled(done).pc = "walk"
    BY <2>1, HandledSession
  <2> QED
    BY <2>2, CommittedSession
<1>7. /\ liveRows' = [u \in LiveTrades |-> liveRows'[u]] /\ liveRows'[t] = target
      /\ \A u \in LiveTrades \ {t} : liveRows'[u] = liveRows[u]
  BY <1>1, <1>3, <1>5, ZenonT(30) DEF ShapeOK
<1>8. /\ events' = [u \in LiveTrades |-> events'[u]] /\ events'[t] = events[t] \cup added
      /\ \A u \in LiveTrades \ {t} : events'[u] = events[u]
  BY <1>1, <1>2 DEF ShapeOK
<1>9. \A u : Times(u)' = Times(u)
  BY <1>3 DEF Times
<1>10. /\ r.closed = Null <=> r.source = "none"
       /\ \A e, f \in settled[t] : e.id = f.id => e = f
       /\ SumsRight(t) /\ NetRight(t)
       /\ t \notin redone => HeardOf(t)
  BY <1>1 DEF RowOK
<1>11. SumsRight(t)'
  <2>1. \A e, f \in events[t] \cup added : e.id = f.id => e = f
    BY <1>2, <1>10 DEF SumsRight, NewRecords, Known
  <2> QED
    BY <1>4, <1>7, <1>8, <2>1 DEF SumsRight
<1>12. NetRight(t)'
  <2>1. /\ liveRows'[t] = target /\ r = liveRows[t] /\ NetRight(t)
    BY <1>1, <1>7, <1>10
  <2> QED
    BY ONLY <1>4, <2>1 DEF NetRight
<1>13. SinceFinal(r) => SinceFinal(target)
  <2>1. /\ SettleTime \in Nat /\ CheckEvery \in Nat /\ Null \notin Nat
    BY FundingAssumption
  <2>2. r.closed \in Nat \cup {Null} /\ r.checked \in Nat \cup {Null} /\ p.at \in Nat
    BY <1>1 DEF Shaped
  <2>3. r.closed = Null => r.source # "final"
    BY <1>10
  <2>4. r.checked # Null => p.at >= r.checked
    BY <1>1, <2>1, <2>2 DEF JustChecked
  <2> QED
    BY <1>4, <2>1, <2>2, <2>3, <2>4 DEF SinceFinal
<1>14. t \notin redone' => HeardOf(t)'
  <2>1. /\ liveRows'[t] = target /\ r = liveRows[t] /\ Times(t)' = Times(t)
        /\ redone' = redone
        /\ t \notin redone => HeardOf(t)
    BY <1>1, <1>3, <1>7, <1>9, <1>10
  <2> QED
    BY ONLY <1>4, <1>13, <2>1 DEF HeardOf
<1>15. settled'[t] = settled[t]
  BY <1>3
<1>16. RowOK(t)'
  <2>1. /\ liveRows'[t] = target /\ Shaped(target)
        /\ target.closed = Null <=> target.source = "none"
    BY <1>1, <1>4, <1>7, <1>10
  <2>2. \A e, f \in settled'[t] : e.id = f.id => e = f
    BY <1>10, <1>15
  <2> QED
    BY <1>11, <1>12, <1>14, <2>1, <2>2 DEF RowOK
<1>17. /\ Continue(w, Committed(Handled(done))) /\ RowFree(w, t)
       /\ moment' = moment /\ settled' = settled /\ redone \subseteq redone'
       /\ told' \in Seq(Entry) /\ Ladder(state')
  BY <1>1, <1>3 DEF ShapeOK
<1> HIDE DEF done
<1> QED
  BY <1>1, <1>6, <1>7, <1>8, <1>9, <1>16, <1>17, WriteInv

-----------------------------------------------------------------------------
\* The exchange, the operator and time write no row.
LEMMA AroundInv ==
    ASSUME AccountInv,
           \/ \E t \in LiveTrades : \E e \in Settlements[t] : Settlement(t, e)
           \/ LiftBlock \/ TickFunding \/ UNCHANGED fundingVars
    PROVE  AccountInv'
<1>1. /\ pass' = pass /\ liveRows' = liveRows /\ events' = events /\ told' = told
      /\ redone' = redone /\ state' = state
  BY DEF Settlement, LiftBlock, TickFunding, fundingVars, accountVars
<1>2. LocksOK' /\ \A w \in Workers : WorkerOK(w)'
  BY <1>1 DEF AccountInv, LocksOK, WorkerOK, JustChecked
<1>3. moment' \in Nat /\ moment' >= SettleTime
  BY FundingAssumption DEF AccountInv, ShapeOK, Settlement, LiftBlock, TickFunding,
                           fundingVars, accountVars
<1>4. /\ settled' = [t \in LiveTrades |-> settled'[t]]
      /\ \A t \in LiveTrades : \A e, f \in settled'[t] : e.id = f.id => e = f
  <2>1. /\ settled = [t \in LiveTrades |-> settled[t]]
        /\ \A t \in LiveTrades : \A e, f \in settled[t] : e.id = f.id => e = f
    BY DEF AccountInv, ShapeOK, RowOK
  <2>2. CASE settled' = settled
    BY <2>1, <2>2
  <2>3. ASSUME NEW t \in LiveTrades, NEW e \in Settlements[t], Settlement(t, e)
        PROVE  /\ settled' = [u \in LiveTrades |-> settled'[u]]
               /\ \A u \in LiveTrades : \A f, g \in settled'[u] : f.id = g.id => f = g
    <3>1. settled' = [settled EXCEPT ![t] = {f \in @ : f.id # e.id} \cup {e}]
      BY <2>3 DEF Settlement
    <3>2. /\ settled'[t] = {f \in settled[t] : f.id # e.id} \cup {e}
          /\ \A u \in LiveTrades \ {t} : settled'[u] = settled[u]
          /\ settled' = [u \in LiveTrades |-> settled'[u]]
      BY <2>1, <3>1
    <3>3. \A f, g \in settled'[t] : f.id = g.id => f = g
      BY <2>1, <3>2
    <3> QED
      BY <2>1, <3>2, <3>3
  <2> QED
    BY <2>2, <2>3 DEF LiftBlock, TickFunding, fundingVars
<1>5. ShapeOK'
  BY <1>1, <1>3, <1>4 DEF AccountInv, ShapeOK, Ladder
<1>6. ASSUME NEW t \in LiveTrades PROVE RowOK(t)'
  <2>1. /\ RowOK(t) /\ liveRows'[t] = liveRows[t] /\ events'[t] = events[t]
        /\ Times(t)' = Times(t) /\ redone' = redone
        /\ \A e, f \in settled'[t] : e.id = f.id => e = f
    BY <1>1, <1>4 DEF AccountInv, Times
  <2> QED
    BY ONLY <2>1 DEF RowOK, SumsRight, NetRight, HeardOf
<1> QED
  BY <1>2, <1>5, <1>6 DEF AccountInv

LEMMA StepInv == AccountInv /\ [FundingNext]_fundingVars => AccountInv'
<1> SUFFICES ASSUME AccountInv, [FundingNext]_fundingVars PROVE AccountInv'
  OBVIOUS
<1>1. ASSUME NEW w \in Workers, WorkerStep(w) PROVE AccountInv'
  BY <1>1, WalkInv, AuditInv, FinalizeInv, BookInv, FailInv DEF WorkerStep
<1> QED
  BY <1>1, AroundInv DEF FundingNext

-----------------------------------------------------------------------------
\* The rows the passes may begin with.
LEMMA Beginning ==
    ASSUME NEW t, NEW r \in Beginnings(t)
    PROVE  /\ Shaped(r) /\ r.funding = 0 /\ r.status \in {"none", "reconciled"}
           /\ r.closed = IF r.source = "none" THEN Null ELSE 0
           /\ r.source \in {"none", "fills", "earlier", "final"}
           /\ r.status = "reconciled" <=> r.source = "final"
           /\ r.source = "final" => r.net = Fills[t] /\ r.result = ResultOf(Fills[t])
           /\ r.source = "earlier" => r.result \in {"win", "loss"}
<1> USE FundingAssumption DEF OpenRow, Shaped
<1>1. CASE r = OpenRow
  BY <1>1
<1>2. CASE r = [OpenRow EXCEPT !.legacy = TRUE]
  BY <1>2
<1>3. CASE r = FinalRow(t, OpenRow, 0)
  BY <1>3 DEF FinalRow
<1>4. CASE r = LegacyClosed(t)
  BY <1>4 DEF FinalRow, LegacyClosed
<1>5. CASE r = DoneWith(t)
  BY <1>5 DEF FinalRow, DoneWith
<1> QED
  BY <1>1, <1>2, <1>3, <1>4, <1>5 DEF Beginnings

\* What the ladder had been told before: each result once.
LEMMA ToldBefore ==
    ASSUME FundingInit
    PROVE  /\ told \in Seq(Entry)
           /\ \A t \in LiveTrades :
                 Times(t) = IF liveRows[t].source \in {"earlier", "final"} THEN 1 ELSE 0
<1> DEFINE Old == {u \in LiveTrades : liveRows[u].source \in {"earlier", "final"}}
           E == [t \in Old |-> [trade |-> t, result |-> liveRows[t].result]]
           Entries == {[trade |-> t, result |-> liveRows[t].result] : t \in Old}
<1>1. told = SetToSeq(Entries)
  BY DEF FundingInit
<1>2. \A t \in LiveTrades : liveRows[t] \in Beginnings(t)
  BY DEF FundingInit
<1>3. Entries \subseteq Entry
  BY <1>2, Beginning, FundingAssumption DEF Entry, ResultOf
<1>4. IsFiniteSet(Entries)
  <2>1. IsFiniteSet(Old)
    BY FundingAssumption, FS_Subset
  <2>2. E \in Surjection(Old, Entries)
    BY DEF Surjection
  <2> QED
    BY <2>1, <2>2, FS_Surjection
<1>5. /\ told \in Seq(Entries) /\ DOMAIN told = 1..Len(told)
      /\ \A x \in Entries : \E i \in DOMAIN told : told[i] = x
      /\ \A i, j \in DOMAIN told : told[i] = told[j] => i = j
  BY <1>1, <1>4, SetToSeqLists
<1>6. \A i \in DOMAIN told : told[i] \in Entries
  BY <1>5
<1>7. ASSUME NEW t \in Old PROVE Times(t) = 1
  <2>1. PICK i \in DOMAIN told : told[i] = [trade |-> t, result |-> liveRows[t].result]
    BY <1>5
  <2>2. \A j \in DOMAIN told : told[j].trade = t => told[j] = told[i]
    BY <1>6, <2>1
  <2>3. {j \in DOMAIN told : told[j].trade = t} = {i}
    BY <1>5, <2>1, <2>2
  <2> QED
    BY <2>3, FS_Singleton DEF Times
<1>8. ASSUME NEW t \in LiveTrades \ Old PROVE Times(t) = 0
  <2>1. {j \in DOMAIN told : told[j].trade = t} = {}
    BY <1>6
  <2> QED
    BY <2>1, FS_EmptySet DEF Times
<1>9. told \in Seq(Entry)
  BY <1>3, <1>5
<1> QED
  BY <1>7, <1>8, <1>9

LEMMA InitInv == FundingInit => AccountInv
<1> SUFFICES ASSUME FundingInit PROVE AccountInv
  OBVIOUS
<1>1. /\ liveRows = [t \in LiveTrades |-> liveRows[t]]
      /\ \A t \in LiveTrades : liveRows[t] \in Beginnings(t)
  BY DEF FundingInit
<1>2. /\ events = [t \in LiveTrades |-> {}] /\ settled = [t \in LiveTrades |-> {}]
      /\ pass = [w \in Workers |-> NoSession] /\ moment = SettleTime
  BY DEF FundingInit
<1>3. Ladder(state)
  <2>1. PICK run \in [0..Len(told) -> LadderRows] : state = run[Len(told)]
    BY DEF FundingInit
  <2>2. Len(told) \in 0..Len(told)
    BY ToldBefore
  <2>3. state \in LadderRows
    BY <2>1, <2>2
  <2> QED
    BY <2>3 DEF LadderRows, Ladder
<1>4. ShapeOK
  BY <1>1, <1>2, <1>3, ToldBefore, FundingAssumption DEF ShapeOK
<1>5. LocksOK /\ \A w \in Workers : WorkerOK(w)
  BY <1>2 DEF LocksOK, WorkerOK, NoSession
<1>6. ASSUME NEW t \in LiveTrades PROVE RowOK(t)
  <2>1. /\ Shaped(liveRows[t]) /\ liveRows[t].funding = 0
        /\ liveRows[t].status \in {"none", "reconciled"}
        /\ liveRows[t].closed = IF liveRows[t].source = "none" THEN Null ELSE 0
        /\ liveRows[t].source \in {"none", "fills", "earlier", "final"}
        /\ liveRows[t].status = "reconciled" <=> liveRows[t].source = "final"
        /\ liveRows[t].source = "final" =>
              liveRows[t].net = Fills[t] /\ liveRows[t].result = ResultOf(Fills[t])
    BY <1>1, Beginning
  <2>2. Null # 0 /\ Fills[t] \in Int
    BY FundingAssumption
  <2>3. SumsRight(t)
    BY <1>2, <2>1, SumOfNone DEF SumsRight
  <2>4. NetRight(t)
    BY <2>1, <2>2 DEF NetRight
  <2>5. HeardOf(t)
    BY <2>1, ToldBefore DEF HeardOf, SinceFinal
  <2> QED
    BY <1>2, <2>1, <2>2, <2>3, <2>4, <2>5 DEF RowOK
<1> QED
  BY <1>4, <1>5, <1>6 DEF AccountInv

-----------------------------------------------------------------------------
\* What the ladder makes of a result.
\* The ladder is told the result its row says is final, and moves from the row it has,
\* unless another pass wrote that row since this one loaded it.
Tells(e) ==
    /\ told' = Append(told, e)
    /\ liveRows'[e.trade].source = "final" /\ e.result = liveRows'[e.trade].result
    /\ overlapped' \/ (~overlapped /\ state' = Reported(state, e.result))

LEMMA BookTells ==
    ASSUME AccountInv, NEW w \in Workers, BookFunding(w)
    PROVE  UNCHANGED <<told, state, overlapped>> \/ \E e \in Entry : Tells(e)
<1> PICK p : p = pass[w]
  OBVIOUS
<1> PICK t : t = p.trade
  OBVIOUS
<1> PICK r : r = p.row
  OBVIOUS
<1> PICK records : records = events[t] \cup NewRecords(t)
  OBVIOUS
<1> PICK target : target = Accounted(t, r, records, p.at)
  OBVIOUS
<1> PICK entry : entry = [trade |-> t, result |-> target.result]
  OBVIOUS
<1>1. CASE ~OutcomeDue(r, p.at)
  BY <1>1 DEF BookFunding
<1>2. CASE OutcomeDue(r, p.at)
  <2>1. /\ t \in LiveTrades /\ p.at \in Nat /\ r = liveRows[t] /\ Shaped(r)
        /\ liveRows = [u \in LiveTrades |-> liveRows[u]] /\ Ladder(state)
    BY Booking DEF BookFunding, AccountInv, ShapeOK
  <2>2. /\ liveRows' = [liveRows EXCEPT ![t] = Flush(r, target, liveRows[t])]
        /\ state' = Flush(p.state, Reported(p.state, target.result), state)
        /\ told' = Append(told, entry) /\ overlapped' = (overlapped \/ p.state # state)
    BY <1>2 DEF BookFunding
  <2>3. /\ Shaped(target) /\ target.source = "final" /\ target.result = ResultOf(target.net)
    <3>1. Shaped(r) /\ p.at \in Nat
      BY <2>1
    <3>2. r.closed # Null /\ SettledBy(r, p.at)
      BY <1>2 DEF OutcomeDue, SettledBy
    <3>3. /\ Shaped(target)
          /\ r.closed # Null =>
                /\ target.result = ResultOf(target.net)
                /\ target.source = IF SettledBy(r, p.at) THEN "final" ELSE "provisional"
      BY ONLY <3>1, target = Accounted(t, r, records, p.at), AccountedRow
    <3> QED
      BY ONLY <3>2, <3>3
  <2>4. liveRows'[t] = target
    <3>1. Flush(r, target, liveRows[t]) = target
      <4>1. r = liveRows[t] /\ Shaped(r) /\ Shaped(target)
        BY <2>1, <2>3
      <4>2. Flush(r, target, r) = target
        BY ONLY <4>1, FlushOwn
      <4> QED
        BY ONLY <4>1, <4>2
    <3>2. liveRows' = [liveRows EXCEPT ![t] = target]
      BY <2>2, <3>1
    <3> QED
      BY <2>1, <3>2
  <2>5. entry \in Entry /\ entry.trade = t /\ entry.result = target.result
    BY <2>1, <2>3 DEF Entry, ResultOf
  <2>6. p.state = state => state' = Reported(state, entry.result)
    <3>1. Ladder(Reported(state, target.result))
      BY <2>1, ReportedShape
    <3>2. Flush(state, Reported(state, target.result), state) = Reported(state, target.result)
      BY <2>1, <3>1 DEF Flush, Ladder
    <3> QED
      BY <2>2, <2>5, <3>2
  <2>7. Tells(entry)
    BY <2>2, <2>3, <2>4, <2>5, <2>6 DEF Tells
  <2> QED
    BY <2>5, <2>7
<1> QED
  BY <1>1, <1>2

LEMMA NextTells ==
    ASSUME AccountInv, [FundingNext]_fundingVars
    PROVE  UNCHANGED <<told, state, overlapped>> \/ \E e \in Entry : Tells(e)
<1>1. ASSUME NEW w \in Workers, WorkerStep(w), ~BookFunding(w)
      PROVE  UNCHANGED <<told, state, overlapped>>
  BY <1>1 DEF WorkerStep, StartPass, ListClosed, EndPass, Audit, Finalize, StillHeld, Revisit,
              GiveUpTurn, FundingLock, ReadLadder, FailFunding, accountVars
<1>2. ASSUME \/ \E t \in LiveTrades : \E e \in Settlements[t] : Settlement(t, e)
             \/ LiftBlock \/ TickFunding \/ UNCHANGED fundingVars
      PROVE  UNCHANGED <<told, state, overlapped>>
  BY <1>2 DEF Settlement, LiftBlock, TickFunding, fundingVars, accountVars
<1> QED
  BY <1>1, <1>2, BookTells DEF FundingNext

LEMMA StreakOf ==
    ASSUME NEW s, Ladder(s), NEW result
    PROVE  Reported(s, result).losses = StreakAfter(s.losses, result)
BY DEF Ladder, StreakAfter, Reported, Pauses, NoLoss

LEMMA StreakRange ==
    ASSUME NEW n \in 0..(LossLimit - 1), NEW result
    PROVE  StreakAfter(n, result) \in 0..(LossLimit - 1)
BY FundingAssumption DEF StreakAfter, Reported, Pauses, NoLoss

LEMMA InitStreak == FundingInit => StreakRight
<1> SUFFICES ASSUME FundingInit PROVE StreakRight
  OBVIOUS
<1> PICK m \in Nat : m = Len(told)
  BY ToldBefore
<1> PICK run \in [0..Len(told) -> LadderRows] :
        /\ run[0] = NoLoss
        /\ \A i \in 1..Len(told) : run[i] = Reported(run[i - 1], told[i].result)
        /\ state = run[Len(told)]
  BY DEF FundingInit
<1>1. /\ run \in [0..m -> LadderRows] /\ run[0] = NoLoss /\ state = run[m]
      /\ \A i \in 1..m : run[i] = Reported(run[i - 1], told[i].result)
  OBVIOUS
<1> DEFINE n == [i \in 0..m |-> run[i].losses]
<1>2. n \in [0..m -> 0..(LossLimit - 1)] /\ n[0] = 0
  BY <1>1 DEF LadderRows, NoLoss
<1>3. ASSUME NEW i \in 1..m PROVE n[i] = StreakAfter(n[i - 1], told[i].result)
  <2>1. i \in 0..m /\ i - 1 \in 0..m
    OBVIOUS
  <2>2. Ladder(run[i - 1])
    BY <1>1, <2>1 DEF LadderRows, Ladder
  <2>3. run[i].losses = StreakAfter(run[i - 1].losses, told[i].result)
    BY <1>1, <2>2, StreakOf
  <2> QED
    BY <2>1, <2>3
<1>4. state.losses = n[m]
  BY <1>1
<1> HIDE DEF n
<1> QED
  BY <1>2, <1>3, <1>4 DEF StreakRight, Streaks

LEMMA StepStreak ==
    ASSUME AccountInv, StreakRight, [FundingNext]_fundingVars
    PROVE  StreakRight'
<1>1. CASE UNCHANGED <<told, state, overlapped>>
  BY <1>1 DEF StreakRight, Streaks
<1>2. ASSUME NEW e \in Entry, Tells(e), ~overlapped' PROVE StreakRight'
  <2>1. told' = Append(told, e) /\ ~overlapped /\ state' = Reported(state, e.result)
    BY <1>2 DEF Tells
  <2>2. Ladder(state) /\ told \in Seq(Entry)
    BY DEF AccountInv, ShapeOK
  <2>3. PICK m \in Nat : m = Len(told)
    BY <2>2
  <2>4. PICK n \in [0..m -> 0..(LossLimit - 1)] :
           /\ n[0] = 0 /\ state.losses = n[m]
           /\ \A i \in 1..m : n[i] = StreakAfter(n[i - 1], told[i].result)
    BY <2>1, <2>3 DEF StreakRight, Streaks
  <2>5. PICK last : last = StreakAfter(n[m], e.result)
    OBVIOUS
  <2>6. last \in 0..(LossLimit - 1) /\ state'.losses = last
    BY <2>1, <2>2, <2>4, <2>5, StreakRange, StreakOf
  <2>7. PICK k : k = [i \in 0..(m + 1) |-> IF i = m + 1 THEN last ELSE n[i]]
    OBVIOUS
  <2>8. /\ k \in [0..(m + 1) -> 0..(LossLimit - 1)] /\ k[0] = 0 /\ k[m + 1] = last
        /\ \A i \in 0..m : k[i] = n[i]
    BY <2>4, <2>6, <2>7
  <2>9. /\ Len(told') = m + 1 /\ told'[m + 1] = e
        /\ \A i \in 1..m : told'[i] = told[i]
    BY <2>1, <2>2, <2>3
  <2>10. ASSUME NEW i \in 1..(m + 1) PROVE k[i] = StreakAfter(k[i - 1], told'[i].result)
    <3>1. CASE i = m + 1
      BY <2>5, <2>8, <2>9, <3>1
    <3>2. CASE i \in 1..m
      <4>1. i - 1 \in 0..m /\ i \in 0..m
        BY <3>2
      <4> QED
        BY <2>4, <2>8, <2>9, <3>2, <4>1
    <3> QED
      BY <3>1, <3>2
  <2> QED
    BY <2>6, <2>8, <2>9, <2>10 DEF StreakRight, Streaks
<1>3. CASE overlapped'
  BY <1>3 DEF StreakRight
<1> QED
  BY <1>1, <1>2, <1>3, NextTells

-----------------------------------------------------------------------------
\* What holds of the specification.

LEMMA Invariant == FundingSpec => [](AccountInv /\ StreakRight)
<1>1. FundingInit => AccountInv /\ StreakRight
  BY InitInv, InitStreak
<1>2. (AccountInv /\ StreakRight) /\ [FundingNext]_fundingVars => (AccountInv /\ StreakRight)'
  BY StepInv, StepStreak
<1> QED
  BY <1>1, <1>2, PTL DEF FundingSpec

\* Whatever workers, late and revised records, failed answers and crashes do, funding()
\* sums each settlement once, and a net result says whether it includes it.  The recovery
\* ladder is given the result of a trade that one thread finalized once, when it is final,
\* and its streak is that of what it was given while no two passes overlapped.  For any
\* number of workers, trades and records.
THEOREM AccountsRight == FundingSpec => []LedgerTrue
<1>1. AccountInv /\ StreakRight => LedgerTrue
  <2> SUFFICES ASSUME AccountInv, StreakRight, NEW t \in LiveTrades
               PROVE  SumsRight(t) /\ NetRight(t) /\ ToldOnce(t)
    BY DEF LedgerTrue
  <2>1. RowOK(t) /\ told \in Seq(Entry)
    BY DEF AccountInv, ShapeOK
  <2>2. ToldOnce(t)
    <3>1. Times(t) \in Nat /\ liveRows[t].source \in {"none", "fills", "earlier", "provisional", "final"}
      BY <2>1, TimesType DEF RowOK, Shaped
    <3> QED
      BY <2>1, <3>1 DEF RowOK, HeardOf, ToldOnce
  <2> QED
    BY <2>1, <2>2 DEF RowOK
<1> QED
  BY <1>1, Invariant, PTL

\* The recovery ladder moves only when funding() gives it a result: the one its trade's row
\* says is final, added to the streak the ladder has, unless two passes overlapped.
THEOREM LadderFollows ==
    FundingSpec => [][UNCHANGED <<told, state>> \/ \E e \in Entry : Tells(e)]_fundingVars
<1>1. AccountInv /\ [FundingNext]_fundingVars =>
         [UNCHANGED <<told, state>> \/ \E e \in Entry : Tells(e)]_fundingVars
  BY NextTells
<1> QED
  BY <1>1, Invariant, PTL DEF FundingSpec

-----------------------------------------------------------------------------
(* A single worker. *)

OneWorker == \A v, w \in Workers : v = w

\* A session's image of the ladder is the ladder, and the trades it takes for unclosed
\* are, but for the one it has just finalized.
Current(p, ladder, rows) ==
    p.pc # "idle" =>
       /\ p.state \in {Null, ladder}
       /\ p.loop = "unclosed" =>
             \A t \in p.todo : rows[t].closed = Null \/ (p.pc # "walk" /\ t = p.trade)
AloneInv ==
    redone = {} /\ ~overlapped /\ \A w \in Workers : Current(pass[w], state, liveRows)

LEMMA AloneMoves ==
    ASSUME AccountInv, OneWorker, NEW w \in Workers, NEW p, Continue(w, p),
           Current(p, state', liveRows'), redone' = {}, ~overlapped'
    PROVE  AloneInv'
<1>1. pass = [v \in Workers |-> pass[v]] /\ pass' = [pass EXCEPT ![w] = p]
  BY DEF AccountInv, ShapeOK, Continue
<1>2. \A v \in Workers : pass'[v] = p
  BY <1>1 DEF OneWorker
<1> QED
  BY <1>2 DEF AloneInv

\* What a session's own steps leave of it.
LEMMA SessionFields ==
    ASSUME NEW p, Session(p)
    PROVE  /\ Committed(p).pc = p.pc /\ Committed(p).loop = p.loop /\ Committed(p).todo = p.todo
           /\ Committed(p).state = p.state /\ Committed(p).trade = p.trade
           /\ Handled(p).pc = "walk" /\ Handled(p).loop = p.loop
           /\ Handled(p).todo = p.todo \ {p.trade} /\ Handled(p).state = p.state
           /\ Loaded(p).pc = p.pc /\ Loaded(p).loop = p.loop /\ Loaded(p).todo = p.todo
           /\ Loaded(p).state = IF p.loop = "unclosed" THEN Image(p.state, state) ELSE p.state
           /\ Loaded(p).trade = p.trade
BY DEF Session, Committed, Handled, Loaded

LEMMA AskCurrent ==
    ASSUME NEW w \in Workers, NEW t \in LiveTrades, Session(pass[w]), pass[w].pc = "walk",
           Current(pass[w], state, liveRows)
    PROVE  Current(Ask(w, t), state, liveRows)
<1> DEFINE p == Loaded(pass[w])
<1>1. Session(p)
  BY LoadedSession
<1>2. /\ Ask(w, t).pc = "lock" /\ Ask(w, t).loop = pass[w].loop /\ Ask(w, t).todo = pass[w].todo
      /\ Ask(w, t).state = p.state /\ Ask(w, t).trade = t
  BY <1>1, SessionFields DEF Ask, Session
<1>3. p.state \in {Null, state}
  BY SessionFields DEF Current, Image
<1> QED
  BY <1>2, <1>3 DEF Current

LEMMA AloneWalk ==
    ASSUME AccountInv, AloneInv, OneWorker, NEW w \in Workers,
           \/ StartPass(w) \/ ListClosed(w) \/ EndPass(w)
           \/ FundingLock(w) \/ ReadLadder(w)
           \/ \E t \in LiveTrades : StillHeld(w, t) \/ Revisit(w, t) \/ GiveUpTurn(w, t)
    PROVE  AloneInv'
<1>1. /\ redone' = {} /\ ~overlapped' /\ state' = state /\ liveRows' = liveRows
      /\ Current(pass[w], state, liveRows)
  <2>1. UNCHANGED accountVars
    BY DEF StartPass, ListClosed, EndPass, FundingLock, ReadLadder, StillHeld, Revisit, GiveUpTurn
  <2> QED
    BY <2>1 DEF AloneInv, accountVars
<1>2. CASE StartPass(w)
  <2> DEFINE p == [pc |-> "walk", loop |-> "unclosed", trade |-> Null, at |-> Null,
                   todo |-> {t \in LiveTrades : liveRows[t].closed = Null},
                   legacy |-> {t \in LiveTrades : liveRows[t].closed = Null /\ liveRows[t].legacy},
                   state |-> Null, gate |-> Null, row |-> Null, holds |-> {}]
  <2>1. Current(p, state, liveRows)
    BY DEF Current
  <2>2. Continue(w, p)
    BY <1>2 DEF StartPass
  <2> QED
    BY <1>1, <2>1, <2>2, AloneMoves
<1>3. CASE ListClosed(w)
  <2> DEFINE todo == {t \in LiveTrades : liveRows[t].closed # Null /\ liveRows[t].status # "reconciled"}
             p == [pass[w] EXCEPT !.loop = "closed", !.todo = todo,
                                  !.legacy = @ \cup {t \in todo : liveRows[t].legacy}]
  <2>1. Session(pass[w]) /\ pass[w].pc = "walk" /\ Continue(w, p)
    BY <1>3, Working DEF ListClosed
  <2>2. p.loop = "closed" /\ p.state = pass[w].state
    BY <2>1 DEF Session
  <2>3. Current(p, state, liveRows)
    BY <1>1, <2>1, <2>2 DEF Current
  <2> QED
    BY <1>1, <2>1, <2>3, AloneMoves
<1>4. CASE EndPass(w)
  BY <1>1, <1>4, AloneMoves DEF EndPass, NoSession, Current
<1>5. CASE FundingLock(w)
  <2> DEFINE t == pass[w].trade
             p == [pass[w] EXCEPT !.holds = @ \cup {t}]
             q == [p EXCEPT !.pc = "book", !.row = liveRows[t]]
  <2>1. Session(pass[w]) /\ pass[w].pc = "lock" /\ t \in LiveTrades
    BY <1>5, Working DEF FundingLock, WorkerOK
  <2>2. /\ Session(p) /\ p.pc = "lock" /\ p.loop = pass[w].loop /\ p.todo = pass[w].todo
        /\ p.state = pass[w].state /\ p.trade = t
    BY <2>1 DEF Session
  <2>3. /\ q.pc = "book" /\ q.loop = p.loop /\ q.todo = p.todo /\ q.state = p.state /\ q.trade = t
    BY <2>2 DEF Session
  <2>4. Current(q, state, liveRows)
    BY <1>1, <2>1, <2>2, <2>3 DEF Current
  <2>5. Current(Handled(p), state, liveRows)
    <3> HIDE DEF p
    <3>1. /\ Handled(p).pc = "walk" /\ Handled(p).loop = pass[w].loop
          /\ Handled(p).todo = pass[w].todo \ {t} /\ Handled(p).state = pass[w].state
      BY ONLY <2>2, SessionFields
    <3> QED
      BY ONLY <1>1, <2>1, <3>1 DEF Current
  <2>6. Continue(w, Handled(p)) \/ Continue(w, q)
    BY <1>5 DEF FundingLock
  <2> QED
    BY <1>1, <2>4, <2>5, <2>6, AloneMoves
<1>6. CASE ReadLadder(w)
  <2> DEFINE p == [pass[w] EXCEPT !.state = state]
  <2>1. Session(pass[w]) /\ pass[w].pc = "book" /\ Continue(w, p)
    BY <1>6, Working DEF ReadLadder
  <2>2. /\ p.pc = "book" /\ p.loop = pass[w].loop /\ p.todo = pass[w].todo
        /\ p.state = state /\ p.trade = pass[w].trade
    BY <2>1 DEF Session
  <2>3. Current(p, state, liveRows)
    BY <1>1, <2>1, <2>2 DEF Current
  <2> QED
    BY <1>1, <2>1, <2>3, AloneMoves
<1>7. ASSUME NEW t \in LiveTrades, StillHeld(w, t) \/ Revisit(w, t) PROVE AloneInv'
  <2>1. Session(pass[w]) /\ pass[w].pc = "walk" /\ Continue(w, Ask(w, t))
    BY <1>7, Working DEF StillHeld, Revisit
  <2>2. Current(Ask(w, t), state, liveRows)
    BY <1>1, <2>1, AskCurrent
  <2> QED
    BY <1>1, <2>1, <2>2, AloneMoves
<1>8. ASSUME NEW t \in LiveTrades, GiveUpTurn(w, t) PROVE AloneInv'
  <2> DEFINE p == [Loaded(pass[w]) EXCEPT !.trade = t]
  <2>1. Session(pass[w]) /\ pass[w].pc = "walk" /\ Continue(w, Committed(Handled(p)))
    BY <1>8, Working DEF GiveUpTurn
  <2>2. Session(Loaded(pass[w]))
    BY <2>1, LoadedSession
  <2>3. /\ Session(p) /\ p.loop = pass[w].loop /\ p.todo = pass[w].todo
        /\ p.state = Loaded(pass[w]).state
    BY <2>1, <2>2, SessionFields DEF Session
  <2>4. Current(Committed(Handled(p)), state, liveRows)
    <3>1. Session(Handled(p)) /\ Handled(p).loop = p.loop /\ Handled(p).state = p.state
          /\ Handled(p).todo \subseteq p.todo /\ Handled(p).pc = "walk"
      BY <2>3, SessionFields, HandledSession
    <3>2. /\ Committed(Handled(p)).pc = "walk" /\ Committed(Handled(p)).loop = p.loop
          /\ Committed(Handled(p)).todo \subseteq p.todo /\ Committed(Handled(p)).state = p.state
      BY <3>1, SessionFields
    <3>3. p.state \in {Null, state}
      BY <1>1, <2>1, <2>3, SessionFields DEF Current, Image
    <3> QED
      BY <1>1, <2>1, <2>3, <3>2, <3>3 DEF Current
  <2> QED
    BY <1>1, <2>1, <2>4, AloneMoves
<1> QED
  BY <1>2, <1>3, <1>4, <1>5, <1>6, <1>7, <1>8


LEMMA AloneAudit ==
    ASSUME AccountInv, AloneInv, OneWorker, NEW w \in Workers, NEW t \in LiveTrades, Audit(w, t)
    PROVE  AloneInv'
<1> DEFINE p == [Loaded(pass[w]) EXCEPT !.trade = t, !.gate = SetGate(pass[w], TRUE, FALSE)]
           q == [p EXCEPT !.legacy = @ \ {t}, !.trade = Null]
<1>1. /\ Session(pass[w]) /\ pass[w].pc = "walk" /\ redone' = {} /\ ~overlapped' /\ state' = state
      /\ Current(pass[w], state, liveRows)
  BY Working DEF Audit, AloneInv
<1>2. \A u \in LiveTrades : liveRows'[u].closed = liveRows[u].closed
  <2>1. CASE liveRows' = liveRows
    BY <2>1
  <2>2. CASE liveRows' = [liveRows EXCEPT ![t].legacy = FALSE]
    <3>1. \A u \in LiveTrades : Shaped(liveRows[u])
      BY DEF AccountInv, RowOK
    <3> QED
      BY <2>2, <3>1 DEF Shaped, AccountInv, ShapeOK
  <2> QED
    BY <2>1, <2>2 DEF Audit
<1>3. Session(Loaded(pass[w])) /\ Loaded(pass[w]).pc = "walk"
  BY <1>1, LoadedSession
<1>4. /\ Session(p) /\ p.pc = "walk" /\ p.loop = pass[w].loop /\ p.todo = pass[w].todo
      /\ p.state = Loaded(pass[w]).state
  BY <1>1, <1>3, SessionFields DEF Session
<1>5. /\ Session(q) /\ q.pc = "walk" /\ q.loop = p.loop /\ q.todo = p.todo /\ q.state = p.state
  BY <1>4 DEF Session
<1>6. p.state \in {Null, state}
  BY <1>1, <1>4, SessionFields DEF Current, Image
<1>7. pass[w].todo \subseteq LiveTrades
  BY <1>1 DEF Session
<1>8. ASSUME NEW c, Session(c), c.pc = "walk", c.loop = p.loop, c.todo \subseteq p.todo,
             c.state = p.state
      PROVE  Current(Committed(c), state', liveRows')
  <2>1. /\ Committed(c).pc = "walk" /\ Committed(c).loop = pass[w].loop
        /\ Committed(c).todo \subseteq pass[w].todo /\ Committed(c).state = p.state
    BY <1>4, <1>8, SessionFields
  <2> QED
    BY <1>1, <1>2, <1>6, <1>7, <2>1 DEF Current
<1>9. /\ Session(Handled(p)) /\ Handled(p).pc = "walk" /\ Handled(p).loop = p.loop
      /\ Handled(p).todo \subseteq p.todo /\ Handled(p).state = p.state
  BY <1>4, HandledSession, SessionFields
<1>10. Continue(w, Committed(Handled(p))) \/ Continue(w, Committed(q))
  BY DEF Audit
<1> QED
  BY <1>1, <1>5, <1>8, <1>9, <1>10, AloneMoves

LEMMA AloneFinalize ==
    ASSUME AccountInv, AloneInv, OneWorker, NEW w \in Workers, NEW t \in LiveTrades,
           Finalize(w, t)
    PROVE  AloneInv'
<1>1. /\ Session(pass[w]) /\ pass[w].pc = "walk" /\ pass[w].loop = "unclosed" /\ t \in pass[w].todo
      /\ ~overlapped' /\ state' = state /\ Current(pass[w], state, liveRows)
  BY Working DEF Finalize, AloneInv
<1>2. liveRows[t].closed = Null /\ redone' = {}
  BY <1>1 DEF Current, Finalize, AloneInv
<1>3. \A u \in LiveTrades \ {t} : liveRows'[u] = liveRows[u]
  BY DEF Finalize, AccountInv, ShapeOK
<1>4. /\ Session(Ask(w, t)) /\ Ask(w, t).pc = "lock" /\ Ask(w, t).trade = t
      /\ Current(Ask(w, t), state, liveRows)
  BY <1>1, AskSession, AskCurrent DEF AccountInv
<1>5. Current(Committed(Ask(w, t)), state', liveRows')
  <2>1. /\ Committed(Ask(w, t)).pc = "lock" /\ Committed(Ask(w, t)).trade = t
        /\ Committed(Ask(w, t)).loop = Ask(w, t).loop /\ Committed(Ask(w, t)).todo = Ask(w, t).todo
        /\ Committed(Ask(w, t)).state = Ask(w, t).state
    BY <1>4, SessionFields
  <2>2. Ask(w, t).todo \subseteq LiveTrades
    BY <1>4 DEF Session
  <2> QED
    BY <1>1, <1>3, <1>4, <2>1, <2>2 DEF Current
<1>6. Continue(w, Committed(Ask(w, t)))
  BY DEF Finalize
<1> QED
  BY <1>1, <1>2, <1>5, <1>6, AloneMoves

\* A write that leaves closed_at as it was in the image leaves it as it is in the row.
LEMMA ClosedStays ==
    ASSUME NEW row, Shaped(row), NEW image, NEW target, target.closed = image.closed
    PROVE  Flush(image, target, row).closed = row.closed
BY DEF Flush, Shaped

\* funding() ends with the session as it was, but for the trade of this turn.
LEMMA AloneTurn ==
    ASSUME AccountInv, AloneInv, OneWorker, NEW w \in Workers, pass[w].pc = "book",
           NEW gateNow, NEW ladderNow, ladderNow \in {Null, state'},
           Continue(w, Committed(Handled([pass[w] EXCEPT !.gate = gateNow, !.state = ladderNow]))),
           \A u \in LiveTrades : liveRows'[u].closed = liveRows[u].closed,
           redone' = {}, ~overlapped'
    PROVE  AloneInv'
<1> DEFINE p == [pass[w] EXCEPT !.gate = gateNow, !.state = ladderNow]
<1>1. Session(pass[w]) /\ Current(pass[w], state, liveRows)
  BY Working DEF AloneInv
<1>2. /\ Session(p) /\ p.loop = pass[w].loop /\ p.todo = pass[w].todo /\ p.trade = pass[w].trade
      /\ p.state = ladderNow
  BY <1>1 DEF Session
<1>3. /\ Session(Handled(p)) /\ Handled(p).pc = "walk" /\ Handled(p).loop = p.loop
      /\ Handled(p).todo = p.todo \ {p.trade} /\ Handled(p).state = p.state
  BY <1>2, HandledSession, SessionFields
<1>4. /\ Committed(Handled(p)).pc = "walk" /\ Committed(Handled(p)).loop = pass[w].loop
      /\ Committed(Handled(p)).todo = pass[w].todo \ {pass[w].trade}
      /\ Committed(Handled(p)).state = ladderNow
  BY <1>2, <1>3, SessionFields
<1>5. pass[w].todo \subseteq LiveTrades
  BY <1>1 DEF Session
<1>6. Current(Committed(Handled(p)), state', liveRows')
  BY <1>1, <1>4, <1>5 DEF Current
<1> QED
  BY <1>6, AloneMoves

LEMMA AloneBook ==
    ASSUME AccountInv, AloneInv, OneWorker, NEW w \in Workers, BookFunding(w)
    PROVE  AloneInv'
<1> PICK p : p = pass[w]
  OBVIOUS
<1> PICK t : t = p.trade
  OBVIOUS
<1> PICK target : target = Accounted(t, p.row, events[t] \cup NewRecords(t), p.at)
  OBVIOUS
<1> PICK reported : reported = Reported(p.state, target.result)
  OBVIOUS
<1> PICK wanted : wanted = SetGate(p, target.closed # Null /\ target.status # "reconciled",
                                   OutcomeDue(p.row, p.at) /\ Pauses(p.state, target.result))
  OBVIOUS
<1>1. /\ Session(p) /\ p.pc = "book" /\ t \in LiveTrades /\ p.row = liveRows[t] /\ Shaped(p.row)
      /\ liveRows = [u \in LiveTrades |-> liveRows[u]] /\ Ladder(state)
      /\ Current(p, state, liveRows)
  BY Booking DEF BookFunding, AccountInv, ShapeOK, AloneInv
<1>2. /\ liveRows' = [liveRows EXCEPT ![t] = Flush(p.row, target, liveRows[t])]
      /\ redone' = {}
      /\ OutcomeDue(p.row, p.at) => p.state # Null
      /\ IF OutcomeDue(p.row, p.at)
         THEN state' = Flush(p.state, reported, state) /\ overlapped' = (overlapped \/ p.state # state)
         ELSE state' = state /\ overlapped' = overlapped
      /\ Continue(w, Committed(Handled([p EXCEPT !.gate = wanted,
                        !.state = IF OutcomeDue(p.row, p.at) THEN reported ELSE p.state])))
  <2>1. p.state = [p EXCEPT !.gate = wanted].state
    BY <1>1 DEF Session
  <2> QED
    BY <2>1 DEF BookFunding, AloneInv
<1>3. \A u \in LiveTrades : liveRows'[u].closed = liveRows[u].closed
  <2>1. target.closed = p.row.closed
    BY <1>1 DEF Accounted, Shaped
  <2>2. Shaped(liveRows[t])
    BY <1>1
  <2>3. Flush(p.row, target, liveRows[t]).closed = liveRows[t].closed
    BY ONLY <2>1, <2>2, ClosedStays
  <2> QED
    BY <1>1, <1>2, <2>3
<1>4. p.state \in {Null, state}
  BY <1>1 DEF Current
<1>5. OutcomeDue(p.row, p.at) => p.state = state /\ state' = reported
  <2>1. Ladder(Reported(state, target.result))
    BY <1>1, ReportedShape
  <2>2. Flush(state, Reported(state, target.result), state) = Reported(state, target.result)
    BY <1>1, <2>1 DEF Flush, Ladder
  <2> QED
    BY <1>2, <1>4, <2>2
<1>6. ~overlapped'
  BY <1>2, <1>5 DEF AloneInv
<1> PICK ladderNow : ladderNow = IF OutcomeDue(p.row, p.at) THEN reported ELSE p.state
  OBVIOUS
<1>7. ladderNow \in {Null, state'}
  BY <1>2, <1>4, <1>5
<1>8. /\ pass[w].pc = "book"
      /\ Continue(w, Committed(Handled([pass[w] EXCEPT !.gate = wanted, !.state = ladderNow])))
  BY <1>1, <1>2
<1> QED
  BY ONLY AccountInv, AloneInv, OneWorker, w \in Workers, <1>2, <1>3, <1>6, <1>7, <1>8, AloneTurn

LEMMA AloneFail ==
    ASSUME AccountInv, AloneInv, OneWorker, NEW w \in Workers, FailFunding(w)
    PROVE  AloneInv'
<1> PICK p : p = pass[w]
  OBVIOUS
<1> PICK t : t = p.trade
  OBVIOUS
<1> PICK target : target = [p.row EXCEPT !.status = "unavailable", !.checked = p.at]
  OBVIOUS
<1> PICK wanted : wanted = SetGate(p, TRUE, FALSE)
  OBVIOUS
<1>1. /\ Session(p) /\ p.pc = "book" /\ t \in LiveTrades /\ p.row = liveRows[t] /\ Shaped(p.row)
      /\ liveRows = [u \in LiveTrades |-> liveRows[u]] /\ Current(p, state, liveRows)
  BY Booking DEF FailFunding, AccountInv, ShapeOK, AloneInv
<1>2. /\ liveRows' = [liveRows EXCEPT ![t] = Flush(p.row, target, liveRows[t])]
      /\ redone' = {} /\ state' = state /\ ~overlapped'
      /\ Continue(w, Committed(Handled([p EXCEPT !.gate = wanted])))
  BY DEF FailFunding, AloneInv
<1>3. \A u \in LiveTrades : liveRows'[u].closed = liveRows[u].closed
  <2>1. target.closed = p.row.closed
    BY <1>1 DEF Shaped
  <2>2. Shaped(liveRows[t])
    BY <1>1
  <2>3. Flush(p.row, target, liveRows[t]).closed = liveRows[t].closed
    BY ONLY <2>1, <2>2, ClosedStays
  <2> QED
    BY <1>1, <1>2, <2>3
<1>4. p.state \in {Null, state'}
  BY <1>1, <1>2 DEF Current
<1>5. [p EXCEPT !.gate = wanted] = [p EXCEPT !.gate = wanted, !.state = p.state]
  BY <1>1 DEF Session
<1> PICK ladderNow : ladderNow = p.state
  OBVIOUS
<1>6. /\ pass[w].pc = "book" /\ ladderNow \in {Null, state'}
      /\ Continue(w, Committed(Handled([pass[w] EXCEPT !.gate = wanted, !.state = ladderNow])))
  BY <1>1, <1>2, <1>4, <1>5
<1> QED
  BY ONLY AccountInv, AloneInv, OneWorker, w \in Workers, <1>2, <1>3, <1>6, AloneTurn

LEMMA AloneStep ==
    ASSUME AccountInv, AloneInv, OneWorker, [FundingNext]_fundingVars PROVE AloneInv'
<1>1. ASSUME NEW w \in Workers, WorkerStep(w) PROVE AloneInv'
  BY <1>1, AloneWalk, AloneAudit, AloneFinalize, AloneBook, AloneFail DEF WorkerStep
<1>2. CASE \/ \E t \in LiveTrades : \E e \in Settlements[t] : Settlement(t, e)
           \/ LiftBlock \/ TickFunding \/ UNCHANGED fundingVars
  <2>1. UNCHANGED <<liveRows, state, pass, redone, overlapped>>
    BY <1>2 DEF Settlement, LiftBlock, TickFunding, fundingVars, accountVars
  <2> QED
    BY <2>1 DEF AloneInv
<1> QED
  BY <1>1, <1>2 DEF FundingNext

\* Where a single worker runs nothing is excepted: the ladder is given the result of no
\* trade twice, and its streak is that of the results it was given, in their order.  What
\* ResultToldOnce refutes needs two threads.
THEOREM OneWorkerTellsOnce ==
    ASSUME OneWorker
    PROVE  FundingSpec => [](ResultToldOnce /\ \E n \in Streaks : state.losses = n[Len(told)])
<1>1. FundingInit => AloneInv
  BY DEF FundingInit, AloneInv, Current, NoSession
<1>2. AccountInv /\ AloneInv /\ [FundingNext]_fundingVars => AloneInv'
  BY AloneStep
<1>3. AccountInv /\ StreakRight /\ AloneInv =>
         ResultToldOnce /\ \E n \in Streaks : state.losses = n[Len(told)]
  <2> SUFFICES ASSUME AccountInv, StreakRight, AloneInv
               PROVE  ResultToldOnce /\ \E n \in Streaks : state.losses = n[Len(told)]
    OBVIOUS
  <2>1. ASSUME NEW t \in LiveTrades PROVE Times(t) <= 1
    <3>1. HeardOf(t) /\ Shaped(liveRows[t])
      BY DEF AccountInv, RowOK, AloneInv
    <3> QED
      BY <3>1 DEF HeardOf, Shaped
  <2> QED
    BY <2>1 DEF ResultToldOnce, StreakRight, AloneInv
<1> QED
  BY <1>1, <1>2, <1>3, Invariant, PTL DEF FundingSpec

================================================================================
