----------------------------- MODULE SpotDeskProofs -----------------------------
(***************************************************************************)
(* Proofs about SpotDesk for any pairs, books, requests and limits: what   *)
(* may be traded twice, and what stands behind an order and its position.  *)
(***************************************************************************)
EXTENDS SpotDesk, FiniteSetTheorems, WellFoundedInduction, TLAPS

-----------------------------------------------------------------------------
\* Sequences whose elements may be anything.
IsSeq(s) == \E S : s \in Seq(S)

LEMMA Appended ==
    ASSUME NEW s, IsSeq(s), NEW x
    PROVE  /\ IsSeq(Append(s, x)) /\ Len(s) \in Nat /\ Len(Append(s, x)) = Len(s) + 1
           /\ DOMAIN s = 1..Len(s) /\ DOMAIN Append(s, x) = 1..(Len(s) + 1)
           /\ \A i \in DOMAIN s : Append(s, x)[i] = s[i]
           /\ Append(s, x)[Len(s) + 1] = x
<1>1. PICK S : s \in Seq(S)
  BY DEF IsSeq
<1> DEFINE T == S \cup {x}
<1>2. s \in Seq(T) /\ x \in T
  BY <1>1
<1> HIDE DEF T
<1>3. Append(s, x) \in Seq(T)
  BY <1>2
<1> QED
  BY <1>2, <1>3 DEF IsSeq

LEMMA Replaced ==
    ASSUME NEW s, IsSeq(s), NEW i, NEW x, NEW t, t = [s EXCEPT ![i] = x]
    PROVE  /\ IsSeq(t) /\ Len(t) = Len(s) /\ DOMAIN t = DOMAIN s
           /\ \A k \in DOMAIN s : t[k] = IF k = i THEN x ELSE s[k]
<1>1. PICK S : s \in Seq(S)
  BY DEF IsSeq
<1> DEFINE T == S \cup {x}
<1>2. Len(s) \in Nat /\ s \in [1..Len(s) -> T]
  BY <1>1
<1>3. t \in [1..Len(s) -> T]
  BY <1>2
<1>4. t \in Seq(T) /\ Len(t) = Len(s) /\ DOMAIN t = DOMAIN s
  BY <1>2, <1>3
<1> QED
  BY <1>2, <1>4 DEF IsSeq

-----------------------------------------------------------------------------
\* The sum of the closed positions.
LEMMA Least ==
    ASSUME NEW T \in SUBSET Nat, T # {} PROVE \E m \in T : \A k \in T : m <= k
<1> DEFINE Less == {ss \in Nat \X Nat : ss[1] < ss[2]}
<1>1. IsWellFoundedOn(Less, Nat)
  BY NatLessThanWellFounded DEF OpToRel
<1>2. \A k, m \in Nat : k < m => <<k, m>> \in Less
  OBVIOUS
<1> HIDE DEF Less
<1>3. \E m \in T : \A k \in T : ~(<<k, m>> \in Less)
  <2>1. T \subseteq Nat /\ T # {}
    OBVIOUS
  <2> QED
    BY ONLY <1>1, <2>1, WFMin
<1>4. PICK m \in T : \A k \in T : ~(<<k, m>> \in Less)
  BY <1>3
<1>5. ASSUME NEW k \in T PROVE m <= k
  <2>1. k \in Nat /\ m \in Nat /\ ~(k < m)
    BY <1>2, <1>4
  <2> QED
    BY <2>1
<1> QED
  BY <1>5

Step(rows, n, sum) == IF rows[n].status = "closed" THEN sum + rows[n].pnl ELSE sum
SumsTo(rows, m, f) == f = [n \in 0..m |-> IF n = 0 THEN 0 ELSE Step(rows, n, f[n - 1])]

LEMMA SumsExist == ASSUME NEW rows, NEW m \in Nat PROVE \E f : SumsTo(rows, m, f)
<1> DEFINE Bad == {n \in Nat : ~\E f : SumsTo(rows, n, f)}
<1> SUFFICES Bad = {}
  OBVIOUS
<1>1. SUFFICES ASSUME Bad # {} PROVE FALSE
  OBVIOUS
<1>2. PICK n \in Bad : \A k \in Bad : n <= k
  <2>1. Bad \in SUBSET Nat
    OBVIOUS
  <2> HIDE DEF Bad
  <2> QED
    BY <1>1, <2>1, Least
<1>3. n \in Nat /\ ~\E f : SumsTo(rows, n, f)
  OBVIOUS
<1>4. CASE n = 0
  <2> DEFINE f == [k \in 0..0 |-> 0]
  <2>1. f = [k \in 0..0 |-> IF k = 0 THEN 0 ELSE Step(rows, k, f[k - 1])]
    OBVIOUS
  <2>2. SumsTo(rows, n, f)
    BY <1>4, <2>1 DEF SumsTo
  <2> QED
    BY <1>3, <2>2
<1>5. CASE n # 0
  <2>1. n - 1 \in Nat /\ n - 1 \notin Bad
    BY <1>2, <1>3, <1>5
  <2>2. PICK g : SumsTo(rows, n - 1, g)
    BY <2>1
  <2>3. \A k \in 0..(n - 1) : g[k] = IF k = 0 THEN 0 ELSE Step(rows, k, g[k - 1])
    BY <2>2 DEF SumsTo
  <2> DEFINE f == [k \in 0..n |-> IF k = n THEN Step(rows, n, g[n - 1]) ELSE g[k]]
  <2>4. ASSUME NEW k \in 0..n PROVE f[k] = IF k = 0 THEN 0 ELSE Step(rows, k, f[k - 1])
    <3>1. CASE k = n
      <4>1. f[k - 1] = g[n - 1]
        BY <1>3, <1>5, <3>1
      <4> QED
        BY <1>5, <3>1, <4>1
    <3>2. CASE k # n
      <4>1. k \in 0..(n - 1) /\ f[k] = g[k] /\ (k # 0 => f[k - 1] = g[k - 1])
        BY <1>3, <3>2
      <4> QED
        BY <2>3, <4>1
    <3> QED
      BY <3>1, <3>2
  <2>5. f = [k \in 0..n |-> IF k = 0 THEN 0 ELSE Step(rows, k, f[k - 1])]
    BY <2>4
  <2>6. SumsTo(rows, n, f)
    BY <2>5 DEF SumsTo
  <2> QED
    BY <1>3, <2>6
<1> QED
  BY <1>4, <1>5

LEMMA SumsAgree ==
    ASSUME NEW rows, NEW more, NEW n \in Nat, NEW m \in Nat, n <= m, NEW f, NEW g,
           SumsTo(rows, n, f), SumsTo(more, m, g), \A k \in 1..n : more[k] = rows[k]
    PROVE  f[n] = g[n]
<1>1. /\ \A k \in 0..n : f[k] = IF k = 0 THEN 0 ELSE Step(rows, k, f[k - 1])
      /\ \A k \in 0..m : g[k] = IF k = 0 THEN 0 ELSE Step(more, k, g[k - 1])
  BY DEF SumsTo
<1> DEFINE Bad == {k \in 0..n : f[k] # g[k]}
<1>2. SUFFICES ASSUME Bad # {} PROVE FALSE
  OBVIOUS
<1>3. PICK k \in Bad : \A i \in Bad : k <= i
  <2>1. Bad \in SUBSET Nat
    OBVIOUS
  <2> HIDE DEF Bad
  <2> QED
    BY <1>2, <2>1, Least
<1>4. k \in 0..n /\ f[k] # g[k] /\ k \in 0..m
  OBVIOUS
<1>5. k # 0
  BY <1>1, <1>4
<1>6. k - 1 \in 0..n /\ k - 1 \notin Bad
  BY <1>3, <1>4, <1>5
<1>7. f[k - 1] = g[k - 1] /\ more[k] = rows[k]
  BY <1>4, <1>5, <1>6
<1> QED
  BY <1>1, <1>4, <1>5, <1>7 DEF Step

LEMMA PnlIs ==
    ASSUME NEW rows, Len(rows) \in Nat
    PROVE  \E f : SumsTo(rows, Len(rows), f) /\ RealizedPnl(rows) = f[Len(rows)]
<1> DEFINE upTo == CHOOSE f : SumsTo(rows, Len(rows), f)
<1>1. SumsTo(rows, Len(rows), upTo)
  BY SumsExist
<1>2. RealizedPnl(rows) = upTo[Len(rows)]
  BY DEF RealizedPnl, SumsTo, Step
<1> QED
  BY <1>1, <1>2

\* A new position that is open adds nothing; the result of a closed one may change only
\* at a close.
LEMMA OpenAddsNothing ==
    ASSUME NEW rows, IsSeq(rows), NEW row, row.status = "open"
    PROVE  RealizedPnl(Append(rows, row)) = RealizedPnl(rows)
<1> PICK more : more = Append(rows, row)
  OBVIOUS
<1> PICK n : n = Len(rows)
  OBVIOUS
<1> PICK m : m = n + 1
  OBVIOUS
<1>1. /\ n \in Nat /\ Len(rows) \in Nat /\ Len(more) = m /\ more[m] = row
      /\ \A k \in 1..n : more[k] = rows[k]
  BY Appended
<1>2. m \in Nat /\ Len(more) \in Nat /\ n <= m /\ m # 0 /\ m \in 0..m /\ m - 1 = n
  BY <1>1
<1>3. PICK f : SumsTo(rows, n, f) /\ RealizedPnl(rows) = f[n]
  BY ONLY <1>1, PnlIs, n = Len(rows)
<1>4. PICK g : SumsTo(more, m, g) /\ RealizedPnl(more) = g[m]
  BY ONLY <1>1, <1>2, PnlIs
<1>5. f[n] = g[n]
  BY ONLY <1>1, <1>2, <1>3, <1>4, SumsAgree
<1>6. g[m] = Step(more, m, g[n])
  BY <1>2, <1>4 DEF SumsTo
<1>7. g[m] = g[n]
  BY <1>1, <1>6 DEF Step
<1> QED
  BY <1>3, <1>4, <1>5, <1>7

-----------------------------------------------------------------------------
RunFields == {"pc", "todo", "seen", "signal", "order"}
SignalFields == {"key", "at", "price", "amount", "seen", "status", "result"}
PositionFields == {"entry", "amount", "signal", "status", "pnl", "order", "before", "overtaken"}

\* The shapes, as far as the properties need them.
SpotShape ==
    /\ clock \in Int /\ closes \in Nat
    /\ DOMAIN runs = Runners
    /\ \A r \in Runners :
          /\ DOMAIN runs[r] = RunFields
          /\ runs[r].seen \in Nat /\ runs[r].signal \in Nat
    /\ IsSeq(signals) /\ IsSeq(positions)
    /\ \A i \in DOMAIN signals :
          /\ DOMAIN signals[i] = SignalFields
          /\ signals[i].at \in Int /\ signals[i].seen \in Nat
    /\ \A k \in DOMAIN positions : DOMAIN positions[k] = PositionFields

\* Who is about to create a signal has found none that is too young among those it saw.
LooksOK ==
    \A r \in Runners :
        runs[r].pc = "create" =>
            /\ runs[r].seen <= Len(signals)
            /\ SignalCooldown > 0 =>
                  \A i \in DOMAIN signals :
                      i <= runs[r].seen /\ signals[i].key = Head(runs[r].todo).key
                          => signals[i].at < clock - SignalCooldown

\* A signal that is being executed is nobody else's and has no outcome yet; who reports
\* has settled his.
Executing(r) == runs[r].pc \in {"execute", "fill", "refuse"} /\ runs[r].signal # 0
ClaimsOK ==
    /\ \A r \in Runners :
          /\ Executing(r) => /\ runs[r].signal \in DOMAIN signals
                             /\ signals[runs[r].signal].status = "created"
          /\ runs[r].pc = "report" => /\ runs[r].signal \in DOMAIN signals
                                      /\ signals[runs[r].signal].status \in {"executed", "rejected"}
    /\ \A r, s \in Runners :
          Executing(r) /\ Executing(s) /\ runs[r].signal = runs[s].signal => r = s

\* Executed signals and positions are paired; a noted outcome is that of the signal.
PairsOK ==
    /\ \A k \in DOMAIN positions :
          /\ positions[k].signal \in DOMAIN signals
          /\ signals[positions[k].signal].status = "executed"
    /\ \A k, m \in DOMAIN positions : positions[k].signal = positions[m].signal => k = m
    /\ \A i \in DOMAIN signals :
          /\ signals[i].status = "executed" => \E k \in DOMAIN positions : positions[k].signal = i
          /\ signals[i].result = "paper_executed" => signals[i].status = "executed"
          /\ signals[i].result = "rejected" => signals[i].status = "rejected"

\* An order that was approved is within its own margin at the price it names, and the day
\* was within its own limit when it was checked: it still is, or a close was committed
\* since.  An order for a signal of the desk carries the configured limits.
ApprovalsOK ==
    /\ \A r \in Runners :
          runs[r].pc = "fill" =>
              /\ Order(r).price * Order(r).amount <= Order(r).margin
              /\ runs[r].seen <= closes
              /\ DailyPnl > 0 - Order(r).loss \/ closes > runs[r].seen
    /\ \A k \in DOMAIN positions :
          /\ OwnLimits(positions[k])
          /\ signals[positions[k].signal].key # << >> => DeskLimits(positions[k])

SpotInv == SpotShape /\ LooksOK /\ ClaimsOK /\ PairsOK /\ ApprovalsOK /\ DuplicateOnlyByOverlap

-----------------------------------------------------------------------------
LEMMA InitSpot == SpotInit => SpotInv
<1> SUFFICES ASSUME SpotInit PROVE SpotInv
  OBVIOUS
<1>1. /\ clock = 0 /\ closes = 0 /\ signals = << >> /\ positions = << >>
      /\ runs = [r \in Runners |-> NoRun]
  BY DEF SpotInit
<1>2. << >> \in Seq({}) /\ DOMAIN << >> = {}
  OBVIOUS
<1>3. \A r \in Runners : DOMAIN runs[r] = RunFields /\ runs[r].pc = "idle"
                         /\ runs[r].seen = 0 /\ runs[r].signal = 0
  BY <1>1 DEF NoRun, RunFields
<1>4. SpotShape
  BY <1>1, <1>2, <1>3 DEF SpotShape, IsSeq
<1>5. LooksOK /\ ClaimsOK /\ PairsOK /\ ApprovalsOK /\ DuplicateOnlyByOverlap
  BY <1>1, <1>2, <1>3 DEF LooksOK, ClaimsOK, Executing, PairsOK, ApprovalsOK, DuplicateOnlyByOverlap
<1> QED
  BY <1>4, <1>5 DEF SpotInv

\* The steps that touch neither signals nor positions and leave at most one run at a
\* point where nothing is at stake: it looks for the next opportunity, has read a
\* position to close, or is about to judge a manual order.
Harmless(run) ==
    /\ DOMAIN run = RunFields /\ run.seen \in Nat /\ run.signal \in Nat
    /\ run.pc \in {"idle", "check", "close"} \/ (run.pc = "execute" /\ run.signal = 0)

LEMMA HarmlessStep ==
    ASSUME SpotInv, UNCHANGED ledger, clock' \in Int, clock' >= clock, DOMAIN runs' = Runners,
           \A r \in Runners : runs'[r] = runs[r] \/ Harmless(runs'[r])
    PROVE  SpotInv'
<1> USE DEF SpotInv
<1>1. /\ signals' = signals /\ positions' = positions /\ closes' = closes /\ clock \in Int
  BY DEF ledger, SpotShape
<1>2. SpotShape'
  BY <1>1 DEF SpotShape, Harmless
<1>3. LooksOK'
  <2>1. ASSUME NEW r \in Runners, runs'[r].pc = "create" PROVE runs'[r] = runs[r]
    BY <2>1 DEF Harmless
  <2>2. ASSUME NEW i \in DOMAIN signals, signals[i].at < clock - SignalCooldown
        PROVE  signals[i].at < clock' - SignalCooldown
    BY <1>1, <2>2, SpotAssumption DEF SpotShape
  <2> QED
    BY <1>1, <2>1, <2>2 DEF LooksOK
<1>4. ClaimsOK'
  <2>1. \A r \in Runners : Executing(r)' => runs'[r] = runs[r] /\ Executing(r)
    BY DEF Harmless, Executing
  <2>2. \A r \in Runners : runs'[r].pc = "report" => runs'[r] = runs[r]
    BY DEF Harmless
  <2> QED
    BY <1>1, <2>1, <2>2 DEF ClaimsOK
<1>5. PairsOK' /\ DuplicateOnlyByOverlap'
  BY <1>1 DEF PairsOK, DuplicateOnlyByOverlap
<1>6. ApprovalsOK'
  <2>1. \A r \in Runners : runs'[r].pc = "fill" => runs'[r] = runs[r]
    BY DEF Harmless
  <2>2. \A r \in Runners : runs'[r] = runs[r] => Order(r)' = Order(r)
    BY <1>1 DEF Order
  <2>3. DailyPnl' = DailyPnl
    BY <1>1 DEF DailyPnl
  <2> QED
    BY <1>1, <2>1, <2>2, <2>3 DEF ApprovalsOK
<1> QED
  BY <1>2, <1>3, <1>4, <1>5, <1>6

\* One run moves to such a point.
LEMMA OneHarmless ==
    ASSUME SpotInv, NEW r, NEW run, Harmless(run), runs' = [runs EXCEPT ![r] = run],
           UNCHANGED <<clock, ledger>>
    PROVE  SpotInv'
BY HarmlessStep DEF SpotInv, SpotShape

LEMMA HarmlessRuns ==
    ASSUME NEW todo, NEW n \in Nat, NEW order
    PROVE  /\ Harmless(NoRun)
           /\ Harmless([NoRun EXCEPT !.pc = "check", !.todo = todo])
           /\ Harmless([NoRun EXCEPT !.pc = "execute", !.order = order])
           /\ Harmless([NoRun EXCEPT !.pc = "close", !.signal = n])
           /\ NoRun.pc = "idle"
BY DEF Harmless, NoRun, RunFields

-----------------------------------------------------------------------------
\* The scanner, and the beginnings and ends of runs.
LEMMA QuietSteps ==
    ASSUME SpotInv,
           \/ SpotCycle \/ SpotRestart \/ SpotTick
           \/ \E p \in SpotPairs : SpotStart(p) \/ SpotAnswer(p) \/ SpotFail(p) \/ ScannerRun(p)
           \/ \E r \in Runners : \/ RequestRun(r) \/ EndRun(r) \/ Raise(r) \/ CloseBegin(r)
                                 \/ \E order \in ManualOrders : Manual(r, order)
           \/ UNCHANGED spotVars
    PROVE  SpotInv'
<1>1. clock \in Int /\ DOMAIN runs = Runners
  BY DEF SpotInv, SpotShape
<1>2. CASE \/ SpotCycle \/ SpotTick \/ UNCHANGED spotVars
           \/ \E p \in SpotPairs : SpotStart(p) \/ SpotAnswer(p) \/ SpotFail(p)
  <2>1. UNCHANGED <<ledger, runs>> /\ clock' \in {clock, clock + 1}
    BY <1>2 DEF SpotCycle, SpotTick, SpotStart, SpotAnswer, SpotFail, spotVars
  <2> QED
    BY <1>1, <2>1, HarmlessStep
<1>3. CASE SpotRestart
  <2>1. UNCHANGED <<clock, ledger>> /\ runs' = [r \in Runners |-> NoRun]
    BY <1>3 DEF SpotRestart
  <2>2. Harmless(NoRun)
    BY HarmlessRuns
  <2> QED
    BY <1>1, <2>1, <2>2, HarmlessStep
<1>4. ASSUME NEW r, UNCHANGED <<clock, ledger>>, Begin(r) PROVE SpotInv'
  <2> PICK todo : todo = Opportunities
    OBVIOUS
  <2>1. runs' = [runs EXCEPT ![r] = [NoRun EXCEPT !.pc = "check", !.todo = todo]]
    BY <1>4 DEF Begin
  <2> QED
    BY <1>4, <2>1, HarmlessRuns, OneHarmless
<1>5. ASSUME NEW r, UNCHANGED <<clock, ledger>>, runs' = [runs EXCEPT ![r] = NoRun] PROVE SpotInv'
  BY <1>5, HarmlessRuns, OneHarmless
<1>6. ASSUME NEW r, CloseBegin(r) PROVE SpotInv'
  <2>1. PICK i \in DOMAIN positions :
           runs' = [runs EXCEPT ![r] = [NoRun EXCEPT !.pc = "close", !.signal = i]]
    BY <1>6 DEF CloseBegin
  <2>2. i \in Nat
    BY DEF SpotInv, SpotShape, IsSeq
  <2> QED
    BY <1>6, <2>1, <2>2, HarmlessRuns, OneHarmless DEF CloseBegin
<1>7. ASSUME NEW r, NEW order, Manual(r, order) PROVE SpotInv'
  <2>1. /\ runs' = [runs EXCEPT ![r] = [NoRun EXCEPT !.pc = "execute", !.order = order]]
        /\ UNCHANGED <<clock, ledger>>
    BY <1>7 DEF Manual
  <2> QED
    BY <2>1, HarmlessRuns, OneHarmless
<1> QED
  BY <1>2, <1>3, <1>4, <1>5, <1>6, <1>7 DEF ScannerRun, RequestRun, EndRun, Raise

\* What one run becomes.
LEMMA RunBecomes ==
    ASSUME SpotInv, NEW r \in Runners, NEW run, runs' = [runs EXCEPT ![r] = run]
    PROVE  /\ DOMAIN runs' = Runners /\ runs'[r] = run
           /\ \A s \in Runners : s # r => runs'[s] = runs[s]
BY DEF SpotInv, SpotShape

\* One run goes on, and the tables stay: it will create a signal of which it has found
\* none that is too young, or it has judged the order it executes.
LEMMA MoveStep ==
    ASSUME SpotInv, NEW r \in Runners, NEW next, runs' = [runs EXCEPT ![r] = next],
           UNCHANGED <<clock, ledger>>,
           DOMAIN next = RunFields, next.seen \in Nat, next.signal \in Nat,
           \/ /\ next.pc = "create" /\ next.seen <= Len(signals)
              /\ SignalCooldown > 0 =>
                    \A i \in DOMAIN signals : signals[i].key = Head(next.todo).key
                                                  => signals[i].at < clock - SignalCooldown
           \/ /\ next.pc \in {"fill", "refuse"} /\ runs[r].pc = "execute"
              /\ next.signal = runs[r].signal /\ next.order = runs[r].order /\ next.seen = closes
              /\ next.pc = "fill" => Approved(Order(r))
    PROVE  SpotInv'
<1> USE DEF SpotInv
<1>1. /\ signals' = signals /\ positions' = positions /\ closes' = closes /\ clock' = clock
      /\ closes \in Nat
  BY DEF ledger, SpotShape
<1>2. /\ DOMAIN runs' = Runners /\ runs'[r] = next
      /\ \A s \in Runners : s # r => runs'[s] = runs[s]
  BY RunBecomes
<1>3. SpotShape'
  <2>1. \A s \in Runners : /\ DOMAIN runs'[s] = RunFields
                           /\ runs'[s].seen \in Nat /\ runs'[s].signal \in Nat
    BY <1>2 DEF SpotShape
  <2> QED
    BY <1>1, <1>2, <2>1 DEF SpotShape
<1>4. LooksOK'
  <2>1. ASSUME NEW s \in Runners, s # r PROVE runs'[s] = runs[s]
    BY <1>2, <2>1
  <2>2. \A s \in Runners : s # r /\ runs'[s].pc = "create" =>
            /\ runs'[s].seen <= Len(signals)
            /\ SignalCooldown > 0 =>
                  \A i \in DOMAIN signals :
                      i <= runs'[s].seen /\ signals[i].key = Head(runs'[s].todo).key
                          => signals[i].at < clock - SignalCooldown
    BY <2>1 DEF LooksOK
  <2>3. runs'[r].pc = "create" =>
            /\ runs'[r].seen <= Len(signals)
            /\ SignalCooldown > 0 =>
                  \A i \in DOMAIN signals :
                      i <= runs'[r].seen /\ signals[i].key = Head(runs'[r].todo).key
                          => signals[i].at < clock - SignalCooldown
    BY <1>2
  <2> QED
    BY <1>1, <2>2, <2>3 DEF LooksOK
<1>5. ClaimsOK'
  <2>1. \A s \in Runners : Executing(s)' => Executing(s) /\ runs'[s].signal = runs[s].signal
    BY <1>2 DEF Executing
  <2>2. \A s \in Runners : runs'[s].pc = "report" => runs'[s] = runs[s]
    BY <1>2
  <2> QED
    BY <1>1, <2>1, <2>2 DEF ClaimsOK
<1>6. PairsOK' /\ DuplicateOnlyByOverlap'
  BY <1>1 DEF PairsOK, DuplicateOnlyByOverlap
<1>7. ApprovalsOK'
  <2>1. DailyPnl' = DailyPnl
    BY <1>1 DEF DailyPnl
  <2>2. \A s \in Runners : s # r => Order(s)' = Order(s)
    BY <1>1, <1>2 DEF Order
  <2>3. next.pc = "fill" => Order(r)' = Order(r)
    BY <1>1, <1>2 DEF Order
  <2>4. \A s \in Runners : s # r /\ runs'[s].pc = "fill" =>
            /\ Order(s)'.price * Order(s)'.amount <= Order(s)'.margin
            /\ runs'[s].seen <= closes
            /\ DailyPnl > 0 - Order(s)'.loss \/ closes > runs'[s].seen
    BY <1>2, <2>2 DEF ApprovalsOK
  <2>5. runs'[r].pc = "fill" =>
            /\ Order(r)'.price * Order(r)'.amount <= Order(r)'.margin
            /\ runs'[r].seen <= closes
            /\ DailyPnl > 0 - Order(r)'.loss \/ closes > runs'[r].seen
    BY <1>1, <1>2, <2>3 DEF Approved
  <2> QED
    BY <1>1, <2>1, <2>4, <2>5 DEF ApprovalsOK
<1> QED
  BY <1>3, <1>4, <1>5, <1>6, <1>7

\* The next opportunity is skipped, or was found to be none that is too young.
LEMMA CheckStep == ASSUME SpotInv, NEW r \in Runners, CheckNext(r) PROVE SpotInv'
<1>1. /\ UNCHANGED <<clock, ledger>> /\ runs[r].pc = "check" /\ clock \in Int
      /\ DOMAIN runs[r] = RunFields /\ runs[r].seen \in Nat /\ runs[r].signal \in Nat
  BY DEF CheckNext, SpotInv, SpotShape
<1>2. Len(signals) \in Nat
  BY DEF SpotInv, SpotShape, IsSeq
<1>3. CASE OnCooldown(Head(runs[r].todo).key)
  <2> PICK next : next = [runs[r] EXCEPT !.todo = Tail(runs[r].todo)]
    OBVIOUS
  <2>1. runs' = [runs EXCEPT ![r] = next]
    BY <1>3 DEF CheckNext
  <2>2. Harmless(next)
    BY <1>1 DEF Harmless, RunFields
  <2> QED
    BY <1>1, <2>1, <2>2, OneHarmless
<1>4. CASE ~OnCooldown(Head(runs[r].todo).key)
  <2> PICK next : next = [runs[r] EXCEPT !.pc = "create", !.seen = Len(signals)]
    OBVIOUS
  <2>1. runs' = [runs EXCEPT ![r] = next]
    BY <1>4 DEF CheckNext
  <2>2. /\ DOMAIN next = RunFields /\ next.pc = "create" /\ next.seen = Len(signals)
        /\ next.todo = runs[r].todo /\ next.signal = runs[r].signal
    BY <1>1 DEF RunFields
  <2>3. ASSUME SignalCooldown > 0, NEW i \in DOMAIN signals,
               signals[i].key = Head(runs[r].todo).key
        PROVE  signals[i].at < clock - SignalCooldown
    <3>1. ~(signals[i].at >= clock - SignalCooldown)
      BY <1>4, <2>3 DEF OnCooldown
    <3>2. signals[i].at \in Int
      BY DEF SpotInv, SpotShape
    <3> QED
      BY <1>1, <3>1, <3>2, SpotAssumption
  <2>4. /\ next.seen \in Nat /\ next.signal \in Nat /\ next.seen <= Len(signals)
        /\ SignalCooldown > 0 =>
              \A i \in DOMAIN signals : signals[i].key = Head(next.todo).key
                                            => signals[i].at < clock - SignalCooldown
    BY <1>1, <1>2, <2>2, <2>3
  <2> QED
    BY <1>1, <2>1, <2>2, <2>4, MoveStep
<1> QED
  BY <1>3, <1>4

\* An order is judged by what it is and by the positions that are closed.
LEMMA JudgeStep == ASSUME SpotInv, NEW r \in Runners, Judge(r) PROVE SpotInv'
<1>1. /\ UNCHANGED <<clock, ledger>> /\ runs[r].pc = "execute" /\ closes \in Nat
      /\ DOMAIN runs[r] = RunFields /\ runs[r].signal \in Nat
  BY DEF Judge, ledger, SpotInv, SpotShape
<1>2. PICK verdict \in {"fill", "refuse"} :
        /\ runs' = [runs EXCEPT ![r].pc = verdict, ![r].seen = closes]
        /\ verdict = "fill" => Approved(Order(r))
  BY DEF Judge
<1> PICK next : next = [runs[r] EXCEPT !.pc = verdict, !.seen = closes]
  OBVIOUS
<1>3. runs' = [runs EXCEPT ![r] = next]
  BY <1>1, <1>2 DEF SpotInv, SpotShape
<1>4. /\ DOMAIN next = RunFields /\ next.pc = verdict /\ next.seen = closes
      /\ next.signal = runs[r].signal /\ next.order = runs[r].order
  BY <1>1 DEF RunFields
<1>5. next.pc = "fill" => Approved(Order(r))
  BY <1>2, <1>4
<1>6. /\ DOMAIN next = RunFields /\ next.seen \in Nat /\ next.signal \in Nat
      /\ next.pc \in {"fill", "refuse"}
  BY <1>1, <1>4
<1> QED
  BY <1>1, <1>3, <1>4, <1>5, <1>6, MoveStep

\* A signal is created; nobody executes it yet but its run.
LEMMA CreateStep == ASSUME SpotInv, NEW r \in Runners, Create(r) PROVE SpotInv'
<1> USE DEF SpotInv
<1> PICK run : run = runs[r]
  OBVIOUS
<1> PICK n : n = Len(signals)
  OBVIOUS
<1> PICK row : row = [key |-> Head(run.todo).key, at |-> clock, price |-> Head(run.todo).price,
                      amount |-> Head(run.todo).amount, seen |-> run.seen,
                      status |-> "created", result |-> "created"]
  OBVIOUS
<1>1. /\ positions' = positions /\ closes' = closes /\ clock' = clock /\ clock \in Int
      /\ run.pc = "create" /\ signals' = Append(signals, row)
      /\ DOMAIN run = RunFields /\ run.seen \in Nat /\ run.signal \in Nat
  BY DEF Create, SpotShape
<1>2. /\ IsSeq(signals') /\ n \in Nat /\ Len(signals') = n + 1
      /\ DOMAIN signals = 1..n /\ DOMAIN signals' = 1..(n + 1)
      /\ \A i \in DOMAIN signals : signals'[i] = signals[i]
      /\ signals'[n + 1] = row
  BY <1>1, Appended DEF SpotShape
<1>3. /\ DOMAIN row = SignalFields /\ row.at = clock /\ row.seen = run.seen
      /\ row.status = "created" /\ row.result = "created" /\ row.key = Head(run.todo).key
  BY DEF SignalFields
<1>4. PICK next :
        /\ runs' = [runs EXCEPT ![r] = next]
        /\ DOMAIN next = RunFields /\ next.seen \in Nat /\ next.signal \in Nat
        /\ \/ next.pc = "execute" /\ next.signal = n + 1
           \/ next.pc = "check"
  <2>1. CASE runs' = [runs EXCEPT ![r].pc = "execute", ![r].seen = 0, ![r].signal = Len(signals')]
    <3> PICK next : next = [runs[r] EXCEPT !.pc = "execute", !.seen = 0, !.signal = Len(signals')]
      OBVIOUS
    <3>1. runs' = [runs EXCEPT ![r] = next]
      BY <2>1 DEF SpotShape
    <3>2. DOMAIN next = RunFields /\ next.seen = 0 /\ next.signal = n + 1 /\ next.pc = "execute"
      BY <1>1 DEF RunFields
    <3>3. n + 1 \in Nat
      BY <1>2
    <3> WITNESS next
    <3> QED
      BY <3>1, <3>2, <3>3
  <2>2. CASE runs' = [runs EXCEPT ![r] = [NoRun EXCEPT !.pc = "check", !.todo = Tail(runs[r].todo)]]
    <3> PICK next : next = [NoRun EXCEPT !.pc = "check", !.todo = Tail(runs[r].todo)]
      OBVIOUS
    <3>1. DOMAIN next = RunFields /\ next.seen = 0 /\ next.signal = 0 /\ next.pc = "check"
      BY DEF NoRun, RunFields
    <3> WITNESS next
    <3> QED
      BY <2>2, <3>1
  <2> QED
    BY <2>1, <2>2 DEF Create
<1>5. /\ DOMAIN runs' = Runners /\ runs'[r] = next
      /\ \A s \in Runners : s # r => runs'[s] = runs[s]
  BY <1>4, RunBecomes
<1>6. SpotShape'
  BY <1>1, <1>2, <1>3, <1>4, <1>5 DEF SpotShape
<1>7. LooksOK'
  <2>1. ASSUME NEW s \in Runners, runs'[s].pc = "create" PROVE s # r /\ runs'[s] = runs[s]
    BY <1>4, <1>5, <2>1
  <2>2. ASSUME NEW s \in Runners, s # r, runs[s].pc = "create"
        PROVE  runs[s].seen <= n /\ runs[s].seen \in Nat
    BY <2>2 DEF LooksOK, SpotShape
  <2>3. ASSUME NEW s \in Runners, s # r, runs[s].pc = "create", SignalCooldown > 0,
               NEW i \in DOMAIN signals', i <= runs[s].seen,
               signals'[i].key = Head(runs[s].todo).key
        PROVE  signals'[i].at < clock - SignalCooldown
    <3>1. i \in DOMAIN signals /\ signals'[i] = signals[i]
      BY <1>2, <2>2, <2>3
    <3> QED
      BY <2>3, <3>1 DEF LooksOK
  <2> QED
    <3>1. clock' = clock
      BY <1>1
    <3>2. ASSUME NEW s \in Runners, runs'[s].pc = "create"
          PROVE  /\ runs'[s].seen <= Len(signals')
                 /\ SignalCooldown > 0 =>
                       \A i \in DOMAIN signals' :
                           i <= runs'[s].seen /\ signals'[i].key = Head(runs'[s].todo).key
                               => signals'[i].at < clock' - SignalCooldown
      <4>1. s # r /\ runs'[s] = runs[s] /\ runs[s].pc = "create"
        BY <2>1, <3>2
      <4>2. runs[s].seen <= n /\ runs[s].seen \in Nat
        BY <2>2, <4>1
      <4>3. runs[s].seen <= Len(signals')
        BY <1>2, <4>2
      <4>4. SignalCooldown > 0 =>
                \A i \in DOMAIN signals' :
                    i <= runs[s].seen /\ signals'[i].key = Head(runs[s].todo).key
                        => signals'[i].at < clock - SignalCooldown
        BY <2>3, <4>1
      <4> QED
        BY ONLY <3>1, <4>1, <4>3, <4>4
    <3> QED
      BY ONLY <3>2 DEF LooksOK
<1>8. ClaimsOK'
  <2>1. ASSUME NEW s \in Runners, s # r
        PROVE  /\ Executing(s)' = Executing(s) /\ runs'[s] = runs[s]
    BY <1>5, <2>1 DEF Executing
  <2>2. ASSUME NEW s \in Runners, s # r, Executing(s)
        PROVE  /\ runs[s].signal \in DOMAIN signals /\ runs[s].signal # n + 1
               /\ runs[s].signal \in DOMAIN signals'
               /\ signals'[runs[s].signal].status = "created"
    BY <1>2, <2>2 DEF ClaimsOK
  <2>3. Executing(r)' => runs'[r].signal = n + 1
    BY <1>4, <1>5 DEF Executing
  <2>4. n + 1 \in DOMAIN signals' /\ signals'[n + 1].status = "created"
    BY <1>2, <1>3
  <2>5. ASSUME NEW s \in Runners, runs'[s].pc = "report"
        PROVE  /\ runs'[s].signal \in DOMAIN signals'
               /\ signals'[runs'[s].signal].status \in {"executed", "rejected"}
    <3>1. s # r /\ runs'[s] = runs[s]
      BY <1>4, <1>5, <2>5
    <3>2. /\ runs[s].signal \in DOMAIN signals
          /\ signals[runs[s].signal].status \in {"executed", "rejected"}
      BY <2>5, <3>1 DEF ClaimsOK
    <3> QED
      BY <1>2, <3>1, <3>2
  <2>6. ASSUME NEW s \in Runners, Executing(s)'
        PROVE  runs'[s].signal \in DOMAIN signals' /\ signals'[runs'[s].signal].status = "created"
    BY <2>1, <2>2, <2>3, <2>4, <2>6
  <2>7. ASSUME NEW s \in Runners, NEW t \in Runners, Executing(s)', Executing(t)',
               runs'[s].signal = runs'[t].signal
        PROVE  s = t
    <3>1. CASE s # r /\ t # r
      BY <2>1, <2>7, <3>1 DEF ClaimsOK
    <3>2. CASE s = r \/ t = r
      BY <2>1, <2>2, <2>3, <2>7, <3>2
    <3> QED
      BY <3>1, <3>2
  <2> QED
    BY <2>5, <2>6, <2>7 DEF ClaimsOK
<1>9. PairsOK'
  <2>1. positions' = positions /\ PairsOK
    BY <1>1
  <2>2. DOMAIN signals' = DOMAIN signals \cup {n + 1} /\ \A i \in DOMAIN signals : signals'[i] = signals[i]
    BY <1>2
  <2>3. signals'[n + 1].status = "created" /\ signals'[n + 1].result = "created"
    BY <1>2, <1>3
  <2>4. \A i \in DOMAIN signals' :
           /\ signals'[i].status = "executed" => \E k \in DOMAIN positions' : positions'[k].signal = i
           /\ signals'[i].result = "paper_executed" => signals'[i].status = "executed"
           /\ signals'[i].result = "rejected" => signals'[i].status = "rejected"
    BY ONLY <2>1, <2>2, <2>3 DEF PairsOK
  <2>5. \A k \in DOMAIN positions' : /\ positions'[k].signal \in DOMAIN signals'
                                     /\ signals'[positions'[k].signal].status = "executed"
    BY ONLY <2>1, <2>2 DEF PairsOK
  <2>6. \A k, m \in DOMAIN positions' : positions'[k].signal = positions'[m].signal => k = m
    BY ONLY <2>1 DEF PairsOK
  <2> QED
    BY ONLY <2>4, <2>5, <2>6 DEF PairsOK
<1>10. ApprovalsOK'
  <2>1. ASSUME NEW s \in Runners, runs'[s].pc = "fill"
        PROVE  s # r /\ runs'[s] = runs[s] /\ Order(s)' = Order(s)
    <3>1. s # r /\ runs'[s] = runs[s]
      BY <1>4, <1>5, <2>1
    <3>2. runs[s].signal = 0 \/ runs[s].signal \in DOMAIN signals
      BY <2>1, <3>1 DEF ClaimsOK, Executing
    <3> QED
      BY <1>2, <3>1, <3>2 DEF Order
  <2>2. DailyPnl' = DailyPnl
    BY <1>1 DEF DailyPnl
  <2>3. \A m \in DOMAIN positions : signals'[positions[m].signal] = signals[positions[m].signal]
    BY <1>2 DEF PairsOK
  <2> QED
    BY <1>1, <2>1, <2>2, <2>3 DEF ApprovalsOK
<1>11. DuplicateOnlyByOverlap'
  <2>1. ASSUME SignalCooldown > 0, NEW i \in DOMAIN signals, signals[i].key = row.key,
               row.at - signals[i].at <= SignalCooldown
        PROVE  row.seen < i
    <3>1. signals[i].at \in Int /\ i \in Nat /\ ~(signals[i].at < clock - SignalCooldown)
      BY <1>1, <1>2, <1>3, <2>1, SpotAssumption DEF SpotShape
    <3>2. ~(i <= run.seen)
      BY <1>1, <1>3, <2>1, <3>1 DEF LooksOK
    <3> QED
      BY <1>1, <1>3, <3>1, <3>2
  <2>2. ASSUME SignalCooldown > 0, NEW i \in DOMAIN signals', NEW j \in DOMAIN signals', i < j,
               signals'[i].key = signals'[j].key, signals'[i].key # << >>,
               signals'[j].at - signals'[i].at <= SignalCooldown
        PROVE  signals'[j].seen < i
    <3>1. i \in DOMAIN signals
      BY <1>2, <2>2
    <3>2. CASE j = n + 1
      BY <1>2, <2>1, <2>2, <3>1, <3>2
    <3>3. CASE j # n + 1
      <4>1. j \in DOMAIN signals
        BY <1>2, <3>3
      <4> QED
        BY <1>2, <2>2, <3>1, <4>1 DEF DuplicateOnlyByOverlap
    <3> QED
      BY <3>2, <3>3
  <2> QED
    BY <2>2 DEF DuplicateOnlyByOverlap
<1> QED
  BY <1>6, <1>7, <1>8, <1>9, <1>10, <1>11

\* A row of signals is settled: it is the run's own or a new one, and nobody else
\* executes it.
SettlesRow(r, k, row) ==
    /\ k \in Nat /\ IsSeq(signals') /\ Len(signals') >= Len(signals)
    /\ DOMAIN signals' = DOMAIN signals \cup {k} /\ signals'[k] = row
    /\ \A j \in DOMAIN signals : j # k => signals'[j] = signals[j]
    /\ DOMAIN row = SignalFields /\ row.at \in Int /\ row.seen \in Nat
    /\ row.status \in {"executed", "rejected"} /\ row.result \notin {"paper_executed", "rejected"}
    /\ k \in DOMAIN signals => /\ signals[k].status = "created" /\ row.key = signals[k].key
                               /\ row.at = signals[k].at /\ row.seen = signals[k].seen
    /\ k \notin DOMAIN signals => row.key = << >>
    /\ \A s \in Runners : s # r /\ Executing(s) => runs[s].signal # k

\* If it is executed, a position within the limits of its order is appended for it.
OpensFor(k, status, pos) ==
    \/ status = "rejected" /\ positions' = positions
    \/ /\ status = "executed" /\ positions' = Append(positions, pos)
       /\ DOMAIN pos = PositionFields /\ pos.status = "open" /\ pos.signal = k
       /\ OwnLimits(pos)

\* Its run is over or will report it.
WillReport(r, k, next) ==
    /\ runs' = [runs EXCEPT ![r] = next]
    /\ DOMAIN next = RunFields /\ next.seen \in Nat /\ next.signal \in Nat
    /\ next.pc = "idle" \/ (next.pc = "report" /\ next.signal = k)

LEMMA Settles ==
    ASSUME SpotInv, NEW r \in Runners, NEW k, NEW row, NEW next, NEW pos,
           clock' = clock, closes' = closes, SettlesRow(r, k, row),
           OpensFor(k, row.status, pos), WillReport(r, k, next),
           row.status = "executed" /\ row.key # << >> => DeskLimits(pos)
    PROVE SpotInv'
<1> USE DEF SpotInv, SettlesRow, OpensFor, WillReport
<1>1. /\ DOMAIN runs' = Runners /\ runs'[r] = next
      /\ \A s \in Runners : s # r => runs'[s] = runs[s]
  BY RunBecomes
<1>2. /\ Len(signals) \in Nat /\ DOMAIN signals = 1..Len(signals) /\ Len(signals') \in Nat
  BY DEF SpotShape, IsSeq
<1>3. \A j \in DOMAIN signals : /\ signals'[j].key = signals[j].key /\ signals'[j].at = signals[j].at
                                /\ signals'[j].seen = signals[j].seen
  OBVIOUS
<1>4. /\ IsSeq(positions') /\ DOMAIN positions \subseteq DOMAIN positions'
      /\ \A m \in DOMAIN positions : positions'[m] = positions[m]
      /\ \A m \in DOMAIN positions' : m \notin DOMAIN positions =>
            positions'[m] = pos /\ row.status = "executed" /\ m = Len(positions) + 1
      /\ row.status = "executed" => /\ Len(positions) + 1 \in DOMAIN positions'
                                    /\ positions'[Len(positions) + 1] = pos
      /\ RealizedPnl(positions') = RealizedPnl(positions)
  <2>1. CASE positions' = positions /\ row.status = "rejected"
    BY <2>1 DEF SpotShape
  <2>2. CASE positions' = Append(positions, pos) /\ row.status = "executed" /\ pos.status = "open"
    <3>1. IsSeq(positions)
      BY DEF SpotShape
    <3>2. RealizedPnl(positions') = RealizedPnl(positions)
      BY <2>2, <3>1, OpenAddsNothing
    <3>3. /\ IsSeq(positions') /\ Len(positions) \in Nat
          /\ DOMAIN positions = 1..Len(positions) /\ DOMAIN positions' = 1..(Len(positions) + 1)
          /\ \A m \in DOMAIN positions : positions'[m] = positions[m]
          /\ positions'[Len(positions) + 1] = pos
      BY <2>2, <3>1, Appended
    <3> QED
      BY <2>2, <3>2, <3>3
  <2> QED
    BY <2>1, <2>2
<1>5. SpotShape'
  <2>1. \A s \in Runners : /\ DOMAIN runs'[s] = RunFields
                           /\ runs'[s].seen \in Nat /\ runs'[s].signal \in Nat
    BY <1>1 DEF SpotShape
  <2>2. \A j \in DOMAIN signals' : /\ DOMAIN signals'[j] = SignalFields
                                   /\ signals'[j].at \in Int /\ signals'[j].seen \in Nat
    BY DEF SpotShape
  <2>3. \A m \in DOMAIN positions' : DOMAIN positions'[m] = PositionFields
    BY <1>4 DEF SpotShape
  <2>4. clock' \in Int /\ closes' \in Nat
    BY DEF SpotShape
  <2> QED
    BY <1>1, <1>4, <2>1, <2>2, <2>3, <2>4 DEF SpotShape
<1>6. LooksOK'
  <2>1. ASSUME NEW s \in Runners, runs'[s].pc = "create"
        PROVE  /\ runs'[s] = runs[s] /\ runs[s].pc = "create"
               /\ runs[s].seen <= Len(signals) /\ runs[s].seen \in Nat
    BY <1>1, <2>1 DEF LooksOK, SpotShape
  <2>2. ASSUME NEW s \in Runners, runs'[s].pc = "create", SignalCooldown > 0,
               NEW i \in DOMAIN signals', i <= runs[s].seen,
               signals'[i].key = Head(runs[s].todo).key
        PROVE  signals'[i].at < clock - SignalCooldown
    <3>1. DOMAIN signals' = 1..Len(signals')
      <4>1. PICK S : signals' \in Seq(S)
        BY DEF IsSeq
      <4> QED
        BY ONLY <4>1
    <3>2. i \in DOMAIN signals
      BY <1>2, <2>1, <2>2, <3>1
    <3> QED
      BY <1>3, <2>1, <2>2, <3>2 DEF LooksOK
  <2>3. ASSUME NEW s \in Runners, runs'[s].pc = "create"
        PROVE  runs'[s].seen <= Len(signals')
    BY <1>2, <2>1, <2>3
  <2> QED
    BY <2>1, <2>2, <2>3 DEF LooksOK
<1>7. ClaimsOK'
  <2>1. ASSUME NEW s \in Runners, Executing(s)'
        PROVE  /\ s # r /\ runs'[s] = runs[s] /\ Executing(s)
               /\ runs[s].signal \in DOMAIN signals /\ runs[s].signal # k
               /\ signals[runs[s].signal].status = "created"
    BY <1>1, <2>1 DEF Executing, ClaimsOK
  <2>2. ASSUME NEW s \in Runners, s # r, runs'[s].pc = "report"
        PROVE  /\ runs'[s].signal \in DOMAIN signals'
               /\ signals'[runs'[s].signal].status \in {"executed", "rejected"}
    <3>1. /\ runs'[s] = runs[s] /\ runs[s].signal \in DOMAIN signals
          /\ signals[runs[s].signal].status \in {"executed", "rejected"}
      BY <1>1, <2>2 DEF ClaimsOK
    <3> QED
      BY <3>1
  <2>3. runs'[r].pc = "report" => /\ runs'[r].signal \in DOMAIN signals'
                                  /\ signals'[runs'[r].signal].status \in {"executed", "rejected"}
    BY <1>1
  <2>4. \A s, t \in Runners : Executing(s)' /\ Executing(t)' /\ runs'[s].signal = runs'[t].signal => s = t
    BY <2>1 DEF ClaimsOK
  <2>5. \A s \in Runners : Executing(s)' => /\ runs'[s].signal \in DOMAIN signals'
                                            /\ signals'[runs'[s].signal].status = "created"
    BY <2>1
  <2> QED
    BY <2>2, <2>3, <2>4, <2>5 DEF ClaimsOK
<1>8. PairsOK'
  <2>1. \A m \in DOMAIN positions : positions[m].signal \in DOMAIN signals /\ positions[m].signal # k
    BY DEF PairsOK
  <2>2. \A m \in DOMAIN positions' : /\ positions'[m].signal \in DOMAIN signals'
                                     /\ signals'[positions'[m].signal].status = "executed"
    BY <1>4, <2>1 DEF PairsOK
  <2>3. \A l, m \in DOMAIN positions' : positions'[l].signal = positions'[m].signal => l = m
    BY <1>4, <2>1 DEF PairsOK
  <2>4. ASSUME NEW j \in DOMAIN signals', signals'[j].status = "executed"
        PROVE  \E m \in DOMAIN positions' : positions'[m].signal = j
    <3>1. CASE j = k
      BY <1>4, <2>4, <3>1
    <3>2. CASE j # k
      <4>1. j \in DOMAIN signals /\ signals[j].status = "executed"
        BY <2>4, <3>2
      <4>2. PICK m \in DOMAIN positions : positions[m].signal = j
        BY <4>1 DEF PairsOK
      <4> QED
        BY <1>4, <4>2
    <3> QED
      BY <3>1, <3>2
  <2>5. \A j \in DOMAIN signals' :
            /\ signals'[j].result = "paper_executed" => signals'[j].status = "executed"
            /\ signals'[j].result = "rejected" => signals'[j].status = "rejected"
    BY DEF PairsOK
  <2> QED
    BY <2>2, <2>3, <2>4, <2>5 DEF PairsOK
<1>9. ApprovalsOK'
  <2>1. ASSUME NEW s \in Runners, runs'[s].pc = "fill"
        PROVE  s # r /\ runs'[s] = runs[s] /\ Order(s)' = Order(s)
    <3>1. s # r /\ runs'[s] = runs[s]
      BY <1>1, <2>1
    <3>2. runs[s].signal = 0 \/ (runs[s].signal \in DOMAIN signals /\ runs[s].signal # k)
      BY <2>1, <3>1 DEF ClaimsOK, Executing
    <3> QED
      BY <3>1, <3>2 DEF Order
  <2>2. DailyPnl' = DailyPnl
    BY <1>4 DEF DailyPnl
  <2>3. ASSUME NEW m \in DOMAIN positions'
        PROVE  /\ OwnLimits(positions'[m])
               /\ signals'[positions'[m].signal].key # << >> => DeskLimits(positions'[m])
    <3>1. CASE m \in DOMAIN positions
      <4>1. positions[m].signal \in DOMAIN signals /\ positions'[m] = positions[m]
        BY <1>4, <3>1 DEF PairsOK
      <4>2. signals'[positions[m].signal].key = signals[positions[m].signal].key
        BY <1>3, <4>1
      <4> QED
        BY <3>1, <4>1, <4>2 DEF ApprovalsOK
    <3>2. CASE m \notin DOMAIN positions
      <4>1. positions'[m] = pos /\ row.status = "executed"
        BY <1>4, <2>3, <3>2
      <4>2. pos.signal = k /\ OwnLimits(pos)
        BY <4>1
      <4> QED
        BY <4>1, <4>2
    <3> QED
      BY <3>1, <3>2
  <2> QED
    BY <2>1, <2>2, <2>3 DEF ApprovalsOK
<1>10. DuplicateOnlyByOverlap'
  <2>1. ASSUME NEW i \in DOMAIN signals', NEW j \in DOMAIN signals',
               signals'[i].key = signals'[j].key, signals'[i].key # << >>
        PROVE  i \in DOMAIN signals /\ j \in DOMAIN signals
    BY <2>1
  <2> QED
    BY <1>3, <2>1 DEF DuplicateOnlyByOverlap
<1> QED
  BY <1>5, <1>6, <1>7, <1>8, <1>9, <1>10

\* The order of a run is filled or refused.  A manual signal is inserted; another one is
\* the run's own.
LEMMA SettleStep == ASSUME SpotInv, NEW r \in Runners, Settle(r) PROVE SpotInv'
<1> PICK run : run = runs[r]
  OBVIOUS
<1> PICK n : n = Len(signals)
  OBVIOUS
<1> PICK status : status = IF run.pc = "fill" THEN "executed" ELSE "rejected"
  OBVIOUS
<1> PICK k : k = IF run.signal = 0 THEN n + 1 ELSE run.signal
  OBVIOUS
<1> PICK pos : pos = Position(r, k)
  OBVIOUS
<1>1. /\ clock' = clock /\ closes' = closes /\ run.pc \in {"fill", "refuse"}
      /\ DOMAIN run = RunFields /\ run.seen \in Nat /\ run.signal \in Nat
      /\ IsSeq(signals) /\ n \in Nat /\ DOMAIN signals = 1..n /\ Len(signals) = n
  BY DEF Settle, SpotInv, SpotShape, IsSeq
<1>2. /\ pos.order = Order(r) /\ pos.entry = Order(r).fill /\ pos.amount = Order(r).amount
      /\ pos.before = DailyPnl /\ pos.overtaken = (closes > runs[r].seen)
      /\ run.pc = "fill" => /\ Order(r).price * Order(r).amount <= Order(r).margin
                            /\ DailyPnl > 0 - Order(r).loss \/ closes > runs[r].seen
  BY DEF Position, SpotInv, ApprovalsOK
<1>3. OpensFor(k, status, pos)
  <2>1. CASE run.pc = "fill"
    <3>1. IF run.signal = 0 THEN Len(signals') = n + 1 ELSE TRUE
      <4>1. run.signal = 0 => \E row : signals' = Append(signals, row)
        BY DEF Settle
      <4> QED
        BY <1>1, <4>1, Appended
    <3>2. positions' = Append(positions, pos)
      BY <2>1, <3>1 DEF Settle
    <3>3. /\ DOMAIN pos = PositionFields /\ pos.status = "open" /\ pos.signal = k
      BY DEF Position, PositionFields
    <3>4. OwnLimits(pos)
      BY <1>2, <2>1 DEF OwnLimits
    <3> QED
      BY <2>1, <3>2, <3>3, <3>4 DEF OpensFor
  <2>2. CASE run.pc # "fill"
    BY <2>2 DEF Settle, OpensFor
  <2> QED
    BY <2>1, <2>2
<1>4. CASE run.signal = 0
  <2> PICK row : row = [key |-> << >>, at |-> Unset, price |-> Order(r).price, amount |-> Order(r).amount,
                        seen |-> 0, status |-> status, result |-> "none"]
    OBVIOUS
  <2>1. signals' = Append(signals, row) /\ runs' = [runs EXCEPT ![r] = NoRun]
    BY <1>4 DEF Settle, SpotInv, SpotShape
  <2>2. /\ IsSeq(signals') /\ Len(signals') = n + 1 /\ DOMAIN signals' = 1..(n + 1)
        /\ \A j \in DOMAIN signals : signals'[j] = signals[j]
        /\ signals'[k] = row
    BY <1>1, <1>4, <2>1, Appended
  <2>3. /\ DOMAIN row = SignalFields /\ row.at = -1 /\ row.seen = 0 /\ row.status = status
        /\ row.result = "none" /\ row.key = << >>
    BY DEF SignalFields, Unset
  <2>4. /\ DOMAIN NoRun = RunFields /\ NoRun.seen = 0 /\ NoRun.signal = 0 /\ NoRun.pc = "idle"
    BY DEF NoRun, RunFields
  <2>5. k \in Nat /\ k = n + 1 /\ k \notin DOMAIN signals /\ DOMAIN signals' = DOMAIN signals \cup {k}
    BY <1>1, <1>4, <2>2
  <2>6. \A s \in Runners : s # r /\ Executing(s) => runs[s].signal # k
    BY <2>5 DEF SpotInv, ClaimsOK
  <2>7. /\ row.status \in {"executed", "rejected"} /\ row.at \in Int
        /\ row.result \notin {"paper_executed", "rejected"} /\ Len(signals') >= Len(signals)
    BY <1>1, <2>2, <2>3
  <2>8. SettlesRow(r, k, row) /\ OpensFor(k, row.status, pos) /\ WillReport(r, k, NoRun)
    BY <1>3, <2>1, <2>2, <2>3, <2>4, <2>5, <2>6, <2>7 DEF SettlesRow, WillReport
  <2> QED
    BY <1>1, <2>3, <2>8, Settles
<1>5. CASE run.signal # 0
  <2> PICK row : row = [signals[k] EXCEPT !.status = status]
    OBVIOUS
  <2> PICK next : next = [run EXCEPT !.pc = "report"]
    OBVIOUS
  <2>1. signals' = [signals EXCEPT ![k] = row] /\ runs' = [runs EXCEPT ![r] = next]
    BY <1>5 DEF Settle, SpotInv, SpotShape
  <2>2. Executing(r) /\ k = runs[r].signal /\ k \in DOMAIN signals
        /\ signals[k].status = "created" /\ DOMAIN signals[k] = SignalFields
        /\ signals[k].at \in Int /\ signals[k].seen \in Nat
    BY <1>1, <1>5 DEF Executing, SpotInv, ClaimsOK, SpotShape
  <2>3. /\ IsSeq(signals') /\ Len(signals') = n /\ DOMAIN signals' = DOMAIN signals
        /\ \A j \in DOMAIN signals : signals'[j] = IF j = k THEN row ELSE signals[j]
    <3>1. IsSeq(signals) /\ Len(signals) = n
      BY <1>1
    <3>2. signals' = [signals EXCEPT ![k] = row]
      BY <2>1
    <3> QED
      BY ONLY <3>1, <3>2, Replaced
  <2>4. /\ DOMAIN row = SignalFields /\ row.at = signals[k].at /\ row.seen = signals[k].seen
        /\ row.status = status /\ row.result = signals[k].result /\ row.key = signals[k].key
    BY <2>2 DEF SignalFields
  <2>5. signals[k].result \notin {"paper_executed", "rejected"}
    BY <2>2 DEF SpotInv, PairsOK
  <2>6. \A s \in Runners : s # r /\ Executing(s) => runs[s].signal # k
    BY <2>2 DEF SpotInv, ClaimsOK
  <2>7. /\ DOMAIN next = RunFields /\ next.seen = run.seen /\ next.signal = k /\ next.pc = "report"
    BY <1>1, <1>5 DEF RunFields
  <2>8. /\ row.status \in {"executed", "rejected"} /\ k \in Nat /\ signals'[k] = row
        /\ DOMAIN signals' = DOMAIN signals \cup {k} /\ Len(signals') >= Len(signals)
    <3>1. row.status \in {"executed", "rejected"}
      BY <2>4
    <3>2. k \in Nat /\ signals'[k] = row
      BY <1>1, <2>2, <2>3
    <3>3. Len(signals') >= Len(signals)
      BY <1>1, <2>3
    <3>4. DOMAIN signals' = DOMAIN signals \cup {k}
      BY ONLY <2>2, <2>3
    <3> QED
      BY ONLY <3>1, <3>2, <3>3, <3>4
  <2>9. SettlesRow(r, k, row) /\ OpensFor(k, row.status, pos) /\ WillReport(r, k, next)
    BY <1>1, <1>3, <2>1, <2>2, <2>3, <2>4, <2>5, <2>6, <2>7, <2>8 DEF SettlesRow, WillReport
  <2>10. ASSUME row.status = "executed" PROVE DeskLimits(pos)
    <3>1. run.pc = "fill"
      BY <1>1, <2>4, <2>10
    <3>2. Order(r).fill = Order(r).price /\ Order(r).margin = MaxMargin * Unit
          /\ Order(r).loss = MaxDailyLoss * Unit
      BY <1>5 DEF Order
    <3> QED
      BY <1>2, <3>1, <3>2 DEF DeskLimits
  <2> QED
    BY <1>1, <2>9, <2>10, Settles
<1> QED
  BY <1>4, <1>5

\* The outcome is noted on the row the run has settled.
LEMMA ReportStep == ASSUME SpotInv, NEW r \in Runners, Report(r) PROVE SpotInv'
<1> USE DEF SpotInv
<1> PICK i : i = runs[r].signal
  OBVIOUS
<1> PICK row : row = [signals[i] EXCEPT !.result = Outcome(signals[i])]
  OBVIOUS
<1> PICK next : next = [NoRun EXCEPT !.pc = "check", !.todo = Tail(runs[r].todo)]
  OBVIOUS
<1>1. /\ clock' = clock /\ closes' = closes /\ positions' = positions
      /\ signals' = [signals EXCEPT ![i] = row] /\ runs' = [runs EXCEPT ![r] = next]
  BY DEF Report
<1>2. /\ IsSeq(signals') /\ Len(signals') = Len(signals) /\ DOMAIN signals' = DOMAIN signals
      /\ \A j \in DOMAIN signals : signals'[j] = IF j = i THEN row ELSE signals[j]
  <2>1. IsSeq(signals) /\ signals' = [signals EXCEPT ![i] = row]
    BY <1>1 DEF SpotShape
  <2> QED
    BY ONLY <2>1, Replaced
<1>3. /\ i \in DOMAIN signals /\ signals[i].status \in {"executed", "rejected"}
      /\ DOMAIN signals[i] = SignalFields
  BY DEF Report, ClaimsOK, SpotShape
<1>4. /\ DOMAIN row = SignalFields /\ row.result = Outcome(signals[i])
      /\ row.status = signals[i].status /\ row.key = signals[i].key /\ row.at = signals[i].at
      /\ row.seen = signals[i].seen /\ row.price = signals[i].price /\ row.amount = signals[i].amount
  BY <1>3 DEF SignalFields
<1>5. \A j \in DOMAIN signals :
        /\ DOMAIN signals'[j] = SignalFields
        /\ signals'[j].status = signals[j].status /\ signals'[j].key = signals[j].key
        /\ signals'[j].at = signals[j].at /\ signals'[j].seen = signals[j].seen
        /\ signals'[j].price = signals[j].price /\ signals'[j].amount = signals[j].amount
  BY <1>2, <1>4 DEF SpotShape
<1>6. /\ DOMAIN runs' = Runners /\ runs'[r] = next
      /\ \A s \in Runners : s # r => runs'[s] = runs[s]
  BY <1>1, RunBecomes
<1>7. DOMAIN next = RunFields /\ next.pc = "check" /\ next.seen = 0 /\ next.signal = 0
  BY DEF NoRun, RunFields
<1>8. SpotShape'
  BY <1>1, <1>2, <1>5, <1>6, <1>7 DEF SpotShape
<1>9. LooksOK'
  <2>1. \A s \in Runners : runs'[s].pc = "create" => runs'[s] = runs[s]
    BY <1>6, <1>7
  <2> QED
    <3>1. clock' = clock /\ Len(signals') = Len(signals) /\ DOMAIN signals' = DOMAIN signals
          /\ \A j \in DOMAIN signals : signals'[j].key = signals[j].key /\ signals'[j].at = signals[j].at
      BY <1>1, <1>2, <1>5
    <3>2. LooksOK
      OBVIOUS
    <3> QED
      BY ONLY <2>1, <3>1, <3>2 DEF LooksOK
<1>10. ClaimsOK'
  <2>1. \A s \in Runners : Executing(s)' => runs'[s] = runs[s] /\ Executing(s)
    BY <1>6, <1>7 DEF Executing
  <2>2. \A s \in Runners : runs'[s].pc = "report" => runs'[s] = runs[s]
    BY <1>6, <1>7
  <2> QED
    BY <1>2, <1>5, <2>1, <2>2 DEF ClaimsOK
<1>11. PairsOK'
  <2>1. /\ Outcome(signals[i]) = "paper_executed" => signals[i].status = "executed"
        /\ Outcome(signals[i]) = "rejected" => signals[i].status = "rejected"
    BY <1>3 DEF Outcome
  <2>2. \A j \in DOMAIN signals :
            /\ signals'[j].result = "paper_executed" => signals'[j].status = "executed"
            /\ signals'[j].result = "rejected" => signals'[j].status = "rejected"
    <3> SUFFICES ASSUME NEW j \in DOMAIN signals
                 PROVE  /\ signals'[j].result = "paper_executed" => signals'[j].status = "executed"
                        /\ signals'[j].result = "rejected" => signals'[j].status = "rejected"
      OBVIOUS
    <3>1. CASE j = i
      <4>1. signals'[j] = row
        BY <1>2, <3>1
      <4> QED
        BY <1>4, <2>1, <4>1
    <3>2. CASE j # i
      <4>1. signals'[j] = signals[j]
        BY <1>2, <3>2
      <4> QED
        BY <4>1 DEF PairsOK
    <3> QED
      BY <3>1, <3>2
  <2> QED
    <3>1. positions' = positions /\ DOMAIN signals' = DOMAIN signals
          /\ \A j \in DOMAIN signals : signals'[j].status = signals[j].status
      BY <1>1, <1>2, <1>5
    <3>2. PairsOK
      OBVIOUS
    <3> QED
      BY ONLY <2>2, <3>1, <3>2 DEF PairsOK
<1>12. ApprovalsOK'
  <2>1. ASSUME NEW s \in Runners, runs'[s].pc = "fill"
        PROVE  /\ runs'[s] = runs[s]
               /\ Order(s)' = Order(s)
    <3>1. runs'[s] = runs[s]
      BY <1>6, <1>7, <2>1
    <3>2. runs[s].signal = 0 \/ runs[s].signal \in DOMAIN signals
      BY <2>1, <3>1 DEF ClaimsOK, Executing
    <3> QED
      BY <1>5, <3>1, <3>2 DEF Order
  <2>2. DailyPnl' = DailyPnl
    BY <1>1 DEF DailyPnl
  <2>3. \A m \in DOMAIN positions :
            signals'[positions[m].signal].key = signals[positions[m].signal].key
    BY <1>5 DEF PairsOK
  <2> QED
    BY <1>1, <2>1, <2>2, <2>3 DEF ApprovalsOK
<1>13. DuplicateOnlyByOverlap'
  BY <1>2, <1>5 DEF DuplicateOnlyByOverlap
<1> QED
  BY <1>8, <1>9, <1>10, <1>11, <1>12, <1>13

\* A close changes nothing of a position but its status and its result, and every order
\* checked before it has been overtaken.
LEMMA CloseEndStep == ASSUME SpotInv, NEW r \in Runners, CloseEnd(r) PROVE SpotInv'
<1> USE DEF SpotInv
<1> PICK i : i = runs[r].signal
  OBVIOUS
<1>1. /\ clock' = clock /\ closes' = closes + 1 /\ signals' = signals
      /\ runs' = [runs EXCEPT ![r] = NoRun] /\ closes \in Nat
  BY DEF CloseEnd, SpotShape
<1>2. PICK pnl : positions' = [positions EXCEPT ![i].status = "closed", ![i].pnl = pnl]
  <2>1. PICK price \in ClosePrices :
           positions' = [positions EXCEPT ![i].status = "closed",
                            ![i].pnl = IF (price - positions[i].entry) * positions[i].amount = 0 THEN @
                                       ELSE (price - positions[i].entry) * positions[i].amount]
    BY DEF CloseEnd
  <2> QED
    BY <2>1
<1> PICK row : row = [positions[i] EXCEPT !.status = "closed", !.pnl = pnl]
  OBVIOUS
<1>3. positions' = [positions EXCEPT ![i] = row]
  BY <1>2
<1>4. /\ IsSeq(positions') /\ DOMAIN positions' = DOMAIN positions
      /\ \A k \in DOMAIN positions : positions'[k] = IF k = i THEN row ELSE positions[k]
  <2>1. IsSeq(positions)
    BY DEF SpotShape
  <2> QED
    BY ONLY <1>3, <2>1, Replaced
<1>5. ASSUME NEW k \in DOMAIN positions
      PROVE  /\ DOMAIN positions'[k] = PositionFields
             /\ positions'[k].signal = positions[k].signal
             /\ positions'[k].entry = positions[k].entry /\ positions'[k].amount = positions[k].amount
             /\ positions'[k].before = positions[k].before
             /\ positions'[k].overtaken = positions[k].overtaken
             /\ positions'[k].order = positions[k].order
  <2>1. DOMAIN positions[k] = PositionFields
    BY DEF SpotShape
  <2>2. CASE k = i
    BY <1>4, <2>1, <2>2 DEF PositionFields
  <2>3. CASE k # i
    BY <1>4, <2>1, <2>3
  <2> QED
    BY <2>2, <2>3
<1>6. /\ DOMAIN runs' = Runners /\ runs'[r] = NoRun
      /\ \A s \in Runners : s # r => runs'[s] = runs[s]
  BY <1>1, RunBecomes
<1>7. DOMAIN NoRun = RunFields /\ NoRun.pc = "idle" /\ NoRun.seen = 0 /\ NoRun.signal = 0
  BY DEF NoRun, RunFields
<1>8. SpotShape'
  BY <1>1, <1>4, <1>5, <1>6, <1>7 DEF SpotShape
<1>9. LooksOK' /\ ClaimsOK'
  <2>1. \A s \in Runners : runs'[s].pc # "idle" => runs'[s] = runs[s]
    BY <1>6, <1>7
  <2>2. \A s \in Runners : Executing(s)' => runs'[s] = runs[s] /\ Executing(s)
    BY <2>1 DEF Executing
  <2> QED
    BY <1>1, <2>1, <2>2 DEF LooksOK, ClaimsOK
<1>10. PairsOK'
  BY <1>1, <1>4, <1>5 DEF PairsOK
<1>11. ApprovalsOK'
  <2>1. ASSUME NEW s \in Runners, runs'[s].pc = "fill"
        PROVE  runs'[s] = runs[s] /\ Order(s)' = Order(s)
    BY <1>1, <1>6, <1>7, <2>1 DEF Order
  <2>2. ASSUME NEW s \in Runners, runs[s].pc = "fill"
        PROVE  runs[s].seen <= closes' /\ closes' > runs[s].seen
    <3>1. runs[s].seen \in Nat /\ runs[s].seen <= closes
      BY <2>2 DEF ApprovalsOK, SpotShape
    <3> QED
      BY <1>1, <3>1
  <2>3. \A k \in DOMAIN positions :
            /\ OwnLimits(positions'[k])
            /\ signals'[positions'[k].signal].key # << >> => DeskLimits(positions'[k])
    BY <1>1, <1>5 DEF ApprovalsOK, OwnLimits, DeskLimits
  <2> QED
    BY <1>4, <2>1, <2>2, <2>3 DEF ApprovalsOK
<1>12. DuplicateOnlyByOverlap'
  BY <1>1 DEF DuplicateOnlyByOverlap
<1> QED
  BY <1>8, <1>9, <1>10, <1>11, <1>12

-----------------------------------------------------------------------------
\* Every step of the desk.
LEMMA StepInv == SpotInv /\ [SpotNext]_spotVars => SpotInv'
<1> SUFFICES ASSUME SpotInv, [SpotNext]_spotVars PROVE SpotInv'
  OBVIOUS
<1>1. CASE \/ SpotCycle \/ SpotRestart \/ SpotTick \/ UNCHANGED spotVars
           \/ \E p \in SpotPairs : SpotStart(p) \/ SpotAnswer(p) \/ SpotFail(p) \/ ScannerRun(p)
  BY <1>1, QuietSteps
<1>2. ASSUME NEW r \in Runners,
             \/ RequestRun(r) \/ EndRun(r) \/ Raise(r) \/ CloseBegin(r)
             \/ \E order \in ManualOrders : Manual(r, order)
      PROVE  SpotInv'
  BY <1>2, QuietSteps
<1>3. ASSUME NEW r \in Runners,
             CheckNext(r) \/ Create(r) \/ Judge(r) \/ Settle(r) \/ Report(r) \/ CloseEnd(r)
      PROVE  SpotInv'
  BY <1>3, CheckStep, CreateStep, JudgeStep, SettleStep, ReportStep, CloseEndStep
<1> QED
  BY <1>1, <1>2, <1>3 DEF SpotNext

\* The inductive invariant: what each run has looked at, holds and was allowed, between
\* two commits of run_once, validate_signal and execute_existing_signal.
THEOREM SpotRuns == SpotSpec => []SpotInv
<1> QED
  BY InitSpot, StepInv, PTL DEF SpotSpec

\* Two signals of one opportunity within its cool-down come from runs that overlapped
\* (_is_on_cooldown), whatever restarts and failures came between.
THEOREM NoOtherDuplicate == SpotSpec => []DuplicateOnlyByOverlap
<1>1. SpotInv => DuplicateOnlyByOverlap
  BY DEF SpotInv
<1> QED
  BY SpotRuns, <1>1, PTL

\* An executed signal has one position and no other has any; the opportunity tells the
\* outcome.  A position was within the limits its own order left in force, at the price
\* the order names, unless a close was committed between its check and its fill; that of
\* a signal of the desk is within the configured limits at the price it was filled at
\* (validate_signal, execute_existing_signal).  Of the price a manual order is filled at
\* nothing is claimed.
THEOREM EveryOrderBacked == SpotSpec => []OrdersBacked
<1>1. SpotInv => OrdersBacked
  <2> SUFFICES ASSUME SpotInv PROVE OrdersBacked
    OBVIOUS
  <2>1. ASSUME NEW i \in DOMAIN signals
        PROVE  Cardinality({k \in DOMAIN positions : positions[k].signal = i})
                  = (IF signals[i].status = "executed" THEN 1 ELSE 0)
    <3>1. CASE signals[i].status = "executed"
      <4>1. PICK k \in DOMAIN positions : positions[k].signal = i
        BY <3>1 DEF SpotInv, PairsOK
      <4>2. {m \in DOMAIN positions : positions[m].signal = i} = {k}
        BY <4>1 DEF SpotInv, PairsOK
      <4> QED
        BY <3>1, <4>2, FS_Singleton
    <3>2. CASE signals[i].status # "executed"
      <4>1. {m \in DOMAIN positions : positions[m].signal = i} = {}
        BY <3>2 DEF SpotInv, PairsOK
      <4> QED
        BY <3>2, <4>1, FS_EmptySet
    <3> QED
      BY <3>1, <3>2
  <2> QED
    BY <2>1 DEF SpotInv, PairsOK, ApprovalsOK, OrdersBacked
<1> QED
  BY SpotRuns, <1>1, PTL
================================================================================
