---------------------------- MODULE TradeBookProofs ----------------------------
(***************************************************************************)
(* Proofs about TradeBook that runs of a strategy are kept apart, for any  *)
(* number of forward tests, timers, requests and runs, and that losses     *)
(* stay within their limits, for any amounts and number of trades.         *)
(***************************************************************************)
EXTENDS TradeBook, WellFoundedInduction, TLAPS

-----------------------------------------------------------------------------
Statuses == {"running", "stopped", "completed"}
Ladders == [stopped: BOOLEAN, losses: Int,
            reason: {"none", "manual_stop", "max_recovery_pause", "forward_test_completed"}]

\* The shapes of what the runs are kept in; a test that has read holds images.
RunShape ==
    /\ strategyRuns \in Seq(Statuses) /\ Len(strategyRuns) <= TestRuns
    /\ ladder \in Ladders
    /\ crossed \in BOOLEAN
    /\ DOMAIN timers = RunRows

\* A timer goes on for a run that was begun, and has loaded it as the active one unless
\* images were stale before.
TimersOK ==
    \A r \in RunRows :
        /\ timers[r].pc # "none" => r \in DOMAIN strategyRuns
        /\ timers[r].pc = "loaded" /\ ~crossed => timers[r].run = r

BookInv == RunShape /\ TimersOK /\ RunsKeepApart

-----------------------------------------------------------------------------
\* The newest run that is running is the only one, or there is none.
LEMMA ActiveIsOnly ==
    ASSUME BookInv, ~crossed
    PROVE  /\ ActiveRun \in {0} \cup DOMAIN strategyRuns
           /\ \A r \in DOMAIN strategyRuns : strategyRuns[r] = "running" => ActiveRun = r
<1> DEFINE running == {r \in DOMAIN strategyRuns : strategyRuns[r] = "running"}
<1>1. \A r \in running : r = Len(strategyRuns) /\ r \in Int
  BY DEF BookInv, RunsKeepApart, RunShape
<1>2. CASE running = {}
  BY <1>2 DEF ActiveRun
<1>3. CASE running # {}
  <2>1. PICK n \in running : running = {n} /\ n \in Int
    BY <1>1, <1>3
  <2>2. Max(running) = n
    BY <2>1 DEF Max
  <2>3. ActiveRun = n
    BY <1>3, <2>2 DEF ActiveRun
  <2> QED
    BY <2>1, <2>3
<1> QED
  BY <1>2, <1>3

\* What is left of the runs when the one a thread takes for the active one is ended.
LEMMA EndedRuns ==
    ASSUME NEW rows \in Seq(Statuses), NEW n
    PROVE  /\ Ended(rows, n) \in Seq(Statuses)
           /\ Len(Ended(rows, n)) = Len(rows)
           /\ \A r \in DOMAIN rows :
                 Ended(rows, n)[r] = "running" => rows[r] = "running" /\ (n # 0 => r # n)
<1>1. CASE n = 0
  BY <1>1 DEF Ended
<1>2. CASE n # 0
  <2>1. Ended(rows, n) = [rows EXCEPT ![n] = "stopped"]
    BY <1>2 DEF Ended
  <2>2. rows \in [1..Len(rows) -> Statuses] /\ Len(rows) \in Nat
    OBVIOUS
  <2>3. /\ Ended(rows, n) \in [1..Len(rows) -> Statuses]
        /\ \A r \in 1..Len(rows) : Ended(rows, n)[r] = IF r = n THEN "stopped" ELSE rows[r]
    BY <2>1, <2>2 DEF Statuses
  <2>4. Ended(rows, n) \in Seq(Statuses) /\ Len(Ended(rows, n)) = Len(rows)
    BY <2>2, <2>3
  <2> QED
    BY <1>2, <2>3, <2>4
<1> QED
  BY <1>1, <1>2

LEMMA LadderKept ==
    ASSUME NEW l \in Ladders PROVE Going(l) \in Ladders /\ Going(l).reason = "none"
BY DEF Going, Ladders

LEMMA InitBook == BookInit => BookInv
<1> SUFFICES ASSUME BookInit PROVE BookInv
  OBVIOUS
<1>1. RunShape
  <2>1. strategyRuns \in Seq(Statuses) /\ Len(strategyRuns) = 0 /\ 0 <= TestRuns
    BY TradeBookAssumption DEF BookInit
  <2>2. ladder \in Ladders
    BY DEF BookInit, Ladders
  <2>3. crossed \in BOOLEAN /\ DOMAIN timers = RunRows
    BY DEF BookInit
  <2> QED
    BY <2>1, <2>2, <2>3 DEF RunShape
<1>2. TimersOK
  BY DEF BookInit, TimersOK, NoTimer
<1>3. RunsKeepApart
  BY DEF BookInit, RunsKeepApart
<1> QED
  BY <1>1, <1>2, <1>3 DEF BookInv

-----------------------------------------------------------------------------
\* A step that leaves the timers, the tests' history and the number of the runs, ends
\* none or the active one, and sets no reason of a forward test.
LEMMA QuietStep ==
    ASSUME BookInv, UNCHANGED <<timers, crossed>>, ladder' \in Ladders,
           ladder'.reason \in {ladder.reason, "none", "manual_stop", "max_recovery_pause"},
           strategyRuns' \in {strategyRuns, Ended(strategyRuns, ActiveRun)}
    PROVE  BookInv'
<1>1. strategyRuns \in Seq(Statuses) /\ Len(strategyRuns) <= TestRuns
  BY DEF BookInv, RunShape
<1>2. /\ strategyRuns' \in Seq(Statuses) /\ Len(strategyRuns') = Len(strategyRuns)
      /\ \A r \in DOMAIN strategyRuns : strategyRuns'[r] = "running" => strategyRuns[r] = "running"
  BY <1>1, EndedRuns
<1>3. RunShape'
  BY <1>1, <1>2 DEF BookInv, RunShape
<1>4. DOMAIN strategyRuns' = DOMAIN strategyRuns
  BY <1>1, <1>2
<1>5. TimersOK'
  BY <1>4 DEF BookInv, TimersOK
<1>6. RunsKeepApart'
  BY <1>2, <1>4 DEF BookInv, RunsKeepApart
<1> QED
  BY <1>3, <1>5, <1>6 DEF BookInv

\* A run begins: the one a thread takes for the active one is ended, and the reason of
\* an ended forward test is gone unless the image of the state was stale.
LEMMA BeginStep ==
    ASSUME BookInv, NEW n, strategyRuns' = Append(Ended(strategyRuns, n), "running"),
           Len(strategyRuns) < TestRuns, ladder' \in Ladders, crossed' \in BOOLEAN,
           crossed => crossed',
           ~crossed' => n = ActiveRun /\ ladder'.reason # "forward_test_completed",
           DOMAIN timers' = RunRows,
           \A r \in RunRows : timers'[r] = timers[r]
                                \/ (r = Len(strategyRuns) + 1 /\ timers'[r].pc = "waiting")
    PROVE  BookInv'
<1>1. strategyRuns \in Seq(Statuses) /\ Len(strategyRuns) \in Nat /\ crossed \in BOOLEAN
  BY DEF BookInv, RunShape
<1> PICK rows : rows = Ended(strategyRuns, n)
  OBVIOUS
<1>2. /\ rows \in Seq(Statuses) /\ Len(rows) = Len(strategyRuns)
      /\ \A r \in DOMAIN strategyRuns : rows[r] = "running" => strategyRuns[r] = "running"
                                                               /\ (n # 0 => r # n)
  BY <1>1, EndedRuns
<1>3. /\ strategyRuns' \in Seq(Statuses) /\ Len(strategyRuns') = Len(strategyRuns) + 1
      /\ \A r \in DOMAIN strategyRuns : strategyRuns'[r] = rows[r]
      /\ DOMAIN strategyRuns' = DOMAIN strategyRuns \cup {Len(strategyRuns')}
  BY <1>1, <1>2 DEF Statuses
<1>4. RunShape'
  <2>1. TestRuns \in Nat
    BY TradeBookAssumption
  <2> QED
    BY <1>1, <1>3, <2>1 DEF BookInv, RunShape
<1>5. TimersOK'
  BY <1>1, <1>3 DEF BookInv, TimersOK
<1>6. RunsKeepApart'
  <2>1. ASSUME ~crossed', NEW r \in DOMAIN strategyRuns, strategyRuns[r] = "running"
        PROVE  n = r /\ n # 0
    <3>1. ~crossed /\ n = ActiveRun
      BY <2>1
    <3>2. r # 0
      BY <1>1, <2>1
    <3> QED
      BY <2>1, <3>1, <3>2, ActiveIsOnly
  <2>2. ASSUME ~crossed', NEW r \in DOMAIN strategyRuns', strategyRuns'[r] = "running"
        PROVE  r = Len(strategyRuns')
    BY <1>2, <1>3, <2>1, <2>2
  <2> QED
    BY <2>2 DEF RunsKeepApart
<1> QED
  BY <1>4, <1>5, <1>6 DEF BookInv

-----------------------------------------------------------------------------
\* The requests, by what they do to the runs and to the reason.
LEMMA RequestStep ==
    ASSUME BookInv, RunNext
    PROVE  BookInv'
<1>1. ladder \in Ladders
  BY DEF BookInv, RunShape
<1>2. CASE StartPaper
  <2>1. /\ strategyRuns' = Append(Ended(strategyRuns, ActiveRun), "running")
        /\ Len(strategyRuns) < TestRuns /\ UNCHANGED <<timers, crossed>>
    BY <1>2 DEF StartPaper
  <2>2. ladder' \in Ladders /\ ladder'.reason = "none"
    <3> PICK going \in Ladders : going = Going(ladder) /\ going.reason = "none"
      BY <1>1, LadderKept
    <3>1. ladder' = [going EXCEPT !.losses = 0] \/ ladder' = [going EXCEPT !.losses = @]
      BY <1>2 DEF StartPaper
    <3> QED
      BY ONLY <3>1, going \in Ladders, going.reason = "none" DEF Ladders
  <2> QED
    BY <2>1, <2>2, BeginStep DEF BookInv, RunShape
<1>3. CASE StopPaper \/ NextSession \/ ResumeStrategy
           \/ \E enabled \in BOOLEAN, risk \in Risks : PatchConfig(enabled, risk)
  <2>1. /\ UNCHANGED <<timers, crossed>>
        /\ strategyRuns' \in {strategyRuns, Ended(strategyRuns, ActiveRun)}
    BY <1>3 DEF StopPaper, NextSession, ResumeStrategy, PatchConfig
  <2>2. /\ ladder' \in Ladders
        /\ ladder'.reason \in {ladder.reason, "none", "manual_stop", "max_recovery_pause"}
    <3>1. CASE StopPaper \/ ResumeStrategy
      <4> PICK going \in Ladders : going = Going(ladder) /\ going.reason = "none"
        BY <1>1, LadderKept
      <4>1. \/ ladder' = [ladder EXCEPT !.stopped = TRUE, !.reason = "manual_stop"]
            \/ ladder' = [going EXCEPT !.losses = 0]
        BY <3>1 DEF StopPaper, ResumeStrategy
      <4>2. CASE ladder' = [ladder EXCEPT !.stopped = TRUE, !.reason = "manual_stop"]
        BY ONLY <1>1, <4>2 DEF Ladders
      <4>3. CASE ladder' = [going EXCEPT !.losses = 0]
        BY ONLY <4>3, going \in Ladders, going.reason = "none" DEF Ladders
      <4> QED
        BY <4>1, <4>2, <4>3
    <3>2. CASE NextSession
      BY <3>2 DEF NextSession, Ladders
    <3>3. CASE \E enabled \in BOOLEAN, risk \in Risks : PatchConfig(enabled, risk)
      BY <1>1, <3>3 DEF PatchConfig
    <3> QED
      BY <1>3, <3>1, <3>2, <3>3
  <2> QED
    BY <2>1, <2>2, QuietStep
<1> QED
  BY <1>2, <1>3 DEF RunNext

LEMMA TradeStep == ASSUME BookInv, TradeNext PROVE BookInv'
<1>1. ladder \in Ladders
  BY DEF BookInv, RunShape
<1>2. CASE \E i \in DOMAIN tradeRows : CloseEntry(i)
  <2>1. PICK pnl : /\ BookClose(pnl) /\ UNCHANGED <<timers, crossed>>
    BY <1>2 DEF CloseEntry
  <2>2. strategyRuns' \in {strategyRuns, Ended(strategyRuns, ActiveRun)}
    BY <2>1 DEF BookClose
  <2>3. /\ ladder' \in Ladders
        /\ ladder'.reason \in {ladder.reason, "none", "manual_stop", "max_recovery_pause"}
    <3>1. PICK stopped, reason, losses :
            /\ ladder' = [stopped |-> stopped, reason |-> reason, losses |-> losses]
            /\ stopped \in {ladder.stopped, TRUE, FALSE}
            /\ reason \in {ladder.reason, "none", "max_recovery_pause"}
            /\ losses \in {0, ladder.losses + 1}
      <4> DEFINE pauses == pnl <= 0 /\ ladder.losses + 1 >= MaxStreak
                 kept == [stopped |-> ladder.stopped, reason |-> ladder.reason]
                 flags == IF ~conf.enabled THEN kept
                          ELSE IF pnl > 0 THEN [stopped |-> FALSE, reason |-> "none"]
                          ELSE IF pauses THEN [stopped |-> TRUE, reason |-> "max_recovery_pause"]
                          ELSE kept
      <4>1. ladder' = [stopped |-> flags.stopped, reason |-> flags.reason,
                       losses |-> IF pnl > 0 \/ pauses THEN 0 ELSE ladder.losses + 1]
        BY <2>1 DEF BookClose
      <4>2. flags \in {kept, [stopped |-> FALSE, reason |-> "none"],
                      [stopped |-> TRUE, reason |-> "max_recovery_pause"]}
        OBVIOUS
      <4>3. /\ flags.stopped \in {ladder.stopped, TRUE, FALSE}
            /\ flags.reason \in {ladder.reason, "none", "max_recovery_pause"}
        BY <4>2
      <4> HIDE DEF flags, pauses
      <4> QED
        BY <4>1, <4>3
    <3>2. /\ ladder.stopped \in BOOLEAN /\ ladder.losses \in Int
          /\ ladder.reason \in {"none", "manual_stop", "max_recovery_pause", "forward_test_completed"}
      BY <1>1 DEF Ladders
    <3>3. /\ stopped \in BOOLEAN /\ losses \in Int
          /\ reason \in {"none", "manual_stop", "max_recovery_pause", "forward_test_completed"}
      <4>1. stopped \in BOOLEAN
        BY ONLY <3>1, <3>2
      <4>2. losses \in Int
        BY ONLY <3>1, <3>2
      <4>3. reason \in {"none", "manual_stop", "max_recovery_pause", "forward_test_completed"}
        BY ONLY <3>1, <3>2
      <4> QED
        BY <4>1, <4>2, <4>3
    <3>4. ladder' \in Ladders /\ ladder'.reason = reason
      BY ONLY <3>1, <3>3 DEF Ladders
    <3> QED
      BY <3>1, <3>4
  <2> QED
    BY <2>1, <2>2, <2>3, QuietStep
<1>3. CASE UNCHANGED runVars
  BY <1>1, <1>3, QuietStep DEF runVars
<1> QED
  BY <1>2, <1>3 DEF TradeNext, OpenEntry, ArchiveAll, UnarchiveAll, DeleteAllArchived, TickBook,
                    ArchiveTrade, DeleteArchived, Archived, Deleted

-----------------------------------------------------------------------------
\* Forward tests: what is written on fresh images ends the run that is active.
LEMMA TestStep == ASSUME BookInv, TestNext PROVE BookInv'
<1>1. /\ ladder \in Ladders /\ strategyRuns \in Seq(Statuses) /\ Len(strategyRuns) \in Nat
      /\ crossed \in BOOLEAN /\ DOMAIN timers = RunRows
  BY DEF BookInv, RunShape
<1>2. CASE \E f \in Testers : TestRead(f) \/ \E risk \in Risks : TestLoad(f, risk)
  BY <1>1, <1>2, QuietStep DEF TestRead, TestLoad
<1>3. ASSUME NEW f \in Testers, TestCommit(f) PROVE BookInv'
  <2> PICK t : t = tests[f]
    OBVIOUS
  <2>1. /\ Len(strategyRuns) < TestRuns
        /\ ladder' = [ladder EXCEPT !.stopped = IF t.ladder.stopped THEN FALSE ELSE @,
                                    !.reason = IF t.ladder.reason # "none" THEN "none" ELSE @]
        /\ strategyRuns' = Append(Ended(strategyRuns, t.run), "running")
        /\ timers' = [timers EXCEPT ![Len(strategyRuns) + 1] = [pc |-> "waiting"]]
        /\ crossed' = (crossed \/ t.conf # conf \/ t.ladder # ladder \/ t.run # ActiveRun)
    BY <1>3 DEF TestCommit
  <2>2. ladder' \in Ladders /\ (t.ladder = ladder => ladder'.reason = "none")
    BY <1>1, <2>1 DEF Ladders
  <2>3. /\ DOMAIN timers' = RunRows
        /\ \A r \in RunRows : timers'[r] = timers[r]
                                \/ (r = Len(strategyRuns) + 1 /\ timers'[r].pc = "waiting")
    BY <1>1, <2>1
  <2>4. /\ crossed' \in BOOLEAN /\ (crossed => crossed')
        /\ ~crossed' => t.run = ActiveRun /\ ladder'.reason # "forward_test_completed"
    BY <2>1, <2>2
  <2> QED
    BY <2>1, <2>2, <2>3, <2>4, BeginStep
<1>4. ASSUME NEW r \in RunRows, TimerLoad(r) PROVE BookInv'
  <2>1. /\ UNCHANGED <<ladder, strategyRuns, crossed>> /\ timers[r].pc = "waiting"
        /\ timers' = [timers EXCEPT ![r] =
             IF StillRuns(r) THEN [pc |-> "loaded", conf |-> conf, ladder |-> ladder, run |-> ActiveRun]
                             ELSE NoTimer]
    BY <1>4 DEF TimerLoad
  <2>2. r \in DOMAIN strategyRuns
    BY <2>1 DEF BookInv, TimersOK
  <2>3. StillRuns(r) /\ ~crossed => ActiveRun = r
    BY <2>2, ActiveIsOnly DEF StillRuns
  <2>4. \/ timers'[r] = NoTimer
        \/ /\ timers'[r].pc = "loaded" /\ timers'[r].run = ActiveRun /\ StillRuns(r)
    BY <1>1, <2>1
  <2>5. /\ DOMAIN timers' = RunRows
        /\ \A q \in RunRows : q # r => timers'[q] = timers[q]
    BY <1>1, <2>1
  <2>6. TimersOK'
    BY <2>1, <2>2, <2>3, <2>4, <2>5 DEF BookInv, TimersOK, NoTimer
  <2> QED
    BY <2>1, <2>5, <2>6 DEF BookInv, RunShape, RunsKeepApart
<1>5. ASSUME NEW r \in RunRows, TimerCommit(r) PROVE BookInv'
  <2> PICK t : t = timers[r]
    OBVIOUS
  <2>1. /\ t.pc = "loaded"
        /\ strategyRuns' = [strategyRuns EXCEPT ![r] = "completed"]
        /\ ladder' = [ladder EXCEPT !.stopped = IF t.ladder.stopped THEN @ ELSE TRUE,
                                    !.reason = "forward_test_completed"]
        /\ timers' = [timers EXCEPT ![r] = NoTimer]
        /\ crossed' = (crossed \/ t.conf # conf \/ t.ladder # ladder \/ t.run # ActiveRun)
    BY <1>5 DEF TimerCommit
  <2>2. r \in DOMAIN strategyRuns /\ (~crossed => t.run = r)
    BY <2>1 DEF BookInv, TimersOK
  <2>3. /\ strategyRuns' \in Seq(Statuses) /\ Len(strategyRuns') = Len(strategyRuns)
        /\ \A q \in DOMAIN strategyRuns :
              strategyRuns'[q] = "running" => q # r /\ strategyRuns[q] = "running"
    BY <1>1, <2>1, <2>2 DEF Statuses
  <2>4. DOMAIN strategyRuns' = DOMAIN strategyRuns
    BY <1>1, <2>3
  <2>5. RunShape'
    <3>1. ladder' \in Ladders /\ DOMAIN timers' = RunRows /\ crossed' \in BOOLEAN
      <4>1. \E stopped \in BOOLEAN : ladder' = [ladder EXCEPT !.stopped = stopped,
                                                            !.reason = "forward_test_completed"]
        BY <1>1, <2>1 DEF Ladders
      <4> QED
        BY <1>1, <2>1, <4>1 DEF Ladders
    <3> QED
      BY <2>3, <3>1 DEF BookInv, RunShape
  <2>6. \A q \in RunRows : timers'[q] = timers[q] \/ timers'[q] = NoTimer
    BY <1>1, <2>1
  <2>7. TimersOK'
    <3>1. (crossed => crossed') /\ NoTimer.pc = "none" /\ TimersOK
      BY <2>1 DEF BookInv, NoTimer
    <3> QED
      BY ONLY <2>4, <2>6, <3>1 DEF TimersOK
  <2>8. RunsKeepApart'
    <3>1. ASSUME ~crossed', NEW q \in DOMAIN strategyRuns, strategyRuns'[q] = "running"
          PROVE  FALSE
      <4>1. ~crossed /\ ActiveRun = r
        BY <2>1, <2>2, <3>1
      <4>2. ActiveRun = q /\ q # r
        BY <2>3, <3>1, <4>1, ActiveIsOnly
      <4> QED
        BY <4>1, <4>2
    <3> QED
      BY <2>4, <3>1 DEF RunsKeepApart
  <2> QED
    BY <2>5, <2>7, <2>8 DEF BookInv
<1>6. CASE RestartBook
  <2>1. UNCHANGED <<ladder, strategyRuns, crossed>> /\ timers' = [r \in RunRows |-> NoTimer]
    BY <1>6 DEF RestartBook
  <2> QED
    BY <2>1 DEF BookInv, RunShape, TimersOK, RunsKeepApart, NoTimer
<1> QED
  BY <1>2, <1>3, <1>4, <1>5, <1>6 DEF TestNext

-----------------------------------------------------------------------------
\* Whoever starts, stops, pauses or tests the strategy, and wherever a restart forgets a
\* timer: on images that were fresh, one run at most is running, the newest, and none in
\* a strategy its timer has stopped (run_forward_test, the timer thread, active_run).
THEOREM RunsApart == BookSpec => []RunsKeepApart
<1>1. BookInit => BookInv
  BY InitBook
<1>2. BookInv /\ [BookNext]_bookVars => BookInv'
  <2>1. ASSUME BookInv, UNCHANGED bookVars PROVE BookInv'
    BY <2>1 DEF BookInv, RunShape, TimersOK, RunsKeepApart, bookVars, runVars
  <2> QED
    BY <2>1, RequestStep, TestStep, TradeStep DEF BookNext
<1>3. BookInv => RunsKeepApart
  BY DEF BookInv
<1> QED
  BY <1>1, <1>2, <1>3, PTL DEF BookSpec

-----------------------------------------------------------------------------
\* Induction over the first numbers, as a fact about sets.
LEMMA LeastOne ==
    ASSUME NEW T \in SUBSET Nat, T # {} PROVE \E m \in T : \A k \in T : m <= k
<1> DEFINE Less == {ss \in Nat \X Nat : ss[1] < ss[2]}
<1>1. IsWellFoundedOn(Less, Nat)
  BY NatLessThanWellFounded DEF OpToRel
<1>2. \A k, m \in Nat : k < m => <<k, m>> \in Less
  OBVIOUS
<1> HIDE DEF Less
<1>3. \E m \in T : \A k \in T : ~(<<k, m>> \in Less)
  <2>1. T \subseteq Nat /\ T # {}
    OBVIOUS
  <2> QED
    BY ONLY <1>1, <2>1, WFMin
<1>4. PICK m \in T : \A k \in T : ~(<<k, m>> \in Less)
  BY <1>3
<1>5. ASSUME NEW k \in T PROVE m <= k
  <2>1. k \in Nat /\ m \in Nat /\ ~(k < m)
    BY <1>2, <1>4
  <2> QED
    BY <2>1
<1> QED
  BY <1>5

LEMMA UpTo ==
    ASSUME NEW m \in Nat, NEW T, 0 \in T, \A n \in 1..m : n - 1 \in T => n \in T
    PROVE  \A n \in 0..m : n \in T
<1> DEFINE Bad == {n \in 0..m : n \notin T}
<1>1. SUFFICES ASSUME Bad # {} PROVE FALSE
  OBVIOUS
<1>2. PICK k \in Bad : \A n \in Bad : k <= n
  <2>1. Bad \in SUBSET Nat
    OBVIOUS
  <2> HIDE DEF Bad
  <2> QED
    BY <1>1, <2>1, LeastOne
<1>3. k \in 0..m /\ k \notin T /\ k # 0
  OBVIOUS
<1>4. k - 1 \in 0..m /\ k - 1 \notin Bad /\ k \in 1..m
  BY <1>2, <1>3
<1> QED
  BY <1>3, <1>4

\* What a recursive definition over numbers needs: the function it describes exists.
Steps(m, V, x, G) == m \in Nat /\ x \in V /\ G \in [1..m -> [V -> V]]
Follows(m, V, x, G, f) ==
    f \in [0..m -> V] /\ f[0] = x /\ \A n \in 1..m : f[n] = G[n][f[n - 1]]

LEMMA Recursion ==
    ASSUME NEW m, NEW V, NEW x, NEW G, Steps(m, V, x, G) PROVE \E f : Follows(m, V, x, G, f)
<1> USE DEF Steps
<1> DEFINE Upto(n, f) == f[0] = x /\ \A k \in 1..n : f[k] = G[k][f[k - 1]]
           T == {n \in 0..m : \E f \in [0..n -> V] : Upto(n, f)}
<1>1. 0 \in T
  <2> DEFINE f == [k \in 0..0 |-> x]
  <2>1. 0..0 = {0} /\ 1..0 = {} /\ 0 \in 0..m
    OBVIOUS
  <2>2. f \in [0..0 -> V] /\ f[0] = x
    BY <2>1
  <2>3. Upto(0, f)
    BY <2>1, <2>2
  <2> QED
    BY <2>1, <2>2, <2>3
<1>2. ASSUME NEW n \in 1..m, n - 1 \in T PROVE n \in T
  <2>1. PICK g \in [0..(n - 1) -> V] : Upto(n - 1, g)
    BY <1>2
  <2> DEFINE f == [k \in 0..n |-> IF k = n THEN G[n][g[n - 1]] ELSE g[k]]
  <2>2. g[n - 1] \in V /\ G[n] \in [V -> V]
    OBVIOUS
  <2>3. f \in [0..n -> V]
    <3> SUFFICES ASSUME NEW k \in 0..n PROVE (IF k = n THEN G[n][g[n - 1]] ELSE g[k]) \in V
      OBVIOUS
    <3> QED
      BY <2>2
  <2>4. f[0] = x
    BY <2>1
  <2>5. ASSUME NEW k \in 1..n PROVE f[k] = G[k][f[k - 1]]
    <3>1. CASE k = n
      <4>1. f[k - 1] = g[n - 1]
        BY <3>1
      <4> QED
        BY <3>1, <4>1
    <3>2. CASE k # n
      <4>1. k \in 1..(n - 1) /\ f[k] = g[k] /\ f[k - 1] = g[k - 1]
        BY <3>2
      <4>2. g[k] = G[k][g[k - 1]]
        BY <2>1, <4>1
      <4> QED
        BY <4>1, <4>2
    <3> QED
      BY <3>1, <3>2
  <2>6. n \in 0..m
    OBVIOUS
  <2> QED
    BY <2>3, <2>4, <2>5, <2>6
<1>3. m \in T
  <2>1. m \in 0..m
    OBVIOUS
  <2> HIDE DEF T
  <2> QED
    BY <1>1, <1>2, <2>1, UpTo
<1> QED
  BY <1>3 DEF Follows

-----------------------------------------------------------------------------
\* Sums of amounts.
SumsTo(a, m, f) == f = [n \in 0..m |-> IF n = 0 THEN 0 ELSE f[n - 1] + a[n]]

LEMMA SumIs ==
    ASSUME NEW a \in Seq(Int)
    PROVE  /\ Len(a) \in Nat
           /\ \E f : /\ f[0] = 0 /\ \A n \in 1..Len(a) : f[n] = f[n - 1] + a[n]
                     /\ \A n \in 0..Len(a) : f[n] \in Int
                     /\ SumOf(a) = f[Len(a)]
<1> PICK m : m = Len(a)
  OBVIOUS
<1>1. m \in Nat /\ \A n \in 1..m : a[n] \in Int
  OBVIOUS
<1> DEFINE upTo == CHOOSE f : SumsTo(a, m, f)
<1>2. SumsTo(a, m, upTo)
  <2> DEFINE G == [n \in 1..m |-> [v \in Int |-> v + a[n]]]
  <2>1. G \in [1..m -> [Int -> Int]]
    BY <1>1
  <2>2. \A n \in 1..m : \A v \in Int : G[n][v] = v + a[n]
    OBVIOUS
  <2> HIDE DEF G
  <2>3. PICK f \in [0..m -> Int] : f[0] = 0 /\ \A n \in 1..m : f[n] = G[n][f[n - 1]]
    <3>1. Steps(m, Int, 0, G)
      BY <1>1, <2>1 DEF Steps
    <3>2. \E f : Follows(m, Int, 0, G, f)
      BY ONLY <3>1, Recursion
    <3> QED
      BY <3>2 DEF Follows
  <2>4. \A n \in 0..m : f[n] = IF n = 0 THEN 0 ELSE f[n - 1] + a[n]
    <3> SUFFICES ASSUME NEW n \in 0..m, n # 0 PROVE f[n] = f[n - 1] + a[n]
      BY <2>3
    <3>1. n \in 1..m /\ n - 1 \in 0..m
      BY <1>1
    <3> QED
      BY <2>2, <2>3, <3>1
  <2>5. SumsTo(a, m, f)
    BY <2>4 DEF SumsTo
  <2> QED
    BY <2>5
<1>3. SumOf(a) = upTo[m]
  BY DEF SumOf, SumsTo
<1> PICK f : f = upTo
  OBVIOUS
<1>4. f[0] = 0 /\ \A n \in 1..m : f[n] = f[n - 1] + a[n]
  <2>1. \A n \in 0..m : f[n] = IF n = 0 THEN 0 ELSE f[n - 1] + a[n]
    BY <1>2 DEF SumsTo
  <2> QED
    BY <1>1, <2>1
<1> DEFINE T == {n \in 0..m : f[n] \in Int}
<1>5. 0 \in T /\ \A n \in 1..m : n - 1 \in T => n \in T
  BY <1>1, <1>4
<1>6. \A n \in 0..m : n \in T
  <2> HIDE DEF T
  <2> QED
    BY <1>1, <1>5, UpTo
<1> QED
  BY <1>1, <1>3, <1>4, <1>6

\* Sums are compared amount by amount.
LEMMA SumAtMost ==
    ASSUME NEW a \in Seq(Int), NEW b \in Seq(Int), Len(a) = Len(b),
           \A n \in 1..Len(a) : a[n] <= b[n]
    PROVE  SumOf(a) <= SumOf(b) /\ SumOf(a) \in Int /\ SumOf(b) \in Int
<1> PICK m : m = Len(a)
  OBVIOUS
<1>1. PICK f : /\ f[0] = 0 /\ \A n \in 1..m : f[n] = f[n - 1] + a[n]
               /\ \A n \in 0..m : f[n] \in Int
               /\ SumOf(a) = f[m]
  BY SumIs
<1>2. PICK g : /\ g[0] = 0 /\ \A n \in 1..m : g[n] = g[n - 1] + b[n]
               /\ \A n \in 0..m : g[n] \in Int
               /\ SumOf(b) = g[m]
  BY SumIs
<1>3. m \in Nat /\ \A n \in 1..m : a[n] \in Int /\ b[n] \in Int /\ a[n] <= b[n]
  BY SumIs
<1> DEFINE T == {n \in 0..m : f[n] <= g[n]}
<1>4. 0 \in T
  BY <1>1, <1>2, <1>3
<1>5. ASSUME NEW n \in 1..m, n - 1 \in T PROVE n \in T
  <2>1. n - 1 \in 0..m /\ n \in 0..m /\ f[n - 1] <= g[n - 1]
    BY <1>3, <1>5
  <2>2. /\ f[n] = f[n - 1] + a[n] /\ g[n] = g[n - 1] + b[n] /\ a[n] <= b[n]
        /\ f[n - 1] \in Int /\ g[n - 1] \in Int /\ a[n] \in Int /\ b[n] \in Int
    BY <1>1, <1>2, <1>3, <2>1
  <2> PICK u, v, x, y : u = f[n - 1] /\ v = g[n - 1] /\ x = a[n] /\ y = b[n]
    OBVIOUS
  <2>3. {u, v, x, y} \subseteq Int /\ u <= v /\ x <= y /\ f[n] = u + x /\ g[n] = v + y
    BY <2>1, <2>2
  <2>4. f[n] <= g[n]
    BY ONLY <2>3
  <2> QED
    BY <2>1, <2>4
<1>6. m \in T
  <2>1. m \in 0..m
    BY <1>3
  <2> HIDE DEF T
  <2> QED
    BY <1>3, <1>4, <1>5, <2>1, UpTo
<1> QED
  BY <1>1, <1>2, <1>3, <1>6

LEMMA SumType == ASSUME NEW a \in Seq(Int) PROVE SumOf(a) \in Int
BY SumIs

LEMMA SumOfZeros ==
    ASSUME NEW a \in Seq(Int), \A n \in 1..Len(a) : a[n] = 0 PROVE SumOf(a) = 0
<1> PICK m : m = Len(a)
  OBVIOUS
<1>1. PICK f : /\ f[0] = 0 /\ \A n \in 1..m : f[n] = f[n - 1] + a[n]
               /\ \A n \in 0..m : f[n] \in Int
               /\ SumOf(a) = f[m]
  BY SumIs
<1>2. m \in Nat
  BY SumIs
<1> DEFINE T == {n \in 0..m : f[n] = 0}
<1>3. 0 \in T /\ \A n \in 1..m : n - 1 \in T => n \in T
  BY <1>1, <1>2
<1>4. m \in T
  <2>1. m \in 0..m
    BY <1>2
  <2> HIDE DEF T
  <2> QED
    BY <1>2, <1>3, <2>1, UpTo
<1> QED
  BY <1>1, <1>4

LEMMA SumNotNegative ==
    ASSUME NEW a \in Seq(Int), \A n \in 1..Len(a) : a[n] >= 0 PROVE SumOf(a) >= 0
<1> PICK zeros : zeros = [n \in 1..Len(a) |-> 0]
  OBVIOUS
<1>1. zeros \in Seq(Int) /\ Len(zeros) = Len(a) /\ \A n \in 1..Len(a) : zeros[n] = 0 /\ a[n] \in Int
  BY SumIs
<1>2. SumOf(zeros) = 0
  BY <1>1, SumOfZeros
<1>3. SumOf(zeros) <= SumOf(a) /\ SumOf(a) \in Int
  BY <1>1, SumAtMost
<1> QED
  BY <1>2, <1>3

\* One more amount.
LEMMA SumAppend ==
    ASSUME NEW a \in Seq(Int), NEW x \in Int
    PROVE  SumOf(Append(a, x)) = SumOf(a) + x
<1> PICK m : m = Len(a)
  OBVIOUS
<1> PICK k : k = m + 1
  OBVIOUS
<1> PICK b : b = Append(a, x)
  OBVIOUS
<1>1. /\ m \in Nat /\ b \in Seq(Int) /\ Len(b) = k /\ b[k] = x
      /\ \A n \in 1..m : b[n] = a[n] /\ a[n] \in Int
  BY SumIs
<1>2. k \in 1..k /\ k - 1 = m /\ \A n \in 1..m : n \in 1..k
  BY <1>1
<1>3. PICK f : /\ f[0] = 0 /\ \A n \in 1..m : f[n] = f[n - 1] + a[n]
               /\ \A n \in 0..m : f[n] \in Int
               /\ SumOf(a) = f[m]
  BY SumIs
<1>4. PICK g : /\ g[0] = 0 /\ \A n \in 1..k : g[n] = g[n - 1] + b[n]
               /\ SumOf(b) = g[k]
  BY <1>1, SumIs
<1> DEFINE T == {n \in 0..m : f[n] = g[n]}
<1>5. 0 \in T
  BY <1>1, <1>3, <1>4
<1>6. ASSUME NEW n \in 1..m, n - 1 \in T PROVE n \in T
  <2>1. f[n - 1] = g[n - 1] /\ n \in 0..m
    BY <1>1, <1>6
  <2> QED
    BY <1>1, <1>2, <1>3, <1>4, <2>1
<1>7. m \in T
  <2>1. m \in 0..m
    BY <1>1
  <2> HIDE DEF T
  <2> QED
    BY <1>1, <1>5, <1>6, <2>1, UpTo
<1>8. f[m] = g[m] /\ g[k] = g[m] + x
  BY <1>1, <1>2, <1>4, <1>7
<1> QED
  BY <1>3, <1>4, <1>8

\* One amount becomes another.
LEMMA SumPut ==
    ASSUME NEW a \in Seq(Int), NEW b \in Seq(Int), Len(a) = Len(b), NEW i \in 1..Len(a),
           \A n \in 1..Len(a) : n # i => a[n] = b[n]
    PROVE  SumOf(b) = SumOf(a) - a[i] + b[i]
<1> PICK m : m = Len(a)
  OBVIOUS
<1> PICK x : x = b[i] - a[i]
  OBVIOUS
<1>1. PICK f : /\ f[0] = 0 /\ \A n \in 1..m : f[n] = f[n - 1] + a[n]
               /\ \A n \in 0..m : f[n] \in Int
               /\ SumOf(a) = f[m]
  BY SumIs
<1>2. PICK g : /\ g[0] = 0 /\ \A n \in 1..m : g[n] = g[n - 1] + b[n]
               /\ \A n \in 0..m : g[n] \in Int
               /\ SumOf(b) = g[m]
  BY SumIs
<1>3. m \in Nat /\ x \in Int /\ i \in 1..m /\ \A n \in 1..m : a[n] \in Int /\ b[n] \in Int
  BY SumIs
<1> DEFINE T == {n \in 0..m : g[n] = IF n < i THEN f[n] ELSE f[n] + x}
<1>4. 0 \in T
  BY <1>1, <1>2, <1>3
<1>5. ASSUME NEW n \in 1..m, n - 1 \in T PROVE n \in T
  <2>1. n - 1 \in 0..m /\ n \in 0..m /\ g[n - 1] = IF n - 1 < i THEN f[n - 1] ELSE f[n - 1] + x
    BY <1>3, <1>5
  <2>2. g[n] = g[n - 1] + b[n] /\ f[n] = f[n - 1] + a[n] /\ a[n] \in Int /\ b[n] \in Int
        /\ f[n - 1] \in Int
    BY <1>1, <1>2, <1>3, <2>1
  <2>3. CASE n = i
    <3> PICK u, v, w : u = f[n - 1] /\ v = a[n] /\ w = b[n]
      OBVIOUS
    <3>1. {u, v, w} \subseteq Int /\ x = w - v /\ ~(n < i)
      BY <1>3, <2>2, <2>3
    <3>2. g[n - 1] = u
      BY <1>3, <2>1, <2>3
    <3>3. g[n] = u + w /\ f[n] = u + v
      BY <2>2, <3>2
    <3>4. g[n] = f[n] + x
      BY ONLY <3>1, <3>3
    <3> QED
      BY <2>1, <3>1, <3>4
  <2>4. CASE n # i
    <3>1. a[n] = b[n] /\ (n - 1 < i <=> n < i) /\ x \in Int
      BY <1>3, <2>4
    <3>2. CASE n < i
      <4>1. g[n - 1] = f[n - 1]
        BY ONLY <2>1, <3>1, <3>2
      <4>2. g[n] = f[n]
        BY ONLY <2>2, <3>1, <4>1
      <4> QED
        BY <2>1, <3>2, <4>2
    <3>3. CASE ~(n < i)
      <4>1. g[n - 1] = f[n - 1] + x
        BY ONLY <2>1, <3>1, <3>3
      <4>2. g[n] = f[n] + x
        BY ONLY <2>2, <3>1, <4>1
      <4> QED
        BY <2>1, <3>3, <4>2
    <3> QED
      BY <3>2, <3>3
  <2> QED
    BY <2>3, <2>4
<1>6. m \in T
  <2>1. m \in 0..m
    BY <1>3
  <2> HIDE DEF T
  <2> QED
    BY <1>3, <1>4, <1>5, <2>1, UpTo
<1>7. g[m] = f[m] + x /\ f[m] \in Int /\ a[i] \in Int /\ b[i] \in Int
  BY <1>1, <1>3, <1>6
<1> QED
  BY <1>1, <1>2, <1>7

LEMMA SumTogether ==
    ASSUME NEW a \in Seq(Int), NEW b \in Seq(Int), NEW c \in Seq(Int),
           Len(a) = Len(c), Len(b) = Len(c), \A n \in 1..Len(c) : c[n] = a[n] + b[n]
    PROVE  SumOf(c) = SumOf(a) + SumOf(b)
<1> PICK m : m = Len(c)
  OBVIOUS
<1>1. PICK f : /\ f[0] = 0 /\ \A n \in 1..m : f[n] = f[n - 1] + a[n]
               /\ \A n \in 0..m : f[n] \in Int
               /\ SumOf(a) = f[m]
  BY SumIs
<1>2. PICK g : /\ g[0] = 0 /\ \A n \in 1..m : g[n] = g[n - 1] + b[n]
               /\ \A n \in 0..m : g[n] \in Int
               /\ SumOf(b) = g[m]
  BY SumIs
<1>3. PICK h : /\ h[0] = 0 /\ \A n \in 1..m : h[n] = h[n - 1] + c[n]
               /\ SumOf(c) = h[m]
  BY SumIs
<1>4. m \in Nat /\ \A n \in 1..m : a[n] \in Int /\ b[n] \in Int /\ c[n] = a[n] + b[n]
  BY SumIs
<1> DEFINE T == {n \in 0..m : h[n] = f[n] + g[n]}
<1>5. 0 \in T
  BY <1>1, <1>2, <1>3, <1>4
<1>6. ASSUME NEW n \in 1..m, n - 1 \in T PROVE n \in T
  <2>1. n - 1 \in 0..m /\ n \in 0..m /\ h[n - 1] = f[n - 1] + g[n - 1]
    BY <1>4, <1>6
  <2>2. f[n - 1] \in Int /\ g[n - 1] \in Int /\ a[n] \in Int /\ b[n] \in Int
    BY <1>1, <1>2, <1>4, <2>1
  <2>3. h[n] = h[n - 1] + (a[n] + b[n]) /\ f[n] = f[n - 1] + a[n] /\ g[n] = g[n - 1] + b[n]
    BY <1>1, <1>2, <1>3, <1>4
  <2> PICK u, v, x, y : u = f[n - 1] /\ v = g[n - 1] /\ x = a[n] /\ y = b[n]
    OBVIOUS
  <2>4. {u, v, x, y} \subseteq Int /\ h[n] = (u + v) + (x + y) /\ f[n] = u + x /\ g[n] = v + y
    BY <2>1, <2>2, <2>3
  <2>5. h[n] = f[n] + g[n]
    BY ONLY <2>4
  <2> QED
    BY <2>1, <2>5
<1>7. m \in T
  <2>1. m \in 0..m
    BY <1>4
  <2> HIDE DEF T
  <2> QED
    BY <1>4, <1>5, <1>6, <2>1, UpTo
<1> QED
  BY <1>1, <1>2, <1>3, <1>7

LEMMA SumSame ==
    ASSUME NEW a \in Seq(Int), NEW b \in Seq(Int), Len(a) = Len(b),
           \A n \in 1..Len(a) : a[n] = b[n]
    PROVE  SumOf(a) = SumOf(b)
<1>1. a = b
  OBVIOUS
<1> QED
  BY <1>1

-----------------------------------------------------------------------------
\* Losses over sets of rows.
TradeRow == [open: BOOLEAN, pnl: Int, day: Nat, session: Nat, risk: Nat, equity: Int, archived: BOOLEAN]
LossesIn(rows, S) == [i \in DOMAIN rows |-> IF i \in S THEN Lost(rows[i]) ELSE 0]

LEMMA LostRow == ASSUME NEW row \in TradeRow PROVE Lost(row) \in Nat /\ Excess(row) \in Nat
<1>1. row.pnl \in Int /\ row.risk \in Nat
  BY DEF TradeRow
<1> QED
  BY <1>1 DEF Lost, Excess, Positive

LEMMA LossesSeq ==
    ASSUME NEW rows \in Seq(TradeRow), NEW S
    PROVE  /\ LossesIn(rows, S) \in Seq(Int) /\ Len(LossesIn(rows, S)) = Len(rows)
           /\ Len(rows) \in Nat /\ DOMAIN rows = 1..Len(rows)
           /\ \A i \in 1..Len(rows) :
                 /\ rows[i] \in TradeRow
                 /\ LossesIn(rows, S)[i] = IF i \in S THEN Lost(rows[i]) ELSE 0
                 /\ LossesIn(rows, S)[i] \in Nat
           /\ LossOf(rows, S) = SumOf(LossesIn(rows, S)) /\ LossOf(rows, S) \in Nat
<1> PICK m : m = Len(rows)
  OBVIOUS
<1>1. m \in Nat /\ DOMAIN rows = 1..m /\ \A i \in 1..m : rows[i] \in TradeRow
  OBVIOUS
<1>2. \A i \in 1..m : (IF i \in S THEN Lost(rows[i]) ELSE 0) \in Nat
  BY <1>1, LostRow
<1> PICK a : a = LossesIn(rows, S)
  OBVIOUS
<1>3. a = [i \in 1..m |-> IF i \in S THEN Lost(rows[i]) ELSE 0]
  BY <1>1 DEF LossesIn
<1>4. a \in [1..m -> Nat] /\ \A i \in 1..m : a[i] = IF i \in S THEN Lost(rows[i]) ELSE 0
  BY <1>2, <1>3
<1>5. a \in Seq(Int) /\ Len(a) = m /\ \A i \in 1..m : a[i] \in Nat
  BY <1>1, <1>4
<1>6. LossOf(rows, S) = SumOf(a)
  BY DEF LossOf, LossesIn
<1>7. SumOf(a) >= 0 /\ SumOf(a) \in Int
  BY <1>5, SumNotNegative, SumType
<1> QED
  BY <1>1, <1>4, <1>5, <1>6, <1>7

\* Two tables that lose the same where it counts.
LEMMA SameLoss ==
    ASSUME NEW rows \in Seq(TradeRow), NEW more \in Seq(TradeRow), NEW S, NEW M,
           Len(more) = Len(rows),
           \A i \in 1..Len(rows) : (IF i \in S THEN Lost(rows[i]) ELSE 0)
                                       = (IF i \in M THEN Lost(more[i]) ELSE 0)
    PROVE  LossOf(more, M) = LossOf(rows, S)
<1>1. DOMAIN rows = DOMAIN more /\ DOMAIN rows = 1..Len(rows)
  BY LossesSeq
<1>2. LossesIn(rows, S) = LossesIn(more, M)
  BY <1>1 DEF LossesIn
<1> QED
  BY <1>2, LossesSeq

\* One more row, or another loss of one.
LEMMA LossAppend ==
    ASSUME NEW rows \in Seq(TradeRow), NEW row \in TradeRow, NEW S, NEW M,
           \A i \in 1..Len(rows) : i \in S <=> i \in M
    PROVE  LossOf(Append(rows, row), M)
               = LossOf(rows, S) + (IF Len(rows) + 1 \in M THEN Lost(row) ELSE 0)
<1> PICK m : m = Len(rows)
  OBVIOUS
<1> PICK n : n = m + 1
  OBVIOUS
<1> PICK more : more = Append(rows, row)
  OBVIOUS
<1> PICK x : x = IF n \in M THEN Lost(row) ELSE 0
  OBVIOUS
<1> PICK a : a = LossesIn(rows, S)
  OBVIOUS
<1> PICK b : b = LossesIn(more, M)
  OBVIOUS
<1>1. /\ m \in Nat /\ more \in Seq(TradeRow) /\ Len(more) = n /\ more[n] = row
      /\ \A i \in 1..m : more[i] = rows[i]
  BY LossesSeq
<1>2. /\ a \in Seq(Int) /\ Len(a) = m /\ LossOf(rows, S) = SumOf(a)
      /\ \A i \in 1..m : a[i] = IF i \in S THEN Lost(rows[i]) ELSE 0
  BY LossesSeq
<1>3. /\ b \in Seq(Int) /\ Len(b) = n /\ LossOf(more, M) = SumOf(b)
      /\ \A i \in 1..n : b[i] = IF i \in M THEN Lost(more[i]) ELSE 0
  <2>1. more \in Seq(TradeRow) /\ Len(more) = n /\ b = LossesIn(more, M)
    BY <1>1
  <2> QED
    BY ONLY <2>1, LossesSeq
<1>x. x \in Nat
  BY LostRow
<1>4. Append(a, x) \in Seq(Int) /\ Len(Append(a, x)) = n
      /\ \A i \in 1..n : Append(a, x)[i] = IF i = n THEN x ELSE a[i]
  BY <1>1, <1>2, <1>x
<1>5. \A i \in 1..n : b[i] = Append(a, x)[i]
  <2> SUFFICES ASSUME NEW i \in 1..n PROVE b[i] = Append(a, x)[i]
    OBVIOUS
  <2>1. CASE i = n
    BY <1>1, <1>3, <1>4, <2>1
  <2>2. CASE i # n
    <3>1. i \in 1..m
      BY <1>1, <2>2
    <3> QED
      BY <1>1, <1>2, <1>3, <1>4, <2>2, <3>1
  <2> QED
    BY <2>1, <2>2
<1>6. SumOf(Append(a, x)) = SumOf(a) + x /\ SumOf(a) \in Int
  BY <1>2, <1>x, SumAppend, SumType
<1>7. SumOf(b) = SumOf(Append(a, x))
  <2>1. Len(b) = Len(Append(a, x)) /\ \A i \in 1..Len(b) : b[i] = Append(a, x)[i]
    BY <1>3, <1>4, <1>5
  <2> QED
    BY ONLY <1>3, <1>4, <2>1, SumSame
<1> QED
  BY <1>2, <1>3, <1>6, <1>7

LEMMA LossPut ==
    ASSUME NEW rows \in Seq(TradeRow), NEW more \in Seq(TradeRow), NEW S, NEW M,
           Len(more) = Len(rows), NEW i \in 1..Len(rows), Lost(rows[i]) = 0,
           \A k \in 1..Len(rows) : k # i => more[k] = rows[k] /\ (k \in S <=> k \in M)
    PROVE  LossOf(more, M) = LossOf(rows, S) + (IF i \in M THEN Lost(more[i]) ELSE 0)
<1> PICK a : a = LossesIn(rows, S)
  OBVIOUS
<1> PICK b : b = LossesIn(more, M)
  OBVIOUS
<1> PICK m : m = Len(rows)
  OBVIOUS
<1>1. /\ a \in Seq(Int) /\ Len(a) = m /\ LossOf(rows, S) = SumOf(a)
      /\ \A k \in 1..m : a[k] = IF k \in S THEN Lost(rows[k]) ELSE 0
  BY LossesSeq
<1>2. /\ b \in Seq(Int) /\ Len(b) = m /\ LossOf(more, M) = SumOf(b)
      /\ \A k \in 1..m : b[k] = IF k \in M THEN Lost(more[k]) ELSE 0
  BY LossesSeq
<1>3. \A k \in 1..m : k # i => a[k] = b[k]
  BY <1>1, <1>2
<1>4. a[i] = 0 /\ i \in 1..m
  BY <1>1
<1>5. SumOf(b) = SumOf(a) - a[i] + b[i]
  <2>1. /\ a \in Seq(Int) /\ b \in Seq(Int) /\ Len(a) = Len(b) /\ i \in 1..Len(a)
        /\ \A k \in 1..Len(a) : k # i => a[k] = b[k]
    BY <1>1, <1>2, <1>3, <1>4
  <2> QED
    BY ONLY <2>1, SumPut
<1>6. SumOf(a) \in Int /\ b[i] \in Int
  BY <1>1, <1>2, <1>4, SumType
<1>7. SumOf(b) = SumOf(a) + b[i]
  BY ONLY <1>4, <1>5, <1>6
<1> QED
  BY <1>1, <1>2, <1>4, <1>7

\* What is deleted is lost no more, and a sum is no less than any of its parts.
LEMMA LossDeleted ==
    ASSUME NEW rows \in Seq(TradeRow), NEW S, NEW M, NEW i \in 1..Len(rows),
           \A k \in 1..Len(rows) : k \in M => k \in S, i \in S, i \notin M
    PROVE  LossOf(rows, M) + Lost(rows[i]) <= LossOf(rows, S)
<1> PICK m : m = Len(rows)
  OBVIOUS
<1> PICK a : a = LossesIn(rows, M)
  OBVIOUS
<1> PICK K : K = M \cup {i}
  OBVIOUS
<1> PICK b : b = LossesIn(rows, K)
  OBVIOUS
<1> PICK c : c = LossesIn(rows, S)
  OBVIOUS
<1>1. /\ a \in Seq(Int) /\ Len(a) = m /\ LossOf(rows, M) = SumOf(a)
      /\ \A k \in 1..m : a[k] = IF k \in M THEN Lost(rows[k]) ELSE 0
  <2>1. rows \in Seq(TradeRow) /\ a = LossesIn(rows, M) /\ m = Len(rows)
    OBVIOUS
  <2> QED
    BY ONLY <2>1, LossesSeq
<1>2. /\ b \in Seq(Int) /\ Len(b) = m
      /\ \A k \in 1..m : b[k] = IF k \in K THEN Lost(rows[k]) ELSE 0
  <2>1. rows \in Seq(TradeRow) /\ b = LossesIn(rows, K) /\ m = Len(rows)
    OBVIOUS
  <2> QED
    BY ONLY <2>1, LossesSeq
<1>3. /\ c \in Seq(Int) /\ Len(c) = m /\ LossOf(rows, S) = SumOf(c)
      /\ \A k \in 1..m : c[k] = IF k \in S THEN Lost(rows[k]) ELSE 0
  <2>1. rows \in Seq(TradeRow) /\ c = LossesIn(rows, S) /\ m = Len(rows)
    OBVIOUS
  <2> QED
    BY ONLY <2>1, LossesSeq
<1>4. \A k \in 1..m : Lost(rows[k]) \in Nat
  BY LossesSeq, LostRow
<1>5. SumOf(b) = SumOf(a) - a[i] + b[i]
  <2>1. \A k \in 1..m : k # i => a[k] = b[k]
    BY <1>1, <1>2
  <2>2. i \in 1..Len(a) /\ Len(a) = Len(b) /\ \A k \in 1..Len(a) : k # i => a[k] = b[k]
    BY <1>1, <1>2, <2>1
  <2> QED
    BY ONLY <1>1, <1>2, <2>2, SumPut
<1>6. SumOf(b) <= SumOf(c)
  <2>1. \A k \in 1..m : b[k] <= c[k]
    <3> SUFFICES ASSUME NEW k \in 1..m PROVE b[k] <= c[k]
      OBVIOUS
    <3>1. CASE k \in K
      <4>1. k \in S
        BY <3>1
      <4>2. b[k] = Lost(rows[k]) /\ c[k] = Lost(rows[k])
        BY <1>2, <1>3, <3>1, <4>1
      <4> QED
        BY <1>4, <4>2
    <3>2. CASE k \notin K
      <4>1. b[k] = 0 /\ c[k] \in {0, Lost(rows[k])} /\ Lost(rows[k]) \in Nat
        BY <1>2, <1>3, <1>4, <3>2
      <4> QED
        BY ONLY <4>1
    <3> QED
      BY <3>1, <3>2
  <2> QED
    BY <1>2, <1>3, <2>1, SumAtMost
<1>7. a[i] = 0 /\ b[i] = Lost(rows[i]) /\ Lost(rows[i]) \in Int /\ i \in 1..m
  <2>1. i \in 1..m /\ i \in K /\ i \notin M
    OBVIOUS
  <2>2. a[i] = 0
    BY ONLY <1>1, <2>1
  <2>3. b[i] = Lost(rows[i])
    BY ONLY <1>2, <2>1
  <2> QED
    BY <1>4, <2>1, <2>2, <2>3
<1>8. SumOf(a) \in Int /\ SumOf(b) \in Int /\ SumOf(c) \in Int
  BY <1>1, <1>2, <1>3, SumType
<1>9. SumOf(a) + Lost(rows[i]) <= SumOf(c)
  BY ONLY <1>5, <1>6, <1>7, <1>8
<1> QED
  BY <1>1, <1>3, <1>9

LEMMA LossLess ==
    ASSUME NEW rows \in Seq(TradeRow), NEW S, NEW M,
           \A k \in 1..Len(rows) : k \in M => k \in S
    PROVE  LossOf(rows, M) <= LossOf(rows, S)
<1> PICK m : m = Len(rows)
  OBVIOUS
<1> PICK a : a = LossesIn(rows, M)
  OBVIOUS
<1> PICK c : c = LossesIn(rows, S)
  OBVIOUS
<1>1. /\ a \in Seq(Int) /\ Len(a) = m /\ LossOf(rows, M) = SumOf(a)
      /\ \A k \in 1..m : a[k] = IF k \in M THEN Lost(rows[k]) ELSE 0
  BY LossesSeq
<1>2. /\ c \in Seq(Int) /\ Len(c) = m /\ LossOf(rows, S) = SumOf(c)
      /\ \A k \in 1..m : c[k] = IF k \in S THEN Lost(rows[k]) ELSE 0
  BY LossesSeq
<1>3. \A k \in 1..m : Lost(rows[k]) \in Nat
  BY LossesSeq, LostRow
<1>4. ASSUME NEW k \in 1..m PROVE a[k] <= c[k]
  <2>1. Lost(rows[k]) \in Nat /\ a[k] = (IF k \in M THEN Lost(rows[k]) ELSE 0)
        /\ c[k] = (IF k \in S THEN Lost(rows[k]) ELSE 0) /\ (k \in M => k \in S)
    BY <1>1, <1>2, <1>3
  <2> QED
    BY ONLY <2>1
<1> QED
  BY <1>1, <1>2, <1>4, SumAtMost

\* A set that holds no row with a loss.
LEMMA NoLoss ==
    ASSUME NEW rows \in Seq(TradeRow), NEW S, \A i \in 1..Len(rows) : i \in S => Lost(rows[i]) = 0
    PROVE  LossOf(rows, S) = 0
BY LossesSeq, SumOfZeros

-----------------------------------------------------------------------------
\* The rows a request leaves, and what they lose.
Where(rows, Kind) == {i \in DOMAIN rows : rows[i] \in Kind}

Kept(rows, S, kept) ==
    /\ kept[0] = << >>
    /\ \A n \in 1..Len(rows) :
          kept[n] = IF n \in S THEN kept[n - 1] ELSE Append(kept[n - 1], rows[n])
    /\ \A n \in 0..Len(rows) : kept[n] \in Seq(TradeRow)
    /\ Without(rows, S) = kept[Len(rows)]

LEMMA WithoutIs ==
    ASSUME NEW rows \in Seq(TradeRow), NEW S PROVE \E kept : Kept(rows, S, kept)
<1> PICK m : m = Len(rows)
  OBVIOUS
<1>1. m \in Nat /\ \A n \in 1..m : rows[n] \in TradeRow
  OBVIOUS
<1> DEFINE Keeps(f) == f = [n \in 0..m |-> IF n = 0 THEN << >>
                              ELSE IF n \in S THEN f[n - 1] ELSE Append(f[n - 1], rows[n])]
           choice == CHOOSE f : Keeps(f)
<1>2. Keeps(choice)
  <2> DEFINE G == [n \in 1..m |-> [v \in Seq(TradeRow) |-> IF n \in S THEN v ELSE Append(v, rows[n])]]
  <2>1. G \in [1..m -> [Seq(TradeRow) -> Seq(TradeRow)]]
    <3> SUFFICES ASSUME NEW n \in 1..m, NEW v \in Seq(TradeRow)
                 PROVE  (IF n \in S THEN v ELSE Append(v, rows[n])) \in Seq(TradeRow)
      OBVIOUS
    <3> QED
      BY <1>1
  <2>2. \A n \in 1..m : \A v \in Seq(TradeRow) : G[n][v] = IF n \in S THEN v ELSE Append(v, rows[n])
    OBVIOUS
  <2>3. << >> \in Seq(TradeRow)
    OBVIOUS
  <2> HIDE DEF G
  <2>4. PICK f : /\ f \in [0..m -> Seq(TradeRow)] /\ f[0] = << >>
                 /\ \A n \in 1..m : f[n] = G[n][f[n - 1]]
    <3>1. Steps(m, Seq(TradeRow), << >>, G)
      BY <1>1, <2>1, <2>3 DEF Steps
    <3>2. \E f : Follows(m, Seq(TradeRow), << >>, G, f)
      BY ONLY <3>1, Recursion
    <3> QED
      BY <3>2 DEF Follows
  <2>5. ASSUME NEW n \in 0..m
        PROVE  f[n] = IF n = 0 THEN << >>
                      ELSE IF n \in S THEN f[n - 1] ELSE Append(f[n - 1], rows[n])
    <3>1. CASE n = 0
      BY <2>4, <3>1
    <3>2. CASE n # 0
      <4>1. n \in 1..m /\ n - 1 \in 0..m
        BY <1>1, <3>2
      <4> QED
        BY <2>2, <2>4, <3>2, <4>1
    <3> QED
      BY <3>1, <3>2
  <2>6. Keeps(f)
    BY <2>4, <2>5
  <2> HIDE DEF Keeps
  <2> QED
    BY <2>6
<1>3. Without(rows, S) = choice[m]
  BY DEF Without
<1> PICK kept : kept = choice
  OBVIOUS
<1>4. \A n \in 0..m : kept[n] = IF n = 0 THEN << >>
                         ELSE IF n \in S THEN kept[n - 1] ELSE Append(kept[n - 1], rows[n])
  <2>1. Keeps(kept)
    BY <1>2
  <2> QED
    BY <2>1
<1>5. kept[0] = << >> /\ \A n \in 1..m : kept[n] = IF n \in S THEN kept[n - 1] ELSE Append(kept[n - 1], rows[n])
  <2>1. 0 \in 0..m /\ \A n \in 1..m : n \in 0..m /\ n # 0
    BY <1>1
  <2> QED
    BY <1>4, <2>1
<1> DEFINE T == {n \in 0..m : kept[n] \in Seq(TradeRow)}
<1>6. 0 \in T
  <2>1. << >> \in Seq(TradeRow) /\ 0 \in 0..m
    BY <1>1
  <2> QED
    BY <1>5, <2>1
<1>7. ASSUME NEW n \in 1..m, n - 1 \in T PROVE n \in T
  <2> PICK before : before = kept[n - 1]
    OBVIOUS
  <2> PICK row : row = rows[n]
    OBVIOUS
  <2>1. n \in 0..m /\ before \in Seq(TradeRow) /\ row \in TradeRow
    BY <1>1, <1>7
  <2>2. Append(before, row) \in Seq(TradeRow)
    BY <2>1
  <2>3. kept[n] = IF n \in S THEN before ELSE Append(before, row)
    BY ONLY <1>5, n \in 1..m, before = kept[n - 1], row = rows[n]
  <2> QED
    BY <2>1, <2>2, <2>3
<1>8. \A n \in 0..m : n \in T
  <2> HIDE DEF T
  <2> QED
    BY <1>1, <1>6, <1>7, UpTo
<1>9. Kept(rows, S, kept)
  BY <1>3, <1>5, <1>8 DEF Kept
<1> QED
  BY <1>9

\* They are the other rows, and the last one stays the last.
ComesFrom(rows, S, more) ==
    /\ \A k \in 1..Len(more) : \E j \in 1..Len(rows) :
          j \notin S /\ more[k] = rows[j] /\ (j = Len(rows) => k = Len(more))
    /\ \A j \in 1..Len(rows) : j \notin S => \E k \in 1..Len(more) : more[k] = rows[j]

LEMMA WithoutRows ==
    ASSUME NEW rows \in Seq(TradeRow), NEW S, NEW more, more = Without(rows, S)
    PROVE  more \in Seq(TradeRow) /\ ComesFrom(rows, S, more)
<1> PICK m : m = Len(rows)
  OBVIOUS
<1>1. PICK kept : /\ kept[0] = << >>
                  /\ \A n \in 1..m : kept[n] = IF n \in S THEN kept[n - 1] ELSE Append(kept[n - 1], rows[n])
                  /\ \A n \in 0..m : kept[n] \in Seq(TradeRow)
                  /\ more = kept[m]
  <2>1. \E kept : Kept(rows, S, kept)
    BY WithoutIs
  <2> QED
    BY <2>1 DEF Kept
<1>2. m \in Nat /\ m \in 0..m
  OBVIOUS
<1> DEFINE Is(n) == \A k \in 1..Len(kept[n]) : \E j \in 1..n :
                        j \notin S /\ kept[n][k] = rows[j] /\ (j = n => k = Len(kept[n]))
           Has(n) == \A j \in 1..n : j \notin S => \E k \in 1..Len(kept[n]) : kept[n][k] = rows[j]
           T == {n \in 0..m : Is(n) /\ Has(n)}
<1>3. 0 \in T
  BY <1>1, <1>2
<1>4. ASSUME NEW n \in 1..m, n - 1 \in T PROVE n \in T
  <2> PICK before : before = kept[n - 1]
    OBVIOUS
  <2> PICK after : after = kept[n]
    OBVIOUS
  <2>1. /\ n \in 0..m /\ n - 1 \in 0..m
        /\ before \in Seq(TradeRow) /\ after \in Seq(TradeRow)
        /\ after = IF n \in S THEN before ELSE Append(before, rows[n])
    BY <1>1, <1>2, <1>4
  <2>2. /\ \A k \in 1..Len(before) : \E j \in 1..(n - 1) : j \notin S /\ before[k] = rows[j]
        /\ \A j \in 1..(n - 1) : j \notin S => \E k \in 1..Len(before) : before[k] = rows[j]
    BY <1>4
  <2>3. \A j \in 1..n : j = n \/ j \in 1..(n - 1)
    BY <2>1
  <2>4. \A j \in 1..(n - 1) : j \in 1..n /\ j # n
    BY <2>1
  <2>5. CASE n \in S
    <3>1. after = before
      BY <2>1, <2>5
    <3>2. Is(n)
      BY <2>2, <2>4, <3>1
    <3>3. Has(n)
      BY <2>2, <2>3, <2>5, <3>1
    <3> QED
      BY <2>1, <3>2, <3>3
  <2>6. CASE n \notin S
    <3> PICK l : l = Len(before)
      OBVIOUS
    <3>1. /\ l \in Nat /\ Len(after) = l + 1 /\ after[l + 1] = rows[n]
          /\ \A k \in 1..l : after[k] = before[k] /\ k \in 1..(l + 1)
      <4>1. after = Append(before, rows[n]) /\ before \in Seq(TradeRow)
        BY <2>1, <2>6
      <4> QED
        BY ONLY l = Len(before), <4>1
    <3>2. ASSUME NEW k \in 1..Len(after)
          PROVE  \E j \in 1..n : j \notin S /\ after[k] = rows[j] /\ (j = n => k = Len(after))
      <4>1. CASE k = l + 1
        <5>1. n \in 1..n
          BY <2>1
        <5> QED
          BY <2>6, <3>1, <4>1, <5>1
      <4>2. CASE k # l + 1
        <5>1. k \in 1..l
          BY <3>1, <4>2
        <5>2. PICK j \in 1..(n - 1) : j \notin S /\ before[k] = rows[j]
          BY <2>2, <5>1
        <5> QED
          BY <2>4, <3>1, <5>1, <5>2
      <4> QED
        BY <4>1, <4>2
    <3>3. ASSUME NEW j \in 1..n, j \notin S PROVE \E k \in 1..Len(after) : after[k] = rows[j]
      <4>1. CASE j = n
        <5>1. l + 1 \in 1..Len(after)
          BY <3>1
        <5> QED
          BY <3>1, <4>1, <5>1
      <4>2. CASE j # n
        <5>1. PICK k \in 1..l : before[k] = rows[j]
          BY <2>2, <2>3, <3>3, <4>2
        <5> QED
          BY <3>1, <5>1
      <4> QED
        BY <4>1, <4>2
    <3>4. Is(n)
      BY <3>2
    <3>5. Has(n)
      BY <3>3
    <3> QED
      BY <2>1, <3>4, <3>5
  <2> QED
    BY <2>5, <2>6
<1>5. m \in T
  <2> HIDE DEF T
  <2> QED
    BY <1>2, <1>3, <1>4, UpTo
<1>6. Is(m) /\ Has(m)
  BY <1>5
<1>7. more = kept[m] /\ more \in Seq(TradeRow)
  BY <1>1, <1>2
<1>8. /\ \A k \in 1..Len(more) : \E j \in 1..m :
            j \notin S /\ more[k] = rows[j] /\ (j = m => k = Len(more))
      /\ \A j \in 1..m : j \notin S => \E k \in 1..Len(more) : more[k] = rows[j]
  BY ONLY <1>6, <1>7
<1> QED
  BY <1>7, <1>8 DEF ComesFrom

LEMMA WithoutLoss ==
    ASSUME NEW rows \in Seq(TradeRow), NEW S, NEW more, more = Without(rows, S), NEW Kind
    PROVE  LossOf(more, Where(more, Kind)) = LossOf(rows, Where(rows, Kind) \ S)
<1> PICK m : m = Len(rows)
  OBVIOUS
<1>1. PICK kept : /\ kept[0] = << >>
                  /\ \A n \in 1..m : kept[n] = IF n \in S THEN kept[n - 1] ELSE Append(kept[n - 1], rows[n])
                  /\ \A n \in 0..m : kept[n] \in Seq(TradeRow)
                  /\ more = kept[m]
  <2>1. \E kept : Kept(rows, S, kept)
    BY WithoutIs
  <2> QED
    BY <2>1 DEF Kept
<1> PICK M : M = Where(rows, Kind) \ S
  OBVIOUS
<1> PICK a : a = LossesIn(rows, M)
  OBVIOUS
<1>2. /\ a \in Seq(Int) /\ Len(a) = m /\ m \in Nat /\ LossOf(rows, M) = SumOf(a)
      /\ \A i \in 1..m : rows[i] \in TradeRow /\ a[i] = IF i \in M THEN Lost(rows[i]) ELSE 0
  BY LossesSeq
<1>3. PICK f : /\ f[0] = 0 /\ \A n \in 1..m : f[n] = f[n - 1] + a[n]
               /\ \A n \in 0..m : f[n] \in Int
               /\ SumOf(a) = f[m]
  BY <1>2, SumIs
<1>4. \A i \in 1..m : i \in M <=> rows[i] \in Kind /\ i \notin S
  BY <1>2 DEF Where
<1> DEFINE T == {n \in 0..m : LossOf(kept[n], Where(kept[n], Kind)) = f[n]}
<1>5. 0 \in T
  <2>1. LossOf(<< >>, Where(<< >>, Kind)) = 0
    <3> PICK none : none = << >>
      OBVIOUS
    <3>1. none \in Seq(TradeRow) /\ 1..Len(none) = {}
      OBVIOUS
    <3>2. LossOf(none, Where(none, Kind)) = 0
      BY ONLY <3>1, NoLoss
    <3> QED
      BY <3>2
  <2> QED
    BY <1>1, <1>2, <1>3, <2>1
<1>6. ASSUME NEW n \in 1..m, n - 1 \in T PROVE n \in T
  <2> PICK before : before = kept[n - 1]
    OBVIOUS
  <2> PICK after : after = kept[n]
    OBVIOUS
  <2>1. /\ n \in 0..m /\ n - 1 \in 0..m /\ rows[n] \in TradeRow
        /\ before \in Seq(TradeRow) /\ after \in Seq(TradeRow)
        /\ after = IF n \in S THEN before ELSE Append(before, rows[n])
        /\ LossOf(before, Where(before, Kind)) = f[n - 1]
    BY <1>1, <1>2, <1>6
  <2>2. f[n] = f[n - 1] + a[n] /\ f[n - 1] \in Int /\ a[n] = IF n \in M THEN Lost(rows[n]) ELSE 0
    BY <1>2, <1>3, <2>1
  <2>3. CASE n \in S
    <3>1. a[n] = 0
      BY <1>4, <2>2, <2>3
    <3>2. after = before /\ f[n] = f[n - 1]
      BY <2>1, <2>2, <2>3, <3>1
    <3> QED
      BY <2>1, <3>2
  <2>4. CASE n \notin S
    <3> PICK l : l = Len(before)
      OBVIOUS
    <3> PICK row : row = rows[n]
      OBVIOUS
    <3> PICK W : W = Where(after, Kind)
      OBVIOUS
    <3>1. /\ l \in Nat /\ DOMAIN after = 1..(l + 1) /\ after[l + 1] = row /\ DOMAIN before = 1..l
          /\ \A k \in 1..l : after[k] = before[k] /\ k \in 1..(l + 1) /\ k # l + 1
      <4>1. after = Append(before, row) /\ before \in Seq(TradeRow)
        BY <2>1, <2>4
      <4> QED
        BY ONLY l = Len(before), <4>1
    <3>2. \A k \in 1..l : k \in Where(before, Kind) <=> k \in W
      BY <3>1 DEF Where
    <3>3. (l + 1 \in W) <=> (n \in M)
      BY <1>4, <2>4, <3>1 DEF Where
    <3>4. LossOf(after, W) = LossOf(before, Where(before, Kind)) + (IF l + 1 \in W THEN Lost(row) ELSE 0)
      <4>1. after = Append(before, row) /\ before \in Seq(TradeRow) /\ row \in TradeRow
            /\ \A k \in 1..Len(before) : k \in Where(before, Kind) <=> k \in W
        BY <2>1, <2>4, <3>2
      <4>2. l + 1 = Len(before) + 1
        OBVIOUS
      <4> QED
        BY ONLY <4>1, <4>2, LossAppend
    <3>5. LossOf(after, W) = f[n]
      BY <2>1, <2>2, <3>3, <3>4
    <3> QED
      BY <2>1, <3>5
  <2> QED
    BY <2>3, <2>4
<1>7. m \in T
  <2>1. m \in 0..m
    BY <1>2
  <2> HIDE DEF T
  <2> QED
    BY <1>2, <1>5, <1>6, <2>1, UpTo
<1> QED
  BY <1>1, <1>2, <1>3, <1>7

\* A limit that was kept is kept by the rest.
LEMMA WithoutWithin ==
    ASSUME NEW rows \in Seq(TradeRow), NEW S, NEW more, more = Without(rows, S), NEW Kind,
           NEW limit \in Nat, WithinLimit(rows, Where(rows, Kind), limit)
    PROVE  /\ WithinLimit(more, Where(more, Kind), limit)
           /\ LossOf(more, Where(more, Kind)) <= LossOf(rows, Where(rows, Kind))
<1> PICK A : A = Where(rows, Kind)
  OBVIOUS
<1> PICK B : B = A \ S
  OBVIOUS
<1> PICK old : old = LossOf(rows, A)
  OBVIOUS
<1> PICK new : new = LossOf(rows, B)
  OBVIOUS
<1>1. LossOf(more, Where(more, Kind)) = new
  BY WithoutLoss
<1>2. old \in Nat /\ new \in Nat /\ Len(rows) \in Nat /\ DOMAIN rows = 1..Len(rows)
      /\ \A i \in 1..Len(rows) : rows[i] \in TradeRow
  <2>1. new = LossOf(rows, B) /\ old = LossOf(rows, A)
    OBVIOUS
  <2> QED
    BY <2>1, LossesSeq
<1>3. new <= old
  BY LossLess
<1>4. CASE old <= limit
  <2>1. new <= limit
    BY <1>2, <1>3, <1>4
  <2> QED
    BY <1>1, <1>3, <2>1 DEF WithinLimit
<1>5. CASE ~(old <= limit)
  <2>1. PICK i \in A : old <= limit + Excess(rows[i])
    BY <1>5 DEF WithinLimit
  <2>2. i \in 1..Len(rows) /\ rows[i] \in TradeRow /\ rows[i] \in Kind
    BY <1>2 DEF Where
  <2>3. Excess(rows[i]) \in Nat /\ Lost(rows[i]) \in Nat /\ Excess(rows[i]) <= Lost(rows[i])
    <3> PICK row : row = rows[i]
      OBVIOUS
    <3>1. row.pnl \in Int /\ row.risk \in Nat
      BY <2>2 DEF TradeRow
    <3>2. Excess(row) \in Nat /\ Lost(row) \in Nat /\ Excess(row) <= Lost(row)
      BY ONLY <3>1 DEF Excess, Lost, Positive
    <3> QED
      BY <3>2
  <2>4. CASE i \in S
    <3>1. new + Lost(rows[i]) <= old
      BY <2>2, <2>4, LossDeleted
    <3>2. new <= limit
      BY ONLY <1>2, <2>1, <2>3, <3>1, limit \in Nat
    <3> QED
      BY <1>1, <1>3, <3>2 DEF WithinLimit
  <2>5. CASE i \notin S
    <3>1. PICK k \in 1..Len(more) : more[k] = rows[i]
      <4>1. ComesFrom(rows, S, more)
        BY WithoutRows
      <4> QED
        BY <2>2, <2>5, <4>1 DEF ComesFrom
    <3>2. more \in Seq(TradeRow)
      BY WithoutRows
    <3>3. k \in Where(more, Kind)
      BY <2>2, <3>1, <3>2 DEF Where
    <3>4. new <= limit + Excess(more[k])
      BY <1>2, <1>3, <2>1, <2>3, <3>1
    <3> QED
      BY <1>1, <1>3, <3>3, <3>4 DEF WithinLimit
  <2> QED
    BY <2>4, <2>5
<1> QED
  BY <1>4, <1>5

-----------------------------------------------------------------------------
\* What the trades have won, and what the metrics show of it.
PnlsIn(rows, S) == [i \in DOMAIN rows |-> IF i \in S THEN rows[i].pnl ELSE 0]

LEMMA PnlsSeq ==
    ASSUME NEW rows \in Seq(TradeRow), NEW S
    PROVE  /\ PnlsIn(rows, S) \in Seq(Int) /\ Len(PnlsIn(rows, S)) = Len(rows)
           /\ \A i \in 1..Len(rows) : PnlsIn(rows, S)[i] = IF i \in S THEN rows[i].pnl ELSE 0
           /\ PnlOf(rows, S) = SumOf(PnlsIn(rows, S)) /\ PnlOf(rows, S) \in Int
<1> PICK m : m = Len(rows)
  OBVIOUS
<1>1. m \in Nat /\ DOMAIN rows = 1..m /\ \A i \in 1..m : rows[i] \in TradeRow
  OBVIOUS
<1>2. \A i \in 1..m : (IF i \in S THEN rows[i].pnl ELSE 0) \in Int
  BY <1>1 DEF TradeRow
<1> PICK a : a = PnlsIn(rows, S)
  OBVIOUS
<1>3. a = [i \in 1..m |-> IF i \in S THEN rows[i].pnl ELSE 0]
  BY <1>1 DEF PnlsIn
<1>4. a \in [1..m -> Int] /\ \A i \in 1..m : a[i] = IF i \in S THEN rows[i].pnl ELSE 0
  BY <1>2, <1>3
<1>5. a \in Seq(Int) /\ Len(a) = m
  BY <1>1, <1>4
<1>6. PnlOf(rows, S) = SumOf(a)
  BY DEF PnlOf, PnlsIn
<1> QED
  BY <1>1, <1>4, <1>5, <1>6, SumType

LEMMA PnlSplit ==
    ASSUME NEW rows \in Seq(TradeRow), NEW S, NEW A, NEW B,
           \A i \in 1..Len(rows) : (i \in S <=> i \in A \/ i \in B) /\ ~(i \in A /\ i \in B)
    PROVE  PnlOf(rows, S) = PnlOf(rows, A) + PnlOf(rows, B)
<1> PICK m : m = Len(rows)
  OBVIOUS
<1> PICK a : a = PnlsIn(rows, A)
  OBVIOUS
<1> PICK b : b = PnlsIn(rows, B)
  OBVIOUS
<1> PICK c : c = PnlsIn(rows, S)
  OBVIOUS
<1>1. /\ a \in Seq(Int) /\ Len(a) = m /\ PnlOf(rows, A) = SumOf(a)
      /\ \A i \in 1..m : a[i] = IF i \in A THEN rows[i].pnl ELSE 0
  BY PnlsSeq
<1>2. /\ b \in Seq(Int) /\ Len(b) = m /\ PnlOf(rows, B) = SumOf(b)
      /\ \A i \in 1..m : b[i] = IF i \in B THEN rows[i].pnl ELSE 0
  BY PnlsSeq
<1>3. /\ c \in Seq(Int) /\ Len(c) = m /\ PnlOf(rows, S) = SumOf(c)
      /\ \A i \in 1..m : c[i] = IF i \in S THEN rows[i].pnl ELSE 0
  BY PnlsSeq
<1>4. ASSUME NEW i \in 1..m PROVE c[i] = a[i] + b[i]
  <2> PICK p : p = rows[i].pnl
    OBVIOUS
  <2>1. p \in Int
    <3>1. rows[i] \in TradeRow
      BY LossesSeq
    <3> QED
      BY <3>1 DEF TradeRow
  <2>2. /\ a[i] = IF i \in A THEN p ELSE 0
        /\ b[i] = IF i \in B THEN p ELSE 0
        /\ c[i] = IF i \in S THEN p ELSE 0
        /\ (i \in S <=> i \in A \/ i \in B) /\ ~(i \in A /\ i \in B)
    BY <1>1, <1>2, <1>3
  <2> QED
    BY ONLY <2>1, <2>2
<1>5. Len(a) = Len(c) /\ Len(b) = Len(c) /\ \A i \in 1..Len(c) : c[i] = a[i] + b[i]
  BY <1>1, <1>2, <1>3, <1>4
<1>6. SumOf(c) = SumOf(a) + SumOf(b)
  BY ONLY <1>1, <1>2, <1>3, <1>5, SumTogether
<1> QED
  BY <1>1, <1>2, <1>3, <1>6

\* No equity ever falls from its peak by more than what was lost.
Curves == [equity: Int, peak: Int, fall: Int]
LEMMA OneMove ==
    ASSUME NEW c \in Curves, NEW p \in Int, NEW l \in Nat,
           c.fall <= l, c.peak - c.equity <= l
    PROVE  /\ Moved(c, p) \in Curves
           /\ Moved(c, p).fall <= l + Positive(0 - p)
           /\ Moved(c, p).peak - Moved(c, p).equity <= l + Positive(0 - p)
<1> PICK e : e = c.equity + p
  OBVIOUS
<1> PICK k : k = IF e > c.peak THEN e ELSE c.peak
  OBVIOUS
<1> PICK f : f = IF k - e > c.fall THEN k - e ELSE c.fall
  OBVIOUS
<1>1. Moved(c, p) = [equity |-> e, peak |-> k, fall |-> f]
  BY DEF Moved
<1>2. c.equity \in Int /\ c.peak \in Int /\ c.fall \in Int
  BY DEF Curves
<1>3. e \in Int /\ k \in Int /\ f \in Int
  BY <1>2
<1> PICK d : d = Positive(0 - p)
  OBVIOUS
<1>4. d \in Nat /\ d >= 0 - p
  BY DEF Positive
<1>5. k - e <= l + d
  <2>1. c.peak - e <= l + d
    BY <1>2, <1>4
  <2>2. l >= 0
    OBVIOUS
  <2>3. k \in {e, c.peak}
    OBVIOUS
  <2>4. e - e <= l + d
    BY <1>3, <1>4, <2>2
  <2> QED
    BY <2>1, <2>3, <2>4
<1>6. f <= l + d
  BY <1>2, <1>3, <1>4, <1>5
<1> QED
  BY <1>1, <1>3, <1>5, <1>6 DEF Curves

LEMMA FallIsLost ==
    ASSUME tradeRows \in Seq(TradeRow) PROVE Metrics.drawdown <= Metrics.lost
<1> PICK rows : rows = tradeRows
  OBVIOUS
<1> PICK m : m = Len(rows)
  OBVIOUS
<1> PICK S : S = ShownRows
  OBVIOUS
<1> PICK first : first = [equity |-> FirstEquity, peak |-> FirstEquity, fall |-> 0]
  OBVIOUS
<1>1. m \in Nat /\ first \in Curves /\ \A i \in 1..m : rows[i] \in TradeRow /\ rows[i].pnl \in Int
  <2>1. FirstEquity \in Nat
    BY TradeBookAssumption
  <2>2. m \in Nat /\ \A i \in 1..m : rows[i] \in TradeRow
    OBVIOUS
  <2>3. \A row \in TradeRow : row.pnl \in Int
    BY DEF TradeRow
  <2> QED
    BY <2>1, <2>2, <2>3 DEF Curves
<1> DEFINE Draws(f) == f = [n \in 0..m |-> IF n = 0 THEN first
                              ELSE IF n \in S THEN Moved(f[n - 1], rows[n].pnl) ELSE f[n - 1]]
           choice == CHOOSE f : Draws(f)
<1>2. Draws(choice)
  <2> DEFINE G == [n \in 1..m |-> [v \in Curves |-> IF n \in S THEN Moved(v, rows[n].pnl) ELSE v]]
  <2>1. G \in [1..m -> [Curves -> Curves]]
    <3> SUFFICES ASSUME NEW n \in 1..m, NEW v \in Curves
                 PROVE  (IF n \in S THEN Moved(v, rows[n].pnl) ELSE v) \in Curves
      OBVIOUS
    <3>1. rows[n].pnl \in Int
      BY <1>1
    <3>2. Moved(v, rows[n].pnl) \in Curves
      BY <3>1 DEF Moved, Curves
    <3> QED
      BY <3>2
  <2>2. \A n \in 1..m : \A v \in Curves : G[n][v] = IF n \in S THEN Moved(v, rows[n].pnl) ELSE v
    OBVIOUS
  <2> HIDE DEF G
  <2>3. PICK f : /\ f \in [0..m -> Curves] /\ f[0] = first
                 /\ \A n \in 1..m : f[n] = G[n][f[n - 1]]
    <3>1. Steps(m, Curves, first, G)
      BY <1>1, <2>1 DEF Steps
    <3>2. \E f : Follows(m, Curves, first, G, f)
      BY ONLY <3>1, Recursion
    <3> QED
      BY <3>2 DEF Follows
  <2>4. ASSUME NEW n \in 0..m
        PROVE  f[n] = IF n = 0 THEN first
                      ELSE IF n \in S THEN Moved(f[n - 1], rows[n].pnl) ELSE f[n - 1]
    <3>1. CASE n = 0
      BY <2>3, <3>1
    <3>2. CASE n # 0
      <4>1. n \in 1..m /\ n - 1 \in 0..m
        BY <1>1, <3>2
      <4> QED
        BY <2>2, <2>3, <3>2, <4>1
    <3> QED
      BY <3>1, <3>2
  <2>5. Draws(f)
    BY <2>3, <2>4
  <2> HIDE DEF Draws
  <2> QED
    BY <2>5
<1>3. Metrics.drawdown = choice[m].fall /\ Metrics.lost = LossOf(rows, S)
  BY DEF Metrics
<1> PICK curve : curve = choice
  OBVIOUS
<1>4. curve[0] = first
      /\ \A n \in 1..m : curve[n] = IF n \in S THEN Moved(curve[n - 1], rows[n].pnl) ELSE curve[n - 1]
  <2>1. Draws(curve)
    BY <1>2
  <2>2. 0 \in 0..m /\ \A n \in 1..m : n \in 0..m /\ n # 0
    BY <1>1
  <2> QED
    BY <2>1, <2>2
<1> PICK a : a = LossesIn(rows, S)
  OBVIOUS
<1>5. /\ a \in Seq(Int) /\ Len(a) = m /\ LossOf(rows, S) = SumOf(a)
      /\ \A i \in 1..m : a[i] = IF i \in S THEN Lost(rows[i]) ELSE 0
  BY LossesSeq
<1>6. PICK f : /\ f[0] = 0 /\ \A n \in 1..m : f[n] = f[n - 1] + a[n]
               /\ \A n \in 0..m : f[n] \in Int
               /\ SumOf(a) = f[m]
  BY <1>5, SumIs
<1> DEFINE T == {n \in 0..m : /\ curve[n] \in Curves /\ curve[n].fall <= f[n] /\ f[n] \in Nat
                              /\ curve[n].peak - curve[n].equity <= f[n]}
<1>7. 0 \in T
  <2>1. first.fall = 0 /\ first.peak - first.equity = 0 /\ 0 \in 0..m
    BY <1>1, TradeBookAssumption
  <2> QED
    BY <1>1, <1>4, <1>6, <2>1
<1>8. ASSUME NEW n \in 1..m, n - 1 \in T PROVE n \in T
  <2> PICK c : c = curve[n - 1]
    OBVIOUS
  <2> PICK l : l = f[n - 1]
    OBVIOUS
  <2> PICK p : p = rows[n].pnl
    OBVIOUS
  <2>1. /\ n \in 0..m /\ c \in Curves /\ c.fall <= l /\ c.peak - c.equity <= l
        /\ l \in Nat /\ p \in Int
    <3>1. rows[n] \in TradeRow /\ n \in 0..m
      BY <1>1
    <3>2. p \in Int
      BY <3>1 DEF TradeRow
    <3> QED
      BY <1>8, <3>1, <3>2
  <2>2. curve[n] = (IF n \in S THEN Moved(c, p) ELSE c) /\ f[n] = l + a[n]
    BY ONLY <1>4, <1>6, n \in 1..m, c = curve[n - 1], l = f[n - 1], p = rows[n].pnl
  <2>3. a[n] = (IF n \in S THEN Positive(0 - p) ELSE 0) /\ Positive(0 - p) \in Nat
    <3>1. a[n] = IF n \in S THEN Lost(rows[n]) ELSE 0
      BY <1>5
    <3>2. Lost(rows[n]) = Positive(0 - p)
      BY DEF Lost
    <3>3. Positive(0 - p) \in Nat
      BY <2>1 DEF Positive
    <3> QED
      BY <3>1, <3>2, <3>3
  <2>4. CASE n \in S
    <3>1. /\ Moved(c, p) \in Curves /\ Moved(c, p).fall <= l + Positive(0 - p)
          /\ Moved(c, p).peak - Moved(c, p).equity <= l + Positive(0 - p)
      BY <2>1, OneMove
    <3> PICK d : d = Positive(0 - p)
      OBVIOUS
    <3> PICK next : next = Moved(c, p)
      OBVIOUS
    <3>2. curve[n] = next /\ f[n] = l + d /\ d \in Nat /\ l \in Nat
      BY <2>1, <2>2, <2>3, <2>4
    <3>3. next \in Curves /\ next.fall <= l + d /\ next.peak - next.equity <= l + d
      BY <3>1
    <3>4. l + d \in Nat
      BY ONLY <3>2
    <3>5. f[n] \in Nat
      BY ONLY <3>2, <3>4
    <3> QED
      BY <2>1, <3>2, <3>3, <3>5
  <2>5. CASE n \notin S
    <3>1. curve[n] = c /\ f[n] = l + 0 /\ l \in Nat
      BY <2>1, <2>2, <2>3, <2>5
    <3>2. f[n] = l
      BY ONLY <3>1
    <3> QED
      BY <2>1, <3>1, <3>2
  <2> QED
    BY <2>4, <2>5
<1>9. m \in T
  <2>1. m \in 0..m
    BY <1>1
  <2> HIDE DEF T
  <2> QED
    BY <1>1, <1>7, <1>8, <2>1, UpTo
<1> QED
  BY <1>3, <1>5, <1>6, <1>9

LEMMA EquityAdds ==
    ASSUME tradeRows \in Seq(TradeRow)
    PROVE  AvailableEquity = FirstEquity + Metrics.net + Metrics.archived
<1> PICK A : A = ShownRows
  OBVIOUS
<1> PICK B : B = HiddenRows
  OBVIOUS
<1> PICK S : S = Account
  OBVIOUS
<1>1. Metrics.net = PnlOf(tradeRows, A) /\ Metrics.archived = PnlOf(tradeRows, B)
      /\ AvailableEquity = FirstEquity + PnlOf(tradeRows, S)
  BY DEF Metrics, AvailableEquity
<1>2. \A i : (i \in S <=> i \in A \/ i \in B) /\ ~(i \in A /\ i \in B)
  BY DEF ShownRows, HiddenRows
<1>3. PnlOf(tradeRows, S) = PnlOf(tradeRows, A) + PnlOf(tradeRows, B)
  BY <1>2, PnlSplit
<1>4. PnlOf(tradeRows, A) \in Int /\ PnlOf(tradeRows, B) \in Int
  BY PnlsSeq
<1>5. FirstEquity \in Int
  BY TradeBookAssumption
<1> QED
  BY <1>1, <1>3, <1>4, <1>5

-----------------------------------------------------------------------------
\* The size of an entry.
LEMMA Product ==
    ASSUME NEW k \in Nat, NEW a \in Nat, NEW b \in Nat, a <= b
    PROVE  k * a <= k * b /\ k * a \in Nat /\ k * b \in Nat /\ k * a = a * k /\ k * b = b * k
OBVIOUS

LEMMA Quotient ==
    ASSUME NEW x \in Nat, NEW part \in Nat \ {0}
    PROVE  x \div part \in Nat /\ part * (x \div part) <= x
           /\ \A y \in Nat : x <= part * y => x \div part <= y
<1> PICK q : q = x \div part
  OBVIOUS
<1>1. q \in Nat /\ part * q <= x
  OBVIOUS
<1>2. ASSUME NEW y \in Nat, x <= part * y PROVE q <= y
  <2>1. SUFFICES ASSUME q >= y + 1 PROVE FALSE
    BY <1>1
  <2>2. part * q >= part * (y + 1)
    BY <1>1, <2>1
  <2>3. part * (y + 1) = part * y + part
    OBVIOUS
  <2> QED
    BY <1>1, <1>2, <2>2, <2>3
<1> QED
  BY <1>1, <1>2

LEMMA EntryRisk ==
    ASSUME tradeRows \in Seq(TradeRow), conf.risk \in 0..RiskCap, BoundedMargin > 0,
           DailyLoss < DayLimit, TotalLoss < SessionLimit
    PROVE  /\ BoundedMargin \div LossPart \in Nat /\ AvailableEquity \in Int
           /\ (BoundedMargin \div LossPart) * RiskUnit <= RiskCap * AvailableEquity
           /\ DailyLoss + BoundedMargin \div LossPart <= DayLimit
           /\ TotalLoss + BoundedMargin \div LossPart <= SessionLimit
<1> PICK equity : equity = AvailableEquity
  OBVIOUS
<1> PICK day : day = DailyLoss
  OBVIOUS
<1> PICK total : total = TotalLoss
  OBVIOUS
<1> PICK margin : margin = BoundedMargin
  OBVIOUS
<1> PICK funds : funds = Positive(equity)
  OBVIOUS
<1> PICK left : left = Least(Positive(DayLimit - day), Positive(SessionLimit - total))
  OBVIOUS
<1> PICK budget : budget = (funds * conf.risk) \div RiskUnit
  OBVIOUS
<1> PICK most : most = Least(budget, left)
  OBVIOUS
<1>1. /\ {BaseMargin, FirstEquity, DayLimit, SessionLimit, RiskCap} \subseteq Nat
      /\ RiskUnit \in Nat \ {0} /\ LossPart \in Nat \ {0} /\ conf.risk \in Nat /\ conf.risk <= RiskCap
  BY TradeBookAssumption
<1>2. equity \in Int /\ day \in Nat /\ total \in Nat
  <2>1. PnlOf(tradeRows, Account) \in Int
    BY PnlsSeq
  <2>2. day \in Nat
    BY LossesSeq DEF DailyLoss
  <2>3. total \in Nat
    BY LossesSeq DEF TotalLoss
  <2> QED
    BY <1>1, <2>1, <2>2, <2>3 DEF AvailableEquity
<1>3. margin = Least(Least(BaseMargin, funds), LossPart * most)
  BY DEF BoundedMargin
<1>4. funds \in Nat /\ left \in Nat /\ day + left <= DayLimit /\ total + left <= SessionLimit
  <2>1. Positive(DayLimit - day) = DayLimit - day /\ Positive(SessionLimit - total) = SessionLimit - total
    BY <1>1, <1>2 DEF Positive
  <2>2. funds \in Nat
    BY <1>2 DEF Positive
  <2> PICK x : x = DayLimit - day
    OBVIOUS
  <2> PICK y : y = SessionLimit - total
    OBVIOUS
  <2>3. x \in Nat /\ y \in Nat /\ left = Least(x, y)
    <3>1. left = Least(x, y)
      BY <2>1
    <3>2. {DayLimit, SessionLimit, day, total} \subseteq Nat /\ day < DayLimit /\ total < SessionLimit
      BY <1>1, <1>2
    <3>3. x \in Nat
      BY ONLY <3>2, x = DayLimit - day
    <3>4. y \in Nat
      BY ONLY <3>2, y = SessionLimit - total
    <3> QED
      BY <3>1, <3>3, <3>4
  <2>4. left \in Nat /\ left <= x /\ left <= y
    BY ONLY <2>3 DEF Least
  <2>5. DayLimit \in Nat /\ SessionLimit \in Nat
    BY <1>1
  <2> QED
    BY ONLY <1>2, <2>2, <2>4, <2>5, x = DayLimit - day, y = SessionLimit - total
<1> PICK percent : percent = conf.risk
  OBVIOUS
<1>5. percent \in Nat /\ percent <= RiskCap /\ funds * percent \in Nat /\ funds * percent <= funds * RiskCap
  BY <1>1, <1>4, Product
<1>6. budget \in Nat /\ RiskUnit * budget <= funds * percent
  BY <1>1, <1>5, Quotient
<1>7. most \in Nat /\ most <= budget /\ most <= left
  BY <1>4, <1>6 DEF Least
<1>8. LossPart * most \in Nat
  BY <1>1, <1>7
<1>9. margin \in Nat /\ margin <= LossPart * most /\ margin <= funds
  <2> PICK base : base = Least(BaseMargin, funds)
    OBVIOUS
  <2> PICK cap : cap = LossPart * most
    OBVIOUS
  <2>1. base \in Nat /\ base <= funds
    <3>1. BaseMargin \in Nat /\ funds \in Nat
      BY <1>1, <1>4
    <3> QED
      BY ONLY <3>1, base = Least(BaseMargin, funds) DEF Least
  <2>2. margin = Least(base, cap) /\ cap \in Nat
    BY <1>3, <1>8
  <2> QED
    BY <1>4, <2>1, <2>2 DEF Least
<1> PICK risk : risk = margin \div LossPart
  OBVIOUS
<1>10. risk \in Nat /\ risk <= most
  BY <1>1, <1>7, <1>9, Quotient
<1>11. equity = funds
  <2>1. funds > 0
    BY <1>4, <1>9
  <2> QED
    BY <1>2, <2>1 DEF Positive
<1>12. risk * RiskUnit <= RiskCap * equity
  <2>1. risk <= budget
    BY <1>6, <1>7, <1>10
  <2>2. RiskUnit * risk <= RiskUnit * budget /\ RiskUnit * risk = risk * RiskUnit
        /\ RiskUnit * risk \in Nat /\ RiskUnit * budget \in Nat
    BY <1>1, <1>6, <1>10, <2>1, Product
  <2>3. funds * RiskCap \in Nat /\ funds * RiskCap = RiskCap * funds
    BY <1>1, <1>4, Product
  <2> PICK x : x = RiskUnit * risk
    OBVIOUS
  <2> PICK y : y = RiskUnit * budget
    OBVIOUS
  <2> PICK z : z = funds * percent
    OBVIOUS
  <2> PICK u : u = funds * RiskCap
    OBVIOUS
  <2>4. x <= u
    <3>1. x \in Nat /\ y \in Nat /\ z \in Nat /\ u \in Nat /\ x <= y /\ y <= z /\ z <= u
      BY <1>5, <1>6, <2>2, <2>3
    <3> QED
      BY ONLY <3>1
  <2>5. risk * RiskUnit = x
    BY <2>2
  <2>6. RiskCap * equity = u
    BY <1>11, <2>3
  <2> QED
    BY ONLY <2>4, <2>5, <2>6
<1>13. day + risk <= DayLimit /\ total + risk <= SessionLimit
  <2>1. risk <= left
    BY <1>4, <1>7, <1>10
  <2>2. DayLimit \in Nat /\ SessionLimit \in Nat
    BY <1>1
  <2> QED
    BY ONLY <1>2, <1>4, <1>10, <2>1, <2>2
<1> QED
  BY <1>2, <1>10, <1>12, <1>13

-----------------------------------------------------------------------------
\* What the limits rest on: the sums of all days and sessions, and that the open trade
\* still has room for its stop in those that are current.
WithinAll(rows) ==
    \A s \in Nat : /\ WithinLimit(rows, OfSession(rows, s), SessionLimit)
                   /\ \A d \in Nat : WithinLimit(rows, OfDay(rows, s, d), DayLimit)
Sized(row) == row.risk * RiskUnit <= RiskCap * row.equity
HasRoom(rows, i, session, day) ==
    /\ rows[i].pnl = 0 /\ rows[i].session = session
    /\ LossOf(rows, OfSession(rows, session)) + rows[i].risk <= SessionLimit
    /\ LossOf(rows, OfDay(rows, session, day)) + rows[i].risk <= DayLimit
Sound(rows, session, day) ==
    /\ rows \in Seq(TradeRow) /\ WithinAll(rows)
    /\ \A i \in 1..Len(rows) :
          /\ Sized(rows[i]) /\ rows[i].day <= day
          /\ rows[i].open => i = Len(rows) /\ HasRoom(rows, i, session, day)

Kinds(s) == {row \in TradeRow : row.session = s}
DayKinds(s, d) == {row \in TradeRow : row.session = s /\ row.day = d}
LEMMA KindsAre ==
    ASSUME NEW rows \in Seq(TradeRow), NEW s, NEW d
    PROVE  /\ OfSession(rows, s) = Where(rows, Kinds(s))
           /\ OfDay(rows, s, d) = Where(rows, DayKinds(s, d))
<1>1. \A i \in DOMAIN rows : rows[i] \in TradeRow
  BY LossesSeq
<1> QED
  BY <1>1 DEF OfSession, OfDay, Where, Kinds, DayKinds

LEMMA LimitsAre == DayLimit \in Nat /\ SessionLimit \in Nat
BY TradeBookAssumption

LEMMA SoundStart == Sound(<< >>, 0, 0)
<1> PICK none : none = << >>
  OBVIOUS
<1>1. none \in Seq(TradeRow) /\ 1..Len(none) = {} /\ DOMAIN none = {}
  OBVIOUS
<1>2. \A S : LossOf(none, S) = 0
  BY ONLY <1>1, NoLoss
<1>3. WithinAll(none)
  BY <1>2, LimitsAre DEF WithinAll, WithinLimit
<1>4. Sound(none, 0, 0)
  BY <1>1, <1>3 DEF Sound
<1> QED
  BY <1>4

\* A new session has no open trade, and a new day no losses.
LEMMA SoundSession ==
    ASSUME NEW rows, NEW s, NEW t, NEW d, Sound(rows, s, d), \A i \in 1..Len(rows) : ~rows[i].open
    PROVE  Sound(rows, t, d)
BY DEF Sound

LEMMA SoundDay ==
    ASSUME NEW rows, NEW s \in Nat, NEW d \in Nat, Sound(rows, s, d)
    PROVE  Sound(rows, s, d + 1)
<1>1. rows \in Seq(TradeRow) /\ Len(rows) \in Nat /\ \A i \in 1..Len(rows) : rows[i] \in TradeRow
  BY DEF Sound
<1>2. \A i \in 1..Len(rows) : rows[i].day \in Nat /\ rows[i].day <= d /\ rows[i].day <= d + 1 /\ rows[i].day # d + 1
  <2>1. \A i \in 1..Len(rows) : rows[i].day \in Nat /\ rows[i].day <= d
    BY <1>1 DEF Sound, TradeRow
  <2> QED
    BY <2>1
<1>3. LossOf(rows, OfDay(rows, s, d + 1)) = 0
  <2>1. \A i \in 1..Len(rows) : i \notin OfDay(rows, s, d + 1)
    BY <1>2 DEF OfDay
  <2> QED
    BY <1>1, <2>1, NoLoss
<1>4. ASSUME NEW i \in 1..Len(rows), rows[i].open
      PROVE  i = Len(rows) /\ HasRoom(rows, i, s, d + 1)
  <2>1. i = Len(rows) /\ HasRoom(rows, i, s, d)
    BY <1>4 DEF Sound
  <2>2. LossOf(rows, OfDay(rows, s, d)) \in Nat
    BY <1>1, LossesSeq
  <2>3. rows[i].risk \in Nat
    BY <1>1 DEF TradeRow
  <2>4. rows[i].risk <= DayLimit
    BY <2>1, <2>2, <2>3, LimitsAre DEF HasRoom
  <2>5. 0 + rows[i].risk <= DayLimit
    BY <2>3, <2>4
  <2> QED
    BY <1>3, <2>1, <2>5 DEF HasRoom
<1>5. WithinAll(rows) /\ \A i \in 1..Len(rows) : Sized(rows[i])
  BY DEF Sound
<1> QED
  BY <1>1, <1>2, <1>4, <1>5 DEF Sound

\* Archiving hides a row and changes nothing else.
LEMMA SoundArchive ==
    ASSUME NEW rows, NEW s, NEW d, Sound(rows, s, d), NEW more \in Seq(TradeRow), Len(more) = Len(rows),
           \A i \in 1..Len(rows) : /\ more[i].open = rows[i].open /\ more[i].pnl = rows[i].pnl
                                   /\ more[i].day = rows[i].day /\ more[i].session = rows[i].session
                                   /\ more[i].risk = rows[i].risk /\ more[i].equity = rows[i].equity
    PROVE  Sound(more, s, d)
<1>1. rows \in Seq(TradeRow) /\ DOMAIN rows = 1..Len(rows) /\ DOMAIN more = 1..Len(rows)
  BY DEF Sound
<1>2. \A i \in 1..Len(rows) : Lost(more[i]) = Lost(rows[i]) /\ Excess(more[i]) = Excess(rows[i])
  BY DEF Lost, Excess
<1>3. \A S : LossOf(more, S) = LossOf(rows, S)
  <2> SUFFICES ASSUME NEW S PROVE LossOf(more, S) = LossOf(rows, S)
    OBVIOUS
  <2>1. \A i \in 1..Len(rows) : (IF i \in S THEN Lost(rows[i]) ELSE 0)
                                    = (IF i \in S THEN Lost(more[i]) ELSE 0)
    BY <1>2
  <2> QED
    BY <1>1, <2>1, SameLoss
<1>4. \A t : OfSession(more, t) = OfSession(rows, t)
  BY <1>1 DEF OfSession
<1>5. \A t, e : OfDay(more, t, e) = OfDay(rows, t, e)
  BY <1>1, <1>4 DEF OfDay, OfSession
<1>6. \A t : \A i \in OfSession(rows, t) : i \in 1..Len(rows)
  BY <1>1 DEF OfSession
<1>7. WithinAll(more)
  <2> SUFFICES ASSUME NEW t \in Nat
               PROVE  /\ WithinLimit(more, OfSession(more, t), SessionLimit)
                      /\ \A e \in Nat : WithinLimit(more, OfDay(more, t, e), DayLimit)
    BY DEF WithinAll
  <2>1. WithinLimit(rows, OfSession(rows, t), SessionLimit)
        /\ \A e \in Nat : WithinLimit(rows, OfDay(rows, t, e), DayLimit)
    BY DEF Sound, WithinAll
  <2>2. ASSUME NEW S, NEW limit, \A i \in S : i \in 1..Len(rows), WithinLimit(rows, S, limit)
        PROVE  WithinLimit(more, S, limit)
    BY <1>2, <1>3, <2>2 DEF WithinLimit
  <2>3. \A e : \A i \in OfDay(rows, t, e) : i \in 1..Len(rows)
    BY <1>6 DEF OfDay
  <2> QED
    BY <1>4, <1>5, <1>6, <2>1, <2>2, <2>3
<1>8. ASSUME NEW i \in 1..Len(more)
      PROVE  /\ Sized(more[i]) /\ more[i].day <= d
             /\ more[i].open => i = Len(more) /\ HasRoom(more, i, s, d)
  <2>1. /\ Sized(rows[i]) /\ rows[i].day <= d
        /\ rows[i].open => i = Len(rows) /\ HasRoom(rows, i, s, d)
    BY DEF Sound
  <2>2. Sized(more[i]) /\ more[i].day <= d
    BY <2>1 DEF Sized
  <2>3. HasRoom(rows, i, s, d) => HasRoom(more, i, s, d)
    BY <1>3, <1>4, <1>5 DEF HasRoom
  <2> QED
    BY <2>1, <2>2, <2>3
<1> QED
  BY <1>7, <1>8 DEF Sound

LEMMA SoundWithout ==
    ASSUME NEW rows, NEW s \in Nat, NEW d \in Nat, Sound(rows, s, d), NEW S
    PROVE  Sound(Without(rows, S), s, d)
<1> PICK more : more = Without(rows, S)
  OBVIOUS
<1>1. rows \in Seq(TradeRow) /\ more \in Seq(TradeRow) /\ Len(rows) \in Nat /\ Len(more) \in Nat
  BY WithoutRows DEF Sound
<1>2. ASSUME NEW t, NEW e, NEW limit \in Nat
      PROVE  /\ WithinLimit(rows, OfSession(rows, t), limit) =>
                    /\ WithinLimit(more, OfSession(more, t), limit)
                    /\ LossOf(more, OfSession(more, t)) <= LossOf(rows, OfSession(rows, t))
             /\ WithinLimit(rows, OfDay(rows, t, e), limit) =>
                    /\ WithinLimit(more, OfDay(more, t, e), limit)
                    /\ LossOf(more, OfDay(more, t, e)) <= LossOf(rows, OfDay(rows, t, e))
  <2>1. OfSession(rows, t) = Where(rows, Kinds(t)) /\ OfSession(more, t) = Where(more, Kinds(t))
    BY <1>1, KindsAre
  <2>2. OfDay(rows, t, e) = Where(rows, DayKinds(t, e)) /\ OfDay(more, t, e) = Where(more, DayKinds(t, e))
    BY <1>1, KindsAre
  <2> QED
    BY <1>1, <2>1, <2>2, WithoutWithin
<1>3. WithinAll(more)
  <2>1. WithinAll(rows)
    BY DEF Sound
  <2> QED
    BY <1>2, <2>1, LimitsAre DEF WithinAll
<1>4. ASSUME NEW k \in 1..Len(more)
      PROVE  /\ Sized(more[k]) /\ more[k].day <= d
             /\ more[k].open => k = Len(more) /\ HasRoom(more, k, s, d)
  <2>1. PICK j \in 1..Len(rows) : more[k] = rows[j] /\ (j = Len(rows) => k = Len(more))
    <3>1. rows \in Seq(TradeRow) /\ more = Without(rows, S)
      BY <1>1
    <3>2. ComesFrom(rows, S, more)
      BY ONLY <3>1, WithoutRows
    <3> QED
      BY <3>2 DEF ComesFrom
  <2>2. /\ Sized(rows[j]) /\ rows[j].day <= d
        /\ rows[j].open => j = Len(rows) /\ HasRoom(rows, j, s, d)
    BY DEF Sound
  <2>3. Sized(more[k]) /\ more[k].day <= d
    BY <2>1, <2>2
  <2>4. ASSUME more[k].open PROVE k = Len(more) /\ HasRoom(more, k, s, d)
    <3>1. j = Len(rows) /\ HasRoom(rows, j, s, d)
      BY <2>1, <2>2, <2>4
    <3>2. WithinLimit(rows, OfSession(rows, s), SessionLimit) /\ WithinLimit(rows, OfDay(rows, s, d), DayLimit)
      BY DEF Sound, WithinAll
    <3>3. /\ LossOf(more, OfSession(more, s)) <= LossOf(rows, OfSession(rows, s))
          /\ LossOf(more, OfDay(more, s, d)) <= LossOf(rows, OfDay(rows, s, d))
      BY <1>2, <3>2, LimitsAre
    <3> PICK a : a = LossOf(more, OfSession(more, s))
      OBVIOUS
    <3> PICK b : b = LossOf(rows, OfSession(rows, s))
      OBVIOUS
    <3> PICK x : x = LossOf(more, OfDay(more, s, d))
      OBVIOUS
    <3> PICK y : y = LossOf(rows, OfDay(rows, s, d))
      OBVIOUS
    <3> PICK r : r = rows[j].risk
      OBVIOUS
    <3>4. a \in Nat /\ b \in Nat /\ x \in Nat /\ y \in Nat
      BY <1>1, LossesSeq
    <3>5. r \in Nat
      <4>1. rows[j] \in TradeRow
        BY <1>1
      <4> QED
        BY <4>1 DEF TradeRow
    <3>6. b + r <= SessionLimit /\ y + r <= DayLimit /\ rows[j].pnl = 0 /\ rows[j].session = s
      BY <3>1 DEF HasRoom
    <3>7. a + r <= SessionLimit /\ x + r <= DayLimit
      <4>1. a <= b /\ x <= y
        BY <3>3
      <4> QED
        BY ONLY <3>4, <3>5, <3>6, <4>1, LimitsAre
    <3>8. HasRoom(more, k, s, d)
      BY <2>1, <3>6, <3>7 DEF HasRoom
    <3> QED
      BY <2>1, <3>1, <3>8
  <2> QED
    BY <2>3, <2>4
<1>5. Sound(more, s, d)
  BY <1>1, <1>3, <1>4 DEF Sound
<1> QED
  BY <1>5

\* A new trade has lost nothing yet and fits into what is left.
LEMMA SoundOpen ==
    ASSUME NEW rows, NEW s \in Nat, NEW d \in Nat, Sound(rows, s, d),
           \A i \in 1..Len(rows) : ~rows[i].open,
           NEW row \in TradeRow, row.pnl = 0, row.session = s, row.day = d, Sized(row),
           LossOf(rows, OfSession(rows, s)) + row.risk <= SessionLimit,
           LossOf(rows, OfDay(rows, s, d)) + row.risk <= DayLimit
    PROVE  Sound(Append(rows, row), s, d)
<1> PICK more : more = Append(rows, row)
  OBVIOUS
<1> PICK m : m = Len(rows)
  OBVIOUS
<1> PICK n : n = m + 1
  OBVIOUS
<1>1. rows \in Seq(TradeRow) /\ m \in Nat /\ DOMAIN rows = 1..m
  BY DEF Sound
<1>2. /\ more \in Seq(TradeRow) /\ Len(more) = n /\ DOMAIN more = 1..n /\ more[n] = row
      /\ \A i \in 1..m : more[i] = rows[i] /\ i \in 1..n /\ i # n
      /\ \A i \in 1..n : i # n => i \in 1..m
  BY ONLY <1>1, row \in TradeRow, more = Append(rows, row), m = Len(rows), n = m + 1
<1>3. Lost(row) = 0
  BY DEF Lost, Positive
<1>4. ASSUME NEW t, NEW e
      PROVE  /\ LossOf(more, OfSession(more, t)) = LossOf(rows, OfSession(rows, t))
             /\ LossOf(more, OfDay(more, t, e)) = LossOf(rows, OfDay(rows, t, e))
  <2>1. ASSUME NEW S, NEW M, \A i \in 1..m : i \in S <=> i \in M
        PROVE  LossOf(more, M) = LossOf(rows, S)
    <3>1. \A i \in 1..Len(rows) : i \in S <=> i \in M
      BY <2>1
    <3>2. LossOf(more, M) = LossOf(rows, S) + (IF Len(rows) + 1 \in M THEN Lost(row) ELSE 0)
      BY ONLY <1>1, <3>1, row \in TradeRow, more = Append(rows, row), LossAppend
    <3>3. LossOf(rows, S) \in Nat
      BY <1>1, LossesSeq
    <3> QED
      BY <1>3, <3>2, <3>3
  <2>2. \A i \in 1..m : i \in OfSession(rows, t) <=> i \in OfSession(more, t)
    BY <1>1, <1>2 DEF OfSession
  <2>3. \A i \in 1..m : i \in OfDay(rows, t, e) <=> i \in OfDay(more, t, e)
    BY <1>2, <2>2 DEF OfDay, OfSession
  <2> QED
    BY <2>1, <2>2, <2>3
<1>5. \A t : /\ OfSession(rows, t) \subseteq OfSession(more, t) /\ OfSession(rows, t) \subseteq 1..m
             /\ \A e : OfDay(rows, t, e) \subseteq OfDay(more, t, e) /\ OfDay(rows, t, e) \subseteq 1..m
  BY <1>1, <1>2 DEF OfSession, OfDay
<1>6. ASSUME NEW S, NEW M, NEW limit, S \subseteq M, S \subseteq 1..m,
             LossOf(more, M) = LossOf(rows, S), WithinLimit(rows, S, limit)
      PROVE  WithinLimit(more, M, limit)
  BY <1>2, <1>6 DEF WithinLimit
<1>7. WithinAll(more)
  <2>1. WithinAll(rows)
    BY DEF Sound
  <2> QED
    BY <1>4, <1>5, <1>6, <2>1 DEF WithinAll
<1>8. HasRoom(more, n, s, d)
  BY <1>2, <1>4 DEF HasRoom
<1>9. ASSUME NEW i \in 1..n
      PROVE  /\ Sized(more[i]) /\ more[i].day <= d
             /\ more[i].open => i = n /\ HasRoom(more, i, s, d)
  <2>1. CASE i = n
    BY <1>2, <1>8, <2>1
  <2>2. CASE i # n
    <3>1. i \in 1..m /\ more[i] = rows[i]
      BY <1>2, <2>2
    <3>2. Sized(rows[i]) /\ rows[i].day <= d /\ ~rows[i].open
      BY <3>1 DEF Sound
    <3> QED
      BY <3>1, <3>2
  <2> QED
    BY <2>1, <2>2
<1>10. Sound(more, s, d)
  BY <1>2, <1>7, <1>9 DEF Sound
<1> QED
  BY <1>10

\* The open trade closes: with a win, at its stop, or beyond it.
Closes(row, next, d) ==
    /\ next.open = FALSE /\ next.day = d /\ next.session = row.session
    /\ next.risk = row.risk /\ next.equity = row.equity
    /\ next.pnl >= 0 \/ \E gap \in Nat : next.pnl = 0 - (row.risk + gap)

LEMMA SoundClose ==
    ASSUME NEW rows, NEW s \in Nat, NEW d \in Nat, Sound(rows, s, d),
           NEW i \in 1..Len(rows), rows[i].open,
           NEW more \in Seq(TradeRow), Len(more) = Len(rows), Closes(rows[i], more[i], d),
           \A k \in 1..Len(rows) : k # i => more[k] = rows[k]
    PROVE  Sound(more, s, d)
<1> PICK m : m = Len(rows)
  OBVIOUS
<1> PICK row : row = rows[i]
  OBVIOUS
<1> PICK next : next = more[i]
  OBVIOUS
<1> PICK r : r = row.risk
  OBVIOUS
<1>1. /\ rows \in Seq(TradeRow) /\ m \in Nat /\ DOMAIN rows = 1..m /\ DOMAIN more = 1..m /\ i \in 1..m
      /\ i = m /\ HasRoom(rows, i, s, d)
  BY DEF Sound
<1>2. row \in TradeRow /\ next \in TradeRow /\ r \in Nat /\ next.pnl \in Int
  <2>1. \A k \in 1..Len(rows) : rows[k] \in TradeRow
    <3>1. rows \in Seq(TradeRow)
      BY <1>1
    <3> QED
      BY ONLY <3>1
  <2>2. \A k \in 1..Len(more) : more[k] \in TradeRow
    OBVIOUS
  <2>3. row \in TradeRow /\ next \in TradeRow
    BY <2>1, <2>2
  <2> QED
    BY <2>3 DEF TradeRow
<1>3. /\ row.pnl = 0 /\ row.session = s /\ next.session = s /\ next.day = d /\ next.risk = r
      /\ LossOf(rows, OfSession(rows, s)) + r <= SessionLimit
      /\ LossOf(rows, OfDay(rows, s, d)) + r <= DayLimit
      /\ ~next.open
  BY <1>1 DEF HasRoom, Closes
<1>4. Lost(row) = 0 /\ Excess(row) = 0
  BY <1>2, <1>3 DEF Lost, Excess, Positive
<1>5. Lost(next) \in Nat /\ Excess(next) \in Nat /\ Lost(next) <= r + Excess(next)
  <2> PICK p : p = next.pnl
    OBVIOUS
  <2>1. p >= 0 \/ \E gap \in Nat : p = 0 - (r + gap)
    BY DEF Closes
  <2>2. Lost(next) = Positive(0 - p) /\ Excess(next) = Positive(0 - p - r)
    BY <1>3 DEF Lost, Excess
  <2>3. p \in Int /\ r \in Nat
    BY <1>2
  <2> QED
    BY ONLY <2>1, <2>2, <2>3 DEF Positive
<1>6. ASSUME NEW S, NEW M, NEW limit \in Nat, \A k \in 1..m : k # i => (k \in S <=> k \in M),
             S \subseteq 1..m, WithinLimit(rows, S, limit),
             i \in M => LossOf(rows, S) + r <= limit
      PROVE  WithinLimit(more, M, limit)
  <2> PICK before : before = LossOf(rows, S)
    OBVIOUS
  <2> PICK after : after = LossOf(more, M)
    OBVIOUS
  <2>1. after = before + (IF i \in M THEN Lost(next) ELSE 0) /\ before \in Nat
    <3>1. /\ rows \in Seq(TradeRow) /\ more \in Seq(TradeRow) /\ Len(more) = Len(rows)
          /\ i \in 1..Len(rows) /\ Lost(rows[i]) = 0
          /\ \A k \in 1..Len(rows) : k # i => more[k] = rows[k] /\ (k \in S <=> k \in M)
      BY <1>1, <1>4, <1>6
    <3>2. LossOf(more, M) = LossOf(rows, S) + (IF i \in M THEN Lost(more[i]) ELSE 0)
      BY ONLY <3>1, LossPut
    <3>3. LossOf(rows, S) \in Nat
      BY <1>1, LossesSeq
    <3> QED
      BY <3>2, <3>3
  <2>2. CASE i \in M
    <3>1. before + r <= limit /\ after = before + Lost(next)
      BY <1>6, <2>1, <2>2
    <3>2. after <= limit + Excess(next)
      BY ONLY <1>2, <1>5, <2>1, <3>1, <1>6
    <3> QED
      BY <2>2, <3>2 DEF WithinLimit
  <2>3. CASE i \notin M
    <3>1. after = before
      BY <2>1, <2>3
    <3>2. CASE before <= limit
      BY <3>1, <3>2 DEF WithinLimit
    <3>3. CASE ~(before <= limit)
      <4>1. PICK k \in S : before <= limit + Excess(rows[k])
        BY <1>6, <3>3 DEF WithinLimit
      <4>2. k # i
        <5>1. limit + 0 = limit
          OBVIOUS
        <5> QED
          BY <1>4, <3>3, <4>1, <5>1
      <4>3. k \in M /\ more[k] = rows[k]
        BY <1>6, <4>1, <4>2
      <4> QED
        BY <3>1, <4>1, <4>3 DEF WithinLimit
    <3> QED
      BY <3>2, <3>3
  <2> QED
    BY <2>2, <2>3
<1>7. ASSUME NEW t \in Nat
      PROVE  /\ WithinLimit(more, OfSession(more, t), SessionLimit)
             /\ \A e \in Nat : WithinLimit(more, OfDay(more, t, e), DayLimit)
  <2>1. /\ WithinLimit(rows, OfSession(rows, t), SessionLimit)
        /\ \A e \in Nat : WithinLimit(rows, OfDay(rows, t, e), DayLimit)
    BY DEF Sound, WithinAll
  <2>2. /\ \A k \in 1..m : k # i => (k \in OfSession(rows, t) <=> k \in OfSession(more, t))
        /\ \A e : \A k \in 1..m : k # i => (k \in OfDay(rows, t, e) <=> k \in OfDay(more, t, e))
    BY <1>1 DEF OfSession, OfDay
  <2>3. /\ OfSession(rows, t) \subseteq 1..m
        /\ \A e : OfDay(rows, t, e) \subseteq 1..m
    BY <1>1 DEF OfSession, OfDay
  <2>4. /\ i \in OfSession(more, t) => t = s
        /\ \A e : i \in OfDay(more, t, e) => t = s /\ e = d
    BY <1>3 DEF OfSession, OfDay
  <2>5. WithinLimit(more, OfSession(more, t), SessionLimit)
    BY <1>3, <1>6, <2>1, <2>2, <2>3, <2>4, LimitsAre
  <2>6. ASSUME NEW e \in Nat PROVE WithinLimit(more, OfDay(more, t, e), DayLimit)
    BY <1>3, <1>6, <2>1, <2>2, <2>3, <2>4, LimitsAre
  <2> QED
    BY <2>5, <2>6
<1>8. ASSUME NEW k \in 1..m
      PROVE  /\ Sized(more[k]) /\ more[k].day <= d
             /\ more[k].open => k = m /\ HasRoom(more, k, s, d)
  <2>1. CASE k = i
    <3>1. Sized(row) /\ Sized(next)
      BY DEF Sound, Closes, Sized
    <3> QED
      BY <1>3, <2>1, <3>1
  <2>2. CASE k # i
    <3>1. Sized(rows[k]) /\ rows[k].day <= d /\ ~rows[k].open /\ more[k] = rows[k]
      BY <1>1, <2>2 DEF Sound
    <3> QED
      BY <3>1
  <2> QED
    BY <2>1, <2>2
<1> QED
  BY <1>1, <1>7, <1>8 DEF Sound, WithinAll

-----------------------------------------------------------------------------
\* What sizes an entry is kept in range by every request, a forward test included.
SizeShape ==
    /\ today \in Nat
    /\ DOMAIN conf = {"enabled", "risk", "session"}
    /\ conf.risk \in 0..RiskCap /\ conf.session \in Nat
    /\ DOMAIN tests = Testers
    /\ \A f \in Testers : tests[f].pc \in {"loaded", "read"} => tests[f].risk \in 0..RiskCap

LossInv == SizeShape /\ Sound(tradeRows, conf.session, today)

LEMMA AppliedRisk == \A risk \in Risks : Applied(risk) \in 0..RiskCap
<1>1. RiskCap \in Nat /\ Risks \subseteq Nat
  BY TradeBookAssumption
<1> QED
  BY <1>1 DEF Applied, Least

LEMMA InitLoss == BookInit => LossInv
<1> SUFFICES ASSUME BookInit PROVE LossInv
  OBVIOUS
<1>1. SizeShape
  <2>1. RiskCap \in Nat
    BY TradeBookAssumption
  <2> QED
    BY <2>1 DEF BookInit, SizeShape, NoTest
<1>2. tradeRows = << >> /\ conf.session = 0 /\ today = 0
  BY DEF BookInit
<1> QED
  BY <1>1, <1>2, SoundStart DEF LossInv

LEMMA NothingOpen ==
    ASSUME LossInv, OpenRows = {}
    PROVE  \A i \in 1..Len(tradeRows) : ~tradeRows[i].open
<1>1. DOMAIN tradeRows = 1..Len(tradeRows)
  BY DEF LossInv, Sound
<1> QED
  BY <1>1 DEF OpenRows

\* Steps that leave the trades and the day alone.
LEMMA SameBook ==
    ASSUME LossInv, SizeShape', tradeRows' = tradeRows, today' = today,
           conf'.session = conf.session \/ OpenRows = {}
    PROVE  LossInv'
<1>1. CASE conf'.session = conf.session
  BY <1>1 DEF LossInv
<1>2. CASE OpenRows = {}
  <2>1. \A i \in 1..Len(tradeRows) : ~tradeRows[i].open
    BY <1>2, NothingOpen
  <2>2. Sound(tradeRows, conf'.session, today)
    BY <2>1, SoundSession DEF LossInv
  <2> QED
    BY <2>2 DEF LossInv
<1> QED
  BY <1>1, <1>2

LEMMA RunLoss == ASSUME LossInv, RunNext PROVE LossInv'
<1>1. SizeShape
  BY DEF LossInv
<1>2. CASE StartPaper
  <2>1. SizeShape'
    BY <1>1, <1>2 DEF StartPaper, SizeShape, Began
  <2>2. conf'.session = conf.session \/ OpenRows = {}
    BY <1>1, <1>2 DEF StartPaper, SizeShape, Began
  <2> QED
    BY <1>2, <2>1, <2>2, SameBook DEF StartPaper
<1>3. CASE StopPaper
  <2>1. SizeShape' /\ conf'.session = conf.session
    BY <1>1, <1>3 DEF StopPaper, SizeShape
  <2> QED
    BY <1>3, <2>1, SameBook DEF StopPaper
<1>4. CASE NextSession
  <2>1. SizeShape'
    BY <1>1, <1>4 DEF NextSession, SizeShape
  <2> QED
    BY <1>4, <2>1, SameBook DEF NextSession
<1>5. CASE ResumeStrategy
  <2>1. SizeShape' /\ conf'.session = conf.session
    BY <1>1, <1>5 DEF ResumeStrategy, SizeShape, Began
  <2> QED
    BY <1>5, <2>1, SameBook DEF ResumeStrategy
<1>6. ASSUME NEW enabled \in BOOLEAN, NEW risk \in Risks, PatchConfig(enabled, risk) PROVE LossInv'
  <2>1. SizeShape' /\ conf'.session = conf.session
    BY <1>1, <1>6, AppliedRisk DEF PatchConfig, SizeShape
  <2> QED
    BY <1>6, <2>1, SameBook DEF PatchConfig
<1> QED
  BY <1>2, <1>3, <1>4, <1>5, <1>6 DEF RunNext

LEMMA TestLoss == ASSUME LossInv, TestNext PROVE LossInv'
<1>1. SizeShape
  BY DEF LossInv
<1>2. ASSUME NEW f \in Testers, TestRead(f) PROVE LossInv'
  <2>1. tests[f].pc = "loaded" /\ tests[f].risk \in 0..RiskCap
    BY <1>1, <1>2 DEF TestRead, SizeShape
  <2>2. PICK next : next.risk = tests[f].risk /\ tests' = [tests EXCEPT ![f] = next]
    <3> DEFINE holds == (IF Dirty(f) THEN {"conf"} ELSE {})
                            \cup (IF Going(ladder) # ladder THEN {"state"} ELSE {})
               next == [pc |-> "read", conf |-> tests[f].conf, risk |-> tests[f].risk,
                        holds |-> holds, ladder |-> ladder, run |-> ActiveRun]
    <3>1. tests' = [tests EXCEPT ![f] = next]
      BY <1>1, <1>2 DEF TestRead, SizeShape
    <3>2. next.risk = tests[f].risk
      OBVIOUS
    <3> HIDE DEF next
    <3> QED
      BY <3>1, <3>2
  <2>3. DOMAIN tests' = Testers /\ \A g \in Testers : tests'[g] = IF g = f THEN next ELSE tests[g]
    BY <1>1, <2>2 DEF SizeShape
  <2>4. SizeShape' /\ conf' = conf
    BY <1>1, <1>2, <2>1, <2>2, <2>3 DEF TestRead, SizeShape
  <2> QED
    BY <1>2, <2>4, SameBook DEF TestRead
<1>3. ASSUME NEW f \in Testers, TestCommit(f) PROVE LossInv'
  <2>1. tests[f].pc = "read" /\ tests[f].risk \in 0..RiskCap
    BY <1>1, <1>3 DEF TestCommit, SizeShape
  <2>2. conf'.risk \in {conf.risk, tests[f].risk} /\ conf'.session = conf.session
        /\ DOMAIN conf' = DOMAIN conf
    BY <1>1, <1>3 DEF TestCommit, SizeShape
  <2>3. DOMAIN tests' = Testers /\ \A g \in Testers : tests'[g] = IF g = f THEN NoTest ELSE tests[g]
    BY <1>1, <1>3 DEF TestCommit, SizeShape
  <2>4. SizeShape'
    BY <1>1, <1>3, <2>1, <2>2, <2>3 DEF TestCommit, SizeShape, NoTest
  <2> QED
    BY <1>3, <2>2, <2>4, SameBook DEF TestCommit
<1>4. ASSUME NEW f \in Testers, NEW risk \in Risks, TestLoad(f, risk) PROVE LossInv'
  <2> PICK next : next = [pc |-> "loaded", conf |-> conf, risk |-> Applied(risk), holds |-> {}]
    OBVIOUS
  <2>1. next.risk \in 0..RiskCap
    BY AppliedRisk
  <2>2. DOMAIN tests' = Testers /\ \A g \in Testers : tests'[g] = IF g = f THEN next ELSE tests[g]
    BY <1>1, <1>4 DEF TestLoad, SizeShape
  <2>3. SizeShape' /\ conf' = conf
    BY <1>1, <1>4, <2>1, <2>2 DEF TestLoad, SizeShape
  <2> QED
    BY <1>4, <2>3, SameBook DEF TestLoad
<1>5. ASSUME NEW r \in RunRows, TimerLoad(r) PROVE LossInv'
  <2>1. SizeShape' /\ conf' = conf
    BY <1>1, <1>5 DEF TimerLoad, SizeShape
  <2> QED
    BY <1>5, <2>1, SameBook DEF TimerLoad
<1>6. ASSUME NEW r \in RunRows, TimerCommit(r) PROVE LossInv'
  <2>1. SizeShape' /\ conf'.session = conf.session
    BY <1>1, <1>6 DEF TimerCommit, SizeShape
  <2> QED
    BY <1>6, <2>1, SameBook DEF TimerCommit
<1>7. CASE RestartBook
  <2>1. SizeShape' /\ conf' = conf
    BY <1>1, <1>7 DEF RestartBook, SizeShape, NoTest
  <2> QED
    BY <1>7, <2>1, SameBook DEF RestartBook
<1> QED
  BY <1>2, <1>3, <1>4, <1>5, <1>6, <1>7 DEF TestNext

\* Steps that leave what sizes an entry alone.
LEMMA SameSize ==
    ASSUME LossInv, UNCHANGED <<today, runVars>>, Sound(tradeRows', conf.session, today)
    PROVE  LossInv'
BY DEF LossInv, SizeShape, runVars

LEMMA OpenLoss == ASSUME LossInv, OpenEntry PROVE LossInv'
<1> PICK row : row = [open |-> TRUE, pnl |-> 0, day |-> today, session |-> conf.session,
                      risk |-> BoundedMargin \div LossPart, equity |-> AvailableEquity,
                      archived |-> FALSE]
  OBVIOUS
<1>1. tradeRows \in Seq(TradeRow) /\ today \in Nat /\ conf.session \in Nat /\ conf.risk \in 0..RiskCap
      /\ Sound(tradeRows, conf.session, today) /\ DOMAIN tradeRows = 1..Len(tradeRows)
  BY DEF LossInv, SizeShape, Sound
<1>2. /\ BoundedMargin \div LossPart \in Nat /\ AvailableEquity \in Int
      /\ (BoundedMargin \div LossPart) * RiskUnit <= RiskCap * AvailableEquity
      /\ DailyLoss + BoundedMargin \div LossPart <= DayLimit
      /\ TotalLoss + BoundedMargin \div LossPart <= SessionLimit
  BY <1>1, EntryRisk DEF OpenEntry
<1>3. \A i \in 1..Len(tradeRows) : ~tradeRows[i].open
  BY NothingOpen DEF OpenEntry
<1>4. TotalLoss = LossOf(tradeRows, OfSession(tradeRows, conf.session))
  <2>1. Account = OfSession(tradeRows, conf.session)
    BY <1>1, <1>3 DEF Account, InAccount, OfSession
  <2> QED
    BY <2>1 DEF TotalLoss
<1>5. DailyLoss = LossOf(tradeRows, OfDay(tradeRows, conf.session, today))
  <2>1. {i \in Account : tradeRows[i].day = today} = OfDay(tradeRows, conf.session, today)
    BY <1>1, <1>3 DEF Account, InAccount, OfSession, OfDay
  <2> QED
    BY <2>1 DEF DailyLoss
<1>6. row \in TradeRow /\ row.pnl = 0 /\ row.session = conf.session /\ row.day = today
      /\ row.risk = BoundedMargin \div LossPart /\ row.equity = AvailableEquity
  BY <1>1, <1>2 DEF TradeRow
<1>7. Sized(row) /\ LossOf(tradeRows, OfSession(tradeRows, conf.session)) + row.risk <= SessionLimit
      /\ LossOf(tradeRows, OfDay(tradeRows, conf.session, today)) + row.risk <= DayLimit
  BY <1>2, <1>4, <1>5, <1>6 DEF Sized
<1>8. Sound(Append(tradeRows, row), conf.session, today)
  BY <1>1, <1>3, <1>6, <1>7, SoundOpen
<1>9. tradeRows' = Append(tradeRows, row) /\ UNCHANGED <<today, runVars>>
  BY DEF OpenEntry
<1> QED
  BY <1>8, <1>9, SameSize

LEMMA CloseLoss ==
    ASSUME LossInv, NEW i \in DOMAIN tradeRows, CloseEntry(i) PROVE LossInv'
<1>1. PICK pnl \in Wins \cup {0 - (tradeRows[i].risk + gap) : gap \in Gaps \cup {0}} :
        /\ tradeRows[i].open
        /\ BookClose(pnl)
        /\ tradeRows' = [tradeRows EXCEPT ![i].open = FALSE, ![i].pnl = pnl, ![i].day = today]
        /\ UNCHANGED <<today, tests, timers, crossed>>
  BY DEF CloseEntry
<1>2. tradeRows \in Seq(TradeRow) /\ today \in Nat /\ conf.session \in Nat
      /\ Sound(tradeRows, conf.session, today) /\ DOMAIN tradeRows = 1..Len(tradeRows)
  BY DEF LossInv, SizeShape, Sound
<1>3. Wins \subseteq Nat /\ Gaps \subseteq Nat
  BY TradeBookAssumption
<1> PICK row : row = tradeRows[i]
  OBVIOUS
<1> PICK next : next = [row EXCEPT !.open = FALSE, !.pnl = pnl, !.day = today]
  OBVIOUS
<1>4. i \in 1..Len(tradeRows) /\ row \in TradeRow
  BY <1>2
<1>5. row.risk \in Nat
  BY <1>4 DEF TradeRow
<1>6. pnl \in Nat \/ \E gap \in Nat : pnl = 0 - (row.risk + gap)
  BY <1>1, <1>3
<1>7. pnl \in Int
  BY <1>5, <1>6
<1>8. next \in TradeRow
  BY <1>2, <1>4, <1>7 DEF TradeRow
<1>9. Closes(row, next, today)
  <2>1. next.open = FALSE /\ next.day = today /\ next.session = row.session
        /\ next.risk = row.risk /\ next.equity = row.equity /\ next.pnl = pnl
    BY <1>4 DEF TradeRow
  <2> QED
    BY <1>6, <2>1 DEF Closes
<1>10. tradeRows' = [tradeRows EXCEPT ![i] = next]
  BY <1>1
<1> PICK more : more = [tradeRows EXCEPT ![i] = next]
  OBVIOUS
<1>11. more \in Seq(TradeRow) /\ Len(more) = Len(tradeRows) /\ more[i] = next
       /\ \A k \in 1..Len(tradeRows) : k # i => more[k] = tradeRows[k]
  <2>1. more = [k \in 1..Len(tradeRows) |-> IF k = i THEN next ELSE tradeRows[k]]
    BY <1>2
  <2>2. Len(tradeRows) \in Nat /\ \A k \in 1..Len(tradeRows) : tradeRows[k] \in TradeRow
    BY ONLY <1>2
  <2>3. more[i] = next /\ \A k \in 1..Len(tradeRows) : k # i => more[k] = tradeRows[k]
    BY ONLY <1>4, <2>1
  <2>4. \A k \in 1..Len(tradeRows) : more[k] \in TradeRow
    BY ONLY <1>8, <2>2, <2>3
  <2>5. DOMAIN more = 1..Len(tradeRows)
    BY ONLY <2>1
  <2>6. more \in Seq(TradeRow) /\ Len(more) = Len(tradeRows)
    BY ONLY <2>1, <2>2, <2>4, <2>5
  <2> QED
    BY <2>3, <2>6
<1>12. Sound(more, conf.session, today)
  <2>1. tradeRows[i].open /\ Closes(tradeRows[i], more[i], today)
    BY ONLY <1>1, <1>9, <1>11, row = tradeRows[i]
  <2> PICK rows : rows = tradeRows
    OBVIOUS
  <2> PICK s, d : s = conf.session /\ d = today
    OBVIOUS
  <2>2. Sound(rows, s, d) /\ s \in Nat /\ d \in Nat /\ i \in 1..Len(rows)
        /\ rows[i].open /\ Closes(rows[i], more[i], d) /\ Len(more) = Len(rows)
        /\ more \in Seq(TradeRow) /\ \A k \in 1..Len(rows) : k # i => more[k] = rows[k]
    BY <1>2, <1>4, <1>11, <2>1
  <2>3. Sound(more, s, d)
    BY ONLY <2>2, SoundClose
  <2> QED
    BY <2>3
<1>13. conf'.session = conf.session /\ conf'.risk = conf.risk /\ DOMAIN conf' = DOMAIN conf
  BY <1>1 DEF BookClose, LossInv, SizeShape
<1> QED
  BY <1>1, <1>10, <1>12, <1>13 DEF LossInv, SizeShape

LEMMA ArchiveLoss ==
    ASSUME LossInv, NEW S, NEW yes \in BOOLEAN, Archived(S, yes) PROVE LossInv'
<1> PICK more : more = [i \in DOMAIN tradeRows |->
                          IF i \in S THEN [tradeRows[i] EXCEPT !.archived = yes] ELSE tradeRows[i]]
  OBVIOUS
<1>1. tradeRows \in Seq(TradeRow) /\ DOMAIN tradeRows = 1..Len(tradeRows) /\ Len(tradeRows) \in Nat
      /\ Sound(tradeRows, conf.session, today)
  BY DEF LossInv, Sound
<1>2. \A i \in 1..Len(tradeRows) : tradeRows[i] \in TradeRow
  BY <1>1
<1>3. ASSUME NEW row \in TradeRow
      PROVE  LET put == [row EXCEPT !.archived = yes]
             IN  /\ put \in TradeRow /\ put.open = row.open /\ put.pnl = row.pnl
                 /\ put.day = row.day /\ put.session = row.session
                 /\ put.risk = row.risk /\ put.equity = row.equity
  BY DEF TradeRow
<1>4. ASSUME NEW i \in 1..Len(tradeRows)
      PROVE  /\ more[i] \in TradeRow
             /\ more[i].open = tradeRows[i].open /\ more[i].pnl = tradeRows[i].pnl
             /\ more[i].day = tradeRows[i].day /\ more[i].session = tradeRows[i].session
             /\ more[i].risk = tradeRows[i].risk /\ more[i].equity = tradeRows[i].equity
  <2>1. tradeRows[i] \in TradeRow
    BY <1>2
  <2>2. more[i] = IF i \in S THEN [tradeRows[i] EXCEPT !.archived = yes] ELSE tradeRows[i]
    BY <1>1
  <2>3. CASE i \in S
    BY <1>3, <2>1, <2>2, <2>3
  <2>4. CASE i \notin S
    BY <2>1, <2>2, <2>4
  <2> QED
    BY <2>3, <2>4
<1>5. DOMAIN more = 1..Len(tradeRows)
  BY <1>1
<1>6. more \in Seq(TradeRow) /\ Len(more) = Len(tradeRows)
  BY <1>1, <1>4, <1>5
<1>7. Sound(more, conf.session, today)
  BY <1>1, <1>4, <1>6, SoundArchive
<1>8. tradeRows' = more /\ UNCHANGED <<today, runVars>>
  BY DEF Archived
<1> QED
  BY <1>7, <1>8, SameSize

LEMMA DeleteLoss == ASSUME LossInv, NEW S, Deleted(S) PROVE LossInv'
<1>1. Sound(tradeRows, conf.session, today) /\ conf.session \in Nat /\ today \in Nat
  BY DEF LossInv, SizeShape
<1>2. Sound(Without(tradeRows, S), conf.session, today)
  BY <1>1, SoundWithout
<1> QED
  BY <1>2, SameSize DEF Deleted

LEMMA StepLoss == LossInv /\ [BookNext]_bookVars => LossInv'
<1> SUFFICES ASSUME LossInv, [BookNext]_bookVars PROVE LossInv'
  OBVIOUS
<1>1. CASE OpenEntry
  BY <1>1, OpenLoss
<1>2. CASE ArchiveAll \/ UnarchiveAll \/ \E i \in DOMAIN tradeRows : ArchiveTrade(i)
  BY <1>2, ArchiveLoss DEF ArchiveAll, UnarchiveAll, ArchiveTrade
<1>3. CASE DeleteAllArchived \/ \E i \in DOMAIN tradeRows : DeleteArchived(i)
  BY <1>3, DeleteLoss DEF DeleteAllArchived, DeleteArchived
<1>4. CASE TickBook
  <2>1. Sound(tradeRows, conf.session, today + 1)
    BY SoundDay DEF LossInv, SizeShape
  <2>2. today' = today + 1 /\ tradeRows' = tradeRows /\ conf' = conf /\ tests' = tests
    BY <1>4 DEF TickBook, runVars
  <2>3. SizeShape'
    BY <2>2 DEF LossInv, SizeShape
  <2> QED
    BY <2>1, <2>2, <2>3 DEF LossInv
<1>5. CASE UNCHANGED bookVars
  <2>1. today' = today /\ tradeRows' = tradeRows /\ conf' = conf /\ tests' = tests
    BY <1>5 DEF bookVars, runVars
  <2> QED
    BY <2>1 DEF LossInv, SizeShape
<1>6. CASE \E i \in DOMAIN tradeRows : CloseEntry(i)
  BY <1>6, CloseLoss
<1> QED
  BY <1>1, <1>2, <1>3, <1>4, <1>5, <1>6, RunLoss, TestLoss DEF BookNext, TradeNext

LEMMA LossFacts == LossInv => LossesWithinLimits
<1> SUFFICES ASSUME LossInv PROVE LossesWithinLimits
  OBVIOUS
<1>1. tradeRows \in Seq(TradeRow) /\ DOMAIN tradeRows = 1..Len(tradeRows)
      /\ WithinAll(tradeRows) /\ \A i \in 1..Len(tradeRows) : Sized(tradeRows[i])
  BY DEF LossInv, Sound
<1>2. \A s \in 0..BookSessions : s \in Nat
  OBVIOUS
<1>3. \A d \in 0..BookDays : d \in Nat
  OBVIOUS
<1>4. Metrics.drawdown <= Metrics.lost
  BY <1>1, FallIsLost
<1>5. AvailableEquity = FirstEquity + Metrics.net + Metrics.archived
  BY <1>1, EquityAdds
<1> QED
  BY <1>1, <1>2, <1>3, <1>4, <1>5 DEF LossesWithinLimits, WithinAll, Sized

\* For any amounts, limits and number of trades, days and sessions: no day and no session
\* loses more than its limit and what one position lost beyond its stop, no entry risks
\* more than its part of the equity, and the metrics add up (risk_rejection,
\* bounded_margin, delete_archived_trade, calculate_metrics).
THEOREM LossesBounded == BookSpec => []LossesWithinLimits
<1>1. BookSpec => []LossInv
  BY InitLoss, StepLoss, PTL DEF BookSpec
<1> QED
  BY <1>1, LossFacts, PTL
================================================================================
