-------------------------- MODULE EngraveJobProofs --------------------------
(***************************************************************************)
(* What holds of EngraveJob for every plan, every device and every number  *)
(* of runs: the protocol of its channels, and the books it keeps between   *)
(* the plan and the plate.  Every tick has a place in the plan (upto).     *)
(* The ring, the current Write, the driver's buffer and its window hold    *)
(* one contiguous run of ticks that ends at the last knot fed (Placement); *)
(* what the device has executed is what was fed less what is still on its  *)
(* way (Executed).  What was accounted for, is owed, or waits to be        *)
(* credited may be ahead of that (Lead): by what the device counted and    *)
(* did not execute, in this run or an earlier one, no matter how it was    *)
(* stopped and resumed.  The ticks missing on the plate and the lead       *)
(* together never exceed the surplus (Covered, Backed).  From this follows   *)
(* that a resume leaves no gap and the countdown does not run ahead but    *)
(* for the surplus.                                                        *)
(***************************************************************************)
EXTENDS EngraveJob, FiniteSetTheorems, SequenceTheorems, TLAPS

WorkerStates == {"none", "open", "next", "feed", "write", "wait", "fed",
                 "report", "close", "drain"}

(* The types of the variables of the protocol. *)
ProtocolType ==
  /\ ui \in {"loop", "confirm", "left"}
  /\ poll \in {"progress", "errs", "done", "stats"}
  /\ state \in {"idle", "running", "stopping"} \cup Terminal
  /\ errs \in {"nil", "open"}
  /\ verdict \in {"none", "ok", "fail"} /\ lock \in {"empty", "offered", "lent"}
  /\ worker \in WorkerStates
  /\ released \in BOOLEAN

(* The errs channel tells whether there is a worker or a result of one;    *)
(* the lock channel holds the engraver only while the worker leaves it     *)
(* there; the screen borrows it within one frame.                          *)
Protocol ==
  /\ errs = "nil" => worker = "none" /\ verdict = "none"
  /\ worker # "none" => verdict = "none"
  /\ errs = "open" <=> state \in {"running", "stopping"}
  /\ worker \in {"none", "open", "drain"} => lock = "empty"
  /\ poll = "stats" <=> lock = "lent"
  /\ ui = "left" => poll = "done"
  /\ released => ui = "left" /\ errs = "nil"

ProtocolInv == ProtocolType /\ Protocol

(* A new screen has no worker, no channels and the whole plan before it. *)
LEMMA InitProtocol == Init => ProtocolInv
BY DEF Init, ProtocolInv, ProtocolType, Protocol, Terminal, WorkerStates

(* Every step of the screen keeps the protocol. *)
LEMMA ScreenProtocol ==
  ASSUME ProtocolInv, Screen
  PROVE  ProtocolInv'
<1> USE DEF ProtocolInv, ProtocolType, Protocol, Terminal, WorkerStates
<1>1. CASE StatusProgress
  BY <1>1 DEF StatusProgress, ghost
<1>2. CASE StatusErrs
  BY <1>2 DEF StatusErrs, EndState, ghost
<1>3. CASE Draw
  BY <1>3 DEF Draw, job, chans, ghost
<1>4. CASE BackStops
  BY <1>4 DEF BackStops, Stop, chans, ghost
<1>5. CASE Leave
  BY <1>5 DEF Leave, Stop, ReleaseResumeState, chans
<1>6. CASE Hold
  BY <1>6 DEF Hold, job, chans, ghost
<1>7. CASE LetGo
  BY <1>7 DEF LetGo, job, chans, ghost
<1>8. CASE Start
  BY <1>8 DEF Start, CanStart, chans
<1>9. CASE StatsTake
  BY <1>9 DEF StatsTake, job, ghost
<1>10. CASE StatsReturn
  BY <1>10 DEF StatsReturn, GivenBack, job, ghost
<1> QED
  BY <1>1, <1>2, <1>3, <1>4, <1>5, <1>6, <1>7, <1>8, <1>9, <1>10 DEF Screen

(* Every step of the worker keeps the protocol. *)
LEMMA WorkerProtocol ==
  ASSUME ProtocolInv, Worker
  PROVE  ProtocolInv'
<1> USE DEF ProtocolInv, ProtocolType, Protocol, Terminal, WorkerStates,
            screen, job, ghost
<1>1. CASE OpenFails
  BY <1>1 DEF OpenFails, Finish
<1>2. CASE Opened
  BY <1>2 DEF Opened
<1>3. CASE NextKnot
  BY <1>3 DEF NextKnot, chans
<1>4. CASE Feed
  BY <1>4 DEF Feed, chans
<1>5. CASE HomeFails
  BY <1>5 DEF HomeFails, chans
<1>6. CASE Write
  BY <1>6 DEF Write, chans
<1>7. CASE Tick
  BY <1>7 DEF Tick, chans
<1>8. CASE CatchupFed
  BY <1>8 DEF CatchupFed, chans
<1>9. CASE KnotFed
  BY <1>9 DEF KnotFed, chans
<1>10. CASE Report
  BY <1>10 DEF Report
<1>11. CASE FlushDriver
  BY <1>11 DEF FlushDriver, chans
<1>12. CASE DriverFlushed
  BY <1>12 DEF DriverFlushed, chans
<1>13. CASE CloseFailed
  BY <1>13 DEF CloseFailed, EngraverFree, Finish
<1>14. CASE Close
  BY <1>14 DEF Close, EngraverFree
<1>15. CASE Closed
  BY <1>15 DEF Closed, Finish
<1> QED
  BY <1>1, <1>2, <1>3, <1>4, <1>5, <1>6, <1>7, <1>8, <1>9, <1>10, <1>11,
     <1>12, <1>13, <1>14, <1>15 DEF Worker

(* The device does not touch the protocol. *)
LEMMA DeviceProtocol ==
  ASSUME ProtocolInv, Device
  PROVE  ProtocolInv'
BY DEF ProtocolInv, ProtocolType, Protocol, Terminal, WorkerStates, Device,
       Execute, Block, Stall, screen, job, chans, ghost

(* Every step of the system keeps the protocol. *)
LEMMA StepProtocol == ProtocolInv /\ [Next]_vars => ProtocolInv'
<1> SUFFICES ASSUME ProtocolInv, [Next]_vars PROVE ProtocolInv'
  OBVIOUS
<1>1. CASE Next
  BY <1>1, ScreenProtocol, WorkerProtocol, DeviceProtocol DEF Next
<1>2. CASE UNCHANGED vars
  BY <1>2 DEF vars, screen, job, chans, ghost, ProtocolInv, ProtocolType, Protocol
<1> QED BY <1>1, <1>2

(* The screen and its worker keep to the protocol of their two channels. *)
THEOREM ProtocolHolds == Spec => []ProtocolInv
BY InitProtocol, StepProtocol, PTL DEF Spec

(* A run only starts when no worker of an earlier run is left (Start).     *)
LEMMA StartsAlone == ProtocolInv /\ [Next]_vars => [starts' # starts => worker = "none"]_vars
<1> SUFFICES ASSUME ProtocolInv, Next, starts' # starts
             PROVE  worker = "none"
  OBVIOUS
<1>1. CASE Start
  BY <1>1 DEF Start, CanStart, ProtocolInv, Protocol
<1>2. CASE Next /\ ~Start
  <2>1. starts' = starts
    BY <1>2 DEF Next, Screen, Worker, Device, StatusProgress, StatusErrs, Draw,
       BackStops, Leave, Hold, LetGo, StatsTake, StatsReturn, OpenFails, Opened,
       NextKnot, Feed, HomeFails, Write, Tick, CatchupFed, KnotFed, Report,
       FlushDriver, DriverFlushed, CloseFailed, Close, Closed, Execute, Block,
       Stall, ghost
  <2> QED BY <2>1
<1> QED BY <1>1, <1>2

(* The resume state is cleared only when no worker can read it and none    *)
(* can be started (releaseResumeState, F-108), Stats and the closing       *)
(* worker never have the engraver at the same time, and there is one       *)
(* worker at a time.                                                       *)
THEOREM WorkerStaysAlone == Spec => WorkerIsAlone
<1>1. ProtocolInv => ReleaseIsSafe /\ NoStatsOnClosing
  BY DEF ProtocolInv, ProtocolType, Protocol, ReleaseIsSafe, NoStatsOnClosing
<1> QED BY <1>1, StartsAlone, ProtocolHolds, PTL DEF Spec, WorkerIsAlone, OneWorker

-----------------------------------------------------------------------------
(* Sums over the plan. *)

(* Every inhabited set of naturals has a least element: initial intervals  *)
(* that end in S are finite, and the inclusion of finite sets is well      *)
(* founded.                                                                *)
LEMMA LeastElement ==
  ASSUME NEW S \in SUBSET Nat, S # {}
  PROVE  \E m \in S : \A k \in S : m <= k
<1> DEFINE Below == {0..n : n \in S}
<1>1. Below \subseteq FiniteSubsetsOf(Nat) /\ Below # {}
  <2>1. \A n \in S : IsFiniteSet(0..n) /\ (0..n) \in SUBSET Nat
    BY FS_Interval
  <2>2. \A n \in S : (0..n) \in FiniteSubsetsOf(Nat)
    BY <2>1 DEF FiniteSubsetsOf
  <2>3. PICK n \in S : TRUE
    OBVIOUS
  <2> QED
    BY <2>2, <2>3
<1>2. \E x \in Below : \A y \in Below : <<y, x>> \notin StrictSubsetOrdering(Nat)
  <2> HIDE DEF Below
  <2> QED
    BY <1>1, FS_StrictSubsetOrderingWellFounded, WFMin
<1>3. PICK m \in S : \A k \in S : <<0..k, 0..m>> \notin StrictSubsetOrdering(Nat)
  BY <1>2
<1>4. ASSUME NEW k \in S, k < m
      PROVE  FALSE
  <2> DEFINE small == 0..k
             large == 0..m
  <2>1. small \subseteq large /\ m \in large /\ m \notin small
    BY <1>4
  <2>2. small \in SUBSET Nat /\ large \in SUBSET Nat
    OBVIOUS
  <2>3. <<small, large>> \notin StrictSubsetOrdering(Nat)
    BY <1>3
  <2> HIDE DEF small, large
  <2> QED
    BY <2>1, <2>2, <2>3 DEF StrictSubsetOrdering
<1> QED
  BY <1>4

(* Induction over the knots: a set of numbers that holds 0 and with every  *)
(* number the next one up to N holds them all.                             *)
LEMMA UpToN ==
  ASSUME NEW N \in Nat, NEW Good, 0 \in Good,
         \A m \in 1 .. N : m - 1 \in Good => m \in Good
  PROVE  \A m \in 0 .. N : m \in Good
<1> DEFINE Bad == {m \in 0 .. N : m \notin Good}
<1>1. ASSUME Bad # {} PROVE FALSE
  <2>1. Bad \in SUBSET Nat
    OBVIOUS
  <2>2. PICK m \in Bad : \A k \in Bad : m <= k
    <3> HIDE DEF Bad
    <3> QED BY <1>1, <2>1, LeastElement
  <2> QED BY <2>2
<1> QED BY <1>1

(* A sum over the knots of a sequence exists and is a natural number.      *)
LEMMA SumExists ==
  ASSUME NEW N \in Nat, NEW f \in [1 .. N -> Nat]
  PROVE  \E g \in [0 .. N -> Nat] :
           g[0] = 0 /\ \A n \in 1 .. N : g[n] = g[n - 1] + f[n]
<1> DEFINE Has(m) == \E g \in [0 .. m -> Nat] :
                       g[0] = 0 /\ \A n \in 1 .. m : g[n] = g[n - 1] + f[n]
           Good == {m \in 0 .. N : Has(m)}
<1>1. 0 \in Good
  <2>1. [n \in 0 .. 0 |-> 0] \in [0 .. 0 -> Nat]
    OBVIOUS
  <2>2. [n \in 0 .. 0 |-> 0][0] = 0 /\ 1 .. 0 = {}
    OBVIOUS
  <2>3. Has(0)
    BY <2>1, <2>2
  <2> HIDE DEF Has
  <2> QED BY <2>3
<1>2. ASSUME NEW m \in 1 .. N, m - 1 \in Good PROVE m \in Good
  <2>1. PICK g \in [0 .. m - 1 -> Nat] :
          g[0] = 0 /\ \A n \in 1 .. m - 1 : g[n] = g[n - 1] + f[n]
    BY <1>2
  <2> DEFINE h == [n \in 0 .. m |-> IF n = m THEN g[m - 1] + f[m] ELSE g[n]]
  <2>2. h \in [0 .. m -> Nat]
    OBVIOUS
  <2>3. h[0] = 0
    BY <2>1
  <2>4. \A n \in 1 .. m : h[n] = h[n - 1] + f[n]
    BY <2>1
  <2>5. Has(m)
    <3> HIDE DEF h
    <3> QED BY <2>2, <2>3, <2>4
  <2> HIDE DEF Has, h
  <2> QED BY <2>5
<1>3. \A m \in 0 .. N : m \in Good
  <2> HIDE DEF Good
  <2> QED BY <1>1, <1>2, UpToN
<1>4. Has(N)
  <2> HIDE DEF Has
  <2> QED BY <1>3
<1> QED BY <1>4

(* The ticks of the knots 1 to n of the plan. *)
upto[n \in 0 .. Knots] == IF n = 0 THEN 0 ELSE upto[n - 1] + T[n]

(* The running total of the plan is the function its definition says. *)
LEMMA UptoDef ==
  /\ upto \in [0 .. Knots -> Nat]
  /\ upto[0] = 0
  /\ \A n \in 1 .. Knots : upto[n] = upto[n - 1] + T[n]
<1> DEFINE sum(g) == [n \in 0 .. Knots |-> IF n = 0 THEN 0 ELSE g[n - 1] + T[n]]
<1>1. \E g : g = sum(g)
  <2>1. PICK g \in [0 .. Knots -> Nat] :
          g[0] = 0 /\ \A n \in 1 .. Knots : g[n] = g[n - 1] + T[n]
    BY SumExists, PlanAssumption
  <2>2. g = [n \in 0 .. Knots |-> g[n]]
    OBVIOUS
  <2>3. sum(g) = [n \in 0 .. Knots |-> g[n]]
    BY <2>1
  <2>4. g = sum(g)
    BY <2>2, <2>3
  <2> HIDE DEF sum
  <2> QED BY <2>4
<1>2. upto = sum(upto)
  BY <1>1 DEF upto
<1>3. upto[0] = 0 /\ \A n \in 1 .. Knots : upto[n] = upto[n - 1] + T[n]
  BY <1>2, PlanAssumption
<1> DEFINE Good == {m \in 0 .. Knots : upto[m] \in Nat}
<1>4. 0 \in Good /\ \A m \in 1 .. Knots : m - 1 \in Good => m \in Good
  BY <1>3, PlanAssumption
<1>5. \A m \in 0 .. Knots : m \in Good
  <2> HIDE DEF Good
  <2> QED BY <1>4, UpToN, PlanAssumption
<1>6. upto = [n \in 0 .. Knots |-> upto[n]]
  BY <1>2
<1> QED BY <1>3, <1>5, <1>6

(* It never decreases. *)
LEMMA UptoMonotone ==
  \A a, b \in 0 .. Knots : a <= b => upto[a] <= upto[b]
<1> SUFFICES ASSUME NEW a \in 0 .. Knots
             PROVE  \A b \in 0 .. Knots : a <= b => upto[a] <= upto[b]
  OBVIOUS
<1> DEFINE Good == {m \in 0 .. Knots : a <= m => upto[a] <= upto[m]}
<1>1. 0 \in Good
  BY UptoDef, PlanAssumption
<1>2. ASSUME NEW m \in 1 .. Knots, m - 1 \in Good PROVE m \in Good
  BY SMTT(30), <1>2, UptoDef, PlanAssumption
<1>3. \A m \in 0 .. Knots : m \in Good
  <2> HIDE DEF Good
  <2> QED BY <1>1, <1>2, UpToN, PlanAssumption
<1> QED BY <1>3

(* The ticks of consecutive knots (TicksIn) are a difference of totals. *)
LEMMA TicksInRange ==
  ASSUME NEW s \in Seq(1 .. Knots), NEW a \in 0 .. Knots, a + Len(s) <= Knots,
         \A i \in 1 .. Len(s) : s[i] = a + i
  PROVE  TicksIn(s) = upto[a + Len(s)] - upto[a]
<1> DEFINE Sum(g) == [n \in 0 .. Len(s) |-> IF n = 0 THEN 0 ELSE g[n - 1] + TicksOf(s[n])]
           sum == CHOOSE g : g = Sum(g)
<1> Len(s) \in Nat
  BY LenProperties
<1>1. \A n \in 1 .. Len(s) : s[n] = a + n /\ s[n] # 0 /\ a + n \in 1 .. Knots
  BY SMTT(30), PlanAssumption
<1>2. \A n \in 1 .. Len(s) : TicksOf(s[n]) = T[a + n]
  BY <1>1 DEF TicksOf
<1>3. \E g : g = Sum(g)
  <2> DEFINE f == [n \in 1 .. Len(s) |-> T[a + n]]
  <2>1. f \in [1 .. Len(s) -> Nat]
    BY <1>1, PlanAssumption
  <2>2. PICK g \in [0 .. Len(s) -> Nat] :
          g[0] = 0 /\ \A n \in 1 .. Len(s) : g[n] = g[n - 1] + f[n]
    <3> HIDE DEF f
    <3> QED BY <2>1, SumExists
  <2>3. g = [n \in 0 .. Len(s) |-> g[n]]
    OBVIOUS
  <2>4. \A n \in 1 .. Len(s) : g[n] = g[n - 1] + TicksOf(s[n])
    BY <2>2, <1>2
  <2>5. Sum(g) = [n \in 0 .. Len(s) |-> g[n]]
    <3> HIDE DEF f
    <3> QED BY <2>2, <2>4
  <2>6. g = Sum(g)
    BY <2>3, <2>5
  <2> HIDE DEF Sum
  <2> QED BY <2>6
<1>4. sum = Sum(sum)
  <2> HIDE DEF Sum
  <2> QED BY <1>3
<1>5. TicksIn(s) = sum[Len(s)]
  BY DEF TicksIn
<1> HIDE DEF sum
<1>6. sum[0] = 0 /\ \A n \in 1 .. Len(s) : sum[n] = sum[n - 1] + TicksOf(s[n])
  BY <1>4
<1> DEFINE Good == {m \in 0 .. Len(s) : sum[m] = upto[a + m] - upto[a]}
<1>7. 0 \in Good
  BY <1>6, UptoDef, PlanAssumption
<1>8. ASSUME NEW m \in 1 .. Len(s), m - 1 \in Good PROVE m \in Good
  <2>1. sum[m - 1] = upto[a + (m - 1)] - upto[a]
    BY <1>8
  <2>2. a + m \in 1 .. Knots /\ a + (m - 1) = a + m - 1 /\ a + m - 1 \in 0 .. Knots
    BY <1>1, PlanAssumption
  <2>3. upto[a + m] = upto[a + (m - 1)] + T[a + m]
    BY <2>2, UptoDef
  <2>4. sum[m] = sum[m - 1] + T[a + m]
    BY <1>2, <1>6
  <2>5. upto[a] \in Nat /\ upto[a + (m - 1)] \in Nat /\ T[a + m] \in Nat
    BY <2>2, UptoDef, PlanAssumption
  <2>6. sum[m] = upto[a + m] - upto[a]
    BY <2>1, <2>3, <2>4, <2>5
  <2> QED BY <2>6
<1>9. \A m \in 0 .. Len(s) : m \in Good
  <2> HIDE DEF Good
  <2> QED BY <1>7, <1>8, UpToN
<1>10. Len(s) \in Good
  BY <1>9
<1> QED BY <1>5, <1>10

(* Max of an inhabited, bounded set of naturals is its largest element. *)
LEMMA MaxOfBounded ==
  ASSUME NEW S \in SUBSET Nat, S # {}, NEW b \in Nat, \A x \in S : x <= b
  PROVE  Max(S) \in S /\ \A x \in S : x <= Max(S)
<1> DEFINE Below == {m \in 0 .. b : b - m \in S}
<1>1. \A x \in S : b - x \in Below
  BY SMT
<1>2. Below \in SUBSET Nat /\ Below # {}
  <2>1. PICK x \in S : TRUE
    OBVIOUS
  <2>2. b - x \in Below
    BY <2>1, <1>1
  <2>3. Below \in SUBSET Nat
    OBVIOUS
  <2> HIDE DEF Below
  <2> QED BY <2>2, <2>3
<1>3. PICK m \in Below : \A k \in Below : m <= k
  <2> HIDE DEF Below
  <2> QED BY <1>2, LeastElement
<1>4. b - m \in S /\ \A y \in S : b - m >= y
  BY <1>1, <1>3
<1> QED BY <1>4 DEF Max

(* Max of two integers. *)
LEMMA MaxOfTwo == \A x, y \in Int : Max({x, y}) = IF x >= y THEN x ELSE y
BY DEF Max

(* Min of two integers. *)
LEMMA MinOfTwo == \A x, y \in Int : Min({x, y}) = IF x <= y THEN x ELSE y
BY DEF Min

-----------------------------------------------------------------------------
(* The ticks of the plan in their places. *)

Ticks == (0 .. Knots) \X Nat

Pos(t) == upto[t[1] - 1] + t[2]
At(t, x, seen) == IF t[1] = 0 THEN x <= seen ELSE t \in PlanTicks /\ Pos(t) = x
RunOf(s, x, seen) == \A j \in 1 .. Len(s) : At(s[j], x + j, seen)
Placed(k, x, seen) == IF k = 0 THEN x + LineTicks <= seen ELSE x = upto[k - 1]

Accounted == upto[safePoint + retired] + residual

(* A tick of the plan is the pair of its knot and its index in it. *)
LEMMA PlanTick ==
  ASSUME NEW t \in PlanTicks
  PROVE  /\ t[1] \in 1 .. Knots /\ t[2] \in 1 .. T[t[1]] /\ t = <<t[1], t[2]>>
         /\ t \in Ticks /\ Pos(t) \in Nat
<1>1. PICK k \in 1 .. Knots : t \in {k} \X (1 .. T[k])
  BY DEF PlanTicks
<1>2. t[1] = k /\ t[2] \in 1 .. T[k] /\ t = <<t[1], t[2]>>
  BY <1>1
<1>3. t[2] \in Nat
  BY <1>2, PlanAssumption
<1>4. upto[k - 1] \in Nat
  BY UptoDef, PlanAssumption
<1> QED BY SMTT(30), <1>2, <1>3, <1>4, PlanAssumption DEF Ticks, Pos

(* It lies after all ticks of the knots before its own. *)
LEMMA PosBounds ==
  ASSUME NEW t \in PlanTicks
  PROVE  upto[t[1] - 1] < Pos(t) /\ Pos(t) <= upto[t[1]]
<1>1. t[1] \in 1 .. Knots /\ t[2] \in 1 .. T[t[1]]
  BY PlanTick
<1>2. upto[t[1]] = upto[t[1] - 1] + T[t[1]] /\ T[t[1]] \in Nat
  BY <1>1, UptoDef, PlanAssumption
<1>3. upto[t[1] - 1] \in Nat
  <2>1. t[1] - 1 \in 0 .. Knots
    BY <1>1, PlanAssumption
  <2> QED BY <2>1, UptoDef
<1> QED BY <1>1, <1>2, <1>3 DEF Pos

(* Each tick of the plan has a place of its own. *)
LEMMA PosInjective ==
  ASSUME NEW t \in PlanTicks, NEW u \in PlanTicks, Pos(t) = Pos(u)
  PROVE  t = u
<1>1. /\ t[1] \in 1 .. Knots /\ t[2] \in 1 .. T[t[1]] /\ t = <<t[1], t[2]>>
      /\ u[1] \in 1 .. Knots /\ u[2] \in 1 .. T[u[1]] /\ u = <<u[1], u[2]>>
  BY PlanTick
<1>2. ASSUME NEW v \in PlanTicks, NEW w \in PlanTicks, Pos(v) = Pos(w), v[1] < w[1]
      PROVE  FALSE
  <2>1. v[1] \in 0 .. Knots /\ w[1] - 1 \in 0 .. Knots /\ v[1] <= w[1] - 1
    <3>1. v[1] \in 1 .. Knots /\ w[1] \in 1 .. Knots
      BY PlanTick
    <3> QED BY <1>2, <3>1, PlanAssumption
  <2>2. upto[v[1]] <= upto[w[1] - 1] /\ upto[v[1]] \in Nat /\ upto[w[1] - 1] \in Nat
    BY <2>1, UptoMonotone, UptoDef
  <2>3. Pos(v) <= upto[v[1]] /\ upto[w[1] - 1] < Pos(w) /\ Pos(v) \in Nat
    BY PosBounds, PlanTick
  <2> QED BY <1>2, <2>2, <2>3
<1>3. t[1] = u[1]
  BY <1>1, <1>2
<1>4. t[2] = u[2]
  BY SMTT(30), <1>1, <1>3, UptoDef, PlanAssumption DEF Pos
<1> QED BY <1>1, <1>3, <1>4

(* A run that goes on where another ends makes one run with it. *)
LEMMA RunConcat ==
  ASSUME NEW s \in Seq(Ticks), NEW t \in Seq(Ticks), NEW x \in Int, NEW y \in Int,
         NEW seen \in Int, RunOf(s, x, seen), RunOf(t, y, seen), y = x + Len(s)
  PROVE  RunOf(s \o t, x, seen)
<1>1. Len(s \o t) = Len(s) + Len(t) /\ Len(s) \in Nat /\ Len(t) \in Nat
  BY ConcatProperties, LenProperties
<1> SUFFICES ASSUME NEW j \in 1 .. Len(s) + Len(t)
             PROVE  At((s \o t)[j], x + j, seen)
  BY <1>1 DEF RunOf
<1>2. CASE j <= Len(s)
  BY <1>1, <1>2, ConcatProperties DEF RunOf
<1>3. CASE j > Len(s)
  <2>1. (s \o t)[j] = t[j - Len(s)] /\ j - Len(s) \in 1 .. Len(t)
    BY <1>1, <1>3, ConcatProperties
  <2>2. y + (j - Len(s)) = x + j
    BY <1>1
  <2>3. At(t[j - Len(s)], y + (j - Len(s)), seen)
    BY <2>1 DEF RunOf
  <2> QED BY <2>1, <2>2, <2>3
<1> QED BY <1>1, <1>2, <1>3

(* A part of a run is a run from its own start. *)
LEMMA RunPart ==
  ASSUME NEW s \in Seq(Ticks), NEW x \in Int, NEW seen \in Int, RunOf(s, x, seen),
         NEW a \in Nat \ {0}, NEW b \in 0 .. Len(s), NEW y \in Int, y = x + a - 1
  PROVE  /\ RunOf(SubSeq(s, a, b), y, seen)
         /\ SubSeq(s, a, b) \in Seq(Ticks)
         /\ Len(SubSeq(s, a, b)) = IF a <= b THEN b - a + 1 ELSE 0
<1>1. \A i \in a .. b : s[i] \in Ticks
  BY LenProperties
<1>2. /\ SubSeq(s, a, b) \in Seq(Ticks)
      /\ Len(SubSeq(s, a, b)) = IF a <= b THEN b - a + 1 ELSE 0
      /\ \A i \in 1 .. b - a + 1 : SubSeq(s, a, b)[i] = s[a + i - 1]
  BY <1>1, SubSeqProperties, LenProperties
<1> SUFFICES ASSUME NEW j \in 1 .. Len(SubSeq(s, a, b))
             PROVE  At(SubSeq(s, a, b)[j], y + j, seen)
  BY <1>2 DEF RunOf
<1>3. j \in 1 .. b - a + 1 /\ a + j - 1 \in 1 .. Len(s)
  BY <1>2, LenProperties
<1>4. SubSeq(s, a, b)[j] = s[a + j - 1] /\ y + j = x + (a + j - 1)
  BY <1>2, <1>3
<1> QED BY <1>3, <1>4 DEF RunOf

(* The ticks of a knot are a run from where the knot is placed. *)
LEMMA RunOfKnot ==
  ASSUME NEW k \in 0 .. Knots, NEW x \in Int, NEW seen \in Int, Placed(k, x, seen)
  PROVE  /\ RunOf(TickSeq(k), x, seen)
         /\ TickSeq(k) \in Seq(Ticks) /\ Len(TickSeq(k)) = TicksOf(k)
<1>1. TicksOf(k) \in Nat
  BY PlanAssumption DEF TicksOf
<1>2. \A i \in 1 .. TicksOf(k) : <<k, i>> \in Ticks
  BY <1>1 DEF Ticks
<1>3. TickSeq(k) \in Seq(Ticks) /\ Len(TickSeq(k)) = TicksOf(k)
  BY <1>1, <1>2 DEF TickSeq
<1>4. ASSUME NEW j \in 1 .. TicksOf(k) PROVE At(<<k, j>>, x + j, seen)
  <2>1. CASE k = 0
    BY <2>1, PlanAssumption DEF At, Placed, TicksOf
  <2>2. CASE k # 0
    <3>1. <<k, j>> \in {k} \X (1 .. T[k])
      BY <2>2 DEF TicksOf
    <3>2. <<k, j>> \in PlanTicks
      BY <3>1, <2>2 DEF PlanTicks
    <3> QED BY <3>2, <2>2 DEF At, Placed, Pos
  <2> QED BY <2>1, <2>2
<1> QED BY <1>1, <1>3, <1>4 DEF RunOf, TickSeq

-----------------------------------------------------------------------------
(* The safe pointer. *)

PointerTail(from, his, to) ==
  /\ from \in 0 .. Knots /\ to \in 0 .. Knots /\ from <= to
  /\ his \in Seq(1 .. Knots) /\ Len(his) = to - from
  /\ \A i \in 1 .. Len(his) : his[i] = from + i

(* The pieces of a tail of the plan. *)
LEMMA TailPiece ==
  ASSUME NEW from, NEW to, NEW his, PointerTail(from, his, to),
         NEW a \in 0 .. Len(his), NEW b \in a .. Len(his)
  PROVE  /\ PointerTail(from + a, SubSeq(his, a + 1, b), from + b)
         /\ TicksIn(SubSeq(his, a + 1, b)) = upto[from + b] - upto[from + a]
<1>1. /\ from \in Nat /\ to \in Nat /\ from <= to /\ to <= Knots /\ Knots \in Nat
      /\ his \in Seq(1 .. Knots) /\ Len(his) = to - from /\ a \in Nat /\ b \in Nat
      /\ a <= b /\ b <= to - from
  BY PlanAssumption DEF PointerTail
<1>2. \A i \in a + 1 .. b : his[i] \in 1 .. Knots
  <2>1. \A i \in a + 1 .. b : i \in 1 .. Len(his)
    BY <1>1
  <2> QED BY <1>1, <2>1, ElementOfSeq
<1> DEFINE s == SubSeq(his, a + 1, b)
<1>3. /\ s \in Seq(1 .. Knots) /\ Len(s) = b - a
      /\ \A i \in 1 .. b - a : s[i] = his[a + i]
  <2>1. /\ s \in Seq(1 .. Knots)
        /\ Len(s) = IF a + 1 <= b THEN b - (a + 1) + 1 ELSE 0
        /\ \A i \in 1 .. b - (a + 1) + 1 : s[i] = his[a + 1 + i - 1]
    <3>1. a + 1 \in Int /\ b \in Int
      BY <1>1
    <3> QED BY <3>1, <1>2, SubSeqProperties
  <2>2. b - (a + 1) + 1 = b - a /\ \A i \in 1 .. b - a : a + 1 + i - 1 = a + i
    BY <1>1
  <2> HIDE DEF s
  <2>3. ASSUME NEW i \in 1 .. b - a PROVE s[i] = his[a + i]
    BY <2>1, <2>2
  <2> QED BY <1>1, <2>1, <2>3
<1>4. \A i \in 1 .. b - a : s[i] = from + a + i
  BY <1>1, <1>3 DEF PointerTail
<1> HIDE DEF s
<1>5. PointerTail(from + a, s, from + b)
  BY <1>1, <1>3, <1>4 DEF PointerTail
<1>6. TicksIn(s) = upto[from + a + Len(s)] - upto[from + a]
  <2>1. /\ from + a \in 0 .. Knots /\ from + a + Len(s) <= Knots
        /\ \A i \in 1 .. Len(s) : s[i] = from + a + i
    BY <1>1, <1>3, <1>4
  <2> QED BY <1>3, <2>1, TicksInRange
<1>7. from + a + Len(s) = from + b
  BY <1>1, <1>3
<1> QED BY <1>5, <1>6, <1>7 DEF s

(* SafePointer.Progress: the history stays the tail of the plan after the  *)
(* safe point, and all of the new progress is accounted for, in retired    *)
(* knots or in the residual.                                               *)
LEMMA ProgressMoves ==
  ASSUME NEW to, NEW his, PointerTail(safePoint, his, to),
         retired \in 0 .. Len(his), residual \in Nat, NEW p \in Nat,
         Progress(his, p)
  PROVE  /\ PointerTail(safePoint', history', to)
         /\ retired' \in 0 .. Len(history') /\ residual' \in Nat
         /\ Accounted' = Accounted + p
<1> DEFINE have == residual + p
           n == Max(Retirable(his, have))
           triples == {0} \cup {i \in 3 .. n : his[i] \in SafeKnots}
           safe == Max(triples)
<1>1. /\ safePoint \in Nat /\ to \in Nat /\ safePoint <= to /\ to <= Knots /\ Knots \in Nat
      /\ his \in Seq(1 .. Knots) /\ Len(his) = to - safePoint /\ Len(his) \in Nat
      /\ retired \in Nat /\ retired <= Len(his) /\ have \in Nat
  BY PlanAssumption DEF PointerTail
<1>2. n \in retired .. Len(his) /\ TicksIn(SubSeq(his, retired + 1, n)) <= have
  <2>1. TicksIn(SubSeq(his, retired + 1, retired)) <= have
    <3>1. TicksIn(SubSeq(his, retired + 1, retired))
             = upto[safePoint + retired] - upto[safePoint + retired]
      <4>1. retired \in 0 .. Len(his) /\ retired \in retired .. Len(his)
        BY <1>1
      <4> QED BY <4>1, TailPiece
    <3>2. upto[safePoint + retired] \in Nat
      BY <1>1, UptoDef
    <3> QED BY <3>1, <3>2, <1>1
  <2>2. retired \in Retirable(his, have)
    BY <2>1, <1>1 DEF Retirable
  <2>3. Retirable(his, have) \in SUBSET Nat /\ \A x \in Retirable(his, have) : x <= Len(his)
    BY <1>1 DEF Retirable
  <2>4. n \in Retirable(his, have)
    BY <2>2, <2>3, <1>1, MaxOfBounded
  <2> HIDE DEF n
  <2> QED BY <2>4 DEF Retirable
<1> HIDE DEF n
<1>3. n \in Nat /\ n <= Len(his) /\ retired <= n
  BY <1>1, <1>2
<1>4. safe \in 0 .. n /\ (safe # 0 => safe \in 3 .. n)
  <2>1. triples \in SUBSET Nat /\ triples # {} /\ \A x \in triples : x <= n
    BY <1>3
  <2>2. safe \in triples
    <3> HIDE DEF triples
    <3> QED BY <2>1, <1>3, MaxOfBounded
  <2> HIDE DEF safe
  <2> QED BY <2>2, <1>3
<1> HIDE DEF safe
<1>5. TicksIn(SubSeq(his, retired + 1, n)) = upto[safePoint + n] - upto[safePoint + retired]
  <2>1. retired \in 0 .. Len(his) /\ n \in retired .. Len(his)
    BY <1>1, <1>2
  <2> QED BY <2>1, TailPiece
<1>6. /\ residual' = have - (upto[safePoint + n] - upto[safePoint + retired])
      /\ retired' = n - safe
      /\ safePoint' = IF safe = 0 THEN safePoint ELSE his[safe]
      /\ history' = SubSeq(his, safe + 1, Len(his))
  BY <1>5 DEF Progress, Trim, n, safe
<1> safe \in Nat /\ safe <= n
  BY <1>3, <1>4
<1>7. safePoint' = safePoint + safe
  <2>1. CASE safe = 0
    BY <1>1, <1>6, <2>1
  <2>2. CASE safe # 0
    <3>1. safe \in 1 .. Len(his)
      BY <1>1, <1>3, <2>2
    <3> QED BY <1>6, <2>2, <3>1 DEF PointerTail
  <2> QED BY <2>1, <2>2
<1>8. PointerTail(safePoint + safe, history', to)
  <2>1. safePoint + Len(his) = to
    BY <1>1
  <2>2. safe \in 0 .. Len(his) /\ Len(his) \in safe .. Len(his)
    BY <1>1, <1>3, <1>4
  <2>3. PointerTail(safePoint + safe, SubSeq(his, safe + 1, Len(his)), safePoint + Len(his))
    BY <2>2, TailPiece
  <2> QED BY <1>6, <2>1, <2>3
<1>9. Len(history') = Len(his) - safe
  BY <1>1, <1>3, <1>8 DEF PointerTail
<1>10. retired' = n - safe /\ residual' = have - (upto[safePoint + n] - upto[safePoint + retired])
  BY <1>6
<1>11. safePoint' + retired' = safePoint + n
  BY <1>1, <1>3, <1>7, <1>10
<1>12. /\ upto[safePoint + n] \in Nat /\ upto[safePoint + retired] \in Nat
  BY <1>1, <1>3, UptoDef
<1>13. residual' \in Nat
  <2>1. upto[safePoint + n] - upto[safePoint + retired] <= have
    BY <1>2, <1>5
  <2> HIDE DEF have
  <2> QED BY SMTT(30), <1>1, <1>10, <1>12, <2>1
<1>14. Accounted' = Accounted + p
  <2>1. Accounted' = upto[safePoint + n] + residual'
    BY <1>11 DEF Accounted
  <2>2. Accounted = upto[safePoint + retired] + residual
    BY DEF Accounted
  <2>3. residual \in Nat /\ p \in Nat
    OBVIOUS
  <2>4. residual' = (residual + p) - (upto[safePoint + n] - upto[safePoint + retired])
    BY <1>10
  <2> QED BY SMTT(30), <1>12, <2>1, <2>2, <2>3, <2>4
<1>15. retired' \in 0 .. Len(history')
  BY <1>1, <1>3, <1>9, <1>10
<1> QED BY <1>7, <1>8, <1>13, <1>14, <1>15

-----------------------------------------------------------------------------
(* The books of the engine: what is fed, in the ring, executed, credited  *)
(* and accounted for.                                                      *)

(* The driver and the device are as pl.Engraver opens them. *)
Reset ==
  /\ phase = "knot" /\ catchup = <<>> /\ debt = 0 /\ credit = 0 /\ err = FALSE
  /\ window = <<>> /\ held = <<>> /\ unsent = <<>>
  /\ homed = FALSE /\ queue = <<>> /\ running = FALSE /\ uncredited = 0
  /\ blocked = FALSE /\ stalled = FALSE /\ writeErr = FALSE

(* The worker feeds knots, and has not failed at the last one. *)
Feeding ==
  \/ worker \in {"next", "feed", "write", "wait", "fed"} /\ phase # "flush"
  \/ worker = "report" /\ ~err

(* What the place of the worker says of its variables. *)
Flow ==
  /\ worker \in {"none", "open"} => Reset
  /\ worker \in {"next", "feed", "write", "wait"} => ~err
  /\ worker \in {"next", "feed"} \/ (worker \in {"report", "fed"} /\ ~err) => unsent = <<>>
  /\ worker = "next" \/ (worker = "report" /\ ~err) => phase = "knot"
  /\ worker \in {"next", "feed", "report"} => phase # "flush"
  /\ phase = "catchup" => catchup # <<>>
  /\ phase = "knot" /\ worker # "next" => catchup = <<>>
  /\ worker = "next" /\ catchup # <<>> =>
       /\ window = <<>> /\ held = <<>> /\ queue = <<>>
       /\ ~running /\ Head(catchup) = 0

After(k) == IF k = 0 THEN safePoint ELSE k

(* The knots that the safe pointer has recorded. *)
Recorded == IF InDriver THEN nknots - 1 ELSE nknots
HistoryInv == ~released => PointerTail(safePoint, history, Recorded)
CatchupInv ==
  Feeding /\ catchup # <<>> =>
    /\ PointerTail(After(Head(catchup)), Tail(catchup), Recorded)
    /\ safePoint <= After(Head(catchup))

(* The knot that the driver is given, or will be given next in a replay. *)
Hand == IF catchup # <<>> THEN Head(catchup) ELSE nknots
TicksWithin(win) == (IF Len(win) >= 1 THEN TicksOf(win[1]) ELSE 0)
                    + (IF Len(win) = 2 THEN TicksOf(win[2]) ELSE 0)
InWindow == TicksWithin(window)
Fed == IF worker = "feed" \/ (worker = "next" /\ catchup # <<>>)
       THEN upto[After(Hand)] - TicksOf(Hand) ELSE upto[After(Hand)]
Backlog == Len(queue) + Len(unsent) + Len(held)
Executed == Fed - InWindow - Backlog
Owed == IF worker \in {"write", "wait", "fed"} THEN credit ELSE 0

(* The ticks not cut up to a place of the plan. *)
Uncut(x) == {t \in PlanTicks : Pos(t) <= x /\ t \notin cut}
Gap(x) == Cardinality(Uncut(x))

(* What the safe pointer accounts for and the plate lacks: ticks not cut,  *)
(* and ticks beyond the knots recorded.                                    *)
Shortfall == IF Accounted <= upto[Recorded] THEN Gap(Accounted)
             ELSE Gap(upto[Recorded]) + (Accounted - upto[Recorded])
Backed == ~released => Shortfall <= surplus

(* What the accounts will be ahead of the device when the replay is over   *)
(* and all that is owed and completed has been credited.                   *)
Offset == IF catchup = <<>> THEN 0
          ELSE upto[After(Head(catchup))] - TicksOf(Head(catchup)) - upto[Recorded]
Lead == Accounted + debt + Owed + uncredited + Offset - Executed
Excess(x) == IF x > 0 THEN x ELSE 0

(* The progress shown or on its way to the screen. *)
Shown == completed + Pending
Ledger ==
  /\ ~released => Shown <= Accounted
  /\ ~released /\ worker = "report" => Shown + credit <= Accounted
  /\ Shown <= upto[nknots] + surplus

(* A run that resumed at the place b: what is on its way to the plate lies *)
(* in order, the approach line before b, and the surplus covers what has   *)
(* not been cut.                                                           *)
WindowInv(b) ==
  /\ Len(window) >= 1 => Placed(window[1], Executed + Backlog, b)
  /\ Len(window) = 2 =>
       Placed(window[2], Executed + Backlog + TicksOf(window[1]), b)
Ordered(b) ==
  /\ RunOf(queue, Executed, b)
  /\ RunOf(unsent, Executed + Len(queue), b)
  /\ RunOf(held, Executed + Len(queue) + Len(unsent), b)
  /\ WindowInv(b)
  /\ catchup # <<>> /\ Head(catchup) = 0 => upto[safePoint] <= b
Covered(b) ==
  /\ Gap(Executed) + Excess(Lead) <= surplus
  /\ Gap(b) + Excess(Lead) <= surplus
Placement == Feeding => \E b \in Int : Ordered(b) /\ Covered(b)

TypeInv ==
  TypeOK /\ queue \in Seq(Ticks) /\ held \in Seq(Ticks) /\ unsent \in Seq(Ticks)

(* What waits in the progress channel is a number. *)
LEMMA PendingType ==
  ASSUME TypeOK
  PROVE  Pending \in Nat
<1>1. progress \in Seq(Nat) /\ Len(progress) \in Nat
  BY DEF TypeOK
<1>2. CASE progress = <<>>
  BY <1>2 DEF Pending
<1>3. CASE progress # <<>>
  <2>1. 1 \in 1 .. Len(progress)
    BY <1>1, <1>3
  <2>2. progress[1] \in Nat
    BY <1>1, <2>1, ElementOfSeq
  <2> QED BY <1>3, <2>2 DEF Pending
<1> QED BY <1>2, <1>3

(* The screen keeps the types. *)
LEMMA ScreenTypes ==
  ASSUME TypeInv, Screen
  PROVE  TypeInv'
<1> USE DEF TypeInv, TypeOK, Terminal
<1>1. CASE StatusProgress
  <2>1. Pending \in Nat
    BY PendingType DEF TypeInv
  <2>2. completed' \in Nat /\ progress' = <<>> /\ poll' = "errs"
    BY SMTT(30), <1>1, <2>1 DEF StatusProgress
  <2>3. progress' \in Seq(Nat) /\ Len(progress') <= 1
    BY <2>2
  <2> QED BY <1>1, <2>2, <2>3 DEF StatusProgress, pointer, run, stepper, device, ghost
<1>2. CASE StatusErrs
  <2>1. EndState \in Terminal
    BY DEF EndState
  <2>2. state' \in {"idle", "running", "stopping"} \cup Terminal /\ errs' \in {"nil", "open"}
        /\ verdict' \in {"none", "ok", "fail"}
    BY <1>2, <2>1 DEF StatusErrs
  <2> QED BY <1>2, <2>2 DEF StatusErrs, pointer, run, stepper, device, ghost
<1>3. CASE Draw
  BY <1>3 DEF Draw, job, chans, pointer, run, stepper, device, ghost
<1>4. CASE BackStops
  BY <1>4 DEF BackStops, Stop, chans, pointer, run, stepper, device, ghost
<1>5. CASE Leave
  <2>1. state' \in {"idle", "running", "stopping"} \cup Terminal /\ quit' \in BOOLEAN
    BY <1>5 DEF Leave, Stop
  <2>2. /\ safePoint' \in 0 .. Knots /\ history' \in Seq(1 .. Knots)
        /\ retired' \in 0 .. Len(history') /\ residual' \in Nat /\ released' \in BOOLEAN
    <3>1. CASE state' \in Terminal
      BY <1>5, <3>1, PlanAssumption DEF Leave, ReleaseResumeState
    <3>2. CASE state' \notin Terminal
      BY <1>5, <3>2 DEF Leave, ReleaseResumeState, pointer
    <3> QED BY <3>1, <3>2
  <2> QED BY <1>5, <2>1, <2>2 DEF Leave, chans, run, stepper, device
<1>6. CASE Hold
  BY <1>6 DEF Hold, job, chans, pointer, run, stepper, device, ghost
<1>7. CASE LetGo
  BY <1>7 DEF LetGo, job, chans, pointer, run, stepper, device, ghost
<1>8. CASE Start
  <2>1. CASE CanStart /\ starts < MaxStarts
    <3>1. starts' \in 0 .. MaxStarts
      BY SMTT(30), <1>8, <2>1, PlanAssumption DEF Start
    <3>2. /\ ui' = "loop" /\ poll' = "progress" /\ state' = "running" /\ errs' = "open"
          /\ quit' = FALSE /\ verdict' = "none" /\ progress' = <<>> /\ lock' = "empty"
          /\ worker' = "open"
      BY <1>8, <2>1 DEF Start
    <3>3. UNCHANGED <<completed, nknots, pointer, run, stepper, device, cut, reported, surplus, released>>
      BY <1>8 DEF Start
    <3>4. progress' \in Seq(Nat) /\ Len(progress') <= 1
      BY <3>2
    <3>5. quit' \in BOOLEAN
      BY <3>2
    <3>6. /\ ui' \in {"loop", "confirm", "left"} /\ poll' \in {"progress", "errs", "done", "stats"}
          /\ state' \in {"idle", "running", "stopping"} \cup Terminal
          /\ errs' \in {"nil", "open"} /\ verdict' \in {"none", "ok", "fail"}
          /\ lock' \in {"empty", "offered", "lent"}
      BY <3>2
    <3>7. worker' \in {"none", "open", "next", "feed", "write", "wait", "fed",
                 "report", "close", "drain"}
      BY <3>2
    <3> QED BY <3>1, <3>3, <3>4, <3>5, <3>6, <3>7 DEF pointer, run, stepper, device
  <2>2. CASE ~(CanStart /\ starts < MaxStarts)
    BY <1>8, <2>2 DEF Start, chans, pointer, run, stepper, device
  <2> QED BY <2>1, <2>2
<1>9. CASE StatsTake
  BY <1>9 DEF StatsTake, job, pointer, run, stepper, device, ghost
<1>10. CASE StatsReturn
  BY <1>10 DEF StatsReturn, GivenBack, job, pointer, run, stepper, device, ghost
<1> QED
  BY <1>1, <1>2, <1>3, <1>4, <1>5, <1>6, <1>7, <1>8, <1>9, <1>10 DEF Screen

(* Everything the job's engine reads. *)
engine == <<nknots, pointer, worker, run, stepper, device, cut, surplus, released>>

EngineInv ==
  Flow /\ HistoryInv /\ CatchupInv /\ Backed /\ Placement
JobInv == TypeInv /\ EngineInv /\ Ledger

(* The engine's books depend on nothing else. *)
LEMMA EngineFrame ==
  ASSUME EngineInv, UNCHANGED engine
  PROVE  EngineInv' /\ Accounted' = Accounted
<1> USE DEF engine, pointer, run, stepper, device
<1>1. Accounted' = Accounted /\ Hand' = Hand /\ InWindow' = InWindow /\ Recorded' = Recorded
  BY DEF Accounted, Hand, InWindow, Recorded, InDriver
<1>2. (Feeding <=> Feeding') /\ Backlog' = Backlog /\ Owed' = Owed
  BY DEF Feeding, Backlog, Owed
<1>3. \A k : After(k)' = After(k)
  BY DEF After
<1>4. Fed' = Fed
  BY <1>1, <1>3 DEF Fed
<1>5. Executed' = Executed
  BY <1>1, <1>2, <1>4 DEF Executed
<1>6. Flow'
  BY DEF EngineInv, Flow, Reset
<1>7. HistoryInv' /\ CatchupInv'
  BY <1>1, <1>2 DEF EngineInv, HistoryInv, CatchupInv, After
<1>8. \A x : Gap(x)' = Gap(x)
  BY DEF Gap, Uncut
<1>9. Backed'
  BY <1>1, <1>8 DEF EngineInv, Backed, Shortfall
<1>10. Lead' = Lead
  BY <1>1, <1>2, <1>5 DEF Lead, Offset, After
<1>11. ASSUME NEW b, Ordered(b), Covered(b)
       PROVE  Ordered(b)' /\ Covered(b)'
  <2>1. WindowInv(b)'
    BY <1>1, <1>2, <1>5, <1>11 DEF Ordered, WindowInv
  <2>2. Ordered(b)'
    BY <1>5, <1>11, <2>1 DEF Ordered
  <2>3. Covered(b)'
    BY <1>5, <1>8, <1>10, <1>11 DEF Covered
  <2> QED BY <2>2, <2>3
<1>12. Placement'
  BY <1>2, <1>11 DEF EngineInv, Placement
<1> QED BY <1>1, <1>6, <1>7, <1>9, <1>12 DEF EngineInv

(* They are balanced in the initial states. *)
LEMMA InitJob == Init => JobInv
<1> SUFFICES ASSUME Init PROVE JobInv
  OBVIOUS
<1> USE DEF Init
<1>1. TypeInv
  <2>1. <<>> \in Seq(Nat) /\ <<>> \in Seq(1 .. Knots) /\ <<>> \in Seq(0 .. Knots) /\ <<>> \in Seq(Ticks)
        /\ Len(<<>>) = 0
    OBVIOUS
  <2>2. Knots \in Nat /\ MaxStarts \in Nat /\ RingTicks \in Nat
    BY PlanAssumption
  <2> HIDE DEF Init
  <2>3. /\ ui = "loop" /\ poll = "progress" /\ state = "idle" /\ errs = "nil"
        /\ verdict = "none" /\ lock = "empty" /\ worker = "none" /\ phase = "knot"
    BY DEF Init
  <2>4. /\ quit = FALSE /\ err = FALSE /\ homed = FALSE /\ running = FALSE /\ blocked = FALSE
        /\ stalled = FALSE /\ writeErr = FALSE /\ released = FALSE
    BY DEF Init
  <2>5. /\ completed = 0 /\ nknots = 0 /\ safePoint = 0 /\ retired = 0 /\ residual = 0
        /\ debt = 0 /\ credit = 0 /\ uncredited = 0 /\ reported = 0 /\ surplus = 0
        /\ starts = 0 /\ cut = {}
    BY DEF Init
  <2>6. progress = <<>> /\ history = <<>> /\ catchup = <<>> /\ window = <<>> /\ queue = <<>>
        /\ held = <<>> /\ unsent = <<>>
    BY DEF Init
  <2>7. {homed, running, blocked, stalled, writeErr, released} \subseteq BOOLEAN
        /\ quit \in BOOLEAN /\ err \in BOOLEAN
    BY <2>4
  <2>8. /\ ui \in {"loop", "confirm", "left"}
        /\ poll \in {"progress", "errs", "done", "stats"}
        /\ state \in {"idle", "running", "stopping"} \cup Terminal
        /\ errs \in {"nil", "open"}
        /\ verdict \in {"none", "ok", "fail"} /\ lock \in {"empty", "offered", "lent"}
        /\ worker \in {"none", "open", "next", "feed", "write", "wait", "fed",
                 "report", "close", "drain"}
        /\ phase \in {"catchup", "knot", "flush"}
    BY <2>3
  <2> QED BY <2>1, <2>2, <2>5, <2>6, <2>7, <2>8 DEF TypeInv, TypeOK
<1>2. Flow /\ ~Feeding
  BY DEF Flow, Reset, Feeding
<1>3. Recorded = 0
  BY DEF Recorded, InDriver
<1>4. HistoryInv
  BY <1>3, PlanAssumption DEF HistoryInv, PointerTail
<1>5. Accounted = 0 /\ upto[0] = 0
  BY UptoDef DEF Accounted
<1>6. Ledger
  BY <1>5 DEF Ledger, Shown, Pending
<1>7. Uncut(0) = {}
  <2> SUFFICES ASSUME NEW t \in PlanTicks, Pos(t) <= 0 PROVE FALSE
    BY DEF Uncut
  <2>1. t[1] - 1 \in 0 .. Knots /\ upto[t[1] - 1] < Pos(t) /\ Pos(t) \in Nat
    BY PlanTick, PosBounds, PlanAssumption
  <2>2. upto[t[1] - 1] \in Nat
    BY <2>1, UptoDef
  <2> QED BY <2>1, <2>2
<1>8. Backed
  BY <1>3, <1>5, <1>7, FS_EmptySet DEF Backed, Shortfall, Gap
<1> QED BY <1>1, <1>2, <1>4, <1>6, <1>8 DEF JobInv, EngineInv, CatchupInv, Placement

(* The quantities of the books are naturals. *)
LEMMA Numbers ==
  ASSUME TypeInv, HistoryInv, ~released
  PROVE  /\ Knots \in Nat /\ Accounted \in Nat /\ Pending \in Nat /\ Recorded \in 0 .. Knots
         /\ safePoint \in 0 .. Recorded /\ Len(history) = Recorded - safePoint
         /\ upto[safePoint] \in Nat /\ upto[safePoint] <= Accounted
         /\ InWindow \in Nat /\ Backlog \in Nat /\ Owed \in Nat
         /\ \A k \in 0 .. Knots : After(k) \in 0 .. Knots /\ TicksOf(k) \in Nat
                                  /\ upto[After(k)] \in Nat
<1> USE DEF TypeInv, TypeOK
<1>1. Knots \in Nat /\ \A k \in 0 .. Knots : TicksOf(k) \in Nat
  BY SMTT(30), PlanAssumption DEF TicksOf
<1>2. \A k \in 0 .. Knots : After(k) \in 0 .. Knots /\ upto[After(k)] \in Nat
  BY UptoDef DEF After
<1>3. /\ Recorded \in 0 .. Knots /\ safePoint \in 0 .. Recorded
      /\ Len(history) = Recorded - safePoint
  BY <1>1 DEF HistoryInv, PointerTail
<1>4. safePoint + retired \in 0 .. Knots /\ safePoint <= safePoint + retired
  <2> DEFINE s == safePoint
             r == retired
             l == Len(history)
             c == Recorded
  <2>1. r \in Nat /\ r <= l /\ l \in Nat
    OBVIOUS
  <2>2. c \in 0 .. Knots /\ s \in 0 .. c /\ l = c - s
    BY <1>3
  <2> HIDE DEF s, r, l, c, TypeInv, TypeOK
  <2>3. s + r \in 0 .. Knots /\ s <= s + r
    BY <1>1, <2>1, <2>2
  <2> QED BY <2>3 DEF s, r
<1>5. upto[safePoint] \in Nat /\ upto[safePoint + retired] \in Nat
      /\ upto[safePoint] <= upto[safePoint + retired]
  BY <1>4, UptoDef, UptoMonotone
<1>6. Accounted \in Nat /\ upto[safePoint] <= Accounted
  <2>1. residual \in Nat
    OBVIOUS
  <2>2. Accounted = upto[safePoint + retired] + residual
    BY DEF Accounted
  <2> HIDE DEF TypeInv, TypeOK
  <2> QED BY <1>5, <2>1, <2>2
<1>7. Pending \in Nat
  BY PendingType DEF TypeInv
<1>8. \A i \in 1 .. Len(window) : TicksOf(window[i]) \in Nat
  BY <1>1, ElementOfSeq
<1>9. InWindow \in Nat
  <2>1. Len(window) \in Nat
    OBVIOUS
  <2>2. Len(window) >= 1 => TicksOf(window[1]) \in Nat
    BY <1>8, <2>1
  <2>3. Len(window) = 2 => TicksOf(window[2]) \in Nat
    BY <1>8, <2>1
  <2> QED BY SMTT(30), <2>2, <2>3 DEF InWindow, TicksWithin
<1>10. Backlog \in Nat
  BY LenProperties DEF Backlog
<1>11. Owed \in Nat
  BY DEF Owed
<1> QED BY <1>1, <1>2, <1>3, <1>5, <1>6, <1>7, <1>9, <1>10, <1>11

(* So are those of the knot in the driver's hands, except that what has    *)
(* been executed may count the approach line negatively.                   *)
LEMMA HandNumbers ==
  ASSUME TypeInv, HistoryInv, ~released
  PROVE  /\ Hand \in 0 .. Knots /\ TicksOf(Hand) \in Nat /\ upto[After(Hand)] \in Nat
         /\ Fed \in Int /\ Executed \in Int
<1>1. Hand \in 0 .. Knots
  BY HeadTailProperties DEF TypeInv, TypeOK, Hand
<1>2. TicksOf(Hand) \in Nat /\ upto[After(Hand)] \in Nat
  BY <1>1, Numbers
<1>3. Fed \in Int
  BY <1>2 DEF Fed
<1>4. Executed \in Int
  BY <1>3, Numbers DEF Executed
<1> QED BY <1>1, <1>2, <1>3, <1>4

(* And so is the lead. *)
LEMMA LeadNumber ==
  ASSUME TypeInv, HistoryInv, ~released
  PROVE  /\ Accounted \in Int /\ Owed \in Int /\ Executed \in Int /\ Offset \in Int
         /\ Lead \in Int
<1>1. Accounted \in Int /\ Owed \in Int /\ Executed \in Int
  BY Numbers, HandNumbers
<1>2. Offset \in Int
  <2>1. upto[Recorded] \in Nat
    BY Numbers, UptoDef
  <2>2. CASE catchup # <<>>
    <3>1. Hand = Head(catchup)
      BY <2>2 DEF Hand
    <3>2. upto[After(Head(catchup))] \in Nat /\ TicksOf(Head(catchup)) \in Nat
      BY <3>1, HandNumbers
    <3> QED BY <2>1, <2>2, <3>2 DEF Offset
  <2>3. CASE catchup = <<>>
    BY <2>3 DEF Offset
  <2> QED BY <2>2, <2>3
<1>3. debt \in Int /\ uncredited \in Int
  BY DEF TypeInv, TypeOK
<1> QED BY <1>1, <1>2, <1>3 DEF Lead

-----------------------------------------------------------------------------
(* Gaps.  Each tick has its own place, so a gap grows by at most one tick  *)
(* with each place.                                                        *)

(* A plan has finitely many ticks. *)
LEMMA PlanIsFinite == IsFiniteSet(PlanTicks)
<1> DEFINE top == upto[Knots]
           f == [t \in PlanTicks |-> Pos(t)]
<1>1. Knots \in 0 .. Knots /\ Knots \in Nat /\ top \in Nat
  BY UptoDef, PlanAssumption
<1>2. \A t \in PlanTicks : Pos(t) \in 0 .. top
  <2> SUFFICES ASSUME NEW t \in PlanTicks PROVE Pos(t) \in 0 .. top
    OBVIOUS
  <2>1. t[1] \in 0 .. Knots /\ t[1] <= Knots
    BY PlanTick, PlanAssumption
  <2>2. upto[t[1]] <= top /\ upto[t[1]] \in Nat
    BY <1>1, <2>1, UptoMonotone, UptoDef
  <2>3. Pos(t) <= upto[t[1]] /\ Pos(t) \in Nat
    BY PosBounds, PlanTick
  <2> HIDE DEF top
  <2> QED BY <1>1, <2>2, <2>3
<1>3. f \in Injection(PlanTicks, 0 .. top)
  <2>1. f \in [PlanTicks -> 0 .. top]
    BY <1>2
  <2>2. \A t, u \in PlanTicks : f[t] = f[u] => t = u
    BY PosInjective
  <2> HIDE DEF f
  <2> QED BY <2>1, <2>2 DEF Injection, IsInjective
<1>4. IsFiniteSet(0 .. top)
  BY <1>1, FS_Interval
<1> HIDE DEF f
<1> QED BY <1>3, <1>4, FS_Injection

(* So a gap is a number. *)
LEMMA GapType == \A x : IsFiniteSet(Uncut(x)) /\ Gap(x) \in Nat
<1> SUFFICES ASSUME NEW x PROVE IsFiniteSet(Uncut(x)) /\ Gap(x) \in Nat
  OBVIOUS
<1>1. Uncut(x) \in SUBSET PlanTicks
  BY DEF Uncut
<1>2. IsFiniteSet(Uncut(x))
  BY <1>1, PlanIsFinite, FS_Subset
<1> QED BY <1>2, FS_CardinalityType DEF Gap

(* The gap up to a later place is not smaller. *)
LEMMA GapMonotone ==
  ASSUME NEW x \in Int, NEW y \in Int, x <= y
  PROVE  Gap(x) <= Gap(y)
<1>1. \A t \in PlanTicks : Pos(t) \in Nat
  BY PlanTick
<1>2. Uncut(x) \in SUBSET Uncut(y)
  BY <1>1 DEF Uncut
<1> QED BY <1>2, GapType, FS_Subset DEF Gap

(* One place further there is at most one tick more. *)
LEMMA GapStep ==
  ASSUME NEW x \in Int
  PROVE  Gap(x + 1) <= Gap(x) + 1
<1>1. \A t \in PlanTicks : Pos(t) \in Nat
  BY PlanTick
<1>2. CASE \E t \in PlanTicks : Pos(t) = x + 1
  <2>1. PICK t \in PlanTicks : Pos(t) = x + 1
    BY <1>2
  <2>2. Uncut(x + 1) \subseteq Uncut(x) \cup {t}
    <3> SUFFICES ASSUME NEW u \in PlanTicks, Pos(u) <= x + 1, u \notin cut, u # t
                 PROVE  Pos(u) <= x
      BY DEF Uncut
    <3>1. Pos(u) # x + 1
      BY <2>1, PosInjective
    <3>2. Pos(u) \in Nat
      BY <1>1
    <3> QED BY <3>1, <3>2
  <2>3. IsFiniteSet(Uncut(x) \cup {t}) /\ Cardinality(Uncut(x) \cup {t}) \in {Gap(x), Gap(x) + 1}
    BY GapType, FS_AddElement DEF Gap
  <2>4. Gap(x + 1) <= Cardinality(Uncut(x) \cup {t})
    BY <2>2, <2>3, FS_Subset DEF Gap
  <2> QED BY <2>3, <2>4, GapType
<1>3. CASE ~\E t \in PlanTicks : Pos(t) = x + 1
  <2>1. Uncut(x + 1) = Uncut(x)
    BY <1>1, <1>3 DEF Uncut
  <2> QED BY <2>1, GapType DEF Gap
<1> QED BY <1>2, <1>3

(* So the gap grows by no more than the distance. *)
LEMMA GapGrows ==
  ASSUME NEW x \in Int, NEW y \in Int, x <= y
  PROVE  Gap(y) <= Gap(x) + (y - x)
<1> DEFINE N == y - x
           Good == {m \in 0 .. N : Gap(x + m) <= Gap(x) + m}
<1>1. N \in Nat
  OBVIOUS
<1>2. 0 \in Good
  <2>1. x + 0 = x
    OBVIOUS
  <2> QED BY <1>1, <2>1, GapType
<1>3. ASSUME NEW m \in 1 .. N, m - 1 \in Good PROVE m \in Good
  <2>1. Gap(x + (m - 1)) <= Gap(x) + (m - 1)
    BY <1>3
  <2>2. x + (m - 1) \in Int /\ (x + (m - 1)) + 1 = x + m
    OBVIOUS
  <2>3. Gap(x + m) <= Gap(x + (m - 1)) + 1
    BY <2>2, GapStep
  <2> HIDE DEF N
  <2>4. Gap(x + m) <= Gap(x) + m
    <3>1. Gap(x + m) \in Nat /\ Gap(x + (m - 1)) \in Nat /\ Gap(x) \in Nat
      BY GapType
    <3> QED BY <2>1, <2>3, <3>1, <1>1
  <2>5. m \in 0 .. N
    BY <1>1
  <2> QED BY <2>4, <2>5
<1>4. \A m \in 0 .. N : m \in Good
  <2> HIDE DEF Good, N
  <2> QED BY <1>1, <1>2, <1>3, UpToN
<1>5. N \in Good
  <2> HIDE DEF Good
  <2> QED BY <1>1, <1>4
<1>6. x + N = y
  OBVIOUS
<1>7. Gap(x + N) <= Gap(x) + N
  <2> HIDE DEF N
  <2> QED BY <1>5
<1> QED BY <1>6, <1>7

(* Cutting more does not make a gap larger. *)
LEMMA GapShrinks ==
  ASSUME cut \subseteq cut', NEW x
  PROVE  Gap(x)' <= Gap(x)
<1>1. Uncut(x)' \in SUBSET Uncut(x)
  BY DEF Uncut
<1> QED BY <1>1, GapType, FS_Subset DEF Gap

(* What a shortfall that is backed says. *)
LEMMA BackedGaps ==
  ASSUME TypeInv, HistoryInv, Backed, ~released
  PROVE  /\ Accounted <= upto[Recorded] + surplus
         /\ Gap(upto[safePoint]) + Excess(Accounted - upto[Recorded]) <= surplus
<1> DEFINE a == Accounted
           r == upto[Recorded]
           p == upto[safePoint]
<1>1. a \in Nat /\ r \in Nat /\ p \in Nat /\ p <= a /\ p <= r /\ surplus \in Nat
  <2>1. Recorded \in 0 .. Knots /\ safePoint \in 0 .. Knots /\ safePoint <= Recorded
    <3>1. safePoint \in 0 .. Knots
      BY DEF TypeInv, TypeOK
    <3>2. Recorded \in 0 .. Knots /\ safePoint \in 0 .. Recorded
      BY Numbers
    <3> QED BY <3>1, <3>2
  <2>2. p <= r /\ r \in Nat /\ p \in Nat
    BY <2>1, UptoMonotone, UptoDef
  <2> QED BY <2>2, Numbers DEF TypeInv, TypeOK
<1>2. IF a <= r THEN Gap(a) <= surplus ELSE Gap(r) + (a - r) <= surplus
  BY DEF Backed, Shortfall
<1>3. Gap(p) <= Gap(a) /\ Gap(p) <= Gap(r)
  <2> HIDE DEF a, r, p
  <2> QED BY <1>1, GapMonotone
<1>4. Gap(a) \in Nat /\ Gap(r) \in Nat /\ Gap(p) \in Nat
  BY GapType
<1> DEFINE ga == Gap(a)
           gr == Gap(r)
           gp == Gap(p)
<1>5. a <= r + surplus /\ gp + (IF a - r > 0 THEN a - r ELSE 0) <= surplus
  <2> HIDE DEF a, r, p, ga, gr, gp
  <2> QED BY <1>1, <1>2, <1>3, <1>4 DEF ga, gr, gp
<1> QED BY <1>5 DEF Excess

-----------------------------------------------------------------------------
(* The steps. *)

(* The screen reads the progress or leaves the job; it does not touch the  *)
(* engine of a running one.                                                *)
LEMMA ScreenJob ==
  ASSUME ProtocolInv, JobInv, Screen
  PROVE  JobInv'
<1> USE DEF JobInv
<1>1. TypeInv'
  BY ScreenTypes
<1>2. CASE ~Leave /\ ~Start
  <2>1. UNCHANGED engine
    BY <1>2 DEF Screen, StatusProgress, StatusErrs, Draw, BackStops, Hold, LetGo,
       StatsTake, StatsReturn, engine, ghost
  <2>2. EngineInv' /\ Accounted' = Accounted
    BY <2>1, EngineFrame
  <2>3. Shown' = Shown
    <3>1. CASE StatusProgress
      <4>1. completed \in Nat /\ Pending \in Nat
        BY PendingType DEF TypeInv, TypeOK
      <4>2. completed' = completed + Pending /\ Pending' = 0
        BY <3>1 DEF StatusProgress, Pending
      <4> QED BY <4>1, <4>2 DEF Shown
    <3>2. CASE ~StatusProgress
      <4>1. completed' = completed /\ progress' = progress
        BY <1>2, <3>2 DEF Screen, StatusErrs, Draw, BackStops, Hold, LetGo,
           StatsTake, StatsReturn, job, chans
      <4> QED BY <4>1 DEF Shown, Pending
    <3> QED BY <3>1, <3>2
  <2>4. UNCHANGED <<released, worker, credit, nknots, surplus>>
    BY <2>1 DEF engine, run
  <2>5. Ledger'
    BY <2>2, <2>3, <2>4 DEF Ledger
  <2> QED BY <1>1, <2>2, <2>5
<1>3. CASE Leave
  <2>1. UNCHANGED <<completed, progress, nknots, worker, run, stepper, device, cut, surplus>>
    BY <1>3 DEF Leave, chans
  <2>2. CASE released' = released
    <3>1. UNCHANGED pointer
      BY <1>3, <2>2 DEF Leave, ReleaseResumeState, ProtocolInv, Protocol
    <3>2. UNCHANGED engine
      BY <2>1, <2>2, <3>1 DEF engine
    <3>3. EngineInv' /\ Accounted' = Accounted
      BY <3>2, EngineFrame
    <3>4. Ledger'
      BY <2>1, <2>2, <3>3 DEF Ledger, Shown, Pending, run
    <3> QED BY <1>1, <3>3, <3>4
  <2>3. CASE released' # released
    <3>1. state' \in Terminal /\ released' = TRUE
      BY <1>3, <2>3 DEF Leave, ReleaseResumeState
    <3>2. worker = "none"
      BY <1>3, <3>1 DEF Leave, Stop, ProtocolInv, Protocol, ProtocolType, Terminal
    <3>3. ~Feeding'
      BY <2>1, <3>2 DEF Feeding
    <3>4. Flow'
      BY <2>1 DEF EngineInv, Flow, Reset, run, stepper, device
    <3>5. EngineInv'
      BY <3>1, <3>3, <3>4 DEF EngineInv, HistoryInv, Backed, CatchupInv, Placement
    <3>6. Ledger'
      BY <2>1, <3>1 DEF Ledger, Shown, Pending
    <3> QED BY <1>1, <3>5, <3>6
  <2> QED BY <2>2, <2>3
<1>4. CASE Start
  <2>1. UNCHANGED <<completed, nknots, pointer, run, stepper, device, cut, surplus, released>>
    BY <1>4 DEF Start
  <2>2. CASE worker' = worker /\ progress' = progress
    <3>1. UNCHANGED engine
      BY <2>1, <2>2 DEF engine
    <3>2. EngineInv' /\ Accounted' = Accounted
      BY <3>1, EngineFrame
    <3>3. Ledger'
      BY <2>1, <2>2, <3>2 DEF Ledger, Shown, Pending, run
    <3> QED BY <1>1, <3>2, <3>3
  <2>3. CASE ~(worker' = worker /\ progress' = progress)
    <3>1. worker' = "open" /\ progress' = <<>> /\ worker = "none"
      BY <1>4, <2>3 DEF Start, CanStart, chans, ProtocolInv, Protocol
    <3>2. ~Feeding' /\ ~Feeding /\ Recorded' = Recorded /\ Accounted' = Accounted
      BY <2>1, <3>1 DEF Feeding, Recorded, InDriver, Accounted, pointer
    <3>3. Flow'
      BY <2>1, <3>1 DEF EngineInv, Flow, Reset, run, stepper, device
    <3>4. HistoryInv'
      BY <2>1, <3>2 DEF EngineInv, HistoryInv, pointer
    <3>5. Backed'
      BY <2>1, <3>2 DEF EngineInv, Backed, Shortfall, Gap, Uncut
    <3>6. EngineInv'
      BY <3>2, <3>3, <3>4, <3>5 DEF EngineInv, CatchupInv, Placement
    <3>7. Pending' = 0 /\ Pending \in Nat /\ completed \in Nat /\ completed' = completed
      <4>1. Pending' = 0
        BY <3>1 DEF Pending
      <4> QED BY <2>1, <3>1, <4>1, PendingType DEF TypeInv, TypeOK
    <3>8. Shown' \in Nat /\ Shown \in Nat /\ Shown' <= Shown
      BY <3>7 DEF Shown
    <3>9. ~released => Shown <= Accounted
      BY <3>1, <3>8 DEF Ledger
    <3>10. ~released => Accounted \in Nat
      BY Numbers DEF EngineInv
    <3>11. upto[nknots] + surplus \in Nat
      <4>1. upto[nknots] \in Nat /\ surplus \in Nat
        BY UptoDef DEF TypeInv, TypeOK
      <4> QED BY <4>1
    <3>12. nknots' = nknots /\ released' = released /\ surplus' = surplus
      BY <2>1
    <3>13. ~released => Shown' <= Accounted
      BY <3>8, <3>9, <3>10
    <3>14. Shown' <= upto[nknots] + surplus
      <4>1. Shown <= upto[nknots] + surplus
        BY DEF Ledger
      <4> QED BY <3>8, <3>11, <4>1
    <3>15. Ledger'
      BY <3>1, <3>2, <3>8, <3>12, <3>13, <3>14 DEF Ledger
    <3> QED BY <1>1, <3>6, <3>15
  <2> QED BY <2>2, <2>3
<1> QED BY <1>2, <1>3, <1>4

(* A job that has released its resume state has no worker. *)
LEMMA AtWork ==
  ASSUME ProtocolInv, worker # "none"
  PROVE  ~released
BY DEF ProtocolInv, Protocol

(* A step after which nothing is fed, and that leaves the safe pointer.    *)
LEMMA EndingEngine ==
  ASSUME EngineInv, Flow', ~Feeding', Recorded' = Recorded,
         UNCHANGED <<pointer, cut, surplus, released>>
  PROVE  EngineInv' /\ Accounted' = Accounted
<1>1. Accounted' = Accounted
  BY DEF Accounted, pointer
<1>2. HistoryInv'
  BY DEF EngineInv, HistoryInv, pointer
<1>3. Backed'
  BY <1>1 DEF EngineInv, Backed, Shortfall, Gap, Uncut
<1> QED BY <1>1, <1>2, <1>3 DEF EngineInv, CatchupInv, Placement

(* The end of a worker resets the driver and the device and leaves the     *)
(* safe pointer as it is.                                                  *)
LEMMA FinishJob ==
  ASSUME JobInv, NEW v \in {"ok", "fail"}, Finish(v), worker \in {"open", "close", "drain"},
         lock' \in {"empty", "offered", "lent"},
         UNCHANGED <<screen, job, progress, nknots, pointer, ghost>>
  PROVE  JobInv'
<1> USE DEF JobInv
<1>1. TypeInv'
  <2> USE DEF TypeInv, TypeOK
  <2>1. /\ verdict' \in {"none", "ok", "fail"} /\ worker' = "none"
        /\ phase' = "knot" /\ catchup' \in Seq(0 .. Knots) /\ debt' = 0 /\ credit' = 0
        /\ window' \in Seq(0 .. Knots) /\ Len(window') <= 2
    BY DEF Finish
  <2>2. /\ held' \in Seq(Ticks) /\ unsent' \in Seq(Ticks) /\ queue' \in Seq(Ticks)
        /\ Len(queue') <= RingTicks /\ uncredited' = 0
    BY PlanAssumption DEF Finish
  <2>3. /\ err' \in BOOLEAN
        /\ {homed', running', blocked', stalled', writeErr', released'} \subseteq BOOLEAN
    BY DEF Finish, ghost
  <2> QED BY <2>1, <2>2, <2>3 DEF screen, job, pointer, ghost
<1>2. worker' = "none" /\ Reset'
  BY DEF Finish, Reset
<1>3. Flow' /\ ~Feeding'
  BY <1>2 DEF Flow, Reset, Feeding
<1>4. Recorded' = Recorded
  BY <1>2 DEF Recorded, InDriver
<1>5. EngineInv' /\ Accounted' = Accounted
  BY <1>3, <1>4, EndingEngine DEF ghost
<1>6. Ledger'
  BY <1>2, <1>5 DEF Ledger, Shown, Pending, job, ghost
<1> QED BY <1>1, <1>5, <1>6

(* The steps by which a worker comes to its end. *)
LEMMA EndingJob ==
  ASSUME ProtocolInv, JobInv,
         OpenFails \/ FlushDriver \/ DriverFlushed \/ CloseFailed \/ Close \/ Closed
  PROVE  JobInv'
<1> USE DEF JobInv
<1>1. CASE OpenFails
  <2>1. lock' \in {"empty", "offered", "lent"}
    BY <1>1 DEF OpenFails, TypeInv, TypeOK
  <2> QED BY <1>1, <2>1, FinishJob DEF OpenFails
<1>2. CASE CloseFailed
  BY <1>2, FinishJob DEF CloseFailed
<1>3. CASE Closed
  <2>1. lock' \in {"empty", "offered", "lent"}
    BY <1>3 DEF Closed, TypeInv, TypeOK
  <2>2. PICK v \in {"ok", "fail"} : Finish(v)
    BY <1>3 DEF Closed
  <2> QED BY <1>3, <2>1, <2>2, FinishJob DEF Closed
<1>4. CASE FlushDriver
  <2>1. TypeInv'
    BY <1>4 DEF FlushDriver, TypeInv, TypeOK, screen, job, chans, pointer, device, ghost
  <2>2. Flow' /\ ~Feeding' /\ Recorded' = Recorded
    BY <1>4 DEF FlushDriver, EngineInv, Flow, Reset, Feeding, Recorded, InDriver, device
  <2>3. UNCHANGED <<completed, progress, nknots, pointer, cut, surplus, released>>
    BY <1>4 DEF FlushDriver, job, chans, ghost
  <2>4. EngineInv' /\ Accounted' = Accounted
    BY <2>2, <2>3, EndingEngine
  <2>5. Ledger'
    BY <1>4, <2>3, <2>4 DEF FlushDriver, Ledger, Shown, Pending
  <2> QED BY <2>1, <2>4, <2>5
<1>5. CASE DriverFlushed
  <2>1. TypeInv'
    BY <1>5 DEF DriverFlushed, TypeInv, TypeOK, screen, job, chans, pointer, run, stepper, device, ghost
  <2>2. Flow' /\ ~Feeding' /\ Recorded' = Recorded
    BY <1>5 DEF DriverFlushed, EngineInv, Flow, Reset, Feeding, Recorded, InDriver, run, stepper, device
  <2>3. UNCHANGED <<completed, progress, nknots, pointer, cut, surplus, released>>
    BY <1>5 DEF DriverFlushed, job, chans, ghost
  <2>4. EngineInv' /\ Accounted' = Accounted
    BY <2>2, <2>3, EndingEngine
  <2>5. Ledger'
    BY <1>5, <2>3, <2>4 DEF DriverFlushed, Ledger, Shown, Pending
  <2> QED BY <2>1, <2>4, <2>5
<1>6. CASE Close
  <2>1. TypeInv'
    BY <1>6 DEF Close, TypeInv, TypeOK, screen, job, pointer, run, stepper, ghost
  <2>2. Flow' /\ ~Feeding' /\ Recorded' = Recorded
    BY <1>6 DEF Close, EngineInv, Flow, Reset, Feeding, Recorded, InDriver, run, stepper
  <2>3. UNCHANGED <<completed, progress, nknots, pointer, cut, surplus, released>>
    BY <1>6 DEF Close, job, ghost
  <2>4. EngineInv' /\ Accounted' = Accounted
    BY <2>2, <2>3, EndingEngine
  <2>5. Ledger'
    BY <1>6, <2>3, <2>4 DEF Close, Ledger, Shown, Pending
  <2> QED BY <2>1, <2>4, <2>5
<1> QED BY <1>1, <1>2, <1>3, <1>4, <1>5, <1>6

(* The parts of the invariant read the place of the worker only through    *)
(* these operators.                                                        *)
LEMMA SamePlace ==
  ASSUME EngineInv, Flow', Feeding' => Feeding, Recorded' = Recorded, Owed' = Owed, Fed' = Fed,
         UNCHANGED <<pointer, catchup, debt, window, held, unsent, queue, uncredited, cut,
                     surplus, released>>
  PROVE  EngineInv' /\ Accounted' = Accounted
<1>1. Accounted' = Accounted /\ InWindow' = InWindow /\ Backlog' = Backlog
  BY DEF Accounted, InWindow, Backlog, pointer
<1>2. \A k : After(k)' = After(k)
  BY DEF After, pointer
<1>3. Executed' = Executed
  BY <1>1 DEF Executed
<1>4. \A x : Gap(x)' = Gap(x)
  BY DEF Gap, Uncut
<1>5. HistoryInv' /\ Backed'
  BY <1>1, <1>4 DEF EngineInv, HistoryInv, Backed, Shortfall, pointer
<1>6. CatchupInv'
  BY DEF EngineInv, CatchupInv, After, pointer
<1>7. Lead' = Lead
  BY <1>1, <1>2, <1>3 DEF Lead, Offset
<1>8. ASSUME NEW b, Ordered(b), Covered(b)
      PROVE  Ordered(b)' /\ Covered(b)'
  <2>1. WindowInv(b)'
    BY <1>1, <1>3, <1>8 DEF Ordered, WindowInv
  <2>2. Ordered(b)'
    BY <1>3, <1>8, <2>1 DEF Ordered, pointer
  <2>3. Covered(b)'
    BY <1>3, <1>4, <1>7, <1>8 DEF Covered
  <2> QED BY <2>2, <2>3
<1>9. Placement'
  BY <1>8 DEF EngineInv, Placement
<1> QED BY <1>1, <1>5, <1>6, <1>9 DEF EngineInv

(* The progress is handed to the screen, or dropped with a quit. *)
LEMMA ReportJob ==
  ASSUME ProtocolInv, JobInv, Report
  PROVE  JobInv'
<1> USE DEF JobInv
<1>1. ~released /\ worker = "report"
  BY AtWork DEF Report
<1>2. completed \in Nat /\ credit \in Nat /\ Pending \in Nat /\ reported \in Nat
  BY PendingType DEF TypeInv, TypeOK
<1>3. \/ progress' = progress /\ reported' = reported
      \/ progress' = <<credit + Pending>> /\ reported' = reported + credit
  BY DEF Report
<1>4. TypeInv'
  <2>1. progress' \in Seq(Nat) /\ Len(progress') <= 1 /\ reported' \in Nat
    <3>1. CASE progress' = progress /\ reported' = reported
      BY <3>1 DEF TypeInv, TypeOK
    <3>2. CASE progress' = <<credit + Pending>> /\ reported' = reported + credit
      BY <1>2, <3>2
    <3> QED BY <1>3, <3>1, <3>2
  <2>2. worker' \in {"close", "next"}
    BY DEF Report
  <2> QED BY SMTT(30), <2>1, <2>2 DEF Report, TypeInv, TypeOK, screen, job, pointer, run, stepper, device
<1>5. UNCHANGED <<completed, nknots, pointer, run, stepper, device, cut, surplus, released>>
  BY DEF Report, job
<1>6. Shown' \in Nat /\ Shown \in Nat /\ Shown' <= Shown + credit
  <2>1. completed' = completed /\ (Pending' = Pending \/ Pending' = credit + Pending)
    BY <1>3, <1>5 DEF Pending
  <2>2. Shown' = completed + Pending \/ Shown' = completed + (credit + Pending)
    BY <2>1 DEF Shown
  <2> QED BY <1>2, <2>2 DEF Shown
<1>7. Recorded' = Recorded /\ Accounted' = Accounted
  BY <1>1, <1>5 DEF Report, Recorded, InDriver, Accounted, pointer
<1>8. Ledger'
  <2>1. Shown' <= Accounted
    <3>1. Accounted \in Nat
      BY <1>1, Numbers DEF EngineInv
    <3>2. Shown + credit <= Accounted
      BY <1>1 DEF Ledger
    <3> QED BY <1>2, <1>6, <3>1, <3>2
  <2>2. Accounted <= upto[nknots] + surplus
    <3>1. Recorded = nknots
      BY <1>1 DEF Recorded, InDriver
    <3> QED BY <1>1, <3>1, BackedGaps DEF EngineInv
  <2>3. Accounted \in Int /\ upto[nknots] + surplus \in Int
    <3>1. Accounted \in Nat
      BY <1>1, Numbers DEF EngineInv
    <3>2. upto[nknots] \in Nat /\ surplus \in Nat
      BY UptoDef DEF TypeInv, TypeOK
    <3> QED BY <3>1, <3>2
  <2>4. worker' # "report"
    BY DEF Report
  <2>5. Shown' <= upto[nknots] + surplus
    BY <1>6, <2>1, <2>2, <2>3
  <2> QED BY <1>5, <1>6, <1>7, <2>1, <2>3, <2>4, <2>5 DEF Ledger
<1>9. Flow'
  BY <1>1, <1>5 DEF Report, EngineInv, Flow, Reset, run, stepper, device
<1>10. CASE worker' = "close"
  <2>1. ~Feeding'
    BY <1>10 DEF Feeding
  <2> QED BY <1>4, <1>5, <1>7, <1>8, <1>9, <2>1, EndingEngine
<1>11. CASE worker' # "close"
  <2>1. worker' = "next" /\ ~err
    BY <1>11 DEF Report
  <2>2. Feeding /\ Feeding' /\ catchup = <<>>
    BY <1>1, <1>5, <2>1, <1>9 DEF Feeding, EngineInv, Flow, run
  <2>3. Owed' = Owed
    BY <1>1, <2>1 DEF Owed
  <2>4. Fed' = Fed
    <3>1. Hand' = Hand /\ \A k : After(k)' = After(k)
      BY <1>5 DEF Hand, After, run, pointer
    <3> QED BY <1>1, <1>5, <2>1, <2>2, <3>1 DEF Fed, run
  <2>5. EngineInv'
    BY <1>5, <1>7, <1>9, <2>2, <2>3, <2>4, SamePlace DEF run, stepper, device
  <2> QED BY <1>4, <1>8, <2>5
<1> QED BY <1>10, <1>11

(* The steps that move neither a knot nor a tick. *)
LEMMA WaitingJob ==
  ASSUME ProtocolInv, JobInv, HomeFails \/ Tick \/ Block
  PROVE  JobInv'
<1> USE DEF JobInv
<1>1. UNCHANGED <<completed, progress, nknots, pointer, phase, catchup, debt, credit,
                  window, held, unsent, queue, uncredited, cut, surplus, released>>
  <2>1. CASE HomeFails
    BY <2>1 DEF HomeFails, job, chans, stepper, device, ghost
  <2>2. CASE Tick
    BY <2>2 DEF Tick, job, chans, stepper, ghost
  <2>3. CASE Block
    BY <2>3 DEF Block, job, chans, run, stepper, ghost
  <2> QED BY <2>1, <2>2, <2>3
<1>2. \/ worker' = worker /\ err' = err
      \/ worker \in {"write", "wait"} /\ worker' \in {"write", "fed"}
  BY DEF HomeFails, Tick, Block, run
<1>3. Recorded' = Recorded /\ Hand' = Hand /\ Owed' = Owed
  BY <1>1, <1>2 DEF Recorded, InDriver, Hand, Owed
<1>4. Feeding' <=> Feeding
  BY <1>1, <1>2 DEF Feeding
<1>5. \A k : After(k)' = After(k)
  BY <1>1 DEF After, pointer
<1>6. Fed' = Fed
  BY <1>1, <1>2, <1>3, <1>5 DEF Fed
<1>7. Flow'
  <2>1. CASE HomeFails
    BY <2>1 DEF HomeFails, EngineInv, Flow, Reset, stepper, device
  <2>2. CASE Tick
    BY <2>2 DEF Tick, EngineInv, Flow, Reset, stepper, TypeInv, TypeOK
  <2>3. CASE Block
    BY <2>3 DEF Block, EngineInv, Flow, Reset, run, stepper
  <2> QED BY <2>1, <2>2, <2>3
<1>8. EngineInv' /\ Accounted' = Accounted
  BY <1>1, <1>3, <1>4, <1>6, <1>7, SamePlace
<1>9. Ledger'
  BY <1>1, <1>2, <1>8 DEF Ledger, Shown, Pending
<1>10. TypeInv'
  <2>1. CASE HomeFails
    BY <2>1 DEF HomeFails, TypeInv, TypeOK, screen, job, chans, pointer, stepper, device, ghost
  <2>2. CASE Tick
    BY <2>2 DEF Tick, TypeInv, TypeOK, screen, job, chans, pointer, stepper, ghost
  <2>3. CASE Block
    BY <2>3 DEF Block, TypeInv, TypeOK, screen, job, chans, pointer, run, stepper, ghost
  <2> QED BY <2>1, <2>2, <2>3
<1> QED BY <1>8, <1>9, <1>10

(* The device runs out of words and takes the halting zero: the word that  *)
(* will be credited is one that the surplus has grown by.                  *)
LEMMA StallJob ==
  ASSUME ProtocolInv, JobInv, Stall
  PROVE  JobInv'
<1> USE DEF JobInv
<1>1. running /\ stalled' = TRUE /\ uncredited' = uncredited + WordTicks
      /\ surplus' = surplus + WordTicks
  BY DEF Stall
<1>2. UNCHANGED <<screen, job, chans, nknots, pointer, worker, run, stepper, homed, queue,
                  running, blocked, writeErr, cut, reported, starts, released>>
  BY DEF Stall
<1>3. worker \notin {"none", "open"} /\ ~released
  BY <1>1, AtWork DEF EngineInv, Flow, Reset
<1>4. uncredited \in Nat /\ surplus \in Nat /\ WordTicks \in Nat /\ debt \in Int
  BY PlanAssumption DEF TypeInv, TypeOK
<1>5. TypeInv'
  <2>1. uncredited' \in Nat /\ surplus' \in Nat /\ stalled' \in BOOLEAN
    BY <1>1, <1>4
  <2> QED BY <1>2, <2>1 DEF TypeInv, TypeOK, screen, job, chans, pointer, run, stepper
<1>6. Flow'
  BY <1>1, <1>2, <1>3 DEF EngineInv, Flow, run, stepper
<1>7. /\ Accounted' = Accounted /\ Hand' = Hand /\ InWindow' = InWindow /\ Recorded' = Recorded
      /\ Owed' = Owed /\ Backlog' = Backlog /\ (Feeding' <=> Feeding)
  BY <1>2 DEF Accounted, Hand, InWindow, Recorded, InDriver, Owed, Backlog, Feeding, pointer, run, stepper
<1>8. \A k : After(k)' = After(k)
  BY <1>2 DEF After, pointer
<1>9. Fed' = Fed
  BY <1>2, <1>7, <1>8 DEF Fed, run
<1>10. Executed' = Executed
  BY <1>7, <1>9 DEF Executed
<1>11. \A x : Gap(x)' = Gap(x)
  BY <1>2 DEF Gap, Uncut
<1>12. HistoryInv'
  BY <1>2, <1>7 DEF EngineInv, HistoryInv, pointer
<1>13. CatchupInv'
  BY <1>2, <1>7, <1>8 DEF EngineInv, CatchupInv, run, pointer
<1>14. Shortfall' = Shortfall /\ Shortfall \in Int
  <2>1. Shortfall' = Shortfall
    BY <1>7, <1>11 DEF Shortfall
  <2>2. Accounted \in Nat /\ upto[Recorded] \in Nat
    BY <1>3, Numbers, UptoDef DEF EngineInv
  <2> QED BY <2>1, <2>2, GapType DEF Shortfall
<1>15. Backed'
  <2>1. Shortfall <= surplus
    BY <1>3 DEF EngineInv, Backed
  <2> QED BY <1>1, <1>4, <1>14, <2>1 DEF Backed
<1>16. Placement'
  <2> SUFFICES ASSUME Feeding PROVE \E b \in Int : Ordered(b)' /\ Covered(b)'
    BY <1>7 DEF Placement
  <2>1. PICK b \in Int : Ordered(b) /\ Covered(b)
    BY DEF EngineInv, Placement
  <2>2. WindowInv(b)'
    BY <1>2, <1>7, <1>10, <2>1 DEF Ordered, WindowInv, stepper
  <2>3. Ordered(b)'
    BY <1>2, <1>10, <2>1, <2>2 DEF Ordered, stepper, run, pointer
  <2>4. Offset' = Offset /\ Lead \in Int
    <3>1. Offset' = Offset
      BY <1>2, <1>7, <1>8 DEF Offset, run
    <3> QED BY <1>3, <3>1, LeadNumber DEF EngineInv
  <2>5. Lead' = Lead + WordTicks
    <3>1. Lead' = Accounted + debt + Owed + (uncredited + WordTicks) + Offset - Executed
      BY <1>1, <1>2, <1>7, <1>10, <2>4 DEF Lead, run
    <3>2. Accounted \in Int /\ Owed \in Int /\ Executed \in Int /\ Offset \in Int
      BY <1>3, LeadNumber DEF EngineInv
    <3> QED BY <1>4, <3>1, <3>2 DEF Lead
  <2>6. Excess(Lead)' <= Excess(Lead) + WordTicks /\ Excess(Lead) \in Nat /\ Excess(Lead)' \in Nat
    <3>1. Excess(Lead)' = IF Lead + WordTicks > 0 THEN Lead + WordTicks ELSE 0
      BY <2>5 DEF Excess
    <3> QED BY <1>4, <2>4, <3>1 DEF Excess
  <2>7. ASSUME NEW g \in Nat, g + Excess(Lead) <= surplus
        PROVE  g + Excess(Lead)' <= surplus'
    <3> DEFINE e == Excess(Lead)
               f == Excess(Lead)'
    <3>1. e \in Nat /\ f \in Nat /\ f <= e + WordTicks /\ g + e <= surplus
      BY <2>6, <2>7
    <3> HIDE DEF e, f
    <3>2. g + f <= surplus + WordTicks
      BY <1>4, <3>1
    <3> QED BY <1>1, <3>2 DEF f
  <2>8. Covered(b)'
    <3>1. Gap(Executed) \in Nat /\ Gap(b) \in Nat
      BY GapType
    <3>2. Gap(Executed) + Excess(Lead)' <= surplus' /\ Gap(b) + Excess(Lead)' <= surplus'
      BY <2>1, <2>7, <3>1 DEF Covered
    <3> QED BY <1>10, <1>11, <3>2 DEF Covered
  <2> QED BY <2>3, <2>8
<1>17. Ledger'
  <2>1. /\ Shown' = Shown /\ Shown \in Nat
    <3>1. completed \in Nat /\ Pending \in Nat
      BY PendingType DEF TypeInv, TypeOK
    <3>2. completed' = completed /\ Pending' = Pending
      BY <1>2 DEF Pending, job, chans
    <3> QED BY <3>1, <3>2 DEF Shown
  <2>2. Shown <= upto[nknots] + surplus /\ upto[nknots] \in Nat
    BY UptoDef DEF Ledger, TypeInv, TypeOK
  <2>3. Shown <= upto[nknots] + (surplus + WordTicks)
    BY <1>4, <2>1, <2>2
  <2> QED BY <1>1, <1>2, <1>7, <2>1, <2>3 DEF Ledger, run
<1> QED BY <1>5, <1>6, <1>12, <1>13, <1>15, <1>16, <1>17 DEF EngineInv

(* A resume: the line to the safe point and the knots recorded after it. *)
LEMMA OpenedJob ==
  ASSUME ProtocolInv, JobInv, Opened
  PROVE  JobInv'
<1> USE DEF JobInv
<1>1. worker = "open" /\ worker' = "next" /\ ~released /\ lock' = "offered"
  BY AtWork DEF Opened
<1>2. UNCHANGED <<screen, job, verdict, progress, nknots, pointer, phase, debt, credit, err,
                  stepper, device, ghost>>
  BY DEF Opened
<1>3. catchup' = <<0>> \o history
  BY DEF Opened, Resume
<1>4. history \in Seq(1 .. Knots) /\ history \in Seq(0 .. Knots) /\ Knots \in Nat
  <2>1. history \in Seq(1 .. Knots) /\ Knots \in Nat
    BY PlanAssumption DEF TypeInv, TypeOK
  <2>2. (1 .. Knots) \subseteq (0 .. Knots)
    OBVIOUS
  <2> QED BY <2>1, <2>2, SeqMonotonic
<1>5. /\ catchup' \in Seq(0 .. Knots) /\ catchup' # <<>>
      /\ Head(catchup') = 0 /\ Tail(catchup') = history
  <2> DEFINE c == <<0>> \o history
  <2>1. <<0>> \in Seq(0 .. Knots) /\ Len(<<0>>) = 1 /\ <<0>>[1] = 0
    BY <1>4
  <2>2. c \in Seq(0 .. Knots) /\ Len(c) = 1 + Len(history) /\ c[1] = 0
        /\ \A i \in 2 .. Len(history) + 1 : c[i] = history[i - 1]
    <3>1. c \in Seq(0 .. Knots) /\ Len(c) = 1 + Len(history)
      BY <1>4, <2>1, ConcatProperties
    <3>2. \A i \in 1 .. 1 + Len(history) : c[i] = IF i <= 1 THEN <<0>>[i] ELSE history[i - 1]
      BY <1>4, <2>1, ConcatProperties
    <3>3. Len(history) \in Nat
      BY <1>4
    <3> HIDE DEF c
    <3> QED BY <2>1, <3>1, <3>2, <3>3
  <2> HIDE DEF c
  <2>3. c # <<>> /\ Head(c) = 0
    BY <2>2, <1>4
  <2>4. Tail(c) \in Seq(0 .. Knots) /\ Len(Tail(c)) = Len(history)
        /\ \A i \in 1 .. Len(history) : Tail(c)[i] = history[i]
    <3>1. /\ Tail(c) \in Seq(0 .. Knots) /\ Len(Tail(c)) = Len(c) - 1
          /\ \A i \in 1 .. Len(Tail(c)) : Tail(c)[i] = c[i + 1]
      BY <2>2, <2>3, HeadTailProperties
    <3>2. Len(history) \in Nat
      BY <1>4
    <3> QED BY <2>2, <3>1, <3>2
  <2>5. Tail(c) = history
    BY <1>4, <2>4, SeqEqual
  <2> QED BY <1>3, <2>2, <2>3, <2>5 DEF c
<1>6. TypeInv'
  BY <1>1, <1>2, <1>5 DEF TypeInv, TypeOK, screen, job, pointer, stepper, device, ghost
<1>7. Reset /\ debt = 0 /\ uncredited = 0 /\ window = <<>> /\ queue = <<>> /\ unsent = <<>> /\ held = <<>>
      /\ phase = "knot" /\ err = FALSE /\ blocked = FALSE
  BY <1>1 DEF EngineInv, Flow, Reset
<1>8. Flow'
  BY <1>1, <1>2, <1>5, <1>7 DEF Flow, Reset, stepper, device
<1>9. Recorded' = Recorded /\ Accounted' = Accounted
  BY <1>1, <1>2 DEF Recorded, InDriver, Accounted, pointer
<1>10. HistoryInv' /\ Backed' /\ HistoryInv /\ Backed
  <2>1. \A x : Gap(x)' = Gap(x)
    BY <1>2 DEF Gap, Uncut, ghost
  <2> QED BY <1>2, <1>9, <2>1 DEF EngineInv, HistoryInv, Backed, Shortfall, pointer, ghost
<1>11. After(0)' = safePoint /\ Hand' = 0 /\ TicksOf(0) = LineTicks
  BY <1>2, <1>5 DEF After, Hand, TicksOf, pointer
<1>12. PointerTail(safePoint, history, Recorded)
  BY <1>1, <1>10 DEF HistoryInv
<1>13. CatchupInv'
  <2>1. After(Head(catchup))' = safePoint /\ safePoint' = safePoint
    BY <1>2, <1>5 DEF After, pointer
  <2>2. safePoint <= safePoint
    BY DEF TypeInv, TypeOK
  <2> QED BY <1>5, <1>9, <1>12, <2>1, <2>2 DEF CatchupInv
<1>14. Fed' = upto[safePoint] - LineTicks
  BY <1>1, <1>2, <1>5, <1>11 DEF Fed, After, TicksOf, pointer
<1>15. InWindow' = 0 /\ Backlog' = 0 /\ Owed' = 0
  BY <1>1, <1>2, <1>7 DEF InWindow, TicksWithin, Backlog, Owed, stepper, device
<1>16. upto[safePoint] \in Nat /\ LineTicks \in Nat /\ Accounted \in Nat /\ upto[safePoint] <= Accounted
  BY <1>1, <1>10, Numbers, PlanAssumption
<1>17. Executed' = upto[safePoint] - LineTicks
  <2>1. Executed' = (upto[safePoint] - LineTicks) - 0 - 0
    BY <1>14, <1>15 DEF Executed
  <2> QED BY <1>16, <2>1
<1>18. Lead' = Accounted - upto[Recorded]
  <2>1. upto[Recorded] \in Nat
    BY <1>1, <1>10, Numbers, UptoDef
  <2>2. Offset' = upto[safePoint] - LineTicks - upto[Recorded]
    BY <1>5, <1>9, <1>11 DEF Offset
  <2>3. Lead' = Accounted + 0 + 0 + 0 + (upto[safePoint] - LineTicks - upto[Recorded])
                  - (upto[safePoint] - LineTicks)
    BY <1>2, <1>7, <1>9, <1>15, <1>17, <2>2 DEF Lead, device
  <2> QED BY <1>16, <2>1, <2>3
<1>19. Placement'
  <2> DEFINE g == Excess(Accounted - upto[Recorded])
  <2>1. PICK b \in Int : b = upto[safePoint]
    BY <1>16
  <2>2. Ordered(b)'
    <3>1. upto[safePoint]' <= b
      BY <1>2, <1>16, <2>1 DEF pointer
    <3>2. window' = <<>> /\ queue' = <<>> /\ unsent' = <<>> /\ held' = <<>>
      BY <1>2, <1>7 DEF stepper, device
    <3>3. WindowInv(b)'
      BY <3>2 DEF WindowInv
    <3> QED BY <3>1, <3>2, <3>3 DEF Ordered, RunOf
  <2>3. \A x : Gap(x)' = Gap(x)
    BY <1>2 DEF Gap, Uncut, ghost
  <2>4. Gap(b) + g <= surplus
    BY <1>1, <1>10, <2>1, BackedGaps
  <2>5. Excess(Lead)' = g
    BY <1>18 DEF Excess
  <2>6. Gap(b - LineTicks) <= Gap(b)
    BY <1>16, GapMonotone
  <2>7. Gap(b - LineTicks) \in Nat /\ Gap(b) \in Nat /\ g \in Nat /\ surplus \in Nat
    <3>1. upto[Recorded] \in Nat
      BY <1>1, <1>10, Numbers, UptoDef
    <3>2. g \in Nat
      BY <1>16, <3>1 DEF Excess
    <3> QED BY <3>2, GapType DEF TypeInv, TypeOK
  <2> HIDE DEF g
  <2>8. Gap(b - LineTicks) + g <= surplus
    BY <2>4, <2>6, <2>7
  <2>9. Executed' = b - LineTicks /\ surplus' = surplus
    BY <1>2, <1>17, <2>1 DEF ghost
  <2>10. Covered(b)'
    BY <2>3, <2>4, <2>5, <2>8, <2>9 DEF Covered
  <2> QED BY <2>2, <2>10 DEF Placement
<1>21. Ledger'
  BY <1>1, <1>2, <1>9 DEF Ledger, Shown, Pending, job, ghost
<1> QED BY <1>6, <1>8, <1>10, <1>13, <1>19, <1>21 DEF EngineInv

(* The next knot of the plan is taken up. *)
LEMMA NextKnotJob ==
  ASSUME ProtocolInv, JobInv, NextKnot
  PROVE  JobInv'
<1> USE DEF JobInv
<1>1. worker = "next" /\ worker' = "feed" /\ ~released /\ nknots < Knots /\ nknots' = nknots + 1
  BY AtWork DEF NextKnot, MoreKnots
<1>2. phase' = IF catchup = <<>> THEN "knot" ELSE "catchup"
  BY DEF NextKnot
<1>3. UNCHANGED <<screen, job, chans, pointer, catchup, debt, credit, err, stepper, device, ghost>>
  BY DEF NextKnot
<1>4. nknots \in Nat /\ nknots' \in 1 .. Knots /\ Knots \in Nat
  BY <1>1, PlanAssumption DEF TypeInv, TypeOK
<1>5. TypeInv'
  BY <1>1, <1>2, <1>3, <1>4 DEF TypeInv, TypeOK, screen, job, chans, pointer, stepper, device, ghost
<1>6. Flow'
  BY <1>1, <1>2, <1>3 DEF EngineInv, Flow, stepper, device
<1>7. Recorded' = Recorded /\ Recorded = nknots
  BY <1>1, <1>2, <1>4 DEF Recorded, InDriver
<1>8. Feeding
  BY <1>1 DEF EngineInv, Flow, Feeding
<1>9. Owed' = Owed
  BY <1>1, <1>3 DEF Owed
<1>10. \A k : After(k)' = After(k)
  BY <1>3 DEF After, pointer
<1>11. Fed' = Fed
  <2>1. CASE catchup # <<>>
    BY <1>1, <1>3, <1>10, <2>1 DEF Fed, Hand
  <2>2. CASE catchup = <<>>
    <3>1. Fed = upto[After(nknots)]
      BY <1>1, <2>2 DEF Fed, Hand
    <3>2. Fed' = upto[After(nknots + 1)] - TicksOf(nknots + 1)
      BY <1>1, <1>3, <1>10, <2>2 DEF Fed, Hand
    <3>3. After(nknots) = nknots /\ After(nknots + 1) = nknots + 1
      <4>1. safePoint \in 0 .. nknots
        BY <1>1, <1>7, Numbers DEF EngineInv
      <4> QED BY <1>4, <4>1 DEF After
    <3>4. TicksOf(nknots + 1) = T[nknots + 1]
      BY <1>4 DEF TicksOf
    <3>5. upto[nknots + 1] = upto[nknots] + T[nknots + 1]
      <4>1. nknots + 1 \in 1 .. Knots /\ (nknots + 1) - 1 = nknots
        BY <1>1, <1>4
      <4> QED BY <4>1, UptoDef
    <3>6. upto[nknots] \in Nat /\ T[nknots + 1] \in Nat
      BY <1>1, <1>4, UptoDef, PlanAssumption
    <3> QED BY <3>1, <3>2, <3>3, <3>4, <3>5, <3>6
  <2> QED BY <2>1, <2>2
<1>12. EngineInv' /\ Accounted' = Accounted
  BY <1>3, <1>6, <1>7, <1>8, <1>9, <1>11, SamePlace DEF stepper, device, ghost
<1>13. Ledger'
  <2>1. Shown' = Shown /\ worker' # "report" /\ released' = released /\ surplus' = surplus
    BY <1>1, <1>3 DEF Shown, Pending, job, chans, ghost
  <2>2. Shown <= Accounted /\ Shown <= upto[nknots] + surplus
    BY <1>1 DEF Ledger
  <2>3. upto[nknots] <= upto[nknots + 1] /\ upto[nknots] \in Nat /\ upto[nknots + 1] \in Nat
    BY <1>1, <1>4, UptoMonotone, UptoDef
  <2>4. Shown \in Nat /\ surplus \in Nat
    <3>1. Pending \in Nat /\ completed \in Nat /\ surplus \in Nat
      BY PendingType DEF TypeInv, TypeOK
    <3> QED BY <3>1 DEF Shown
  <2>5. Shown <= upto[nknots + 1] + surplus
    BY <2>2, <2>3, <2>4
  <2> QED BY <1>1, <1>12, <2>1, <2>2, <2>5 DEF Ledger
<1> QED BY <1>5, <1>12, <1>13

(* The device executes a tick. *)
LEMMA ExecuteJob ==
  ASSUME ProtocolInv, JobInv, Execute
  PROVE  JobInv'
<1> USE DEF JobInv
<1>1. /\ running /\ queue # <<>> /\ queue' = Tail(queue) /\ uncredited' = uncredited + 1
      /\ cut' = IF blocked THEN cut ELSE cut \cup ({Head(queue)} \cap PlanTicks)
      /\ surplus' = IF blocked THEN surplus + 1 ELSE surplus
  BY DEF Execute
<1>2. UNCHANGED <<screen, job, chans, nknots, pointer, worker, run, stepper, homed, running,
                  blocked, stalled, writeErr, reported, starts, released>>
  BY DEF Execute
<1>3. worker \notin {"none", "open"} /\ ~released
  BY <1>1, AtWork DEF EngineInv, Flow, Reset
<1>4. queue \in Seq(Ticks) /\ unsent \in Seq(Ticks) /\ held \in Seq(Ticks)
      /\ uncredited \in Nat /\ cut \subseteq PlanTicks /\ Len(queue) <= RingTicks
      /\ RingTicks \in Nat /\ surplus \in Nat
  BY PlanAssumption DEF TypeInv, TypeOK
<1>5. /\ queue' \in Seq(Ticks) /\ Len(queue') = Len(queue) - 1 /\ Len(queue) \in Nat
      /\ Head(queue) \in Ticks /\ Head(queue) = queue[1] /\ Len(queue) >= 1
      /\ Len(unsent) \in Nat /\ Len(held) \in Nat
  BY <1>1, <1>4, HeadTailProperties, EmptySeq
<1>6. TypeInv'
  <2>1. cut' \subseteq PlanTicks
    BY <1>1, <1>4
  <2>2. Len(queue') <= RingTicks /\ uncredited' \in Nat /\ surplus' \in Nat
    BY <1>1, <1>4, <1>5
  <2> QED BY <1>2, <1>5, <2>1, <2>2 DEF TypeInv, TypeOK, screen, job, chans, pointer, run, stepper
<1>7. Flow'
  BY <1>1, <1>2, <1>3 DEF EngineInv, Flow, run, stepper
<1>8. /\ Accounted' = Accounted /\ Hand' = Hand /\ InWindow' = InWindow /\ Recorded' = Recorded
      /\ Owed' = Owed
  BY <1>2 DEF Accounted, Hand, InWindow, Recorded, InDriver, Owed, pointer, run, stepper
<1>9. \A k : After(k)' = After(k)
  BY <1>2 DEF After, pointer
<1>10. Fed' = Fed /\ (Feeding' <=> Feeding)
  BY <1>2, <1>8, <1>9 DEF Fed, Feeding, run
<1>11. Backlog' = Backlog - 1
  <2>1. Backlog' = (Len(queue) - 1) + Len(unsent) + Len(held)
    BY <1>2, <1>5 DEF Backlog, stepper
  <2> QED BY <1>5, <2>1 DEF Backlog
<1>12. Accounted \in Nat /\ InWindow \in Nat /\ Backlog \in Nat /\ Fed \in Int /\ Executed \in Int
       /\ Owed \in Nat /\ debt \in Int
  BY <1>3, Numbers, HandNumbers DEF EngineInv, TypeInv, TypeOK
<1>13. Executed' = Executed + 1
  <2>1. Executed' = Fed - InWindow - (Backlog - 1)
    BY <1>8, <1>10, <1>11 DEF Executed
  <2> QED BY <1>12, <2>1 DEF Executed
<1>14. HistoryInv'
  BY <1>2, <1>8 DEF EngineInv, HistoryInv, pointer
<1>15. CatchupInv'
  BY <1>2, <1>8, <1>9, <1>10 DEF EngineInv, CatchupInv, run, pointer
<1>16. Lead' = Lead /\ Lead \in Int /\ upto[Recorded] \in Nat
  <2>1. Offset' = Offset
    BY <1>2, <1>8, <1>9 DEF Offset, run
  <2>2. Lead' = Accounted + debt + Owed + (uncredited + 1) + Offset - (Executed + 1)
    BY <1>1, <1>2, <1>8, <1>13, <2>1 DEF Lead, run
  <2>3. Offset \in Int /\ Lead \in Int /\ upto[Recorded] \in Nat
    BY <1>3, LeadNumber, Numbers, UptoDef DEF EngineInv
  <2> QED BY <1>4, <1>12, <2>2, <2>3 DEF Lead
<1>17. cut \subseteq cut' /\ surplus <= surplus' /\ surplus' \in Nat
  BY <1>1, <1>4
<1>18. \A x : Gap(x)' <= Gap(x) /\ Gap(x) \in Nat /\ Gap(x)' \in Nat
  <2>1. \A x : Gap(x)' <= Gap(x)
    BY <1>17, GapShrinks
  <2>2. (\A x : IsFiniteSet(Uncut(x)) /\ Gap(x) \in Nat)'
    BY GapType, PTL
  <2> QED BY <2>1, <2>2, GapType
<1>19. Backed'
  <2> DEFINE a == Accounted
             r == upto[Recorded]
  <2>1. a' = a /\ r' = r /\ a \in Nat /\ r \in Nat
    BY <1>8, <1>12, <1>16
  <2>2. IF a <= r THEN Gap(a) <= surplus ELSE Gap(r) + (a - r) <= surplus
    BY <1>3 DEF EngineInv, Backed, Shortfall
  <2>3. PICK c \in Nat, d \in Nat : c = a /\ d = r
    BY <2>1
  <2>4. IF c <= d THEN Gap(c)' <= surplus' ELSE Gap(d)' + (c - d) <= surplus'
    <3>1. /\ Gap(c)' <= Gap(c) /\ Gap(c) \in Nat /\ Gap(c)' \in Nat
          /\ Gap(d)' <= Gap(d) /\ Gap(d) \in Nat /\ Gap(d)' \in Nat
      BY <1>18
    <3>2. IF c <= d THEN Gap(c) <= surplus ELSE Gap(d) + (c - d) <= surplus
      BY <2>2, <2>3
    <3> QED BY SMTT(30), <1>4, <1>17, <3>1, <3>2
  <2>5. Accounted' = c /\ upto[Recorded]' = d
    BY <2>1, <2>3
  <2> QED BY <2>4, <2>5 DEF Backed, Shortfall
<1>20. Placement'
  <2> SUFFICES ASSUME Feeding PROVE \E b \in Int : Ordered(b)' /\ Covered(b)'
    BY <1>10 DEF Placement
  <2>1. PICK b \in Int : Ordered(b) /\ Covered(b)
    BY DEF EngineInv, Placement
  <2>2. RunOf(queue', Executed + 1, b)
    <3>1. queue' = SubSeq(queue, 2, Len(queue))
      BY <1>1, <1>4, TailIsSubSeq
    <3>2. RunOf(queue, Executed, b)
      BY <2>1 DEF Ordered
    <3>3. Executed + 1 = Executed + 2 - 1 /\ Executed + 1 \in Int
      BY <1>12
    <3> QED BY <1>4, <1>5, <1>12, <3>1, <3>2, <3>3, RunPart
  <2>3. Executed + 1 + Len(queue') = Executed + Len(queue)
    BY <1>5, <1>12
  <2>4. Executed + 1 + Len(queue') + Len(unsent) = Executed + Len(queue) + Len(unsent)
    BY <2>3
  <2>5. (Executed + Backlog)' = Executed + Backlog
    <3>1. (Executed + Backlog)' = (Executed + 1) + (Backlog - 1)
      BY <1>11, <1>13
    <3> QED BY <1>12, <3>1
  <2>6. WindowInv(b)'
    BY <1>2, <2>1, <2>5 DEF Ordered, WindowInv, stepper
  <2>7. RunOf(queue, Executed, b)'
    BY <1>13, <2>2
  <2>8. RunOf(unsent, Executed + Len(queue), b)'
    BY <1>2, <1>13, <2>1, <2>3 DEF Ordered, stepper
  <2>9. RunOf(held, Executed + Len(queue) + Len(unsent), b)'
    BY <1>2, <1>13, <2>1, <2>4 DEF Ordered, stepper
  <2>10. Ordered(b)'
    BY <1>2, <2>1, <2>6, <2>7, <2>8, <2>9 DEF Ordered, run, pointer
  <2>11. PICK x \in Int : x = Executed
    BY <1>12
  <2> DEFINE e == Excess(Lead)
  <2>12. e' = e /\ e \in Nat /\ Gap(x) + e <= surplus /\ Gap(b) + e <= surplus
    BY <1>16, <2>1, <2>11 DEF Excess, Covered
  <2> HIDE DEF e
  <2>13. Gap(b)' + e <= surplus'
    <3>1. Gap(b)' <= Gap(b) /\ Gap(b) \in Nat /\ Gap(b)' \in Nat
      BY <1>18
    <3> QED BY <1>4, <1>17, <2>12, <3>1
  <2>14. Gap(x + 1)' + e <= surplus'
    <3>1. Gap(x + 1)' <= Gap(x + 1) /\ Gap(x + 1) \in Nat /\ Gap(x + 1)' \in Nat /\ Gap(x) \in Nat
      BY <1>18
    <3>2. Gap(x + 1) <= Gap(x) + 1
      BY GapStep
    <3>3. CASE blocked
      BY SMTT(30), <1>1, <1>4, <2>12, <3>1, <3>2, <3>3
    <3>4. CASE ~blocked /\ Head(queue)[1] = 0
      <4>1. At(Head(queue), x + 1, b)
        BY <1>5, <2>1, <2>11 DEF Ordered, RunOf
      <4>2. x + 1 <= b
        BY <3>4, <4>1 DEF At
      <4>3. Gap(x + 1) <= Gap(b) /\ Gap(b) \in Nat
        BY <4>2, GapMonotone, GapType
      <4> QED BY SMTT(30), <1>4, <1>17, <2>12, <3>1, <4>3
    <3>5. CASE ~blocked /\ Head(queue)[1] # 0
      <4>1. Head(queue) \in PlanTicks /\ Pos(Head(queue)) = x + 1
        BY <1>5, <2>1, <2>11, <3>5 DEF Ordered, RunOf, At
      <4>2. cut' = cut \cup {Head(queue)}
        BY <1>1, <3>5, <4>1
      <4>3. Uncut(x + 1)' \in SUBSET Uncut(x)
        <5> SUFFICES ASSUME NEW t \in PlanTicks, Pos(t) <= x + 1, t \notin cut, t # Head(queue)
                     PROVE  Pos(t) <= x
          BY <4>2 DEF Uncut
        <5>1. Pos(t) # x + 1 /\ Pos(t) \in Nat
          BY <4>1, PosInjective, PlanTick
        <5> QED BY <5>1
      <4>4. Gap(x + 1)' <= Gap(x)
        BY <4>3, GapType, FS_Subset DEF Gap
      <4> QED BY <1>4, <1>17, <2>12, <3>1, <4>4
    <3> QED BY <3>3, <3>4, <3>5
  <2>15. Executed' = x + 1
    BY <1>13, <2>11
  <2>16. Covered(b)'
    BY <2>12, <2>13, <2>14, <2>15 DEF Covered, e
  <2> QED BY <2>10, <2>16
<1>21. Ledger'
  <2>1. /\ Shown' = Shown /\ Shown \in Nat
    <3>1. completed \in Nat /\ Pending \in Nat
      BY PendingType DEF TypeInv, TypeOK
    <3>2. completed' = completed /\ Pending' = Pending
      BY <1>2 DEF Pending, job, chans
    <3> QED BY <3>1, <3>2 DEF Shown
  <2>2. Shown <= upto[nknots] + surplus /\ upto[nknots] \in Nat
    BY UptoDef DEF Ledger, TypeInv, TypeOK
  <2>3. Shown <= upto[nknots] + surplus'
    BY <1>4, <1>17, <2>1, <2>2
  <2> QED BY <1>2, <1>8, <2>1, <2>3 DEF Ledger, run
<1> QED BY <1>6, <1>7, <1>14, <1>15, <1>19, <1>20, <1>21 DEF EngineInv

(* A knot of the replay is through: its ticks are no progress. *)
LEMMA CatchupFedJob ==
  ASSUME ProtocolInv, JobInv, CatchupFed
  PROVE  JobInv'
<1> USE DEF JobInv
<1> DEFINE h == Head(catchup)
           rest == Tail(catchup)
<1>1. /\ worker = "fed" /\ phase = "catchup" /\ ~err /\ ~released /\ worker' = "feed"
      /\ debt' = debt + credit - TicksOf(h) /\ catchup' = rest
      /\ phase' = IF rest = <<>> THEN "knot" ELSE "catchup"
  BY AtWork DEF CatchupFed, Replayed
<1>2. UNCHANGED <<screen, job, chans, nknots, pointer, credit, err, stepper, device, ghost>>
  BY DEF CatchupFed
<1>3. Feeding /\ Feeding' /\ catchup # <<>> /\ unsent = <<>>
  BY <1>1 DEF EngineInv, Flow, Feeding
<1>4. /\ catchup \in Seq(0 .. Knots) /\ debt \in Int /\ credit \in Nat /\ uncredited \in Nat
      /\ Knots \in Nat /\ nknots \in 0 .. Knots
  BY PlanAssumption DEF TypeInv, TypeOK
<1>5. h \in 0 .. Knots /\ rest \in Seq(0 .. Knots) /\ Hand = h
  BY <1>3, <1>4, HeadTailProperties DEF Hand
<1>6. Recorded = nknots - 1 /\ Recorded' = Recorded /\ Recorded \in 0 .. Knots
  <2>1. Recorded \in 0 .. Knots
    BY <1>1, Numbers DEF EngineInv
  <2> QED BY <1>1, <1>2, <2>1 DEF Recorded, InDriver
<1>7. PointerTail(After(h), rest, Recorded) /\ safePoint <= After(h)
  BY <1>3 DEF EngineInv, CatchupInv
<1>8. /\ TicksOf(h) \in Nat /\ upto[After(h)] \in Nat /\ Executed \in Int /\ Fed = upto[After(h)]
      /\ After(h) \in 0 .. Knots /\ safePoint \in 0 .. Knots
  <2>1. TicksOf(Hand) \in Nat /\ upto[After(Hand)] \in Nat /\ Executed \in Int
    BY <1>1, HandNumbers DEF EngineInv
  <2>2. Fed = upto[After(Hand)]
    BY <1>1 DEF Fed
  <2>3. After(h) \in 0 .. Knots /\ safePoint \in 0 .. Knots
    BY <1>7 DEF PointerTail, TypeInv, TypeOK
  <2> QED BY <1>5, <2>1, <2>2, <2>3
<1>9. \A k : After(k)' = After(k)
  BY <1>2 DEF After, pointer
<1> HIDE DEF h, rest
(* the knot that is fed next follows in the plan *)
<1>10. Hand' = After(h) + 1 /\ (rest # <<>> => Head(rest) = After(h) + 1) /\ After(h) + 1 \in 1 .. Knots
  <2>1. CASE rest # <<>>
    <3>1. Head(rest) = rest[1] /\ 1 \in 1 .. Len(rest)
      BY <1>5, <2>1, EmptySeq, HeadTailProperties
    <3>2. rest[1] = After(h) + 1 /\ Len(rest) = Recorded - After(h)
      BY <1>7, <3>1 DEF PointerTail
    <3>3. After(h) + 1 \in 1 .. Knots
      BY <1>4, <1>6, <1>8, <3>1, <3>2
    <3>4. Hand' = Head(rest)
      BY <1>1, <2>1 DEF Hand
    <3> QED BY <3>1, <3>2, <3>3, <3>4
  <2>2. CASE rest = <<>>
    <3>1. Hand' = nknots
      BY <1>1, <1>2, <2>2 DEF Hand
    <3>2. Len(rest) = Recorded - After(h) /\ Len(rest) = 0
      BY <1>7, <2>2 DEF PointerTail
    <3>3. After(h) = Recorded
      BY <1>6, <1>8, <3>2
    <3> QED BY <1>4, <1>6, <2>2, <3>1, <3>3
  <2> QED BY <2>1, <2>2
<1>11. Fed' = Fed
  <2>1. Fed' = upto[After(After(h) + 1)] - TicksOf(After(h) + 1)
    BY <1>1, <1>9, <1>10 DEF Fed
  <2>2. After(After(h) + 1) = After(h) + 1 /\ TicksOf(After(h) + 1) = T[After(h) + 1]
    BY <1>8, <1>10 DEF After, TicksOf
  <2>3. upto[After(h) + 1] = upto[After(h)] + T[After(h) + 1]
    <3>1. (After(h) + 1) - 1 = After(h)
      BY <1>8
    <3> QED BY <1>10, <3>1, UptoDef
  <2>4. upto[After(h) + 1] \in Nat /\ T[After(h) + 1] \in Nat
    BY <1>10, UptoDef, PlanAssumption
  <2> QED BY <1>8, <2>1, <2>2, <2>3, <2>4
<1>12. /\ Accounted' = Accounted /\ InWindow' = InWindow /\ Backlog' = Backlog /\ Owed' = 0 /\ Owed = credit
  BY <1>1, <1>2 DEF Accounted, InWindow, Backlog, Owed, pointer, stepper, device
<1>13. Executed' = Executed
  BY <1>11, <1>12 DEF Executed
<1>14. TypeInv'
  <2>1. debt' \in Int /\ phase' \in {"catchup", "knot", "flush"} /\ catchup' \in Seq(0 .. Knots)
    BY <1>1, <1>4, <1>5, <1>8
  <2> QED BY <1>1, <1>2, <2>1 DEF TypeInv, TypeOK, screen, job, chans, pointer, stepper, device, ghost
<1>15. Flow'
  BY <1>1, <1>2, <1>3 DEF EngineInv, Flow, stepper, device
<1>16. HistoryInv' /\ Backed'
  <2>1. \A x : Gap(x)' = Gap(x)
    BY <1>2 DEF Gap, Uncut, ghost
  <2> QED BY <1>2, <1>6, <1>12, <2>1 DEF EngineInv, HistoryInv, Backed, Shortfall, pointer, ghost
<1>17. CatchupInv'
  <2> SUFFICES ASSUME rest # <<>>
               PROVE  (PointerTail(After(Head(catchup)), Tail(catchup), Recorded)
                       /\ safePoint <= After(Head(catchup)))'
    BY <1>1 DEF CatchupInv
  <2>1. After(Head(rest)) = After(h) + 1
    BY <1>8, <1>10 DEF After
  <2>2. 1 \in 0 .. Len(rest) /\ Len(rest) \in 1 .. Len(rest) /\ After(h) + Len(rest) = Recorded
    BY <1>5, <1>6, <1>7, <1>8, EmptySeq DEF PointerTail
  <2>3. PointerTail(After(h) + 1, SubSeq(rest, 2, Len(rest)), After(h) + Len(rest))
    BY <1>7, <2>2, TailPiece
  <2>4. Tail(rest) = SubSeq(rest, 2, Len(rest))
    BY <1>5, TailIsSubSeq
  <2>5. PointerTail(After(Head(rest)), Tail(rest), Recorded)
    BY <2>1, <2>2, <2>3, <2>4
  <2>6. safePoint <= After(Head(rest))
    BY <1>7, <1>8, <2>1
  <2> QED BY <1>1, <1>2, <1>6, <1>9, <2>5, <2>6 DEF pointer
<1>18. Lead' = Lead
  <2> DEFINE u == upto[After(h)]
             t == TicksOf(h)
             r == upto[Recorded]
             a == Accounted
             x == Executed
  <2>1. u \in Nat /\ t \in Nat /\ r \in Nat /\ a \in Nat /\ x \in Int
    <3>1. Accounted \in Nat
      BY <1>1, Numbers DEF EngineInv
    <3> QED BY <1>6, <1>8, <3>1, UptoDef
  <2>2. Offset = u - t - r
    BY <1>3 DEF Offset, h
  <2>3. Offset' = u - r
    <3>1. CASE rest # <<>>
      <4>1. upto[After(Head(rest))] - TicksOf(Head(rest)) = u
        <5>1. Fed' = upto[After(Head(rest))] - TicksOf(Head(rest))
          BY <1>1, <1>9, <1>10, <3>1 DEF Fed
        <5> QED BY <1>8, <1>11, <5>1
      <4>2. Offset' = upto[After(Head(rest))] - TicksOf(Head(rest)) - r
        BY <1>1, <1>2, <1>6, <3>1 DEF Offset, After, pointer
      <4> QED BY <4>1, <4>2
    <3>2. CASE rest = <<>>
      <4>1. After(h) = Recorded
        <5>1. Len(rest) = Recorded - After(h) /\ Len(rest) = 0
          BY <1>7, <3>2 DEF PointerTail
        <5> QED BY <1>6, <1>8, <5>1
      <4>2. Offset' = 0
        BY <1>1, <3>2 DEF Offset
      <4> QED BY <2>1, <4>1, <4>2
    <3> QED BY <3>1, <3>2
  <2>4. Lead = a + debt + credit + uncredited + (u - t - r) - x
    BY <1>12, <2>2 DEF Lead
  <2>5. Lead' = a + (debt + credit - t) + 0 + uncredited + (u - r) - x
    BY <1>1, <1>2, <1>12, <1>13, <2>3 DEF Lead, device
  <2> HIDE DEF u, t, r, a, x
  <2> QED BY <1>4, <2>1, <2>4, <2>5
<1>19. Placement'
  <2>1. PICK b \in Int : Ordered(b) /\ Covered(b)
    BY <1>3 DEF EngineInv, Placement
  <2>2. WindowInv(b)'
    BY <1>2, <1>12, <1>13, <2>1 DEF Ordered, WindowInv, stepper
  <2>3. catchup' # <<>> => Head(catchup') # 0
    <3>1. After(h) + 1 # 0
      BY <1>10, PlanAssumption
    <3> QED BY <1>1, <1>10, <3>1
  <2>4. Ordered(b)'
    BY <1>2, <1>13, <2>1, <2>2, <2>3 DEF Ordered, stepper, device
  <2>5. \A x : Gap(x)' = Gap(x)
    BY <1>2 DEF Gap, Uncut, ghost
  <2>6. Covered(b)'
    BY <1>2, <1>13, <1>18, <2>1, <2>5 DEF Covered, ghost
  <2> QED BY <2>4, <2>6 DEF Placement
<1>20. Ledger'
  BY <1>1, <1>2, <1>12 DEF Ledger, Shown, Pending, job, chans, ghost
<1> QED BY <1>14, <1>15, <1>16, <1>17, <1>19, <1>20 DEF EngineInv

(* Ticks move from the driver into the ring, those executed are credited. *)
LEMMA WriteJob ==
  ASSUME ProtocolInv, JobInv, Write
  PROVE  JobInv'
<1> USE DEF JobInv
<1> DEFINE n == Min({Len(unsent), RingTicks - Len(queue)})
           first == SubSeq(unsent, 1, n)
           rest == SubSeq(unsent, n + 1, Len(unsent))
<1>1. /\ worker = "write" /\ ~released /\ homed' = TRUE
      /\ credit' = credit + uncredited /\ uncredited' = 0
      /\ queue' = queue \o first /\ unsent' = rest
  BY AtWork DEF Write
<1>2. \/ /\ rest = <<>> /\ worker' = "fed" /\ err' = blocked /\ writeErr' = blocked
         /\ running' = running
      \/ /\ rest # <<>> /\ worker' = "wait" /\ running' = TRUE /\ err' = err
         /\ writeErr' = writeErr
  BY DEF Write
<1>3. UNCHANGED <<screen, job, chans, nknots, pointer, phase, catchup, debt, window, held,
                  blocked, stalled, ghost>>
  BY DEF Write
<1>4. /\ queue \in Seq(Ticks) /\ unsent \in Seq(Ticks) /\ held \in Seq(Ticks)
      /\ credit \in Nat /\ uncredited \in Nat /\ debt \in Int /\ Len(queue) <= RingTicks
      /\ RingTicks \in Nat /\ Len(queue) \in Nat /\ Len(unsent) \in Nat /\ Len(held) \in Nat
      /\ {running, blocked, writeErr} \subseteq BOOLEAN /\ err \in BOOLEAN
  BY PlanAssumption, LenProperties DEF TypeInv, TypeOK
<1>5. n \in 0 .. Len(unsent) /\ n <= RingTicks - Len(queue) /\ n \in Nat
  <2>1. RingTicks - Len(queue) \in Nat
    BY <1>4
  <2>2. n = IF Len(unsent) <= RingTicks - Len(queue) THEN Len(unsent) ELSE RingTicks - Len(queue)
    BY <1>4, <2>1, MinOfTwo
  <2> QED BY <1>4, <2>1, <2>2
<1> HIDE DEF n
<1>6. /\ first \in Seq(Ticks) /\ Len(first) = n /\ rest \in Seq(Ticks) /\ Len(rest) = Len(unsent) - n
  <2>1. \A i \in 1 .. Len(unsent) : unsent[i] \in Ticks
    BY <1>4, ElementOfSeq
  <2>2. /\ first \in Seq(Ticks) /\ Len(first) = IF 1 <= n THEN n - 1 + 1 ELSE 0
    BY <1>4, <1>5, <2>1, SubSeqProperties
  <2>3. /\ rest \in Seq(Ticks)
        /\ Len(rest) = IF n + 1 <= Len(unsent) THEN Len(unsent) - (n + 1) + 1 ELSE 0
    <3>1. n + 1 \in Int /\ Len(unsent) \in Int /\ \A i \in n + 1 .. Len(unsent) : unsent[i] \in Ticks
      BY <1>4, <1>5, <2>1
    <3> QED BY <3>1, SubSeqProperties
  <2> HIDE DEF first, rest
  <2> QED BY <1>4, <1>5, <2>2, <2>3
<1> HIDE DEF first, rest
<1>7. queue' \in Seq(Ticks) /\ Len(queue') = Len(queue) + n
  BY <1>1, <1>4, <1>6, ConcatProperties
<1>8. TypeInv'
  <2>1. Len(queue') <= RingTicks /\ credit' \in Nat /\ uncredited' \in Nat /\ unsent' \in Seq(Ticks)
    BY <1>1, <1>4, <1>5, <1>6, <1>7
  <2>2. err' \in BOOLEAN /\ homed' \in BOOLEAN /\ running' \in BOOLEAN /\ writeErr' \in BOOLEAN
        /\ worker' \in {"fed", "wait"}
    BY <1>1, <1>2, <1>4
  <2> QED BY SMTT(30), <1>3, <1>7, <2>1, <2>2 DEF TypeInv, TypeOK, screen, job, chans, pointer, ghost
<1>9. Flow'
  BY <1>1, <1>2, <1>3 DEF EngineInv, Flow
<1>10. /\ Accounted' = Accounted /\ Hand' = Hand /\ InWindow' = InWindow /\ Recorded' = Recorded
       /\ (Feeding' <=> Feeding)
  BY <1>1, <1>2, <1>3 DEF Accounted, Hand, InWindow, Recorded, InDriver, Feeding, pointer
<1>11. \A k : After(k)' = After(k)
  BY <1>3 DEF After, pointer
<1>12. Fed' = Fed
  BY <1>1, <1>2, <1>10, <1>11 DEF Fed
<1>13. Backlog' = Backlog
  <2>1. Backlog' = (Len(queue) + n) + (Len(unsent) - n) + Len(held)
    BY <1>1, <1>3, <1>6, <1>7 DEF Backlog
  <2> QED BY SMTT(30), <1>4, <1>5, <2>1 DEF Backlog
<1>14. Executed' = Executed
  BY <1>10, <1>12, <1>13 DEF Executed
<1>15. Executed \in Int /\ Accounted \in Nat
  BY <1>1, Numbers, HandNumbers DEF EngineInv
<1>16. HistoryInv' /\ Backed'
  <2>1. \A x : Gap(x)' = Gap(x)
    BY <1>3 DEF Gap, Uncut, ghost
  <2> QED BY <1>3, <1>10, <2>1 DEF EngineInv, HistoryInv, Backed, Shortfall, pointer, ghost
<1>17. CatchupInv'
  BY <1>3, <1>10, <1>11 DEF EngineInv, CatchupInv, pointer
<1>18. Lead' = Lead
  <2>1. Owed = credit /\ Owed' = credit + uncredited
    BY <1>1, <1>2 DEF Owed
  <2>2. Offset' = Offset /\ Offset \in Int
    <3>1. Offset' = Offset
      BY <1>3, <1>10, <1>11 DEF Offset
    <3> QED BY <1>1, <3>1, LeadNumber DEF EngineInv
  <2>3. Lead' = Accounted + debt + (credit + uncredited) + 0 + Offset - Executed
    BY <1>1, <1>3, <1>10, <1>14, <2>1, <2>2 DEF Lead
  <2>4. Lead = Accounted + debt + credit + uncredited + Offset - Executed
    BY <2>1 DEF Lead
  <2> QED BY <1>4, <1>15, <2>2, <2>3, <2>4
<1>19. Placement'
  <2> SUFFICES ASSUME Feeding PROVE \E b \in Int : Ordered(b)' /\ Covered(b)'
    BY <1>10 DEF Placement
  <2>0. PICK b \in Int : Ordered(b) /\ Covered(b)
    BY DEF EngineInv, Placement
  <2>1. RunOf(queue, Executed, b) /\ RunOf(unsent, Executed + Len(queue), b)
        /\ RunOf(held, Executed + Len(queue) + Len(unsent), b) /\ WindowInv(b)
    BY <2>0 DEF Ordered
  <2>2. RunOf(first, Executed + Len(queue), b)
    <3>1. Executed + Len(queue) = (Executed + Len(queue)) + 1 - 1 /\ Executed + Len(queue) \in Int
      BY <1>4, <1>15
    <3> QED BY <1>4, <1>5, <1>15, <2>1, <3>1, RunPart DEF first
  <2>3. RunOf(rest, Executed + (Len(queue) + n), b)
    <3>1. Executed + (Len(queue) + n) = (Executed + Len(queue)) + (n + 1) - 1
          /\ Executed + (Len(queue) + n) \in Int /\ Executed + Len(queue) \in Int
      BY <1>4, <1>5, <1>15
    <3>2. n + 1 \in Nat \ {0} /\ Len(unsent) \in 0 .. Len(unsent)
      BY <1>4, <1>5
    <3> QED BY <1>4, <1>15, <2>1, <3>1, <3>2, RunPart DEF rest
  <2>4. RunOf(queue \o first, Executed, b)
    <3>1. Executed + Len(queue) \in Int
      BY <1>4, <1>15
    <3> QED BY <1>4, <1>6, <1>15, <2>1, <2>2, <3>1, RunConcat
  <2>5. Executed + (Len(queue) + n) + (Len(unsent) - n) = Executed + Len(queue) + Len(unsent)
    BY <1>4, <1>5, <1>15
  <2>6. RunOf(queue, Executed, b)'
    BY <1>1, <1>14, <2>4
  <2>7. RunOf(unsent, Executed + Len(queue), b)'
    BY <1>1, <1>7, <1>14, <2>3
  <2>8. (Executed + Len(queue) + Len(unsent))' = Executed + Len(queue) + Len(unsent)
    <3>1. (Executed + Len(queue) + Len(unsent))' = Executed + (Len(queue) + n) + (Len(unsent) - n)
      BY <1>1, <1>6, <1>7, <1>14
    <3> QED BY <2>5, <3>1
  <2>9. RunOf(held, Executed + Len(queue) + Len(unsent), b)'
    BY <1>3, <2>1, <2>8
  <2>10. WindowInv(b)'
    BY <1>3, <1>13, <1>14, <2>1 DEF WindowInv
  <2>11. Ordered(b)'
    BY <1>3, <2>0, <2>6, <2>7, <2>9, <2>10 DEF Ordered, pointer
  <2>12. \A x : Gap(x)' = Gap(x)
    BY <1>3 DEF Gap, Uncut, ghost
  <2>13. Covered(b)'
    BY <1>3, <1>14, <1>18, <2>0, <2>12 DEF Covered, ghost
  <2> QED BY <2>11, <2>13
<1>20. Ledger'
  BY <1>1, <1>2, <1>3, <1>10 DEF Ledger, Shown, Pending, job, chans, ghost
<1> QED BY <1>8, <1>9, <1>16, <1>17, <1>19, <1>20 DEF EngineInv

(* The window holds no, one or two knots. *)
LEMMA AtMostTwo == \A n \in Nat : n <= 2 => n = 0 \/ n = 1 \/ n = 2
OBVIOUS

(* Append, with its elements named. *)
LEMMA AppendTo ==
  ASSUME NEW S, NEW s \in Seq(S), NEW e \in S
  PROVE  /\ Append(s, e) \in Seq(S) /\ Len(Append(s, e)) = Len(s) + 1
         /\ Append(s, e)[Len(s) + 1] = e
         /\ \A i \in 1 .. Len(s) : Append(s, e)[i] = s[i]
BY AppendProperties

(* The window moves on by one knot: what leaves it is emitted. *)
LEMMA WindowMoves ==
  ASSUME NEW win \in Seq(0 .. Knots), Len(win) <= 2, NEW k \in 0 .. Knots,
         NEW start \in Int, NEW seen \in Int,
         Len(win) >= 1 => Placed(win[1], start, seen),
         Len(win) = 2 => Placed(win[2], start + TicksOf(win[1]), seen),
         Placed(k, start + TicksWithin(win), seen)
  PROVE  LET next == Shifted(win, k)
             new == Emitted(win)
         IN /\ next \in Seq(0 .. Knots) /\ Len(next) <= 2
            /\ new \in Seq(Ticks) /\ Len(new) \in Nat /\ RunOf(new, start, seen)
            /\ TicksWithin(next) \in Nat
            /\ TicksWithin(next) + Len(new) = TicksWithin(win) + TicksOf(k)
            /\ Len(next) >= 1 => Placed(next[1], start + Len(new), seen)
            /\ Len(next) = 2 => Placed(next[2], start + Len(new) + TicksOf(next[1]), seen)
<1> DEFINE next == Shifted(win, k)
           new == Emitted(win)
<1> \A j \in 0 .. Knots : TicksOf(j) \in Nat
  BY PlanAssumption DEF TicksOf
<1>1. Len(win) = 0 \/ Len(win) = 1 \/ Len(win) = 2
  <2>1. Len(win) \in Nat
    BY LenProperties
  <2> QED BY <2>1, AtMostTwo
<1>2. CASE Len(win) = 0
  <2>1. win = <<>> /\ new = <<>> /\ next = Append(win, k)
    BY <1>2, EmptySeq DEF Emitted, Shifted
  <2> HIDE DEF next, new
  <2>2. Len(next) = 1 /\ next[1] = k /\ next \in Seq(0 .. Knots)
    BY <1>2, <2>1, AppendProperties
  <2>3. TicksWithin(win) = 0 /\ TicksWithin(next) = TicksOf(k)
    BY <1>2, <2>2 DEF TicksWithin
  <2>4. new \in Seq(Ticks) /\ Len(new) = 0 /\ RunOf(new, start, seen)
    <3>1. Len(new) = 0 /\ new \in Seq(Ticks)
      BY <2>1
    <3> QED BY <3>1 DEF RunOf
  <2>5. start + 0 = start
    OBVIOUS
  <2> USE DEF next, new
  <2> QED BY <2>2, <2>3, <2>4, <2>5
<1>3. CASE Len(win) = 1
  <2> DEFINE a == win[1]
  <2>1. new = <<>> /\ next = Append(win, k)
    BY <1>3 DEF Emitted, Shifted
  <2>2. a \in 0 .. Knots
    <3>1. 1 \in 1 .. Len(win)
      BY <1>3
    <3> QED BY <3>1, ElementOfSeq
  <2> HIDE DEF next, new
  <2>3. Len(next) = 2 /\ next[1] = a /\ next[2] = k /\ next \in Seq(0 .. Knots)
    <3>1. Len(next) = Len(win) + 1 /\ next[Len(win) + 1] = k /\ next \in Seq(0 .. Knots)
          /\ \A i \in 1 .. Len(win) : next[i] = win[i]
      <4> DEFINE S == 0 .. Knots
      <4>1. win \in Seq(S) /\ k \in S
        BY Zenon
      <4> HIDE DEF S
      <4>2. /\ Append(win, k) \in Seq(S) /\ Len(Append(win, k)) = Len(win) + 1
            /\ Append(win, k)[Len(win) + 1] = k
            /\ \A i \in 1 .. Len(win) : Append(win, k)[i] = win[i]
        BY <4>1, AppendTo
      <4> QED BY <2>1, <4>2 DEF S
    <3>2. 1 \in 1 .. Len(win) /\ Len(win) + 1 = 2
      BY <1>3
    <3> QED BY <3>1, <3>2 DEF a
  <2>4. TicksWithin(win) = TicksOf(a) /\ TicksWithin(next) = TicksOf(a) + TicksOf(k)
    BY <1>3, <2>2, <2>3 DEF TicksWithin
  <2>5. new \in Seq(Ticks) /\ Len(new) = 0 /\ RunOf(new, start, seen)
    <3>1. Len(new) = 0 /\ new \in Seq(Ticks)
      BY <2>1
    <3> QED BY <3>1 DEF RunOf
  <2>6. Placed(a, start, seen) /\ TicksOf(a) \in Nat /\ TicksOf(k) \in Nat
    BY <1>3, <2>2
  <2> HIDE DEF a
  <2>7. start + 0 = start /\ start + TicksWithin(win) = start + 0 + TicksOf(a)
    BY <2>4, <2>6
  <2> USE DEF next, new
  <2> QED BY <2>3, <2>4, <2>5, <2>6, <2>7
<1>4. CASE Len(win) = 2
  <2> DEFINE a == win[1]
             b == win[2]
             rest == Tail(win)
  <2>1. new = TickSeq(a) /\ next = Append(rest, k)
    BY <1>4 DEF Emitted, Shifted
  <2>2. a \in 0 .. Knots /\ b \in 0 .. Knots
    <3>1. 1 \in 1 .. Len(win) /\ 2 \in 1 .. Len(win)
      BY <1>4
    <3> QED BY <3>1, ElementOfSeq
  <2>3. rest \in Seq(0 .. Knots) /\ Len(rest) = 1 /\ rest[1] = b
    <3>1. win # <<>>
      <4>1. Len(<<>>) = 0
        OBVIOUS
      <4> QED BY SMTT(30), <1>4, <4>1
    <3> QED BY SMTT(30), <1>4, <3>1, HeadTailProperties
  <2> HIDE DEF next, new, rest
  <2>4. Len(next) = 2 /\ next[1] = b /\ next[2] = k /\ next \in Seq(0 .. Knots)
    <3>0. rest \in Seq(0 .. Knots)
      BY <2>3
    <3>1. Len(next) = Len(rest) + 1 /\ next[Len(rest) + 1] = k /\ next \in Seq(0 .. Knots)
          /\ \A i \in 1 .. Len(rest) : next[i] = rest[i]
      <4> DEFINE S == 0 .. Knots
      <4>1. rest \in Seq(S) /\ k \in S
        BY <3>0
      <4> HIDE DEF S
      <4>2. /\ Append(rest, k) \in Seq(S) /\ Len(Append(rest, k)) = Len(rest) + 1
            /\ Append(rest, k)[Len(rest) + 1] = k
            /\ \A i \in 1 .. Len(rest) : Append(rest, k)[i] = rest[i]
        BY <4>1, AppendTo
      <4> QED BY <2>1, <4>2 DEF S
    <3>2. 1 \in 1 .. Len(rest) /\ Len(rest) + 1 = 2
      BY <2>3
    <3> QED BY <2>3, <3>1, <3>2
  <2>5. TicksWithin(win) = TicksOf(a) + TicksOf(b) /\ TicksWithin(next) = TicksOf(b) + TicksOf(k)
    BY <1>4, <2>4 DEF TicksWithin
  <2>6. Placed(a, start, seen) /\ Placed(b, start + TicksOf(a), seen)
        /\ TicksOf(a) \in Nat /\ TicksOf(b) \in Nat /\ TicksOf(k) \in Nat
    BY <1>4, <2>2
  <2>7. new \in Seq(Ticks) /\ Len(new) = TicksOf(a) /\ RunOf(new, start, seen)
    BY <2>1, <2>2, <2>6, RunOfKnot
  <2> HIDE DEF a, b
  <2>8. start + TicksWithin(win) = start + TicksOf(a) + TicksOf(b)
    BY <2>5, <2>6
  <2>9. TicksOf(b) + TicksOf(k) + TicksOf(a) = TicksOf(a) + TicksOf(b) + TicksOf(k)
        /\ TicksOf(b) + TicksOf(k) \in Nat
    BY <2>6
  <2> USE DEF next, new
  <2> QED BY <2>4, <2>5, <2>6, <2>7, <2>8, <2>9
<1> QED BY <1>1, <1>2, <1>3, <1>4

(* The driver gets a knot: the curve it completes goes into the buffer. *)
LEMMA FeedJob ==
  ASSUME ProtocolInv, JobInv, Feed
  PROVE  JobInv'
<1> USE DEF JobInv
<1> DEFINE new == Emitted(window)
           out == held \o new
<1>1. /\ worker = "feed" /\ ~released /\ credit' = 0 /\ window' = Shifted(window, Hand)
      /\ worker' = IF unsent' = <<>> THEN "fed" ELSE "write"
  BY AtWork DEF Feed, Hand, EngineInv, Flow, TypeInv, TypeOK
<1>2. UNCHANGED <<screen, job, chans, nknots, pointer, phase, catchup, debt, err, device, ghost>>
  BY DEF Feed
<1>3. PICK keep \in IF new = <<>> THEN {Len(held)} ELSE 0 .. WordTicks - 1 :
        /\ keep <= Len(out)
        /\ held' = SubSeq(out, Len(out) - keep + 1, Len(out))
        /\ unsent' = SubSeq(out, 1, Len(out) - keep)
  BY DEF Feed
<1>4. Feeding /\ Feeding' /\ unsent = <<>> /\ ~err /\ phase # "flush"
  BY <1>1, <1>2 DEF EngineInv, Flow, Feeding
<1>5. /\ queue \in Seq(Ticks) /\ held \in Seq(Ticks) /\ Len(queue) \in Nat /\ Len(held) \in Nat
      /\ window \in Seq(0 .. Knots) /\ Len(window) <= 2 /\ debt \in Int /\ uncredited \in Nat
  BY LenProperties DEF TypeInv, TypeOK
<1>6. /\ Hand \in 0 .. Knots /\ TicksOf(Hand) \in Nat /\ upto[After(Hand)] \in Nat
      /\ Executed \in Int /\ Accounted \in Nat
      /\ Fed = upto[After(Hand)] - TicksOf(Hand) /\ Backlog \in Nat /\ InWindow \in Nat
  <2>1. HistoryInv
    BY DEF EngineInv
  <2> QED BY <1>1, <2>1, Numbers, HandNumbers DEF Fed
<1>7. Backlog = Len(queue) + Len(held)
  BY <1>4, <1>5 DEF Backlog
<1>8. Executed + Backlog + InWindow = Fed
  <2>1. Fed \in Int
    BY <1>6
  <2>2. Executed = Fed - InWindow - Backlog
    BY DEF Executed
  <2> DEFINE e == Executed
             f == Fed
             b == Backlog
             w == InWindow
  <2>3. f \in Int /\ b \in Nat /\ w \in Nat /\ e = f - w - b
    BY <1>6, <2>1, <2>2
  <2> HIDE DEF e, f, b, w
  <2>4. e + b + w = f
    BY <2>3
  <2> QED BY <2>4 DEF e, f, b, w
<1> PICK b \in Int : Ordered(b) /\ Covered(b)
  BY <1>4 DEF EngineInv, Placement
(* the knot comes where the last one ended *)
<1>9. Placed(Hand, Fed, b)
  <2>1. CASE Hand = 0
    <3>1. TicksOf(Hand) = LineTicks /\ upto[After(Hand)] = upto[safePoint]
      BY <2>1 DEF TicksOf, After
    <3>2. Fed + LineTicks <= b
      <4>1. nknots # 0
        BY <1>1, Numbers DEF EngineInv, Recorded, InDriver, Flow
      <4>2. catchup # <<>> /\ Head(catchup) = 0
        BY <2>1, <4>1 DEF Hand
      <4>3. upto[safePoint] <= b
        BY <4>2 DEF Ordered
      <4> QED BY <1>6, <3>1, <4>3
    <3> QED BY <2>1, <3>2 DEF Placed
  <2>2. CASE Hand # 0
    <3>1. Hand \in 1 .. Knots /\ After(Hand) = Hand /\ TicksOf(Hand) = T[Hand]
      BY <1>6, <2>2 DEF After, TicksOf
    <3>2. upto[Hand] = upto[Hand - 1] + T[Hand] /\ upto[Hand - 1] \in Nat
      <4>1. Hand - 1 \in 0 .. Knots
        BY <3>1, PlanAssumption
      <4> QED BY <3>1, <4>1, UptoDef
    <3> QED BY <1>6, <2>2, <3>1, <3>2 DEF Placed
  <2> QED BY <2>1, <2>2
<1>10. WindowInv(b) /\ RunOf(held, Executed + Len(queue), b) /\ RunOf(queue, Executed, b)
  <2>1. Executed + Len(queue) + Len(unsent) = Executed + Len(queue)
    BY <1>4, <1>5, <1>6
  <2> QED BY <1>4, <2>1 DEF Ordered
<1>11. /\ window' \in Seq(0 .. Knots) /\ Len(window') <= 2
       /\ new \in Seq(Ticks) /\ Len(new) \in Nat
       /\ RunOf(new, Executed + Backlog, b)
       /\ InWindow' + Len(new) = InWindow + TicksOf(Hand) /\ InWindow' \in Nat
       /\ Len(window') >= 1 => Placed(window'[1], Executed + Backlog + Len(new), b)
       /\ Len(window') = 2 =>
            Placed(window'[2], Executed + Backlog + Len(new) + TicksOf(window'[1]), b)
  <2>1. Executed + Backlog \in Int
    BY <1>6
  <2>2. Placed(Hand, Executed + Backlog + InWindow, b)
    BY <1>8, <1>9
  <2> QED BY <1>1, <1>5, <1>6, <1>10, <2>1, <2>2, WindowMoves DEF WindowInv, InWindow
<1> HIDE DEF new
<1>12. out \in Seq(Ticks) /\ Len(out) = Len(held) + Len(new) /\ Len(out) \in Nat
  BY <1>5, <1>11, ConcatProperties
<1>13. RunOf(out, Executed + Len(queue), b)
  <2>1. Executed + Backlog = (Executed + Len(queue)) + Len(held) /\ Executed + Len(queue) \in Int
        /\ Executed + Backlog \in Int
    BY <1>5, <1>6, <1>7
  <2> QED BY <1>5, <1>10, <1>11, <2>1, RunConcat
<1>14. keep \in Nat /\ keep <= Len(out)
  <2>1. CASE new = <<>>
    BY <1>3, <1>5, <2>1
  <2>2. CASE new # <<>>
    BY <1>3, <2>2, PlanAssumption
  <2> QED BY <2>1, <2>2
<1> HIDE DEF out
<1>15. /\ unsent' \in Seq(Ticks) /\ Len(unsent') = Len(out) - keep
       /\ RunOf(unsent', Executed + Len(queue), b)
  <2>1. /\ Executed + Len(queue) = (Executed + Len(queue)) + 1 - 1 /\ Executed + Len(queue) \in Int
        /\ b \in Int /\ Len(out) - keep \in 0 .. Len(out) /\ 1 \in Nat \ {0}
    BY <1>5, <1>6, <1>12, <1>14
  <2>2. /\ RunOf(SubSeq(out, 1, Len(out) - keep), Executed + Len(queue), b)
        /\ SubSeq(out, 1, Len(out) - keep) \in Seq(Ticks)
        /\ Len(SubSeq(out, 1, Len(out) - keep)) = IF 1 <= Len(out) - keep THEN Len(out) - keep - 1 + 1 ELSE 0
    BY <1>12, <1>13, <2>1, RunPart
  <2> DEFINE l == Len(out)
  <2>3. l \in Nat /\ keep \in Nat /\ keep <= l
    BY <1>12, <1>14
  <2> HIDE DEF l
  <2>4. (IF 1 <= l - keep THEN l - keep - 1 + 1 ELSE 0) = l - keep
    BY <2>3
  <2> QED BY <1>3, <2>2, <2>4 DEF l
<1>16. /\ held' \in Seq(Ticks) /\ Len(held') = keep
       /\ RunOf(held', Executed + Len(queue) + Len(unsent'), b)
  <2> DEFINE a == Len(out) - keep + 1
             x == Executed + Len(queue)
             y == Executed + Len(queue) + (Len(out) - keep)
  <2>1. /\ y = x + a - 1 /\ x \in Int /\ y \in Int
        /\ b \in Int /\ a \in Nat \ {0} /\ Len(out) \in 0 .. Len(out)
    BY <1>5, <1>6, <1>12, <1>14
  <2> HIDE DEF a, y
  <2>2. /\ RunOf(SubSeq(out, a, Len(out)), y, b)
        /\ SubSeq(out, a, Len(out)) \in Seq(Ticks)
        /\ Len(SubSeq(out, a, Len(out))) = IF a <= Len(out) THEN Len(out) - a + 1 ELSE 0
    BY <1>12, <1>13, <2>1, RunPart
  <2> USE DEF a, y
  <2> QED BY <1>3, <1>12, <1>14, <1>15, <2>2
<1>17. /\ Accounted' = Accounted /\ Hand' = Hand /\ Recorded' = Recorded /\ Owed = 0 /\ Owed' = 0
  BY <1>1, <1>2, <1>4 DEF Accounted, Hand, Recorded, InDriver, Owed, pointer
<1>18. \A j : After(j)' = After(j)
  BY <1>2 DEF After, pointer
<1>19. Fed' = upto[After(Hand)]
  BY <1>1, <1>17, <1>18 DEF Fed
<1>20. Backlog' = Backlog + Len(new)
  <2>1. Backlog' = Len(queue) + (Len(out) - keep) + keep
    BY <1>2, <1>15, <1>16 DEF Backlog, device
  <2> QED BY <1>5, <1>7, <1>11, <1>12, <1>14, <2>1
<1>21. Executed' = Executed
  <2> DEFINE u == upto[After(Hand)]
             w == InWindow'
  <2>1. Executed' = u - w - (Backlog + Len(new))
    BY <1>19, <1>20 DEF Executed
  <2>2. u \in Nat /\ w \in Nat /\ w + Len(new) = InWindow + TicksOf(Hand) /\ Fed = u - TicksOf(Hand)
    BY <1>6, <1>11
  <2> DEFINE l == Len(new)
             t == TicksOf(Hand)
             c == Backlog
             i == InWindow
             e == Executed
  <2>3. /\ l \in Nat /\ t \in Nat /\ c \in Nat /\ i \in Nat /\ e \in Int
        /\ w + l = i + t /\ e + c + i = u - t
    BY <1>6, <1>8, <1>11, <2>2
  <2>4. Executed' = u - w - (c + l)
    BY <2>1
  <2> HIDE DEF u, w, l, t, c, i, e
  <2>5. u - w - (c + l) = e
    BY <2>2, <2>3
  <2> QED BY <2>4, <2>5 DEF e
<1>22. TypeInv'
  <2>1. worker' \in {"fed", "write"} /\ credit' \in Nat
    BY <1>1
  <2>2. /\ window' \in Seq(0 .. Knots) /\ Len(window') <= 2
        /\ held' \in Seq(Ticks) /\ unsent' \in Seq(Ticks)
    BY <1>11, <1>15, <1>16
  <2>3. worker' \in {"none", "open", "next", "feed", "write", "wait", "fed",
                    "report", "close", "drain"}
    BY <2>1
  <2> QED BY <1>2, <2>1, <2>2, <2>3 DEF TypeInv, TypeOK, screen, job, chans, pointer, device, ghost
<1>23. Flow'
  BY <1>1, <1>2, <1>4 DEF EngineInv, Flow, device
<1>24. \A x : Gap(x)' = Gap(x)
  BY <1>2 DEF Gap, Uncut, ghost
<1>25. HistoryInv' /\ Backed'
  BY <1>2, <1>17, <1>24 DEF EngineInv, HistoryInv, Backed, Shortfall, pointer, ghost
<1>26. CatchupInv'
  BY <1>2, <1>4, <1>17, <1>18 DEF EngineInv, CatchupInv, pointer
<1>27. Lead' = Lead
  BY <1>2, <1>17, <1>18, <1>21 DEF Lead, Offset, device
<1>28. Placement'
  <2>1. RunOf(queue, Executed, b)'
    BY <1>2, <1>10, <1>21 DEF device
  <2>2. RunOf(unsent, Executed + Len(queue), b)'
    BY <1>2, <1>15, <1>21 DEF device
  <2>3. RunOf(held, Executed + Len(queue) + Len(unsent), b)'
    BY <1>2, <1>16, <1>21 DEF device
  <2>4. (Executed + Backlog)' = Executed + Backlog + Len(new)
    <3>1. (Executed + Backlog)' = Executed + (Backlog + Len(new))
      BY <1>20, <1>21
    <3> QED BY <1>6, <1>11, <3>1
  <2>5. WindowInv(b)'
    BY <1>11, <2>4, Zenon DEF WindowInv
  <2>6. Ordered(b)'
    BY <1>2, <2>1, <2>2, <2>3, <2>5 DEF Ordered, pointer
  <2>7. Covered(b)'
    BY <1>2, <1>21, <1>24, <1>27 DEF Covered, ghost
  <2> QED BY <2>6, <2>7 DEF Placement
<1>29. Ledger'
  BY <1>1, <1>2, <1>17 DEF Ledger, Shown, Pending, job, chans, ghost
<1> QED BY <1>22, <1>23, <1>25, <1>26, <1>28, <1>29 DEF EngineInv

(* The knot and its progress are recorded. *)
LEMMA KnotFedJob ==
  ASSUME ProtocolInv, JobInv, KnotFed
  PROVE  JobInv'
<1> USE DEF JobInv
<1> DEFINE p == IF phase = "catchup" THEN 0 ELSE Max({0, debt + credit})
           his == Append(history, nknots)
<1>1. /\ worker = "fed" /\ ~released /\ worker' = "report"
      /\ phase = "knot" \/ (phase = "catchup" /\ err)
      /\ debt' = IF phase = "catchup" THEN debt ELSE debt + credit - p
      /\ credit' = p
  BY AtWork DEF KnotFed
<1>2. UNCHANGED <<screen, job, chans, nknots, phase, catchup, err, stepper, device, ghost>>
  BY DEF KnotFed
<1>3. Progress(his, p)
  BY DEF KnotFed
<1>4. Feeding /\ (~err => unsent = <<>>) /\ (phase = "knot" => catchup = <<>>)
      /\ (phase = "catchup" => catchup # <<>>)
  BY <1>1 DEF EngineInv, Flow, Feeding
<1>5. /\ debt \in Int /\ credit \in Nat /\ uncredited \in Nat /\ nknots \in 0 .. Knots
      /\ retired \in Nat /\ residual \in Nat /\ history \in Seq(1 .. Knots)
      /\ retired \in 0 .. Len(history) /\ Knots \in Nat /\ completed \in Nat
      /\ safePoint \in 0 .. Knots /\ window \in Seq(0 .. Knots) /\ Len(window) \in Nat
      /\ queue \in Seq(Ticks) /\ unsent \in Seq(Ticks) /\ held \in Seq(Ticks)
  BY PlanAssumption, LenProperties DEF TypeInv, TypeOK
<1>6. /\ HistoryInv /\ Recorded = nknots - 1 /\ Recorded' = nknots
      /\ Recorded \in 0 .. Knots /\ nknots \in 1 .. Knots
  <2>1. Recorded = nknots - 1 /\ Recorded' = nknots
    BY <1>1, <1>2 DEF Recorded, InDriver
  <2>2. HistoryInv
    BY DEF EngineInv
  <2>3. Recorded \in 0 .. Knots
    BY <1>1, <2>2, Numbers
  <2> QED BY <1>5, <2>1, <2>2, <2>3
<1>7. /\ Accounted \in Nat /\ Pending \in Nat /\ Executed \in Int
      /\ InWindow \in Nat /\ Backlog \in Nat /\ Owed = credit
      /\ upto[nknots] \in Nat /\ upto[nknots - 1] <= upto[nknots] /\ upto[nknots - 1] \in Nat
  <2>1. nknots - 1 \in 0 .. Knots /\ nknots \in 0 .. Knots /\ nknots - 1 <= nknots
    BY <1>6, <1>5
  <2>2. upto[nknots] \in Nat /\ upto[nknots - 1] <= upto[nknots] /\ upto[nknots - 1] \in Nat
    BY <2>1, UptoDef, UptoMonotone
  <2> QED BY <1>1, <1>6, <2>2, Numbers, HandNumbers DEF Owed
<1>8. p \in Nat /\ (phase = "catchup" => p = 0) /\ (phase = "knot" => p = 0 \/ p = debt + credit)
  <2>1. debt + credit \in Int /\ 0 \in Int
    BY <1>5
  <2>2. Max({0, debt + credit}) = IF 0 >= debt + credit THEN 0 ELSE debt + credit
    BY <2>1, MaxOfTwo
  <2> QED BY <1>1, <2>1, <2>2
<1> HIDE DEF p
<1>10. phase = "knot" => /\ Hand = nknots /\ Fed = upto[nknots] /\ Executed <= upto[nknots]
                         /\ catchup = <<>>
  <2> SUFFICES ASSUME phase = "knot"
               PROVE  /\ Hand = nknots /\ Fed = upto[nknots] /\ Executed <= upto[nknots]
                      /\ catchup = <<>>
    OBVIOUS
  <2>1. catchup = <<>> /\ Hand = nknots
    BY <1>4 DEF Hand
  <2>2. After(nknots) = nknots
    BY <1>6 DEF After
  <2>3. Fed = upto[nknots]
    BY <1>1, <2>1, <2>2 DEF Fed
  <2>4. Executed <= upto[nknots]
    <3>1. Executed = upto[nknots] - InWindow - Backlog
      BY <2>3 DEF Executed
    <3> QED BY <1>7, <3>1
  <2> QED BY <2>1, <2>3, <2>4
<1>11. PointerTail(safePoint, his, nknots) /\ retired \in 0 .. Len(his)
  <2>1. PointerTail(safePoint, history, nknots - 1)
    BY <1>1, <1>6 DEF HistoryInv
  <2>2. Len(history) = nknots - 1 - safePoint /\ Len(history) \in Nat
        /\ safePoint <= nknots - 1
        /\ \A i \in 1 .. Len(history) : history[i] = safePoint + i
    BY <1>5, LenProperties, <2>1 DEF PointerTail
  <2>3. /\ his \in Seq(1 .. Knots) /\ Len(his) = Len(history) + 1
        /\ his[Len(history) + 1] = nknots
        /\ \A i \in 1 .. Len(history) : his[i] = history[i]
    BY <1>5, <1>6, AppendTo
  <2> HIDE DEF his
  <2>4. \A i \in 1 .. Len(his) : his[i] = safePoint + i
    <3> SUFFICES ASSUME NEW i \in 1 .. Len(history) + 1 PROVE his[i] = safePoint + i
      BY <2>3
    <3>1. CASE i = Len(history) + 1
      <4>1. safePoint + i = nknots
        BY <1>5, <2>2, <3>1
      <4> QED BY <2>3, <3>1, <4>1
    <3>2. CASE i # Len(history) + 1
      <4>1. i \in 1 .. Len(history)
        BY <2>2, <3>2
      <4> QED BY <2>2, <2>3, <4>1
    <3> QED BY <3>1, <3>2
  <2>5. safePoint <= nknots /\ Len(his) = nknots - safePoint
    BY <1>5, <2>2, <2>3
  <2>6. retired \in 0 .. Len(his)
    BY <1>5, <2>2, <2>3
  <2> QED BY <1>5, <2>3, <2>4, <2>5, <2>6 DEF PointerTail
<1> HIDE DEF his
<1>12. /\ PointerTail(safePoint', history', nknots)
       /\ retired' \in 0 .. Len(history') /\ residual' \in Nat
       /\ Accounted' = Accounted + p
  BY <1>3, <1>5, <1>8, <1>11, ProgressMoves
<1>14. Accounted <= Accounted + p /\ Accounted + p \in Nat
  BY <1>7, <1>8
<1>15. TypeInv'
  <2>1. safePoint' \in 0 .. Knots /\ history' \in Seq(1 .. Knots)
    BY <1>12 DEF PointerTail
  <2>2. debt' \in Int /\ credit' \in Nat
    BY <1>1, <1>5, <1>8
  <2>3. worker' \in {"none", "open", "next", "feed", "write", "wait", "fed",
                    "report", "close", "drain"}
    BY <1>1
  <2> QED BY <1>2, <1>12, <2>1, <2>2, <2>3 DEF TypeInv, TypeOK, screen, job, chans, stepper, device, ghost
<1>16. Flow'
  BY <1>1, <1>2, <1>4 DEF EngineInv, Flow, stepper, device
<1>17. HistoryInv'
  BY <1>6, <1>12 DEF HistoryInv
<1>18. Backed'
  <2>1. \A x : Gap(x)' = Gap(x)
    BY <1>2 DEF Gap, Uncut, ghost
  <2> DEFINE a == Accounted
             r == upto[nknots]
             q == upto[nknots - 1]
  <2>2. Accounted' = a + p /\ upto[Recorded]' = r /\ upto[Recorded] = q
    BY <1>6, <1>12
  <2>3. a \in Nat /\ r \in Nat /\ q \in Nat /\ q <= r /\ surplus \in Nat
    BY <1>7 DEF TypeInv, TypeOK
  <2>4. \A x : Gap(x) \in Nat
    BY GapType
  <2>5. IF a + p <= r THEN Gap(a + p) <= surplus ELSE Gap(r) + (a + p - r) <= surplus
    <3>1. CASE p = 0
      <4>1. IF a <= q THEN Gap(a) <= surplus ELSE Gap(q) + (a - q) <= surplus
        BY <1>1, <2>2 DEF EngineInv, Backed, Shortfall
      <4> HIDE DEF a, r, q
      <4>2. q < a /\ a <= r => Gap(a) <= Gap(q) + (a - q)
        BY <2>3, GapGrows
      <4>3. r < a => Gap(r) <= Gap(q) + (r - q)
        BY <2>3, GapGrows
      <4>4. a + p = a
        BY <2>3, <3>1
      <4>5. CASE a <= q
        BY <2>3, <4>1, <4>4, <4>5
      <4>6. CASE q < a /\ a <= r
        BY <2>3, <2>4, <4>1, <4>2, <4>4, <4>6
      <4>7. CASE r < a
        <5>1. Gap(r) \in Nat /\ Gap(q) \in Nat /\ Gap(q) + (a - q) <= surplus
          BY <2>3, <2>4, <4>1, <4>7
        <5>2. Gap(r) + (a - r) <= surplus
          BY <2>3, <4>3, <4>7, <5>1
        <5>3. ~(a + p <= r) /\ a + p - r = a - r
          BY <2>3, <3>1, <4>7
        <5> QED BY <5>2, <5>3
      <4> QED BY <2>3, <4>5, <4>6, <4>7
    <3>2. CASE p # 0
      <4>1. phase = "knot" /\ p = debt + credit
        BY <1>1, <1>8, <3>2
      <4>2. PICK b \in Int : Ordered(b) /\ Covered(b)
        BY <1>4 DEF EngineInv, Placement
      <4> DEFINE x == Executed
                 d == Lead
      <4>3. Offset = 0 /\ d = a + p + uncredited - x
        <5>1. Offset = 0
          BY <1>10, <4>1 DEF Offset
        <5>2. d = a + debt + credit + uncredited + 0 - x
          BY <1>7, <5>1 DEF Lead
        <5> QED BY <1>5, <1>7, <4>1, <5>1, <5>2
      <4>4. x \in Int /\ x <= r /\ d \in Int /\ Gap(x) + (IF d > 0 THEN d ELSE 0) <= surplus
        <5>1. d \in Int
          BY <1>1, <1>6, LeadNumber
        <5> QED BY <1>7, <1>10, <4>1, <4>2, <5>1 DEF Covered, Excess
      <4> HIDE DEF a, r, q, x, d
      <4>5. a + p <= x + d
        BY <1>5, <1>8, <2>3, <4>3, <4>4
      <4>6. CASE a + p <= x
        <5>1. Gap(a + p) <= Gap(x)
          BY <1>8, <2>3, <4>4, <4>6, GapMonotone
        <5> QED BY <1>8, <2>3, <2>4, <4>4, <4>6, <5>1
      <4>7. CASE x < a + p /\ a + p <= r
        <5>1. Gap(a + p) <= Gap(x) + (a + p - x)
          BY <1>8, <2>3, <4>4, <4>7, GapGrows
        <5> QED BY <1>8, <2>3, <2>4, <4>4, <4>5, <4>7, <5>1
      <4>8. CASE r < a + p
        <5>1. Gap(r) <= Gap(x) + (r - x)
          BY <2>3, <4>4, GapGrows
        <5>2. Gap(r) + (a + p - r) <= surplus
          BY <1>8, <2>3, <2>4, <4>4, <4>5, <4>8, <5>1
        <5> QED BY <1>8, <2>3, <4>8, <5>2
      <4> QED BY <1>8, <2>3, <4>4, <4>6, <4>7, <4>8
    <3> QED BY <3>1, <3>2
  <2>6. surplus' = surplus
    BY <1>2 DEF ghost
  <2>7. PICK c \in Nat, d \in Nat : c = a + p /\ d = r
    BY <1>8, <2>3
  <2>8. Accounted' = c /\ upto[Recorded]' = d
    BY <2>2, <2>7
  <2>9. Shortfall' = IF c <= d THEN Gap(c) ELSE Gap(d) + (c - d)
    BY <2>1, <2>8 DEF Shortfall
  <2>10. IF c <= d THEN Gap(c) <= surplus ELSE Gap(d) + (c - d) <= surplus
    BY <1>8, <2>3, <2>5, <2>7
  <2> QED BY <2>6, <2>9, <2>10 DEF Backed
<1>19. Feeding' => /\ ~err /\ phase = "knot" /\ catchup = <<>> /\ catchup' = <<>>
                   /\ unsent = <<>> /\ Executed' = Executed
  <2> SUFFICES ASSUME Feeding'
               PROVE  /\ ~err /\ phase = "knot" /\ catchup = <<>> /\ catchup' = <<>>
                      /\ unsent = <<>> /\ Executed' = Executed
    OBVIOUS
  <2>1. ~err /\ phase = "knot" /\ catchup = <<>> /\ catchup' = <<>> /\ unsent = <<>>
    BY <1>1, <1>2, <1>4 DEF Feeding
  <2>2. Hand' = nknots /\ nknots # 0
    BY <1>2, <1>6, <2>1 DEF Hand
  <2>3. Fed' = upto[nknots]
    BY <1>1, <2>2 DEF Fed, After
  <2>4. InWindow' = InWindow /\ Backlog' = Backlog
    BY <1>2 DEF InWindow, Backlog, stepper, device
  <2>5. Executed' = Executed
    BY <1>10, <2>1, <2>3, <2>4 DEF Executed
  <2> QED BY <2>1, <2>5
<1>20. CatchupInv'
  BY <1>19 DEF CatchupInv
<1>21. Feeding' => Lead' = Lead
  <2> SUFFICES ASSUME Feeding' PROVE Lead' = Lead
    OBVIOUS
  <2>1. Owed' = 0 /\ debt' = debt + credit - p /\ uncredited' = uncredited
    BY <1>1, <1>2, <1>19 DEF Owed, device
  <2>2. Offset' = 0 /\ Offset = 0
    BY <1>19 DEF Offset
  <2>3. Lead' = (Accounted + p) + (debt + credit - p) + 0 + uncredited + 0 - Executed
    BY <1>12, <1>19, <2>1, <2>2 DEF Lead
  <2>4. Lead = Accounted + debt + credit + uncredited + 0 - Executed
    BY <1>7, <2>2 DEF Lead
  <2> QED BY <1>5, <1>7, <1>8, <2>3, <2>4
<1>22. Placement'
  <2> SUFFICES ASSUME Feeding' PROVE \E b \in Int : Ordered(b)' /\ Covered(b)'
    BY DEF Placement
  <2>1. PICK b \in Int : Ordered(b) /\ Covered(b)
    BY <1>4 DEF EngineInv, Placement
  <2>2. UNCHANGED <<queue, unsent, held, window, surplus>> /\ Backlog' = Backlog
    BY <1>2 DEF Backlog, stepper, device, ghost
  <2>3. WindowInv(b)'
    BY <1>19, <2>1, <2>2 DEF Ordered, WindowInv
  <2>4. Ordered(b)'
    BY <1>19, <2>1, <2>2, <2>3 DEF Ordered
  <2>5. \A x : Gap(x)' = Gap(x)
    BY <1>2 DEF Gap, Uncut, ghost
  <2>6. Covered(b)'
    BY <1>19, <1>21, <2>1, <2>2, <2>5 DEF Covered
  <2> QED BY <2>4, <2>6
<1>24. Ledger'
  <2>1. Shown' = Shown /\ Shown \in Nat
    BY SMTT(30), <1>2, <1>5, <1>7 DEF Shown, Pending, job, chans
  <2>2. Shown <= Accounted /\ Shown <= upto[nknots] + surplus
    BY <1>1 DEF Ledger
  <2>3. Shown + p <= Accounted + p /\ Shown <= Accounted + p
    BY <1>7, <1>8, <2>1, <2>2
  <2>4. credit' = p /\ Accounted' = Accounted + p /\ nknots' = nknots /\ surplus' = surplus
    BY <1>1, <1>2, <1>12 DEF ghost
  <2>5. (Shown <= Accounted)' /\ (Shown + credit <= Accounted)' /\ (Shown <= upto[nknots] + surplus)'
    BY <2>1, <2>2, <2>3, <2>4, Zenon
  <2> QED BY <2>5 DEF Ledger
<1> QED BY <1>15, <1>16, <1>17, <1>18, <1>20, <1>22, <1>24 DEF EngineInv

(* Every step of the system keeps the books. *)
LEMMA StepJob == ProtocolInv /\ JobInv /\ [Next]_vars => JobInv'
<1> SUFFICES ASSUME ProtocolInv, JobInv, [Next]_vars PROVE JobInv'
  OBVIOUS
<1>1. CASE Screen
  BY <1>1, ScreenJob
<1>2. CASE Worker
  BY <1>2, EndingJob, OpenedJob, NextKnotJob, FeedJob, WaitingJob, WriteJob, CatchupFedJob,
     KnotFedJob, ReportJob DEF Worker
<1>3. CASE Device
  BY <1>3, ExecuteJob, WaitingJob, StallJob DEF Device
<1>4. CASE UNCHANGED vars
  <2>1. UNCHANGED engine
    BY <1>4 DEF vars, engine, ghost
  <2>2. EngineInv' /\ Accounted' = Accounted
    BY <2>1, EngineFrame DEF JobInv
  <2>3. TypeInv'
    BY <1>4 DEF JobInv, TypeInv, TypeOK, vars, screen, job, chans, pointer, run, stepper, device, ghost
  <2>4. Ledger'
    BY <1>4, <2>2 DEF JobInv, Ledger, Shown, Pending, vars, job, chans, run, ghost
  <2> QED BY <2>2, <2>3, <2>4 DEF JobInv
<1> QED BY <1>1, <1>2, <1>3, <1>4 DEF Next

(* Before the safe point no more is missing than the surplus.              *)
LEMMA JobResumes == JobInv => GapWithinSurplus
<1> SUFFICES ASSUME JobInv, ~released
             PROVE  Cardinality(Missing) <= surplus
  BY DEF GapWithinSurplus
<1>1. TypeInv /\ HistoryInv /\ Backed
  BY DEF JobInv, EngineInv
<1>2. /\ safePoint \in 0 .. Knots /\ upto[safePoint] \in Nat /\ surplus \in Nat
      /\ Accounted \in Nat /\ upto[Recorded] \in Nat
  BY <1>1, Numbers, UptoDef DEF TypeInv, TypeOK
<1>3. Missing \in SUBSET Uncut(upto[safePoint])
  <2> SUFFICES ASSUME NEW t \in PlanTicks, t[1] <= safePoint
               PROVE  Pos(t) <= upto[safePoint]
    BY DEF Missing, Uncut
  <2>1. t[1] \in 0 .. Knots
    BY PlanTick, PlanAssumption
  <2>2. upto[t[1]] <= upto[safePoint] /\ upto[t[1]] \in Nat
    BY <1>2, <2>1, UptoMonotone, UptoDef
  <2>3. Pos(t) <= upto[t[1]] /\ Pos(t) \in Nat
    BY PosBounds, PlanTick
  <2> QED BY <1>2, <2>2, <2>3
<1>4. Cardinality(Missing) <= Gap(upto[safePoint]) /\ Cardinality(Missing) \in Nat
  BY <1>3, GapType, FS_Subset, FS_CardinalityType DEF Gap
<1>5. Gap(upto[safePoint]) + Excess(Accounted - upto[Recorded]) <= surplus
  BY <1>1, BackedGaps
<1>6. Excess(Accounted - upto[Recorded]) \in Nat /\ Gap(upto[safePoint]) \in Nat
  BY <1>2, GapType DEF Excess
<1> QED BY <1>2, <1>4, <1>5, <1>6

(* The history is the tail of the plan. *)
LEMMA JobHistory == JobInv => HistoryIsTail
<1> SUFFICES ASSUME JobInv, ~released
             PROVE  history = [i \in 1 .. Recorded - safePoint |-> safePoint + i]
  BY DEF HistoryIsTail, Recorded
<1>1. PointerTail(safePoint, history, Recorded)
  BY DEF JobInv, EngineInv, HistoryInv
<1>2. /\ history \in Seq(1 .. Knots) /\ Len(history) = Recorded - safePoint
      /\ \A i \in 1 .. Len(history) : history[i] = safePoint + i
  BY <1>1 DEF PointerTail
<1>3. history = [i \in 1 .. Len(history) |-> history[i]]
  BY <1>2
<1> QED BY <1>2, <1>3

(* The countdown stays within the knots handed over and the surplus. *)
LEMMA JobCountdown == JobInv => CompletedWithinPlan
<1> SUFFICES ASSUME JobInv PROVE CompletedWithinPlan
  OBVIOUS
<1> DEFINE s == [k \in 1 .. nknots |-> k]
<1>1. nknots \in 0 .. Knots /\ Knots \in Nat /\ upto[0] = 0 /\ upto[nknots] \in Nat
  BY UptoDef, PlanAssumption DEF JobInv, TypeInv, TypeOK
<1>2. s \in Seq(1 .. Knots) /\ Len(s) = nknots /\ \A i \in 1 .. Len(s) : s[i] = i
  BY <1>1
<1> HIDE DEF s
<1>3. 0 \in 0 .. Knots /\ 0 + Len(s) <= Knots /\ \A i \in 1 .. Len(s) : s[i] = 0 + i
  BY <1>1, <1>2
<1>4. TicksIn(s) = upto[0 + Len(s)] - upto[0]
  BY <1>2, <1>3, TicksInRange
<1>5. 0 + Len(s) = nknots
  BY <1>1, <1>2
<1>6. TicksIn(s) = upto[nknots]
  BY <1>1, <1>4, <1>5
<1>7. Shown <= upto[nknots] + surplus
  BY DEF JobInv, Ledger
<1> QED BY <1>6, <1>7 DEF CompletedWithinPlan, Shown, s

(* The protocol and the books hold in every reachable state. *)
THEOREM JobHolds == Spec => [](ProtocolInv /\ JobInv)
BY InitProtocol, StepProtocol, InitJob, StepJob, PTL DEF Spec

(* The variables of the job, its worker and the device keep their types.   *)
THEOREM JobTypes == Spec => []TypeOK
<1>1. ProtocolInv /\ JobInv => TypeOK
  BY DEF JobInv, TypeInv
<1> QED BY <1>1, JobHolds, PTL

(* A resume starts from what is on the plate, whatever goes wrong and      *)
(* however often the job is stopped: before the safe point no tick is      *)
(* missing but for what the device itself counted without cutting it (the  *)
(* halting zero of an underrun, ticks on disconnected pins), the history   *)
(* kept is the knots after the safe point, each once and in order, and the *)
(* progress shown is ahead of the plan by no more than that (SafePointer,  *)
(* splineResumer.progress, Device.Write).                                  *)
THEOREM ResumeStaysExact == Spec => []ResumeIsExact
<1>1. ProtocolInv /\ JobInv => ResumeIsExact
  BY JobResumes, JobHistory, JobCountdown DEF ResumeIsExact
<1> QED BY <1>1, JobHolds, PTL
=============================================================================
