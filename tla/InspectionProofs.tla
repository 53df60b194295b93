--------------------------- MODULE InspectionProofs ---------------------------
(***************************************************************************)
(* Inspections for every chain, lag, policy, read plan and number of calls.*)
(*                                                                         *)
(* The program's usage windows account exactly for the settlements on the  *)
(* chain, and what a call has read of them it read from slots it remembers *)
(* (ObservationInv, of every behaviour).  When calls do not overlap, the   *)
(* minimum context slot keeps those slots at or above the call's own       *)
(* context slot (FloorInv).  From the two follows that the limit verdict   *)
(* of an inspection agrees with the chain's history.                       *)
(***************************************************************************)
EXTENDS Inspection, FiniteSetTheorems, WellFoundedInduction, TLAPS

----------------------------------------------------------------------------
(* Induction, and the least and greatest element of a set of slots. *)

Less == {p \in Nat \X Nat : p[1] < p[2]}

LEMMA LessWellFounded == IsWellFoundedOn(Less, Nat)
BY NatLessThanWellFounded DEF OpToRel, Less

LEMMA LeastExists ==
    ASSUME NEW S, S \subseteq Nat, S # {}
    PROVE  \E x \in S : \A y \in S : x <= y
<1>1. PICK x \in S : \A y \in S : ~(<<y, x>> \in Less)
  BY LessWellFounded, WFMin
<1>2. ASSUME NEW y \in S PROVE x <= y
  <2>1. x \in Nat /\ y \in Nat /\ ~(<<y, x>> \in Less)
    BY <1>1
  <2> QED BY <2>1 DEF Less
<1> QED BY <1>2

LEMMA SetInduction ==
    ASSUME NEW S, 0 \in S, \A n \in Nat : n \in S => n + 1 \in S
    PROVE  Nat \subseteq S
<1> SUFFICES ASSUME ~(Nat \subseteq S) PROVE FALSE
  OBVIOUS
<1> DEFINE T == Nat \ S
<1>1. T \subseteq Nat /\ T # {}
  OBVIOUS
<1> HIDE DEF T
<1>2. PICK x \in T : \A y \in T : x <= y
  BY <1>1, LeastExists
<1> USE DEF T
<1>3. x - 1 \in Nat /\ x - 1 < x
  OBVIOUS
<1>4. x - 1 \in S
  BY <1>2, <1>3
<1> QED BY <1>3, <1>4

LEMMA MinFacts ==
    ASSUME NEW S, S \subseteq Nat, S # {}
    PROVE  Min(S) \in S /\ \A y \in S : Min(S) <= y
BY LeastExists DEF Min

LEMMA MaxFacts ==
    ASSUME NEW n \in Nat, NEW S, S \subseteq 1..n, S # {}
    PROVE  Max(S) \in S /\ \A y \in S : y <= Max(S)
<1> DEFINE T == {n - y : y \in S}
<1>1. T \subseteq Nat /\ T # {}
  OBVIOUS
<1> HIDE DEF T
<1>2. PICK t \in T : \A u \in T : t <= u
  BY <1>1, LeastExists
<1> USE DEF T
<1>3. PICK x \in S : t = n - x
  OBVIOUS
<1>4. ASSUME NEW y \in S PROVE x >= y
  <2>1. n - x <= n - y
    BY <1>2, <1>3
  <2> QED BY <2>1
<1>5. \E z \in S : \A y \in S : z >= y
  BY <1>4
<1> QED BY <1>5 DEF Max

----------------------------------------------------------------------------
(* Total. *)

(* g holds the partial sums of f[1], ..., f[n]. *)
IsSum(g, f, n) == g = [i \in 0..n |-> IF i = 0 THEN 0 ELSE g[i - 1] + f[i]]

LEMMA SumExists ==
    ASSUME NEW f, NEW n \in Nat, \A i \in 1..n : f[i] \in Nat
    PROVE  \E g \in [0..n -> Nat] : IsSum(g, f, n)
<1> DEFINE S == {m \in Nat : m <= n => \E g \in [0..m -> Nat] : IsSum(g, f, m)}
<1>1. 0 \in S
  <2>1. IsSum([i \in 0..0 |-> 0], f, 0) /\ [i \in 0..0 |-> 0] \in [0..0 -> Nat]
    BY DEF IsSum
  <2> QED BY <2>1
<1>2. ASSUME NEW m \in Nat, m \in S PROVE m + 1 \in S
  <2> SUFFICES ASSUME m + 1 <= n
               PROVE  \E g \in [0..(m + 1) -> Nat] : IsSum(g, f, m + 1)
    OBVIOUS
  <2>1. PICK h \in [0..m -> Nat] : IsSum(h, f, m)
    BY <1>2
  <2> DEFINE g == [i \in 0..(m + 1) |-> IF i = m + 1 THEN h[m] + f[m + 1] ELSE h[i]]
  <2>2. m \in 0..m /\ h[m] \in Nat /\ f[m + 1] \in Nat
    OBVIOUS
  <2>3. g \in [0..(m + 1) -> Nat]
    BY <2>2
  <2>4. ASSUME NEW i \in 0..(m + 1)
        PROVE  g[i] = IF i = 0 THEN 0 ELSE g[i - 1] + f[i]
    <3>1. CASE i = m + 1
      <4>1. i - 1 = m /\ i # 0 /\ m # m + 1 /\ g[m] = h[m]
        BY <3>1
      <4> QED BY <3>1, <4>1
    <3>2. CASE i # m + 1
      <4>1. i \in 0..m /\ g[i] = h[i] /\ (i # 0 => i - 1 \in 0..m /\ g[i - 1] = h[i - 1])
        BY <3>2
      <4>2. h[i] = IF i = 0 THEN 0 ELSE h[i - 1] + f[i]
        BY <2>1, <4>1 DEF IsSum
      <4> QED BY <4>1, <4>2
    <3> QED BY <3>1, <3>2
  <2>5. IsSum(g, f, m + 1)
    <3>1. g = [i \in 0..(m + 1) |-> g[i]]
      BY <2>3
    <3> HIDE DEF g
    <3> QED BY <2>4, <3>1 DEF IsSum
  <2> QED BY <2>3, <2>5
<1>3. n \in S
  <2> HIDE DEF S
  <2> QED BY <1>1, <1>2, SetInduction
<1> QED BY <1>3

Agree(f, e, m) == \A i \in 1..m : f[i] = e[i]

(* Sums of functions that agree agree. *)
LEMMA SumAgrees ==
    ASSUME NEW f, NEW e, NEW m \in Nat, NEW n \in Nat, m <= n,
           Agree(f, e, m), NEW g, NEW h, IsSum(g, f, m), IsSum(h, e, n)
    PROVE  \A i \in 0..m : g[i] = h[i]
<1> DEFINE S == {i \in Nat : i <= m => g[i] = h[i]}
<1>1. 0 \in S
  BY DEF IsSum
<1>2. ASSUME NEW i \in Nat, i \in S PROVE i + 1 \in S
  <2> SUFFICES ASSUME i + 1 <= m PROVE g[i + 1] = h[i + 1]
    OBVIOUS
  <2>1. i + 1 \in 0..m /\ i + 1 \in 0..n /\ i + 1 \in 1..m /\ (i + 1) - 1 = i /\ i + 1 # 0
    OBVIOUS
  <2>2. g[i + 1] = g[i] + f[i + 1] /\ h[i + 1] = h[i] + e[i + 1]
    BY <2>1 DEF IsSum
  <2> QED BY <1>2, <2>1, <2>2 DEF Agree
<1>3. Nat \subseteq S
  <2> HIDE DEF S
  <2> QED BY <1>1, <1>2, SetInduction
<1> QED BY <1>3

(* The sum that Total picks. *)
LEMMA TotalIsSum ==
    ASSUME NEW f, NEW n \in Nat, \A i \in 1..n : f[i] \in Nat
    PROVE  \E g \in [0..n -> Nat] : IsSum(g, f, n) /\ Total(f, n) = g[n]
<1> DEFINE c == CHOOSE g : IsSum(g, f, n)
<1>1. PICK h \in [0..n -> Nat] : IsSum(h, f, n)
  BY SumExists
<1>2. IsSum(c, f, n)
  BY <1>1
<1>3. Total(f, n) = c[n]
  BY DEF Total, IsSum
<1>4. c \in [0..n -> Nat]
  <2>1. \A i \in 0..n : c[i] = h[i]
    <3> HIDE DEF c
    <3>1. Agree(f, f, n) /\ n <= n
      BY DEF Agree
    <3> QED BY <1>1, <1>2, <3>1, SumAgrees
  <2>2. DOMAIN c = 0..n /\ c = [i \in 0..n |-> c[i]]
    <3> HIDE DEF c
    <3> QED BY <1>2 DEF IsSum
  <2> HIDE DEF c
  <2> QED BY <1>1, <2>1, <2>2
<1> HIDE DEF c
<1> QED BY <1>2, <1>3, <1>4

LEMMA TotalStep ==
    ASSUME NEW n \in Nat, NEW f, NEW e, Agree(e, f, n), \A i \in 1..n : e[i] \in Nat,
           f[n + 1] \in Nat
    PROVE  Total(f, n + 1) = Total(e, n) + f[n + 1] /\ Total(e, n) \in Nat
<1>1. ASSUME NEW i \in 1..(n + 1) PROVE f[i] \in Nat
  <2>1. i \in 1..n \/ i = n + 1
    OBVIOUS
  <2> QED BY <2>1 DEF Agree
<1>2. PICK g \in [0..(n + 1) -> Nat] : IsSum(g, f, n + 1) /\ Total(f, n + 1) = g[n + 1]
  <2>1. n + 1 \in Nat
    OBVIOUS
  <2> QED BY <1>1, <2>1, TotalIsSum
<1>3. PICK h \in [0..n -> Nat] : IsSum(h, e, n) /\ Total(e, n) = h[n]
  BY TotalIsSum
<1>4. h[n] = g[n]
  <2>1. n + 1 \in Nat /\ n <= n + 1
    OBVIOUS
  <2>2. IsSum(g, f, n + 1) /\ IsSum(h, e, n)
    BY <1>2, <1>3
  <2>3. \A i \in 0..n : h[i] = g[i]
    BY <2>1, <2>2, SumAgrees
  <2> QED BY <2>3
<1>5. n + 1 \in 0..(n + 1) /\ n + 1 # 0 /\ (n + 1) - 1 = n
  OBVIOUS
<1>6. g[n + 1] = g[n] + f[n + 1]
  BY <1>2, <1>5 DEF IsSum
<1> QED BY <1>2, <1>3, <1>4, <1>6

LEMMA TotalMonotone ==
    ASSUME NEW m \in Nat, NEW n \in Nat, m <= n, NEW f, NEW e,
           Agree(e, f, m), \A i \in 1..n : f[i] \in Nat
    PROVE  Total(e, m) <= Total(f, n) /\ Total(e, m) \in Nat /\ Total(f, n) \in Nat
<1>1. PICK g \in [0..n -> Nat] : IsSum(g, f, n) /\ Total(f, n) = g[n]
  BY TotalIsSum
<1>2. PICK h \in [0..m -> Nat] : IsSum(h, e, m) /\ Total(e, m) = h[m]
  <2>1. \A i \in 1..m : e[i] \in Nat
    <3> SUFFICES ASSUME NEW i \in 1..m PROVE e[i] \in Nat
      OBVIOUS
    <3>1. i \in 1..n
      OBVIOUS
    <3> QED BY <3>1 DEF Agree
  <2> QED BY <2>1, TotalIsSum
<1>3. h[m] = g[m]
  <2>1. IsSum(g, f, n) /\ IsSum(h, e, m)
    BY <1>1, <1>2
  <2>2. \A i \in 0..m : h[i] = g[i]
    BY <2>1, SumAgrees
  <2> QED BY <2>2
<1> DEFINE S == {i \in Nat : m + i <= n => g[m] <= g[m + i]}
<1>4. 0 \in S
  <2>1. g[m] \in Nat /\ m + 0 = m
    BY <1>1
  <2> QED BY <2>1
<1>5. ASSUME NEW i \in Nat, i \in S PROVE i + 1 \in S
  <2> SUFFICES ASSUME m + (i + 1) <= n PROVE g[m] <= g[m + (i + 1)]
    OBVIOUS
  <2> DEFINE k == m + (i + 1)
  <2>1. k \in 0..n /\ k # 0 /\ k - 1 = m + i /\ k \in 1..n /\ m + i \in 0..n /\ m \in 0..n
    OBVIOUS
  <2>2. g[k] = g[k - 1] + f[k]
    BY <1>1, <2>1 DEF IsSum
  <2> HIDE DEF k
  <2>3. g[m] <= g[m + i] /\ g[m] \in Nat /\ g[m + i] \in Nat /\ f[k] \in Nat
    BY <1>1, <1>5, <2>1
  <2>4. g[m] <= g[k]
    BY <2>1, <2>2, <2>3
  <2>5. k = m + (i + 1)
    BY DEF k
  <2> QED BY <2>4, <2>5
<1>6. n - m \in S
  <2>1. n - m \in Nat
    OBVIOUS
  <2> HIDE DEF S
  <2>2. Nat \subseteq S
    BY <1>4, <1>5, SetInduction
  <2> QED BY <2>1, <2>2
<1>7. g[m] <= g[n]
  <2>1. m + (n - m) = n
    OBVIOUS
  <2> QED BY <1>6, <2>1
<1> QED BY <1>1, <1>2, <1>3, <1>7

----------------------------------------------------------------------------
(* Periods, windows and slots. *)

LEMMA DivGrows ==
    ASSUME NEW d \in Nat \ {0}, NEW t \in Int, NEW u \in Int, t <= u
    PROVE  /\ t \div d \in Int /\ u \div d \in Int
           /\ t \div d <= u \div d
           /\ (t \div d) * d <= (u \div d) * d /\ (t \div d) * d \in Int
<1>1. /\ t \div d \in Int /\ u \div d \in Int
      /\ t \div d <= u \div d
  OBVIOUS
<1> QED BY <1>1

(* Later times fall into the same or a later period. *)
LEMMA PeriodGrows ==
    ASSUME NEW w \in WindowKinds, NEW t \in Int, NEW u \in Int, t <= u
    PROVE  /\ CanonicalWindowStart(w, t) \in Int /\ CanonicalWindowStart(w, u) \in Int
           /\ CanonicalWindowStart(w, t) <= CanonicalWindowStart(w, u)
<1>1. Period[w] \in Nat \ {0}
  BY PeriodAssumption
<1>2. /\ (t \div Period[w]) * Period[w] <= (u \div Period[w]) * Period[w]
      /\ (t \div Period[w]) * Period[w] \in Int /\ (u \div Period[w]) * Period[w] \in Int
  BY <1>1, DivGrows
<1> QED BY <1>2 DEF CanonicalWindowStart

LiveWindows == [exists : {TRUE}, window_start : Int, gross_in : Nat,
                gross_output_amount : Nat, action_count : Nat]

LEMMA WindowFacts ==
    ASSUME NEW u \in WindowAccounts
    PROVE  /\ u.exists \in BOOLEAN
           /\ u.exists => u \in LiveWindows /\ u.window_start \in Int /\ u.gross_in \in Nat
                          /\ u.gross_output_amount \in Nat /\ u.action_count \in Nat
           /\ ~u.exists => u = NoAccount
<1>1. CASE u = NoAccount
  BY <1>1 DEF NoAccount
<1>2. CASE u \in LiveWindows
  <2>1. /\ u.exists = TRUE /\ u.window_start \in Int /\ u.gross_in \in Nat
        /\ u.gross_output_amount \in Nat /\ u.action_count \in Nat
    BY <1>2 DEF LiveWindows
  <2> QED BY <1>2, <2>1
<1> QED BY <1>1, <1>2 DEF WindowAccounts, LiveWindows

LEMMA UsageWindowFacts ==
    ASSUME NEW start \in Int, NEW in \in Nat, NEW out \in Nat, NEW count \in Nat
    PROVE  LET u == UsageWindow(start, in, out, count)
           IN  /\ u \in LiveWindows /\ u.window_start = start /\ u.gross_in = in
               /\ u.gross_output_amount = out /\ u.action_count = count
BY DEF UsageWindow, LiveWindows

LEMMA LiveWindowFacts ==
    ASSUME NEW u \in LiveWindows
    PROVE  u \in WindowAccounts /\ u.exists = TRUE
<1>1. WindowAccounts = {NoAccount} \cup LiveWindows
  BY DEF LiveWindows, WindowAccounts
<1>2. u.exists = TRUE
  BY DEF LiveWindows
<1> QED BY <1>1, <1>2

(* What a settlement makes of a window that exists. *)
LEMMA ChargeFacts ==
    ASSUME NEW w \in WindowKinds, NEW u \in LiveWindows, NEW e \in Settlements, NEW time \in Int
    PROVE  LET c     == Charge(w, u, e.action, e.amount, time)
               start == CanonicalWindowStart(w, time)
               mint  == IF e.action = "mint" THEN e.amount ELSE 0
               redeem == IF e.action = "redeem" THEN e.amount ELSE 0
           IN  /\ c \in LiveWindows
               /\ u.window_start < start =>
                    /\ c.window_start = start /\ c.action_count = 1
                    /\ c.gross_in = mint /\ c.gross_output_amount = redeem
               /\ ~(u.window_start < start) =>
                    /\ c.window_start = u.window_start /\ c.action_count = u.action_count + 1
                    /\ c.gross_in = u.gross_in + mint
                    /\ c.gross_output_amount = u.gross_output_amount + redeem
<1> DEFINE start == CanonicalWindowStart(w, time)
           mint  == IF e.action = "mint" THEN e.amount ELSE 0
           redeem == IF e.action = "redeem" THEN e.amount ELSE 0
           base  == IF u.window_start < start THEN UsageWindow(start, 0, 0, 0) ELSE u
           c     == UsageWindow(base.window_start, base.gross_in + mint,
                                base.gross_output_amount + redeem, base.action_count + 1)
<1>1. start \in Int /\ mint \in Nat /\ redeem \in Nat
  BY PeriodGrows, SettlementAssumption
<1>2. c = Charge(w, u, e.action, e.amount, time)
  BY DEF Charge
<1> HIDE DEF start, mint, redeem
<1>3. base \in LiveWindows
  BY <1>1, UsageWindowFacts
<1>4. /\ c \in LiveWindows /\ c.window_start = base.window_start
      /\ c.gross_in = base.gross_in + mint
      /\ c.gross_output_amount = base.gross_output_amount + redeem
      /\ c.action_count = base.action_count + 1
  <2> HIDE DEF base
  <2>1. /\ base.window_start \in Int /\ base.gross_in + mint \in Nat
        /\ base.gross_output_amount + redeem \in Nat /\ base.action_count + 1 \in Nat
    BY <1>1, <1>3 DEF LiveWindows
  <2> QED BY <2>1 DEF UsageWindow, LiveWindows
<1>5. u.window_start < start =>
        /\ base.window_start = start /\ base.gross_in = 0 /\ base.gross_output_amount = 0
        /\ base.action_count = 0
  BY <1>1, UsageWindowFacts
<1>6. ~(u.window_start < start) => base = u
  OBVIOUS
<1> HIDE DEF base, c
<1>7. 0 + mint = mint /\ 0 + redeem = redeem
  BY <1>1
<1> QED BY <1>2, <1>4, <1>5, <1>6, <1>7 DEF start, mint, redeem

LEMMA EventFacts ==
    /\ \A e \in Settlements : e # NoEvent /\ e.action \in SettlementActions /\ e.amount \in Nat
    /\ NoEvent.amount = 0
BY SettlementAssumption DEF NoEvent, SettlementActions

LEMMA SlotFacts ==
    ASSUME chain \in Seq(SlotRecords), NEW s \in 1..Slot
    PROVE  /\ chain[s] \in SlotRecords /\ chain[s].time \in Int
           /\ chain[s].event \in {NoEvent} \cup Settlements /\ chain[s].event.amount \in Nat
           /\ chain[s].usage \in [WindowKinds -> WindowAccounts]
<1>1. chain[s] \in SlotRecords
  BY DEF Slot
<1>2. /\ chain[s].time \in Int /\ chain[s].event \in {NoEvent} \cup Settlements
      /\ chain[s].usage \in [WindowKinds -> WindowAccounts]
  BY <1>1 DEF SlotRecords
<1> QED BY <1>1, <1>2, EventFacts

----------------------------------------------------------------------------
(* Usage, as the chain's history has it. *)

LEMMA AmountsFacts ==
    ASSUME chain \in Seq(SlotRecords), NEW s \in 0..Slot, NEW w, NEW start, NEW action
    PROVE  /\ \A r \in 1..s : Amounts(w, start, s, action)[r] \in Nat
           /\ UsedAmount(w, start, s, action) \in Nat
<1>1. Slot \in Nat /\ s \in Nat
  BY DEF Slot
<1>2. \A r \in 1..s : Amounts(w, start, s, action)[r] \in Nat
  BY <1>1, SlotFacts DEF Amounts
<1>3. Total(Amounts(w, start, s, action), s) \in Nat
  BY <1>1, <1>2, TotalMonotone DEF Agree
<1> QED BY <1>2, <1>3 DEF UsedAmount

LEMMA SamePeriodFacts ==
    ASSUME NEW s \in Nat, NEW w, NEW start
    PROVE  IsFiniteSet(SamePeriod(w, start, s)) /\ UsedActions(w, start, s) \in Nat
<1>1. IsFiniteSet(1..s) /\ SamePeriod(w, start, s) \subseteq 1..s
  BY FS_Interval DEF SamePeriod
<1> QED BY <1>1, FS_Subset, FS_CardinalityType DEF UsedActions

(* Usage only grows along the chain. *)
LEMMA UsageGrows ==
    ASSUME chain \in Seq(SlotRecords), NEW s \in 0..Slot, NEW r \in 0..s,
           NEW w, NEW start, NEW action
    PROVE  /\ UsedAmount(w, start, r, action) <= UsedAmount(w, start, s, action)
           /\ UsedActions(w, start, r) <= UsedActions(w, start, s)
<1>1. Slot \in Nat /\ s \in Nat /\ r \in Nat /\ r <= s
  BY DEF Slot
<1>2. Agree(Amounts(w, start, r, action), Amounts(w, start, s, action), r)
  BY <1>1 DEF Agree, Amounts
<1>3. UsedAmount(w, start, r, action) <= UsedAmount(w, start, s, action)
  BY <1>1, <1>2, AmountsFacts, TotalMonotone DEF UsedAmount
<1>4. SamePeriod(w, start, r) \subseteq SamePeriod(w, start, s)
  BY <1>1 DEF SamePeriod
<1>5. UsedActions(w, start, r) <= UsedActions(w, start, s)
  BY <1>1, <1>4, SamePeriodFacts, FS_Subset DEF UsedActions
<1> QED BY <1>3, <1>5

----------------------------------------------------------------------------
(* The read plan. *)

LEMMA PlanFacts ==
    /\ Len(ReadPlan) \in Nat \ {0}
    /\ ~Skipped(ReadPlan[Len(ReadPlan)])
    /\ \A w \in WindowKinds : \E i \in 1..Len(ReadPlan) : ReadPlan[i] = w
<1> DEFINE n == Len(WindowOrder)
<1>1. n \in Nat
  BY OrderAssumption
<1>2. /\ Len(ReadPlan) = n + 2 /\ ReadPlan[n + 2] = "tokens"
      /\ \A i \in 1..n : ReadPlan[i + 1] = WindowOrder[i]
  BY <1>1, OrderAssumption DEF ReadPlan
<1>3. ~Skipped("tokens")
  BY OrderAssumption DEF Skipped
<1>4. ASSUME NEW w \in WindowKinds PROVE \E i \in 1..Len(ReadPlan) : ReadPlan[i] = w
  <2>1. PICK i \in 1..n : WindowOrder[i] = w
    BY OrderAssumption
  <2>2. i + 1 \in 1..Len(ReadPlan) /\ ReadPlan[i + 1] = w
    BY <1>1, <1>2, <2>1
  <2> QED BY <2>2
<1> QED BY <1>1, <1>2, <1>3, <1>4

(* The next read is a later one, and only what is not enforced is passed over. *)
LEMMA NextReadFacts ==
    ASSUME NEW i \in 1..Len(ReadPlan), i # Len(ReadPlan)
    PROVE  /\ NextRead(i) \in (i + 1)..Len(ReadPlan)
           /\ \A j \in (i + 1)..(NextRead(i) - 1) : Skipped(ReadPlan[j])
<1> DEFINE n == Len(ReadPlan)
           S == {j \in (i + 1)..n : ~Skipped(ReadPlan[j])}
<1>1. n \in Nat \ {0} /\ i \in Nat /\ i < n
  BY PlanFacts
<1>2. n \in S
  BY <1>1, PlanFacts
<1>3. S \subseteq Nat /\ S # {}
  BY <1>1, <1>2
<1>4. Min(S) \in S /\ \A y \in S : Min(S) <= y
  <2> HIDE DEF S
  <2> QED BY <1>3, MinFacts
<1>5. NextRead(i) = Min(S)
  BY DEF NextRead
<1>6. NextRead(i) \in S /\ \A y \in S : NextRead(i) <= y
  BY <1>4, <1>5
<1>7. NextRead(i) \in (i + 1)..n
  BY <1>6
<1>8. ASSUME NEW j \in (i + 1)..(NextRead(i) - 1) PROVE Skipped(ReadPlan[j])
  <2>1. j \in (i + 1)..n /\ ~(NextRead(i) <= j)
    BY <1>1, <1>7
  <2>2. j \notin S
    BY <1>6, <2>1
  <2> QED BY <2>1, <2>2
<1> QED BY <1>7, <1>8

----------------------------------------------------------------------------
(* The chain. *)

TimeGrows == \A r, s \in 1..Slot : r <= s => chain[r].time <= chain[s].time

(* The windows are created together and stay. *)
WindowsTogether ==
    \A s \in 1..Slot : \A v, w \in WindowKinds :
        chain[s].usage[v].exists => chain[s].usage[w].exists
WindowsStay ==
    \A r, s \in 1..Slot : \A w \in WindowKinds :
        r <= s /\ chain[r].usage[w].exists => chain[s].usage[w].exists

(* A window u holds the settlements of the latest period in which there was one. *)
WindowAccounted(w, s, u) ==
    /\ u.exists =>
         /\ \E r \in 1..s : u.window_start = CanonicalWindowStart(w, chain[r].time)
         /\ \A r \in 1..s : chain[r].event # NoEvent =>
              CanonicalWindowStart(w, chain[r].time) <= u.window_start
         /\ u.gross_in = UsedAmount(w, u.window_start, s, "mint")
         /\ u.gross_output_amount = UsedAmount(w, u.window_start, s, "redeem")
         /\ u.action_count = UsedActions(w, u.window_start, s)
    /\ ~u.exists => \A r \in 1..s : chain[r].event = NoEvent

Accounted(w, s) ==
    \E u \in WindowAccounts : u = chain[s].usage[w] /\ WindowAccounted(w, s, u)

ChainSound ==
    /\ TimeGrows /\ WindowsTogether /\ WindowsStay
    /\ \A w \in WindowKinds : \A s \in 1..Slot : Accounted(w, s)

(* The chain has grown by one slot. *)
Grown(x) == chain' = Append(chain, x)

LEMMA GrownFacts ==
    ASSUME chain \in Seq(SlotRecords), Slot \in Nat \ {0}, NEW x \in SlotRecords, Grown(x)
    PROVE  /\ chain' \in Seq(SlotRecords) /\ Slot' = Slot + 1 /\ Slot' \in Nat
           /\ \A s \in 1..Slot : chain'[s] = chain[s]
           /\ chain'[Slot + 1] = x
BY DEF Slot, Grown

(* Past usage stays what it was. *)
LEMMA UsageKept ==
    ASSUME chain \in Seq(SlotRecords), \A s \in 1..Slot : chain'[s] = chain[s],
           NEW s \in 0..Slot, NEW w, NEW start, NEW action
    PROVE  /\ UsedAmount(w, start, s, action)' = UsedAmount(w, start, s, action)
           /\ UsedActions(w, start, s)' = UsedActions(w, start, s)
           /\ Amounts(w, start, s, action)' = Amounts(w, start, s, action)
           /\ SamePeriod(w, start, s)' = SamePeriod(w, start, s)
<1>1. Slot \in Nat
  BY DEF Slot
<1>2. \A r \in 1..s : chain'[r] = chain[r]
  BY <1>1
<1>3. Amounts(w, start, s, action)' = Amounts(w, start, s, action)
  BY <1>2 DEF Amounts, InPeriod
<1>4. SamePeriod(w, start, s)' = SamePeriod(w, start, s)
  BY <1>2 DEF SamePeriod, InPeriod
<1> QED BY <1>3, <1>4 DEF UsedAmount, UsedActions

(* What the new slot adds to the usage of a period. *)
LEMMA UsageStep ==
    ASSUME chain \in Seq(SlotRecords), Slot \in Nat \ {0}, NEW x \in SlotRecords, Grown(x),
           NEW n \in Nat, n = Slot, NEW w, NEW start, NEW action
    PROVE  LET counted == x.event # NoEvent /\ CanonicalWindowStart(w, x.time) = start
           IN  /\ UsedAmount(w, start, n + 1, action)' =
                    UsedAmount(w, start, n, action)
                      + (IF counted /\ x.event.action = action THEN x.event.amount ELSE 0)
               /\ UsedActions(w, start, n + 1)' =
                    UsedActions(w, start, n) + (IF counted THEN 1 ELSE 0)
<1> DEFINE counted == x.event # NoEvent /\ CanonicalWindowStart(w, x.time) = start
           amount == IF counted /\ x.event.action = action THEN x.event.amount ELSE 0
           f == [r \in 1..(n + 1) |->
                   IF (chain'[r].event # NoEvent
                       /\ CanonicalWindowStart(w, chain'[r].time) = start)
                      /\ chain'[r].event.action = action
                   THEN chain'[r].event.amount ELSE 0]
           e == Amounts(w, start, n, action)
           P == SamePeriod(w, start, n)
<1>1. n \in Nat /\ n + 1 \in 1..(n + 1) /\ x.event.amount \in Nat
      /\ \A s \in 1..n : chain'[s] = chain[s]
  BY GrownFacts, EventFacts DEF SlotRecords
<1>2. chain'[n + 1] = x
  BY GrownFacts
<1>3. f[n + 1] = amount /\ amount \in Nat
  BY <1>1, <1>2
<1>4. Agree(e, f, n)
  BY <1>1 DEF Agree, Amounts, InPeriod
<1>5. \A i \in 1..n : e[i] \in Nat
  BY <1>1, AmountsFacts
<1>6. Total(f, n + 1) = Total(e, n) + amount
  <2> HIDE DEF f, e, amount
  <2> QED BY <1>1, <1>3, <1>4, <1>5, TotalStep
<1>7. UsedAmount(w, start, n + 1, action)' = UsedAmount(w, start, n, action) + amount
  <2>1. UsedAmount(w, start, n, action) = Total(e, n)
    BY DEF UsedAmount
  <2> QED BY <1>6, <2>1 DEF UsedAmount, Amounts, InPeriod
<1>8. UsedActions(w, start, n + 1)' = UsedActions(w, start, n) + (IF counted THEN 1 ELSE 0)
  <2>1. SamePeriod(w, start, n + 1)' = IF counted THEN P \cup {n + 1} ELSE P
    <3>1. SamePeriod(w, start, n + 1)' =
            {r \in 1..(n + 1) : chain'[r].event # NoEvent
                                /\ CanonicalWindowStart(w, chain'[r].time) = start}
      BY DEF SamePeriod, InPeriod
    <3>2. 1..(n + 1) = (1..n) \cup {n + 1}
      BY <1>1
    <3> QED BY <1>1, <1>2, <3>1, <3>2 DEF SamePeriod, InPeriod
  <2>2. n + 1 \notin P /\ IsFiniteSet(P) /\ Cardinality(P) \in Nat
    <3>1. n + 1 \notin P
      BY <1>1 DEF SamePeriod
    <3>2. IsFiniteSet(SamePeriod(w, start, n)) /\ UsedActions(w, start, n) \in Nat
      BY <1>1, SamePeriodFacts
    <3> QED BY <3>1, <3>2 DEF UsedActions
  <2>3. Cardinality(P \cup {n + 1}) = Cardinality(P) + 1
    <3> HIDE DEF P
    <3> QED BY <2>2, FS_AddElement
  <2> QED BY <2>1, <2>2, <2>3 DEF UsedActions
<1> QED BY <1>7, <1>8

LEMMA AccountedKept ==
    ASSUME chain \in Seq(SlotRecords), \A s \in 1..Slot : chain'[s] = chain[s],
           NEW w \in WindowKinds, NEW s \in 1..Slot, Accounted(w, s)
    PROVE  Accounted(w, s)'
<1>1. PICK u \in WindowAccounts : u = chain[s].usage[w] /\ WindowAccounted(w, s, u)
  BY DEF Accounted
<1>2. /\ u = chain'[s].usage[w]
      /\ \A r \in 1..s : chain'[r] = chain[r]
  BY <1>1 DEF Slot
<1>3. s \in 0..Slot
  BY DEF Slot
<1>4. /\ \A action : UsedAmount(w, u.window_start, s, action)' = UsedAmount(w, u.window_start, s, action)
      /\ UsedActions(w, u.window_start, s)' = UsedActions(w, u.window_start, s)
  BY <1>3, UsageKept
<1>5. WindowAccounted(w, s, u)'
  BY <1>1, <1>2, <1>4 DEF WindowAccounted
<1> QED BY <1>2, <1>5 DEF Accounted

(* The three ways a slot is produced. *)
Produced(x) ==
    /\ x.time >= Tip.time
    /\ \/ x.event = NoEvent /\ x.usage = Tip.usage
       \/ /\ WindowsExist /\ x.event \in Settlements
          /\ x.usage = [w \in WindowKinds |->
                          Charge(w, Tip.usage[w], x.event.action, x.event.amount, x.time)]
       \/ /\ ~WindowsExist /\ x.event = NoEvent
          /\ x.usage = [w \in WindowKinds |->
                          UsageWindow(CanonicalWindowStart(w, x.time), 0, 0, 0)]

LEMMA ProduceFacts ==
    ASSUME chain \in Seq(SlotRecords), Slot \in Nat \ {0}, ProduceSlot
    PROVE  \E x \in SlotRecords : Grown(x) /\ Produced(x)
<1>1. /\ Tip \in SlotRecords /\ Tip.time \in Int /\ Tip.usage \in [WindowKinds -> WindowAccounts]
      /\ Slot \in 1..Slot
  BY SlotFacts DEF Tip
<1>2. PICK tick \in Ticks :
        LET time == Tip.time + tick IN
        \/ chain' = Append(chain, EmptySlot(time))
        \/ /\ WindowsExist
           /\ \E e \in Settlements : chain' = Append(chain, SettledSlot(time, e))
        \/ /\ ~WindowsExist
           /\ chain' = Append(chain, CreationSlot(time))
  BY DEF ProduceSlot
<1> DEFINE time == Tip.time + tick
<1>3. time \in Int /\ time >= Tip.time
  BY <1>1, BoundAssumption
<1> HIDE DEF time
<1>4. CASE chain' = Append(chain, EmptySlot(time))
  <2> DEFINE x == EmptySlot(time)
  <2>1. x \in SlotRecords
    BY <1>1, <1>3 DEF EmptySlot, SlotRecords
  <2>2. Grown(x) /\ Produced(x)
    BY <1>3, <1>4 DEF EmptySlot, Grown, Produced
  <2> QED BY <2>1, <2>2
<1>5. ASSUME WindowsExist, NEW e \in Settlements, chain' = Append(chain, SettledSlot(time, e))
      PROVE  \E x \in SlotRecords : Grown(x) /\ Produced(x)
  <2> DEFINE x == SettledSlot(time, e)
  <2>1. ASSUME NEW w \in WindowKinds
        PROVE  Charge(w, Tip.usage[w], e.action, e.amount, time) \in WindowAccounts
    <3>1. Tip.usage[w] \in LiveWindows
      BY <1>1, <1>5, WindowFacts DEF WindowsExist
    <3> QED BY <1>3, <3>1, ChargeFacts, LiveWindowFacts
  <2>2. x \in SlotRecords
    BY <1>3, <2>1 DEF SettledSlot, SlotRecords
  <2>3. Grown(x) /\ Produced(x)
    BY <1>3, <1>5 DEF SettledSlot, Grown, Produced
  <2> QED BY <2>2, <2>3
<1>6. CASE ~WindowsExist /\ chain' = Append(chain, CreationSlot(time))
  <2> DEFINE x == CreationSlot(time)
  <2>1. ASSUME NEW w \in WindowKinds
        PROVE  UsageWindow(CanonicalWindowStart(w, time), 0, 0, 0) \in WindowAccounts
    <3>1. CanonicalWindowStart(w, time) \in Int
      BY <1>3, PeriodGrows
    <3> QED BY <3>1, UsageWindowFacts, LiveWindowFacts
  <2>2. x \in SlotRecords
    BY <1>3, <2>1 DEF CreationSlot, SlotRecords
  <2>3. Grown(x) /\ Produced(x)
    BY <1>3, <1>6 DEF CreationSlot, Grown, Produced
  <2> QED BY <2>2, <2>3
<1> QED BY <1>2, <1>4, <1>5, <1>6 DEF time

(* Without settlements in a period nothing was used in it. *)
LEMMA UnusedPeriod ==
    ASSUME chain \in Seq(SlotRecords), NEW s \in 0..Slot, NEW w, NEW start, NEW action,
           \A r \in 1..s : ~InPeriod(w, start, r)
    PROVE  UsedAmount(w, start, s, action) = 0 /\ UsedActions(w, start, s) = 0
<1> DEFINE f == Amounts(w, start, s, action)
           S == {n \in Nat : n <= s => Total(f, n) = 0}
<1>1. s \in Nat /\ \A r \in 1..s : f[r] = 0
  BY DEF Slot, Amounts
<1> HIDE DEF f
<1>2. 0 \in S
  <2>1. PICK g \in [0..0 -> Nat] : IsSum(g, f, 0) /\ Total(f, 0) = g[0]
    BY TotalIsSum
  <2>2. Total(f, 0) = 0
    BY <2>1 DEF IsSum
  <2> QED BY <2>2
<1>3. ASSUME NEW n \in Nat, n \in S PROVE n + 1 \in S
  <2> SUFFICES ASSUME n + 1 <= s PROVE Total(f, n + 1) = 0
    OBVIOUS
  <2>1. (\A i \in 1..n : f[i] \in Nat) /\ f[n + 1] = 0 /\ Agree(f, f, n)
    BY <1>1 DEF Agree
  <2>2. Total(f, n + 1) = Total(f, n) + f[n + 1]
    BY <2>1, TotalStep
  <2> QED BY <1>1, <1>3, <2>1, <2>2
<1>4. s \in S
  <2> HIDE DEF S
  <2> QED BY <1>1, <1>2, <1>3, SetInduction
<1>5. SamePeriod(w, start, s) = {}
  BY DEF SamePeriod
<1> QED BY <1>1, <1>4, <1>5, FS_EmptySet DEF UsedAmount, UsedActions, f

(* The new slot's windows account for the history that now includes it. *)
LEMMA NewSlotAccounted ==
    ASSUME chain \in Seq(SlotRecords), Slot \in Nat \ {0}, ChainSound,
           NEW x \in SlotRecords, Grown(x), Produced(x),
           NEW n \in Nat, n = Slot, NEW w \in WindowKinds
    PROVE  Accounted(w, n + 1)' /\ (chain[n].usage[w].exists => x.usage[w].exists)
<1>1. /\ n \in 1..Slot /\ n \in 0..Slot /\ n >= 1
      /\ \A r \in 1..n : chain'[r] = chain[r]
      /\ chain'[n + 1] = x
      /\ 1..(n + 1) = (1..n) \cup {n + 1}
  BY GrownFacts
<1>2. PICK u \in WindowAccounts : u = chain[n].usage[w] /\ WindowAccounted(w, n, u)
  BY <1>1 DEF ChainSound, Accounted
<1>3. /\ x.time \in Int /\ x.usage \in [WindowKinds -> WindowAccounts]
      /\ Tip = chain[n] /\ Tip.time \in Int /\ x.time >= Tip.time
      /\ x.event \in {NoEvent} \cup Settlements
  BY <1>1, SlotFacts DEF SlotRecords, Tip, Produced
<1> DEFINE start == CanonicalWindowStart(w, x.time)
<1>4. start \in Int /\ \A r \in 1..n : /\ CanonicalWindowStart(w, chain[r].time) \in Int
                                       /\ CanonicalWindowStart(w, chain[r].time) <= start
  <2>1. ASSUME NEW r \in 1..n
        PROVE  chain[r].time \in Int /\ chain[r].time <= x.time
    <3>1. r \in 1..Slot /\ r <= n
      BY <1>1
    <3>2. chain[r].time <= chain[n].time /\ chain[r].time \in Int
      BY <1>1, <3>1, SlotFacts DEF ChainSound, TimeGrows
    <3> QED BY <1>3, <3>2
  <2> QED BY <1>3, <2>1, PeriodGrows
<1> HIDE DEF start
<1>5. ASSUME NEW v \in WindowAccounts, v = x.usage[w], WindowAccounted(w, n + 1, v)'
      PROVE  Accounted(w, n + 1)'
  BY <1>1, <1>5 DEF Accounted
<1>6. ASSUME NEW a, NEW action
      PROVE  LET counted == x.event # NoEvent /\ start = a
             IN  /\ UsedAmount(w, a, n + 1, action)' =
                      UsedAmount(w, a, n, action)
                        + (IF counted /\ x.event.action = action THEN x.event.amount ELSE 0)
                 /\ UsedActions(w, a, n + 1)' =
                      UsedActions(w, a, n) + (IF counted THEN 1 ELSE 0)
                 /\ UsedAmount(w, a, n, action) \in Nat /\ UsedActions(w, a, n) \in Nat
  BY <1>1, UsageStep, AmountsFacts, SamePeriodFacts DEF start
<1>7. CASE x.event = NoEvent /\ x.usage = Tip.usage
  <2>1. u = x.usage[w]
    BY <1>2, <1>3, <1>7
  <2>2. /\ \A action : UsedAmount(w, u.window_start, n + 1, action)' =
                         UsedAmount(w, u.window_start, n, action)
        /\ UsedActions(w, u.window_start, n + 1)' = UsedActions(w, u.window_start, n)
    BY <1>6, <1>7
  <2>3. WindowAccounted(w, n + 1, u)'
    BY <1>1, <1>2, <1>7, <2>2 DEF WindowAccounted
  <2> QED BY <1>2, <1>5, <2>1, <2>3
<1>8. CASE /\ WindowsExist /\ x.event \in Settlements
           /\ x.usage = [v \in WindowKinds |->
                           Charge(v, Tip.usage[v], x.event.action, x.event.amount, x.time)]
  <2>1. u \in LiveWindows /\ u.exists = TRUE /\ u.window_start \in Int
    BY <1>2, <1>3, <1>8, WindowFacts, LiveWindowFacts DEF WindowsExist
  <2> DEFINE c == Charge(w, u, x.event.action, x.event.amount, x.time)
             mint == IF x.event.action = "mint" THEN x.event.amount ELSE 0
             redeem == IF x.event.action = "redeem" THEN x.event.amount ELSE 0
  <2>2. /\ c \in LiveWindows
        /\ u.window_start < start =>
             /\ c.window_start = start /\ c.action_count = 1
             /\ c.gross_in = mint /\ c.gross_output_amount = redeem
        /\ ~(u.window_start < start) =>
             /\ c.window_start = u.window_start /\ c.action_count = u.action_count + 1
             /\ c.gross_in = u.gross_in + mint
             /\ c.gross_output_amount = u.gross_output_amount + redeem
    BY <1>3, <1>8, <2>1, ChargeFacts DEF start
  <2>3. x.usage[w] = c
    BY <1>2, <1>3, <1>8
  <2>4. x.event # NoEvent /\ mint \in Nat /\ redeem \in Nat
    BY <1>8, EventFacts
  <2> HIDE DEF c, mint, redeem
  <2>5. u.window_start <= start
    BY <1>2, <1>4, <2>1 DEF WindowAccounted
  <2>6. c \in WindowAccounts /\ c.exists = TRUE
    BY <2>2, LiveWindowFacts
  <2>7. /\ UsedAmount(w, start, n + 1, "mint")' = UsedAmount(w, start, n, "mint") + mint
        /\ UsedAmount(w, start, n + 1, "redeem")' = UsedAmount(w, start, n, "redeem") + redeem
        /\ UsedActions(w, start, n + 1)' = UsedActions(w, start, n) + 1
    BY <1>6, <2>4 DEF mint, redeem
  <2>8. start = CanonicalWindowStart(w, chain'[n + 1].time)
    BY <1>1 DEF start
  <2>9. \A r \in 1..(n + 1) : CanonicalWindowStart(w, chain'[r].time) <= start
    BY <1>1, <1>4, <2>8
  <2>10. CASE u.window_start < start
    <3>1. \A r \in 1..n : ~InPeriod(w, start, r)
      BY <1>2, <1>4, <2>1, <2>10 DEF WindowAccounted, InPeriod
    <3>2. /\ \A action : UsedAmount(w, start, n, action) = 0
          /\ UsedActions(w, start, n) = 0
      BY <1>1, <3>1, UnusedPeriod
    <3>3. c.window_start = start /\ c.action_count = 1 /\ c.gross_in = mint
          /\ c.gross_output_amount = redeem
      BY <2>2, <2>10
    <3>4. /\ UsedAmount(w, start, n + 1, "mint")' = mint
          /\ UsedAmount(w, start, n + 1, "redeem")' = redeem
          /\ UsedActions(w, start, n + 1)' = 1
      BY <2>4, <2>7, <3>2
    <3>5. n + 1 \in 1..(n + 1)
      BY <1>1
    <3>6. WindowAccounted(w, n + 1, c)'
      BY <2>6, <2>8, <2>9, <3>3, <3>4, <3>5 DEF WindowAccounted
    <3> QED BY <1>5, <2>3, <2>6, <3>6
  <2>11. CASE u.window_start = start
    <3>1. /\ c.window_start = start /\ c.action_count = u.action_count + 1
          /\ c.gross_in = u.gross_in + mint
          /\ c.gross_output_amount = u.gross_output_amount + redeem
      BY <1>4, <2>2, <2>11
    <3>2. /\ u.gross_in = UsedAmount(w, start, n, "mint")
          /\ u.gross_output_amount = UsedAmount(w, start, n, "redeem")
          /\ u.action_count = UsedActions(w, start, n)
      BY <1>2, <2>1, <2>11 DEF WindowAccounted
    <3>3. n + 1 \in 1..(n + 1)
      BY <1>1
    <3>4. WindowAccounted(w, n + 1, c)'
      BY <2>6, <2>7, <2>8, <2>9, <3>1, <3>2, <3>3 DEF WindowAccounted
    <3> QED BY <1>5, <2>3, <2>6, <3>4
  <2> QED BY <1>4, <2>1, <2>5, <2>10, <2>11
<1>9. CASE /\ ~WindowsExist /\ x.event = NoEvent
           /\ x.usage = [v \in WindowKinds |->
                           UsageWindow(CanonicalWindowStart(v, x.time), 0, 0, 0)]
  <2> DEFINE c == UsageWindow(start, 0, 0, 0)
  <2>1. x.usage[w] = c
    BY <1>9 DEF start
  <2>2. /\ c \in LiveWindows /\ c.window_start = start /\ c.gross_in = 0
        /\ c.gross_output_amount = 0 /\ c.action_count = 0
    BY <1>4, UsageWindowFacts
  <2> HIDE DEF c
  <2>3. c \in WindowAccounts /\ c.exists = TRUE
    BY <2>2, LiveWindowFacts
  <2>4. ~u.exists
    <3>1. PICK v \in WindowKinds : ~Tip.usage[v].exists
      BY <1>9 DEF WindowsExist
    <3> QED BY <1>1, <1>2, <1>3, <3>1 DEF ChainSound, WindowsTogether
  <2>5. \A r \in 1..n : chain[r].event = NoEvent
    BY <1>2, <2>4 DEF WindowAccounted
  <2>6. /\ \A action : UsedAmount(w, start, n, action) = 0
        /\ UsedActions(w, start, n) = 0
    BY <1>1, <2>5, UnusedPeriod DEF InPeriod
  <2>7. /\ \A action : UsedAmount(w, start, n + 1, action)' = 0
        /\ UsedActions(w, start, n + 1)' = 0
    BY <1>6, <1>9, <2>6
  <2>8. start = CanonicalWindowStart(w, chain'[n + 1].time) /\ n + 1 \in 1..(n + 1)
    BY <1>1 DEF start
  <2>9. \A r \in 1..(n + 1) : chain'[r].event = NoEvent
    BY <1>1, <1>9, <2>5
  <2>10. WindowAccounted(w, n + 1, c)'
    BY <2>2, <2>3, <2>7, <2>8, <2>9 DEF WindowAccounted
  <2> QED BY <1>5, <2>1, <2>3, <2>10
<1> QED BY <1>7, <1>8, <1>9 DEF Produced

LEMMA ChainStep ==
    ASSUME chain \in Seq(SlotRecords), Slot \in Nat \ {0}, ChainSound, ProduceSlot
    PROVE  /\ ChainSound'
           /\ chain' \in Seq(SlotRecords) /\ Slot' = Slot + 1
           /\ \A s \in 1..Slot : chain'[s] = chain[s]
<1>1. PICK x \in SlotRecords : Grown(x) /\ Produced(x)
  BY ProduceFacts
<1>2. PICK n \in Nat : n = Slot /\ n # 0
  OBVIOUS
<1>3. /\ chain' \in Seq(SlotRecords) /\ Slot' = n + 1 /\ Slot' = Slot + 1
      /\ \A s \in 1..n : chain'[s] = chain[s]
      /\ chain'[n + 1] = x
      /\ 1..Slot' = (1..n) \cup {n + 1}
  BY <1>1, <1>2, GrownFacts
<1>4. \A w \in WindowKinds :
        Accounted(w, n + 1)' /\ (chain[n].usage[w].exists => x.usage[w].exists)
  BY <1>1, <1>2, NewSlotAccounted
<1>5. \A w \in WindowKinds : \A s \in 1..n : Accounted(w, s)'
  BY <1>2, <1>3, AccountedKept DEF ChainSound
<1>6. \A w \in WindowKinds : \A s \in 1..Slot' : Accounted(w, s)'
  BY <1>3, <1>4, <1>5
<1>7. TimeGrows'
  <2> SUFFICES ASSUME NEW r \in 1..Slot', NEW s \in 1..Slot', r <= s
               PROVE  chain'[r].time <= chain'[s].time
    BY DEF TimeGrows
  <2>1. chain[n].time \in Int /\ x.time \in Int /\ x.time >= chain[n].time
    BY <1>1, <1>2, SlotFacts DEF Produced, Tip, SlotRecords
  <2>2. CASE s \in 1..n
    BY <1>2, <1>3, <2>2 DEF ChainSound, TimeGrows
  <2>3. CASE s = n + 1 /\ r \in 1..n
    <3>1. chain[r].time <= chain[n].time /\ chain[r].time \in Int
      BY <1>2, <2>3, SlotFacts DEF ChainSound, TimeGrows
    <3> QED BY <1>3, <2>1, <2>3, <3>1
  <2>4. CASE s = n + 1 /\ r = n + 1
    BY <1>3, <2>1, <2>4
  <2> QED BY <1>3, <2>2, <2>3, <2>4
<1>8. WindowsStay'
  <2> SUFFICES ASSUME NEW r \in 1..Slot', NEW s \in 1..Slot', NEW w \in WindowKinds,
                      r <= s, chain'[r].usage[w].exists
               PROVE  chain'[s].usage[w].exists
    BY DEF WindowsStay
  <2>1. CASE s \in 1..n
    BY <1>2, <1>3, <2>1 DEF ChainSound, WindowsStay
  <2>2. CASE s = n + 1 /\ r \in 1..n
    <3>1. chain[n].usage[w].exists
      <4>1. r \in 1..Slot /\ n \in 1..Slot /\ r <= n
        BY <1>2, <2>2
      <4>2. chain[r].usage[w].exists
        BY <1>3, <2>2
      <4> QED BY <4>1, <4>2 DEF ChainSound, WindowsStay
    <3> QED BY <1>3, <1>4, <2>2, <3>1
  <2>3. CASE s = n + 1 /\ r = n + 1
    BY <2>3
  <2> QED BY <1>3, <2>1, <2>2, <2>3
<1>9. WindowsTogether'
  <2> SUFFICES ASSUME NEW s \in 1..Slot', NEW v \in WindowKinds, NEW w \in WindowKinds,
                      chain'[s].usage[v].exists
               PROVE  chain'[s].usage[w].exists
    BY DEF WindowsTogether
  <2>1. CASE s \in 1..n
    BY <1>2, <1>3, <2>1 DEF ChainSound, WindowsTogether
  <2>2. CASE s = n + 1
    <3>1. CASE x.usage = Tip.usage
      BY <1>2, <1>3, <2>2, <3>1 DEF ChainSound, WindowsTogether, Tip
    <3>2. CASE WindowsExist
      BY <1>2, <1>3, <1>4, <2>2, <3>2 DEF WindowsExist, Tip
    <3>3. CASE x.usage = [y \in WindowKinds |->
                            UsageWindow(CanonicalWindowStart(y, x.time), 0, 0, 0)]
      BY <1>3, <2>2, <3>3 DEF UsageWindow
    <3> QED BY <1>1, <3>1, <3>2, <3>3 DEF Produced
  <2> QED BY <1>3, <2>1, <2>2
<1> QED BY <1>2, <1>3, <1>6, <1>7, <1>8, <1>9 DEF ChainSound

(* The first slot. *)
LEMMA InitChain ==
    ASSUME Init
    PROVE  chain \in Seq(SlotRecords) /\ Slot = 1 /\ ChainSound
<1>1. PICK x : /\ chain = <<x>>
               /\ \/ x = [time |-> StartTime, event |-> NoEvent,
                          usage |-> [w \in WindowKinds |-> NoAccount]]
                  \/ x = [time |-> StartTime, event |-> NoEvent,
                          usage |-> [w \in WindowKinds |->
                            UsageWindow(CanonicalWindowStart(w, StartTime), 0, 0, 0)]]
  BY DEF Init
<1>2. StartTime \in Int /\ \A w \in WindowKinds : CanonicalWindowStart(w, StartTime) \in Int
  BY BoundAssumption, PeriodGrows
<1>3. \A w \in WindowKinds :
        /\ UsageWindow(CanonicalWindowStart(w, StartTime), 0, 0, 0) \in WindowAccounts
        /\ NoAccount \in WindowAccounts
  BY <1>2, UsageWindowFacts, LiveWindowFacts DEF WindowAccounts
<1>4. x \in SlotRecords /\ x.time = StartTime /\ x.event = NoEvent
  BY <1>1, <1>2, <1>3 DEF SlotRecords
<1>5. chain \in Seq(SlotRecords) /\ Slot = 1 /\ chain[1] = x
  BY <1>1, <1>4 DEF Slot
<1>6. TimeGrows /\ WindowsStay
  BY <1>2, <1>4, <1>5 DEF TimeGrows, WindowsStay
<1>7. WindowsTogether
  BY <1>1, <1>5 DEF WindowsTogether, NoAccount, UsageWindow
<1>8. ASSUME NEW w \in WindowKinds PROVE Accounted(w, 1)
  <2>1. PICK u \in WindowAccounts : u = x.usage[w]
    BY <1>4 DEF SlotRecords
  <2>2. /\ \A start, action : UsedAmount(w, start, 1, action) = 0
        /\ \A start : UsedActions(w, start, 1) = 0
    <3>1. 1 \in 0..Slot /\ \A start : \A r \in 1..1 : ~InPeriod(w, start, r)
      BY <1>4, <1>5 DEF InPeriod
    <3> QED BY <1>5, <3>1, UnusedPeriod
  <2>3. WindowAccounted(w, 1, u)
    <3>1. CASE u = NoAccount
      <4>1. u.exists = FALSE
        BY <3>1 DEF NoAccount
      <4>2. \A r \in 1..1 : chain[r].event = NoEvent
        BY <1>4, <1>5
      <4> QED BY <4>1, <4>2 DEF WindowAccounted
    <3>2. CASE u = UsageWindow(CanonicalWindowStart(w, StartTime), 0, 0, 0)
      <4>1. /\ u.window_start = CanonicalWindowStart(w, StartTime) /\ u.gross_in = 0
            /\ u.gross_output_amount = 0 /\ u.action_count = 0 /\ u.exists = TRUE
        BY <3>2 DEF UsageWindow
      <4>2. CanonicalWindowStart(w, StartTime) \in Int
        BY <1>2
      <4> QED BY <1>4, <1>5, <2>2, <4>1, <4>2 DEF WindowAccounted
    <3> QED BY <1>1, <2>1, <3>1, <3>2
  <2> QED BY <1>5, <2>1, <2>3 DEF Accounted
<1> QED BY <1>5, <1>6, <1>7, <1>8 DEF ChainSound

----------------------------------------------------------------------------
(* The calls. *)

Calls(n) == [pc : Verdicts, minContextSlot : 0..n, contextSlot : 0..n, now : Int,
             next : 1..(Len(ReadPlan) + 1), readAt : SUBSET (1..n),
             windows : [WindowKinds -> WindowAccounts], ready : BOOLEAN]

(* What an enforced window of the call holds was on the chain at a slot the call
   remembers. *)
WindowsRead(o) ==
    \A i \in 1..(inspection[o].next - 1) : \A w \in WindowKinds :
        ReadPlan[i] = w /\ Enforced(w) =>
            \E s \in inspection[o].readAt : inspection[o].windows[w] = chain[s].usage[w]

Accepts(o) == LimitsAccept(inspection[o].windows, Request[o].action, Request[o].amount,
                           inspection[o].now)

CallSound(o) ==
    /\ inspection[o].pc \in {"idle", "slot", "clock"} =>
         inspection[o].next = 1 /\ inspection[o].readAt = {} /\ ~inspection[o].ready
    /\ inspection[o].pc = "read" =>
         inspection[o].next <= Len(ReadPlan) /\ ~inspection[o].ready
    /\ inspection[o].pc \in {"read", "done"} => inspection[o].contextSlot # 0
    /\ inspection[o].pc = "done" =>
         /\ inspection[o].next = Len(ReadPlan) + 1 /\ inspection[o].readAt # {}
         /\ inspection[o].ready <=> Accepts(o)
    /\ inspection[o].ready => inspection[o].pc = "done"
    /\ WindowsRead(o)

(* The inductive invariant of every behaviour, with overlapping calls or not. *)
ObservationInv == TypeOK /\ ChainSound /\ \A o \in Operations : CallSound(o)

(* A step that changes one call. *)
Moves(o) ==
    /\ inspection' \in [Operations -> Calls(Slot')]
    /\ \A p \in Operations \ {o} : inspection'[p] = inspection[p]

LEMMA TypeFacts ==
    ASSUME TypeOK
    PROVE  /\ chain \in Seq(SlotRecords) /\ Slot \in Nat \ {0} /\ Slot \in 1..MaxSlot
           /\ floor \in 0..Slot /\ inspection \in [Operations -> Calls(Slot)]
BY BoundAssumption DEF TypeOK, Calls

(* A call that does not move stays sound while the chain only grows. *)
LEMMA CallKept ==
    ASSUME TypeOK, NEW p \in Operations, CallSound(p), inspection'[p] = inspection[p],
           \A s \in 1..Slot : chain'[s] = chain[s]
    PROVE  CallSound(p)'
<1>1. inspection[p].readAt \subseteq 1..Slot
  BY TypeFacts DEF Calls
<1>2. WindowsRead(p)'
  BY <1>1 DEF CallSound, WindowsRead
<1>3. Accepts(p)' <=> Accepts(p)
  BY DEF Accepts
<1> QED BY <1>2, <1>3 DEF CallSound

(* A step of one call: what remains to be shown is about that call. *)
LEMMA CallStep ==
    ASSUME ObservationInv, NEW o \in Operations, UNCHANGED chain, floor' \in 0..Slot,
           Moves(o), CallSound(o)'
    PROVE  ObservationInv'
<1>1. Slot' = Slot /\ TypeOK
  BY DEF Slot, ObservationInv
<1>2. TypeOK'
  BY <1>1 DEF TypeOK, Moves, Calls
<1>3. ChainSound'
  <2>1. TimeGrows' /\ WindowsTogether' /\ WindowsStay'
    BY <1>1 DEF ObservationInv, ChainSound, TimeGrows, WindowsTogether, WindowsStay
  <2>2. ASSUME NEW w \in WindowKinds, NEW s \in 1..Slot PROVE Accounted(w, s)'
    BY <1>1, TypeFacts, AccountedKept DEF ObservationInv, ChainSound
  <2> QED BY <1>1, <2>1, <2>2 DEF ChainSound
<1>4. ASSUME NEW p \in Operations, p # o PROVE CallSound(p)'
  BY <1>1, <1>4, CallKept DEF ObservationInv, Moves
<1> QED BY <1>2, <1>3, <1>4 DEF ObservationInv

LEMMA StartObserved ==
    ASSUME ObservationInv, NEW o \in Operations, StartInspect(o)
    PROVE  ObservationInv'
<1>1. TypeOK /\ CallSound(o) /\ inspection \in [Operations -> Calls(Slot)] /\ floor \in 0..Slot
  BY TypeFacts DEF ObservationInv
<1>2. /\ inspection[o].pc = "idle" /\ UNCHANGED <<chain, floor>> /\ Slot' = Slot
      /\ inspection' = [inspection EXCEPT ![o].pc = "slot"]
  BY DEF StartInspect, Slot
<1>3. /\ Moves(o)
      /\ inspection'[o] = [inspection[o] EXCEPT !.pc = "slot"]
  <2>1. [inspection[o] EXCEPT !.pc = "slot"] \in Calls(Slot)
    BY <1>1 DEF Calls, Verdicts
  <2> QED BY <1>1, <1>2, <2>1 DEF Moves
<1>4. CallSound(o)'
  BY <1>1, <1>2, <1>3 DEF CallSound, WindowsRead, Calls
<1> QED BY <1>1, <1>2, <1>3, <1>4, CallStep

LEMMA ViewFacts ==
    ASSUME TypeOK, NEW s \in NodeViews
    PROVE  s \in 1..Slot /\ s \in 0..Slot /\ s # 0 /\ s \in Int /\ Slot \in Nat
BY TypeFacts DEF NodeViews

LEMMA SlotObserved ==
    ASSUME ObservationInv, NEW o \in Operations, SlotReply(o)
    PROVE  ObservationInv'
<1>1. TypeOK /\ CallSound(o) /\ inspection \in [Operations -> Calls(Slot)]
  BY TypeFacts DEF ObservationInv
<1>2. /\ inspection[o].pc = "slot" /\ UNCHANGED chain /\ Slot' = Slot
  BY DEF SlotReply, Slot
<1>3. PICK s \in NodeViews :
        /\ floor' = s
        /\ inspection' = [inspection EXCEPT ![o] =
                            [@ EXCEPT !.pc = "clock", !.minContextSlot = s]]
  BY DEF SlotReply, SetMinimumContextSlot
<1>4. s \in 0..Slot
  BY <1>1, ViewFacts
<1>5. /\ Moves(o)
      /\ inspection'[o] = [inspection[o] EXCEPT !.pc = "clock", !.minContextSlot = s]
  <2>1. [inspection[o] EXCEPT !.pc = "clock", !.minContextSlot = s] \in Calls(Slot)
    BY <1>1, <1>4 DEF Calls, Verdicts
  <2> QED BY <1>1, <1>2, <1>3, <2>1 DEF Moves
<1>6. CallSound(o)'
  BY <1>1, <1>2, <1>5 DEF CallSound, WindowsRead, Calls
<1> QED BY <1>2, <1>3, <1>4, <1>5, <1>6, CallStep

LEMMA ClockObserved ==
    ASSUME ObservationInv, NEW o \in Operations, ClockReply(o)
    PROVE  ObservationInv'
<1>1. TypeOK /\ CallSound(o) /\ inspection \in [Operations -> Calls(Slot)]
      /\ chain \in Seq(SlotRecords)
  BY TypeFacts DEF ObservationInv
<1>2. /\ inspection[o].pc = "clock" /\ UNCHANGED chain /\ Slot' = Slot
  BY DEF ClockReply, Slot
<1>3. PICK s \in NodeViews :
        /\ floor' = s
        /\ inspection' = [inspection EXCEPT ![o] =
                            [@ EXCEPT !.pc = "read", !.minContextSlot = s,
                                      !.contextSlot = s, !.now = ObservedTime(o, s)]]
  BY DEF ClockReply, SetMinimumContextSlot
<1>4. s \in 0..Slot /\ s \in 1..Slot /\ s # 0 /\ Slot \in Nat
  BY <1>1, ViewFacts
<1>5. ObservedTime(o, s) \in Int
  BY <1>1, <1>4, SlotFacts, RequestAssumption DEF ObservedTime, IsRequest
<1>6. /\ inspection'[o] \in Calls(Slot)
      /\ inspection'[o].pc = "read" /\ inspection'[o].contextSlot = s
      /\ inspection'[o].next = inspection[o].next
      /\ inspection'[o].readAt = inspection[o].readAt
      /\ inspection'[o].windows = inspection[o].windows
      /\ inspection'[o].ready = inspection[o].ready
  <2>1. inspection'[o] = [inspection[o] EXCEPT !.pc = "read", !.minContextSlot = s,
                             !.contextSlot = s, !.now = ObservedTime(o, s)]
        /\ inspection[o] \in Calls(Slot)
    BY <1>1, <1>3
  <2> DEFINE b == inspection[o]
             c == inspection'[o]
             t == ObservedTime(o, s)
  <2>2. c = [b EXCEPT !.pc = "read", !.minContextSlot = s, !.contextSlot = s, !.now = t]
        /\ b \in Calls(Slot) /\ t \in Int /\ "read" \in Verdicts
    BY <1>5, <2>1 DEF Verdicts
  <2> HIDE DEF b, c, t
  <2>3. c \in Calls(Slot)
    BY <1>4, <2>2 DEF Calls
  <2>4. /\ c.pc = "read" /\ c.contextSlot = s /\ c.next = b.next /\ c.readAt = b.readAt
        /\ c.windows = b.windows /\ c.ready = b.ready
    BY <2>2 DEF Calls
  <2> QED BY <2>3, <2>4 DEF b, c
<1>7. Moves(o)
  BY <1>1, <1>2, <1>3, <1>6 DEF Moves
<1>8. CallSound(o)'
  <2>1. inspection[o].next = 1 /\ ~inspection[o].ready
    BY <1>1, <1>2 DEF CallSound
  <2>2. WindowsRead(o)'
    BY <1>6, <2>1 DEF WindowsRead
  <2>3. Len(ReadPlan) >= 1
    BY PlanFacts
  <2> QED BY <1>4, <1>6, <2>1, <2>2, <2>3 DEF CallSound
<1> QED BY <1>2, <1>3, <1>4, <1>7, <1>8, CallStep

LEMMA FailObserved ==
    ASSUME ObservationInv, NEW o \in Operations, RequestFails(o)
    PROVE  ObservationInv'
<1>1. TypeOK /\ CallSound(o) /\ inspection \in [Operations -> Calls(Slot)] /\ floor \in 0..Slot
  BY TypeFacts DEF ObservationInv
<1>2. /\ inspection[o].pc \in {"slot", "clock", "read"} /\ UNCHANGED <<chain, floor>>
      /\ Slot' = Slot
      /\ inspection' = [inspection EXCEPT ![o].pc = "failed"]
  BY DEF RequestFails, Slot
<1>3. /\ Moves(o)
      /\ inspection'[o] = [inspection[o] EXCEPT !.pc = "failed"]
  <2>1. [inspection[o] EXCEPT !.pc = "failed"] \in Calls(Slot)
    BY <1>1 DEF Calls, Verdicts
  <2> QED BY <1>1, <1>2, <2>1 DEF Moves
<1>4. CallSound(o)'
  BY <1>1, <1>2, <1>3 DEF CallSound, WindowsRead, Calls
<1> QED BY <1>1, <1>2, <1>3, <1>4, CallStep

LEMMA ReadObserved ==
    ASSUME ObservationInv, NEW o \in Operations, ReadReply(o)
    PROVE  ObservationInv'
<1> DEFINE i == inspection[o]
           last == i.next = Len(ReadPlan)
<1>1. /\ TypeOK /\ CallSound(o) /\ inspection \in [Operations -> Calls(Slot)]
      /\ floor \in 0..Slot /\ chain \in Seq(SlotRecords) /\ i \in Calls(Slot)
  BY TypeFacts DEF ObservationInv
<1>2. i.pc = "read" /\ UNCHANGED <<chain, floor>> /\ Slot' = Slot
  BY DEF ReadReply, Slot
<1>3. PICK s \in NodeViews : inspection' = [inspection EXCEPT ![o] = Answered(o, s)]
  BY DEF ReadReply
<1>4. s \in 1..Slot /\ Slot \in Nat
  BY <1>1, ViewFacts
<1>5. i.next \in 1..Len(ReadPlan) /\ Len(ReadPlan) \in Nat \ {0}
  BY <1>1, <1>2, PlanFacts DEF CallSound, Calls
<1> DEFINE next == IF last THEN i.next + 1 ELSE NextRead(i.next)
<1>6. /\ next \in 1..(Len(ReadPlan) + 1)
      /\ last => next = Len(ReadPlan) + 1
      /\ ~last => next \in 1..Len(ReadPlan)
      /\ \A j \in 1..(next - 1) : j < i.next \/ j = i.next \/ Skipped(ReadPlan[j])
  <2>1. CASE last
    BY <1>5, <2>1
  <2>2. CASE ~last
    <3>1. /\ next \in (i.next + 1)..Len(ReadPlan)
          /\ \A j \in (i.next + 1)..(next - 1) : Skipped(ReadPlan[j])
      BY <1>5, <2>2, NextReadFacts
    <3> QED BY <1>5, <2>2, <3>1
  <2> QED BY <2>1, <2>2
<1>7. WindowsAfter(o, s) \in [WindowKinds -> WindowAccounts]
  BY <1>1, <1>4, SlotFacts DEF WindowsAfter, Calls
<1>8. /\ inspection'[o] \in Calls(Slot)
      /\ inspection'[o].pc = (IF last THEN "done" ELSE "read")
      /\ inspection'[o].next = next
      /\ inspection'[o].readAt = i.readAt \cup {s}
      /\ inspection'[o].windows = WindowsAfter(o, s)
      /\ inspection'[o].ready = (last /\ Verdict(o, s))
      /\ inspection'[o].contextSlot = i.contextSlot /\ inspection'[o].now = i.now
  <2>1. inspection'[o] = Answered(o, s)
    BY <1>1, <1>3
  <2>2. /\ (IF last THEN "done" ELSE "read") \in Verdicts
        /\ i.readAt \cup {s} \in SUBSET (1..Slot)
        /\ (last /\ Verdict(o, s)) \in BOOLEAN
    BY <1>1, <1>4 DEF Verdicts, Calls
  <2> DEFINE c == inspection'[o]
             pc == IF last THEN "done" ELSE "read"
             readAt == i.readAt \cup {s}
             windows == WindowsAfter(o, s)
             ready == last /\ Verdict(o, s)
  <2>3. /\ c = [i EXCEPT !.pc = pc, !.minContextSlot = floor, !.next = next,
                         !.readAt = readAt, !.windows = windows, !.ready = ready]
        /\ pc \in Verdicts /\ readAt \in SUBSET (1..Slot) /\ ready \in BOOLEAN
        /\ windows \in [WindowKinds -> WindowAccounts]
    BY <1>7, <2>1, <2>2 DEF Answered
  <2> HIDE DEF next, i, last, c, pc, readAt, windows, ready
  <2>4. c \in Calls(Slot)
    BY <1>1, <1>4, <1>6, <2>3 DEF Calls
  <2>5. /\ c.pc = pc /\ c.next = next /\ c.readAt = readAt /\ c.windows = windows
        /\ c.ready = ready /\ c.contextSlot = i.contextSlot /\ c.now = i.now
    BY <1>1, <2>3 DEF Calls
  <2> QED BY <2>4, <2>5 DEF c, pc, readAt, windows, ready
<1>9. Moves(o)
  BY <1>1, <1>2, <1>3, <1>8 DEF Moves
<1>10. WindowsRead(o)'
  <2> SUFFICES ASSUME NEW j \in 1..(next - 1), NEW w \in WindowKinds, ReadPlan[j] = w,
                      Enforced(w)
               PROVE  \E r \in inspection'[o].readAt :
                        inspection'[o].windows[w] = chain[r].usage[w]
    BY <1>2, <1>8 DEF WindowsRead
  <2>1. j < i.next \/ j = i.next
    BY <1>6 DEF Skipped
  <2>2. CASE ReadPlan[i.next] = w
    <3>1. inspection'[o].windows[w] = chain[s].usage[w] /\ s \in inspection'[o].readAt
      BY <1>8, <2>2 DEF WindowsAfter
    <3> QED BY <3>1
  <2>3. CASE ReadPlan[i.next] # w
    <3>1. j \in 1..(i.next - 1)
      BY <1>5, <1>6, <2>1, <2>3
    <3>2. PICK r \in i.readAt : i.windows[w] = chain[r].usage[w]
      BY <1>1, <3>1 DEF CallSound, WindowsRead
    <3>3. inspection'[o].windows[w] = i.windows[w] /\ r \in inspection'[o].readAt
      BY <1>8, <2>3, <3>2 DEF WindowsAfter
    <3> QED BY <3>2, <3>3
  <2> QED BY <2>2, <2>3
<1>11. Accepts(o)' <=> Verdict(o, s)
  BY <1>8 DEF Accepts, Verdict
<1>12. CallSound(o)'
  <2>1. i.contextSlot # 0
    BY <1>1, <1>2 DEF CallSound
  <2>2. CASE last
    BY <1>6, <1>8, <1>10, <1>11, <2>1, <2>2 DEF CallSound
  <2>3. CASE ~last
    <3>1. /\ inspection'[o].pc = "read" /\ inspection'[o].ready = FALSE
          /\ inspection'[o].next = next /\ next <= Len(ReadPlan)
          /\ inspection'[o].contextSlot # 0
      <4>1. /\ inspection'[o].pc = "read" /\ inspection'[o].ready = FALSE
        BY <1>8, <2>3
      <4>2. next <= Len(ReadPlan)
        BY <1>5, <1>6, <2>3
      <4>3. inspection'[o].next = next /\ inspection'[o].contextSlot # 0
        BY <1>8, <2>1
      <4> QED BY <4>1, <4>2, <4>3
    <3> HIDE DEF next, last, i
    <3> QED BY <1>10, <3>1 DEF CallSound
  <2> QED BY <2>2, <2>3
<1> QED BY <1>1, <1>2, <1>9, <1>12, CallStep

LEMMA InitObserved == Init => ObservationInv
<1> SUFFICES ASSUME Init PROVE ObservationInv
  OBVIOUS
<1>1. chain \in Seq(SlotRecords) /\ Slot = 1 /\ ChainSound
  BY InitChain
<1>2. /\ inspection = [o \in Operations |-> Idle] /\ floor = 0
      /\ MaxSlot \in Nat \ {0} /\ Len(ReadPlan) \in Nat \ {0}
  BY BoundAssumption, PlanFacts DEF Init
<1>3. Idle \in Calls(1)
  <2>1. [w \in WindowKinds |-> NoAccount] \in [WindowKinds -> WindowAccounts]
    BY DEF WindowAccounts
  <2> QED BY <1>2, <2>1 DEF Idle, Calls, Verdicts
<1>4. TypeOK
  <2>1. inspection \in [Operations -> Calls(Slot)]
    BY <1>1, <1>2, <1>3
  <2> QED BY <1>1, <1>2, <2>1 DEF TypeOK, Calls
<1>5. ASSUME NEW o \in Operations PROVE CallSound(o)
  BY <1>2 DEF CallSound, WindowsRead, Idle
<1> QED BY <1>1, <1>4, <1>5 DEF ObservationInv

LEMMA ProduceObserved ==
    ASSUME ObservationInv, ProduceSlot
    PROVE  ObservationInv'
<1>1. /\ TypeOK /\ ChainSound /\ chain \in Seq(SlotRecords) /\ Slot \in Nat \ {0}
      /\ floor \in 0..Slot /\ inspection \in [Operations -> Calls(Slot)]
  BY TypeFacts DEF ObservationInv
<1>2. /\ ChainSound' /\ chain' \in Seq(SlotRecords) /\ Slot' = Slot + 1
      /\ \A s \in 1..Slot : chain'[s] = chain[s]
  BY <1>1, ChainStep
<1>3. Slot < MaxSlot /\ UNCHANGED <<floor, inspection>> /\ MaxSlot \in Nat
  BY BoundAssumption DEF ProduceSlot
<1>4. TypeOK'
  <2>1. ASSUME NEW n \in Nat, NEW c \in Calls(n) PROVE c \in Calls(n + 1)
    <3>1. 0..n \subseteq 0..(n + 1) /\ 1..n \subseteq 1..(n + 1)
      OBVIOUS
    <3> QED BY <3>1 DEF Calls
  <2>2. inspection' \in [Operations -> Calls(Slot')]
    BY <1>1, <1>2, <1>3, <2>1
  <2> QED BY <1>1, <1>2, <1>3, <2>2 DEF TypeOK, Calls
<1>5. ASSUME NEW p \in Operations PROVE CallSound(p)'
  BY <1>1, <1>2, <1>3, CallKept DEF ObservationInv
<1> QED BY <1>2, <1>4, <1>5 DEF ObservationInv

LEMMA StutterObserved == ObservationInv /\ UNCHANGED vars => ObservationInv'
<1> SUFFICES ASSUME ObservationInv, UNCHANGED vars PROVE ObservationInv'
  OBVIOUS
<1>1. chain' = chain /\ floor' = floor /\ inspection' = inspection /\ Slot' = Slot
  BY DEF vars, Slot
<1>2. TypeOK' /\ TimeGrows' /\ WindowsTogether' /\ WindowsStay'
  BY <1>1 DEF ObservationInv, TypeOK, ChainSound, TimeGrows, WindowsTogether, WindowsStay
<1>3. ASSUME NEW w \in WindowKinds, NEW s \in 1..Slot PROVE Accounted(w, s)'
  BY <1>1, TypeFacts, AccountedKept DEF ObservationInv, ChainSound
<1>4. ASSUME NEW p \in Operations PROVE CallSound(p)'
  BY <1>1, CallKept DEF ObservationInv
<1> QED BY <1>1, <1>2, <1>3, <1>4 DEF ObservationInv, ChainSound

LEMMA NextObserved == ObservationInv /\ [Next]_vars => ObservationInv'
<1> SUFFICES ASSUME ObservationInv, [Next]_vars PROVE ObservationInv'
  OBVIOUS
<1>1. CASE UNCHANGED vars
  BY <1>1, StutterObserved
<1>2. CASE ProduceSlot
  BY <1>2, ProduceObserved
<1>3. ASSUME NEW o \in Operations, StartInspect(o) \/ Reply(o) PROVE ObservationInv'
  BY <1>3, StartObserved, SlotObserved, ClockObserved, ReadObserved, FailObserved DEF Reply
<1> QED BY <1>1, <1>2, <1>3 DEF Next

(* However calls of inspect overlap, every usage window on the chain accounts for
   the settlements of its period, and every window a call holds is one the chain
   had at a slot the call read from. *)
THEOREM ObservationsAreSound == Spec => []ObservationInv
BY InitObserved, NextObserved, PTL DEF Spec

(* Every variable of the client keeps its type, and no call remembers a slot the
   chain has not reached, however calls overlap. *)
THEOREM InspectionTypeOK == Spec => []TypeOK
<1>1. ObservationInv => TypeOK
  BY DEF ObservationInv
<1> QED BY <1>1, ObservationsAreSound, PTL

(* Calls made one after the other are a special case of calls that may overlap. *)
THEOREM SequentialIsSpec == SequentialSpec => Spec
<1>1. [SequentialNext]_vars => [Next]_vars
  BY DEF SequentialNext, Next
<1> QED BY <1>1, PTL DEF SequentialSpec, Spec

----------------------------------------------------------------------------
(* The floor, for calls made one after the other. *)

(* One call at a time. *)
AtMostOneRunning == \A o, p \in Operations : Running(o) /\ Running(p) => o = p

(* While a call reads accounts, the client's floor and the request in flight
   both carry the call's own context slot. *)
FloorIsContext ==
    \A o \in Operations :
        inspection[o].pc = "read" =>
            floor = inspection[o].contextSlot
            /\ inspection[o].minContextSlot = inspection[o].contextSlot

(* The inductive invariant, relative to ObservationInv. *)
FloorInv == AtMostOneRunning /\ FloorIsContext /\ ReadsAtOrAboveFloor

(* A step of one call: what the floor invariant depends on. *)
Keeps(o) == \A p \in Operations \ {o} : inspection'[p] = inspection[p]

LEMMA InitFloor == Init => FloorInv
BY DEF Init, Idle, FloorInv, AtMostOneRunning, Running, FloorIsContext, ReadsAtOrAboveFloor

(* A call starts only when none is running. *)
LEMMA StartFloor ==
    ASSUME ObservationInv, FloorInv, NEW o \in Operations,
           \A p \in Operations : ~Running(p), StartInspect(o)
    PROVE  FloorInv'
<1>1. inspection \in [Operations -> Calls(Slot)]
  BY TypeFacts DEF ObservationInv
<1>2. /\ Keeps(o) /\ floor' = floor
      /\ inspection'[o].pc = "slot"
      /\ inspection'[o].readAt = inspection[o].readAt
      /\ inspection'[o].contextSlot = inspection[o].contextSlot
  BY <1>1 DEF Keeps, StartInspect, Calls
<1>3. AtMostOneRunning'
  BY <1>2 DEF Keeps, AtMostOneRunning, Running
<1>4. FloorIsContext' /\ ReadsAtOrAboveFloor'
  BY <1>2 DEF FloorInv, Keeps, FloorIsContext, ReadsAtOrAboveFloor
<1> QED BY <1>3, <1>4 DEF FloorInv

(* The getSlot answer moves the floor; no other call is reading. *)
LEMMA SlotFloor ==
    ASSUME ObservationInv, FloorInv, NEW o \in Operations, SlotReply(o)
    PROVE  FloorInv'
<1>1. inspection \in [Operations -> Calls(Slot)]
  BY TypeFacts DEF ObservationInv
<1>2. /\ Keeps(o) /\ inspection[o].pc = "slot"
      /\ inspection'[o].pc = "clock"
      /\ inspection'[o].readAt = inspection[o].readAt
      /\ inspection'[o].contextSlot = inspection[o].contextSlot
  BY <1>1 DEF Keeps, SlotReply, Calls
<1>3. \A p \in Operations \ {o} : ~Running(p)
  BY <1>2 DEF FloorInv, AtMostOneRunning, Running
<1>4. AtMostOneRunning' /\ FloorIsContext'
  BY <1>2, <1>3 DEF Keeps, AtMostOneRunning, FloorIsContext, Running
<1>5. ReadsAtOrAboveFloor'
  BY <1>2 DEF FloorInv, Keeps, ReadsAtOrAboveFloor
<1> QED BY <1>4, <1>5 DEF FloorInv

(* The Clock answer fixes the context and moves the floor to it. *)
LEMMA ClockFloor ==
    ASSUME ObservationInv, FloorInv, NEW o \in Operations, ClockReply(o)
    PROVE  FloorInv'
<1>1. inspection \in [Operations -> Calls(Slot)] /\ CallSound(o)
  BY TypeFacts DEF ObservationInv
<1>2. PICK s \in NodeViews :
        /\ floor' = s
        /\ inspection' = [inspection EXCEPT ![o] =
                            [@ EXCEPT !.pc = "read", !.minContextSlot = s,
                                      !.contextSlot = s, !.now = ObservedTime(o, s)]]
  BY DEF ClockReply, SetMinimumContextSlot
<1>3. /\ Keeps(o) /\ inspection[o].pc = "clock"
      /\ inspection'[o].pc = "read" /\ inspection'[o].minContextSlot = s
      /\ inspection'[o].contextSlot = s
      /\ inspection'[o].readAt = inspection[o].readAt
  <2> DEFINE b == inspection[o]
             c == inspection'[o]
             t == ObservedTime(o, s)
  <2>1. /\ c = [b EXCEPT !.pc = "read", !.minContextSlot = s, !.contextSlot = s, !.now = t]
        /\ b \in Calls(Slot) /\ Keeps(o) /\ b.pc = "clock"
    BY <1>1, <1>2 DEF Keeps, ClockReply
  <2> HIDE DEF b, c, t
  <2>2. c.pc = "read" /\ c.minContextSlot = s /\ c.contextSlot = s /\ c.readAt = b.readAt
    BY <2>1 DEF Calls
  <2> QED BY <2>1, <2>2 DEF b, c
<1>4. \A p \in Operations \ {o} : ~Running(p)
  BY <1>3 DEF FloorInv, AtMostOneRunning, Running
<1>5. AtMostOneRunning' /\ FloorIsContext'
  BY <1>2, <1>3, <1>4 DEF Keeps, AtMostOneRunning, FloorIsContext, Running
<1>6. inspection'[o].readAt = {}
  BY <1>1, <1>3 DEF CallSound
<1>7. ReadsAtOrAboveFloor'
  BY <1>3, <1>6 DEF FloorInv, Keeps, ReadsAtOrAboveFloor
<1> QED BY <1>5, <1>7 DEF FloorInv

(* An account answer is at or above the floor its request carried. *)
LEMMA ReadFloor ==
    ASSUME ObservationInv, FloorInv, NEW o \in Operations, ReadReply(o)
    PROVE  FloorInv'
<1>1. inspection \in [Operations -> Calls(Slot)] /\ TypeOK
  BY TypeFacts DEF ObservationInv
<1>2. PICK s \in NodeViews :
        /\ s >= inspection[o].minContextSlot
        /\ inspection' = [inspection EXCEPT ![o] = Answered(o, s)]
  BY DEF ReadReply
<1>3. /\ Keeps(o) /\ floor' = floor /\ inspection[o].pc = "read" /\ s \in Int
      /\ inspection'[o] = Answered(o, s)
  BY <1>1, <1>2, ViewFacts DEF Keeps, ReadReply
<1>4. /\ inspection'[o].pc \in {"read", "done"} /\ inspection'[o].minContextSlot = floor
      /\ inspection'[o].contextSlot = inspection[o].contextSlot
      /\ inspection'[o].readAt = inspection[o].readAt \cup {s}
  BY <1>1, <1>3 DEF Answered, Calls
<1>5. AtMostOneRunning'
  BY <1>3, <1>4 DEF FloorInv, Keeps, AtMostOneRunning, Running
<1>6. FloorIsContext'
  BY <1>3, <1>4 DEF FloorInv, Keeps, FloorIsContext
<1>7. s >= inspection[o].contextSlot
  BY <1>2, <1>3 DEF FloorInv, FloorIsContext
<1>8. ReadsAtOrAboveFloor'
  BY <1>3, <1>4, <1>7 DEF FloorInv, Keeps, ReadsAtOrAboveFloor
<1> QED BY <1>5, <1>6, <1>8 DEF FloorInv

(* A rejected call ends the inspection. *)
LEMMA FailFloor ==
    ASSUME ObservationInv, FloorInv, NEW o \in Operations, RequestFails(o)
    PROVE  FloorInv'
<1>1. inspection \in [Operations -> Calls(Slot)]
  BY TypeFacts DEF ObservationInv
<1>2. /\ Keeps(o) /\ floor' = floor
      /\ inspection'[o].pc = "failed"
      /\ inspection'[o].readAt = inspection[o].readAt
      /\ inspection'[o].contextSlot = inspection[o].contextSlot
  BY <1>1 DEF Keeps, RequestFails, Calls
<1>3. AtMostOneRunning'
  BY <1>2 DEF FloorInv, Keeps, AtMostOneRunning, Running
<1>4. FloorIsContext' /\ ReadsAtOrAboveFloor'
  BY <1>2 DEF FloorInv, Keeps, FloorIsContext, ReadsAtOrAboveFloor
<1> QED BY <1>3, <1>4 DEF FloorInv

LEMMA NextFloor == ObservationInv /\ FloorInv /\ [SequentialNext]_vars => FloorInv'
<1> SUFFICES ASSUME ObservationInv, FloorInv, [SequentialNext]_vars PROVE FloorInv'
  OBVIOUS
<1>1. CASE UNCHANGED vars \/ ProduceSlot
  <2>1. floor' = floor /\ inspection' = inspection
    BY <1>1 DEF vars, ProduceSlot
  <2> QED
    BY <2>1 DEF FloorInv, AtMostOneRunning, Running, FloorIsContext, ReadsAtOrAboveFloor
<1>2. CASE \E o \in Operations :
             (\A other \in Operations : ~Running(other)) /\ StartInspect(o)
  BY <1>2, StartFloor
<1>3. CASE \E o \in Operations : Reply(o)
  BY <1>3, SlotFloor, ClockFloor, ReadFloor, FailFloor DEF Reply
<1> QED BY <1>1, <1>2, <1>3 DEF SequentialNext

(* CORRECTNESS-CONTRACT.md's floor, for inspections made one after the other: no
   account is read from a slot before the inspection's contextSlot. *)
THEOREM SequentialReadsAtOrAboveFloor == SequentialSpec => []ReadsAtOrAboveFloor
<1>1. FloorInv => ReadsAtOrAboveFloor
  BY DEF FloorInv
<1>2. SequentialSpec => []ObservationInv
  BY SequentialIsSpec, ObservationsAreSound, PTL
<1> QED BY <1>1, <1>2, InitFloor, NextFloor, PTL DEF SequentialSpec

----------------------------------------------------------------------------
(* The verdict. *)

(* What observeLimitPolicy counts of a window in the period that begins at start. *)
CountedAmount(u, action, start) ==
    IF u.exists /\ u.window_start = start THEN Accumulator(u, action) ELSE 0
CountedActions(u, start) ==
    IF u.exists /\ u.window_start = start THEN u.action_count ELSE 0

(* validateLimits accepts an enforced window. *)
Fits(w, u, action, proposed, now) ==
    LET start == CanonicalWindowStart(w, now)
    IN  /\ u.exists /\ ~(u.window_start > start)
        /\ Policy.maximum[w] # 0 =>
             CountedAmount(u, action, start) + proposed <= Policy.maximum[w]
        /\ Policy.maximum_actions[w] # 0 =>
             CountedActions(u, start) + 1 <= Policy.maximum_actions[w]

LEMMA AcceptFacts ==
    ASSUME NEW windows, NEW action, NEW proposed, NEW now
    PROVE  LimitsAccept(windows, action, proposed, now) <=>
             /\ PerTransactionAllowed(proposed)
             /\ \A w \in WindowKinds :
                  Enforced(w) => Fits(w, windows[w], action, proposed, now)
<1> DEFINE Loaded(w) == IF Enforced(w) THEN windows[w] ELSE NoAccount
           Seen(w)   == ObserveWindow(w, Loaded(w), action, proposed, now)
           Good(w)   == /\ ~Seen(w).clockRegression /\ Seen(w).allowed
                        /\ Seen(w).actionAllowed /\ (Enforced(w) => Loaded(w).exists)
<1>1. ASSUME NEW w \in WindowKinds, Enforced(w)
      PROVE  Good(w) <=> Fits(w, windows[w], action, proposed, now)
  <2>1. Loaded(w) = windows[w]
    BY <1>1
  <2> DEFINE u == windows[w]
             start == CanonicalWindowStart(w, now)
             regression == u.exists /\ u.window_start > start
             amount == CountedAmount(u, action, start)
             count == CountedActions(u, start)
             maximum == Policy.maximum[w]
             actions == Policy.maximum_actions[w]
  <2>2. /\ Seen(w).clockRegression = regression
        /\ Seen(w).allowed = (~regression /\ (maximum = 0 \/ amount + proposed <= maximum))
        /\ Seen(w).actionAllowed = (~regression /\ (actions = 0 \/ count + 1 <= actions))
    BY <2>1 DEF ObserveWindow, CountedAmount, CountedActions
  <2> HIDE DEF Seen, Loaded
  <2> QED BY <1>1, <2>1, <2>2 DEF Fits
<1>2. ASSUME NEW w \in WindowKinds, ~Enforced(w) PROVE Good(w)
  <2>1. Policy.maximum[w] = 0 /\ Policy.maximum_actions[w] = 0 /\ Loaded(w).exists = FALSE
    BY <1>2 DEF Enforced, NoAccount
  <2>2. /\ Seen(w).clockRegression = FALSE /\ Seen(w).allowed = TRUE
        /\ Seen(w).actionAllowed = TRUE
    <3> HIDE DEF Loaded
    <3> QED BY <2>1 DEF ObserveWindow
  <2> QED BY <1>2, <2>2
<1>3. LimitsAccept(windows, action, proposed, now) <=>
        PerTransactionAllowed(proposed) /\ \A w \in WindowKinds : Good(w)
  BY DEF LimitsAccept
<1> QED
  <2> HIDE DEF Good
  <2> QED BY <1>1, <1>2, <1>3

(* A window that accounts for the chain up to slot s counts what was used. *)
LEMMA CountedFacts ==
    ASSUME chain \in Seq(SlotRecords), NEW s \in 1..Slot, NEW w \in WindowKinds,
           NEW u \in WindowAccounts, WindowAccounted(w, s, u), u.exists,
           NEW start \in Int, u.window_start <= start, NEW action \in SettlementActions
    PROVE  /\ CountedAmount(u, action, start) = UsedAmount(w, start, s, action)
           /\ CountedActions(u, start) = UsedActions(w, start, s)
<1>1. CASE u.window_start = start
  BY <1>1 DEF WindowAccounted, CountedAmount, CountedActions, Accumulator, SettlementActions
<1>2. CASE u.window_start < start
  <2>1. u.window_start \in Int /\ Slot \in Nat
    BY WindowFacts DEF Slot
  <2>2. ASSUME NEW r \in 1..s PROVE ~InPeriod(w, start, r)
    <3>1. r \in 1..Slot /\ CanonicalWindowStart(w, chain[r].time) \in Int
      BY <2>1, SlotFacts, PeriodGrows
    <3>2. chain[r].event # NoEvent => CanonicalWindowStart(w, chain[r].time) <= u.window_start
      BY DEF WindowAccounted
    <3> QED BY <1>2, <2>1, <3>1, <3>2 DEF InPeriod
  <2>3. s \in 0..Slot
    BY <2>1
  <2>4. UsedAmount(w, start, s, action) = 0 /\ UsedActions(w, start, s) = 0
    BY <2>2, <2>3, UnusedPeriod
  <2>5. CountedAmount(u, action, start) = 0 /\ CountedActions(u, start) = 0
    BY <1>2, <2>1 DEF CountedAmount, CountedActions
  <2> QED BY <2>4, <2>5
<1> QED
  <2>1. u.window_start \in Int
    BY WindowFacts
  <2> QED BY <1>1, <1>2, <2>1

(* The cap of window w in the period that begins at start, at slot s. *)
Capped(w, start, s, action, amount) ==
    /\ Policy.maximum[w] # 0 => UsedAmount(w, start, s, action) + amount <= Policy.maximum[w]
    /\ Policy.maximum_actions[w] # 0 =>
         UsedActions(w, start, s) + 1 <= Policy.maximum_actions[w]

(* What fits at a slot fitted at every slot before it. *)
LEMMA CappedBefore ==
    ASSUME chain \in Seq(SlotRecords), NEW s \in 0..Slot, NEW r \in 0..s,
           NEW w \in WindowKinds, NEW start, NEW action, NEW amount \in Nat,
           Capped(w, start, s, action, amount)
    PROVE  Capped(w, start, r, action, amount)
<1>1. /\ UsedAmount(w, start, r, action) <= UsedAmount(w, start, s, action)
      /\ UsedActions(w, start, r) <= UsedActions(w, start, s)
  BY UsageGrows
<1>2. Slot \in Nat /\ s \in Nat /\ r \in Nat /\ r \in 0..Slot
  BY DEF Slot
<1>3. /\ UsedAmount(w, start, r, action) \in Nat /\ UsedAmount(w, start, s, action) \in Nat
      /\ UsedActions(w, start, r) \in Nat /\ UsedActions(w, start, s) \in Nat
  BY <1>2, AmountsFacts, SamePeriodFacts
<1>4. Policy.maximum[w] \in Nat /\ Policy.maximum_actions[w] \in Nat
  BY PolicyAssumption DEF IsPolicy
<1> QED BY <1>1, <1>3, <1>4 DEF Capped

(* Where a finished call has an enforced window from. *)
LEMMA HeldWindow ==
    ASSUME ObservationInv, ReadsAtOrAboveFloor, NEW o \in Operations,
           inspection[o].pc = "done", NEW w \in WindowKinds, Enforced(w)
    PROVE  \E s \in inspection[o].readAt : \E u \in WindowAccounts :
             /\ s \in 1..Slot /\ inspection[o].contextSlot \in 1..s
             /\ u = inspection[o].windows[w] /\ u = chain[s].usage[w]
             /\ WindowAccounted(w, s, u)
<1>1. /\ CallSound(o) /\ inspection[o] \in Calls(Slot) /\ Slot \in Nat
  BY TypeFacts DEF ObservationInv
<1>2. inspection[o].next = Len(ReadPlan) + 1 /\ inspection[o].contextSlot # 0
  BY <1>1 DEF CallSound
<1>3. PICK i \in 1..Len(ReadPlan) : ReadPlan[i] = w
  BY PlanFacts
<1>4. i \in 1..(inspection[o].next - 1)
  BY <1>2, <1>3, PlanFacts
<1>5. PICK s \in inspection[o].readAt : inspection[o].windows[w] = chain[s].usage[w]
  BY <1>1, <1>3, <1>4 DEF CallSound, WindowsRead
<1>6. s \in 1..Slot /\ inspection[o].contextSlot \in 0..Slot /\ s >= inspection[o].contextSlot
  BY <1>1 DEF Calls, ReadsAtOrAboveFloor
<1>7. inspection[o].contextSlot \in 1..s
  BY <1>1, <1>2, <1>6
<1>8. PICK u \in WindowAccounts : u = chain[s].usage[w] /\ WindowAccounted(w, s, u)
  BY <1>6 DEF ObservationInv, ChainSound, Accounted
<1> QED BY <1>5, <1>6, <1>7, <1>8

LEMMA RequestFacts ==
    ASSUME ObservationInv, NEW o \in Operations, NEW w \in WindowKinds
    PROVE  /\ Request[o].action \in SettlementActions /\ Request[o].amount \in Nat
           /\ inspection[o].now \in Int /\ CanonicalWindowStart(w, inspection[o].now) \in Int
<1>1. inspection[o].now \in Int
  BY TypeFacts DEF ObservationInv, Calls
<1> QED BY <1>1, RequestAssumption, PeriodGrows DEF IsRequest

LEMMA ReadyIsSound == ObservationInv /\ ReadsAtOrAboveFloor => ReadyWithinCap
<1> SUFFICES ASSUME ObservationInv, ReadsAtOrAboveFloor, NEW o \in Operations,
                    inspection[o].ready, NEW w \in WindowKinds
             PROVE  WithinCap(o, w, inspection[o].contextSlot)
  BY DEF ReadyWithinCap
<1>1. inspection[o].pc = "done" /\ Accepts(o) /\ chain \in Seq(SlotRecords) /\ Slot \in Nat
  BY TypeFacts DEF ObservationInv, CallSound
<1> DEFINE start == CanonicalWindowStart(w, inspection[o].now)
           action == Request[o].action
           amount == Request[o].amount
           context == inspection[o].contextSlot
<1>2. action \in SettlementActions /\ amount \in Nat /\ start \in Int
  BY RequestFacts
<1>3. CASE Enforced(w)
  <2>1. PICK s \in inspection[o].readAt, u \in WindowAccounts :
             /\ s \in 1..Slot /\ context \in 1..s
             /\ u = inspection[o].windows[w] /\ u = chain[s].usage[w]
             /\ WindowAccounted(w, s, u)
    BY <1>1, <1>3, HeldWindow
  <2>2. Fits(w, u, action, amount, inspection[o].now)
    BY <1>1, <1>3, <2>1, AcceptFacts DEF Accepts
  <2>3. u.exists /\ u.window_start <= start
    BY <1>2, <2>2, WindowFacts DEF Fits
  <2>4. /\ CountedAmount(u, action, start) = UsedAmount(w, start, s, action)
        /\ CountedActions(u, start) = UsedActions(w, start, s)
    BY <1>1, <1>2, <2>1, <2>3, CountedFacts
  <2>5. Capped(w, start, s, action, amount)
    BY <2>2, <2>4 DEF Fits, Capped
  <2>6. s \in 0..Slot /\ context \in 0..s
    BY <1>1, <2>1
  <2>7. Capped(w, start, context, action, amount)
    BY <1>1, <1>2, <2>5, <2>6, CappedBefore
  <2> QED BY <2>7 DEF Capped, WithinCap
<1>4. CASE ~Enforced(w)
  BY <1>4 DEF Enforced, WithinCap
<1> QED BY <1>3, <1>4

LEMMA RefusalIsSound == ObservationInv /\ ReadsAtOrAboveFloor => RefusalJustified
<1> SUFFICES ASSUME ObservationInv, ReadsAtOrAboveFloor, NEW o \in Operations,
                    inspection[o].pc = "done", ~inspection[o].ready,
                    PerTransactionAllowed(Request[o].amount)
             PROVE  \E w \in WindowKinds :
                       /\ Enforced(w)
                       /\ \/ ~chain[inspection[o].contextSlot].usage[w].exists
                          \/ ~WithinCap(o, w, Max(inspection[o].readAt))
                          \/ \E r \in 1..Max(inspection[o].readAt) :
                                CanonicalWindowStart(w, chain[r].time)
                                    > CanonicalWindowStart(w, inspection[o].now)
  BY DEF RefusalJustified
<1> DEFINE action == Request[o].action
           amount == Request[o].amount
           context == inspection[o].contextSlot
           newest == Max(inspection[o].readAt)
<1>1. /\ ~Accepts(o) /\ chain \in Seq(SlotRecords) /\ Slot \in Nat
      /\ inspection[o].readAt \subseteq 1..Slot /\ inspection[o].readAt # {}
  BY TypeFacts DEF ObservationInv, CallSound, Calls
<1>2. /\ newest \in 1..Slot /\ \A s \in inspection[o].readAt : s <= newest
  BY <1>1, MaxFacts
<1> HIDE DEF newest
<1>3. PICK w \in WindowKinds :
        Enforced(w) /\ ~Fits(w, inspection[o].windows[w], action, amount, inspection[o].now)
  BY <1>1, AcceptFacts DEF Accepts
<1> DEFINE start == CanonicalWindowStart(w, inspection[o].now)
<1>4. action \in SettlementActions /\ amount \in Nat /\ start \in Int
  BY RequestFacts
<1>5. PICK s \in inspection[o].readAt, u \in WindowAccounts :
             /\ s \in 1..Slot /\ context \in 1..s
             /\ u = inspection[o].windows[w] /\ u = chain[s].usage[w]
             /\ WindowAccounted(w, s, u)
  BY <1>3, HeldWindow
<1>6. s <= newest /\ s \in 0..newest /\ newest \in 0..Slot
  BY <1>1, <1>2, <1>5
<1>7. CASE ~u.exists
  <2>1. context \in 1..Slot /\ context <= s
    BY <1>1, <1>5
  <2>2. ~chain[context].usage[w].exists
    BY <1>5, <1>7, <2>1 DEF ObservationInv, ChainSound, WindowsStay
  <2> QED BY <1>3, <2>2
<1>8. CASE u.exists /\ u.window_start > start
  <2>1. PICK r \in 1..s : u.window_start = CanonicalWindowStart(w, chain[r].time)
    BY <1>5, <1>8 DEF WindowAccounted
  <2>2. r \in 1..newest
    BY <1>2, <1>5, <1>6, <2>1
  <2> QED BY <1>3, <1>8, <2>1, <2>2 DEF newest
<1>9. CASE u.exists /\ u.window_start <= start
  <2>1. /\ CountedAmount(u, action, start) = UsedAmount(w, start, s, action)
        /\ CountedActions(u, start) = UsedActions(w, start, s)
    BY <1>1, <1>4, <1>5, <1>9, CountedFacts
  <2>2. ~(u.window_start > start)
    BY <1>4, <1>9, WindowFacts
  <2>3. ~Capped(w, start, s, action, amount)
    BY <1>3, <1>5, <1>9, <2>1, <2>2 DEF Fits, Capped
  <2>4. ~Capped(w, start, newest, action, amount)
    BY <1>1, <1>4, <1>6, <2>3, CappedBefore
  <2> QED BY <1>3, <2>4 DEF Capped, WithinCap, newest
<1> QED
  <2>1. u.exists => u.window_start \in Int
    BY WindowFacts
  <2> QED BY <1>4, <1>7, <1>8, <1>9, <2>1

(* Whatever calls overlap: an inspection whose reads kept to its floor has a
   verdict the chain's own settlement history supports, both when it is ready and
   when it refuses. *)
THEOREM FloorMakesVerdictsSound ==
    Spec => [](ReadsAtOrAboveFloor => ReadyWithinCap /\ RefusalJustified)
<1>1. ObservationInv => (ReadsAtOrAboveFloor => ReadyWithinCap /\ RefusalJustified)
  BY ReadyIsSound, RefusalIsSound
<1> QED BY <1>1, ObservationsAreSound, PTL

(* An inspection made while no other runs is ready only if the operation fits every
   cap of its period, by the settlements on the chain at its context slot. *)
THEOREM SequentialReadyWithinCap == SequentialSpec => []ReadyWithinCap
BY SequentialIsSpec, SequentialReadsAtOrAboveFloor, FloorMakesVerdictsSound, PTL

(* An inspection made while no other runs refuses only for a cause on the chain. *)
THEOREM SequentialRefusalJustified == SequentialSpec => []RefusalJustified
BY SequentialIsSpec, SequentialReadsAtOrAboveFloor, FloorMakesVerdictsSound, PTL

(* The variables keep their types in the sequential behaviours too. *)
THEOREM SequentialTypeOK == SequentialSpec => []TypeOK
BY SequentialIsSpec, InspectionTypeOK, PTL
=============================================================================
