---------------------------- MODULE Screens_proofs ----------------------------
(***************************************************************************)
(* Proofs about the figures that the screens show.                         *)
(*                                                                         *)
(* First the cash plan and the bank accounts, for any number of requests,  *)
(* accounts, weeks, rows and audit entries: the rows POST /cash-flow makes *)
(* of a week, the audit chain of an account, and the agreement of the two   *)
(* runways and of the two tabs.                                            *)
(*                                                                         *)
(* Then the indicators, the dashboard and the statements, for any set of    *)
(* transactions, flows, budget lines, periods and mappings: that what one   *)
(* screen shows is what another one shows, and what was validated.         *)
(*                                                                         *)
(* The specifications of CashFlow and Figures have no variable in common;  *)
(* their proofs share the theory of the sums over a finite set.            *)
(***************************************************************************)
EXTENDS Figures, CashFlow, FiniteSetTheorems, WellFoundedInduction, TLAPS

-----------------------------------------------------------------------------
(* The inductive invariant.                                                *)

AuditEntry == [account : Accounts, old : Int, new : Int]

\* A request at each of its steps.
RequestState ==
    {Idle}
      \cup [op : {"entry"}, date : Int, dir : {"IN", "OUT"}, amount : Int, fits : BOOLEAN]
      \cup [op : {"upsert"}, week : LegacyWeeks, in : Int, out : Int, fits : BOOLEAN, found : Nat]
      \cup [op : {"delete"}, id : Int]
      \cup [op : {"balance", "log"}, account : Accounts, old : Int, new : Int]

Updates == {s \in Requests : req[s].op \in {"balance", "log"}}

UpdateOf(r, a) == req[r].op \in {"balance", "log"} /\ req[r].account = a
UpsertOf(r, w) == req[r].op = "upsert" /\ req[r].week = w
EmptyOf(r, w) == UpsertOf(r, w) /\ req[r].found = 0

\* The types of everything a step may change; rows are told apart by their ids.
RowsTyped ==
    /\ IsFiniteSet(plans)
    /\ \A p \in plans : /\ p.id \in 1 .. MaxRows /\ p.id < nextId
                        /\ p.week \in 1 .. 52
                        /\ p.direction \in {"IN", "OUT"}
                        /\ p.flow \in {"ENTRY", "LEGACY"}
    /\ \A p, q \in plans : p.id = q.id => p = q
    /\ nextId \in 1 .. MaxRows + 1
    /\ doubled \subseteq LegacyWeeks

AccountsTyped ==
    /\ DOMAIN balance \subseteq Accounts
    /\ balance \in [DOMAIN balance -> Int]
    /\ log \in Seq(AuditEntry)
    /\ muddled \subseteq Accounts

LogBounded == Len(log) + Cardinality(Updates) <= MaxLog

Typed ==
    /\ req \in [Requests -> RequestState]
    /\ RowsTyped
    /\ AccountsTyped
    /\ LogBounded

\* A row an upsert has found is of its week, whatever happened since.
FoundKept ==
    \A r \in Requests : \A p \in plans :
      req[r].op = "upsert" /\ p.id = req[r].found => p.week = req[r].week

\* An id that was found has been given out.
FoundGiven ==
    \A r \in Requests : req[r].op = "upsert" => req[r].found < nextId

\* An upsert of a week that is not doubled and of which it found no row is the only
\* such one; there still is no row of POST /cash-flow, and a row that was found is
\* one of them.
UpsertAlone ==
    \A r \in Requests : \A w \in LegacyWeeks \ doubled :
      UpsertOf(r, w) =>
        /\ \A s \in Requests : EmptyOf(r, w) /\ EmptyOf(s, w) => s = r
        /\ \A p \in plans :
             /\ p.id = req[r].found => p.flow = "LEGACY"
             /\ req[r].found = 0 /\ p.week = w => p.flow # "LEGACY"

RowsInv == OneRowPerWeek /\ FoundKept /\ FoundGiven /\ UpsertAlone

\* Updates and audit entries are of accounts that exist.
OfAccounts ==
    /\ \A r \in Requests : req[r].op \in {"balance", "log"} => req[r].account \in DOMAIN balance
    /\ \A i \in DOMAIN log : log[i].account \in DOMAIN balance

\* An update of an account that is not muddled is alone on it, and the balance it
\* has read is the one it replaces.
UpdateAlone ==
    \A r \in Requests : \A a \in DOMAIN balance \ muddled :
      UpdateOf(r, a) =>
        /\ \A s \in Requests : UpdateOf(s, a) => s = r
        /\ req[r].op = "balance" => req[r].old = balance[a]
        /\ req[r].op = "log" => req[r].new = balance[a]

\* The last entry of an account holds the balance an update awaiting its audit
\* entry has replaced.
LastEntry ==
    \A r \in Requests : \A a \in DOMAIN balance \ muddled : \A i \in EntriesOf(a) :
      /\ req[r].op = "log" /\ req[r].account = a
      /\ \A k \in EntriesOf(a) : k <= i
      => log[i].new = req[r].old

AccountsInv == AuditChain /\ OfAccounts /\ UpdateAlone /\ LastEntry

Inv == Typed /\ RowsInv /\ AccountsInv

-----------------------------------------------------------------------------
(* The two runways.                                                        *)

\* The cash screen and the dashboard compute one runway from any finite set of
\* rows: -1, which stands for null, is never the runway of a positive outflow.
LEMMA RunwaysSame == IsFiniteSet(plans) => RunwaysAgree
<1> SUFFICES ASSUME IsFiniteSet(plans) PROVE RunwaysAgree
  OBVIOUS
<1> DEFINE n == Cardinality(plans)
           burn == Sum(Outflow, plans)
           cash == TotalActiveCash
           h == Round2(cash * n, burn)
<1>1. n = 0 <=> plans = {}
  BY FS_EmptySet
<1>2. RunwayStatus = IF n = 0 \/ RunwayWeeks(cash, burn, n) = NoRunway
                       THEN 0 ELSE RunwayWeeks(cash, burn, n).hundredths
  BY DEF RunwayStatus
<1>3. DashboardRunway = IF plans = {} \/ burn <= 0 THEN 0 ELSE h
  BY DEF DashboardRunway
<1>4. RunwayWeeks(cash, burn, n) = IF burn <= 0 THEN NoRunway
                                     ELSE [whole |-> h % 100 = 0, hundredths |-> h]
  BY DEF RunwayWeeks
<1> HIDE DEF n, burn, cash, h
<1>5. CASE burn <= 0
  BY <1>1, <1>2, <1>3, <1>4, <1>5 DEF RunwaysAgree
<1>6. CASE ~(burn <= 0)
  <2> DEFINE row == [whole |-> h % 100 = 0, hundredths |-> h]
  <2>1. row.hundredths = h /\ row.whole = (h % 100 = 0)
    OBVIOUS
  <2>2. h # -1 \/ h % 100 # 0
    <3>1. \A x \in Int : x \div 100 \in Int /\ x = 100 * (x \div 100) + (x % 100)
      BY SMT
    <3>2. \A k \in Int : -1 # 100 * k + 0
      BY SMT
    <3> QED BY <3>1, <3>2
  <2>3. row # NoRunway
    <3>1. SUFFICES ASSUME row = NoRunway PROVE FALSE
      OBVIOUS
    <3>2. NoRunway.whole = TRUE /\ NoRunway.hundredths = -1
      BY DEF NoRunway
    <3> HIDE DEF row
    <3>3. h = -1 /\ h % 100 = 0
      BY <2>1, <3>1, <3>2
    <3> QED BY <2>2, <3>3
  <2> HIDE DEF row
  <2>4. RunwayWeeks(cash, burn, n) = row
    BY <1>4, <1>6 DEF row
  <2>5. RunwayStatus = IF n = 0 THEN 0 ELSE h
    BY <1>2, <2>1, <2>3, <2>4
  <2>6. DashboardRunway = IF n = 0 THEN 0 ELSE h
    BY <1>1, <1>3, <1>6
  <2> QED BY <2>5, <2>6 DEF RunwaysAgree
<1> QED BY <1>5, <1>6

-----------------------------------------------------------------------------
(* The two tabs.                                                           *)

\* Sums are made one element after the other, each chosen among those left.
Pick(s) == CHOOSE x \in s : TRUE

\* What holds of 0 and of the successor of a number it holds of holds of all.
LEMMA NaturalInduction ==
  ASSUME NEW N, 0 \in N, \A n \in Nat : n \in N => n + 1 \in N
  PROVE  Nat \subseteq N
<1> SUFFICES ASSUME NEW b \in Nat, b \notin N PROVE FALSE
  OBVIOUS
<1> DEFINE R == OpToRel(<, Nat)
           T == Nat \ N
<1>1. IsWellFoundedOn(R, Nat)
  BY NatLessThanWellFounded
<1>2. PICK x \in T : \A y \in T : <<y, x>> \notin R
  <2>1. T \subseteq Nat /\ T # {}
    OBVIOUS
  <2> HIDE DEF R, T
  <2> QED BY <1>1, <2>1, WFMin
<1>3. x # 0 /\ x \in Nat /\ x - 1 \in Nat
  <2>1. x \in Nat /\ x \notin N
    OBVIOUS
  <2>2. x # 0
    BY <2>1
  <2> QED BY <2>1, <2>2
<1>4. x - 1 \notin N
  <2>1. (x - 1) + 1 = x
    BY <1>3
  <2> QED BY <1>2, <1>3, <2>1
<1>5. <<x - 1, x>> \in R
  BY <1>3 DEF OpToRel
<1> QED BY <1>2, <1>3, <1>4, <1>5

\* One element less in a finite set.
LEMMA Picked ==
  ASSUME NEW S, IsFiniteSet(S), NEW s \in SUBSET S
  PROVE  /\ IsFiniteSet(s) /\ Cardinality(s) \in Nat /\ (Cardinality(s) = 0 <=> s = {})
         /\ s # {} => /\ Pick(s) \in s /\ s \ {Pick(s)} \in SUBSET S
                      /\ Cardinality(s \ {Pick(s)}) = Cardinality(s) - 1
<1>1. IsFiniteSet(s) /\ Cardinality(s) \in Nat
  BY FS_Subset, FS_CardinalityType
<1> QED BY <1>1, FS_EmptySet, FS_RemoveElement DEF Pick

\* The sums of what g gives to the elements of each subset of S.
ArePartialSums(h, S, g) ==
    h = [s \in SUBSET S |-> IF s = {} THEN 0 ELSE g[Pick(s)] + h[s \ {Pick(s)}]]

\* They exist for a finite set: the recursion of a sum has a solution.
LEMMA PartialSums ==
  ASSUME NEW S, IsFiniteSet(S), NEW g
  PROVE  \E h : ArePartialSums(h, S, g)
<1> DEFINE Upto(n) == {s \in SUBSET S : Cardinality(s) <= n}
           Step(h, s) == IF s = {} THEN 0 ELSE g[Pick(s)] + h[s \ {Pick(s)}]
           Sums(h, D) == h = [s \in D |-> Step(h, s)]
           N == {n \in Nat : \E h : Sums(h, Upto(n))}
<1>1. \A s \in SUBSET S : Cardinality(s) \in Nat /\ (Cardinality(s) = 0 => s = {})
  BY Picked
<1>rest. \A s \in SUBSET S : s # {} =>
        /\ Pick(s) \in s /\ s \ {Pick(s)} \in SUBSET S
        /\ Cardinality(s \ {Pick(s)}) = Cardinality(s) - 1
  BY Picked
<1>2. 0 \in N
  <2>1. \A s \in Upto(0) : s = {}
    BY <1>1
  <2> DEFINE h == [s \in Upto(0) |-> 0]
  <2>2. Sums(h, Upto(0))
    BY <2>1
  <2> QED BY <2>2
<1>3. \A n \in Nat : n \in N => n + 1 \in N
  <2> SUFFICES ASSUME NEW n \in Nat, \E h : Sums(h, Upto(n)) PROVE \E h : Sums(h, Upto(n + 1))
    <3> HIDE DEF Sums, Upto
    <3> QED OBVIOUS
  <2>1. PICK k : Sums(k, Upto(n))
    OBVIOUS
  <2> DEFINE h == [s \in Upto(n + 1) |-> Step(k, s)]
  <2>2. \A s \in Upto(n + 1) : s # {} => s \ {Pick(s)} \in Upto(n) /\ s \ {Pick(s)} \in Upto(n + 1)
    BY <1>1, <1>rest
  <2>3. \A s \in Upto(n) : h[s] = k[s]
    <3>1. \A s \in Upto(n) : s \in Upto(n + 1)
      BY <1>1
    <3>2. \A s \in Upto(n) : k[s] = Step(k, s)
      BY <2>1
    <3> HIDE DEF Upto, Step
    <3> QED BY <3>1, <3>2
  <2>4. \A s \in Upto(n + 1) : Step(k, s) = Step(h, s)
    <3> HIDE DEF Upto, h
    <3> QED BY <2>2, <2>3
  <2>5. Sums(h, Upto(n + 1))
    <3> HIDE DEF Upto, Step
    <3> QED BY <2>4
  <2> QED BY <2>5
<1>4. Cardinality(S) \in N
  <2> HIDE DEF N
  <2> QED BY <1>1, <1>2, <1>3, NaturalInduction
<1>5. Upto(Cardinality(S)) = SUBSET S
  BY FS_Subset
<1> QED BY <1>4, <1>5 DEF ArePartialSums

\* One row, as both tabs count it.
RowAgrees(p) ==
    /\ Signed(p) \in Int /\ RollingIn(p) \in Int /\ RollingOut(p) \in Int /\ Unseen(p) \in Int
    /\ Signed(p) = RollingIn(p) - RollingOut(p) - Unseen(p)

\* A sum of the screens is the last of the partial sums, of each of four figures.
LEMMA SignedSums ==
  ASSUME NEW W, IsFiniteSet(W)
  PROVE  \E i : /\ Sum(Signed, W) = i[W]
                /\ i = [s \in SUBSET W |-> IF s = {} THEN 0 ELSE Signed(Pick(s)) + i[s \ {Pick(s)}]]
<1> DEFINE Solves(h) == h = [s \in SUBSET W |-> IF s = {} THEN 0 ELSE Signed(Pick(s)) + h[s \ {Pick(s)}]]
           sums == CHOOSE h : Solves(h)
           g == [p \in W |-> Signed(p)]
<1>1. Sum(Signed, W) = sums[W]
  BY DEF Sum, MapThenSumSet, MapThenFoldSet, Pick
<1>2. PICK h : ArePartialSums(h, W, g)
  <2> HIDE DEF g
  <2> QED BY PartialSums
<1>3. \A s \in SUBSET W : s # {} => g[Pick(s)] = Signed(Pick(s))
  BY DEF Pick
<1>4. Solves(h)
  <2> HIDE DEF g
  <2> QED BY <1>2, <1>3 DEF ArePartialSums
<1>5. Solves(sums)
  <2> HIDE DEF Solves
  <2> QED BY <1>4
<1> HIDE DEF sums
<1> QED BY <1>1, <1>5

\* The inflows of the plan tab.
LEMMA RollingInSums ==
  ASSUME NEW W, IsFiniteSet(W)
  PROVE  \E i : /\ Sum(RollingIn, W) = i[W]
                /\ i = [s \in SUBSET W |-> IF s = {} THEN 0 ELSE RollingIn(Pick(s)) + i[s \ {Pick(s)}]]
<1> DEFINE Solves(h) == h = [s \in SUBSET W |-> IF s = {} THEN 0 ELSE RollingIn(Pick(s)) + h[s \ {Pick(s)}]]
           sums == CHOOSE h : Solves(h)
           g == [p \in W |-> RollingIn(p)]
<1>1. Sum(RollingIn, W) = sums[W]
  BY DEF Sum, MapThenSumSet, MapThenFoldSet, Pick
<1>2. PICK h : ArePartialSums(h, W, g)
  <2> HIDE DEF g
  <2> QED BY PartialSums
<1>3. \A s \in SUBSET W : s # {} => g[Pick(s)] = RollingIn(Pick(s))
  BY DEF Pick
<1>4. Solves(h)
  <2> HIDE DEF g
  <2> QED BY <1>2, <1>3 DEF ArePartialSums
<1>5. Solves(sums)
  <2> HIDE DEF Solves
  <2> QED BY <1>4
<1> HIDE DEF sums
<1> QED BY <1>1, <1>5

\* Its outflows.
LEMMA RollingOutSums ==
  ASSUME NEW W, IsFiniteSet(W)
  PROVE  \E i : /\ Sum(RollingOut, W) = i[W]
                /\ i = [s \in SUBSET W |-> IF s = {} THEN 0 ELSE RollingOut(Pick(s)) + i[s \ {Pick(s)}]]
<1> DEFINE Solves(h) == h = [s \in SUBSET W |-> IF s = {} THEN 0 ELSE RollingOut(Pick(s)) + h[s \ {Pick(s)}]]
           sums == CHOOSE h : Solves(h)
           g == [p \in W |-> RollingOut(p)]
<1>1. Sum(RollingOut, W) = sums[W]
  BY DEF Sum, MapThenSumSet, MapThenFoldSet, Pick
<1>2. PICK h : ArePartialSums(h, W, g)
  <2> HIDE DEF g
  <2> QED BY PartialSums
<1>3. \A s \in SUBSET W : s # {} => g[Pick(s)] = RollingOut(Pick(s))
  BY DEF Pick
<1>4. Solves(h)
  <2> HIDE DEF g
  <2> QED BY <1>2, <1>3 DEF ArePartialSums
<1>5. Solves(sums)
  <2> HIDE DEF Solves
  <2> QED BY <1>4
<1> HIDE DEF sums
<1> QED BY <1>1, <1>5

\* What the analysis tab does not see of them.
LEMMA UnseenSums ==
  ASSUME NEW W, IsFiniteSet(W)
  PROVE  \E i : /\ Sum(Unseen, W) = i[W]
                /\ i = [s \in SUBSET W |-> IF s = {} THEN 0 ELSE Unseen(Pick(s)) + i[s \ {Pick(s)}]]
<1> DEFINE Solves(h) == h = [s \in SUBSET W |-> IF s = {} THEN 0 ELSE Unseen(Pick(s)) + h[s \ {Pick(s)}]]
           sums == CHOOSE h : Solves(h)
           g == [p \in W |-> Unseen(p)]
<1>1. Sum(Unseen, W) = sums[W]
  BY DEF Sum, MapThenSumSet, MapThenFoldSet, Pick
<1>2. PICK h : ArePartialSums(h, W, g)
  <2> HIDE DEF g
  <2> QED BY PartialSums
<1>3. \A s \in SUBSET W : s # {} => g[Pick(s)] = Unseen(Pick(s))
  BY DEF Pick
<1>4. Solves(h)
  <2> HIDE DEF g
  <2> QED BY <1>2, <1>3 DEF ArePartialSums
<1>5. Solves(sums)
  <2> HIDE DEF Solves
  <2> QED BY <1>4
<1> HIDE DEF sums
<1> QED BY <1>1, <1>5

\* Both columns of a row make its signed amount and its unseen part, so they do of any
\* finite set of rows.
LEMMA NetOfSums ==
  ASSUME NEW W, IsFiniteSet(W), \A p \in W : RowAgrees(p)
  PROVE  Sum(Signed, W) = Sum(RollingIn, W) - Sum(RollingOut, W) - Sum(Unseen, W)
<1>1. PICK net : /\ Sum(Signed, W) = net[W]
                   /\ net = [s \in SUBSET W |->
                        IF s = {} THEN 0 ELSE Signed(Pick(s)) + net[s \ {Pick(s)}]]
  BY SignedSums
<1>2. PICK in : /\ Sum(RollingIn, W) = in[W]
                  /\ in = [s \in SUBSET W |->
                       IF s = {} THEN 0 ELSE RollingIn(Pick(s)) + in[s \ {Pick(s)}]]
  BY RollingInSums
<1>3. PICK out : /\ Sum(RollingOut, W) = out[W]
                   /\ out = [s \in SUBSET W |->
                        IF s = {} THEN 0 ELSE RollingOut(Pick(s)) + out[s \ {Pick(s)}]]
  BY RollingOutSums
<1>9. PICK un : /\ Sum(Unseen, W) = un[W]
                  /\ un = [s \in SUBSET W |->
                       IF s = {} THEN 0 ELSE Unseen(Pick(s)) + un[s \ {Pick(s)}]]
  BY UnseenSums
<1> DEFINE Nets(s) == /\ net[s] \in Int /\ in[s] \in Int /\ out[s] \in Int /\ un[s] \in Int
                      /\ net[s] = in[s] - out[s] - un[s]
           N == {n \in Nat : \A s \in SUBSET W : Cardinality(s) = n => Nets(s)}
<1>4. \A s \in SUBSET W :
        /\ net[s] = IF s = {} THEN 0 ELSE Signed(Pick(s)) + net[s \ {Pick(s)}]
        /\ in[s] = IF s = {} THEN 0 ELSE RollingIn(Pick(s)) + in[s \ {Pick(s)}]
        /\ out[s] = IF s = {} THEN 0 ELSE RollingOut(Pick(s)) + out[s \ {Pick(s)}]
        /\ un[s] = IF s = {} THEN 0 ELSE Unseen(Pick(s)) + un[s \ {Pick(s)}]
  BY <1>1, <1>2, <1>3, <1>9
<1>size. \A s \in SUBSET W : Cardinality(s) \in Nat /\ (Cardinality(s) = 0 => s = {})
  BY Picked
<1>5. \A s \in SUBSET W : s # {} =>
        /\ Pick(s) \in W /\ s \ {Pick(s)} \in SUBSET W
        /\ Cardinality(s \ {Pick(s)}) = Cardinality(s) - 1
  BY Picked
<1>6. 0 \in N
  <2>1. net[{}] = 0 /\ in[{}] = 0 /\ out[{}] = 0 /\ un[{}] = 0
    BY <1>4
  <2>2. Nets({})
    BY <2>1
  <2> HIDE DEF Nets
  <2> QED BY <1>size, <2>2
<1>7. \A n \in Nat : n \in N => n + 1 \in N
  <2> SUFFICES ASSUME NEW n \in Nat, \A s \in SUBSET W : Cardinality(s) = n => Nets(s),
                      NEW s \in SUBSET W, Cardinality(s) = n + 1
               PROVE  Nets(s)
    <3> HIDE DEF Nets
    <3> QED OBVIOUS
  <2> DEFINE p == Pick(s)
             t == s \ {Pick(s)}
  <2>1. s # {}
    <3>1. Cardinality(s) # 0
      OBVIOUS
    <3> QED BY <3>1, FS_EmptySet
  <2>5. p \in W /\ t \in SUBSET W /\ Cardinality(t) = n
    BY <1>5, <2>1
  <2>2. Nets(t)
    BY <2>5
  <2>3. /\ net[s] = Signed(p) + net[t] /\ in[s] = RollingIn(p) + in[t]
        /\ out[s] = RollingOut(p) + out[t] /\ un[s] = Unseen(p) + un[t]
    BY <1>4, <2>1
  <2>4. /\ Signed(p) \in Int /\ RollingIn(p) \in Int /\ RollingOut(p) \in Int /\ Unseen(p) \in Int
        /\ Signed(p) = RollingIn(p) - RollingOut(p) - Unseen(p)
    BY <2>5 DEF RowAgrees
  <2> HIDE DEF p, t
  <2> QED BY <2>2, <2>3, <2>4
<1>8. Nets(W)
  <2> HIDE DEF Nets
  <2>1. Nat \subseteq N
    <3> HIDE DEF N
    <3> QED BY <1>6, <1>7, NaturalInduction
  <2> QED BY <1>size, <2>1
<1> QED BY <1>1, <1>2, <1>3, <1>8, <1>9

-----------------------------------------------------------------------------
(* What a step leaves alone.                                               *)

\* The invariant of the rows survives a step of a request that touches no row
\* and is not an upsert after it.
LEMMA RowsKept ==
  ASSUME Inv, NEW r \in Requests, UNCHANGED <<plans, nextId, doubled>>,
         \A s \in Requests : s # r => req'[s] = req[s],
         req'[r].op # "upsert"
  PROVE  RowsTyped' /\ RowsInv'
<1> USE DEF Inv, RowsInv
<1>1. RowsTyped'
  BY DEF Typed, RowsTyped
<1>2. OneRowPerWeek'
  BY DEF OneRowPerWeek
<1>3. FoundKept' /\ FoundGiven'
  BY DEF FoundKept, FoundGiven
<1>4. UpsertAlone'
  BY DEF UpsertAlone, UpsertOf, EmptyOf
<1> QED BY <1>1, <1>2, <1>3, <1>4

\* The invariant of the accounts survives a step of a request that is not an
\* update of a balance, before or after it.
LEMMA AccountsKept ==
  ASSUME Inv, NEW r \in Requests, UNCHANGED <<balance, log, muddled>>,
         \A s \in Requests : s # r => req'[s] = req[s],
         req[r].op \notin {"balance", "log"}, req'[r].op \notin {"balance", "log"}
  PROVE  AccountsTyped' /\ LogBounded' /\ AccountsInv'
<1> USE DEF Inv, AccountsInv
<1>1. AccountsTyped'
  BY DEF Typed, AccountsTyped
<1>2. LogBounded'
  <2>1. Updates' = Updates
    BY DEF Updates
  <2> QED BY <2>1 DEF Typed, LogBounded
<1>3. \A a : EntriesOf(a)' = EntriesOf(a)
  BY DEF EntriesOf
<1>4. \A s \in Requests : req'[s].op \in {"balance", "log"} => req'[s] = req[s]
  OBVIOUS
<1>5. AuditChain'
  <2> SUFFICES ASSUME NEW a \in DOMAIN balance \ muddled PROVE
        /\ \A i, j \in EntriesOf(a) :
             i < j /\ (\A k \in EntriesOf(a) : k <= i \/ j <= k) => log[i].new = log[j].old
        /\ \A i \in EntriesOf(a) :
             /\ \A k \in EntriesOf(a) : k <= i
             /\ \A s \in Requests : req'[s].op # "log" \/ req'[s].account # a
             => log[i].new = balance[a]
    BY <1>3 DEF AuditChain
  <2>1. (\A s \in Requests : req'[s].op # "log" \/ req'[s].account # a)
          => \A s \in Requests : req[s].op # "log" \/ req[s].account # a
    OBVIOUS
  <2> QED BY <2>1 DEF AuditChain
<1>6. OfAccounts'
  BY <1>4 DEF OfAccounts
<1>7. UpdateAlone'
  BY <1>4 DEF UpdateAlone, UpdateOf
<1>8. LastEntry'
  BY <1>3, <1>4 DEF LastEntry
<1> QED BY <1>1, <1>2, <1>5, <1>6, <1>7, <1>8

-----------------------------------------------------------------------------
(* Requests that touch rows.                                               *)

LEMMA Idles == Idle \in RequestState /\ Idle.op = "none"
  BY DEF Idle, RequestState

\* The runway of a row fits its column or not.
LEMMA FitsBoolean == \A out : RunwayFits(out) \in BOOLEAN
  BY DEF RunwayFits, RunwayWeeks, NoRunway

LEMMA BeginEntryStep ==
  ASSUME Inv, NEW r \in Requests, NEW d \in Dates, NEW dir \in {"IN", "OUT"},
         NEW x \in Amounts, BeginEntry(r, d, dir, x)
  PROVE  Inv'
<1> DEFINE new == [op |-> "entry", date |-> d, dir |-> dir, amount |-> x,
                   fits |-> dir = "IN" \/ RunwayFits(x)]
<1>1. (dir = "IN" \/ RunwayFits(x)) \in BOOLEAN
  BY FitsBoolean
<1>2. new \in RequestState /\ new.op = "entry"
  BY <1>1, CashFlowAssumption DEF RequestState
<1>3. req' = [req EXCEPT ![r] = new]
  BY DEF BeginEntry
<1> HIDE DEF new
<1>4. req[r].op = "none" /\ req \in [Requests -> RequestState]
  BY Idles DEF BeginEntry, Inv, Typed
<1>5. req' \in [Requests -> RequestState] /\ req'[r] = new
        /\ \A s \in Requests : s # r => req'[s] = req[s]
  BY <1>2, <1>3, <1>4
<1>6. RowsTyped' /\ RowsInv'
  BY <1>2, <1>5, RowsKept DEF BeginEntry, history
<1>7. AccountsTyped' /\ LogBounded' /\ AccountsInv'
  BY <1>2, <1>4, <1>5, AccountsKept DEF BeginEntry, history
<1> QED BY <1>5, <1>6, <1>7 DEF Inv, Typed

LEMMA BeginDeleteStep ==
  ASSUME Inv, NEW r \in Requests, NEW p \in plans, BeginDelete(r, p)
  PROVE  Inv'
<1> DEFINE new == [op |-> "delete", id |-> p.id]
<1>1. new \in RequestState /\ new.op = "delete"
  BY DEF RequestState, Inv, Typed, RowsTyped
<1>2. req' = [req EXCEPT ![r] = new]
  BY DEF BeginDelete
<1> HIDE DEF new
<1>3. req[r].op = "none" /\ req \in [Requests -> RequestState]
  BY Idles DEF BeginDelete, Inv, Typed
<1>4. req' \in [Requests -> RequestState] /\ req'[r] = new
        /\ \A s \in Requests : s # r => req'[s] = req[s]
  BY <1>1, <1>2, <1>3
<1>5. RowsTyped' /\ RowsInv'
  BY <1>1, <1>4, RowsKept DEF BeginDelete, history
<1>6. AccountsTyped' /\ LogBounded' /\ AccountsInv'
  BY <1>1, <1>3, <1>4, AccountsKept DEF BeginDelete, history
<1> QED BY <1>4, <1>5, <1>6 DEF Inv, Typed

\* A request that touches rows ends: the accounts are as before.
LEMMA RowRequestEnds ==
  ASSUME Inv, NEW r \in Requests, req[r].op \in {"entry", "upsert", "delete"},
         req' = [req EXCEPT ![r] = Idle], UNCHANGED <<balance, log, muddled>>
  PROVE  /\ req' \in [Requests -> RequestState] /\ req'[r].op = "none"
         /\ \A s \in Requests : s # r => req'[s] = req[s]
         /\ AccountsTyped' /\ LogBounded' /\ AccountsInv'
<1>1. req \in [Requests -> RequestState]
  BY DEF Inv, Typed
<1>2. req' \in [Requests -> RequestState] /\ req'[r].op = "none"
        /\ \A s \in Requests : s # r => req'[s] = req[s]
  BY <1>1, Idles
<1>3. req[r].op \notin {"balance", "log"} /\ req'[r].op \notin {"balance", "log"}
  BY <1>2
<1> QED BY <1>2, <1>3, AccountsKept

LEMMA DeleteRowStep ==
  ASSUME Inv, NEW r \in Requests, DeleteRow(r)
  PROVE  Inv'
<1> USE DEF DeleteRow, history
<1>1. req' \in [Requests -> RequestState] /\ req'[r].op = "none"
        /\ (\A s \in Requests : s # r => req'[s] = req[s])
        /\ AccountsTyped' /\ LogBounded' /\ AccountsInv'
  BY RowRequestEnds
<1>2. plans' \subseteq plans /\ UNCHANGED <<nextId, doubled>>
  OBVIOUS
<1> HIDE DEF DeleteRow, history
<1> USE DEF Inv, RowsInv
<1>3. RowsTyped'
  BY <1>2, FS_Subset DEF Typed, RowsTyped
<1>4. OneRowPerWeek'
  BY <1>2 DEF OneRowPerWeek
<1>5. FoundKept' /\ FoundGiven'
  BY <1>1, <1>2 DEF FoundKept, FoundGiven
<1>6. UpsertAlone'
  BY <1>1, <1>2 DEF UpsertAlone, UpsertOf, EmptyOf
<1> QED BY <1>1, <1>3, <1>4, <1>5, <1>6 DEF Typed

\* A week is in the plan, whatever the date.
LEMMA WeekOfRange == \A date \in Int : WeekOf(date) \in 1 .. 13
  BY DEF WeekOf, Horizon, Min2, Max2

\* What an inserted row is, as far as the invariant goes.
LEMMA EntryFields ==
  ASSUME NEW id, NEW date \in Int, NEW dir \in {"IN", "OUT"}, NEW amount
  PROVE  LET row == EntryRow(id, date, dir, amount)
         IN  /\ row.id = id /\ row.week \in 1 .. 52 /\ row.direction \in {"IN", "OUT"}
             /\ row.flow = "ENTRY"
<1>1. WeekOf(date) \in 1 .. 52
  BY WeekOfRange
<1> QED BY <1>1 DEF EntryRow, Row

LEMMA WeekFields ==
  ASSUME NEW id, NEW week, NEW in, NEW out
  PROVE  LET row == WeekRow(id, week, in, out)
         IN  /\ row.id = id /\ row.week = week /\ row.direction \in {"IN", "OUT"}
             /\ row.flow = "LEGACY"
             /\ \A w : LET kept == [row EXCEPT !.week = w]
                     IN  /\ kept.id = id /\ kept.week = w
                         /\ kept.direction \in {"IN", "OUT"} /\ kept.flow = "LEGACY"
  BY DEF WeekRow, Row

LEMMA InsertEntryStep ==
  ASSUME Inv, NEW r \in Requests, InsertEntry(r)
  PROVE  Inv'
<1> DEFINE row == EntryRow(nextId, req[r].date, req[r].dir, req[r].amount)
<1>1. /\ req' \in [Requests -> RequestState] /\ req'[r].op = "none"
      /\ \A s \in Requests : s # r => req'[s] = req[s]
      /\ AccountsTyped' /\ LogBounded' /\ AccountsInv'
  BY RowRequestEnds DEF InsertEntry
<1>2. req[r].date \in Int /\ req[r].dir \in {"IN", "OUT"}
  BY DEF InsertEntry, Inv, Typed, RequestState, Idle
<1>3. row.id = nextId /\ row.week \in 1 .. 52 /\ row.direction \in {"IN", "OUT"}
        /\ row.flow = "ENTRY"
  BY <1>2, EntryFields
<1>4. nextId <= MaxRows /\ doubled' = doubled
        /\ \/ plans' = plans \cup {row} /\ nextId' = nextId + 1
           \/ UNCHANGED <<plans, nextId>>
  BY DEF InsertEntry, Insert
<1>5. CASE UNCHANGED <<plans, nextId>>
  BY <1>1, <1>4, <1>5, RowsKept DEF Inv, Typed
<1>6. CASE plans' = plans \cup {row} /\ nextId' = nextId + 1
  <2> HIDE DEF row
  <2> USE DEF Inv, RowsInv
  <2>1. RowsTyped'
    <3>1. IsFiniteSet(plans')
      BY <1>6, FS_AddElement DEF Typed, RowsTyped
    <3>2. \A p \in plans : p.id # nextId
      BY DEF Typed, RowsTyped
    <3> QED BY <1>3, <1>4, <1>6, <3>1, <3>2, CashFlowAssumption DEF Typed, RowsTyped
  <2>2. OneRowPerWeek'
    BY <1>3, <1>4, <1>6 DEF OneRowPerWeek
  <2>3. \A s \in Requests : req[s].op = "upsert" => req[s].found # nextId /\ req[s].found < nextId
    BY DEF FoundGiven, Typed, RowsTyped, RequestState, Idle
  <2>4. FoundKept'
    BY <1>1, <1>3, <1>6, <2>3 DEF FoundKept
  <2>5. FoundGiven'
    BY <1>1, <1>6, <2>3 DEF FoundGiven, Typed, RowsTyped, RequestState, Idle
  <2>6. UpsertAlone'
    BY <1>1, <1>3, <1>4, <1>6, <2>3 DEF UpsertAlone, UpsertOf, EmptyOf
  <2> QED BY <1>1, <2>1, <2>2, <2>4, <2>5, <2>6 DEF Typed
<1> QED BY <1>4, <1>5, <1>6

\* An upsert that begins: alone on its week, or its week is doubled from now on.
LEMMA BeginUpsertStep ==
  ASSUME Inv, NEW r \in Requests, NEW week \in LegacyWeeks, NEW in \in Amounts,
         NEW out \in Amounts, BeginUpsert(r, week, in, out)
  PROVE  Inv'
<1>1. PICK found \in IF Matches(week) = {} THEN {0} ELSE {p.id : p \in Matches(week)} :
        req' = [req EXCEPT ![r] = [op |-> "upsert", week |-> week, in |-> in, out |-> out,
                                   fits |-> RunwayFits(out), found |-> found]]
  BY DEF BeginUpsert
<1> DEFINE new == [op |-> "upsert", week |-> week, in |-> in, out |-> out,
                   fits |-> RunwayFits(out), found |-> found]
<1>2. found \in Nat /\ found < nextId
        /\ (found = 0 => Matches(week) = {})
        /\ (\A p \in plans : p.id = found => p.week = week)
  BY DEF Matches, Inv, Typed, RowsTyped
<1>3. new \in RequestState /\ new.op = "upsert" /\ new.week = week /\ new.found = found
  BY <1>2, FitsBoolean, CashFlowAssumption DEF RequestState
<1>4. req[r].op = "none" /\ req \in [Requests -> RequestState]
  BY Idles DEF BeginUpsert, Inv, Typed
<1> HIDE DEF new
<1>5. req' \in [Requests -> RequestState] /\ req'[r] = new
        /\ \A s \in Requests : s # r => req'[s] = req[s]
  BY <1>1, <1>3, <1>4 DEF new
<1>6. UNCHANGED <<plans, balance, log, nextId, muddled>>
  BY DEF BeginUpsert
<1>7. /\ doubled \subseteq doubled' /\ doubled' \subseteq doubled \cup {week}
      /\ week \notin doubled'
           => /\ found = 0 => \A s \in Requests : ~EmptyOf(s, week)
              /\ \A p \in plans : p.id = found => p.flow # "ENTRY"
  <2>1. req'[r].found = found
    BY <1>3, <1>5
  <2> QED BY <2>1 DEF BeginUpsert, DoublesUp, UpsertOf, EmptyOf
<1>8. AccountsTyped' /\ LogBounded' /\ AccountsInv'
  BY <1>3, <1>4, <1>5, <1>6, AccountsKept
<1> USE DEF Inv, RowsInv
<1>9. RowsTyped'
  BY <1>6, <1>7 DEF Typed, RowsTyped
<1>10. OneRowPerWeek'
  BY <1>6, <1>7 DEF OneRowPerWeek
<1>11. FoundKept' /\ FoundGiven'
  BY <1>2, <1>3, <1>5, <1>6 DEF FoundKept, FoundGiven
<1>12. UpsertAlone'
  <2> SUFFICES ASSUME NEW s \in Requests, NEW w \in LegacyWeeks, w \notin doubled', UpsertOf(s, w)'
               PROVE  /\ \A t \in Requests : EmptyOf(s, w)' /\ EmptyOf(t, w)' => t = s
                      /\ \A p \in plans :
                           /\ p.id = req'[s].found => p.flow = "LEGACY"
                           /\ req'[s].found = 0 /\ p.week = w => p.flow # "LEGACY"
    BY <1>6 DEF UpsertAlone
  <2>1. CASE s = r
    <3>1. w = week
      BY <1>3, <1>5, <2>1 DEF UpsertOf
    <3>2. \A t \in Requests : EmptyOf(s, w)' /\ EmptyOf(t, w)' => t = s
      BY <1>3, <1>5, <1>7, <2>1, <3>1 DEF UpsertOf, EmptyOf
    <3>3. \A p \in plans : p.id = found => p.flow = "LEGACY"
      BY <1>2, <1>7, <3>1 DEF Typed, RowsTyped
    <3>4. found = 0 => \A p \in plans : p.week # w
      BY <1>2, <3>1 DEF Matches
    <3> QED BY <1>3, <1>5, <2>1, <3>2, <3>3, <3>4
  <2>2. CASE s # r
    <3>1. UpsertOf(s, w) /\ req'[s] = req[s]
      BY <1>5, <2>2 DEF UpsertOf
    <3>2. \A p \in plans : /\ p.id = req'[s].found => p.flow = "LEGACY"
                           /\ req'[s].found = 0 /\ p.week = w => p.flow # "LEGACY"
      BY <1>7, <3>1 DEF UpsertAlone
    <3>3. \A t \in Requests \ {r} : EmptyOf(s, w)' /\ EmptyOf(t, w)' => t = s
      BY <1>5, <1>7, <3>1 DEF UpsertAlone, UpsertOf, EmptyOf
    <3>4. EmptyOf(s, w)' /\ EmptyOf(r, w)' => FALSE
      <4> SUFFICES ASSUME EmptyOf(s, w)', EmptyOf(r, w)' PROVE FALSE
        OBVIOUS
      <4>1. w = week /\ found = 0
        BY <1>3, <1>5 DEF UpsertOf, EmptyOf
      <4>2. EmptyOf(s, w)
        BY <3>1 DEF UpsertOf, EmptyOf
      <4> QED BY <1>7, <4>1, <4>2
    <3>5. \A t \in Requests : EmptyOf(s, w)' /\ EmptyOf(t, w)' => t = s
      <4> SUFFICES ASSUME NEW t \in Requests, EmptyOf(s, w)', EmptyOf(t, w)' PROVE t = s
        OBVIOUS
      <4> QED BY <3>3, <3>4
    <3> QED BY <3>2, <3>5
  <2> QED BY <2>1, <2>2
<1> QED BY <1>5, <1>8, <1>9, <1>10, <1>11, <1>12 DEF Typed

\* An upsert that found no row inserts one; one that found a row rewrites it
\* under the same id and week.
LEMMA WriteUpsertStep ==
  ASSUME Inv, NEW r \in Requests, WriteUpsert(r)
  PROVE  Inv'
<1> DEFINE week == req[r].week
           found == req[r].found
           row(id) == WeekRow(id, req[r].week, req[r].in, req[r].out)
           old == {p \in plans : p.id = req[r].found}
<1>1. req[r].op = "upsert" /\ week \in LegacyWeeks /\ found \in Nat /\ found < nextId
  BY DEF WriteUpsert, Inv, Typed, RequestState, Idle, RowsInv, FoundGiven
<1>2. /\ req' \in [Requests -> RequestState] /\ req'[r].op = "none"
      /\ \A s \in Requests : s # r => req'[s] = req[s]
      /\ AccountsTyped' /\ LogBounded' /\ AccountsInv'
  BY RowRequestEnds DEF WriteUpsert
<1>3. doubled' = doubled
        /\ \/ UNCHANGED <<plans, nextId>>
           \/ /\ found = 0 /\ nextId <= MaxRows
              /\ plans' = plans \cup {row(nextId)} /\ nextId' = nextId + 1
           \/ /\ found # 0 /\ nextId' = nextId
              /\ plans' = (plans \ old) \cup {[row(p.id) EXCEPT !.week = p.week] : p \in old}
  BY DEF WriteUpsert, Insert
<1>4. \A id : row(id).id = id /\ row(id).week = week /\ row(id).direction \in {"IN", "OUT"}
        /\ row(id).flow = "LEGACY"
  BY WeekFields
<1>5. \A s \in Requests : \A w : UpsertOf(s, w)' => s # r /\ UpsertOf(s, w)
  BY <1>2 DEF UpsertOf
<1>6. \A s \in Requests \ {r} : req'[s].op = "upsert" => req[s].op = "upsert" /\ req'[s] = req[s]
  BY <1>2
<1>7. CASE UNCHANGED <<plans, nextId>>
  BY <1>2, <1>3, <1>7, RowsKept DEF Inv, Typed
<1>8. CASE /\ found = 0 /\ nextId <= MaxRows
           /\ plans' = plans \cup {row(nextId)} /\ nextId' = nextId + 1
  <2> DEFINE new == row(nextId)
  <2>1. new.id = nextId /\ new.week = week /\ new.direction \in {"IN", "OUT"}
          /\ new.flow = "LEGACY" /\ plans' = plans \cup {new}
    BY <1>4, <1>8
  <2> HIDE DEF new, row
  <2>2. week \notin doubled => \A p \in plans : p.week = week => p.flow # "LEGACY"
    BY <1>1, <1>8 DEF Inv, RowsInv, UpsertAlone, UpsertOf, EmptyOf
  <2> USE DEF Inv, RowsInv
  <2>3. RowsTyped'
    <3>1. IsFiniteSet(plans')
      BY <2>1, FS_AddElement DEF Typed, RowsTyped
    <3>2. \A p \in plans : p.id # nextId
      BY DEF Typed, RowsTyped
    <3> QED BY <1>1, <1>3, <1>8, <2>1, <3>1, <3>2, CashFlowAssumption DEF Typed, RowsTyped
  <2>4. OneRowPerWeek'
    BY <1>3, <2>1, <2>2 DEF OneRowPerWeek
  <2>5. \A s \in Requests : req[s].op = "upsert" => req[s].found # nextId /\ req[s].found < nextId
    BY DEF FoundGiven, Typed, RowsTyped, RequestState, Idle
  <2>6. FoundKept'
    BY <1>2, <2>1, <2>5 DEF FoundKept
  <2>7. FoundGiven'
    BY <1>2, <1>8, <2>5 DEF FoundGiven, Typed, RowsTyped, RequestState, Idle
  <2>8. UpsertAlone'
    <3> SUFFICES ASSUME NEW s \in Requests, NEW w \in LegacyWeeks \ doubled, UpsertOf(s, w)'
                 PROVE  /\ \A t \in Requests : EmptyOf(s, w)' /\ EmptyOf(t, w)' => t = s
                        /\ \A p \in plans' :
                             /\ p.id = req'[s].found => p.flow = "LEGACY"
                             /\ req'[s].found = 0 /\ p.week = w => p.flow # "LEGACY"
      BY <1>3 DEF UpsertAlone
    <3>1. s # r /\ UpsertOf(s, w) /\ req'[s] = req[s]
      BY <1>2, <1>5
    <3>2. \A t \in Requests : EmptyOf(t, w)' => EmptyOf(t, w)
      BY <1>2, <1>5 DEF EmptyOf
    <3>3. \A t \in Requests : EmptyOf(s, w)' /\ EmptyOf(t, w)' => t = s
      BY <3>1, <3>2 DEF UpsertAlone
    <3>4. EmptyOf(s, w) => w # week
      <4>1. EmptyOf(r, week) /\ UpsertOf(r, week)
        BY <1>1, <1>8 DEF UpsertOf, EmptyOf
      <4> QED BY <1>1, <3>1, <4>1 DEF UpsertAlone
    <3>5. req[s].found # nextId
      BY <2>5, <3>1 DEF UpsertOf
    <3> QED BY <2>1, <3>1, <3>3, <3>4, <3>5 DEF UpsertAlone, EmptyOf
  <2> QED BY <1>2, <2>3, <2>4, <2>6, <2>7, <2>8 DEF Typed
<1>9. CASE /\ found # 0 /\ nextId' = nextId
           /\ plans' = (plans \ old) \cup {[row(p.id) EXCEPT !.week = p.week] : p \in old}
  <2> USE DEF Inv, RowsInv
  <2>1. \A q \in plans' : \/ q \in plans /\ q.id # found
                          \/ /\ q.id = found /\ q.week = week /\ q.flow = "LEGACY"
                             /\ q.direction \in {"IN", "OUT"}
                             /\ \E p \in plans : p.id = found
    <3> SUFFICES ASSUME NEW p \in old
                 PROVE  LET q == [row(p.id) EXCEPT !.week = p.week]
                        IN  /\ q.id = found /\ q.week = week /\ q.flow = "LEGACY"
                            /\ q.direction \in {"IN", "OUT"}
      BY <1>9
    <3>1. p \in plans /\ p.id = found /\ p.week = week
      BY <1>1 DEF FoundKept
    <3> QED BY <3>1, WeekFields
  <2>2. \A q1, q2 \in plans' : q1.id = found /\ q2.id = found => q1 = q2
    <3>1. \A p1, p2 \in old : p1 = p2
      BY DEF Typed, RowsTyped
    <3>2. \A q \in plans' : q.id = found => \E p \in old : q = [row(p.id) EXCEPT !.week = p.week]
      BY <1>9
    <3> HIDE DEF old, row
    <3> QED BY <3>1, <3>2
  <2>3. RowsTyped'
    <3>1. IsFiniteSet(plans')
      <4>1. IsFiniteSet(plans) /\ old \subseteq plans
        BY DEF Typed, RowsTyped
      <4>2. IsFiniteSet(old) /\ IsFiniteSet(plans \ old)
        BY <4>1, FS_Subset, FS_Difference
      <4>3. IsFiniteSet({[row(p.id) EXCEPT !.week = p.week] : p \in old})
        <5> HIDE DEF old, row
        <5> DEFINE f == [p \in old |-> [row(p.id) EXCEPT !.week = p.week]]
                   T == {[row(p.id) EXCEPT !.week = p.week] : p \in old}
        <5>1. f \in Surjection(old, T)
          BY DEF Surjection
        <5> QED BY <4>2, <5>1, FS_Surjection
      <4> QED BY <1>9, <4>2, <4>3, FS_Union
    <3>2. \A p \in plans : p.id = found => p.week = week /\ p.week \in 1 .. 52 /\ p.id \in 1 .. MaxRows
      BY <1>1 DEF FoundKept, Typed, RowsTyped
    <3> QED BY <1>3, <1>9, <2>1, <2>2, <3>1, <3>2 DEF Typed, RowsTyped
  <2>4. \A p \in plans : p.id = found /\ week \notin doubled => p.flow = "LEGACY" /\ p.week = week
    BY <1>1 DEF UpsertAlone, UpsertOf, EmptyOf, FoundKept
  <2>5. OneRowPerWeek'
    <3> SUFFICES ASSUME NEW p \in plans', NEW q \in plans', p.flow = "LEGACY", q.flow = "LEGACY",
                        p.week = q.week, p.week \notin doubled
                 PROVE  p = q
      BY <1>3 DEF OneRowPerWeek
    <3>1. CASE p.id = found /\ q.id = found
      BY <2>2, <3>1
    <3>2. CASE p.id = found /\ q.id # found
      BY <2>1, <2>4, <3>2 DEF OneRowPerWeek
    <3>3. CASE p.id # found /\ q.id = found
      BY <2>1, <2>4, <3>3 DEF OneRowPerWeek
    <3>4. CASE p.id # found /\ q.id # found
      BY <2>1, <3>4 DEF OneRowPerWeek
    <3> QED BY <3>1, <3>2, <3>3, <3>4
  <2>6. FoundKept'
    BY <1>1, <1>2, <2>1 DEF FoundKept
  <2>7. FoundGiven'
    BY <1>2, <1>9 DEF FoundGiven
  <2>8. UpsertAlone'
    <3> SUFFICES ASSUME NEW s \in Requests, NEW w \in LegacyWeeks \ doubled, UpsertOf(s, w)'
                 PROVE  /\ \A t \in Requests : EmptyOf(s, w)' /\ EmptyOf(t, w)' => t = s
                        /\ \A p \in plans' :
                             /\ p.id = req'[s].found => p.flow = "LEGACY"
                             /\ req'[s].found = 0 /\ p.week = w => p.flow # "LEGACY"
      BY <1>3 DEF UpsertAlone
    <3>1. s # r /\ UpsertOf(s, w) /\ req'[s] = req[s]
      BY <1>2, <1>5
    <3>2. \A t \in Requests : EmptyOf(t, w)' => EmptyOf(t, w)
      BY <1>2, <1>5 DEF EmptyOf
    <3>3. \A t \in Requests : EmptyOf(s, w)' /\ EmptyOf(t, w)' => t = s
      BY <3>1, <3>2 DEF UpsertAlone
    <3>4. \A p \in plans : p.id = found /\ EmptyOf(s, w) => p.week # w
      <4> SUFFICES ASSUME NEW p \in plans, p.id = found, EmptyOf(s, w), p.week = w PROVE FALSE
        OBVIOUS
      <4>1. p.flow # "LEGACY"
        BY <3>1 DEF UpsertAlone, EmptyOf
      <4>2. p.week = week
        BY <1>1 DEF FoundKept
      <4> HIDE DEF week, found
      <4> QED BY <2>4, <4>1, <4>2
    <3>6. ASSUME NEW q \in plans' PROVE /\ q.id = req[s].found => q.flow = "LEGACY"
                                        /\ req[s].found = 0 /\ q.week = w => q.flow # "LEGACY"
      <4>1. CASE q \in plans
        BY <3>1, <4>1 DEF UpsertAlone
      <4>2. CASE q \notin plans
        <5>1. /\ q.id = found /\ q.week = week /\ q.flow = "LEGACY"
              /\ \E p \in plans : p.id = found /\ p.week = week
          BY <1>1, <2>1, <4>2 DEF FoundKept
        <5>2. EmptyOf(s, w) <=> req[s].found = 0
          BY <3>1 DEF EmptyOf
        <5> QED BY <3>4, <5>1, <5>2
      <4> QED BY <4>1, <4>2
    <3> QED BY <3>1, <3>3, <3>6
  <2> QED BY <1>2, <2>3, <2>5, <2>6, <2>7, <2>8 DEF Typed
<1> QED BY <1>3, <1>7, <1>8, <1>9

-----------------------------------------------------------------------------
(* Bank accounts.                                                          *)

LEMMA CreateAccountStep ==
  ASSUME Inv, NEW a \in Accounts, NEW x \in Balances, CreateAccount(a, x)
  PROVE  Inv'
<1>1. UNCHANGED <<plans, log, req, nextId, doubled, muddled>> /\ a \notin DOMAIN balance
  BY DEF CreateAccount, history
<1>2. /\ DOMAIN balance' = DOMAIN balance \cup {a}
      /\ balance'[a] = x /\ \A b \in DOMAIN balance : balance'[b] = balance[b]
      /\ balance' \in [DOMAIN balance' -> Int]
  BY <1>1, CashFlowAssumption DEF CreateAccount, Inv, Typed, AccountsTyped
<1>3. RowsTyped' /\ RowsInv' /\ LogBounded'
  BY <1>1 DEF Inv, Typed, RowsInv, RowsTyped, OneRowPerWeek, FoundKept, FoundGiven,
              UpsertAlone, UpsertOf, EmptyOf, LogBounded, Updates
<1> USE DEF Inv, AccountsInv
<1>4. AccountsTyped'
  BY <1>1, <1>2 DEF Typed, AccountsTyped
<1>5. \A b : EntriesOf(b)' = EntriesOf(b)
  BY <1>1 DEF EntriesOf
<1>6. EntriesOf(a) = {} /\ \A s \in Requests : ~UpdateOf(s, a)
  BY <1>1 DEF OfAccounts, EntriesOf, UpdateOf
<1>7. OfAccounts'
  BY <1>1, <1>2 DEF OfAccounts
<1>8. AuditChain'
  <2> SUFFICES ASSUME NEW b \in DOMAIN balance' \ muddled PROVE
        /\ \A i, j \in EntriesOf(b) :
             i < j /\ (\A k \in EntriesOf(b) : k <= i \/ j <= k) => log[i].new = log[j].old
        /\ \A i \in EntriesOf(b) :
             /\ \A k \in EntriesOf(b) : k <= i
             /\ \A s \in Requests : req[s].op # "log" \/ req[s].account # b
             => log[i].new = balance'[b]
    BY <1>1, <1>5 DEF AuditChain
  <2>1. CASE b = a
    BY <1>6, <2>1
  <2>2. CASE b # a
    BY <1>2, <2>2 DEF AuditChain
  <2> QED BY <2>1, <2>2
<1>9. UpdateAlone'
  BY <1>1, <1>2, <1>6 DEF UpdateAlone, UpdateOf
<1>10. LastEntry'
  BY <1>1, <1>2, <1>5, <1>6 DEF LastEntry
<1> QED BY <1>1, <1>3, <1>4, <1>7, <1>8, <1>9, <1>10 DEF Typed

\* A request reads the balance it is going to replace: alone on its account, or
\* the account is muddled from now on.
LEMMA BeginBalanceStep ==
  ASSUME Inv, NEW r \in Requests, NEW a \in Accounts, NEW x \in Balances,
         BeginBalance(r, a, x)
  PROVE  Inv'
<1> DEFINE new == [op |-> "balance", account |-> a, old |-> balance[a], new |-> x]
<1>1. a \in DOMAIN balance /\ UNCHANGED <<plans, balance, log, nextId, doubled>>
  BY DEF BeginBalance
<1>2. /\ new \in RequestState /\ new.op = "balance" /\ new.account = a
      /\ new.old = balance[a]
  BY <1>1, CashFlowAssumption DEF RequestState, Inv, Typed, AccountsTyped
<1>3. req' = [req EXCEPT ![r] = new]
  BY DEF BeginBalance
<1> HIDE DEF new
<1>4. req[r].op = "none" /\ req \in [Requests -> RequestState]
  BY Idles DEF BeginBalance, Inv, Typed
<1>5. req' \in [Requests -> RequestState] /\ req'[r] = new
        /\ \A s \in Requests : s # r => req'[s] = req[s]
  BY <1>2, <1>3, <1>4
<1>6. /\ muddled \subseteq muddled' /\ muddled' \subseteq muddled \cup {a}
      /\ a \notin muddled' => \A s \in Requests : ~UpdateOf(s, a)
  BY DEF BeginBalance, UpdateOf
<1>7. RowsTyped' /\ RowsInv'
  BY <1>1, <1>2, <1>5, RowsKept
<1> USE DEF Inv, AccountsInv
<1>8. AccountsTyped'
  BY <1>1, <1>6 DEF Typed, AccountsTyped
<1>9. LogBounded'
  <2>1. Updates' = Updates \cup {r} /\ r \notin Updates
    BY <1>2, <1>4, <1>5 DEF Updates
  <2>2. IsFiniteSet(Updates)
    BY CashFlowAssumption, FS_Subset DEF Updates
  <2>3. Cardinality(Updates') = Cardinality(Updates) + 1
    BY <2>1, <2>2, FS_AddElement
  <2>4. Len(log) + Cardinality(Updates) < MaxLog
    BY DEF BeginBalance, Updates
  <2>5. Len(log) \in Nat /\ Cardinality(Updates) \in Nat /\ MaxLog \in Nat
    BY <2>2, FS_CardinalityType, CashFlowAssumption DEF Typed, AccountsTyped
  <2> QED BY <1>1, <2>3, <2>4, <2>5 DEF LogBounded
<1>10. \A b : EntriesOf(b)' = EntriesOf(b)
  BY <1>1 DEF EntriesOf
<1>11. OfAccounts'
  BY <1>1, <1>2, <1>5 DEF OfAccounts
<1>12. AuditChain'
  <2> SUFFICES ASSUME NEW b \in DOMAIN balance \ muddled' PROVE
        /\ \A i, j \in EntriesOf(b) :
             i < j /\ (\A k \in EntriesOf(b) : k <= i \/ j <= k) => log[i].new = log[j].old
        /\ \A i \in EntriesOf(b) :
             /\ \A k \in EntriesOf(b) : k <= i
             /\ \A s \in Requests : req'[s].op # "log" \/ req'[s].account # b
             => log[i].new = balance[b]
    BY <1>1, <1>10 DEF AuditChain
  <2>1. (\A s \in Requests : req'[s].op # "log" \/ req'[s].account # b)
          => \A s \in Requests : req[s].op # "log" \/ req[s].account # b
    BY <1>4, <1>5
  <2> QED BY <1>6, <2>1 DEF AuditChain
<1>13. UpdateAlone'
  <2> SUFFICES ASSUME NEW s \in Requests, NEW b \in DOMAIN balance \ muddled', UpdateOf(s, b)'
               PROVE  /\ \A t \in Requests : UpdateOf(t, b)' => t = s
                      /\ req'[s].op = "balance" => req'[s].old = balance[b]
                      /\ req'[s].op = "log" => req'[s].new = balance[b]
    BY <1>1 DEF UpdateAlone
  <2>1. CASE s = r
    BY <1>2, <1>5, <1>6, <2>1 DEF UpdateOf
  <2>2. CASE s # r
    <3>1. UpdateOf(s, b) /\ req'[s] = req[s]
      BY <1>5, <2>2 DEF UpdateOf
    <3>2. b # a
      BY <1>6, <3>1
    <3>3. \A t \in Requests : UpdateOf(t, b)' => UpdateOf(t, b)
      BY <1>2, <1>5, <3>2 DEF UpdateOf
    <3> QED BY <1>6, <3>1, <3>3 DEF UpdateAlone
  <2> QED BY <2>1, <2>2
<1>14. LastEntry'
  BY <1>1, <1>2, <1>5, <1>6, <1>10 DEF LastEntry
<1> QED BY <1>5, <1>7, <1>8, <1>9, <1>11, <1>12, <1>13, <1>14 DEF Typed

\* The balance is replaced; what it was is in the request, and in the last audit
\* entry of the account.
LEMMA WriteBalanceStep ==
  ASSUME Inv, NEW r \in Requests, WriteBalance(r)
  PROVE  Inv'
<1> DEFINE a == req[r].account
<1>1. /\ req[r].op = "balance" /\ UNCHANGED <<plans, log, nextId, doubled, muddled>>
      /\ balance' = [balance EXCEPT ![a] = req[r].new]
      /\ req' = [req EXCEPT ![r].op = "log"]
  BY DEF WriteBalance, history
<1>2. req[r] \in [op : {"balance", "log"}, account : Accounts, old : Int, new : Int]
        /\ req \in [Requests -> RequestState]
  BY <1>1 DEF Inv, Typed, RequestState, Idle
<1>3. /\ req' \in [Requests -> RequestState]
      /\ req'[r].op = "log" /\ req'[r].account = a /\ req'[r].new = req[r].new
      /\ req'[r].old = req[r].old
      /\ \A s \in Requests : s # r => req'[s] = req[s]
  <2> DEFINE new == [req[r] EXCEPT !.op = "log"]
  <2>1. new \in [op : {"balance", "log"}, account : Accounts, old : Int, new : Int]
          /\ new.op = "log" /\ new.account = a /\ new.new = req[r].new /\ new.old = req[r].old
    BY <1>2
  <2>2. req' = [req EXCEPT ![r] = new]
    BY <1>1
  <2> HIDE DEF new
  <2>3. new \in RequestState
    BY <2>1 DEF RequestState
  <2> QED BY <1>2, <2>1, <2>2, <2>3
<1>4. a \in DOMAIN balance /\ a \in Accounts
  BY <1>1, <1>2 DEF Inv, AccountsInv, OfAccounts
<1>5. /\ DOMAIN balance' = DOMAIN balance /\ balance'[a] = req[r].new
      /\ \A b \in DOMAIN balance : b # a => balance'[b] = balance[b]
      /\ balance' \in [DOMAIN balance' -> Int]
  BY <1>1, <1>2, <1>4 DEF Inv, Typed, AccountsTyped
<1>6. RowsTyped' /\ RowsInv'
  BY <1>1, <1>3, RowsKept
<1>7. a \notin muddled => /\ \A s \in Requests : UpdateOf(s, a) => s = r
                         /\ req[r].old = balance[a]
  BY <1>1, <1>4 DEF Inv, AccountsInv, UpdateAlone, UpdateOf
<1> USE DEF Inv, AccountsInv
<1>8. AccountsTyped'
  BY <1>1, <1>5 DEF Typed, AccountsTyped
<1>9. LogBounded'
  <2>1. Updates' = Updates
    BY <1>1, <1>3 DEF Updates
  <2> QED BY <1>1, <2>1 DEF Typed, LogBounded
<1>10. \A b : EntriesOf(b)' = EntriesOf(b)
  BY <1>1 DEF EntriesOf
<1>11. OfAccounts'
  BY <1>1, <1>3, <1>4, <1>5 DEF OfAccounts
<1>12. AuditChain'
  <2> SUFFICES ASSUME NEW b \in DOMAIN balance \ muddled PROVE
        /\ \A i, j \in EntriesOf(b) :
             i < j /\ (\A k \in EntriesOf(b) : k <= i \/ j <= k) => log[i].new = log[j].old
        /\ \A i \in EntriesOf(b) :
             /\ \A k \in EntriesOf(b) : k <= i
             /\ \A s \in Requests : req'[s].op # "log" \/ req'[s].account # b
             => log[i].new = balance'[b]
    BY <1>1, <1>5, <1>10 DEF AuditChain
  <2>1. CASE b = a
    BY <1>3, <2>1 DEF AuditChain
  <2>2. CASE b # a
    <3>1. (\A s \in Requests : req'[s].op # "log" \/ req'[s].account # b)
            => \A s \in Requests : req[s].op # "log" \/ req[s].account # b
      BY <1>1, <1>3
    <3> QED BY <1>5, <2>2, <3>1 DEF AuditChain
  <2> QED BY <2>1, <2>2
<1>13. UpdateAlone'
  <2> SUFFICES ASSUME NEW s \in Requests, NEW b \in DOMAIN balance \ muddled, UpdateOf(s, b)'
               PROVE  /\ \A t \in Requests : UpdateOf(t, b)' => t = s
                      /\ req'[s].op = "balance" => req'[s].old = balance'[b]
                      /\ req'[s].op = "log" => req'[s].new = balance'[b]
    BY <1>1, <1>5 DEF UpdateAlone
  <2>1. \A t \in Requests : \A c : UpdateOf(t, c)' => UpdateOf(t, c)
    BY <1>1, <1>3 DEF UpdateOf
  <2>2. CASE b = a
    <3>1. s = r
      BY <1>7, <2>1, <2>2
    <3> QED BY <1>3, <1>5, <1>7, <2>1, <2>2, <3>1
  <2>3. CASE b # a
    <3>1. s # r
      BY <1>3, <2>3 DEF UpdateOf
    <3> QED BY <1>3, <1>5, <2>1, <2>3, <3>1 DEF UpdateAlone
  <2> QED BY <2>2, <2>3
<1>14. LastEntry'
  <2> SUFFICES ASSUME NEW s \in Requests, NEW b \in DOMAIN balance \ muddled, NEW i \in EntriesOf(b),
                      req'[s].op = "log", req'[s].account = b, \A k \in EntriesOf(b) : k <= i
               PROVE  log[i].new = req'[s].old
    BY <1>1, <1>5, <1>10 DEF LastEntry
  <2>1. CASE s = r
    <3>1. b = a /\ req'[s].old = balance[a]
      BY <1>3, <1>7, <2>1
    <3>2. \A t \in Requests : req[t].op # "log" \/ req[t].account # a
      BY <1>1, <1>7, <3>1 DEF UpdateOf
    <3> QED BY <3>1, <3>2 DEF AuditChain
  <2>2. CASE s # r
    BY <1>3, <2>2 DEF LastEntry
  <2> QED BY <2>1, <2>2
<1> QED BY <1>3, <1>6, <1>8, <1>9, <1>11, <1>12, <1>13, <1>14 DEF Typed

\* An update ends, with or without its audit entry: no row is touched and there
\* is one update less to be logged.
LEMMA UpdateEnds ==
  ASSUME Inv, NEW r \in Requests, req[r].op = "log", req' = [req EXCEPT ![r] = Idle],
         UNCHANGED <<plans, balance, nextId, doubled>>
  PROVE  /\ req[r] \in [op : {"balance", "log"}, account : Accounts, old : Int, new : Int]
         /\ req[r].account \in DOMAIN balance
         /\ req' \in [Requests -> RequestState] /\ req'[r].op = "none"
         /\ \A s \in Requests : s # r => req'[s] = req[s]
         /\ RowsTyped' /\ RowsInv'
         /\ Cardinality(Updates) = Cardinality(Updates') + 1
         /\ Cardinality(Updates') \in Nat
<1>1. req[r] \in [op : {"balance", "log"}, account : Accounts, old : Int, new : Int]
        /\ req \in [Requests -> RequestState]
  BY DEF Inv, Typed, RequestState, Idle
<1>2. req[r].account \in DOMAIN balance
  BY DEF Inv, AccountsInv, OfAccounts
<1>3. req' \in [Requests -> RequestState] /\ req'[r].op = "none"
        /\ \A s \in Requests : s # r => req'[s] = req[s]
  BY <1>1, Idles
<1>4. RowsTyped' /\ RowsInv'
  BY <1>3, RowsKept
<1>5. Updates' = Updates \ {r} /\ r \in Updates
  BY <1>3 DEF Updates
<1>6. IsFiniteSet(Updates)
  BY CashFlowAssumption, FS_Subset DEF Updates
<1>7. Cardinality(Updates') = Cardinality(Updates) - 1 /\ IsFiniteSet(Updates')
  BY <1>5, <1>6, FS_RemoveElement
<1>8. Cardinality(Updates) \in Nat /\ Cardinality(Updates') \in Nat
  BY <1>6, <1>7, FS_CardinalityType
<1> QED BY <1>1, <1>2, <1>3, <1>4, <1>7, <1>8

LEMMA FailLogStep ==
  ASSUME Inv, NEW r \in Requests, FailLog(r)
  PROVE  Inv'
<1> DEFINE a == req[r].account
<1>1. /\ req[r].op = "log" /\ UNCHANGED <<plans, balance, log, nextId, doubled>>
      /\ muddled' = muddled \cup {a} /\ req' = [req EXCEPT ![r] = Idle]
  BY DEF FailLog
<1>2. /\ req[r] \in [op : {"balance", "log"}, account : Accounts, old : Int, new : Int]
      /\ a \in DOMAIN balance
      /\ req' \in [Requests -> RequestState] /\ req'[r].op = "none"
      /\ \A s \in Requests : s # r => req'[s] = req[s]
      /\ RowsTyped' /\ RowsInv'
      /\ Cardinality(Updates) = Cardinality(Updates') + 1
      /\ Cardinality(Updates') \in Nat
  BY <1>1, UpdateEnds
<1>3. \A b : EntriesOf(b)' = EntriesOf(b)
  BY <1>1 DEF EntriesOf
<1> USE DEF Inv, AccountsInv
<1>4. AccountsTyped'
  BY <1>1, <1>2 DEF Typed, AccountsTyped
<1>5. LogBounded'
  BY <1>1, <1>2, CashFlowAssumption DEF Typed, AccountsTyped, LogBounded
<1>6. OfAccounts'
  BY <1>1, <1>2 DEF OfAccounts
<1>7. AuditChain'
  <2> SUFFICES ASSUME NEW b \in DOMAIN balance \ muddled' PROVE
        /\ \A i, j \in EntriesOf(b) :
             i < j /\ (\A k \in EntriesOf(b) : k <= i \/ j <= k) => log[i].new = log[j].old
        /\ \A i \in EntriesOf(b) :
             /\ \A k \in EntriesOf(b) : k <= i
             /\ \A s \in Requests : req'[s].op # "log" \/ req'[s].account # b
             => log[i].new = balance[b]
    BY <1>1, <1>3 DEF AuditChain
  <2>1. (\A s \in Requests : req'[s].op # "log" \/ req'[s].account # b)
          => \A s \in Requests : req[s].op # "log" \/ req[s].account # b
    BY <1>1, <1>2
  <2> QED BY <1>1, <2>1 DEF AuditChain
<1>8. UpdateAlone'
  BY <1>1, <1>2 DEF UpdateAlone, UpdateOf
<1>9. LastEntry'
  BY <1>1, <1>2, <1>3 DEF LastEntry
<1> QED BY <1>2, <1>4, <1>5, <1>6, <1>7, <1>8, <1>9 DEF Typed

\* The audit entry closes the chain: its old balance is that of the last entry,
\* its new one the balance of the account.
LEMMA WriteLogStep ==
  ASSUME Inv, NEW r \in Requests, WriteLog(r)
  PROVE  Inv'
<1>0. PICK a : a = req[r].account
  OBVIOUS
<1> DEFINE new == [account |-> req[r].account, old |-> req[r].old, new |-> req[r].new]
           last == Len(log) + 1
<1>1. /\ req[r].op = "log" /\ UNCHANGED <<plans, balance, nextId, doubled, muddled>>
      /\ log' = Append(log, new) /\ req' = [req EXCEPT ![r] = Idle]
  BY DEF WriteLog, history
<1>2. /\ req[r] \in [op : {"balance", "log"}, account : Accounts, old : Int, new : Int]
      /\ a \in DOMAIN balance
      /\ req' \in [Requests -> RequestState] /\ req'[r].op = "none"
      /\ \A s \in Requests : s # r => req'[s] = req[s]
      /\ RowsTyped' /\ RowsInv'
      /\ Cardinality(Updates) = Cardinality(Updates') + 1
      /\ Cardinality(Updates') \in Nat
  BY <1>0, <1>1, UpdateEnds
<1>3. new \in AuditEntry /\ new.account = a /\ new.old = req[r].old /\ new.new = req[r].new
  BY <1>0, <1>2 DEF AuditEntry
<1> HIDE DEF new
<1>4. /\ log \in Seq(AuditEntry) /\ log' \in Seq(AuditEntry) /\ Len(log) \in Nat
      /\ DOMAIN log = 1 .. Len(log) /\ DOMAIN log' = 1 .. last
      /\ Len(log') = last /\ log'[last] = new
      /\ \A i \in DOMAIN log : log'[i] = log[i]
  BY <1>1, <1>3 DEF Inv, Typed, AccountsTyped
<1>5. EntriesOf(a)' = EntriesOf(a) \cup {last} /\ \A b : b # a => EntriesOf(b)' = EntriesOf(b)
  <2>1. DOMAIN log' = DOMAIN log \cup {last}
    BY <1>4
  <2> QED BY <1>3, <1>4, <2>1 DEF EntriesOf
<1>6. \A b : EntriesOf(b) \subseteq DOMAIN log /\ \A i \in EntriesOf(b) : i \in Nat /\ i < last
  BY <1>4 DEF EntriesOf
<1>7. a \notin muddled => /\ \A s \in Requests : UpdateOf(s, a) => s = r
                         /\ req[r].new = balance[a]
                         /\ \A i \in EntriesOf(a) :
                              (\A k \in EntriesOf(a) : k <= i) => log[i].new = req[r].old
  BY <1>0, <1>1, <1>2 DEF Inv, AccountsInv, UpdateAlone, UpdateOf, LastEntry
<1> HIDE DEF last
<1> USE DEF Inv, AccountsInv
<1>8. AccountsTyped'
  BY <1>1, <1>4 DEF Typed, AccountsTyped
<1>9. LogBounded'
  BY <1>2, <1>4, CashFlowAssumption DEF Typed, LogBounded, last
<1>10. OfAccounts'
  <2>1. DOMAIN log' = DOMAIN log \cup {last}
    BY <1>4 DEF last
  <2> QED BY <1>1, <1>2, <1>3, <1>4, <2>1 DEF OfAccounts
<1>11. AuditChain'
  <2> SUFFICES ASSUME NEW b \in DOMAIN balance \ muddled PROVE
        /\ \A i, j \in EntriesOf(b)' :
             i < j /\ (\A k \in EntriesOf(b)' : k <= i \/ j <= k) => log'[i].new = log'[j].old
        /\ \A i \in EntriesOf(b)' :
             /\ \A k \in EntriesOf(b)' : k <= i
             /\ \A s \in Requests : req'[s].op # "log" \/ req'[s].account # b
             => log'[i].new = balance[b]
    BY <1>1 DEF AuditChain
  <2>1. CASE b = a
    <3>1. ASSUME NEW i \in EntriesOf(b)', NEW j \in EntriesOf(b)', i < j,
                 \A k \in EntriesOf(b)' : k <= i \/ j <= k
          PROVE  log'[i].new = log'[j].old
      <4>1. i \in EntriesOf(a)
        BY <1>4, <1>5, <1>6, <2>1, <3>1 DEF last
      <4>2. CASE j = last
        <5>1. \A k \in EntriesOf(a) : k <= i
          BY <1>4, <1>5, <1>6, <2>1, <3>1, <4>2 DEF last
        <5> QED BY <1>3, <1>4, <1>6, <1>7, <2>1, <4>1, <4>2, <5>1
      <4>3. CASE j # last
        <5>1. j \in EntriesOf(a)
          BY <1>5, <2>1, <4>3
        <5> QED BY <1>4, <1>5, <1>6, <2>1, <3>1, <4>1, <5>1 DEF AuditChain
      <4> QED BY <4>2, <4>3
    <3>2. ASSUME NEW i \in EntriesOf(b)', \A k \in EntriesOf(b)' : k <= i
          PROVE  log'[i].new = balance[b]
      <4>1. i = last
        BY <1>4, <1>5, <1>6, <2>1, <3>2 DEF last
      <4> QED BY <1>3, <1>4, <1>7, <2>1, <4>1
    <3> QED BY <3>1, <3>2
  <2>2. CASE b # a
    <3>1. (\A s \in Requests : req'[s].op # "log" \/ req'[s].account # b)
            => \A s \in Requests : req[s].op # "log" \/ req[s].account # b
      BY <1>0, <1>2, <2>2
    <3> QED BY <1>4, <1>5, <1>6, <2>2, <3>1 DEF AuditChain
  <2> QED BY <2>1, <2>2
<1>12. UpdateAlone'
  BY <1>1, <1>2 DEF UpdateAlone, UpdateOf
<1>13. LastEntry'
  <2> SUFFICES ASSUME NEW s \in Requests, NEW b \in DOMAIN balance \ muddled, NEW i \in EntriesOf(b)',
                      req'[s].op = "log", req'[s].account = b, \A k \in EntriesOf(b)' : k <= i
               PROVE  log'[i].new = req'[s].old
    BY <1>1 DEF LastEntry
  <2>1. s # r /\ req'[s] = req[s]
    BY <1>2
  <2>2. b # a
    BY <1>0, <1>1, <1>7, <2>1 DEF UpdateOf
  <2> QED BY <1>4, <1>5, <1>6, <2>1, <2>2 DEF LastEntry
<1> QED BY <1>2, <1>8, <1>9, <1>10, <1>11, <1>12, <1>13 DEF Typed

-----------------------------------------------------------------------------
(* The theorems.                                                           *)

LEMMA InitInv == Init => Inv
<1> SUFFICES ASSUME Init PROVE Inv
  OBVIOUS
<1> USE DEF Init
<1>1. \A r \in Requests : req[r] = Idle
  OBVIOUS
<1>2. DOMAIN balance = {} /\ log = <<>> /\ DOMAIN log = {}
  OBVIOUS
<1>3. RowsTyped
  BY FS_EmptySet, CashFlowAssumption DEF RowsTyped
<1>4. AccountsTyped
  BY <1>2 DEF AccountsTyped
<1>5. LogBounded
  <2>1. Updates = {}
    BY <1>1, Idles DEF Updates
  <2>2. Cardinality({}) = 0 /\ Len(<<>>) = 0
    BY FS_EmptySet
  <2> QED BY <1>2, <2>1, <2>2, CashFlowAssumption DEF LogBounded
<1>6. req \in [Requests -> RequestState]
  BY Idles
<1>7. RowsInv
  BY <1>1, Idles DEF RowsInv, OneRowPerWeek, FoundKept, FoundGiven, UpsertAlone, UpsertOf, EmptyOf
<1>8. AccountsInv
  BY <1>1, <1>2, Idles DEF AccountsInv, AuditChain, OfAccounts, UpdateAlone, UpdateOf, LastEntry, EntriesOf
<1> QED BY <1>3, <1>4, <1>5, <1>6, <1>7, <1>8 DEF Inv, Typed

LEMMA NextInv == Inv /\ [Next]_vars => Inv'
<1> SUFFICES ASSUME Inv, [Next]_vars PROVE Inv'
  OBVIOUS
<1>1. CASE UNCHANGED vars
  BY <1>1 DEF vars, Inv, Typed, RowsInv, AccountsInv, RowsTyped, AccountsTyped, LogBounded,
              Updates, OneRowPerWeek, FoundKept, FoundGiven, UpsertAlone, UpsertOf, EmptyOf, AuditChain,
              EntriesOf, OfAccounts, UpdateAlone, UpdateOf, LastEntry
<1>2. CASE Next
  BY <1>2, BeginEntryStep, InsertEntryStep, BeginUpsertStep, WriteUpsertStep, BeginDeleteStep,
     DeleteRowStep, CreateAccountStep, BeginBalanceStep, WriteBalanceStep, WriteLogStep, FailLogStep
     DEF Next
<1> QED BY <1>1, <1>2

\* The inductive invariant holds in every reachable state.
THEOREM CashInvariance == Spec => []Inv
  BY InitInv, NextInv, PTL DEF Spec

\* Rows, balances, requests and the log keep their types and bounds, and the id
\* of a row is given to no other.
THEOREM CashTypes == Spec => []TypeOK
<1>1. Inv => TypeOK
  <2> SUFFICES ASSUME Inv PROVE TypeOK
    OBVIOUS
  <2>1. Len(log) <= MaxLog
    <3>1. IsFiniteSet(Updates)
      BY CashFlowAssumption, FS_Subset DEF Updates
    <3>2. Cardinality(Updates) \in Nat /\ Len(log) \in Nat /\ MaxLog \in Nat
      BY <3>1, FS_CardinalityType, CashFlowAssumption DEF Inv, Typed, AccountsTyped
    <3> QED BY <3>2 DEF Inv, Typed, LogBounded
  <2>2. \A r \in Requests : req[r].op \in {"none", "entry", "upsert", "delete", "balance", "log"}
    BY DEF Inv, Typed, RequestState, Idle
  <2> QED BY <2>1, <2>2 DEF Inv, Typed, RowsTyped, AccountsTyped, TypeOK
<1> QED BY <1>1, CashInvariance, PTL

\* A week that is not doubled has at most one row of POST /cash-flow
\* (cash-flow.service.ts:358-403).
THEOREM WeeksHaveOneRow == Spec => []OneRowPerWeek
<1>1. Inv => OneRowPerWeek
  BY DEF Inv, RowsInv
<1> QED BY <1>1, CashInvariance, PTL

\* The cash screen and the dashboard show one runway, in every reachable state
\* (cash-flow.service.ts:405-432, dashboard.service.ts:530-557).
THEOREM RunwaysDoAgree == Spec => []RunwaysAgree
<1>1. Inv => RunwaysAgree
  BY RunwaysSame DEF Inv, Typed, RowsTyped
<1> QED BY <1>1, CashInvariance, PTL

\* The audit entries of an account that is not muddled chain up to its balance
\* (bank-accounts.service.ts:71-98).
THEOREM AuditChains == Spec => []AuditChain
<1>1. Inv => AuditChain
  BY DEF Inv, AccountsInv
<1> QED BY <1>1, CashInvariance, PTL

\* What a row counts for, by the way either endpoint fills its columns: an amount that
\* is not positive is the one of its direction's column, and a row of inflows has no
\* outflow then.
Counts(p) ==
    /\ p.date \in Int /\ p.amount \in Int /\ p.inflow \in Int /\ p.outflow \in Int
    /\ p.direction \in {"IN", "OUT"}
    /\ p.amount <= 0 /\ p.direction = "IN" => p.outflow = 0

RowsCount == \A p \in plans : Counts(p)

\* Both tabs put such a row in one week, and with one net flow but for its unseen part.
LEMMA RowCountsOnce ==
  ASSUME NEW p, Counts(p)
  PROVE  WeekIndex(p) = RollingIndex(p) /\ RowAgrees(p)
<1>1. WeekIndex(p) = RollingIndex(p)
  <2>1. (p.date - Today) \div 7 \in Int
    BY CashFlowAssumption DEF Counts
  <2> QED BY <2>1 DEF WeekIndex, RollingIndex
<1>2. CASE p.amount > 0
  <2>1. Normalized(p) = p.amount
    BY <1>2 DEF Normalized
  <2> QED BY <1>1, <1>2, <2>1 DEF Counts, RowAgrees, Signed, RollingIn, RollingOut, Unseen
<1>3. CASE p.amount <= 0
  <2>1. Normalized(p) = IF p.direction = "IN" THEN p.inflow ELSE p.outflow
    BY <1>3 DEF Counts, Normalized
  <2> QED BY <1>1, <1>3, <2>1 DEF Counts, RowAgrees, Signed, RollingIn, RollingOut, Unseen
<1> QED BY <1>1, <1>2, <1>3 DEF Counts

\* Rows are made with amounts, by either endpoint.
LEMMA EntryCounts ==
  ASSUME NEW id, NEW date \in Int, NEW dir \in {"IN", "OUT"}, NEW amount \in Int
  PROVE  Counts(EntryRow(id, date, dir, amount))
  BY DEF Counts, EntryRow, Row

LEMMA WeekCounts ==
  ASSUME NEW id, NEW week \in Int, NEW in \in Int, NEW out \in Int
  PROVE  /\ Counts(WeekRow(id, week, in, out))
         /\ \A w : Counts([WeekRow(id, week, in, out) EXCEPT !.week = w])
<1>1. DateOf(week) \in Int
  BY DEF DateOf
<1> QED BY <1>1 DEF Counts, WeekRow, Row

LEMMA RowsCountStep == Inv /\ RowsCount /\ [Next]_vars => RowsCount'
<1> SUFFICES ASSUME Inv, RowsCount, [Next]_vars PROVE RowsCount'
  OBVIOUS
<1>1. CASE UNCHANGED plans
  BY <1>1 DEF RowsCount
<1>2. ASSUME NEW r \in Requests, InsertEntry(r) PROVE RowsCount'
  <2> DEFINE row == EntryRow(nextId, req[r].date, req[r].dir, req[r].amount)
  <2>1. req[r].date \in Int /\ req[r].dir \in {"IN", "OUT"} /\ req[r].amount \in Int
    BY <1>2 DEF InsertEntry, Inv, Typed, RequestState, Idle
  <2>2. Counts(row)
    BY <2>1, EntryCounts
  <2>3. plans' \subseteq plans \cup {row}
    BY <1>2 DEF InsertEntry, Insert
  <2> HIDE DEF row
  <2> QED BY <2>2, <2>3 DEF RowsCount
<1>3. ASSUME NEW r \in Requests, WriteUpsert(r) PROVE RowsCount'
  <2> DEFINE row(id) == WeekRow(id, req[r].week, req[r].in, req[r].out)
             old == {p \in plans : p.id = req[r].found}
  <2>1. req[r].week \in Int /\ req[r].in \in Int /\ req[r].out \in Int
    BY <1>3, CashFlowAssumption DEF WriteUpsert, Inv, Typed, RequestState, Idle
  <2>2. \A id : Counts(row(id)) /\ \A w : Counts([row(id) EXCEPT !.week = w])
    BY <2>1, WeekCounts
  <2>3. plans' \subseteq plans \cup {row(nextId)} \cup {[row(p.id) EXCEPT !.week = p.week] : p \in old}
    BY <1>3 DEF WriteUpsert, Insert
  <2> HIDE DEF row, old
  <2> QED BY <2>2, <2>3 DEF RowsCount
<1>4. ASSUME NEW r \in Requests, DeleteRow(r) PROVE RowsCount'
  BY <1>4 DEF DeleteRow, RowsCount
<1> QED BY <1>1, <1>2, <1>3, <1>4
        DEF Next, vars, history, BeginEntry, BeginUpsert, BeginDelete, CreateAccount, BeginBalance,
            WriteBalance, WriteLog, FailLog

\* Week by week the plan tab and the analysis tab show the same net flow to the unit but
\* for the unseen part of the week's rows, for any rows of any sign, in every reachable
\* state (cash-flow.service.ts:57-70, 92-107 and 195-229).
THEOREM TabsDoAgree == Spec => []TabsAgree
<1>1. Init => RowsCount
  BY DEF Init, RowsCount
<1>2. Inv /\ RowsCount => TabsAgree
  <2> SUFFICES ASSUME Inv, RowsCount, NEW i \in 0 .. Horizon - 1
               PROVE  WeeklyNet(i) = WholeUnits(Rolling(i).inflows - Rolling(i).outflows
                                                  - Sum(Unseen, {p \in plans : RollingIndex(p) = i}))
    BY DEF TabsAgree
  <2> DEFINE week == {p \in plans : WeekIndex(p) = i}
  <2>1. \A p \in plans : WeekIndex(p) = RollingIndex(p) /\ RowAgrees(p)
    BY RowCountsOnce DEF RowsCount
  <2>2. week = {p \in plans : RollingIndex(p) = i}
    BY <2>1
  <2>3. IsFiniteSet(week)
    BY FS_Subset DEF Inv, Typed, RowsTyped
  <2>4. WeeklyNet(i) = WholeUnits(Sum(Signed, week))
    BY DEF WeeklyNet
  <2>5. Rolling(i).inflows = Sum(RollingIn, week) /\ Rolling(i).outflows = Sum(RollingOut, week)
    BY <2>2 DEF Rolling
  <2> HIDE DEF week
  <2>6. \A p \in week : RowAgrees(p)
    BY <2>1 DEF week
  <2>7. Sum(Signed, week) = Rolling(i).inflows - Rolling(i).outflows - Sum(Unseen, week)
    BY <2>3, <2>5, <2>6, NetOfSums
  <2> QED BY <2>2, <2>4, <2>7
<1> QED BY <1>1, <1>2, RowsCountStep, CashInvariance, PTL DEF Spec

-----------------------------------------------------------------------------
(* Sums over a finite set: they do not depend on the order in which elements *)
(* are picked, nor on the way the set is divided.                            *)

\* What holds of a set when it holds of the set without any one of its elements holds
\* of every subset of a finite set.
LEMMA SubsetInduction ==
  ASSUME NEW S, IsFiniteSet(S), NEW Q,
         \A s \in SUBSET S : (\A x \in s : s \ {x} \in Q) => s \in Q
  PROVE  SUBSET S \subseteq Q
<1> DEFINE N == {n \in Nat : \A s \in SUBSET S : Cardinality(s) = n => s \in Q}
<1>rest. \A s \in SUBSET S : \A x \in s : Cardinality(s \ {x}) = Cardinality(s) - 1 /\ s \ {x} \in SUBSET S
  BY FS_RemoveElement, FS_Subset
<1>card. \A s \in SUBSET S : Cardinality(s) \in Nat /\ (Cardinality(s) = 0 => s = {})
  BY Picked
<1>1. 0 \in N
  BY <1>card
<1>2. \A n \in Nat : n \in N => n + 1 \in N
  <2> SUFFICES ASSUME NEW n \in Nat, \A s \in SUBSET S : Cardinality(s) = n => s \in Q,
                      NEW s \in SUBSET S, Cardinality(s) = n + 1
               PROVE  s \in Q
    OBVIOUS
  <2> SUFFICES ASSUME NEW x \in s PROVE s \ {x} \in Q
    OBVIOUS
  <2>1. Cardinality(s) - 1 = n
    OBVIOUS
  <2>2. Cardinality(s \ {x}) = n /\ s \ {x} \in SUBSET S
    BY <1>rest, <2>1
  <2> QED BY <2>2
<1>3. \A n \in Nat : n \in N
  <2> HIDE DEF N
  <2> QED BY <1>1, <1>2, NaturalInduction
<1> QED BY <1>3, <1>card

\* The sum of what g gives to the elements of S.
SumOf(g, S) == (CHOOSE h : ArePartialSums(h, S, g))[S]

\* Partial sums say the same of a common subset, whatever the sets and as long as the
\* figures are the same on it.
LEMMA PartialSumsAgree ==
  ASSUME NEW S, IsFiniteSet(S), NEW A, S \subseteq A, NEW B, S \subseteq B, NEW f, NEW g,
         \A x \in S : f[x] = g[x],
         NEW h, ArePartialSums(h, A, f), NEW k, ArePartialSums(k, B, g)
  PROVE  h[S] = k[S]
<1> DEFINE Q == {s \in SUBSET S : h[s] = k[s]}
<1>1. \A s \in SUBSET S : s \in SUBSET A /\ s \in SUBSET B
  OBVIOUS
<1>2. \A s \in SUBSET S : /\ h[s] = IF s = {} THEN 0 ELSE f[Pick(s)] + h[s \ {Pick(s)}]
                          /\ k[s] = IF s = {} THEN 0 ELSE g[Pick(s)] + k[s \ {Pick(s)}]
  BY <1>1 DEF ArePartialSums
<1>3. ASSUME NEW s \in SUBSET S, \A x \in s : s \ {x} \in Q PROVE s \in Q
  <2>1. s # {} => Pick(s) \in s /\ Pick(s) \in S
    BY DEF Pick
  <2>2. s # {} => f[Pick(s)] = g[Pick(s)] /\ h[s \ {Pick(s)}] = k[s \ {Pick(s)}]
    BY <1>3, <2>1
  <2> QED BY <1>2, <2>2
<1>4. SUBSET S \subseteq Q
  <2> HIDE DEF Q
  <2> QED BY <1>3, SubsetInduction
<1> QED BY <1>4

\* A sum is what any partial sums say of its set.
LEMMA SumOfPartial ==
  ASSUME NEW S, IsFiniteSet(S), NEW A, S \subseteq A, NEW f, NEW g,
         \A x \in S : f[x] = g[x], NEW h, ArePartialSums(h, A, f)
  PROVE  SumOf(g, S) = h[S]
<1> DEFINE k == CHOOSE k : ArePartialSums(k, S, g)
<1>1. \E i : ArePartialSums(i, S, g)
  BY PartialSums
<1>2. ArePartialSums(k, S, g)
  BY <1>1
<1>3. SumOf(g, S) = k[S]
  BY DEF SumOf
<1> HIDE DEF k
<1>4. h[S] = k[S]
  BY <1>2, PartialSumsAgree
<1> QED BY <1>3, <1>4

\* It depends on the figures of its set only.
LEMMA SumOfSame ==
  ASSUME NEW S, IsFiniteSet(S), NEW f, NEW g, \A x \in S : f[x] = g[x]
  PROVE  SumOf(f, S) = SumOf(g, S)
<1>1. PICK h : ArePartialSums(h, S, f)
  BY PartialSums
<1>2. SumOf(f, S) = h[S]
  BY <1>1, SumOfPartial
<1>3. SumOf(g, S) = h[S]
  BY <1>1, SumOfPartial
<1> QED BY <1>2, <1>3

\* A sum of nothing is zero.
LEMMA SumOfEmpty ==
  ASSUME NEW g
  PROVE  SumOf(g, {}) = 0
<1>1. IsFiniteSet({})
  BY FS_EmptySet
<1>2. PICK h : ArePartialSums(h, {}, g)
  BY <1>1, PartialSums
<1>3. h[{}] = 0
  BY <1>2 DEF ArePartialSums
<1> QED BY <1>1, <1>2, <1>3, SumOfPartial

\* A sum takes the elements one by one, the picked one first.
LEMMA SumOfPick ==
  ASSUME NEW S, IsFiniteSet(S), S # {}, NEW g
  PROVE  SumOf(g, S) = g[Pick(S)] + SumOf(g, S \ {Pick(S)})
<1>1. PICK h : ArePartialSums(h, S, g)
  BY PartialSums
<1>2. SumOf(g, S) = h[S]
  BY <1>1, SumOfPartial
<1>3. SumOf(g, S \ {Pick(S)}) = h[S \ {Pick(S)}]
  <2>1. IsFiniteSet(S \ {Pick(S)})
    BY FS_RemoveElement
  <2> QED BY <1>1, <2>1, SumOfPartial
<1>4. h[S] = g[Pick(S)] + h[S \ {Pick(S)}]
  BY <1>1 DEF ArePartialSums
<1> QED BY <1>2, <1>3, <1>4

\* A sum of integers is one.
LEMMA SumOfInt ==
  ASSUME NEW S, IsFiniteSet(S), NEW g, \A x \in S : g[x] \in Int
  PROVE  SumOf(g, S) \in Int
<1> DEFINE Q == {s \in SUBSET S : SumOf(g, s) \in Int}
<1>1. ASSUME NEW s \in SUBSET S, \A x \in s : s \ {x} \in Q PROVE s \in Q
  <2>1. CASE s = {}
    BY <2>1, SumOfEmpty
  <2>2. CASE s # {}
    <3>1. Pick(s) \in s /\ IsFiniteSet(s)
      BY <2>2, FS_Subset DEF Pick
    <3>2. g[Pick(s)] \in Int /\ SumOf(g, s \ {Pick(s)}) \in Int
      BY <1>1, <3>1
    <3>3. SumOf(g, s) = g[Pick(s)] + SumOf(g, s \ {Pick(s)})
      BY <2>2, <3>1, SumOfPick
    <3> QED BY <3>2, <3>3
  <2> QED BY <2>1, <2>2
<1>2. SUBSET S \subseteq Q
  <2> HIDE DEF Q
  <2> QED BY <1>1, SubsetInduction
<1> QED BY <1>2

\* The element that is added last does not matter.
LEMMA SumOfRemove ==
  ASSUME NEW S, IsFiniteSet(S), NEW g, \A x \in S : g[x] \in Int, NEW x \in S
  PROVE  SumOf(g, S) = g[x] + SumOf(g, S \ {x})
<1> DEFINE Q == {s \in SUBSET S : \A y \in s : SumOf(g, s) = g[y] + SumOf(g, s \ {y})}
<1>1. ASSUME NEW s \in SUBSET S, \A y \in s : s \ {y} \in Q PROVE s \in Q
  <2> SUFFICES ASSUME NEW y \in s PROVE SumOf(g, s) = g[y] + SumOf(g, s \ {y})
    OBVIOUS
  <2> DEFINE p == Pick(s)
             q == s \ {p, y}
  <2>1. p \in s /\ IsFiniteSet(s)
    BY FS_Subset DEF Pick
  <2>2. SumOf(g, s) = g[p] + SumOf(g, s \ {p})
    BY <2>1, SumOfPick
  <2> HIDE DEF p
  <2>3. CASE y = p
    BY <2>2, <2>3
  <2>4. CASE y # p
    <3>1. q \in SUBSET S /\ (s \ {y}) \ {p} = q /\ (s \ {p}) \ {y} = q /\ y \in s \ {p} /\ p \in s \ {y}
      BY <2>1, <2>4
    <3>2. SumOf(g, s \ {p}) = g[y] + SumOf(g, q)
      BY <1>1, <2>1, <3>1
    <3>3. SumOf(g, s \ {y}) = g[p] + SumOf(g, q)
      BY <1>1, <2>1, <3>1
    <3>4. SumOf(g, q) \in Int /\ g[p] \in Int /\ g[y] \in Int
      <4>1. IsFiniteSet(q)
        BY <3>1, FS_Subset
      <4> QED BY <2>1, <3>1, <4>1, SumOfInt
    <3> HIDE DEF q
    <3> QED BY <2>2, <3>2, <3>3, <3>4
  <2> QED BY <2>3, <2>4
<1>2. SUBSET S \subseteq Q
  <2> HIDE DEF Q
  <2> QED BY <1>1, SubsetInduction
<1> QED BY <1>2

\* Two parts of a set add up to it.
LEMMA SumOfParts ==
  ASSUME NEW S, IsFiniteSet(S), NEW g, \A x \in S : g[x] \in Int, NEW A \in SUBSET S
  PROVE  SumOf(g, S) = SumOf(g, A) + SumOf(g, S \ A)
<1> DEFINE Q == {a \in SUBSET S : SumOf(g, S) = SumOf(g, a) + SumOf(g, S \ a)}
<1>int. \A a \in SUBSET S : SumOf(g, a) \in Int /\ IsFiniteSet(a)
  BY SumOfInt, FS_Subset
<1>1. ASSUME NEW a \in SUBSET S, \A x \in a : a \ {x} \in Q PROVE a \in Q
  <2>1. CASE a = {}
    <3>1. S \ a = S /\ SumOf(g, a) = 0 /\ SumOf(g, S) \in Int
      BY <1>int, <2>1, SumOfEmpty
    <3> QED BY <3>1
  <2>2. CASE a # {}
    <3>1. PICK x : x \in a
      BY <2>2
    <3> DEFINE b == a \ {x}
    <3>2. b \in SUBSET S /\ S \ b \in SUBSET S /\ S \ a \in SUBSET S
      OBVIOUS
    <3>3. x \in S \ b /\ (S \ b) \ {x} = S \ a
      BY <3>1
    <3>4. SumOf(g, S) = SumOf(g, b) + SumOf(g, S \ b)
      BY <1>1, <3>1
    <3>5. SumOf(g, a) = g[x] + SumOf(g, b)
      BY <1>int, <3>1, SumOfRemove
    <3> HIDE DEF b
    <3>6. SumOf(g, S \ b) = g[x] + SumOf(g, S \ a)
      BY <1>int, <3>2, <3>3, SumOfRemove
    <3>7. SumOf(g, b) \in Int /\ SumOf(g, S \ a) \in Int /\ g[x] \in Int
      BY <1>int, <3>1, <3>2
    <3> QED BY <3>4, <3>5, <3>6, <3>7
  <2> QED BY <2>1, <2>2
<1>2. SUBSET S \subseteq Q
  <2> HIDE DEF Q
  <2> QED BY <1>1, SubsetInduction
<1> QED BY <1>2

\* A sum of smaller figures is smaller.
LEMMA SumOfLess ==
  ASSUME NEW S, IsFiniteSet(S), NEW f, NEW g,
         \A x \in S : f[x] \in Int /\ g[x] \in Int /\ f[x] <= g[x]
  PROVE  SumOf(f, S) <= SumOf(g, S)
<1> DEFINE Q == {s \in SUBSET S : SumOf(f, s) <= SumOf(g, s)}
<1>1. ASSUME NEW s \in SUBSET S, \A x \in s : s \ {x} \in Q PROVE s \in Q
  <2>1. CASE s = {}
    BY <2>1, SumOfEmpty
  <2>2. CASE s # {}
    <3>1. PICK x : x \in s
      BY <2>2
    <3>2. IsFiniteSet(s) /\ IsFiniteSet(s \ {x})
      BY FS_Subset
    <3>3. SumOf(f, s) = f[x] + SumOf(f, s \ {x}) /\ SumOf(g, s) = g[x] + SumOf(g, s \ {x})
      BY <3>1, <3>2, SumOfRemove
    <3>4. SumOf(f, s \ {x}) \in Int /\ SumOf(g, s \ {x}) \in Int
      BY <3>2, SumOfInt
    <3>5. SumOf(f, s \ {x}) <= SumOf(g, s \ {x})
      BY <1>1, <3>1
    <3>6. f[x] \in Int /\ g[x] \in Int /\ f[x] <= g[x]
      BY <3>1
    <3> QED BY <3>3, <3>4, <3>5, <3>6
  <2> QED BY <2>1, <2>2
<1>2. SUBSET S \subseteq Q
  <2> HIDE DEF Q
  <2> QED BY <1>1, SubsetInduction
<1> QED BY <1>2

\* A sum of figures that are not negative is not, no part of it is more than the
\* whole, and if it is zero each of them is.
LEMMA SumOfNaturals ==
  ASSUME NEW S, IsFiniteSet(S), NEW g, \A x \in S : g[x] \in Nat
  PROVE  /\ SumOf(g, S) \in Nat
         /\ \A A \in SUBSET S : SumOf(g, A) <= SumOf(g, S)
         /\ SumOf(g, S) = 0 => \A x \in S : g[x] = 0
<1> DEFINE Q == {s \in SUBSET S : SumOf(g, s) \in Nat}
<1>int. \A a \in SUBSET S : SumOf(g, a) \in Int /\ IsFiniteSet(a)
  BY SumOfInt, FS_Subset
<1>1. ASSUME NEW s \in SUBSET S, \A x \in s : s \ {x} \in Q PROVE s \in Q
  <2>1. CASE s = {}
    BY <2>1, SumOfEmpty
  <2>2. CASE s # {}
    <3>1. PICK x : x \in s
      BY <2>2
    <3>2. SumOf(g, s) = g[x] + SumOf(g, s \ {x})
      BY <1>int, <3>1, SumOfRemove
    <3>3. SumOf(g, s \ {x}) \in Nat /\ g[x] \in Nat
      BY <1>1, <3>1
    <3> QED BY <3>2, <3>3
  <2> QED BY <2>1, <2>2
<1>2. \A s \in SUBSET S : SumOf(g, s) \in Nat
  <2>1. SUBSET S \subseteq Q
    <3> HIDE DEF Q
    <3> QED BY <1>1, SubsetInduction
  <2> QED BY <2>1
<1>3. ASSUME NEW A \in SUBSET S PROVE SumOf(g, A) <= SumOf(g, S)
  <2>1. SumOf(g, S) = SumOf(g, A) + SumOf(g, S \ A)
    BY SumOfParts
  <2>2. SumOf(g, A) \in Nat /\ SumOf(g, S \ A) \in Nat
    BY <1>2
  <2> QED BY <2>1, <2>2
<1>4. ASSUME SumOf(g, S) = 0, NEW x \in S PROVE g[x] = 0
  <2>1. SumOf(g, S) = g[x] + SumOf(g, S \ {x})
    BY SumOfRemove
  <2>2. SumOf(g, S \ {x}) \in Nat /\ g[x] \in Nat
    BY <1>2
  <2> QED BY <1>4, <2>1, <2>2
<1> QED BY <1>2, <1>3, <1>4

\* Sums over the groups that a key makes of a set add up to the sum over the set.
LEMMA SumOfGroups ==
  ASSUME NEW S, IsFiniteSet(S), NEW g, \A x \in S : g[x] \in Int,
         NEW K, IsFiniteSet(K), NEW key, \A x \in S : key[x] \in K,
         NEW group, \A k \in K : group[k] \in SUBSET S /\ \A x \in S : x \in group[k] <=> key[x] = k,
         NEW G, \A k \in K : G[k] = SumOf(g, group[k])
  PROVE  SumOf(G, K) = SumOf(g, S)
<1> DEFINE In(c) == {x \in S : key[x] \in c}
           Q == {c \in SUBSET K : SumOf(G, c) = SumOf(g, In(c))}
<1>int. \A a \in SUBSET S : SumOf(g, a) \in Int /\ IsFiniteSet(a)
  BY SumOfInt, FS_Subset
<1>group. \A k \in K : G[k] = SumOf(g, group[k]) /\ G[k] \in Int
  BY <1>int
<1>1. ASSUME NEW c \in SUBSET K, \A k \in c : c \ {k} \in Q PROVE c \in Q
  <2>1. CASE c = {}
    <3>1. In(c) = {}
      BY <2>1
    <3> HIDE DEF In
    <3> QED BY <2>1, <3>1, SumOfEmpty
  <2>2. CASE c # {}
    <3>1. PICK k : k \in c
      BY <2>2
    <3>2. group[k] \in SUBSET In(c) /\ In(c) \ group[k] = In(c \ {k}) /\ In(c) \in SUBSET S
      BY <3>1
    <3>3. SumOf(G, c \ {k}) = SumOf(g, In(c \ {k}))
      BY <1>1, <3>1
    <3>4. SumOf(G, c) = G[k] + SumOf(G, c \ {k})
      <4>1. IsFiniteSet(c)
        BY FS_Subset
      <4> HIDE DEF In
      <4> QED BY <1>group, <3>1, <4>1, SumOfRemove
    <3>5. G[k] = SumOf(g, group[k])
      BY <1>group, <3>1
    <3>6. \A x \in In(c) : g[x] \in Int
      OBVIOUS
    <3> HIDE DEF In
    <3>7. SumOf(g, In(c)) = SumOf(g, group[k]) + SumOf(g, In(c) \ group[k])
      BY <1>int, <3>2, <3>6, SumOfParts
    <3>8. SumOf(G, c) = SumOf(g, In(c))
      BY <3>2, <3>3, <3>4, <3>5, <3>7
    <3> QED BY <3>8
  <2> QED BY <2>1, <2>2
<1>2. SUBSET K \subseteq Q
  <2> HIDE DEF Q
  <2> QED BY <1>1, SubsetInduction
<1>3. In(K) = S
  OBVIOUS
<1> HIDE DEF In
<1> QED BY <1>2, <1>3

-----------------------------------------------------------------------------
(* The totals of the model are such sums.                                  *)

\* A total of amounts is a sum.
LEMMA AmountSums ==
  ASSUME NEW W, IsFiniteSet(W)
  PROVE  Total(W, LAMBDA t : t.amount) = SumOf([t \in W |-> t.amount], W)
<1> DEFINE g == [t \in W |-> t.amount]
           Solves(h) == h = [s \in SUBSET W |-> IF s = {} THEN 0 ELSE Pick(s).amount + h[s \ {Pick(s)}]]
           sums == CHOOSE h : Solves(h)
<1>1. Total(W, LAMBDA t : t.amount) = sums[W]
  BY DEF Total, MapThenSumSet, MapThenFoldSet, Pick
<1>2. \A s \in SUBSET W : s # {} => g[Pick(s)] = Pick(s).amount
  BY DEF Pick
<1>3. \A h : Solves(h) => ArePartialSums(h, W, g)
  <2> HIDE DEF g
  <2> QED BY <1>2 DEF ArePartialSums
<1>4. \A h : ArePartialSums(h, W, g) => Solves(h)
  <2> HIDE DEF g
  <2> QED BY <1>2 DEF ArePartialSums
<1>5. \E h : ArePartialSums(h, W, g)
  <2> HIDE DEF g
  <2> QED BY PartialSums
<1> HIDE DEF g, Solves
<1>6. Solves(sums)
  BY <1>4, <1>5
<1> HIDE DEF sums
<1>7. ArePartialSums(sums, W, g)
  BY <1>3, <1>6
<1>8. SumOf(g, W) = sums[W]
  BY <1>7, SumOfPartial
<1> QED BY <1>1, <1>8 DEF g

\* So is one of magnitudes.
LEMMA MagnitudeSums ==
  ASSUME NEW W, IsFiniteSet(W)
  PROVE  Total(W, LAMBDA t : Magnitude(t.amount)) = SumOf([t \in W |-> Magnitude(t.amount)], W)
<1> DEFINE g == [t \in W |-> Magnitude(t.amount)]
           Solves(h) == h = [s \in SUBSET W |-> IF s = {} THEN 0 ELSE Magnitude(Pick(s).amount) + h[s \ {Pick(s)}]]
           sums == CHOOSE h : Solves(h)
<1>1. Total(W, LAMBDA t : Magnitude(t.amount)) = sums[W]
  BY DEF Total, MapThenSumSet, MapThenFoldSet, Pick
<1>2. \A s \in SUBSET W : s # {} => g[Pick(s)] = Magnitude(Pick(s).amount)
  BY DEF Pick
<1>3. \A h : Solves(h) => ArePartialSums(h, W, g)
  <2> HIDE DEF g
  <2> QED BY <1>2 DEF ArePartialSums
<1>4. \A h : ArePartialSums(h, W, g) => Solves(h)
  <2> HIDE DEF g
  <2> QED BY <1>2 DEF ArePartialSums
<1>5. \E h : ArePartialSums(h, W, g)
  <2> HIDE DEF g
  <2> QED BY PartialSums
<1> HIDE DEF g, Solves
<1>6. Solves(sums)
  BY <1>4, <1>5
<1> HIDE DEF sums
<1>7. ArePartialSums(sums, W, g)
  BY <1>3, <1>6
<1>8. SumOf(g, W) = sums[W]
  BY <1>7, SumOfPartial
<1> QED BY <1>1, <1>8 DEF g

\* The actual amounts of lines.
LEMMA ActualSums ==
  ASSUME NEW W, IsFiniteSet(W)
  PROVE  Total(W, DashboardActual) = SumOf([t \in W |-> DashboardActual(t)], W)
<1> DEFINE g == [t \in W |-> DashboardActual(t)]
           Solves(h) == h = [s \in SUBSET W |-> IF s = {} THEN 0 ELSE DashboardActual(Pick(s)) + h[s \ {Pick(s)}]]
           sums == CHOOSE h : Solves(h)
<1>1. Total(W, DashboardActual) = sums[W]
  BY DEF Total, MapThenSumSet, MapThenFoldSet, Pick
<1>2. \A s \in SUBSET W : s # {} => g[Pick(s)] = DashboardActual(Pick(s))
  BY DEF Pick
<1>3. \A h : Solves(h) => ArePartialSums(h, W, g)
  <2> HIDE DEF g
  <2> QED BY <1>2 DEF ArePartialSums
<1>4. \A h : ArePartialSums(h, W, g) => Solves(h)
  <2> HIDE DEF g
  <2> QED BY <1>2 DEF ArePartialSums
<1>5. \E h : ArePartialSums(h, W, g)
  <2> HIDE DEF g
  <2> QED BY PartialSums
<1> HIDE DEF g, Solves
<1>6. Solves(sums)
  BY <1>4, <1>5
<1> HIDE DEF sums
<1>7. ArePartialSums(sums, W, g)
  BY <1>3, <1>6
<1>8. SumOf(g, W) = sums[W]
  BY <1>7, SumOfPartial
<1> QED BY <1>1, <1>8 DEF g

\* The sum of an indicator over periods.
LEMMA ValueSums ==
  ASSUME NEW W, IsFiniteSet(W),
         NEW code
  PROVE  MapThenSumSet(LAMBDA p : kpis[p][code].value, W) = SumOf([p \in W |-> kpis[p][code].value], W)
<1> DEFINE g == [p \in W |-> kpis[p][code].value]
           Solves(h) == h = [s \in SUBSET W |-> IF s = {} THEN 0 ELSE kpis[Pick(s)][code].value + h[s \ {Pick(s)}]]
           sums == CHOOSE h : Solves(h)
<1>1. MapThenSumSet(LAMBDA p : kpis[p][code].value, W) = sums[W]
  BY DEF MapThenSumSet, MapThenFoldSet, Pick
<1>2. \A s \in SUBSET W : s # {} => g[Pick(s)] = kpis[Pick(s)][code].value
  BY DEF Pick
<1>3. \A h : Solves(h) => ArePartialSums(h, W, g)
  <2> HIDE DEF g
  <2> QED BY <1>2 DEF ArePartialSums
<1>4. \A h : ArePartialSums(h, W, g) => Solves(h)
  <2> HIDE DEF g
  <2> QED BY <1>2 DEF ArePartialSums
<1>5. \E h : ArePartialSums(h, W, g)
  <2> HIDE DEF g
  <2> QED BY PartialSums
<1> HIDE DEF g, Solves
<1>6. Solves(sums)
  BY <1>4, <1>5
<1> HIDE DEF sums
<1>7. ArePartialSums(sums, W, g)
  BY <1>3, <1>6
<1>8. SumOf(g, W) = sums[W]
  BY <1>7, SumOfPartial
<1> QED BY <1>1, <1>8 DEF g

\* The sum of a figure of the snapshots.
LEMMA FieldSums ==
  ASSUME NEW W, IsFiniteSet(W),
         NEW field
  PROVE  MapThenSumSet(LAMBDA p : snapshot[p].figures[field], W) = SumOf([p \in W |-> snapshot[p].figures[field]], W)
<1> DEFINE g == [p \in W |-> snapshot[p].figures[field]]
           Solves(h) == h = [s \in SUBSET W |-> IF s = {} THEN 0 ELSE snapshot[Pick(s)].figures[field] + h[s \ {Pick(s)}]]
           sums == CHOOSE h : Solves(h)
<1>1. MapThenSumSet(LAMBDA p : snapshot[p].figures[field], W) = sums[W]
  BY DEF MapThenSumSet, MapThenFoldSet, Pick
<1>2. \A s \in SUBSET W : s # {} => g[Pick(s)] = snapshot[Pick(s)].figures[field]
  BY DEF Pick
<1>3. \A h : Solves(h) => ArePartialSums(h, W, g)
  <2> HIDE DEF g
  <2> QED BY <1>2 DEF ArePartialSums
<1>4. \A h : ArePartialSums(h, W, g) => Solves(h)
  <2> HIDE DEF g
  <2> QED BY <1>2 DEF ArePartialSums
<1>5. \E h : ArePartialSums(h, W, g)
  <2> HIDE DEF g
  <2> QED BY PartialSums
<1> HIDE DEF g, Solves
<1>6. Solves(sums)
  BY <1>4, <1>5
<1> HIDE DEF sums
<1>7. ArePartialSums(sums, W, g)
  BY <1>3, <1>6
<1>8. SumOf(g, W) = sums[W]
  BY <1>7, SumOfPartial
<1> QED BY <1>1, <1>8 DEF g

\* What the departments spend.
LEMMA DepartmentSums ==
  ASSUME NEW W, IsFiniteSet(W),
         NEW data
  PROVE  MapThenSumSet(LAMBDA d : data.byDept[d], W) = SumOf([d \in W |-> data.byDept[d]], W)
<1> DEFINE g == [d \in W |-> data.byDept[d]]
           Solves(h) == h = [s \in SUBSET W |-> IF s = {} THEN 0 ELSE data.byDept[Pick(s)] + h[s \ {Pick(s)}]]
           sums == CHOOSE h : Solves(h)
<1>1. MapThenSumSet(LAMBDA d : data.byDept[d], W) = sums[W]
  BY DEF MapThenSumSet, MapThenFoldSet, Pick
<1>2. \A s \in SUBSET W : s # {} => g[Pick(s)] = data.byDept[Pick(s)]
  BY DEF Pick
<1>3. \A h : Solves(h) => ArePartialSums(h, W, g)
  <2> HIDE DEF g
  <2> QED BY <1>2 DEF ArePartialSums
<1>4. \A h : ArePartialSums(h, W, g) => Solves(h)
  <2> HIDE DEF g
  <2> QED BY <1>2 DEF ArePartialSums
<1>5. \E h : ArePartialSums(h, W, g)
  <2> HIDE DEF g
  <2> QED BY PartialSums
<1> HIDE DEF g, Solves
<1>6. Solves(sums)
  BY <1>4, <1>5
<1> HIDE DEF sums
<1>7. ArePartialSums(sums, W, g)
  BY <1>3, <1>6
<1>8. SumOf(g, W) = sums[W]
  BY <1>7, SumOfPartial
<1> QED BY <1>1, <1>8 DEF g

\* What the months spend.
LEMMA MonthSums ==
  ASSUME NEW W, IsFiniteSet(W),
         NEW data
  PROVE  MapThenSumSet(LAMBDA p : data.monthly[p].expenses, W) = SumOf([p \in W |-> data.monthly[p].expenses], W)
<1> DEFINE g == [p \in W |-> data.monthly[p].expenses]
           Solves(h) == h = [s \in SUBSET W |-> IF s = {} THEN 0 ELSE data.monthly[Pick(s)].expenses + h[s \ {Pick(s)}]]
           sums == CHOOSE h : Solves(h)
<1>1. MapThenSumSet(LAMBDA p : data.monthly[p].expenses, W) = sums[W]
  BY DEF MapThenSumSet, MapThenFoldSet, Pick
<1>2. \A s \in SUBSET W : s # {} => g[Pick(s)] = data.monthly[Pick(s)].expenses
  BY DEF Pick
<1>3. \A h : Solves(h) => ArePartialSums(h, W, g)
  <2> HIDE DEF g
  <2> QED BY <1>2 DEF ArePartialSums
<1>4. \A h : ArePartialSums(h, W, g) => Solves(h)
  <2> HIDE DEF g
  <2> QED BY <1>2 DEF ArePartialSums
<1>5. \E h : ArePartialSums(h, W, g)
  <2> HIDE DEF g
  <2> QED BY PartialSums
<1> HIDE DEF g, Solves
<1>6. Solves(sums)
  BY <1>4, <1>5
<1> HIDE DEF sums
<1>7. ArePartialSums(sums, W, g)
  BY <1>3, <1>6
<1>8. SumOf(g, W) = sums[W]
  BY <1>7, SumOfPartial
<1> QED BY <1>1, <1>8 DEF g

\* The column of the actual amounts of the table of variances.
LEMMA TableActuals ==
  ASSUME NEW W, IsFiniteSet(W),
         NEW table
  PROVE  MapThenSumSet(LAMBDA label : table[label].actual, W) = SumOf([label \in W |-> table[label].actual], W)
<1> DEFINE g == [label \in W |-> table[label].actual]
           Solves(h) == h = [s \in SUBSET W |-> IF s = {} THEN 0 ELSE table[Pick(s)].actual + h[s \ {Pick(s)}]]
           sums == CHOOSE h : Solves(h)
<1>1. MapThenSumSet(LAMBDA label : table[label].actual, W) = sums[W]
  BY DEF MapThenSumSet, MapThenFoldSet, Pick
<1>2. \A s \in SUBSET W : s # {} => g[Pick(s)] = table[Pick(s)].actual
  BY DEF Pick
<1>3. \A h : Solves(h) => ArePartialSums(h, W, g)
  <2> HIDE DEF g
  <2> QED BY <1>2 DEF ArePartialSums
<1>4. \A h : ArePartialSums(h, W, g) => Solves(h)
  <2> HIDE DEF g
  <2> QED BY <1>2 DEF ArePartialSums
<1>5. \E h : ArePartialSums(h, W, g)
  <2> HIDE DEF g
  <2> QED BY PartialSums
<1> HIDE DEF g, Solves
<1>6. Solves(sums)
  BY <1>4, <1>5
<1> HIDE DEF sums
<1>7. ArePartialSums(sums, W, g)
  BY <1>3, <1>6
<1>8. SumOf(g, W) = sums[W]
  BY <1>7, SumOfPartial
<1> QED BY <1>1, <1>8 DEF g

-----------------------------------------------------------------------------
(* What the figures are made of.                                           *)

\* The values of a period are those of a calculation over some of the transactions
\* and flows it has now, the service up or down.
CalculatedFrom(p, txs, planned, up) == kpis[p] = Stored(Computed(txs, planned, BudgetOf(p), up))
IsCalculated(p) ==
  \E txs \in SUBSET Of(ledger, {p}) : \E planned \in SUBSET Of(flows, {p}) : \E up \in BOOLEAN :
    CalculatedFrom(p, txs, planned, up)

\* The periods with values are those in the order of their calculations.
CalculationsKept ==
  /\ kpis = [p \in Period |-> kpis[p]]
  /\ recent \in Seq(Period)
  /\ \A p \in ToSet(recent) : IsCalculated(p)
  /\ \A p \in Period \ ToSet(recent) : kpis[p] = <<>>

\* A snapshot is made by the closing, of transactions the period still has.
ClosingsKept ==
  /\ snapshot = [p \in Period |-> snapshot[p]]
  /\ \A p \in Period :
       /\ status[p] = "OPEN" => snapshot[p] = [figures |-> NoSnapshot, of |-> {}]
       /\ status[p] = "CLOSED" => /\ snapshot[p].of \subseteq Of(ledger, {p})
                                  /\ snapshot[p].figures = SnapshotOf(snapshot[p].of)

FiguresInv ==
  /\ pending \subseteq Txs /\ ledger \subseteq Txs \ pending /\ IsFiniteSet(ledger)
  /\ flows \subseteq Plans /\ IsFiniteSet(flows)
  /\ status \in [Period -> {"OPEN", "CLOSED"}]
  /\ engineUp \in BOOLEAN
  /\ CalculationsKept
  /\ ClosingsKept

\* The elements of a sequence that an element is removed from and put at its end.
LEMMA MovedToEnd ==
  ASSUME NEW S, NEW s \in Seq(S), NEW e \in S
  PROVE  LET moved == Append(RemoveFirst(s, e), e)
         IN  moved \in Seq(S) /\ ToSet(moved) = ToSet(s) \cup {e}
<1> DEFINE r == RemoveFirst(s, e)
<1>1. r \in Seq(S) /\ (\A i \in 1 .. Len(r) : \E k \in 1 .. Len(s) : r[i] = s[k])
      /\ (\A k \in 1 .. Len(s) : s[k] = e \/ \E i \in 1 .. Len(r) : r[i] = s[k])
  <2>1. CASE ~\E i \in 1 .. Len(s) : s[i] = e
    BY <2>1 DEF RemoveFirst
  <2>2. CASE \E i \in 1 .. Len(s) : s[i] = e
    <3> DEFINE I == {i \in 1 .. Len(s) : s[i] = e}
               m == Min(I)
    <3>1. r = SubSeq(s, 1, m - 1) \o SubSeq(s, m + 1, Len(s))
      BY <2>2 DEF RemoveFirst, RemoveAt, SelectInSeq
    <3>2. m \in I
      <4>1. I \subseteq Nat /\ I # {}
        BY <2>2
      <4>2. \E x \in I : \A y \in I : x <= y
        <5> DEFINE R == OpToRel(<, Nat)
        <5>1. IsWellFoundedOn(R, Nat)
          BY NatLessThanWellFounded
        <5>2. PICK x \in I : \A y \in I : <<y, x>> \notin R
          <6> HIDE DEF I, R
          <6> QED BY <4>1, <5>1, WFMin
        <5>3. \A y \in I : ~(y < x)
          BY <4>1, <5>2 DEF OpToRel
        <5> QED BY <4>1, <5>3
      <4> HIDE DEF I
      <4> QED BY <4>2 DEF Min
    <3>3. m \in 1 .. Len(s) /\ s[m] = e
      BY <3>2
    <3> HIDE DEF m, I, r
    <3> DEFINE a == SubSeq(s, 1, m - 1)
               b == SubSeq(s, m + 1, Len(s))
    <3>4. a \in Seq(S) /\ Len(a) = m - 1 /\ \A i \in 1 .. m - 1 : a[i] = s[i]
      BY <3>3
    <3>5. b \in Seq(S) /\ Len(b) = Len(s) - m /\ \A i \in 1 .. Len(s) - m : b[i] = s[m + i]
      BY <3>3
    <3> HIDE DEF a, b
    <3>6. r = a \o b
      BY <3>1 DEF a, b
    <3>7. r \in Seq(S) /\ Len(r) = Len(s) - 1
      BY <3>3, <3>4, <3>5, <3>6
    <3>8. \A i \in 1 .. Len(r) : r[i] = IF i < m THEN s[i] ELSE s[i + 1]
      <4> SUFFICES ASSUME NEW i \in 1 .. Len(r) PROVE r[i] = IF i < m THEN s[i] ELSE s[i + 1]
        OBVIOUS
      <4>1. r[i] = IF i <= Len(a) THEN a[i] ELSE b[i - Len(a)]
        <5>1. Len(a) \in Nat /\ Len(b) \in Nat /\ i \in 1 .. Len(a) + Len(b)
          BY <3>3, <3>4, <3>5, <3>7
        <5>2. a \in Seq(S) /\ b \in Seq(S)
          BY <3>4, <3>5
        <5> QED BY <3>6, <5>1, <5>2
      <4>2. CASE i < m
        BY <3>3, <3>4, <4>1, <4>2
      <4>3. CASE ~(i < m)
        <5>1. i - Len(a) \in 1 .. Len(s) - m /\ m + (i - Len(a)) = i + 1
          BY <3>3, <3>4, <3>7, <4>3
        <5> QED BY <3>3, <3>4, <3>5, <4>1, <4>3, <5>1
      <4> QED BY <4>2, <4>3
    <3>9. \A k \in 1 .. Len(s) : s[k] = e \/ \E i \in 1 .. Len(r) : r[i] = s[k]
      <4> SUFFICES ASSUME NEW k \in 1 .. Len(s), s[k] # e PROVE \E i \in 1 .. Len(r) : r[i] = s[k]
        OBVIOUS
      <4>1. k # m
        BY <3>3
      <4>2. CASE k < m
        <5>1. k \in 1 .. Len(r) /\ r[k] = s[k]
          BY <3>3, <3>7, <3>8, <4>2
        <5> QED BY <5>1
      <4>3. CASE k > m
        <5>1. k - 1 \in 1 .. Len(r) /\ ~(k - 1 < m) /\ (k - 1) + 1 = k
          BY <3>3, <3>7, <4>3
        <5>2. r[k - 1] = s[k]
          BY <3>8, <5>1
        <5> QED BY <5>1, <5>2
      <4> QED BY <3>3, <4>1, <4>2, <4>3
    <3>10. \A i \in 1 .. Len(r) : \E k \in 1 .. Len(s) : r[i] = s[k]
      <4> SUFFICES ASSUME NEW i \in 1 .. Len(r) PROVE \E k \in 1 .. Len(s) : r[i] = s[k]
        OBVIOUS
      <4>1. i \in 1 .. Len(s) /\ i + 1 \in 1 .. Len(s)
        BY <3>7
      <4> QED BY <3>8, <4>1
    <3> QED BY <3>7, <3>9, <3>10
  <2> QED BY <2>1, <2>2
<1> HIDE DEF r
<1> DEFINE moved == Append(r, e)
<1>2. moved \in Seq(S) /\ Len(moved) = Len(r) + 1
      /\ \A i \in 1 .. Len(moved) : moved[i] = IF i <= Len(r) THEN r[i] ELSE e
  BY <1>1
<1> HIDE DEF moved
<1>3. ToSet(moved) \subseteq ToSet(s) \cup {e}
  BY <1>1, <1>2 DEF ToSet
<1>4. ToSet(s) \subseteq ToSet(moved)
  <2> SUFFICES ASSUME NEW k \in 1 .. Len(s) PROVE \E j \in 1 .. Len(moved) : moved[j] = s[k]
    BY <1>2 DEF ToSet
  <2>1. CASE s[k] = e
    <3>1. Len(moved) \in 1 .. Len(moved) /\ moved[Len(moved)] = e
      BY <1>1, <1>2
    <3> QED BY <2>1, <3>1
  <2>2. CASE s[k] # e
    <3>1. PICK i \in 1 .. Len(r) : r[i] = s[k]
      BY <1>1, <2>2
    <3>2. i \in 1 .. Len(moved) /\ moved[i] = r[i]
      BY <1>1, <1>2
    <3> QED BY <3>1, <3>2
  <2> QED BY <2>1, <2>2
<1>5. e \in ToSet(moved)
  <2>1. Len(moved) \in 1 .. Len(moved) /\ moved[Len(moved)] = e
    BY <1>1, <1>2
  <2> QED BY <1>2, <2>1 DEF ToSet
<1> QED BY <1>2, <1>3, <1>4, <1>5 DEF r, moved

\* Nothing is calculated or closed at first.
LEMMA FiguresInitInv == FiguresInit => FiguresInv
<1> SUFFICES ASSUME FiguresInit PROVE FiguresInv
  OBVIOUS
<1>1. CalculationsKept
  BY DEF FiguresInit, CalculationsKept, ToSet
<1>2. ClosingsKept
  BY DEF FiguresInit, ClosingsKept
<1> QED BY <1>1, <1>2, FS_EmptySet DEF FiguresInit, FiguresInv

\* More transactions and flows keep what was made of fewer.
LEMMA MoreKeeps ==
  ASSUME CalculationsKept, ClosingsKept, ledger \subseteq ledger', flows \subseteq flows',
         UNCHANGED <<status, kpis, recent, snapshot>>
  PROVE  CalculationsKept' /\ ClosingsKept'
<1>1. \A p : Of(ledger, {p}) \subseteq Of(ledger', {p}) /\ Of(flows, {p}) \subseteq Of(flows', {p})
  BY DEF Of
<1>2. \A p : IsCalculated(p) => IsCalculated(p)'
  BY <1>1 DEF IsCalculated, CalculatedFrom
<1>3. CalculationsKept'
  BY <1>2 DEF CalculationsKept
<1>4. ClosingsKept'
  BY <1>1 DEF ClosingsKept
<1> QED BY <1>3, <1>4

\* A transaction is recorded beside those that figures are made of.
LEMMA RecordKeeps ==
  ASSUME FiguresInv, NEW t \in Txs, RecordTransaction(t)
  PROVE  FiguresInv'
<1>1. UNCHANGED <<ledger, flows, status, kpis, recent, snapshot, engineUp>>
  BY DEF RecordTransaction
<1>2. CalculationsKept' /\ ClosingsKept'
  BY <1>1, MoreKeeps DEF FiguresInv
<1>3. pending' \subseteq Txs /\ ledger' \subseteq Txs \ pending'
  BY <1>1 DEF FiguresInv, RecordTransaction
<1> QED BY <1>1, <1>2, <1>3 DEF FiguresInv

\* A validation adds a transaction to those that figures may be made of.
LEMMA ValidateKeeps ==
  ASSUME FiguresInv, NEW t \in Txs, ValidateTransaction(t)
  PROVE  FiguresInv'
<1>1. CalculationsKept' /\ ClosingsKept'
  BY MoreKeeps DEF FiguresInv, ValidateTransaction
<1>2. IsFiniteSet(ledger')
  BY FS_AddElement DEF FiguresInv, ValidateTransaction
<1> QED BY <1>1, <1>2 DEF FiguresInv, ValidateTransaction

\* So does a planned flow.
LEMMA PlanKeeps ==
  ASSUME FiguresInv, NEW f \in Plans, PlanFlow(f)
  PROVE  FiguresInv'
<1>1. CalculationsKept' /\ ClosingsKept'
  BY MoreKeeps DEF FiguresInv, PlanFlow
<1>2. IsFiniteSet(flows')
  BY FS_AddElement DEF FiguresInv, PlanFlow
<1> QED BY <1>1, <1>2 DEF FiguresInv, PlanFlow

\* A calculation makes the values of its period and puts it at the end of recent.
LEMMA CalculateKeeps ==
  ASSUME FiguresInv, NEW p \in Period, CalculateForPeriod(p)
  PROVE  FiguresInv'
<1>1. UNCHANGED <<pending, ledger, flows, status, snapshot, engineUp>>
  BY DEF CalculateForPeriod
<1>2. recent' \in Seq(Period) /\ ToSet(recent') = ToSet(recent) \cup {p}
  BY MovedToEnd DEF FiguresInv, CalculationsKept, CalculateForPeriod
<1>3. /\ kpis'[p] = Stored(Computed(Of(ledger, {p}), Of(flows, {p}), BudgetOf(p), engineUp))
      /\ \A q \in Period : q # p => kpis'[q] = kpis[q]
      /\ kpis' = [q \in Period |-> kpis'[q]]
  BY DEF FiguresInv, CalculationsKept, CalculateForPeriod
<1>4. IsCalculated(p)'
  <2>1. Of(ledger, {p})' = Of(ledger, {p}) /\ Of(flows, {p})' = Of(flows, {p})
    BY <1>1
  <2> QED BY <1>3, <2>1 DEF IsCalculated, CalculatedFrom, FiguresInv
<1>5. \A q \in Period : q # p /\ IsCalculated(q) => IsCalculated(q)'
  BY <1>1, <1>3 DEF IsCalculated, CalculatedFrom
<1>6. ToSet(recent) \subseteq Period
  BY DEF FiguresInv, CalculationsKept, ToSet
<1>7. CalculationsKept'
  BY <1>2, <1>3, <1>4, <1>5, <1>6 DEF FiguresInv, CalculationsKept
<1>8. ClosingsKept'
  BY <1>1 DEF FiguresInv, ClosingsKept
<1> QED BY <1>1, <1>7, <1>8 DEF FiguresInv

\* A closing makes the snapshot of its period of what the ledger holds of it.
LEMMA CloseKeeps ==
  ASSUME FiguresInv, NEW p \in Period, ClosePeriod(p)
  PROVE  FiguresInv'
<1>1. UNCHANGED <<pending, ledger, flows, kpis, recent, engineUp>>
  BY DEF ClosePeriod
<1>2. CalculationsKept'
  BY <1>1 DEF FiguresInv, CalculationsKept, IsCalculated, CalculatedFrom
<1> DEFINE closed == Of(ledger, {p})
<1>3. /\ snapshot' = [q \in Period |-> snapshot'[q]]
      /\ snapshot'[p] = [figures |-> SnapshotOf(closed), of |-> closed]
      /\ \A q \in Period : q # p => snapshot'[q] = snapshot[q]
  BY DEF FiguresInv, ClosingsKept, ClosePeriod
<1>4. /\ status' \in [Period -> {"OPEN", "CLOSED"}]
      /\ status'[p] = "CLOSED"
      /\ \A q \in Period : q # p => status'[q] = status[q]
  BY DEF FiguresInv, ClosePeriod
<1>5. snapshot'[p].of = closed /\ snapshot'[p].figures = SnapshotOf(closed)
  BY <1>3
<1>6. \A q \in Period : Of(ledger, {q})' = Of(ledger, {q})
  BY <1>1
<1> HIDE DEF closed
<1>7. \A q \in Period : q # p =>
        /\ status'[q] = "OPEN" => snapshot'[q] = [figures |-> NoSnapshot, of |-> {}]
        /\ status'[q] = "CLOSED" => /\ snapshot'[q].of \subseteq Of(ledger, {q})'
                                    /\ snapshot'[q].figures = SnapshotOf(snapshot'[q].of)
  BY <1>3, <1>4, <1>6 DEF FiguresInv, ClosingsKept
<1>8. snapshot'[p].of \subseteq Of(ledger, {p})' /\ snapshot'[p].figures = SnapshotOf(snapshot'[p].of)
  BY <1>5, <1>6 DEF closed
<1>9. ClosingsKept'
  BY <1>3, <1>4, <1>7, <1>8 DEF ClosingsKept
<1> QED BY <1>1, <1>2, <1>4, <1>9 DEF FiguresInv

\* Every step keeps the invariant.
LEMMA FiguresStep == FiguresInv /\ [FiguresNext]_figuresVars => FiguresInv'
<1> SUFFICES ASSUME FiguresInv, [FiguresNext]_figuresVars PROVE FiguresInv'
  OBVIOUS
<1>1. ASSUME NEW t \in Txs, ValidateTransaction(t) PROVE FiguresInv'
  BY <1>1, ValidateKeeps
<1>2. ASSUME NEW f \in Plans, PlanFlow(f) PROVE FiguresInv'
  BY <1>2, PlanKeeps
<1>3. ASSUME NEW p \in Period, CalculateForPeriod(p) PROVE FiguresInv'
  BY <1>3, CalculateKeeps
<1>4. ASSUME NEW p \in Period, ClosePeriod(p) PROVE FiguresInv'
  BY <1>4, CloseKeeps
<1>5. CASE EngineStopsOrStarts
  <2>1. engineUp' \in BOOLEAN /\ UNCHANGED <<pending, ledger, flows, status, kpis, recent, snapshot>>
    BY <1>5 DEF EngineStopsOrStarts
  <2>2. CalculationsKept' /\ ClosingsKept'
    BY <2>1, MoreKeeps DEF FiguresInv
  <2> QED BY <2>1, <2>2 DEF FiguresInv
<1>6. CASE UNCHANGED figuresVars
  <2>1. UNCHANGED <<pending, ledger, flows, status, kpis, recent, snapshot, engineUp>>
    BY <1>6 DEF figuresVars
  <2>2. CalculationsKept' /\ ClosingsKept'
    BY <2>1, MoreKeeps DEF FiguresInv
  <2> QED BY <2>1, <2>2 DEF FiguresInv
<1>7. ASSUME NEW t \in Txs, RecordTransaction(t) PROVE FiguresInv'
  BY <1>7, RecordKeeps
<1> QED BY <1>1, <1>2, <1>3, <1>4, <1>5, <1>6, <1>7 DEF FiguresNext

\* What the figures are made of, in every reachable state.
LEMMA FiguresAlways == FiguresSpec => []FiguresInv
BY FiguresInitInv, FiguresStep, PTL DEF FiguresSpec

-----------------------------------------------------------------------------
(* The actual amounts of budget lines.                                     *)

\* The sum over one element is its figure.
LEMMA SumOfSingle ==
  ASSUME NEW x, NEW g, g[x] \in Int
  PROVE  SumOf(g, {x}) = g[x]
<1>1. IsFiniteSet({x}) /\ {x} \ {x} = {}
  BY FS_Singleton
<1>2. SumOf(g, {x}) = g[x] + SumOf(g, {x} \ {x})
  BY <1>1, SumOfRemove
<1> QED BY <1>1, <1>2, SumOfEmpty

\* Figures of the other sign add up to the sum of the other sign.
LEMMA SumOfOpposites ==
  ASSUME NEW S, IsFiniteSet(S), NEW f, NEW g, \A x \in S : g[x] \in Int /\ f[x] = -g[x]
  PROVE  SumOf(f, S) = -SumOf(g, S)
<1> DEFINE Q == {s \in SUBSET S : SumOf(f, s) = -SumOf(g, s)}
<1>1. ASSUME NEW s \in SUBSET S, \A x \in s : s \ {x} \in Q PROVE s \in Q
  <2>1. CASE s = {}
    BY <2>1, SumOfEmpty
  <2>2. CASE s # {}
    <3>1. PICK x : x \in s
      BY <2>2
    <3>2. IsFiniteSet(s) /\ IsFiniteSet(s \ {x})
      BY FS_Subset
    <3>3. SumOf(f, s) = f[x] + SumOf(f, s \ {x}) /\ SumOf(g, s) = g[x] + SumOf(g, s \ {x})
      BY <3>1, <3>2, SumOfRemove
    <3>4. SumOf(g, s \ {x}) \in Int /\ g[x] \in Int
      BY <3>1, <3>2, SumOfInt
    <3>5. SumOf(f, s \ {x}) = -SumOf(g, s \ {x}) /\ f[x] = -g[x]
      BY <1>1, <3>1
    <3> QED BY <3>3, <3>4, <3>5
  <2> QED BY <2>1, <2>2
<1>2. SUBSET S \subseteq Q
  <2> HIDE DEF Q
  <2> QED BY <1>1, SubsetInduction
<1> QED BY <1>2

\* The magnitude of a sum against the sum of the magnitudes.
LEMMA SumOfMagnitudes ==
  ASSUME NEW S, IsFiniteSet(S), \A t \in S : t.amount \in Int
  PROVE  LET sum == Total(S, LAMBDA t : t.amount)
             all == Total(S, LAMBDA t : Magnitude(t.amount))
         IN  /\ sum \in Int /\ all \in Int
             /\ OneSign(S) => Magnitude(sum) = all
             /\ ~OneSign(S) => Magnitude(sum) < all
<1> DEFINE g == [t \in S |-> t.amount]
           m == [t \in S |-> Magnitude(t.amount)]
           A == {t \in S : t.amount >= 0}
           p == SumOf(g, A)
           n == SumOf(m, S \ A)
<1>1. \A t \in S : /\ g[t] \in Int /\ m[t] \in Nat
                   /\ t \in A => g[t] \in Nat /\ m[t] = g[t]
                   /\ t \notin A => m[t] # 0 /\ g[t] = -m[t]
  BY DEF Magnitude
<1>2. IsFiniteSet(A) /\ IsFiniteSet(S \ A) /\ A \in SUBSET S
  BY FS_Subset
<1>total. Total(S, LAMBDA t : t.amount) = SumOf(g, S) /\ Total(S, LAMBDA t : Magnitude(t.amount)) = SumOf(m, S)
  BY AmountSums, MagnitudeSums
<1>sign. /\ OneSign(S) => A = S \/ \A t \in A : g[t] = 0
         /\ ~OneSign(S) => A # S /\ \E t \in A : g[t] # 0
  BY DEF OneSign
<1> HIDE DEF g, m, A
<1>3. SumOf(m, A) = p
  BY <1>1, <1>2, SumOfSame
<1>4. SumOf(g, S \ A) = -n
  BY <1>1, <1>2, SumOfOpposites
<1>5. p \in Nat /\ n \in Nat
  BY <1>1, <1>2, SumOfNaturals
<1>6. SumOf(g, S) = p + SumOf(g, S \ A) /\ SumOf(m, S) = SumOf(m, A) + n
  BY <1>1, <1>2, SumOfParts
<1>7. n = 0 => \A t \in S \ A : m[t] = 0
  BY <1>1, <1>2, SumOfNaturals
<1>8. p = 0 => \A t \in A : g[t] = 0
  BY <1>1, <1>2, SumOfNaturals
<1>9. S \ A = {} => n = 0
  BY SumOfEmpty
<1>10. (\A t \in A : g[t] = 0) => p = 0
  <2> SUFFICES ASSUME \A t \in A : g[t] = 0 PROVE p = 0
    OBVIOUS
  <2>1. \A t \in A : g[t] \in Int /\ g[t] = -g[t]
    OBVIOUS
  <2>2. SumOf(g, A) = -SumOf(g, A)
    BY <1>2, <2>1, SumOfOpposites
  <2> QED BY <1>5, <2>2
<1> HIDE DEF p, n
<1>11. SumOf(g, S) = p - n /\ SumOf(m, S) = p + n
  BY <1>3, <1>4, <1>5, <1>6
<1>12. CASE OneSign(S)
  <2>1. p = 0 \/ n = 0
    BY <1>2, <1>9, <1>10, <1>12, <1>sign
  <2>2. Magnitude(p - n) = p + n
    BY <1>5, <2>1 DEF Magnitude
  <2> QED BY <1>5, <1>11, <1>12, <1>total, <2>2
<1>13. CASE ~OneSign(S)
  <2>1. p # 0 /\ n # 0
    BY <1>1, <1>2, <1>7, <1>8, <1>13, <1>sign
  <2>2. Magnitude(p - n) < p + n
    BY <1>5, <2>1 DEF Magnitude
  <2> QED BY <1>5, <1>11, <1>13, <1>total, <2>2
<1> QED BY <1>12, <1>13

\* The actual amounts of a line, on the dashboard, on the budget page and in its row.
LEMMA ActualsSame == FiguresInv => ActualsAgree
<1> SUFFICES ASSUME FiguresInv, NEW l \in Lines
             PROVE  /\ BudgetActual(l) = DashboardActual(l)
                    /\ IF OneSign(Matching(l)) THEN SyncedActual(l) = BudgetActual(l)
                                               ELSE SyncedActual(l) < BudgetActual(l)
                    /\ Alone(l) => BudgetVariance(l).pct = Variance({l.period})[l.label].pct
  BY DEF ActualsAgree
<1>1. BudgetActual(l) = DashboardActual(l)
  BY DEF BudgetActual, DashboardActual
<1>2. IsFiniteSet(Matching(l)) /\ \A t \in Matching(l) : t.amount \in Int
  BY FS_Subset, FiguresAssumption DEF Matching, FiguresInv
<1>3. /\ BudgetActual(l) \in Int
      /\ OneSign(Matching(l)) => SyncedActual(l) = BudgetActual(l)
      /\ ~OneSign(Matching(l)) => SyncedActual(l) < BudgetActual(l)
  BY <1>2, SumOfMagnitudes DEF BudgetActual, SyncedActual
<1>4. ASSUME Alone(l) PROVE BudgetVariance(l).pct = Variance({l.period})[l.label].pct
  <2> DEFINE lines == ReferenceLines({l.period})
             group == {k \in lines : k.label = l.label}
             budgeted == Total(group, LAMBDA k : k.amount)
             actual == Total(group, DashboardActual)
  <2>1. group = {l} /\ l \in lines
    BY <1>4 DEF Alone, ReferenceLines
  <2>2. Variance({l.period})[l.label] = [budgeted |-> budgeted, actual |-> actual, pct |-> GapPct(actual, budgeted)]
    BY <2>1 DEF Variance
  <2>3. IsFiniteSet({l}) /\ l.amount \in Int
    BY FS_Singleton, FiguresAssumption
  <2>4. budgeted = l.amount
    <3>1. budgeted = SumOf([k \in {l} |-> k.amount], {l})
      BY <2>1, <2>3, AmountSums
    <3> QED BY <2>3, <3>1, SumOfSingle
  <2>5. actual = DashboardActual(l)
    <3>1. actual = SumOf([k \in {l} |-> DashboardActual(k)], {l})
      BY <2>1, <2>3, ActualSums
    <3> QED BY <1>1, <1>3, <3>1, SumOfSingle
  <2> HIDE DEF budgeted, actual
  <2>6. Variance({l.period})[l.label].pct = GapPct(actual, budgeted)
    BY <2>2
  <2>7. BudgetVariance(l).pct = GapPct(BudgetActual(l), l.amount)
    BY DEF BudgetVariance
  <2> QED BY <1>1, <2>4, <2>5, <2>6, <2>7
<1> QED BY <1>1, <1>3, <1>4

-----------------------------------------------------------------------------
(* The figures are numbers.                                                *)

Rows(txs) == IsFiniteSet(txs) /\ \A t \in txs : t.amount \in Int

\* Totals are integers, and those of magnitudes are not negative.
LEMMA TotalsTyped ==
  ASSUME NEW txs, Rows(txs)
  PROVE  /\ Total(txs, LAMBDA t : t.amount) \in Int
         /\ Total(txs, LAMBDA t : Magnitude(t.amount)) \in Nat
<1> DEFINE g == [t \in txs |-> t.amount]
           m == [t \in txs |-> Magnitude(t.amount)]
<1>1. \A t \in txs : g[t] \in Int /\ m[t] \in Nat
  BY DEF Rows, Magnitude
<1>2. Total(txs, LAMBDA t : t.amount) = SumOf(g, txs) /\ Total(txs, LAMBDA t : Magnitude(t.amount)) = SumOf(m, txs)
  BY AmountSums, MagnitudeSums DEF Rows
<1> HIDE DEF g, m
<1>3. SumOf(g, txs) \in Int /\ SumOf(m, txs) \in Nat
  BY <1>1, SumOfInt, SumOfNaturals DEF Rows
<1> QED BY <1>2, <1>3

\* The transactions of some accounts, or some flows, are rows too.
LEMMA RowsOf ==
  ASSUME NEW rows, Rows(rows), NEW some \in SUBSET rows
  PROVE  Rows(some)
BY FS_Subset DEF Rows

\* So are the lines of the income statement.
LEMMA LinesTyped ==
  ASSUME NEW txs, Rows(txs), NEW ref
  PROVE  ProductLine(txs, ref) \in Int /\ ChargeLine(txs, ref) \in Nat
<1>1. On(txs, Products[ref]) \in SUBSET txs /\ On(txs, Charges[ref]) \in SUBSET txs
  BY DEF On
<1>2. Rows(On(txs, Products[ref])) /\ Rows(On(txs, Charges[ref]))
  BY <1>1, RowsOf
<1> QED BY <1>2, TotalsTyped DEF ProductLine, ChargeLine

\* The subtotals that the screens take from the income statement.
LEMMA IncomeTyped ==
  ASSUME NEW txs, Rows(txs)
  PROVE  Income(txs).XB \in Int /\ Income(txs).XD \in Int /\ Income(txs).XE \in Int /\ Income(txs).XI \in Int
         /\ Income(txs).RA \in Int
<1> DEFINE P == [ref \in DOMAIN Products |-> ProductLine(txs, ref)]
           C == [ref \in DOMAIN Charges  |-> ChargeLine(txs, ref)]
<1>1. /\ P.TA \in Int /\ P.TB \in Int /\ P.TC \in Int /\ P.TD \in Int /\ P.TF \in Int /\ P.TG \in Int
      /\ P.TH \in Int /\ P.TI \in Int /\ P.TJ \in Int /\ P.TK \in Int /\ P.TL \in Int /\ P.TM \in Int
      /\ P.TN \in Int /\ P.TO \in Int
  BY LinesTyped DEF Products
<1>2. /\ C.RA \in Int /\ C.RB \in Int /\ C.RC \in Int /\ C.RD \in Int /\ C.RE \in Int /\ C.RF \in Int
      /\ C.RG \in Int /\ C.RH \in Int /\ C.RI \in Int /\ C.RJ \in Int /\ C.RK \in Int /\ C.RL \in Int
      /\ C.RM \in Int /\ C.RN \in Int /\ C.RO \in Int /\ C.RP \in Int /\ C.RQ \in Int /\ C.RS \in Int
  BY LinesTyped DEF Charges
<1>3. Income(txs) = Cascade(P, C)
  BY DEF Income
<1> HIDE DEF P, C
<1> DEFINE XA == P.TA - C.RA - C.RB
           XB == XA + P.TB + P.TC + P.TD
           XC == XB + P.TF + P.TG + P.TH + P.TI - C.RC - C.RD - C.RE - C.RF - C.RG - C.RH - C.RI - C.RJ
           XD == XC - C.RK
           XE == XD + P.TJ - C.RL
           XF == P.TK + P.TL + P.TM - C.RM - C.RN
           XG == XE + XF
           XH == P.TN + P.TO - C.RO - C.RP
           XI == XG + XH - C.RQ - C.RS
<1>4. /\ Cascade(P, C).XB = XB /\ Cascade(P, C).XD = XD /\ Cascade(P, C).XE = XE
      /\ Cascade(P, C).XI = XI /\ Cascade(P, C).RA = C.RA
  BY DEF Cascade
<1>5. XB \in Int
  BY <1>1, <1>2
<1> HIDE DEF XB
<1>6. XD \in Int
  BY <1>1, <1>2, <1>5
<1> HIDE DEF XD
<1>7. XE \in Int
  BY <1>1, <1>2, <1>6
<1>8. XF \in Int /\ XH \in Int
  BY <1>1, <1>2
<1> HIDE DEF XE, XF, XH
<1>9. XI \in Int
  BY <1>2, <1>7, <1>8
<1> HIDE DEF XI
<1> QED BY <1>2, <1>3, <1>4, <1>5, <1>6, <1>7, <1>9

\* Values before they are stored.
Fractions == Int \X (Nat \ {0})

Indicators ==
  {"CA", "EBITDA", "CHARGES", "MARGE", "MARGE_EBITDA", "EBITDA_MARGIN", "OPERATING_MARGIN", "GROSS_MARGIN", "NET_MARGIN",
   "COST_PER_REVENUE", "OPEX_RATIO", "PAYROLL_RATIO", "ROE", "ROA", "ROCE", "ASSET_TURNOVER", "DSO", "DPO", "BFR",
   "CURRENT_RATIO", "QUICK_RATIO", "CASH_RATIO", "RUNWAY"}

\* A division gives a fraction, whatever the divisor.
LEMMA FractionTyped ==
  ASSUME NEW n \in Int, NEW d \in Int
  PROVE  Fraction(n, d) \in Fractions /\ Percent(n, d) \in Fractions
BY DEF Fraction, Percent, Fractions

\* What the engine's lines or the prefixes of the accounts give.
LEMMA BaseTyped ==
  ASSUME NEW txs, Rows(txs), NEW planned, NEW up
  PROVE  LET base == Base(txs, planned, up)
             sales == Total(On(txs, KpiPrefixes.CA), LAMBDA t : Magnitude(t.amount))
             spent == Total(On(txs, KpiPrefixes.CHARGES), LAMBDA t : Magnitude(t.amount))
         IN  /\ base.ca \in Int /\ base.ebitda \in Int /\ base.net \in Int
             /\ Answered(txs, planned, up) => base.ca = Income(txs).XB /\ base.ebitda = Income(txs).XD
             /\ ~Answered(txs, planned, up) => base.ca = sales /\ base.ebitda = sales - spent
<1> DEFINE sales == Total(On(txs, KpiPrefixes.CA), LAMBDA t : Magnitude(t.amount))
           spent == Total(On(txs, KpiPrefixes.CHARGES), LAMBDA t : Magnitude(t.amount))
<1>1. On(txs, KpiPrefixes.CA) \in SUBSET txs /\ On(txs, KpiPrefixes.CHARGES) \in SUBSET txs
  BY DEF On
<1>2. sales \in Nat /\ spent \in Nat
  BY <1>1, RowsOf, TotalsTyped
<1>3. Base(txs, planned, up) = IF Answered(txs, planned, up)
        THEN [ca |-> Income(txs).XB, ebitda |-> Income(txs).XD, net |-> Income(txs).XI]
        ELSE [ca |-> sales, ebitda |-> sales - spent, net |-> 0]
  BY DEF Base
<1>4. Income(txs).XB \in Int /\ Income(txs).XD \in Int /\ Income(txs).XI \in Int
  BY IncomeTyped
<1> HIDE DEF sales, spent
<1>5. CASE Answered(txs, planned, up)
  BY <1>3, <1>4, <1>5
<1>6. CASE ~Answered(txs, planned, up)
  <2>1. Base(txs, planned, up) = [ca |-> sales, ebitda |-> sales - spent, net |-> 0]
    BY <1>3, <1>6
  <2>2. sales - spent \in Int
    BY <1>2
  <2> QED BY <1>2, <1>6, <2>1, <2>2 DEF sales, spent
<1> QED BY <1>5, <1>6 DEF sales, spent

\* A calculation gives a fraction for every indicator, the first three amounts.
LEMMA ComputedTyped ==
  ASSUME NEW txs, Rows(txs), NEW planned, Rows(planned), NEW budget \in Int, NEW up
  PROVE  LET values == Computed(txs, planned, budget, up)
             base   == Base(txs, planned, up)
         IN  /\ DOMAIN values = Indicators
             /\ \A code \in Indicators : values[code] \in Fractions
             /\ values["CA"] = <<base.ca, 100>> /\ values["EBITDA"] = <<base.ebitda, 100>>
             /\ values["CHARGES"] = <<base.ca - base.ebitda, 100>>
<1> DEFINE Added(prefixes) == Total(On(txs, prefixes), LAMBDA t : Magnitude(t.amount))
           Flow(dir) == Total({p \in planned : p.dir = dir}, LAMBDA p : p.amount)
           base      == Base(txs, planned, up)
           ca        == base.ca
           ebitda    == base.ebitda
           net       == base.net
           charges   == ca - ebitda
           purchases == Added(KpiPrefixes.ACHATS)
           opex      == Added(KpiPrefixes.OPEX)
           payroll   == Added(KpiPrefixes.MASSE_SALARIALE)
           in        == Flow("IN")
           out       == Flow("OUT")
           margin    == Percent(ebitda, ca)
           values    == Computed(txs, planned, budget, up)
<1>1. \A prefixes : Added(prefixes) \in Int
  <2> SUFFICES ASSUME NEW prefixes PROVE Added(prefixes) \in Int
    OBVIOUS
  <2>1. On(txs, prefixes) \in SUBSET txs
    BY DEF On
  <2>2. Rows(On(txs, prefixes))
    BY <2>1, RowsOf
  <2>3. Added(prefixes) \in Nat
    BY <2>2, TotalsTyped
  <2> HIDE DEF Added
  <2> QED BY <2>3
<1>2. \A dir : Flow(dir) \in Int
  <2> SUFFICES ASSUME NEW dir PROVE Flow(dir) \in Int
    OBVIOUS
  <2>1. {p \in planned : p.dir = dir} \in SUBSET planned
    OBVIOUS
  <2> QED BY <2>1, RowsOf, TotalsTyped
<1>3. ca \in Int /\ ebitda \in Int /\ net \in Int
  BY BaseTyped
<1>4. purchases \in Int /\ opex \in Int /\ payroll \in Int /\ in \in Int /\ out \in Int
  BY <1>1, <1>2
<1>5. values =
       [CA |-> <<ca, 100>>, EBITDA |-> <<ebitda, 100>>, CHARGES |-> <<charges, 100>>,
        MARGE            |-> margin,
        MARGE_EBITDA     |-> margin,
        EBITDA_MARGIN    |-> margin,
        OPERATING_MARGIN |-> Percent(ca - charges, ca),
        GROSS_MARGIN     |-> Percent(ca - purchases, ca),
        NET_MARGIN       |-> Percent(net, ca),
        COST_PER_REVENUE |-> Percent(charges, ca),
        OPEX_RATIO       |-> Percent(opex, ca),
        PAYROLL_RATIO    |-> Percent(payroll, ca),
        ROE  |-> Percent(net, budget),
        ROA  |-> Percent(net, budget),
        ROCE |-> Percent(ebitda, budget),
        ASSET_TURNOVER |-> Fraction(ca, budget),
        DSO |-> IF ca > 0 THEN <<73, 1>> ELSE <<0, 1>>,
        DPO |-> IF purchases > 0 THEN <<219, 2>> ELSE <<0, 1>>,
        BFR |-> <<2 * ca - 3 * purchases, 1000>>,
        CURRENT_RATIO |-> Fraction(in, out),
        QUICK_RATIO   |-> Fraction(7 * in, 10 * out),
        CASH_RATIO    |-> Fraction(in - out, out),
        RUNWAY        |-> Fraction(13 * (in - out), out)]
  BY DEF Computed
<1> HIDE DEF values, ca, ebitda, net, purchases, opex, payroll, in, out
<1>6. charges \in Int /\ ca - charges \in Int /\ ca - purchases \in Int /\ 7 * in \in Int /\ 10 * out \in Int
      /\ in - out \in Int /\ 13 * (in - out) \in Int /\ 2 * ca - 3 * purchases \in Int
  BY <1>3, <1>4
<1>7. /\ margin \in Fractions /\ Percent(ca - charges, ca) \in Fractions /\ Percent(ca - purchases, ca) \in Fractions
      /\ Percent(net, ca) \in Fractions /\ Percent(charges, ca) \in Fractions /\ Percent(opex, ca) \in Fractions
      /\ Percent(payroll, ca) \in Fractions /\ Percent(net, budget) \in Fractions
      /\ Percent(ebitda, budget) \in Fractions /\ Fraction(ca, budget) \in Fractions
      /\ Fraction(in, out) \in Fractions /\ Fraction(7 * in, 10 * out) \in Fractions
      /\ Fraction(in - out, out) \in Fractions /\ Fraction(13 * (in - out), out) \in Fractions
  <2> HIDE DEF charges
  <2> QED BY <1>3, <1>4, <1>6, FractionTyped
<1>8. /\ \A n \in Int : <<n, 100>> \in Fractions
      /\ \A n \in Int : <<n, 1000>> \in Fractions
      /\ <<0, 1>> \in Fractions /\ <<73, 1>> \in Fractions /\ <<219, 2>> \in Fractions
  BY DEF Fractions
<1> HIDE DEF charges, margin
<1>9. DOMAIN values = Indicators
  BY <1>5 DEF Indicators
<1>10. values["CA"] = <<ca, 100>> /\ values["EBITDA"] = <<ebitda, 100>> /\ values["CHARGES"] = <<charges, 100>>
  BY <1>5
<1>11. \A code \in Indicators : values[code] \in Fractions
  <2>1. /\ values["CA"] \in Fractions /\ values["EBITDA"] \in Fractions /\ values["CHARGES"] \in Fractions
    BY <1>3, <1>6, <1>8, <1>10
  <2>2. /\ values["MARGE_EBITDA"] \in Fractions /\ values["EBITDA_MARGIN"] \in Fractions
        /\ values["OPERATING_MARGIN"] \in Fractions /\ values["GROSS_MARGIN"] \in Fractions
        /\ values["NET_MARGIN"] \in Fractions /\ values["COST_PER_REVENUE"] \in Fractions
        /\ values["OPEX_RATIO"] \in Fractions /\ values["PAYROLL_RATIO"] \in Fractions
        /\ values["ROE"] \in Fractions /\ values["ROA"] \in Fractions /\ values["ROCE"] \in Fractions
        /\ values["ASSET_TURNOVER"] \in Fractions /\ values["MARGE"] \in Fractions
    BY <1>5, <1>7
  <2>3. /\ values["DSO"] \in Fractions /\ values["DPO"] \in Fractions /\ values["BFR"] \in Fractions
    <3>1. /\ values["DSO"] = IF ca > 0 THEN <<73, 1>> ELSE <<0, 1>>
          /\ values["DPO"] = IF purchases > 0 THEN <<219, 2>> ELSE <<0, 1>>
          /\ values["BFR"] = <<2 * ca - 3 * purchases, 1000>>
      BY <1>5
    <3>2. <<2 * ca - 3 * purchases, 1000>> \in Fractions
      BY <1>6, <1>8
    <3>3. (IF ca > 0 THEN <<73, 1>> ELSE <<0, 1>>) \in Fractions
      BY <1>8
    <3>4. (IF purchases > 0 THEN <<219, 2>> ELSE <<0, 1>>) \in Fractions
      BY <1>8
    <3> HIDE DEF values
    <3> QED BY <3>1, <3>2, <3>3, <3>4
  <2>4. /\ values["CURRENT_RATIO"] \in Fractions /\ values["QUICK_RATIO"] \in Fractions
        /\ values["CASH_RATIO"] \in Fractions /\ values["RUNWAY"] \in Fractions
    BY <1>5, <1>7
  <2> HIDE DEF values
  <2> QED BY <2>1, <2>2, <2>3, <2>4 DEF Indicators
<1> QED BY <1>9, <1>10, <1>11 DEF values, charges, ca, ebitda

-----------------------------------------------------------------------------
(* Rounding, thresholds and severities.                                    *)

\* The integer division is the nearest from below.
LEMMA QuotientBounds ==
  ASSUME NEW a \in Nat, NEW k \in Nat \ {0}
  PROVE  a \div k \in Nat /\ k * (a \div k) <= a /\ a < k * (a \div k) + k
<1>1. a \div k \in Int /\ a % k \in 0 .. k - 1 /\ a = k * (a \div k) + (a % k)
  BY SMT
<1>2. k * (a \div k) \in Int
  BY <1>1
<1> DEFINE m == k * (a \div k)
<1>3. m \in Int /\ m <= a /\ a < m + k
  <2> HIDE DEF m
  <2>1. a = m + (a % k) /\ m \in Int
    BY <1>1, <1>2 DEF m
  <2> QED BY <1>1, <2>1
<1>4. a \div k >= 0
  <2> SUFFICES ASSUME a \div k <= -1 PROVE FALSE
    BY <1>1
  <2>1. m <= -k
    BY <1>1
  <2> HIDE DEF m
  <2> QED BY <1>3, <2>1
<1> QED BY <1>1, <1>3, <1>4

\* The outflows POST /cash-flow and POST /cash-flow/plans can store: those the cash
\* covers a whole number of weeks of, to half a hundredth of a week.  An outflow above
\* the cash and not above 200 times the cash is none of them, and is refused by the
\* INTEGER column (cash-flow.service.ts:300, 476-483).
THEOREM WholeRunways ==
  ASSUME NEW cash \in Nat, NEW out \in Nat \ {0}
  PROVE  /\ RunwayWeeks(cash, out, 1).whole <=>
              \E k \in Nat : 200 * (k * out) - out <= 200 * cash /\ 200 * cash < 200 * (k * out) + out
         /\ 199 * out > 200 * cash /\ out <= 200 * cash => ~RunwayWeeks(cash, out, 1).whole
<1> DEFINE a == 200 * cash + out
           n == 2 * out
           h == a \div n
           near(k) == 200 * (k * out) - out <= 200 * cash /\ 200 * cash < 200 * (k * out) + out
<1>1. RunwayWeeks(cash, out, 1).whole = (h % 100 = 0)
  <2>1. cash * 1 = cash /\ cash >= 0 /\ ~(out <= 0)
    OBVIOUS
  <2>2. Round2(cash, out) = h
    BY <2>1 DEF Round2
  <2> HIDE DEF h
  <2> QED BY <2>1, <2>2 DEF RunwayWeeks
<1>2. a \in Nat /\ n \in Nat \ {0}
  OBVIOUS
<1>3. h \in Nat /\ n * h <= a /\ a < n * h + n
  <2> HIDE DEF a, n
  <2> QED BY <1>2, QuotientBounds
<1> HIDE DEF h
<1>4. ASSUME h % 100 = 0 PROVE \E k \in Nat : near(k)
  <2>1. PICK k \in Nat : h = 100 * k
    <3>1. h = 100 * (h \div 100) + (h % 100) /\ h \div 100 \in Int
      BY <1>3, SMT
    <3>2. h \div 100 >= 0
      BY <1>3, <3>1, <1>4
    <3> QED BY <1>4, <3>1, <3>2
  <2>2. n * h = 200 * (k * out) /\ k * out \in Int
    BY <2>1
  <2> HIDE DEF near
  <2>3. near(k)
    BY <1>3, <2>2 DEF near
  <2> QED BY <2>3
<1>5. ASSUME NEW k \in Nat, near(k) PROVE h % 100 = 0
  <2>1. h = 100 * k
    <3> DEFINE g == 100 * k
    <3>1. n * g = 200 * (k * out) /\ n * g \in Int /\ g \in Nat
      OBVIOUS
    <3>2. n * g <= a /\ a < n * g + n
      BY <1>5, <3>1
    <3> HIDE DEF g, a, n
    <3>3. ~(g <= h - 1)
      <4> SUFFICES ASSUME g <= h - 1 PROVE FALSE
        OBVIOUS
      <4>1. n * g <= n * h - n
        BY <1>2, <1>3, <3>1
      <4> QED BY <1>2, <1>3, <3>1, <3>2, <4>1
    <3>4. ~(h <= g - 1)
      <4> SUFFICES ASSUME h <= g - 1 PROVE FALSE
        OBVIOUS
      <4>1. n * h <= n * g - n
        BY <1>2, <1>3, <3>1
      <4> QED BY <1>2, <1>3, <3>1, <3>2, <4>1
    <3>5. h = g
      BY <1>3, <3>1, <3>3, <3>4
    <3> QED BY <3>5 DEF g
  <2> QED BY <2>1, SMT
<1>6. ASSUME NEW k \in Nat, near(k), 199 * out > 200 * cash, out <= 200 * cash PROVE FALSE
  <2>1. CASE k = 0
    BY <1>6, <2>1
  <2>2. CASE k >= 1
    <3>1. k * out >= out
      BY <2>2
    <3>2. k * out \in Int
      OBVIOUS
    <3> QED BY <1>6, <3>1, <3>2
  <2> QED BY <2>1, <2>2
<1> QED BY <1>1, <1>4, <1>5, <1>6

\* An amount is rounded to itself.
LEMMA RoundedAmount ==
  ASSUME NEW n \in Int
  PROVE  Rounded(<<n, 100>>) = n
<1> DEFINE m == Magnitude(200 * n) + 100
<1>1. CASE n < 0
  <2>1. m = 200 * (-n) + 100 /\ Rounded(<<n, 100>>) = -(m \div 200)
    BY <1>1 DEF Rounded, Magnitude
  <2>2. (200 * (-n) + 100) \div 200 = -n
    OBVIOUS
  <2> QED BY <2>1, <2>2
<1>2. CASE ~(n < 0)
  <2>1. m = 200 * n + 100 /\ Rounded(<<n, 100>>) = m \div 200
    BY <1>2 DEF Rounded, Magnitude
  <2>2. (200 * n + 100) \div 200 = n
    OBVIOUS
  <2> QED BY <2>1, <2>2
<1> QED BY <1>1, <1>2

\* Rounding moves a value by half a hundredth at most.
LEMMA RoundedBounds ==
  ASSUME NEW n \in Int, NEW d \in Nat \ {0}
  PROVE  LET r == Rounded(<<n, d>>) IN r \in Int /\ 2 * (d * r) - d <= 200 * n /\ 200 * n <= 2 * (d * r) + d
<1> DEFINE a == Magnitude(200 * n) + d
           k == 2 * d
           m == a \div k
           r == Rounded(<<n, d>>)
<1>1. a \in Nat /\ k \in Nat \ {0} /\ Magnitude(200 * n) \in Nat
  BY DEF Magnitude
<1>2. r = IF n < 0 THEN -m ELSE m
  BY DEF Rounded
<1>3. m \in Nat /\ k * m <= a /\ a < k * m + k
  <2> HIDE DEF a, k
  <2> QED BY <1>1, QuotientBounds
<1> HIDE DEF m, r
<1>4. k * m = 2 * (d * m) /\ d * m \in Int /\ d * (-m) = -(d * m)
  BY <1>3
<1>5. CASE n < 0
  <2>1. r = -m /\ a = d - 200 * n
    BY <1>2, <1>5 DEF Magnitude
  <2> QED BY <1>3, <1>4, <2>1 DEF r
<1>6. CASE ~(n < 0)
  <2>1. r = m /\ a = d + 200 * n
    BY <1>2, <1>6 DEF Magnitude
  <2> QED BY <1>3, <1>4, <2>1 DEF r
<1> QED BY <1>5, <1>6

\* A value and the same rounded are on the same side of a whole threshold that the
\* rounded one is not at.
LEMMA RoundedCompare ==
  ASSUME NEW n \in Int, NEW d \in Nat \ {0}, NEW t \in Int
  PROVE  LET r == Rounded(<<n, d>>)
         IN  /\ r \in Int
             /\ r < t => 100 * n < t * d
             /\ r > t => 100 * n > t * d
<1> DEFINE r == Rounded(<<n, d>>)
<1>1. r \in Int /\ 2 * (d * r) - d <= 200 * n /\ 200 * n <= 2 * (d * r) + d
  BY RoundedBounds
<1> HIDE DEF r
<1>2. d * r \in Int /\ t * d \in Int
  BY <1>1
<1>3. ASSUME r < t PROVE 100 * n < t * d
  <2>1. t * d = d * r + d * (t - r) /\ d * (t - r) >= d /\ d * (t - r) \in Int
    BY <1>1, <1>3
  <2> QED BY <1>1, <1>2, <2>1
<1>4. ASSUME r > t PROVE 100 * n > t * d
  <2>1. d * r = t * d + d * (r - t) /\ d * (r - t) >= d /\ d * (r - t) \in Int
    BY <1>1, <1>4
  <2> QED BY <1>1, <1>2, <2>1
<1> QED BY <1>1, <1>3, <1>4 DEF r

\* Thresholds are whole numbers of hundredths.
LEMMA ThresholdsTyped ==
  ASSUME NEW code \in DOMAIN Thresholds
  PROVE  Thresholds[code].warn \in Int /\ Thresholds[code].critical \in Int
BY DEF Thresholds

\* A severity depends on the side of the thresholds a value is on.
LEMMA SeveritySides ==
  ASSUME NEW code, NEW q \in Fractions, NEW value \in Int, ~AtThreshold(code, value),
         \A t \in Int : (value < t => 100 * q[1] < t * q[2]) /\ (value > t => 100 * q[1] > t * q[2])
  PROVE  /\ Severity(code, <<value, 100>>) = Severity(code, q)
         /\ code \notin LowerIsBetter => DashboardSeverity(code, q) = Severity(code, q)
<1>1. CASE code \notin DOMAIN Thresholds
  BY <1>1 DEF Severity, DashboardSeverity, Graded
<1>2. CASE code \in DOMAIN Thresholds
  <2> DEFINE w == Thresholds[code].warn
             c == Thresholds[code].critical
  <2>1. w \in Int /\ c \in Int /\ value # w /\ value # c
    BY <1>2, ThresholdsTyped DEF AtThreshold
  <2>2. q[1] \in Int /\ q[2] \in Int
    BY DEF Fractions
  <2>3. Severity(code, q) =
          IF (IF code \in LowerIsBetter THEN 100 * q[1] > c * q[2] ELSE 100 * q[1] < c * q[2]) THEN "CRITICAL"
          ELSE IF (IF code \in LowerIsBetter THEN 100 * q[1] > w * q[2] ELSE 100 * q[1] < w * q[2]) THEN "WARN"
          ELSE "INFO"
    BY <1>2 DEF Severity, Graded
  <2>4. Severity(code, <<value, 100>>) =
          IF (IF code \in LowerIsBetter THEN 100 * value > c * 100 ELSE 100 * value < c * 100) THEN "CRITICAL"
          ELSE IF (IF code \in LowerIsBetter THEN 100 * value > w * 100 ELSE 100 * value < w * 100) THEN "WARN"
          ELSE "INFO"
    BY <1>2 DEF Severity, Graded
  <2>5. DashboardSeverity(code, q) =
          IF 100 * q[1] <= c * q[2] THEN "CRITICAL" ELSE IF 100 * q[1] <= w * q[2] THEN "WARN" ELSE "INFO"
    BY <1>2 DEF DashboardSeverity, Graded
  <2> HIDE DEF w, c
  <2>6. ASSUME NEW t \in {w, c}
        PROVE  /\ t \in Int
               /\ 100 * value > t * 100 <=> 100 * q[1] > t * q[2]
               /\ 100 * value < t * 100 <=> 100 * q[1] < t * q[2]
               /\ 100 * q[1] <= t * q[2] <=> 100 * q[1] < t * q[2]
    <3>1. t \in Int /\ value # t
      BY <2>1
    <3>2. t * q[2] \in Int /\ 100 * q[1] \in Int
      BY <2>2, <3>1
    <3>3. CASE value < t
      <4>1. 100 * q[1] < t * q[2] /\ 100 * value < t * 100
        BY <3>1, <3>3
      <4> QED BY <3>1, <3>2, <4>1
    <3>4. CASE value > t
      <4>1. 100 * q[1] > t * q[2] /\ 100 * value > t * 100
        BY <3>1, <3>4
      <4> QED BY <3>1, <3>2, <4>1
    <3> QED BY <3>1, <3>3, <3>4
  <2>7. Severity(code, <<value, 100>>) = Severity(code, q)
    BY <2>3, <2>4, <2>6
  <2>8. code \notin LowerIsBetter => DashboardSeverity(code, q) = Severity(code, q)
    BY <2>3, <2>5, <2>6
  <2> QED BY <2>7, <2>8
<1> QED BY <1>1, <1>2

-----------------------------------------------------------------------------
(* What a screen shows of several periods.                                 *)

\* A selection is of periods there are.
LEMMA SelectedPeriods ==
  ASSUME NEW s \in Aggregates
  PROVE  Selected(s) \in SUBSET Period /\ IsFiniteSet(Selected(s))
<1>1. s.kind \in {"ytd", "quarter", "range"}
  BY DEF Aggregates
<1>2. \A year, from, to : Between(year, from, to) \in SUBSET Period
  BY DEF Between
<1>3. Selected(s) \in SUBSET Period
  BY <1>1, <1>2 DEF Selected
<1> QED BY <1>3, FiguresAssumption, FS_Subset

\* The period calculated last among some that have values is one of them.
LEMMA LatestIsOne ==
  ASSUME CalculationsKept, NEW periods, periods \cap ToSet(recent) # {}
  PROVE  Latest(periods) \in periods \cap ToSet(recent)
<1> DEFINE n == Len(recent)
           I == {i \in 1 .. n : recent[i] \in periods}
           R == OpToRel(<, Nat)
           D == {n - i : i \in I}
<1>1. n \in Nat /\ DOMAIN recent = 1 .. n
  BY DEF CalculationsKept
<1>2. I # {}
  BY <1>1 DEF ToSet
<1>3. Latest(periods) = recent[Max(I)]
  BY <1>2 DEF Latest, SelectLastInSeq
<1>4. Max(I) \in I
  <2>1. D \subseteq Nat /\ D # {}
    BY <1>1, <1>2
  <2>2. IsWellFoundedOn(R, Nat)
    BY NatLessThanWellFounded
  <2>3. PICK d \in D : \A e \in D : <<e, d>> \notin R
    <3> HIDE DEF D, R
    <3> QED BY <2>1, <2>2, WFMin
  <2>4. \A e \in D : ~(e < d)
    BY <2>1, <2>3 DEF OpToRel
  <2>5. PICK m \in I : d = n - m
    OBVIOUS
  <2>6. \A i \in I : m >= i
    <3> SUFFICES ASSUME NEW i \in I PROVE m >= i
      OBVIOUS
    <3>1. ~(n - i < n - m)
      BY <2>4, <2>5
    <3> QED BY <1>1, <2>5, <3>1
  <2> HIDE DEF I
  <2> QED BY <2>5, <2>6 DEF Max
<1> QED BY <1>1, <1>3, <1>4 DEF ToSet

\* Values that were calculated are fractions, and their rows are what Stored makes.
LEMMA CalculatedRows ==
  ASSUME FiguresInv, NEW p \in Period, IsCalculated(p)
  PROVE  \E txs \in SUBSET Of(ledger, {p}) : \E planned : \E up \in BOOLEAN :
           LET values == Computed(txs, planned, BudgetOf(p), up)
               base   == Base(txs, planned, up)
           IN  /\ Rows(txs)
               /\ kpis[p] = Stored(values)
               /\ DOMAIN values = Indicators
               /\ \A code \in Indicators : values[code] \in Fractions
               /\ values["CA"] = <<base.ca, 100>> /\ values["EBITDA"] = <<base.ebitda, 100>>
               /\ values["CHARGES"] = <<base.ca - base.ebitda, 100>>
<1>1. PICK txs \in SUBSET Of(ledger, {p}) : \E planned \in SUBSET Of(flows, {p}) : \E up \in BOOLEAN :
        CalculatedFrom(p, txs, planned, up)
  BY DEF IsCalculated
<1>2. PICK planned \in SUBSET Of(flows, {p}) : \E up \in BOOLEAN : CalculatedFrom(p, txs, planned, up)
  BY <1>1
<1>3. PICK up \in BOOLEAN : CalculatedFrom(p, txs, planned, up)
  BY <1>2
<1>4. Rows(txs) /\ Rows(planned)
  <2>1. Rows(ledger) /\ Rows(flows)
    BY FiguresAssumption DEF Rows, FiguresInv
  <2>2. txs \in SUBSET ledger /\ planned \in SUBSET flows
    BY DEF Of
  <2> QED BY <2>1, <2>2, RowsOf
<1>5. BudgetOf(p) \in Int
  <2>1. Rows(Lines)
    BY FiguresAssumption DEF Rows
  <2>2. Of(Lines, {p}) \in SUBSET Lines
    BY DEF Of
  <2>3. Rows(Of(Lines, {p}))
    BY <2>1, <2>2, RowsOf
  <2>4. BudgetOf(p) \in Nat
    BY <2>3, TotalsTyped DEF BudgetOf
  <2> QED BY <2>4
<1>6. kpis[p] = Stored(Computed(txs, planned, BudgetOf(p), up))
  BY <1>3 DEF CalculatedFrom
<1>7. LET values == Computed(txs, planned, BudgetOf(p), up)
          base   == Base(txs, planned, up)
      IN  /\ DOMAIN values = Indicators
          /\ \A code \in Indicators : values[code] \in Fractions
          /\ values["CA"] = <<base.ca, 100>> /\ values["EBITDA"] = <<base.ebitda, 100>>
          /\ values["CHARGES"] = <<base.ca - base.ebitda, 100>>
  BY <1>4, <1>5, ComputedTyped
<1> QED BY <1>4, <1>6, <1>7

\* What the service overrides, where it answers.
Overridden ==
  {"CA", "EBITDA", "CHARGES", "MARGE", "MARGE_EBITDA", "EBITDA_MARGIN", "NET_MARGIN", "OPERATING_MARGIN", "GROSS_MARGIN"}

\* The service overrides nothing, or these indicators with fractions.
LEMMA OverridesTyped ==
  ASSUME FiguresInv, NEW periods
  PROVE  LET overrides == Overrides(periods)
         IN  /\ ~engineUp \/ Of(ledger, periods) = {} => overrides = <<>> /\ \A code : code \notin DOMAIN overrides
             /\ engineUp /\ Of(ledger, periods) # {} =>
                  /\ DOMAIN overrides = Overridden
                  /\ overrides["CA"] = <<Income(Of(ledger, periods)).XB, 100>>
                  /\ \A code \in Overridden : overrides[code] \in Fractions
<1> DEFINE txs == Of(ledger, periods)
           overrides == Overrides(periods)
<1>1. Rows(txs)
  <2>1. Rows(ledger) /\ txs \in SUBSET ledger
    BY FiguresAssumption DEF Rows, FiguresInv, Of
  <2> QED BY <2>1, RowsOf
<1>2. CASE ~engineUp \/ txs = {}
  <2>1. overrides = <<>>
    BY <1>2 DEF Overrides
  <2>2. \A code : code \notin DOMAIN overrides
    BY <2>1
  <2> QED BY <1>2, <2>1, <2>2
<1>3. CASE engineUp /\ txs # {}
  <2> DEFINE XB == Income(txs).XB
             XD == Income(txs).XD
             XE == Income(txs).XE
             XI == Income(txs).XI
             RA == Income(txs).RA
  <2>1. overrides =
          [CA |-> <<XB, 100>>, EBITDA |-> <<XD, 100>>, CHARGES |-> <<XB - XD, 100>>,
           MARGE            |-> Percent(XD, XB),
           MARGE_EBITDA     |-> Percent(XD, XB),
           EBITDA_MARGIN    |-> Percent(XD, XB),
           NET_MARGIN       |-> Percent(XI, XB),
           OPERATING_MARGIN |-> Percent(XE, XB),
           GROSS_MARGIN     |-> Percent(XB - RA, XB)]
    BY <1>3 DEF Overrides, FromLines
  <2>2. XB \in Int /\ XD \in Int /\ XE \in Int /\ XI \in Int /\ RA \in Int
    BY <1>1, IncomeTyped
  <2> HIDE DEF overrides, XB, XD, XE, XI, RA
  <2>3. XB - XD \in Int /\ XB - RA \in Int
    BY <2>2
  <2>4. /\ <<XB, 100>> \in Fractions /\ <<XD, 100>> \in Fractions /\ <<XB - XD, 100>> \in Fractions
        /\ Percent(XD, XB) \in Fractions /\ Percent(XI, XB) \in Fractions
        /\ Percent(XE, XB) \in Fractions /\ Percent(XB - RA, XB) \in Fractions
    <3>1. \A n \in Int : <<n, 100>> \in Fractions
      BY DEF Fractions
    <3> QED BY <2>2, <2>3, <3>1, FractionTyped
  <2>5. DOMAIN overrides = Overridden
    BY <2>1 DEF Overridden
  <2>6. overrides["CA"] = <<XB, 100>>
    BY <2>1
  <2>7. \A code \in Overridden : overrides[code] \in Fractions
    BY <2>1, <2>4 DEF Overridden
  <2> QED BY <1>3, <2>5, <2>6, <2>7 DEF overrides, XB
<1> QED BY <1>2, <1>3

\* The severities of both screens: those of a value the service overrides, or of a stored one.
LEMMA SeveritiesSame == FiguresInv => SeveritiesAgree
<1> SUFFICES ASSUME FiguresInv, NEW s \in Aggregates,
                    NEW code \in DOMAIN KpiScreen(Selected(s)),
                    ~AtThreshold(code, KpiScreen(Selected(s))[code].value),
                    ~(code = FirstMargin /\ Overrides(Selected(s)) = <<>>)
             PROVE  KpiScreen(Selected(s))[code].severity = DashboardScreen(Selected(s))[code].severity
  BY DEF SeveritiesAgree, DashboardAggregate
<1> DEFINE periods   == Selected(s)
           overrides == Overrides(periods)
           combined  == Combined(periods)
           latest    == Latest(periods)
           rows      == {p \in periods : kpis[p] # <<>>}
<1>1. periods \in SUBSET Period
  BY SelectedPeriods
<1> HIDE DEF periods
<1>2. code \in DOMAIN combined
  BY DEF KpiScreen, periods
<1>3. /\ code \in DOMAIN overrides =>
           /\ KpiScreen(periods)[code].value = Rounded(overrides[code])
           /\ KpiScreen(periods)[code].severity = Severity(code, overrides[code])
           /\ DashboardScreen(periods)[code].severity = DashboardSeverity(code, overrides[code])
      /\ code \notin DOMAIN overrides =>
           /\ KpiScreen(periods)[code].value = combined[code]
           /\ KpiScreen(periods)[code].severity = Severity(code, <<combined[code], 100>>)
           /\ DashboardScreen(periods)[code].severity = kpis[latest][code].severity
  BY <1>2 DEF KpiScreen, DashboardScreen, ShownValues
<1>4. rows # {}
  <2> SUFFICES ASSUME rows = {} PROVE FALSE
    OBVIOUS
  <2>1. combined = <<>>
    BY DEF Combined
  <2> QED BY <1>2, <2>1
<1>5. latest \in periods /\ latest \in Period /\ IsCalculated(latest)
  <2>1. \A p \in rows : p \in ToSet(recent)
    BY <1>1 DEF FiguresInv, CalculationsKept
  <2>2. latest \in periods \cap ToSet(recent)
    BY <1>4, <2>1, LatestIsOne DEF FiguresInv
  <2> QED BY <1>1, <2>2 DEF FiguresInv, CalculationsKept
<1>6. ~AtThreshold(code, KpiScreen(periods)[code].value) /\ ~(code = FirstMargin /\ overrides = <<>>)
  BY DEF periods
<1>7. CASE code \in DOMAIN overrides
  <2>1. overrides[code] \in Fractions /\ code \notin LowerIsBetter
    <3>1. engineUp /\ Of(ledger, periods) # {}
      BY <1>7, OverridesTyped
    <3>2. code \in Overridden /\ overrides[code] \in Fractions
      BY <1>7, <3>1, OverridesTyped
    <3> QED BY <3>2 DEF Overridden, LowerIsBetter
  <2> DEFINE q == overrides[code]
             r == Rounded(q)
  <2>2. q = <<q[1], q[2]>> /\ q[1] \in Int /\ q[2] \in Nat \ {0}
    BY <2>1 DEF Fractions
  <2> HIDE DEF overrides, q
  <2>3. r \in Int /\ \A t \in Int : (r < t => 100 * q[1] < t * q[2]) /\ (r > t => 100 * q[1] > t * q[2])
    BY <2>2, RoundedCompare, RoundedBounds
  <2>4. ~AtThreshold(code, r)
    BY <1>3, <1>6, <1>7 DEF q
  <2> HIDE DEF r
  <2>5. DashboardSeverity(code, q) = Severity(code, q)
    BY <2>1, <2>3, <2>4, SeveritySides DEF q
  <2> QED BY <1>3, <1>7, <2>5 DEF q, periods
<1>8. CASE code \notin DOMAIN overrides
  <2>1. PICK values : /\ kpis[latest] = Stored(values) /\ DOMAIN values = Indicators
                      /\ \A c \in Indicators : values[c] \in Fractions
    BY <1>5, CalculatedRows
  <2>2. /\ DOMAIN kpis[latest] = Indicators
        /\ \A c \in Indicators : kpis[latest][c] = [value |-> Rounded(values[c]), severity |-> Severity(c, values[c])]
    BY <2>1 DEF Stored
  <2>3. DOMAIN combined = DOMAIN kpis[latest]
    BY <1>4 DEF Combined
  <2>4. code \in Indicators
    BY <1>2, <2>2, <2>3
  <2>5. kpis[latest][code].severity = Severity(code, values[code]) /\ kpis[latest][code].value = Rounded(values[code])
    <3>1. kpis[latest][code] = [value |-> Rounded(values[code]), severity |-> Severity(code, values[code])]
      BY <2>2, <2>4
    <3> HIDE DEF latest
    <3> QED BY <3>1
  <2>6. CASE code \in Additive
    <3>1. code \notin DOMAIN Thresholds
      BY <2>6 DEF Additive, Thresholds
    <3>2. \A q : Severity(code, q) = "INFO"
      BY <3>1 DEF Severity, Graded
    <3> QED BY <1>3, <1>8, <2>5, <3>2 DEF periods
  <2>7. CASE code = FirstMargin
    <3>1. engineUp /\ Of(ledger, periods) # {}
      BY <1>6, <2>7, OverridesTyped
    <3>2. DOMAIN overrides = Overridden
      BY <3>1, OverridesTyped
    <3> QED BY <1>8, <2>7, <3>2, FiguresAssumption DEF Overridden
  <2>8. CASE code \notin Additive /\ code # FirstMargin
    <3>1. combined[code] = kpis[latest][code].value
      BY <1>2, <1>4, <2>8 DEF Combined
    <3> DEFINE q == values[code]
               r == Rounded(q)
    <3>2. q \in Fractions /\ q = <<q[1], q[2]>> /\ q[1] \in Int /\ q[2] \in Nat \ {0}
      BY <2>1, <2>4 DEF Fractions
    <3> HIDE DEF q
    <3>3. r \in Int /\ \A t \in Int : (r < t => 100 * q[1] < t * q[2]) /\ (r > t => 100 * q[1] > t * q[2])
      BY <3>2, RoundedCompare, RoundedBounds
    <3>4. combined[code] = r
      BY <2>5, <3>1 DEF q
    <3>5. ~AtThreshold(code, r)
      BY <1>3, <1>6, <1>8, <3>4
    <3> HIDE DEF r
    <3>6. Severity(code, <<r, 100>>) = Severity(code, q)
      BY <3>2, <3>3, <3>5, SeveritySides
    <3> QED BY <1>3, <1>8, <2>5, <3>4, <3>6 DEF q, periods
  <2> QED BY <2>6, <2>7, <2>8
<1> QED BY <1>7, <1>8

-----------------------------------------------------------------------------
(* The turnover of a selection.                                            *)

\* Zeros add up to zero.
LEMMA SumOfZeros ==
  ASSUME NEW S, IsFiniteSet(S), NEW g, \A x \in S : g[x] = 0
  PROVE  SumOf(g, S) = 0
<1>1. \A x \in S : g[x] \in Int /\ g[x] = -g[x]
  OBVIOUS
<1>2. SumOf(g, S) \in Int /\ SumOf(g, S) = -SumOf(g, S)
  BY <1>1, SumOfInt, SumOfOpposites
<1> QED BY <1>2

\* There is no amount in an empty set of rows.
LEMMA TotalsEmpty ==
  Total({}, LAMBDA t : t.amount) = 0 /\ Total({}, LAMBDA t : Magnitude(t.amount)) = 0
<1>1. IsFiniteSet({})
  BY FS_EmptySet
<1>2. Total({}, LAMBDA t : t.amount) = SumOf([t \in {} |-> t.amount], {})
  BY <1>1, AmountSums
<1>3. Total({}, LAMBDA t : Magnitude(t.amount)) = SumOf([t \in {} |-> Magnitude(t.amount)], {})
  BY <1>1, MagnitudeSums
<1> QED BY <1>2, <1>3, SumOfEmpty

\* Nothing gives an income statement of zeros.
LEMMA IncomeEmpty ==
  Income({}).XB = 0 /\ Income({}).XD = 0 /\ Income({}).XI = 0
<1> DEFINE P == [ref \in DOMAIN Products |-> ProductLine({}, ref)]
           C == [ref \in DOMAIN Charges  |-> ChargeLine({}, ref)]
<1>1. \A ref : ProductLine({}, ref) = 0 /\ ChargeLine({}, ref) = 0
  <2>1. \A prefixes : On({}, prefixes) = {}
    BY DEF On
  <2> QED BY <2>1, TotalsEmpty DEF ProductLine, ChargeLine
<1>2. /\ P.TA = 0 /\ P.TB = 0 /\ P.TC = 0 /\ P.TD = 0 /\ P.TF = 0 /\ P.TG = 0 /\ P.TH = 0 /\ P.TI = 0
      /\ P.TJ = 0 /\ P.TK = 0 /\ P.TL = 0 /\ P.TM = 0 /\ P.TN = 0 /\ P.TO = 0
  BY <1>1 DEF Products
<1>3. /\ C.RA = 0 /\ C.RB = 0 /\ C.RC = 0 /\ C.RD = 0 /\ C.RE = 0 /\ C.RF = 0 /\ C.RG = 0 /\ C.RH = 0
      /\ C.RI = 0 /\ C.RJ = 0 /\ C.RK = 0 /\ C.RL = 0 /\ C.RM = 0 /\ C.RN = 0 /\ C.RO = 0 /\ C.RP = 0
      /\ C.RQ = 0 /\ C.RS = 0
  BY <1>1 DEF Charges
<1>4. Income({}) = Cascade(P, C)
  BY DEF Income
<1> HIDE DEF P, C
<1>5. Cascade(P, C).XB = 0 /\ Cascade(P, C).XD = 0 /\ Cascade(P, C).XI = 0
  BY <1>2, <1>3 DEF Cascade
<1> QED BY <1>4, <1>5

\* What is calculated without a transaction is zero.
LEMMA BaseEmpty ==
  ASSUME NEW planned, NEW up
  PROVE  Base({}, planned, up).ca = 0 /\ Base({}, planned, up).ebitda = 0
<1>1. Rows({}) /\ \A prefixes : On({}, prefixes) = {}
  BY FS_EmptySet DEF Rows, On
<1>2. CASE Answered({}, planned, up)
  BY <1>1, <1>2, BaseTyped, IncomeEmpty
<1>3. CASE ~Answered({}, planned, up)
  <2> DEFINE sales == Total(On({}, KpiPrefixes.CA), LAMBDA t : Magnitude(t.amount))
             spent == Total(On({}, KpiPrefixes.CHARGES), LAMBDA t : Magnitude(t.amount))
  <2>1. sales = 0 /\ spent = 0
    BY <1>1, TotalsEmpty
  <2>2. Base({}, planned, up).ca = sales /\ Base({}, planned, up).ebitda = sales - spent
    BY <1>1, <1>3, BaseTyped
  <2> HIDE DEF sales, spent
  <2> QED BY <2>1, <2>2
<1> QED BY <1>2, <1>3

\* The screens show something of a selection when one of its periods has values, and
\* then every indicator.
LEMMA PageShown ==
  ASSUME FiguresInv, NEW periods \in SUBSET Period, KpiScreen(periods) # <<>>
  PROVE  /\ {p \in periods : kpis[p] # <<>>} # {}
         /\ \A p \in periods : kpis[p] # <<>> => IsCalculated(p)
         /\ DOMAIN Combined(periods) = Indicators
<1> DEFINE rows == {p \in periods : kpis[p] # <<>>}
<1>1. rows # {}
  <2> SUFFICES ASSUME rows = {} PROVE FALSE
    OBVIOUS
  <2>1. Combined(periods) = <<>>
    BY DEF Combined
  <2>2. KpiScreen(periods) = <<>>
    BY <2>1 DEF KpiScreen
  <2> QED BY <2>2
<1>2. \A p \in rows : p \in ToSet(recent) /\ IsCalculated(p)
  BY DEF FiguresInv, CalculationsKept
<1>3. Latest(periods) \in periods \cap ToSet(recent)
  BY <1>1, <1>2, LatestIsOne DEF FiguresInv
<1>4. Latest(periods) \in Period /\ IsCalculated(Latest(periods))
  BY <1>3 DEF FiguresInv, CalculationsKept
<1>5. PICK values : kpis[Latest(periods)] = Stored(values) /\ DOMAIN values = Indicators
  BY <1>4, CalculatedRows
<1>6. DOMAIN Combined(periods) = DOMAIN kpis[Latest(periods)]
  BY <1>1 DEF Combined
<1>7. DOMAIN Stored(values) = DOMAIN values
  BY DEF Stored
<1> QED BY <1>1, <1>2, <1>5, <1>6, <1>7

\* The turnover of the indicators page is the one of the statements: either the service
\* answers, or no transaction is validated and every stored turnover is zero.
LEMMA TurnoverSame ==
  ASSUME FiguresInv, NEW periods \in SUBSET Period, IsFiniteSet(periods), engineUp, KpiScreen(periods) # <<>>
  PROVE  KpiScreen(periods).CA.value = StatementsScreen(periods).is.XB
<1> DEFINE txs  == Of(ledger, periods)
           rows == {p \in periods : kpis[p] # <<>>}
           overrides == Overrides(periods)
<1>1. rows # {} /\ (\A p \in rows : IsCalculated(p)) /\ "CA" \in DOMAIN Combined(periods)
  BY PageShown DEF Indicators
<1>2. StatementsScreen(periods).is = Income(txs)
  BY <1>1 DEF StatementsScreen, StatementsPeriods, FinancialStatements
<1>3. KpiScreen(periods).CA.value =
        IF "CA" \in DOMAIN overrides THEN Rounded(overrides["CA"]) ELSE Combined(periods)["CA"]
  BY <1>1 DEF KpiScreen, ShownValues
<1>4. CASE txs # {}
  <2>1. "CA" \in DOMAIN overrides /\ overrides["CA"] = <<Income(txs).XB, 100>>
    BY <1>4, OverridesTyped DEF Overridden
  <2>2. Income(txs).XB \in Int
    <3>1. Rows(ledger) /\ txs \in SUBSET ledger
      BY FiguresAssumption DEF Rows, FiguresInv, Of
    <3> QED BY <3>1, RowsOf, IncomeTyped
  <2> QED BY <1>2, <1>3, <2>1, <2>2, RoundedAmount
<1>5. CASE txs = {}
  <2>1. KpiScreen(periods).CA.value = Combined(periods)["CA"]
    BY <1>3, <1>5, OverridesTyped
  <2> DEFINE g == [p \in rows |-> kpis[p]["CA"].value]
  <2>2. Combined(periods)["CA"] = MapThenSumSet(LAMBDA p : kpis[p]["CA"].value, rows)
    <3>1. rows # {} /\ "CA" \in Additive
      BY <1>1 DEF Additive
    <3>2. "CA" # FirstMargin
      BY FiguresAssumption
    <3> QED BY <1>1, <3>1, <3>2 DEF Combined
  <2>3. \A p \in rows : g[p] = 0
    <3> SUFFICES ASSUME NEW p \in rows PROVE kpis[p]["CA"].value = 0
      OBVIOUS
    <3>1. Of(ledger, {p}) = {}
      BY <1>5 DEF Of
    <3>2. IsCalculated(p) /\ p \in Period
      BY <1>1
    <3>10. PICK old \in SUBSET Of(ledger, {p}) :
            \E planned : \E up \in BOOLEAN :
              LET values == Computed(old, planned, BudgetOf(p), up)
              IN  /\ kpis[p] = Stored(values) /\ DOMAIN values = Indicators
                  /\ values["CA"] = <<Base(old, planned, up).ca, 100>>
      BY <3>2, CalculatedRows
    <3>11. old = {}
      BY <3>1
    <3>3. PICK planned, up : LET values == Computed({}, planned, BudgetOf(p), up)
                             IN  /\ kpis[p] = Stored(values) /\ DOMAIN values = Indicators
                                 /\ values["CA"] = <<Base({}, planned, up).ca, 100>>
      BY <3>10, <3>11
    <3> DEFINE values == Computed({}, planned, BudgetOf(p), up)
    <3>4. kpis[p]["CA"] = [value |-> Rounded(values["CA"]), severity |-> Severity("CA", values["CA"])]
      BY <3>3 DEF Stored, Indicators
    <3>5. values["CA"] = <<0, 100>>
      BY <3>3, BaseEmpty
    <3> HIDE DEF values
    <3>6. kpis[p]["CA"].value = Rounded(<<0, 100>>)
      BY <3>4, <3>5
    <3> QED BY <3>6, RoundedAmount
  <2>4. IsFiniteSet(rows)
    BY FS_Subset
  <2>5. MapThenSumSet(LAMBDA p : kpis[p]["CA"].value, rows) = SumOf(g, rows)
    BY <2>4, ValueSums
  <2> HIDE DEF g
  <2>6. SumOf(g, rows) = 0
    BY <2>3, <2>4, SumOfZeros
  <2> QED BY <1>2, <1>5, <2>1, <2>2, <2>5, <2>6, IncomeEmpty
<1> QED BY <1>4, <1>5

\* The cash flow tab differs over a selection only where that is empty, for the two
\* reasons there are.  The list shows no pending row among its validated ones.
LEMMA SelectionsSame ==
  ASSUME FiguresInv, NEW s \in Aggregates
  PROVE  /\ CashFlowSelected(s) # Selected(s) =>
              /\ Selected(s) = {} /\ s.kind = "range" /\ s.from[1] = s.to[1]
              /\ s.from = s.to \/ s.from[1] # ActivePeriod[1]
         /\ Selected(s) # {} =>
              Report(s) = StatementsScreen(Selected(s)) /\ Income(Listed(s) \ pending) = Report(s).is
<1>1. ASSUME CashFlowSelected(s) # Selected(s)
      PROVE  /\ Selected(s) = {} /\ s.kind = "range" /\ s.from[1] = s.to[1]
             /\ s.from = s.to \/ s.from[1] # ActivePeriod[1]
  <2>1. s.kind = "range"
    BY <1>1 DEF CashFlowSelected
  <2>2. Selected(s) = IF s.from # s.to /\ s.from[1] = ActivePeriod[1] /\ s.to[1] = ActivePeriod[1]
                      THEN Between(ActivePeriod[1], Bounds(s)[1], Bounds(s)[2]) ELSE {}
    BY <2>1 DEF Selected
  <2>3. CashFlowSelected(s) = IF s.from[1] = s.to[1] THEN Between(s.from[1], Bounds(s)[1], Bounds(s)[2]) ELSE {}
    BY <1>1, <2>1 DEF CashFlowSelected
  <2> QED BY <1>1, <2>1, <2>2, <2>3
<1>2. ASSUME Selected(s) # {}
      PROVE  Report(s) = StatementsScreen(Selected(s)) /\ Income(Listed(s) \ pending) = Report(s).is
  <2>1. StatementsPeriods(Selected(s)) = Selected(s)
    BY <1>2 DEF StatementsPeriods
  <2>2. Report(s) = StatementsScreen(Selected(s))
    BY <2>1 DEF Report, StatementsScreen
  <2>3. Listed(s) \ pending = Of(ledger, Selected(s))
    BY <1>2 DEF Listed, Of, FiguresInv
  <2>4. Income(Listed(s) \ pending) = Report(s).is
    BY <2>3 DEF Report, FinancialStatements
  <2> QED BY <2>2, <2>4
<1> QED BY <1>1, <1>2

\* The parts of the agreement of the screens.
LEMMA ScreensSame == FiguresInv => ScreensAgree
<1> SUFFICES ASSUME FiguresInv PROVE ScreensAgree
  OBVIOUS
<1>1. ASSUME NEW s \in Aggregates, engineUp, KpiScreen(Selected(s)) # <<>>
      PROVE  KpiScreen(Selected(s)).CA.value = StatementsScreen(Selected(s)).is.XB
  BY <1>1, SelectedPeriods, TurnoverSame
<1> QED BY <1>1, SelectionsSame DEF ScreensAgree

\* Rows that were calculated are not the empty one.
LEMMA FiguresTyped == FiguresInv => FiguresTypeOK
<1> SUFFICES ASSUME FiguresInv PROVE FiguresTypeOK
  OBVIOUS
<1>1. ASSUME NEW p \in Period, IsCalculated(p) PROVE kpis[p] # <<>>
  <2>1. PICK values : kpis[p] = Stored(values) /\ DOMAIN values = Indicators
    BY <1>1, CalculatedRows
  <2>2. "CA" \in DOMAIN kpis[p]
    BY <2>1 DEF Stored, Indicators
  <2>3. "CA" \notin DOMAIN <<>>
    OBVIOUS
  <2> QED BY <2>2, <2>3
<1>2. ToSet(recent) = {p \in Period : kpis[p] # <<>>}
  <2>1. ToSet(recent) \subseteq Period
    BY DEF FiguresInv, CalculationsKept, ToSet
  <2> QED BY <1>1, <2>1 DEF FiguresInv, CalculationsKept
<1>3. \A p \in Period : snapshot[p].of \subseteq Of(Txs, {p})
  <2> SUFFICES ASSUME NEW p \in Period PROVE snapshot[p].of \subseteq Of(Txs, {p})
    OBVIOUS
  <2>1. CASE status[p] = "OPEN"
    <3>1. snapshot[p] = [figures |-> NoSnapshot, of |-> {}]
      BY <2>1 DEF FiguresInv, ClosingsKept
    <3> QED BY <3>1
  <2>2. CASE status[p] = "CLOSED"
    BY <2>2 DEF FiguresInv, ClosingsKept, Of
  <2> QED BY <2>1, <2>2 DEF FiguresInv
<1> QED BY <1>2, <1>3 DEF FiguresInv, FiguresTypeOK

-----------------------------------------------------------------------------
(* The net result of a closed period.                                      *)

\* Both the migration's rows and the default table are one-sided.
LEMMA MappingOneSided ==
  ASSUME NEW code
  PROVE  OneSided(FinancialMapping(code))
<1>1. \A r \in SelectByPriority(code) : r \in Mappings
  BY DEF SelectByPriority
<1>2. SelectByPriority(code) # {} => OneSided((CHOOSE r \in SelectByPriority(code) : TRUE).mapping)
  BY <1>1, MappingsAssumption
<1>3. \A f \in Defaults : OneSided(f.mapping)
  BY DEF Defaults, EquityFamilies, LiabilityFamilies, MixedFamilies, CapexFamilies, AssetFamilies, TransferFamily,
         ExpenseFamilies, RevenueFamilies, MemoFamilies, Mapping, OneSided
<1>4. OneSided(NoMapping)
  BY DEF NoMapping, Mapping, OneSided
<1>5. OneSided(DefaultMapping(code))
  BY <1>3, <1>4 DEF DefaultMapping
<1> QED BY <1>2, <1>4, <1>5 DEF FinancialMapping

\* The type of a row of a report is the section, and does not depend on the amount.
LEMMA TypeIsSection ==
  ASSUME NEW code, NEW amount
  PROVE  ReportLineType(code, amount) =
           IF FinancialMapping(code).statement = "INCOME_STATEMENT" THEN FinancialMapping(code).section ELSE "OTHER"
<1>1. OneSided(FinancialMapping(code))
  BY MappingOneSided
<1> QED BY <1>1 DEF ReportLineType, LineTypeOf, OneSided

\* An import stores what a report will call a revenue as positive, an expense as negative.
LEMMA ImportedSigns ==
  ASSUME NEW t \in Txs, NEW row \in ImportedRows(t)
  PROVE  LET type == ReportLineType(row.account, row.amount)
         IN  (type = "REVENUE" => row.amount > 0) /\ (type = "EXPENSE" => row.amount < 0)
<1>1. PICK wanted \in {"REVENUE", "EXPENSE", "none"} :
        row \in Imported([account |-> t.account, periods |-> {t.period}, amount |-> Magnitude(t.amount), type |-> wanted])
  BY DEF ImportedRows
<1> DEFINE from == [account |-> t.account, periods |-> {t.period}, amount |-> Magnitude(t.amount), type |-> wanted]
           n == Magnitude(t.amount)
           kind == ReportLineType(t.account, n)
<1>2. ImportedType(from) = IF kind = "OTHER" THEN wanted ELSE kind
  BY DEF ImportedType
<1>3. n \in Int
  BY FiguresAssumption DEF Magnitude
<1>4. n > 0 /\ row = [account |-> t.account, period |-> t.period,
                      amount |-> IF ImportedType(from) = "EXPENSE" THEN -n ELSE n]
  BY <1>1 DEF Imported
<1>5. row.account = t.account /\ row.amount = IF ImportedType(from) = "EXPENSE" THEN -n ELSE n
  BY <1>4
<1>6. ReportLineType(row.account, row.amount) = kind
  BY <1>5, TypeIsSection
<1> HIDE DEF n, kind, from
<1> QED BY <1>2, <1>3, <1>4, <1>5, <1>6

\* Lines that count each of some transactions once, and no other, add up to their sum.
LEMMA LinesAddUp ==
  ASSUME NEW lines, IsFiniteSet(DOMAIN lines), NEW txs, IsFiniteSet(txs), NEW some \in SUBSET txs,
         \A t \in some : Counted(lines, t) = 1, \A t \in txs \ some : Counted(lines, t) = 0,
         NEW g, \A t \in some : g[t] \in Int,
         NEW G, \A ref \in DOMAIN lines : G[ref] = SumOf(g, On(txs, lines[ref]))
  PROVE  SumOf(G, DOMAIN lines) = SumOf(g, some)
<1> DEFINE Refs(t) == {ref \in DOMAIN lines : StartsWithAny(t.account, lines[ref])}
           key == [t \in some |-> CHOOSE ref \in DOMAIN lines : Refs(t) = {ref}]
           group == [ref \in DOMAIN lines |-> On(txs, lines[ref])]
<1>1. \A t : IsFiniteSet(Refs(t)) /\ Counted(lines, t) = Cardinality(Refs(t))
  <2> SUFFICES ASSUME NEW t PROVE IsFiniteSet(Refs(t)) /\ Counted(lines, t) = Cardinality(Refs(t))
    OBVIOUS
  <2>1. Refs(t) \in SUBSET DOMAIN lines
    OBVIOUS
  <2>2. IsFiniteSet(Refs(t))
    BY <2>1, FS_Subset
  <2> QED BY <2>2 DEF Counted
<1>2. \A t \in some : key[t] \in DOMAIN lines /\ Refs(t) = {key[t]}
  <2> SUFFICES ASSUME NEW t \in some PROVE key[t] \in DOMAIN lines /\ Refs(t) = {key[t]}
    OBVIOUS
  <2>1. \E ref : Refs(t) = {ref}
    <3> HIDE DEF Refs
    <3> QED BY <1>1, FS_Singleton
  <2>2. \E ref \in DOMAIN lines : Refs(t) = {ref}
    BY <2>1
  <2> HIDE DEF Refs
  <2> QED BY <2>2
<1>3. \A t \in txs \ some : Refs(t) = {}
  <2> HIDE DEF Refs
  <2> QED BY <1>1, FS_EmptySet
<1>4. \A ref \in DOMAIN lines : /\ group[ref] \in SUBSET some
                                /\ \A t \in some : t \in group[ref] <=> key[t] = ref
  <2> SUFFICES ASSUME NEW ref \in DOMAIN lines, NEW t \in txs
               PROVE  t \in On(txs, lines[ref]) <=> t \in some /\ key[t] = ref
    BY DEF On
  <2>1. t \in On(txs, lines[ref]) <=> ref \in Refs(t)
    BY DEF On
  <2> HIDE DEF Refs, key
  <2> QED BY <1>2, <1>3, <2>1
<1>5. IsFiniteSet(some) /\ \A ref \in DOMAIN lines : G[ref] = SumOf(g, group[ref])
  BY FS_Subset
<1>6. \A t \in some : key[t] \in DOMAIN lines
  BY <1>2
<1> HIDE DEF key, Refs, group
<1> QED BY <1>4, <1>5, <1>6, SumOfGroups

\* Two elements taken out of a sum.
LEMMA SumOfTwo ==
  ASSUME NEW S, IsFiniteSet(S), NEW g, \A x \in S : g[x] \in Int, NEW a \in S, NEW b \in S, a # b
  PROVE  SumOf(g, S) = g[a] + g[b] + SumOf(g, S \ {a, b})
<1>1. IsFiniteSet(S \ {a}) /\ b \in S \ {a} /\ (S \ {a}) \ {b} = S \ {a, b} /\ IsFiniteSet(S \ {a, b})
  BY FS_Subset
<1>2. SumOf(g, S) = g[a] + SumOf(g, S \ {a})
  BY SumOfRemove
<1>3. SumOf(g, S \ {a}) = g[b] + SumOf(g, S \ {a, b})
  BY <1>1, SumOfRemove
<1>4. g[a] \in Int /\ g[b] \in Int /\ SumOf(g, S \ {a, b}) \in Int
  BY <1>1, SumOfInt
<1> QED BY <1>2, <1>3, <1>4

\* Four elements taken out of a sum.
LEMMA SumOfFour ==
  ASSUME NEW S, IsFiniteSet(S), NEW g, \A x \in S : g[x] \in Int,
         NEW a \in S, NEW b \in S, NEW c \in S, NEW d \in S, a # b, a # c, a # d, b # c, b # d, c # d
  PROVE  SumOf(g, S) = g[a] + g[b] + g[c] + g[d] + SumOf(g, S \ {a, b, c, d})
<1> DEFINE T == S \ {a, b}
<1>1. IsFiniteSet(T) /\ c \in T /\ d \in T /\ T \ {c, d} = S \ {a, b, c, d} /\ IsFiniteSet(S \ {a, b, c, d})
      /\ \A x \in T : g[x] \in Int
  BY FS_Subset
<1>2. SumOf(g, S) = g[a] + g[b] + SumOf(g, T)
  BY SumOfTwo
<1> HIDE DEF T
<1>3. SumOf(g, T) = g[c] + g[d] + SumOf(g, S \ {a, b, c, d})
  <2>1. SumOf(g, T) = g[c] + g[d] + SumOf(g, T \ {c, d})
    BY <1>1, SumOfTwo
  <2> QED BY <1>1, <2>1
<1>4. g[a] \in Int /\ g[b] \in Int /\ g[c] \in Int /\ g[d] \in Int /\ SumOf(g, S \ {a, b, c, d}) \in Int
  BY <1>1, SumOfInt
<1> QED BY <1>2, <1>3, <1>4

\* The cascade counts every line once, products for and charges against.
LEMMA CascadeAddsUp ==
  ASSUME NEW P, \A ref \in DOMAIN Products : P[ref] \in Int, NEW C, \A ref \in DOMAIN Charges : C[ref] \in Int
  PROVE  /\ IsFiniteSet(DOMAIN Products) /\ IsFiniteSet(DOMAIN Charges)
         /\ Cascade(P, C).XI = SumOf(P, DOMAIN Products) - SumOf(C, DOMAIN Charges)
<1> DEFINE DP == {"TA", "TB", "TC", "TD", "TF", "TG", "TH", "TI", "TJ", "TK", "TL", "TM", "TN", "TO"}
           DC == {"RA", "RB", "RC", "RD", "RE", "RF", "RG", "RH", "RI", "RJ", "RK", "RL", "RM", "RN", "RO", "RP",
                  "RQ", "RS"}
           p1 == P.TA + P.TB + P.TC + P.TD
           p2 == P.TF + P.TG + P.TH + P.TI
           p3 == P.TJ + P.TK + P.TL + P.TM
           p4 == P.TN + P.TO
           c1 == C.RA + C.RB + C.RC + C.RD
           c2 == C.RE + C.RF + C.RG + C.RH
           c3 == C.RI + C.RJ + C.RK + C.RL
           c4 == C.RM + C.RN + C.RO + C.RP
           c5 == C.RQ + C.RS
<1>1. DOMAIN Products = DP /\ DOMAIN Charges = DC
  BY DEF Products, Charges
<1>2. IsFiniteSet(DP) /\ IsFiniteSet(DC)
  <2>1. \A S, x : IsFiniteSet(S) => IsFiniteSet(S \cup {x})
    BY FS_AddElement
  <2>2. IsFiniteSet({})
    BY FS_EmptySet
  <2> DEFINE A1 == ((({} \cup {"TA"}) \cup {"TB"}) \cup {"TC"}) \cup {"TD"}
             A2 == (((A1 \cup {"TF"}) \cup {"TG"}) \cup {"TH"}) \cup {"TI"}
             A3 == (((A2 \cup {"TJ"}) \cup {"TK"}) \cup {"TL"}) \cup {"TM"}
             A4 == (A3 \cup {"TN"}) \cup {"TO"}
             B1 == ((({} \cup {"RA"}) \cup {"RB"}) \cup {"RC"}) \cup {"RD"}
             B2 == (((B1 \cup {"RE"}) \cup {"RF"}) \cup {"RG"}) \cup {"RH"}
             B3 == (((B2 \cup {"RI"}) \cup {"RJ"}) \cup {"RK"}) \cup {"RL"}
             B4 == (((B3 \cup {"RM"}) \cup {"RN"}) \cup {"RO"}) \cup {"RP"}
             B5 == (B4 \cup {"RQ"}) \cup {"RS"}
  <2>3. IsFiniteSet(A1) /\ IsFiniteSet(B1)
    BY <2>1, <2>2
  <2>4. IsFiniteSet(A4)
    <3> HIDE DEF A1
    <3>1. IsFiniteSet(A2)
      BY <2>1, <2>3
    <3> HIDE DEF A2
    <3>2. IsFiniteSet(A3)
      BY <2>1, <3>1
    <3> HIDE DEF A3
    <3> QED BY <2>1, <3>2
  <2>5. IsFiniteSet(B5)
    <3> HIDE DEF B1
    <3>1. IsFiniteSet(B2)
      BY <2>1, <2>3
    <3> HIDE DEF B2
    <3>2. IsFiniteSet(B3)
      BY <2>1, <3>1
    <3> HIDE DEF B3
    <3>3. IsFiniteSet(B4)
      BY <2>1, <3>2
    <3> HIDE DEF B4
    <3> QED BY <2>1, <3>3
  <2>6. A4 = DP /\ B5 = DC
    OBVIOUS
  <2> HIDE DEF A4, B5, DP, DC
  <2> QED BY <2>4, <2>5, <2>6
<1>3. (\A ref \in DP : P[ref] \in Int) /\ (\A ref \in DC : C[ref] \in Int)
  BY <1>1
<1>4. SumOf(P, DP) = p1 + (p2 + (p3 + p4))
  <2> DEFINE S1 == DP \ {"TA", "TB", "TC", "TD"}
             S2 == S1 \ {"TF", "TG", "TH", "TI"}
             S3 == S2 \ {"TJ", "TK", "TL", "TM"}
             S4 == S3 \ {"TN", "TO"}
  <2>1. IsFiniteSet(S1) /\ IsFiniteSet(S2) /\ IsFiniteSet(S3) /\ S4 = {}
    BY <1>2, FS_Subset
  <2>2. \A x \in DP : P[x] \in Int
    BY <1>3
  <2>3. SumOf(P, DP) = p1 + SumOf(P, S1)
    <3>1. "TA" \in DP /\ "TB" \in DP /\ "TC" \in DP /\ "TD" \in DP /\ \A x \in DP : x \in DP
      OBVIOUS
    <3>2. S1 = DP \ {"TA", "TB", "TC", "TD"}
      OBVIOUS
    <3> HIDE DEF DP, S1
    <3>3. \A x \in DP : P[x] \in Int
      BY <2>2, <3>1
    <3>4. IsFiniteSet(DP)
      BY <1>2
    <3>5. SumOf(P, DP) = P["TA"] + P["TB"] + P["TC"] + P["TD"] + SumOf(P, DP \ {"TA", "TB", "TC", "TD"})
      BY <3>1, <3>3, <3>4, SumOfFour
    <3> QED BY <3>2, <3>5
  <2>4. SumOf(P, S1) = p2 + SumOf(P, S2)
    <3>1. "TF" \in S1 /\ "TG" \in S1 /\ "TH" \in S1 /\ "TI" \in S1 /\ \A x \in S1 : x \in DP
      OBVIOUS
    <3>2. S2 = S1 \ {"TF", "TG", "TH", "TI"}
      OBVIOUS
    <3> HIDE DEF DP, S1, S2
    <3>3. \A x \in S1 : P[x] \in Int
      BY <2>2, <3>1
    <3>4. IsFiniteSet(S1)
      BY <2>1
    <3>5. SumOf(P, S1) = P["TF"] + P["TG"] + P["TH"] + P["TI"] + SumOf(P, S1 \ {"TF", "TG", "TH", "TI"})
      BY <3>1, <3>3, <3>4, SumOfFour
    <3> QED BY <3>2, <3>5
  <2>5. SumOf(P, S2) = p3 + SumOf(P, S3)
    <3>1. "TJ" \in S2 /\ "TK" \in S2 /\ "TL" \in S2 /\ "TM" \in S2 /\ \A x \in S2 : x \in DP
      OBVIOUS
    <3>2. S3 = S2 \ {"TJ", "TK", "TL", "TM"}
      OBVIOUS
    <3> HIDE DEF DP, S1, S2, S3
    <3>3. \A x \in S2 : P[x] \in Int
      BY <2>2, <3>1
    <3>4. IsFiniteSet(S2)
      BY <2>1
    <3>5. SumOf(P, S2) = P["TJ"] + P["TK"] + P["TL"] + P["TM"] + SumOf(P, S2 \ {"TJ", "TK", "TL", "TM"})
      BY <3>1, <3>3, <3>4, SumOfFour
    <3> QED BY <3>2, <3>5
  <2>6. SumOf(P, S3) = p4 + SumOf(P, S4)
    <3>1. "TN" \in S3 /\ "TO" \in S3 /\ \A x \in S3 : x \in DP
      OBVIOUS
    <3>2. S4 = S3 \ {"TN", "TO"}
      OBVIOUS
    <3> HIDE DEF DP, S1, S2, S3, S4
    <3>3. \A x \in S3 : P[x] \in Int
      BY <2>2, <3>1
    <3>4. IsFiniteSet(S3)
      BY <2>1
    <3>5. SumOf(P, S3) = P["TN"] + P["TO"] + SumOf(P, S3 \ {"TN", "TO"})
      BY <3>1, <3>3, <3>4, SumOfTwo
    <3> QED BY <3>2, <3>5
  <2>7. p4 \in Int /\ SumOf(P, S4) = 0
    <3>1. P["TN"] \in Int /\ P["TO"] \in Int
      BY <1>3
    <3>2. SumOf(P, S4) = 0
      BY <2>1, SumOfEmpty
    <3> QED BY <3>1, <3>2
  <2> HIDE DEF S1, S2, S3, S4, DP, p1, p2, p3, p4
  <2>8. SumOf(P, S3) = p4
    BY <2>6, <2>7
  <2> QED BY <2>3, <2>4, <2>5, <2>8
<1>5. SumOf(C, DC) = c1 + (c2 + (c3 + (c4 + c5)))
  <2> DEFINE S1 == DC \ {"RA", "RB", "RC", "RD"}
             S2 == S1 \ {"RE", "RF", "RG", "RH"}
             S3 == S2 \ {"RI", "RJ", "RK", "RL"}
             S4 == S3 \ {"RM", "RN", "RO", "RP"}
             S5 == S4 \ {"RQ", "RS"}
  <2>1. IsFiniteSet(S1) /\ IsFiniteSet(S2) /\ IsFiniteSet(S3) /\ IsFiniteSet(S4) /\ S5 = {}
    BY <1>2, FS_Subset
  <2>2. \A x \in DC : C[x] \in Int
    BY <1>3
  <2>3. SumOf(C, DC) = c1 + SumOf(C, S1)
    <3>1. "RA" \in DC /\ "RB" \in DC /\ "RC" \in DC /\ "RD" \in DC /\ \A x \in DC : x \in DC
      OBVIOUS
    <3>2. S1 = DC \ {"RA", "RB", "RC", "RD"}
      OBVIOUS
    <3> HIDE DEF DC, S1
    <3>3. \A x \in DC : C[x] \in Int
      BY <2>2, <3>1
    <3>4. IsFiniteSet(DC)
      BY <1>2
    <3>5. SumOf(C, DC) = C["RA"] + C["RB"] + C["RC"] + C["RD"] + SumOf(C, DC \ {"RA", "RB", "RC", "RD"})
      BY <3>1, <3>3, <3>4, SumOfFour
    <3> QED BY <3>2, <3>5
  <2>4. SumOf(C, S1) = c2 + SumOf(C, S2)
    <3>1. "RE" \in S1 /\ "RF" \in S1 /\ "RG" \in S1 /\ "RH" \in S1 /\ \A x \in S1 : x \in DC
      OBVIOUS
    <3>2. S2 = S1 \ {"RE", "RF", "RG", "RH"}
      OBVIOUS
    <3> HIDE DEF DC, S1, S2
    <3>3. \A x \in S1 : C[x] \in Int
      BY <2>2, <3>1
    <3>4. IsFiniteSet(S1)
      BY <2>1
    <3>5. SumOf(C, S1) = C["RE"] + C["RF"] + C["RG"] + C["RH"] + SumOf(C, S1 \ {"RE", "RF", "RG", "RH"})
      BY <3>1, <3>3, <3>4, SumOfFour
    <3> QED BY <3>2, <3>5
  <2>5. SumOf(C, S2) = c3 + SumOf(C, S3)
    <3>1. "RI" \in S2 /\ "RJ" \in S2 /\ "RK" \in S2 /\ "RL" \in S2 /\ \A x \in S2 : x \in DC
      OBVIOUS
    <3>2. S3 = S2 \ {"RI", "RJ", "RK", "RL"}
      OBVIOUS
    <3> HIDE DEF DC, S1, S2, S3
    <3>3. \A x \in S2 : C[x] \in Int
      BY <2>2, <3>1
    <3>4. IsFiniteSet(S2)
      BY <2>1
    <3>5. SumOf(C, S2) = C["RI"] + C["RJ"] + C["RK"] + C["RL"] + SumOf(C, S2 \ {"RI", "RJ", "RK", "RL"})
      BY <3>1, <3>3, <3>4, SumOfFour
    <3> QED BY <3>2, <3>5
  <2>6. SumOf(C, S3) = c4 + SumOf(C, S4)
    <3>1. "RM" \in S3 /\ "RN" \in S3 /\ "RO" \in S3 /\ "RP" \in S3 /\ \A x \in S3 : x \in DC
      OBVIOUS
    <3>2. S4 = S3 \ {"RM", "RN", "RO", "RP"}
      OBVIOUS
    <3> HIDE DEF DC, S1, S2, S3, S4
    <3>3. \A x \in S3 : C[x] \in Int
      BY <2>2, <3>1
    <3>4. IsFiniteSet(S3)
      BY <2>1
    <3>5. SumOf(C, S3) = C["RM"] + C["RN"] + C["RO"] + C["RP"] + SumOf(C, S3 \ {"RM", "RN", "RO", "RP"})
      BY <3>1, <3>3, <3>4, SumOfFour
    <3> QED BY <3>2, <3>5
  <2>7. SumOf(C, S4) = c5 + SumOf(C, S5)
    <3>1. "RQ" \in S4 /\ "RS" \in S4 /\ \A x \in S4 : x \in DC
      OBVIOUS
    <3>2. S5 = S4 \ {"RQ", "RS"}
      OBVIOUS
    <3> HIDE DEF DC, S1, S2, S3, S4, S5
    <3>3. \A x \in S4 : C[x] \in Int
      BY <2>2, <3>1
    <3>4. IsFiniteSet(S4)
      BY <2>1
    <3>5. SumOf(C, S4) = C["RQ"] + C["RS"] + SumOf(C, S4 \ {"RQ", "RS"})
      BY <3>1, <3>3, <3>4, SumOfTwo
    <3> QED BY <3>2, <3>5
  <2>8. c5 \in Int /\ SumOf(C, S5) = 0
    <3>1. C["RQ"] \in Int /\ C["RS"] \in Int
      BY <1>3
    <3>2. SumOf(C, S5) = 0
      BY <2>1, SumOfEmpty
    <3> QED BY <3>1, <3>2
  <2> HIDE DEF S1, S2, S3, S4, S5, DC, c1, c2, c3, c4, c5
  <2>9. SumOf(C, S4) = c5
    BY <2>7, <2>8
  <2> QED BY <2>3, <2>4, <2>5, <2>6, <2>9
<1>6. Cascade(P, C).XI = (p1 + (p2 + (p3 + p4))) - (c1 + (c2 + (c3 + (c4 + c5))))
  <2> DEFINE XA == P.TA - C.RA - C.RB
             XB == XA + P.TB + P.TC + P.TD
             XC == XB + P.TF + P.TG + P.TH + P.TI - C.RC - C.RD - C.RE - C.RF - C.RG - C.RH - C.RI - C.RJ
             XD == XC - C.RK
             XE == XD + P.TJ - C.RL
             XF == P.TK + P.TL + P.TM - C.RM - C.RN
             XG == XE + XF
             XH == P.TN + P.TO - C.RO - C.RP
             XI == XG + XH - C.RQ - C.RS
  <2>1. /\ P.TA \in Int /\ P.TB \in Int /\ P.TC \in Int /\ P.TD \in Int /\ P.TF \in Int /\ P.TG \in Int
        /\ P.TH \in Int /\ P.TI \in Int /\ P.TJ \in Int /\ P.TK \in Int /\ P.TL \in Int /\ P.TM \in Int
        /\ P.TN \in Int /\ P.TO \in Int
    BY <1>3
  <2>2. /\ C.RA \in Int /\ C.RB \in Int /\ C.RC \in Int /\ C.RD \in Int /\ C.RE \in Int /\ C.RF \in Int
        /\ C.RG \in Int /\ C.RH \in Int /\ C.RI \in Int /\ C.RJ \in Int /\ C.RK \in Int /\ C.RL \in Int
        /\ C.RM \in Int /\ C.RN \in Int /\ C.RO \in Int /\ C.RP \in Int /\ C.RQ \in Int /\ C.RS \in Int
    BY <1>3
  <2>3. Cascade(P, C).XI = XI
    BY DEF Cascade
  <2>4. XI = (p1 + (p2 + (p3 + p4))) - (c1 + (c2 + (c3 + (c4 + c5))))
    BY <2>1, <2>2
  <2> QED BY <2>3, <2>4
<1> HIDE DEF DP, DC, p1, p2, p3, p4, c1, c2, c3, c4, c5
<1> QED BY <1>1, <1>2, <1>4, <1>5, <1>6

\* The net result of a closing is the one of the income statement.
LEMMA NetsSame ==
  ASSUME NEW txs, Rows(txs), \A t \in txs : Reconciled(t)
  PROVE  SnapshotOf(txs).net = Income(txs).XI
<1> DEFINE In(section) == {t \in txs : /\ FinancialMapping(t.account).statement = "INCOME_STATEMENT"
                                       /\ FinancialMapping(t.account).section = section}
           sales == In("REVENUE")
           costs == In("EXPENSE")
           g == [t \in txs |-> t.amount]
           m == [t \in txs |-> Magnitude(t.amount)]
           P == [ref \in DOMAIN Products |-> ProductLine(txs, ref)]
           C == [ref \in DOMAIN Charges  |-> ChargeLine(txs, ref)]
<1>1. /\ sales \cup costs = txs /\ sales \cap costs = {} /\ sales \in SUBSET txs /\ costs \in SUBSET txs
      /\ \A t \in sales : t.amount >= 0 /\ Counted(Products, t) = 1 /\ Counted(Charges, t) = 0
      /\ \A t \in costs : Counted(Charges, t) = 1 /\ Counted(Products, t) = 0
      /\ \A t \in costs : ~StartsWithAny(t.account, {"68", "69"})
  BY DEF Reconciled
<1>2. \A t \in txs : g[t] \in Int /\ m[t] \in Int /\ (t \in sales => m[t] = g[t])
  BY <1>1 DEF Rows, Magnitude
<1>3. IsFiniteSet(txs) /\ IsFiniteSet(sales) /\ IsFiniteSet(costs)
  BY <1>1, FS_Subset DEF Rows
<1>4. SnapshotOf(txs).net = SumOf(m, sales) - SumOf(m, costs)
  <2> DEFINE Added(rows) == Total(rows, LAMBDA t : Magnitude(t.amount))
             totals == ClosingTotals(txs)
  <2>1. /\ totals.revenue = Added(sales) /\ totals.expenses = Added(costs)
        /\ totals.amortissements = Added({t \in costs : StartsWith(t.account, "68")})
        /\ totals.taxes = Added({t \in costs : StartsWith(t.account, "69")})
    BY DEF ClosingTotals
  <2>2. {t \in costs : StartsWith(t.account, "68")} = {} /\ {t \in costs : StartsWith(t.account, "69")} = {}
    BY <1>1 DEF StartsWithAny
  <2>3. totals.amortissements = 0 /\ totals.taxes = 0
    BY <2>1, <2>2, TotalsEmpty
  <2>4. \A some \in SUBSET txs : Added(some) = SumOf(m, some)
    <3> SUFFICES ASSUME NEW some \in SUBSET txs PROVE Added(some) = SumOf(m, some)
      OBVIOUS
    <3>1. IsFiniteSet(some)
      BY <1>3, FS_Subset
    <3>2. Added(some) = SumOf([t \in some |-> Magnitude(t.amount)], some)
      BY <3>1, MagnitudeSums
    <3>3. SumOf([t \in some |-> Magnitude(t.amount)], some) = SumOf(m, some)
      BY <3>1, SumOfSame
    <3> QED BY <3>2, <3>3
  <2>5. SnapshotOf(txs).net = (totals.revenue - totals.expenses) - totals.amortissements - totals.taxes
    BY DEF SnapshotOf
  <2> HIDE DEF totals, Added, sales, costs, m
  <2>6. totals.revenue = SumOf(m, sales) /\ totals.expenses = SumOf(m, costs)
    BY <1>1, <2>1, <2>4
  <2>7. SumOf(m, sales) \in Int /\ SumOf(m, costs) \in Int
    BY <1>1, <1>2, <1>3, SumOfInt
  <2> QED BY <2>3, <2>5, <2>6, <2>7
<1>5. \A ref \in DOMAIN Products : P[ref] = SumOf(g, On(txs, Products[ref]))
  <2> SUFFICES ASSUME NEW ref \in DOMAIN Products PROVE ProductLine(txs, ref) = SumOf(g, On(txs, Products[ref]))
    OBVIOUS
  <2> DEFINE some == On(txs, Products[ref])
  <2>1. IsFiniteSet(some) /\ some \in SUBSET txs
    BY <1>3, FS_Subset DEF On
  <2>2. ProductLine(txs, ref) = SumOf([t \in some |-> t.amount], some)
    BY <2>1, AmountSums DEF ProductLine
  <2> HIDE DEF some
  <2>3. SumOf([t \in some |-> t.amount], some) = SumOf(g, some)
    BY <2>1, SumOfSame
  <2> QED BY <2>2, <2>3 DEF some
<1>6. \A ref \in DOMAIN Charges : C[ref] = SumOf(m, On(txs, Charges[ref]))
  <2> SUFFICES ASSUME NEW ref \in DOMAIN Charges PROVE ChargeLine(txs, ref) = SumOf(m, On(txs, Charges[ref]))
    OBVIOUS
  <2> DEFINE some == On(txs, Charges[ref])
  <2>1. IsFiniteSet(some) /\ some \in SUBSET txs
    BY <1>3, FS_Subset DEF On
  <2>2. ChargeLine(txs, ref) = SumOf([t \in some |-> Magnitude(t.amount)], some)
    BY <2>1, MagnitudeSums DEF ChargeLine
  <2> HIDE DEF some
  <2>3. SumOf([t \in some |-> Magnitude(t.amount)], some) = SumOf(m, some)
    BY <2>1, SumOfSame
  <2> QED BY <2>2, <2>3 DEF some
<1>7. (\A ref \in DOMAIN Products : P[ref] \in Int) /\ (\A ref \in DOMAIN Charges : C[ref] \in Int)
  BY LinesTyped
<1>8. Income(txs) = Cascade(P, C)
  BY DEF Income
<1> HIDE DEF sales, costs, g, m, P, C
<1>9. /\ IsFiniteSet(DOMAIN Products) /\ IsFiniteSet(DOMAIN Charges)
      /\ Cascade(P, C).XI = SumOf(P, DOMAIN Products) - SumOf(C, DOMAIN Charges)
  BY <1>7, CascadeAddsUp
<1>10. txs \ sales = costs /\ txs \ costs = sales
  BY <1>1
<1>11. SumOf(P, DOMAIN Products) = SumOf(g, sales)
  BY <1>1, <1>2, <1>3, <1>5, <1>9, <1>10, LinesAddUp
<1>12. SumOf(C, DOMAIN Charges) = SumOf(m, costs)
  BY <1>1, <1>2, <1>3, <1>6, <1>9, <1>10, LinesAddUp
<1>13. SumOf(g, sales) = SumOf(m, sales)
  BY <1>1, <1>2, <1>3, SumOfSame
<1> QED BY <1>4, <1>8, <1>9, <1>11, <1>12, <1>13

\* The net results of the periods that are open, and of those that are closed.
LEMMA ClosedNetsSame == FiguresInv => NetsAgree
<1> SUFFICES ASSUME FiguresInv PROVE NetsAgree
  OBVIOUS
<1>1. ASSUME NEW p \in Period, \A t \in snapshot[p].of : Reconciled(t)
      PROVE  snapshot[p].figures.net = Income(snapshot[p].of).XI
  <2>1. CASE status[p] = "OPEN"
    <3>1. snapshot[p] = [figures |-> NoSnapshot, of |-> {}]
      BY <2>1 DEF FiguresInv, ClosingsKept
    <3>2. snapshot[p].figures = NoSnapshot /\ snapshot[p].of = {}
      BY <3>1
    <3>3. NoSnapshot.net = 0
      BY DEF NoSnapshot
    <3> QED BY <3>2, <3>3, IncomeEmpty
  <2>2. CASE status[p] = "CLOSED"
    <3>1. snapshot[p].of \subseteq Of(ledger, {p}) /\ snapshot[p].figures = SnapshotOf(snapshot[p].of)
      BY <2>2 DEF FiguresInv, ClosingsKept
    <3>2. Rows(ledger) /\ snapshot[p].of \in SUBSET ledger
      BY <3>1, FiguresAssumption DEF Rows, FiguresInv, Of
    <3>3. Rows(snapshot[p].of)
      BY <3>2, RowsOf
    <3> QED BY <1>1, <3>1, <3>3, NetsSame
  <2> QED BY <2>1, <2>2 DEF FiguresInv
<1>2. \A t : Reconciled(t) => ReportLineType(t.account, t.amount) = FinancialMapping(t.account).section
  BY TypeIsSection DEF Reconciled
<1>3. ASSUME NEW t \in Txs, NEW row \in ImportedRows(t)
      PROVE  LET type == ReportLineType(row.account, row.amount)
             IN  (type = "REVENUE" => row.amount > 0) /\ (type = "EXPENSE" => row.amount < 0)
  BY ImportedSigns
<1> QED BY <1>1, <1>2, <1>3 DEF NetsAgree

-----------------------------------------------------------------------------
(* The dashboard adds up.                                                  *)

\* The keys of a finite set are finite.
LEMMA KeysFinite ==
  ASSUME NEW S, IsFiniteSet(S), NEW key
  PROVE  IsFiniteSet({key[x] : x \in S})
<1> DEFINE T == {key[x] : x \in S}
           f == [x \in S |-> key[x]]
<1>1. f \in Surjection(S, T)
  BY DEF Surjection
<1> HIDE DEF f, T
<1>2. IsFiniteSet(T)
  BY <1>1, FS_Surjection
<1> QED BY <1>2 DEF T

\* A snapshot makes the EBITDA of the sales and the expenses, and when there are none of
\* either, no transaction of the section has an amount.
LEMMA SnapshotAddsUp ==
  ASSUME NEW txs, Rows(txs)
  PROVE  LET figures == SnapshotOf(txs)
             Zero(section) == \A t \in txs :
               FinancialMapping(t.account).statement = "INCOME_STATEMENT" /\ FinancialMapping(t.account).section = section
                 => Magnitude(t.amount) = 0
         IN  /\ figures.revenue \in Int /\ figures.expenses \in Int
             /\ figures.ebitda = figures.revenue - figures.expenses
             /\ figures.revenue = 0 => Zero("REVENUE")
             /\ figures.expenses = 0 => Zero("EXPENSE")
<1> DEFINE In(section) == {t \in txs : /\ FinancialMapping(t.account).statement = "INCOME_STATEMENT"
                                       /\ FinancialMapping(t.account).section = section}
           Added(rows) == Total(rows, LAMBDA t : Magnitude(t.amount))
           sales == In("REVENUE")
           costs == In("EXPENSE")
           totals == ClosingTotals(txs)
           figures == SnapshotOf(txs)
<1>1. totals.revenue = Added(sales) /\ totals.expenses = Added(costs)
  BY DEF ClosingTotals
<1>2. /\ figures.revenue = totals.revenue /\ figures.expenses = totals.expenses
      /\ figures.ebitda = totals.revenue - totals.expenses
  BY DEF SnapshotOf
<1>3. ASSUME NEW some \in SUBSET txs
      PROVE  Added(some) \in Nat /\ (Added(some) = 0 => \A t \in some : Magnitude(t.amount) = 0)
  <2> DEFINE m == [t \in some |-> Magnitude(t.amount)]
  <2>1. IsFiniteSet(some) /\ \A t \in some : m[t] \in Nat
    BY FS_Subset DEF Rows, Magnitude
  <2>2. Added(some) = SumOf(m, some)
    BY <2>1, MagnitudeSums
  <2>3. \A t \in some : m[t] = Magnitude(t.amount)
    OBVIOUS
  <2> HIDE DEF Added, m
  <2> QED BY <2>1, <2>2, <2>3, SumOfNaturals
<1>4. sales \in SUBSET txs /\ costs \in SUBSET txs
  OBVIOUS
<1> HIDE DEF Added, totals, figures
<1>5. Added(sales) \in Nat /\ (Added(sales) = 0 => \A t \in sales : Magnitude(t.amount) = 0)
  BY <1>3, <1>4
<1>6. Added(costs) \in Nat /\ (Added(costs) = 0 => \A t \in costs : Magnitude(t.amount) = 0)
  BY <1>3, <1>4
<1> QED BY <1>1, <1>2, <1>5, <1>6 DEF figures

\* The values of a period.
LEMMA ShownAmounts ==
  ASSUME FiguresInv, NEW p \in Period, kpis[p] # <<>>
  PROVE  \E txs \in SUBSET Of(ledger, {p}) : \E planned : \E up \in BOOLEAN :
           LET base == Base(txs, planned, up)
           IN  /\ Rows(txs) /\ base.ca \in Int /\ base.ebitda \in Int
               /\ kpis[p].CA.value = base.ca
               /\ kpis[p].EBITDA.value = base.ebitda
               /\ kpis[p].CHARGES.value = base.ca - base.ebitda
<1>1. IsCalculated(p)
  BY DEF FiguresInv, CalculationsKept
<1>2. PICK txs \in SUBSET Of(ledger, {p}) : \E planned : \E up \in BOOLEAN :
        LET values == Computed(txs, planned, BudgetOf(p), up)
            base   == Base(txs, planned, up)
        IN  /\ Rows(txs)
            /\ kpis[p] = Stored(values)
            /\ DOMAIN values = Indicators
            /\ values["CA"] = <<base.ca, 100>> /\ values["EBITDA"] = <<base.ebitda, 100>>
            /\ values["CHARGES"] = <<base.ca - base.ebitda, 100>>
  BY <1>1, CalculatedRows
<1>3. PICK planned : \E up \in BOOLEAN :
        LET values == Computed(txs, planned, BudgetOf(p), up)
            base   == Base(txs, planned, up)
        IN  /\ Rows(txs)
            /\ kpis[p] = Stored(values)
            /\ DOMAIN values = Indicators
            /\ values["CA"] = <<base.ca, 100>> /\ values["EBITDA"] = <<base.ebitda, 100>>
            /\ values["CHARGES"] = <<base.ca - base.ebitda, 100>>
  BY <1>2
<1>4. PICK up \in BOOLEAN :
        LET values == Computed(txs, planned, BudgetOf(p), up)
            base   == Base(txs, planned, up)
        IN  /\ Rows(txs)
            /\ kpis[p] = Stored(values)
            /\ DOMAIN values = Indicators
            /\ values["CA"] = <<base.ca, 100>> /\ values["EBITDA"] = <<base.ebitda, 100>>
            /\ values["CHARGES"] = <<base.ca - base.ebitda, 100>>
  BY <1>3
<1> DEFINE values == Computed(txs, planned, BudgetOf(p), up)
           ca == Base(txs, planned, up).ca
           ebitda == Base(txs, planned, up).ebitda
<1>5. ca \in Int /\ ebitda \in Int
  BY <1>4, BaseTyped
<1>6. /\ values["CA"] = <<ca, 100>> /\ values["EBITDA"] = <<ebitda, 100>> /\ values["CHARGES"] = <<ca - ebitda, 100>>
      /\ DOMAIN values = Indicators /\ kpis[p] = Stored(values)
  BY <1>4
<1> HIDE DEF values, ca, ebitda
<1>7. \A code \in Indicators : kpis[p][code] = [value |-> Rounded(values[code]), severity |-> Severity(code, values[code])]
  BY <1>6 DEF Stored
<1>8. \A code \in Indicators : kpis[p][code].value = Rounded(values[code])
  <2> SUFFICES ASSUME NEW code \in Indicators PROVE kpis[p][code].value = Rounded(values[code])
    OBVIOUS
  <2> DEFINE row == kpis[p][code]
             r == Rounded(values[code])
             s == Severity(code, values[code])
  <2>1. row = [value |-> r, severity |-> s]
    BY <1>7
  <2> HIDE DEF row, r, s
  <2>2. row.value = r
    BY <2>1
  <2> QED BY <2>2 DEF row, r
<1>9. ca - ebitda \in Int
  BY <1>5
<1>10. Rounded(<<ca, 100>>) = ca /\ Rounded(<<ebitda, 100>>) = ebitda
       /\ Rounded(<<ca - ebitda, 100>>) = ca - ebitda
  BY <1>5, <1>9, RoundedAmount
<1>11. kpis[p]["CA"].value = ca /\ kpis[p]["EBITDA"].value = ebitda
       /\ kpis[p]["CHARGES"].value = ca - ebitda
  BY <1>6, <1>8, <1>10 DEF Indicators
<1> QED BY <1>4, <1>5, <1>11 DEF ca, ebitda

\* Where the mapping and the indicators take the accounts for the same, no revenue
\* means no turnover and no expense no charge.
LEMMA SameZeros ==
  ASSUME NEW all, Rows(all), \A t \in all : SameAccounts(t), NEW txs \in SUBSET all, NEW planned, NEW up
  PROVE  LET base == Base(txs, planned, up)
             figures == SnapshotOf(all)
         IN  /\ figures.revenue = 0 => base.ca = 0
             /\ figures.expenses = 0 => base.ca - base.ebitda = 0
<1> DEFINE base == Base(txs, planned, up)
           figures == SnapshotOf(all)
           Added(prefixes) == Total(On(txs, prefixes), LAMBDA t : Magnitude(t.amount))
           IsOf(t, section) == /\ FinancialMapping(t.account).statement = "INCOME_STATEMENT"
                               /\ FinancialMapping(t.account).section = section
<1>1. Rows(txs)
  BY RowsOf
<1>2. /\ figures.revenue = 0 => \A t \in all : IsOf(t, "REVENUE") => Magnitude(t.amount) = 0
      /\ figures.expenses = 0 => \A t \in all : IsOf(t, "EXPENSE") => Magnitude(t.amount) = 0
  BY SnapshotAddsUp
<1>3. \A t \in all : /\ StartsWithAny(t.account, KpiPrefixes.CA) => IsOf(t, "REVENUE")
                     /\ StartsWithAny(t.account, KpiPrefixes.CHARGES) => IsOf(t, "EXPENSE")
  BY DEF SameAccounts
<1>4. ASSUME NEW prefixes, \A t \in On(txs, prefixes) : Magnitude(t.amount) = 0 PROVE Added(prefixes) = 0
  <2> DEFINE some == On(txs, prefixes)
             m == [t \in some |-> Magnitude(t.amount)]
  <2>1. some \in SUBSET txs
    BY DEF On
  <2>2. IsFiniteSet(some) /\ \A t \in some : m[t] = 0
    BY <1>1, <1>4, <2>1, FS_Subset DEF Rows
  <2>3. Added(prefixes) = SumOf(m, some)
    BY <2>2, MagnitudeSums
  <2> HIDE DEF Added, m, some
  <2> QED BY <2>2, <2>3, SumOfZeros
<1>5. figures.revenue = 0 => Added(KpiPrefixes.CA) = 0
  <2> SUFFICES ASSUME figures.revenue = 0 PROVE Added(KpiPrefixes.CA) = 0
    OBVIOUS
  <2>1. \A t \in On(txs, KpiPrefixes.CA) : Magnitude(t.amount) = 0
    <3> HIDE DEF IsOf
    <3> QED BY <1>2, <1>3 DEF On
  <2> HIDE DEF Added
  <2> QED BY <1>4, <2>1
<1>6. figures.expenses = 0 => Added(KpiPrefixes.CHARGES) = 0
  <2> SUFFICES ASSUME figures.expenses = 0 PROVE Added(KpiPrefixes.CHARGES) = 0
    OBVIOUS
  <2>1. \A t \in On(txs, KpiPrefixes.CHARGES) : Magnitude(t.amount) = 0
    <3> HIDE DEF IsOf
    <3> QED BY <1>2, <1>3 DEF On
  <2> HIDE DEF Added
  <2> QED BY <1>4, <2>1
<1>7. CASE Answered(txs, planned, up)
  <2>1. txs = {}
    BY <1>7 DEF Answered
  <2>2. base.ca = 0 /\ base.ebitda = 0
    BY <2>1, BaseEmpty
  <2> HIDE DEF base
  <2> QED BY <2>2 DEF base
<1>8. CASE ~Answered(txs, planned, up)
  <2>1. base.ca = Added(KpiPrefixes.CA) /\ base.ebitda = Added(KpiPrefixes.CA) - Added(KpiPrefixes.CHARGES)
    BY <1>1, <1>8, BaseTyped
  <2>2. Added(KpiPrefixes.CA) \in Nat /\ Added(KpiPrefixes.CHARGES) \in Nat
    <3>1. On(txs, KpiPrefixes.CA) \in SUBSET txs /\ On(txs, KpiPrefixes.CHARGES) \in SUBSET txs
      BY DEF On
    <3> QED BY <1>1, <3>1, RowsOf, TotalsTyped
  <2> HIDE DEF Added, base, figures
  <2>3. base.ca - base.ebitda = Added(KpiPrefixes.CHARGES)
    BY <2>1, <2>2
  <2> QED BY <1>5, <1>6, <2>1, <2>3 DEF base, figures
<1> QED BY <1>7, <1>8

\* The summary of a period, whichever of its figures come from the indicators.
LEMMA SummarySame ==
  ASSUME FiguresInv, NEW p \in Period
  PROVE  SummaryAddsUp(p)
<1> DEFINE figures == snapshot[p].figures
           shown   == kpis[p]
           summary == Summary({p}, shown)
           revenue == IF figures.revenue # 0 \/ shown = <<>> THEN figures.revenue ELSE shown["CA"].value
           expenses == IF figures.expenses # 0 \/ shown = <<>> THEN figures.expenses ELSE shown["CHARGES"].value
           ebitda == IF figures.ebitda # 0 \/ shown = <<>> THEN figures.ebitda ELSE shown["EBITDA"].value
<1> SUFFICES ASSUME status[p] = "CLOSED" => /\ snapshot[p].of = Of(ledger, {p}) /\ figures.ebitda # 0
                                            /\ \A t \in snapshot[p].of : SameAccounts(t)
             PROVE  summary.ebitda = summary.revenue - summary.expenses
  BY DEF SummaryAddsUp
<1>1. /\ figures.revenue \in Int /\ figures.expenses \in Int /\ figures.ebitda = figures.revenue - figures.expenses
      /\ status[p] = "OPEN" => figures.revenue = 0 /\ figures.expenses = 0
      /\ status[p] = "CLOSED" => figures = SnapshotOf(snapshot[p].of) /\ Rows(snapshot[p].of)
  <2>1. CASE status[p] = "OPEN"
    <3>1. snapshot[p] = [figures |-> NoSnapshot, of |-> {}]
      BY <2>1 DEF FiguresInv, ClosingsKept
    <3>2. figures = NoSnapshot
      BY <3>1
    <3> HIDE DEF figures
    <3> QED BY <2>1, <3>2 DEF NoSnapshot
  <2>2. CASE status[p] = "CLOSED"
    <3>1. snapshot[p].of \subseteq Of(ledger, {p}) /\ figures = SnapshotOf(snapshot[p].of)
      BY <2>2 DEF FiguresInv, ClosingsKept
    <3>2. Rows(ledger) /\ snapshot[p].of \in SUBSET ledger
      BY <3>1, FiguresAssumption DEF Rows, FiguresInv, Of
    <3>3. Rows(snapshot[p].of)
      BY <3>2, RowsOf
    <3> HIDE DEF figures
    <3> QED BY <2>2, <3>1, <3>3, SnapshotAddsUp
  <2> QED BY <2>1, <2>2 DEF FiguresInv
<1>2. summary.revenue = revenue /\ summary.expenses = expenses /\ summary.ebitda = ebitda
  <2> DEFINE Added(field) == MapThenSumSet(LAMBDA q : snapshot[q].figures[field], {p})
  <2>1. ASSUME NEW field, figures[field] \in Int PROVE Added(field) = figures[field]
    <3>1. IsFiniteSet({p})
      BY FS_Singleton
    <3>2. Added(field) = SumOf([q \in {p} |-> snapshot[q].figures[field]], {p})
      BY <3>1, FieldSums
    <3> QED BY <2>1, <3>2, SumOfSingle
  <2>2. figures["revenue"] \in Int /\ figures["expenses"] \in Int /\ figures["ebitda"] \in Int
    <3> HIDE DEF figures
    <3> QED BY <1>1
  <2>3. /\ Summed({p}).revenue = Added("revenue") /\ Summed({p}).expenses = Added("expenses")
        /\ Summed({p}).ebitda = Added("ebitda")
    BY DEF Summed, NoSnapshot
  <2>4. Added("revenue") = figures["revenue"] /\ Added("expenses") = figures["expenses"] /\ Added("ebitda") = figures["ebitda"]
    <3> HIDE DEF Added, figures
    <3> QED BY <2>1, <2>2
  <2> DEFINE summed == Summed({p})
  <2>5. /\ summary.revenue = IF summed.revenue # 0 \/ shown = <<>> THEN summed.revenue ELSE shown["CA"].value
        /\ summary.expenses = IF summed.expenses # 0 \/ shown = <<>> THEN summed.expenses ELSE shown["CHARGES"].value
        /\ summary.ebitda = IF summed.ebitda # 0 \/ shown = <<>> THEN summed.ebitda ELSE shown["EBITDA"].value
    BY DEF Summary
  <2>6. summed.revenue = figures.revenue /\ summed.expenses = figures.expenses /\ summed.ebitda = figures.ebitda
    BY <2>3, <2>4
  <2> HIDE DEF summary, summed, figures, shown
  <2> QED BY <2>5, <2>6
<1> HIDE DEF summary
<1>3. CASE shown = <<>>
  <2>1. revenue = figures.revenue /\ expenses = figures.expenses /\ ebitda = figures.ebitda
    BY <1>3
  <2> HIDE DEF figures, revenue, expenses, ebitda
  <2> QED BY <1>1, <1>2, <2>1
<1>4. CASE shown # <<>>
  <2>1. PICK txs \in SUBSET Of(ledger, {p}) : \E planned : \E up \in BOOLEAN :
          LET base == Base(txs, planned, up)
          IN  /\ base.ca \in Int /\ base.ebitda \in Int
              /\ shown["CA"].value = base.ca
              /\ shown["EBITDA"].value = base.ebitda
              /\ shown["CHARGES"].value = base.ca - base.ebitda
    BY <1>4, ShownAmounts
  <2>2. PICK planned, up :
          LET base == Base(txs, planned, up)
          IN  /\ base.ca \in Int /\ base.ebitda \in Int
              /\ shown["CA"].value = base.ca
              /\ shown["EBITDA"].value = base.ebitda
              /\ shown["CHARGES"].value = base.ca - base.ebitda
    BY <2>1
  <2> DEFINE ca == Base(txs, planned, up).ca
             eb == Base(txs, planned, up).ebitda
  <2>3. ca \in Int /\ eb \in Int /\ shown["CA"].value = ca /\ shown["EBITDA"].value = eb
        /\ shown["CHARGES"].value = ca - eb
    BY <2>2
  <2>4. CASE status[p] = "OPEN"
    <3>1. figures.revenue = 0 /\ figures.expenses = 0 /\ figures.ebitda = 0
      <4> HIDE DEF figures
      <4> QED BY <1>1, <2>4
    <3>2. revenue = ca /\ expenses = ca - eb /\ ebitda = eb
      <4> HIDE DEF figures, shown, ca, eb
      <4> QED BY <1>4, <2>3, <3>1
    <3> HIDE DEF revenue, expenses, ebitda, ca, eb
    <3> QED BY <1>2, <2>3, <3>2
  <2>5. CASE status[p] = "CLOSED"
    <3>1. /\ snapshot[p].of = Of(ledger, {p}) /\ figures.ebitda # 0
          /\ \A t \in snapshot[p].of : SameAccounts(t)
          /\ figures = SnapshotOf(snapshot[p].of) /\ Rows(snapshot[p].of)
      BY <1>1, <2>5
    <3>2. (figures.revenue = 0 => ca = 0) /\ (figures.expenses = 0 => ca - eb = 0)
      <4>1. txs \in SUBSET snapshot[p].of
        BY <3>1
      <4> HIDE DEF figures
      <4> QED BY <3>1, <4>1, SameZeros
    <3> HIDE DEF figures, shown, ca, eb
    <3>3. revenue = figures.revenue
      BY <2>3, <3>2
    <3>4. expenses = figures.expenses
      BY <2>3, <3>2
    <3>5. ebitda = figures.ebitda
      BY <3>1
    <3> HIDE DEF revenue, expenses, ebitda
    <3> QED BY <1>1, <1>2, <3>3, <3>4, <3>5
  <2> QED BY <2>4, <2>5 DEF FiguresInv
<1> QED BY <1>3, <1>4

\* The amounts of a part of some rows add up as those of the part.
LEMMA MagnitudesOfPart ==
  ASSUME NEW rows, IsFiniteSet(rows), NEW some \in SUBSET rows
  PROVE  Total(some, LAMBDA t : Magnitude(t.amount)) = SumOf([t \in rows |-> Magnitude(t.amount)], some)
<1> DEFINE m == [t \in rows |-> Magnitude(t.amount)]
           n == [t \in some |-> Magnitude(t.amount)]
<1>1. IsFiniteSet(some) /\ \A t \in some : n[t] = m[t]
  BY FS_Subset
<1>2. Total(some, LAMBDA t : Magnitude(t.amount)) = SumOf(n, some)
  BY <1>1, MagnitudeSums
<1> HIDE DEF m, n
<1>3. SumOf(n, some) = SumOf(m, some)
  BY <1>1, SumOfSame
<1> QED BY <1>2, <1>3 DEF m

\* A rounded figure is half a unit from what it rounds, at most.
LEMMA MathRoundBounds ==
  ASSUME NEW n \in Int
  PROVE  MathRound(n) \in Int /\ 100 * MathRound(n) - 50 <= n /\ n < 100 * MathRound(n) + 50
<1>1. (n + 50) \div 100 \in Int /\ 100 * ((n + 50) \div 100) <= n + 50 /\ n + 50 < 100 * ((n + 50) \div 100) + 100
  OBVIOUS
<1> QED BY <1>1 DEF MathRound

\* Rounded one by one, a sum moves by half a unit for each figure, at most.
LEMMA RoundedSums ==
  ASSUME NEW S, IsFiniteSet(S), NEW f, NEW h,
         \A x \in S : f[x] \in Int /\ h[x] \in Int /\ 100 * h[x] - 50 <= f[x] /\ f[x] <= 100 * h[x] + 50
  PROVE  /\ SumOf(f, S) \in Int /\ SumOf(h, S) \in Int /\ Cardinality(S) \in Nat
         /\ 100 * SumOf(h, S) - 50 * Cardinality(S) <= SumOf(f, S)
         /\ SumOf(f, S) <= 100 * SumOf(h, S) + 50 * Cardinality(S)
<1> DEFINE Q == {s \in SUBSET S : /\ 100 * SumOf(h, s) - 50 * Cardinality(s) <= SumOf(f, s)
                                  /\ SumOf(f, s) <= 100 * SumOf(h, s) + 50 * Cardinality(s)}
<1>1. \A s \in SUBSET S : /\ IsFiniteSet(s) /\ Cardinality(s) \in Nat
                          /\ SumOf(f, s) \in Int /\ SumOf(h, s) \in Int
  BY FS_Subset, FS_CardinalityType, SumOfInt
<1>2. ASSUME NEW s \in SUBSET S, \A x \in s : s \ {x} \in Q PROVE s \in Q
  <2>1. CASE s = {}
    BY <2>1, SumOfEmpty, FS_EmptySet
  <2>2. CASE s # {}
    <3>1. PICK x : x \in s
      BY <2>2
    <3> DEFINE r == s \ {x}
    <3>2. r \in SUBSET S /\ r \in Q
      BY <1>2, <3>1
    <3>3. SumOf(f, s) = f[x] + SumOf(f, r) /\ SumOf(h, s) = h[x] + SumOf(h, r)
      BY <1>1, <3>1, SumOfRemove
    <3>4. Cardinality(s) = Cardinality(r) + 1
      <4>1. Cardinality(r) = Cardinality(s) - 1
        BY <1>1, <3>1, FS_RemoveElement
      <4> HIDE DEF r
      <4> QED BY <1>1, <4>1
    <3>5. f[x] \in Int /\ h[x] \in Int /\ 100 * h[x] - 50 <= f[x] /\ f[x] <= 100 * h[x] + 50
      BY <3>1
    <3>6. /\ 100 * SumOf(h, r) - 50 * Cardinality(r) <= SumOf(f, r)
          /\ SumOf(f, r) <= 100 * SumOf(h, r) + 50 * Cardinality(r)
      BY <3>2
    <3>7. /\ Cardinality(r) \in Nat /\ SumOf(f, r) \in Int /\ SumOf(h, r) \in Int
      BY <1>1, <3>2
    <3> HIDE DEF r
    <3>8. /\ 100 * SumOf(h, s) - 50 * Cardinality(s) <= SumOf(f, s)
          /\ SumOf(f, s) <= 100 * SumOf(h, s) + 50 * Cardinality(s)
      BY <3>3, <3>4, <3>5, <3>6, <3>7
    <3> QED BY <3>8
  <2> QED BY <2>1, <2>2
<1>3. SUBSET S \subseteq Q
  <2> HIDE DEF Q
  <2> QED BY <1>2, SubsetInduction
<1> QED BY <1>1, <1>3

\* A month's EBITDA is rounded for itself.
LEMMA MonthRounded ==
  ASSUME NEW sales \in Int, NEW costs \in Int
  PROVE  MathRound(sales - costs) - (MathRound(sales) - MathRound(costs)) \in -1 .. 1
<1>1. /\ MathRound(sales) \in Int /\ 100 * MathRound(sales) - 50 <= sales /\ sales < 100 * MathRound(sales) + 50
      /\ MathRound(costs) \in Int /\ 100 * MathRound(costs) - 50 <= costs /\ costs < 100 * MathRound(costs) + 50
  BY MathRoundBounds
<1> DEFINE gap == sales - costs
<1>2. gap \in Int
  OBVIOUS
<1>3. MathRound(gap) \in Int /\ 100 * MathRound(gap) - 50 <= gap /\ gap < 100 * MathRound(gap) + 50
  <2> HIDE DEF gap
  <2> QED BY <1>2, MathRoundBounds
<1> DEFINE s == MathRound(sales)
           c == MathRound(costs)
           g == MathRound(gap)
<1>4. s \in Int /\ c \in Int /\ g \in Int
  BY <1>1, <1>3
<1>5. /\ 100 * s - 50 <= sales /\ sales < 100 * s + 50 /\ 100 * c - 50 <= costs /\ costs < 100 * c + 50
      /\ 100 * g - 50 <= sales - costs /\ sales - costs < 100 * g + 50
  BY <1>1, <1>3
<1>6. g - (s - c) = MathRound(sales - costs) - (MathRound(sales) - MathRound(costs))
  OBVIOUS
<1> HIDE DEF s, c, g
<1>7. -1 <= g - (s - c) /\ g - (s - c) <= 1 /\ g - (s - c) \in Int
  BY <1>4, <1>5
<1>8. g - (s - c) \in -1 .. 1
  BY <1>7
<1> QED BY <1>6, <1>8

\* Both the departments and the months divide what was spent in the year; the chart
\* shows some of the departments, and all if there is room.
LEMMA DepartmentsSame ==
  ASSUME FiguresInv, NEW year
  PROVE  DepartmentsAddUp(year)
<1> DEFINE rows == {t \in ledger : t.period[1] = year}
           data == MonthlyData(year)
           spent == {t \in rows : t.amount < 0}
           m == [t \in rows |-> Magnitude(t.amount)]
           D == {t.department : t \in spent}
           M == {q \in Period : q[1] = year}
           OfDept(d) == {t \in rows : t.department = d}
           Value(d) == MathRound(Spent(OfDept(d)))
           Ahead(e, d) == Value(e) > Value(d) \/ (Value(e) = Value(d) /\ Rank[e] < Rank[d])
           T == {d \in D : Cardinality({e \in D : Ahead(e, d)}) < DepartmentsShown}
           dept == [t \in rows |-> t.department]
           month == [t \in rows |-> t.period]
           ofDept == [d \in D |-> {t \in spent : dept[t] = d}]
           ofMonth == [p \in M |-> {t \in spent : month[t] = p}]
           deptSpent == [d \in D |-> Spent(OfDept(d))]
           monthSpent == [p \in M |-> Spent(Of(rows, {p}))]
           byDept == [d \in T |-> data.byDept[d]]
           byMonth == [p \in M |-> data.monthly[p].expenses]
<1>1. IsFiniteSet(rows) /\ IsFiniteSet(spent) /\ IsFiniteSet(M) /\ spent \in SUBSET rows
  BY FS_Subset, FiguresAssumption DEF FiguresInv
<1>2. IsFiniteSet(D) /\ IsFiniteSet(T) /\ T \in SUBSET D
  <2>1. D = {dept[t] : t \in spent}
    OBVIOUS
  <2>2. IsFiniteSet(D)
    <3> HIDE DEF D, dept, spent
    <3> QED BY <1>1, <2>1, KeysFinite
  <2>3. T \in SUBSET D
    <3> HIDE DEF D, Ahead
    <3> QED OBVIOUS
  <2> HIDE DEF D, T
  <2> QED BY <2>2, <2>3, FS_Subset
<1>3. /\ data.monthly = [p \in M |-> [revenue  |-> MathRound(Earned(Of(rows, {p}))),
                                      expenses |-> MathRound(Spent(Of(rows, {p}))),
                                      ebitda   |-> MathRound(Earned(Of(rows, {p})) - Spent(Of(rows, {p})))]]
      /\ data.byDept = [d \in T |-> Value(d)]
  BY DEF MonthlyData, Top
<1>4. \A t \in spent : /\ m[t] \in Nat /\ dept[t] = t.department /\ month[t] = t.period
                       /\ t.department \in D /\ t.period \in M
  BY FiguresAssumption DEF FiguresInv, Magnitude
<1>5. \A d \in D : deptSpent[d] = SumOf(m, ofDept[d])
  <2> SUFFICES ASSUME NEW d \in D PROVE Spent(OfDept(d)) = SumOf(m, {t \in spent : dept[t] = d})
    OBVIOUS
  <2> DEFINE some == {t \in spent : dept[t] = d}
  <2>1. {t \in OfDept(d) : t.amount < 0} = some /\ some \in SUBSET rows
    OBVIOUS
  <2>2. Spent(OfDept(d)) = Total({t \in OfDept(d) : t.amount < 0}, LAMBDA t : Magnitude(t.amount))
    BY DEF Spent
  <2>3. Spent(OfDept(d)) = Total(some, LAMBDA t : Magnitude(t.amount))
    <3> HIDE DEF some, OfDept
    <3> QED BY <2>1, <2>2
  <2> HIDE DEF some, rows, OfDept
  <2> QED BY <1>1, <2>1, <2>3, MagnitudesOfPart DEF some
<1>6. \A p \in M : monthSpent[p] = SumOf(m, ofMonth[p])
  <2> SUFFICES ASSUME NEW p \in M PROVE Spent(Of(rows, {p})) = SumOf(m, {t \in spent : month[t] = p})
    OBVIOUS
  <2> DEFINE some == {t \in spent : month[t] = p}
  <2>1. {t \in Of(rows, {p}) : t.amount < 0} = some /\ some \in SUBSET rows
    BY DEF Of
  <2>2. Spent(Of(rows, {p})) = Total({t \in Of(rows, {p}) : t.amount < 0}, LAMBDA t : Magnitude(t.amount))
    BY DEF Spent
  <2>3. Spent(Of(rows, {p})) = Total(some, LAMBDA t : Magnitude(t.amount))
    <3> HIDE DEF some, rows
    <3> QED BY <2>1, <2>2
  <2> HIDE DEF some, rows
  <2> QED BY <1>1, <2>1, <2>3, MagnitudesOfPart DEF some
<1>7. /\ \A d \in D : ofDept[d] \in SUBSET spent /\ \A t \in spent : t \in ofDept[d] <=> dept[t] = d
      /\ \A p \in M : ofMonth[p] \in SUBSET spent /\ \A t \in spent : t \in ofMonth[p] <=> month[t] = p
  <2> HIDE DEF D, M, dept, month, spent
  <2> QED OBVIOUS
<1>8. SumOf(deptSpent, D) = SumOf(m, spent) /\ SumOf(monthSpent, M) = SumOf(m, spent)
  <2> HIDE DEF rows, spent, m, D, M, dept, month, ofDept, ofMonth, deptSpent, monthSpent
  <2>1. (\A t \in spent : m[t] \in Int) /\ IsFiniteSet(spent)
    BY <1>1, <1>4
  <2>2. SumOf(deptSpent, D) = SumOf(m, spent)
    <3>1. \A t \in spent : dept[t] \in D
      BY <1>4
    <3> QED BY <1>2, <1>5, <1>7, <2>1, <3>1, SumOfGroups
  <2>3. SumOf(monthSpent, M) = SumOf(m, spent)
    <3>1. (\A t \in spent : month[t] \in M) /\ IsFiniteSet(M)
      BY <1>1, <1>4
    <3> QED BY <1>6, <1>7, <2>1, <3>1, SumOfGroups
  <2> QED BY <2>2, <2>3
<1>9. (\A d \in D : deptSpent[d] \in Nat) /\ (\A p \in M : monthSpent[p] \in Nat)
  <2> HIDE DEF rows, spent, m, D, M, dept, month, ofDept, ofMonth, deptSpent, monthSpent
  <2>1. ASSUME NEW some \in SUBSET spent PROVE SumOf(m, some) \in Nat
    <3>1. IsFiniteSet(some) /\ \A t \in some : m[t] \in Nat
      BY <1>1, <1>4, FS_Subset
    <3> QED BY <3>1, SumOfNaturals
  <2> QED BY <1>5, <1>6, <1>7, <2>1
<1>10. /\ \A d \in D : Value(d) = MathRound(deptSpent[d]) /\ Value(d) \in Int
       /\ \A d \in T : byDept[d] = MathRound(deptSpent[d])
  <2>1. \A d \in D : Value(d) = MathRound(deptSpent[d])
    <3> HIDE DEF D, OfDept
    <3> QED OBVIOUS
  <2>2. \A d \in T : byDept[d] = Value(d)
    <3> HIDE DEF T, Value
    <3> QED BY <1>3
  <2> HIDE DEF D, T, Value, deptSpent, byDept
  <2> QED BY <1>2, <1>9, <2>1, <2>2, MathRoundBounds
<1>11. \A p \in M : byMonth[p] = MathRound(monthSpent[p]) /\ LET row == data.monthly[p] IN
                      row.ebitda - (row.revenue - row.expenses) \in -1 .. 1
  <2> SUFFICES ASSUME NEW p \in M
               PROVE  byMonth[p] = MathRound(monthSpent[p]) /\ LET row == data.monthly[p] IN
                        row.ebitda - (row.revenue - row.expenses) \in -1 .. 1
    OBVIOUS
  <2> DEFINE sales == Earned(Of(rows, {p}))
             costs == Spent(Of(rows, {p}))
             row == data.monthly[p]
  <2>1. row = [revenue |-> MathRound(sales), expenses |-> MathRound(costs), ebitda |-> MathRound(sales - costs)]
    <3> HIDE DEF data, M, rows
    <3> QED BY <1>3
  <2>2. byMonth[p] = row.expenses /\ monthSpent[p] = costs
    <3> HIDE DEF data, M, rows
    <3> QED OBVIOUS
  <2>3. sales \in Int
    <3> DEFINE some == {t \in Of(rows, {p}) : t.amount > 0}
    <3>1. Rows(ledger) /\ some \in SUBSET ledger
      BY FiguresAssumption DEF Rows, FiguresInv, Of
    <3>2. sales = Total(some, LAMBDA t : t.amount)
      BY DEF Earned
    <3> HIDE DEF some, sales
    <3> QED BY <3>1, <3>2, RowsOf, TotalsTyped
  <2>4. costs \in Int
    <3> HIDE DEF monthSpent, costs, M, row, byMonth
    <3>1. monthSpent[p] \in Nat
      BY <1>9
    <3> QED BY <2>2, <3>1
  <2> HIDE DEF row, sales, costs, byMonth, monthSpent
  <2>5. row.ebitda - (row.revenue - row.expenses) \in -1 .. 1
    BY <2>1, <2>3, <2>4, MonthRounded
  <2>6. byMonth[p] = MathRound(monthSpent[p])
    BY <2>1, <2>2
  <2> QED BY <2>5, <2>6 DEF row
<1>12. Cardinality(D) <= DepartmentsShown => T = D
  <2> SUFFICES ASSUME Cardinality(D) <= DepartmentsShown, NEW d \in D
               PROVE  Cardinality({e \in D : Ahead(e, d)}) < DepartmentsShown
    <3> HIDE DEF D, Ahead
    <3> QED OBVIOUS
  <2> DEFINE A == {e \in D : Ahead(e, d)}
  <2>1. ~Ahead(d, d)
    <3>1. PICK t \in Txs : t.department = d
      BY DEF FiguresInv
    <3>2. Rank[d] \in Nat /\ Value(d) \in Int
      BY <1>10, <3>1, FiguresAssumption
    <3> HIDE DEF Value
    <3> QED BY <3>2
  <2>2. A \in SUBSET (D \ {d})
    <3> HIDE DEF Ahead, D
    <3> QED BY <2>1
  <2> HIDE DEF A, D
  <2>3. IsFiniteSet(D \ {d}) /\ Cardinality(D \ {d}) = Cardinality(D) - 1 /\ Cardinality(D) \in Nat
    BY <1>2, FS_RemoveElement, FS_CardinalityType
  <2>4. Cardinality(A) <= Cardinality(D \ {d}) /\ Cardinality(A) \in Nat
    BY <2>2, <2>3, FS_Subset, FS_CardinalityType
  <2> QED BY <2>3, <2>4, FiguresAssumption DEF A
<1>13. DOMAIN data.byDept = T /\ DOMAIN data.monthly = M
  BY <1>3
<1>14. MapThenSumSet(LAMBDA d : data.byDept[d], T) = SumOf(byDept, T)
  <2> HIDE DEF T
  <2> QED BY <1>2, DepartmentSums
<1>15. MapThenSumSet(LAMBDA p : data.monthly[p].expenses, M) = SumOf(byMonth, M)
  <2> HIDE DEF M
  <2> QED BY <1>1, MonthSums
<1>16. Spending(year) = D
  BY DEF Spending
<1> HIDE DEF rows, data, spent, m, D, M, T, dept, month, ofDept, ofMonth, deptSpent, monthSpent, byDept, byMonth, OfDept, Value, Ahead
<1>17. /\ SumOf(deptSpent, T) \in Int /\ SumOf(byDept, T) \in Int /\ Cardinality(T) \in Nat
       /\ 100 * SumOf(byDept, T) - 50 * Cardinality(T) <= SumOf(deptSpent, T)
       /\ SumOf(deptSpent, T) <= 100 * SumOf(byDept, T) + 50 * Cardinality(T)
  <2>1. \A d \in T : /\ deptSpent[d] \in Int /\ byDept[d] \in Int
                     /\ 100 * byDept[d] - 50 <= deptSpent[d] /\ deptSpent[d] <= 100 * byDept[d] + 50
    <3> SUFFICES ASSUME NEW d \in T
                 PROVE  /\ deptSpent[d] \in Int /\ byDept[d] \in Int
                        /\ 100 * byDept[d] - 50 <= deptSpent[d] /\ deptSpent[d] <= 100 * byDept[d] + 50
      OBVIOUS
    <3>1. deptSpent[d] \in Int /\ byDept[d] = MathRound(deptSpent[d])
      BY <1>2, <1>9, <1>10
    <3> DEFINE n == deptSpent[d]
               r == MathRound(n)
    <3>2. n \in Int /\ r = byDept[d]
      BY <3>1
    <3> HIDE DEF n
    <3>3. r \in Int /\ 100 * r - 50 <= n /\ n < 100 * r + 50
      BY <3>2, MathRoundBounds
    <3> HIDE DEF r
    <3>4. 100 * r - 50 <= n /\ n <= 100 * r + 50
      BY <3>2, <3>3
    <3> QED BY <3>1, <3>2, <3>3, <3>4 DEF n
  <2> QED BY <1>2, <2>1, RoundedSums
<1>18. /\ SumOf(monthSpent, M) \in Int /\ SumOf(byMonth, M) \in Int /\ Cardinality(M) \in Nat
       /\ 100 * SumOf(byMonth, M) - 50 * Cardinality(M) <= SumOf(monthSpent, M)
       /\ SumOf(monthSpent, M) <= 100 * SumOf(byMonth, M) + 50 * Cardinality(M)
  <2>1. \A p \in M : /\ monthSpent[p] \in Int /\ byMonth[p] \in Int
                     /\ 100 * byMonth[p] - 50 <= monthSpent[p] /\ monthSpent[p] <= 100 * byMonth[p] + 50
    <3> SUFFICES ASSUME NEW p \in M
                 PROVE  /\ monthSpent[p] \in Int /\ byMonth[p] \in Int
                        /\ 100 * byMonth[p] - 50 <= monthSpent[p] /\ monthSpent[p] <= 100 * byMonth[p] + 50
      OBVIOUS
    <3>1. monthSpent[p] \in Int /\ byMonth[p] = MathRound(monthSpent[p])
      BY <1>9, <1>11
    <3> DEFINE n == monthSpent[p]
               r == MathRound(n)
    <3>2. n \in Int /\ r = byMonth[p]
      BY <3>1
    <3> HIDE DEF n
    <3>3. r \in Int /\ 100 * r - 50 <= n /\ n < 100 * r + 50
      BY <3>2, MathRoundBounds
    <3> HIDE DEF r
    <3>4. 100 * r - 50 <= n /\ n <= 100 * r + 50
      BY <3>2, <3>3
    <3> QED BY <3>1, <3>2, <3>3, <3>4 DEF n
  <2> QED BY <1>1, <2>1, RoundedSums
<1>19. SumOf(deptSpent, T) <= SumOf(monthSpent, M) /\ (T = D => SumOf(deptSpent, T) = SumOf(monthSpent, M))
  <2>1. SumOf(deptSpent, T) <= SumOf(deptSpent, D)
    BY <1>2, <1>9, SumOfNaturals
  <2> QED BY <1>8, <2>1
<1>20. 2 * (SumOf(byDept, T) - SumOf(byMonth, M)) <= Cardinality(T) + Cardinality(M)
  BY <1>17, <1>18, <1>19
<1>21. Cardinality(D) <= DepartmentsShown =>
         2 * (SumOf(byMonth, M) - SumOf(byDept, T)) <= Cardinality(T) + Cardinality(M)
  BY <1>12, <1>17, <1>18, <1>19
<1> QED BY <1>11, <1>13, <1>14, <1>15, <1>16, <1>20, <1>21 DEF DepartmentsAddUp, data

\* The table of variances adds up to the lines it groups by label.
LEMMA TableAddsUp ==
  ASSUME FiguresInv, NEW periods
  PROVE  LET table == Variance(periods)
             lines == ReferenceLines(periods)
         IN  /\ IsFiniteSet(lines) /\ lines \in SUBSET Lines /\ \A l \in Lines : DashboardActual(l) \in Int
             /\ MapThenSumSet(LAMBDA label : table[label].actual, DOMAIN table) = Total(lines, DashboardActual)
<1> DEFINE table == Variance(periods)
           lines == ReferenceLines(periods)
           L == {l.label : l \in lines}
           Group(label) == {l \in lines : l.label = label}
           Budgeted(label) == Total(Group(label), LAMBDA l : l.amount)
           Actual(label) == Total(Group(label), DashboardActual)
           a == [l \in lines |-> DashboardActual(l)]
           key == [l \in lines |-> l.label]
           group == [label \in L |-> Group(label)]
           A == [label \in L |-> table[label].actual]
<1>1. IsFiniteSet(lines) /\ lines \in SUBSET Lines
  BY FS_Subset, FiguresAssumption DEF ReferenceLines, Of
<1>2. \A l \in Lines : DashboardActual(l) \in Int
  <2> SUFFICES ASSUME NEW l \in Lines PROVE DashboardActual(l) \in Int
    OBVIOUS
  <2>1. Rows(ledger) /\ Matching(l) \in SUBSET ledger
    BY FiguresAssumption DEF Rows, FiguresInv, Matching
  <2>2. Rows(Matching(l))
    BY <2>1, RowsOf
  <2>3. DashboardActual(l) \in Nat
    BY <2>2, TotalsTyped DEF DashboardActual
  <2> QED BY <2>3
<1>3. IsFiniteSet(L)
  <2>1. L = {key[l] : l \in lines}
    OBVIOUS
  <2> HIDE DEF L, key, lines
  <2> QED BY <1>1, <2>1, KeysFinite
<1>4. DOMAIN table = L /\ \A label \in L : table[label] =
        [budgeted |-> Budgeted(label), actual |-> Actual(label), pct |-> GapPct(Actual(label), Budgeted(label))]
  BY DEF Variance
<1>5. \A label \in L : A[label] = Actual(label)
  <2> SUFFICES ASSUME NEW label \in L PROVE A[label] = Actual(label)
    OBVIOUS
  <2>1. A[label] = table[label].actual
    OBVIOUS
  <2> HIDE DEF A, table, Actual, Budgeted, L
  <2>2. table[label] =
          [budgeted |-> Budgeted(label), actual |-> Actual(label), pct |-> GapPct(Actual(label), Budgeted(label))]
    BY <1>4
  <2> QED BY <2>1, <2>2
<1>6. \A label \in L : /\ IsFiniteSet(Group(label)) /\ group[label] = Group(label)
                        /\ group[label] \in SUBSET lines /\ \A l \in lines : l \in group[label] <=> key[l] = label
  <2> SUFFICES ASSUME NEW label \in L
               PROVE  /\ IsFiniteSet(Group(label)) /\ group[label] = Group(label)
                      /\ group[label] \in SUBSET lines /\ \A l \in lines : l \in group[label] <=> key[l] = label
    OBVIOUS
  <2>1. Group(label) \in SUBSET lines
    OBVIOUS
  <2>2. IsFiniteSet(Group(label))
    <3> HIDE DEF Group, lines
    <3> QED BY <1>1, <2>1, FS_Subset
  <2>3. \A l \in lines : l \in Group(label) <=> key[l] = label
    OBVIOUS
  <2>4. group[label] = Group(label)
    <3> HIDE DEF Group, L
    <3> QED OBVIOUS
  <2> HIDE DEF Group, key, group
  <2> QED BY <2>1, <2>2, <2>3, <2>4
<1>7. \A label \in L : A[label] = SumOf(a, group[label])
  <2> SUFFICES ASSUME NEW label \in L PROVE A[label] = SumOf(a, Group(label))
    <3> HIDE DEF Group, A, a, key, lines, L, group
    <3> QED BY <1>6
  <2> DEFINE some == Group(label)
  <2>1. IsFiniteSet(some)
    BY <1>6
  <2>2. \A l \in some : a[l] = [k \in some |-> DashboardActual(k)][l]
    OBVIOUS
  <2>3. A[label] = Total(some, DashboardActual)
    <3> HIDE DEF A, L, Group
    <3> QED BY <1>5
  <2> HIDE DEF some, A, a, Group
  <2>4. A[label] = SumOf([k \in some |-> DashboardActual(k)], some)
    BY <2>1, <2>3, ActualSums
  <2>5. SumOf(a, some) = SumOf([k \in some |-> DashboardActual(k)], some)
    BY <2>1, <2>2, SumOfSame
  <2> QED BY <2>4, <2>5 DEF some
<1>8. \A l \in lines : a[l] \in Int /\ key[l] \in L
  <2>1. \A l \in lines : a[l] = DashboardActual(l) /\ key[l] \in L
    OBVIOUS
  <2> HIDE DEF a, key, L, lines
  <2> QED BY <1>1, <1>2, <2>1
<1>9. Total(lines, DashboardActual) = SumOf(a, lines)
  <2> HIDE DEF lines
  <2> QED BY <1>1, ActualSums
<1>10. SumOf(A, L) = SumOf(a, lines)
  <2> HIDE DEF A, a, L, key, lines, group, Group
  <2>1. IsFiniteSet(lines) /\ (\A l \in lines : key[l] \in L) /\ IsFiniteSet(L)
        /\ \A label \in L : group[label] \in SUBSET lines /\ \A l \in lines : l \in group[label] <=> key[l] = label
    BY <1>1, <1>3, <1>6, <1>8
  <2>2. \A l \in lines : a[l] \in Int
    BY <1>8
  <2>3. \A label \in L : A[label] = SumOf(a, group[label])
    BY <1>7
  <2> QED BY <2>1, <2>2, <2>3, SumOfGroups
<1>11. MapThenSumSet(LAMBDA label : table[label].actual, L) = SumOf(A, L)
  <2> HIDE DEF L, table
  <2> QED BY <1>3, TableActuals
<1>12. DOMAIN table = L
  BY <1>4
<1> HIDE DEF table, A, a, L, key, lines, group, Group, Budgeted, Actual
<1> QED BY <1>1, <1>2, <1>9, <1>10, <1>11, <1>12 DEF table, lines

\* Lines of different accounts, departments or periods share no transaction.
LEMMA TableBounded ==
  ASSUME FiguresInv, NEW periods, OneLineEach(ReferenceLines(periods))
  PROVE  Total(ReferenceLines(periods), DashboardActual) <= Total(Of(ledger, periods), LAMBDA t : Magnitude(t.amount))
<1> DEFINE lines == ReferenceLines(periods)
           txs == Of(ledger, periods)
           m == [t \in txs |-> Magnitude(t.amount)]
           some == {t \in txs : \E l \in lines : ActualKey(t) = ActualKey(l)}
           line == [t \in some |-> CHOOSE l \in lines : ActualKey(t) = ActualKey(l)]
           a == [l \in lines |-> DashboardActual(l)]
           group == [l \in lines |-> Matching(l)]
<1>1. IsFiniteSet(lines)
  BY FS_Subset, FiguresAssumption DEF ReferenceLines, Of
<1>2. IsFiniteSet(txs) /\ IsFiniteSet(some) /\ some \in SUBSET txs /\ \A t \in txs : m[t] \in Nat
  BY FS_Subset, FiguresAssumption DEF Of, FiguresInv, Magnitude
<1>3. \A t \in some : line[t] \in lines /\ ActualKey(t) = ActualKey(line[t])
  OBVIOUS
<1>4. \A l \in lines : Matching(l) \in SUBSET some /\ \A t \in some : t \in Matching(l) <=> line[t] = l
  <2> SUFFICES ASSUME NEW l \in lines
               PROVE  Matching(l) \in SUBSET some /\ \A t \in some : t \in Matching(l) <=> line[t] = l
    OBVIOUS
  <2>1. \A t \in Matching(l) : t \in some
    <3> SUFFICES ASSUME NEW t \in Matching(l) PROVE t \in txs
      BY DEF Matching
    <3>1. t \in ledger /\ t.period = l.period
      BY DEF Matching, ActualKey
    <3> QED BY <3>1 DEF Of, ReferenceLines
  <2>2. \A t \in some : t \in ledger /\ (t \in Matching(l) <=> ActualKey(t) = ActualKey(l))
    BY DEF Matching, Of
  <2> HIDE DEF some, line, txs, lines
  <2>3. \A t \in some : ActualKey(t) = ActualKey(l) <=> line[t] = l
    BY <1>3 DEF OneLineEach, lines
  <2> QED BY <1>2, <2>1, <2>2, <2>3
<1>5. \A l \in lines : a[l] = SumOf(m, group[l])
  <2> SUFFICES ASSUME NEW l \in lines PROVE DashboardActual(l) = SumOf(m, Matching(l))
    OBVIOUS
  <2>1. Matching(l) \in SUBSET txs
    BY <1>2, <1>4
  <2> HIDE DEF txs, lines
  <2> QED BY <1>2, <2>1, MagnitudesOfPart DEF DashboardActual
<1>6. Total(lines, DashboardActual) = SumOf(a, lines)
  <2> HIDE DEF lines
  <2> QED BY <1>1, ActualSums
<1>7. Total(txs, LAMBDA t : Magnitude(t.amount)) = SumOf(m, txs)
  <2> HIDE DEF txs
  <2> QED BY <1>2, MagnitudeSums
<1>groups. \A l \in lines : group[l] \in SUBSET some /\ \A t \in some : t \in group[l] <=> line[t] = l
  <2> HIDE DEF lines, some, line
  <2> QED BY <1>4
<1> HIDE DEF lines, txs, m, some, line, a, group
<1>8. SumOf(a, lines) = SumOf(m, some)
  <2>1. \A t \in some : m[t] \in Int
    BY <1>2
  <2>2. \A t \in some : line[t] \in lines
    BY <1>3
  <2>3. IsFiniteSet(some)
    BY <1>2
  <2> QED BY <1>1, <1>5, <1>groups, <2>1, <2>2, <2>3, SumOfGroups
<1>9. SumOf(m, some) <= SumOf(m, txs)
  BY <1>2, SumOfNaturals
<1> QED BY <1>6, <1>7, <1>8, <1>9 DEF lines, txs

\* The parts of the dashboard together.
LEMMA DashboardSame == FiguresInv => DashboardAddsUp
<1> SUFFICES ASSUME FiguresInv PROVE DashboardAddsUp
  OBVIOUS
<1>1. \A p \in Period : SummaryAddsUp(p) /\ DepartmentsAddUp(p[1])
  BY SummarySame, DepartmentsSame
<1>2. ASSUME NEW periods, OneLineEach(ReferenceLines(periods))
      PROVE  LET table == Variance(periods)
             IN  MapThenSumSet(LAMBDA label : table[label].actual, DOMAIN table)
                   <= Total(Of(ledger, periods), LAMBDA t : Magnitude(t.amount))
  BY <1>2, TableAddsUp, TableBounded
<1> QED BY <1>1, <1>2 DEF DashboardAddsUp

-----------------------------------------------------------------------------
(* The theorems.                                                           *)

\* Every variable keeps its type, the periods with values are those in the order of
\* their calculations, and a snapshot is of transactions of its period.
THEOREM FiguresTypes == FiguresSpec => []FiguresTypeOK
BY FiguresAlways, FiguresTyped, PTL

\* A closed period's net result is the one its statements end with where the accounts
\* mean the same to both, and an import gives its rows the sign of the type that
\* reports give them (periods.service.ts:134, imports.service.ts:360).
THEOREM NetsDoAgree == FiguresSpec => []NetsAgree
BY FiguresAlways, ClosedNetsSame, PTL

\* While the calculation service answers, the indicators page and the statements show
\* one turnover of a selection; the cash flow tab takes a selection for other periods
\* only where the others show nothing, for two reasons; a report is what the statements
\* are and what the validated rows of the list make (kpis.service.ts:449 and :573,
\* cash-flow.service.ts:434, transactions.service.ts:58).
THEOREM ScreensDoAgree == FiguresSpec => []ScreensAgree
BY FiguresAlways, ScreensSame, PTL

\* The indicators page and the dashboard give a value one severity, but at a threshold
\* and, without the calculation service, for the margin that is made of sums, be it
\* MARGE or MARGE_EBITDA (dashboard.service.ts:120, kpis.service.ts:422).
THEOREM SeveritiesDoAgree == FiguresSpec => []SeveritiesAgree
BY FiguresAlways, SeveritiesSame, PTL

\* The parts of the dashboard add up to its figures: the summary, the chart of months
\* and the departments it has room for to the half units that rounding moves, and the
\* table of variances (dashboard.service.ts:587, :644, :997).
THEOREM DashboardDoesAddUp == FiguresSpec => []DashboardAddsUp
BY FiguresAlways, DashboardSame, PTL

\* The dashboard, the budget page and, for transactions of one sign, the row itself
\* have one actual amount of a budget line (dashboard.service.ts:380,
\* budgets.repository.ts:50, transactions.service.ts:394).
THEOREM ActualsDoAgree == FiguresSpec => []ActualsAgree
BY FiguresAlways, ActualsSame, PTL
=============================================================================
