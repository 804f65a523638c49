----------------------------- MODULE AirdropProofs -----------------------------
(***************************************************************************)
(* Airdrops of any number of transfers, with any movements in between.     *)
(***************************************************************************)
EXTENDS Airdrop, SumTheorems, SequenceTheorems

(* What the transfers need of a token, and of an address as it is spelt.   *)
OfToken(s, t) == [i \in DOMAIN s |-> IF TokenOf[s[i].address] = t THEN s[i].amount ELSE 0]

Due(s, t) == SumFunctionOnSet(OfToken(s, t), DOMAIN s)

Spelt(s, a) == [i \in DOMAIN s |-> IF s[i].address = a THEN s[i].amount ELSE 0]

ToReceiver(s, t, r) ==
    [i \in DOMAIN s |->
        IF TokenOf[s[i].address] = t /\ s[i].receiver = r THEN s[i].amount ELSE 0]

PaidBy(e, t, r) ==
    [i \in DOMAIN e |-> IF e[i].ok THEN AmountTo(e[i].proposal.transfers, t, r) ELSE 0]

ValidSequences == Seq({transfer \in Transfers : transfer.amount > 0})

Scripts ==
    [pc : {"idle", "many", "adding", "balances", "prompt", "failed", "short", "unfit"},
     transfers : ValidSequences, known : SUBSET Addresses, open : SUBSET Nat,
     sums : [Addresses -> Nat], left : SUBSET Addresses, spent : SUBSET Tokens]

Executions == [proposal : Proposals, ok : BOOLEAN]

Accounts == Receivers \cup {Master}

Balances == [Tokens -> [Accounts -> Nat]]

(***************************************************************************)
(* The inductive invariant, of a script c, a queue q, executed proposals e *)
(* and balances b.                                                         *)
(***************************************************************************)
(* The callbacks that ran make up the sums.                                *)
Added(c) ==
    c.pc \in {"adding", "balances", "prompt"} =>
        \A a \in Addresses :
            c.sums[a] = SumFunctionOnSet(Spelt(c.transfers, a), DOMAIN c.transfers \ c.open)

(* What was compared was there, or was spent since.                        *)
Compared(b, c) ==
    /\ c.pc \in {"balances", "prompt"} =>
          /\ c.open = {}
          /\ \A a \in Listed(c.transfers) \ c.left :
                c.sums[a] <= b[TokenOf[a]][Master] \/ TokenOf[a] \in c.spent
    /\ c.pc = "prompt" => c.left = {}

Refused(c) ==
    c.pc = "unfit" => TokensIn(c.transfers) \cap c.spent # {} \/ SpeltTwice(c.transfers)

ScriptRight(b, c) ==
    /\ c \in Scripts /\ c.open \subseteq DOMAIN c.transfers
    /\ c.pc = "adding" => c.open # {}
    /\ Added(c) /\ Compared(b, c) /\ Refused(c)

(* The Safe has what a proposal takes, or spent of the token since it had. *)
Covers(b, proposal) ==
    \A t \in Tokens : Due(proposal.transfers, t) <= b[t][Master] \/ t \in proposal.spent

QueueRight(b, q) ==
    /\ q \in Seq(Proposals)
    /\ \A i \in DOMAIN q : Covers(b, q[i])

ExecutedRight(b, e) ==
    /\ e \in Seq(Executions)
    /\ \A i \in DOMAIN e :
          e[i].ok \/ TokensIn(e[i].proposal.transfers) \cap e[i].proposal.spent # {}
    /\ \A t \in Tokens, r \in Receivers :
          b[t][r] = SumFunctionOnSet(PaidBy(e, t, r), DOMAIN e)

IInv ==
    /\ balance \in Balances /\ bounds \in [runs : 0..MaxRuns, moves : 0..MaxMoves]
    /\ ScriptRight(balance, script)
    /\ QueueRight(balance, queue)
    /\ ExecutedRight(balance, executed)
-----------------------------------------------------------------------------
(***************************************************************************)
(* Both folds take one transfer after the other.                           *)
(***************************************************************************)
LEMMA LastOfInterval ==
    ASSUME NEW n \in Nat, NEW S \in SUBSET (1..n), n \in S
    PROVE  Max(S) = n /\ S \ {n} \in SUBSET (1..(n - 1)) /\ n # 0
<1>1. \A x \in S : (\A y \in S : x >= y) <=> x = n
  OBVIOUS
<1>2. Max(S) = n
  BY <1>1 DEF Max
<1>3. QED
  BY <1>2

KeepValid(valid, transfer) ==
    IF transfer.amount # 0 THEN Append(valid, transfer) ELSE valid

IsKept(it, s, n) ==
    it = [S \in SUBSET (1..n) |->
             IF S = {} THEN <<>> ELSE KeepValid(it[S \ {Max(S)}], s[Max(S)])]

LEMMA KeptExists ==
    ASSUME NEW s, NEW n \in Nat
    PROVE  \E it : IsKept(it, s, n)
<1> DEFINE Bad == {k \in Nat : ~\E it : IsKept(it, s, k)}
<1>1. SUFFICES ASSUME Bad # {} PROVE FALSE
  OBVIOUS
<1>2. PICK m \in Bad : \A k \in Bad : m <= k
  <2>1. Bad \in SUBSET Nat
    OBVIOUS
  <2> HIDE DEF Bad
  <2>2. QED
    BY <1>1, <2>1, SmallestNumber
<1>3. CASE m = 0
  <2>1. IsKept([S \in SUBSET (1..0) |-> <<>>], s, 0)
    BY DEF IsKept
  <2>2. QED
    BY <1>3, <2>1
<1>4. CASE m # 0
  <2>1. m - 1 \in Nat /\ m - 1 \notin Bad
    BY <1>2, <1>4
  <2>2. PICK it : IsKept(it, s, m - 1)
    BY <2>1
  <2> DEFINE g == [S \in SUBSET (1..m) |->
                      IF S = {} THEN <<>>
                      ELSE IF m \in S THEN KeepValid(it[S \ {m}], s[m]) ELSE it[S]]
  <2>3. ASSUME NEW S \in SUBSET (1..m), S # {}
        PROVE  g[S] = KeepValid(g[S \ {Max(S)}], s[Max(S)])
    <3>1. CASE m \in S
      <4>1. Max(S) = m /\ S \ {m} \in SUBSET (1..(m - 1))
        BY <1>2, <3>1, LastOfInterval
      <4>2. it[S \ {m}] = g[S \ {m}]
        <5>1. S \ {m} = {} => it[S \ {m}] = <<>>
          BY <2>2, <4>1 DEF IsKept
        <5>2. QED
          BY <4>1, <5>1
      <4>3. g[S] = KeepValid(it[S \ {m}], s[m])
        BY <2>3, <3>1
      <4>4. QED
        BY <4>1, <4>2, <4>3
    <3>2. CASE m \notin S
      <4>0. \A x \in S : x \in 1..(m - 1)
        BY <1>2, <3>2
      <4>1. S \in SUBSET (1..(m - 1)) /\ S \ {Max(S)} \in SUBSET (1..(m - 1))
        BY <4>0
      <4>2. it[S] = KeepValid(it[S \ {Max(S)}], s[Max(S)])
        BY <2>2, <2>3, <4>1 DEF IsKept
      <4>3. it[S \ {Max(S)}] = g[S \ {Max(S)}]
        <5>1. S \ {Max(S)} = {} => it[S \ {Max(S)}] = <<>>
          BY <2>2, <4>1 DEF IsKept
        <5>2. QED
          BY <3>2, <4>1, <5>1
      <4>4. QED
        BY <2>3, <3>2, <4>2, <4>3
    <3>3. QED
      BY <3>1, <3>2
  <2> DEFINE G == [S \in SUBSET (1..m) |->
                      IF S = {} THEN <<>> ELSE KeepValid(g[S \ {Max(S)}], s[Max(S)])]
  <2>4. g = G
    <3>1. ASSUME NEW S \in SUBSET (1..m)
          PROVE  g[S] = G[S]
      <4>1. S = {} => g[S] = <<>>
        OBVIOUS
      <4>2. G[S] = IF S = {} THEN <<>> ELSE KeepValid(g[S \ {Max(S)}], s[Max(S)])
        OBVIOUS
      <4> HIDE DEF g, G
      <4>3. QED
        BY <2>3, <4>1, <4>2
    <3>2. g = [S \in SUBSET (1..m) |-> g[S]] /\ G = [S \in SUBSET (1..m) |-> G[S]]
      OBVIOUS
    <3> HIDE DEF g, G
    <3>3. QED
      BY <3>1, <3>2
  <2>5. IsKept(g, s, m)
    <3> HIDE DEF g
    <3>1. QED
      BY <2>4 DEF IsKept
  <2>6. QED
    BY <2>5
<1>5. QED
  BY <1>3, <1>4

(* Transfers of nothing are left out, and the others stay.                 *)
LEMMA ValidOnes ==
    ASSUME NEW file \in Seq(Transfers)
    PROVE  ValidTransfers(file) \in ValidSequences
<1> DEFINE n == Len(file)
           it == CHOOSE f : IsKept(f, file, n)
<1>1. n \in Nat /\ DOMAIN file = 1..n /\ \A i \in 1..n : file[i] \in Transfers
  OBVIOUS
<1>2. IsKept(it, file, n)
  BY <1>1, KeptExists, Zenon
<1>3. ValidTransfers(file) = it[1..n]
  BY <1>1 DEF ValidTransfers, FoldLeft, MapThenFoldSet, IsKept, KeepValid
<1> DEFINE Bad == {k \in 0..n : it[1..k] \notin ValidSequences}
<1>4. ASSUME Bad # {} PROVE FALSE
  <2>1. PICK m \in Bad : \A k \in Bad : m <= k
    <3>1. Bad \in SUBSET Nat
      OBVIOUS
    <3> HIDE DEF Bad
    <3>2. QED
      BY <1>4, <3>1, SmallestNumber
  <2>2. m \in 0..n /\ it[1..m] \notin ValidSequences
    OBVIOUS
  <2>3. 1..m \in SUBSET (1..n)
    BY <1>1, <2>2
  <2> HIDE DEF it
  <2>4. it[1..m] = IF 1..m = {} THEN <<>> ELSE KeepValid(it[(1..m) \ {Max(1..m)}], file[Max(1..m)])
    BY <1>2, <2>3, Zenon DEF IsKept
  <2>5. m # 0
    BY <2>2, <2>4 DEF ValidSequences
  <2>6. Max(1..m) = m /\ (1..m) \ {m} = 1..(m-1) /\ 1..m # {}
    <3>1. m \in Nat /\ m \in 1..m /\ (1..m) \ {m} = 1..(m-1)
      BY <1>1, <2>2, <2>5
    <3>2. Max(1..m) = m
      BY <3>1, LastOfInterval
    <3>3. QED
      BY <3>1, <3>2
  <2>7. it[1..(m-1)] \in ValidSequences
    BY <1>1, <2>1, <2>2, <2>5
  <2>8. it[1..m] = KeepValid(it[1..(m-1)], file[m])
    BY <2>4, <2>6
  <2>9. file[m] \in Transfers /\ (file[m].amount # 0 => file[m].amount > 0)
    BY <1>1, <2>2, <2>5 DEF Transfers
  <2>10. QED
    BY <2>2, <2>7, <2>8, <2>9 DEF KeepValid, ValidSequences
<1>5. it[1..n] \in ValidSequences
  <2>1. n \in 0..n
    BY <1>1
  <2> HIDE DEF it, n
  <2>2. QED
    BY <1>4, <2>1
<1>6. QED
  BY <1>3, <1>5
-----------------------------------------------------------------------------
StepOf(state, transfer) ==
    IF state.ok /\ CanTransfer(state.balance, transfer)
    THEN [state EXCEPT !.balance = Transfer(@, transfer)]
    ELSE [state EXCEPT !.ok = FALSE]

IsRun(it, s, b, n) ==
    it = [S \in SUBSET (1..n) |->
             IF S = {} THEN [ok |-> TRUE, balance |-> b]
             ELSE StepOf(it[S \ {Max(S)}], s[Max(S)])]

LEMMA RunExists ==
    ASSUME NEW s, NEW b, NEW n \in Nat
    PROVE  \E it : IsRun(it, s, b, n)
<1> DEFINE Bad == {k \in Nat : ~\E it : IsRun(it, s, b, k)}
           start == [ok |-> TRUE, balance |-> b]
<1>1. SUFFICES ASSUME Bad # {} PROVE FALSE
  OBVIOUS
<1>2. PICK m \in Bad : \A k \in Bad : m <= k
  <2>1. Bad \in SUBSET Nat
    OBVIOUS
  <2> HIDE DEF Bad
  <2>2. QED
    BY <1>1, <2>1, SmallestNumber
<1>3. CASE m = 0
  <2>1. IsRun([S \in SUBSET (1..0) |-> start], s, b, 0)
    BY DEF IsRun
  <2>2. QED
    BY <1>3, <2>1
<1>4. CASE m # 0
  <2>1. m - 1 \in Nat /\ m - 1 \notin Bad
    BY <1>2, <1>4
  <2>2. PICK it : IsRun(it, s, b, m - 1)
    BY <2>1
  <2> DEFINE g == [S \in SUBSET (1..m) |->
                      IF S = {} THEN start
                      ELSE IF m \in S THEN StepOf(it[S \ {m}], s[m]) ELSE it[S]]
  <2>3. ASSUME NEW S \in SUBSET (1..(m - 1))
        PROVE  it[S] = IF S = {} THEN start ELSE StepOf(it[S \ {Max(S)}], s[Max(S)])
    BY <2>2, Zenon DEF IsRun
  <2>4. ASSUME NEW S \in SUBSET (1..m), S # {}
        PROVE  g[S] = StepOf(g[S \ {Max(S)}], s[Max(S)])
    <3>1. CASE m \in S
      <4>1. Max(S) = m /\ S \ {m} \in SUBSET (1..(m - 1))
        BY <1>2, <3>1, LastOfInterval
      <4>2. it[S \ {m}] = g[S \ {m}]
        BY <2>3, <4>1
      <4>3. g[S] = StepOf(it[S \ {m}], s[m])
        BY <2>4, <3>1
      <4>4. QED
        BY <4>1, <4>2, <4>3
    <3>2. CASE m \notin S
      <4>1. \A x \in S : x \in 1..(m - 1)
        BY <1>2, <3>2
      <4>2. S \in SUBSET (1..(m - 1)) /\ S \ {Max(S)} \in SUBSET (1..(m - 1))
        BY <4>1
      <4>3. it[S] = StepOf(it[S \ {Max(S)}], s[Max(S)])
        BY <2>3, <2>4, <4>2
      <4>4. it[S \ {Max(S)}] = g[S \ {Max(S)}]
        BY <2>3, <3>2, <4>2
      <4>5. QED
        BY <2>4, <3>2, <4>3, <4>4
    <3>3. QED
      BY <3>1, <3>2
  <2> DEFINE G == [S \in SUBSET (1..m) |->
                      IF S = {} THEN start ELSE StepOf(g[S \ {Max(S)}], s[Max(S)])]
  <2>5. g = G
    <3>1. ASSUME NEW S \in SUBSET (1..m)
          PROVE  g[S] = G[S]
      <4>1. S = {} => g[S] = start
        OBVIOUS
      <4>2. G[S] = IF S = {} THEN start ELSE StepOf(g[S \ {Max(S)}], s[Max(S)])
        OBVIOUS
      <4> HIDE DEF g, G
      <4>3. QED
        BY <2>4, <4>1, <4>2
    <3>2. g = [S \in SUBSET (1..m) |-> g[S]] /\ G = [S \in SUBSET (1..m) |-> G[S]]
      OBVIOUS
    <3> HIDE DEF g, G
    <3>3. QED
      BY <3>1, <3>2
  <2>6. IsRun(g, s, b, m)
    <3> HIDE DEF g
    <3>1. QED
      BY <2>5 DEF IsRun
  <2>7. QED
    BY <2>6
<1>5. QED
  BY <1>3, <1>4

(* A bundle starts with the balances there are, and every call works on    *)
(* what the one before it left.                                            *)
Steps(run, s, b) ==
    /\ run[0] = [ok |-> TRUE, balance |-> b]
    /\ \A k \in 1..Len(s) : run[k] = StepOf(run[k-1], s[k])

LEMMA AfterSteps ==
    ASSUME NEW s \in Seq(Transfers)
    PROVE  \E run : Steps(run, s, balance) /\ After(s) = run[Len(s)]
<1> DEFINE n == Len(s)
           it == CHOOSE f : IsRun(f, s, balance, n)
           run == [k \in 0..n |-> it[1..k]]
<1>1. n \in Nat /\ DOMAIN s = 1..n
  OBVIOUS
<1>2. IsRun(it, s, balance, n)
  BY <1>1, RunExists, Zenon
<1>3. After(s) = it[1..n]
  BY <1>1 DEF After, FoldLeft, MapThenFoldSet, IsRun, StepOf
<1> HIDE DEF it, n
<1>4. ASSUME NEW k \in 0..n
      PROVE  run[k] = IF k = 0 THEN [ok |-> TRUE, balance |-> balance]
                      ELSE StepOf(run[k-1], s[k])
  <2>1. 1..k \in SUBSET (1..n)
    BY <1>1
  <2>2. it[1..k] = IF 1..k = {} THEN [ok |-> TRUE, balance |-> balance]
                   ELSE StepOf(it[(1..k) \ {Max(1..k)}], s[Max(1..k)])
    BY <1>2, <2>1, Zenon DEF IsRun
  <2>3. CASE k = 0
    BY <1>1, <2>2, <2>3
  <2>4. CASE k # 0
    <3>1. k \in Nat /\ k \in 1..k /\ (1..k) \ {k} = 1..(k-1) /\ k - 1 \in 0..n
      BY <1>1, <2>4
    <3>2. Max(1..k) = k
      BY <3>1, LastOfInterval
    <3>3. it[1..k] = StepOf(it[1..(k-1)], s[k])
      BY <2>2, <3>1, <3>2
    <3>4. QED
      BY <2>4, <3>1, <3>3
  <2>5. QED
    BY <2>3, <2>4
<1>5. After(s) = run[n]
  BY <1>1, <1>3
<1>6. run[0] = [ok |-> TRUE, balance |-> balance]
  <2>1. 0 \in 0..n
    BY <1>1
  <2> HIDE DEF run
  <2>2. QED
    BY <1>4, <2>1
<1>7. \A k \in 1..n : run[k] = StepOf(run[k-1], s[k])
  BY <1>1, <1>4
<1>8. QED
  BY <1>5, <1>6, <1>7 DEF Steps, n
-----------------------------------------------------------------------------
(***************************************************************************)
(* What a bundle does: it succeeds when the Safe has the sum of each       *)
(* token, and then the Safe has the sum less, and receivers their amounts  *)
(* more.                                                                   *)
(***************************************************************************)
DueBy(s, t, k) == SumFunctionOnSet(OfToken(s, t), 1..k)

PaidBefore(s, t, r, k) == SumFunctionOnSet(ToReceiver(s, t, r), 1..k)

(* The balances at the start, and a state after k calls.                   *)
Paid(s, b, k, state) ==
    /\ state.ok \in BOOLEAN /\ state.balance \in Balances
    /\ state = [ok |-> state.ok, balance |-> state.balance]
    /\ state.ok <=> \A t \in Tokens : DueBy(s, t, k) <= b[t][Master]
    /\ state.ok =>
          \A t \in Tokens :
              /\ state.balance[t][Master] = b[t][Master] - DueBy(s, t, k)
              /\ \A r \in Receivers : state.balance[t][r] = b[t][r] + PaidBefore(s, t, r, k)

LEMMA PrefixSums ==
    ASSUME NEW f, NEW n \in Nat, \A i \in 1..n : f[i] \in Nat
    PROVE  /\ \A k \in 0..n : SumFunctionOnSet(f, 1..k) \in Nat
           /\ SumFunctionOnSet(f, 1..0) = 0
           /\ \A k \in 1..n : SumFunctionOnSet(f, 1..k) = f[k] + SumFunctionOnSet(f, 1..(k-1))
<1>1. ASSUME NEW k \in 0..n
      PROVE  IsFiniteSet(1..k) /\ \A i \in 1..k : f[i] \in Int /\ f[i] >= 0
  BY FS_Interval
<1>2. ASSUME NEW k \in 0..n
      PROVE  SumFunctionOnSet(f, 1..k) \in Nat
  <2>1. SumFunctionOnSet(f, 1..k) \in Int /\ SumFunctionOnSet(f, 1..k) >= 0
    BY <1>1, SumInteger
  <2>2. QED
    BY <2>1
<1>3. SumFunctionOnSet(f, 1..0) = 0
  <2>1. 1..0 = {}
    OBVIOUS
  <2>2. QED
    BY <2>1, FS_EmptySet, SumZero
<1>4. ASSUME NEW k \in 1..n
      PROVE  SumFunctionOnSet(f, 1..k) = f[k] + SumFunctionOnSet(f, 1..(k-1))
  <2>1. k \in 0..n /\ k \in 1..k /\ (1..k) \ {k} = 1..(k-1)
    OBVIOUS
  <2>2. IsFiniteSet(1..k) /\ \A i \in 1..k : f[i] \in Int
    BY <1>1, <2>1
  <2>3. SumFunctionOnSet(f, 1..k) = f[k] + SumFunctionOnSet(f, (1..k) \ {k})
    BY <2>1, <2>2, SumRemove
  <2>4. QED
    BY <2>1, <2>3
<1>5. QED
  BY <1>2, <1>3, <1>4

LEMMA ValuesOfTransfers ==
    ASSUME NEW s \in Seq(Transfers), NEW i \in DOMAIN s
    PROVE  /\ s[i] \in Transfers /\ s[i].amount \in Nat
           /\ s[i].address \in Addresses /\ s[i].receiver \in Receivers
           /\ TokenOf[s[i].address] \in Tokens
           /\ \A t : OfToken(s, t)[i] = IF TokenOf[s[i].address] = t THEN s[i].amount ELSE 0
           /\ \A t, r : ToReceiver(s, t, r)[i] =
                           IF TokenOf[s[i].address] = t /\ s[i].receiver = r
                           THEN s[i].amount ELSE 0
<1>1. s[i] \in Transfers
  OBVIOUS
<1>2. s[i].amount \in Nat /\ s[i].address \in Addresses /\ s[i].receiver \in Receivers
  BY <1>1 DEF Transfers
<1>3. TokenOf[s[i].address] \in Tokens
  BY <1>2, AirdropAssumption
<1>4. QED
  BY <1>1, <1>2, <1>3 DEF OfToken, ToReceiver

LEMMA SumsDue ==
    ASSUME NEW s \in Seq(Transfers), NEW t
    PROVE  /\ \A k \in 0..Len(s) : DueBy(s, t, k) \in Nat
           /\ DueBy(s, t, 0) = 0
           /\ \A k \in 1..Len(s) : DueBy(s, t, k) = OfToken(s, t)[k] + DueBy(s, t, k-1)
<1>1. Len(s) \in Nat /\ DOMAIN s = 1..Len(s)
  OBVIOUS
<1>2. ASSUME NEW i \in 1..Len(s) PROVE OfToken(s, t)[i] \in Nat
  BY <1>1, ValuesOfTransfers
<1>3. QED
  BY <1>1, <1>2, PrefixSums DEF DueBy

LEMMA SumsPaid ==
    ASSUME NEW s \in Seq(Transfers), NEW t, NEW r
    PROVE  /\ \A k \in 0..Len(s) : PaidBefore(s, t, r, k) \in Nat
           /\ PaidBefore(s, t, r, 0) = 0
           /\ \A k \in 1..Len(s) :
                 PaidBefore(s, t, r, k) = ToReceiver(s, t, r)[k] + PaidBefore(s, t, r, k-1)
<1>1. Len(s) \in Nat /\ DOMAIN s = 1..Len(s)
  OBVIOUS
<1>2. ASSUME NEW i \in 1..Len(s) PROVE ToReceiver(s, t, r)[i] \in Nat
  BY <1>1, ValuesOfTransfers
<1>3. QED
  BY <1>1, <1>2, PrefixSums DEF PaidBefore

LEMMA OneTransfer ==
    ASSUME NEW b \in Balances, NEW transfer \in Transfers, CanTransfer(b, transfer)
    PROVE  /\ Transfer(b, transfer) \in Balances
           /\ \A t \in Tokens :
                 /\ Transfer(b, transfer)[t][Master] =
                       b[t][Master] -
                          (IF TokenOf[transfer.address] = t THEN transfer.amount ELSE 0)
                 /\ \A r \in Receivers :
                       Transfer(b, transfer)[t][r] =
                          b[t][r] + (IF TokenOf[transfer.address] = t /\ transfer.receiver = r
                                     THEN transfer.amount ELSE 0)
<1> DEFINE u == TokenOf[transfer.address]
           n == transfer.amount
           x == transfer.receiver
           c == Transfer(b, transfer)
<1>1. u \in Tokens /\ n \in Nat /\ x \in Receivers /\ Master \notin Receivers /\ b[u][Master] >= n
  BY AirdropAssumption DEF Transfers, CanTransfer
<1>2. \A t \in Tokens : \A y \in Accounts : b[t][y] \in Nat
  BY DEF Balances
<1>3. c = [b EXCEPT ![u][Master] = @ - n, ![u][x] = @ + n]
  BY DEF Transfer
<1> HIDE DEF c, u, n, x
<1>4. c \in Balances
  <2>1. \A t \in Tokens : b[t] \in [Accounts -> Nat]
    BY DEF Balances
  <2>2. c = [t \in Tokens |-> c[t]]
    BY <1>3 DEF Balances
  <2>3. ASSUME NEW t \in Tokens
        PROVE  c[t] \in [Accounts -> Nat]
    <3>1. CASE t # u
      BY <1>3, <2>1, <3>1 DEF Balances
    <3>2. CASE t = u
      <4> DEFINE d == [b[u] EXCEPT ![Master] = @ - n]
      <4>1. d \in [Accounts -> Nat] /\ d[x] = b[u][x]
        BY <1>1, <1>2, <2>1 DEF Accounts
      <4>2. c[t] = [d EXCEPT ![x] = b[u][x] + n]
        BY <1>1, <1>3, <2>1, <3>2 DEF Balances, Accounts
      <4> HIDE DEF d
      <4>3. b[u][x] + n \in Nat
        BY <1>1, <1>2 DEF Accounts
      <4>4. QED
        BY <4>1, <4>2, <4>3
    <3>3. QED
      BY <3>1, <3>2
  <2>4. QED
    BY <2>2, <2>3 DEF Balances
<1>5. ASSUME NEW t \in Tokens
      PROVE  /\ c[t][Master] = b[t][Master] - (IF u = t THEN n ELSE 0)
             /\ \A r \in Receivers :
                   c[t][r] = b[t][r] + (IF u = t /\ x = r THEN n ELSE 0)
  BY <1>1, <1>2, <1>3 DEF Balances, Accounts
<1>6. QED
  BY <1>4, <1>5 DEF u, n, x, c

LEMMA StepPaid ==
    ASSUME NEW s \in Seq(Transfers), NEW b \in Balances, NEW k \in 1..Len(s), NEW state,
           Paid(s, b, k-1, state)
    PROVE  Paid(s, b, k, StepOf(state, s[k]))
<1> DEFINE transfer == s[k]
           next == StepOf(state, transfer)
           u == TokenOf[transfer.address]
           n == transfer.amount
<1>1. k \in DOMAIN s /\ transfer \in Transfers /\ u \in Tokens /\ n \in Nat
  <2>1. k \in DOMAIN s
    OBVIOUS
  <2>2. QED
    BY <2>1, ValuesOfTransfers, Zenon
<1>0. /\ \A t : OfToken(s, t)[k] = IF u = t THEN n ELSE 0
      /\ \A t, r : ToReceiver(s, t, r)[k] = IF u = t /\ transfer.receiver = r THEN n ELSE 0
  BY <1>1, ValuesOfTransfers
<1>2. ASSUME NEW t \in Tokens
      PROVE  /\ DueBy(s, t, k) \in Nat /\ DueBy(s, t, k-1) \in Nat
             /\ DueBy(s, t, k) = (IF u = t THEN n ELSE 0) + DueBy(s, t, k-1)
  <2>1. k \in 0..Len(s) /\ k-1 \in 0..Len(s)
    OBVIOUS
  <2>2. OfToken(s, t)[k] = IF u = t THEN n ELSE 0
    BY <1>0
  <2>3. QED
    BY <2>1, <2>2, SumsDue
<1>3. ASSUME NEW t \in Tokens, NEW r \in Receivers
      PROVE  /\ PaidBefore(s, t, r, k) \in Nat /\ PaidBefore(s, t, r, k-1) \in Nat
             /\ PaidBefore(s, t, r, k) = (IF u = t /\ transfer.receiver = r THEN n ELSE 0)
                                            + PaidBefore(s, t, r, k-1)
  <2>1. k \in 0..Len(s) /\ k-1 \in 0..Len(s)
    OBVIOUS
  <2>2. ToReceiver(s, t, r)[k] = IF u = t /\ transfer.receiver = r THEN n ELSE 0
    BY <1>0
  <2>3. QED
    BY <2>1, <2>2, SumsPaid
<1>4. \A t \in Tokens : b[t][Master] \in Nat /\ \A r \in Receivers : b[t][r] \in Nat
  BY DEF Balances, Accounts
<1> HIDE DEF transfer, u, n
<1>5. CASE state.ok /\ CanTransfer(state.balance, transfer)
  <2> DEFINE c == Transfer(state.balance, transfer)
  <2>1. state.balance \in Balances
    BY DEF Paid
  <2>2. /\ c \in Balances
        /\ \A t \in Tokens :
              /\ c[t][Master] = state.balance[t][Master] - (IF u = t THEN n ELSE 0)
              /\ \A r \in Receivers :
                    c[t][r] = state.balance[t][r]
                                + (IF u = t /\ transfer.receiver = r THEN n ELSE 0)
    BY <1>1, <1>5, <2>1, OneTransfer DEF u, n
  <2>3. next = [ok |-> TRUE, balance |-> c]
    BY <1>5 DEF Paid, StepOf
  <2>4. \A t \in Tokens : DueBy(s, t, k) <= b[t][Master]
    <3>1. state.balance[u][Master] >= n
      BY <1>5 DEF CanTransfer, u, n
    <3>2. ASSUME NEW t \in Tokens
          PROVE  /\ DueBy(s, t, k-1) <= b[t][Master]
                 /\ state.balance[t][Master] = b[t][Master] - DueBy(s, t, k-1)
      BY <1>5 DEF Paid
    <3>3. ASSUME NEW t \in Tokens
          PROVE  DueBy(s, t, k) <= b[t][Master]
      <4>1. /\ DueBy(s, t, k) \in Nat /\ DueBy(s, t, k-1) \in Nat /\ b[t][Master] \in Nat
            /\ DueBy(s, t, k) = (IF u = t THEN n ELSE 0) + DueBy(s, t, k-1)
        BY <1>2, <1>4
      <4>2. DueBy(s, t, k-1) <= b[t][Master]
        BY <3>2
      <4>3. CASE u = t
        <5>1. b[t][Master] - DueBy(s, t, k-1) >= n
          BY <3>1, <3>2, <4>3
        <5>2. QED
          BY <1>1, <4>1, <4>3, <5>1
      <4>4. CASE u # t
        BY <4>1, <4>2, <4>4
      <4>5. QED
        BY <4>3, <4>4
    <3>4. QED
      BY <3>3
  <2>5. ASSUME NEW t \in Tokens
        PROVE  /\ c[t][Master] = b[t][Master] - DueBy(s, t, k)
               /\ \A r \in Receivers : c[t][r] = b[t][r] + PaidBefore(s, t, r, k)
    <3>1. /\ state.balance[t][Master] = b[t][Master] - DueBy(s, t, k-1)
          /\ \A r \in Receivers : state.balance[t][r] = b[t][r] + PaidBefore(s, t, r, k-1)
      BY <1>5 DEF Paid
    <3> HIDE DEF c
    <3>2. c[t][Master] = b[t][Master] - DueBy(s, t, k)
      <4>1. c[t][Master] = state.balance[t][Master] - (IF u = t THEN n ELSE 0)
        BY <2>2
      <4>2. b[t][Master] \in Nat /\ state.balance[t][Master] = b[t][Master] - DueBy(s, t, k-1)
        BY <1>4, <3>1
      <4>3. /\ DueBy(s, t, k) \in Nat /\ DueBy(s, t, k-1) \in Nat
            /\ DueBy(s, t, k) = (IF u = t THEN n ELSE 0) + DueBy(s, t, k-1)
        BY <1>2
      <4> DEFINE x == DueBy(s, t, k)
                 y == DueBy(s, t, k-1)
      <4> HIDE DEF x, y
      <4>4. c[t][Master] = b[t][Master] - x
        BY <1>1, <4>1, <4>2, <4>3 DEF x, y
      <4>5. QED
        BY <4>4 DEF x
    <3>3. ASSUME NEW r \in Receivers
          PROVE  c[t][r] = b[t][r] + PaidBefore(s, t, r, k)
      <4>1. c[t][r] = state.balance[t][r]
                        + (IF u = t /\ transfer.receiver = r THEN n ELSE 0)
        BY <2>2
      <4>2. b[t][r] \in Nat /\ state.balance[t][r] = b[t][r] + PaidBefore(s, t, r, k-1)
        BY <1>4, <3>1
      <4> DEFINE x == PaidBefore(s, t, r, k)
                 y == PaidBefore(s, t, r, k-1)
      <4>3. x \in Nat /\ y \in Nat /\ x = (IF u = t /\ transfer.receiver = r THEN n ELSE 0) + y
        BY <1>3
      <4> HIDE DEF x, y
      <4>4. c[t][r] = b[t][r] + x
        BY <1>1, <4>1, <4>2, <4>3 DEF y
      <4>5. QED
        BY <4>4 DEF x
    <3>4. QED
      BY <3>2, <3>3
  <2> HIDE DEF c, next
  <2>6. Paid(s, b, k, next)
    BY <2>2, <2>3, <2>4, <2>5 DEF Paid
  <2>7. QED
    BY <2>6 DEF next, transfer
<1>6. CASE ~(state.ok /\ CanTransfer(state.balance, transfer))
  <2>1. next = [ok |-> FALSE, balance |-> state.balance] /\ state.balance \in Balances
    BY <1>6 DEF Paid, StepOf
  <2>2. \E t \in Tokens : ~(DueBy(s, t, k) <= b[t][Master])
    <3>1. CASE ~state.ok
      <4>1. PICK t \in Tokens : ~(DueBy(s, t, k-1) <= b[t][Master])
        BY <3>1 DEF Paid
      <4>2. QED
        BY <1>1, <1>2, <1>4, <4>1
    <3>2. CASE state.ok /\ ~CanTransfer(state.balance, transfer)
      <4>1. ~(state.balance[u][Master] >= n)
        BY <3>2 DEF CanTransfer, u, n
      <4>2. state.balance[u][Master] = b[u][Master] - DueBy(s, u, k-1)
        BY <1>1, <3>2 DEF Paid
      <4>3. QED
        BY <1>1, <1>2, <1>4, <4>1, <4>2
    <3>3. QED
      BY <1>6, <3>1, <3>2
  <2> HIDE DEF next
  <2>3. Paid(s, b, k, next)
    BY <2>1, <2>2 DEF Paid
  <2>4. QED
    BY <2>3 DEF next, transfer
<1>7. QED
  BY <1>5, <1>6

LEMMA BundleOutcome ==
    ASSUME NEW s \in Seq(Transfers), balance \in Balances
    PROVE  /\ After(s).ok \in BOOLEAN /\ After(s).balance \in Balances
           /\ After(s).ok <=> \A t \in Tokens : Due(s, t) <= balance[t][Master]
           /\ After(s).ok =>
                 \A t \in Tokens :
                     /\ After(s).balance[t][Master] = balance[t][Master] - Due(s, t)
                     /\ \A r \in Receivers :
                           After(s).balance[t][r] = balance[t][r] + AmountTo(s, t, r)
<1> DEFINE n == Len(s)
<1>1. n \in Nat /\ DOMAIN s = 1..n
  OBVIOUS
<1>2. PICK run : Steps(run, s, balance) /\ After(s) = run[n]
  BY AfterSteps
<1> DEFINE Bad == {k \in 0..n : ~Paid(s, balance, k, run[k])}
<1>3. ASSUME Bad # {} PROVE FALSE
  <2>1. PICK m \in Bad : \A k \in Bad : m <= k
    <3>1. Bad \in SUBSET Nat
      OBVIOUS
    <3> HIDE DEF Bad
    <3>2. QED
      BY <1>3, <3>1, SmallestNumber
  <2>2. m \in 0..n /\ ~Paid(s, balance, m, run[m])
    OBVIOUS
  <2>3. CASE m = 0
    <3>1. run[0] = [ok |-> TRUE, balance |-> balance]
      BY <1>2 DEF Steps
    <3>2. \A t \in Tokens : DueBy(s, t, 0) = 0 /\ \A r \in Receivers : PaidBefore(s, t, r, 0) = 0
      BY SumsDue, SumsPaid
    <3>3. \A t \in Tokens : balance[t][Master] \in Nat /\ \A r \in Receivers : balance[t][r] \in Nat
      BY DEF Balances, Accounts
    <3>4. Paid(s, balance, 0, run[0])
      BY <3>1, <3>2, <3>3 DEF Paid
    <3>5. QED
      BY <2>2, <2>3, <3>4
  <2>4. CASE m # 0
    <3>1. m \in 1..n /\ m - 1 \in 0..n /\ m - 1 \notin Bad
      BY <1>1, <2>1, <2>2, <2>4
    <3>2. Paid(s, balance, m-1, run[m-1])
      BY <3>1
    <3>3. run[m] = StepOf(run[m-1], s[m])
      BY <1>2, <3>1 DEF Steps
    <3> HIDE DEF Bad
    <3>4. QED
      BY <2>2, <3>1, <3>2, <3>3, StepPaid
  <2>5. QED
    BY <2>3, <2>4
<1>4. Paid(s, balance, n, After(s))
  <2>1. n \in 0..n
    BY <1>1
  <2> HIDE DEF n
  <2>2. QED
    BY <1>2, <1>3, <2>1
<1>5. /\ \A t : DueBy(s, t, n) = Due(s, t)
      /\ \A t, r : PaidBefore(s, t, r, n) = AmountTo(s, t, r)
  BY <1>1 DEF DueBy, Due, PaidBefore, AmountTo, ToReceiver
<1> HIDE DEF n
<1>6. QED
  BY <1>4, <1>5 DEF Paid

LEMMA DueIsNatural ==
    ASSUME NEW s \in Seq(Transfers), NEW t
    PROVE  /\ Due(s, t) \in Nat
           /\ \A r : AmountTo(s, t, r) \in Nat
           /\ t \notin TokensIn(s) => Due(s, t) = 0
<1>1. Len(s) \in Nat /\ DOMAIN s = 1..Len(s) /\ Len(s) \in 0..Len(s)
  OBVIOUS
<1>2. Due(s, t) \in Nat
  BY <1>1, SumsDue DEF DueBy, Due
<1>3. ASSUME NEW r PROVE AmountTo(s, t, r) \in Nat
  <2>1. PaidBefore(s, t, r, Len(s)) = AmountTo(s, t, r)
    BY <1>1 DEF PaidBefore, AmountTo, ToReceiver
  <2>2. QED
    BY <1>1, <2>1, SumsPaid, ZenonT(60)
<1>4. ASSUME t \notin TokensIn(s) PROVE Due(s, t) = 0
  <2>1. ASSUME NEW i \in DOMAIN s PROVE OfToken(s, t)[i] = 0
    <3>1. TokenOf[s[i].address] \in TokensIn(s)
      BY DEF TokensIn, Listed
    <3>2. QED
      BY <1>4, <3>1, ValuesOfTransfers
  <2>2. IsFiniteSet(DOMAIN s)
    BY <1>1, FS_Interval
  <2>3. QED
    BY <2>1, <2>2, SumZero DEF Due
<1>5. QED
  BY <1>2, <1>3, <1>4

(* What is added up per spelling is at most what the token needs, and all  *)
(* of it if there is one spelling.                                         *)
LEMMA SpellingsAndTokens ==
    ASSUME NEW s \in Seq(Transfers), NEW a
    PROVE  /\ SumFunctionOnSet(Spelt(s, a), DOMAIN s) <= Due(s, TokenOf[a])
           /\ a \in Listed(s) /\ ~SpeltTwice(s) =>
                 SumFunctionOnSet(Spelt(s, a), DOMAIN s) = Due(s, TokenOf[a])
<1> DEFINE t == TokenOf[a]
<1>1. IsFiniteSet(DOMAIN s)
  <2>1. Len(s) \in Nat /\ DOMAIN s = 1..Len(s)
    OBVIOUS
  <2>2. QED
    BY <2>1, FS_Interval
<1>2. ASSUME NEW i \in DOMAIN s
      PROVE  /\ Spelt(s, a)[i] \in Int /\ OfToken(s, t)[i] \in Int
             /\ Spelt(s, a)[i] <= OfToken(s, t)[i]
             /\ \/ TokenOf[s[i].address] = t /\ s[i].address # a
                \/ Spelt(s, a)[i] = OfToken(s, t)[i]
  <2>1. s[i].amount \in Nat /\ OfToken(s, t)[i] = IF TokenOf[s[i].address] = t THEN s[i].amount ELSE 0
    BY ValuesOfTransfers
  <2>2. Spelt(s, a)[i] = IF s[i].address = a THEN s[i].amount ELSE 0
    BY DEF Spelt
  <2>3. QED
    BY <2>1, <2>2
<1>3. SumFunctionOnSet(Spelt(s, a), DOMAIN s) <= Due(s, t)
  <2>1. \A i \in DOMAIN s :
           Spelt(s, a)[i] \in Int /\ OfToken(s, t)[i] \in Int /\ Spelt(s, a)[i] <= OfToken(s, t)[i]
    BY <1>2
  <2>2. QED
    BY <1>1, <2>1, SumMonotonic DEF Due
<1>4. ASSUME a \in Listed(s), ~SpeltTwice(s)
      PROVE  SumFunctionOnSet(Spelt(s, a), DOMAIN s) = Due(s, t)
  <2>1. ASSUME NEW i \in DOMAIN s
        PROVE  Spelt(s, a)[i] = OfToken(s, t)[i]
    <3>1. s[i].address \in Listed(s)
      BY DEF Listed
    <3>2. ~(TokenOf[s[i].address] = t /\ s[i].address # a)
      BY <1>4, <3>1 DEF SpeltTwice
    <3>3. QED
      BY <1>2, <3>2
  <2>2. QED
    BY <1>1, <2>1, SumSame DEF Due
<1>5. QED
  BY <1>3, <1>4
-----------------------------------------------------------------------------
(***************************************************************************)
(* The steps of a script keep what is right of it.                         *)
(***************************************************************************)
LEMMA ValidIsSequence ==
    ASSUME NEW s \in ValidSequences
    PROVE  s \in Seq(Transfers) /\ IsFiniteSet(DOMAIN s) /\ Listed(s) \subseteq Addresses
<1>1. s \in Seq(Transfers)
  BY DEF ValidSequences
<1>2. Len(s) \in Nat /\ DOMAIN s = 1..Len(s)
  BY <1>1
<1>3. IsFiniteSet(DOMAIN s)
  BY <1>2, FS_Interval
<1>4. Listed(s) \subseteq Addresses
  BY <1>1, ValuesOfTransfers DEF Listed
<1>5. QED
  BY <1>1, <1>3, <1>4

LEMMA SpeltValues ==
    ASSUME NEW s \in Seq(Transfers), NEW a
    PROVE  \A i \in DOMAIN s :
              /\ Spelt(s, a)[i] = IF s[i].address = a THEN s[i].amount ELSE 0
              /\ Spelt(s, a)[i] \in Nat
<1>1. ASSUME NEW i \in DOMAIN s
      PROVE  s[i].amount \in Nat
  BY ValuesOfTransfers
<1>2. QED
  BY <1>1 DEF Spelt

LEMMA IdleRight ==
    ASSUME NEW b \in Balances
    PROVE  ScriptRight(b, Idle)
<1>1. Idle \in Scripts
  BY DEF Idle, Scripts, ValidSequences
<1>2. QED
  BY <1>1 DEF Idle, ScriptRight, Added, Compared, Refused

LEMMA AddingRight ==
    ASSUME NEW b \in Balances, NEW s \in ValidSequences
    PROVE  ScriptRight(b, Adding(s))
<1> DEFINE c == Adding(s)
<1>1. s \in Seq(Transfers) /\ Len(s) \in Nat /\ DOMAIN s = 1..Len(s)
  BY ValidIsSequence
<1> DEFINE pc == IF s = <<>> THEN "prompt" ELSE "adding"
<1>2. /\ c \in Scripts
      /\ c.pc = pc /\ c.transfers = s /\ c.open = DOMAIN s /\ c.left = {}
      /\ c.sums = [a \in Addresses |-> 0]
  <2>1. Idle.left = {} /\ Idle.sums = [a \in Addresses |-> 0]
    BY DEF Idle
  <2>2. Idle \in Scripts
    BY IdleRight DEF ScriptRight
  <2>3. c = [Idle EXCEPT !.pc = pc, !.transfers = s, !.open = DOMAIN s]
    BY DEF Adding
  <2>4. pc \in {"prompt", "adding"} /\ DOMAIN s \in SUBSET Nat
    BY <1>1
  <2> HIDE DEF c, pc
  <2>5. QED
    BY <2>1, <2>2, <2>3, <2>4 DEF Scripts
<1> HIDE DEF c
<1>3. DOMAIN s = {} <=> s = <<>>
  <2>1. s = <<>> <=> Len(s) = 0
    BY <1>1, EmptySeq
  <2>2. 1..Len(s) = {} => ~(1 \in 1..Len(s))
    OBVIOUS
  <2>3. Len(s) = 0 \/ 1 \in 1..Len(s)
    BY <1>1
  <2>4. Len(s) = 0 => 1..Len(s) = {}
    OBVIOUS
  <2>5. QED
    BY <1>1, <2>1, <2>2, <2>3, <2>4, Zenon
<1>4. Added(c)
  <2>1. ASSUME NEW a \in Addresses
        PROVE  SumFunctionOnSet(Spelt(s, a), DOMAIN s \ DOMAIN s) = 0
    <3>1. DOMAIN s \ DOMAIN s = {}
      OBVIOUS
    <3>2. QED
      BY <3>1, FS_EmptySet, SumZero
  <2>2. QED
    BY <1>2, <2>1 DEF Added
<1>5. Compared(b, c)
  BY <1>2, <1>3 DEF Compared, Listed
<1>6. QED
  BY <1>2, <1>3, <1>4, <1>5 DEF ScriptRight, Refused, c

LEMMA TokenArrivesRight ==
    ASSUME NEW b \in Balances, NEW c, ScriptRight(b, c), NEW a \in Addresses
    PROVE  ScriptRight(b, [c EXCEPT !.known = @ \cup {a}])
<1> DEFINE d == [c EXCEPT !.known = @ \cup {a}]
<1>1. c \in Scripts
  BY DEF ScriptRight
<1>2. /\ d \in Scripts
      /\ d.pc = c.pc /\ d.transfers = c.transfers /\ d.open = c.open
      /\ d.sums = c.sums /\ d.left = c.left /\ d.spent = c.spent
  BY <1>1 DEF Scripts
<1> HIDE DEF d
<1>3. ScriptRight(b, d)
  BY <1>2 DEF ScriptRight, Added, Compared, Refused
<1>4. QED
  BY <1>3 DEF d

(* A script that stops keeps its transfers and sums, which nobody reads.   *)
LEMMA StoppedRight ==
    ASSUME NEW b \in Balances, NEW c, ScriptRight(b, c),
           NEW pc \in {"failed", "short", "unfit"},
           pc = "unfit" => TokensIn(c.transfers) \cap c.spent # {} \/ SpeltTwice(c.transfers)
    PROVE  ScriptRight(b, [c EXCEPT !.pc = pc])
<1> DEFINE d == [c EXCEPT !.pc = pc]
<1>1. c \in Scripts
  BY DEF ScriptRight
<1>2. /\ d \in Scripts
      /\ d.pc = pc /\ d.transfers = c.transfers /\ d.open = c.open /\ d.spent = c.spent
  BY <1>1 DEF Scripts
<1> HIDE DEF d
<1>3. ScriptRight(b, d)
  BY <1>2 DEF ScriptRight, Added, Compared, Refused
<1>4. QED
  BY <1>3 DEF d

(* The script after the callback of transfer i, and after the last one.    *)
AddedUp(c, i) == [c EXCEPT !.sums = AddUp(@, c.transfers[i]), !.open = @ \ {i}]

AllAdded(c, i) == [AddedUp(c, i) EXCEPT !.pc = "balances", !.left = Listed(c.transfers)]

LEMMA AccumulateRight ==
    ASSUME NEW b \in Balances, NEW c, ScriptRight(b, c), c.pc = "adding", NEW i \in c.open
    PROVE  /\ AddedUp(c, i).open # {} => ScriptRight(b, AddedUp(c, i))
           /\ AddedUp(c, i).open = {} => ScriptRight(b, AllAdded(c, i))
<1> DEFINE s == c.transfers
           d == AddedUp(c, i)
           e == AllAdded(c, i)
<1>1. c \in Scripts /\ s \in ValidSequences /\ c.open \subseteq DOMAIN s /\ i \in DOMAIN s
  BY DEF ScriptRight, Scripts
<1>2. s \in Seq(Transfers) /\ IsFiniteSet(DOMAIN s) /\ Listed(s) \subseteq Addresses
  BY <1>1, ValidIsSequence
<1>3. s[i].address \in Addresses /\ s[i].amount \in Nat
  BY <1>1, <1>2, ValuesOfTransfers
<1>4. /\ AddUp(c.sums, s[i]) \in [Addresses -> Nat]
      /\ \A a \in Addresses :
            AddUp(c.sums, s[i])[a] = c.sums[a] + (IF s[i].address = a THEN s[i].amount ELSE 0)
  BY <1>1, <1>3 DEF AddUp, Scripts
<1>5. /\ d \in Scripts /\ d.pc = "adding" /\ d.transfers = s /\ d.spent = c.spent
      /\ d.sums = AddUp(c.sums, s[i]) /\ d.open = c.open \ {i}
  BY <1>1, <1>4 DEF AddedUp, Scripts
<1>6. /\ e \in Scripts /\ e.pc = "balances" /\ e.transfers = s /\ e.left = Listed(s)
      /\ e.sums = d.sums /\ e.open = d.open
  BY <1>2, <1>5 DEF AllAdded, Scripts
<1> HIDE DEF d, e, s
<1>7. ASSUME NEW a \in Addresses
      PROVE  d.sums[a] = SumFunctionOnSet(Spelt(s, a), DOMAIN s \ d.open)
  <2> DEFINE D == DOMAIN s \ d.open
  <2>1. i \in D /\ D \ {i} = DOMAIN s \ c.open /\ IsFiniteSet(D)
    BY <1>1, <1>2, <1>5, FS_Subset
  <2>2. Spelt(s, a)[i] = IF s[i].address = a THEN s[i].amount ELSE 0
    BY <1>1, <1>2, SpeltValues
  <2>3. \A j \in D : Spelt(s, a)[j] \in Int
    BY <1>2, SpeltValues
  <2>4. SumFunctionOnSet(Spelt(s, a), D) = Spelt(s, a)[i] + SumFunctionOnSet(Spelt(s, a), D \ {i})
    <3> HIDE DEF D
    <3>1. QED
      BY <2>1, <2>3, SumRemove
  <2>5. c.sums[a] = SumFunctionOnSet(Spelt(s, a), DOMAIN s \ c.open)
    BY DEF ScriptRight, Added, s
  <2>6. c.sums[a] \in Nat
    BY <1>1 DEF Scripts
  <2>7. d.sums[a] = c.sums[a] + Spelt(s, a)[i] /\ Spelt(s, a)[i] \in Nat
    BY <1>3, <1>4, <1>5, <2>2
  <2> HIDE DEF D
  <2>8. SumFunctionOnSet(Spelt(s, a), D \ {i}) = c.sums[a]
    BY <2>1, <2>5
  <2>9. d.sums[a] = SumFunctionOnSet(Spelt(s, a), D)
    BY <2>4, <2>6, <2>7, <2>8
  <2>10. QED
    BY <2>9 DEF D
<1>8. d.open # {} => ScriptRight(b, d)
  BY <1>1, <1>5, <1>7 DEF ScriptRight, Added, Compared, Refused
<1>9. d.open = {} => ScriptRight(b, e)
  BY <1>1, <1>5, <1>6, <1>7 DEF ScriptRight, Added, Compared, Refused
<1>10. QED
  BY <1>8, <1>9 DEF d, e

(* The script after the balance of a was enough.                           *)
Passed(c, a) ==
    [c EXCEPT !.left = @ \ {a}, !.pc = IF c.left = {a} THEN "prompt" ELSE @]

LEMMA CheckBalanceRight ==
    ASSUME NEW b \in Balances, NEW c, ScriptRight(b, c), c.pc = "balances", NEW a \in c.left,
           b[TokenOf[a]][Master] >= c.sums[a]
    PROVE  ScriptRight(b, Passed(c, a))
<1> DEFINE d == Passed(c, a)
<1>1. c \in Scripts
  BY SMTT(30) DEF ScriptRight
<1>2. /\ d \in Scripts /\ d.transfers = c.transfers /\ d.open = c.open /\ d.spent = c.spent
      /\ d.sums = c.sums /\ d.left = c.left \ {a}
      /\ d.pc = IF c.left = {a} THEN "prompt" ELSE c.pc
  BY <1>1 DEF Passed, Scripts
<1> HIDE DEF d
<1>3. c.sums[a] <= b[TokenOf[a]][Master]
  <2>1. a \in Addresses /\ c.sums[a] \in Nat /\ TokenOf[a] \in Tokens
    BY <1>1, AirdropAssumption DEF Scripts
  <2>2. b[TokenOf[a]][Master] \in Nat
    BY <2>1 DEF Balances, Accounts
  <2>3. QED
    BY <2>1, <2>2
<1>4. Compared(b, d)
  BY <1>2, <1>3 DEF ScriptRight, Compared
<1>5. Added(d)
  BY <1>2 DEF ScriptRight, Added
<1>6. ScriptRight(b, d)
  BY <1>2, <1>4, <1>5 DEF ScriptRight, Refused
<1>7. QED
  BY <1>6 DEF d
-----------------------------------------------------------------------------
(***************************************************************************)
(* Funds that move leave enough, or the tokens are noted.                  *)
(***************************************************************************)
SpentIn(c, tokens) ==
    [c EXCEPT !.spent = IF c.pc \in {"balances", "prompt"} THEN @ \cup tokens ELSE @]

(* The balances d after b have less of some tokens only.                   *)
LessOf(b, d, tokens) == \A t \in Tokens \ tokens : b[t][Master] <= d[t][Master]

LEMMA MasterNatural ==
    ASSUME NEW b \in Balances
    PROVE  \A t \in Tokens : b[t][Master] \in Nat
BY DEF Balances, Accounts

LEMMA ScriptWhenFundsMove ==
    ASSUME NEW b \in Balances, NEW d \in Balances, NEW tokens \in SUBSET Tokens,
           LessOf(b, d, tokens), NEW c, ScriptRight(b, c)
    PROVE  ScriptRight(d, SpentIn(c, tokens))
<1> DEFINE e == SpentIn(c, tokens)
<1>1. c \in Scripts
  BY DEF ScriptRight
<1>2. /\ e \in Scripts /\ e.pc = c.pc /\ e.transfers = c.transfers /\ e.open = c.open
      /\ e.sums = c.sums /\ e.left = c.left
      /\ e.spent = IF c.pc \in {"balances", "prompt"} THEN c.spent \cup tokens ELSE c.spent
  BY <1>1 DEF SpentIn, Scripts
<1> HIDE DEF e
<1>3. ASSUME c.pc \in {"balances", "prompt"}, NEW a \in Listed(c.transfers) \ c.left
      PROVE  c.sums[a] <= d[TokenOf[a]][Master] \/ TokenOf[a] \in e.spent
  <2>1. c.sums[a] <= b[TokenOf[a]][Master] \/ TokenOf[a] \in c.spent
    BY <1>3 DEF ScriptRight, Compared
  <2>2. a \in Addresses
    BY <1>1, ValidIsSequence DEF Scripts
  <2>3. c.sums[a] \in Nat /\ TokenOf[a] \in Tokens
    BY <1>1, <2>2, AirdropAssumption DEF Scripts
  <2>4. b[TokenOf[a]][Master] \in Nat /\ d[TokenOf[a]][Master] \in Nat
    BY <2>3, MasterNatural
  <2>5. TokenOf[a] \in tokens \/ b[TokenOf[a]][Master] <= d[TokenOf[a]][Master]
    BY <2>3 DEF LessOf
  <2>6. QED
    BY <1>2, <1>3, <2>1, <2>3, <2>4, <2>5
<1>4. Compared(d, e)
  BY <1>2, <1>3 DEF ScriptRight, Compared
<1>5. Added(e) /\ Refused(e)
  BY <1>2 DEF ScriptRight, Added, Refused
<1>6. ScriptRight(d, e)
  BY <1>2, <1>4, <1>5 DEF ScriptRight
<1>7. QED
  BY <1>6 DEF e

LEMMA QueueWhenFundsMove ==
    ASSUME NEW b \in Balances, NEW d \in Balances, NEW tokens \in SUBSET Tokens,
           LessOf(b, d, tokens), NEW q, QueueRight(b, q)
    PROVE  QueueRight(d, SpentSince(q, tokens))
<1> DEFINE r == SpentSince(q, tokens)
<1>1. q \in Seq(Proposals) /\ Len(q) \in Nat /\ DOMAIN q = 1..Len(q)
  BY DEF QueueRight
<1>2. ASSUME NEW i \in DOMAIN q
      PROVE  /\ [q[i] EXCEPT !.spent = @ \cup tokens] \in Proposals
             /\ [q[i] EXCEPT !.spent = @ \cup tokens].transfers = q[i].transfers
             /\ [q[i] EXCEPT !.spent = @ \cup tokens].spent = q[i].spent \cup tokens
  <2>1. q[i] \in Proposals
    BY <1>1
  <2>2. QED
    BY <2>1 DEF Proposals
<1>3. r = [i \in 1..Len(q) |-> [q[i] EXCEPT !.spent = @ \cup tokens]]
  BY <1>1 DEF SpentSince
<1> HIDE DEF r
<1>4. r \in Seq(Proposals) /\ DOMAIN r = DOMAIN q
  <2>1. r \in [1..Len(q) -> Proposals]
    BY <1>1, <1>2, <1>3
  <2>2. QED
    BY <1>1, <2>1
<1>5. ASSUME NEW i \in DOMAIN q, NEW t \in Tokens
      PROVE  Due(r[i].transfers, t) <= d[t][Master] \/ t \in r[i].spent
  <2>1. r[i].transfers = q[i].transfers /\ r[i].spent = q[i].spent \cup tokens
    BY <1>1, <1>2, <1>3
  <2>2. Due(q[i].transfers, t) <= b[t][Master] \/ t \in q[i].spent
    BY DEF QueueRight, Covers
  <2>3. q[i].transfers \in Seq(Transfers)
    <3>1. q[i] \in Proposals
      BY <1>1
    <3>2. QED
      BY <3>1 DEF Proposals
  <2>4. Due(q[i].transfers, t) \in Nat
    BY <2>3, DueIsNatural
  <2>5. b[t][Master] \in Nat /\ d[t][Master] \in Nat
    BY MasterNatural
  <2>6. t \in tokens \/ b[t][Master] <= d[t][Master]
    BY DEF LessOf
  <2>7. QED
    BY <2>1, <2>2, <2>4, <2>5, <2>6
<1>6. QueueRight(d, r)
  BY <1>4, <1>5 DEF QueueRight, Covers
<1>7. QED
  BY <1>6 DEF r

(* What comes in only helps.                                               *)
LEMMA RightWithMore ==
    ASSUME NEW b \in Balances, NEW d \in Balances, LessOf(b, d, {}),
           NEW c, ScriptRight(b, c), NEW q, QueueRight(b, q)
    PROVE  ScriptRight(d, c) /\ QueueRight(d, q)
<1>1. c \in Scripts /\ q \in Seq(Proposals)
  BY DEF ScriptRight, QueueRight
<1>2. \A t \in Tokens :
         b[t][Master] \in Nat /\ d[t][Master] \in Nat /\ b[t][Master] <= d[t][Master]
  BY MasterNatural DEF LessOf
<1>3. ASSUME c.pc \in {"balances", "prompt"}, NEW a \in Listed(c.transfers) \ c.left
      PROVE  c.sums[a] <= d[TokenOf[a]][Master] \/ TokenOf[a] \in c.spent
  <2>1. c.sums[a] <= b[TokenOf[a]][Master] \/ TokenOf[a] \in c.spent
    BY <1>3 DEF ScriptRight, Compared
  <2>2. a \in Addresses
    BY <1>1, ValidIsSequence DEF Scripts
  <2>3. c.sums[a] \in Nat /\ TokenOf[a] \in Tokens
    BY <1>1, <2>2, AirdropAssumption DEF Scripts
  <2>4. QED
    BY <1>2, <2>1, <2>3
<1>4. ScriptRight(d, c)
  BY <1>3 DEF ScriptRight, Compared
<1>5. ASSUME NEW i \in DOMAIN q, NEW t \in Tokens
      PROVE  Due(q[i].transfers, t) <= d[t][Master] \/ t \in q[i].spent
  <2>1. Due(q[i].transfers, t) <= b[t][Master] \/ t \in q[i].spent
    BY DEF QueueRight, Covers
  <2>2. q[i].transfers \in Seq(Transfers)
    <3>1. q[i] \in Proposals
      BY <1>1
    <3>2. QED
      BY <3>1 DEF Proposals
  <2>3. Due(q[i].transfers, t) \in Nat
    BY <2>2, DueIsNatural
  <2>4. QED
    BY <1>2, <2>1, <2>3
<1>6. QueueRight(d, q)
  BY <1>5 DEF QueueRight, Covers
<1>7. QED
  BY <1>4, <1>6
-----------------------------------------------------------------------------
(***************************************************************************)
(* A proposal that is executed, or one that is made.                       *)
(***************************************************************************)
LEMMA TailRight ==
    ASSUME NEW b, NEW q, QueueRight(b, q), q # <<>>
    PROVE  Head(q) \in Proposals /\ Covers(b, Head(q)) /\ QueueRight(b, Tail(q))
<1>1. q \in Seq(Proposals)
  BY DEF QueueRight
<1>2. /\ Len(q) \in Nat /\ Len(q) > 0 /\ DOMAIN q = 1..Len(q)
      /\ Head(q) = q[1] /\ Tail(q) \in Seq(Proposals)
      /\ DOMAIN Tail(q) = 1..(Len(q) - 1)
      /\ \A i \in 1..(Len(q) - 1) : Tail(q)[i] = q[i + 1]
  <2>1. Len(q) # 0
    BY <1>1, EmptySeq
  <2>2. QED
    BY <1>1, <2>1
<1>3. 1 \in DOMAIN q /\ \A i \in 1..(Len(q) - 1) : i + 1 \in DOMAIN q
  BY <1>2
<1>4. Head(q) \in Proposals /\ Covers(b, Head(q))
  BY <1>1, <1>2, <1>3 DEF QueueRight
<1>5. \A i \in DOMAIN Tail(q) : Covers(b, Tail(q)[i])
  BY <1>2, <1>3 DEF QueueRight
<1>6. QED
  BY <1>2, <1>4, <1>5 DEF QueueRight

LEMMA AppendRight ==
    ASSUME NEW b, NEW q, QueueRight(b, q), NEW p \in Proposals, Covers(b, p)
    PROVE  QueueRight(b, Append(q, p))
<1>1. q \in Seq(Proposals) /\ Len(q) \in Nat /\ DOMAIN q = 1..Len(q)
  BY DEF QueueRight
<1>2. /\ Append(q, p) \in Seq(Proposals) /\ DOMAIN Append(q, p) = 1..(Len(q) + 1)
      /\ \A i \in 1..Len(q) : Append(q, p)[i] = q[i]
      /\ Append(q, p)[Len(q) + 1] = p
  BY <1>1
<1>3. \A i \in DOMAIN Append(q, p) : i \in DOMAIN q \/ i = Len(q) + 1
  BY <1>1, <1>2
<1>4. \A i \in DOMAIN Append(q, p) : Covers(b, Append(q, p)[i])
  BY <1>1, <1>2, <1>3 DEF QueueRight
<1>5. QED
  BY <1>2, <1>4 DEF QueueRight

(* One more execution adds what it paid.                                   *)
LEMMA OneMorePaid ==
    ASSUME NEW e \in Seq(Executions), NEW x \in Executions, NEW t, NEW r
    PROVE  /\ SumFunctionOnSet(PaidBy(Append(e, x), t, r), DOMAIN Append(e, x)) =
                 SumFunctionOnSet(PaidBy(e, t, r), DOMAIN e)
                    + (IF x.ok THEN AmountTo(x.proposal.transfers, t, r) ELSE 0)
           /\ SumFunctionOnSet(PaidBy(e, t, r), DOMAIN e) \in Int
<1> DEFINE f == PaidBy(Append(e, x), t, r)
           g == PaidBy(e, t, r)
           n == Len(e)
           v == IF x.ok THEN AmountTo(x.proposal.transfers, t, r) ELSE 0
<1>1. /\ n \in Nat /\ DOMAIN e = 1..n /\ DOMAIN Append(e, x) = 1..(n + 1)
      /\ Append(e, x) \in Seq(Executions)
      /\ \A i \in 1..n : Append(e, x)[i] = e[i]
      /\ Append(e, x)[n + 1] = x
  OBVIOUS
<1>2. ASSUME NEW d \in Seq(Executions), NEW i \in DOMAIN d
      PROVE  /\ PaidBy(d, t, r)[i] = IF d[i].ok THEN AmountTo(d[i].proposal.transfers, t, r) ELSE 0
             /\ PaidBy(d, t, r)[i] \in Int
  <2>1. d[i] \in Executions
    OBVIOUS
  <2>2. d[i].proposal \in Proposals
    BY <2>1 DEF Executions
  <2>3. d[i].proposal.transfers \in Seq(Transfers)
    BY <2>2 DEF Proposals
  <2>4. \A y : AmountTo(d[i].proposal.transfers, t, y) \in Nat
    BY <2>3, DueIsNatural
  <2>5. AmountTo(d[i].proposal.transfers, t, r) \in Int
    BY <2>4
  <2>6. QED
    BY <2>5 DEF PaidBy
<1>3. \A i \in 1..n : f[i] = g[i] /\ g[i] \in Int
  <2>1. ASSUME NEW i \in 1..n PROVE f[i] = g[i] /\ g[i] \in Int
    <3>1. i \in DOMAIN e /\ i \in DOMAIN Append(e, x)
      BY <1>1
    <3>2. g[i] = (IF e[i].ok THEN AmountTo(e[i].proposal.transfers, t, r) ELSE 0) /\ g[i] \in Int
      BY <1>2, <3>1
    <3>3. f[i] = IF Append(e, x)[i].ok
                 THEN AmountTo(Append(e, x)[i].proposal.transfers, t, r) ELSE 0
      BY <3>1 DEF PaidBy
    <3>4. QED
      BY <1>1, <3>2, <3>3
  <2>2. QED
    BY <2>1
<1>4. f[n + 1] = v /\ v \in Int
  <2>1. n + 1 \in DOMAIN Append(e, x)
    BY <1>1
  <2>2. f[n + 1] = (IF Append(e, x)[n + 1].ok
                    THEN AmountTo(Append(e, x)[n + 1].proposal.transfers, t, r) ELSE 0)
        /\ f[n + 1] \in Int
    BY <1>1, <1>2, <2>1
  <2>3. QED
    BY <1>1, <2>2
<1> HIDE DEF f, g, n, v
<1>5. IsFiniteSet(1..n) /\ IsFiniteSet(1..(n + 1))
  BY <1>1, FS_Interval
<1>6. n + 1 \in 1..(n + 1) /\ (1..(n + 1)) \ {n + 1} = 1..n
  BY <1>1
<1>7. \A i \in 1..(n + 1) : f[i] \in Int
  <2>1. \A i \in 1..(n + 1) : i \in 1..n \/ i = n + 1
    BY <1>1
  <2>2. QED
    BY <1>3, <1>4, <2>1
<1>8. SumFunctionOnSet(f, 1..(n + 1)) = f[n + 1] + SumFunctionOnSet(f, (1..(n + 1)) \ {n + 1})
  BY <1>5, <1>6, <1>7, SumRemove
<1>9. SumFunctionOnSet(f, 1..n) = SumFunctionOnSet(g, 1..n)
  BY <1>3, <1>5, SumSame
<1>10. SumFunctionOnSet(g, 1..n) \in Int
  BY <1>3, <1>5, SumInteger
<1>11. SumFunctionOnSet(f, 1..(n + 1)) = SumFunctionOnSet(g, 1..n) + v
  <2>1. SumFunctionOnSet(f, (1..(n + 1)) \ {n + 1}) = SumFunctionOnSet(g, 1..n)
    BY <1>6, <1>9
  <2>2. QED
    BY <1>4, <1>8, <1>10, <2>1
<1>12. QED
  BY <1>1, <1>10, <1>11 DEF f, g, v

(* A bundle that fails lacks a token that it names.                        *)
LEMMA FailingLacks ==
    ASSUME NEW s \in Seq(Transfers), balance \in Balances, ~After(s).ok
    PROVE  \E t \in TokensIn(s) : t \in Tokens /\ ~(Due(s, t) <= balance[t][Master])
<1>1. PICK t \in Tokens : ~(Due(s, t) <= balance[t][Master])
  BY BundleOutcome
<1>2. balance[t][Master] \in Nat
  BY MasterNatural
<1>3. Due(s, t) # 0
  BY <1>1, <1>2
<1>4. t \in TokensIn(s)
  BY <1>3, DueIsNatural
<1>5. QED
  BY <1>1, <1>4
-----------------------------------------------------------------------------
(***************************************************************************)
(* The invariant holds at the start, and every action keeps it.            *)
(***************************************************************************)
LEMMA InitIInv ==
    ASSUME Init
    PROVE  IInv
<1>1. \A t \in Tokens : Funds[t] \in Nat
  BY AirdropAssumption
<1>2. balance \in Balances
  BY <1>1 DEF Init, Balances, Accounts
<1>3. bounds \in [runs : 0..MaxRuns, moves : 0..MaxMoves]
  BY AirdropAssumption DEF Init
<1>4. ScriptRight(balance, script)
  BY <1>2, IdleRight DEF Init
<1>5. QueueRight(balance, queue)
  BY DEF Init, QueueRight
<1>6. executed = <<>> /\ executed \in Seq(Executions) /\ DOMAIN executed = {}
  BY DEF Init
<1>7. ASSUME NEW t \in Tokens, NEW r \in Receivers
      PROVE  balance[t][r] = SumFunctionOnSet(PaidBy(executed, t, r), DOMAIN executed)
  <2>1. balance[t][r] = 0
    BY AirdropAssumption DEF Init
  <2>2. SumFunctionOnSet(PaidBy(executed, t, r), {}) = 0
    BY FS_EmptySet, SumZero
  <2>3. QED
    BY <1>6, <2>1, <2>2
<1>8. ExecutedRight(balance, executed)
  BY <1>6, <1>7 DEF ExecutedRight
<1>9. QED
  BY <1>2, <1>3, <1>4, <1>5, <1>8 DEF IInv

LEMMA ScriptStep ==
    ASSUME IInv, UNCHANGED <<balance, queue, executed>>, ScriptRight(balance, script'),
           bounds' \in [runs : 0..MaxRuns, moves : 0..MaxMoves]
    PROVE  IInv'
BY DEF IInv

LEMMA StartIInv ==
    ASSUME IInv, NEW file \in Files, Start(file)
    PROVE  IInv'
<1> DEFINE s == ValidTransfers(file)
<1>1. s \in ValidSequences
  <2>1. file \in Seq(Transfers)
    BY AirdropAssumption
  <2>2. QED
    BY <2>1, ValidOnes
<1>2. bounds' \in [runs : 0..MaxRuns, moves : 0..MaxMoves]
  <2>1. bounds \in [runs : 0..MaxRuns, moves : 0..MaxMoves]
    BY DEF IInv
  <2>2. MaxRuns \in Nat /\ bounds.runs \in 0..MaxRuns /\ bounds.runs < MaxRuns
    BY <2>1, AirdropAssumption DEF Start
  <2>3. bounds.runs + 1 \in 0..MaxRuns
    BY <2>2
  <2>4. bounds' = [bounds EXCEPT !.runs = bounds.runs + 1]
    BY DEF Start
  <2>5. QED
    BY <2>1, <2>3, <2>4
<1>3. script' = IF Len(s) > TooMany
                THEN [Idle EXCEPT !.pc = "many", !.transfers = s] ELSE Adding(s)
  BY DEF Start
<1>4. UNCHANGED <<balance, queue, executed>>
  BY DEF Start
<1>5. balance \in Balances
  BY DEF IInv
<1> HIDE DEF s
<1>6. ScriptRight(balance, [Idle EXCEPT !.pc = "many", !.transfers = s])
  <2> DEFINE c == [Idle EXCEPT !.pc = "many", !.transfers = s]
  <2>1. Idle \in Scripts /\ Idle.open = {}
    BY <1>5, IdleRight DEF ScriptRight, Idle
  <2>2. c \in Scripts /\ c.pc = "many" /\ c.open = {}
    BY <1>1, <2>1 DEF Scripts
  <2> HIDE DEF c
  <2>3. ScriptRight(balance, c)
    BY <2>2 DEF ScriptRight, Added, Compared, Refused
  <2>4. QED
    BY <2>3 DEF c
<1>7. ScriptRight(balance, Adding(s))
  BY <1>1, <1>5, AddingRight
<1>8. ScriptRight(balance, script')
  BY <1>3, <1>6, <1>7
<1>9. QED
  BY <1>2, <1>4, <1>8, ScriptStep

LEMMA ScriptOnlyIInv ==
    ASSUME IInv, ScriptOnly, ScriptRight(balance, script')
    PROVE  IInv'
<1>1. bounds' \in [runs : 0..MaxRuns, moves : 0..MaxMoves] /\ UNCHANGED <<balance, queue, executed>>
  BY DEF IInv, ScriptOnly
<1>2. QED
  BY <1>1, ScriptStep

LEMMA ManyIInv ==
    ASSUME IInv, Many
    PROVE  IInv'
<1>1. balance \in Balances /\ script.transfers \in ValidSequences
  BY DEF IInv, ScriptRight, Scripts
<1>2. ScriptRight(balance, Adding(script.transfers)) /\ ScriptRight(balance, Idle)
  BY <1>1, AddingRight, IdleRight
<1>3. ScriptRight(balance, script') /\ ScriptOnly
  BY <1>2 DEF Many
<1>4. QED
  BY <1>3, ScriptOnlyIInv

LEMMA AddingIInv ==
    ASSUME IInv,
           \/ \E a \in Addresses : TokenArrives(a) \/ CheckBalance(a)
           \/ TokenFails
           \/ \E i \in script.open : Accumulate(i)
           \/ Abandon
    PROVE  IInv'
<1> DEFINE b == balance
<1>1. b \in Balances /\ ScriptRight(b, script)
  BY DEF IInv
<1>2. ASSUME NEW a \in Addresses, TokenArrives(a)
      PROVE  ScriptRight(b, script') /\ ScriptOnly
  <2>1. ScriptRight(b, [script EXCEPT !.known = @ \cup {a}])
    BY <1>1, TokenArrivesRight
  <2>2. QED
    BY <1>2, <2>1 DEF TokenArrives
<1>3. ASSUME NEW a \in Addresses, CheckBalance(a)
      PROVE  ScriptRight(b, script') /\ ScriptOnly
  <2>1. CASE ~IsSufficient(a)
    <3>1. ScriptRight(b, [script EXCEPT !.pc = "short"])
      BY <1>1, StoppedRight
    <3>2. QED
      BY <1>3, <2>1, <3>1 DEF CheckBalance
  <2>2. CASE IsSufficient(a)
    <3>1. script.pc = "balances" /\ a \in script.left /\ b[TokenOf[a]][Master] >= script.sums[a]
      BY <1>3, <2>2 DEF CheckBalance, IsSufficient
    <3>2. ScriptRight(b, Passed(script, a))
      BY <1>1, <3>1, CheckBalanceRight
    <3>3. QED
      BY <1>3, <2>2, <3>2 DEF CheckBalance, Passed
  <2>3. QED
    BY <2>1, <2>2
<1>4. ASSUME TokenFails
      PROVE  ScriptRight(b, script') /\ ScriptOnly
  <2>1. ScriptRight(b, [script EXCEPT !.pc = "failed"])
    BY <1>1, StoppedRight
  <2>2. QED
    BY <1>4, <2>1 DEF TokenFails
<1>5. ASSUME NEW i \in script.open, Accumulate(i)
      PROVE  ScriptRight(b, script') /\ ScriptOnly
  <2>1. script.pc = "adding" /\ ScriptOnly
        /\ script' = IF AddedUp(script, i).open # {} THEN AddedUp(script, i)
                     ELSE [AddedUp(script, i) EXCEPT !.pc = "balances", !.left = Listed(script.transfers)]
    BY <1>5 DEF Accumulate, AddedUp
  <2>2. script' = IF AddedUp(script, i).open # {} THEN AddedUp(script, i) ELSE AllAdded(script, i)
    BY <2>1 DEF AllAdded
  <2>3. /\ AddedUp(script, i).open # {} => ScriptRight(b, AddedUp(script, i))
        /\ AddedUp(script, i).open = {} => ScriptRight(b, AllAdded(script, i))
    BY <1>1, <2>1, AccumulateRight
  <2>4. QED
    BY <2>1, <2>2, <2>3
<1>6. ASSUME Abandon
      PROVE  ScriptRight(b, script') /\ ScriptOnly
  BY <1>1, <1>6, IdleRight DEF Abandon
<1>7. ScriptRight(balance, script') /\ ScriptOnly
  BY <1>2, <1>3, <1>4, <1>5, <1>6
<1>8. QED
  BY <1>7, ScriptOnlyIInv

LEMMA SendIInv ==
    ASSUME IInv, Send
    PROVE  IInv'
<1> DEFINE s == script.transfers
           p == [transfers |-> s, spent |-> {}]
<1>1. /\ balance \in Balances /\ ScriptRight(balance, script) /\ QueueRight(balance, queue)
      /\ script \in Scripts /\ s \in Seq(Transfers) /\ Listed(s) \subseteq Addresses
      /\ script.pc = "prompt"
  <2>1. script \in Scripts
    BY DEF IInv, ScriptRight
  <2>2. s \in ValidSequences
    BY <2>1 DEF Scripts
  <2>3. QED
    BY <2>1, <2>2, ValidIsSequence DEF IInv, Send
<1>2. bounds' \in [runs : 0..MaxRuns, moves : 0..MaxMoves] /\ UNCHANGED <<balance, executed>>
  BY DEF IInv, Send
<1> HIDE DEF s
<1>3. CASE After(s).ok
  <2>1. queue' = Append(queue, p) /\ script' = Idle
    BY <1>3 DEF Send, s
  <2>2. p \in Proposals
    BY <1>1 DEF Proposals
  <2>3. Covers(balance, p)
    BY <1>1, <1>3, BundleOutcome DEF Covers
  <2>4. QueueRight(balance, queue')
    BY <1>1, <2>1, <2>2, <2>3, AppendRight
  <2>5. ScriptRight(balance, script')
    BY <1>1, <2>1, IdleRight
  <2>6. QED
    BY <1>2, <2>4, <2>5 DEF IInv
<1>4. CASE ~After(s).ok
  <2>1. script' = [script EXCEPT !.pc = "unfit"] /\ UNCHANGED queue
    BY <1>4 DEF Send, s
  <2>2. TokensIn(s) \cap script.spent # {} \/ SpeltTwice(s)
    <3>1. PICK t \in TokensIn(s) : t \in Tokens /\ ~(Due(s, t) <= balance[t][Master])
      BY <1>1, <1>4, FailingLacks
    <3>2. PICK a \in Listed(s) : TokenOf[a] = t
      BY <3>1 DEF TokensIn
    <3>3. /\ script.open = {} /\ script.left = {}
          /\ \A x \in Listed(s) :
                script.sums[x] <= balance[TokenOf[x]][Master] \/ TokenOf[x] \in script.spent
      BY <1>1 DEF ScriptRight, Compared, s
    <3>4. script.sums[a] = SumFunctionOnSet(Spelt(s, a), DOMAIN s)
      <4>1. DOMAIN s \ {} = DOMAIN s /\ a \in Addresses
        BY <1>1, <3>2
      <4>2. script.sums[a] = SumFunctionOnSet(Spelt(s, a), DOMAIN s \ {})
        BY <1>1, <3>3, <4>1 DEF ScriptRight, Added, s
      <4>3. QED
        BY <4>1, <4>2
    <3>5. ASSUME ~SpeltTwice(s) PROVE t \in script.spent
      <4>1. SumFunctionOnSet(Spelt(s, a), DOMAIN s) = Due(s, t)
        BY <1>1, <3>2, <3>5, SpellingsAndTokens
      <4>2. QED
        BY <3>1, <3>2, <3>3, <3>4, <4>1
    <3>6. QED
      BY <3>1, <3>5
  <2>3. ScriptRight(balance, script')
    BY <1>1, <2>1, <2>2, StoppedRight DEF s
  <2>4. QED
    BY <1>1, <1>2, <2>1, <2>3 DEF IInv
<1>5. QED
  BY <1>3, <1>4

LEMMA ExecuteIInv ==
    ASSUME IInv, Execute
    PROVE  IInv'
<1> DEFINE next == Head(queue)
           s == next.transfers
           after == After(s)
           tokens == IF after.ok THEN TokensIn(s) ELSE {}
           x == [proposal |-> next, ok |-> after.ok]
<1>1. /\ balance \in Balances /\ ScriptRight(balance, script) /\ QueueRight(balance, queue)
      /\ ExecutedRight(balance, executed) /\ queue # <<>>
      /\ bounds' \in [runs : 0..MaxRuns, moves : 0..MaxMoves]
  BY DEF IInv, Execute
<1>2. next \in Proposals /\ Covers(balance, next) /\ QueueRight(balance, Tail(queue))
  BY <1>1, TailRight
<1>3. s \in Seq(Transfers) /\ next.spent \in SUBSET Tokens
  BY <1>2 DEF Proposals
<1>4. /\ balance' = Outcome(after) /\ executed' = Append(executed, x)
      /\ script' = SpentIn(script, tokens) /\ queue' = SpentSince(Tail(queue), tokens)
  BY DEF Execute, SpentBy, SpentIn
<1> HIDE DEF next, s
<1>5. /\ after.ok \in BOOLEAN /\ after.balance \in Balances
      /\ after.ok =>
            \A t \in Tokens :
                /\ after.balance[t][Master] = balance[t][Master] - Due(s, t)
                /\ \A r \in Receivers :
                      after.balance[t][r] = balance[t][r] + AmountTo(s, t, r)
  BY <1>1, <1>3, BundleOutcome
<1>6. balance' = (IF after.ok THEN after.balance ELSE balance) /\ balance' \in Balances
  BY <1>1, <1>4, <1>5 DEF Outcome
<1>7. tokens \in SUBSET Tokens
  <2>1. TokensIn(s) \subseteq Tokens
    <3>1. \A i \in DOMAIN s : TokenOf[s[i].address] \in Tokens
      BY <1>3, ValuesOfTransfers
    <3>2. QED
      BY <3>1 DEF TokensIn, Listed
  <2>2. QED
    BY <2>1
<1>8. LessOf(balance, balance', tokens)
  <2>1. ASSUME NEW t \in Tokens \ tokens
        PROVE  balance[t][Master] <= balance'[t][Master]
    <3>1. balance[t][Master] \in Nat
      BY <1>1, MasterNatural
    <3>2. CASE after.ok
      <4>1. t \notin TokensIn(s)
        BY <2>1, <3>2
      <4>2. Due(s, t) = 0
        BY <1>3, <4>1, DueIsNatural
      <4>3. balance'[t][Master] = balance[t][Master] - 0
        BY <1>5, <1>6, <3>2, <4>2
      <4>4. QED
        BY <3>1, <4>3
    <3>3. CASE ~after.ok
      BY <1>6, <3>1, <3>3
    <3>4. QED
      BY <3>2, <3>3
  <2>2. QED
    BY <2>1 DEF LessOf
<1>9. x \in Executions
  BY <1>2, <1>5 DEF Executions
<1>10. x.ok \/ TokensIn(x.proposal.transfers) \cap x.proposal.spent # {}
  <2>1. ASSUME ~after.ok
        PROVE  TokensIn(s) \cap next.spent # {}
    <3>1. PICK t \in TokensIn(s) : t \in Tokens /\ ~(Due(s, t) <= balance[t][Master])
      BY <1>1, <1>3, <2>1, FailingLacks
    <3>2. t \in next.spent
      BY <1>2, <3>1 DEF Covers, s
    <3>3. QED
      BY <3>1, <3>2
  <2>2. QED
    BY <2>1 DEF s
<1> HIDE DEF after, tokens
<1>11. ScriptRight(balance', script')
  BY <1>1, <1>4, <1>6, <1>7, <1>8, ScriptWhenFundsMove
<1>12. QueueRight(balance', queue')
  BY <1>1, <1>2, <1>4, <1>6, <1>7, <1>8, QueueWhenFundsMove
<1>13. ExecutedRight(balance', executed')
  <2>1. executed \in Seq(Executions) /\ Len(executed) \in Nat /\ DOMAIN executed = 1..Len(executed)
    BY <1>1 DEF ExecutedRight
  <2>2. /\ executed' \in Seq(Executions) /\ DOMAIN executed' = 1..(Len(executed) + 1)
        /\ \A i \in 1..Len(executed) : executed'[i] = executed[i]
        /\ executed'[Len(executed) + 1] = x
    BY <1>4, <1>9, <2>1
  <2>3. \A i \in DOMAIN executed' : i \in DOMAIN executed \/ i = Len(executed) + 1
    BY <2>1, <2>2
  <2>4. ASSUME NEW i \in DOMAIN executed'
        PROVE  executed'[i].ok \/ TokensIn(executed'[i].proposal.transfers)
                                    \cap executed'[i].proposal.spent # {}
    <3>1. CASE i \in DOMAIN executed
      BY <1>1, <2>1, <2>2, <3>1 DEF ExecutedRight
    <3>2. CASE i = Len(executed) + 1
      <4> HIDE DEF x
      <4>1. QED
        BY <1>10, <2>2, <3>2
    <3>3. QED
      BY <2>3, <3>1, <3>2
  <2>5. ASSUME NEW t \in Tokens, NEW r \in Receivers
        PROVE  balance'[t][r] = SumFunctionOnSet(PaidBy(executed', t, r), DOMAIN executed')
    <3> DEFINE paid == IF x.ok THEN AmountTo(x.proposal.transfers, t, r) ELSE 0
               total == SumFunctionOnSet(PaidBy(executed, t, r), DOMAIN executed)
    <3>1. SumFunctionOnSet(PaidBy(executed', t, r), DOMAIN executed') = total + paid
          /\ total \in Int
      BY <1>4, <1>9, <2>1, OneMorePaid
    <3>2. balance[t][r] = total
      BY <1>1 DEF ExecutedRight
    <3>3. paid = IF after.ok THEN AmountTo(s, t, r) ELSE 0
      BY DEF s
    <3>4. balance'[t][r] = balance[t][r] + paid
      <4>1. CASE after.ok
        BY <1>5, <1>6, <3>3, <4>1
      <4>2. CASE ~after.ok
        BY <1>6, <3>1, <3>2, <3>3, <4>2
      <4>3. QED
        BY <4>1, <4>2
    <3> HIDE DEF paid, total
    <3>5. QED
      BY <3>1, <3>2, <3>4
  <2>6. QED
    BY <2>2, <2>4, <2>5 DEF ExecutedRight
<1>14. QED
  BY <1>1, <1>6, <1>11, <1>12, <1>13 DEF IInv

LEMMA MovesCounted ==
    ASSUME IInv, Moves
    PROVE  bounds' \in [runs : 0..MaxRuns, moves : 0..MaxMoves]
<1>1. bounds \in [runs : 0..MaxRuns, moves : 0..MaxMoves]
  BY DEF IInv
<1>2. MaxMoves \in Nat /\ bounds.moves \in 0..MaxMoves /\ bounds.moves < MaxMoves
  BY <1>1, AirdropAssumption DEF Moves
<1>3. bounds.moves + 1 \in 0..MaxMoves
  BY <1>2
<1>4. bounds' = [bounds EXCEPT !.moves = bounds.moves + 1]
  BY DEF Moves
<1>5. QED
  BY <1>1, <1>3, <1>4

(* What the Safe has of one token changes.                                 *)
WithMaster(b, t, n) == [b EXCEPT ![t][Master] = n]

LEMMA MasterChanges ==
    ASSUME NEW b \in Balances, NEW t \in Tokens, NEW n \in Nat
    PROVE  /\ WithMaster(b, t, n) \in Balances
           /\ WithMaster(b, t, n)[t][Master] = n
           /\ \A u \in Tokens \ {t} : WithMaster(b, t, n)[u] = b[u]
           /\ \A u \in Tokens, r \in Receivers : WithMaster(b, t, n)[u][r] = b[u][r]
BY AirdropAssumption DEF WithMaster, Balances, Accounts

LEMMA SpendIInv ==
    ASSUME IInv, NEW t \in Tokens, NEW n \in Amounts, Spend(t, n)
    PROVE  IInv'
<1>1. /\ balance \in Balances /\ ScriptRight(balance, script) /\ QueueRight(balance, queue)
      /\ ExecutedRight(balance, executed)
  BY DEF IInv
<1>2. n \in Nat /\ balance[t][Master] \in Nat /\ balance[t][Master] >= n
  BY <1>1, MasterNatural, AirdropAssumption DEF Spend
<1>3. /\ balance' = WithMaster(balance, t, balance[t][Master] - n)
      /\ script' = SpentIn(script, {t}) /\ queue' = SpentSince(queue, {t})
      /\ executed' = executed /\ Moves
  BY DEF Spend, SpentBy, SpentIn, WithMaster
<1>4. /\ balance' \in Balances
      /\ \A u \in Tokens \ {t} : balance'[u] = balance[u]
      /\ \A u \in Tokens, r \in Receivers : balance'[u][r] = balance[u][r]
  <2>1. balance[t][Master] - n \in Nat
    BY <1>2
  <2>2. QED
    BY <1>1, <1>3, <2>1, MasterChanges
<1>5. LessOf(balance, balance', {t})
  BY <1>1, <1>4, MasterNatural DEF LessOf
<1>6. ScriptRight(balance', script')
  BY <1>1, <1>3, <1>4, <1>5, ScriptWhenFundsMove
<1>7. QueueRight(balance', queue')
  BY <1>1, <1>3, <1>4, <1>5, QueueWhenFundsMove
<1>8. ExecutedRight(balance', executed')
  BY <1>1, <1>3, <1>4 DEF ExecutedRight
<1>9. QED
  BY <1>3, <1>4, <1>6, <1>7, <1>8, MovesCounted DEF IInv

LEMMA ReceiveIInv ==
    ASSUME IInv, NEW t \in Tokens, NEW n \in Amounts, Receive(t, n)
    PROVE  IInv'
<1>1. /\ balance \in Balances /\ ScriptRight(balance, script) /\ QueueRight(balance, queue)
      /\ ExecutedRight(balance, executed)
  BY DEF IInv
<1>2. n \in Nat /\ balance[t][Master] \in Nat
  BY <1>1, MasterNatural, AirdropAssumption
<1>3. /\ balance' = WithMaster(balance, t, balance[t][Master] + n)
      /\ script' = script /\ queue' = queue /\ executed' = executed /\ Moves
  BY DEF Receive, WithMaster
<1>4. /\ balance' \in Balances /\ balance'[t][Master] = balance[t][Master] + n
      /\ \A u \in Tokens \ {t} : balance'[u] = balance[u]
      /\ \A u \in Tokens, r \in Receivers : balance'[u][r] = balance[u][r]
  <2>1. PICK m \in Nat : m = balance[t][Master] + n
    BY <1>2
  <2>2. balance' = WithMaster(balance, t, m)
    BY <1>3, <2>1
  <2>3. QED
    BY <1>1, <2>1, <2>2, MasterChanges, SMTT(30)
<1>5. LessOf(balance, balance', {})
  <2>1. ASSUME NEW u \in Tokens
        PROVE  balance[u][Master] <= balance'[u][Master]
    <3>1. balance[u][Master] \in Nat
      BY <1>1, MasterNatural
    <3>2. QED
      BY <1>2, <1>4, <3>1
  <2>2. QED
    BY <2>1 DEF LessOf
<1>6. ScriptRight(balance', script') /\ QueueRight(balance', queue')
  BY <1>1, <1>3, <1>4, <1>5, RightWithMore
<1>7. ExecutedRight(balance', executed')
  BY <1>1, <1>3, <1>4 DEF ExecutedRight
<1>8. QED
  BY <1>3, <1>4, <1>6, <1>7, MovesCounted DEF IInv

LEMMA NextIInv ==
    ASSUME IInv, [Next]_vars
    PROVE  IInv'
<1>1. ASSUME NEW file \in Files, Start(file) PROVE IInv'
  BY <1>1, StartIInv
<1>2. CASE Many
  BY <1>2, ManyIInv
<1>3. CASE \/ \E a \in Addresses : TokenArrives(a) \/ CheckBalance(a)
           \/ TokenFails
           \/ \E i \in script.open : Accumulate(i)
           \/ Abandon
  BY <1>3, AddingIInv
<1>4. CASE Send
  BY <1>4, SendIInv
<1>5. CASE Execute
  BY <1>5, ExecuteIInv
<1>6. ASSUME NEW t \in Tokens, NEW n \in Amounts, Spend(t, n) PROVE IInv'
  BY <1>6, SpendIInv
<1>7. ASSUME NEW t \in Tokens, NEW n \in Amounts, Receive(t, n) PROVE IInv'
  BY <1>7, ReceiveIInv
<1>8. CASE UNCHANGED vars
  BY <1>8 DEF vars, IInv
<1>9. QED
  BY <1>1, <1>2, <1>3, <1>4, <1>5, <1>6, <1>7, <1>8 DEF Next
-----------------------------------------------------------------------------
(***************************************************************************)
(* The theorems.                                                           *)
(***************************************************************************)
(* In every reachable state, the sums are those of the callbacks that ran, *)
(* what was compared or estimated is there or was spent since, and         *)
(* receivers have what the airdrops that succeeded say                     *)
(* (scripts/utils/trading_strategy_helpers.js:601-652).                    *)
THEOREM Invariance == Spec => []IInv
<1>1. Init => IInv
  BY InitIInv
<1>2. IInv /\ [Next]_vars => IInv'
  BY NextIInv
<1>3. QED
  BY <1>1, <1>2, PTL DEF Spec

(* Funds never become negative, sums are of addresses that the file lists, *)
(* and a script that adds up waits for some callback.                      *)
THEOREM TypesAreRight == Spec => []TypeOK
<1>1. IInv => TypeOK
  <2>1. ASSUME IInv PROVE TypeOK
    <3>1. /\ script \in Scripts /\ script.open \subseteq DOMAIN script.transfers
          /\ script.pc = "adding" => script.open # {}
      BY <2>1 DEF IInv, ScriptRight
    <3>2. balance \in [Tokens -> [Receivers \cup {Master} -> Nat]]
      BY <2>1 DEF IInv, Balances, Accounts
    <3>3. queue \in Seq(Proposals) /\ executed \in Seq([proposal : Proposals, ok : BOOLEAN])
      BY <2>1 DEF IInv, QueueRight, ExecutedRight, Executions
    <3>4. bounds \in [runs : 0..MaxRuns, moves : 0..MaxMoves]
      BY <2>1 DEF IInv
    <3>5. /\ script.pc \in {"idle", "many", "adding", "balances", "prompt", "failed", "short", "unfit"}
          /\ script.transfers \in Seq({transfer \in Transfers : transfer.amount > 0})
          /\ script.known \subseteq Addresses /\ script.sums \in [Addresses -> Nat]
          /\ script.left \subseteq Addresses /\ script.spent \subseteq Tokens
      BY <3>1 DEF Scripts, ValidSequences
    <3>6. QED
      BY <3>1, <3>2, <3>3, <3>4, <3>5 DEF TypeOK
  <2>2. QED
    BY <2>1
<1>2. QED
  BY <1>1, Invariance, PTL

(* What the comparison let pass is only refused by the estimate, and what  *)
(* was estimated only fails when it is executed, if the Safe spent of its  *)
(* tokens in between or a token was spelt in two ways                      *)
(* (scripts/utils/trading_strategy_helpers.js:635-652).                    *)
THEOREM CheckedAirdropsArePaid == Spec => []CheckedAirdropIsPaid
<1>1. IInv => CheckedAirdropIsPaid
  BY DEF IInv, ScriptRight, Refused, ExecutedRight, CheckedAirdropIsPaid
<1>2. QED
  BY <1>1, Invariance, PTL

(* Receivers have all or nothing of every airdrop that was executed, with  *)
(* any number of transfers and airdrops                                    *)
(* (test/scripts/test_airdrop.js:170-198).                                 *)
THEOREM AllOrNothingIsPaid == Spec => []PaidInFull
<1>1. IInv => PaidInFull
  BY DEF IInv, ExecutedRight, PaidBy, PaidInFull
<1>2. QED
  BY <1>1, Invariance, PTL

(* The comparison per spelling never refuses a file that the Safe could    *)
(* have paid: what one spelling needs, its token needs                     *)
(* (scripts/utils/trading_strategy_helpers.js:640-648).                    *)
THEOREM RefusalsAreJustified == Spec => RefusalIsJustified
<1>1. ASSUME IInv, [Next]_vars, script.pc # "short", script'.pc = "short"
      PROVE  ~After(script.transfers).ok
  <2>1. /\ balance \in Balances /\ ScriptRight(balance, script) /\ script \in Scripts
        /\ script.transfers \in ValidSequences
    BY <1>1 DEF IInv, ScriptRight, Scripts
  <2>2. script.transfers \in Seq(Transfers)
    BY <2>1, ValidIsSequence
  <2>3. PICK a \in Addresses : CheckBalance(a)
    <3>1. \A s : Adding(s).pc # "short"
      BY DEF Adding, Idle
    <3>2. Idle.pc # "short"
      BY DEF Idle
    <3>3. ASSUME NEW file \in Files, Start(file) PROVE FALSE
      <4>1. [Idle EXCEPT !.pc = "many", !.transfers = ValidTransfers(file)].pc # "short"
        BY DEF Idle
      <4>2. QED
        BY <1>1, <3>1, <3>3, <4>1 DEF Start
    <3>4. ~Many /\ ~Abandon
      BY <1>1, <3>1, <3>2 DEF Many, Abandon
    <3>5. ASSUME NEW a \in Addresses, TokenArrives(a) PROVE FALSE
      BY <1>1, <2>1, <3>5 DEF TokenArrives, Scripts
    <3>6. ~TokenFails
      BY <1>1, <2>1 DEF TokenFails, Scripts
    <3>7. ASSUME NEW i \in script.open, Accumulate(i) PROVE FALSE
      BY <1>1, <2>1, <3>7 DEF Accumulate, Scripts
    <3>8. ~Send
      BY <1>1, <2>1, <3>2 DEF Send, Scripts
    <3>9. \A tokens : SpentBy(tokens).pc = script.pc
      BY <2>1 DEF SpentBy, Scripts
    <3>10. ~Execute
      BY <1>1, <3>9 DEF Execute
    <3>11. ASSUME NEW t \in Tokens, NEW n \in Amounts, Spend(t, n) \/ Receive(t, n) PROVE FALSE
      BY <1>1, <3>9, <3>11 DEF Spend, Receive
    <3>12. ~UNCHANGED vars
      BY <1>1 DEF vars
    <3>13. QED
      BY <1>1, <3>3, <3>4, <3>5, <3>6, <3>7, <3>8, <3>10, <3>11, <3>12 DEF Next
  <2>4. script.pc = "balances" /\ ~IsSufficient(a)
    <3>1. CASE IsSufficient(a)
      <4>1. script' = Passed(script, a) /\ script.pc = "balances"
        BY <2>3, <3>1 DEF CheckBalance, Passed
      <4>2. Passed(script, a).pc \in {"prompt", "balances"}
        BY <2>1, <4>1 DEF Passed, Scripts
      <4>3. QED
        BY <1>1, <4>1, <4>2
    <3>2. QED
      BY <2>3, <3>1 DEF CheckBalance
  <2> DEFINE s == script.transfers
             t == TokenOf[a]
  <2>5. script.sums[a] = SumFunctionOnSet(Spelt(s, a), DOMAIN s)
    <3>1. script.open = {} /\ DOMAIN s \ {} = DOMAIN s
      BY <2>1, <2>4 DEF ScriptRight, Compared
    <3>2. script.sums[a] = SumFunctionOnSet(Spelt(s, a), DOMAIN s \ script.open)
      BY <2>1, <2>4 DEF ScriptRight, Added
    <3>3. QED
      BY <3>1, <3>2
  <2>6. script.sums[a] <= Due(s, t)
    BY <2>2, <2>5, SpellingsAndTokens
  <2>7. /\ t \in Tokens /\ script.sums[a] \in Nat /\ balance[t][Master] \in Nat
        /\ Due(s, t) \in Nat /\ ~(balance[t][Master] >= script.sums[a])
    BY <2>1, <2>2, <2>4, MasterNatural, DueIsNatural, AirdropAssumption DEF Scripts, IsSufficient
  <2>8. ~(Due(s, t) <= balance[t][Master])
    BY <2>6, <2>7
  <2>9. QED
    BY <2>1, <2>2, <2>7, <2>8, BundleOutcome
<1>2. IInv /\ [Next]_vars =>
         [script.pc # "short" /\ script'.pc = "short" => ~After(script.transfers).ok]_vars
  BY <1>1
<1>3. QED
  BY <1>2, Invariance, PTL DEF Spec, RefusalIsJustified
=============================================================================
